----------------------------- MODULE RateLimiter -----------------------------
(***************************************************************************)
(* RateLimiter::acquire (src/src/llm/rate_limiter.cpp) as run by the       *)
(* threads that share one limiter.  Tokens are integers: a token is Unit,  *)
(* requests_per_second_ is Rate units per clock tick, max_bucket_size_ is  *)
(* MaxBucket units.                                                        *)
(*                                                                         *)
(* Bounds: a thread makes Requests calls, and at most MaxLag ticks pass    *)
(* while some thread could run (the scheduler's delay); the clock is free  *)
(* to advance while every unfinished thread sleeps.                        *)
(***************************************************************************)
EXTENDS Integers, Sequences

CONSTANTS Threads, None,
          Unit, Rate, MaxBucket,
          Requests, MaxLag

ASSUME LimiterAssumption ==
  /\ None \notin Threads
  /\ Unit \in Nat \ {0}
  /\ Rate \in Nat \ {0}
  /\ MaxBucket \in Nat
  /\ Requests \in Nat
  /\ MaxLag \in Nat

VARIABLES
  available_tokens, last_refill, mutex,   \* members of the RateLimiter
  clock, lag,                             \* steady_clock, scheduler delay used
  pc, now, wake, requests,                \* per thread
  grants                                  \* history: one record per return

limiter == << available_tokens, last_refill, mutex >>
vars == << limiter, clock, lag, pc, now, wake, requests, grants >>

-----------------------------------------------------------------------------
Smaller(a, b) == IF a <= b THEN a ELSE b
Larger(a, b)  == IF a <= b THEN b ELSE a

-----------------------------------------------------------------------------
(* Ways this code could be wrong, for the mutation checks.                 *)

Goto(t, label) == pc' = [pc EXCEPT ![t] = label]

\* The critical section is entered without the mutex.
Unlocked(t) ==
  /\ pc[t] = "lock"
  /\ mutex' = t
  /\ Goto(t, "read")
  /\ UNCHANGED << available_tokens, last_refill, clock, lag, now, wake, requests, grants >>

\* Any fraction of a token is enough.
TakeFraction(t) ==
  /\ pc[t] = "check"
  /\ available_tokens > 0
  /\ available_tokens' = Larger(0, available_tokens - Unit)
  /\ mutex' = None
  /\ grants' = Append(grants, [at |-> now[t], returned |-> clock])
  /\ Goto(t, "idle")
  /\ UNCHANGED << last_refill, clock, lag, now, wake, requests >>

\* The thread spins on its wait, which is over, without trying again.
WakeSpinning(t) ==
  /\ pc[t] = "sleep"
  /\ clock >= wake[t]
  /\ UNCHANGED vars

-----------------------------------------------------------------------------
Refilled(tokens, elapsed) == Smaller(MaxBucket, tokens + elapsed * Rate)

\* sleep_for truncates the wait to the clock's grain, so a thread may wake
\* before its token has accrued; any sleep lasts at least one tick.
SleepTicks(tokens) == Larger(1, (Unit - tokens) \div Rate)

Init ==
  /\ available_tokens = MaxBucket
  /\ last_refill = 0
  /\ mutex = None
  /\ clock = 0
  /\ lag = 0
  /\ pc = [t \in Threads |-> "idle"]
  /\ now = [t \in Threads |-> 0]
  /\ wake = [t \in Threads |-> 0]
  /\ requests = [t \in Threads |-> Requests]
  /\ grants = << >>

\* A caller enters acquire().
Call(t) ==
  /\ pc[t] = "idle"
  /\ requests[t] > 0
  /\ requests' = [requests EXCEPT ![t] = @ - 1]
  /\ Goto(t, "lock")
  /\ UNCHANGED << limiter, clock, lag, now, wake, grants >>

\* unique_lock on entry, and lock.lock() after the sleep.
Lock(t) ==
  /\ pc[t] = "lock"
  /\ mutex = None
  /\ mutex' = t
  /\ Goto(t, "read")
  /\ UNCHANGED << available_tokens, last_refill, clock, lag, now, wake, requests, grants >>

ReadClock(t) ==
  /\ pc[t] = "read"
  /\ now' = [now EXCEPT ![t] = clock]
  /\ Goto(t, "refill")
  /\ UNCHANGED << limiter, clock, lag, wake, requests, grants >>

Refill(t) ==
  /\ pc[t] = "refill"
  /\ available_tokens' = Refilled(available_tokens, now[t] - last_refill)
  /\ last_refill' = now[t]
  /\ Goto(t, "check")
  /\ UNCHANGED << mutex, clock, lag, now, wake, requests, grants >>

\* A token is there: spend it and return, which releases the lock.
Take(t) ==
  /\ pc[t] = "check"
  /\ available_tokens >= Unit
  /\ available_tokens' = available_tokens - Unit
  /\ mutex' = None
  /\ grants' = Append(grants, [at |-> now[t], returned |-> clock])
  /\ Goto(t, "idle")
  /\ UNCHANGED << last_refill, clock, lag, now, wake, requests >>

\* No token: unlock and sleep for the deficit.
Backoff(t) ==
  /\ pc[t] = "check"
  /\ available_tokens < Unit
  /\ mutex' = None
  /\ wake' = [wake EXCEPT ![t] = clock + SleepTicks(available_tokens)]
  /\ Goto(t, "sleep")
  /\ UNCHANGED << available_tokens, last_refill, clock, lag, now, requests, grants >>

Wake(t) ==
  /\ pc[t] = "sleep"
  /\ clock >= wake[t]
  /\ Goto(t, "lock")
  /\ UNCHANGED << limiter, clock, lag, now, wake, requests, grants >>

Finished(t) == pc[t] = "idle" /\ requests[t] = 0
Asleep(t)   == pc[t] = "sleep" /\ clock < wake[t]

Tick ==
  /\ \E t \in Threads : ~Finished(t)
  /\ \/ /\ \A t \in Threads : Finished(t) \/ Asleep(t)
        /\ UNCHANGED lag
     \/ /\ lag < MaxLag
        /\ lag' = lag + 1
  /\ clock' = clock + 1
  /\ UNCHANGED << limiter, pc, now, wake, requests, grants >>

Step(t) ==
  \/ Call(t) \/ Lock(t) \/ ReadClock(t) \/ Refill(t)
  \/ Take(t) \/ Backoff(t) \/ Wake(t)

\* Every call has returned: nothing is left to happen.
Terminated == (\A t \in Threads : Finished(t)) /\ UNCHANGED vars

Next == Tick \/ Terminated \/ \E t \in Threads : Step(t)

Spec == Init /\ [][Next]_vars

\* Each thread keeps running and time passes.  std::mutex promises no fair
\* hand-over, so Lock gets weak fairness only.
FairSpec == Spec /\ WF_vars(Tick) /\ \A t \in Threads : WF_vars(Step(t))

-----------------------------------------------------------------------------
InCriticalSection(t) == pc[t] \in {"read", "refill", "check"}

TypeOK ==
  /\ available_tokens \in 0..MaxBucket
  /\ last_refill \in Nat
  /\ mutex \in Threads \cup {None}
  /\ clock \in Nat
  /\ lag \in 0..MaxLag
  /\ pc \in [Threads -> {"idle", "lock", "read", "refill", "check", "sleep"}]
  /\ now \in [Threads -> Nat]
  /\ wake \in [Threads -> Nat]
  /\ requests \in [Threads -> 0..Requests]
  /\ grants \in Seq([at : Nat, returned : Nat])

\* The limiter's quota, at the clock reading each grant was decided on: any
\* run of consecutive grants costs no more than a full bucket plus what the
\* time between the first and the last of them refills
\* (rate_limiter.hpp:10-17, "against one combined quota").
WindowQuota ==
  \A i, j \in 1..Len(grants) :
     i <= j => Unit * (j - i + 1) <= MaxBucket + Rate * (grants[j].at - grants[i].at)

\* The same as the callers see it, at the time acquire() returns.  A thread
\* held up between reading the clock and returning reports a later time than
\* it was charged for; as it holds the mutex meanwhile, at most one grant too
\* many falls into any stretch of time.
ReturnQuota ==
  \A i, j \in 1..Len(grants) :
     i <= j => Unit * (j - i) <= MaxBucket + Rate * (grants[j].returned - grants[i].returned)

\* Decisions are serialised by the mutex: each is made on a clock reading
\* taken after the previous caller had returned.
Serialised ==
  \A i, j \in 1..Len(grants) : i < j => grants[i].returned <= grants[j].at

\* Every caller gets its token in the end, whoever else waits for the lock.
EveryCallerServed ==
  \A t \in Threads : pc[t] = "lock" ~> pc[t] = "idle"

-----------------------------------------------------------------------------
\* The limiter keeps the promise of RequestQuota.
Times == [i \in 1..Len(grants) |-> grants[i].at]
Quota == INSTANCE RequestQuota WITH issued <- Times, Burst <- MaxBucket
QuotaSpec == Quota!Spec
=============================================================================
