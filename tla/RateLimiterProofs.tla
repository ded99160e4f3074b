-------------------------- MODULE RateLimiterProofs --------------------------
(***************************************************************************)
(* For every set of threads, rate, bucket and number of requests, the      *)
(* limiter's callers stay within its quota.  Quota statements about grants *)
(* i..j are carried by one statement per grant: the bucket's contents and  *)
(* the grants since i are paid for by a full bucket and the refills since  *)
(* i (BucketPays).  The rest of the invariant says that the mutex          *)
(* serialises the three steps of the critical section.                     *)
(***************************************************************************)
EXTENDS RateLimiter, SequenceTheorems, TLAPS

USE LimiterAssumption

MutexHeld == \A t \in Threads : InCriticalSection(t) <=> mutex = t

\* Clock readings are not in the future, and not before the last refill.
ClockOrder ==
  /\ last_refill <= clock
  /\ \A t \in Threads :
       /\ now[t] <= clock
       /\ pc[t] = "refill" => last_refill <= now[t]
       /\ pc[t] = "check" => last_refill = now[t]
  /\ \A i \in 1..Len(grants) :
       /\ grants[i].at <= last_refill
       /\ grants[i].at <= grants[i].returned
       /\ grants[i].returned <= clock

\* A reading taken under the mutex is taken after every earlier return.
ReadingAfterReturns ==
  \A t \in Threads : pc[t] \in {"refill", "check"} =>
     \A i \in 1..Len(grants) : grants[i].returned <= now[t]

\* What the grants since i cost, and what is left in the bucket.
Spent(i) == Unit * (Len(grants) - i + 1) + available_tokens

BucketPays ==
  \A i \in 1..Len(grants) : Spent(i) <= MaxBucket + Rate * (last_refill - grants[i].at)

IInv ==
  /\ TypeOK
  /\ MutexHeld
  /\ ClockOrder
  /\ ReadingAfterReturns
  /\ BucketPays
  /\ WindowQuota
  /\ Serialised

-----------------------------------------------------------------------------
LEMMA RefilledBounds ==
  ASSUME NEW tokens \in 0..MaxBucket, NEW elapsed \in Nat
  PROVE  /\ Refilled(tokens, elapsed) \in 0..MaxBucket
         /\ Refilled(tokens, elapsed) <= tokens + Rate * elapsed
  <1>1. elapsed * Rate \in Nat /\ elapsed * Rate = Rate * elapsed
    OBVIOUS
  <1>2. QED
    BY <1>1 DEF Refilled, Smaller

LEMMA SleepTicksPositive ==
  ASSUME NEW tokens \in 0..MaxBucket, tokens < Unit
  PROVE  SleepTicks(tokens) \in Nat
  <1>1. (Unit - tokens) \div Rate \in Int
    OBVIOUS
  <1>2. QED
    BY <1>1 DEF SleepTicks, Larger

-----------------------------------------------------------------------------
(* One lemma per conjunct of the invariant that a step can disturb.        *)

LEMMA InitEstablishes == Init => IInv
  BY DEF Init, IInv, TypeOK, MutexHeld, InCriticalSection, ClockOrder,
         ReadingAfterReturns, BucketPays, WindowQuota, Serialised

LEMMA TypeStep == IInv /\ [Next]_vars => TypeOK'
  <1> SUFFICES ASSUME IInv, [Next]_vars
               PROVE  TypeOK'
    OBVIOUS
  <1> USE DEF IInv, TypeOK, Goto, limiter
  <1>1. CASE Tick
    BY <1>1 DEF Tick
  <1>2. ASSUME NEW t \in Threads, Call(t) PROVE TypeOK'
    BY <1>2 DEF Call
  <1>3. ASSUME NEW t \in Threads, Lock(t) PROVE TypeOK'
    BY <1>3 DEF Lock
  <1>4. ASSUME NEW t \in Threads, ReadClock(t) PROVE TypeOK'
    BY <1>4 DEF ReadClock
  <1>5. ASSUME NEW t \in Threads, Refill(t) PROVE TypeOK'
    <2>1. now[t] - last_refill \in Nat
      BY <1>5 DEF Refill, ClockOrder
    <2>2. available_tokens' \in 0..MaxBucket
      BY <1>5, <2>1, RefilledBounds DEF Refill
    <2>3. QED
      BY <1>5, <2>2 DEF Refill
  <1>6. ASSUME NEW t \in Threads, Take(t) PROVE TypeOK'
    <2>1. available_tokens' \in 0..MaxBucket
      BY <1>6 DEF Take
    <2>2. grants' \in Seq([at : Nat, returned : Nat])
      BY <1>6 DEF Take
    <2>3. QED
      BY <1>6, <2>1, <2>2 DEF Take
  <1>7. ASSUME NEW t \in Threads, Backoff(t) PROVE TypeOK'
    <2>1. SleepTicks(available_tokens) \in Nat
      BY <1>7, SleepTicksPositive DEF Backoff
    <2>2. QED
      BY <1>7, <2>1 DEF Backoff
  <1>8. ASSUME NEW t \in Threads, Wake(t) PROVE TypeOK'
    BY <1>8 DEF Wake
  <1>9. CASE UNCHANGED vars
    BY <1>9 DEF vars
  <1>10. QED
    BY <1>1, <1>2, <1>3, <1>4, <1>5, <1>6, <1>7, <1>8, <1>9
    DEF Next, Step, Terminated

LEMMA MutexStep == IInv /\ [Next]_vars => MutexHeld'
  <1> SUFFICES ASSUME IInv, [Next]_vars
               PROVE  MutexHeld'
    OBVIOUS
  <1> USE DEF IInv, TypeOK, MutexHeld, InCriticalSection, Goto, limiter
  <1>1. CASE Tick
    BY <1>1 DEF Tick
  <1>2. ASSUME NEW t \in Threads, Step(t) PROVE MutexHeld'
    <2>1. CASE Call(t) \/ ReadClock(t) \/ Refill(t) \/ Wake(t)
      BY <2>1 DEF Call, ReadClock, Refill, Wake
    <2>2. CASE Lock(t)
      BY <2>2 DEF Lock
    <2>3. CASE Take(t) \/ Backoff(t)
      BY <2>3 DEF Take, Backoff
    <2>4. QED
      BY <1>2, <2>1, <2>2, <2>3 DEF Step
  <1>3. CASE UNCHANGED vars
    BY <1>3 DEF vars
  <1>4. QED
    BY <1>1, <1>2, <1>3 DEF Next, Terminated

LEMMA GrantTypes ==
  TypeOK => /\ Len(grants) \in Nat
            /\ \A i \in 1..Len(grants) : grants[i].at \in Nat /\ grants[i].returned \in Nat
  <1> SUFFICES ASSUME TypeOK
               PROVE  /\ Len(grants) \in Nat
                      /\ \A i \in 1..Len(grants) :
                            grants[i].at \in Nat /\ grants[i].returned \in Nat
    OBVIOUS
  <1>1. grants \in Seq([at : Nat, returned : Nat])
    BY DEF TypeOK
  <1>2. Len(grants) \in Nat
    BY <1>1, LenProperties
  <1>3. \A i \in 1..Len(grants) : grants[i] \in [at : Nat, returned : Nat]
    BY <1>1, ElementOfSeq
  <1>4. QED
    BY <1>2, <1>3

LEMMA Taken ==
  ASSUME TypeOK, NEW t \in Threads, Take(t)
  PROVE  /\ Len(grants') = Len(grants) + 1
         /\ grants'[Len(grants) + 1].at = now[t]
         /\ grants'[Len(grants) + 1].returned = clock
         /\ \A i \in 1..Len(grants) : grants'[i] = grants[i]
  BY DEF Take, TypeOK

LEMMA ClockStep == IInv /\ [Next]_vars => ClockOrder' /\ ReadingAfterReturns'
  <1> SUFFICES ASSUME IInv, [Next]_vars
               PROVE  ClockOrder' /\ ReadingAfterReturns'
    OBVIOUS
  <1> DEFINE Readers == {"refill", "check"}
  <1>0. /\ clock \in Nat /\ last_refill \in Nat
        /\ pc \in [Threads -> {"idle", "lock", "read", "refill", "check", "sleep"}]
        /\ now \in [Threads -> Nat]
        /\ Len(grants) \in Nat
        /\ \A i \in 1..Len(grants) : grants[i].at \in Nat /\ grants[i].returned \in Nat
    BY GrantTypes DEF IInv, TypeOK
  <1>a. ClockOrder /\ ReadingAfterReturns
    BY DEF IInv
  <1> USE DEF ClockOrder, ReadingAfterReturns, Goto, limiter
  <1>1. CASE Tick
    BY <1>0, <1>a, <1>1 DEF Tick
  <1>2. ASSUME NEW t \in Threads, Call(t) \/ Lock(t) \/ Wake(t)
        PROVE  ClockOrder' /\ ReadingAfterReturns'
    BY <1>0, <1>a, <1>2 DEF Call, Lock, Wake
  <1>3. ASSUME NEW t \in Threads, ReadClock(t)
        PROVE  ClockOrder' /\ ReadingAfterReturns'
    BY <1>0, <1>a, <1>3 DEF ReadClock
  <1>4. ASSUME NEW t \in Threads, Refill(t)
        PROVE  ClockOrder' /\ ReadingAfterReturns'
    <2>1. \A u \in Threads : u # t => pc[u] \notin Readers
      BY <1>4 DEF Refill, IInv, MutexHeld, InCriticalSection
    <2>2. last_refill <= now[t] /\ now[t] <= clock
      BY <1>0, <1>a, <1>4 DEF Refill
    <2>3. ClockOrder'
      BY <1>0, <1>a, <1>4, <2>1, <2>2 DEF Refill
    <2>4. ReadingAfterReturns'
      BY <1>0, <1>a, <1>4 DEF Refill
    <2>5. QED
      BY <2>3, <2>4
  <1>5. ASSUME NEW t \in Threads, Take(t)
        PROVE  ClockOrder' /\ ReadingAfterReturns'
    <2>1. \A u \in Threads : u # t => pc[u] \notin Readers
      BY <1>5 DEF Take, IInv, MutexHeld, InCriticalSection
    <2>2. TypeOK
      BY DEF IInv
    <2>3. ClockOrder'
      BY <1>0, <1>a, <1>5, <2>1, <2>2, Taken DEF Take
    <2>4. ReadingAfterReturns'
      BY <1>0, <1>a, <1>5, <2>1, <2>2, Taken DEF Take
    <2>5. QED
      BY <2>3, <2>4
  <1>6. ASSUME NEW t \in Threads, Backoff(t)
        PROVE  ClockOrder' /\ ReadingAfterReturns'
    BY <1>0, <1>a, <1>6 DEF Backoff
  <1>7. CASE UNCHANGED vars
    BY <1>0, <1>a, <1>7 DEF vars
  <1>8. QED
    BY <1>1, <1>2, <1>3, <1>4, <1>5, <1>6, <1>7 DEF Next, Step, Terminated

\* Rate and Unit distribute over the sums the quota is made of.
LEMMA Distribute ==
  ASSUME NEW k \in Nat, NEW a \in Int, NEW b \in Int
  PROVE  k * (a + b) = k * a + k * b /\ k * a \in Int /\ k * b \in Int
  OBVIOUS

LEMMA RateMonotone ==
  ASSUME NEW a \in Int, NEW b \in Int, a <= b
  PROVE  Rate * a <= Rate * b /\ Rate * a \in Int /\ Rate * b \in Int
  <1>1. Rate * b = Rate * a + Rate * (b - a)
    OBVIOUS
  <1>2. Rate * (b - a) \in Nat
    OBVIOUS
  <1>3. QED
    BY <1>1, <1>2

LEMMA BucketStep == IInv /\ [Next]_vars => BucketPays'
  <1> SUFFICES ASSUME IInv, [Next]_vars
               PROVE  BucketPays'
    OBVIOUS
  <1>0. /\ last_refill \in Nat /\ available_tokens \in 0..MaxBucket
        /\ now \in [Threads -> Nat]
        /\ Len(grants) \in Nat
        /\ \A i \in 1..Len(grants) : grants[i].at \in Nat
        /\ TypeOK
    BY GrantTypes DEF IInv, TypeOK
  <1>a. BucketPays
    BY DEF IInv
  <1>1. CASE UNCHANGED << available_tokens, last_refill, grants >>
    BY <1>a, <1>1 DEF BucketPays, Spent
  <1>2. ASSUME NEW t \in Threads, Refill(t) PROVE BucketPays'
    <2>1. now[t] \in Nat /\ now[t] - last_refill \in Nat
      BY <1>0, <1>2 DEF Refill, IInv, ClockOrder
    <2>2. /\ available_tokens' \in Nat
          /\ available_tokens' <= available_tokens + Rate * (now[t] - last_refill)
          /\ last_refill' = now[t]
          /\ grants' = grants
      <3>1. /\ Refilled(available_tokens, now[t] - last_refill) \in 0..MaxBucket
            /\ Refilled(available_tokens, now[t] - last_refill)
                 <= available_tokens + Rate * (now[t] - last_refill)
        BY <1>0, <2>1, RefilledBounds
      <3>2. QED
        BY <1>2, <3>1 DEF Refill
    <2>3. ASSUME NEW i \in 1..Len(grants)
          PROVE  Spent(i)' <= MaxBucket + Rate * (now[t] - grants[i].at)
      <3>1. PICK cost \in Int : cost = Unit * (Len(grants) - i + 1)
        BY <1>0
      <3>2. PICK before \in Int : before = Rate * (last_refill - grants[i].at)
        BY <1>0
      <3>3. PICK refill \in Int : refill = Rate * (now[t] - last_refill)
        BY <1>0, <2>1
      <3>4. Rate * (now[t] - grants[i].at) = before + refill
        <4>1. now[t] - grants[i].at = (last_refill - grants[i].at) + (now[t] - last_refill)
          BY <1>0, <2>1
        <4>2. last_refill - grants[i].at \in Int /\ now[t] - last_refill \in Int
          BY <1>0, <2>1
        <4>3. QED
          BY <3>2, <3>3, <4>1, <4>2, Distribute
      <3>5. cost + available_tokens <= MaxBucket + before
        BY <1>a, <3>1, <3>2 DEF BucketPays, Spent
      <3>6. available_tokens' <= available_tokens + refill
        BY <2>2, <3>3
      <3>7. Spent(i)' = cost + available_tokens'
        BY <2>2, <3>1 DEF Spent
      <3>8. PICK left \in Int : left = available_tokens'
        BY <2>2
      <3>9. PICK held \in Int : held = available_tokens
        BY <1>0
      <3>10. cost + held <= MaxBucket + before /\ left <= held + refill
        BY <3>5, <3>6, <3>8, <3>9
      <3>11. cost \in Int /\ before \in Int /\ refill \in Int /\ left \in Int /\ held \in Int
        BY <3>1, <3>2, <3>3, <3>8, <3>9
      <3>12. cost + left <= MaxBucket + (before + refill)
        BY <3>10, <3>11
      <3>13. QED
        BY <3>4, <3>7, <3>8, <3>12
    <2>4. QED
      BY <2>2, <2>3 DEF BucketPays
  <1>3. ASSUME NEW t \in Threads, Take(t) PROVE BucketPays'
    <2> DEFINE n == Len(grants)
    <2>1. /\ Len(grants') = n + 1
          /\ grants'[n + 1].at = now[t]
          /\ \A i \in 1..n : grants'[i] = grants[i]
          /\ available_tokens' = available_tokens - Unit
          /\ last_refill' = last_refill
          /\ now[t] = last_refill
      BY <1>0, <1>3, Taken DEF Take, IInv, ClockOrder
    <2>2. ASSUME NEW i \in 1..n
          PROVE  Spent(i)' <= MaxBucket + Rate * (last_refill - grants[i].at)
      <3>1. Unit * ((n + 1) - i + 1) = Unit * (n - i + 1) + Unit
        BY <1>0
      <3>2. Unit * (n - i + 1) \in Int
        BY <1>0
      <3>3. Spent(i)' = Spent(i)
        BY <1>0, <2>1, <3>1, <3>2 DEF Spent
      <3>4. QED
        BY <1>a, <3>3 DEF BucketPays
    <2>3. ASSUME NEW i \in Nat, i = n + 1
          PROVE  Spent(i)' <= MaxBucket + Rate * (last_refill - now[t])
      <3>1. Rate * (last_refill - now[t]) = 0
        <4>1. last_refill - now[t] = 0
          BY <1>0, <2>1
        <4>2. QED
          BY <4>1
      <3>2. Spent(i)' = Unit * ((n + 1) - i + 1) + (available_tokens - Unit)
        BY <2>1 DEF Spent
      <3>3. Unit * ((n + 1) - i + 1) = Unit
        BY <1>0, <2>3
      <3>4. Spent(i)' = Unit + (available_tokens - Unit)
        BY <3>2, <3>3
      <3>5. available_tokens \in Nat /\ Unit \in Nat
        BY <1>0
      <3>6. Spent(i)' = available_tokens
        BY <3>4, <3>5
      <3>7. QED
        BY <1>0, <3>1, <3>6
    <2>4. ASSUME NEW i \in 1..Len(grants')
          PROVE  Spent(i)' <= MaxBucket + Rate * (last_refill' - grants'[i].at)
      <3>1. i \in 1..n \/ (i \in Nat /\ i = n + 1)
        BY <1>0, <2>1, <2>4
      <3>2. QED
        BY <2>1, <2>2, <2>3, <3>1
    <2>5. QED
      BY <2>4 DEF BucketPays
  <1>4. ASSUME NEW t \in Threads, Step(t) PROVE BucketPays'
    <2>1. \/ Refill(t) \/ Take(t)
          \/ UNCHANGED << available_tokens, last_refill, grants >>
      BY <1>4 DEF Step, Call, Lock, ReadClock, Backoff, Wake, limiter
    <2>2. QED
      BY <1>1, <1>2, <1>3, <2>1
  <1>5. QED
    BY <1>1, <1>4 DEF Next, Tick, Terminated, vars, limiter

\* The quota of a pair of grants that ends in the newest one is what the
\* bucket has paid for it.
LEMMA WindowStep == IInv /\ [Next]_vars => WindowQuota' /\ Serialised'
  <1> SUFFICES ASSUME IInv, [Next]_vars
               PROVE  WindowQuota' /\ Serialised'
    OBVIOUS
  <1>0. /\ last_refill \in Nat /\ available_tokens \in 0..MaxBucket
        /\ now \in [Threads -> Nat] /\ clock \in Nat
        /\ Len(grants) \in Nat
        /\ \A i \in 1..Len(grants) : grants[i].at \in Nat /\ grants[i].returned \in Nat
        /\ TypeOK
    BY GrantTypes DEF IInv, TypeOK
  <1>a. WindowQuota /\ Serialised
    BY DEF IInv
  <1>1. CASE UNCHANGED grants
    BY <1>a, <1>1 DEF WindowQuota, Serialised
  <1>2. ASSUME NEW t \in Threads, Take(t) PROVE WindowQuota' /\ Serialised'
    <2> DEFINE n == Len(grants)
    <2>1. /\ Len(grants') = n + 1
          /\ grants'[n + 1].at = last_refill
          /\ grants'[n + 1].returned = clock
          /\ \A i \in 1..n : grants'[i] = grants[i]
          /\ now[t] = last_refill
          /\ pc[t] = "check"
          /\ available_tokens >= Unit
      BY <1>0, <1>2, Taken DEF Take, IInv, ClockOrder
    <2>2. ASSUME NEW i \in 1..(n + 1), NEW j \in 1..(n + 1), i <= j
          PROVE  Unit * (j - i + 1) <= MaxBucket + Rate * (grants'[j].at - grants'[i].at)
      <3>1. CASE j \in 1..n
        <4>1. i \in 1..n
          BY <1>0, <2>2, <3>1
        <4>2. Unit * (j - i + 1) <= MaxBucket + Rate * (grants[j].at - grants[i].at)
          BY <1>a, <2>2, <3>1, <4>1 DEF WindowQuota
        <4>3. QED
          BY <2>1, <3>1, <4>1, <4>2
      <3>2. CASE j = n + 1 /\ i \in 1..n
        <4> DEFINE cost == Unit * (n - i + 1)
                   refills == Rate * (last_refill - grants[i].at)
        <4>1. Unit * (j - i + 1) = cost + Unit
          BY <1>0, <3>2
        <4>2. cost + available_tokens <= MaxBucket + refills
          BY <3>2 DEF IInv, BucketPays, Spent
        <4>3. cost \in Int /\ refills \in Int
          BY <1>0, <3>2
        <4>4. Rate * (grants'[j].at - grants'[i].at) = refills
          BY <2>1, <3>2
        <4> HIDE DEF cost, refills
        <4>5. cost + Unit <= MaxBucket + refills
          BY <1>0, <2>1, <4>2, <4>3
        <4>6. QED
          BY <4>1, <4>4, <4>5
      <3>3. CASE i = n + 1 /\ j = n + 1
        <4>1. Rate * (grants'[j].at - grants'[i].at) = 0
          BY <1>0, <2>1, <3>3
        <4>2. Unit * (j - i + 1) = Unit
          BY <1>0, <3>3
        <4>3. Unit <= MaxBucket + 0
          BY <1>0, <2>1
        <4>4. QED
          BY <4>1, <4>2, <4>3
      <3>4. j \in 1..n \/ (j = n + 1 /\ i \in 1..n) \/ (i = n + 1 /\ j = n + 1)
        BY <1>0, <2>2
      <3>5. QED
        BY <3>1, <3>2, <3>3, <3>4
    <2>3. WindowQuota'
      BY <2>1, <2>2 DEF WindowQuota
    <2>4. \A i \in 1..n : grants[i].returned <= last_refill
      BY <2>1 DEF IInv, ReadingAfterReturns
    <2>5. Serialised'
      BY <1>0, <1>a, <2>1, <2>4 DEF Serialised
    <2>6. QED
      BY <2>3, <2>5
  <1>3. \/ \E t \in Threads : Take(t)
        \/ UNCHANGED grants
    BY DEF Next, Step, Tick, Terminated, vars, Call, Lock, ReadClock, Refill, Backoff, Wake
  <1>4. QED
    BY <1>1, <1>2, <1>3

-----------------------------------------------------------------------------
THEOREM Invariant == Spec => []IInv
  <1>1. Init => IInv
    BY InitEstablishes
  <1>2. IInv /\ [Next]_vars => IInv'
    BY TypeStep, MutexStep, ClockStep, BucketStep, WindowStep DEF IInv
  <1>3. QED
    BY <1>1, <1>2, PTL DEF Spec

\* The limiter's variables have the types the code gives them.
THEOREM TypeCorrect == Spec => []TypeOK
  <1>1. IInv => TypeOK
    BY DEF IInv
  <1>2. QED
    BY <1>1, Invariant, PTL

\* Callers that share a limiter stay within its quota (rate_limiter.cpp:14-35),
\* measured at the clock readings the decisions were made on.
THEOREM QuotaKept == Spec => []WindowQuota
  <1>1. IInv => WindowQuota
    BY DEF IInv
  <1>2. QED
    BY <1>1, Invariant, PTL

\* Measured at the returns of acquire(), the mutex keeps the excess to one
\* request.
THEOREM ReturnQuotaKept == Spec => []ReturnQuota
  <1>1. IInv => ReturnQuota
    <2> SUFFICES ASSUME IInv, NEW i \in 1..Len(grants), NEW j \in 1..Len(grants), i <= j
                 PROVE  Unit * (j - i) <= MaxBucket + Rate * (grants[j].returned - grants[i].returned)
      BY DEF ReturnQuota
    <2>0. /\ Len(grants) \in Nat
          /\ \A k \in 1..Len(grants) : grants[k].at \in Nat /\ grants[k].returned \in Nat
      BY GrantTypes DEF IInv
    <2>1. CASE i = j
      <3>1. Unit * (j - i) = 0 /\ Rate * (grants[j].returned - grants[i].returned) = 0
        BY <2>0, <2>1
      <3>2. QED
        BY <3>1
    <2>2. CASE i < j
      <3>1. i + 1 \in 1..Len(grants) /\ i + 1 <= j
        BY <2>0, <2>2
      <3>2. Unit * (j - (i + 1) + 1) <= MaxBucket + Rate * (grants[j].at - grants[i + 1].at)
        BY <3>1 DEF IInv, WindowQuota
      <3>3. j - (i + 1) + 1 = j - i
        BY <2>0
      <3>4. grants[i].returned <= grants[i + 1].at
        <4>1. Serialised
          BY DEF IInv
        <4>2. i + 1 \in 1..Len(grants) /\ i < i + 1
          BY <3>1
        <4>3. QED
          BY <4>1, <4>2 DEF Serialised
      <3>5. grants[j].at <= grants[j].returned
        BY DEF IInv, ClockOrder
      <3>6. grants[j].at - grants[i + 1].at <= grants[j].returned - grants[i].returned
        BY <2>0, <3>1, <3>4, <3>5
      <3>7. Rate * (grants[j].at - grants[i + 1].at) <= Rate * (grants[j].returned - grants[i].returned)
        <4>1. /\ grants[j].at - grants[i + 1].at \in Int
              /\ grants[j].returned - grants[i].returned \in Int
          BY <2>0, <3>1
        <4>2. QED
          BY <3>6, <4>1, RateMonotone
      <3>8. /\ Rate * (grants[j].at - grants[i + 1].at) \in Int
            /\ Rate * (grants[j].returned - grants[i].returned) \in Int
            /\ Unit * (j - i) \in Int
        BY <2>0, <3>1
      <3>9. QED
        BY <3>2, <3>3, <3>7, <3>8
    <2>3. QED
      BY <2>0, <2>1, <2>2
  <1>2. QED
    BY <1>1, Invariant, PTL

\* Under the mutex, each decision is made on a clock reading taken after the
\* previous caller had returned.
THEOREM DecisionsSerialised == Spec => []Serialised
  <1>1. IInv => Serialised
    BY DEF IInv
  <1>2. QED
    BY <1>1, Invariant, PTL

\* The limiter implements the abstract quota: a return of acquire() issues a
\* request, every other step is a stutter.
THEOREM ImplementsQuota == Spec => QuotaSpec
  <1>1. Init => Quota!Init
    BY DEF Init, Quota!Init, Times
  <1>2. IInv /\ IInv' /\ [Next]_vars => [Quota!Issue]_Times
    <2> SUFFICES ASSUME IInv, IInv', [Next]_vars
                 PROVE  [Quota!Issue]_Times
      OBVIOUS
    <2>0. /\ Len(grants) \in Nat /\ Len(grants') \in Nat
          /\ TypeOK
          /\ \A i \in 1..Len(grants') : grants'[i].at \in Nat /\ grants'[i].returned \in Nat
      <3>1. grants' \in Seq([at : Nat, returned : Nat])
        BY DEF IInv, TypeOK
      <3>2. Len(grants') \in Nat
        BY <3>1, LenProperties
      <3>3. \A i \in 1..Len(grants') : grants'[i] \in [at : Nat, returned : Nat]
        BY <3>1, ElementOfSeq
      <3>4. QED
        BY <3>2, <3>3, GrantTypes DEF IInv
    <2>1. ASSUME NEW t \in Threads, Take(t) PROVE Quota!Issue
      <3>1. /\ Len(grants') = Len(grants) + 1
            /\ \A i \in 1..Len(grants) : grants'[i] = grants[i]
        BY <2>0, <2>1, Taken
      <3>2. /\ Len(Times) = Len(grants) /\ Len(Times') = Len(grants')
            /\ \A i \in 1..Len(grants) : Times[i] = grants[i].at
            /\ \A i \in 1..Len(grants') : Times'[i] = grants'[i].at
        BY <2>0 DEF Times
      <3>3. Quota!InOrder(Times')
        <4>1. \A i \in 1..Len(grants') : grants'[i].at <= grants'[i].returned
          BY DEF IInv, ClockOrder
        <4>2. \A i, j \in 1..Len(grants') : i < j => grants'[i].returned <= grants'[j].at
          BY DEF IInv, Serialised
        <4>3. \A i, j \in 1..Len(grants') : i <= j => grants'[i].at <= grants'[j].at
          BY <2>0, <4>1, <4>2
        <4>4. QED
          BY <3>2, <4>3 DEF Quota!InOrder
      <3>4. Quota!WithinQuota(Times')
        BY <3>2 DEF IInv, WindowQuota, Quota!WithinQuota
      <3>5. QED
        BY <2>0, <3>1, <3>2, <3>3, <3>4 DEF Quota!Issue
    <2>2. CASE UNCHANGED grants
      BY <2>2 DEF Times
    <2>3. \/ \E t \in Threads : Take(t)
          \/ UNCHANGED grants
      BY DEF Next, Step, Tick, Terminated, vars, Call, Lock, ReadClock, Refill, Backoff, Wake
    <2>4. QED
      BY <2>1, <2>2, <2>3
  <1>3. QED
    BY <1>1, <1>2, Invariant, PTL DEF Spec, QuotaSpec, Quota!Spec
=============================================================================
