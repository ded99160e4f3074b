---------------------------- MODULE RequestQuota ----------------------------
(***************************************************************************)
(* What a rate limiter promises to the callers that share it: requests are *)
(* issued one at a time, in time order, and no stretch of time holds more  *)
(* of them than the bucket's burst plus what accrues over that stretch.    *)
(* Quantities are integers: one request costs Unit, the bucket holds at    *)
(* most Burst and accrues Rate per tick of the clock.                      *)
(***************************************************************************)
EXTENDS Integers, Sequences

CONSTANTS Unit, Burst, Rate

VARIABLE issued   \* issued[i]: the time of the i-th request

WithinQuota(times) ==
  \A i, j \in 1..Len(times) :
     i <= j => Unit * (j - i + 1) <= Burst + Rate * (times[j] - times[i])

InOrder(times) ==
  \A i, j \in 1..Len(times) : i <= j => times[i] <= times[j]

Init == issued = << >>

Issue ==
  /\ Len(issued') = Len(issued) + 1
  /\ \A i \in 1..Len(issued) : issued'[i] = issued[i]
  /\ InOrder(issued')
  /\ WithinQuota(issued')

Spec == Init /\ [][Issue]_issued
=============================================================================
