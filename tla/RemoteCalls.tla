----------------------------- MODULE RemoteCalls -----------------------------
(***************************************************************************)
(* What a client of a remote tool server may count on, one call at a time: *)
(* calls are carried out in the order they were made, each at most once; a *)
(* call that returns was carried out successfully, and returns its own     *)
(* result; a call that throws may or may not have been carried out, before *)
(* or even after it threw.                                                 *)
(***************************************************************************)
EXTENDS Integers

CONSTANT Calls   \* 1..n, in the order they are made

VARIABLES outcome,  \* what the caller of each call has seen
          result    \* what became of each call at the server

NotMade == [how |-> "not_made", from |-> 0]
Pending == [how |-> "pending", from |-> 0]
Threw   == [how |-> "threw", from |-> 0]
Returned(c) == [how |-> "returned", from |-> c]

Init ==
  /\ outcome = [c \in Calls |-> NotMade]
  /\ result = [c \in Calls |-> "none"]

Make(c) ==
  /\ outcome[c] = NotMade
  /\ \A d \in Calls : d < c => outcome[d] \notin {NotMade, Pending}
  /\ outcome' = [outcome EXCEPT ![c] = Pending]
  /\ UNCHANGED result

CarryOut(c) ==
  /\ outcome[c] # NotMade
  /\ \A d \in Calls : d >= c => result[d] = "none"
  /\ \E r \in {"result", "failure"} : result' = [result EXCEPT ![c] = r]
  /\ UNCHANGED outcome

Return(c) ==
  /\ outcome[c] = Pending /\ result[c] = "result"
  /\ outcome' = [outcome EXCEPT ![c] = Returned(c)]
  /\ UNCHANGED result

Throw(c) ==
  /\ outcome[c] = Pending
  /\ outcome' = [outcome EXCEPT ![c] = Threw]
  /\ UNCHANGED result

Next == \E c \in Calls : Make(c) \/ CarryOut(c) \/ Return(c) \/ Throw(c)

Spec == Init /\ [][Next]_<< outcome, result >>
=============================================================================
