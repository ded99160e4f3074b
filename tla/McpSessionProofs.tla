--------------------------- MODULE McpSessionProofs ---------------------------
(***************************************************************************)
(* For any number of calls, any tools and pipes of any capacity: a session *)
(* carries its calls out as RemoteCalls promises, and a call that returned *)
(* leaves nothing behind.  Calls that threw leave requests, responses and  *)
(* printed lines in the pipes, so the invariant orders what is on its way: *)
(* whatever has been decided has a smaller id than what is still asked,    *)
(* and behind a response there is only what later calls caused.            *)
(*                                                                         *)
(* For any client and any lines, the server alone answers every request it *)
(* reads once and in order: the responses in the pipe are numbered after   *)
(* those that were read from it.                                           *)
(***************************************************************************)
EXTENDS McpSession, McpServerStandalone, SequenceTheorems, FiniteSetTheorems, TLAPS

USE ServerAssumption, SessionAssumption DEF ServerAssumption, SessionAssumption, InCall

\* The requests on their way to the server, and the responses on their way back.
Asking  == {i \in 1..Len(toServer) : toServer[i].kind = "request"}
Telling == {i \in 1..Len(toClient) : toClient[i].kind = "response"}

\* Every request that was written has an id below this one.
Unwritten == IF client \in {"sending", "writing"} THEN next_id - 1 ELSE next_id

\* Requests are in the order of their ids, and only what came before was decided.
Ordered ==
  /\ \A i \in 1..Len(toServer) : toServer[i].kind \in {"request", "event"}
  /\ \A i, j \in Asking : i < j => toServer[i].id < toServer[j].id
  /\ \A i \in Asking :
       /\ toServer[i].id < Unwritten
       /\ serving = "tool" => request.id < toServer[i].id
       /\ \A h \in 1..Len(handled) : handled[h].id < toServer[i].id
  /\ serving = "tool" =>
       /\ request.kind = "request" /\ request.id < Unwritten
       /\ \A h \in 1..Len(handled) : handled[h].id < request.id
  /\ \A h \in 1..Len(handled) : handled[h].id < Unwritten

\* Responses were decided, and what is behind one is of a later call.
Replied ==
  /\ serving = "write" => \E h \in 1..Len(handled) : response = handled[h]
  /\ \A i \in Telling :
       /\ \E h \in 1..Len(handled) : toClient[i] = handled[h]
       /\ serving = "write" => toClient[i].id < response.id
       /\ \A j \in 1..Len(toClient) : i < j => toClient[i].id < next_id - 1

\* Nothing is under way after an answer.
Clear ==
  /\ toClient = << >>
  /\ serving \notin {"tool", "write"}
  /\ \A i \in 1..Len(toServer) : toServer[i].kind = "event"

Answered ==
  \/ client = "notifying"
  \/ client = "idle" /\ next_id > 1 /\ outcome[next_id - 1].how = "returned"

Succeeded(c) == \E h \in 1..Len(handled) : handled[h].id = c /\ handled[h].body = "result"

\* Calls are made one by one, each when the one before has ended.
OneByOne ==
  /\ client \notin {"idle", "destroyed"} =>
       /\ sending \in Requests /\ sending.id = next_id - 1
       /\ outcome[sending.id] = Pending
  /\ client = "notifying" => Succeeded(sending.id)
  /\ \A c \in Calls :
       /\ c >= next_id => outcome[c] = NotMade
       /\ c < next_id - 1 => outcome[c] \notin {NotMade, Pending}
       /\ c = next_id - 1 /\ client \in {"idle", "destroyed"} => outcome[c] \notin {NotMade, Pending}

IInv ==
  /\ TypeOK
  /\ Ordered
  /\ Replied
  /\ Answered => Clear
  /\ OneByOne

-----------------------------------------------------------------------------
(* Pipes, and what is in them.                                             *)

LEMMA TailIs ==
  ASSUME NEW T, NEW s \in Seq(T), s # << >>
  PROVE  /\ Tail(s) \in Seq(T) /\ Len(s) \in Nat \ {0} /\ Len(Tail(s)) = Len(s) - 1
         /\ Head(s) = s[1] /\ Head(s) \in T
         /\ \A i \in 1..Len(Tail(s)) : i + 1 \in 1..Len(s) /\ Tail(s)[i] = s[i + 1]
OBVIOUS

LEMMA AppendIs ==
  ASSUME NEW T, NEW s \in Seq(T), NEW e \in T
  PROVE  /\ Append(s, e) \in Seq(T) /\ Len(s) \in Nat /\ Len(Append(s, e)) = Len(s) + 1
         /\ \A i \in 1..Len(s) : Append(s, e)[i] = s[i]
         /\ Append(s, e)[Len(s) + 1] = e
OBVIOUS

\* Requests and responses carry the id of a call; lines of other kinds do not.
LEMMA CarryIds ==
  /\ \A l \in Lines : l.kind = "request" <=> l \in Requests
  /\ \A l \in Requests : l.id \in Ids /\ l.kind = "request"
  /\ \A m \in Replies \cup Prints : m.kind = "response" <=> m \in Replies
  /\ \A m \in Replies : m.id \in Ids /\ m.kind = "response" /\ m.body \in Bodies
  /\ \A m \in Prints : m.kind \in {"text", "event", "odd"}
BY DEF Lines, Line, Requests, Request, Replies, Response, Prints, Noise

LEMMA ResponseIs ==
  ASSUME NEW id \in Ids, NEW body \in Bodies
  PROVE  /\ Response(id, body) \in Replies
         /\ Response(id, body).id = id /\ Response(id, body).body = body
<1>1. Response(id, body) \in Replies
  BY DEF Replies
<1>2. QED
  BY <1>1 DEF Response

\* What is in the pipes and what was decided is typed.
LEMMA PipesTyped ==
  ASSUME TypeOK
  PROVE  /\ toServer \in Seq(Lines) /\ Len(toServer) \in Nat
         /\ toClient \in Seq(Replies \cup Prints) /\ Len(toClient) \in Nat
         /\ handled \in Seq(Replies) /\ Len(handled) \in Nat
         /\ \A i \in 1..Len(toServer) : toServer[i] \in Lines
         /\ \A i \in 1..Len(toClient) : toClient[i] \in Replies \cup Prints
         /\ \A i \in Asking : toServer[i] \in Requests /\ toServer[i].id \in Nat
         /\ \A i \in Telling : toClient[i] \in Replies /\ toClient[i].id \in Nat
         /\ \A h \in 1..Len(handled) : handled[h] \in Replies /\ handled[h].id \in Nat
<1>1. /\ toServer \in Seq(Lines) /\ Len(toServer) \in Nat
      /\ toClient \in Seq(Replies \cup Prints) /\ Len(toClient) \in Nat
      /\ handled \in Seq(Replies) /\ Len(handled) \in Nat
  BY DEF TypeOK, ServerTypeOK
<1>2. /\ \A i \in 1..Len(toServer) : toServer[i] \in Lines
      /\ \A i \in 1..Len(toClient) : toClient[i] \in Replies \cup Prints
      /\ \A h \in 1..Len(handled) : handled[h] \in Replies
  BY <1>1
<1>3. QED
  BY <1>1, <1>2, CarryIds DEF Asking, Telling

-----------------------------------------------------------------------------
(* The server's steps.                                                     *)

\* What the server does leaves the calls as they are, if it only ever adds to what
\* was decided.
LEMMA ServerFrame ==
  ASSUME IInv, UNCHANGED << next_id, client, sending, outcome >>,
         TypeOK', Ordered', Replied', Answered => Clear',
         \A c : Succeeded(c) => Succeeded(c)'
  PROVE  IInv'
<1>1. OneByOne'
  BY DEF IInv, OneByOne, Succeeded
<1>2. Answered' => Clear'
  BY DEF Answered
<1>3. QED
  BY <1>1, <1>2 DEF IInv

\* Taking a line off the front leaves the rest in order.
LEMMA RestInOrder ==
  ASSUME IInv, toServer # << >>, toServer' = Tail(toServer)
  PROVE  /\ \A i \in 1..Len(toServer') : i + 1 \in 1..Len(toServer) /\ toServer'[i] = toServer[i + 1]
         /\ \A i \in 1..Len(toServer') : toServer'[i].kind \in {"request", "event"}
         /\ \A i, j \in Asking' : i < j => toServer'[i].id < toServer'[j].id
         /\ \A i \in Asking' :
              /\ toServer'[i].id < Unwritten
              /\ toServer'[i].id \in Nat
              /\ serving = "tool" => request.id < toServer'[i].id
              /\ \A h \in 1..Len(handled) : handled[h].id < toServer'[i].id
              /\ Head(toServer).kind = "request" => Head(toServer).id < toServer'[i].id
<1>1. toServer \in Seq(Lines)
  BY PipesTyped DEF IInv
<1>2. /\ Len(toServer) \in Nat \ {0} /\ Len(toServer') = Len(toServer) - 1
      /\ Head(toServer) = toServer[1]
      /\ \A i \in 1..Len(toServer') : i + 1 \in 1..Len(toServer) /\ toServer'[i] = toServer[i + 1]
  BY <1>1, TailIs
<1>3. \A i \in Asking' : i + 1 \in Asking /\ toServer'[i] = toServer[i + 1]
  BY <1>2 DEF Asking
<1>4. Ordered
  BY DEF IInv
<1>5. \A i, j \in Asking' : i < j => toServer'[i].id < toServer'[j].id
  <2>1. \A i, j \in Asking' : i \in Int /\ j \in Int /\ (i < j => i + 1 < j + 1)
    BY DEF Asking
  <2>2. QED
    BY <1>3, <1>4, <2>1 DEF Ordered
<1>6. ASSUME NEW i \in Asking'
      PROVE  /\ toServer'[i].id < Unwritten
             /\ toServer'[i].id \in Nat
             /\ serving = "tool" => request.id < toServer'[i].id
             /\ \A h \in 1..Len(handled) : handled[h].id < toServer'[i].id
             /\ Head(toServer).kind = "request" => Head(toServer).id < toServer'[i].id
  <2>1. i + 1 \in Asking /\ toServer'[i] = toServer[i + 1]
    BY <1>3
  <2>2. i \in Nat \ {0} /\ 1 \in 1..Len(toServer)
    BY <1>2 DEF Asking
  <2>3. toServer[i + 1].id \in Nat
    BY <2>1, PipesTyped DEF IInv
  <2>4. Head(toServer).kind = "request" => Head(toServer).id < toServer[i + 1].id
    <3>1. Head(toServer).kind = "request" => 1 \in Asking
      BY <1>2, <2>2 DEF Asking
    <3>2. 1 < i + 1
      BY <2>2
    <3>3. QED
      BY <1>2, <1>4, <2>1, <3>1, <3>2 DEF Ordered
  <2>5. QED
    BY <1>4, <2>1, <2>3, <2>4 DEF Ordered
<1>7. \A i \in 1..Len(toServer') : toServer'[i].kind \in {"request", "event"}
  BY <1>2, <1>4 DEF Ordered
<1>8. QED
  BY <1>2, <1>5, <1>6, <1>7

\* What the server changes keeps its type.
LEMMA ServerTyped ==
  ASSUME TypeOK, UNCHANGED << next_id, client, sending, outcome >>,
         toServer' \in Seq(Lines), Len(toServer') <= Capacity,
         toClient' \in Seq(Replies \cup Prints), Len(toClient') <= Capacity,
         closed' = closed, serving' \in {"getline", "tool", "write", "exited"},
         request' \in Lines, response' \in Replies \cup Prints, printed' \in 0..MaxPrints,
         received' \in Seq(Ids), handled' \in Seq(Replies)
  PROVE  TypeOK'
BY DEF TypeOK, ServerTypeOK

\* The server comes to an end, or skips a notification.
LEMMA ServerEnds ==
  ASSUME IInv, UNCHANGED << next_id, client, sending, outcome >>,
         UNCHANGED << toClient, closed, request, response, printed, received, handled >>,
         \/ toServer' = toServer /\ serving' = "exited"
         \/ toServer # << >> /\ toServer' = Tail(toServer) /\ serving' \in {serving, "exited"}
            /\ serving = "getline"
  PROVE  IInv'
<1>1. /\ toServer' \in Seq(Lines) /\ Len(toServer') <= Capacity
      /\ serving' \in {"getline", "exited"}
  <2>1. toServer \in Seq(Lines) /\ Len(toServer) <= Capacity
    BY DEF IInv, TypeOK, ServerTypeOK
  <2>2. CASE toServer' = toServer /\ serving' = "exited"
    BY <2>1, <2>2
  <2>3. CASE toServer # << >> /\ toServer' = Tail(toServer) /\ serving' \in {"getline", "exited"}
    <3>1. /\ toServer' \in Seq(Lines) /\ Len(toServer') = Len(toServer) - 1
          /\ Len(toServer) \in Nat
      BY <2>1, <2>3, TailIs
    <3>2. Len(toServer') <= Capacity
      BY <2>1, <3>1
    <3>3. QED
      BY <2>3, <3>1, <3>2
  <2>4. QED
    BY <2>2, <2>3
<1>2. TypeOK'
  BY <1>1, ServerTyped DEF IInv, TypeOK, ServerTypeOK
<1>3. Unwritten' = Unwritten
  BY DEF Unwritten
<1>4. Ordered'
  <2>1. CASE toServer' = toServer
    <3>1. Asking' = Asking
      BY <2>1 DEF Asking
    <3>2. QED
      BY <1>1, <1>3, <2>1, <3>1 DEF IInv, Ordered
  <2>2. CASE toServer # << >> /\ toServer' = Tail(toServer)
    BY <1>1, <1>3, <2>2, RestInOrder DEF IInv, Ordered
  <2>3. QED
    BY <2>1, <2>2
<1>5. Replied'
  <2>1. Telling' = Telling
    BY DEF Telling
  <2>2. QED
    BY <1>1, <2>1 DEF IInv, Replied
<1>6. Answered => Clear'
  <2>1. CASE toServer' = toServer
    BY <1>1, <2>1 DEF IInv, Clear
  <2>2. CASE toServer # << >> /\ toServer' = Tail(toServer)
    <3>1. \A i \in 1..Len(toServer') : i + 1 \in 1..Len(toServer) /\ toServer'[i] = toServer[i + 1]
      BY <2>2, RestInOrder
    <3>2. QED
      BY <1>1, <2>2, <3>1 DEF IInv, Clear
  <2>3. QED
    BY <2>1, <2>2
<1>7. \A c : Succeeded(c) => Succeeded(c)'
  BY DEF Succeeded
<1>8. QED
  BY <1>2, <1>4, <1>5, <1>6, <1>7, ServerFrame

\* A request is the first of those that are left, and none of them is decided.
LEMMA Taken ==
  ASSUME IInv, TakeRequest
  PROVE  /\ request' = Head(toServer) /\ request' \in Requests
         /\ request'.id \in Ids /\ request'.id \in Nat
         /\ request'.id < Unwritten
         /\ \A h \in 1..Len(handled) : handled[h].id < request'.id
         /\ \A i \in 1..Len(toServer') : toServer'[i].kind \in {"request", "event"}
         /\ \A i, j \in Asking' : i < j => toServer'[i].id < toServer'[j].id
         /\ \A i \in Asking' :
              /\ request'.id < toServer'[i].id
              /\ toServer'[i].id < Unwritten
              /\ \A h \in 1..Len(handled) : handled[h].id < toServer'[i].id
         /\ toServer' \in Seq(Lines) /\ Len(toServer') <= Capacity
         /\ received' \in Seq(Ids)
         /\ ~Answered
<1>1. /\ toServer # << >> /\ toServer' = Tail(toServer) /\ Head(toServer).kind = "request"
      /\ request' = Head(toServer) /\ received' = Append(received, Head(toServer).id)
  BY DEF TakeRequest
<1>2. toServer \in Seq(Lines) /\ Len(toServer) <= Capacity /\ received \in Seq(Ids)
  BY DEF IInv, TypeOK, ServerTypeOK
<1>3. /\ toServer' \in Seq(Lines) /\ Len(toServer') = Len(toServer) - 1
      /\ Len(toServer) \in Nat \ {0} /\ Head(toServer) = toServer[1] /\ Head(toServer) \in Lines
  BY <1>1, <1>2, TailIs
<1>4. 1 \in Asking
  BY <1>1, <1>3 DEF Asking
<1>5. request' \in Requests /\ request'.id \in Ids /\ request'.id \in Nat
  BY <1>1, <1>3, CarryIds
<1>6. /\ request'.id < Unwritten
      /\ \A h \in 1..Len(handled) : handled[h].id < request'.id
  BY <1>1, <1>3, <1>4 DEF IInv, Ordered
<1>7. received' \in Seq(Ids)
  BY <1>1, <1>2, <1>5
<1>8. ~Answered
  BY <1>1, <1>3, <1>4 DEF IInv, Clear, Asking
<1>9. /\ \A i \in 1..Len(toServer') : toServer'[i].kind \in {"request", "event"}
      /\ \A i, j \in Asking' : i < j => toServer'[i].id < toServer'[j].id
      /\ \A i \in Asking' :
              /\ request'.id < toServer'[i].id
              /\ toServer'[i].id < Unwritten
              /\ \A h \in 1..Len(handled) : handled[h].id < toServer'[i].id
  BY <1>1, RestInOrder
<1>10. Len(toServer') <= Capacity
  BY <1>2, <1>3
<1>11. QED
  BY <1>1, <1>3, <1>5, <1>6, <1>7, <1>8, <1>9, <1>10

\* A response is decided: it is later than the others, and earlier than what is asked.
LEMMA Decided ==
  ASSUME IInv, UNCHANGED << next_id, client, sending, outcome >>,
         UNCHANGED << toClient, closed, printed >>,
         NEW r \in Replies, Decide(r), request' \in Lines, received' \in Seq(Ids),
         toServer' \in Seq(Lines), Len(toServer') <= Capacity,
         serving # "write", ~Answered, r.id < Unwritten,
         \A h \in 1..Len(handled) : handled[h].id < r.id,
         \A i \in 1..Len(toServer') : toServer'[i].kind \in {"request", "event"},
         \A i, j \in Asking' : i < j => toServer'[i].id < toServer'[j].id,
         \A i \in Asking' :
           /\ r.id < toServer'[i].id
           /\ toServer'[i].id < Unwritten
           /\ \A h \in 1..Len(handled) : handled[h].id < toServer'[i].id
  PROVE  IInv'
<1>1. response' = r /\ serving' = "write" /\ handled' = Append(handled, r)
  BY DEF Decide
<1>2. /\ handled' \in Seq(Replies) /\ Len(handled) \in Nat /\ Len(handled') = Len(handled) + 1
      /\ \A h \in 1..Len(handled) : handled'[h] = handled[h]
      /\ handled'[Len(handled) + 1] = r
  <2>1. handled \in Seq(Replies)
    BY DEF IInv, TypeOK, ServerTypeOK
  <2>2. QED
    BY <1>1, <2>1, AppendIs
<1>3. 1..Len(handled') = 1..Len(handled) \cup {Len(handled) + 1}
  BY <1>2
<1>4. TypeOK'
  BY <1>1, <1>2, ServerTyped DEF IInv, TypeOK, ServerTypeOK
<1>5. Unwritten' = Unwritten
  BY DEF Unwritten
<1>6. Ordered'
  <2>1. ASSUME NEW i \in Asking', NEW h \in 1..Len(handled')
        PROVE  handled'[h].id < toServer'[i].id
    BY <1>2, <1>3
  <2>2. ASSUME NEW h \in 1..Len(handled')
        PROVE  handled'[h].id < Unwritten
    BY <1>2, <1>3 DEF IInv, Ordered
  <2>3. QED
    BY <1>1, <1>5, <2>1, <2>2 DEF Ordered
<1>7. Replied'
  <2>1. Telling' = Telling /\ Telling \subseteq 1..Len(toClient)
    BY DEF Telling
  <2>2. \E h \in 1..Len(handled') : response' = handled'[h]
    BY <1>1, <1>2, <1>3
  <2>3. ASSUME NEW i \in Telling
        PROVE  /\ \E h \in 1..Len(handled') : toClient[i] = handled'[h]
               /\ toClient[i].id < r.id
               /\ \A j \in 1..Len(toClient) : i < j => toClient[i].id < next_id - 1
    <3>1. PICK h \in 1..Len(handled) : toClient[i] = handled[h]
      BY DEF IInv, Replied
    <3>2. QED
      BY <1>2, <1>3, <3>1 DEF IInv, Replied
  <2>4. QED
    BY <1>1, <2>1, <2>2, <2>3 DEF Replied
<1>8. \A c : Succeeded(c) => Succeeded(c)'
  BY <1>2, <1>3 DEF Succeeded
<1>9. QED
  BY <1>4, <1>6, <1>7, <1>8, ServerFrame

LEMMA AnswerStep ==
  ASSUME IInv, UNCHANGED << next_id, client, sending, outcome >>, Answer
  PROVE  IInv'
<1>1. TakeRequest /\ serving = "getline" /\ UNCHANGED << toClient, closed, printed >>
  BY DEF Answer, TakeRequest
<1>2. request' \in Requests /\ request'.id \in Ids
  BY <1>1, Taken
<1>3. PICK body \in {"result", "error"} : Decide(Response(request'.id, body))
  BY DEF Answer
<1>4. Response(request'.id, body) \in Replies /\ Response(request'.id, body).id = request'.id
  <2>1. body \in Bodies /\ request'.id \in Ids
    BY <1>2 DEF Bodies
  <2>2. QED
    BY <2>1, ResponseIs
<1>5. PICK r \in Replies : r = Response(request'.id, body)
  BY <1>4
<1>6. request' \in Lines
  BY <1>2 DEF Lines
<1>7. QED
  BY <1>1, <1>3, <1>4, <1>5, <1>6, Taken, Decided

\* A tool is called with the first request that is left.
LEMMA CallToolStep ==
  ASSUME IInv, UNCHANGED << next_id, client, sending, outcome >>, CallTool
  PROVE  IInv'
<1>1. /\ TakeRequest /\ serving = "getline" /\ serving' = "tool"
      /\ UNCHANGED << toClient, closed, response, printed, handled >>
  BY DEF CallTool, TakeRequest
<1>2. request' \in Requests /\ request' \in Lines /\ request'.kind = "request"
  BY <1>1, Taken, CarryIds DEF Lines
<1>3. TypeOK'
  BY <1>1, <1>2, Taken, ServerTyped DEF IInv, TypeOK, ServerTypeOK
<1>4. Unwritten' = Unwritten
  BY DEF Unwritten
<1>5. Ordered'
  BY <1>1, <1>2, <1>4, Taken DEF IInv, Ordered
<1>6. Replied'
  <2>1. Telling' = Telling
    BY <1>1 DEF Telling
  <2>2. QED
    BY <1>1, <2>1 DEF IInv, Replied
<1>7. \A c : Succeeded(c) => Succeeded(c)'
  BY <1>1 DEF Succeeded
<1>8. QED
  BY <1>1, <1>3, <1>5, <1>6, <1>7, Taken, ServerFrame

LEMMA ToolEndsStep ==
  ASSUME IInv, UNCHANGED << next_id, client, sending, outcome >>,
         NEW ending \in DOMAIN BodyOf, ToolEnds(ending)
  PROVE  IInv'
<1>1. /\ serving = "tool" /\ Decide(Response(request.id, BodyOf[ending]))
      /\ UNCHANGED << toServer, toClient, closed, request, printed, received >>
  BY DEF ToolEnds
<1>2. request \in Lines /\ request.kind = "request" /\ request.id \in Ids
  BY <1>1, CarryIds DEF IInv, TypeOK, ServerTypeOK, Ordered
<1>3. BodyOf[ending] \in Bodies
  BY DEF BodyOf, Bodies
<1>4. /\ Response(request.id, BodyOf[ending]) \in Replies
      /\ Response(request.id, BodyOf[ending]).id = request.id
  BY <1>2, <1>3, ResponseIs
<1>5. PICK r \in Replies : r = Response(request.id, BodyOf[ending])
  BY <1>4
<1>6. Asking' = Asking
  BY <1>1 DEF Asking
<1>7. ~Answered
  BY <1>1 DEF IInv, Clear
<1>8. /\ toServer' \in Seq(Lines) /\ Len(toServer') <= Capacity
      /\ request' \in Lines /\ received' \in Seq(Ids)
  BY <1>1 DEF IInv, TypeOK, ServerTypeOK
<1>9. QED
  BY <1>1, <1>4, <1>5, <1>6, <1>7, <1>8, Decided DEF IInv, Ordered

\* What was decided is of an earlier call than what is still to be decided.
LEMMA Earlier ==
  ASSUME IInv, NEW h \in 1..Len(handled)
  PROVE  /\ handled[h].id \in Nat /\ handled[h].id < next_id /\ next_id \in Nat
         /\ serving = "tool" => handled[h].id < next_id - 1
         /\ \A i \in Asking : handled[h].id < next_id - 1
<1>1. next_id \in Nat \ {0}
  BY DEF IInv, TypeOK
<1>2. Unwritten \in Int /\ Unwritten <= next_id
  BY <1>1 DEF Unwritten
<1>3. handled[h].id \in Nat /\ handled[h].id < Unwritten
  BY PipesTyped DEF IInv, Ordered
<1>4. serving = "tool" => handled[h].id < next_id - 1
  <2> SUFFICES ASSUME serving = "tool" PROVE handled[h].id < next_id - 1
    OBVIOUS
  <2>1. request \in Lines /\ request.kind = "request"
    BY DEF IInv, TypeOK, ServerTypeOK, Ordered
  <2>2. request.id \in Nat
    BY <2>1, CarryIds
  <2>3. handled[h].id < request.id /\ request.id < Unwritten
    BY DEF IInv, Ordered
  <2>4. QED
    BY <1>1, <1>2, <1>3, <2>2, <2>3
<1>5. ASSUME NEW i \in Asking PROVE handled[h].id < next_id - 1
  <2>1. toServer[i].id \in Nat
    BY PipesTyped DEF IInv
  <2>2. handled[h].id < toServer[i].id /\ toServer[i].id < Unwritten
    BY DEF IInv, Ordered
  <2>3. QED
    BY <1>1, <1>2, <1>3, <2>1, <2>2
<1>6. QED
  BY <1>1, <1>2, <1>3, <1>4, <1>5

\* A line more to the client, if what was told before is of earlier calls.
LEMMA TellsMore ==
  ASSUME IInv, NEW m \in Replies \cup Prints, toClient' = Append(toClient, m), Room(toClient),
         serving' # "write", UNCHANGED << handled, next_id >>,
         \A i \in Telling : toClient[i].id < next_id - 1,
         m.kind = "response" => \E h \in 1..Len(handled) : m = handled[h]
  PROVE  /\ Replied'
         /\ toClient' \in Seq(Replies \cup Prints) /\ Len(toClient') <= Capacity
<1>1. toClient \in Seq(Replies \cup Prints)
  BY DEF IInv, TypeOK, ServerTypeOK
<1>2. /\ toClient' \in Seq(Replies \cup Prints) /\ Len(toClient) \in Nat
      /\ Len(toClient') = Len(toClient) + 1
      /\ \A i \in 1..Len(toClient) : toClient'[i] = toClient[i]
      /\ toClient'[Len(toClient) + 1] = m
  BY <1>1, AppendIs
<1>3. Len(toClient') <= Capacity
  BY <1>2 DEF Room
<1>4. 1..Len(toClient') = 1..Len(toClient) \cup {Len(toClient) + 1}
  BY <1>2
<1>5. ASSUME NEW i \in Telling'
      PROVE  /\ \E h \in 1..Len(handled) : toClient'[i] = handled[h]
             /\ \A j \in 1..Len(toClient') : i < j => toClient'[i].id < next_id - 1
  <2>1. i \in 1..Len(toClient') /\ toClient'[i].kind = "response"
    BY DEF Telling
  <2>2. CASE i \in 1..Len(toClient)
    <3>1. i \in Telling /\ toClient'[i] = toClient[i]
      BY <1>2, <2>1, <2>2 DEF Telling
    <3>2. QED
      BY <3>1 DEF IInv, Replied
  <2>3. CASE i = Len(toClient) + 1
    <3>1. toClient'[i] = m
      BY <1>2, <2>3
    <3>2. \A j \in 1..Len(toClient') : ~(i < j)
      BY <1>2, <2>3
    <3>3. QED
      BY <2>1, <3>1, <3>2
  <2>4. QED
    BY <1>4, <2>1, <2>2, <2>3
<1>6. QED
  BY <1>2, <1>3, <1>5 DEF Replied

LEMMA ToolPrintsStep ==
  ASSUME IInv, UNCHANGED << next_id, client, sending, outcome >>,
         NEW noise \in Prints, ToolPrints(noise)
  PROVE  IInv'
<1>1. /\ serving = "tool" /\ serving' = serving /\ printed < MaxPrints /\ printed' = printed + 1
      /\ toClient' = Append(toClient, noise) /\ Room(toClient)
      /\ UNCHANGED << toServer, closed, request, response, received, handled >>
  BY DEF ToolPrints
<1>2. \A i \in Telling : toClient[i].id < next_id - 1
  <2> SUFFICES ASSUME NEW i \in Telling PROVE toClient[i].id < next_id - 1
    OBVIOUS
  <2>1. PICK h \in 1..Len(handled) : toClient[i] = handled[h]
    BY DEF IInv, Replied
  <2>2. QED
    BY <1>1, <2>1, Earlier
<1>3. noise.kind # "response"
  BY CarryIds
<1>4. /\ Replied'
      /\ toClient' \in Seq(Replies \cup Prints) /\ Len(toClient') <= Capacity
  BY <1>1, <1>2, <1>3, TellsMore
<1>5. TypeOK'
  BY <1>1, <1>4, ServerTyped DEF IInv, TypeOK, ServerTypeOK
<1>6. Ordered'
  BY <1>1 DEF IInv, Ordered, Asking, Unwritten
<1>7. ~Answered
  BY <1>1 DEF IInv, Clear
<1>8. \A c : Succeeded(c) => Succeeded(c)'
  BY <1>1 DEF Succeeded
<1>9. QED
  BY <1>4, <1>5, <1>6, <1>7, <1>8, ServerFrame

\* The response goes behind what earlier calls have left.
LEMMA WriteStep ==
  ASSUME IInv, UNCHANGED << next_id, client, sending, outcome >>, Write, 
         response.body # "unprintable"
  PROVE  IInv'
<1>1. /\ serving = "write" /\ serving' = "getline"
      /\ toClient' = Append(toClient, response) /\ Room(toClient)
      /\ UNCHANGED << toServer, closed, request, response, printed, received, handled >>
  BY DEF Write
<1>2. PICK h \in 1..Len(handled) : response = handled[h]
  BY <1>1 DEF IInv, Replied
<1>3. response.id \in Nat /\ response.id < next_id /\ next_id \in Nat
  BY <1>2, Earlier
<1>4. \A i \in Telling : toClient[i].id < next_id - 1
  <2> SUFFICES ASSUME NEW i \in Telling PROVE toClient[i].id < next_id - 1
    OBVIOUS
  <2>1. toClient[i].id < response.id
    BY <1>1 DEF IInv, Replied
  <2>2. toClient[i].id \in Nat
    BY PipesTyped DEF IInv
  <2>3. QED
    BY <1>3, <2>1, <2>2
<1>5. response \in Replies \cup Prints
  BY DEF IInv, TypeOK, ServerTypeOK
<1>6. /\ Replied'
      /\ toClient' \in Seq(Replies \cup Prints) /\ Len(toClient') <= Capacity
  BY <1>1, <1>2, <1>4, <1>5, TellsMore
<1>7. TypeOK'
  BY <1>1, <1>6, ServerTyped DEF IInv, TypeOK, ServerTypeOK
<1>8. Ordered'
  BY <1>1 DEF IInv, Ordered, Asking, Unwritten
<1>9. ~Answered
  BY <1>1 DEF IInv, Clear
<1>10. \A c : Succeeded(c) => Succeeded(c)'
  BY <1>1 DEF Succeeded
<1>11. QED
  BY <1>6, <1>7, <1>8, <1>9, <1>10, ServerFrame

\* Every step of the server, of its tools, and its death.
LEMMA ServerStep ==
  ASSUME IInv, ServerSteps \/ ToolsPrint \/ ServerDies
  PROVE  IInv'
<1>1. UNCHANGED << next_id, client, sending, outcome >>
  BY DEF ServerSteps, ToolsPrint, ServerDies
<1>2. CASE Ignore \/ Malformed
  BY <1>1, <1>2, ServerEnds DEF Ignore, Malformed, server
<1>3. CASE ToolThrowsOther \/ WriteToNobody \/ Eof \/ ServerDies
  BY <1>1, <1>3, ServerEnds DEF ToolThrowsOther, WriteToNobody, Eof, ServerDies
<1>4. CASE Write
  <2>1. CASE response.body = "unprintable"
    BY <1>1, <1>4, <2>1, ServerEnds DEF Write
  <2>2. CASE response.body # "unprintable"
    BY <1>1, <1>4, <2>2, WriteStep
  <2>3. QED
    BY <2>1, <2>2
<1>5. CASE Answer
  BY <1>1, <1>5, AnswerStep
<1>6. CASE CallTool
  BY <1>1, <1>6, CallToolStep
<1>7. ASSUME NEW ending \in DOMAIN BodyOf, ToolEnds(ending) PROVE IInv'
  BY <1>1, <1>7, ToolEndsStep
<1>8. ASSUME NEW noise \in Prints, ToolPrints(noise) PROVE IInv'
  BY <1>1, <1>8, ToolPrintsStep
<1>9. QED
  BY <1>2, <1>3, <1>4, <1>5, <1>6, <1>7, <1>8 DEF ServerSteps, Serve, ToolsPrint

-----------------------------------------------------------------------------
(* The client's steps.                                                     *)

\* What the client changes keeps its type.
LEMMA ClientTyped ==
  ASSUME TypeOK, UNCHANGED server, closed' \in BOOLEAN,
         toServer' \in Seq(Lines), Len(toServer') <= Capacity,
         toClient' \in Seq(Replies \cup Prints), Len(toClient') <= Capacity,
         next_id' \in Nat \ {0}, sending' \in Lines,
         client' \in InCall \cup {"idle", "killed", "destroyed"},
         outcome' \in [Calls -> [how : {"not_made", "pending", "returned", "threw"}, from : Ids \cup {0}]]
  PROVE  TypeOK'
BY DEF TypeOK, ServerTypeOK, server

\* Requests stay in order while the client writes none.
LEMMA WritesNothing ==
  ASSUME IInv, UNCHANGED server, UNCHANGED toServer, Unwritten' >= Unwritten, Unwritten' \in Int
  PROVE  Ordered'
<1>1. Unwritten \in Int
  BY DEF IInv, TypeOK, Unwritten
<1>2. Asking' = Asking
  BY DEF Asking
<1>3. \A i \in Asking : toServer[i].id \in Nat /\ toServer[i].id < Unwritten'
  BY <1>1, PipesTyped DEF IInv, Ordered
<1>4. \A h \in 1..Len(handled) : handled[h].id < Unwritten'
  BY <1>1, PipesTyped DEF IInv, Ordered
<1>5. serving = "tool" => request.id < Unwritten'
  <2>1. serving = "tool" => request \in Lines /\ request.kind = "request"
    BY DEF IInv, TypeOK, ServerTypeOK, Ordered
  <2>2. serving = "tool" => request.id \in Nat
    BY <2>1, CarryIds
  <2>3. serving = "tool" => request.id < Unwritten
    BY DEF IInv, Ordered
  <2>4. QED
    BY <1>1, <2>2, <2>3
<1>6. QED
  BY <1>2, <1>3, <1>4, <1>5 DEF IInv, Ordered, server

\* Responses stay what they are while calls go on.
LEMMA ReadsNothing ==
  ASSUME IInv, UNCHANGED server, UNCHANGED toClient, next_id' \in Nat, next_id' >= next_id
  PROVE  Replied'
<1>1. Telling' = Telling
  BY DEF Telling
<1>2. next_id \in Nat
  BY DEF IInv, TypeOK
<1>3. \A i \in Telling : \A j \in 1..Len(toClient) : i < j => toClient[i].id < next_id' - 1
  BY <1>2, PipesTyped DEF IInv, Replied
<1>4. QED
  BY <1>1, <1>3 DEF IInv, Replied, server

\* The first line is read; the rest stays what it is.
LEMMA ReadsOne ==
  ASSUME IInv, UNCHANGED << server, next_id >>, toClient # << >>, toClient' = Tail(toClient)
  PROVE  /\ Replied'
         /\ toClient' \in Seq(Replies \cup Prints) /\ Len(toClient') <= Capacity
<1>1. toClient \in Seq(Replies \cup Prints) /\ Len(toClient) <= Capacity
  BY DEF IInv, TypeOK, ServerTypeOK
<1>2. /\ toClient' \in Seq(Replies \cup Prints) /\ Len(toClient) \in Nat \ {0}
      /\ Len(toClient') = Len(toClient) - 1
      /\ \A i \in 1..Len(toClient') : i + 1 \in 1..Len(toClient) /\ toClient'[i] = toClient[i + 1]
  BY <1>1, TailIs
<1>3. Len(toClient') <= Capacity
  BY <1>1, <1>2
<1>4. ASSUME NEW i \in Telling'
      PROVE  /\ \E h \in 1..Len(handled) : toClient'[i] = handled[h]
             /\ serving = "write" => toClient'[i].id < response.id
             /\ \A j \in 1..Len(toClient') : i < j => toClient'[i].id < next_id - 1
  <2>1. i + 1 \in Telling /\ toClient'[i] = toClient[i + 1]
    BY <1>2 DEF Telling
  <2>2. i \in Int
    BY DEF Telling
  <2>3. \A j \in 1..Len(toClient') : i < j => j + 1 \in 1..Len(toClient) /\ i + 1 < j + 1
    BY <1>2, <2>2
  <2>4. QED
    BY <2>1, <2>3 DEF IInv, Replied
<1>5. /\ handled' = handled /\ serving' = serving /\ response' = response /\ next_id' = next_id
      /\ serving = "write" => \E h \in 1..Len(handled) : response = handled[h]
  BY DEF IInv, Replied, server
<1>6. Replied'
  BY <1>4, <1>5 DEF Replied
<1>7. QED
  BY <1>2, <1>3, <1>6

\* The answer to the last call is the last line there is, and nothing is under way.
LEMMA AnswerIsLast ==
  ASSUME IInv, client = "waiting", ReadLine, IsAnswer(Head(toClient)),
         UNCHANGED << toServer, server >>
  PROVE  /\ Clear'
         /\ \E h \in 1..Len(handled) : Head(toClient) = handled[h]
<1>1. /\ toClient \in Seq(Replies \cup Prints) /\ toClient # << >> /\ toClient' = Tail(toClient)
      /\ next_id \in Nat \ {0}
  BY DEF IInv, TypeOK, ServerTypeOK, ReadLine
<1>2. /\ toClient' \in Seq(Replies \cup Prints) /\ Len(toClient) \in Nat \ {0}
      /\ Len(toClient') = Len(toClient) - 1 /\ Head(toClient) = toClient[1]
  BY <1>1, TailIs
<1>3. Head(toClient).kind = "response" /\ Head(toClient).id = next_id - 1
  BY DEF IsAnswer, IInv, OneByOne
<1>4. 1 \in Telling
  BY <1>2, <1>3 DEF Telling
<1>5. PICK h \in 1..Len(handled) : toClient[1] = handled[h]
  BY <1>4 DEF IInv, Replied
<1>6. toClient' = << >>
  <2>1. Len(toClient) < 2
    <3>1. 2 \in 1..Len(toClient) => toClient[1].id < next_id - 1
      BY <1>4 DEF IInv, Replied
    <3>2. QED
      BY <1>1, <1>2, <1>3, <3>1
  <2>2. Len(toClient') = 0
    BY <1>2, <2>1
  <2>3. QED
    BY <1>2, <2>2, EmptySeq
<1>7. serving # "tool" /\ Asking = {}
  BY <1>1, <1>2, <1>3, <1>5, Earlier
<1>8. serving # "write"
  <2> SUFFICES ASSUME serving = "write" PROVE FALSE
    OBVIOUS
  <2>1. PICK k \in 1..Len(handled) : response = handled[k]
    BY DEF IInv, Replied
  <2>2. toClient[1].id < response.id
    BY <1>4 DEF IInv, Replied
  <2>3. response.id \in Nat /\ response.id < next_id
    BY <2>1, Earlier
  <2>4. QED
    BY <1>1, <1>2, <1>3, <2>2, <2>3
<1>9. \A i \in 1..Len(toServer) : toServer[i].kind = "event"
  BY <1>7 DEF Asking, IInv, Ordered
<1>10. QED
  BY <1>2, <1>5, <1>6, <1>7, <1>8, <1>9 DEF Clear, server

\* The last call, once it is made.
LEMMA LastCall ==
  ASSUME IInv, client \notin {"idle", "destroyed"}
  PROVE  /\ next_id \in Nat \ {0} /\ next_id - 1 \in Calls /\ sending.id = next_id - 1
         /\ sending \in Requests /\ sending \in Lines /\ sending.kind = "request"
         /\ outcome[next_id - 1] = Pending
<1>1. next_id \in Nat \ {0}
  BY DEF IInv, TypeOK
<1>2. sending \in Requests /\ sending.id = next_id - 1 /\ outcome[sending.id] = Pending
  BY DEF IInv, OneByOne
<1>3. sending.id \in Ids /\ sending.kind = "request" /\ sending \in Lines
  BY <1>2, CarryIds DEF Lines
<1>4. QED
  BY <1>1, <1>2, <1>3 DEF Calls

\* A call ends, with what its caller sees.
LEMMA CallEnded ==
  ASSUME IInv, client \in InCall,
         NEW how \in {Threw, Returned(sending.id)}, EndsWith(how),
         UNCHANGED << server, next_id, sending >>
  PROVE  /\ OneByOne' /\ client' = "idle"
         /\ outcome' = [outcome EXCEPT ![next_id - 1] = how]
         /\ outcome'[next_id - 1] = how
         /\ outcome' \in [Calls -> [how : {"not_made", "pending", "returned", "threw"}, from : Ids \cup {0}]]
<1>1. /\ next_id \in Nat \ {0} /\ next_id - 1 \in Calls /\ sending.id = next_id - 1
  BY LastCall
<1>2. outcome' = [outcome EXCEPT ![next_id - 1] = how] /\ client' = "idle"
  BY <1>1 DEF EndsWith
<1>3. outcome \in [Calls -> [how : {"not_made", "pending", "returned", "threw"}, from : Ids \cup {0}]]
  BY DEF IInv, TypeOK
<1>4. how \in [how : {"not_made", "pending", "returned", "threw"}, from : Ids \cup {0}]
  BY <1>1 DEF Threw, Returned, Calls
<1>5. how.how \in {"threw", "returned"}
  BY DEF Threw, Returned
<1>6. how \notin {NotMade, Pending}
  BY <1>5 DEF NotMade, Pending
<1>7. /\ outcome' \in [Calls -> [how : {"not_made", "pending", "returned", "threw"}, from : Ids \cup {0}]]
      /\ outcome'[next_id - 1] = how
      /\ \A c \in Calls : c # next_id - 1 => outcome'[c] = outcome[c]
  BY <1>1, <1>2, <1>3, <1>4
<1>8. OneByOne'
  <2>1. ASSUME NEW c \in Calls
        PROVE  /\ c >= next_id => outcome'[c] = NotMade
               /\ c < next_id - 1 => outcome'[c] \notin {NotMade, Pending}
               /\ c = next_id - 1 => outcome'[c] \notin {NotMade, Pending}
    <3>1. c \in Nat
      BY DEF Calls
    <3>2. c >= next_id \/ c < next_id - 1 => c # next_id - 1
      BY <1>1, <3>1
    <3>3. QED
      BY <1>6, <1>7, <3>2 DEF IInv, OneByOne
  <2>2. QED
    BY <1>2, <2>1 DEF OneByOne
<1>9. QED
  BY <1>2, <1>7, <1>8

\* A call is made: it gets the next id, which nothing in the pipes has.
LEMMA CallStep ==
  ASSUME IInv, NEW method \in Methods, NEW name \in Names, Call(method, name)
  PROVE  IInv'
<1>1. /\ client = "idle" /\ client' = "sending" /\ next_id \in Calls /\ next_id' = next_id + 1
      /\ sending' = Request(next_id, method, name)
      /\ outcome' = [outcome EXCEPT ![next_id] = Pending]
      /\ UNCHANGED << toServer, toClient, closed, server >>
  BY DEF Call
<1>2. next_id \in Nat \ {0}
  BY DEF IInv, TypeOK
<1>3. sending' \in Requests /\ sending'.id = next_id /\ sending' \in Lines
  <2>1. Request(next_id, method, name) \in Requests
    BY <1>1 DEF Requests, Calls
  <2>2. QED
    BY <1>1, <2>1 DEF Request, Lines
<1>4. outcome \in [Calls -> [how : {"not_made", "pending", "returned", "threw"}, from : Ids \cup {0}]]
  BY DEF IInv, TypeOK
<1>5. /\ outcome' \in [Calls -> [how : {"not_made", "pending", "returned", "threw"}, from : Ids \cup {0}]]
      /\ outcome'[next_id] = Pending
      /\ \A c \in Calls : c # next_id => outcome'[c] = outcome[c]
  BY <1>1, <1>4 DEF Pending
<1>6. TypeOK'
  BY <1>1, <1>2, <1>3, <1>5, ClientTyped DEF IInv, TypeOK, ServerTypeOK
<1>7. Ordered'
  <2>1. Unwritten = next_id /\ Unwritten' = next_id
    BY <1>1, <1>2 DEF Unwritten
  <2>2. QED
    BY <1>1, <1>2, <2>1, WritesNothing
<1>8. Replied'
  BY <1>1, <1>2, ReadsNothing
<1>9. OneByOne'
  <2>1. ASSUME NEW c \in Calls
        PROVE  /\ c >= next_id + 1 => outcome'[c] = NotMade
               /\ c < next_id => outcome'[c] \notin {NotMade, Pending}
    <3>1. c \in Nat
      BY DEF Calls
    <3>2. /\ c >= next_id + 1 => c >= next_id /\ c # next_id
          /\ c < next_id => c # next_id /\ (c < next_id - 1 \/ c = next_id - 1)
      BY <1>2, <3>1
    <3>3. QED
      BY <1>1, <1>5, <3>2 DEF IInv, OneByOne
  <2>2. (next_id + 1) - 1 = next_id
    BY <1>2
  <2>3. QED
    BY <1>1, <1>3, <1>5, <2>1, <2>2 DEF OneByOne
<1>10. ~Answered'
  BY <1>1 DEF Answered
<1>11. QED
  BY <1>6, <1>7, <1>8, <1>9, <1>10 DEF IInv

\* Calls that throw: before the request is written, at a line with an odd id, at an
\* error, or at the end of what the server wrote.
LEMMA ThrowStep ==
  ASSUME IInv, DumpThrows \/ OddId \/ ErrorAnswer \/ ServerClosed
  PROVE  IInv'
<1>1. /\ client \in {"sending", "waiting"} /\ EndsWith(Threw)
      /\ UNCHANGED << toServer, closed, server, next_id, sending >>
      /\ \/ toClient' = toClient
         \/ toClient # << >> /\ toClient' = Tail(toClient)
  BY DEF DumpThrows, OddId, ErrorAnswer, ServerClosed, ReadLine
<1>2. UNCHANGED << server, next_id, sending >> /\ UNCHANGED << server, next_id >> /\ UNCHANGED server
  BY <1>1
<1>3. /\ OneByOne' /\ client' = "idle" /\ outcome'[next_id - 1] = Threw
      /\ outcome' \in [Calls -> [how : {"not_made", "pending", "returned", "threw"}, from : Ids \cup {0}]]
  BY <1>1, <1>2, CallEnded
<1>4. /\ Replied'
      /\ toClient' \in Seq(Replies \cup Prints) /\ Len(toClient') <= Capacity
  <2>1. CASE toClient' = toClient
    <3>1. next_id' \in Nat /\ next_id' >= next_id
      BY <1>1 DEF IInv, TypeOK
    <3>2. QED
      BY <1>1, <1>2, <2>1, <3>1, ReadsNothing DEF IInv, TypeOK, ServerTypeOK
  <2>2. CASE toClient # << >> /\ toClient' = Tail(toClient)
    BY <1>2, <2>2, ReadsOne
  <2>3. QED
    BY <1>1, <2>1, <2>2
<1>5. TypeOK'
  BY <1>1, <1>3, <1>4, ClientTyped DEF IInv, TypeOK, ServerTypeOK
<1>6. Ordered'
  <2>1. Unwritten' \in Int /\ Unwritten' >= Unwritten
    BY <1>1, <1>3 DEF Unwritten, IInv, TypeOK
  <2>2. QED
    BY <1>1, <1>2, <2>1, WritesNothing
<1>7. ~Answered'
  BY <1>1, <1>3 DEF Answered, Threw
<1>8. QED
  BY <1>3, <1>4, <1>5, <1>6, <1>7 DEF IInv

\* The request goes behind those that were written before.
LEMMA WriteRequestStep ==
  ASSUME IInv, WriteRequest
  PROVE  IInv'
<1>1. /\ client = "writing" /\ client' = "waiting" /\ Room(toServer)
      /\ toServer' = Append(toServer, sending)
      /\ UNCHANGED << toClient, closed, server, next_id, sending, outcome >>
  BY DEF WriteRequest
<1>2. /\ next_id \in Nat \ {0} /\ sending.id = next_id - 1
      /\ sending \in Requests /\ sending \in Lines /\ sending.kind = "request"
  BY <1>1, LastCall
<1>3. toServer \in Seq(Lines)
  BY DEF IInv, TypeOK, ServerTypeOK
<1>4. /\ toServer' \in Seq(Lines) /\ Len(toServer) \in Nat /\ Len(toServer') = Len(toServer) + 1
      /\ \A i \in 1..Len(toServer) : toServer'[i] = toServer[i]
      /\ toServer'[Len(toServer) + 1] = sending
  BY <1>1, <1>2, <1>3, AppendIs
<1>5. Len(toServer') <= Capacity
  BY <1>1, <1>4 DEF Room
<1>6. TypeOK'
  BY <1>1, <1>2, <1>4, <1>5, ClientTyped DEF IInv, TypeOK, ServerTypeOK
<1>7. Unwritten = next_id - 1 /\ Unwritten' = next_id
  BY <1>1 DEF Unwritten
<1>8. Asking' = Asking \cup {Len(toServer) + 1}
  <2>1. 1..Len(toServer') = 1..Len(toServer) \cup {Len(toServer) + 1}
    BY <1>4
  <2>2. QED
    BY <1>2, <1>4, <2>1 DEF Asking
<1>9. Ordered'
  <2>1. \A i \in Asking : /\ i \in 1..Len(toServer) /\ toServer'[i] = toServer[i]
                          /\ toServer[i].id \in Nat /\ toServer[i].id < next_id - 1
    BY <1>4, <1>7, PipesTyped DEF IInv, Ordered, Asking
  <2>2. \A h \in 1..Len(handled) : handled[h].id \in Nat /\ handled[h].id < next_id - 1
    BY <1>7, PipesTyped DEF IInv, Ordered
  <2>3. serving = "tool" => /\ request.id < next_id - 1 /\ request.id \in Nat
    <3>1. serving = "tool" => request \in Lines /\ request.kind = "request" /\ request.id < next_id - 1
      BY <1>7 DEF IInv, TypeOK, ServerTypeOK, Ordered
    <3>2. QED
      BY <3>1, CarryIds
  <2>4. \A i \in 1..Len(toServer') : toServer'[i].kind \in {"request", "event"}
    <3>1. \A i \in 1..Len(toServer) : toServer'[i].kind \in {"request", "event"}
      BY <1>4 DEF IInv, Ordered
    <3>2. QED
      BY <1>2, <1>4, <3>1
  <2>5. \A i, j \in Asking' : i < j => toServer'[i].id < toServer'[j].id
    <3>1. ASSUME NEW i \in Asking', NEW j \in Asking', i < j
          PROVE  toServer'[i].id < toServer'[j].id
      <4>1. i \in Asking
        BY <1>4, <1>8, <2>1, <3>1
      <4>2. CASE j \in Asking
        BY <2>1, <3>1, <4>1, <4>2 DEF IInv, Ordered
      <4>3. CASE j = Len(toServer) + 1
        BY <1>2, <1>4, <2>1, <4>1, <4>3
      <4>4. QED
        BY <1>8, <4>2, <4>3
    <3>2. QED
      BY <3>1
  <2>6. ASSUME NEW i \in Asking'
        PROVE  /\ toServer'[i].id < next_id
               /\ serving = "tool" => request.id < toServer'[i].id
               /\ \A h \in 1..Len(handled) : handled[h].id < toServer'[i].id
    <3>1. CASE i \in Asking
      BY <1>2, <2>1, <3>1 DEF IInv, Ordered
    <3>2. CASE i = Len(toServer) + 1
      BY <1>2, <1>4, <2>2, <2>3, <3>2
    <3>3. QED
      BY <1>8, <3>1, <3>2
  <2>7. \A h \in 1..Len(handled) : handled[h].id < next_id
    BY <1>2, <2>2
  <2>8. serving = "tool" =>
          /\ request.kind = "request" /\ request.id < next_id
          /\ \A h \in 1..Len(handled) : handled[h].id < request.id
    BY <1>2, <2>3 DEF IInv, Ordered
  <2>9. serving' = serving /\ request' = request /\ handled' = handled
    BY <1>1 DEF server
  <2>10. QED
    BY <1>7, <2>4, <2>5, <2>6, <2>7, <2>8, <2>9 DEF Ordered
<1>10. Replied'
  BY <1>1, <1>2, ReadsNothing
<1>11. OneByOne'
  BY <1>1 DEF IInv, OneByOne
<1>12. ~Answered'
  BY <1>1 DEF Answered
<1>13. QED
  BY <1>6, <1>9, <1>10, <1>11, <1>12 DEF IInv

\* A result is the answer, and nothing is left behind it; initialize() goes on.
LEMMA ResultStep ==
  ASSUME IInv, ResultAnswer
  PROVE  IInv' /\ Succeeded(sending.id)
<1>1. /\ client = "waiting" /\ ReadLine /\ IsAnswer(Head(toClient)) /\ Head(toClient).body = "result"
      /\ toClient # << >> /\ toClient' = Tail(toClient)
      /\ UNCHANGED << toServer, closed, server, next_id, sending >>
      /\ \/ client' = "notifying" /\ outcome' = outcome
         \/ EndsWith(Returned(sending.id))
  BY DEF ResultAnswer, ReadLine, IsAnswer
<1>2. UNCHANGED server /\ UNCHANGED << server, next_id >> /\ UNCHANGED << toServer, server >>
      /\ UNCHANGED << server, next_id, sending >>
  BY <1>1
<1>3. Clear' /\ \E h \in 1..Len(handled) : Head(toClient) = handled[h]
  BY <1>1, <1>2, AnswerIsLast
<1>4. Succeeded(sending.id)
  BY <1>1, <1>3 DEF Succeeded, IsAnswer
<1>5. Succeeded(sending.id)'
  BY <1>1, <1>4 DEF Succeeded, server
<1>6. /\ Replied'
      /\ toClient' \in Seq(Replies \cup Prints) /\ Len(toClient') <= Capacity
  BY <1>1, <1>2, ReadsOne
<1>7. /\ client' \in {"idle", "notifying"} /\ OneByOne'
      /\ outcome' \in [Calls -> [how : {"not_made", "pending", "returned", "threw"}, from : Ids \cup {0}]]
  <2>1. CASE client' = "notifying" /\ outcome' = outcome
    <3>1. OneByOne'
      BY <1>1, <1>5, <2>1 DEF IInv, OneByOne
    <3>2. QED
      BY <2>1, <3>1 DEF IInv, TypeOK
  <2>2. CASE EndsWith(Returned(sending.id))
    BY <1>1, <1>2, <2>2, CallEnded
  <2>3. QED
    BY <1>1, <2>1, <2>2
<1>8. TypeOK'
  BY <1>1, <1>6, <1>7, ClientTyped DEF IInv, TypeOK, ServerTypeOK
<1>9. Ordered'
  <2>1. Unwritten' \in Int /\ Unwritten' >= Unwritten
    BY <1>1, <1>7 DEF Unwritten, IInv, TypeOK
  <2>2. QED
    BY <1>1, <1>2, <2>1, WritesNothing
<1>10. QED
  BY <1>3, <1>4, <1>6, <1>7, <1>8, <1>9 DEF IInv

\* initialize() writes its notification into a pipe with nothing but notifications.
LEMMA WriteNotificationStep ==
  ASSUME IInv, WriteNotification
  PROVE  IInv'
<1>1. /\ client = "notifying" /\ Room(toServer) /\ toServer' = Append(toServer, Line("event"))
      /\ EndsWith(Returned(sending.id))
      /\ UNCHANGED << toClient, closed, server, next_id, sending >>
  BY DEF WriteNotification
<1>2. UNCHANGED server /\ UNCHANGED << server, next_id, sending >>
  BY <1>1
<1>3. Clear
  BY <1>1 DEF IInv, Answered
<1>4. Line("event") \in Lines /\ Line("event").kind = "event"
  BY DEF Line, Lines
<1>5. toServer \in Seq(Lines)
  BY DEF IInv, TypeOK, ServerTypeOK
<1>6. /\ toServer' \in Seq(Lines) /\ Len(toServer) \in Nat /\ Len(toServer') = Len(toServer) + 1
      /\ \A i \in 1..Len(toServer) : toServer'[i] = toServer[i]
      /\ toServer'[Len(toServer) + 1] = Line("event")
  BY <1>1, <1>4, <1>5, AppendIs
<1>7. Len(toServer') <= Capacity
  BY <1>1, <1>6 DEF Room
<1>8. \A i \in 1..Len(toServer') : toServer'[i].kind = "event"
  <2>1. 1..Len(toServer') = 1..Len(toServer) \cup {Len(toServer) + 1}
    BY <1>6
  <2>2. QED
    BY <1>3, <1>4, <1>6, <2>1 DEF Clear
<1>9. Clear'
  BY <1>1, <1>3, <1>8 DEF Clear, server
<1>10. /\ OneByOne' /\ client' = "idle"
       /\ outcome' \in [Calls -> [how : {"not_made", "pending", "returned", "threw"}, from : Ids \cup {0}]]
  BY <1>1, <1>2, CallEnded
<1>11. TypeOK'
  BY <1>1, <1>6, <1>7, <1>10, ClientTyped DEF IInv, TypeOK, ServerTypeOK
<1>12. Ordered'
  <2>1. Asking' = {}
    BY <1>8 DEF Asking
  <2>2. Unwritten' = Unwritten
    BY <1>1, <1>10 DEF Unwritten
  <2>3. serving' = serving /\ request' = request /\ handled' = handled
    BY <1>1 DEF server
  <2>4. QED
    BY <1>8, <2>1, <2>2, <2>3 DEF IInv, Ordered
<1>13. Replied'
  <2>1. next_id' \in Nat /\ next_id' >= next_id
    BY <1>1 DEF IInv, TypeOK
  <2>2. QED
    BY <1>1, <1>2, <2>1, ReadsNothing
<1>14. QED
  BY <1>9, <1>10, <1>11, <1>12, <1>13 DEF IInv

\* The steps by which no call begins or ends: it is dumped, a line is skipped, and the client is
\* killed or destroyed.
LEMMA NoCallStep ==
  ASSUME IInv, Dumped \/ Skip \/ SendToNobody \/ Destroy
  PROVE  IInv'
<1>1. /\ UNCHANGED << toServer, server, next_id, sending, outcome >>
      /\ \/ Dumped /\ client = "sending" /\ client' = "writing" /\ closed' = closed /\ toClient' = toClient
         \/ Skip /\ client' = client /\ closed' = closed /\ client = "waiting"
            /\ toClient # << >> /\ toClient' = Tail(toClient)
         \/ SendToNobody /\ client \in {"writing", "notifying"} /\ client' = "killed"
            /\ closed' = TRUE /\ toClient' = toClient
         \/ Destroy /\ client = "idle" /\ client' = "destroyed" /\ closed' = TRUE /\ toClient' = toClient
  BY DEF Dumped, Skip, SendToNobody, Destroy, ReadLine
<1>2. UNCHANGED server /\ UNCHANGED << server, next_id >> /\ next_id \in Nat \ {0}
  BY <1>1 DEF IInv, TypeOK
<1>3. /\ Replied'
      /\ toClient' \in Seq(Replies \cup Prints) /\ Len(toClient') <= Capacity
  <2>1. CASE toClient' = toClient
    BY <1>1, <1>2, <2>1, ReadsNothing DEF IInv, TypeOK, ServerTypeOK
  <2>2. CASE toClient # << >> /\ toClient' = Tail(toClient)
    BY <1>2, <2>2, ReadsOne
  <2>3. QED
    BY <1>1, <2>1, <2>2
<1>4. TypeOK'
  BY <1>1, <1>3, ClientTyped DEF IInv, TypeOK, ServerTypeOK
<1>5. Ordered'
  <2>1. Unwritten' \in Int /\ Unwritten' >= Unwritten
    BY <1>1, <1>2 DEF Unwritten
  <2>2. QED
    BY <1>1, <1>2, <2>1, WritesNothing
<1>6. OneByOne'
  <2>1. \A c : Succeeded(c)' <=> Succeeded(c)
    BY <1>1 DEF Succeeded, server
  <2>2. QED
    BY <1>1, <2>1 DEF IInv, OneByOne
<1>7. ~Answered'
  BY <1>1 DEF Answered
<1>8. QED
  BY <1>3, <1>4, <1>5, <1>6, <1>7 DEF IInv

-----------------------------------------------------------------------------
LEMMA InitOK == Init => IInv
<1> SUFFICES ASSUME Init PROVE IInv
  OBVIOUS
<1>1. /\ toServer = << >> /\ toClient = << >> /\ closed = FALSE /\ serving = "getline"
      /\ request = Line("empty") /\ response = Noise("text") /\ printed = 0
      /\ received = << >> /\ handled = << >>
      /\ next_id = 1 /\ client = "idle" /\ sending = Line("empty")
      /\ outcome = [c \in Calls |-> NotMade]
  BY DEF Init, ServerInit
<1>2. Line("empty") \in Lines /\ Noise("text") \in Prints
  BY DEF Lines, Prints
<1>3. NotMade \in [how : {"not_made", "pending", "returned", "threw"}, from : Ids \cup {0}]
  BY DEF NotMade
<1>4. TypeOK
  <2>1. /\ toServer \in Seq(Lines) /\ Len(toServer) <= Capacity
        /\ toClient \in Seq(Replies \cup Prints) /\ Len(toClient) <= Capacity
        /\ received \in Seq(Ids) /\ handled \in Seq(Replies)
    BY <1>1, EmptySeq
  <2>2. closed \in BOOLEAN /\ serving \in {"getline", "tool", "write", "exited"}
    BY <1>1
  <2>3. printed \in 0..MaxPrints
    BY <1>1
  <2>4. request \in Lines /\ response \in Replies \cup Prints
    BY <1>1, <1>2
  <2>5. ServerTypeOK
    BY <2>1, <2>2, <2>3, <2>4 DEF ServerTypeOK
  <2>6. QED
    BY <1>1, <1>2, <1>3, <2>5 DEF TypeOK
<1>5. Ordered /\ Replied
  BY <1>1 DEF Ordered, Replied, Asking, Telling
<1>6. ~Answered
  BY <1>1 DEF Answered
<1>7. OneByOne
  BY <1>1 DEF OneByOne, Calls
<1>8. QED
  BY <1>4, <1>5, <1>6, <1>7 DEF IInv

LEMMA NextOK ==
  ASSUME IInv, [Next]_vars
  PROVE  IInv'
<1>1. CASE UNCHANGED vars
  <2>1. TypeOK'
    BY <1>1 DEF IInv, TypeOK, ServerTypeOK, vars, server
  <2>2. Ordered' /\ Replied'
    BY <1>1 DEF IInv, Ordered, Replied, Asking, Telling, Unwritten, vars, server
  <2>3. (Answered' => Clear') /\ OneByOne'
    BY <1>1 DEF IInv, Answered, Clear, OneByOne, Succeeded, vars, server
  <2>4. QED
    BY <2>1, <2>2, <2>3 DEF IInv
<1>2. CASE MakeCall
  BY <1>2, CallStep DEF MakeCall
<1>3. CASE Proceed
  BY <1>3, ThrowStep, WriteRequestStep, NoCallStep, ResultStep, WriteNotificationStep DEF Proceed
<1>4. CASE Destroy
  BY <1>4, NoCallStep
<1>5. CASE ServerSteps \/ ToolsPrint \/ ServerDies
  BY <1>5, ServerStep
<1>6. QED
  BY <1>1, <1>2, <1>3, <1>4, <1>5 DEF Next, Terminated

LEMMA Always == Spec => []IInv
BY InitOK, NextOK, PTL DEF Spec

\* The variables of the client, the server and the pipes keep their types.
THEOREM TypeCorrect == Spec => []TypeOK
<1>1. IInv => TypeOK
  BY DEF IInv
<1>2. QED
  BY <1>1, Always, PTL

\* A call that returned leaves two pipes with nothing but notifications in them and a
\* server that is doing nothing: what earlier calls left behind has been skipped
\* (stdio_client_transport.cpp:18-46).
THEOREM StaysInSync == Spec => []InSync
<1>1. IInv => InSync
  BY DEF IInv, Answered, Clear, InSync
<1>2. QED
  BY <1>1, Always, PTL

-----------------------------------------------------------------------------
(* The session implements RemoteCalls.                                     *)

\* What became of the calls, if nothing was decided.
LEMMA NothingDecided ==
  ASSUME handled' = handled
  PROVE  [c \in Calls |-> ResultOf(c)]' = [c \in Calls |-> ResultOf(c)]
BY DEF ResultOf

\* What became of a call that succeeded.
LEMMA ResultIs ==
  ASSUME NEW c \in Calls, Succeeded(c)
  PROVE  ResultOf(c) = "result"
BY DEF Succeeded, ResultOf

\* Deciding a response carries out its call, once, after those before it.
LEMMA CarriedOut ==
  ASSUME IInv, outcome' = outcome, NEW r \in Replies, Decide(r), r.id < Unwritten,
         \A h \in 1..Len(handled) : handled[h].id < r.id
  PROVE  Remote!CarryOut(r.id) /\ r.id \in Calls
<1> DEFINE n == Len(handled)
           c == r.id
           kind == IF r.body = "result" THEN "result" ELSE "failure"
<1>1. c \in Calls /\ c \in Nat
  BY CarryIds DEF Calls
<1>2. next_id \in Nat \ {0} /\ c < next_id
  BY <1>1 DEF Unwritten, IInv, TypeOK
<1>3. outcome[c] # NotMade
  <2>1. c < next_id - 1 \/ c = next_id - 1
    BY <1>1, <1>2
  <2>2. CASE c = next_id - 1 /\ client \notin {"idle", "destroyed"}
    BY <2>2, LastCall DEF NotMade, Pending
  <2>3. QED
    BY <1>1, <2>1, <2>2 DEF IInv, OneByOne
<1>4. \A d \in Calls : d >= c => ResultOf(d) = "none"
  <2>1. \A d \in Calls, h \in 1..n : d >= c => handled[h].id # d
    BY <1>1, PipesTyped DEF IInv, Calls
  <2>2. QED
    BY <2>1 DEF ResultOf
<1>5. /\ n \in Nat /\ Len(handled') = n + 1
      /\ \A h \in 1..n : handled'[h] = handled[h]
      /\ handled'[n + 1] = r
  <2>1. handled \in Seq(Replies) /\ handled' = Append(handled, r)
    BY DEF IInv, TypeOK, ServerTypeOK, Decide
  <2>2. QED
    BY <2>1, AppendIs
<1>6. 1..Len(handled') = 1..n \cup {n + 1}
  BY <1>5
<1>7. ASSUME NEW d \in Calls, d # c
      PROVE  ResultOf(d)' = ResultOf(d)
  <2>1. {i \in 1..Len(handled') : handled'[i].id = d} = {i \in 1..n : handled[i].id = d}
    BY <1>5, <1>6, <1>7
  <2>2. {i \in 1..n : handled[i].id = d} \subseteq 1..n
    OBVIOUS
  <2>3. QED
    BY <1>5, <2>1, <2>2 DEF ResultOf
<1>8. ResultOf(c)' = kind
  <2>1. {i \in 1..Len(handled') : handled'[i].id = c} = {n + 1}
    <3>1. \A h \in 1..n : handled'[h].id # c
      BY <1>1, <1>5, PipesTyped DEF IInv
    <3>2. QED
      BY <1>5, <1>6, <3>1
  <2>2. handled'[n + 1].body = "result" <=> r.body = "result"
    BY <1>5
  <2>3. QED
    BY <2>1, <2>2 DEF ResultOf
<1> HIDE DEF n, kind
<1>9. [d \in Calls |-> ResultOf(d)]' = [[d \in Calls |-> ResultOf(d)] EXCEPT ![c] = kind]
  BY <1>1, <1>7, <1>8
<1>10. kind \in {"result", "failure"}
  BY DEF kind
<1>11. QED
  BY <1>1, <1>3, <1>4, <1>9, <1>10 DEF Remote!CarryOut, Remote!NotMade, NotMade

\* A step of the session is a step of RemoteCalls, or none.
LEMMA RemoteStep ==
  ASSUME IInv, [Next]_vars
  PROVE  [Remote!Next]_<< outcome, [c \in Calls |-> ResultOf(c)] >>
<1> DEFINE result == [c \in Calls |-> ResultOf(c)]
<1>1. ASSUME UNCHANGED << outcome, handled >>
      PROVE  UNCHANGED << outcome, result >>
  BY <1>1, NothingDecided
<1>2. ASSUME NEW method \in Methods, NEW name \in Names, Call(method, name)
      PROVE  Remote!Make(next_id) /\ next_id \in Calls
  <2>1. /\ client = "idle" /\ next_id \in Calls /\ handled' = handled
        /\ outcome' = [outcome EXCEPT ![next_id] = Pending]
    BY <1>2 DEF Call, server
  <2>2. next_id \in Nat
    BY DEF IInv, TypeOK
  <2>3. outcome[next_id] = NotMade
    BY <2>1, <2>2 DEF IInv, OneByOne
  <2>4. ASSUME NEW d \in Calls, d < next_id PROVE outcome[d] \notin {NotMade, Pending}
    <3>1. d \in Nat /\ (d < next_id - 1 \/ d = next_id - 1)
      BY <2>2, <2>4 DEF Calls
    <3>2. QED
      BY <2>1, <3>1 DEF IInv, OneByOne
  <2>5. result' = result
    BY <2>1, NothingDecided
  <2> HIDE DEF result
  <2>6. QED
    BY <2>1, <2>3, <2>4, <2>5
       DEF Remote!Make, Remote!NotMade, Remote!Pending, NotMade, Pending, result
<1>3. ASSUME client \in InCall, EndsWith(Threw), handled' = handled
      PROVE  Remote!Throw(next_id - 1) /\ next_id - 1 \in Calls
  <2>1. /\ next_id - 1 \in Calls /\ sending.id = next_id - 1 /\ outcome[next_id - 1] = Pending
    BY <1>3, LastCall
  <2>2. outcome' = [outcome EXCEPT ![next_id - 1] = Threw]
    BY <1>3, <2>1 DEF EndsWith
  <2>3. result' = result
    BY <1>3, NothingDecided
  <2> HIDE DEF result
  <2>4. QED
    BY <2>1, <2>2, <2>3 DEF Remote!Throw, Remote!Pending, Remote!Threw, Pending, Threw, result
<1>4. ASSUME client \in InCall, EndsWith(Returned(sending.id)),
             Succeeded(sending.id), handled' = handled
      PROVE  Remote!Return(next_id - 1) /\ next_id - 1 \in Calls
  <2>1. /\ next_id - 1 \in Calls /\ sending.id = next_id - 1 /\ outcome[next_id - 1] = Pending
    BY <1>4, LastCall
  <2>2. outcome' = [outcome EXCEPT ![next_id - 1] = Returned(next_id - 1)]
    BY <1>4, <2>1 DEF EndsWith
  <2>3. ResultOf(next_id - 1) = "result"
    <3>1. PICK c \in Calls : c = next_id - 1
      BY <2>1
    <3>2. QED
      BY <1>4, <2>1, <3>1, ResultIs
  <2>4. result[next_id - 1] = "result"
    BY <2>1, <2>3
  <2>5. result' = result
    BY <1>4, NothingDecided
  <2> HIDE DEF result
  <2>6. QED
    BY <2>1, <2>2, <2>4, <2>5
       DEF Remote!Return, Remote!Pending, Remote!Returned, Pending, Returned, result
<1>5. CASE Answer /\ UNCHANGED << next_id, client, sending, outcome >>
  <2>1. TakeRequest /\ \E body \in {"result", "error"} : Decide(Response(request'.id, body))
    BY <1>5 DEF Answer
  <2>2. /\ request'.id \in Ids /\ request'.id < Unwritten
        /\ \A h \in 1..Len(handled) : handled[h].id < request'.id
    BY <2>1, Taken
  <2>3. PICK body \in {"result", "error"} : Decide(Response(request'.id, body))
    BY <2>1
  <2>4. Response(request'.id, body) \in Replies /\ Response(request'.id, body).id = request'.id
    <3>1. request'.id \in Ids /\ body \in Bodies
      BY <2>2 DEF Bodies
    <3>2. QED
      BY <3>1, ResponseIs
  <2>5. PICK r \in Replies : r = Response(request'.id, body)
    BY <2>4
  <2>6. Remote!CarryOut(r.id) /\ r.id \in Calls
    BY <1>5, <2>2, <2>3, <2>4, <2>5, CarriedOut
  <2>7. QED
    BY <2>6 DEF Remote!Next
<1>6. ASSUME NEW ending \in DOMAIN BodyOf, ToolEnds(ending),
             UNCHANGED << next_id, client, sending, outcome >>
      PROVE  Remote!Next
  <2>1. /\ serving = "tool" /\ Decide(Response(request.id, BodyOf[ending]))
    BY <1>6 DEF ToolEnds
  <2>2. request \in Lines /\ request.kind = "request" /\ request.id \in Ids
    BY <2>1, CarryIds DEF IInv, TypeOK, ServerTypeOK, Ordered
  <2>3. BodyOf[ending] \in Bodies
    BY DEF BodyOf, Bodies
  <2>4. /\ Response(request.id, BodyOf[ending]) \in Replies
        /\ Response(request.id, BodyOf[ending]).id = request.id
    BY <2>2, <2>3, ResponseIs
  <2>5. PICK r \in Replies : r = Response(request.id, BodyOf[ending])
    BY <2>4
  <2>6. r.id < Unwritten /\ \A h \in 1..Len(handled) : handled[h].id < r.id
    BY <2>1, <2>4, <2>5 DEF IInv, Ordered
  <2>7. Remote!CarryOut(r.id) /\ r.id \in Calls
    BY <1>6, <2>1, <2>5, <2>6, CarriedOut
  <2>8. QED
    BY <2>7 DEF Remote!Next
<1> HIDE DEF result
<1>7. CASE ResultAnswer
  <2>1. Succeeded(sending.id)
    BY <1>7, ResultStep
  <2>2. client = "waiting" /\ handled' = handled
    BY <1>7 DEF ResultAnswer, ReadLine, server
  <2>3. sending.id = next_id - 1 /\ Head(toClient).id = sending.id
    BY <1>7, <2>2, LastCall DEF ResultAnswer, IsAnswer
  <2>4. outcome' = outcome \/ EndsWith(Returned(sending.id))
    BY <1>7, <2>3 DEF ResultAnswer
  <2>5. QED
    BY <1>1, <1>4, <2>1, <2>2, <2>4 DEF Remote!Next, result
<1>8. CASE WriteNotification
  <2>1. client = "notifying" /\ EndsWith(Returned(sending.id)) /\ handled' = handled
    BY <1>8 DEF WriteNotification, server
  <2>2. Succeeded(sending.id)
    BY <2>1 DEF IInv, OneByOne
  <2>3. QED
    BY <1>4, <2>1, <2>2 DEF Remote!Next
<1>9. CASE DumpThrows \/ OddId \/ ErrorAnswer \/ ServerClosed
  <2>1. client \in {"sending", "waiting"} /\ EndsWith(Threw) /\ handled' = handled
    BY <1>9 DEF DumpThrows, OddId, ErrorAnswer, ServerClosed, ReadLine, server
  <2>2. QED
    BY <1>3, <2>1 DEF Remote!Next
<1>10. CASE MakeCall
  BY <1>2, <1>10 DEF MakeCall, Remote!Next
<1>11. CASE Dumped \/ WriteRequest \/ SendToNobody \/ Skip \/ Destroy \/ ServerDies \/ ToolsPrint \/ UNCHANGED vars
  <2>1. outcome' = outcome /\ handled' = handled
    BY <1>11 DEF Dumped, WriteRequest, SendToNobody, Skip, Destroy, ServerDies, ToolsPrint, ToolPrints, vars, server
  <2>2. QED
    BY <1>1, <2>1 DEF result
<1>12. CASE (Ignore \/ Malformed \/ CallTool \/ ToolThrowsOther \/ Write \/ WriteToNobody \/ Eof)
            /\ UNCHANGED << next_id, client, sending, outcome >>
  <2>1. outcome' = outcome /\ handled' = handled
    BY <1>12 DEF Ignore, Malformed, CallTool, ToolThrowsOther, Write, WriteToNobody, Eof, server
  <2>2. QED
    BY <1>1, <2>1 DEF result
<1>13. QED
  BY <1>5, <1>6, <1>7, <1>8, <1>9, <1>10, <1>11, <1>12
     DEF Next, Proceed, ServerSteps, Serve, Terminated

LEMMA RemoteInit == Init => Remote!Init
<1> SUFFICES ASSUME Init PROVE Remote!Init
  OBVIOUS
<1>1. handled = << >> /\ outcome = [c \in Calls |-> NotMade]
  BY DEF Init, ServerInit
<1>2. \A c \in Calls : ResultOf(c) = "none"
  BY <1>1 DEF ResultOf
<1>3. QED
  BY <1>1, <1>2 DEF Remote!Init, Remote!NotMade, NotMade

\* A session carries its calls out in the order they were made, each at most once; a
\* call that returns was carried out, and returns its own result, whatever earlier
\* calls and the tools have left in the pipes (mcp_client.cpp, stdio_client_transport.cpp,
\* mcp_server.cpp).
THEOREM ImplementsRemoteCalls == Spec => RemoteCallsSpec
<1>1. IInv /\ [Next]_vars => [Remote!Next]_<< outcome, [c \in Calls |-> ResultOf(c)] >>
  BY RemoteStep
<1>2. QED
  BY <1>1, RemoteInit, Always, PTL DEF Spec, RemoteCallsSpec, Remote!Spec

-----------------------------------------------------------------------------
(* The server with any other client, whose lines may be any.               *)

USE StandaloneAssumption DEF StandaloneAssumption

\* The request being handled is the last one read, and so is the one whose response
\* is about to be written.
Handling ==
  LET last == received[Len(received)]
  IN  /\ serving = "tool" => request \in Requests /\ request.id = last
      /\ serving = "write" => response \in Replies /\ response.id = last

AloneInv == StandaloneTypeOK /\ AnsweredOnceInOrder /\ Handling

\* Decrementing the members of a set that are not 1 keeps their number.
LEMMA Shifted ==
  ASSUME NEW S, IsFiniteSet(S), S \subseteq Nat \ {0}, NEW T, T = {i - 1 : i \in S \ {1}}
  PROVE  /\ IsFiniteSet(T)
         /\ Cardinality(T) = IF 1 \in S THEN Cardinality(S) - 1 ELSE Cardinality(S)
<1> DEFINE R == S \ {1}
           f == [i \in R |-> i - 1]
<1>1. /\ IsFiniteSet(R)
      /\ Cardinality(R) = IF 1 \in S THEN Cardinality(S) - 1 ELSE Cardinality(S)
  BY FS_RemoveElement
<1>2. f \in [R -> T] /\ \A t \in T : \E i \in R : f[i] = t
  OBVIOUS
<1>3. f \in Surjection(R, T)
  BY <1>2 DEF Surjection
<1>4. \A i, j \in R : f[i] = f[j] => i = j
  OBVIOUS
<1>5. f \in Injection(R, T)
  BY <1>2, <1>4 DEF Injection, IsInjective
<1>6. IsFiniteSet(T) /\ Cardinality(T) = Cardinality(R)
  <2> HIDE DEF R, f
  <2>1. ExistsBijection(R, T)
    BY <1>3, <1>5 DEF ExistsBijection, Bijection
  <2>2. QED
    BY <1>1, <2>1, FS_Bijection
<1>7. QED
  BY <1>1, <1>6

\* What is in the pipes and in the histories, and how many responses there are.
LEMMA AloneTyped ==
  ASSUME StandaloneTypeOK
  PROVE  /\ toServer \in Seq(Lines) /\ toClient \in Seq(Replies \cup Prints)
         /\ answered \in Seq(Ids) /\ received \in Seq(Ids)
         /\ Len(toClient) \in Nat /\ Len(answered) \in Nat /\ Len(received) \in Nat
         /\ IsFiniteSet(Responses) /\ Cardinality(Responses) \in Nat
         /\ Responses \subseteq 1..Len(toClient)
         /\ \A i : /\ IsFiniteSet(UpTo(i)) /\ Cardinality(UpTo(i)) \in Nat
                   /\ UpTo(i) \subseteq Responses
                   /\ Cardinality(UpTo(i)) <= Cardinality(Responses)
<1>1. /\ toServer \in Seq(Lines) /\ toClient \in Seq(Replies \cup Prints)
      /\ answered \in Seq(Ids) /\ received \in Seq(Ids)
  BY DEF StandaloneTypeOK, ServerTypeOK
<1>2. Len(toClient) \in Nat /\ Len(answered) \in Nat /\ Len(received) \in Nat
  BY <1>1
<1>3. Responses \subseteq 1..Len(toClient)
  BY DEF Responses
<1>4. IsFiniteSet(Responses) /\ Cardinality(Responses) \in Nat
  <2>1. IsFiniteSet(1..Len(toClient))
    BY <1>2, FS_Interval
  <2>2. IsFiniteSet(Responses)
    BY <1>3, <2>1, FS_Subset
  <2>3. QED
    BY <2>2, FS_CardinalityType
<1>5. ASSUME NEW i
      PROVE  /\ IsFiniteSet(UpTo(i)) /\ Cardinality(UpTo(i)) \in Nat
             /\ UpTo(i) \subseteq Responses
             /\ Cardinality(UpTo(i)) <= Cardinality(Responses)
  <2>1. UpTo(i) \subseteq Responses
    BY DEF UpTo
  <2>2. QED
    BY <1>4, <2>1, FS_Subset, FS_CardinalityType
<1>6. QED
  BY <1>1, <1>2, <1>3, <1>4, <1>5

\* Every variable keeps its type.
LEMMA AloneTypeStep ==
  ASSUME StandaloneTypeOK, Handling,
         [StandaloneNext]_standaloneVars
  PROVE  StandaloneTypeOK'
<1>1. /\ toServer \in Seq(Lines) /\ Len(toServer) <= Capacity /\ Len(toServer) \in Nat
      /\ toClient \in Seq(Replies \cup Prints) /\ Len(toClient) <= Capacity /\ Len(toClient) \in Nat
      /\ received \in Seq(Ids) /\ handled \in Seq(Replies) /\ answered \in Seq(Ids)
  BY DEF StandaloneTypeOK, ServerTypeOK
<1>2. /\ Capacity \in Nat /\ MaxPrints \in Nat /\ MaxLines \in Nat
      /\ arrived \in 0..MaxLines /\ printed \in 0..MaxPrints
  BY DEF StandaloneTypeOK, ServerTypeOK
<1>3. ASSUME NEW T, NEW s \in Seq(T), s # << >>, Len(s) <= Capacity
      PROVE  Tail(s) \in Seq(T) /\ Len(Tail(s)) <= Capacity /\ Head(s) \in T
  BY <1>2, <1>3, TailIs
<1>4. ASSUME NEW T, NEW s \in Seq(T), NEW e \in T, Room(s)
      PROVE  Append(s, e) \in Seq(T) /\ Len(Append(s, e)) <= Capacity
  BY <1>2, <1>4, AppendIs DEF Room
<1>5. ASSUME NEW line \in Lines, Arrive(line) PROVE StandaloneTypeOK'
  <2>1. toServer' \in Seq(Lines) /\ Len(toServer') <= Capacity
    BY <1>1, <1>4, <1>5 DEF Arrive
  <2>2. arrived' \in 0..MaxLines
    BY <1>2, <1>5 DEF Arrive
  <2>3. QED
    BY <1>5, <2>1, <2>2 DEF Arrive, StandaloneTypeOK, ServerTypeOK, server
<1>6. CASE ClientReads
  <2>1. /\ toClient' \in Seq(Replies \cup Prints) /\ Len(toClient') <= Capacity
        /\ Head(toClient) \in Replies \cup Prints
    BY <1>1, <1>3, <1>6 DEF ClientReads
  <2>2. answered' \in Seq(Ids)
    <3>1. CASE Head(toClient).kind = "response"
      <4>1. Head(toClient).id \in Ids
        BY <2>1, <3>1, CarryIds, ResponseIs
      <4>2. QED
        BY <1>1, <1>6, <3>1, <4>1 DEF ClientReads
    <3>2. CASE Head(toClient).kind # "response"
      BY <1>1, <1>6, <3>2 DEF ClientReads
    <3>3. QED
      BY <3>1, <3>2
  <2>3. QED
    BY <1>6, <2>1, <2>2 DEF ClientReads, StandaloneTypeOK, ServerTypeOK, server
<1>7. CASE Close \/ UNCHANGED standaloneVars
  BY <1>7 DEF Close, standaloneVars, StandaloneTypeOK, ServerTypeOK, server
<1>8. ASSUME toServer # << >>, toServer' = Tail(toServer)
      PROVE  toServer' \in Seq(Lines) /\ Len(toServer') <= Capacity /\ Head(toServer) \in Lines
  BY <1>1, <1>3, <1>8
<1>9. CASE (Ignore \/ Malformed) /\ UNCHANGED << arrived, answered >>
  <2>1. /\ toServer' \in Seq(Lines) /\ Len(toServer') <= Capacity
        /\ serving' \in {"getline", "exited"}
        /\ UNCHANGED << toClient, closed, request, response, printed, received, handled >>
    BY <1>8, <1>9 DEF Ignore, Malformed, server
  <2>2. QED
    BY <1>9, <2>1 DEF StandaloneTypeOK, ServerTypeOK
<1>10. ASSUME TakeRequest
       PROVE  /\ toServer' \in Seq(Lines) /\ Len(toServer') <= Capacity
              /\ received' \in Seq(Ids)
              /\ request' \in Requests /\ request' \in Lines /\ request'.id \in Ids
              /\ received' = Append(received, request'.id)
  <2>1. /\ toServer' \in Seq(Lines) /\ Len(toServer') <= Capacity
        /\ request' \in Lines /\ request'.kind = "request"
        /\ received' = Append(received, request'.id)
    BY <1>8, <1>10 DEF TakeRequest
  <2>2. request' \in Requests /\ request'.id \in Ids
    BY <2>1, CarryIds, ResponseIs
  <2>3. QED
    BY <1>1, <2>1, <2>2
<1>11. ASSUME NEW r \in Replies, Decide(r)
       PROVE  response' \in Replies \cup Prints /\ handled' \in Seq(Replies) /\ serving' = "write"
  BY <1>1, <1>11 DEF Decide
<1>12. CASE Answer /\ UNCHANGED << arrived, answered >>
  <2>1. TakeRequest /\ UNCHANGED << toClient, closed, printed >>
        /\ \E body \in {"result", "error"} : Decide(Response(request'.id, body))
    BY <1>12 DEF Answer
  <2>2. PICK body \in Bodies : Decide(Response(request'.id, body))
    BY <2>1 DEF Bodies
  <2>3. Response(request'.id, body) \in Replies
    BY <1>10, <2>1, CarryIds, ResponseIs
  <2>4. response' \in Replies \cup Prints /\ handled' \in Seq(Replies) /\ serving' = "write"
    BY <1>11, <2>2, <2>3
  <2>5. QED
    BY <1>10, <1>12, <2>1, <2>4 DEF StandaloneTypeOK, ServerTypeOK
<1>13. CASE CallTool /\ UNCHANGED << arrived, answered >>
  BY <1>10, <1>13 DEF CallTool, StandaloneTypeOK, ServerTypeOK
<1>14. ASSUME NEW noise \in Prints, ToolPrints(noise), UNCHANGED << arrived, answered >>
       PROVE  StandaloneTypeOK'
  <2>1. toClient' \in Seq(Replies \cup Prints) /\ Len(toClient') <= Capacity
    BY <1>1, <1>4, <1>14 DEF ToolPrints
  <2>2. printed' \in 0..MaxPrints
    BY <1>2, <1>14 DEF ToolPrints
  <2>3. QED
    BY <1>14, <2>1, <2>2 DEF ToolPrints, StandaloneTypeOK, ServerTypeOK
<1>15. ASSUME NEW ending \in DOMAIN BodyOf, ToolEnds(ending), UNCHANGED << arrived, answered >>
       PROVE  StandaloneTypeOK'
  <2>1. request \in Requests /\ BodyOf[ending] \in Bodies
    BY <1>15 DEF ToolEnds, Handling, BodyOf, Bodies
  <2>2. Response(request.id, BodyOf[ending]) \in Replies
    BY <2>1, CarryIds, ResponseIs
  <2>3. response' \in Replies \cup Prints /\ handled' \in Seq(Replies) /\ serving' = "write"
    BY <1>11, <1>15, <2>2 DEF ToolEnds
  <2>4. QED
    BY <1>15, <2>3 DEF ToolEnds, StandaloneTypeOK, ServerTypeOK
<1>16. CASE (ToolThrowsOther \/ WriteToNobody \/ Eof) /\ UNCHANGED << arrived, answered >>
  BY <1>16 DEF ToolThrowsOther, WriteToNobody, Eof, StandaloneTypeOK, ServerTypeOK
<1>17. CASE Write /\ UNCHANGED << arrived, answered >>
  <2>1. response \in Replies \cup Prints
    BY DEF StandaloneTypeOK, ServerTypeOK
  <2>2. toClient' \in Seq(Replies \cup Prints) /\ Len(toClient') <= Capacity
    BY <1>1, <1>4, <1>17, <2>1 DEF Write
  <2>3. serving' \in {"getline", "exited"}
    BY <1>17 DEF Write
  <2>4. QED
    BY <1>17, <2>2, <2>3 DEF Write, StandaloneTypeOK, ServerTypeOK
<1>18. QED
  BY <1>5, <1>6, <1>7, <1>9, <1>12, <1>13, <1>14, <1>15, <1>16, <1>17
     DEF StandaloneNext, Client, Serving, Serve, StandaloneTerminated

LEMMA OwedIs ==
  /\ serving = "getline" => Owed = {0}
  /\ serving = "exited" => Owed = {0, 1}
  /\ serving \in {"tool", "write"} => Owed = {1}
BY DEF Owed

\* What leaves the responses and the histories alone.
LEMMA NothingTold ==
  ASSUME AloneInv, StandaloneTypeOK', UNCHANGED << toClient, answered, received >>,
         \/ UNCHANGED << serving, request, response >>
         \/ serving' = "exited"
         \/ serving = "tool" /\ serving' = "write"
            /\ response' = Response(request.id, response'.body) /\ response' \in Replies
  PROVE  AloneInv'
<1>1. Responses' = Responses /\ \A i : UpTo(i)' = UpTo(i)
  BY DEF Responses, UpTo
<1>2. Owed \subseteq Owed'
  BY DEF Owed, AloneInv, StandaloneTypeOK, ServerTypeOK
<1>3. AnsweredOnceInOrder'
  BY <1>1, <1>2 DEF AloneInv, AnsweredOnceInOrder
<1>4. Handling'
  BY DEF AloneInv, Handling, Response
<1>5. QED
  BY <1>3, <1>4 DEF AloneInv

\* A request is read: it is the one that is unanswered.
LEMMA RequestTaken ==
  ASSUME AloneInv, StandaloneTypeOK', serving = "getline", serving' \in {"tool", "write"},
         UNCHANGED << toClient, answered >>, NEW id \in Ids, received' = Append(received, id),
         serving' = "tool" => request' \in Requests /\ request'.id = id,
         serving' = "write" => response' \in Replies /\ response'.id = id
  PROVE  AloneInv'
<1> DEFINE n == Len(answered)
           owed == Len(received) - n - Cardinality(Responses)
<1>1. /\ received \in Seq(Ids) /\ Len(received) \in Nat /\ n \in Nat
      /\ Cardinality(Responses) \in Nat
      /\ Len(toClient) \in Nat /\ Responses \subseteq 1..Len(toClient)
      /\ \A i : /\ IsFiniteSet(UpTo(i)) /\ Cardinality(UpTo(i)) \in Nat
                /\ Cardinality(UpTo(i)) <= Cardinality(Responses)
  BY AloneTyped DEF AloneInv
<1>2. /\ Len(received') = Len(received) + 1 /\ received'[Len(received) + 1] = id
      /\ \A k \in 1..Len(received) : received'[k] = received[k]
  BY <1>1, AppendIs
<1>3. Responses' = Responses /\ \A i : UpTo(i)' = UpTo(i)
  BY DEF Responses, UpTo
<1>4. Len(received) = n + Cardinality(Responses)
  <2>1. Len(received) - n - Cardinality(Responses) \in {0}
    BY OwedIs DEF AloneInv, AnsweredOnceInOrder
  <2>2. QED
    BY <1>1, <2>1
<1>5. \A k \in 1..n : answered'[k] = received'[k]
  BY <1>1, <1>2, <1>4 DEF AloneInv, AnsweredOnceInOrder
<1>6. ASSUME NEW i \in Responses
      PROVE  toClient'[i].id = received'[n + Cardinality(UpTo(i))]
  <2>1. i \in UpTo(i) /\ IsFiniteSet(UpTo(i))
    <3>1. i \in Int /\ i <= i
      BY <1>1, <1>6
    <3>2. QED
      BY <1>1, <1>6, <3>1 DEF UpTo
  <2>2. Cardinality(UpTo(i)) # 0
    BY <2>1, FS_EmptySet
  <2>3. n + Cardinality(UpTo(i)) \in 1..Len(received)
    BY <1>1, <1>4, <2>2
  <2>4. toClient[i].id = received[n + Cardinality(UpTo(i))]
    BY <1>6 DEF AloneInv, AnsweredOnceInOrder
  <2>5. QED
    BY <1>2, <2>3, <2>4
<1>7. Len(received') - n - Cardinality(Responses) = 1 /\ Owed' = {1}
  <2>1. Owed' = {1}
    BY DEF Owed
  <2>2. QED
    BY <1>1, <1>2, <1>4, <2>1
<1>8. AnsweredOnceInOrder'
  BY <1>3, <1>5, <1>6, <1>7 DEF AnsweredOnceInOrder
<1>9. Handling'
  BY <1>1, <1>2 DEF Handling
<1>10. QED
  BY <1>8, <1>9 DEF AloneInv

\* A line that is printed is no response.
LEMMA NoiseTold ==
  ASSUME AloneInv, StandaloneTypeOK', NEW noise \in Prints, toClient' = Append(toClient, noise),
         UNCHANGED << answered, received, serving, request, response >>
  PROVE  AloneInv'
<1>1. toClient \in Seq(Replies \cup Prints) /\ Len(toClient) \in Nat
  BY AloneTyped DEF AloneInv
<1>2. /\ Len(toClient') = Len(toClient) + 1 /\ toClient'[Len(toClient) + 1] = noise
      /\ \A i \in 1..Len(toClient) : toClient'[i] = toClient[i]
  BY <1>1, AppendIs
<1>3. noise.kind # "response"
  BY DEF Prints, Noise
<1>4. 1..Len(toClient') = 1..Len(toClient) \cup {Len(toClient) + 1}
  BY <1>1, <1>2
<1>5. Responses' = Responses
  BY <1>2, <1>3, <1>4 DEF Responses
<1>6. \A i : UpTo(i)' = UpTo(i)
  BY <1>5 DEF UpTo
<1>7. \A i \in Responses : toClient'[i] = toClient[i]
  BY <1>2 DEF Responses
<1>8. Owed' = Owed
  BY DEF Owed
<1>9. QED
  BY <1>5, <1>6, <1>7, <1>8 DEF AloneInv, Handling, AnsweredOnceInOrder

\* The response that is written is that of the request that was unanswered.
LEMMA ResponseTold ==
  ASSUME AloneInv, StandaloneTypeOK', serving = "write", serving' = "getline",
         toClient' = Append(toClient, response), UNCHANGED << answered, received >>
  PROVE  AloneInv'
<1> DEFINE n == Len(answered)
           e == Len(toClient) + 1
<1>1. /\ toClient \in Seq(Replies \cup Prints) /\ Len(toClient) \in Nat
      /\ Len(received) \in Nat /\ n \in Nat /\ e \in Nat
      /\ IsFiniteSet(Responses) /\ Cardinality(Responses) \in Nat
      /\ Responses \subseteq 1..Len(toClient)
  BY AloneTyped DEF AloneInv
<1>2. response \in Replies /\ response.id = received[Len(received)] /\ response.kind = "response"
  BY CarryIds, ResponseIs DEF AloneInv, Handling
<1>3. /\ Len(toClient') = e /\ toClient'[e] = response
      /\ \A i \in 1..Len(toClient) : toClient'[i] = toClient[i]
      /\ 1..Len(toClient') = 1..Len(toClient) \cup {e} /\ e \notin 1..Len(toClient)
  BY <1>1, <1>2, AppendIs
<1> HIDE DEF e
<1>4. Responses' = Responses \cup {e} /\ e \notin Responses
  BY <1>1, <1>2, <1>3 DEF Responses
<1>5. Cardinality(Responses') = Cardinality(Responses) + 1
  BY <1>1, <1>4, FS_AddElement
<1>6. Len(received) = n + Cardinality(Responses) + 1
  <2>1. Len(received) - n - Cardinality(Responses) \in {1}
    BY OwedIs DEF AloneInv, AnsweredOnceInOrder
  <2>2. QED
    BY <1>1, <2>1
<1>7. ASSUME NEW i \in Responses'
      PROVE  toClient'[i].id = received[n + Cardinality(UpTo(i)')]
  <2>1. CASE i = e
    <3>1. \A j \in Responses' : j <= e
      BY <1>1, <1>4 DEF e
    <3>2. UpTo(i)' = Responses'
      BY <2>1, <3>1 DEF UpTo
    <3>3. QED
      BY <1>1, <1>2, <1>3, <1>5, <1>6, <2>1, <3>2
  <2>2. CASE i \in Responses
    <3>1. UpTo(i)' = UpTo(i)
      BY <1>1, <1>4, <2>2 DEF UpTo, e
    <3>2. toClient'[i] = toClient[i]
      BY <1>1, <1>3, <2>2
    <3>3. toClient[i].id = received[n + Cardinality(UpTo(i))]
      BY <2>2 DEF AloneInv, AnsweredOnceInOrder
    <3>4. QED
      BY <3>1, <3>2, <3>3
  <2>3. QED
    BY <1>4, <1>7, <2>1, <2>2
<1>8. Len(received) - n - Cardinality(Responses') = 0 /\ Owed' = {0}
  BY <1>1, <1>5, <1>6 DEF Owed
<1>9. AnsweredOnceInOrder'
  BY <1>7, <1>8 DEF AloneInv, AnsweredOnceInOrder
<1>10. QED
  BY <1>9 DEF AloneInv, Handling

\* What the client reads, if it is a response, answers the next request.
LEMMA LineRead ==
  ASSUME AloneInv, StandaloneTypeOK', ClientReads
  PROVE  AloneInv'
<1> DEFINE n == Len(answered)
           R == Responses
<1>1. /\ toClient \in Seq(Replies \cup Prints) /\ Len(toClient) \in Nat
      /\ answered \in Seq(Ids) /\ n \in Nat /\ Len(received) \in Nat
      /\ IsFiniteSet(R) /\ Cardinality(R) \in Nat /\ R \subseteq 1..Len(toClient)
      /\ \A i : IsFiniteSet(UpTo(i)) /\ UpTo(i) \subseteq R /\ Cardinality(UpTo(i)) \in Nat
  BY AloneTyped DEF AloneInv
<1>2. /\ toClient # << >> /\ toClient' = Tail(toClient)
      /\ answered' = IF Head(toClient).kind = "response"
                     THEN Append(answered, Head(toClient).id) ELSE answered
      /\ UNCHANGED << received, serving, request, response >>
  BY DEF ClientReads, server
<1>3. /\ Len(toClient') = Len(toClient) - 1 /\ Head(toClient) = toClient[1] /\ Len(toClient) \in Nat \ {0}
      /\ Head(toClient) \in Replies \cup Prints
      /\ \A i \in 1..Len(toClient') : i + 1 \in 1..Len(toClient) /\ toClient'[i] = toClient[i + 1]
  BY <1>1, <1>2, TailIs
<1>4. 1 \in R <=> Head(toClient).kind = "response"
  BY <1>3 DEF Responses
<1>5. Responses' = {i - 1 : i \in R \ {1}}
  <2>1. ASSUME NEW i \in Responses' PROVE i + 1 \in R /\ i + 1 # 1 /\ (i + 1) - 1 = i
    BY <1>1, <1>3 DEF Responses
  <2>2. ASSUME NEW i \in R, i # 1 PROVE i - 1 \in Responses'
    <3>1. i - 1 \in 1..Len(toClient') /\ (i - 1) + 1 = i
      BY <1>1, <1>3, <2>2
    <3>2. QED
      BY <1>3, <3>1 DEF Responses
  <2>3. QED
    BY <2>1, <2>2
<1>6. ASSUME NEW i \in Responses'
      PROVE  i + 1 \in R /\ UpTo(i)' = {j - 1 : j \in UpTo(i + 1) \ {1}}
  <2>1. i + 1 \in R /\ i \in Int /\ R \subseteq Int
    BY <1>1, <1>3, <1>6 DEF Responses
  <2>2. UpTo(i)' = {j \in Responses' : j <= i}
    BY DEF UpTo
  <2>3. \A j \in R : j - 1 <= i <=> j <= i + 1
    BY <2>1
  <2>4. QED
    BY <1>5, <2>1, <2>2, <2>3 DEF UpTo
<1> DEFINE one == IF 1 \in R THEN 1 ELSE 0
<1> HIDE DEF R
<1>7. R \subseteq Nat \ {0} /\ Cardinality(Responses') = Cardinality(R) - one
  <2>1. R \subseteq Nat \ {0}
    BY <1>1
  <2>2. Cardinality(Responses') = IF 1 \in R THEN Cardinality(R) - 1 ELSE Cardinality(R)
    BY <1>1, <1>5, <2>1, Shifted
  <2>3. QED
    BY <1>1, <2>1, <2>2
<1>8. ASSUME NEW i \in Responses'
      PROVE  Cardinality(UpTo(i)') = Cardinality(UpTo(i + 1)) - one
  <2>1. 1 \in UpTo(i + 1) <=> 1 \in R
    <3>1. \A j \in R : 1 <= j
      BY <1>7
    <3>2. i + 1 \in R
      BY <1>6, <1>8
    <3>3. QED
      BY <3>1, <3>2 DEF UpTo, R
  <2>2. IsFiniteSet(UpTo(i + 1)) /\ UpTo(i + 1) \subseteq Nat \ {0}
    BY <1>1, <1>7
  <2>3. UpTo(i)' = {j - 1 : j \in UpTo(i + 1) \ {1}}
    BY <1>6, <1>8
  <2>4. Cardinality(UpTo(i)')
          = IF 1 \in UpTo(i + 1) THEN Cardinality(UpTo(i + 1)) - 1 ELSE Cardinality(UpTo(i + 1))
    BY <2>2, <2>3, Shifted
  <2>5. QED
    BY <1>1, <2>1, <2>4
<1>9. Len(answered') = n + one /\ \A k \in 1..n : answered'[k] = answered[k]
  <2>1. CASE 1 \in R
    <3>1. Head(toClient).id \in Ids /\ answered' = Append(answered, Head(toClient).id)
      BY <1>2, <1>3, <1>4, <2>1, CarryIds, ResponseIs
    <3>2. QED
      BY <1>1, <2>1, <3>1, AppendIs
  <2>2. CASE 1 \notin R
    BY <1>1, <1>2, <1>4, <2>2
  <2>3. QED
    BY <2>1, <2>2
<1>10. 1 \in R => answered'[n + 1] = received[n + 1]
  <2> SUFFICES ASSUME 1 \in R PROVE answered'[n + 1] = received[n + 1]
    OBVIOUS
  <2>1. answered'[n + 1] = toClient[1].id
    <3>1. Head(toClient).id \in Ids /\ answered' = Append(answered, Head(toClient).id)
      BY <1>2, <1>3, <1>4, CarryIds, ResponseIs
    <3>2. QED
      BY <1>1, <1>3, <3>1, AppendIs
  <2>2. UpTo(1) = {1}
    <3>1. \A j \in R : j <= 1 <=> j = 1
      BY <1>7
    <3>2. QED
      BY <3>1 DEF UpTo, R
  <2>3. Cardinality(UpTo(1)) = 1
    BY <2>2, FS_Singleton
  <2>4. toClient[1].id = received[n + Cardinality(UpTo(1))]
    BY DEF AloneInv, AnsweredOnceInOrder, R
  <2>5. QED
    BY <2>1, <2>3, <2>4
<1>11. \A k \in 1..Len(answered') : answered'[k] = received'[k]
  <2>1. \A k \in 1..n : answered[k] = received[k]
    BY DEF AloneInv, AnsweredOnceInOrder
  <2>2. \A k \in 1..Len(answered') : k \in 1..n \/ (1 \in R /\ k = n + 1)
    BY <1>1, <1>9
  <2>3. QED
    BY <1>2, <1>9, <1>10, <2>1, <2>2
<1>12. ASSUME NEW i \in Responses'
       PROVE  toClient'[i].id = received'[Len(answered') + Cardinality(UpTo(i)')]
  <2>1. i \in 1..Len(toClient')
    BY <1>12 DEF Responses
  <2>2. toClient'[i] = toClient[i + 1]
    BY <1>3, <2>1
  <2>3. toClient[i + 1].id = received[n + Cardinality(UpTo(i + 1))]
    BY <1>6, <1>12 DEF AloneInv, AnsweredOnceInOrder, R
  <2>4. Len(answered') + Cardinality(UpTo(i)') = n + Cardinality(UpTo(i + 1))
    BY <1>1, <1>8, <1>9, <1>12
  <2>5. QED
    BY <1>2, <2>2, <2>3, <2>4
<1>13. Owed' = Owed
  BY <1>2 DEF Owed
<1>14. Len(received') - Len(answered') - Cardinality(Responses') = Len(received) - n - Cardinality(R)
  BY <1>1, <1>2, <1>7, <1>9
<1>15. AnsweredOnceInOrder'
  BY <1>11, <1>12, <1>13, <1>14 DEF AloneInv, AnsweredOnceInOrder, R
<1>16. QED
  BY <1>2, <1>15 DEF AloneInv, Handling

LEMMA AloneNext ==
  ASSUME AloneInv, [StandaloneNext]_standaloneVars
  PROVE  AloneInv'
<1>1. StandaloneTypeOK'
  BY AloneTypeStep DEF AloneInv
<1>2. CASE \E line \in Lines : Arrive(line)
  BY <1>1, <1>2, NothingTold DEF Arrive, server
<1>3. CASE ClientReads
  BY <1>1, <1>3, LineRead
<1>4. CASE Close \/ UNCHANGED standaloneVars
  BY <1>1, <1>4, NothingTold DEF Close, standaloneVars, server
<1>5. CASE (Ignore \/ Malformed) /\ UNCHANGED << arrived, answered >>
  BY <1>1, <1>5, NothingTold DEF Ignore, Malformed, server
<1>6. ASSUME TakeRequest
      PROVE  /\ serving = "getline" /\ request' \in Requests /\ request'.id \in Ids
             /\ received' = Append(received, request'.id)
  <2>1. toServer # << >> /\ toServer \in Seq(Lines)
    BY <1>6, AloneTyped DEF TakeRequest, AloneInv
  <2>2. /\ serving = "getline" /\ request' \in Lines /\ request'.kind = "request"
        /\ received' = Append(received, request'.id)
    BY <1>6, <2>1, TailIs DEF TakeRequest
  <2>3. QED
    BY <2>2, CarryIds, ResponseIs
<1>7. CASE Answer /\ UNCHANGED << arrived, answered >>
  <2>1. /\ TakeRequest /\ toClient' = toClient
        /\ \E body \in {"result", "error"} : Decide(Response(request'.id, body))
    BY <1>7 DEF Answer
  <2>2. PICK body \in Bodies : Decide(Response(request'.id, body))
    BY <2>1 DEF Bodies
  <2>3. response' \in Replies /\ response'.id = request'.id /\ serving' = "write"
    <3>1. Response(request'.id, body) \in Replies /\ Response(request'.id, body).id = request'.id
      BY <1>6, <2>1, ResponseIs
    <3>2. QED
      BY <2>2, <3>1 DEF Decide
  <2>4. QED
    BY <1>1, <1>6, <1>7, <2>1, <2>3, RequestTaken
<1>8. CASE CallTool /\ UNCHANGED << arrived, answered >>
  <2>1. TakeRequest /\ serving' = "tool" /\ toClient' = toClient
    BY <1>8 DEF CallTool
  <2>2. QED
    BY <1>1, <1>6, <1>8, <2>1, RequestTaken
<1>9. ASSUME NEW noise \in Prints, ToolPrints(noise), UNCHANGED << arrived, answered >>
      PROVE  AloneInv'
  BY <1>1, <1>9, NoiseTold DEF ToolPrints
<1>10. ASSUME NEW ending \in DOMAIN BodyOf, ToolEnds(ending), UNCHANGED << arrived, answered >>
       PROVE  AloneInv'
  <2>1. /\ serving = "tool" /\ serving' = "write" /\ response' = Response(request.id, BodyOf[ending])
        /\ UNCHANGED << toClient, answered, received >>
    BY <1>10 DEF ToolEnds, Decide
  <2>2. request.id \in Ids /\ BodyOf[ending] \in Bodies
    BY <2>1, CarryIds, ResponseIs DEF AloneInv, Handling, BodyOf, Bodies
  <2>3. response' \in Replies
    BY <2>1, <2>2, CarryIds, ResponseIs
  <2>4. response'.body = BodyOf[ending]
    BY <2>1 DEF Response
  <2>5. QED
    BY <1>1, <2>1, <2>3, <2>4, NothingTold
<1>11. CASE (ToolThrowsOther \/ WriteToNobody \/ Eof) /\ UNCHANGED << arrived, answered >>
  BY <1>1, <1>11, NothingTold DEF ToolThrowsOther, WriteToNobody, Eof
<1>12. CASE Write /\ UNCHANGED << arrived, answered >>
  <2>1. /\ serving = "write" /\ UNCHANGED << answered, received >>
        /\ \/ serving' = "exited" /\ toClient' = toClient
           \/ serving' = "getline" /\ toClient' = Append(toClient, response)
    BY <1>12 DEF Write
  <2>2. QED
    BY <1>1, <2>1, NothingTold, ResponseTold
<1>13. QED
  BY <1>2, <1>3, <1>4, <1>5, <1>7, <1>8, <1>9, <1>10, <1>11, <1>12
     DEF StandaloneNext, Client, Serving, Serve, StandaloneTerminated

LEMMA AloneInit ==
  ASSUME StandaloneInit
  PROVE  AloneInv
<1>1. /\ toServer = << >> /\ toClient = << >> /\ closed = FALSE /\ serving = "getline"
      /\ request = Line("empty") /\ response = Noise("text") /\ printed = 0
      /\ received = << >> /\ handled = << >> /\ arrived = 0 /\ answered = << >>
  BY DEF StandaloneInit, ServerInit
<1>2. /\ << >> \in Seq(Lines) /\ << >> \in Seq(Replies \cup Prints)
      /\ << >> \in Seq(Ids) /\ << >> \in Seq(Replies) /\ Len(<< >>) = 0
  BY EmptySeq
<1>3. request \in Lines /\ response \in Replies \cup Prints /\ closed \in BOOLEAN
  <2>1. Line("empty") \in Lines /\ Noise("text") \in Prints
    BY DEF Lines, Prints
  <2>2. QED
    BY <1>1, <2>1
<1>4. StandaloneTypeOK
  <2>1. Capacity \in Nat /\ printed \in 0..MaxPrints /\ arrived \in 0..MaxLines
    BY <1>1
  <2>2. QED
    BY <1>1, <1>2, <1>3, <2>1 DEF StandaloneTypeOK, ServerTypeOK
<1>5. Responses = {}
  BY <1>1, <1>2 DEF Responses
<1>6. Cardinality(Responses) = 0
  BY <1>5, FS_EmptySet
<1>7. AnsweredOnceInOrder
  BY <1>1, <1>2, <1>5, <1>6, OwedIs DEF AnsweredOnceInOrder
<1>8. QED
  BY <1>1, <1>4, <1>7 DEF AloneInv, Handling

LEMMA AloneAlways ==
  StandaloneSpec => []AloneInv
<1>1. StandaloneInit => AloneInv
  BY AloneInit
<1>2. AloneInv /\ [StandaloneNext]_standaloneVars => AloneInv'
  BY AloneNext
<1>3. QED
  BY <1>1, <1>2, PTL DEF StandaloneSpec

\* Whatever a client sends, every variable of the server keeps its type.
THEOREM AloneTypeCorrect ==
  StandaloneSpec => []StandaloneTypeOK
<1>1. AloneInv => StandaloneTypeOK
  BY DEF AloneInv
<1>2. QED
  BY <1>1, AloneAlways, PTL

\* AnsweredOnceInOrder, for clients that send any lines with any ids, however the
\* tools end, and pipes of any capacity (mcp_server.cpp:12-66).
THEOREM RequestsAnswered ==
  StandaloneSpec => []AnsweredOnceInOrder
<1>1. AloneInv => AnsweredOnceInOrder
  BY DEF AloneInv
<1>2. QED
  BY <1>1, AloneAlways, PTL
=============================================================================
