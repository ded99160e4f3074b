-------------------------- MODULE McpTransportProofs --------------------------
(***************************************************************************)
(* The two transports of the MCP client.                                   *)
(*                                                                         *)
(* Over HTTP, for any calls, strangers and failures: a status tells what   *)
(* was done, and the calls are carried out as RemoteCalls promises.  The   *)
(* invariant follows a connection from the backlog to the end of its       *)
(* round: until its turn has come nothing was done for it, and from then   *)
(* on what the server is about to send, or has sent, says what was done.   *)
(*                                                                         *)
(* Over pipes, for any number of transports, used by any threads, a        *)
(* well-behaved child is killed only if the child of a transport           *)
(* constructed during its life, and not yet destroyed, holds its pipes.    *)
(* The invariant follows a pipe end from the constructor, through each     *)
(* fork that copies it, to the processes that may still hold it.           *)
(***************************************************************************)
EXTENDS McpHttpSession, StdioTransport, FiniteSetTheorems, SequenceTheorems, TLAPS

USE HttpAssumption, SessionAssumption DEF HttpAssumption, SessionAssumption

\* run() is busy with a connection, and early in the round nothing is decided.
Early == {"recv", "handle", "tool"}
Late  == {"send", "sending"}
Busy  == Early \cup Late \cup {"close"}

\* A connection is served by itself, and is in the backlog once.
Queue ==
  /\ \A i, j \in 1..Len(backlog) : backlog[i] = backlog[j] => i = j
  /\ serving \in Busy => conn[at] = "serving"
  /\ \A p \in Posts : conn[p] = "serving" => serving \in Busy /\ p = at

Done(p) == \E h \in 1..Len(handled) : handled[h].post = p

\* A status, told to p, says what was done.
Tells(p, r) ==
  /\ r.status = 200 => \E h \in 1..Len(handled) : handled[h].post = p /\ handled[h].body = r.body
  /\ r.status \notin {0, 200} => ~Done(p)

\* Whose turn it has not been, nothing was done for.
Undecided(p) == conn[p] \in {"none", "queued"} \/ (p = at /\ serving \in Early)

Told ==
  /\ \A p \in Posts :
       /\ Undecided(p) => ~Done(p) /\ answer[p] = NoResponse
       /\ p = at /\ serving \in Late => answer[p] = NoResponse /\ Tells(p, response)
       /\ Tells(p, answer[p])
       /\ Done(p) => Refusal(message[p]) = 0
  /\ serving = "handle" => message[at].body # "unreadable"
  /\ serving = "tool" => Refusal(message[at]) = 0

Once == \A h, i \in 1..Len(handled) : handled[h].post = handled[i].post => h = i

\* The requests of the session that have not been posted.
Unposted == IF client = "sending" THEN next_id - 1 ELSE next_id

\* Its requests are queued, served and carried out in the order of its calls.
InOrder ==
  /\ \A p \in Posts : p.as = "request" /\ conn[p] # "none" => p.n < Unposted
  /\ \A i, j \in 1..Len(backlog) :
       backlog[i].as = "request" /\ backlog[j].as = "request" /\ i < j => backlog[i].n < backlog[j].n
  /\ \A i \in 1..Len(backlog) :
       backlog[i].as = "request" =>
         /\ at.as = "request" /\ serving \in Early => at.n < backlog[i].n
         /\ \A h \in 1..Len(handled) :
              handled[h].post.as = "request" => handled[h].post.n < backlog[i].n
  /\ at.as = "request" /\ serving \in Early =>
       \A h \in 1..Len(handled) : handled[h].post.as = "request" => handled[h].post.n < at.n

Succeeded(c) ==
  \E h \in 1..Len(handled) : handled[h].post = Post("request", c) /\ handled[h].body = "result"

\* Calls are made one by one, each when the one before has ended.
OneByOne ==
  /\ client # "idle" => Current \in Calls /\ outcome[Current] = Pending
  /\ client = "notification" => Succeeded(Current)
  /\ \A c \in Calls :
       /\ c >= next_id => outcome[c] = NotMade
       /\ c < next_id - 1 => outcome[c] \notin {NotMade, Pending}
       /\ c = next_id - 1 /\ client = "idle" => outcome[c] \notin {NotMade, Pending}

SessionInv == TypeOK /\ Queue /\ Told /\ Once /\ InOrder /\ OneByOne

-----------------------------------------------------------------------------
(* Connections, and what is known of them.                                 *)

LEMMA PostIs ==
  /\ \A as, bs, m, n : Post(as, m) = Post(bs, n) <=> as = bs /\ m = n
  /\ \A c \in Calls : /\ Post("request", c) \in Posts /\ Post("notification", c) \in Posts
                      /\ Post("request", c).as = "request" /\ Post("request", c).n = c
                      /\ Post("notification", c).as # "request"
  /\ \A s \in Strangers : Post("stranger", s) \in Posts /\ Post("stranger", s).as # "request"
  /\ \A p \in Posts : p.as = "request" => p.n \in Calls /\ p.n \in Nat /\ p = Post("request", p.n)
<1>1. \A as, bs, m, n : Post(as, m) = Post(bs, n) <=> as = bs /\ m = n
  BY DEF Post
<1>2. \A as, n : Post(as, n).as = as /\ Post(as, n).n = n
  BY DEF Post
<1>3. /\ \A c \in Calls : Post("request", c) \in Posts /\ Post("notification", c) \in Posts
      /\ \A s \in Strangers : Post("stranger", s) \in Posts
  BY DEF SessionPosts
<1>4. ASSUME NEW p \in Posts, p.as = "request"
      PROVE  p.n \in Calls /\ p.n \in Nat /\ p = Post("request", p.n)
  <2>1. \/ \E as \in {"request", "notification"}, c \in Calls : p = Post(as, c)
        \/ \E s \in Strangers : p = Post("stranger", s)
    BY DEF SessionPosts
  <2>2. PICK c \in Calls : p = Post("request", c)
    BY <1>2, <1>4, <2>1
  <2>3. QED
    BY <1>2, <2>2
<1>5. QED
  BY <1>1, <1>2, <1>3, <1>4

LEMMA SeqOf ==
  ASSUME NEW S, NEW T, NEW s \in Seq(S), \A i \in 1..Len(s) : s[i] \in T
  PROVE  s \in Seq(T)
OBVIOUS

LEMMA MemberOf ==
  ASSUME NEW T, NEW s \in Seq(T), NEW i \in 1..Len(s)
  PROVE  s[i] \in T
OBVIOUS

LEMMA AppendIs ==
  ASSUME NEW T, NEW s \in Seq(T), NEW e \in T
  PROVE  /\ Append(s, e) \in Seq(T) /\ Len(s) \in Nat /\ Len(Append(s, e)) = Len(s) + 1
         /\ \A i \in 1..Len(s) : Append(s, e)[i] = s[i]
         /\ Append(s, e)[Len(s) + 1] = e
OBVIOUS

LEMMA TailIs ==
  ASSUME NEW T, NEW s \in Seq(T), s # << >>
  PROVE  /\ Tail(s) \in Seq(T) /\ Len(s) \in Nat \ {0} /\ Len(Tail(s)) = Len(s) - 1
         /\ Head(s) = s[1] /\ Head(s) \in T
         /\ \A i \in 1..Len(Tail(s)) : i + 1 \in 1..Len(s) /\ Tail(s)[i] = s[i + 1]
OBVIOUS

LEMMA SessionTyped ==
  ASSUME TypeOK
  PROVE  /\ backlog \in Seq(Posts) /\ Len(backlog) \in Nat
         /\ \A i \in 1..Len(backlog) : backlog[i] \in Posts /\ conn[backlog[i]] = "queued"
         /\ handled \in Seq([post : Posts, body : Results]) /\ Len(handled) \in Nat
         /\ \A h \in 1..Len(handled) : handled[h].post \in Posts /\ handled[h].body \in Results
         /\ at \in Posts /\ next_id \in Nat \ {0}
<1> DEFINE queued == {p \in Posts : conn[p] = "queued"}
<1>1. backlog \in Seq(queued) /\ handled \in Seq([post : Posts, body : Results])
  BY DEF TypeOK, HttpTypeOK
<1>2. \A i \in 1..Len(backlog) : backlog[i] \in queued
  BY <1>1
<1>3. backlog \in Seq(Posts)
  BY <1>1, <1>2, SeqOf
<1>4. \A h \in 1..Len(handled) : handled[h] \in [post : Posts, body : Results]
  BY <1>1, MemberOf
<1>5. QED
  BY <1>1, <1>2, <1>3, <1>4 DEF TypeOK, HttpTypeOK

LEMMA RefusalIs ==
  ASSUME NEW m \in Messages
  PROVE  Refusal(m) \in {0, 400, 403, 404, 405}
BY DEF Refusal, Messages

-----------------------------------------------------------------------------
(* The server's steps.                                                     *)

\* What leaves the connections to be served, the round and the calls alone.
LEMMA QuietStep ==
  ASSUME SessionInv,
         UNCHANGED << backlog, conn, message, answer, at, response, handled,
                      next_id, client, doing, outcome >>,
         \/ serving' = serving
         \/ serving \notin Busy /\ serving' \in {"loop", "poll", "done"},
         got' \in [Posts -> {"part", "whole"}], hung' \in [Posts -> BOOLEAN],
         stop' \in BOOLEAN, destructor' \in {"none", "joining", "returned"}
  PROVE  SessionInv'
<1>1. TypeOK'
  BY DEF SessionInv, TypeOK, HttpTypeOK
<1>2. /\ serving' \in Busy <=> serving \in Busy
      /\ serving' \in Busy => serving' = serving
  BY DEF Busy, Early, Late
<1>3. /\ serving' \in Early <=> serving \in Early
      /\ serving' \in Late <=> serving \in Late
      /\ serving' = "tool" <=> serving = "tool"
      /\ serving' = "handle" <=> serving = "handle"
  BY <1>2 DEF Busy, Early, Late
<1>4. Queue' /\ Once'
  BY <1>2 DEF SessionInv, Queue, Once
<1>5. Told'
  BY <1>3 DEF SessionInv, Told, Undecided, Done, Tells
<1>6. InOrder'
  BY <1>3 DEF SessionInv, InOrder, Unposted
<1>7. OneByOne'
  BY DEF SessionInv, OneByOne, Succeeded, Current
<1>8. QED
  BY <1>1, <1>4, <1>5, <1>6, <1>7 DEF SessionInv

\* The round goes on: nothing is done in this step, and what is about to be sent
\* says what was done.
LEMMA RoundStep ==
  ASSUME SessionInv,
         UNCHANGED << sockets, answer, at, stop, destructor, handled, next_id, client, doing, outcome >>,
         serving \in Busy, serving' \in Busy,
         serving' \in Early => serving \in Early,
         serving' = "handle" => message[at].body # "unreadable",
         serving' = "tool" => Refusal(message[at]) = 0,
         response' \in ResponseType,
         serving' \in Late => \/ serving \in Late /\ response' = response
                              \/ serving \in Early /\ Tells(at, response')
  PROVE  SessionInv'
<1>1. TypeOK'
  <2>1. serving' \in {"recv", "handle", "tool", "send", "sending", "close"}
    BY DEF Busy, Early, Late
  <2>2. QED
    BY <2>1 DEF SessionInv, TypeOK, HttpTypeOK, sockets
<1>2. Queue' /\ Once'
  BY DEF SessionInv, Queue, Once, sockets
<1>3. Told'
  <2> SUFFICES ASSUME NEW p \in Posts
               PROVE  /\ Undecided(p)' => ~Done(p)' /\ answer'[p] = NoResponse
                      /\ p = at' /\ serving' \in Late => answer'[p] = NoResponse /\ Tells(p, response)'
                      /\ Tells(p, answer[p])'
                      /\ Done(p)' => Refusal(message'[p]) = 0
    BY DEF Told, sockets
  <2>1. Done(p)' <=> Done(p)
    BY DEF Done
  <2>2. \A r : Tells(p, r)' <=> Tells(p, r)
    BY <2>1 DEF Tells
  <2>3. Undecided(p)' => Undecided(p)
    BY DEF Undecided, sockets
  <2>4. p = at' /\ serving' \in Late => answer'[p] = NoResponse /\ Tells(p, response)'
    <3> SUFFICES ASSUME p = at, serving' \in Late
                 PROVE  answer[p] = NoResponse /\ Tells(p, response)'
      OBVIOUS
    <3>1. CASE serving \in Late /\ response' = response
      BY <2>1, <3>1 DEF SessionInv, Told, Tells
    <3>2. CASE serving \in Early /\ Tells(at, response')
      BY <2>1, <3>2 DEF SessionInv, Told, Tells, Undecided
    <3>3. QED
      BY <3>1, <3>2
  <2>5. Tells(p, answer[p])'
    BY <2>1 DEF SessionInv, Told, Tells
  <2>6. QED
    BY <2>1, <2>3, <2>4, <2>5 DEF SessionInv, Told, sockets
<1>4. InOrder'
  BY DEF SessionInv, InOrder, Unposted, sockets
<1>5. OneByOne'
  BY DEF SessionInv, OneByOne, Succeeded, Current
<1>6. QED
  BY <1>1, <1>2, <1>3, <1>4, <1>5 DEF SessionInv

\* A round begins with the connection that has waited longest.
LEMMA AcceptStep ==
  ASSUME SessionInv, Accept, UNCHANGED << next_id, client, doing, outcome >>
  PROVE  SessionInv'
<1>1. /\ serving = "poll" /\ backlog # << >> /\ at' = Head(backlog) /\ backlog' = Tail(backlog)
      /\ conn' = [conn EXCEPT ![Head(backlog)] = "serving"] /\ serving' = "recv"
      /\ UNCHANGED << message, got, hung, answer, response, stop, destructor, handled >>
  BY DEF Accept, Goto
<1>2. /\ backlog \in Seq(Posts)
      /\ \A i \in 1..Len(backlog) : backlog[i] \in Posts /\ conn[backlog[i]] = "queued"
  BY SessionTyped DEF SessionInv
<1>3. /\ Len(backlog) \in Nat \ {0} /\ Len(backlog') = Len(backlog) - 1
      /\ at' = backlog[1] /\ at' \in Posts /\ conn[at'] = "queued" /\ backlog' \in Seq(Posts)
      /\ \A i \in 1..Len(backlog') : i + 1 \in 1..Len(backlog) /\ backlog'[i] = backlog[i + 1]
  BY <1>1, <1>2, TailIs
<1>4. conn \in [Posts -> {"none", "queued", "serving", "closed"}]
  BY DEF SessionInv, TypeOK, HttpTypeOK
<1>5. conn'[at'] = "serving" /\ \A p \in Posts : p # at' => conn'[p] = conn[p]
  BY <1>1, <1>3, <1>4
<1>6. \A i \in 1..Len(backlog') : backlog'[i] # at'
  <2> SUFFICES ASSUME NEW i \in 1..Len(backlog'), backlog'[i] = at'
               PROVE  FALSE
    OBVIOUS
  <2>1. i + 1 \in 1..Len(backlog) /\ backlog[i + 1] = backlog[1] /\ i + 1 # 1 /\ 1 \in 1..Len(backlog)
    BY <1>3
  <2>2. QED
    BY <2>1 DEF SessionInv, Queue
<1>7. TypeOK'
  <2>1. backlog' \in Seq({p \in Posts : conn'[p] = "queued"})
    <3>1. \A i \in 1..Len(backlog') : backlog'[i] \in {p \in Posts : conn'[p] = "queued"}
      BY <1>2, <1>3, <1>5, <1>6
    <3>2. QED
      BY <1>3, <3>1, SeqOf
  <2>2. conn' \in [Posts -> {"none", "queued", "serving", "closed"}]
    BY <1>1, <1>4
  <2>3. QED
    BY <1>1, <1>3, <2>1, <2>2 DEF SessionInv, TypeOK, HttpTypeOK
<1>8. serving \notin Busy /\ serving' \in Early /\ serving' \in Busy /\ serving' \notin Late /\ serving' \notin {"handle", "tool"}
  BY <1>1 DEF Busy, Early, Late
<1>9. Queue'
  <2>1. \A i, j \in 1..Len(backlog') : backlog'[i] = backlog'[j] => i = j
    <3> SUFFICES ASSUME NEW i \in 1..Len(backlog'), NEW j \in 1..Len(backlog'), backlog'[i] = backlog'[j]
                 PROVE  i = j
      OBVIOUS
    <3>1. i + 1 \in 1..Len(backlog) /\ j + 1 \in 1..Len(backlog) /\ backlog[i + 1] = backlog[j + 1]
      BY <1>3
    <3>2. i + 1 = j + 1
      BY <3>1 DEF SessionInv, Queue
    <3>3. QED
      BY <3>2
  <2>2. \A p \in Posts : conn'[p] = "serving" => p = at'
    BY <1>5, <1>8 DEF SessionInv, Queue
  <2>3. QED
    BY <1>5, <1>8, <2>1, <2>2 DEF Queue
<1>10. Told'
  <2> SUFFICES ASSUME NEW p \in Posts
               PROVE  /\ Undecided(p)' => ~Done(p)' /\ answer'[p] = NoResponse
                      /\ Tells(p, answer[p])'
                      /\ Done(p)' => Refusal(message'[p]) = 0
    BY <1>8 DEF Told
  <2>1. (Done(p)' <=> Done(p)) /\ (Tells(p, answer[p])' <=> Tells(p, answer[p]))
    BY <1>1 DEF Done, Tells
  <2>2. Undecided(p)' => Undecided(p)
    BY <1>3, <1>5 DEF Undecided
  <2>3. QED
    BY <1>1, <2>1, <2>2 DEF SessionInv, Told
<1>11. InOrder'
  <2>1. \A p \in Posts : p.as = "request" /\ conn'[p] # "none" => p.n < Unposted
    BY <1>3, <1>5 DEF SessionInv, InOrder
  <2>2. Unposted' = Unposted
    BY DEF Unposted
  <2>3. 1 \in 1..Len(backlog)
    BY <1>3
  <2>4. ASSUME NEW i \in 1..Len(backlog'), NEW j \in 1..Len(backlog'),
               backlog'[i].as = "request", backlog'[j].as = "request", i < j
        PROVE  backlog'[i].n < backlog'[j].n
    <3>1. i + 1 \in 1..Len(backlog) /\ backlog'[i] = backlog[i + 1]
      BY <1>3
    <3>2. j + 1 \in 1..Len(backlog) /\ backlog'[j] = backlog[j + 1]
      BY <1>3
    <3>3. i + 1 < j + 1
      BY <1>3, <2>4
    <3>4. QED
      BY <2>4, <3>1, <3>2, <3>3 DEF SessionInv, InOrder
  <2>5. ASSUME NEW i \in 1..Len(backlog'), backlog'[i].as = "request"
        PROVE  /\ at'.as = "request" => at'.n < backlog'[i].n
               /\ \A h \in 1..Len(handled) :
                    handled[h].post.as = "request" => handled[h].post.n < backlog'[i].n
    <3>1. i + 1 \in 1..Len(backlog) /\ backlog'[i] = backlog[i + 1] /\ 1 < i + 1
      BY <1>3
    <3>2. QED
      BY <1>3, <2>3, <2>5, <3>1 DEF SessionInv, InOrder
  <2>6. at'.as = "request" =>
          \A h \in 1..Len(handled) : handled[h].post.as = "request" => handled[h].post.n < at'.n
    BY <1>3, <2>3 DEF SessionInv, InOrder
  <2>7. QED
    BY <1>1, <2>1, <2>2, <2>4, <2>5, <2>6 DEF InOrder
<1>12. Once' /\ OneByOne'
  BY <1>1 DEF SessionInv, Once, OneByOne, Succeeded, Current
<1>13. QED
  BY <1>7, <1>9, <1>10, <1>11, <1>12 DEF SessionInv

\* The message of the round is carried out, for the first time.
LEMMA CarriedOutStep ==
  ASSUME SessionInv, NEW body \in Results, CarriedOut(body),
         UNCHANGED << sockets, answer, at, stop, destructor, next_id, client, doing, outcome >>,
         serving \in Early, Refusal(message[at]) = 0,
         \/ serving' = "close" /\ response' = response
         \/ serving' = "send" /\ response' = Response(200, body)
  PROVE  SessionInv'
<1> DEFINE n == Len(handled)
<1>1. /\ handled \in Seq([post : Posts, body : Results]) /\ at \in Posts
      /\ \A h \in 1..n : handled[h].post \in Posts
      /\ \A i \in 1..Len(backlog) : backlog[i] \in Posts
  BY SessionTyped DEF SessionInv
<1>2. /\ n \in Nat /\ Len(handled') = n + 1 /\ handled' \in Seq([post : Posts, body : Results])
      /\ \A h \in 1..n : handled'[h] = handled[h]
      /\ handled'[n + 1].post = at /\ handled'[n + 1].body = body
  <2> DEFINE entry == [post |-> at, body |-> body]
  <2>1. entry \in [post : Posts, body : Results] /\ entry.post = at /\ entry.body = body
    BY <1>1
  <2>2. handled' = Append(handled, entry)
    BY DEF CarriedOut
  <2> HIDE DEF entry
  <2>3. QED
    BY <1>1, <2>1, <2>2, AppendIs
<1> HIDE DEF n
<1>3. 1..Len(handled') = 1..n \cup {n + 1} /\ n + 1 \notin 1..n
  BY <1>2
<1>4. \A h \in 1..n : handled[h].post # at
  BY <1>1 DEF SessionInv, Told, Undecided, Done, n
<1>5. serving' \notin Early /\ serving' \in Busy /\ serving \in Busy /\ serving' \notin {"handle", "tool"}
  BY DEF Early, Late, Busy
<1>6. TypeOK'
  <2>1. response' \in ResponseType
    BY DEF Response, ResponseType, SessionInv, TypeOK, HttpTypeOK
  <2>2. QED
    BY <1>2, <2>1 DEF SessionInv, TypeOK, HttpTypeOK, sockets
<1>7. Queue'
  BY <1>5 DEF SessionInv, Queue, sockets
<1>8. Once'
  <2> SUFFICES ASSUME NEW h \in 1..Len(handled'), NEW i \in 1..Len(handled'),
                      handled'[h].post = handled'[i].post
               PROVE  h = i
    BY DEF Once
  <2>1. (h \in 1..n \/ h = n + 1) /\ (i \in 1..n \/ i = n + 1)
    BY <1>3
  <2>2. CASE h \in 1..n /\ i \in 1..n
    BY <1>2, <2>2 DEF SessionInv, Once, n
  <2>3. CASE h = n + 1 \/ i = n + 1
    BY <1>2, <1>4, <2>1, <2>3
  <2>4. QED
    BY <2>1, <2>2, <2>3
<1>9. Told'
  <2> SUFFICES ASSUME NEW p \in Posts
               PROVE  /\ Undecided(p)' => ~Done(p)' /\ answer'[p] = NoResponse
                      /\ p = at' /\ serving' \in Late => answer'[p] = NoResponse /\ Tells(p, response)'
                      /\ Tells(p, answer[p])'
                      /\ Done(p)' => Refusal(message'[p]) = 0
    BY <1>5 DEF Told
  <2>1. conn[at] = "serving" /\ Undecided(at)
    BY <1>5 DEF SessionInv, Queue, Undecided
  <2>2. answer[at] = NoResponse
    BY <1>1, <2>1 DEF SessionInv, Told
  <2>3. CASE p # at
    <3>1. Done(p)' <=> Done(p)
      BY <1>2, <1>3, <2>3 DEF Done, n
    <3>2. Tells(p, answer[p])'
      <4>1. answer'[p].status = 200 =>
              \E h \in 1..n : handled[h].post = p /\ handled[h].body = answer'[p].body
        BY DEF SessionInv, Told, Tells, n
      <4>2. answer'[p].status \notin {0, 200} => ~Done(p)'
        BY <3>1 DEF SessionInv, Told, Tells
      <4>3. QED
        BY <1>2, <1>3, <4>1, <4>2 DEF Tells
    <3>3. Undecided(p)' => Undecided(p)
      BY <1>5 DEF Undecided, sockets
    <3>4. QED
      BY <2>3, <3>1, <3>2, <3>3 DEF SessionInv, Told, sockets
  <2>4. CASE p = at
    <3>1. ~Undecided(p)'
      BY <1>5, <2>1, <2>4 DEF Undecided, sockets
    <3>2. Tells(p, answer[p])'
      BY <2>2, <2>4 DEF Tells, NoResponse, Response
    <3>3. serving' \in Late => Tells(p, response)'
      <4> SUFFICES ASSUME serving' \in Late PROVE Tells(p, response)'
        OBVIOUS
      <4>1. response'.status = 200 /\ response'.body = body
        BY DEF Late, Response
      <4>2. n + 1 \in 1..Len(handled')
        BY <1>3
      <4>3. QED
        BY <1>2, <2>4, <4>1, <4>2 DEF Tells
    <3>4. QED
      BY <2>2, <2>4, <3>1, <3>2, <3>3 DEF sockets
  <2>5. QED
    BY <2>3, <2>4
<1>10. InOrder'
  <2>1. Unposted' = Unposted
    BY DEF Unposted
  <2>2. ASSUME NEW i \in 1..Len(backlog), backlog[i].as = "request",
               NEW h \in 1..Len(handled'), handled'[h].post.as = "request"
        PROVE  handled'[h].post.n < backlog[i].n
    <3>1. CASE h \in 1..n
      BY <1>2, <2>2, <3>1 DEF SessionInv, InOrder, n
    <3>2. CASE h = n + 1
      BY <1>2, <2>2, <3>2 DEF SessionInv, InOrder
    <3>3. QED
      BY <1>3, <3>1, <3>2
  <2>3. QED
    BY <1>5, <2>1, <2>2 DEF SessionInv, InOrder, sockets
<1>11. OneByOne'
  <2>1. \A c : Succeeded(c) => Succeeded(c)'
    BY <1>2, <1>3 DEF Succeeded, n
  <2>2. QED
    BY <2>1 DEF SessionInv, OneByOne, Current
<1>12. QED
  BY <1>6, <1>7, <1>8, <1>9, <1>10, <1>11 DEF SessionInv

\* What is sent as a whole is the client's answer.
LEMMA AnsweredStep ==
  ASSUME SessionInv, serving \in Late, serving' = "close",
         answer' = [answer EXCEPT ![at] = response],
         UNCHANGED << sockets, at, response, stop, destructor, handled, next_id, client, doing, outcome >>
  PROVE  SessionInv'
<1>1. at \in Posts /\ answer \in [Posts -> ResponseType] /\ response \in ResponseType
  BY DEF SessionInv, TypeOK, HttpTypeOK
<1>2. answer'[at] = response /\ \A p \in Posts : p # at => answer'[p] = answer[p]
  BY <1>1
<1>3. serving \in Busy /\ serving' \in Busy /\ serving' \notin Early /\ serving' \notin Late /\ serving' \notin {"handle", "tool"}
  BY DEF Early, Late, Busy
<1>4. TypeOK'
  BY <1>1 DEF SessionInv, TypeOK, HttpTypeOK, sockets
<1>5. Queue' /\ Once'
  BY <1>3 DEF SessionInv, Queue, Once, sockets
<1>6. Told'
  <2> SUFFICES ASSUME NEW p \in Posts
               PROVE  /\ Undecided(p)' => ~Done(p)' /\ answer'[p] = NoResponse
                      /\ Tells(p, answer[p])'
                      /\ Done(p)' => Refusal(message'[p]) = 0
    BY <1>3 DEF Told
  <2>1. (Done(p)' <=> Done(p)) /\ \A r : Tells(p, r)' <=> Tells(p, r)
    BY DEF Done, Tells
  <2>2. Undecided(p)' => Undecided(p) /\ p # at
    BY <1>3 DEF SessionInv, Queue, Undecided, sockets
  <2>3. Tells(p, answer[p])'
    <3>1. CASE p = at
      <4>1. Tells(p, response)
        BY <1>1, <3>1 DEF SessionInv, Told
      <4>2. QED
        BY <1>2, <3>1, <4>1 DEF Tells, Done
    <3>2. CASE p # at
      <4>1. Tells(p, answer[p])
        BY DEF SessionInv, Told
      <4>2. QED
        BY <1>2, <3>2, <4>1 DEF Tells, Done
    <3>3. QED
      BY <3>1, <3>2
  <2>4. QED
    BY <1>2, <2>1, <2>2, <2>3 DEF SessionInv, Told, sockets
<1>7. InOrder'
  BY <1>3 DEF SessionInv, InOrder, Unposted, sockets
<1>8. OneByOne'
  BY DEF SessionInv, OneByOne, Succeeded, Current
<1>9. QED
  BY <1>4, <1>5, <1>6, <1>7, <1>8 DEF SessionInv

\* Connections are closed, that of the round and all or none of those in the backlog.
LEMMA ClosedStep ==
  ASSUME SessionInv, conn' \in [Posts -> {"none", "queued", "serving", "closed"}],
         \A p \in Posts : conn'[p] # conn[p] => conn[p] # "none" /\ conn'[p] = "closed",
         \/ backlog' = << >>
         \/ backlog' = backlog /\ \A p \in Posts : conn[p] = "queued" => conn'[p] = "queued",
         serving \in Busy => conn'[at] = "closed",
         serving' \in {"loop", "done", "aborted"},
         response' \in ResponseType,
         got' \in [Posts -> {"part", "whole"}], hung' \in [Posts -> BOOLEAN],
         destructor' \in {"none", "joining", "returned"},
         UNCHANGED << message, answer, at, stop, handled, next_id, client, doing, outcome >>
  PROVE  SessionInv'
<1>1. /\ backlog \in Seq(Posts) /\ at \in Posts
      /\ \A i \in 1..Len(backlog) : backlog[i] \in Posts /\ conn[backlog[i]] = "queued"
  BY SessionTyped DEF SessionInv
<1>2. serving' \notin Busy /\ serving' \notin Early /\ serving' \notin Late /\ serving' \notin {"handle", "tool"}
  BY DEF Busy, Early, Late
<1>3. TypeOK'
  <2>1. backlog' \in Seq({p \in Posts : conn'[p] = "queued"})
    <3>1. CASE backlog' = << >>
      BY <3>1
    <3>2. CASE backlog' = backlog /\ \A p \in Posts : conn[p] = "queued" => conn'[p] = "queued"
      BY <1>1, <3>2, SeqOf
    <3>3. QED
      BY <3>1, <3>2
  <2>2. QED
    BY <2>1 DEF SessionInv, TypeOK, HttpTypeOK
<1>4. Queue'
  <2>1. \A p \in Posts : conn'[p] # "serving"
    BY DEF SessionInv, Queue
  <2>2. \A i, j \in 1..Len(backlog') : backlog'[i] = backlog'[j] => i = j
    BY DEF SessionInv, Queue
  <2>3. QED
    BY <1>2, <2>1, <2>2 DEF Queue
<1>5. Told'
  <2> SUFFICES ASSUME NEW p \in Posts
               PROVE  /\ Undecided(p)' => ~Done(p)' /\ answer'[p] = NoResponse
                      /\ Tells(p, answer[p])'
                      /\ Done(p)' => Refusal(message'[p]) = 0
    BY <1>2 DEF Told
  <2>1. (Done(p)' <=> Done(p)) /\ (Tells(p, answer[p])' <=> Tells(p, answer[p]))
    BY DEF Done, Tells
  <2>2. Undecided(p)' => Undecided(p)
    BY <1>2 DEF Undecided
  <2>3. QED
    BY <2>1, <2>2 DEF SessionInv, Told
<1>6. InOrder'
  <2>1. Unposted' = Unposted
    BY DEF Unposted
  <2>2. \A p \in Posts : p.as = "request" /\ conn'[p] # "none" => p.n < Unposted
    BY DEF SessionInv, InOrder
  <2>3. CASE backlog' = << >>
    BY <1>2, <2>1, <2>2, <2>3 DEF InOrder
  <2>4. CASE backlog' = backlog
    BY <1>2, <2>1, <2>2, <2>4 DEF SessionInv, InOrder
  <2>5. QED
    BY <2>3, <2>4
<1>7. Once' /\ OneByOne'
  BY DEF SessionInv, Once, OneByOne, Succeeded, Current
<1>8. QED
  BY <1>3, <1>4, <1>5, <1>6, <1>7 DEF SessionInv

LEMMA AbortStep ==
  ASSUME SessionInv, serving \in Busy, Abort,
         UNCHANGED << message, got, hung, answer, at, response, stop, destructor, handled,
                      next_id, client, doing, outcome >>
  PROVE  SessionInv'
<1>1. /\ conn \in [Posts -> {"none", "queued", "serving", "closed"}] /\ at \in Posts
      /\ response \in ResponseType /\ got \in [Posts -> {"part", "whole"}] /\ hung \in [Posts -> BOOLEAN]
      /\ destructor \in {"none", "joining", "returned"}
  BY DEF SessionInv, TypeOK, HttpTypeOK
<1>2. /\ backlog' = << >> /\ serving' = "aborted"
      /\ conn' = [p \in Posts |-> IF conn[p] = "none" THEN "none" ELSE "closed"]
  BY DEF Abort
<1>3. conn[at] = "serving"
  BY DEF SessionInv, Queue
<1>4. QED
  BY <1>1, <1>2, <1>3, ClosedStep

LEMMA DestroyedStep ==
  ASSUME SessionInv, Destroyed, UNCHANGED << next_id, client, doing, outcome >>
  PROVE  SessionInv'
<1>1. /\ conn \in [Posts -> {"none", "queued", "serving", "closed"}]
      /\ response \in ResponseType /\ got \in [Posts -> {"part", "whole"}] /\ hung \in [Posts -> BOOLEAN]
  BY DEF SessionInv, TypeOK, HttpTypeOK
<1>2. /\ backlog' = << >> /\ serving = "done" /\ serving' = "done" /\ destructor' = "returned"
      /\ conn' = [p \in Posts |-> IF conn[p] = "queued" THEN "closed" ELSE conn[p]]
      /\ UNCHANGED << message, got, hung, answer, at, response, stop, handled >>
  BY DEF Destroyed, thread
<1>3. serving \notin Busy
  BY <1>2 DEF Busy, Early, Late
<1>4. QED
  BY <1>1, <1>2, <1>3, ClosedStep

LEMMA CloseConnectionStep ==
  ASSUME SessionInv, CloseConnection, UNCHANGED << next_id, client, doing, outcome >>
  PROVE  SessionInv'
<1>1. /\ conn \in [Posts -> {"none", "queued", "serving", "closed"}] /\ at \in Posts
      /\ got \in [Posts -> {"part", "whole"}] /\ hung \in [Posts -> BOOLEAN]
      /\ destructor \in {"none", "joining", "returned"}
  BY DEF SessionInv, TypeOK, HttpTypeOK
<1>2. /\ serving = "close" /\ serving' = "loop" /\ conn' = [conn EXCEPT ![at] = "closed"]
      /\ got' = [got EXCEPT ![at] = "part"] /\ hung' = [hung EXCEPT ![at] = FALSE]
      /\ response' = NoResponse
      /\ UNCHANGED << backlog, message, answer, at, stop, destructor, handled >>
  BY DEF CloseConnection, Goto
<1>3. serving \in Busy /\ conn[at] = "serving"
  BY <1>2 DEF Busy, SessionInv, Queue
<1>4. response' \in ResponseType
  BY <1>2 DEF NoResponse, Response, ResponseType, Results
<1>5. /\ conn' \in [Posts -> {"none", "queued", "serving", "closed"}]
      /\ got' \in [Posts -> {"part", "whole"}] /\ hung' \in [Posts -> BOOLEAN]
      /\ conn'[at] = "closed" /\ \A p \in Posts : p # at => conn'[p] = conn[p]
  BY <1>1, <1>2
<1>6. \A p \in Posts : conn'[p] # conn[p] => conn[p] # "none" /\ conn'[p] = "closed"
  BY <1>3, <1>5
<1>7. \A p \in Posts : conn[p] = "queued" => conn'[p] = "queued"
  BY <1>3, <1>5
<1>8. QED
  BY <1>1, <1>2, <1>4, <1>5, <1>6, <1>7, ClosedStep

\* The steps of run().
LEMMA RunStep ==
  ASSUME SessionInv, Run, UNCHANGED << next_id, client, doing, outcome >>
  PROVE  SessionInv'
<1>1. /\ at \in Posts /\ message[at] \in Messages /\ response \in ResponseType
      /\ got \in [Posts -> {"part", "whole"}] /\ hung \in [Posts -> BOOLEAN]
      /\ stop \in BOOLEAN /\ destructor \in {"none", "joining", "returned"}
  BY DEF SessionInv, TypeOK, HttpTypeOK
<1>2. /\ {"recv", "handle", "tool"} \subseteq Early /\ {"send", "sending"} \subseteq Late
      /\ {"recv", "handle", "tool", "send", "sending", "close"} \subseteq Busy
      /\ "close" \notin Early /\ "close" \notin Late /\ "send" \notin Early /\ "sending" \notin Early
      /\ "recv" \notin Late /\ "handle" \notin Late /\ "tool" \notin Late
      /\ "loop" \notin Busy /\ "poll" \notin Busy
  BY DEF Early, Late, Busy
<1>3. CASE CheckStop \/ PollTimesOut
  <2>1. /\ serving \notin Busy /\ serving' \in {"loop", "poll", "done"}
        /\ UNCHANGED << sockets, answer, at, response, stop, destructor, handled >>
    BY <1>2, <1>3 DEF CheckStop, PollTimesOut, Goto
  <2>2. QED
    BY <1>1, <2>1, QuietStep DEF sockets
<1>4. CASE RecvThrows \/ Received
  <2>1. /\ serving = "recv" /\ serving' \in {"close", "handle"} /\ response' = response
        /\ serving' = "handle" => message[at].body # "unreadable"
        /\ UNCHANGED << sockets, answer, at, stop, destructor, handled >>
    BY <1>4 DEF RecvThrows, Received, Goto
  <2>2. QED
    BY <1>1, <1>2, <2>1, RoundStep
<1>5. CASE Refuse
  <2>1. /\ serving = "handle" /\ serving' = "send" /\ Refusal(message[at]) # 0
        /\ response' = Response(Refusal(message[at]), "none")
        /\ UNCHANGED << sockets, answer, at, stop, destructor, handled >>
    BY <1>5 DEF Refuse, Goto
  <2>2. Refusal(message[at]) \in {400, 403, 404, 405}
    BY <1>1, <2>1, RefusalIs
  <2>3. response' \in ResponseType /\ response'.status \in {400, 403, 404, 405}
    BY <2>1, <2>2 DEF Response, ResponseType, Results
  <2>4. ~Done(at)
    BY <1>1, <1>2, <2>1 DEF SessionInv, Told, Undecided
  <2>5. Tells(at, response')
    BY <2>3, <2>4 DEF Tells
  <2>6. QED
    BY <1>2, <2>1, <2>3, <2>5, RoundStep
<1>6. CASE Handle
  <2>1. /\ serving = "handle" /\ Refusal(message[at]) = 0
        /\ UNCHANGED << sockets, answer, at, stop, destructor >>
    BY <1>6 DEF Handle
  <2>2. message[at].body \in {"event", "malformed", "plain", "tool", "unreadable", "garbage"}
    BY <1>1 DEF Messages, Bodies
  <2>3. ~Done(at)
    BY <1>1, <1>2, <2>1 DEF SessionInv, Told, Undecided
  <2>4. CASE message[at].body = "event"
    <3>1. response' = Response(202, "none") /\ serving' = "send" /\ handled' = handled
      BY <1>6, <2>4 DEF Handle, Goto
    <3>2. response' \in ResponseType /\ response'.status = 202
      BY <3>1 DEF Response, ResponseType, Results
    <3>3. Tells(at, response')
      BY <2>3, <3>2 DEF Tells
    <3>4. QED
      BY <1>2, <2>1, <3>1, <3>2, <3>3, RoundStep
  <2>5. CASE message[at].body = "malformed"
    <3>1. serving' = "close" /\ response' = response /\ handled' = handled
      BY <1>6, <2>5 DEF Handle, Goto
    <3>2. QED
      BY <1>1, <1>2, <2>1, <3>1, RoundStep
  <2>6. CASE message[at].body = "plain"
    <3>1. \E body \in {"result", "error"} :
            CarriedOut(body) /\ response' = Response(200, body) /\ serving' = "send"
      BY <1>6, <2>6 DEF Handle, Goto
    <3>2. PICK body \in Results : CarriedOut(body) /\ response' = Response(200, body) /\ serving' = "send"
      BY <3>1 DEF Results
    <3>3. QED
      BY <1>2, <2>1, <3>2, CarriedOutStep
  <2>7. CASE message[at].body = "tool"
    <3>1. serving' = "tool" /\ response' = response /\ handled' = handled
      BY <1>6, <2>7 DEF Handle, Goto
    <3>2. QED
      BY <1>1, <1>2, <2>1, <3>1, RoundStep
  <2>8. CASE message[at].body \in {"unreadable", "garbage"}
    <3>1. Refusal(message[at]) = 0 => message[at].body # "garbage"
      BY <1>1 DEF Refusal, Messages
    <3>2. QED
      BY <2>1, <2>8, <3>1 DEF SessionInv, Told
  <2>9. QED
    BY <2>2, <2>4, <2>5, <2>6, <2>7, <2>8
<1>7. ASSUME NEW body \in {"result", "error", "unprintable"}, ToolEnds(body)
      PROVE  SessionInv'
  <2>1. /\ serving = "tool" /\ CarriedOut(body) /\ body \in Results
        /\ UNCHANGED << sockets, answer, at, stop, destructor >>
        /\ \/ serving' = "close" /\ response' = response
           \/ serving' = "send" /\ response' = Response(200, body)
    BY <1>7 DEF ToolEnds, Goto, Results
  <2>2. Refusal(message[at]) = 0
    BY <2>1 DEF SessionInv, Told
  <2>3. QED
    BY <1>2, <2>1, <2>2, CarriedOutStep
<1>8. CASE ToolThrowsOther
  BY <1>2, <1>8, AbortStep DEF ToolThrowsOther
<1>9. CASE Send
  <2>1. /\ serving = "send" /\ UNCHANGED << sockets, at, response, stop, destructor, handled >>
        /\ \/ answer' = [answer EXCEPT ![at] = response] /\ serving' = "close"
           \/ answer' = answer /\ serving' \in {"sending", "close"}
    BY <1>9 DEF Send, Goto
  <2>2. CASE answer' = [answer EXCEPT ![at] = response] /\ serving' = "close"
    BY <1>2, <2>1, <2>2, AnsweredStep
  <2>3. CASE answer' = answer /\ serving' \in {"sending", "close"}
    BY <1>1, <1>2, <2>1, <2>3, RoundStep
  <2>4. QED
    BY <2>1, <2>2, <2>3
<1>10. CASE SendRest
  BY <1>2, <1>10, AnsweredStep DEF SendRest, Goto
<1>11. CASE SendRestToNobody
  <2>1. /\ serving = "sending"
        /\ UNCHANGED << message, got, hung, answer, at, response, stop, destructor, handled >>
        /\ \/ Abort
           \/ serving' = "close" /\ UNCHANGED << backlog, conn >>
    BY <1>11 DEF SendRestToNobody, Goto
  <2>2. CASE Abort
    BY <1>2, <2>1, <2>2, AbortStep
  <2>3. CASE serving' = "close" /\ UNCHANGED << backlog, conn >>
    BY <1>1, <1>2, <2>1, <2>3, RoundStep DEF sockets
  <2>4. QED
    BY <2>1, <2>2, <2>3
<1>12. QED
  BY <1>3, <1>4, <1>5, <1>6, <1>7, <1>8, <1>9, <1>10, <1>11, AcceptStep, CloseConnectionStep DEF Run

-----------------------------------------------------------------------------
(* The clients' steps.                                                     *)

\* The call in progress, and where its connections are.
LEMMA InCall ==
  ASSUME SessionInv, client # "idle"
  PROVE  /\ Current \in Calls /\ next_id \in Nat /\ outcome[Current] = Pending
         /\ client \in {"request", "notification"} => Mine \in Posts
<1>1. Current \in Calls /\ next_id \in Nat /\ outcome[Current] = Pending
  BY DEF SessionInv, OneByOne, TypeOK
<1>2. QED
  BY <1>1, PostIs DEF Mine

\* A client connects: it waits behind the others.
LEMMA ConnectStep ==
  ASSUME SessionInv, NEW p \in Posts, NEW m \in Messages, Connect(p, m),
         UNCHANGED << answer, thread, stop, destructor, handled, next_id, doing, outcome >>,
         \/ p.as # "request" /\ client' = client
         \/ p.as # "request" /\ client = "request" /\ client' = "notification" /\ Succeeded(Current)
         \/ p = Post("request", Current) /\ client = "sending" /\ client' = "request"
  PROVE  SessionInv'
<1> DEFINE n == Len(backlog)
<1>1. /\ serving # "aborted" /\ conn[p] = "none" /\ backlog' = Append(backlog, p)
      /\ conn' = [conn EXCEPT ![p] = "queued"] /\ message' = [message EXCEPT ![p] = m]
      /\ UNCHANGED << got, hung, answer, serving, at, response, stop, destructor, handled >>
  BY DEF Connect, Listening, thread
<1>2. /\ backlog \in Seq(Posts) /\ at \in Posts /\ next_id \in Nat \ {0}
      /\ \A i \in 1..n : backlog[i] \in Posts /\ conn[backlog[i]] = "queued"
      /\ \A h \in 1..Len(handled) : handled[h].post \in Posts
  BY SessionTyped DEF SessionInv
<1>3. /\ n \in Nat /\ backlog' \in Seq(Posts) /\ Len(backlog') = n + 1
      /\ \A i \in 1..n : backlog'[i] = backlog[i]
      /\ backlog'[n + 1] = p
  BY <1>1, <1>2, AppendIs
<1>4. 1..Len(backlog') = 1..n \cup {n + 1} /\ n + 1 \notin 1..n
  BY <1>3
<1>5. /\ conn \in [Posts -> {"none", "queued", "serving", "closed"}] /\ message \in [Posts -> Messages]
  BY DEF SessionInv, TypeOK, HttpTypeOK
<1>6. /\ conn'[p] = "queued" /\ \A q \in Posts : q # p => conn'[q] = conn[q] /\ message'[q] = message[q]
      /\ conn' \in [Posts -> {"none", "queued", "serving", "closed"}] /\ message' \in [Posts -> Messages]
  BY <1>1, <1>5
<1>7. \A i \in 1..n : backlog[i] # p
  BY <1>1, <1>2
<1> HIDE DEF n
<1>8. TypeOK'
  <2>1. \A i \in 1..Len(backlog') : backlog'[i] \in {q \in Posts : conn'[q] = "queued"}
    BY <1>2, <1>3, <1>4, <1>6, <1>7
  <2>2. backlog' \in Seq({q \in Posts : conn'[q] = "queued"})
    BY <1>3, <2>1, SeqOf
  <2>3. QED
    BY <1>1, <1>6, <2>2 DEF SessionInv, TypeOK, HttpTypeOK
<1>9. ~Done(p) /\ answer[p] = NoResponse
  BY <1>1 DEF SessionInv, Told, Undecided
<1>10. Queue' /\ Once'
  <2>1. \A i, j \in 1..Len(backlog') : backlog'[i] = backlog'[j] => i = j
    <3> SUFFICES ASSUME NEW i \in 1..Len(backlog'), NEW j \in 1..Len(backlog'), backlog'[i] = backlog'[j]
                 PROVE  i = j
      OBVIOUS
    <3>1. (i \in 1..n \/ i = n + 1) /\ (j \in 1..n \/ j = n + 1)
      BY <1>4
    <3>2. CASE i \in 1..n /\ j \in 1..n
      BY <1>3, <3>2 DEF SessionInv, Queue, n
    <3>3. CASE i = n + 1 \/ j = n + 1
      BY <1>3, <1>7, <3>1, <3>3
    <3>4. QED
      BY <3>1, <3>2, <3>3
  <2>2. (serving \in Busy => at # p) /\ \A q \in Posts : conn'[q] = "serving" => conn[q] = "serving"
    BY <1>1, <1>6 DEF SessionInv, Queue
  <2>3. (serving \in Busy => conn'[at] = "serving") /\ \A q \in Posts : conn'[q] = "serving" => serving \in Busy /\ q = at
    BY <1>2, <1>6, <2>2 DEF SessionInv, Queue
  <2>4. QED
    BY <1>1, <2>1, <2>3 DEF SessionInv, Queue, Once
<1>11. Told'
  <2>1. ASSUME NEW q \in Posts
        PROVE  /\ Undecided(q)' => ~Done(q)' /\ answer'[q] = NoResponse
               /\ q = at' /\ serving' \in Late => answer'[q] = NoResponse /\ Tells(q, response)'
               /\ Tells(q, answer[q])'
               /\ Done(q)' => Refusal(message'[q]) = 0
    <3>1. Done(q)' <=> Done(q)
      BY <1>1 DEF Done
    <3>3. Tells(q, answer[q])' <=> Tells(q, answer[q])
      BY <1>1 DEF Done, Tells
    <3>4. Tells(q, response)' <=> Tells(q, response)
      BY <1>1 DEF Done, Tells
    <3>5. CASE q = p
      BY <1>1, <1>9, <3>1, <3>3, <3>4, <3>5 DEF SessionInv, Told
    <3>6. CASE q # p
      <4>1. Undecided(q)' => Undecided(q)
        BY <1>1, <1>6, <3>6 DEF Undecided
      <4>2. QED
        BY <1>1, <1>6, <3>1, <3>3, <3>4, <3>6, <4>1 DEF SessionInv, Told
    <3>7. QED
      BY <3>5, <3>6
  <2>2. serving \in {"handle", "tool"} => at # p
    BY <1>1 DEF SessionInv, Queue, Busy, Early
  <2>3. QED
    BY <1>1, <1>2, <1>6, <2>1, <2>2 DEF SessionInv, Told
<1>12. /\ Unposted' \in {Unposted, Unposted + 1} /\ Unposted \in Nat /\ Unposted' \in Nat
       /\ p.as = "request" => p.n = Unposted /\ Unposted' = Unposted + 1
  BY <1>2, PostIs DEF Unposted, Current
<1>13. \A q \in Posts : q.as = "request" /\ conn[q] # "none" => q.n < Unposted /\ q.n \in Nat
  BY PostIs DEF SessionInv, InOrder
<1>14. InOrder'
  <2>1. ASSUME NEW q \in Posts, q.as = "request", conn'[q] # "none"
        PROVE  q.n < Unposted'
    <3>1. CASE q = p
      BY <1>12, <2>1, <3>1
    <3>2. CASE q # p
      BY <1>6, <1>12, <1>13, <2>1, <3>2
    <3>3. QED
      BY <3>1, <3>2
  <2>2. ASSUME NEW i \in 1..Len(backlog'), NEW j \in 1..Len(backlog'),
               backlog'[i].as = "request", backlog'[j].as = "request", i < j
        PROVE  backlog'[i].n < backlog'[j].n
    <3>1. i \in 1..n /\ (j \in 1..n \/ j = n + 1)
      BY <1>3, <1>4, <2>2
    <3>2. CASE j \in 1..n
      BY <1>3, <2>2, <3>1, <3>2 DEF SessionInv, InOrder, n
    <3>3. CASE j = n + 1
      <4>1. backlog[i].as = "request" /\ backlog[i] \in Posts /\ conn[backlog[i]] # "none"
        BY <1>2, <1>3, <2>2, <3>1
      <4>2. QED
        BY <1>3, <1>12, <1>13, <2>2, <3>1, <3>3, <4>1
    <3>4. QED
      BY <3>1, <3>2, <3>3
  <2>3. ASSUME NEW i \in 1..Len(backlog'), backlog'[i].as = "request"
        PROVE  /\ at.as = "request" /\ serving \in Early => at.n < backlog'[i].n
               /\ \A h \in 1..Len(handled) :
                    handled[h].post.as = "request" => handled[h].post.n < backlog'[i].n
    <3>1. CASE i \in 1..n
      BY <1>3, <2>3, <3>1 DEF SessionInv, InOrder, n
    <3>2. CASE i = n + 1
      <4>1. backlog'[i].n = Unposted
        BY <1>3, <1>12, <2>3, <3>2
      <4>2. serving \in Early => conn[at] # "none"
        BY DEF SessionInv, Queue, Busy
      <4>3. \A h \in 1..Len(handled) : conn[handled[h].post] # "none"
        BY <1>2 DEF SessionInv, Told, Undecided, Done
      <4>4. QED
        BY <1>2, <1>13, <4>1, <4>2, <4>3
    <3>3. QED
      BY <1>4, <3>1, <3>2
  <2>4. QED
    BY <1>1, <2>1, <2>2, <2>3 DEF SessionInv, InOrder
<1>15. OneByOne'
  <2>1. \A c : Succeeded(c)' <=> Succeeded(c)
    BY <1>1 DEF Succeeded
  <2>2. client # "idle" \/ client' = client
    OBVIOUS
  <2>3. QED
    BY <2>1, <2>2 DEF SessionInv, OneByOne, Current
<1>16. QED
  BY <1>8, <1>10, <1>11, <1>14, <1>15 DEF SessionInv

\* A call begins.
LEMMA CallStep ==
  ASSUME SessionInv, NEW what \in {"initialize", "list_tools", "call_tool"}, Call(what)
  PROVE  SessionInv'
<1>1. /\ client = "idle" /\ next_id \in Calls /\ next_id' = next_id + 1 /\ doing' = what
      /\ client' = "sending" /\ outcome' = [outcome EXCEPT ![next_id] = Pending]
      /\ UNCHANGED httpServer
  BY DEF Call
<1>2. next_id \in Nat \ {0}
  BY DEF SessionInv, TypeOK
<1>3. UNCHANGED << backlog, conn, message, got, hung, answer, serving, at, response, stop, destructor, handled >>
  BY <1>1 DEF httpServer, sockets, thread
<1>4. outcome \in [Calls -> [how : {"not_made", "pending", "returned", "threw"}, from : Calls \cup {0}]]
  BY DEF SessionInv, TypeOK
<1>5. TypeOK'
  <2>1. HttpTypeOK'
    BY <1>3 DEF SessionInv, TypeOK, HttpTypeOK
  <2>2. QED
    BY <1>1, <1>2, <1>4, <2>1 DEF TypeOK, Pending
<1>6. Queue' /\ Once'
  BY <1>3 DEF SessionInv, Queue, Once
<1>7. Told'
  BY <1>3 DEF SessionInv, Told, Undecided, Done, Tells
<1>8. InOrder'
  <2>1. Unposted' = Unposted
    BY <1>1, <1>2 DEF Unposted
  <2>2. QED
    BY <1>3, <2>1 DEF SessionInv, InOrder
<1>9. OneByOne'
  <2>1. Current' = next_id
    BY <1>1, <1>2 DEF Current
  <2>2. outcome'[next_id] = Pending /\ \A c \in Calls : c # next_id => outcome'[c] = outcome[c]
    BY <1>1, <1>4
  <2>3. ASSUME NEW c \in Calls
        PROVE  /\ c >= next_id' => outcome'[c] = NotMade
               /\ c < next_id' - 1 => outcome'[c] \notin {NotMade, Pending}
    <3>1. c \in Nat /\ (c >= next_id' => c >= next_id /\ c # next_id)
      BY <1>1, <1>2
    <3>2. c < next_id' - 1 => c # next_id /\ (c < next_id - 1 \/ c = next_id - 1)
      BY <1>1, <1>2, <3>1
    <3>3. QED
      BY <1>1, <2>2, <3>1, <3>2 DEF SessionInv, OneByOne
  <2>4. QED
    BY <1>1, <2>1, <2>2, <2>3 DEF OneByOne
<1>10. QED
  BY <1>5, <1>6, <1>7, <1>8, <1>9 DEF SessionInv

\* A call ends, one way or the other.
LEMMA EndsStep ==
  ASSUME SessionInv, client # "idle", NEW how \in {Threw, Returned(Current)}, EndsWith(how),
         UNCHANGED << backlog, conn, message, got, answer, thread, stop, destructor, handled,
                      next_id, doing >>,
         hung' \in [Posts -> BOOLEAN]
  PROVE  SessionInv'
<1>1. /\ client' = "idle" /\ outcome' = [outcome EXCEPT ![Current] = how]
      /\ UNCHANGED << serving, at, response >>
  BY DEF EndsWith, thread
<1>2. next_id \in Nat /\ Current \in Calls /\ Current = next_id - 1
  BY InCall DEF Current
<1>3. outcome \in [Calls -> [how : {"not_made", "pending", "returned", "threw"}, from : Calls \cup {0}]]
  BY DEF SessionInv, TypeOK
<1>4. TypeOK'
  <2>1. HttpTypeOK'
    BY <1>1 DEF SessionInv, TypeOK, HttpTypeOK
  <2>2. how \in [how : {"not_made", "pending", "returned", "threw"}, from : Calls \cup {0}]
    BY <1>2 DEF Threw, Returned
  <2>3. QED
    BY <1>1, <1>3, <2>1, <2>2 DEF SessionInv, TypeOK
<1>5. Queue' /\ Once'
  BY <1>1 DEF SessionInv, Queue, Once
<1>6. Told'
  BY <1>1 DEF SessionInv, Told, Undecided, Done, Tells
<1>7. InOrder'
  <2>1. ASSUME NEW p \in Posts, p.as = "request", conn'[p] # "none"
        PROVE  p.n < Unposted'
    <3>1. p.n < Unposted /\ p.n \in Nat
      BY <2>1, PostIs DEF SessionInv, InOrder
    <3>2. QED
      BY <1>1, <1>2, <3>1 DEF Unposted
  <2>2. QED
    BY <1>1, <2>1 DEF SessionInv, InOrder
<1>8. OneByOne'
  <2>1. how # NotMade /\ how # Pending
    BY DEF Threw, Returned, NotMade, Pending
  <2>2. outcome'[Current] = how /\ \A c \in Calls : c # Current => outcome'[c] = outcome[c]
    BY <1>1, <1>2, <1>3
  <2>3. \A c \in Calls : c \in Nat /\ (c >= next_id => c # Current)
    BY <1>2
  <2>4. QED
    BY <1>1, <1>2, <2>1, <2>2, <2>3 DEF SessionInv, OneByOne
<1>9. QED
  BY <1>4, <1>5, <1>6, <1>7, <1>8 DEF SessionInv

\* What RequestAnswered, PostNotification and NotificationAnswered know of the call.
LEMMA AnswerTells ==
  ASSUME SessionInv, client \in {"request", "notification"},
         client = "request" => answer[Mine].status = 200 /\ answer[Mine].body = "result"
  PROVE  Succeeded(Current)
<1>1. CASE client = "notification"
  BY <1>1 DEF SessionInv, OneByOne
<1>2. CASE client = "request"
  <2>1. Mine \in Posts /\ Mine = Post("request", Current)
    BY <1>2, InCall DEF Mine
  <2>2. Tells(Mine, answer[Mine])
    BY <2>1 DEF SessionInv, Told
  <2>3. QED
    BY <1>2, <2>1, <2>2 DEF Tells, Succeeded
<1>3. QED
  BY <1>1, <1>2

\* The steps of a call under way.
LEMMA ProceedStep ==
  ASSUME SessionInv, Proceed
  PROVE  SessionInv'
<1>1. hung \in [Posts -> BOOLEAN] /\ doing \in {"initialize", "list_tools", "call_tool"}
  BY DEF SessionInv, TypeOK, HttpTypeOK
<1>2. ASSUME client # "idle", NEW how \in {Threw, Returned(Current)}, EndsWith(how),
             UNCHANGED << httpServer, next_id, doing >>
      PROVE  SessionInv'
  BY <1>1, <1>2, EndsStep DEF httpServer, sockets
<1>3. CASE PostRequest
  <2>1. client = "sending" /\ client' = "request" /\ Connect(Post("request", Current), OurMessage(Body(doing)))
    BY <1>3 DEF PostRequest
  <2>2. Post("request", Current) \in Posts
    BY <2>1, InCall, PostIs
  <2>3. OurMessage(Body(doing)) \in Messages
    BY DEF OurMessage, Body, Messages, Bodies
  <2>4. QED
    BY <1>3, <2>1, <2>2, <2>3, ConnectStep DEF PostRequest
<1>4. CASE RequestNotSent
  BY <1>2, <1>4 DEF RequestNotSent
<1>5. CASE RequestAnswered
  <2>1. client = "request" /\ (EndsWith(Threw) \/ EndsWith(Returned(Current)))
        /\ UNCHANGED << httpServer, next_id, doing >>
    BY <1>5 DEF RequestAnswered
  <2>2. QED
    BY <1>2, <2>1
<1>6. CASE PostNotification
  <2>1. /\ client = "request" /\ answer[Mine].status = 200 /\ answer[Mine].body = "result"
        /\ UNCHANGED << answer, thread, stop, destructor, handled, next_id, doing >>
        /\ \/ EndsWith(Threw) /\ UNCHANGED sockets
           \/ /\ Connect(Post("notification", Current), OurMessage("event"))
              /\ client' = "notification" /\ outcome' = outcome
    BY <1>6 DEF PostNotification
  <2>2. CASE EndsWith(Threw) /\ UNCHANGED sockets
    BY <1>2, <2>1, <2>2 DEF httpServer
  <2>3. CASE Connect(Post("notification", Current), OurMessage("event")) /\ client' = "notification" /\ outcome' = outcome
    <3>1. Post("notification", Current) \in Posts /\ Post("notification", Current).as # "request"
      BY <2>1, InCall, PostIs
    <3>2. OurMessage("event") \in Messages
      BY DEF OurMessage, Messages, Bodies
    <3>3. Succeeded(Current)
      BY <2>1, AnswerTells
    <3>4. QED
      BY <2>1, <2>3, <3>1, <3>2, <3>3, ConnectStep
  <2>4. QED
    BY <2>1, <2>2, <2>3
<1>7. CASE NotificationAnswered
  <2>1. client = "notification" /\ (EndsWith(Threw) \/ EndsWith(Returned(Current)))
        /\ UNCHANGED << httpServer, next_id, doing >>
    BY <1>7 DEF NotificationAnswered
  <2>2. QED
    BY <1>2, <2>1
<1>8. QED
  BY <1>3, <1>4, <1>5, <1>6, <1>7 DEF Proceed

-----------------------------------------------------------------------------
LEMMA SessionInit == Init => SessionInv
<1> SUFFICES ASSUME Init PROVE SessionInv
  OBVIOUS
<1>1. /\ backlog = << >> /\ conn = [p \in Posts |-> "none"] /\ handled = << >>
      /\ message = [p \in Posts |-> Nothing] /\ got = [p \in Posts |-> "part"]
      /\ hung = [p \in Posts |-> FALSE] /\ answer = [p \in Posts |-> NoResponse]
      /\ serving = "loop" /\ at \in Posts /\ response = NoResponse /\ stop = FALSE /\ destructor = "none"
      /\ next_id = 1 /\ client = "idle" /\ doing = "list_tools" /\ outcome = [c \in Calls |-> NotMade]
  BY DEF Init, HttpInit
<1>2. NoResponse \in ResponseType /\ Nothing \in Messages
  BY DEF NoResponse, Response, ResponseType, Results, Nothing, Messages, Bodies
<1>3. TypeOK
  <2>1. backlog \in Seq({p \in Posts : conn[p] = "queued"}) /\ handled \in Seq([post : Posts, body : Results])
    <3>1. /\ << >> \in Seq({p \in Posts : conn[p] = "queued"})
          /\ << >> \in Seq([post : Posts, body : Results])
      BY EmptySeq
    <3>2. QED
      BY <1>1, <3>1
  <2>2. outcome \in [Calls -> [how : {"not_made", "pending", "returned", "threw"}, from : Calls \cup {0}]]
    BY <1>1 DEF NotMade
  <2>3. /\ message \in [Posts -> Messages] /\ answer \in [Posts -> ResponseType]
        /\ conn \in [Posts -> {"none", "queued", "serving", "closed"}]
        /\ got \in [Posts -> {"part", "whole"}] /\ hung \in [Posts -> BOOLEAN]
    BY <1>1, <1>2
  <2>4. at \in Posts /\ response \in ResponseType /\ stop \in BOOLEAN
    <3>1. at \in Posts /\ response = NoResponse /\ stop = FALSE
      BY <1>1
    <3>2. QED
      BY <1>2, <3>1
  <2>5. /\ serving \in {"loop", "poll", "recv", "handle", "tool", "send", "sending", "close",
                        "done", "aborted"}
        /\ destructor \in {"none", "joining", "returned"}
        /\ next_id \in Nat \ {0} /\ client \in {"idle", "sending", "request", "notification"}
        /\ doing \in {"initialize", "list_tools", "call_tool"}
    BY <1>1
  <2>6. QED
    BY <2>1, <2>2, <2>3, <2>4, <2>5 DEF TypeOK, HttpTypeOK
<1>4. Queue /\ Once /\ InOrder
  BY <1>1 DEF Queue, Busy, Early, Late, Once, InOrder
<1>5. Told
  BY <1>1 DEF Told, Done, Tells, Early, Late, NoResponse, Response
<1>6. OneByOne
  BY <1>1 DEF OneByOne
<1>7. QED
  BY <1>3, <1>4, <1>5, <1>6 DEF SessionInv

LEMMA SessionNext == SessionInv /\ [Next]_vars => SessionInv'
<1> SUFFICES ASSUME SessionInv, [Next]_vars PROVE SessionInv'
  OBVIOUS
<1>1. /\ got \in [Posts -> {"part", "whole"}] /\ hung \in [Posts -> BOOLEAN]
      /\ stop \in BOOLEAN /\ destructor \in {"none", "joining", "returned"}
  BY DEF SessionInv, TypeOK, HttpTypeOK
<1>2. CASE ConnectionLost
  <2>1. client # "idle" /\ EndsWith(Threw) /\ hung' = [hung EXCEPT ![Mine] = TRUE]
        /\ UNCHANGED << backlog, conn, message, got, answer, thread, stop, destructor, handled, next_id, doing >>
    BY <1>2 DEF ConnectionLost
  <2>2. hung' \in [Posts -> BOOLEAN]
    BY <1>1, <2>1
  <2>3. QED
    BY <2>1, <2>2, EndsStep
<1>3. CASE Visit
  <2>1. ASSUME NEW s \in Strangers, StrangerLeaves(s) PROVE SessionInv'
    <3>1. hung' \in [Posts -> BOOLEAN]
      BY <1>1, <2>1 DEF StrangerLeaves
    <3>2. QED
      BY <1>1, <2>1, <3>1, QuietStep DEF StrangerLeaves, thread
  <2>2. ASSUME NEW s \in Strangers, NEW m \in StrangersMessages, StrangerConnects(s, m) PROVE SessionInv'
    <3>1. Post("stranger", s) \in Posts /\ Post("stranger", s).as # "request" /\ m \in Messages
      BY PostIs
    <3>2. QED
      BY <2>2, <3>1, ConnectStep DEF StrangerConnects
  <2>3. QED
    BY <1>3, <2>1, <2>2 DEF Visit
<1>4. ASSUME NEW p \in Posts, Arrives(p) PROVE SessionInv'
  <2>1. got' \in [Posts -> {"part", "whole"}]
    BY <1>1, <1>4 DEF Arrives
  <2>2. QED
    BY <1>1, <1>4, <2>1, QuietStep DEF Arrives, thread
<1>5. CASE Server(Stop)
  BY <1>1, <1>5, QuietStep DEF Server, Stop, sockets, thread
<1>6. CASE UNCHANGED vars
  BY <1>1, <1>6, QuietStep DEF vars, httpServer, sockets, thread
<1>7. CASE Server(Run) \/ Server(Destroyed)
  BY <1>7, RunStep, DestroyedStep DEF Server
<1>8. CASE MakeCall \/ Proceed
  BY <1>8, CallStep, ProceedStep DEF MakeCall
<1>9. QED
  BY <1>2, <1>3, <1>4, <1>5, <1>6, <1>7, <1>8 DEF Next

LEMMA SessionAlways == Spec => []SessionInv
  BY SessionInit, SessionNext, PTL DEF Spec

\* Every variable of the session over HTTP keeps its type; the connections in the
\* backlog are queued.
THEOREM TypeCorrect == Spec => []TypeOK
<1>1. SessionInv => TypeOK
  BY DEF SessionInv
<1>2. QED
  BY <1>1, SessionAlways, PTL

\* A message is carried out at most once, before 200 is sent with its own result,
\* and never before any other status (mcp_http_server.cpp:185-219).
THEOREM StatusIsTrue == Spec => []StatusTellsEffect
<1>1. SessionInv => StatusTellsEffect
  <2> SUFFICES ASSUME SessionInv, NEW p \in Posts
               PROVE  LET effects == {i \in 1..Len(handled) : handled[i].post = p}
                      IN  /\ Cardinality(effects) <= 1
                          /\ answer[p].status = 200 => \E i \in effects : handled[i].body = answer[p].body
                          /\ answer[p].status \notin {0, 200} => effects = {}
                          /\ effects # {} => Refusal(message[p]) = 0
    BY DEF StatusTellsEffect
  <2> DEFINE effects == {i \in 1..Len(handled) : handled[i].post = p}
  <2>1. Cardinality(effects) <= 1
    <3>1. effects # {} => \E i \in effects : effects = {i}
      BY DEF SessionInv, Once
    <3> HIDE DEF effects
    <3>2. CASE effects = {}
      BY <3>2, FS_EmptySet
    <3>3. CASE effects # {}
      <4>1. PICK i \in effects : effects = {i}
        BY <3>1, <3>3
      <4>2. QED
        BY <4>1, FS_Singleton
    <3>4. QED
      BY <3>2, <3>3
  <2>2. Done(p) <=> effects # {}
    BY DEF Done
  <2>3. Tells(p, answer[p]) /\ (Done(p) => Refusal(message[p]) = 0)
    BY DEF SessionInv, Told
  <2>4. QED
    BY <2>1, <2>2, <2>3 DEF Tells
<1>2. QED
  BY <1>1, SessionAlways, PTL

-----------------------------------------------------------------------------
(* The session over HTTP implements RemoteCalls.                           *)

\* What became of the calls, if nothing was carried out.
LEMMA NothingCarriedOut ==
  ASSUME handled' = handled
  PROVE  [c \in Calls |-> ResultOf(c)]' = [c \in Calls |-> ResultOf(c)]
BY DEF ResultOf

\* What became of a call that succeeded.
LEMMA ResultIs ==
  ASSUME NEW c \in Calls, Succeeded(c)
  PROVE  ResultOf(c) = "result"
BY DEF Succeeded, ResultOf

\* A request that is carried out is that of a call, made by now, whose turn it is;
\* other posts are no calls.
LEMMA RequestCarriedOut ==
  ASSUME SessionInv, outcome' = outcome, serving \in Early, NEW body \in Results, CarriedOut(body)
  PROVE  [Remote!Next]_<< outcome, [c \in Calls |-> ResultOf(c)] >>
<1> DEFINE n == Len(handled)
           kind == IF body = "result" THEN "result" ELSE "failure"
<1>1. /\ at \in Posts /\ next_id \in Nat \ {0} /\ handled \in Seq([post : Posts, body : Results])
      /\ n \in Nat /\ \A h \in 1..n : handled[h].post \in Posts
  BY SessionTyped DEF SessionInv
<1>2. /\ Len(handled') = n + 1
      /\ \A h \in 1..n : handled'[h] = handled[h]
      /\ handled'[n + 1].post = at /\ handled'[n + 1].body = body
  <2>1. handled' = Append(handled, [post |-> at, body |-> body])
    BY DEF CarriedOut
  <2>2. QED
    BY <1>1, <2>1, AppendIs
<1>3. 1..Len(handled') = 1..n \cup {n + 1}
  BY <1>1, <1>2
<1>4. ASSUME NEW d \in Calls, at # Post("request", d)
      PROVE  ResultOf(d)' = ResultOf(d)
  <2>1. {i \in 1..Len(handled') : handled'[i].post = Post("request", d)}
          = {i \in 1..n : handled[i].post = Post("request", d)}
    BY <1>2, <1>3, <1>4
  <2>2. QED
    BY <1>2, <2>1 DEF ResultOf
<1>5. CASE at.as # "request"
  <2>1. \A d \in Calls : ResultOf(d)' = ResultOf(d)
    BY <1>4, <1>5, PostIs
  <2>2. QED
    BY <2>1
<1>6. CASE at.as = "request"
  <2>1. PICK c \in Calls : at.n = c /\ at = Post("request", c)
    BY <1>1, <1>6, PostIs
  <2>2. c \in Nat /\ c < Unposted
    BY <1>1, <1>6, <2>1 DEF SessionInv, Queue, Busy, InOrder
  <2>3. outcome[c] # NotMade
    <3>1. c < next_id - 1 \/ c = next_id - 1
      BY <1>1, <2>2 DEF Unposted
    <3>2. CASE c = next_id - 1 /\ client # "idle"
      BY <3>2, InCall DEF NotMade, Pending, Current
    <3>3. QED
      BY <3>1, <3>2 DEF SessionInv, OneByOne
  <2>4. ASSUME NEW d \in Calls, d >= c PROVE ResultOf(d) = "none"
    <3>1. \A h \in 1..n : handled[h].post.as = "request" => handled[h].post.n < c
      BY <1>6, <2>1 DEF SessionInv, InOrder
    <3>2. \A h \in 1..n : handled[h].post # Post("request", d)
      BY <2>2, <2>4, <3>1, PostIs
    <3>3. QED
      BY <3>2 DEF ResultOf
  <2>5. ResultOf(c)' = kind
    <3>1. {i \in 1..Len(handled') : handled'[i].post = Post("request", c)} = {n + 1}
      <4>1. \A h \in 1..n : handled'[h].post # Post("request", c)
        <5>1. \A h \in 1..n : handled[h].post = at => at.n < c
          BY <1>6, <2>1 DEF SessionInv, InOrder
        <5>2. QED
          BY <1>2, <2>1, <2>2, <5>1
      <4>2. QED
        BY <1>2, <1>3, <2>1, <4>1
    <3>2. QED
      BY <1>2, <3>1 DEF ResultOf
  <2>6. \A d \in Calls : d # c => ResultOf(d)' = ResultOf(d)
    BY <1>4, <2>1, PostIs
  <2> HIDE DEF n, kind
  <2>7. [d \in Calls |-> ResultOf(d)]' = [[d \in Calls |-> ResultOf(d)] EXCEPT ![c] = kind]
    BY <2>5, <2>6
  <2>8. kind \in {"result", "failure"}
    BY DEF kind
  <2>9. Remote!CarryOut(c)
    BY <2>3, <2>4, <2>7, <2>8 DEF Remote!CarryOut, Remote!NotMade, NotMade
  <2>10. QED
    BY <2>9 DEF Remote!Next
<1>7. QED
  BY <1>5, <1>6

\* A step of the session is a step of RemoteCalls, or none.
LEMMA RemoteStep ==
  ASSUME SessionInv, [Next]_vars
  PROVE  [Remote!Next]_<< outcome, [c \in Calls |-> ResultOf(c)] >>
<1> DEFINE result == [c \in Calls |-> ResultOf(c)]
<1>1. ASSUME UNCHANGED << outcome, handled >>
      PROVE  UNCHANGED << outcome, result >>
  BY <1>1, NothingCarriedOut
<1>2. ASSUME NEW what \in {"initialize", "list_tools", "call_tool"}, Call(what)
      PROVE  Remote!Next
  <2>1. /\ client = "idle" /\ next_id \in Calls /\ handled' = handled
        /\ outcome' = [outcome EXCEPT ![next_id] = Pending]
    BY <1>2 DEF Call, httpServer
  <2>2. next_id \in Nat
    BY DEF SessionInv, TypeOK
  <2>3. outcome[next_id] = NotMade
    BY <2>1, <2>2 DEF SessionInv, OneByOne
  <2>4. ASSUME NEW d \in Calls, d < next_id PROVE outcome[d] \notin {NotMade, Pending}
    <3>1. d \in Nat /\ (d < next_id - 1 \/ d = next_id - 1)
      BY <2>2, <2>4
    <3>2. QED
      BY <2>1, <3>1 DEF SessionInv, OneByOne
  <2>5. result' = result
    BY <2>1, NothingCarriedOut
  <2> HIDE DEF result
  <2>6. Remote!Make(next_id)
    BY <2>1, <2>3, <2>4, <2>5
       DEF Remote!Make, Remote!NotMade, Remote!Pending, NotMade, Pending, result
  <2>7. QED
    BY <2>1, <2>6 DEF Remote!Next
<1>3. ASSUME client # "idle", EndsWith(Threw), handled' = handled
      PROVE  Remote!Next
  <2>1. Current \in Calls /\ outcome[Current] = Pending
    BY <1>3, InCall
  <2>2. result' = result
    BY <1>3, NothingCarriedOut
  <2> HIDE DEF result
  <2>3. Remote!Throw(Current)
    BY <1>3, <2>1, <2>2
       DEF EndsWith, Remote!Throw, Remote!Pending, Remote!Threw, Pending, Threw, result
  <2>4. QED
    BY <2>1, <2>3 DEF Remote!Next
<1>4. ASSUME client # "idle", EndsWith(Returned(Current)), Succeeded(Current), handled' = handled
      PROVE  Remote!Next
  <2>1. Current \in Calls /\ outcome[Current] = Pending
    BY <1>4, InCall
  <2>2. result[Current] = "result"
    BY <1>4, <2>1, ResultIs
  <2>3. result' = result
    BY <1>4, NothingCarriedOut
  <2> HIDE DEF result
  <2>4. Remote!Return(Current)
    BY <1>4, <2>1, <2>2, <2>3
       DEF EndsWith, Remote!Return, Remote!Pending, Remote!Returned, Pending, Returned, result
  <2>5. QED
    BY <2>1, <2>4 DEF Remote!Next
<1>5. CASE Server(Run) /\ handled' # handled
  <2>1. Run /\ outcome' = outcome
    BY <1>5 DEF Server
  <2>2. CASE Handle
    <3>1. serving = "handle" /\ message[at].body = "plain"
          /\ \E body \in {"result", "error"} : CarriedOut(body)
      <4>1. message[at].body \in Bodies
        BY SessionTyped DEF SessionInv, TypeOK, HttpTypeOK, Messages
      <4>2. Refusal(message[at]) = 0 => message[at].body # "garbage"
        BY <4>1, SessionTyped DEF Refusal, Messages, SessionInv, TypeOK, HttpTypeOK
      <4>3. message[at].body # "unreadable"
        BY <2>2 DEF Handle, SessionInv, Told
      <4>4. QED
        BY <1>5, <2>2, <4>1, <4>2, <4>3 DEF Handle, Bodies
    <3>2. PICK body \in Results : CarriedOut(body)
      BY <3>1 DEF Results
    <3>3. QED
      BY <2>1, <3>1, <3>2, RequestCarriedOut DEF Early
  <2>3. CASE \E body \in {"result", "error", "unprintable"} : ToolEnds(body)
    <3>1. PICK body \in Results : ToolEnds(body)
      BY <2>3 DEF Results
    <3>2. QED
      BY <2>1, <3>1, RequestCarriedOut DEF ToolEnds, Early
  <2>4. CASE CheckStop \/ PollTimesOut \/ Accept \/ RecvThrows \/ Received \/ Refuse
             \/ ToolThrowsOther \/ Send \/ SendRest \/ SendRestToNobody \/ CloseConnection
    BY <1>5, <2>4 DEF CheckStop, PollTimesOut, Accept, RecvThrows, Received, Refuse,
                      ToolThrowsOther, Send, SendRest, SendRestToNobody, CloseConnection
  <2>5. QED
    BY <2>1, <2>2, <2>3, <2>4 DEF Run
<1> HIDE DEF result
<1>6. CASE RequestAnswered \/ NotificationAnswered
  <2>1. client \in {"request", "notification"} /\ handled' = handled
    BY <1>6 DEF RequestAnswered, NotificationAnswered, httpServer
  <2>2. EndsWith(Threw) \/ (EndsWith(Returned(Current)) /\ Succeeded(Current))
    BY <1>6, <2>1, AnswerTells DEF RequestAnswered, NotificationAnswered
  <2>3. QED
    BY <1>3, <1>4, <2>1, <2>2
<1>7. CASE RequestNotSent \/ ConnectionLost
  <2>1. client # "idle" /\ EndsWith(Threw) /\ handled' = handled
    BY <1>7 DEF RequestNotSent, ConnectionLost, httpServer
  <2>2. QED
    BY <1>3, <2>1
<1>8. CASE PostNotification
  <2>1. client # "idle" /\ handled' = handled /\ (EndsWith(Threw) \/ outcome' = outcome)
    BY <1>8 DEF PostNotification
  <2>2. QED
    BY <1>1, <1>3, <2>1 DEF result
<1>9. CASE MakeCall
  BY <1>2, <1>9 DEF MakeCall
<1>10. CASE PostRequest \/ Visit \/ (\E p \in Posts : Arrives(p)) \/ Server(Stop) \/ Server(Destroyed)
            \/ UNCHANGED vars \/ (Server(Run) /\ handled' = handled)
  <2>1. outcome' = outcome /\ handled' = handled
    BY <1>10 DEF PostRequest, Visit, StrangerLeaves, StrangerConnects, Arrives, Server, Stop, Destroyed,
                 vars, httpServer
  <2>2. QED
    BY <1>1, <2>1 DEF result
<1>11. QED
  BY <1>5, <1>6, <1>7, <1>8, <1>9, <1>10 DEF Next, Proceed, result

LEMMA RemoteInit == Init => Remote!Init
<1> SUFFICES ASSUME Init PROVE Remote!Init
  OBVIOUS
<1>1. handled = << >> /\ outcome = [c \in Calls |-> NotMade]
  BY DEF Init, HttpInit
<1>2. \A c \in Calls : ResultOf(c) = "none"
  BY <1>1 DEF ResultOf
<1>3. QED
  BY <1>1, <1>2 DEF Remote!Init, Remote!NotMade, NotMade

\* A client over HTTP has its calls carried out in the order it made them, each at
\* most once, and a call that returns was carried out and returns its own result,
\* although each request is a connection of its own, calls that threw leave theirs
\* behind, and strangers' connections stand between them (http_client_transport.cpp,
\* mcp_http_server.cpp:156-226).
THEOREM ImplementsRemoteCalls == Spec => RemoteCallsSpec
<1>1. SessionInv /\ [Next]_vars => [Remote!Next]_<< outcome, [c \in Calls |-> ResultOf(c)] >>
  BY RemoteStep
<1>2. QED
  BY <1>1, RemoteInit, SessionAlways, PTL DEF Spec, RemoteCallsSpec, Remote!Spec

-----------------------------------------------------------------------------
(* Over pipes.                                                             *)

USE TransportAssumption DEF TransportAssumption

Constructed == {"piped", "forked", "open", "reading", "writing"}

\* The parent's ends are closed by the destructor; only a constructor that
\* failed may have left some open.
InParent ==
  \A t \in Transports : \A end \in ParentEnds(t) :
    end \in parent => phase[t] \in Constructed \cup {"failed"}

\* A child never holds its own parent's ends, and holds those of another
\* transport only if it was forked during that transport's life.
Inherited ==
  \A t, u \in Transports : \A end \in ParentEnds(t) :
    end \in held[u] => u # t /\ (t \in seen[u] \/ phase[t] = "failed")

\* What the phase of a transport says of its child.
Lives ==
  \A t \in Transports :
    /\ child[t] \notin {"forked", "running"} => held[t] = {}
    /\ phase[t] \in {"new", "piped", "failed"} => child[t] = "none"
    /\ phase[t] = "gone" => child[t] = "reaped"
    /\ phase[t] \in {"forked", "open", "reading", "writing", "waiting", "reaping"} =>
         child[t] \in {"forked", "running", "zombie"}

StdioInv == TransportTypeOK /\ InParent /\ Inherited /\ Lives

\* Initially nothing is open.
LEMMA StdioInit ==
  ASSUME TransportInit
  PROVE  StdioInv
BY DEF TransportInit, StdioInv, TransportTypeOK, InParent, Inherited, Lives, ParentEnds

\* Each step keeps the ends where the invariant says they are.
LEMMA ConstructInv ==
  ASSUME StdioInv, NEW t \in Transports, Construct(t)
  PROVE  StdioInv'
<1> USE DEF StdioInv
<1>1. CASE Pipe(t)
  BY <1>1 DEF Pipe, Free, Move, TransportTypeOK, InParent, Inherited, Lives, Constructed,
              ParentEnds, StdinOf, StdoutOf, Ends
<1>2. CASE PipeFails(t)
  BY <1>2 DEF PipeFails, Free, Move, TransportTypeOK, InParent, Inherited, Lives,
              Constructed, ParentEnds, StdinOf, StdoutOf, Ends
<1>3. CASE Fork(t)
  BY <1>3 DEF Fork, Move, TransportTypeOK, InParent, Inherited, Lives, Constructed,
              ParentEnds, ChildEnds, Ends
<1>4. CASE ForkFails(t)
  BY <1>4 DEF ForkFails, Move, TransportTypeOK, InParent, Inherited, Lives, Constructed,
              ParentEnds, StdinOf, StdoutOf, Ends
<1>5. CASE CloseChildEnds(t)
  BY <1>5 DEF CloseChildEnds, Move, TransportTypeOK, InParent, Inherited, Lives, Constructed,
              ParentEnds, ChildEnds, Ends
<1> QED BY <1>1, <1>2, <1>3, <1>4, <1>5 DEF Construct

LEMMA UseInv ==
  ASSUME StdioInv, NEW t \in Transports, Use(t)
  PROVE  StdioInv'
<1> USE DEF StdioInv, kernel
<1>1. CASE WriteLine(t)
  BY <1>1 DEF WriteLine, Free, Move, TransportTypeOK, InParent, Inherited, Lives, Constructed
<1>2. CASE Written(t)
  BY <1>2 DEF Written, Move, TransportTypeOK, InParent, Inherited, Lives, Constructed
<1>3. CASE Sigpipe(t)
  BY <1>3 DEF Sigpipe, TransportTypeOK, InParent, Inherited, Lives, Constructed
<1>4. CASE ReadLine(t)
  BY <1>4 DEF ReadLine, Free, Move, TransportTypeOK, InParent, Inherited, Lives, Constructed
<1>5. CASE LineRead(t)
  BY <1>5 DEF LineRead, Move, TransportTypeOK, InParent, Inherited, Lives, Constructed
<1>6. CASE Eof(t)
  BY <1>6 DEF Eof, Move, TransportTypeOK, InParent, Inherited, Lives, Constructed
<1> QED BY <1>1, <1>2, <1>3, <1>4, <1>5, <1>6 DEF Use

LEMMA DestroyInv ==
  ASSUME StdioInv, NEW t \in Transports, Destroy(t)
  PROVE  StdioInv'
<1> USE DEF StdioInv
<1>1. CASE Close(t)
  BY <1>1 DEF Close, Free, Move, TransportTypeOK, InParent, Inherited, Lives,
              Constructed, ParentEnds
<1>2. CASE Poll(t)
  BY <1>2 DEF Poll, TransportTypeOK, InParent, Inherited, Lives, Constructed
<1>3. CASE Kill(t)
  BY <1>3 DEF Kill, Move, Finish, TransportTypeOK, InParent, Inherited, Lives, Constructed
<1>4. CASE Reap(t)
  BY <1>4 DEF Reap, Move, TransportTypeOK, InParent, Inherited, Lives, Constructed
<1> QED BY <1>1, <1>2, <1>3, <1>4 DEF Destroy

LEMMA ProcessInv ==
  ASSUME StdioInv, NEW t \in Transports, Process(t)
  PROVE  StdioInv'
<1> USE DEF StdioInv
<1>1. CASE Exec(t)
  BY <1>1 DEF Exec, TransportTypeOK, InParent, Inherited, Lives, Constructed
<1>2. CASE ExecFails(t)
  BY <1>2 DEF ExecFails, Finish, TransportTypeOK, InParent, Inherited, Lives, Constructed
<1>3. CASE Serve(t)
  <2>1. in' \in [Transports -> 0..Capacity] /\ out' \in [Transports -> 0..Capacity]
    BY <1>3 DEF Serve, TransportTypeOK
  <2>2. CASE Finish(t, "sigpipe")
    BY <1>3, <2>1, <2>2 DEF Serve, Finish, TransportTypeOK, InParent, Inherited, Lives, Constructed
  <2>3. CASE UNCHANGED << held, child, ended >>
    BY <1>3, <2>1, <2>3 DEF Serve, TransportTypeOK, InParent, Inherited, Lives, Constructed
  <2>4. QED
    BY <1>3, <2>2, <2>3 DEF Serve
<1>4. CASE SeesEof(t)
  BY <1>4 DEF SeesEof, Finish, TransportTypeOK, InParent, Inherited, Lives, Constructed
<1>5. CASE Crash(t)
  BY <1>5 DEF Crash, Finish, TransportTypeOK, InParent, Inherited, Lives, Constructed
<1> QED BY <1>1, <1>2, <1>3, <1>4, <1>5 DEF Process

LEMMA StdioNext ==
  ASSUME StdioInv, [TransportNext]_transportVars
  PROVE  StdioInv'
<1>1. CASE UNCHANGED transportVars
  BY <1>1 DEF StdioInv, TransportTypeOK, InParent, Inherited, Lives, transportVars, kernel
<1>2. ASSUME NEW t \in Transports, Construct(t) \/ Use(t) \/ Destroy(t) \/ Process(t)
      PROVE  StdioInv'
  BY <1>2, ConstructInv, UseInv, DestroyInv, ProcessInv
<1> QED BY <1>1, <1>2 DEF TransportNext, Terminated

\* The invariant holds throughout.
LEMMA StdioAlways ==
  TransportSpec => []StdioInv
<1>1. TransportInit => StdioInv
  BY StdioInit
<1>2. StdioInv /\ [TransportNext]_transportVars => StdioInv'
  BY StdioNext
<1>3. QED
  BY <1>1, <1>2, PTL DEF TransportSpec

\* Every variable keeps its type; the destructor polls at most Polls times.
THEOREM StdioTypeCorrect ==
  TransportSpec => []TransportTypeOK
<1>1. StdioInv => TransportTypeOK
  BY DEF StdioInv
<1> QED BY <1>1, StdioAlways, PTL

\* A child whose destructor has given up on it, and that has nothing left to do,
\* has one of its parent's ends held open by somebody else.
LEMMA KillStep ==
  ASSUME StdioInv,
         NEW t \in WellBehaved, Kill(t), child[t] # "zombie"
  PROVE  \E u \in Transports : t \in seen[u] /\ phase[u] # "gone"
<1>1. phase[t] = "waiting" /\ child[t] \in {"forked", "running"} /\ ~Prompt(t)
  BY DEF Kill, Move, StdioInv, Lives
<1>2. PICK end \in ParentEnds(t) : Open(end)
  BY <1>1 DEF Prompt, ParentEnds, StdioInv, TransportTypeOK
<1>3. end \notin parent
  BY <1>1, <1>2 DEF StdioInv, InParent, Constructed
<1>4. PICK u \in Transports : end \in held[u]
  BY <1>2, <1>3 DEF Open
<1>5. t \in seen[u]
  BY <1>1, <1>2, <1>4 DEF StdioInv, Inherited
<1>6. phase[u] # "gone"
  BY <1>4 DEF StdioInv, Lives
<1> QED BY <1>5, <1>6

\* KilledForCause, for any transports, threads, Polls and Capacity
\* (stdio_transport.cpp:76-99).
THEOREM KilledOnlyForCause ==
  TransportSpec => KilledForCause
<1> DEFINE Cause == \A t \in WellBehaved :
       ended[t] # "killed" /\ ended'[t] = "killed" =>
         \E u \in Transports : t \in seen[u] /\ phase[u] # "gone"
<1>1. StdioInv /\ [TransportNext]_transportVars => [Cause]_transportVars
  <2> SUFFICES ASSUME StdioInv, TransportNext, NEW t \in WellBehaved,
                      ended[t] # "killed", ended'[t] = "killed"
               PROVE  \E u \in Transports : t \in seen[u] /\ phase[u] # "gone"
    OBVIOUS
  <2>1. Kill(t) /\ child[t] # "zombie"
    <3>1. PICK u \in Transports : Construct(u) \/ Use(u) \/ Destroy(u) \/ Process(u)
      BY DEF TransportNext, Terminated, transportVars
    <3>2. ~Construct(u)
      BY DEF Construct, Pipe, PipeFails, Fork, ForkFails, CloseChildEnds
    <3>3. ~Use(u)
      BY DEF Use, WriteLine, Written, Sigpipe, ReadLine, LineRead,
             Eof
    <3>4. ~Process(u)
      BY DEF Process, Exec, ExecFails, Serve, SeesEof, Crash,
             Finish, StdioInv, TransportTypeOK
    <3>5. Kill(u)
      BY <3>1, <3>2, <3>3, <3>4 DEF Destroy, Close, Poll, Reap
    <3> QED BY <3>5 DEF Kill, Finish, StdioInv, TransportTypeOK
  <2> QED BY <2>1, KillStep
<1> QED BY <1>1, StdioAlways, PTL DEF TransportSpec, KilledForCause
=============================================================================
