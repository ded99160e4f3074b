---------------------------- MODULE StdioTransport ----------------------------
(***************************************************************************)
(* mcp::detail::StdioTransport (src/src/mcp/stdio_transport.cpp): several  *)
(* transports of one parent process, their child processes, and the pipes  *)
(* between them.  What matters is who holds which end of which pipe: fork  *)
(* copies every descriptor the parent holds at that moment, the ends of    *)
(* other transports included, and exec keeps them (no FD_CLOEXEC); a pipe  *)
(* is at end of file when no process holds its write end, and broken when  *)
(* none holds its read end.                                                *)
(*                                                                         *)
(* Lines are counted, not modelled: `in[t]` and `out[t]` are the lines in  *)
(* the pipes.  Bounds: Capacity lines fit in a pipe; Polls is the number   *)
(* of WNOHANG polls of the destructor (25 in the code).                    *)
(***************************************************************************)
EXTENDS Integers, FiniteSets

CONSTANTS Transports, Owner,  \* Owner[t]: the thread that uses transport t
          WellBehaved,        \* the children that answer, and exit at end of file
          Polls, Capacity

ASSUME TransportAssumption ==
  /\ WellBehaved \subseteq Transports
  /\ Polls \in Nat \ {0} /\ Capacity \in Nat \ {0}

VARIABLES
  phase,      \* where each transport is in its life
  polls,      \* the destructor's loop counter
  parent,     \* the pipe ends the parent process holds
  held,       \* the pipe ends each child process holds
  child,      \* each child process, as the kernel sees it
  in, out,    \* lines in each child's stdin and stdout pipe
  ended,      \* history: how each child ended
  seen,       \* history: the transports that had pipes when each child was forked
  alive       \* the parent process has not been killed by a signal

kernel == << parent, held, child, in, out >>
transportVars == << phase, polls, kernel, ended, seen, alive >>

-----------------------------------------------------------------------------
StdinOf(t)  == {<< t, "in", "r" >>, << t, "in", "w" >>}
StdoutOf(t) == {<< t, "out", "r" >>, << t, "out", "w" >>}
ChildEnds(t)  == {<< t, "in", "r" >>, << t, "out", "w" >>}
ParentEnds(t) == {<< t, "in", "w" >>, << t, "out", "r" >>}
Ends == Transports \X {"in", "out"} \X {"r", "w"}

Open(end) == end \in parent \/ \E u \in Transports : end \in held[u]

\* A thread is in one call of one transport at a time.
Free(t) ==
  /\ alive
  /\ \A u \in Transports \ {t} :
       Owner[u] = Owner[t] => phase[u] \in {"new", "open", "failed", "gone"}

Move(t, from, to) == alive /\ phase[t] = from /\ phase' = [phase EXCEPT ![t] = to]

\* The kernel ends the process of t: its descriptors are closed.
Finish(t, how) ==
  /\ child' = [child EXCEPT ![t] = "zombie"]
  /\ held' = [held EXCEPT ![t] = {}]
  /\ ended' = [ended EXCEPT ![t] = how]

\* What a prompt child can still do on its own; the assumption behind the
\* destructor's grace period is that a well-behaved child gets it done in time.
Prompt(t) ==
  /\ t \in WellBehaved
  /\ \/ child[t] = "forked"
     \/ child[t] = "running" /\ in[t] > 0 /\ (out[t] < Capacity \/ ~Open(<< t, "out", "r" >>))
     \/ child[t] = "running" /\ in[t] = 0 /\ ~Open(<< t, "in", "w" >>)

-----------------------------------------------------------------------------
(* Ways this code could be wrong, for the mutation checks.                 *)

\* The parent forgets to close the child's ends.
KeepEnds(t) ==
  /\ Move(t, "forked", "open")
  /\ UNCHANGED << polls, kernel, ended, seen, alive >>

\* The destructor waits before it closes the child's stdin.
WaitFirst(t) ==
  /\ Free(t)
  /\ Move(t, "open", "waiting")
  /\ parent' = parent \ {<< t, "out", "r" >>}
  /\ UNCHANGED << polls, held, child, in, out, ended, seen, alive >>

\* The destructor waits without killing.
NoKill(t) ==
  /\ polls[t] = Polls /\ ~Prompt(t)
  /\ Move(t, "waiting", "reaping")
  /\ UNCHANGED << polls, kernel, ended, seen, alive >>

-----------------------------------------------------------------------------
TransportInit ==
  /\ phase = [t \in Transports |-> "new"]
  /\ polls = [t \in Transports |-> 0]
  /\ parent = {}
  /\ held = [t \in Transports |-> {}]
  /\ child = [t \in Transports |-> "none"]
  /\ in = [t \in Transports |-> 0]
  /\ out = [t \in Transports |-> 0]
  /\ ended = [t \in Transports |-> "no"]
  /\ seen = [t \in Transports |-> {}]
  /\ alive = TRUE

(* The constructor. *)

Pipe(t) ==
  /\ Free(t)
  /\ Move(t, "new", "piped")
  /\ parent' = parent \cup StdinOf(t) \cup StdoutOf(t)
  /\ UNCHANGED << polls, held, child, in, out, ended, seen, alive >>

\* The first or the second pipe() fails; the ends of the first stay open.
PipeFails(t) ==
  /\ Free(t)
  /\ Move(t, "new", "failed")
  /\ \E leaked \in {{}, StdinOf(t)} : parent' = parent \cup leaked
  /\ UNCHANGED << polls, held, child, in, out, ended, seen, alive >>

\* fork(), and in the child dup2() and the four close(): it is left with its
\* own two ends and with everything else the parent held.
Fork(t) ==
  /\ Move(t, "piped", "forked")
  /\ child' = [child EXCEPT ![t] = "forked"]
  /\ held' = [held EXCEPT ![t] = (parent \ ParentEnds(t)) \cup ChildEnds(t)]
  /\ seen' = [seen EXCEPT ![t] =
       {u \in Transports \ {t} : phase[u] \in {"piped", "forked", "open", "reading", "writing"}}]
  /\ UNCHANGED << polls, parent, in, out, ended, alive >>

ForkFails(t) ==
  /\ Move(t, "piped", "failed")
  /\ parent' = parent \ (StdinOf(t) \cup StdoutOf(t))
  /\ UNCHANGED << polls, held, child, in, out, ended, seen, alive >>

CloseChildEnds(t) ==
  /\ Move(t, "forked", "open")
  /\ parent' = parent \ ChildEnds(t)
  /\ UNCHANGED << polls, held, child, in, out, ended, seen, alive >>

(* write_line and read_line. *)

WriteLine(t) ==
  /\ Free(t)
  /\ Move(t, "open", "writing")
  /\ UNCHANGED << polls, kernel, ended, seen, alive >>

\* write() returns once there is room in the pipe.
Written(t) ==
  /\ Open(<< t, "in", "r" >>)
  /\ in[t] < Capacity
  /\ Move(t, "writing", "open")
  /\ in' = [in EXCEPT ![t] = @ + 1]
  /\ UNCHANGED << polls, parent, held, child, out, ended, seen, alive >>

\* Nobody can read the pipe any more: the kernel raises SIGPIPE before write()
\* would return EPIPE, and nothing in the library changes its disposition.
Sigpipe(t) ==
  /\ alive /\ phase[t] = "writing"
  /\ ~Open(<< t, "in", "r" >>)
  /\ alive' = FALSE
  /\ parent' = {}
  /\ UNCHANGED << phase, polls, held, child, in, out, ended, seen >>

ReadLine(t) ==
  /\ Free(t)
  /\ Move(t, "open", "reading")
  /\ UNCHANGED << polls, kernel, ended, seen, alive >>

LineRead(t) ==
  /\ out[t] > 0
  /\ Move(t, "reading", "open")
  /\ out' = [out EXCEPT ![t] = @ - 1]
  /\ UNCHANGED << polls, parent, held, child, in, ended, seen, alive >>

Eof(t) ==
  /\ out[t] = 0 /\ ~Open(<< t, "out", "w" >>)
  /\ Move(t, "reading", "open")
  /\ UNCHANGED << polls, kernel, ended, seen, alive >>

(* The destructor. *)

Close(t) ==
  /\ Free(t)
  /\ Move(t, "open", "waiting")
  /\ parent' = parent \ ParentEnds(t)
  /\ UNCHANGED << polls, held, child, in, out, ended, seen, alive >>

\* waitpid(WNOHANG): reaps the child, or sleeps until the next poll.
Poll(t) ==
  /\ alive /\ phase[t] = "waiting" /\ polls[t] < Polls
  /\ polls' = [polls EXCEPT ![t] = @ + 1]
  /\ IF child[t] = "zombie"
     THEN /\ phase' = [phase EXCEPT ![t] = "gone"]
          /\ child' = [child EXCEPT ![t] = "reaped"]
     ELSE UNCHANGED << phase, child >>
  /\ UNCHANGED << parent, held, in, out, ended, seen, alive >>

\* The child did not exit in time.  It may have since its last poll: signalling
\* a zombie has no effect.
Kill(t) ==
  /\ polls[t] = Polls /\ ~Prompt(t)
  /\ Move(t, "waiting", "reaping")
  /\ IF child[t] = "zombie" THEN UNCHANGED << child, held, ended >> ELSE Finish(t, "killed")
  /\ UNCHANGED << polls, parent, in, out, seen, alive >>

Reap(t) ==
  /\ child[t] = "zombie"
  /\ Move(t, "reaping", "gone")
  /\ child' = [child EXCEPT ![t] = "reaped"]
  /\ UNCHANGED << polls, parent, held, in, out, ended, seen, alive >>

(* The child process. *)

Exec(t) ==
  /\ child[t] = "forked"
  /\ child' = [child EXCEPT ![t] = "running"]
  /\ UNCHANGED << phase, polls, parent, held, in, out, ended, seen, alive >>

\* execvp() returned: _exit(127).
ExecFails(t) ==
  /\ child[t] = "forked"
  /\ Finish(t, "exec_failed")
  /\ UNCHANGED << phase, polls, parent, in, out, seen, alive >>

\* A request is read and answered; answering nobody ends the process.
Serve(t) ==
  /\ child[t] = "running" /\ in[t] > 0
  /\ in' = [in EXCEPT ![t] = @ - 1]
  /\ IF Open(<< t, "out", "r" >>)
     THEN /\ out[t] < Capacity
          /\ out' = [out EXCEPT ![t] = @ + 1]
          /\ UNCHANGED << held, child, ended >>
     ELSE Finish(t, "sigpipe") /\ UNCHANGED out
  /\ UNCHANGED << phase, polls, parent, seen, alive >>

SeesEof(t) ==
  /\ t \in WellBehaved
  /\ child[t] = "running"
  /\ in[t] = 0 /\ ~Open(<< t, "in", "w" >>)
  /\ Finish(t, "exited")
  /\ UNCHANGED << phase, polls, parent, in, out, seen, alive >>

\* Any process may crash.
Crash(t) ==
  /\ child[t] = "running"
  /\ Finish(t, "crashed")
  /\ UNCHANGED << phase, polls, parent, in, out, seen, alive >>

Construct(t) == Pipe(t) \/ PipeFails(t) \/ Fork(t) \/ ForkFails(t) \/ CloseChildEnds(t)
Use(t) == WriteLine(t) \/ Written(t) \/ Sigpipe(t) \/ ReadLine(t) \/ LineRead(t) \/ Eof(t)
Destroy(t) == Close(t) \/ Poll(t) \/ Kill(t) \/ Reap(t)
Process(t) == Exec(t) \/ ExecFails(t) \/ Serve(t) \/ SeesEof(t) \/ Crash(t)

Terminated ==
  /\ ~alive \/ \A t \in Transports : phase[t] \in {"gone", "failed"}
  /\ UNCHANGED transportVars

TransportNext ==
  \/ \E t \in Transports : Construct(t) \/ Use(t) \/ Destroy(t) \/ Process(t)
  \/ Terminated

TransportSpec == TransportInit /\ [][TransportNext]_transportVars

\* The parent's threads run, and so does a well-behaved child.  Nothing obliges
\* a program to begin another call.
FairTransportSpec ==
  /\ TransportSpec
  /\ \A t \in Transports :
       /\ WF_transportVars(Fork(t) \/ ForkFails(t)) /\ WF_transportVars(CloseChildEnds(t))
       /\ WF_transportVars(Written(t) \/ Sigpipe(t)) /\ WF_transportVars(LineRead(t) \/ Eof(t))
       /\ WF_transportVars(Poll(t) \/ Kill(t)) /\ WF_transportVars(Reap(t))
  /\ \A t \in WellBehaved : WF_transportVars(Exec(t) \/ Serve(t)) /\ WF_transportVars(SeesEof(t))

-----------------------------------------------------------------------------
TransportTypeOK ==
  /\ phase \in [Transports -> {"new", "failed", "piped", "forked", "open", "writing",
                               "reading", "waiting", "reaping", "gone"}]
  /\ polls \in [Transports -> 0..Polls]
  /\ parent \subseteq Ends
  /\ held \in [Transports -> SUBSET Ends]
  /\ child \in [Transports -> {"none", "forked", "running", "zombie", "reaped"}]
  /\ in \in [Transports -> 0..Capacity]
  /\ out \in [Transports -> 0..Capacity]
  /\ ended \in [Transports -> {"no", "exited", "crashed", "exec_failed", "sigpipe", "killed"}]
  /\ seen \in [Transports -> SUBSET Transports]
  /\ alive \in BOOLEAN

\* The destructor kills a well-behaved child only if the child of a transport
\* that was constructed during this one's life, and is not destroyed yet, holds
\* its pipes open (stdio_transport.cpp:80-97): a program that destroys its
\* transports in the reverse order never does.
KilledForCause ==
  [][\A t \in WellBehaved :
       ended[t] # "killed" /\ ended'[t] = "killed" =>
         \E u \in Transports : t \in seen[u] /\ phase[u] # "gone"]_transportVars

\* Destroying a transport takes bounded time, whatever the child does, and
\* leaves no zombie (stdio_transport.cpp:83-98).
ChildReaped ==
  \A t \in Transports :
    phase[t] = "waiting" ~> (phase[t] = "gone" /\ child[t] = "reaped") \/ ~alive

\* A reader whose child is gone is released (stdio_transport.hpp:33-34,
\* stdio_transport.cpp:136-143), and so is a writer whose child is gone, or reads
\* its requests and is not waiting for its answers to be read.
CallersReleased ==
  /\ \A t \in Transports :
       phase[t] = "reading" /\ child[t] = "zombie" ~> phase[t] # "reading" \/ ~alive
  /\ \A t \in WellBehaved :
       phase[t] = "writing" ~> phase[t] # "writing" \/ out[t] = Capacity \/ ~alive

-----------------------------------------------------------------------------
(* What the comments say, and the code does not do.                        *)

\* stdio_transport.cpp:77-79: "Closing stdin first lets a well-behaved server
\* see EOF and exit on its own".
WellBehavedExits == \A t \in WellBehaved : ended[t] # "killed"
=============================================================================
