--------------------------- MODULE MCStdioTransport ---------------------------
(* Transports used by one thread, or each by a thread of its own, for TLC. *)
EXTENDS StdioTransport

OneThread  == [t \in Transports |-> "main"]
OwnThreads == [t \in Transports |-> t]
=============================================================================
