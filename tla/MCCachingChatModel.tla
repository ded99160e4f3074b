-------------------------- MODULE MCCachingChatModel --------------------------
(* Two handlers, the first of which throws, for TLC. *)
EXTENDS CachingChatModel

MCHandlers == 1..2
MCThrowing == {1}
=============================================================================
