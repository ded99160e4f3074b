--------------------------- MODULE MCMcpHttpSession ---------------------------
(* Two calls and one stranger, for TLC. *)
EXTENDS McpHttpSession

MCCalls == 1..2
MCProgram == [c \in MCCalls |-> IF c = 1 THEN {"initialize", "call_tool"} ELSE {"list_tools", "call_tool"}]
MCStrangers == {1}
MCPosts == [as : {"request", "notification"}, n : MCCalls] \cup [as : {"stranger"}, n : MCStrangers]

Sent(origin, path, method, body) == [origin |-> origin, path |-> path, method |-> method, body |-> body]
MCStrangersMessages ==
  {Sent("local", "ours", "POST", body) : body \in {"unreadable", "garbage", "malformed", "tool"}}
    \cup {Sent("foreign", "ours", "POST", "tool"), Sent("local", "other", "GET", "tool")}
=============================================================================
