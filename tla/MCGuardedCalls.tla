--------------------------- MODULE MCGuardedCalls ---------------------------
(* Small instances of GuardedCalls for TLC. *)
EXTENDS GuardedCalls, TLC

CONSTANTS rmA, rmB, clean

MCTexts == {rmA, rmB, clean}
MCRules == {"destructive"}
MCScan == [t \in MCTexts |-> IF t = clean THEN {} ELSE {"destructive"}]
MCNoise == [t \in MCTexts |-> "none"]
MCSim == [t \in MCTexts |-> [u \in MCTexts |-> IF t = u THEN 100 ELSE 10]]

Req(kind, tool, text, turn) == [kind |-> kind, tool |-> tool, text |-> text, turn |-> turn]
ToolReq == Req("tool_call", "bash", rmA, "turn")
PromptReq == Req("prompt", "codex", rmB, "turn")
CleanReq == Req("prompt", "codex", clean, "turn")

\* "again" retries "tool" under the same key; "prompt" has a key of its own
RetryCalls == {"tool", "again", "prompt"}
RetryThread == [c \in RetryCalls |-> "thread"]
RetryAction == ("prompt" :> PromptReq) @@ [c \in RetryCalls |-> ToolReq]
\* both actions in flight while the app stays up, or one call after the other
\* while it is restarted up to twice
RetryPlans ==
    {[after |-> ("again" :> {"tool"}) @@ [c \in RetryCalls |-> {}], restarts |-> 0],
     [after |-> ("tool" :> {}) @@ ("again" :> {"tool"}) @@ ("prompt" :> {"tool", "again"}),
      restarts |-> 2]}
RetryCallId == ("prompt" :> "-") @@ [c \in RetryCalls |-> "call"]
RetryKeys == {<<"thread", "turn", "tool_call", "call">>, <<"thread", "turn", "prompt", "-">>}
RetryRequests == {ToolReq, PromptReq}

\* two unrelated reviews, one of which passes as clean
TwoCalls == {"tool", "clean"}
TwoThread == [c \in TwoCalls |-> "thread"]
TwoAction == ("tool" :> ToolReq) @@ ("clean" :> CleanReq)
TwoPlans == {[after |-> [c \in TwoCalls |-> {}], restarts |-> 1]}
TwoCallId == ("tool" :> "call") @@ ("clean" :> "-")
TwoKeys == {<<"thread", "turn", "tool_call", "call">>, <<"thread", "turn", "prompt", "-">>}
TwoRequests == {ToolReq, CleanReq}

\* two MCP servers of one thread, reviewed one after the other: admission has
\* no turn and no call id
ServerReq(t) == Req("mcp_admission", "codex", t, "")
McpCalls == {"server1", "server2"}
McpThread == [c \in McpCalls |-> "thread"]
McpAction == ("server1" :> ServerReq(clean)) @@ ("server2" :> ServerReq(rmA))
McpPlans == {[after |-> ("server1" :> {}) @@ ("server2" :> {"server1"}), restarts |-> 0]}
McpCallId == [c \in McpCalls |-> "-"]
McpKeys == {<<"thread", "", "mcp_admission", "-">>}
McpRequests == {ServerReq(clean), ServerReq(rmA)}
=============================================================================
