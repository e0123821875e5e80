------------------------------- MODULE MCTurn -------------------------------
(* Small instances of Turn for TLC. *)
EXTENDS Turn

\* a process tool that must run alone, and a plain one that may run in parallel
MCCalls == {"shell", "fetch"}

Setting(posture, strict, policy, deniedReads, tool, hooks) ==
    [posture |-> posture, strict |-> strict, policy |-> policy,
     deniedReads |-> deniedReads, tool |-> tool, hooks |-> hooks]

\* two captures of the turn and one of another task, with two instruction blocks
Instruct == [prompts |-> 0, rounds |-> 2, inject |-> TRUE, selections |-> {"here", "there"},
             calls |-> {}]
\* two prompts at once, and prompts of two rounds
Letter == [prompts |-> 2, rounds |-> 2, inject |-> FALSE, selections |-> {"bare"}, calls |-> {}]
\* the dispatch of tool calls
Work == [prompts |-> 0, rounds |-> 1, inject |-> FALSE, selections |-> {"bare"},
         calls |-> MCCalls]

CallSettings ==
    {Setting("fail_closed", TRUE, "unless_trusted", FALSE, "exec_command", {}),
     Setting("fail_closed", FALSE, "unless_trusted", FALSE, "exec_command", {"post"}),
     Setting("fail_closed", FALSE, "on_request", FALSE, "apply_patch", {}),
     Setting("fail_open", FALSE, "on_request", TRUE, "exec_command", {}),
     Setting("fail_closed", FALSE, "never", FALSE, "exec_command", {"pre"})}
TalkSettings ==
    {Setting(posture, FALSE, "never", FALSE, "exec_command", {}) : posture \in Postures}
MCInstances == [settings : CallSettings, shape : {Work}]
                \cup [settings : TalkSettings, shape : {Instruct, Letter}]
=============================================================================
