------------------------------- MODULE MCGate -------------------------------
(* Small instances of Gate for TLC. *)
EXTENDS Gate, TLC

CONSTANTS rmA, rmB, dd, lint, advert

MCTexts == {rmA, rmB, dd, lint, advert}
MCRules == {"destructive"}
\* rmA and dd trip the same rule and are unlike each other
MCScan == [t \in MCTexts |-> IF t \in {rmA, dd} THEN {"destructive"} ELSE {}]
MCNoise == (advert :> "some") @@ [t \in MCTexts |-> "none"]
\* rmB looks like rmA to the blocked index, but not to the stricter rubbish one
MCSim == [t \in MCTexts |-> [u \in MCTexts |->
            IF t = u THEN 100 ELSE IF {t, u} = {rmA, rmB} THEN 87 ELSE 10]]

Req(kind, tool, text) == [kind |-> kind, tool |-> tool, text |-> text, turn |-> "turn"]
MCRequests == {Req("tool_call", "bash", rmA), Req("tool_call", "bash", rmB),
               Req("prompt", "codex", rmA), Req("tool_output", "bash", advert),
               Req("approval", "bash", lint)}
CoreRequests == {Req("tool_call", "bash", rmA), Req("prompt", "codex", dd),
                 Req("tool_call", "bash", rmB)}
MCToolCalls == {[tool |-> "bash", text |-> rmA]}
KeySymmetry == Permutations(Keys \ {NoKey})
=============================================================================
