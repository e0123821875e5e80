------------------------------- MODULE Ruling -------------------------------
(***************************************************************************)
(* What the review protocol promises codex: one ruling per idempotency     *)
(* key, made at most once and never changed, and every guarded call either *)
(* learns exactly that ruling or gives up.  Rulings are only forgotten all *)
(* together, when the app starts over.                                     *)
(***************************************************************************)
CONSTANTS Calls, Keys, KeyOf, Verdicts
VARIABLES ruling,   \* key -> its verdict, "none" before
          learned   \* call -> the verdict it acts on, "none" before, "failed" without one
vars == <<ruling, learned>>

Init ==
    /\ ruling = [k \in Keys |-> "none"]
    /\ learned = [c \in Calls |-> "none"]

Rule(k, v) ==
    /\ ruling[k] = "none"
    /\ ruling' = [ruling EXCEPT ![k] = v]
    /\ UNCHANGED learned

Learn(c) ==
    /\ learned[c] = "none" /\ ruling[KeyOf[c]] # "none"
    /\ learned' = [learned EXCEPT ![c] = ruling[KeyOf[c]]]
    /\ UNCHANGED ruling

GiveUp(c) ==
    /\ learned[c] = "none"
    /\ learned' = [learned EXCEPT ![c] = "failed"]
    /\ UNCHANGED ruling

Forget ==
    /\ ruling' = [k \in Keys |-> "none"]
    /\ UNCHANGED learned

Next ==
    \/ Forget
    \/ \E k \in Keys, v \in Verdicts : Rule(k, v)
    \/ \E c \in Calls : Learn(c) \/ GiveUp(c)

Spec == Init /\ [][Next]_vars
=============================================================================
