------------------------------ MODULE Guardians -----------------------------
(***************************************************************************)
(* What a guardian can answer and what codex makes of it: the verdicts of  *)
(* guardian/src/verdict.rs, the fail posture applied by core's adapter     *)
(* (session/guardian_tap.rs), and the composition of several guardians     *)
(* into one (guardian/src/fanout.rs).                                      *)
(***************************************************************************)
EXTENDS Naturals, Sequences, SequencesExt

Verdicts == {"allow", "deny", "rewrite", "defer"}

(* Result<Verdict, GuardianError>: the kinds of error are not told apart. *)
Answers == Verdicts \cup {"error"}

Postures == {"fail_open", "fail_closed"}

on_error(posture) == IF posture = "fail_closed" THEN "deny" ELSE "defer"

(* guardian_tap::review: what a gate of core acts on. *)
review(answer, posture) == IF answer = "error" THEN on_error(posture) ELSE answer

(* The answers that must keep an action from happening. *)
Refused(answer, posture) == answer = "deny" \/ (answer = "error" /\ posture = "fail_closed")

-----------------------------------------------------------------------------
(* FanOutGuardian, over the answers and the postures of the guardians it runs. *)

Ends == {"deny", "error"}

(* One turn of the loop: `?` and a Deny return at once, the first rewrite is
   kept, and a single Allow outranks Defer. *)
Consult(seen, a) ==
    CASE seen \in Ends -> seen
      [] seen \notin Ends /\ a \in Ends -> a
      [] seen = "rewrite" /\ a \notin Ends -> "rewrite"
      [] seen \in {"allow", "defer"} /\ a = "rewrite" -> "rewrite"
      [] seen \in {"allow", "defer"} /\ a \in {"allow", "defer"} ->
            IF "allow" \in {seen, a} THEN "allow" ELSE "defer"

FanOutReview(answers) == FoldLeft(Consult, "defer", answers)

\* mutant: fails closed only if every composed guardian does
FanOutPosture_All(postures) ==
    IF \A i \in DOMAIN postures : postures[i] = "fail_closed" THEN "fail_closed" ELSE "fail_open"
(* Fails closed if any composed guardian does. *)
FanOutPosture(postures) ==
    IF \E i \in DOMAIN postures : postures[i] = "fail_closed" THEN "fail_closed" ELSE "fail_open"
=============================================================================
