------------------------------ MODULE MCHistory -----------------------------
(* A small instance of History for TLC. *)
EXTENDS History

\* two tasks crowding the channel, and one of them across a crash
MCBounds == {[tasks |-> Tasks, lives |-> 1], [tasks |-> {"turn"}, lives |-> 2]}
=============================================================================
