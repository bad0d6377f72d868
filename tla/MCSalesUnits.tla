---------------------------- MODULE MCSalesUnits ----------------------------
(* Instances of SalesUnits for TLC. *)
EXTENDS SalesUnits, TLC

Alike == Permutations(Units) \cup Permutations(Staff) \cup Permutations(Contracts)
         \cup Permutations(Apps) \cup Permutations(Draws)

\* The desk, as long as nobody uses the context menu.
DeskSpec == Init /\ [][Next /\ "menu" \notin Events]_vars
=============================================================================
