----------------------------- MODULE MCFallback -----------------------------
(* Instances of FallbackProtection for TLC. *)
EXTENDS FallbackProtection

MCRows == {1, 2}
MCOneRow == {1}
MCTwoUnits == <<2>>
MCTwoLives == <<2, 1>>

====
