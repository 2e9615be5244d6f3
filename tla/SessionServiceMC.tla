-------------------------- MODULE SessionServiceMC --------------------------
(* The instance of SessionService that TLC checks.                         *)
EXTENDS SessionService, TLC

CONSTANTS c1, c2, c3

TwoCallers == {c1, c2}
ThreeCallers == {c1, c2, c3}

(* The callers are interchangeable: no definition tells them apart. *)
CallerSymmetry == Permutations(Callers)
=============================================================================
