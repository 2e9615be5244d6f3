--------------------------- MODULE SessionActorMC ---------------------------
(* Instances of SessionActor for TLC.  Every bound of the model is given in *)
(* the .cfg; what is bounded is named in SessionActor.                      *)
EXTENDS SessionRefinement

CONSTANTS u1, u2
OneCaller == {u1}
TwoCallers == {u1, u2}
=============================================================================
