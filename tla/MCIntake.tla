------------------------------ MODULE MCIntake ------------------------------
EXTENDS Intake, TLC

CONSTANTS u1, u2, u3, same, bad

\* Two uploads of the same video, and one that does not validate.
ThreeUploads == {u1, u2, u3}
TwoAlike == (u1 :> same) @@ (u2 :> same) @@ (u3 :> bad)

WorkFaultKinds == {"transient", "permanent", "unexpected", "lost", "crash"}
RetriedFaults == {"transient"}
NoFaults == {}
=============================================================================
