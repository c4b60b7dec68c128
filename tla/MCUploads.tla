----------------------------- MODULE MCUploads ------------------------------
(***************************************************************************)
(* Ingestion feeding preprocessing with four uploads: two of the same      *)
(* video, and two that do not validate.  One of the four never comes, so   *)
(* that the others race for the hash of the video, beside one that is      *)
(* rejected, or for the empty hash that all rejected uploads share.        *)
(***************************************************************************)
EXTENDS MCIntake

CONSTANT u4

FourUploads == ThreeUploads \cup {u4}
TwoByTwo == TwoAlike @@ (u4 :> bad)

VARIABLE missing

uploadVars == <<intakeVars, missing>>

UploadsInit == Init /\ missing \in {u2, u4}
UploadsNext == Next /\ UNCHANGED missing /\ pc'[missing] = pc[missing]

\* The fairness of FairSpec, for the uploads that come.
UploadsSpec ==
    /\ UploadsInit
    /\ [][UploadsNext]_uploadVars
    /\ \A r \in Requests :
          WF_uploadVars(r # missing /\ RequestStep(r) /\ UNCHANGED missing)
=============================================================================
