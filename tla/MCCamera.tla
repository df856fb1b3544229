------------------------------- MODULE MCCamera -------------------------------
(* Small instances of the cameras for TLC. *)
EXTENDS CameraProxy

Every    == AllKinds
Two == {"accufiz", "zwo"}
TwoSizes == {1, 2}
==============================================================================
