----------------------------- MODULE MCFileSync -----------------------------
(* Small instances of FileSync. *)
EXTENDS FileSync

OneDevice    == 1..1
TwoDevices   == 1..2
ThreeDevices == 1..3
Nobody       == {}
=============================================================================
