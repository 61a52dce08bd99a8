------------------------ MODULE MCStrategySessions ------------------------
(* Small instances of StrategySessions for TLC. *)
EXTENDS StrategySessions, TLC

CONSTANTS s1, s2

MCSessions == {s1, s2}
=============================================================================
