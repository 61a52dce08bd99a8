---------------------------- MODULE MCParquetSink ----------------------------
(* A small instance of ParquetSink for TLC. *)
EXTENDS ParquetSink

CONSTANTS p1, p2

MCPaths == {p1, p2}
MCAt == <<p1, p1, p2>>
=============================================================================
