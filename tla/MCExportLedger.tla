--------------------------- MODULE MCExportLedger ---------------------------
(* Small instances of ExportLedger for TLC: path 1 is the manifest. *)
EXTENDS ExportLedger

CONSTANTS v1, v2

ThreePaths == 1..3
ThreeSnapshots == {<<v1, v1, v1>>, <<v1, v2, Absent>>, <<v2, Absent, v1>>}
=============================================================================
