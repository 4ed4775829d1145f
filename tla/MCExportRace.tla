---------------------------- MODULE MCExportRace ----------------------------
(* Small instances of ExportRace for TLC. *)
EXTENDS ExportRace

OnePath == {1}
TwoPaths == 1..2
=============================================================================
