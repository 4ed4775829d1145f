---------------------------- MODULE MCExportTxn ----------------------------
(* Small instances of ExportTxn for TLC. *)
EXTENDS ExportTxn

TwoPaths == 1..2
=============================================================================
