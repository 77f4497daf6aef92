---------------------------- MODULE MCRecordFile ----------------------------
(* RecordFile on a clock of a few seconds.                                 *)
EXTENDS RecordFile

MCSizes == {1, SizeLimit}
=============================================================================
