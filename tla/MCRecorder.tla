----------------------------- MODULE MCRecorder -----------------------------
(* A recorder with a channel and two intervals.                            *)
EXTENDS Recorder

CONSTANTS short, long

MCIntervals == {short, long}
MCPeriodOf  == short :> 2 @@ long :> 4
MCCopiesOf  == short :> 1 @@ long :> 1
=============================================================================
