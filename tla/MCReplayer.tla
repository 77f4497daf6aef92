----------------------------- MODULE MCReplayer -----------------------------
(* Two channels of three and two records, one of which was rolled.  The    *)
(* recordings differ in what the merge and the clock have to tell apart:   *)
(* records of one time, keys that cannot be parsed, a first record with    *)
(* time stamp 0, a database without any readable record.                   *)
EXTENDS Replayer

CONSTANTS c1, c2

Rec(t, n) == [time |-> t, count |-> n, readable |-> TRUE]
Bad(t, n) == [time |-> t, count |-> n, readable |-> FALSE]

Of(a, b) == [ch \in Channels |-> IF ch = c1 THEN a ELSE b]

MCRecordings == {
  Of(<< <<Rec(1, 0), Rec(3, 1), Rec(6, 0)>>, <<Rec(7, 0)>> >>, << <<Rec(1, 1), Rec(4, 0)>> >>),
  Of(<< <<Rec(2, 1), Bad(2, 2), Rec(5, 0)>> >>, << <<Bad(1, 0), Rec(2, 1), Rec(4, 3)>> >>),
  Of(<< <<Rec(0, 0), Rec(3, 0), Rec(5, 2)>> >>, << <<Rec(0, 1), Rec(5, 1)>> >>),
  Of(<< <<Bad(1, 0)>>, <<Rec(2, 0)>> >>, << <<Rec(3, 0), Bad(4, 0), Rec(5, 0)>> >>),
  Of(<<>>, << <<Rec(2, 1), Rec(4, 0)>> >>)}

MCSpeeds == {<<1, 1>>, <<2, 1>>, <<1, 2>>}
=============================================================================
