--------------------------- MODULE MCJobLockQueue ---------------------------
(* A buffer that starts with a given capacity and grows to eight.          *)
EXTENDS JobLockQueue, SequencesExt

\* The loop of std::move written out, and the claim that MoveUp is what it computes.
MoveLoop(a, from, to, shift) ==
  FoldLeft(LAMBDA m, i : [m EXCEPT ![i + shift] = m[i], ![i] = Hollow],
           a, [k \in 1 .. to - from |-> from + k - 1])

ASSUME MoveUpIsTheLoop ==
  \A cap \in 1 .. 6, shift \in 1 .. 6 :
    LET a == [i \in 0 .. cap + shift - 1 |-> i]
    IN  \A from \in 0 .. cap - 1 : MoveUp(a, from, cap, shift) = MoveLoop(a, from, cap, shift)

\* The powers of two are what their name says.
ASSUME PowersAreTheRoundings ==
  \A n \in 1 .. 40 :
    LET powers == {2 ^ k : k \in 0 .. 6}
    IN  /\ PowerOfTwo(n) <=> n \in powers
        /\ BitCeil(n) = CHOOSE p \in powers : p >= n /\ \A q \in powers : q >= n => p <= q
=============================================================================
