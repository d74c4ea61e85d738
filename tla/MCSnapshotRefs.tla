--------------------------- MODULE MCSnapshotRefs ---------------------------
(* Instances of SnapshotRefs for TLC. *)
EXTENDS SnapshotRefs, TLC

CONSTANTS s1, s2, s3, u1, u2, n1

ThreeSnaps == {s1, s2, s3}
TwoUsers   == {u1, u2}
OneDragger == {u2}
OneNav     == {n1}

Alike == Permutations(ThreeSnaps)
=============================================================================
