------------------------------ MODULE Lookups ------------------------------
(***************************************************************************)
(* Looking up what was recorded nearest to a time. Snapshots are found by  *)
(* the binary search of analysis/utils.py; the samples another engine has  *)
(* made, by min with the distance as its key.                              *)
(***************************************************************************)
EXTENDS Integers

Least(S) == CHOOSE x \in S : \A y \in S : x <= y
Greatest(S) == CHOOSE x \in S : \A y \in S : y <= x

Distance(s, t) == IF s <= t THEN t - s ELSE s - t

\* Variant of SnapshotAt: a tie is won by the later snapshot.
SnapshotAt_Later(t, keys) ==
    LET before == {k \in keys : k < t}
        after == keys \ before
    IN IF before = {} THEN Least(after)
       ELSE IF after = {} THEN Greatest(before)
       ELSE IF t - Greatest(before) < Least(after) - t
            THEN Greatest(before) ELSE Least(after)

\* get_snapshot_at: bisect_left splits the sorted keys into those before t and
\* the others; of the two at the split the earlier wins a tie. Returns the key.
SnapshotAt(t, keys) ==
    LET before == {k \in keys : k < t}
        after == keys \ before
    IN IF before = {} THEN Least(after)
       ELSE IF after = {} THEN Greatest(before)
       ELSE IF t - Greatest(before) <= Least(after) - t
            THEN Greatest(before) ELSE Least(after)

\* min(keys, key=lambda k: abs(k - t)): keys are in ascending order, the first
\* of the nearest wins.
Nearest(t, keys) ==
    Least({k \in keys : \A l \in keys : Distance(k, t) <= Distance(l, t)})

\* Variant of Samples: the loop begins with the game.
Samples_FromZero(interval, end, cap) ==
    {n * interval : n \in 0 .. cap - 1} \cap 0 .. end

\* The times an engine samples: every interval until the end, at most cap.
Samples(interval, end, cap) == {n * interval : n \in 1 .. cap} \cap 0 .. end
=============================================================================
