------------------------------- MODULE Vision -------------------------------
(***************************************************************************)
(* VisionEngine: what a player sees and does not see, from the wards of    *)
(* both teams. Points are [x, y] in units of the map; distances are        *)
(* compared by their squares.                                              *)
(***************************************************************************)
EXTENDS Lookups, Sequences, FiniteSets

Square(n) == n * n
Within(a, b, r) == Square(a.x - b.x) + Square(a.y - b.y) <= Square(r)

\* any_ward_covers, for a list of wards.
Covers(wards, point, r) == \E i \in DOMAIN wards : Within(wards[i], point, r)

ObjectivePosition ==
    [BARON |-> [x |-> 5007, y |-> 10471], DRAGON |-> [x |-> 9866, y |-> 4414],
     HERALD |-> [x |-> 5007, y |-> 10471]]

DangerZone ==
    [river_top |-> [x |-> 4500, y |-> 10500], river_bot |-> [x |-> 10500, y |-> 4500],
     jungle_top |-> [x |-> 3500, y |-> 8000], jungle_bot |-> [x |-> 11500, y |-> 7000]]

\* _get_next_objective_position: the first event in the list after t whose
\* monster has a position. Monsters are named as in the events, where only
\* DRAGON has one: BARON_NASHOR and RIFTHERALD are not converted.
NextObjective(events, t) ==
    LET later == {i \in DOMAIN events :
                    events[i].ts > t /\ events[i].type \in DOMAIN ObjectivePosition}
    IN IF later = {} THEN "none" ELSE events[Least(later)].type

\* Variant of Unwarded: the zones that are near a ward.
Unwarded_Near(pos, wards) ==
    {z \in DOMAIN DangerZone : Distance(pos.x, DangerZone[z].x) <= 5000
                               /\ Covers(wards, DangerZone[z], 900)}

\* _find_unwarded_danger_zones: the zones near the player, by x alone.
Unwarded(pos, wards) ==
    {z \in DOMAIN DangerZone : Distance(pos.x, DangerZone[z].x) <= 5000
                               /\ ~Covers(wards, DangerZone[z], 900)}

\* calc_vision_dominance; the dominance is a fraction.
VisionOf(t, mine, theirs, pos, events) ==
    LET total == Len(mine) + Len(theirs)
        next == NextObjective(events, t)
    IN [visible |-> Covers(mine, pos, 500),
        dominance |-> IF total > 0 THEN [num |-> Len(mine), den |-> total]
                      ELSE [num |-> 1, den |-> 2],
        broken |-> Covers(theirs, pos, 1500),
        ready |-> next # "none" /\ Covers(mine, ObjectivePosition[next], 900),
        unwarded |-> Unwarded(pos, mine)]
=============================================================================
