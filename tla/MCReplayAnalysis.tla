-------------------------- MODULE MCReplayAnalysis --------------------------
(***************************************************************************)
(* TLC instances of AnalysisSystem.                                        *)
(***************************************************************************)
EXTENDS AnalysisSystem

\* Counts around the limits and the capacity of the sizes.
MCCounts == {0, 1, 2, 3, 10000, 10001}
MCSizes == {32, 33, 49, 50}

\* Sides that differ by less and by more than the thresholds, at both bounds of
\* the map's thirds; one that five minions kill within the recall.
MCSides == [plain : {0, 1, 3, 6}, cannon : {0, 3}, x : {6, 7, 14}]
MCFighters == [hp : {0, 1, 2, 5, 6}, power : {0, 1, 3}, guard : {1, 2}]
MCCrews ==
    Upto(2, Archetypes) \cup [1 .. 3 -> {"SCALING", "POKE", "EVEN"}]
MCGolds == {-3000, -2999, -1500, -1499, 0, 1499, 1500, 2999, 3000, 50000}
MCLeads == {-1, 0, 1}

\* Two fights of one time, and of two.
MCKillLists ==
    {s \in Upto(2, [ts : 0 .. 1, killer : {"me", "foe"},
                    victim : {"me", "foe", "other"}]) : InOrder(s)}

\* From before the end of the herald to Baron's third period. Events fall around
\* the limits of the herald and of Baron.
MCClocks == 26 .. 61
MCObjectiveEvents ==
    {s \in Upto(2, [type : {"BUILDING", "DRAGON", "BARON_NASHOR", "RIFTHERALD",
                            "HORDE"}, ts : {27, 29, 40, 41}]) : InOrder(s)}
MCPlayerEvents ==
    {s \in Upto(2, [type : {"KILL", "RECALL", "ITEM"}, ts : 0 .. 5,
                    mine : BOOLEAN]) : InOrder(s)}

\* Distances at the limits of every warning.
MCEncounters ==
    Upto(2, [enemy : {TRUE}, jungle : BOOLEAN, dist : {1019, 1700, 2000, 2720},
             hp : {2, 3}]
            \cup [enemy : {FALSE}, jungle : {FALSE}, dist : {1019}, hp : {2}])

MCProgress ==
    [phase : {"AHEAD", "EVEN", "BEHIND"}, csGain : {0, 3}, moved : {0, 6000}]

\* No past, and one of more mistakes than there are tasks.
MCModels ==
    {<<>>,
     <<[type |-> "wave", freq |-> 40000], [type |-> "recall", freq |-> 10000],
       [type |-> "macro", freq |-> 20000], [type |-> "vision", freq |-> 10000]>>}

\* Baron's pit, two danger zones and the middle of the map.
MCPoints ==
    {[x |-> 5007, y |-> 10471], [x |-> 3500, y |-> 8000],
     [x |-> 9866, y |-> 4414], [x |-> 7500, y |-> 7500]}
MCWardLists == Upto(2, MCPoints)
MCProspects ==
    [at : {28}, events : {s \in MCObjectiveEvents :
                             Len(s) <= 1 /\ \A i \in DOMAIN s : s[i].ts <= 29}]

\* Snapshots with gaps of 2 and 4; events in order and not.
MCSnapTimes == {0, 2, 6}
MCEventTimes == Upto(2, 0 .. 1)
=============================================================================
