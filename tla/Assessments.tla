---------------------------- MODULE Assessments ----------------------------
(***************************************************************************)
(* How the engines assess the game: the archetypes of the compositions,    *)
(* the phase of the game, and the player's intents and macro decisions     *)
(* measured against them. Champions are represented by their archetype.    *)
(***************************************************************************)
EXTENDS Lookups, Sequences, FiniteSets

Archetypes == {"SCALING", "POKE", "ENGAGE", "DIVE", "PEEL", "SPLIT", "EVEN"}

Count(team, a) == Cardinality({i \in DOMAIN team : team[i] = a})

\* _determine_team_archetype: the most frequent, of equals the one that comes
\* first in the team.
TeamArchetype(team) ==
    IF team = <<>> THEN "EVEN"
    ELSE team[Least({i \in DOMAIN team :
                \A j \in DOMAIN team : Count(team, team[j]) <= Count(team, team[i])})]

EarlyStrong == {"DIVE", "ENGAGE", "POKE"}
LateStrong == {"SCALING", "PEEL"}

\* _compare_advantage
Compare(my, enemy, strong) ==
    IF my \in strong /\ enemy \notin strong THEN "PLAYER"
    ELSE IF enemy \in strong /\ my \notin strong THEN "ENEMY"
    ELSE "EVEN"

\* _calc_phaseadvantage
PhaseAdvantage(my, enemy) ==
    LET early == Compare(my, enemy, EarlyStrong)
        late == Compare(my, enemy, LateStrong)
    IN [early |-> early, mid |-> IF early = late THEN early ELSE "EVEN",
        late |-> late]

\* Variant of Scaling: PEEL is missing from this copy of the archetypes.
Scaling_NoPeel(archetype, lateChampion) ==
    IF archetype = "SCALING" THEN "PLAYER_SCALING"
    ELSE IF archetype \in {"POKE", "ENGAGE", "DIVE"} THEN "ENEMY_SCALING"
    ELSE IF lateChampion THEN "PLAYER_SCALING" ELSE "EVEN"

\* _classify_scaling: archetype "none" stands for a missing composition.
Scaling(archetype, lateChampion) ==
    IF archetype \in {"SCALING", "PEEL"} THEN "PLAYER_SCALING"
    ELSE IF archetype \in {"POKE", "ENGAGE", "DIVE"} THEN "ENEMY_SCALING"
    ELSE IF lateChampion THEN "PLAYER_SCALING" ELSE "EVEN"

\* Variant of PhaseOf: the milder test comes first on the losing side.
PhaseOf_Order(gold, kills, towers) ==
    LET score == gold + 50000 * kills + 100000 * towers
    IN IF score >= 3000 THEN "SNOWBALL"
       ELSE IF score >= 1500 THEN "AHEAD"
       ELSE IF score <= -1500 THEN "BEHIND"
       ELSE IF score <= -3000 THEN "COMEBACK"
       ELSE "EVEN"

\* _classify_phase of the leads in gold, kills and towers; everything times 500.
PhaseOf(gold, kills, towers) ==
    LET score == gold + 50000 * kills + 100000 * towers
    IN IF score >= 3000 THEN "SNOWBALL"
       ELSE IF score >= 1500 THEN "AHEAD"
       ELSE IF score <= -3000 THEN "COMEBACK"
       ELSE IF score <= -1500 THEN "BEHIND"
       ELSE "EVEN"

\* Variant of EventsIn: the window does not have its end.
EventsIn_Open(events, from, to) ==
    {i \in DOMAIN events : from <= events[i].ts /\ events[i].ts < to}

\* filter_events_in_window, as the places in the list of events.
EventsIn(events, from, to) ==
    {i \in DOMAIN events : from <= events[i].ts /\ events[i].ts <= to}

-----------------------------------------------------------------------------
(* MacroEngine; its clock counts half minutes *)

\* calc_objective_score, for an objective that is available.
Score(objective, t) ==
    CASE objective = "TOWER" -> 300
      [] objective = "DRAGON" -> IF t >= 50 THEN 375 ELSE 250
      [] objective = "BARON" -> IF t >= 40 THEN 960 ELSE 800
      [] objective = "HERALD" -> 400

\* _get_available_objectives: Baron from 20:00, the herald until 14:00.
Available(t) ==
    {"TOWER", "DRAGON"} \cup (IF t >= 40 THEN {"BARON"} ELSE {})
                        \cup (IF t <= 28 THEN {"HERALD"} ELSE {})

\* The best of them; no two have the same score.
Recommended(t) ==
    CHOOSE o \in Available(t) : \A p \in Available(t) : Score(p, t) <= Score(o, t)

\* Variant of ObjectiveOf: the name of the herald is taken as it is.
ObjectiveOf_Raw(type) ==
    CASE type = "BUILDING" -> "TOWER" [] type = "BARON_NASHOR" -> "BARON"
      [] OTHER -> type

\* Events and objectives do not have the same names.
ObjectiveOf(type) ==
    CASE type = "BUILDING" -> "TOWER" [] type = "BARON_NASHOR" -> "BARON"
      [] type = "RIFTHERALD" -> "HERALD" [] OTHER -> type

\* _get_actual_action: the first objective, of either side, that falls within
\* half a minute; events are [type, ts], in order. "none" without one.
Actual(events, t) ==
    LET taken == {i \in EventsIn(events, t, t + 1) :
                    events[i].type \in {"BUILDING", "DRAGON", "BARON_NASHOR",
                                        "RIFTHERALD"}}
    IN IF taken = {} THEN "none" ELSE ObjectiveOf(events[Least(taken)].type)

\* _decide_post_kill_action
Suboptimal(events, t) == Actual(events, t) \notin {"none", Recommended(t)}

-----------------------------------------------------------------------------
(* IntentEngine *)

\* Variant of ClassifyIntent: a player who has moved far is not attacking.
ClassifyIntent_RoamFirst(csGain, moved, near) ==
    IF moved > 5000 THEN "ROAM"
    ELSE IF near < 2000 THEN "KILL_ATTEMPT"
    ELSE IF csGain >= 3 THEN "FARM"
    ELSE "UNCLEAR"

\* _classify_intent, with the distances moved and to the nearest enemy.
ClassifyIntent(csGain, moved, near) ==
    IF near < 2000 THEN "KILL_ATTEMPT"
    ELSE IF moved > 5000 THEN "ROAM"
    ELSE IF csGain >= 3 THEN "FARM"
    ELSE "UNCLEAR"

\* _evaluate_intent
Evaluation(phase, intent) ==
    IF \/ phase \in {"AHEAD", "SNOWBALL"} /\ intent = "FARM"
       \/ phase \in {"BEHIND", "COMEBACK"} /\ intent = "KILL_ATTEMPT"
    THEN "WRONG_INTENT" ELSE "CORRECT"

\* _infer_from_events, without snapshots: the first kill or recall of the
\* player since the last scan, both ends included.
IntentFromEvents(events, interval, t) ==
    LET mine == {i \in EventsIn(events, t - interval, t) : events[i].mine}
        telling == {i \in mine : events[i].type \in {"KILL", "RECALL"}}
    IN IF mine = {} THEN "none"
       ELSE IF telling = {} THEN "UNCLEAR"
       ELSE events[Least(telling)].type

\* _analyze without snapshots: the intent of each scan.
IntentMap(events, interval, end) ==
    [t \in Samples(interval, end, end) |-> IntentFromEvents(events, interval, t)]
=============================================================================
