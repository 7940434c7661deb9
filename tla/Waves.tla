------------------------------- MODULE Waves -------------------------------
(***************************************************************************)
(* The wave state that WaveEngine derives from a snapshot, and the rating  *)
(* that TempoEngine gives a recall from it. A side is the minions of one   *)
(* team: how many are plain, how many cannon or super minions, and their   *)
(* average x in twentieths of the map (both thresholds are twentieths).    *)
(***************************************************************************)
EXTENDS Lookups

Teams == {"blue", "red"}
Other(team) == IF team = "blue" THEN "red" ELSE "blue"

Size(side) == side.plain + side.cannon
Dps(side) == 12 * side.plain + 35 * side.cannon

\* A time in seconds is a fraction, for no division to lose anything.
Seconds(n) == [num |-> n, den |-> 1]

\* estimate_crash_time: the sooner of the two sides is killed by the other.
CrashTime(mine, theirs) ==
    LET killTheirs == [num |-> 400 * Size(theirs), den |-> Dps(mine)]
        killMine == [num |-> 400 * Size(mine), den |-> Dps(theirs)]
    IN IF Size(mine) = 0 \/ Size(theirs) = 0 THEN Seconds(30)
       ELSE IF killTheirs.num * killMine.den <= killMine.num * killTheirs.den
            THEN killTheirs ELSE killMine

\* int(6.0 * (1 + m / 6)): the quotient is rounded down below these sizes, and
\* the conversion drops the rest. Exact up to 60 minions.
RoundedDown == {8, 19, 22, 44, 47}
CsPerWave(m) == IF m \in RoundedDown THEN 5 + m ELSE 6 + m

\* estimate_cs_loss_on_recall, without time spent before the recall.
CsLoss(crash, size) ==
    IF crash.num > 8 * crash.den THEN 0
    ELSE (1 + (8 * crash.den - crash.num) \div (30 * crash.den)) * CsPerWave(size)

\* Variant of WavePosition: the red side is not turned around.
WavePosition_SameSide(side, team) == IF Size(side) = 0 THEN 10 ELSE side.x

\* _calc_wave_position: 0 at one's own tower, 20 at the enemy's.
WavePosition(side, team) ==
    IF Size(side) = 0 THEN 10
    ELSE IF team = "red" THEN 20 - side.x ELSE side.x

\* Variant of ClassifyWave: the thresholds of the two sides differ by one.
ClassifyWave_Loose(advantage, pos) ==
    IF pos >= 14 THEN "CRASHING"
    ELSE IF advantage >= 4 THEN "FAST_PUSH"
    ELSE IF advantage >= -2 THEN "SLOW_PUSH"
    ELSE IF advantage <= -4 THEN "LOSING_WAVE"
    ELSE "EVEN"

\* _classify_wave
ClassifyWave(advantage, pos) ==
    IF pos >= 14 THEN "CRASHING"
    ELSE IF advantage >= 4 THEN "FAST_PUSH"
    ELSE IF advantage >= 2 THEN "SLOW_PUSH"
    ELSE IF advantage <= -4 THEN "LOSING_WAVE"
    ELSE IF advantage <= -2 /\ pos <= 7 THEN "FREEZE"
    ELSE "EVEN"

\* _calc_fight_risk, in hundredths
FightRisk(state) ==
    CASE state = "LOSING_WAVE" -> 150
      [] state = "FREEZE" -> 140
      [] state = "CRASHING" -> 90
      [] state = "FAST_PUSH" -> 95
      [] OTHER -> 100

DefaultWave ==
    [state |-> "EVEN", mine |-> 0, theirs |-> 0, pos |-> 10,
     crash |-> Seconds(30), csLoss |-> 0, risk |-> 100]

\* detect_wave_state, for a player of a team; a player that the snapshot does
\* not have gets the default.
DetectWave(snap, team) ==
    IF team \notin Teams THEN DefaultWave ELSE
    LET mine == snap[team]
        theirs == snap[Other(team)]
        pos == WavePosition(mine, team)
        crash == CrashTime(mine, theirs)
        state == ClassifyWave(Size(mine) - Size(theirs), pos)
    IN [state |-> state, mine |-> Size(mine), theirs |-> Size(theirs),
        pos |-> pos, crash |-> crash, csLoss |-> CsLoss(crash, Size(mine)),
        risk |-> FightRisk(state)]

\* The sample that a recall at time t is rated by (tempo_engine.py:76-78).
SampleOf(t, interval, end, cap) == Nearest(t, Samples(interval, end, cap))

\* Variant of RecallRating: a lost wave counts only from two waves on.
RecallRating_Lenient(hp, fought, csLoss) ==
    IF hp < 2 THEN "OPTIMAL"
    ELSE IF fought THEN "DANGEROUS"
    ELSE IF csLoss > 12 THEN "WASTEFUL"
    ELSE "GOOD"

\* _rate_recall, with the player's health in tenths; csLoss is that of the
\* nearest sample, 0 without one.
RecallRating(hp, fought, csLoss) ==
    IF hp < 2 THEN "OPTIMAL"
    ELSE IF fought THEN "DANGEROUS"
    ELSE IF csLoss > 12 THEN "WASTEFUL"
    ELSE IF hp < 5 \/ csLoss <= 6 THEN "GOOD"
    ELSE "WASTEFUL"
=============================================================================
