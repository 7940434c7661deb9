------------------------------- MODULE Fights -------------------------------
(***************************************************************************)
(* The fight simulator, and CombatEngine which simulates the fights that   *)
(* the player was part of. A fighter is [hp, power, guard]: power is       *)
(* attack damage times attack speed, guard is 1 + armor / 100 without      *)
(* penetration, so that power / guard is damage per second. The unit of    *)
(* damage is what a caster minion does in a second to no armor, 8. All     *)
(* divisions are kept as fractions.                                        *)
(***************************************************************************)
EXTENDS Lookups, Sequences

MaxSeconds == 10

\* Damage per second of either side and of the enemy's minions, times both
\* guards.
Guards(me, enemy) == me.guard * enemy.guard
MyDps(me, enemy) == me.power * me.guard
EnemyDps(me, enemy) == enemy.power * enemy.guard
WaveDps(minions, enemy) == minions * enemy.guard

\* _estimate_fight_duration, in seconds times TotalDps. It does not know of the
\* minions.
TotalDps(me, enemy) == MyDps(me, enemy) + EnemyDps(me, enemy)
FightTime(me, enemy) ==
    LET all == (me.hp + enemy.hp) * Guards(me, enemy)
        cap == MaxSeconds * TotalDps(me, enemy)
    IN IF all < cap THEN all ELSE cap

\* Variant of EnemyLeft: the fight is as long as it takes the enemy to win.
EnemyLeft_OtherDps(me, enemy) ==
    enemy.hp * Guards(me, enemy) * TotalDps(me, enemy)
        - EnemyDps(me, enemy) * FightTime(me, enemy)

\* Health left to the enemy, before it is cut at 0, times Guards * TotalDps.
EnemyLeft(me, enemy) ==
    enemy.hp * Guards(me, enemy) * TotalDps(me, enemy)
        - MyDps(me, enemy) * FightTime(me, enemy)

\* The enemy hurts me until it dies or time is up. Scaled, if I kill it, by my
\* damage too.
Wins(me, enemy) == MyDps(me, enemy) > 0 /\ EnemyLeft(me, enemy) <= 0
Scale(me, enemy) == IF Wins(me, enemy) THEN MyDps(me, enemy) ELSE 1
EnemyHurt(me, enemy) ==
    EnemyDps(me, enemy) *
        IF Wins(me, enemy)
        THEN enemy.hp * Guards(me, enemy) * TotalDps(me, enemy)
        ELSE FightTime(me, enemy)

\* calc_minion_damage: minions do not stop when the enemy dies.
MinionHurt(me, enemy, minions) ==
    WaveDps(minions, enemy) * FightTime(me, enemy) * Scale(me, enemy)

\* Health left to me, before it is cut at 0.
MyLeft(me, enemy, minions) ==
    LET unit == Guards(me, enemy) * TotalDps(me, enemy) * Scale(me, enemy)
    IN [num |-> me.hp * unit - EnemyHurt(me, enemy)
                - MinionHurt(me, enemy, minions),
        den |-> unit]

\* A fraction cut at 0, as a share of the maximal health.
Share(left, maxHp) ==
    [num |-> IF left.num < 0 THEN 0 ELSE left.num, den |-> left.den * maxHp]

\* _determine_verdict
Verdict(mine, theirs) ==
    IF theirs.num <= 0
    THEN IF 2 * mine.num >= mine.den THEN "GREEN"
         ELSE IF 5 * mine.num >= mine.den THEN "YELLOW" ELSE "ORANGE"
    ELSE IF mine.num <= 0 THEN "RED"
    ELSE IF 10 * mine.num * theirs.den
                > 10 * theirs.num * mine.den + 3 * mine.den * theirs.den
         THEN "GREEN"
    ELSE IF mine.num * theirs.den > theirs.num * mine.den THEN "YELLOW"
    ELSE "ORANGE"

\* simulate_full_fight, for fighters of the same maximal health. Two fighters
\* who do no damage do not fight.
Fight(me, enemy, minions, maxHp) ==
    IF TotalDps(me, enemy) = 0
    THEN [kill |-> FALSE, survive |-> TRUE, verdict |-> "YELLOW"]
    ELSE LET mine == Share(MyLeft(me, enemy, minions), maxHp)
             theirs == Share([num |-> EnemyLeft(me, enemy),
                              den |-> Guards(me, enemy) * TotalDps(me, enemy)],
                             maxHp)
         IN [kill |-> theirs.num <= 0, survive |-> mine.num > 0,
             verdict |-> Verdict(mine, theirs)]

\* The order of verdicts, and of outcomes.
Rank == [RED |-> 0, ORANGE |-> 1, YELLOW |-> 2, GREEN |-> 3]
NoBetter(f, g) ==
    /\ f.kill => g.kill
    /\ f.survive => g.survive
    /\ Rank[f.verdict] <= Rank[g.verdict]

-----------------------------------------------------------------------------
(* CombatEngine *)

\* A kill is [ts, killer, victim]. _analyze looks at those the player was in,
Fought(kills, player) ==
    {i \in DOMAIN kills : player \in {kills[i].killer, kills[i].victim}}

Opponent(kill, player) == IF kill.killer = player THEN kill.victim ELSE kill.killer

\* Variant of SeenAt: the snapshot is the one nearest to the kill.
SeenAt_Kill(ts, lookback, keys) == SnapshotAt(ts, keys)

\* in the snapshot nearest to some time before the kill,
SeenAt(ts, lookback, keys) ==
    SnapshotAt(IF ts < lookback THEN 0 ELSE ts - lookback, keys)

\* Variant of FightVerdicts: a fight that is there already stays.
FightVerdicts_KeepFirst(kills, player, kill) ==
    LET fought == Fought(kills, player)
    IN [ts \in {kills[i].ts : i \in fought} |->
          kill[CHOOSE i \in fought : kills[i].ts = ts /\
                 \A j \in fought : kills[j].ts = ts => i <= j]]

\* and keeps, by the time of the kill, the outcome of the last simulation; kill
\* is can_kill of each fight.
FightVerdicts(kills, player, kill) ==
    LET fought == Fought(kills, player)
    IN [ts \in {kills[i].ts : i \in fought} |->
          kill[CHOOSE i \in fought : kills[i].ts = ts /\
                 \A j \in fought : kills[j].ts = ts => j <= i]]

\* The fights that become a kill window.
KillWindows(kills, player, kill) == {i \in Fought(kills, player) : kill[i]}
=============================================================================
