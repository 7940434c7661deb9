-------------------------- MODULE EngineProperties --------------------------
(***************************************************************************)
(* What the answers of the engines' functions have to satisfy, mostly by   *)
(* comparing them with the answers to other questions.                     *)
(***************************************************************************)
EXTENDS EngineCalls

Answered(op) == answer # <<>> /\ call.op = op
Result == answer[1]

(* Lookups *)

\* The two ways to look something up find the same entry, in any timeline: the
\* binary search (utils.py:27) and the minimum of distances (tempo_engine.py:77,
\* intent_engine.py:167), ties included.
LookupsAgree == Answered("lookup") => Result = Nearest(call.at, call.keys)

\* What is looked up among samples is at most half an interval away from the
\* sample that is used, as long as the samples last: a recall is rated by the
\* wave of its time (tempo_engine.py:77), an intent by the state of its minute
\* (intent_engine.py:167). Past the cap of 360 samples it is not.
SamplesAreNear ==
    /\ Answered("sample")
    /\ call.interval <= 2 * call.at
    /\ call.at <= call.cap * call.interval
    /\ call.at <= (call.end \div call.interval) * call.interval
    => 2 * Distance(Result, call.at) <= call.interval

\* A timeline that the validator accepts (validator.py:54-65) has a snapshot
\* within half the largest gap of any time between its first and its last.
ValidMeansCovered ==
    Answered("validate") /\ Result /\ DOMAIN call.snaps # {} =>
        LET keys == DOMAIN call.snaps
        IN \A t \in Least(keys) .. Greatest(keys) :
              2 * Distance(SnapshotAt(t, keys), t) <= MaxGap

\* In such a timeline a fight is simulated from a snapshot that is not later
\* than its kill (combat_engine.py:66): the gap, 10 s, is twice the lookback.
FightsAreSeenBefore ==
    /\ Answered("seen")
    /\ GapsAreSmall(call.keys, 2 * call.lookback)
    /\ \E k \in call.keys : k <= call.ts
    => Result <= call.ts

(* Waves *)

\* The map without its colours: red and blue change places.
Mirror(snap) ==
    [blue |-> [snap.red EXCEPT !.x = 20 - @], red |-> [snap.blue EXCEPT !.x = 20 - @]]

\* The two teams are treated alike (wave_engine.py:173-200): on the mirrored
\* map the player of the other colour has the same wave state.
WavesAreMirrored ==
    Answered("wave") /\ call.team \in Teams =>
        DetectWave(Mirror(call.snap), Other(call.team)) = Result

\* Two opponents see the same wave (wave_engine.py:203-215, utils.py:140-172):
\* the same time until it crashes; not both push it; who loses it or is frozen
\* out of it faces a team that pushes, or crashes it.
OpponentsAgree ==
    Answered("wave") /\ call.team \in Teams =>
        LET theirs == DetectWave(call.snap, Other(call.team))
            pushing == {"FAST_PUSH", "SLOW_PUSH"}
        IN /\ Result.crash.num * theirs.crash.den = theirs.crash.num * Result.crash.den
           /\ Result.state \in pushing => theirs.state \notin pushing
           /\ Result.state = "LOSING_WAVE" => theirs.state \in {"FAST_PUSH", "CRASHING"}
           /\ Result.state = "FREEZE" => theirs.state \in pushing \cup {"CRASHING"}

\* A healthy player who did not just fight wastes a recall if and only if a
\* wave crashes before the recall is over (tempo_engine.py:83-91, utils.py:185).
WastefulIffWaveLost ==
    Answered("recall") /\ call.hp >= 5 /\ ~call.fought =>
        LET crash == CrashTime(call.snap.blue, call.snap.red)
        IN (Result = "WASTEFUL") = (crash.num <= 8 * crash.den)

(* Fights *)

\* Without minions a fight goes to the one who needs less time, within ten
\* seconds, although the simulator first guesses how long it lasts from the
\* damage of both (fight_simulator.py:133-147): I kill the enemy if it would be
\* dead in time and not later than I; otherwise, or if it was dead before and I
\* do no damage, I live if I would be alive then.
DuelGoesToTheFaster ==
    /\ Answered("fight") /\ call.minions = 0
    /\ TotalDps(call.me, call.enemy) > 0
    => LET q == Guards(call.me, call.enemy)
           mine == MyDps(call.me, call.enemy)
           theirs == EnemyDps(call.me, call.enemy)
       IN /\ Result.kill = /\ call.enemy.hp * q <= MaxSeconds * mine
                           /\ call.enemy.hp * theirs <= call.me.hp * mine
          /\ Result.survive =
                IF Result.kill /\ mine > 0 THEN call.enemy.hp * theirs < call.me.hp * mine
                ELSE MaxSeconds * theirs < call.me.hp * q

\* One more enemy minion never improves the outcome (fight_simulator.py:83-94).
MinionsNeverHelp ==
    Answered("fight") =>
        NoBetter(Fight(call.me, call.enemy, call.minions + 1, MaxHp), Result)

\* Both.
FightsAreDecided == DuelGoesToTheFaster /\ MinionsNeverHelp

\* Verdicts and kill windows tell the same (combat_engine.py:73-81): a verdict
\* that can kill has a window; a window whose verdict cannot belongs to a fight
\* that another of the same millisecond has replaced.
WindowsHaveVerdicts ==
    Answered("combat") =>
        /\ \A ts \in DOMAIN Result.verdicts :
              Result.verdicts[ts] => \E i \in Result.windows : call.kills[i].ts = ts
        /\ \A i \in Result.windows :
              \/ Result.verdicts[call.kills[i].ts]
              \/ \E j \in Fought(call.kills, "me") :
                    j > i /\ call.kills[j].ts = call.kills[i].ts

(* The game *)

\* Two engines keep lists of archetypes and agree (composition_engine.py:153,
\* game_state_engine.py:229-232): who is strong late is the one who scales.
ScalingMatchesPhases ==
    Answered("composition") =>
        /\ Result.advantage.late = "PLAYER" => Result.scaling = "PLAYER_SCALING"
        /\ Result.advantage.early = "PLAYER" => Result.scaling = "ENEMY_SCALING"

PhaseRank ==
    [COMEBACK |-> 0, BEHIND |-> 1, EVEN |-> 2, AHEAD |-> 3, SNOWBALL |-> 4]

\* A larger lead never makes the phase worse, and the phase is the opposite one
\* for the other team (game_state_engine.py:206-220). COMEBACK is the largest
\* deficit and nothing else: no code looks for the recovery that line 22 mentions.
LeadsNeverHurt ==
    Answered("phase") =>
        LET Ranked(g, k, w) == PhaseRank[PhaseOf(g, k, w)]
            rank == PhaseRank[Result]
        IN /\ rank <= Ranked(call.gold + 1, call.kills, call.towers)
           /\ rank <= Ranked(call.gold, call.kills + 1, call.towers)
           /\ rank <= Ranked(call.gold, call.kills, call.towers + 1)
           /\ rank = 4 - Ranked(-call.gold, -call.kills, -call.towers)

\* The event of an objective.
EventOf ==
    [TOWER |-> "BUILDING", BARON |-> "BARON_NASHOR", HERALD |-> "RIFTHERALD",
     DRAGON |-> "DRAGON"]

\* A player is blamed after a kill only if another objective than the
\* recommended one fell, and what is recommended is on the map
\* (macro_engine.py:79-82,100-107; the names of line 123).
RecommendedIsNotBlamed ==
    Answered("macro") =>
        /\ Result.suboptimal =>
              \E i \in EventsIn(call.events, call.at, call.at + 1) :
                  call.events[i].type \notin {EventOf[Result.recommended], "HORDE"}
        /\ Result.recommended =
              IF call.at >= 40 THEN "BARON" ELSE IF call.at <= 28 THEN "HERALD" ELSE "TOWER"

\* Without snapshots a kill of the player, up to the last scan, is an attempt
\* to kill unless the player recalled before it in the same scan; and no other
\* scan is one (intent_engine.py:123-159).
OwnKillsAreSeen ==
    Answered("intents") =>
        LET Mine(type, t) == {i \in EventsIn(call.events, t - call.interval, t) :
                                 call.events[i].mine /\ call.events[i].type = type}
            scans == DOMAIN Result
        IN /\ \A i \in DOMAIN call.events :
                 call.events[i].mine /\ call.events[i].type = "KILL" =>
                     \A t \in scans :
                         i \in Mine("KILL", t) =>
                             \/ Result[t] = "KILL"
                             \/ Result[t] = "RECALL" /\ \E j \in Mine("RECALL", t) : j < i
           /\ \A i \in DOMAIN call.events :
                 (\E t \in scans : call.events[i].ts <= t) =>
                     \E t \in scans : i \in EventsIn(call.events, t - call.interval, t)
           /\ \A t \in scans : Result[t] = "KILL" => Mine("KILL", t) # {}

(* Warnings and the player's model *)

\* A gank that counts as a mistake of position, and an enemy who can be killed,
\* are taken for the player's attempt to kill (predictive_engine.py:114,148,155;
\* intent_engine.py:192), but for an enemy who is exactly 2000 units away: the
\* warning includes that distance, the intent does not, although line 27 there
\* says "within 2000".
DangerIsTakenForAttack ==
    Answered("scan") =>
        \/ Result.intent = "KILL_ATTEMPT"
        \/ /\ Result.gank.severity \notin {"HIGH", "CRITICAL"}
           /\ Result.window.type = "KILL_WINDOW" =>
                 \E i \in DOMAIN call.players : call.players[i].dist = 2000

\* Baron is announced once at 20:00 and once in every five minutes after it
\* (predictive_engine.py:167-183).
OneBaronWindowPerPeriod ==
    Answered("baron") =>
        /\ Cardinality(Result) =
              IF call.end < 40 THEN 0 ELSE (call.end - 40) \div 10 + 1
        /\ call.end >= 40 => 40 \in Result
        /\ \A s, t \in Result : s < t => t - s >= 10

FrequencyOf(patterns, type) ==
    LET known == {i \in DOMAIN patterns : patterns[i].type = type}
    IN IF known = {} THEN 0 ELSE patterns[CHOOSE i \in known : TRUE].freq

\* A game raises the frequency of the mistakes made in it and lowers that of
\* the others, and does not let a mistake overtake one that was at least as
\* frequent before and as often made now (player_model_engine.py:80-105). The
\* first task of a model without a past is what was done wrong most often.
MistakesMoveFrequencies ==
    Answered("model") =>
        LET Old(type) == FrequencyOf(call.existing, type)
            New(type) == FrequencyOf(Result.patterns, type)
            Made(type) == Times(Result.mistakes, type)
            types == {Result.patterns[i].type : i \in DOMAIN Result.patterns}
        IN /\ \A a \in types :
                 /\ New(a) \in 0 .. One
                 /\ Made(a) > 0 /\ Old(a) < One => New(a) > Old(a)
                 /\ Made(a) = 0 /\ Old(a) > 0 => New(a) < Old(a)
                 /\ \A b \in types :
                       Old(b) <= Old(a) /\ Made(b) <= Made(a) => New(b) <= New(a)
           /\ call.existing = <<>> /\ types # {} =>
                 \A b \in types : Made(b) <= Made(Result.tasks[1].type)

\* Every ward helps the team that has set it (vision_engine.py:76-118): with one
\* more of its own a team sees at least as much, and dominates at least as much.
OwnWardsOnlyHelp ==
    Answered("vision") =>
        \A p \in Points :
            LET Rated(mine, theirs) == VisionOf(call.prospect.at, mine, theirs, call.pos,
                                                call.prospect.events)
                more == Rated(Append(call.mine, p), call.theirs)
                less == Rated(call.mine, Append(call.theirs, p))
                AtMost(a, b) == a.num * b.den <= b.num * a.den
            IN /\ Result.visible => more.visible
               /\ Result.ready => more.ready
               /\ more.unwarded \subseteq Result.unwarded
               /\ Result.broken => less.broken
               /\ AtMost(Result.dominance, more.dominance)
               /\ AtMost(less.dominance, Result.dominance)

\* What can be decompressed with a named algorithm is found automatically, but
\* for raw deflate data that begins like zstd (chunk_decoder.py:51-62).
AutoDecodes ==
    /\ Answered("chunk") /\ Result = "data"
    /\ ~(call.form = "raw" /\ call.magic = "zstd")
    => Decompress(call, "auto", call.hasZstd) = "data"
=============================================================================
