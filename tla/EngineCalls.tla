---------------------------- MODULE EngineCalls ----------------------------
(***************************************************************************)
(* The functions of the analysis engines, called with any input of the     *)
(* sets that are the constants of this module. A behaviour is one call:    *)
(* the input is chosen, then the engine answers.                           *)
(***************************************************************************)
EXTENDS Waves, Fights, Assessments, Warnings, Vision, Validation

CONSTANTS
    Instants,    \* times, in units that depend on the call
    Clocks,      \* times of a game, in half minutes
    Sides,       \* the minions of a team
    Fighters,    \* fighters, and the maximal health of all of them
    MaxHp,
    MaxMinions,  \* the most enemy minions around a fight
    KillLists,   \* sequences of kills
    Crews,       \* compositions: sequences of archetypes
    Golds,       \* leads in gold, and in kills or towers
    Leads,
    ObjectiveEvents,  \* sequences of objective events around a kill
    PlayerEvents,     \* sequences of kills, recalls and purchases
    Encounters,  \* sequences of the champions of a snapshot
    Progress,    \* what a player made of the last minute, and the phase
    Models,      \* the frequencies of mistakes that a player's model knows
    MaxMade,     \* bound on the decisions, and on the warnings, of one game
    Points,      \* positions of players and wards
    WardLists,   \* the wards of a team
    Prospects,   \* a time, and the events of the game
    SnapTimes,   \* times of the snapshots that are validated
    EventTimes,  \* times of the events that are validated
    MaxGap       \* the gap between snapshots that the validator accepts

ObjectiveEvent ==
    [type : {"BUILDING", "DRAGON", "BARON_NASHOR", "RIFTHERALD", "HORDE"}, ts : Nat]

ASSUME EngineConstants ==
    /\ Instants \subseteq Nat
    /\ Sides \subseteq [plain : Nat, cannon : Nat, x : 0 .. 20]
    /\ MaxHp \in Nat \ {0}
    /\ Fighters \subseteq [hp : 0 .. MaxHp, power : Nat, guard : Nat \ {0}]
    /\ Crews \subseteq Seq(Archetypes)
    /\ Golds \subseteq Int /\ Leads \subseteq Int
    /\ Clocks \subseteq Nat
    /\ MaxMinions \in Nat
    /\ KillLists \subseteq
          Seq([ts : Nat, killer : {"me", "foe"}, victim : {"me", "foe", "other"}])
    /\ ObjectiveEvents \subseteq Seq(ObjectiveEvent)
    /\ PlayerEvents \subseteq
          Seq([type : {"KILL", "RECALL", "ITEM"}, ts : Nat, mine : BOOLEAN])
    /\ Encounters \subseteq
          Seq([enemy : BOOLEAN, jungle : BOOLEAN, dist : Nat, hp : 0 .. 10])
    /\ Progress \subseteq
          [phase : {"AHEAD", "EVEN", "BEHIND"}, csGain : Nat, moved : Nat]
    /\ Models \subseteq Seq([type : MistakeTypes, freq : 0 .. One])
    /\ \A m \in Models : \A i, j \in DOMAIN m : m[i].type = m[j].type => i = j
    /\ MaxMade \in Nat /\ One \in Nat
    \* The units are fine enough to tell the mistakes of a game apart.
    /\ Remaining(One, 2 * MaxMade) > 0
    /\ Points \subseteq [x : Nat, y : Nat]
    /\ WardLists \subseteq Seq(Points)
    /\ Prospects \subseteq [at : Nat, events : Seq(ObjectiveEvent)]
    /\ SnapTimes \subseteq Nat
    /\ SnapTimes # {} => \E last \in SnapTimes : \A t \in SnapTimes : t <= last
    /\ EventTimes \subseteq Seq(Nat)
    /\ MaxGap \in Nat

VARIABLES
    call,     \* the function and its input
    answer    \* <<>>, or its result as a sequence of one

engineVars == <<call, answer>>

Upto(n, S) == UNION {[1 .. k -> S] : k \in 0 .. n}
InOrder(s) == \A i, j \in DOMAIN s : i <= j => s[i].ts <= s[j].ts

-----------------------------------------------------------------------------
(* The inputs of each function *)

LookupCalls ==
    [op : {"lookup"}, keys : (SUBSET Instants) \ {{}}, at : Instants]
SampleCalls ==
    {c \in [op : {"sample"}, interval : Instants, end : Instants, cap : Instants,
            at : Instants] :
        c.cap > 0 /\ 0 < c.interval /\ c.interval <= c.end}
SnapshotCalls == [blue : Sides, red : Sides]
WaveCalls ==
    [op : {"wave"}, snap : SnapshotCalls, team : Teams \cup {"none"}]
RecallCalls ==
    [op : {"recall"}, snap : SnapshotCalls, hp : 0 .. 10, fought : BOOLEAN]
FightCalls ==
    [op : {"fight"}, me : Fighters, enemy : Fighters, minions : 0 .. MaxMinions]
CombatCalls ==
    UNION {[op : {"combat"}, kills : {kills}, kill : [DOMAIN kills -> BOOLEAN]] :
              kills \in KillLists}
SeenCalls ==
    {c \in [op : {"seen"}, ts : Instants, lookback : Instants,
            keys : (SUBSET Instants) \ {{}}] : c.lookback > 0}
CompositionCalls ==
    [op : {"composition"}, my : Crews, enemy : Crews, late : BOOLEAN]
PhaseCalls == [op : {"phase"}, gold : Golds, kills : Leads, towers : Leads]
MacroCalls ==
    [op : {"macro"}, events : ObjectiveEvents, at : Clocks]
IntentCalls ==
    [op : {"intents"}, events : PlayerEvents \ {<<>>}, interval : Instants \ {0}]
ScanCalls ==
    [op : {"scan"}, players : Encounters, progress : Progress]
BaronCalls == [op : {"baron"}, end : Clocks]
ModelCalls ==
    [op : {"model"}, existing : Models, suboptimal : Upto(MaxMade, BOOLEAN),
     severities : Upto(MaxMade, {"MEDIUM", "HIGH", "CRITICAL"})]
VisionCalls ==
    [op : {"vision"}, mine : WardLists, theirs : WardLists, pos : Points,
     prospect : Prospects]
ValidatorCalls ==
    [op : {"validate"}, times : EventTimes, quality : {"FULL", "FALLBACK"},
     snaps : UNION {[keys -> [players : {0, 5, 10}, offMap : {0, 1}]] :
                      keys \in SUBSET SnapTimes}]
ChunkCalls ==
    [op : {"chunk"}, form : {"zstd", "zlib", "raw", "bad"},
     magic : {"zstd", "zlib", "other"}, algorithm : {"auto", "zstd", "zlib", "lz4"},
     hasZstd : BOOLEAN]

\* Compressed data begins with the magic of its algorithm, raw data with any.
ChunkExists(c) == c.form \in {"zstd", "zlib"} => c.magic = c.form

EngineInit ==
    /\ answer = <<>>
    /\ \/ call \in LookupCalls \/ call \in SampleCalls \/ call \in WaveCalls
       \/ call \in RecallCalls \/ call \in FightCalls \/ call \in CombatCalls
       \/ call \in SeenCalls \/ call \in CompositionCalls \/ call \in PhaseCalls
       \/ call \in MacroCalls \/ call \in IntentCalls \/ call \in ScanCalls
       \/ call \in BaronCalls \/ call \in ModelCalls \/ call \in VisionCalls
       \/ call \in ValidatorCalls
       \/ call \in ChunkCalls /\ ChunkExists(call)

\* No engine is called.
EnginesAreIdle == call = [op |-> "idle"] /\ answer = <<>>

-----------------------------------------------------------------------------
(* The functions *)

Answer(op, value) ==
    /\ call.op = op /\ answer = <<>>
    /\ answer' = <<value>>
    /\ UNCHANGED call

GetSnapshotAt == Answer("lookup", SnapshotAt(call.at, call.keys))

NearestSample ==
    Answer("sample", SampleOf(call.at, call.interval, call.end, call.cap))

DetectWaveState == Answer("wave", DetectWave(call.snap, call.team))

\* The recall of a player of the blue side, rated by the wave of its sample.
RateTheRecall ==
    Answer("recall", RecallRating(call.hp, call.fought,
                                  DetectWave(call.snap, "blue").csLoss))

SimulateFullFight ==
    Answer("fight", Fight(call.me, call.enemy, call.minions, MaxHp))

AnalyzeFights ==
    Answer("combat", [verdicts |-> FightVerdicts(call.kills, "me", call.kill),
                      windows |-> KillWindows(call.kills, "me", call.kill)])

SnapshotOfFight == Answer("seen", SeenAt(call.ts, call.lookback, call.keys))

AnalyzeComposition ==
    LET my == TeamArchetype(call.my)
        enemy == TeamArchetype(call.enemy)
    IN Answer("composition",
              [my |-> my, enemy |-> enemy, advantage |-> PhaseAdvantage(my, enemy),
               scaling |-> Scaling(my, call.late)])

ClassifyPhase == Answer("phase", PhaseOf(call.gold, call.kills, call.towers))

DecidePostKillAction ==
    Answer("macro", [recommended |-> Recommended(call.at),
                     actual |-> Actual(call.events, call.at),
                     suboptimal |-> Suboptimal(call.events, call.at)])

\* Without snapshots the game ends with its last event.
InferFromEvents ==
    Answer("intents", IntentMap(call.events, call.interval,
                                call.events[Len(call.events)].ts))

\* The nearest enemy of _infer_intent, far away without one.
Far == 1000000
NearestEnemy(players) ==
    LET near == {players[i].dist : i \in {j \in DOMAIN players : players[j].enemy}}
    IN IF near = {} THEN Far ELSE Least(near)

\* PredictiveEngine and IntentEngine scan the same snapshot.
ScanSnapshot ==
    LET did == call.progress
        intent == ClassifyIntent(did.csGain, did.moved, NearestEnemy(call.players))
    IN Answer("scan",
              [gank |-> GankRisk(call.players), window |-> KillWindow(call.players),
               intent |-> intent, evaluation |-> Evaluation(did.phase, intent)])

\* Scans every half minute, periods of five minutes, Baron after twenty.
PredictObjectiveWindows == Answer("baron", ObjectiveWindows(1, 10, 40, call.end))

UpdateModel ==
    LET mistakes == Mistakes(call.suboptimal, call.severities)
        patterns == Patterns(call.existing, mistakes)
    IN Answer("model", [mistakes |-> mistakes, patterns |-> patterns,
                        tasks |-> FocusTasks(patterns)])

CalcVisionDominance ==
    Answer("vision", VisionOf(call.prospect.at, call.mine, call.theirs, call.pos,
                              call.prospect.events))

Validate ==
    Answer("validate", Valid(call.times, call.snaps, call.quality, MaxGap))

DecompressChunk ==
    Answer("chunk", Decompress(call, call.algorithm, call.hasZstd))

EngineNext ==
    \/ GetSnapshotAt \/ NearestSample \/ DetectWaveState \/ RateTheRecall
    \/ SimulateFullFight \/ AnalyzeFights \/ SnapshotOfFight
    \/ AnalyzeComposition \/ ClassifyPhase \/ DecidePostKillAction
    \/ InferFromEvents \/ ScanSnapshot \/ PredictObjectiveWindows
    \/ UpdateModel \/ CalcVisionDominance \/ Validate \/ DecompressChunk

EngineSpec == EngineInit /\ [][EngineNext]_engineVars
=============================================================================
