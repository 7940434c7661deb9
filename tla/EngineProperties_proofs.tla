---------------------- MODULE EngineProperties_proofs ----------------------
(***************************************************************************)
(* Proofs about the engines' functions, for every value of the constants.  *)
(* A behaviour is one call and its answer, so that each invariant rests on *)
(* the same inductive one, AnswersTheCall, and on lemmas about the         *)
(* functions: they hold for any input, not only for those of the calls.    *)
(***************************************************************************)
EXTENDS EngineProperties, Extremes_proofs

-----------------------------------------------------------------------------
(* Lookups *)

\* The binary search finds an entry that no other is nearer than, and that is
\* the earliest of those.
LEMMA SnapshotIsNearest ==
    ASSUME NEW keys \in SUBSET Nat, keys # {}, NEW t \in Nat
    PROVE  /\ SnapshotAt(t, keys) \in keys
           /\ \A k \in keys :
                 /\ Distance(SnapshotAt(t, keys), t) <= Distance(k, t)
                 /\ Distance(SnapshotAt(t, keys), t) = Distance(k, t) =>
                       SnapshotAt(t, keys) <= k
<1> DEFINE before == {k \in keys : k < t}
           after == keys \ before
           first == Least(after)
           last == Greatest(before)
<1>1. before # {} => last \in before /\ \A k \in before : k <= last
  <2>1. ASSUME NEW y \in before PROVE y \in Nat /\ y <= t
    OBVIOUS
  <2> QED
    BY <2>1, GreatestExists
<1>2. after # {} => first \in after /\ \A k \in after : first <= k
  BY LeastExists
<1>3. /\ \A k \in before : k < t
      /\ \A k \in after : t <= k
  <2>1. \A k \in keys : k \in Nat
    OBVIOUS
  <2> QED
    BY <2>1
<1>4. before \in SUBSET Nat /\ after \in SUBSET Nat /\ keys = before \cup after
  OBVIOUS
<1>5. SnapshotAt(t, keys) =
        IF before = {} THEN first
        ELSE IF after = {} THEN last
        ELSE IF t - last <= first - t THEN last ELSE first
  BY DEF SnapshotAt
<1> HIDE DEF before, after, first, last
<1>6. CASE before = {}
  <2>1. SnapshotAt(t, keys) = first /\ first \in Nat /\ t <= first /\ first \in keys
    BY <1>2, <1>3, <1>4, <1>5, <1>6
  <2>2. \A k \in keys : k \in Nat /\ first <= k /\ t <= k
    BY <1>2, <1>3, <1>4, <1>6
  <2> QED
    BY <2>1, <2>2 DEF Distance
<1>7. CASE before # {} /\ after = {}
  <2>1. SnapshotAt(t, keys) = last /\ last \in Nat /\ last < t /\ last \in keys
    BY <1>1, <1>3, <1>4, <1>5, <1>7
  <2>2. \A k \in keys : k \in Nat /\ k <= last /\ k < t
    BY <1>1, <1>3, <1>4, <1>7
  <2> QED
    BY <2>1, <2>2 DEF Distance
<1>8. CASE before # {} /\ after # {}
  <2>1. /\ first \in Nat /\ t <= first /\ first \in keys
        /\ last \in Nat /\ last < t /\ last \in keys
    <3>1. first \in after /\ last \in before
      BY <1>1, <1>2, <1>8
    <3> QED
      BY <3>1, <1>3, <1>4
  <2>2. ASSUME NEW k \in keys
        PROVE  k \in Nat /\ ((k < t /\ k <= last) \/ (t <= k /\ first <= k))
    <3>1. k \in before \/ k \in after
      BY <1>4
    <3>2. (k \in before => k < t /\ k <= last) /\ (k \in after => t <= k /\ first <= k)
      BY <1>1, <1>2, <1>3, <1>8
    <3> QED
      BY <3>1, <3>2
  <2>3. SnapshotAt(t, keys) = IF t - last <= first - t THEN last ELSE first
    BY <1>5, <1>8
  <2> QED
    BY <2>1, <2>2, <2>3 DEF Distance
<1> QED
  BY <1>6, <1>7, <1>8

\* The minimum of distances finds the same entry.
LEMMA SnapshotIsNearestSample ==
    ASSUME NEW keys \in SUBSET Nat, keys # {}, NEW t \in Nat
    PROVE  SnapshotAt(t, keys) = Nearest(t, keys)
<1> DEFINE near == {k \in keys : \A l \in keys : Distance(k, t) <= Distance(l, t)}
<1>1. SnapshotAt(t, keys) \in near
  BY SnapshotIsNearest
<1>2. Least(near) \in near /\ Least(near) <= SnapshotAt(t, keys)
  BY <1>1, LeastExists
<1>3. Distance(Least(near), t) = Distance(SnapshotAt(t, keys), t)
  <2>1. /\ Distance(Least(near), t) <= Distance(SnapshotAt(t, keys), t)
        /\ Distance(SnapshotAt(t, keys), t) <= Distance(Least(near), t)
    BY <1>1, <1>2
  <2>2. Least(near) \in Nat /\ SnapshotAt(t, keys) \in Nat
    BY <1>1, <1>2
  <2> HIDE DEF near
  <2> QED
    BY <2>1, <2>2 DEF Distance
<1>4. SnapshotAt(t, keys) <= Least(near)
  BY <1>2, <1>3, SnapshotIsNearest
<1>5. Least(near) \in Nat /\ SnapshotAt(t, keys) \in Nat
  BY <1>1, <1>2
<1>6. SnapshotAt(t, keys) = Least(near)
  <2> HIDE DEF near
  <2> QED
    BY <1>2, <1>4, <1>5
<1> QED
  BY <1>6 DEF Nearest

\* If no gap is larger than twice the lookback, the snapshot nearest to the time
\* before a kill is not later than the kill.
LEMMA SnapshotBeforeKill ==
    ASSUME NEW keys \in SUBSET Nat, NEW ts \in Nat, NEW lookback \in Nat,
           lookback > 0, GapsAreSmall(keys, 2 * lookback),
           \E k \in keys : k <= ts
    PROVE  SeenAt(ts, lookback, keys) <= ts
<1> DEFINE t == IF ts < lookback THEN 0 ELSE ts - lookback
           found == SnapshotAt(t, keys)
<1>1. t \in Nat /\ keys # {}
  OBVIOUS
<1>2. /\ found \in keys
      /\ \A k \in keys : Distance(found, t) <= Distance(k, t)
                          /\ (Distance(found, t) = Distance(k, t) => found <= k)
  BY <1>1, SnapshotIsNearest
<1>3. found = SeenAt(ts, lookback, keys)
  BY DEF SeenAt
<1>4. PICK k \in keys : k <= ts /\ \A l \in keys : l <= ts => l <= k
  <2> DEFINE seen == {k \in keys : k <= ts}
  <2>1. seen \in SUBSET Nat /\ seen # {} /\ \A k \in seen : k <= ts
    OBVIOUS
  <2>2. Greatest(seen) \in seen /\ \A k \in seen : k <= Greatest(seen)
    BY <2>1, GreatestExists
  <2> QED
    BY <2>2
<1> found \in Nat /\ k \in Nat
  BY <1>2
<1>5. SUFFICES ASSUME found > ts PROVE FALSE
  <2> HIDE DEF found, t
  <2> QED
    BY <1>3
<1>6. PICK l \in keys : k < l /\ l <= k + 2 * lookback
  <2>1. ~(found <= k)
    <3> HIDE DEF found, t
    <3> QED
      BY <1>4, <1>5
  <2> QED
    BY <1>2, <2>1 DEF GapsAreSmall
<1>7. l > ts
  BY <1>4, <1>6
<1>8. /\ Distance(found, t) <= Distance(k, t)
      /\ Distance(found, t) = Distance(k, t) => found <= k
      /\ Distance(found, t) <= Distance(l, t)
      /\ found \in Nat /\ k \in Nat /\ l \in Nat
  BY <1>2
<1>9. CASE ts < lookback
  <2>1. t = 0
    BY <1>9
  <2> HIDE DEF t, found
  <2> QED
    BY <2>1, <1>4, <1>5, <1>8 DEF Distance
<1>10. CASE ts >= lookback
  <2>1. t = ts - lookback
    BY <1>10
  <2> HIDE DEF t, found
  <2> QED
    BY <2>1, <1>4, <1>5, <1>6, <1>7, <1>8, <1>10 DEF Distance
<1> QED
  BY <1>9, <1>10

\* If no gap is larger than gap, no time between the first and the last snapshot
\* is more than half of it away from the nearest one.
LEMMA SmallGapsCover ==
    ASSUME NEW keys \in SUBSET Nat, NEW t \in Nat, NEW gap \in Nat,
           GapsAreSmall(keys, gap),
           \E k \in keys : k <= t, \E k \in keys : t <= k
    PROVE  2 * Distance(SnapshotAt(t, keys), t) <= gap
<1> DEFINE found == SnapshotAt(t, keys)
<1>1. /\ found \in keys
      /\ \A k \in keys : Distance(found, t) <= Distance(k, t)
  BY SnapshotIsNearest
<1>2. PICK k \in keys : k <= t /\ \A l \in keys : l <= t => l <= k
  <2> DEFINE seen == {k \in keys : k <= t}
  <2>1. seen \in SUBSET Nat /\ seen # {} /\ \A k \in seen : k <= t
    OBVIOUS
  <2>2. Greatest(seen) \in seen /\ \A k \in seen : k <= Greatest(seen)
    BY <2>1, GreatestExists
  <2> QED
    BY <2>2
<1>3. \A l \in keys : l \in Nat
  OBVIOUS
<1>4. found \in Nat /\ k \in Nat /\ Distance(found, t) <= Distance(k, t)
  BY <1>1
<1> HIDE DEF found
<1>5. CASE \A l \in keys : l <= k
  <2>1. k = t
    <3>1. PICK l \in keys : t <= l
      OBVIOUS
    <3> QED
      BY <3>1, <1>2, <1>3, <1>5
  <2> QED
    BY <2>1, <1>4 DEF Distance, found
<1>6. CASE \E l \in keys : k < l /\ l <= k + gap
  <2>1. PICK l \in keys : k < l /\ l <= k + gap
    BY <1>6
  <2>2. l \in Nat /\ t < l /\ Distance(found, t) <= Distance(l, t)
    BY <2>1, <1>1, <1>2, <1>3
  <2>3. 2 * Distance(found, t) <= gap
    BY <2>1, <2>2, <1>2, <1>4 DEF Distance
  <2> QED
    BY <2>3 DEF found
<1> QED
  BY <1>5, <1>6 DEF GapsAreSmall

-----------------------------------------------------------------------------
(* Calls *)

\* The input of a call, and its answer, which is given once.
Answers(op, inputs, value) ==
    call.op = op => call \in inputs /\ answer \in {<<>>, <<value>>}

CombatAnswer ==
    [verdicts |-> FightVerdicts(call.kills, "me", call.kill),
     windows |-> KillWindows(call.kills, "me", call.kill)]
CompositionAnswer ==
    LET my == TeamArchetype(call.my)
        enemy == TeamArchetype(call.enemy)
    IN [my |-> my, enemy |-> enemy, advantage |-> PhaseAdvantage(my, enemy),
        scaling |-> Scaling(my, call.late)]
MacroAnswer ==
    [recommended |-> Recommended(call.at),
     actual |-> Actual(call.events, call.at),
     suboptimal |-> Suboptimal(call.events, call.at)]
ScanAnswer ==
    LET did == call.progress
        intent == ClassifyIntent(did.csGain, did.moved, NearestEnemy(call.players))
    IN [gank |-> GankRisk(call.players), window |-> KillWindow(call.players),
        intent |-> intent, evaluation |-> Evaluation(did.phase, intent)]
VisionAnswer ==
    VisionOf(call.prospect.at, call.mine, call.theirs, call.pos, call.prospect.events)
ModelAnswer ==
    LET mistakes == Mistakes(call.suboptimal, call.severities)
        patterns == Patterns(call.existing, mistakes)
    IN [mistakes |-> mistakes, patterns |-> patterns, tasks |-> FocusTasks(patterns)]

AnswersTheCall ==
    /\ Answers("lookup", LookupCalls, SnapshotAt(call.at, call.keys))
    /\ Answers("sample", SampleCalls, SampleOf(call.at, call.interval, call.end, call.cap))
    /\ Answers("wave", WaveCalls, DetectWave(call.snap, call.team))
    /\ Answers("recall", RecallCalls, RecallRating(call.hp, call.fought,
                             DetectWave(call.snap, "blue").csLoss))
    /\ Answers("combat", CombatCalls, CombatAnswer)
    /\ Answers("seen", SeenCalls, SeenAt(call.ts, call.lookback, call.keys))
    /\ Answers("composition", CompositionCalls, CompositionAnswer)
    /\ Answers("phase", PhaseCalls, PhaseOf(call.gold, call.kills, call.towers))
    /\ Answers("macro", MacroCalls, MacroAnswer)
    /\ Answers("scan", ScanCalls, ScanAnswer)
    /\ Answers("validate", ValidatorCalls,
                Valid(call.times, call.snaps, call.quality, MaxGap))
    /\ Answers("intents", IntentCalls, IntentMap(call.events, call.interval,
                             call.events[Len(call.events)].ts))
    /\ Answers("vision", VisionCalls, VisionAnswer)
    /\ Answers("model", ModelCalls, ModelAnswer)
    /\ Answers("baron", BaronCalls, ObjectiveWindows(1, 10, 40, call.end))
    /\ Answers("fight", FightCalls, Fight(call.me, call.enemy, call.minions, MaxHp))
    /\ Answers("chunk", {c \in ChunkCalls : ChunkExists(c)},
                Decompress(call, call.algorithm, call.hasZstd))

\* Calls of different functions have different inputs.
LEMMA CallsHaveOps ==
    /\ \A c \in LookupCalls : c.op = "lookup"
    /\ \A c \in SampleCalls : c.op = "sample"
    /\ \A c \in WaveCalls : c.op = "wave"
    /\ \A c \in RecallCalls : c.op = "recall"
    /\ \A c \in FightCalls : c.op = "fight"
    /\ \A c \in CombatCalls : c.op = "combat"
    /\ \A c \in SeenCalls : c.op = "seen"
    /\ \A c \in CompositionCalls : c.op = "composition"
    /\ \A c \in PhaseCalls : c.op = "phase"
    /\ \A c \in MacroCalls : c.op = "macro"
    /\ \A c \in IntentCalls : c.op = "intents"
    /\ \A c \in ScanCalls : c.op = "scan"
    /\ \A c \in BaronCalls : c.op = "baron"
    /\ \A c \in ModelCalls : c.op = "model"
    /\ \A c \in VisionCalls : c.op = "vision"
    /\ \A c \in ValidatorCalls : c.op = "validate"
    /\ \A c \in ChunkCalls : c.op = "chunk"
<1>1. \A c \in LookupCalls : c.op = "lookup"
  BY DEF LookupCalls
<1>2. \A c \in SampleCalls : c.op = "sample"
  BY DEF SampleCalls
<1>3. \A c \in WaveCalls : c.op = "wave"
  BY DEF WaveCalls
<1>4. \A c \in RecallCalls : c.op = "recall"
  BY DEF RecallCalls
<1>5. \A c \in FightCalls : c.op = "fight"
  BY DEF FightCalls
<1>6. \A c \in CombatCalls : c.op = "combat"
  BY DEF CombatCalls
<1>7. \A c \in SeenCalls : c.op = "seen"
  BY DEF SeenCalls
<1>8. \A c \in CompositionCalls : c.op = "composition"
  BY DEF CompositionCalls
<1>9. \A c \in PhaseCalls : c.op = "phase"
  BY DEF PhaseCalls
<1>10. \A c \in MacroCalls : c.op = "macro"
  BY DEF MacroCalls
<1>11. \A c \in IntentCalls : c.op = "intents"
  BY DEF IntentCalls
<1>12. \A c \in ScanCalls : c.op = "scan"
  BY DEF ScanCalls
<1>13. \A c \in BaronCalls : c.op = "baron"
  BY DEF BaronCalls
<1>14. \A c \in ModelCalls : c.op = "model"
  BY DEF ModelCalls
<1>15. \A c \in VisionCalls : c.op = "vision"
  BY DEF VisionCalls
<1>16. \A c \in ValidatorCalls : c.op = "validate"
  BY DEF ValidatorCalls
<1>17. \A c \in ChunkCalls : c.op = "chunk"
  BY DEF ChunkCalls
<1> QED
  BY <1>1, <1>2, <1>3, <1>4, <1>5, <1>6, <1>7, <1>8, <1>9,
     <1>10, <1>11, <1>12, <1>13, <1>14, <1>15, <1>16, <1>17

LEMMA AnswersInit == EngineInit => AnswersTheCall
<1> SUFFICES ASSUME EngineInit PROVE AnswersTheCall
  OBVIOUS
<1>1. answer = <<>>
  BY DEF EngineInit
<1>2. call.op = "lookup" => call \in LookupCalls
  BY CallsHaveOps DEF EngineInit
<1>3. call.op = "sample" => call \in SampleCalls
  BY CallsHaveOps DEF EngineInit
<1>4. call.op = "wave" => call \in WaveCalls
  BY CallsHaveOps DEF EngineInit
<1>5. call.op = "recall" => call \in RecallCalls
  BY CallsHaveOps DEF EngineInit
<1>6. call.op = "combat" => call \in CombatCalls
  BY CallsHaveOps DEF EngineInit
<1>7. call.op = "seen" => call \in SeenCalls
  BY CallsHaveOps DEF EngineInit
<1>8. call.op = "composition" => call \in CompositionCalls
  BY CallsHaveOps DEF EngineInit
<1>9. call.op = "phase" => call \in PhaseCalls
  BY CallsHaveOps DEF EngineInit
<1>10. call.op = "macro" => call \in MacroCalls
  BY CallsHaveOps DEF EngineInit
<1>11. call.op = "scan" => call \in ScanCalls
  BY CallsHaveOps DEF EngineInit
<1>12. call.op = "validate" => call \in ValidatorCalls
  BY CallsHaveOps DEF EngineInit
<1>13. call.op = "chunk" => call \in ChunkCalls /\ ChunkExists(call)
  BY CallsHaveOps DEF EngineInit
<1>14. call.op = "intents" => call \in IntentCalls
  BY CallsHaveOps DEF EngineInit
<1>15. call.op = "vision" => call \in VisionCalls
  BY CallsHaveOps DEF EngineInit
<1>16. call.op = "baron" => call \in BaronCalls
  BY CallsHaveOps DEF EngineInit
<1>17. call.op = "fight" => call \in FightCalls
  BY CallsHaveOps DEF EngineInit
<1>18. call.op = "model" => call \in ModelCalls
  BY CallsHaveOps DEF EngineInit
<1> QED
  BY <1>1, <1>2, <1>3, <1>4, <1>5, <1>6, <1>7, <1>8, <1>9, <1>10, <1>11, <1>12,
     <1>13, <1>14, <1>15, <1>16, <1>17, <1>18
  DEF AnswersTheCall, Answers

\* Every action answers a call that was not answered, with what the function of
\* the call returns, and leaves the call alone.
LEMMA AnswersNext == AnswersTheCall /\ [EngineNext]_engineVars => AnswersTheCall'
<1> SUFFICES ASSUME AnswersTheCall, [EngineNext]_engineVars PROVE AnswersTheCall'
  OBVIOUS
<1>1. CASE UNCHANGED engineVars
  BY <1>1 DEF engineVars, AnswersTheCall, Answers, CombatAnswer,
              CompositionAnswer, MacroAnswer, ScanAnswer, VisionAnswer,
              ModelAnswer
<1>2. CASE EngineNext
  <2> USE DEF EngineNext, Answer, GetSnapshotAt, NearestSample, DetectWaveState,
      RateTheRecall, SimulateFullFight, AnalyzeFights, SnapshotOfFight,
      AnalyzeComposition, ClassifyPhase, DecidePostKillAction, InferFromEvents,
      ScanSnapshot, PredictObjectiveWindows, UpdateModel, CalcVisionDominance,
      Validate, DecompressChunk
  <2>1. call' = call /\ answer = <<>>
    BY <1>2
  <2>2. call.op = "lookup" => answer' = <<SnapshotAt(call.at, call.keys)>>
    BY <1>2
  <2>3. call.op = "sample" => answer' = <<SampleOf(call.at, call.interval, call.end, call.cap)>>
    BY <1>2
  <2>4. call.op = "wave" => answer' = <<DetectWave(call.snap, call.team)>>
    BY <1>2
  <2>5. call.op = "recall" => answer' = <<RecallRating(call.hp, call.fought,
                DetectWave(call.snap, "blue").csLoss)>>
    BY <1>2
  <2>6. call.op = "combat" => answer' = <<CombatAnswer>>
    BY <1>2 DEF CombatAnswer
  <2>7. call.op = "seen" => answer' = <<SeenAt(call.ts, call.lookback, call.keys)>>
    BY <1>2
  <2>8. call.op = "composition" => answer' = <<CompositionAnswer>>
    BY <1>2 DEF CompositionAnswer
  <2>9. call.op = "phase" => answer' = <<PhaseOf(call.gold, call.kills, call.towers)>>
    BY <1>2
  <2>10. call.op = "macro" => answer' = <<MacroAnswer>>
    BY <1>2 DEF MacroAnswer
  <2>11. call.op = "scan" => answer' = <<ScanAnswer>>
    BY <1>2 DEF ScanAnswer
  <2>12. call.op = "validate" => answer' = <<Valid(call.times, call.snaps, call.quality, MaxGap)>>
    BY <1>2
  <2>13. call.op = "chunk" => answer' = <<Decompress(call, call.algorithm, call.hasZstd)>>
    BY <1>2
  <2>14. call.op = "intents" =>
           answer' = <<IntentMap(call.events, call.interval,
                                 call.events[Len(call.events)].ts)>>
    BY <1>2
  <2>15. call.op = "vision" => answer' = <<VisionAnswer>>
    BY <1>2 DEF VisionAnswer
  <2>16. call.op = "baron" => answer' = <<ObjectiveWindows(1, 10, 40, call.end)>>
    BY <1>2
  <2>17. call.op = "fight" =>
           answer' = <<Fight(call.me, call.enemy, call.minions, MaxHp)>>
    BY <1>2
  <2>18. call.op = "model" => answer' = <<ModelAnswer>>
    BY <1>2 DEF ModelAnswer
  <2> HIDE DEF EngineNext
  <2> QED
    BY <2>1, <2>2, <2>3, <2>4, <2>5, <2>6, <2>7, <2>8, <2>9, <2>10, <2>11,
       <2>12, <2>13, <2>14, <2>15, <2>16, <2>17, <2>18
    DEF AnswersTheCall, Answers, CombatAnswer, CompositionAnswer, MacroAnswer,
        ScanAnswer, VisionAnswer, ModelAnswer
<1> QED
  BY <1>1, <1>2

\* In every state a call has its answer or none.
THEOREM CallsAreAnswered == EngineSpec => []AnswersTheCall
BY AnswersInit, AnswersNext, PTL DEF EngineSpec

-----------------------------------------------------------------------------
(* Theorems *)

\* Binary search and minimum of distances agree on every timeline
\* (utils.py:28-55, tempo_engine.py:77).
THEOREM LookupsAlwaysAgree == EngineSpec => []LookupsAgree
<1>1. AnswersTheCall => LookupsAgree
  <2> SUFFICES ASSUME AnswersTheCall, Answered("lookup")
               PROVE  Result = Nearest(call.at, call.keys)
    BY DEF LookupsAgree
  <2>1. call \in LookupCalls /\ Result = SnapshotAt(call.at, call.keys)
    BY DEF AnswersTheCall, Answers, Answered, Result
  <2>2. call.keys \in SUBSET Nat /\ call.keys # {} /\ call.at \in Nat
    BY <2>1, EngineConstants DEF LookupCalls
  <2> QED
    BY <2>1, <2>2, SnapshotIsNearestSample
<1> QED
  BY <1>1, CallsAreAnswered, PTL

\* Fights are simulated from the time before the kill (combat_engine.py:66).
THEOREM FightsAlwaysSeenBefore == EngineSpec => []FightsAreSeenBefore
<1>1. AnswersTheCall => FightsAreSeenBefore
  <2> SUFFICES ASSUME AnswersTheCall, Answered("seen"),
                      GapsAreSmall(call.keys, 2 * call.lookback),
                      \E k \in call.keys : k <= call.ts
               PROVE  Result <= call.ts
    BY DEF FightsAreSeenBefore
  <2>1. call \in SeenCalls /\ Result = SeenAt(call.ts, call.lookback, call.keys)
    BY DEF AnswersTheCall, Answers, Answered, Result
  <2>2. /\ call.keys \in SUBSET Nat /\ call.ts \in Nat /\ call.lookback \in Nat
        /\ call.lookback > 0
    BY <2>1, EngineConstants DEF SeenCalls
  <2> QED
    BY <2>1, <2>2, SnapshotBeforeKill
<1> QED
  BY <1>1, CallsAreAnswered, PTL

\* What the validator accepts is covered by its snapshots (validator.py:54-65).
THEOREM ValidAlwaysCovered == EngineSpec => []ValidMeansCovered
<1>1. AnswersTheCall => ValidMeansCovered
  <2> SUFFICES ASSUME AnswersTheCall, Answered("validate"), Result,
                      DOMAIN call.snaps # {},
                      NEW t \in Least(DOMAIN call.snaps) .. Greatest(DOMAIN call.snaps)
               PROVE  2 * Distance(SnapshotAt(t, DOMAIN call.snaps), t) <= MaxGap
    BY DEF ValidMeansCovered
  <2> DEFINE keys == DOMAIN call.snaps
  <2>1. /\ call \in ValidatorCalls
        /\ answer = <<Valid(call.times, call.snaps, call.quality, MaxGap)>>
    BY DEF AnswersTheCall, Answers, Answered
  <2>2. keys \in SUBSET SnapTimes /\ keys # {}
    BY <2>1 DEF ValidatorCalls
  <2>3. PICK last \in SnapTimes : \A k \in SnapTimes : k <= last
    BY <2>2, EngineConstants
  <2>4. keys \in SUBSET Nat /\ last \in Nat /\ \A k \in keys : k <= last
    BY <2>2, <2>3, EngineConstants
  <2>5. GapsAreSmall(keys, MaxGap) /\ MaxGap \in Nat
    BY <2>1, EngineConstants DEF Result, Valid
  <2>6. Least(keys) \in keys /\ Greatest(keys) \in keys
    BY <2>2, <2>4, LeastExists, GreatestExists
  <2>7. t \in Nat /\ Least(keys) <= t /\ t <= Greatest(keys)
    BY <2>4, <2>6
  <2> HIDE DEF keys
  <2>8. 2 * Distance(SnapshotAt(t, keys), t) <= MaxGap
    BY <2>4, <2>5, <2>6, <2>7, SmallGapsCover
  <2> QED
    BY <2>8 DEF keys
<1> QED
  BY <1>1, CallsAreAnswered, PTL

\* Turning the map around changes nothing for the player of the other colour
\* (wave_engine.py:173-200).
THEOREM WavesAlwaysMirrored == EngineSpec => []WavesAreMirrored
<1>1. AnswersTheCall => WavesAreMirrored
  <2> SUFFICES ASSUME AnswersTheCall, Answered("wave"), call.team \in Teams
               PROVE  DetectWave(Mirror(call.snap), Other(call.team)) = Result
    BY DEF WavesAreMirrored
  <2> DEFINE snap == call.snap
             team == call.team
             turned == Mirror(snap)[Other(team)]
             facing == Mirror(snap)[Other(Other(team))]
  <2>1. call \in WaveCalls /\ Result = DetectWave(snap, team)
    BY DEF AnswersTheCall, Answers, Answered, Result
  <2>2. /\ snap \in [blue : Sides, red : Sides] /\ team \in {"blue", "red"}
        /\ \A side \in Sides : side \in [plain : Nat, cannon : Nat, x : 0 .. 20]
    BY <2>1, EngineConstants DEF WaveCalls, SnapshotCalls, Teams
  <2>3. /\ turned = [snap[team] EXCEPT !.x = 20 - @]
        /\ facing = [snap[Other(team)] EXCEPT !.x = 20 - @]
    BY <2>2 DEF Mirror, Other
  <2>4. /\ snap[team] \in [plain : Nat, cannon : Nat, x : 0 .. 20]
        /\ snap[Other(team)] \in [plain : Nat, cannon : Nat, x : 0 .. 20]
    BY <2>2 DEF Other
  <2> HIDE DEF snap, team, turned, facing
  <2>5. /\ Size(turned) = Size(snap[team]) /\ Dps(turned) = Dps(snap[team])
        /\ Size(facing) = Size(snap[Other(team)])
        /\ Dps(facing) = Dps(snap[Other(team)])
    BY <2>3, <2>4 DEF Size, Dps
  <2>6. WavePosition(turned, Other(team)) = WavePosition(snap[team], team)
    BY <2>2, <2>3, <2>4, <2>5 DEF WavePosition, Other
  <2>7. CrashTime(turned, facing) = CrashTime(snap[team], snap[Other(team)])
    BY <2>5 DEF CrashTime
  <2>8. DetectWave(Mirror(snap), Other(team)) = DetectWave(snap, team)
    <3>1. team \in Teams /\ Other(team) \in Teams
      BY <2>2 DEF Teams, Other
    <3> QED
      BY <3>1, <2>5, <2>6, <2>7 DEF DetectWave, turned, facing
  <2> QED
    BY <2>1, <2>8 DEF snap, team
<1> QED
  BY <1>1, CallsAreAnswered, PTL

\* A lead never makes the phase worse, and the phases of the two teams are
\* opposite (game_state_engine.py:206-220).
THEOREM LeadsAlwaysHelp == EngineSpec => []LeadsNeverHurt
<1>1. AnswersTheCall => LeadsNeverHurt
  <2> SUFFICES ASSUME AnswersTheCall, Answered("phase") PROVE LeadsNeverHurt
    BY DEF LeadsNeverHurt
  <2>1. call \in PhaseCalls /\ Result = PhaseOf(call.gold, call.kills, call.towers)
    BY DEF AnswersTheCall, Answers, Answered, Result
  <2>2. PICK g \in Int, k \in Int, w \in Int :
          call.gold = g /\ call.kills = k /\ call.towers = w
    BY <2>1, EngineConstants DEF PhaseCalls
  <2> DEFINE Ranked(a, b, c) == PhaseRank[PhaseOf(a, b, c)]
             RankOf(n) == IF n >= 3000 THEN 4 ELSE IF n >= 1500 THEN 3
                          ELSE IF n <= -3000 THEN 0 ELSE IF n <= -1500 THEN 1 ELSE 2
  <2>3. ASSUME NEW a \in Int, NEW b \in Int, NEW c \in Int
        PROVE  Ranked(a, b, c) = RankOf(a + 50000 * b + 100000 * c)
    BY DEF PhaseOf, PhaseRank
  <2>4. /\ Ranked(g, k, w) <= Ranked(g + 1, k, w)
        /\ Ranked(g, k, w) <= Ranked(g, k + 1, w)
        /\ Ranked(g, k, w) <= Ranked(g, k, w + 1)
        /\ Ranked(g, k, w) = 4 - Ranked(-g, -k, -w)
    <3> HIDE DEF Ranked
    <3>1. /\ Ranked(g, k, w) = RankOf(g + 50000 * k + 100000 * w)
          /\ Ranked(g + 1, k, w) = RankOf(g + 1 + 50000 * k + 100000 * w)
          /\ Ranked(g, k + 1, w) = RankOf(g + 50000 * (k + 1) + 100000 * w)
          /\ Ranked(g, k, w + 1) = RankOf(g + 50000 * k + 100000 * (w + 1))
          /\ Ranked(-g, -k, -w) = RankOf(-g + 50000 * (-k) + 100000 * (-w))
      BY <2>3
    <3> QED
      BY <3>1
  <2> QED
    BY <2>1, <2>2, <2>4 DEF LeadsNeverHurt
<1> QED
  BY <1>1, CallsAreAnswered, PTL

\* A sample is at most half an interval away, while the samples last
\* (tempo_engine.py:77, intent_engine.py:167).
THEOREM SamplesAlwaysNear == EngineSpec => []SamplesAreNear
<1>1. AnswersTheCall => SamplesAreNear
  <2> SUFFICES ASSUME AnswersTheCall, Answered("sample"),
                      call.interval <= 2 * call.at,
                      call.at <= call.cap * call.interval,
                      call.at <= (call.end \div call.interval) * call.interval
               PROVE  2 * Distance(Result, call.at) <= call.interval
    BY DEF SamplesAreNear
  <2> DEFINE step == call.interval
             at == call.at
             n == at \div step
             m == call.end \div step
             taken == Samples(step, call.end, call.cap)
             near == {k \in taken : \A l \in taken : Distance(k, at) <= Distance(l, at)}
  <2>1. call \in SampleCalls /\ Result = Nearest(at, taken)
    BY DEF AnswersTheCall, Answers, Answered, Result, SampleOf
  <2>2. /\ step \in Nat \ {0} /\ at \in Nat /\ call.end \in Nat /\ call.cap \in Nat
        /\ step <= 2 * at /\ at <= call.cap * step /\ at <= m * step
    <3>1. /\ step \in Instants /\ at \in Instants /\ call.end \in Instants
          /\ call.cap \in Instants /\ 0 < step
      BY <2>1 DEF SampleCalls
    <3>2. step <= 2 * at /\ at <= call.cap * step /\ at <= m * step
      OBVIOUS
    <3>3. Instants \subseteq Nat
      BY EngineConstants
    <3> HIDE DEF m, step, at
    <3>4. step \in Nat /\ at \in Nat /\ call.end \in Nat /\ call.cap \in Nat
      BY <3>1, <3>3
    <3>5. step # 0
      BY <3>1
    <3> QED
      BY <3>2, <3>4, <3>5
  <2>3. /\ n \in Nat /\ n * step <= at /\ at < (n + 1) * step
        /\ m \in Nat /\ m * step <= call.end
    <3>1. \A a \in Nat, b \in Nat \ {0} :
            /\ a \div b \in Nat
            /\ (a \div b) * b <= a /\ a < ((a \div b) + 1) * b
      OBVIOUS
    <3> QED
      BY <2>2, <3>1
  <2>4. taken \in SUBSET Nat
    BY <2>2 DEF Samples
  <2> HIDE DEF n, m, step, at
  <2>5. \A k \in 1 .. call.cap : k <= m => k * step \in taken
    <3>1. ASSUME NEW k \in 1 .. call.cap, k <= m PROVE k * step \in 0 .. call.end
      <4>1. \A i, j, p \in Nat : i <= j => i * p <= j * p
        OBVIOUS
      <4>2. k \in Nat /\ k * step \in Nat /\ k * step <= m * step
        BY <3>1, <2>2, <2>3, <4>1
      <4> QED
        BY <4>2, <2>2, <2>3
    <3> QED
      BY <3>1 DEF Samples, step
  <2>6. PICK l \in taken : 2 * Distance(l, at) <= step
    <3>1. CASE n >= 1 /\ 2 * (at - n * step) <= step
      <4>1. n <= call.cap /\ n <= m
        BY <2>2, <2>3, <3>1
      <4>2. n * step \in taken
        BY <4>1, <2>3, <2>5, <3>1
      <4>3. 2 * Distance(n * step, at) <= step
        BY <2>2, <2>3, <3>1 DEF Distance
      <4> QED
        BY <4>2, <4>3
    <3>2. CASE n = 0 \/ 2 * (at - n * step) > step
      <4>1. 2 * ((n + 1) * step - at) <= step /\ n * step < at
        BY <2>2, <2>3, <3>2
      <4>2. n < call.cap /\ n < m
        BY <2>2, <2>3, <4>1
      <4>3. (n + 1) * step \in taken
        <5>1. n + 1 \in 1 .. call.cap /\ n + 1 <= m
          BY <4>2, <2>2, <2>3
        <5> QED
          BY <5>1, <2>5
      <4>4. 2 * Distance((n + 1) * step, at) <= step
        BY <2>2, <2>3, <4>1 DEF Distance
      <4> QED
        BY <4>3, <4>4
    <3> QED
      BY <3>1, <3>2, <2>2, <2>3
  <2>7. Nearest(at, taken) \in taken
        /\ Distance(Nearest(at, taken), at) <= Distance(l, at)
    <3>1. SnapshotAt(at, taken) \in near
      BY <2>2, <2>4, <2>6, SnapshotIsNearest
    <3>2. Least(near) \in near
      BY <2>4, <3>1, LeastExists
    <3> QED
      BY <2>6, <3>2 DEF Nearest
  <2> HIDE DEF taken
  <2>8. /\ Distance(Nearest(at, taken), at) \in Nat /\ Distance(l, at) \in Nat
    <3>1. Nearest(at, taken) \in Nat /\ l \in Nat
      BY <2>4, <2>6, <2>7
    <3> QED
      BY <3>1, <2>2 DEF Distance
  <2>9. 2 * Distance(Nearest(at, taken), at) <= step
    BY <2>2, <2>6, <2>7, <2>8
  <2> QED
    BY <2>1, <2>9 DEF at, step, taken
<1> QED
  BY <1>1, CallsAreAnswered, PTL

\* Who is strong late is the one who scales (composition_engine.py:153,
\* game_state_engine.py:229).
THEOREM ScalingAlwaysMatches == EngineSpec => []ScalingMatchesPhases
<1>1. AnswersTheCall => ScalingMatchesPhases
  BY DEF AnswersTheCall, Answers, Answered, Result, CompositionAnswer,
         ScalingMatchesPhases, Scaling, PhaseAdvantage, Compare, EarlyStrong, LateStrong
<1> QED
  BY <1>1, CallsAreAnswered, PTL

\* Whatever a named algorithm can decompress is found automatically
\* (chunk_decoder.py:51-62).
THEOREM AutoAlwaysDecodes == EngineSpec => []AutoDecodes
<1>1. AnswersTheCall => AutoDecodes
  <2> SUFFICES ASSUME AnswersTheCall, Answered("chunk"), Result = "data",
                      ~(call.form = "raw" /\ call.magic = "zstd")
               PROVE  Decompress(call, "auto", call.hasZstd) = "data"
    BY DEF AutoDecodes
  <2>1. /\ call \in ChunkCalls /\ ChunkExists(call)
        /\ Decompress(call, call.algorithm, call.hasZstd) = "data"
    BY DEF AnswersTheCall, Answers, Answered, Result
  <2> QED
    BY <2>1 DEF ChunkCalls, ChunkExists, Decompress, DetectAlgorithm, Corrupted
<1> QED
  BY <1>1, CallsAreAnswered, PTL

\* A recall is wasteful if and only if a wave crashes before it is over
\* (tempo_engine.py:83-91, utils.py:185).
THEOREM WastefulAlwaysIffLost == EngineSpec => []WastefulIffWaveLost
<1>1. AnswersTheCall => WastefulIffWaveLost
  <2> SUFFICES ASSUME AnswersTheCall, Answered("recall"), call.hp >= 5, ~call.fought
               PROVE  LET crash == CrashTime(call.snap.blue, call.snap.red)
                      IN (Result = "WASTEFUL") = (crash.num <= 8 * crash.den)
    BY DEF WastefulIffWaveLost
  <2> DEFINE mine == call.snap.blue
             theirs == call.snap.red
             crash == CrashTime(mine, theirs)
             size == Size(mine)
             loss == CsLoss(crash, size)
  <2>1. /\ call \in RecallCalls
        /\ Result = RecallRating(call.hp, call.fought, DetectWave(call.snap, "blue").csLoss)
    BY DEF AnswersTheCall, Answers, Answered, Result
  <2>2. DetectWave(call.snap, "blue").csLoss = loss
    BY DEF DetectWave, Teams, Other
  <2>3. /\ mine \in [plain : Nat, cannon : Nat, x : 0 .. 20]
        /\ theirs \in [plain : Nat, cannon : Nat, x : 0 .. 20]
        /\ call.hp \in Nat
    BY <2>1, EngineConstants DEF RecallCalls, SnapshotCalls
  <2> HIDE DEF mine, theirs
  <2>4. /\ size \in Nat /\ crash.num \in Nat /\ crash.den \in Nat \ {0}
        /\ size = 0 => crash.num > 8 * crash.den
    <3>1. \A side \in [plain : Nat, cannon : Nat, x : 0 .. 20] :
            Size(side) \in Nat /\ Dps(side) \in Nat /\ (Size(side) # 0 => Dps(side) # 0)
      BY DEF Size, Dps
    <3> QED
      BY <2>3, <3>1 DEF CrashTime, Seconds
  <2> HIDE DEF crash, size
  <2>5. CASE crash.num > 8 * crash.den
    <3>1. loss = 0
      BY <2>5 DEF CsLoss
    <3> HIDE DEF loss
    <3> QED
      BY <2>1, <2>2, <2>3, <2>4, <2>5, <3>1 DEF RecallRating, crash, mine, theirs
  <2>6. CASE crash.num <= 8 * crash.den
    <3> DEFINE more == (8 * crash.den - crash.num) \div (30 * crash.den)
               cs == CsPerWave(size)
    <3>1. more \in Nat
      BY <2>4, <2>6
    <3>2. cs \in Nat /\ cs > 6
      BY <2>4, <2>6 DEF CsPerWave, RoundedDown
    <3>3. loss = (1 + more) * cs
      BY <2>4, <2>6 DEF CsLoss
    <3>4. loss \in Nat /\ loss > 6
      <4> HIDE DEF more, cs, loss
      <4>1. (1 + more) * cs \in Nat /\ (1 + more) * cs >= cs
        BY <3>1, <3>2
      <4> QED
        BY <3>2, <3>3, <4>1
    <3> HIDE DEF loss
    <3>5. RecallRating(call.hp, call.fought, loss) = "WASTEFUL"
      BY <2>3, <3>4 DEF RecallRating
    <3> QED
      BY <2>1, <2>2, <2>6, <3>5 DEF crash, mine, theirs
  <2> QED
    BY <2>4, <2>5, <2>6
<1> QED
  BY <1>1, CallsAreAnswered, PTL

\* Two opponents see the same wave, whatever minions there are
\* (wave_engine.py:203-215, utils.py:140-172).
THEOREM OpponentsAlwaysAgree == EngineSpec => []OpponentsAgree
<1>1. AnswersTheCall => OpponentsAgree
  <2> SUFFICES ASSUME AnswersTheCall, Answered("wave"), call.team \in Teams
               PROVE  OpponentsAgree
    BY DEF OpponentsAgree
  <2> DEFINE a == call.snap[call.team]
             b == call.snap[Other(call.team)]
             mine == DetectWave(call.snap, call.team)
             theirs == DetectWave(call.snap, Other(call.team))
  <2>1. call \in WaveCalls /\ Result = mine
    BY DEF AnswersTheCall, Answers, Answered, Result
  <2>2. Other(call.team) \in Teams /\ Other(Other(call.team)) = call.team
    BY DEF Teams, Other
  <2>3. /\ a \in [plain : Nat, cannon : Nat, x : 0 .. 20]
        /\ b \in [plain : Nat, cannon : Nat, x : 0 .. 20]
    BY <2>1, <2>2, EngineConstants DEF WaveCalls, SnapshotCalls, Teams, Other
  <2>4. /\ Size(a) \in Nat /\ Size(b) \in Nat /\ Dps(a) \in Nat /\ Dps(b) \in Nat
        /\ WavePosition(a, call.team) \in 0 .. 20
        /\ WavePosition(b, Other(call.team)) \in 0 .. 20
    BY <2>3 DEF Size, Dps, WavePosition
  <2>5. /\ mine.crash = CrashTime(a, b) /\ theirs.crash = CrashTime(b, a)
        /\ mine.state = ClassifyWave(Size(a) - Size(b), WavePosition(a, call.team))
        /\ theirs.state = ClassifyWave(Size(b) - Size(a), WavePosition(b, Other(call.team)))
    BY <2>2 DEF DetectWave
  <2> HIDE DEF a, b, mine, theirs
  <2>6. mine.crash.num * theirs.crash.den = theirs.crash.num * mine.crash.den
    <3>1. CASE Size(a) = 0 \/ Size(b) = 0
      BY <2>4, <2>5, <3>1 DEF CrashTime, Seconds
    <3>2. CASE Size(a) # 0 /\ Size(b) # 0
      <4> DEFINE t == [num |-> 400 * Size(b), den |-> Dps(a)]
                 u == [num |-> 400 * Size(a), den |-> Dps(b)]
      <4>1. /\ mine.crash = IF t.num * u.den <= u.num * t.den THEN t ELSE u
            /\ theirs.crash = IF u.num * t.den <= t.num * u.den THEN u ELSE t
        BY <2>5, <3>2 DEF CrashTime
      <4>2. t.num * u.den \in Nat /\ u.num * t.den \in Nat
        BY <2>4
      <4>3. t.num \in Nat /\ t.den \in Nat /\ u.num \in Nat /\ u.den \in Nat
        BY <2>4
      <4> HIDE DEF t, u
      <4>4. CASE t.num * u.den < u.num * t.den
        <5>1. mine.crash = t /\ theirs.crash = t
          BY <4>1, <4>2, <4>4
        <5> QED
          BY <5>1
      <4>5. CASE t.num * u.den > u.num * t.den
        <5>1. mine.crash = u /\ theirs.crash = u
          BY <4>1, <4>2, <4>5
        <5> QED
          BY <5>1
      <4>6. CASE t.num * u.den = u.num * t.den
        <5>1. mine.crash = t /\ theirs.crash = u
          BY <4>1, <4>2, <4>6
        <5> QED
          BY <5>1, <4>6
      <4> QED
        BY <4>2, <4>4, <4>5, <4>6
    <3> QED
      BY <3>1, <3>2
  <2>7. /\ mine.state \in {"FAST_PUSH", "SLOW_PUSH"} =>
              theirs.state \notin {"FAST_PUSH", "SLOW_PUSH"}
        /\ mine.state = "LOSING_WAVE" => theirs.state \in {"FAST_PUSH", "CRASHING"}
        /\ mine.state = "FREEZE" =>
              theirs.state \in {"FAST_PUSH", "SLOW_PUSH", "CRASHING"}
    BY <2>4, <2>5 DEF ClassifyWave
  <2> QED
    BY <2>1, <2>6, <2>7 DEF OpponentsAgree, mine, theirs
<1> QED
  BY <1>1, CallsAreAnswered, PTL

\* A verdict that can kill has a window, a window has its verdict or a later
\* fight of the same millisecond (combat_engine.py:73-81).
THEOREM WindowsAlwaysHaveVerdicts == EngineSpec => []WindowsHaveVerdicts
<1>1. AnswersTheCall => WindowsHaveVerdicts
  <2> SUFFICES ASSUME AnswersTheCall, Answered("combat") PROVE WindowsHaveVerdicts
    BY DEF WindowsHaveVerdicts
  <2> DEFINE fought == Fought(call.kills, "me")
             At(ts) == {i \in fought : call.kills[i].ts = ts}
             last(ts) == CHOOSE i \in fought : call.kills[i].ts = ts /\
                            \A j \in fought : call.kills[j].ts = ts => j <= i
             verdicts == FightVerdicts(call.kills, "me", call.kill)
             windows == KillWindows(call.kills, "me", call.kill)
  <2>1. call \in CombatCalls /\ Result.verdicts = verdicts /\ Result.windows = windows
    BY DEF AnswersTheCall, Answers, Answered, Result, CombatAnswer
  <2>2. /\ Len(call.kills) \in Nat /\ fought \subseteq 1 .. Len(call.kills)
        /\ \A i \in fought : call.kill[i] \in BOOLEAN
    <3>1. /\ call.kills \in KillLists /\ call.kill \in [DOMAIN call.kills -> BOOLEAN]
      BY <2>1 DEF CombatCalls
    <3>2. Len(call.kills) \in Nat /\ DOMAIN call.kills = 1 .. Len(call.kills)
      BY <3>1, EngineConstants
    <3> QED
      BY <3>1, <3>2 DEF Fought
  <2>3. ASSUME NEW ts, At(ts) # {}
        PROVE  last(ts) \in At(ts) /\ \A j \in At(ts) : j <= last(ts)
    <3>1. At(ts) \in SUBSET Nat /\ \A j \in At(ts) : j <= Len(call.kills)
      BY <2>2
    <3>2. Greatest(At(ts)) \in At(ts) /\ \A j \in At(ts) : j <= Greatest(At(ts))
      <4> HIDE DEF At
      <4> QED
        BY <2>2, <2>3, <3>1, GreatestExists
    <3> QED
      BY <3>2
  <2>4. verdicts = [ts \in {call.kills[i].ts : i \in fought} |-> call.kill[last(ts)]]
    BY DEF FightVerdicts
  <2>5. windows = {i \in fought : call.kill[i]}
    BY DEF KillWindows
  <2> HIDE DEF verdicts, windows, last, fought
  <2>6. ASSUME NEW ts \in DOMAIN verdicts, verdicts[ts]
        PROVE  \E i \in windows : call.kills[i].ts = ts
    <3>1. At(ts) # {}
      BY <2>4, <2>6
    <3>2. last(ts) \in fought /\ call.kills[last(ts)].ts = ts /\ call.kill[last(ts)]
      BY <2>3, <2>4, <2>6, <3>1
    <3> QED
      BY <2>5, <3>2
  <2>7. ASSUME NEW i \in windows
        PROVE  \/ verdicts[call.kills[i].ts]
               \/ \E j \in fought : j > i /\ call.kills[j].ts = call.kills[i].ts
    <3> DEFINE ts == call.kills[i].ts
    <3>1. /\ i \in At(ts) /\ call.kill[i] /\ i \in fought
          /\ ts \in {call.kills[k].ts : k \in fought}
      BY <2>5, <2>7
    <3>2. /\ last(ts) \in fought /\ call.kills[last(ts)].ts = ts /\ i <= last(ts)
          /\ verdicts[ts] = call.kill[last(ts)]
      BY <2>3, <2>4, <3>1
    <3>3. i \in Nat /\ last(ts) \in Nat
      <4>1. \A k \in fought : k \in Nat
        BY <2>2
      <4> HIDE DEF At, ts
      <4> QED
        BY <4>1, <3>1, <3>2
    <3> HIDE DEF ts
    <3>4. CASE last(ts) = i
      BY <3>1, <3>2, <3>4 DEF ts
    <3>5. CASE last(ts) > i
      BY <3>2, <3>5 DEF ts
    <3> QED
      BY <3>2, <3>3, <3>4, <3>5
  <2> QED
    BY <2>1, <2>6, <2>7 DEF WindowsHaveVerdicts, fought
<1> QED
  BY <1>1, CallsAreAnswered, PTL

\* Blame needs another objective than the one recommended, which is on the map
\* (macro_engine.py:79-107).
THEOREM RecommendedNeverBlamed == EngineSpec => []RecommendedIsNotBlamed
<1>1. AnswersTheCall => RecommendedIsNotBlamed
  <2> SUFFICES ASSUME AnswersTheCall, Answered("macro") PROVE RecommendedIsNotBlamed
    BY DEF RecommendedIsNotBlamed
  <2> DEFINE at == call.at
             best == IF at >= 40 THEN "BARON" ELSE IF at <= 28 THEN "HERALD" ELSE "TOWER"
             taken == {i \in EventsIn(call.events, at, at + 1) :
                         call.events[i].type \in {"BUILDING", "DRAGON", "BARON_NASHOR",
                                                  "RIFTHERALD"}}
  <2>1. /\ call \in MacroCalls /\ Result.recommended = Recommended(at)
        /\ Result.suboptimal = Suboptimal(call.events, at)
    BY DEF AnswersTheCall, Answers, Answered, Result, MacroAnswer
  <2>2. at \in Nat /\ call.events \in Seq(ObjectiveEvent)
    BY <2>1, EngineConstants DEF MacroCalls
  <2>3. Recommended(at) = best
    <3> HIDE DEF at
    <3>1. /\ best \in Available(at)
          /\ \A p \in Available(at) : p # best => Score(p, at) < Score(best, at)
          /\ \A p \in Available(at) : Score(p, at) \in Nat
      BY <2>2 DEF Available, Score
    <3> HIDE DEF best
    <3> QED
      BY <3>1 DEF Recommended
  <2>4. ASSUME Suboptimal(call.events, at)
        PROVE  \E i \in EventsIn(call.events, at, at + 1) :
                  call.events[i].type \notin {EventOf[best], "HORDE"}
    <3>1. taken # {} /\ ObjectiveOf(call.events[Least(taken)].type) # best
      BY <2>3, <2>4 DEF Suboptimal, Actual
    <3>2. taken \in SUBSET Nat
      BY <2>2 DEF EventsIn
    <3>3. Least(taken) \in taken
      BY <3>1, <3>2, LeastExists
    <3> DEFINE type == call.events[Least(taken)].type
    <3>4. type \in {"BUILDING", "DRAGON", "BARON_NASHOR", "RIFTHERALD"}
      BY <3>3
    <3>5. type # EventOf[best]
      <4> HIDE DEF type
      <4>1. best \in {"BARON", "HERALD", "TOWER"}
        OBVIOUS
      <4> HIDE DEF best
      <4>2. ObjectiveOf(EventOf[best]) = best
        BY <4>1 DEF ObjectiveOf, EventOf
      <4> QED
        BY <3>1, <4>2 DEF type
    <3> QED
      BY <3>3, <3>4, <3>5
  <2> QED
    BY <2>1, <2>3, <2>4 DEF RecommendedIsNotBlamed
<1> QED
  BY <1>1, CallsAreAnswered, PTL

\* Danger and the chance to kill are taken for an attempt to kill
\* (predictive_engine.py:114-155, intent_engine.py:192).
THEOREM DangerAlwaysTakenForAttack == EngineSpec => []DangerIsTakenForAttack
<1>1. AnswersTheCall => DangerIsTakenForAttack
  <2> SUFFICES ASSUME AnswersTheCall, Answered("scan"), Result.intent # "KILL_ATTEMPT"
               PROVE  /\ Result.gank.severity \notin {"HIGH", "CRITICAL"}
                      /\ Result.window.type = "KILL_WINDOW" =>
                            \E i \in DOMAIN call.players : call.players[i].dist = 2000
    BY DEF DangerIsTakenForAttack
  <2> DEFINE players == call.players
             near == {players[i].dist : i \in {j \in DOMAIN players : players[j].enemy}}
             junglers == {i \in DOMAIN players : players[i].enemy /\ players[i].jungle}
  <2>1. /\ call \in ScanCalls /\ Result.gank = GankRisk(players)
        /\ Result.window = KillWindow(players)
        /\ Result.intent = ClassifyIntent(call.progress.csGain, call.progress.moved,
                                          NearestEnemy(call.players))
    BY DEF AnswersTheCall, Answers, Answered, Result, ScanAnswer
  <2>2. \A i \in DOMAIN players :
          i \in Nat /\ players[i].dist \in Nat
    <3> DEFINE T == [enemy : BOOLEAN, jungle : BOOLEAN, dist : Nat, hp : 0 .. 10]
    <3>1. players \in Seq(T)
      BY <2>1, EngineConstants DEF ScanCalls
    <3>2. \A p \in T : p.dist \in Nat
      OBVIOUS
    <3> HIDE DEF T, players
    <3>3. DOMAIN players = 1 .. Len(players) /\ Len(players) \in Nat
      BY <3>1
    <3>4. \A i \in 1 .. Len(players) : i \in Nat /\ players[i] \in T
      BY <3>1, <3>3
    <3> QED
      BY <3>2, <3>3, <3>4
  <2>3. \A i \in DOMAIN players :
          i \in Nat /\ players[i].dist \in Nat
    BY <2>2
  <2>4. ASSUME NEW i \in DOMAIN players, players[i].enemy
        PROVE  players[i].dist >= 2000
    <3>1. near \in SUBSET Nat /\ near # {} /\ players[i].dist \in near
      BY <2>3, <2>4
    <3>2. Least(near) \in Nat /\ Least(near) <= players[i].dist
      BY <3>1, LeastExists
    <3>3. NearestEnemy(players) = Least(near)
      BY <3>1 DEF NearestEnemy
    <3>4. ~(NearestEnemy(players) < 2000)
      BY <2>1 DEF ClassifyIntent
    <3>5. players[i].dist \in Nat
      BY <2>3
    <3> HIDE DEF near, players
    <3> QED
      BY <3>2, <3>3, <3>4, <3>5
  <2>5. Result.gank.severity \notin {"HIGH", "CRITICAL"}
    <3>1. CASE junglers = {}
      <4>1. GankRisk(players) = NoWarning
        BY <3>1 DEF GankRisk
      <4> QED
        BY <2>1, <4>1 DEF NoWarning
    <3>2. CASE junglers # {}
      <4>1. junglers \in SUBSET Nat
        BY <2>3
      <4>2. Least(junglers) \in junglers
        BY <3>2, <4>1, LeastExists
      <4> DEFINE first == Least(junglers)
                 dist == players[first].dist
      <4>3. first \in DOMAIN players /\ players[first].enemy
        BY <4>2
      <4> HIDE DEF first
      <4>4. dist >= 2000 /\ dist \in Nat
        BY <4>3, <2>3, <2>4
      <4>5. GankRisk(players) =
              IF dist > 8 * 340 THEN NoWarning
              ELSE [type |-> "GANK_RISK",
                    severity |-> IF dist < 3 * 340 THEN "CRITICAL"
                                 ELSE IF dist < 5 * 340 THEN "HIGH" ELSE "MEDIUM"]
        BY <3>2 DEF GankRisk, first
      <4> HIDE DEF dist
      <4>6. GankRisk(players).severity \in {"none", "MEDIUM"}
        BY <4>4, <4>5 DEF NoWarning
      <4> QED
        BY <2>1, <4>6
    <3> QED
      BY <3>1, <3>2
  <2>6. ASSUME Result.window.type = "KILL_WINDOW"
        PROVE  \E i \in DOMAIN players : players[i].dist = 2000
    <3>1. PICK i \in DOMAIN players : players[i].enemy /\ players[i].dist <= 2000
      BY <2>1, <2>6 DEF KillWindow, NoWarning
    <3>2. players[i].dist >= 2000 /\ players[i].dist \in Nat
      BY <3>1, <2>3, <2>4
    <3>3. players[i].dist = 2000
      BY <3>1, <3>2
    <3> QED
      BY <3>3
  <2> QED
    BY <2>5, <2>6
<1> QED
  BY <1>1, CallsAreAnswered, PTL

\* A kill of the player is an attempt to kill unless a recall precedes it in its
\* scan, and no other scan is one (intent_engine.py:123-159).
THEOREM OwnKillsAlwaysSeen == EngineSpec => []OwnKillsAreSeen
<1>1. AnswersTheCall => OwnKillsAreSeen
  <2> SUFFICES ASSUME AnswersTheCall, Answered("intents") PROVE OwnKillsAreSeen
    BY DEF OwnKillsAreSeen
  <2> DEFINE events == call.events
             p == call.interval
             end == events[Len(events)].ts
             scans == Samples(p, end, end)
             Seen(t) == EventsIn(events, t - p, t)
             Mine(type, t) == {i \in Seen(t) : events[i].mine /\ events[i].type = type}
             Telling(t) == {i \in Seen(t) : events[i].mine
                                            /\ events[i].type \in {"KILL", "RECALL"}}
  <2>1. call \in IntentCalls /\ p \in Nat \ {0}
    <3>1. call \in IntentCalls
      BY DEF AnswersTheCall, Answers, Answered
    <3>2. p \in Instants \ {0}
      BY <3>1 DEF IntentCalls
    <3> QED
      BY <3>1, <3>2, EngineConstants
  <2>2. Result = [t \in scans |-> IntentFromEvents(events, p, t)]
    BY <2>1 DEF AnswersTheCall, Answers, Answered, Result, IntentMap
  <2>3. /\ Len(events) \in Nat \ {0} /\ DOMAIN events = 1 .. Len(events)
        /\ \A i \in DOMAIN events :
              /\ i \in Nat /\ events[i].ts \in Nat
              /\ events[i].type \in {"KILL", "RECALL", "ITEM"}
    <3> DEFINE T == [type : {"KILL", "RECALL", "ITEM"}, ts : Nat, mine : BOOLEAN]
    <3>1. events \in Seq(T) /\ events # <<>>
      BY <2>1, EngineConstants DEF IntentCalls
    <3>2. \A e \in T : e.ts \in Nat /\ e.type \in {"KILL", "RECALL", "ITEM"}
      OBVIOUS
    <3> HIDE DEF T, events
    <3>3. DOMAIN events = 1 .. Len(events) /\ Len(events) \in Nat \ {0}
      BY <3>1
    <3>4. \A i \in 1 .. Len(events) : i \in Nat /\ events[i] \in T
      BY <3>1, <3>3
    <3> QED
      BY <3>2, <3>3, <3>4
  <2>4. end \in Nat
    BY <2>3
  <2> HIDE DEF events, end, scans, p
  <2>5. \A t \in scans : t \in Nat /\ t <= end
    BY <2>1, <2>4 DEF scans, Samples
  <2>6. \A t \in scans :
          \/ Telling(t) = {} /\ Result[t] \in {"none", "UNCLEAR"}
          \/ /\ Least(Telling(t)) \in Telling(t)
             /\ \A i \in Telling(t) : Least(Telling(t)) <= i
             /\ Result[t] = events[Least(Telling(t))].type
    <3> SUFFICES ASSUME NEW t \in scans
                 PROVE  \/ Telling(t) = {} /\ Result[t] \in {"none", "UNCLEAR"}
                        \/ /\ Least(Telling(t)) \in Telling(t)
                           /\ \A i \in Telling(t) : Least(Telling(t)) <= i
                           /\ Result[t] = events[Least(Telling(t))].type
      OBVIOUS
    <3> DEFINE mine == {i \in Seen(t) : events[i].mine}
               telling == {i \in mine : events[i].type \in {"KILL", "RECALL"}}
    <3>1. telling = Telling(t)
      OBVIOUS
    <3>2. Result[t] = IF mine = {} THEN "none" ELSE IF telling = {} THEN "UNCLEAR"
                      ELSE events[Least(telling)].type
      BY <2>2 DEF IntentFromEvents
    <3>3. Telling(t) \in SUBSET Nat
      BY <2>3 DEF EventsIn
    <3>4. mine = {} => telling = {}
      OBVIOUS
    <3> HIDE DEF Telling, telling, mine
    <3>5. CASE telling = {}
      BY <3>1, <3>2, <3>5
    <3>6. CASE telling # {}
      <4>1. Least(Telling(t)) \in Telling(t) /\ \A i \in Telling(t) : Least(Telling(t)) <= i
        BY <3>1, <3>3, <3>6, LeastExists
      <4> QED
        BY <4>1, <3>1, <3>2, <3>4, <3>6
    <3> QED
      BY <3>5, <3>6
  <2>7. ASSUME NEW i \in DOMAIN events, events[i].mine, events[i].type = "KILL",
               NEW t \in scans, i \in Mine("KILL", t)
        PROVE  \/ Result[t] = "KILL"
               \/ Result[t] = "RECALL" /\ \E j \in Mine("RECALL", t) : j < i
    <3> DEFINE j == Least(Telling(t))
    <3>1. i \in Telling(t)
      BY <2>7
    <3>2. j \in Telling(t) /\ j <= i /\ Result[t] = events[j].type
      BY <2>6, <3>1
    <3>3. /\ j \in Seen(t) /\ events[j].mine /\ events[j].type \in {"KILL", "RECALL"}
          /\ j \in Nat /\ i \in Nat
      BY <3>2, <2>3 DEF EventsIn
    <3> HIDE DEF j
    <3>4. CASE events[j].type = "KILL"
      BY <3>2, <3>4
    <3>5. CASE events[j].type = "RECALL"
      <4>1. j # i /\ j \in Mine("RECALL", t)
        BY <2>7, <3>3, <3>5
      <4>2. j < i
        BY <4>1, <3>2, <3>3
      <4> QED
        BY <4>1, <4>2, <3>2, <3>5
    <3> QED
      BY <3>3, <3>4, <3>5
  <2>8. ASSUME NEW i \in DOMAIN events, NEW u \in scans, events[i].ts <= u
        PROVE  \E t \in scans : i \in Seen(t)
    <3> DEFINE ts == events[i].ts
    <3>1. ts \in Nat /\ u \in Nat /\ u <= end /\ end \in Nat
      BY <2>3, <2>4, <2>5
    <3>2. PICK n \in 1 .. end : u = n * p
      BY DEF scans, Samples
    <3>3. PICK k \in Nat : k * p <= ts /\ ts <= (k + 1) * p /\ (ts > 0 => k * p < ts)
      <4>1. CASE ts = 0
        <5>1. 0 * p = 0 /\ (0 + 1) * p = p
          BY <2>1
        <5> QED
          BY <2>1, <4>1, <5>1
      <4>2. CASE ts > 0
        <5> DEFINE m == (ts - 1) \div p
        <5>1. \A a \in Nat, b \in Nat \ {0} :
                /\ a \div b \in Nat
                /\ (a \div b) * b <= a /\ a < ((a \div b) + 1) * b
          OBVIOUS
        <5>2. ts - 1 \in Nat
          BY <3>1, <4>2
        <5>3. m \in Nat /\ m * p <= ts - 1 /\ ts - 1 < (m + 1) * p
          BY <2>1, <5>1, <5>2
        <5> HIDE DEF m
        <5>4. m * p \in Nat /\ (m + 1) * p \in Nat
          BY <2>1, <5>3
        <5>5. m * p < ts /\ ts <= (m + 1) * p
          BY <3>1, <5>3, <5>4
        <5> QED
          BY <3>1, <5>3, <5>4, <5>5
      <4> QED
        BY <3>1, <4>1, <4>2
    <3>4. \A i1, j1, p1 \in Nat : i1 <= j1 => i1 * p1 <= j1 * p1
      OBVIOUS
    <3>5. k + 1 <= n
      <4>1. CASE ts = 0
        <5>1. k = 0
          <6>1. k >= 1 => 1 * p <= k * p
            BY <2>1, <3>3, <3>4
          <6> QED
            BY <2>1, <3>3, <4>1, <6>1
        <5> QED
          BY <3>2, <5>1
      <4>2. CASE ts > 0
        <5>1. n <= k => n * p <= k * p
          BY <2>1, <3>2, <3>3, <3>4
        <5>2. k * p < n * p /\ k * p \in Nat /\ n * p \in Nat
          BY <2>1, <2>8, <3>1, <3>2, <3>3, <4>2
        <5> QED
          BY <3>2, <3>3, <5>1, <5>2
      <4> QED
        BY <3>1, <4>1, <4>2
    <3> DEFINE t == (k + 1) * p
    <3>6. t \in Nat /\ t <= u /\ t - p = k * p
      BY <2>1, <3>2, <3>3, <3>4, <3>5
    <3>7. t \in scans
      <4>1. k + 1 \in 1 .. end /\ t \in 0 .. end
        BY <3>1, <3>2, <3>5, <3>6
      <4> QED
        BY <4>1 DEF scans, Samples
    <3>8. i \in Seen(t)
      <4>1. t - p <= ts /\ ts <= t
        BY <3>3, <3>6
      <4> QED
        BY <4>1 DEF EventsIn
    <3> QED
      BY <3>7, <3>8
  <2>9. ASSUME NEW t \in scans, Result[t] = "KILL" PROVE Mine("KILL", t) # {}
    <3> DEFINE j == Least(Telling(t))
    <3>1. j \in Telling(t) /\ events[j].type = "KILL"
      BY <2>6, <2>9
    <3> QED
      BY <3>1
  <2>10. DOMAIN Result = scans
    BY <2>2
  <2> QED
    BY <2>1, <2>7, <2>8, <2>9, <2>10 DEF OwnKillsAreSeen, events, p
<1> QED
  BY <1>1, CallsAreAnswered, PTL

\* A ward of its own never costs a team vision or dominance, one of the others
\* never gives it any (vision_engine.py:76-118).
THEOREM OwnWardsAlwaysHelp == EngineSpec => []OwnWardsOnlyHelp
<1>1. AnswersTheCall => OwnWardsOnlyHelp
  <2> DEFINE mine == call.mine
             theirs == call.theirs
             AtMost(a, b) == a.num * b.den <= b.num * a.den
             Vision(m, w) == VisionOf(call.prospect.at, m, w, call.pos,
                                      call.prospect.events)
  <2> SUFFICES ASSUME AnswersTheCall, Answered("vision"), NEW p \in Points
               PROVE  LET more == Vision(Append(mine, p), theirs)
                          less == Vision(mine, Append(theirs, p))
                      IN /\ Result.visible => more.visible
                         /\ Result.ready => more.ready
                         /\ more.unwarded \subseteq Result.unwarded
                         /\ Result.broken => less.broken
                         /\ AtMost(Result.dominance, more.dominance)
                         /\ AtMost(less.dominance, Result.dominance)
    BY DEF OwnWardsOnlyHelp
  <2>1. call \in VisionCalls /\ Result = Vision(mine, theirs)
    BY DEF AnswersTheCall, Answers, Answered, Result, VisionAnswer
  <2>2. mine \in Seq(Points) /\ theirs \in Seq(Points)
    BY <2>1, EngineConstants DEF VisionCalls
  <2> DEFINE more == Vision(Append(mine, p), theirs)
             less == Vision(mine, Append(theirs, p))
             next == NextObjective(call.prospect.events, call.prospect.at)
  <2> HIDE DEF mine, theirs
  \* A sequence with one more ward covers at least as much.
  <2>3. ASSUME NEW wards \in Seq(Points), NEW point, NEW r, Covers(wards, point, r)
        PROVE  Covers(Append(wards, p), point, r)
    <3>1. PICK i \in DOMAIN wards : Within(wards[i], point, r)
      BY <2>3 DEF Covers
    <3>2. i \in DOMAIN Append(wards, p) /\ Append(wards, p)[i] = wards[i]
      OBVIOUS
    <3> QED
      BY <3>1, <3>2 DEF Covers
  <2>4. Result.visible => more.visible
    BY <2>1, <2>2, <2>3 DEF VisionOf
  <2>5. Result.ready => more.ready
    <3> DEFINE place == ObjectivePosition[next]
    <3>1. Result.ready => next # "none" /\ Covers(mine, place, 900)
      BY <2>1 DEF VisionOf
    <3>2. next # "none" /\ Covers(Append(mine, p), place, 900) => more.ready
      BY DEF VisionOf
    <3> HIDE DEF next, place, more
    <3> QED
      BY <3>1, <3>2, <2>2, <2>3
  <2>6. more.unwarded \subseteq Result.unwarded
    <3>1. Result.unwarded = Unwarded(call.pos, mine)
          /\ more.unwarded = Unwarded(call.pos, Append(mine, p))
      BY <2>1 DEF VisionOf
    <3> QED
      BY <3>1, <2>2, <2>3 DEF Unwarded
  <2>7. Result.broken => less.broken
    BY <2>1, <2>2, <2>3 DEF VisionOf
  <2> DEFINE a == Len(mine)
             b == Len(theirs)
             Part(m, w) == IF m + w > 0 THEN [num |-> m, den |-> m + w]
                             ELSE [num |-> 1, den |-> 2]
  <2>8. /\ a \in Nat /\ b \in Nat
        /\ Len(Append(mine, p)) = a + 1 /\ Len(Append(theirs, p)) = b + 1
    BY <2>2
  <2>9. /\ Result.dominance = Part(a, b)
        /\ more.dominance = Part(a + 1, b) /\ less.dominance = Part(a, b + 1)
    BY <2>1, <2>8 DEF VisionOf
  <2> HIDE DEF a, b, more, less, Vision
  <2>10. AtMost(Part(a, b), Part(a + 1, b))
    <3>1. CASE a + b = 0
      BY <2>8, <3>1
    <3>2. CASE a + b > 0
      <4>1. a * (a + 1 + b) <= (a + 1) * (a + b)
        BY <2>8
      <4> QED
        BY <4>1, <3>2, <2>8
    <3> QED
      BY <3>1, <3>2, <2>8
  <2>11. AtMost(Part(a, b + 1), Part(a, b))
    <3>1. CASE a + b = 0
      BY <2>8, <3>1
    <3>2. CASE a + b > 0
      <4>1. a * (a + b) <= a * (a + (b + 1))
        BY <2>8
      <4> QED
        BY <4>1, <3>2, <2>8
    <3> QED
      BY <3>1, <3>2, <2>8
  <2> QED
    BY <2>4, <2>5, <2>6, <2>7, <2>9, <2>10, <2>11 DEF more, less
<1> QED
  BY <1>1, CallsAreAnswered, PTL

-----------------------------------------------------------------------------
(* Objectives and fights *)

\* The scans of Baron are the times of the scans, which are all, from 20:00 on,
\* at the start of a period.
LEMMA BaronScans ==
    ASSUME NEW end \in Nat
    PROVE  ObjectiveWindows(1, 10, 40, end) = {t \in 1 .. end : t >= 40 /\ t % 10 = 0}
<1>1. Samples(1, end, end) = 1 .. end
  <2>1. \A n \in 1 .. end : n * 1 = n /\ n \in 0 .. end
    OBVIOUS
  <2> QED
    BY <2>1 DEF Samples
<1>2. \A t \in 1 .. end : t % 10 < 1 <=> t % 10 = 0
  OBVIOUS
<1> QED
  BY <1>1, <1>2 DEF ObjectiveWindows, ObjectiveWindow

\* They are 40, 50, 60, ...: as many as whole periods have passed since 20:00.
LEMMA BaronCount ==
    ASSUME NEW end \in Nat, end >= 40
    PROVE  Cardinality({t \in 1 .. end : t >= 40 /\ t % 10 = 0}) = (end - 40) \div 10 + 1
<1> DEFINE n == (end - 40) \div 10 + 1
           scans == {t \in 1 .. end : t >= 40 /\ t % 10 = 0}
           nth == [k \in 1 .. n |-> 30 + 10 * k]
<1>1. n \in Nat /\ 10 * n <= end - 30 /\ end - 30 < 10 * n + 10
  OBVIOUS
<1>2. \A k \in 1 .. n : 30 + 10 * k \in scans
  <2> SUFFICES ASSUME NEW k \in 1 .. n PROVE 30 + 10 * k \in scans
    OBVIOUS
  <2>0. k \in Nat /\ 1 <= k /\ k <= n
    BY <1>1
  <2> HIDE DEF n
  <2>1. 30 + 10 * k \in 1 .. end /\ 30 + 10 * k >= 40
    BY <1>1, <2>0
  <2>2. (30 + 10 * k) % 10 = 0
    BY <2>0
  <2> QED
    BY <2>1, <2>2
<1>3. \A t \in scans : \E k \in 1 .. n : 30 + 10 * k = t
  <2> SUFFICES ASSUME NEW t \in scans PROVE \E k \in 1 .. n : 30 + 10 * k = t
    OBVIOUS
  <2>1. t \in Nat /\ 40 <= t /\ t <= end /\ t % 10 = 0
    OBVIOUS
  <2> DEFINE k == t \div 10 - 3
  <2>2. k \in Int /\ 30 + 10 * k = t
    BY <2>1
  <2> HIDE DEF k, n
  <2>3. k \in 1 .. n
    BY <1>1, <2>1, <2>2
  <2> QED
    BY <2>2, <2>3
<1> HIDE DEF n, scans
<1>4. nth \in [1 .. n -> scans]
  BY <1>2
<1>5. \A t \in scans : \E k \in 1 .. n : nth[k] = t
  BY <1>3
<1>6. \A i, j \in 1 .. n : nth[i] = nth[j] => i = j
  <2>1. 1 .. n \subseteq Int
    OBVIOUS
  <2> QED
    BY <2>1
<1> HIDE DEF nth
<1>7. nth \in Bijection(1 .. n, scans)
  BY <1>4, <1>5, <1>6 DEF Bijection, Injection, Surjection, IsInjective
<1>8. ExistsBijection(1 .. n, scans)
  BY <1>7 DEF ExistsBijection
<1>9. Cardinality(scans) = n
  BY <1>1, <1>8, FS_CountingElements
<1> QED
  BY <1>9 DEF n, scans

\* Baron is announced once per period (predictive_engine.py:167-183).
THEOREM BaronAlwaysOnce == EngineSpec => []OneBaronWindowPerPeriod
<1>1. AnswersTheCall => OneBaronWindowPerPeriod
  <2> SUFFICES ASSUME AnswersTheCall, Answered("baron")
               PROVE  OneBaronWindowPerPeriod
    BY DEF OneBaronWindowPerPeriod
  <2> DEFINE end == call.end
             scans == {t \in 1 .. end : t >= 40 /\ t % 10 = 0}
  <2>1. call \in BaronCalls /\ Result = ObjectiveWindows(1, 10, 40, end)
    BY DEF AnswersTheCall, Answers, Answered, Result
  <2>2. end \in Nat
    BY <2>1, EngineConstants DEF BaronCalls
  <2>3. Result = scans
    BY <2>1, <2>2, BaronScans
  <2>4. Cardinality(scans) = IF end < 40 THEN 0 ELSE (end - 40) \div 10 + 1
    <3>1. CASE end < 40
      <4>1. scans = {}
        BY <2>2, <3>1
      <4> QED
        BY <4>1, <3>1, FS_EmptySet
    <3>2. CASE end >= 40
      BY <2>2, <3>2, BaronCount
    <3> QED
      BY <2>2, <3>1, <3>2
  <2>5. end >= 40 => 40 \in scans
    BY <2>2
  <2>6. \A s, t \in scans : s < t => t - s >= 10
    BY <2>2
  <2> HIDE DEF scans
  <2> QED
    BY <2>3, <2>4, <2>5, <2>6 DEF OneBaronWindowPerPeriod
<1> QED
  BY <1>1, CallsAreAnswered, PTL

\* A larger factor makes a product larger.
LEMMA ProductsGrow ==
    ASSUME NEW i \in Int, NEW j \in Int, NEW p \in Nat
    PROVE  /\ i <= j => i * p <= j * p
           /\ p > 0 => (i <= j <=> i * p <= j * p) /\ (i < j <=> i * p < j * p)
           /\ i * p \in Int /\ j * p \in Int
OBVIOUS

LEMMA ProductsOfNat == \A i, j \in Nat : i * j \in Nat /\ i * j = j * i
OBVIOUS

\* The arithmetic of a duel without minions. a and b are the healths that have
\* to be taken, m and e the damage per second, t how long the simulator lets
\* them fight: what is left to either, compared with 0, says who is faster.
LEMMA DuelArithmetic ==
    ASSUME NEW a \in Nat, NEW b \in Nat, NEW m \in Nat, NEW e \in Nat, m + e > 0,
           NEW t, t = IF a + b < 10 * (m + e) THEN a + b ELSE 10 * (m + e)
    PROVE  /\ b * (m + e) - m * t <= 0 <=> b <= 10 * m /\ b * e <= a * m
           /\ m = 0 \/ b * (m + e) - m * t > 0 =>
                  (a * (m + e) - e * t > 0 <=> 10 * e < a)
<1>1. /\ a * m \in Nat /\ b * e \in Nat /\ m * e \in Nat /\ e * m = m * e
      /\ a * e \in Nat /\ b * m \in Nat
  OBVIOUS
<1>2. /\ b * (m + e) = b * m + b * e
      /\ a * (m + e) = a * m + a * e
  OBVIOUS
<1>3. /\ 10 * m < b => (10 * m) * e <= b * e /\ (e > 0 => (10 * m) * e < b * e)
      /\ b <= 10 * m => b * e <= (10 * m) * e
      /\ a <= 10 * e => a * m <= (10 * e) * m
      /\ 10 * e <= a => (10 * e) * m <= a * m
  BY ProductsGrow
<1>4. (10 * m) * e = 10 * (m * e) /\ (10 * e) * m = 10 * (m * e)
  OBVIOUS
<1>5. /\ m = 0 => a * m = 0 /\ m * e = 0 /\ b * m = 0
      /\ e = 0 => b * e = 0 /\ m * e = 0 /\ a * e = 0
  OBVIOUS
<1>6. CASE a + b < 10 * (m + e)
  <2>1. t = a + b
    BY <1>6
  <2>2. m * t = a * m + b * m /\ e * t = a * e + b * e
    BY <2>1
  <2>3. /\ b * (m + e) - m * t = b * e - a * m
        /\ a * (m + e) - e * t = a * m - b * e
    BY <1>1, <1>2, <2>2
  <2>4. b * e <= a * m => b <= 10 * m
    <3> SUFFICES ASSUME b * e <= a * m, 10 * m < b PROVE FALSE
      OBVIOUS
    <3>1. a <= 10 * e
      BY <1>6
    <3>2. CASE e = 0
      BY <1>6, <3>2
    <3>3. CASE e > 0
      BY <1>1, <1>3, <1>4, <3>1, <3>3
    <3> QED
      BY <3>2, <3>3
  <2>5. b * e > a * m => a <= 10 * e
    <3> SUFFICES ASSUME b * e > a * m, 10 * e < a PROVE FALSE
      OBVIOUS
    <3>1. b <= 10 * m
      BY <1>6
    <3> QED
      BY <1>1, <1>3, <1>4, <3>1
  <2>6. m = 0 => a <= 10 * e /\ a * m - b * e <= 0
    BY <1>1, <1>5, <1>6
  <2>7. a * m \in Int /\ b * e \in Int
    BY <1>1
  <2> QED
    BY <2>3, <2>4, <2>5, <2>6, <2>7
<1>7. CASE a + b >= 10 * (m + e)
  <2> DEFINE d == m + e
  <2>1. d \in Nat /\ d > 0 /\ t = 10 * d
    BY <1>7
  <2>2. m * t = (10 * m) * d /\ e * t = (10 * e) * d
    BY <2>1
  <2> HIDE DEF d
  <2>3. b * d <= (10 * m) * d <=> b <= 10 * m
    BY <2>1, ProductsGrow
  <2>4. (10 * e) * d < a * d <=> 10 * e < a
    BY <2>1, ProductsGrow
  <2>5. b <= 10 * m => b * e <= a * m
    <3> SUFFICES ASSUME b <= 10 * m PROVE b * e <= a * m
      OBVIOUS
    <3>1. 10 * e <= a
      BY <1>7
    <3> QED
      BY <1>1, <1>3, <1>4, <3>1
  <2>6. b * d \in Nat /\ a * d \in Nat /\ (10 * m) * d \in Nat /\ (10 * e) * d \in Nat
    BY <2>1, ProductsOfNat
  <2>7. /\ b * d - m * t <= 0 <=> b <= 10 * m /\ b * e <= a * m
        /\ a * d - e * t > 0 <=> 10 * e < a
    BY <2>2, <2>3, <2>4, <2>5, <2>6
  <2> QED
    BY <2>7 DEF d
<1> QED
  BY <1>6, <1>7

\* The verdict is no better for a fighter with less health left.
LEMMA VerdictsFall ==
    ASSUME NEW x \in Nat, NEW y \in Nat, NEW u \in Nat, NEW v \in Nat, NEW w \in Nat,
           x <= y
    PROVE  Rank[Verdict([num |-> x, den |-> u], [num |-> v, den |-> w])]
               <= Rank[Verdict([num |-> y, den |-> u], [num |-> v, den |-> w])]
<1>1. x * w <= y * w /\ x * w \in Nat /\ y * w \in Nat
  BY ProductsGrow, ProductsOfNat
<1>2. v * u \in Nat /\ u * w \in Nat
  BY ProductsOfNat
<1>3. /\ (10 * x) * w = 10 * (x * w) /\ (10 * y) * w = 10 * (y * w)
      /\ (10 * v) * u = 10 * (v * u) /\ (3 * u) * w = 3 * (u * w)
  OBVIOUS
<1>4. /\ Rank["RED"] = 0 /\ Rank["ORANGE"] = 1 /\ Rank["YELLOW"] = 2
      /\ Rank["GREEN"] = 3
  BY DEF Rank
<1> DEFINE V(n) == Verdict([num |-> n, den |-> u], [num |-> v, den |-> w])
<1>5. ASSUME NEW n \in Nat
      PROVE  V(n) = IF v <= 0
                    THEN IF 2 * n >= u THEN "GREEN"
                         ELSE IF 5 * n >= u THEN "YELLOW" ELSE "ORANGE"
                    ELSE IF n <= 0 THEN "RED"
                    ELSE IF (10 * n) * w > (10 * v) * u + (3 * u) * w THEN "GREEN"
                    ELSE IF n * w > v * u THEN "YELLOW" ELSE "ORANGE"
  BY DEF Verdict
<1>6. /\ V(x) = IF v <= 0
                    THEN IF 2 * x >= u THEN "GREEN"
                         ELSE IF 5 * x >= u THEN "YELLOW" ELSE "ORANGE"
                    ELSE IF x <= 0 THEN "RED"
                    ELSE IF 10 * (x * w) > 10 * (v * u) + 3 * (u * w) THEN "GREEN"
                    ELSE IF x * w > v * u THEN "YELLOW" ELSE "ORANGE"
      /\ V(y) = IF v <= 0
                    THEN IF 2 * y >= u THEN "GREEN"
                         ELSE IF 5 * y >= u THEN "YELLOW" ELSE "ORANGE"
                    ELSE IF y <= 0 THEN "RED"
                    ELSE IF 10 * (y * w) > 10 * (v * u) + 3 * (u * w) THEN "GREEN"
                    ELSE IF y * w > v * u THEN "YELLOW" ELSE "ORANGE"
  BY <1>3, <1>5
<1> HIDE DEF V
<1>7. Rank[V(x)] <= Rank[V(y)]
  <2> DEFINE X == x * w
             Y == y * w
             Z == 10 * (v * u) + 3 * (u * w)
             U == v * u
  <2>1. X \in Nat /\ Y \in Nat /\ X <= Y /\ Z \in Nat /\ U \in Nat
    BY <1>1, <1>2
  <2>2. CASE v <= 0
    BY <1>4, <1>6, <2>2
  <2>3. CASE v > 0
    <3>1. /\ V(x) = IF x <= 0 THEN "RED"
                    ELSE IF 10 * X > Z THEN "GREEN"
                    ELSE IF X > U THEN "YELLOW" ELSE "ORANGE"
          /\ V(y) = IF y <= 0 THEN "RED"
                    ELSE IF 10 * Y > Z THEN "GREEN"
                    ELSE IF Y > U THEN "YELLOW" ELSE "ORANGE"
      BY <1>6, <2>3
    <3> HIDE DEF X, Y, Z, U
    <3> QED
      BY <1>4, <2>1, <3>1
  <2> QED
    BY <2>2, <2>3
<1> QED
  BY <1>7 DEF V

Fighter == [hp : Nat, power : Nat, guard : Nat \ {0}]

\* What the numbers of a fight are.
LEMMA FightNumbers ==
    ASSUME NEW me \in Fighter, NEW enemy \in Fighter
    PROVE  /\ Guards(me, enemy) \in Nat \ {0}
           /\ MyDps(me, enemy) \in Nat /\ EnemyDps(me, enemy) \in Nat
           /\ me.hp * Guards(me, enemy) \in Nat /\ enemy.hp * Guards(me, enemy) \in Nat
           /\ TotalDps(me, enemy) \in Nat
           /\ FightTime(me, enemy) \in Nat
           /\ Scale(me, enemy) \in Nat
<1>1. /\ me.hp \in Nat /\ me.power \in Nat /\ me.guard \in Nat /\ me.guard > 0
      /\ enemy.hp \in Nat /\ enemy.power \in Nat /\ enemy.guard \in Nat /\ enemy.guard > 0
  BY DEF Fighter
<1>2. Guards(me, enemy) \in Nat /\ Guards(me, enemy) > 0
  BY <1>1 DEF Guards
<1>3. MyDps(me, enemy) \in Nat /\ EnemyDps(me, enemy) \in Nat
  BY <1>1 DEF MyDps, EnemyDps
<1>4. me.hp * Guards(me, enemy) \in Nat /\ enemy.hp * Guards(me, enemy) \in Nat
  BY <1>1, <1>2, ProductsOfNat
<1>5. TotalDps(me, enemy) \in Nat
  BY <1>3 DEF TotalDps
<1>6. (me.hp + enemy.hp) * Guards(me, enemy) \in Nat
  BY <1>1, <1>2, ProductsOfNat
<1>7. FightTime(me, enemy) \in Nat
  BY <1>5, <1>6 DEF FightTime, MaxSeconds
<1> QED
  BY <1>2, <1>3, <1>4, <1>5, <1>7 DEF Scale

\* Without minions the simulator gives the fight to the faster, whatever the
\* fighters (fight_simulator.py:133-147).
LEMMA FasterWins ==
    ASSUME NEW me \in Fighter, NEW enemy \in Fighter, NEW maxHp \in Nat \ {0},
           TotalDps(me, enemy) > 0
    PROVE  LET q == Guards(me, enemy)
               mine == MyDps(me, enemy)
               theirs == EnemyDps(me, enemy)
               fight == Fight(me, enemy, 0, maxHp)
           IN /\ fight.kill = /\ enemy.hp * q <= MaxSeconds * mine
                              /\ enemy.hp * theirs <= me.hp * mine
              /\ fight.survive =
                    IF fight.kill /\ mine > 0 THEN enemy.hp * theirs < me.hp * mine
                    ELSE MaxSeconds * theirs < me.hp * q
<1> DEFINE q == Guards(me, enemy)
           m == MyDps(me, enemy)
           e == EnemyDps(me, enemy)
           h == me.hp
           k == enemy.hp
           a == h * q
           b == k * q
           d == m + e
           t == FightTime(me, enemy)
           s == Scale(me, enemy)
           fight == Fight(me, enemy, 0, maxHp)
<1>1. /\ q \in Nat /\ q > 0 /\ m \in Nat /\ e \in Nat /\ h \in Nat /\ k \in Nat
      /\ a \in Nat /\ b \in Nat /\ d \in Nat /\ d > 0 /\ t \in Nat /\ s \in Nat
  BY FightNumbers DEF TotalDps, Fighter
<1>2. t = IF a + b < 10 * d THEN a + b ELSE 10 * d
  <2>1. (h + k) * q = a + b
    BY <1>1
  <2> QED
    BY <2>1 DEF FightTime, MaxSeconds, TotalDps
<1>3. EnemyLeft(me, enemy) = b * d - m * t
  BY DEF EnemyLeft, TotalDps
<1>4. Wins(me, enemy) <=> m > 0 /\ b * d - m * t <= 0
  BY <1>3 DEF Wins
<1>5. s = IF m > 0 /\ b * d - m * t <= 0 THEN m ELSE 1
  BY <1>4 DEF Scale
<1>6. EnemyHurt(me, enemy) = IF m > 0 /\ b * d - m * t <= 0 THEN e * (b * d) ELSE e * t
  BY <1>4 DEF EnemyHurt, TotalDps
<1>7. MinionHurt(me, enemy, 0) = 0
  <2>1. WaveDps(0, enemy) = 0
    BY DEF WaveDps, Fighter
  <2> QED
    BY <1>1, <2>1 DEF MinionHurt
<1>8. EnemyHurt(me, enemy) \in Nat /\ h * (q * d * s) \in Nat
  <2>1. e * (b * d) \in Nat /\ e * t \in Nat
    BY <1>1, ProductsOfNat
  <2>2. q * d \in Nat
    BY <1>1, ProductsOfNat
  <2>3. q * d * s \in Nat
    BY <1>1, <2>2, ProductsOfNat
  <2>4. h * (q * d * s) \in Nat
    BY <1>1, <2>3, ProductsOfNat
  <2> QED
    BY <1>6, <2>1, <2>4
<1> DEFINE left == h * (q * d * s) - EnemyHurt(me, enemy)
<1>9. /\ fight.kill = (b * d - m * t <= 0)
      /\ fight.survive = (left > 0)
  <2>1. b * d - m * t \in Int
    BY <1>1, ProductsOfNat
  <2>2. left \in Int
    BY <1>8
  <2>3. TotalDps(me, enemy) # 0
    BY <1>1 DEF TotalDps
  <2>4. fight = LET mine == Share(MyLeft(me, enemy, 0), maxHp)
                    theirs == Share([num |-> EnemyLeft(me, enemy),
                                     den |-> Guards(me, enemy) * TotalDps(me, enemy)],
                                    maxHp)
                IN [kill |-> theirs.num <= 0, survive |-> mine.num > 0,
                    verdict |-> Verdict(mine, theirs)]
    BY <2>3 DEF Fight
  <2>5. Share(MyLeft(me, enemy, 0), maxHp).num = IF left < 0 THEN 0 ELSE left
    <3>1. MyLeft(me, enemy, 0).num = left
      BY <1>7, <1>8 DEF MyLeft, TotalDps
    <3> QED
      BY <3>1 DEF Share
  <2>6. Share([num |-> EnemyLeft(me, enemy),
               den |-> Guards(me, enemy) * TotalDps(me, enemy)], maxHp).num
          = IF b * d - m * t < 0 THEN 0 ELSE b * d - m * t
    BY <1>3 DEF Share
  <2> HIDE DEF fight, left, b, d, m, t
  <2>7. fight.kill = ((IF b * d - m * t < 0 THEN 0 ELSE b * d - m * t) <= 0)
    BY <2>4, <2>6
  <2>8. fight.survive = ((IF left < 0 THEN 0 ELSE left) > 0)
    BY <2>4, <2>5
  <2> QED
    BY <2>1, <2>2, <2>7, <2>8
<1>10. /\ b * d - m * t <= 0 <=> b <= 10 * m /\ b * e <= a * m
       /\ m = 0 \/ b * d - m * t > 0 => (a * d - e * t > 0 <=> 10 * e < a)
  <2> HIDE DEF a, b, d, m, e, t
  <2>1. /\ a \in Nat /\ b \in Nat /\ m \in Nat /\ e \in Nat
        /\ t = IF a + b < 10 * (m + e) THEN a + b ELSE 10 * (m + e)
        /\ m + e > 0 /\ d = m + e
    BY <1>1, <1>2 DEF d
  <2> QED
    BY <2>1, DuelArithmetic
<1>11. /\ b * e <= a * m <=> k * e <= h * m
       /\ b * e < a * m <=> k * e < h * m
  <2>1. b * e = (k * e) * q /\ a * m = (h * m) * q
    BY <1>1
  <2>2. k * e \in Nat /\ h * m \in Nat
    BY <1>1, ProductsOfNat
  <2> QED
    BY <1>1, <2>1, <2>2, ProductsGrow
<1>12. CASE m > 0 /\ b * d - m * t <= 0
  <2>1. left = (a * m - b * e) * d
    <3>1. left = h * (q * d * m) - e * (b * d)
      BY <1>5, <1>6, <1>12
    <3>2. h * (q * d * m) = (a * m) * d /\ e * (b * d) = (b * e) * d
      BY <1>1
    <3>3. a * m \in Nat /\ b * e \in Nat
      BY <1>1, ProductsOfNat
    <3> QED
      BY <1>1, <3>1, <3>2, <3>3
  <2>2. left > 0 <=> b * e < a * m
    <3>1. a * m - b * e \in Int
      BY <1>1, ProductsOfNat
    <3>2. 0 < a * m - b * e <=> 0 * d < (a * m - b * e) * d
      BY <1>1, <3>1, ProductsGrow
    <3>3. a * m \in Nat /\ b * e \in Nat
      BY <1>1, ProductsOfNat
    <3> QED
      BY <1>1, <2>1, <3>2, <3>3
  <2> HIDE DEF left, fight, a, b, d, m, e, t, q, h, k, s
  <2>3. fight.kill = (b <= 10 * m /\ k * e <= h * m)
    BY <1>9, <1>10, <1>11
  <2>4. fight.kill /\ m > 0
    BY <1>9, <1>12
  <2>5. left > 0 <=> k * e < h * m
    BY <1>11, <2>2
  <2>6. fight.survive = (k * e < h * m)
    BY <1>9, <2>5
  <2> QED
    BY <2>3, <2>4, <2>6 DEF b, m, e, q, h, k, a, fight, MaxSeconds
<1>13. CASE ~(m > 0 /\ b * d - m * t <= 0)
  <2>1. left = a * d - e * t
    <3>1. left = h * (q * d * 1) - e * t
      BY <1>5, <1>6, <1>13
    <3>2. h * (q * d * 1) = a * d
      BY <1>1
    <3> QED
      BY <3>1, <3>2
  <2>2. b * d - m * t \in Int
    BY <1>1, ProductsOfNat
  <2> HIDE DEF left, fight, a, b, d, m, e, t, q, h, k, s
  <2>3. m = 0 \/ b * d - m * t > 0
    BY <1>1, <1>13, <2>2
  <2>4. fight.survive = (10 * e < a)
    BY <1>9, <1>10, <2>1, <2>3
  <2>5. fight.kill = (b <= 10 * m /\ k * e <= h * m)
    BY <1>9, <1>10, <1>11
  <2>6. ~(fight.kill /\ m > 0)
    BY <1>9, <1>13
  <2> QED
    BY <2>4, <2>5, <2>6 DEF b, m, e, q, h, k, a, fight, MaxSeconds
<1> QED
  BY <1>12, <1>13

\* One more minion takes health from me, and from nobody else: the outcome is no
\* better (fight_simulator.py:83-94).
LEMMA MinionsHurt ==
    ASSUME NEW me \in Fighter, NEW enemy \in Fighter, NEW maxHp \in Nat \ {0},
           NEW minions \in Nat
    PROVE  NoBetter(Fight(me, enemy, minions + 1, maxHp),
                    Fight(me, enemy, minions, maxHp))
<1>1. CASE TotalDps(me, enemy) = 0
  BY <1>1 DEF NoBetter, Fight, Rank
<1>2. CASE TotalDps(me, enemy) # 0
  <2> DEFINE unit == Guards(me, enemy) * TotalDps(me, enemy) * Scale(me, enemy)
             theirs == Share([num |-> EnemyLeft(me, enemy),
                              den |-> Guards(me, enemy) * TotalDps(me, enemy)], maxHp)
             Left(n) == MyLeft(me, enemy, n).num
             Cut(n) == IF Left(n) < 0 THEN 0 ELSE Left(n)
             Mine(n) == [num |-> Cut(n), den |-> unit * maxHp]
  <2>1. Guards(me, enemy) * TotalDps(me, enemy) \in Nat
    BY FightNumbers, ProductsOfNat
  <2>2. unit \in Nat
    BY <2>1, FightNumbers, ProductsOfNat
  <2>3. unit * maxHp \in Nat
    BY <2>2
  <2>4. EnemyLeft(me, enemy) \in Int
    <3>1. enemy.hp * Guards(me, enemy) * TotalDps(me, enemy) \in Nat
      BY FightNumbers, ProductsOfNat
    <3>2. MyDps(me, enemy) * FightTime(me, enemy) \in Nat
      BY FightNumbers, ProductsOfNat
    <3> QED
      BY <3>1, <3>2 DEF EnemyLeft
  <2>5. /\ theirs = [num |-> theirs.num, den |-> theirs.den]
        /\ theirs.num \in Nat /\ theirs.den \in Nat
    <3>1. theirs = [num |-> IF EnemyLeft(me, enemy) < 0 THEN 0 ELSE EnemyLeft(me, enemy),
                    den |-> (Guards(me, enemy) * TotalDps(me, enemy)) * maxHp]
      BY DEF Share
    <3>2. (Guards(me, enemy) * TotalDps(me, enemy)) * maxHp \in Nat
      BY <2>1
    <3> HIDE DEF theirs
    <3> QED
      BY <2>4, <3>1, <3>2
  <2>6. EnemyHurt(me, enemy) \in Int
    <3>1. enemy.hp * Guards(me, enemy) * TotalDps(me, enemy) \in Nat
      BY FightNumbers, ProductsOfNat
    <3>2. /\ EnemyDps(me, enemy) * (enemy.hp * Guards(me, enemy) * TotalDps(me, enemy)) \in Nat
          /\ EnemyDps(me, enemy) * FightTime(me, enemy) \in Nat
      BY <3>1, FightNumbers, ProductsOfNat
    <3> QED
      BY <3>2 DEF EnemyHurt
  <2>7. me.hp * unit \in Nat
    BY <2>2, ProductsOfNat DEF Fighter
  <2>8. \A n \in Nat : Left(n) = me.hp * unit - EnemyHurt(me, enemy) - MinionHurt(me, enemy, n)
    BY DEF MyLeft
  <2>9. /\ MinionHurt(me, enemy, minions) \in Nat
        /\ MinionHurt(me, enemy, minions + 1) \in Nat
        /\ MinionHurt(me, enemy, minions) <= MinionHurt(me, enemy, minions + 1)
    <3>1. enemy.guard \in Nat
      BY DEF Fighter
    <3>2. /\ WaveDps(minions, enemy) \in Nat /\ WaveDps(minions + 1, enemy) \in Nat
          /\ WaveDps(minions, enemy) <= WaveDps(minions + 1, enemy)
      BY <3>1, ProductsGrow, ProductsOfNat DEF WaveDps
    <3> DEFINE w == WaveDps(minions, enemy)
               x == WaveDps(minions + 1, enemy)
               t == FightTime(me, enemy)
               s == Scale(me, enemy)
    <3>3. t \in Nat /\ s \in Nat
      BY FightNumbers
    <3>4. /\ MinionHurt(me, enemy, minions) = (w * t) * s
          /\ MinionHurt(me, enemy, minions + 1) = (x * t) * s
      BY DEF MinionHurt
    <3>5. w \in Nat /\ x \in Nat /\ w <= x
      BY <3>2
    <3> HIDE DEF w, x, t, s
    <3>6. w * t \in Nat /\ x * t \in Nat /\ w * t <= x * t
      BY <3>3, <3>5, ProductsGrow, ProductsOfNat
    <3>7. (w * t) * s \in Nat /\ (x * t) * s \in Nat /\ (w * t) * s <= (x * t) * s
      BY <3>3, <3>6, ProductsGrow, ProductsOfNat
    <3> QED
      BY <3>4, <3>7
  <2>10. \A n \in Nat :
            /\ Share(MyLeft(me, enemy, n), maxHp) = Mine(n)
            /\ Fight(me, enemy, n, maxHp) =
                  [kill |-> theirs.num <= 0, survive |-> Cut(n) > 0,
                   verdict |-> Verdict(Mine(n), theirs)]
    <3>1. \A n \in Nat : Share(MyLeft(me, enemy, n), maxHp) = Mine(n)
      BY DEF Share, MyLeft
    <3>2. \A n \in Nat : Share(MyLeft(me, enemy, n), maxHp).num = Cut(n)
      BY DEF Share
    <3> HIDE DEF theirs, Mine, Cut
    <3>3. \A n \in Nat : Fight(me, enemy, n, maxHp) =
            [kill |-> theirs.num <= 0,
             survive |-> Share(MyLeft(me, enemy, n), maxHp).num > 0,
             verdict |-> Verdict(Share(MyLeft(me, enemy, n), maxHp), theirs)]
      BY <1>2 DEF Fight, theirs
    <3> QED
      BY <3>1, <3>2, <3>3
  <2>11. Left(minions) \in Int /\ Left(minions + 1) \in Int /\ Left(minions + 1) <= Left(minions)
    <3> HIDE DEF unit, Left
    <3> QED
      BY <2>6, <2>7, <2>8, <2>9
  <2> HIDE DEF unit, theirs, Left
  <2>12. Cut(minions) \in Nat /\ Cut(minions + 1) \in Nat /\ Cut(minions + 1) <= Cut(minions)
    BY <2>11
  <2> HIDE DEF Cut
  <2>13. Rank[Verdict(Mine(minions + 1), theirs)] <= Rank[Verdict(Mine(minions), theirs)]
    BY <2>3, <2>5, <2>12, VerdictsFall
  <2>14. Cut(minions + 1) > 0 => Cut(minions) > 0
    BY <2>12
  <2> HIDE DEF Mine
  <2>15. /\ Fight(me, enemy, minions, maxHp) =
              [kill |-> theirs.num <= 0, survive |-> Cut(minions) > 0,
               verdict |-> Verdict(Mine(minions), theirs)]
         /\ Fight(me, enemy, minions + 1, maxHp) =
              [kill |-> theirs.num <= 0, survive |-> Cut(minions + 1) > 0,
               verdict |-> Verdict(Mine(minions + 1), theirs)]
    BY <2>10
  <2> DEFINE more == Fight(me, enemy, minions + 1, maxHp)
             less == Fight(me, enemy, minions, maxHp)
  <2>16. more.kill => less.kill
    BY <2>15
  <2>17. more.survive => less.survive
    <3>1. more.survive = (Cut(minions + 1) > 0) /\ less.survive = (Cut(minions) > 0)
      BY <2>15
    <3> HIDE DEF more, less
    <3> QED
      BY <2>14, <3>1
  <2>18. Rank[more.verdict] <= Rank[less.verdict]
    BY <2>13, <2>15
  <2> QED
    BY <2>16, <2>17, <2>18 DEF NoBetter
<1> QED
  BY <1>1, <1>2

\* Fights go to the faster, and minions never help against oneself
\* (fight_simulator.py:83-147).
THEOREM FightsAlwaysDecided == EngineSpec => []FightsAreDecided
<1>1. ASSUME AnswersTheCall, Answered("fight")
      PROVE  /\ call.me \in Fighter /\ call.enemy \in Fighter /\ call.minions \in Nat
             /\ MaxHp \in Nat \ {0}
             /\ Result = Fight(call.me, call.enemy, call.minions, MaxHp)
  <2>1. call \in FightCalls /\ Result = Fight(call.me, call.enemy, call.minions, MaxHp)
    BY <1>1 DEF AnswersTheCall, Answers, Answered, Result
  <2>2. Fighters \subseteq [hp : 0 .. MaxHp, power : Nat, guard : Nat \ {0}]
        /\ MaxHp \in Nat \ {0} /\ MaxMinions \in Nat
    BY EngineConstants
  <2>3. call.me \in Fighters /\ call.enemy \in Fighters /\ call.minions \in 0 .. MaxMinions
    BY <2>1 DEF FightCalls
  <2>4. Fighters \subseteq Fighter
    BY <2>2 DEF Fighter
  <2> QED
    BY <2>1, <2>2, <2>3, <2>4
<1>2. AnswersTheCall => DuelGoesToTheFaster
  <2> SUFFICES ASSUME AnswersTheCall, Answered("fight"), call.minions = 0,
                      TotalDps(call.me, call.enemy) > 0
               PROVE  DuelGoesToTheFaster
    BY DEF DuelGoesToTheFaster
  <2>1. Result = Fight(call.me, call.enemy, 0, MaxHp)
    BY <1>1
  <2> DEFINE me == call.me
             enemy == call.enemy
             q == Guards(me, enemy)
             mine == MyDps(me, enemy)
             theirs == EnemyDps(me, enemy)
             kill == /\ enemy.hp * q <= MaxSeconds * mine
                     /\ enemy.hp * theirs <= me.hp * mine
  <2>2. me \in Fighter /\ enemy \in Fighter /\ MaxHp \in Nat \ {0}
    BY <1>1
  <2>3. TotalDps(me, enemy) > 0
    OBVIOUS
  <2> HIDE DEF me, enemy
  <2>4. LET fight == Fight(me, enemy, 0, MaxHp)
        IN /\ fight.kill = kill
           /\ fight.survive =
                 IF fight.kill /\ mine > 0 THEN enemy.hp * theirs < me.hp * mine
                 ELSE MaxSeconds * theirs < me.hp * q
    BY <2>2, <2>3, FasterWins
  <2>5. Result = Fight(me, enemy, 0, MaxHp)
    BY <2>1 DEF me, enemy
  <2> HIDE DEF kill, mine, theirs, q
  <2>6. /\ Result.kill = kill
        /\ Result.survive =
              IF Result.kill /\ mine > 0 THEN enemy.hp * theirs < me.hp * mine
              ELSE MaxSeconds * theirs < me.hp * q
    BY <2>4, <2>5
  <2> QED
    BY <2>6 DEF kill, mine, theirs, q, me, enemy, DuelGoesToTheFaster
<1>3. AnswersTheCall => MinionsNeverHelp
  BY <1>1, MinionsHurt DEF MinionsNeverHelp
<1>4. AnswersTheCall => FightsAreDecided
  BY <1>2, <1>3 DEF FightsAreDecided
<1> QED
  BY <1>4, CallsAreAnswered, PTL

-----------------------------------------------------------------------------
(* Mistakes *)

\* A step of the average shrinks what it is given, and keeps the order.
LEMMA DecayedShrinks ==
    /\ \A x \in Nat : Decayed(x) \in Nat /\ Decayed(x) <= x /\ (x > 0 => Decayed(x) < x)
    /\ \A x, y \in Nat : x <= y => Decayed(x) <= Decayed(y)
  BY DEF Decayed

\* left is what Remaining computes, up to n steps.
Shrinks(x, n, left) ==
    left = [k \in 0 .. n |-> IF k = 0 THEN x ELSE Decayed(left[k - 1])]

\* The recursive function of Remaining exists, whatever the number of steps.
LEMMA ShrinkingExists ==
    ASSUME NEW x PROVE \A n \in Nat : \E left : Shrinks(x, n, left)
<1> DEFINE T == {n \in Nat : \E left : Shrinks(x, n, left)}
<1>1. 0 \in T
  <2> DEFINE left == [k \in 0 .. 0 |-> x]
  <2>1. left = [k \in 0 .. 0 |-> IF k = 0 THEN x ELSE Decayed(left[k - 1])]
    OBVIOUS
  <2> QED
    BY <2>1 DEF Shrinks
<1>2. ASSUME NEW n \in Nat, n \in T PROVE n + 1 \in T
  <2>1. PICK left : Shrinks(x, n, left)
    BY <1>2
  <2> DEFINE more == [k \in 0 .. n + 1 |-> IF k = 0 THEN x ELSE Decayed(left[k - 1])]
  <2>2. \A k \in 0 .. n : more[k] = left[k]
    <3>1. \A k \in 0 .. n : left[k] = IF k = 0 THEN x ELSE Decayed(left[k - 1])
      BY <2>1, Zenon DEF Shrinks
    <3> QED
      BY <3>1
  <2>3. \A k \in 0 .. n + 1 : k # 0 => k - 1 \in 0 .. n
    OBVIOUS
  <2>4. more = [k \in 0 .. n + 1 |-> IF k = 0 THEN x ELSE Decayed(more[k - 1])]
    <3>1. \A k \in 0 .. n + 1 :
             (IF k = 0 THEN x ELSE Decayed(left[k - 1]))
                = (IF k = 0 THEN x ELSE Decayed(more[k - 1]))
      <4> HIDE DEF more
      <4> QED
        BY <2>2, <2>3
    <3> QED
      BY <3>1, Zenon
  <2>5. Shrinks(x, n + 1, more)
    <3> HIDE DEF more
    <3> QED
      BY <2>4 DEF Shrinks
  <2> QED
    BY <2>5
<1>3. \A n \in Nat : n \in T => n + 1 \in T
  BY <1>2
<1> HIDE DEF T
<1>4. Nat \subseteq T
  BY <1>1, <1>3, SetInduction
<1> QED
  BY <1>4 DEF T

\* Two of them agree on the steps they have in common.
LEMMA ShrinkingAgrees ==
    ASSUME NEW x, NEW m \in Nat, NEW n \in Nat, NEW f, NEW g,
           Shrinks(x, m, f), Shrinks(x, n, g)
    PROVE  \A k \in Nat : k <= m /\ k <= n => f[k] = g[k]
<1> DEFINE T == {k \in Nat : k <= m /\ k <= n => f[k] = g[k]}
<1>1. \A k \in 0 .. m : f[k] = IF k = 0 THEN x ELSE Decayed(f[k - 1])
  BY Zenon DEF Shrinks
<1>2. \A k \in 0 .. n : g[k] = IF k = 0 THEN x ELSE Decayed(g[k - 1])
  BY Zenon DEF Shrinks
<1>3. 0 \in T
  BY <1>1, <1>2
<1>4. ASSUME NEW k \in Nat, k \in T PROVE k + 1 \in T
  <2>1. SUFFICES ASSUME k + 1 <= m, k + 1 <= n PROVE f[k + 1] = g[k + 1]
    OBVIOUS
  <2>2. k <= m /\ k <= n /\ k + 1 \in 0 .. m /\ k + 1 \in 0 .. n /\ k + 1 # 0
    BY <2>1
  <2>3. f[k] = g[k] /\ (k + 1) - 1 = k
    BY <1>4, <2>2
  <2> QED
    BY <1>1, <1>2, <2>2, <2>3
<1>5. \A k \in Nat : k \in T => k + 1 \in T
  BY <1>4
<1> HIDE DEF T
<1>6. Nat \subseteq T
  BY <1>3, <1>5, SetInduction
<1> QED
  BY <1>6 DEF T

\* What Remaining computes, a step at a time.
LEMMA RemainingSteps ==
    ASSUME NEW x
    PROVE  /\ Remaining(x, 0) = x
           /\ \A n \in Nat : Remaining(x, n + 1) = Decayed(Remaining(x, n))
<1> DEFINE Left(n) == CHOOSE left : Shrinks(x, n, left)
<1>1. ASSUME NEW n \in Nat PROVE Remaining(x, n) = Left(n)[n]
  BY DEF Remaining, Shrinks
<1>2. \A n \in Nat : Shrinks(x, n, Left(n))
  BY ShrinkingExists
<1> HIDE DEF Left
<1>3. \A n \in Nat : \A k \in 0 .. n :
         Left(n)[k] = IF k = 0 THEN x ELSE Decayed(Left(n)[k - 1])
  <2>1. ASSUME NEW n \in Nat
        PROVE  \A k \in 0 .. n :
                  Left(n)[k] = IF k = 0 THEN x ELSE Decayed(Left(n)[k - 1])
    <3>1. Left(n) = [k \in 0 .. n |-> IF k = 0 THEN x ELSE Decayed(Left(n)[k - 1])]
      BY <1>2 DEF Shrinks
    <3> QED
      BY <3>1, Zenon
  <2> QED
    BY <2>1
<1>4. Remaining(x, 0) = x
  BY <1>1, <1>3
<1>5. ASSUME NEW n \in Nat PROVE Remaining(x, n + 1) = Decayed(Remaining(x, n))
  <2>1. n + 1 \in Nat /\ n + 1 \in 0 .. n + 1 /\ n + 1 # 0 /\ (n + 1) - 1 = n
        /\ n <= n /\ n <= n + 1
    OBVIOUS
  <2>2. Left(n + 1)[n + 1] = Decayed(Left(n + 1)[n])
    BY <1>3, <2>1
  <2>3. Left(n + 1)[n] = Left(n)[n]
    <3>1. Shrinks(x, n, Left(n)) /\ Shrinks(x, n + 1, Left(n + 1))
      BY <1>2, <2>1
    <3> QED
      BY <3>1, <2>1, ShrinkingAgrees
  <2> QED
    BY <1>1, <2>1, <2>2, <2>3
<1> QED
  BY <1>4, <1>5

\* What remains is a number.
LEMMA RemainingType ==
    ASSUME NEW x \in Nat PROVE \A n \in Nat : Remaining(x, n) \in Nat
<1> DEFINE T == {n \in Nat : Remaining(x, n) \in Nat}
<1>1. 0 \in T
  BY RemainingSteps
<1>2. ASSUME NEW n \in Nat, Remaining(x, n) \in Nat
      PROVE  n + 1 \in Nat /\ Remaining(x, n + 1) \in Nat
  <2>1. Remaining(x, n + 1) = Decayed(Remaining(x, n))
    BY RemainingSteps
  <2> QED
    BY <1>2, <2>1, DecayedShrinks
<1>4. \A n \in Nat : n \in T => n + 1 \in T
  BY <1>2
<1> HIDE DEF T
<1>3. Nat \subseteq T
  BY <1>1, <1>4, SetInduction
<1> QED
  BY <1>3 DEF T

\* Every step leaves less.
LEMMA RemainingFalls ==
    ASSUME NEW x \in Nat
    PROVE  \A n \in Nat : /\ Remaining(x, n) \in Nat
                          /\ \A m \in 0 .. n : Remaining(x, n) <= Remaining(x, m)
                          /\ n > 0 /\ x > 0 => Remaining(x, n) < x
<1> DEFINE T == {n \in Nat : /\ Remaining(x, n) \in Nat
                             /\ \A m \in 0 .. n : Remaining(x, n) <= Remaining(x, m)
                             /\ n > 0 /\ x > 0 => Remaining(x, n) < x}
<1>1. 0 \in T
  BY RemainingSteps
<1>2. ASSUME NEW n \in Nat, n \in T PROVE n + 1 \in T
  <2> DEFINE r == Remaining(x, n)
  <2>1. r \in Nat /\ \A m \in 0 .. n : r <= Remaining(x, m)
    BY <1>2
  <2>2. Remaining(x, n + 1) = Decayed(r)
    BY RemainingSteps
  <2>3. Decayed(r) \in Nat /\ Decayed(r) <= r /\ (r > 0 => Decayed(r) < r)
    BY <2>1, DecayedShrinks
  <2>4. r <= x
    <3>1. r <= Remaining(x, 0)
      BY <2>1
    <3> QED
      BY <3>1, RemainingSteps
  <2> HIDE DEF r
  <2>5. ASSUME NEW m \in 0 .. n + 1 PROVE Decayed(r) <= Remaining(x, m)
    <3>1. CASE m = n + 1
      BY <3>1, <2>2, <2>3
    <3>2. CASE m # n + 1
      <4>1. m \in 0 .. n
        BY <3>2
      <4>2. r <= Remaining(x, m) /\ Remaining(x, m) \in Int
        <5>1. r <= Remaining(x, m)
          BY <4>1, <2>1
        <5>2. m \in Nat
          BY <4>1
        <5> QED
          BY <5>1, <5>2, RemainingType
      <4> QED
        BY <4>2, <2>1, <2>3
    <3> QED
      BY <3>1, <3>2
  <2>6. x > 0 => Decayed(r) < x
    BY <2>1, <2>3, <2>4
  <2>7. n + 1 \in Nat
    OBVIOUS
  <2> QED
    BY <2>2, <2>3, <2>5, <2>6, <2>7
<1>3. \A n \in Nat : n \in T => n + 1 \in T
  BY <1>2
<1> HIDE DEF T
<1>4. Nat \subseteq T
  BY <1>1, <1>3, SetInduction
<1> QED
  BY <1>4 DEF T

\* The more there was, the more remains.
LEMMA RemainingKeepsOrder ==
    ASSUME NEW x \in Nat, NEW y \in Nat, x <= y
    PROVE  \A n \in Nat : Remaining(x, n) <= Remaining(y, n)
<1> DEFINE T == {n \in Nat : Remaining(x, n) <= Remaining(y, n)}
<1>1. 0 \in T
  BY RemainingSteps
<1>2. ASSUME NEW n \in Nat, n \in T PROVE n + 1 \in T
  <2>1. Remaining(x, n) \in Nat /\ Remaining(y, n) \in Nat
    BY RemainingType
  <2>2. Decayed(Remaining(x, n)) <= Decayed(Remaining(y, n))
    BY <1>2, <2>1, DecayedShrinks
  <2>3. Remaining(x, n + 1) = Decayed(Remaining(x, n))
    BY RemainingSteps
  <2>4. Remaining(y, n + 1) = Decayed(Remaining(y, n))
    BY RemainingSteps
  <2> QED
    BY <2>2, <2>3, <2>4
<1>3. \A n \in Nat : n \in T => n + 1 \in T
  BY <1>2
<1> HIDE DEF T
<1>4. Nat \subseteq T
  BY <1>1, <1>3, SetInduction
<1> QED
  BY <1>4 DEF T

\* Frequencies are counted in whole units.
LEMMA OneIsNat == One \in Nat
BY EngineConstants

\* The units are fine enough for the mistakes of a game: each of them still counts.
LEMMA MistakesCount ==
    ASSUME NEW m \in Nat, NEW n \in 0 .. 2 * MaxMade, m < n
    PROVE  Remaining(One, n) < Remaining(One, m)
<1> DEFINE r(k) == Remaining(One, k)
<1>1. \A k \in Nat : r(k) \in Nat /\ r(k + 1) = Decayed(r(k))
  BY RemainingSteps, RemainingType, OneIsNat
<1>2. \A k \in Nat : \A l \in 0 .. k : r(k) <= r(l)
  BY RemainingFalls, OneIsNat
<1>3. MaxMade \in Nat /\ r(2 * MaxMade) > 0
  BY EngineConstants
<1> HIDE DEF r
<1>4. r(m) > 0
  <2>1. 2 * MaxMade \in Nat /\ m \in 0 .. 2 * MaxMade
    BY <1>3
  <2> QED
    BY <1>1, <1>2, <1>3, <2>1
<1>5. r(m + 1) < r(m)
  BY <1>1, <1>4, DecayedShrinks
<1>6. r(n) <= r(m + 1) /\ r(n) \in Nat /\ r(m) \in Nat /\ r(m + 1) \in Nat
  <2>1. m + 1 \in 0 .. n /\ n \in Nat /\ m + 1 \in Nat
    OBVIOUS
  <2> QED
    BY <2>1, <1>1, <1>2
<1> QED
  BY <1>5, <1>6 DEF r

\* What a game makes of the frequency of one type: it stays a frequency, rises
\* with mistakes and falls without.
LEMMA FrequencyMoves ==
    ASSUME NEW old \in 0 .. One, NEW n \in Nat
    PROVE  /\ Frequency(old, n) \in 0 .. One
           /\ n > 0 /\ old < One => Frequency(old, n) > old
           /\ n = 0 /\ old > 0 => Frequency(old, n) < old
<1>1. old \in Nat /\ One - old \in Nat /\ One \in Nat /\ old <= One
  BY OneIsNat
<1>2. CASE n = 0
  <2>1. Frequency(old, n) = Decayed(old)
    BY <1>2 DEF Frequency
  <2> QED
    BY <1>1, <1>2, <2>1, DecayedShrinks
<1>3. CASE n # 0
  <2> DEFINE r == Remaining(One - old, n)
  <2>1. Frequency(old, n) = One - r
    BY <1>3 DEF Frequency
  <2>2. r \in Nat /\ r <= One - old /\ (One - old > 0 => r < One - old)
    <3>1. 0 \in 0 .. n /\ n > 0
      BY <1>3
    <3>2. Remaining(One - old, 0) = One - old
      BY RemainingSteps
    <3>3. /\ r \in Nat
          /\ \A k \in 0 .. n : r <= Remaining(One - old, k)
          /\ n > 0 /\ One - old > 0 => r < One - old
      BY <1>1, RemainingFalls
    <3> HIDE DEF r
    <3> QED
      BY <3>1, <3>2, <3>3
  <2> HIDE DEF r
  <2> QED
    BY <1>1, <1>3, <2>1, <2>2
<1> QED
  BY <1>2, <1>3

\* A type does not overtake one that was as frequent and is made as often.
LEMMA FrequencyKeepsOrder ==
    ASSUME NEW a \in 0 .. One, NEW b \in 0 .. One, b <= a,
           NEW m \in Nat, NEW n \in Nat, n <= m
    PROVE  Frequency(b, n) <= Frequency(a, m)
<1>1. /\ a \in Nat /\ One - a \in Nat /\ b \in Nat /\ One - b \in Nat
      /\ One - a <= One - b /\ One \in Nat
  BY OneIsNat
<1>2. CASE m = 0
  <2>1. Frequency(b, n) = Decayed(b) /\ Frequency(a, m) = Decayed(a)
    BY <1>2 DEF Frequency
  <2> QED
    BY <1>1, <2>1, DecayedShrinks
<1>3. CASE m # 0 /\ n = 0
  <2>1. Frequency(b, n) <= b /\ Frequency(b, n) \in Int
    BY <1>1, <1>3, DecayedShrinks DEF Frequency
  <2>2. a <= Frequency(a, m) /\ Frequency(a, m) \in Int
    <3>1. a < One => Frequency(a, m) > a
      BY <1>3, FrequencyMoves
    <3>2. a = One => Frequency(a, m) = One
      <4>1. Frequency(a, m) = One - Remaining(One - a, m)
        BY <1>3 DEF Frequency
      <4>2. /\ Remaining(One - a, m) <= Remaining(One - a, 0)
            /\ Remaining(One - a, m) \in Nat
        BY <1>1, RemainingFalls
      <4>3. a = One => Remaining(One - a, 0) = 0
        BY <1>1, RemainingSteps
      <4> QED
        BY <1>1, <4>1, <4>2, <4>3
    <3>3. Frequency(a, m) \in 0 .. One
      BY FrequencyMoves
    <3> QED
      BY <1>1, <3>1, <3>2, <3>3
  <2> QED
    BY <1>1, <2>1, <2>2
<1>4. CASE m # 0 /\ n # 0
  <2> DEFINE ra == Remaining(One - a, m)
             rb == Remaining(One - b, n)
             rc == Remaining(One - a, n)
  <2>1. Frequency(a, m) = One - ra /\ Frequency(b, n) = One - rb
    BY <1>4 DEF Frequency
  <2>2. ra <= rc /\ rc <= rb /\ ra \in Nat /\ rb \in Nat /\ rc \in Nat
    <3>1. n \in 0 .. m
      OBVIOUS
    <3> QED
      BY <1>1, <3>1, RemainingFalls, RemainingKeepsOrder
  <2> HIDE DEF ra, rb, rc
  <2> QED
    BY <1>1, <2>1, <2>2
<1> QED
  BY <1>2, <1>3, <1>4

\* A dictionary of frequencies, in its order.
Pattern == [type : MistakeTypes, freq : 0 .. One]
Dictionary(patterns) ==
    /\ patterns \in Seq(Pattern)
    /\ \A i, j \in DOMAIN patterns : patterns[i].type = patterns[j].type => i = j

\* The entry of a type is found by it.
LEMMA FrequencyIsFound ==
    ASSUME NEW patterns, Dictionary(patterns)
    PROVE  /\ \A i \in DOMAIN patterns :
                 FrequencyOf(patterns, patterns[i].type) = patterns[i].freq
           /\ \A type : (\A i \in DOMAIN patterns : patterns[i].type # type) =>
                 FrequencyOf(patterns, type) = 0
           /\ \A type : FrequencyOf(patterns, type) \in 0 .. One
<1> DEFINE Known(type) == {i \in DOMAIN patterns : patterns[i].type = type}
<1>1. ASSUME NEW i \in DOMAIN patterns
      PROVE  FrequencyOf(patterns, patterns[i].type) = patterns[i].freq
  <2>1. Known(patterns[i].type) = {i}
    BY DEF Dictionary
  <2>2. (CHOOSE j \in Known(patterns[i].type) : TRUE) = i
    BY <2>1
  <2> QED
    BY <2>1, <2>2 DEF FrequencyOf
<1>2. ASSUME NEW type, \A i \in DOMAIN patterns : patterns[i].type # type
      PROVE  FrequencyOf(patterns, type) = 0
  BY <1>2 DEF FrequencyOf
<1>3. ASSUME NEW type PROVE FrequencyOf(patterns, type) \in 0 .. One
  <2>1. CASE \A i \in DOMAIN patterns : patterns[i].type # type
    BY <1>2, <2>1, OneIsNat
  <2>2. CASE \E i \in DOMAIN patterns : patterns[i].type = type
    <3>1. PICK i \in DOMAIN patterns : patterns[i].type = type
      BY <2>2
    <3>2. patterns[i] \in Pattern
      BY DEF Dictionary
    <3> QED
      BY <1>1, <3>1, <3>2 DEF Pattern
  <2> QED
    BY <2>1, <2>2
<1> QED
  BY <1>1, <1>2, <1>3

\* How often a mistake was made is a number, and at most that of all.
LEMMA TimesOfMistakes ==
    ASSUME NEW mistakes \in Seq(MistakeTypes), NEW type
    PROVE  Times(mistakes, type) \in 0 .. Len(mistakes)
<1> DEFINE made == {i \in DOMAIN mistakes : mistakes[i] = type}
<1>1. made \subseteq 1 .. Len(mistakes) /\ Len(mistakes) \in Nat
  OBVIOUS
<1>2. IsFiniteSet(1 .. Len(mistakes)) /\ Cardinality(1 .. Len(mistakes)) = Len(mistakes)
  <2>1. 1 \in Int /\ Len(mistakes) \in Int
    BY <1>1
  <2> QED
    BY <1>1, <2>1, FS_Interval
<1>3. IsFiniteSet(made) /\ Cardinality(made) <= Len(mistakes)
  BY <1>1, <1>2, FS_Subset
<1> HIDE DEF made
<1>4. Cardinality(made) \in Nat
  BY <1>3, FS_CardinalityType
<1>5. Cardinality(made) \in 0 .. Len(mistakes)
  BY <1>1, <1>3, <1>4
<1> QED
  BY <1>5 DEF Times, made

\* The elements of a concatenation.
LEMMA Concatenation ==
    ASSUME NEW S, NEW s \in Seq(S), NEW t \in Seq(S)
    PROVE  /\ s \o t \in Seq(S)
           /\ DOMAIN (s \o t) = 1 .. Len(s) + Len(t)
           /\ \A i \in 1 .. Len(s) + Len(t) :
                 (s \o t)[i] = IF i <= Len(s) THEN s[i] ELSE t[i - Len(s)]
  OBVIOUS

\* The update keeps the entries of a dictionary, adds one for each type that is
\* new, and moves each by what its type was made.
LEMMA PatternsUpdated ==
    ASSUME NEW existing, Dictionary(existing), NEW mistakes \in Seq(MistakeTypes)
    PROVE  /\ Dictionary(Patterns(existing, mistakes))
           /\ \A i \in DOMAIN Patterns(existing, mistakes) :
                 LET new == Patterns(existing, mistakes)[i]
                 IN new.freq = Frequency(FrequencyOf(existing, new.type),
                                         Times(mistakes, new.type))
<1> DEFINE known == {existing[i].type : i \in DOMAIN existing}
           first == {i \in DOMAIN mistakes :
                       /\ mistakes[i] \notin known
                       /\ \A j \in 1 .. i - 1 : mistakes[j] # mistakes[i]}
           nth(n) == CHOOSE i \in first : Cardinality({j \in first : j < i}) = n - 1
           c == Cardinality(first)
           kept == [i \in DOMAIN existing |->
                      [type |-> existing[i].type,
                       freq |-> Frequency(existing[i].freq,
                                          Times(mistakes, existing[i].type))]]
           added == [n \in 1 .. c |->
                       [type |-> mistakes[nth(n)],
                        freq |-> Frequency(0, Times(mistakes, mistakes[nth(n)]))]]
           P == Patterns(existing, mistakes)
<1>1. P = kept \o added
  BY DEF Patterns
<1>2. first \subseteq 1 .. Len(mistakes) /\ DOMAIN mistakes = 1 .. Len(mistakes)
  OBVIOUS
<1>3. IsFiniteSet(first) /\ first \in SUBSET Nat
  <2>1. 1 \in Int /\ Len(mistakes) \in Int
    OBVIOUS
  <2>2. IsFiniteSet(1 .. Len(mistakes))
    BY <2>1, FS_Interval
  <2>3. 1 .. Len(mistakes) \subseteq Nat
    OBVIOUS
  <2> QED
    BY <1>2, <2>2, <2>3, FS_Subset
<1>4. c \in Nat
  BY <1>3, FS_CardinalityType
<1>5. ASSUME NEW n \in 1 .. c
      PROVE  nth(n) \in first /\ Cardinality({j \in first : j < nth(n)}) = n - 1
  <2>1. n - 1 \in 0 .. c - 1
    BY <1>4
  <2> HIDE DEF first
  <2>2. \E i \in first : Cardinality({j \in first : j < i}) = n - 1
    BY <1>3, <2>1, RankExists
  <2> QED
    BY <2>2
<1>6. \A i \in first : /\ mistakes[i] \in MistakeTypes /\ mistakes[i] \notin known
                       /\ \A j \in 1 .. i - 1 : mistakes[j] # mistakes[i]
  BY <1>2
<1>7. ASSUME NEW n \in 1 .. c, NEW k \in 1 .. c, mistakes[nth(n)] = mistakes[nth(k)]
      PROVE  n = k
  <2>1. nth(n) \in Nat \ {0} /\ nth(k) \in Nat \ {0}
    <3>1. \A i \in 1 .. Len(mistakes) : i \in Nat \ {0}
      OBVIOUS
    <3>2. nth(n) \in first /\ nth(k) \in first
      BY <1>5
    <3> HIDE DEF first, nth
    <3> QED
      BY <1>2, <3>1, <3>2
  <2>2. nth(n) \in first /\ nth(k) \in first
    BY <1>5
  <2>3. ~(nth(n) < nth(k)) /\ ~(nth(k) < nth(n))
    <3> HIDE DEF first, nth, known
    <3> QED
      BY <1>6, <1>7, <2>1, <2>2
  <2>4. nth(n) = nth(k)
    <3> HIDE DEF nth
    <3> QED
      BY <2>1, <2>3
  <2>5. n - 1 = k - 1
    <3> HIDE DEF nth, first
    <3> QED
      BY <1>5, <2>4
  <2> QED
    BY <1>4, <2>5
<1>8. existing \in Seq(Pattern) /\ DOMAIN existing = 1 .. Len(existing)
  BY DEF Dictionary
<1>9. ASSUME NEW i \in 1 .. Len(existing)
      PROVE  /\ kept[i] \in Pattern
             /\ kept[i].type = existing[i].type
             /\ kept[i].freq = Frequency(FrequencyOf(existing, kept[i].type),
                                         Times(mistakes, kept[i].type))
  <2>1. /\ kept[i].type = existing[i].type
        /\ kept[i].freq = Frequency(existing[i].freq, Times(mistakes, existing[i].type))
        /\ kept[i] = [type |-> kept[i].type, freq |-> kept[i].freq]
    BY <1>8
  <2>2. existing[i].type \in MistakeTypes /\ existing[i].freq \in 0 .. One
    <3>1. existing[i] \in Pattern
      BY <1>8
    <3> QED
      BY <3>1 DEF Pattern
  <2>3. Times(mistakes, existing[i].type) \in Nat
    BY TimesOfMistakes
  <2>4. Frequency(existing[i].freq, Times(mistakes, existing[i].type)) \in 0 .. One
    BY <2>2, <2>3, FrequencyMoves
  <2>5. FrequencyOf(existing, existing[i].type) = existing[i].freq
    BY <1>8, FrequencyIsFound
  <2> HIDE DEF kept
  <2> QED
    BY <2>1, <2>2, <2>4, <2>5 DEF Pattern
<1>10. ASSUME NEW n \in 1 .. c
       PROVE  /\ added[n] \in Pattern
              /\ added[n].type = mistakes[nth(n)] /\ added[n].type \notin known
              /\ added[n].freq = Frequency(FrequencyOf(existing, added[n].type),
                                           Times(mistakes, added[n].type))
  <2> DEFINE type == mistakes[nth(n)]
  <2>1. /\ added[n].type = type
        /\ added[n].freq = Frequency(0, Times(mistakes, type))
        /\ added[n] = [type |-> added[n].type, freq |-> added[n].freq]
    BY DEF nth
  <2>2. type \in MistakeTypes /\ type \notin known
    BY <1>5, <1>6
  <2>3. Times(mistakes, type) \in Nat
    BY TimesOfMistakes
  <2>4. Frequency(0, Times(mistakes, type)) \in 0 .. One
    BY <2>3, FrequencyMoves, OneIsNat
  <2>5. FrequencyOf(existing, type) = 0
    <3>1. \A i \in DOMAIN existing : existing[i].type # type
      BY <2>2
    <3> HIDE DEF type
    <3> QED
      BY <3>1, FrequencyIsFound
  <2> HIDE DEF added, type
  <2> QED
    BY <2>1, <2>2, <2>4, <2>5 DEF Pattern, type
<1>11. kept \in Seq(Pattern) /\ Len(kept) = Len(existing)
  <2>1. kept \in [1 .. Len(existing) -> Pattern] /\ Len(existing) \in Nat
    <3>1. DOMAIN kept = 1 .. Len(existing) /\ kept = [i \in DOMAIN kept |-> kept[i]]
      BY <1>8
    <3>2. Len(existing) \in Nat
      BY <1>8
    <3> HIDE DEF kept
    <3> QED
      BY <3>1, <3>2, <1>9
  <2> HIDE DEF kept
  <2> QED
    BY <2>1
<1>12. added \in Seq(Pattern) /\ Len(added) = c
  <2>1. added \in [1 .. c -> Pattern]
    <3>1. DOMAIN added = 1 .. c /\ added = [n \in DOMAIN added |-> added[n]]
      OBVIOUS
    <3> HIDE DEF added, c
    <3> QED
      BY <3>1, <1>10
  <2> HIDE DEF added, c
  <2> QED
    BY <2>1, <1>4
<1>13. existing \in Seq(Pattern) => \A i \in 1 .. Len(existing) : kept[i].type \in known
  BY <1>8, <1>9
<1>14. ASSUME NEW i \in 1 .. Len(existing) + c
       PROVE  /\ P[i] = IF i <= Len(existing) THEN kept[i] ELSE added[i - Len(existing)]
              /\ i > Len(existing) => i - Len(existing) \in 1 .. c
  <2>1. Len(existing) \in Nat
    BY <1>8
  <2>2. P[i] = IF i <= Len(kept) THEN kept[i] ELSE added[i - Len(kept)]
    <3> HIDE DEF kept, added, c, P
    <3> QED
      BY <1>1, <1>11, <1>12, Concatenation
  <2> HIDE DEF kept, added, c, P
  <2> QED
    BY <1>4, <1>11, <2>1, <2>2
<1>15. P \in Seq(Pattern) /\ DOMAIN P = 1 .. Len(existing) + c
  <2> HIDE DEF kept, added, c, P
  <2> QED
    BY <1>1, <1>11, <1>12, Concatenation
<1>16. ASSUME NEW i \in DOMAIN P, NEW j \in DOMAIN P, P[i].type = P[j].type
       PROVE  i = j
  <2>1. /\ Len(existing) \in Nat
        /\ i \in 1 .. Len(existing) + c /\ j \in 1 .. Len(existing) + c
    BY <1>8, <1>15
  <2>2. CASE i <= Len(existing) /\ j <= Len(existing)
    <3>1. P[i].type = existing[i].type /\ P[j].type = existing[j].type
          /\ i \in DOMAIN existing /\ j \in DOMAIN existing
      <4> HIDE DEF P, kept, added, c
      <4> QED
        BY <2>1, <2>2, <1>4, <1>8, <1>9, <1>14
    <3> QED
      BY <3>1, <1>16 DEF Dictionary
  <2>3. CASE i > Len(existing) /\ j > Len(existing)
    <3>1. /\ P[i].type = mistakes[nth(i - Len(existing))]
          /\ P[j].type = mistakes[nth(j - Len(existing))]
          /\ i - Len(existing) \in 1 .. c /\ j - Len(existing) \in 1 .. c
      <4> HIDE DEF P, kept, added, c, nth
      <4> QED
        BY <2>1, <2>3, <1>4, <1>10, <1>14
    <3>2. i - Len(existing) = j - Len(existing)
      <4> HIDE DEF P, c, nth
      <4> QED
        BY <3>1, <1>7, <1>16
    <3> QED
      BY <3>2, <2>1, <1>4
  <2>4. CASE i <= Len(existing) /\ j > Len(existing)
    <3> HIDE DEF P, kept, added, c, nth, known
    <3> QED
      BY <2>1, <2>4, <1>4, <1>8, <1>10, <1>13, <1>14, <1>16
  <2>5. CASE i > Len(existing) /\ j <= Len(existing)
    <3> HIDE DEF P, kept, added, c, nth, known
    <3> QED
      BY <2>1, <2>5, <1>4, <1>8, <1>10, <1>13, <1>14, <1>16
  <2> HIDE DEF c
  <2> QED
    BY <2>1, <2>2, <2>3, <2>4, <2>5, <1>4
<1>17. ASSUME NEW i \in DOMAIN P
       PROVE  P[i].freq = Frequency(FrequencyOf(existing, P[i].type),
                                    Times(mistakes, P[i].type))
  <2>1. Len(existing) \in Nat /\ i \in 1 .. Len(existing) + c
    BY <1>8, <1>15
  <2> HIDE DEF P, kept, added, c, nth, known
  <2> QED
    BY <2>1, <1>4, <1>9, <1>10, <1>14
<1> HIDE DEF P
<1> QED
  BY <1>15, <1>16, <1>17 DEF Dictionary, P


\* Without a past, what was done wrong more often becomes more frequent.
LEMMA FrequencyCounts ==
    ASSUME NEW m \in Nat, NEW n \in 0 .. 2 * MaxMade, m < n
    PROVE  Frequency(0, m) < Frequency(0, n)
<1>1. One \in Nat /\ One - 0 = One
  BY OneIsNat
<1>2. /\ Remaining(One, n) < Remaining(One, m)
      /\ Remaining(One, n) \in Nat /\ Remaining(One, m) \in Nat
  <2>1. n \in Nat
    BY EngineConstants
  <2> QED
    BY <1>1, <2>1, MistakesCount, RemainingType
<1>3. Frequency(0, n) = One - Remaining(One, n)
  BY <1>1 DEF Frequency
<1>4. CASE m = 0
  <2>1. Frequency(0, m) = Decayed(0) /\ Decayed(0) = 0
    <3>1. Decayed(0) \in Nat /\ Decayed(0) <= 0
      BY DecayedShrinks
    <3> QED
      BY <1>4, <3>1 DEF Frequency
  <2>2. Remaining(One, m) = One
    BY <1>4, RemainingSteps
  <2> QED
    BY <1>1, <1>2, <1>3, <2>1, <2>2
<1>5. CASE m # 0
  <2>1. Frequency(0, m) = One - Remaining(One, m)
    BY <1>1, <1>5 DEF Frequency
  <2> QED
    BY <1>1, <1>2, <1>3, <2>1
<1> QED
  BY <1>4, <1>5

\* The first task is the most frequent mistake.
LEMMA FirstTaskIsMostFrequent ==
    ASSUME NEW patterns, Dictionary(patterns), patterns # <<>>
    PROVE  \E i \in DOMAIN patterns :
              /\ FocusTasks(patterns)[1] = patterns[i]
              /\ \A j \in DOMAIN patterns : patterns[j].freq <= patterns[i].freq
<1> DEFINE ahead(i) == {j \in DOMAIN patterns :
                          \/ patterns[j].freq > patterns[i].freq
                          \/ patterns[j].freq = patterns[i].freq /\ j < i}
           freqs == {patterns[i].freq : i \in DOMAIN patterns}
           best == Greatest(freqs)
           bests == {i \in DOMAIN patterns : patterns[i].freq = best}
<1>1. /\ DOMAIN patterns = 1 .. Len(patterns) /\ Len(patterns) \in Nat \ {0}
      /\ \A i \in DOMAIN patterns : patterns[i].freq \in 0 .. One
  <2>1. patterns \in Seq(Pattern)
    BY DEF Dictionary
  <2>2. DOMAIN patterns = 1 .. Len(patterns) /\ Len(patterns) \in Nat \ {0}
    BY <2>1
  <2>3. ASSUME NEW i \in DOMAIN patterns PROVE patterns[i].freq \in 0 .. One
    <3>1. patterns[i] \in Pattern
      BY <2>1
    <3> QED
      BY <3>1 DEF Pattern
  <2> QED
    BY <2>2, <2>3
<1>2. freqs \in SUBSET Nat /\ freqs # {} /\ \A f \in freqs : f <= One
  <2>1. \A i \in DOMAIN patterns : patterns[i].freq \in Nat /\ patterns[i].freq <= One
    BY <1>1, OneIsNat
  <2>2. 1 \in DOMAIN patterns
    BY <1>1
  <2> QED
    BY <2>1, <2>2
<1>3. best \in freqs /\ \A f \in freqs : f <= best
  <2> HIDE DEF freqs
  <2> QED
    BY <1>2, OneIsNat, GreatestExists
<1>4. bests \in SUBSET Nat /\ bests # {}
  <2>1. \A i \in DOMAIN patterns : i \in Nat
    BY <1>1
  <2> HIDE DEF best
  <2> QED
    BY <1>3, <2>1
<1>5. Least(bests) \in bests /\ \A i \in bests : Least(bests) <= i
  <2> HIDE DEF bests
  <2> QED
    BY <1>4, LeastExists
<1>6. ahead(Least(bests)) = {}
  <2> SUFFICES ASSUME NEW j \in ahead(Least(bests)) PROVE FALSE
    OBVIOUS
  <2> DEFINE i == Least(bests)
  <2>1. i \in DOMAIN patterns /\ patterns[i].freq = best /\ i \in Nat
    BY <1>4, <1>5
  <2>2. j \in DOMAIN patterns /\ patterns[j].freq <= best /\ j \in Nat
        /\ patterns[j].freq \in Nat /\ best \in Nat
    BY <1>1, <1>2, <1>3
  <2>3. patterns[j].freq = best => j \in bests /\ i <= j
    BY <1>5, <2>2
  <2>4. \/ patterns[j].freq > patterns[i].freq
        \/ patterns[j].freq = patterns[i].freq /\ j < i
    <3>1. \A k : j \in ahead(k) =>
             \/ patterns[j].freq > patterns[k].freq
             \/ patterns[j].freq = patterns[k].freq /\ j < k
      OBVIOUS
    <3> HIDE DEF ahead, bests
    <3> QED
      BY <3>1
  <2> HIDE DEF i, best, bests
  <2> QED
    BY <2>1, <2>2, <2>3, <2>4
<1>7. \A i \in DOMAIN patterns : Cardinality(ahead(i)) = 0 <=> ahead(i) = {}
  <2>1. IsFiniteSet(DOMAIN patterns)
    <3>1. 1 \in Int /\ Len(patterns) \in Int
      BY <1>1
    <3> QED
      BY <1>1, <3>1, FS_Interval
  <2>2. \A i \in DOMAIN patterns : ahead(i) \subseteq DOMAIN patterns
    OBVIOUS
  <2>3. \A i \in DOMAIN patterns : IsFiniteSet(ahead(i))
    <3> HIDE DEF ahead
    <3> QED
      BY <2>1, <2>2, FS_Subset
  <2> HIDE DEF ahead
  <2> QED
    BY <2>3, FS_EmptySet
<1> DEFINE chosen == CHOOSE i \in DOMAIN patterns : Cardinality(ahead(i)) = 1 - 1
<1>8. chosen \in DOMAIN patterns /\ ahead(chosen) = {}
  <2>1. Least(bests) \in DOMAIN patterns
    BY <1>5
  <2> HIDE DEF ahead, bests
  <2>2. \E i \in DOMAIN patterns : Cardinality(ahead(i)) = 1 - 1
    BY <2>1, <1>6, <1>7
  <2>3. chosen \in DOMAIN patterns /\ Cardinality(ahead(chosen)) = 1 - 1
    BY <2>2
  <2> HIDE DEF chosen
  <2> QED
    BY <2>3, <1>7
<1>9. FocusTasks(patterns)[1] = patterns[chosen]
  <2>1. 1 \in 1 .. (IF Len(patterns) < 3 THEN Len(patterns) ELSE 3)
    BY <1>1
  <2> QED
    BY <2>1 DEF FocusTasks
<1>10. \A j \in DOMAIN patterns : patterns[j].freq <= patterns[chosen].freq
  <2> HIDE DEF chosen
  <2>1. \A j \in DOMAIN patterns : ~(patterns[j].freq > patterns[chosen].freq)
    BY <1>8
  <2>2. \A j \in DOMAIN patterns : patterns[j].freq \in Int
    BY <1>1
  <2> QED
    BY <1>8, <2>1, <2>2
<1> HIDE DEF chosen
<1> QED
  BY <1>8, <1>9, <1>10

\* A game has at most twice MaxMade mistakes: the decisions and the warnings.
LEMMA MistakesOfGame ==
    ASSUME NEW suboptimal \in Upto(MaxMade, BOOLEAN),
           NEW severities \in Upto(MaxMade, {"MEDIUM", "HIGH", "CRITICAL"})
    PROVE  /\ Mistakes(suboptimal, severities) \in Seq(MistakeTypes)
           /\ Len(Mistakes(suboptimal, severities)) <= 2 * MaxMade
<1> DEFINE bad == {j \in DOMAIN suboptimal : suboptimal[j]}
           high == {j \in DOMAIN severities : severities[j] \in {"HIGH", "CRITICAL"}}
           a == Cardinality(bad)
           b == Cardinality(high)
<1>1. MaxMade \in Nat
  BY EngineConstants
<1>2. ASSUME NEW S, NEW s \in Upto(MaxMade, S), NEW T, T \subseteq DOMAIN s
      PROVE  Cardinality(T) \in 0 .. MaxMade
  <2>1. PICK k \in 0 .. MaxMade : s \in [1 .. k -> S]
    BY DEF Upto
  <2>2. DOMAIN s = 1 .. k /\ k \in Nat /\ k <= MaxMade /\ 1 \in Int /\ k \in Int
    BY <1>1, <2>1
  <2>3. IsFiniteSet(1 .. k) /\ Cardinality(1 .. k) = k
    BY <2>2, FS_Interval
  <2>4. IsFiniteSet(T) /\ Cardinality(T) <= k
    BY <1>2, <2>2, <2>3, FS_Subset
  <2>5. Cardinality(T) \in Nat
    BY <2>4, FS_CardinalityType
  <2> DEFINE c == Cardinality(T)
  <2>6. c \in Nat /\ c <= k
    BY <2>4, <2>5
  <2> HIDE DEF c
  <2>7. c \in 0 .. MaxMade
    BY <1>1, <2>2, <2>6
  <2> QED
    BY <2>7 DEF c
<1>3. a \in 0 .. MaxMade
  <2>1. bad \subseteq DOMAIN suboptimal
    OBVIOUS
  <2> HIDE DEF bad
  <2> QED
    BY <1>2, <2>1
<1>4. b \in 0 .. MaxMade
  <2>1. high \subseteq DOMAIN severities
    OBVIOUS
  <2> HIDE DEF high
  <2> QED
    BY <1>2, <2>1
<1> DEFINE macro == [i \in 1 .. a |-> "macro"]
           positioning == [i \in 1 .. b |-> "positioning"]
<1>5. Mistakes(suboptimal, severities) = macro \o positioning
  BY DEF Mistakes
<1> HIDE DEF a, b
<1>6. macro \in Seq(MistakeTypes) /\ Len(macro) = a
  <2>1. a \in Nat
    BY <1>3
  <2>2. macro \in [1 .. a -> MistakeTypes]
    <3>1. "macro" \in MistakeTypes
      BY DEF MistakeTypes
    <3> QED
      BY <3>1, Zenon
  <2> HIDE DEF macro
  <2> QED
    BY <2>1, <2>2
<1>7. positioning \in Seq(MistakeTypes) /\ Len(positioning) = b
  <2>1. b \in Nat
    BY <1>4
  <2>2. positioning \in [1 .. b -> MistakeTypes]
    <3>1. "positioning" \in MistakeTypes
      BY DEF MistakeTypes
    <3> QED
      BY <3>1, Zenon
  <2> HIDE DEF positioning
  <2> QED
    BY <2>1, <2>2
<1> HIDE DEF macro, positioning
<1> QED
  BY <1>1, <1>3, <1>4, <1>5, <1>6, <1>7

\* A game moves the frequencies of the mistakes the right way, and the first task
\* is what was done wrong most often (player_model_engine.py:80-153).
THEOREM MistakesAlwaysMove == EngineSpec => []MistakesMoveFrequencies
<1>1. AnswersTheCall => MistakesMoveFrequencies
  <2> SUFFICES ASSUME AnswersTheCall, Answered("model")
               PROVE  MistakesMoveFrequencies
    BY DEF MistakesMoveFrequencies
  <2> DEFINE existing == call.existing
             mistakes == Mistakes(call.suboptimal, call.severities)
             patterns == Patterns(existing, mistakes)
             Old(type) == FrequencyOf(existing, type)
             New(type) == FrequencyOf(patterns, type)
             Made(type) == Times(mistakes, type)
             types == {patterns[i].type : i \in DOMAIN patterns}
  <2>1. call \in ModelCalls /\ Result = ModelAnswer
    BY DEF AnswersTheCall, Answers, Answered, Result
  <2>2. /\ Result.mistakes = mistakes /\ Result.patterns = patterns
        /\ Result.tasks = FocusTasks(patterns)
    BY <2>1 DEF ModelAnswer
  <2>3. /\ existing \in Models
        /\ call.suboptimal \in Upto(MaxMade, BOOLEAN)
        /\ call.severities \in Upto(MaxMade, {"MEDIUM", "HIGH", "CRITICAL"})
    BY <2>1 DEF ModelCalls
  <2>4. Dictionary(existing)
    BY <2>3, EngineConstants DEF Dictionary, Pattern
  <2>5. mistakes \in Seq(MistakeTypes) /\ Len(mistakes) <= 2 * MaxMade
    BY <2>3, MistakesOfGame
  <2>6. /\ Dictionary(patterns)
        /\ \A i \in DOMAIN patterns :
              patterns[i].freq =
                 Frequency(Old(patterns[i].type), Made(patterns[i].type))
    BY <2>4, <2>5, PatternsUpdated
  <2>7. \A a \in types : New(a) = Frequency(Old(a), Made(a))
    BY <2>6, FrequencyIsFound
  <2>8. \A a : /\ Old(a) \in 0 .. One /\ Made(a) \in Nat
               /\ Made(a) \in 0 .. 2 * MaxMade
    <3> SUFFICES ASSUME NEW a PROVE Old(a) \in 0 .. One /\ Made(a) \in 0 .. 2 * MaxMade
      OBVIOUS
    <3>1. Made(a) \in 0 .. Len(mistakes) /\ Len(mistakes) \in Nat
      BY <2>5, TimesOfMistakes
    <3>2. Old(a) \in 0 .. One
      BY <2>4, FrequencyIsFound
    <3>3. Len(mistakes) <= 2 * MaxMade
      BY <2>5
    <3> DEFINE made == Made(a)
               length == Len(mistakes)
    <3>4. made \in 0 .. length /\ length \in Nat /\ length <= 2 * MaxMade
      BY <3>1, <3>3
    <3> HIDE DEF made, length
    <3>5. made \in 0 .. 2 * MaxMade
      BY <3>4, EngineConstants
    <3> QED
      BY <3>2, <3>5 DEF made
  <2> HIDE DEF existing, mistakes, patterns, Old, New, Made
  <2>9. ASSUME NEW a \in types
        PROVE  /\ New(a) \in 0 .. One
               /\ Made(a) > 0 /\ Old(a) < One => New(a) > Old(a)
               /\ Made(a) = 0 /\ Old(a) > 0 => New(a) < Old(a)
               /\ \A b \in types :
                     Old(b) <= Old(a) /\ Made(b) <= Made(a) => New(b) <= New(a)
    <3> HIDE DEF types
    <3> QED
      BY <2>7, <2>8, FrequencyMoves, FrequencyKeepsOrder
  <2>10. ASSUME existing = <<>>, types # {}, NEW b \in types
         PROVE  Made(b) <= Made(Result.tasks[1].type)
    <3>1. patterns # <<>>
      BY <2>10
    <3>2. PICK i \in DOMAIN patterns :
             /\ FocusTasks(patterns)[1] = patterns[i]
             /\ \A j \in DOMAIN patterns : patterns[j].freq <= patterns[i].freq
      BY <2>6, <3>1, FirstTaskIsMostFrequent
    <3> DEFINE a == patterns[i].type
    <3>3. PICK j \in DOMAIN patterns : patterns[j].type = b
      BY <2>10
    <3>4. Old(a) = 0 /\ Old(b) = 0
      BY <2>10 DEF Old, FrequencyOf
    <3>5. Frequency(0, Made(b)) <= Frequency(0, Made(a))
      BY <2>6, <3>2, <3>3, <3>4
    <3>6. Made(a) < Made(b) => Frequency(0, Made(a)) < Frequency(0, Made(b))
      BY <2>8, FrequencyCounts
    <3>7. Made(a) \in Nat /\ Made(b) \in Nat
          /\ Frequency(0, Made(a)) \in 0 .. One /\ Frequency(0, Made(b)) \in 0 .. One
      <4>1. Made(a) \in Nat /\ Made(b) \in Nat /\ 0 \in 0 .. One
        BY <2>8, OneIsNat
      <4> QED
        BY <4>1, FrequencyMoves
    <3> HIDE DEF a
    <3>8. Made(b) <= Made(a)
      BY <3>5, <3>6, <3>7, OneIsNat
    <3> QED
      BY <2>2, <3>2, <3>8 DEF a
  <2> QED
    BY <2>2, <2>9, <2>10
    DEF MistakesMoveFrequencies, existing, mistakes, patterns, Old, New, Made
<1> QED
  BY <1>1, CallsAreAnswered, PTL
=============================================================================
