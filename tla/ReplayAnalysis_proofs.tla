------------------------ MODULE ReplayAnalysis_proofs ------------------------
(***************************************************************************)
(* Proofs, for every value of the constants, about ReplayAnalysis.         *)
(***************************************************************************)
EXTENDS ReplayAnalysis, FiniteSetTheorems, TLAPS

\* The requests that have failed when an attempt begins.
ParserInv ==
    /\ stage \in {"file", "merge"} => failures = 0
    /\ stage = "timeline" =>
          failures = IF online /\ file # "unreadable" THEN 1 ELSE 0
    /\ stage = "empty" =>
          failures = IF ~online THEN 0 ELSE IF file = "unreadable" THEN 1 ELSE 2
    /\ SourcesExhausted

\* A stage begins when all engines before it have ended, and an engine that has
\* ended has written its field.
StageInv ==
    /\ phase = "waiting" => EmptyContext
    /\ phase \in {"waiting", "stage1"} => finished \subseteq Stage1
    /\ phase \notin {"waiting", "stage1"} => Stage1 \subseteq finished
    /\ phase \notin {"waiting", "stage1", "stage2"} => "combat" \in finished
    /\ phase \in {"stage4", "complete"} => Stage3 \subseteq finished
    /\ phase = "complete" => "model" \in finished
    /\ \A e \in Engines : e \in finished <=> field[e] # "none"

\* The timeline of GameStateEngine is empty only for an empty game.
JudgeInv ==
    /\ field["game_state"] = "result" /\ Duration > 0 => states # <<>>
    /\ IntentsAreJudged

\* What an engine has seen of another one is still in the context.
ReadInv ==
    /\ \A i \in 1 .. Len(recalls) : recalls[i] => WavesKnown
    /\ \A i \in 1 .. Len(states) :
          states[i].composed => field["composition"] = "result"
    /\ ReadsAreMonotone

-----------------------------------------------------------------------------
(* Types *)

LEMMA ChunkHeadersType ==
    ASSUME NEW h \in Headers
    PROVE  ChunkHeaders(h) \in 0 .. MaxChunks
<1>1. h.count \in Nat /\ h.size \in Nat /\ h.size >= 32
  BY ParserConstants DEF MinSize, Headers
<1>2. PICK n \in Nat : n = (h.size - HeadersAt) \div HeaderSize
  BY <1>1 DEF HeadersAt, HeaderSize
<1>3. ChunkHeaders(h) = IF h.count > MaxChunks THEN 0
                        ELSE IF h.count <= n THEN h.count ELSE n
  BY <1>2, Zenon DEF ChunkHeaders
<1>4. ASSUME NEW c \in Nat, NEW k \in Nat
      PROVE  (IF c > MaxChunks THEN 0 ELSE IF c <= k THEN c ELSE k)
                \in 0 .. MaxChunks
  BY SMT DEF MaxChunks
<1>5. h.count \in Nat
  BY <1>1
<1>6. QED
  BY <1>3, <1>4, <1>5, Zenon

LEMMA NoHeaderType == NoHeader \in Headers
<1>1. PICK c \in Counts, s \in Sizes : TRUE
  BY ParserConstants
<1>2. [count |-> c, size |-> s] \in Headers
  BY DEF Headers
<1>3. QED
  BY <1>2 DEF NoHeader

LEMMA ParseResultType ==
    ASSUME NEW q \in Quality, NEW t \in BOOLEAN, NEW m \in BOOLEAN,
           NEW c \in 0 .. MaxChunks, NEW f \in BOOLEAN
    PROVE  /\ ParseResult(q, t, m, c, f) \in ParseResults
           /\ ParseResult(q, t, m, c, f).timeline = t
           /\ ParseResult(q, t, m, c, f).metadata = m
           /\ ParseResult(q, t, m, c, f).chunks = c
  BY DEF ParseResult, ParseResults

LEMMA NoResultType == NoResult \in ParseResults
<1>1. "FALLBACK" \in Quality /\ 0 \in 0 .. MaxChunks
  BY DEF Quality, MaxChunks
<1>2. QED
  BY <1>1, ParseResultType DEF NoResult

LEMMA TimelinesType == Timelines \subseteq Seq(Event)
  BY DEF Timelines

LEMMA EmptyTimeline == <<>> \in Seq(Event)
  OBVIOUS

LEMMA EmptyContextType ==
    ASSUME EmptyContext
    PROVE  /\ field \in [Engines -> {"none", "default", "result"}]
           /\ finished \subseteq Engines
           /\ recalls \in Seq(BOOLEAN) /\ states \in Seq(State)
           /\ judged \in BOOLEAN /\ fails = 0
<1>1. field \in [Engines -> {"none", "default", "result"}]
  BY DEF EmptyContext
<1>2. <<>> \in Seq(BOOLEAN) /\ <<>> \in Seq(State)
  OBVIOUS
<1>3. finished \subseteq Engines /\ judged \in BOOLEAN /\ fails = 0
  BY DEF EmptyContext
<1>4. QED
  BY <1>1, <1>2, <1>3, Zenon DEF EmptyContext

LEMMA DurationType ==
    ASSUME events \in Seq(Event), snapshots \in BOOLEAN
    PROVE  Duration \in Nat
<1>1. events # <<>> => events[Len(events)] \in Event
  OBVIOUS
<1>2. QED
  BY <1>1, PipelineConstants DEF Duration, Event

\* The sets of events that SampleGame counts are finite.
LEMMA WindowFinite ==
    ASSUME events \in Seq(Event), NEW S, S \subseteq 1 .. Len(events)
    PROVE  Cardinality(S) \in Nat
<1>1. IsFiniteSet(1 .. Len(events))
  BY FS_Interval
<1>2. QED
  BY <1>1, FS_Subset, FS_CardinalityType

LEMMA CountersType ==
    ASSUME states \in Seq(State)
    PROVE  Counters \in State
<1>1. CASE states = <<>>
  BY <1>1 DEF Counters, State
<1>2. CASE states # <<>>
  BY <1>2 DEF Counters
<1>3. QED
  BY <1>1, <1>2

LEMMA IsMineType ==
    ASSUME NEW i
    PROVE  IsMine(i) \in BOOLEAN
  BY DEF IsMine

-----------------------------------------------------------------------------
(* The parser *)

LEMMA ParserStep ==
    ASSUME ParserTypeOK, ParserInv, ParserNext
    PROVE  ParserTypeOK' /\ ParserInv'
<1>1. /\ "PARTIAL" \in Quality /\ "FALLBACK" \in Quality
      /\ 0 \in 0 .. MaxChunks
  BY DEF Quality, MaxChunks
<1>2. CASE ParseFile
  <2>1. CASE Try("merge")
    BY <1>2, <2>1 DEF ParseFile, Try, ParserTypeOK, Stages, ParserInv,
       SourcesExhausted
  <2>2. CASE /\ file = "readable" /\ ChunkHeaders(header) > 0
             /\ Return(ParseResult("PARTIAL", FALSE, TRUE,
                                   ChunkHeaders(header), FALSE))
    <3>1. ChunkHeaders(header) \in 0 .. MaxChunks
      BY ChunkHeadersType DEF ParserTypeOK
    <3>2. /\ result' \in ParseResults
          /\ result'.metadata = TRUE
          /\ result'.chunks = ChunkHeaders(header)
      BY <1>1, <2>2, <3>1, ParseResultType DEF Return
    <3>3. ParserTypeOK'
      BY <1>2, <2>2, <3>2 DEF ParseFile, Return, ParserTypeOK, Stages
    <3>4. ParserInv'
      <4>1. ChunkHeaders(header) # 0
        BY <2>2, <3>1 DEF MaxChunks
      <4>2. stage' = "done" /\ result'.chunks # 0 /\ result'.metadata = TRUE
        BY <2>2, <3>2, <4>1, Zenon DEF Return
      <4>3. QED
        BY <4>2 DEF ParserInv, SourcesExhausted
    <3>5. QED
      BY <3>3, <3>4
  <2>3. QED
    BY <1>2, <2>1, <2>2 DEF ParseFile
<1>3. CASE MergeTimeline
  <2>1. CASE Try("timeline")
    BY <1>3, <2>1 DEF MergeTimeline, Try, Return, FetchFails, ParserTypeOK,
       Stages, ParserInv, SourcesExhausted
  <2>2. CASE /\ UNCHANGED failures
             /\ Return(ParseResult("PARTIAL", TRUE, file = "readable", 0, FALSE))
    <3>1. /\ result' \in ParseResults
          /\ result'.timeline = TRUE
          /\ result'.metadata = (file = "readable")
      BY <1>1, <2>2, ParseResultType DEF Return
    <3>2. QED
      BY <1>3, <2>2, <3>1
         DEF MergeTimeline, Return, ParserTypeOK, Stages, ParserInv, SourcesExhausted
  <2>3. QED
    BY <1>3, <2>1, <2>2 DEF MergeTimeline
<1>4. CASE TimelineOnly
  <2>1. CASE Try("empty")
    BY <1>4, <2>1 DEF TimelineOnly, Try, Return, FetchFails, ParserTypeOK,
       Stages, Files, ParserInv, SourcesExhausted
  <2>2. CASE /\ UNCHANGED failures /\ online
             /\ Return(ParseResult("FALLBACK", TRUE, FALSE, 0, FALSE))
    <3>1. /\ result' \in ParseResults
          /\ result'.timeline = TRUE
      BY <1>1, <2>2, ParseResultType DEF Return
    <3>2. ParserTypeOK'
      BY <1>4, <2>2, <3>1 DEF TimelineOnly, Return, ParserTypeOK, Stages
    <3>3. ParserInv'
      <4>1. /\ stage' = "done" /\ result'.timeline
            /\ file' = file /\ failures' = failures
        BY <1>4, <2>2, <3>1 DEF TimelineOnly, Return
      <4>2. file = "readable" => failures = 1
        BY <1>4, <2>2 DEF TimelineOnly, ParserInv
      <4>3. QED
        BY <4>1, <4>2 DEF ParserInv, SourcesExhausted
    <3>4. QED
      BY <3>2, <3>3
  <2>3. QED
    BY <1>4, <2>1, <2>2 DEF TimelineOnly
<1>5. CASE GiveUp
  <2>1. result' \in ParseResults
    BY <1>1, <1>5, ParseResultType DEF GiveUp, Return
  <2>2. ParserTypeOK'
    BY <1>5, <2>1 DEF GiveUp, Return, ParserTypeOK, Stages
  <2>3. ParserInv'
    <3>1. /\ stage' = "done" /\ file' = file /\ failures' = failures
          /\ online' = online
      BY <1>5 DEF GiveUp, Return
    <3>2. ~online \/ (IF file = "unreadable" THEN failures = 1 ELSE failures = 2)
      BY <1>5 DEF GiveUp, ParserInv
    <3>3. QED
      BY <3>1, <3>2 DEF ParserInv, SourcesExhausted
  <2>4. QED
    BY <2>2, <2>3
<1>6. QED
  BY <1>2, <1>3, <1>4, <1>5 DEF ParserNext

-----------------------------------------------------------------------------
(* The pipeline *)

LEMMA StageTable ==
    ASSUME phase \in Phases
    PROVE  /\ phase = "waiting" => EnginesOf[phase] = {}
           /\ phase = "stage1" =>
                 EnginesOf[phase] = Stage1 /\ After[phase] = "stage2"
           /\ phase = "stage2" =>
                 EnginesOf[phase] = {"combat"} /\ After[phase] = "stage3"
           /\ phase = "stage3" =>
                 EnginesOf[phase] = Stage3 /\ After[phase] = "stage4"
           /\ phase = "stage4" =>
                 EnginesOf[phase] = {"model"} /\ After[phase] = "complete"
           /\ phase = "complete" => EnginesOf[phase] = {}
  BY DEF EnginesOf, After, Phases

\* The end of an engine, the only step that writes the context's fields.
EngineEnds(e, v) ==
    /\ Running(e)
    /\ v \in {"default", "result"}
    /\ Publish(e, v)
    /\ UNCHANGED phase

LEMMA KindsOfStep ==
    ASSUME PipelineTypeOK, PipelineNext
    PROVE  /\ UNCHANGED inputVars
           /\ fails' \in 0 .. MaxFails
           /\ \/ RateRecall \/ SampleGame \/ NextStage
              \/ \E e \in Engines, v \in {"default", "result"} : EngineEnds(e, v)
<1> USE PipelineConstants DEF EngineEnds, Fallback, PipelineTypeOK
<1>1. ASSUME NEW e \in Engines, Finish(e)
      PROVE  /\ UNCHANGED inputVars /\ fails' \in 0 .. MaxFails
             /\ \E v \in {"default", "result"} : EngineEnds(e, v)
  BY <1>1 DEF Finish
<1>2. ASSUME FinishTempo
      PROVE  /\ UNCHANGED inputVars /\ fails' \in 0 .. MaxFails
             /\ \E v \in {"default", "result"} : EngineEnds("tempo", v)
  BY <1>2 DEF FinishTempo
<1>3. ASSUME FinishGameState
      PROVE  /\ UNCHANGED inputVars /\ fails' \in 0 .. MaxFails
             /\ \E v \in {"default", "result"} : EngineEnds("game_state", v)
  BY <1>3 DEF FinishGameState
<1>4. ASSUME FinishIntent
      PROVE  /\ UNCHANGED inputVars /\ fails' \in 0 .. MaxFails
             /\ \E v \in {"default", "result"} : EngineEnds("intent", v)
  BY <1>4 DEF FinishIntent
<1>5. ASSUME RateRecall \/ SampleGame \/ NextStage
      PROVE  UNCHANGED inputVars /\ fails' \in 0 .. MaxFails
  BY <1>5 DEF RateRecall, SampleGame, NextStage
<1>6. /\ {"wave", "composition", "combat", "predictive", "model"} \subseteq Engines
      /\ {"macro", "tempo", "game_state", "intent"} \subseteq Engines
  BY DEF Engines, Stage1, Stage3
<1> HIDE DEF EngineEnds
<1>7. QED
  BY <1>1, <1>2, <1>3, <1>4, <1>5, <1>6 DEF PipelineNext, FinishMacro

LEMMA SampleType ==
    ASSUME PipelineTypeOK, SampleGame
    PROVE  /\ states' \in Seq(State)
           /\ Len(states') = Len(states) + 1
           /\ states'[Len(states) + 1].composed = (field["composition"] = "result")
           /\ \A i \in 1 .. Len(states) : states'[i] = states[i]
<1> DEFINE window == Window(SampleTime - Interval, SampleTime)
           kills == window \cap Of("kill")
           mine == {i \in kills : IsMine(i)}
           barons == window \cap Of("baron")
           sample == [kills |-> Counters.kills + Cardinality(mine),
                      deaths |-> Counters.deaths + Cardinality(kills \ mine),
                      baron |-> IF barons = {} THEN Counters.baron
                                ELSE IsMine(Last(barons)),
                      composed |-> field["composition"] = "result"]
<1>1. states' = Append(states, sample) /\ states \in Seq(State)
  BY DEF SampleGame, PipelineTypeOK
<1>2. kills \subseteq 1 .. Len(events)
  BY DEF Of
<1>3. Cardinality(mine) \in Nat /\ Cardinality(kills \ mine) \in Nat
  <2>1. mine \subseteq 1 .. Len(events) /\ kills \ mine \subseteq 1 .. Len(events)
    BY <1>2
  <2>2. events \in Seq(Event)
    BY DEF PipelineTypeOK
  <2> HIDE DEF mine, kills
  <2>3. QED
    BY <2>1, <2>2, WindowFinite
<1>4. Counters \in State
  BY <1>1, CountersType
<1>5. (IF barons = {} THEN Counters.baron ELSE IsMine(Last(barons))) \in BOOLEAN
  <2>1. Counters.baron \in BOOLEAN
    BY <1>4 DEF State
  <2>2. IsMine(Last(barons)) \in BOOLEAN
    BY IsMineType
  <2> HIDE DEF barons
  <2>3. QED
    BY <2>1, <2>2
<1>6. sample \in State /\ sample.composed = (field["composition"] = "result")
  <2> HIDE DEF kills, mine, barons
  <2>1. QED
    BY <1>3, <1>4, <1>5 DEF State
<1> HIDE DEF sample
<1>7. QED
  BY <1>1, <1>6

\* What the engines that read while others write have seen.
LEMMA ReadsOfStep ==
    ASSUME PipelineNext
    PROVE  /\ recalls' \in {recalls, <<>>, Append(recalls, WavesKnown)}
           /\ SampleGame \/ states' \in {states, <<>>}
<1>1. ASSUME NEW e \in Engines, Finish(e)
      PROVE  UNCHANGED <<recalls, states>>
  BY <1>1 DEF Finish
<1>2. FinishMacro => UNCHANGED <<recalls, states>>
  BY <1>1 DEF FinishMacro, Finish
<1>3. {"wave", "composition", "combat", "predictive", "model"} \subseteq Engines
  BY DEF Engines, Stage1, Stage3
<1>4. CASE \E e \in {"wave", "composition", "combat", "predictive", "model"} :
              Finish(e)
  BY <1>1, <1>3, <1>4
<1>5. CASE RateRecall \/ FinishTempo \/ FinishIntent \/ NextStage
  BY <1>5 DEF RateRecall, FinishTempo, FinishIntent, NextStage
<1>6. CASE SampleGame \/ FinishGameState
  BY <1>6 DEF SampleGame, FinishGameState
<1>7. QED
  BY <1>2, <1>4, <1>5, <1>6 DEF PipelineNext

LEMMA PipelineTypes ==
    ASSUME PipelineTypeOK, PipelineNext
    PROVE  PipelineTypeOK'
<1>1. /\ (events \in Seq(Event))'
      /\ (snapshots \in BOOLEAN /\ teams \in BOOLEAN)'
      /\ (fails \in 0 .. MaxFails)'
  BY KindsOfStep DEF inputVars, PipelineTypeOK
<1>2. /\ (phase \in Phases)'
      /\ (field \in [Engines -> {"none", "default", "result"}])'
      /\ (finished \subseteq Engines)'
  <2>1. CASE RateRecall \/ SampleGame
    BY <2>1 DEF RateRecall, SampleGame, PipelineTypeOK
  <2>2. CASE NextStage
    <3>1. After[phase] \in Phases
      BY <2>2, StageTable DEF PipelineTypeOK, NextStage, Phases
    <3>2. QED
      BY <2>2, <3>1 DEF NextStage, PipelineTypeOK
  <2>3. CASE \E e \in Engines, v \in {"default", "result"} : EngineEnds(e, v)
    BY <2>3 DEF EngineEnds, Publish, PipelineTypeOK
  <2>4. QED
    BY <2>1, <2>2, <2>3, KindsOfStep
<1>3. (recalls \in Seq(BOOLEAN))'
  <2>1. recalls \in Seq(BOOLEAN) /\ WavesKnown \in BOOLEAN
    BY DEF PipelineTypeOK, WavesKnown
  <2>2. Append(recalls, WavesKnown) \in Seq(BOOLEAN) /\ <<>> \in Seq(BOOLEAN)
    <3> HIDE DEF WavesKnown
    <3>1. QED
      BY <2>1
  <2>3. QED
    BY <2>1, <2>2, ReadsOfStep, Zenon
<1>4. (states \in Seq(State))'
  <2>1. states \in Seq(State) /\ <<>> \in Seq(State)
    BY DEF PipelineTypeOK
  <2>2. QED
    BY <2>1, ReadsOfStep, SampleType, Zenon
<1>5. (judged \in BOOLEAN)'
  BY DEF PipelineNext, Finish, FinishMacro, RateRecall, FinishTempo,
     SampleGame, FinishGameState, FinishIntent, NextStage, PipelineTypeOK
<1>6. QED
  BY <1>1, <1>2, <1>3, <1>4, <1>5 DEF PipelineTypeOK

LEMMA StageStep ==
    ASSUME PipelineTypeOK, StageInv, PipelineNext
    PROVE  StageInv'
<1>1. CASE RateRecall \/ SampleGame
  <2>1. UNCHANGED <<phase, field, finished>> /\ phase # "waiting"
    BY <1>1, StageTable DEF RateRecall, SampleGame, Running, PipelineTypeOK
  <2>2. QED
    BY <2>1 DEF StageInv
<1>2. ASSUME NEW e \in Engines, NEW v \in {"default", "result"}, EngineEnds(e, v)
      PROVE  StageInv'
  <2>1. /\ phase' = phase /\ e \in EnginesOf[phase]
        /\ finished' = finished \cup {e}
        /\ field' = [field EXCEPT ![e] = v]
    BY <1>2 DEF EngineEnds, Running, Publish
  <2>2. phase # "waiting" /\ phase \in {"waiting", "stage1"} => e \in Stage1
    BY <2>1, StageTable DEF PipelineTypeOK
  <2>3. phase # "waiting"
    BY <2>1, StageTable DEF PipelineTypeOK
  <2>4. \A d \in Engines : d \in finished' <=> field'[d] # "none"
    BY <2>1 DEF PipelineTypeOK, StageInv
  <2>5. QED
    BY <2>1, <2>2, <2>3, <2>4 DEF StageInv
<1>3. CASE NextStage
  <2>1. /\ EnginesOf[phase] \subseteq finished /\ EnginesOf[phase] # {}
        /\ phase' = After[phase]
        /\ UNCHANGED <<field, finished>>
    BY <1>3 DEF NextStage
  <2>2. \/ phase = "stage1" /\ phase' = "stage2" /\ Stage1 \subseteq finished
        \/ phase = "stage2" /\ phase' = "stage3" /\ "combat" \in finished
        \/ phase = "stage3" /\ phase' = "stage4" /\ Stage3 \subseteq finished
        \/ phase = "stage4" /\ phase' = "complete" /\ "model" \in finished
    BY <2>1, StageTable DEF PipelineTypeOK, Phases
  <2>3. QED
    BY <2>1, <2>2 DEF StageInv
<1>4. QED
  BY <1>1, <1>2, <1>3, KindsOfStep

LEMMA JudgeStep ==
    ASSUME PipelineTypeOK, StageInv, JudgeInv, PipelineNext
    PROVE  JudgeInv'
<1>1. Duration' = Duration /\ snapshots' = snapshots
  BY KindsOfStep DEF inputVars, Duration
<1>2. Duration \in Nat
  BY DurationType DEF PipelineTypeOK
<1>3. {"game_state", "intent"} \subseteq Engines
  BY DEF Engines, Stage1, Stage3
<1>4. CASE FinishGameState
  <2>1. /\ field' = [field EXCEPT !["game_state"] = field'["game_state"]]
        /\ UNCHANGED judged
    BY <1>3, <1>4 DEF FinishGameState, Publish, Fallback, PipelineTypeOK
  <2>2. field'["game_state"] = "result" => ~MoreSamples /\ states' = states
    BY <1>3, <1>4 DEF FinishGameState, Publish, Fallback, PipelineTypeOK
  <2>3. Duration > 0 /\ states = <<>> => MoreSamples
    <3>1. states = <<>> => SampleTime = Interval
      BY PipelineConstants DEF SampleTime
    <3>2. QED
      BY <1>2, <3>1, PipelineConstants DEF MoreSamples
  <2>4. phase = "stage1" /\ "intent" \notin finished
    <3>1. "game_state" \in EnginesOf[phase]
      BY <1>4 DEF FinishGameState, Running
    <3>2. phase = "stage1"
      BY <3>1, StageTable DEF PipelineTypeOK, Phases, Stage3
    <3>3. QED
      BY <3>2 DEF StageInv, Stage1
  <2>5. field'["intent"] = "none"
    BY <1>3, <2>1, <2>4 DEF StageInv, PipelineTypeOK
  <2>6. QED
    BY <1>1, <2>2, <2>3, <2>5 DEF JudgeInv, IntentsAreJudged
<1>5. CASE FinishIntent
  <2>1. /\ field' = [field EXCEPT !["intent"] = field'["intent"]]
        /\ UNCHANGED states
        /\ field'["intent"] = "result" =>
              judged' = (snapshots /\ Duration > 0 /\ states # <<>>)
    BY <1>3, <1>5 DEF FinishIntent, Publish, Fallback, PipelineTypeOK
  <2>2. field["game_state"] \in {"default", "result"}
    <3>1. "intent" \in EnginesOf[phase]
      BY <1>5 DEF FinishIntent, Running
    <3>2. phase = "stage3"
      BY <3>1, StageTable DEF PipelineTypeOK, Phases, Stage1
    <3>3. "game_state" \in finished
      BY <3>2 DEF StageInv, Stage1
    <3>4. QED
      BY <1>3, <3>3 DEF StageInv, PipelineTypeOK
  <2>3. field'["game_state"] = field["game_state"]
    BY <1>3, <2>1 DEF PipelineTypeOK
  <2>4. QED
    BY <1>1, <2>1, <2>2, <2>3 DEF JudgeInv, IntentsAreJudged
<1>6. CASE SampleGame
  <2>1. UNCHANGED <<field, judged>>
    BY <1>6 DEF SampleGame
  <2>2. states' # <<>>
    BY <1>6, SampleType DEF PipelineTypeOK
  <2>3. QED
    BY <1>1, <2>1, <2>2 DEF JudgeInv, IntentsAreJudged
<1>7. ASSUME NEW e \in Engines \ {"game_state", "intent"}, Finish(e)
      PROVE  JudgeInv'
  <2>1. /\ field'["game_state"] = field["game_state"]
        /\ field'["intent"] = field["intent"]
        /\ UNCHANGED <<states, judged>>
    BY <1>3, <1>7 DEF Finish, Publish, Fallback, PipelineTypeOK
  <2>2. QED
    BY <1>1, <2>1 DEF JudgeInv, IntentsAreJudged
<1>8. CASE RateRecall \/ FinishTempo \/ NextStage
  <2>1. /\ field'["game_state"] = field["game_state"]
        /\ field'["intent"] = field["intent"]
        /\ UNCHANGED <<states, judged>>
    BY <1>3, <1>8 DEF RateRecall, FinishTempo, NextStage, Publish, Fallback,
       PipelineTypeOK
  <2>2. QED
    BY <1>1, <2>1 DEF JudgeInv, IntentsAreJudged
<1>9. {"wave", "composition", "combat", "predictive", "model", "macro"}
         \subseteq Engines \ {"game_state", "intent"}
  BY DEF Engines, Stage1, Stage3
<1>10. QED
  BY <1>4, <1>5, <1>6, <1>7, <1>8, <1>9 DEF PipelineNext, FinishMacro

LEMMA ReadStep ==
    ASSUME PipelineTypeOK, StageInv, ReadInv, PipelineNext
    PROVE  ReadInv'
<1>1. {"wave", "composition"} \subseteq Engines
  BY DEF Engines, Stage1
<1>2. /\ WavesKnown => WavesKnown'
      /\ field["composition"] = "result" => field'["composition"] = "result"
  <2>1. ASSUME NEW d \in Engines, field[d] = "result"
        PROVE  field'[d] = "result"
    <3>1. CASE RateRecall \/ SampleGame \/ NextStage
      BY <2>1, <3>1 DEF RateRecall, SampleGame, NextStage
    <3>2. ASSUME NEW e \in Engines, NEW v \in {"default", "result"},
                 EngineEnds(e, v)
          PROVE  field'[d] = "result"
      <4>1. d \in finished
        BY <2>1 DEF StageInv
      <4>2. e # d
        BY <3>2, <4>1 DEF EngineEnds, Running
      <4>3. QED
        BY <2>1, <3>2, <4>2 DEF EngineEnds, Publish, PipelineTypeOK
    <3>3. QED
      BY <3>1, <3>2, KindsOfStep
  <2>2. snapshots' = snapshots /\ Duration' = Duration
    BY KindsOfStep DEF inputVars, Duration
  <2>3. QED
    BY <1>1, <2>1, <2>2 DEF WavesKnown
<1>3. /\ \A i \in 1 .. Len(recalls') : recalls'[i] => WavesKnown'
      /\ \A i, j \in 1 .. Len(recalls') : i <= j /\ recalls'[i] => recalls'[j]
  <2>1. WavesKnown \in BOOLEAN /\ recalls \in Seq(BOOLEAN)
    BY DEF WavesKnown, PipelineTypeOK
  <2>2. CASE recalls' = recalls
    BY <1>2, <2>2 DEF ReadInv, ReadsAreMonotone
  <2>3. CASE recalls' = <<>>
    BY <2>3
  <2>4. CASE recalls' = Append(recalls, WavesKnown)
    <3> HIDE DEF WavesKnown
    <3>1. /\ Len(recalls') = Len(recalls) + 1 /\ Len(recalls) \in Nat
          /\ recalls'[Len(recalls) + 1] = WavesKnown
          /\ \A i \in 1 .. Len(recalls) : recalls'[i] = recalls[i]
      BY <2>1, <2>4
    <3>2. QED
      BY <1>2, <3>1 DEF ReadInv, ReadsAreMonotone
  <2>5. QED
    BY <2>2, <2>3, <2>4, ReadsOfStep
<1>4. /\ \A i \in 1 .. Len(states') :
            states'[i].composed => field'["composition"] = "result"
      /\ \A i, j \in 1 .. Len(states') :
            i <= j /\ states'[i].composed => states'[j].composed
  <2>1. CASE SampleGame
    <3>1. Len(states) \in Nat
      BY DEF PipelineTypeOK
    <3>2. /\ Len(states') = Len(states) + 1
          /\ \A i \in 1 .. Len(states) : states'[i] = states[i]
      BY <2>1, SampleType
    <3>3. field' = field
      BY <2>1 DEF SampleGame
    <3>4. CASE field["composition"] = "result"
      <4>1. states'[Len(states) + 1].composed = TRUE
        BY <2>1, <3>4, SampleType
      <4>2. QED
        BY <3>1, <3>2, <3>3, <3>4, <4>1 DEF ReadInv, ReadsAreMonotone
    <3>5. CASE field["composition"] # "result"
      <4>1. states'[Len(states) + 1].composed = FALSE
        BY <2>1, <3>5, SampleType
      <4>2. QED
        BY <3>1, <3>2, <3>3, <3>5, <4>1 DEF ReadInv, ReadsAreMonotone
    <3>6. QED
      BY <3>4, <3>5
  <2>2. CASE states' = states
    BY <1>2, <2>2 DEF ReadInv, ReadsAreMonotone
  <2>3. CASE states' = <<>>
    BY <2>3
  <2>4. QED
    BY <2>1, <2>2, <2>3, ReadsOfStep
<1>5. QED
  BY <1>3, <1>4 DEF ReadInv, ReadsAreMonotone

-----------------------------------------------------------------------------
(* Parser and pipeline together *)

Inv == TypeOK /\ ParserInv /\ StageInv /\ JudgeInv /\ ReadInv

LEMMA InvInit == Init => Inv
<1> SUFFICES ASSUME Init PROVE Inv
  OBVIOUS
<1>1. ParserTypeOK /\ ParserInv
  <2>1. /\ stage \in {"file", "idle"} /\ file \in Files /\ header \in Headers
        /\ online \in BOOLEAN /\ failures = 0 /\ result = NoResult
    BY NoHeaderType DEF Init, ParserInit, ParserIsIdle, Files
  <2>2. QED
    BY <2>1, NoResultType DEF ParserTypeOK, Stages, ParserInv, SourcesExhausted
<1>2. PipelineTypeOK
  <2>1. 0 \in 0 .. MaxFails
    BY PipelineConstants
  <2>2. events \in Timelines \cup {<<>>} /\ snapshots \in BOOLEAN /\ teams \in BOOLEAN
    BY DEF Init
  <2>3. events \in Seq(Event)
    BY <2>2, TimelinesType, EmptyTimeline
  <2>4. phase \in Phases
    BY DEF Init, Phases
  <2>5. EmptyContext
    BY DEF Init
  <2>6. QED
    BY <2>1, <2>2, <2>3, <2>4, <2>5, EmptyContextType DEF PipelineTypeOK
<1>3. EmptyContext /\ phase \in {"waiting", "stage1"}
  BY DEF Init
<1>4. {"game_state", "intent"} \subseteq Engines
  BY DEF Engines, Stage1, Stage3
<1>5. StageInv
  BY <1>3 DEF EmptyContext, StageInv
<1>6. JudgeInv /\ ReadInv
  BY <1>3, <1>4 DEF EmptyContext, JudgeInv, IntentsAreJudged, ReadInv,
     ReadsAreMonotone
<1>7. QED
  BY <1>1, <1>2, <1>5, <1>6 DEF Inv, TypeOK

LEMMA HandOver ==
    ASSUME Inv, FromParseResult
    PROVE  Inv'
<1>1. ParserTypeOK' /\ ParserInv'
  <2>1. /\ stage' = "idle" /\ file' = "missing" /\ header' = NoHeader
        /\ online' = FALSE /\ failures' = 0 /\ result' = NoResult
    BY DEF FromParseResult, ParserReturns
  <2>2. ParserTypeOK'
    <3>1. (header \in Headers)' /\ (result \in ParseResults)'
      BY <2>1, NoHeaderType, NoResultType
    <3>2. (stage \in Stages /\ file \in Files /\ failures \in 0 .. 2)'
      BY <2>1 DEF Stages, Files
    <3>3. (online \in BOOLEAN)'
      BY <2>1, Zenon
    <3>4. QED
      BY <3>1, <3>2, <3>3 DEF ParserTypeOK
  <2>3. ParserInv'
    BY <2>1 DEF ParserInv, SourcesExhausted
  <2>4. QED
    BY <2>2, <2>3
<1>2. /\ EmptyContext /\ EmptyContext'
      /\ phase' = "stage1"
  BY DEF FromParseResult, Inv, StageInv, EmptyContext
<1>3. PipelineTypeOK'
  <2>1. events' \in Seq(Event)
    <3>1. events' \in Timelines \cup {<<>>}
      BY DEF FromParseResult
    <3>2. QED
      BY <3>1, TimelinesType, EmptyTimeline
  <2>2. QED
    BY <2>1 DEF FromParseResult, Inv, TypeOK, PipelineTypeOK, Phases
<1>4. {"game_state", "intent"} \subseteq Engines
  BY DEF Engines, Stage1, Stage3
<1>5. StageInv'
  BY <1>2 DEF EmptyContext, StageInv
<1>6. JudgeInv' /\ ReadInv'
  BY <1>2, <1>4 DEF EmptyContext, JudgeInv, IntentsAreJudged, ReadInv,
     ReadsAreMonotone
<1>7. QED
  BY <1>1, <1>3, <1>5, <1>6 DEF Inv, TypeOK

LEMMA InvNext == Inv /\ [Next]_vars => Inv'
<1> SUFFICES ASSUME Inv, [Next]_vars PROVE Inv'
  OBVIOUS
<1>1. ASSUME UNCHANGED parserVars
      PROVE  (ParserTypeOK /\ ParserInv)'
  BY <1>1 DEF Inv, TypeOK, parserVars, ParserTypeOK, ParserInv, SourcesExhausted
<1>2. ASSUME UNCHANGED pipelineVars
      PROVE  (PipelineTypeOK /\ StageInv /\ JudgeInv /\ ReadInv)'
  <2>1. UNCHANGED <<phase, events, snapshots, teams, field, finished, recalls,
                    states, judged, fails>>
    BY <1>2 DEF pipelineVars, inputVars
  <2>2. Duration' = Duration /\ WavesKnown' = WavesKnown
    BY <2>1 DEF Duration, WavesKnown
  <2>3. PipelineTypeOK' /\ StageInv'
    BY <2>1 DEF Inv, TypeOK, PipelineTypeOK, StageInv, EmptyContext
  <2>4. JudgeInv' /\ ReadInv'
    BY <2>1, <2>2 DEF Inv, JudgeInv, IntentsAreJudged, ReadInv, ReadsAreMonotone
  <2>5. QED
    BY <2>3, <2>4
<1>3. CASE ParserNext /\ UNCHANGED pipelineVars
  BY <1>2, <1>3, ParserStep DEF Inv, TypeOK
<1>4. CASE FromParseResult
  BY <1>4, HandOver
<1>5. CASE PipelineNext /\ UNCHANGED parserVars
  BY <1>1, <1>5, PipelineTypes, StageStep, JudgeStep, ReadStep DEF Inv, TypeOK
<1>6. CASE UNCHANGED vars
  BY <1>1, <1>2, <1>6 DEF vars, Inv, TypeOK
<1>7. QED
  BY <1>3, <1>4, <1>5, <1>6 DEF Next

\* The inductive invariant of the parser and the pipeline.
THEOREM Invariance == Spec => []Inv
  BY InvInit, InvNext, PTL DEF Spec

\* Every reachable state has its type: the context, the timelines and the
\* results keep their shape whatever engines fail (models.py, game_context.py).
THEOREM TypeCorrectness == Spec => []TypeOK
<1>1. Inv => TypeOK
  BY DEF Inv
<1>2. QED
  BY <1>1, Invariance, PTL

\* parse_with_fallback throws nothing away that could be had, for every chunk
\* count and every size of a replay (resilience.py:58-112).
THEOREM NothingThrownAway == Spec => []SourcesExhausted
<1>1. Inv => SourcesExhausted
  BY DEF Inv, ParserInv
<1>2. QED
  BY <1>1, Invariance, PTL

\* The barrier between stage 1 and stage 3 brings the game states to
\* IntentEngine (game_context.py:164-272).
THEOREM IntentsSeeTheGame == Spec => []IntentsAreJudged
<1>1. Inv => IntentsAreJudged
  BY DEF Inv, JudgeInv
<1>2. QED
  BY <1>1, Invariance, PTL

\* A result of a concurrent engine, once seen, stays in sight
\* (game_context.py:164-189).
THEOREM ReadsStay == Spec => []ReadsAreMonotone
<1>1. Inv => ReadsAreMonotone
  BY DEF Inv, ReadInv
<1>2. QED
  BY <1>1, Invariance, PTL

-----------------------------------------------------------------------------
(* The contract *)

\* An engine that runs finds the values of the stages before it, and has left
\* none itself.
LEMMA NeedsAreThere ==
    ASSUME PipelineTypeOK, StageInv, NEW e \in Engines, Running(e)
    PROVE  /\ phase \in {"stage1", "stage2", "stage3", "stage4"}
           /\ field[e] = "none"
           /\ \A d \in Needs[e] : field[d] # "none"
<1>1. phase \in Phases /\ e \in EnginesOf[phase] /\ e \notin finished
  BY DEF Running, PipelineTypeOK
<1>2. \/ phase = "stage1" /\ e \in Stage1
      \/ phase = "stage2" /\ e = "combat"
      \/ phase = "stage3" /\ e \in Stage3
      \/ phase = "stage4" /\ e = "model"
  BY <1>1, StageTable DEF Phases
<1>3. Needs[e] \subseteq finished
  BY <1>2 DEF Needs, StageInv, Engines, Stage1, Stage3
<1>4. Needs[e] \subseteq Engines
  BY DEF Needs, Engines
<1> QED
  BY <1>1, <1>2, <1>3, <1>4 DEF StageInv

LEMMA ContractInit == Init => Contract!Init
BY DEF Init, EmptyContext, Contract!Init

LEMMA ContractNext == Inv /\ [Next]_vars => [Contract!Next]_(Contract!contextVars)
<1> SUFFICES ASSUME Inv, [Next]_vars PROVE [Contract!Next]_(Contract!contextVars)
  OBVIOUS
<1> USE DEF Contract!contextVars
<1>1. phase \in Phases
  BY DEF Inv, TypeOK, PipelineTypeOK
<1>2. ASSUME UNCHANGED <<phase, inputVars, field>>
      PROVE  UNCHANGED Contract!contextVars
  BY <1>2
<1>3. CASE UNCHANGED pipelineVars
  BY <1>2, <1>3 DEF pipelineVars
<1>4. CASE FromParseResult
  <2>1. phase = "waiting" /\ phase' = "stage1" /\ field' = field
    BY <1>4 DEF FromParseResult
  <2> QED
    BY <2>1 DEF Contract!Next, Contract!Provide
<1>5. CASE PipelineNext
  <2>1. PipelineTypeOK /\ StageInv /\ UNCHANGED inputVars
    BY <1>5, KindsOfStep DEF Inv, TypeOK
  <2>2. CASE RateRecall \/ SampleGame
    BY <1>2, <2>2 DEF RateRecall, SampleGame
  <2>3. ASSUME NEW e \in Engines, NEW v \in {"default", "result"}, EngineEnds(e, v)
        PROVE  Contract!Next
    <3>1. /\ phase \in {"stage1", "stage2", "stage3", "stage4"}
          /\ field[e] = "none"
          /\ \A d \in Needs[e] : field[d] # "none"
      BY <2>1, <2>3, NeedsAreThere DEF EngineEnds
    <3>2. phase' = phase /\ field' = [field EXCEPT ![e] = v]
      BY <2>3 DEF EngineEnds, Publish
    <3>3. Contract!Leave(e)
      BY <2>1, <3>1, <3>2 DEF Contract!Leave, Contract!Left
    <3> QED
      BY <3>3 DEF Contract!Next
  <2>4. CASE NextStage
    <3>1. EnginesOf[phase] \subseteq finished /\ phase' = After[phase] /\ field' = field
          /\ EnginesOf[phase] # {}
      BY <2>4 DEF NextStage
    <3>2. CASE phase \in {"stage1", "stage2", "stage3"}
      <4>1. phase' \in {"stage2", "stage3", "stage4"}
        BY <1>1, <3>1, <3>2, StageTable
      <4> QED
        BY <2>1, <3>1, <3>2, <4>1
    <3>3. CASE phase = "stage4"
      <4>1. phase' = "complete" /\ "model" \in finished
        BY <1>1, <3>1, <3>3, StageTable
      <4>2. Engines \subseteq finished
        BY <2>1, <3>3, <4>1 DEF StageInv, Engines
      <4>3. \A e \in Engines : field[e] # "none"
        BY <2>1, <4>2 DEF StageInv
      <4>4. Contract!Return
        BY <2>1, <3>1, <3>3, <4>1, <4>3 DEF Contract!Return, Contract!Left
      <4> QED
        BY <4>4 DEF Contract!Next
    <3> QED
      BY <1>1, <3>1, <3>2, <3>3, StageTable DEF Phases
  <2> QED
    BY <1>5, <2>1, <2>2, <2>3, <2>4, KindsOfStep
<1> QED
  BY <1>3, <1>4, <1>5 DEF Next, vars

\* The pipeline keeps its contract: whatever is interleaved in a stage and
\* whoever raises, values are left once, in the order of the stages, and all of
\* them before it ends (game_context.py:105-162).
THEOREM PipelineRefinement == Spec => ImplementsPipelineContract
BY ContractInit, ContractNext, Invariance, PTL
DEF Spec, ImplementsPipelineContract, Contract!Spec

(* What follows from the contract alone *)

AllLeftAtTheEnd == phase = "complete" => \A e \in Engines : field[e] # "none"

LEMMA ContractKeepsValues ==
    ASSUME TypeOK, [Contract!Next]_(Contract!contextVars)
    PROVE  /\ AllLeftAtTheEnd => AllLeftAtTheEnd'
           /\ \A e \in Engines, v \in {"default", "result"} :
                 field[e] = v => field'[e] = v
<1> DEFINE Moment == IF phase \in {"waiting", "complete"} THEN phase ELSE "running"
<1>1. (Moment = "complete") <=> (phase = "complete")
  OBVIOUS
<1>2. (Moment' = "complete") <=> (phase' = "complete")
  OBVIOUS
<1>3. CASE UNCHANGED Contract!contextVars \/ Contract!Provide \/ Contract!Return
  BY <1>1, <1>2, <1>3
  DEF Contract!contextVars, Contract!Provide, Contract!Return, Contract!Left,
      AllLeftAtTheEnd
<1>4. ASSUME NEW d \in Engines, Contract!Leave(d)
      PROVE  /\ AllLeftAtTheEnd => AllLeftAtTheEnd'
             /\ \A e \in Engines, v \in {"default", "result"} :
                   field[e] = v => field'[e] = v
  <2>1. Moment' = "running" /\ phase' # "complete"
    BY <1>2, <1>4 DEF Contract!Leave
  <2>2. /\ field[d] = "none"
        /\ \A e \in Engines : e # d => field'[e] = field[e]
    BY <1>4 DEF Contract!Leave, Contract!Left, TypeOK, PipelineTypeOK
  <2> QED
    BY <2>1, <2>2 DEF AllLeftAtTheEnd
<1> QED
  BY <1>3, <1>4 DEF Contract!Next

\* When the pipeline returns every engine has left a value in the context,
\* however many of them raised (run_analysis_pipeline's docstring,
\* game_context.py:124-125).
THEOREM PipelineIsComplete == Spec => []AllLeftAtTheEnd
<1>1. Contract!Init => AllLeftAtTheEnd
  BY DEF Contract!Init, AllLeftAtTheEnd
<1>2. TypeOK /\ AllLeftAtTheEnd /\ [Contract!Next]_(Contract!contextVars)
        => AllLeftAtTheEnd'
  BY ContractKeepsValues
<1> QED
  BY <1>1, <1>2, PipelineRefinement, TypeCorrectness, PTL
  DEF ImplementsPipelineContract, Contract!Spec

\* What an engine has left stays as it is until the analysis ends: the engines
\* of later stages and the caller find the same value (game_context.py:19-60).
THEOREM ValuesAreFinal ==
    ASSUME NEW e \in Engines, NEW v \in {"default", "result"}
    PROVE  Spec => [](field[e] = v => [](field[e] = v))
<1>1. TypeOK /\ field[e] = v /\ [Contract!Next]_(Contract!contextVars)
        => (field[e] = v)'
  BY ContractKeepsValues
<1> QED
  BY <1>1, PipelineRefinement, TypeCorrectness, PTL
  DEF ImplementsPipelineContract, Contract!Spec
=============================================================================
