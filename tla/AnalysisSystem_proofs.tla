----------------------- MODULE AnalysisSystem_proofs -----------------------
(***************************************************************************)
(* The theorems about the parser with the pipeline, the functions of the   *)
(* engines and the history, for the system of all three: each part moves   *)
(* by its own steps from one of its own initial states, or stays idle.     *)
(***************************************************************************)
EXTENDS AnalysisSystem, GameStates_proofs, EngineProperties_proofs, History_proofs

-----------------------------------------------------------------------------
(* The parts *)

LEMMA SystemStarts ==
    SystemInit => /\ Init \/ PipelineIsIdle
                  /\ EngineInit \/ EnginesAreIdle
                  /\ HistoryInit \/ HistoryIsIdle
BY DEF SystemInit

LEMMA SystemMoves ==
    [SystemNext]_systemVars => /\ [Next]_vars
                               /\ [EngineNext]_engineVars
                               /\ [HistoryNext]_historyVars
BY DEF SystemNext, systemVars

\* The pipeline has ended and the parser is not called: nothing happens.
LEMMA PipelineStaysIdle == PipelineIsIdle /\ [Next]_vars => PipelineIsIdle'
<1> SUFFICES ASSUME PipelineIsIdle, [Next]_vars PROVE PipelineIsIdle'
  OBVIOUS
<1>1. \A e : ~Running(e)
  BY DEF PipelineIsIdle, Running, EnginesOf
<1>2. ~PipelineNext
  BY <1>1 DEF PipelineIsIdle, PipelineNext, Finish, FinishMacro, RateRecall, FinishTempo,
              SampleGame, FinishGameState, FinishIntent, NextStage, EnginesOf
<1>3. ~ParserNext /\ ~FromParseResult
  BY DEF PipelineIsIdle, ParserIsIdle, ParserNext, ParseFile, MergeTimeline,
         TimelineOnly, GiveUp, FromParseResult
<1>4. UNCHANGED vars
  BY <1>2, <1>3 DEF Next
<1> QED
  BY <1>4 DEF PipelineIsIdle, ParserIsIdle, vars, parserVars, pipelineVars, inputVars,
              NoHeader

LEMMA EnginesStayIdle == EnginesAreIdle /\ [EngineNext]_engineVars => EnginesAreIdle'
<1> SUFFICES ASSUME EnginesAreIdle, [EngineNext]_engineVars PROVE EnginesAreIdle'
  OBVIOUS
<1>1. ~EngineNext
  BY DEF EnginesAreIdle, EngineNext, Answer, GetSnapshotAt, NearestSample,
      DetectWaveState, RateTheRecall, SimulateFullFight, AnalyzeFights,
      SnapshotOfFight, AnalyzeComposition, ClassifyPhase, DecidePostKillAction,
      InferFromEvents, ScanSnapshot, PredictObjectiveWindows, UpdateModel,
      CalcVisionDominance, Validate, DecompressChunk
<1> QED
  BY <1>1 DEF EnginesAreIdle, engineVars

LEMMA HistoryStaysIdle == HistoryIsIdle /\ [HistoryNext]_historyVars => HistoryIsIdle'
BY DEF HistoryIsIdle, HistoryNext, GetHistory, NewAnalysis, historyVars

LEMMA SystemParts ==
    SystemSpec => /\ Spec \/ []PipelineIsIdle
                  /\ EngineSpec \/ []EnginesAreIdle
                  /\ HistorySpec \/ []HistoryIsIdle
BY SystemStarts, SystemMoves, PipelineStaysIdle, EnginesStayIdle, HistoryStaysIdle, PTL
DEF SystemSpec, Spec, EngineSpec, HistorySpec

-----------------------------------------------------------------------------
(* Theorems *)

\* What the proofs say of the parser and the pipeline.
GamesAreRight ==
    /\ TypeOK /\ SourcesExhausted /\ IntentsAreJudged
    /\ ReadsAreMonotone /\ EveryKillCounted /\ BaronShownWhileItLasts

\* What the proofs say of the functions of the engines.
AnswersAreRight ==
    /\ LookupsAgree /\ SamplesAreNear /\ ValidMeansCovered /\ FightsAreSeenBefore
    /\ WavesAreMirrored /\ OpponentsAgree /\ WastefulIffWaveLost
    /\ WindowsHaveVerdicts /\ ScalingMatchesPhases /\ LeadsNeverHurt
    /\ RecommendedIsNotBlamed /\ DangerIsTakenForAttack /\ AutoDecodes
    /\ OwnKillsAreSeen /\ OwnWardsOnlyHelp /\ OneBaronWindowPerPeriod
    /\ FightsAreDecided /\ MistakesMoveFrequencies

LEMMA IdlePipelineIsRight == PipelineIsIdle => GamesAreRight
<1> SUFFICES ASSUME PipelineIsIdle PROVE GamesAreRight
  OBVIOUS
<1> USE DEF PipelineIsIdle
<1>1. TypeOK
  <2>1. ParserTypeOK
    <3>1. /\ stage = "idle" /\ file = "missing" /\ header \in Headers
          /\ failures \in 0 .. 2 /\ result \in ParseResults
      BY NoHeaderType, NoResultType DEF ParserIsIdle
    <3>2. online \in BOOLEAN
      BY Zenon DEF ParserIsIdle
    <3> HIDE DEF PipelineIsIdle
    <3> QED
      BY <3>1, <3>2 DEF ParserTypeOK, Stages, Files
  <2>2. PipelineTypeOK
    <3>1. 0 \in 0 .. MaxFails
      BY PipelineConstants
    <3>2. field \in [Engines -> {"none", "default", "result"}] /\ finished \in SUBSET Engines
      OBVIOUS
    <3>3. events \in Seq(Event)
      BY EmptyTimeline
    <3>4. recalls \in Seq(BOOLEAN) /\ states \in Seq(State)
      OBVIOUS
    <3>5. phase \in Phases /\ snapshots \in BOOLEAN /\ teams \in BOOLEAN /\ judged \in BOOLEAN
      BY DEF Phases
    <3>6. fails \in 0 .. MaxFails
      BY <3>1
    <3> HIDE DEF PipelineIsIdle
    <3> QED
      BY <3>2, <3>3, <3>4, <3>5, <3>6 DEF PipelineTypeOK
  <2> QED
    BY <2>1, <2>2 DEF TypeOK
<1>2. SourcesExhausted
  BY DEF SourcesExhausted, ParserIsIdle
<1>3. IntentsAreJudged /\ ReadsAreMonotone
  BY DEF IntentsAreJudged, ReadsAreMonotone
<1>4. EveryKillCounted
  BY PipelineConstants DEF EveryKillCounted, Duration
<1>5. BaronShownWhileItLasts
  BY DEF BaronShownWhileItLasts
<1> QED
  BY <1>1, <1>2, <1>3, <1>4, <1>5 DEF GamesAreRight

\* An engine that is not called has no answer.
LEMMA IdleEnginesAreRight == EnginesAreIdle => AnswersAreRight
BY DEF EnginesAreIdle, Answered, AnswersAreRight, LookupsAgree, SamplesAreNear,
       ValidMeansCovered, FightsAreSeenBefore, WavesAreMirrored, OpponentsAgree,
       WastefulIffWaveLost, WindowsHaveVerdicts, ScalingMatchesPhases,
       LeadsNeverHurt, RecommendedIsNotBlamed, DangerIsTakenForAttack, AutoDecodes,
       OwnKillsAreSeen, OwnWardsOnlyHelp, OneBaronWindowPerPeriod,
       FightsAreDecided, DuelGoesToTheFaster, MinionsNeverHelp, MistakesMoveFrequencies

\* In the system the parser, the pipeline and its concurrent engines keep all
\* they keep alone (resilience.py, game_context.py, game_state_engine.py).
THEOREM GamesOfTheSystem == SystemSpec => []GamesAreRight
<1>1. Spec => []GamesAreRight
  BY TypeCorrectness, NothingThrownAway, IntentsSeeTheGame,
     ReadsStay, KillsAreCounted, BaronAlwaysShown, PTL
  DEF GamesAreRight
<1> QED
  BY <1>1, SystemParts, IdlePipelineIsRight, PTL

\* In the system the pipeline keeps its contract (game_context.py:105-162).
THEOREM ContractOfTheSystem == SystemSpec => ImplementsPipelineContract
<1>1. PipelineIsIdle => Contract!Init
  BY DEF PipelineIsIdle, Contract!Init
<1>2. PipelineIsIdle /\ PipelineIsIdle' => UNCHANGED Contract!contextVars
  BY DEF PipelineIsIdle, Contract!contextVars, inputVars
<1>3. []PipelineIsIdle => ImplementsPipelineContract
  BY <1>1, <1>2, PTL DEF ImplementsPipelineContract, Contract!Spec
<1> QED
  BY <1>3, SystemParts, PipelineRefinement, PTL

\* In the system every answer of an engine is right, for any inputs of the
\* assumed types (the functions of analysis/*_engine.py, utils.py, validator.py
\* and chunk_decoder.py).
THEOREM AnswersOfTheSystem == SystemSpec => []AnswersAreRight
<1>1. EngineSpec => []AnswersAreRight
  BY LookupsAlwaysAgree, SamplesAlwaysNear, ValidAlwaysCovered, FightsAlwaysSeenBefore,
     WavesAlwaysMirrored, OpponentsAlwaysAgree, WastefulAlwaysIffLost,
     WindowsAlwaysHaveVerdicts, ScalingAlwaysMatches, LeadsAlwaysHelp,
     RecommendedNeverBlamed, DangerAlwaysTakenForAttack, AutoAlwaysDecodes,
     OwnKillsAlwaysSeen, OwnWardsAlwaysHelp, BaronAlwaysOnce, FightsAlwaysDecided,
     MistakesAlwaysMove, PTL
  DEF AnswersAreRight
<1> QED
  BY <1>1, SystemParts, IdleEnginesAreRight, PTL

\* In the system a list of analyses that is read to its end skips none
\* (api/analysis.py:242-252).
THEOREM HistoryOfTheSystem == SystemSpec => []PagingSkipsNothing
<1>1. HistoryIsIdle => PagingSkipsNothing
  BY DEF HistoryIsIdle, PagingSkipsNothing
<1> QED
  BY <1>1, SystemParts, PagingComplete, PTL
=============================================================================
