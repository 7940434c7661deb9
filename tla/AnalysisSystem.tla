--------------------------- MODULE AnalysisSystem ---------------------------
(***************************************************************************)
(* What is computed and read for a user apart from the job itself: the     *)
(* parser and the pipeline of ReplayAnalysis, the engines' functions and   *)
(* the history. A behaviour is of one of these.                            *)
(***************************************************************************)
EXTENDS ReplayAnalysis, EngineProperties, History

systemVars == <<vars, engineVars, historyVars>>

\* The pipeline has nothing to do: it is where it ends for a game without
\* events that the parser was not needed for.
PipelineIsIdle ==
    /\ ParserIsIdle
    /\ phase = "complete"
    /\ events = <<>> /\ snapshots = FALSE /\ teams = FALSE
    /\ field = [e \in Engines |-> "result"] /\ finished = Engines
    /\ recalls = <<>> /\ states = <<>> /\ judged = FALSE /\ fails = 0

SystemInit ==
    \/ Init /\ EnginesAreIdle /\ HistoryIsIdle
    \/ PipelineIsIdle /\ EngineInit /\ HistoryIsIdle
    \/ PipelineIsIdle /\ EnginesAreIdle /\ HistoryInit

SystemNext ==
    \/ Next /\ UNCHANGED <<engineVars, historyVars>>
    \/ EngineNext /\ UNCHANGED <<vars, historyVars>>
    \/ HistoryNext /\ UNCHANGED <<vars, engineVars>>

SystemSpec == SystemInit /\ [][SystemNext]_systemVars

\* The fairness of ReplayAnalysis.
FairSystemSpec == SystemSpec /\ WF_vars(Next)
=============================================================================
