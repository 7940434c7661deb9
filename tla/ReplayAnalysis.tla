--------------------------- MODULE ReplayAnalysis ---------------------------
(***************************************************************************)
(* The parser and the pipeline together: a ParseResult becomes the         *)
(* GameContext that the engines share. The pipeline is also run on its     *)
(* own, on a context with snapshots, which no parser produces yet.         *)
(***************************************************************************)
EXTENDS ReplayParser, Pipeline

vars == <<parserVars, pipelineVars>>

TypeOK == ParserTypeOK /\ PipelineTypeOK

\* The Riot timeline, sorted by _timeline_to_parse_result. Recalls of others
\* are not looked at.
Timelines ==
    {s \in UNION {[1 .. n -> Event] : n \in 0 .. MaxEvents} :
        /\ \A i, j \in DOMAIN s : i <= j => s[i].ts <= s[j].ts
        /\ \A i \in DOMAIN s : s[i].kind = "recall" => s[i].who = "me"}

\* A replay to be parsed, or a context made without the parser. Snapshots show
\* all players, and nobody looks at the participant numbers then.
Init ==
    /\ EmptyContext
    /\ \/ /\ ParserInit
          /\ phase = "waiting"
          /\ events = <<>> /\ snapshots = FALSE /\ teams = FALSE
       \/ /\ ParserIsIdle
          /\ phase = "stage1"
          /\ events \in Timelines /\ snapshots \in BOOLEAN
          /\ teams \in IF snapshots THEN {FALSE} ELSE BOOLEAN

\* GameContext.from_parse_result. The parser's snapshots are always empty; the
\* participant number is metadata of the caller. The call of the parser is over
\* and its local state gone.
FromParseResult ==
    /\ stage = "done" /\ phase = "waiting"
    /\ phase' = "stage1"
    /\ events' \in IF result.timeline THEN Timelines ELSE {<<>>}
    /\ snapshots' = FALSE
    /\ teams' \in BOOLEAN
    /\ ParserReturns
    /\ UNCHANGED <<field, finished, recalls, states, judged, fails>>

Next ==
    \/ ParserNext /\ UNCHANGED pipelineVars
    \/ FromParseResult
    \/ PipelineNext /\ UNCHANGED parserVars

Spec == Init /\ [][Next]_vars

\* The call returns only when its statements have been executed, and the thread
\* pool runs every engine it was given.
FairSpec == Spec /\ WF_vars(Next)

-----------------------------------------------------------------------------
(* Properties *)

Contract == INSTANCE PipelineContract
    WITH moment <- IF phase \in {"waiting", "complete"} THEN phase ELSE "running",
         input <- inputVars,
         value <- field

\* Stages, threads and engines that raise keep the pipeline's contract: no value
\* is written twice or before those of the stages before it, and the pipeline
\* does not end without one (game_context.py:105-162, and each engine's run).
ImplementsPipelineContract == Contract!Spec

\* The analysis ends, whatever attempts and engines fail (the docstring of
\* parse_with_fallback, resilience.py:47; game_context.py:153-162).
AnalysisCompletes == <>(phase = "complete")
=============================================================================
