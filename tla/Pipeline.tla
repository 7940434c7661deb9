------------------------------ MODULE Pipeline ------------------------------
(***************************************************************************)
(* run_analysis_pipeline (analysis/game_context.py): four stages of        *)
(* engines over one shared GameContext. The engines of a stage run in      *)
(* threads; each writes its own fields when it ends and reads what others  *)
(* have written so far.                                                    *)
(***************************************************************************)
EXTENDS Naturals, Sequences, FiniteSets

CONSTANTS
    Interval,   \* the minute of GameStateEngine, in units of time
    Horizon,    \* time of the last snapshot, when there are snapshots
    MaxTime,    \* bound on the time of an event
    MaxEvents,  \* bound on the number of events
    MaxFails    \* bound on the engines that raise

Actors == {"me", "mate", "foe"}
Kinds == {"kill", "baron", "recall"}
Event == [kind : Kinds, who : Actors, ts : 0 .. MaxTime]

Stage1 == {"wave", "tempo", "macro", "composition", "game_state"}
Stage3 == {"predictive", "intent"}
Engines == Stage1 \cup {"combat"} \cup Stage3 \cup {"model"}

ASSUME PipelineConstants ==
    /\ Interval \in Nat \ {0}
    /\ Horizon \in Nat /\ MaxTime \in Nat
    /\ MaxEvents \in Nat /\ MaxFails \in Nat

VARIABLES
    phase,      \* the stage that runs
    events,     \* ctx.events, in the order of their timestamps
    snapshots,  \* ctx.snapshots is not empty
    teams,      \* participants are assigned to teams without snapshots too
    field,      \* what each engine has written into the context
    finished,   \* the engines whose thread has ended
    recalls,    \* recall_evals: did the evaluation see the waves?
    states,     \* game_state_timeline
    judged,     \* intent_map compares the intents with the game's phases
    fails       \* number of engines that have raised

inputVars == <<events, snapshots, teams>>
pipelineVars ==
    <<phase, inputVars, field, finished, recalls, states, judged, fails>>

Phases == {"waiting", "stage1", "stage2", "stage3", "stage4", "complete"}

\* A sample of the game: kills of either side, Baron buff, and whether the
\* scaling was derived from the composition or from the champion alone.
State == [kills : Nat, deaths : Nat, baron : BOOLEAN, composed : BOOLEAN]

PipelineTypeOK ==
    /\ phase \in Phases
    /\ events \in Seq(Event)
    /\ snapshots \in BOOLEAN /\ teams \in BOOLEAN
    /\ field \in [Engines -> {"none", "default", "result"}]
    /\ finished \subseteq Engines
    /\ recalls \in Seq(BOOLEAN)
    /\ states \in Seq(State)
    /\ judged \in BOOLEAN
    /\ fails \in 0 .. MaxFails

EmptyContext ==
    /\ field = [e \in Engines |-> "none"]
    /\ finished = {}
    /\ recalls = <<>> /\ states = <<>>
    /\ judged = FALSE
    /\ fails = 0

-----------------------------------------------------------------------------
(* Helpers *)

EnginesOf ==
    [waiting |-> {}, stage1 |-> Stage1, stage2 |-> {"combat"},
     stage3 |-> Stage3, stage4 |-> {"model"}, complete |-> {}]

After ==
    [waiting |-> "waiting", stage1 |-> "stage2", stage2 |-> "stage3",
     stage3 |-> "stage4", stage4 |-> "complete", complete |-> "complete"]

\* The engines of the stages before, which have ended when an engine begins.
Needs ==
    [e \in Engines |->
        IF e \in Stage1 THEN {}
        ELSE IF e = "combat" THEN Stage1
        ELSE IF e \in Stage3 THEN Stage1 \cup {"combat"}
        ELSE Engines \ {"model"}]

Running(e) == e \in EnginesOf[phase] /\ e \notin finished

Of(kind) == {i \in 1 .. Len(events) : events[i].kind = kind}

\* game_duration_ms
Duration ==
    IF snapshots THEN Horizon
    ELSE IF events = <<>> THEN 0
    ELSE events[Len(events)].ts

\* filter_events_in_window: both ends belong to the window.
Window(from, to) ==
    {i \in 1 .. Len(events) : from <= events[i].ts /\ events[i].ts <= to}

\* _get_event_team: the player is known by id, others by the snapshots or the
\* participant number; an unknown team counts as the enemy's.
IsMine(i) ==
    \/ events[i].who = "me"
    \/ events[i].who = "mate" /\ (snapshots \/ teams)

Last(S) == CHOOSE i \in S : \A j \in S : j <= i

Publish(e, value) ==
    /\ field' = [field EXCEPT ![e] = value]
    /\ finished' = finished \cup {e}

\* Variant of Fallback: the engine does not catch its exception, so that only
\* the thread pool sees it and the context keeps the field as it was.
Fallback_NoDefault(e) ==
    /\ fails < MaxFails
    /\ fails' = fails + 1
    /\ finished' = finished \cup {e}
    /\ UNCHANGED field

\* run() catches every exception and returns an empty result instead; that of
\* CompositionEngine is None.
Fallback(e) ==
    /\ fails < MaxFails
    /\ fails' = fails + 1
    /\ Publish(e, "default")

\* _build_timeline's loop, over the next minute.
SampleTime == (Len(states) + 1) * Interval

\* Variant of MoreSamples: the loop ends with the last full minute.
MoreSamples_FullMinutes == Duration > 0 /\ SampleTime <= Duration

MoreSamples == Duration > 0 /\ SampleTime <= Duration + Interval

\* The counters before the loop and after its last round.
Counters ==
    IF states = <<>>
    THEN [kills |-> 0, deaths |-> 0, baron |-> FALSE, composed |-> FALSE]
    ELSE states[Len(states)]

\* _rate_recall looks at the waves only if there are snapshots, and a game that
\* has no duration has no waves.
WavesKnown == snapshots /\ Duration > 0 /\ field["wave"] = "result"

-----------------------------------------------------------------------------
(* Engines *)

\* WaveEngine, CombatEngine, PredictiveEngine and the player model: what they
\* read does not change while they run.
Finish(e) ==
    /\ Running(e)
    /\ \/ Publish(e, "result") /\ UNCHANGED fails
       \/ Fallback(e)
    /\ UNCHANGED <<phase, inputVars, recalls, states, judged>>

\* Variant of FinishMacro: run_macro also assigns ctx.composition, from a key
\* that its result does not have.
FinishMacro_WrongField ==
    /\ Running("macro")
    /\ field' = [field EXCEPT !["macro"] = "result", !["composition"] = "none"]
    /\ finished' = finished \cup {"macro"}
    /\ UNCHANGED <<phase, inputVars, recalls, states, judged, fails>>

\* MacroEngine reads the game states and uses nothing of them.
FinishMacro == Finish("macro")

\* TempoEngine rates one recall after the other; the waves may arrive between
\* two of them.
RateRecall ==
    /\ Running("tempo")
    /\ Len(recalls) < Cardinality(Of("recall"))
    /\ recalls' = Append(recalls, WavesKnown)
    /\ UNCHANGED <<phase, inputVars, field, finished, states, judged, fails>>

FinishTempo ==
    /\ Running("tempo")
    /\ \/ /\ Len(recalls) = Cardinality(Of("recall"))
          /\ Publish("tempo", "result")
          /\ UNCHANGED <<recalls, fails>>
       \/ Fallback("tempo") /\ recalls' = <<>>
    /\ UNCHANGED <<phase, inputVars, states, judged>>

\* Variant of SampleGame: the first Baron of the minute decides, not the last.
SampleGame_FirstBaron ==
    LET window == Window(SampleTime - Interval, SampleTime)
        kills == window \cap Of("kill")
        mine == {i \in kills : IsMine(i)}
        barons == window \cap Of("baron")
        first == CHOOSE i \in barons : \A j \in barons : i <= j
    IN
    /\ Running("game_state")
    /\ MoreSamples
    /\ states' = Append(states,
          [kills |-> Counters.kills + Cardinality(mine),
           deaths |-> Counters.deaths + Cardinality(kills \ mine),
           baron |-> IF barons = {} THEN Counters.baron ELSE IsMine(first),
           composed |-> field["composition"] = "result"])
    /\ UNCHANGED <<phase, inputVars, field, finished, recalls, judged, fails>>

\* GameStateEngine adds one minute to its timeline. Towers are counted like
\* kills, dragons like the kills of the player's team.
SampleGame ==
    LET window == Window(SampleTime - Interval, SampleTime)
        kills == window \cap Of("kill")
        mine == {i \in kills : IsMine(i)}
        barons == window \cap Of("baron")
    IN
    /\ Running("game_state")
    /\ MoreSamples
    /\ states' = Append(states,
          [kills |-> Counters.kills + Cardinality(mine),
           deaths |-> Counters.deaths + Cardinality(kills \ mine),
           baron |-> IF barons = {} THEN Counters.baron ELSE IsMine(Last(barons)),
           composed |-> field["composition"] = "result"])
    /\ UNCHANGED <<phase, inputVars, field, finished, recalls, judged, fails>>

FinishGameState ==
    /\ Running("game_state")
    /\ \/ ~MoreSamples /\ Publish("game_state", "result") /\ UNCHANGED <<states, fails>>
       \/ Fallback("game_state") /\ states' = <<>>
    /\ UNCHANGED <<phase, inputVars, recalls, judged>>

\* IntentEngine compares an intent with the nearest game state, if it has
\* snapshots to infer the intent from and a state to compare it with.
FinishIntent ==
    /\ Running("intent")
    /\ \/ /\ Publish("intent", "result")
          /\ judged' = (snapshots /\ Duration > 0 /\ states # <<>>)
          /\ UNCHANGED fails
       \/ Fallback("intent") /\ UNCHANGED judged
    /\ UNCHANGED <<phase, inputVars, recalls, states>>

\* Variant of NextStage: the executor is not waited for.
NextStage_NoWait ==
    /\ EnginesOf[phase] # {}
    /\ finished # {}
    /\ phase' = After[phase]
    /\ UNCHANGED <<inputVars, field, finished, recalls, states, judged, fails>>

\* Variant of NextStage: an engine's exception ends the pipeline.
NextStage_ResultsOnly ==
    /\ EnginesOf[phase] # {}
    /\ \A e \in EnginesOf[phase] : field[e] = "result"
    /\ phase' = After[phase]
    /\ UNCHANGED <<inputVars, field, finished, recalls, states, judged, fails>>

\* _run_parallel leaves the executor when all its threads have ended.
NextStage ==
    /\ EnginesOf[phase] # {}
    /\ EnginesOf[phase] \subseteq finished
    /\ phase' = After[phase]
    /\ UNCHANGED <<inputVars, field, finished, recalls, states, judged, fails>>

PipelineNext ==
    \/ \E e \in {"wave", "composition", "combat", "predictive", "model"} : Finish(e)
    \/ FinishMacro \/ RateRecall \/ FinishTempo
    \/ SampleGame \/ FinishGameState \/ FinishIntent \/ NextStage

-----------------------------------------------------------------------------
(* Properties *)

\* Stage 3 sees what stage 1 has found: intents go without a comparison only
\* if there is no position data or GameStateEngine has failed.
IntentsAreJudged ==
    field["intent"] = "result" /\ snapshots /\ Duration > 0 /\ ~judged =>
        field["game_state"] = "default"

\* An engine that has seen a result of a concurrent one does not lose sight of
\* it: in its later evaluations the result is still there.
ReadsAreMonotone ==
    /\ \A i, j \in 1 .. Len(recalls) : i <= j /\ recalls[i] => recalls[j]
    /\ \A i, j \in 1 .. Len(states) :
          i <= j /\ states[i].composed => states[j].composed

\* The kills up to a sample are all counted, and counted once unless one of
\* them fell exactly on an earlier sample; the last sample covers the game.
EveryKillCounted ==
    /\ \A n \in 1 .. Len(states) :
          LET at == n * Interval
              due == {i \in Of("kill") : events[i].ts <= at}
              twice == {i \in due : /\ events[i].ts % Interval = 0
                                    /\ 0 < events[i].ts /\ events[i].ts < at}
              counted == states[n].kills + states[n].deaths
          IN /\ counted >= Cardinality(due)
             /\ twice = {} => counted = Cardinality(due)
    /\ field["game_state"] = "result" => Len(states) * Interval >= Duration

\* The samples of the three minutes after the player's team has killed Baron
\* show its buff, unless the other team has killed one since; a team that has not
\* killed the last Baron is never shown one (game_state_engine.py:108-118). What
\* the samples after the three minutes show is not restricted here: the comment
\* of lines 116-118 ends the buff, the code does not, and the theorem
\* BaronNeverExpires of GameStates_proofs says so.
BaronShownWhileItLasts ==
    \A n \in 1 .. Len(states) :
        LET at == n * Interval
            barons == {i \in Of("baron") : events[i].ts <= at}
            mine == barons # {} /\ IsMine(Last(barons))
        IN /\ states[n].baron => mine
           /\ mine /\ at <= events[Last(barons)].ts + 3 * Interval => states[n].baron
=============================================================================
