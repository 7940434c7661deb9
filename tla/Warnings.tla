------------------------------ MODULE Warnings ------------------------------
(***************************************************************************)
(* PredictiveEngine's warnings, and what the analysis makes of them and of *)
(* the macro decisions: mistakes, their frequencies over games and the     *)
(* tasks that the player should focus on.                                  *)
(***************************************************************************)
EXTENDS Lookups, Sequences, FiniteSets

CONSTANT One    \* a frequency of 1: frequencies are counted in units of 1 / One

\* A champion in a snapshot is [enemy, jungle, dist, hp]: of the other team,
\* with the role of the jungler, its distance from the player and its health
\* in tenths.

NoWarning == [type |-> "none", severity |-> "none"]

\* _predict_gank_risk: the first enemy jungler, at 340 units per second.
GankRisk(players) ==
    LET junglers == {i \in DOMAIN players : players[i].enemy /\ players[i].jungle}
        dist == players[Least(junglers)].dist
    IN IF junglers = {} \/ dist > 8 * 340 THEN NoWarning
       ELSE [type |-> "GANK_RISK",
             severity |-> IF dist < 3 * 340 THEN "CRITICAL"
                          ELSE IF dist < 5 * 340 THEN "HIGH" ELSE "MEDIUM"]

\* _predict_kill_window: some enemy within reach has little health; it may be
\* dead.
KillWindow(players) ==
    IF \E i \in DOMAIN players :
          players[i].enemy /\ players[i].dist <= 2000 /\ players[i].hp < 3
    THEN [type |-> "KILL_WINDOW", severity |-> "HIGH"] ELSE NoWarning

\* Variant of ObjectiveWindow: a window that ends at the next scan has two.
ObjectiveWindow_Closed(t, scan, period, spawn) == t >= spawn /\ t % period <= scan

\* _predict_objective_window
ObjectiveWindow(t, scan, period, spawn) == t >= spawn /\ t % period < scan

\* The scans of _analyze that announce Baron.
ObjectiveWindows(scan, period, spawn, end) ==
    {t \in Samples(scan, end, end) : ObjectiveWindow(t, scan, period, spawn)}

-----------------------------------------------------------------------------
(* The update of the player's model *)

\* The types of mistakes that have a description.
MistakeTypes == {"macro", "positioning", "wave", "vision", "recall"}

\* _build_player_model_update: the types of the mistakes, macro decisions
\* first. severities are those of the warnings.
Mistakes(suboptimal, severities) ==
    [i \in 1 .. Cardinality({j \in DOMAIN suboptimal : suboptimal[j]}) |-> "macro"]
    \o [i \in 1 .. Cardinality({j \in DOMAIN severities :
                                  severities[j] \in {"HIGH", "CRITICAL"}})
            |-> "positioning"]

\* One step of the moving average, with _EMA_ALPHA = 0.1, towards 0.
Decayed(x) == (9 * x) \div 10

\* What n steps leave of x.
Remaining(x, n) ==
    LET left[k \in 0 .. n] == IF k = 0 THEN x ELSE Decayed(left[k - 1])
    IN left[n]

Times(mistakes, type) == Cardinality({i \in DOMAIN mistakes : mistakes[i] = type})

\* Variant of Frequency: a type that was not made keeps its frequency.
Frequency_NoDecay(old, n) ==
    IF n = 0 THEN old ELSE One - Remaining(One - old, n)

\* _update_mistake_pattern of one type that was made n times: with each, what
\* the frequency lacks of 1 shrinks by a tenth; if there was none, it shrinks
\* itself, once.
Frequency(old, n) ==
    IF n = 0 THEN Decayed(old) ELSE One - Remaining(One - old, n)

\* All types; existing is a sequence of [type, freq] in the order of the
\* dictionary, types that are new come last, in the order they are made.
Patterns(existing, mistakes) ==
    LET known == {existing[i].type : i \in DOMAIN existing}
        first == {i \in DOMAIN mistakes :
                    /\ mistakes[i] \notin known
                    /\ \A j \in 1 .. i - 1 : mistakes[j] # mistakes[i]}
        nth(n) == CHOOSE i \in first : Cardinality({j \in first : j < i}) = n - 1
    IN [i \in DOMAIN existing |->
          [type |-> existing[i].type,
           freq |-> Frequency(existing[i].freq, Times(mistakes, existing[i].type))]]
       \o [n \in 1 .. Cardinality(first) |->
             [type |-> mistakes[nth(n)],
              freq |-> Frequency(0, Times(mistakes, mistakes[nth(n)]))]]

\* _refresh_focus_tasks: the three most frequent, sorted stably.
FocusTasks(patterns) ==
    LET ahead(i) == {j \in DOMAIN patterns :
                       \/ patterns[j].freq > patterns[i].freq
                       \/ patterns[j].freq = patterns[i].freq /\ j < i}
    IN [r \in 1 .. (IF Len(patterns) < 3 THEN Len(patterns) ELSE 3) |->
          patterns[CHOOSE i \in DOMAIN patterns : Cardinality(ahead(i)) = r - 1]]
=============================================================================
