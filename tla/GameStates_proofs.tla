------------------------- MODULE GameStates_proofs -------------------------
(***************************************************************************)
(* Proofs, for every timeline and interval, about the samples that         *)
(* GameStateEngine takes of the game.                                      *)
(***************************************************************************)
EXTENDS ReplayAnalysis_proofs, Extremes_proofs

\* The timeline is sorted; a game has been sampled to its end when the engine
\* has ended.
SortedEvents == \A i, j \in 1 .. Len(events) : i <= j => events[i].ts <= events[j].ts

\* The flag of a sample is that of the last Baron killed so far, however long ago:
\* what the code computes, and what each round of its loop hands on to the next.
BaronFollowsLastKill ==
    \A n \in 1 .. Len(states) :
        LET barons == {i \in Of("baron") : events[i].ts <= n * Interval}
        IN states[n].baron = (barons # {} /\ IsMine(Last(barons)))

SampledInv == SortedEvents /\ EveryKillCounted /\ BaronFollowsLastKill

-----------------------------------------------------------------------------
(* Facts about times *)

LEMMA EventsHappenAtNat ==
    ASSUME PipelineTypeOK
    PROVE  \A i \in 1 .. Len(events) : events[i].ts \in Nat
<1>1. ASSUME NEW i \in 1 .. Len(events) PROVE events[i] \in Event
  BY DEF PipelineTypeOK
<1> QED
  BY <1>1, PipelineConstants DEF Event

LEMMA OnTheSample ==
    ASSUME NEW n \in Nat, NEW k \in Nat \ {0}
    PROVE  (n * k) % k = 0
OBVIOUS

\* The next sample's window closes the gap after the last sample: what is due
\* then was due before or is in the window.
LEMMA WindowFollows ==
    ASSUME PipelineTypeOK, NEW n \in Nat, NEW kind
    PROVE  LET Due(m) == {i \in Of(kind) : events[i].ts <= m * Interval}
               found == Window(n * Interval, (n + 1) * Interval) \cap Of(kind)
           IN /\ n > 0 => Due(n + 1) = Due(n) \cup found
              /\ n = 0 => Due(n + 1) = found
              /\ Due(n) \subseteq Due(n + 1)
              /\ IsFiniteSet(Due(n)) /\ IsFiniteSet(found)
              /\ \A i \in Due(n) \cap found : events[i].ts = n * Interval
<1> DEFINE Due(m) == {i \in Of(kind) : events[i].ts <= m * Interval}
           found == Window(n * Interval, (n + 1) * Interval) \cap Of(kind)
           from == n * Interval
           to == (n + 1) * Interval
<1>1. /\ from \in Nat /\ to \in Nat /\ from <= to /\ (n = 0 => from = 0)
  BY PipelineConstants
<1>2. \A i \in Of(kind) : i \in 1 .. Len(events) /\ events[i].ts \in Nat
  BY EventsHappenAtNat DEF Of
<1>3. /\ Due(n) = {i \in Of(kind) : events[i].ts <= from}
      /\ Due(n + 1) = {i \in Of(kind) : events[i].ts <= to}
      /\ found = {i \in Of(kind) : from <= events[i].ts /\ events[i].ts <= to}
  BY DEF Window, Of
<1>4. Due(n) \subseteq 1 .. Len(events) /\ found \subseteq 1 .. Len(events)
  BY <1>2
<1>5. IsFiniteSet(1 .. Len(events))
  BY FS_Interval DEF PipelineTypeOK
<1>6. IsFiniteSet(Due(n)) /\ IsFiniteSet(found)
  BY <1>4, <1>5, FS_Subset
<1> HIDE DEF Due, found, from, to
<1>7. \A i \in Of(kind) :
        /\ i \in Due(n) <=> events[i].ts <= from
        /\ i \in Due(n + 1) <=> events[i].ts <= to
        /\ i \in found <=> from <= events[i].ts /\ events[i].ts <= to
  BY <1>3
<1>8. Due(n) \subseteq Of(kind) /\ Due(n + 1) \subseteq Of(kind) /\ found \subseteq Of(kind)
  BY <1>3
<1>9. Due(n) \subseteq Due(n + 1)
  BY <1>1, <1>2, <1>7, <1>8
<1>10. n > 0 => Due(n + 1) = Due(n) \cup found
  BY <1>1, <1>2, <1>7, <1>8
<1>11. n = 0 => Due(n + 1) = found
  <2> SUFFICES ASSUME n = 0 PROVE \A i \in Of(kind) : i \in Due(n + 1) <=> i \in found
    BY <1>8
  <2>1. from = 0
    BY <1>1
  <2> QED
    BY <1>2, <1>7, <2>1
<1>12. \A i \in Due(n) \cap found : events[i].ts = from
  BY <1>1, <1>2, <1>7, <1>8
<1> QED
  BY <1>6, <1>9, <1>10, <1>11, <1>12 DEF Due, found, from

-----------------------------------------------------------------------------
(* The next sample *)

\* SampleGame, in the terms of the properties.
Sampled ==
    LET n == Len(states)
        window == Window(n * Interval, (n + 1) * Interval)
        kills == window \cap Of("kill")
        barons == window \cap Of("baron")
        sample == states'[n + 1]
    IN /\ Len(states') = n + 1
       /\ \A i \in 1 .. n : states'[i] = states[i]
       /\ sample.kills + sample.deaths =
             Counters.kills + Counters.deaths + Cardinality(kills)
       /\ sample.baron =
             IF barons = {} THEN Counters.baron ELSE IsMine(Last(barons))

LEMMA SampleGameSamples ==
    ASSUME PipelineTypeOK, SampleGame
    PROVE  Sampled
<1> DEFINE n == Len(states)
           window == Window(SampleTime - Interval, SampleTime)
           kills == window \cap Of("kill")
           mine == {i \in kills : IsMine(i)}
           barons == window \cap Of("baron")
           sample == [kills |-> Counters.kills + Cardinality(mine),
                      deaths |-> Counters.deaths + Cardinality(kills \ mine),
                      baron |-> IF barons = {} THEN Counters.baron
                                ELSE IsMine(Last(barons)),
                      composed |-> field["composition"] = "result"]
<1>1. /\ states' = Append(states, sample) /\ states \in Seq(State) /\ n \in Nat
  BY DEF SampleGame, PipelineTypeOK
<1>2. SampleTime = (n + 1) * Interval /\ SampleTime - Interval = n * Interval
  BY <1>1, PipelineConstants DEF SampleTime
<1>3. kills = mine \cup (kills \ mine) /\ mine \cap (kills \ mine) = {}
  OBVIOUS
<1>4. IsFiniteSet(mine) /\ IsFiniteSet(kills \ mine)
  <2>1. IsFiniteSet(1 .. Len(events))
    BY FS_Interval DEF PipelineTypeOK
  <2>2. mine \subseteq 1 .. Len(events) /\ kills \ mine \subseteq 1 .. Len(events)
    BY DEF Of
  <2> QED
    BY <2>1, <2>2, FS_Subset
<1>5. /\ Cardinality(mine) \in Nat /\ Cardinality(kills \ mine) \in Nat
      /\ Cardinality(kills) = Cardinality(mine) + Cardinality(kills \ mine)
  <2> HIDE DEF kills, mine
  <2>1. Cardinality(mine) \in Nat /\ Cardinality(kills \ mine) \in Nat
    BY <1>4, FS_CardinalityType
  <2>2. Cardinality(mine \cup (kills \ mine)) =
          Cardinality(mine) + Cardinality(kills \ mine) - Cardinality(mine \cap (kills \ mine))
    BY <1>4, FS_Union
  <2>3. Cardinality(mine \cap (kills \ mine)) = 0
    BY <1>3, FS_EmptySet
  <2>4. Cardinality(kills) = Cardinality(mine \cup (kills \ mine))
    BY <1>3
  <2> QED
    BY <2>1, <2>2, <2>3, <2>4
<1>6. Counters.kills \in Nat /\ Counters.deaths \in Nat
  BY <1>1, CountersType DEF State
<1>7. /\ Len(states') = n + 1 /\ states'[n + 1] = sample
      /\ \A i \in 1 .. n : states'[i] = states[i]
  <2> HIDE DEF sample
  <2> QED
    BY <1>1
<1>8. /\ sample.kills + sample.deaths =
             Counters.kills + Counters.deaths + Cardinality(kills)
      /\ sample.baron = IF barons = {} THEN Counters.baron ELSE IsMine(Last(barons))
  <2> HIDE DEF kills, mine, barons
  <2> QED
    BY <1>5, <1>6
<1>9. window = Window(n * Interval, (n + 1) * Interval)
  BY <1>2
<1> HIDE DEF sample, window
<1> QED
  BY <1>7, <1>8, <1>9 DEF Sampled

LEMMA KillsAfterSample ==
    ASSUME PipelineTypeOK, EveryKillCounted, SampleGame, events' = events,
           field' = field, field["game_state"] # "result"
    PROVE  EveryKillCounted'
<1> DEFINE n == Len(states)
           Due(m) == {i \in Of("kill") : events[i].ts <= m * Interval}
           Twice(m) == {i \in Due(m) : /\ events[i].ts % Interval = 0
                                       /\ 0 < events[i].ts /\ events[i].ts < m * Interval}
           found == Window(n * Interval, (n + 1) * Interval) \cap Of("kill")
           Counted(s) == s.kills + s.deaths
<1>1. n \in Nat /\ states \in Seq(State) /\ n + 1 > 0
  BY DEF PipelineTypeOK
<1>2. /\ Len(states') = n + 1
      /\ \A m \in 1 .. n : states'[m] = states[m]
      /\ Counted(states'[n + 1]) = Counted(Counters) + Cardinality(found)
  <2>1. Counters.kills \in Nat /\ Counters.deaths \in Nat
    BY <1>1, CountersType DEF State
  <2>2. Sampled
    BY SampleGameSamples
  <2> QED
    BY <2>1, <2>2 DEF Sampled
<1>3. /\ n > 0 => Due(n + 1) = Due(n) \cup found
      /\ n = 0 => Due(n + 1) = found
      /\ Due(n) \subseteq Due(n + 1)
      /\ IsFiniteSet(Due(n)) /\ IsFiniteSet(found)
      /\ \A i \in Due(n) \cap found : events[i].ts = n * Interval
  BY <1>1, WindowFollows
<1>4. /\ Cardinality(Due(n)) \in Nat /\ Cardinality(found) \in Nat
      /\ Cardinality(Due(n) \cap found) \in Nat
      /\ Cardinality(Due(n) \cup found) =
            Cardinality(Due(n)) + Cardinality(found) - Cardinality(Due(n) \cap found)
  <2> HIDE DEF Due, found
  <2>1. IsFiniteSet(Due(n) \cap found)
    BY <1>3, FS_Subset
  <2> QED
    BY <2>1, <1>3, FS_Union, FS_CardinalityType
<1>5. \A m \in 1 .. n :
        /\ Counted(states[m]) >= Cardinality(Due(m))
        /\ Twice(m) = {} => Counted(states[m]) = Cardinality(Due(m))
  BY DEF EveryKillCounted
<1>6. n > 0 => Counters = states[n]
  BY <1>1 DEF Counters
<1>7. n = 0 => Counted(Counters) = 0
  BY <1>1 DEF Counters
<1>8. n > 0 /\ Twice(n + 1) = {} => Twice(n) = {} /\ Due(n) \cap found = {}
  <2> SUFFICES ASSUME n > 0, Twice(n + 1) = {}
               PROVE  Twice(n) = {} /\ Due(n) \cap found = {}
    OBVIOUS
  <2>1. /\ n * Interval \in Nat /\ (n + 1) * Interval \in Nat
        /\ n * Interval < (n + 1) * Interval /\ 0 < n * Interval
        /\ (n * Interval) % Interval = 0
    <3>1. Interval \in Nat \ {0} /\ n \in Nat \ {0}
      BY <1>1, PipelineConstants
    <3>2. \A k, m \in Nat \ {0} :
            m * k \in Nat /\ (m + 1) * k \in Nat /\ m * k < (m + 1) * k /\ 0 < m * k
      OBVIOUS
    <3> QED
      BY <3>1, <3>2, OnTheSample
  <2>2. \A i \in Due(n) : events[i].ts \in Nat
    BY EventsHappenAtNat DEF Of
  <2>3. Twice(n) \subseteq Twice(n + 1)
    BY <2>1, <2>2, <1>3
  <2>4. Due(n) \cap found \subseteq Twice(n + 1)
    <3>1. ASSUME NEW i \in Due(n) \cap found PROVE i \in Twice(n + 1)
      <4>1. events[i].ts = n * Interval /\ i \in Due(n + 1)
        BY <1>3
      <4> HIDE DEF Due, found
      <4> QED
        BY <4>1, <2>1
    <3> QED
      BY <3>1
  <2> HIDE DEF Twice, found, Due
  <2> QED
    BY <2>3, <2>4
<1>9. /\ Counted(states'[n + 1]) >= Cardinality(Due(n + 1))
      /\ Twice(n + 1) = {} => Counted(states'[n + 1]) = Cardinality(Due(n + 1))
  <2>1. CASE n = 0
    <3>1. Due(n + 1) = found
      BY <2>1, <1>3
    <3> HIDE DEF Due, Twice, found, Counted
    <3> QED
      BY <2>1, <3>1, <1>2, <1>4, <1>7
  <2>2. CASE n > 0
    <3>1. Counted(Counters) = Counted(states[n]) /\ n \in 1 .. n
      BY <2>2, <1>1, <1>6
    <3>2. Counted(states[n]) \in Nat
      <4>1. states[n] \in State
        BY <3>1, <1>1
      <4> QED
        BY <4>1 DEF State
    <3>3. Twice(n + 1) = {} => Cardinality(Due(n) \cap found) = 0
      BY <2>2, <1>8, FS_EmptySet
    <3>4. Cardinality(Due(n + 1)) = Cardinality(Due(n) \cup found)
      BY <2>2, <1>3
    <3>5. /\ Counted(states[n]) >= Cardinality(Due(n))
          /\ Twice(n) = {} => Counted(states[n]) = Cardinality(Due(n))
      BY <3>1, <1>5
    <3>6. Twice(n + 1) = {} => Twice(n) = {}
      BY <2>2, <1>8
    <3> HIDE DEF Due, Twice, found, Counted
    <3> QED
      BY <3>1, <3>2, <3>3, <3>4, <3>5, <3>6, <1>2, <1>4
  <2> QED
    BY <2>1, <2>2, <1>1
<1>10. \A m \in 1 .. Len(states') :
        /\ Counted(states'[m]) >= Cardinality(Due(m))
        /\ Twice(m) = {} => Counted(states'[m]) = Cardinality(Due(m))
  <2> HIDE DEF Due, Twice, Counted
  <2>1. ASSUME NEW m \in 1 .. Len(states')
        PROVE  /\ Counted(states'[m]) >= Cardinality(Due(m))
               /\ Twice(m) = {} => Counted(states'[m]) = Cardinality(Due(m))
    <3>1. CASE m = n + 1
      BY <3>1, <1>9
    <3>2. CASE m # n + 1
      <4>1. m \in 1 .. n
        BY <3>2, <2>1, <1>1, <1>2
      <4> QED
        BY <4>1, <1>2, <1>5
    <3> QED
      BY <3>1, <3>2
  <2> QED
    BY <2>1
<1> QED
  BY <1>10 DEF EveryKillCounted, Of

LEMMA BaronAfterSample ==
    ASSUME PipelineTypeOK, SortedEvents, BaronFollowsLastKill, SampleGame,
           UNCHANGED inputVars
    PROVE  BaronFollowsLastKill'
<1> DEFINE n == Len(states)
           Due(m) == {i \in Of("baron") : events[i].ts <= m * Interval}
           found == Window(n * Interval, (n + 1) * Interval) \cap Of("baron")
           Right(s, m) == s.baron = (Due(m) # {} /\ IsMine(Last(Due(m))))
<1>1. n \in Nat /\ states \in Seq(State)
  BY DEF PipelineTypeOK
<1>2. /\ Len(states') = n + 1
      /\ \A m \in 1 .. n : states'[m] = states[m]
      /\ states'[n + 1].baron =
            IF found = {} THEN Counters.baron ELSE IsMine(Last(found))
  BY SampleGameSamples DEF Sampled
<1>3. /\ n > 0 => Due(n + 1) = Due(n) \cup found
      /\ n = 0 => Due(n + 1) = found
  BY <1>1, WindowFollows
<1>4. \A m \in 1 .. n : Right(states[m], m)
  BY DEF BaronFollowsLastKill
<1>5. found # {} => Last(Due(n + 1)) = Last(found)
  <2> SUFFICES ASSUME found # {} PROVE Last(Due(n + 1)) = Last(found)
    OBVIOUS
  <2> DEFINE due == Due(n + 1)
             last == Greatest(due)
             latest == Greatest(found)
  <2>1. /\ found \subseteq due /\ due \subseteq 1 .. Len(events)
        /\ Len(events) \in Nat
    BY <1>1, <1>3 DEF Of, PipelineTypeOK
  <2>2. last \in due /\ \A i \in due : i <= last
    <3>1. due \in SUBSET Nat /\ due # {} /\ \A i \in due : i <= Len(events)
      BY <2>1
    <3> HIDE DEF due
    <3> QED
      BY <3>1, <2>1, GreatestExists
  <2>3. latest \in found /\ \A i \in found : i <= latest
    <3>1. found \in SUBSET Nat /\ \A i \in found : i <= Len(events)
      BY <2>1
    <3> HIDE DEF found
    <3> QED
      BY <3>1, <2>1, GreatestExists
  <2>4. last \in found
    <3>1. /\ latest \in 1 .. Len(events) /\ last \in 1 .. Len(events)
          /\ latest <= last
      BY <2>1, <2>2, <2>3
    <3>2. events[latest].ts <= events[last].ts
      BY <3>1 DEF SortedEvents
    <3>3. /\ events[latest].ts \in Nat /\ events[last].ts \in Nat
          /\ n * Interval \in Nat /\ n * Interval <= events[latest].ts
      BY <3>1, <2>3, <1>1, EventsHappenAtNat, PipelineConstants DEF Window
    <3>4. n * Interval <= events[last].ts
      <4> HIDE DEF last, latest
      <4> QED
        BY <3>2, <3>3
    <3> QED
      BY <3>1, <3>4, <2>2 DEF Window
  <2>5. last = latest
    <3>1. last \in Nat /\ latest \in Nat /\ last <= latest /\ latest <= last
      <4> HIDE DEF due, found, last, latest
      <4> QED
        BY <2>1, <2>2, <2>3, <2>4
    <3> HIDE DEF last, latest
    <3> QED
      BY <3>1
  <2>6. Last(due) = last /\ Last(found) = latest
    BY DEF Last, Greatest
  <2> QED
    BY <2>5, <2>6
<1>6. n > 0 => Counters = states[n]
  BY <1>1 DEF Counters
<1>7. n = 0 => Counters.baron = FALSE
  BY <1>1 DEF Counters
<1>8. Right(states'[n + 1], n + 1)
  <2>1. CASE found # {}
    <3>1. Due(n + 1) # {} /\ states'[n + 1].baron = IsMine(Last(Due(n + 1)))
      BY <2>1, <1>1, <1>2, <1>3, <1>5
    <3> HIDE DEF Due
    <3> QED
      BY <3>1, IsMineType, Zenon
  <2>2. CASE found = {} /\ n = 0
    <3>1. Due(n + 1) = {} /\ states'[n + 1].baron = FALSE
      BY <2>2, <1>2, <1>3, <1>7
    <3> HIDE DEF Due
    <3> QED
      BY <3>1, Zenon
  <2>3. CASE found = {} /\ n > 0
    <3>1. Due(n + 1) = Due(n) /\ n \in 1 .. n
      BY <2>3, <1>1, <1>3
    <3>2. states'[n + 1].baron = states[n].baron
      BY <2>3, <1>2, <1>6
    <3>3. Right(states[n], n)
      BY <3>1, <1>4
    <3> HIDE DEF Due
    <3> QED
      BY <3>1, <3>2, <3>3, Zenon
  <2> QED
    BY <2>1, <2>2, <2>3, <1>1
<1>9. \A m \in 1 .. Len(states') : Right(states'[m], m)
  <2> HIDE DEF Right
  <2>1. ASSUME NEW m \in 1 .. Len(states'), m # n + 1 PROVE Right(states'[m], m)
    <3>1. m \in 1 .. n
      BY <2>1, <1>1, <1>2
    <3> QED
      BY <3>1, <1>2, <1>4
  <2> QED
    BY <2>1, <1>8
<1>10. /\ events' = events /\ snapshots' = snapshots /\ teams' = teams
  BY DEF inputVars
<1> QED
  BY <1>9, <1>10 DEF BaronFollowsLastKill, Of, IsMine

-----------------------------------------------------------------------------
(* All steps *)

\* Every other step keeps the samples, discards them, or ends the engine when
\* there is nothing left to sample.
LEMMA OtherSteps ==
    ASSUME PipelineTypeOK, PipelineNext
    PROVE  \/ SampleGame
           \/ states' = states /\ field'["game_state"] = field["game_state"]
           \/ states' = <<>> /\ field'["game_state"] = "default"
           \/ states' = states /\ ~MoreSamples
<1> USE DEF Publish, Fallback, PipelineTypeOK
<1>0. {"game_state", "tempo", "intent"} \subseteq Engines
  BY DEF Engines, Stage1, Stage3
<1>1. ASSUME NEW e \in Engines \ {"game_state"}, Finish(e)
      PROVE  states' = states /\ field'["game_state"] = field["game_state"]
  BY <1>0, <1>1 DEF Finish
<1>2. {"wave", "composition", "combat", "predictive", "model", "macro"}
         \subseteq Engines \ {"game_state"}
  BY DEF Engines, Stage1, Stage3
<1>3. CASE FinishMacro
  BY <1>1, <1>2, <1>3 DEF FinishMacro
<1>4. CASE RateRecall \/ FinishTempo \/ FinishIntent \/ NextStage
  BY <1>0, <1>4 DEF RateRecall, FinishTempo, FinishIntent, NextStage
<1>5. CASE FinishGameState
  BY <1>5 DEF FinishGameState, Engines, Stage1
<1>6. CASE \E e \in {"wave", "composition", "combat", "predictive", "model"} : Finish(e)
  BY <1>1, <1>2, <1>6
<1> QED
  BY <1>3, <1>4, <1>5, <1>6 DEF PipelineNext

\* No samples, no statement about them.
LEMMA NothingSampled ==
    ASSUME states = <<>>, field["game_state"] # "result"
    PROVE  EveryKillCounted /\ BaronFollowsLastKill
BY DEF EveryKillCounted, BaronFollowsLastKill

LEMMA SampledStep ==
    ASSUME PipelineTypeOK, StageInv, SampledInv, PipelineNext
    PROVE  SampledInv'
<1>1. events' = events /\ snapshots' = snapshots /\ teams' = teams
  BY KindsOfStep DEF inputVars
<1>2. SortedEvents'
  BY <1>1 DEF SampledInv, SortedEvents
<1>3. CASE SampleGame
  <2>1. field' = field /\ field["game_state"] # "result"
    <3>1. "game_state" \in Engines /\ "game_state" \notin finished
      BY <1>3 DEF SampleGame, Running, Engines, Stage1
    <3> QED
      BY <3>1, <1>3 DEF SampleGame, StageInv
  <2> QED
    BY <2>1, <1>1, <1>2, <1>3, KillsAfterSample, BaronAfterSample
    DEF SampledInv, inputVars
<1>4. CASE states' = <<>> /\ field'["game_state"] = "default"
  BY <1>2, <1>4 DEF SampledInv, EveryKillCounted, BaronFollowsLastKill
<1>5. ASSUME states' = states,
             field'["game_state"] = "result" => Len(states) * Interval >= Duration
      PROVE  SampledInv'
  <2>1. Duration' = Duration
    BY <1>1 DEF Duration
  <2> HIDE DEF Duration
  <2> QED
    BY <1>1, <1>2, <1>5, <2>1
    DEF SampledInv, EveryKillCounted, BaronFollowsLastKill, Of, IsMine
<1>6. CASE states' = states /\ field'["game_state"] = field["game_state"]
  <2>1. field["game_state"] = "result" => Len(states) * Interval >= Duration
    BY DEF SampledInv, EveryKillCounted
  <2> QED
    BY <2>1, <1>5, <1>6
<1>7. CASE states' = states /\ ~MoreSamples
  <2>1. Duration \in Nat /\ Len(states) \in Nat /\ Interval \in Nat
    BY DurationType, PipelineConstants DEF PipelineTypeOK
  <2>2. Duration = 0 \/ ~((Len(states) + 1) * Interval <= Duration + Interval)
    BY <1>7, <2>1 DEF MoreSamples, SampleTime
  <2>3. Len(states) * Interval >= Duration
    <3> DEFINE n == Len(states)
               d == Duration
    <3> HIDE DEF n, d
    <3>1. \A m, k, e \in Nat : e = 0 \/ ~((m + 1) * k <= e + k) => m * k >= e
      OBVIOUS
    <3>2. n \in Nat /\ d \in Nat /\ (d = 0 \/ ~((n + 1) * Interval <= d + Interval))
      BY <2>1, <2>2 DEF n, d
    <3>3. n * Interval >= d
      BY <2>1, <3>1, <3>2
    <3> QED
      BY <3>3 DEF n, d
  <2> QED
    BY <2>3, <1>5, <1>7
<1> QED
  BY <1>3, <1>4, <1>6, <1>7, OtherSteps

LEMMA TimelinesAreSorted ==
    ASSUME NEW s \in Timelines \cup {<<>>}
    PROVE  \A i, j \in 1 .. Len(s) : i <= j => s[i].ts <= s[j].ts
<1>1. CASE s = <<>>
  BY <1>1
<1>2. CASE s \in Timelines
  <2>1. s \in Seq(Event) /\ \A i, j \in DOMAIN s : i <= j => s[i].ts <= s[j].ts
    BY <1>2, TimelinesType DEF Timelines
  <2> QED
    BY <2>1
<1> QED
  BY <1>1, <1>2

LEMMA SampledNext ==
    ASSUME Inv, SampledInv, [Next]_vars
    PROVE  SampledInv'
<1>1. CASE UNCHANGED pipelineVars
  <2>1. /\ events' = events /\ snapshots' = snapshots /\ teams' = teams
        /\ states' = states /\ field' = field
    BY <1>1 DEF pipelineVars, inputVars
  <2>2. Duration' = Duration
    BY <2>1 DEF Duration
  <2> HIDE DEF Duration
  <2> QED
    BY <2>1, <2>2 DEF SampledInv, SortedEvents, EveryKillCounted, BaronFollowsLastKill,
                      Of, IsMine
<1>2. CASE FromParseResult
  <2>1. /\ states' = <<>> /\ field'["game_state"] # "result"
        /\ events' \in Timelines \cup {<<>>}
    BY <1>2 DEF FromParseResult, Inv, StageInv, EmptyContext, Engines, Stage1
  <2>2. SortedEvents'
    BY <2>1, TimelinesAreSorted DEF SortedEvents
  <2> QED
    BY <2>1, <2>2 DEF SampledInv, EveryKillCounted, BaronFollowsLastKill
<1>3. CASE PipelineNext
  BY <1>3, SampledStep DEF Inv, TypeOK
<1> QED
  BY <1>1, <1>2, <1>3 DEF Next, vars

LEMMA SampledStarts == Init => SampledInv
<1> SUFFICES ASSUME Init PROVE SampledInv
  OBVIOUS
<1>1. /\ states = <<>> /\ field["game_state"] # "result"
      /\ events \in Timelines \cup {<<>>}
  BY DEF Init, EmptyContext, Engines, Stage1
<1> QED
  BY <1>1, TimelinesAreSorted, NothingSampled DEF SampledInv, SortedEvents

\* Every sample so far has the counters and the Baron of the events before it
\* (game_state_engine.py:86-128).
THEOREM SampledInvariance == Spec => [](Inv /\ SampledInv)
BY InvInit, SampledStarts, InvNext, SampledNext, PTL DEF Spec

\* GameStateEngine counts every kill, and none twice that fell between two
\* samples, for every interval and every sorted timeline
\* (game_state_engine.py:86-128).
THEOREM KillsAreCounted == Spec => []EveryKillCounted
<1>1. SampledInv => EveryKillCounted
  BY DEF SampledInv
<1> QED
  BY <1>1, SampledInvariance, PTL

\* The windows of two samples share their common end, and still no sample misses
\* a buff while it lasts, nor shows one of the other team
\* (game_state_engine.py:108-118).
THEOREM BaronAlwaysShown == Spec => []BaronShownWhileItLasts
<1>1. SampledInv => BaronShownWhileItLasts
  BY DEF SampledInv, BaronFollowsLastKill, BaronShownWhileItLasts
<1> QED
  BY <1>1, SampledInvariance, PTL

\* A sample that is taken more than three minutes after the player's team has
\* killed the last Baron still shows the buff.
BaronOutlivesItsTime ==
    \A n \in 1 .. Len(states) :
        LET barons == {i \in Of("baron") : events[i].ts <= n * Interval}
        IN /\ barons # {} /\ IsMine(Last(barons))
           /\ n * Interval > events[Last(barons)].ts + 3 * Interval
           => states[n].baron

\* GameStateEngine never ends a buff, in no game of any length, although the
\* comment of game_state_engine.py:116-118 has the flag true only within three
\* minutes of the kill: what this states is not what the comment asks for.
THEOREM BaronNeverExpires == Spec => []BaronOutlivesItsTime
<1>1. SampledInv => BaronOutlivesItsTime
  BY DEF SampledInv, BaronFollowsLastKill, BaronOutlivesItsTime
<1> QED
  BY <1>1, SampledInvariance, PTL
=============================================================================
