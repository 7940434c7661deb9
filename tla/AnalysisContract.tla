-------------------------- MODULE AnalysisContract --------------------------
(***************************************************************************)
(* What the analysis service promises about one job, without queue, locks, *)
(* retries or time: at most one process works on a job, the row of a job   *)
(* never disappears, a stored result is never withdrawn, and the uploaded  *)
(* replay is discarded only by the process working on the job and only     *)
(* once the result is stored.                                              *)
(***************************************************************************)
EXTENDS Naturals

CONSTANTS Jobs, Processes

VARIABLES
    row,       \* [Jobs -> status of the database row]
    stored,    \* jobs whose result is stored
    source,    \* jobs whose replay file is in the object store
    runners    \* [Jobs -> the processes working on the job]

contractVars == <<row, stored, source, runners>>

Init ==
    /\ row = [j \in Jobs |-> "absent"]
    /\ stored = {}
    /\ source = {}
    /\ runners = [j \in Jobs |-> {}]

Known(j) == row[j] # "absent"

SetRow(j, s) == row' = [row EXCEPT ![j] = s]

\* A run may end in any step of it.
MayStop(j, p) ==
    runners' \in {runners, [runners EXCEPT ![j] = @ \ {p}]}

Submit(j) ==
    /\ ~Known(j)
    /\ SetRow(j, "pending")
    /\ UNCHANGED <<stored, source, runners>>

Provide(j) ==
    /\ Known(j)
    /\ source' = source \cup {j}
    /\ UNCHANGED <<row, stored, runners>>

Claim(j, p) ==
    /\ runners[j] = {}
    /\ runners' = [runners EXCEPT ![j] = {p}]
    /\ UNCHANGED <<row, stored, source>>

Begin(j, p) ==
    /\ p \in runners[j]
    /\ Known(j)
    /\ SetRow(j, "processing")
    /\ MayStop(j, p)
    /\ UNCHANGED <<stored, source>>

Store(j, p) ==
    /\ p \in runners[j]
    /\ Known(j)
    /\ SetRow(j, "complete")
    /\ stored' = stored \cup {j}
    /\ MayStop(j, p)
    /\ UNCHANGED source

Discard(j, p) ==
    /\ p \in runners[j]
    /\ j \in stored
    /\ source' = source \ {j}
    /\ UNCHANGED <<row, stored, runners>>

Stop(j, p) ==
    /\ p \in runners[j]
    /\ runners' = [runners EXCEPT ![j] = @ \ {p}]
    /\ UNCHANGED <<row, stored, source>>

Fail(j) ==
    /\ Known(j)
    /\ SetRow(j, "failed")
    /\ UNCHANGED <<stored, source, runners>>

Next ==
    \/ \E j \in Jobs : Submit(j) \/ Provide(j) \/ Fail(j)
    \/ \E j \in Jobs, p \in Processes :
          Claim(j, p) \/ Begin(j, p) \/ Store(j, p) \/ Discard(j, p) \/ Stop(j, p)

Spec == Init /\ [][Next]_contractVars
=============================================================================
