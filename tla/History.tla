------------------------------ MODULE History ------------------------------
(***************************************************************************)
(* The list of a user's analyses (GET /history), read page by page while   *)
(* new analyses are created. The client is not part of the repository: it  *)
(* asks for the rows after those it has received, until it receives none.  *)
(***************************************************************************)
EXTENDS Naturals, FiniteSets

CONSTANTS
    MaxPage,     \* the server's limit of a page (100 in the code)
    MaxRecords   \* bound on the number of analyses

ASSUME HistoryConstants == MaxPage \in Nat \ {0} /\ MaxRecords \in Nat

VARIABLES
    records,   \* analyses of the user, numbered as they were created
    begun,     \* how many there were when the client began
    offset,    \* rows received so far
    shown,     \* analyses the client has received
    ended      \* the client has received an empty page

historyVars == <<records, begun, offset, shown, ended>>

HistoryTypeOK ==
    /\ records \in 0 .. MaxRecords
    /\ begun \in 0 .. records
    /\ offset \in 0 .. records
    /\ shown \subseteq 1 .. records
    /\ ended \in BOOLEAN

HistoryInit ==
    /\ records \in 0 .. MaxRecords /\ begun = records
    /\ offset = 0 /\ shown = {} /\ ended = FALSE

\* Nobody reads the list.
HistoryIsIdle ==
    records = 0 /\ begun = 0 /\ offset = 0 /\ shown = {} /\ ended = TRUE

\* Variant of Rows: the offset skips a row too many.
Rows_OffByOne(limit) ==
    {n \in 1 .. records : records - offset <= n + limit /\ n < records - offset}

\* The n-th row ORDER BY created_at DESC is records - n + 1: LIMIT and OFFSET.
Rows(limit) ==
    {n \in 1 .. records : records - offset < n + limit /\ n <= records - offset}

\* get_history, for a limit that the client chooses.
GetHistory(limit) ==
    LET rows == Rows(IF limit < MaxPage THEN limit ELSE MaxPage) IN
    /\ ~ended
    /\ shown' = shown \cup rows
    /\ offset' = offset + Cardinality(rows)
    /\ ended' = (rows = {})
    /\ UNCHANGED <<records, begun>>

\* Another analysis of the user is created between two pages.
NewAnalysis ==
    /\ ~ended /\ records < MaxRecords
    /\ records' = records + 1
    /\ UNCHANGED <<begun, offset, shown, ended>>

HistoryNext ==
    \/ \E limit \in 1 .. MaxPage + 1 : GetHistory(limit)
    \/ NewAnalysis

HistorySpec == HistoryInit /\ [][HistoryNext]_historyVars

-----------------------------------------------------------------------------
(* Properties *)

\* Paging by offsets skips no analysis, although the rows move when another is
\* created between two pages (analysis.py:250-251): the client that has reached
\* the end has seen all analyses there were when it began.
PagingSkipsNothing == ended => 1 .. begun \subseteq shown
=============================================================================
