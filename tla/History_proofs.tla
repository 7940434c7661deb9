--------------------------- MODULE History_proofs ---------------------------
(***************************************************************************)
(* Proofs, for every limit and number of analyses, about History.          *)
(***************************************************************************)
EXTENDS History, TLAPS, FiniteSetTheorems

\* The client has what lies before its offset, unless it was created since.
Received == \A n \in 1 .. begun : records - offset < n => n \in shown

HistoryInv == HistoryTypeOK /\ Received /\ PagingSkipsNothing

LEMMA HistoryStarts == HistoryInit => HistoryInv
<1> SUFFICES ASSUME HistoryInit PROVE HistoryInv
  OBVIOUS
<1>1. /\ MaxRecords \in Nat /\ records \in 0 .. MaxRecords /\ begun = records
      /\ offset = 0 /\ shown = {} /\ ended = FALSE
  BY HistoryConstants DEF HistoryInit
<1>2. Received
  <2>1. ASSUME NEW n \in 1 .. begun PROVE ~(records - offset < n)
    BY <1>1
  <2> QED
    BY <2>1 DEF Received
<1>3. HistoryTypeOK
  <2>1. begun \in 0 .. records /\ offset \in 0 .. records
    BY <1>1
  <2> QED
    BY <1>1, <2>1 DEF HistoryTypeOK
<1>4. PagingSkipsNothing
  BY <1>1 DEF PagingSkipsNothing
<1> QED
  BY <1>2, <1>3, <1>4 DEF HistoryInv

\* A page is an interval: the next rows, or as many as there are.
LEMMA PageIsInterval ==
    ASSUME HistoryTypeOK, NEW limit \in Nat \ {0}
    PROVE  /\ Cardinality(Rows(limit)) \in 0 .. (records - offset)
           /\ \A n \in 1 .. records :
                 records - (offset + Cardinality(Rows(limit))) < n =>
                     records - offset < n \/ n \in Rows(limit)
           /\ Rows(limit) = {} => offset = records
<1> DEFINE left == records - offset
           first == IF limit < left THEN left - limit + 1 ELSE 1
<1>1. records \in Nat /\ offset \in Nat /\ left \in Nat /\ first \in Nat
  BY HistoryConstants DEF HistoryTypeOK
<1>2. Rows(limit) = first .. left
  BY <1>1 DEF Rows
<1>3. Cardinality(first .. left) = IF first > left THEN 0 ELSE left - first + 1
  BY <1>1, FS_Interval
<1>4. Cardinality(Rows(limit)) = IF limit < left THEN limit ELSE left
  BY <1>1, <1>2, <1>3
<1>5. \A n \in 1 .. records : n \in Rows(limit) <=> first <= n /\ n <= left
  BY <1>1, <1>2
<1>6. Rows(limit) = {} => left = 0
  <2>1. left > 0 => first \in first .. left
    BY <1>1
  <2> QED
    BY <2>1, <1>1, <1>2
<1> QED
  BY <1>1, <1>4, <1>5, <1>6

LEMMA GetHistoryKeeps ==
    ASSUME HistoryInv, NEW limit \in 1 .. MaxPage + 1, GetHistory(limit)
    PROVE  HistoryInv'
<1> DEFINE size == IF limit < MaxPage THEN limit ELSE MaxPage
           rows == Rows(size)
<1>1. size \in Nat \ {0}
  BY HistoryConstants
<1>2. /\ shown' = shown \cup rows /\ offset' = offset + Cardinality(rows)
      /\ ended' = (rows = {}) /\ records' = records /\ begun' = begun
  BY DEF GetHistory
<1>3. /\ Cardinality(rows) \in 0 .. (records - offset)
      /\ \A n \in 1 .. records :
            records - (offset + Cardinality(rows)) < n =>
                records - offset < n \/ n \in rows
      /\ rows = {} => offset = records
  BY <1>1, PageIsInterval DEF HistoryInv
<1>4. rows \subseteq 1 .. records
  BY DEF Rows
<1> HIDE DEF rows
<1>5. HistoryTypeOK'
  BY <1>2, <1>3, <1>4, HistoryConstants DEF HistoryInv, HistoryTypeOK
<1>6. Received'
  BY <1>2, <1>3 DEF HistoryInv, HistoryTypeOK, Received
<1>7. PagingSkipsNothing'
  <2>1. rows = {} => \A n \in 1 .. begun : records - offset < n
    BY <1>3 DEF HistoryInv, HistoryTypeOK
  <2> QED
    BY <1>2, <2>1 DEF HistoryInv, Received, PagingSkipsNothing
<1> QED
  BY <1>5, <1>6, <1>7 DEF HistoryInv

LEMMA NewAnalysisKeeps ==
    ASSUME HistoryInv, NewAnalysis PROVE HistoryInv'
BY HistoryConstants
DEF NewAnalysis, HistoryInv, HistoryTypeOK, Received, PagingSkipsNothing

\* A reader of the list who has reached its end has seen every analysis there
\* was when it began, whatever limits it asked for and whenever others were
\* created (api/analysis.py:242-252).
THEOREM PagingComplete == HistorySpec => []PagingSkipsNothing
<1>1. HistoryInv /\ [HistoryNext]_historyVars => HistoryInv'
  <2>1. HistoryInv /\ UNCHANGED historyVars => HistoryInv'
    BY DEF historyVars, HistoryInv, HistoryTypeOK, Received, PagingSkipsNothing
  <2> QED
    BY <2>1, GetHistoryKeeps, NewAnalysisKeeps DEF HistoryNext
<1>2. HistoryInv => PagingSkipsNothing
  BY DEF HistoryInv
<1> QED
  BY <1>1, <1>2, HistoryStarts, PTL DEF HistorySpec
=============================================================================
