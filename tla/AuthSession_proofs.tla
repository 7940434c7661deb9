------------------------- MODULE AuthSession_proofs -------------------------
(***************************************************************************)
(* Proofs, for every value of the constants, about AuthSession.            *)
(***************************************************************************)
EXTENDS AuthSession, TLAPS, FiniteSetTheorems

\* What each operation carries, and when a row has been loaded.
RequestInv ==
    \A r \in Requests :
        /\ pc[r] # "new" => via[r] \in Browsers /\ op[r] \in Operations
        /\ pc[r] # "new" /\ op[r] \in {"register", "login"} => arg[r] \in Emails
        /\ pc[r] # "new" /\ op[r] \in {"refresh", "logout"} =>
              arg[r] \in Requests
        /\ pc[r] = "new" => answer[r] = None
        /\ pc[r] = "insert" => op[r] = "register"
        /\ pc[r] = "commit" => user[r] \in Requests
        /\ answer[r] = "ok" /\ op[r] \in {"login", "refresh"} =>
              user[r] \in Requests

Typed == TypeOK /\ RequestInv

LEMMA InitTyped == Init => Typed
  BY ConstantsAssumption DEF Init, Typed, TypeOK, RequestInv, RequestPC

LEMMA TypedStep ==
    ASSUME Typed, [Next]_vars
    PROVE  Typed'
<1> USE ConstantsAssumption DEF Typed, TypeOK, RequestInv, RequestPC, Operations,
        Answers, userVars, browserVars, requestVars, Fault, Answer, Loaded, At
<1>1. CASE UNCHANGED vars
  BY <1>1 DEF vars
<1>2. ASSUME NEW r \in Requests, NEW b \in Browsers, NEW o \in Operations,
             NEW a \in Emails \cup Requests, SendRequest(r, b, o, a)
      PROVE  Typed'
  <2>1. TypeOK'
    BY <1>2 DEF SendRequest
  <2>2. RequestInv'
    BY <1>2 DEF SendRequest
  <2>3. QED
    BY <2>1, <2>2
<1>3. ASSUME NEW r \in Requests, ReceiveResponse(r) \/ LoseResponse(r)
      PROVE  Typed'
  BY <1>3 DEF ReceiveResponse, LoseResponse
<1>4. ASSUME NEW r \in Requests, RegisterCheck(r) \/ RegisterInsert(r)
      PROVE  Typed'
  BY <1>4 DEF RegisterCheck, RegisterInsert
<1>5. ASSUME NEW r \in Requests, Login(r)
      PROVE  Typed'
  BY <1>5 DEF Login
<1>6. ASSUME NEW r \in Requests, Refresh(r)
      PROVE  Typed'
  BY <1>6 DEF Refresh
<1>7. ASSUME NEW r \in Requests, Logout(r)
      PROVE  Typed'
  BY <1>7 DEF Logout
<1>8. ASSUME NEW r \in Requests, Commit(r)
      PROVE  Typed'
  <2>1. /\ email' \in [Requests -> Emails \cup {None}]
        /\ token' \in [Requests -> Requests \cup {None}]
        /\ expired' \in [Requests -> BOOLEAN]
        /\ active' = active
    <3>1. CASE UNCHANGED userVars
      BY <3>1
    <3>2. CASE WriteRow(r)
      <4>1. user[r] \in Requests /\ (op[r] = "register" => arg[r] \in Emails)
        BY <1>8 DEF Commit
      <4>2. CASE op[r] = "register"
        BY <3>2, <4>1, <4>2 DEF WriteRow
      <4>3. CASE op[r] \in {"login", "refresh"}
        <5>1. /\ email' = email
              /\ token' = [token EXCEPT ![user[r]] = r]
              /\ expired' = [expired EXCEPT ![user[r]] = FALSE]
              /\ active' = active
          BY <3>2, <4>3 DEF WriteRow
        <5>2. QED
          BY <4>1, <5>1
      <4>4. CASE op[r] = "logout"
        BY <3>2, <4>1, <4>4 DEF WriteRow
      <4>5. QED
        BY <3>2, <4>2, <4>3, <4>4 DEF WriteRow
    <3>3. QED
      BY <1>8, <3>1, <3>2 DEF Commit
  <2>2. TypeOK'
    BY <1>8, <2>1 DEF Commit, Committed
  <2>3. RequestInv'
    BY <1>8 DEF Commit, Committed
  <2>4. QED
    BY <2>2, <2>3
<1>9. ASSUME NEW u \in Requests, Expire(u) \/ Deactivate(u)
      PROVE  Typed'
  <2>1. CASE Expire(u)
    BY <2>1 DEF Expire
  <2>2. CASE Deactivate(u)
    BY <2>2 DEF Deactivate
  <2>3. QED
    BY <1>9, <2>1, <2>2
<1>10. ASSUME NEW b \in Browsers, DropCookie(b)
       PROVE  Typed'
  BY <1>10 DEF DropCookie
<1> HIDE ConstantsAssumption DEF Typed, TypeOK, RequestInv
<1>11. QED
  BY <1>1, <1>2, <1>3, <1>4, <1>5, <1>6, <1>7, <1>8, <1>9, <1>10
  DEF Next, Browse, Handle

\* Every variable keeps its type, and a request that got past its SELECT knows
\* the row it is about to write.
THEOREM SessionTypeCorrect == Spec => []TypeOK
<1>1. Typed => TypeOK
  BY DEF Typed
<1>2. Typed /\ [Next]_vars => Typed'
  BY TypedStep
<1>3. QED
  BY <1>1, <1>2, InitTyped, PTL DEF Spec

-----------------------------------------------------------------------------
(* One account for an e-mail *)

Inserted(r) == pc[r] = "commit" /\ op[r] = "register"

\* An uncommitted INSERT holds its e-mail: nobody else has it, nobody else
\* inserts it.
InsertInv ==
    \A r \in Requests : Inserted(r) =>
        /\ user[r] = r
        /\ ~Taken(arg[r])
        /\ \A q \in Requests : Inserted(q) /\ arg[q] = arg[r] => q = r

\* No step but the commit of a registration writes an e-mail, and no step but
\* an INSERT begins to hold one.
EmailsKeep ==
    /\ email' = email
    /\ \A r \in Requests : Inserted(r)' =>
          Inserted(r) /\ arg'[r] = arg[r] /\ user'[r] = user[r]

LEMMA EmailStep ==
    ASSUME Typed, [Next]_vars
    PROVE  \/ EmailsKeep
           \/ \E r \in Requests : RegisterInsert(r)
           \/ \E r \in Requests : Inserted(r) /\ Commit(r)
<1> USE DEF Typed, TypeOK, EmailsKeep, Inserted, userVars, requestVars,
            Answer, Loaded, At
<1>1. CASE UNCHANGED vars
  BY <1>1 DEF vars
<1>2. ASSUME NEW r \in Requests, Browse(r)
      PROVE  EmailsKeep
  <2>1. ASSUME NEW b \in Browsers, NEW o \in Operations,
               NEW a \in Emails \cup Requests, SendRequest(r, b, o, a)
        PROVE  EmailsKeep
    BY <2>1 DEF SendRequest
  <2>2. CASE ReceiveResponse(r) \/ LoseResponse(r)
    BY <2>2 DEF ReceiveResponse, LoseResponse
  <2>3. QED
    BY <1>2, <2>1, <2>2 DEF Browse
<1>3. ASSUME NEW r \in Requests, RegisterCheck(r) \/ Logout(r)
      PROVE  EmailsKeep
  BY <1>3 DEF RegisterCheck, Logout
<1>4. ASSUME NEW r \in Requests, Login(r)
      PROVE  EmailsKeep
  BY <1>4 DEF Login
<1>5. ASSUME NEW r \in Requests, Refresh(r)
      PROVE  EmailsKeep
  BY <1>5 DEF Refresh
<1>6. ASSUME NEW r \in Requests, Commit(r), ~Inserted(r)
      PROVE  EmailsKeep
  BY <1>6 DEF Commit, Committed, WriteRow
<1>7. ASSUME NEW r \in Requests, Expire(r) \/ Deactivate(r)
      PROVE  EmailsKeep
  BY <1>7 DEF Expire, Deactivate
<1>8. ASSUME NEW b \in Browsers, DropCookie(b)
      PROVE  EmailsKeep
  BY <1>8 DEF DropCookie
<1> HIDE DEF EmailsKeep, Inserted
<1>9. QED
  BY <1>1, <1>2, <1>3, <1>4, <1>5, <1>6, <1>7, <1>8 DEF Next, Handle

LEMMA UniqueStep ==
    ASSUME Typed, InsertInv, UniqueEmail, [Next]_vars
    PROVE  InsertInv' /\ UniqueEmail'
<1>1. CASE EmailsKeep
  BY <1>1 DEF EmailsKeep, InsertInv, UniqueEmail, Taken
<1>2. ASSUME NEW r \in Requests, RegisterInsert(r)
      PROVE  InsertInv' /\ UniqueEmail'
  <2>1. email' = email /\ arg' = arg /\ op' = op
    BY <1>2 DEF RegisterInsert, userVars, requestVars
  <2>2. \A q \in Requests : q # r => pc'[q] = pc[q] /\ user'[q] = user[q]
    BY <1>2 DEF RegisterInsert, Answer, Loaded, Typed, TypeOK
  <2>3. \A q \in Requests : Inserted(q) => arg[q] # arg[r]
    BY <1>2 DEF RegisterInsert, Inserted
  <2>4. Inserted(r)' => ~Taken(arg[r]) /\ user'[r] = r
    BY <1>2 DEF RegisterInsert, Answer, Loaded, Inserted, Typed, TypeOK
  <2>5. InsertInv'
    BY <2>1, <2>2, <2>3, <2>4 DEF InsertInv, Inserted, Taken
  <2>6. QED
    BY <2>1, <2>5 DEF UniqueEmail
<1>3. ASSUME NEW r \in Requests, Inserted(r), Commit(r)
      PROVE  InsertInv' /\ UniqueEmail'
  <2>1. /\ arg' = arg /\ op' = op /\ user' = user
        /\ pc' = [pc EXCEPT ![r] = "respond"]
    BY <1>3 DEF Commit, Committed, requestVars
  <2>2. \/ email' = email
        \/ email' = [email EXCEPT ![r] = arg[r]]
    BY <1>3 DEF Commit, WriteRow, Inserted, InsertInv, userVars
  <2>3. ~Taken(arg[r]) /\ \A q \in Requests :
           Inserted(q) /\ q # r => arg[q] # arg[r]
    BY <1>3 DEF InsertInv
  <2>4. UniqueEmail'
    BY <2>2, <2>3 DEF UniqueEmail, Taken, Typed, TypeOK
  <2>5. \A q \in Requests : Inserted(q)' => Inserted(q) /\ q # r
    BY <2>1 DEF Inserted, Typed, TypeOK
  <2>6. \A q \in Requests : Inserted(q)' => ~Taken(arg[q])'
    BY <2>1, <2>2, <2>3, <2>5 DEF InsertInv, Taken, Typed, TypeOK
  <2>7. InsertInv'
    BY <2>1, <2>5, <2>6 DEF InsertInv
  <2>8. QED
    BY <2>4, <2>7
<1>4. QED
  BY <1>1, <1>2, <1>3, EmailStep

\* Concurrent registrations, aborted commits and lost responses never leave two
\* accounts with one e-mail: between the check of api/auth.py:119 and the
\* commit, the INSERT of line 133 holds the address in the unique index.
THEOREM OneAccountPerEmail == Spec => []UniqueEmail
<1>1. Init => Typed /\ InsertInv /\ UniqueEmail
  BY InitTyped DEF Init, InsertInv, Inserted, UniqueEmail
<1>2. Typed /\ InsertInv /\ UniqueEmail /\ [Next]_vars
        => Typed' /\ InsertInv' /\ UniqueEmail'
  BY TypedStep, UniqueStep
<1>3. QED
  BY <1>1, <1>2, PTL DEF Spec

-----------------------------------------------------------------------------
(* A token is exchanged once *)

Finished(r) == pc[r] \in {"respond", "done", "lost"}
Exchanged(r) == op[r] = "refresh" /\ answer[r] = "ok"

\* A browser has one request under way.
OneInFlight ==
    \A q, r \in Requests :
        InFlight(q) /\ InFlight(r) /\ via[q] = via[r] => q = r

\* A token of the database names the request that has written it there, one of
\* a cookie the request that has brought it there.
TokensAreWritten ==
    \A u \in Requests :
        token[u] # None => Finished(token[u]) /\ user[token[u]] = u
CookiesAreReceived ==
    \A b \in Browsers :
        cookie[b] # None => pc[cookie[b]] = "done" /\ via[cookie[b]] = b

\* A refresh carries a token of its own browser. Between its SELECT and its
\* commit nobody else exchanges it, since that browser waits for the answer.
RefreshInv ==
    \A r \in Requests : pc[r] # "new" /\ op[r] = "refresh" =>
        pc[arg[r]] = "done" /\ via[arg[r]] = via[r]
LoadedInv ==
    \A r \in Requests : pc[r] = "commit" /\ op[r] = "refresh" =>
        /\ user[r] = user[arg[r]]
        /\ \A q \in Requests : Exchanged(q) => arg[q] # arg[r]

\* A token that was exchanged is no token of an account any more.
UsedInv ==
    \A q \in Requests : Exchanged(q) =>
        Finished(q) /\ \A u \in Requests : token[u] # arg[q]

ExchangeInv ==
    /\ OneInFlight /\ TokensAreWritten /\ CookiesAreReceived
    /\ RefreshInv /\ LoadedInv /\ UsedInv /\ ExchangedOnce

LEMMA ExchangeInit == Init => ExchangeInv
BY ConstantsAssumption
DEF Init, ExchangeInv, OneInFlight, TokensAreWritten, CookiesAreReceived,
    RefreshInv, LoadedInv, UsedInv, ExchangedOnce, Exchanged, Finished, InFlight

\* With one tab a browser sends a request only if it waits for none.
LEMMA SendsWhenIdle ==
    ASSUME Tabs = 1, IsFiniteSet(Requests),
           NEW r \in Requests, NEW b \in Browsers, NEW o \in Operations,
           NEW a \in Emails \cup Requests, SendRequest(r, b, o, a)
    PROVE  \A q \in Requests : ~(InFlight(q) /\ via[q] = b)
<1> DEFINE busy == {q \in Requests : InFlight(q) /\ via[q] = b}
<1>1. IsFiniteSet(busy)
  BY FS_Subset
<1>2. Cardinality(busy) \in Nat
  BY <1>1, FS_CardinalityType
<1>3. Cardinality(busy) < 1
  BY DEF SendRequest
<1>4. Cardinality(busy) = 0
  <2> HIDE DEF busy
  <2> QED
    BY <1>2, <1>3
<1>5. busy = {}
  BY <1>1, <1>4, FS_EmptySet
<1> QED
  BY <1>5

LEMMA SendKeepsExchange ==
    ASSUME Tabs = 1, IsFiniteSet(Requests), Typed, ExchangeInv,
           NEW r \in Requests, NEW b \in Browsers, NEW o \in Operations,
           NEW a \in Emails \cup Requests, SendRequest(r, b, o, a)
    PROVE  ExchangeInv'
<1>1. /\ token' = token /\ cookie' = cookie /\ user' = user /\ answer' = answer
      /\ pc' = [pc EXCEPT ![r] = "sent"] /\ op' = [op EXCEPT ![r] = o]
      /\ via' = [via EXCEPT ![r] = b] /\ arg' = [arg EXCEPT ![r] = a]
      /\ pc[r] = "new" /\ answer[r] = None
      /\ o = "refresh" => a = cookie[b] /\ a # None
  BY ConstantsAssumption
  DEF SendRequest, userVars, browserVars, Typed, RequestInv
<1>2. /\ pc'[r] = "sent" /\ op'[r] = o /\ via'[r] = b /\ arg'[r] = a
      /\ \A q \in Requests : q # r =>
            pc'[q] = pc[q] /\ op'[q] = op[q] /\ via'[q] = via[q] /\ arg'[q] = arg[q]
  BY <1>1 DEF Typed, TypeOK
<1>3. \A q \in Requests : Exchanged(q)' => q # r /\ Exchanged(q)
  BY <1>1, <1>2, ConstantsAssumption DEF Exchanged, Answers
<1>4. \A q \in Requests : Finished(q) => q # r /\ Finished(q)'
  BY <1>1, <1>2 DEF Finished
<1>5. OneInFlight'
  BY <1>2, SendsWhenIdle DEF ExchangeInv, OneInFlight, InFlight
<1>6. TokensAreWritten'
  BY <1>1, <1>4 DEF ExchangeInv, TokensAreWritten, Typed, TypeOK
<1>7. CookiesAreReceived'
  BY <1>1, <1>2 DEF ExchangeInv, CookiesAreReceived, Typed, TypeOK
<1>8. RefreshInv'
  <2>1. ASSUME NEW q \in Requests, pc'[q] # "new", op'[q] = "refresh"
        PROVE  pc'[arg'[q]] = "done" /\ via'[arg'[q]] = via'[q]
    <3>1. CASE q = r
      <4>1. a \in Requests /\ pc[a] = "done" /\ via[a] = b
        BY <1>1, <1>2, <2>1, <3>1 DEF ExchangeInv, CookiesAreReceived, Typed, TypeOK
      <4> QED
        BY <4>1, <1>1, <1>2, <3>1
    <3>2. CASE q # r
      <4>1. arg[q] \in Requests /\ pc[arg[q]] = "done" /\ via[arg[q]] = via[q]
        BY <1>2, <2>1, <3>2 DEF ExchangeInv, RefreshInv, Typed, RequestInv
      <4> QED
        BY <4>1, <1>1, <1>2, <3>2
    <3> QED
      BY <3>1, <3>2
  <2> QED
    BY <2>1 DEF RefreshInv
<1>9. LoadedInv'
  BY <1>1, <1>2, <1>3 DEF ExchangeInv, LoadedInv
<1>10. UsedInv'
  BY <1>1, <1>2, <1>3, <1>4 DEF ExchangeInv, UsedInv
<1>11. ExchangedOnce'
  BY <1>2, <1>3 DEF ExchangeInv, ExchangedOnce, Exchanged
<1> QED
  BY <1>5, <1>6, <1>7, <1>8, <1>9, <1>10, <1>11 DEF ExchangeInv

\* What a request does before its commit, and what comes after it, exchanges no
\* token.
Progress(r) ==
    /\ token' = token /\ op' = op /\ via' = via /\ arg' = arg
    /\ \A q \in Requests : q # r =>
          pc'[q] = pc[q] /\ user'[q] = user[q] /\ answer'[q] = answer[q]
    /\ pc[r] # "new" /\ pc'[r] # "new"
    /\ InFlight(r)' => InFlight(r)
    /\ Finished(r) => Finished(r)' /\ user'[r] = user[r]
    /\ pc[r] # "done"
    /\ Exchanged(r)' => Exchanged(r)
    /\ pc'[r] = "commit" /\ op[r] = "refresh" => token[user'[r]] = arg[r] /\ user'[r] \in Requests
    /\ \A b \in Browsers :
          \/ cookie'[b] \in {cookie[b], None}
          \/ cookie'[b] = r /\ via[r] = b /\ pc'[r] = "done"

LEMMA ProgressKeepsExchange ==
    ASSUME Typed, ExchangeInv, NEW r \in Requests, Progress(r)
    PROVE  ExchangeInv'
<1> USE DEF Progress
<1>1. \A q \in Requests :
        /\ Finished(q) => Finished(q)' /\ user'[q] = user[q]
        /\ Exchanged(q)' => Exchanged(q)
        /\ InFlight(q)' => InFlight(q)
        /\ pc[q] = "done" => pc'[q] = "done" /\ user'[q] = user[q]
        /\ pc'[q] # "new" => pc[q] # "new"
  BY DEF Finished, Exchanged, InFlight
<1>2. OneInFlight' /\ ExchangedOnce'
  BY <1>1 DEF ExchangeInv, OneInFlight, ExchangedOnce, Exchanged
<1>3. TokensAreWritten'
  BY <1>1 DEF ExchangeInv, TokensAreWritten, Typed, TypeOK
<1>4. CookiesAreReceived'
  BY <1>1 DEF ExchangeInv, CookiesAreReceived, Typed, TypeOK
<1>5. RefreshInv'
  <2>1. ASSUME NEW q \in Requests, pc'[q] # "new", op[q] = "refresh"
        PROVE  pc'[arg[q]] = "done" /\ via[arg[q]] = via[q]
    <3>1. arg[q] \in Requests /\ pc[arg[q]] = "done" /\ via[arg[q]] = via[q]
      BY <1>1, <2>1 DEF ExchangeInv, RefreshInv, Typed, RequestInv
    <3> QED
      BY <3>1, <1>1
  <2> QED
    BY <2>1 DEF RefreshInv
<1>6. UsedInv'
  BY <1>1 DEF ExchangeInv, UsedInv
<1>7. LoadedInv'
  <2>1. ASSUME NEW q \in Requests, pc'[q] = "commit", op[q] = "refresh"
        PROVE  /\ user'[q] = user'[arg[q]]
               /\ \A p \in Requests : Exchanged(p)' => arg[p] # arg[q]
    <3>1. /\ arg[q] \in Requests /\ pc[arg[q]] = "done"
          /\ user'[arg[q]] = user[arg[q]]
      BY <1>1, <2>1 DEF ExchangeInv, RefreshInv, Typed, RequestInv
    <3>2. CASE q = r
      <4>1. user'[q] \in Requests /\ token[user'[q]] = arg[q] /\ arg[q] # None
        BY <2>1, <3>1, <3>2, ConstantsAssumption
      <4>2. user[arg[q]] = user'[q]
        BY <4>1 DEF ExchangeInv, TokensAreWritten
      <4>3. \A p \in Requests : Exchanged(p) => arg[p] # arg[q]
        BY <4>1 DEF ExchangeInv, UsedInv
      <4> QED
        BY <3>1, <4>2, <4>3, <1>1
    <3>3. CASE q # r
      BY <1>1, <2>1, <3>1, <3>3 DEF ExchangeInv, LoadedInv
    <3> QED
      BY <3>2, <3>3
  <2> QED
    BY <2>1 DEF LoadedInv
<1> QED
  BY <1>2, <1>3, <1>4, <1>5, <1>6, <1>7 DEF ExchangeInv

LEMMA CommitKeepsExchange ==
    ASSUME Typed, ExchangeInv, NEW r \in Requests, Commit(r)
    PROVE  ExchangeInv'
<1>1. /\ cookie' = cookie /\ op' = op /\ via' = via /\ arg' = arg /\ user' = user
      /\ pc[r] = "commit" /\ pc' = [pc EXCEPT ![r] = "respond"]
      /\ \E a \in {"ok", "error"} : answer' = [answer EXCEPT ![r] = a]
      /\ user[r] \in Requests
  BY DEF Commit, Committed, browserVars, requestVars, Typed, RequestInv
<1>2. /\ pc'[r] = "respond"
      /\ \A q \in Requests : q # r => pc'[q] = pc[q] /\ answer'[q] = answer[q]
  BY <1>1 DEF Typed, TypeOK
<1>3. \A q \in Requests :
        /\ Finished(q) => q # r /\ Finished(q)'
        /\ pc[q] = "done" => pc'[q] = "done"
        /\ pc'[q] # "new" => pc[q] # "new"
        /\ InFlight(q)' => InFlight(q)
        /\ Exchanged(q)' => q = r \/ Exchanged(q)
        /\ pc'[q] = "commit" => pc[q] = "commit" /\ q # r
  BY <1>1, <1>2 DEF Finished, Exchanged, InFlight
<1>4. Finished(r)'
  BY <1>2 DEF Finished
<1>5. ASSUME NEW u \in Requests
      PROVE  \/ token'[u] \in {token[u], None} /\ (u = user[r] => ~Exchanged(r)')
             \/ u = user[r] /\ token'[u] \in {r, None}
  <2>1. CASE UNCHANGED token /\ answer' = [answer EXCEPT ![r] = "error"]
    BY <2>1 DEF Exchanged, Typed, TypeOK
  <2>2. CASE WriteRow(r) /\ op[r] = "register"
    BY <2>2, <1>1 DEF WriteRow, Exchanged, Typed, TypeOK
  <2>3. CASE WriteRow(r) /\ op[r] # "register"
    BY <2>3, <1>1 DEF WriteRow, Typed, TypeOK
  <2> QED
    BY <2>1, <2>2, <2>3 DEF Commit, Committed, userVars
<1>6. OneInFlight'
  BY <1>1, <1>3 DEF ExchangeInv, OneInFlight
<1>7. TokensAreWritten'
  <2>1. ASSUME NEW u \in Requests, token'[u] # None
        PROVE  Finished(token[u])' /\ user[token'[u]] = u
    <3>1. CASE token'[u] = token[u]
      BY <2>1, <3>1, <1>3 DEF ExchangeInv, TokensAreWritten, Typed, TypeOK
    <3>2. CASE token'[u] = r /\ u = user[r]
      BY <3>2, <1>4
    <3> QED
      BY <2>1, <3>1, <3>2, <1>5
  <2> QED
    BY <2>1, <1>1 DEF TokensAreWritten
<1>8. CookiesAreReceived'
  BY <1>1, <1>3 DEF ExchangeInv, CookiesAreReceived, Typed, TypeOK
<1>9. \A q \in Requests : pc[q] # "new" /\ op[q] = "refresh" =>
         arg[q] \in Requests /\ pc[arg[q]] = "done" /\ via[arg[q]] = via[q]
  BY DEF ExchangeInv, RefreshInv, Typed, RequestInv
<1>10. RefreshInv'
  BY <1>1, <1>3, <1>9 DEF RefreshInv
<1>11. LoadedInv'
  <2>1. ASSUME NEW q \in Requests, pc'[q] = "commit", op[q] = "refresh",
               NEW p \in Requests, Exchanged(p)', arg[p] = arg[q]
        PROVE  FALSE
    <3>1. pc[q] = "commit" /\ q # r
      BY <2>1, <1>3
    <3>2. ~Exchanged(p)
      BY <2>1, <3>1 DEF ExchangeInv, LoadedInv
    <3>3. p = r /\ op[p] = "refresh"
      BY <2>1, <3>2, <1>1, <1>3 DEF Exchanged
    <3>4. via[p] = via[q] /\ InFlight(p) /\ InFlight(q)
      BY <1>1, <1>9, <2>1, <3>1, <3>3 DEF InFlight
    <3> QED
      BY <3>1, <3>3, <3>4 DEF ExchangeInv, OneInFlight
  <2>2. ASSUME NEW q \in Requests, pc'[q] = "commit", op[q] = "refresh"
        PROVE  user[q] = user[arg[q]]
    BY <2>2, <1>3 DEF ExchangeInv, LoadedInv
  <2> QED
    BY <1>1, <2>1, <2>2 DEF LoadedInv
<1>12. Exchanged(r)' => op[r] = "refresh" /\ arg[r] \in Requests /\ arg[r] # r
                        /\ user[r] = user[arg[r]]
                        /\ \A q \in Requests : Exchanged(q) => arg[q] # arg[r]
  BY <1>1, <1>9 DEF Exchanged, ExchangeInv, LoadedInv
<1>13. UsedInv'
  <2>1. ASSUME NEW q \in Requests, Exchanged(q)'
        PROVE  Finished(q)' /\ op[q] = "refresh" /\ pc[q] # "new"
    <3>1. CASE q = r
      BY <3>1, <2>1, <1>1, <1>4 DEF Exchanged
    <3>2. CASE q # r
      BY <3>2, <2>1, <1>1, <1>3 DEF ExchangeInv, UsedInv, Exchanged, Finished
    <3> QED
      BY <3>1, <3>2
  <2>2. ASSUME NEW q \in Requests, Exchanged(q)', NEW u \in Requests,
               token'[u] = arg[q]
        PROVE  FALSE
    <3>1. arg[q] \in Requests /\ arg[q] # r /\ arg[q] # None
      BY <2>1, <2>2, <1>1, <1>9, ConstantsAssumption
    <3>2. token'[u] = token[u] /\ (u = user[r] => ~Exchanged(r)')
      BY <2>2, <3>1, <1>5
    <3>3. q = r
      BY <2>2, <3>2, <1>3 DEF ExchangeInv, UsedInv
    <3>4. user[arg[q]] = u
      BY <2>2, <3>1, <3>2 DEF ExchangeInv, TokensAreWritten
    <3> QED
      BY <2>2, <3>2, <3>3, <3>4, <1>12
  <2> QED
    BY <1>1, <2>1, <2>2 DEF UsedInv
<1>14. ExchangedOnce'
  <2>1. ASSUME NEW q \in Requests, NEW p \in Requests, q # p,
               Exchanged(q)', Exchanged(p)'
        PROVE  arg[q] # arg[p]
    <3>1. CASE q = r
      BY <2>1, <3>1, <1>3, <1>12
    <3>2. CASE p = r
      BY <2>1, <3>2, <1>3, <1>12
    <3>3. CASE q # r /\ p # r
      BY <2>1, <3>3, <1>3 DEF ExchangeInv, ExchangedOnce, Exchanged
    <3> QED
      BY <3>1, <3>2, <3>3
  <2> QED
    BY <1>1, <2>1 DEF ExchangedOnce, Exchanged
<1> QED
  BY <1>6, <1>7, <1>8, <1>10, <1>11, <1>13, <1>14 DEF ExchangeInv

LEMMA StepProgresses ==
    ASSUME Typed, NEW r \in Requests,
           \/ ReceiveResponse(r) \/ LoseResponse(r) \/ RegisterCheck(r)
           \/ RegisterInsert(r) \/ Login(r) \/ Refresh(r) \/ Logout(r)
    PROVE  Progress(r)
<1> USE DEF Progress, Typed, TypeOK, userVars, browserVars, requestVars, At,
            Answer, Loaded, Finished, Exchanged, InFlight
<1>1. CASE ReceiveResponse(r)
  BY <1>1 DEF ReceiveResponse
<1>2. CASE LoseResponse(r)
  BY <1>2 DEF LoseResponse
<1>3. CASE RegisterCheck(r)
  BY <1>3 DEF RegisterCheck
<1>4. CASE RegisterInsert(r)
  BY <1>4 DEF RegisterInsert, RequestInv
<1>5. CASE Login(r)
  BY <1>5 DEF Login
<1>6. CASE Refresh(r)
  BY <1>6 DEF Refresh
<1>7. CASE Logout(r)
  BY <1>7 DEF Logout
<1> QED
  BY <1>1, <1>2, <1>3, <1>4, <1>5, <1>6, <1>7

LEMMA ExchangeStep ==
    ASSUME Tabs = 1, IsFiniteSet(Requests), Typed, ExchangeInv, [Next]_vars
    PROVE  ExchangeInv'
<1>1. CASE \/ UNCHANGED vars
           \/ \E u \in Requests : Expire(u) \/ Deactivate(u)
  <2>1. /\ token' = token /\ cookie' = cookie /\ pc' = pc /\ op' = op
        /\ via' = via /\ arg' = arg /\ user' = user /\ answer' = answer
    BY <1>1 DEF vars, Expire, Deactivate, userVars, browserVars, requestVars
  <2> QED
    BY <2>1
    DEF ExchangeInv, OneInFlight, TokensAreWritten, CookiesAreReceived, RefreshInv,
        LoadedInv, UsedInv, ExchangedOnce, Exchanged, Finished, InFlight
<1>2. ASSUME NEW b \in Browsers, DropCookie(b)
      PROVE  ExchangeInv'
  <2>1. /\ token' = token /\ pc' = pc /\ op' = op
        /\ via' = via /\ arg' = arg /\ user' = user /\ answer' = answer
        /\ \A c \in Browsers : cookie'[c] \in {cookie[c], None}
    BY <1>2 DEF DropCookie, userVars, requestVars, Typed, TypeOK
  <2>2. CookiesAreReceived'
    BY <2>1 DEF ExchangeInv, CookiesAreReceived
  <2> QED
    BY <2>1, <2>2
    DEF ExchangeInv, OneInFlight, TokensAreWritten, RefreshInv,
        LoadedInv, UsedInv, ExchangedOnce, Exchanged, Finished, InFlight
<1>3. ASSUME NEW r \in Requests, Browse(r)
      PROVE  ExchangeInv'
  BY <1>3, SendKeepsExchange, StepProgresses, ProgressKeepsExchange DEF Browse
<1>4. ASSUME NEW r \in Requests, Handle(r)
      PROVE  ExchangeInv'
  BY <1>4, StepProgresses, ProgressKeepsExchange, CommitKeepsExchange DEF Handle
<1> QED
  BY <1>1, <1>2, <1>3, <1>4 DEF Next

\* Whatever is lost, aborted, expired or overtaken by the requests of another
\* browser, no two refreshes succeed with the same cookie (api/auth.py:234), if
\* a browser waits for an answer before it sends the next request.
THEOREM TokensExchangedOnce ==
    ASSUME Tabs = 1, IsFiniteSet(Requests)
    PROVE  Spec => []ExchangedOnce
<1>1. Init => Typed /\ ExchangeInv
  BY InitTyped, ExchangeInit
<1>2. Typed /\ ExchangeInv /\ [Next]_vars => Typed' /\ ExchangeInv'
  BY TypedStep, ExchangeStep
<1>3. ExchangeInv => ExchangedOnce
  BY DEF ExchangeInv
<1> QED
  BY <1>1, <1>2, <1>3, PTL DEF Spec

-----------------------------------------------------------------------------
(* A live session can be used *)

\* What refers to an account refers to one that was registered.
AccountsExist ==
    /\ \A u \in Requests : token[u] # None => email[u] # None
    /\ \A r \in Requests : pc[r] = "commit" /\ op[r] # "register" =>
          email[user[r]] # None
    /\ \A r \in Requests : answer[r] = "ok" /\ op[r] \in {"login", "refresh"} =>
          email[user[r]] # None
    /\ \A b \in Browsers : access[b] # None => email[access[b]] # None
    /\ \A r \in Requests : pc[r] # "new" /\ op[r] = "logout" => email[arg[r]] # None

\* The token of a live session is in the cookie of its browser, on the way there,
\* or was lost.
Kept(t) ==
    \/ answer[t] = "error" \/ pc[t] \in {"lost", "respond"}
    \/ cookie[via[t]] = t
HeldInv ==
    \A u \in Requests : token[u] # None =>
        /\ op[token[u]] \in {"login", "refresh"}
        /\ answer[token[u]] \in {"ok", "error"}
        /\ ~expired[u] => Kept(token[u])

\* The answer that a browser is about to receive is newer than the tokens it has.
NewestInv ==
    \A r, u \in Requests :
        /\ pc[r] = "respond" /\ answer[r] = "ok" /\ op[r] # "register"
        /\ token[u] # None /\ via[token[u]] = via[r]
        => token[u] = r

SessionInv == AccountsExist /\ HeldInv /\ NewestInv

LEMMA SessionInit == Init => SessionInv
BY ConstantsAssumption
DEF Init, SessionInv, AccountsExist, HeldInv, NewestInv, Kept

\* Accounts are never deleted.
LEMMA EmailsStay ==
    ASSUME Typed, [Next]_vars
    PROVE  \A u \in Requests : email[u] # None => email'[u] # None
<1>1. CASE EmailsKeep
  BY <1>1 DEF EmailsKeep
<1>2. CASE \E r \in Requests : RegisterInsert(r)
  BY <1>2 DEF RegisterInsert, userVars
<1>3. ASSUME NEW r \in Requests, Inserted(r), Commit(r)
      PROVE  \A u \in Requests : email[u] # None => email'[u] # None
  <2>1. arg[r] # None
    BY <1>3, ConstantsAssumption DEF Inserted, Typed, RequestInv
  <2>2. CASE email' = email
    BY <2>2
  <2>3. CASE email' = [email EXCEPT ![user[r]] = arg[r]]
    BY <2>1, <2>3 DEF Typed, TypeOK
  <2> QED
    BY <1>3, <2>2, <2>3 DEF Commit, WriteRow, userVars
<1> QED
  BY <1>1, <1>2, <1>3, EmailStep

LEMMA AccountsStep ==
    ASSUME Typed, AccountsExist, [Next]_vars
    PROVE  AccountsExist'
<1> USE DEF Typed, TypeOK, AccountsExist
<1>1. CASE UNCHANGED vars
  BY <1>1 DEF vars, userVars, browserVars, requestVars
<1>2. ASSUME NEW r \in Requests, NEW b \in Browsers, NEW o \in Operations,
             NEW a \in Emails \cup Requests, SendRequest(r, b, o, a)
      PROVE  AccountsExist'
  BY <1>2, ConstantsAssumption
  DEF SendRequest, userVars, browserVars, RequestInv, Answers
<1>3. ASSUME NEW r \in Requests, ReceiveResponse(r) \/ LoseResponse(r)
      PROVE  AccountsExist'
  <2>1. CASE ReceiveResponse(r)
    BY <2>1 DEF ReceiveResponse, userVars, browserVars, requestVars
  <2>2. CASE LoseResponse(r)
    BY <2>2 DEF LoseResponse, userVars, browserVars, requestVars
  <2> QED
    BY <1>3, <2>1, <2>2
<1>4. ASSUME NEW r \in Requests, RegisterCheck(r) \/ RegisterInsert(r)
      PROVE  AccountsExist'
  <2>1. CASE RegisterCheck(r)
    BY <2>1 DEF RegisterCheck, Answer, At, userVars, browserVars, requestVars
  <2>2. CASE RegisterInsert(r)
    BY <2>2 DEF RegisterInsert, Answer, Loaded, RequestInv, userVars, browserVars, requestVars
  <2> QED
    BY <1>4, <2>1, <2>2
<1>5. ASSUME NEW r \in Requests, Login(r)
      PROVE  AccountsExist'
  BY <1>5, ConstantsAssumption
  DEF Login, Answer, Loaded, At, RequestInv, userVars, browserVars, requestVars
<1>6. ASSUME NEW r \in Requests, Refresh(r)
      PROVE  AccountsExist'
  BY <1>6, ConstantsAssumption
  DEF Refresh, Answer, Loaded, At, RequestInv, userVars, browserVars, requestVars
<1>7. ASSUME NEW r \in Requests, Logout(r)
      PROVE  AccountsExist'
  BY <1>7 DEF Logout, Answer, Loaded, At, RequestInv, userVars, browserVars, requestVars
<1>8. ASSUME NEW r \in Requests, Commit(r)
      PROVE  AccountsExist'
  <2>1. \A u \in Requests : email[u] # None => email'[u] # None
    BY EmailsStay
  <2>2. /\ op' = op /\ arg' = arg /\ user' = user /\ access' = access
        /\ pc' = [pc EXCEPT ![r] = "respond"]
        /\ pc[r] = "commit" /\ user[r] \in Requests
    BY <1>8 DEF Commit, Committed, browserVars, requestVars, RequestInv
  <2>3. \A u \in Requests : token'[u] # None => email'[u] # None
    <3>1. ASSUME NEW u \in Requests
          PROVE  token'[u] \in {token[u], None} \/ (u = user[r] /\ op[r] # "register")
      <4>1. CASE WriteRow(r)
        BY <4>1, <2>2 DEF WriteRow
      <4> QED
        BY <1>8, <4>1 DEF Commit, userVars
    <3> QED
      BY <3>1, <2>1, <2>2
  <2>4. \A q \in Requests : answer'[q] = answer[q] \/ q = r
    BY <1>8 DEF Commit, Committed
  <2>5. \A q \in Requests : answer'[q] = "ok" /\ op[q] \in {"login", "refresh"} =>
          user[q] \in Requests /\ email[user[q]] # None
    BY <2>2, <2>4 DEF RequestInv
  <2>6. \A q \in Requests : pc'[q] = "commit" /\ op[q] # "register" =>
          user[q] \in Requests /\ email[user[q]] # None
    BY <2>2 DEF RequestInv
  <2>7. \A q \in Requests : pc'[q] # "new" /\ op[q] = "logout" =>
          arg[q] \in Requests /\ email[arg[q]] # None
    BY <2>2 DEF RequestInv
  <2> QED
    BY <2>1, <2>2, <2>3, <2>5, <2>6, <2>7
<1>9. ASSUME NEW u \in Requests, Expire(u) \/ Deactivate(u)
      PROVE  AccountsExist'
  BY <1>9 DEF Expire, Deactivate, browserVars, requestVars
<1>10. ASSUME NEW b \in Browsers, DropCookie(b)
       PROVE  AccountsExist'
  BY <1>10 DEF DropCookie, userVars, requestVars
<1> HIDE DEF Typed, TypeOK, AccountsExist
<1> QED
  BY <1>1, <1>2, <1>3, <1>4, <1>5, <1>6, <1>7, <1>8, <1>9, <1>10
  DEF Next, Browse, Handle

\* One address has one account.
LEMMA OnlyAccount ==
    ASSUME \A e, f \in Emails : e = f, Typed, UniqueEmail,
           NEW u \in Requests, NEW v \in Requests, email[u] # None, email[v] # None
    PROVE  u = v
BY DEF Typed, TypeOK, UniqueEmail

\* A handler before its commit, and the browser's side of a response, leave the
\* users table alone.
LEMMA HandlingKeepsSession ==
    ASSUME \A e, f \in Emails : e = f, Typed, UniqueEmail, ExchangeInv, SessionInv,
           NEW r \in Requests,
           RegisterCheck(r) \/ RegisterInsert(r) \/ Login(r) \/ Refresh(r) \/ Logout(r)
    PROVE  HeldInv' /\ NewestInv'
<1> USE DEF Typed, TypeOK
<1>1. /\ token' = token /\ expired' = expired /\ cookie' = cookie /\ op' = op
      /\ via' = via /\ pc[r] \in {"sent", "insert"}
      /\ \A q \in Requests : q # r => pc'[q] = pc[q] /\ answer'[q] = answer[q]
  BY DEF RegisterCheck, RegisterInsert, Login, Refresh, Logout, At, Answer, Loaded,
         userVars, browserVars, requestVars
<1>2. \A u \in Requests : token[u] # None => token[u] \in Requests /\ token[u] # r
  BY <1>1 DEF ExchangeInv, TokensAreWritten, Finished
<1>3. HeldInv'
  BY <1>1, <1>2 DEF SessionInv, HeldInv, Kept
<1>4. ASSUME NEW u \in Requests, token[u] # None, pc'[r] = "respond",
             answer'[r] = "ok", op[r] # "register"
      PROVE  FALSE
  <2>1. At(r, "logout") /\ token[arg[r]] = None
    BY <1>4, <1>1 DEF RegisterCheck, RegisterInsert, Login, Refresh, Logout, At,
                      Answer, Loaded
  <2>2. arg[r] \in Requests /\ email[arg[r]] # None /\ email[u] # None
    BY <1>4, <2>1 DEF At, SessionInv, AccountsExist, RequestInv
  <2> QED
    BY <1>4, <2>1, <2>2, OnlyAccount
<1>5. NewestInv'
  BY <1>1, <1>4 DEF SessionInv, NewestInv
<1> QED
  BY <1>3, <1>5

LEMMA ReceivingKeepsSession ==
    ASSUME Typed, ExchangeInv, SessionInv,
           NEW r \in Requests, ReceiveResponse(r) \/ LoseResponse(r)
    PROVE  HeldInv' /\ NewestInv'
<1> USE DEF Typed, TypeOK
<1>1. /\ token' = token /\ expired' = expired /\ op' = op
      /\ via' = via /\ answer' = answer /\ pc[r] = "respond"
      /\ pc'[r] \in {"done", "lost"}
      /\ \A q \in Requests : q # r => pc'[q] = pc[q]
  BY DEF ReceiveResponse, LoseResponse, userVars, browserVars, requestVars
<1>2. NewestInv'
  BY <1>1 DEF SessionInv, NewestInv
<1>3. ASSUME NEW u \in Requests, token[u] # None, ~expired[u]
      PROVE  Kept(token[u])'
  <2> DEFINE t == token[u]
  <2>1. /\ t \in Requests /\ op[t] \in {"login", "refresh"} /\ Kept(t)
        /\ answer[t] \in {"ok", "error"} /\ via[t] \in Browsers
    BY <1>3 DEF SessionInv, HeldInv, ExchangeInv, TokensAreWritten, Finished, RequestInv
  <2>2. CASE LoseResponse(r) \/ answer[r] # "ok" \/ op[r] = "register"
    <3>1. cookie' = cookie /\ (pc'[r] = "lost" \/ answer[r] # "ok" \/ op[r] = "register")
      <4>1. CASE LoseResponse(r)
        BY <4>1 DEF LoseResponse, browserVars
      <4>2. CASE ReceiveResponse(r) /\ (answer[r] # "ok" \/ op[r] = "register")
        BY <4>2 DEF ReceiveResponse, browserVars
      <4> QED
        BY <2>2, <4>1, <4>2
    <3> QED
      BY <1>1, <2>1, <3>1 DEF Kept
  <2>3. CASE ReceiveResponse(r) /\ answer[r] = "ok" /\ op[r] # "register"
    <3>1. via[t] = via[r] => t = r
      BY <1>1, <1>3, <2>3 DEF SessionInv, NewestInv
    <3>2. \A b \in Browsers : b # via[r] => cookie'[b] = cookie[b]
      BY <2>3 DEF ReceiveResponse
    <3>3. t = r => cookie'[via[t]] = t
      BY <2>1, <2>3 DEF ReceiveResponse
    <3> QED
      BY <1>1, <2>1, <3>1, <3>2, <3>3 DEF Kept
  <2> QED
    BY <2>2, <2>3
<1>4. HeldInv'
  BY <1>1, <1>3 DEF SessionInv, HeldInv
<1> QED
  BY <1>2, <1>4

LEMMA SendingKeepsSession ==
    ASSUME Typed, ExchangeInv, SessionInv,
           NEW r \in Requests, NEW b \in Browsers, NEW o \in Operations,
           NEW a \in Emails \cup Requests, SendRequest(r, b, o, a)
    PROVE  HeldInv' /\ NewestInv'
<1> USE DEF Typed, TypeOK
<1>1. /\ token' = token /\ expired' = expired /\ cookie' = cookie /\ answer' = answer
      /\ pc[r] = "new" /\ pc'[r] = "sent"
      /\ \A q \in Requests : q # r =>
            pc'[q] = pc[q] /\ op'[q] = op[q] /\ via'[q] = via[q]
  BY DEF SendRequest, userVars, browserVars
<1>2. \A u \in Requests : token[u] # None => token[u] \in Requests /\ token[u] # r
  BY <1>1 DEF ExchangeInv, TokensAreWritten, Finished
<1>3. HeldInv'
  BY <1>1, <1>2 DEF SessionInv, HeldInv, Kept
<1>4. NewestInv'
  BY <1>1, <1>2 DEF SessionInv, NewestInv
<1> QED
  BY <1>3, <1>4

LEMMA CommitKeepsSession ==
    ASSUME \A e, f \in Emails : e = f, Typed, UniqueEmail, ExchangeInv, SessionInv,
           NEW r \in Requests, Commit(r)
    PROVE  HeldInv' /\ NewestInv'
<1> USE DEF Typed, TypeOK
<1>1. /\ cookie' = cookie /\ op' = op /\ via' = via /\ user' = user
      /\ pc[r] = "commit" /\ pc'[r] = "respond" /\ user[r] \in Requests
      /\ answer'[r] \in {"ok", "error"}
      /\ \A q \in Requests : q # r => pc'[q] = pc[q] /\ answer'[q] = answer[q]
  BY DEF Commit, Committed, browserVars, requestVars, RequestInv
<1>2. ASSUME NEW u \in Requests, token'[u] # None
      PROVE  \/ /\ token'[u] = token[u] /\ (~expired'[u] => ~expired[u])
                /\ u = user[r] => op[r] = "register" \/ answer'[r] = "error"
             \/ token'[u] = r /\ op[r] \in {"login", "refresh"}
  <2>1. CASE UNCHANGED userVars /\ Committed(r, "error")
    BY <2>1 DEF Committed, userVars
  <2>2. CASE WriteRow(r) /\ op[r] = "register"
    BY <2>2 DEF WriteRow
  <2>3. CASE WriteRow(r) /\ op[r] \in {"login", "refresh"}
    BY <2>3, <1>1 DEF WriteRow
  <2>4. CASE WriteRow(r) /\ op[r] = "logout"
    BY <2>4, <1>1, <1>2 DEF WriteRow
  <2>5. op[r] \in Operations
    BY <1>1 DEF RequestInv
  <2> QED
    BY <2>1, <2>2, <2>3, <2>4, <2>5 DEF Commit, Operations
<1>3. \A u \in Requests : token[u] # None => token[u] \in Requests /\ token[u] # r
  BY <1>1 DEF ExchangeInv, TokensAreWritten, Finished
<1>4. HeldInv'
  <2>1. ASSUME NEW u \in Requests, token'[u] # None
        PROVE  /\ op[token'[u]] \in {"login", "refresh"}
               /\ answer'[token'[u]] \in {"ok", "error"}
               /\ ~expired'[u] => Kept(token[u])'
    <3>1. CASE token'[u] = token[u] /\ (~expired'[u] => ~expired[u])
      BY <1>1, <1>3, <2>1, <3>1 DEF SessionInv, HeldInv, Kept
    <3>2. CASE token'[u] = r /\ op[r] \in {"login", "refresh"}
      BY <1>1, <3>2 DEF Kept
    <3> QED
      BY <1>2, <2>1, <3>1, <3>2
  <2> QED
    BY <1>1, <2>1 DEF HeldInv
<1>5. NewestInv'
  <2>1. ASSUME NEW q \in Requests, NEW u \in Requests,
               pc'[q] = "respond", answer'[q] = "ok", op[q] # "register",
               token'[u] # None, via[token'[u]] = via[q], token'[u] # q
        PROVE  FALSE
    <3>1. CASE token'[u] = r
      <4>1. q # r /\ InFlight(q) /\ InFlight(r)
        BY <1>1, <2>1, <3>1 DEF InFlight
      <4> QED
        BY <2>1, <3>1, <4>1 DEF ExchangeInv, OneInFlight
    <3>2. CASE token'[u] # r /\ q = r
      <4>1. token[u] # None /\ u # user[r]
        BY <1>2, <2>1, <3>2
      <4>2. email[u] # None /\ email[user[r]] # None
        BY <1>1, <2>1, <3>2, <4>1 DEF SessionInv, AccountsExist
      <4> QED
        BY <1>1, <4>1, <4>2, OnlyAccount
    <3>3. CASE token'[u] # r /\ q # r
      BY <1>1, <1>2, <2>1, <3>3 DEF SessionInv, NewestInv
    <3> QED
      BY <3>1, <3>2, <3>3
  <2> QED
    BY <1>1, <2>1 DEF NewestInv
<1> QED
  BY <1>4, <1>5

LEMMA SessionStep ==
    ASSUME \A e, f \in Emails : e = f, Typed, UniqueEmail, ExchangeInv, SessionInv,
           [Next]_vars
    PROVE  SessionInv'
<1>1. CASE UNCHANGED vars
  BY <1>1 DEF vars, userVars, browserVars, requestVars, SessionInv, HeldInv,
              NewestInv, Kept, AccountsExist
<1>2. ASSUME NEW u \in Requests, Expire(u) \/ Deactivate(u)
      PROVE  HeldInv' /\ NewestInv'
  <2>1. /\ token' = token /\ cookie' = cookie /\ pc' = pc /\ op' = op
        /\ via' = via /\ answer' = answer
        /\ \A v \in Requests : ~expired'[v] => ~expired[v]
    BY <1>2 DEF Expire, Deactivate, browserVars, requestVars, Typed, TypeOK
  <2> QED
    BY <2>1 DEF SessionInv, HeldInv, NewestInv, Kept
<1>3. ASSUME NEW b \in Browsers, DropCookie(b)
      PROVE  HeldInv' /\ NewestInv'
  <2>1. /\ token' = token /\ pc' = pc /\ op' = op /\ expired' = expired
        /\ via' = via /\ answer' = answer
        /\ \A c \in Browsers : c # b => cookie'[c] = cookie[c]
    BY <1>3 DEF DropCookie, userVars, requestVars, Typed, TypeOK
  <2>2. ASSUME NEW v \in Requests, token[v] # None, ~expired[v]
        PROVE  Kept(token[v])'
    <3>1. /\ token[v] \in Requests /\ via[token[v]] \in Browsers /\ user[token[v]] = v
          /\ Kept(token[v])
      BY <2>2 DEF Typed, TypeOK, RequestInv, SessionInv, HeldInv, ExchangeInv,
                  TokensAreWritten, Finished
    <3>2. CASE cookie[via[token[v]]] = token[v]
      <4>1. PICK u \in Requests : token[u] = cookie[b] /\ token[u] # None /\ expired[u]
        BY <1>3 DEF DropCookie
      <4>2. user[token[u]] = u
        BY <4>1 DEF ExchangeInv, TokensAreWritten
      <4>3. via[token[v]] # b
        BY <2>2, <3>1, <3>2, <4>1, <4>2
      <4> QED
        BY <2>1, <3>1, <3>2, <4>3 DEF Kept
    <3>3. CASE cookie[via[token[v]]] # token[v]
      BY <2>1, <3>1, <3>3 DEF Kept
    <3> QED
      BY <3>2, <3>3
  <2> QED
    BY <2>1, <2>2 DEF SessionInv, HeldInv, NewestInv
<1>4. ASSUME NEW r \in Requests, Browse(r)
      PROVE  HeldInv' /\ NewestInv'
  BY <1>4, SendingKeepsSession, ReceivingKeepsSession DEF Browse
<1>5. ASSUME NEW r \in Requests, Handle(r)
      PROVE  HeldInv' /\ NewestInv'
  BY <1>5, HandlingKeepsSession, CommitKeepsSession DEF Handle
<1>6. AccountsExist'
  BY AccountsStep DEF SessionInv
<1> QED
  BY <1>1, <1>2, <1>3, <1>4, <1>5, <1>6 DEF Next, SessionInv

\* Logins and logouts of other browsers, refused and expired tokens and
\* deactivated accounts never make a browser lose the token that the database
\* expects of the only account, unless a commit failed or an answer was lost
\* (api/auth.py:234-242).
THEOREM SessionIsHeld ==
    ASSUME Tabs = 1, IsFiniteSet(Requests), \A e, f \in Emails : e = f
    PROVE  Spec => []SessionHeld
<1> DEFINE Inv == Typed /\ InsertInv /\ UniqueEmail /\ ExchangeInv /\ SessionInv
<1>1. Init => Inv
  <2>1. Init => InsertInv /\ UniqueEmail
    BY DEF Init, InsertInv, Inserted, UniqueEmail
  <2> QED
    BY <2>1, InitTyped, ExchangeInit, SessionInit
<1>2. Inv /\ [Next]_vars => Inv'
  BY TypedStep, UniqueStep, ExchangeStep, SessionStep
<1>3. Inv => SessionHeld
  <2>1. ASSUME Inv, \A r \in Requests : pc[r] \in {"new", "done"} /\ answer[r] # "error",
               NEW u \in Requests, token[u] # None, ~expired[u]
        PROVE  \E b \in Browsers : cookie[b] = token[u]
    <3>1. /\ token[u] \in Requests /\ via[token[u]] \in Browsers /\ Kept(token[u])
      BY <2>1 DEF Typed, TypeOK, RequestInv, SessionInv, HeldInv, ExchangeInv,
                  TokensAreWritten, Finished
    <3> QED
      BY <2>1, <3>1 DEF Kept
  <2> QED
    BY <2>1 DEF SessionHeld
<1> HIDE DEF Inv
<1> QED
  BY <1>1, <1>2, <1>3, PTL DEF Spec

-----------------------------------------------------------------------------
(* Refinement: every step is a step of SessionContract or a stutter *)

\* An account appears with the commit of the registration that made it.
AccountsAreNew ==
    \A u \in Requests : email[u] # None => Finished(u)

LEMMA FinishedStays ==
    ASSUME Typed, [Next]_vars, NEW q \in Requests, Finished(q)
    PROVE  Finished(q)'
<1> USE DEF Typed, TypeOK, Finished
<1>1. CASE UNCHANGED vars
  BY <1>1 DEF vars
<1>2. ASSUME NEW r \in Requests, Browse(r)
      PROVE  Finished(q)'
  BY <1>2 DEF Browse, SendRequest, ReceiveResponse, LoseResponse
<1>3. ASSUME NEW r \in Requests, Handle(r)
      PROVE  q # r /\ pc'[q] = pc[q]
  <2>1. ~Finished(r)
    BY <1>3 DEF Handle, At, RegisterCheck, RegisterInsert, Login, Refresh, Logout, Commit
  <2>2. CASE Login(r) \/ Refresh(r)
    BY <2>1, <2>2 DEF Login, Refresh, Answer, Loaded
  <2>3. CASE RegisterCheck(r) \/ RegisterInsert(r) \/ Logout(r)
    BY <2>1, <2>3 DEF RegisterCheck, RegisterInsert, Logout, Answer, Loaded
  <2>4. CASE Commit(r)
    BY <2>1, <2>4 DEF Commit, Committed
  <2> QED
    BY <1>3, <2>2, <2>3, <2>4 DEF Handle
<1>4. ASSUME NEW u \in Requests, Expire(u) \/ Deactivate(u)
      PROVE  pc' = pc
  BY <1>4 DEF Expire, Deactivate
<1>5. ASSUME NEW b \in Browsers, DropCookie(b)
      PROVE  pc' = pc
  BY <1>5 DEF DropCookie
<1> QED
  BY <1>1, <1>2, <1>3, <1>4, <1>5 DEF Next

LEMMA AccountsNewStep ==
    ASSUME Typed, InsertInv, AccountsAreNew, [Next]_vars
    PROVE  AccountsAreNew'
<1>1. \A q \in Requests : Finished(q) => Finished(q)'
  BY FinishedStays
<1>2. CASE EmailsKeep \/ \E r \in Requests : RegisterInsert(r)
  <2>1. email' = email
    BY <1>2 DEF EmailsKeep, RegisterInsert, userVars
  <2> QED
    BY <1>1, <2>1 DEF AccountsAreNew
<1>3. ASSUME NEW r \in Requests, Inserted(r), Commit(r)
      PROVE  AccountsAreNew'
  <2>1. \A u \in Requests : u # r => email'[u] = email[u]
    BY <1>3 DEF Commit, WriteRow, Inserted, InsertInv, userVars, Typed, TypeOK
  <2>2. Finished(r)'
    BY <1>3 DEF Commit, Committed, Finished, Typed, TypeOK
  <2> QED
    BY <1>1, <2>1, <2>2 DEF AccountsAreNew
<1> QED
  BY <1>2, <1>3, EmailStep

\* A step that leaves the users table alone decides at most about one token.
LEMMA TableKept ==
    ASSUME Typed, UNCHANGED <<userVars, op>>, NEW r \in Requests,
           \A q \in Requests : q # r => pc'[q] = pc[q],
           pc[r] \in {"respond", "done", "lost"} => pc'[r] \in {"respond", "done", "lost"}
    PROVE  [Contract!Next]_(Contract!sessionVars)
<1>1. email' = email /\ Accepted' = Accepted
  BY DEF Accepted, userVars
<1>2. Decided' = Decided \/ Decided' = Decided \cup {r}
  BY DEF Decided
<1>3. CASE Decided' = Decided
  BY <1>1, <1>3 DEF Contract!sessionVars
<1>4. CASE Decided' = Decided \cup {r}
  BY <1>1, <1>4 DEF Contract!Next, Contract!Withhold
<1> QED
  BY <1>2, <1>3, <1>4

\* The commit of a handler: a registration enrols, a logout ends what the
\* account has by then, a login and a refresh issue their token, unless the
\* account has been deactivated meanwhile or the commit was rolled back.
LEMMA CommitKeepsContract ==
    ASSUME Typed, InsertInv, AccountsExist, AccountsAreNew,
           NEW r \in Requests, Commit(r)
    PROVE  [Contract!Next]_(Contract!sessionVars)
<1> DEFINE u == user[r]
<1>1. /\ u \in Requests /\ pc[r] = "commit" /\ op' = op /\ op[r] \in Operations
      /\ pc' = [pc EXCEPT ![r] = "respond"]
  BY DEF Commit, Committed, requestVars, Typed, RequestInv
<1>2. \A q \in Requests : q # r => pc'[q] = pc[q]
  BY <1>1 DEF Typed, TypeOK
<1>3. pc'[r] = "respond"
  BY <1>1 DEF Typed, TypeOK
<1>4. CASE UNCHANGED userVars
  BY <1>1, <1>2, <1>4, TableKept
<1>5. CASE WriteRow(r) /\ op[r] = "register"
  <2>1. /\ u = r /\ ~Taken(arg[r]) /\ arg[r] \in Emails
        /\ email' = [email EXCEPT ![u] = arg[r]]
        /\ UNCHANGED <<token, expired, active>>
    BY <1>1, <1>5 DEF WriteRow, InsertInv, Inserted, Typed, RequestInv
  <2>2. Accepted' = Accepted
    BY <2>1 DEF Accepted
  <2>3. Decided' = Decided
    BY <1>1, <1>2, <1>5 DEF Decided
  <2>4. email[r] = None
    BY <1>1 DEF AccountsAreNew, Finished
  <2>5. Contract!Enrol(r, arg[r])
    BY <2>1, <2>2, <2>3, <2>4 DEF Contract!Enrol, Taken
  <2> QED
    BY <2>1, <2>5 DEF Contract!Next
<1>6. CASE WriteRow(r) /\ op[r] = "logout"
  <2>1. /\ email' = email /\ active' = active
        /\ token' = [token EXCEPT ![u] = None]
        /\ expired' = [expired EXCEPT ![u] = FALSE]
    BY <1>6 DEF WriteRow
  <2>2. Accepted' = [Accepted EXCEPT ![u] = None]
    BY <1>1, <2>1 DEF Accepted, Typed, TypeOK
  <2>3. Decided' = Decided
    BY <1>1, <1>2, <1>6 DEF Decided
  <2> QED
    BY <1>1, <2>1, <2>2, <2>3 DEF Contract!Next, Contract!End
<1>7. CASE WriteRow(r) /\ op[r] \in {"login", "refresh"}
  <2>1. /\ email' = email /\ active' = active
        /\ token' = [token EXCEPT ![u] = r]
        /\ expired' = [expired EXCEPT ![u] = FALSE]
    BY <1>7 DEF WriteRow
  <2>2. r \notin Decided /\ Decided' = Decided \cup {r}
    BY <1>1, <1>2, <1>3, <1>7 DEF Decided
  <2>3. email[u] # None
    BY <1>1, <1>7 DEF AccountsExist
  <2>4. CASE active[u]
    <3>1. Accepted' = [Accepted EXCEPT ![u] = r]
      BY <1>1, <2>1, <2>4 DEF Accepted, Typed, TypeOK
    <3> QED
      BY <1>1, <2>1, <2>2, <2>3, <3>1 DEF Contract!Next, Contract!Issue
  <2>5. CASE ~active[u]
    <3>1. Accepted' = Accepted
      BY <1>1, <2>1, <2>5 DEF Accepted, Typed, TypeOK
    <3> QED
      BY <2>1, <2>2, <3>1 DEF Contract!Next, Contract!Withhold
  <2> QED
    BY <2>4, <2>5
<1> QED
  BY <1>1, <1>4, <1>5, <1>6, <1>7 DEF Commit, Operations

LEMMA ContractStep ==
    ASSUME Typed, InsertInv, AccountsExist, AccountsAreNew, [Next]_vars
    PROVE  [Contract!Next]_(Contract!sessionVars)
<1>1. CASE UNCHANGED vars
  BY <1>1
  DEF vars, userVars, requestVars, Contract!sessionVars, Accepted, Decided
<1>2. ASSUME NEW r \in Requests, NEW b \in Browsers, NEW o \in Operations,
             NEW a \in Emails \cup Requests, SendRequest(r, b, o, a)
      PROVE  UNCHANGED Contract!sessionVars
  <2>1. email' = email /\ Accepted' = Accepted
    BY <1>2 DEF SendRequest, Accepted, userVars
  <2>2. Decided' = Decided
    BY <1>2 DEF SendRequest, Decided, Typed, TypeOK
  <2> QED
    BY <2>1, <2>2 DEF Contract!sessionVars
<1>3. ASSUME NEW r \in Requests, ReceiveResponse(r) \/ LoseResponse(r)
      PROVE  [Contract!Next]_(Contract!sessionVars)
  <2>1. /\ UNCHANGED <<userVars, op>>
        /\ pc' \in {[pc EXCEPT ![r] = "done"], [pc EXCEPT ![r] = "lost"]}
    BY <1>3 DEF ReceiveResponse, LoseResponse, requestVars
  <2> QED
    BY <2>1, TableKept DEF Typed, TypeOK
<1>4. ASSUME NEW r \in Requests,
             \/ RegisterCheck(r) \/ RegisterInsert(r) \/ Login(r)
             \/ Refresh(r) \/ Logout(r)
      PROVE  [Contract!Next]_(Contract!sessionVars)
  <2>1. UNCHANGED <<userVars, op>>
    BY <1>4 DEF RegisterCheck, RegisterInsert, Login, Refresh, Logout, requestVars
  <2>2. pc[r] \in {"sent", "insert"}
    BY <1>4 DEF RegisterCheck, RegisterInsert, Login, Refresh, Logout, At
  <2>3. \E s \in RequestPC : pc' = [pc EXCEPT ![r] = s]
    <3>1. CASE RegisterCheck(r)
      BY <3>1 DEF RegisterCheck, Answer, RequestPC
    <3>2. CASE RegisterInsert(r)
      BY <3>2 DEF RegisterInsert, Answer, Loaded, RequestPC
    <3>3. CASE Login(r)
      BY <3>3 DEF Login, Answer, Loaded, RequestPC
    <3>4. CASE Refresh(r)
      BY <3>4 DEF Refresh, Answer, Loaded, RequestPC
    <3>5. CASE Logout(r)
      BY <3>5 DEF Logout, Answer, Loaded, RequestPC
    <3> QED
      BY <1>4, <3>1, <3>2, <3>3, <3>4, <3>5
  <2> QED
    BY <2>1, <2>2, <2>3, TableKept DEF Typed, TypeOK
<1>5. ASSUME NEW r \in Requests, Commit(r)
      PROVE  [Contract!Next]_(Contract!sessionVars)
  BY <1>5, CommitKeepsContract
<1>6. ASSUME NEW u \in Requests, Expire(u) \/ Deactivate(u)
      PROVE  [Contract!Next]_(Contract!sessionVars)
  <2>1. email' = email /\ Decided' = Decided
    BY <1>6 DEF Expire, Deactivate, Decided, requestVars
  <2>2. Accepted' = [Accepted EXCEPT ![u] = None]
    <3>1. CASE Expire(u)
      BY <3>1 DEF Expire, Accepted, Typed, TypeOK
    <3>2. CASE Deactivate(u)
      BY <3>2 DEF Deactivate, Accepted, Typed, TypeOK
    <3> QED
      BY <1>6, <3>1, <3>2
  <2> QED
    BY <2>1, <2>2 DEF Contract!Next, Contract!End
<1>7. ASSUME NEW b \in Browsers, DropCookie(b)
      PROVE  UNCHANGED Contract!sessionVars
  BY <1>7
  DEF DropCookie, userVars, requestVars, Contract!sessionVars, Accepted, Decided
<1> QED
  BY <1>1, <1>2, <1>3, <1>4, <1>5, <1>6, <1>7 DEF Next, Browse, Handle

\* The handlers of api/auth.py keep the contract of the accounts, for any
\* number of requests a browser has under way: an address has one account and
\* keeps it, and a token that was ended or replaced is never accepted again
\* (the second point of the docstring of refresh, api/auth.py:189).
THEOREM SessionRefinement == Spec => ImplementsSessionContract
<1> DEFINE Inv == Typed /\ InsertInv /\ UniqueEmail /\ AccountsExist /\ AccountsAreNew
<1>1. Init => Inv
  BY InitTyped, SessionInit
  DEF Init, InsertInv, Inserted, UniqueEmail, SessionInv, AccountsAreNew
<1>2. Inv /\ [Next]_vars => Inv'
  BY TypedStep, UniqueStep, AccountsStep, AccountsNewStep
<1>3. Init => Contract!Init
  BY DEF Init, Contract!Init, Accepted, Decided
<1>4. Inv /\ [Next]_vars => [Contract!Next]_(Contract!sessionVars)
  BY ContractStep
<1> QED
  BY <1>1, <1>2, <1>3, <1>4, PTL
  DEF Spec, ImplementsSessionContract, Contract!Spec

-----------------------------------------------------------------------------
(* What follows from the contract alone *)

AcceptedSomewhere(t) == \E u \in Requests : Accepted[u] = t

\* A token that is accepted is of one account and was issued.
AcceptedInv ==
    \A u, v \in Requests : Accepted[u] # None =>
        /\ Accepted[u] \in Decided
        /\ Accepted[v] = Accepted[u] => v = u

LEMMA ContractKeepsAccepted ==
    ASSUME AcceptedInv, [Contract!Next]_(Contract!sessionVars)
    PROVE  AcceptedInv'
<1> USE DEF AcceptedInv
<1>0. DOMAIN Accepted = Requests
  BY DEF Accepted
<1>1. CASE UNCHANGED Contract!sessionVars
  BY <1>1 DEF Contract!sessionVars
<1>2. ASSUME NEW u \in Requests, Contract!End(u)
      PROVE  AcceptedInv'
  <2>1. /\ Decided' = Decided
        /\ \A v \in Requests : Accepted'[v] = IF v = u THEN None ELSE Accepted[v]
    BY <1>0, <1>2 DEF Contract!End, Accepted
  <2> QED
    BY <2>1
<1>3. ASSUME NEW u \in Requests, NEW t \in Requests, Contract!Issue(u, t)
      PROVE  AcceptedInv'
  <2>1. /\ Decided' = Decided \cup {t} /\ t \notin Decided
        /\ \A v \in Requests : Accepted'[v] = IF v = u THEN t ELSE Accepted[v]
    BY <1>0, <1>3 DEF Contract!Issue, Accepted
  <2> QED
    BY <2>1
<1>4. CASE Accepted' = Accepted /\ Decided \subseteq Decided'
  BY <1>4
<1>5. ASSUME NEW u \in Requests, NEW e \in Emails, Contract!Enrol(u, e)
      PROVE  AcceptedInv'
  BY <1>4, <1>5 DEF Contract!Enrol
<1>6. ASSUME NEW t \in Requests, Contract!Withhold(t)
      PROVE  AcceptedInv'
  BY <1>4, <1>6 DEF Contract!Withhold
<1> QED
  BY <1>1, <1>2, <1>3, <1>5, <1>6 DEF Contract!Next

LEMMA ContractNeverRevives ==
    ASSUME [Contract!Next]_(Contract!sessionVars),
           NEW t \in Requests, t \in Decided, ~AcceptedSomewhere(t)
    PROVE  t \in Decided' /\ ~AcceptedSomewhere(t)'
<1>0. DOMAIN Accepted = Requests /\ t # None
  BY ConstantsAssumption DEF Accepted
<1>1. \A v \in Requests : Accepted'[v] \in {Accepted[v], None}
                          \/ Accepted'[v] \notin Decided
  <2>1. CASE Accepted' = Accepted
    BY <2>1
  <2>2. ASSUME NEW u \in Requests, Contract!End(u)
        PROVE  \A v \in Requests : Accepted'[v] \in {Accepted[v], None}
    BY <1>0, <2>2 DEF Contract!End
  <2>3. ASSUME NEW u \in Requests, NEW s \in Requests, Contract!Issue(u, s)
        PROVE  \A v \in Requests : Accepted'[v] = Accepted[v] \/ Accepted'[v] \notin Decided
    BY <1>0, <2>3 DEF Contract!Issue
  <2> QED
    BY <2>1, <2>2, <2>3
    DEF Contract!Next, Contract!Enrol, Contract!Withhold, Contract!sessionVars
<1>2. Decided \subseteq Decided'
  BY DEF Contract!Next, Contract!Enrol, Contract!Withhold, Contract!End,
         Contract!Issue, Contract!sessionVars
<1> QED
  BY <1>0, <1>1, <1>2 DEF AcceptedSomewhere

\* A refresh token identifies its account: the SELECT by token of refresh
\* (api/auth.py:202) finds at most one row that is valid.
THEOREM TokensIdentifyAccounts == Spec => []AcceptedInv
<1>1. Contract!Init => AcceptedInv
  BY DEF Contract!Init, AcceptedInv
<1>2. AcceptedInv /\ [Contract!Next]_(Contract!sessionVars) => AcceptedInv'
  BY ContractKeepsAccepted
<1> QED
  BY <1>1, <1>2, SessionRefinement, PTL
  DEF ImplementsSessionContract, Contract!Spec

\* A token that was issued and is not accepted is never accepted again, whatever
\* handlers read the row before it was replaced, logged out or expired (the
\* docstring of refresh, api/auth.py:189: the old token is void at once).
THEOREM EndedTokensStayEnded ==
    ASSUME NEW t \in Requests
    PROVE  Spec => []((t \in Decided /\ ~AcceptedSomewhere(t))
                        => []~AcceptedSomewhere(t))
<1> DEFINE Ended == t \in Decided /\ ~AcceptedSomewhere(t)
<1>1. Ended /\ [Contract!Next]_(Contract!sessionVars) => Ended'
  BY ContractNeverRevives
<1>2. Ended => ~AcceptedSomewhere(t)
  OBVIOUS
<1>3. Spec => [](Ended => []~AcceptedSomewhere(t))
  <2> HIDE DEF Ended
  <2> QED
    BY <1>1, <1>2, SessionRefinement, PTL
    DEF ImplementsSessionContract, Contract!Spec
<1> QED
  BY <1>3
=============================================================================
