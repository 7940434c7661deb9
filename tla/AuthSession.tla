---------------------------- MODULE AuthSession ----------------------------
(***************************************************************************)
(* Accounts and sessions: the handlers of api/auth.py as database          *)
(* transactions, the users table, and the cookies of the browsers.         *)
(*                                                                         *)
(* A handler reads the row of its user, decides, and writes the row only   *)
(* in the commit of get_db_session, after it has returned; other requests  *)
(* run between the two. Each request, account and refresh token is named   *)
(* after the request that made it: identifiers and tokens are random UUIDs.*)
(***************************************************************************)
EXTENDS Naturals, FiniteSets

CONSTANTS
    Emails,       \* e-mail addresses people register
    Browsers,     \* browsers, each with one cookie jar
    Requests,     \* HTTP requests, and the accounts and tokens they create
    Tabs,         \* bound on the requests one browser has under way
    FaultKinds,   \* the kinds of fault an instance explores
    MaxFaults,    \* bound on the number of faults in one behaviour
    None

Operations == {"register", "login", "refresh", "logout"}
Answers == {"ok", "unauthorized", "forbidden", "conflict", "error"}
AllFaultKinds == {"abort", "unsure", "lost", "expire", "deactivate"}

ASSUME ConstantsAssumption ==
    /\ None \notin Emails \cup Browsers \cup Requests \cup Answers
    /\ Emails \cap Requests = {}
    /\ Tabs \in Nat /\ MaxFaults \in Nat
    /\ FaultKinds \subseteq AllFaultKinds

VARIABLES
    \* the users table
    email,      \* [Requests -> Emails or None]; None: no such account
    token,      \* refresh_token of each account
    expired,    \* TRUE once refresh_token_expires_at lies in the past
    active,     \* is_active
    \* the browsers
    cookie,     \* the refresh_token cookie
    access,     \* the account of the access token the page holds
    \* the requests
    pc,         \* next statement of the handler
    op,         \* the operation
    via,        \* the browser that sent it
    arg,        \* what it carries: an e-mail, a cookie, or an access token
    user,       \* the row the handler has loaded
    answer,     \* the HTTP status, by its meaning
    faults      \* number of faults so far

userVars == <<email, token, expired, active>>
browserVars == <<cookie, access>>
requestVars == <<op, via, arg>>
vars == <<userVars, browserVars, pc, requestVars, user, answer, faults>>

RequestPC == {"new", "sent", "insert", "commit", "respond", "done", "lost"}

TypeOK ==
    /\ email \in [Requests -> Emails \cup {None}]
    /\ token \in [Requests -> Requests \cup {None}]
    /\ expired \in [Requests -> BOOLEAN]
    /\ active \in [Requests -> BOOLEAN]
    /\ cookie \in [Browsers -> Requests \cup {None}]
    /\ access \in [Browsers -> Requests \cup {None}]
    /\ pc \in [Requests -> RequestPC]
    /\ op \in [Requests -> Operations \cup {None}]
    /\ via \in [Requests -> Browsers \cup {None}]
    /\ arg \in [Requests -> Emails \cup Requests \cup {None}]
    /\ user \in [Requests -> Requests \cup {None}]
    /\ answer \in [Requests -> Answers \cup {None}]
    /\ faults \in 0 .. MaxFaults

Init ==
    /\ email = [u \in Requests |-> None]
    /\ token = [u \in Requests |-> None]
    /\ expired = [u \in Requests |-> FALSE]
    /\ active = [u \in Requests |-> TRUE]
    /\ cookie = [b \in Browsers |-> None]
    /\ access = [b \in Browsers |-> None]
    /\ pc = [r \in Requests |-> "new"]
    /\ op = [r \in Requests |-> None]
    /\ via = [r \in Requests |-> None]
    /\ arg = [r \in Requests |-> None]
    /\ user = [r \in Requests |-> None]
    /\ answer = [r \in Requests |-> None]
    /\ faults = 0

-----------------------------------------------------------------------------
(* Helpers *)

Fault(kind) ==
    /\ kind \in FaultKinds
    /\ faults < MaxFaults
    /\ faults' = faults + 1

InFlight(r) == pc[r] \notin {"new", "done", "lost"}

Taken(e) == \E u \in Requests : email[u] = e

At(r, o) == pc[r] = "sent" /\ op[r] = o

\* The handler returns or raises; what it changed on the row is dropped by the
\* rollback unless it goes through Commit.
Answer(r, a) ==
    /\ pc' = [pc EXCEPT ![r] = "respond"]
    /\ answer' = [answer EXCEPT ![r] = a]
    /\ UNCHANGED user

\* Variant of Loaded: the row is kept by what the request carried (the e-mail,
\* the cookie) instead of its id.
Loaded_ByArgument(r, u) ==
    /\ pc' = [pc EXCEPT ![r] = "commit"]
    /\ user' = [user EXCEPT ![r] = arg[r]]
    /\ UNCHANGED answer

\* The handler has loaded account u and changed it in its session.
Loaded(r, u) ==
    /\ pc' = [pc EXCEPT ![r] = "commit"]
    /\ user' = [user EXCEPT ![r] = u]
    /\ UNCHANGED answer

-----------------------------------------------------------------------------
(* Browsers *)

\* A page calls the API; the browser attaches the cookie it has now.
SendRequest(r, b, o, a) ==
    /\ pc[r] = "new"
    /\ Cardinality({q \in Requests : InFlight(q) /\ via[q] = b}) < Tabs
    /\ \/ o \in {"register", "login"} /\ a \in Emails
       \/ o = "refresh" /\ a = cookie[b] /\ a # None
       \/ o = "logout" /\ a = access[b] /\ a # None
    /\ pc' = [pc EXCEPT ![r] = "sent"]
    /\ op' = [op EXCEPT ![r] = o]
    /\ via' = [via EXCEPT ![r] = b]
    /\ arg' = [arg EXCEPT ![r] = a]
    /\ UNCHANGED <<userVars, browserVars, user, answer, faults>>

\* Variant of ReceiveResponse: a rejected request logs the browser out as well.
ReceiveResponse_ClearAlways(r) ==
    LET b == via[r] IN
    /\ pc[r] = "respond"
    /\ pc' = [pc EXCEPT ![r] = "done"]
    /\ cookie' = [cookie EXCEPT ![b] =
                     IF answer[r] = "ok" /\ op[r] \in {"login", "refresh"}
                     THEN r ELSE None]
    /\ UNCHANGED <<userVars, access, requestVars, user, answer, faults>>

\* A successful login or refresh sets the cookie and the access token, a
\* successful logout deletes the cookie. The delete_cookie calls before a raise
\* in refresh are made on the injected Response, which FastAPI drops when the
\* handler raises.
ReceiveResponse(r) ==
    LET b == via[r] IN
    /\ pc[r] = "respond"
    /\ pc' = [pc EXCEPT ![r] = "done"]
    /\ \/ /\ answer[r] = "ok" /\ op[r] \in {"login", "refresh"}
          /\ cookie' = [cookie EXCEPT ![b] = r]
          /\ access' = [access EXCEPT ![b] = user[r]]
       \/ /\ answer[r] = "ok" /\ op[r] = "logout"
          /\ cookie' = [cookie EXCEPT ![b] = None]
          /\ UNCHANGED access
       \/ /\ answer[r] # "ok" \/ op[r] = "register"
          /\ UNCHANGED browserVars
    /\ UNCHANGED <<userVars, requestVars, user, answer, faults>>

LoseResponse(r) ==
    /\ pc[r] = "respond"
    /\ Fault("lost")
    /\ pc' = [pc EXCEPT ![r] = "lost"]
    /\ UNCHANGED <<userVars, browserVars, requestVars, user, answer>>

\* max_age passes for a cookie whose token has expired.
DropCookie(b) ==
    /\ \E u \in Requests : token[u] = cookie[b] /\ token[u] # None /\ expired[u]
    /\ cookie' = [cookie EXCEPT ![b] = None]
    /\ UNCHANGED <<userVars, access, pc, requestVars, user, answer, faults>>

-----------------------------------------------------------------------------
(* Handlers (api/auth.py) *)

\* register: the SELECT by e-mail.
RegisterCheck(r) ==
    /\ At(r, "register")
    /\ \/ Taken(arg[r]) /\ Answer(r, "conflict")
       \/ /\ ~Taken(arg[r])
          /\ pc' = [pc EXCEPT ![r] = "insert"]
          /\ UNCHANGED <<user, answer>>
    /\ UNCHANGED <<userVars, browserVars, requestVars, faults>>

\* Variant of RegisterInsert: no unique index on the e-mail.
RegisterInsert_NoUniqueIndex(r) ==
    /\ pc[r] = "insert"
    /\ Loaded(r, r)
    /\ UNCHANGED <<userVars, browserVars, requestVars, faults>>

\* register: db.flush sends the INSERT. The unique index makes it wait for an
\* uncommitted INSERT of the same e-mail, and raise for a committed one; nothing
\* catches that error.
RegisterInsert(r) ==
    /\ pc[r] = "insert"
    /\ \A q \in Requests :
          pc[q] = "commit" /\ op[q] = "register" => arg[q] # arg[r]
    /\ \/ Taken(arg[r]) /\ Answer(r, "error")
       \/ ~Taken(arg[r]) /\ Loaded(r, r)
    /\ UNCHANGED <<userVars, browserVars, requestVars, faults>>

\* login, with the right password: a wrong one is answered like an unknown
\* account.
Login(r) ==
    /\ At(r, "login")
    /\ \/ ~Taken(arg[r]) /\ Answer(r, "unauthorized")
       \/ \E u \in Requests :
             /\ email[u] = arg[r]
             /\ IF active[u] THEN Loaded(r, u) ELSE Answer(r, "forbidden")
    /\ UNCHANGED <<userVars, browserVars, requestVars, faults>>

\* refresh: for an expired token the handler sets both columns to None and then
\* raises, so the rollback undoes it.
Refresh(r) ==
    /\ At(r, "refresh")
    /\ \/ (\A u \in Requests : token[u] # arg[r]) /\ Answer(r, "unauthorized")
       \/ \E u \in Requests :
             /\ token[u] = arg[r]
             /\ \/ expired[u] /\ Answer(r, "unauthorized")
                \/ ~expired[u] /\ ~active[u] /\ Answer(r, "forbidden")
                \/ ~expired[u] /\ active[u] /\ Loaded(r, u)
    /\ UNCHANGED <<userVars, browserVars, requestVars, faults>>

\* get_current_user and logout share one session and one read of the row. If
\* its refresh_token is None already, setting it to None again changes nothing
\* and the commit sends no UPDATE.
Logout(r) ==
    /\ At(r, "logout")
    /\ \/ ~active[arg[r]] /\ Answer(r, "forbidden")
       \/ active[arg[r]] /\ token[arg[r]] = None /\ Answer(r, "ok")
       \/ active[arg[r]] /\ token[arg[r]] # None /\ Loaded(r, arg[r])
    /\ UNCHANGED <<userVars, browserVars, requestVars, faults>>

\* Variant of WriteRow: a refresh extends the token instead of replacing it.
WriteRow_NoRotation(r) ==
    LET u == user[r] IN
    \/ /\ op[r] = "register"
       /\ email' = [email EXCEPT ![u] = arg[r]]
       /\ UNCHANGED <<token, expired, active>>
    \/ /\ op[r] \in {"login", "refresh"}
       /\ token' = [token EXCEPT ![u] = IF op[r] = "login" THEN r ELSE @]
       /\ expired' = [expired EXCEPT ![u] = FALSE]
       /\ UNCHANGED <<email, active>>
    \/ /\ op[r] = "logout"
       /\ token' = [token EXCEPT ![u] = None]
       /\ expired' = [expired EXCEPT ![u] = FALSE]
       /\ UNCHANGED <<email, active>>

\* The columns the session of r has changed, written by primary key: nothing
\* checks that the row is still the one that was read.
WriteRow(r) ==
    LET u == user[r] IN
    \/ /\ op[r] = "register"
       /\ email' = [email EXCEPT ![u] = arg[r]]
       /\ UNCHANGED <<token, expired, active>>
    \/ /\ op[r] \in {"login", "refresh"}
       /\ token' = [token EXCEPT ![u] = r]
       /\ expired' = [expired EXCEPT ![u] = FALSE]
       /\ UNCHANGED <<email, active>>
    \/ /\ op[r] = "logout"
       /\ token' = [token EXCEPT ![u] = None]
       /\ expired' = [expired EXCEPT ![u] = FALSE]
       /\ UNCHANGED <<email, active>>

Committed(r, a) ==
    /\ pc' = [pc EXCEPT ![r] = "respond"]
    /\ answer' = [answer EXCEPT ![r] = a]

\* get_db_session commits after the handler has returned and before the
\* response is sent. After an error the write may or may not have happened.
Commit(r) ==
    /\ pc[r] = "commit"
    /\ \/ WriteRow(r) /\ Committed(r, "ok") /\ UNCHANGED faults
       \/ WriteRow(r) /\ Committed(r, "error") /\ Fault("unsure")
       \/ UNCHANGED userVars /\ Committed(r, "error") /\ Fault("abort")
    /\ UNCHANGED <<browserVars, requestVars, user>>

-----------------------------------------------------------------------------
(* Time and operators *)

Expire(u) ==
    /\ token[u] # None /\ ~expired[u]
    /\ Fault("expire")
    /\ expired' = [expired EXCEPT ![u] = TRUE]
    /\ UNCHANGED <<email, token, active, browserVars, pc, requestVars, user, answer>>

\* No handler clears is_active: an operator does it in the database.
Deactivate(u) ==
    /\ email[u] # None /\ active[u]
    /\ Fault("deactivate")
    /\ active' = [active EXCEPT ![u] = FALSE]
    /\ UNCHANGED <<email, token, expired, browserVars, pc, requestVars, user, answer>>

-----------------------------------------------------------------------------
(* Specification *)

Handle(r) ==
    \/ RegisterCheck(r) \/ RegisterInsert(r) \/ Login(r) \/ Refresh(r)
    \/ Logout(r) \/ Commit(r)

Browse(r) ==
    \/ \E b \in Browsers, o \in Operations, a \in Emails \cup Requests :
          SendRequest(r, b, o, a)
    \/ ReceiveResponse(r) \/ LoseResponse(r)

Next ==
    \/ \E r \in Requests : Browse(r) \/ Handle(r) \/ Expire(r) \/ Deactivate(r)
    \/ \E b \in Browsers : DropCookie(b)

Spec == Init /\ [][Next]_vars

-----------------------------------------------------------------------------
(* Properties *)

\* An e-mail belongs to one account, although registration checks it in one
\* statement (api/auth.py:119) and inserts it in a later one (133).
UniqueEmail ==
    \A u1, u2 \in Requests :
        email[u1] = email[u2] /\ email[u1] # None => u1 = u2

\* If each browser has one request under way, a live session of the only
\* account can be used: when every request was answered without a server error,
\* and its answer arrived, some browser holds the token the database expects.
SessionHeld ==
    (\A r \in Requests : pc[r] \in {"new", "done"} /\ answer[r] # "error") =>
        \A u \in Requests :
            token[u] # None /\ ~expired[u] =>
                \E b \in Browsers : cookie[b] = token[u]

\* If each browser has one request under way, no token is exchanged twice
\* (api/auth.py:234): whatever was lost, aborted or overtaken since, a second
\* refresh with the same cookie is refused.
ExchangedOnce ==
    \A q, r \in Requests :
        /\ q # r
        /\ op[q] = "refresh" /\ answer[q] = "ok"
        /\ op[r] = "refresh" /\ answer[r] = "ok"
        => arg[q] # arg[r]

(* Refinement *)

\* The token with which a refresh of account u succeeds, and the requests that
\* have given their account a token or never will.
Accepted ==
    [u \in Requests |-> IF active[u] /\ ~expired[u] THEN token[u] ELSE None]
Decided ==
    {r \in Requests : /\ op[r] \in {"login", "refresh"}
                      /\ pc[r] \in {"respond", "done", "lost"}}

Contract == INSTANCE SessionContract WITH
    Accounts <- Requests,
    Addresses <- Emails,
    Tokens <- Requests,
    address <- email,
    accepted <- Accepted,
    decided <- Decided

\* The service implements the contract of its accounts, however many requests a
\* browser has under way: no handler that has read a row before others changed
\* it (api/auth.py:202, 235) makes an ended or replaced token valid again, and
\* no registration (133) takes an address or an account that exists.
ImplementsSessionContract == Contract!Spec

(* What the documentation promises and the code does not do *)

\* Registering an address that has an account is answered 409 (the docstring
\* of register, api/auth.py:116).
DuplicateIsConflict ==
    \A r \in Requests :
        op[r] = "register" /\ Taken(arg[r]) /\ faults = 0 =>
            answer[r] \in {None, "ok", "conflict"}

\* A refresh rejected because its token is unknown or expired deletes the
\* cookie (the comment in api/auth.py:211).
RejectedCookieIsCleared ==
    [][\A r \in Requests :
          /\ pc[r] = "respond" /\ pc'[r] = "done"
          /\ op[r] = "refresh" /\ answer[r] = "unauthorized"
          => cookie'[via[r]] = None]_vars
=============================================================================
