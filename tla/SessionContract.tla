--------------------------- MODULE SessionContract ---------------------------
(***************************************************************************)
(* What the accounts promise, without browsers, handlers, transactions or  *)
(* faults: an address has one account and keeps it, an account has at most *)
(* one refresh token that is accepted, and a token is accepted during one  *)
(* period of time at most: once ended or replaced it is never accepted     *)
(* again, not for another account either.                                  *)
(***************************************************************************)
CONSTANTS Accounts, Addresses, Tokens, None

VARIABLES
    address,   \* [Accounts -> its e-mail address, or None: no such account]
    accepted,  \* [Accounts -> the token a refresh may be made with, or None]
    decided    \* tokens that have been handed to an account, or never will be

sessionVars == <<address, accepted, decided>>

Init ==
    /\ address = [u \in Accounts |-> None]
    /\ accepted = [u \in Accounts |-> None]
    /\ decided = {}

Enrol(u, e) ==
    /\ address[u] = None
    /\ \A v \in Accounts : address[v] # e
    /\ address' = [address EXCEPT ![u] = e]
    /\ UNCHANGED <<accepted, decided>>

\* A new token replaces the one the account had.
Issue(u, t) ==
    /\ address[u] # None
    /\ t \notin decided
    /\ accepted' = [accepted EXCEPT ![u] = t]
    /\ decided' = decided \cup {t}
    /\ UNCHANGED address

Withhold(t) ==
    /\ decided' = decided \cup {t}
    /\ UNCHANGED <<address, accepted>>

\* The user logs out, the token expires, or the account is deactivated.
End(u) ==
    /\ accepted' = [accepted EXCEPT ![u] = None]
    /\ UNCHANGED <<address, decided>>

Next ==
    \/ \E u \in Accounts : End(u)
    \/ \E u \in Accounts, e \in Addresses : Enrol(u, e)
    \/ \E u \in Accounts, t \in Tokens : Issue(u, t)
    \/ \E t \in Tokens : Withhold(t)

Spec == Init /\ [][Next]_sessionVars
=============================================================================
