------------------------------ MODULE Sessions ------------------------------
(***************************************************************************)
(* The sessions of one user: logins that revoke the older ones, logouts,   *)
(* and the middleware that admits a token after a look at the database or  *)
(* at its cache of earlier looks.  Users do not share rows.                *)
(*                                                                         *)
(* Requests run statement by statement.  A token is named after the login  *)
(* that issued it.                                                         *)
(***************************************************************************)
EXTENDS Integers, FiniteSets

CONSTANTS
    Requests,   \* the HTTP requests: logins, logouts, and uses of a token
    None,       \* no token, no cache entry
    TTL,        \* how long the cache trusts an answer of the database
    MaxTime     \* bound on the clock

ASSUME SessionsAssumption ==
    /\ None \notin Requests
    /\ None \notin [revoked : BOOLEAN, expires : Int]
    /\ TTL \in Nat \ {0}
    /\ MaxTime \in Nat

Never == -1

VARIABLES
    session,    \* user_sessions: "none", "active", "revoked"
    revokedTokens, \* revoked_tokens
    expired,    \* tokens whose expiration time has passed
    cache,      \* token -> None or [revoked, expires]
    time,       \* the clock of the process
    since,      \* when a token became invalid, or Never
    pc, kind, token, answer,   \* each request
    began,      \* the time.Now() of its check
    older,      \* logins that were answered before it came
    saved, marked   \* what its open transaction inserted and updated

database == <<session, revokedTokens, expired, since>>
request == <<kind, token, began, older>>
transaction == <<saved, marked>>
vars == <<database, cache, time, pc, answer, request, transaction>>

Active == {t \in Requests : session[t] = "active"}
Invalid(t) == session[t] # "active" \/ t \in revokedTokens \/ t \in expired
InFlight(p) == pc[p] \notin {"idle", "done"}

(* These tokens become invalid now, unless they were already.              *)
NoteInvalid(tokens) ==
    since' = [t \in Requests |->
                IF t \in tokens /\ since[t] = Never THEN time ELSE since[t]]

----------------------------------------------------------------------------
Init ==
    /\ session = [t \in Requests |-> "none"]
    /\ revokedTokens = {}
    /\ expired = {}
    /\ since = [t \in Requests |-> Never]
    /\ cache = [t \in Requests |-> None]
    /\ time = 0
    /\ pc = [p \in Requests |-> "idle"]
    /\ kind = [p \in Requests |-> "none"]
    /\ token = [p \in Requests |-> None]
    /\ answer = [p \in Requests |-> "none"]
    /\ began = [p \in Requests |-> 0]
    /\ older = [p \in Requests |-> {}]
    /\ saved = [p \in Requests |-> {}]
    /\ marked = [p \in Requests |-> {}]

At(p, here) == pc[p] = here
Goto(p, there) == pc' = [pc EXCEPT ![p] = there]
Answer(p, a) == Goto(p, "done") /\ answer' = [answer EXCEPT ![p] = a]
SetTransaction(p, s, m) ==
    /\ saved' = [saved EXCEPT ![p] = s]
    /\ marked' = [marked EXCEPT ![p] = m]

----------------------------------------------------------------------------
(* Login *)

Login(p) ==
    /\ At(p, "idle")
    /\ Goto(p, "save active")
    /\ kind' = [kind EXCEPT ![p] = "login"]
    /\ token' = [token EXCEPT ![p] = p]
    /\ older' = [older EXCEPT ![p] = {q \in Requests : kind[q] = "login" /\ answer[q] = "ok"}]
    /\ UNCHANGED <<database, cache, time, answer, began, transaction>>

(* The INSERT of the active sessions waits for a transaction that inserts  *)
(* the same token, because of the unique constraint.                       *)
SaveActiveTokens(p) ==
    /\ At(p, "save active")
    /\ \A q \in Requests : saved[q] \cap Active = {}
    /\ SetTransaction(p, Active \ expired, {})
    /\ Goto(p, "mark active")
    /\ UNCHANGED <<database, cache, time, answer, request>>

(* The UPDATE reads the sessions anew: it sees more than the INSERT did.   *)
MarkActiveSessions(p) ==
    /\ At(p, "mark active")
    /\ \A q \in Requests : marked[q] \cap Active = {}
    /\ SetTransaction(p, saved[p], Active)
    /\ Goto(p, "commit")
    /\ UNCHANGED <<database, cache, time, answer, request>>

CommitRevocations(p) ==
    /\ At(p, "commit")
    /\ session' = [t \in Requests |-> IF t \in marked[p] THEN "revoked" ELSE session[t]]
    /\ revokedTokens' = revokedTokens \cup saved[p]
    /\ SetTransaction(p, {}, {})
    /\ NoteInvalid(saved[p] \cup marked[p])
    /\ Goto(p, "create")
    /\ UNCHANGED <<expired, cache, time, answer, request>>

CreateSession(p) ==
    /\ At(p, "create")
    /\ session' = [session EXCEPT ![p] = "active"]
    /\ Answer(p, "ok")
    /\ UNCHANGED <<revokedTokens, expired, since, cache, time, request, transaction>>

----------------------------------------------------------------------------
(* The middleware, before a logout and any other use of a token *)

(* The client presents a token that it was given; ParseJWT refuses an      *)
(* expired one.  IsTokenRevoked reads the clock first.                     *)
Present(p, t, k) ==
    /\ At(p, "idle")
    /\ kind[t] = "login" /\ answer[t] = "ok"
    /\ t \notin expired
    /\ kind' = [kind EXCEPT ![p] = k]
    /\ token' = [token EXCEPT ![p] = t]
    /\ began' = [began EXCEPT ![p] = time]
    /\ Goto(p, "read")
    /\ UNCHANGED <<database, cache, time, answer, older, transaction>>

(* Logout parses the token once more: it may have expired since.           *)
Admit(p) ==
    \/ kind[p] # "logout" /\ Answer(p, "admitted")
    \/ kind[p] = "logout" /\ token[p] \in expired /\ Answer(p, "rejected")
    \/ kind[p] = "logout" /\ token[p] \notin expired
          /\ Goto(p, "save revoked") /\ UNCHANGED answer
Decide(p, revoked) == IF revoked THEN Answer(p, "rejected") ELSE Admit(p)

ReadCache(p) ==
    /\ At(p, "read")
    /\ LET entry == cache[token[p]]
       IN  \/ entry = None /\ Goto(p, "query") /\ UNCHANGED answer
           \/ entry # None /\ began[p] > entry.expires /\ Goto(p, "evict") /\ UNCHANGED answer
           \/ entry # None /\ began[p] <= entry.expires /\ Decide(p, entry.revoked)
    /\ UNCHANGED <<database, cache, time, request, transaction>>

(* read deletes the entry under a second lock: another request may have    *)
(* renewed it in between.                                                  *)
EvictEntry(p) ==
    /\ At(p, "evict")
    /\ cache' = [cache EXCEPT ![token[p]] = None]
    /\ Goto(p, "query")
    /\ UNCHANGED <<database, time, answer, request, transaction>>

QueryStore(p) ==
    /\ At(p, "query")
    /\ Goto(p, IF Invalid(token[p]) THEN "write revoked" ELSE "write valid")
    /\ UNCHANGED <<database, cache, time, answer, request, transaction>>

(* An entry that lives from when it is written. *)
WriteFromNow(p) ==
    /\ pc[p] \in {"write revoked", "write valid"}
    /\ LET revoked == At(p, "write revoked")
       IN  /\ cache' = [cache EXCEPT ![token[p]] = [revoked |-> revoked, expires |-> time + TTL]]
           /\ Decide(p, revoked)
    /\ UNCHANGED <<database, time, request, transaction>>

(* The answer counts from before the query, not from when it arrived.      *)
WriteCache(p) ==
    /\ pc[p] \in {"write revoked", "write valid"}
    /\ LET revoked == At(p, "write revoked")
       IN  /\ cache' = [cache EXCEPT ![token[p]] = [revoked |-> revoked, expires |-> began[p] + TTL]]
           /\ Decide(p, revoked)
    /\ UNCHANGED <<database, time, request, transaction>>

----------------------------------------------------------------------------
(* Logout: two statements, each a transaction of its own *)

SaveRevokedToken(p) ==
    /\ At(p, "save revoked")
    /\ \A q \in Requests : token[p] \notin saved[q]
    /\ revokedTokens' = revokedTokens \cup {token[p]}
    /\ NoteInvalid({token[p]})
    /\ Goto(p, "revoke session")
    /\ UNCHANGED <<session, expired, cache, time, answer, request, transaction>>

RevokeByTokenHash(p) ==
    /\ At(p, "revoke session")
    /\ \A q \in Requests : token[p] \notin marked[q]
    /\ session' = [session EXCEPT ![token[p]] = "revoked"]
    /\ NoteInvalid({token[p]})
    /\ Answer(p, "ok")
    /\ UNCHANGED <<revokedTokens, expired, cache, time, request, transaction>>

----------------------------------------------------------------------------
(* Failures, time and the cleanup *)

(* A failed revocation is logged and the login goes on. *)
IgnoreFailure(p) ==
    /\ pc[p] \in {"save active", "mark active", "commit"}
    /\ SetTransaction(p, {}, {})
    /\ Goto(p, "create")
    /\ UNCHANGED <<database, cache, time, answer, request>>

(* A failed check is remembered as a revocation. *)
RememberFailure(p) ==
    /\ At(p, "query")
    /\ cache' = [cache EXCEPT ![token[p]] = [revoked |-> TRUE, expires |-> began[p] + TTL]]
    /\ Answer(p, "failed")
    /\ UNCHANGED <<database, time, request, transaction>>

(* A statement fails: its transaction is rolled back, the request answered *)
(* with 500, and nothing is cached.                                        *)
Fail(p) ==
    /\ pc[p] \in {"save active", "mark active", "commit", "create", "query",
                  "save revoked", "revoke session"}
    /\ SetTransaction(p, {}, {})
    /\ Answer(p, "failed")
    /\ UNCHANGED <<database, cache, time, request>>

(* The process dies: its cache is gone, its transactions are rolled back.  *)
Restart ==
    /\ \E p \in Requests : InFlight(p)
    /\ pc' = [p \in Requests |-> IF InFlight(p) THEN "done" ELSE pc[p]]
    /\ answer' = [p \in Requests |-> IF InFlight(p) THEN "failed" ELSE answer[p]]
    /\ saved' = [p \in Requests |-> {}]
    /\ marked' = [p \in Requests |-> {}]
    /\ cache' = [t \in Requests |-> None]
    /\ UNCHANGED <<database, time, request>>

Tick ==
    /\ time < MaxTime
    /\ time' = time + 1
    /\ UNCHANGED <<database, cache, pc, answer, request, transaction>>

Expire(t) ==
    /\ session[t] # "none" /\ t \notin expired
    /\ expired' = expired \cup {t}
    /\ NoteInvalid({t})
    /\ UNCHANGED <<session, revokedTokens, cache, time, pc, answer, request, transaction>>

(* A cleanup that goes by the age of a row. *)
DeleteOld(t) ==
    /\ t \in revokedTokens
    /\ revokedTokens' = revokedTokens \ {t}
    /\ UNCHANGED <<session, expired, since, cache, time, pc, answer, request, transaction>>

DeleteExpired(t) ==
    /\ t \in revokedTokens /\ t \in expired
    /\ revokedTokens' = revokedTokens \ {t}
    /\ UNCHANGED <<session, expired, since, cache, time, pc, answer, request, transaction>>

Check(p) == ReadCache(p) \/ EvictEntry(p) \/ QueryStore(p) \/ WriteCache(p)

Next ==
    \/ \E p \in Requests :
          \/ Login(p) \/ SaveActiveTokens(p) \/ MarkActiveSessions(p)
          \/ CommitRevocations(p) \/ CreateSession(p)
          \/ \E t \in Requests, k \in {"use", "logout"} : Present(p, t, k)
          \/ Check(p)
          \/ SaveRevokedToken(p) \/ RevokeByTokenHash(p)
          \/ Fail(p)
          \/ Expire(p) \/ DeleteExpired(p)
    \/ Restart
    \/ Tick

Spec == Init /\ [][Next]_vars

----------------------------------------------------------------------------
(* Properties *)

TypeOK ==
    /\ session \in [Requests -> {"none", "active", "revoked"}]
    /\ revokedTokens \in SUBSET Requests
    /\ expired \in SUBSET Requests
    /\ since \in [Requests -> Nat \cup {Never}]
    /\ cache \in [Requests -> {None} \cup [revoked : BOOLEAN, expires : Nat]]
    /\ time \in Nat
    /\ pc \in [Requests -> {"idle", "save active", "mark active", "commit", "create",
                            "read", "evict", "query", "write revoked", "write valid",
                            "save revoked", "revoke session", "done"}]
    /\ kind \in [Requests -> {"none", "login", "use", "logout"}]
    /\ token \in [Requests -> Requests \cup {None}]
    /\ answer \in [Requests -> {"none", "ok", "admitted", "rejected", "failed"}]
    /\ began \in [Requests -> Nat]
    /\ older \in [Requests -> SUBSET Requests]
    /\ saved \in [Requests -> SUBSET Requests]
    /\ marked \in [Requests -> SUBSET Requests]

(* A login ends the sessions before it: one that succeeds leaves no token  *)
(* alive that had been given out before the login began.                   *)
OlderSessionsEnd ==
    \A p \in Requests :
        kind[p] = "login" /\ answer[p] = "ok" => \A t \in older[p] : Invalid(t)

(* "One user has one currently valid session": of the tokens that logins   *)
(* have given out, one at most is neither revoked nor expired.             *)
OneValidSession ==
    \A s, t \in Requests :
        kind[s] = "login" /\ answer[s] = "ok" /\ ~Invalid(s)
        /\ kind[t] = "login" /\ answer[t] = "ok" /\ ~Invalid(t) => s = t

(* A token that was revoked or has expired is never valid again, although  *)
(* a logout may have written only one of its two rows and the cleanup      *)
(* deletes the other: step by step, of every token that was given out.     *)
NoRevival == [][\A t \in Requests : session[t] # "none" /\ Invalid(t) => Invalid(t)']_vars

(* The cache lets a revoked token pass for TTL at most, however long a     *)
(* query takes and whichever of two concurrent checks writes last.         *)
RevokedWithinTTL ==
    \A p \in Requests :
        answer[p] = "admitted" =>
            since[token[p]] = Never \/ began[p] <= since[token[p]] + TTL

(* The cache never turns away a valid token.                               *)
ValidNotRejected ==
    \A p \in Requests : answer[p] = "rejected" => Invalid(token[p])
=============================================================================
