--------------------------- MODULE SessionsProofs ---------------------------
(***************************************************************************)
(* Proofs about sessions and the cache of the middleware, for any requests *)
(* and any TTL.  Everything rests on one fact: a token that exists and is  *)
(* invalid stays so.                                                       *)
(***************************************************************************)
EXTENDS Sessions, TLAPS

LoginPhases == {"save active", "mark active", "commit", "create"}
CheckPhases == {"read", "evict", "query", "write revoked", "write valid",
                "save revoked", "revoke session"}

(* Where a request is tells what it is and which sessions exist.           *)
Exists(t) == session[t] # "none"
Phase(p) ==
    /\ pc[p] = "idle" => kind[p] = "none"
    /\ pc[p] \in LoginPhases => kind[p] = "login" /\ token[p] = p
    /\ pc[p] \in {"idle"} \cup LoginPhases => ~Exists(p)
    /\ pc[p] \in CheckPhases => /\ kind[p] \in {"use", "logout"}
                                /\ token[p] \in Requests
                                /\ Exists(token[p])
    /\ pc[p] # "done" => answer[p] = "none"
    /\ kind[p] = "login" /\ answer[p] = "ok" => Exists(p)
    /\ answer[p] \in {"admitted", "rejected"} =>
          token[p] \in Requests /\ Exists(token[p])
    /\ \A t \in older[p] : Exists(t)
    /\ \A t \in saved[p] : Exists(t)
    /\ \A t \in marked[p] : Exists(t)
Lifecycle == \A p \in Requests : Phase(p)

(* since is the time at which a token became invalid, and no clock is      *)
(* ahead of time.  A cache entry tells what was the case when the check    *)
(* that wrote it began.                                                    *)
Entry(t) ==
    /\ since[t] # Never => Exists(t) /\ Invalid(t) /\ since[t] <= time
    /\ cache[t] # None =>
          /\ cache[t].expires <= time + TTL
          /\ cache[t].revoked => Exists(t) /\ Invalid(t)
          /\ ~cache[t].revoked =>
                since[t] = Never \/ cache[t].expires <= since[t] + TTL

(* What a check knows: about to write, and once it has answered.           *)
Knowledge(p) ==
    /\ began[p] <= time
    /\ pc[p] = "write revoked" => Invalid(token[p])
    /\ pc[p] = "write valid" => since[token[p]] = Never \/ began[p] <= since[token[p]]
    /\ answer[p] = "admitted" =>
          since[token[p]] = Never \/ began[p] <= since[token[p]] + TTL
    /\ answer[p] = "rejected" => Invalid(token[p])

(* What a login has already seen to.                                       *)
Progress(p) ==
    \A t \in older[p] :
        /\ pc[p] = "commit" => Invalid(t) \/ t \in marked[p]
        /\ pc[p] = "create" => Invalid(t)
        /\ kind[p] = "login" /\ answer[p] = "ok" => Invalid(t)

(* The shape of the state, all that most steps need of TypeOK.             *)
Domains ==
    /\ DOMAIN session = Requests /\ DOMAIN since = Requests /\ DOMAIN cache = Requests
    /\ DOMAIN pc = Requests /\ DOMAIN kind = Requests /\ DOMAIN token = Requests
    /\ DOMAIN answer = Requests /\ DOMAIN began = Requests /\ DOMAIN older = Requests
    /\ DOMAIN saved = Requests /\ DOMAIN marked = Requests
Clocks ==
    /\ time \in Int /\ TTL \in Int /\ TTL > 0
    /\ \A p \in Requests : since[p] \in Int /\ began[p] \in Int
    /\ \A t \in Requests : cache[t] # None => cache[t].expires \in Int

IInv == TypeOK /\ Lifecycle
LoginInv == \A p \in Requests : Progress(p)
CacheInv == (\A t \in Requests : Entry(t)) /\ \A p \in Requests : Knowledge(p)

USE DEF Never, At, database, request, transaction

----------------------------------------------------------------------------
(* Types and the phases of a request *)

(* What becomes of a check that knows its verdict.                         *)
Verdict(p, revoked) ==
    \/ (revoked \/ token[p] \in expired) /\ Answer(p, "rejected")
    \/ ~revoked /\ Answer(p, "admitted") /\ kind[p] # "logout"
    \/ ~revoked /\ Goto(p, "save revoked") /\ UNCHANGED answer /\ kind[p] = "logout"
AllButCache ==
    UNCHANGED <<session, revokedTokens, expired, since, time, kind, token, began, older,
                saved, marked>>
NewEntry(p) == [revoked |-> pc[p] = "write revoked", expires |-> began[p] + TTL]

(* It concerns no other request. *)
LEMMA Elsewhere ==
    ASSUME Domains, NEW p \in Requests, NEW q \in Requests, q # p, NEW r,
           \/ Verdict(p, r)
           \/ Goto(p, r) /\ UNCHANGED answer
    PROVE  pc'[q] = pc[q] /\ answer'[q] = answer[q]
BY DEF Domains, Verdict, Goto, Answer

LEMMA ReadCases ==
    ASSUME NEW p, ReadCache(p)
    PROVE  /\ AllButCache /\ UNCHANGED cache /\ pc[p] = "read"
           /\ \/ Goto(p, "query") /\ UNCHANGED answer
              \/ Goto(p, "evict") /\ UNCHANGED answer
              \/ /\ cache[token[p]] # None
                 /\ began[p] <= cache[token[p]].expires
                 /\ Verdict(p, cache[token[p]].revoked)
BY DEF ReadCache, Decide, Admit, AllButCache, Verdict

LEMMA WriteCases ==
    ASSUME NEW p, WriteCache(p)
    PROVE  /\ AllButCache
           /\ cache' = [cache EXCEPT ![token[p]] = NewEntry(p)]
           /\ \/ pc[p] = "write revoked" /\ Verdict(p, TRUE)
              \/ pc[p] = "write valid" /\ Verdict(p, FALSE)
BY DEF WriteCache, Decide, Admit, AllButCache, Verdict, NewEntry

LEMMA NewEntryTyped ==
    ASSUME NEW p, began[p] \in Nat
    PROVE  NewEntry(p) \in [revoked : BOOLEAN, expires : Nat]
BY SessionsAssumption DEF NewEntry

LEMMA TypeInitially == Init => TypeOK
BY DEF Init, TypeOK

LEMMA TypeStep == TypeOK /\ Lifecycle /\ [Next]_vars => TypeOK'
<1> SUFFICES ASSUME TypeOK, Lifecycle, [Next]_vars PROVE TypeOK'
  OBVIOUS
<1> USE DEF TypeOK
<1>1. ASSUME NEW p \in Requests, Login(p) PROVE TypeOK'
  BY <1>1 DEF Login, Goto
<1>2. ASSUME NEW p \in Requests, SaveActiveTokens(p) PROVE TypeOK'
  BY <1>2 DEF SaveActiveTokens, Goto, SetTransaction, Active
<1>3. ASSUME NEW p \in Requests, MarkActiveSessions(p) PROVE TypeOK'
  BY <1>3 DEF MarkActiveSessions, Goto, SetTransaction, Active
<1>4. ASSUME NEW p \in Requests, CommitRevocations(p) PROVE TypeOK'
  BY <1>4 DEF CommitRevocations, Goto, SetTransaction, NoteInvalid
<1>5. ASSUME NEW p \in Requests, CreateSession(p) PROVE TypeOK'
  BY <1>5 DEF CreateSession, Goto, Answer
<1>6. ASSUME NEW p \in Requests, NEW t \in Requests,
             NEW k \in {"use", "logout"}, Present(p, t, k) PROVE TypeOK'
  BY <1>6 DEF Present, Goto
<1>7. ASSUME NEW p \in Requests, ReadCache(p) PROVE TypeOK'
  BY <1>7, ZenonT(30) DEF ReadCache, Decide, Admit, Goto, Answer
<1>8. ASSUME NEW p \in Requests, EvictEntry(p) PROVE TypeOK'
  BY <1>8 DEF EvictEntry, Goto
<1>9. ASSUME NEW p \in Requests, QueryStore(p) PROVE TypeOK'
  BY <1>9 DEF QueryStore, Goto
<1>10. ASSUME NEW p \in Requests, WriteCache(p) PROVE TypeOK'
  <2>1. token[p] \in Requests /\ pc[p] \in CheckPhases
    BY <1>10 DEF WriteCache, Lifecycle, Phase, CheckPhases
  <2>2. NewEntry(p) \in [revoked : BOOLEAN, expires : Nat]
    BY NewEntryTyped
  <2>3. AllButCache /\ cache' = [cache EXCEPT ![token[p]] = NewEntry(p)]
    BY <1>10, WriteCases
  <2>4. cache' \in [Requests -> {None} \cup [revoked : BOOLEAN, expires : Nat]]
    BY <2>1, <2>2, <2>3
  <2>5. ASSUME NEW a \in {"admitted", "rejected"}, Answer(p, a) PROVE TypeOK'
    BY <2>3, <2>4, <2>5 DEF AllButCache, Answer, Goto
  <2>6. ASSUME Goto(p, "save revoked"), UNCHANGED answer PROVE TypeOK'
    BY <2>3, <2>4, <2>6 DEF AllButCache, Goto
  <2> QED
    BY <1>10, <2>5, <2>6, WriteCases DEF Verdict
<1>11. ASSUME NEW p \in Requests, SaveRevokedToken(p) PROVE TypeOK'
  <2>1. token[p] \in Requests
    BY <1>11 DEF SaveRevokedToken, Lifecycle, Phase, CheckPhases
  <2> QED
    BY <1>11, <2>1 DEF SaveRevokedToken, Goto, NoteInvalid
<1>12. ASSUME NEW p \in Requests, RevokeByTokenHash(p) PROVE TypeOK'
  BY <1>12 DEF RevokeByTokenHash, Goto, Answer, NoteInvalid
<1>13. ASSUME NEW p \in Requests, Fail(p) PROVE TypeOK'
  BY <1>13 DEF Fail, Goto, Answer, SetTransaction
<1>14. ASSUME NEW p \in Requests, Expire(p) PROVE TypeOK'
  BY <1>14 DEF Expire, NoteInvalid
<1>15. ASSUME NEW p \in Requests, DeleteExpired(p) PROVE TypeOK'
  BY <1>15 DEF DeleteExpired
<1>16. ASSUME Restart PROVE TypeOK'
  BY <1>16 DEF Restart, InFlight
<1>17. ASSUME Tick PROVE TypeOK'
  <2> HIDE DEF TypeOK
  <2>0. time \in Nat
    BY DEF TypeOK
  <2>1. time' \in Nat
    BY <1>17, <2>0 DEF Tick
  <2>2. UNCHANGED <<session, revokedTokens, expired, since, cache, pc, kind, token,
                    answer, began, older, saved, marked>>
    BY <1>17 DEF Tick
  <2> QED
    BY <2>1, <2>2 DEF TypeOK
<1>18. CASE UNCHANGED vars
  BY <1>18 DEF vars, database, request, transaction
<1> HIDE DEF TypeOK
<1> QED
  BY <1>1, <1>2, <1>3, <1>4, <1>5, <1>6, <1>7, <1>8, <1>9, <1>10, <1>11, <1>12, <1>13, <1>14, <1>15, <1>16, <1>17, <1>18
     DEF Next, Check

LEMMA Shape == TypeOK => Domains /\ Clocks
<1> SUFFICES ASSUME TypeOK PROVE Domains /\ Clocks
  OBVIOUS
<1>1. Domains
  BY DEF TypeOK, Domains
<1>2. \A p \in Requests : since[p] \in Int /\ began[p] \in Int
  <2>1. since \in [Requests -> Nat \cup {Never}] /\ began \in [Requests -> Nat]
    BY DEF TypeOK
  <2>2. Nat \cup {Never} \subseteq Int
    OBVIOUS
  <2> QED
    BY <2>1, <2>2
<1>3. time \in Nat
  BY DEF TypeOK
<1>4. \A t \in Requests : cache[t] # None => cache[t].expires \in Nat
  <2>1. cache \in [Requests -> {None} \cup [revoked : BOOLEAN, expires : Nat]]
    BY DEF TypeOK
  <2> QED
    BY <2>1
<1> QED
  BY <1>1, <1>2, <1>3, <1>4, SessionsAssumption DEF Clocks

LEMMA LifecycleInitially == Init => Lifecycle
BY DEF Init, Lifecycle, Phase, LoginPhases, CheckPhases, Exists

LEMMA LifecycleStep == TypeOK /\ Lifecycle /\ [Next]_vars => Lifecycle'
<1> SUFFICES ASSUME TypeOK, Lifecycle, [Next]_vars, NEW q \in Requests PROVE Phase(q)'
  BY DEF Lifecycle
<1>0. Domains
  BY Shape
<1>a. Phase(q) /\ \A p \in Requests : Phase(p)
  BY DEF Lifecycle
<1>b. older[q] \subseteq Requests /\ saved[q] \subseteq Requests /\ marked[q] \subseteq Requests
  BY DEF TypeOK
<1>s. ASSUME \A t \in Requests : Exists(t)' = Exists(t),
             UNCHANGED <<kind, token, older, saved, marked>>,
             pc'[q] = pc[q], answer'[q] = answer[q]
      PROVE  Phase(q)'
  BY <1>s, <1>a, <1>b DEF Phase
<1>v. ASSUME NEW p \in Requests, NEW r, AllButCache, Verdict(p, r), pc[p] \in CheckPhases
      PROVE  Phase(q)'
  <2>1. \A t : Exists(t)' = Exists(t)
    BY <1>v DEF AllButCache, Exists
  <2>2. CASE q # p
    BY <1>v, <2>1, <2>2, <1>0, <1>s DEF AllButCache, Verdict, Goto, Answer, Domains
  <2>3. CASE q = p
    <3>1. pc'[q] \in {"done", "save revoked"}
      BY <1>v, <2>3, <1>0 DEF Verdict, Goto, Answer, Domains
    <3>2. pc'[q] = "save revoked" => answer'[q] = answer[q]
      BY <1>v, <2>3, <1>0 DEF Verdict, Goto, Answer, Domains
    <3> QED
      BY <1>v, <1>a, <2>1, <2>3, <3>1, <3>2 DEF AllButCache, Phase, LoginPhases, CheckPhases
  <2> QED
    BY <2>2, <2>3
<1> USE DEF Domains, Lifecycle, Phase, LoginPhases, CheckPhases, Exists
<1>1. ASSUME NEW p \in Requests, Login(p) PROVE Phase(q)'
  BY <1>1, <1>0 DEF Login, Goto
<1>2. ASSUME NEW p \in Requests, SaveActiveTokens(p) PROVE Phase(q)'
  BY <1>2, <1>0 DEF SaveActiveTokens, Goto, SetTransaction, Active
<1>3. ASSUME NEW p \in Requests, MarkActiveSessions(p) PROVE Phase(q)'
  BY <1>3, <1>0 DEF MarkActiveSessions, Goto, SetTransaction, Active
<1>4. ASSUME NEW p \in Requests, CommitRevocations(p) PROVE Phase(q)'
  <2>1. marked[p] \subseteq Requests
    BY DEF TypeOK
  <2>2. \A t \in Requests : Exists(t)' = Exists(t)
    BY <1>4, <1>0, <1>a DEF CommitRevocations
  <2>3. CASE q # p
    <3>1. UNCHANGED <<kind, token, older>> /\ saved'[q] = saved[q] /\ marked'[q] = marked[q]
      BY <1>4, <2>3, <1>0 DEF CommitRevocations, SetTransaction
    <3>2. pc'[q] = pc[q] /\ answer'[q] = answer[q]
      BY <1>4, <2>3, <1>0 DEF CommitRevocations, Goto
    <3> QED
      BY <1>a, <1>b, <2>2, <3>1, <3>2
  <2>4. CASE q = p
    <3>1. UNCHANGED <<kind, token, older, answer>> /\ saved'[q] = {} /\ marked'[q] = {}
      BY <1>4, <2>4, <1>0 DEF CommitRevocations, SetTransaction
    <3>2. pc'[q] = "create" /\ pc[q] = "commit"
      BY <1>4, <2>4, <1>0 DEF CommitRevocations, Goto
    <3> QED
      BY <1>a, <1>b, <2>2, <3>1, <3>2
  <2> QED
    BY <2>3, <2>4
<1>5. ASSUME NEW p \in Requests, CreateSession(p) PROVE Phase(q)'
  <2>1. \A t \in Requests : t # p => Exists(t)' = Exists(t)
    BY <1>5, <1>0 DEF CreateSession
  <2>2. ~Exists(p) /\ Exists(p)'
    BY <1>5, <1>0, <1>a DEF CreateSession
  <2>3. UNCHANGED <<kind, token, older, saved, marked>>
    BY <1>5 DEF CreateSession
  <2>5. CASE q # p
    <3>1. pc'[q] = pc[q] /\ answer'[q] = answer[q]
      BY <1>5, <2>5, <1>0 DEF CreateSession, Goto, Answer
    <3> QED
      BY <1>a, <1>b, <2>1, <2>2, <2>3, <2>5, <3>1
  <2>6. CASE q = p
    <3>1. pc'[q] = "done" /\ answer'[q] = "ok"
      BY <1>5, <2>6, <1>0 DEF CreateSession, Goto, Answer
    <3> QED
      BY <1>a, <1>b, <2>1, <2>2, <2>3, <2>6, <3>1, ZenonT(30)
  <2> QED
    BY <2>5, <2>6
<1>6. ASSUME NEW p \in Requests, NEW t \in Requests,
             NEW k \in {"use", "logout"}, Present(p, t, k) PROVE Phase(q)'
  BY <1>6, <1>0, ZenonT(30) DEF Present, Goto
<1>7. ASSUME NEW p \in Requests, ReadCache(p) PROVE Phase(q)'
  <2>1. AllButCache /\ pc[p] = "read"
    BY <1>7, ReadCases
  <2>2. ASSUME NEW there \in {"query", "evict"}, Goto(p, there), UNCHANGED answer
        PROVE  Phase(q)'
    BY <2>1, <2>2, <1>0, <1>a DEF AllButCache, Goto
  <2>3. ASSUME Verdict(p, cache[token[p]].revoked) PROVE Phase(q)'
    BY <2>1, <2>3, <1>v
  <2> QED
    BY <1>7, <2>2, <2>3, ReadCases
<1>8. ASSUME NEW p \in Requests, EvictEntry(p) PROVE Phase(q)'
  BY <1>8, <1>0 DEF EvictEntry, Goto
<1>9. ASSUME NEW p \in Requests, QueryStore(p) PROVE Phase(q)'
  BY <1>9, <1>0 DEF QueryStore, Goto
<1>10. ASSUME NEW p \in Requests, WriteCache(p) PROVE Phase(q)'
  BY <1>10, <1>v, WriteCases
<1>11. ASSUME NEW p \in Requests, SaveRevokedToken(p) PROVE Phase(q)'
  BY <1>11, <1>0 DEF SaveRevokedToken, Goto, NoteInvalid
<1>12. ASSUME NEW p \in Requests, RevokeByTokenHash(p) PROVE Phase(q)'
  <2>1. token[p] \in Requests /\ Exists(token[p]) /\ kind[p] # "login" /\ pc[p] = "revoke session"
    BY <1>12, <1>a DEF RevokeByTokenHash
  <2>2. \A t \in Requests : Exists(t)' = Exists(t)
    BY <1>12, <2>1, <1>0 DEF RevokeByTokenHash
  <2>3. UNCHANGED <<kind, token, older, saved, marked>>
    BY <1>12 DEF RevokeByTokenHash
  <2>4. CASE q # p
    BY <1>12, <2>2, <2>3, <2>4, <1>0, <1>s DEF RevokeByTokenHash, Goto, Answer
  <2>5. CASE q = p
    <3>1. pc'[q] = "done" /\ answer'[q] = "ok"
      BY <1>12, <2>5, <1>0 DEF RevokeByTokenHash, Goto, Answer
    <3> QED
      BY <1>a, <1>b, <2>1, <2>2, <2>3, <2>5, <3>1
  <2> QED
    BY <2>4, <2>5
<1>13. ASSUME NEW p \in Requests, Fail(p) PROVE Phase(q)'
  BY <1>13, <1>0 DEF Fail, Goto, Answer, SetTransaction
<1>14. ASSUME NEW p \in Requests, Expire(p) PROVE Phase(q)'
  BY <1>14, <1>0 DEF Expire, NoteInvalid
<1>15. ASSUME NEW p \in Requests, DeleteExpired(p) PROVE Phase(q)'
  BY <1>15, <1>0 DEF DeleteExpired
<1>16. ASSUME Restart PROVE Phase(q)'
  BY <1>16, <1>0 DEF Restart, InFlight
<1>17. ASSUME Tick PROVE Phase(q)'
  BY <1>17, <1>0 DEF Tick
<1>18. CASE UNCHANGED vars
  BY <1>18, <1>0 DEF vars, database, request, transaction
<1> HIDE DEF Lifecycle, Phase, Exists
<1> QED
  BY <1>1, <1>2, <1>3, <1>4, <1>5, <1>6, <1>7, <1>8, <1>9, <1>10, <1>11, <1>12, <1>13, <1>14, <1>15, <1>16, <1>17, <1>18
     DEF Next, Check

----------------------------------------------------------------------------
(* A token that exists keeps existing, and an invalid one stays invalid. *)
Kept == \A t \in Requests : Exists(t) => Exists(t)' /\ (Invalid(t) => Invalid(t)')

LEMMA Monotone == IInv /\ [Next]_vars => Kept
<1> SUFFICES ASSUME TypeOK, Lifecycle, [Next]_vars PROVE Kept
  BY DEF IInv
<1> USE DEF TypeOK, Lifecycle, Phase, LoginPhases, CheckPhases, Exists, Kept, Invalid
<1>1. ASSUME NEW p \in Requests, Login(p) PROVE Kept
  BY <1>1 DEF Login, Goto
<1>2. ASSUME NEW p \in Requests, SaveActiveTokens(p) PROVE Kept
  BY <1>2 DEF SaveActiveTokens, Goto, SetTransaction, Active
<1>3. ASSUME NEW p \in Requests, MarkActiveSessions(p) PROVE Kept
  BY <1>3 DEF MarkActiveSessions, Goto, SetTransaction, Active
<1>4. ASSUME NEW p \in Requests, CommitRevocations(p) PROVE Kept
  BY <1>4 DEF CommitRevocations, Goto, SetTransaction, NoteInvalid
<1>5. ASSUME NEW p \in Requests, CreateSession(p) PROVE Kept
  BY <1>5, ZenonT(30) DEF CreateSession, Goto, Answer
<1>6. ASSUME NEW p \in Requests, NEW t \in Requests,
             NEW k \in {"use", "logout"}, Present(p, t, k) PROVE Kept
  BY <1>6 DEF Present, Goto
<1>7. ASSUME NEW p \in Requests, ReadCache(p) PROVE Kept
  BY <1>7 DEF ReadCache, Decide, Admit, Goto, Answer
<1>8. ASSUME NEW p \in Requests, EvictEntry(p) PROVE Kept
  BY <1>8 DEF EvictEntry, Goto
<1>9. ASSUME NEW p \in Requests, QueryStore(p) PROVE Kept
  BY <1>9 DEF QueryStore, Goto
<1>10. ASSUME NEW p \in Requests, WriteCache(p) PROVE Kept
  BY <1>10, SessionsAssumption DEF WriteCache, Decide, Admit, Goto, Answer
<1>11. ASSUME NEW p \in Requests, SaveRevokedToken(p) PROVE Kept
  BY <1>11 DEF SaveRevokedToken, Goto, NoteInvalid
<1>12. ASSUME NEW p \in Requests, RevokeByTokenHash(p) PROVE Kept
  BY <1>12, ZenonT(30) DEF RevokeByTokenHash, Goto, Answer, NoteInvalid
<1>13. ASSUME NEW p \in Requests, Fail(p) PROVE Kept
  BY <1>13 DEF Fail, Goto, Answer, SetTransaction
<1>14. ASSUME NEW p \in Requests, Expire(p) PROVE Kept
  BY <1>14 DEF Expire, NoteInvalid
<1>15. ASSUME NEW p \in Requests, DeleteExpired(p) PROVE Kept
  BY <1>15 DEF DeleteExpired
<1>16. ASSUME Restart PROVE Kept
  BY <1>16 DEF Restart, InFlight
<1>17. ASSUME Tick PROVE Kept
  BY <1>17, SessionsAssumption DEF Tick
<1>18. CASE UNCHANGED vars
  BY <1>18 DEF vars, database, request, transaction
<1> HIDE DEF Kept, TypeOK, Lifecycle, Phase, Invalid, Exists
<1> QED
  BY <1>1, <1>2, <1>3, <1>4, <1>5, <1>6, <1>7, <1>8, <1>9, <1>10, <1>11, <1>12, <1>13, <1>14, <1>15, <1>16, <1>17, <1>18
     DEF Next, Check

LEMMA Inductive == Spec => []IInv
<1>1. Init => IInv
  BY TypeInitially, LifecycleInitially DEF IInv
<1>2. IInv /\ [Next]_vars => IInv'
  BY TypeStep, LifecycleStep DEF IInv
<1> QED
  BY <1>1, <1>2, PTL DEF Spec

(* The type invariant.                                                     *)
THEOREM TypeCorrect == Spec => []TypeOK
<1>1. IInv => TypeOK
  BY DEF IInv
<1> QED
  BY <1>1, Inductive, PTL

(* An invalid token is never valid again.                                  *)
THEOREM NeverRevived == Spec => NoRevival
<1>1. IInv /\ [Next]_vars
        => [\A t \in Requests : session[t] # "none" /\ Invalid(t) => Invalid(t)']_vars
  BY Monotone DEF Kept, Exists
<1> QED
  BY <1>1, Inductive, PTL DEF Spec, NoRevival

----------------------------------------------------------------------------
(* Logins *)

LEMMA LoginInitially == Init => LoginInv
BY DEF Init, LoginInv, Progress

(* A step that takes q no further in its login leaves its progress.        *)
LEMMA ProgressKept ==
    ASSUME Kept, NEW q \in Requests, Phase(q), Progress(q),
           older[q] \subseteq Requests,
           older'[q] = older[q], kind'[q] = kind[q],
           pc'[q] \in {"commit", "create"} => pc'[q] = pc[q],
           answer'[q] = "ok" => answer[q] = "ok" \/ kind[q] # "login",
           marked[q] \subseteq marked'[q] \/ pc'[q] # "commit"
    PROVE  Progress(q)'
BY DEF Kept, Phase, Progress

LEMMA LoginStep == IInv /\ LoginInv /\ [Next]_vars => LoginInv'
<1> SUFFICES ASSUME IInv, LoginInv, [Next]_vars, NEW q \in Requests PROVE Progress(q)'
  BY DEF LoginInv
<1>a. Kept /\ Domains /\ Phase(q) /\ Progress(q)
  BY Monotone, Shape DEF IInv, LoginInv, Lifecycle
<1>b. older[q] \subseteq Requests
  BY DEF IInv, TypeOK
<1>c. \A p \in Requests : Phase(p)
  BY DEF IInv, Lifecycle
<1>d. ASSUME older'[q] = older[q], kind'[q] = kind[q],
             pc'[q] \in {"commit", "create"} => pc'[q] = pc[q],
             answer'[q] = "ok" => answer[q] = "ok" \/ kind[q] # "login",
             marked[q] \subseteq marked'[q] \/ pc'[q] # "commit"
      PROVE  Progress(q)'
  BY <1>a, <1>b, <1>d, ProgressKept
<1>1. ASSUME NEW p \in Requests, Login(p) PROVE Progress(q)'
  BY <1>1, <1>a, <1>d DEF Login, Goto, Domains, Phase, Progress
<1>2. ASSUME NEW p \in Requests, SaveActiveTokens(p) PROVE Progress(q)'
  BY <1>2, <1>a, <1>d DEF SaveActiveTokens, Goto, SetTransaction, Domains
<1>3. ASSUME NEW p \in Requests, MarkActiveSessions(p) PROVE Progress(q)'
  <2>1. CASE q = p
    <3>1. \A t \in older[q] : Invalid(t) \/ t \in marked'[q]
      BY <1>3, <2>1, <1>a, <1>b DEF MarkActiveSessions, SetTransaction, Active, Invalid, Domains
    <3>2. pc'[q] = "commit" /\ older' = older /\ answer' = answer
      BY <1>3, <2>1, <1>a DEF MarkActiveSessions, Goto, Domains
    <3>3. answer[q] = "none"
      BY <1>3, <2>1, <1>a DEF MarkActiveSessions, Phase
    <3> QED
      BY <3>1, <3>2, <3>3, <1>a, <1>b DEF Progress, Kept, Phase
  <2>2. CASE q # p
    BY <1>3, <2>2, <1>a, <1>d DEF MarkActiveSessions, Goto, SetTransaction, Domains
  <2> QED
    BY <2>1, <2>2
<1>4. ASSUME NEW p \in Requests, CommitRevocations(p) PROVE Progress(q)'
  <2>1. CASE q = p
    <3>1. \A t \in older[q] : Invalid(t)'
      <4> SUFFICES ASSUME NEW t \in older[q] PROVE Invalid(t)'
        OBVIOUS
      <4>1. CASE t \in marked[q]
        BY <1>4, <2>1, <4>1, <1>b DEF CommitRevocations, Invalid
      <4>2. CASE Invalid(t)
        BY <4>2, <1>a, <1>b DEF Kept, Phase
      <4> QED
        BY <1>4, <2>1, <4>1, <4>2, <1>a DEF CommitRevocations, Progress
    <3>2. pc'[q] = "create" /\ older' = older /\ kind' = kind /\ answer' = answer
      BY <1>4, <2>1, <1>a DEF CommitRevocations, Goto, Domains
    <3> QED
      BY <3>1, <3>2 DEF Progress
  <2>2. CASE q # p
    BY <1>4, <2>2, <1>a, <1>d DEF CommitRevocations, Goto, SetTransaction, Domains
  <2> QED
    BY <2>1, <2>2
<1>5. ASSUME NEW p \in Requests, CreateSession(p) PROVE Progress(q)'
  <2>1. CASE q = p
    <3>1. \A t \in older[q] : Invalid(t)'
      BY <1>5, <2>1, <1>a, <1>b DEF CreateSession, Progress, Kept, Phase
    <3>2. pc'[q] = "done" /\ older' = older
      BY <1>5, <2>1, <1>a DEF CreateSession, Answer, Goto, Domains
    <3> QED
      BY <3>1, <3>2 DEF Progress
  <2>2. CASE q # p
    BY <1>5, <2>2, <1>a, <1>d DEF CreateSession, Answer, Goto, Domains
  <2> QED
    BY <2>1, <2>2
<1>6. ASSUME NEW p \in Requests, NEW t \in Requests,
             NEW k \in {"use", "logout"}, Present(p, t, k) PROVE Progress(q)'
  <2>1. CASE q = p
    BY <1>6, <2>1, <1>a DEF Present, Goto, Domains, Phase, Progress
  <2>2. CASE q # p
    BY <1>6, <2>2, <1>a, <1>d DEF Present, Goto, Domains
  <2> QED
    BY <2>1, <2>2
<1>7. ASSUME NEW p \in Requests, ReadCache(p) PROVE Progress(q)'
  BY <1>7, <1>a, <1>d, ReadCases DEF AllButCache, Verdict, Goto, Answer, Domains
<1>8. ASSUME NEW p \in Requests, EvictEntry(p) PROVE Progress(q)'
  BY <1>8, <1>a, <1>d DEF EvictEntry, Goto, Domains
<1>9. ASSUME NEW p \in Requests, QueryStore(p) PROVE Progress(q)'
  BY <1>9, <1>a, <1>d DEF QueryStore, Goto, Domains
<1>10. ASSUME NEW p \in Requests, WriteCache(p) PROVE Progress(q)'
  BY <1>10, <1>a, <1>d, WriteCases DEF AllButCache, Verdict, Goto, Answer, Domains
<1>11. ASSUME NEW p \in Requests, SaveRevokedToken(p) PROVE Progress(q)'
  BY <1>11, <1>a, <1>d DEF SaveRevokedToken, Goto, Domains
<1>12. ASSUME NEW p \in Requests, RevokeByTokenHash(p) PROVE Progress(q)'
  <2>1. kind[p] # "login"
    BY <1>12, <1>c DEF RevokeByTokenHash, Phase, CheckPhases
  <2> QED
    BY <1>12, <2>1, <1>a, <1>d DEF RevokeByTokenHash, Goto, Answer, Domains
<1>13. ASSUME NEW p \in Requests, Fail(p) PROVE Progress(q)'
  BY <1>13, <1>a, <1>d DEF Fail, Goto, Answer, SetTransaction, Domains
<1>14. ASSUME NEW p \in Requests, Expire(p) PROVE Progress(q)'
  BY <1>14, <1>a, <1>d DEF Expire, Domains
<1>15. ASSUME NEW p \in Requests, DeleteExpired(p) PROVE Progress(q)'
  BY <1>15, <1>a, <1>d DEF DeleteExpired, Domains
<1>16. ASSUME Restart PROVE Progress(q)'
  BY <1>16, <1>a, <1>d DEF Restart, InFlight, Domains
<1>17. ASSUME Tick PROVE Progress(q)'
  BY <1>17, <1>a, <1>d DEF Tick, Domains
<1>18. CASE UNCHANGED vars
  BY <1>18, <1>a, <1>d DEF vars, Domains
<1> QED
  BY <1>1, <1>2, <1>3, <1>4, <1>5, <1>6, <1>7, <1>8, <1>9, <1>10, <1>11, <1>12, <1>13, <1>14, <1>15, <1>16, <1>17, <1>18
     DEF Next, Check

(* A login that succeeds ends every session given out before it began.     *)
THEOREM LoginsEndOlderSessions == Spec => []OlderSessionsEnd
<1>1. Init => LoginInv
  BY LoginInitially
<1>2. LoginInv => OlderSessionsEnd
  BY DEF LoginInv, Progress, OlderSessionsEnd
<1> QED
  BY <1>1, <1>2, LoginStep, Inductive, PTL DEF Spec

----------------------------------------------------------------------------
(* The cache *)

(* No step turns back the clock or the time at which a token became        *)
(* invalid.                                                                *)
Passes ==
    /\ time' = time \/ time' = time + 1
    /\ \A t \in Requests :
          \/ since'[t] = since[t]
          \/ since[t] = Never /\ since'[t] = time /\ Exists(t) /\ Invalid(t)'

LEMMA TimePasses == IInv /\ [Next]_vars => Passes
<1> SUFFICES ASSUME IInv, [Next]_vars PROVE Passes
  OBVIOUS
<1>a. Domains /\ Clocks
  BY Shape DEF IInv
<1>b. \A p \in Requests : Phase(p)
  BY DEF IInv, Lifecycle
<1>d. ASSUME UNCHANGED <<since, time>> PROVE Passes
  BY <1>a, <1>d DEF Passes, Clocks
<1>e. ASSUME NEW S \in SUBSET Requests, NoteInvalid(S), UNCHANGED time,
             \A t \in S : Exists(t) /\ Invalid(t)'
      PROVE  Passes
  BY <1>a, <1>e DEF Passes, Clocks, NoteInvalid
<1>1. ASSUME NEW p \in Requests, Login(p) PROVE Passes
  BY <1>1, <1>d DEF Login, Goto
<1>2. ASSUME NEW p \in Requests, SaveActiveTokens(p) PROVE Passes
  BY <1>2, <1>d DEF SaveActiveTokens, Goto
<1>3. ASSUME NEW p \in Requests, MarkActiveSessions(p) PROVE Passes
  BY <1>3, <1>d DEF MarkActiveSessions, Goto
<1>4. ASSUME NEW p \in Requests, CommitRevocations(p) PROVE Passes
  <2>1. saved[p] \cup marked[p] \in SUBSET Requests
    BY DEF IInv, TypeOK
  <2>2. \A t \in saved[p] \cup marked[p] : Exists(t) /\ Invalid(t)'
    BY <1>4, <2>1, <1>b DEF CommitRevocations, Invalid, Phase
  <2> QED
    BY <1>4, <2>1, <2>2, <1>e DEF CommitRevocations
<1>5. ASSUME NEW p \in Requests, CreateSession(p) PROVE Passes
  BY <1>5, <1>d DEF CreateSession, Goto, Answer
<1>6. ASSUME NEW p \in Requests, NEW t \in Requests,
             NEW k \in {"use", "logout"}, Present(p, t, k) PROVE Passes
  BY <1>6, <1>d DEF Present, Goto
<1>7. ASSUME NEW p \in Requests, ReadCache(p) PROVE Passes
  BY <1>7, <1>d, ReadCases DEF AllButCache, Verdict, Goto, Answer
<1>8. ASSUME NEW p \in Requests, EvictEntry(p) PROVE Passes
  BY <1>8, <1>d DEF EvictEntry, Goto
<1>9. ASSUME NEW p \in Requests, QueryStore(p) PROVE Passes
  BY <1>9, <1>d DEF QueryStore, Goto
<1>10. ASSUME NEW p \in Requests, WriteCache(p) PROVE Passes
  BY <1>10, <1>d, WriteCases DEF AllButCache, Verdict, Goto, Answer
<1>11. ASSUME NEW p \in Requests, SaveRevokedToken(p) PROVE Passes
  <2>1. token[p] \in Requests /\ Exists(token[p])
    BY <1>11, <1>b DEF SaveRevokedToken, Phase, CheckPhases
  <2>2. Invalid(token[p])'
    BY <1>11 DEF SaveRevokedToken, Invalid
  <2> QED
    BY <1>11, <2>1, <2>2, <1>e DEF SaveRevokedToken
<1>12. ASSUME NEW p \in Requests, RevokeByTokenHash(p) PROVE Passes
  <2>1. token[p] \in Requests /\ Exists(token[p])
    BY <1>12, <1>b DEF RevokeByTokenHash, Phase, CheckPhases
  <2>2. Invalid(token[p])'
    BY <1>12, <2>1, <1>a DEF RevokeByTokenHash, Invalid, Domains
  <2> QED
    BY <1>12, <2>1, <2>2, <1>e DEF RevokeByTokenHash
<1>13. ASSUME NEW p \in Requests, Fail(p) PROVE Passes
  BY <1>13, <1>d DEF Fail, Goto, Answer
<1>14. ASSUME NEW p \in Requests, Expire(p) PROVE Passes
  <2>1. Exists(p) /\ Invalid(p)'
    BY <1>14 DEF Expire, Exists, Invalid
  <2> QED
    BY <1>14, <2>1, <1>e DEF Expire
<1>15. ASSUME NEW p \in Requests, DeleteExpired(p) PROVE Passes
  BY <1>15, <1>d DEF DeleteExpired
<1>16. ASSUME Restart PROVE Passes
  BY <1>16, <1>d DEF Restart, InFlight
<1>17. ASSUME Tick PROVE Passes
  BY <1>17, <1>a DEF Tick, Passes, Clocks
<1>18. CASE UNCHANGED vars
  BY <1>18, <1>d DEF vars
<1> QED
  BY <1>1, <1>2, <1>3, <1>4, <1>5, <1>6, <1>7, <1>8, <1>9, <1>10, <1>11, <1>12, <1>13, <1>14, <1>15, <1>16, <1>17, <1>18
     DEF Next, Check

LEMMA CacheInitially == Init => CacheInv
BY SessionsAssumption DEF Init, CacheInv, Entry, Knowledge

(* Some arithmetic of times.                                               *)
LEMMA Later ==
    \A a, b, d \in Int : a <= b => a <= b + 1 /\ a + d <= b + d /\ (d > 0 => a <= b + d)
OBVIOUS

(* An entry that is not written stays sound as time passes.                *)
LEMMA EntryKept ==
    ASSUME Clocks, Passes, Kept, NEW u \in Requests, Entry(u),
           cache'[u] = cache[u] \/ cache'[u] = None
    PROVE  Entry(u)'
<1>t. /\ time \in Int /\ TTL \in Int /\ since[u] \in Int /\ (time' = time \/ time' = time + 1)
      /\ \/ since'[u] = since[u]
         \/ since[u] = Never /\ since'[u] = time /\ Exists(u) /\ Invalid(u)'
  BY DEF Clocks, Passes
<1>1. since'[u] # Never => Exists(u)' /\ Invalid(u)' /\ since'[u] <= time'
  BY <1>t DEF Kept, Entry
<1>2. ASSUME cache'[u] # None PROVE cache'[u].expires <= time' + TTL
  <2>1. cache'[u] = cache[u] /\ cache[u].expires \in Int /\ cache[u].expires <= time + TTL
    BY <1>2 DEF Clocks, Entry
  <2> QED
    BY <2>1, <1>t
<1>3. ASSUME cache'[u] # None, cache'[u].revoked PROVE Exists(u)' /\ Invalid(u)'
  BY <1>3 DEF Kept, Entry
<1>4. ASSUME cache'[u] # None, ~cache'[u].revoked
      PROVE  since'[u] = Never \/ cache'[u].expires <= since'[u] + TTL
  BY <1>4, <1>t DEF Entry
<1> QED
  BY <1>1, <1>2, <1>3, <1>4 DEF Entry

(* So does what a check knows that is not at its query.                    *)
LEMMA KnowledgeKept ==
    ASSUME Clocks, Passes, Kept, NEW q \in Requests, Phase(q), Knowledge(q),
           began'[q] = began[q], token'[q] = token[q],
           pc'[q] \in {"write revoked", "write valid"} => pc'[q] = pc[q],
           answer'[q] \in {"admitted", "rejected"} => answer'[q] = answer[q]
    PROVE  Knowledge(q)'
<1>1. ASSUME pc[q] \in {"write revoked", "write valid"} \/ answer[q] \in {"admitted", "rejected"}
      PROVE  token[q] \in Requests /\ Exists(token[q])
  BY <1>1 DEF Phase, CheckPhases
<1>t. /\ time \in Int /\ TTL \in Int /\ TTL > 0 /\ began[q] \in Int
      /\ time' = time \/ time' = time + 1
      /\ began[q] <= time
  BY DEF Clocks, Passes, Knowledge
<1>s. ASSUME token[q] \in Requests
      PROVE  \/ since'[token[q]] = since[token[q]]
             \/ since'[token[q]] = time
  BY <1>s DEF Passes
<1>2. began'[q] <= time'
  BY <1>t, Later
<1>3. pc'[q] = "write revoked" => Invalid(token[q])'
  BY <1>1 DEF Kept, Knowledge
<1>4. ASSUME pc'[q] = "write valid"
      PROVE  since'[token[q]] = Never \/ began[q] <= since'[token[q]]
  BY <1>1, <1>4, <1>s, <1>t DEF Knowledge
<1>5. ASSUME answer'[q] = "admitted"
      PROVE  since'[token[q]] = Never \/ began[q] <= since'[token[q]] + TTL
  <2>1. token[q] \in Requests /\ answer[q] = "admitted"
    BY <1>1, <1>5
  <2>2. CASE since'[token[q]] = since[token[q]]
    BY <2>1, <2>2 DEF Knowledge
  <2>3. CASE since'[token[q]] = time
    <3>1. began[q] <= time + TTL
      BY <1>t, Later
    <3> QED
      BY <2>3, <3>1
  <2> QED
    BY <2>1, <2>2, <2>3, <1>s
<1>6. answer'[q] = "rejected" => Invalid(token[q])'
  BY <1>1 DEF Kept, Knowledge
<1> QED
  BY <1>2, <1>3, <1>4, <1>5, <1>6 DEF Knowledge

LEMMA EntryStep ==
    ASSUME IInv, CacheInv, [Next]_vars, NEW u \in Requests PROVE Entry(u)'
<1>a. Domains /\ Clocks /\ Passes /\ Kept
  BY Monotone, TimePasses, Shape DEF IInv
<1>b. \A p \in Requests : Phase(p) /\ Entry(p) /\ Knowledge(p)
  BY DEF IInv, Lifecycle, CacheInv
<1>d. ASSUME cache'[u] = cache[u] \/ cache'[u] = None PROVE Entry(u)'
  BY <1>a, <1>b, <1>d, EntryKept
<1>1. ASSUME NEW p \in Requests, Login(p) PROVE Entry(u)'
  BY <1>1, <1>d DEF Login, Goto
<1>2. ASSUME NEW p \in Requests, SaveActiveTokens(p) PROVE Entry(u)'
  BY <1>2, <1>d DEF SaveActiveTokens, Goto
<1>3. ASSUME NEW p \in Requests, MarkActiveSessions(p) PROVE Entry(u)'
  BY <1>3, <1>d DEF MarkActiveSessions, Goto
<1>4. ASSUME NEW p \in Requests, CommitRevocations(p) PROVE Entry(u)'
  BY <1>4, <1>d DEF CommitRevocations, Goto
<1>5. ASSUME NEW p \in Requests, CreateSession(p) PROVE Entry(u)'
  BY <1>5, <1>d DEF CreateSession, Goto, Answer
<1>6. ASSUME NEW p \in Requests, NEW t \in Requests,
             NEW k \in {"use", "logout"}, Present(p, t, k) PROVE Entry(u)'
  BY <1>6, <1>d DEF Present, Goto
<1>7. ASSUME NEW p \in Requests, ReadCache(p) PROVE Entry(u)'
  BY <1>7, <1>d, ReadCases
<1>8. ASSUME NEW p \in Requests, EvictEntry(p) PROVE Entry(u)'
  BY <1>8, <1>a, <1>d DEF EvictEntry, Domains
<1>9. ASSUME NEW p \in Requests, QueryStore(p) PROVE Entry(u)'
  BY <1>9, <1>d DEF QueryStore, Goto
<1>10. ASSUME NEW p \in Requests, WriteCache(p) PROVE Entry(u)'
  <2>1. AllButCache /\ cache' = [cache EXCEPT ![token[p]] = NewEntry(p)]
    BY <1>10, WriteCases
  <2>2. CASE u # token[p]
    BY <2>1, <2>2, <1>a, <1>d DEF Domains
  <2>3. CASE u = token[p]
    <3>1. cache'[u] = NewEntry(p)
      BY <2>1, <2>3, <1>a DEF Domains
    <3>2. Exists(u) /\ pc[p] \in {"write revoked", "write valid"}
      BY <1>10, <2>3, <1>b DEF WriteCache, Phase, CheckPhases
    <3>3. since' = since /\ time' = time
      BY <2>1 DEF AllButCache
    <3>t. began[p] \in Int /\ time \in Int /\ TTL \in Int /\ since[u] \in Int /\ began[p] <= time
      BY <1>a, <1>b DEF Clocks, Knowledge
    <3>4. began[p] + TTL <= time' + TTL
      BY <3>3, <3>t
    <3>5. pc[p] = "write revoked" => Exists(u)' /\ Invalid(u)'
      BY <2>3, <3>2, <1>a, <1>b DEF Knowledge, Kept
    <3>s. pc[p] # "write revoked" => since[u] = Never \/ began[p] <= since[u]
      BY <2>3, <3>2, <1>b DEF Knowledge
    <3>6. pc[p] # "write revoked" => since'[u] = Never \/ began[p] + TTL <= since'[u] + TTL
      <4>1. since[u] = Never \/ began[p] + TTL <= since[u] + TTL \/ pc[p] = "write revoked"
        BY <3>s, <3>t, Later
      <4> QED
        BY <3>3, <4>1
    <3>7. since'[u] # Never => Exists(u)' /\ Invalid(u)' /\ since'[u] <= time'
      BY <3>3, <1>a, <1>b DEF Entry, Kept
    <3>f. /\ NewEntry(p).revoked = (pc[p] = "write revoked")
          /\ NewEntry(p).expires = began[p] + TTL
      BY DEF NewEntry
    <3>8. cache'[u].revoked = (pc[p] = "write revoked")
      BY <3>1, <3>f
    <3>9. cache'[u].expires = began[p] + TTL
      BY <3>1, <3>f
    <3> QED
      BY <3>4, <3>5, <3>6, <3>7, <3>8, <3>9 DEF Entry
  <2> QED
    BY <2>2, <2>3
<1>11. ASSUME NEW p \in Requests, SaveRevokedToken(p) PROVE Entry(u)'
  BY <1>11, <1>d DEF SaveRevokedToken, Goto
<1>12. ASSUME NEW p \in Requests, RevokeByTokenHash(p) PROVE Entry(u)'
  BY <1>12, <1>d DEF RevokeByTokenHash, Goto, Answer
<1>13. ASSUME NEW p \in Requests, Fail(p) PROVE Entry(u)'
  BY <1>13, <1>d DEF Fail, Goto, Answer
<1>14. ASSUME NEW p \in Requests, Expire(p) PROVE Entry(u)'
  BY <1>14, <1>d DEF Expire
<1>15. ASSUME NEW p \in Requests, DeleteExpired(p) PROVE Entry(u)'
  BY <1>15, <1>d DEF DeleteExpired
<1>16. ASSUME Restart PROVE Entry(u)'
  BY <1>16, <1>d DEF Restart
<1>17. ASSUME Tick PROVE Entry(u)'
  BY <1>17, <1>d DEF Tick
<1>18. CASE UNCHANGED vars
  BY <1>18, <1>d DEF vars
<1> QED
  BY <1>1, <1>2, <1>3, <1>4, <1>5, <1>6, <1>7, <1>8, <1>9, <1>10, <1>11, <1>12, <1>13, <1>14, <1>15, <1>16, <1>17, <1>18
     DEF Next, Check

LEMMA KnowledgeStep ==
    ASSUME IInv, CacheInv, [Next]_vars, NEW q \in Requests PROVE Knowledge(q)'
<1>a. Domains /\ Clocks /\ Passes /\ Kept
  BY Monotone, TimePasses, Shape DEF IInv
<1>b. \A p \in Requests : Phase(p) /\ Entry(p) /\ Knowledge(p)
  BY DEF IInv, Lifecycle, CacheInv
<1>d. ASSUME began'[q] = began[q], token'[q] = token[q],
             pc'[q] \in {"write revoked", "write valid"} => pc'[q] = pc[q],
             answer'[q] \in {"admitted", "rejected"} => answer'[q] = answer[q]
      PROVE  Knowledge(q)'
  BY <1>a, <1>b, <1>d, KnowledgeKept
<1>1. ASSUME NEW p \in Requests, Login(p) PROVE Knowledge(q)'
  <2>1. pc[p] = "idle" /\ answer[p] = "none" /\ answer' = answer /\ began' = began
    BY <1>1, <1>b DEF Login, Phase
  <2>2. CASE q = p
    BY <1>1, <2>1, <2>2, <1>a, <1>b DEF Login, Goto, Domains, Knowledge, Passes, Clocks
  <2>3. CASE q # p
    BY <1>1, <2>3, <1>a, <1>d DEF Login, Goto, Domains
  <2> QED
    BY <2>2, <2>3
<1>2. ASSUME NEW p \in Requests, SaveActiveTokens(p) PROVE Knowledge(q)'
  BY <1>2, <1>a, <1>d DEF SaveActiveTokens, Goto, Domains
<1>3. ASSUME NEW p \in Requests, MarkActiveSessions(p) PROVE Knowledge(q)'
  BY <1>3, <1>a, <1>d DEF MarkActiveSessions, Goto, Domains
<1>4. ASSUME NEW p \in Requests, CommitRevocations(p) PROVE Knowledge(q)'
  BY <1>4, <1>a, <1>d DEF CommitRevocations, Goto, Domains
<1>5. ASSUME NEW p \in Requests, CreateSession(p) PROVE Knowledge(q)'
  BY <1>5, <1>a, <1>d DEF CreateSession, Goto, Answer, Domains
<1>6. ASSUME NEW p \in Requests, NEW t \in Requests,
             NEW k \in {"use", "logout"}, Present(p, t, k) PROVE Knowledge(q)'
  <2>1. pc[p] = "idle" /\ answer[p] = "none" /\ answer' = answer /\ time' = time
    BY <1>6, <1>b DEF Present, Phase
  <2>2. CASE q = p
    BY <1>6, <2>1, <2>2, <1>a DEF Present, Goto, Domains, Knowledge, Clocks
  <2>3. CASE q # p
    BY <1>6, <2>3, <1>a, <1>d DEF Present, Goto, Domains
  <2> QED
    BY <2>2, <2>3
<1>7. ASSUME NEW p \in Requests, ReadCache(p) PROVE Knowledge(q)'
  <2>1. CASE q # p
    <3>1. UNCHANGED <<began, token>>
      BY <1>7, ReadCases DEF AllButCache
    <3>2. pc'[q] = pc[q] /\ answer'[q] = answer[q]
      BY <1>7, <2>1, <1>a, ReadCases, Elsewhere
    <3> QED
      BY <3>1, <3>2, <1>d
  <2>2. CASE q = p /\ answer'[q] \notin {"admitted", "rejected"}
    BY <1>7, <2>2, <1>a, <1>d, ReadCases DEF AllButCache, Verdict, Goto, Answer, Domains
  <2>3. CASE q = p /\ answer'[q] \in {"admitted", "rejected"}
    <3> DEFINE entry == cache[token[q]]
    <3>1. pc[q] = "read" /\ token[q] \in Requests
      BY <1>7, <2>3, <1>b, ReadCases DEF Phase, CheckPhases
    <3>2. answer[q] = "none"
      BY <3>1, <1>b DEF Phase
    <3>3. AllButCache /\ entry # None /\ began[q] <= entry.expires /\ Verdict(q, entry.revoked)
      BY <1>7, <2>3, <3>2, ReadCases
    <3>4. pc'[q] \notin {"write revoked", "write valid"}
      BY <3>3, <1>a DEF Verdict, Answer, Goto, Domains
    <3>5. answer'[q] = "rejected" => entry.revoked \/ token[q] \in expired
      BY <3>2, <3>3, <1>a DEF Verdict, Answer, Domains
    <3>6. answer'[q] = "admitted" => ~entry.revoked
      BY <3>2, <3>3, <1>a DEF Verdict, Answer, Domains
    <3>7. since' = since /\ began' = began /\ token' = token /\ time' = time
      BY <3>3 DEF AllButCache
    <3>e. Entry(token[q])
      BY <3>1, <1>b
    <3>8. entry.revoked => Invalid(token[q])'
      <4>1. entry.revoked => Exists(token[q]) /\ Invalid(token[q])
        BY <3>3, <3>e DEF Entry
      <4>2. PICK t \in Requests : t = token[q]
        BY <3>1
      <4>3. entry.revoked => Invalid(t)'
        BY <4>1, <4>2, <1>a DEF Kept
      <4> QED
        BY <4>2, <4>3, <3>7 DEF Invalid
    <3>9. ~entry.revoked => since[token[q]] = Never \/ began[q] <= since[token[q]] + TTL
      <4>1. SUFFICES ASSUME ~entry.revoked, since[token[q]] # Never
                     PROVE  began[q] <= since[token[q]] + TTL
        OBVIOUS
      <4>2. entry.expires <= since[token[q]] + TTL /\ entry.expires <= time + TTL
        BY <3>1, <3>3, <4>1, <1>b DEF Entry
      <4>3. entry.expires \in Int
        BY <3>1, <3>3, <1>a DEF Clocks
      <4>4. since[token[q]] \in Int /\ began[q] \in Int /\ TTL \in Int
        BY <3>1, <1>a DEF Clocks
      <4> QED
        BY <3>3, <4>2, <4>3, <4>4
    <3>10. began[q] <= time
      BY <1>b DEF Knowledge
    <3>11. token[q] \in expired => Invalid(token[q])'
      BY <3>3 DEF AllButCache, Invalid
    <3> QED
      BY <3>4, <3>5, <3>6, <3>7, <3>8, <3>9, <3>10, <3>11 DEF Knowledge
  <2> QED
    BY <2>1, <2>2, <2>3
<1>8. ASSUME NEW p \in Requests, EvictEntry(p) PROVE Knowledge(q)'
  BY <1>8, <1>a, <1>d DEF EvictEntry, Goto, Domains
<1>9. ASSUME NEW p \in Requests, QueryStore(p) PROVE Knowledge(q)'
  <2>1. CASE q # p
    BY <1>9, <2>1, <1>a, <1>d DEF QueryStore, Goto, Domains
  <2>2. CASE q = p
    <3>1. pc[q] = "query" /\ token[q] \in Requests /\ answer[q] = "none"
      BY <1>9, <2>2, <1>b DEF QueryStore, Phase, CheckPhases
    <3>2. UNCHANGED <<database, time, answer, request>>
      BY <1>9 DEF QueryStore
    <3>3. pc'[q] = IF Invalid(token[q]) THEN "write revoked" ELSE "write valid"
      BY <1>9, <2>2, <1>a DEF QueryStore, Goto, Domains
    <3>4. Invalid(token[q])' = Invalid(token[q])
      BY <3>2 DEF Invalid
    <3>5. ~Invalid(token[q]) => since[token[q]] = Never
      BY <3>1, <1>b DEF Entry
    <3>6. began[q] <= time
      BY <1>b DEF Knowledge
    <3> QED
      BY <3>1, <3>2, <3>3, <3>4, <3>5, <3>6 DEF Knowledge
  <2> QED
    BY <2>1, <2>2
<1>10. ASSUME NEW p \in Requests, WriteCache(p) PROVE Knowledge(q)'
  <2>1. CASE q # p
    <3>1. UNCHANGED <<began, token>>
      BY <1>10, WriteCases DEF AllButCache
    <3>2. pc'[q] = pc[q] /\ answer'[q] = answer[q]
      BY <1>10, <2>1, <1>a, WriteCases, Elsewhere
    <3> QED
      BY <3>1, <3>2, <1>d
  <2>2. CASE q = p
    <3>1. pc[q] \in {"write revoked", "write valid"} /\ token[q] \in Requests /\ answer[q] = "none"
      BY <1>10, <2>2, <1>b DEF WriteCache, Phase, CheckPhases
    <3>2. AllButCache
      BY <1>10, WriteCases
    <3>3. since' = since /\ began' = began /\ token' = token /\ time' = time
      BY <3>2 DEF AllButCache
    <3>4. pc'[q] \notin {"write revoked", "write valid"}
      BY <1>10, <2>2, <1>a, WriteCases DEF Verdict, Answer, Goto, Domains
    <3>5. answer'[q] = "rejected" => pc[q] = "write revoked" \/ token[q] \in expired
      BY <1>10, <2>2, <3>1, <1>a, WriteCases DEF Verdict, Answer, Domains
    <3>6. answer'[q] = "admitted" => pc[q] = "write valid"
      BY <1>10, <2>2, <3>1, <1>a, WriteCases DEF Verdict, Answer, Domains
    <3>k. Knowledge(q) /\ Exists(token[q])
      BY <3>1, <1>b DEF Phase, CheckPhases
    <3>t. began[q] \in Int /\ since[token[q]] \in Int /\ TTL \in Int /\ TTL > 0
      BY <3>1, <1>a DEF Clocks
    <3>7. pc[q] = "write revoked" => Invalid(token[q])'
      <4>1. PICK t \in Requests : t = token[q]
        BY <3>1
      <4>2. pc[q] = "write revoked" => Invalid(t)'
        BY <3>k, <4>1, <1>a DEF Knowledge, Kept
      <4> QED
        BY <4>1, <4>2, <3>3 DEF Invalid
    <3>8. pc[q] = "write valid" => since[token[q]] = Never \/ began[q] <= since[token[q]] + TTL
      <4>1. pc[q] = "write valid" => since[token[q]] = Never \/ began[q] <= since[token[q]]
        BY <3>k DEF Knowledge
      <4> QED
        BY <4>1, <3>t, Later
    <3>9. began[q] <= time
      BY <1>b DEF Knowledge
    <3>10. token[q] \in expired => Invalid(token[q])'
      BY <3>2 DEF AllButCache, Invalid
    <3> QED
      BY <3>3, <3>4, <3>5, <3>6, <3>7, <3>8, <3>9, <3>10 DEF Knowledge
  <2> QED
    BY <2>1, <2>2
<1>11. ASSUME NEW p \in Requests, SaveRevokedToken(p) PROVE Knowledge(q)'
  BY <1>11, <1>a, <1>d DEF SaveRevokedToken, Goto, Domains
<1>12. ASSUME NEW p \in Requests, RevokeByTokenHash(p) PROVE Knowledge(q)'
  BY <1>12, <1>a, <1>d DEF RevokeByTokenHash, Goto, Answer, Domains
<1>13. ASSUME NEW p \in Requests, Fail(p) PROVE Knowledge(q)'
  BY <1>13, <1>a, <1>d DEF Fail, Goto, Answer, Domains
<1>14. ASSUME NEW p \in Requests, Expire(p) PROVE Knowledge(q)'
  BY <1>14, <1>a, <1>d DEF Expire, Domains
<1>15. ASSUME NEW p \in Requests, DeleteExpired(p) PROVE Knowledge(q)'
  BY <1>15, <1>a, <1>d DEF DeleteExpired, Domains
<1>16. ASSUME Restart PROVE Knowledge(q)'
  BY <1>16, <1>a, <1>d DEF Restart, InFlight, Domains
<1>17. ASSUME Tick PROVE Knowledge(q)'
  BY <1>17, <1>a, <1>d DEF Tick, Domains
<1>18. CASE UNCHANGED vars
  BY <1>18, <1>a, <1>d DEF vars, Domains
<1> QED
  BY <1>1, <1>2, <1>3, <1>4, <1>5, <1>6, <1>7, <1>8, <1>9, <1>10, <1>11, <1>12, <1>13, <1>14, <1>15, <1>16, <1>17, <1>18
     DEF Next, Check

LEMMA CacheStep == IInv /\ CacheInv /\ [Next]_vars => CacheInv'
<1> SUFFICES ASSUME IInv, CacheInv, [Next]_vars PROVE CacheInv'
  OBVIOUS
<1>1. \A u \in Requests : Entry(u)'
  BY EntryStep
<1>2. \A q \in Requests : Knowledge(q)'
  BY KnowledgeStep
<1> QED
  BY <1>1, <1>2 DEF CacheInv

(* A revoked token passes for TTL at most.                                 *)
THEOREM RevokedInTime == Spec => []RevokedWithinTTL
<1>1. Init => CacheInv
  BY CacheInitially
<1>2. CacheInv => RevokedWithinTTL
  BY DEF CacheInv, Knowledge, RevokedWithinTTL
<1> QED
  BY <1>1, <1>2, CacheStep, Inductive, PTL DEF Spec

(* A valid token is never turned away.                                     *)
THEOREM ValidAdmitted == Spec => []ValidNotRejected
<1>1. Init => CacheInv
  BY CacheInitially
<1>2. CacheInv => ValidNotRejected
  BY DEF CacheInv, Knowledge, ValidNotRejected
<1> QED
  BY <1>1, <1>2, CacheStep, Inductive, PTL DEF Spec

=============================================================================
