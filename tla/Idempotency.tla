---------------------------- MODULE Idempotency ----------------------------
(***************************************************************************)
(* The Idempotency-Key middleware around a financial operation: claim the  *)
(* key, run the handler, keep its response or release the key.  The claim, *)
(* the operation and what follows are separate statements, so requests     *)
(* with one key interleave, contexts are cancelled and processes die       *)
(* between them.                                                           *)
(*                                                                         *)
(* A key stands for (user_id, method, path, key).  The operation is one    *)
(* that no MFA code guards, a deposit or the closing of a card: it could   *)
(* run twice if the key let it.                                            *)
(***************************************************************************)
EXTENDS Naturals, FiniteSets

CONSTANTS
    Requests,       \* the HTTP requests, retries included
    Keys, Bodies,
    NoRow, NoResponse, NoKey,
    StatementsFail, \* whether a statement may fail, its effect known or not
    CommitReplyLost \* whether a COMMIT may succeed and its reply be lost

ASSUME IdempotencyAssumption ==
    /\ NoResponse \notin Requests
    /\ NoRow \notin [hash : Bodies, response : Requests \cup {NoResponse}]
    /\ {"none", "ok", "failed", "in_progress", "conflict", "duplicate", "lost"}
          \cap Requests = {}
    /\ StatementsFail \in BOOLEAN
    /\ CommitReplyLost \in BOOLEAN

VARIABLES
    row,        \* idempotency_keys: [hash, response]; a response is named after
                \*   the request that it answered
    executions, \* requests whose operation committed, since the key is in use
    pc,         \* where each request is
    key, body,  \* what it carries
    cancelled,  \* its context is done: the client is gone, or the deadline passed
    answer      \* what it was answered: a status, or the response replayed

vars == <<row, executions, pc, key, body, cancelled, answer>>

Statuses == {"none", "ok", "failed", "in_progress", "conflict", "duplicate", "lost"}

(* The row as it is claimed.                                               *)
Unstored(b) == [hash |-> b, response |-> NoResponse]

Holds(p) == pc[p] \in {"execute", "release", "store"}   \* p claimed its key
InFlight(p) == pc[p] \in {"claim", "resolve"} \/ Holds(p)

----------------------------------------------------------------------------
Init ==
    /\ row = [k \in Keys |-> NoRow]
    /\ executions = [k \in Keys |-> {}]
    /\ pc = [p \in Requests |-> "idle"]
    /\ key = [p \in Requests |-> NoKey]
    /\ body = [p \in Requests |-> NoKey]
    /\ cancelled = [p \in Requests |-> FALSE]
    /\ answer = [p \in Requests |-> "none"]

Goto(p, there) ==
    /\ pc' = [pc EXCEPT ![p] = there]
    /\ UNCHANGED <<key, body, cancelled>>

Answer(p, a) ==
    /\ Goto(p, "done")
    /\ answer' = [answer EXCEPT ![p] = a]

Send(p, k, b) ==
    /\ pc[p] = "idle"
    /\ pc' = [pc EXCEPT ![p] = "claim"]
    /\ key' = [key EXCEPT ![p] = k]
    /\ body' = [body EXCEPT ![p] = b]
    /\ UNCHANGED <<row, executions, cancelled, answer>>

(* An INSERT that updates the row it collides with. *)
Upsert(p) ==
    /\ pc[p] = "claim"
    /\ row' = [row EXCEPT ![key[p]] = Unstored(body[p])]
    /\ Goto(p, "execute")
    /\ UNCHANGED <<executions, answer>>

(* ClaimKey: the INSERT succeeds, or violates the unique constraint.       *)
ClaimKey(p) ==
    /\ pc[p] = "claim"
    /\ \/ /\ row[key[p]] = NoRow
          /\ row' = [row EXCEPT ![key[p]] = Unstored(body[p])]
          /\ Goto(p, "execute")
       \/ /\ row[key[p]] # NoRow
          /\ Goto(p, "resolve")
          /\ UNCHANGED row
    /\ UNCHANGED <<executions, answer>>

(* A statement may fail at any time once the context is cancelled.         *)
MayFail(p) == cancelled[p] \/ StatementsFail

(* The INSERT fails; its reply may have been lost.  500, and no release.   *)
ClaimFails(p) ==
    /\ pc[p] = "claim"
    /\ MayFail(p)
    /\ \/ UNCHANGED row
       \/ row[key[p]] = NoRow /\ row' = [row EXCEPT ![key[p]] = Unstored(body[p])]
    /\ Answer(p, "failed")
    /\ UNCHANGED executions

(* resolveDuplicate without a look at the hash. *)
ReplayAnything(p) ==
    /\ pc[p] = "resolve"
    /\ LET r == row[key[p]]
       IN  \/ r = NoRow /\ Answer(p, "duplicate")
           \/ r # NoRow /\ r.response = NoResponse /\ Answer(p, "in_progress")
           \/ r # NoRow /\ r.response # NoResponse /\ Answer(p, r.response)
    /\ UNCHANGED <<row, executions>>

(* resolveDuplicate reads the row that was in the way, a statement later:  *)
(* it may have been released or completed in between.                      *)
ResolveDuplicate(p) ==
    /\ pc[p] = "resolve"
    /\ ~cancelled[p]
    /\ LET r == row[key[p]]
       IN  \/ r = NoRow /\ Answer(p, "duplicate")
           \/ r # NoRow /\ r.hash # body[p] /\ Answer(p, "conflict")
           \/ /\ r # NoRow /\ r.hash = body[p]
              /\ r.response = NoResponse
              /\ Answer(p, "in_progress")
           \/ /\ r # NoRow /\ r.hash = body[p]
              /\ r.response # NoResponse
              /\ Answer(p, r.response)
    /\ UNCHANGED <<row, executions>>

(* The row cannot be read: 500.                                            *)
ResolveFails(p) ==
    /\ pc[p] = "resolve"
    /\ MayFail(p)
    /\ Answer(p, "failed")
    /\ UNCHANGED <<row, executions>>

(* The handler commits its operation and answers 2xx.                      *)
Perform(p) ==
    /\ pc[p] = "execute"
    /\ ~cancelled[p]
    /\ executions' = [executions EXCEPT ![key[p]] = @ \cup {p}]
    /\ answer' = [answer EXCEPT ![p] = "ok"]
    /\ Goto(p, "store")
    /\ UNCHANGED row

(* The handler answers 4xx or 5xx: nothing was committed, or, when the     *)
(* connection broke after COMMIT was sent, it was and nobody knows.        *)
PerformFails(p) ==
    /\ pc[p] = "execute"
    /\ \/ UNCHANGED executions
       \/ CommitReplyLost /\ executions' = [executions EXCEPT ![key[p]] = @ \cup {p}]
    /\ answer' = [answer EXCEPT ![p] = "failed"]
    /\ Goto(p, "release")
    /\ UNCHANGED row

(* StoreResponse and ReleaseKey run under the context of the request: they *)
(* do nothing once it is cancelled.                                        *)
StoreResponse(p) ==
    /\ pc[p] = "store"
    /\ \/ /\ ~cancelled[p] /\ row[key[p]] # NoRow
          /\ row' = [row EXCEPT ![key[p]].response = p]
       \/ MayFail(p) /\ UNCHANGED row
    /\ Goto(p, "done")
    /\ UNCHANGED <<executions, answer>>

ReleaseKey(p) ==
    /\ pc[p] = "release"
    /\ \/ ~cancelled[p] /\ row' = [row EXCEPT ![key[p]] = NoRow]
       \/ MayFail(p) /\ UNCHANGED row
    /\ Goto(p, "done")
    /\ UNCHANGED <<executions, answer>>

(* The client disconnects or the deadline of the request passes.           *)
Cancel(p) ==
    /\ InFlight(p) /\ ~cancelled[p]
    /\ cancelled' = [cancelled EXCEPT ![p] = TRUE]
    /\ UNCHANGED <<row, executions, pc, key, body, answer>>

(* The process dies with everything it was doing, or one handler panics.   *)
Abandon(P) ==
    /\ pc' = [p \in Requests |-> IF p \in P /\ InFlight(p) THEN "done" ELSE pc[p]]
    /\ answer' = [p \in Requests |-> IF p \in P /\ InFlight(p) THEN "lost" ELSE answer[p]]
    /\ UNCHANGED <<row, executions, key, body, cancelled>>
Crash == (\E p \in Requests : InFlight(p)) /\ Abandon(Requests)
Panic(p) == InFlight(p) /\ Abandon({p})

(* A cleanup that only knows completed keys. *)
DeleteCompleted(k) ==
    /\ row[k] # NoRow
    /\ row[k].response # NoResponse
    /\ row' = [row EXCEPT ![k] = NoRow]
    /\ executions' = [executions EXCEPT ![k] = {}]
    /\ UNCHANGED <<pc, key, body, cancelled, answer>>

(* A retention shorter than a request may take. *)
DeleteAtOnce(k) ==
    /\ row[k] # NoRow
    /\ row' = [row EXCEPT ![k] = NoRow]
    /\ executions' = [executions EXCEPT ![k] = {}]
    /\ UNCHANGED <<pc, key, body, cancelled, answer>>

(* The cleanup deletes a key after the retention of 24 hours, completed or *)
(* not; no request runs for longer than its deadline of 20 seconds.  From  *)
(* then on the key is a new one.                                           *)
DeleteOlderThan(k) ==
    /\ row[k] # NoRow
    /\ \A p \in Requests : InFlight(p) => key[p] # k
    /\ row' = [row EXCEPT ![k] = NoRow]
    /\ executions' = [executions EXCEPT ![k] = {}]
    /\ UNCHANGED <<pc, key, body, cancelled, answer>>

Step(p) ==
    \/ ClaimKey(p) \/ ClaimFails(p) \/ ResolveDuplicate(p) \/ ResolveFails(p)
    \/ Perform(p) \/ PerformFails(p) \/ StoreResponse(p) \/ ReleaseKey(p)

Next ==
    \/ \E p \in Requests :
          \/ \E k \in Keys, b \in Bodies : Send(p, k, b)
          \/ Step(p) \/ Cancel(p) \/ Panic(p)
    \/ Crash
    \/ \E k \in Keys : DeleteOlderThan(k)

Spec == Init /\ [][Next]_vars

(* Requests end, by their deadline at the latest, and the cleanup runs     *)
(* every hour.                                                             *)
FairSpec ==
    /\ Spec
    /\ \A p \in Requests : WF_vars(Step(p))
    /\ \A k \in Keys : WF_vars(DeleteOlderThan(k))

----------------------------------------------------------------------------
(* Properties *)

TypeOK ==
    /\ row \in [Keys -> {NoRow} \cup [hash : Bodies, response : Requests \cup {NoResponse}]]
    /\ executions \in [Keys -> SUBSET Requests]
    /\ pc \in [Requests -> {"idle", "claim", "resolve", "execute", "release", "store", "done"}]
    /\ key \in [Requests -> Keys \cup {NoKey}]
    /\ body \in [Requests -> Bodies \cup {NoKey}]
    /\ cancelled \in [Requests -> BOOLEAN]
    /\ answer \in [Requests -> Statuses \cup Requests]

(* The README, "the same key with the same body will not execute the       *)
(* operation again": at most one operation commits in the life of a key,   *)
(* however its requests interleave, fail, die or are repeated.             *)
AtMostOnce == \A k \in Keys : Cardinality(executions[k]) <= 1

(* A request that is answered from the store gets the response to the same *)
(* body under the same key, of a request that really was executed: never   *)
(* that of another operation.                                              *)
ReplayIsFaithful ==
    \A p, q \in Requests :
        answer[p] = q => /\ key[p] = key[q]
                         /\ body[p] = body[q]
                         /\ answer[q] = "ok"

(* At most one request holds a claim, and the row it claimed is there, with *)
(* its hash and no response: nobody else completes or releases it.         *)
ClaimIsExclusive ==
    \A p \in Requests : Holds(p) =>
        /\ row[key[p]] = Unstored(body[p])
        /\ \A q \in Requests \ {p} : Holds(q) => key[q] # key[p]

(* A key is not reserved for ever: a claim that no request works on any    *)
(* more, whatever became of its request, is eventually taken away.         *)
Orphaned(k) ==
    /\ row[k] # NoRow
    /\ row[k].response = NoResponse
    /\ \A p \in Requests : InFlight(p) => key[p] # k
NoClaimForEver == \A k \in Keys : Orphaned(k) ~> ~Orphaned(k)
============================================================================
