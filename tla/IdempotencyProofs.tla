------------------------- MODULE IdempotencyProofs -------------------------
(***************************************************************************)
(* Proofs about the idempotency middleware, for any requests, keys and     *)
(* bodies.  A claim excludes every other request from its key until it is  *)
(* completed or released, so an operation can commit only while nothing    *)
(* has been committed under the key: unless the reply to a COMMIT is lost. *)
(***************************************************************************)
EXTENDS Idempotency, FiniteSetTheorems, TLAPS

(* A key without a row is fresh, a claim that may still be released has    *)
(* committed nothing, and what is committed was committed once.            *)
FreshWithoutRow == \A k \in Keys : executions[k] # {} => row[k] # NoRow
NothingToRelease ==
    \A p \in Requests : pc[p] \in {"execute", "release"} => executions[key[p]] = {}
SingleExecution == \A k \in Keys : \A p, q \in executions[k] : p = q
KeyKnown == \A p \in Requests : pc[p] # "idle" => key[p] \in Keys /\ body[p] \in Bodies

(* A response in the store names a request that is done with this key and  *)
(* this body, and succeeded.                                               *)
ResponseIsGenuine ==
    \A k \in Keys : row[k] # NoRow =>
        \A q \in Requests : row[k].response = q =>
            key[q] = k /\ body[q] = row[k].hash /\ answer[q] = "ok" /\ pc[q] = "done"
StoringSucceeded == \A p \in Requests : pc[p] = "store" => answer[p] = "ok"
AnswerWhenDone ==
    \A p \in Requests :
        /\ pc[p] # "done" => answer[p] \in Statuses
        /\ pc[p] \in {"idle", "claim", "resolve", "execute"} => answer[p] = "none"
ReplayAfterwards ==
    \A p, q \in Requests : answer[p] = q => pc[q] = "done"

ClaimInv == TypeOK /\ KeyKnown /\ ClaimIsExclusive
OnceInv == FreshWithoutRow /\ NothingToRelease /\ SingleExecution
ReplayInv == ResponseIsGenuine /\ StoringSucceeded /\ AnswerWhenDone
             /\ ReplayIsFaithful /\ ReplayAfterwards

USE IdempotencyAssumption

(* The claim of a key is exclusive, whether or not replies are lost.       *)
LEMMA ClaimInitially == Init => ClaimInv
BY DEF Init, ClaimInv, TypeOK, KeyKnown, ClaimIsExclusive, Holds, Statuses

LEMMA HeldRowExists == ClaimInv => \A p \in Requests : Holds(p) => row[key[p]] # NoRow
<1> SUFFICES ASSUME ClaimInv, NEW p \in Requests, Holds(p) PROVE row[key[p]] # NoRow
  OBVIOUS
<1>1. body[p] \in Bodies
  BY DEF ClaimInv, KeyKnown, Holds
<1>2. Unstored(body[p]) \in [hash : Bodies, response : Requests \cup {NoResponse}]
  BY <1>1 DEF Unstored
<1>3. Unstored(body[p]) # NoRow
  BY <1>2
<1> QED
  BY <1>3 DEF ClaimInv, ClaimIsExclusive

LEMMA ClaimStep == ClaimInv /\ [Next]_vars => ClaimInv'
<1> SUFFICES ASSUME ClaimInv, [Next]_vars PROVE ClaimInv'
  OBVIOUS
<1> USE DEF ClaimInv, TypeOK, KeyKnown, ClaimIsExclusive, Holds, Unstored, Statuses
<1>1. ASSUME NEW p \in Requests, NEW k \in Keys, NEW b \in Bodies, Send(p, k, b)
      PROVE  ClaimInv'
  BY <1>1 DEF Send
<1>2. ASSUME NEW p \in Requests, ClaimKey(p) PROVE ClaimInv'
  <2>1. CASE row[key[p]] = NoRow /\ row' = [row EXCEPT ![key[p]] = Unstored(body[p])]
                /\ Goto(p, "execute")
    <3>1. key[p] \in Keys /\ body[p] \in Bodies
      BY <1>2 DEF ClaimKey
    <3>2. \A q \in Requests : Holds(q) => key[q] # key[p]
      <4> SUFFICES ASSUME NEW q \in Requests, Holds(q), key[q] = key[p] PROVE FALSE
        OBVIOUS
      <4>1. row[key[q]] # NoRow
        BY HeldRowExists
      <4> QED
        BY <2>1, <4>1
    <3>3. TypeOK' /\ KeyKnown'
      BY <1>2, <2>1, <3>1 DEF ClaimKey, Goto
    <3>4. ClaimIsExclusive'
      BY <1>2, <2>1, <3>1, <3>2 DEF ClaimKey, Goto
    <3> QED
      BY <3>3, <3>4
  <2>2. CASE Goto(p, "resolve") /\ UNCHANGED row
    BY <1>2, <2>2 DEF ClaimKey, Goto
  <2> QED
    BY <1>2, <2>1, <2>2 DEF ClaimKey
<1>3. ASSUME NEW p \in Requests, ClaimFails(p) PROVE ClaimInv'
  BY <1>3 DEF ClaimFails, Answer, Goto
<1>4. ASSUME NEW p \in Requests, ResolveDuplicate(p) PROVE ClaimInv'
  BY <1>4 DEF ResolveDuplicate, Answer, Goto
<1>5. ASSUME NEW p \in Requests, Perform(p) PROVE ClaimInv'
  BY <1>5 DEF Perform, Goto
<1>6. ASSUME NEW p \in Requests, PerformFails(p) PROVE ClaimInv'
  BY <1>6 DEF PerformFails, Goto
<1>7. ASSUME NEW p \in Requests, StoreResponse(p) PROVE ClaimInv'
  BY <1>7 DEF StoreResponse, Goto
<1>8. ASSUME NEW p \in Requests, ReleaseKey(p) PROVE ClaimInv'
  BY <1>8 DEF ReleaseKey, Goto
<1>9. ASSUME NEW p \in Requests, Cancel(p) PROVE ClaimInv'
  BY <1>9 DEF Cancel
<1>10. ASSUME NEW P \in SUBSET Requests, Abandon(P) PROVE ClaimInv'
  BY <1>10 DEF Abandon, InFlight
<1>11. ASSUME NEW k \in Keys, DeleteOlderThan(k) PROVE ClaimInv'
  BY <1>11 DEF DeleteOlderThan, InFlight
<1>12. CASE UNCHANGED vars
  BY <1>12 DEF vars
<1>13. ASSUME NEW p \in Requests, ResolveFails(p) PROVE ClaimInv'
  BY <1>13 DEF ResolveFails, Answer, Goto
<1> QED
  BY <1>1, <1>2, <1>3, <1>4, <1>5, <1>6, <1>7, <1>8, <1>9, <1>10, <1>11, <1>12, <1>13,
     ZenonT(30) DEF Next, Step, Crash, Panic

(* The middleware's rows and claims are well formed, and no key is claimed *)
(* by two requests at a time.                                              *)
THEOREM TypeCorrect == Spec => []TypeOK
<1>1. Spec => []ClaimInv
  BY ClaimInitially, ClaimStep, PTL DEF Spec
<1> QED
  BY <1>1, PTL DEF ClaimInv

----------------------------------------------------------------------------
(* At most one execution, when no reply to a COMMIT is lost *)

LEMMA OnceInitially == Init => OnceInv
BY DEF Init, OnceInv, FreshWithoutRow, NothingToRelease, SingleExecution

LEMMA OnceStep == ~CommitReplyLost /\ ClaimInv /\ OnceInv /\ [Next]_vars => OnceInv'
<1> SUFFICES ASSUME ~CommitReplyLost, ClaimInv, OnceInv, [Next]_vars PROVE OnceInv'
  OBVIOUS
<1> USE DEF ClaimInv, TypeOK, KeyKnown, ClaimIsExclusive, Holds, Unstored,
            OnceInv, FreshWithoutRow, NothingToRelease, SingleExecution
<1>1. ASSUME NEW p \in Requests, NEW k \in Keys, NEW b \in Bodies, Send(p, k, b)
      PROVE  OnceInv'
  BY <1>1 DEF Send
<1>2. ASSUME NEW p \in Requests, ClaimKey(p) PROVE OnceInv'
  BY <1>2 DEF ClaimKey, Goto
<1>3. ASSUME NEW p \in Requests, ClaimFails(p) PROVE OnceInv'
  BY <1>3 DEF ClaimFails, Answer, Goto
<1>4. ASSUME NEW p \in Requests, ResolveDuplicate(p) PROVE OnceInv'
  BY <1>4 DEF ResolveDuplicate, Answer, Goto
<1>5. ASSUME NEW p \in Requests, Perform(p) PROVE OnceInv'
  <2>1. executions[key[p]] = {}
    BY <1>5 DEF Perform
  <2>2. row[key[p]] # NoRow
    BY <1>5, HeldRowExists DEF Perform
  <2> QED
    BY <1>5, <2>1, <2>2, ZenonT(30) DEF Perform, Goto
<1>6. ASSUME NEW p \in Requests, PerformFails(p) PROVE OnceInv'
  BY <1>6 DEF PerformFails, Goto
<1>7. ASSUME NEW p \in Requests, StoreResponse(p) PROVE OnceInv'
  BY <1>7 DEF StoreResponse, Goto
<1>8. ASSUME NEW p \in Requests, ReleaseKey(p) PROVE OnceInv'
  BY <1>8 DEF ReleaseKey, Goto
<1>9. ASSUME NEW p \in Requests, Cancel(p) PROVE OnceInv'
  BY <1>9 DEF Cancel
<1>10. ASSUME NEW P \in SUBSET Requests, Abandon(P) PROVE OnceInv'
  BY <1>10 DEF Abandon, InFlight
<1>11. ASSUME NEW k \in Keys, DeleteOlderThan(k) PROVE OnceInv'
  BY <1>11 DEF DeleteOlderThan, InFlight
<1>12. CASE UNCHANGED vars
  BY <1>12 DEF vars
<1>13. ASSUME NEW p \in Requests, ResolveFails(p) PROVE OnceInv'
  BY <1>13 DEF ResolveFails, Answer, Goto
<1> HIDE DEF OnceInv
<1> QED
  BY <1>1, <1>2, <1>3, <1>4, <1>5, <1>6, <1>7, <1>8, <1>9, <1>10, <1>11, <1>12, <1>13
     DEF Next, Step, Crash, Panic

LEMMA OnceImpliesAtMostOnce == OnceInv => AtMostOnce
<1> SUFFICES ASSUME OnceInv, NEW k \in Keys PROVE Cardinality(executions[k]) <= 1
  BY DEF AtMostOnce
<1>1. CASE executions[k] = {}
  BY <1>1, FS_EmptySet
<1>2. CASE executions[k] # {}
  <2>1. PICK p \in executions[k] : TRUE
    BY <1>2
  <2>2. executions[k] = {p}
    BY <2>1 DEF OnceInv, SingleExecution
  <2>3. Cardinality({p}) = 1
    BY FS_Singleton
  <2> QED
    BY <2>2, <2>3
<1> QED
  BY <1>1, <1>2

(* The same key never executes an operation again within its retention, as *)
(* the README says, provided that no reply to a COMMIT is lost.            *)
THEOREM ExecutedAtMostOnce ==
    ASSUME ~CommitReplyLost PROVE Spec => []AtMostOnce
<1>1. ClaimInv /\ OnceInv /\ [Next]_vars => (ClaimInv /\ OnceInv)'
  BY ClaimStep, OnceStep
<1>2. Init => ClaimInv /\ OnceInv
  BY ClaimInitially, OnceInitially
<1>3. ClaimInv /\ OnceInv => AtMostOnce
  BY OnceImpliesAtMostOnce
<1> QED
  BY <1>1, <1>2, <1>3, PTL DEF Spec

----------------------------------------------------------------------------
(* Replays *)

LEMMA ReplayInitially == Init => ReplayInv
BY DEF Init, ReplayInv, ResponseIsGenuine, StoringSucceeded, AnswerWhenDone,
       ReplayIsFaithful, ReplayAfterwards, Statuses

LEMMA StatusIsNoRequest == \A s \in Statuses : s \notin Requests
BY DEF Statuses

LEMMA ReplayStep == ClaimInv /\ ReplayInv /\ [Next]_vars => ReplayInv'
<1> SUFFICES ASSUME ClaimInv, ReplayInv, [Next]_vars PROVE ReplayInv'
  OBVIOUS
<1> USE DEF ClaimInv, TypeOK, KeyKnown, ReplayInv
<1>1. ASSUME NEW p \in Requests, NEW k \in Keys, NEW b \in Bodies, Send(p, k, b) PROVE ReplayInv'
  <2>1. ResponseIsGenuine'
    BY <1>1 DEF Send, ResponseIsGenuine, StoringSucceeded, Unstored, Statuses
  <2>2. StoringSucceeded' /\ AnswerWhenDone'
    BY <1>1 DEF Send, StoringSucceeded, AnswerWhenDone, Statuses
  <2>3. ReplayIsFaithful' /\ ReplayAfterwards'
    BY <1>1, StatusIsNoRequest DEF Send, ResponseIsGenuine, AnswerWhenDone,
           ReplayIsFaithful, ReplayAfterwards, Statuses
  <2> QED
    BY <2>1, <2>2, <2>3
<1>2. ASSUME NEW p \in Requests, ClaimKey(p) PROVE ReplayInv'
  <2>1. ResponseIsGenuine'
    BY <1>2 DEF ClaimKey, Goto, ResponseIsGenuine, StoringSucceeded, Unstored, Statuses
  <2>2. StoringSucceeded' /\ AnswerWhenDone'
    BY <1>2 DEF ClaimKey, Goto, StoringSucceeded, AnswerWhenDone, Statuses
  <2>3. ReplayIsFaithful' /\ ReplayAfterwards'
    BY <1>2, StatusIsNoRequest DEF ClaimKey, Goto, ResponseIsGenuine, AnswerWhenDone,
           ReplayIsFaithful, ReplayAfterwards, Statuses
  <2> QED
    BY <2>1, <2>2, <2>3
<1>3. ASSUME NEW p \in Requests, ClaimFails(p) PROVE ReplayInv'
  <2>1. ResponseIsGenuine'
    BY <1>3 DEF ClaimFails, Answer, Goto, ResponseIsGenuine, StoringSucceeded, Unstored, Statuses
  <2>2. StoringSucceeded' /\ AnswerWhenDone'
    BY <1>3 DEF ClaimFails, Answer, Goto, StoringSucceeded, AnswerWhenDone, Statuses
  <2>3. ReplayIsFaithful' /\ ReplayAfterwards'
    BY <1>3, StatusIsNoRequest DEF ClaimFails, Answer, Goto, ResponseIsGenuine, AnswerWhenDone,
           ReplayIsFaithful, ReplayAfterwards, Statuses
  <2> QED
    BY <2>1, <2>2, <2>3
<1>4. ASSUME NEW p \in Requests, ResolveDuplicate(p) PROVE ReplayInv'
  <2>1. ResponseIsGenuine'
    BY <1>4 DEF ResolveDuplicate, Answer, Goto, ResponseIsGenuine, StoringSucceeded, Unstored, Statuses
  <2>2. StoringSucceeded' /\ AnswerWhenDone'
    BY <1>4 DEF ResolveDuplicate, Answer, Goto, StoringSucceeded, AnswerWhenDone, Statuses
  <2>3. ReplayIsFaithful' /\ ReplayAfterwards'
    BY <1>4, StatusIsNoRequest DEF ResolveDuplicate, Answer, Goto, ResponseIsGenuine, AnswerWhenDone,
           ReplayIsFaithful, ReplayAfterwards, Statuses
  <2> QED
    BY <2>1, <2>2, <2>3
<1>5. ASSUME NEW p \in Requests, Perform(p) PROVE ReplayInv'
  <2>1. ResponseIsGenuine'
    BY <1>5 DEF Perform, Goto, ResponseIsGenuine, StoringSucceeded, Unstored, Statuses
  <2>2. StoringSucceeded' /\ AnswerWhenDone'
    BY <1>5 DEF Perform, Goto, StoringSucceeded, AnswerWhenDone, Statuses
  <2>3. ReplayIsFaithful' /\ ReplayAfterwards'
    BY <1>5, StatusIsNoRequest DEF Perform, Goto, ResponseIsGenuine, AnswerWhenDone,
           ReplayIsFaithful, ReplayAfterwards, Statuses
  <2> QED
    BY <2>1, <2>2, <2>3
<1>6. ASSUME NEW p \in Requests, PerformFails(p) PROVE ReplayInv'
  <2>1. ResponseIsGenuine'
    BY <1>6 DEF PerformFails, Goto, ResponseIsGenuine, StoringSucceeded, Unstored, Statuses
  <2>2. StoringSucceeded' /\ AnswerWhenDone'
    BY <1>6 DEF PerformFails, Goto, StoringSucceeded, AnswerWhenDone, Statuses
  <2>3. ReplayIsFaithful' /\ ReplayAfterwards'
    BY <1>6, StatusIsNoRequest DEF PerformFails, Goto, ResponseIsGenuine, AnswerWhenDone,
           ReplayIsFaithful, ReplayAfterwards, Statuses
  <2> QED
    BY <2>1, <2>2, <2>3
<1>7. ASSUME NEW p \in Requests, StoreResponse(p) PROVE ReplayInv'
  <2>1. ResponseIsGenuine'
    <3>1. row[key[p]] = Unstored(body[p]) /\ key[p] \in Keys /\ answer[p] = "ok"
      BY <1>7 DEF StoreResponse, ClaimIsExclusive, Holds, StoringSucceeded
    <3>2. CASE row' = [row EXCEPT ![key[p]].response = p]
      <4>1. row'[key[p]] = [hash |-> body[p], response |-> p]
        BY <3>1, <3>2 DEF Unstored
      <4>2. \A k \in Keys \ {key[p]} : row'[k] = row[k]
        BY <3>2
      <4> QED
        BY <1>7, <3>1, <4>1, <4>2 DEF StoreResponse, Goto, ResponseIsGenuine
    <3>3. CASE UNCHANGED row
      BY <1>7, <3>3 DEF StoreResponse, Goto, ResponseIsGenuine
    <3> QED
      BY <1>7, <3>2, <3>3 DEF StoreResponse
  <2>2. StoringSucceeded' /\ AnswerWhenDone'
    BY <1>7 DEF StoreResponse, Goto, StoringSucceeded, AnswerWhenDone, Statuses
  <2>3. ReplayIsFaithful' /\ ReplayAfterwards'
    BY <1>7, StatusIsNoRequest DEF StoreResponse, Goto, ResponseIsGenuine, AnswerWhenDone,
           ReplayIsFaithful, ReplayAfterwards, Statuses
  <2> QED
    BY <2>1, <2>2, <2>3
<1>8. ASSUME NEW p \in Requests, ReleaseKey(p) PROVE ReplayInv'
  <2>1. ResponseIsGenuine'
    BY <1>8 DEF ReleaseKey, Goto, ResponseIsGenuine, StoringSucceeded, Unstored, Statuses
  <2>2. StoringSucceeded' /\ AnswerWhenDone'
    BY <1>8 DEF ReleaseKey, Goto, StoringSucceeded, AnswerWhenDone, Statuses
  <2>3. ReplayIsFaithful' /\ ReplayAfterwards'
    BY <1>8, StatusIsNoRequest DEF ReleaseKey, Goto, ResponseIsGenuine, AnswerWhenDone,
           ReplayIsFaithful, ReplayAfterwards, Statuses
  <2> QED
    BY <2>1, <2>2, <2>3
<1>9. ASSUME NEW p \in Requests, Cancel(p) PROVE ReplayInv'
  <2>1. ResponseIsGenuine'
    BY <1>9 DEF Cancel, ResponseIsGenuine, StoringSucceeded, Unstored, Statuses
  <2>2. StoringSucceeded' /\ AnswerWhenDone'
    BY <1>9 DEF Cancel, StoringSucceeded, AnswerWhenDone, Statuses
  <2>3. ReplayIsFaithful' /\ ReplayAfterwards'
    BY <1>9, StatusIsNoRequest DEF Cancel, ResponseIsGenuine, AnswerWhenDone,
           ReplayIsFaithful, ReplayAfterwards, Statuses
  <2> QED
    BY <2>1, <2>2, <2>3
<1>10. ASSUME NEW P \in SUBSET Requests, Abandon(P) PROVE ReplayInv'
  <2>1. ResponseIsGenuine'
    BY <1>10 DEF Abandon, InFlight, Holds, ResponseIsGenuine, StoringSucceeded, Unstored, Statuses
  <2>2. StoringSucceeded' /\ AnswerWhenDone'
    BY <1>10 DEF Abandon, InFlight, Holds, StoringSucceeded, AnswerWhenDone, Statuses
  <2>3. ReplayIsFaithful' /\ ReplayAfterwards'
    BY <1>10, StatusIsNoRequest DEF Abandon, InFlight, Holds, ResponseIsGenuine, AnswerWhenDone,
           ReplayIsFaithful, ReplayAfterwards, Statuses
  <2> QED
    BY <2>1, <2>2, <2>3
<1>11. ASSUME NEW k \in Keys, DeleteOlderThan(k) PROVE ReplayInv'
  <2>1. ResponseIsGenuine'
    BY <1>11 DEF DeleteOlderThan, InFlight, Holds, ResponseIsGenuine, StoringSucceeded, Unstored, Statuses
  <2>2. StoringSucceeded' /\ AnswerWhenDone'
    BY <1>11 DEF DeleteOlderThan, InFlight, Holds, StoringSucceeded, AnswerWhenDone, Statuses
  <2>3. ReplayIsFaithful' /\ ReplayAfterwards'
    BY <1>11, StatusIsNoRequest DEF DeleteOlderThan, InFlight, Holds, ResponseIsGenuine, AnswerWhenDone,
           ReplayIsFaithful, ReplayAfterwards, Statuses
  <2> QED
    BY <2>1, <2>2, <2>3
<1>12. CASE UNCHANGED vars
  BY <1>12 DEF vars, ResponseIsGenuine, StoringSucceeded, AnswerWhenDone,
                 ReplayIsFaithful, ReplayAfterwards
<1>13. ASSUME NEW p \in Requests, ResolveFails(p) PROVE ReplayInv'
  <2>1. ResponseIsGenuine'
    BY <1>13 DEF ResolveFails, Answer, Goto, ResponseIsGenuine, StoringSucceeded, Statuses
  <2>2. StoringSucceeded' /\ AnswerWhenDone'
    BY <1>13 DEF ResolveFails, Answer, Goto, StoringSucceeded, AnswerWhenDone, Statuses
  <2>3. ReplayIsFaithful' /\ ReplayAfterwards'
    BY <1>13, StatusIsNoRequest DEF ResolveFails, Answer, Goto, ResponseIsGenuine, AnswerWhenDone,
           ReplayIsFaithful, ReplayAfterwards, Statuses
  <2> QED
    BY <2>1, <2>2, <2>3
<1> QED
  BY <1>1, <1>2, <1>3, <1>4, <1>5, <1>6, <1>7, <1>8, <1>9, <1>10, <1>11, <1>12, <1>13
     DEF Next, Step, Crash, Panic

(* A request that is answered from the store gets the response to its own  *)
(* body under its own key, of an operation that succeeded: through lost    *)
(* replies, cancelled contexts, crashes and cleanups.                      *)
THEOREM ReplaysAreFaithful == Spec => []ReplayIsFaithful
<1>1. Init => ClaimInv /\ ReplayInv
  BY ClaimInitially, ReplayInitially
<1>2. ClaimInv /\ ReplayInv /\ [Next]_vars => (ClaimInv /\ ReplayInv)'
  BY ClaimStep, ReplayStep
<1>3. ReplayInv => ReplayIsFaithful
  BY DEF ReplayInv
<1> QED
  BY <1>1, <1>2, <1>3, PTL DEF Spec

(* A claim is exclusive: the row a request inserted stays its own until it *)
(* stores its response or releases the key.                                *)
THEOREM ClaimsExclude == Spec => []ClaimIsExclusive
<1>1. Spec => []ClaimInv
  BY ClaimInitially, ClaimStep, PTL DEF Spec
<1> QED
  BY <1>1, PTL DEF ClaimInv
============================================================================
