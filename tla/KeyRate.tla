------------------------------- MODULE KeyRate -------------------------------
(***************************************************************************)
(* RateService.getKeyRate: the cache of the key rate, the circuit breaker  *)
(* before the central bank (CBR), and the choice of the rate in its        *)
(* answer.  Cache and breaker have a mutex each; between two of their      *)
(* methods other requests run, and the answers come in any order.          *)
(*                                                                         *)
(* A rate is named by its number in the order of publication, which is     *)
(* also its date.                                                          *)
(***************************************************************************)
EXTENDS Clock, SequencesExt

CONSTANTS
    RateRequests,   \* requests that need the key rate
    CacheTTL,       \* CBR_CACHE_TTL_SECONDS
    FailureLimit,   \* CBR_BREAKER_FAILURE_LIMIT
    ResetTimeout,   \* CBR_BREAKER_RESET_TIMEOUT_SECONDS
    RateDeadline,   \* how long a request can run
    MaxRates        \* bound of the rates that are published

ASSUME RateAssumption ==
    /\ IsFiniteSet(RateRequests)
    /\ {CacheTTL, FailureLimit, ResetTimeout} \subseteq Nat
    /\ {RateDeadline, MaxRates} \subseteq Nat \ {0}

VARIABLES
    inForce,        \* the CBR: the rate published last
    superseded,     \* history: when the next one was published
    cached,         \* rate and fetchedAt; rate 0 is no value
    failures, openedAt,  \* the breaker; openedAt 0 is the zero time
    step,           \* where each request is
    since,          \* when it came in
    answer,         \* the rate the CBR has answered it
    callTimes       \* history: when the CBR was called since the last success

breakerVars == <<failures, openedAt, callTimes>>
requestVars == <<step, since, answer>>
rateVars == <<inForce, superseded, cached, breakerVars, requestVars>>

RateInit ==
    /\ inForce = 1
    /\ superseded = [n \in 1..MaxRates |-> 0]
    /\ cached = [rate |-> 0, fetchedAt |-> 0]
    /\ failures = 0
    /\ openedAt = 0
    /\ step = [r \in RateRequests |-> "idle"]
    /\ since = [r \in RateRequests |-> 0]
    /\ answer = [r \in RateRequests |-> 0]
    /\ callTimes = <<>>

----------------------------------------------------------------------------
(* parseXMLResponse over the KR elements of an answer.  An element holds a *)
(* rate (0 when it does not parse) and a date (0 when there is none).      *)
(* PreferLast forgets to compare the dates.                                *)
NoElement == [rate |-> 0, date |-> 0]

PreferLast(selected, element) ==
    IF element.rate = 0 THEN selected
    ELSE IF selected = NoElement \/ element.date # 0 THEN element ELSE selected

Prefer(selected, element) ==
    IF element.rate = 0 THEN selected
    ELSE IF selected = NoElement \/ element.date > selected.date THEN element ELSE selected

ParseXMLResponse(elements) == FoldLeft(Prefer, NoElement, elements).rate

(* The CBR answers the rates of the last days in any order; elements       *)
(* without a date, or without a number, may be among them.                 *)
Dated   == {[rate |-> n, date |-> n] : n \in 1..inForce}
Damaged == {[rate |-> n, date |-> 0] : n \in 0..inForce}
Answers == UNION {SetToSeqs(Dated \cup D) : D \in {{}} \cup {{d} : d \in Damaged}}

----------------------------------------------------------------------------
Go(r, to) == step' = [step EXCEPT ![r] = to]

Return(r) ==
    /\ Go(r, "idle")
    /\ since' = [since EXCEPT ![r] = 0]
    /\ answer' = [answer EXCEPT ![r] = 0]

(* What readCache finds is returned at once, and changes nothing.          *)
Fresh == CacheTTL > 0 /\ cached.rate # 0 /\ now <= cached.fetchedAt + CacheTTL

ReadCache(r) ==
    /\ step[r] = "idle"
    /\ ~Fresh
    /\ Go(r, "missed")
    /\ since' = [since EXCEPT ![r] = now]
    /\ UNCHANGED <<now, inForce, superseded, cached, breakerVars, answer>>

(* Once the timeout is over every request is let through, until one fails. *)
BreakerAllows ==
    \/ FailureLimit = 0 \/ ResetTimeout = 0
    \/ failures < FailureLimit
    \/ now >= openedAt + ResetTimeout

AllowRequest(r) ==
    /\ step[r] = "missed"
    /\ \/ /\ BreakerAllows
          /\ Go(r, "calling")
          /\ callTimes' = Append(callTimes, now)
       \/ /\ ~BreakerAllows
          /\ Go(r, "stale")
          /\ UNCHANGED callTimes
    /\ UNCHANGED <<now, inForce, superseded, cached, failures, openedAt, since, answer>>

(* The CBR takes the rates for its answer, or there will be none.          *)
Answer(r) ==
    /\ step[r] = "calling"
    /\ \/ /\ \E rate \in {ParseXMLResponse(elements) : elements \in Answers} :
                answer' = [answer EXCEPT ![r] = rate]
          /\ Go(r, "answered")
       \/ /\ Go(r, "failed")
          /\ UNCHANGED answer
    /\ UNCHANGED <<now, inForce, superseded, cached, breakerVars, since>>

(* ReopenOnce dates the opening only when the limit is reached.            *)
ReopenOnce(r) ==
    /\ step[r] = "failed"
    /\ failures' = IF FailureLimit = 0 THEN failures ELSE failures + 1
    /\ openedAt' = IF FailureLimit > 0 /\ failures' = FailureLimit THEN now ELSE openedAt
    /\ Go(r, "stale")
    /\ UNCHANGED <<now, inForce, superseded, cached, callTimes, since, answer>>

RecordFailure(r) ==
    /\ step[r] = "failed"
    /\ failures' = IF FailureLimit = 0 THEN failures ELSE failures + 1
    /\ openedAt' = IF FailureLimit > 0 /\ failures' >= FailureLimit THEN now ELSE openedAt
    /\ Go(r, "stale")
    /\ UNCHANGED <<now, inForce, superseded, cached, callTimes, since, answer>>

RecordSuccess(r) ==
    /\ step[r] = "answered"
    /\ failures' = 0
    /\ openedAt' = 0
    /\ callTimes' = <<>>
    /\ Go(r, "write")
    /\ UNCHANGED <<now, inForce, superseded, cached, since, answer>>

WriteCache(r) ==
    /\ step[r] = "write"
    /\ cached' = IF CacheTTL = 0 THEN cached
                 ELSE [rate |-> answer[r], fetchedAt |-> now]
    /\ Return(r)
    /\ UNCHANGED <<now, inForce, superseded, breakerVars>>

(* The value of any age, or the error when there is none.                  *)
ReadStaleCache(r) ==
    /\ step[r] = "stale"
    /\ Return(r)
    /\ UNCHANGED <<now, inForce, superseded, cached, breakerVars>>

Publish ==
    /\ inForce < MaxRates
    /\ superseded' = [superseded EXCEPT ![inForce] = now]
    /\ inForce' = inForce + 1
    /\ UNCHANGED <<now, cached, breakerVars, requestVars>>

RateRestart ==
    /\ cached' = [rate |-> 0, fetchedAt |-> 0]
    /\ failures' = 0
    /\ openedAt' = 0
    /\ step' = [r \in RateRequests |-> "idle"]
    /\ since' = [r \in RateRequests |-> 0]
    /\ answer' = [r \in RateRequests |-> 0]
    /\ callTimes' = <<>>
    /\ UNCHANGED <<now, inForce, superseded>>

(* No request outlives its deadline.                                       *)
RateTick ==
    /\ Advance
    /\ \A r \in RateRequests : step[r] # "idle" => now < since[r] + RateDeadline
    /\ UNCHANGED rateVars

RateNext ==
    \/ \E r \in RateRequests :
          \/ ReadCache(r) \/ AllowRequest(r) \/ Answer(r)
          \/ RecordFailure(r) \/ RecordSuccess(r)
          \/ WriteCache(r) \/ ReadStaleCache(r)
    \/ Publish
    \/ RateRestart
    \/ RateTick

RateSpec == now = 0 /\ RateInit /\ [][RateNext]_<<now, rateVars>>

----------------------------------------------------------------------------
(* Properties *)

RateTypeOK ==
    /\ inForce \in 1..MaxRates
    /\ superseded \in [1..MaxRates -> Nat]
    /\ cached \in [rate : 0..MaxRates, fetchedAt : Nat]
    /\ failures \in Nat /\ openedAt \in Nat
    /\ step \in [RateRequests -> {"idle", "missed", "calling", "answered",
                                  "failed", "write", "stale"}]
    /\ since \in [RateRequests -> Nat]
    /\ answer \in [RateRequests -> 0..MaxRates]
    /\ callTimes \in Seq(Nat)

(* A rate that is given out as fresh was in force at the CBR no longer ago *)
(* than the TTL and the deadline of a request, though a slow answer may    *)
(* overwrite a newer rate and is dated as if it had just been fetched.     *)
FreshRateIsRecent ==
    Fresh /\ cached.rate < inForce
        => now <= superseded[cached.rate] + CacheTTL + RateDeadline

(* While the CBR gives no answer, no stretch of ResetTimeout sees more     *)
(* calls than open the breaker and were under way: the herd that passes    *)
(* when the timeout is over does not come back before the next one.        *)
CallsAreSpared ==
    LET herd == FailureLimit - 1 + Cardinality(RateRequests) IN
    FailureLimit > 0 =>
        \A i \in 1..Len(callTimes) : i + herd <= Len(callTimes)
            => callTimes[i] + ResetTimeout <= callTimes[i + herd]
=============================================================================
