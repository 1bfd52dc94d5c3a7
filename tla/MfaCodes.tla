------------------------------ MODULE MfaCodes ------------------------------
(* The MFA codes of one operation of one user: MFAService.RequestCode and  *)
(* verifyCode with the cooldown between codes, the limit on wrong codes,   *)
(* and the rows of mfa_codes.  Operations share neither rows nor keys of   *)
(* the limiters.  A code is named after the request that asked for it; an  *)
(* attempt carries the code it will be compared with, or a wrong one.      *)
EXTENDS Integers, FiniteSets

CONSTANTS
    Requests,    \* requests for a code
    Attempts,    \* handlers that verify codes, one after the other
    NoCode,
    MaxFailures, Lockout,  \* MFA_MAX_FAILED_ATTEMPTS, MFA_LOCKOUT_SECONDS
    Cooldown,    \* MFA_REQUEST_COOLDOWN_SECONDS
    Lifetime,    \* mfaCodeLifetime
    Deadline,    \* how long a request can run
    MaxTime      \* bound of the clock

(* 5 failures, 10 minutes, 1 minute, 5 minutes and 20 seconds by default.  *)
ASSUME MfaAssumption ==
    /\ IsFiniteSet(Attempts)
    /\ NoCode \notin Requests /\ Requests \cap Attempts = {}
    /\ {MaxFailures, Deadline, Lifetime} \subseteq Nat \ {0}
    /\ Cooldown \in Nat /\ Cooldown > Deadline
    /\ Lockout \in Nat /\ Lockout >= Lifetime + Deadline
    /\ MaxTime \in Nat

VARIABLES
    now,
    status,   \* the row of each code
    created,  \* when its transaction began; it expires Lifetime later
    allowed,  \* cooldownLimiter: when the next code may be requested
    failures, lockedTil,  \* attemptLimiter: 0 is no entry, the zero time
    pc,       \* where each request and attempt is
    began,    \* when each that is in flight came in
    pending,  \* the rows a request has updated and locks until it commits
    found,    \* the code an attempt has read
    right,    \* whether the code it was sent is that one
    wrong     \* history: wrong guesses at each code since the process started
              \*   or an attempt was right

codeVars == <<status, created, pending>>
limiterVars == <<allowed, failures, lockedTil, wrong>>
attemptVars == <<found, right>>
vars == <<now, codeVars, limiterVars, attemptVars, pc, began>>

Clients == Requests \cup Attempts
InFlight(p) == pc[p] \notin {"idle", "over"}

(* used_at IS NULL AND expires_at > NOW() *)
Active(c) == status[c] = "active" /\ now < created[c] + Lifetime
Locked(c) == \E r \in Requests : c \in pending[r]

Init ==
    /\ now = 0
    /\ status = [c \in Requests |-> "absent"]
    /\ created = [c \in Requests |-> 0]
    /\ allowed = 0
    /\ failures = 0
    /\ lockedTil = 0
    /\ pc = [p \in Clients |-> "idle"]
    /\ began = [p \in Clients |-> 0]
    /\ pending = [r \in Requests |-> {}]
    /\ found = [a \in Attempts |-> NoCode]
    /\ right = [a \in Attempts |-> FALSE]
    /\ wrong = [c \in Requests |-> 0]

----------------------------------------------------------------------------
(* RequestCode *)

(* The cooldown starts before anything can fail.  AllowOften forgets it.   *)
AllowOften(r) ==
    /\ pc[r] = "idle"
    /\ allowed' = now + Cooldown
    /\ pc' = [pc EXCEPT ![r] = "allowed"]
    /\ began' = [began EXCEPT ![r] = now]
    /\ UNCHANGED <<now, codeVars, attemptVars, failures, lockedTil, wrong>>

Allow(r) ==
    /\ pc[r] = "idle"
    /\ now >= allowed
    /\ allowed' = now + Cooldown
    /\ pc' = [pc EXCEPT ![r] = "allowed"]
    /\ began' = [began EXCEPT ![r] = now]
    /\ UNCHANGED <<now, codeVars, attemptVars, failures, lockedTil, wrong>>

(* UPDATE mfa_codes SET used_at ... for the active codes of the operation, *)
(* waiting for each row; both timestamps of the new one are taken here.    *)
Invalidate(r) ==
    /\ pc[r] = "allowed"
    /\ \A c \in Requests : Active(c) => ~Locked(c)
    /\ pending' = [pending EXCEPT ![r] = {c \in Requests : Active(c)}]
    /\ created' = [created EXCEPT ![r] = now]
    /\ pc' = [pc EXCEPT ![r] = "saving"]
    /\ UNCHANGED <<now, status, limiterVars, attemptVars, began>>

(* A request for a code is over; its locks are released.                   *)
End(r) ==
    /\ pending' = [pending EXCEPT ![r] = {}]
    /\ pc' = [pc EXCEPT ![r] = "over"]
    /\ began' = [began EXCEPT ![r] = 0]

(* The INSERT and the commit.  SaveBeside forgets the UPDATE.              *)
SaveBeside(r) ==
    /\ pc[r] = "saving"
    /\ status' = [status EXCEPT ![r] = "active"]
    /\ End(r)
    /\ UNCHANGED <<now, created, limiterVars, attemptVars>>

Save(r) ==
    /\ pc[r] = "saving"
    /\ status' = [c \in Requests |-> IF c = r THEN "active"
                                     ELSE IF c \in pending[r] THEN "used"
                                     ELSE status[c]]
    /\ End(r)
    /\ UNCHANGED <<now, created, limiterVars, attemptVars>>

----------------------------------------------------------------------------
(* verifyCode and what follows it *)

(* ORDER BY created_at DESC LIMIT 1; without a code the attempt is over.   *)
FindActiveCode(a, c) ==
    /\ pc[a] = "idle"
    /\ Active(c)
    /\ \A d \in Requests : Active(d) => created[d] <= created[c]
    /\ found' = [found EXCEPT ![a] = c]
    /\ \E guess \in BOOLEAN : right' = [right EXCEPT ![a] = guess]
    /\ pc' = [pc EXCEPT ![a] = "found"]
    /\ began' = [began EXCEPT ![a] = now]
    /\ UNCHANGED <<now, codeVars, limiterVars>>

(* An attempt is over, whatever came of it.                                *)
Over(a) ==
    /\ pc' = [pc EXCEPT ![a] = "idle"]
    /\ found' = [found EXCEPT ![a] = NoCode]
    /\ right' = [right EXCEPT ![a] = FALSE]
    /\ began' = [began EXCEPT ![a] = 0]

(* isLocked deletes an entry whose lockout has passed.                     *)
IsLocked(a) ==
    /\ pc[a] = "found"
    /\ \/ /\ lockedTil # 0 /\ now <= lockedTil
          /\ Over(a)
          /\ UNCHANGED <<failures, lockedTil>>
       \/ /\ lockedTil # 0 /\ now > lockedTil
          /\ failures' = 0
          /\ lockedTil' = 0
          /\ pc' = [pc EXCEPT ![a] = "check"]
          /\ UNCHANGED <<attemptVars, began>>
       \/ /\ lockedTil = 0
          /\ pc' = [pc EXCEPT ![a] = "check"]
          /\ UNCHANGED <<failures, lockedTil, attemptVars, began>>
    /\ UNCHANGED <<now, codeVars, allowed, wrong>>

(* The code is the right one, and reset deletes the entry.                 *)
Accept(a) ==
    /\ pc[a] = "check"
    /\ right[a]
    /\ failures' = 0
    /\ lockedTil' = 0
    /\ wrong' = [c \in Requests |-> 0]
    /\ pc' = [pc EXCEPT ![a] = "verified"]
    /\ UNCHANGED <<now, codeVars, allowed, attemptVars, began>>

(* recordFailure; RecordLate starts the lockout a failure too late.       *)
RecordLate(a) ==
    /\ pc[a] = "check"
    /\ ~right[a]
    /\ failures' = failures + 1
    /\ lockedTil' = IF failures' > MaxFailures THEN now + Lockout ELSE lockedTil
    /\ wrong' = [wrong EXCEPT ![found[a]] = @ + 1]
    /\ Over(a)
    /\ UNCHANGED <<now, codeVars, allowed>>

RecordFailure(a) ==
    /\ pc[a] = "check"
    /\ ~right[a]
    /\ failures' = failures + 1
    /\ lockedTil' = IF failures' >= MaxFailures THEN now + Lockout ELSE lockedTil
    /\ wrong' = [wrong EXCEPT ![found[a]] = @ + 1]
    /\ Over(a)
    /\ UNCHANGED <<now, codeVars, allowed>>

(* MarkUsed lets the operation through when it updates the row, alone or   *)
(* with the operation's transaction.                                       *)
MarkUsed(a) ==
    /\ pc[a] = "verified"
    /\ ~Locked(found[a])
    /\ status' = IF Active(found[a])
                 THEN [status EXCEPT ![found[a]] = "used"] ELSE status
    /\ Over(a)
    /\ UNCHANGED <<now, created, pending, limiterVars>>

----------------------------------------------------------------------------
(* A statement or mail fails, the deadline passes, or the operation is     *)
(* refused before it marks the code.                                       *)
Fail(p) ==
    /\ InFlight(p)
    /\ \/ /\ p \in Attempts
          /\ Over(p)
          /\ UNCHANGED <<created, pending>>
       \/ /\ p \in Requests
          /\ End(p)
          /\ created' = [created EXCEPT ![p] = 0]
          /\ UNCHANGED attemptVars
    /\ UNCHANGED <<now, status, limiterVars>>

(* The cleanup deletes used and expired codes.                             *)
DeleteExpired(c) ==
    /\ status[c] \in {"active", "used"} /\ ~Active(c) /\ ~Locked(c)
    /\ status' = [status EXCEPT ![c] = "deleted"]
    /\ UNCHANGED <<now, created, pending, limiterVars, attemptVars, pc, began>>

(* The limiters are in memory.                                             *)
Restart ==
    /\ allowed' = 0 /\ failures' = 0 /\ lockedTil' = 0
    /\ wrong' = [c \in Requests |-> 0]
    /\ pc' = [p \in Clients |-> IF p \in Requests /\ InFlight(p) THEN "over"
                                ELSE IF p \in Attempts THEN "idle" ELSE pc[p]]
    /\ pending' = [r \in Requests |-> {}]
    /\ found' = [a \in Attempts |-> NoCode]
    /\ right' = [a \in Attempts |-> FALSE]
    /\ began' = [p \in Clients |-> 0]
    /\ created' = [c \in Requests |-> IF InFlight(c) THEN 0 ELSE created[c]]
    /\ UNCHANGED <<now, status>>

(* No request outlives its deadline.                                       *)
Tick ==
    /\ now < MaxTime
    /\ \A p \in Clients : InFlight(p) => now < began[p] + Deadline
    /\ now' = now + 1
    /\ UNCHANGED <<codeVars, limiterVars, attemptVars, pc, began>>

Next ==
    \/ \E r \in Requests : Allow(r) \/ Invalidate(r) \/ Save(r)
    \/ \E a \in Attempts :
          \/ \E c \in Requests : FindActiveCode(a, c)
          \/ IsLocked(a) \/ Accept(a) \/ RecordFailure(a) \/ MarkUsed(a)
    \/ \E p \in Clients : Fail(p)
    \/ \E c \in Requests : DeleteExpired(c)
    \/ Restart
    \/ Tick

Spec == Init /\ [][Next]_vars

----------------------------------------------------------------------------
(* Properties *)

TypeOK ==
    /\ now \in Nat
    /\ status \in [Requests -> {"absent", "active", "used", "deleted"}]
    /\ created \in [Requests -> Nat]
    /\ allowed \in Nat /\ failures \in Nat /\ lockedTil \in Nat
    /\ pc \in [Clients -> {"idle", "allowed", "saving", "over",
                           "found", "check", "verified"}]
    /\ began \in [Clients -> Nat]
    /\ pending \in [Requests -> SUBSET Requests]
    /\ found \in [Attempts -> Requests \cup {NoCode}]
    /\ right \in [Attempts -> BOOLEAN]
    /\ wrong \in [Requests -> Nat]

(* However requests for a code interleave with one another, fail or meet a *)
(* restart, one code at most can be used for the operation: a code that    *)
(* was asked for anew is not left valid beside its successor.  SaveCode    *)
(* alone does not see to that; the cooldown, which outlasts every request, *)
(* does.                                                                   *)
OneActiveCode ==
    \A c, d \in Requests : Active(c) /\ Active(d) => c = d

(* A code can be guessed at MaxFailures times, and once more for each      *)
(* attempt that isLocked let through beside the one that reached the       *)
(* limit.  Neither waiting for the lockout to end nor asking for new codes *)
(* gives more guesses at the same code.                                    *)
GuessesLimited ==
    \A c \in Requests : wrong[c] < MaxFailures + Cardinality(Attempts)

(* An attempt that verified a code and was overtaken by a request for a    *)
(* new one cannot spend it: what is marked used by an operation is the     *)
(* newest code there is.                                                   *)
Authorises(a, c) == pc[a] = "verified" /\ found[a] = c /\ status'[c] # status[c]

NewestAuthorises ==
    [][\A a \in Attempts, c, d \in Requests :
          Authorises(a, c) /\ MarkUsed(a) /\ status[d] \notin {"absent", "deleted"}
             => created[d] <= created[c]]_vars
============================================================================
