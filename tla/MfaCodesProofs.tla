--------------------------- MODULE MfaCodesProofs ---------------------------
(* Proofs about MfaCodes.  Two arguments are independent of each other.    *)
(* That one code is active rests on the cooldown: it outlasts the deadline,*)
(* so that two requests for a code are never in flight together.  That     *)
(* guesses are limited rests on a budget for each code, spent by the wrong *)
(* guesses at it and the attempts that may still make one; while the limit *)
(* is not reached failures bounds the guesses, and once it is, the lockout *)
(* outlasts every code there was.                                          *)
EXTENDS MfaCodes, FiniteSetTheorems, TLAPS

Holding(a) == pc[a] \in {"found", "check", "verified"}
Saved(c) == status[c] \notin {"absent", "deleted"}

(* Where each client can be, and how long it has been there.               *)
Places ==
    /\ \A r \in Requests : pc[r] \in {"idle", "allowed", "saving", "over"}
    /\ \A a \in Attempts : pc[a] \in {"idle", "found", "check", "verified"}
    /\ \A p \in Clients : InFlight(p) => began[p] <= now /\ now <= began[p] + Deadline
    /\ \A c \in Requests : created[c] <= now
    /\ \A c \in Requests : status[c] # "absent" => pc[c] = "over"
    /\ \A r, c \in Requests : c \in pending[r] => pc[c] = "over"

----------------------------------------------------------------------------
(* One request for a code at a time *)

Alone ==
    /\ \A r \in Requests : InFlight(r) => allowed >= began[r] + Cooldown
    /\ \A r, s \in Requests : InFlight(r) /\ InFlight(s) => r = s

(* The active code is the newest, and a request that is about to save its  *)
(* own has it among the rows it will mark.                                 *)
Newest ==
    /\ \A c, d \in Requests : Active(c) /\ Active(d) => c = d
    /\ \A c, d \in Requests : Active(c) /\ Saved(d) => created[d] <= created[c]
    /\ \A r, c \in Requests :
          pc[r] = "saving" => /\ Active(c) => c \in pending[r]
                              /\ Saved(c) \/ c \in pending[r]
                                    => created[c] <= created[r]

----------------------------------------------------------------------------
(* The budget of guesses *)

Held ==
    \A a \in Attempts :
        Holding(a) => /\ found[a] \in Requests
                      /\ pc[found[a]] = "over"
                      /\ created[found[a]] + Lifetime > began[a]

Counted ==
    /\ \A c \in Requests : pc[c] # "over" => wrong[c] = 0
    /\ lockedTil = 0 => failures < MaxFailures
    /\ lockedTil # 0 => failures >= MaxFailures
    /\ \A c \in Requests :
          \/ wrong[c] = 0
          \/ lockedTil = 0 /\ wrong[c] <= failures
          \/ lockedTil = 0 /\ now >= created[c] + Lifetime + Deadline
          \/ lockedTil # 0 /\ lockedTil >= created[c] + Lifetime + Deadline

Guessing(c) == {a \in Attempts : pc[a] = "check" /\ found[a] = c}

Budget ==
    \A c \in Requests :
        wrong[c] + Cardinality(Guessing(c)) < MaxFailures + Cardinality(Attempts)

----------------------------------------------------------------------------
(* Type correctness *)

LEMMA TypeInit == Init => TypeOK
BY DEF Init, TypeOK

(* Every action keeps the variables in their domains.                      *)
LEMMA TypeStep == TypeOK /\ [Next]_vars => TypeOK'
<1> USE MfaAssumption
<1> SUFFICES ASSUME TypeOK, [Next]_vars PROVE TypeOK'
    OBVIOUS
<1>1. ASSUME NEW r \in Requests, Allow(r) PROVE TypeOK'
    BY <1>1 DEF TypeOK, Allow, codeVars, attemptVars, Clients
<1>2. ASSUME NEW r \in Requests, Invalidate(r) PROVE TypeOK'
    BY <1>2 DEF TypeOK, Invalidate, limiterVars, attemptVars, Clients
<1>3. ASSUME NEW r \in Requests, Save(r) PROVE TypeOK'
    BY <1>3 DEF TypeOK, Save, End, limiterVars, attemptVars, Clients
<1>4. ASSUME NEW a \in Attempts, NEW c \in Requests, FindActiveCode(a, c)
      PROVE TypeOK'
    BY <1>4 DEF TypeOK, FindActiveCode, codeVars, limiterVars, Clients
<1>5. ASSUME NEW a \in Attempts, IsLocked(a) PROVE TypeOK'
  <2>1. a \in Clients
    BY DEF Clients
  <2>2. pc' = [pc EXCEPT ![a] = "check"] \/ Over(a)
    BY <1>5 DEF IsLocked
  <2>3. CASE Over(a)
    BY <1>5, <2>1, <2>3 DEF TypeOK, IsLocked, Over, codeVars
  <2>4. CASE pc' = [pc EXCEPT ![a] = "check"] /\ UNCHANGED <<attemptVars, began>>
    BY <1>5, <2>1, <2>4 DEF TypeOK, IsLocked, codeVars, attemptVars
  <2> QED
    BY <1>5, <2>2, <2>3, <2>4 DEF IsLocked
<1>6. ASSUME NEW a \in Attempts, Accept(a) PROVE TypeOK'
    BY <1>6 DEF TypeOK, Accept, codeVars, attemptVars, Clients
<1>7. ASSUME NEW a \in Attempts, RecordFailure(a) PROVE TypeOK'
  <2>1. a \in Clients
    BY DEF Clients
  <2>2. failures' \in Nat
    BY <1>7 DEF TypeOK, RecordFailure
  <2>3. lockedTil' \in Nat
    BY <1>7, <2>2 DEF TypeOK, RecordFailure
  <2>4. wrong' \in [Requests -> Nat]
    <3>1. wrong \in [Requests -> Nat]
      BY DEF TypeOK
    <3>2. wrong' = [c \in Requests |-> IF c = found[a] THEN wrong[c] + 1 ELSE wrong[c]]
      BY <1>7, <3>1 DEF RecordFailure
    <3> QED
      BY <3>1, <3>2
  <2> QED
    BY <1>7, <2>1, <2>2, <2>3, <2>4 DEF TypeOK, RecordFailure, Over, codeVars
<1>8. ASSUME NEW a \in Attempts, MarkUsed(a) PROVE TypeOK'
    BY <1>8 DEF TypeOK, MarkUsed, Over, limiterVars, Clients
<1>9. ASSUME NEW p \in Clients, Fail(p) PROVE TypeOK'
  <2>1. CASE p \in Attempts /\ Over(p) /\ UNCHANGED <<created, pending>>
    BY <1>9, <2>1 DEF TypeOK, Fail, Over, limiterVars, Clients
  <2>2. CASE p \in Requests /\ End(p) /\ UNCHANGED attemptVars
    BY <1>9, <2>2 DEF TypeOK, Fail, End, limiterVars, attemptVars, Clients
  <2> QED
    BY <1>9, <2>1, <2>2 DEF Fail
<1>10. ASSUME NEW c \in Requests, DeleteExpired(c) PROVE TypeOK'
    BY <1>10 DEF TypeOK, DeleteExpired, limiterVars, attemptVars
<1>11. CASE Restart
    BY <1>11 DEF TypeOK, Restart, Clients
<1>12. CASE Tick
    BY <1>12 DEF TypeOK, Tick, codeVars, limiterVars, attemptVars
<1>13. CASE UNCHANGED vars
    BY <1>13 DEF TypeOK, vars, codeVars, limiterVars, attemptVars
<1> QED
    BY <1>1, <1>2, <1>3, <1>4, <1>5, <1>6, <1>7, <1>8, <1>9, <1>10, <1>11,
       <1>12, <1>13 DEF Next

(* Every variable of the limits on MFA codes keeps its type.               *)
THEOREM TypeCorrect == Spec => []TypeOK
BY TypeInit, TypeStep, PTL DEF Spec

----------------------------------------------------------------------------
(* Places and times *)

(* A client that stays in its place is as old as before, and no action but *)
(* Tick moves the clock.                                                   *)
LEMMA PlacesStep == TypeOK /\ Places /\ [Next]_vars => Places'
<1> USE MfaAssumption
<1> SUFFICES ASSUME TypeOK, Places, [Next]_vars PROVE Places'
    OBVIOUS
<1>0. /\ DOMAIN pc = Clients /\ began \in [Clients -> Nat] /\ now \in Nat
      /\ created \in [Requests -> Nat] /\ DOMAIN status = Requests
      /\ DOMAIN pending = Requests
    BY DEF TypeOK
<1>1. ASSUME NEW r \in Requests, Allow(r) PROVE Places'
    BY <1>0, <1>1 DEF Places, Allow, Clients, codeVars, InFlight
<1>2. ASSUME NEW r \in Requests, Invalidate(r) PROVE Places'
    BY <1>0, <1>2 DEF Places, Invalidate, Clients, InFlight, Active
<1>3. ASSUME NEW r \in Requests, Save(r) PROVE Places'
    BY <1>0, <1>3 DEF Places, Save, End, Clients, InFlight, Active
<1>4. ASSUME NEW a \in Attempts, NEW c \in Requests, FindActiveCode(a, c)
      PROVE Places'
    BY <1>0, <1>4 DEF Places, FindActiveCode, Clients, codeVars, InFlight
<1>5. ASSUME NEW a \in Attempts, IsLocked(a) PROVE Places'
    BY <1>0, <1>5 DEF Places, IsLocked, Over, Clients, codeVars, InFlight
<1>6. ASSUME NEW a \in Attempts, Accept(a) PROVE Places'
    BY <1>0, <1>6 DEF Places, Accept, Clients, codeVars, InFlight
<1>7. ASSUME NEW a \in Attempts, RecordFailure(a) PROVE Places'
    BY <1>0, <1>7 DEF Places, RecordFailure, Over, Clients, codeVars, InFlight
<1>8. ASSUME NEW a \in Attempts, MarkUsed(a) PROVE Places'
    BY <1>0, <1>8 DEF Places, MarkUsed, Over, Clients, InFlight, Active
<1>9. ASSUME NEW p \in Clients, Fail(p) PROVE Places'
    BY <1>0, <1>9 DEF Places, Fail, Over, End, Clients, InFlight
<1>10. ASSUME NEW c \in Requests, DeleteExpired(c) PROVE Places'
    BY <1>0, <1>10 DEF Places, DeleteExpired, Clients, InFlight
<1>11. CASE Restart
    BY <1>0, <1>11 DEF Places, Restart, Clients, InFlight
<1>12. CASE Tick
    BY <1>0, <1>12 DEF Places, Tick, Clients, codeVars, InFlight
<1>13. CASE UNCHANGED vars
    BY <1>13 DEF Places, vars, codeVars, InFlight
<1> QED
    BY <1>1, <1>2, <1>3, <1>4, <1>5, <1>6, <1>7, <1>8, <1>9, <1>10, <1>11,
       <1>12, <1>13 DEF Next

----------------------------------------------------------------------------
(* One request for a code at a time *)

(* Allow lets a request in only when every earlier one is past its         *)
(* deadline.                                                               *)
LEMMA AloneStep == TypeOK /\ Places /\ Alone /\ [Next]_vars => Alone'
<1> USE MfaAssumption
<1> SUFFICES ASSUME TypeOK, Places, Alone, [Next]_vars PROVE Alone'
    OBVIOUS
<1>0. /\ DOMAIN pc = Clients /\ began \in [Clients -> Nat] /\ now \in Nat
      /\ allowed \in Nat
      /\ \A r \in Requests : InFlight(r) => now <= began[r] + Deadline
    BY DEF TypeOK, Places, Clients
<1>1. ASSUME NEW r \in Requests, Allow(r) PROVE Alone'
    BY <1>0, <1>1 DEF Allow, codeVars, attemptVars, Alone, Clients, InFlight
<1>2. ASSUME NEW r \in Requests, Invalidate(r) PROVE Alone'
    BY <1>0, <1>2
       DEF Invalidate, limiterVars, attemptVars, Alone, Clients, InFlight
<1>3. ASSUME NEW r \in Requests, Save(r) PROVE Alone'
    BY <1>0, <1>3
       DEF Save, End, limiterVars, attemptVars, Alone, Clients, InFlight
<1>4. ASSUME NEW a \in Attempts, NEW c \in Requests, FindActiveCode(a, c)
      PROVE Alone'
    BY <1>0, <1>4
       DEF FindActiveCode, codeVars, limiterVars, Alone, Clients, InFlight
<1>5. ASSUME NEW a \in Attempts, IsLocked(a) PROVE Alone'
    BY <1>0, <1>5
       DEF IsLocked, Over, codeVars, attemptVars, Alone, Clients, InFlight
<1>6. ASSUME NEW a \in Attempts, Accept(a) PROVE Alone'
    BY <1>0, <1>6 DEF Accept, codeVars, attemptVars, Alone, Clients, InFlight
<1>7. ASSUME NEW a \in Attempts, RecordFailure(a) PROVE Alone'
    BY <1>0, <1>7 DEF RecordFailure, Over, codeVars, Alone, Clients, InFlight
<1>8. ASSUME NEW a \in Attempts, MarkUsed(a) PROVE Alone'
    BY <1>0, <1>8 DEF MarkUsed, Over, limiterVars, Alone, Clients, InFlight
<1>9. ASSUME NEW p \in Clients, Fail(p) PROVE Alone'
    BY <1>0, <1>9
       DEF Fail, Over, End, limiterVars, attemptVars, Alone, Clients, InFlight
<1>10. ASSUME NEW c \in Requests, DeleteExpired(c) PROVE Alone'
    BY <1>0, <1>10
       DEF DeleteExpired, limiterVars, attemptVars, Alone, Clients, InFlight
<1>11. CASE Restart
    BY <1>0, <1>11 DEF Restart, Alone, Clients, InFlight
<1>12. CASE Tick
    BY <1>0, <1>12
       DEF Tick, codeVars, limiterVars, attemptVars, Alone, Clients, InFlight
<1>13. CASE UNCHANGED vars
    BY <1>0, <1>13
       DEF vars, codeVars, limiterVars, attemptVars, Alone, Clients, InFlight
<1> QED
    BY <1>1, <1>2, <1>3, <1>4, <1>5, <1>6, <1>7, <1>8, <1>9, <1>10, <1>11,
       <1>12, <1>13 DEF Next

(* A request that saves its code marks all others that are active.         *)
LEMMA NewestStep ==
    TypeOK /\ Places /\ Alone /\ Newest /\ [Next]_vars => Newest'
<1> USE MfaAssumption
<1> SUFFICES ASSUME TypeOK, Places, Alone, Newest, [Next]_vars PROVE Newest'
    OBVIOUS
<1>0. /\ DOMAIN pc = Clients /\ now \in Nat /\ created \in [Requests -> Nat]
      /\ DOMAIN status = Requests /\ DOMAIN pending = Requests
      /\ \A c \in Requests : created[c] <= now
      /\ \A c \in Requests : status[c] # "absent" => pc[c] = "over"
      /\ \A r, c \in Requests : c \in pending[r] => pc[c] = "over"
    BY DEF TypeOK, Places
<1>a. \A r, s \in Requests : pc[r] = "saving" /\ pc[s] = "saving" => r = s
    BY DEF Alone, InFlight
<1>1. ASSUME NEW r \in Requests, Allow(r) PROVE Newest'
    BY <1>0, <1>1
       DEF Allow, codeVars, attemptVars, Newest, Active, Saved, Clients, InFlight
<1>2. ASSUME NEW r \in Requests, Invalidate(r) PROVE Newest'
    BY <1>0, <1>a, <1>2
       DEF Invalidate, limiterVars, attemptVars, Newest, Active, Saved, Clients, InFlight
<1>3. ASSUME NEW r \in Requests, Save(r) PROVE Newest'
  <2>1. \A c \in Requests : Active(c)' => c = r
    BY <1>0, <1>3 DEF Save, Newest, Active
  <2>2. \A d \in Requests : Saved(d)' => created[d] <= created[r]
    BY <1>0, <1>3 DEF Save, Newest, Saved
  <2>3. \A s \in Requests : pc'[s] # "saving"
    BY <1>0, <1>a, <1>3 DEF Save, End, Clients
  <2> QED
    BY <1>3, <2>1, <2>2, <2>3 DEF Save, Newest
<1>4. ASSUME NEW a \in Attempts, NEW c \in Requests, FindActiveCode(a, c)
      PROVE Newest'
    BY <1>0, <1>4
       DEF FindActiveCode, codeVars, limiterVars, Newest, Active, Saved, Clients, InFlight
<1>5. ASSUME NEW a \in Attempts, IsLocked(a) PROVE Newest'
    BY <1>0, <1>5
       DEF IsLocked, Over, codeVars, attemptVars, Newest, Active, Saved, Clients, InFlight
<1>6. ASSUME NEW a \in Attempts, Accept(a) PROVE Newest'
    BY <1>0, <1>6
       DEF Accept, codeVars, attemptVars, Newest, Active, Saved, Clients, InFlight
<1>7. ASSUME NEW a \in Attempts, RecordFailure(a) PROVE Newest'
    BY <1>0, <1>7
       DEF RecordFailure, Over, codeVars, Newest, Active, Saved, Clients, InFlight
<1>8. ASSUME NEW a \in Attempts, MarkUsed(a) PROVE Newest'
    BY <1>0, <1>8
       DEF MarkUsed, Over, limiterVars, Newest, Active, Saved, Clients, InFlight
<1>9. ASSUME NEW p \in Clients, Fail(p) PROVE Newest'
    BY <1>0, <1>9
       DEF Fail, Over, End, limiterVars, attemptVars, Newest, Active, Saved, Clients, InFlight
<1>10. ASSUME NEW c \in Requests, DeleteExpired(c) PROVE Newest'
    BY <1>0, <1>10
       DEF DeleteExpired, limiterVars, attemptVars, Newest, Active, Saved, Clients, InFlight
<1>11. CASE Restart
    BY <1>0, <1>11 DEF Restart, Newest, Active, Saved, Clients, InFlight
<1>12. CASE Tick
    BY <1>0, <1>12
       DEF Tick, codeVars, limiterVars, attemptVars, Newest, Active, Saved, Clients, InFlight
<1>13. CASE UNCHANGED vars
    BY <1>0, <1>13
       DEF vars, codeVars, limiterVars, attemptVars, Newest, Active, Saved, Clients, InFlight
<1> QED
    BY <1>1, <1>2, <1>3, <1>4, <1>5, <1>6, <1>7, <1>8, <1>9, <1>10, <1>11,
       <1>12, <1>13 DEF Next

CooldownInv == TypeOK /\ Places /\ Alone /\ Newest

LEMMA CooldownInvariant == Spec => []CooldownInv
<1>1. Init => CooldownInv
    BY TypeInit, MfaAssumption
       DEF Init, CooldownInv, Places, Alone, Newest, InFlight, Active, Saved, Clients
<1>2. CooldownInv /\ [Next]_vars => CooldownInv'
    BY TypeStep, PlacesStep, AloneStep, NewestStep DEF CooldownInv
<1> QED
    BY <1>1, <1>2, PTL DEF Spec

(* There is one active code at most, however requests for one interleave.  *)
THEOREM OneActive == Spec => []OneActiveCode
<1>1. CooldownInv => OneActiveCode
    BY DEF CooldownInv, Newest, OneActiveCode
<1> QED
    BY CooldownInvariant, <1>1, PTL

(* What an operation marks used is the newest code there is.               *)
THEOREM NewestIsSpent == Spec => NewestAuthorises
<1> DEFINE Spends == \A a \in Attempts, c, d \in Requests :
                        Authorises(a, c) /\ MarkUsed(a)
                          /\ status[d] \notin {"absent", "deleted"}
                          => created[d] <= created[c]
<1>1. CooldownInv => [Spends]_vars
    BY DEF CooldownInv, Newest, Saved, Authorises, MarkUsed
<1> QED
    BY CooldownInvariant, <1>1, PTL DEF NewestAuthorises

----------------------------------------------------------------------------
(* The budget of guesses *)

(* What an attempt holds was active when the attempt came in.              *)
LEMMA HeldStep == TypeOK /\ Places /\ Held /\ [Next]_vars => Held'
<1> USE MfaAssumption
<1> SUFFICES ASSUME TypeOK, Places, Held, [Next]_vars PROVE Held'
    OBVIOUS
<1>0. /\ DOMAIN pc = Clients /\ began \in [Clients -> Nat] /\ now \in Nat
      /\ created \in [Requests -> Nat]
      /\ DOMAIN found = Attempts
      /\ \A c \in Requests : status[c] # "absent" => pc[c] = "over"
    BY DEF TypeOK, Places
<1>1. ASSUME NEW r \in Requests, Allow(r) PROVE Held'
    BY <1>0, <1>1
       DEF Allow, codeVars, attemptVars, Held, Holding, Active, Clients, InFlight
<1>2. ASSUME NEW r \in Requests, Invalidate(r) PROVE Held'
    BY <1>0, <1>2
       DEF Invalidate, limiterVars, attemptVars, Held, Holding, Active, Clients, InFlight
<1>3. ASSUME NEW r \in Requests, Save(r) PROVE Held'
    BY <1>0, <1>3
       DEF Save, End, limiterVars, attemptVars, Held, Holding, Active, Clients, InFlight
<1>4. ASSUME NEW a \in Attempts, NEW c \in Requests, FindActiveCode(a, c)
      PROVE Held'
    BY <1>0, <1>4
       DEF FindActiveCode, codeVars, limiterVars, Held, Holding, Active, Clients, InFlight
<1>5. ASSUME NEW a \in Attempts, IsLocked(a) PROVE Held'
    BY <1>0, <1>5
       DEF IsLocked, Over, codeVars, attemptVars, Held, Holding, Active, Clients, InFlight
<1>6. ASSUME NEW a \in Attempts, Accept(a) PROVE Held'
    BY <1>0, <1>6
       DEF Accept, codeVars, attemptVars, Held, Holding, Active, Clients, InFlight
<1>7. ASSUME NEW a \in Attempts, RecordFailure(a) PROVE Held'
    BY <1>0, <1>7
       DEF RecordFailure, Over, codeVars, Held, Holding, Active, Clients, InFlight
<1>8. ASSUME NEW a \in Attempts, MarkUsed(a) PROVE Held'
    BY <1>0, <1>8
       DEF MarkUsed, Over, limiterVars, Held, Holding, Active, Clients, InFlight
<1>9. ASSUME NEW p \in Clients, Fail(p) PROVE Held'
    BY <1>0, <1>9
       DEF Fail, Over, End, limiterVars, attemptVars, Held, Holding, Active, Clients, InFlight
<1>10. ASSUME NEW c \in Requests, DeleteExpired(c) PROVE Held'
    BY <1>0, <1>10
       DEF DeleteExpired, limiterVars, attemptVars, Held, Holding, Active, Clients, InFlight
<1>11. CASE Restart
    BY <1>0, <1>11 DEF Restart, Held, Holding, Active, Clients, InFlight
<1>12. CASE Tick
    BY <1>0, <1>12
       DEF Tick, codeVars, limiterVars, attemptVars, Held, Holding, Active, Clients, InFlight
<1>13. CASE UNCHANGED vars
    BY <1>0, <1>13
       DEF vars, codeVars, limiterVars, attemptVars, Held, Holding, Active, Clients, InFlight
<1> QED
    BY <1>1, <1>2, <1>3, <1>4, <1>5, <1>6, <1>7, <1>8, <1>9, <1>10, <1>11,
       <1>12, <1>13 DEF Next

(* Failures are counted for as long as the codes they were made at can be  *)
(* guessed: RecordFailure starts a lockout that ends after all of them.    *)
LEMMA CountedStep ==
    TypeOK /\ Places /\ Held /\ Counted /\ [Next]_vars => Counted'
<1> USE MfaAssumption
<1> SUFFICES ASSUME TypeOK, Places, Held, Counted, [Next]_vars PROVE Counted'
    OBVIOUS
<1>0. /\ DOMAIN pc = Clients /\ now \in Nat /\ failures \in Nat /\ lockedTil \in Nat
      /\ created \in [Requests -> Nat] /\ wrong \in [Requests -> Nat]
      /\ \A c \in Requests : created[c] <= now
    BY DEF TypeOK, Places
<1>1. ASSUME NEW r \in Requests, Allow(r) PROVE Counted'
    BY <1>0, <1>1 DEF Allow, codeVars, attemptVars, Counted, Clients, InFlight
<1>2. ASSUME NEW r \in Requests, Invalidate(r) PROVE Counted'
    BY <1>0, <1>2
       DEF Invalidate, limiterVars, attemptVars, Counted, Clients, InFlight
<1>3. ASSUME NEW r \in Requests, Save(r) PROVE Counted'
    BY <1>0, <1>3
       DEF Save, End, limiterVars, attemptVars, Counted, Clients, InFlight
<1>4. ASSUME NEW a \in Attempts, NEW c \in Requests, FindActiveCode(a, c)
      PROVE Counted'
    BY <1>0, <1>4
       DEF FindActiveCode, codeVars, limiterVars, Counted, Clients, InFlight
<1>5. ASSUME NEW a \in Attempts, IsLocked(a) PROVE Counted'
    BY <1>0, <1>5
       DEF IsLocked, Over, codeVars, attemptVars, Counted, Clients, InFlight
<1>6. ASSUME NEW a \in Attempts, Accept(a) PROVE Counted'
    BY <1>0, <1>6 DEF Accept, codeVars, attemptVars, Counted, Clients, InFlight
<1>7. ASSUME NEW a \in Attempts, RecordFailure(a) PROVE Counted'
  <2>1. found[a] \in Requests /\ pc[found[a]] = "over"
    BY <1>7 DEF RecordFailure, Held, Holding
  <2>2. \A c \in Requests : wrong'[c] = IF c = found[a] THEN wrong[c] + 1 ELSE wrong[c]
    BY <1>0, <1>7 DEF RecordFailure
  <2>3. \A c \in Requests : pc[c] # "over" => wrong'[c] = 0
    BY <2>1, <2>2 DEF Counted
  <2>4. \A c \in Requests : pc'[c] # "over" => pc[c] # "over"
    BY <1>0, <1>7 DEF RecordFailure, Over, Clients
  <2>5. failures' = failures + 1 /\ now' = now /\ created' = created
    BY <1>7 DEF RecordFailure, codeVars
  <2>6. CASE failures + 1 >= MaxFailures
    <3>1. lockedTil' = now + Lockout
      BY <1>7, <2>5, <2>6 DEF RecordFailure
    <3>2. \A c \in Requests : lockedTil' >= created[c] + Lifetime + Deadline
      BY <1>0, <3>1
    <3>3. lockedTil' # 0
      BY <1>0, <3>1
    <3> QED
      BY <2>3, <2>4, <2>5, <2>6, <3>2, <3>3 DEF Counted
  <2>7. CASE ~(failures + 1 >= MaxFailures)
    <3>1. lockedTil' = lockedTil
      BY <1>7, <2>5, <2>7 DEF RecordFailure
    <3>2. lockedTil = 0 /\ failures + 1 < MaxFailures
      BY <1>0, <2>7 DEF Counted
    <3>3. \A c \in Requests :
             wrong'[c] <= failures + 1 \/ now >= created[c] + Lifetime + Deadline
      BY <1>0, <2>2, <3>2 DEF Counted
    <3> QED
      BY <2>3, <2>4, <2>5, <3>1, <3>2, <3>3 DEF Counted
  <2> QED
    BY <2>6, <2>7
<1>8. ASSUME NEW a \in Attempts, MarkUsed(a) PROVE Counted'
    BY <1>0, <1>8 DEF MarkUsed, Over, limiterVars, Counted, Clients, InFlight
<1>9. ASSUME NEW p \in Clients, Fail(p) PROVE Counted'
    BY <1>0, <1>9
       DEF Fail, Over, End, limiterVars, attemptVars, Counted, Clients, InFlight
<1>10. ASSUME NEW c \in Requests, DeleteExpired(c) PROVE Counted'
    BY <1>0, <1>10
       DEF DeleteExpired, limiterVars, attemptVars, Counted, Clients, InFlight
<1>11. CASE Restart
    BY <1>0, <1>11 DEF Restart, Counted, Clients, InFlight
<1>12. CASE Tick
    BY <1>0, <1>12
       DEF Tick, codeVars, limiterVars, attemptVars, Counted, Clients, InFlight
<1>13. CASE UNCHANGED vars
    BY <1>0, <1>13
       DEF vars, codeVars, limiterVars, attemptVars, Counted, Clients, InFlight
<1> QED
    BY <1>1, <1>2, <1>3, <1>4, <1>5, <1>6, <1>7, <1>8, <1>9, <1>10, <1>11,
       <1>12, <1>13 DEF Next

(* Sets of attempts are finite, and a subset is no larger.                 *)
LEMMA FewerAttempts ==
    ASSUME NEW S, NEW T, S \subseteq T, T \subseteq Attempts
    PROVE  Cardinality(S) \in Nat /\ Cardinality(T) \in Nat
           /\ Cardinality(S) <= Cardinality(T)
<1>1. IsFiniteSet(T)
    BY FS_Subset, MfaAssumption
<1> QED
    BY <1>1, FS_Subset, FS_CardinalityType

(* Where wrong guesses do not grow and nobody starts to guess, the budget  *)
(* holds.                                                                  *)
LEMMA NobodyGuesses ==
    ASSUME TypeOK, Budget, NEW c \in Requests, wrong' \in [Requests -> Nat],
           wrong'[c] <= wrong[c], Guessing(c)' \subseteq Guessing(c)
    PROVE  wrong'[c] + Cardinality(Guessing(c)')
              < MaxFailures + Cardinality(Attempts)
<1>1. Guessing(c) \subseteq Attempts
    BY DEF Guessing
<1>2. /\ Cardinality(Guessing(c)') \in Nat /\ Cardinality(Guessing(c)) \in Nat
      /\ Cardinality(Guessing(c)') <= Cardinality(Guessing(c))
    BY <1>1, FewerAttempts
<1>3. Cardinality(Attempts) \in Nat /\ wrong[c] \in Nat /\ wrong'[c] \in Nat
    BY FewerAttempts DEF TypeOK
<1>4. wrong[c] + Cardinality(Guessing(c)) < MaxFailures + Cardinality(Attempts)
    BY DEF Budget
<1> QED
    BY <1>2, <1>3, <1>4, MfaAssumption

(* An attempt passes isLocked only while fewer than MaxFailures guesses at *)
(* its code are known, and a wrong guess ends it.                          *)
LEMMA BudgetStep ==
    ASSUME TypeOK, Places, Held, Counted, Budget, [Next]_vars
    PROVE  Budget'
<1> USE MfaAssumption
<1>0. /\ DOMAIN pc = Clients /\ DOMAIN found = Attempts
      /\ TypeOK'
    BY TypeStep DEF TypeOK
<1>w. wrong \in [Requests -> Nat] /\ wrong' \in [Requests -> Nat]
    BY <1>0 DEF TypeOK
<1> SUFFICES ASSUME NEW c \in Requests
             PROVE  wrong'[c] + Cardinality(Guessing(c)')
                       < MaxFailures + Cardinality(Attempts)
    BY DEF Budget
<1> DEFINE Calm == wrong'[c] <= wrong[c] /\ Guessing(c)' \subseteq Guessing(c)
<1>q. Calm => wrong'[c] + Cardinality(Guessing(c)') < MaxFailures + Cardinality(Attempts)
    BY <1>w, NobodyGuesses
<1>5. ASSUME NEW a \in Attempts, IsLocked(a)
      PROVE wrong'[c] + Cardinality(Guessing(c)') < MaxFailures + Cardinality(Attempts)
  <2>1. wrong' = wrong
    BY <1>5 DEF IsLocked
  <2>2. CASE Guessing(c)' \subseteq Guessing(c)
    BY <1>q, <1>w, <2>1, <2>2
  <2>3. CASE ~(Guessing(c)' \subseteq Guessing(c))
    <3>1. found[a] = c /\ (lockedTil = 0 \/ now > lockedTil)
      BY <1>0, <1>5, <2>3 DEF IsLocked, Over, Guessing, attemptVars, Clients
    <3>2. now < created[c] + Lifetime + Deadline
      <4>1. created[c] + Lifetime > began[a] /\ now <= began[a] + Deadline
        BY <1>5, <3>1 DEF IsLocked, Held, Holding, Places, InFlight, Clients
      <4> QED
        BY <4>1 DEF TypeOK, Clients
    <3>3. wrong[c] < MaxFailures
      <4>1. /\ now \in Nat /\ lockedTil \in Nat /\ failures \in Nat
            /\ created[c] \in Nat /\ wrong[c] \in Nat
        BY DEF TypeOK
      <4> QED
        BY <3>1, <3>2, <4>1 DEF Counted
    <3>4. Cardinality(Guessing(c)') \in Nat /\ Cardinality(Attempts) \in Nat
          /\ Cardinality(Guessing(c)') <= Cardinality(Attempts)
      BY FewerAttempts DEF Guessing
    <3> QED
      BY <1>w, <2>1, <3>3, <3>4
  <2> QED
    BY <2>2, <2>3
<1>7. ASSUME NEW a \in Attempts, RecordFailure(a)
      PROVE wrong'[c] + Cardinality(Guessing(c)') < MaxFailures + Cardinality(Attempts)
  <2>1. wrong'[c] = IF c = found[a] THEN wrong[c] + 1 ELSE wrong[c]
    BY <1>7, <1>w DEF RecordFailure
  <2>2. Guessing(c)' = Guessing(c) \ {a}
    BY <1>0, <1>7 DEF RecordFailure, Over, Guessing, Clients
  <2>3. CASE c # found[a]
    BY <1>q, <1>w, <2>1, <2>2, <2>3
  <2>4. CASE c = found[a]
    <3>1. a \in Guessing(c)
      BY <1>7, <2>4 DEF RecordFailure, Guessing
    <3>2. IsFiniteSet(Guessing(c))
      BY FS_Subset DEF Guessing
    <3>3. Cardinality(Guessing(c)') = Cardinality(Guessing(c)) - 1
      BY <2>2, <3>1, <3>2, FS_RemoveElement, ZenonT(30)
    <3>4. Cardinality(Guessing(c)) \in Nat /\ Cardinality(Attempts) \in Nat
      BY FewerAttempts DEF Guessing
    <3>5. wrong[c] + Cardinality(Guessing(c)) < MaxFailures + Cardinality(Attempts)
      BY DEF Budget
    <3> QED
      BY <1>w, <2>1, <2>4, <3>3, <3>4, <3>5
  <2> QED
    BY <2>3, <2>4
<1>1. ASSUME NEW r \in Requests, Allow(r) PROVE Calm
    BY <1>0, <1>w, <1>1 DEF Allow, codeVars, attemptVars, Guessing, Clients
<1>2. ASSUME NEW r \in Requests, Invalidate(r) PROVE Calm
    BY <1>0, <1>w, <1>2
       DEF Invalidate, limiterVars, attemptVars, Guessing, Clients
<1>3. ASSUME NEW r \in Requests, Save(r) PROVE Calm
    BY <1>0, <1>w, <1>3
       DEF Save, End, limiterVars, attemptVars, Guessing, Clients
<1>4. ASSUME NEW a \in Attempts, NEW e \in Requests, FindActiveCode(a, e) PROVE Calm
    BY <1>0, <1>w, <1>4
       DEF FindActiveCode, codeVars, limiterVars, Guessing, Clients
<1>6. ASSUME NEW a \in Attempts, Accept(a) PROVE Calm
    BY <1>0, <1>w, <1>6 DEF Accept, codeVars, attemptVars, Guessing, Clients
<1>8. ASSUME NEW a \in Attempts, MarkUsed(a) PROVE Calm
    BY <1>0, <1>w, <1>8 DEF MarkUsed, Over, limiterVars, Guessing, Clients
<1>9. ASSUME NEW p \in Clients, Fail(p) PROVE Calm
    BY <1>0, <1>w, <1>9
       DEF Fail, Over, End, limiterVars, attemptVars, Guessing, Clients
<1>10. ASSUME NEW e \in Requests, DeleteExpired(e) PROVE Calm
    BY <1>0, <1>w, <1>10
       DEF DeleteExpired, limiterVars, attemptVars, Guessing, Clients
<1>11. ASSUME Restart PROVE Calm
    BY <1>0, <1>w, <1>11 DEF Restart, Guessing, Clients
<1>12. ASSUME Tick PROVE Calm
    BY <1>0, <1>w, <1>12
       DEF Tick, codeVars, limiterVars, attemptVars, Guessing, Clients
<1>13. ASSUME UNCHANGED vars PROVE Calm
    BY <1>0, <1>w, <1>13
       DEF vars, codeVars, limiterVars, attemptVars, Guessing, Clients
<1> HIDE DEF Calm
<1> QED
    BY <1>q, <1>1, <1>2, <1>3, <1>4, <1>5, <1>6, <1>7, <1>8, <1>9, <1>10,
       <1>11, <1>12, <1>13 DEF Next

GuessInv == TypeOK /\ Places /\ Held /\ Counted /\ Budget

(* No code is guessed at more than MaxFailures times, but for the attempts *)
(* that were let through together.                                         *)
THEOREM GuessesAreLimited == Spec => []GuessesLimited
<1>1. Init => GuessInv
  <2> SUFFICES ASSUME Init PROVE GuessInv
      OBVIOUS
  <2>1. TypeOK /\ Places /\ Held /\ Counted
      BY TypeInit, MfaAssumption
         DEF Init, Places, Held, Holding, Counted, InFlight, Clients
  <2>2. \A c \in Requests : Guessing(c) = {}
      BY MfaAssumption DEF Init, Guessing, Clients
  <2>3. \A c \in Requests :
           wrong[c] + Cardinality(Guessing(c)) < MaxFailures + Cardinality(Attempts)
      BY <2>2, FewerAttempts, FS_EmptySet, MfaAssumption DEF Init
  <2> QED
      BY <2>1, <2>3 DEF GuessInv, Budget
<1>2. GuessInv /\ [Next]_vars => GuessInv'
    BY TypeStep, PlacesStep, HeldStep, CountedStep, BudgetStep DEF GuessInv
<1>3. GuessInv => GuessesLimited
  <2> SUFFICES ASSUME GuessInv, NEW c \in Requests
               PROVE  wrong[c] < MaxFailures + Cardinality(Attempts)
      BY DEF GuessesLimited
  <2>1. Cardinality(Guessing(c)) \in Nat /\ Cardinality(Attempts) \in Nat
      BY FewerAttempts DEF Guessing
  <2> QED
      BY <2>1, MfaAssumption DEF GuessInv, Budget, TypeOK
<1> QED
    BY <1>1, <1>2, <1>3, PTL DEF Spec
=============================================================================
