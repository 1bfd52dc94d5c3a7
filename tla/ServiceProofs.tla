---------------------------- MODULE ServiceProofs ----------------------------
(***************************************************************************)
(* Proofs about the parts of the service around the operations: what one   *)
(* process keeps in memory, its end, its users and its reports, for all    *)
(* limits, deadlines, numbers of goroutines, accounts and lengths of the   *)
(* table transactions.                                                     *)
(*                                                                         *)
(* First the rate limiter (AdmissionsSpread), the key rate and its breaker *)
(* (FreshRateIsRecent, CallsAreSpared) and the shutdown                    *)
(* (DatabaseOutlivesWork).  Then the table transactions, the queries on it *)
(* (StatisticsMatchBalances) and reports made of several of them           *)
(* (ReportsMoveForward); then registration (FirstUsersAdminister).         *)
(*                                                                         *)
(* Both facts about reports rest on the books: the table consists of rows  *)
(* that the operations form (FormedRow), and each balance is what the      *)
(* table says of its account (Accounted).  That the queries agree with the *)
(* balances is then a matter of the conditions alone: each selects one     *)
(* part of the rows of an account or a user, and the parts together are    *)
(* all of them.  For a report in the making it is added what each of its   *)
(* sections says of the table as it is now, or of the table as it was.     *)
(***************************************************************************)
EXTENDS RateLimiter, KeyRate, Shutdown, Statistics, SumTheorems

----------------------------------------------------------------------------
(* The rate limiter.  The invariant says of every key which of its         *)
(* admissions fall into the window that is open, and that the Limit        *)
(* admissions before that window began earlier by its length.              *)

(* A reading of the clock is Stall old at most when it is used.            *)
ReadingsAreRecent ==
    \A h \in Handlers :
        /\ reading[h] <= now
        /\ AtLimiter(h) => now <= reading[h] + Stall

(***************************************************************************)
(* Of one key: its admissions a, its limit n, its window w and its entry e *)
(* at time t.                                                              *)
(***************************************************************************)

(* The admissions are in the order of time.                                *)
Ordered(a, t) ==
    /\ \A i \in 1..Len(a) : a[i] <= t
    /\ \A i, j \in 1..Len(a) : i <= j => a[i] <= a[j]

(* A window can open at time t.                                            *)
MayOpen(a, n, w, t) ==
    \A i \in 1..Len(a) : i + n <= Len(a) + 1 => a[i] + w <= t + Stall

(* The open window holds the last e.count admissions, the one at first     *)
(* opened it.                                                              *)
InWindow(a, n, w, e, t) ==
    LET first == Len(a) - e.count + 1 IN
    /\ e.count <= n
    /\ e.count <= Len(a)
    /\ e.start <= t
    /\ a[first] <= e.start + Stall
    /\ \A i \in 1..Len(a) : i + n <= first => a[i] + w <= a[first] + Stall

Spread(a, n, w) ==
    \A i \in 1..Len(a) : i + 2 * n - 1 <= Len(a) => a[i] + w <= a[i + 2 * n - 1] + Stall

WindowInv(a, n, w, e, t) ==
    /\ n = 0 => a = <<>> /\ e.count = 0
    /\ Ordered(a, t)
    /\ e.count = 0 => MayOpen(a, n, w, t)
    /\ e.count > 0 => InWindow(a, n, w, e, t)
    /\ Spread(a, n, w)

KeyInv(k) == WindowInv(admitted[k], Limit[k[1]], Window[k[1]], entries[k], now)

LimiterInv ==
    /\ LimiterTypeOK
    /\ ReadingsAreRecent
    /\ \A k \in Keys : KeyInv(k)

----------------------------------------------------------------------------
(* What is appended last, and what was there before.                       *)
LEMMA Appended ==
    ASSUME NEW a \in Seq(Nat), NEW t \in Nat
    PROVE  /\ Append(a, t) \in Seq(Nat)
           /\ Len(Append(a, t)) = Len(a) + 1
           /\ Len(a) \in Nat
           /\ Append(a, t)[Len(a) + 1] = t
           /\ \A i \in 1..Len(a) : Append(a, t)[i] = a[i] /\ a[i] \in Nat
OBVIOUS

(* Later than late enough is late enough.                                  *)
LEMMA SlackTransitive ==
    ASSUME NEW x \in Nat, NEW y \in Nat, NEW z \in Nat, NEW w \in Nat, NEW s \in Nat,
           x + w <= y + s, y <= z
    PROVE  x + w <= z + s
OBVIOUS

LEMMA IndexBefore ==
    ASSUME NEW m \in Nat, NEW n \in Nat \ {0}, NEW i \in 1..(m + 1),
           i + 2 * n - 1 <= m + 1, i + 2 * n - 1 # m + 1
    PROVE  i \in 1..m /\ i + 2 * n - 1 \in 1..m
OBVIOUS

(* 2 * l - 1 places before the one appended, and l before the window.      *)
LEMMA BeforeWindow ==
    ASSUME NEW len \in Nat, NEW count \in Nat, NEW l \in Nat \ {0}, NEW i \in Nat \ {0},
           count < l, i + 2 * l - 1 = len + 1
    PROVE  i \in 1..len /\ i + l <= len - count + 1
OBVIOUS

LEMMA AppendOrdered ==
    ASSUME NEW a \in Seq(Nat), NEW t \in Nat, Ordered(a, t)
    PROVE  Ordered(Append(a, t), t)
<1> DEFINE b == Append(a, t)
<1>1. /\ Len(b) = Len(a) + 1 /\ Len(a) \in Nat /\ b[Len(a) + 1] = t
      /\ \A i \in 1..Len(a) : b[i] = a[i] /\ a[i] \in Nat
  BY Appended
<1> HIDE DEF b
<1>2. \A i \in 1..Len(b) : b[i] <= t
  BY <1>1 DEF Ordered
<1>3. ASSUME NEW i \in 1..Len(b), NEW j \in 1..Len(b), i <= j
      PROVE  b[i] <= b[j]
  <2>1. CASE j = Len(a) + 1
    BY <2>1, <1>1, <1>2
  <2>2. CASE j # Len(a) + 1
    BY <2>2, <1>1, <1>3 DEF Ordered
  <2> QED
    BY <2>1, <2>2
<1> QED
  BY <1>2, <1>3 DEF Ordered, b

(* An open window can be followed by another once its length has passed.   *)
LEMMA ExpiredMayOpen ==
    ASSUME NEW a \in Seq(Nat), NEW n \in Nat, NEW w \in Nat, NEW t \in Nat,
           NEW e \in [count : Nat, start : Nat], e.count > 0,
           Ordered(a, t), InWindow(a, n, w, e, t), e.start + w <= t
    PROVE  MayOpen(a, n, w, t)
<1> DEFINE first == Len(a) - e.count + 1
<1>1. first \in 1..Len(a) /\ a[first] <= e.start + Stall /\ e.count <= n
  BY DEF InWindow
<1>2. (\A i \in 1..Len(a) : a[i] \in Nat) /\ Stall \in Nat /\ e.start \in Nat
  BY LimiterAssumption DEF LimiterAssumption
<1>3. ASSUME NEW i \in 1..Len(a), i + n <= Len(a) + 1
      PROVE  a[i] + w <= t + Stall
  <2>1. i <= first
    BY <1>1, <1>3
  <2>2. a[i] <= a[first]
    BY <2>1, <1>1 DEF Ordered
  <2>3. a[first] \in Nat /\ a[i] \in Nat
    BY <1>1, <1>2
  <2>4. a[first] <= e.start + Stall
    BY <1>1
  <2> HIDE DEF first
  <2>5. a[i] <= e.start + Stall
    BY <2>2, <2>3, <2>4, <1>2, SMTT(30)
  <2> QED
    BY <2>3, <2>5, <1>2, SMTT(30)
<1> QED
  BY <1>3 DEF MayOpen

LEMMA OpeningKeeps ==
    ASSUME NEW a \in Seq(Nat), NEW n \in Nat \ {0}, NEW w \in Nat, NEW t \in Nat,
           NEW r \in Nat, r <= t, t <= r + Stall,
           Ordered(a, t), Spread(a, n, w), MayOpen(a, n, w, t)
    PROVE  WindowInv(Append(a, t), n, w, [count |-> 1, start |-> r], t)
<1> DEFINE b == Append(a, t)
           e == [count |-> 1, start |-> r]
<1> Stall \in Nat
  BY LimiterAssumption DEF LimiterAssumption
<1>1. /\ Len(b) = Len(a) + 1 /\ Len(a) \in Nat /\ b[Len(a) + 1] = t
      /\ \A i \in 1..Len(a) : b[i] = a[i] /\ a[i] \in Nat
  BY Appended
<1>2. Ordered(b, t)
  BY AppendOrdered
<1>e. e.count = 1 /\ e.start = r
  OBVIOUS
<1> HIDE DEF b, e
<1>3. InWindow(b, n, w, e, t)
  <2>1. Len(b) - e.count + 1 = Len(a) + 1
    BY <1>1, <1>e
  <2>2. ASSUME NEW i \in 1..Len(b), i + n <= Len(a) + 1
        PROVE  b[i] + w <= b[Len(a) + 1] + Stall
    <3>1. i \in 1..Len(a)
      BY <1>1, <2>2
    <3>2. a[i] + w <= t + Stall
      BY <2>2, <3>1 DEF MayOpen
    <3> QED
      BY <1>1, <3>1, <3>2
  <2> QED
    BY <1>1, <1>e, <2>1, <2>2 DEF InWindow
<1>4. Spread(b, n, w)
  <2> SUFFICES ASSUME NEW i \in 1..Len(b), i + 2 * n - 1 <= Len(b)
               PROVE  b[i] + w <= b[i + 2 * n - 1] + Stall
    BY DEF Spread
  <2>1. CASE i + 2 * n - 1 = Len(a) + 1
    <3>1. (i \in 1..Len(a) /\ i + n <= Len(a) + 1) \/ n = 1
      BY <2>1, <1>1
    <3>2. CASE i \in 1..Len(a) /\ i + n <= Len(a) + 1
      BY <3>2, <2>1, <1>1 DEF MayOpen
    <3>3. CASE n = 1
      BY <3>3, <2>1, <1>1 DEF MayOpen
    <3> QED
      BY <3>1, <3>2, <3>3
  <2>2. CASE i + 2 * n - 1 # Len(a) + 1
    <3> DEFINE j == i + 2 * n - 1
    <3>0. i \in 1..(Len(a) + 1) /\ j <= Len(a) + 1 /\ j # Len(a) + 1 /\ Len(a) \in Nat
      BY <2>2, <1>1
    <3>1. i \in 1..Len(a) /\ j \in 1..Len(a)
      BY <3>0, IndexBefore
    <3>2. a[i] + w <= a[j] + Stall
      BY <3>1 DEF Spread
    <3>3. b[i] = a[i] /\ b[j] = a[j]
      BY <3>1, <1>1
    <3>4. b[i] + w <= b[j] + Stall
      BY <3>2, <3>3, Zenon
    <3> QED
      BY <3>4
  <2> QED
    BY <2>1, <2>2
<1> QED
  BY <1>2, <1>3, <1>4, <1>e DEF WindowInv, b, e

LEMMA CountingKeeps ==
    ASSUME NEW a \in Seq(Nat), NEW n \in Nat \ {0}, NEW w \in Nat, NEW t \in Nat,
           NEW e \in [count : Nat, start : Nat], e.count > 0, e.count < n,
           Ordered(a, t), Spread(a, n, w), InWindow(a, n, w, e, t)
    PROVE  WindowInv(Append(a, t), n, w, [e EXCEPT !.count = @ + 1], t)
<1> DEFINE b == Append(a, t)
           f == [e EXCEPT !.count = @ + 1]
           first == Len(a) - e.count + 1
<1> Stall \in Nat
  BY LimiterAssumption DEF LimiterAssumption
<1>1. /\ Len(b) = Len(a) + 1 /\ Len(a) \in Nat /\ b[Len(a) + 1] = t
      /\ \A i \in 1..Len(a) : b[i] = a[i] /\ a[i] \in Nat
  BY Appended
<1>2. Ordered(b, t)
  BY AppendOrdered
<1>e. f.count = e.count + 1 /\ f.start = e.start /\ e.count \in Nat /\ e.start \in Nat
  OBVIOUS
<1>f. /\ first \in 1..Len(a) /\ e.start <= t /\ a[first] <= e.start + Stall
      /\ \A i \in 1..Len(a) : i + n <= first => a[i] + w <= a[first] + Stall
  BY <1>1, SMTT(30) DEF InWindow
<1> HIDE DEF b, f
<1>3. InWindow(b, n, w, f, t)
  <2>1. Len(b) - f.count + 1 = first
    BY <1>1, <1>e
  <2>2. b[first] = a[first]
    BY <1>1, <1>f
  <2>3. ASSUME NEW i \in 1..Len(b), i + n <= first
        PROVE  b[i] + w <= b[first] + Stall
    <3>1. i \in 1..Len(a)
      BY <2>3, <1>1, <1>f
    <3> QED
      BY <3>1, <2>2, <2>3, <1>1, <1>f
  <2>4. f.count <= n /\ f.count <= Len(b) /\ f.start <= t
    BY <1>e, <1>f, <1>1, SMTT(30)
  <2> HIDE DEF first
  <2> QED
    BY <1>1, <1>e, <1>f, <2>1, <2>2, <2>3, <2>4 DEF InWindow
<1>4. Spread(b, n, w)
  <2> SUFFICES ASSUME NEW i \in 1..Len(b), i + 2 * n - 1 <= Len(b)
               PROVE  b[i] + w <= b[i + 2 * n - 1] + Stall
    BY DEF Spread
  <2>1. CASE i + 2 * n - 1 = Len(a) + 1
    <3>0. i \in Nat \ {0}
      BY <1>1
    <3>1. i \in 1..Len(a) /\ i + n <= first
      BY <3>0, <2>1, <1>1, <1>e, BeforeWindow
    <3>2. a[i] + w <= a[first] + Stall
      BY <3>1, <1>f
    <3>3. a[first] <= t
      BY <1>f DEF Ordered
    <3>4. b[i] = a[i] /\ a[i] \in Nat /\ a[first] \in Nat /\ b[i + 2 * n - 1] = t
      BY <3>1, <2>1, <1>1, <1>f
    <3> HIDE DEF first
    <3>5. a[i] + w <= t + Stall
      <4> w \in Nat /\ t \in Nat /\ Stall \in Nat
        BY <1>1
      <4> DEFINE x == a[i]
                 y == a[first]
      <4>1. x \in Nat /\ y \in Nat /\ x + w <= y + Stall /\ y <= t
        BY <3>2, <3>3, <3>4
      <4> HIDE DEF x, y
      <4>2. x + w <= t + Stall
        BY <4>1, SlackTransitive
      <4> QED
        BY <4>2 DEF x
    <3> QED
      BY <3>4, <3>5
  <2>2. CASE i + 2 * n - 1 # Len(a) + 1
    <3> DEFINE j == i + 2 * n - 1
    <3>0. i \in 1..(Len(a) + 1) /\ j <= Len(a) + 1 /\ j # Len(a) + 1 /\ Len(a) \in Nat
      BY <2>2, <1>1
    <3>1. i \in 1..Len(a) /\ j \in 1..Len(a)
      BY <3>0, IndexBefore
    <3>2. a[i] + w <= a[j] + Stall
      BY <3>1 DEF Spread
    <3>3. b[i] = a[i] /\ b[j] = a[j]
      BY <3>1, <1>1
    <3>4. b[i] + w <= b[j] + Stall
      BY <3>2, <3>3, Zenon
    <3> QED
      BY <3>4
  <2> QED
    BY <2>1, <2>2
<1> QED
  BY <1>2, <1>3, <1>4, <1>e DEF WindowInv, b, f

(* Time passes.                                                            *)
LEMMA WaitingKeeps ==
    ASSUME NEW a \in Seq(Nat), NEW n \in Nat, NEW w \in Nat, NEW t \in Nat,
           NEW e \in [count : Nat, start : Nat], WindowInv(a, n, w, e, t)
    PROVE  WindowInv(a, n, w, e, t + 1)
<1> Stall \in Nat /\ \A i \in 1..Len(a) : a[i] \in Nat
  BY LimiterAssumption DEF LimiterAssumption
<1>1. Ordered(a, t + 1)
  BY DEF WindowInv, Ordered
<1>2. e.count = 0 => MayOpen(a, n, w, t + 1)
  BY DEF WindowInv, MayOpen
<1>3. e.count > 0 => InWindow(a, n, w, e, t + 1)
  BY DEF WindowInv, InWindow
<1> QED
  BY <1>1, <1>2, <1>3 DEF WindowInv

----------------------------------------------------------------------------
LEMMA KeyParts ==
    ASSUME NEW k \in Keys
    PROVE  /\ k[1] \in LimiterRules
           /\ Limit[k[1]] \in Nat
           /\ Window[k[1]] \in Nat
           /\ Window[k[1]] <= 2 * CleanupInterval
BY LimiterAssumption DEF Keys, LimiterAssumption

LEMMA KeyOfHandler ==
    ASSUME LimiterTypeOK, NEW h \in Handlers, NEW rule \in LimiterRules, AtLimiter(h)
    PROVE  Key(h, rule) \in Keys /\ Key(h, rule)[1] = rule
<1>1. call[h] \in Calls
  BY DEF LimiterTypeOK, AtLimiter
<1>2. ClientIP(call[h]) \in Clients /\ UserIDKey(call[h]) \in Clients
  BY <1>1 DEF Clients
<1> QED
  BY <1>2 DEF Key, Keys
----------------------------------------------------------------------------
LEMMA LimiterInitLimiterInv == now = 0 /\ LimiterInit => LimiterInv
<1> SUFFICES ASSUME now = 0, LimiterInit
             PROVE  LimiterInv
  OBVIOUS
<1>1. LimiterTypeOK
  BY DEF LimiterInit, LimiterTypeOK, NoEntry
<1>2. ReadingsAreRecent
  BY DEF LimiterInit, ReadingsAreRecent, AtLimiter
<1>3. \A k \in Keys : KeyInv(k)
  BY DEF LimiterInit, NoEntry, KeyInv, WindowInv, Ordered, MayOpen, Spread
<1> QED
  BY <1>1, <1>2, <1>3 DEF LimiterInv

(* A handler that leaves or goes on to the next stage.                     *)
LEMMA OnwardType ==
    ASSUME LimiterTypeOK, ReadingsAreRecent, now' = now, NEW h \in Handlers,
           Leave(h) \/ (AtLimiter(h) /\ Onward(h))
    PROVE  /\ stage' \in [Handlers -> {"idle", "public", "auth", "protected"}]
           /\ call' \in [Handlers -> Calls \cup {None}]
           /\ \A g \in Handlers : stage'[g] # "idle" => call'[g] \in Calls
           /\ reading' \in [Handlers -> Nat]
           /\ ReadingsAreRecent'
<1>1. CASE Leave(h)
  BY <1>1 DEF Leave, LimiterTypeOK, ReadingsAreRecent, AtLimiter
<1>2. CASE /\ AtLimiter(h)
           /\ stage' = [stage EXCEPT ![h] = "auth"]
           /\ reading' = [reading EXCEPT ![h] = 0]
           /\ UNCHANGED call
  BY <1>2 DEF LimiterTypeOK, ReadingsAreRecent, AtLimiter
<1> QED
  BY <1>1, <1>2 DEF Onward

(* The windows of all keys but the one a handler is let in for stay.       *)
LEMMA LetInKeeps ==
    ASSUME LimiterInv, NEW h \in Handlers, AtLimiter(h), NEW k \in Keys,
           NEW e \in [count : Nat, start : Nat], LetIn(h, k, e),
           WindowInv(Append(admitted[k], now), Limit[k[1]], Window[k[1]], e, now)
    PROVE  LimiterInv'
<1> USE DEF LimiterInv
<1>1. /\ now' = now
      /\ entries' = [entries EXCEPT ![k] = e]
      /\ admitted' = [admitted EXCEPT ![k] = Append(@, now)]
      /\ Onward(h)
  BY DEF LetIn
<1>2. admitted[k] \in Seq(Nat) /\ now \in Nat
  BY DEF LimiterTypeOK
<1>3. Append(admitted[k], now) \in Seq(Nat)
  BY <1>2, Appended
<1>4. LimiterTypeOK' /\ ReadingsAreRecent'
  BY <1>1, <1>2, <1>3, OnwardType DEF LimiterTypeOK
<1>5. ASSUME NEW l \in Keys
      PROVE  KeyInv(l)'
  <2>1. CASE l = k
    BY <2>1, <1>1 DEF KeyInv, LimiterTypeOK
  <2>2. CASE l # k
    <3>1. entries'[l] = entries[l] /\ admitted'[l] = admitted[l]
      BY <2>2, <1>1 DEF LimiterTypeOK
    <3> QED
      BY <3>1, <1>1 DEF KeyInv
  <2> QED
    BY <2>1, <2>2
<1> QED
  BY <1>4, <1>5

LEMMA LimiterNextLimiterInv == LimiterInv /\ [LimiterNext]_<<now, limiterVars>> => LimiterInv'
<1> SUFFICES ASSUME LimiterInv, [LimiterNext]_<<now, limiterVars>>
             PROVE  LimiterInv'
  OBVIOUS
<1> Stall \in Nat /\ CleanupInterval \in Nat
  BY LimiterAssumption DEF LimiterAssumption
<1>t. LimiterTypeOK /\ ReadingsAreRecent /\ \A k \in Keys : KeyInv(k)
  BY DEF LimiterInv
(* A step that leaves now, entries and admitted alone. *)
<1>k. ASSUME UNCHANGED <<now, entries, admitted>>
      PROVE  (\A k \in Keys : KeyInv(k)') /\ now' \in Nat
             /\ entries' \in [Keys -> [count : Nat, start : Nat]]
             /\ admitted' \in [Keys -> Seq(Nat)]
  BY <1>k, <1>t DEF KeyInv, LimiterTypeOK
<1>1. ASSUME NEW h \in Handlers, NEW c \in Calls, ServeHTTP(h, c)
      PROVE  LimiterInv'
  <2>1. LimiterTypeOK'
    BY <1>1, <1>t, <1>k DEF ServeHTTP, LimiterTypeOK
  <2>2. ReadingsAreRecent'
    BY <1>1, <1>t DEF ServeHTTP, ReadingsAreRecent, AtLimiter, LimiterTypeOK
  <2> QED
    BY <1>1, <1>k, <2>1, <2>2 DEF ServeHTTP, LimiterInv
<1>2. ASSUME NEW h \in Handlers, PassUnlimited(h)
      PROVE  LimiterInv'
  BY <1>2, <1>t, <1>k, OnwardType DEF PassUnlimited, LimiterTypeOK, LimiterInv
<1>3. ASSUME NEW h \in Handlers, NEW rule \in LimiterRules, OpenWindow(h, rule)
      PROVE  LimiterInv'
  <2> DEFINE k == Key(h, rule)
             e == [count |-> 1, start |-> reading[h]]
  <2>1. AtLimiter(h) /\ Limit[rule] > 0 /\ Elapsed(h, k) /\ LetIn(h, k, e)
    BY <1>3 DEF OpenWindow, Applies, Limited
  <2>2. k \in Keys /\ k[1] = rule
    BY <2>1, <1>t, KeyOfHandler
  <2> HIDE DEF k
  <2>3. /\ admitted[k] \in Seq(Nat) /\ now \in Nat /\ reading[h] \in Nat
        /\ entries[k] \in [count : Nat, start : Nat]
        /\ Limit[k[1]] \in Nat \ {0} /\ Window[k[1]] \in Nat
    BY <2>1, <2>2, <1>t, KeyParts DEF LimiterTypeOK
  <2>4. reading[h] <= now /\ now <= reading[h] + Stall
    BY <1>t, <2>1 DEF ReadingsAreRecent
  <2>5. WindowInv(admitted[k], Limit[k[1]], Window[k[1]], entries[k], now)
    BY <1>t, <2>2 DEF KeyInv
  <2>6. MayOpen(admitted[k], Limit[k[1]], Window[k[1]], now)
    <3>1. CASE entries[k].count = 0
      BY <3>1, <2>5 DEF WindowInv
    <3>2. CASE entries[k].count # 0
      <4>1. entries[k].count > 0 /\ entries[k].start + Window[k[1]] <= now
        BY <3>2, <2>1, <2>3, <2>4 DEF Elapsed
      <4> QED
        BY <4>1, <2>3, <2>5, ExpiredMayOpen DEF WindowInv
    <3> QED
      BY <3>1, <3>2
  <2>7. WindowInv(Append(admitted[k], now), Limit[k[1]], Window[k[1]], e, now)
    BY <2>3, <2>4, <2>5, <2>6, OpeningKeeps DEF WindowInv
  <2>8. e \in [count : Nat, start : Nat]
    BY <2>3
  <2> HIDE DEF e
  <2> QED
    BY <2>1, <2>2, <2>7, <2>8, LetInKeeps
<1>4. ASSUME NEW h \in Handlers, NEW rule \in LimiterRules, Allow(h, rule)
      PROVE  LimiterInv'
  <2> DEFINE k == Key(h, rule)
             e == [entries[k] EXCEPT !.count = @ + 1]
  <2>1. /\ AtLimiter(h) /\ ~Elapsed(h, k) /\ Limit[rule] > 0
        /\ entries[k].count < Limit[rule] /\ LetIn(h, k, e)
    BY <1>4 DEF Allow, Applies, Limited
  <2>2. k \in Keys /\ k[1] = rule
    BY <2>1, <1>t, KeyOfHandler
  <2> HIDE DEF k
  <2>3. /\ admitted[k] \in Seq(Nat) /\ now \in Nat
        /\ entries[k] \in [count : Nat, start : Nat]
        /\ Limit[k[1]] \in Nat \ {0} /\ Window[k[1]] \in Nat
    BY <2>1, <2>2, <1>t, KeyParts DEF LimiterTypeOK
  <2>4. entries[k].count > 0 /\ entries[k].count < Limit[k[1]]
    BY <2>1, <2>2, <2>3 DEF Elapsed
  <2>5. WindowInv(admitted[k], Limit[k[1]], Window[k[1]], entries[k], now)
    BY <1>t, <2>2 DEF KeyInv
  <2>6. WindowInv(Append(admitted[k], now), Limit[k[1]], Window[k[1]], e, now)
    BY <2>3, <2>4, <2>5, CountingKeeps DEF WindowInv
  <2>7. e \in [count : Nat, start : Nat]
    BY <2>3, SMTT(30)
  <2> HIDE DEF e
  <2> QED
    BY <2>1, <2>2, <2>6, <2>7, LetInKeeps
<1>5. ASSUME NEW h \in Handlers, NEW rule \in LimiterRules, TooManyRequests(h, rule)
      PROVE  LimiterInv'
  BY <1>5, <1>t, <1>k, OnwardType DEF TooManyRequests, LimiterTypeOK, LimiterInv
<1>6. ASSUME NEW h \in Handlers, Authenticate(h)
      PROVE  LimiterInv'
  <2>1. CASE Leave(h)
    BY <2>1, <1>6, <1>t, <1>k, OnwardType DEF Authenticate, LimiterTypeOK, LimiterInv
  <2>2. CASE /\ stage' = [stage EXCEPT ![h] = "protected"]
             /\ reading' = [reading EXCEPT ![h] = now]
             /\ UNCHANGED call
    <3>1. UNCHANGED <<now, entries, admitted>> /\ stage[h] = "auth"
      BY <1>6 DEF Authenticate
    <3>2. LimiterTypeOK'
      BY <3>1, <2>2, <1>t, <1>k DEF LimiterTypeOK
    <3>3. ReadingsAreRecent'
      BY <3>1, <2>2, <1>t DEF ReadingsAreRecent, AtLimiter, LimiterTypeOK
    <3> QED
      BY <3>1, <3>2, <3>3, <1>k DEF LimiterInv
  <2> QED
    BY <1>6, <2>1, <2>2 DEF Authenticate
<1>7. ASSUME NEW t \in 0..now, Cleanup(t)
      PROVE  LimiterInv'
  <2>1. /\ UNCHANGED <<now, stage, call, reading, admitted>> /\ t <= now
        /\ entries' = [k \in Keys |->
                          IF entries[k].start + 2 * CleanupInterval < t
                          THEN NoEntry ELSE entries[k]]
    BY <1>7 DEF Cleanup
  <2>2. LimiterTypeOK' /\ ReadingsAreRecent'
    BY <2>1, <1>t DEF LimiterTypeOK, ReadingsAreRecent, AtLimiter, NoEntry
  <2>3. ASSUME NEW k \in Keys
        PROVE  KeyInv(k)'
    <3>1. CASE entries'[k] = entries[k]
      BY <3>1, <2>1, <1>t DEF KeyInv
    <3>2. CASE entries[k].start + 2 * CleanupInterval < t /\ entries'[k] = NoEntry
      <4>1. /\ admitted[k] \in Seq(Nat) /\ now \in Nat
            /\ entries[k] \in [count : Nat, start : Nat]
            /\ Limit[k[1]] \in Nat /\ Window[k[1]] \in Nat
            /\ Window[k[1]] <= 2 * CleanupInterval
        BY <1>t, KeyParts DEF LimiterTypeOK
      <4>2. entries[k].start + Window[k[1]] <= now
        BY <4>1, <3>2, <2>1
      <4>3. WindowInv(admitted[k], Limit[k[1]], Window[k[1]], entries[k], now)
        BY <1>t DEF KeyInv
      <4>4. MayOpen(admitted[k], Limit[k[1]], Window[k[1]], now)
        <5>1. CASE entries[k].count = 0
          BY <5>1, <4>3 DEF WindowInv
        <5>2. CASE entries[k].count # 0
          <6>1. entries[k].count > 0
            BY <5>2, <4>1
          <6> QED
            BY <6>1, <4>1, <4>2, <4>3, ExpiredMayOpen DEF WindowInv
        <5> QED
          BY <5>1, <5>2
      <4>5. WindowInv(admitted[k], Limit[k[1]], Window[k[1]], NoEntry, now)
        BY <4>3, <4>4 DEF WindowInv, NoEntry
      <4> QED
        BY <4>5, <3>2, <2>1 DEF KeyInv
    <3> QED
      BY <3>1, <3>2, <2>1
  <2> QED
    BY <2>2, <2>3 DEF LimiterInv
<1>8. CASE LimiterRestart
  <2>1. LimiterTypeOK' /\ ReadingsAreRecent'
    BY <1>8, <1>t DEF LimiterRestart, LimiterTypeOK, ReadingsAreRecent, AtLimiter, NoEntry
  <2>2. \A k \in Keys : KeyInv(k)'
    BY <1>8 DEF LimiterRestart, NoEntry, KeyInv, WindowInv, Ordered, MayOpen, Spread
  <2> QED
    BY <2>1, <2>2 DEF LimiterInv
<1>9. CASE LimiterTick
  <2>1. now' = now + 1 /\ UNCHANGED limiterVars
    BY <1>9 DEF LimiterTick, Advance
  <2>2. LimiterTypeOK'
    BY <2>1, <1>t DEF limiterVars, LimiterTypeOK
  <2>3. ReadingsAreRecent'
    BY <1>9, <2>1, <1>t DEF LimiterTick, limiterVars, LimiterTypeOK, ReadingsAreRecent, AtLimiter
  <2>4. ASSUME NEW k \in Keys
        PROVE  KeyInv(k)'
    <3>1. /\ admitted[k] \in Seq(Nat) /\ now \in Nat
          /\ entries[k] \in [count : Nat, start : Nat]
          /\ Limit[k[1]] \in Nat /\ Window[k[1]] \in Nat
      BY <1>t, KeyParts DEF LimiterTypeOK
    <3>2. WindowInv(admitted[k], Limit[k[1]], Window[k[1]], entries[k], now)
      BY <1>t DEF KeyInv
    <3>3. WindowInv(admitted[k], Limit[k[1]], Window[k[1]], entries[k], now + 1)
      BY <3>1, <3>2, WaitingKeeps
    <3> QED
      BY <3>3, <2>1 DEF KeyInv, limiterVars
  <2> QED
    BY <2>2, <2>3, <2>4 DEF LimiterInv
<1>10. CASE UNCHANGED <<now, limiterVars>>
  BY <1>10, <1>t, <1>k
     DEF limiterVars, LimiterTypeOK, ReadingsAreRecent, AtLimiter, LimiterInv
<1> QED
  BY <1>1, <1>2, <1>3, <1>4, <1>5, <1>6, <1>7, <1>8, <1>9, <1>10 DEF LimiterNext

(* The state of the limiters is of its type.                               *)
THEOREM LimiterTyping == LimiterSpec => []LimiterTypeOK
<1>1. LimiterInv => LimiterTypeOK
  BY DEF LimiterInv
<1> QED
  BY <1>1, LimiterInitLimiterInv, LimiterNextLimiterInv, PTL DEF LimiterSpec

(* For every limit, window, number of handlers and of clients: of any      *)
(* 2 * Limit admissions of a key the last comes a whole window, less the   *)
(* stall, after the first.                                                 *)
THEOREM AdmissionsAreSpread == LimiterSpec => []AdmissionsSpread
<1>1. LimiterInv => AdmissionsSpread
  BY DEF LimiterInv, KeyInv, WindowInv, Spread, AdmissionsSpread
<1> QED
  BY <1>1, LimiterInitLimiterInv, LimiterNextLimiterInv, PTL DEF LimiterSpec

----------------------------------------------------------------------------
(* The key rate.  A rate that is answered, or cached, was in force when    *)
(* its request came in; only the requests under way can call again.        *)

(* The rate r of an answer was in force at time t or later.                *)
InForceSince(rate, t) ==
    /\ rate \in 1..inForce
    /\ rate < inForce => t <= superseded[rate]

(* A request runs for its deadline at most.                                *)
RequestsAreRecent ==
    \A r \in RateRequests : step[r] # "idle" =>
        since[r] <= now /\ now <= since[r] + RateDeadline

AnswersAreRecent ==
    \A r \in RateRequests : step[r] \in {"answered", "write"} => InForceSince(answer[r], since[r])

CacheIsRecent ==
    cached.rate # 0 =>
        /\ cached.rate <= inForce
        /\ cached.fetchedAt <= now
        /\ cached.rate < inForce => cached.fetchedAt <= superseded[cached.rate] + RateDeadline

RecentInv ==
    /\ RateTypeOK
    /\ now \in Nat
    /\ \A n \in 1..MaxRates : superseded[n] <= now
    /\ RequestsAreRecent
    /\ AnswersAreRecent
    /\ CacheIsRecent

(* What an answer can hold. *)
LEMMA AnswerElements ==
    ASSUME NEW elements \in Answers, RateTypeOK
    PROVE  /\ DOMAIN elements = 1..Len(elements)
           /\ Len(elements) \in Nat
           /\ \A i \in 1..Len(elements) : elements[i] \in Dated \cup Damaged
           /\ \E i \in 1..Len(elements) : elements[i] = [rate |-> inForce, date |-> inForce]
<1>1. PICK D : /\ D = {} \/ \E d \in Damaged : D = {d}
               /\ elements \in SetToSeqs(Dated \cup D)
  BY DEF Answers
<1> DEFINE S == Dated \cup D
           n == Cardinality(S)
<1>2. IsFiniteSet(S)
  <2>1. inForce \in Nat /\ IsFiniteSet(1..inForce)
    BY FS_Interval DEF RateTypeOK
  <2> DEFINE publish == [k \in 1..inForce |-> [rate |-> k, date |-> k]]
  <2>2. publish \in Surjection(1..inForce, Dated)
    BY DEF Surjection, Dated
  <2>3. IsFiniteSet(Dated)
    BY <2>1, <2>2, FS_Surjection
  <2>4. IsFiniteSet(D)
    BY <1>1, FS_EmptySet, FS_Singleton
  <2> QED
    BY <2>3, <2>4, FS_Union
<1>3. n \in Nat
  BY <1>2, FS_CardinalityType
<1>4. /\ elements \in [1..n -> S]
      /\ \A i, j \in 1..n : i # j => elements[i] # elements[j]
  <2> HIDE DEF S
  <2> QED
    BY <1>1 DEF SetToSeqs, S
<1>5. Len(elements) = n
  BY <1>3, <1>4
<1>6. elements \in Surjection(1..n, S)
  <2>1. elements \in Injection(1..n, S)
    BY <1>4 DEF Injection, IsInjective
  <2>2. Cardinality(1..n) = n
    BY <1>3, FS_Interval
  <2> HIDE DEF n, S
  <2> QED
    BY <1>2, <2>1, <2>2, FS_Injection DEF n
<1>7. [rate |-> inForce, date |-> inForce] \in S
  BY DEF Dated, RateTypeOK
<1>8. S \subseteq Dated \cup Damaged
  BY <1>1
<1> HIDE DEF n, S
<1> QED
  BY <1>3, <1>4, <1>5, <1>6, <1>7, <1>8 DEF Surjection

(* The loop of parseXMLResponse: what is selected after each element.      *)
LEMMA SelectedInTurn ==
    ASSUME NEW elements \in Answers, RateTypeOK
    PROVE  \E selected :
              /\ selected[0] = NoElement
              /\ \A n \in 1..Len(elements) : selected[n] = Prefer(selected[n - 1], elements[n])
              /\ ParseXMLResponse(elements) = selected[Len(elements)].rate
<1> DEFINE D == DOMAIN elements
           T == Dated \cup Damaged \cup {NoElement}
           Body(it) == [s \in SUBSET D |-> IF s = {} THEN NoElement
                            ELSE Prefer(it[s \ {Max(s)}], elements[Max(s)])]
           pick == [s \in SUBSET D |-> Max(s)]
           prefer == [i \in D |-> [e \in T |-> Prefer(e, elements[i])]]
<1>1. /\ D = 1..Len(elements) /\ Len(elements) \in Nat
      /\ \A i \in D : elements[i] \in T
  BY AnswerElements
<1>2. \A s \in SUBSET D : s # {} => Max(s) \in s
  BY <1>1, LargestNumber
<1>3. PICK it \in [SUBSET D -> T] : \A s \in SUBSET D :
          it[s] = IF s = {} THEN NoElement ELSE prefer[pick[s]][it[s \ {pick[s]}]]
  <2>1. \A s \in SUBSET D : s # {} => pick[s] \in s
    BY <1>2
  <2>2. \A i \in D, e \in T : prefer[i][e] \in T
    BY <1>1 DEF Prefer
  <2>3. IsFiniteSet(D) /\ NoElement \in T
    BY <1>1, FS_Interval
  <2> HIDE DEF D, T, pick, prefer
  <2>4. FoldData(D, T, NoElement, pick, prefer)
    BY <2>1, <2>2, <2>3 DEF FoldData
  <2>5. PICK it : IsFold(it, D, T, NoElement, pick, prefer)
    BY <2>4, FoldExists
  <2> QED
    BY <2>5 DEF IsFold
<1>4. it = Body(it)
  <2> SUFFICES ASSUME NEW s \in SUBSET D
               PROVE  it[s] = IF s = {} THEN NoElement ELSE Prefer(it[s \ {Max(s)}], elements[Max(s)])
    BY <1>3
  <2>1. CASE s # {}
    <3>1. pick[s] = Max(s) /\ Max(s) \in D /\ it[s \ {Max(s)}] \in T
      BY <1>2, <2>1
    <3>2. prefer[Max(s)][it[s \ {Max(s)}]] = Prefer(it[s \ {Max(s)}], elements[Max(s)])
      BY <3>1
    <3> HIDE DEF prefer, pick, D, T
    <3> QED
      BY <1>3, <3>1, <3>2, <2>1
  <2>2. CASE s = {}
    BY <1>3, <2>2
  <2> QED
    BY <2>1, <2>2
<1> DEFINE c == CHOOSE i : i = Body(i)
<1>5. c = Body(c)
  BY <1>4, Zenon
<1>6. ParseXMLResponse(elements) = c[D].rate
  BY DEF ParseXMLResponse, FoldLeft, MapThenFoldSet
<1> HIDE DEF c
<1> DEFINE selected == [n \in 0..Len(elements) |-> c[1..n]]
<1>7. selected[0] = NoElement
  BY <1>5, <1>1
<1>8. ASSUME NEW n \in 1..Len(elements)
      PROVE  selected[n] = Prefer(selected[n - 1], elements[n])
  <2>1. Max(1..n) = n
    <3>1. n \in Nat /\ (1..n) \in SUBSET (1..n) /\ n \in 1..n
      BY <1>1
    <3>2. Max(1..n) \in 1..n /\ n <= Max(1..n)
      BY <3>1, LargestNumber
    <3> QED
      BY <3>2
  <2>2. (1..n) \ {n} = 1..(n - 1)
    OBVIOUS
  <2>3. c[1..n] = Prefer(c[1..(n - 1)], elements[n])
    <3>1. (1..n) \in SUBSET D /\ 1..n # {}
      BY <1>1
    <3>2. c[1..n] = Prefer(c[(1..n) \ {Max(1..n)}], elements[Max(1..n)])
      BY <1>5, <3>1
    <3> QED
      BY <3>2, <2>1, <2>2
  <2> QED
    BY <1>1, <2>3
<1>9. ParseXMLResponse(elements) = selected[Len(elements)].rate
  BY <1>1, <1>6
<1> QED
  BY <1>7, <1>8, <1>9

(* parseXMLResponse finds the rate published last.                         *)
LEMMA LatestIsChosen ==
    ASSUME NEW elements \in Answers, RateTypeOK
    PROVE  ParseXMLResponse(elements) = inForce
<1>0. /\ Len(elements) \in Nat
      /\ \A i \in 1..Len(elements) : elements[i] \in Dated \cup Damaged
  BY AnswerElements
<1>1. PICK selected :
          /\ selected[0] = NoElement
          /\ \A n \in 1..Len(elements) : selected[n] = Prefer(selected[n - 1], elements[n])
          /\ ParseXMLResponse(elements) = selected[Len(elements)].rate
  BY SelectedInTurn
<1> DEFINE Latest(n) ==
        /\ selected[n] = NoElement \/ (selected[n] \in Dated \cup Damaged /\ selected[n].rate # 0)
        /\ \A i \in 1..n : elements[i].rate # 0 =>
              selected[n] # NoElement /\ elements[i].date <= selected[n].date
           Bad == {n \in 0..Len(elements) : ~Latest(n)}
<1>2. ASSUME Bad # {}
      PROVE  FALSE
  <2>1. PICK n \in Bad : \A m \in Bad : n <= m
    <3>1. Bad \in SUBSET Nat
      BY <1>0
    <3> HIDE DEF Bad
    <3> QED
      BY <1>2, <3>1, SmallestNumber
  <2>2. n # 0
    <3>1. Latest(0)
      <4>1. 1..0 = {}
        OBVIOUS
      <4>2. ASSUME NEW i \in 1..0
            PROVE  FALSE
        BY <4>1
      <4>3. selected[0] = NoElement
        BY <1>1
      <4> QED
        BY <4>2, <4>3
    <3> QED
      BY <3>1
  <2>3. n \in 1..Len(elements) /\ n - 1 \in 0..Len(elements) /\ Latest(n - 1)
    <3>1. n \in 0..Len(elements)
      OBVIOUS
    <3>2. n - 1 \in 0..Len(elements) /\ n - 1 \notin Bad
      <4> HIDE DEF Bad
      <4> QED
        BY <1>0, <2>1, <2>2, <3>1
    <3> QED
      BY <1>0, <2>2, <3>1, <3>2
  <2>4. selected[n] = Prefer(selected[n - 1], elements[n])
    BY <1>1, <2>3
  <2>5. elements[n] \in Dated \cup Damaged
    BY <1>0, <2>3
  <2>6. \A e \in Dated \cup Damaged : e.date \in Nat /\ e.rate \in Nat
    BY DEF Dated, Damaged, RateTypeOK
  <2> DEFINE before == selected[n - 1]
             element == elements[n]
             after == selected[n]
  <2>7. after = NoElement \/ (after \in Dated \cup Damaged /\ after.rate # 0)
    BY <2>3, <2>4, <2>5 DEF Prefer
  <2>8. before.date \in Nat /\ element.date \in Nat
    BY <2>3, <2>5, <2>6 DEF NoElement
  <2>9. before # NoElement => after # NoElement /\ before.date <= after.date
    <3>1. before = NoElement \/ after = before \/ (element.rate # 0 /\ element.date > before.date /\ after = element)
      BY <2>4 DEF Prefer
    <3> HIDE DEF before, after, element
    <3> QED
      BY <2>8, <3>1 DEF NoElement
  <2>10. element.rate # 0 => after # NoElement /\ element.date <= after.date
    <3>1. element.rate # 0 => after = element \/ (before # NoElement /\ ~(element.date > before.date) /\ after = before)
      BY <2>4 DEF Prefer
    <3> HIDE DEF before, after, element
    <3> QED
      BY <2>8, <3>1 DEF NoElement
  <2>11. ASSUME NEW i \in 1..n, elements[i].rate # 0
         PROVE  after # NoElement /\ elements[i].date <= after.date
    <3>1. CASE i = n
      BY <2>10, <2>11, <3>1
    <3>2. CASE i \in 1..(n - 1)
      <4>1. before # NoElement /\ elements[i].date <= before.date
        BY <2>3, <2>11, <3>2
      <4>2. elements[i].date \in Nat /\ after.date \in Nat
        <5>1. i \in 1..Len(elements)
          BY <1>0, <2>3
        <5> QED
          BY <1>0, <2>6, <2>7, <5>1 DEF NoElement
      <4> HIDE DEF before, after
      <4> QED
        BY <2>8, <2>9, <4>1, <4>2
    <3> QED
      BY <2>3, <3>1, <3>2
  <2>12. Latest(n)
    BY <2>7, <2>11
  <2> QED
    BY <2>12
<1>3. Latest(Len(elements))
  BY <1>0, <1>2
<1>4. PICK i \in 1..Len(elements) : elements[i] = [rate |-> inForce, date |-> inForce]
  BY AnswerElements
<1>5. selected[Len(elements)] \in Dated \cup Damaged /\ inForce <= selected[Len(elements)].date
  BY <1>3, <1>4, SMTT(30) DEF RateTypeOK
<1> QED
  BY <1>1, <1>5 DEF Dated, Damaged, RateTypeOK

LEMMA RecentStep == RecentInv /\ [RateNext]_<<now, rateVars>> => RecentInv'
  <1> SUFFICES ASSUME RecentInv, [RateNext]_<<now, rateVars>>
               PROVE  RecentInv'
    OBVIOUS
  <1> USE RateAssumption
          DEF RecentInv, RateTypeOK, RequestsAreRecent, AnswersAreRecent, CacheIsRecent,
              InForceSince, breakerVars, requestVars
  <1>1. ASSUME NEW r \in RateRequests, ReadCache(r)
        PROVE  RecentInv'
    BY <1>1 DEF ReadCache, Go
  <1>2. ASSUME NEW r \in RateRequests, AllowRequest(r)
        PROVE  RecentInv'
    <2>1. Append(callTimes, now) \in Seq(Nat)
      OBVIOUS
    <2> QED
      BY <1>2, <2>1 DEF AllowRequest, Go
  <1>3. ASSUME NEW r \in RateRequests, Answer(r)
        PROVE  RecentInv'
    <2>1. CASE Go(r, "failed") /\ UNCHANGED answer
      BY <1>3, <2>1 DEF Answer, Go
    <2>2. CASE /\ \E rate \in {ParseXMLResponse(elements) : elements \in Answers} :
                     answer' = [answer EXCEPT ![r] = rate]
               /\ Go(r, "answered")
      <3>1. answer' = [answer EXCEPT ![r] = inForce]
        BY <2>2, LatestIsChosen
      <3> QED
        BY <1>3, <2>2, <3>1, SMTT(30) DEF Answer, Go
    <2> QED
      BY <1>3, <2>1, <2>2 DEF Answer
  <1>4. ASSUME NEW r \in RateRequests, RecordFailure(r)
        PROVE  RecentInv'
    BY <1>4 DEF RecordFailure, Go
  <1>5. ASSUME NEW r \in RateRequests, RecordSuccess(r)
        PROVE  RecentInv'
    BY <1>5 DEF RecordSuccess, Go
  <1>6. ASSUME NEW r \in RateRequests, WriteCache(r)
        PROVE  RecentInv'
    <2>1. RateTypeOK' /\ now' \in Nat /\ \A n \in 1..MaxRates : superseded'[n] <= now'
      BY <1>6 DEF WriteCache, Return, Go
    <2>2. RequestsAreRecent' /\ AnswersAreRecent'
      BY <1>6 DEF WriteCache, Return, Go
    <2>3. CacheIsRecent'
      <3>1. InForceSince(answer[r], since[r]) /\ now <= since[r] + RateDeadline
        BY <1>6 DEF WriteCache
      <3>2. superseded[answer[r]] \in Nat /\ since[r] \in Nat /\ answer[r] \in Nat
        BY <3>1
      <3> QED
        BY <1>6, <3>1, <3>2 DEF WriteCache
    <2> QED
      BY <2>1, <2>2, <2>3
  <1>7. ASSUME NEW r \in RateRequests, ReadStaleCache(r)
        PROVE  RecentInv'
    BY <1>7 DEF ReadStaleCache, Return, Go
  <1>8. CASE Publish
    <2>1. RateTypeOK' /\ now' \in Nat /\ \A n \in 1..MaxRates : superseded'[n] <= now'
      BY <1>8 DEF Publish
    <2>2. ASSUME NEW rate, NEW t \in Nat, t <= now, InForceSince(rate, t)
          PROVE  InForceSince(rate, t)'
      BY <1>8, <2>2 DEF Publish
    <2>3. RequestsAreRecent' /\ AnswersAreRecent'
      BY <1>8, <2>2 DEF Publish
    <2>4. CacheIsRecent'
      <3>1. CASE cached.rate = 0
        BY <1>8, <3>1 DEF Publish
      <3>2. CASE cached.rate < inForce
        BY <1>8, <3>2 DEF Publish
      <3>3. CASE cached.rate = inForce
        BY <1>8, <3>3 DEF Publish
      <3> QED
        BY <3>1, <3>2, <3>3
    <2> QED
      BY <2>1, <2>2, <2>3, <2>4
  <1>9. CASE RateRestart
    BY <1>9 DEF RateRestart
  <1>10. CASE RateTick
    <2> USE <1>10 DEF RateTick, Advance, rateVars
    <2>1. RateTypeOK'
      OBVIOUS
    <2>4. now' \in Nat /\ \A n \in 1..MaxRates : superseded'[n] <= now'
      <3>1. now' = now + 1 /\ superseded' = superseded
        OBVIOUS
      <3>2. \A n \in 1..MaxRates : superseded[n] \in Nat /\ superseded[n] <= now
        OBVIOUS
      <3> QED
        BY <3>1, <3>2
    <2>2. RequestsAreRecent' /\ AnswersAreRecent'
      OBVIOUS
    <2>3. CacheIsRecent'
      OBVIOUS
    <2> QED
      BY <2>1, <2>2, <2>3, <2>4
  <1>11. CASE UNCHANGED <<now, rateVars>>
    BY <1>11 DEF rateVars
  <1> QED
    BY <1>1, <1>2, <1>3, <1>4, <1>5, <1>6, <1>7, <1>8, <1>9, <1>10, <1>11 DEF RateNext

LEMMA RecentStart == now = 0 /\ RateInit => RecentInv
<1> SUFFICES ASSUME now = 0, RateInit
             PROVE  RecentInv
  OBVIOUS
<1>1. /\ inForce \in 1..MaxRates
      /\ superseded = [n \in 1..MaxRates |-> 0]
      /\ cached = [rate |-> 0, fetchedAt |-> 0]
      /\ callTimes \in Seq(Nat)
  BY RateAssumption DEF RateInit
<1>2. RateTypeOK
  <2>1. cached \in [rate : 0..MaxRates, fetchedAt : Nat]
    BY <1>1, RateAssumption
  <2>2. answer \in [RateRequests -> 0..MaxRates]
    BY RateAssumption DEF RateInit
  <2> QED
    BY <1>1, <2>1, <2>2 DEF RateInit, RateTypeOK
<1> QED
  BY <1>1, <1>2 DEF RateInit, RecentInv, RequestsAreRecent, AnswersAreRecent, CacheIsRecent

(* Type correctness of cache and breaker for any settings; the answer of   *)
(* the CBR is always one of its rates.                                     *)
THEOREM RateTyping == RateSpec => []RateTypeOK
<1>1. RecentInv => RateTypeOK
  BY DEF RecentInv
<1> QED
  BY <1>1, RecentStart, RecentStep, PTL DEF RateSpec

(* A rate given out as fresh was in force at most the TTL and a deadline   *)
(* ago, in whatever order slow answers overwrite each other.               *)
THEOREM FreshRatesAreRecent == RateSpec => []FreshRateIsRecent
<1>1. ASSUME RecentInv
      PROVE  FreshRateIsRecent
  <2> SUFFICES ASSUME Fresh, cached.rate < inForce
               PROVE  now <= superseded[cached.rate] + CacheTTL + RateDeadline
    BY DEF FreshRateIsRecent
  <2>1. cached.fetchedAt <= superseded[cached.rate] + RateDeadline
    BY <1>1 DEF RecentInv, CacheIsRecent, Fresh
  <2>2. now <= cached.fetchedAt + CacheTTL
    BY DEF Fresh
  <2>3. /\ now \in Nat /\ cached.fetchedAt \in Nat
        /\ CacheTTL \in Nat /\ RateDeadline \in Nat
        /\ superseded[cached.rate] \in Nat
    <3>1. cached.rate \in 1..MaxRates
      BY <1>1 DEF RecentInv, RateTypeOK, Fresh
    <3> QED
      BY <1>1, <3>1, RateAssumption DEF RecentInv, RateTypeOK
  <2> QED
    BY <2>1, <2>2, <2>3
<1> QED
  BY <1>1, RecentStart, RecentStep, PTL DEF RateSpec

(* The calls since the last success are in the order of time; those that   *)
(* are no longer under way have failed, and were made before the breaker   *)
(* opened if it is open.                                                   *)
UnderWay == {r \in RateRequests : step[r] \in {"calling", "answered", "failed"}}

OthersFailed(a, n, u) == Len(a) <= n + u

OthersBefore(a, n, u, at) ==
    n >= FailureLimit => \A i \in 1..Len(a) : i + u <= Len(a) => a[i] <= at

CallsInv ==
    /\ Ordered(callTimes, now)
    /\ FailureLimit > 0 =>
          /\ OthersFailed(callTimes, failures, Cardinality(UnderWay))
          /\ OthersBefore(callTimes, failures, Cardinality(UnderWay), openedAt)
    /\ CallsAreSpared

RateInv == RecentInv /\ CallsInv

LEMMA Underway ==
    /\ IsFiniteSet(UnderWay) /\ IsFiniteSet(UnderWay')
    /\ Cardinality(UnderWay) \in Nat /\ Cardinality(UnderWay') \in Nat
    /\ Cardinality(RateRequests) \in Nat
    /\ Cardinality(UnderWay) <= Cardinality(RateRequests)
<1>1. UnderWay \in SUBSET RateRequests /\ UnderWay' \in SUBSET RateRequests
  BY DEF UnderWay
<1> QED
  BY <1>1, RateAssumption, FS_Subset, FS_CardinalityType

LEMMA CallsStep == RateInv /\ [RateNext]_<<now, rateVars>> => CallsInv'
<1> SUFFICES ASSUME RateInv, [RateNext]_<<now, rateVars>>
             PROVE  CallsInv'
  OBVIOUS
<1> USE RateAssumption
<1>0. /\ RecentInv' /\ RateTypeOK /\ now \in Nat /\ now' \in Nat
      /\ Len(callTimes) \in Nat /\ failures \in Nat /\ openedAt \in Nat
      /\ \A i \in 1..Len(callTimes) : callTimes[i] \in Nat
  <2>1. RecentInv /\ RecentInv'
    BY RecentStep DEF RateInv
  <2>2. now \in Nat /\ now' \in Nat
    BY <2>1 DEF RecentInv
  <2>3. RateTypeOK
    BY <2>1 DEF RecentInv
  <2>4. callTimes \in Seq(Nat) /\ failures \in Nat /\ openedAt \in Nat
    BY <2>3 DEF RateTypeOK
  <2> QED
    BY <2>1, <2>2, <2>3, <2>4
<1>a. ASSUME UNCHANGED <<callTimes, failures, openedAt, UnderWay>>, now <= now'
      PROVE  CallsInv'
  <2>1. Ordered(callTimes, now)'
    BY <1>0, <1>a DEF Ordered, RateInv, CallsInv
  <2>2. CallsAreSpared'
    BY <1>a DEF CallsAreSpared, RateInv, CallsInv
  <2>3. Cardinality(UnderWay)' = Cardinality(UnderWay)
    BY <1>a
  <2> QED
    BY <1>a, <2>1, <2>2, <2>3 DEF RateInv, CallsInv, OthersFailed, OthersBefore
<1>b. ASSUME callTimes' = <<>>, failures' = 0
      PROVE  CallsInv'
  <2>1. Len(callTimes') = 0 /\ 1..0 = {}
    BY <1>b
  <2>2. Ordered(callTimes, now)' /\ CallsAreSpared'
    BY <2>1 DEF Ordered, CallsAreSpared
  <2>3. OthersFailed(callTimes, failures, Cardinality(UnderWay))'
    BY <1>b, <2>1, Underway DEF OthersFailed
  <2>4. OthersBefore(callTimes, failures, Cardinality(UnderWay), openedAt)'
    BY <1>b, <2>1 DEF OthersBefore
  <2> QED
    BY <2>2, <2>3, <2>4 DEF CallsInv
<1>1. ASSUME NEW r \in RateRequests, ReadCache(r)
      PROVE  CallsInv'
  <2>1. UNCHANGED UnderWay
    BY <1>0, <1>1 DEF ReadCache, Go, UnderWay, RateTypeOK
  <2> QED
    BY <1>0, <1>1, <1>a, <2>1 DEF ReadCache, breakerVars
<1>2. ASSUME NEW r \in RateRequests, AllowRequest(r)
      PROVE  CallsInv'
  <2>1. CASE ~BreakerAllows
    <3>1. UNCHANGED UnderWay
      BY <1>0, <1>2, <2>1 DEF AllowRequest, Go, UnderWay, RateTypeOK
    <3> QED
      BY <1>0, <1>2, <1>a, <2>1, <3>1 DEF AllowRequest
  <2>2. CASE BreakerAllows
    <3>1. callTimes' = Append(callTimes, now) /\ UNCHANGED <<now, failures, openedAt>>
      BY <1>2, <2>2 DEF AllowRequest
    <3> DEFINE u == Cardinality(UnderWay)
               size == Len(callTimes)
    <3>2. Cardinality(UnderWay)' = u + 1 /\ u + 1 <= Cardinality(RateRequests)
      <4>1. r \notin UnderWay /\ UnderWay' = UnderWay \cup {r}
        BY <1>0, <1>2, <2>2 DEF AllowRequest, Go, UnderWay, RateTypeOK
      <4>2. (UnderWay \cup {r}) \in SUBSET RateRequests
        BY DEF UnderWay
      <4> QED
        BY <4>1, <4>2, Underway, FS_AddElement, FS_Subset
    <3>3. /\ Len(callTimes') = size + 1
          /\ callTimes'[size + 1] = now
          /\ \A i \in 1..size : callTimes'[i] = callTimes[i]
      BY <3>1, <1>0, Appended DEF RateTypeOK
    <3>4. Ordered(callTimes, now)'
      BY <1>0, <3>1, <3>3 DEF Ordered, RateInv, CallsInv
    <3>5. ASSUME FailureLimit > 0
          PROVE  /\ OthersFailed(callTimes, failures, Cardinality(UnderWay))'
                 /\ OthersBefore(callTimes, failures, Cardinality(UnderWay), openedAt)'
      BY <1>0, <3>1, <3>2, <3>3, <3>5, Underway, SMTT(30) DEF OthersFailed, OthersBefore, RateInv, CallsInv
    <3>6. CallsAreSpared'
      <4> DEFINE herd == FailureLimit - 1 + Cardinality(RateRequests)
      <4> SUFFICES ASSUME FailureLimit > 0, NEW i \in 1..(size + 1), i + herd <= size + 1
                   PROVE  callTimes'[i] + ResetTimeout <= callTimes'[i + herd]
        BY <3>3 DEF CallsAreSpared
      <4>0. herd \in Nat /\ size \in Nat /\ FailureLimit \in Nat
        BY <1>0, Underway
      <4>1. CASE i + herd <= size
        <5>1. i \in 1..size /\ i + herd \in 1..size
          BY <4>0, <4>1
        <5>2. callTimes[i] + ResetTimeout <= callTimes[i + herd]
          BY <4>1, <5>1 DEF RateInv, CallsInv, CallsAreSpared
        <5> HIDE DEF herd
        <5> QED
          BY <3>3, <5>1, <5>2
      <4>2. CASE i + herd = size + 1 /\ failures < FailureLimit
        <5>1. size <= failures + u
          BY DEF RateInv, CallsInv, OthersFailed
        <5> QED
          BY <1>0, <3>2, <4>2, <5>1, Underway, SMTT(30)
      <4>3. CASE i + herd = size + 1 /\ failures >= FailureLimit
        <5>1. i + u <= size
          BY <1>0, <3>2, <4>3, Underway, SMTT(30)
        <5>2. i \in 1..size /\ callTimes[i] <= now
          BY <1>0, <5>1, Underway, SMTT(30) DEF Ordered, RateInv, CallsInv
        <5>3. callTimes[i] <= openedAt
          BY <4>3, <5>1, <5>2 DEF RateInv, CallsInv, OthersBefore
        <5>4. ResetTimeout = 0 \/ now >= openedAt + ResetTimeout
          BY <1>0, <2>2, <4>3 DEF BreakerAllows
        <5> QED
          BY <1>0, <3>3, <4>3, <5>2, <5>3, <5>4, SMTT(30)
      <4> QED
        BY <1>0, <4>0, <4>1, <4>2, <4>3
    <3> QED
      BY <3>4, <3>5, <3>6 DEF CallsInv
  <2> QED
    BY <2>1, <2>2
<1>3. ASSUME NEW r \in RateRequests, Answer(r)
      PROVE  CallsInv'
  <2>1. UNCHANGED UnderWay
    BY <1>0, <1>3 DEF Answer, Go, UnderWay, RateTypeOK
  <2> QED
    BY <1>0, <1>3, <1>a, <2>1 DEF Answer, breakerVars
<1>4. ASSUME NEW r \in RateRequests, RecordFailure(r)
      PROVE  CallsInv'
  <2> DEFINE u == Cardinality(UnderWay)
  <2>1. Cardinality(UnderWay)' = u - 1
    <3>1. r \in UnderWay /\ UnderWay' = UnderWay \ {r}
      BY <1>0, <1>4 DEF RecordFailure, Go, UnderWay, RateTypeOK
    <3> QED
      BY <3>1, Underway, FS_RemoveElement
  <2>2. UNCHANGED <<now, callTimes>>
    BY <1>4 DEF RecordFailure
  <2>3. Ordered(callTimes, now)' /\ CallsAreSpared'
    BY <2>2 DEF Ordered, CallsAreSpared, RateInv, CallsInv
  <2>4. ASSUME FailureLimit > 0
        PROVE  /\ OthersFailed(callTimes, failures, Cardinality(UnderWay))'
               /\ OthersBefore(callTimes, failures, Cardinality(UnderWay), openedAt)'
    <3>1. failures' = failures + 1 /\ (failures' >= FailureLimit => openedAt' = now)
      BY <1>4, <2>4 DEF RecordFailure
    <3> QED
      BY <1>0, <2>1, <2>2, <2>4, <3>1, Underway, SMTT(30)
         DEF OthersFailed, OthersBefore, Ordered, RateInv, CallsInv
  <2> QED
    BY <2>3, <2>4 DEF CallsInv
<1>5. ASSUME NEW r \in RateRequests, RecordSuccess(r)
      PROVE  CallsInv'
  BY <1>5, <1>b DEF RecordSuccess
<1>6. ASSUME NEW r \in RateRequests, WriteCache(r) \/ ReadStaleCache(r)
      PROVE  CallsInv'
  <2>1. UNCHANGED UnderWay
    BY <1>0, <1>6 DEF WriteCache, ReadStaleCache, Return, Go, UnderWay, RateTypeOK
  <2> QED
    BY <1>0, <1>6, <1>a, <2>1 DEF WriteCache, ReadStaleCache, breakerVars
<1>7. CASE RateRestart
  BY <1>7, <1>b DEF RateRestart
<1>8. CASE Publish \/ RateTick \/ UNCHANGED <<now, rateVars>>
  <2>1. UNCHANGED <<callTimes, failures, openedAt, step>> /\ now <= now'
    BY <1>0, <1>8 DEF Publish, RateTick, Advance, rateVars, breakerVars, requestVars
  <2> QED
    BY <1>a, <2>1 DEF UnderWay
<1> QED
  BY <1>1, <1>2, <1>3, <1>4, <1>5, <1>6, <1>7, <1>8 DEF RateNext

(* While the CBR gives no answer, a herd of requests calls it only once in *)
(* each stretch of ResetTimeout, for any limit and number of requests.     *)
THEOREM BreakerSparesCalls == RateSpec => []CallsAreSpared
<1>1. now = 0 /\ RateInit => RateInv
  <2> SUFFICES ASSUME now = 0, RateInit
               PROVE  CallsInv
    BY RecentStart DEF RateInv
  <2>1. callTimes = <<>> /\ Len(callTimes) = 0 /\ 1..0 = {} /\ failures = 0
    BY DEF RateInit
  <2>2. Ordered(callTimes, now) /\ CallsAreSpared
    BY <2>1 DEF Ordered, CallsAreSpared
  <2> QED
    BY <2>1, <2>2, Underway DEF CallsInv, OthersFailed, OthersBefore
<1>2. RateInv /\ [RateNext]_<<now, rateVars>> => RateInv'
  BY RecentStep, CallsStep DEF RateInv
<1>3. RateInv => CallsAreSpared
  BY DEF RateInv, CallsInv
<1> QED
  BY <1>1, <1>2, <1>3, PTL DEF RateSpec

----------------------------------------------------------------------------
(* Shutdown.  Main waits for the schedulers only once no request is left,  *)
(* and no new one is taken after that.                                     *)
ShutdownInv ==
    /\ ShutdownTypeOK
    /\ main = "waiting" => Quiet
    /\ main \in {"leaving", "closed"} => remaining = 0 \/ (Quiet /\ Stopped)

LEMMA ShutdownStart == ShutdownInit => ShutdownInv
  <1> SUFFICES ASSUME ShutdownInit PROVE ShutdownInv
    OBVIOUS
  <1>1. main = "serving" /\ signalled = FALSE /\ remaining = ShutdownTimeout
    BY DEF ShutdownInit
  <1>2. ShutdownTypeOK
    <2>1. signalled \in BOOLEAN
      BY <1>1
    <2>2. remaining \in 0..ShutdownTimeout
      BY <1>1, ShutdownAssumption
    <2> QED
      BY <1>1, <2>1, <2>2 DEF ShutdownInit, ShutdownTypeOK
  <1> QED
    BY <1>1, <1>2 DEF ShutdownInv

LEMMA ShutdownStep == ShutdownInv /\ [ShutdownNext]_shutdownVars => ShutdownInv'
  <1> SUFFICES ASSUME ShutdownInv, [ShutdownNext]_shutdownVars
               PROVE  ShutdownInv'
    OBVIOUS
  <1> USE ShutdownAssumption DEF ShutdownInv, ShutdownTypeOK, Quiet, Stopped
  <1>1. CASE Signal
    BY <1>1 DEF Signal
  <1>2. CASE ListenFails
    BY <1>2 DEF ListenFails
  <1>3. ASSUME NEW c \in Connections, BeginRequest(c) \/ EndRequest(c)
        PROVE  ShutdownInv'
    BY <1>3 DEF BeginRequest, EndRequest
  <1>4. ASSUME NEW s \in Schedulers, RunOnce(s) \/ Select(s)
        PROVE  ShutdownInv'
    BY <1>4 DEF RunOnce, Select
  <1>5. CASE Main
    BY <1>5 DEF Main, StartShutdown, ServerShutdown, AwaitSchedulers, CloseDatabase, Exit
  <1>6. CASE Timer
    BY <1>6 DEF Timer
  <1>7. CASE UNCHANGED shutdownVars
    BY <1>7 DEF shutdownVars
  <1> QED
    BY <1>1, <1>2, <1>3, <1>4, <1>5, <1>6, <1>7 DEF ShutdownNext

(* Type correctness of the shutdown, for any connections and schedulers.   *)
THEOREM ShutdownTyping == ShutdownSpec => []ShutdownTypeOK
  <1>1. ShutdownInit => ShutdownInv
    BY ShutdownStart
  <1>2. ShutdownInv => ShutdownTypeOK
    BY DEF ShutdownInv
  <1> QED BY <1>1, <1>2, ShutdownStep, PTL DEF ShutdownSpec

(* The database is closed while a request or a job runs only if the whole  *)
(* timeout has passed, however many connections and schedulers there are.  *)
THEOREM DatabaseClosesLast == ShutdownSpec => []DatabaseOutlivesWork
  <1>1. ShutdownInit => ShutdownInv
    BY ShutdownStart
  <1>2. ShutdownInv => DatabaseOutlivesWork
    BY DEF ShutdownInv, DatabaseOutlivesWork
  <1> QED BY <1>1, <1>2, ShutdownStep, PTL DEF ShutdownSpec

----------------------------------------------------------------------------
(* The table.  What kinds of rows there are, and which sides they have.    *)
Types == Incoming \cup Outgoing \cup {"penalty", "card_payment", "transfer"}
Parties == Accounts \cup {Null}

(* The rows that Postings consist of, but for transfers to the account     *)
(* they come from, which are refused.                                      *)
FormedRow ==
    {r \in [type : Types, user : Applicants, from : Parties, to : Parties,
            fromCard : Cards \cup {Null}, toCard : Cards \cup {Null}, amount : Amounts] :
        IF r.type \in Incoming
        THEN r.from = Null /\ r.to \in Accounts /\ r.user = Owner[r.to]
        ELSE IF r.type = "transfer"
             THEN {r.from, r.to} \subseteq Accounts /\ r.from # r.to
             ELSE r.to = Null /\ r.from \in Accounts /\ r.user = Owner[r.from]}

Table == Seq(FormedRow)
(* What the sums of a table add up.                                        *)
Amount(table) == [i \in DOMAIN table |-> table[i].amount]

(* A table is finite, and the sums over its rows exist.                    *)
LEMMA Tables ==
    ASSUME NEW table \in Table
    PROVE  /\ IsFiniteSet(DOMAIN table)
           /\ \A i \in DOMAIN table : table[i] \in FormedRow /\ Amount(table)[i] \in Nat
           /\ \A those \in SUBSET DOMAIN table :
                 /\ AmountOf(table, those) = SumFunctionOnSet(Amount(table), those)
                 /\ Summable(Amount(table), those)
                 /\ AmountOf(table, those) \in Nat
  <1>1. IsFiniteSet(DOMAIN table)
    <2>1. Len(table) \in Nat /\ DOMAIN table = 1..Len(table)
      BY DEF Table
    <2>2. IsFiniteSet(1..Len(table))
      BY <2>1, FS_Interval
    <2> QED
      BY <2>1, <2>2
  <1>2. ASSUME NEW i \in DOMAIN table
        PROVE  table[i] \in FormedRow /\ Amount(table)[i] \in Nat
    <2>1. table[i] \in FormedRow
      BY DEF Table
    <2>2. table[i].amount \in Amounts
      BY <2>1 DEF FormedRow
    <2> QED
      BY <2>1, <2>2, StatisticsAssumption DEF StatisticsAssumption, Amount
  <1>3. ASSUME NEW those \in SUBSET DOMAIN table
        PROVE  /\ AmountOf(table, those) = SumFunctionOnSet(Amount(table), those)
               /\ Summable(Amount(table), those)
               /\ AmountOf(table, those) \in Nat
    <2>1. AmountOf(table, those) = SumFunctionOnSet(Amount(table), those)
      BY DEF AmountOf, Amount
    <2>2. Summable(Amount(table), those)
      BY <1>1, <1>2, FS_Subset DEF Summable
    <2>3. SumFunctionOnSet(Amount(table), those) \in Nat
      BY <1>2, <2>2, SumNat
    <2> QED
      BY <2>1, <2>2, <2>3
  <1> QED
    BY <1>1, <1>2, <1>3

(* Two selections that no row belongs to both of.                          *)
LEMMA AmountParts ==
    ASSUME NEW table \in Table, NEW A \in SUBSET DOMAIN table, NEW B \in SUBSET DOMAIN table,
           A \cap B = {}
    PROVE  AmountOf(table, A \cup B) = AmountOf(table, A) + AmountOf(table, B)
  <1>1. A \cup B \in SUBSET DOMAIN table
    OBVIOUS
  <1>2. Summable(Amount(table), A \cup B)
    BY <1>1, Tables
  <1>3. SumFunctionOnSet(Amount(table), A \cup B)
            = SumFunctionOnSet(Amount(table), A) + SumFunctionOnSet(Amount(table), B)
    BY <1>2, SumParts
  <1> QED
    BY <1>1, <1>3, Tables

----------------------------------------------------------------------------
(* The queries.  The condition of the month's income selects what came to a *)
(* user from others, and that of its expenses what went to others, but for *)
(* the prepayments.                                                        *)
LEMMA MonthRow ==
    ASSUME NEW r \in FormedRow, NEW u \in Applicants
    PROVE  LET own == Belonging(u)
           IN  /\ (\/ r.type \in MonthlyIncomeTypes /\ r.user = u
                   \/ /\ r.type = "transfer"
                      /\ OwnerOf(r.to) = u
                      /\ External(r.from, u))
                  <=> (r.to \in own /\ r.from \notin own)
               /\ (\/ r.type \in MonthlyExpenseTypes /\ r.user = u
                   \/ /\ r.type = "transfer"
                      /\ OwnerOf(r.from) = u
                      /\ External(r.to, u))
                  <=> (r.from \in own /\ r.to \notin own /\ r.type # "credit_prepayment")
  <1> USE StatisticsAssumption DEF StatisticsAssumption, FormedRow, OwnerOf, External, Belonging,
        Incoming, Outgoing, MonthlyIncomeTypes, MonthlyExpenseTypes, Types, Parties
  <1>1. CASE r.type \in Incoming
    BY <1>1
  <1>2. CASE r.type = "transfer"
    BY <1>2
  <1>3. CASE r.type \notin Incoming /\ r.type # "transfer"
    BY <1>3
  <1> QED
    BY <1>1, <1>2, <1>3

(* What users hold is a number.                                            *)
LEMMA HoldingsInt ==
    ASSUME NEW table \in Table, NEW of
    PROVE  Holdings(table, of) \in Int /\ Prepaid(table, of) \in Nat
  <1> DEFINE D == DOMAIN table
             in == {i \in D : table[i].to \in of}
             out == {i \in D : table[i].from \in of}
             prepaid == {i \in D : table[i].type = "credit_prepayment" /\ table[i].from \in of}
  <1>1. /\ Holdings(table, of) = AmountOf(table, in) - AmountOf(table, out)
        /\ Prepaid(table, of) = AmountOf(table, prepaid)
    BY DEF Holdings, Prepaid, Total, Where
  <1>2. {in, out, prepaid} \subseteq SUBSET D
    OBVIOUS
  <1> HIDE DEF in, out, prepaid
  <1> QED
    BY <1>1, <1>2, Tables

(* The month of a user is what he brought in and took out, his prepayments *)
(* not counted: transfers among his accounts are on both sides.            *)
LEMMA MonthAddsUp ==
    ASSUME NEW table \in Table, NEW u \in Applicants
    PROVE  /\ MonthlyIncome(table, u) - MonthlyExpense(table, u)
                = Holdings(table, Belonging(u)) + Prepaid(table, Belonging(u))
           /\ MonthlyIncome(table, u) \in Nat
           /\ MonthlyExpense(table, u) \in Nat
  <1> DEFINE D == DOMAIN table
             own == Belonging(u)
             gained == {i \in D : table[i].to \in own /\ table[i].from \notin own}
             spent == {i \in D : /\ table[i].from \in own /\ table[i].to \notin own
                                 /\ table[i].type # "credit_prepayment"}
             prepaid == {i \in D : table[i].type = "credit_prepayment" /\ table[i].from \in own}
             inner == {i \in D : table[i].from \in own /\ table[i].to \in own}
             in == {i \in D : table[i].to \in own}
             out == {i \in D : table[i].from \in own}
  <1>1. MonthlyIncome(table, u) = AmountOf(table, gained)
    <2>1. Where(table, LAMBDA r : \/ r.type \in MonthlyIncomeTypes /\ r.user = u
                           \/ /\ r.type = "transfer"
                              /\ OwnerOf(r.to) = u
                              /\ External(r.from, u)) = gained
      BY Tables, MonthRow DEF Where
    <2> QED
      BY <2>1 DEF MonthlyIncome, Total
  <1>2. MonthlyExpense(table, u) = AmountOf(table, spent)
    <2>1. Where(table, LAMBDA r : \/ r.type \in MonthlyExpenseTypes /\ r.user = u
                           \/ /\ r.type = "transfer"
                              /\ OwnerOf(r.from) = u
                              /\ External(r.to, u)) = spent
      BY Tables, MonthRow DEF Where
    <2> QED
      BY <2>1 DEF MonthlyExpense, Total
  <1>3. Holdings(table, own) = AmountOf(table, in) - AmountOf(table, out)
    BY DEF Holdings, Total, Where
  <1>4. Prepaid(table, own) = AmountOf(table, prepaid)
    BY DEF Prepaid, Total, Where
  <1>p. ASSUME NEW i \in prepaid PROVE table[i].to \notin own
    <3>1. table[i] \in FormedRow /\ table[i].type = "credit_prepayment"
      BY Tables
    <3>2. table[i].to = Null
      BY <3>1 DEF FormedRow, Incoming
    <3> QED
      BY <3>2, StatisticsAssumption DEF Belonging, StatisticsAssumption
  <1>5. /\ {gained, spent, prepaid, inner, in, out, spent \cup prepaid} \subseteq SUBSET D
        /\ in = gained \cup inner /\ gained \cap inner = {}
        /\ spent \cap prepaid = {} /\ (spent \cup prepaid) \cap inner = {}
    <2>1. {gained, spent, prepaid, inner, in, out, spent \cup prepaid} \subseteq SUBSET D
      OBVIOUS
    <2>2. in = gained \cup inner
      OBVIOUS
    <2>3. gained \cap inner = {}
      OBVIOUS
    <2>4. spent \cap prepaid = {}
      OBVIOUS
    <2>5. spent \cap inner = {}
      OBVIOUS
    <2>7. (spent \cup prepaid) \cap inner = {}
      <3>1. prepaid \cap inner = {}
        BY <1>p
      <3> HIDE DEF spent, prepaid, inner
      <3> QED
        BY <3>1, <2>5
    <2> QED
      BY <2>1, <2>2, <2>3, <2>4, <2>7
  <1>6. out = (spent \cup prepaid) \cup inner
    BY <1>p
  <1> HIDE DEF gained, spent, prepaid, inner, in, out
  <1>7. /\ AmountOf(table, in) = AmountOf(table, gained) + AmountOf(table, inner)
        /\ AmountOf(table, out) = AmountOf(table, spent \cup prepaid) + AmountOf(table, inner)
        /\ AmountOf(table, spent \cup prepaid)
               = AmountOf(table, spent) + AmountOf(table, prepaid)
    BY <1>5, <1>6, AmountParts
  <1>8. \A those \in {gained, spent, prepaid, inner, in, out} : AmountOf(table, those) \in Nat
    BY <1>5, Tables
  <1> QED
    BY <1>1, <1>2, <1>3, <1>4, <1>7, <1>8

(* The rows on each side of an account.                                    *)
Credited(table, a) == {i \in DOMAIN table : table[i].to = a}
Debited(table, a) == {i \in DOMAIN table : table[i].from = a}

(* What came into an account and what left it.                             *)
LEMMA AccountSums ==
    ASSUME NEW table \in Table, NEW a
    PROVE  /\ Into(table, a) = AmountOf(table, Credited(table, a))
           /\ OutOf(table, a) = AmountOf(table, Debited(table, a))
           /\ Credited(table, a) \in SUBSET DOMAIN table
           /\ Debited(table, a) \in SUBSET DOMAIN table
           /\ Into(table, a) \in Nat /\ OutOf(table, a) \in Nat
  <1>1. /\ Into(table, a) = AmountOf(table, Credited(table, a))
        /\ OutOf(table, a) = AmountOf(table, Debited(table, a))
    BY DEF Into, OutOf, Credited, Debited, Total, Where
  <1>2. /\ Credited(table, a) \in SUBSET DOMAIN table
        /\ Debited(table, a) \in SUBSET DOMAIN table
    BY DEF Credited, Debited
  <1> QED
    BY <1>1, <1>2, Tables

(* A balance is what the table says of its account.                        *)
Accounted(table, bal, of) == \A a \in of : bal[a] = Into(table, a) - OutOf(table, a)

(* What some accounts hold together is what they hold each.                *)
LEMMA HoldingsByAccount ==
    ASSUME NEW table \in Table, NEW of \in SUBSET Accounts, NEW bal, Accounted(table, bal, of)
    PROVE  SumFunctionOnSet(bal, of) = Holdings(table, of)
  <1> DEFINE D == DOMAIN table
             f == Amount(table)
             side(I) == {i \in D : I[i] \in of}
             came == [i \in D |-> table[i].to]
             went == [i \in D |-> table[i].from]
             gain == [a \in of |-> Into(table, a)]
             loss == [a \in of |-> OutOf(table, a)]
             in == {i \in D : table[i].to \in of}
             out == {i \in D : table[i].from \in of}
  <1>1. IsFiniteSet(of)
    BY FS_Subset, StatisticsAssumption DEF StatisticsAssumption
  <1>2. in \in SUBSET D /\ out \in SUBSET D
    OBVIOUS
  <1>3. Summable(f, in) /\ Summable(f, out)
    BY <1>2, Tables
  <1>4. Sorted(came, in, of, f, gain)
    <2>1. ASSUME NEW a \in of
          PROVE  gain[a] = SumFunctionOnSet(f, {i \in in : came[i] = a})
      <3>1. {i \in in : came[i] = a} = Credited(table, a)
        BY DEF Credited
      <3>2. gain[a] = AmountOf(table, Credited(table, a))
        BY AccountSums
      <3> QED
        BY <3>1, <3>2, Tables, AccountSums
    <2> QED
      BY <2>1 DEF Sorted
  <1>5. Sorted(went, out, of, f, loss)
    <2>1. ASSUME NEW a \in of
          PROVE  loss[a] = SumFunctionOnSet(f, {i \in out : went[i] = a})
      <3>1. {i \in out : went[i] = a} = Debited(table, a)
        BY DEF Debited
      <3>2. loss[a] = AmountOf(table, Debited(table, a))
        BY AccountSums
      <3> QED
        BY <3>1, <3>2, Tables, AccountSums
    <2> QED
      BY <2>1 DEF Sorted
  <1>6. Difference(bal, gain, loss, of)
    BY DEF Difference, Accounted
  <1>7. Holdings(table, of) = AmountOf(table, in) - AmountOf(table, out)
    BY DEF Holdings, Total, Where
  <1>8. /\ AmountOf(table, in) = SumFunctionOnSet(f, in)
        /\ AmountOf(table, out) = SumFunctionOnSet(f, out)
    BY <1>2, Tables
  <1> HIDE DEF D, f, came, went, gain, loss, in, out
  <1>9. Summable(gain, of) /\ SumFunctionOnSet(gain, of) = SumFunctionOnSet(f, in)
    BY <1>1, <1>3, <1>4, SumByClass
  <1>10. Summable(loss, of) /\ SumFunctionOnSet(loss, of) = SumFunctionOnSet(f, out)
    BY <1>1, <1>3, <1>5, SumByClass
  <1>11. SumFunctionOnSet(bal, of) = SumFunctionOnSet(gain, of) - SumFunctionOnSet(loss, of)
    BY <1>6, <1>9, <1>10, SumDifference
  <1> QED
    BY <1>7, <1>8, <1>9, <1>10, <1>11

(* The forecast counts what came from others and what went to others, but  *)
(* for the prepayments; the rest are transfers between the user's accounts. *)
LEMMA PredictionAddsUp ==
    ASSUME NEW a \in Accounts, rows \in Table
    PROVE  LET own == Belonging(Owner[a])
               p   == PredictBalance(Owner[a], a)
           IN  p.income - p.expense - Prepaid(rows, {a})
                   + (Between(rows, own, {a}) - Between(rows, {a}, own))
                   = Into(rows, a) - OutOf(rows, a)
  <1> DEFINE u == Owner[a]
             own == Belonging(u)
             D == DOMAIN rows
             p == PredictBalance(u, a)
             gained == {i \in D : rows[i].to = a /\ rows[i].from \notin own}
             spent == {i \in D : /\ rows[i].from = a /\ rows[i].to \notin own
                                 /\ rows[i].type # "credit_prepayment"}
             prepaid == {i \in D : rows[i].type = "credit_prepayment" /\ rows[i].from \in {a}}
             from == {i \in D : rows[i].from \in own /\ rows[i].to \in {a}}
             to == {i \in D : rows[i].from \in {a} /\ rows[i].to \in own}
  <1>r. ASSUME NEW r \in FormedRow
        PROVE  /\ (\/ r.type \in ForecastIncomeTypes /\ r.to = a /\ r.user = u
                   \/ r.type = "transfer" /\ r.to = a /\ External(r.from, u))
                  <=> (r.to = a /\ r.from \notin own)
               /\ (\/ r.type \in ForecastExpenseTypes /\ r.from = a
                   \/ r.type = "transfer" /\ r.from = a /\ External(r.to, u))
                  <=> (r.from = a /\ r.to \notin own /\ r.type # "credit_prepayment")
               /\ r.type = "credit_prepayment" => r.to = Null
    <2> USE StatisticsAssumption DEF StatisticsAssumption, FormedRow, OwnerOf, External,
          Belonging, Incoming, Outgoing, ForecastIncomeTypes, ForecastExpenseTypes,
          Types, Parties
    <2>1. CASE r.type \in Incoming
      BY <2>1
    <2>2. CASE r.type = "transfer"
      BY <2>2
    <2>3. CASE r.type \notin Incoming /\ r.type # "transfer"
      BY <2>3
    <2> QED
      BY <2>1, <2>2, <2>3
  <1>1. p.income = AmountOf(rows, gained)
    <2>1. Where(rows, LAMBDA r :
        \/ r.type \in ForecastIncomeTypes /\ r.to = a /\ r.user = u
        \/ r.type = "transfer" /\ r.to = a /\ External(r.from, u)) = gained
      BY Tables, <1>r DEF Where
    <2> QED
      BY <2>1 DEF PredictBalance, Total
  <1>2. p.expense = AmountOf(rows, spent)
    <2>1. Where(rows, LAMBDA r :
        \/ r.type \in ForecastExpenseTypes /\ r.from = a
        \/ r.type = "transfer" /\ r.from = a /\ External(r.to, u)) = spent
      BY Tables, <1>r DEF Where
    <2> QED
      BY <2>1 DEF PredictBalance, Total
  <1>3. /\ Prepaid(rows, {a}) = AmountOf(rows, prepaid)
        /\ Between(rows, own, {a}) = AmountOf(rows, from)
        /\ Between(rows, {a}, own) = AmountOf(rows, to)
    BY DEF Prepaid, Between, Total, Where
  <1>4. Null \notin own /\ a \in own
    BY StatisticsAssumption DEF StatisticsAssumption, Belonging
  <1>5. ASSUME NEW i \in prepaid PROVE rows[i].to = Null
    BY Tables, <1>r
  <1>6. {gained, spent, prepaid, from, to, spent \cup prepaid} \subseteq SUBSET D
    OBVIOUS
  <1>7. Credited(rows, a) = gained \cup from /\ gained \cap from = {}
    BY DEF Credited
  <1>8. spent \cap prepaid = {} /\ spent \cap to = {}
    OBVIOUS
  <1>9. prepaid \cap to = {}
    BY <1>4, <1>5
  <1>10. Debited(rows, a) = (spent \cup prepaid) \cup to
    BY <1>4, <1>5 DEF Debited
  <1> HIDE DEF p, gained, spent, prepaid, from, to
  <1>11. (spent \cup prepaid) \cap to = {}
    BY <1>8, <1>9
  <1>12. /\ Into(rows, a) = AmountOf(rows, gained) + AmountOf(rows, from)
         /\ OutOf(rows, a) = AmountOf(rows, spent \cup prepaid) + AmountOf(rows, to)
         /\ AmountOf(rows, spent \cup prepaid) = AmountOf(rows, spent) + AmountOf(rows, prepaid)
    <2>1. AmountOf(rows, Credited(rows, a)) = AmountOf(rows, gained) + AmountOf(rows, from)
      BY <1>6, <1>7, AmountParts
    <2>2. AmountOf(rows, Debited(rows, a))
              = AmountOf(rows, spent \cup prepaid) + AmountOf(rows, to)
      BY <1>6, <1>10, <1>11, AmountParts
    <2>3. AmountOf(rows, spent \cup prepaid) = AmountOf(rows, spent) + AmountOf(rows, prepaid)
      BY <1>6, <1>8, AmountParts
    <2> QED
      BY <2>1, <2>2, <2>3, AccountSums
  <1>13. \A those \in {gained, spent, prepaid, from, to} : AmountOf(rows, those) \in Nat
    BY <1>6, Tables
  <1>14. p.income - p.expense - Prepaid(rows, {a})
             + (Between(rows, own, {a}) - Between(rows, {a}, own))
             = Into(rows, a) - OutOf(rows, a)
    BY <1>1, <1>2, <1>3, <1>12, <1>13
  <1> QED
    BY <1>14 DEF p

(* The statistics of an account count what came into it and what left it.  *)
LEMMA AccountAddsUp ==
    ASSUME NEW a \in Accounts, rows \in Table
    PROVE  Net(OperationStatistics("from", "to", a).summary) = Into(rows, a) - OutOf(rows, a)
  <1> DEFINE D == DOMAIN rows
             those == Where(rows, LAMBDA r : a \in {r["from"], r["to"]})
             base == Base("from", "to", a)
             flow == Flow("from", "to", a, base)
             Dir(r) == Direction("from", "to", a, r)
             incomes == {i \in DOMAIN base : Dir(base[i]) = "income"}
             expenses == {i \in DOMAIN base : Dir(base[i]) = "expense"}
  <1>1. ASSUME NEW i \in D
        PROVE  /\ rows[i]["from"] = rows[i].from /\ rows[i]["to"] = rows[i].to
               /\ rows[i].from # rows[i].to
    BY Tables, StatisticsAssumption DEF FormedRow, StatisticsAssumption
  <1>2. DOMAIN base = {i \in D : rows[i].from = a \/ rows[i].to = a}
    BY <1>1 DEF Base, Restrict, Where
  <1>3. ASSUME NEW i \in DOMAIN base
        PROVE  i \in D /\ base[i] = rows[i]
    BY <1>2 DEF Base, Restrict
  <1>4. ASSUME NEW i \in D
        PROVE  /\ Dir(rows[i]) = "income" <=> rows[i].to = a
               /\ Dir(rows[i]) = "expense" <=> rows[i].from = a
    BY <1>1 DEF Direction
  <1>5. incomes = Credited(rows, a) /\ expenses = Debited(rows, a)
    BY <1>2, <1>3, <1>4 DEF Credited, Debited
  <1>6. ASSUME NEW part \in SUBSET DOMAIN base
        PROVE  AmountOf(base, part) = AmountOf(rows, part)
    <2>1. part \in SUBSET D
      BY <1>3
    <2>2. /\ Summable(Amount(rows), part)
          /\ AmountOf(rows, part) = SumFunctionOnSet(Amount(rows), part)
      BY <2>1, Tables
    <2>3. \A i \in part : Amount(base)[i] = Amount(rows)[i]
      BY <1>3 DEF Amount
    <2>4. SumFunctionOnSet(Amount(base), part) = SumFunctionOnSet(Amount(rows), part)
      BY <2>2, <2>3, SumSame
    <2> QED
      BY <2>2, <2>4 DEF AmountOf, Amount
  <1>7. flow.income = AmountOf(base, incomes) /\ flow.expense = AmountOf(base, expenses)
    BY DEF Flow, Total, Where
  <1>8. OperationStatistics("from", "to", a).summary = flow
    BY DEF OperationStatistics
  <1> HIDE DEF flow, incomes, expenses
  <1>9. incomes \in SUBSET DOMAIN base /\ expenses \in SUBSET DOMAIN base
    BY DEF incomes, expenses
  <1>10. flow.income = Into(rows, a) /\ flow.expense = OutOf(rows, a)
    BY <1>5, <1>6, <1>7, <1>9, AccountSums
  <1> QED
    BY <1>8, <1>10 DEF Net

(* Together: if each balance is what the table says, the queries agree.    *)
LEMMA BooksAddUp ==
    ASSUME rows \in Table, Accounted(rows, balance, Accounts)
    PROVE  StatisticsMatchBalances
  <1>1. ASSUME NEW a \in Accounts
        PROVE  LET u     == Owner[a]
                   p     == PredictBalance(u, a)
                   inner == Between(rows, Belonging(u), {a}) - Between(rows, {a}, Belonging(u))
               IN  p.income - p.expense - Prepaid(rows, {a}) + inner = p.balance
    <2>1. PredictBalance(Owner[a], a).balance = balance[a]
      BY DEF PredictBalance
    <2> QED
      BY <2>1, PredictionAddsUp DEF Accounted
  <1>2. ASSUME NEW u \in Applicants
        PROVE  MonthlyIncome(rows, u) - MonthlyExpense(rows, u) - Prepaid(rows, Belonging(u))
                   = SumFunctionOnSet(balance, Belonging(u))
    <2>1. Belonging(u) \in SUBSET Accounts /\ Accounted(rows, balance, Belonging(u))
      BY DEF Belonging, Accounted
    <2>2. SumFunctionOnSet(balance, Belonging(u)) = Holdings(rows, Belonging(u))
      BY <2>1, HoldingsByAccount
    <2>3. \A of : Holdings(rows, of) \in Int /\ Prepaid(rows, of) \in Int
      BY HoldingsInt
    <2> QED
      BY <2>2, <2>3, MonthAddsUp
  <1>3. ASSUME NEW a \in Accounts
        PROVE  Net(OperationStatistics("from", "to", a).summary) = balance[a]
    BY AccountAddsUp DEF Accounted
  <1> QED
    BY <1>1, <1>2, <1>3 DEF StatisticsMatchBalances

----------------------------------------------------------------------------
(* What is written is formed, unless it is a transfer from an account to   *)
(* itself.                                                                 *)
LEMMA PostingsFormed ==
    ASSUME NEW posting \in Postings, \A i \in DOMAIN posting : posting[i].from # posting[i].to
    PROVE  posting \in Table
  <1> USE StatisticsAssumption DEF StatisticsAssumption, Table, FormedRow, Types, Parties,
        Incoming, Outgoing, Row
  <1>1. ASSUME NEW r \in FormedRow
        PROVE  <<r>> \in Table
    OBVIOUS
  <1>2. ASSUME NEW t \in Incoming, NEW a \in Accounts, NEW m \in Amounts
        PROVE  CreditAccount(t, a, m) \in FormedRow
    BY DEF CreditAccount
  <1>3. ASSUME NEW t \in Outgoing \cup {"penalty"}, NEW a \in Accounts, NEW m \in Amounts
        PROVE  DebitAccount(t, a, m) \in FormedRow
    BY DEF DebitAccount
  <1>4. ASSUME NEW k \in Cards, NEW m \in Amounts
        PROVE  PayByCard(k, m) \in FormedRow
    BY DEF PayByCard
  <1>5. ASSUME NEW a \in Accounts, NEW b \in Accounts, a # b, NEW m \in Amounts
        PROVE  TransferBetween(a, b, m) \in FormedRow
    BY <1>5 DEF TransferBetween
  <1>6. ASSUME NEW k \in Cards, NEW l \in Cards, CardAccount[k] # CardAccount[l],
               NEW m \in Amounts
        PROVE  TransferByCard(k, l, m) \in FormedRow
    BY <1>6 DEF TransferByCard
  <1> USE DEF Postings
  <1>7. CASE \E t \in Incoming, a \in Accounts, m \in Amounts :
                posting = <<CreditAccount(t, a, m)>>
    BY <1>1, <1>2, <1>7
  <1>8. CASE \E t \in Outgoing, a \in Accounts, m \in Amounts :
                posting = <<DebitAccount(t, a, m)>>
    BY <1>1, <1>3, <1>8
  <1>9. CASE \E a \in Accounts, m \in Amounts, n \in Amounts :
                posting = <<DebitAccount("credit_payment", a, m), DebitAccount("penalty", a, n)>>
    <2>1. PICK a \in Accounts, m \in Amounts, n \in Amounts :
                posting = <<DebitAccount("credit_payment", a, m), DebitAccount("penalty", a, n)>>
      BY <1>9
    <2>2. /\ DebitAccount("credit_payment", a, m) \in FormedRow
          /\ DebitAccount("penalty", a, n) \in FormedRow
      BY <1>3
    <2> HIDE DEF FormedRow
    <2> QED
      BY <2>1, <2>2
  <1>10. CASE \E k \in Cards, m \in Amounts : posting = <<PayByCard(k, m)>>
    BY <1>1, <1>4, <1>10
  <1>11. CASE \E a \in Accounts, b \in Accounts, m \in Amounts :
                posting = <<TransferBetween(a, b, m)>>
    <2>1. PICK a \in Accounts, b \in Accounts, m \in Amounts :
                posting = <<TransferBetween(a, b, m)>>
      BY <1>11
    <2>2. posting[1].from = a /\ posting[1].to = b /\ 1 \in DOMAIN posting
      BY <2>1 DEF TransferBetween
    <2>3. a # b
      BY <2>2
    <2> QED
      BY <1>1, <1>5, <2>1, <2>3
  <1>12. CASE \E k \in Cards, l \in Cards, m \in Amounts :
                posting = <<TransferByCard(k, l, m)>>
    <2>1. PICK k \in Cards, l \in Cards, m \in Amounts :
                posting = <<TransferByCard(k, l, m)>>
      BY <1>12
    <2>2. posting[1].from = CardAccount[k] /\ posting[1].to = CardAccount[l] /\ 1 \in DOMAIN posting
      BY <2>1 DEF TransferByCard
    <2>3. CardAccount[k] # CardAccount[l]
      BY <2>2
    <2> QED
      BY <1>1, <1>6, <2>1, <2>3
  <1> QED
    BY <1>7, <1>8, <1>9, <1>10, <1>11, <1>12

(* What a selection of a longer table adds up to.                          *)
LEMMA AmountsJoin ==
    ASSUME NEW table \in Table, NEW more \in Table,
           NEW A \in SUBSET DOMAIN table, NEW B \in SUBSET DOMAIN more
    PROVE  LET both  == table \o more
               moved == {Len(table) + i : i \in B}
           IN  /\ A \cup moved \in SUBSET DOMAIN both
               /\ AmountOf(both, A \cup moved) = AmountOf(table, A) + AmountOf(more, B)
  <1> DEFINE both == table \o more
             n == Len(table)
             moved == {n + i : i \in B}
  <1>1. /\ both \in Table /\ n \in Nat /\ Len(more) \in Nat
        /\ DOMAIN table = 1..n /\ DOMAIN more = 1..Len(more)
        /\ DOMAIN both = 1..(n + Len(more))
        /\ \A i \in DOMAIN table : both[i] = table[i]
        /\ \A i \in DOMAIN more : both[n + i] = more[i]
    BY DEF Table
  <1>2. A \in SUBSET DOMAIN both /\ moved \in SUBSET DOMAIN both /\ A \cap moved = {}
    BY <1>1
  <1>3. AmountOf(both, A \cup moved) = AmountOf(both, A) + AmountOf(both, moved)
    BY <1>1, <1>2, AmountParts
  <1>4. AmountOf(both, A) = AmountOf(table, A)
    <2>1. Summable(Amount(table), A) /\ \A i \in A : Amount(both)[i] = Amount(table)[i]
      BY <1>1, <1>2, Tables DEF Amount
    <2>2. SumFunctionOnSet(Amount(both), A) = SumFunctionOnSet(Amount(table), A)
      BY <2>1, SumSame
    <2> QED
      BY <1>1, <1>2, <2>2, Tables
  <1>5. AmountOf(both, moved) = AmountOf(more, B)
    <2> DEFINE g == [i \in B |-> n + i]
    <2>1. IsFiniteSet(B)
      BY Tables, FS_Subset
    <2>2. Lists(g, B, moved, Amount(more), Amount(both))
      <3>1. \A i \in B : g[i] \in moved /\ Amount(more)[i] = Amount(both)[g[i]]
        BY <1>1, <1>2 DEF Amount
      <3>2. \A i, j \in B : g[i] = g[j] => i = j
        BY <1>1
      <3>3. moved = {g[i] : i \in B}
        OBVIOUS
      <3>4. \A y \in moved : Amount(both)[y] \in Int
        <4>1. \A y \in DOMAIN both : Amount(both)[y] \in Nat
          BY <1>1, Tables
        <4> HIDE DEF moved, both
        <4> QED
          BY <1>2, <4>1
      <3> QED
        BY <3>1, <3>2, <3>3, <3>4 DEF Lists
    <2>3. SumFunctionOnSet(Amount(more), B) = SumFunctionOnSet(Amount(both), moved)
      BY <2>1, <2>2, SumReindex
    <2> QED
      BY <1>1, <1>2, <2>3, Tables
  <1>6. A \cup moved \in SUBSET DOMAIN both
    BY <1>2
  <1> QED
    BY <1>3, <1>4, <1>5, <1>6

(* What commits is added to the sides of its accounts.                     *)
LEMMA SidesJoin ==
    ASSUME NEW table \in Table, NEW more \in Table, NEW a
    PROVE  /\ Into(table \o more, a) = Into(table, a) + Into(more, a)
           /\ OutOf(table \o more, a) = OutOf(table, a) + OutOf(more, a)
  <1> DEFINE both == table \o more
             n == Len(table)
  <1>1. /\ both \in Table /\ n \in Nat /\ Len(more) \in Nat
        /\ DOMAIN table = 1..n /\ DOMAIN more = 1..Len(more)
        /\ DOMAIN both = 1..(n + Len(more))
        /\ \A i \in DOMAIN table : both[i] = table[i]
        /\ \A i \in DOMAIN more : both[n + i] = more[i]
    BY DEF Table
  <1>2. ASSUME NEW i \in DOMAIN both, i \notin DOMAIN table
        PROVE  i - n \in DOMAIN more /\ i = n + (i - n)
    BY <1>1, <1>2
  <1>3. Credited(both, a) = Credited(table, a) \cup {n + i : i \in Credited(more, a)}
    BY <1>1, <1>2 DEF Credited
  <1>4. Debited(both, a) = Debited(table, a) \cup {n + i : i \in Debited(more, a)}
    BY <1>1, <1>2 DEF Debited
  <1> HIDE DEF both
  <1>5. both = table \o more
    BY DEF both
  <1>6. AmountOf(both, Credited(both, a))
            = AmountOf(table, Credited(table, a)) + AmountOf(more, Credited(more, a))
    <2>1. Credited(table, a) \in SUBSET DOMAIN table /\ Credited(more, a) \in SUBSET DOMAIN more
      BY AccountSums
    <2> QED
      BY <1>3, <1>5, <2>1, AmountsJoin
  <1>7. AmountOf(both, Debited(both, a))
            = AmountOf(table, Debited(table, a)) + AmountOf(more, Debited(more, a))
    <2>1. Debited(table, a) \in SUBSET DOMAIN table /\ Debited(more, a) \in SUBSET DOMAIN more
      BY AccountSums
    <2> QED
      BY <1>4, <1>5, <2>1, AmountsJoin
  <1> QED
    BY <1>1, <1>5, <1>6, <1>7, AccountSums

(* The invariant of the books: the table is formed, each balance is what   *)
(* the table says, and accounts not opened yet are empty.                  *)
BooksInv ==
    /\ opened \in SUBSET Accounts
    /\ rows \in Table
    /\ Accounted(rows, balance, Accounts)
    /\ \A a \in Accounts \ opened : balance[a] = 0

(* At first nothing is opened and the table is empty.                      *)
LEMMA BooksStart == RegistrationInit /\ BooksInit({}) => BooksInv
  <1> SUFFICES ASSUME BooksInit({}) PROVE BooksInv
    OBVIOUS
  <1>1. rows = <<>> /\ rows \in Table
    BY DEF BooksInit, Table
  <1>2. ASSUME NEW a \in Accounts
        PROVE  Into(rows, a) = 0 /\ OutOf(rows, a) = 0
    <2>1. Credited(rows, a) = {} /\ Debited(rows, a) = {}
      BY <1>1 DEF Credited, Debited
    <2>2. AmountOf(rows, {}) = 0
      BY SumEmpty DEF AmountOf
    <2> QED
      BY <1>1, <2>1, <2>2, AccountSums
  <1>3. \A a \in Accounts : balance[a] = 0
    BY DEF BooksInit
  <1> QED
    BY <1>1, <1>2, <1>3 DEF BooksInv, BooksInit, Accounted

(* What commits is added to the table.                                     *)
LEMMA PostAppends ==
    ASSUME NEW posting \in Postings, Post(posting), rows \in Table
    PROVE  posting \in Table /\ rows' = rows \o posting /\ rows' \in Table
  <1>1. posting \in Table
    BY PostingsFormed DEF Post
  <1> QED
    BY <1>1 DEF Post, Table

(* The balances change by what is added, and only those of opened accounts. *)
LEMMA PostKeepsBooks ==
    ASSUME BooksInv, NEW posting \in Postings, Post(posting)
    PROVE  BooksInv'
  <1>1. rows \in Table /\ posting \in Table /\ rows' = rows \o posting /\ rows' \in Table
    BY PostAppends DEF BooksInv
  <1>2. ASSUME NEW a \in Accounts
        PROVE  /\ balance[a] = Into(rows, a) - OutOf(rows, a)
               /\ balance'[a] = balance[a] + Into(posting, a) - OutOf(posting, a)
               /\ Into(rows', a) = Into(rows, a) + Into(posting, a)
               /\ OutOf(rows', a) = OutOf(rows, a) + OutOf(posting, a)
               /\ {Into(rows, a), OutOf(rows, a), Into(posting, a), OutOf(posting, a)}
                      \subseteq Nat
    BY <1>1, SidesJoin, AccountSums DEF BooksInv, Accounted, Post
  <1>3. \A a \in Accounts : balance'[a] = Into(rows', a) - OutOf(rows', a)
    BY <1>2
  <1>4. opened' = opened
    BY DEF Post
  <1>5. ASSUME NEW a \in Accounts \ opened
        PROVE  balance'[a] = 0
    <2>1. ASSUME NEW i \in DOMAIN posting
          PROVE  posting[i].from # a /\ posting[i].to # a
      <3>1. a # Null
        BY StatisticsAssumption DEF StatisticsAssumption
      <3>2. UNION {{posting[j].from, posting[j].to} \ {Null} : j \in DOMAIN posting} \subseteq opened
        BY DEF Post
      <3> QED
        BY <3>1, <3>2
    <2>2. Credited(posting, a) = {} /\ Debited(posting, a) = {}
      BY <2>1 DEF Credited, Debited
    <2>3. AmountOf(posting, {}) = 0
      BY SumEmpty DEF AmountOf
    <2>4. Into(posting, a) = 0 /\ OutOf(posting, a) = 0
      <3>1. /\ Into(posting, a) = AmountOf(posting, Credited(posting, a))
            /\ OutOf(posting, a) = AmountOf(posting, Debited(posting, a))
        BY <1>1, AccountSums
      <3> QED
        BY <2>2, <2>3, <3>1
    <2>5. balance[a] = 0
      BY DEF BooksInv
    <2>6. balance'[a] = balance[a] + Into(posting, a) - OutOf(posting, a)
      BY <1>2
    <2> QED
      BY <2>4, <2>5, <2>6
  <1> QED
    BY <1>1, <1>3, <1>4, <1>5 DEF BooksInv, Accounted

(* No step breaks the books.                                               *)
LEMMA BooksStep == BooksInv /\ [StatisticsNext]_statisticsVars => BooksInv'
  <1> SUFFICES ASSUME BooksInv, [StatisticsNext]_statisticsVars
               PROVE  BooksInv'
    OBVIOUS
  <1>1. CASE \E posting \in Postings : Post(posting)
    BY <1>1, PostKeepsBooks
  <1>2. CASE \E a \in Accounts : Open(a)
    <2>1. PICK a \in Accounts : Open(a)
      BY <1>2
    <2>2. opened' = opened \cup {a} /\ UNCHANGED <<balance, rows>>
      BY <2>1 DEF Open
    <2> QED
      BY <2>2 DEF BooksInv, Accounted
  <1>3. CASE \E a \in Accounts : SetAccountBlocked(a)
    <2>1. UNCHANGED <<opened, balance, rows>>
      BY <1>3 DEF SetAccountBlocked
    <2> QED
      BY <2>1 DEF BooksInv, Accounted
  <1>4. CASE UNCHANGED bookVars
    <2>1. UNCHANGED <<opened, balance, rows>>
      BY <1>4 DEF bookVars
    <2> QED
      BY <2>1 DEF BooksInv, Accounted
  <1> QED
    BY <1>1, <1>2, <1>3, <1>4 DEF StatisticsNext, statisticsVars, bookVars

(* Every query, each with a list of types of its own, agrees with the      *)
(* balances after any sequence of operations.                              *)
THEOREM ReportsAgreeWithBalances == StatisticsSpec => []StatisticsMatchBalances
  <1>1. RegistrationInit /\ BooksInit({}) => BooksInv
    BY BooksStart
  <1>2. BooksInv /\ [StatisticsNext]_statisticsVars => BooksInv'
    BY BooksStep
  <1>3. BooksInv => StatisticsMatchBalances
    BY BooksAddUp DEF BooksInv
  <1> QED
    BY <1>1, <1>2, <1>3, PTL DEF StatisticsSpec

----------------------------------------------------------------------------
(* Reports in the making.  A table that was stays among the ledgers.       *)
LEMMA LedgersGrow ==
    ASSUME NEW more \in Table, rows \in Table, rows' = rows \o more
    PROVE  Ledgers \subseteq Ledgers'
  <1>1. ASSUME NEW n \in 0..Len(rows)
        PROVE  n \in 0..Len(rows') /\ SubSeq(rows, 1, n) = SubSeq(rows', 1, n)
    <2>1. /\ rows \in Seq(FormedRow) /\ rows' \in Seq(FormedRow)
          /\ Len(rows) \in Nat /\ Len(more) \in Nat
          /\ Len(rows') = Len(rows) + Len(more)
          /\ \A i \in 1..Len(rows) : rows'[i] = rows[i]
      BY DEF Table
    <2>2. \A i \in 1..n : rows'[i] = rows[i]
      BY <2>1
    <2> QED
      BY <2>1, <2>2
  <1> QED
    BY <1>1 DEF Ledgers

(* The ledgers are the beginnings of the table, itself among them.         *)
LEMMA LedgersAre ==
    ASSUME rows \in Table
    PROVE  /\ rows \in Ledgers
           /\ \A table \in Ledgers :
                 /\ table \in Table
                 /\ Len(table) <= Len(rows)
                 /\ DOMAIN table \subseteq DOMAIN rows
                 /\ \A i \in DOMAIN table : table[i] = rows[i]
  <1>1. rows = SubSeq(rows, 1, Len(rows)) /\ Len(rows) \in 0..Len(rows)
    BY DEF Table
  <1>2. ASSUME NEW n \in 0..Len(rows)
        PROVE  /\ SubSeq(rows, 1, n) \in Table /\ Len(SubSeq(rows, 1, n)) = n
               /\ DOMAIN SubSeq(rows, 1, n) \subseteq DOMAIN rows
               /\ \A i \in DOMAIN SubSeq(rows, 1, n) : SubSeq(rows, 1, n)[i] = rows[i]
    BY DEF Table
  <1>3. rows \in Ledgers
    BY <1>1 DEF Ledgers
  <1>4. ASSUME NEW table \in Ledgers
        PROVE  /\ table \in Table
               /\ Len(table) <= Len(rows)
               /\ DOMAIN table \subseteq DOMAIN rows
               /\ \A i \in DOMAIN table : table[i] = rows[i]
    <2>1. PICK n \in 0..Len(rows) : table = SubSeq(rows, 1, n)
      BY DEF Ledgers
    <2>2. Len(rows) \in Nat
      BY DEF Table
    <2> QED
      BY <1>2, <2>1, <2>2
  <1> QED
    BY <1>3, <1>4

(* A user's expenses only grow.                                            *)
LEMMA ExpensesGrow ==
    ASSUME rows \in Table, NEW table \in Ledgers, NEW u \in Applicants
    PROVE  MonthlyExpense(table, u) <= MonthlyExpense(rows, u)
  <1> DEFINE spent(t) == Where(t, LAMBDA r : \/ r.type \in MonthlyExpenseTypes /\ r.user = u
                                             \/ /\ r.type = "transfer"
                                                /\ OwnerOf(r.from) = u
                                                /\ External(r.to, u))
             f == Amount(rows)
  <1>1. /\ table \in Table /\ DOMAIN table \subseteq DOMAIN rows
        /\ \A i \in DOMAIN table : table[i] = rows[i]
    BY LedgersAre
  <1>2. spent(table) \in SUBSET spent(rows) /\ spent(table) \in SUBSET DOMAIN table
        /\ spent(rows) \in SUBSET DOMAIN rows
    BY <1>1 DEF Where
  <1>3. /\ MonthlyExpense(table, u) = AmountOf(table, spent(table))
        /\ MonthlyExpense(rows, u) = AmountOf(rows, spent(rows))
    BY DEF MonthlyExpense, Total
  <1> HIDE DEF spent, f
  <1>4. /\ Summable(f, spent(rows))
        /\ AmountOf(rows, spent(rows)) = SumFunctionOnSet(f, spent(rows))
        /\ \A i \in spent(rows) : f[i] \in Nat
    BY <1>2, Tables DEF f
  <1>5. AmountOf(table, spent(table)) = SumFunctionOnSet(f, spent(table))
    <2>1. Summable(Amount(table), spent(table))
          /\ AmountOf(table, spent(table)) = SumFunctionOnSet(Amount(table), spent(table))
      BY <1>1, <1>2, Tables
    <2>2. \A i \in spent(table) : f[i] = Amount(table)[i]
      BY <1>1, <1>2 DEF f, Amount
    <2> QED
      BY <2>1, <2>2, SumSame
  <1>6. SumFunctionOnSet(f, spent(table)) <= SumFunctionOnSet(f, spent(rows))
    BY <1>2, <1>4, SumOfPart
  <1> QED
    BY <1>3, <1>4, <1>5, <1>6

(* The rows of the report's account or card.                               *)
Mentions(from, to, x) == Where(rows, LAMBDA r : x \in {r[from], r[to]})

(* They are what a report on it counts.                                    *)
LEMMA BaseIs ==
    ASSUME rows \in Table, NEW from, NEW to, NEW x
    PROVE  /\ DOMAIN Base(from, to, x) = Mentions(from, to, x)
           /\ Mentions(from, to, x) \in SUBSET DOMAIN rows
           /\ IsFiniteSet(Mentions(from, to, x))
           /\ Count(Base(from, to, x)) = Cardinality(Mentions(from, to, x))
           /\ Count(Base(from, to, x)) \in Nat
  <1>1. DOMAIN Base(from, to, x) = Mentions(from, to, x)
    BY DEF Base, Mentions, Restrict
  <1>2. Mentions(from, to, x) \in SUBSET DOMAIN rows
    BY DEF Mentions, Where
  <1>3. IsFiniteSet(Mentions(from, to, x))
    BY <1>2, Tables, FS_Subset
  <1> QED
    BY <1>1, <1>2, <1>3, FS_CardinalityType DEF Count

(* groups has one entry for each value of cls, with the number of its rows. *)
Grouped(groups, those, cls) ==
    /\ DOMAIN groups = {cls[i] : i \in those}
    /\ \A t \in DOMAIN groups : groups[t].count = Cardinality({i \in those : cls[i] = t})

(* The counts of the groups add up to the number of rows.                  *)
LEMMA GroupsCount ==
    ASSUME NEW those, IsFiniteSet(those), NEW cls, NEW groups, Grouped(groups, those, cls)
    PROVE  CountOf(groups) = Cardinality(those)
  <1> DEFINE R == {cls[i] : i \in those}
             g == [t \in DOMAIN groups |-> groups[t].count]
  <1>1. IsFiniteSet(R)
    <2> DEFINE h == [i \in those |-> cls[i]]
    <2>1. h \in Surjection(those, R)
      BY DEF Surjection
    <2> QED
      BY <2>1, FS_Surjection
  <1>2. Counted(cls, those, R, g)
    BY DEF Counted, Grouped
  <1>3. CountOf(groups) = SumFunctionOnSet(g, R)
    BY DEF CountOf, Grouped
  <1> HIDE DEF R, g
  <1> QED
    BY <1>1, <1>2, <1>3, CountByClass

(* The columns of the two sides, and what a report would count now.        *)
Sides(kind) == IF kind = "account" THEN <<"from", "to">> ELSE <<"fromCard", "toCard">>
Now(r) == Count(Base(Sides(r.kind)[1], Sides(r.kind)[2], r.about))

(* Every section of a report on an account or a card counts the same rows. *)
LEMMA OperationSections ==
    ASSUME rows \in Table, NEW from, NEW to, NEW x
    PROVE  LET s == OperationStatistics(from, to, x)
               n == Count(Base(from, to, x))
           IN  /\ s.summary.count = n
               /\ CountOf(s.byType) = n
               /\ s.byStatus.count = n
               /\ s.entries = ListLimit \/ s.entries = n
  <1> DEFINE base == Base(from, to, x)
             s == OperationStatistics(from, to, x)
             n == Count(base)
  <1>1. s.summary.count = n
    BY DEF OperationStatistics, Flow
  <1>2. s.byStatus.count = n
    BY DEF OperationStatistics
  <1>3. s.entries = ListLimit \/ s.entries = n
    BY DEF OperationStatistics, Listed
  <1>4. CountOf(s.byType) = n
    <2> DEFINE cls == [i \in DOMAIN base |-> base[i].type]
               V(table) == Flow(from, to, x, table)
               types == {base[i].type : i \in DOMAIN base}
               Of(t) == Restrict(base, Where(base, LAMBDA r : r.type = t))
    <2>1. s.byType = [t \in types |-> V(Of(t))]
      BY DEF OperationStatistics, GroupByType
    <2>2. ASSUME NEW t
          PROVE  V(Of(t)).count
                    = Cardinality({i \in DOMAIN base : cls[i] = t})
      <3>1. Where(base, LAMBDA r : r.type = t) = {i \in DOMAIN base : cls[i] = t}
        BY DEF Where
      <3>2. V(Of(t)).count
                = Cardinality(Where(base, LAMBDA r : r.type = t))
        BY DEF Flow, Count, Restrict
      <3> QED
        BY <3>1, <3>2
    <2>3. types = {cls[i] : i \in DOMAIN base}
      OBVIOUS
    <2> HIDE DEF V, Of, types, cls, s
    <2>4. Grouped(s.byType, DOMAIN base, cls)
      BY <2>1, <2>2, <2>3 DEF Grouped
    <2>5. IsFiniteSet(DOMAIN base) /\ Cardinality(DOMAIN base) = n
      BY BaseIs DEF Count
    <2> QED
      BY <2>4, <2>5, GroupsCount
  <1> QED
    BY <1>1, <1>2, <1>3, <1>4

(* The total balance is that of the whole table, as accounts that are not  *)
(* opened are empty; and every section on transactions counts all rows.    *)
LEMMA SystemSections ==
    ASSUME BooksInv
    PROVE  LET s == SystemStatistics
           IN  /\ s.accounts.balance = Holdings(rows, Accounts)
               /\ s.transactions.count = Len(rows)
               /\ CountOf(s.types) = Len(rows)
               /\ s.recent = ListLimit \/ s.recent = Len(rows)
  <1> DEFINE s == SystemStatistics
  <1>0. /\ rows \in Table /\ Len(rows) \in Nat
        /\ DOMAIN rows = 1..Len(rows) /\ Count(rows) = Len(rows)
    <2>1. rows \in Table /\ Len(rows) \in Nat /\ DOMAIN rows = 1..Len(rows)
      BY DEF BooksInv, Table
    <2>2. Cardinality(1..Len(rows)) = Len(rows)
      <3> DEFINE n == Len(rows)
      <3>1. n \in Nat
        BY <2>1
      <3> HIDE DEF n
      <3>2. Cardinality(1..n) = n
        <4>1. Cardinality(1..n) = IF 1 > n THEN 0 ELSE n - 1 + 1
          BY <3>1, FS_Interval
        <4> QED
          BY <3>1, <4>1
      <3> QED
        BY <3>2 DEF n
    <2> QED
      BY <2>1, <2>2 DEF Count
  <1>1. s.accounts.balance = Holdings(rows, Accounts)
    <2>1. s.accounts.balance = SumFunctionOnSet(balance, opened)
      BY DEF SystemStatistics, AccountStatistics
    <2>2. Accounted(rows, balance, Accounts) /\ opened \in SUBSET Accounts
      BY DEF BooksInv
    <2>3. SumFunctionOnSet(balance, Accounts) = Holdings(rows, Accounts)
      BY <1>0, <2>2, HoldingsByAccount
    <2>4. Summable(balance, Accounts)
      <3>1. \A a \in Accounts : balance[a] \in Int
        BY <1>0, <2>2, AccountSums DEF Accounted
      <3> QED
        BY <3>1, StatisticsAssumption DEF StatisticsAssumption, Summable
    <2>5. SumFunctionOnSet(balance, Accounts \ opened) = 0
      <3>1. IsFiniteSet(Accounts \ opened)
        BY FS_Subset, StatisticsAssumption DEF StatisticsAssumption
      <3>2. SumFunctionOnSet(balance, Accounts \ opened) = 0 * Cardinality(Accounts \ opened)
        BY <3>1, SumConst DEF BooksInv
      <3> QED
        BY <3>1, <3>2, FS_CardinalityType
    <2>6. SumFunctionOnSet(balance, Accounts)
              = SumFunctionOnSet(balance, opened) + SumFunctionOnSet(balance, Accounts \ opened)
      BY <2>2, <2>4, SumParts
    <2>7. SumFunctionOnSet(balance, opened) \in Int
      BY <2>2, <2>4, SummablePart, SumInt
    <2> QED
      BY <2>1, <2>3, <2>5, <2>6, <2>7
  <1>2. s.transactions.count = Len(rows)
    BY <1>0 DEF SystemStatistics, TransactionStatistics
  <1>3. s.recent = ListLimit \/ s.recent = Len(rows)
    BY <1>0 DEF SystemStatistics, TransactionStatistics, Listed
  <1>4. CountOf(s.types) = Len(rows)
    <2> DEFINE cls == [i \in DOMAIN rows |-> rows[i].type]
               A(r) == TRUE
               V(table) == [count |-> Count(table), amount |-> Total(table, A)]
               types == {rows[i].type : i \in DOMAIN rows}
               Of(t) == Restrict(rows, Where(rows, LAMBDA r : r.type = t))
    <2>1. s.types = [t \in types |-> V(Of(t))]
      BY DEF SystemStatistics, TransactionStatistics, GroupByType
    <2>2. ASSUME NEW t
          PROVE  V(Of(t)).count
                    = Cardinality({i \in DOMAIN rows : cls[i] = t})
      <3>1. Where(rows, LAMBDA r : r.type = t) = {i \in DOMAIN rows : cls[i] = t}
        BY DEF Where
      <3>2. V(Of(t)).count
                = Cardinality(Where(rows, LAMBDA r : r.type = t))
        BY DEF Count, Restrict
      <3> QED
        BY <3>1, <3>2
    <2>3. types = {cls[i] : i \in DOMAIN rows}
      OBVIOUS
    <2> HIDE DEF V, Of, types, cls, s
    <2>4. Grouped(s.types, DOMAIN rows, cls)
      BY <2>1, <2>2, <2>3 DEF Grouped
    <2>5. IsFiniteSet(DOMAIN rows) /\ Cardinality(DOMAIN rows) = Len(rows)
      BY <1>0, FS_Interval DEF Count
    <2> QED
      BY <2>4, <2>5, GroupsCount
  <1> QED
    BY <1>1, <1>2, <1>3, <1>4

Kinds == {"account", "card", "month", "system"}

(* The first k sections of r have been read.                               *)
ReadSoFar(r, k) ==
    /\ k \in 0..Len(Order(r.kind))
    /\ DOMAIN r.read = {Order(r.kind)[i] : i \in 1..k}
    /\ IsFiniteSet(DOMAIN r.read)
    /\ Cardinality(DOMAIN r.read) = k

(* A report that is in the making.                                         *)
ReportShape(r) ==
    /\ r = [kind |-> r.kind, user |-> r.user, about |-> r.about, read |-> r.read,
            asked |-> r.asked]
    /\ r.asked \in Nat
    /\ r.kind \in Kinds
    /\ r.user \in Applicants
    /\ \E k \in Nat : ReadSoFar(r, k)

Has(n) == n \in DOMAIN report.read

(* On an account or a card: each section counts no less than the one before *)
(* it, and no more than there is now; and what there is now exceeds the    *)
(* summary by no more than has been committed meanwhile.                   *)
OperationsRead ==
    report # NoReport /\ report.kind \in {"account", "card"} =>
        /\ Now(report) \in Nat /\ report.asked <= Len(rows)
        /\ Has("summary") =>
              /\ report.read.summary.count \in Nat
              /\ report.read.summary.count <= Now(report)
              /\ Now(report) <= report.read.summary.count + Meanwhile(report)
        /\ Has("byType") =>
              /\ CountOf(report.read.byType) \in Nat
              /\ report.read.summary.count <= CountOf(report.read.byType)
              /\ CountOf(report.read.byType) <= Now(report)
        /\ Has("byStatus") =>
              /\ report.read.byStatus.count \in Nat
              /\ CountOf(report.read.byType) <= report.read.byStatus.count
              /\ report.read.byStatus.count <= Now(report)
        /\ Has("entries") =>
              \/ report.read.entries = ListLimit
              \/ report.read.byStatus.count <= report.read.entries

(* On a month: the income is that of some ledger since it was asked for.   *)
MonthRead ==
    report # NoReport /\ report.kind = "month" =>
        /\ rows \in LedgersSince(report)
        /\ Has("income") => \E table \in LedgersSince(report) :
              report.read.income = MonthlyIncome(table, report.user)
        /\ Has("expense") => \E table \in LedgersSince(report) :
              report.read.income - report.read.expense
                  <= Holdings(table, Belonging(report.user))
                         + Prepaid(table, Belonging(report.user))

(* On the system: the balance is that of some ledger since it was asked    *)
(* for, no longer than the transactions counted after it; these are no more *)
(* than there are now.                                                     *)
SystemRead ==
    report # NoReport /\ report.kind = "system" =>
        /\ rows \in LedgersSince(report)
        /\ Has("accounts") => \E table \in LedgersSince(report) :
              Holdings(table, Accounts) = report.read.accounts.balance
        /\ Has("transactions") =>
              /\ report.read.transactions.count \in Nat
              /\ report.read.transactions.count <= Len(rows)
              /\ \E table \in LedgersSince(report) :
                    /\ Len(table) <= report.read.transactions.count
                    /\ Holdings(table, Accounts) = report.read.accounts.balance
        /\ Has("types") =>
              /\ CountOf(report.read.types) \in Nat
              /\ report.read.transactions.count <= CountOf(report.read.types)
              /\ CountOf(report.read.types) <= Len(rows)
        /\ Has("recent") =>
              \/ report.read.recent = ListLimit
              \/ CountOf(report.read.types) <= report.read.recent

ReportInv ==
    /\ report # NoReport => ReportShape(report)
    /\ OperationsRead
    /\ MonthRead
    /\ SystemRead

(* The orders, section by section: none is named twice.                    *)
LEMMA Orders ==
    ASSUME NEW kind \in Kinds
    PROVE  /\ Len(Order(kind)) \in Nat
           /\ \A i, j \in 1..Len(Order(kind)) : Order(kind)[i] = Order(kind)[j] => i = j
           /\ kind \in {"account", "card"} =>
                 /\ Len(Order(kind)) = 4
                 /\ Order(kind)[1] = "summary" /\ Order(kind)[2] = "byType"
                 /\ Order(kind)[3] = "byStatus" /\ Order(kind)[4] = "entries"
           /\ kind = "month" =>
                 /\ Len(Order(kind)) = 2
                 /\ Order(kind)[1] = "income" /\ Order(kind)[2] = "expense"
           /\ kind = "system" =>
                 /\ Len(Order(kind)) = 5
                 /\ Order(kind)[1] = "users" /\ Order(kind)[2] = "accounts"
                 /\ Order(kind)[3] = "transactions" /\ Order(kind)[4] = "types"
                 /\ Order(kind)[5] = "recent"
  <1> DEFINE order == Order(kind)
  <1>1. CASE kind \in {"account", "card"}
    <2>1. order = <<"summary", "byType", "byStatus", "entries">>
      BY <1>1 DEF Order
    <2>2. /\ Len(order) = 4 /\ order[1] = "summary" /\ order[2] = "byType"
          /\ order[3] = "byStatus" /\ order[4] = "entries"
      BY <2>1
    <2> HIDE DEF order
    <2>3. \A i, j \in 1..Len(order) : order[i] = order[j] => i = j
      BY <2>2
    <2> QED
      BY <1>1, <2>2, <2>3 DEF order
  <1>2. CASE kind = "month"
    <2>1. order = <<"income", "expense">>
      BY <1>2 DEF Order
    <2>2. Len(order) = 2 /\ order[1] = "income" /\ order[2] = "expense"
      BY <2>1
    <2> HIDE DEF order
    <2>3. \A i, j \in 1..Len(order) : order[i] = order[j] => i = j
      BY <2>2
    <2> QED
      BY <1>2, <2>2, <2>3 DEF order
  <1>3. CASE kind = "system"
    <2>1. order = <<"users", "accounts", "transactions", "types", "recent">>
      BY <1>3 DEF Order
    <2>2. /\ Len(order) = 5 /\ order[1] = "users" /\ order[2] = "accounts"
          /\ order[3] = "transactions" /\ order[4] = "types" /\ order[5] = "recent"
      BY <2>1
    <2> HIDE DEF order
    <2>3. \A i, j \in 1..Len(order) : order[i] = order[j] => i = j
      BY <2>2
    <2> QED
      BY <1>3, <2>2, <2>3 DEF order
  <1> QED
    BY <1>1, <1>2, <1>3 DEF Kinds

(* If a section was read, so were those before it.                         *)
LEMMA SectionsInOrder ==
    ASSUME NEW r, ReportShape(r)
    PROVE  /\ r.kind \in {"account", "card"} =>
                /\ "byType" \in DOMAIN r.read => "summary" \in DOMAIN r.read
                /\ "byStatus" \in DOMAIN r.read => "byType" \in DOMAIN r.read
                /\ "entries" \in DOMAIN r.read => "byStatus" \in DOMAIN r.read
           /\ r.kind = "month" => ("expense" \in DOMAIN r.read => "income" \in DOMAIN r.read)
           /\ r.kind = "system" =>
                /\ "transactions" \in DOMAIN r.read => "accounts" \in DOMAIN r.read
                /\ "types" \in DOMAIN r.read => "transactions" \in DOMAIN r.read
                /\ "recent" \in DOMAIN r.read => "types" \in DOMAIN r.read
  <1>1. PICK k \in Nat : ReadSoFar(r, k)
    BY DEF ReportShape
  <1>2. r.kind \in Kinds
    BY DEF ReportShape
  <1> DEFINE order == Order(r.kind)
  <1>3. ASSUME NEW i \in 1..Len(order), NEW j \in 1..Len(order), i <= j, order[j] \in DOMAIN r.read
        PROVE  order[i] \in DOMAIN r.read
    <2>1. PICK m \in 1..k : order[m] = order[j]
      BY <1>1, <1>3 DEF ReadSoFar
    <2>2. m = j
      BY <1>1, <1>2, <2>1, Orders DEF ReadSoFar
    <2>3. i \in 1..k
      BY <1>2, <1>3, <2>1, <2>2, Orders
    <2> QED
      BY <1>1, <2>3 DEF ReadSoFar
  <1>4. CASE r.kind \in {"account", "card"}
    <2>1. /\ Len(order) = 4 /\ order[1] = "summary" /\ order[2] = "byType"
          /\ order[3] = "byStatus" /\ order[4] = "entries"
      BY <1>2, <1>4, Orders
    <2> HIDE DEF order
    <2> QED
      BY <1>3, <1>4, <2>1
  <1>5. CASE r.kind = "month"
    <2>1. Len(order) = 2 /\ order[1] = "income" /\ order[2] = "expense"
      BY <1>2, <1>5, Orders
    <2> HIDE DEF order
    <2> QED
      BY <1>3, <1>5, <2>1
  <1>6. CASE r.kind = "system"
    <2>1. /\ Len(order) = 5 /\ order[1] = "users" /\ order[2] = "accounts"
          /\ order[3] = "transactions" /\ order[4] = "types" /\ order[5] = "recent"
      BY <1>2, <1>6, Orders
    <2> HIDE DEF order
    <2> QED
      BY <1>3, <1>6, <2>1
  <1> QED
    BY <1>2, <1>4, <1>5, <1>6 DEF Kinds

(* Reading a section adds it to the report.                                *)
LEMMA NextSection ==
    ASSUME ReportShape(report), ReadSection
    PROVE  /\ report # NoReport
           /\ report'.kind = report.kind
           /\ report'.user = report.user
           /\ report'.about = report.about
           /\ report'.asked = report.asked
           /\ \A s \in DOMAIN report.read :
                 s \in DOMAIN report'.read /\ report'.read[s] = report.read[s]
           /\ \A s \in DOMAIN report'.read :
                 s \in DOMAIN report.read \/ report'.read[s] = Sections(report)[s]
           /\ ReportShape(report')
  <1>1. report # NoReport
    BY DEF ReadSection
  <1>2. PICK k \in Nat : ReadSoFar(report, k)
    BY <1>1 DEF ReportShape
  <1> DEFINE order == Order(report.kind)
             next == order[k + 1]
             read == [s \in DOMAIN report.read \cup {next} |->
                          IF s = next THEN Sections(report)[s] ELSE report.read[s]]
  <1>3. k < Len(order) /\ report' = [report EXCEPT !.read = read]
    BY <1>2 DEF ReadSection, ReadSoFar
  <1>4. report.kind \in Kinds /\ report = [kind |-> report.kind, user |-> report.user,
                     about |-> report.about, read |-> report.read,
                     asked |-> report.asked]
    BY <1>1 DEF ReportShape
  <1>5. next \notin DOMAIN report.read
    <2>1. /\ Len(order) \in Nat /\ k < Len(order) /\ k \in Nat
          /\ \A i, j \in 1..Len(order) : order[i] = order[j] => i = j
      BY <1>2, <1>3, <1>4, Orders
    <2>2. DOMAIN report.read = {order[i] : i \in 1..k}
      BY <1>2 DEF ReadSoFar
    <2> HIDE DEF order
    <2> QED
      BY <2>1, <2>2
  <1> HIDE DEF read
  <1>6. report' = [kind |-> report.kind, user |-> report.user,
                     about |-> report.about, read |-> read, asked |-> report.asked]
    BY <1>3, <1>4
  <1>7. /\ report'.kind = report.kind /\ report'.user = report.user
        /\ report'.about = report.about /\ report'.read = read
        /\ report'.asked = report.asked
    BY <1>6
  <1>8. DOMAIN read = DOMAIN report.read \cup {next}
    BY DEF read
  <1>9. /\ \A s \in DOMAIN report.read : s \in DOMAIN read /\ read[s] = report.read[s]
        /\ \A s \in DOMAIN read : s \in DOMAIN report.read \/ read[s] = Sections(report)[s]
    BY <1>5 DEF read
  <1>10. ReadSoFar(report', k + 1)
    <2>1. k + 1 \in 0..Len(order)
      BY <1>3, <1>4, Orders
    <2>2. DOMAIN read = {order[i] : i \in 1..(k + 1)}
      BY <1>2, <1>8 DEF ReadSoFar
    <2>3. IsFiniteSet(DOMAIN read) /\ Cardinality(DOMAIN read) = k + 1
      <3> DEFINE old == DOMAIN report.read
      <3>1. IsFiniteSet(old) /\ Cardinality(old) = k /\ next \notin old
        BY <1>2, <1>5 DEF ReadSoFar
      <3>2. DOMAIN read = old \cup {next}
        BY <1>8
      <3> HIDE DEF old, next
      <3>3. IsFiniteSet(old \cup {next}) /\ Cardinality(old \cup {next}) = Cardinality(old) + 1
        BY <3>1, FS_AddElement
      <3> QED
        BY <3>1, <3>2, <3>3
    <2> QED
      BY <1>7, <2>1, <2>2, <2>3 DEF ReadSoFar
  <1>11. ReportShape(report')
    <2>1. k + 1 \in Nat /\ report'.user \in Applicants /\ report'.asked \in Nat
      BY <1>1, <1>7 DEF ReportShape
    <2> QED
      BY <1>4, <1>6, <1>7, <1>10, <2>1 DEF ReportShape
  <1> QED
    BY <1>1, <1>7, <1>9, <1>11

(* The invariant says more than the property.                              *)
LEMMA ReportsAreInOrder == ReportInv /\ rows \in Table => ReportsMoveForward
  <1> SUFFICES ASSUME ReportInv, rows \in Table, report # NoReport
               PROVE  ReportsMoveForward
    BY DEF ReportsMoveForward
  <1>1. CASE report.kind \in {"account", "card"}
    <2> DEFINE least == report.read.summary.count
               typed == CountOf(report.read.byType)
               stated == report.read.byStatus.count
               n == Now(report)
               more == Meanwhile(report)
    <2>1. /\ Has("byStatus") => Has("byType")
          /\ Has("byType") => Has("summary")
      BY <1>1, SectionsInOrder DEF ReportInv, Has
    <2>2. more \in Int
      <3>1. Len(rows) \in Nat /\ report.asked \in Nat
        BY DEF ReportInv, ReportShape, Table
      <3> QED
        BY <3>1 DEF Meanwhile
    <2>3. /\ n \in Nat
          /\ Has("summary") => least \in Nat /\ least <= n /\ n <= least + more
          /\ Has("byType") => typed \in Nat /\ least <= typed /\ typed <= n
          /\ Has("byStatus") => stated \in Nat /\ typed <= stated /\ stated <= n
          /\ Has("entries") =>
                report.read.entries = ListLimit \/ report.read.entries >= stated
      BY <1>1 DEF ReportInv, OperationsRead
    <2> HIDE DEF least, typed, stated, n, more
    <2>4. /\ Has("byType") => typed \in least .. least + more
          /\ Has("byStatus") => stated \in typed .. least + more
      BY <2>1, <2>2, <2>3
    <2> QED
      BY <1>1, <2>3, <2>4 DEF ReportsMoveForward, Has, least, typed, stated, more
  <1>2. CASE report.kind = "month"
    <2>1. Has("income") /\ Has("expense") => \E table \in LedgersSince(report) :
              report.read.income - report.read.expense
                  <= Holdings(table, Belonging(report.user))
                         + Prepaid(table, Belonging(report.user))
      BY <1>2 DEF ReportInv, MonthRead
    <2> QED
      BY <1>2, <2>1 DEF ReportsMoveForward, Has
  <1>3. CASE report.kind = "system"
    <2>1. /\ Has("accounts") /\ Has("transactions") => \E table \in LedgersSince(report) :
                /\ Len(table) <= report.read.transactions.count
                /\ Holdings(table, Accounts) = report.read.accounts.balance
          /\ Has("types") => CountOf(report.read.types) >= report.read.transactions.count
          /\ Has("recent") =>
                report.read.recent = ListLimit \/ report.read.recent >= CountOf(report.read.types)
      BY <1>3 DEF ReportInv, SystemRead
    <2> QED
      BY <1>3, <2>1 DEF ReportsMoveForward, Has
  <1> QED
    BY <1>1, <1>2, <1>3 DEF ReportInv, ReportShape, Kinds

(* While a report waits its rows only become more, by no more than commit. *)
LEMMA MentionsGrow ==
    ASSUME rows \in Table, NEW more \in Table, rows' = rows \o more, UNCHANGED report
    PROVE  /\ Now(report) \in Nat /\ Now(report)' \in Nat
           /\ Now(report) <= Now(report)'
           /\ Now(report)' <= Now(report) + (Len(rows') - Len(rows))
  <1> DEFINE side == Sides(report.kind)
             M == Mentions(side[1], side[2], report.about)
  <1>1. rows' \in Table
    BY DEF Table
  <1>2. /\ DOMAIN rows \subseteq DOMAIN rows'
        /\ \A i \in DOMAIN rows : rows'[i] = rows[i]
    BY DEF Table
  <1>3. M \subseteq M'
    BY <1>2 DEF Mentions, Where
  <1>4. IsFiniteSet(M')
    <2>1. M' \subseteq DOMAIN rows'
      BY DEF Mentions, Where
    <2> QED
      BY <1>1, <2>1, Tables, FS_Subset
  <1>5. Now(report)' = Cardinality(M')
    BY DEF Now, Base, Mentions, Restrict, Count
  <1>6. Now(report) = Cardinality(M)
    BY DEF Now, Base, Mentions, Restrict, Count
  <1> DEFINE l == Len(rows)
             k == Len(rows')
             added == (l + 1)..k
  <1>n. l \in Nat /\ k \in Nat /\ l <= k /\ DOMAIN rows = 1..l /\ DOMAIN rows' = 1..k
    BY <1>1 DEF Table
  <1>m. M' \subseteq M \cup added
    BY <1>2, <1>n DEF Mentions, Where
  <1> HIDE DEF M, l, k
  <1>7. IsFiniteSet(M) /\ Cardinality(M) <= Cardinality(M')
    BY <1>3, <1>4, FS_Subset
  <1>8. IsFiniteSet(added) /\ Cardinality(added) = k - l
    <2>1. l + 1 \in Int /\ k \in Int
      BY <1>n
    <2>2. IsFiniteSet(added) /\ Cardinality(added) = IF l + 1 > k THEN 0 ELSE k - (l + 1) + 1
      BY <2>1, FS_Interval
    <2> QED
      BY <1>n, <2>2
  <1> HIDE DEF added
  <1>9. Cardinality(M') <= Cardinality(M) + (k - l)
    <2>1. /\ IsFiniteSet(M \cup added)
          /\ Cardinality(M \cup added)
                = Cardinality(M) + Cardinality(added) - Cardinality(M \cap added)
      BY <1>7, <1>8, FS_Union
    <2>2. Cardinality(M') <= Cardinality(M \cup added)
      BY <1>m, <2>1, FS_Subset
    <2>3. IsFiniteSet(M \cap added)
      BY <1>7, FS_Subset
    <2>4. /\ Cardinality(M') \in Nat /\ Cardinality(M) \in Nat
          /\ Cardinality(M \cap added) \in Nat
      BY <1>4, <1>7, <2>3, FS_CardinalityType
    <2> QED
      BY <1>n, <1>8, <2>1, <2>2, <2>4
  <1> QED
    BY <1>4, <1>5, <1>6, <1>7, <1>9, FS_CardinalityType DEF k, l

(* Nothing a report says becomes false while operations commit.            *)
LEMMA ReportWaits ==
    ASSUME ReportInv, rows \in Table, UNCHANGED report,
           NEW more \in Table, rows' = rows \o more
    PROVE  ReportInv'
  <1>1. report' # NoReport => ReportShape(report')
    BY DEF ReportInv, ReportShape, ReadSoFar
  <1>2. /\ LedgersSince(report) \subseteq LedgersSince(report)'
        /\ report # NoReport /\ rows \in LedgersSince(report) =>
               rows' \in LedgersSince(report)'
    <2>1. Ledgers \subseteq Ledgers' /\ rows' \in Table
      BY LedgersGrow DEF Table
    <2>2. (rows \in Ledgers)'
      <3>1. SubSeq(rows', 1, Len(rows')) = rows' /\ Len(rows') \in 0..Len(rows')
        BY <2>1 DEF Table
      <3> QED
        BY <3>1 DEF Ledgers
    <2>3. report # NoReport => report.asked \in Nat
      BY DEF ReportInv, ReportShape
    <2>4. Len(rows) \in Nat /\ Len(rows') \in Nat /\ Len(rows) <= Len(rows')
      BY DEF Table
    <2> QED
      BY <2>1, <2>2, <2>3, <2>4 DEF LedgersSince
  <1>3. Len(rows) \in Nat /\ Len(rows') \in Nat /\ Len(rows) <= Len(rows')
    BY DEF Table
  <1>4. /\ Now(report) \in Nat /\ Now(report)' \in Nat
        /\ Now(report) <= Now(report)'
        /\ Now(report)' <= Now(report) + (Len(rows') - Len(rows))
    BY MentionsGrow
  <1>5. OperationsRead'
    <2> SUFFICES ASSUME report # NoReport, report.kind \in {"account", "card"}
                 PROVE  OperationsRead'
      BY DEF OperationsRead
    <2> DEFINE n == Now(report)
               m == Now(report)'
               l == Len(rows)
               k == Len(rows')
    <2>1. n \in Nat /\ m \in Nat /\ n <= m /\ m <= n + (k - l)
      BY <1>4
    <2>a. /\ report.asked \in Nat /\ report.asked <= l /\ l \in Nat
          /\ k \in Nat /\ l <= k
      BY <1>3 DEF ReportInv, ReportShape, OperationsRead
    <2>b. Meanwhile(report) = l - report.asked /\ Meanwhile(report)' = k - report.asked
      BY DEF Meanwhile
    <2> HIDE DEF n, m, l, k
    <2>2. Has("summary") =>
              /\ report.read.summary.count \in Nat
              /\ report.read.summary.count <= m
              /\ m <= report.read.summary.count + Meanwhile(report)'
      <3>1. Has("summary") =>
                /\ report.read.summary.count \in Nat
                /\ report.read.summary.count <= n
                /\ n <= report.read.summary.count + Meanwhile(report)
        BY DEF ReportInv, OperationsRead, n
      <3> QED
        BY <2>1, <2>a, <2>b, <3>1
    <2>3. Has("byType") =>
              /\ CountOf(report.read.byType) \in Nat
              /\ report.read.summary.count <= CountOf(report.read.byType)
              /\ CountOf(report.read.byType) <= m
      BY <2>1 DEF ReportInv, OperationsRead, n
    <2>4. Has("byStatus") =>
              /\ report.read.byStatus.count \in Nat
              /\ CountOf(report.read.byType) <= report.read.byStatus.count
              /\ report.read.byStatus.count <= m
      BY <2>1 DEF ReportInv, OperationsRead, n
    <2>5. Has("entries") =>
              \/ report.read.entries = ListLimit
              \/ report.read.byStatus.count <= report.read.entries
      BY DEF ReportInv, OperationsRead
    <2> QED
      BY <2>1, <2>2, <2>3, <2>4, <2>5, <2>a DEF OperationsRead, Has, m, k
  <1>6. MonthRead'
    <2> SUFFICES ASSUME report # NoReport, report.kind = "month"
                 PROVE  MonthRead'
      BY DEF MonthRead
    <2>0. rows' \in LedgersSince(report)'
      BY <1>2 DEF ReportInv, MonthRead
    <2>1. Has("income") => \E table \in LedgersSince(report)' :
              report.read.income = MonthlyIncome(table, report.user)
      BY <1>2 DEF ReportInv, MonthRead
    <2>2. Has("expense") => \E table \in LedgersSince(report)' :
              report.read.income - report.read.expense
                  <= Holdings(table, Belonging(report.user))
                         + Prepaid(table, Belonging(report.user))
      BY <1>2 DEF ReportInv, MonthRead
    <2> QED
      BY <2>0, <2>1, <2>2 DEF MonthRead, Has
  <1>7. SystemRead'
    <2> SUFFICES ASSUME report # NoReport, report.kind = "system"
                 PROVE  SystemRead'
      BY DEF SystemRead
    <2>0. rows' \in LedgersSince(report)'
      BY <1>2 DEF ReportInv, SystemRead
    <2>1. Has("accounts") => \E table \in LedgersSince(report)' :
              Holdings(table, Accounts) = report.read.accounts.balance
      BY <1>2 DEF ReportInv, SystemRead
    <2>2. Has("transactions") =>
              /\ report.read.transactions.count \in Nat
              /\ report.read.transactions.count <= Len(rows')
              /\ \E table \in LedgersSince(report)' :
                    /\ Len(table) <= report.read.transactions.count
                    /\ Holdings(table, Accounts) = report.read.accounts.balance
      BY <1>2, <1>3 DEF ReportInv, SystemRead
    <2>3. Has("types") =>
              /\ CountOf(report.read.types) \in Nat
              /\ report.read.transactions.count <= CountOf(report.read.types)
              /\ CountOf(report.read.types) <= Len(rows')
      BY <1>3 DEF ReportInv, SystemRead
    <2>4. Has("recent") =>
              \/ report.read.recent = ListLimit
              \/ CountOf(report.read.types) <= report.read.recent
      BY DEF ReportInv, SystemRead
    <2> QED
      BY <2>0, <2>1, <2>2, <2>3, <2>4 DEF SystemRead, Has
  <1> QED
    BY <1>1, <1>5, <1>6, <1>7 DEF ReportInv

(* Each section is read as of now, after those before it.                  *)
LEMMA ReportReads ==
    ASSUME ReportInv, BooksInv, ReadSection, UNCHANGED rows
    PROVE  ReportInv'
  <1> DEFINE old == report.read
             new == report'.read
             sections == Sections(report)
             kind == report.kind
             user == report.user
             Had(n) == n \in DOMAIN old
             Gets(n) == n \in DOMAIN new
             counted == Now(report)
  <1>0. rows \in Table
    BY DEF BooksInv
  <1>1. /\ report # NoReport /\ report'.kind = kind /\ report'.user = user
        /\ report'.about = report.about /\ ReportShape(report')
        /\ report'.asked = report.asked /\ Meanwhile(report)' = Meanwhile(report)
        /\ LedgersSince(report)' = LedgersSince(report)
        /\ \A s : Had(s) => Gets(s) /\ new[s] = old[s]
        /\ \A s : Gets(s) => Had(s) \/ new[s] = sections[s]
    <2>1. report # NoReport
      BY DEF ReadSection
    <2>2. ReportShape(report)
      BY <2>1 DEF ReportInv
    <2>3. report'.asked = report.asked
      BY <2>2, NextSection
    <2>4. /\ Meanwhile(report)' = Meanwhile(report)
          /\ LedgersSince(report)' = LedgersSince(report)
      BY <2>3 DEF Meanwhile, LedgersSince, Ledgers
    <2> QED
      BY <2>2, <2>3, <2>4, NextSection
  <1>2. kind \in Kinds /\ user \in Applicants
    BY <1>1 DEF ReportInv, ReportShape
  <1>4. OperationsRead'
    <2> SUFFICES ASSUME kind \in {"account", "card"}
                 PROVE  OperationsRead'
      BY <1>1 DEF OperationsRead
    <2>1. /\ Gets("byType") => Gets("summary")
          /\ Gets("byStatus") => Gets("byType")
          /\ Gets("entries") => Gets("byStatus")
      BY <1>1, SectionsInOrder
    <2>2. /\ sections["summary"].count = counted /\ CountOf(sections["byType"]) = counted
          /\ sections["byStatus"].count = counted
          /\ sections["entries"] = ListLimit \/ sections["entries"] = counted
      <3> DEFINE side == Sides(kind)
                 stated == OperationStatistics(side[1], side[2], report.about)
      <3>1. sections = stated
        BY DEF Sections, Sides
      <3>2. counted = Count(Base(side[1], side[2], report.about))
        BY DEF Now
      <3> HIDE DEF side, sections, counted
      <3>3. /\ stated.summary.count = counted
            /\ CountOf(stated.byType) = counted
            /\ stated.byStatus.count = counted
            /\ stated.entries = ListLimit \/ stated.entries = counted
        BY <1>0, <3>2, OperationSections
      <3> HIDE DEF stated
      <3> QED
        BY <3>1, <3>3
    <2>3. counted \in Nat /\ Now(report)' = counted
      <3>1. counted \in Nat
        BY <1>0, BaseIs DEF Now
      <3>2. Now(report)' = counted
        BY <1>1 DEF Now, Base, Where
      <3> QED
        BY <3>1, <3>2
    <2> DEFINE more == Meanwhile(report)
    <2>m. more \in Nat /\ report.asked <= Len(rows)
      <3>1. /\ report.asked \in Nat /\ report.asked <= Len(rows)
            /\ Len(rows) \in Nat
        BY <1>0, <1>1 DEF ReportInv, ReportShape, OperationsRead, Table
      <3> QED
        BY <3>1 DEF Meanwhile
    <2> HIDE DEF sections, counted, more
    <2>4. /\ Had("summary") =>
                /\ old.summary.count \in Nat /\ old.summary.count <= counted
                /\ counted <= old.summary.count + more
          /\ Had("byType") =>
                /\ CountOf(old.byType) \in Nat
                /\ old.summary.count <= CountOf(old.byType)
                /\ CountOf(old.byType) <= counted
          /\ Had("byStatus") =>
                /\ old.byStatus.count \in Nat
                /\ CountOf(old.byType) <= old.byStatus.count
                /\ old.byStatus.count <= counted
          /\ Had("entries") => old.entries = ListLimit \/ old.byStatus.count <= old.entries
      BY <1>1 DEF ReportInv, OperationsRead, Has, counted, more
    <2>5. /\ Had("byType") => Had("summary")
          /\ Had("byStatus") => Had("byType")
          /\ Had("entries") => Had("byStatus")
      BY <1>1, SectionsInOrder DEF ReportInv
    <2> HIDE DEF Had, Gets, old, new
    <2>6. Gets("summary") =>
              /\ new.summary.count \in Nat /\ new.summary.count <= counted
              /\ counted <= new.summary.count + more
      BY <1>1, <2>2, <2>3, <2>4, <2>m
    <2>7. Gets("byType") =>
              /\ CountOf(new.byType) \in Nat
              /\ new.summary.count <= CountOf(new.byType)
              /\ CountOf(new.byType) <= counted
      BY <1>1, <2>1, <2>2, <2>3, <2>4, <2>5, <2>6
    <2>8. Gets("byStatus") =>
              /\ new.byStatus.count \in Nat
              /\ CountOf(new.byType) <= new.byStatus.count
              /\ new.byStatus.count <= counted
      BY <1>1, <2>1, <2>2, <2>3, <2>4, <2>5, <2>7
    <2>9. Gets("entries") => new.entries = ListLimit \/ new.byStatus.count <= new.entries
      BY <1>1, <2>1, <2>2, <2>3, <2>4, <2>5, <2>8
    <2> QED
      BY <1>1, <2>3, <2>6, <2>7, <2>8, <2>9, <2>m
         DEF OperationsRead, Has, Gets, new, more
  <1>5. MonthRead'
    <2> SUFFICES ASSUME kind = "month"
                 PROVE  MonthRead'
      BY <1>1 DEF MonthRead
    <2>1. Gets("expense") => Gets("income")
      BY <1>1, SectionsInOrder
    <2>2. Had("expense") => Had("income")
      BY <1>1, SectionsInOrder DEF ReportInv
    <2>3. /\ sections["income"] = MonthlyIncome(rows, user)
          /\ sections["expense"] = MonthlyExpense(rows, user)
      BY DEF Sections
    <2> HIDE DEF sections
    <2>0. rows \in LedgersSince(report)
      BY <1>1 DEF ReportInv, MonthRead
    <2>4. Gets("income") => \E table \in LedgersSince(report) : new.income = MonthlyIncome(table, user)
      <3>1. CASE Had("income")
        <4>1. PICK table \in LedgersSince(report) : old.income = MonthlyIncome(table, user)
          BY <1>1, <3>1 DEF ReportInv, MonthRead, Has
        <4> QED
          BY <1>1, <3>1, <4>1
      <3>2. CASE Gets("income") /\ ~Had("income")
        <4>1. new["income"] = MonthlyIncome(rows, user)
          BY <1>1, <2>3, <3>2
        <4> QED
          BY <2>0, <4>1
      <3> QED
        BY <3>1, <3>2
    <2> DEFINE Left(table) == Holdings(table, Belonging(user)) + Prepaid(table, Belonging(user))
    <2>5. Gets("expense") => \E table \in LedgersSince(report) : new.income - new.expense <= Left(table)
      <3>1. CASE Had("expense")
        <4>1. PICK table \in LedgersSince(report) : old.income - old.expense <= Left(table)
          BY <1>1, <3>1 DEF ReportInv, MonthRead, Has
        <4>2. new["income"] = old["income"] /\ new["expense"] = old["expense"]
          BY <1>1, <2>2, <3>1
        <4> QED
          BY <4>1, <4>2
      <3>2. CASE Gets("expense") /\ ~Had("expense")
        <4>1. PICK table \in LedgersSince(report) : new.income = MonthlyIncome(table, user)
          BY <2>1, <2>4, <3>2
        <4>2. new["expense"] = MonthlyExpense(rows, user)
          BY <1>1, <2>3, <3>2
        <4>3. table \in Table /\ table \in Ledgers
          BY <1>0, LedgersAre DEF LedgersSince
        <4>4. /\ MonthlyIncome(table, user) - MonthlyExpense(table, user) = Left(table)
              /\ MonthlyIncome(table, user) \in Nat /\ MonthlyExpense(table, user) \in Nat
          BY <1>2, <4>3, MonthAddsUp
        <4>5. MonthlyExpense(rows, user) \in Nat
          BY <1>0, <1>2, MonthAddsUp
        <4>6. MonthlyExpense(table, user) <= MonthlyExpense(rows, user)
          BY <1>0, <1>2, <4>3, ExpensesGrow
        <4> HIDE DEF Left, new
        <4>7. new.income - new.expense <= Left(table)
          BY <4>1, <4>2, <4>4, <4>5, <4>6
        <4> QED
          BY <4>7
      <3> QED
        BY <3>1, <3>2
    <2> QED
      BY <1>1, <2>0, <2>4, <2>5 DEF MonthRead, Has
  <1>6. SystemRead'
    <2> SUFFICES ASSUME kind = "system"
                 PROVE  SystemRead'
      BY <1>1 DEF SystemRead
    <2>1. /\ Gets("transactions") => Gets("accounts")
          /\ Gets("types") => Gets("transactions")
          /\ Gets("recent") => Gets("types")
      BY <1>1, SectionsInOrder
    <2>2. /\ Had("transactions") => Had("accounts")
          /\ Had("types") => Had("transactions")
          /\ Had("recent") => Had("types")
      BY <1>1, SectionsInOrder DEF ReportInv
    <2>3. /\ sections["accounts"].balance = Holdings(rows, Accounts)
          /\ sections["transactions"].count = Len(rows)
          /\ CountOf(sections["types"]) = Len(rows)
          /\ sections["recent"] = ListLimit \/ sections["recent"] = Len(rows)
      <3> DEFINE stated == SystemStatistics
      <3>1. sections = stated
        BY DEF Sections
      <3> HIDE DEF sections
      <3>2. /\ stated.accounts.balance = Holdings(rows, Accounts)
            /\ stated.transactions.count = Len(rows)
            /\ CountOf(stated.types) = Len(rows)
            /\ stated.recent = ListLimit \/ stated.recent = Len(rows)
        BY SystemSections
      <3> HIDE DEF stated
      <3> QED
        BY <3>1, <3>2
    <2> HIDE DEF sections
    <2>4. Len(rows) \in Nat /\ rows \in LedgersSince(report)
      BY <1>0, <1>1 DEF ReportInv, SystemRead, Table
    <2>5. /\ Had("accounts") => \E table \in LedgersSince(report) : Holdings(table, Accounts) = old.accounts.balance
          /\ Had("transactions") =>
                /\ old.transactions.count \in Nat
                /\ old.transactions.count <= Len(rows)
                /\ \E table \in LedgersSince(report) :
                      /\ Len(table) <= old.transactions.count
                      /\ Holdings(table, Accounts) = old.accounts.balance
          /\ Had("types") =>
                /\ CountOf(old.types) \in Nat
                /\ old.transactions.count <= CountOf(old.types)
                /\ CountOf(old.types) <= Len(rows)
          /\ Had("recent") => old.recent = ListLimit \/ CountOf(old.types) <= old.recent
      BY <1>1 DEF ReportInv, SystemRead, Has
    <2> HIDE DEF Had, Gets, old, new
    <2>6. Gets("accounts") => \E table \in LedgersSince(report) : Holdings(table, Accounts) = new.accounts.balance
      BY <1>1, <2>3, <2>4, <2>5
    <2>7. Gets("transactions") =>
              /\ new.transactions.count \in Nat
              /\ new.transactions.count <= Len(rows)
              /\ \E table \in LedgersSince(report) :
                    /\ Len(table) <= new.transactions.count
                    /\ Holdings(table, Accounts) = new.accounts.balance
      <3>1. CASE Had("transactions")
        <4>1. new["transactions"] = old["transactions"] /\ new["accounts"] = old["accounts"]
          BY <1>1, <2>2, <3>1
        <4> QED
          BY <2>5, <3>1, <4>1
      <3>2. CASE Gets("transactions") /\ ~Had("transactions")
        <4>1. new["transactions"].count = Len(rows)
          BY <1>1, <2>3, <3>2
        <4>2. PICK table \in LedgersSince(report) : Holdings(table, Accounts) = new.accounts.balance
          BY <2>1, <2>6, <3>2
        <4>3. Len(table) <= Len(rows)
          BY <1>0, LedgersAre DEF LedgersSince
        <4> QED
          BY <2>4, <4>1, <4>2, <4>3
      <3> QED
        BY <3>1, <3>2
    <2>8. Gets("types") =>
              /\ CountOf(new.types) \in Nat
              /\ new.transactions.count <= CountOf(new.types)
              /\ CountOf(new.types) <= Len(rows)
      BY <1>1, <2>1, <2>2, <2>3, <2>4, <2>5, <2>7
    <2>9. Gets("recent") => new.recent = ListLimit \/ CountOf(new.types) <= new.recent
      BY <1>1, <2>1, <2>2, <2>3, <2>4, <2>5, <2>8
    <2> QED
      BY <1>1, <2>4, <2>6, <2>7, <2>8, <2>9 DEF SystemRead, Has, Gets, new
  <1> QED
    BY <1>1, <1>4, <1>5, <1>6 DEF ReportInv

(* A new report says nothing yet.                                          *)
LEMMA ReportBegins ==
    ASSUME rows \in Table, UNCHANGED rows,
           NEW kind \in Kinds, NEW user \in Applicants, NEW about, Ask(kind, user, about)
    PROVE  ReportInv'
  <1>1. /\ report' = [kind |-> kind, user |-> user, about |-> about, read |-> <<>>,
                       asked |-> Len(rows)]
        /\ report'.asked = Len(rows)
        /\ report'.kind = kind /\ report'.user = user
        /\ report'.about = about /\ report'.read = <<>>
    BY DEF Ask
  <1>2. DOMAIN report'.read = {}
    BY <1>1
  <1>3. ReadSoFar(report', 0)
    <2>1. 0 \in 0..Len(Order(kind)) /\ {Order(kind)[i] : i \in 1..0} = {}
      BY Orders
    <2> QED
      BY <1>1, <1>2, <2>1, FS_EmptySet DEF ReadSoFar
  <1>4. ReportShape(report')
    <2>1. Len(rows) \in Nat
      BY DEF Table
    <2> QED
      BY <1>1, <1>3, <2>1 DEF ReportShape
  <1>5. (rows \in LedgersSince(report))'
    <2>1. rows \in Ledgers /\ Ledgers' = Ledgers /\ Len(rows) <= Len(rows)
      BY LedgersAre DEF Ledgers, Table
    <2> QED
      BY <1>1, <2>1 DEF LedgersSince
  <1>6. Now(report)' \in Nat /\ report'.asked <= Len(rows')
    <2> DEFINE side == Sides(report'.kind)
    <2>1. Now(report)' = Count(Base(side[1], side[2], report'.about))
      BY DEF Now, Base, Where
    <2> HIDE DEF side
    <2> QED
      BY <1>1, <2>1, BaseIs DEF Table
  <1> QED
    BY <1>2, <1>4, <1>5, <1>6 DEF ReportInv, OperationsRead, MonthRead, SystemRead, Has

StatisticsInv == BooksInv /\ ReportInv

(* No step breaks the books or a report.                                   *)
LEMMA StatisticsStep == StatisticsInv /\ [StatisticsNext]_statisticsVars => StatisticsInv'
  <1> SUFFICES ASSUME StatisticsInv, [StatisticsNext]_statisticsVars
               PROVE  StatisticsInv'
    OBVIOUS
  <1>1. BooksInv /\ ReportInv /\ rows \in Table
    BY DEF StatisticsInv, BooksInv
  <1>2. BooksInv'
    BY <1>1, BooksStep
  <1>3. CASE UNCHANGED <<rows, report>>
    <2>1. <<>> \in Table /\ rows' = rows \o <<>>
      BY <1>1, <1>3 DEF Table
    <2> QED
      BY <1>1, <1>2, <1>3, <2>1, ReportWaits DEF StatisticsInv
  <1>4. CASE (\E posting \in Postings : Post(posting)) /\ UNCHANGED report
    <2>1. PICK posting \in Postings : Post(posting)
      BY <1>4
    <2>2. posting \in Table /\ rows' = rows \o posting
      BY <1>1, <2>1, PostAppends
    <2> QED
      BY <1>1, <1>2, <1>4, <2>2, ReportWaits DEF StatisticsInv
  <1>5. ASSUME NEW kind \in Kinds, NEW user \in Applicants, NEW about, Ask(kind, user, about),
               UNCHANGED bookVars
        PROVE  StatisticsInv'
    <2>1. UNCHANGED rows
      BY <1>5 DEF bookVars
    <2> QED
      BY <1>1, <1>2, <1>5, <2>1, ReportBegins DEF StatisticsInv
  <1>6. CASE ReadSection /\ UNCHANGED bookVars
    <2>1. UNCHANGED rows
      BY <1>6 DEF bookVars
    <2> QED
      BY <1>1, <1>2, <1>6, <2>1, ReportReads DEF StatisticsInv
  <1>7. CASE Finish
    <2>1. report' = NoReport
      BY <1>7 DEF Finish
    <2>2. ReportInv'
      BY <2>1 DEF ReportInv, OperationsRead, MonthRead, SystemRead
    <2> QED
      BY <1>2, <2>2 DEF StatisticsInv
  <1>8. {"account", "card", "month", "system"} = Kinds
    BY DEF Kinds
  <1>9. ASSUME NEW a \in Accounts, Open(a) \/ SetAccountBlocked(a), UNCHANGED report
        PROVE  StatisticsInv'
    BY <1>3, <1>9 DEF Open, SetAccountBlocked
  <1>10. CASE RegistrationNext /\ UNCHANGED <<bookVars, report>>
    BY <1>3, <1>10 DEF bookVars
  <1>11. CASE UNCHANGED statisticsVars
    BY <1>3, <1>11 DEF statisticsVars, bookVars
  <1> QED
    BY <1>4, <1>5, <1>6, <1>7, <1>8, <1>9, <1>10, <1>11 DEF StatisticsNext

(* There is no report at first.                                            *)
LEMMA StatisticsStart == RegistrationInit /\ BooksInit({}) => StatisticsInv
  <1> SUFFICES ASSUME RegistrationInit, BooksInit({}) PROVE StatisticsInv
    OBVIOUS
  <1>1. report = NoReport
    BY DEF BooksInit
  <1> QED
    BY <1>1, BooksStart DEF StatisticsInv, ReportInv, OperationsRead, MonthRead, SystemRead

(* Whatever commits between the statements of a report, each section of it is *)
(* of a moment no earlier than the section before.                         *)
THEOREM ReportsGoForward == StatisticsSpec => []ReportsMoveForward
  <1>1. StatisticsInv => ReportsMoveForward
    BY ReportsAreInOrder DEF StatisticsInv, BooksInv
  <1> QED
    BY <1>1, StatisticsStart, StatisticsStep, PTL DEF StatisticsSpec

----------------------------------------------------------------------------
(* Registration.  The first row to be committed was computed while there   *)
(* was none.                                                               *)

(* A row that is being inserted is an administrator's as long as there are *)
(* no others, and is one only if its registration came early.              *)
RegistrationInv ==
    /\ RegistrationTypeOK
    /\ FirstUsersAdminister
    /\ \A p \in Applicants :
          /\ progress[p] = "inserting" /\ Registered = {} => isAdmin[p]
          /\ progress[p] = "inserting" /\ isAdmin[p] => early[p]
          /\ progress[p] = "hashing" /\ Registered = {} => early[p]

(* Every registration keeps it.                                            *)
LEMMA RegistrationStep ==
    RegistrationInv /\ [RegistrationNext]_registrationVars => RegistrationInv'
  <1> SUFFICES ASSUME RegistrationInv, [RegistrationNext]_registrationVars
               PROVE  RegistrationInv'
    OBVIOUS
  <1> USE DEF RegistrationInv, RegistrationTypeOK, FirstUsersAdminister, Registered, Admins
  <1>1. ASSUME NEW p \in Applicants, Register(p) PROVE RegistrationInv'
    BY <1>1 DEF Register
  <1>2. ASSUME NEW p \in Applicants, ComputeIsAdmin(p) PROVE RegistrationInv'
    BY <1>2 DEF ComputeIsAdmin
  <1>3. ASSUME NEW p \in Applicants, Create(p) PROVE RegistrationInv'
    BY <1>3 DEF Create
  <1>4. ASSUME NEW p \in Applicants, RegistrationFails(p) PROVE RegistrationInv'
    BY <1>4 DEF RegistrationFails
  <1>5. CASE UNCHANGED registrationVars
    BY <1>5 DEF registrationVars
  <1> QED BY <1>1, <1>2, <1>3, <1>4, <1>5 DEF RegistrationNext

(* For any number of registrations there is an administrator from the      *)
(* first committed row on, and only those who came before it become one.   *)
THEOREM Bootstrap == RegistrationSpec => []FirstUsersAdminister
  <1>1. RegistrationInit => RegistrationInv
    BY DEF RegistrationInit, RegistrationInv, RegistrationTypeOK, FirstUsersAdminister,
           Registered, Admins
  <1>2. RegistrationInv => FirstUsersAdminister
    BY DEF RegistrationInv
  <1> QED BY <1>1, <1>2, RegistrationStep, PTL DEF RegistrationSpec
=============================================================================
