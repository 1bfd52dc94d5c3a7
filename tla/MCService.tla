------------------------------ MODULE MCService ------------------------------
(* The parts of the service that share nothing but the clock, each          *)
(* explored on its own, as the focus says: what one process keeps in its    *)
(* memory (the rate limiter, the key rate, the shutdown), and the users     *)
(* and the reports of the database.                                         *)
EXTENDS RateLimiter, KeyRate, Shutdown, Statistics, TLC

CONSTANTS p1, p2, c1, c2, s1, s2, proxy, address, user,
          ann, ben, dan, a1, a2, b1, k1, k2

VARIABLE focus

memoryVars == <<now, limiterVars, rateVars, shutdownVars>>
serviceVars == <<focus, memoryVars, statisticsVars>>

----------------------------------------------------------------------------
(* Memory: only the limit on financial requests is on; a health check has   *)
(* none.                                                                    *)
Call(endpoint, sender) ==
    [endpoint |-> endpoint, remote |-> proxy, forwarded |-> address, user |-> sender]
MCCalls == {Call("transfer", user), Call("health", None)}
MCLimit == [rule \in LimiterRules |-> IF rule = "financial" THEN 2 ELSE 0]
MCWindow == [rule \in LimiterRules |-> IF rule = "financial" THEN 4 ELSE 1]

(* The rate needs a shorter time than the window of the limiter.            *)
RateHorizon == MaxTime - 1

MemoryInit ==
    /\ now = 0
    /\ LimiterInit
    /\ RateInit
    /\ ShutdownInit

MemoryNext ==
    \/ /\ focus = "limiter"
       /\ LimiterNext
       /\ UNCHANGED <<rateVars, shutdownVars>>
    \/ /\ focus = "rate"
       /\ RateNext
       /\ now' <= RateHorizon
       /\ UNCHANGED <<limiterVars, shutdownVars>>
    \/ /\ focus = "shutdown"
       /\ ShutdownNext
       /\ UNCHANGED <<now, limiterVars, rateVars>>

----------------------------------------------------------------------------
(* Users and reports: ann has two accounts and a card, ben one of each; ann *)
(* and dan register with the same username.  Apart are users and their      *)
(* accounts, the sums on two amounts, and the reports on one amount while   *)
(* operations commit.  For the last two ann and ben have registered and     *)
(* opened their accounts before the first step.                             *)
MCOwner == (a1 :> ann) @@ (a2 :> ann) @@ (b1 :> ben)
MCCardAccount == (k1 :> a1) @@ (k2 :> b1)
MCEmail == (ann :> 1) @@ (ben :> 2) @@ (dan :> 3)
MCUsername == (ann :> 1) @@ (ben :> 2) @@ (dan :> 1)

BooksFocus == {"users", "sums", "reports"}

RecordsInit ==
    /\ BooksInit(IF focus = "users" THEN {} ELSE Accounts)
    /\ IF focus = "users"
       THEN RegistrationInit
       ELSE /\ progress = [p \in Applicants |-> IF p = dan THEN "new" ELSE "registered"]
            /\ isAdmin = [p \in Applicants |-> p = ann]
            /\ early = isAdmin

LeftAlone ==
    CASE focus = "users"   -> UNCHANGED rows /\ opened' \subseteq {a1, b1}
      [] focus = "sums"    -> UNCHANGED <<registrationVars, opened, blocked, report>>
      [] focus = "reports" -> /\ UNCHANGED <<registrationVars, opened, blocked>>
                              /\ \A i \in DOMAIN rows' : rows'[i].amount = 1

----------------------------------------------------------------------------
Init ==
    /\ focus \in {"limiter", "rate", "shutdown"} \cup BooksFocus
    /\ MemoryInit
    /\ RecordsInit

Next ==
    /\ UNCHANGED focus
    /\ \/ MemoryNext /\ UNCHANGED statisticsVars
       \/ focus \in BooksFocus /\ StatisticsNext /\ LeftAlone /\ UNCHANGED memoryVars

Spec == Init /\ [][Next]_serviceVars /\ ShutdownFairness
=============================================================================
