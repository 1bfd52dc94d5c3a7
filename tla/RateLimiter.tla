----------------------------- MODULE RateLimiter -----------------------------
(***************************************************************************)
(* The rate limiters of the router.  Every request passes the public one,  *)
(* whose rules count addresses; a request to a protected endpoint then     *)
(* passes AuthMiddleware and the protected one, whose rules count users.   *)
(* The names of the rules differ, so one map stands for the two of them.   *)
(*                                                                         *)
(* allow and cleanup read the clock before they take the mutex: a handler  *)
(* carries its reading, at most Stall old when it gets the mutex.          *)
(***************************************************************************)
EXTENDS Clock, Sequences

CONSTANTS
    Handlers,        \* goroutines of net/http that serve requests
    Calls,           \* the requests that come in
    TrustedProxies,  \* addresses whose forwarding headers are believed
    None,
    Limit, Window,   \* RATE_LIMIT_*: of every rule
    CleanupInterval, \* RATE_LIMIT_CLEANUP_INTERVAL_SECONDS
    Stall            \* how long a goroutine can be kept from the mutex

PublicRules    == <<"login", "register", "global">>
ProtectedRules == <<"mfa", "rates", "admin", "financial">>
LimiterRules   == {"login", "register", "global", "mfa", "rates", "admin", "financial"}

FinancialEndpoints ==
    {"transfer", "create_credit", "prepay", "deposit", "withdraw", "close_account",
     "card_pay", "card_close", "card_transfer", "card_reveal"}
PublicEndpoints == {"login", "register", "health"}
Endpoints ==
    PublicEndpoints \cup FinancialEndpoints \cup {"mfa_request", "rates_key", "admin", "read"}

(* The endpoints for which the Match of a rule is true.                    *)
Matched ==
    [rule \in LimiterRules |->
        CASE rule \in {"login", "register"} -> {rule}
          [] rule = "global"    -> Endpoints
          [] rule = "mfa"       -> {"mfa_request"}
          [] rule = "rates"     -> {"rates_key"}
          [] rule = "admin"     -> {"admin"}
          [] rule = "financial" -> FinancialEndpoints]

(* matchRule: the set of the first rule that matches, if there is one.     *)
MatchRule(rules, endpoint) ==
    {rules[i] : i \in {i \in DOMAIN rules :
                          /\ endpoint \in Matched[rules[i]]
                          /\ \A j \in 1..(i - 1) : endpoint \notin Matched[rules[j]]}}

(* ClientIP: a forwarding header counts when a trusted proxy sent it.      *)
ClientIP(c) ==
    IF c.remote \in TrustedProxies /\ c.forwarded # None THEN c.forwarded ELSE c.remote

UserIDKey(c) == IF c.user # None THEN c.user ELSE ClientIP(c)

Clients == {ClientIP(c) : c \in Calls} \cup {UserIDKey(c) : c \in Calls}
Keys == LimiterRules \X Clients

(* The defaults: windows of 1 minute (MFA 5, register 10), cleanup 5.      *)
ASSUME LimiterAssumption ==
    /\ \A c \in Calls : c.endpoint \in Endpoints
    /\ None \notin Calls
    /\ Limit \in [LimiterRules -> Nat]
    /\ Window \in [LimiterRules -> Nat]
    /\ CleanupInterval \in Nat /\ Stall \in Nat
    /\ \A rule \in LimiterRules : Window[rule] <= 2 * CleanupInterval

VARIABLES
    entries,   \* rateLimitEntry of each key; count 0 is no entry
    stage,     \* what each handler is about to do
    call,      \* its request
    reading,   \* the clock as it last read it
    admitted   \* history: when the requests of each key were let through,
               \*   since the process started

limiterVars == <<entries, stage, call, reading, admitted>>

NoEntry == [count |-> 0, start |-> 0]
AtLimiter(h) == stage[h] \in {"public", "protected"}

Limited(rule) == Limit[rule] > 0 /\ Window[rule] > 0

(* The rule that limits the request of h is applied to it.                 *)
Rules(h) == MatchRule(IF stage[h] = "public" THEN PublicRules ELSE ProtectedRules,
                      call[h].endpoint)
Applies(h, rule) == AtLimiter(h) /\ rule \in Rules(h) /\ Limited(rule)
Key(h, rule) ==
    <<rule, IF stage[h] = "public" THEN ClientIP(call[h]) ELSE UserIDKey(call[h])>>

LimiterInit ==
    /\ entries = [k \in Keys |-> NoEntry]
    /\ stage = [h \in Handlers |-> "idle"]
    /\ call = [h \in Handlers |-> None]
    /\ reading = [h \in Handlers |-> 0]
    /\ admitted = [k \in Keys |-> <<>>]

----------------------------------------------------------------------------
Leave(h) ==
    /\ stage' = [stage EXCEPT ![h] = "idle"]
    /\ call' = [call EXCEPT ![h] = None]
    /\ reading' = [reading EXCEPT ![h] = 0]

(* What is behind the limiter a handler has passed.                        *)
Onward(h) ==
    IF stage[h] = "public" /\ call[h].endpoint \notin PublicEndpoints
    THEN /\ stage' = [stage EXCEPT ![h] = "auth"]
         /\ reading' = [reading EXCEPT ![h] = 0]
         /\ UNCHANGED call
    ELSE Leave(h)

ServeHTTP(h, c) ==
    /\ stage[h] = "idle"
    /\ stage' = [stage EXCEPT ![h] = "public"]
    /\ call' = [call EXCEPT ![h] = c]
    /\ reading' = [reading EXCEPT ![h] = now]
    /\ UNCHANGED <<now, entries, admitted>>

(* AuthMiddleware refuses the request or takes it to the second limiter.   *)
Authenticate(h) ==
    /\ stage[h] = "auth"
    /\ \/ Leave(h)
       \/ /\ stage' = [stage EXCEPT ![h] = "protected"]
          /\ reading' = [reading EXCEPT ![h] = now]
          /\ UNCHANGED call
    /\ UNCHANGED <<now, entries, admitted>>

(* No rule, or one that is switched off.                                   *)
PassUnlimited(h) ==
    /\ AtLimiter(h)
    /\ \A rule \in Rules(h) : ~Limited(rule)
    /\ Onward(h)
    /\ UNCHANGED <<now, entries, admitted>>

(* now.Sub(entry.windowStart) >= rule.Window, in Nat                       *)
Elapsed(h, k) ==
    entries[k].count = 0 \/ reading[h] >= entries[k].start + Window[k[1]]

LetIn(h, k, entry) ==
    /\ entries' = [entries EXCEPT ![k] = entry]
    /\ admitted' = [admitted EXCEPT ![k] = Append(@, now)]
    /\ Onward(h)
    /\ UNCHANGED now

(* allow; AllowOneMore compares the count with > instead of >=.            *)
OpenWindow(h, rule) ==
    /\ Applies(h, rule)
    /\ Elapsed(h, Key(h, rule))
    /\ LetIn(h, Key(h, rule), [count |-> 1, start |-> reading[h]])

AllowOneMore(h, rule) ==
    LET k == Key(h, rule) IN
    /\ Applies(h, rule)
    /\ ~Elapsed(h, k)
    /\ entries[k].count <= Limit[rule]
    /\ LetIn(h, k, [entries[k] EXCEPT !.count = @ + 1])

Allow(h, rule) ==
    LET k == Key(h, rule) IN
    /\ Applies(h, rule)
    /\ ~Elapsed(h, k)
    /\ entries[k].count < Limit[rule]
    /\ LetIn(h, k, [entries[k] EXCEPT !.count = @ + 1])

TooManyRequests(h, rule) ==
    /\ Applies(h, rule)
    /\ ~Elapsed(h, Key(h, rule))
    /\ entries[Key(h, rule)].count >= Limit[rule]
    /\ Leave(h)
    /\ UNCHANGED <<now, entries, admitted>>

(* cleanup, with the clock read at time t.                                 *)
Cleanup(t) ==
    /\ t <= now /\ now <= t + Stall
    /\ CleanupInterval > 0
    /\ entries' = [k \in Keys |->
                      IF entries[k].start + 2 * CleanupInterval < t
                      THEN NoEntry ELSE entries[k]]
    /\ UNCHANGED <<now, stage, call, reading, admitted>>

(* The entries are in memory.                                              *)
LimiterRestart ==
    /\ entries' = [k \in Keys |-> NoEntry]
    /\ stage' = [h \in Handlers |-> "idle"]
    /\ call' = [h \in Handlers |-> None]
    /\ reading' = [h \in Handlers |-> 0]
    /\ admitted' = [k \in Keys |-> <<>>]
    /\ UNCHANGED now

LimiterTick ==
    /\ Advance
    /\ \A h \in Handlers : AtLimiter(h) => now < reading[h] + Stall
    /\ UNCHANGED limiterVars

LimiterNext ==
    \/ \E h \in Handlers :
          \/ \E c \in Calls : ServeHTTP(h, c)
          \/ \E rule \in LimiterRules :
                OpenWindow(h, rule) \/ Allow(h, rule) \/ TooManyRequests(h, rule)
          \/ PassUnlimited(h)
          \/ Authenticate(h)
    \/ \E t \in 0..now : Cleanup(t)
    \/ LimiterRestart
    \/ LimiterTick

LimiterSpec == now = 0 /\ LimiterInit /\ [][LimiterNext]_<<now, limiterVars>>

----------------------------------------------------------------------------
(* Properties *)

LimiterTypeOK ==
    /\ now \in Nat
    /\ entries \in [Keys -> [count : Nat, start : Nat]]
    /\ stage \in [Handlers -> {"idle", "public", "auth", "protected"}]
    /\ call \in [Handlers -> Calls \cup {None}]
    /\ \A h \in Handlers : stage[h] # "idle" => call[h] \in Calls
    /\ reading \in [Handlers -> Nat]
    /\ admitted \in [Keys -> Seq(Nat)]

(* The windows are fixed, so that a burst on either side of a boundary is  *)
(* let through: in any stretch as long as the window, less the stall, a    *)
(* client gets through 2 * Limit - 1 times at most.  Neither a handler     *)
(* that waits for the mutex with an old reading nor a cleanup of the map   *)
(* between two requests gives it more.                                     *)
AdmissionsSpread ==
    \A k \in Keys : \A i \in 1..Len(admitted[k]) :
        LET j == i + 2 * Limit[k[1]] - 1 IN
        j <= Len(admitted[k]) =>
            admitted[k][i] + Window[k[1]] <= admitted[k][j] + Stall
=============================================================================
