---------------------------- MODULE CardsProofs ----------------------------
(* A request that is under way rests on what it has read of its cards and  *)
(* of its account at some moment since it came in.  That it came in a      *)
(* deadline ago at most then bounds how old what it executes can be.       *)
EXTENDS Cards, FiniteSetTheorems, TLAPS

(* The states of a request that serves an ask, and those after the         *)
(* recipient's card was looked up.                                         *)
Serving == {"limiter", "cvv", "recipient", "hash", "rehash", "accounts", "code",
            "execute"}
LookedUp == {"hash", "rehash", "accounts", "code", "execute"}
Creating == {"create", "insert"}

(* Card k was good at time t or later.                                     *)
GoodSince(k, t) ==
    /\ card[k] # "absent"
    /\ card[k] = "closed" => t <= cardClosed[k]
    /\ t < Expires[k]

OpenSince(a, t) == status[a] = "closed" => t <= closedSince[a]

Timely(r) == InFlight(r) => since[r] <= now /\ now <= since[r] + Deadline

Grounded(r) ==
    /\ pc[r] \in Serving => ask[r] \in Asks /\ GoodSince(ask[r].card, since[r])
    /\ pc[r] \in LookedUp /\ ask[r].kind = "card_transfer" => GoodSince(ask[r].to, since[r])
    /\ pc[r] \in Creating => ask[r] \in Cards
    /\ pc[r] = "insert" => OpenSince(CardAccount[ask[r]], since[r])

Inv == TypeOK /\ \A r \in Requests : Timely(r) /\ Grounded(r)

----------------------------------------------------------------------------
(* What a step does to the rows of cards and accounts *)

(* A row changes by being inserted, or by being closed now.                *)
RowsMove ==
    /\ \A k \in Cards : \/ card'[k] = card[k] /\ cardClosed'[k] = cardClosed[k]
                        \/ card'[k] = "active"
                        \/ card'[k] = "closed" /\ cardClosed'[k] = now
    /\ \A a \in Accounts : \/ status'[a] = status[a] /\ closedSince'[a] = closedSince[a]
                           \/ status'[a] = "closed" /\ closedSince'[a] = now

LEMMA AskTyping ==
    ASSUME NEW a \in Asks
    PROVE  a.card \in Cards /\ a.to \in Cards /\ a.kind \in AskKinds
  BY CardsAssumption

(* A request that a step leaves alone stays grounded.                      *)
LEMMA OthersStayGrounded ==
    ASSUME TypeOK, NEW r \in Requests, Timely(r), Grounded(r), RowsMove,
           pc'[r] = pc[r], ask'[r] = ask[r], since'[r] = since[r]
    PROVE  Grounded(r)'
  <1>1. CASE pc[r] \in Serving
    <2>1. ask[r].card \in Cards /\ ask[r].to \in Cards
      BY <1>1, AskTyping DEF Grounded
    <2>2. since[r] <= now /\ since[r] \in Nat
      BY <1>1 DEF Timely, InFlight, Serving, TypeOK
    <2>3. \A k \in Cards : GoodSince(k, since[r]) => GoodSince(k, since[r])'
      BY <2>2 DEF GoodSince, RowsMove, TypeOK
    <2> QED BY <1>1, <2>1, <2>3 DEF Grounded, GoodSince, Serving, LookedUp, Creating
  <1>2. CASE pc[r] \in Creating
    <2>1. CardAccount[ask[r]] \in Accounts
      BY <1>2, CardsAssumption DEF Grounded
    <2>2. since[r] <= now /\ since[r] \in Nat
      BY <1>2 DEF Timely, InFlight, Creating, TypeOK
    <2>3. \A a \in Accounts : OpenSince(a, since[r]) => OpenSince(a, since[r])'
      BY <2>2 DEF OpenSince, RowsMove, TypeOK
    <2> QED BY <1>2, <2>1, <2>3 DEF Grounded, OpenSince, Serving, LookedUp, Creating
  <1> QED BY <1>1, <1>2 DEF Grounded, Serving, LookedUp, Creating

(* One that is answered has nothing to rest on.                            *)
LEMMA AnsweredIsGrounded ==
    ASSUME NEW r \in Requests, pc'[r] = "idle"
    PROVE  Grounded(r)' /\ Timely(r)'
  BY DEF Grounded, Timely, InFlight, Serving, LookedUp, Creating

----------------------------------------------------------------------------
(* A request's own steps leave its fields as TypeOK wants them.            *)
LEMMA AnswerFrame ==
    ASSUME TypeOK, NEW r \in Requests, Answer(r)
    PROVE  /\ pc'[r] = "idle"
           /\ \A q \in Requests \ {r} : /\ pc'[q] = pc[q] /\ ask'[q] = ask[q]
                                        /\ since'[q] = since[q]
           /\ pc' \in [Requests -> Serving \cup Creating \cup {"idle"}]
           /\ ask' \in [Requests -> Asks \cup Cards \cup {Nothing}]
           /\ code' \in [Requests -> Codes \cup RevealCodes \cup {Nothing}]
           /\ since' \in [Requests -> Nat] /\ tries' \in [Requests -> Nat]
  BY DEF Answer, Go, TypeOK, Serving, Creating

(* What one step of request r is to the invariant: the other requests are  *)
(* left alone, and r is answered or rests on what it was checked against.  *)
Moves(r) ==
    /\ \A q \in Requests \ {r} : /\ pc'[q] = pc[q] /\ ask'[q] = ask[q]
                                 /\ since'[q] = since[q]
    /\ RowsMove
    /\ now' = now
    /\ pc'[r] = "idle" \/ (Timely(r)' /\ Grounded(r)')
    /\ TypeOK'

LEMMA AnswersMove ==
    ASSUME Inv, NEW r \in Requests, Answer(r), UNCHANGED <<now, status, card, cardClosed,
           closedSince, reveals, failures, lockedTil>>
    PROVE  Moves(r)
  <1>1. RowsMove
    BY DEF RowsMove
  <1>2. TypeOK'
    BY AnswerFrame DEF Inv, TypeOK, Serving, Creating
  <1> QED BY <1>1, <1>2, AnswerFrame DEF Inv, Moves

(* A step that goes on without touching a row.                             *)
LEMMA GoingOnMoves ==
    ASSUME Inv, NEW r \in Requests, NEW next \in Serving \cup Creating, InFlight(r),
           Go(r, next), Grounded(r)', failures' \in [Cards -> Nat],
           lockedTil' \in [Cards -> Nat], code' \in [Requests -> Codes \cup RevealCodes \cup {Nothing}],
           tries' \in [Requests -> Nat],
           UNCHANGED <<now, status, rowVars, ask, since>>
    PROVE  Moves(r)
  <1>1. pc'[r] = next /\ \A q \in Requests \ {r} : pc'[q] = pc[q]
    BY DEF Go, Inv, TypeOK
  <1>2. RowsMove
    BY DEF RowsMove, rowVars
  <1>3. TypeOK'
    <2>1. pc' \in [Requests -> Serving \cup Creating \cup {"idle"}]
      BY DEF Go, Inv, TypeOK, Serving, Creating
    <2> QED BY <2>1 DEF Inv, TypeOK, rowVars, Serving, Creating
  <1>4. Timely(r)'
    BY DEF Inv, Timely, InFlight
  <1> QED BY <1>1, <1>2, <1>3, <1>4 DEF Moves

LEMMA CheckMoves ==
    ASSUME Inv, NEW r \in Requests, NEW at \in Serving \cup Creating,
           NEW next \in Serving \cup Creating, NEW verdict, Check(r, at, verdict, next),
           verdict /\ pc'[r] = next /\ UNCHANGED <<ask, since, rowVars, status>> => Grounded(r)'
    PROVE  Moves(r)
  <1>1. CASE verdict /\ Go(r, next) /\ UNCHANGED <<ask, code, since, tries>>
    <2>1. UNCHANGED <<now, status, rowVars, ask, since, failures, lockedTil, code, tries>>
      BY <1>1 DEF Check, bankVars, limiterVars
    <2>2. pc'[r] = next /\ InFlight(r)
      BY <1>1 DEF Check, Go, Inv, TypeOK, InFlight, Serving, Creating
    <2>3. Grounded(r)'
      BY <1>1, <2>1, <2>2
    <2>4. /\ failures' \in [Cards -> Nat] /\ lockedTil' \in [Cards -> Nat]
          /\ tries' \in [Requests -> Nat]
          /\ code' \in [Requests -> Codes \cup RevealCodes \cup {Nothing}]
      BY <2>1 DEF Inv, TypeOK
    <2> QED BY <1>1, <2>1, <2>2, <2>3, <2>4, GoingOnMoves
  <1>2. CASE Answer(r)
    BY <1>2, AnswersMove DEF Check, bankVars, rowVars, limiterVars
  <1> QED BY <1>1, <1>2 DEF Check

----------------------------------------------------------------------------
(* The steps of a request, one by one *)

LEMMA BeginMoves ==
    ASSUME Inv, NEW r \in Requests, NEW a \in Asks, Begin(r, a) PROVE Moves(r)
  <1>1. /\ pc' \in [Requests -> Serving \cup Creating \cup {"idle"}]
        /\ pc'[r] \in {"hash", "limiter"}
        /\ pc'[r] = "hash" => a.kind = "card_reveal"
        /\ ask'[r] = a /\ since'[r] = now
        /\ ask' \in [Requests -> Asks \cup Cards \cup {Nothing}]
        /\ since' \in [Requests -> Nat]
        /\ \A q \in Requests \ {r} : /\ pc'[q] = pc[q] /\ ask'[q] = ask[q]
                                     /\ since'[q] = since[q]
    BY DEF Begin, Go, Inv, TypeOK, Serving, Creating
  <1>2. UNCHANGED <<now, status, card, cardClosed, closedSince, reveals, failures,
                    lockedTil, code, tries>>
    BY DEF Begin, bankVars, rowVars, limiterVars
  <1>3. TypeOK'
    BY <1>1, <1>2 DEF Inv, TypeOK, Serving, Creating
  <1>4. RowsMove
    BY <1>2 DEF RowsMove
  <1>5. Timely(r)'
    BY <1>1, <1>2, CardsAssumption DEF Timely, Inv, TypeOK
  <1>6. Grounded(r)'
    <2>1. Usable(a.card)
      BY DEF Begin, OwnCard
    <2>2. GoodSince(a.card, now)'
      BY <1>2, <2>1 DEF GoodSince, Usable
    <2> QED BY <1>1, <1>2, <2>2 DEF Grounded, GoodSince, Serving, LookedUp, Creating
  <1> QED BY <1>1, <1>2, <1>3, <1>4, <1>5, <1>6 DEF Moves

LEMMA LimiterMoves ==
    ASSUME Inv, NEW r \in Requests, IsLocked(r) \/ WrongCVV(r) \/ RightCVV(r)
    PROVE  Moves(r)
  <1>1. pc[r] \in {"limiter", "cvv"} /\ InFlight(r) /\ ask[r] \in Asks
        /\ GoodSince(ask[r].card, since[r])
    BY DEF IsLocked, WrongCVV, RightCVV, InFlight, Inv, Grounded, Serving
  <1>2. ask[r].card \in Cards
    BY <1>1, AskTyping
  <1>3. UNCHANGED <<now, status, rowVars>>
    BY DEF IsLocked, WrongCVV, RightCVV, bankVars
  <1>4. failures' \in [Cards -> Nat] /\ lockedTil' \in [Cards -> Nat]
    <2>1. CASE IsLocked(r)
      <3>1. failures[ask[r].card] \in Nat /\ lockedTil[ask[r].card] \in Nat
        BY <1>2 DEF Inv, TypeOK
      <3>2. PICK m, n \in Nat : /\ failures' = [failures EXCEPT ![ask[r].card] = m]
                                /\ lockedTil' = [lockedTil EXCEPT ![ask[r].card] = n]
        BY <2>1, <3>1 DEF IsLocked
      <3> QED BY <3>2 DEF Inv, TypeOK
    <2>2. CASE RightCVV(r)
      BY <2>2 DEF RightCVV, Inv, TypeOK
    <2>3. CASE WrongCVV(r)
      <3>1. now + Lockout \in Nat /\ failures[ask[r].card] + 1 \in Nat
        BY <1>2, CardsAssumption DEF Inv, TypeOK
      <3> QED BY <2>3, <3>1 DEF WrongCVV, Inv, TypeOK
    <2> QED BY <2>1, <2>2, <2>3
  <1>5. CASE Answer(r)
    <2>1. RowsMove
      BY <1>3 DEF RowsMove, rowVars
    <2>2. TypeOK'
      BY <1>3, <1>4, <1>5, AnswerFrame DEF Inv, TypeOK, rowVars, Serving, Creating
    <2> QED BY <1>3, <1>5, <2>1, <2>2, AnswerFrame DEF Inv, Moves
  <1>6. ASSUME NEW next \in {"cvv", "recipient", "hash"}, Go(r, next),
               UNCHANGED <<ask, code, since, tries>>,
               next = "hash" => ask[r].kind # "card_transfer"
        PROVE  Moves(r)
    <2>1. pc'[r] = next
      BY <1>6 DEF Go, Inv, TypeOK
    <2>2. Grounded(r)'
      BY <1>1, <1>3, <1>6, <2>1 DEF Grounded, GoodSince, rowVars, Serving, LookedUp, Creating
    <2>3. /\ tries' \in [Requests -> Nat]
          /\ code' \in [Requests -> Codes \cup RevealCodes \cup {Nothing}]
          /\ next \in Serving \cup Creating
      BY <1>6 DEF Inv, TypeOK, Serving
    <2> QED BY <1>1, <1>3, <1>4, <1>6, <2>2, <2>3, GoingOnMoves
  <1>7. CASE IsLocked(r)
    BY <1>5, <1>6, <1>7 DEF IsLocked
  <1>8. CASE WrongCVV(r)
    BY <1>5, <1>8 DEF WrongCVV
  <1>9. CASE RightCVV(r)
    BY <1>6, <1>9 DEF RightCVV
  <1> QED BY <1>7, <1>8, <1>9

LEMMA FindRecipientMoves ==
    ASSUME Inv, NEW r \in Requests, FindRecipient(r) PROVE Moves(r)
  <1>1. pc[r] = "recipient"
    BY DEF FindRecipient, Check
  <1>2. ask[r] \in Asks /\ GoodSince(ask[r].card, since[r]) /\ since[r] <= now
    BY <1>1 DEF Inv, Grounded, Timely, InFlight, Serving
  <1>3. RecipientCard(ask[r]) /\ ask[r].kind = "card_transfer" => GoodSince(ask[r].to, since[r])
    BY <1>2, AskTyping, CardsAssumption DEF RecipientCard, Usable, GoodSince, Inv, TypeOK
  <1>4. RecipientCard(ask[r]) /\ pc'[r] = "hash" /\ UNCHANGED <<ask, since, rowVars, status>>
          => Grounded(r)'
    BY <1>2, <1>3 DEF Grounded, GoodSince, rowVars, Serving, LookedUp, Creating
  <1> QED BY <1>4, CheckMoves DEF FindRecipient, Serving

LEMMA HashMoves ==
    ASSUME Inv, NEW r \in Requests, HashCard(r) \/ HashRecipient(r) \/ HashAccounts(r)
    PROVE  Moves(r)
  <1>1. pc[r] \in {"hash", "rehash", "accounts"}
    BY DEF HashCard, HashRecipient, HashAccounts, Check
  <1>2. ASSUME NEW at \in Serving, NEW verdict \in BOOLEAN, pc[r] = at,
               NEW next \in {"rehash", "accounts", "code"},
               Check(r, at, verdict, next)
        PROVE  Moves(r)
    <2>1. verdict /\ pc'[r] = next /\ UNCHANGED <<ask, since, rowVars, status>>
             => Grounded(r)'
      BY <1>1 DEF Inv, Grounded, GoodSince, rowVars, Serving, LookedUp, Creating
    <2> QED BY <1>2, <2>1, CheckMoves DEF Serving
  <1>3. CASE HashCard(r)
    <2> DEFINE next == IF ask[r].kind = "card_transfer" THEN "rehash" ELSE "accounts"
    <2>1. Check(r, "hash", OwnCard(ask[r]), next) /\ pc[r] = "hash"
      BY <1>3 DEF HashCard, Check
    <2>2. OwnCard(ask[r]) \in BOOLEAN
      BY DEF OwnCard, Usable
    <2> QED BY <1>2, <2>1, <2>2 DEF Serving
  <1>4. CASE HashRecipient(r)
    <2>1. Check(r, "rehash", RecipientCard(ask[r]), "accounts")
          /\ pc[r] = "rehash"
      BY <1>4 DEF HashRecipient, Check
    <2>2. RecipientCard(ask[r]) \in BOOLEAN
      BY DEF RecipientCard, Usable
    <2> QED BY <1>2, <2>1, <2>2 DEF Serving
  <1>5. CASE HashAccounts(r)
    <2>1. Check(r, "accounts", AccountsAvailable(ask[r]), "code") /\ pc[r] = "accounts"
      BY <1>5 DEF HashAccounts, Check
    <2>2. AccountsAvailable(ask[r]) \in BOOLEAN
      BY DEF AccountsAvailable
    <2> QED BY <1>2, <2>1, <2>2 DEF Serving
  <1> QED BY <1>3, <1>4, <1>5

LEMMA VerifyCodeMoves ==
    ASSUME Inv, NEW r \in Requests, NEW c \in Codes \cup RevealCodes, VerifyCode(r, c)
    PROVE  Moves(r)
  <1>1. pc[r] = "code" /\ Go(r, "execute") /\ pc'[r] = "execute" /\ InFlight(r)
    BY DEF VerifyCode, Go, Inv, TypeOK, InFlight
  <1>2. UNCHANGED <<now, status, rowVars, ask, since, failures, lockedTil, tries>>
    BY DEF VerifyCode, bankVars, limiterVars
  <1>3. Grounded(r)'
    BY <1>1, <1>2 DEF Inv, Grounded, GoodSince, rowVars, Serving, LookedUp, Creating
  <1>4. /\ failures' \in [Cards -> Nat] /\ lockedTil' \in [Cards -> Nat]
        /\ tries' \in [Requests -> Nat]
        /\ code' \in [Requests -> Codes \cup RevealCodes \cup {Nothing}]
    BY <1>2 DEF VerifyCode, Inv, TypeOK
  <1> QED BY <1>1, <1>2, <1>3, <1>4, GoingOnMoves DEF Serving

LEMMA ExecuteMoves ==
    ASSUME Inv, NEW r \in Requests, Execute(r) \/ Reveal(r) PROVE Moves(r)
  <1>1. CASE Execute(r)
    BY <1>1, AnswersMove
    DEF Execute, Accounting!Spend, rowVars, limiterVars
  <1>2. CASE Reveal(r)
    <2>1. pc[r] = "execute" /\ Answer(r)
      BY <1>2 DEF Reveal
    <2>2. UNCHANGED <<now, status, card, cardClosed, closedSince, failures, lockedTil>>
      BY <1>2 DEF Reveal, bankVars, limiterVars
    <2>3. reveals' \in [RevealCodes -> {"absent", "active", "used"}]
      BY <1>2 DEF Reveal, Inv, TypeOK
    <2>4. TypeOK'
      BY <2>1, <2>2, <2>3, AnswerFrame DEF Inv, TypeOK, Serving, Creating
    <2>5. RowsMove
      BY <2>2 DEF RowsMove
    <2> QED BY <2>1, <2>2, <2>4, <2>5, AnswerFrame DEF Inv, Moves
  <1> QED BY <1>1, <1>2

LEMMA FailMoves ==
    ASSUME Inv, NEW r \in Requests, Fail(r) PROVE Moves(r)
  BY AnswersMove DEF Fail, bankVars, rowVars, limiterVars

LEMMA CreateCardMoves ==
    ASSUME Inv, NEW r \in Requests, NEW k \in Cards, CreateCard(r, k) PROVE Moves(r)
  <1>1. /\ pc' \in [Requests -> Serving \cup Creating \cup {"idle"}]
        /\ pc'[r] = "create" /\ ask'[r] = k /\ since'[r] = now
        /\ ask' \in [Requests -> Asks \cup Cards \cup {Nothing}]
        /\ since' \in [Requests -> Nat] /\ tries' \in [Requests -> Nat]
        /\ \A q \in Requests \ {r} : /\ pc'[q] = pc[q] /\ ask'[q] = ask[q]
                                     /\ since'[q] = since[q]
    BY DEF CreateCard, Go, Inv, TypeOK, Serving, Creating
  <1>2. UNCHANGED <<now, status, card, cardClosed, closedSince, reveals, failures,
                    lockedTil, code>>
    BY DEF CreateCard, bankVars, rowVars, limiterVars
  <1>3. TypeOK'
    BY <1>1, <1>2 DEF Inv, TypeOK, Serving, Creating
  <1>4. RowsMove
    BY <1>2 DEF RowsMove
  <1>5. Timely(r)'
    BY <1>1, <1>2, CardsAssumption DEF Timely, Inv, TypeOK
  <1>6. Grounded(r)'
    BY <1>1 DEF Grounded, Serving, LookedUp, Creating
  <1> QED BY <1>1, <1>2, <1>3, <1>4, <1>5, <1>6 DEF Moves

LEMMA InsertWhereExistsMoves ==
    ASSUME Inv, NEW r \in Requests, InsertWhereExists(r) PROVE Moves(r)
  <1> DEFINE verdict == Available(CardAccount[ask[r]])
  <1>1. pc[r] = "create" /\ Check(r, "create", verdict, "insert")
    BY DEF InsertWhereExists, Check
  <1>2. verdict /\ pc'[r] = "insert" /\ UNCHANGED <<ask, since, rowVars, status>>
          => Grounded(r)'
    BY <1>1 DEF Inv, Grounded, OpenSince, Available, Serving, LookedUp, Creating
  <1> HIDE DEF verdict
  <1> QED BY <1>1, <1>2, CheckMoves DEF Creating

LEMMA InsertMoves ==
    ASSUME Inv, NEW r \in Requests, Insert(r) PROVE Moves(r)
  <1>1. Answer(r) /\ UNCHANGED <<now, status, cardClosed, closedSince, reveals,
                                failures, lockedTil>>
    BY DEF Insert, bankVars, limiterVars
  <1>2. card' \in [Cards -> {"absent", "active", "closed"}]
    BY DEF Insert, Inv, TypeOK
  <1>3. TypeOK'
    BY <1>1, <1>2, AnswerFrame DEF Inv, TypeOK, Serving, Creating
  <1>4. RowsMove
    BY <1>1 DEF Insert, RowsMove, Inv, TypeOK
  <1> QED BY <1>1, <1>3, <1>4, AnswerFrame DEF Inv, Moves

LEMMA AlreadyExistsMoves ==
    ASSUME Inv, NEW r \in Requests, AlreadyExists(r) PROVE Moves(r)
  <1>1. pc[r] = "insert" /\ InFlight(r) /\ ask[r] \in Cards
    BY DEF AlreadyExists, InFlight, Inv, Grounded, Creating
  <1>2. UNCHANGED <<now, status, rowVars, failures, lockedTil>>
    BY DEF AlreadyExists, bankVars, limiterVars
  <1>3. CASE Answer(r)
    BY <1>2, <1>3, AnswersMove DEF rowVars
  <1>4. CASE Go(r, "create") /\ tries' = [tries EXCEPT ![r] = @ + 1]
             /\ UNCHANGED <<ask, code, since>>
    <2>1. pc'[r] = "create"
      BY <1>4 DEF Go, Inv, TypeOK
    <2>2. Grounded(r)'
      BY <1>1, <1>4, <2>1 DEF Grounded, Serving, LookedUp, Creating
    <2>3. /\ failures' \in [Cards -> Nat] /\ lockedTil' \in [Cards -> Nat]
          /\ tries' \in [Requests -> Nat]
          /\ code' \in [Requests -> Codes \cup RevealCodes \cup {Nothing}]
      BY <1>2, <1>4 DEF Inv, TypeOK
    <2> QED BY <1>1, <1>2, <1>4, <2>2, <2>3, GoingOnMoves DEF Creating
  <1> QED BY <1>3, <1>4 DEF AlreadyExists

LEMMA RequestMoves ==
    ASSUME Inv, NEW r \in Requests,
           \/ Step(r)
           \/ \E a \in Asks : Begin(r, a)
           \/ \E c \in Codes \cup RevealCodes : VerifyCode(r, c)
           \/ \E k \in Cards : CreateCard(r, k)
    PROVE  Moves(r)
  BY BeginMoves, LimiterMoves, FindRecipientMoves, HashMoves, VerifyCodeMoves,
     ExecuteMoves, FailMoves, CreateCardMoves, InsertWhereExistsMoves, InsertMoves,
     AlreadyExistsMoves DEF Step

(* The invariant survives a step of a request ...                          *)
LEMMA MovesKeepInv ==
    ASSUME Inv, NEW r \in Requests, Moves(r) PROVE Inv'
  <1>1. ASSUME NEW q \in Requests \ {r} PROVE Timely(q)' /\ Grounded(q)'
    BY <1>1, OthersStayGrounded DEF Moves, Inv, Timely, InFlight
  <1>2. Timely(r)' /\ Grounded(r)'
    BY AnsweredIsGrounded DEF Moves
  <1> QED BY <1>1, <1>2 DEF Inv, Moves

(* ... and one that no request takes.                                      *)
LEMMA BystandersKeepInv ==
    ASSUME Inv, TypeOK', RowsMove, UNCHANGED <<now, pc, ask, since>> PROVE Inv'
  BY OthersStayGrounded DEF Inv, Timely, InFlight

LEMMA InvInductive == Inv /\ [Next]_vars => Inv'
  <1> SUFFICES ASSUME Inv, [Next]_vars PROVE Inv'
    OBVIOUS
  <1>1. ASSUME NEW r \in Requests,
               \/ Step(r)
               \/ \E a \in Asks : Begin(r, a)
               \/ \E c \in Codes \cup RevealCodes : VerifyCode(r, c)
               \/ \E k \in Cards : CreateCard(r, k)
        PROVE  Inv'
    BY <1>1, RequestMoves, MovesKeepInv
  <1>2. ASSUME NEW k \in Cards, CloseCard(k) PROVE Inv'
    <2>1. TypeOK' /\ UNCHANGED <<now, pc, ask, since>>
      BY <1>2 DEF CloseCard, Inv, TypeOK, bankVars, limiterVars, requestVars
    <2>2. RowsMove
      BY <1>2 DEF CloseCard, RowsMove, Inv, TypeOK, bankVars
    <2> QED BY <2>1, <2>2, BystandersKeepInv
  <1>3. ASSUME NEW c \in Codes \cup RevealCodes, RequestCode(c) PROVE Inv'
    <2>1. UNCHANGED <<now, status, card, cardClosed, closedSince, failures, lockedTil,
                      pc, ask, since, code, tries>>
      BY <1>3 DEF RequestCode, Accounting!Issue, bankVars, limiterVars, requestVars
    <2>2. reveals' \in [RevealCodes -> {"absent", "active", "used"}]
      BY <1>3 DEF RequestCode, Inv, TypeOK
    <2>3. TypeOK' /\ RowsMove
      BY <2>1, <2>2 DEF Inv, TypeOK, RowsMove
    <2> QED BY <2>1, <2>3, BystandersKeepInv
  <1>4. ASSUME NEW o \in Ops, CloseAccount(o) PROVE Inv'
    <2>1. TypeOK' /\ UNCHANGED <<now, pc, ask, since>>
      BY <1>4 DEF CloseAccount, Accounting!Close, Inv, TypeOK, limiterVars, requestVars
    <2>2. RowsMove
      BY <1>4 DEF CloseAccount, Accounting!Close, RowsMove, Inv, TypeOK
    <2> QED BY <2>1, <2>2, BystandersKeepInv
  <1>5. ASSUME NEW a \in Accounts, SetAccountBlocked(a) PROVE Inv'
    <2>1. UNCHANGED <<now, status, cardVars>>
      BY <1>5 DEF SetAccountBlocked, Accounting!SetBlocked
    <2>2. TypeOK' /\ RowsMove /\ UNCHANGED <<now, pc, ask, since>>
      BY <2>1 DEF Inv, TypeOK, RowsMove, cardVars, rowVars, limiterVars, requestVars
    <2> QED BY <2>2, BystandersKeepInv
  <1>6. CASE Restart
    <2>1. \A r \in Requests : pc'[r] = "idle"
      BY <1>6 DEF Restart
    <2>2. TypeOK'
      BY <1>6 DEF Restart, Inv, TypeOK, bankVars, rowVars
    <2> QED BY <2>1, <2>2, AnsweredIsGrounded DEF Inv
  <1>7. CASE Tick
    <2>1. now' = now + 1 /\ UNCHANGED <<status, cardVars>>
      BY <1>7 DEF Tick, Advance, bankVars
    <2>2. TypeOK' /\ RowsMove
      BY <2>1 DEF Inv, TypeOK, RowsMove, cardVars, rowVars, limiterVars, requestVars
    <2>3. \A r \in Requests : Timely(r)'
      BY <1>7, <2>1, CardsAssumption
      DEF Inv, TypeOK, Timely, InFlight, Tick, cardVars, requestVars
    <2>4. \A r \in Requests : Grounded(r)'
      BY <2>1, <2>2, OthersStayGrounded DEF Inv, cardVars, requestVars
    <2> QED BY <2>2, <2>3, <2>4 DEF Inv
  <1>8. CASE UNCHANGED vars
    <2>1. TypeOK' /\ RowsMove /\ UNCHANGED <<now, pc, ask, since>>
      BY <1>8 DEF Inv, TypeOK, RowsMove, vars, bankVars, cardVars, rowVars, limiterVars,
                  requestVars
    <2> QED BY <2>1, BystandersKeepInv
  <1> QED BY <1>1, <1>2, <1>3, <1>4, <1>5, <1>6, <1>7, <1>8 DEF Next

LEMMA InitialInv == Init => Inv
  BY BankAssumption DEF Init, BankInit, Inv, TypeOK, Timely, InFlight, Grounded,
     Serving, LookedUp, Creating

LEMMA AlwaysInv == Spec => []Inv
  BY InitialInv, InvInductive, PTL DEF Spec

(* The variables keep their types.                                         *)
THEOREM CardsTyping == Spec => []TypeOK
  BY AlwaysInv, PTL DEF Inv

(* Closing a card, or its expiry, stops it for good once the requests      *)
(* under way have met their deadline: for any number of cards, requests    *)
(* and codes.                                                              *)
THEOREM ClosedCardsStop == Spec => ClosedCardStops
  <1>1. ASSUME Inv, NEW r \in Requests, NEW a \in Asks, Executes(r, a)
        PROVE  /\ now <= GoodUntil(a.card) + Deadline
               /\ a.kind = "card_transfer" => now <= GoodUntil(a.to) + Deadline
    <2>1. /\ pc[r] = "execute" /\ ask[r] = a
          /\ since[r] \in Nat /\ now \in Nat /\ now <= since[r] + Deadline
          /\ GoodSince(a.card, since[r])
          /\ a.kind = "card_transfer" => GoodSince(a.to, since[r])
      BY <1>1 DEF Executes, Inv, TypeOK, Timely, Grounded, InFlight, Serving, LookedUp
    <2>2. \A k \in Cards : GoodSince(k, since[r]) => now <= GoodUntil(k) + Deadline
      BY <1>1, <2>1, CardsAssumption DEF GoodSince, GoodUntil, Inv, TypeOK
    <2> QED BY <2>1, <2>2, AskTyping
  <1>2. Inv => [\A r \in Requests, a \in Asks :
                  Executes(r, a) => /\ now <= GoodUntil(a.card) + Deadline
                                    /\ a.kind = "card_transfer"
                                         => now <= GoodUntil(a.to) + Deadline]_vars
    BY <1>1
  <1> QED BY <1>2, AlwaysInv, PTL DEF ClosedCardStops

(* No card is issued later than a deadline after its account was closed.   *)
THEOREM ClosedAccountsGetNoCards == Spec => NoCardAfterClosing
  <1>1. ASSUME Inv, [Next]_vars, NEW k \in Cards, card[k] = "absent", card'[k] = "active",
               status[CardAccount[k]] = "closed"
        PROVE  now <= closedSince[CardAccount[k]] + Deadline
    <2>1. PICK r \in Requests : Insert(r)
      BY <1>1 DEF Next, Step, IsLocked, WrongCVV, RightCVV, FindRecipient, HashCard,
         HashRecipient, HashAccounts, Execute, Reveal, Fail, InsertWhereExists, AlreadyExists, Begin,
         VerifyCode, CreateCard, CloseCard, RequestCode, CloseAccount, SetAccountBlocked,
         Restart, Tick, Check, vars, cardVars, rowVars, Inv, TypeOK
    <2>2. ask[r] = k /\ pc[r] = "insert"
      BY <1>1, <2>1 DEF Insert, Inv, TypeOK
    <2>3. since[r] <= closedSince[CardAccount[k]] /\ now <= since[r] + Deadline
      BY <1>1, <2>2 DEF Inv, Timely, InFlight, Grounded, OpenSince
    <2>4. CardAccount[k] \in Accounts
      BY CardsAssumption
    <2>5. since[r] \in Nat /\ now \in Nat /\ closedSince[CardAccount[k]] \in Nat
          /\ Deadline \in Nat
      BY <1>1, <2>4, CardsAssumption DEF Inv, TypeOK
    <2> QED BY <2>3, <2>5
  <1>2. Inv /\ [Next]_vars =>
          [\A k \in Cards :
              card[k] = "absent" /\ card'[k] = "active" /\ status[CardAccount[k]] = "closed"
                 => now <= closedSince[CardAccount[k]] + Deadline]_vars
    BY <1>1
  <1> QED BY <1>2, AlwaysInv, PTL DEF Spec, NoCardAfterClosing

----------------------------------------------------------------------------
(* Guessing at the CVV.  The failures of a card count the guesses since    *)
(* its limiter was last reset; all earlier ones are more than a lockout    *)
(* old, for nothing but the end of a lockout resets the limiter and keeps  *)
(* the guesses.                                                            *)

(* The requests that isLocked has let through to card k.                   *)
Guessing(k) == {r \in Requests : pc[r] = "cvv" /\ ask[r].card = k}

(* As many guesses fit into what failures counts.                          *)
Burst == MaxFailures - 1 + Cardinality(Requests)

(* Of one card: its wrong guesses g, f failures, the lockout l, and u      *)
(* requests about to guess, at time t.                                     *)
Limits(g, f, l, u, t) ==
    /\ f <= Len(g)
    /\ f + u <= Burst
    /\ l = 0 => f < MaxFailures
    /\ l # 0 => f >= MaxFailures /\ \A i \in 1..Len(g) : g[i] + Lockout <= l
    /\ \A i \in 1..Len(g) : g[i] <= t
    /\ \A i \in 1..(Len(g) - f) : g[i] + Lockout < t

SpreadOut(g) == \A i, j \in 1..Len(g) : j = i + Burst => g[j] > g[i] + Lockout

GuessInv ==
    /\ guesses \in [Cards -> Seq(Nat)]
    /\ \A k \in Cards :
          /\ Limits(guesses[k], failures[k], lockedTil[k], Cardinality(Guessing(k)), now)
          /\ SpreadOut(guesses[k])

LEMMA CardBounds ==
    /\ MaxFailures \in Nat \ {0} /\ Lockout \in Nat \ {0}
    /\ Cardinality(Requests) \in Nat /\ Burst \in Nat
    /\ Burst = MaxFailures - 1 + Cardinality(Requests)
<1>1. Cardinality(Requests) \in Nat
  BY CardsAssumption, FS_CardinalityType
<1> QED
  BY <1>1, CardsAssumption DEF Burst

LEMMA GuessingIsBounded ==
    ASSUME NEW k
    PROVE  /\ IsFiniteSet(Guessing(k)) /\ IsFiniteSet(Guessing(k)')
           /\ Cardinality(Guessing(k)) \in Nat /\ Cardinality(Guessing(k)') \in Nat
           /\ Cardinality(Guessing(k)) <= Cardinality(Requests)
           /\ Cardinality(Guessing(k)') <= Cardinality(Requests)
<1>1. Guessing(k) \in SUBSET Requests /\ Guessing(k)' \in SUBSET Requests
  BY DEF Guessing
<1> QED
  BY <1>1, CardsAssumption, FS_Subset, FS_CardinalityType

LEMMA NoGuesses ==
    ASSUME NEW u \in Nat, u <= Cardinality(Requests), NEW t
    PROVE  Limits(<<>>, 0, 0, u, t) /\ SpreadOut(<<>>)
<1>1. Len(<<>>) = 0 /\ 1..0 = {} /\ 1..(0 - 0) = {}
  OBVIOUS
<1> QED
  BY <1>1, CardBounds DEF Limits, SpreadOut

(* Time passes, or requests give up.                                       *)
LEMMA LimitsLast ==
    ASSUME NEW g \in Seq(Nat), NEW f \in Nat, NEW l \in Nat, NEW u \in Nat, NEW t \in Nat,
           Limits(g, f, l, u, t), NEW v \in Nat, v <= u, NEW w \in Nat, t <= w
    PROVE  Limits(g, f, l, v, w)
<1>1. Len(g) \in Nat /\ \A i \in 1..Len(g) : g[i] \in Nat
  OBVIOUS
<1>2. \A i \in 1..(Len(g) - f) : i \in 1..Len(g)
  BY <1>1
<1> QED
  BY <1>1, <1>2, CardBounds, SMTT(30) DEF Limits

(* A lockout has passed: the limiter is reset.                             *)
LEMMA LimitsReset ==
    ASSUME NEW g \in Seq(Nat), NEW f \in Nat, NEW l \in Nat \ {0}, NEW u \in Nat, NEW t \in Nat,
           Limits(g, f, l, u, t), t > l, NEW v \in Nat, v <= Cardinality(Requests)
    PROVE  Limits(g, 0, 0, v, t)
<1>1. Len(g) \in Nat /\ \A i \in 1..Len(g) : g[i] \in Nat
  OBVIOUS
<1>2. \A i \in 1..(Len(g) - 0) : g[i] + Lockout < t
  <2>1. Len(g) - 0 = Len(g) /\ \A i \in 1..Len(g) : g[i] + Lockout <= l
    BY <1>1 DEF Limits
  <2> QED
    BY <1>1, <2>1, CardBounds
<1> QED
  BY <1>1, <1>2, CardBounds DEF Limits

(* Another wrong guess.                                                    *)
LEMMA LimitsGuess ==
    ASSUME NEW g \in Seq(Nat), NEW f \in Nat, NEW l \in Nat, NEW u \in Nat \ {0}, NEW t \in Nat,
           Limits(g, f, l, u, t), SpreadOut(g),
           NEW m \in Nat, m = IF f + 1 >= MaxFailures THEN t + Lockout ELSE l
    PROVE  /\ Append(g, t) \in Seq(Nat)
           /\ Limits(Append(g, t), f + 1, m, u - 1, t)
           /\ SpreadOut(Append(g, t))
<1> DEFINE h == Append(g, t)
           n == Len(g)
<1>1. /\ h \in Seq(Nat) /\ n \in Nat /\ Len(h) = n + 1 /\ h[n + 1] = t
      /\ \A i \in 1..n : h[i] = g[i] /\ g[i] \in Nat
  OBVIOUS
<1> HIDE DEF h, n
<1>2. /\ f <= n /\ f + u <= Burst
      /\ l = 0 => f < MaxFailures
      /\ l # 0 => f >= MaxFailures
      /\ \A i \in 1..n : g[i] <= t
      /\ \A i \in 1..(n - f) : g[i] + Lockout < t
  BY DEF Limits, n
<1>3. \A i \in 1..(n + 1) : h[i] \in Nat /\ h[i] <= t
  <2> SUFFICES ASSUME NEW i \in 1..(n + 1)
               PROVE  h[i] \in Nat /\ h[i] <= t
    OBVIOUS
  <2>1. CASE i = n + 1
    BY <1>1, <2>1
  <2>2. CASE i \in 1..n
    BY <1>1, <1>2, <2>2
  <2> QED
    BY <1>1, <2>1, <2>2
<1>4. \A i \in 1..((n + 1) - (f + 1)) : h[i] + Lockout < t
  <2>1. (n + 1) - (f + 1) = n - f /\ \A i \in 1..(n - f) : i \in 1..n
    BY <1>1, <1>2
  <2> QED
    BY <1>1, <1>2, <2>1
<1>5. Limits(h, f + 1, m, u - 1, t)
  BY <1>1, <1>2, <1>3, <1>4, CardBounds, SMTT(30) DEF Limits
<1>6. SpreadOut(h)
  <2> SUFFICES ASSUME NEW i \in 1..(n + 1), NEW j \in 1..(n + 1), j = i + Burst
               PROVE  h[j] > h[i] + Lockout
    BY <1>1 DEF SpreadOut
  <2>1. CASE j = n + 1
    <3>1. i \in 1..((n + 1) - (f + 1))
      BY <1>1, <1>2, <2>1, CardBounds
    <3> QED
      BY <1>1, <1>3, <1>4, <2>1, <3>1, CardBounds
  <2>2. CASE j # n + 1
    <3>1. i \in 1..n /\ j \in 1..n
      <4>1. Burst \in Nat
        BY CardBounds
      <4> QED
        BY <1>1, <2>2, <4>1
    <3> QED
      BY <1>1, <3>1 DEF SpreadOut, n
  <2> QED
    BY <2>1, <2>2
<1> QED
  BY <1>1, <1>5, <1>6 DEF h

(* A step that touches no limiter lets no more requests guess.             *)
LEMMA OthersKeepGuesses ==
    ASSUME Inv, GuessInv, UNCHANGED limiterVars, now' \in Nat, now <= now',
           \A q \in Requests : pc'[q] = "cvv" => pc[q] = "cvv" /\ ask'[q] = ask[q]
    PROVE  GuessInv'
<1>1. UNCHANGED <<failures, lockedTil, guesses>>
  BY DEF limiterVars
<1> SUFFICES ASSUME NEW k \in Cards
             PROVE  Limits(guesses[k], failures[k], lockedTil[k], Cardinality(Guessing(k))', now')
  BY <1>1 DEF GuessInv
<1>2. Guessing(k)' \in SUBSET Guessing(k)
  BY DEF Guessing
<1>3. Cardinality(Guessing(k)') <= Cardinality(Guessing(k))
  BY <1>2, GuessingIsBounded, FS_Subset
<1> QED
  BY <1>3, GuessingIsBounded, LimitsLast DEF GuessInv, Inv, TypeOK

(* One request of card k moves its limiter.                                *)
LEMMA GuessersKeepGuesses ==
    ASSUME Inv, GuessInv, NEW r \in Requests, IsLocked(r) \/ WrongCVV(r) \/ RightCVV(r)
    PROVE  GuessInv'
<1>1. PICK k \in Cards : ask[r].card = k
  <2>1. ask[r] \in Asks
    BY DEF IsLocked, WrongCVV, RightCVV, Inv, Grounded, Serving
  <2> QED
    BY <2>1, AskTyping
<1>2. /\ guesses \in [Cards -> Seq(Nat)] /\ failures \in [Cards -> Nat]
      /\ lockedTil \in [Cards -> Nat] /\ now \in Nat /\ now' = now
  BY DEF GuessInv, Inv, TypeOK, IsLocked, WrongCVV, RightCVV
<1>3. \A q \in Requests : /\ q # r => pc'[q] = pc[q]
                          /\ ask'[q] = ask[q] \/ (q = r /\ pc'[q] # "cvv")
  BY DEF IsLocked, WrongCVV, RightCVV, Answer, Go, Inv, TypeOK
<1>4. ASSUME NEW c \in Cards, c # k
      PROVE  /\ Limits(guesses[c], failures[c], lockedTil[c], Cardinality(Guessing(c)), now)'
             /\ SpreadOut(guesses[c])'
  <2>1. guesses'[c] = guesses[c] /\ failures'[c] = failures[c] /\ lockedTil'[c] = lockedTil[c]
    BY <1>1, <1>2, <1>4 DEF IsLocked, WrongCVV, RightCVV
  <2>2. Guessing(c)' \in SUBSET Guessing(c)
    BY <1>1, <1>3, <1>4 DEF Guessing
  <2>3. Cardinality(Guessing(c)') <= Cardinality(Guessing(c))
    BY <2>2, GuessingIsBounded, FS_Subset
  <2> QED
    BY <1>2, <2>1, <2>3, GuessingIsBounded, LimitsLast, SMTT(30) DEF GuessInv
<1> DEFINE u == Cardinality(Guessing(k))
           v == Cardinality(Guessing(k))'
<1>5. /\ Limits(guesses[k], failures[k], lockedTil[k], u, now) /\ SpreadOut(guesses[k])
      /\ u \in Nat /\ v \in Nat /\ v <= Cardinality(Requests)
      /\ guesses[k] \in Seq(Nat) /\ failures[k] \in Nat /\ lockedTil[k] \in Nat
  BY <1>1, <1>2, GuessingIsBounded DEF GuessInv
<1> HIDE DEF u, v
<1>6. CASE IsLocked(r)
  <2>1. guesses' = guesses
    BY <1>6 DEF IsLocked
  <2>2. CASE lockedTil[k] # 0 /\ now > lockedTil[k]
    <3>1. failures'[k] = 0 /\ lockedTil'[k] = 0
      BY <1>1, <1>2, <1>6, <2>2 DEF IsLocked
    <3> QED
      BY <1>2, <1>4, <1>5, <2>1, <2>2, <3>1, LimitsReset DEF GuessInv, v
  <2>3. CASE ~(lockedTil[k] # 0 /\ now > lockedTil[k])
    <3>1. failures'[k] = failures[k] /\ lockedTil'[k] = lockedTil[k]
      BY <1>1, <1>2, <1>6, <2>3 DEF IsLocked
    <3>2. CASE lockedTil[k] = 0
      <4>1. Limits(guesses[k], failures[k], lockedTil[k], v, now)
        <5>1. failures[k] + v <= Burst
          BY <1>5, <3>2, CardBounds DEF Limits
        <5> QED
          BY <1>5, <5>1 DEF Limits
      <4> QED
        BY <1>2, <1>4, <1>5, <2>1, <3>1, <4>1 DEF GuessInv, v
    <3>3. CASE lockedTil[k] # 0
      <4>1. pc'[r] = "idle"
        BY <1>1, <1>6, <2>3, <3>3 DEF IsLocked, Answer, Go, Inv, TypeOK
      <4>2. Guessing(k)' \in SUBSET Guessing(k)
        BY <1>3, <4>1 DEF Guessing
      <4>3. v <= u
        BY <4>2, GuessingIsBounded, FS_Subset DEF u, v
      <4>4. Limits(guesses[k], failures[k], lockedTil[k], v, now)
        BY <1>2, <1>5, <4>3, LimitsLast
      <4> QED
        BY <1>2, <1>4, <1>5, <2>1, <3>1, <4>4 DEF GuessInv, v
    <3> QED
      BY <3>2, <3>3
  <2> QED
    BY <2>2, <2>3
<1>7. CASE WrongCVV(r)
  <2>1. r \in Guessing(k) /\ Guessing(k)' = Guessing(k) \ {r}
    <3>1. pc[r] = "cvv" /\ pc'[r] = "idle"
      BY <1>7 DEF WrongCVV, Answer, Go, Inv, TypeOK
    <3> QED
      BY <1>1, <1>3, <3>1 DEF Guessing
  <2>2. v = u - 1 /\ u \in Nat \ {0}
    <3>1. Cardinality(Guessing(k) \ {r}) = Cardinality(Guessing(k)) - 1
      BY <2>1, GuessingIsBounded, FS_RemoveElement
    <3>2. v = u - 1
      BY <2>1, <3>1 DEF u, v
    <3> QED
      BY <1>5, <3>2
  <2>3. /\ guesses' = [guesses EXCEPT ![k] = Append(guesses[k], now)]
        /\ failures'[k] = failures[k] + 1
        /\ lockedTil'[k] = IF failures[k] + 1 >= MaxFailures THEN now + Lockout ELSE lockedTil[k]
    BY <1>1, <1>2, <1>7 DEF WrongCVV
  <2>4. lockedTil'[k] \in Nat
    BY <1>2, <1>5, <2>3, CardBounds
  <2>5. /\ Append(guesses[k], now) \in Seq(Nat)
        /\ Limits(Append(guesses[k], now), failures'[k], lockedTil'[k], v, now)
        /\ SpreadOut(Append(guesses[k], now))
    <3> DEFINE g == guesses[k]
               f == failures[k]
               l == lockedTil[k]
               m == lockedTil'[k]
    <3>1. /\ g \in Seq(Nat) /\ f \in Nat /\ l \in Nat /\ m \in Nat
          /\ u \in Nat \ {0} /\ now \in Nat
          /\ Limits(g, f, l, u, now) /\ SpreadOut(g)
          /\ m = IF f + 1 >= MaxFailures THEN now + Lockout ELSE l
      BY <1>2, <1>5, <2>2, <2>3, <2>4
    <3>2. failures'[k] = f + 1 /\ v = u - 1
      BY <2>2, <2>3
    <3> HIDE DEF g, f, l, m, u, v
    <3>3. /\ Append(g, now) \in Seq(Nat)
          /\ Limits(Append(g, now), f + 1, m, u - 1, now)
          /\ SpreadOut(Append(g, now))
      BY <3>1, LimitsGuess
    <3> QED
      BY <3>2, <3>3 DEF g, m
  <2> QED
    BY <1>1, <1>2, <1>4, <2>3, <2>5 DEF GuessInv, v
<1>8. CASE RightCVV(r)
  <2>1. guesses' = [guesses EXCEPT ![k] = <<>>] /\ failures'[k] = 0 /\ lockedTil'[k] = 0
    BY <1>1, <1>2, <1>8 DEF RightCVV
  <2>2. Limits(<<>>, 0, 0, v, now) /\ SpreadOut(<<>>)
    BY <1>5, NoGuesses
  <2>3. guesses'[k] = <<>> /\ guesses' \in [Cards -> Seq(Nat)]
    BY <1>1, <1>2, <2>1
  <2> QED
    BY <1>2, <1>4, <2>1, <2>2, <2>3 DEF GuessInv, v
<1> QED
  BY <1>6, <1>7, <1>8

LEMMA GuessStep == Inv /\ GuessInv /\ [Next]_vars => GuessInv'
<1> SUFFICES ASSUME Inv, GuessInv, [Next]_vars
             PROVE  GuessInv'
  OBVIOUS
<1>0. now \in Nat /\ pc \in [Requests -> Serving \cup Creating \cup {"idle"}]
  BY DEF Inv, TypeOK, Serving, Creating
<1>1. ASSUME NEW r \in Requests, UNCHANGED <<now, limiterVars>>, pc'[r] # "cvv",
             \A q \in Requests \ {r} : pc'[q] = pc[q] /\ ask'[q] = ask[q]
      PROVE  GuessInv'
  BY <1>0, <1>1, OthersKeepGuesses
<1>2. ASSUME NEW r \in Requests, IsLocked(r) \/ WrongCVV(r) \/ RightCVV(r)
      PROVE  GuessInv'
  BY <1>2, GuessersKeepGuesses
<1>3. ASSUME NEW r \in Requests,
             \/ FindRecipient(r) \/ HashCard(r) \/ HashRecipient(r) \/ HashAccounts(r)
             \/ Execute(r) \/ Reveal(r) \/ Fail(r)
             \/ InsertWhereExists(r) \/ Insert(r) \/ AlreadyExists(r)
      PROVE  GuessInv'
  <2>1. UNCHANGED <<now, limiterVars>>
    BY <1>3 DEF FindRecipient, HashCard, HashRecipient, HashAccounts, Check, Execute,
                Reveal, Fail, InsertWhereExists, Insert, AlreadyExists
  <2>2. \E next \in {"hash", "rehash", "accounts", "code", "insert", "create", "idle"} : Go(r, next)
    BY <1>3 DEF FindRecipient, HashCard, HashRecipient, HashAccounts, Check, Execute,
                Reveal, Fail, InsertWhereExists, Insert, AlreadyExists, Answer
  <2>3. \A q \in Requests \ {r} : ask'[q] = ask[q]
    BY <1>3 DEF FindRecipient, HashCard, HashRecipient, HashAccounts, Check, Execute,
                Reveal, Fail, InsertWhereExists, Insert, AlreadyExists, Answer, Inv, TypeOK
  <2>4. pc'[r] # "cvv" /\ \A q \in Requests \ {r} : pc'[q] = pc[q]
    BY <1>0, <2>2 DEF Go
  <2> QED
    BY <1>1, <2>1, <2>3, <2>4
<1>4. ASSUME NEW r \in Requests, NEW a \in Asks, Begin(r, a)
      PROVE  GuessInv'
  BY <1>0, <1>1, <1>4 DEF Begin, Go, Inv, TypeOK
<1>5. ASSUME NEW r \in Requests, NEW c \in Codes \cup RevealCodes, VerifyCode(r, c)
      PROVE  GuessInv'
  BY <1>0, <1>1, <1>5 DEF VerifyCode, Go
<1>6. ASSUME NEW r \in Requests, NEW k \in Cards, CreateCard(r, k)
      PROVE  GuessInv'
  BY <1>0, <1>1, <1>6 DEF CreateCard, Go, Inv, TypeOK
<1>7. ASSUME UNCHANGED <<limiterVars, pc, ask>>, now' \in Nat, now <= now'
      PROVE  GuessInv'
  BY <1>7, OthersKeepGuesses
<1>8. ASSUME NEW k \in Cards, CloseCard(k)
      PROVE  GuessInv'
  BY <1>0, <1>7, <1>8 DEF CloseCard, requestVars
<1>9. ASSUME NEW c \in Codes \cup RevealCodes, RequestCode(c)
      PROVE  GuessInv'
  BY <1>0, <1>7, <1>9 DEF RequestCode, requestVars
<1>10. ASSUME NEW o \in Ops, CloseAccount(o)
       PROVE  GuessInv'
  BY <1>0, <1>7, <1>10 DEF CloseAccount, requestVars
<1>11. ASSUME NEW a \in Accounts, SetAccountBlocked(a)
       PROVE  GuessInv'
  BY <1>0, <1>7, <1>11 DEF SetAccountBlocked, cardVars, requestVars
<1>12. CASE Restart
  <2>1. \A k \in Cards : guesses'[k] = <<>> /\ failures'[k] = 0 /\ lockedTil'[k] = 0
    BY <1>12 DEF Restart
  <2>2. guesses' \in [Cards -> Seq(Nat)]
    BY <1>12 DEF Restart
  <2> QED
    BY <2>1, <2>2, NoGuesses, GuessingIsBounded DEF GuessInv
<1>13. CASE Tick
  BY <1>0, <1>7, <1>13 DEF Tick, Advance, cardVars, requestVars
<1>14. CASE UNCHANGED vars
  BY <1>0, <1>7, <1>14 DEF vars, cardVars, requestVars
<1> QED
  BY <1>2, <1>3, <1>4, <1>5, <1>6, <1>8, <1>9, <1>10, <1>11, <1>12, <1>13, <1>14
     DEF Next, Step

(* The limiter holds off whoever guesses at the CVV of a card, for any     *)
(* number of requests that guess at once and of cards.                     *)
THEOREM GuessesAreSpread == Spec => []GuessesSpread
<1>1. Init => GuessInv
  <2> SUFFICES ASSUME Init
               PROVE  GuessInv
    OBVIOUS
  <2>1. /\ guesses \in [Cards -> Seq(Nat)]
        /\ \A k \in Cards : guesses[k] = <<>> /\ failures[k] = 0 /\ lockedTil[k] = 0
    BY DEF Init
  <2> QED
    BY <2>1, NoGuesses, GuessingIsBounded DEF GuessInv
<1>2. GuessInv => GuessesSpread
  <2> SUFFICES ASSUME GuessInv, NEW k \in Cards,
                      NEW i \in DOMAIN guesses[k], NEW j \in DOMAIN guesses[k],
                      j = i + MaxFailures - 1 + Cardinality(Requests)
               PROVE  guesses[k][j] > guesses[k][i] + Lockout
    BY DEF GuessesSpread
  <2>1. guesses[k] \in Seq(Nat) /\ SpreadOut(guesses[k])
    BY DEF GuessInv
  <2>2. DOMAIN guesses[k] = 1..Len(guesses[k])
    BY <2>1
  <2>3. j = i + Burst
    BY <2>1, <2>2, CardBounds
  <2> QED
    BY <2>1, <2>2, <2>3 DEF SpreadOut
<1> QED
  BY <1>1, <1>2, AlwaysInv, GuessStep, PTL DEF Spec
=============================================================================
