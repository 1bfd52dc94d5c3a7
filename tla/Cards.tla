-------------------------------- MODULE Cards --------------------------------
(* CardService: payments, transfers and reveals by card, statement by      *)
(* statement, with the CVV limiter, the issuing and the closing of cards.  *)
(* The accounts below it do what Bank promises, each operation at once     *)
(* (which Ledger implements); a code is bound to the cards, not only to    *)
(* the accounts behind them.                                               *)
EXTENDS BankState, Clock, FiniteSets, Sequences

CONSTANTS
    Cards, CardAccount, Expires,
    Issued,         \* the cards issued before the first step
    Asks,           \* what users ask of their cards
    RevealCodes,    \* ids of the codes for revealing a card's number
    CodeAsk,        \* the operation_hash of every code
    Requests, Nothing,
    MaxFailures, Lockout,   \* CVV_MAX_FAILED_ATTEMPTS, CVV_LOCKOUT_SECONDS
    MaxCreations,   \* maxCardCreationAttempts
    Deadline        \* how long a request can run

AskKinds == {"card_payment", "card_transfer", "card_reveal"}

(* What an ask is to the accounts.                                         *)
Money(a) == [kind |-> a.kind, user |-> a.user, from |-> CardAccount[a.card],
             to |-> CardAccount[a.to], amount |-> a.amount]

(* Three failures and 15 minutes against 20 seconds by default.  An ask of *)
(* one card names it twice; transfers within an account are refused.       *)
ASSUME CardsAssumption ==
    /\ CardAccount \in [Cards -> Accounts]
    /\ Expires \in [Cards -> Nat]
    /\ Issued \subseteq Cards /\ \A k \in Issued : CardAccount[k] \in Existing
    /\ Asks \subseteq [kind : AskKinds, user : Users, card : Cards, to : Cards,
                       amount : Nat \ {0}]
    /\ \A a \in Asks : a.kind # "card_reveal" => Money(a) \in Ops
    /\ RevealCodes \cap Codes = {}
    /\ CodeAsk \in [Codes \cup RevealCodes -> Asks]
    /\ \A c \in Codes : CodeOp[c] = Money(CodeAsk[c])
    /\ \A c \in RevealCodes : CodeAsk[c].kind = "card_reveal"
    /\ Nothing \notin Asks \cup Cards \cup Codes \cup RevealCodes
    /\ {MaxFailures, MaxCreations, Deadline} \subseteq Nat \ {0}
    /\ Lockout \in Nat /\ Lockout > Deadline
    /\ IsFiniteSet(Requests)

VARIABLES
    card,       \* cards.status; "absent" before the row is inserted
    cardClosed, \* cards.closed_at
    closedSince, \* accounts.closed_at
    reveals,    \* the rows of mfa_codes for RevealCodes
    failures, lockedTil,    \* cvvAttemptLimiter: 0 is no entry, the zero time
    pc,
    ask,        \* the ask a request serves, or the card it creates
    code,       \* the code it has verified
    since,      \* when it came in
    tries,      \* numbers a creation has generated
    guesses     \* history: when each wrong CVV came since the last right one

rowVars == <<card, cardClosed, closedSince, reveals>>
limiterVars == <<failures, lockedTil, guesses>>
requestVars == <<pc, ask, code, since, tries>>
cardVars == <<rowVars, limiterVars, requestVars>>
vars == <<bankVars, now, cardVars>>

Accounting == INSTANCE Bank

InFlight(r) == pc[r] # "idle"

Init ==
    /\ BankInit
    /\ now = 0
    /\ card = [k \in Cards |-> IF k \in Issued THEN "active" ELSE "absent"]
    /\ cardClosed = [k \in Cards |-> 0]
    /\ closedSince = [a \in Accounts |-> 0]
    /\ reveals = [c \in RevealCodes |-> "absent"]
    /\ failures = [k \in Cards |-> 0]
    /\ lockedTil = [k \in Cards |-> 0]
    /\ pc = [r \in Requests |-> "idle"]
    /\ ask = [r \in Requests |-> Nothing]
    /\ code = [r \in Requests |-> Nothing]
    /\ since = [r \in Requests |-> 0]
    /\ tries = [r \in Requests |-> 0]
    /\ guesses = [k \in Cards |-> <<>>]

----------------------------------------------------------------------------
(* The checks that the services repeat, each on the rows as they are then  *)

(* status is active and ensureCardNotExpired; Unexpired forgets status.    *)
Unexpired(k) == card[k] # "absent" /\ now < Expires[k]
Usable(k)    == card[k] = "active" /\ now < Expires[k]

(* FindByIDAndUserID *)
OwnCard(a) == Usable(a.card) /\ Owner[CardAccount[a.card]] = a.user

(* findTransferRecipientCard *)
RecipientCard(a) == a.kind = "card_transfer" => Usable(a.to)

(* The account checks of the operation hashes; a reveal makes none.        *)
AccountsAvailable(a) == a.kind # "card_reveal" => Admissible(Money(a))

Go(r, next) == pc' = [pc EXCEPT ![r] = next]

(* The request is answered; its history of one is no longer of interest.   *)
Answer(r) ==
    /\ Go(r, "idle")
    /\ ask' = [ask EXCEPT ![r] = Nothing]
    /\ code' = [code EXCEPT ![r] = Nothing]
    /\ since' = [since EXCEPT ![r] = 0]
    /\ tries' = [tries EXCEPT ![r] = 0]

(* A step that reads rows, and goes on or refuses.                         *)
Check(r, at, verdict, next) ==
    /\ pc[r] = at
    /\ \/ verdict /\ Go(r, next) /\ UNCHANGED <<ask, code, since, tries>>
       \/ ~verdict /\ Answer(r)
    /\ UNCHANGED <<bankVars, now, rowVars, limiterVars>>

----------------------------------------------------------------------------
(* PayByCard, TransferByCard and RevealCard *)

Begin(r, a) ==
    /\ pc[r] = "idle"
    /\ OwnCard(a)
    /\ Go(r, IF a.kind = "card_reveal" THEN "hash" ELSE "limiter")
    /\ ask' = [ask EXCEPT ![r] = a]
    /\ since' = [since EXCEPT ![r] = now]
    /\ UNCHANGED <<bankVars, now, rowVars, limiterVars, code, tries>>

(* isLocked deletes an entry whose lockout has passed.                     *)
IsLocked(r) ==
    LET k == ask[r].card
        over == lockedTil[k] # 0 /\ now > lockedTil[k]
    IN  /\ pc[r] = "limiter"
        /\ \/ lockedTil[k] # 0 /\ ~over /\ Answer(r)
           \/ (lockedTil[k] = 0 \/ over) /\ Go(r, "cvv") /\ UNCHANGED <<ask, code, since, tries>>
        /\ failures' = [failures EXCEPT ![k] = IF over THEN 0 ELSE @]
        /\ lockedTil' = [lockedTil EXCEPT ![k] = IF over THEN 0 ELSE @]
        /\ UNCHANGED <<bankVars, now, rowVars, guesses>>

(* VerifyCVV fails and recordFailure counts it; RecordAfter locks the card *)
(* a failure too late.                                                     *)
RecordAfter(r) ==
    LET k == ask[r].card
    IN  /\ pc[r] = "cvv"
        /\ failures' = [failures EXCEPT ![k] = @ + 1]
        /\ lockedTil' = [lockedTil EXCEPT
              ![k] = IF failures'[k] > MaxFailures THEN now + Lockout ELSE @]
        /\ guesses' = [guesses EXCEPT ![k] = Append(@, now)]
        /\ Answer(r)
        /\ UNCHANGED <<bankVars, now, rowVars>>

WrongCVV(r) ==
    LET k == ask[r].card
    IN  /\ pc[r] = "cvv"
        /\ failures' = [failures EXCEPT ![k] = @ + 1]
        /\ lockedTil' = [lockedTil EXCEPT
              ![k] = IF failures'[k] >= MaxFailures THEN now + Lockout ELSE @]
        /\ guesses' = [guesses EXCEPT ![k] = Append(@, now)]
        /\ Answer(r)
        /\ UNCHANGED <<bankVars, now, rowVars>>

(* reset deletes the entry.                                                *)
RightCVV(r) ==
    LET k == ask[r].card
    IN  /\ pc[r] = "cvv"
        /\ failures' = [failures EXCEPT ![k] = 0]
        /\ lockedTil' = [lockedTil EXCEPT ![k] = 0]
        /\ guesses' = [guesses EXCEPT ![k] = <<>>]
        /\ Go(r, IF ask[r].kind = "card_transfer" THEN "recipient" ELSE "hash")
        /\ UNCHANGED <<bankVars, now, rowVars, ask, code, since, tries>>

FindRecipient(r) == Check(r, "recipient", RecipientCard(ask[r]), "hash")

(* verifyCode builds the operation hash, which reads each of the cards     *)
(* again and then the accounts.                                            *)
HashCard(r) == Check(r, "hash", OwnCard(ask[r]),
                     IF ask[r].kind = "card_transfer" THEN "rehash" ELSE "accounts")
HashRecipient(r) == Check(r, "rehash", RecipientCard(ask[r]), "accounts")
HashAccounts(r)  == Check(r, "accounts", AccountsAvailable(ask[r]), "code")

(* It finds the active code of the operation; with a wrong code or none    *)
(* the request is refused (Fail).                                          *)
VerifyCode(r, c) ==
    /\ pc[r] = "code"
    /\ CodeAsk[c] = ask[r]
    /\ IF c \in Codes THEN codes[c] = "active" ELSE reveals[c] = "active"
    /\ code' = [code EXCEPT ![r] = c]
    /\ Go(r, "execute")
    /\ UNCHANGED <<bankVars, now, rowVars, limiterVars, ask, since, tries>>

(* CardPaymentWithMFA and TransferByCardWithMFA look at the accounts and   *)
(* the code under their locks, and never at the cards.                     *)
Execute(r) ==
    /\ pc[r] = "execute"
    /\ ask[r].kind # "card_reveal"
    /\ Accounting!Spend(Money(ask[r]), code[r])
    /\ Answer(r)
    /\ UNCHANGED <<now, rowVars, limiterVars>>

(* ConsumeVerifiedCode, then the number of the card that Begin has read.   *)
Reveal(r) ==
    /\ pc[r] = "execute"
    /\ ask[r].kind = "card_reveal"
    /\ reveals[code[r]] = "active"
    /\ reveals' = [reveals EXCEPT ![code[r]] = "used"]
    /\ Answer(r)
    /\ UNCHANGED <<bankVars, now, card, cardClosed, closedSince, limiterVars>>

(* A check fails that the steps leave out, a statement fails, or the       *)
(* deadline passes.                                                        *)
Fail(r) ==
    /\ InFlight(r)
    /\ Answer(r)
    /\ UNCHANGED <<bankVars, now, rowVars, limiterVars>>

----------------------------------------------------------------------------
(* CreateCard *)

CreateCard(r, k) ==
    /\ pc[r] = "idle"
    /\ card[k] = "absent"
    /\ \A q \in Requests : ask[q] # k
    /\ Go(r, "create")
    /\ ask' = [ask EXCEPT ![r] = k]
    /\ since' = [since EXCEPT ![r] = now]
    /\ tries' = [tries EXCEPT ![r] = 1]
    /\ UNCHANGED <<bankVars, now, rowVars, limiterVars, code>>

(* INSERT ... WHERE EXISTS (an active and unblocked account) looks at the  *)
(* snapshot of the statement; InsertAnyway forgets the condition.          *)
InsertAnyway(r) == Check(r, "create", TRUE, "insert")
InsertWhereExists(r) == Check(r, "create", Available(CardAccount[ask[r]]), "insert")

(* Its foreign key then waits for an operation that has locked the account *)
(* row, a closing among them, and asks only that the row is still there.   *)
Insert(r) ==
    /\ pc[r] = "insert"
    /\ card' = [card EXCEPT ![ask[r]] = "active"]
    /\ Answer(r)
    /\ UNCHANGED <<bankVars, now, cardClosed, closedSince, reveals, limiterVars>>

(* number_hmac is taken: another number is generated.                      *)
AlreadyExists(r) ==
    /\ pc[r] = "insert"
    /\ \E k \in Cards : card[k] # "absent"
    /\ \/ /\ tries[r] < MaxCreations
          /\ Go(r, "create")
          /\ tries' = [tries EXCEPT ![r] = @ + 1]
          /\ UNCHANGED <<ask, code, since>>
       \/ tries[r] >= MaxCreations /\ Answer(r)
    /\ UNCHANGED <<bankVars, now, rowVars, limiterVars>>

----------------------------------------------------------------------------
(* Requests of one statement, and what happens elsewhere *)

(* UPDATE cards SET status = 'closed', closed_at = NOW() WHERE active.     *)
CloseCard(k) ==
    /\ card[k] = "active"
    /\ card' = [card EXCEPT ![k] = "closed"]
    /\ cardClosed' = [cardClosed EXCEPT ![k] = now]
    /\ UNCHANGED <<bankVars, now, closedSince, reveals, limiterVars, requestVars>>

(* RequestCode builds the same hash, with the same checks.                 *)
RequestCode(c) ==
    /\ OwnCard(CodeAsk[c]) /\ RecipientCard(CodeAsk[c])
    /\ AccountsAvailable(CodeAsk[c])
    /\ \/ c \in Codes /\ Accounting!Issue(c) /\ UNCHANGED reveals
       \/ /\ c \in RevealCodes
          /\ reveals[c] = "absent"
          /\ reveals' = [d \in RevealCodes |->
                            IF d = c THEN "active"
                            ELSE IF CodeAsk[d] = CodeAsk[c] /\ reveals[d] = "active"
                                 THEN "used" ELSE reveals[d]]
          /\ UNCHANGED bankVars
    /\ UNCHANGED <<now, card, cardClosed, closedSince, limiterVars, requestVars>>

(* Closing an account leaves its cards as they are.                        *)
CloseAccount(o) ==
    /\ Accounting!Close(o)
    /\ closedSince' = [closedSince EXCEPT ![o.from] = now]
    /\ UNCHANGED <<now, card, cardClosed, reveals, limiterVars, requestVars>>

SetAccountBlocked(a) ==
    /\ Accounting!SetBlocked(a)
    /\ UNCHANGED <<now, cardVars>>

(* The limiter is in memory.                                               *)
Restart ==
    /\ failures' = [k \in Cards |-> 0]
    /\ lockedTil' = [k \in Cards |-> 0]
    /\ guesses' = [k \in Cards |-> <<>>]
    /\ pc' = [r \in Requests |-> "idle"]
    /\ ask' = [r \in Requests |-> Nothing]
    /\ code' = [r \in Requests |-> Nothing]
    /\ since' = [r \in Requests |-> 0]
    /\ tries' = [r \in Requests |-> 0]
    /\ UNCHANGED <<bankVars, now, rowVars>>

(* No request outlives its deadline.                                       *)
Tick ==
    /\ \A r \in Requests : InFlight(r) => now < since[r] + Deadline
    /\ Advance
    /\ UNCHANGED <<bankVars, cardVars>>

Step(r) ==
    \/ IsLocked(r) \/ WrongCVV(r) \/ RightCVV(r) \/ FindRecipient(r)
    \/ HashCard(r) \/ HashRecipient(r) \/ HashAccounts(r)
    \/ Execute(r) \/ Reveal(r) \/ Fail(r)
    \/ InsertWhereExists(r) \/ Insert(r) \/ AlreadyExists(r)

Next ==
    \/ \E r \in Requests :
          \/ Step(r)
          \/ \E a \in Asks : Begin(r, a)
          \/ \E c \in Codes \cup RevealCodes : VerifyCode(r, c)
          \/ \E k \in Cards : CreateCard(r, k)
    \/ \E k \in Cards : CloseCard(k)
    \/ \E c \in Codes \cup RevealCodes : RequestCode(c)
    \/ \E o \in Ops : CloseAccount(o)
    \/ \E a \in Accounts : SetAccountBlocked(a)
    \/ Restart
    \/ Tick

Spec == Init /\ [][Next]_vars

----------------------------------------------------------------------------
(* Properties *)

(* The tables of the accounts are BankTypeOK besides.                      *)
TypeOK ==
    /\ now \in Nat
    /\ status \in [Accounts -> {"absent", "active", "closed"}]
    /\ card \in [Cards -> {"absent", "active", "closed"}]
    /\ cardClosed \in [Cards -> Nat] /\ closedSince \in [Accounts -> Nat]
    /\ reveals \in [RevealCodes -> {"absent", "active", "used"}]
    /\ failures \in [Cards -> Nat] /\ lockedTil \in [Cards -> Nat]
    /\ pc \in [Requests -> {"idle", "limiter", "cvv", "recipient", "hash", "rehash",
                            "accounts", "code", "execute", "create", "insert"}]
    /\ ask \in [Requests -> Asks \cup Cards \cup {Nothing}]
    /\ code \in [Requests -> Codes \cup RevealCodes \cup {Nothing}]
    /\ since \in [Requests -> Nat] /\ tries \in [Requests -> Nat]

Executes(r, a) == pc[r] = "execute" /\ ask[r] = a /\ (Execute(r) \/ Reveal(r))

(* The last moment at which card k was good for an operation.              *)
GoodUntil(k) == IF card[k] = "closed" /\ cardClosed[k] < Expires[k]
                THEN cardClosed[k] ELSE Expires[k]

(* The operation that moves the money, or reveals the number, never looks  *)
(* at the card again.  A card that is closed or expires, the payer's or    *)
(* the recipient's, is of no use to anyone all the same once the requests  *)
(* under way at that moment have met their deadline, whatever codes were   *)
(* issued for it before.                                                   *)
ClosedCardStops ==
    [][\A r \in Requests, a \in Asks :
          Executes(r, a) => /\ now <= GoodUntil(a.card) + Deadline
                            /\ a.kind = "card_transfer"
                                 => now <= GoodUntil(a.to) + Deadline]_vars

(* A card issued for a closed account was asked for before the closing: an *)
(* account gets no card later than a deadline after it was closed.         *)
NoCardAfterClosing ==
    [][\A k \in Cards :
          card[k] = "absent" /\ card'[k] = "active" /\ status[CardAccount[k]] = "closed"
             => now <= closedSince[CardAccount[k]] + Deadline]_vars

(* Between a right CVV and the next, MaxFailures wrong ones, and one for   *)
(* each request isLocked let through beside the last of them, is all that  *)
(* fits into any period of a lockout's length.                             *)
GuessesSpread ==
    \A k \in Cards : \A i, j \in DOMAIN guesses[k] :
        j = i + MaxFailures - 1 + Cardinality(Requests) => guesses[k][j] > guesses[k][i] + Lockout
============================================================================
