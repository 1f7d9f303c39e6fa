------------------------------ MODULE Checkout ------------------------------
(* OrdersService.create: how a sale becomes an order, when clients repeat   *)
(* their calls.                                                             *)
(*                                                                         *)
(* One branch, and one customer whose loyalty account all the sales share.  *)
(* A sale is what one client wants recorded; a call is one HTTP request for *)
(* it.  A POS sale may carry a client order id, which is unique in the      *)
(* branch and makes its calls idempotent; the others are keyless (website   *)
(* orders always, a POS client that sends no id too).  The insert of        *)
(* the order row waits for an open transaction that has inserted an equal   *)
(* key and fails when such a row is committed; the rest of the transaction  *)
(* only writes, so that it is one action with the commit.                   *)
(*                                                                         *)
(* The client that calls again is not in the repository: Send is external.  *)
EXTENDS Integers, FiniteSets

CONSTANTS
    Sales,        \* sales somebody wants recorded
    Keyless,      \* those without a client order id: website orders, and POS calls that send none
    Deferred,     \* those left PENDING at checkout, whose points come later
    Calls,        \* HTTP calls that may be under way at the same time
    SaleOf,       \* the sale each call is for
    Cost, Gain,   \* points a sale redeems and earns
    Opening,      \* the customer's points at first
    Days,         \* bound: days the run may span
    MaxFailures   \* bound: calls that may break off

\* Points are counted in units.
ASSUME SalesAreSales ==
    /\ Keyless \subseteq Sales /\ Deferred \subseteq Sales
    /\ SaleOf \in [Calls -> Sales]
    /\ Cost \in [Sales -> Nat] /\ Gain \in [Sales -> Nat]
    /\ Opening \in Nat /\ Days \in Nat /\ MaxFailures \in Nat

VARIABLES
    orders,     \* committed rows of "orders"
    balance,    \* loyalty_accounts.points_balance
    pc,         \* where each call stands
    number,     \* the order number each call has built
    told,       \* orders each sale's client has been answered
    announced,  \* order.created events by sale
    day,        \* the date the server's clock shows
    failures,   \* calls that have broken off
    redeemRace  \* history: two sales were redeeming points at the same time

vars == <<orders, balance, pc, number, told, announced, day, failures, redeemRace>>

Numbers == [day : Nat, seq : Nat]
Orders  == [sale : Sales, number : Numbers]
Steps   == {"idle", "lookup", "validate", "count", "insert", "commit", "conflict", "announce"}

NoNumber == [day |-> 0, seq |-> 0]

Goto(c, step) == pc' = [pc EXCEPT ![c] = step]

\* Mutant of Existing: the row is looked up by branch alone.
AnyOrder(s) == IF s \in Keyless THEN {} ELSE orders

\* The order the client order id of a keyed sale finds.
Existing(s) == IF s \in Keyless THEN {} ELSE {o \in orders : o.sale = s}

\* The handler ends and its locals are gone.
Leave(c) == Goto(c, "idle") /\ number' = [number EXCEPT ![c] = NoNumber]

\* The call ends, answering with order o, and the answer may be lost.
Answer(c, o) ==
    /\ Leave(c)
    /\ \/ told' = [told EXCEPT ![SaleOf[c]] = @ \cup {o}] /\ UNCHANGED failures
       \/ failures < MaxFailures /\ failures' = failures + 1 /\ UNCHANGED told

-----------------------------------------------------------------------------
\* External: a client that has no answer yet calls, again if need be.
Send(c) ==
    /\ pc[c] = "idle"
    /\ told[SaleOf[c]] = {}
    /\ Goto(c, "lookup")
    /\ UNCHANGED <<orders, balance, number, told, announced, day, failures, redeemRace>>

\* The look-up before anything else: a recorded keyed sale is answered as it is.
Lookup(c) ==
    /\ pc[c] = "lookup"
    /\ \/ \E o \in Existing(SaleOf[c]) : Answer(c, o)
       \/ Existing(SaleOf[c]) = {} /\ Goto(c, "validate") /\ UNCHANGED <<number, told, failures>>
    /\ UNCHANGED <<orders, balance, announced, day, redeemRace>>

\* Calls past the check of the balance, that would redeem for a sale still to record.
Redeeming == {c \in Calls : pc[c] \in {"count", "insert", "commit"} /\ Cost[SaleOf[c]] > 0}

\* Mutant of Validate: the balance is not checked.
ValidateNothing(c) ==
    /\ pc[c] = "validate"
    /\ Goto(c, "count")
    /\ UNCHANGED <<orders, balance, number, told, announced, day, failures, redeemRace>>

\* Items, customer and redemptions are checked outside the transaction; a sale that
\* redeems more than the balance is refused.  The balance is read for a redemption only.
Validate(c) ==
    LET s == SaleOf[c]
    IN  /\ pc[c] = "validate"
        /\ Goto(c, IF Cost[s] > 0 /\ Cost[s] > balance THEN "idle" ELSE "count")
        /\ redeemRace' = (redeemRace \/ (/\ Cost[s] > 0
                                         /\ \E q \in Redeeming \ {c} :
                                              SaleOf[q] # s \/ s \in Keyless))
        /\ UNCHANGED <<orders, balance, number, told, announced, day, failures>>

\* Mutant of NextNumber: pending orders are not counted.
NextCompleted == [day |-> day, seq |-> Cardinality({o \in orders : o.sale \notin Deferred}) + 1]

\* generateOrderNumber: the date and the number of committed orders, plus one.
NextNumber == [day |-> day, seq |-> Cardinality(orders) + 1]

Count(c) ==
    /\ pc[c] = "count"
    /\ number' = [number EXCEPT ![c] = NextNumber]
    /\ Goto(c, "insert")
    /\ UNCHANGED <<orders, balance, told, announced, day, failures, redeemRace>>

\* Mutant of SameKey: the client order id has no unique index.
SameNumber(s, n, t, m) == n = m

\* Rows that a unique index of "orders" keeps apart.
SameKey(s, n, t, m) == n = m \/ (s = t /\ s \notin Keyless)

Insert(c) ==
    LET Clash(t, m) == SameKey(SaleOf[c], number[c], t, m)
    IN  /\ pc[c] = "insert"
        /\ \A q \in Calls : pc[q] = "commit" => ~Clash(SaleOf[q], number[q])
        /\ Goto(c, IF \E o \in orders : Clash(o.sale, o.number) THEN "conflict" ELSE "commit")
        /\ UNCHANGED <<orders, balance, number, told, announced, day, failures, redeemRace>>

\* What recording a sale does to the customer's points.
Effect == [s \in Sales |-> (IF s \in Deferred THEN 0 ELSE Gain[s]) - Cost[s]]

\* Mutant of Commit: the redeemed points are not taken off.
CommitUncharged(c) ==
    /\ pc[c] = "commit"
    /\ orders' = orders \cup {[sale |-> SaleOf[c], number |-> number[c]]}
    /\ balance' = balance + (Effect[SaleOf[c]] + Cost[SaleOf[c]])
    /\ Goto(c, "announce")
    /\ UNCHANGED <<number, told, announced, day, failures, redeemRace>>

Commit(c) ==
    /\ pc[c] = "commit"
    /\ orders' = orders \cup {[sale |-> SaleOf[c], number |-> number[c]]}
    /\ balance' = balance + Effect[SaleOf[c]]
    /\ Goto(c, "announce")
    /\ UNCHANGED <<number, told, announced, day, failures, redeemRace>>

\* The activity log, the event, and the answer.
Announce(c) ==
    /\ pc[c] = "announce"
    /\ announced' = [announced EXCEPT ![SaleOf[c]] = @ + 1]
    /\ Answer(c, [sale |-> SaleOf[c], number |-> number[c]])
    /\ UNCHANGED <<orders, balance, day, redeemRace>>

\* Mutant of Conflict: the winner's order is announced again.
ConflictAnnounced(c) ==
    /\ pc[c] = "conflict"
    /\ \/ \E o \in Existing(SaleOf[c]) :
            Answer(c, o) /\ announced' = [announced EXCEPT ![SaleOf[c]] = @ + 1]
       \/ Existing(SaleOf[c]) = {} /\ Leave(c) /\ UNCHANGED <<told, failures, announced>>
    /\ UNCHANGED <<orders, balance, day, redeemRace>>

\* A unique index has refused the row and the transaction is rolled back: a keyed call
\* answers with the order of its client order id, any other call fails.
Conflict(c) ==
    /\ pc[c] = "conflict"
    /\ \/ \E o \in Existing(SaleOf[c]) : Answer(c, o)
       \/ Existing(SaleOf[c]) = {} /\ Leave(c) /\ UNCHANGED <<told, failures>>
    /\ UNCHANGED <<orders, balance, announced, day, redeemRace>>

\* A statement throws or the process dies; an open transaction rolls back.
Fail(c) ==
    /\ pc[c] # "idle"
    /\ failures < MaxFailures
    /\ failures' = failures + 1
    /\ Leave(c)
    /\ UNCHANGED <<orders, balance, told, announced, day, redeemRace>>

Midnight ==
    /\ day < Days
    /\ day' = day + 1
    /\ UNCHANGED <<orders, balance, pc, number, told, announced, failures, redeemRace>>

\* Every client has its answer and no call is under way.
Settled ==
    /\ \A s \in Sales : told[s] # {}
    /\ \A c \in Calls : pc[c] = "idle"
    /\ UNCHANGED vars

Init ==
    /\ orders = {}
    /\ balance = Opening
    /\ pc = [c \in Calls |-> "idle"]
    /\ number = [c \in Calls |-> NoNumber]
    /\ told = [s \in Sales |-> {}]
    /\ announced = [s \in Sales |-> 0]
    /\ day = 1
    /\ failures = 0
    /\ redeemRace = FALSE

Handle(c) ==
    Lookup(c) \/ Validate(c) \/ Count(c) \/ Insert(c) \/ Commit(c) \/ Announce(c) \/ Conflict(c)

Next ==
    \/ \E c \in Calls : Send(c) \/ Handle(c) \/ Fail(c)
    \/ Midnight
    \/ Settled

Spec == Init /\ [][Next]_vars

\* The event loop and the database carry every call on; a client without an answer
\* goes on calling.
FairSpec == Spec /\ \A c \in Calls : WF_vars(Handle(c)) /\ WF_vars(Send(c))

-----------------------------------------------------------------------------
\* Every column and every local holds a value of its type.
TypeOK ==
    /\ orders \in SUBSET Orders
    /\ balance \in Int
    /\ pc \in [Calls -> Steps]
    /\ number \in [Calls -> Numbers]
    /\ told \in [Sales -> SUBSET Orders]
    /\ announced \in [Sales -> Nat]
    /\ day \in Nat
    /\ failures \in Nat
    /\ redeemRace \in BOOLEAN

\* The client order id makes checkout idempotent: however often and however
\* concurrently its calls are repeated, and wherever they break off, a keyed sale has at
\* most one order; and no two orders share a number.
OneOrderPerSale ==
    \A o, p \in orders :
      o.number = p.number \/ (o.sale = p.sale /\ o.sale \notin Keyless) => o = p

\* What a client has been told is a committed order of its own sale, and all the
\* calls of a keyed sale are told the same one.
ClientsKnowTheirOrder ==
    \A s \in Sales :
      /\ told[s] \subseteq {o \in orders : o.sale = s}
      /\ s \notin Keyless => \A o, p \in told[s] : o = p

\* Staff screens hear of an order once at most: order.created is never sent for a
\* repeated call, nor before the order is committed.
AnnouncedOnce ==
    \A s \in Sales : announced[s] <= Cardinality({o \in orders : o.sale = s})

\* Points are redeemed only if they are there: the balance cannot go below zero
\* unless two different sales were redeeming at the same time (the balance is read
\* before the transaction that decrements it).
PointsCoverRedemptions == ~redeemRace => balance >= 0

\* A number already used never turns away a checkout that runs alone: when the insert
\* of a sale without an order meets a conflict, another sale was committed after the
\* orders were counted.  (Orders are not deleted; a midnight may fall in between.)
ConflictMeansContention ==
    [][\A c \in Calls :
         /\ pc[c] = "insert" /\ pc'[c] = "conflict"
         /\ Existing(SaleOf[c]) = {}
         => Cardinality(orders) >= number[c].seq]_vars

\* Checkout implements the exactly-once sale.
Promise == INSTANCE ExactlyOnceSale WITH
              Keyed    <- Sales \ Keyless,
              recorded <- {o.sale : o \in orders},
              told     <- {s \in Sales : told[s] # {}}

ImplementsPromise == Promise!Spec

\* Every client that redeems nothing and keeps calling gets its answer, though a
\* conflict of order numbers fails the call of one sale each time another wins.
EveryClientIsAnswered == \A s \in Sales : Cost[s] = 0 => <>(told[s] # {})

=============================================================================
