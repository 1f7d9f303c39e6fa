--------------------------- MODULE CheckoutProofs ---------------------------
(* Theorems of Checkout for every set of sales and calls, every price in    *)
(* points, and every number of failures and days.                           *)
EXTENDS Checkout, FiniteSetTheorems, TLAPS

\* The order a call commits.
Row(c) == [sale |-> SaleOf[c], number |-> number[c]]

\* The types, and that there are finitely many orders, which gives them a number.
TypeInv == TypeOK /\ IsFiniteSet(orders)

\* Two rows, one of them perhaps not yet committed, that a unique index keeps apart.
Clash(o, p) == SameKey(o.sale, o.number, p.sale, p.number)

\* Keys: committed orders, and the rows of open transactions, are apart from each
\* other; a call that announces an order has committed it.
KeyInv ==
    /\ \A o, p \in orders : Clash(o, p) => o = p
    /\ \A c \in Calls : pc[c] = "commit" =>
          /\ \A o \in orders : ~Clash(Row(c), o)
          /\ \A q \in Calls : pc[q] = "commit" /\ q # c => ~Clash(Row(c), Row(q))
    /\ \A c \in Calls : pc[c] = "announce" => Row(c) \in orders

\* Answers: a client knows committed orders of its own sale.
AnswerInv == \A s \in Sales : told[s] \subseteq {o \in orders : o.sale = s}

\* Numbers: no order, and no call, is ahead of the count of orders.
CountInv ==
    /\ \A o \in orders : o.number.seq <= Cardinality(orders)
    /\ \A c \in Calls : pc[c] \in {"insert", "commit"} => number[c].seq <= Cardinality(orders) + 1

\* Points: the balance covers every call past the check that can still redeem.
Recorded(s) == \E o \in orders : o.sale = s

PointsInv ==
    ~redeemRace =>
        /\ balance >= 0
        /\ \A c \in Redeeming : SaleOf[c] \in Keyless \/ ~Recorded(SaleOf[c])
                                  => Cost[SaleOf[c]] <= balance
        /\ \A c, q \in Redeeming : c # q => SaleOf[c] = SaleOf[q] /\ SaleOf[c] \notin Keyless

\* Announcements: each is of an order of its own, which no call has yet to announce.
Unannounced == {Row(c) : c \in {q \in Calls : pc[q] = "announce"}}

Announceable(s) == {o \in orders : o.sale = s} \ Unannounced

AnnounceInv ==
    /\ \A c, q \in Calls : pc[c] = "announce" /\ pc[q] = "announce" /\ Row(c) = Row(q) => c = q
    /\ \A s \in Sales : announced[s] <= Cardinality(Announceable(s))

\* The inductive invariant.
IInv == TypeInv /\ KeyInv /\ AnswerInv /\ CountInv /\ PointsInv /\ AnnounceInv

\* No other call's locals are touched by an action of call c.
LEMMA Locality ==
    ASSUME TypeOK, NEW c \in Calls, Send(c) \/ Handle(c) \/ Fail(c)
    PROVE  \A q \in Calls : q # c => pc'[q] = pc[q] /\ number'[q] = number[q]
<1> USE DEF TypeOK, Goto, Leave, Answer
<1>1. CASE Send(c) \/ Lookup(c) \/ Validate(c) \/ Count(c)
  BY <1>1 DEF Send, Lookup, Validate, Count
<1>2. CASE Insert(c) \/ Commit(c) \/ Announce(c) \/ Conflict(c) \/ Fail(c)
  BY <1>2 DEF Insert, Commit, Announce, Conflict, Fail
<1> QED BY <1>1, <1>2 DEF Handle

\* Only Commit writes the orders and the balance; where a call goes otherwise.
LEMMA OrderWriters ==
    ASSUME TypeOK, NEW c \in Calls, Send(c) \/ Handle(c) \/ Fail(c)
    PROVE  \/ Commit(c)
           \/ Validate(c)
           \/ Count(c)
           \/ Insert(c)
           \/ /\ UNCHANGED <<orders, balance, redeemRace>>
              /\ pc'[c] \in {"idle", "lookup", "validate"}
<1> USE DEF TypeOK, Goto, Leave, Answer
<1>1. CASE Send(c) \/ Lookup(c)
  BY <1>1 DEF Send, Lookup
<1>2. CASE Announce(c) \/ Conflict(c) \/ Fail(c)
  BY <1>2 DEF Announce, Conflict, Fail
<1> QED BY <1>1, <1>2 DEF Handle

\* Only the end of a call writes the answers, and with an order it has found or made.
LEMMA AnswerWriters ==
    ASSUME TypeOK, KeyInv, NEW c \in Calls, Send(c) \/ Handle(c) \/ Fail(c)
    PROVE  \/ told' = told
           \/ /\ UNCHANGED <<orders, balance>>
              /\ \E o \in orders : /\ o.sale = SaleOf[c]
                                   /\ told' = [told EXCEPT ![SaleOf[c]] = @ \cup {o}]
<1> USE DEF TypeOK, Answer
<1>1. \A s \in Sales : \A o \in Existing(s) : o \in orders /\ o.sale = s
  BY DEF Existing
<1>2. CASE Send(c) \/ Validate(c) \/ Count(c) \/ Insert(c) \/ Commit(c) \/ Fail(c)
  BY <1>2 DEF Send, Validate, Count, Insert, Commit, Fail
<1>3. CASE Lookup(c)
  BY <1>1, <1>3, SalesAreSales DEF Lookup
<1>4. CASE Conflict(c)
  BY <1>1, <1>4, SalesAreSales DEF Conflict
<1>5. CASE Announce(c)
  BY <1>5 DEF Announce, KeyInv, Row
<1> QED BY <1>2, <1>3, <1>4, <1>5 DEF Handle

\* Every step keeps the types and the finiteness of the orders.
LEMMA StepIsTyped ==
    ASSUME TypeInv, NEW c \in Calls, Send(c) \/ Handle(c) \/ Fail(c)
    PROVE  TypeInv'
<1> USE SalesAreSales DEF TypeInv, TypeOK, Steps, Goto
<1>1. NoNumber \in Numbers /\ \A s \in Sales : Existing(s) \subseteq orders
  BY DEF NoNumber, Numbers, Existing
<1>2. ASSUME NEW o \in Orders, Answer(c, o)
      PROVE  /\ pc' \in [Calls -> Steps] /\ number' \in [Calls -> Numbers]
             /\ told' \in [Sales -> SUBSET Orders] /\ failures' \in Nat
  BY <1>1, <1>2 DEF Answer, Leave
<1>3. CASE Send(c)
  BY <1>3 DEF Send
<1>4. CASE Lookup(c)
  BY <1>1, <1>2, <1>4 DEF Lookup
<1>5. CASE Validate(c)
  BY <1>5 DEF Validate
<1>6. CASE Count(c)
  <2>1. NextNumber \in Numbers
    BY FS_CardinalityType DEF NextNumber, Numbers
  <2> QED BY <1>6, <2>1 DEF Count
<1>7. CASE Insert(c)
  BY <1>7 DEF Insert
<1>8. CASE Commit(c)
  <2>1. Row(c) \in Orders
    BY DEF Row, Orders
  <2>2. IsFiniteSet(orders')
    BY <1>8, FS_AddElement DEF Commit
  <2> QED BY <1>8, <2>1, <2>2 DEF Commit, Effect, Row
<1>9. CASE Announce(c)
  <2>1. Row(c) \in Orders
    BY DEF Row, Orders
  <2> QED BY <1>2, <1>9, <2>1 DEF Announce, Row
<1>10. CASE Conflict(c)
  <2>1. CASE \E o \in Existing(SaleOf[c]) : Answer(c, o)
    BY <1>1, <1>2, <1>10, <2>1 DEF Conflict
  <2>2. CASE Leave(c) /\ UNCHANGED <<told, failures>>
    BY <1>1, <1>10, <2>2 DEF Conflict, Leave
  <2> QED BY <1>10, <2>1, <2>2 DEF Conflict
<1>11. CASE Fail(c)
  BY <1>1, <1>11 DEF Fail, Leave
<1> QED BY <1>3, <1>4, <1>5, <1>6, <1>7, <1>8, <1>9, <1>10, <1>11 DEF Handle

\* The insert passes only if it clashes with nothing, committed or open.
LEMMA KeysAreKept ==
    ASSUME TypeInv, KeyInv, NEW c \in Calls, Send(c) \/ Handle(c) \/ Fail(c)
    PROVE  KeyInv'
<1> USE DEF TypeInv
<1>0. \A q \in Calls : q # c => pc'[q] = pc[q] /\ Row(q)' = Row(q)
  BY Locality DEF Row
<1>01. \A o, p : Clash(o, p) <=> Clash(p, o)
  BY DEF Clash, SameKey
<1>1. CASE Commit(c)
  <2>1. /\ orders' = orders \cup {Row(c)} /\ Row(c)' = Row(c)
        /\ pc[c] = "commit" /\ pc'[c] = "announce"
    BY <1>1 DEF Commit, Goto, Row, TypeOK
  <2>2. \A o, p \in orders' : Clash(o, p) => o = p
    BY <1>01, <2>1 DEF KeyInv
  <2>3. \A q \in Calls : pc'[q] = "commit" =>
          /\ \A o \in orders' : ~Clash(Row(q)', o)
          /\ \A p \in Calls : pc'[p] = "commit" /\ p # q => ~Clash(Row(q)', Row(p)')
    BY <1>0, <1>01, <2>1 DEF KeyInv
  <2>4. \A q \in Calls : pc'[q] = "announce" => Row(q)' \in orders'
    BY <1>0, <2>1 DEF KeyInv
  <2> QED BY <2>2, <2>3, <2>4 DEF KeyInv, Clash, SameKey
<1>2. CASE Insert(c)
  <2>1. /\ orders' = orders /\ Row(c)' = Row(c)
        /\ pc'[c] \in {"conflict", "commit"}
        /\ pc'[c] = "commit" => \A o \in orders : ~Clash(Row(c), o)
        /\ \A q \in Calls : pc[q] = "commit" => ~Clash(Row(c), Row(q))
    BY <1>2 DEF Insert, Goto, Row, Clash, TypeOK
  <2>2. \A q \in Calls : pc'[q] = "commit" =>
          /\ \A o \in orders' : ~Clash(Row(q)', o)
          /\ \A p \in Calls : pc'[p] = "commit" /\ p # q => ~Clash(Row(q)', Row(p)')
    BY <1>0, <1>01, <2>1 DEF KeyInv
  <2>3. \A q \in Calls : pc'[q] = "announce" => Row(q)' \in orders'
    BY <1>0, <2>1 DEF KeyInv
  <2> QED BY <2>1, <2>2, <2>3 DEF KeyInv, Clash, SameKey
<1>3. CASE orders' = orders /\ pc'[c] \notin {"commit", "announce"}
  <2>1. \A q \in Calls : pc'[q] = "commit" =>
          /\ \A o \in orders' : ~Clash(Row(q)', o)
          /\ \A p \in Calls : pc'[p] = "commit" /\ p # q => ~Clash(Row(q)', Row(p)')
    BY <1>0, <1>3 DEF KeyInv
  <2>2. \A q \in Calls : pc'[q] = "announce" => Row(q)' \in orders'
    BY <1>0, <1>3 DEF KeyInv
  <2> QED BY <1>3, <2>1, <2>2 DEF KeyInv, Clash, SameKey
<1>4. Validate(c) \/ Count(c) => orders' = orders /\ pc'[c] \notin {"commit", "announce"}
  BY DEF Validate, Count, Goto, TypeOK
<1> QED BY <1>1, <1>2, <1>3, <1>4, OrderWriters

\* An answer names an order of the sale, and orders stay.
LEMMA AnswersAreKept ==
    ASSUME TypeInv, KeyInv, AnswerInv, NEW c \in Calls, Send(c) \/ Handle(c) \/ Fail(c)
    PROVE  AnswerInv'
<1> USE DEF TypeInv
<1>1. orders \subseteq orders'
  BY OrderWriters DEF Commit, Validate, Count, Insert
<1>2. CASE told' = told
  BY <1>1, <1>2 DEF AnswerInv
<1>3. CASE \E o \in orders : /\ o.sale = SaleOf[c]
                             /\ told' = [told EXCEPT ![SaleOf[c]] = @ \cup {o}]
  BY <1>1, <1>3, SalesAreSales DEF AnswerInv, TypeOK
<1> QED BY <1>2, <1>3, AnswerWriters

\* The number a call builds is one above the count, and the count only grows.
LEMMA CountIsKept ==
    ASSUME TypeInv, KeyInv, CountInv, NEW c \in Calls, Send(c) \/ Handle(c) \/ Fail(c)
    PROVE  CountInv'
<1> USE DEF TypeInv
<1>0. \A q \in Calls : q # c => pc'[q] = pc[q] /\ number'[q] = number[q]
  BY Locality
<1>1. /\ Cardinality(orders) \in Nat
      /\ \A q \in Calls : number[q].seq \in Nat
      /\ \A o \in orders : o.number.seq \in Nat
  BY FS_CardinalityType DEF TypeOK, Numbers, Orders
<1>2. CASE Commit(c)
  <2>1. /\ orders' = orders \cup {Row(c)} /\ number' = number
        /\ pc[c] = "commit" /\ pc'[c] = "announce"
    BY <1>2 DEF Commit, Goto, Row, TypeOK
  <2>2. Row(c) \notin orders
    BY <2>1 DEF KeyInv, Clash, SameKey
  <2>3. Cardinality(orders') = Cardinality(orders) + 1
    BY <2>1, <2>2, FS_AddElement
  <2>4. number[c].seq <= Cardinality(orders) + 1 /\ Row(c).number = number[c]
    BY <2>1 DEF CountInv, Row
  <2>5. \A o \in orders' : o.number.seq <= Cardinality(orders')
    BY <1>1, <2>1, <2>3, <2>4 DEF CountInv
  <2>6. \A q \in Calls : pc'[q] \in {"insert", "commit"} => number'[q].seq <= Cardinality(orders') + 1
    BY <1>0, <1>1, <2>1, <2>3 DEF CountInv
  <2> QED BY <2>5, <2>6 DEF CountInv
<1>3. CASE Count(c)
  <2>1. orders' = orders /\ number'[c].seq = Cardinality(orders) + 1
    BY <1>3 DEF Count, NextNumber, TypeOK
  <2> QED BY <1>0, <1>1, <2>1 DEF CountInv
<1>4. CASE Insert(c)
  <2>1. orders' = orders /\ number' = number /\ pc[c] = "insert"
    BY <1>4 DEF Insert
  <2> QED BY <1>0, <2>1 DEF CountInv
<1>5. CASE orders' = orders /\ pc'[c] \notin {"insert", "commit"}
  BY <1>0, <1>5 DEF CountInv
<1>6. Validate(c) => orders' = orders /\ pc'[c] \notin {"insert", "commit"}
  BY DEF Validate, Goto, TypeOK
<1> QED BY <1>2, <1>3, <1>4, <1>5, <1>6, OrderWriters

\* Without a race, calls that can still redeem are calls of one sale, which can be
\* recorded once, and the balance covered it when the first of them checked.
LEMMA PointsAreKept ==
    ASSUME TypeInv, KeyInv, PointsInv, NEW c \in Calls, Send(c) \/ Handle(c) \/ Fail(c)
    PROVE  PointsInv'
<1> USE SalesAreSales DEF TypeInv
<1> DEFINE Steady == {"count", "insert", "commit"}
<1>0. \A q \in Calls : q # c => pc'[q] = pc[q]
  BY Locality
<1>1. redeemRace => redeemRace'
  BY OrderWriters DEF Commit, Validate, Count, Insert
<1> SUFFICES ASSUME ~redeemRace, ~redeemRace'
             PROVE  PointsInv'
  BY <1>1 DEF PointsInv
<1>2. CASE /\ UNCHANGED <<orders, balance>>
           /\ pc'[c] \in Steady => pc[c] \in Steady
  <2>1. Redeeming' \subseteq Redeeming
    BY <1>0, <1>2 DEF Redeeming
  <2> QED BY <1>2, <2>1 DEF PointsInv, Recorded
<1>3. CASE Validate(c)
  <2>1. /\ orders' = orders /\ balance' = balance /\ pc[c] = "validate"
        /\ pc'[c] \in Steady /\ Cost[SaleOf[c]] > 0 => Cost[SaleOf[c]] <= balance
        /\ Cost[SaleOf[c]] > 0 => \A q \in Redeeming \ {c} :
                                    SaleOf[q] = SaleOf[c] /\ SaleOf[c] \notin Keyless
    <3>1. redeemRace' = (redeemRace \/ (/\ Cost[SaleOf[c]] > 0
                                        /\ \E q \in Redeeming \ {c} :
                                             SaleOf[q] # SaleOf[c] \/ SaleOf[c] \in Keyless))
      BY Zenon, <1>3 DEF Validate
    <3>2. Cost[SaleOf[c]] > 0 => \A q \in Redeeming \ {c} :
                                    SaleOf[q] = SaleOf[c] /\ SaleOf[c] \notin Keyless
      BY Zenon, <3>1
    <3>3. /\ orders' = orders /\ balance' = balance /\ pc[c] = "validate"
          /\ pc' = [pc EXCEPT ![c] = IF Cost[SaleOf[c]] > 0 /\ Cost[SaleOf[c]] > balance
                                     THEN "idle" ELSE "count"]
      BY <1>3 DEF Validate, Goto
    <3>4. Cost[SaleOf[c]] \in Nat /\ balance \in Int
      BY DEF TypeOK
    <3> QED BY <3>2, <3>3, <3>4 DEF TypeOK
  <2>2. Redeeming' \subseteq Redeeming \cup {c} /\ Redeeming' \subseteq Calls
        /\ (c \in Redeeming' => pc'[c] \in Steady /\ Cost[SaleOf[c]] > 0)
    BY <1>0 DEF Redeeming
  <2>3. \A q \in Redeeming' : SaleOf[q] \in Keyless \/ ~Recorded(SaleOf[q])'
                               => Cost[SaleOf[q]] <= balance'
    <3> SUFFICES ASSUME NEW q \in Redeeming', SaleOf[q] \in Keyless \/ ~Recorded(SaleOf[q])
                 PROVE  Cost[SaleOf[q]] <= balance
      BY <2>1 DEF Recorded
    <3>1. CASE q = c
      BY <2>1, <2>2, <3>1
    <3>2. CASE q # c
      BY <2>2, <3>2 DEF PointsInv
    <3> QED BY <3>1, <3>2
  <2>4. \A p, q \in Redeeming' : p # q => SaleOf[p] = SaleOf[q] /\ SaleOf[p] \notin Keyless
    BY <2>1, <2>2 DEF PointsInv
  <2> QED BY <2>1, <2>3, <2>4 DEF PointsInv
<1>4. CASE Commit(c)
  <2>1. /\ orders' = orders \cup {Row(c)} /\ balance' = balance + Effect[SaleOf[c]]
        /\ pc[c] = "commit" /\ pc'[c] = "announce"
    BY <1>4 DEF Commit, Goto, Row, TypeOK
  <2>2. Redeeming' \subseteq Redeeming \ {c}
    BY <1>0, <2>1 DEF Redeeming
  <2>3. SaleOf[c] \in Keyless \/ ~Recorded(SaleOf[c])
    <3>1. \A o \in orders : ~SameKey(SaleOf[c], number[c], o.sale, o.number)
      BY <2>1 DEF KeyInv, Clash, Row
    <3>2. \A o \in orders : SaleOf[c] # o.sale \/ SaleOf[c] \in Keyless
      BY <3>1 DEF SameKey
    <3> QED BY Zenon, <3>2 DEF Recorded
  <2>4. Recorded(SaleOf[c])' /\ \A s : Recorded(s) => Recorded(s)'
    <3>1. Row(c) \in orders' /\ Row(c).sale = SaleOf[c] /\ orders \subseteq orders'
      BY <2>1 DEF Row
    <3> QED BY Zenon, <3>1 DEF Recorded
  <2>5. /\ balance \in Int /\ Cost[SaleOf[c]] \in Nat /\ Gain[SaleOf[c]] \in Nat
        /\ balance' >= balance - Cost[SaleOf[c]]
    BY <2>1 DEF Effect, TypeOK
  <2>6. CASE c \in Redeeming
    <3>1. Cost[SaleOf[c]] <= balance
      BY <2>3, <2>6 DEF PointsInv
    <3>2. \A q \in Redeeming' : SaleOf[q] \notin Keyless /\ Recorded(SaleOf[q])'
      BY <2>2, <2>4, <2>6 DEF PointsInv
    <3>3. balance' >= 0
      BY <2>1, <2>5, <3>1 DEF Effect
    <3> QED BY <2>2, <3>2, <3>3 DEF PointsInv
  <2>7. CASE c \notin Redeeming
    <3>1. Cost[SaleOf[c]] = 0
      BY <2>1, <2>5, <2>7 DEF Redeeming
    <3>2. balance' >= balance /\ balance' \in Int
      BY <2>1, <2>5, <3>1 DEF Effect
    <3>3. \A q \in Redeeming : Cost[SaleOf[q]] \in Nat
      BY DEF Redeeming
    <3> QED BY <2>2, <2>4, <2>5, <3>2, <3>3 DEF PointsInv
  <2> QED BY <2>6, <2>7
<1>5. Count(c) \/ Insert(c) => /\ UNCHANGED <<orders, balance>>
                               /\ pc'[c] \in Steady => pc[c] \in Steady
  BY DEF Count, Insert
<1> QED BY <1>2, <1>3, <1>4, <1>5, OrderWriters

\* Only Announce writes the announcements, and ends the call.
LEMMA Announcers ==
    ASSUME TypeInv, NEW c \in Calls, Send(c) \/ Handle(c) \/ Fail(c)
    PROVE  \/ Commit(c)
           \/ Announce(c) /\ UNCHANGED orders /\ pc'[c] = "idle"
           \/ UNCHANGED <<orders, announced>> /\ pc'[c] # "announce"
<1> USE DEF TypeInv, TypeOK, Goto, Leave, Answer
<1>1. CASE Send(c) \/ Lookup(c) \/ Validate(c) \/ Count(c)
  BY <1>1 DEF Send, Lookup, Validate, Count
<1>2. CASE Insert(c) \/ Announce(c) \/ Conflict(c) \/ Fail(c)
  BY <1>2 DEF Insert, Announce, Conflict, Fail
<1> QED BY <1>1, <1>2 DEF Handle

\* A commit adds an order to announce with the call that will; an announcement takes it away;
\* a call that breaks off leaves an order that nobody hears of.
LEMMA AnnouncementsAreKept ==
    ASSUME TypeInv, KeyInv, AnnounceInv, NEW c \in Calls, Send(c) \/ Handle(c) \/ Fail(c)
    PROVE  AnnounceInv'
<1> USE DEF TypeInv
<1>0. \A q \in Calls : q # c => pc'[q] = pc[q] /\ Row(q)' = Row(q)
  BY Locality DEF Row
<1>1. ASSUME NEW s \in Sales
      PROVE  /\ IsFiniteSet(Announceable(s)) /\ Cardinality(Announceable(s)) \in Nat
             /\ announced[s] \in Nat /\ announced[s] <= Cardinality(Announceable(s))
  BY FS_Subset, FS_CardinalityType DEF Announceable, AnnounceInv, TypeOK
<1>2. CASE Commit(c)
  <2>1. /\ orders' = orders \cup {Row(c)} /\ Row(c)' = Row(c) /\ announced' = announced
        /\ pc[c] = "commit" /\ pc'[c] = "announce"
    BY <1>2 DEF Commit, Goto, Row, TypeOK
  <2>2. Row(c) \notin orders
    BY <2>1 DEF KeyInv, Clash, SameKey
  <2>3. \A p, q \in Calls : pc'[p] = "announce" /\ pc'[q] = "announce" /\ Row(p)' = Row(q)' => p = q
    BY <1>0, <2>1, <2>2 DEF AnnounceInv, KeyInv
  <2>4. Unannounced' = Unannounced \cup {Row(c)}
    BY <1>0, <2>1 DEF Unannounced
  <2>5. ASSUME NEW s \in Sales PROVE Announceable(s)' = Announceable(s)
    BY <2>1, <2>2, <2>4 DEF Announceable
  <2> QED BY <1>1, <2>1, <2>3, <2>5 DEF AnnounceInv
<1>3. CASE orders' = orders /\ pc'[c] # "announce"
  <2>1. \A p, q \in Calls : pc'[p] = "announce" /\ pc'[q] = "announce" /\ Row(p)' = Row(q)' => p = q
    BY <1>0, <1>3 DEF AnnounceInv
  <2>2. Unannounced' \subseteq Unannounced
    BY <1>0, <1>3 DEF Unannounced
  <2>3. ASSUME NEW s \in Sales
        PROVE  /\ Announceable(s) \subseteq Announceable(s)' /\ IsFiniteSet(Announceable(s)')
               /\ Cardinality(Announceable(s)) <= Cardinality(Announceable(s)')
               /\ Cardinality(Announceable(s)') \in Nat
    <3>1. Announceable(s) \subseteq Announceable(s)' /\ Announceable(s)' \subseteq orders
      BY <1>3, <2>2 DEF Announceable
    <3> QED BY <3>1, FS_Subset, FS_CardinalityType
  <2>4. CASE announced' = announced
    BY <1>1, <2>1, <2>3, <2>4 DEF AnnounceInv
  <2>5. CASE Announce(c)
    <3>1. /\ announced' = [announced EXCEPT ![SaleOf[c]] = @ + 1] /\ pc[c] = "announce"
          /\ SaleOf[c] \in Sales
      BY <2>5, SalesAreSales DEF Announce
    <3>2. /\ Row(c) \in Unannounced /\ Row(c) \notin Unannounced'
          /\ Row(c) \in orders /\ Row(c).sale = SaleOf[c]
      <4>1. Row(c) \in Unannounced /\ Row(c) \in orders /\ Row(c).sale = SaleOf[c]
        BY <3>1 DEF Unannounced, KeyInv, Row
      <4>2. \A q \in Calls : pc'[q] = "announce" => Row(q)' # Row(c)
        BY <1>0, <1>3, <3>1 DEF AnnounceInv
      <4>3. Row(c) \notin Unannounced'
        BY <4>2 DEF Unannounced
      <4> QED BY <4>1, <4>3
    <3>3. /\ Row(c) \notin Announceable(SaleOf[c])
          /\ Announceable(SaleOf[c]) \cup {Row(c)} \subseteq Announceable(SaleOf[c])'
      BY <1>3, <2>3, <3>1, <3>2 DEF Announceable
    <3>4. Cardinality(Announceable(SaleOf[c])) + 1 <= Cardinality(Announceable(SaleOf[c])')
      <4>1. /\ IsFiniteSet(Announceable(SaleOf[c]) \cup {Row(c)})
            /\ Cardinality(Announceable(SaleOf[c]) \cup {Row(c)})
                 = Cardinality(Announceable(SaleOf[c])) + 1
        BY <1>1, <3>1, <3>3, FS_AddElement
      <4> QED BY <2>3, <3>1, <3>3, <4>1, FS_Subset
    <3>5. ASSUME NEW s \in Sales PROVE announced'[s] <= Cardinality(Announceable(s)')
      <4>1. announced'[s] = IF s = SaleOf[c] THEN announced[s] + 1 ELSE announced[s]
        BY <3>1 DEF TypeOK
      <4> QED BY <1>1, <2>3, <3>4, <4>1
    <3> QED BY <2>1, <3>5 DEF AnnounceInv
  <2> QED BY <1>2, <2>4, <2>5, Announcers
<1> QED BY <1>2, <1>3, Announcers

-----------------------------------------------------------------------------
\* Checkout starts in the inductive invariant.
LEMMA InitIInv == Init => IInv
<1> SUFFICES ASSUME Init PROVE IInv
  OBVIOUS
<1> USE SalesAreSales DEF Init
<1>1. TypeInv
  <2>1. NoNumber \in Numbers
    BY DEF NoNumber, Numbers
  <2>2. TypeOK
    <3>1. redeemRace \in BOOLEAN
      BY Zenon
    <3>2. "idle" \in Steps
      BY DEF Steps
    <3>3. balance \in Int /\ day \in Nat /\ failures \in Nat /\ orders \in SUBSET Orders
      OBVIOUS
    <3>4. pc \in [Calls -> Steps] /\ number \in [Calls -> Numbers]
      BY <2>1, <3>2
    <3>5. told \in [Sales -> SUBSET Orders] /\ announced \in [Sales -> Nat]
      OBVIOUS
    <3> QED BY Zenon, <3>1, <3>3, <3>4, <3>5 DEF TypeOK
  <2> QED BY <2>2, FS_EmptySet DEF TypeInv
<1>2. KeyInv /\ AnswerInv
  BY DEF KeyInv, AnswerInv
<1>3. CountInv /\ PointsInv
  BY DEF CountInv, PointsInv, Redeeming
<1>4. AnnounceInv
  <2>1. \A s \in Sales : Announceable(s) = {} /\ announced[s] = 0
    BY DEF Announceable
  <2>2. \A s \in Sales : announced[s] <= Cardinality(Announceable(s))
    BY <2>1, FS_EmptySet
  <2>3. \A c \in Calls : pc[c] # "announce"
    OBVIOUS
  <2> QED BY <2>2, <2>3 DEF AnnounceInv
<1> QED BY <1>1, <1>2, <1>3, <1>4 DEF IInv

\* A step of Next is an action of a call, a new day, or nothing.
LEMMA NextCases ==
    ASSUME [Next]_vars
    PROVE  \/ \E c \in Calls : Send(c) \/ Handle(c) \/ Fail(c)
           \/ Midnight
           \/ UNCHANGED vars
  BY DEF Next, Settled

\* A new day, or nothing, keeps it.
LEMMA IdleIInv ==
    ASSUME IInv, Midnight \/ UNCHANGED vars
    PROVE  IInv'
<1>1. UNCHANGED <<orders, balance, pc, number, told, announced, failures, redeemRace>>
  BY DEF Midnight, vars
<1>2. TypeInv'
  <2>1. day' \in Nat
    BY SalesAreSales DEF Midnight, vars, IInv, TypeInv, TypeOK
  <2> QED BY <1>1, <2>1 DEF IInv, TypeInv, TypeOK
<1>3. KeyInv' /\ AnswerInv'
  BY <1>1 DEF IInv, KeyInv, AnswerInv, Row, Clash
<1>4. CountInv' /\ PointsInv'
  BY <1>1 DEF IInv, CountInv, PointsInv, Redeeming, Recorded
<1>5. AnnounceInv'
  BY <1>1 DEF IInv, AnnounceInv, Announceable, Unannounced, Row
<1> QED BY <1>2, <1>3, <1>4, <1>5 DEF IInv

\* The inductive invariant holds in every reachable state.
THEOREM Inductive == Spec => []IInv
<1>1. ASSUME IInv, NEW c \in Calls, Send(c) \/ Handle(c) \/ Fail(c)  PROVE IInv'
  BY <1>1, StepIsTyped, KeysAreKept, AnswersAreKept, CountIsKept, PointsAreKept,
     AnnouncementsAreKept DEF IInv
<1>2. IInv /\ [Next]_vars => IInv'
  BY <1>1, NextCases, IdleIInv
<1> QED BY <1>2, InitIInv, PTL DEF Spec

\* Every column and every local has its type, for any sales, calls and prices.
THEOREM TypeCorrect == Spec => []TypeOK
<1>1. IInv => TypeOK
  BY DEF IInv, TypeInv
<1> QED BY <1>1, Inductive, PTL

\* A keyed sale has one order at most and orders have numbers of their own.
THEOREM OneOrderPerSaleHolds == Spec => []OneOrderPerSale
<1>1. IInv => OneOrderPerSale
  BY DEF IInv, KeyInv, Clash, SameKey, OneOrderPerSale
<1> QED BY <1>1, Inductive, PTL

\* Clients know committed orders of their own sale, those of a keyed sale the same one.
THEOREM ClientsKnowTheirOrderHolds == Spec => []ClientsKnowTheirOrder
<1>1. IInv => ClientsKnowTheirOrder
  BY DEF IInv, AnswerInv, KeyInv, Clash, SameKey, ClientsKnowTheirOrder
<1> QED BY <1>1, Inductive, PTL

\* order.created is sent once at most for each order: a repeated call is not announced.
THEOREM AnnouncedOnceHolds == Spec => []AnnouncedOnce
<1>1. ASSUME IInv, NEW s \in Sales
      PROVE  announced[s] <= Cardinality({o \in orders : o.sale = s})
  <2>1. /\ Announceable(s) \subseteq {o \in orders : o.sale = s}
        /\ IsFiniteSet({o \in orders : o.sale = s})
    BY <1>1, FS_Subset DEF Announceable, IInv, TypeInv
  <2>2. /\ Cardinality(Announceable(s)) <= Cardinality({o \in orders : o.sale = s})
        /\ Cardinality(Announceable(s)) \in Nat
        /\ Cardinality({o \in orders : o.sale = s}) \in Nat
    BY <2>1, FS_Subset, FS_CardinalityType
  <2>3. announced[s] <= Cardinality(Announceable(s)) /\ announced[s] \in Nat
    BY <1>1 DEF IInv, AnnounceInv, TypeInv, TypeOK
  <2> QED BY <2>2, <2>3
<1>2. IInv => AnnouncedOnce
  BY <1>1 DEF AnnouncedOnce
<1> QED BY <1>2, Inductive, PTL

\* Short of a race between two sales that redeem, the balance is not negative.
THEOREM PointsCoverRedemptionsHolds == Spec => []PointsCoverRedemptions
<1>1. IInv => PointsCoverRedemptions
  BY DEF IInv, PointsInv, PointsCoverRedemptions
<1> QED BY <1>1, Inductive, PTL

\* A checkout of a new sale meets a conflict only if another was committed since it counted.
THEOREM ConflictMeansContentionHolds == Spec => ConflictMeansContention
<1> DEFINE Contended ==
      \A c \in Calls :
         /\ pc[c] = "insert" /\ pc'[c] = "conflict"
         /\ Existing(SaleOf[c]) = {}
         => Cardinality(orders) >= number[c].seq
<1>1. ASSUME IInv, NEW c \in Calls, pc[c] = "insert", pc'[c] = "conflict",
             Existing(SaleOf[c]) = {}, [Next]_vars
      PROVE  Cardinality(orders) >= number[c].seq
  <2>1. PICK q \in Calls : Send(q) \/ Handle(q) \/ Fail(q)
    BY <1>1, NextCases DEF Midnight, vars
  <2>2. q = c
    BY <1>1, <2>1, Locality DEF IInv, TypeInv
  <2>3. Insert(c)
    BY <1>1, <2>1, <2>2
    DEF Handle, Send, Lookup, Validate, Count, Commit, Announce, Conflict, Fail, Leave, Goto,
        Answer, IInv, TypeInv, TypeOK
  <2>4. PICK o \in orders : SameKey(SaleOf[c], number[c], o.sale, o.number)
    BY <1>1, <2>3 DEF Insert, Goto, IInv, TypeInv, TypeOK
  <2>5. number[c] = o.number
    BY <1>1, <2>4 DEF SameKey, Existing
  <2>6. o.number.seq <= Cardinality(orders) /\ o.number.seq \in Nat /\ Cardinality(orders) \in Nat
    BY FS_CardinalityType, <1>1 DEF IInv, TypeInv, TypeOK, CountInv, Orders, Numbers
  <2> QED BY <2>5, <2>6
<1>2. IInv /\ [Next]_vars => [Contended]_vars
  BY <1>1
<1> QED BY <1>2, Inductive, PTL DEF Spec, ConflictMeansContention

\* Checkout implements the exactly-once sale, whatever breaks off.
THEOREM ImplementsPromiseHolds == Spec => ImplementsPromise
<1> DEFINE known == {s \in Sales : told[s] # {}}
           rec   == {o.sale : o \in orders}
<1>1. Init => Promise!Init
  BY SalesAreSales DEF Init, Promise!Init
<1>2. ASSUME IInv, [Next]_vars
      PROVE  [Promise!Next]_<<rec, balance, known>>
  <2>1. ASSUME NEW c \in Calls, Commit(c)  PROVE Promise!Record(SaleOf[c])
    <3>1. /\ orders' = orders \cup {Row(c)} /\ balance' = balance + Effect[SaleOf[c]]
          /\ told' = told /\ pc[c] = "commit"
      BY <2>1 DEF Commit, Row
    <3>2. rec' = rec \cup {SaleOf[c]} /\ known' = known
      <4>1. Row(c).sale = SaleOf[c]
        BY DEF Row
      <4>2. rec' = {o.sale : o \in orders \cup {Row(c)}}
        BY <3>1
      <4> QED BY <3>1, <4>1, <4>2
    <3>3. SaleOf[c] \notin Keyless => SaleOf[c] \notin rec
      <4>1. \A o \in orders : ~SameKey(SaleOf[c], number[c], o.sale, o.number)
        BY <1>2, <3>1 DEF IInv, KeyInv, Clash, Row
      <4> QED BY <4>1 DEF SameKey
    <3> QED BY <3>1, <3>2, <3>3 DEF Promise!Record
  <2>2. ASSUME UNCHANGED <<orders, balance, told>>  PROVE UNCHANGED <<rec, balance, known>>
    BY <2>2
  <2>3. ASSUME NEW c \in Calls, UNCHANGED <<orders, balance>>, NEW o \in orders, o.sale = SaleOf[c],
               told' = [told EXCEPT ![SaleOf[c]] = @ \cup {o}]
        PROVE  Promise!Tell(SaleOf[c])
    <3>1. known' = known \cup {SaleOf[c]}
      BY <1>2, <2>3, SalesAreSales DEF IInv, TypeInv, TypeOK
    <3> QED BY <2>3, <3>1 DEF Promise!Tell
  <2>4. ASSUME NEW c \in Calls, Send(c) \/ Handle(c) \/ Fail(c)
        PROVE  [Promise!Next]_<<rec, balance, known>>
    <3>1. SaleOf[c] \in Sales
      BY SalesAreSales
    <3>2. CASE Commit(c)
      BY <2>1, <3>1, <3>2 DEF Promise!Next
    <3>3. CASE UNCHANGED <<orders, balance>>
      <4>1. CASE told' = told
        BY <2>2, <3>3, <4>1
      <4>2. CASE \E o \in orders : /\ o.sale = SaleOf[c]
                                   /\ told' = [told EXCEPT ![SaleOf[c]] = @ \cup {o}]
        BY <2>3, <3>1, <3>3, <4>2 DEF Promise!Next
      <4> QED BY <1>2, <2>4, <4>1, <4>2, AnswerWriters DEF IInv, TypeInv
    <3>4. Commit(c) \/ UNCHANGED <<orders, balance>>
      BY <1>2, <2>4, OrderWriters DEF IInv, TypeInv, Validate, Count, Insert
    <3> QED BY <3>2, <3>3, <3>4
  <2>5. CASE Midnight \/ UNCHANGED vars
    BY <2>2, <2>5 DEF Midnight, vars
  <2> QED BY <1>2, <2>4, <2>5, NextCases
<1> QED BY <1>1, <1>2, Inductive, PTL DEF Spec, ImplementsPromise, Promise!Spec
=============================================================================
