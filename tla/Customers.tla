------------------------------ MODULE Customers ------------------------------
(* Customer accounts: sign-in on the website with one-time codes, the       *)
(* accounts themselves, and the points on them with their ledger.           *)
(*                                                                         *)
(* A customer is a row with its loyalty account (balance, None while there  *)
(* is none) and its ledger rows, reduced to their number and their sum.     *)
(* Phones and emails are the trimmed and lower-cased ones, unique in the    *)
(* table.  Texts and the encoding of the WhatsApp message are left out; the *)
(* gateway either takes it or not.                                          *)
EXTENDS HttpCalls, Integers, FiniteSetsExt

CONSTANTS
    Phones, Emails, Codes,
    Points,        \* amounts by which balances move
    MaxCustomers   \* bound: ids of customers

ASSUME PointsAreNumbers == Points \subseteq Int /\ MaxCustomers \in Nat \ {0}

\* A run has finitely many calls, as many as one likes.
ASSUME FewRequests == IsFiniteSet(Requests)

VARIABLES
    customers,   \* rows of "customers" with account and ledger, by id
    lastId,      \* the last customer id given out
    challenges,  \* rows of "website_otp_challenges"
    lastRow,     \* the last challenge id given out
    expired,     \* challenges whose expires_at has passed
    got          \* what a request has read: a challenge, an account, a count of rows

store == <<customers, lastId, challenges, lastRow, expired>>
vars  == <<customers, lastId, challenges, lastRow, expired, got, call, pc, before>>

Ids == 1 .. MaxCustomers

Customer ==
    [phone : Phones, email : Emails \cup {None}, balance : Int \cup {None}, rows : Nat, sum : Int]

Challenge == [id : Nat, phone : Phones, code : Codes]

Calls ==
    [kind : {"send"}, phone : Phones, code : Codes]
      \cup [kind : {"verify"}, phone : Phones, code : Codes, named : BOOLEAN, email : {None}]
      \cup [kind : {"register", "upsert"}, phone : Phones, email : Emails \cup {None}]
      \cup [kind : {"adjust", "sale"}, id : Ids, points : Points]
      \cup [kind : {"remove"}, id : Ids]

ASSUME NoneIsNoCall == None \notin Calls \cup Int

Asked(kinds) == {k \in Calls : k.kind \in kinds}

Steps == {"idle", "message", "forget", "store", "consume", "find", "lookup", "email",
          "insert", "update", "credit", "ledger", "cut", "delete"} \cup Ended

Keep(r, what) == got' = [got EXCEPT ![r] = what]

\* A call breaks off; an open transaction rolls back.
Fail(r) == BreakOff(r) /\ UNCHANGED <<store, got>>

-----------------------------------------------------------------------------
(* sendOtp *)

\* The phone is looked up, to say whether it is new.
SendOtp(r) ==
    /\ \E k \in New(r, Asked({"send"})) : Arrive(r, k)
    /\ Goto(r, "message")
    /\ UNCHANGED <<store, got>>

\* The gateway takes the message, or the call is answered with an error.
Message(r) ==
    /\ Proceed(r, "message")
    /\ Goto(r, "forget") \/ Goto(r, "refused")
    /\ UNCHANGED <<store, got>>

Others(p) == {c \in challenges : c.phone # p}

Forget(r) ==
    /\ Proceed(r, "forget")
    /\ challenges' = Others(call[r].phone)
    /\ Goto(r, "store")
    /\ UNCHANGED <<customers, lastId, lastRow, expired, got>>

\* Mutants of Store: the id of the row before is used again; the rows of the phone are
\* deleted once more.
StoreAgain(r) ==
    /\ Proceed(r, "store")
    /\ challenges' = challenges \cup
         {[id |-> lastRow, phone |-> call[r].phone, code |-> call[r].code]}
    /\ Keep(r, lastRow)
    /\ Goto(r, "done")
    /\ UNCHANGED <<customers, lastId, lastRow, expired>>

StoreThenForget(r) ==
    /\ Proceed(r, "store")
    /\ lastRow' = lastRow + 1
    /\ challenges' = Others(call[r].phone)
    /\ Keep(r, lastRow + 1)
    /\ Goto(r, "done")
    /\ UNCHANGED <<customers, lastId, expired>>

Store(r) ==
    /\ Proceed(r, "store")
    /\ lastRow' = lastRow + 1
    /\ challenges' = challenges \cup
         {[id |-> lastRow + 1, phone |-> call[r].phone, code |-> call[r].code]}
    /\ Keep(r, lastRow + 1)
    /\ Goto(r, "done")
    /\ UNCHANGED <<customers, lastId, expired>>

\* Ten minutes have passed since a code was stored.
Expire ==
    /\ \E c \in challenges : c.id \notin expired /\ expired' = expired \cup {c.id}
    /\ UNCHANGED <<customers, lastId, challenges, lastRow, got, calls>>

-----------------------------------------------------------------------------
(* verifyOtp *)

\* Unexpired rows of a phone, and the one among them that counts.
Live(p)   == {c \in challenges : c.phone = p /\ c.id \notin expired}
Newest(p) == {c \in Live(p) : \A d \in Live(p) : d.id <= c.id}

\* The newest row is read and its code compared with the one given.
Compare(r) ==
    \E k \in New(r, Asked({"verify"})) :
      LET match == {c \in Newest(k.phone) : c.code = k.code}
      IN  /\ Arrive(r, k)
          /\ \/ \E c \in match : Keep(r, c.id) /\ Goto(r, "consume")
             \/ match = {} /\ Goto(r, "refused") /\ UNCHANGED got
          /\ UNCHANGED store

\* Mutant of Consume: no row is deleted.
ConsumeNothing(r) ==
    /\ Proceed(r, "consume")
    /\ Goto(r, "find")
    /\ UNCHANGED <<store, got>>

\* All rows of the phone are deleted, the one compared or a later one.
Consume(r) ==
    /\ Proceed(r, "consume")
    /\ challenges' = Others(call[r].phone)
    /\ Goto(r, "find")
    /\ UNCHANGED <<customers, lastId, lastRow, expired, got>>

Existing  == {i \in Ids : customers[i] # None}
ByPhone(p) == {i \in Existing : customers[i].phone = p}
ByEmail(e) == {i \in Existing : customers[i].email = e}

\* Mutant of Find: the account is not looked for.
FindNothing(r) ==
    /\ Proceed(r, "find")
    /\ Goto(r, IF call[r].named THEN "lookup" ELSE "refused")
    /\ UNCHANGED <<store, got>>

\* The account of the phone signs in; a new customer needs a name to register.
Find(r) ==
    /\ Proceed(r, "find")
    /\ Goto(r, IF ByPhone(call[r].phone) # {} THEN "done"
               ELSE IF call[r].named THEN "lookup" ELSE "refused")
    /\ UNCHANGED <<store, got>>

-----------------------------------------------------------------------------
(* create, register, upsertByPhone *)

\* A phone that has an account turns registration away, and is updated by an upsert.
LookupFor(r, k) ==
    LET found == ByPhone(k.phone)
        next  == IF k.email # None THEN "email" ELSE IF found = {} THEN "insert" ELSE "update"
    IN  /\ \/ found = {} /\ Goto(r, next) /\ UNCHANGED got
           \/ found # {} /\ k.kind # "upsert" /\ Goto(r, "refused") /\ UNCHANGED got
           \/ k.kind = "upsert" /\ Goto(r, next) /\ \E i \in found : Keep(r, i)
        /\ UNCHANGED store

Lookup(r) ==
    \/ Proceed(r, "lookup") /\ LookupFor(r, call[r])
    \/ \E k \in New(r, Asked({"register", "upsert"})) : Arrive(r, k) /\ LookupFor(r, k)

Emailed(r) == call[r].email # None

\* findOtherCustomerByEmail
EmailCheck(r) ==
    /\ Proceed(r, "email")
    /\ Goto(r, IF ByEmail(call[r].email) \ {got[r]} # {} THEN "refused"
               ELSE IF got[r] = 0 THEN "insert" ELSE "update")
    /\ UNCHANGED <<store, got>>

\* The unique indexes refuse a phone or an email that was taken since the look-up.
Insert(r) ==
    LET k == call[r]
        taken == ByPhone(k.phone) # {} \/ (Emailed(r) /\ ByEmail(k.email) # {})
    IN  /\ Proceed(r, "insert")
        /\ \/ taken /\ Goto(r, "refused") /\ UNCHANGED <<customers, lastId>>
           \/ /\ ~taken
              /\ lastId < MaxCustomers
              /\ lastId' = lastId + 1
              /\ customers' = [customers EXCEPT ![lastId + 1] =
                   [phone |-> k.phone, email |-> k.email, balance |-> None, rows |-> 0, sum |-> 0]]
              /\ Goto(r, "done")
        /\ UNCHANGED <<challenges, lastRow, expired, got>>

Emailing(row, email) == [row EXCEPT !.email = email]

\* The row found by phone is written by its id, the email given or none.
Update(r) ==
    LET i == got[r]
        taken == Emailed(r) /\ ByEmail(call[r].email) \ {i} # {}
    IN  /\ Proceed(r, "update")
        /\ \/ (i \notin Existing \/ taken) /\ Goto(r, "refused") /\ UNCHANGED customers
           \/ /\ i \in Existing /\ ~taken
              /\ customers' = [customers EXCEPT ![i] = Emailing(@, call[r].email)]
              /\ Goto(r, "done")
        /\ UNCHANGED <<lastId, challenges, lastRow, expired, got>>

-----------------------------------------------------------------------------
(* manualAdjust, the points of an order, remove *)

Plus(balance, points) == IF balance = None THEN points ELSE balance + points

Balance(i) == Plus(customers[i].balance, 0)

\* The account moved, and a row of the ledger added.
Credited(row, points) == [row EXCEPT !.balance = Plus(@, points)]
Booked(row, points)   == [row EXCEPT !.rows = @ + 1, !.sum = @ + points]

\* findOne of remove and the look-up of manualAdjust.
FindCustomer(r) ==
    /\ \E k \in New(r, Asked({"adjust", "remove"})) :
         /\ Arrive(r, k)
         /\ Goto(r, IF k.id \notin Existing THEN "refused"
                    ELSE IF k.kind = "remove" THEN "cut" ELSE "credit")
    /\ UNCHANGED <<store, got>>

\* The account is created or moved, in a statement of its own.
Credit(r) ==
    LET i == call[r].id
    IN  /\ Proceed(r, "credit")
        /\ \/ i \notin Existing /\ Goto(r, "refused") /\ UNCHANGED <<customers, got>>
           \/ /\ i \in Existing
              /\ customers' = [customers EXCEPT ![i] = Credited(@, call[r].points)]
              /\ Keep(r, 1)
              /\ Goto(r, "ledger")
        /\ UNCHANGED <<lastId, challenges, lastRow, expired>>

\* The MANUAL row follows.
Ledger(r) ==
    LET i == call[r].id
    IN  /\ Proceed(r, "ledger")
        /\ \/ i \notin Existing /\ Goto(r, "refused") /\ UNCHANGED customers
           \/ /\ i \in Existing
              /\ customers' = [customers EXCEPT ![i] = Booked(@, call[r].points)]
              /\ Goto(r, "done")
        /\ UNCHANGED <<lastId, challenges, lastRow, expired, got>>

\* An order of the customer commits, with the points it earns or redeems and their row;
\* points are redeemed from an account that exists.
Sale(r) ==
    \E k \in New(r, Asked({"sale"})) :
      LET possible == k.id \in Existing /\ (k.points < 0 => customers[k.id].balance # None)
      IN  /\ Arrive(r, k)
          /\ \/ ~possible /\ Goto(r, "refused") /\ UNCHANGED customers
             \/ /\ possible
                /\ customers' = [customers EXCEPT ![k.id] = Booked(Credited(@, k.points), k.points)]
                /\ Goto(r, "done")
          /\ UNCHANGED <<lastId, challenges, lastRow, expired, got>>

\* Mutant of Cut: the ledger is deleted outside a transaction.
CutAlone(r) ==
    LET i == call[r].id
    IN  /\ Proceed(r, "cut")
        /\ \/ i \notin Existing /\ UNCHANGED customers
           \/ i \in Existing /\ customers' = [customers EXCEPT ![i].rows = 0, ![i].sum = 0]
        /\ Keep(r, 0)
        /\ Goto(r, "delete")
        /\ UNCHANGED <<lastId, challenges, lastRow, expired>>

\* The transaction of remove deletes the ledger rows it finds (seen by itself alone) ...
Cut(r) ==
    /\ Proceed(r, "cut")
    /\ Keep(r, IF call[r].id \in Existing THEN customers[call[r].id].rows ELSE 0)
    /\ Goto(r, "delete")
    /\ UNCHANGED store

\* ... and the customer, with account and favourites; a row that came since is RESTRICTed
\* and rolls the transaction back.
Delete(r) ==
    LET i == call[r].id
        possible == i \in Existing /\ customers[i].rows = got[r]
    IN  /\ Proceed(r, "delete")
        /\ \/ ~possible /\ Goto(r, "refused") /\ UNCHANGED customers
           \/ possible /\ Goto(r, "done") /\ customers' = [customers EXCEPT ![i] = None]
        /\ UNCHANGED <<lastId, challenges, lastRow, expired, got>>

-----------------------------------------------------------------------------
\* One customer may have registered before the run.
Init ==
    /\ \E first \in {None} \cup [phone : Phones, email : Emails \cup {None},
                                 balance : {None}, rows : {0}, sum : {0}] :
         customers = [i \in Ids |-> IF i = 1 THEN first ELSE None]
    /\ lastId = 1
    /\ challenges = {}
    /\ lastRow = 0
    /\ expired = {}
    /\ got = [r \in Requests |-> 0]
    /\ NoCalls

Handle(r) ==
    \/ SendOtp(r) \/ Message(r) \/ Forget(r) \/ Store(r)
    \/ Compare(r) \/ Consume(r) \/ Find(r)
    \/ Lookup(r) \/ EmailCheck(r) \/ Insert(r) \/ Update(r)
    \/ FindCustomer(r) \/ Credit(r) \/ Ledger(r) \/ Sale(r) \/ Cut(r) \/ Delete(r)

\* All requests have been answered or have broken off.
AllEnded == (\A r \in Requests : pc[r] \in Ended) /\ UNCHANGED vars

Next ==
    \/ \E r \in Requests : Handle(r) \/ Fail(r)
    \/ Expire
    \/ AllEnded

Spec == Init /\ [][Next]_vars

-----------------------------------------------------------------------------
\* Every column and every local holds a value of its type, and ids given out once are
\* not given out again.
TypeOK ==
    /\ customers \in [Ids -> Customer \cup {None}]
    /\ lastId \in Ids /\ \A i \in Existing : i <= lastId
    /\ challenges \in SUBSET Challenge
    /\ lastRow \in Nat
    /\ \A c, d \in challenges : c.id \in 1 .. lastRow /\ (c.id = d.id => c = d)
    /\ expired \subseteq 1 .. lastRow
    /\ call \in [Requests -> Calls \cup {None}]
    /\ \A r \in Requests : (call[r] = None) <=> At(r, "idle")
    /\ pc \in [Requests -> Steps]
    /\ got \in [Requests -> Nat]
    /\ before \in [Requests -> SUBSET Requests]

SamePhone(r, s) == call[r].phone = call[s].phone

\* A code signs in once: two verifications that succeed with the same challenge have been
\* under way together (verifyOtp reads the row and deletes it in a later statement).
CodesSignInOnce ==
    \A v, w \in Requests :
      /\ v # w
      /\ Kind(v, {"verify"}) /\ Kind(w, {"verify"})
      /\ At(v, "done") /\ At(w, "done")
      /\ got[v] = got[w]
      => NotBefore(v, w) /\ NotBefore(w, v)

\* The code a customer was sent works: sendOtp has answered, the code is given, and it is
\* turned away only if it has expired; if a verification of that phone that had not
\* ended before the send began has used up the phone's codes (this one or, overlapping,
\* an earlier one: verifyOtp deletes rows it has not read); or if another send to the
\* phone has overlapped or followed.
CodesAreHonoured ==
    \A s, v \in Requests :
      /\ Kind(s, {"send"}) /\ At(s, "done")
      /\ Kind(v, {"verify"}) /\ At(v, "refused") /\ got[v] = 0
      /\ SamePhone(s, v) /\ call[s].code = call[v].code
      /\ s \in before[v]
      => \/ got[s] \in expired
         \/ \E w \in Requests \ {v} : /\ Kind(w, {"verify"}) /\ SamePhone(w, s)
                                      /\ NotBefore(w, s) /\ got[w] # 0
         \/ \E t \in Requests : Kind(t, {"send"}) /\ SamePhone(t, s) /\ NotBefore(t, s)

\* A code that was used up signs its owner in: the call is turned away after that only for
\* the missing name of a new customer (who has to ask for another code), or because a call
\* that overlapped it registered the phone first.
ConsumedCodesSignIn ==
    \A v \in Requests :
      Kind(v, {"verify"}) /\ At(v, "refused") /\ got[v] # 0 =>
        \/ ~call[v].named
        \/ \E w \in Requests : /\ Kind(w, {"verify", "register", "upsert"}) /\ SamePhone(w, v)
                               /\ At(w, "done") /\ NotBefore(w, v)

\* Adjustments that have moved the balance of a customer without (yet) leaving a row.
Unbooked(i) ==
    {r \in Requests : Kind(r, {"adjust"}) /\ call[r].id = i /\ got[r] = 1 /\ ~At(r, "done")}

\* The ledger explains every balance, whatever adjustments, orders and refused removals
\* interleave: the two differ exactly by the adjustments between their two statements or
\* broken off there.
LedgerExplainsBalance ==
    \A i \in Existing :
      Balance(i) = customers[i].sum + MapThenSumSet(LAMBDA r : call[r].points, Unbooked(i))
=============================================================================
