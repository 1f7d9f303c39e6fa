--------------------------- MODULE CustomersProofs ---------------------------
(* Theorems of Customers for every set of requests, phones, emails, codes   *)
(* and points.                                                              *)
EXTENDS Customers, FiniteSetTheorems, WellFoundedInduction, TLAPS

\* The kinds of calls that come to a step.
Fits(r) ==
    /\ pc[r] \in {"message", "forget", "store"} => call[r].kind = "send"
    /\ pc[r] \in {"consume", "find", "lookup"} => call[r].kind = "verify"
    /\ pc[r] \in {"email", "update"} => call[r].kind \in {"register", "upsert"}
    /\ pc[r] = "insert" => call[r].kind \in {"verify", "register", "upsert"}
    /\ pc[r] \in {"credit", "ledger"} => call[r].kind = "adjust"
    /\ pc[r] \in {"cut", "delete"} => call[r].kind = "remove"

ControlInv == \A r \in Requests : Fits(r)

\* Requests that came before another one have ended, and one that has not come in has
\* neither read anything nor a past.
HistoryInv ==
    \A r \in Requests :
      /\ \A s \in before[r] : pc[s] \in Ended /\ s # r
      /\ At(r, "idle") => got[r] = 0 /\ before[r] = {}

\* Steps after the rows of a verified phone were deleted.
Used == {"find", "lookup", "insert", "done", "refused"}

\* A verification holds a row of its phone, and once it has deleted the rows of the phone
\* the one it has read is gone for good.
Holds(v) ==
    /\ got[v] <= lastRow
    /\ pc[v] \in {"consume", "find", "lookup", "insert", "done"} => got[v] # 0
    /\ At(v, "consume") => \A c \in challenges : c.id = got[v] => c.phone = call[v].phone
    /\ pc[v] \in Used => \A c \in challenges : c.id # got[v]

CodeInv == \A v \in Requests : Kind(v, {"verify"}) => Holds(v)

\* A code that has signed somebody in is not read by calls that come later.
OnceInv ==
    \A w \in Requests : \A v \in before[w] :
      Kind(v, {"verify"}) /\ Kind(w, {"verify"}) /\ At(v, "done") => got[v] # got[w]

\* Somebody has registered the phone of a verification since it came in.
Registered(v) ==
    \E w \in Requests : /\ Kind(w, {"verify", "register", "upsert"}) /\ SamePhone(w, v)
                        /\ At(w, "done") /\ NotBefore(w, v)

\* A verification on its way to register has a name, and its phone has no account unless
\* somebody else has just registered it.
MayRegister(v) == call[v].named /\ (ByPhone(call[v].phone) = {} \/ Registered(v))

RegisterInv ==
    \A v \in Requests : Kind(v, {"verify"}) /\ pc[v] \in {"lookup", "insert"} => MayRegister(v)

\* The row that a send has stored is there, and the newest of its phone.
Newly(s) ==
    /\ \E c \in challenges : c.id = got[s] /\ c.phone = call[s].phone /\ c.code = call[s].code
    /\ \A d \in challenges : d.phone = call[s].phone => d.id <= got[s]

\* Its code has expired, was used up, or was replaced.
Spoilt(s) ==
    \/ got[s] \in expired
    \/ \E w \in Requests : Kind(w, {"verify"}) /\ SamePhone(w, s) /\ NotBefore(w, s) /\ got[w] # 0
    \/ \E t \in Requests : Kind(t, {"send"}) /\ SamePhone(t, s) /\ NotBefore(t, s)

SentInv == \A s \in Requests : Kind(s, {"send"}) /\ At(s, "done") => Newly(s) \/ Spoilt(s)

\* An adjustment has read nothing before it moves the balance, and moves that of a
\* customer who has registered.
AdjustInv ==
    \A r \in Requests : Kind(r, {"adjust"}) =>
      /\ At(r, "credit") => got[r] = 0
      /\ At(r, "ledger") => got[r] = 1
      /\ got[r] = 1 => call[r].id <= lastId

\* By how much the balance of a customer and the ledger differ, and who owes a row.
Gap(i)     == Balance(i) - customers[i].sum
Owes(r, i) == Kind(r, {"adjust"}) /\ call[r].id = i /\ got[r] = 1 /\ ~At(r, "done")

\* The points of some calls.
PointsOf(q, U) == MapThenSumSet(LAMBDA r : q[r].points, U)

LedgerInv == \A i \in Existing : Gap(i) = PointsOf(call, Unbooked(i))

\* The inductive invariant.
IInv ==
    /\ TypeOK /\ ControlInv /\ HistoryInv
    /\ CodeInv /\ OnceInv
    /\ RegisterInv /\ ConsumedCodesSignIn
    /\ SentInv /\ CodesAreHonoured
    /\ AdjustInv /\ LedgerInv

-----------------------------------------------------------------------------
\* What the calls of each kind carry.
LEMMA CallFields ==
    ASSUME NEW k \in Calls
    PROVE  /\ k # None
           /\ k.kind \in {"send", "verify"} => k.phone \in Phones /\ k.code \in Codes
           /\ k.kind = "verify" => k.named \in BOOLEAN /\ k.email = None
           /\ k.kind \in {"register", "upsert"} => k.phone \in Phones /\ k.email \in Emails \cup {None}
           /\ k.kind \in {"adjust", "sale", "remove"} => k.id \in Ids
           /\ k.kind \in {"adjust", "sale"} => k.points \in Int
           /\ k.kind \in {"send", "verify", "register", "upsert", "adjust", "sale", "remove"}
  BY NoneIsNoCall, PointsAreNumbers DEF Calls

\* A request comes in, or goes on.
Comes(r)   == /\ At(r, "idle")
              /\ \E k \in Calls : Arrive(r, k)
              /\ \E step \in Steps \ {"idle"} : Goto(r, step)
GoesOn(r)  == /\ pc[r] \notin Ended \cup {"idle"}
              /\ UNCHANGED <<call, before>>
              /\ \E step \in Steps \ {"idle"} : Goto(r, step)

\* What a step does to the others' calls, and to its own.
LEMMA Shape ==
    ASSUME TypeOK, NEW r \in Requests, Handle(r) \/ Fail(r)
    PROVE  /\ Comes(r) \/ GoesOn(r)
           /\ \E n \in Nat : got' = [got EXCEPT ![r] = n]
<1> USE DEF Steps, Ended, At, Goto, Proceed, New, Asked, GoesOn, Comes
<1>0. got[r] \in Nat /\ got = [got EXCEPT ![r] = got[r]]
  BY DEF TypeOK
<1>1. CASE SendOtp(r) \/ FindCustomer(r)
  BY <1>0, <1>1 DEF SendOtp, FindCustomer, store, TypeOK
<1>2. CASE Message(r) \/ Forget(r) \/ Find(r) \/ Ledger(r) \/ Delete(r) \/ Consume(r)
  BY <1>0, <1>2 DEF Message, Forget, Find, Ledger, Delete, Consume, store, TypeOK
<1>3. CASE Store(r) \/ EmailCheck(r) \/ Insert(r) \/ Update(r)
  BY <1>0, <1>3 DEF Store, EmailCheck, Insert, Update, store, TypeOK, Keep
<1>4. CASE Compare(r)
  BY <1>0, <1>4 DEF Compare, store, TypeOK, Newest, Live, Challenge, Keep
<1>5. CASE Lookup(r)
  <2>1. ASSUME NEW k, LookupFor(r, k)
        PROVE  /\ \E step \in Steps \ {"idle"} : Goto(r, step)
               /\ \E n \in Nat : got' = [got EXCEPT ![r] = n]
    <3>1. got = [got EXCEPT ![r] = got[r]] /\ got[r] \in Nat
      BY DEF TypeOK
    <3>2. \A i \in ByPhone(k.phone) : i \in Nat
      BY DEF ByPhone, Existing, Ids
    <3>3. CASE k.kind = "upsert" /\ \E i \in ByPhone(k.phone) : Keep(r, i)
      BY <2>1, <3>2, <3>3 DEF LookupFor, Keep
    <3> QED BY <2>1, <3>1, <3>3 DEF LookupFor
  <2> QED BY <1>5, <2>1 DEF Lookup
<1>6. CASE Credit(r) \/ Cut(r)
  <2>1. call[r].id \in Existing => customers[call[r].id].rows \in Nat
    BY DEF TypeOK, Existing, Customer
  <2> QED BY <1>0, <1>6, <2>1 DEF Credit, Cut, store, Keep, TypeOK
<1>7. CASE Sale(r)
  BY <1>0, <1>7 DEF Sale, store, TypeOK
<1>8. CASE Fail(r)
  BY <1>0, <1>8 DEF Fail, BreakOff, TypeOK
<1> QED BY <1>1, <1>2, <1>3, <1>4, <1>5, <1>6, <1>7, <1>8 DEF Handle

\* The others' steps, calls and reads stay, and their pasts.
LEMMA OneMoves ==
    ASSUME TypeOK, NEW r \in Requests, Handle(r) \/ Fail(r)
    PROVE  /\ \A q \in Requests \ {r} : /\ pc'[q] = pc[q] /\ call'[q] = call[q]
                                        /\ got'[q] = got[q] /\ before'[q] = before[q]
           /\ pc'[r] # "idle" /\ pc[r] \notin Ended
           /\ pc'[r] \in Steps /\ got'[r] \in Nat /\ call'[r] \in Calls
           /\ ~At(r, "idle") => call'[r] = call[r] /\ before'[r] = before[r]
           /\ At(r, "idle") => before'[r] = {s \in Requests : pc[s] \in Ended}
<1>1. Comes(r) \/ GoesOn(r)
  BY Shape
<1>2. \E n \in Nat : got' = [got EXCEPT ![r] = n]
  BY Shape
<1>3. CASE Comes(r)
  BY <1>2, <1>3 DEF Comes, Arrive, TypeOK, At, Goto, Ended, Steps
<1>4. CASE GoesOn(r)
  BY <1>2, <1>4 DEF GoesOn, TypeOK, At, Goto, Ended, Steps
<1> QED BY <1>1, <1>3, <1>4

\* Calls and what they have read keep their types.
LEMMA CallTypes ==
    ASSUME TypeOK, NEW r \in Requests, Handle(r) \/ Fail(r)
    PROVE  /\ call' \in [Requests -> Calls \cup {None}]
           /\ \A q \in Requests : (call'[q] = None) <=> At(q, "idle")'
           /\ pc' \in [Requests -> Steps]
           /\ got' \in [Requests -> Nat]
           /\ before' \in [Requests -> SUBSET Requests]
<1>1. Comes(r) \/ GoesOn(r)
  BY Shape
<1>2. \E n \in Nat : got' = [got EXCEPT ![r] = n]
  BY Shape
<1>3. CASE Comes(r)
  BY <1>2, <1>3, NoneIsNoCall DEF Comes, Arrive, TypeOK, At, Goto
<1>4. CASE GoesOn(r)
  BY <1>2, <1>4 DEF GoesOn, TypeOK, At, Goto
<1> QED BY <1>1, <1>3, <1>4

\* Rows of customers keep their type when they are written.
LEMMA RowTypes ==
    ASSUME NEW row \in Customer
    PROVE  /\ \A e \in Emails \cup {None} : Emailing(row, e) \in Customer
           /\ \A p \in Int : Credited(row, p) \in Customer /\ Booked(row, p) \in Customer
<1>1. \A e \in Emails \cup {None} : Emailing(row, e) \in Customer
  BY DEF Customer, Emailing
<1>2. ASSUME NEW p \in Int
      PROVE  Credited(row, p) \in Customer
  <2>1. Plus(row.balance, p) \in Int
    BY DEF Customer, Plus
  <2> QED BY <2>1 DEF Customer, Credited
<1>3. ASSUME NEW p \in Int
      PROVE  Booked(row, p) \in Customer
  <2>1. row.rows + 1 \in Nat /\ row.sum + p \in Int
    BY DEF Customer
  <2> DEFINE rows == row.rows + 1
             sum  == row.sum + p
  <2>2. Booked(row, p) = [row EXCEPT !.rows = rows, !.sum = sum]
    BY Zenon DEF Booked
  <2> HIDE DEF rows, sum
  <2>3. rows \in Nat /\ sum \in Int
    BY <2>1 DEF rows, sum
  <2> QED BY <2>2, <2>3 DEF Customer
<1> QED BY <1>1, <1>2, <1>3

\* Every step keeps the types.
LEMMA TypesKept == TypeOK /\ ControlInv /\ [Next]_vars => TypeOK'
<1> SUFFICES ASSUME TypeOK, ControlInv, [Next]_vars PROVE TypeOK'
  OBVIOUS
<1>1. ASSUME NEW r \in Requests, Handle(r) \/ Fail(r)
      PROVE  TypeOK'
  <2>0. /\ call' \in [Requests -> Calls \cup {None}]
        /\ \A q \in Requests : (call'[q] = None) <=> At(q, "idle")'
        /\ pc' \in [Requests -> Steps]
        /\ got' \in [Requests -> Nat]
        /\ before' \in [Requests -> SUBSET Requests]
    BY <1>1, CallTypes
  <2>1. SUFFICES /\ customers' \in [Ids -> Customer \cup {None}]
                 /\ lastId' \in Ids /\ \A i \in Existing' : i <= lastId'
                 /\ challenges' \in SUBSET Challenge
                 /\ lastRow' \in Nat
                 /\ \A c, d \in challenges' : c.id \in 1 .. lastRow' /\ (c.id = d.id => c = d)
                 /\ expired' \subseteq 1 .. lastRow'
    BY <2>0 DEF TypeOK
  <2>2. ~At(r, "idle") => call[r] \in Calls
    BY DEF TypeOK
  <2>3. CASE UNCHANGED store
    BY <2>3 DEF TypeOK, store, Existing
  <2>4. CASE Forget(r) \/ Consume(r)
    BY <2>4 DEF Forget, Consume, Others, TypeOK, Existing
  <2>5. CASE Store(r)
    <3>1. call[r].phone \in Phones /\ call[r].code \in Codes
      BY <2>2, <2>5, CallFields DEF Store, ControlInv, Fits, Proceed, At
    <3> DEFINE new == [id |-> lastRow + 1, phone |-> call[r].phone, code |-> call[r].code]
    <3>2. new \in Challenge /\ new.id = lastRow + 1 /\ lastRow \in Nat
      BY <3>1 DEF Challenge, TypeOK
    <3> HIDE DEF new
    <3>3. challenges' = challenges \cup {new} /\ lastRow' = lastRow + 1
      BY <2>5 DEF Store, new
    <3> QED BY <2>5, <3>2, <3>3 DEF Store, TypeOK, Existing
  <2>6. CASE Insert(r)
    <3>1. call[r].phone \in Phones /\ call[r].email \in Emails \cup {None}
      BY <2>2, <2>6, CallFields DEF Insert, ControlInv, Fits, Proceed, At
    <3> DEFINE new == [phone |-> call[r].phone, email |-> call[r].email, balance |-> None,
                       rows |-> 0, sum |-> 0]
    <3>2. new \in Customer
      BY <3>1 DEF Customer
    <3> HIDE DEF new
    <3>3. \/ UNCHANGED <<customers, lastId>>
          \/ /\ lastId < MaxCustomers /\ lastId' = lastId + 1
             /\ customers' = [customers EXCEPT ![lastId + 1] = new]
      BY <2>6 DEF Insert, new
    <3>4. lastId \in Nat /\ (lastId < MaxCustomers => lastId + 1 \in Ids)
      BY PointsAreNumbers DEF TypeOK, Ids
    <3>5. \A i \in Existing' : i \in Existing \/ i = lastId'
      BY <3>3, <3>4 DEF Existing, TypeOK
    <3>6. customers' \in [Ids -> Customer \cup {None}]
      BY <3>2, <3>3 DEF TypeOK
    <3>7. lastId' \in Ids /\ lastId <= lastId'
      BY <3>3, <3>4 DEF TypeOK
    <3>8. \A i \in Existing' : i <= lastId'
      <4>1. \A i \in Existing : i \in Nat /\ i <= lastId
        BY DEF TypeOK, Existing, Ids
      <4> QED BY <4>1, <3>4, <3>5, <3>7 DEF Ids
    <3> QED BY <2>6, <3>6, <3>7, <3>8 DEF Insert, TypeOK
  <2>7. CASE Update(r)
    <3>1. call[r].email \in Emails \cup {None}
      BY <2>2, <2>7, CallFields DEF Update, ControlInv, Fits, Proceed, At
    <3>2. \A i \in Existing : Emailing(customers[i], call[r].email) \in Customer
      BY <3>1, RowTypes DEF Existing, TypeOK
    <3> QED BY <2>7, <3>2 DEF Update, TypeOK, Existing
  <2>8. CASE Credit(r) \/ Ledger(r)
    <3>1. call[r].points \in Int
      BY <2>2, <2>8, CallFields DEF Credit, Ledger, ControlInv, Fits, Proceed, At
    <3>2. \A i \in Existing : /\ Credited(customers[i], call[r].points) \in Customer
                              /\ Booked(customers[i], call[r].points) \in Customer
      BY <3>1, RowTypes DEF Existing, TypeOK
    <3>3. CASE Credit(r)
      BY <3>3, <3>2 DEF Credit, TypeOK, Existing
    <3>4. CASE Ledger(r)
      BY <3>4, <3>2 DEF Ledger, TypeOK, Existing
    <3> QED BY <2>8, <3>3, <3>4
  <2>10. CASE Sale(r)
    <3>1. PICK k \in Calls :
             /\ k.kind = "sale"
             /\ \/ UNCHANGED customers
                \/ /\ k.id \in Existing
                   /\ customers' = [customers EXCEPT ![k.id] = Booked(Credited(@, k.points), k.points)]
      BY <2>10 DEF Sale, New, Asked
    <3>2. k.points \in Int
      BY <3>1, CallFields
    <3>3. \A i \in Existing : Booked(Credited(customers[i], k.points), k.points) \in Customer
      BY <3>2, RowTypes DEF Existing, TypeOK
    <3> QED BY <2>10, <3>1, <3>3 DEF Sale, TypeOK, Existing
  <2>9. CASE Delete(r)
    BY <2>9 DEF Delete, TypeOK, Existing
  <2> QED BY <1>1, <2>3, <2>4, <2>5, <2>6, <2>7, <2>8, <2>9, <2>10
          DEF Handle, Fail, SendOtp, Message, Compare, Find, Lookup, LookupFor, EmailCheck, FindCustomer, Cut
<1>2. CASE Expire
  BY <1>2 DEF Expire, calls, TypeOK, Existing, At
<1>3. CASE UNCHANGED vars
  BY <1>3 DEF vars, TypeOK, Existing, At
<1> QED BY <1>1, <1>2, <1>3 DEF Next, AllEnded

\* Calls come only to the statements of their kind.
LEMMA ControlKept == TypeOK /\ ControlInv /\ [Next]_vars => ControlInv'
<1> SUFFICES ASSUME TypeOK, ControlInv, [Next]_vars PROVE ControlInv'
  OBVIOUS
<1>1. ASSUME NEW r \in Requests, Handle(r) \/ Fail(r)
      PROVE  ControlInv'
  <2>1. \A q \in Requests \ {r} : Fits(q)'
    BY <1>1, OneMoves DEF ControlInv, Fits
  <2>2. Fits(r)'
    <3> USE DEF Fits, Goto, At
    <3>0. /\ Fits(r) /\ pc \in [Requests -> Steps]
          /\ call \in [Requests -> Calls \cup {None}]
          /\ ~At(r, "idle") => call[r] \in Calls
      BY DEF ControlInv, TypeOK
    <3>1. CASE SendOtp(r) \/ Compare(r) \/ FindCustomer(r) \/ Sale(r)
      BY <3>0, <3>1 DEF SendOtp, Compare, FindCustomer, Sale, New, Asked, Arrive, Ended
    <3>2. CASE Message(r) \/ Forget(r) \/ Store(r) \/ Consume(r) \/ Find(r)
      BY <3>0, <3>2 DEF Message, Forget, Store, Consume, Find, Proceed
    <3>3. CASE EmailCheck(r) \/ Insert(r) \/ Update(r)
      BY <3>0, <3>3 DEF EmailCheck, Insert, Update, Proceed
    <3>4. CASE Credit(r) \/ Ledger(r) \/ Cut(r) \/ Delete(r)
      BY <3>0, <3>4 DEF Credit, Ledger, Cut, Delete, Proceed
    <3>5. CASE Lookup(r)
      <4>1. ASSUME NEW k \in Calls, LookupFor(r, k), k.kind \in {"verify", "register", "upsert"}
            PROVE  \/ pc'[r] \in {"insert", "refused"}
                   \/ pc'[r] \in {"email", "update"} /\ k.kind \in {"register", "upsert"}
        BY <4>1, <3>0, CallFields DEF LookupFor
      <4>2. CASE Proceed(r, "lookup") /\ LookupFor(r, call[r])
        BY <4>1, <4>2, <3>0 DEF Proceed
      <4>3. CASE \E k \in New(r, Asked({"register", "upsert"})) : Arrive(r, k) /\ LookupFor(r, k)
        BY <4>1, <4>3, <3>0 DEF New, Asked, Arrive
      <4> QED BY <3>5, <4>2, <4>3 DEF Lookup
    <3>6. CASE Fail(r)
      BY <3>0, <3>6 DEF Fail, BreakOff
    <3> QED BY <1>1, <3>1, <3>2, <3>3, <3>4, <3>5, <3>6 DEF Handle
  <2> QED BY <2>1, <2>2 DEF ControlInv
<1>2. CASE Expire \/ UNCHANGED vars
  BY <1>2 DEF Expire, calls, vars, ControlInv, Fits
<1> QED BY <1>1, <1>2 DEF Next, AllEnded

\* Calls that have ended stay so.
LEMMA HistoryKept == TypeOK /\ HistoryInv /\ [Next]_vars => HistoryInv'
<1> SUFFICES ASSUME TypeOK, HistoryInv, [Next]_vars PROVE HistoryInv'
  OBVIOUS
<1>1. ASSUME NEW r \in Requests, Handle(r) \/ Fail(r)
      PROVE  HistoryInv'
  <2>1. \A q \in Requests : pc[q] \in Ended => pc'[q] = pc[q]
    BY <1>1, OneMoves
  <2>2. \A q \in Requests : before'[q] = before[q]
                            \/ (q = r /\ before'[q] = {s \in Requests : pc[s] \in Ended})
    <3>1. before'[r] = before[r] \/ before'[r] = {s \in Requests : pc[s] \in Ended}
      BY <1>1, OneMoves
    <3>2. \A q \in Requests \ {r} : before'[q] = before[q]
      BY <1>1, OneMoves
    <3> QED BY <3>1, <3>2
  <2>3. pc[r] \notin Ended /\ pc'[r] # "idle" /\ before \in [Requests -> SUBSET Requests]
    BY <1>1, OneMoves DEF TypeOK
  <2>4. \A q \in Requests \ {r} : pc'[q] = pc[q] /\ got'[q] = got[q] /\ before'[q] = before[q]
    BY <1>1, OneMoves
  <2>5. ASSUME NEW q \in Requests, NEW s \in before'[q]
        PROVE  pc'[s] \in Ended /\ s # q
    <3>1. s \in Requests /\ pc[s] \in Ended /\ s # q
      BY <2>2, <2>3, <2>5 DEF HistoryInv
    <3> QED BY <3>1, <2>1
  <2>6. ASSUME NEW q \in Requests, pc'[q] = "idle"
        PROVE  got'[q] = 0 /\ before'[q] = {}
    BY <2>3, <2>4, <2>6 DEF HistoryInv, At
  <2> QED BY <2>5, <2>6 DEF HistoryInv, At
<1>2. CASE Expire \/ UNCHANGED vars
  BY <1>2 DEF Expire, calls, vars, HistoryInv, At
<1> QED BY <1>1, <1>2 DEF Next, AllEnded

-----------------------------------------------------------------------------
\* How a step changes the stored codes: it leaves them alone, deletes those of a phone, or
\* stores a new one.
Deletes(r) ==
    /\ \/ At(r, "forget") /\ call[r].kind = "send"
       \/ At(r, "consume") /\ call[r].kind = "verify"
    /\ challenges' = Others(call[r].phone)
    /\ lastRow' = lastRow
    /\ ~At(r, "done")'

Stores(r) ==
    /\ At(r, "store") /\ call[r].kind = "send" /\ call'[r] = call[r]
    /\ pc'[r] = "done" /\ got'[r] = lastRow + 1 /\ lastRow' = lastRow + 1
    /\ challenges' = challenges \cup
         {[id |-> lastRow + 1, phone |-> call[r].phone, code |-> call[r].code]}

\* The stored codes change by a deletion or by a send that stores one.
LEMMA CodesMove ==
    ASSUME TypeOK, ControlInv, NEW r \in Requests, Handle(r) \/ Fail(r)
    PROVE  /\ expired' = expired
           /\ \/ challenges' = challenges /\ lastRow' = lastRow
              \/ Deletes(r)
              \/ Stores(r)
<1>1. CASE UNCHANGED store
  BY <1>1 DEF store
<1>2. CASE Forget(r) \/ Consume(r)
  <2>1. Fits(r) /\ pc \in [Requests -> Steps]
    BY DEF ControlInv, TypeOK
  <2>2. challenges' = Others(call[r].phone) /\ lastRow' = lastRow /\ expired' = expired
    BY <1>2 DEF Forget, Consume
  <2>3. pc'[r] \in {"store", "find"} /\ (At(r, "forget") \/ At(r, "consume"))
    BY <1>2, <2>1 DEF Forget, Consume, Proceed, At, Goto
  <2>4. ~At(r, "done")'
    BY <2>3 DEF At
  <2> QED BY <2>1, <2>2, <2>3, <2>4 DEF Deletes, Fits, At
<1>3. CASE Store(r)
  BY <1>3 DEF Store, Stores, Keep, Proceed, ControlInv, Fits, At, Goto, TypeOK
<1>4. CASE Insert(r) \/ Update(r) \/ Credit(r) \/ Ledger(r) \/ Sale(r) \/ Delete(r)
  BY <1>4 DEF Insert, Update, Credit, Ledger, Sale, Delete
<1> QED BY <1>1, <1>2, <1>3, <1>4
        DEF Handle, Fail, SendOtp, Message, Compare, Find, Lookup, LookupFor, EmailCheck, FindCustomer, Cut

\* A verification comes in by comparing its code ...
LEMMA VerifyArrives ==
    ASSUME TypeOK, NEW r \in Requests, Handle(r) \/ Fail(r),
           At(r, "idle"), call'[r].kind = "verify"
    PROVE  Compare(r)
<1> USE DEF At
<1>1. call \in [Requests -> Calls \cup {None}]
  BY DEF TypeOK
<1>2. ~Fail(r)
  BY DEF Fail, BreakOff
<1>3. ~SendOtp(r) /\ ~FindCustomer(r) /\ ~Sale(r)
  BY <1>1 DEF SendOtp, FindCustomer, Sale, New, Asked, Arrive
<1>4. ~Lookup(r)
  BY <1>1 DEF Lookup, New, Asked, Arrive, Proceed
<1> QED BY <1>2, <1>3, <1>4
        DEF Handle, Message, Forget, Store, Consume, Find, EmailCheck, Insert, Update, Credit,
            Ledger, Cut, Delete, Proceed

\* ... and goes on to delete the rows and to sign in or to register.
LEMMA VerifySteps ==
    ASSUME TypeOK, ControlInv, NEW r \in Requests, Handle(r) \/ Fail(r),
           ~At(r, "idle"), call[r].kind = "verify"
    PROVE  /\ got'[r] = got[r] /\ call'[r] = call[r] /\ before'[r] = before[r]
           /\ \/ Fail(r) /\ pc'[r] = "failed"
              \/ Consume(r) /\ pc[r] = "consume" /\ pc'[r] = "find"
              \/ Find(r) /\ pc[r] = "find"
              \/ Proceed(r, "lookup") /\ LookupFor(r, call[r])
              \/ Insert(r) /\ pc[r] = "insert"
<1> USE DEF At
<1>1. /\ call'[r] = call[r] /\ before'[r] = before[r] /\ Fits(r)
      /\ pc \in [Requests -> Steps]
  BY OneMoves DEF ControlInv, TypeOK
<1>2. ~SendOtp(r) /\ ~FindCustomer(r) /\ ~Sale(r) /\ ~Compare(r)
  BY DEF SendOtp, FindCustomer, Sale, Compare, New
<1>3. /\ ~Message(r) /\ ~Forget(r) /\ ~Store(r) /\ ~EmailCheck(r) /\ ~Update(r)
      /\ ~Credit(r) /\ ~Ledger(r) /\ ~Cut(r) /\ ~Delete(r)
  BY <1>1 DEF Message, Forget, Store, EmailCheck, Update, Credit, Ledger, Cut, Delete, Proceed, Fits
<1>4. CASE Lookup(r)
  <2>1. Proceed(r, "lookup") /\ LookupFor(r, call[r])
    BY <1>4 DEF Lookup, New
  <2> QED BY <1>1, <2>1 DEF LookupFor
<1>5. CASE Find(r) \/ Consume(r) \/ Insert(r) \/ Fail(r)
  BY <1>1, <1>5 DEF Find, Consume, Insert, Fail, BreakOff, Proceed, Goto, store
<1> QED BY <1>2, <1>3, <1>4, <1>5 DEF Handle

-----------------------------------------------------------------------------
\* Used codes stay used.
LEMMA CodeKept == TypeOK /\ ControlInv /\ HistoryInv /\ CodeInv /\ [Next]_vars => CodeInv'
<1> SUFFICES ASSUME TypeOK, ControlInv, HistoryInv, CodeInv, [Next]_vars PROVE CodeInv'
  OBVIOUS
<1> USE DEF At
<1>1. ASSUME NEW r \in Requests, Handle(r) \/ Fail(r), NEW v \in Requests, Kind(v, {"verify"})'
      PROVE  Holds(v)'
  <2>1. /\ lastRow \in Nat /\ lastRow' \in Nat /\ lastRow <= lastRow'
        /\ \A c \in challenges' : c \in challenges \/ c.id = lastRow + 1
        /\ \A c \in challenges : c.id \in 1 .. lastRow
    BY <1>1, CodesMove DEF TypeOK, Deletes, Stores, Others
  <2>2. pc'[v] # "idle" /\ call'[v].kind = "verify" /\ got \in [Requests -> Nat]
    BY <1>1 DEF Kind, TypeOK
  <2>3. CASE v # r
    <3>1. /\ pc'[v] = pc[v] /\ call'[v] = call[v] /\ got'[v] = got[v]
      BY <1>1, <2>3, OneMoves
    <3>2. Holds(v) /\ got[v] \in Nat
      BY <2>2, <3>1 DEF CodeInv, Kind
    <3> QED BY <2>1, <3>1, <3>2 DEF Holds
  <2>4. CASE v = r /\ pc[r] = "idle"
    <3>1. Compare(r)
      BY <1>1, <2>2, <2>4, VerifyArrives
    <3>2. PICK k \in New(r, Asked({"verify"})) :
             /\ Arrive(r, k)
             /\ \/ \E c \in Newest(k.phone) : Keep(r, c.id) /\ Goto(r, "consume")
                \/ Goto(r, "refused") /\ UNCHANGED got
             /\ UNCHANGED store
      BY <3>1 DEF Compare
    <3>3. call'[r] = k /\ challenges' = challenges /\ lastRow' = lastRow
      BY <3>2 DEF Arrive, store, TypeOK
    <3>4. CASE Goto(r, "refused") /\ UNCHANGED got
      <4>1. got'[r] = 0 /\ pc'[r] = "refused"
        BY <3>4, <2>4 DEF HistoryInv, Goto, TypeOK
      <4> QED BY <2>1, <2>4, <3>3, <4>1 DEF Holds
    <3>5. CASE \E c \in Newest(k.phone) : Keep(r, c.id) /\ Goto(r, "consume")
      <4>1. PICK c \in challenges : c.phone = k.phone /\ Keep(r, c.id) /\ Goto(r, "consume")
        BY <3>5 DEF Newest, Live
      <4>2. got'[r] = c.id /\ pc'[r] = "consume" /\ \A d \in challenges : d.id = c.id => d = c
        BY <4>1 DEF Keep, Goto, TypeOK
      <4> QED BY <2>1, <2>4, <3>3, <4>1, <4>2 DEF Holds, Used
    <3> QED BY <3>2, <3>4, <3>5
  <2>5. CASE v = r /\ pc[r] # "idle"
    <3>1. call'[r] = call[r]
      BY <1>1, <2>5, OneMoves
    <3>2. Holds(r) /\ got'[r] = got[r] /\ got[r] \in Nat
      BY <1>1, <2>2, <2>5, <3>1, VerifySteps DEF CodeInv, Kind
    <3>3. CASE pc'[r] = "failed"
      BY <2>1, <2>5, <3>1, <3>2, <3>3 DEF Holds, Used
    <3>4. CASE Consume(r) /\ pc[r] = "consume" /\ pc'[r] = "find"
      BY <2>1, <2>5, <3>1, <3>2, <3>4 DEF Holds, Consume, Others
    <3>5. CASE pc[r] \in {"find", "lookup", "insert"} /\ pc'[r] \in Used
                 /\ UNCHANGED <<challenges, lastRow>>
      BY <2>1, <2>5, <3>1, <3>2, <3>5 DEF Holds, Used
    <3>6. call[r].email = None
      BY <2>2, <2>5, <3>1, CallFields DEF TypeOK
    <3>7. CASE Find(r) \/ Insert(r)
      BY <3>5, <3>7 DEF Find, Insert, Proceed, Goto, Used, store, TypeOK
    <3>8. CASE Proceed(r, "lookup") /\ LookupFor(r, call[r])
      BY <3>5, <3>6, <3>8, <2>2, <2>5, <3>1 DEF LookupFor, Proceed, Goto, Used, store, TypeOK
    <3> QED BY <1>1, <2>2, <2>5, <3>1, <3>3, <3>4, <3>7, <3>8, VerifySteps
  <2> QED BY <2>3, <2>4, <2>5
<1>2. CASE Expire \/ UNCHANGED vars
  BY <1>2 DEF Expire, calls, vars, CodeInv, Holds, Kind
<1> QED BY <1>1, <1>2 DEF Next, AllEnded, CodeInv

\* Calls that come later read codes that are there.
LEMMA OnceKept ==
    TypeOK /\ ControlInv /\ HistoryInv /\ CodeInv /\ OnceInv /\ [Next]_vars => OnceInv'
<1> SUFFICES ASSUME TypeOK, ControlInv, HistoryInv, CodeInv, OnceInv, [Next]_vars PROVE OnceInv'
  OBVIOUS
<1> USE DEF At
<1>1. ASSUME NEW r \in Requests, Handle(r) \/ Fail(r),
             NEW w \in Requests, NEW v \in before'[w],
             Kind(v, {"verify"})', Kind(w, {"verify"})', At(v, "done")'
      PROVE  got'[v] # got'[w]
  <2>1. pc'[w] # "idle" /\ call'[w].kind = "verify" /\ call'[v].kind = "verify" /\ pc'[v] = "done"
    BY <1>1 DEF Kind
  <2>2. CASE w # r \/ pc[r] # "idle"
    <3>1. /\ v \in before[w] /\ v \in Requests /\ pc[v] \in Ended
          /\ pc[w] # "idle" /\ call'[w] = call[w]
      BY <1>1, <2>1, <2>2, OneMoves DEF HistoryInv, TypeOK
    <3>2. v # r /\ pc'[v] = pc[v] /\ call'[v] = call[v] /\ got'[v] = got[v]
      BY <1>1, <3>1, OneMoves
    <3>3. got'[w] = got[w]
      BY <1>1, <2>1, <2>2, <3>1, OneMoves, VerifySteps
    <3> QED BY <2>1, <3>1, <3>2, <3>3 DEF OnceInv, Kind, Ended
  <2>3. CASE w = r /\ pc[r] = "idle"
    <3>1. v \in Requests /\ pc[v] \in Ended /\ v # r
      BY <1>1, <2>3, OneMoves DEF Ended
    <3>2. pc'[v] = pc[v] /\ call'[v] = call[v] /\ got'[v] = got[v]
      BY <1>1, <3>1, OneMoves
    <3>3. Holds(v) /\ pc[v] = "done"
      BY <2>1, <3>1, <3>2 DEF CodeInv, Kind
    <3>4. Compare(r)
      BY <1>1, <2>1, <2>3, VerifyArrives
    <3>5. got'[r] = got[r] \/ \E c \in challenges : got'[r] = c.id
      BY <3>4 DEF Compare, Newest, Live, Keep, TypeOK
    <3> QED BY <2>3, <3>2, <3>3, <3>5 DEF Holds, Used, HistoryInv
  <2> QED BY <2>2, <2>3
<1>2. CASE Expire \/ UNCHANGED vars
  BY <1>2 DEF Expire, calls, vars, OnceInv, Kind
<1> QED BY <1>1, <1>2 DEF Next, AllEnded, OnceInv

-----------------------------------------------------------------------------
\* Who has registered a phone stays so.
LEMMA RegisteredStays ==
    ASSUME TypeOK, HistoryInv, NEW r \in Requests, Handle(r) \/ Fail(r),
           NEW v \in Requests, pc[v] # "idle", Registered(v)
    PROVE  Registered(v)'
<1> USE DEF At
<1>1. PICK w \in Requests : /\ Kind(w, {"verify", "register", "upsert"}) /\ SamePhone(w, v)
                            /\ pc[w] = "done" /\ NotBefore(w, v)
  BY DEF Registered
<1>2. pc'[w] = pc[w] /\ call'[w] = call[w]
  BY <1>1, OneMoves DEF Ended
<1>3. call'[v] = call[v] /\ before'[v] = before[v]
  BY OneMoves
<1> QED BY <1>1, <1>2, <1>3 DEF Registered, Kind, SamePhone, NotBefore

\* Only an insertion adds the account of a phone.
LEMMA PhonesMove ==
    ASSUME TypeOK, ControlInv, NEW r \in Requests, Handle(r) \/ Fail(r),
           NEW p, ByPhone(p) = {}, ByPhone(p)' # {}
    PROVE  /\ pc[r] = "insert" /\ pc'[r] = "done" /\ call[r].phone = p /\ call'[r] = call[r]
           /\ call[r].kind \in {"verify", "register", "upsert"}
<1> USE DEF At
<1>1. PICK i \in Ids : customers'[i] # None /\ customers'[i].phone = p
  BY DEF ByPhone, Existing
<1>2. customers[i] = None \/ customers[i].phone # p
  BY DEF ByPhone, Existing
<1>3. customers \in [Ids -> Customer \cup {None}]
  BY DEF TypeOK
<1>4. CASE Insert(r)
  <2>1. Fits(r) /\ pc \in [Requests -> Steps]
    BY DEF ControlInv, TypeOK
  <2>2. pc[r] = "insert" /\ UNCHANGED call
    BY <1>4 DEF Insert, Proceed
  <2> DEFINE new == [phone |-> call[r].phone, email |-> call[r].email, balance |-> None,
                     rows |-> 0, sum |-> 0]
  <2>3. UNCHANGED customers \/ (Goto(r, "done") /\ customers' = [customers EXCEPT ![lastId + 1] = new])
    BY <1>4 DEF Insert
  <2>4. new.phone = call[r].phone
    OBVIOUS
  <2> HIDE DEF new
  <2>5. Goto(r, "done") /\ call[r].phone = p
    BY <1>1, <1>2, <1>3, <2>3, <2>4
  <2> QED BY <2>1, <2>2, <2>5 DEF Fits, Goto
<1>5. \A row \in Customer : /\ \A e : Emailing(row, e).phone = row.phone
                            /\ \A n : Credited(row, n).phone = row.phone
                            /\ \A n : Booked(row, n).phone = row.phone
  BY DEF Customer, Emailing, Credited, Booked
<1>6. CASE Update(r)
  BY <1>1, <1>2, <1>3, <1>5, <1>6 DEF Update, Existing
<1>7. CASE Credit(r)
  BY <1>1, <1>2, <1>3, <1>5, <1>7 DEF Credit, Existing
<1>8. CASE Ledger(r)
  BY <1>1, <1>2, <1>3, <1>5, <1>8 DEF Ledger, Existing
<1>9. CASE Sale(r)
  <2>1. PICK k \in Calls : /\ k.kind = "sale"
          /\ \/ UNCHANGED customers
             \/ /\ k.id \in Existing
                /\ customers' = [customers EXCEPT ![k.id] = Booked(Credited(@, k.points), k.points)]
    BY <1>9 DEF Sale, New, Asked
  <2>2. k.points \in Int
    BY <2>1, CallFields
  <2>3. ASSUME NEW row \in Customer
        PROVE  Booked(Credited(row, k.points), k.points).phone = row.phone
    <3>1. Credited(row, k.points) \in Customer
      BY <2>2, RowTypes
    <3>2. Credited(row, k.points).phone = row.phone
      BY <1>5
    <3> QED BY <1>5, <3>1, <3>2
  <2> QED BY <1>1, <1>2, <1>3, <2>1, <2>3 DEF Existing
<1>10. CASE Delete(r)
  BY <1>1, <1>2, <1>3, <1>10 DEF Delete, Existing
<1>11. CASE UNCHANGED customers
  BY <1>1, <1>2, <1>11
<1> QED BY <1>4, <1>6, <1>7, <1>8, <1>9, <1>10, <1>11
        DEF Handle, Fail, store, SendOtp, Message, Forget, Store, Compare, Consume, Find, Lookup,
            LookupFor, EmailCheck, FindCustomer, Cut

\* A verification on its way to register keeps its name, and loses its phone only to a call
\* that overlaps it.
LEMMA RegisterKept ==
    TypeOK /\ ControlInv /\ HistoryInv /\ RegisterInv /\ [Next]_vars => RegisterInv'
<1> SUFFICES ASSUME TypeOK, ControlInv, HistoryInv, RegisterInv, [Next]_vars PROVE RegisterInv'
  OBVIOUS
<1> USE DEF At
<1>1. ASSUME NEW r \in Requests, Handle(r) \/ Fail(r),
             NEW v \in Requests, Kind(v, {"verify"})', pc'[v] \in {"lookup", "insert"}
      PROVE  MayRegister(v)'
  <2>1. pc'[v] # "idle" /\ call'[v].kind = "verify"
    BY <1>1 DEF Kind
  <2>2. pc[v] # "idle" /\ call'[v] = call[v] /\ before'[v] = before[v]
    <3>1. CASE v = r /\ pc[r] = "idle"
      <4>1. Compare(r)
        BY <1>1, <2>1, <3>1, VerifyArrives
      <4>2. pc'[r] \in {"consume", "refused"}
        BY <4>1 DEF Compare, Goto, TypeOK
      <4> QED BY <1>1, <3>1, <4>2
    <3>2. CASE v # r \/ pc[r] # "idle"
      BY <1>1, <2>1, <3>2, OneMoves
    <3> QED BY <3>1, <3>2
  <2>3. CASE v = r /\ Find(r)
    <3>1. pc'[r] = IF ByPhone(call[r].phone) # {} THEN "done"
                   ELSE IF call[r].named THEN "lookup" ELSE "refused"
      BY <2>3 DEF Find, Goto, TypeOK
    <3>2. ByPhone(call[r].phone) = {} /\ call[r].named /\ UNCHANGED customers
      BY <1>1, <2>3, <3>1 DEF Find, store
    <3> QED BY <2>2, <2>3, <3>2 DEF MayRegister, ByPhone, Existing
  <2>4. CASE ~(v = r /\ Find(r))
    <3>1. pc[v] \in {"lookup", "insert"}
      <4>1. CASE v # r
        BY <1>1, <4>1, OneMoves
      <4>2. CASE v = r
        <5>1. pc'[r] \in {"failed", "find"} \/ pc[r] \in {"lookup", "insert"}
          BY <1>1, <2>1, <2>2, <2>4, <4>2, VerifySteps DEF Proceed
        <5> QED BY <1>1, <4>2, <5>1
      <4> QED BY <4>1, <4>2
    <3>2. MayRegister(v)
      BY <2>1, <2>2, <3>1 DEF RegisterInv, Kind
    <3>3. CASE Registered(v)
      BY <1>1, <2>2, <3>2, <3>3, RegisteredStays DEF MayRegister
    <3>4. CASE ByPhone(call[v].phone) = {} /\ ByPhone(call[v].phone)' # {}
      <4>0. PICK p : p = call[v].phone
        OBVIOUS
      <4>3. ByPhone(p) = {} /\ ByPhone(p)' # {}
        BY <2>2, <3>4, <4>0 DEF ByPhone, Existing
      <4>1. /\ pc[r] = "insert" /\ pc'[r] = "done" /\ call[r].phone = call[v].phone
            /\ call'[r] = call[r] /\ call[r].kind \in {"verify", "register", "upsert"}
        BY <1>1, <4>0, <4>3, PhonesMove
      <4>2. r # v /\ r \notin before[v]
        BY <1>1, <4>1 DEF HistoryInv, Ended
      <4>4. Registered(v)'
        BY <2>2, <4>1, <4>2 DEF Registered, Kind, SamePhone, NotBefore
      <4> QED BY <2>2, <3>2, <4>4 DEF MayRegister
    <3>5. CASE ByPhone(call[v].phone)' = {}
      BY <2>2, <3>2, <3>5 DEF MayRegister, ByPhone, Existing
    <3> QED BY <3>2, <3>3, <3>4, <3>5 DEF MayRegister
  <2> QED BY <2>3, <2>4
<1>2. CASE Expire \/ UNCHANGED vars
  BY <1>2 DEF Expire, calls, vars, RegisterInv, MayRegister, Registered, Kind, SamePhone, NotBefore,
              ByPhone, Existing
<1> QED BY <1>1, <1>2 DEF Next, AllEnded, RegisterInv

\* A used code fails its owner only for want of a name or of the phone.
LEMMA ConsumedKept ==
    TypeOK /\ ControlInv /\ HistoryInv /\ CodeInv /\ RegisterInv /\ ConsumedCodesSignIn /\ [Next]_vars
      => ConsumedCodesSignIn'
<1> SUFFICES ASSUME TypeOK, ControlInv, HistoryInv, CodeInv, RegisterInv, ConsumedCodesSignIn, [Next]_vars
             PROVE  ConsumedCodesSignIn'
  OBVIOUS
<1> USE DEF At
<1>1. ASSUME NEW r \in Requests, Handle(r) \/ Fail(r),
             NEW v \in Requests, Kind(v, {"verify"})', pc'[v] = "refused", got'[v] # 0
      PROVE  ~call'[v].named \/ Registered(v)'
  <2>1. call'[v].kind = "verify"
    BY <1>1 DEF Kind
  <2>2. CASE v # r
    <3>1. pc'[v] = pc[v] /\ call'[v] = call[v] /\ got'[v] = got[v] /\ before'[v] = before[v]
      BY <1>1, <2>2, OneMoves
    <3>2. ~call[v].named \/ Registered(v)
      BY <1>1, <2>1, <3>1 DEF ConsumedCodesSignIn, Registered, Kind
    <3> QED BY <1>1, <3>1, <3>2, RegisteredStays
  <2>3. CASE v = r /\ pc[r] = "idle"
    <3>1. Compare(r)
      BY <1>1, <2>1, <2>3, VerifyArrives
    <3>2. got'[r] = got[r] /\ got[r] = 0
      BY <1>1, <2>3, <3>1 DEF Compare, Goto, TypeOK, HistoryInv
    <3> QED BY <1>1, <2>3, <3>2
  <2>4. CASE v = r /\ pc[r] # "idle"
    <3>1. call'[r] = call[r] /\ before'[r] = before[r] /\ call[r].email = None /\ pc[r] \notin Ended
      BY <1>1, <2>1, <2>4, OneMoves, CallFields DEF TypeOK
    <3>2. CASE Find(r)
      BY <1>1, <2>4, <3>1, <3>2 DEF Find, Goto, TypeOK
    <3>3. CASE Proceed(r, "lookup") /\ LookupFor(r, call[r])
      <4>1. ByPhone(call[r].phone) # {}
        BY <1>1, <2>4, <3>1, <3>3 DEF LookupFor, Goto, TypeOK
      <4>2. Registered(r)
        BY <2>1, <2>4, <3>1, <3>3, <4>1 DEF RegisterInv, MayRegister, Kind, Proceed
      <4> QED BY <1>1, <2>4, <4>2, RegisteredStays
    <3>4. CASE Insert(r) /\ pc[r] = "insert"
      <4>1. ByPhone(call[r].phone) # {}
        BY <1>1, <2>4, <3>1, <3>4 DEF Insert, Emailed, Goto, TypeOK
      <4>2. Registered(r)
        BY <2>1, <2>4, <3>1, <3>4, <4>1 DEF RegisterInv, MayRegister, Kind
      <4> QED BY <1>1, <2>4, <4>2, RegisteredStays
    <3> QED BY <1>1, <2>1, <2>4, <3>1, <3>2, <3>3, <3>4, VerifySteps
  <2> QED BY <2>2, <2>3, <2>4
<1>2. CASE Expire \/ UNCHANGED vars
  BY <1>2 DEF Expire, calls, vars, ConsumedCodesSignIn, Kind, SamePhone, NotBefore
<1> QED BY <1>1, <1>2 DEF Next, AllEnded, ConsumedCodesSignIn, Registered

-----------------------------------------------------------------------------
\* What has spoilt the code of a send does so for good.
LEMMA SpoiltStays ==
    ASSUME TypeOK, ControlInv, NEW r \in Requests, Handle(r) \/ Fail(r),
           NEW s \in Requests, pc[s] # "idle", s # r, Spoilt(s)
    PROVE  Spoilt(s)'
<1> USE DEF At
<1>1. call'[s] = call[s] /\ before'[s] = before[s] /\ got'[s] = got[s] /\ expired' = expired
  BY OneMoves, CodesMove
<1>2. ASSUME NEW w \in Requests, Kind(w, {"verify"}), SamePhone(w, s), NotBefore(w, s), got[w] # 0
      PROVE  Kind(w, {"verify"})' /\ SamePhone(w, s)' /\ NotBefore(w, s)' /\ got'[w] # 0
  <2>1. pc[w] # "idle" /\ call[w].kind = "verify"
    BY <1>2 DEF Kind
  <2>2. pc'[w] # "idle" /\ call'[w] = call[w]
    BY <2>1, OneMoves
  <2>3. got'[w] = got[w]
    BY <2>1, OneMoves, VerifySteps
  <2> QED BY <1>1, <1>2, <2>1, <2>2, <2>3 DEF Kind, SamePhone, NotBefore
<1>3. ASSUME NEW t \in Requests, Kind(t, {"send"}), SamePhone(t, s), NotBefore(t, s)
      PROVE  Kind(t, {"send"})' /\ SamePhone(t, s)' /\ NotBefore(t, s)'
  <2>1. pc'[t] # "idle" /\ call'[t] = call[t]
    BY <1>3, OneMoves DEF Kind
  <2> QED BY <1>1, <1>3, <2>1 DEF Kind, SamePhone, NotBefore
<1> QED BY <1>1, <1>2, <1>3 DEF Spoilt

\* A send comes in by its look-up ...
LEMMA SendArrives ==
    ASSUME TypeOK, NEW r \in Requests, Handle(r) \/ Fail(r), At(r, "idle"),
           call'[r].kind = "send"
    PROVE  pc'[r] = "message"
<1> USE DEF At
<1>1. call \in [Requests -> Calls \cup {None}] /\ pc \in [Requests -> Steps]
  BY DEF TypeOK
<1>2. ~Compare(r) /\ ~FindCustomer(r) /\ ~Sale(r)
  BY <1>1 DEF Compare, FindCustomer, Sale, New, Asked, Arrive
<1>3. ~Lookup(r)
  BY <1>1 DEF Lookup, New, Asked, Arrive, Proceed
<1>4. SendOtp(r)
  BY <1>2, <1>3 DEF Handle, Fail, BreakOff, Message, Forget, Store, Consume, Find, EmailCheck, Insert,
                    Update, Credit, Ledger, Cut, Delete, Proceed
<1> QED BY <1>1, <1>4 DEF SendOtp, Goto

\* ... and ends well by storing the code.
LEMMA SendSteps ==
    ASSUME TypeOK, ControlInv, NEW r \in Requests, Handle(r) \/ Fail(r),
           call[r].kind = "send", ~At(r, "idle"), pc'[r] = "done"
    PROVE  Store(r)
<1> USE DEF At
<1>1. Fits(r) /\ pc \in [Requests -> Steps]
  BY DEF ControlInv, TypeOK
<1>2. ~SendOtp(r) /\ ~Compare(r) /\ ~FindCustomer(r) /\ ~Sale(r)
  BY DEF SendOtp, Compare, FindCustomer, Sale, New
<1>3. /\ ~Consume(r) /\ ~Find(r) /\ ~EmailCheck(r) /\ ~Insert(r) /\ ~Update(r)
      /\ ~Credit(r) /\ ~Ledger(r) /\ ~Cut(r) /\ ~Delete(r) /\ ~Lookup(r)
  BY <1>1 DEF Consume, Find, EmailCheck, Insert, Update, Credit, Ledger, Cut, Delete, Proceed, Fits,
              Lookup, New
<1>4. ~Message(r) /\ ~Forget(r) /\ ~Fail(r)
  BY <1>1 DEF Message, Forget, Fail, BreakOff, Goto
<1> QED BY <1>2, <1>3, <1>4 DEF Handle

\* The code of a send is stored until something spoils it.
LEMMA SentKept ==
    TypeOK /\ ControlInv /\ HistoryInv /\ CodeInv /\ SentInv /\ [Next]_vars => SentInv'
<1> SUFFICES ASSUME TypeOK, ControlInv, HistoryInv, CodeInv, SentInv, [Next]_vars PROVE SentInv'
  OBVIOUS
<1> USE DEF At
<1>1. ASSUME NEW r \in Requests, Handle(r) \/ Fail(r),
             NEW s \in Requests, Kind(s, {"send"})', pc'[s] = "done"
      PROVE  Newly(s)' \/ Spoilt(s)'
  <2>0. call'[s].kind = "send"
    BY <1>1 DEF Kind
  <2>1. \A c \in challenges : c.id \in 1 .. lastRow
    BY DEF TypeOK
  <2>2. CASE s # r
    <3>1. /\ pc[s] = "done" /\ call'[s] = call[s] /\ got'[s] = got[s] /\ before'[s] = before[s]
      BY <1>1, <2>2, OneMoves
    <3>2. Newly(s) \/ Spoilt(s)
      BY <2>0, <3>1 DEF SentInv, Kind
    <3>3. CASE Spoilt(s)
      BY <1>1, <2>2, <3>1, <3>3, SpoiltStays
    <3>4. CASE Newly(s) /\ UNCHANGED challenges
      BY <3>1, <3>4 DEF Newly
    <3>5. CASE Newly(s) /\ Deletes(r) /\ call[r].phone # call[s].phone
      BY <3>1, <3>5 DEF Newly, Deletes, Others
    <3>6. CASE Newly(s) /\ Stores(r) /\ call[r].phone # call[s].phone
      BY <3>1, <3>6 DEF Newly, Stores
    <3>7. CASE (Deletes(r) \/ Stores(r)) /\ call[r].phone = call[s].phone
      <4>1. /\ pc[r] \notin Ended \cup {"idle"} /\ call'[r] = call[r]
            /\ pc'[r] # "idle" /\ r \notin before[s]
        BY <1>1, <3>7, OneMoves DEF Deletes, Stores, Ended, HistoryInv
      <4>2. CASE call[r].kind = "send"
        BY <2>2, <3>1, <3>7, <4>1, <4>2 DEF Spoilt, Kind, SamePhone, NotBefore
      <4>3. CASE pc[r] = "consume" /\ call[r].kind = "verify"
        <5>1. got'[r] = got[r] /\ got[r] # 0
          BY <1>1, <4>1, <4>3, VerifySteps DEF CodeInv, Holds, Kind
        <5> QED BY <2>2, <3>1, <3>7, <4>1, <4>3, <5>1 DEF Spoilt, Kind, SamePhone, NotBefore
      <4> QED BY <3>7, <4>2, <4>3 DEF Deletes, Stores
    <3> QED BY <1>1, <3>2, <3>3, <3>4, <3>5, <3>6, <3>7, CodesMove
  <2>3. CASE s = r
    <3>1. pc[r] # "idle"
      BY <1>1, <2>0, <2>3, SendArrives
    <3>3. call'[r] = call[r] /\ Fits(r) /\ pc \in [Requests -> Steps]
      BY <1>1, <3>1, OneMoves DEF ControlInv, TypeOK
    <3>4. Store(r)
      BY <1>1, <2>0, <2>3, <3>1, <3>3, SendSteps
    <3>2. Stores(r)
      BY <1>1, <3>3, <3>4 DEF Store, Stores, Keep, Goto, Proceed, Fits, TypeOK
    <3>5. \A d \in challenges : d.id <= lastRow
      BY <2>1 DEF TypeOK
    <3> DEFINE new == [id |-> lastRow + 1, phone |-> call[r].phone, code |-> call[r].code]
    <3>6. new.id = lastRow + 1 /\ new.phone = call[r].phone /\ new.code = call[r].code
      OBVIOUS
    <3>7. challenges' = challenges \cup {new} /\ got'[r] = lastRow + 1 /\ call'[r] = call[r]
      BY <3>2 DEF Stores
    <3> HIDE DEF new
    <3>8. lastRow \in Nat /\ \A d \in challenges : d.id \in Nat
      BY <2>1 DEF TypeOK
    <3> QED BY <2>3, <3>5, <3>6, <3>7, <3>8 DEF Newly
  <2> QED BY <2>2, <2>3
<1>2. CASE UNCHANGED vars
  BY <1>2 DEF vars, SentInv, Newly, Spoilt, Kind, SamePhone, NotBefore
<1>3. CASE Expire
  <2>1. \A s \in Requests : Spoilt(s) => Spoilt(s)'
    BY <1>3 DEF Expire, calls, Spoilt, Kind, SamePhone, NotBefore
  <2>2. \A s \in Requests : Newly(s) => Newly(s)'
    BY <1>3 DEF Expire, calls, Newly
  <2> QED BY <1>3, <2>1, <2>2 DEF Expire, calls, SentInv, Kind
<1> QED BY <1>1, <1>2, <1>3 DEF Next, AllEnded, SentInv

\* The code of a finished send is turned away only once something has spoilt it.
LEMMA HonouredKept ==
    TypeOK /\ ControlInv /\ HistoryInv /\ CodeInv /\ SentInv /\ CodesAreHonoured /\ [Next]_vars
      => CodesAreHonoured'
<1> SUFFICES ASSUME TypeOK, ControlInv, HistoryInv, CodeInv, SentInv, CodesAreHonoured, [Next]_vars
             PROVE  CodesAreHonoured'
  OBVIOUS
<1> USE DEF At
<1>1. ASSUME NEW r \in Requests, Handle(r) \/ Fail(r),
             NEW s \in Requests, NEW v \in Requests,
             Kind(s, {"send"})', pc'[s] = "done", Kind(v, {"verify"})', pc'[v] = "refused",
             got'[v] = 0, SamePhone(s, v)', call'[s].code = call'[v].code, s \in before'[v]
      PROVE  Spoilt(s)'
  <2>0. call'[s].kind = "send" /\ call'[v].kind = "verify"
    BY <1>1 DEF Kind
  <2>1. pc[s] \in Ended /\ s # v
    <3>1. CASE v = r /\ pc[r] = "idle"
      BY <1>1, <3>1, OneMoves DEF Ended
    <3>2. CASE v # r \/ pc[r] # "idle"
      BY <1>1, <3>2, OneMoves DEF HistoryInv
    <3> QED BY <3>1, <3>2
  <2>2. /\ s # r /\ pc[s] = "done" /\ call'[s] = call[s] /\ got'[s] = got[s]
        /\ Kind(s, {"send"})
    BY <1>1, <2>0, <2>1, OneMoves DEF Kind
  <2>3. CASE Spoilt(s)
    BY <1>1, <2>2, <2>3, SpoiltStays
  <2>4. CASE v # r
    <3>1. pc'[v] = pc[v] /\ call'[v] = call[v] /\ got'[v] = got[v] /\ before'[v] = before[v]
      BY <1>1, <2>4, OneMoves
    <3>2. /\ Kind(s, {"send"}) /\ At(s, "done") /\ Kind(v, {"verify"}) /\ At(v, "refused")
          /\ got[v] = 0 /\ SamePhone(s, v) /\ call[s].code = call[v].code /\ s \in before[v]
      BY <1>1, <2>0, <2>2, <3>1 DEF Kind, SamePhone
    <3>3. Spoilt(s)
      BY <3>2 DEF CodesAreHonoured, Spoilt
    <3> QED BY <2>3, <3>3
  <2>5. CASE v = r /\ pc[r] = "idle" /\ Newly(s) /\ got[s] \notin expired
    <3>1. PICK k \in New(r, Asked({"verify"})) :
             /\ Arrive(r, k)
             /\ \/ \E c \in challenges : Keep(r, c.id) /\ Goto(r, "consume")
                \/ {c \in Newest(k.phone) : c.code = k.code} = {}
      BY <1>1, <2>0, <2>5, VerifyArrives DEF Compare, Newest, Live
    <3>2. call'[r] = k
      BY <3>1 DEF Arrive, TypeOK
    <3>3. PICK c \in challenges : c.id = got[s] /\ c.phone = call[s].phone /\ c.code = call[s].code
      BY <2>5 DEF Newly
    <3>4. c \in Newest(k.phone) /\ c.code = k.code
      BY <1>1, <2>2, <2>5, <3>2, <3>3 DEF Newest, Live, Newly, SamePhone
    <3>5. \E d \in challenges : Keep(r, d.id) /\ Goto(r, "consume")
      BY <3>1, <3>4
    <3> QED BY <1>1, <2>5, <3>5 DEF Goto, TypeOK
  <2>6. CASE v = r /\ pc[r] # "idle"
    <3>1. call'[r] = call[r] /\ pc[r] \notin Ended
      BY <1>1, <2>6, OneMoves
    <3>2. Holds(r) /\ got[r] = 0
      BY <1>1, <2>0, <2>6, <3>1, VerifySteps DEF CodeInv, Kind
    <3>3. pc'[r] = "failed"
      BY <1>1, <2>0, <2>6, <3>1, <3>2, VerifySteps DEF Holds, Proceed
    <3> QED BY <1>1, <2>6, <3>3
  <2>7. Newly(s) \/ Spoilt(s)
    BY <2>2 DEF SentInv
  <2> QED BY <2>3, <2>4, <2>5, <2>6, <2>7 DEF Spoilt
<1>2. \A s, v \in Requests : Spoilt(s) /\ got[v] = 0 =>
         \/ got[s] \in expired
         \/ \E w \in Requests \ {v} : /\ Kind(w, {"verify"}) /\ SamePhone(w, s)
                                      /\ NotBefore(w, s) /\ got[w] # 0
         \/ \E t \in Requests : Kind(t, {"send"}) /\ SamePhone(t, s) /\ NotBefore(t, s)
  BY DEF Spoilt
<1>3. (\A s, v \in Requests : Spoilt(s) /\ got[v] = 0 =>
         \/ got[s] \in expired
         \/ \E w \in Requests \ {v} : /\ Kind(w, {"verify"}) /\ SamePhone(w, s)
                                      /\ NotBefore(w, s) /\ got[w] # 0
         \/ \E t \in Requests : Kind(t, {"send"}) /\ SamePhone(t, s) /\ NotBefore(t, s))'
  BY DEF Spoilt
<1>4. CASE \E r \in Requests : Handle(r) \/ Fail(r)
  BY <1>1, <1>3, <1>4 DEF CodesAreHonoured
<1>5. CASE Expire \/ UNCHANGED vars
  BY <1>5 DEF Expire, calls, vars, CodesAreHonoured, Kind, SamePhone, NotBefore
<1> QED BY <1>4, <1>5 DEF Next, AllEnded

-----------------------------------------------------------------------------
(* Sums over finite sets.                                                   *)

\* A nonempty set of numbers has a least one.
LEMMA LeastNumber ==
    ASSUME NEW T \in SUBSET Nat, T # {}
    PROVE  \E n \in T : \A m \in T : n <= m
<1>0. IsWellFoundedOn({ss \in Nat \X Nat : ss[1] < ss[2]}, Nat)
  BY ONLY NatLessThanWellFounded DEF OpToRel
<1>1. PICK n \in T : \A m \in T : ~(<<m, n>> \in {ss \in Nat \X Nat : ss[1] < ss[2]})
  BY <1>0, WFMin
<1>2. \A m \in T : m \in Nat /\ n \in Nat /\ ~(m < n)
  BY <1>1
<1> QED
  BY <1>2

\* A nonempty set of subsets of a finite set has a minimal one.
LEMMA MinimalSet ==
    ASSUME NEW S, IsFiniteSet(S), NEW T \in SUBSET (SUBSET S), T # {}
    PROVE  \E s \in T : \A t \in T : t \subseteq s => t = s
<1>1. T \subseteq FiniteSubsetsOf(S)
  BY FS_Subset DEF FiniteSubsetsOf
<1>2. PICK s \in T : \A t \in T : ~(<<t, s>> \in StrictSubsetOrdering(S))
  BY <1>1, FS_StrictSubsetOrderingWellFounded, WFMin
<1> QED
  BY <1>2 DEF StrictSubsetOrdering

\* c picks an element of every nonempty part of S; g adds up v over the parts of S, an
\* element that c picks at a time, which is how MapThenSumSet goes about it.
Picks(c, S) == c \in [SUBSET S -> S \cup {0}] /\ \A s \in SUBSET S : s # {} => c[s] \in s

Adds(g, v, c, S) ==
    g = [s \in SUBSET S |-> IF s = {} THEN 0 ELSE v[c[s]] + g[s \ {c[s]}]]

Small(S, n) == {s \in SUBSET S : Cardinality(s) <= n}

\* A sum over the parts of S with up to n elements, and a proper function of them.
AddsSmall(g, v, c, S, n) ==
    /\ g \in [Small(S, n) -> Int]
    /\ \A s \in Small(S, n) : g[s] = IF s = {} THEN 0 ELSE v[c[s]] + g[s \ {c[s]}]

\* Removing an element.
LEMMA OneLess ==
    ASSUME NEW S, IsFiniteSet(S), NEW s \in SUBSET S, NEW x \in s
    PROVE  /\ s \ {x} \in SUBSET S
           /\ IsFiniteSet(s) /\ Cardinality(s) \in Nat
           /\ Cardinality(s \ {x}) = Cardinality(s) - 1
<1>1. IsFiniteSet(s)
  BY FS_Subset
<1> QED
  BY <1>1, FS_RemoveElement, FS_CardinalityType

\* There is a sum over the small parts of a set, taken in the order of c.
LEMMA SmallSums ==
    ASSUME NEW S, IsFiniteSet(S), NEW v \in [S -> Int], NEW c, Picks(c, S)
    PROVE  \A n \in Nat : \E g : AddsSmall(g, v, c, S, n)
<1> DEFINE Fails == {n \in Nat : ~\E g : AddsSmall(g, v, c, S, n)}
<1> SUFFICES ASSUME Fails # {} PROVE FALSE
  OBVIOUS
<1>1. PICK n \in Fails : \A m \in Fails : n <= m
  <2>1. Fails \in SUBSET Nat
    OBVIOUS
  <2> HIDE DEF Fails
  <2> QED
    BY <2>1, LeastNumber
<1>2. n \in Nat /\ ~\E g : AddsSmall(g, v, c, S, n)
  OBVIOUS
<1>e. {} \in SUBSET S /\ Cardinality({}) = 0
  BY FS_EmptySet
<1>k. \A s \in SUBSET S : IsFiniteSet(s) /\ Cardinality(s) \in Nat /\ (Cardinality(s) = 0 <=> s = {})
  BY FS_Subset, FS_CardinalityType, FS_EmptySet
<1>3. CASE n = 0
  <2> DEFINE g == [s \in Small(S, 0) |-> 0]
  <2>1. Small(S, 0) = {{}}
    BY <1>e, <1>k DEF Small
  <2>2. AddsSmall(g, v, c, S, 0)
    BY <2>1 DEF AddsSmall
  <2> QED
    BY <1>2, <1>3, <2>2
<1>4. CASE n > 0
  <2>1. n - 1 \in Nat /\ n - 1 \notin Fails
    BY <1>1, <1>2, <1>4
  <2>2. PICK h : AddsSmall(h, v, c, S, n - 1)
    BY <2>1
  <2> HIDE DEF Fails
  <2> DEFINE g == [s \in Small(S, n) |->
                     IF s \in Small(S, n - 1) THEN h[s] ELSE v[c[s]] + h[s \ {c[s]}]]
  <2>3. \A s \in Small(S, n) \ {{}} : /\ s \in SUBSET S /\ c[s] \in s /\ c[s] \in S
                                      /\ s \ {c[s]} \in Small(S, n - 1)
    <3> SUFFICES ASSUME NEW s \in Small(S, n) \ {{}}
                 PROVE  /\ s \in SUBSET S /\ c[s] \in s /\ c[s] \in S
                        /\ s \ {c[s]} \in Small(S, n - 1)
      OBVIOUS
    <3>1. s \in SUBSET S /\ c[s] \in s /\ c[s] \in S /\ Cardinality(s) <= n
      BY DEF Small, Picks
    <3>2. s \ {c[s]} \in SUBSET S /\ Cardinality(s \ {c[s]}) = Cardinality(s) - 1 /\ Cardinality(s) \in Nat
      BY <3>1, OneLess
    <3> QED
      BY <3>1, <3>2, <1>2 DEF Small
  <2>4. {} \in Small(S, n - 1) /\ Small(S, n - 1) \subseteq Small(S, n)
    BY <1>e, <1>k, <1>2, <2>1 DEF Small
  <2>5. /\ h \in [Small(S, n - 1) -> Int]
        /\ \A s \in Small(S, n - 1) : h[s] = IF s = {} THEN 0 ELSE v[c[s]] + h[s \ {c[s]}]
    BY <2>2 DEF AddsSmall
  <2>6. g \in [Small(S, n) -> Int]
    <3> SUFFICES ASSUME NEW s \in Small(S, n) PROVE g[s] \in Int
      OBVIOUS
    <3>1. CASE s \in Small(S, n - 1)
      BY <3>1, <2>5
    <3>2. CASE s \notin Small(S, n - 1)
      <4>1. c[s] \in S /\ s \ {c[s]} \in Small(S, n - 1)
        BY <3>2, <2>3, <2>4
      <4>2. v[c[s]] \in Int /\ h[s \ {c[s]}] \in Int
        BY <4>1, <2>5
      <4> QED
        BY <3>2, <4>2
    <3> QED
      BY <3>1, <3>2
  <2>7. \A s \in Small(S, n) : g[s] = IF s = {} THEN 0 ELSE v[c[s]] + g[s \ {c[s]}]
    <3> SUFFICES ASSUME NEW s \in Small(S, n)
                 PROVE  g[s] = IF s = {} THEN 0 ELSE v[c[s]] + g[s \ {c[s]}]
      OBVIOUS
    <3>0. \A t \in Small(S, n - 1) : g[t] = h[t]
      BY <2>4
    <3>1. CASE s = {}
      BY <3>0, <3>1, <2>4, <2>5
    <3>2. CASE s # {}
      <4>1. s \ {c[s]} \in Small(S, n - 1)
        BY <3>2, <2>3
      <4>2. g[s \ {c[s]}] = h[s \ {c[s]}]
        BY <4>1, <3>0
      <4>3. g[s] = v[c[s]] + h[s \ {c[s]}]
        <5>1. CASE s \in Small(S, n - 1)
          BY <5>1, <3>0, <3>2, <2>5
        <5>2. CASE s \notin Small(S, n - 1)
          BY <5>2
        <5> QED
          BY <5>1, <5>2
      <4> QED
        BY <3>2, <4>2, <4>3
    <3> QED
      BY <3>1, <3>2
  <2> QED
    BY <1>2, <2>6, <2>7 DEF AddsSmall
<1> QED
  BY <1>2, <1>3, <1>4

\* So there is one over all its parts.
LEMMA SumExists ==
    ASSUME NEW S, IsFiniteSet(S), NEW v \in [S -> Int], NEW c, Picks(c, S)
    PROVE  \E g \in [SUBSET S -> Int] : Adds(g, v, c, S)
<1>1. Cardinality(S) \in Nat /\ \A s \in SUBSET S : Cardinality(s) <= Cardinality(S)
  BY FS_Subset, FS_CardinalityType
<1>2. PICK g : AddsSmall(g, v, c, S, Cardinality(S))
  BY <1>1, SmallSums
<1>3. Small(S, Cardinality(S)) = SUBSET S
  BY <1>1 DEF Small
<1>4. g = [s \in SUBSET S |-> IF s = {} THEN 0 ELSE v[c[s]] + g[s \ {c[s]}]]
  BY <1>2, <1>3 DEF AddsSmall
<1>5. g \in [SUBSET S -> Int]
  BY <1>2, <1>3 DEF AddsSmall
<1> QED
  BY <1>4, <1>5 DEF Adds

\* The values of a sum are numbers.
LEMMA SumType ==
    ASSUME NEW S, IsFiniteSet(S), NEW v \in [S -> Int], NEW c, Picks(c, S),
           NEW g, Adds(g, v, c, S)
    PROVE  g \in [SUBSET S -> Int]
<1> DEFINE Bad == {s \in SUBSET S : g[s] \notin Int}
<1>0. g = [s \in SUBSET S |-> IF s = {} THEN 0 ELSE v[c[s]] + g[s \ {c[s]}]]
  BY DEF Adds
<1>1. ASSUME Bad # {} PROVE FALSE
  <2>1. PICK s \in Bad : \A t \in Bad : t \subseteq s => t = s
    <3> Bad \in SUBSET (SUBSET S)
      OBVIOUS
    <3> HIDE DEF Bad
    <3> QED
      BY <1>1, MinimalSet
  <2>2. s \in SUBSET S /\ g[s] \notin Int
    OBVIOUS
  <2>3. s # {}
    BY <1>0, <2>2
  <2>4. c[s] \in s /\ c[s] \in S
    BY <2>2, <2>3 DEF Picks
  <2>5. s \ {c[s]} \in SUBSET S /\ s \ {c[s]} \subseteq s /\ s \ {c[s]} # s
    BY <2>4
  <2>6. g[s \ {c[s]}] \in Int
    BY <2>1, <2>5
  <2>7. v[c[s]] \in Int
    BY <2>4
  <2>8. g[s] = v[c[s]] + g[s \ {c[s]}]
    BY <1>0, <2>2, <2>3
  <2> QED
    BY <2>2, <2>6, <2>7, <2>8
<1>2. \A s \in SUBSET S : g[s] \in Int
  BY <1>1
<1>3. g = [s \in SUBSET S |-> g[s]]
  BY <1>0
<1> QED
  BY <1>2, <1>3

\* Any element may be taken off first.
LEMMA SumStep ==
    ASSUME NEW S, IsFiniteSet(S), NEW v \in [S -> Int], NEW c, Picks(c, S),
           NEW g, Adds(g, v, c, S)
    PROVE  \A s \in SUBSET S : \A x \in s : g[s] = v[x] + g[s \ {x}]
<1> DEFINE Bad == {s \in SUBSET S : \E x \in s : g[s] # v[x] + g[s \ {x}]}
<1>0. /\ g \in [SUBSET S -> Int]
      /\ \A s \in SUBSET S : s # {} => g[s] = v[c[s]] + g[s \ {c[s]}]
  <2>1. g \in [SUBSET S -> Int]
    BY SumType
  <2>2. \A s \in SUBSET S : s # {} => g[s] = v[c[s]] + g[s \ {c[s]}]
    BY DEF Adds
  <2> QED
    BY <2>1, <2>2
<1>1. ASSUME Bad # {} PROVE FALSE
  <2>1. PICK s \in Bad : \A t \in Bad : t \subseteq s => t = s
    <3> Bad \in SUBSET (SUBSET S)
      OBVIOUS
    <3> HIDE DEF Bad
    <3> QED
      BY <1>1, MinimalSet
  <2>2. PICK x \in s : g[s] # v[x] + g[s \ {x}]
    OBVIOUS
  <2>3. s \in SUBSET S /\ s # {}
    OBVIOUS
  <2> DEFINE k == c[s]
  <2>4. k \in s /\ k \in S /\ x \in S
    BY <2>3 DEF Picks
  <2>5. g[s] = v[k] + g[s \ {k}]
    BY <1>0, <2>3
  <2> HIDE DEF k
  <2>6. x # k
    BY <2>2, <2>5
  <2>7. g[s \ {k}] = v[x] + g[(s \ {k}) \ {x}]
    <3>1. s \ {k} \in SUBSET S /\ s \ {k} \subseteq s /\ s \ {k} # s /\ x \in s \ {k}
      BY <2>3, <2>4, <2>6
    <3>2. s \ {k} \notin Bad
      BY <3>1, <2>1
    <3> QED
      BY <3>1, <3>2
  <2>8. g[s \ {x}] = v[k] + g[(s \ {x}) \ {k}]
    <3>1. s \ {x} \in SUBSET S /\ s \ {x} \subseteq s /\ s \ {x} # s /\ k \in s \ {x}
      BY <2>3, <2>4, <2>6
    <3>2. s \ {x} \notin Bad
      BY <3>1, <2>1
    <3> QED
      BY <3>1, <3>2
  <2>9. (s \ {x}) \ {k} = (s \ {k}) \ {x}
    OBVIOUS
  <2>10. v[k] \in Int /\ v[x] \in Int /\ g[(s \ {k}) \ {x}] \in Int
    <3>1. (s \ {k}) \ {x} \in SUBSET S
      BY <2>3
    <3> QED
      BY <1>0, <2>4, <3>1
  <2>11. ASSUME NEW z \in Int, NEW y1 \in Int, NEW y2 \in Int PROVE y1 + (y2 + z) = y2 + (y1 + z)
    OBVIOUS
  <2>12. v[k] + (v[x] + g[(s \ {k}) \ {x}]) = v[x] + (v[k] + g[(s \ {k}) \ {x}])
    BY <2>10, <2>11
  <2>13. g[s] = v[x] + g[s \ {x}]
    BY <2>5, <2>7, <2>8, <2>9, <2>12, Zenon
  <2> QED
    BY <2>2, <2>13
<1> QED
  BY <1>1

\* Two sums agree on a set on which their values do.
LEMMA SumUnique ==
    ASSUME NEW S, IsFiniteSet(S), NEW v \in [S -> Int], NEW c, Picks(c, S),
           NEW g, Adds(g, v, c, S),
           NEW T, IsFiniteSet(T), NEW w \in [T -> Int], NEW d, Picks(d, T),
           NEW h, Adds(h, w, d, T),
           NEW u \in (SUBSET S) \cap (SUBSET T), \A x \in u : v[x] = w[x]
    PROVE  g[u] = h[u]
<1> DEFINE Bad == {s \in SUBSET u : g[s] # h[s]}
<1>0. /\ \A s \in SUBSET S : s # {} => g[s] = v[c[s]] + g[s \ {c[s]}]
      /\ g[{}] = 0 /\ h[{}] = 0
  BY DEF Adds
<1>f. IsFiniteSet(u)
  BY FS_Subset
<1>1. ASSUME Bad # {} PROVE FALSE
  <2>1. PICK s \in Bad : \A t \in Bad : t \subseteq s => t = s
    <3> Bad \in SUBSET (SUBSET u)
      OBVIOUS
    <3> HIDE DEF Bad
    <3> QED
      BY <1>1, <1>f, MinimalSet
  <2>2. s \in SUBSET u /\ s \in SUBSET S /\ s \in SUBSET T /\ g[s] # h[s] /\ s # {}
    BY <1>0
  <2> DEFINE k == c[s]
  <2>3. k \in s
    BY <2>2 DEF Picks
  <2>4. g[s] = v[k] + g[s \ {k}]
    BY <1>0, <2>2
  <2> HIDE DEF k
  <2>5. h[s] = w[k] + h[s \ {k}]
    BY <2>2, <2>3, SumStep
  <2>6. g[s \ {k}] = h[s \ {k}]
    <3>1. s \ {k} \in SUBSET u /\ s \ {k} \subseteq s /\ s \ {k} # s
      BY <2>2, <2>3
    <3>2. s \ {k} \notin Bad
      BY <3>1, <2>1
    <3> QED
      BY <3>1, <3>2
  <2>7. v[k] = w[k]
    BY <2>2, <2>3
  <2> QED
    BY <2>2, <2>4, <2>5, <2>6, <2>7
<1>2. u \notin Bad
  BY <1>1
<1> QED
  BY <1>2

\* The element that MapThenSumSet takes first.
Chosen(S) == [s \in SUBSET S |-> IF s = {} THEN 0 ELSE CHOOSE x \in s : TRUE]

\* The elements that the fold of the library chooses are picked from the set.
LEMMA ChosenPicks == ASSUME NEW S PROVE Picks(Chosen(S), S)
<1>1. \A s \in SUBSET S : s # {} => (CHOOSE x \in s : TRUE) \in s
  OBVIOUS
<1> QED
  BY <1>1 DEF Picks, Chosen

\* PointsOf is that sum.
LEMMA PointsSum ==
    ASSUME NEW U, IsFiniteSet(U), NEW q, \A r \in U : q[r].points \in Int
    PROVE  \E g : Adds(g, [r \in U |-> q[r].points], Chosen(U), U) /\ PointsOf(q, U) = g[U]
<1> DEFINE v == [r \in U |-> q[r].points]
           c == Chosen(U)
           Sums(g) == g = [s \in SUBSET U |->
                             IF s = {} THEN 0
                             ELSE q[CHOOSE x \in s : TRUE].points + g[s \ {CHOOSE x \in s : TRUE}]]
<1>1. v \in [U -> Int] /\ Picks(c, U)
  BY ChosenPicks
<1>2. ASSUME NEW g PROVE Sums(g) <=> Adds(g, v, c, U)
  <2>1. ASSUME NEW s \in SUBSET U, s # {}
        PROVE  /\ c[s] = CHOOSE x \in s : TRUE
               /\ v[c[s]] = q[CHOOSE x \in s : TRUE].points
    <3>1. c[s] = CHOOSE x \in s : TRUE
      BY <2>1 DEF Chosen
    <3>2. (CHOOSE x \in s : TRUE) \in U
      BY <2>1
    <3> QED
      BY <3>1, <3>2
  <2> DEFINE a == [s \in SUBSET U |->
                     IF s = {} THEN 0
                     ELSE q[CHOOSE x \in s : TRUE].points + g[s \ {CHOOSE x \in s : TRUE}]]
             b == [s \in SUBSET U |-> IF s = {} THEN 0 ELSE v[c[s]] + g[s \ {c[s]}]]
  <2>2. ASSUME NEW s \in SUBSET U PROVE a[s] = b[s]
    <3>1. CASE s = {}
      BY <3>1
    <3>2. CASE s # {}
      <4> DEFINE x == CHOOSE x \in s : TRUE
      <4>1. c[s] = x /\ v[c[s]] = q[x].points
        BY <2>1, <3>2
      <4>2. a[s] = q[x].points + g[s \ {x}]
        BY <3>2
      <4>3. b[s] = v[c[s]] + g[s \ {c[s]}]
        BY <3>2
      <4> HIDE DEF x, a, b, v, c
      <4> QED
        BY <4>1, <4>2, <4>3
    <3> QED
      BY <3>1, <3>2
  <2>3. a = b
    <3>1. a = [s \in SUBSET U |-> a[s]] /\ b = [s \in SUBSET U |-> b[s]]
      OBVIOUS
    <3> HIDE DEF a, b
    <3> QED
      BY <3>1, <2>2
  <2>4. Sums(g) <=> g = a
    OBVIOUS
  <2>5. Adds(g, v, c, U) <=> g = b
    BY DEF Adds
  <2> HIDE DEF a, b, v, c, Sums
  <2> QED
    BY <2>3, <2>4, <2>5
<1>3. PICK h : Adds(h, v, c, U)
  <2> HIDE DEF v, c
  <2> QED
    BY <1>1, SumExists
<1>4. PointsOf(q, U) = (CHOOSE g : Sums(g))[U]
  BY DEF PointsOf, MapThenSumSet, MapThenFoldSet
<1> HIDE DEF v, c, Sums
<1>5. Sums(CHOOSE g : Sums(g))
  BY <1>2, <1>3
<1>6. Adds(CHOOSE g : Sums(g), v, c, U)
  BY <1>2, <1>5
<1> QED
  BY <1>4, <1>6 DEF v, c

\* The points of no calls, and of one call more.
LEMMA NoPoints == ASSUME NEW q PROVE PointsOf(q, {}) = 0
<1>1. PICK g : Adds(g, [r \in {} |-> q[r].points], Chosen({}), {}) /\ PointsOf(q, {}) = g[{}]
  BY PointsSum, FS_EmptySet
<1> QED
  BY <1>1 DEF Adds

\* Calls that ask for the same points have the same sum.
LEMMA SamePoints ==
    ASSUME NEW U, IsFiniteSet(U), NEW q, NEW p, \A r \in U : q[r].points \in Int,
           \A r \in U : p[r] = q[r]
    PROVE  PointsOf(p, U) = PointsOf(q, U) /\ PointsOf(q, U) \in Int
<1> DEFINE v == [r \in U |-> q[r].points]
           w == [r \in U |-> p[r].points]
<1>1. v \in [U -> Int] /\ w \in [U -> Int] /\ \A r \in U : v[r] = w[r]
  OBVIOUS
<1>2. PICK g : Adds(g, v, Chosen(U), U) /\ PointsOf(q, U) = g[U]
  BY PointsSum
<1>3. PICK h : Adds(h, w, Chosen(U), U) /\ PointsOf(p, U) = h[U]
  BY PointsSum
<1>4. Picks(Chosen(U), U)
  BY ChosenPicks
<1> HIDE DEF v, w
<1>5. U \in (SUBSET U) \cap (SUBSET U)
  OBVIOUS
<1>6. g[U] = h[U]
  BY <1>1, <1>2, <1>3, <1>4, <1>5, SumUnique
<1>7. g \in [SUBSET U -> Int]
  BY <1>1, <1>2, <1>4, SumType
<1> QED
  BY <1>2, <1>3, <1>6, <1>7

\* One more request adds its points.
LEMMA MorePoints ==
    ASSUME NEW U, IsFiniteSet(U), NEW x, x \notin U, NEW q,
           \A r \in U \cup {x} : q[r].points \in Int
    PROVE  PointsOf(q, U \cup {x}) = PointsOf(q, U) + q[x].points
<1> DEFINE T == U \cup {x}
           v == [r \in U |-> q[r].points]
           w == [r \in T |-> q[r].points]
<1>1. v \in [U -> Int] /\ w \in [T -> Int] /\ (\A r \in U : v[r] = w[r]) /\ w[x] = q[x].points
  OBVIOUS
<1>f. IsFiniteSet(T)
  BY FS_AddElement
<1>2. PICK g : Adds(g, v, Chosen(U), U) /\ PointsOf(q, U) = g[U]
  BY PointsSum
<1>3. PICK h : Adds(h, w, Chosen(T), T) /\ PointsOf(q, T) = h[T]
  <2>1. \A r \in T : q[r].points \in Int
    OBVIOUS
  <2> HIDE DEF T
  <2> QED
    BY <2>1, <1>f, PointsSum
<1>4. Picks(Chosen(U), U) /\ Picks(Chosen(T), T)
  BY ChosenPicks
<1>5. U \in (SUBSET U) \cap (SUBSET T) /\ T \in SUBSET T /\ x \in T /\ T \ {x} = U
  OBVIOUS
<1>s. q[x].points \in Int
  OBVIOUS
<1> HIDE DEF v, w, T
<1>6. g[U] = h[U]
  BY <1>1, <1>2, <1>3, <1>4, <1>5, <1>f, SumUnique
<1>7. h[T] = w[x] + h[U]
  <2>1. ASSUME NEW pick, Picks(pick, T), Adds(h, w, pick, T)
        PROVE  h[T] = w[x] + h[T \ {x}]
    BY <2>1, <1>1, <1>5, <1>f, SumStep
  <2> QED
    BY <2>1, <1>3, <1>4, <1>5
<1>8. h \in [SUBSET T -> Int]
  BY <1>1, <1>3, <1>4, <1>f, SumType
<1>9. h[U] \in Int
  BY <1>5, <1>8
<1>10. PointsOf(q, T) = q[x].points + PointsOf(q, U)
  BY <1>1, <1>2, <1>3, <1>6, <1>7
<1>11. PointsOf(q, U) \in Int
  BY <1>2, <1>6, <1>9
<1>12. PointsOf(q, T) = PointsOf(q, U) + q[x].points
  BY <1>10, <1>11, <1>s
<1> QED
  BY <1>12 DEF T

-----------------------------------------------------------------------------
(* The ledger.                                                              *)

\* The others owe what they owed.
LEMMA OthersOwe ==
    ASSUME TypeOK, NEW r \in Requests, Handle(r) \/ Fail(r), NEW i
    PROVE  \A q \in Requests \ {r} : Owes(q, i)' <=> Owes(q, i)
  BY OneMoves DEF Owes, Kind, At

\* The request moves the balance, and owes the row from then on ...
Credits(r) ==
    /\ At(r, "credit") /\ call[r].id \in Existing
    /\ customers' = [customers EXCEPT ![call[r].id] = Credited(@, call[r].points)]
    /\ got'[r] = 1 /\ pc'[r] = "ledger" /\ lastId' = lastId

\* ... until it adds it.
Books(r) ==
    /\ At(r, "ledger") /\ call[r].id \in Existing
    /\ customers' = [customers EXCEPT ![call[r].id] = Booked(@, call[r].points)]
    /\ got'[r] = got[r] /\ pc'[r] = "done" /\ lastId' = lastId

\* A step that is not between balance and ledger: a customer may be new, or gone, and an
\* order writes both.
Even(r) ==
    /\ lastId <= lastId'
    /\ \A i \in Existing' :
         \/ i \in Existing /\ Gap(i)' = Gap(i)
         \/ i \notin Existing /\ i > lastId /\ Gap(i)' = 0
    /\ Kind(r, {"adjust"})' =>
         \/ /\ At(r, "idle") /\ pc'[r] \in {"credit", "refused"} /\ got'[r] = got[r]
         \/ /\ pc[r] \in {"credit", "ledger"} /\ pc'[r] \in {"refused", "failed"}
            /\ got'[r] = got[r]

\* The difference of a row.
RowGap(row) == Plus(row.balance, 0) - row.sum

\* What writing a row does to the difference.
LEMMA RowGaps ==
    ASSUME NEW row \in Customer, NEW p \in Int
    PROVE  /\ RowGap(row) \in Int
           /\ \A e \in Emails \cup {None} : RowGap(Emailing(row, e)) = RowGap(row)
           /\ RowGap(Credited(row, p)) = RowGap(row) + p
           /\ RowGap(Booked(row, p)) = RowGap(row) - p
<1>1. /\ row.balance \in Int \cup {None} /\ row.sum \in Int /\ row.rows \in Nat
      /\ None \notin Int
  BY NoneIsNoCall DEF Customer
<1>2. Plus(row.balance, 0) \in Int
  BY <1>1 DEF Plus
<1>3. RowGap(row) \in Int
  BY <1>1, <1>2 DEF RowGap
<1>4. ASSUME NEW e \in Emails \cup {None} PROVE RowGap(Emailing(row, e)) = RowGap(row)
  <2>1. Emailing(row, e).balance = row.balance /\ Emailing(row, e).sum = row.sum
    BY DEF Customer, Emailing
  <2> QED BY <2>1 DEF RowGap
<1>5. RowGap(Credited(row, p)) = RowGap(row) + p
  <2>1. Credited(row, p).balance = Plus(row.balance, p) /\ Credited(row, p).sum = row.sum
    BY DEF Customer, Credited
  <2>2. Plus(row.balance, p) \in Int /\ Plus(row.balance, p) = Plus(row.balance, 0) + p
    BY <1>1 DEF Plus
  <2>3. Plus(Plus(row.balance, p), 0) = Plus(row.balance, p)
    BY <2>2, <1>1 DEF Plus
  <2> QED BY <2>1, <2>2, <2>3, <1>1, <1>2 DEF RowGap
<1>6. RowGap(Booked(row, p)) = RowGap(row) - p
  <2> DEFINE rows == row.rows + 1
             sum  == row.sum + p
  <2>1. Booked(row, p) = [row EXCEPT !.rows = rows, !.sum = sum]
    BY Zenon DEF Booked
  <2>2. sum = row.sum + p
    OBVIOUS
  <2> HIDE DEF rows, sum
  <2>3. Booked(row, p).balance = row.balance /\ Booked(row, p).sum = sum
    BY <2>1 DEF Customer
  <2> QED BY <2>2, <2>3, <1>1, <1>2 DEF RowGap
<1> QED BY <1>3, <1>4, <1>5, <1>6

\* The difference of a customer is that of the row.
LEMMA GapIsRowGap == \A i : Gap(i) = RowGap(customers[i]) /\ Gap(i)' = RowGap(customers'[i])
  BY DEF Gap, Balance, RowGap

\* Every step is of one of these kinds.
LEMMA LedgerSteps ==
    ASSUME TypeOK, ControlInv, NEW r \in Requests, Handle(r) \/ Fail(r)
    PROVE  Credits(r) \/ Books(r) \/ Even(r)
<1>0. /\ Fits(r) /\ pc \in [Requests -> Steps] /\ got \in [Requests -> Nat]
      /\ call \in [Requests -> Calls \cup {None}]
      /\ customers \in [Ids -> Customer \cup {None}]
      /\ lastId \in Ids /\ \A i \in Existing : i <= lastId
  BY DEF ControlInv, TypeOK
<1> DEFINE Rows == /\ lastId <= lastId'
                   /\ \A i \in Existing' : \/ i \in Existing /\ Gap(i)' = Gap(i)
                                           \/ i \notin Existing /\ i > lastId /\ Gap(i)' = 0
           Req  == Kind(r, {"adjust"})' =>
                     \/ /\ At(r, "idle") /\ pc'[r] \in {"credit", "refused"} /\ got'[r] = got[r]
                     \/ /\ pc[r] \in {"credit", "ledger"} /\ pc'[r] \in {"refused", "failed"}
                        /\ got'[r] = got[r]
<1>1. ASSUME Rows, Req PROVE Even(r)
  BY <1>1 DEF Even
<1>2. ASSUME customers' = customers, lastId' = lastId PROVE Rows
  BY <1>2, <1>0, GapIsRowGap DEF Existing, Ids
<1> HIDE DEF Rows
<1>3. ASSUME call'[r].kind # "adjust" PROVE Req
  BY <1>3 DEF Kind
<1>4. CASE SendOtp(r) \/ Compare(r) \/ (Lookup(r) /\ At(r, "idle"))
  <2>1. call'[r].kind # "adjust"
    BY <1>4, <1>0 DEF SendOtp, Compare, Lookup, New, Asked, Arrive, Proceed, At
  <2>2. customers' = customers /\ lastId' = lastId
    BY <1>4 DEF SendOtp, Compare, Lookup, LookupFor, store
  <2> QED BY <2>1, <2>2, <1>1, <1>2, <1>3
<1>5. CASE Message(r) \/ Forget(r) \/ Store(r) \/ Consume(r) \/ Find(r) \/ EmailCheck(r) \/ Cut(r)
  <2>1. call'[r].kind # "adjust"
    BY <1>5, <1>0 DEF Message, Forget, Store, Consume, Find, EmailCheck, Cut, Proceed, At, Fits
  <2>2. customers' = customers /\ lastId' = lastId
    BY <1>5 DEF Message, Forget, Store, Consume, Find, EmailCheck, Cut, store
  <2> QED BY <2>1, <2>2, <1>1, <1>2, <1>3
<1>6. CASE Lookup(r) /\ ~At(r, "idle")
  <2>1. call'[r].kind # "adjust"
    BY <1>6, <1>0 DEF Lookup, New, Proceed, At, Fits
  <2>2. customers' = customers /\ lastId' = lastId
    BY <1>6 DEF Lookup, LookupFor, store
  <2> QED BY <2>1, <2>2, <1>1, <1>2, <1>3
<1>7. CASE Insert(r)
  <2>1. call'[r].kind # "adjust"
    BY <1>7, <1>0 DEF Insert, Proceed, At, Fits
  <2>2. ASSUME customers' # customers \/ lastId' # lastId PROVE Rows
    <3> DEFINE new == [phone |-> call[r].phone, email |-> call[r].email, balance |-> None,
                       rows |-> 0, sum |-> 0]
    <3>1. /\ lastId < MaxCustomers /\ lastId' = lastId + 1
          /\ customers' = [customers EXCEPT ![lastId + 1] = new]
      BY <1>7, <2>2 DEF Insert
    <3>2. RowGap(new) = 0
      BY DEF RowGap, Plus
    <3> HIDE DEF new
    <3>3. lastId \in Nat /\ lastId + 1 \in Ids /\ lastId + 1 \notin Existing
      BY <1>0, <3>1, PointsAreNumbers DEF Ids, Existing
    <3>4. \A i \in Ids : customers'[i] = IF i = lastId + 1 THEN new ELSE customers[i]
      BY <1>0, <3>1, <3>3
    <3>5. ASSUME NEW i \in Existing'
          PROVE  \/ i \in Existing /\ Gap(i)' = Gap(i)
                 \/ i \notin Existing /\ i > lastId /\ Gap(i)' = 0
      <4>1. i \in Ids /\ customers'[i] # None
        BY DEF Existing
      <4>2. CASE i = lastId + 1
        BY <4>1, <4>2, <3>2, <3>3, <3>4, GapIsRowGap
      <4>3. CASE i # lastId + 1
        BY <4>1, <4>3, <3>4, GapIsRowGap DEF Existing
      <4> QED BY <4>2, <4>3
    <3>6. lastId <= lastId'
      BY <3>1, <3>3
    <3> QED BY <3>5, <3>6 DEF Rows
  <2> QED BY <2>1, <2>2, <1>1, <1>2, <1>3
<1>8. CASE Update(r)
  <2>1. call'[r].kind # "adjust" /\ call[r].email \in Emails \cup {None}
    <3>1. call[r] \in Calls /\ call[r].kind \in {"register", "upsert"} /\ call' = call
      BY <1>8, <1>0 DEF Update, Proceed, At, Fits, TypeOK
    <3> QED BY <3>1, CallFields
  <2>2. ASSUME customers' # customers PROVE Rows
    <3>1. /\ got[r] \in Existing /\ lastId' = lastId
          /\ customers' = [customers EXCEPT ![got[r]] = Emailing(@, call[r].email)]
      BY <1>8, <2>2 DEF Update
    <3>2. \A i \in Existing' : /\ i \in Existing
                               /\ \/ customers'[i] = customers[i]
                                  \/ customers'[i] = Emailing(customers[i], call[r].email)
      BY <1>0, <3>1 DEF Existing
    <3>3. \A i \in Existing : customers[i] \in Customer
      BY <1>0 DEF Existing
    <3>4. \A i \in Existing' : RowGap(customers'[i]) = RowGap(customers[i])
      BY <3>2, <3>3, <2>1, RowGaps
    <3> QED BY <1>0, <3>1, <3>2, <3>4, GapIsRowGap DEF Rows, Ids
  <2>3. lastId' = lastId
    BY <1>8 DEF Update
  <2> QED BY <2>1, <2>2, <2>3, <1>1, <1>2, <1>3
<1>9. CASE FindCustomer(r)
  <2>1. customers' = customers /\ lastId' = lastId /\ got' = got /\ At(r, "idle")
    BY <1>9 DEF FindCustomer, New, store
  <2>2. pc'[r] \in {"refused", "cut", "credit"} /\ (pc'[r] = "cut" => call'[r].kind = "remove")
    BY <1>9, <1>0 DEF FindCustomer, New, Asked, Arrive, Goto, At
  <2>3. Req
    BY <2>1, <2>2 DEF Kind
  <2> QED BY <2>1, <2>3, <1>1, <1>2
<1>10. CASE Credit(r)
  <2>1. CASE call[r].id \in Existing
    BY <1>10, <2>1, <1>0 DEF Credit, Credits, Proceed, At, Goto, Keep
  <2>2. CASE call[r].id \notin Existing
    <3>1. customers' = customers /\ lastId' = lastId /\ got' = got /\ pc[r] = "credit" /\ pc'[r] = "refused"
      BY <1>10, <2>2, <1>0 DEF Credit, Proceed, At, Goto
    <3> QED BY <3>1, <1>1, <1>2
  <2> QED BY <2>1, <2>2
<1>11. CASE Ledger(r)
  <2>1. CASE call[r].id \in Existing
    BY <1>11, <2>1, <1>0 DEF Ledger, Books, Proceed, At, Goto
  <2>2. CASE call[r].id \notin Existing
    <3>1. customers' = customers /\ lastId' = lastId /\ got' = got /\ pc[r] = "ledger" /\ pc'[r] = "refused"
      BY <1>11, <2>2, <1>0 DEF Ledger, Proceed, At, Goto
    <3> QED BY <3>1, <1>1, <1>2
  <2> QED BY <2>1, <2>2
<1>12. CASE Sale(r)
  <2>1. PICK k \in Calls :
           /\ k.kind = "sale" /\ Arrive(r, k)
           /\ \/ UNCHANGED customers
              \/ /\ k.id \in Existing
                 /\ customers' = [customers EXCEPT ![k.id] = Booked(Credited(@, k.points), k.points)]
    BY <1>12 DEF Sale, New, Asked
  <2>2. call'[r].kind # "adjust" /\ k.points \in Int /\ lastId' = lastId
    BY <1>12, <2>1, <1>0, CallFields DEF Arrive, Sale
  <2>3. ASSUME customers' # customers PROVE Rows
    <3>1. /\ k.id \in Existing
          /\ customers' = [customers EXCEPT ![k.id] = Booked(Credited(@, k.points), k.points)]
      BY <2>1, <2>3
    <3>2. \A i \in Existing' : /\ i \in Existing
                               /\ \/ customers'[i] = customers[i]
                                  \/ customers'[i] = Booked(Credited(customers[i], k.points), k.points)
      BY <1>0, <3>1 DEF Existing
    <3>3. ASSUME NEW i \in Existing
          PROVE  RowGap(Booked(Credited(customers[i], k.points), k.points)) = RowGap(customers[i])
      <4>1. customers[i] \in Customer
        BY <1>0 DEF Existing
      <4>2. Credited(customers[i], k.points) \in Customer
        BY <4>1, <2>2, RowTypes
      <4>3. RowGap(Credited(customers[i], k.points)) = RowGap(customers[i]) + k.points
        BY <4>1, <2>2, RowGaps
      <4>4. /\ RowGap(Booked(Credited(customers[i], k.points), k.points))
               = RowGap(Credited(customers[i], k.points)) - k.points
        BY <4>2, <2>2, RowGaps
      <4>5. RowGap(customers[i]) \in Int
        BY <4>1, <2>2, RowGaps
      <4> QED BY <4>3, <4>4, <4>5, <2>2
    <3>4. \A i \in Existing' : RowGap(customers'[i]) = RowGap(customers[i])
      BY <3>2, <3>3
    <3> QED BY <1>0, <2>2, <3>2, <3>4, GapIsRowGap DEF Rows, Ids
  <2> QED BY <2>2, <2>3, <1>1, <1>2, <1>3
<1>13. CASE Delete(r)
  <2>1. call'[r].kind # "adjust" /\ lastId' = lastId
    BY <1>13, <1>0 DEF Delete, Proceed, At, Fits
  <2>2. customers' = customers \/ customers' = [customers EXCEPT ![call[r].id] = None]
    BY <1>13 DEF Delete
  <2>3. \A i \in Existing' : i \in Existing /\ customers'[i] = customers[i]
    BY <1>0, <2>2 DEF Existing
  <2>4. Rows
    BY <1>0, <2>1, <2>3, GapIsRowGap DEF Rows, Ids
  <2> QED BY <2>1, <2>4, <1>1, <1>3
<1>14. CASE Fail(r)
  <2>1. /\ customers' = customers /\ lastId' = lastId /\ got' = got /\ call' = call
        /\ pc[r] \notin Ended \cup {"idle"} /\ pc'[r] = "failed"
    BY <1>14, <1>0 DEF Fail, BreakOff, store, Goto
  <2>2. pc[r] \in {"credit", "ledger"} \/ call[r].kind # "adjust"
    BY <2>1, <1>0 DEF Fits, Steps, Ended
  <2>3. Req
    BY <2>1, <2>2 DEF Kind
  <2> QED BY <2>1, <2>3, <1>1, <1>2
<1> QED BY <1>4, <1>5, <1>6, <1>7, <1>8, <1>9, <1>10, <1>11, <1>12, <1>13, <1>14 DEF Handle

\* AdjustInv is kept.
LEMMA AdjustKept == TypeOK /\ ControlInv /\ HistoryInv /\ AdjustInv /\ [Next]_vars => AdjustInv'
<1> SUFFICES ASSUME TypeOK, ControlInv, HistoryInv, AdjustInv, [Next]_vars PROVE AdjustInv'
  OBVIOUS
<1> DEFINE Good(q) == Kind(q, {"adjust"}) =>
                        /\ At(q, "credit") => got[q] = 0
                        /\ At(q, "ledger") => got[q] = 1
                        /\ got[q] = 1 => call[q].id <= lastId
<1>0. /\ \A q \in Requests : Good(q)
      /\ lastId \in Int /\ \A i \in Existing : i <= lastId
      /\ \A q \in Requests : call[q] \in Calls \/ At(q, "idle")
  BY DEF AdjustInv, TypeOK, Ids
<1>1. ASSUME NEW r \in Requests, Handle(r) \/ Fail(r)
      PROVE  AdjustInv'
  <2>0. lastId <= lastId' /\ lastId' \in Int
    <3>1. TypeOK'
      BY <1>1, TypesKept DEF Next
    <3> QED BY <3>1, <1>0, <1>1, LedgerSteps DEF Even, Credits, Books, TypeOK, Ids
  <2>1. ASSUME NEW q \in Requests \ {r} PROVE Good(q)'
    <3>1. /\ pc'[q] = pc[q] /\ call'[q] = call[q] /\ got'[q] = got[q] /\ q \in Requests
      BY <1>1, OneMoves
    <3>2. Kind(q, {"adjust"}) => call[q].id \in Int
      BY <1>0, <3>1, CallFields DEF Kind, Ids
    <3> QED BY <1>0, <2>0, <3>1, <3>2 DEF Kind, At
  <2>2. Good(r)'
    <3>0. r \in Requests /\ Good(r) /\ (At(r, "idle") => got[r] = 0)
      BY <1>0 DEF HistoryInv
    <3>1. ~At(r, "idle") => call'[r] = call[r]
      BY <1>1, OneMoves
    <3>2. CASE Credits(r)
      BY <3>0, <3>1, <3>2, <1>0 DEF Credits, Kind, At
    <3>3. CASE Books(r)
      BY <3>0, <3>1, <3>3, <1>0 DEF Books, Kind, At
    <3>4. CASE Even(r)
      <4> SUFFICES ASSUME Kind(r, {"adjust"})'
                   PROVE  /\ (At(r, "credit") => got[r] = 0)'
                          /\ (At(r, "ledger") => got[r] = 1)'
                          /\ (got[r] = 1 => call[r].id <= lastId)'
        OBVIOUS
      <4>1. CASE At(r, "idle") /\ pc'[r] \in {"credit", "refused"} /\ got'[r] = got[r]
        BY <4>1, <3>0 DEF At
      <4>2. CASE pc[r] \in {"credit", "ledger"} /\ pc'[r] \in {"refused", "failed"} /\ got'[r] = got[r]
        <5>1. call'[r] = call[r] /\ Kind(r, {"adjust"})
          BY <4>2, <3>1 DEF Kind, At
        <5>2. call[r].id \in Int
          BY <1>0, <5>1, CallFields DEF Kind, Ids
        <5> QED BY <4>2, <5>1, <5>2, <3>0, <2>0, <1>0 DEF At
      <4> QED BY <3>4, <4>1, <4>2 DEF Even
    <3> QED BY <1>1, <3>2, <3>3, <3>4, LedgerSteps
  <2> QED BY <2>1, <2>2 DEF AdjustInv
<1>2. CASE Expire \/ UNCHANGED vars
  BY <1>2 DEF Expire, calls, vars, AdjustInv, Kind, At
<1> QED BY <1>1, <1>2 DEF Next, AllEnded

\* What a request owes, or comes to owe.
LEMMA OwesMoves ==
    ASSUME TypeOK, ControlInv, HistoryInv, AdjustInv, NEW r \in Requests, Handle(r) \/ Fail(r)
    PROVE  /\ Credits(r) => \A i : /\ ~Owes(r, i)
                                   /\ Owes(r, i)' <=> i = call[r].id
           /\ Books(r) => \A i : /\ Owes(r, i) <=> i = call[r].id
                                 /\ ~Owes(r, i)'
           /\ Even(r) => \A i : Owes(r, i)' <=> Owes(r, i)
<1>0. /\ Fits(r) /\ (At(r, "idle") => got[r] = 0)
      /\ Kind(r, {"adjust"}) => (At(r, "credit") => got[r] = 0) /\ (At(r, "ledger") => got[r] = 1)
      /\ ~At(r, "idle") => call'[r] = call[r]
      /\ pc'[r] # "idle" /\ pc[r] \notin Ended
  BY OneMoves DEF ControlInv, HistoryInv, AdjustInv
<1>1. ASSUME Credits(r), NEW i
      PROVE  ~Owes(r, i) /\ (Owes(r, i)' <=> i = call[r].id)
  BY <1>0, <1>1 DEF Credits, Owes, Kind, At, Fits
<1>2. ASSUME Books(r), NEW i
      PROVE  (Owes(r, i) <=> i = call[r].id) /\ ~Owes(r, i)'
  BY <1>0, <1>2 DEF Books, Owes, Kind, At, Fits
<1>3. ASSUME Even(r), NEW i
      PROVE  Owes(r, i)' <=> Owes(r, i)
  <2>1. CASE Kind(r, {"adjust"})'
    <3>1. CASE At(r, "idle") /\ pc'[r] \in {"credit", "refused"} /\ got'[r] = got[r]
      BY <1>0, <3>1 DEF Owes, Kind, At
    <3>2. CASE pc[r] \in {"credit", "ledger"} /\ pc'[r] \in {"refused", "failed"} /\ got'[r] = got[r]
      BY <1>0, <3>2 DEF Owes, Kind, At
    <3> QED BY <1>3, <2>1, <3>1, <3>2 DEF Even
  <2>2. CASE ~Kind(r, {"adjust"})'
    BY <1>0, <2>2 DEF Owes, Kind, At
  <2> QED BY <2>1, <2>2
<1> QED BY <1>1, <1>2, <1>3

\* The calls that owe a row have their points, and go on asking for them.
LEMMA UnbookedCalls ==
    ASSUME TypeOK, NEW i
    PROVE  /\ IsFiniteSet(Unbooked(i))
           /\ Unbooked(i) = {q \in Requests : Owes(q, i)}
           /\ \A q \in Unbooked(i) : call[q].points \in Int
<1>1. Unbooked(i) = {q \in Requests : Owes(q, i)}
  BY DEF Unbooked, Owes
<1>2. IsFiniteSet(Unbooked(i))
  BY FewRequests, FS_Subset DEF Unbooked
<1>3. \A q \in Requests : Kind(q, {"adjust"}) => call[q].points \in Int
  BY CallFields DEF Kind, TypeOK
<1> QED BY <1>1, <1>2, <1>3 DEF Owes

\* LedgerInv is kept: a step moves a balance, a ledger or the set that owes a row.
LEMMA LedgerKept ==
    TypeOK /\ ControlInv /\ HistoryInv /\ AdjustInv /\ LedgerInv /\ [Next]_vars => LedgerInv'
<1> SUFFICES ASSUME TypeOK, ControlInv, HistoryInv, AdjustInv, LedgerInv, [Next]_vars,
                    NEW i \in Existing'
             PROVE  Gap(i)' = PointsOf(call', Unbooked(i)')
  BY DEF LedgerInv
<1> DEFINE U == Unbooked(i)
<1>0. IsFiniteSet(U) /\ U = {q \in Requests : Owes(q, i)} /\ \A q \in U : call[q].points \in Int
  BY UnbookedCalls
<1>1. ASSUME NEW r \in Requests, Handle(r) \/ Fail(r)
      PROVE  Gap(i)' = PointsOf(call', Unbooked(i)')
  <2>1. Unbooked(i)' = {q \in Requests : Owes(q, i)'}
    BY DEF Unbooked, Owes
  <2>2. \A q \in Requests \ {r} : Owes(q, i)' <=> Owes(q, i)
    BY <1>1, OthersOwe
  <2>3. \A q \in Requests : ~At(q, "idle") => call'[q] = call[q]
    BY <1>1, OneMoves
  <2>4. \A q \in U : call'[q] = call[q]
    BY <1>0, <2>3 DEF Owes, Kind
  <2>5. i \in Existing => Gap(i) = PointsOf(call, U)
    BY DEF LedgerInv
  <2>6. PointsOf(call', U) = PointsOf(call, U) /\ PointsOf(call, U) \in Int
    <3> HIDE DEF U
    <3> QED BY <1>0, <2>4, SamePoints
  <2>7. CASE Even(r)
    <3>1. Unbooked(i)' = U
      BY <1>0, <1>1, <2>1, <2>2, <2>7, OwesMoves
    <3>2. CASE i \in Existing /\ Gap(i)' = Gap(i)
      BY <3>1, <3>2, <2>5, <2>6
    <3>3. CASE i \notin Existing /\ i > lastId /\ Gap(i)' = 0
      <4>1. U = {}
        <5> SUFFICES ASSUME NEW q \in U PROVE FALSE
          OBVIOUS
        <5>1. q \in Requests /\ Kind(q, {"adjust"}) /\ call[q].id = i /\ got[q] = 1
          BY <1>0 DEF Owes
        <5>2. i <= lastId
          BY <5>1 DEF AdjustInv
        <5>3. i \in Int /\ lastId \in Int
          BY DEF TypeOK, Ids, Existing
        <5> QED BY <3>3, <5>2, <5>3
      <4> QED BY <3>1, <3>3, <4>1, NoPoints
    <3> QED BY <2>7, <3>2, <3>3 DEF Even
  <2>8. CASE Credits(r) \/ Books(r)
    <3> DEFINE j == call[r].id
               p == call[r].points
    <3>1. /\ Fits(r) /\ ~At(r, "idle") /\ call[r] \in Calls
          /\ call[r].kind = "adjust" /\ call'[r] = call[r]
      BY <2>3, <2>8 DEF Credits, Books, ControlInv, Fits, At, TypeOK
    <3>2. p \in Int /\ j \in Ids
      BY <3>1, CallFields
    <3>3. i \in Ids /\ i \in Existing /\ customers[i] \in Customer
      BY <2>8, <3>2 DEF Credits, Books, Existing, TypeOK
    <3>4. Gap(i) = PointsOf(call, U)
      BY <2>5, <3>3
    <3>5. Gap(i) = RowGap(customers[i]) /\ Gap(i)' = RowGap(customers'[i])
      BY GapIsRowGap
    <3>6. CASE i # j
      <4>1. customers'[i] = customers[i]
        BY <2>8, <3>2, <3>3, <3>6 DEF Credits, Books, TypeOK
      <4>2. Unbooked(i)' = U
        BY <1>0, <1>1, <2>1, <2>2, <2>8, <3>6, OwesMoves
      <4> QED BY <4>1, <4>2, <3>4, <3>5, <2>6
    <3>7. CASE Credits(r) /\ i = j
      <4>1. customers'[i] = Credited(customers[i], p)
        BY <3>3, <3>7 DEF Credits, TypeOK
      <4>2. Gap(i)' = Gap(i) + p
        BY <4>1, <3>2, <3>3, <3>5, RowGaps
      <4>3. r \notin U /\ Unbooked(i)' = U \cup {r}
        BY <1>0, <1>1, <2>1, <2>2, <3>7, OwesMoves
      <4>4. \A q \in U \cup {r} : call'[q].points \in Int
        BY <1>0, <2>4, <3>1, <3>2
      <4>5. PointsOf(call', U \cup {r}) = PointsOf(call', U) + call'[r].points
        <5> HIDE DEF U
        <5> QED BY <1>0, <4>3, <4>4, MorePoints
      <4> QED BY <4>2, <4>3, <4>5, <3>1, <3>4, <2>6
    <3>8. CASE Books(r) /\ i = j
      <4> DEFINE V == Unbooked(i)'
      <4>1. customers'[i] = Booked(customers[i], p)
        BY <3>3, <3>8 DEF Books, TypeOK
      <4>2. Gap(i)' = Gap(i) - p
        BY <4>1, <3>2, <3>3, <3>5, RowGaps
      <4>3. r \notin V /\ U = V \cup {r} /\ V \subseteq U
        BY <1>0, <1>1, <2>1, <2>2, <3>8, OwesMoves
      <4>4. IsFiniteSet(V)
        BY <1>0, <4>3, FS_Subset
      <4>5. \A q \in V \cup {r} : call[q].points \in Int
        BY <1>0, <4>3
      <4>6. PointsOf(call, V \cup {r}) = PointsOf(call, V) + call[r].points
        <5> HIDE DEF V
        <5> QED BY <4>3, <4>4, <4>5, MorePoints
      <4>7. PointsOf(call', V) = PointsOf(call, V) /\ PointsOf(call, V) \in Int
        <5>1. \A q \in V : call'[q] = call[q] /\ call[q].points \in Int
          BY <2>4, <4>3, <4>5
        <5> HIDE DEF V
        <5> QED BY <4>4, <5>1, SamePoints
      <4>8. Gap(i) = PointsOf(call, V) + p
        BY <3>4, <4>3, <4>6
      <4> QED BY <4>2, <4>7, <4>8, <3>2
    <3> QED BY <2>8, <3>6, <3>7, <3>8
  <2> QED BY <1>1, <2>7, <2>8, LedgerSteps
<1>2. CASE Expire \/ UNCHANGED vars
  <2>1. customers' = customers /\ pc' = pc /\ call' = call /\ got' = got
    BY <1>2 DEF Expire, calls, vars
  <2>2. i \in Existing /\ Gap(i)' = Gap(i) /\ Unbooked(i)' = U
    BY <2>1, GapIsRowGap DEF Existing, Unbooked, Kind, At
  <2> QED BY <2>1, <2>2 DEF LedgerInv
<1> QED BY <1>1, <1>2 DEF Next, AllEnded

-----------------------------------------------------------------------------
\* The inductive invariant holds initially.
LEMMA InitInv == Init => IInv
<1> SUFFICES ASSUME Init PROVE IInv
  OBVIOUS
<1> USE DEF At
<1>1. /\ pc = [r \in Requests |-> "idle"] /\ call = [r \in Requests |-> None]
      /\ before = [r \in Requests |-> {}] /\ got = [r \in Requests |-> 0]
      /\ challenges = {} /\ lastRow = 0 /\ expired = {} /\ lastId = 1
  BY DEF Init, NoCalls
<1>2. PICK first \in {None} \cup [phone : Phones, email : Emails \cup {None},
                                  balance : {None}, rows : {0}, sum : {0}] :
         customers = [i \in Ids |-> IF i = 1 THEN first ELSE None]
  BY DEF Init
<1>3. first \in Customer \cup {None}
  BY DEF Customer
<1>4. 1 \in Ids /\ \A i \in Existing : i <= 1
  BY <1>2, PointsAreNumbers DEF Ids, Existing
<1>5. TypeOK
  BY <1>1, <1>2, <1>3, <1>4 DEF TypeOK, Steps, Challenge
<1>6. ControlInv /\ HistoryInv
  BY <1>1 DEF ControlInv, Fits, HistoryInv
<1>7. AdjustInv
  BY <1>1 DEF AdjustInv, Kind
<1>8. LedgerInv
  <2> SUFFICES ASSUME NEW i \in Existing PROVE Gap(i) = PointsOf(call, Unbooked(i))
    BY DEF LedgerInv
  <2>1. Unbooked(i) = {}
    BY <1>1 DEF Unbooked
  <2>2. customers[i].balance = None /\ customers[i].sum = 0
    BY <1>2 DEF Existing
  <2>3. Gap(i) = 0
    BY <2>2 DEF Gap, Balance, Plus
  <2> QED BY <2>1, <2>3, NoPoints
<1> QED BY <1>1, <1>5, <1>6, <1>7, <1>8
        DEF IInv, CodeInv, OnceInv, RegisterInv, ConsumedCodesSignIn, SentInv, CodesAreHonoured, Kind

\* Accounts, codes and what the requests have read stay consistent, whatever calls interleave.
THEOREM Inductive == Spec => []IInv
<1>1. Init => IInv
  BY InitInv
<1>2. IInv /\ [Next]_vars => IInv'
  <2> SUFFICES ASSUME IInv, [Next]_vars PROVE IInv'
    OBVIOUS
  <2>1. TypeOK' /\ ControlInv' /\ HistoryInv'
    BY TypesKept, ControlKept, HistoryKept DEF IInv
  <2>2. CodeInv' /\ OnceInv'
    BY CodeKept, OnceKept DEF IInv
  <2>3. RegisterInv' /\ ConsumedCodesSignIn'
    BY RegisterKept, ConsumedKept DEF IInv
  <2>4. SentInv' /\ CodesAreHonoured'
    BY SentKept, HonouredKept DEF IInv
  <2>5. AdjustInv' /\ LedgerInv'
    BY AdjustKept, LedgerKept DEF IInv
  <2> QED BY <2>1, <2>2, <2>3, <2>4, <2>5 DEF IInv
<1> QED BY <1>1, <1>2, PTL DEF Spec

\* Every column and every local keeps its type.
THEOREM TypeCorrect == Spec => []TypeOK
<1>1. IInv => TypeOK
  BY DEF IInv
<1> QED BY <1>1, Inductive, PTL

\* A code signs in once, but for verifications that overlap (verifyOtp).
THEOREM CodesSignInOnceHolds == Spec => []CodesSignInOnce
<1>1. IInv => CodesSignInOnce
  BY DEF IInv, OnceInv, CodesSignInOnce, NotBefore, Kind
<1> QED BY <1>1, Inductive, PTL

\* The code a customer was sent works until it has expired, was used up or replaced
\* (sendOtp, verifyOtp).
THEOREM CodesAreHonouredHolds == Spec => []CodesAreHonoured
<1>1. IInv => CodesAreHonoured
  BY DEF IInv
<1> QED BY <1>1, Inductive, PTL

\* A used code signs its owner in, but for a missing name and for a phone that was
\* registered meanwhile (verifyOtp).
THEOREM ConsumedCodesSignInHolds == Spec => []ConsumedCodesSignIn
<1>1. IInv => ConsumedCodesSignIn
  BY DEF IInv
<1> QED BY <1>1, Inductive, PTL

\* The ledger explains every balance, but for the adjustments whose two statements were
\* separated (manualAdjust, the points of an order, remove).
THEOREM LedgerExplainsBalanceHolds == Spec => []LedgerExplainsBalance
<1>1. IInv => LedgerExplainsBalance
  <2> SUFFICES ASSUME IInv, NEW i \in Existing
               PROVE  Balance(i) = customers[i].sum + PointsOf(call, Unbooked(i))
    BY DEF LedgerExplainsBalance, PointsOf
  <2>1. customers[i] \in Customer
    BY DEF IInv, TypeOK, Existing
  <2>2. customers[i].sum \in Int /\ customers[i].balance \in Int \cup {None} /\ None \notin Int
    BY <2>1, NoneIsNoCall DEF Customer
  <2>3. Balance(i) \in Int
    BY <2>2 DEF Balance, Plus
  <2>4. Gap(i) = PointsOf(call, Unbooked(i))
    BY DEF IInv, LedgerInv
  <2> QED BY <2>2, <2>3, <2>4 DEF Gap
<1> QED BY <1>1, Inductive, PTL
=============================================================================
