--------------------------- MODULE OrderLifecycle ---------------------------
(***************************************************************************)
(* The life of ONE order after checkout: its row in "orders", the payment  *)
(* rows in "transactions", the rows in "delivery_orders", the EARNED rows  *)
(* of the loyalty ledger and the USAGE batches of the stock ledger that    *)
(* point to it, under every HTTP request that can reach them               *)
(* (OrdersService.updateStatus / update / refund / appendOrderNote,        *)
(* DeliveryService.createDeliveryOrder / updateStatus).                    *)
(*                                                                         *)
(* Handlers run on one Node process and interleave at every await; the     *)
(* database is PostgreSQL at READ COMMITTED.  An action is the code from   *)
(* one await that matters to the next: one statement outside a             *)
(* transaction, or one statement of a transaction whose writes all become  *)
(* visible in its commit action.  A transaction holds the order row's lock *)
(* from its order.update until it ends, and every other write of that row  *)
(* waits for it.  Calls that a guard turns away change nothing and are     *)
(* left out.                                                               *)
(***************************************************************************)
EXTENDS Integers, FiniteSets

CONSTANTS
    Requests,    \* HTTP calls that may be made on the order, each at most once
    Payments,    \* ids a row of "transactions" can take
    Deliveries,  \* ids a row of "delivery_orders" can take
    Totals,      \* money amounts an order can come to
    Tenders      \* money amounts a client can split the payment of an order into

\* Money is in hundredths of a cent.  computeOrderTotals never returns a negative
\* total, and resolvePaymentLines refuses a split amount that is not positive.
ASSUME TotalsAreMoney  == Totals \subseteq Nat
ASSUME TendersAreMoney == Tenders \subseteq Nat

VARIABLES
    status,         \* orders.status
    total,          \* orders.total
    earner,         \* a customer is linked and some unit of the order earns points
    notes,          \* orders.notes: the requests whose text it holds
    stockDeducted,  \* orders.stock_deducted_at is set
    payStatus,      \* transactions.status by id, "none" where there is no row
    payAmount,      \* transactions.amount by id
    delivery,       \* delivery_orders.status by id, "none" where there is no row
    earned,         \* EARNED rows of loyalty_transactions related to the order
    usages,         \* batches of USAGE rows of stock_transactions for the order
    lock,           \* the request whose open transaction locks the order row
    pc, kind, seen, \* where each request stands, what it is, what it has read
    split,          \* history: the sale was paid with split tenders
    overlaps,       \* history: kinds of requests that have been in flight together
    broken          \* history: deliveries whose completion broke off past their row

orderRow == <<status, total, earner, notes, stockDeducted>>
payRows  == <<payStatus, payAmount>>
ledgers  == <<earned, usages>>
local    == <<pc, kind, seen>>
history  == <<split, overlaps, broken>>
vars     == <<orderRow, payRows, delivery, ledgers, lock, local, history>>

OrderStatus    == {"PENDING", "COMPLETED", "CANCELLED"}
PaymentStatus  == {"none", "COMPLETED", "REFUNDED"}
DeliveryStatus == {"none", "NEW", "COMPLETED", "CANCELLED"}

(* "complete", "reopen" and "cancel" are updateStatus to COMPLETED, PENDING *)
(* and CANCELLED; "deliver" and "abort" are the delivery's updateStatus to  *)
(* COMPLETED and CANCELLED, and "repeat" the same call for a delivery that  *)
(* already has that status; "attach" is createDeliveryOrder.                *)
Kinds == {"complete", "reopen", "cancel", "refund", "edit", "deliver", "abort",
          "repeat", "attach", "note"}

InTransaction == {"editRead", "editCommit", "refundRead", "refundCommit"}

Steps == InTransaction \cup
         {"idle", "done", "failed", "setStatus", "cancel", "cancelDeliveries",
          "readPayments", "reverse", "refundCheck", "refundLock", "editLock",
          "deliver", "findAgain", "noteRead", "noteWrite", "sync", "syncWrite", "refresh",
          "award", "awardTx", "awardWrite", "deduct", "deductTx"}

NoReads == [status |-> "PENDING", cashier |-> FALSE, notes |-> {}, rows |-> {},
            target |-> {}]

Reads == [status : OrderStatus, cashier : BOOLEAN, notes : SUBSET Requests,
          rows : SUBSET (Payments \X Int), target : SUBSET Deliveries]

-----------------------------------------------------------------------------
(* Control shared by the handlers.                                          *)

InFlight == {r \in Requests : pc[r] \notin {"idle", "done", "failed"}}

Goto(r, step) == pc' = [pc EXCEPT ![r] = step]

\* A request arrives and its first read of the database returns `reads`.
Begin(r, k, reads, step) ==
    /\ pc[r] = "idle"
    /\ Goto(r, step)
    /\ kind' = [kind EXCEPT ![r] = k]
    /\ seen' = [seen EXCEPT ![r] = reads]
    /\ overlaps' = overlaps \cup {{k, kind[q]} : q \in InFlight}
    /\ UNCHANGED <<split, broken>>

\* The handler ends, answering or throwing, and its locals are gone.
Leave(r, step) ==
    /\ Goto(r, step)
    /\ kind' = [kind EXCEPT ![r] = "none"]
    /\ seen' = [seen EXCEPT ![r] = NoReads]

Return(r) == Leave(r, "done")

Continue(r, step) == Goto(r, step) /\ UNCHANGED <<kind, seen>>

Remember(r, reads, step) ==
    Goto(r, step) /\ seen' = [seen EXCEPT ![r] = reads] /\ UNCHANGED kind

\* The row lock a statement that writes the order must be able to take.
OrderUnlocked == lock = {}

Abs(n) == IF n < 0 THEN -n ELSE n

Cent == 100

roundMoney(x) == Cent * ((x + Cent \div 2) \div Cent)

\* Mutant of CompletedRows: the filter on the status is lost.
AllRows == {<<p, payAmount[p]>> : p \in {q \in Payments : payStatus[q] # "none"}}

CompletedRows == {<<p, payAmount[p]>> : p \in {q \in Payments : payStatus[q] = "COMPLETED"}}

-----------------------------------------------------------------------------
(* OrdersService.updateStatus to PENDING or COMPLETED.                      *)

\* Mutant of StatusRead: nobody asks whether a cashier calls.
StatusReadForAll(r, k) ==
    /\ status # "CANCELLED"
    /\ \E cashier \in BOOLEAN :
         Begin(r, k, [NoReads EXCEPT !.status = status, !.cashier = cashier], "setStatus")
    /\ UNCHANGED <<orderRow, payRows, delivery, ledgers, lock>>

\* A cashier may do it only while the order is pending.
StatusRead(r, k) ==
    /\ status # "CANCELLED"
    /\ \E cashier \in BOOLEAN :
         /\ cashier => status = "PENDING"
         /\ Begin(r, k, [NoReads EXCEPT !.status = status, !.cashier = cashier], "setStatus")
    /\ UNCHANGED <<orderRow, payRows, delivery, ledgers, lock>>

StatusWrite(r) ==
    /\ pc[r] = "setStatus"
    /\ OrderUnlocked
    /\ status' = IF kind[r] = "complete" THEN "COMPLETED" ELSE "PENDING"
    /\ IF kind[r] = "complete" /\ seen[r].status # "COMPLETED"
       THEN Continue(r, "award")
       ELSE Return(r)
    /\ UNCHANGED <<total, earner, notes, stockDeducted, payRows, delivery, ledgers, lock, history>>

-----------------------------------------------------------------------------
(* Reversal of payments, shared by updateStatus to CANCELLED and refund.    *)

\* Each row read as completed is written REFUNDED with minus the amount read.
Reverse(rows) ==
    LET ids == {row[1] : row \in rows}
        Read(p) == CHOOSE row \in rows : row[1] = p
    IN  /\ payStatus' = [p \in Payments |-> IF p \in ids THEN "REFUNDED" ELSE payStatus[p]]
        /\ payAmount' = [p \in Payments |-> IF p \in ids THEN -Abs(Read(p)[2]) ELSE payAmount[p]]

\* Mutant of CancelLinkedDeliveries: only rows still NEW are cancelled.
CancelNewDeliveries ==
    delivery' = [d \in Deliveries |-> IF delivery[d] = "NEW" THEN "CANCELLED" ELSE delivery[d]]

CancelLinkedDeliveries ==
    delivery' = [d \in Deliveries |-> IF delivery[d] = "none" THEN "none" ELSE "CANCELLED"]

(* OrdersService.updateStatus to CANCELLED: three separate writes, no       *)
(* transaction.  Anyone the manager PIN admits may do it.                   *)

CancelRead(r) ==
    /\ status # "CANCELLED"
    /\ Begin(r, "cancel", [NoReads EXCEPT !.notes = notes], "cancel")
    /\ UNCHANGED <<orderRow, payRows, delivery, ledgers, lock>>

\* Mutant of CancelWrite: the reason replaces the notes.
CancelWriteOverNotes(r) ==
    /\ pc[r] = "cancel"
    /\ OrderUnlocked
    /\ status' = "CANCELLED"
    /\ notes' \in {notes, {r}}
    /\ Continue(r, "cancelDeliveries")
    /\ UNCHANGED <<total, earner, stockDeducted, payRows, delivery, ledgers, lock, history>>

\* The notes are rewritten, with the reason appended, only if one was given.
CancelWrite(r) ==
    /\ pc[r] = "cancel"
    /\ OrderUnlocked
    /\ status' = "CANCELLED"
    /\ notes' \in {notes, seen[r].notes \cup {r}}
    /\ Continue(r, "cancelDeliveries")
    /\ UNCHANGED <<total, earner, stockDeducted, payRows, delivery, ledgers, lock, history>>

\* Also the last write of refund, after its transaction.
CancelDeliveries(r) ==
    /\ pc[r] = "cancelDeliveries"
    /\ CancelLinkedDeliveries
    /\ IF kind[r] = "cancel" THEN Continue(r, "readPayments") ELSE Return(r)
    /\ UNCHANGED <<orderRow, payRows, ledgers, lock, history>>

ReadPayments(r) ==
    /\ pc[r] = "readPayments"
    /\ IF CompletedRows = {}
       THEN Return(r)
       ELSE Remember(r, [seen[r] EXCEPT !.rows = CompletedRows], "reverse")
    /\ UNCHANGED <<orderRow, payRows, delivery, ledgers, lock, history>>

ReverseOne(r) ==
    /\ pc[r] = "reverse"
    /\ \E row \in seen[r].rows :
         LET rest == seen[r].rows \ {row}
         IN  /\ Reverse({row})
             /\ IF rest = {}
                THEN Return(r)
                ELSE Remember(r, [seen[r] EXCEPT !.rows = rest], "reverse")
    /\ UNCHANGED <<orderRow, delivery, ledgers, lock, history>>

(* OrdersService.refund: the status and the payments change in one          *)
(* transaction; the delivery rows follow outside it.                        *)

RefundRead(r) ==
    /\ status # "CANCELLED"
    /\ Begin(r, "refund", [NoReads EXCEPT !.notes = notes], "refundCheck")
    /\ UNCHANGED <<orderRow, payRows, delivery, ledgers, lock>>

RefundCheck(r) ==
    /\ pc[r] = "refundCheck"
    /\ IF CompletedRows # {} /\ \A p \in Payments : payStatus[p] # "REFUNDED"
       THEN Continue(r, "refundLock")
       ELSE Return(r)
    /\ UNCHANGED <<orderRow, payRows, delivery, ledgers, lock, history>>

\* tx.order.update is the first statement: the row is locked, the write pending.
RefundLock(r) ==
    /\ pc[r] = "refundLock"
    /\ OrderUnlocked
    /\ lock' = {r}
    /\ Continue(r, "refundRead")
    /\ UNCHANGED <<orderRow, payRows, delivery, ledgers, history>>

RefundReadPayments(r) ==
    /\ pc[r] = "refundRead"
    /\ Remember(r, [seen[r] EXCEPT !.rows = CompletedRows], "refundCommit")
    /\ UNCHANGED <<orderRow, payRows, delivery, ledgers, lock, history>>

RefundCommit(r) ==
    /\ pc[r] = "refundCommit"
    /\ status' = "CANCELLED"
    /\ notes' \in {notes, seen[r].notes \cup {r}}
    /\ Reverse(seen[r].rows)
    /\ lock' = {}
    /\ Continue(r, "cancelDeliveries")
    /\ UNCHANGED <<total, earner, stockDeducted, delivery, ledgers, history>>

-----------------------------------------------------------------------------
(* OrdersService.update: new lines, total and customer, and the payment     *)
(* rows brought into line, in one transaction.                              *)

\* A cashier may do it only while the order is pending; no other status guard.
EditRead(r) ==
    /\ \E cashier \in BOOLEAN :
         /\ cashier => status = "PENDING"
         /\ Begin(r, "edit", [NoReads EXCEPT !.cashier = cashier], "editLock")
    /\ UNCHANGED <<orderRow, payRows, delivery, ledgers, lock>>

\* Mutant of EditLock: the payments are read before order.update.
EditLockSkipped(r) ==
    /\ pc[r] = "editLock"
    /\ Continue(r, "editRead")
    /\ UNCHANGED <<orderRow, payRows, delivery, ledgers, lock, history>>

EditLock(r) ==
    /\ pc[r] = "editLock"
    /\ OrderUnlocked
    /\ lock' = {r}
    /\ Continue(r, "editRead")
    /\ UNCHANGED <<orderRow, payRows, delivery, ledgers, history>>

EditReadPayments(r) ==
    /\ pc[r] = "editRead"
    /\ Remember(r, [seen[r] EXCEPT !.rows = CompletedRows], "editCommit")
    /\ UNCHANGED <<orderRow, payRows, delivery, ledgers, lock, history>>

\* One completed row follows the total.  Several keep their amounts.  With none,
\* a row is created if the edit names a payment method, which is what `method` says.
SyncTransactions(rows, newTotal, method) ==
    LET ids == {row[1] : row \in rows}
    IN  \/ /\ Cardinality(rows) = 1
           /\ payAmount' = [p \in Payments |-> IF p \in ids THEN newTotal ELSE payAmount[p]]
           /\ UNCHANGED payStatus
        \/ /\ rows = {} /\ method
           /\ \E p \in Payments :
                /\ payStatus[p] = "none"
                /\ payStatus' = [payStatus EXCEPT ![p] = "COMPLETED"]
                /\ payAmount' = [payAmount EXCEPT ![p] = newTotal]
        \/ /\ IF rows = {} THEN ~method ELSE Cardinality(rows) # 1
           /\ UNCHANGED payRows

EditCommit(r) ==
    /\ pc[r] = "editCommit"
    /\ \E newTotal \in Totals, method \in BOOLEAN :
         /\ total' = newTotal
         /\ SyncTransactions(seen[r].rows, newTotal, method)
    /\ earner' \in BOOLEAN
    /\ lock' = {}
    /\ Return(r)
    /\ UNCHANGED <<status, notes, stockDeducted, delivery, ledgers, history>>

-----------------------------------------------------------------------------
(* DeliveryService.createDeliveryOrder, and updateStatus with its calls     *)
(* into the order, the loyalty account and the stock.                       *)

\* Any existing order takes a delivery row, whatever its status.
AttachDelivery(r) ==
    /\ \E d \in Deliveries :
         /\ delivery[d] = "none"
         /\ delivery' = [delivery EXCEPT ![d] = "NEW"]
    /\ pc[r] = "idle"
    /\ Goto(r, "done")
    /\ overlaps' = overlaps \cup {{"attach", kind[q]} : q \in InFlight}
    /\ UNCHANGED <<orderRow, payRows, ledgers, lock, kind, seen, split, broken>>

\* From NEW a delivery is completed or cancelled; from there it goes nowhere else.
DeliveryRead(r, k) ==
    /\ \E d \in Deliveries :
         /\ delivery[d] = "NEW"
         /\ Begin(r, k, [NoReads EXCEPT !.target = {d}], "deliver")
    /\ UNCHANGED <<orderRow, payRows, delivery, ledgers, lock>>

DeliveryTarget(k) == IF k = "deliver" THEN "COMPLETED" ELSE "CANCELLED"

\* Asked for the status it already has, a delivery is found again and answered:
\* nothing is done for its order, whatever became of the call that gave it the status.
RepeatRead(r, k) ==
    /\ \E d \in Deliveries :
         /\ delivery[d] = DeliveryTarget(k)
         /\ Begin(r, "repeat", [NoReads EXCEPT !.target = {d}], "findAgain")
    /\ UNCHANGED <<orderRow, payRows, delivery, ledgers, lock>>

RepeatAnswer(r) ==
    /\ pc[r] = "findAgain"
    /\ Return(r)
    /\ UNCHANGED <<orderRow, payRows, delivery, ledgers, lock, history>>

DeliveryWrite(r) ==
    /\ pc[r] = "deliver"
    /\ delivery' = [d \in Deliveries |->
                      IF d \in seen[r].target THEN DeliveryTarget(kind[r]) ELSE delivery[d]]
    /\ Continue(r, IF kind[r] = "abort" THEN "noteRead" ELSE "sync")
    /\ UNCHANGED <<orderRow, payRows, ledgers, lock, history>>

\* Mutant of DeliveryProgress: the branch for a cancelled order is lost.
ProgressOverCancelled(target, cur) ==
    IF target = "COMPLETED" THEN "COMPLETED"
    ELSE IF cur = "PENDING" THEN "CANCELLED" ELSE cur

\* The order status a delivery status calls for; `cur` itself when it calls for none.
DeliveryProgress(target, cur) ==
    IF cur = "CANCELLED" THEN cur
    ELSE IF target = "COMPLETED" THEN "COMPLETED"
    ELSE IF cur = "PENDING" THEN "CANCELLED" ELSE cur

SyncRead(r) ==
    /\ pc[r] = "sync"
    /\ LET next == DeliveryProgress(DeliveryTarget(kind[r]), status)
       IN  IF next = status
           THEN Continue(r, "refresh")
           ELSE Remember(r, [seen[r] EXCEPT !.status = next], "syncWrite")
    /\ UNCHANGED <<orderRow, payRows, delivery, ledgers, lock, history>>

SyncWrite(r) ==
    /\ pc[r] = "syncWrite"
    /\ OrderUnlocked
    /\ status' = seen[r].status
    /\ Continue(r, "refresh")
    /\ UNCHANGED <<total, earner, notes, stockDeducted, payRows, delivery, ledgers, lock, history>>

Refresh(r) ==
    /\ pc[r] = "refresh"
    /\ IF status = "COMPLETED" THEN Continue(r, "award") ELSE Return(r)
    /\ UNCHANGED <<orderRow, payRows, delivery, ledgers, lock, history>>

-----------------------------------------------------------------------------
(* OrdersService.tryAwardDeferredLoyaltyPoints: an early-out, then the same *)
(* guard inside a transaction that does not lock the order.                 *)

\* Mutant of MayAward: the look-up of an EARNED row is lost.
MayAwardAgain == earner /\ status # "CANCELLED"

MayAward == earner /\ status # "CANCELLED" /\ earned = 0

\* Mutant of AfterAward: the delivery forgets the stock.
AfterAwardNothing(r) == Return(r)

AfterAward(r) ==
    IF kind[r] = "complete" THEN Return(r) ELSE Continue(r, "deduct")

AwardCheck(r) ==
    /\ pc[r] \in {"award", "awardTx"}
    /\ IF MayAward
       THEN Continue(r, IF pc[r] = "award" THEN "awardTx" ELSE "awardWrite")
       ELSE AfterAward(r)
    /\ UNCHANGED <<orderRow, payRows, delivery, ledgers, lock, history>>

AwardCommit(r) ==
    /\ pc[r] = "awardWrite"
    /\ earned' = earned + 1
    /\ AfterAward(r)
    /\ UNCHANGED <<orderRow, payRows, delivery, usages, lock, history>>

(* OrdersService.tryDeductStockForOrder and InventoryService.deductForOrder:*)
(* the guard is read outside the transaction that deducts.                  *)

DeductCheck(r) ==
    /\ pc[r] = "deduct"
    /\ IF status = "COMPLETED" /\ ~stockDeducted
       THEN Continue(r, "deductTx")
       ELSE Return(r)
    /\ UNCHANGED <<orderRow, payRows, delivery, ledgers, lock, history>>

\* Mutant of DeductCommit: the order is not marked.
DeductUnmarked(r) ==
    /\ pc[r] = "deductTx"
    /\ OrderUnlocked
    /\ usages' \in {usages, usages + 1}
    /\ Return(r)
    /\ UNCHANGED <<orderRow, payRows, delivery, earned, lock, history>>

\* An order whose lines have no recipe only gets its mark.
DeductCommit(r) ==
    /\ pc[r] = "deductTx"
    /\ OrderUnlocked
    /\ usages' \in {usages, usages + 1}
    /\ stockDeducted' = TRUE
    /\ Return(r)
    /\ UNCHANGED <<status, total, earner, notes, payRows, delivery, earned, lock, history>>

-----------------------------------------------------------------------------
(* Notes appended by reading and rewriting the column: appendOrderNote, and *)
(* the reason a delivery was cancelled for.                                 *)

NoteRead(r) ==
    /\ Begin(r, "note", [NoReads EXCEPT !.notes = notes], "noteWrite")
    /\ UNCHANGED <<orderRow, payRows, delivery, ledgers, lock>>

AbortNoteRead(r) ==
    /\ pc[r] = "noteRead"
    /\ Remember(r, [seen[r] EXCEPT !.notes = notes], "noteWrite")
    /\ UNCHANGED <<orderRow, payRows, delivery, ledgers, lock, history>>

NoteWrite(r) ==
    /\ pc[r] = "noteWrite"
    /\ OrderUnlocked
    /\ notes' = seen[r].notes \cup {r}
    /\ IF kind[r] = "note" THEN Return(r) ELSE Continue(r, "sync")
    /\ UNCHANGED <<status, total, earner, stockDeducted, payRows, delivery, ledgers, lock, history>>

-----------------------------------------------------------------------------
\* A statement throws or the process dies: an open transaction rolls back,
\* what was already written stays.
Fail(r) ==
    /\ r \in InFlight
    /\ Leave(r, "failed")
    /\ lock' = lock \ {r}
    /\ broken' = IF kind[r] = "deliver" /\ pc[r] # "deliver"
                 THEN broken \cup seen[r].target ELSE broken
    /\ UNCHANGED <<orderRow, payRows, delivery, ledgers, split, overlaps>>

AllEnded == \A r \in Requests : pc[r] \in {"done", "failed"}

Ended == AllEnded /\ UNCHANGED vars

(* What resolvePaymentLines books of the order's total, which is not rounded *)
(* itself: a single tender is the total in whole cents, two tenders may miss *)
(* that by two cents.                                                        *)
PaidWithOne ==
    /\ split = FALSE
    /\ \E p \in Payments :
         /\ payStatus = [x \in Payments |-> IF x = p THEN "COMPLETED" ELSE "none"]
         /\ payAmount = [x \in Payments |-> IF x = p THEN roundMoney(total) ELSE 0]

PaidWithTwo ==
    /\ split = TRUE
    /\ \E p, q \in Payments, a, b \in Tenders :
         /\ p # q
         /\ Abs(a + b - roundMoney(total)) <= 2 * Cent
         /\ payStatus = [x \in Payments |-> IF x \in {p, q} THEN "COMPLETED" ELSE "none"]
         /\ payAmount = [x \in Payments |-> IF x = p THEN a ELSE IF x = q THEN b ELSE 0]

(* What OrdersService.create leaves: a counter sale completed, paid and     *)
(* already awarded, or a website or POS delivery order pending, paid in     *)
(* full, with or without its delivery row.                                  *)
Init ==
    /\ earner \in BOOLEAN
    /\ \/ /\ status = "COMPLETED"
          /\ delivery = [d \in Deliveries |-> "none"]
          /\ earned = IF earner THEN 1 ELSE 0
       \/ /\ status = "PENDING"
          /\ \E D \in SUBSET Deliveries :
               /\ \A d, e \in D : d = e
               /\ delivery = [d \in Deliveries |-> IF d \in D THEN "NEW" ELSE "none"]
          /\ earned = 0
    /\ total \in Totals
    /\ PaidWithOne \/ PaidWithTwo
    /\ notes = {}
    /\ stockDeducted = FALSE
    /\ usages = 0
    /\ lock = {}
    /\ pc = [r \in Requests |-> "idle"]
    /\ kind = [r \in Requests |-> "none"]
    /\ seen = [r \in Requests |-> NoReads]
    /\ overlaps = {}
    /\ broken = {}

UpdateStatus(r) ==
    \/ \E k \in {"complete", "reopen"} : StatusRead(r, k)
    \/ StatusWrite(r)
    \/ CancelRead(r) \/ CancelWrite(r) \/ ReadPayments(r) \/ ReverseOne(r)

Refund(r) ==
    \/ RefundRead(r) \/ RefundCheck(r) \/ RefundLock(r)
    \/ RefundReadPayments(r) \/ RefundCommit(r)

Edit(r) == EditRead(r) \/ EditLock(r) \/ EditReadPayments(r) \/ EditCommit(r)

UpdateDelivery(r) ==
    \/ \E k \in {"deliver", "abort"} : DeliveryRead(r, k) \/ RepeatRead(r, k)
    \/ RepeatAnswer(r) \/ DeliveryWrite(r) \/ AbortNoteRead(r) \/ SyncRead(r) \/ SyncWrite(r) \/ Refresh(r)

Next ==
    \/ \E r \in Requests :
         \/ UpdateStatus(r) \/ CancelDeliveries(r) \/ Refund(r) \/ Edit(r)
         \/ AttachDelivery(r) \/ UpdateDelivery(r)
         \/ AwardCheck(r) \/ AwardCommit(r) \/ DeductCheck(r) \/ DeductCommit(r)
         \/ NoteRead(r) \/ NoteWrite(r) \/ Fail(r)
    \/ Ended

Spec == Init /\ [][Next]_vars

-----------------------------------------------------------------------------
(* What the code keeps, and under which races.  Raced(A, B): a request of a *)
(* kind in A has been in flight together with one of a kind in B.           *)

Raced(A, B) == \E a \in A, b \in B : {a, b} \in overlaps

Cancellers  == {"cancel", "refund", "abort"}
NoteWriters == {"cancel", "refund", "abort", "note"}
Awarders    == {"complete", "deliver", "abort"}

Completed == {p \in Payments : payStatus[p] = "COMPLETED"}

\* Request r answers in this step, having run to its end.
Answers(r) == r \in InFlight /\ pc'[r] = "done"

\* Every column and every local holds a value of its type.
TypeOK ==
    /\ status \in OrderStatus
    /\ total \in Nat
    /\ earner \in BOOLEAN
    /\ notes \in SUBSET Requests
    /\ stockDeducted \in BOOLEAN
    /\ payStatus \in [Payments -> PaymentStatus]
    /\ payAmount \in [Payments -> Int]
    /\ delivery \in [Deliveries -> DeliveryStatus]
    /\ earned \in Nat
    /\ usages \in Nat
    /\ lock \in SUBSET Requests
    /\ pc \in [Requests -> Steps]
    /\ kind \in [Requests -> Kinds \cup {"none"}]
    /\ seen \in [Requests -> Reads]
    /\ split \in BOOLEAN
    /\ overlaps \in SUBSET SUBSET (Kinds \cup {"none"})
    /\ broken \in SUBSET Deliveries

\* Points of one sale are awarded once, at checkout or later, by whichever of
\* updateStatus and the delivery comes first, retries after a failure included;
\* only two requests of those kinds in flight together can break it
\* (tryAwardDeferredLoyaltyPoints re-checks inside a transaction that locks nothing).
AwardedOnce == ~Raced(Awarders, Awarders) => earned <= 1

\* The stock of one order is deducted once however many delivery rows it has and
\* however the order is reopened, refunded or retried in between; only two delivery
\* updates in flight together can break it (deductForOrder checks before it opens
\* its transaction).
StockDeductedOnce == ~Raced({"deliver", "abort"}, {"deliver", "abort"}) => usages <= 1

\* The ledger's sign rule: a REFUNDED row is negative money, a COMPLETED one is not.
\* Two cancellations, or a refund against an edit, may overlap freely (the reversal
\* writes minus the absolute amount; the edit's transaction waits for the order row);
\* updateStatus to CANCELLED against an edit is the one race it does not survive.
ReversedMoneyIsNegative ==
    /\ \A p \in Payments : payStatus[p] = "COMPLETED" => payAmount[p] >= 0
    /\ ~Raced({"cancel"}, {"edit"}) =>
         \A p \in Payments : payStatus[p] = "REFUNDED" => payAmount[p] <= 0

\* A sale paid with one tender has at most one completed payment, and it is the
\* order's total, as checkout rounds it to whole cents or as an edit stores it, in
\* every interleaving and after every failure: edits change the total and the payment
\* rows in one transaction behind the order row's lock.
TenderMatchesTotal ==
    ~split => /\ \A p, q \in Completed : p = q
              /\ \A p \in Completed : payAmount[p] \in {total, roundMoney(total)}

\* "Cancelled/refunded orders cannot be changed again": an order, and each of its
\* delivery rows, never leaves CANCELLED unless a request that completes or reopens
\* it was already past its guard when the cancellation was made.
CancelledIsFinal ==
    [][~Raced({"complete", "reopen", "deliver"}, Cancellers)
         => /\ status = "CANCELLED" => status' = "CANCELLED"
            /\ \A d \in Deliveries : delivery[d] = "CANCELLED" => delivery'[d] = "CANCELLED"]_vars

\* When a cancellation or a refund answers, the sale is cancelled as a whole: no
\* completed payment and no live delivery row is left.  Cancellations may overlap
\* one another, the appending of notes, and requests that died half-way.
CancelLeavesNothingOpen ==
    [][\A r \in Requests :
         /\ Answers(r)
         /\ kind[r] = "cancel" \/ (kind[r] = "refund" /\ pc[r] = "cancelDeliveries")
         /\ ~Raced({"cancel", "refund"}, {"complete", "reopen", "edit", "deliver", "attach"})
         => /\ status' = "CANCELLED"
            /\ \A p \in Payments : payStatus'[p] # "COMPLETED"
            /\ \A d \in Deliveries : delivery'[d] \in {"none", "CANCELLED"}]_vars

\* When a delivery's completion has run to its end, the sale it belongs to is settled
\* with it: the order is completed, its points are in the ledger and its stock is
\* deducted, unless the order has been cancelled.  A repeat of the call answers without
\* looking: the stock is deducted then unless the order has been cancelled, a completion
\* of that delivery is in flight, or one broke off past the delivery's row -- which no
\* repeat makes good.  Cancellations of any kind may overlap either.
DeliverySettlesSale ==
    [][\A r \in Requests :
         Answers(r) /\ ~Raced({"deliver"}, {"complete", "reopen", "edit", "deliver"})
         => /\ kind[r] = "deliver" =>
                 \/ status' = "CANCELLED"
                 \/ /\ status' = "COMPLETED"
                    /\ earner => earned' >= 1
                    /\ stockDeducted'
            /\ kind[r] = "repeat" /\ ~Raced({"repeat"}, {"deliver"}) =>
                 \A d \in seen[r].target \ broken :
                    delivery[d] = "COMPLETED" => status' = "CANCELLED" \/ stockDeducted']_vars

\* Text appended to the order's notes (payment references, cancellation and refund
\* reasons) is never lost, unless two requests that rewrite the column overlap.
NotesAreKept ==
    [][~Raced(NoteWriters, NoteWriters) => notes \subseteq notes']_vars

\* orders.controller: "Cashier: pending only".  The statement that changes the status,
\* or the commit of an edit, never lands for a cashier on a settled order, unless a
\* request that settles or cancels it overlapped.
CashierChangesPendingOnly ==
    [][\A r \in Requests :
         /\ pc[r] \in {"setStatus", "editCommit"} /\ pc'[r] \notin {pc[r], "failed"}
         /\ seen[r].cashier
         /\ ~Raced({"complete", "reopen", "edit"}, Cancellers \cup {"complete", "deliver"})
         => status = "PENDING"]_vars

-----------------------------------------------------------------------------
(* What the repository says of these requests and the code does not keep.   *)

\* tryDeductStockForOrder is "idempotent": the order's stock is deducted at most once.
StockDeductionIdempotent == usages <= 1

\* "Canceled orders: payment rows should be refunded": between requests that never
\* overlapped and never failed, a cancelled order has no completed payment.
CancelledOrdersAreRefunded ==
    /\ overlaps = {}
    /\ \A r \in Requests : pc[r] \in {"idle", "done"}
    /\ status = "CANCELLED"
    => Completed = {}
=============================================================================
