------------------------ MODULE OrderLifecycleProofs ------------------------
(* Theorems of OrderLifecycle for every set of requests, payment ids,       *)
(* delivery ids and totals.                                                 *)
EXTENDS OrderLifecycle, FiniteSetTheorems, TLAPS

\* An action of one request, as Next lists them.
Step(r) ==
    \/ UpdateStatus(r) \/ CancelDeliveries(r) \/ Refund(r) \/ Edit(r)
    \/ AttachDelivery(r) \/ UpdateDelivery(r)
    \/ AwardCheck(r) \/ AwardCommit(r) \/ DeductCheck(r) \/ DeductCommit(r)
    \/ NoteRead(r) \/ NoteWrite(r) \/ Fail(r)

\* What a handler remembers is typed whenever what it reads is.
LEMMA ReadsAreTyped ==
    ASSUME TypeOK
    PROVE  /\ NoReads \in Reads
           /\ CompletedRows \in SUBSET (Payments \X Int)
           /\ InFlight \subseteq Requests
  BY DEF TypeOK, NoReads, Reads, OrderStatus, CompletedRows, InFlight

\* What a request remembers of its first read is typed.
LEMMA FirstReadsAreTyped ==
    ASSUME TypeOK
    PROVE  /\ \A c \in BOOLEAN :
                /\ [NoReads EXCEPT !.status = status, !.cashier = c] \in Reads
                /\ [NoReads EXCEPT !.cashier = c] \in Reads
           /\ [NoReads EXCEPT !.notes = notes] \in Reads
           /\ \A d \in Deliveries : [NoReads EXCEPT !.target = {d}] \in Reads
  BY DEF TypeOK, NoReads, Reads, OrderStatus

\* Reversing typed rows leaves the payments typed.
LEMMA ReverseIsTyped ==
    ASSUME NEW rows \in SUBSET (Payments \X Int), TypeOK, Reverse(rows)
    PROVE  /\ payStatus' \in [Payments -> PaymentStatus]
           /\ payAmount' \in [Payments -> Int]
  <1> DEFINE ids == {row[1] : row \in rows}
             Read(p) == CHOOSE row \in rows : row[1] = p
  <1>1. ASSUME NEW p \in ids  PROVE -Abs(Read(p)[2]) \in Int
    <2>1. Read(p) \in rows
      BY <1>1
    <2>2. Read(p)[2] \in Int
      BY <2>1
    <2> QED BY <2>2 DEF Abs
  <1>2. payStatus' = [p \in Payments |-> IF p \in ids THEN "REFUNDED" ELSE payStatus[p]]
    BY DEF Reverse
  <1>3. payAmount' = [p \in Payments |-> IF p \in ids THEN -Abs(Read(p)[2]) ELSE payAmount[p]]
    BY DEF Reverse
  <1> HIDE DEF ids, Read
  <1> QED BY <1>1, <1>2, <1>3 DEF TypeOK, PaymentStatus

(* TypeOK in three parts: the database, the handlers' locals, the history.  *)
DataOK ==
    /\ status \in OrderStatus
    /\ total \in Nat
    /\ earner \in BOOLEAN
    /\ notes \in SUBSET Requests
    /\ stockDeducted \in BOOLEAN
    /\ payStatus \in [Payments -> PaymentStatus]
    /\ payAmount \in [Payments -> Int]
    /\ delivery \in [Deliveries -> DeliveryStatus]
    /\ earned \in Nat
    /\ usages \in Nat
    /\ lock \in SUBSET Requests

LocalOK ==
    /\ pc \in [Requests -> Steps]
    /\ kind \in [Requests -> Kinds \cup {"none"}]
    /\ seen \in [Requests -> Reads]

HistoryOK ==
    /\ split \in BOOLEAN
    /\ overlaps \in SUBSET SUBSET (Kinds \cup {"none"})
    /\ broken \in SUBSET Deliveries

\* The three parts are TypeOK.
LEMMA TypeParts == TypeOK <=> DataOK /\ LocalOK /\ HistoryOK
  BY DEF TypeOK, DataOK, LocalOK, HistoryOK

\* The control operators leave the handlers' locals typed.
LEMMA BeginIsTyped ==
    ASSUME TypeOK, NEW r \in Requests, NEW k \in Kinds, NEW reads \in Reads,
           NEW step \in Steps, Begin(r, k, reads, step)
    PROVE  LocalOK' /\ HistoryOK'
  BY ReadsAreTyped DEF TypeOK, Begin, Goto, LocalOK, HistoryOK

\* So does leaving a handler ...
LEMMA LeaveIsTyped ==
    ASSUME TypeOK, NEW r \in Requests, NEW step \in Steps, Leave(r, step)
    PROVE  LocalOK'
  BY ReadsAreTyped DEF TypeOK, Leave, Goto, LocalOK

\* ... answering ...
LEMMA ReturnIsTyped ==
    ASSUME TypeOK, NEW r \in Requests, Return(r)
    PROVE  LocalOK'
  BY LeaveIsTyped DEF Return, Steps

\* ... going on ...
LEMMA ContinueIsTyped ==
    ASSUME TypeOK, NEW r \in Requests, NEW step \in Steps, Continue(r, step)
    PROVE  LocalOK'
  BY DEF TypeOK, Continue, Goto, LocalOK

\* ... and going on with what was read.
LEMMA RememberIsTyped ==
    ASSUME TypeOK, NEW r \in Requests, NEW reads \in Reads, NEW step \in Steps,
           Remember(r, reads, step)
    PROVE  LocalOK'
  BY DEF TypeOK, Remember, Goto, LocalOK

\* Every action of a request keeps every column and every local typed.
LEMMA StepIsTyped ==
    ASSUME TypeOK, NEW r \in Requests, Step(r)
    PROVE  TypeOK'
<1> USE DEF Steps, InTransaction, DataOK, HistoryOK, history, orderRow, payRows, ledgers
<1>1. ASSUME NEW k \in {"complete", "reopen"}, StatusRead(r, k)  PROVE TypeOK'
  <2>0. PICK cashier \in BOOLEAN :
          Begin(r, k, [NoReads EXCEPT !.status = status, !.cashier = cashier], "setStatus")
    BY <1>1 DEF StatusRead
  <2>01. /\ [NoReads EXCEPT !.status = status, !.cashier = cashier] \in Reads
         /\ k \in Kinds /\ "setStatus" \in Steps
    BY <2>0, FirstReadsAreTyped DEF Kinds
  <2>1. LocalOK' /\ HistoryOK'
    <3> DEFINE reads == [NoReads EXCEPT !.status = status, !.cashier = cashier]
    <3> HIDE DEF reads, Steps
    <3> QED BY <2>0, <2>01, BeginIsTyped DEF reads
  <2>2. DataOK'
    BY <1>1, TypeParts DEF StatusRead
  <2> QED BY <2>1, <2>2 DEF TypeOK, DataOK, LocalOK, HistoryOK
<1>2. ASSUME StatusWrite(r)  PROVE TypeOK'
  <2>1. LocalOK'
    BY <1>2, ReturnIsTyped, ContinueIsTyped DEF StatusWrite
  <2>2. DataOK' /\ HistoryOK'
    BY <1>2, TypeParts DEF StatusWrite, OrderStatus
  <2> QED BY <2>1, <2>2 DEF TypeOK, DataOK, LocalOK, HistoryOK
<1>3. ASSUME CancelRead(r)  PROVE TypeOK'
  <2>1. LocalOK' /\ HistoryOK'
    BY <1>3, FirstReadsAreTyped, BeginIsTyped DEF CancelRead, Kinds
  <2>2. DataOK'
    BY <1>3, TypeParts DEF CancelRead
  <2> QED BY <2>1, <2>2 DEF TypeOK, DataOK, LocalOK, HistoryOK
<1>4. ASSUME CancelWrite(r)  PROVE TypeOK'
  <2>1. LocalOK'
    BY <1>4, ReturnIsTyped, ContinueIsTyped DEF CancelWrite
  <2>2. DataOK' /\ HistoryOK'
    BY <1>4, TypeParts DEF CancelWrite, OrderStatus, Reads, LocalOK
  <2> QED BY <2>1, <2>2 DEF TypeOK, DataOK, LocalOK, HistoryOK
<1>5. ASSUME CancelDeliveries(r)  PROVE TypeOK'
  <2>1. LocalOK'
    BY <1>5, ReturnIsTyped, ContinueIsTyped DEF CancelDeliveries
  <2>2. DataOK' /\ HistoryOK'
    BY <1>5, TypeParts DEF CancelDeliveries, CancelLinkedDeliveries, DeliveryStatus
  <2> QED BY <2>1, <2>2 DEF TypeOK, DataOK, LocalOK, HistoryOK
<1>6. ASSUME ReadPayments(r)  PROVE TypeOK'
  <2>1. LocalOK'
    BY <1>6, ReadsAreTyped, RememberIsTyped, ReturnIsTyped, ContinueIsTyped DEF ReadPayments,
         Reads, TypeOK
  <2>2. DataOK' /\ HistoryOK'
    BY <1>6, TypeParts DEF ReadPayments
  <2> QED BY <2>1, <2>2 DEF TypeOK, DataOK, LocalOK, HistoryOK
<1>7. ASSUME ReverseOne(r)  PROVE TypeOK'
  <2>0. PICK row \in seen[r].rows :
          /\ Reverse({row})
          /\ \/ Return(r)
             \/ Remember(r, [seen[r] EXCEPT !.rows = seen[r].rows \ {row}], "reverse")
    BY <1>7 DEF ReverseOne
  <2>01. /\ {row} \in SUBSET (Payments \X Int)
         /\ [seen[r] EXCEPT !.rows = seen[r].rows \ {row}] \in Reads
    <3>1. seen[r] \in Reads
      BY DEF TypeOK
    <3>2. seen[r].rows \in SUBSET (Payments \X Int)
      BY <3>1 DEF Reads
    <3> QED BY <3>1, <3>2 DEF Reads
  <2>1. LocalOK'
    BY <2>0, <2>01, RememberIsTyped, ReturnIsTyped
  <2>02. /\ payStatus' \in [Payments -> PaymentStatus]
         /\ payAmount' \in [Payments -> Int]
    BY <2>0, <2>01, ReverseIsTyped
  <2>03. UNCHANGED <<orderRow, delivery, ledgers, lock, history>>
    BY <1>7 DEF ReverseOne
  <2>2. DataOK' /\ HistoryOK'
    BY <2>02, <2>03 DEF DataOK, history, HistoryOK, TypeOK, orderRow, ledgers
  <2> QED BY <2>1, <2>2 DEF TypeOK, DataOK, LocalOK, HistoryOK
<1>8. ASSUME RefundRead(r)  PROVE TypeOK'
  <2>1. LocalOK' /\ HistoryOK'
    BY <1>8, FirstReadsAreTyped, BeginIsTyped DEF RefundRead, Kinds
  <2>2. DataOK'
    BY <1>8, TypeParts DEF RefundRead
  <2> QED BY <2>1, <2>2 DEF TypeOK, DataOK, LocalOK, HistoryOK
<1>9. ASSUME RefundCheck(r)  PROVE TypeOK'
  <2>1. LocalOK'
    BY <1>9, ReturnIsTyped, ContinueIsTyped DEF RefundCheck
  <2>2. DataOK' /\ HistoryOK'
    BY <1>9, TypeParts DEF RefundCheck
  <2> QED BY <2>1, <2>2 DEF TypeOK, DataOK, LocalOK, HistoryOK
<1>10. ASSUME RefundLock(r)  PROVE TypeOK'
  <2>1. LocalOK'
    BY <1>10, ReturnIsTyped, ContinueIsTyped DEF RefundLock
  <2>2. DataOK' /\ HistoryOK'
    BY <1>10, TypeParts DEF RefundLock
  <2> QED BY <2>1, <2>2 DEF TypeOK, DataOK, LocalOK, HistoryOK
<1>11. ASSUME RefundReadPayments(r)  PROVE TypeOK'
  <2>1. LocalOK'
    BY <1>11, ReadsAreTyped, RememberIsTyped, ReturnIsTyped, ContinueIsTyped
         DEF RefundReadPayments, Reads, TypeOK
  <2>2. DataOK' /\ HistoryOK'
    BY <1>11, TypeParts DEF RefundReadPayments
  <2> QED BY <2>1, <2>2 DEF TypeOK, DataOK, LocalOK, HistoryOK
<1>12. ASSUME RefundCommit(r)  PROVE TypeOK'
  <2>1. LocalOK'
    BY <1>12, ReturnIsTyped, ContinueIsTyped DEF RefundCommit
  <2>2. DataOK' /\ HistoryOK'
    BY <1>12, TypeParts, ReverseIsTyped, ReadsAreTyped DEF RefundCommit, TypeOK, OrderStatus,
         Reads
  <2> QED BY <2>1, <2>2 DEF TypeOK, DataOK, LocalOK, HistoryOK
<1>13. ASSUME EditRead(r)  PROVE TypeOK'
  <2>1. LocalOK' /\ HistoryOK'
    BY <1>13, FirstReadsAreTyped, BeginIsTyped DEF EditRead, Kinds
  <2>2. DataOK'
    BY <1>13, TypeParts DEF EditRead
  <2> QED BY <2>1, <2>2 DEF TypeOK, DataOK, LocalOK, HistoryOK
<1>14. ASSUME EditLock(r)  PROVE TypeOK'
  <2>1. LocalOK'
    BY <1>14, ReturnIsTyped, ContinueIsTyped DEF EditLock
  <2>2. DataOK' /\ HistoryOK'
    BY <1>14, TypeParts DEF EditLock
  <2> QED BY <2>1, <2>2 DEF TypeOK, DataOK, LocalOK, HistoryOK
<1>15. ASSUME EditReadPayments(r)  PROVE TypeOK'
  <2>1. LocalOK'
    BY <1>15, ReadsAreTyped, RememberIsTyped, ReturnIsTyped, ContinueIsTyped
         DEF EditReadPayments, Reads, TypeOK
  <2>2. DataOK' /\ HistoryOK'
    BY <1>15, TypeParts DEF EditReadPayments
  <2> QED BY <2>1, <2>2 DEF TypeOK, DataOK, LocalOK, HistoryOK
<1>16. ASSUME EditCommit(r)  PROVE TypeOK'
  <2>1. LocalOK'
    BY <1>16, ReturnIsTyped, ContinueIsTyped DEF EditCommit
  <2>2. DataOK' /\ HistoryOK'
    BY <1>16, TypeParts, TotalsAreMoney DEF EditCommit, SyncTransactions, PaymentStatus
  <2> QED BY <2>1, <2>2 DEF TypeOK, DataOK, LocalOK, HistoryOK
<1>17. ASSUME AttachDelivery(r)  PROVE TypeOK'
  <2>1. LocalOK'
    BY <1>17 DEF AttachDelivery, Goto, TypeOK, LocalOK
  <2>2. DataOK' /\ HistoryOK'
    BY <1>17, TypeParts DEF AttachDelivery, DeliveryStatus, Kinds, InFlight, LocalOK
  <2> QED BY <2>1, <2>2 DEF TypeOK, DataOK, LocalOK, HistoryOK
<1>18. ASSUME NEW k \in {"deliver", "abort"}, DeliveryRead(r, k)  PROVE TypeOK'
  <2>1. LocalOK' /\ HistoryOK'
    BY <1>18, FirstReadsAreTyped, BeginIsTyped DEF DeliveryRead, Kinds
  <2>2. DataOK'
    BY <1>18, TypeParts DEF DeliveryRead
  <2> QED BY <2>1, <2>2 DEF TypeOK, DataOK, LocalOK, HistoryOK
<1>19. ASSUME DeliveryWrite(r)  PROVE TypeOK'
  <2>1. LocalOK'
    BY <1>19, ReturnIsTyped, ContinueIsTyped DEF DeliveryWrite
  <2>2. DataOK' /\ HistoryOK'
    BY <1>19, TypeParts DEF DeliveryWrite, DeliveryTarget, DeliveryStatus
  <2> QED BY <2>1, <2>2 DEF TypeOK, DataOK, LocalOK, HistoryOK
<1>20. ASSUME AbortNoteRead(r)  PROVE TypeOK'
  <2>1. LocalOK'
    BY <1>20, ReadsAreTyped, RememberIsTyped, ReturnIsTyped, ContinueIsTyped DEF AbortNoteRead,
         Reads, TypeOK
  <2>2. DataOK' /\ HistoryOK'
    BY <1>20, TypeParts DEF AbortNoteRead
  <2> QED BY <2>1, <2>2 DEF TypeOK, DataOK, LocalOK, HistoryOK
<1>21. ASSUME SyncRead(r)  PROVE TypeOK'
  <2>1. LocalOK'
    BY <1>21, ReadsAreTyped, RememberIsTyped, ReturnIsTyped, ContinueIsTyped DEF SyncRead,
         Reads, TypeOK, DeliveryProgress, DeliveryTarget, OrderStatus
  <2>2. DataOK' /\ HistoryOK'
    BY <1>21, TypeParts DEF SyncRead
  <2> QED BY <2>1, <2>2 DEF TypeOK, DataOK, LocalOK, HistoryOK
<1>22. ASSUME SyncWrite(r)  PROVE TypeOK'
  <2>1. LocalOK'
    BY <1>22, ReturnIsTyped, ContinueIsTyped DEF SyncWrite
  <2>2. DataOK' /\ HistoryOK'
    BY <1>22, TypeParts DEF SyncWrite, Reads, LocalOK
  <2> QED BY <2>1, <2>2 DEF TypeOK, DataOK, LocalOK, HistoryOK
<1>23. ASSUME Refresh(r)  PROVE TypeOK'
  <2>1. LocalOK'
    BY <1>23, ReturnIsTyped, ContinueIsTyped DEF Refresh
  <2>2. DataOK' /\ HistoryOK'
    BY <1>23, TypeParts DEF Refresh
  <2> QED BY <2>1, <2>2 DEF TypeOK, DataOK, LocalOK, HistoryOK
<1>24. ASSUME AwardCheck(r)  PROVE TypeOK'
  <2>1. LocalOK'
    BY <1>24, ReturnIsTyped, ContinueIsTyped DEF AwardCheck, AfterAward
  <2>2. DataOK' /\ HistoryOK'
    BY <1>24, TypeParts DEF AwardCheck
  <2> QED BY <2>1, <2>2 DEF TypeOK, DataOK, LocalOK, HistoryOK
<1>25. ASSUME AwardCommit(r)  PROVE TypeOK'
  <2>1. LocalOK'
    BY <1>25, ReturnIsTyped, ContinueIsTyped DEF AwardCommit, AfterAward
  <2>2. DataOK' /\ HistoryOK'
    BY <1>25, TypeParts DEF AwardCommit
  <2> QED BY <2>1, <2>2 DEF TypeOK, DataOK, LocalOK, HistoryOK
<1>26. ASSUME DeductCheck(r)  PROVE TypeOK'
  <2>1. LocalOK'
    BY <1>26, ReturnIsTyped, ContinueIsTyped DEF DeductCheck
  <2>2. DataOK' /\ HistoryOK'
    BY <1>26, TypeParts DEF DeductCheck
  <2> QED BY <2>1, <2>2 DEF TypeOK, DataOK, LocalOK, HistoryOK
<1>27. ASSUME DeductCommit(r)  PROVE TypeOK'
  <2>1. LocalOK'
    BY <1>27, ReturnIsTyped, ContinueIsTyped DEF DeductCommit
  <2>2. DataOK' /\ HistoryOK'
    BY <1>27, TypeParts DEF DeductCommit
  <2> QED BY <2>1, <2>2 DEF TypeOK, DataOK, LocalOK, HistoryOK
<1>28. ASSUME NoteRead(r)  PROVE TypeOK'
  <2>1. LocalOK' /\ HistoryOK'
    BY <1>28, FirstReadsAreTyped, BeginIsTyped DEF NoteRead, Kinds
  <2>2. DataOK'
    BY <1>28, TypeParts DEF NoteRead
  <2> QED BY <2>1, <2>2 DEF TypeOK, DataOK, LocalOK, HistoryOK
<1>29. ASSUME NoteWrite(r)  PROVE TypeOK'
  <2>1. LocalOK'
    BY <1>29, ReturnIsTyped, ContinueIsTyped DEF NoteWrite
  <2>2. DataOK' /\ HistoryOK'
    BY <1>29, TypeParts DEF NoteWrite, Reads, LocalOK
  <2> QED BY <2>1, <2>2 DEF TypeOK, DataOK, LocalOK, HistoryOK
<1>30. ASSUME Fail(r)  PROVE TypeOK'
  <2>1. LocalOK'
    BY <1>30, LeaveIsTyped DEF Fail
  <2>2. DataOK' /\ HistoryOK'
    BY <1>30, TypeParts DEF Fail, LocalOK, Reads
  <2> QED BY <2>1, <2>2 DEF TypeOK, DataOK, LocalOK, HistoryOK
<1>31. ASSUME NEW k \in {"deliver", "abort"}, RepeatRead(r, k)  PROVE TypeOK'
  <2>1. LocalOK' /\ HistoryOK'
    BY <1>31, FirstReadsAreTyped, BeginIsTyped DEF RepeatRead, Kinds
  <2>2. DataOK'
    BY <1>31, TypeParts DEF RepeatRead
  <2> QED BY <2>1, <2>2 DEF TypeOK, DataOK, LocalOK, HistoryOK
<1>32. ASSUME RepeatAnswer(r)  PROVE TypeOK'
  <2>1. LocalOK'
    BY <1>32, ReturnIsTyped DEF RepeatAnswer
  <2>2. DataOK' /\ HistoryOK'
    BY <1>32, TypeParts DEF RepeatAnswer
  <2> QED BY <2>1, <2>2 DEF TypeOK, DataOK, LocalOK, HistoryOK
<1> QED
  BY <1>1, <1>2, <1>3, <1>4, <1>5, <1>6, <1>7, <1>8, <1>9, <1>10, <1>11, <1>12, <1>13, <1>14,
       <1>15, <1>16, <1>17, <1>18, <1>19, <1>20, <1>21, <1>22, <1>23, <1>24, <1>25, <1>26,
       <1>27, <1>28, <1>29, <1>30, <1>31, <1>32
  DEF Step, UpdateStatus, Refund, Edit, UpdateDelivery

\* Rounding to whole cents leaves money.
LEMMA RoundedIsMoney ==
    ASSUME NEW x \in Nat
    PROVE  roundMoney(x) \in Nat
  BY DEF roundMoney, Cent

\* Checkout leaves every column typed.
LEMMA InitTypeOK == Init => TypeOK
<1> SUFFICES ASSUME Init PROVE TypeOK
  OBVIOUS
<1>1. LocalOK /\ HistoryOK
  <2>1. NoReads \in Reads
    BY DEF NoReads, Reads, OrderStatus
  <2>2. /\ pc \in [Requests -> Steps]
        /\ kind \in [Requests -> Kinds \cup {"none"}]
        /\ seen \in [Requests -> Reads]
    <3>1. "idle" \in Steps
      BY DEF Steps
    <3> QED BY <2>1, <3>1 DEF Init
  <2>3. split \in BOOLEAN
    BY Zenon DEF Init, PaidWithOne, PaidWithTwo
  <2> QED BY <2>2, <2>3 DEF Init, LocalOK, HistoryOK
<1>2. /\ payStatus \in [Payments -> PaymentStatus]
      /\ payAmount \in [Payments -> Int]
      /\ total \in Nat
  <2>1. total \in Nat /\ roundMoney(total) \in Nat
    BY RoundedIsMoney, TotalsAreMoney DEF Init
  <2>2. CASE PaidWithOne
    BY <2>1, <2>2 DEF PaidWithOne, PaymentStatus
  <2>3. CASE PaidWithTwo
    BY <2>1, <2>3, TendersAreMoney DEF PaidWithTwo, PaymentStatus
  <2> QED BY <2>1, <2>2, <2>3 DEF Init
<1>3. /\ status \in OrderStatus /\ earner \in BOOLEAN /\ notes \in SUBSET Requests
      /\ stockDeducted \in BOOLEAN /\ earned \in Nat /\ usages \in Nat
      /\ lock \in SUBSET Requests
  <2>1. /\ earner \in BOOLEAN /\ notes = {} /\ stockDeducted \in BOOLEAN /\ lock = {}
        /\ status = "PENDING" \/ status = "COMPLETED"
    BY Zenon DEF Init
  <2>2. usages = 0 /\ (earned = 0 \/ earned = 1)
    BY Zenon DEF Init
  <2>3. earned \in Nat /\ usages \in Nat
    BY <2>2
  <2>4. status \in OrderStatus
    BY <2>1 DEF OrderStatus
  <2> QED BY Zenon, <2>1, <2>3, <2>4
<1>4. delivery \in [Deliveries -> DeliveryStatus]
  BY DEF Init, DeliveryStatus
<1> QED BY <1>1, <1>2, <1>3, <1>4 DEF TypeOK, LocalOK, HistoryOK

-----------------------------------------------------------------------------
\* What kind of request can be at each step.
KindAt(step) ==
    CASE step = "setStatus" -> {"complete", "reopen"}
      [] step \in {"cancel", "readPayments", "reverse"} -> {"cancel"}
      [] step = "cancelDeliveries" -> {"cancel", "refund"}
      [] step \in {"refundCheck", "refundLock", "refundRead", "refundCommit"} -> {"refund"}
      [] step \in {"editLock", "editRead", "editCommit"} -> {"edit"}
      [] step \in {"deliver", "sync", "syncWrite", "refresh", "deduct", "deductTx"} -> {"deliver", "abort"}
      [] step = "findAgain" -> {"repeat"}
      [] step = "noteRead" -> {"abort"}
      [] step = "noteWrite" -> {"note", "abort"}
      [] step \in {"award", "awardTx", "awardWrite"} -> Awarders
      [] OTHER -> {"none"}

\* Every request stands at a step its kind of request has.
KindsMatchSteps == \A r \in Requests : kind[r] \in KindAt(pc[r])

\* Two requests in flight are on record as having overlapped.
OverlapsAreSeen ==
    \A q, r \in InFlight : q # r => {kind[q], kind[r]} \in overlaps

\* A step of request r leaves the other requests' locals, and the history, alone.
Only(r) ==
    /\ \A q \in Requests \ {r} :
         pc'[q] = pc[q] /\ kind'[q] = kind[q] /\ seen'[q] = seen[q]
    /\ split' = split

\* A handler touches its own locals only.
LEMMA Locality ==
    ASSUME TypeOK, NEW r \in Requests, Step(r)
    PROVE  Only(r)
<1> USE DEF TypeOK, Only, Begin, Leave, Return, Continue, Remember, Goto, history
<1>1. CASE UpdateStatus(r)
  BY <1>1 DEF UpdateStatus, StatusRead, StatusWrite, CancelRead, CancelWrite, ReadPayments,
       ReverseOne
<1>2. CASE CancelDeliveries(r) \/ Refund(r)
  BY <1>2 DEF CancelDeliveries, Refund, RefundRead, RefundCheck, RefundLock, RefundReadPayments,
       RefundCommit
<1>3. CASE Edit(r) \/ AttachDelivery(r)
  BY <1>3 DEF Edit, EditRead, EditLock, EditReadPayments, EditCommit, AttachDelivery
<1>4. CASE UpdateDelivery(r)
  BY <1>4 DEF UpdateDelivery, DeliveryRead, RepeatRead, RepeatAnswer, DeliveryWrite, AbortNoteRead, SyncRead, SyncWrite,
       Refresh
<1>5. CASE AwardCheck(r) \/ AwardCommit(r) \/ DeductCheck(r) \/ DeductCommit(r)
  BY <1>5 DEF AwardCheck, AwardCommit, AfterAward, DeductCheck, DeductCommit
<1>6. CASE NoteRead(r) \/ NoteWrite(r) \/ Fail(r)
  BY <1>6 DEF NoteRead, NoteWrite, Fail
<1> QED BY <1>1, <1>2, <1>3, <1>4, <1>5, <1>6 DEF Step

\* A request keeps its kind while in flight; a new one is recorded against all others.
LEMMA OverlapStep ==
    ASSUME TypeOK, NEW r \in Requests, Step(r)
    PROVE  /\ overlaps \subseteq overlaps'
           /\ \/ /\ r \in InFlight 
                 /\ kind'[r] = kind[r]
              \/ pc'[r] \in {"done", "failed"}
              \/ \E k \in Kinds : kind'[r] = k /\ overlaps' = overlaps \cup {{k, kind[q]} : q \in InFlight}
<1> USE DEF TypeOK, Begin, Leave, Return, Continue, Remember, Goto, history, InFlight
<1>1. CASE UpdateStatus(r)
  <2>1. ASSUME NEW k \in {"complete", "reopen"}, StatusRead(r, k)
        PROVE  kind'[r] = k /\ overlaps' = overlaps \cup {{k, kind[q]} : q \in InFlight}
    BY <2>1 DEF StatusRead
  <2>3. CASE CancelRead(r)
    BY <2>3 DEF CancelRead, Kinds
  <2>2. CASE StatusWrite(r) \/ CancelWrite(r) \/ ReadPayments(r) \/ ReverseOne(r)
    BY <2>2 DEF StatusWrite, CancelWrite, ReadPayments, ReverseOne
  <2> QED BY <1>1, <2>1, <2>2, <2>3 DEF UpdateStatus, Kinds
<1>2. CASE CancelDeliveries(r) \/ Refund(r)
  BY <1>2 DEF CancelDeliveries, Refund, RefundRead, RefundCheck, RefundLock, RefundReadPayments,
       RefundCommit, Kinds
<1>3. CASE Edit(r)
  BY <1>3 DEF Edit, EditRead, EditLock, EditReadPayments, EditCommit, Kinds
<1>7. CASE AttachDelivery(r)
  BY <1>7 DEF AttachDelivery
<1>4. CASE UpdateDelivery(r)
  BY <1>4 DEF UpdateDelivery, DeliveryRead, RepeatRead, RepeatAnswer, DeliveryWrite, AbortNoteRead, SyncRead, SyncWrite,
       Refresh, Kinds
<1>5. CASE AwardCheck(r) \/ AwardCommit(r) \/ DeductCheck(r) \/ DeductCommit(r)
  BY <1>5 DEF AwardCheck, AwardCommit, AfterAward, DeductCheck, DeductCommit
<1>6. CASE NoteRead(r) \/ NoteWrite(r) \/ Fail(r)
  BY <1>6 DEF NoteRead, NoteWrite, Fail, Kinds
<1> QED BY <1>1, <1>2, <1>3, <1>4, <1>5, <1>6, <1>7 DEF Step

\* No handler strays into a step of another kind of request.
LEMMA KindStep ==
    ASSUME TypeOK, KindsMatchSteps, NEW r \in Requests, Step(r)
    PROVE  kind'[r] \in KindAt(pc'[r])
<1> USE DEF TypeOK, KindsMatchSteps, KindAt, Awarders, Begin, Leave, Return, Continue, Remember,
     Goto
<1>1. CASE UpdateStatus(r)
  <2>1. CASE \E k \in {"complete", "reopen"} : StatusRead(r, k)
    BY <2>1 DEF StatusRead
  <2>2. CASE StatusWrite(r)
    BY <2>2 DEF StatusWrite
  <2>3. CASE CancelRead(r) \/ CancelWrite(r)
    BY <2>3 DEF CancelRead, CancelWrite
  <2>4. CASE ReadPayments(r)
    BY <2>4 DEF ReadPayments
  <2>5. CASE ReverseOne(r)
    BY <2>5 DEF ReverseOne
  <2> QED BY <1>1, <2>1, <2>2, <2>3, <2>4, <2>5 DEF UpdateStatus
<1>2. CASE CancelDeliveries(r) \/ Refund(r)
  BY <1>2 DEF CancelDeliveries, Refund, RefundRead, RefundCheck, RefundLock, RefundReadPayments,
       RefundCommit
<1>3. CASE Edit(r) \/ AttachDelivery(r)
  BY <1>3 DEF Edit, EditRead, EditLock, EditReadPayments, EditCommit, AttachDelivery
<1>4. CASE UpdateDelivery(r)
  BY <1>4 DEF UpdateDelivery, DeliveryRead, RepeatRead, RepeatAnswer, DeliveryWrite, AbortNoteRead, SyncRead, SyncWrite,
       Refresh
<1>5. CASE AwardCheck(r) \/ AwardCommit(r) \/ DeductCheck(r) \/ DeductCommit(r)
  BY <1>5 DEF AwardCheck, AwardCommit, AfterAward, DeductCheck, DeductCommit
<1>6. CASE NoteRead(r) \/ NoteWrite(r) \/ Fail(r)
  BY <1>6 DEF NoteRead, NoteWrite, Fail
<1> QED BY <1>1, <1>2, <1>3, <1>4, <1>5, <1>6 DEF Step

\* Where requests stand and what is recorded of their overlapping.
ControlInv == KindsMatchSteps /\ OverlapsAreSeen

\* The control invariant is inductive.
LEMMA ControlIsKept ==
    ASSUME TypeOK, ControlInv, NEW r \in Requests, Step(r)
    PROVE  ControlInv'
<1>1. KindsMatchSteps'
  BY Locality, KindStep DEF ControlInv, KindsMatchSteps, Only
<1>2. OverlapsAreSeen'
  <2> SUFFICES ASSUME NEW q1 \in InFlight', NEW q2 \in InFlight', q1 # q2
               PROVE  {kind'[q1], kind'[q2]} \in overlaps'
    BY DEF OverlapsAreSeen
  <2>1. CASE q1 # r /\ q2 # r
    BY <2>1, Locality, OverlapStep DEF ControlInv, OverlapsAreSeen, Only, InFlight
  <2>2. ASSUME NEW q \in Requests, q # r, q \in InFlight', r \in InFlight'
        PROVE  {kind'[r], kind'[q]} \in overlaps'
    <3>1. q \in InFlight /\ kind'[q] = kind[q]
      BY <2>2, Locality DEF Only, InFlight
    <3>2. pc'[r] \notin {"done", "failed"}
      BY <2>2 DEF InFlight
    <3>3. CASE r \in InFlight /\ kind'[r] = kind[r]
      BY <2>2, <3>1, <3>3, OverlapStep DEF ControlInv, OverlapsAreSeen
    <3>4. CASE \E k \in Kinds : kind'[r] = k /\ overlaps' = overlaps \cup {{k, kind[p]} : p \in InFlight}
      BY <3>1, <3>4
    <3> QED BY <3>2, <3>3, <3>4, OverlapStep
  <2>3. {kind'[q1], kind'[q2]} = {kind'[q2], kind'[q1]} /\ q1 \in Requests /\ q2 \in Requests
    BY DEF InFlight
  <2> QED BY <2>1, <2>2, <2>3
<1> QED BY <1>1, <1>2 DEF ControlInv

\* Two requests in flight have raced.
LEMMA InFlightRaces ==
    ASSUME ControlInv, NEW A, NEW B, NEW q \in InFlight, NEW r \in InFlight, q # r,
           kind[q] \in A, kind[r] \in B
    PROVE  Raced(A, B)
  BY DEF ControlInv, OverlapsAreSeen, Raced

\* What has overlapped stays on record.
LEMMA RacesAreKept ==
    ASSUME TypeOK, NEW r \in Requests, Step(r), NEW A, NEW B, Raced(A, B)
    PROVE  Raced(A, B)'
  BY OverlapStep DEF Raced

\* Points: who has passed the guard inside the transaction still finds none awarded.
AwardInv ==
    ~Raced(Awarders, Awarders) =>
        /\ earned <= 1
        /\ \A r \in Requests : pc[r] = "awardWrite" => earned = 0

\* Who writes the loyalty ledger.
LEMMA EarnedWriters ==
    ASSUME TypeOK, NEW r \in Requests, Step(r)
    PROVE  \/ earned' = earned /\ (pc'[r] = "awardWrite" => earned = 0)
           \/ AwardCommit(r)
<1> USE DEF TypeOK, Begin, Leave, Return, Continue, Remember, Goto, ledgers
<1>1. CASE UpdateStatus(r)
  BY <1>1 DEF UpdateStatus, StatusRead, StatusWrite, CancelRead, CancelWrite, ReadPayments,
       ReverseOne
<1>2. CASE CancelDeliveries(r) \/ Refund(r)
  BY <1>2 DEF CancelDeliveries, Refund, RefundRead, RefundCheck, RefundLock, RefundReadPayments,
       RefundCommit
<1>3. CASE Edit(r) \/ AttachDelivery(r)
  BY <1>3 DEF Edit, EditRead, EditLock, EditReadPayments, EditCommit, AttachDelivery
<1>4. CASE UpdateDelivery(r)
  BY <1>4 DEF UpdateDelivery, DeliveryRead, RepeatRead, RepeatAnswer, DeliveryWrite, AbortNoteRead, SyncRead, SyncWrite,
       Refresh
<1>5. CASE AwardCheck(r) \/ DeductCheck(r) \/ DeductCommit(r)
  BY <1>5 DEF AwardCheck, MayAward, AfterAward, DeductCheck, DeductCommit
<1>6. CASE NoteRead(r) \/ NoteWrite(r) \/ Fail(r)
  BY <1>6 DEF NoteRead, NoteWrite, Fail
<1> QED BY <1>1, <1>2, <1>3, <1>4, <1>5, <1>6 DEF Step

\* AwardInv is inductive: two requests at awardWrite have raced.
LEMMA AwardIsKept ==
    ASSUME TypeOK, ControlInv, AwardInv, NEW r \in Requests, Step(r)
    PROVE  AwardInv'
<1> SUFFICES ASSUME ~Raced(Awarders, Awarders)'
             PROVE  earned' <= 1 /\ \A q \in Requests : pc'[q] = "awardWrite" => earned' = 0
  BY DEF AwardInv
<1>1. /\ earned <= 1 
      /\ \A q \in Requests : pc[q] = "awardWrite" => earned = 0
  BY RacesAreKept DEF AwardInv
<1>2. CASE earned' = earned /\ (pc'[r] = "awardWrite" => earned = 0)
  BY <1>1, <1>2, Locality DEF Only
<1>3. CASE AwardCommit(r)
  <2>1. earned = 0 /\ earned' = 1 /\ pc'[r] # "awardWrite"
    BY <1>1, <1>3 DEF AwardCommit, AfterAward, Return, Leave, Continue, Goto, TypeOK
  <2>2. ASSUME NEW q \in Requests, q # r, pc[q] = "awardWrite" PROVE FALSE
    <3>1. {q, r} \subseteq InFlight /\ pc[r] = "awardWrite"
      BY <1>3, <2>2 DEF InFlight, AwardCommit
    <3>2. kind[q] \in Awarders /\ kind[r] \in Awarders
      BY <2>2, <3>1 DEF ControlInv, KindsMatchSteps, KindAt
    <3>3. Raced(Awarders, Awarders)
      BY <2>2, <3>1, <3>2, InFlightRaces
    <3> QED BY <3>3, RacesAreKept
  <2> QED BY <2>1, <2>2, Locality DEF Only
<1> QED BY <1>2, <1>3, EarnedWriters

\* Stock: no batch without the order's mark, and who has passed the guard finds no mark.
StockInv ==
    ~Raced({"deliver", "abort"}, {"deliver", "abort"}) =>
        /\ usages <= 1
        /\ ~stockDeducted => usages = 0
        /\ \A r \in Requests : pc[r] = "deductTx" => ~stockDeducted

\* Who writes the stock ledger and the order's mark.
LEMMA UsageWriters ==
    ASSUME TypeOK, NEW r \in Requests, Step(r)
    PROVE  \/ /\ usages' = usages /\ stockDeducted' = stockDeducted
              /\ pc'[r] = "deductTx" => ~stockDeducted
           \/ DeductCommit(r)
<1> USE DEF TypeOK, Begin, Leave, Return, Continue, Remember, Goto, ledgers, orderRow
<1>1. CASE UpdateStatus(r)
  BY <1>1 DEF UpdateStatus, StatusRead, StatusWrite, CancelRead, CancelWrite, ReadPayments,
       ReverseOne
<1>2. CASE CancelDeliveries(r) \/ Refund(r)
  BY <1>2 DEF CancelDeliveries, Refund, RefundRead, RefundCheck, RefundLock, RefundReadPayments,
       RefundCommit
<1>3. CASE Edit(r) \/ AttachDelivery(r)
  BY <1>3 DEF Edit, EditRead, EditLock, EditReadPayments, EditCommit, AttachDelivery
<1>4. CASE UpdateDelivery(r)
  BY <1>4 DEF UpdateDelivery, DeliveryRead, RepeatRead, RepeatAnswer, DeliveryWrite, AbortNoteRead, SyncRead, SyncWrite,
       Refresh
<1>5. CASE AwardCheck(r) \/ AwardCommit(r) \/ DeductCheck(r)
  BY <1>5 DEF AwardCheck, AwardCommit, AfterAward, DeductCheck
<1>6. CASE NoteRead(r) \/ NoteWrite(r) \/ Fail(r)
  BY <1>6 DEF NoteRead, NoteWrite, Fail
<1> QED BY <1>1, <1>2, <1>3, <1>4, <1>5, <1>6 DEF Step

\* StockInv is inductive: two requests at deductTx have raced.
LEMMA StockIsKept ==
    ASSUME TypeOK, ControlInv, StockInv, NEW r \in Requests, Step(r)
    PROVE  StockInv'
<1> DEFINE D == {"deliver", "abort"}
<1> SUFFICES ASSUME ~Raced(D, D)'
             PROVE  /\ usages' <= 1
                    /\ ~stockDeducted' => usages' = 0
                    /\ \A q \in Requests : pc'[q] = "deductTx" => ~stockDeducted'
  BY DEF StockInv
<1>0. ~Raced(D, D)
  BY RacesAreKept
<1>1. /\ usages <= 1
      /\ ~stockDeducted => usages = 0
      /\ \A q \in Requests : pc[q] = "deductTx" => ~stockDeducted
  BY <1>0 DEF StockInv
<1>2. CASE /\ usages' = usages /\ stockDeducted' = stockDeducted
           /\ pc'[r] = "deductTx" => ~stockDeducted
  BY <1>1, <1>2, Locality DEF Only
<1>3. CASE DeductCommit(r)
  <2>1. usages = 0 /\ usages' \in {0, 1} /\ stockDeducted' /\ pc'[r] # "deductTx"
    BY <1>1, <1>3 DEF DeductCommit, Return, Leave, Goto, TypeOK
  <2>2. ASSUME NEW q \in Requests, q # r, pc[q] = "deductTx" PROVE FALSE
    <3>1. {q, r} \subseteq InFlight /\ pc[r] = "deductTx"
      BY <1>3, <2>2 DEF InFlight, DeductCommit
    <3>2. kind[q] \in D /\ kind[r] \in D
      BY <2>2, <3>1 DEF ControlInv, KindsMatchSteps, KindAt
    <3>3. Raced(D, D)
      BY <2>2, <3>1, <3>2, InFlightRaces
    <3> QED BY <1>0, <3>3
  <2> QED BY <2>1, <2>2, Locality DEF Only
<1> QED BY <1>2, <1>3, UsageWriters

\* The transaction that has read the payments holds the order's lock.
LockInv ==
    /\ \A r \in Requests : pc[r] \in InTransaction => r \in lock
    /\ \A q, r \in lock : q = r

\* LockInv is inductive: the lock is taken only when free and let go at commit or rollback.
LEMMA LockIsKept ==
    ASSUME TypeOK, LockInv, NEW r \in Requests, Step(r)
    PROVE  LockInv'
<1>1. \/ lock' = lock /\ (pc'[r] \in InTransaction => pc[r] \in InTransaction)
      \/ lock = {} /\ lock' = {r}
      \/ lock' = lock \ {r} /\ pc'[r] \notin InTransaction
  <2> USE DEF TypeOK, Begin, Leave, Return, Continue, Remember, Goto, InTransaction,
       OrderUnlocked
  <2>1. CASE UpdateStatus(r)
    BY <2>1 DEF UpdateStatus, StatusRead, StatusWrite, CancelRead, CancelWrite, ReadPayments,
         ReverseOne
  <2>2. CASE CancelDeliveries(r) \/ RefundRead(r) \/ RefundCheck(r) \/ RefundLock(r) \/ RefundReadPayments(r)
    BY <2>2 DEF CancelDeliveries, RefundRead, RefundCheck, RefundLock, RefundReadPayments
  <2>3. CASE EditRead(r) \/ EditLock(r) \/ EditReadPayments(r) \/ AttachDelivery(r)
    BY <2>3 DEF EditRead, EditLock, EditReadPayments, AttachDelivery
  <2>4. CASE RefundCommit(r) \/ EditCommit(r)
    <3>1. lock = {r}
      BY <2>4 DEF LockInv, RefundCommit, EditCommit
    <3> QED BY <2>4, <3>1 DEF RefundCommit, EditCommit
  <2>5. CASE UpdateDelivery(r)
    BY <2>5 DEF UpdateDelivery, DeliveryRead, RepeatRead, RepeatAnswer, DeliveryWrite, AbortNoteRead, SyncRead, SyncWrite,
         Refresh
  <2>6. CASE AwardCheck(r) \/ AwardCommit(r) \/ DeductCheck(r) \/ DeductCommit(r)
    BY <2>6 DEF AwardCheck, AwardCommit, AfterAward, DeductCheck, DeductCommit
  <2>7. CASE NoteRead(r) \/ NoteWrite(r) \/ Fail(r)
    BY <2>7 DEF NoteRead, NoteWrite, Fail
  <2> QED BY <2>1, <2>2, <2>3, <2>4, <2>5, <2>6, <2>7 DEF Step, Refund, Edit
<1>2. \A q \in Requests : q # r => pc'[q] = pc[q]
  BY Locality DEF Only
<1> QED BY <1>1, <1>2 DEF LockInv, TypeOK

\* The payment ids of rows a handler has read.
Ids(rows) == {row[1] : row \in rows}

\* What a reversal does to the payments.
LEMMA ReverseEffect ==
    ASSUME TypeOK, NEW rows \in SUBSET (Payments \X Int), Reverse(rows)
    PROVE  \A p \in Payments :
             \/ payStatus'[p] = payStatus[p] /\ payAmount'[p] = payAmount[p] /\ p \notin Ids(rows)
             \/ payStatus'[p] = "REFUNDED" /\ payAmount'[p] <= 0
<1> DEFINE ids == {row[1] : row \in rows}
           Read(p) == CHOOSE row \in rows : row[1] = p
<1>1. ASSUME NEW p \in ids  PROVE -Abs(Read(p)[2]) <= 0
  <2>1. Read(p) \in rows
    BY <1>1
  <2>2. Read(p)[2] \in Int
    BY <2>1
  <2> QED BY <2>2 DEF Abs
<1>2. payStatus' = [p \in Payments |-> IF p \in ids THEN "REFUNDED" ELSE payStatus[p]]
  BY DEF Reverse
<1>3. payAmount' = [p \in Payments |-> IF p \in ids THEN -Abs(Read(p)[2]) ELSE payAmount[p]]
  BY DEF Reverse
<1>4. ids = Ids(rows)
  BY DEF Ids
<1> HIDE DEF ids, Read
<1> QED BY <1>1, <1>2, <1>3, <1>4

\* Who writes the payments, and where an edit's copy of them comes from.
LEMMA PaymentWriters ==
    ASSUME TypeOK, NEW r \in Requests, Step(r)
    PROVE  \/ /\ payStatus' = payStatus /\ payAmount' = payAmount /\ total' = total
              /\ pc'[r] = "editCommit" => seen'[r].rows = CompletedRows
           \/ ReverseOne(r) \/ RefundCommit(r) \/ EditCommit(r)
<1> USE DEF TypeOK, Begin, Leave, Return, Continue, Remember, Goto, payRows, orderRow
<1>1. CASE UpdateStatus(r)
  BY <1>1 DEF UpdateStatus, StatusRead, StatusWrite, CancelRead, CancelWrite, ReadPayments
<1>2. CASE CancelDeliveries(r) \/ Refund(r)
  BY <1>2 DEF CancelDeliveries, Refund, RefundRead, RefundCheck, RefundLock, RefundReadPayments
<1>3. CASE EditRead(r) \/ EditLock(r) \/ EditCommit(r) \/ AttachDelivery(r)
  BY <1>3 DEF EditRead, EditLock, AttachDelivery
<1>7. CASE EditReadPayments(r)
  BY <1>7 DEF EditReadPayments, Reads
<1>4. CASE UpdateDelivery(r)
  BY <1>4 DEF UpdateDelivery, DeliveryRead, RepeatRead, RepeatAnswer, DeliveryWrite, AbortNoteRead, SyncRead, SyncWrite,
       Refresh
<1>5. CASE AwardCheck(r) \/ AwardCommit(r) \/ DeductCheck(r) \/ DeductCommit(r)
  BY <1>5 DEF AwardCheck, AwardCommit, AfterAward, DeductCheck, DeductCommit
<1>6. CASE NoteRead(r) \/ NoteWrite(r) \/ Fail(r)
  BY <1>6 DEF NoteRead, NoteWrite, Fail
<1> QED BY <1>1, <1>2, <1>3, <1>4, <1>5, <1>6, <1>7 DEF Step, Edit

\* The three writers of payments, by what they write.
LEMMA ReversalRows ==
    ASSUME TypeOK, NEW r \in Requests, ReverseOne(r) \/ RefundCommit(r)
    PROVE  /\ \E rows \in SUBSET (Payments \X Int) : Reverse(rows)
           /\ total' = total /\ pc'[r] # "editCommit"
<1>1. CASE ReverseOne(r)
  <2>1. PICK row \in seen[r].rows : Reverse({row})
    BY <1>1 DEF ReverseOne
  <2>2. {row} \in SUBSET (Payments \X Int)
    BY DEF TypeOK, Reads
  <2>3. total' = total /\ pc'[r] # "editCommit"
    BY <1>1 DEF ReverseOne, orderRow, Return, Leave, Remember, Goto, TypeOK
  <2> QED BY <2>1, <2>2, <2>3
<1>2. CASE RefundCommit(r)
  <2>1. Reverse(seen[r].rows) /\ seen[r].rows \in SUBSET (Payments \X Int)
    BY <1>2 DEF RefundCommit, TypeOK, Reads
  <2>2. total' = total /\ pc'[r] # "editCommit"
    BY <1>2 DEF RefundCommit, Continue, Goto, TypeOK
  <2> QED BY <2>1, <2>2
<1> QED BY <1>1, <1>2

\* A single tender: an edit about to commit knows every completed row, and knows one at most.
TenderInv ==
    ~split =>
        /\ \A p, q \in Completed : p = q
        /\ \A p \in Completed : payAmount[p] \in {total, roundMoney(total)}
        /\ \A r \in Requests : pc[r] = "editCommit" =>
              /\ Completed \subseteq Ids(seen[r].rows)
              /\ \A x, y \in seen[r].rows : x = y

\* TenderInv is inductive: the lock keeps two edits, and an edit and a refund, apart.
LEMMA TenderIsKept ==
    ASSUME TypeOK, LockInv, TenderInv, NEW r \in Requests, Step(r)
    PROVE  TenderInv'
<1> SUFFICES ASSUME ~split'
             PROVE  /\ \A p, q \in Completed' : p = q
                    /\ \A p \in Completed' : payAmount'[p] \in {total', roundMoney(total')}
                    /\ \A q \in Requests : pc'[q] = "editCommit" =>
                          /\ Completed' \subseteq Ids(seen'[q].rows)
                          /\ \A x, y \in seen'[q].rows : x = y
  BY DEF TenderInv, Ids
<1>0. /\ \A p, q \in Completed : p = q
      /\ \A p \in Completed : payAmount[p] \in {total, roundMoney(total)}
      /\ \A q \in Requests : pc[q] = "editCommit" =>
            /\ Completed \subseteq Ids(seen[q].rows)
            /\ \A x, y \in seen[q].rows : x = y
  BY Locality DEF Only, TenderInv
<1>00. \A q \in Requests : q # r => pc'[q] = pc[q] /\ seen'[q] = seen[q]
  BY Locality DEF Only
<1>1. CASE /\ payStatus' = payStatus /\ payAmount' = payAmount /\ total' = total
           /\ pc'[r] = "editCommit" => seen'[r].rows = CompletedRows
  <2>1. Completed' = Completed
    BY <1>1 DEF Completed
  <2>2. /\ Completed \subseteq Ids(CompletedRows)
        /\ \A x, y \in CompletedRows : x = y
    <3>1. CompletedRows = {<<p, payAmount[p]>> : p \in Completed}
      BY DEF Completed, CompletedRows
    <3>2. ASSUME NEW p \in Completed  PROVE p \in Ids(CompletedRows)
      <4>1. <<p, payAmount[p]>> \in CompletedRows /\ <<p, payAmount[p]>>[1] = p
        BY <3>1, <3>2
      <4> QED BY <4>1 DEF Ids
    <3> QED BY <1>0, <3>1, <3>2
  <2> QED BY <1>0, <1>00, <1>1, <2>1, <2>2
<1>2. CASE ReverseOne(r) \/ RefundCommit(r)
  <2>1. PICK rows \in SUBSET (Payments \X Int) : Reverse(rows)
    BY <1>2, ReversalRows
  <2>2. /\ Completed' \subseteq Completed
        /\ \A p \in Completed' : payAmount'[p] = payAmount[p]
    BY <2>1, ReverseEffect DEF Completed
  <2> QED BY <1>0, <1>00, <1>2, <2>2, ReversalRows
<1>3. CASE EditCommit(r)
  <2> DEFINE rows == seen[r].rows
  <2>1. PICK newTotal \in Totals, method \in BOOLEAN :
          total' = newTotal /\ SyncTransactions(rows, newTotal, method)
    BY <1>3 DEF EditCommit
  <2>2. /\ Completed \subseteq Ids(rows)
        /\ \A x, y \in rows : x = y
    BY <1>0, <1>3 DEF EditCommit
  <2>3. \A q \in Requests : pc'[q] # "editCommit"
    <3>1. pc'[r] = "done" /\ pc[r] = "editCommit"
      BY <1>3 DEF EditCommit, Return, Leave, Goto, TypeOK
    <3> QED BY <1>00, <3>1 DEF LockInv, InTransaction
  <2>4. rows = {} \/ Cardinality(rows) = 1
    <3>1. ASSUME NEW x \in rows PROVE rows = {x}
      BY <2>2
    <3> QED BY <3>1, FS_Singleton
  <2>5. CASE /\ Cardinality(rows) = 1 /\ payStatus' = payStatus
             /\ payAmount' = [p \in Payments |-> IF p \in Ids(rows) THEN newTotal ELSE payAmount[p]]
    <3>1. Completed' = Completed /\ Completed \subseteq Payments
      BY <2>5 DEF Completed
    <3> QED BY <1>0, <2>1, <2>2, <2>3, <2>5, <3>1
  <2>6. CASE /\ rows = {}
             /\ \E p \in Payments :
                   /\ payStatus' = [payStatus EXCEPT ![p] = "COMPLETED"]
                   /\ payAmount' = [payAmount EXCEPT ![p] = newTotal]
    <3>1. PICK p \in Payments :
            /\ payStatus' = [payStatus EXCEPT ![p] = "COMPLETED"]
            /\ payAmount' = [payAmount EXCEPT ![p] = newTotal]
      BY <2>6
    <3>2. Completed = {}
      BY <2>2, <2>6 DEF Ids
    <3>3. Completed' = {p}
      BY <3>1, <3>2 DEF Completed, TypeOK
    <3>4. payAmount'[p] = newTotal
      BY <3>1 DEF TypeOK
    <3> QED BY <2>1, <2>3, <3>3, <3>4
  <2>7. CASE rows = {} /\ UNCHANGED payRows
    <3>1. Completed' = {}
      BY <2>2, <2>7 DEF Ids, Completed, payRows
    <3> QED BY <2>3, <3>1
  <2>8. CASE rows = {}
    <3>1. Cardinality(rows) # 1
      BY <2>8, FS_EmptySet
    <3> QED BY <2>1, <2>6, <2>7, <2>8, <3>1 DEF SyncTransactions
  <2>9. CASE Cardinality(rows) = 1 /\ rows # {}
    <3>1. /\ payStatus' = payStatus
          /\ payAmount' = [p \in Payments |-> IF p \in Ids(rows) THEN newTotal ELSE payAmount[p]]
      BY <2>1, <2>9 DEF SyncTransactions, Ids
    <3> QED BY <2>5, <2>9, <3>1
  <2> QED BY <2>4, <2>8, <2>9
<1> QED BY <1>1, <1>2, <1>3, PaymentWriters

\* Signs: an edit about to commit has read no row that was reversed since, short of a race.
SignInv ==
    /\ \A p \in Completed : payAmount[p] >= 0
    /\ ~Raced({"cancel"}, {"edit"}) =>
         /\ \A p \in Payments : payStatus[p] = "REFUNDED" => payAmount[p] <= 0
         /\ \A r \in Requests : pc[r] = "editCommit" =>
               \A p \in Ids(seen[r].rows) : payStatus[p] = "COMPLETED"

\* SignInv is inductive.
LEMMA SignIsKept ==
    ASSUME TypeOK, ControlInv, LockInv, SignInv, NEW r \in Requests, Step(r)
    PROVE  SignInv'
<1>0. \A q \in Requests : q # r => pc'[q] = pc[q] /\ seen'[q] = seen[q]
  BY Locality DEF Only
<1>1. CASE /\ payStatus' = payStatus /\ payAmount' = payAmount
           /\ pc'[r] = "editCommit" => seen'[r].rows = CompletedRows
  <2>1. \A p \in Ids(CompletedRows) : payStatus[p] = "COMPLETED"
    BY DEF Ids, CompletedRows
  <2>2. Completed' = Completed
    BY <1>1 DEF Completed
  <2>3. Raced({"cancel"}, {"edit"}) => Raced({"cancel"}, {"edit"})'
    BY RacesAreKept
  <2>4. ASSUME ~Raced({"cancel"}, {"edit"}), NEW q \in Requests, pc'[q] = "editCommit"
        PROVE  \A p \in Ids(seen'[q].rows) : payStatus'[p] = "COMPLETED"
    BY <1>0, <1>1, <2>1, <2>4 DEF SignInv
  <2> QED BY <1>1, <2>2, <2>3, <2>4 DEF SignInv, Ids
<1>2. CASE ReverseOne(r) \/ RefundCommit(r)
  <2>1. PICK rows \in SUBSET (Payments \X Int) : Reverse(rows)
    BY <1>2, ReversalRows
  <2>2. \A p \in Completed' : p \in Completed /\ payAmount'[p] = payAmount[p]
    BY <2>1, ReverseEffect DEF Completed
  <2>3. CASE Raced({"cancel"}, {"edit"})'
    BY <2>2, <2>3 DEF SignInv
  <2>4. CASE ~Raced({"cancel"}, {"edit"})'
    <3>1. ~Raced({"cancel"}, {"edit"})
      BY <2>4, RacesAreKept
    <3>2. \A p \in Payments : payStatus'[p] = "REFUNDED" => payAmount'[p] <= 0
      BY <2>1, <3>1, ReverseEffect DEF SignInv
    <3>3. ASSUME NEW q \in Requests, pc'[q] = "editCommit"  PROVE FALSE
      <4>1. q # r /\ pc[q] = "editCommit"
        BY <1>0, <1>2, <3>3, ReversalRows
      <4>2. CASE RefundCommit(r)
        BY <4>1, <4>2 DEF LockInv, InTransaction, RefundCommit
      <4>3. CASE ReverseOne(r)
        <5>1. r \in InFlight /\ q \in InFlight
          BY <4>1, <4>3 DEF InFlight, ReverseOne
        <5>2. kind[r] \in {"cancel"} /\ kind[q] \in {"edit"}
          BY <4>1, <4>3 DEF ControlInv, KindsMatchSteps, KindAt, ReverseOne
        <5> QED BY <3>1, <4>1, <5>1, <5>2, InFlightRaces
      <4> QED BY <1>2, <4>2, <4>3
    <3> QED BY <2>2, <3>2, <3>3 DEF SignInv
  <2> QED BY <2>3, <2>4
<1>3. CASE EditCommit(r)
  <2> DEFINE rows == seen[r].rows
  <2>1. PICK newTotal \in Totals, method \in BOOLEAN : SyncTransactions(rows, newTotal, method)
    BY <1>3 DEF EditCommit
  <2>2. newTotal \in Nat
    BY TotalsAreMoney
  <2>3. \A q \in Requests : pc'[q] # "editCommit"
    <3>1. pc'[r] = "done" /\ pc[r] = "editCommit"
      BY <1>3 DEF EditCommit, Return, Leave, Goto, TypeOK
    <3> QED BY <1>0, <3>1 DEF LockInv, InTransaction
  <2>4. \A p \in Payments :
          \/ payStatus'[p] = payStatus[p] /\ payAmount'[p] = payAmount[p]
          \/ payStatus'[p] = payStatus[p] /\ payAmount'[p] = newTotal /\ p \in Ids(rows)
          \/ payStatus'[p] = "COMPLETED" /\ payAmount'[p] = newTotal
    BY <2>1 DEF SyncTransactions, Ids, payRows, TypeOK
  <2>5. \A p \in Completed' : payAmount'[p] >= 0
    BY <2>2, <2>4 DEF Completed, SignInv
  <2>6. ASSUME ~Raced({"cancel"}, {"edit"})', NEW p \in Payments, payStatus'[p] = "REFUNDED"
        PROVE  payAmount'[p] <= 0
    <3>1. ~Raced({"cancel"}, {"edit"})
      BY <2>6, RacesAreKept
    <3>2. \A q \in Ids(rows) : payStatus[q] = "COMPLETED"
      BY <1>3, <3>1 DEF SignInv, EditCommit
    <3> QED BY <2>4, <2>6, <3>1, <3>2 DEF SignInv
  <2> QED BY <2>3, <2>5, <2>6 DEF SignInv
<1> QED BY <1>1, <1>2, <1>3, PaymentWriters

\* Steps at which a handler holds the notes it will write back.
HoldsNotes == {"cancel", "refundCheck", "refundLock", "refundRead", "refundCommit", "noteWrite"}

\* Notes: what a note-writer has read of the column is still all there is.
NoteInv ==
    ~Raced(NoteWriters, NoteWriters) =>
        \A r \in InFlight : pc[r] \in HoldsNotes => notes \subseteq seen[r].notes

\* Who writes the notes, and where a handler's copy of them comes from.
LEMMA NoteStep ==
    ASSUME TypeOK, NEW r \in Requests, Step(r)
    PROVE  \/ /\ notes' = notes
              /\ pc'[r] \in HoldsNotes => seen'[r].notes = notes
                                          \/ (pc[r] \in HoldsNotes /\ seen'[r].notes = seen[r].notes)
           \/ /\ pc[r] \in {"cancel", "refundCommit", "noteWrite"} /\ pc'[r] \notin HoldsNotes
              /\ notes' = notes \/ notes' = seen[r].notes \cup {r}
<1> USE DEF TypeOK, Reads, HoldsNotes, Begin, Leave, Return, Continue, Remember, Goto, orderRow
<1>1. CASE UpdateStatus(r)
  <2>1. CASE \E k \in {"complete", "reopen"} : StatusRead(r, k)
    BY <2>1 DEF StatusRead
  <2>2. CASE StatusWrite(r)
    BY <2>2 DEF StatusWrite
  <2>3. CASE CancelRead(r)
    BY <2>3 DEF CancelRead, NoReads
  <2>4. CASE CancelWrite(r)
    BY <2>4 DEF CancelWrite
  <2>5. CASE ReadPayments(r) \/ ReverseOne(r)
    BY <2>5 DEF ReadPayments, ReverseOne
  <2> QED BY <1>1, <2>1, <2>2, <2>3, <2>4, <2>5 DEF UpdateStatus
<1>2. CASE CancelDeliveries(r)
  BY <1>2 DEF CancelDeliveries
<1>8. CASE Refund(r)
  <2>1. CASE RefundRead(r)
    BY <2>1 DEF RefundRead, NoReads
  <2>2. CASE RefundCheck(r) \/ RefundLock(r)
    BY <2>2 DEF RefundCheck, RefundLock
  <2>3. CASE RefundReadPayments(r)
    BY <2>3 DEF RefundReadPayments
  <2>4. CASE RefundCommit(r)
    BY <2>4 DEF RefundCommit
  <2> QED BY <1>8, <2>1, <2>2, <2>3, <2>4 DEF Refund
<1>3. CASE Edit(r) \/ AttachDelivery(r)
  BY <1>3 DEF Edit, EditRead, EditLock, EditReadPayments, EditCommit, AttachDelivery
<1>4. CASE UpdateDelivery(r)
  <2>1. CASE \E k \in {"deliver", "abort"} : DeliveryRead(r, k) \/ RepeatRead(r, k)
    BY <2>1 DEF DeliveryRead, RepeatRead
  <2>2. CASE AbortNoteRead(r) \/ RepeatAnswer(r)
    BY <2>2 DEF AbortNoteRead, RepeatAnswer
  <2>3. CASE DeliveryWrite(r) \/ SyncRead(r) \/ SyncWrite(r) \/ Refresh(r)
    BY <2>3 DEF DeliveryWrite, SyncRead, SyncWrite, Refresh
  <2> QED BY <1>4, <2>1, <2>2, <2>3 DEF UpdateDelivery
<1>5. CASE AwardCheck(r) \/ AwardCommit(r) \/ DeductCheck(r) \/ DeductCommit(r)
  BY <1>5 DEF AwardCheck, AwardCommit, AfterAward, DeductCheck, DeductCommit
<1>6. CASE NoteRead(r)
  BY <1>6 DEF NoteRead, NoReads
<1>7. CASE NoteWrite(r)
  BY <1>7 DEF NoteWrite
<1>9. CASE Fail(r)
  BY <1>9 DEF Fail
<1> QED BY <1>1, <1>2, <1>3, <1>4, <1>5, <1>6, <1>7, <1>8, <1>9 DEF Step

\* NoteInv is inductive, and no step of a state it holds in drops a note.
LEMMA NotesStay ==
    ASSUME TypeOK, ControlInv, NoteInv, NEW r \in Requests, Step(r)
    PROVE  NoteInv' /\ (~Raced(NoteWriters, NoteWriters) => notes \subseteq notes')
<1>0. \A q \in Requests : q # r => pc'[q] = pc[q] /\ kind'[q] = kind[q] /\ seen'[q] = seen[q]
  BY Locality DEF Only
<1>1. Raced(NoteWriters, NoteWriters) => Raced(NoteWriters, NoteWriters)'
  BY RacesAreKept
<1>2. \A q \in Requests : pc[q] \in HoldsNotes => q \in InFlight /\ kind[q] \in NoteWriters
  BY DEF ControlInv, KindsMatchSteps, KindAt, HoldsNotes, InFlight, NoteWriters
<1>3. CASE /\ notes' = notes
           /\ pc'[r] \in HoldsNotes => seen'[r].notes = notes
                                          \/ (pc[r] \in HoldsNotes /\ seen'[r].notes = seen[r].notes)
  BY <1>0, <1>1, <1>2, <1>3 DEF NoteInv, HoldsNotes, InFlight
<1>4. CASE /\ pc[r] \in {"cancel", "refundCommit", "noteWrite"} /\ pc'[r] \notin HoldsNotes
           /\ notes' = notes \/ notes' = seen[r].notes \cup {r}
  <2>0. pc[r] \in HoldsNotes
    BY <1>4 DEF HoldsNotes
  <2>1. ~Raced(NoteWriters, NoteWriters) => notes \subseteq notes'
    BY <1>2, <1>4, <2>0 DEF NoteInv, HoldsNotes
  <2>2. ASSUME ~Raced(NoteWriters, NoteWriters)', NEW q \in Requests, pc'[q] \in HoldsNotes
        PROVE  FALSE
    <3>1. q # r /\ pc[q] \in HoldsNotes
      BY <1>0, <1>4, <2>2
    <3> QED BY <1>1, <1>2, <2>0, <2>2, <3>1, InFlightRaces
  <2>3. NoteInv'
    BY <2>2 DEF NoteInv, HoldsNotes, InFlight
  <2> QED BY <2>1, <2>3
<1> QED BY <1>3, <1>4, NoteStep

\* Cancelled is final: nobody who relies on an order not being cancelled finds it so.
FinalInv ==
    /\ \A r \in Requests :
         pc[r] = "syncWrite" => seen[r].status = IF kind[r] = "abort" THEN "CANCELLED" ELSE "COMPLETED"
    /\ ~Raced({"complete", "reopen", "deliver"}, Cancellers) =>
         \A r \in Requests :
           /\ pc[r] = "setStatus" \/ (pc[r] = "syncWrite" /\ kind[r] = "deliver")
                => status # "CANCELLED"
           /\ pc[r] = "deliver" /\ kind[r] = "deliver"
                => \A d \in seen[r].target : delivery[d] # "CANCELLED"

\* Steps past the guard on a cashier's request.
HoldsCashier == {"setStatus", "editLock", "editRead", "editCommit"}

\* A cashier's request past its guard finds the order pending.
CashierInv ==
    ~Raced({"complete", "reopen", "edit"}, Cancellers \cup {"complete", "deliver"}) =>
        \A r \in Requests : pc[r] \in HoldsCashier /\ seen[r].cashier => status = "PENDING"

\* What a request has just checked when it arrives at a step that relies on it.
Checked(r) ==
    /\ pc'[r] = "setStatus" => status # "CANCELLED"
    /\ pc'[r] = "syncWrite" => status # "CANCELLED" /\ seen'[r].status = IF kind'[r] = "abort" THEN "CANCELLED" ELSE "COMPLETED"
    /\ pc'[r] = "deliver" => \A d \in seen'[r].target : delivery[d] = "NEW"
    /\ pc'[r] \in HoldsCashier /\ seen'[r].cashier =>
         status = "PENDING" \/ (pc[r] \in HoldsCashier /\ seen[r].cashier)

\* Who writes the order's status and the deliveries'.
LEMMA StatusWriters ==
    ASSUME TypeOK, ControlInv, NEW r \in Requests, Step(r)
    PROVE  \/ status' = status /\ delivery' = delivery /\ Checked(r)
           \/ StatusWrite(r) \/ CancelWrite(r) \/ RefundCommit(r) \/ SyncWrite(r)
           \/ CancelDeliveries(r) \/ AttachDelivery(r) \/ DeliveryWrite(r)
<1> USE DEF TypeOK, Reads, Checked, HoldsCashier, Begin, Leave, Return, Continue, Remember,
     Goto, orderRow
<1>1. CASE UpdateStatus(r)
  <2>1. CASE \E k \in {"complete", "reopen"} : StatusRead(r, k)
    BY <2>1 DEF StatusRead, NoReads
  <2>2. CASE CancelRead(r)
    BY <2>2 DEF CancelRead, NoReads
  <2>3. CASE ReadPayments(r) \/ ReverseOne(r)
    BY <2>3 DEF ReadPayments, ReverseOne
  <2> QED BY <1>1, <2>1, <2>2, <2>3 DEF UpdateStatus
<1>2. CASE Refund(r)
  BY <1>2 DEF Refund, RefundRead, RefundCheck, RefundLock, RefundReadPayments
<1>3. CASE Edit(r)
  <2>1. CASE EditRead(r)
    BY <2>1 DEF EditRead, NoReads
  <2>2. CASE EditLock(r) \/ EditReadPayments(r) \/ EditCommit(r)
    BY <2>2 DEF EditLock, EditReadPayments, EditCommit
  <2> QED BY <1>3, <2>1, <2>2 DEF Edit
<1>4. CASE UpdateDelivery(r)
  <2>1. CASE \E k \in {"deliver", "abort"} : DeliveryRead(r, k) \/ RepeatRead(r, k)
    BY <2>1 DEF DeliveryRead, RepeatRead, NoReads
  <2>2. CASE SyncRead(r)
    <3>1. kind[r] \in {"deliver", "abort"}
      BY <2>2 DEF SyncRead, ControlInv, KindsMatchSteps, KindAt
    <3> QED BY <2>2, <3>1 DEF SyncRead, DeliveryProgress, DeliveryTarget
  <2>3. CASE AbortNoteRead(r) \/ Refresh(r) \/ RepeatAnswer(r)
    BY <2>3 DEF AbortNoteRead, Refresh, RepeatAnswer
  <2> QED BY <1>4, <2>1, <2>2, <2>3 DEF UpdateDelivery
<1>5. CASE AwardCheck(r) \/ AwardCommit(r) \/ DeductCheck(r) \/ DeductCommit(r)
  BY <1>5 DEF AwardCheck, AwardCommit, AfterAward, DeductCheck, DeductCommit
<1>6. CASE NoteRead(r) \/ NoteWrite(r) \/ Fail(r)
  BY <1>6 DEF NoteRead, NoteWrite, Fail
<1> QED BY <1>1, <1>2, <1>3, <1>4, <1>5, <1>6 DEF Step

\* What the writers of the status write, and where they stand afterwards.
LEMMA StatusEffect ==
    ASSUME TypeOK, ControlInv, FinalInv, NEW r \in Requests,
           StatusWrite(r) \/ CancelWrite(r) \/ RefundCommit(r) \/ SyncWrite(r)
    PROVE  /\ delivery' = delivery
           /\ r \in InFlight
           /\ pc'[r] \notin HoldsCashier \cup {"syncWrite", "deliver"}
           /\ \/ status' = "PENDING" /\ kind[r] = "reopen"
              \/ status' = "COMPLETED" /\ kind[r] \in {"complete", "deliver"}
              \/ status' = "CANCELLED" /\ kind[r] \in Cancellers
<1> USE DEF TypeOK, InFlight, HoldsCashier, Return, Leave, Continue, Goto, ControlInv,
     KindsMatchSteps,
            KindAt, Cancellers
<1>1. CASE StatusWrite(r)
  BY <1>1 DEF StatusWrite
<1>2. CASE CancelWrite(r)
  BY <1>2 DEF CancelWrite
<1>3. CASE RefundCommit(r)
  BY <1>3 DEF RefundCommit
<1>4. CASE SyncWrite(r)
  BY <1>4 DEF SyncWrite, FinalInv
<1> QED BY <1>1, <1>2, <1>3, <1>4

\* What the writers of the delivery rows write.
LEMMA DeliveryEffect ==
    ASSUME TypeOK, ControlInv, NEW r \in Requests,
           CancelDeliveries(r) \/ AttachDelivery(r) \/ DeliveryWrite(r)
    PROVE  /\ status' = status
           /\ pc'[r] \notin HoldsCashier \cup {"syncWrite", "deliver"}
           /\ \A d \in Deliveries :
                \/ delivery'[d] = delivery[d]
                \/ delivery[d] = "none" /\ delivery'[d] = "NEW"
                \/ delivery'[d] = "CANCELLED" /\ r \in InFlight /\ kind[r] \in Cancellers
                \/ pc[r] = "deliver" /\ kind[r] = "deliver" /\ d \in seen[r].target
                   /\ delivery'[d] = "COMPLETED"
<1> USE DEF TypeOK, InFlight, HoldsCashier, Return, Leave, Continue, Goto, ControlInv,
     KindsMatchSteps,
            KindAt, Cancellers, orderRow
<1>1. CASE CancelDeliveries(r)
  BY <1>1 DEF CancelDeliveries, CancelLinkedDeliveries
<1>2. CASE AttachDelivery(r)
  BY <1>2 DEF AttachDelivery
<1>3. CASE DeliveryWrite(r)
  BY <1>3 DEF DeliveryWrite, DeliveryTarget
<1> QED BY <1>1, <1>2, <1>3

\* A request past the guard, while another cancels, is a race.
LEMMA GuardRaces ==
    ASSUME ControlInv, NEW r \in InFlight, NEW q \in InFlight, q # r, kind[r] \in Cancellers,
           kind[q] \in {"complete", "reopen", "deliver"}
    PROVE  Raced({"complete", "reopen", "deliver"}, Cancellers)
  BY InFlightRaces

\* FinalInv is inductive.
LEMMA FinalIsKept ==
    ASSUME TypeOK, ControlInv, FinalInv, NEW r \in Requests, Step(r)
    PROVE  FinalInv'
<1> DEFINE Races == Raced({"complete", "reopen", "deliver"}, Cancellers)
<1>0. \A q \in Requests : q # r => pc'[q] = pc[q] /\ kind'[q] = kind[q] /\ seen'[q] = seen[q]
  BY Locality DEF Only
<1>1. Races => Races'
  BY RacesAreKept
<1>2. \A q \in Requests :
        /\ pc[q] = "setStatus" => q \in InFlight /\ kind[q] \in {"complete", "reopen", "deliver"}
        /\ pc[q] \in {"syncWrite", "deliver"} => q \in InFlight
  BY DEF ControlInv, KindsMatchSteps, KindAt, InFlight
<1>3. CASE status' = status /\ delivery' = delivery /\ Checked(r)
  <2>1. \A q \in Requests : pc'[q] = "syncWrite" =>
          seen'[q].status = IF kind'[q] = "abort" THEN "CANCELLED" ELSE "COMPLETED"
    BY <1>0, <1>3 DEF FinalInv, Checked
  <2>2. ASSUME ~Races, NEW q \in Requests
        PROVE  /\ pc'[q] = "setStatus" \/ (pc'[q] = "syncWrite" /\ kind'[q] = "deliver")
                     => status' # "CANCELLED"
               /\ pc'[q] = "deliver" /\ kind'[q] = "deliver"
                     => \A d \in seen'[q].target : delivery'[d] # "CANCELLED"
    BY <1>0, <1>3, <2>2 DEF FinalInv, Checked
  <2> QED BY <1>1, <2>1, <2>2 DEF FinalInv
<1>4. CASE StatusWrite(r) \/ CancelWrite(r) \/ RefundCommit(r) \/ SyncWrite(r)
  <2>1. /\ delivery' = delivery /\ r \in InFlight
        /\ pc'[r] \notin {"setStatus", "syncWrite", "deliver"}
        /\ status' # "CANCELLED" \/ kind[r] \in Cancellers
    BY <1>4, StatusEffect DEF HoldsCashier
  <2>2. \A q \in Requests : pc'[q] = "syncWrite" =>
          seen'[q].status = IF kind'[q] = "abort" THEN "CANCELLED" ELSE "COMPLETED"
    BY <1>0, <2>1 DEF FinalInv
  <2>3. ASSUME ~Races', NEW q \in Requests,
               pc'[q] = "setStatus" \/ (pc'[q] = "syncWrite" /\ kind'[q] = "deliver")
        PROVE  status' # "CANCELLED"
    <3>1. q # r /\ q \in InFlight /\ kind[q] \in {"complete", "reopen", "deliver"}
      BY <1>0, <1>2, <2>1, <2>3
    <3>2. kind[r] \notin Cancellers
      BY <1>1, <2>1, <2>3, <3>1, GuardRaces
    <3> QED BY <2>1, <3>2
  <2>4. ASSUME ~Races', NEW q \in Requests, pc'[q] = "deliver", kind'[q] = "deliver",
               NEW d \in seen'[q].target
        PROVE  delivery'[d] # "CANCELLED"
    BY <1>0, <1>1, <2>1, <2>4 DEF FinalInv
  <2> QED BY <2>2, <2>3, <2>4 DEF FinalInv
<1>5. CASE CancelDeliveries(r) \/ AttachDelivery(r) \/ DeliveryWrite(r)
  <2>1. status' = status /\ pc'[r] \notin {"setStatus", "syncWrite", "deliver"}
    BY <1>5, DeliveryEffect DEF HoldsCashier
  <2>2. \A q \in Requests : pc'[q] = "syncWrite" =>
          seen'[q].status = IF kind'[q] = "abort" THEN "CANCELLED" ELSE "COMPLETED"
    BY <1>0, <2>1 DEF FinalInv
  <2>3. ASSUME ~Races', NEW q \in Requests,
               pc'[q] = "setStatus" \/ (pc'[q] = "syncWrite" /\ kind'[q] = "deliver")
        PROVE  status' # "CANCELLED"
    BY <1>0, <1>1, <2>1, <2>3 DEF FinalInv
  <2>4. ASSUME ~Races', NEW q \in Requests, pc'[q] = "deliver", kind'[q] = "deliver",
               NEW d \in seen'[q].target
        PROVE  delivery'[d] # "CANCELLED"
    <3>1. q # r /\ q \in InFlight /\ pc[q] = "deliver" /\ kind[q] = "deliver"
          /\ d \in seen[q].target /\ d \in Deliveries
      BY <1>0, <1>2, <2>1, <2>4 DEF TypeOK, Reads
    <3>2. ~Races /\ delivery[d] # "CANCELLED"
      BY <1>1, <2>4, <3>1 DEF FinalInv
    <3>3. ~(r \in InFlight /\ kind[r] \in Cancellers)
      BY <3>1, <3>2, GuardRaces
    <3> QED BY <1>5, <3>1, <3>2, <3>3, DeliveryEffect
  <2> QED BY <2>2, <2>3, <2>4 DEF FinalInv
<1> QED BY <1>3, <1>4, <1>5, StatusWriters

\* CashierInv is inductive.
LEMMA CashierIsKept ==
    ASSUME TypeOK, ControlInv, FinalInv, CashierInv, NEW r \in Requests, Step(r)
    PROVE  CashierInv'
<1> DEFINE A == {"complete", "reopen", "edit"}
           B == Cancellers \cup {"complete", "deliver"}
<1> SUFFICES ASSUME ~Raced(A, B)', NEW q \in Requests, pc'[q] \in HoldsCashier, seen'[q].cashier
             PROVE  status' = "PENDING"
  BY DEF CashierInv
<1>0. \A p \in Requests : p # r => pc'[p] = pc[p] /\ kind'[p] = kind[p] /\ seen'[p] = seen[p]
  BY Locality DEF Only
<1>1. ~Raced(A, B)
  BY RacesAreKept
<1>2. CASE status' = status /\ delivery' = delivery /\ Checked(r)
  BY <1>0, <1>1, <1>2 DEF CashierInv, Checked
<1>3. CASE StatusWrite(r) \/ CancelWrite(r) \/ RefundCommit(r) \/ SyncWrite(r)
  <2>1. q # r /\ pc[q] \in HoldsCashier /\ r \in InFlight
    BY <1>0, <1>3, StatusEffect
  <2>2. q \in InFlight /\ kind[q] \in A
    BY <2>1 DEF InFlight, HoldsCashier, ControlInv, KindsMatchSteps, KindAt
  <2>3. kind[r] \notin B
    BY <1>1, <2>1, <2>2, InFlightRaces
  <2> QED BY <1>3, <2>3, StatusEffect
<1>4. CASE CancelDeliveries(r) \/ AttachDelivery(r) \/ DeliveryWrite(r)
  BY <1>0, <1>1, <1>4, DeliveryEffect DEF CashierInv
<1> QED BY <1>2, <1>3, <1>4, StatusWriters

-----------------------------------------------------------------------------
(* What a handler's answer stands for: the steps behind its writes.         *)

\* Who changes whether the order earns points: an edit.
LEMMA EarnerWriters ==
    ASSUME TypeOK, NEW r \in Requests, Step(r)
    PROVE  earner' = earner \/ EditCommit(r)
<1> USE DEF orderRow
<1>1. CASE UpdateStatus(r)
  BY <1>1 DEF UpdateStatus, StatusRead, StatusWrite, CancelRead, CancelWrite, ReadPayments,
       ReverseOne
<1>2. CASE CancelDeliveries(r) \/ Refund(r)
  BY <1>2 DEF CancelDeliveries, Refund, RefundRead, RefundCheck, RefundLock, RefundReadPayments,
       RefundCommit
<1>3. CASE EditRead(r) \/ EditLock(r) \/ EditReadPayments(r) \/ EditCommit(r) \/ AttachDelivery(r)
  BY <1>3 DEF EditRead, EditLock, EditReadPayments, AttachDelivery
<1>4. CASE UpdateDelivery(r)
  BY <1>4 DEF UpdateDelivery, DeliveryRead, RepeatRead, RepeatAnswer, DeliveryWrite, AbortNoteRead, SyncRead, SyncWrite,
       Refresh
<1>5. CASE AwardCheck(r) \/ AwardCommit(r) \/ DeductCheck(r) \/ DeductCommit(r)
  BY <1>5 DEF AwardCheck, AwardCommit, DeductCheck, DeductCommit
<1>6. CASE NoteRead(r) \/ NoteWrite(r) \/ Fail(r)
  BY <1>6 DEF NoteRead, NoteWrite, Fail
<1> QED BY <1>1, <1>2, <1>3, <1>4, <1>5, <1>6 DEF Step, Edit

\* The requests whose overlap a delivery's completion does not survive.
Unsettlers == {"complete", "reopen", "edit", "deliver"}

\* Past its writes of the order a delivery's completion finds it completed, or cancelled by
\* another; past the award, with its points.
SettleInv ==
    ~Raced({"deliver"}, Unsettlers) =>
        \A r \in Requests : kind[r] = "deliver" =>
          /\ pc[r] \in {"refresh", "award", "awardTx", "awardWrite", "deduct", "deductTx"} =>
                status \in {"COMPLETED", "CANCELLED"}
          /\ pc[r] \in {"deduct", "deductTx"} /\ status # "CANCELLED" =>
                (earner => earned >= 1)

\* What a request in flight with it leaves of that.
LEMMA OthersSettle ==
    ASSUME TypeOK, ControlInv, FinalInv, NEW r \in Requests, Step(r),
           NEW q \in InFlight, q # r, kind[q] = "deliver", ~Raced({"deliver"}, Unsettlers)
    PROVE  /\ status' = status \/ status' = "CANCELLED"
           /\ earner' = earner /\ earned' >= earned
<1>1. ~(r \in InFlight /\ kind[r] \in Unsettlers)
  BY InFlightRaces
<1>2. status' = status \/ status' = "CANCELLED"
  <2>1. CASE StatusWrite(r) \/ CancelWrite(r) \/ RefundCommit(r) \/ SyncWrite(r)
    BY <1>1, <2>1, StatusEffect DEF Unsettlers
  <2>2. CASE CancelDeliveries(r) \/ AttachDelivery(r) \/ DeliveryWrite(r)
    BY <2>2, DeliveryEffect
  <2> QED BY <2>1, <2>2, StatusWriters
<1>3. earner' = earner
  <2>1. CASE EditCommit(r)
    BY <1>1, <2>1 DEF EditCommit, InFlight, ControlInv, KindsMatchSteps, KindAt, Unsettlers
  <2> QED BY <2>1, EarnerWriters
<1>4. earned' >= earned
  <2>1. CASE AwardCommit(r)
    BY <2>1 DEF AwardCommit, TypeOK
  <2>2. CASE earned' = earned
    BY <2>2 DEF TypeOK
  <2> QED BY <2>1, <2>2, EarnedWriters
<1> QED BY <1>2, <1>3, <1>4

\* What its own steps make of it.
LEMMA OwnSettles ==
    ASSUME TypeOK, ControlInv, FinalInv, NEW r \in Requests, Step(r), kind'[r] = "deliver",
           kind[r] = "deliver" =>
             /\ pc[r] \in {"refresh", "award", "awardTx", "awardWrite", "deduct", "deductTx"} =>
                   status \in {"COMPLETED", "CANCELLED"}
             /\ pc[r] \in {"deduct", "deductTx"} /\ status # "CANCELLED" => (earner => earned >= 1)
    PROVE  /\ pc'[r] \in {"refresh", "award", "awardTx", "awardWrite", "deduct", "deductTx"} =>
                 status' \in {"COMPLETED", "CANCELLED"}
           /\ pc'[r] \in {"deduct", "deductTx"} /\ status' # "CANCELLED" =>
                 (earner' => earned' >= 1)
<1> USE DEF TypeOK, Begin, Leave, Return, Continue, Remember, Goto, orderRow, ledgers
<1>1. CASE UpdateStatus(r)
  <2> USE DEF ControlInv, KindsMatchSteps, KindAt
  <2>1. CASE \E k \in {"complete", "reopen"} : StatusRead(r, k)
    BY <2>1 DEF StatusRead
  <2>2. CASE StatusWrite(r)
    BY <2>2 DEF StatusWrite
  <2>3. CASE CancelRead(r) \/ CancelWrite(r)
    BY <2>3 DEF CancelRead, CancelWrite
  <2>4. CASE ReadPayments(r) \/ ReverseOne(r)
    BY <2>4 DEF ReadPayments, ReverseOne
  <2> QED BY <1>1, <2>1, <2>2, <2>3, <2>4 DEF UpdateStatus
<1>2. CASE CancelDeliveries(r) \/ Refund(r)
  BY <1>2 DEF CancelDeliveries, Refund, RefundRead, RefundCheck, RefundLock, RefundReadPayments,
       RefundCommit
<1>3. CASE Edit(r) \/ AttachDelivery(r)
  BY <1>3 DEF Edit, EditRead, EditLock, EditReadPayments, EditCommit, AttachDelivery
<1>4. CASE UpdateDelivery(r)
  <2>1. CASE \E k \in {"deliver", "abort"} : DeliveryRead(r, k) \/ RepeatRead(r, k)
    BY <2>1 DEF DeliveryRead, RepeatRead
  <2>2. CASE DeliveryWrite(r) \/ AbortNoteRead(r) \/ RepeatAnswer(r)
    BY <2>2 DEF DeliveryWrite, AbortNoteRead, RepeatAnswer
  <2>3. CASE SyncRead(r)
    <3>1. status \in OrderStatus /\ kind[r] = "deliver" /\ status' = status
      BY <2>3 DEF SyncRead
    <3>2. pc'[r] = "syncWrite" \/ (pc'[r] = "refresh" /\ DeliveryProgress("COMPLETED", status) = status)
      BY <2>3, <3>1 DEF SyncRead, DeliveryTarget
    <3>3. pc'[r] = "refresh" => status \in {"COMPLETED", "CANCELLED"}
      BY <3>1, <3>2 DEF DeliveryProgress, OrderStatus
    <3> QED BY <3>1, <3>2, <3>3
  <2>4. CASE SyncWrite(r)
    <3>1. kind[r] = "deliver" /\ pc[r] = "syncWrite" /\ pc'[r] = "refresh"
      BY <2>4 DEF SyncWrite
    <3>2. status' = "COMPLETED"
      BY <2>4, <3>1 DEF SyncWrite, FinalInv
    <3> QED BY <3>1, <3>2
  <2>5. CASE Refresh(r)
    BY <2>5 DEF Refresh
  <2> QED BY <1>4, <2>1, <2>2, <2>3, <2>4, <2>5 DEF UpdateDelivery
<1>5. CASE AwardCheck(r)
  BY <1>5 DEF AwardCheck, MayAward, AfterAward
<1>6. CASE AwardCommit(r)
  BY <1>6 DEF AwardCommit, AfterAward
<1>7. CASE DeductCheck(r) \/ DeductCommit(r)
  BY <1>7 DEF DeductCheck, DeductCommit
<1>8. CASE NoteRead(r) \/ NoteWrite(r) \/ Fail(r)
  BY <1>8 DEF NoteRead, NoteWrite, Fail
<1> QED BY <1>1, <1>2, <1>3, <1>4, <1>5, <1>6, <1>7, <1>8 DEF Step

\* SettleInv is inductive.
LEMMA SettleIsKept ==
    ASSUME TypeOK, ControlInv, FinalInv, SettleInv, NEW r \in Requests, Step(r)
    PROVE  SettleInv'
<1> DEFINE Behind == {"refresh", "award", "awardTx", "awardWrite", "deduct", "deductTx"}
<1> SUFFICES ASSUME ~Raced({"deliver"}, Unsettlers)', NEW q \in Requests, kind'[q] = "deliver"
             PROVE  /\ pc'[q] \in Behind => status' \in {"COMPLETED", "CANCELLED"}
                    /\ pc'[q] \in {"deduct", "deductTx"} /\ status' # "CANCELLED" =>
                          (earner' => earned' >= 1)
  BY DEF SettleInv
<1>1. ~Raced({"deliver"}, Unsettlers)
  BY RacesAreKept
<1>2. CASE q # r
  <2>1. pc'[q] = pc[q] /\ kind'[q] = kind[q]
    BY <1>2, Locality DEF Only
  <2>2. CASE pc[q] \in Behind
    <3>1. q \in InFlight
      BY <2>2 DEF InFlight
    <3>2. /\ status' = status \/ status' = "CANCELLED"
          /\ earner' = earner /\ earned' >= earned
      BY <1>1, <1>2, <2>1, <3>1, OthersSettle
    <3>3. /\ status \in {"COMPLETED", "CANCELLED"}
          /\ pc[q] \in {"deduct", "deductTx"} /\ status # "CANCELLED" => (earner => earned >= 1)
      BY <1>1, <2>1, <2>2 DEF SettleInv
    <3>4. earned \in Nat /\ (earned' >= earned /\ earned >= 1 => earned' >= 1)
      <4>1. earned \in Nat /\ earned' \in Nat
        BY StepIsTyped DEF TypeOK
      <4> QED BY <4>1
    <3> QED BY <2>1, <3>2, <3>3, <3>4
  <2> QED BY <2>1, <2>2
<1>3. CASE q = r
  <2>1. kind[r] = "deliver" =>
          /\ pc[r] \in Behind => status \in {"COMPLETED", "CANCELLED"}
          /\ pc[r] \in {"deduct", "deductTx"} /\ status # "CANCELLED" => (earner => earned >= 1)
    BY <1>1 DEF SettleInv
  <2> QED BY <1>3, <2>1, OwnSettles
<1> QED BY <1>2, <1>3

\* The requests that cancel a sale as a whole, and whose overlap that does not survive.
Wholesale == {"cancel", "refund"}
Openers   == {"complete", "reopen", "edit", "deliver", "attach"}

\* What a cancellation or a refund has closed behind it stays closed, and the payments it
\* has yet to reverse are those it has read.
ClosedInv ==
    ~Raced(Wholesale, Openers) =>
        \A r \in Requests :
          /\ pc[r] \in {"cancelDeliveries", "readPayments", "reverse"} => status = "CANCELLED"
          /\ pc[r] \in {"readPayments", "reverse"} =>
                \A d \in Deliveries : delivery[d] \in {"none", "CANCELLED"}
          /\ pc[r] \in {"reverse", "refundCommit"} => Completed \subseteq Ids(seen[r].rows)
          /\ pc[r] = "cancelDeliveries" /\ kind[r] = "refund" => Completed = {}

\* Reversing rows takes them off the completed payments.
LEMMA ReverseCloses ==
    ASSUME TypeOK, NEW rows \in SUBSET (Payments \X Int), Reverse(rows)
    PROVE  Completed' \subseteq Completed \ Ids(rows)
  BY ReverseEffect DEF Completed

\* Only an edit completes a payment.
LEMMA CompletedWriters ==
    ASSUME TypeOK, NEW r \in Requests, Step(r)
    PROVE  Completed' \subseteq Completed \/ EditCommit(r)
<1>1. CASE payStatus' = payStatus
  BY <1>1 DEF Completed
<1>2. CASE ReverseOne(r) \/ RefundCommit(r)
  <2>1. PICK rows \in SUBSET (Payments \X Int) : Reverse(rows)
    BY <1>2, ReversalRows
  <2> QED BY <2>1, ReverseCloses
<1> QED BY <1>1, <1>2, PaymentWriters

\* What a request in flight with it leaves of that.
LEMMA OthersClose ==
    ASSUME TypeOK, ControlInv, FinalInv, NEW r \in Requests, Step(r),
           NEW q \in InFlight, q # r, kind[q] \in Wholesale, ~Raced(Wholesale, Openers)'
    PROVE  /\ status' = status \/ status' = "CANCELLED"
           /\ \A d \in Deliveries : delivery'[d] = delivery[d] \/ delivery'[d] = "CANCELLED"
           /\ Completed' \subseteq Completed
<1>0. ~Raced(Wholesale, Openers)
  BY RacesAreKept
<1>1. ~(r \in InFlight /\ kind[r] \in Openers)
  BY <1>0, InFlightRaces
<1>2. status' = status \/ status' = "CANCELLED"
  <2>1. CASE StatusWrite(r) \/ CancelWrite(r) \/ RefundCommit(r) \/ SyncWrite(r)
    BY <1>1, <2>1, StatusEffect DEF Openers
  <2>2. CASE CancelDeliveries(r) \/ AttachDelivery(r) \/ DeliveryWrite(r)
    BY <2>2, DeliveryEffect
  <2> QED BY <2>1, <2>2, StatusWriters
<1>3. \A d \in Deliveries : delivery'[d] = delivery[d] \/ delivery'[d] = "CANCELLED"
  <2>1. CASE AttachDelivery(r)
    <3>1. {"attach", kind[q]} \in overlaps'
      BY <2>1 DEF AttachDelivery
    <3>2. {kind[q], "attach"} = {"attach", kind[q]}
      OBVIOUS
    <3>3. Raced(Wholesale, Openers)'
      BY <3>1, <3>2 DEF Raced, Openers
    <3> QED BY <3>3
  <2>2. CASE CancelDeliveries(r)
    BY <2>2 DEF CancelDeliveries, CancelLinkedDeliveries, TypeOK
  <2>3. CASE DeliveryWrite(r)
    <3>1. r \in InFlight /\ kind[r] \in {"deliver", "abort"}
      BY <2>3 DEF DeliveryWrite, InFlight, ControlInv, KindsMatchSteps, KindAt
    <3>2. kind[r] = "abort"
      BY <1>1, <3>1 DEF Openers
    <3> QED BY <2>3, <3>2 DEF DeliveryWrite, DeliveryTarget
  <2>4. CASE StatusWrite(r) \/ CancelWrite(r) \/ RefundCommit(r) \/ SyncWrite(r)
    BY <2>4, StatusEffect
  <2> QED BY <2>1, <2>2, <2>3, <2>4, StatusWriters
<1>4. Completed' \subseteq Completed
  <2>1. ~EditCommit(r)
    BY <1>1 DEF EditCommit, InFlight, ControlInv, KindsMatchSteps, KindAt, Openers
  <2> QED BY <2>1, CompletedWriters
<1> QED BY <1>2, <1>3, <1>4

\* ClosedInv, of one request.
Closed(r) ==
    /\ pc[r] \in {"cancelDeliveries", "readPayments", "reverse"} => status = "CANCELLED"
    /\ pc[r] \in {"readPayments", "reverse"} =>
          \A d \in Deliveries : delivery[d] \in {"none", "CANCELLED"}
    /\ pc[r] \in {"reverse", "refundCommit"} => Completed \subseteq Ids(seen[r].rows)
    /\ pc[r] = "cancelDeliveries" /\ kind[r] = "refund" => Completed = {}

\* What has been read of the payments is all that is completed.
LEMMA ReadIsAll == Completed = Ids(CompletedRows)
<1>1. CompletedRows = {<<p, payAmount[p]>> : p \in Completed}
  BY DEF Completed, CompletedRows
<1>2. ASSUME NEW p \in Completed PROVE p \in Ids(CompletedRows)
  <2>1. <<p, payAmount[p]>> \in CompletedRows /\ <<p, payAmount[p]>>[1] = p
    BY <1>1, <1>2
  <2> QED BY <2>1 DEF Ids
<1>3. ASSUME NEW p \in Ids(CompletedRows) PROVE p \in Completed
  <2>1. PICK row \in CompletedRows : p = row[1]
    BY <1>3 DEF Ids
  <2>2. PICK c \in Completed : row = <<c, payAmount[c]>>
    BY <1>1, <2>1
  <2> QED BY <2>1, <2>2
<1> QED BY <1>2, <1>3

\* What its own steps make of it.
LEMMA OwnCloses ==
    ASSUME TypeOK, ControlInv, NEW r \in Requests, Step(r), Closed(r)
    PROVE  Closed(r)'
<1> USE DEF TypeOK, Begin, Leave, Return, Continue, Remember, Goto, orderRow, payRows
<1>1. CASE UpdateStatus(r)
  <2>1. CASE \E k \in {"complete", "reopen"} : StatusRead(r, k)
    BY <2>1 DEF StatusRead, Closed
  <2>2. CASE StatusWrite(r)
    BY <2>2 DEF StatusWrite, Closed
  <2>3. CASE CancelRead(r)
    BY <2>3 DEF CancelRead, Closed
  <2>4. CASE CancelWrite(r)
    BY <2>4 DEF CancelWrite, Closed, ControlInv, KindsMatchSteps, KindAt
  <2>5. CASE ReadPayments(r)
    <3>1. Completed' = Completed
      BY <2>5 DEF ReadPayments, Completed
    <3>2. seen[r] \in Reads
      OBVIOUS
    <3>3. pc'[r] = "done" \/ (pc'[r] = "reverse" /\ seen'[r].rows = CompletedRows)
      BY <2>5, <3>2 DEF ReadPayments, Reads
    <3>4. status' = status /\ delivery' = delivery /\ pc[r] = "readPayments"
      BY <2>5 DEF ReadPayments
    <3> QED BY <3>1, <3>3, <3>4, ReadIsAll DEF Closed, Ids
  <2>6. CASE ReverseOne(r)
    <3>1. PICK row \in seen[r].rows :
            /\ Reverse({row})
            /\ IF seen[r].rows \ {row} = {}
               THEN Return(r)
               ELSE Remember(r, [seen[r] EXCEPT !.rows = seen[r].rows \ {row}], "reverse")
      BY <2>6 DEF ReverseOne
    <3>2. {row} \in SUBSET (Payments \X Int) /\ seen[r] \in Reads
      BY DEF Reads
    <3>3. Completed' \subseteq Completed \ {row[1]}
      BY <3>1, <3>2, ReverseCloses DEF Ids
    <3>4. Completed \subseteq Ids(seen[r].rows)
      BY <2>6 DEF ReverseOne, Closed
    <3>5. Completed' \subseteq Ids(seen[r].rows \ {row})
      BY <3>3, <3>4 DEF Ids
    <3>6. pc'[r] = "done" \/ (pc'[r] = "reverse" /\ seen'[r].rows = seen[r].rows \ {row})
      BY <3>1, <3>2 DEF Reads
    <3>7. status' = status /\ delivery' = delivery /\ pc[r] = "reverse"
      BY <2>6 DEF ReverseOne
    <3> QED BY <3>5, <3>6, <3>7 DEF Closed, Ids
  <2> QED BY <1>1, <2>1, <2>2, <2>3, <2>4, <2>5, <2>6 DEF UpdateStatus
<1>2. CASE CancelDeliveries(r)
  <2>1. pc[r] = "cancelDeliveries" /\ status' = status /\ pc'[r] \in {"readPayments", "done"}
    BY <1>2 DEF CancelDeliveries
  <2>2. \A d \in Deliveries : delivery'[d] \in {"none", "CANCELLED"}
    BY <1>2 DEF CancelDeliveries, CancelLinkedDeliveries
  <2> QED BY <2>1, <2>2 DEF Closed
<1>3. CASE Refund(r)
  <2>1. CASE RefundRead(r) \/ RefundCheck(r) \/ RefundLock(r)
    BY <2>1 DEF RefundRead, RefundCheck, RefundLock, Closed
  <2>2. CASE RefundReadPayments(r)
    <3>1. Completed' = Completed /\ pc'[r] = "refundCommit"
      BY <2>2 DEF RefundReadPayments, Completed
    <3>2. seen[r] \in Reads
      OBVIOUS
    <3>3. seen'[r].rows = CompletedRows
      BY <2>2, <3>2 DEF RefundReadPayments, Reads
    <3> QED BY <3>1, <3>3, ReadIsAll DEF Closed, Ids
  <2>3. CASE RefundCommit(r)
    <3>1. Reverse(seen[r].rows) /\ seen[r].rows \in SUBSET (Payments \X Int)
      BY <2>3 DEF RefundCommit, Reads
    <3>2. Completed \subseteq Ids(seen[r].rows)
      BY <2>3 DEF RefundCommit, Closed
    <3>3. Completed' = {}
      BY <3>1, <3>2, ReverseCloses
    <3>4. status' = "CANCELLED" /\ pc'[r] = "cancelDeliveries"
      BY <2>3 DEF RefundCommit
    <3> QED BY <3>3, <3>4 DEF Closed
  <2> QED BY <1>3, <2>1, <2>2, <2>3 DEF Refund
<1>4. CASE Edit(r) \/ AttachDelivery(r)
  BY <1>4 DEF Edit, EditRead, EditLock, EditReadPayments, EditCommit, AttachDelivery, Closed
<1>5. CASE UpdateDelivery(r)
  BY <1>5 DEF UpdateDelivery, DeliveryRead, RepeatRead, RepeatAnswer, DeliveryWrite, AbortNoteRead, SyncRead, SyncWrite,
       Refresh, Closed
<1>6. CASE AwardCheck(r) \/ AwardCommit(r) \/ DeductCheck(r) \/ DeductCommit(r)
  BY <1>6 DEF AwardCheck, AwardCommit, AfterAward, DeductCheck, DeductCommit, Closed
<1>7. CASE NoteRead(r) \/ NoteWrite(r) \/ Fail(r)
  BY <1>7 DEF NoteRead, NoteWrite, Fail, Closed
<1> QED BY <1>1, <1>2, <1>3, <1>4, <1>5, <1>6, <1>7 DEF Step

\* ClosedInv is inductive.
LEMMA ClosedIsKept ==
    ASSUME TypeOK, ControlInv, FinalInv, ClosedInv, NEW r \in Requests, Step(r)
    PROVE  ClosedInv'
<1> SUFFICES ASSUME ~Raced(Wholesale, Openers)', NEW q \in Requests
             PROVE  Closed(q)'
  BY DEF ClosedInv, Closed, Ids
<1>1. ~Raced(Wholesale, Openers)
  BY RacesAreKept
<1>2. Closed(q) /\ Closed(r)
  BY <1>1 DEF ClosedInv, Closed
<1>3. CASE q # r
  <2>1. pc'[q] = pc[q] /\ kind'[q] = kind[q] /\ seen'[q] = seen[q]
    BY <1>3, Locality DEF Only
  <2>2. CASE pc[q] \in {"cancelDeliveries", "readPayments", "reverse", "refundCommit"}
    <3>1. q \in InFlight /\ kind[q] \in Wholesale
      BY <2>2 DEF InFlight, ControlInv, KindsMatchSteps, KindAt, Wholesale
    <3>2. /\ status' = status \/ status' = "CANCELLED"
          /\ \A d \in Deliveries : delivery'[d] = delivery[d] \/ delivery'[d] = "CANCELLED"
          /\ Completed' \subseteq Completed
      BY <1>3, <3>1, OthersClose
    <3> QED BY <1>2, <2>1, <3>2 DEF Closed, Ids
  <2>3. CASE pc[q] \notin {"cancelDeliveries", "readPayments", "reverse", "refundCommit"}
    BY <2>1, <2>3 DEF Closed
  <2> QED BY <2>2, <2>3
<1>4. CASE q = r
  BY <1>2, <1>4, OwnCloses
<1> QED BY <1>3, <1>4


\* Who is stepping when a request answers.
LEMMA AnswersItself ==
    ASSUME TypeOK, NEW r \in Requests, Step(r), NEW q \in Requests, Answers(q)
    PROVE  q = r
  BY Locality DEF Only, Answers, InFlight

\* A delivery's completion answers past its writes of the order, its points and its stock.
LEMMA SettledAnswer ==
    ASSUME TypeOK, ControlInv, SettleInv, ~Raced({"deliver"}, Unsettlers),
           NEW r \in Requests, Step(r), Answers(r), kind[r] = "deliver"
    PROVE  \/ status' = "CANCELLED"
           \/ /\ status' = "COMPLETED"
              /\ earner => earned' >= 1
              /\ stockDeducted'
<1> USE DEF TypeOK, Begin, Leave, Return, Continue, Remember, Goto, orderRow, ledgers, Answers,
        InFlight, ControlInv, KindsMatchSteps, KindAt
<1>0. /\ pc[r] \in {"refresh", "award", "awardTx", "awardWrite", "deduct", "deductTx"} =>
            status \in {"COMPLETED", "CANCELLED"}
      /\ pc[r] \in {"deduct", "deductTx"} /\ status # "CANCELLED" => (earner => earned >= 1)
  BY DEF SettleInv
<1>1. CASE UpdateStatus(r)
  BY <1>1 DEF UpdateStatus, StatusRead, StatusWrite, CancelRead, CancelWrite, ReadPayments,
       ReverseOne
<1>2. CASE CancelDeliveries(r) \/ Refund(r)
  BY <1>2 DEF CancelDeliveries, Refund, RefundRead, RefundCheck, RefundLock, RefundReadPayments,
       RefundCommit
<1>3. CASE Edit(r) \/ AttachDelivery(r)
  BY <1>3 DEF Edit, EditRead, EditLock, EditReadPayments, EditCommit, AttachDelivery
<1>4. CASE UpdateDelivery(r)
  <2>1. CASE Refresh(r)
    BY <1>0, <2>1 DEF Refresh
  <2> QED BY <1>4, <2>1 DEF UpdateDelivery, DeliveryRead, RepeatRead, RepeatAnswer, DeliveryWrite, AbortNoteRead, SyncRead,
            SyncWrite
<1>5. CASE AwardCheck(r) \/ AwardCommit(r)
  BY <1>5 DEF AwardCheck, AwardCommit, AfterAward
<1>6. CASE DeductCheck(r)
  <2>1. pc[r] = "deduct" /\ status' = status /\ earned' = earned /\ stockDeducted' = stockDeducted
    BY <1>6 DEF DeductCheck
  <2>2. status # "COMPLETED" \/ stockDeducted
    BY <1>6 DEF DeductCheck
  <2> QED BY <1>0, <2>1, <2>2
<1>7. CASE DeductCommit(r)
  BY <1>0, <1>7 DEF DeductCommit
<1>8. CASE NoteRead(r) \/ NoteWrite(r) \/ Fail(r)
  BY <1>8 DEF NoteRead, NoteWrite, Fail
<1> QED BY <1>1, <1>2, <1>3, <1>4, <1>5, <1>6, <1>7, <1>8 DEF Step

\* A delivery being completed, past the write of its own row.
Settling(q) == kind[q] = "deliver" /\ q \in InFlight /\ pc[q] # "deliver"

\* Requests about to take the order out of CANCELLED.
Reviving(q) == pc[q] = "setStatus" \/ (pc[q] = "syncWrite" /\ kind[q] = "deliver")

\* A completed delivery's order has its stock deducted, or will have, or is cancelled with
\* nobody about to revive it, unless the completion broke off.
DeliveredInv ==
    ~Raced({"deliver"}, Unsettlers) =>
        \A d \in Deliveries \ broken : delivery[d] = "COMPLETED" =>
          \/ stockDeducted
          \/ \E q \in Requests : Settling(q) /\ d \in seen[q].target
          \/ status = "CANCELLED" /\ \A q \in Requests : ~Reviving(q)

\* A completion past its own row goes on for the same delivery, ends, or is on record as
\* broken off.
LEMMA SettlingStep ==
    ASSUME TypeOK, ControlInv, NEW r \in Requests, Step(r)
    PROVE  /\ broken \subseteq broken'
           /\ Settling(r) =>
                \/ Settling(r)' /\ seen'[r].target = seen[r].target
                \/ pc'[r] = "done"
                \/ pc'[r] = "failed" /\ seen[r].target \subseteq broken'
<1> USE DEF TypeOK, Reads, Settling, InFlight, Begin, Leave, Return, Continue, Remember, Goto,
        history
<1>1. CASE UpdateStatus(r)
  <2>1. broken' = broken
    BY <1>1 DEF UpdateStatus, StatusRead, StatusWrite, CancelRead, CancelWrite, ReadPayments,
         ReverseOne
  <2>2. pc[r] \in {"idle", "setStatus", "cancel", "readPayments", "reverse"}
    BY <1>1 DEF UpdateStatus, StatusRead, StatusWrite, CancelRead, CancelWrite, ReadPayments,
         ReverseOne
  <2>3. ~Settling(r)
    BY <2>2 DEF ControlInv, KindsMatchSteps, KindAt
  <2> QED BY <2>1, <2>3
<1>2. CASE CancelDeliveries(r) \/ Refund(r)
  BY <1>2 DEF CancelDeliveries, Refund, RefundRead, RefundCheck, RefundLock, RefundReadPayments,
       RefundCommit
<1>3. CASE Edit(r) \/ AttachDelivery(r)
  BY <1>3 DEF Edit, EditRead, EditLock, EditReadPayments, EditCommit, AttachDelivery
<1>4. CASE UpdateDelivery(r)
  BY <1>4 DEF UpdateDelivery, DeliveryRead, RepeatRead, RepeatAnswer, DeliveryWrite,
       AbortNoteRead, SyncRead, SyncWrite, Refresh
<1>5. CASE AwardCheck(r) \/ AwardCommit(r) \/ DeductCheck(r) \/ DeductCommit(r)
  BY <1>5 DEF AwardCheck, AwardCommit, AfterAward, DeductCheck, DeductCommit
<1>6. CASE NoteRead(r) \/ NoteWrite(r)
  BY <1>6 DEF NoteRead, NoteWrite
<1>7. CASE Fail(r)
  BY <1>7 DEF Fail
<1> QED BY <1>1, <1>2, <1>3, <1>4, <1>5, <1>6, <1>7 DEF Step

\* A delivery is completed by a completion that goes on.
LEMMA DeliveryCompleted ==
    ASSUME TypeOK, ControlInv, NEW r \in Requests, Step(r), NEW d \in Deliveries,
           delivery[d] # "COMPLETED", delivery'[d] = "COMPLETED", FinalInv
    PROVE  Settling(r)' /\ d \in seen'[r].target
<1>1. CASE CancelDeliveries(r) \/ AttachDelivery(r)
  BY <1>1 DEF CancelDeliveries, CancelLinkedDeliveries, AttachDelivery, TypeOK
<1>2. CASE DeliveryWrite(r)
  <2>1. d \in seen[r].target /\ kind[r] = "deliver"
    BY <1>2 DEF DeliveryWrite, DeliveryTarget, ControlInv, KindsMatchSteps, KindAt
  <2> QED BY <1>2, <2>1 DEF DeliveryWrite, Settling, InFlight, Continue, Goto, TypeOK
<1> QED BY <1>1, <1>2, StatusWriters, StatusEffect

\* A cancelled order that nobody is about to revive stays so.
LEMMA StaysCancelled ==
    ASSUME TypeOK, ControlInv, FinalInv, NEW r \in Requests, Step(r),
           status = "CANCELLED", \A q \in Requests : ~Reviving(q)
    PROVE  status' = "CANCELLED" /\ \A q \in Requests : ~Reviving(q)'
<1>0. \A q \in Requests : q # r => pc'[q] = pc[q] /\ kind'[q] = kind[q]
  BY Locality DEF Only
<1>1. CASE status' = status /\ delivery' = delivery /\ Checked(r)
  BY <1>0, <1>1 DEF Checked, Reviving
<1>2. CASE StatusWrite(r) \/ CancelWrite(r) \/ RefundCommit(r) \/ SyncWrite(r)
  <2>1. status' = "CANCELLED"
    BY <1>2 DEF StatusWrite, CancelWrite, RefundCommit, SyncWrite, Reviving, ControlInv,
         KindsMatchSteps, KindAt, FinalInv
  <2>2. pc'[r] \notin {"setStatus", "syncWrite"}
    BY <1>2, StatusEffect DEF HoldsCashier
  <2> QED BY <1>0, <2>1, <2>2 DEF Reviving
<1>3. CASE CancelDeliveries(r) \/ AttachDelivery(r) \/ DeliveryWrite(r)
  <2>1. status' = status /\ pc'[r] \notin {"setStatus", "syncWrite"}
    BY <1>3, DeliveryEffect DEF HoldsCashier
  <2> QED BY <1>0, <2>1 DEF Reviving
<1> QED BY <1>1, <1>2, <1>3, StatusWriters

\* DeliveredInv is inductive.
LEMMA DeliveredIsKept ==
    ASSUME TypeOK, ControlInv, FinalInv, SettleInv, DeliveredInv, NEW r \in Requests, Step(r)
    PROVE  DeliveredInv'
<1> SUFFICES ASSUME ~Raced({"deliver"}, Unsettlers)', NEW d \in Deliveries, d \notin broken',
                    delivery'[d] = "COMPLETED"
             PROVE  \/ stockDeducted'
                    \/ \E q \in Requests : Settling(q)' /\ d \in seen'[q].target
                    \/ status' = "CANCELLED" /\ \A q \in Requests : ~Reviving(q)'
  BY DEF DeliveredInv, Settling, Reviving, InFlight
<1>1. ~Raced({"deliver"}, Unsettlers) /\ d \notin broken
  BY RacesAreKept, SettlingStep
<1>2. CASE delivery[d] # "COMPLETED"
  BY <1>2, DeliveryCompleted
<1>3. CASE stockDeducted
  BY <1>3, UsageWriters DEF DeductCommit
<1>4. ASSUME NEW q \in Requests, q # r, Settling(q), d \in seen[q].target
      PROVE  Settling(q)' /\ d \in seen'[q].target
  BY <1>4, Locality DEF Only, Settling, InFlight
<1>5. CASE Settling(r) /\ d \in seen[r].target
  <2>1. CASE pc'[r] = "done"
    <3>1. Answers(r) /\ kind[r] = "deliver" /\ r \in InFlight
      BY <1>5, <2>1 DEF Answers, Settling
    <3>2. status' = "CANCELLED" \/ stockDeducted'
      BY <1>1, <3>1, SettledAnswer
    <3>3. ASSUME NEW q \in Requests, Reviving(q)'  PROVE FALSE
      <4>1. q # r
        BY <2>1, <3>3 DEF Reviving
      <4>2. pc'[q] = pc[q] /\ kind'[q] = kind[q]
        BY <4>1, Locality DEF Only
      <4>3. q \in InFlight /\ kind[q] \in Unsettlers
        BY <3>3, <4>2 DEF Reviving, InFlight, ControlInv, KindsMatchSteps, KindAt, Unsettlers
      <4>4. kind[r] \in {"deliver"}
        BY <3>1
      <4> QED BY <1>1, <3>1, <4>1, <4>3, <4>4, InFlightRaces
    <3> QED BY <3>2, <3>3
  <2> QED BY <1>5, <2>1, SettlingStep
<1>6. CASE status = "CANCELLED" /\ \A q \in Requests : ~Reviving(q)
  BY <1>6, StaysCancelled
<1> QED BY <1>1, <1>2, <1>3, <1>4, <1>5, <1>6 DEF DeliveredInv

\* A repeat answers with the stock deducted or the order cancelled, unless the completion of
\* its delivery is in flight or broke off.
LEMMA RepeatedAnswer ==
    ASSUME TypeOK, ControlInv, DeliveredInv, ~Raced({"deliver"}, Unsettlers),
           NEW r \in Requests, Step(r), Answers(r), kind[r] = "repeat",
           ~Raced({"repeat"}, {"deliver"}),
           NEW d \in seen[r].target \ broken, delivery[d] = "COMPLETED"
    PROVE  status' = "CANCELLED" \/ stockDeducted'
<1>1. d \in Deliveries /\ r \in InFlight
  BY DEF TypeOK, Reads, Answers
<1>2. ASSUME NEW q \in Requests, Settling(q)  PROVE FALSE
  <2>1. q # r /\ q \in InFlight /\ kind[q] \in {"deliver"} /\ kind[r] \in {"repeat"}
    BY <1>2 DEF Settling
  <2> QED BY <1>1, <2>1, InFlightRaces
<1>3. stockDeducted \/ status = "CANCELLED"
  BY <1>1, <1>2 DEF DeliveredInv
<1>4. pc[r] = "findAgain"
  BY <1>1 DEF ControlInv, KindsMatchSteps, KindAt, Awarders, InFlight
<1>5. status' = status /\ stockDeducted' = stockDeducted
  <2>1. ~(StatusWrite(r) \/ CancelWrite(r) \/ RefundCommit(r) \/ SyncWrite(r))
    BY <1>4 DEF StatusWrite, CancelWrite, RefundCommit, SyncWrite
  <2>2. ~DeductCommit(r)
    BY <1>4 DEF DeductCommit
  <2>3. CASE CancelDeliveries(r) \/ AttachDelivery(r) \/ DeliveryWrite(r)
    BY <2>3, <1>4 DEF CancelDeliveries, AttachDelivery, DeliveryWrite
  <2>4. status' = status
    BY <2>1, <2>3, StatusWriters
  <2> QED BY <2>2, <2>4, UsageWriters
<1> QED BY <1>3, <1>5

\* A cancellation or a refund answers with the sale cancelled as a whole.
LEMMA ClosedAnswer ==
    ASSUME TypeOK, ControlInv, ClosedInv, ~Raced(Wholesale, Openers),
           NEW r \in Requests, Step(r), Answers(r),
           kind[r] = "cancel" \/ (kind[r] = "refund" /\ pc[r] = "cancelDeliveries")
    PROVE  /\ status' = "CANCELLED"
           /\ Completed' = {}
           /\ \A d \in Deliveries : delivery'[d] \in {"none", "CANCELLED"}
<1> USE DEF TypeOK, Begin, Leave, Return, Continue, Remember, Goto, orderRow, Answers,
        InFlight, ControlInv, KindsMatchSteps, KindAt
<1>0. Closed(r)
  BY DEF ClosedInv, Closed
<1>1. CASE UpdateStatus(r)
  <2>1. CASE ReadPayments(r)
    <3>1. pc[r] = "readPayments" /\ status' = status /\ delivery' = delivery
      BY <2>1 DEF ReadPayments
    <3>2. CompletedRows = {} /\ Completed' = Completed
      BY <2>1 DEF ReadPayments, payRows, Completed
    <3>3. Completed = {}
      BY <3>2, ReadIsAll DEF Ids
    <3> QED BY <1>0, <3>1, <3>2, <3>3 DEF Closed
  <2>2. CASE ReverseOne(r)
    <3>1. pc[r] = "reverse" /\ status' = status /\ delivery' = delivery
      BY <2>2 DEF ReverseOne
    <3>2. PICK row \in seen[r].rows :
            /\ Reverse({row})
            /\ seen[r].rows \ {row} = {}
      BY <2>2 DEF ReverseOne
    <3>3. {row} \in SUBSET (Payments \X Int)
      BY DEF Reads
    <3>4. Completed' \subseteq Completed \ {row[1]}
      BY <3>2, <3>3, ReverseCloses DEF Ids
    <3>5. Completed \subseteq {row[1]}
      BY <1>0, <3>1, <3>2 DEF Closed, Ids
    <3> QED BY <1>0, <3>1, <3>4, <3>5 DEF Closed
  <2> QED BY <1>1, <2>1, <2>2 DEF UpdateStatus, StatusRead, StatusWrite, CancelRead, CancelWrite
<1>2. CASE CancelDeliveries(r)
  <2>1. pc[r] = "cancelDeliveries" /\ status' = status /\ kind[r] = "refund"
    BY <1>2 DEF CancelDeliveries
  <2>2. Completed' = Completed
    BY <1>2 DEF CancelDeliveries, payRows, Completed
  <2>3. \A d \in Deliveries : delivery'[d] \in {"none", "CANCELLED"}
    BY <1>2 DEF CancelDeliveries, CancelLinkedDeliveries
  <2> QED BY <1>0, <2>1, <2>2, <2>3 DEF Closed
<1>3. CASE Refund(r)
  BY <1>3 DEF Refund, RefundRead, RefundCheck, RefundLock, RefundReadPayments, RefundCommit
<1>4. CASE Edit(r) \/ AttachDelivery(r)
  BY <1>4 DEF Edit, EditRead, EditLock, EditReadPayments, EditCommit, AttachDelivery
<1>5. CASE UpdateDelivery(r)
  BY <1>5 DEF UpdateDelivery, DeliveryRead, RepeatRead, RepeatAnswer, DeliveryWrite, AbortNoteRead, SyncRead, SyncWrite,
       Refresh
<1>6. CASE AwardCheck(r) \/ AwardCommit(r) \/ DeductCheck(r) \/ DeductCommit(r)
  BY <1>6 DEF AwardCheck, AwardCommit, AfterAward, DeductCheck, DeductCommit
<1>7. CASE NoteRead(r) \/ NoteWrite(r) \/ Fail(r)
  BY <1>7 DEF NoteRead, NoteWrite, Fail
<1> QED BY <1>1, <1>2, <1>3, <1>4, <1>5, <1>6, <1>7 DEF Step

-----------------------------------------------------------------------------
(* The inductive invariant, and what follows from it.                       *)

\* The inductive invariant: the types, the control, and one part for each property.
IInv ==
    /\ TypeOK /\ ControlInv /\ LockInv /\ AwardInv /\ StockInv
    /\ TenderInv /\ SignInv /\ NoteInv /\ FinalInv /\ CashierInv
    /\ SettleInv /\ DeliveredInv /\ ClosedInv

\* Checkout leaves one tender that matches the total, and no reversed money.
LEMMA InitPayments ==
    ASSUME Init
    PROVE  TenderInv /\ SignInv
<1>1. roundMoney(total) \in Nat
  BY RoundedIsMoney, TotalsAreMoney DEF Init
<1>2. \A r \in Requests : pc[r] = "idle"
  BY DEF Init
<1>3. CASE PaidWithOne
  <2>1. /\ \A x, y \in Completed : x = y
        /\ \A x \in Completed : payAmount[x] = roundMoney(total)
        /\ \A x \in Payments : payStatus[x] # "REFUNDED"
    BY <1>3 DEF Completed, PaidWithOne
  <2> QED BY <1>1, <1>2, <2>1 DEF TenderInv, SignInv
<1>4. CASE PaidWithTwo
  <2>1. /\ \A x \in Completed : payAmount[x] >= 0
        /\ \A x \in Payments : payStatus[x] # "REFUNDED"
    BY <1>4, TendersAreMoney DEF Completed, PaidWithTwo
  <2>2. split
    BY <1>4 DEF PaidWithTwo
  <2> QED BY <1>2, <2>1, <2>2 DEF TenderInv, SignInv
<1> QED BY <1>3, <1>4 DEF Init

\* Checkout leaves the inductive invariant.
LEMMA InitIInv == Init => IInv
<1> SUFFICES ASSUME Init PROVE IInv
  OBVIOUS
<1>1. /\ \A r \in Requests : pc[r] = "idle" /\ kind[r] = "none"
      /\ lock = {}
      /\ InFlight = {}
  BY DEF Init, InFlight
<1>2. ControlInv /\ LockInv
  BY <1>1 DEF ControlInv, KindsMatchSteps, KindAt, OverlapsAreSeen, LockInv, InTransaction
<1>3. AwardInv
  <2>1. earned = 0 \/ earned = 1
    BY Zenon DEF Init
  <2> QED BY <1>1, <2>1 DEF AwardInv
<1>4. StockInv
  <2>1. usages = 0
    BY Zenon DEF Init
  <2> QED BY <1>1, <2>1 DEF StockInv
<1>5. NoteInv /\ FinalInv /\ CashierInv
  BY <1>1 DEF NoteInv, FinalInv, CashierInv, HoldsCashier
<1>6. SettleInv /\ ClosedInv
  BY <1>1 DEF SettleInv, ClosedInv
<1>7. DeliveredInv
  <2>1. \A d \in Deliveries : delivery[d] # "COMPLETED"
    BY DEF Init
  <2> QED BY <2>1 DEF DeliveredInv
<1> QED BY <1>2, <1>3, <1>4, <1>5, <1>6, <1>7, InitPayments, InitTypeOK DEF IInv

\* Every action of a request keeps it.
LEMMA StepIInv ==
    ASSUME IInv, NEW r \in Requests, Step(r)
    PROVE  IInv'
<1>1. TypeOK' /\ ControlInv' /\ LockInv'
  BY StepIsTyped, ControlIsKept, LockIsKept DEF IInv
<1>2. AwardInv' /\ StockInv' /\ TenderInv' /\ SignInv'
  BY AwardIsKept, StockIsKept, TenderIsKept, SignIsKept DEF IInv
<1>3. NoteInv' /\ FinalInv' /\ CashierInv'
  BY NotesStay, FinalIsKept, CashierIsKept DEF IInv
<1>4. SettleInv' /\ DeliveredInv' /\ ClosedInv'
  BY SettleIsKept, DeliveredIsKept, ClosedIsKept DEF IInv
<1> QED BY <1>1, <1>2, <1>3, <1>4 DEF IInv

\* It depends on the variables alone.
LEMMA StutterIInv == IInv /\ UNCHANGED vars => IInv'
<1> SUFFICES ASSUME IInv, UNCHANGED vars PROVE IInv'
  OBVIOUS
<1> USE DEF vars, orderRow, payRows, ledgers, local, history, IInv, Raced
<1>1. TypeOK'
  BY DEF TypeOK
<1>2. ControlInv' /\ LockInv'
  BY DEF ControlInv, KindsMatchSteps, OverlapsAreSeen, InFlight, LockInv
<1>3. AwardInv' /\ StockInv'
  BY DEF AwardInv, StockInv
<1>4. TenderInv' /\ SignInv'
  BY DEF TenderInv, SignInv, Completed, Ids
<1>5. NoteInv' /\ FinalInv' /\ CashierInv'
  BY DEF NoteInv, FinalInv, CashierInv, InFlight
<1>6. SettleInv' /\ ClosedInv'
  BY DEF SettleInv, ClosedInv, Completed, Ids
<1>7. DeliveredInv'
  BY DEF DeliveredInv, Settling, Reviving, InFlight
<1> QED BY <1>1, <1>2, <1>3, <1>4, <1>5, <1>6, <1>7

\* Next is a step of some request, or nothing.
LEMMA NextIsStep == Next => (\E r \in Requests : Step(r)) \/ UNCHANGED vars
  BY DEF Next, Step, Ended

\* The inductive invariant holds in every reachable state.
THEOREM Inductive == Spec => []IInv
<1>1. IInv /\ [Next]_vars => IInv'
  BY NextIsStep, StepIInv, StutterIInv
<1> QED BY <1>1, InitIInv, PTL DEF Spec

\* The type invariant holds in every reachable state, for any number of requests,
\* payment rows and delivery rows.
THEOREM TypeCorrect == Spec => []TypeOK
<1>1. IInv => TypeOK
  BY DEF IInv
<1> QED BY <1>1, Inductive, PTL

\* Points of a sale are awarded once unless two awarding requests overlap.
THEOREM AwardedOnceHolds == Spec => []AwardedOnce
<1>1. IInv => AwardedOnce
  BY DEF IInv, AwardInv, AwardedOnce
<1> QED BY <1>1, Inductive, PTL

\* Stock of a sale is deducted once unless two delivery updates overlap.
THEOREM StockDeductedOnceHolds == Spec => []StockDeductedOnce
<1>1. IInv => StockDeductedOnce
  BY DEF IInv, StockInv, StockDeductedOnce
<1> QED BY <1>1, Inductive, PTL

\* A sale paid with one tender has at most one completed payment, of the order's total.
THEOREM TenderMatchesTotalHolds == Spec => []TenderMatchesTotal
<1>1. IInv => TenderMatchesTotal
  BY DEF IInv, TenderInv, TenderMatchesTotal
<1> QED BY <1>1, Inductive, PTL

\* Reversed money is negative and completed money is not.
THEOREM ReversedMoneyHolds == Spec => []ReversedMoneyIsNegative
<1>1. IInv => ReversedMoneyIsNegative
  BY DEF IInv, SignInv, ReversedMoneyIsNegative, Completed
<1> QED BY <1>1, Inductive, PTL

\* No step drops text from an order's notes unless two rewrites of them overlap.
THEOREM NotesAreKeptHolds == Spec => NotesAreKept
<1>1. IInv /\ [Next]_vars
        => [~Raced(NoteWriters, NoteWriters) => notes \subseteq notes']_vars
  BY NextIsStep, NotesStay DEF IInv
<1> QED BY <1>1, Inductive, PTL DEF Spec, NotesAreKept

\* No step takes a cancelled order, or delivery, out of CANCELLED, short of a race.
THEOREM CancelledIsFinalHolds == Spec => CancelledIsFinal
<1> DEFINE Kept == ~Raced({"complete", "reopen", "deliver"}, Cancellers)
                     => /\ status = "CANCELLED" => status' = "CANCELLED"
                        /\ \A d \in Deliveries : delivery[d] = "CANCELLED" => delivery'[d] = "CANCELLED"
<1>1. ASSUME IInv, NEW r \in Requests, Step(r), ~Raced({"complete", "reopen", "deliver"}, Cancellers)
      PROVE  /\ status = "CANCELLED" => status' = "CANCELLED"
             /\ \A d \in Deliveries : delivery[d] = "CANCELLED" => delivery'[d] = "CANCELLED"
  <2>1. CASE status' = status /\ delivery' = delivery
    BY <2>1
  <2>2. CASE StatusWrite(r) \/ SyncWrite(r)
    <3>1. status = "CANCELLED" => status' = "CANCELLED"
      BY <1>1, <2>2 DEF IInv, FinalInv, StatusWrite, SyncWrite, ControlInv, KindsMatchSteps,
           KindAt
    <3>2. delivery' = delivery
      BY <2>2 DEF StatusWrite, SyncWrite
    <3> QED BY <3>1, <3>2
  <2>3. CASE CancelWrite(r) \/ RefundCommit(r)
    BY <2>3 DEF CancelWrite, RefundCommit
  <2>4. CASE CancelDeliveries(r) \/ AttachDelivery(r) \/ DeliveryWrite(r)
    BY <1>1, <2>4, DeliveryEffect DEF IInv, FinalInv
  <2> QED BY <1>1, <2>1, <2>2, <2>3, <2>4, StatusWriters DEF IInv
<1>2. IInv /\ [Next]_vars => [Kept]_vars
  BY <1>1, NextIsStep
<1> QED BY <1>2, Inductive, PTL DEF Spec, CancelledIsFinal

\* A cashier's change never lands on an order that is not pending, short of a race.
THEOREM CashierChangesPendingOnlyHolds == Spec => CashierChangesPendingOnly
<1> DEFINE Kept == \A r \in Requests :
         /\ pc[r] \in {"setStatus", "editCommit"} /\ pc'[r] \notin {pc[r], "failed"}
         /\ seen[r].cashier
         /\ ~Raced({"complete", "reopen", "edit"}, Cancellers \cup {"complete", "deliver"})
         => status = "PENDING"
<1>1. IInv => Kept
  BY DEF IInv, CashierInv, HoldsCashier
<1> QED BY <1>1, Inductive, PTL DEF CashierChangesPendingOnly

\* When a delivery's completion answers, its sale is settled, or cancelled by another; and
\* so is its stock when a repeat of it answers, unless the completion broke off.
THEOREM DeliverySettlesSaleHolds == Spec => DeliverySettlesSale
<1> DEFINE Settles == \A r \in Requests :
         Answers(r) /\ ~Raced({"deliver"}, {"complete", "reopen", "edit", "deliver"})
         => /\ kind[r] = "deliver" =>
                 \/ status' = "CANCELLED"
                 \/ /\ status' = "COMPLETED"
                    /\ earner => earned' >= 1
                    /\ stockDeducted'
            /\ kind[r] = "repeat" /\ ~Raced({"repeat"}, {"deliver"}) =>
                 \A d \in seen[r].target \ broken :
                    delivery[d] = "COMPLETED" => status' = "CANCELLED" \/ stockDeducted'
<1>1. ASSUME IInv, NEW r \in Requests, Step(r)
      PROVE  Settles
  <2>1. \A q \in Requests : Answers(q) => q = r
    BY <1>1, AnswersItself DEF IInv
  <2>2. ASSUME Answers(r), ~Raced({"deliver"}, Unsettlers), kind[r] = "deliver"
        PROVE  \/ status' = "CANCELLED"
               \/ /\ status' = "COMPLETED"
                  /\ earner => earned' >= 1
                  /\ stockDeducted'
    BY <1>1, <2>2, SettledAnswer DEF IInv
  <2>3. ASSUME Answers(r), ~Raced({"deliver"}, Unsettlers), kind[r] = "repeat",
               ~Raced({"repeat"}, {"deliver"}),
               NEW d \in seen[r].target \ broken, delivery[d] = "COMPLETED"
        PROVE  status' = "CANCELLED" \/ stockDeducted'
    BY <1>1, <2>3, RepeatedAnswer DEF IInv
  <2> QED BY <2>1, <2>2, <2>3 DEF Unsettlers
<1>2. IInv /\ [Next]_vars => [Settles]_vars
  BY <1>1, NextIsStep
<1> QED BY <1>2, Inductive, PTL DEF Spec, DeliverySettlesSale

\* When a cancellation or a refund answers, the sale is cancelled as a whole.
THEOREM CancelLeavesNothingOpenHolds == Spec => CancelLeavesNothingOpen
<1> DEFINE Closes == \A r \in Requests :
         /\ Answers(r)
         /\ kind[r] = "cancel" \/ (kind[r] = "refund" /\ pc[r] = "cancelDeliveries")
         /\ ~Raced({"cancel", "refund"}, {"complete", "reopen", "edit", "deliver", "attach"})
         => /\ status' = "CANCELLED"
            /\ \A p \in Payments : payStatus'[p] # "COMPLETED"
            /\ \A d \in Deliveries : delivery'[d] \in {"none", "CANCELLED"}
<1>1. ASSUME IInv, NEW r \in Requests, Step(r)
      PROVE  Closes
  <2> SUFFICES ASSUME NEW q \in Requests, Answers(q),
                      kind[q] = "cancel" \/ (kind[q] = "refund" /\ pc[q] = "cancelDeliveries"),
                      ~Raced({"cancel", "refund"}, {"complete", "reopen", "edit", "deliver", "attach"})
               PROVE  /\ status' = "CANCELLED"
                      /\ \A p \in Payments : payStatus'[p] # "COMPLETED"
                      /\ \A d \in Deliveries : delivery'[d] \in {"none", "CANCELLED"}
    OBVIOUS
  <2>1. q = r
    BY <1>1, AnswersItself DEF IInv
  <2>2. /\ status' = "CANCELLED"
        /\ Completed' = {}
        /\ \A d \in Deliveries : delivery'[d] \in {"none", "CANCELLED"}
    BY <1>1, <2>1, ClosedAnswer DEF IInv, Wholesale, Openers
  <2> QED BY <2>2 DEF Completed
<1>2. IInv /\ [Next]_vars => [Closes]_vars
  BY <1>1, NextIsStep
<1> QED BY <1>2, Inductive, PTL DEF Spec, CancelLeavesNothingOpen
=============================================================================
