---------------------------- MODULE ShiftsProofs -----------------------------
(* Theorems of Shifts for every set of orders, shift ids and calls, every   *)
(* amount of money, every horizon of the clock and every skew of devices.   *)
EXTENDS Shifts, TLAPS

\* At most one shift is open.
OneOpen == \A s, t \in Open : s = t

\* A call that ends a shift, and one that has taken the time of its end.
ClosingSteps == {"clock", "both", "created", "cancelled", "write"}
TimedSteps   == {"both", "created", "cancelled", "write"}

\* A call has read no duplicates, and one that ends a shift knows when it started.
LookupInv ==
    \A c \in Calls :
      /\ seen[c].extras = {}
      /\ pc[c] \in ClosingSteps =>
           \E s \in ShiftIds : /\ seen[c].primary = {s} /\ shifts[s].is # "none"
                               /\ seen[c].start = shifts[s].start
      /\ pc[c] \in {"clock", "both"} => seen[c].sum = Nothing

\* Without a race, what is being closed is open, and being closed by one call.
RaceInv ==
    ~raced =>
      /\ \A c \in Calls, s \in ShiftIds :
           pc[c] \in ClosingSteps /\ seen[c].primary = {s} => shifts[s].is = "open"
      /\ \A c, d \in Calls :
           pc[c] \in ClosingSteps /\ pc[d] \in ClosingSteps /\ seen[c].primary = seen[d].primary => c = d

\* Ends lie in the past, and updated_at of a cancelled order not after its last change.
ClockInv ==
    /\ \A s \in Closed : shifts[s].end <= now
    /\ \A c \in Calls : pc[c] \in TimedSteps => seen[c].end <= now
    /\ \A o \in Orders : orders[o].sale = "cancelled" =>
         orders[o].updated <= orders[o].changed /\ orders[o].changed <= now
    /\ \A o \in Orders : Refunded(o) => orders[o].sale = "cancelled"

\* Shifts follow one another.
Follows(s, t) == s \in Closed /\ shifts[s].end <= shifts[t].start

WindowInv ==
    ~raced /\ ~overlap =>
      \A s, t \in Open \cup Closed : s # t => Follows(s, t) \/ Follows(t, s)

\* What a summary w (start, end and sum, of a shift or of a call) says of the orders.

\* Its sales are of its time ...
SalesFit(w) ==
    \A o \in w.sum.sold : orders[o].sale # "none" /\ Within(orders[o].created, w.start, w.end)

\* ... and all that were recorded before its end.
SalesAll(w) ==
    \A o \in Orders :
      /\ orders[o].sale # "none" /\ Within(orders[o].created, w.start, w.end)
      /\ orders[o].recorded < w.end
      => o \in w.sum.sold

\* Its refunds were sold in its time, or changed in it or later and sold before ...
ReturnsFit(w) ==
    \A o \in w.sum.returned :
      /\ orders[o].sale = "cancelled"
      /\ \/ Within(orders[o].created, w.start, w.end)
         \/ orders[o].created < w.start /\ w.start <= orders[o].changed /\ w.start < w.end

\* ... and all sales of its own that were cancelled before its end, and all earlier ones
\* cancelled, last changed in its time and reversed before its end.
OwnReturns(w) ==
    \A o \in Orders :
      /\ orders[o].sale = "cancelled" /\ Within(orders[o].created, w.start, w.end)
      /\ orders[o].cancelled < w.end
      => o \in w.sum.returned

EarlierReturns(w) ==
    \A o \in Orders :
      /\ orders[o].sale = "cancelled" /\ orders[o].created < w.start
      /\ Within(orders[o].updated, w.start, w.end) /\ orders[o].changed < w.end
      /\ Refunded(o) /\ orders[o].refunded < w.end
      => o \in w.sum.returned

Fits(w)  == SalesFit(w) /\ ReturnsFit(w)
Whole(w) == Fits(w) /\ SalesAll(w) /\ OwnReturns(w) /\ EarlierReturns(w)

\* What a call has read so far.
Counting(c) ==
    /\ pc[c] \in TimedSteps => Fits(seen[c])
    /\ pc[c] \in {"cancelled", "write"} => SalesAll(seen[c]) /\ OwnReturns(seen[c])
    /\ pc[c] \in {"created", "write"} => EarlierReturns(seen[c])

SummaryInv ==
    /\ \A s \in Closed : Whole(shifts[s])
    /\ \A c \in Calls : Counting(c)

\* The inductive invariant.
IInv == TypeOK /\ OneOpen /\ LookupInv /\ RaceInv /\ ClockInv /\ WindowInv /\ SummaryInv

-----------------------------------------------------------------------------
(* Types.                                                                   *)

\* The clock shows an instant.
LEMMA Instants == ASSUME TypeOK PROVE now \in Time /\ 0 \in Time /\ Time \subseteq Nat
BY ClockIsNatural DEF TypeOK, Time

\* The empty summary is a summary.
LEMMA NothingTypes == Nothing \in Summaries
BY DEF Nothing, Summaries

\* The locals of a call that has read nothing are typed.
LEMMA NoReadsTypes == ASSUME TypeOK PROVE NoReads \in Reads
BY Instants, NothingTypes DEF NoReads, Reads

\* What a step of an order does to it.
LEMMA SaleSteps ==
  ASSUME TypeOK, NEW o \in Orders, Sale(o)
  PROVE  /\ orders' \in [Orders -> OrderRows]
         /\ UNCHANGED <<now, shifts, pc, seen, raced, overlap>>
         /\ \A p \in Orders : p # o => orders'[p] = orders[p]
         /\ \/ /\ orders[o].sale = "none" /\ orders'[o].sale = "live"
               /\ orders'[o].paid = "COMPLETED" /\ orders'[o].recorded = now
            \/ /\ orders[o].sale # "none" /\ orders'[o].sale = orders[o].sale
               /\ orders'[o].paid = orders[o].paid /\ orders'[o].refunded = orders[o].refunded
               /\ orders'[o].created = orders[o].created
               /\ orders'[o].recorded = orders[o].recorded
               /\ orders'[o].cancelled = orders[o].cancelled
               /\ orders'[o].updated <= now /\ orders'[o].changed = now
            \/ /\ orders[o].sale = "live" /\ orders'[o].sale = "cancelled"
               /\ orders'[o].created = orders[o].created
               /\ orders'[o].recorded = orders[o].recorded
               /\ orders'[o].cancelled = now /\ orders'[o].refunded = now
               /\ orders'[o].updated <= now /\ orders'[o].changed = now
            \/ /\ orders[o].sale = "cancelled" /\ orders'[o].sale = "cancelled"
               /\ orders'[o].created = orders[o].created
               /\ orders'[o].recorded = orders[o].recorded
               /\ orders'[o].cancelled = orders[o].cancelled
               /\ orders'[o].updated = orders[o].updated
               /\ orders'[o].changed = orders[o].changed /\ orders'[o].refunded = now
<1>0. /\ orders \in [Orders -> OrderRows] /\ orders[o] \in OrderRows /\ now \in Time
      /\ now \in Nat /\ Skew \in Nat /\ 0 \in Time
      /\ \A t \in Stamps(o) : t \in Time /\ t <= now
  <2>1. /\ orders \in [Orders -> OrderRows] /\ orders[o] \in OrderRows /\ now \in Time
        /\ now \in Nat /\ Skew \in Nat /\ 0 \in Time
    BY Instants, ClockIsNatural DEF TypeOK
  <2>2. orders[o].recorded \in Time /\ now <= Horizon
    BY <2>1, ClockIsNatural DEF OrderRows, TypeOK
  <2> QED BY <2>1, <2>2, ClockIsNatural DEF Stamps, Time
<1>1. CASE Record(o)
  <2>1. PICK t \in 0 .. now + Skew :
          orders' = [orders EXCEPT ![o] = [NoOrder EXCEPT !.sale = "live", !.created = t,
                                                          !.updated = t, !.recorded = now,
                                                          !.changed = now]]
    BY <1>1 DEF Record
  <2> DEFINE row == [NoOrder EXCEPT !.sale = "live", !.created = t, !.updated = t,
                                    !.recorded = now, !.changed = now]
  <2>2. t \in Time
    BY <1>0, <2>1, ClockIsNatural DEF TypeOK, Time
  <2>3. /\ row \in OrderRows /\ row.sale = "live" /\ row.paid = "COMPLETED"
        /\ row.recorded = now
    BY <1>0, <2>2 DEF NoOrder, OrderRows
  <2>4. orders' = [orders EXCEPT ![o] = row]
    BY <2>1
  <2> HIDE DEF row
  <2> QED BY <1>0, <1>1, <2>3, <2>4 DEF Record
<1>2. CASE Touch(o)
  <2>0. PICK t \in Stamps(o) :
          orders' = [orders EXCEPT ![o].updated = t, ![o].changed = now]
    BY <1>2 DEF Touch
  <2> DEFINE row == [orders[o] EXCEPT !.updated = t, !.changed = now]
  <2>1. orders' = [orders EXCEPT ![o] = row]
    BY <1>0, <2>0
  <2>2. /\ row \in OrderRows /\ row.sale = orders[o].sale /\ row.paid = orders[o].paid
        /\ row.created = orders[o].created /\ row.recorded = orders[o].recorded
        /\ row.cancelled = orders[o].cancelled /\ row.refunded = orders[o].refunded
        /\ row.updated = t /\ row.changed = now
    BY <1>0 DEF OrderRows
  <2> HIDE DEF row
  <2> QED BY <1>0, <1>2, <2>1, <2>2 DEF Touch
<1>3. CASE Cancel(o)
  <2>1. PICK paid \in {"COMPLETED", "REFUNDED"}, t \in Stamps(o) :
          orders' = [orders EXCEPT ![o] = [@ EXCEPT !.sale = "cancelled", !.updated = t,
                                                   !.changed = now, !.cancelled = now,
                                                   !.paid = paid, !.refunded = now]]
    BY <1>3 DEF Cancel
  <2> DEFINE row == [orders[o] EXCEPT !.sale = "cancelled", !.updated = t, !.changed = now,
                                      !.cancelled = now, !.paid = paid, !.refunded = now]
  <2>2. orders' = [orders EXCEPT ![o] = row]
    BY <2>1
  <2>3. /\ row \in OrderRows /\ row.sale = "cancelled"
        /\ row.created = orders[o].created /\ row.recorded = orders[o].recorded
        /\ row.cancelled = now /\ row.refunded = now /\ row.updated = t /\ row.changed = now
    BY <1>0 DEF OrderRows
  <2> HIDE DEF row
  <2> QED BY <1>0, <1>3, <2>2, <2>3 DEF Cancel
<1>4. CASE Reverse(o)
  <2> DEFINE row == [orders[o] EXCEPT !.paid = "REFUNDED", !.refunded = now]
  <2>1. orders' = [orders EXCEPT ![o] = row]
    BY <1>4 DEF Reverse
  <2>2. /\ row \in OrderRows /\ row.sale = orders[o].sale /\ row.updated = orders[o].updated
        /\ row.created = orders[o].created /\ row.recorded = orders[o].recorded
        /\ row.cancelled = orders[o].cancelled /\ row.refunded = now
        /\ row.changed = orders[o].changed
    BY <1>0 DEF OrderRows
  <2> HIDE DEF row
  <2> QED BY <1>0, <1>4, <2>1, <2>2 DEF Reverse
<1> QED BY <1>1, <1>2, <1>3, <1>4 DEF Sale

\* The two reads of a summary.
LEMMA AddCreatedTypes ==
  ASSUME TypeOK, NEW sum \in Summaries, NEW sales \in SUBSET Orders
  PROVE  AddCreated(sum, sales) \in Summaries
<1>1. \A o \in Orders : Amount(o) \in Int
  BY ClockIsNatural DEF Amount
<1> QED BY <1>1 DEF AddCreated, Summaries

\* What the query for cancelled orders adds to a summary.
LEMMA AddCancelledIs ==
  ASSUME TypeOK, NEW sum \in Summaries, NEW sales \in SUBSET Orders
  PROVE  /\ AddCancelled(sum, sales) \in Summaries
         /\ AddCancelled(sum, sales).sold = sum.sold
         /\ AddCancelled(sum, sales).returned = sum.returned \cup {o \in sales : Refunded(o)}
<1>1. \A o \in Orders : Amount(o) \in Int
  BY ClockIsNatural DEF Amount
<1> DEFINE back  == {o \in sales : Refunded(o)}
           least == [o \in Orders |-> IF o \in back THEN sum.drawer[o] - Amount(o)
                                                    ELSE sum.drawer[o]]
<1>2. least \in [Orders -> Int] /\ back \in SUBSET Orders
  BY <1>1 DEF Summaries
<1>3. AddCancelled(sum, sales) = [sum EXCEPT !.returned = @ \cup back, !.drawer = least]
  BY DEF AddCancelled
<1> HIDE DEF back, least
<1>4. /\ AddCancelled(sum, sales) \in Summaries
      /\ AddCancelled(sum, sales).sold = sum.sold
      /\ AddCancelled(sum, sales).returned = sum.returned \cup back
  BY <1>2, <1>3 DEF Summaries
<1> QED BY <1>4 DEF back

-----------------------------------------------------------------------------
(* What a step of a call does.                                              *)

\* The others are left alone.
Alone(c) == \A d \in Calls : d # c => pc'[d] = pc[d] /\ seen'[d] = seen[d]

\* Nothing is ended, opened or closed.
Resting(c) ==
    /\ pc'[c] \in Steps \ ClosingSteps /\ seen'[c].extras = {}
    /\ UNCHANGED <<shifts, raced, overlap>>

\* Shift s is opened with time t.
Opening(c, s, t) ==
    /\ pc'[c] = "idle" /\ seen'[c] = NoReads
    /\ Insertable /\ shifts[s].is = "none"
    /\ shifts' = [shifts EXCEPT ![s] = [NoShift EXCEPT !.is = "open", !.start = t]]
    /\ overlap' = (overlap \/ \E q \in Closed : t < shifts[q].end) /\ raced' = raced

\* Shift s is looked up to be ended.
Looking(c, s) ==
    /\ pc[c] \in {"idle", "end"} /\ Endable(s)
    /\ pc'[c] = "clock"
    /\ seen'[c] = [NoReads EXCEPT !.primary = {s}, !.start = shifts[s].start]
    /\ raced' = (raced \/ Closing(s) # {})
    /\ UNCHANGED <<shifts, overlap>>

\* The summary and the step of a call that closes a shift, and no shift.
Computing(c, from, step, end, sum) ==
    /\ pc[c] = from /\ pc'[c] = step
    /\ seen'[c].primary = seen[c].primary /\ seen'[c].extras = seen[c].extras
    /\ seen'[c].start = seen[c].start /\ seen'[c].end = end /\ seen'[c].sum = sum
    /\ UNCHANGED <<shifts, raced, overlap>>

AddingCreated(c) == AddCreated(seen[c].sum, CreatedInShift(seen[c].start, seen[c].end))

AddingCancelled(c) == AddCancelled(seen[c].sum, CancelledInShift(seen[c].start, seen[c].end))

\* The report is written.
Writing(c) ==
    /\ pc[c] = "write" /\ pc'[c] = "idle" /\ seen'[c] = NoReads
    /\ shifts' = [s \in ShiftIds |->
                    IF s \in seen[c].primary
                    THEN [shifts[s] EXCEPT !.is = "closed", !.end = seen[c].end,
                                           !.sum = seen[c].sum]
                    ELSE shifts[s]]
    /\ UNCHANGED <<raced, overlap>>

Moves(c) ==
    \/ Resting(c)
    \/ \E s \in ShiftIds, t \in Time : Opening(c, s, t)
    \/ \E s \in ShiftIds : Looking(c, s)
    \/ Computing(c, "clock", "both", now, seen[c].sum)
    \/ Computing(c, "both", "cancelled", seen[c].end, AddingCreated(c))
    \/ Computing(c, "created", "write", seen[c].end, AddingCreated(c))
    \/ Computing(c, "both", "created", seen[c].end, AddingCancelled(c))
    \/ Computing(c, "cancelled", "write", seen[c].end, AddingCancelled(c))
    \/ Writing(c)

\* No duplicates, no wiping.
LEMMA NothingWiped == ASSUME TypeOK PROVE Wiped({}) = shifts
BY DEF Wiped, TypeOK

\* One open shift has no duplicates to close.
LEMMA OnlyOneKept == ASSUME OneOpen, NEW keep \in Earliest(Open) PROVE Open \ {keep} = {} /\ keep \in Open
BY DEF OneOpen, Earliest

\* A call's own row of pc and seen.
LEMMA Remembered ==
  ASSUME TypeOK, NEW c \in Calls, NEW step \in Steps, NEW reads \in Reads, Remember(c, reads, step)
  PROVE  /\ Alone(c) /\ pc'[c] = step /\ seen'[c] = reads
         /\ pc' \in [Calls -> Steps] /\ seen' \in [Calls -> Reads]
BY DEF TypeOK, Remember, Goto, Alone

\* A call ends.
LEMMA Left ==
  ASSUME TypeOK, NEW c \in Calls, Leave(c)
  PROVE  /\ Alone(c) /\ pc'[c] = "idle" /\ seen'[c] = NoReads
         /\ pc' \in [Calls -> Steps] /\ seen' \in [Calls -> Reads]
<1>1. "idle" \in Steps /\ NoReads \in Reads
  BY NoReadsTypes DEF Steps
<1>2. Remember(c, NoReads, "idle")
  BY DEF Leave, Remember
<1> QED BY <1>1, <1>2, Remembered

\* A call goes on with the same locals.
LEMMA Went ==
  ASSUME TypeOK, NEW c \in Calls, NEW step \in Steps, Goto(c, step), seen' = seen
  PROVE  /\ Alone(c) /\ pc'[c] = step /\ seen'[c] = seen[c]
         /\ pc' \in [Calls -> Steps] /\ seen' \in [Calls -> Reads]
BY DEF TypeOK, Goto, Alone

\* A call that ends otherwise leaves everything alone.
LEMMA LeftRests ==
  ASSUME TypeOK, NEW c \in Calls, Leave(c), UNCHANGED <<shifts, raced, overlap>>
  PROVE  Resting(c)
BY Left DEF Resting, NoReads, Steps, ClosingSteps

\* Every statement of a call moves this call alone, in one of the ways of Moves.
LEMMA HandleSteps ==
  ASSUME TypeOK, OneOpen, LookupInv, NEW c \in Calls, Handle(c)
  PROVE  /\ Alone(c) /\ Moves(c) /\ UNCHANGED <<now, orders>>
         /\ pc' \in [Calls -> Steps] /\ seen' \in [Calls -> Reads]
<1>0. /\ pc \in [Calls -> Steps] /\ seen \in [Calls -> Reads] /\ seen[c] \in Reads
      /\ NoReads \in Reads /\ now \in Time /\ pc[c] \in Steps
      /\ shifts \in [ShiftIds -> ShiftRows] /\ seen[c].extras = {}
  BY Instants, NoReadsTypes DEF TypeOK, LookupInv
<1>1. CASE EnsureRead(c)
  <2>1. CASE Open = {} /\ Goto(c, "create") /\ UNCHANGED shifts
    BY <1>0, <1>1, <2>1, Went DEF EnsureRead, Moves, Resting, Steps, ClosingSteps
  <2>2. ASSUME NEW keep \in Earliest(Open), shifts' = Wiped(Open \ {keep}), UNCHANGED pc
        PROVE  shifts' = shifts
    BY <2>2, OnlyOneKept, NothingWiped
  <2>3. CASE (\E keep \in Earliest(Open) : shifts' = Wiped(Open \ {keep})) /\ UNCHANGED pc
    BY <1>0, <1>1, <2>2, <2>3 DEF EnsureRead, Moves, Resting, Alone, Steps, ClosingSteps
  <2> QED BY <1>1, <2>1, <2>3 DEF EnsureRead
<1>2. CASE Create(c)
  <2>1. Leave(c) /\ pc[c] = "create" /\ UNCHANGED <<now, orders, raced>>
    BY <1>2 DEF Create
  <2>2. CASE ~Insertable /\ UNCHANGED <<shifts, overlap>>
    BY <2>1, <2>2, Left, LeftRests DEF Moves
  <2>3. ASSUME NEW s \in ShiftIds, NEW t \in Time, Insertable, shifts[s].is = "none",
               shifts' = [shifts EXCEPT ![s] = [NoShift EXCEPT !.is = "open", !.start = t]],
               overlap' = (overlap \/ \E q \in Closed : t < shifts[q].end)
        PROVE  Opening(c, s, t)
    BY <2>1, <2>3, Left DEF Opening
  <2>4. Moves(c)
    BY <1>2, <2>2, <2>3 DEF Create, Moves
  <2> QED BY <2>1, <2>4, Left
<1>3. CASE ReadActives(c)
  <2>1. PICK keep \in Earliest(Open), step \in {"report", "duplicates"} :
          Remember(c, [NoReads EXCEPT !.primary = {keep}, !.extras = Open \ {keep}], step)
    BY <1>3 DEF ReadActives
  <2> DEFINE reads == [NoReads EXCEPT !.primary = {keep}, !.extras = {}]
  <2>2. Open \ {keep} = {} /\ keep \in ShiftIds
    BY OnlyOneKept DEF Open
  <2>3. Remember(c, reads, step)
    BY <2>1, <2>2
  <2>4. reads \in Reads /\ reads.extras = {}
    BY <1>0, <2>2 DEF Reads
  <2>5. step \in Steps \ ClosingSteps
    BY DEF Steps, ClosingSteps
  <2> HIDE DEF reads
  <2> QED BY <1>3, <2>3, <2>4, <2>5, Remembered DEF ReadActives, Moves, Resting
<1>4. CASE CloseDuplicates(c)
  <2>1. shifts' = shifts
    BY <1>0, <1>4, NothingWiped DEF CloseDuplicates
  <2>2. CASE Leave(c)
    BY <1>4, <2>1, <2>2, Left, LeftRests DEF CloseDuplicates, Moves
  <2>3. CASE Goto(c, "end") /\ UNCHANGED seen
    BY <1>0, <1>4, <2>1, <2>3, Went DEF CloseDuplicates, Moves, Resting, Steps, ClosingSteps
  <2> QED BY <1>4, <2>2, <2>3 DEF CloseDuplicates
<1>5. CASE EndRead(c)
  <2>1. pc[c] \in {"idle", "end"} /\ UNCHANGED <<now, orders, shifts, overlap>>
    BY <1>5 DEF EndRead
  <2>2. CASE Leave(c) /\ UNCHANGED raced
    BY <2>1, <2>2, Left, LeftRests DEF Moves
  <2>3. ASSUME NEW s \in ShiftIds, Endable(s), raced' = (raced \/ Closing(s) # {}),
               Remember(c, [NoReads EXCEPT !.primary = {s}, !.start = shifts[s].start], "clock")
        PROVE  /\ Alone(c) /\ Looking(c, s)
               /\ pc' \in [Calls -> Steps] /\ seen' \in [Calls -> Reads]
    <3> DEFINE reads == [NoReads EXCEPT !.primary = {s}, !.start = shifts[s].start]
    <3>1. reads \in Reads
      BY <1>0 DEF Reads, ShiftRows
    <3>2. Remember(c, reads, "clock") /\ "clock" \in Steps
      BY <2>3 DEF Steps
    <3> HIDE DEF reads
    <3>3. /\ Alone(c) /\ pc'[c] = "clock" /\ seen'[c] = reads
          /\ pc' \in [Calls -> Steps] /\ seen' \in [Calls -> Reads]
      BY <3>1, <3>2, Remembered
    <3> QED BY <2>1, <2>3, <3>3 DEF Looking, reads
  <2> QED BY <1>5, <2>1, <2>2, <2>3 DEF EndRead, Moves
<1>6. CASE EndClock(c)
  <2> DEFINE reads == [seen[c] EXCEPT !.end = now]
  <2>1. /\ reads \in Reads /\ reads.primary = seen[c].primary /\ reads.extras = seen[c].extras
        /\ reads.start = seen[c].start /\ reads.end = now /\ reads.sum = seen[c].sum
    BY <1>0 DEF Reads
  <2>2. Remember(c, reads, "both") /\ "both" \in Steps
    BY <1>6 DEF EndClock, Steps
  <2> HIDE DEF reads
  <2> QED BY <1>6, <2>1, <2>2, Remembered DEF EndClock, Moves, Computing
<1>7. CASE ReadCreated(c)
  <2> DEFINE sum   == AddingCreated(c)
             step  == IF pc[c] = "both" THEN "cancelled" ELSE "write"
             reads == [seen[c] EXCEPT !.sum = sum]
  <2>1. sum \in Summaries
    BY <1>0, AddCreatedTypes DEF AddingCreated, CreatedInShift, Reads
  <2>2. Remember(c, reads, step) /\ step \in Steps
    BY <1>7 DEF ReadCreated, AddingCreated, Steps
  <2> HIDE DEF sum
  <2>3. /\ reads \in Reads /\ reads.primary = seen[c].primary /\ reads.extras = seen[c].extras
        /\ reads.start = seen[c].start /\ reads.end = seen[c].end /\ reads.sum = sum
    BY <1>0, <2>1 DEF Reads
  <2> HIDE DEF reads, step
  <2>4. /\ Alone(c) /\ pc'[c] = step /\ seen'[c] = reads
        /\ pc' \in [Calls -> Steps] /\ seen' \in [Calls -> Reads]
    BY <2>2, <2>3, Remembered
  <2>5. Computing(c, pc[c], step, seen[c].end, sum)
    BY <1>7, <2>3, <2>4 DEF ReadCreated, Computing
  <2> QED BY <1>7, <2>4, <2>5 DEF ReadCreated, Moves, sum, step
<1>8. CASE ReadCancelled(c)
  <2> DEFINE sum   == AddingCancelled(c)
             step  == IF pc[c] = "both" THEN "created" ELSE "write"
             reads == [seen[c] EXCEPT !.sum = sum]
  <2>1. sum \in Summaries
    BY <1>0, AddCancelledIs DEF AddingCancelled, CancelledInShift, Reads
  <2>2. Remember(c, reads, step) /\ step \in Steps
    BY <1>8 DEF ReadCancelled, AddingCancelled, Steps
  <2> HIDE DEF sum
  <2>3. /\ reads \in Reads /\ reads.primary = seen[c].primary /\ reads.extras = seen[c].extras
        /\ reads.start = seen[c].start /\ reads.end = seen[c].end /\ reads.sum = sum
    BY <1>0, <2>1 DEF Reads
  <2> HIDE DEF reads, step
  <2>4. /\ Alone(c) /\ pc'[c] = step /\ seen'[c] = reads
        /\ pc' \in [Calls -> Steps] /\ seen' \in [Calls -> Reads]
    BY <2>2, <2>3, Remembered
  <2>5. Computing(c, pc[c], step, seen[c].end, sum)
    BY <1>8, <2>3, <2>4 DEF ReadCancelled, Computing
  <2> QED BY <1>8, <2>4, <2>5 DEF ReadCancelled, Moves, sum, step
<1>9. CASE EndWrite(c)
  BY <1>9, Left DEF EndWrite, Moves, Writing
<1>10. CASE Fail(c)
  BY <1>10, Left, LeftRests DEF Fail, Moves
<1> QED BY <1>1, <1>2, <1>3, <1>4, <1>5, <1>6, <1>7, <1>8, <1>9, <1>10 DEF Handle

\* The rows of the shifts after the two steps that change one.
LEMMA Opened ==
  ASSUME TypeOK, NEW c \in Calls, NEW s \in ShiftIds, NEW t \in Time, Opening(c, s, t)
  PROVE  /\ shifts' \in [ShiftIds -> ShiftRows]
         /\ \A u \in ShiftIds : u # s => shifts'[u] = shifts[u] /\ shifts[u].is # "open"
         /\ shifts[s].is = "none" /\ shifts'[s].is = "open" /\ shifts'[s].start = t
<1> DEFINE row == [NoShift EXCEPT !.is = "open", !.start = t]
<1>1. row \in ShiftRows /\ row.is = "open" /\ row.start = t
  BY Instants, NothingTypes DEF NoShift, ShiftRows
<1>2. shifts' = [shifts EXCEPT ![s] = row] /\ Open = {} /\ shifts[s].is = "none"
  BY DEF Opening, Insertable
<1> HIDE DEF row
<1> QED BY <1>1, <1>2 DEF TypeOK, Open

\* The write closes the shift that was found, with what was counted.
LEMMA Written ==
  ASSUME TypeOK, LookupInv, NEW c \in Calls, Writing(c)
  PROVE  /\ shifts' \in [ShiftIds -> ShiftRows]
         /\ \E s \in ShiftIds :
              /\ seen[c].primary = {s} /\ shifts[s].is # "none"
              /\ \A u \in ShiftIds : u # s => shifts'[u] = shifts[u]
              /\ shifts'[s].is = "closed" /\ shifts'[s].start = shifts[s].start
              /\ shifts'[s].start = seen[c].start
              /\ shifts'[s].end = seen[c].end /\ shifts'[s].sum = seen[c].sum
<1>1. PICK s \in ShiftIds : /\ seen[c].primary = {s} /\ shifts[s].is # "none"
                            /\ seen[c].start = shifts[s].start
  BY DEF LookupInv, Writing, ClosingSteps
<1> DEFINE row(u) == [shifts[u] EXCEPT !.is = "closed", !.end = seen[c].end, !.sum = seen[c].sum]
<1>2. \A u \in ShiftIds : /\ row(u) \in ShiftRows /\ row(u).is = "closed"
                          /\ row(u).start = shifts[u].start
                          /\ row(u).end = seen[c].end /\ row(u).sum = seen[c].sum
  BY DEF TypeOK, Reads, ShiftRows
<1>3. shifts' = [u \in ShiftIds |-> IF u \in {s} THEN row(u) ELSE shifts[u]]
  BY <1>1 DEF Writing
<1> HIDE DEF row
<1>4. shifts' \in [ShiftIds -> ShiftRows]
  BY <1>2, <1>3 DEF TypeOK
<1>5. shifts'[s] = row(s) /\ \A u \in ShiftIds : u # s => shifts'[u] = shifts[u]
  BY <1>3
<1> QED BY <1>1, <1>2, <1>4, <1>5

\* A step leaves the rows of the shifts and the flags well typed.
LEMMA TypesKept ==
  ASSUME TypeOK, OneOpen, LookupInv, [Next]_vars
  PROVE  TypeOK'
<1>1. ASSUME NEW o \in Orders, Sale(o) PROVE TypeOK'
  BY <1>1, SaleSteps DEF TypeOK
<1>2. ASSUME NEW c \in Calls, Handle(c) PROVE TypeOK'
  <2>1. /\ Moves(c) /\ UNCHANGED <<now, orders>>
        /\ pc' \in [Calls -> Steps] /\ seen' \in [Calls -> Reads]
    BY <1>2, HandleSteps
  <2>2. /\ shifts' \in [ShiftIds -> ShiftRows] /\ raced' \in BOOLEAN /\ overlap' \in BOOLEAN
    <3>1. CASE UNCHANGED <<shifts, raced, overlap>>
      BY <3>1 DEF TypeOK
    <3>2. ASSUME NEW s \in ShiftIds, NEW t \in Time, Opening(c, s, t)
          PROVE  shifts' \in [ShiftIds -> ShiftRows] /\ raced' \in BOOLEAN /\ overlap' \in BOOLEAN
      BY <3>2, Opened, Zenon DEF TypeOK, Opening
    <3>3. ASSUME NEW s \in ShiftIds, Looking(c, s)
          PROVE  shifts' \in [ShiftIds -> ShiftRows] /\ raced' \in BOOLEAN /\ overlap' \in BOOLEAN
      BY <3>3, Zenon DEF TypeOK, Looking
    <3>4. CASE Writing(c)
      BY <3>4, Written DEF TypeOK, Writing
    <3> QED BY <2>1, <3>1, <3>2, <3>3, <3>4 DEF Moves, Resting, Computing
  <2> QED BY <2>1, <2>2 DEF TypeOK
<1>3. CASE Tick
  BY <1>3, ClockIsNatural DEF Tick, TypeOK
<1>4. CASE UNCHANGED vars
  BY <1>4 DEF vars, TypeOK
<1> QED BY <1>1, <1>2, <1>3, <1>4 DEF Next

\* OneOpen is kept: a shift is inserted only while none is open.
LEMMA OneOpenKept ==
  ASSUME TypeOK, OneOpen, LookupInv, [Next]_vars
  PROVE  OneOpen'
<1>1. CASE UNCHANGED shifts
  BY <1>1 DEF OneOpen, Open
<1>2. ASSUME NEW c \in Calls, Handle(c) PROVE OneOpen'
  <2>1. CASE \E s \in ShiftIds, t \in Time : Opening(c, s, t)
    BY <2>1, Opened DEF OneOpen, Open
  <2>2. CASE Writing(c)
    BY <2>2, Written DEF OneOpen, Open
  <2>3. Moves(c)
    BY <1>2, HandleSteps
  <2> QED BY <1>1, <2>1, <2>2, <2>3 DEF Moves, Resting, Looking, Computing
<1> QED BY <1>1, <1>2, SaleSteps DEF Next, Tick, vars

\* The rows that calls refer to stay, with their start.
LEMMA StartsKept ==
  ASSUME TypeOK, OneOpen, LookupInv, NEW c \in Calls, Moves(c)
  PROVE  \A s \in ShiftIds : shifts[s].is # "none" =>
           shifts'[s].is # "none" /\ shifts'[s].start = shifts[s].start
<1>1. CASE UNCHANGED shifts
  BY <1>1
<1>2. CASE \E s \in ShiftIds, t \in Time : Opening(c, s, t)
  BY <1>2, Opened
<1>3. CASE Writing(c)
  BY <1>3, Written
<1> QED BY <1>1, <1>2, <1>3 DEF Moves, Resting, Looking, Computing

\* LookupInv is kept.
LEMMA LookupKept ==
  ASSUME TypeOK, OneOpen, LookupInv, [Next]_vars
  PROVE  LookupInv'
<1>1. CASE UNCHANGED <<shifts, pc, seen>>
  BY <1>1 DEF LookupInv
<1>2. ASSUME NEW c \in Calls, Handle(c) PROVE LookupInv'
  <2>1. Alone(c) /\ Moves(c)
    BY <1>2, HandleSteps
  <2>2. \A s \in ShiftIds : shifts[s].is # "none" =>
          shifts'[s].is # "none" /\ shifts'[s].start = shifts[s].start
    BY <2>1, StartsKept
  <2>3. ASSUME NEW d \in Calls, d # c
        PROVE  /\ seen'[d].extras = {}
               /\ pc'[d] \in ClosingSteps =>
                    \E s \in ShiftIds : /\ seen'[d].primary = {s} /\ shifts'[s].is # "none"
                                        /\ seen'[d].start = shifts'[s].start
               /\ pc'[d] \in {"clock", "both"} => seen'[d].sum = Nothing
    BY <2>1, <2>2, <2>3 DEF Alone, LookupInv
  <2>4. /\ seen'[c].extras = {}
        /\ pc'[c] \in ClosingSteps =>
             \E s \in ShiftIds : /\ seen'[c].primary = {s} /\ shifts'[s].is # "none"
                                 /\ seen'[c].start = shifts'[s].start
        /\ pc'[c] \in {"clock", "both"} => seen'[c].sum = Nothing
    <3>1. CASE Resting(c) \/ Writing(c) \/ \E s \in ShiftIds, t \in Time : Opening(c, s, t)
      <4>1. CASE Resting(c)
        BY <4>1 DEF Resting, ClosingSteps
      <4>2. CASE pc'[c] = "idle" /\ seen'[c] = NoReads
        BY <4>2 DEF ClosingSteps, NoReads
      <4> QED BY <3>1, <4>1, <4>2 DEF Writing, Opening
    <3>2. ASSUME NEW s \in ShiftIds, Looking(c, s)
          PROVE  /\ seen'[c].extras = {} /\ seen'[c].primary = {s} /\ shifts'[s].is # "none"
                 /\ seen'[c].start = shifts'[s].start /\ seen'[c].sum = Nothing
      BY <3>2 DEF Looking, Endable, NoReads
    <3>3. ASSUME NEW from, NEW step, NEW end, NEW sum, Computing(c, from, step, end, sum),
                 from \in ClosingSteps, step # "clock", step = "both" => sum = seen[c].sum /\ from = "clock"
          PROVE  /\ seen'[c].extras = {}
                 /\ \E s \in ShiftIds : /\ seen'[c].primary = {s} /\ shifts'[s].is # "none"
                                        /\ seen'[c].start = shifts'[s].start
                 /\ pc'[c] \in {"clock", "both"} => seen'[c].sum = Nothing
      BY <2>2, <3>3 DEF Computing, LookupInv
    <3> QED BY <2>1, <3>1, <3>2, <3>3 DEF Moves, ClosingSteps
  <2> QED BY <2>3, <2>4 DEF LookupInv
<1> QED BY <1>1, <1>2, SaleSteps DEF Next, Tick, vars

\* Computing moves among the closing steps.
LEMMA Closes ==
  ASSUME NEW c \in Calls, NEW from, NEW step, NEW end, NEW sum,
         Computing(c, from, step, end, sum), from \in ClosingSteps, step \in ClosingSteps
  PROVE  /\ pc[c] \in ClosingSteps /\ pc'[c] \in ClosingSteps
         /\ seen'[c].primary = seen[c].primary /\ shifts' = shifts /\ raced' = raced
BY DEF Computing

\* RaceInv is kept.
LEMMA RaceKept ==
  ASSUME TypeOK, OneOpen, LookupInv, RaceInv, [Next]_vars
  PROVE  RaceInv'
<1>1. CASE UNCHANGED <<shifts, pc, seen, raced>>
  BY <1>1 DEF RaceInv
<1>2. ASSUME NEW c \in Calls, Handle(c), ~raced' PROVE RaceInv'
  <2>1. Alone(c) /\ Moves(c)
    BY <1>2, HandleSteps
  <2>2. ~raced
    BY <1>2, <2>1 DEF Moves, Resting, Opening, Looking, Computing, Writing
  <2>3. /\ \A d \in Calls, s \in ShiftIds :
             pc[d] \in ClosingSteps /\ seen[d].primary = {s} => shifts[s].is = "open"
        /\ \A d, e \in Calls :
             pc[d] \in ClosingSteps /\ pc[e] \in ClosingSteps /\ seen[d].primary = seen[e].primary
               => d = e
    BY <2>2 DEF RaceInv
  <2>4. CASE Resting(c)
    BY <2>1, <2>3, <2>4 DEF Resting, Alone, RaceInv
  <2>5. ASSUME NEW s \in ShiftIds, NEW t \in Time, Opening(c, s, t) PROVE RaceInv'
    <3>1. pc'[c] \notin ClosingSteps
      BY <2>5 DEF Opening, ClosingSteps
    <3>2. \A u \in ShiftIds : shifts[u].is = "open" => shifts'[u].is = "open"
      BY <2>5, Opened
    <3> QED BY <2>1, <2>3, <3>1, <3>2 DEF Alone, RaceInv
  <2>6. ASSUME NEW s \in ShiftIds, Looking(c, s) PROVE RaceInv'
    <3>1. /\ pc'[c] = "clock" /\ seen'[c].primary = {s} /\ shifts[s].is = "open"
          /\ shifts' = shifts /\ Closing(s) = {}
      BY <1>2, <2>6 DEF Looking, Endable, NoReads
    <3>2. \A d \in Calls : pc[d] \in ClosingSteps => seen[d].primary # {s}
      BY <3>1 DEF Closing, ClosingSteps
    <3>3. \A d \in Calls, u \in ShiftIds :
            pc'[d] \in ClosingSteps /\ seen'[d].primary = {u} => shifts'[u].is = "open"
      BY <2>1, <2>3, <3>1 DEF Alone
    <3> QED BY <2>1, <2>3, <3>1, <3>2, <3>3 DEF Alone, RaceInv
  <2>7. CASE /\ pc[c] \in ClosingSteps /\ pc'[c] \in ClosingSteps
             /\ seen'[c].primary = seen[c].primary /\ shifts' = shifts
    BY <2>1, <2>3, <2>7 DEF Alone, RaceInv
  <2>8. CASE Writing(c)
    <3>1. PICK s \in ShiftIds : /\ seen[c].primary = {s}
                                /\ \A u \in ShiftIds : u # s => shifts'[u] = shifts[u]
      BY <2>8, Written
    <3>2. pc[c] \in ClosingSteps /\ pc'[c] \notin ClosingSteps
      BY <2>8 DEF Writing, ClosingSteps
    <3>3. \A d \in Calls : d # c /\ pc[d] \in ClosingSteps => seen[d].primary # {s}
      BY <2>3, <3>1, <3>2
    <3> QED BY <2>1, <2>3, <3>1, <3>2, <3>3 DEF Alone, RaceInv
  <2>9. \/ Resting(c) \/ Writing(c)
        \/ \E s \in ShiftIds, t \in Time : Opening(c, s, t)
        \/ \E s \in ShiftIds : Looking(c, s)
        \/ /\ pc[c] \in ClosingSteps /\ pc'[c] \in ClosingSteps
           /\ seen'[c].primary = seen[c].primary /\ shifts' = shifts
    BY <2>1, Closes DEF Moves, ClosingSteps
  <2> QED BY <2>4, <2>5, <2>6, <2>7, <2>8, <2>9
<1>3. raced' => RaceInv'
  BY DEF RaceInv
<1> QED BY <1>1, <1>2, <1>3, SaleSteps DEF Next, Tick, vars

\* Without a race, the shift that is written is the open one.
LEMMA WritesOpen ==
  ASSUME TypeOK, LookupInv, RaceInv, ~raced, NEW c \in Calls, Writing(c), NEW s \in ShiftIds,
         seen[c].primary = {s}
  PROVE  shifts[s].is = "open"
BY DEF RaceInv, Writing, ClosingSteps

\* ClockInv is kept: the clock only runs forward.
LEMMA ClockKept ==
  ASSUME TypeOK, OneOpen, LookupInv, ClockInv, [Next]_vars
  PROVE  ClockInv'
<1>0. /\ now \in Nat /\ \A s \in ShiftIds : shifts[s].end \in Nat
      /\ \A c \in Calls : seen[c].end \in Nat
      /\ \A o \in Orders : orders[o].updated \in Nat /\ orders[o].changed \in Nat
  BY Instants DEF TypeOK, ShiftRows, Reads, OrderRows
<1>1. ASSUME NEW o \in Orders, Sale(o) PROVE ClockInv'
  <2>1. /\ UNCHANGED <<now, shifts, pc, seen>> /\ orders'[o] \in OrderRows
        /\ \A p \in Orders : p # o => orders'[p] = orders[p]
    BY <1>1, SaleSteps
  <2>2. /\ orders'[o].sale = "cancelled" =>
             orders'[o].updated <= orders'[o].changed /\ orders'[o].changed <= now
        /\ orders'[o].paid = "REFUNDED" => orders'[o].sale = "cancelled"
    BY <1>0, <1>1, SaleSteps DEF ClockInv, Refunded
  <2> QED BY <2>1, <2>2 DEF ClockInv, Closed, Refunded
<1>2. ASSUME NEW c \in Calls, Handle(c) PROVE ClockInv'
  <2>1. Alone(c) /\ Moves(c) /\ UNCHANGED <<now, orders>>
    BY <1>2, HandleSteps
  <2>2. pc'[c] \in TimedSteps => seen'[c].end <= now
    <3>1. CASE Resting(c) \/ pc'[c] \in {"idle", "clock"}
      BY <3>1 DEF Resting, ClosingSteps, TimedSteps
    <3>2. ASSUME NEW from \in TimedSteps, NEW step, NEW sum,
                 Computing(c, from, step, seen[c].end, sum)
          PROVE  seen'[c].end <= now
      BY <3>2 DEF Computing, ClockInv
    <3>3. CASE Computing(c, "clock", "both", now, seen[c].sum)
      BY <1>0, <3>3 DEF Computing
    <3> QED BY <2>1, <3>1, <3>2, <3>3 DEF Moves, Opening, Looking, Writing, TimedSteps
  <2>3. \A s \in Closed' : shifts'[s].end <= now
    <3>1. CASE UNCHANGED shifts
      BY <3>1 DEF ClockInv, Closed
    <3>2. CASE \E s \in ShiftIds, t \in Time : Opening(c, s, t)
      BY <3>2, Opened DEF ClockInv, Closed
    <3>3. CASE Writing(c)
      <4>1. seen[c].end <= now
        BY <3>3 DEF Writing, ClockInv, TimedSteps
      <4> QED BY <3>3, <4>1, Written DEF ClockInv, Closed
    <3> QED BY <2>1, <3>1, <3>2, <3>3 DEF Moves, Resting, Looking, Computing
  <2> QED BY <2>1, <2>2, <2>3 DEF ClockInv, Alone, Refunded
<1>3. CASE Tick
  BY <1>0, <1>3 DEF Tick, ClockInv, Closed, Refunded
<1>4. CASE UNCHANGED vars
  BY <1>4 DEF vars, ClockInv, Closed, Refunded
<1> QED BY <1>1, <1>2, <1>3, <1>4 DEF Next

\* WindowInv is kept: a shift starts after the last one ended.
LEMMA WindowKept ==
  ASSUME TypeOK, OneOpen, LookupInv, RaceInv, ClockInv, WindowInv, [Next]_vars
  PROVE  WindowInv'
<1>1. CASE UNCHANGED <<shifts, raced, overlap>>
  BY <1>1 DEF WindowInv, Open, Closed, Follows
<1>2. ASSUME NEW c \in Calls, Handle(c), ~raced', ~overlap' PROVE WindowInv'
  <2>1. Moves(c)
    BY <1>2, HandleSteps
  <2>2. ~raced /\ ~overlap
    <3>1. CASE UNCHANGED <<raced, overlap>>
      BY <1>2, <3>1
    <3>2. ASSUME NEW s \in ShiftIds, NEW t \in Time, Opening(c, s, t) PROVE ~raced /\ ~overlap
      BY <1>2, <3>2, Zenon DEF Opening
    <3>3. ASSUME NEW s \in ShiftIds, Looking(c, s) PROVE ~raced /\ ~overlap
      BY <1>2, <3>3, Zenon DEF Looking
    <3> QED BY <2>1, <3>1, <3>2, <3>3 DEF Moves, Resting, Computing, Writing
  <2>3. \A s, t \in Open \cup Closed : s # t => Follows(s, t) \/ Follows(t, s)
    BY <2>2 DEF WindowInv
  <2>4. ASSUME NEW s \in ShiftIds, NEW t \in Time, Opening(c, s, t) PROVE WindowInv'
    <3>1. \A u \in Closed : shifts[u].end <= t
      <4>1. ~(\E u \in Closed : t < shifts[u].end)
        BY Zenon, <1>2, <2>4 DEF Opening
      <4>2. t \in Nat /\ \A u \in Closed : shifts[u].end \in Nat
        BY Instants DEF TypeOK, ShiftRows, Closed
      <4> QED BY <4>1, <4>2
    <3>2. /\ \A u \in ShiftIds : u # s => shifts'[u] = shifts[u] /\ shifts[u].is # "open"
          /\ shifts[s].is = "none" /\ shifts'[s].is = "open" /\ shifts'[s].start = t
      BY <2>4, Opened
    <3>3. \A u \in (Open \cup Closed)' : u # s => Follows(u, s)'
      BY <3>1, <3>2 DEF Open, Closed, Follows
    <3>4. \A u, v \in (Open \cup Closed)' : u # s /\ v # s /\ u # v => Follows(u, v)' \/ Follows(v, u)'
      BY <2>3, <3>2 DEF Open, Closed, Follows
    <3> QED BY <3>3, <3>4 DEF WindowInv
  <2>5. CASE Writing(c)
    <3>1. PICK s \in ShiftIds : /\ seen[c].primary = {s}
                                /\ \A u \in ShiftIds : u # s => shifts'[u] = shifts[u]
                                /\ shifts'[s].is = "closed" /\ shifts'[s].start = shifts[s].start
      BY <2>5, Written
    <3>2. shifts[s].is = "open"
      BY <2>2, <2>5, <3>1, WritesOpen
    <3>3. \A u \in (Open \cup Closed)' : u # s => Follows(u, s)'
      BY <2>3, <3>1, <3>2 DEF Open, Closed, Follows, OneOpen
    <3>4. \A u, v \in (Open \cup Closed)' : u # s /\ v # s /\ u # v => Follows(u, v)' \/ Follows(v, u)'
      BY <2>3, <3>1 DEF Open, Closed, Follows
    <3> QED BY <3>3, <3>4 DEF WindowInv
  <2>6. CASE UNCHANGED shifts
    BY <2>3, <2>6 DEF WindowInv, Open, Closed, Follows
  <2> QED BY <2>1, <2>4, <2>5, <2>6 DEF Moves, Resting, Looking, Computing
<1>3. raced' \/ overlap' => WindowInv'
  BY DEF WindowInv
<1> QED BY <1>1, <1>2, <1>3, SaleSteps DEF Next, Tick, vars

-----------------------------------------------------------------------------
(* What summaries say of the orders.                                        *)

\* The values a summary is compared by.
Dated(w) ==
    /\ w.start \in Nat /\ w.end \in Nat
    /\ w.sum.sold \in SUBSET Orders /\ w.sum.returned \in SUBSET Orders

\* The windows of shifts and of calls are made of instants.
LEMMA AllDated ==
  ASSUME TypeOK
  PROVE  (\A s \in ShiftIds : Dated(shifts[s])) /\ (\A c \in Calls : Dated(seen[c]))
BY Instants DEF TypeOK, ShiftRows, Reads, Summaries, Dated

\* An order that changes after the end of a summary does not falsify it.
LEMMA ThroughSales ==
  ASSUME TypeOK, ClockInv, NEW o \in Orders, Sale(o), NEW w, Dated(w), w.end <= now
  PROVE  /\ SalesFit(w) => SalesFit(w)'
         /\ ReturnsFit(w) => ReturnsFit(w)'
         /\ SalesAll(w) => SalesAll(w)'
         /\ OwnReturns(w) => OwnReturns(w)'
         /\ EarlierReturns(w) => EarlierReturns(w)'
<1>0. /\ now \in Nat /\ w.start \in Nat /\ w.end \in Nat /\ w.sum.returned \in SUBSET Orders
      /\ orders[o] \in OrderRows /\ orders'[o] \in OrderRows
      /\ w.sum.sold \in SUBSET Orders
      /\ \A p \in Orders : p # o => orders'[p] = orders[p]
  BY Instants, SaleSteps DEF TypeOK, Dated
<1>1. /\ orders[o].created \in Nat /\ orders[o].changed \in Nat /\ orders[o].cancelled \in Nat
      /\ orders'[o].created \in Nat /\ orders'[o].changed \in Nat /\ orders'[o].cancelled \in Nat
      /\ orders'[o].updated \in Nat
      /\ orders'[o].refunded \in Nat /\ orders'[o].recorded \in Nat
  BY <1>0, Instants DEF OrderRows
<1>2. ASSUME SalesFit(w) PROVE SalesFit(w)'
  <2>1. o \in w.sum.sold => /\ orders'[o].sale # "none"
                            /\ Within(orders'[o].created, w.start, w.end)
    BY <1>2, SaleSteps DEF SalesFit
  <2> QED BY <1>0, <1>2, <2>1 DEF SalesFit, Within
<1>3. ASSUME ReturnsFit(w) PROVE ReturnsFit(w)'
  <2>1. o \in w.sum.returned =>
          /\ orders'[o].sale = "cancelled"
          /\ \/ Within(orders'[o].created, w.start, w.end)
             \/ orders'[o].created < w.start /\ w.start <= orders'[o].changed /\ w.start < w.end
    <3>1. SUFFICES ASSUME o \in w.sum.returned
                   PROVE  /\ orders'[o].sale = "cancelled"
                          /\ orders'[o].created = orders[o].created
                          /\ orders'[o].changed = orders[o].changed \/ orders'[o].changed = now
      BY <1>0, <1>1, <1>3 DEF ReturnsFit
    <3>2. orders[o].sale = "cancelled"
      BY <1>3, <3>1 DEF ReturnsFit
    <3> QED BY <3>2, SaleSteps
  <2> QED BY <1>0, <1>3, <2>1 DEF ReturnsFit, Within
<1>4. ASSUME SalesAll(w) PROVE SalesAll(w)'
  <2>1. /\ orders'[o].sale # "none" /\ Within(orders'[o].created, w.start, w.end)
        /\ orders'[o].recorded < w.end
        => o \in w.sum.sold
    BY <1>0, <1>1, <1>4, SaleSteps DEF SalesAll
  <2> QED BY <1>0, <1>4, <2>1 DEF SalesAll, Within
<1>5. ASSUME OwnReturns(w) PROVE OwnReturns(w)'
  <2>1. /\ orders'[o].sale = "cancelled" /\ Within(orders'[o].created, w.start, w.end)
        /\ orders'[o].cancelled < w.end
        => o \in w.sum.returned
    BY <1>0, <1>1, <1>5, SaleSteps DEF OwnReturns
  <2> QED BY <1>0, <1>5, <2>1 DEF OwnReturns, Within
<1>6. ASSUME EarlierReturns(w) PROVE EarlierReturns(w)'
  <2>1. /\ orders'[o].sale = "cancelled" /\ orders'[o].created < w.start
        /\ Within(orders'[o].updated, w.start, w.end) /\ orders'[o].changed < w.end
        /\ Refunded(o)' /\ orders'[o].refunded < w.end
        => o \in w.sum.returned
    BY <1>0, <1>1, <1>6, SaleSteps DEF EarlierReturns, Within, Refunded
  <2> QED BY <1>0, <1>6, <2>1 DEF EarlierReturns, Within, Refunded
<1> QED BY <1>2, <1>3, <1>4, <1>5, <1>6

\* What is true of a summary is true of a copy of it.
LEMMA Copied ==
  ASSUME UNCHANGED orders, NEW v, NEW w, v.start = w.start, v.end = w.end, v.sum = w.sum
  PROVE  /\ SalesFit(w) => SalesFit(v)'
         /\ ReturnsFit(w) => ReturnsFit(v)'
         /\ SalesAll(w) => SalesAll(v)'
         /\ OwnReturns(w) => OwnReturns(v)'
         /\ EarlierReturns(w) => EarlierReturns(v)'
BY DEF SalesFit, ReturnsFit, SalesAll, OwnReturns, EarlierReturns, Refunded

\* What the two reads add.
LEMMA CreatedCounted ==
  ASSUME TypeOK, ClockInv, NEW v, NEW w, Dated(w), v.start = w.start, v.end = w.end,
         v.sum = AddCreated(w.sum, CreatedInShift(w.start, w.end)),
         SalesFit(w), ReturnsFit(w)
  PROVE  /\ SalesFit(v) /\ ReturnsFit(v) /\ SalesAll(v) /\ OwnReturns(v)
         /\ EarlierReturns(w) => EarlierReturns(v)
<1> DEFINE sales == CreatedInShift(w.start, w.end)
           back  == {o \in sales : FinanciallyReversed(o)}
<1>1. v.sum.sold = w.sum.sold \cup sales /\ v.sum.returned = w.sum.returned \cup back
  BY DEF AddCreated
<1>2. \A o \in Orders : o \in back <=>
        orders[o].sale = "cancelled" /\ Within(orders[o].created, w.start, w.end)
  BY DEF CreatedInShift, FinanciallyReversed, ClockInv
<1>3. \A o \in sales : /\ o \in Orders /\ orders[o].sale # "none"
                       /\ Within(orders[o].created, w.start, w.end)
  BY DEF CreatedInShift
<1>4. \A o \in Orders : orders[o].sale # "none" /\ Within(orders[o].created, w.start, w.end)
        => o \in sales
  BY DEF CreatedInShift
<1>5. back \subseteq Orders
  BY <1>3
<1> HIDE DEF sales, back
<1>6. SalesFit(v) /\ SalesAll(v)
  BY <1>1, <1>3, <1>4 DEF SalesFit, SalesAll
<1>7. ReturnsFit(v) /\ OwnReturns(v)
  BY <1>1, <1>2, <1>5 DEF ReturnsFit, OwnReturns
<1>8. EarlierReturns(w) => EarlierReturns(v)
  BY <1>1 DEF EarlierReturns
<1> QED BY <1>6, <1>7, <1>8

\* What counting the cancelled orders makes of a summary.
LEMMA CancelledCounted ==
  ASSUME TypeOK, ClockInv, NEW v, NEW w, Dated(w), v.start = w.start, v.end = w.end,
         w.sum \in Summaries,
         v.sum = AddCancelled(w.sum, CancelledInShift(w.start, w.end)),
         SalesFit(w), ReturnsFit(w)
  PROVE  /\ SalesFit(v) /\ ReturnsFit(v) /\ EarlierReturns(v)
         /\ SalesAll(w) => SalesAll(v)
         /\ OwnReturns(w) => OwnReturns(v)
<1> DEFINE sales == CancelledInShift(w.start, w.end)
           back  == {o \in sales : Refunded(o)}
<1>1. v.sum.sold = w.sum.sold /\ v.sum.returned = w.sum.returned \cup back
  <2>1. sales \in SUBSET Orders
    BY DEF CancelledInShift
  <2> QED BY <2>1, AddCancelledIs
<1>2. \A o \in back :
        /\ o \in Orders /\ orders[o].sale = "cancelled" /\ orders[o].created < w.start
        /\ w.start <= orders[o].updated /\ orders[o].updated < w.end
  BY DEF CancelledInShift, Within
<1>3. \A o \in Orders :
        /\ orders[o].sale = "cancelled" /\ orders[o].created < w.start
        /\ Within(orders[o].updated, w.start, w.end) /\ Refunded(o)
        => o \in back
  BY DEF CancelledInShift
<1>4. \A o \in back : w.start < w.end
  BY <1>2, Instants DEF Dated, TypeOK, OrderRows
<1>5. \A o \in back : w.start <= orders[o].changed
  <2>1. ASSUME NEW o \in back
        PROVE  /\ orders[o].updated \in Nat /\ orders[o].changed \in Nat /\ w.start \in Nat
               /\ orders[o].updated <= orders[o].changed /\ w.start <= orders[o].updated
    BY <1>2, Instants DEF Dated, TypeOK, OrderRows, ClockInv
  <2> QED BY <2>1
<1> HIDE DEF sales, back
<1>6. SalesFit(v) /\ (SalesAll(w) => SalesAll(v))
  BY <1>1 DEF SalesFit, SalesAll
<1>7. ReturnsFit(v)
  BY <1>1, <1>2, <1>4, <1>5 DEF ReturnsFit
<1>8. OwnReturns(w) => OwnReturns(v)
  BY <1>1 DEF OwnReturns
<1>9. EarlierReturns(v)
  <2>1. ASSUME NEW o \in Orders, orders[o].sale = "cancelled",
               Within(orders[o].updated, w.start, w.end), orders[o].created < w.start, Refunded(o)
        PROVE  o \in back
    BY <1>3, <2>1
  <2> QED BY <1>1, <2>1 DEF EarlierReturns
<1> QED BY <1>6, <1>7, <1>8, <1>9

\* Orders change: the summaries that are closed or under way stay right.
LEMMA SalesCounted ==
  ASSUME TypeOK, ClockInv, SummaryInv, NEW o \in Orders, Sale(o)
  PROVE  SummaryInv'
<1>0. UNCHANGED <<now, shifts, pc, seen>>
  BY SaleSteps
<1>1. ASSUME NEW s \in Closed PROVE Whole(shifts[s])'
  <2>1. PICK w : w = shifts[s]
    OBVIOUS
  <2>2. Dated(w) /\ w.end <= now /\ Whole(w)
    BY <2>1, AllDated DEF Closed, ClockInv, SummaryInv
  <2>3. Whole(w)'
    BY <2>2, ThroughSales DEF Whole, Fits
  <2>4. shifts'[s] = w
    BY <1>0, <2>1
  <2> QED BY <2>3, <2>4
<1>2. ASSUME NEW c \in Calls PROVE Counting(c)'
  <2>1. PICK w : w = seen[c]
    OBVIOUS
  <2>2. seen'[c] = w /\ pc'[c] = pc[c]
    BY <1>0, <2>1
  <2>3. CASE pc[c] \in TimedSteps
    <3>1. Dated(w) /\ w.end <= now
      BY <2>1, <2>3, AllDated DEF ClockInv
    <3>2. /\ Fits(w)
          /\ pc[c] \in {"cancelled", "write"} => SalesAll(w) /\ OwnReturns(w)
          /\ pc[c] \in {"created", "write"} => EarlierReturns(w)
      BY <2>1, <2>3 DEF SummaryInv, Counting
    <3>3. /\ Fits(w)'
          /\ pc[c] \in {"cancelled", "write"} => SalesAll(w)' /\ OwnReturns(w)'
          /\ pc[c] \in {"created", "write"} => EarlierReturns(w)'
      BY <3>1, <3>2, ThroughSales DEF Fits
    <3> QED BY <2>2, <3>3 DEF Counting
  <2>4. CASE pc[c] \notin TimedSteps
    BY <2>2, <2>4 DEF Counting, TimedSteps
  <2> QED BY <2>3, <2>4
<1>3. Closed' = Closed
  BY <1>0 DEF Closed
<1> QED BY <1>1, <1>2, <1>3 DEF SummaryInv

\* What is known of a row that nothing touches.
LEMMA RowCopied ==
  ASSUME UNCHANGED orders, SummaryInv, NEW s \in Closed, shifts'[s] = shifts[s]
  PROVE  Whole(shifts[s])'
<1>1. PICK w : w = shifts[s]
  OBVIOUS
<1>2. Whole(w) /\ shifts'[s] = w
  BY <1>1 DEF SummaryInv
<1>3. Whole(w)'
  BY <1>2, Copied DEF Whole, Fits
<1> QED BY <1>2, <1>3

\* A call that does not move still counts right while no order changes.
LEMMA CallCopied ==
  ASSUME UNCHANGED orders, SummaryInv, NEW c \in Calls, seen'[c] = seen[c], pc'[c] = pc[c]
  PROVE  Counting(c)'
<1>1. PICK w : w = seen[c]
  OBVIOUS
<1>2. seen'[c] = w
  BY <1>1
<1>3. /\ pc[c] \in TimedSteps => Fits(w)
      /\ pc[c] \in {"cancelled", "write"} => SalesAll(w) /\ OwnReturns(w)
      /\ pc[c] \in {"created", "write"} => EarlierReturns(w)
  BY <1>1 DEF SummaryInv, Counting
<1>4. /\ pc[c] \in TimedSteps => Fits(w)'
      /\ pc[c] \in {"cancelled", "write"} => SalesAll(w)' /\ OwnReturns(w)'
      /\ pc[c] \in {"created", "write"} => EarlierReturns(w)'
  BY <1>3, Copied DEF Fits
<1> QED BY <1>2, <1>4 DEF Counting

\* The call that moves.
LEMMA OwnCounting ==
  ASSUME TypeOK, LookupInv, ClockInv, SummaryInv, NEW c \in Calls, Moves(c), UNCHANGED orders
  PROVE  Counting(c)'
<1>1. PICK w, v : w = seen[c] /\ v = seen'[c]
  OBVIOUS
<1>2. Dated(w) /\ w.sum \in Summaries
  BY <1>1, AllDated DEF TypeOK, Reads
<1>3. pc[c] \in TimedSteps => SalesFit(w) /\ ReturnsFit(w)
  BY <1>1 DEF SummaryInv, Counting, Fits
<1>4. /\ pc[c] \in {"cancelled", "write"} => SalesAll(w) /\ OwnReturns(w)
      /\ pc[c] \in {"created", "write"} => EarlierReturns(w)
  BY <1>1 DEF SummaryInv, Counting
<1>5. CASE pc'[c] \notin TimedSteps
  BY <1>5 DEF Counting, TimedSteps
<1>6. CASE Computing(c, "clock", "both", now, seen[c].sum)
  <2>1. seen'[c].sum = Nothing /\ pc'[c] = "both"
    BY <1>6 DEF Computing, LookupInv
  <2> QED BY <2>1 DEF Counting, Fits, SalesFit, ReturnsFit, Nothing
<1>7. CASE \/ Computing(c, "both", "cancelled", seen[c].end, AddingCreated(c))
           \/ Computing(c, "created", "write", seen[c].end, AddingCreated(c))
  <2>1. /\ v.start = w.start /\ v.end = w.end
        /\ v.sum = AddCreated(w.sum, CreatedInShift(w.start, w.end))
        /\ \/ pc[c] = "both" /\ pc'[c] = "cancelled"
           \/ pc[c] = "created" /\ pc'[c] = "write"
    BY <1>1, <1>7 DEF Computing, AddingCreated
  <2>2. /\ SalesFit(v) /\ ReturnsFit(v) /\ SalesAll(v) /\ OwnReturns(v)
        /\ EarlierReturns(w) => EarlierReturns(v)
    BY <1>2, <1>3, <2>1, CreatedCounted DEF TimedSteps
  <2>3. pc'[c] = "write" => EarlierReturns(v)
    BY <1>4, <2>1, <2>2
  <2>4. /\ Fits(v)' /\ SalesAll(v)' /\ OwnReturns(v)'
        /\ pc'[c] = "write" => EarlierReturns(v)'
    BY <2>2, <2>3, Copied DEF Fits
  <2> QED BY <1>1, <2>1, <2>4 DEF Counting
<1>8. CASE \/ Computing(c, "both", "created", seen[c].end, AddingCancelled(c))
           \/ Computing(c, "cancelled", "write", seen[c].end, AddingCancelled(c))
  <2>1. /\ v.start = w.start /\ v.end = w.end
        /\ v.sum = AddCancelled(w.sum, CancelledInShift(w.start, w.end))
        /\ \/ pc[c] = "both" /\ pc'[c] = "created"
           \/ pc[c] = "cancelled" /\ pc'[c] = "write"
    BY <1>1, <1>8 DEF Computing, AddingCancelled
  <2>2. /\ SalesFit(v) /\ ReturnsFit(v) /\ EarlierReturns(v)
        /\ SalesAll(w) => SalesAll(v)
        /\ OwnReturns(w) => OwnReturns(v)
    BY <1>2, <1>3, <2>1, CancelledCounted DEF TimedSteps
  <2>3. pc'[c] = "write" => SalesAll(v) /\ OwnReturns(v)
    BY <1>4, <2>1, <2>2
  <2>4. /\ Fits(v)' /\ EarlierReturns(v)'
        /\ pc'[c] = "write" => SalesAll(v)' /\ OwnReturns(v)'
    BY <2>2, <2>3, Copied DEF Fits
  <2> QED BY <1>1, <2>1, <2>4 DEF Counting
<1>9. \/ pc'[c] \notin TimedSteps
      \/ Computing(c, "clock", "both", now, seen[c].sum)
      \/ Computing(c, "both", "cancelled", seen[c].end, AddingCreated(c))
      \/ Computing(c, "created", "write", seen[c].end, AddingCreated(c))
      \/ Computing(c, "both", "created", seen[c].end, AddingCancelled(c))
      \/ Computing(c, "cancelled", "write", seen[c].end, AddingCancelled(c))
  <2>1. CASE Resting(c)
    BY <2>1 DEF Resting, ClosingSteps, TimedSteps
  <2>2. CASE pc'[c] \in {"idle", "clock"}
    BY <2>2 DEF TimedSteps
  <2> QED BY <2>1, <2>2 DEF Moves, Opening, Looking, Writing
<1> QED BY <1>5, <1>6, <1>7, <1>8, <1>9

\* SummaryInv is kept.
LEMMA SummaryKept ==
  ASSUME TypeOK, OneOpen, LookupInv, ClockInv, SummaryInv, [Next]_vars
  PROVE  SummaryInv'
<1>1. ASSUME NEW c \in Calls, Handle(c) PROVE SummaryInv'
  <2>1. Alone(c) /\ Moves(c) /\ UNCHANGED <<now, orders>>
    BY <1>1, HandleSteps
  <2>2. \A d \in Calls : Counting(d)'
    BY <2>1, CallCopied, OwnCounting DEF Alone
  <2>3. CASE \A s \in Closed' : s \in Closed /\ shifts'[s] = shifts[s]
    BY <2>1, <2>2, <2>3, RowCopied DEF SummaryInv
  <2>4. CASE Writing(c)
    <3>1. PICK s \in ShiftIds : /\ \A u \in ShiftIds : u # s => shifts'[u] = shifts[u]
                                /\ shifts'[s].is = "closed" /\ shifts'[s].start = seen[c].start
                                /\ shifts'[s].end = seen[c].end /\ shifts'[s].sum = seen[c].sum
      BY <2>4, Written
    <3>2. PICK w, v : w = seen[c] /\ v = shifts'[s]
      OBVIOUS
    <3>3. Whole(w)
      BY <2>4, <3>2 DEF Writing, SummaryInv, Counting, Whole, TimedSteps
    <3>4. Whole(v)'
      BY <2>1, <3>1, <3>2, <3>3, Copied DEF Whole, Fits
    <3>5. Whole(shifts[s])'
      BY <3>2, <3>4
    <3>6. \A u \in Closed' : u # s => u \in Closed /\ shifts'[u] = shifts[u]
      BY <3>1 DEF Closed
    <3> QED BY <2>1, <2>2, <3>5, <3>6, RowCopied DEF SummaryInv
  <2>5. CASE \E s \in ShiftIds, t \in Time : Opening(c, s, t)
    BY <2>3, <2>5, Opened DEF Closed
  <2>6. CASE UNCHANGED shifts
    BY <2>3, <2>6 DEF Closed
  <2> QED BY <2>1, <2>4, <2>5, <2>6 DEF Moves, Resting, Looking, Computing
<1>2. CASE UNCHANGED <<orders, shifts, pc, seen>>
  <2>1. Closed' = Closed
    BY <1>2 DEF Closed
  <2> QED BY <1>2, <2>1, RowCopied, CallCopied DEF SummaryInv
<1> QED BY <1>1, <1>2, SalesCounted DEF Next, Tick, vars

-----------------------------------------------------------------------------
(* The theorems.                                                            *)

\* The invariant holds at first.
LEMMA InitInv == Init => IInv
<1> SUFFICES ASSUME Init PROVE IInv
  OBVIOUS
<1>1. 0 \in Time /\ NoOrder \in OrderRows /\ NoShift \in ShiftRows /\ NoReads \in Reads
  <2>1. 0 \in Time
    BY ClockIsNatural DEF Time
  <2> QED BY <2>1, NothingTypes DEF NoOrder, OrderRows, NoShift, ShiftRows, NoReads, Reads
<1>2. TypeOK
  <2>1. now \in 0 .. Horizon
    BY ClockIsNatural DEF Init
  <2>2. orders \in [Orders -> OrderRows] /\ shifts \in [ShiftIds -> ShiftRows]
    BY <1>1 DEF Init
  <2>3. pc \in [Calls -> Steps] /\ seen \in [Calls -> Reads]
    BY <1>1 DEF Init, Steps
  <2>4. raced \in BOOLEAN /\ overlap \in BOOLEAN
    BY DEF Init
  <2> QED BY <2>1, <2>2, <2>3, <2>4 DEF TypeOK
<1>3. Open = {} /\ Closed = {}
  BY DEF Init, Open, Closed, NoShift
<1>4. LookupInv /\ RaceInv
  BY DEF Init, LookupInv, RaceInv, ClosingSteps, NoReads
<1>5. ClockInv
  BY <1>3 DEF Init, ClockInv, TimedSteps, NoOrder, Refunded
<1>6. SummaryInv
  BY <1>3 DEF Init, SummaryInv, Counting, TimedSteps
<1> QED BY <1>2, <1>3, <1>4, <1>5, <1>6 DEF IInv, OneOpen, WindowInv

\* At most one shift is open, a call that ends one is alone unless it was raced, shifts
\* follow one another, and the summaries that were closed or are being computed say what
\* they should of the orders, whatever happens to these meanwhile.
THEOREM Inductive == Spec => []IInv
<1>1. Init => IInv
  BY InitInv
<1>2. IInv /\ [Next]_vars => IInv'
  BY TypesKept, OneOpenKept, LookupKept, RaceKept, ClockKept, WindowKept, SummaryKept DEF IInv
<1> QED BY <1>1, <1>2, PTL DEF Spec

\* Every column and every local keeps its type, through the steps of sales and of calls.
THEOREM TypeCorrect == Spec => []TypeOK
<1>1. IInv => TypeOK
  BY DEF IInv
<1> QED BY <1>1, Inductive, PTL

\* What Within compares.
LEMMA Instant ==
  ASSUME TypeOK
  PROVE  /\ \A s \in ShiftIds : shifts[s].start \in Nat /\ shifts[s].end \in Nat
         /\ \A o \in Orders : /\ orders[o].created \in Nat /\ orders[o].changed \in Nat
                              /\ orders[o].cancelled \in Nat
         /\ \A s \in ShiftIds : shifts[s].sum \in Summaries
BY Instants DEF TypeOK, ShiftRows, OrderRows

\* A sale is within one of two shifts that follow one another.
LEMMA SoldOnce ==
  ASSUME IInv, NEW s \in Closed, NEW t \in Closed, Follows(s, t)
  PROVE  shifts[s].sum.sold \cap shifts[t].sum.sold = {}
<1>1. SUFFICES ASSUME NEW o \in shifts[s].sum.sold, o \in shifts[t].sum.sold PROVE FALSE
  OBVIOUS
<1>2. o \in Orders /\ s \in ShiftIds /\ t \in ShiftIds
  BY <1>1, Instant DEF IInv, Closed, Summaries
<1>3. /\ Within(orders[o].created, shifts[s].start, shifts[s].end)
      /\ Within(orders[o].created, shifts[t].start, shifts[t].end)
  BY <1>1 DEF IInv, SummaryInv, Whole, Fits, SalesFit
<1> QED BY <1>2, <1>3, Instant DEF IInv, Within, Follows

\* A sale recorded before its shift was ended is in the totals of that shift and, without a
\* race or a shift that starts inside another, of no other (ShiftsService.computeSummary, endShift).
THEOREM SalesAreCountedOnceHolds == Spec => []SalesAreCountedOnce
<1>1. ASSUME IInv PROVE SalesAreCountedOnce
  <2>1. ASSUME NEW s \in Closed, NEW o \in Orders, orders[o].sale # "none",
               shifts[s].start <= orders[o].created, orders[o].created < shifts[s].end,
               orders[o].recorded < shifts[s].end
        PROVE  o \in shifts[s].sum.sold
    BY <1>1, <2>1 DEF IInv, SummaryInv, Whole, SalesAll, Within
  <2>2. ASSUME ~raced, ~overlap, NEW s \in Closed, NEW t \in Closed, s # t
        PROVE  shifts[s].sum.sold \cap shifts[t].sum.sold = {}
    <3>1. Follows(s, t) \/ Follows(t, s)
      BY <1>1, <2>2 DEF IInv, WindowInv
    <3> QED BY <1>1, <3>1, SoldOnce
  <2> QED BY <2>1, <2>2 DEF SalesAreCountedOnce
<1> QED BY <1>1, Inductive, PTL

\* A refund of two shifts that follow one another was changed after its cancellation, or
\* cancelled after the end of the first.
LEMMA ReturnedOnce ==
  ASSUME IInv, NEW s \in Closed, NEW t \in Closed, Follows(s, t),
         NEW o \in shifts[s].sum.returned, o \in shifts[t].sum.returned
  PROVE  orders[o].changed # orders[o].cancelled \/ orders[o].cancelled >= shifts[s].end
<1>1. o \in Orders /\ s \in ShiftIds /\ t \in ShiftIds
  BY Instant DEF IInv, Closed, Summaries
<1>2. /\ \/ Within(orders[o].created, shifts[s].start, shifts[s].end)
         \/ orders[o].created < shifts[s].start /\ shifts[s].start < shifts[s].end
      /\ \/ Within(orders[o].created, shifts[t].start, shifts[t].end)
         \/ shifts[t].start <= orders[o].changed
  BY DEF IInv, SummaryInv, Whole, Fits, ReturnsFit
<1> QED BY <1>1, <1>2, Instant DEF IInv, Within, Follows

\* A cancelled sale is among the refunds of its shift, or of the shift that updated_at
\* names, and of no other unless it was changed later (ShiftsService.computeSummary, subtractReversedPayments).
THEOREM ReturnsAreCountedOnceHolds == Spec => []ReturnsAreCountedOnce
<1>1. ASSUME IInv PROVE ReturnsAreCountedOnce
  <2>1. ASSUME NEW s \in Closed, NEW o \in Orders,
               orders[o].sale = "cancelled", orders[o].cancelled < shifts[s].end,
               \/ Within(orders[o].created, shifts[s].start, shifts[s].end)
               \/ /\ orders[o].created < shifts[s].start
                  /\ Within(orders[o].updated, shifts[s].start, shifts[s].end)
                  /\ orders[o].changed < shifts[s].end
                  /\ orders[o].paid = "REFUNDED" /\ orders[o].refunded < shifts[s].end
        PROVE  o \in shifts[s].sum.returned
    <3>1. OwnReturns(shifts[s]) /\ EarlierReturns(shifts[s])
      BY <1>1 DEF IInv, SummaryInv, Whole
    <3> QED BY <2>1, <3>1 DEF OwnReturns, EarlierReturns, Refunded
  <2>2. ASSUME ~raced, ~overlap, NEW s \in Closed, NEW t \in Closed, s # t,
               NEW o \in shifts[s].sum.returned \cap shifts[t].sum.returned
        PROVE  \/ orders[o].changed # orders[o].cancelled
               \/ orders[o].cancelled >= shifts[s].end
               \/ orders[o].cancelled >= shifts[t].end
    <3>1. Follows(s, t) \/ Follows(t, s)
      BY <1>1, <2>2 DEF IInv, WindowInv
    <3> QED BY <1>1, <2>2, <3>1, ReturnedOnce
  <2> QED BY <2>1, <2>2 DEF ReturnsAreCountedOnce
<1> QED BY <1>1, Inductive, PTL

\* A shift is closed by the call that ends it, with the totals this has computed, and its
\* report stays, unless two calls were ending it together (ShiftsService.endShift,
\* ensureActiveShift).
THEOREM OnlyEndingClosesShiftsHolds == Spec => OnlyEndingClosesShifts
<1> DEFINE Ends == /\ \A s \in Open : shifts'[s].is = "closed" =>
                         \E c \in Calls : pc[c] = "write" /\ shifts'[s].sum = seen[c].sum
                   /\ ~raced' => \A s \in Closed : shifts'[s] = shifts[s]
<1>1. ASSUME IInv, [Next]_vars PROVE Ends
  <2>1. CASE UNCHANGED shifts
    BY <2>1 DEF Open, Closed
  <2>2. ASSUME NEW c \in Calls, Handle(c) PROVE Ends
    <3>1. Moves(c)
      BY <1>1, <2>2, HandleSteps DEF IInv
    <3>2. CASE \E s \in ShiftIds, t \in Time : Opening(c, s, t)
      BY <1>1, <3>2, Opened DEF IInv, Open, Closed
    <3>3. CASE Writing(c)
      <4>1. PICK s \in ShiftIds : /\ seen[c].primary = {s} /\ shifts'[s].sum = seen[c].sum
                                  /\ \A u \in ShiftIds : u # s => shifts'[u] = shifts[u]
        BY <1>1, <3>3, Written DEF IInv
      <4>2. pc[c] = "write" /\ raced' = raced
        BY <3>3 DEF Writing
      <4>3. ~raced' => shifts[s].is = "open"
        BY <1>1, <3>3, <4>1, <4>2, WritesOpen DEF IInv
      <4> QED BY <4>1, <4>2, <4>3 DEF Open, Closed
    <3> QED BY <2>1, <3>1, <3>2, <3>3 DEF Moves, Resting, Looking, Computing
  <2> QED BY <1>1, <2>1, <2>2, SaleSteps DEF IInv, Next, Tick, vars
<1>2. IInv /\ [Next]_vars => [Ends]_vars
  BY <1>1
<1> QED BY <1>2, Inductive, PTL DEF Spec, OnlyEndingClosesShifts
=============================================================================
