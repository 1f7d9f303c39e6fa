------------------------------- MODULE Shifts -------------------------------
(* ShiftsService: opening and closing the shifts of one cashier in one      *)
(* branch, and the totals a shift is closed with, computed from orders that *)
(* go on changing.                                                          *)
(*                                                                         *)
(* A total is kept as what it is summed from: the orders counted into       *)
(* grossSales, those counted into refunds, and what each order adds to the  *)
(* drawer.  One tender stands for the three payment methods.  The orders    *)
(* are the cashier's own POS orders, each paid at checkout with one tender; *)
(* "live" is PENDING or COMPLETED, which the totals do not tell apart.      *)
(* What OrdersService does to them is reduced to the columns read here.     *)
(* A partial unique index allows one open shift per branch and cashier.     *)
EXTENDS Integers

CONSTANTS
    Orders,   \* ids a row of "orders" can take
    ShiftIds, \* ids a row of "shifts" can take
    Calls,    \* HTTP calls that may be under way at the same time
    Total,    \* the money each order comes to
    Horizon,  \* bound: the last tick of the server's clock
    Skew      \* ticks a POS device's clock may be ahead of the server's

ASSUME ClockIsNatural ==
    Horizon \in Nat /\ Skew \in Nat /\ Total \in [Orders -> Nat]

VARIABLES
    now,         \* the server's clock
    orders,      \* rows of "orders", with history: when they were really recorded,
                 \*   last changed, cancelled and refunded
    shifts,      \* rows of "shifts"
    pc, seen,    \* where each call stands, what it has read
    raced,       \* history: two calls were ending the same shift together
    overlap      \* history: a shift was opened with a start before the end of another

vars == <<now, orders, shifts, pc, seen, raced, overlap>>

Time  == 0 .. Horizon + Skew
Steps == {"idle", "create", "report", "duplicates", "end", "clock", "both", "created",
          "cancelled", "write"}

NoOrder == [sale |-> "none", paid |-> "COMPLETED", created |-> 0, updated |-> 0,
            recorded |-> 0, changed |-> 0, cancelled |-> 0, refunded |-> 0]

OrderRows == [sale : {"none", "live", "cancelled"}, paid : {"COMPLETED", "REFUNDED"},
              created : Time, updated : Time, recorded : Time, changed : Time,
              cancelled : Time, refunded : Time]

\* A summary of no order at all.
Nothing == [sold |-> {}, returned |-> {}, drawer |-> [o \in Orders |-> 0]]

Summaries == [sold : SUBSET Orders, returned : SUBSET Orders, drawer : [Orders -> Int]]

NoShift == [is |-> "none", start |-> 0, end |-> 0, sum |-> Nothing]

ShiftRows == [is : {"none", "open", "closed"}, start : Time, end : Time, sum : Summaries]

NoReads == [primary |-> {}, extras |-> {}, start |-> 0, end |-> 0, sum |-> Nothing]

Reads == [primary : SUBSET ShiftIds, extras : SUBSET ShiftIds, start : Time, end : Time,
          sum : Summaries]

Goto(c, step) == pc' = [pc EXCEPT ![c] = step]

Leave(c) == Goto(c, "idle") /\ seen' = [seen EXCEPT ![c] = NoReads]

Remember(c, reads, step) == Goto(c, step) /\ seen' = [seen EXCEPT ![c] = reads]

Open == {s \in ShiftIds : shifts[s].is = "open"}

Closed == {s \in ShiftIds : shifts[s].is = "closed"}

\* The open shift that is kept when there are several: the earliest.
Earliest(S) == {s \in S : \A t \in S : shifts[s].start <= shifts[t].start}

-----------------------------------------------------------------------------
(* The orders, as far as shifts see them.                                   *)

\* A checkout commits.  created_at is the device's time of an offline sale, or the
\* moment the row was inserted, which is earlier than the commit.
Record(o) ==
    /\ orders[o].sale = "none"
    /\ \E t \in 0 .. now + Skew :
         orders' = [orders EXCEPT ![o] = [NoOrder EXCEPT !.sale = "live", !.created = t,
                                                         !.updated = t, !.recorded = now,
                                                         !.changed = now]]
    /\ UNCHANGED <<now, shifts, pc, seen, raced, overlap>>

\* What updated_at is set to by a change of order o that commits now: the moment of its
\* statement.
Stamps(o) == orders[o].recorded .. now

\* A note, an edit or a change of status sets updated_at.
Touch(o) ==
    /\ orders[o].sale # "none"
    /\ \E t \in Stamps(o) : orders' = [orders EXCEPT ![o].updated = t, ![o].changed = now]
    /\ UNCHANGED <<now, shifts, pc, seen, raced, overlap>>

\* updateStatus and a delivery write the status alone; refund reverses the payments in
\* the same transaction, whose first statement sets updated_at.  The cancellation is seen
\* when it is committed.
Cancel(o) ==
    /\ orders[o].sale = "live"
    /\ \E paid \in {"COMPLETED", "REFUNDED"}, t \in Stamps(o) :
         orders' = [orders EXCEPT ![o] = [@ EXCEPT !.sale = "cancelled", !.updated = t,
                                                   !.changed = now, !.cancelled = now,
                                                   !.paid = paid, !.refunded = now]]
    /\ UNCHANGED <<now, shifts, pc, seen, raced, overlap>>

\* updateStatus reverses the payments afterwards, which leaves updated_at alone.
Reverse(o) ==
    /\ orders[o].sale = "cancelled"
    /\ orders[o].paid = "COMPLETED"
    /\ orders' = [orders EXCEPT ![o] = [@ EXCEPT !.paid = "REFUNDED", !.refunded = now]]
    /\ UNCHANGED <<now, shifts, pc, seen, raced, overlap>>

Tick ==
    /\ now < Horizon
    /\ now' = now + 1
    /\ UNCHANGED <<orders, shifts, pc, seen, raced, overlap>>

-----------------------------------------------------------------------------
(* computeSummary: two reads, made in parallel.                             *)

\* Mutant of Within: the end counts too.
WithinClosed(t, start, end) == start <= t /\ t <= end

\* created_at or updated_at falls into the shift.
Within(t, start, end) == start <= t /\ t < end

Refunded(o) == orders[o].paid = "REFUNDED"

FinanciallyReversed(o) == orders[o].sale = "cancelled" \/ Refunded(o)

\* The amount of the order's payment row.
Amount(o) == IF Refunded(o) THEN -Total[o] ELSE Total[o]

CreatedInShift(start, end) ==
    {o \in Orders : orders[o].sale # "none" /\ Within(orders[o].created, start, end)}

\* Mutant of CancelledInShift: a cancellation counts in every shift that follows.
CancelledBefore(start, end) ==
    {o \in Orders : /\ orders[o].sale = "cancelled"
                    /\ orders[o].created < start
                    /\ orders[o].updated < end}

CancelledInShift(start, end) ==
    {o \in Orders : /\ orders[o].sale = "cancelled"
                    /\ orders[o].created < start
                    /\ Within(orders[o].updated, start, end)}

\* Sales of this shift: those reversed count as refunds and stay out of the drawer.
AddCreated(sum, sales) ==
    LET back == {o \in sales : FinanciallyReversed(o)}
    IN  [sold     |-> sum.sold \cup sales,
         returned |-> sum.returned \cup back,
         drawer   |-> [o \in Orders |-> IF o \in sales \ back THEN Amount(o)
                                                              ELSE sum.drawer[o]]]

\* Sales of earlier shifts cancelled in this one count once refunded
\* (subtractReversedPayments).
AddCancelled(sum, sales) ==
    LET back == {o \in sales : Refunded(o)}
    IN  [sum EXCEPT !.returned = @ \cup back,
                    !.drawer   = [o \in Orders |-> IF o \in back THEN @[o] - Amount(o)
                                                                 ELSE @[o]]]

ReadCreated(c) ==
    /\ pc[c] \in {"both", "created"}
    /\ LET sales == CreatedInShift(seen[c].start, seen[c].end)
       IN  Remember(c, [seen[c] EXCEPT !.sum = AddCreated(@, sales)],
                    IF pc[c] = "both" THEN "cancelled" ELSE "write")
    /\ UNCHANGED <<now, orders, shifts, raced, overlap>>

ReadCancelled(c) ==
    /\ pc[c] \in {"both", "cancelled"}
    /\ LET sales == CancelledInShift(seen[c].start, seen[c].end)
       IN  Remember(c, [seen[c] EXCEPT !.sum = AddCancelled(@, sales)],
                    IF pc[c] = "both" THEN "created" ELSE "write")
    /\ UNCHANGED <<now, orders, shifts, raced, overlap>>

-----------------------------------------------------------------------------
(* ensureActiveShift.                                                       *)

\* Zero totals, whatever was sold.
Wiped(ids) ==
    [s \in ShiftIds |-> IF s \in ids THEN [shifts[s] EXCEPT !.is = "closed", !.end = now,
                                                            !.sum = Nothing]
                                     ELSE shifts[s]]

\* An open shift is answered, its duplicates closed in the same transaction.
EnsureRead(c) ==
    /\ pc[c] = "idle"
    /\ IF Open = {}
       THEN Goto(c, "create") /\ UNCHANGED shifts
       ELSE /\ \E keep \in Earliest(Open) : shifts' = Wiped(Open \ {keep})
            /\ UNCHANGED pc
    /\ UNCHANGED <<now, orders, seen, raced, overlap>>

\* Mutant of Insertable: the partial unique index does not exist.
AlwaysInsertable == TRUE

\* The partial unique index lets an open row in.
Insertable == Open = {}

\* The start is a time that the device gave, or the server's clock before the insert, which
\* may have waited.  With the index in the way the call fails: the transaction is aborted,
\* and so is the read that was to find the winner.
Create(c) ==
    /\ pc[c] = "create"
    /\ \/ /\ Insertable
          /\ \E s \in ShiftIds, t \in Time :
               /\ shifts[s].is = "none"
               /\ shifts' = [shifts EXCEPT ![s] = [NoShift EXCEPT !.is = "open", !.start = t]]
               /\ overlap' = (overlap \/ \E q \in Closed : t < shifts[q].end)
       \/ ~Insertable /\ UNCHANGED <<shifts, overlap>>
    /\ Leave(c)
    /\ UNCHANGED <<now, orders, raced>>

-----------------------------------------------------------------------------
(* getCurrentSummary and findActive ("report"), endActiveShift and endShift.*)

ReadActives(c) ==
    /\ pc[c] = "idle"
    /\ \E keep \in Earliest(Open), step \in {"report", "duplicates"} :
         Remember(c, [NoReads EXCEPT !.primary = {keep}, !.extras = Open \ {keep}], step)
    /\ UNCHANGED <<now, orders, shifts, raced, overlap>>

\* A report computes a summary that is only answered; ending goes on.
CloseDuplicates(c) ==
    /\ pc[c] \in {"report", "duplicates"}
    /\ shifts' = Wiped(seen[c].extras)
    /\ IF pc[c] = "report" THEN Leave(c) ELSE Goto(c, "end") /\ UNCHANGED seen
    /\ UNCHANGED <<now, orders, raced, overlap>>

\* Calls that are closing shift s.
Closing(s) == {c \in Calls : pc[c] \in {"clock", "both", "created", "cancelled", "write"}
                             /\ seen[c].primary = {s}}

Endable(s) == shifts[s].is = "open"

\* endShift looks up the open shift: the one its caller has read, or one named by id.
EndRead(c) ==
    /\ pc[c] \in {"idle", "end"}
    /\ \/ \E s \in ShiftIds :
            /\ pc[c] = "end" => seen[c].primary = {s}
            /\ Endable(s)
            /\ Remember(c, [NoReads EXCEPT !.primary = {s}, !.start = shifts[s].start], "clock")
            /\ raced' = (raced \/ Closing(s) # {})
       \/ /\ pc[c] = "end"
          /\ \A s \in seen[c].primary : ~Endable(s)
          /\ Leave(c)
          /\ UNCHANGED raced
    /\ UNCHANGED <<now, orders, shifts, overlap>>

\* endedAt is taken before the orders are read.
EndClock(c) ==
    /\ pc[c] = "clock"
    /\ Remember(c, [seen[c] EXCEPT !.end = now], "both")
    /\ UNCHANGED <<now, orders, shifts, raced, overlap>>

\* shift.update by id: the row is written whether or not it is still open.
EndWrite(c) ==
    /\ pc[c] = "write"
    /\ shifts' = [s \in ShiftIds |->
                    IF s \in seen[c].primary
                    THEN [shifts[s] EXCEPT !.is = "closed", !.end = seen[c].end,
                                           !.sum = seen[c].sum]
                    ELSE shifts[s]]
    /\ Leave(c)
    /\ UNCHANGED <<now, orders, raced, overlap>>

\* A statement throws or the process dies.
Fail(c) ==
    /\ pc[c] # "idle"
    /\ Leave(c)
    /\ UNCHANGED <<now, orders, shifts, raced, overlap>>

Init ==
    /\ now = 0
    /\ orders = [o \in Orders |-> NoOrder]
    /\ shifts = [s \in ShiftIds |-> NoShift]
    /\ pc = [c \in Calls |-> "idle"]
    /\ seen = [c \in Calls |-> NoReads]
    /\ raced = FALSE
    /\ overlap = FALSE

Sale(o) == Record(o) \/ Touch(o) \/ Cancel(o) \/ Reverse(o)

Handle(c) ==
    \/ EnsureRead(c) \/ Create(c)
    \/ ReadActives(c) \/ CloseDuplicates(c)
    \/ EndRead(c) \/ EndClock(c) \/ ReadCreated(c) \/ ReadCancelled(c) \/ EndWrite(c)
    \/ Fail(c)

Next ==
    \/ \E o \in Orders : Sale(o)
    \/ \E c \in Calls : Handle(c)
    \/ Tick

Spec == Init /\ [][Next]_vars

-----------------------------------------------------------------------------
\* Every column and every local holds a value of its type.
TypeOK ==
    /\ now \in 0 .. Horizon
    /\ orders \in [Orders -> OrderRows]
    /\ shifts \in [ShiftIds -> ShiftRows]
    /\ pc \in [Calls -> Steps]
    /\ seen \in [Calls -> Reads]
    /\ raced \in BOOLEAN
    /\ overlap \in BOOLEAN

\* The gross sales of a shift are those of its own time, each counted once.  A sale
\* recorded before its shift was ended is in the totals the shift was closed with, in every
\* interleaving: the end of the shift is fixed before the orders are read.  (One recorded
\* later is lost: its time is behind the shift.)  It adds to one shift at most, though shifts
\* follow each other within the same tick; only two calls that end one shift together, or a
\* shift opened with a start that lies in an earlier one (a device's time, or a time taken
\* before an insert that waited while another shift came and went), can count it twice.
SalesAreCountedOnce ==
    /\ \A s \in Closed, o \in Orders :
         /\ orders[o].sale # "none"
         /\ shifts[s].start <= orders[o].created /\ orders[o].created < shifts[s].end
         /\ orders[o].recorded < shifts[s].end
         => o \in shifts[s].sum.sold
    /\ ~raced /\ ~overlap =>
         \A s, t \in Closed : s # t => shifts[s].sum.sold \cap shifts[t].sum.sold = {}

\* The refunds of a shift are those of its own time, each counted once.  A sale made in a
\* shift and cancelled before its end is among the refunds the shift was closed with.  So is
\* a sale of an earlier shift that is cancelled, when its last change was set down in the
\* shift (updated_at stands for the time of cancellation), and that change and the reversal
\* of its payments were committed before the end.  It adds to the refunds of one shift at
\* most, unless it was changed after its cancellation, or the cancellation was committed
\* while a shift was being closed.
ReturnsAreCountedOnce ==
    /\ \A s \in Closed, o \in Orders :
         /\ orders[o].sale = "cancelled" /\ orders[o].cancelled < shifts[s].end
         /\ \/ Within(orders[o].created, shifts[s].start, shifts[s].end)
            \/ /\ orders[o].created < shifts[s].start
               /\ Within(orders[o].updated, shifts[s].start, shifts[s].end)
               /\ orders[o].changed < shifts[s].end
               /\ orders[o].paid = "REFUNDED" /\ orders[o].refunded < shifts[s].end
         => o \in shifts[s].sum.returned
    /\ ~raced /\ ~overlap =>
         \A s, t \in Closed : s # t =>
           \A o \in shifts[s].sum.returned \cap shifts[t].sum.returned :
             \/ orders[o].changed # orders[o].cancelled
             \/ orders[o].cancelled >= shifts[s].end
             \/ orders[o].cancelled >= shifts[t].end

\* A shift is closed by a call to end it, with the totals that the call has computed, and
\* its report does not change after that.  Looking at a shift never ends it, nor closes it
\* with zero totals as a duplicate of another (live reports and ensureActiveShift close all
\* open shifts but the earliest); only two calls that were ending one shift together write
\* its report again (endShift looks for an open shift, and writes it by id later).
OnlyEndingClosesShifts ==
    [][/\ \A s \in Open : shifts'[s].is = "closed" =>
            \E c \in Calls : pc[c] = "write" /\ shifts'[s].sum = seen[c].sum
       /\ ~raced' => \A s \in Closed : shifts'[s] = shifts[s]]_vars

-----------------------------------------------------------------------------
\* "Money returned this shift for a sale from an earlier shift -- reduce drawer
\* totals": such a sale never adds to the drawer of the shift it was returned in.
ReturnsReduceDrawer ==
    \A s \in Closed : \A o \in shifts[s].sum.returned \ shifts[s].sum.sold :
      shifts[s].sum.drawer[o] <= 0
=============================================================================
