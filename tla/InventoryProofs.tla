-------------------------- MODULE InventoryProofs --------------------------
(* Theorems of Inventory for every set of items, branches, names, calls and *)
(* quantities.                                                              *)
EXTENDS Inventory, TLAPS

\* A call has read a row that was there, and a row's id is never free again.
ReadInv == \A c \in Calls : \A i \in seen[c].from : item[i].is # "none"

\* What a call has read of a quantity holds until somebody changes it.
RemoveInv ==
    \A c \in Calls :
      /\ pc[c] \in {"recipes", "remove"}
      /\ missed[c] \cap {"stock", "transfer", "usage"} = {}
      => \A i \in seen[c].from : i \in Here /\ i \notin unbooked
                                   => item[i].quantity = seen[c].row.quantity

TransferInv ==
    \A c \in Calls :
      /\ pc[c] \in {"target", "transfer"}
      => /\ seen[c].amount <= seen[c].row.quantity
         /\ missed[c] \cap {"stock", "transfer", "usage", "edit"} = {}
            => \A i \in seen[c].from : i \in Here => item[i].quantity = seen[c].row.quantity

\* A destination that was not found is still missing until somebody adds or renames items.
TargetInv ==
    \A c \in Calls :
      /\ pc[c] = "transfer" /\ seen[c].dest = {}
      /\ missed[c] \cap {"create", "edit", "transfer"} = {}
      => Named(seen[c].to, seen[c].row.name) = {}

\* An item to remove is there until somebody removes it, and once its recipes have been
\* counted none uses it until somebody changes a recipe.
CountInv ==
    \A c \in Calls :
      /\ pc[c] \in {"recipes", "remove"} /\ "remove" \notin missed[c] => seen[c].from \subseteq Here
      /\ pc[c] = "remove" /\ "recipe" \notin missed[c] => seen[c].from \cap recipe = {}

CallInv == ReadInv /\ RemoveInv /\ TransferInv /\ TargetInv /\ CountInv

\* The inductive invariant.
IInv == TypeOK /\ LedgerExplainsStock /\ CallInv

-----------------------------------------------------------------------------
\* A row, and a local without reads, can be made up.
LEMMA Defaults == NoItem \in ItemRows /\ NoReads \in Reads /\ NoReads.from = {}
<1>1. NoItem \in ItemRows /\ NoItem.branch \in Branches
  BY SomewhereToStock DEF NoItem, ItemRows
<1> QED BY <1>1 DEF NoReads, Reads

\* An action that only moves a call, and notes what it reads, keeps the invariant if the
\* call itself goes where its reads allow.
LEMMA ReadStep ==
    ASSUME IInv, NEW c \in Calls, NEW step \in Steps, NEW reads \in Reads,
           UNCHANGED <<item, ledger, recipe, missed, unbooked>>,
           pc' = [pc EXCEPT ![c] = step],
           seen' = [seen EXCEPT ![c] = reads],
           \A i \in reads.from : item[i].is # "none",
           step \in {"recipes", "remove", "target", "transfer"} =>
              \A i \in reads.from : i \in Here /\ missed[c] \cap {"stock", "transfer", "usage"} = {}
                 => \/ item[i].quantity = reads.row.quantity
                    \/ step \in {"recipes", "remove"} /\ i \in unbooked
                    \/ step \in {"target", "transfer"} /\ "edit" \in missed[c],
           step \in {"target", "transfer"} => reads.amount <= reads.row.quantity,
           step = "transfer" /\ reads.dest = {}
              /\ missed[c] \cap {"create", "edit", "transfer"} = {}
              => Named(reads.to, reads.row.name) = {},
           step \in {"recipes", "remove"} /\ "remove" \notin missed[c]
              => reads.from \subseteq Here,
           step = "remove" /\ "recipe" \notin missed[c] => reads.from \cap recipe = {}
    PROVE  IInv'
<1>1. Here' = Here /\ \A b, n : Named(b, n)' = Named(b, n)
  BY DEF Here, Named
<1>2. TypeOK'
  BY <1>1 DEF IInv, TypeOK
<1>3. \A q \in Calls : /\ pc'[q] = IF q = c THEN step ELSE pc[q]
                       /\ seen'[q] = IF q = c THEN reads ELSE seen[q]
  BY DEF IInv, TypeOK
<1>4. LedgerExplainsStock'
  BY <1>1 DEF IInv, LedgerExplainsStock
<1>5. ReadInv'
  BY <1>3 DEF IInv, CallInv, ReadInv
<1>6. RemoveInv'
  BY <1>1, <1>3 DEF IInv, CallInv, RemoveInv
<1>7. TransferInv'
  BY <1>1, <1>3 DEF IInv, CallInv, TransferInv
<1>8. TargetInv'
  BY <1>1, <1>3 DEF IInv, CallInv, TargetInv
<1>9. CountInv'
  BY <1>1, <1>3 DEF IInv, CallInv, CountInv
<1> QED BY <1>2, <1>4, <1>5, <1>6, <1>7, <1>8, <1>9 DEF IInv, CallInv

\* A committed write keeps what the other calls rely on, if it only does what its kind
\* may do.
LEMMA CommitStep ==
    ASSUME IInv, NEW c \in Calls, NEW write \in Writes, Commit(c, write),
           \A i \in Items : item[i].is # "none" => item'[i].is # "none",
           \A i \in Here' : item[i].is # "none" => i \in Here,
           unbooked \subseteq unbooked',
           write \notin {"stock", "transfer", "usage"} =>
              \A i \in Here \cap Here' : i \notin unbooked' => item'[i].quantity = item[i].quantity,
           write \notin {"stock", "transfer", "usage", "edit"} =>
              \A i \in Here \cap Here' : item'[i].quantity = item[i].quantity,
           write \notin {"create", "edit", "transfer"} =>
              \A i \in Here' : /\ i \in Here
                               /\ item'[i].branch = item[i].branch
                               /\ item'[i].name = item[i].name,
           write # "remove" => Here \subseteq Here',
           write # "recipe" => recipe' = recipe
    PROVE  /\ CallInv'
           /\ pc' \in [Calls -> Steps]
           /\ seen' \in [Calls -> Reads]
           /\ missed' \in [Calls -> SUBSET Writes]
<1>1. \A q \in Calls : IF q = c THEN pc'[q] = "done"
                                ELSE pc'[q] = pc[q] /\ seen'[q] = seen[q]
  BY DEF IInv, TypeOK, Commit, Leave, Goto
<1>2. \A q \in Calls : q # c /\ InFlight(q) => missed'[q] = missed[q] \cup {write}
  BY DEF Commit
<1>3. \A q \in Calls : seen[q].from \subseteq Items /\ seen[q].to \in Branches
                         /\ seen[q].row.name \in Names
  BY DEF IInv, TypeOK, Reads, ItemRows
<1>4. ReadInv'
  BY <1>1, <1>3, Defaults DEF IInv, CallInv, ReadInv, Commit, Leave, TypeOK
<1>5. RemoveInv'
  <2> SUFFICES ASSUME NEW q \in Calls, pc'[q] \in {"recipes", "remove"},
                      missed'[q] \cap {"stock", "transfer", "usage"} = {},
                      NEW i \in seen'[q].from, i \in Here', i \notin unbooked'
               PROVE  item'[i].quantity = seen'[q].row.quantity
    BY DEF RemoveInv
  <2>1. q # c /\ pc'[q] = pc[q] /\ seen'[q] = seen[q] /\ InFlight(q)
    BY <1>1 DEF InFlight
  <2>2. missed'[q] = missed[q] \cup {write}
    BY <1>2, <2>1
  <2>3. write \notin {"stock", "transfer", "usage"}
        /\ missed[q] \cap {"stock", "transfer", "usage"} = {}
    BY <2>2
  <2>4. i \in Items /\ i \in Here
    BY <1>3, <2>1 DEF IInv, CallInv, ReadInv
  <2>5. item[i].quantity = seen[q].row.quantity
    BY <2>1, <2>3, <2>4 DEF IInv, CallInv, RemoveInv
  <2> QED BY <2>1, <2>3, <2>4, <2>5
<1>6. TransferInv'
  <2> SUFFICES ASSUME NEW q \in Calls, pc'[q] \in {"target", "transfer"}
               PROVE  /\ seen'[q].amount <= seen'[q].row.quantity
                      /\ missed'[q] \cap {"stock", "transfer", "usage", "edit"} = {}
                         => \A i \in seen'[q].from : i \in Here'
                               => item'[i].quantity = seen'[q].row.quantity
    BY DEF TransferInv
  <2>1. q # c /\ pc'[q] = pc[q] /\ seen'[q] = seen[q] /\ InFlight(q)
    BY <1>1 DEF InFlight
  <2>2. seen'[q].amount <= seen'[q].row.quantity
    BY <2>1 DEF IInv, CallInv, TransferInv
  <2>3. ASSUME missed'[q] \cap {"stock", "transfer", "usage", "edit"} = {},
               NEW i \in seen'[q].from, i \in Here'
        PROVE  item'[i].quantity = seen'[q].row.quantity
    <3>1. missed'[q] = missed[q] \cup {write}
      BY <1>2, <2>1
    <3>2. write \notin {"stock", "transfer", "usage", "edit"}
          /\ missed[q] \cap {"stock", "transfer", "usage", "edit"} = {}
      BY <2>3, <3>1
    <3>3. i \in Items /\ i \in Here
      BY <1>3, <2>1, <2>3 DEF IInv, CallInv, ReadInv
    <3>4. item[i].quantity = seen[q].row.quantity
      BY <2>1, <2>3, <3>2, <3>3 DEF IInv, CallInv, TransferInv
    <3> QED BY <2>1, <2>3, <3>2, <3>3, <3>4
  <2> QED BY <2>2, <2>3
<1>7. TargetInv'
  <2> SUFFICES ASSUME NEW q \in Calls, pc'[q] = "transfer", seen'[q].dest = {},
                      missed'[q] \cap {"create", "edit", "transfer"} = {}
               PROVE  Named(seen[q].to, seen[q].row.name)' = {}
    BY DEF TargetInv
  <2>1. q # c /\ pc'[q] = pc[q] /\ seen'[q] = seen[q] /\ InFlight(q)
    BY <1>1 DEF InFlight
  <2>2. missed'[q] = missed[q] \cup {write}
    BY <1>2, <2>1
  <2>3. write \notin {"create", "edit", "transfer"}
        /\ missed[q] \cap {"create", "edit", "transfer"} = {}
    BY <2>2
  <2>4. Named(seen[q].to, seen[q].row.name) = {}
    BY <2>1, <2>3 DEF IInv, CallInv, TargetInv
  <2> QED BY <2>1, <2>3, <2>4 DEF Named
<1>8. CountInv'
  <2> SUFFICES ASSUME NEW q \in Calls, pc'[q] \in {"recipes", "remove"}
               PROVE  /\ "remove" \notin missed'[q] => seen'[q].from \subseteq Here'
                      /\ pc'[q] = "remove" /\ "recipe" \notin missed'[q]
                         => seen'[q].from \cap recipe' = {}
    BY DEF CountInv
  <2>1. q # c /\ pc'[q] = pc[q] /\ seen'[q] = seen[q] /\ InFlight(q)
    BY <1>1 DEF InFlight
  <2>2. missed'[q] = missed[q] \cup {write}
    BY <1>2, <2>1
  <2> QED BY <2>1, <2>2 DEF IInv, CallInv, CountInv
<1>9. pc' \in [Calls -> Steps]
  BY DEF IInv, TypeOK, Commit, Leave, Goto, Steps
<1>10. seen' \in [Calls -> Reads]
  BY Defaults DEF IInv, TypeOK, Commit, Leave
<1>11. missed' \in [Calls -> SUBSET Writes]
  BY DEF IInv, TypeOK, Commit
<1> QED BY <1>4, <1>5, <1>6, <1>7, <1>8, <1>9, <1>10, <1>11 DEF CallInv

-----------------------------------------------------------------------------
(* The actions that write nothing.                                          *)

\* A call that arrives has read a row that is there.
LEMMA BeginStep ==
    ASSUME IInv, NEW c \in Calls, NEW i \in Items,
           NEW base \in Reads, NEW step \in {"edit", "recipes", "stock", "target", "recipe"},
           Begin(c, i, base, step),
           step = "target" => base.amount <= item[i].quantity
    PROVE  IInv'
<1> DEFINE reads == [base EXCEPT !.from = {i}, !.row = item[i]]
<1>1. i \in Here /\ item[i].is = "here"
  BY DEF Begin, Here
<1>2. reads \in Reads /\ reads.from = {i} /\ reads.row = item[i] /\ reads.amount = base.amount
  BY DEF IInv, TypeOK, Reads
<1>3. pc' = [pc EXCEPT ![c] = step] /\ seen' = [seen EXCEPT ![c] = reads]
      /\ UNCHANGED <<item, ledger, recipe, missed, unbooked>>
  BY DEF Begin, Goto
<1>4. step \in Steps
  BY DEF Steps
<1> HIDE DEF reads
<1> QED BY <1>1, <1>2, <1>3, <1>4, ReadStep

\* A call that is refused has no more reads.
LEMMA RefusedStep == ASSUME IInv, NEW c \in Calls, Refused(c) PROVE IInv'
<1>1. /\ pc' = [pc EXCEPT ![c] = "failed"] /\ seen' = [seen EXCEPT ![c] = NoReads]
      /\ UNCHANGED <<item, ledger, recipe, missed, unbooked>>
  BY DEF Refused, Leave, Goto
<1>2. "failed" \in Steps
  BY DEF Steps
<1> QED BY <1>1, <1>2, Defaults, ReadStep

\* Looking, and looking again, keeps the invariant.
LEMMA LookStep ==
    ASSUME IInv, NEW c \in Calls,
           \/ EditRead(c) \/ RemoveRead(c) \/ RemoveCheck(c) \/ StockRead(c)
           \/ TransferRead(c) \/ TransferTarget(c) \/ UsageRead(c) \/ RecipeRead(c)
    PROVE  IInv'
<1>1. seen[c] \in Reads /\ seen = [seen EXCEPT ![c] = seen[c]]
  BY DEF IInv, TypeOK
<1>2. CASE EditRead(c)
  <2>1. PICK i \in Items : Begin(c, i, NoReads, "edit")
    BY <1>2 DEF EditRead
  <2> QED BY <2>1, Defaults, BeginStep
<1>3. CASE RemoveRead(c)
  <2>1. PICK i \in Items : Begin(c, i, NoReads, "recipes")
    BY <1>3 DEF RemoveRead
  <2> QED BY <2>1, Defaults, BeginStep
<1>4. CASE RecipeRead(c)
  <2>1. PICK i \in Items : Begin(c, i, NoReads, "recipe")
    BY <1>4 DEF RecipeRead
  <2> QED BY <2>1, Defaults, BeginStep
<1>5. CASE StockRead(c)
  <2>1. PICK i \in Items, q \in Changes : Begin(c, i, [NoReads EXCEPT !.amount = q], "stock")
    BY <1>5 DEF StockRead
  <2>2. [NoReads EXCEPT !.amount = q] \in Reads
    BY Defaults, ChangesAreQuantities DEF Reads
  <2> QED BY <2>1, <2>2, BeginStep
<1>6. CASE TransferRead(c)
  <2>1. PICK i \in Items, b \in Branches : \E q \in Changes \cup {item[i].quantity} :
          /\ Transferable(q, i)
          /\ Begin(c, i, [NoReads EXCEPT !.amount = q, !.to = b], "target")
    BY <1>6 DEF TransferRead
  <2>2. PICK q \in Changes \cup {item[i].quantity} :
          /\ Transferable(q, i)
          /\ Begin(c, i, [NoReads EXCEPT !.amount = q, !.to = b], "target")
    BY <2>1
  <2> DEFINE base == [NoReads EXCEPT !.amount = q, !.to = b]
  <2>3. q \in Int
    BY ChangesAreQuantities DEF IInv, TypeOK, ItemRows
  <2>4. base \in Reads /\ base.amount = q
    BY <2>3, Defaults DEF Reads
  <2>5. base.amount <= item[i].quantity
    BY <2>2, <2>4 DEF Transferable
  <2>6. Begin(c, i, base, "target")
    BY <2>2
  <2> HIDE DEF base
  <2> QED BY <2>4, <2>5, <2>6, BeginStep
<1>7. CASE RemoveCheck(c)
  <2>1. PICK step \in {"remove", "failed"} :
          /\ pc' = [pc EXCEPT ![c] = step]
          /\ step = "remove" => seen[c].from \cap recipe = {}
    BY <1>7 DEF RemoveCheck, Goto
  <2>2. /\ seen' = [seen EXCEPT ![c] = seen[c]]
        /\ UNCHANGED <<item, ledger, recipe, missed, unbooked>>
        /\ pc[c] = "recipes"
    BY <1>1, <1>7 DEF RemoveCheck
  <2>3. \A i \in seen[c].from : item[i].is # "none"
    BY <2>2 DEF IInv, CallInv, ReadInv
  <2>4. \A i \in seen[c].from : i \in Here /\ missed[c] \cap {"stock", "transfer", "usage"} = {}
          => item[i].quantity = seen[c].row.quantity \/ i \in unbooked
    BY <2>2 DEF IInv, CallInv, RemoveInv
  <2>5. "remove" \notin missed[c] => seen[c].from \subseteq Here
    BY <2>2 DEF IInv, CallInv, CountInv
  <2>6. step \in Steps
    BY DEF Steps
  <2> QED BY <1>1, <2>1, <2>2, <2>3, <2>4, <2>5, <2>6, ReadStep
<1>8. CASE TransferTarget(c)
  <2> DEFINE reads == [seen[c] EXCEPT !.dest = DestinationOf(seen[c].to, seen[c].row.name)]
  <2>1. /\ pc' = [pc EXCEPT ![c] = "transfer"] /\ seen' = [seen EXCEPT ![c] = reads]
        /\ UNCHANGED <<item, ledger, recipe, missed, unbooked>>
        /\ pc[c] = "target"
    BY <1>8 DEF TransferTarget, Goto, IInv, TypeOK
  <2>2. /\ reads \in Reads /\ reads.from = seen[c].from /\ reads.row = seen[c].row
        /\ reads.to = seen[c].to /\ reads.amount = seen[c].amount
        /\ reads.dest = Named(reads.to, reads.row.name)
    BY <1>1 DEF Reads, DestinationOf, Named, Here
  <2> HIDE DEF reads
  <2>3. \A i \in reads.from : item[i].is # "none"
    BY <2>1, <2>2 DEF IInv, CallInv, ReadInv
  <2>4. \A i \in reads.from : i \in Here /\ missed[c] \cap {"stock", "transfer", "usage"} = {}
          => item[i].quantity = reads.row.quantity \/ "edit" \in missed[c]
    BY <2>1, <2>2 DEF IInv, CallInv, TransferInv
  <2>5. reads.amount <= reads.row.quantity
    BY <2>1, <2>2 DEF IInv, CallInv, TransferInv
  <2>6. "transfer" \in Steps
    BY DEF Steps
  <2> QED BY <2>1, <2>2, <2>3, <2>4, <2>5, <2>6, ReadStep
<1>9. CASE UsageRead(c)
  <2>1. PICK uses \in SUBSET recipe : seen' = [seen EXCEPT ![c].uses = uses]
    BY <1>9 DEF UsageRead
  <2> DEFINE reads == [seen[c] EXCEPT !.uses = uses]
  <2>2. /\ pc' = [pc EXCEPT ![c] = "use"] /\ seen' = [seen EXCEPT ![c] = reads]
        /\ UNCHANGED <<item, ledger, recipe, missed, unbooked>>
    BY <1>9, <2>1 DEF UsageRead, Goto, IInv, TypeOK
  <2>3. reads \in Reads /\ reads.from = seen[c].from
    BY <1>1 DEF Reads, IInv, TypeOK
  <2> HIDE DEF reads
  <2>4. \A i \in reads.from : item[i].is # "none"
    BY <2>3 DEF IInv, CallInv, ReadInv
  <2>5. "use" \in Steps
    BY DEF Steps
  <2> QED BY <2>2, <2>3, <2>4, <2>5, ReadStep
<1> QED BY <1>2, <1>3, <1>4, <1>5, <1>6, <1>7, <1>8, <1>9

-----------------------------------------------------------------------------
(* The actions that commit.                                                 *)

\* The constraints on the table of items, and the types the commit has not proved.
TableOK ==
    /\ item \in [Items -> ItemRows]
    /\ \A i, j \in Here : item[i].branch = item[j].branch /\ item[i].name = item[j].name => i = j
    /\ ledger \in [Items -> Int]
    /\ recipe \in SUBSET Items
    /\ unbooked \in SUBSET Items

\* What is left to prove of a committing action.
LEMMA CommitIs ==
    ASSUME TableOK', LedgerExplainsStock', CallInv',
           pc' \in [Calls -> Steps], seen' \in [Calls -> Reads],
           missed' \in [Calls -> SUBSET Writes]
    PROVE  IInv'
BY DEF IInv, TypeOK, TableOK

\* A new item starts with its quantity booked, or unbooked.
LEMMA CreateStep == ASSUME IInv, NEW c \in Calls, Create(c) PROVE IInv'
<1>1. PICK i \in Items, b \in Branches, n \in Names, q \in Changes :
        /\ item[i].is = "none"
        /\ Named(b, n) = {}
        /\ item' = [item EXCEPT ![i] = [is |-> "here", branch |-> b, name |-> n,
                                        quantity |-> q]]
        /\ ledger' = [ledger EXCEPT ![i] = IF q > 0 THEN q ELSE 0]
        /\ unbooked' = IF q < 0 THEN unbooked \cup {i} ELSE unbooked
  BY DEF Create
<1>2. Commit(c, "create") /\ recipe' = recipe
  BY DEF Create
<1>3. q \in Int
  BY ChangesAreQuantities
<1>4. Here' = Here \cup {i} /\ i \notin Here /\ \A j \in Here : item'[j] = item[j]
  BY <1>1 DEF Here, IInv, TypeOK
<1>5. TableOK'
  <2>1. item' \in [Items -> ItemRows] /\ item'[i].branch = b /\ item'[i].name = n
    BY <1>1, <1>3 DEF IInv, TypeOK, ItemRows
  <2>2. \A j \in Here : ~(item[j].branch = b /\ item[j].name = n)
    BY <1>1 DEF Named
  <2>3. \A j, k \in Here' : item'[j].branch = item'[k].branch /\ item'[j].name = item'[k].name
          => j = k
    BY <1>4, <2>1, <2>2 DEF IInv, TypeOK
  <2>4. ledger' \in [Items -> Int]
    BY <1>1, <1>3 DEF IInv, TypeOK
  <2> QED BY <1>1, <1>2, <2>1, <2>3, <2>4 DEF TableOK, IInv, TypeOK
<1>6. LedgerExplainsStock'
  BY <1>1, <1>3, <1>4 DEF IInv, TypeOK, LedgerExplainsStock
<1>7. Here \subseteq Here'
  BY <1>4
<1>8. \A j \in Items : item[j].is # "none" => item'[j].is # "none"
  BY <1>1 DEF IInv, TypeOK
<1>9. \A j \in Here' : item[j].is # "none" => j \in Here
  BY <1>1, <1>4
<1>10. \A j \in Here \cap Here' : item'[j].quantity = item[j].quantity
  BY <1>4
<1>11. unbooked \subseteq unbooked'
  BY <1>1
<1> QED BY <1>2, <1>5, <1>6, <1>7, <1>8, <1>9, <1>10, <1>11, CommitStep, CommitIs DEF Writes

\* An edit of the quantity leaves the item unbooked.
LEMMA EditStep ==
    ASSUME IInv, NEW c \in Calls, Edit(c), ~Refused(c) PROVE IInv'
<1>1. PICK i \in seen[c].from :
        /\ i \in Here
        /\ \E n \in Names, q \in Changes \cup {item[i].quantity} :
             /\ n # item[i].name => Named(item[i].branch, n) = {}
             /\ item' = [item EXCEPT ![i].name = n, ![i].quantity = q]
             /\ unbooked' = IF q = item[i].quantity THEN unbooked ELSE unbooked \cup {i}
        /\ Commit(c, "edit")
        /\ UNCHANGED <<ledger, recipe>>
  BY DEF Edit
<1>2. PICK n \in Names :
        \E q \in Changes \cup {item[i].quantity} :
             /\ n # item[i].name => Named(item[i].branch, n) = {}
             /\ item' = [item EXCEPT ![i].name = n, ![i].quantity = q]
             /\ unbooked' = IF q = item[i].quantity THEN unbooked ELSE unbooked \cup {i}
  BY <1>1
<1>3. PICK q \in Changes \cup {item[i].quantity} :
        /\ n # item[i].name => Named(item[i].branch, n) = {}
        /\ item' = [item EXCEPT ![i].name = n, ![i].quantity = q]
        /\ unbooked' = IF q = item[i].quantity THEN unbooked ELSE unbooked \cup {i}
  BY <1>2
<1>4. i \in Items /\ item[i] \in ItemRows /\ item \in [Items -> ItemRows]
  BY <1>1 DEF Here, IInv, TypeOK
<1>5. q \in Int
  BY <1>4, ChangesAreQuantities DEF ItemRows
<1>6. /\ item' \in [Items -> ItemRows]
      /\ item'[i].is = item[i].is /\ item'[i].branch = item[i].branch
      /\ item'[i].name = n /\ item'[i].quantity = q
      /\ \A j \in Items : j # i => item'[j] = item[j]
  BY <1>3, <1>4, <1>5 DEF ItemRows
<1>7. Here' = Here
  BY <1>6 DEF Here
<1>8. TableOK'
  <2>1. n # item[i].name =>
          \A j \in Here : ~(item[j].branch = item[i].branch /\ item[j].name = n)
    BY <1>3 DEF Named
  <2>2. \A j, k \in Here' : item'[j].branch = item'[k].branch /\ item'[j].name = item'[k].name
          => j = k
    BY <1>1, <1>6, <1>7, <2>1 DEF IInv, TypeOK, Here
  <2> QED BY <1>1, <1>3, <1>4, <1>6, <2>2 DEF TableOK, IInv, TypeOK
<1>9. LedgerExplainsStock'
  BY <1>1, <1>3, <1>4, <1>6, <1>7 DEF IInv, LedgerExplainsStock, Here
<1>10. Here \subseteq Here'
  BY <1>7
<1>11. \A j \in Items : item[j].is # "none" => item'[j].is # "none"
  BY <1>6
<1>12. unbooked \subseteq unbooked' /\ (i \notin unbooked' => q = item[i].quantity)
  BY <1>3
<1>13. \A j \in Here \cap Here' : j \notin unbooked' => item'[j].quantity = item[j].quantity
  BY <1>6, <1>12 DEF Here
<1> QED BY <1>1, <1>7, <1>8, <1>9, <1>10, <1>11, <1>12, <1>13, CommitStep, CommitIs DEF Writes

\* A removal deletes an item that no recipe uses.
LEMMA RemoveStep ==
    ASSUME IInv, NEW c \in Calls, Remove(c), ~Refused(c) PROVE IInv'
<1>1. PICK i \in seen[c].from :
        /\ Deletable(i)
        /\ item' = [item EXCEPT ![i].is = "gone"]
        /\ ledger' = [ledger EXCEPT ![i] = @ + WrittenOff(seen[c].row.quantity)]
        /\ Commit(c, "remove")
        /\ UNCHANGED <<recipe, unbooked>>
  BY DEF Remove
<1>2. i \in Here /\ i \notin recipe /\ i \in Items
  BY <1>1 DEF Deletable, Here
<1>3. WrittenOff(seen[c].row.quantity) \in Int
  BY DEF WrittenOff, IInv, TypeOK, Reads, ItemRows
<1>4. /\ item' \in [Items -> ItemRows]
      /\ item'[i].is = "gone"
      /\ \A j \in Items : j # i => item'[j] = item[j] /\ ledger'[j] = ledger[j]
  BY <1>1, <1>2 DEF IInv, TypeOK, ItemRows
<1>5. Here' = Here \ {i}
  BY <1>2, <1>4 DEF Here
<1>6. ledger' \in [Items -> Int]
  <2>1. ledger \in [Items -> Int]
    BY DEF IInv, TypeOK
  <2>2. ledger' = [ledger EXCEPT ![i] = @ + WrittenOff(seen[c].row.quantity)]
    BY <1>1
  <2>3. ASSUME NEW off \in Int PROVE [ledger EXCEPT ![i] = @ + off] \in [Items -> Int]
    BY <1>2, <2>1
  <2> QED BY <1>3, <2>2, <2>3
<1>7. \A j \in Here' : j \in Items /\ item'[j] = item[j] /\ ledger'[j] = ledger[j]
  BY <1>4, <1>5 DEF Here
<1>8. TableOK'
  BY <1>1, <1>4, <1>5, <1>6, <1>7 DEF TableOK, IInv, TypeOK
<1>9. LedgerExplainsStock'
  BY <1>1, <1>5, <1>7 DEF IInv, LedgerExplainsStock
<1>10. recipe' = recipe
  BY <1>1
<1>11. \A j \in Items : item[j].is # "none" => item'[j].is # "none"
  BY <1>4
<1>12. \A j \in Here' : j \in Here /\ item'[j] = item[j]
  BY <1>5, <1>7
<1>13. unbooked \subseteq unbooked' /\ Commit(c, "remove") /\ "remove" \in Writes
  BY <1>1 DEF Writes
<1> QED BY <1>8, <1>9, <1>10, <1>11, <1>12, <1>13, CommitStep, CommitIs

\* Moving quantities together with their ledger rows keeps the table and the ledger.
LEMMA MoveIs ==
    ASSUME IInv, NEW quantities \in [Items -> Int], Move(quantities),
           UNCHANGED <<recipe, unbooked>>
    PROVE  /\ TableOK' /\ LedgerExplainsStock'
           /\ Here' = Here
           /\ \A i \in Items : /\ item'[i].is = item[i].is
                               /\ item'[i].branch = item[i].branch
                               /\ item'[i].name = item[i].name
                               /\ item'[i].quantity = item[i].quantity + quantities[i]
<1>1. \A i \in Items : item[i] \in ItemRows /\ ledger[i] \in Int
  BY DEF IInv, TypeOK
<1>2. \A i \in Items : /\ item'[i] = [item[i] EXCEPT !.quantity = @ + quantities[i]]
                       /\ ledger'[i] = ledger[i] + quantities[i]
  BY DEF Move
<1>3. \A i \in Items : /\ item'[i] \in ItemRows
                       /\ item'[i].is = item[i].is
                       /\ item'[i].branch = item[i].branch
                       /\ item'[i].name = item[i].name
                       /\ item'[i].quantity = item[i].quantity + quantities[i]
  <2> SUFFICES ASSUME NEW i \in Items
               PROVE  LET row == item'[i]
                      IN  /\ row \in ItemRows
                          /\ row.is = item[i].is
                          /\ row.branch = item[i].branch
                          /\ row.name = item[i].name
                          /\ row.quantity = item[i].quantity + quantities[i]
    OBVIOUS
  <2>1. item[i] \in ItemRows /\ quantities[i] \in Int
    BY <1>1
  <2>2. ASSUME NEW row \in ItemRows, NEW q \in Int
        PROVE  LET new == [row EXCEPT !.quantity = @ + q]
               IN  /\ new \in ItemRows
                   /\ new.is = row.is /\ new.branch = row.branch /\ new.name = row.name
                   /\ new.quantity = row.quantity + q
    BY DEF ItemRows
  <2>3. item'[i] = [item[i] EXCEPT !.quantity = @ + quantities[i]]
    BY <1>2
  <2> QED BY <2>1, <2>2, <2>3
<1>4. item' \in [Items -> ItemRows] /\ ledger' \in [Items -> Int]
  <2>1. item' = [i \in Items |-> item'[i]] /\ ledger' = [i \in Items |-> ledger'[i]]
    BY DEF Move
  <2> QED BY <1>1, <1>2, <1>3, <2>1
<1>5. Here' = Here
  BY <1>3 DEF Here
<1>6. \A i \in Here : i \in Items
  BY DEF Here
<1>7. TableOK'
  <2>1. \A i, j \in Here' : item'[i].branch = item'[j].branch /\ item'[i].name = item'[j].name
          => i = j
    BY <1>3, <1>5, <1>6 DEF IInv, TypeOK
  <2> QED BY <1>4, <2>1 DEF TableOK, IInv, TypeOK
<1>8. LedgerExplainsStock'
  BY <1>1, <1>2, <1>3, <1>5, <1>6 DEF IInv, LedgerExplainsStock, ItemRows
<1> QED BY <1>3, <1>5, <1>7, <1>8

\* A move is a commit that the readers of quantities see.
LEMMA MoveStep ==
    ASSUME IInv, NEW c \in Calls, NEW quantities \in [Items -> Int], Move(quantities),
           UNCHANGED <<recipe, unbooked>>,
           NEW write \in {"stock", "transfer", "usage"}, Commit(c, write)
    PROVE  IInv'
<1>1. /\ TableOK' /\ LedgerExplainsStock'
      /\ Here' = Here
      /\ \A i \in Items : /\ item'[i].is = item[i].is
                          /\ item'[i].branch = item[i].branch
                          /\ item'[i].name = item[i].name
  BY MoveIs
<1>2. write \in Writes
  BY DEF Writes
<1>3. \A i \in Here' : i \in Here /\ i \in Items
  BY <1>1 DEF Here
<1> QED BY <1>1, <1>2, <1>3, CommitStep, CommitIs

\* A stock movement is booked with its quantity.
LEMMA AddStockStep ==
    ASSUME IInv, NEW c \in Calls, AddStock(c), ~Refused(c) PROVE IInv'
<1>1. PICK i \in seen[c].from :
        /\ Move([j \in Items |-> IF j = i THEN seen[c].amount ELSE 0])
        /\ Commit(c, "stock")
        /\ UNCHANGED <<recipe, unbooked>>
  BY DEF AddStock
<1>2. [j \in Items |-> IF j = i THEN seen[c].amount ELSE 0] \in [Items -> Int]
  BY DEF IInv, TypeOK, Reads
<1> QED BY <1>1, <1>2, MoveStep

\* A sale draws on stock and books it.
LEMMA UseStep == ASSUME IInv, NEW c \in Calls, Use(c) PROVE IInv'
<1>1. [i \in Items |-> IF i \in seen[c].uses \cap Here THEN -1 ELSE 0] \in [Items -> Int]
  OBVIOUS
<1> QED BY <1>1, MoveStep DEF Use

\* A transfer that creates its destination.
LEMMA NewTargetStep ==
    ASSUME IInv, NEW c \in Calls, NEW i \in seen[c].from, NEW d \in Items,
           i \in Here, item[d].is = "none", seen[c].dest = {}, ~NameTaken(c),
           item' = [item EXCEPT ![i].quantity = @ - seen[c].amount,
                                ![d] = [is |-> "here", branch |-> seen[c].to,
                                        name |-> seen[c].row.name,
                                        quantity |-> seen[c].amount]],
           ledger' = [ledger EXCEPT ![i] = @ - seen[c].amount, ![d] = seen[c].amount],
           Commit(c, "transfer"), UNCHANGED <<recipe, unbooked>>
    PROVE  IInv'
<1>1. /\ seen[c].amount \in Int /\ seen[c].to \in Branches /\ seen[c].row.name \in Names
      /\ item \in [Items -> ItemRows] /\ ledger \in [Items -> Int]
  BY DEF IInv, TypeOK, Reads, ItemRows
<1>2. i \in Items /\ i # d /\ d \notin Here
  BY DEF Here
<1>3. /\ item'[i] = [item[i] EXCEPT !.quantity = @ - seen[c].amount]
      /\ item'[d] = [is |-> "here", branch |-> seen[c].to, name |-> seen[c].row.name,
                     quantity |-> seen[c].amount]
      /\ \A j \in Items : j # i /\ j # d => item'[j] = item[j]
      /\ ledger'[i] = ledger[i] - seen[c].amount /\ ledger'[d] = seen[c].amount
      /\ \A j \in Items : j # i /\ j # d => ledger'[j] = ledger[j]
      /\ DOMAIN item' = Items /\ DOMAIN ledger' = Items
  BY <1>1, <1>2
<1>4. /\ item'[i].is = item[i].is /\ item'[i].branch = item[i].branch
      /\ item'[i].name = item[i].name
      /\ item'[i].quantity = item[i].quantity - seen[c].amount
      /\ item'[i] \in ItemRows /\ item'[d] \in ItemRows
      /\ item[i].quantity \in Int
  <2>1. item[i] \in ItemRows
    BY <1>1, <1>2
  <2> QED BY <1>1, <1>3, <2>1 DEF ItemRows
<1>5. item' \in [Items -> ItemRows] /\ ledger' \in [Items -> Int]
  <2>1. item' = [j \in Items |-> item'[j]] /\ ledger' = [j \in Items |-> ledger'[j]]
    BY <1>1
  <2>2. \A j \in Items : item'[j] \in ItemRows
    BY <1>1, <1>3, <1>4
  <2>3. \A j \in Items : ledger'[j] \in Int
    <3>1. ledger[i] \in Int
      BY <1>1, <1>2
    <3> QED BY <1>1, <1>3, <3>1
  <2> QED BY <2>1, <2>2, <2>3
<1>6. Here' = Here \cup {d}
  BY <1>2, <1>3, <1>4 DEF Here
<1>7. \A j \in Here : ~(item[j].branch = seen[c].to /\ item[j].name = seen[c].row.name)
  BY DEF NameTaken, Named
<1>8. \A j \in Here : j \in Items /\ item'[j].branch = item[j].branch
                                  /\ item'[j].name = item[j].name
  BY <1>2, <1>3, <1>4 DEF Here
<1>9. TableOK'
  <2>1. \A j, k \in Here' : item'[j].branch = item'[k].branch /\ item'[j].name = item'[k].name
          => j = k
    BY <1>3, <1>6, <1>7, <1>8 DEF IInv, TypeOK
  <2> QED BY <1>5, <2>1 DEF TableOK, IInv, TypeOK
<1>10. LedgerExplainsStock'
  BY <1>1, <1>2, <1>3, <1>4, <1>6, <1>8 DEF IInv, LedgerExplainsStock
<1>11. Here \subseteq Here'
  BY <1>6
<1>12. \A j \in Items : item[j].is # "none" => item'[j].is # "none"
  BY <1>3, <1>4
<1>13. \A j \in Here' : item[j].is # "none" => j \in Here
  BY <1>6
<1>14. "transfer" \in Writes
  BY DEF Writes
<1> QED BY <1>9, <1>10, <1>11, <1>12, <1>13, <1>14, CommitStep, CommitIs

\* A transfer moves and books one quantity on both sides.
LEMMA TransferStep ==
    ASSUME IInv, NEW c \in Calls, Transfer(c), ~Refused(c) PROVE IInv'
<1>1. PICK i \in seen[c].from :
        /\ i \in Here
        /\ Commit(c, "transfer")
        /\ UNCHANGED <<recipe, unbooked>>
        /\ \/ \E d \in seen[c].dest :
                Move([j \in Items |-> IF j = i THEN -seen[c].amount
                                      ELSE IF j = d THEN seen[c].amount ELSE 0])
           \/ /\ seen[c].dest = {} /\ ~NameTaken(c)
              /\ \E d \in Items :
                   /\ item[d].is = "none"
                   /\ item' = [item EXCEPT ![i].quantity = @ - seen[c].amount,
                                           ![d] = [is |-> "here", branch |-> seen[c].to,
                                                   name |-> seen[c].row.name,
                                                   quantity |-> seen[c].amount]]
                   /\ ledger' = [ledger EXCEPT ![i] = @ - seen[c].amount,
                                               ![d] = seen[c].amount]
  BY DEF Transfer
<1>2. seen[c].amount \in Int
  BY DEF IInv, TypeOK, Reads
<1>3. ASSUME NEW d \in seen[c].dest
      PROVE  [j \in Items |-> IF j = i THEN -seen[c].amount
                              ELSE IF j = d THEN seen[c].amount ELSE 0] \in [Items -> Int]
  BY <1>2
<1>4. CASE \E d \in seen[c].dest :
             Move([j \in Items |-> IF j = i THEN -seen[c].amount
                                   ELSE IF j = d THEN seen[c].amount ELSE 0])
  BY <1>1, <1>3, <1>4, MoveStep
<1> QED BY <1>1, <1>4, NewTargetStep

\* A recipe refers to items that are there.
LEMMA RecipeStep ==
    ASSUME IInv, NEW c \in Calls, RecipeWrite(c), ~Refused(c) PROVE IInv'
<1>1. PICK i \in seen[c].from :
        /\ i \in Here
        /\ recipe' \in {recipe \cup {i}, recipe \ {i}}
        /\ Commit(c, "recipe")
        /\ UNCHANGED <<item, ledger, unbooked>>
  BY DEF RecipeWrite
<1>2. Here' = Here /\ Here \subseteq Items
  BY <1>1 DEF Here
<1>3. TableOK'
  BY <1>1, <1>2 DEF TableOK, IInv, TypeOK
<1>4. LedgerExplainsStock'
  BY <1>1, <1>2 DEF IInv, LedgerExplainsStock
<1>5. "recipe" \in Writes
  BY DEF Writes
<1> QED BY <1>1, <1>2, <1>3, <1>4, <1>5, CommitStep, CommitIs

-----------------------------------------------------------------------------
(* The theorems.                                                            *)

\* A handler's step keeps the invariant.
LEMMA HandleStep == ASSUME IInv, NEW c \in Calls, Handle(c) PROVE IInv'
<1>1. CASE Refused(c)
  BY <1>1, RefusedStep
<1>2. CASE Create(c)
  BY <1>2, CreateStep
<1>3. CASE ~Refused(c) /\ (Edit(c) \/ Remove(c) \/ AddStock(c))
  BY <1>3, EditStep, RemoveStep, AddStockStep
<1>4. CASE ~Refused(c) /\ (Transfer(c) \/ RecipeWrite(c))
  BY <1>4, TransferStep, RecipeStep
<1>5. CASE Use(c)
  BY <1>5, UseStep
<1>6. CASE \/ EditRead(c) \/ RemoveRead(c) \/ RemoveCheck(c) \/ StockRead(c)
           \/ TransferRead(c) \/ TransferTarget(c) \/ UsageRead(c) \/ RecipeRead(c)
  BY <1>6, LookStep
<1>7. CASE Fail(c)
  BY <1>7, RefusedStep DEF Fail
<1> QED BY <1>1, <1>2, <1>3, <1>4, <1>5, <1>6, <1>7 DEF Handle

\* The conjunction IInv is an invariant of the stock calls: it holds at first, and every
\* statement of InventoryService keeps it.
THEOREM Inductive == Spec => []IInv
<1>1. Init => IInv
  <2> SUFFICES ASSUME Init PROVE IInv
    OBVIOUS
  <2>1. \A c \in Calls : pc[c] = "idle" /\ seen[c] = NoReads
    BY DEF Init
  <2>2. item \in [Items -> ItemRows]
    BY ChangesAreQuantities DEF Init, ItemRows
  <2>3. \A i \in Here : item[i].quantity = ledger[i]
    BY DEF Init, Here
  <2>4. ledger \in [Items -> Int]
    BY <2>2 DEF Init, ItemRows
  <2>5. TypeOK
    <3>1. \A i, j \in Here :
            item[i].branch = item[j].branch /\ item[i].name = item[j].name => i = j
      BY DEF Init
    <3>2. recipe \in SUBSET Items /\ unbooked \in SUBSET Items
      BY DEF Init, Here
    <3>3. pc \in [Calls -> Steps] /\ seen \in [Calls -> Reads]
          /\ missed \in [Calls -> SUBSET Writes]
      BY Defaults DEF Init, Steps
    <3> QED BY <2>2, <2>4, <3>1, <3>2, <3>3 DEF TypeOK
  <2>6. LedgerExplainsStock
    BY <2>3 DEF LedgerExplainsStock
  <2>7. CallInv
    BY <2>1, Defaults DEF CallInv, ReadInv, RemoveInv, TransferInv, TargetInv, CountInv
  <2> QED BY <2>5, <2>6, <2>7 DEF IInv
<1>2. IInv /\ [Next]_vars => IInv'
  <2> SUFFICES ASSUME IInv, [Next]_vars PROVE IInv'
    OBVIOUS
  <2>1. CASE \E c \in Calls : Handle(c)
    BY <2>1, HandleStep
  <2>2. CASE UNCHANGED vars
    BY <2>2 DEF vars, IInv, TypeOK, LedgerExplainsStock, CallInv,
       ReadInv, RemoveInv, TransferInv, TargetInv, CountInv, Here, Named
  <2> QED BY <2>1, <2>2 DEF Next, Ended
<1> QED BY <1>1, <1>2, PTL DEF Spec

\* The tables keep their types, and branch and name stay unique, under every overlap of
\* creations, renamings and transfers.
THEOREM TypeCorrect == Spec => []TypeOK
BY Inductive, PTL DEF IInv

\* The stock of an item that nobody has set directly is the sum of its ledger rows.
THEOREM LedgerExplainsStockHolds == Spec => []LedgerExplainsStock
BY Inductive, PTL DEF IInv

\* Which action moves a call on.
LEMMA WhoMoves ==
    ASSUME IInv, NEW c \in Calls, [Next]_vars, pc'[c] # pc[c]
    PROVE  Handle(c)
<1>1. PICK q \in Calls : Handle(q)
  BY DEF Next, Ended, vars
<1>2. \E step : pc' = [pc EXCEPT ![q] = step]
  <2> USE DEF Goto, Leave, Commit, Refused, Begin
  <2>1. CASE Create(q) \/ EditRead(q) \/ Edit(q) \/ RemoveRead(q) \/ RemoveCheck(q)
    BY <2>1 DEF Create, EditRead, Edit, RemoveRead, RemoveCheck
  <2>2. CASE Remove(q) \/ StockRead(q) \/ AddStock(q) \/ TransferRead(q) \/ TransferTarget(q)
    BY <2>2 DEF Remove, StockRead, AddStock, TransferRead, TransferTarget
  <2>3. CASE Transfer(q) \/ UsageRead(q) \/ Use(q) \/ RecipeRead(q) \/ RecipeWrite(q) \/ Fail(q)
    BY <2>3 DEF Transfer, UsageRead, Use, RecipeRead, RecipeWrite, Fail
  <2> QED BY <1>1, <2>1, <2>2, <2>3 DEF Handle
<1>3. q = c
  BY <1>2 DEF IInv, TypeOK
<1> QED BY <1>1, <1>3

\* A removal books the whole balance out of the ledger unless stock was moved meanwhile.
THEOREM RemovalWritesOffHolds == Spec => RemovalWritesOff
<1> DEFINE Step == \A c \in Calls, i \in Items :
                     /\ Commits(c, "remove") /\ seen[c].from = {i}
                     /\ i \notin unbooked
                     /\ missed[c] \cap {"stock", "transfer", "usage"} = {}
                     => ledger'[i] = 0
<1>1. IInv /\ [Next]_vars => Step
  <2> SUFFICES ASSUME IInv, [Next]_vars, NEW c \in Calls, NEW i \in Items,
                      Commits(c, "remove"), seen[c].from = {i}, i \notin unbooked,
                      missed[c] \cap {"stock", "transfer", "usage"} = {}
               PROVE  ledger'[i] = 0
    OBVIOUS
  <2>1. pc[c] = "remove" /\ pc'[c] = "done"
    BY DEF Commits
  <2>2. Handle(c)
    BY <2>1, WhoMoves
  <2>3. ~Refused(c)
    BY <2>1 DEF Refused, Leave, Goto, IInv, TypeOK
  <2>4. Remove(c)
    BY <2>1, <2>2, <2>3 DEF Handle, Create, EditRead, Edit, RemoveRead, RemoveCheck, StockRead,
       AddStock, TransferRead, TransferTarget, Transfer, UsageRead, Use, RecipeRead,
       RecipeWrite, Fail, Begin
  <2>5. i \in Here /\ ledger' = [ledger EXCEPT ![i] = @ + WrittenOff(seen[c].row.quantity)]
    BY <2>3, <2>4 DEF Remove, Deletable
  <2>6. seen[c].row.quantity = item[i].quantity /\ item[i].quantity = ledger[i]
    BY <2>1, <2>5 DEF IInv, CallInv, RemoveInv, LedgerExplainsStock
  <2>7. ledger[i] \in Int /\ ledger \in [Items -> Int]
    BY DEF IInv, TypeOK
  <2> QED BY <2>5, <2>6, <2>7 DEF WrittenOff
<1>2. Spec => [][Step]_vars
  BY <1>1, Inductive, PTL DEF Spec
<1> QED BY <1>2 DEF RemovalWritesOff

\* A transfer leaves no debt behind unless the stock was drawn on or set meanwhile.
THEOREM TransfersDoNotOverdrawHolds == Spec => TransfersDoNotOverdraw
<1> DEFINE Step == \A c \in Calls, i \in Items :
                     /\ Commits(c, "transfer") /\ seen[c].from = {i}
                     /\ missed[c] \cap {"stock", "transfer", "usage", "edit"} = {}
                     => item'[i].quantity >= 0
<1>1. IInv /\ [Next]_vars => Step
  <2> SUFFICES ASSUME IInv, [Next]_vars, NEW c \in Calls, NEW i \in Items,
                      Commits(c, "transfer"), seen[c].from = {i},
                      missed[c] \cap {"stock", "transfer", "usage", "edit"} = {}
               PROVE  item'[i].quantity >= 0
    OBVIOUS
  <2>1. pc[c] = "transfer" /\ pc'[c] = "done"
    BY DEF Commits
  <2>2. Handle(c)
    BY <2>1, WhoMoves
  <2>3. ~Refused(c)
    BY <2>1 DEF Refused, Leave, Goto, IInv, TypeOK
  <2>4. Transfer(c)
    BY <2>1, <2>2, <2>3 DEF Handle, Create, EditRead, Edit, RemoveRead, RemoveCheck, Remove,
       StockRead, AddStock, TransferRead, TransferTarget, UsageRead, Use, RecipeRead,
       RecipeWrite, Fail, Begin
  <2>5. i \in Here /\ item[i].quantity = seen[c].row.quantity
        /\ seen[c].amount <= seen[c].row.quantity
    BY <2>1, <2>3, <2>4 DEF Transfer, IInv, CallInv, TransferInv
  <2>6. item \in [Items -> ItemRows] /\ item[i].quantity \in Int /\ seen[c].amount \in Int
    BY DEF IInv, TypeOK, Reads, ItemRows
  <2>7. item'[i].quantity = item[i].quantity - seen[c].amount
    <3>1. ASSUME NEW d \in seen[c].dest,
                 Move([j \in Items |-> IF j = i THEN -seen[c].amount
                                       ELSE IF j = d THEN seen[c].amount ELSE 0])
          PROVE  item'[i].quantity = item[i].quantity - seen[c].amount
      <4>1. item'[i] = [item[i] EXCEPT !.quantity = @ + (-seen[c].amount)]
        BY <3>1 DEF Move
      <4>2. item[i] \in ItemRows
        BY <2>6
      <4> QED BY <2>6, <4>1, <4>2 DEF ItemRows
    <3>2. ASSUME NEW d \in Items, item[d].is = "none",
                 item' = [item EXCEPT ![i].quantity = @ - seen[c].amount,
                                      ![d] = [is |-> "here", branch |-> seen[c].to,
                                              name |-> seen[c].row.name,
                                              quantity |-> seen[c].amount]]
          PROVE  item'[i].quantity = item[i].quantity - seen[c].amount
      <4>1. d # i
        BY <2>5, <3>2 DEF Here
      <4>2. item'[i] = [item[i] EXCEPT !.quantity = @ - seen[c].amount]
        BY <2>6, <3>2, <4>1
      <4>3. item[i] \in ItemRows
        BY <2>6
      <4> QED BY <2>6, <4>2, <4>3 DEF ItemRows
    <3> QED BY <2>3, <2>4, <3>1, <3>2 DEF Transfer
  <2> QED BY <2>5, <2>6, <2>7
<1>2. Spec => [][Step]_vars
  BY <1>1, Inductive, PTL DEF Spec
<1> QED BY <1>2 DEF TransfersDoNotOverdraw

\* A removal that has counted the recipes is turned down by the database only when
\* somebody changed a recipe or removed the item meanwhile.
THEOREM RemovalRefusedOnlyByContentionHolds == Spec => RemovalRefusedOnlyByContention
<1> DEFINE Step == \A c \in Calls :
                     /\ pc[c] = "remove" /\ pc'[c] = "failed"
                     /\ \E i \in seen[c].from : ~Deletable(i)
                     => missed[c] \cap {"recipe", "remove"} # {}
<1>1. IInv => Step
  BY DEF IInv, CallInv, CountInv, Deletable
<1>2. Spec => [][Step]_vars
  BY <1>1, Inductive, PTL DEF Spec
<1> QED BY <1>2 DEF RemovalRefusedOnlyByContention

\* A transfer is refused for its destination's name only when somebody took the name.
THEOREM RefusedOnlyByContentionHolds == Spec => RefusedOnlyByContention
<1> DEFINE Step == \A c \in Calls :
                     /\ pc[c] = "transfer" /\ pc'[c] = "failed" /\ NameTaken(c)
                     => missed[c] \cap {"create", "edit", "transfer"} # {}
<1>1. IInv => Step
  BY DEF IInv, CallInv, TargetInv, NameTaken
<1>2. Spec => [][Step]_vars
  BY <1>1, Inductive, PTL DEF Spec
<1> QED BY <1>2 DEF RefusedOnlyByContention
=============================================================================
