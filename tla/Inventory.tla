------------------------------ MODULE Inventory ------------------------------
(* InventoryService: stock items of several branches, the stock ledger      *)
(* ("stock_transactions"), and the recipes that use the items, under calls  *)
(* that overlap.  Every handler looks first and writes later, in one        *)
(* transaction whose writes are increments; a commit is one action.         *)
(*                                                                         *)
(* Of the ledger the model keeps the sum of each item's rows; of an item,   *)
(* its branch, name and quantity.  Items are unique by branch and name, a   *)
(* recipe row keeps its item from being deleted, and a ledger row of a      *)
(* missing item cannot be written: these are constraints of the database.   *)
EXTENDS Integers

CONSTANTS
    Items,     \* ids a row of "inventory_items" can take
    Branches,
    Names,
    Calls,     \* HTTP calls, each made at most once
    Changes    \* quantities a call can give; they may be negative

ASSUME ChangesAreQuantities == Changes \subseteq Int

ASSUME SomewhereToStock == Branches # {} /\ Names # {}

VARIABLES
    item,      \* rows of "inventory_items"
    ledger,    \* by item, the sum of change_amount over its rows
    recipe,    \* items some product's recipe uses
    pc, seen,  \* where each call stands, what it has read
    missed,    \* history: kinds of writes committed by others while a call was under way
    unbooked   \* history: items whose quantity was set without a ledger row

vars == <<item, ledger, recipe, pc, seen, missed, unbooked>>

Writes == {"create", "edit", "remove", "stock", "transfer", "usage", "recipe"}

Steps == {"idle", "done", "failed", "edit", "recipes", "remove", "stock", "target",
          "transfer", "usage", "use", "recipe"}

NoItem == [is |-> "none", branch |-> CHOOSE b \in Branches : TRUE,
           name |-> CHOOSE n \in Names : TRUE, quantity |-> 0]

ItemRows == [is : {"none", "here", "gone"}, branch : Branches, name : Names, quantity : Int]

NoReads == [from |-> {}, row |-> NoItem, to |-> NoItem.branch, dest |-> {}, amount |-> 0,
            uses |-> {}]

Reads == [from : SUBSET Items, row : ItemRows, to : Branches, dest : SUBSET Items,
          amount : Int, uses : SUBSET Items]

Here == {i \in Items : item[i].is = "here"}

Named(b, n) == {i \in Here : item[i].branch = b /\ item[i].name = n}

InFlight(c) == pc[c] \notin {"idle", "done", "failed"}

Goto(c, step) == pc' = [pc EXCEPT ![c] = step]

\* A call arrives and reads item i.
Begin(c, i, reads, step) ==
    /\ pc[c] = "idle"
    /\ i \in Here
    /\ Goto(c, step)
    /\ seen' = [seen EXCEPT ![c] = [reads EXCEPT !.from = {i}, !.row = item[i]]]
    /\ UNCHANGED <<item, ledger, recipe, missed, unbooked>>

\* The call ends; its transaction, if any, is committed and others have missed it.
Leave(c, step) ==
    /\ Goto(c, step)
    /\ seen' = [seen EXCEPT ![c] = NoReads]

Commit(c, write) ==
    /\ Leave(c, "done")
    /\ missed' = [q \in Calls |-> IF q # c /\ InFlight(q) THEN missed[q] \cup {write}
                                                        ELSE missed[q]]

\* A constraint refuses a statement and the transaction rolls back.
Refused(c) == Leave(c, "failed") /\ UNCHANGED <<item, ledger, recipe, missed, unbooked>>

-----------------------------------------------------------------------------
(* create and update.                                                       *)

\* The first ledger row is written only for a positive quantity.
Create(c) ==
    /\ pc[c] = "idle"
    /\ \E i \in Items, b \in Branches, n \in Names, q \in Changes :
         /\ item[i].is = "none"
         /\ Named(b, n) = {}
         /\ item' = [item EXCEPT ![i] = [is |-> "here", branch |-> b, name |-> n,
                                         quantity |-> q]]
         /\ ledger' = [ledger EXCEPT ![i] = IF q > 0 THEN q ELSE 0]
         /\ unbooked' = IF q < 0 THEN unbooked \cup {i} ELSE unbooked
    /\ Commit(c, "create")
    /\ UNCHANGED recipe

EditRead(c) == \E i \in Items : Begin(c, i, NoReads, "edit")

\* A new name, a new quantity, or both; a quantity leaves no row in the ledger.
Edit(c) ==
    /\ pc[c] = "edit"
    /\ \E i \in seen[c].from :
         \/ /\ i \in Here
            /\ \E n \in Names, q \in Changes \cup {item[i].quantity} :
                 /\ n # item[i].name => Named(item[i].branch, n) = {}
                 /\ item' = [item EXCEPT ![i].name = n, ![i].quantity = q]
                 /\ unbooked' = IF q = item[i].quantity THEN unbooked ELSE unbooked \cup {i}
            /\ Commit(c, "edit")
            /\ UNCHANGED <<ledger, recipe>>
         \/ i \notin Here /\ Refused(c)

-----------------------------------------------------------------------------
(* remove: the balance read first is written off with the row.              *)

RemoveRead(c) == \E i \in Items : Begin(c, i, NoReads, "recipes")

\* Mutant of RemoveCheck: the count of the recipes is not looked at.
RemoveCheckSkipped(c) ==
    /\ pc[c] = "recipes"
    /\ Goto(c, "remove")
    /\ UNCHANGED <<item, ledger, recipe, seen, missed, unbooked>>

\* An item that a recipe uses is refused.
RemoveCheck(c) ==
    /\ pc[c] = "recipes"
    /\ Goto(c, IF seen[c].from \cap recipe = {} THEN "remove" ELSE "failed")
    /\ UNCHANGED <<item, ledger, recipe, seen, missed, unbooked>>

\* The row can be deleted: it is there and no recipe row refers to it.
Deletable(i) == i \in Here /\ i \notin recipe

\* Mutant of WrittenOff: the balance is left in the ledger.
NothingOff(quantity) == 0

WrittenOff(quantity) == -quantity

Remove(c) ==
    /\ pc[c] = "remove"
    /\ \E i \in seen[c].from :
         \/ /\ Deletable(i)
            /\ item' = [item EXCEPT ![i].is = "gone"]
            /\ ledger' = [ledger EXCEPT ![i] = @ + WrittenOff(seen[c].row.quantity)]
            /\ Commit(c, "remove")
            /\ UNCHANGED <<recipe, unbooked>>
         \/ ~Deletable(i) /\ Refused(c)

-----------------------------------------------------------------------------
(* addStockTransaction and transferItem.                                    *)

\* Mutant of Move: the ledger row is forgotten.
MoveUnbooked(quantities) ==
    /\ item' = [i \in Items |-> [item[i] EXCEPT !.quantity = @ + quantities[i]]]
    /\ UNCHANGED ledger

\* Adding to the quantity of an item, with its ledger row.
Move(quantities) ==
    /\ item' = [i \in Items |-> [item[i] EXCEPT !.quantity = @ + quantities[i]]]
    /\ ledger' = [i \in Items |-> ledger[i] + quantities[i]]

StockRead(c) ==
    \E i \in Items, q \in Changes : Begin(c, i, [NoReads EXCEPT !.amount = q], "stock")

AddStock(c) ==
    /\ pc[c] = "stock"
    /\ \E i \in seen[c].from :
         \/ /\ i \in Here
            /\ Move([j \in Items |-> IF j = i THEN seen[c].amount ELSE 0])
            /\ Commit(c, "stock")
            /\ UNCHANGED <<recipe, unbooked>>
         \/ i \notin Here /\ Refused(c)

\* Mutant of Transferable: the quantity on hand is not looked at.
Positive(q, i) == q > 0

Transferable(q, i) == q > 0 /\ q <= item[i].quantity

\* A quantity, or all of it, to another branch.
TransferRead(c) ==
    \E i \in Items, b \in Branches :
      /\ b # item[i].branch
      /\ \E q \in Changes \cup {item[i].quantity} :
           /\ Transferable(q, i)
           /\ Begin(c, i, [NoReads EXCEPT !.amount = q, !.to = b], "target")

\* The item of the same name in the target branch, if there is one.
DestinationOf(b, n) == Named(b, n)

TransferTarget(c) ==
    /\ pc[c] = "target"
    /\ seen' = [seen EXCEPT ![c].dest = DestinationOf(seen[c].to, seen[c].row.name)]
    /\ Goto(c, "transfer")
    /\ UNCHANGED <<item, ledger, recipe, missed, unbooked>>

\* The new row of a transfer clashes with an item of that name.
NameTaken(c) == seen[c].dest = {} /\ Named(seen[c].to, seen[c].row.name) # {}

Transfer(c) ==
    LET q == seen[c].amount
    IN  /\ pc[c] = "transfer"
        /\ \E i \in seen[c].from :
             \/ /\ i \in Here
                /\ \E d \in seen[c].dest :
                     /\ d \in Here
                     /\ Move([j \in Items |-> IF j = i THEN -q ELSE IF j = d THEN q ELSE 0])
                /\ Commit(c, "transfer")
                /\ UNCHANGED <<recipe, unbooked>>
             \/ /\ i \in Here
                /\ seen[c].dest = {} /\ ~NameTaken(c)
                /\ \E d \in Items :
                     /\ item[d].is = "none"
                     /\ item' = [item EXCEPT ![i].quantity = @ - q,
                                             ![d] = [is |-> "here", branch |-> seen[c].to,
                                                     name |-> seen[c].row.name, quantity |-> q]]
                     /\ ledger' = [ledger EXCEPT ![i] = @ - q, ![d] = q]
                /\ Commit(c, "transfer")
                /\ UNCHANGED <<recipe, unbooked>>
             \/ /\ i \notin Here \/ ~(seen[c].dest \subseteq Here) \/ NameTaken(c)
                /\ Refused(c)

-----------------------------------------------------------------------------
(* deductForOrder, and what ProductsService does to recipes.                *)

\* The recipes of the order's lines say what is used, one unit of each of some items of
\* one branch.
UsageRead(c) ==
    /\ pc[c] = "idle"
    /\ \E uses \in SUBSET recipe :
         /\ uses # {} /\ \A i, j \in uses : item[i].branch = item[j].branch
         /\ seen' = [seen EXCEPT ![c].uses = uses]
    /\ Goto(c, "use")
    /\ UNCHANGED <<item, ledger, recipe, missed, unbooked>>

\* On-hand may become negative; an item deleted since is passed over.
Use(c) ==
    /\ pc[c] = "use"
    /\ Move([i \in Items |-> IF i \in seen[c].uses \cap Here THEN -1 ELSE 0])
    /\ Commit(c, "usage")
    /\ UNCHANGED <<recipe, unbooked>>

\* A product of the item's branch takes up an item, or drops it.
RecipeRead(c) == \E i \in Items : Begin(c, i, NoReads, "recipe")

RecipeWrite(c) ==
    /\ pc[c] = "recipe"
    /\ \E i \in seen[c].from :
         \/ /\ i \in Here
            /\ recipe' \in {recipe \cup {i}, recipe \ {i}}
            /\ Commit(c, "recipe")
            /\ UNCHANGED <<item, ledger, unbooked>>
         \/ i \notin Here /\ Refused(c)

-----------------------------------------------------------------------------
\* A statement throws, a deadlock is broken, or the process dies: nothing is written.
Fail(c) == InFlight(c) /\ Refused(c)

Ended == (\A c \in Calls : pc[c] \in {"done", "failed"}) /\ UNCHANGED vars

\* Items with their stock booked, some of them used in recipes.
Init ==
    /\ item \in [Items -> [is : {"none", "here"}, branch : Branches, name : Names,
                           quantity : {0} \cup (Changes \cap Nat)]]
    /\ \A i \in Items : item[i].is = "none" => item[i] = NoItem
    /\ \A i, j \in Here : item[i].branch = item[j].branch /\ item[i].name = item[j].name => i = j
    /\ ledger = [i \in Items |-> item[i].quantity]
    /\ recipe \in SUBSET Here
    /\ pc = [c \in Calls |-> "idle"]
    /\ seen = [c \in Calls |-> NoReads]
    /\ missed = [c \in Calls |-> {}]
    /\ unbooked = {}

Handle(c) ==
    \/ Create(c) \/ EditRead(c) \/ Edit(c)
    \/ RemoveRead(c) \/ RemoveCheck(c) \/ Remove(c)
    \/ StockRead(c) \/ AddStock(c)
    \/ TransferRead(c) \/ TransferTarget(c) \/ Transfer(c)
    \/ UsageRead(c) \/ Use(c) \/ RecipeRead(c) \/ RecipeWrite(c)
    \/ Fail(c)

Next == (\E c \in Calls : Handle(c)) \/ Ended

Spec == Init /\ [][Next]_vars

-----------------------------------------------------------------------------
\* Call c commits in this step.
Commits(c, step) == pc[c] = step /\ pc'[c] = "done"

\* Every column and every local holds a value of its type, and the table of items has
\* one row for each branch and name.
TypeOK ==
    /\ item \in [Items -> ItemRows]
    /\ \A i, j \in Here : item[i].branch = item[j].branch /\ item[i].name = item[j].name => i = j
    /\ ledger \in [Items -> Int]
    /\ recipe \in SUBSET Items
    /\ pc \in [Calls -> Steps]
    /\ seen \in [Calls -> Reads]
    /\ missed \in [Calls -> SUBSET Writes]
    /\ unbooked \in SUBSET Items

\* The ledger explains the stock: in every interleaving of restocks, usage, transfers,
\* removals and failures the quantity of an item is the sum of its ledger rows, unless
\* somebody set the quantity of the item directly (update, or create with a debt).
LedgerExplainsStock ==
    \A i \in Here \ unbooked : item[i].quantity = ledger[i]

\* Removing an item writes its whole balance off: its rows sum to zero afterwards,
\* unless its stock was moved between the look-up and the removal.
RemovalWritesOff ==
    [][\A c \in Calls, i \in Items :
         /\ Commits(c, "remove") /\ seen[c].from = {i}
         /\ i \notin unbooked
         /\ missed[c] \cap {"stock", "transfer", "usage"} = {}
         => ledger'[i] = 0]_vars

\* A removal that has counted the recipes is turned down by the database only when
\* somebody changed a recipe or removed the item after the look-up: an item that recipes
\* use all along is refused by remove itself, with its message, before the write-off is
\* begun (remove counts outside its transaction).
RemovalRefusedOnlyByContention ==
    [][\A c \in Calls :
         /\ pc[c] = "remove" /\ pc'[c] = "failed"
         /\ \E i \in seen[c].from : ~Deletable(i)
         => missed[c] \cap {"recipe", "remove"} # {}]_vars

\* "Insufficient stock": a transfer never takes more than there is, unless the stock
\* was drawn on or set between the look-up and the commit (transferItem checks outside
\* its transaction).
TransfersDoNotOverdraw ==
    [][\A c \in Calls, i \in Items :
         /\ Commits(c, "transfer") /\ seen[c].from = {i}
         /\ missed[c] \cap {"stock", "transfer", "usage", "edit"} = {}
         => item'[i].quantity >= 0]_vars

\* A transfer is refused because of the item it would create only when somebody else
\* created or renamed that item after the look-up.
RefusedOnlyByContention ==
    [][\A c \in Calls :
         /\ pc[c] = "transfer" /\ pc'[c] = "failed" /\ NameTaken(c)
         => missed[c] \cap {"create", "edit", "transfer"} # {}]_vars
=============================================================================
