---------------------------- MODULE CatalogProofs ----------------------------
(* Theorems of Catalog for every set of products, categories, sizes and     *)
(* stock items, any number of copying calls and any number of edits.        *)
EXTENDS Catalog, SequenceTheorems, TLAPS

\* A call has taken a name; is filling the product it has created; has looked for names.
Filling == {"sizes", "item", "recipe"}
Busy    == {"category", "product"} \cup Filling
Looked  == {"next", "done", "failed"} \cup Busy

\* What a call has read of a product that was not edited meanwhile is the product.
ReadFits(c) ==
    /\ pc[c] = "recipes" =>
         \A n \in seen[c].todo \ seen[c].torn : seen[c].read[n].sizes = source[n].sizes
    /\ pc[c] \in {"names", "next"} \cup Busy =>
         \A n \in Names \ seen[c].torn : seen[c].read[n] \in Stored

ReadInv == \A c \in Calls : ReadFits(c)

\* The ids that a call holds are those of rows that are there, unless it has lost them.
HoldFits(c) ==
    /\ seen[c].known \ seen[c].lost \subseteq categories
    /\ seen[c].ready \ seen[c].lost \subseteq items
    /\ pc[c] \in Busy => seen[c].name \in Names
    /\ pc[c] = "product" => CategoryOf[seen[c].name] \in seen[c].known
    /\ pc[c] = "recipe" =>
         \A r \in seen[c].read[seen[c].name].recipe : r[1] \in seen[c].ready

HoldInv == \A c \in Calls : HoldFits(c)

\* What a call fills is a row of its own, which has the sizes made so far.
FillFits(c) ==
    /\ pc[c] \notin Filling \cup {"failed"} => seen[c].row = 0
    /\ pc[c] \in Filling =>
         LET i == seen[c].row
             n == seen[c].name
         IN  /\ i \in DOMAIN target
             /\ target[i].by = c /\ target[i].name = n /\ target[i].from = seen[c].read[n]
             /\ seen[c].made \subseteq seen[c].read[n].sizes
             /\ ~target[i].edited => target[i].sizes = seen[c].made
    /\ pc[c] \in {"item", "recipe"} => seen[c].read[seen[c].name].sizes \subseteq seen[c].made

FillInv == \A c \in Calls : FillFits(c)

\* Nothing that a call has yet to create is there from before it looked, or by itself.
AheadOf(c) == seen[c].todo \cup (IF pc[c] \in {"category", "product"} THEN {seen[c].name} ELSE {})

AheadFits(c) ==
    /\ seen[c].before <= Len(target)
    /\ pc[c] \in {"category", "product"} => seen[c].name \notin seen[c].todo

NameFits(i, c) ==
    /\ pc[c] \in {"next"} \cup Busy /\ target[i].here /\ i <= seen[c].before =>
         target[i].name \notin AheadOf(c)
    /\ target[i].by = c => pc[c] \in Looked /\ target[i].name \notin AheadOf(c)

NameInv ==
    \A c \in Calls : AheadFits(c) /\ \A i \in DOMAIN target : NameFits(i, c)

\* A row has its recipe when it is finished, and is then what the call has read.
Every(row) ==
    \A r \in row.recipe :
      \/ <<r[1], None>> \in row.recipe
      \/ \A s \in row.sizes : <<r[1], s>> \in row.recipe

WholeRow(row) ==
    /\ row.sizes = row.from.sizes
    /\ {r[1] : r \in row.recipe} = {r[1] : r \in row.from.recipe}
    /\ row.recipe = row.from.recipe \/ row.torn

RowFits(row, unfinished) ==
    /\ row.mine \subseteq row.sizes
    /\ unfinished /\ row.edited => row.early
    /\ unfinished /\ ~row.edited => row.recipe = {}
    /\ ~unfinished /\ ~row.edited => WholeRow(row)
    /\ ~row.torn => row.from \in Stored
    /\ row.torn \/ row.early \/ Every(row)

RowInv == \A i \in DOMAIN target : RowFits(target[i], Unfinished(i))

\* What rows that are there refer to is there.
References(row) ==
    row.here => /\ CategoryOf[row.name] \in categories
                /\ row.recipe \subseteq items \X (row.sizes \cup {None})

ReferInv == \A i \in DOMAIN target : References(target[i])

SeqInv == target \in Seq(Rows)

\* The inductive invariant.
IInv == /\ TypeOK /\ SeqInv /\ ReadInv /\ HoldInv /\ FillInv /\ NameInv /\ RowInv
        /\ CopiesHaveNewNames

-----------------------------------------------------------------------------
(* The rows of the target.                                                  *)

\* The rows of the target are numbered.
LEMMA SeqRows ==
  ASSUME SeqInv
  PROVE  /\ Len(target) \in Nat /\ DOMAIN target = 1 .. Len(target)
         /\ \A i \in DOMAIN target : target[i] \in Rows /\ i \in Nat \ {0}
BY DEF SeqInv

\* A row is appended.
LEMMA Appended ==
  ASSUME SeqInv, NEW row \in Rows, target' = Append(target, row)
  PROVE  /\ target' \in Seq(Rows) /\ Len(target') = Len(target) + 1
         /\ DOMAIN target' = DOMAIN target \cup {Len(target) + 1}
         /\ Len(target) + 1 \notin DOMAIN target
         /\ \A i \in DOMAIN target : target'[i] = target[i]
         /\ target'[Len(target) + 1] = row
<1>1. target \in Seq(Rows) /\ Len(target) \in Nat
  BY DEF SeqInv
<1>2. /\ target' \in Seq(Rows) /\ Len(target') = Len(target) + 1
      /\ \A i \in 1 .. Len(target) : target'[i] = target[i]
      /\ target'[Len(target) + 1] = row
  BY <1>1, AppendProperties
<1>3. DOMAIN target' = 1 .. Len(target') /\ DOMAIN target = 1 .. Len(target)
  BY <1>1, <1>2
<1> QED BY <1>1, <1>2, <1>3

\* A row is altered in place.
LEMMA Altered ==
  ASSUME SeqInv, NEW i \in DOMAIN target, NEW row \in Rows, target' = [target EXCEPT ![i] = row]
  PROVE  /\ target' \in Seq(Rows) /\ Len(target') = Len(target)
         /\ DOMAIN target' = DOMAIN target
         /\ \A j \in DOMAIN target : j # i => target'[j] = target[j]
         /\ target'[i] = row
<1>1. target \in Seq(Rows) /\ i \in 1 .. Len(target)
  BY DEF SeqInv
<1>2. target' \in Seq(Rows) /\ Len(target') = Len(target)
  BY <1>1, ExceptSeq
<1> QED BY <1>1, <1>2

-----------------------------------------------------------------------------
(* What each statement of a call does.                                      *)

Alone(c) == \A d \in Calls : d # c => pc'[d] = pc[d] /\ seen'[d] = seen[d]

Typed == pc' \in [Calls -> Steps] /\ seen' \in [Calls -> Reads]

\* A call goes on with new locals.
LEMMA Remembered ==
  ASSUME TypeOK, NEW c \in Calls, NEW step \in Steps, NEW locals \in Reads, Remember(c, locals, step)
  PROVE  Alone(c) /\ Typed /\ pc'[c] = step /\ seen'[c] = locals
BY DEF TypeOK, Remember, Goto, Alone, Typed

\* A call goes on with the same locals.
LEMMA Went ==
  ASSUME TypeOK, NEW c \in Calls, NEW step \in Steps, Goto(c, step), UNCHANGED seen
  PROVE  Alone(c) /\ Typed /\ pc'[c] = step /\ seen'[c] = seen[c]
BY DEF TypeOK, Goto, Alone, Typed

\* The locals of a call that has read nothing are typed.
LEMMA NoReadsTypes == NoReads \in Reads /\ Empty \in Contents
BY DEF NoReads, Reads, Empty, Contents

\* Sizes, recipes and names are read.
LEMMA ProductsRead ==
  ASSUME TypeOK, NEW c \in Calls, ReadProducts(c)
  PROVE  /\ Alone(c) /\ Typed /\ UNCHANGED tables
         /\ pc[c] = "idle" /\ pc'[c] = "recipes"
         /\ seen'[c].row = 0 /\ seen'[c].known = {} /\ seen'[c].ready = {} /\ seen'[c].before = 0
         /\ \A n \in seen'[c].todo : n \in Names /\ seen'[c].read[n].sizes = source[n].sizes
<1>1. PICK all \in BOOLEAN, todo \in SUBSET Names :
        Remember(c, [NoReads EXCEPT !.all = all, !.todo = todo,
                       !.read = [n \in Names |-> IF n \in todo THEN [Empty EXCEPT !.sizes = source[n].sizes]
                                               ELSE Empty]],
                 "recipes")
  BY DEF ReadProducts
<1> DEFINE read   == [n \in Names |-> IF n \in todo THEN [Empty EXCEPT !.sizes = source[n].sizes]
                                      ELSE Empty]
           locals == [NoReads EXCEPT !.all = all, !.todo = todo, !.read = read]
<1>2. /\ read \in [Names -> Contents]
      /\ \A n \in todo : read[n].sizes = source[n].sizes
  <2>1. \A n \in Names : source[n].sizes \in SUBSET SizeNames
    BY DEF TypeOK, Stored
  <2> QED BY <2>1 DEF Empty, Contents
<1> HIDE DEF read
<1>3. /\ locals \in Reads /\ locals.row = 0 /\ locals.known = {} /\ locals.ready = {}
      /\ locals.todo = todo /\ locals.read = read /\ locals.before = 0
  BY <1>2, NoReadsTypes DEF NoReads, Reads
<1>4. Remember(c, locals, "recipes") /\ "recipes" \in Steps
  BY <1>1 DEF read, Steps
<1> HIDE DEF locals
<1>5. Alone(c) /\ Typed /\ pc'[c] = "recipes" /\ seen'[c] = locals
  BY <1>3, <1>4, Remembered
<1> QED BY <1>2, <1>3, <1>5 DEF ReadProducts

\* The query for the recipes.
LEMMA RecipesRead ==
  ASSUME TypeOK, ReadInv, NEW c \in Calls, ReadRecipes(c)
  PROVE  /\ Alone(c) /\ Typed /\ UNCHANGED tables
         /\ pc[c] = "recipes" /\ pc'[c] = "names"
         /\ seen'[c].row = seen[c].row /\ seen'[c].known = seen[c].known
         /\ seen'[c].ready = seen[c].ready /\ seen'[c].lost = seen[c].lost
         /\ seen'[c].torn = seen[c].torn /\ seen'[c].before = seen[c].before
         /\ \A n \in Names \ seen[c].torn : seen'[c].read[n] \in Stored
<1> DEFINE read   == [n \in Names |-> IF n \in seen[c].todo
                                      THEN [seen[c].read[n] EXCEPT !.recipe = source[n].recipe] ELSE Empty]
           locals == [seen[c] EXCEPT !.read = read]
<1>0. /\ seen[c] \in Reads /\ seen[c].read \in [Names -> Contents] /\ pc[c] = "recipes"
      /\ \A n \in Names : source[n] \in Stored
  BY DEF TypeOK, Reads, ReadRecipes
<1>1. Stored \subseteq Contents
  <2>1. ASSUME NEW z \in SUBSET SizeNames, NEW y \in {z, {}}, NEW ingredients \in SUBSET Items
        PROVE  Recipe(y, ingredients) \in SUBSET RecipeRows
    BY <2>1 DEF Recipe, RecipeRows
  <2> QED BY <2>1 DEF Stored, Contents
<1>2. read \in [Names -> Contents]
  BY <1>0, <1>1, NoReadsTypes DEF Contents
<1>3. Empty \in Stored
  <2>1. Recipe({}, {}) = {}
    BY DEF Recipe
  <2> QED BY <2>1 DEF Stored, Empty
<1>4. \A n \in Names \ seen[c].torn : read[n] \in Stored
  <2>1. ASSUME NEW n \in seen[c].todo \ seen[c].torn, n \in Names PROVE read[n] = source[n]
    <3>1. seen[c].read[n].sizes = source[n].sizes /\ seen[c].read[n] \in Contents
          /\ source[n] \in Contents
      BY <1>0, <1>1, <2>1 DEF ReadInv, ReadFits
    <3> QED BY <2>1, <3>1 DEF Contents
  <2> QED BY <1>0, <1>3, <2>1
<1> HIDE DEF read
<1>5. /\ locals \in Reads /\ locals.row = seen[c].row /\ locals.known = seen[c].known
      /\ locals.ready = seen[c].ready /\ locals.lost = seen[c].lost
      /\ locals.torn = seen[c].torn /\ locals.read = read /\ locals.before = seen[c].before
  BY <1>0, <1>2 DEF Reads
<1>6. Remember(c, locals, "names") /\ "names" \in Steps
  BY DEF ReadRecipes, read, Steps
<1> HIDE DEF locals
<1>7. Alone(c) /\ Typed /\ pc'[c] = "names" /\ seen'[c] = locals
  BY <1>5, <1>6, Remembered
<1> QED BY <1>0, <1>4, <1>5, <1>7 DEF ReadRecipes

\* The query for the names in the target.
LEMMA NamesRead ==
  ASSUME TypeOK, SeqInv, NEW c \in Calls, ReadNames(c)
  PROVE  /\ Alone(c) /\ Typed /\ UNCHANGED tables
         /\ pc[c] = "names" /\ pc'[c] = "next"
         /\ seen'[c].todo = seen[c].todo \ NamesHere /\ seen'[c].before = Len(target)
         /\ seen'[c].row = seen[c].row /\ seen'[c].known = seen[c].known
         /\ seen'[c].ready = seen[c].ready /\ seen'[c].lost = seen[c].lost
         /\ seen'[c].torn = seen[c].torn /\ seen'[c].read = seen[c].read
<1> DEFINE todo   == seen[c].todo \ NamesHere
           locals == [seen[c] EXCEPT !.todo = todo, !.before = Len(target)]
<1>1. /\ locals \in Reads /\ locals.todo = todo /\ locals.before = Len(target)
      /\ locals.row = seen[c].row /\ locals.known = seen[c].known
      /\ locals.ready = seen[c].ready /\ locals.lost = seen[c].lost
      /\ locals.torn = seen[c].torn /\ locals.read = seen[c].read
  BY SeqRows DEF TypeOK, Reads
<1>2. Remember(c, locals, "next") /\ "next" \in Steps
  BY DEF ReadNames, Uncopied, Steps
<1> HIDE DEF locals
<1>3. Alone(c) /\ Typed /\ pc'[c] = "next" /\ seen'[c] = locals
  BY <1>1, <1>2, Remembered
<1> QED BY <1>1, <1>3 DEF ReadNames

\* What a statement leaves as it was.
SameHold(c) == /\ seen'[c].known = seen[c].known /\ seen'[c].ready = seen[c].ready
               /\ seen'[c].lost = seen[c].lost
SameRead(c) == seen'[c].torn = seen[c].torn /\ seen'[c].read = seen[c].read
SameName(c) == /\ seen'[c].todo = seen[c].todo /\ seen'[c].name = seen[c].name
               /\ seen'[c].before = seen[c].before

\* The loop over the products takes the next, or is done.
LEMMA NextTaken ==
  ASSUME TypeOK, NEW c \in Calls, TakeNext(c)
  PROVE  /\ Alone(c) /\ Typed /\ UNCHANGED tables /\ pc[c] = "next"
         /\ seen'[c].row = seen[c].row /\ SameHold(c) /\ SameRead(c)
         /\ seen'[c].before = seen[c].before
         /\ \/ pc'[c] = "done" /\ seen'[c].todo = {}
            \/ \E n \in Names :
                 /\ n \in seen[c].todo /\ seen'[c].todo = seen[c].todo \ {n} /\ seen'[c].name = n
                 /\ pc'[c] \in {"category", "product"}
                 /\ pc'[c] = "product" => CategoryOf[n] \in seen[c].known
<1>1. CASE seen[c].todo = {} /\ Goto(c, "done") /\ UNCHANGED seen
  <2>1. "done" \in Steps
    BY DEF Steps
  <2> QED BY <1>1, <2>1, Went DEF TakeNext, SameHold, SameRead
<1>2. ASSUME NEW n \in seen[c].todo,
             Remember(c, [seen[c] EXCEPT !.todo = @ \ {n}, !.name = n],
                     IF CategoryOf[n] \in seen[c].known THEN "product" ELSE "category")
      PROVE  /\ Alone(c) /\ Typed
             /\ seen'[c].row = seen[c].row /\ SameHold(c) /\ SameRead(c)
             /\ seen'[c].before = seen[c].before
             /\ n \in Names /\ seen'[c].todo = seen[c].todo \ {n} /\ seen'[c].name = n
             /\ pc'[c] \in {"category", "product"}
             /\ pc'[c] = "product" => CategoryOf[n] \in seen[c].known
  <2> DEFINE locals == [seen[c] EXCEPT !.todo = @ \ {n}, !.name = n]
             step   == IF CategoryOf[n] \in seen[c].known THEN "product" ELSE "category"
  <2>1. /\ locals \in Reads /\ locals.todo = seen[c].todo \ {n} /\ locals.name = n
        /\ locals.row = seen[c].row /\ locals.known = seen[c].known
        /\ locals.ready = seen[c].ready /\ locals.lost = seen[c].lost
        /\ locals.torn = seen[c].torn /\ locals.read = seen[c].read
        /\ locals.before = seen[c].before /\ n \in Names
    BY DEF TypeOK, Reads
  <2>2. Remember(c, locals, step) /\ step \in Steps
    BY <1>2 DEF Steps
  <2>3. /\ step \in {"category", "product"}
        /\ step = "product" => CategoryOf[n] \in seen[c].known
    OBVIOUS
  <2> HIDE DEF locals, step
  <2>4. Alone(c) /\ Typed /\ pc'[c] = step /\ seen'[c] = locals
    BY <2>1, <2>2, Remembered
  <2> QED BY <2>1, <2>3, <2>4 DEF SameHold, SameRead
<1> QED BY <1>1, <1>2 DEF TakeNext

\* The category is found or created.
LEMMA CategoryEnsured ==
  ASSUME TypeOK, HoldInv, NEW c \in Calls, EnsureCategory(c)
  PROVE  /\ Alone(c) /\ Typed /\ UNCHANGED <<source, target, items>>
         /\ CategoryOf[seen[c].name] \in Categories
         /\ categories' = categories \cup {CategoryOf[seen[c].name]}
         /\ pc[c] = "category" /\ pc'[c] = "product"
         /\ seen'[c].known = seen[c].known \cup {CategoryOf[seen[c].name]}
         /\ seen'[c].ready = seen[c].ready /\ seen'[c].lost = seen[c].lost
         /\ seen'[c].row = seen[c].row /\ SameRead(c) /\ SameName(c)
<1> DEFINE category == CategoryOf[seen[c].name]
           locals   == [seen[c] EXCEPT !.known = @ \cup {category}]
<1>1. seen[c] \in Reads /\ category \in Categories
  BY DEF TypeOK, EnsureCategory, HoldInv, HoldFits, Busy, Categories
<1> HIDE DEF category
<1>2. /\ locals \in Reads /\ locals.known = seen[c].known \cup {category}
      /\ locals.row = seen[c].row /\ locals.todo = seen[c].todo /\ locals.name = seen[c].name
      /\ locals.ready = seen[c].ready /\ locals.lost = seen[c].lost
      /\ locals.torn = seen[c].torn /\ locals.read = seen[c].read
      /\ locals.before = seen[c].before
  BY <1>1 DEF Reads
<1>3. Remember(c, locals, "product") /\ "product" \in Steps
  BY DEF EnsureCategory, category, Steps
<1> HIDE DEF locals
<1>4. Alone(c) /\ Typed /\ pc'[c] = "product" /\ seen'[c] = locals
  BY <1>2, <1>3, Remembered
<1> QED BY <1>1, <1>2, <1>4 DEF EnsureCategory, SameRead, SameName, category

NewRow(c) ==
    [name |-> seen[c].name, sizes |-> {}, recipe |-> {}, here |-> TRUE, mine |-> {}, by |-> c,
     from |-> seen[c].read[seen[c].name], torn |-> seen[c].name \in seen[c].torn,
     edited |-> FALSE, early |-> FALSE, before |-> seen[c].before]

\* The product is created.
LEMMA ProductCreated ==
  ASSUME TypeOK, SeqInv, HoldInv, NEW c \in Calls, CreateProduct(c)
  PROVE  /\ Alone(c) /\ Typed /\ UNCHANGED <<source, categories, items>>
         /\ pc[c] = "product" /\ pc'[c] = "sizes"
         /\ NewRow(c) \in Rows /\ target' = Append(target, NewRow(c))
         /\ CategoryOf[seen[c].name] \in categories
         /\ seen'[c].row = Len(target) + 1 /\ seen'[c].made = {} /\ seen'[c].ready = {}
         /\ seen'[c].known = seen[c].known /\ seen'[c].lost = seen[c].lost \ Items
         /\ SameRead(c) /\ SameName(c)
<1> DEFINE n      == seen[c].name
           rest   == seen[c].lost \ Items
           locals == [seen[c] EXCEPT !.row = Len(target) + 1, !.made = {}, !.ready = {},
                                     !.lost = rest]
<1>1. seen[c] \in Reads /\ n \in Names /\ pc[c] = "product" /\ Len(target) \in Nat
      /\ CategoryOf[n] \in categories
  BY SeqRows DEF TypeOK, CreateProduct, HoldInv, HoldFits, Busy
<1>2. target' = Append(target, NewRow(c))
  BY DEF CreateProduct, NewRow
<1>3. NewRow(c) \in Rows
  BY <1>1 DEF NewRow, Rows, Reads
<1>4. Len(target') = Len(target) + 1
  BY <1>2, <1>3, Appended
<1>5. /\ locals \in Reads /\ locals.row = Len(target) + 1 /\ locals.made = {}
      /\ locals.ready = {} /\ locals.lost = rest
      /\ locals.known = seen[c].known /\ locals.todo = seen[c].todo /\ locals.name = n
      /\ locals.torn = seen[c].torn /\ locals.read = seen[c].read
      /\ locals.before = seen[c].before
  <2>1. rest \in SUBSET (Items \cup Categories) /\ Len(target) + 1 \in Nat
    BY <1>1 DEF Reads
  <2> HIDE DEF rest
  <2> QED BY <1>1, <2>1 DEF Reads
<1>6. Remember(c, locals, "sizes") /\ "sizes" \in Steps
  BY <1>4 DEF CreateProduct, Steps
<1> HIDE DEF locals
<1>7. Alone(c) /\ Typed /\ pc'[c] = "sizes" /\ seen'[c] = locals
  BY <1>5, <1>6, Remembered
<1> QED BY <1>1, <1>2, <1>3, <1>5, <1>7 DEF CreateProduct, SameRead, SameName

WithSize(row, s) == [row EXCEPT !.sizes = @ \cup {s}, !.mine = @ \cup {s}]

\* A row with one size more, as the two paths of EXCEPT write it.
LEMMA SizeAdded ==
  ASSUME SeqInv, NEW i \in DOMAIN target, NEW s \in SizeNames
  PROVE  /\ [target EXCEPT ![i].sizes = @ \cup {s}, ![i].mine = @ \cup {s}]
              = [target EXCEPT ![i] = WithSize(target[i], s)]
         /\ WithSize(target[i], s) \in Rows
<1>1. target[i] \in Rows
  BY SeqRows
<1>2. WithSize(target[i], s) \in Rows
  BY <1>1 DEF WithSize, Rows
<1>3. [target EXCEPT ![i].sizes = @ \cup {s}, ![i].mine = @ \cup {s}]
        = [target EXCEPT ![i] = WithSize(target[i], s)]
  BY <1>1, SeqRows DEF WithSize, Rows
<1> QED BY <1>2, <1>3

\* A size is created, or all are there.
LEMMA SizeCreated ==
  ASSUME TypeOK, SeqInv, FillInv, NEW c \in Calls, CreateSize(c)
  PROVE  /\ Alone(c) /\ Typed /\ UNCHANGED <<source, categories, items>> /\ pc[c] = "sizes"
         /\ seen'[c].row = seen[c].row /\ SameHold(c) /\ SameRead(c) /\ SameName(c)
         /\ seen[c].row \in DOMAIN target
         /\ \/ /\ pc'[c] = "item" /\ UNCHANGED target /\ seen'[c].made = seen[c].made
               /\ seen[c].read[seen[c].name].sizes \subseteq seen[c].made
            \/ \E s \in SizeNames :
                 /\ s \in seen[c].read[seen[c].name].sizes
                 /\ WithSize(target[seen[c].row], s) \in Rows
                 /\ target' = [target EXCEPT ![seen[c].row] = WithSize(target[seen[c].row], s)]
                 /\ seen'[c].made = seen[c].made \cup {s} /\ pc'[c] = "sizes"
<1>0. /\ seen[c] \in Reads /\ seen[c].row \in DOMAIN target /\ pc[c] = "sizes"
      /\ target[seen[c].row].name = seen[c].name /\ target[seen[c].row] \in Rows
  BY DEF TypeOK, CreateSize, FillInv, FillFits, Filling
<1>1. CASE SizesToMake(c) = {} /\ Goto(c, "item") /\ UNCHANGED <<target, seen>>
  <2>1. "item" \in Steps
    BY DEF Steps
  <2> QED BY <1>0, <1>1, <2>1, Went DEF CreateSize, SameHold, SameRead, SameName, SizesToMake
<1>2. ASSUME NEW s \in SizesToMake(c),
             target' = [target EXCEPT ![seen[c].row].sizes = @ \cup {s},
                                      ![seen[c].row].mine = @ \cup {s}],
             Remember(c, [seen[c] EXCEPT !.made = @ \cup {s}], "sizes")
      PROVE  /\ Alone(c) /\ Typed
             /\ seen'[c].row = seen[c].row /\ SameHold(c) /\ SameRead(c) /\ SameName(c)
             /\ s \in SizeNames /\ s \in seen[c].read[seen[c].name].sizes
             /\ WithSize(target[seen[c].row], s) \in Rows
             /\ target' = [target EXCEPT ![seen[c].row] = WithSize(target[seen[c].row], s)]
             /\ seen'[c].made = seen[c].made \cup {s} /\ pc'[c] = "sizes"
  <2> DEFINE locals == [seen[c] EXCEPT !.made = @ \cup {s}]
  <2>1. s \in SizeNames /\ s \in seen[c].read[seen[c].name].sizes
    <3>1. seen[c].name \in Names
      BY <1>0 DEF Rows
    <3> QED BY <1>0, <3>1 DEF SizesToMake, Reads, Contents
  <2>2. /\ locals \in Reads /\ locals.made = seen[c].made \cup {s}
        /\ locals.row = seen[c].row /\ locals.todo = seen[c].todo /\ locals.name = seen[c].name
        /\ locals.ready = seen[c].ready /\ locals.lost = seen[c].lost /\ locals.known = seen[c].known
        /\ locals.torn = seen[c].torn /\ locals.read = seen[c].read
        /\ locals.before = seen[c].before
    BY <1>0, <2>1 DEF Reads
  <2>3. Remember(c, locals, "sizes") /\ "sizes" \in Steps
    BY <1>2 DEF Steps
  <2> HIDE DEF locals
  <2>4. Alone(c) /\ Typed /\ pc'[c] = "sizes" /\ seen'[c] = locals
    BY <2>2, <2>3, Remembered
  <2> QED BY <1>0, <1>2, <2>1, <2>2, <2>4, SizeAdded DEF SameHold, SameRead, SameName
<1>3. \/ SizesToMake(c) = {} /\ Goto(c, "item") /\ UNCHANGED <<target, seen>>
      \/ \E s \in SizesToMake(c) :
           /\ target' = [target EXCEPT ![seen[c].row].sizes = @ \cup {s},
                                       ![seen[c].row].mine = @ \cup {s}]
           /\ Remember(c, [seen[c] EXCEPT !.made = @ \cup {s}], "sizes")
  BY DEF CreateSize
<1>4. UNCHANGED <<source, categories, items>>
  BY DEF CreateSize
<1> QED BY <1>0, <1>1, <1>2, <1>3, <1>4

\* A stock item is found or created, or all are there.
LEMMA ItemEnsured ==
  ASSUME TypeOK, FillInv, NEW c \in Calls, EnsureItem(c)
  PROVE  /\ Alone(c) /\ Typed /\ UNCHANGED <<source, target, categories>> /\ pc[c] = "item"
         /\ seen'[c].row = seen[c].row /\ SameRead(c) /\ SameName(c)
         /\ seen'[c].made = seen[c].made /\ seen'[c].lost = seen[c].lost
         /\ seen'[c].known = seen[c].known
         /\ \/ /\ pc'[c] = "recipe" /\ UNCHANGED items /\ seen'[c].ready = seen[c].ready
               /\ \A r \in seen[c].read[seen[c].name].recipe : r[1] \in seen[c].ready
            \/ \E i \in Items : /\ items' = items \cup {i} /\ pc'[c] = "item"
                                /\ seen'[c].ready = seen[c].ready \cup {i}
<1>0. /\ seen[c] \in Reads /\ pc[c] = "item" /\ target[seen[c].row] \in Rows
      /\ target[seen[c].row].name = seen[c].name
  BY DEF TypeOK, EnsureItem, FillInv, FillFits, Filling
<1>1. CASE ItemsToCheck(c) = {} /\ Goto(c, "recipe") /\ UNCHANGED <<items, seen>>
  <2>1. "recipe" \in Steps
    BY DEF Steps
  <2> QED BY <1>0, <1>1, <2>1, Went DEF EnsureItem, SameRead, SameName, ItemsToCheck
<1>2. ASSUME NEW i \in ItemsToCheck(c), items' = items \cup {i},
             Remember(c, [seen[c] EXCEPT !.ready = @ \cup {i}], "item")
      PROVE  /\ Alone(c) /\ Typed
             /\ seen'[c].row = seen[c].row /\ SameRead(c) /\ SameName(c)
             /\ seen'[c].made = seen[c].made /\ seen'[c].lost = seen[c].lost
             /\ seen'[c].known = seen[c].known
             /\ i \in Items /\ pc'[c] = "item" /\ seen'[c].ready = seen[c].ready \cup {i}
  <2> DEFINE locals == [seen[c] EXCEPT !.ready = @ \cup {i}]
  <2>1. i \in Items
    <3>1. seen[c].read[seen[c].name] \in Contents
      BY <1>0 DEF Rows, Reads
    <3> QED BY <3>1 DEF ItemsToCheck, Contents, RecipeRows
  <2>2. /\ locals \in Reads /\ locals.ready = seen[c].ready \cup {i}
        /\ locals.row = seen[c].row /\ locals.todo = seen[c].todo /\ locals.name = seen[c].name
        /\ locals.made = seen[c].made /\ locals.lost = seen[c].lost /\ locals.known = seen[c].known
        /\ locals.torn = seen[c].torn /\ locals.read = seen[c].read
        /\ locals.before = seen[c].before
    BY <1>0, <2>1 DEF Reads
  <2>3. Remember(c, locals, "item") /\ "item" \in Steps
    BY <1>2 DEF Steps
  <2> HIDE DEF locals
  <2>4. Alone(c) /\ Typed /\ pc'[c] = "item" /\ seen'[c] = locals
    BY <2>2, <2>3, Remembered
  <2> QED BY <1>2, <2>1, <2>2, <2>4 DEF SameRead, SameName
<1> QED BY <1>0, <1>1, <1>2 DEF EnsureItem

New(c) == {Destination(c, r) : r \in seen[c].read[seen[c].name].recipe}

Completed(c) == [target[seen[c].row] EXCEPT !.recipe = @ \cup New(c)]

\* The recipe is created, and the row is finished.
LEMMA RecipeCreated ==
  ASSUME TypeOK, SeqInv, HoldInv, FillInv, NEW c \in Calls, CreateRecipe(c)
  PROVE  /\ Alone(c) /\ Typed /\ UNCHANGED <<source, categories, items>>
         /\ pc[c] = "recipe" /\ pc'[c] = "next" /\ seen[c].row \in DOMAIN target
         /\ New(c) \in SUBSET RecipeRows /\ Completed(c) \in Rows
         /\ target' = [target EXCEPT ![seen[c].row] = Completed(c)]
         /\ \A r \in New(c) : r[1] \in items /\ r[2] \in target[seen[c].row].mine \cup {None}
         /\ seen'[c].row = 0 /\ SameHold(c) /\ SameRead(c)
         /\ seen'[c].todo = seen[c].todo /\ seen'[c].before = seen[c].before
<1> DEFINE i      == seen[c].row
           rows   == seen[c].read[seen[c].name].recipe
           locals == [seen[c] EXCEPT !.row = 0, !.name = None]
<1>0. /\ seen[c] \in Reads /\ i \in DOMAIN target /\ target[i] \in Rows /\ pc[c] = "recipe"
      /\ seen[c].name \in Names /\ seen[c].ready \ seen[c].lost \subseteq items
      /\ \A r \in rows : r[1] \in seen[c].ready
  BY DEF TypeOK, CreateRecipe, FillInv, FillFits, HoldInv, HoldFits, Filling, Busy
<1>1. rows \in SUBSET RecipeRows /\ seen[c].made \in SUBSET SizeNames
  BY <1>0 DEF Reads, Contents
<1>2. \A r \in RecipeRows : /\ Destination(c, r) \in RecipeRows
                            /\ Destination(c, r)[1] = r[1]
  BY <1>1 DEF Destination, RecipeRows
<1>3. New(c) \in SUBSET RecipeRows
  BY <1>1, <1>2 DEF New
<1>4. rows # {} =>
        \A r \in New(c) : r[1] \notin seen[c].lost /\ r[2] \in target[i].mine \cup {None}
  BY DEF CreateRecipe, New
<1>5. \A r \in New(c) : r[1] \in items /\ r[2] \in target[i].mine \cup {None}
  <2>1. ASSUME NEW r \in New(c) PROVE rows # {} /\ r[1] \in seen[c].ready
    BY <1>0, <1>1, <1>2 DEF New
  <2> QED BY <1>0, <1>4, <2>1
<1>6. Completed(c) \in Rows
  BY <1>0, <1>3 DEF Completed, Rows
<1>7. target' = [target EXCEPT ![i] = Completed(c)]
  BY DEF CreateRecipe, New, Completed
<1>8. /\ locals \in Reads /\ locals.row = 0
      /\ locals.ready = seen[c].ready /\ locals.lost = seen[c].lost /\ locals.known = seen[c].known
      /\ locals.torn = seen[c].torn /\ locals.read = seen[c].read
      /\ locals.todo = seen[c].todo /\ locals.before = seen[c].before
  BY <1>0 DEF Reads
<1>9. Remember(c, locals, "next") /\ "next" \in Steps
  BY DEF CreateRecipe, Steps
<1> HIDE DEF locals
<1>10. Alone(c) /\ Typed /\ pc'[c] = "next" /\ seen'[c] = locals
  BY <1>8, <1>9, Remembered
<1> QED BY <1>0, <1>3, <1>5, <1>6, <1>7, <1>8, <1>10 DEF CreateRecipe, SameHold, SameRead

\* The call breaks off.
LEMMA Failed ==
  ASSUME TypeOK, NEW c \in Calls, Fail(c)
  PROVE  /\ Alone(c) /\ Typed /\ UNCHANGED tables
         /\ pc[c] \notin {"idle", "done", "failed"} /\ pc'[c] = "failed"
         /\ seen'[c].row = seen[c].row /\ seen'[c].todo = {} /\ seen'[c].before = 0
         /\ seen'[c].known = {} /\ seen'[c].ready = {}
<1> DEFINE locals == [NoReads EXCEPT !.row = seen[c].row]
<1>1. /\ locals \in Reads /\ locals.row = seen[c].row /\ locals.todo = {}
      /\ locals.before = 0 /\ locals.known = {} /\ locals.ready = {}
  BY NoReadsTypes DEF TypeOK, NoReads, Reads
<1>2. Remember(c, locals, "failed") /\ "failed" \in Steps
  BY DEF Fail, Steps
<1> HIDE DEF locals
<1>3. Alone(c) /\ Typed /\ pc'[c] = "failed" /\ seen'[c] = locals
  BY <1>1, <1>2, Remembered
<1> QED BY <1>1, <1>3 DEF Fail

-----------------------------------------------------------------------------
(* What administrators do.                                                  *)

\* They leave the calls where they are.
Elsewhere ==
    /\ pc' = pc /\ Typed
    /\ \A c \in Calls :
         /\ seen'[c].row = seen[c].row /\ SameName(c)
         /\ seen'[c].made = seen[c].made /\ seen'[c].read = seen[c].read
         /\ seen'[c].known = seen[c].known /\ seen'[c].ready = seen[c].ready

\* Recipe rows without sizes make a product that can be stored.
LEMMA SizelessStored ==
  ASSUME NEW content \in Stored, NEW z \in SUBSET SizeNames
  PROVE  [sizes |-> z, recipe |-> SizelessRecipe(content.recipe)] \in Stored
<1>1. PICK x \in SUBSET SizeNames, y \in SUBSET SizeNames, ingredients \in SUBSET Items :
        content = [sizes |-> x, recipe |-> Recipe(y, ingredients)]
  BY DEF Stored
<1>2. SizelessRecipe(content.recipe) = Recipe({}, IF y = {} THEN ingredients ELSE {})
  <2>1. CASE y = {}
    BY <1>1, <2>1 DEF SizelessRecipe, Recipe
  <2>2. CASE y # {}
    <3>1. \A r \in Recipe(y, ingredients) : r[2] # None
      BY <1>1, <2>2, CatalogAssumption DEF Recipe
    <3>2. SizelessRecipe(content.recipe) = {}
      BY <1>1, <3>1 DEF SizelessRecipe
    <3> QED BY <2>2, <3>2 DEF Recipe
  <2> QED BY <2>1, <2>2
<1> QED BY <1>1, <1>2 DEF Stored

\* What an administrator enters is complete.
LEMMA EditedContents ==
  ASSUME NEW recipe \in SUBSET RecipeRows,
         NEW content \in WithSizes(recipe) \cup UNION {WithRecipe(z) : z \in SUBSET SizeNames}
  PROVE  content \in Contents /\ Every(content)
<1>1. CASE content \in WithSizes(recipe)
  <2>1. PICK z \in SUBSET SizeNames : content = [sizes |-> z, recipe |-> SizelessRecipe(recipe)]
    BY <1>1 DEF WithSizes
  <2>2. \A r \in content.recipe : r \in RecipeRows /\ r = <<r[1], None>>
    BY <2>1 DEF SizelessRecipe, RecipeRows
  <2>3. content.recipe \in SUBSET RecipeRows
    BY <2>2
  <2>4. content.sizes = z /\ content = [sizes |-> z, recipe |-> content.recipe]
    BY <2>1
  <2> QED BY <2>2, <2>3, <2>4 DEF Contents, Every
<1>2. CASE content \in UNION {WithRecipe(z) : z \in SUBSET SizeNames}
  <2>1. PICK z \in SUBSET SizeNames, ingredients \in SUBSET Items :
          content = [sizes |-> z, recipe |-> Recipe(z, ingredients)]
    BY <1>2 DEF WithRecipe
  <2>2. Recipe(z, ingredients) \in SUBSET RecipeRows
    BY DEF Recipe, RecipeRows
  <2>3. content \in Contents
    BY <2>1, <2>2 DEF Contents
  <2>4. CASE z = {}
    <3>1. content.recipe = ingredients \X {None}
      BY <2>1, <2>4 DEF Recipe
    <3>2. \A r \in ingredients \X {None} : r[1] \in ingredients
      OBVIOUS
    <3> QED BY <2>3, <3>1, <3>2 DEF Every
  <2>5. CASE z # {}
    <3>1. content.recipe = ingredients \X z /\ content.sizes = z
      BY <2>1, <2>5 DEF Recipe
    <3>2. \A r \in ingredients \X z : r[1] \in ingredients
      OBVIOUS
    <3> QED BY <2>3, <3>1, <3>2 DEF Every
  <2> QED BY <2>3, <2>4, <2>5
<1> QED BY <1>1, <1>2

\* An administrator edits a product of the source.
LEMMA SourceEdited ==
  ASSUME TypeOK, EditSource
  PROVE  /\ Elsewhere /\ source' \in [Names -> Stored]
         /\ UNCHANGED <<target, categories, items>>
         /\ \A c \in Calls :
              /\ seen'[c].lost = seen[c].lost /\ seen[c].torn \subseteq seen'[c].torn
              /\ pc[c] # "recipes" => seen'[c].torn = seen[c].torn
              /\ pc[c] = "recipes" =>
                   \A n \in seen[c].todo \ seen'[c].torn : source'[n] = source[n]
<1>0. PICK n \in Names :
        /\ \E content \in WithSizes(source[n].recipe) \cup UNION {WithRecipe(z) : z \in SUBSET SizeNames} :
             source' = [source EXCEPT ![n] = content]
        /\ seen' = [c \in Calls |-> IF pc[c] = "recipes" /\ n \in seen[c].todo
                                    THEN [seen[c] EXCEPT !.torn = @ \cup {n}] ELSE seen[c]]
  BY DEF EditSource
<1>1. PICK content \in WithSizes(source[n].recipe) \cup UNION {WithRecipe(z) : z \in SUBSET SizeNames} :
        source' = [source EXCEPT ![n] = content]
  BY <1>0
<1>2. content \in Stored
  <2>1. source[n] \in Stored
    BY DEF TypeOK
  <2>2. CASE content \in WithSizes(source[n].recipe)
    BY <2>1, <2>2, SizelessStored DEF WithSizes
  <2>3. CASE content \in UNION {WithRecipe(z) : z \in SUBSET SizeNames}
    BY <2>3 DEF WithRecipe, Stored
  <2> QED BY <2>2, <2>3
<1>3. source' \in [Names -> Stored]
  BY <1>1, <1>2 DEF TypeOK
<1>4. pc' = pc /\ UNCHANGED <<target, categories, items>>
  BY DEF EditSource
<1> DEFINE marked(c) == [seen[c] EXCEPT !.torn = @ \cup {n}]
<1>5. ASSUME NEW c \in Calls
      PROVE  /\ marked(c) \in Reads /\ marked(c).row = seen[c].row /\ marked(c).todo = seen[c].todo
             /\ marked(c).name = seen[c].name /\ marked(c).before = seen[c].before
             /\ marked(c).made = seen[c].made /\ marked(c).read = seen[c].read
             /\ marked(c).known = seen[c].known /\ marked(c).ready = seen[c].ready
             /\ marked(c).lost = seen[c].lost /\ marked(c).torn = seen[c].torn \cup {n}
  BY DEF TypeOK, Reads
<1>6. seen' = [c \in Calls |-> IF pc[c] = "recipes" /\ n \in seen[c].todo THEN marked(c)
                               ELSE seen[c]]
  BY <1>0
<1> HIDE DEF marked
<1>7. Elsewhere
  BY <1>4, <1>5, <1>6 DEF Elsewhere, Typed, SameName, TypeOK
<1>8. ASSUME NEW c \in Calls
      PROVE  /\ seen'[c].lost = seen[c].lost /\ seen[c].torn \subseteq seen'[c].torn
             /\ pc[c] # "recipes" => seen'[c].torn = seen[c].torn
             /\ pc[c] = "recipes" =>
                  \A m \in seen[c].todo \ seen'[c].torn : source'[m] = source[m]
  <2>1. \A m \in Names : m # n => source'[m] = source[m]
    BY <1>1 DEF TypeOK
  <2>2. seen[c].todo \subseteq Names
    BY DEF TypeOK, Reads
  <2> QED BY <1>5, <1>6, <2>1, <2>2
<1> QED BY <1>3, <1>4, <1>7, <1>8

\* An edit of a row of the target, as the paths of EXCEPT write it.
Edit(row, sizes, recipe, mine, early) ==
    [row EXCEPT !.sizes = sizes, !.recipe = recipe, !.mine = mine, !.edited = TRUE, !.early = early]

\* What an edit or a removal keeps of a row.
SameOrigin(old, new) ==
    /\ new.name = old.name /\ new.by = old.by /\ new.before = old.before
    /\ new.from = old.from /\ new.torn = old.torn

\* An administrator edits a product of the target.
LEMMA TargetEdited ==
  ASSUME TypeOK, SeqInv, RowInv, EditTarget
  PROVE  /\ UNCHANGED <<source, categories, items, pc, seen>>
         /\ \E i \in Here, row \in Rows :
              /\ target' = [target EXCEPT ![i] = row]
              /\ SameOrigin(target[i], row) /\ row.here = TRUE /\ row.edited = TRUE
              /\ Unfinished(i) => row.early = TRUE
              /\ row.mine \subseteq row.sizes /\ Every(row)
              /\ row.recipe \subseteq items \X (row.sizes \cup {None})
<1>1. PICK i \in Here :
        \E content \in WithSizes(target[i].recipe) \cup UNION {WithRecipe(z) : z \in SUBSET SizeNames},
           kept \in BOOLEAN :
          /\ kept => content \in WithRecipe(target[i].sizes)
          /\ {r[1] : r \in content.recipe} \subseteq items
          /\ target' = [target EXCEPT ![i].sizes = content.sizes, ![i].recipe = content.recipe,
                           ![i].mine = IF kept THEN @ ELSE {},
                           ![i].edited = TRUE, ![i].early = @ \/ Unfinished(i)]
  BY DEF EditTarget
<1>2. PICK content \in WithSizes(target[i].recipe) \cup UNION {WithRecipe(z) : z \in SUBSET SizeNames},
           kept \in BOOLEAN :
          /\ kept => content \in WithRecipe(target[i].sizes)
          /\ {r[1] : r \in content.recipe} \subseteq items
          /\ target' = [target EXCEPT ![i].sizes = content.sizes, ![i].recipe = content.recipe,
                           ![i].mine = IF kept THEN @ ELSE {},
                           ![i].edited = TRUE, ![i].early = @ \/ Unfinished(i)]
  BY <1>1
<1>3. i \in DOMAIN target /\ target[i] \in Rows /\ target[i].here = TRUE /\ target \in Seq(Rows)
  BY SeqRows DEF Here, Rows, SeqInv
<1> DEFINE mine  == IF kept THEN target[i].mine ELSE {}
           early == target[i].early \/ Unfinished(i)
           row   == Edit(target[i], content.sizes, content.recipe, mine, early)
<1>4. content \in Contents /\ Every(content)
  <2>1. target[i].recipe \in SUBSET RecipeRows
    BY <1>3 DEF Rows
  <2> QED BY <1>2, <2>1, EditedContents
<1>5. mine \in SUBSET SizeNames /\ mine \subseteq content.sizes
  <2>1. CASE kept
    <3>1. content.sizes = target[i].sizes
      BY <1>2, <2>1 DEF WithRecipe
    <3> QED BY <1>3, <1>4, <2>1, <3>1 DEF RowInv, RowFits, Contents
  <2> QED BY <2>1
<1>6. early \in BOOLEAN /\ (Unfinished(i) => early = TRUE)
  OBVIOUS
<1>7. target' = [target EXCEPT ![i].sizes = content.sizes, ![i].recipe = content.recipe,
                               ![i].mine = mine, ![i].edited = TRUE, ![i].early = early]
  BY <1>2, <1>3 DEF Rows
<1> HIDE DEF mine, early
<1>8. /\ target' = [target EXCEPT ![i] = row]
      /\ row \in Rows /\ row.sizes = content.sizes /\ row.recipe = content.recipe
      /\ row.mine = mine /\ row.edited = TRUE /\ row.early = early
      /\ SameOrigin(target[i], row) /\ row.here = target[i].here
  <2>1. row = Edit(target[i], content.sizes, content.recipe, mine, early)
    OBVIOUS
  <2> HIDE DEF row
  <2>2. /\ i \in DOMAIN target /\ content \in Contents /\ mine \in SUBSET SizeNames
        /\ early \in BOOLEAN
    BY <1>3, <1>4, <1>5, <1>6
  <2>3. /\ [target EXCEPT ![i].sizes = content.sizes, ![i].recipe = content.recipe,
                          ![i].mine = mine, ![i].edited = TRUE, ![i].early = early]
             = [target EXCEPT ![i] = row]
        /\ row \in Rows /\ row.sizes = content.sizes /\ row.recipe = content.recipe
        /\ row.mine = mine /\ row.edited = TRUE /\ row.early = early
        /\ row.name = target[i].name /\ row.by = target[i].by
        /\ row.before = target[i].before /\ row.from = target[i].from
        /\ row.torn = target[i].torn /\ row.here = target[i].here
    BY <1>3, <2>1, <2>2 DEF Edit, Rows, Contents
  <2>4. target' = [target EXCEPT ![i] = row]
    BY <1>7, <2>3, Zenon
  <2> QED BY <2>3, <2>4, Zenon DEF SameOrigin
<1> HIDE DEF row
<1>9. Every(row)
  BY <1>4, <1>8 DEF Every
<1>10. row.recipe \subseteq items \X (row.sizes \cup {None})
  <2>1. \A r \in content.recipe : r \in Items \X (content.sizes \cup {None})
    <3>1. CASE content \in WithSizes(target[i].recipe)
      BY <1>3, <3>1 DEF WithSizes, SizelessRecipe, Rows, RecipeRows
    <3>2. CASE content \in UNION {WithRecipe(z) : z \in SUBSET SizeNames}
      BY <3>2 DEF WithRecipe, Recipe
    <3> QED BY <1>2, <3>1, <3>2
  <2> QED BY <1>2, <1>8, <2>1
<1>11. UNCHANGED <<source, categories, items, pc, seen>>
  BY DEF EditTarget
<1> QED BY <1>3, <1>5, <1>6, <1>8, <1>9, <1>10, <1>11

\* An administrator removes a product of the target.
LEMMA ProductRemoved ==
  ASSUME SeqInv, RemoveProduct
  PROVE  /\ UNCHANGED <<source, categories, items, pc, seen>>
         /\ \E i \in Here, row \in Rows :
              /\ target' = [target EXCEPT ![i] = row]
              /\ SameOrigin(target[i], row) /\ row.here = FALSE
              /\ row.sizes = target[i].sizes /\ row.recipe = target[i].recipe
              /\ row.mine = target[i].mine /\ row.edited = target[i].edited
              /\ row.early = target[i].early
<1>1. PICK i \in Here : target' = [target EXCEPT ![i].here = FALSE]
  BY DEF RemoveProduct
<1> DEFINE row == [target[i] EXCEPT !.here = FALSE]
<1>2. i \in DOMAIN target /\ target[i] \in Rows
  BY SeqRows DEF Here
<1>3. /\ row \in Rows /\ SameOrigin(target[i], row) /\ row.here = FALSE
      /\ row.sizes = target[i].sizes /\ row.recipe = target[i].recipe
      /\ row.mine = target[i].mine /\ row.edited = target[i].edited
      /\ row.early = target[i].early
  BY <1>2 DEF Rows, SameOrigin
<1>4. target' = [target EXCEPT ![i] = row]
  BY <1>1
<1> HIDE DEF row
<1> QED BY <1>3, <1>4 DEF RemoveProduct

\* Calls that hold a deleted row have lost it.
LEMMA Losing ==
  ASSUME TypeOK, NEW deleted \in Items \cup Categories, NEW holders, Lose(deleted, holders), pc' = pc
  PROVE  /\ Elsewhere
         /\ \A c \in Calls :
              /\ seen'[c].torn = seen[c].torn
              /\ seen'[c].lost = seen[c].lost \cup (IF c \in holders THEN {deleted} ELSE {})
<1> DEFINE marked(c) == [seen[c] EXCEPT !.lost = @ \cup {deleted}]
<1>1. ASSUME NEW c \in Calls
      PROVE  /\ marked(c) \in Reads /\ marked(c).row = seen[c].row /\ marked(c).todo = seen[c].todo
             /\ marked(c).name = seen[c].name /\ marked(c).before = seen[c].before
             /\ marked(c).made = seen[c].made /\ marked(c).read = seen[c].read
             /\ marked(c).known = seen[c].known /\ marked(c).ready = seen[c].ready
             /\ marked(c).torn = seen[c].torn /\ marked(c).lost = seen[c].lost \cup {deleted}
  BY DEF TypeOK, Reads
<1>2. seen' = [c \in Calls |-> IF c \in holders THEN marked(c) ELSE seen[c]]
  BY DEF Lose
<1> HIDE DEF marked
<1> QED BY <1>1, <1>2 DEF Elsewhere, Typed, SameName, TypeOK

\* An administrator removes a stock item that no recipe uses.
LEMMA ItemRemoved ==
  ASSUME TypeOK, RemoveItem
  PROVE  /\ Elsewhere /\ UNCHANGED <<source, target, categories>>
         /\ \E item \in items :
              /\ items' = items \ {item}
              /\ \A i \in Here : \A r \in target[i].recipe : r[1] # item
              /\ \A c \in Calls :
                   /\ seen'[c].torn = seen[c].torn /\ seen[c].lost \subseteq seen'[c].lost
                   /\ item \in seen[c].ready => item \in seen'[c].lost
<1>1. PICK item \in items :
         /\ \A i \in Here, r \in RecipeRows : r \in target[i].recipe => r[1] # item
         /\ items' = items \ {item}
         /\ Lose(item, {c \in Calls : item \in seen[c].ready})
  BY DEF RemoveItem
<1>2. item \in Items \cup Categories
  BY DEF TypeOK
<1>3. UNCHANGED <<source, target, categories, pc>>
  BY DEF RemoveItem
<1>4. \A i \in Here : target[i].recipe \subseteq RecipeRows
  BY DEF TypeOK, Here, Rows
<1>5. \A i \in Here : \A r \in target[i].recipe : r[1] # item
  BY <1>1, <1>4
<1> QED BY <1>1, <1>2, <1>3, <1>5, Losing

\* An administrator removes an empty category.
LEMMA CategoryRemoved ==
  ASSUME TypeOK, RemoveCategory
  PROVE  /\ Elsewhere /\ UNCHANGED <<source, target, items>>
         /\ \E category \in categories :
              /\ categories' = categories \ {category}
              /\ \A i \in Here : CategoryOf[target[i].name] # category
              /\ \A c \in Calls :
                   /\ seen'[c].torn = seen[c].torn /\ seen[c].lost \subseteq seen'[c].lost
                   /\ category \in seen[c].known => category \in seen'[c].lost
<1>1. PICK category \in categories :
         /\ \A i \in Here : CategoryOf[target[i].name] # category
         /\ categories' = categories \ {category}
         /\ Lose(category, {c \in Calls : category \in seen[c].known})
  BY DEF RemoveCategory
<1>2. category \in Items \cup Categories
  BY DEF TypeOK
<1>3. UNCHANGED <<source, target, items, pc>>
  BY DEF RemoveCategory
<1> QED BY <1>1, <1>2, <1>3, Losing

-----------------------------------------------------------------------------
(* Types, rows and what rows refer to.                                      *)

\* Every step leaves the locals and the other tables typed.
LEMMA StepTypes ==
  ASSUME IInv, Next
  PROVE  /\ Typed /\ source' \in [Names -> Stored]
         /\ categories' \subseteq Categories /\ items' \subseteq Items
<1>0. /\ TypeOK /\ SeqInv /\ ReadInv /\ HoldInv /\ FillInv /\ RowInv
      /\ source \in [Names -> Stored] /\ categories \subseteq Categories /\ items \subseteq Items
      /\ pc \in [Calls -> Steps] /\ seen \in [Calls -> Reads]
  BY DEF IInv, TypeOK
<1>1. ASSUME NEW c \in Calls, Copy(c)
      PROVE  /\ Typed /\ UNCHANGED source
             /\ categories' \subseteq Categories /\ items' \subseteq Items
  <2>1. CASE ReadProducts(c) \/ ReadRecipes(c) \/ ReadNames(c) \/ TakeNext(c) \/ Fail(c)
    <3>1. Typed /\ UNCHANGED tables
      BY <1>0, <2>1, ProductsRead, RecipesRead, NamesRead, NextTaken, Failed
    <3> QED BY <1>0, <3>1 DEF tables
  <2>2. CASE EnsureCategory(c)
    BY <1>0, <2>2, CategoryEnsured
  <2>3. CASE CreateProduct(c) \/ CreateSize(c) \/ CreateRecipe(c)
    BY <1>0, <2>3, ProductCreated, SizeCreated, RecipeCreated
  <2>4. CASE EnsureItem(c)
    BY <1>0, <2>4, ItemEnsured
  <2> QED BY <1>1, <2>1, <2>2, <2>3, <2>4 DEF Copy
<1>2. CASE EditSource
  BY <1>0, <1>2, SourceEdited DEF Elsewhere
<1>3. CASE EditTarget \/ RemoveProduct
  BY <1>0, <1>3, TargetEdited, ProductRemoved DEF Typed
<1>4. CASE RemoveItem \/ RemoveCategory
  BY <1>0, <1>4, ItemRemoved, CategoryRemoved DEF Elsewhere
<1>5. CASE Ended
  BY <1>0, <1>5 DEF Ended, vars, Typed
<1> QED BY <1>0, <1>1, <1>2, <1>3, <1>4, <1>5 DEF Next

\* Administrators act no more often than MaxActs.
LEMMA ActsKept == ASSUME TypeOK, Next PROVE acts' \in 0 .. MaxActs
<1>0. acts \in 0 .. MaxActs /\ MaxActs \in Nat
  BY CatalogAssumption DEF TypeOK
<1>1. CASE EditSource \/ EditTarget \/ RemoveProduct \/ RemoveItem \/ RemoveCategory
  <2>1. Act
    BY <1>1 DEF EditSource, EditTarget, RemoveProduct, RemoveItem, RemoveCategory
  <2> QED BY <1>0, <2>1 DEF Act
<1>2. ASSUME NEW c \in Calls, Copy(c) PROVE acts' = acts
  BY <1>2 DEF Copy, ReadProducts, ReadRecipes, ReadNames, TakeNext, EnsureCategory, CreateProduct,
              CreateSize, EnsureItem, CreateRecipe, Fail
<1> QED BY <1>0, <1>1, <1>2 DEF Next, Ended, vars

\* The rows after a statement of a call.
LEMMA RowsAfter ==
  ASSUME IInv, NEW c \in Calls, Copy(c)
  PROVE  \/ UNCHANGED target
         \/ NewRow(c) \in Rows /\ target' = Append(target, NewRow(c))
         \/ /\ seen[c].row \in DOMAIN target /\ target[seen[c].row].by = c
            /\ \E row \in Rows : /\ target' = [target EXCEPT ![seen[c].row] = row]
                                 /\ SameOrigin(target[seen[c].row], row)
                                 /\ row.here = target[seen[c].row].here
<1>0. TypeOK /\ SeqInv /\ HoldInv /\ FillInv
  BY DEF IInv
<1>1. CASE CreateProduct(c)
  BY <1>0, <1>1, ProductCreated
<1>2. CASE CreateSize(c)
  <2>1. CASE UNCHANGED target
    BY <2>1
  <2>2. ASSUME NEW s \in SizeNames, WithSize(target[seen[c].row], s) \in Rows,
               target' = [target EXCEPT ![seen[c].row] = WithSize(target[seen[c].row], s)]
        PROVE  \E row \in Rows : /\ target' = [target EXCEPT ![seen[c].row] = row]
                                 /\ SameOrigin(target[seen[c].row], row)
                                 /\ row.here = target[seen[c].row].here
    <3>1. target[seen[c].row] \in Rows
      BY <1>0, <1>2, SizeCreated, SeqRows
    <3>2. /\ SameOrigin(target[seen[c].row], WithSize(target[seen[c].row], s))
          /\ WithSize(target[seen[c].row], s).here = target[seen[c].row].here
      BY <3>1 DEF SameOrigin, WithSize, Rows
    <3> QED BY <2>2, <3>2
  <2>3. target[seen[c].row].by = c
    BY <1>0, <1>2 DEF CreateSize, FillInv, FillFits, Filling
  <2> QED BY <1>0, <1>2, <2>1, <2>2, <2>3, SizeCreated
<1>3. CASE CreateRecipe(c)
  <2>1. /\ seen[c].row \in DOMAIN target /\ Completed(c) \in Rows
        /\ target' = [target EXCEPT ![seen[c].row] = Completed(c)]
    BY <1>0, <1>3, RecipeCreated
  <2>2. /\ SameOrigin(target[seen[c].row], Completed(c))
        /\ Completed(c).here = target[seen[c].row].here
    BY <1>0, <2>1, SeqRows DEF SameOrigin, Completed, Rows
  <2>3. target[seen[c].row].by = c
    BY <1>0, <1>3 DEF CreateRecipe, FillInv, FillFits, Filling
  <2> QED BY <2>1, <2>2, <2>3
<1>4. CASE ~(CreateProduct(c) \/ CreateSize(c) \/ CreateRecipe(c))
  BY <1>4 DEF Copy, ReadProducts, ReadRecipes, ReadNames, TakeNext, EnsureCategory, EnsureItem, Fail, tables
<1> QED BY <1>1, <1>2, <1>3, <1>4

\* Every step leaves the target a sequence of rows.
LEMMA SeqKept == ASSUME IInv, Next PROVE SeqInv'
<1>0. TypeOK /\ SeqInv /\ RowInv
  BY DEF IInv
<1>1. ASSUME NEW c \in Calls, Copy(c) PROVE SeqInv'
  BY <1>0, <1>1, RowsAfter, Appended, Altered DEF SeqInv
<1>2. CASE EditTarget \/ RemoveProduct
  <2>1. PICK i \in Here, row \in Rows : target' = [target EXCEPT ![i] = row]
    BY <1>0, <1>2, TargetEdited, ProductRemoved
  <2> QED BY <1>0, <2>1, Altered DEF Here, SeqInv
<1>3. CASE UNCHANGED target
  BY <1>0, <1>3 DEF SeqInv
<1> QED BY <1>1, <1>2, <1>3 DEF Next, EditSource, RemoveItem, RemoveCategory, Ended, vars

\* What rows refer to stays there.
LEMMA ReferKept == ASSUME IInv, Next PROVE ReferInv'
<1>0. TypeOK /\ SeqInv /\ HoldInv /\ FillInv /\ RowInv /\ ReferInv
  BY DEF IInv, TypeOK, ReferInv, References, Here
<1>1. CASE UNCHANGED target /\ categories \subseteq categories' /\ items \subseteq items'
  BY <1>0, <1>1 DEF ReferInv, References
<1>2. ASSUME NEW c \in Calls, CreateProduct(c) PROVE ReferInv'
  <2>1. /\ NewRow(c) \in Rows /\ target' = Append(target, NewRow(c))
        /\ CategoryOf[seen[c].name] \in categories /\ UNCHANGED <<categories, items>>
    BY <1>0, <1>2, ProductCreated
  <2>2. CategoryOf[NewRow(c).name] \in categories /\ NewRow(c).recipe = {}
    BY <2>1 DEF NewRow
  <2>3. /\ DOMAIN target' = DOMAIN target \cup {Len(target) + 1}
        /\ \A i \in DOMAIN target : target'[i] = target[i]
        /\ target'[Len(target) + 1] = NewRow(c)
    BY <1>0, <2>1, Appended
  <2>4. ASSUME NEW i \in DOMAIN target'
        PROVE  target'[i].here => /\ CategoryOf[target'[i].name] \in categories
                                  /\ target'[i].recipe \subseteq items \X (target'[i].sizes \cup {None})
    BY <1>0, <2>2, <2>3 DEF ReferInv, References
  <2> QED BY <2>1, <2>4 DEF ReferInv, References
<1>3. ASSUME NEW i \in DOMAIN target, NEW row \in Rows, target' = [target EXCEPT ![i] = row],
             UNCHANGED <<categories, items>>, References(row)
      PROVE  ReferInv'
  <2>1. /\ DOMAIN target' = DOMAIN target /\ target'[i] = row
        /\ \A j \in DOMAIN target : j # i => target'[j] = target[j]
    BY <1>0, <1>3, Altered
  <2> QED BY <1>0, <1>3, <2>1 DEF ReferInv, References
<1>4. ASSUME NEW c \in Calls, CreateSize(c) PROVE ReferInv'
  <2>1. seen[c].row \in DOMAIN target /\ UNCHANGED <<categories, items>>
    BY <1>0, <1>4, SizeCreated
  <2>2. CASE UNCHANGED target
    BY <1>1, <2>1, <2>2
  <2>3. ASSUME NEW s \in SizeNames, WithSize(target[seen[c].row], s) \in Rows
        PROVE  References(WithSize(target[seen[c].row], s))
    <3>1. References(target[seen[c].row]) /\ target[seen[c].row] \in Rows
      BY <1>0, <2>1, SeqRows DEF ReferInv
    <3>2. /\ WithSize(target[seen[c].row], s).here = target[seen[c].row].here
          /\ WithSize(target[seen[c].row], s).name = target[seen[c].row].name
          /\ WithSize(target[seen[c].row], s).recipe = target[seen[c].row].recipe
          /\ WithSize(target[seen[c].row], s).sizes = target[seen[c].row].sizes \cup {s}
      BY <3>1 DEF WithSize, Rows
    <3> QED BY <3>1, <3>2 DEF References
  <2> QED BY <1>0, <1>3, <1>4, <2>1, <2>2, <2>3, SizeCreated
<1>5. ASSUME NEW c \in Calls, CreateRecipe(c) PROVE ReferInv'
  <2>1. /\ seen[c].row \in DOMAIN target /\ UNCHANGED <<categories, items>>
        /\ New(c) \in SUBSET RecipeRows /\ Completed(c) \in Rows
        /\ target' = [target EXCEPT ![seen[c].row] = Completed(c)]
        /\ \A r \in New(c) : r[1] \in items /\ r[2] \in target[seen[c].row].mine \cup {None}
    BY <1>0, <1>5, RecipeCreated
  <2>2. References(target[seen[c].row]) /\ target[seen[c].row] \in Rows
        /\ target[seen[c].row].mine \subseteq target[seen[c].row].sizes
    BY <1>0, <2>1, SeqRows DEF ReferInv, RowInv, RowFits
  <2>3. \A r \in New(c) : r \in items \X (target[seen[c].row].sizes \cup {None})
    BY <2>1, <2>2 DEF RecipeRows
  <2>4. /\ Completed(c).here = target[seen[c].row].here
        /\ Completed(c).name = target[seen[c].row].name
        /\ Completed(c).recipe = target[seen[c].row].recipe \cup New(c)
        /\ Completed(c).sizes = target[seen[c].row].sizes
    BY <2>2 DEF Completed, Rows
  <2>5. References(Completed(c))
    BY <2>2, <2>3, <2>4 DEF References
  <2> QED BY <1>3, <2>1, <2>5
<1>6. CASE EditTarget
  <2>1. UNCHANGED <<categories, items>>
    BY <1>6 DEF EditTarget
  <2>2. PICK i \in Here, row \in Rows :
          /\ target' = [target EXCEPT ![i] = row] /\ row.name = target[i].name
          /\ row.recipe \subseteq items \X (row.sizes \cup {None})
    BY <1>0, <1>6, TargetEdited DEF SameOrigin
  <2>3. References(row) /\ i \in DOMAIN target
    BY <1>0, <2>2 DEF References, ReferInv, Here
  <2> QED BY <1>3, <2>1, <2>2, <2>3
<1>7. CASE RemoveProduct
  <2>1. UNCHANGED <<categories, items>>
    BY <1>7 DEF RemoveProduct
  <2>2. PICK i \in Here, row \in Rows : target' = [target EXCEPT ![i] = row] /\ row.here = FALSE
    BY <1>0, <1>7, ProductRemoved
  <2> QED BY <1>3, <2>1, <2>2 DEF References, Here
<1>8. CASE RemoveItem
  <2>1. PICK item \in items : /\ items' = items \ {item}
                              /\ \A i \in Here : \A r \in target[i].recipe : r[1] # item
    BY <1>0, <1>8, ItemRemoved
  <2>2. UNCHANGED <<target, categories>>
    BY <1>8 DEF RemoveItem
  <2>3. ASSUME NEW i \in DOMAIN target, target[i].here
        PROVE  target[i].recipe \subseteq items' \X (target[i].sizes \cup {None})
    <3>1. target[i].recipe \subseteq items \X (target[i].sizes \cup {None})
      BY <1>0, <2>3 DEF ReferInv, References
    <3>2. \A r \in target[i].recipe : r[1] # item
      BY <2>1, <2>3 DEF Here
    <3> QED BY <2>1, <3>1, <3>2
  <2> QED BY <1>0, <2>2, <2>3 DEF ReferInv, References
<1>9. CASE RemoveCategory
  <2>1. PICK category \in categories : /\ categories' = categories \ {category}
                                       /\ \A i \in Here : CategoryOf[target[i].name] # category
    BY <1>0, <1>9, CategoryRemoved
  <2>2. UNCHANGED <<target, items>>
    BY <1>9 DEF RemoveCategory
  <2> QED BY <1>0, <2>1, <2>2 DEF ReferInv, References, Here
<1>10. ASSUME NEW c \in Calls, Copy(c), ~CreateProduct(c), ~CreateSize(c), ~CreateRecipe(c)
       PROVE  UNCHANGED target /\ categories \subseteq categories' /\ items \subseteq items'
  BY <1>10 DEF Copy, ReadProducts, ReadRecipes, ReadNames, TakeNext, EnsureCategory, EnsureItem, Fail, tables
<1>11. CASE EditSource \/ Ended
  BY <1>1, <1>11 DEF EditSource, Ended, vars
<1> QED BY <1>1, <1>2, <1>4, <1>5, <1>6, <1>7, <1>8, <1>9, <1>10, <1>11 DEF Next

\* TypeOK is kept.
LEMMA TypesKept == ASSUME IInv, Next PROVE TypeOK'
<1>1. SeqInv' => \A i \in DOMAIN target' : target'[i] \in Rows
  BY DEF SeqInv
<1>2. ReferInv' =>
        \A i \in Here' : /\ CategoryOf[target'[i].name] \in categories'
                         /\ target'[i].recipe \subseteq items' \X (target'[i].sizes \cup {None})
  BY DEF ReferInv, References, Here
<1> QED BY <1>1, <1>2, StepTypes, ActsKept, SeqKept, ReferKept DEF IInv, TypeOK, Typed

-----------------------------------------------------------------------------
(* What the calls know.                                                     *)

\* What a call has read, and nobody marked as edited, stays.
LEMMA StillRead ==
  ASSUME NEW c \in Calls, ReadFits(c), seen'[c].read = seen[c].read, seen'[c].torn = seen[c].torn,
         pc'[c] \in {"names", "next"} \cup Busy => pc[c] \in {"names", "next"} \cup Busy,
         pc'[c] = "recipes" => pc[c] = "recipes" /\ seen'[c].todo = seen[c].todo /\ UNCHANGED source
  PROVE  ReadFits(c)'
BY DEF ReadFits

\* ReadInv is kept.
LEMMA ReadKept == ASSUME IInv, Next PROVE ReadInv'
<1>0. TypeOK /\ SeqInv /\ ReadInv /\ HoldInv /\ FillInv /\ RowInv
  BY DEF IInv
<1>1. ASSUME NEW c \in Calls, Copy(c) PROVE ReadInv'
  <2>1. Alone(c) /\ UNCHANGED source
    BY <1>0, <1>1, ProductsRead, RecipesRead, NamesRead, NextTaken, CategoryEnsured, ProductCreated,
       SizeCreated, ItemEnsured, RecipeCreated, Failed DEF Copy, tables
  <2>2. ASSUME NEW d \in Calls, d # c PROVE ReadFits(d)'
    BY <1>0, <2>1, <2>2 DEF Alone, ReadInv, ReadFits
  <2>3. ReadFits(c)'
    <3>1. CASE ReadProducts(c)
      <4>1. pc'[c] = "recipes" /\ \A n \in seen'[c].todo : seen'[c].read[n].sizes = source[n].sizes
        BY <1>0, <3>1, ProductsRead
      <4> QED BY <2>1, <4>1 DEF ReadFits, Busy, Filling
    <3>2. CASE ReadRecipes(c)
      BY <1>0, <3>2, RecipesRead DEF ReadFits
    <3>3. CASE Fail(c)
      <4>1. pc'[c] = "failed"
        BY <1>0, <3>3, Failed
      <4> QED BY <4>1 DEF ReadFits, Busy, Filling
    <3>4. CASE SameRead(c) /\ pc[c] \in {"names", "next"} \cup Busy /\ pc'[c] # "recipes"
      BY <1>0, <3>4, StillRead DEF SameRead, ReadInv
    <3>5. CASE ReadNames(c)
      BY <1>0, <3>4, <3>5, NamesRead DEF SameRead
    <3>6. CASE TakeNext(c)
      BY <1>0, <3>4, <3>6, NextTaken
    <3>7. CASE EnsureCategory(c)
      BY <1>0, <3>4, <3>7, CategoryEnsured DEF Busy
    <3>8. CASE CreateProduct(c)
      BY <1>0, <3>4, <3>8, ProductCreated DEF Busy
    <3>9. CASE CreateSize(c)
      BY <1>0, <3>4, <3>9, SizeCreated DEF Busy, Filling
    <3>10. CASE EnsureItem(c)
      BY <1>0, <3>4, <3>10, ItemEnsured DEF Busy, Filling
    <3>11. CASE CreateRecipe(c)
      BY <1>0, <3>4, <3>11, RecipeCreated DEF Busy, Filling
    <3> QED BY <1>1, <3>1, <3>2, <3>3, <3>5, <3>6, <3>7, <3>8, <3>9, <3>10, <3>11 DEF Copy
  <2> QED BY <2>2, <2>3 DEF ReadInv
<1>2. CASE EditSource
  <2>1. ASSUME NEW c \in Calls PROVE ReadFits(c)'
    <3>1. /\ pc'[c] = pc[c] /\ seen'[c].read = seen[c].read /\ seen'[c].todo = seen[c].todo
          /\ seen[c].torn \subseteq seen'[c].torn
          /\ pc[c] = "recipes" => \A n \in seen[c].todo \ seen'[c].torn : source'[n] = source[n]
      BY <1>0, <1>2, SourceEdited DEF Elsewhere, SameName
    <3>2. CASE pc[c] = "recipes"
      <4>1. pc'[c] \notin {"names", "next"} \cup Busy
        BY <3>1, <3>2 DEF Busy, Filling
      <4> QED BY <1>0, <3>1, <3>2, <4>1 DEF ReadInv, ReadFits
    <3>3. CASE pc[c] # "recipes"
      <4>1. seen'[c].torn = seen[c].torn
        BY <1>0, <1>2, <3>3, SourceEdited
      <4> QED BY <1>0, <3>1, <3>3, <4>1, StillRead DEF ReadInv
    <3> QED BY <3>2, <3>3
  <2> QED BY <2>1 DEF ReadInv
<1>3. CASE RemoveItem \/ RemoveCategory
  <2>1. Elsewhere /\ UNCHANGED source /\ \A c \in Calls : seen'[c].torn = seen[c].torn
    BY <1>0, <1>3, ItemRemoved, CategoryRemoved
  <2> QED BY <1>0, <2>1, StillRead DEF ReadInv, Elsewhere, SameName
<1>4. CASE UNCHANGED <<source, pc, seen>>
  BY <1>0, <1>4 DEF ReadInv, ReadFits
<1> QED BY <1>1, <1>2, <1>3, <1>4 DEF Next, EditTarget, RemoveProduct, Ended, vars

\* HoldInv is kept.
LEMMA HoldKept == ASSUME IInv, Next PROVE HoldInv'
<1>0. TypeOK /\ SeqInv /\ ReadInv /\ HoldInv /\ FillInv /\ RowInv
  BY DEF IInv
<1>1. ASSUME NEW c \in Calls, Copy(c) PROVE HoldInv'
  <2>1. Alone(c) /\ categories \subseteq categories' /\ items \subseteq items'
    <3>1. CASE ReadProducts(c) \/ ReadRecipes(c) \/ ReadNames(c) \/ TakeNext(c) \/ Fail(c)
      BY <1>0, <3>1, ProductsRead, RecipesRead, NamesRead, NextTaken, Failed DEF tables
    <3>2. CASE EnsureCategory(c) \/ CreateProduct(c) \/ CreateSize(c)
      BY <1>0, <3>2, CategoryEnsured, ProductCreated, SizeCreated
    <3>3. CASE EnsureItem(c) \/ CreateRecipe(c)
      BY <1>0, <3>3, ItemEnsured, RecipeCreated
    <3> QED BY <1>1, <3>1, <3>2, <3>3 DEF Copy
  <2>2. ASSUME NEW d \in Calls, d # c PROVE HoldFits(d)'
    BY <1>0, <2>1, <2>2 DEF Alone, HoldInv, HoldFits
  <2>3. HoldFits(c)'
    <3>0. HoldFits(c)
      BY <1>0 DEF HoldInv
    <3>1. CASE ReadProducts(c)
      <4>1. pc'[c] = "recipes" /\ seen'[c].known = {} /\ seen'[c].ready = {}
        BY <1>0, <3>1, ProductsRead
      <4> QED BY <4>1 DEF HoldFits, Busy, Filling
    <3>2. CASE Fail(c)
      <4>1. pc'[c] = "failed" /\ seen'[c].known = {} /\ seen'[c].ready = {}
        BY <1>0, <3>2, Failed
      <4> QED BY <4>1 DEF HoldFits, Busy, Filling
    <3>3. CASE SameHold(c) /\ pc'[c] \notin Busy
      BY <2>1, <3>0, <3>3 DEF SameHold, HoldFits, Busy, Filling
    <3>4. CASE ReadRecipes(c) \/ ReadNames(c) \/ CreateRecipe(c)
      BY <1>0, <3>3, <3>4, RecipesRead, NamesRead, RecipeCreated DEF SameHold, Busy, Filling
    <3>5. CASE TakeNext(c)
      <4>1. SameHold(c) /\ UNCHANGED <<categories, items>>
        BY <1>0, <3>5, NextTaken DEF tables
      <4>2. CASE pc'[c] = "done"
        BY <3>3, <4>1, <4>2 DEF Busy, Filling
      <4>3. ASSUME NEW n \in Names, seen'[c].name = n, pc'[c] \in {"category", "product"},
                   pc'[c] = "product" => CategoryOf[n] \in seen[c].known
            PROVE  HoldFits(c)'
        BY <3>0, <4>1, <4>3 DEF SameHold, HoldFits
      <4> QED BY <1>0, <3>5, <4>2, <4>3, NextTaken
    <3>6. CASE EnsureCategory(c)
      <4>1. /\ pc[c] = "category" /\ pc'[c] = "product" /\ items' = items
            /\ categories' = categories \cup {CategoryOf[seen[c].name]}
            /\ seen'[c].known = seen[c].known \cup {CategoryOf[seen[c].name]}
            /\ seen'[c].ready = seen[c].ready /\ seen'[c].lost = seen[c].lost
            /\ seen'[c].name = seen[c].name
        BY <1>0, <3>6, CategoryEnsured DEF SameName
      <4> QED BY <3>0, <4>1 DEF HoldFits, Busy
    <3>7. CASE CreateProduct(c)
      <4>1. /\ pc[c] = "product" /\ pc'[c] = "sizes" /\ UNCHANGED <<categories, items>>
            /\ seen'[c].known = seen[c].known /\ seen'[c].lost = seen[c].lost \ Items
            /\ seen'[c].name = seen[c].name /\ seen'[c].ready = {}
        BY <1>0, <3>7, ProductCreated DEF SameName
      <4>2. \A x \in seen[c].known : x \notin Items
        BY <1>0, CatalogAssumption DEF TypeOK, Reads, Categories
      <4> QED BY <3>0, <4>1, <4>2 DEF HoldFits, Busy, Filling
    <3>8. CASE CreateSize(c)
      <4>1. /\ pc[c] = "sizes" /\ pc'[c] \in {"sizes", "item"} /\ UNCHANGED <<categories, items>>
            /\ SameHold(c) /\ seen'[c].name = seen[c].name
        BY <1>0, <3>8, SizeCreated DEF SameName
      <4> QED BY <3>0, <4>1 DEF SameHold, HoldFits, Busy, Filling
    <3>9. CASE EnsureItem(c)
      <4>1. /\ pc[c] = "item" /\ categories' = categories
            /\ seen'[c].known = seen[c].known /\ seen'[c].lost = seen[c].lost
            /\ seen'[c].name = seen[c].name /\ seen'[c].read = seen[c].read
        BY <1>0, <3>9, ItemEnsured DEF SameName, SameRead
      <4>2. CASE /\ pc'[c] = "recipe" /\ UNCHANGED items /\ seen'[c].ready = seen[c].ready
                 /\ \A r \in seen[c].read[seen[c].name].recipe : r[1] \in seen[c].ready
        BY <3>0, <4>1, <4>2 DEF HoldFits, Busy, Filling
      <4>3. ASSUME NEW i \in Items, items' = items \cup {i}, pc'[c] = "item",
                   seen'[c].ready = seen[c].ready \cup {i}
            PROVE  HoldFits(c)'
        BY <3>0, <4>1, <4>3 DEF HoldFits, Busy, Filling
      <4> QED BY <1>0, <3>9, <4>2, <4>3, ItemEnsured
    <3> QED BY <1>1, <3>1, <3>2, <3>4, <3>5, <3>6, <3>7, <3>8, <3>9 DEF Copy
  <2> QED BY <2>2, <2>3 DEF HoldInv
<1>2. CASE EditSource
  <2>1. /\ Elsewhere /\ UNCHANGED <<categories, items>>
        /\ \A c \in Calls : seen'[c].lost = seen[c].lost
    BY <1>0, <1>2, SourceEdited
  <2> QED BY <1>0, <2>1 DEF HoldInv, HoldFits, Elsewhere, SameName
<1>3. CASE RemoveItem
  <2>1. Elsewhere /\ UNCHANGED categories
    BY <1>0, <1>3, ItemRemoved
  <2>2. PICK item \in items :
          /\ items' = items \ {item}
          /\ \A c \in Calls : /\ seen[c].lost \subseteq seen'[c].lost
                              /\ item \in seen[c].ready => item \in seen'[c].lost
    BY <1>0, <1>3, ItemRemoved
  <2> QED BY <1>0, <2>1, <2>2 DEF HoldInv, HoldFits, Elsewhere, SameName
<1>4. CASE RemoveCategory
  <2>1. Elsewhere /\ UNCHANGED items
    BY <1>0, <1>4, CategoryRemoved
  <2>2. PICK category \in categories :
          /\ categories' = categories \ {category}
          /\ \A c \in Calls : /\ seen[c].lost \subseteq seen'[c].lost
                              /\ category \in seen[c].known => category \in seen'[c].lost
    BY <1>0, <1>4, CategoryRemoved
  <2> QED BY <1>0, <2>1, <2>2 DEF HoldInv, HoldFits, Elsewhere, SameName
<1>5. CASE UNCHANGED <<categories, items, pc, seen>>
  BY <1>0, <1>5 DEF HoldInv, HoldFits
<1> QED BY <1>1, <1>2, <1>3, <1>4, <1>5 DEF Next, EditTarget, RemoveProduct, Ended, vars

-----------------------------------------------------------------------------
(* What the calls fill, and the names they take.                            *)

\* A statement of a call leaves the rows of the others alone, and of its own where they
\* came from.
LEMMA RowsStay ==
  ASSUME IInv, NEW c \in Calls, Copy(c), NEW i \in DOMAIN target
  PROVE  /\ i \in DOMAIN target' /\ SameOrigin(target[i], target'[i])
         /\ target'[i].here = target[i].here
         /\ target[i].by # c => target'[i] = target[i]
         /\ Len(target) <= Len(target') /\ Len(target) \in Nat /\ Len(target') \in Nat
<1>0. SeqInv
  BY DEF IInv
<1>1. Len(target) \in Nat
  BY <1>0, SeqRows
<1>2. CASE UNCHANGED target
  BY <1>1, <1>2 DEF SameOrigin
<1>3. CASE NewRow(c) \in Rows /\ target' = Append(target, NewRow(c))
  BY <1>0, <1>1, <1>3, Appended DEF SameOrigin
<1>4. ASSUME NEW row \in Rows, seen[c].row \in DOMAIN target, target[seen[c].row].by = c,
             target' = [target EXCEPT ![seen[c].row] = row],
             SameOrigin(target[seen[c].row], row), row.here = target[seen[c].row].here
      PROVE  /\ i \in DOMAIN target' /\ SameOrigin(target[i], target'[i])
             /\ target'[i].here = target[i].here
             /\ target[i].by # c => target'[i] = target[i]
             /\ Len(target) <= Len(target') /\ Len(target) \in Nat /\ Len(target') \in Nat
  BY <1>0, <1>1, <1>4, Altered DEF SameOrigin
<1> QED BY <1>2, <1>3, <1>4, RowsAfter

\* A row of the target is edited or removed.
LEMMA RowTouched ==
  ASSUME TypeOK, SeqInv, RowInv, EditTarget \/ RemoveProduct
  PROVE  /\ UNCHANGED <<pc, seen>> /\ DOMAIN target' = DOMAIN target /\ Len(target') = Len(target)
         /\ \A i \in DOMAIN target :
              /\ SameOrigin(target[i], target'[i])
              /\ target'[i].here => target[i].here
              /\ \/ target'[i] = target[i]
                 \/ target'[i].edited = TRUE
                 \/ target'[i].edited = target[i].edited /\ target'[i].sizes = target[i].sizes
<1>1. UNCHANGED <<pc, seen>>
  BY DEF EditTarget, RemoveProduct
<1>2. PICK i \in Here, row \in Rows :
        /\ target' = [target EXCEPT ![i] = row] /\ SameOrigin(target[i], row)
        /\ \/ row.edited = TRUE
           \/ row.edited = target[i].edited /\ row.sizes = target[i].sizes
  <2>1. CASE EditTarget
    BY <2>1, TargetEdited
  <2>2. CASE RemoveProduct
    BY <2>2, ProductRemoved
  <2> QED BY <2>1, <2>2
<1>3. i \in DOMAIN target /\ target[i].here
  BY DEF Here
<1> QED BY <1>1, <1>2, <1>3, Altered DEF SameOrigin

\* FillInv is kept.
LEMMA FillKept == ASSUME IInv, Next PROVE FillInv'
<1>0. TypeOK /\ SeqInv /\ ReadInv /\ HoldInv /\ FillInv /\ RowInv
  BY DEF IInv
<1>1. ASSUME NEW c \in Calls, Copy(c) PROVE FillInv'
  <2>1. Alone(c)
    BY <1>0, <1>1, ProductsRead, RecipesRead, NamesRead, NextTaken, CategoryEnsured, ProductCreated,
       SizeCreated, ItemEnsured, RecipeCreated, Failed DEF Copy
  <2>2. ASSUME NEW d \in Calls, d # c PROVE FillFits(d)'
    <3>1. pc'[d] = pc[d] /\ seen'[d] = seen[d] /\ FillFits(d)
      BY <1>0, <2>1, <2>2 DEF Alone, FillInv
    <3>2. pc[d] \in Filling =>
            seen[d].row \in DOMAIN target' /\ target'[seen[d].row] = target[seen[d].row]
      BY <1>1, <2>2, <3>1, RowsStay DEF FillFits
    <3> QED BY <3>1, <3>2 DEF FillFits, Filling
  <2>3. FillFits(c)'
    <3>0. FillFits(c)
      BY <1>0 DEF FillInv
    <3>1. CASE ReadProducts(c)
      <4>1. pc'[c] = "recipes" /\ seen'[c].row = 0
        BY <1>0, <3>1, ProductsRead
      <4> QED BY <4>1 DEF FillFits, Filling
    <3>2. CASE Fail(c)
      <4>1. pc'[c] = "failed"
        BY <1>0, <3>2, Failed
      <4> QED BY <4>1 DEF FillFits, Filling
    <3>3. CASE /\ pc[c] \notin Filling \cup {"failed"} /\ pc'[c] \notin Filling
               /\ seen'[c].row = seen[c].row
      BY <3>0, <3>3 DEF FillFits, Filling
    <3>4. CASE ReadRecipes(c) \/ ReadNames(c) \/ TakeNext(c) \/ EnsureCategory(c)
      <4>1. /\ pc[c] \in {"recipes", "names", "next", "category"}
            /\ pc'[c] \in {"names", "next", "category", "product", "done"}
            /\ seen'[c].row = seen[c].row
        BY <1>0, <3>4, RecipesRead, NamesRead, NextTaken, CategoryEnsured
      <4> QED BY <3>3, <4>1 DEF Filling
    <3>5. CASE CreateProduct(c)
      <4>1. /\ pc'[c] = "sizes" /\ seen'[c].row = Len(target) + 1 /\ seen'[c].made = {}
            /\ seen'[c].name = seen[c].name /\ seen'[c].read = seen[c].read
            /\ NewRow(c) \in Rows /\ target' = Append(target, NewRow(c))
        BY <1>0, <3>5, ProductCreated DEF SameName, SameRead
      <4>2. Len(target) + 1 \in DOMAIN target' /\ target'[Len(target) + 1] = NewRow(c)
        BY <1>0, <4>1, Appended
      <4>3. /\ NewRow(c).by = c /\ NewRow(c).name = seen[c].name
            /\ NewRow(c).from = seen[c].read[seen[c].name] /\ NewRow(c).sizes = {}
        BY DEF NewRow
      <4> QED BY <4>1, <4>2, <4>3 DEF FillFits, Filling
    <3>6. CASE CreateSize(c)
      <4>1. /\ pc[c] = "sizes" /\ seen'[c].row = seen[c].row /\ seen'[c].name = seen[c].name
            /\ seen'[c].read = seen[c].read /\ seen[c].row \in DOMAIN target
        BY <1>0, <3>6, SizeCreated DEF SameName, SameRead
      <4>2. CASE /\ pc'[c] = "item" /\ UNCHANGED target /\ seen'[c].made = seen[c].made
                 /\ seen[c].read[seen[c].name].sizes \subseteq seen[c].made
        BY <3>0, <4>1, <4>2 DEF FillFits, Filling
      <4>3. ASSUME NEW s \in SizeNames, s \in seen[c].read[seen[c].name].sizes,
                   WithSize(target[seen[c].row], s) \in Rows,
                   target' = [target EXCEPT ![seen[c].row] = WithSize(target[seen[c].row], s)],
                   seen'[c].made = seen[c].made \cup {s}, pc'[c] = "sizes"
            PROVE  FillFits(c)'
        <5>1. /\ seen[c].row \in DOMAIN target'
              /\ target'[seen[c].row] = WithSize(target[seen[c].row], s)
          BY <1>0, <4>1, <4>3, Altered
        <5>2. target[seen[c].row] \in Rows
          BY <1>0, <4>1, SeqRows
        <5>3. /\ WithSize(target[seen[c].row], s).by = target[seen[c].row].by
              /\ WithSize(target[seen[c].row], s).name = target[seen[c].row].name
              /\ WithSize(target[seen[c].row], s).from = target[seen[c].row].from
              /\ WithSize(target[seen[c].row], s).edited = target[seen[c].row].edited
              /\ WithSize(target[seen[c].row], s).sizes = target[seen[c].row].sizes \cup {s}
          BY <5>2 DEF WithSize, Rows
        <5> QED BY <3>0, <4>1, <4>3, <5>1, <5>3 DEF FillFits, Filling
      <4> QED BY <1>0, <3>6, <4>2, <4>3, SizeCreated
    <3>7. CASE EnsureItem(c)
      <4>1. /\ pc[c] = "item" /\ pc'[c] \in {"item", "recipe"} /\ target' = target
            /\ seen'[c].row = seen[c].row /\ seen'[c].name = seen[c].name
            /\ seen'[c].made = seen[c].made /\ seen'[c].read = seen[c].read
        BY <1>0, <3>7, ItemEnsured DEF SameName, SameRead
      <4> QED BY <3>0, <4>1 DEF FillFits, Filling
    <3>8. CASE CreateRecipe(c)
      <4>1. pc'[c] = "next" /\ seen'[c].row = 0
        BY <1>0, <3>8, RecipeCreated
      <4> QED BY <4>1 DEF FillFits, Filling
    <3> QED BY <1>1, <3>1, <3>2, <3>4, <3>5, <3>6, <3>7, <3>8 DEF Copy
  <2> QED BY <2>2, <2>3 DEF FillInv
<1>2. CASE EditSource \/ RemoveItem \/ RemoveCategory
  <2>1. Elsewhere /\ UNCHANGED target
    BY <1>0, <1>2, SourceEdited, ItemRemoved, CategoryRemoved
  <2> QED BY <1>0, <2>1 DEF FillInv, FillFits, Elsewhere, SameName
<1>3. CASE EditTarget \/ RemoveProduct
  <2>1. ASSUME NEW c \in Calls PROVE FillFits(c)'
    <3>1. FillFits(c) /\ pc' = pc /\ seen' = seen /\ DOMAIN target' = DOMAIN target
      BY <1>0, <1>3, RowTouched DEF FillInv
    <3>2. pc[c] \in Filling =>
            LET i == seen[c].row
            IN  /\ SameOrigin(target[i], target'[i])
                /\ ~target'[i].edited => target'[i].sizes = target[i].sizes /\ ~target[i].edited
      BY <1>0, <1>3, <3>1, RowTouched DEF FillFits
    <3> QED BY <3>1, <3>2 DEF FillFits, SameOrigin, Filling
  <2> QED BY <2>1 DEF FillInv
<1>4. CASE Ended
  BY <1>0, <1>4 DEF Ended, vars, FillInv, FillFits
<1> QED BY <1>1, <1>2, <1>3, <1>4 DEF Next

\* The rows after a step: those there were, of the same origin, and the one that is created.
LEMMA OldRows ==
  ASSUME IInv, NEW c \in Calls, Copy(c), NEW i \in DOMAIN target'
  PROVE  \/ /\ i \in DOMAIN target /\ SameOrigin(target[i], target'[i])
            /\ target'[i].here = target[i].here
         \/ i = Len(target) + 1 /\ target'[i].by = c
<1>0. SeqInv
  BY DEF IInv
<1>1. CASE UNCHANGED target
  BY <1>1, RowsStay
<1>2. CASE NewRow(c) \in Rows /\ target' = Append(target, NewRow(c))
  <2>1. NewRow(c).by = c
    BY DEF NewRow
  <2> QED BY <1>0, <1>2, <2>1, Appended, RowsStay
<1>3. ASSUME NEW row \in Rows, seen[c].row \in DOMAIN target,
             target' = [target EXCEPT ![seen[c].row] = row]
      PROVE  i \in DOMAIN target
  BY <1>0, <1>3, Altered
<1> QED BY <1>1, <1>2, <1>3, RowsAfter, RowsStay

\* Names stay where a call has as little ahead of it as before, and rows are old or not its
\* own.
LEMMA NamesStay ==
  ASSUME NEW c \in Calls, \A i \in DOMAIN target : NameFits(i, c),
         seen'[c].before = seen[c].before,
         \A n : n \in AheadOf(c)' => n \in AheadOf(c),
         pc'[c] \in {"next"} \cup Busy => pc[c] \in {"next"} \cup Busy,
         pc[c] \in Looked => pc'[c] \in Looked,
         \A i \in DOMAIN target' :
           \/ /\ i \in DOMAIN target /\ SameOrigin(target[i], target'[i])
              /\ target'[i].here => target[i].here
           \/ ~(i <= seen[c].before) /\ target'[i].by # c
  PROVE  \A i \in DOMAIN target' : NameFits(i, c)'
BY DEF NameFits, SameOrigin

\* NameInv is kept.
LEMMA NameKept == ASSUME IInv, Next PROVE NameInv'
<1>0. TypeOK /\ SeqInv /\ ReadInv /\ HoldInv /\ FillInv /\ RowInv /\ NameInv
  BY DEF IInv
<1>1. ASSUME NEW c \in Calls, Copy(c) PROVE NameInv'
  <2>1. Alone(c)
    BY <1>0, <1>1, ProductsRead, RecipesRead, NamesRead, NextTaken, CategoryEnsured, ProductCreated,
       SizeCreated, ItemEnsured, RecipeCreated, Failed DEF Copy
  <2>2. /\ Len(target) \in Nat /\ Len(target') \in Nat /\ Len(target) <= Len(target')
        /\ \A d \in Calls : seen[d].before \in Nat /\ seen[d].before <= Len(target)
    <3>1. SeqInv'
      BY <1>1, SeqKept DEF Next
    <3>2. Len(target) \in Nat /\ Len(target') \in Nat
      BY <1>0, <3>1 DEF SeqInv
    <3>3. Len(target) <= Len(target')
      BY <1>0, <1>1, <3>2, RowsAfter, Appended, Altered
    <3> QED BY <1>0, <3>2, <3>3 DEF NameInv, AheadFits, TypeOK, Reads
  <2>3. ASSUME NEW d \in Calls, d # c
        PROVE  AheadFits(d)' /\ \A i \in DOMAIN target' : NameFits(i, d)'
    <3>1. pc'[d] = pc[d] /\ seen'[d] = seen[d]
      BY <2>1, <2>3 DEF Alone
    <3>2. AheadFits(d)'
      BY <1>0, <2>2, <3>1 DEF NameInv, AheadFits
    <3>3. AheadOf(d)' = AheadOf(d)
      BY <3>1 DEF AheadOf
    <3>4. ASSUME NEW i \in DOMAIN target'
          PROVE  \/ /\ i \in DOMAIN target /\ SameOrigin(target[i], target'[i])
                    /\ target'[i].here => target[i].here
                 \/ ~(i <= seen[d].before) /\ target'[i].by # d
      BY <1>1, <2>2, <2>3, OldRows
    <3> QED BY <1>0, <3>1, <3>2, <3>3, <3>4, NamesStay DEF NameInv
  <2>4. AheadFits(c)'
    <3>1. CASE ReadProducts(c) \/ ReadRecipes(c) \/ ReadNames(c) \/ Fail(c)
      <4>1. /\ seen'[c].before \in {0, seen[c].before, Len(target)}
            /\ pc'[c] \notin {"category", "product"}
        BY <1>0, <3>1, ProductsRead, RecipesRead, NamesRead, Failed
      <4> QED BY <2>2, <4>1 DEF AheadFits
    <3>2. CASE TakeNext(c) \/ EnsureCategory(c)
      <4>1. /\ seen'[c].before = seen[c].before
            /\ pc'[c] \in {"category", "product"} => seen'[c].name \notin seen'[c].todo
        <5>1. CASE TakeNext(c)
          BY <1>0, <5>1, NextTaken
        <5>2. CASE EnsureCategory(c)
          BY <1>0, <5>2, CategoryEnsured DEF SameName, NameInv, AheadFits
        <5> QED BY <3>2, <5>1, <5>2
      <4> QED BY <2>2, <4>1 DEF AheadFits
    <3>3. CASE CreateProduct(c) \/ CreateSize(c) \/ EnsureItem(c) \/ CreateRecipe(c)
      <4>1. seen'[c].before = seen[c].before /\ pc'[c] \notin {"category", "product"}
        BY <1>0, <3>3, ProductCreated, SizeCreated, ItemEnsured, RecipeCreated DEF SameName
      <4> QED BY <2>2, <4>1 DEF AheadFits
    <3> QED BY <1>1, <3>1, <3>2, <3>3 DEF Copy
  <2>5. \A i \in DOMAIN target' : NameFits(i, c)'
    <3>0. \A i \in DOMAIN target : NameFits(i, c)
      BY <1>0 DEF NameInv
    <3>1. CASE ReadProducts(c) \/ ReadRecipes(c)
      <4>1. /\ pc[c] \in {"idle", "recipes"} /\ pc'[c] \in {"recipes", "names"}
            /\ target' = target
        BY <1>0, <3>1, ProductsRead, RecipesRead DEF tables
      <4> QED BY <3>0, <4>1 DEF NameFits, Looked, Busy, Filling
    <3>2. CASE ReadNames(c)
      <4>1. /\ pc[c] = "names" /\ pc'[c] = "next" /\ target' = target
            /\ seen'[c].todo = seen[c].todo \ NamesHere
        BY <1>0, <3>2, NamesRead DEF tables
      <4>2. \A i \in DOMAIN target : target[i].by # c
        BY <3>0, <4>1 DEF NameFits, Looked, Busy, Filling
      <4>3. AheadOf(c)' = seen[c].todo \ NamesHere
        BY <4>1 DEF AheadOf
      <4>4. \A i \in DOMAIN target : target[i].here => target[i].name \in NamesHere
        BY DEF NamesHere, Here
      <4> QED BY <4>1, <4>2, <4>3, <4>4 DEF NameFits
    <3>3. CASE Fail(c)
      <4>1. pc'[c] = "failed" /\ target' = target /\ seen'[c].todo = {}
        BY <1>0, <3>3, Failed DEF tables
      <4>2. AheadOf(c)' = {}
        BY <4>1 DEF AheadOf
      <4> QED BY <4>1, <4>2 DEF NameFits, Looked, Busy, Filling
    <3>4. CASE CreateProduct(c)
      <4>1. /\ pc[c] = "product" /\ pc'[c] = "sizes" /\ seen'[c].before = seen[c].before
            /\ seen'[c].todo = seen[c].todo
            /\ NewRow(c) \in Rows /\ target' = Append(target, NewRow(c))
        BY <1>0, <3>4, ProductCreated DEF SameName
      <4>2. /\ DOMAIN target' = DOMAIN target \cup {Len(target) + 1}
            /\ \A i \in DOMAIN target : target'[i] = target[i]
            /\ target'[Len(target) + 1] = NewRow(c)
        BY <1>0, <4>1, Appended
      <4>3. AheadOf(c)' = seen[c].todo /\ seen[c].todo \subseteq AheadOf(c)
        BY <4>1 DEF AheadOf
      <4>4. NewRow(c).name = seen[c].name /\ seen[c].name \notin seen[c].todo
        BY <1>0, <4>1 DEF NewRow, NameInv, AheadFits
      <4>5. ~(Len(target) + 1 <= seen[c].before)
        BY <2>2
      <4> QED BY <3>0, <4>1, <4>2, <4>3, <4>4, <4>5 DEF NameFits, Looked, Busy, Filling
    <3>5. ASSUME target' = target \/ (pc[c] \in Filling /\ ~CreateProduct(c)),
                 pc[c] \in {"next"} \cup Busy, pc'[c] \in {"next", "done"} \cup Busy,
                 seen'[c].before = seen[c].before, \A n : n \in AheadOf(c)' => n \in AheadOf(c)
          PROVE  \A i \in DOMAIN target' : NameFits(i, c)'
      <4>1. DOMAIN target' = DOMAIN target
        <5>1. CASE target' = target
          BY <5>1
        <5>2. CASE CreateSize(c)
          BY <1>0, <5>2, SizeCreated, Altered
        <5>3. CASE CreateRecipe(c)
          BY <1>0, <5>3, RecipeCreated, Altered
        <5>4. CASE ~CreateProduct(c) /\ ~CreateSize(c) /\ ~CreateRecipe(c)
          BY <1>1, <5>4 DEF Copy, ReadProducts, ReadRecipes, ReadNames, TakeNext, EnsureCategory,
                            EnsureItem, Fail, tables
        <5> QED BY <3>5, <5>1, <5>2, <5>3, <5>4
      <4>2. \A i \in DOMAIN target' :
              /\ i \in DOMAIN target /\ SameOrigin(target[i], target'[i])
              /\ target'[i].here => target[i].here
        BY <1>1, <4>1, RowsStay
      <4>3. pc'[c] \in Looked /\ (pc'[c] \in {"next"} \cup Busy => pc[c] \in {"next"} \cup Busy)
        BY <3>5 DEF Looked
      <4> QED BY <3>0, <3>5, <4>2, <4>3, NamesStay
    <3>6. CASE TakeNext(c)
      <4>1. /\ pc[c] = "next" /\ seen'[c].before = seen[c].before /\ target' = target
            /\ pc'[c] \in {"done", "category", "product"}
            /\ \A n : n \in AheadOf(c)' => n \in seen[c].todo
        BY <1>0, <3>6, NextTaken DEF tables, AheadOf
      <4> QED BY <3>5, <4>1 DEF Busy, AheadOf
    <3>7. CASE EnsureCategory(c)
      <4>1. /\ pc[c] = "category" /\ pc'[c] = "product" /\ target' = target
            /\ seen'[c].before = seen[c].before
            /\ seen'[c].todo = seen[c].todo /\ seen'[c].name = seen[c].name
        BY <1>0, <3>7, CategoryEnsured DEF SameName
      <4> QED BY <3>5, <4>1 DEF Busy, AheadOf
    <3>8. CASE CreateSize(c) \/ EnsureItem(c) \/ CreateRecipe(c)
      <4>1. /\ pc[c] \in Filling /\ pc'[c] \in Filling \cup {"next"}
            /\ seen'[c].before = seen[c].before /\ seen'[c].todo = seen[c].todo
        BY <1>0, <3>8, SizeCreated, ItemEnsured, RecipeCreated DEF SameName, Filling
      <4>2. ~CreateProduct(c)
        BY <4>1 DEF CreateProduct, Filling
      <4> QED BY <3>5, <4>1, <4>2 DEF Busy, AheadOf, Filling
    <3> QED BY <1>1, <3>1, <3>2, <3>3, <3>4, <3>6, <3>7, <3>8 DEF Copy
  <2> QED BY <2>3, <2>4, <2>5 DEF NameInv
<1>2. CASE EditSource \/ RemoveItem \/ RemoveCategory
  <2>1. Elsewhere /\ UNCHANGED target
    BY <1>0, <1>2, SourceEdited, ItemRemoved, CategoryRemoved
  <2>2. ASSUME NEW c \in Calls
        PROVE  /\ pc'[c] = pc[c] /\ seen'[c].before = seen[c].before /\ AheadOf(c)' = AheadOf(c)
               /\ seen'[c].name = seen[c].name /\ seen'[c].todo = seen[c].todo
    BY <2>1 DEF Elsewhere, SameName, AheadOf
  <2> QED BY <1>0, <2>1, <2>2 DEF NameInv, AheadFits, NameFits
<1>3. CASE EditTarget \/ RemoveProduct
  <2>1. /\ UNCHANGED <<pc, seen>> /\ DOMAIN target' = DOMAIN target /\ Len(target') = Len(target)
        /\ \A i \in DOMAIN target :
             SameOrigin(target[i], target'[i]) /\ (target'[i].here => target[i].here)
    BY <1>0, <1>3, RowTouched
  <2>2. ASSUME NEW c \in Calls
        PROVE  AheadFits(c)' /\ \A i \in DOMAIN target' : NameFits(i, c)'
    <3>1. AheadOf(c)' = AheadOf(c)
      BY <2>1 DEF AheadOf
    <3> QED BY <1>0, <2>1, <3>1, NamesStay DEF NameInv, AheadFits
  <2> QED BY <2>2 DEF NameInv
<1>4. CASE Ended
  BY <1>0, <1>4 DEF Ended, vars, NameInv, AheadFits, NameFits, AheadOf
<1> QED BY <1>1, <1>2, <1>3, <1>4 DEF Next

\* A row that is created is the last one, and is new to the call that creates it.
LEMMA NewNames ==
  ASSUME IInv, NEW c \in Calls, CreateProduct(c), NEW i \in DOMAIN target, target[i].here,
         target[i].name = seen[c].name
  PROVE  target'[Len(target) + 1].before < i /\ target[i].by # c
<1>0. TypeOK /\ SeqInv /\ HoldInv /\ NameInv
  BY DEF IInv
<1>1. /\ pc[c] = "product" /\ NewRow(c) \in Rows /\ target' = Append(target, NewRow(c))
  BY <1>0, ProductCreated
<1>2. target'[Len(target) + 1] = NewRow(c) /\ NewRow(c).before = seen[c].before
  BY <1>0, <1>1, Appended DEF NewRow
<1>3. target[i].name \in AheadOf(c) /\ NameFits(i, c)
  BY <1>0, <1>1 DEF AheadOf, NameInv
<1>4. i \in Nat /\ seen[c].before \in Nat
  BY <1>0, SeqRows DEF TypeOK, Reads
<1> QED BY <1>1, <1>2, <1>3, <1>4 DEF NameFits, Busy

\* New names stay new where the rows are those there were.
LEMMA NewNamesStay ==
  ASSUME CopiesHaveNewNames, NEW i \in DOMAIN target, NEW j \in DOMAIN target, i < j,
         \A k \in {i, j} : SameOrigin(target[k], target'[k]) /\ (target'[k].here => target[k].here),
         target'[i].here, target'[j].here, target'[i].name = target'[j].name
  PROVE  target'[j].before < i /\ target'[i].by # target'[j].by
BY DEF CopiesHaveNewNames, SameOrigin, Here

\* CopiesHaveNewNames is kept: a call creates what was not there when it looked.
LEMMA CopiesKept == ASSUME IInv, Next PROVE CopiesHaveNewNames'
<1>0. TypeOK /\ SeqInv /\ HoldInv /\ RowInv /\ NameInv /\ CopiesHaveNewNames
  BY DEF IInv
<1> SUFFICES ASSUME NEW i \in DOMAIN target', NEW j \in DOMAIN target', i < j,
                    target'[i].here, target'[j].here, target'[i].name = target'[j].name
             PROVE  target'[j].before < i /\ target'[i].by # target'[j].by
  BY DEF CopiesHaveNewNames, Here
<1>1. ASSUME NEW c \in Calls, Copy(c)
      PROVE  target'[j].before < i /\ target'[i].by # target'[j].by
  <2>1. \A k \in {i, j} :
          \/ /\ k \in DOMAIN target /\ SameOrigin(target[k], target'[k])
             /\ target'[k].here = target[k].here
          \/ k = Len(target) + 1 /\ target'[k].by = c
    BY <1>1, OldRows
  <2>2. CASE i \in DOMAIN target /\ j \in DOMAIN target
    <3>1. \A k \in {i, j} : k # Len(target) + 1
      BY <1>0, <2>2, SeqRows
    <3> QED BY <1>0, <2>1, <2>2, <3>1, NewNamesStay
  <2>3. CASE ~(i \in DOMAIN target /\ j \in DOMAIN target)
    <3>1. CreateProduct(c)
      <4>1. CASE UNCHANGED target
        BY <2>3, <4>1
      <4>2. CASE CreateSize(c)
        BY <1>0, <2>3, <4>1, <4>2, SizeCreated, Altered DEF IInv
      <4>3. CASE CreateRecipe(c)
        BY <1>0, <2>3, <4>3, RecipeCreated, Altered DEF IInv
      <4>4. CASE ~CreateProduct(c) /\ ~CreateSize(c) /\ ~CreateRecipe(c)
        BY <1>1, <4>1, <4>4 DEF Copy, ReadProducts, ReadRecipes, ReadNames, TakeNext,
                                EnsureCategory, EnsureItem, Fail, tables
      <4> QED BY <4>2, <4>3, <4>4
    <3>2. /\ NewRow(c) \in Rows /\ target' = Append(target, NewRow(c))
          /\ DOMAIN target' = DOMAIN target \cup {Len(target) + 1}
          /\ \A k \in DOMAIN target : target'[k] = target[k]
          /\ target'[Len(target) + 1] = NewRow(c)
      BY <1>0, <3>1, ProductCreated, Appended
    <3>3. i \in DOMAIN target /\ j = Len(target) + 1
      BY <1>0, <2>3, <3>2, SeqRows
    <3>4. target[i].name = seen[c].name /\ target[i].here /\ target'[j].by = c
      BY <3>2, <3>3 DEF NewRow
    <3> QED BY <3>1, <3>2, <3>3, <3>4, NewNames
  <2> QED BY <2>2, <2>3
<1>2. CASE EditTarget \/ RemoveProduct
  BY <1>0, <1>2, RowTouched, NewNamesStay
<1>3. CASE UNCHANGED target
  BY <1>0, <1>3, NewNamesStay DEF SameOrigin
<1> QED BY <1>1, <1>2, <1>3 DEF Next, EditSource, RemoveItem, RemoveCategory, Ended, vars

-----------------------------------------------------------------------------
(* What the rows hold.                                                      *)

\* A product of the source has each ingredient for all sizes or for each.
LEMMA StoredEvery ==
  ASSUME NEW content \in Stored
  PROVE  /\ Every(content) /\ content \in Contents
         /\ \A r \in content.recipe : r = <<r[1], r[2]>> /\ r[2] \in content.sizes \cup {None}
<1>1. PICK z \in SUBSET SizeNames, y \in SUBSET SizeNames, ingredients \in SUBSET Items :
        y \in {z, {}} /\ content = [sizes |-> z, recipe |-> Recipe(y, ingredients)]
  BY DEF Stored
<1>2. Recipe(y, ingredients) \in SUBSET RecipeRows
  BY <1>1 DEF Recipe, RecipeRows
<1>3. content \in Contents
  BY <1>1, <1>2 DEF Contents
<1>4. CASE y = {}
  <2>1. content.recipe = ingredients \X {None}
    BY <1>1, <1>4 DEF Recipe
  <2> QED BY <1>3, <2>1 DEF Every
<1>5. CASE y # {}
  <2>1. content.recipe = ingredients \X content.sizes
    BY <1>1, <1>5 DEF Recipe
  <2> QED BY <1>3, <2>1 DEF Every
<1> QED BY <1>4, <1>5, <1>3

\* A row that is not written, by a call that writes no other, fits as it did.
LEMMA RowStays ==
  ASSUME RowInv, NEW i \in DOMAIN target, target'[i] = target[i],
         (seen'[target[i].by].row = i) = (seen[target[i].by].row = i)
  PROVE  RowFits(target'[i], Unfinished(i)')
<1>1. Unfinished(i)' = Unfinished(i)
  BY DEF Unfinished
<1> QED BY <1>1 DEF RowInv

\* The row that is created is empty.
LEMMA NewRowFits ==
  ASSUME IInv, NEW c \in Calls, pc[c] = "product"
  PROVE  RowFits(NewRow(c), TRUE)
<1>1. /\ NewRow(c).mine = {} /\ NewRow(c).sizes = {} /\ NewRow(c).recipe = {}
      /\ NewRow(c).edited = FALSE /\ NewRow(c).from = seen[c].read[seen[c].name]
      /\ NewRow(c).torn = (seen[c].name \in seen[c].torn)
  BY DEF NewRow
<1>2. seen[c].name \notin seen[c].torn => seen[c].read[seen[c].name] \in Stored
  BY DEF IInv, ReadInv, ReadFits, HoldInv, HoldFits, Busy
<1>3. Every(NewRow(c))
  BY <1>1 DEF Every
<1> QED BY <1>1, <1>2, <1>3 DEF RowFits

\* A size is added to a row without a recipe, or one that was edited while it was filled.
LEMMA WithSizeFits ==
  ASSUME NEW row \in Rows, NEW s \in SizeNames, RowFits(row, TRUE)
  PROVE  RowFits(WithSize(row, s), TRUE)
<1> DEFINE new == WithSize(row, s)
<1>1. /\ new.mine = row.mine \cup {s} /\ new.sizes = row.sizes \cup {s} /\ new.recipe = row.recipe
      /\ new.edited = row.edited /\ new.early = row.early /\ new.from = row.from
      /\ new.torn = row.torn
  BY DEF WithSize, Rows
<1>2. row.recipe = {} => Every(new)
  BY <1>1 DEF Every
<1> HIDE DEF new
<1>3. new.torn \/ new.early \/ Every(new)
  <2>1. row.edited \in BOOLEAN /\ row.early \in BOOLEAN
    BY DEF Rows
  <2> QED BY <1>1, <1>2, <2>1 DEF RowFits
<1>4. /\ new.mine \subseteq new.sizes
      /\ new.edited => new.early
      /\ ~new.edited => new.recipe = {}
      /\ ~new.torn => new.from \in Stored
  BY <1>1 DEF RowFits
<1>5. RowFits(new, TRUE)
  BY <1>3, <1>4 DEF RowFits
<1> QED BY <1>5 DEF new

\* Where all sizes were made, each row of the recipe has the size it had in the source.
LEMMA SameRecipe ==
  ASSUME NEW c \in Calls, seen[c].read[seen[c].name] \in Stored,
         seen[c].read[seen[c].name].sizes \subseteq seen[c].made
  PROVE  New(c) = seen[c].read[seen[c].name].recipe
<1>1. \A r \in seen[c].read[seen[c].name].recipe :
         r = <<r[1], r[2]>> /\ r[2] \in seen[c].made \cup {None}
  BY StoredEvery
<1>2. \A r \in seen[c].read[seen[c].name].recipe : Destination(c, r) = r
  BY <1>1 DEF Destination
<1> QED BY <1>2 DEF New

\* A row that gets its recipe is what the call has read.
LEMMA CompletedFits ==
  ASSUME IInv, NEW c \in Calls, pc[c] = "recipe", seen[c].row \in DOMAIN target,
         RowFits(target[seen[c].row], TRUE)
  PROVE  RowFits(Completed(c), FALSE)
<1> DEFINE row  == target[seen[c].row]
           new  == Completed(c)
           read == seen[c].read[seen[c].name]
<1>0. /\ row \in Rows /\ row.from = read /\ read.sizes \subseteq seen[c].made
      /\ seen[c].made \subseteq read.sizes /\ ~row.edited => row.sizes = seen[c].made
  BY SeqRows DEF IInv, FillInv, FillFits, Filling
<1>1. /\ new.mine = row.mine /\ new.sizes = row.sizes /\ new.recipe = row.recipe \cup New(c)
      /\ new.edited = row.edited /\ new.early = row.early /\ new.from = row.from
      /\ new.torn = row.torn
  BY <1>0 DEF Completed, Rows
<1>2. /\ row.mine \subseteq row.sizes
      /\ row.edited => row.early
      /\ ~row.edited => row.recipe = {}
      /\ ~row.torn => row.from \in Stored
  BY DEF RowFits
<1>3. {r[1] : r \in New(c)} = {r[1] : r \in read.recipe}
  <2>1. \A r \in read.recipe : Destination(c, r)[1] = r[1]
    BY DEF Destination
  <2>2. \A r : r \in New(c) <=> \E q \in read.recipe : r = Destination(c, q)
    BY DEF New
  <2>3. \A x \in {r[1] : r \in New(c)} : x \in {r[1] : r \in read.recipe}
    BY <2>1, <2>2
  <2>4. \A x \in {r[1] : r \in read.recipe} : x \in {r[1] : r \in New(c)}
    BY <2>1, <2>2
  <2> QED BY <2>3, <2>4
<1>4. ~row.torn => New(c) = read.recipe
  BY <1>0, <1>2, SameRecipe
<1> HIDE DEF row, new, read
<1>5. ~new.edited => WholeRow(new)
  <2>1. ~new.edited => new.sizes = new.from.sizes /\ new.recipe = New(c)
    BY <1>0, <1>1, <1>2
  <2> QED BY <1>0, <1>1, <1>3, <1>4, <2>1 DEF WholeRow
<1>6. new.torn \/ new.early \/ Every(new)
  <2>1. CASE ~new.torn /\ ~new.early
    <3>1. new.sizes = read.sizes /\ new.recipe = read.recipe /\ read \in Stored
      BY <1>0, <1>1, <1>2, <1>4, <2>1
    <3> QED BY <3>1, StoredEvery DEF Every
  <2> QED BY <2>1
<1>7. RowFits(new, FALSE)
  BY <1>1, <1>2, <1>5, <1>6 DEF RowFits
<1> QED BY <1>7 DEF new

\* RowInv is kept.
LEMMA RowKept == ASSUME IInv, Next PROVE RowInv'
<1>0. TypeOK /\ SeqInv /\ ReadInv /\ HoldInv /\ FillInv /\ RowInv
  BY DEF IInv
<1>1. ASSUME NEW c \in Calls, Copy(c), NEW i \in DOMAIN target' PROVE RowFits(target'[i], Unfinished(i)')
  <2>1. Alone(c)
    BY <1>0, <1>1, ProductsRead, RecipesRead, NamesRead, NextTaken, CategoryEnsured, ProductCreated,
       SizeCreated, ItemEnsured, RecipeCreated, Failed DEF Copy
  <2>2. CASE i \in DOMAIN target /\ target[i].by # c
    <3>1. target[i].by \in Calls
      BY <1>0, <2>2, SeqRows DEF Rows
    <3> QED BY <1>0, <1>1, <2>1, <2>2, <3>1, RowsStay, RowStays DEF Alone
  <2>3. ASSUME i \in DOMAIN target, target[i].by = c, target'[i] = target[i],
               (seen'[c].row = i) = (seen[c].row = i)
        PROVE  RowFits(target'[i], Unfinished(i)')
    BY <1>0, <2>3, RowStays
  <2>4. CASE ReadProducts(c) \/ ReadRecipes(c) \/ ReadNames(c) \/ TakeNext(c) \/ EnsureCategory(c)
             \/ EnsureItem(c) \/ Fail(c)
    <3>1. target' = target
      BY <2>4 DEF ReadProducts, ReadRecipes, ReadNames, TakeNext, EnsureCategory, EnsureItem, Fail, tables
    <3>2. seen'[c].row = seen[c].row
      <4>1. CASE ReadProducts(c)
        BY <1>0, <4>1, ProductsRead DEF FillInv, FillFits, Filling
      <4>2. CASE ReadRecipes(c) \/ ReadNames(c) \/ TakeNext(c) \/ EnsureCategory(c)
        BY <1>0, <4>2, RecipesRead, NamesRead, NextTaken, CategoryEnsured
      <4>3. CASE EnsureItem(c) \/ Fail(c)
        BY <1>0, <4>3, ItemEnsured, Failed
      <4> QED BY <2>4, <4>1, <4>2, <4>3
    <3> QED BY <2>2, <2>3, <3>1, <3>2
  <2>5. CASE CreateProduct(c)
    <3>1. /\ pc[c] = "product" /\ NewRow(c) \in Rows /\ target' = Append(target, NewRow(c))
          /\ seen'[c].row = Len(target) + 1
      BY <1>0, <2>5, ProductCreated
    <3>2. seen[c].row = 0
      BY <1>0, <3>1 DEF FillInv, FillFits, Filling
    <3>3. /\ DOMAIN target' = DOMAIN target \cup {Len(target) + 1}
          /\ Len(target) + 1 \notin DOMAIN target
          /\ \A k \in DOMAIN target : target'[k] = target[k] /\ k # 0
          /\ target'[Len(target) + 1] = NewRow(c)
      BY <1>0, <3>1, Appended, SeqRows
    <3>4. CASE i \in DOMAIN target
      BY <2>2, <2>3, <3>1, <3>2, <3>3, <3>4
    <3>5. CASE i = Len(target) + 1
      <4>1. Unfinished(i)' = TRUE
        BY <3>1, <3>3, <3>5 DEF Unfinished, NewRow
      <4> QED BY <3>1, <3>3, <3>5, <4>1, NewRowFits
    <3> QED BY <3>3, <3>4, <3>5
  <2>6. CASE CreateSize(c)
    <3>1. /\ pc[c] = "sizes" /\ seen'[c].row = seen[c].row /\ seen[c].row \in DOMAIN target
      BY <1>0, <2>6, SizeCreated
    <3>2. CASE UNCHANGED target
      BY <2>2, <2>3, <3>1, <3>2
    <3>3. ASSUME NEW s \in SizeNames, WithSize(target[seen[c].row], s) \in Rows,
                 target' = [target EXCEPT ![seen[c].row] = WithSize(target[seen[c].row], s)]
          PROVE  RowFits(target'[i], Unfinished(i)')
      <4>1. /\ i \in DOMAIN target /\ target'[seen[c].row] = WithSize(target[seen[c].row], s)
            /\ i # seen[c].row => target'[i] = target[i]
        BY <1>0, <3>1, <3>3, Altered
      <4>2. CASE i # seen[c].row
        BY <2>2, <2>3, <3>1, <4>1, <4>2
      <4>3. CASE i = seen[c].row
        <5>1. target[i] \in Rows /\ target[i].by = c
          BY <1>0, <3>1, <4>1, <4>3, SeqRows DEF FillInv, FillFits, Filling
        <5>2. Unfinished(i) = TRUE /\ target'[i].by = c
          BY <4>1, <4>3, <5>1 DEF Unfinished, WithSize, Rows
        <5>3. Unfinished(i)' = TRUE
          BY <3>1, <4>3, <5>2 DEF Unfinished
        <5>4. RowFits(target[i], TRUE)
          BY <1>0, <4>1, <5>2 DEF RowInv
        <5> QED BY <4>1, <4>3, <5>1, <5>3, <5>4, WithSizeFits
      <4> QED BY <4>2, <4>3
    <3> QED BY <1>0, <2>6, <3>2, <3>3, SizeCreated
  <2>7. CASE CreateRecipe(c)
    <3>1. /\ pc[c] = "recipe" /\ seen'[c].row = 0 /\ seen[c].row \in DOMAIN target
          /\ Completed(c) \in Rows
          /\ target' = [target EXCEPT ![seen[c].row] = Completed(c)]
      BY <1>0, <2>7, RecipeCreated
    <3>2. /\ i \in DOMAIN target /\ target'[seen[c].row] = Completed(c)
          /\ i # seen[c].row => target'[i] = target[i]
          /\ i # 0 /\ target[seen[c].row] \in Rows
      BY <1>0, <3>1, Altered, SeqRows
    <3>3. CASE i # seen[c].row
      BY <2>2, <2>3, <3>1, <3>2, <3>3
    <3>4. CASE i = seen[c].row
      <4>1. target[i].by = c
        BY <1>0, <3>1, <3>4 DEF FillInv, FillFits, Filling
      <4>2. Unfinished(i) = TRUE /\ target'[i].by = c
        BY <3>2, <3>4, <4>1 DEF Unfinished, Completed, Rows
      <4>3. Unfinished(i)' = FALSE
        BY <3>1, <3>2, <4>2 DEF Unfinished
      <4>4. RowFits(target[i], TRUE)
        BY <1>0, <3>2, <4>2 DEF RowInv
      <4> QED BY <3>1, <3>2, <3>4, <4>3, <4>4, CompletedFits
    <3> QED BY <3>3, <3>4
  <2> QED BY <1>1, <2>4, <2>5, <2>6, <2>7 DEF Copy
<1>2. ASSUME UNCHANGED target, \A c \in Calls : seen'[c].row = seen[c].row,
             NEW i \in DOMAIN target'
      PROVE  RowFits(target'[i], Unfinished(i)')
  <2>1. target[i].by \in Calls
    BY <1>0, <1>2, SeqRows DEF Rows
  <2> QED BY <1>0, <1>2, <2>1, RowStays
<1>3. CASE EditSource \/ RemoveItem \/ RemoveCategory
  <2>1. Elsewhere /\ UNCHANGED target
    BY <1>0, <1>3, SourceEdited, ItemRemoved, CategoryRemoved
  <2> QED BY <1>2, <2>1 DEF Elsewhere, RowInv
<1>4. CASE EditTarget \/ RemoveProduct
  <2>1. PICK i \in Here, row \in Rows :
          /\ target' = [target EXCEPT ![i] = row] /\ row.by = target[i].by
          /\ RowFits(row, Unfinished(i))
    <3>1. CASE EditTarget
      <4>1. PICK i \in Here, row \in Rows :
              /\ target' = [target EXCEPT ![i] = row]
              /\ SameOrigin(target[i], row) /\ row.here = TRUE /\ row.edited = TRUE
              /\ Unfinished(i) => row.early = TRUE
              /\ row.mine \subseteq row.sizes /\ Every(row)
        BY <1>0, <3>1, TargetEdited
      <4>2. ~row.torn => row.from \in Stored
        BY <1>0, <4>1 DEF RowInv, RowFits, SameOrigin, Here
      <4> QED BY <4>1, <4>2 DEF RowFits, SameOrigin
    <3>2. CASE RemoveProduct
      <4>1. PICK i \in Here, row \in Rows :
              /\ target' = [target EXCEPT ![i] = row]
              /\ SameOrigin(target[i], row) /\ row.here = FALSE
              /\ row.sizes = target[i].sizes /\ row.recipe = target[i].recipe
              /\ row.mine = target[i].mine /\ row.edited = target[i].edited
              /\ row.early = target[i].early
        BY <1>0, <3>2, ProductRemoved
      <4>2. RowFits(target[i], Unfinished(i))
        BY <1>0 DEF RowInv, Here
      <4>3. RowFits(row, Unfinished(i))
        BY <4>1, <4>2 DEF RowFits, WholeRow, Every, SameOrigin
      <4> QED BY <4>1, <4>3 DEF SameOrigin
    <3> QED BY <1>4, <3>1, <3>2
  <2>2. /\ i \in DOMAIN target /\ DOMAIN target' = DOMAIN target /\ target'[i] = row
        /\ \A j \in DOMAIN target : j # i => target'[j] = target[j]
    BY <1>0, <2>1, Altered DEF Here
  <2>3. seen' = seen
    BY <1>4 DEF EditTarget, RemoveProduct
  <2>4. ASSUME NEW j \in DOMAIN target', j # i PROVE RowFits(target'[j], Unfinished(j)')
    BY <1>0, <2>2, <2>3, <2>4, RowStays
  <2>5. RowFits(target'[i], Unfinished(i)')
    <3>1. Unfinished(i)' = Unfinished(i)
      BY <2>1, <2>2, <2>3 DEF Unfinished
    <3> QED BY <2>1, <2>2, <3>1
  <2> QED BY <2>4, <2>5 DEF RowInv
<1>5. CASE Ended
  BY <1>2, <1>5 DEF Ended, vars, RowInv
<1> QED BY <1>1, <1>3, <1>4, <1>5 DEF Next, RowInv

-----------------------------------------------------------------------------
(* The theorems.                                                            *)

\* The invariant holds at first.
LEMMA InitInv == Init => IInv
<1> SUFFICES ASSUME Init PROVE IInv
  OBVIOUS
<1>1. /\ target = <<>> /\ DOMAIN target = {} /\ Len(target) = 0 /\ target \in Seq(Rows)
  BY DEF Init
<1>2. \A c \in Calls : pc[c] = "idle" /\ seen[c] = NoReads
  BY DEF Init
<1>3. TypeOK
  <2>1. pc \in [Calls -> Steps] /\ seen \in [Calls -> Reads]
    BY NoReadsTypes DEF Init, Steps
  <2>2. acts \in 0 .. MaxActs
    BY CatalogAssumption DEF Init
  <2>3. Here = {}
    BY <1>1 DEF Here
  <2> QED BY <1>1, <2>1, <2>2, <2>3 DEF Init, TypeOK
<1>4. /\ NoReads.row = 0 /\ NoReads.known = {} /\ NoReads.ready = {} /\ NoReads.before = 0
  BY DEF NoReads
<1>5. SeqInv /\ RowInv /\ CopiesHaveNewNames
  BY <1>1 DEF SeqInv, RowInv, CopiesHaveNewNames, Here
<1>6. ReadInv
  BY <1>2 DEF ReadInv, ReadFits, Busy, Filling
<1>7. HoldInv
  BY <1>2, <1>4 DEF HoldInv, HoldFits, Busy, Filling
<1>8. FillInv
  BY <1>2, <1>4 DEF FillInv, FillFits, Filling
<1>9. NameInv
  BY <1>1, <1>2, <1>4 DEF NameInv, AheadFits
<1> QED BY <1>3, <1>5, <1>6, <1>7, <1>8, <1>9 DEF IInv

\* It depends on the variables alone.
LEMMA Stutters == ASSUME IInv, UNCHANGED vars PROVE IInv'
<1>1. TypeOK' /\ SeqInv'
  BY DEF IInv, vars, TypeOK, SeqInv, Here
<1>2. ReadInv' /\ HoldInv' /\ FillInv'
  BY DEF IInv, vars, ReadInv, ReadFits, HoldInv, HoldFits, FillInv, FillFits
<1>3. NameInv' /\ RowInv' /\ CopiesHaveNewNames'
  BY DEF IInv, vars, NameInv, AheadFits, NameFits, AheadOf, RowInv, Unfinished, CopiesHaveNewNames, Here
<1> QED BY <1>1, <1>2, <1>3 DEF IInv

\* What holds of the rows, of what calls hold and of what they have ahead of them holds from
\* the beginning and is kept by every step (ProductsService.cloneProductIntoBranch, update, remove).
THEOREM Inductive == Spec => []IInv
<1>1. IInv /\ [Next]_vars => IInv'
  <2> SUFFICES ASSUME IInv, [Next]_vars PROVE IInv'
    OBVIOUS
  <2>1. CASE Next
    BY <2>1, TypesKept, SeqKept, ReadKept, HoldKept, FillKept, NameKept, RowKept, CopiesKept DEF IInv
  <2>2. CASE UNCHANGED vars
    BY <2>2, Stutters
  <2> QED BY <2>1, <2>2
<1> QED BY <1>1, InitInv, PTL DEF Spec

\* Variables have their types, and the recipe of a product refers to stock items that exist
\* and to sizes of the product, whatever is edited or removed while it is copied.
THEOREM TypeCorrect == Spec => []TypeOK
<1>1. IInv => TypeOK
  BY DEF IInv
<1> QED BY <1>1, Inductive, PTL

\* A copy that is finished and was not edited is the product that was read, with all its sizes
\* and its recipe; only an edit between the two queries loses a row's size
\* (ProductsService.cloneProductIntoBranch).
THEOREM CopiesAreWholeHolds == Spec => []CopiesAreWhole
<1>1. IInv => CopiesAreWhole
  BY DEF IInv, RowInv, RowFits, WholeRow, CopiesAreWhole, Here
<1> QED BY <1>1, Inductive, PTL

\* A product stands twice in the target only if two calls copied it, of which the later had
\* looked before the earlier wrote (ProductsService.transferProduct, copyAllProducts).
THEOREM CopiesHaveNewNamesHolds == Spec => []CopiesHaveNewNames
<1>1. IInv => CopiesHaveNewNames
  BY DEF IInv
<1> QED BY <1>1, Inductive, PTL

\* Every size of a product has a row for each of its ingredients, unless the product was edited
\* while it was read or written (ProductsService.buildRecipeCreates, cloneProductIntoBranch).
THEOREM EverySizeHasItsIngredientsHolds == Spec => []EverySizeHasItsIngredients
<1>1. IInv => EverySizeHasItsIngredients
  BY DEF IInv, RowInv, RowFits, Every, EverySizeHasItsIngredients, Here
<1> QED BY <1>1, Inductive, PTL

=============================================================================
