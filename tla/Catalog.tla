------------------------------ MODULE Catalog ------------------------------
(* Copying products from one branch (the source) to another (the target):   *)
(* ProductsService.transferProduct and copyAllProducts, which write a copy  *)
(* statement by statement and without a transaction, while administrators   *)
(* go on editing and removing products, stock items and categories.         *)
(*                                                                          *)
(* A product is its name, its active sizes and its recipe: pairs of a stock *)
(* item and a size, or None for all sizes.  Prices, quantities and texts    *)
(* are copied along and decide nothing.  Names are compared exactly, as     *)
(* transferProduct does; copyAllProducts ignores case and blanks.           *)
EXTENDS Naturals, Sequences, FiniteSets

CONSTANTS
    Names,        \* products of the source, by name
    CategoryOf,   \* the category of each
    SizeNames,
    Items,        \* stock items, by name
    Calls,        \* copying calls, one at a time each
    MaxActs,      \* acts of administrators (bound)
    None

\* Rows of different tables have different ids.
ASSUME CatalogAssumption ==
    /\ None \notin SizeNames
    /\ DOMAIN CategoryOf = Names
    /\ \A n \in Names : CategoryOf[n] \notin Items
    /\ MaxActs \in Nat

VARIABLES
    source,       \* the source's products
    target,       \* rows created in the target, in order; here = FALSE once removed
    categories, items,   \* names of the target's categories and stock items
    pc, seen,     \* a call's next step and its locals
    acts

tables == <<source, target, categories, items>>
vars == <<source, target, categories, items, pc, seen, acts>>

Categories == {CategoryOf[n] : n \in Names}
RecipeRows == Items \X (SizeNames \cup {None})
Contents == [sizes : SUBSET SizeNames, recipe : SUBSET RecipeRows]
Empty == [sizes |-> {}, recipe |-> {}]

\* torn: the product was edited between the queries that read it.  early: edited while
\* its copy was being written.  These two, edited and before only serve the properties.
Rows == [name : Names, sizes : SUBSET SizeNames, recipe : SUBSET RecipeRows, here : BOOLEAN,
         mine : SUBSET SizeNames, by : Calls, from : Contents, torn : BOOLEAN,
         edited : BOOLEAN, early : BOOLEAN, before : Nat]

Steps == {"idle", "recipes", "names", "next", "category", "product", "sizes",
          "item", "recipe", "done", "failed"}

Reads == [all : BOOLEAN, todo : SUBSET Names, read : [Names -> Contents], torn : SUBSET Names,
          before : Nat, known : SUBSET Categories, name : Names \cup {None}, row : Nat,
          made : SUBSET SizeNames, ready : SUBSET Items, 
          lost : SUBSET (Items \cup Categories)]

NoReads == [all |-> FALSE, todo |-> {}, read |-> [n \in Names |-> Empty], torn |-> {}, before |-> 0,
            known |-> {}, name |-> None, row |-> 0, made |-> {}, ready |-> {}, lost |-> {}]

Here == {i \in DOMAIN target : target[i].here}
NamesHere == {target[i].name : i \in Here}

\* The row a call is writing, or had begun when it failed.
Unfinished(i) == seen[target[i].by].row = i

Goto(c, step) == pc' = [pc EXCEPT ![c] = step]
Remember(c, locals, step) == seen' = [seen EXCEPT ![c] = locals] /\ Goto(c, step)

-----------------------------------------------------------------------------
(* Reading.  An include is a query of its own, so that sizes and recipes    *)
(* are read one after the other.                                            *)

ReadProducts(c) ==
    /\ pc[c] = "idle"
    /\ \E all \in BOOLEAN, todo \in SUBSET Names :
         /\ IF all THEN todo = Names ELSE Cardinality(todo) = 1
         /\ Remember(c, [NoReads EXCEPT !.all = all, !.todo = todo,
                           !.read = [n \in Names |-> IF n \in todo THEN [Empty EXCEPT !.sizes = source[n].sizes]
                                                   ELSE Empty]],
                     "recipes")
    /\ UNCHANGED <<tables, acts>>

ReadRecipes(c) ==
    /\ pc[c] = "recipes"
    /\ Remember(c, [seen[c] EXCEPT !.read = [n \in Names |->
                       IF n \in seen[c].todo THEN [@[n] EXCEPT !.recipe = source[n].recipe] ELSE Empty]],
                "names")
    /\ UNCHANGED <<tables, acts>>

\* Mutant: the products of the target are not looked at.
EvenIfThere(todo) == todo

Uncopied(todo) == todo \ NamesHere

\* transferProduct refuses a name it finds; copyAllProducts skips it.
ReadNames(c) ==
    LET todo == Uncopied(seen[c].todo)
    IN  /\ pc[c] = "names"
        /\ Remember(c, [seen[c] EXCEPT !.todo = todo, !.before = Len(target)], "next")
        /\ UNCHANGED <<tables, acts>>

-----------------------------------------------------------------------------
(* Writing: the category, the product, its sizes, its stock items, and the  *)
(* recipe in one statement.                                                 *)

TakeNext(c) ==
    /\ pc[c] = "next"
    /\ \/ seen[c].todo = {} /\ Goto(c, "done") /\ UNCHANGED seen
       \/ \E n \in seen[c].todo :
            Remember(c, [seen[c] EXCEPT !.todo = @ \ {n}, !.name = n],
                     IF CategoryOf[n] \in seen[c].known THEN "product" ELSE "category")
    /\ UNCHANGED <<tables, acts>>

\* ensureCategory and ensureInventoryItem find a row by its name or create it.  A row that
\* another call creates in between fails the call on a unique index, which is Fail.
EnsureCategory(c) ==
    LET category == CategoryOf[seen[c].name]
    IN  /\ pc[c] = "category"
        /\ categories' = categories \cup {category}
        /\ Remember(c, [seen[c] EXCEPT !.known = @ \cup {category}], "product")
        /\ UNCHANGED <<source, target, items, acts>>

CreateProduct(c) ==
    LET n == seen[c].name
    IN  /\ pc[c] = "product"
        /\ CategoryOf[n] \notin seen[c].lost
        /\ target' = Append(target,
               [name |-> n, sizes |-> {}, recipe |-> {}, here |-> TRUE, mine |-> {}, by |-> c,
                from |-> seen[c].read[n], torn |-> n \in seen[c].torn,
                edited |-> FALSE, early |-> FALSE, before |-> seen[c].before])
        /\ Remember(c, [seen[c] EXCEPT !.row = Len(target'), !.made = {}, !.ready = {}, !.lost = @ \ Items],
                    "sizes")
        /\ UNCHANGED <<source, categories, items, acts>>

\* Mutant: one size is enough.
OneSize(c) == IF seen[c].made = {} THEN seen[c].read[seen[c].name].sizes ELSE {}

SizesToMake(c) == seen[c].read[seen[c].name].sizes \ seen[c].made

CreateSize(c) ==
    LET i == seen[c].row
    IN  /\ pc[c] = "sizes"
        /\ \/ \E s \in SizesToMake(c) \ target[i].sizes :
                /\ target[i].here
                /\ target' = [target EXCEPT ![i].sizes = @ \cup {s}, ![i].mine = @ \cup {s}]
                /\ Remember(c, [seen[c] EXCEPT !.made = @ \cup {s}], "sizes")
           \/ /\ SizesToMake(c) = {}
              /\ Goto(c, "item")
              /\ UNCHANGED <<target, seen>>
        /\ UNCHANGED <<source, categories, items, acts>>

ItemsToCheck(c) == {r[1] : r \in seen[c].read[seen[c].name].recipe} \ seen[c].ready

EnsureItem(c) ==
    /\ pc[c] = "item"
    /\ \/ \E i \in ItemsToCheck(c) :
            /\ items' = items \cup {i}
            /\ Remember(c, [seen[c] EXCEPT !.ready = @ \cup {i}], "item")
       \/ ItemsToCheck(c) = {} /\ Goto(c, "recipe") /\ UNCHANGED <<items, seen>>
    /\ UNCHANGED <<source, target, categories, acts>>

\* Mutant: the recipe is copied for all sizes.
WithoutSize(c, r) == <<r[1], None>>

\* A size that was not made falls back to all sizes.
Destination(c, r) == <<r[1], IF r[2] \in seen[c].made THEN r[2] ELSE None>>

\* The rows refer to the ids of the items found and of the sizes made, which must still be
\* there, and are unique.
CreateRecipe(c) ==
    LET i    == seen[c].row
        rows == seen[c].read[seen[c].name].recipe
        new  == {Destination(c, r) : r \in rows}
    IN  /\ pc[c] = "recipe"
        /\ rows # {} =>
             /\ target[i].here
             /\ \A r \in new : r[1] \notin seen[c].lost /\ r[2] \in target[i].mine \cup {None}
             /\ Cardinality(new) = Cardinality(rows)
             /\ new \cap target[i].recipe = {}
        /\ target' = [target EXCEPT ![i].recipe = @ \cup new]
        /\ Remember(c, [seen[c] EXCEPT !.row = 0, !.name = None], "next")
        /\ UNCHANGED <<source, categories, items, acts>>

\* A violated constraint, a lost connection, a crash: what was written stays.
Fail(c) ==
    /\ pc[c] \notin {"idle", "done", "failed"}
    /\ Remember(c, [NoReads EXCEPT !.row = seen[c].row], "failed")
    /\ UNCHANGED <<tables, acts>>

-----------------------------------------------------------------------------
(* What administrators do meanwhile: one transaction or statement each.     *)

\* buildRecipeCreates: every ingredient has a row for each size, or one if there are none.
Recipe(sizes, ingredients) == ingredients \X (IF sizes = {} THEN {None} ELSE sizes)

\* An edit of the sizes alone deletes the recipe rows of sizes and keeps the others.
SizelessRecipe(recipe) == {r \in recipe : r[2] = None}

\* update: a recipe, with sizes given or kept; or sizes alone.
WithRecipe(sizes) ==
    {[sizes |-> sizes, recipe |-> Recipe(sizes, ingredients)] : ingredients \in SUBSET Items \ {{}}}

\* Mutant: sizes that keep their names keep their recipe rows.
UpsertedSizes(recipe) ==
    {[sizes |-> sizes, recipe |-> {r \in recipe : r[2] \in sizes \cup {None}}] : sizes \in SUBSET SizeNames}

WithSizes(recipe) ==
    {[sizes |-> sizes, recipe |-> SizelessRecipe(recipe)] : sizes \in SUBSET SizeNames}

Act == acts < MaxActs /\ acts' = acts + 1

EditSource ==
    /\ Act
    /\ \E n \in Names :
         /\ \E content \in WithSizes(source[n].recipe) \cup UNION {WithRecipe(z) : z \in SUBSET SizeNames} :
              source' = [source EXCEPT ![n] = content]
         /\ seen' = [c \in Calls |-> IF pc[c] = "recipes" /\ n \in seen[c].todo
                                     THEN [seen[c] EXCEPT !.torn = @ \cup {n}] ELSE seen[c]]
    /\ UNCHANGED <<target, categories, items, pc>>

\* A recipe may use any item of the branch.  Sizes that are given get new ids.
EditTarget ==
    /\ Act
    /\ \E i \in Here :
         \E content \in WithSizes(target[i].recipe) \cup UNION {WithRecipe(z) : z \in SUBSET SizeNames},
            kept \in BOOLEAN :
           /\ kept => content \in WithRecipe(target[i].sizes)
           /\ {r[1] : r \in content.recipe} \subseteq items
           /\ target' = [target EXCEPT ![i].sizes = content.sizes, ![i].recipe = content.recipe,
                            ![i].mine = IF kept THEN @ ELSE {},
                            ![i].edited = TRUE, ![i].early = @ \/ Unfinished(i)]
    /\ UNCHANGED <<source, categories, items, pc, seen>>

RemoveProduct ==
    /\ Act
    /\ \E i \in Here : target' = [target EXCEPT ![i].here = FALSE]
    /\ UNCHANGED <<source, categories, items, pc, seen>>

\* A call that holds the id of a deleted row has lost it: a new row of that name is another.
Lose(deleted, holders) ==
    seen' = [c \in Calls |-> IF c \in holders THEN [seen[c] EXCEPT !.lost = @ \cup {deleted}] ELSE seen[c]]

\* Rows that are referred to cannot be deleted.
RemoveItem ==
    /\ Act
    /\ \E item \in items :
         /\ \A i \in Here, r \in RecipeRows : r \in target[i].recipe => r[1] # item
         /\ items' = items \ {item}
         /\ Lose(item, {c \in Calls : item \in seen[c].ready})
    /\ UNCHANGED <<source, target, categories, pc>>

RemoveCategory ==
    /\ Act
    /\ \E category \in categories :
         /\ \A i \in Here : CategoryOf[target[i].name] # category
         /\ categories' = categories \ {category}
         /\ Lose(category, {c \in Calls : category \in seen[c].known})
    /\ UNCHANGED <<source, target, items, pc>>

-----------------------------------------------------------------------------
\* What create and later edits may leave in the source.
Stored ==
    LET Sized(z) == {[sizes |-> z, recipe |-> Recipe(y, ingredients)] :
                        y \in {z, {}}, ingredients \in SUBSET Items}
    IN  UNION {Sized(z) : z \in SUBSET SizeNames}

Init ==
    /\ source \in [Names -> Stored]
    /\ target = <<>>
    /\ categories \in SUBSET Categories
    /\ items \in SUBSET Items
    /\ pc = [c \in Calls |-> "idle"]
    /\ seen = [c \in Calls |-> NoReads]
    /\ acts = 0

Copy(c) ==
    \/ ReadProducts(c) \/ ReadRecipes(c) \/ ReadNames(c) \/ TakeNext(c)
    \/ EnsureCategory(c) \/ CreateProduct(c) \/ CreateSize(c)
    \/ EnsureItem(c) \/ CreateRecipe(c) \/ Fail(c)

Ended == (\A c \in Calls : pc[c] \in {"done", "failed"}) /\ UNCHANGED vars

Next ==
    \/ \E c \in Calls : Copy(c)
    \/ EditSource \/ EditTarget \/ RemoveProduct \/ RemoveItem \/ RemoveCategory
    \/ Ended

Spec == Init /\ [][Next]_vars

-----------------------------------------------------------------------------
(* Properties.                                                              *)

\* Types; and the constraints of the database: a recipe refers to stock items of its
\* branch and to sizes of its product.
TypeOK ==
    /\ source \in [Names -> Stored]
    /\ \A i \in DOMAIN target : target[i] \in Rows
    /\ categories \subseteq Categories /\ items \subseteq Items
    /\ pc \in [Calls -> Steps] /\ seen \in [Calls -> Reads]
    /\ acts \in 0..MaxActs
    /\ \A i \in Here : /\ CategoryOf[target[i].name] \in categories
                       /\ target[i].recipe \subseteq items \X (target[i].sizes \cup {None})

\* A copy that a call has finished, and that nobody has edited, is the product the call has
\* read, with all its sizes and its whole recipe.  Only a product that is edited between the
\* two queries that read it can lose the size of a recipe row.  What a call was writing when
\* it failed stays as it is, and later copies skip it by its name.
CopiesAreWhole ==
    \A i \in Here :
        ~target[i].edited /\ ~Unfinished(i) =>
            LET copy == target[i]
            IN  /\ copy.sizes = copy.from.sizes
                /\ {r[1] : r \in copy.recipe} = {r[1] : r \in copy.from.recipe}
                /\ copy.recipe = copy.from.recipe \/ copy.torn

\* Two copies of one product stand side by side only if the later one's call looked for the
\* name before the earlier one was created.
CopiesHaveNewNames ==
    \A i, j \in Here :
        i < j /\ target[i].name = target[j].name =>
            target[j].before < i /\ target[i].by # target[j].by

\* Every ingredient of a product has a row for all sizes or one for each size, as the
\* deduction of stock needs; unless the product was edited while it was read or written.
EverySizeHasItsIngredients ==
    \A i \in Here :
        \/ target[i].torn \/ target[i].early
        \/ \A r \in target[i].recipe :
             \/ <<r[1], None>> \in target[i].recipe
             \/ \A s \in target[i].sizes : <<r[1], s>> \in target[i].recipe
=============================================================================
