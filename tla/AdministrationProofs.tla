------------------------- MODULE AdministrationProofs -------------------------
(* Theorems of Administration for every set of requests, users and branches *)
(* and whatever the requests ask for.                                       *)
EXTENDS Administration, TLAPS

\* The kinds of calls that come to a step, and what they carry and have read.
Fits(r) ==
    /\ pc[r] # "idle" => call[r] \in Calls
    /\ pc[r] \in {"validate", "sync"} =>
         call[r].kind \in {"create", "edit", "assign"} /\ call[r].to \in SUBSET Branches
    /\ pc[r] = "insert" => call[r].kind = "create"
    /\ pc[r] = "write" => call[r].kind = "edit" /\ local[r].row \in User
    /\ pc[r] = "unassign" => call[r].kind = "edit"
    /\ pc[r] = "token" => call[r].kind = "login" /\ local[r].row \in User
    /\ pc[r] = "find" => call[r].kind = "switch"
    /\ pc[r] = "access" => call[r].kind = "switch" /\ local[r].row \in User
    /\ pc[r] = "me" => call[r].kind \in {"login", "switch"}
    /\ pc[r] = "show" => call[r].kind \in {"login", "switch"} /\ local[r].row \in User
    /\ pc[r] \in {"guard", "again"} =>
         call[r].kind \in {"store", "loyalty", "video", "hold"} /\ local[r].row \in User
    /\ pc[r] = "again" => local[r].row.role = "ADMIN" /\ local[r].where \in Branches
    /\ pc[r] \in {"read", "save"} =>
         call[r].kind \in {"store", "loyalty", "video"} /\ local[r].where \in Branches
    /\ pc[r] = "hold" => call[r].kind = "hold" /\ local[r].where \in Branches
    /\ pc[r] = "save" => local[r].copy \in [FieldsOf(Key(r)) -> Values]

ControlInv == \A r \in Requests : Fits(r)

-----------------------------------------------------------------------------
\* What the calls of each kind carry.
LEMMA CallFields ==
    ASSUME NEW k \in Calls
    PROVE  /\ k # None
           /\ k.kind \in {"create", "edit", "assign", "drop", "login", "switch", "store", "loyalty",
                         "video", "hold"} => k.user \in Users
           /\ k.kind = "create" => /\ k.role \in Roles /\ k.home \in Branches \cup {None}
                                  /\ k.to \in SUBSET Branches
           /\ k.kind = "edit" => /\ k.role \in Roles \cup {None} /\ k.home \in Branches \cup {None}
                                /\ k.to \in (SUBSET Branches) \cup {None}
                                /\ k.active \in BOOLEAN \cup {None}
           /\ k.kind = "assign" => k.to \in SUBSET Branches
           /\ k.kind \in {"open", "toggle", "close"} => k.branch \in Branches
           /\ k.kind = "switch" => k.to \in Branches
           /\ k.kind \in {"store", "loyalty", "video", "hold"} => k.header \in Branches \cup {None}
           /\ k.kind \in {"store", "loyalty"} => k.patch \in Patches(k.kind)
           /\ k.kind \in {"create", "edit", "assign", "drop", "login", "open", "toggle", "close",
                         "switch", "store", "loyalty", "video", "hold"}
  BY NoneIsNoRow DEF Calls

\* Requests come in with calls of their kinds.
LEMMA Incoming ==
    ASSUME NEW r \in Requests, NEW kinds, NEW k \in In(r, kinds)
    PROVE  At(r, "idle") /\ k \in Calls /\ k.kind \in kinds
  BY AskedAreCalls DEF In, New

\* What a request notes down is of the right type, and leaves its other notes and those of
\* the others alone.
Others(r, new) ==
    new \in [Requests -> Local] /\ \A q \in Requests \ {r} : new[q] = local[q]

\* Noting the branch of a request leaves what else is noted, and the others' notes.
LEMMA NoteWhere ==
    ASSUME local \in [Requests -> Local], NEW r \in Requests, NEW b \in Branches \cup {None}
    PROVE  LET new == [local EXCEPT ![r].where = b]
           IN  /\ Others(r, new)
               /\ new[r].where = b /\ new[r].row = local[r].row /\ new[r].copy = local[r].copy
               /\ new[r].wrote = local[r].wrote
  BY DEF Local, Others

\* The same of the branch shown to it.
LEMMA NoteShown ==
    ASSUME local \in [Requests -> Local], NEW r \in Requests, NEW b \in Branches \cup {None}
    PROVE  LET new == [local EXCEPT ![r].shown = b]
           IN  Others(r, new) /\ new[r].row = local[r].row /\ new[r].wrote = local[r].wrote
  BY DEF Local, Others

\* The same of the row of its user.
LEMMA NoteRow ==
    ASSUME local \in [Requests -> Local], NEW r \in Requests, NEW row \in User \cup {None}
    PROVE  LET new == [local EXCEPT ![r].row = row]
           IN  Others(r, new) /\ new[r].row = row /\ new[r].wrote = local[r].wrote
  BY DEF Local, Others

\* The same of a step that notes the row.
LEMMA RowNoted ==
    ASSUME local \in [Requests -> Local], NEW r \in Requests, NEW row \in User \cup {None},
           local' = [local EXCEPT ![r].row = row]
    PROVE  Others(r, local') /\ local'[r].row = row
  BY DEF Local, Others

\* The same of a step that notes the row and the branch.
LEMMA TokenNoted ==
    ASSUME local \in [Requests -> Local], NEW r \in Requests, NEW row \in User \cup {None},
           NEW b \in Branches \cup {None}, local' = [local EXCEPT ![r].row = row, ![r].where = b]
    PROVE  Others(r, local') /\ local'[r].row = row /\ local'[r].where = b
<1>1. local[r] \in Local
  OBVIOUS
<1>2. local' = [local EXCEPT ![r] = [local[r] EXCEPT !.row = row, !.where = b]]
  BY <1>1 DEF Local
<1> DEFINE new == [local[r] EXCEPT !.row = row, !.where = b]
<1>3. new \in Local /\ new.row = row /\ new.where = b
  BY <1>1 DEF Local
<1> HIDE DEF new
<1> QED BY <1>2, <1>3 DEF Others, new

\* The same of the row and the branches assigned.
LEMMA NotePages ==
    ASSUME local \in [Requests -> Local], NEW r \in Requests, NEW row \in User \cup {None},
           NEW to \in SUBSET Branches
    PROVE  LET new == [local EXCEPT ![r].row = row, ![r].pages = to]
           IN  Others(r, new) /\ new[r].row = row /\ new[r].wrote = local[r].wrote
  BY DEF Local, Others

\* The same of the copy of the settings.
LEMMA NoteCopy ==
    ASSUME local \in [Requests -> Local], NEW r \in Requests,
           NEW copy \in Contents
    PROVE  LET new == [local EXCEPT ![r].copy = copy]
           IN  /\ Others(r, new)
               /\ new[r].copy = copy /\ new[r].where = local[r].where /\ new[r].wrote = local[r].wrote
  BY DEF Local, Others

\* The same of the mark that it has written the account.
LEMMA NoteWrote ==
    ASSUME local \in [Requests -> Local], NEW r \in Requests
    PROVE  LET new == [local EXCEPT ![r].wrote = TRUE]
           IN  Others(r, new) /\ new[r].row = local[r].row
  BY DEF Local, Others

-----------------------------------------------------------------------------
\* The decisions about branches return branches.
LEMMA BranchTypes ==
    ASSUME NEW role, NEW user \in User \cup {None}, NEW to \in SUBSET Branches
    PROVE  BranchesFor(role, user, to, Open) \in SUBSET Branches
<1>1. Open \in SUBSET Branches
  BY DEF Open
<1>2. user # None => user.home \in Branches \cup {None}
  BY DEF User
<1> QED BY <1>1, <1>2 DEF BranchesFor

\* A token and an answer name branches, or none.
LEMMA AnswerTypes ==
    ASSUME NEW user \in User, NEW bs \in SUBSET Branches, NEW b \in Branches \cup {None}
    PROVE  /\ TokenBranches(user, bs) \in SUBSET (Branches \cup {None})
           /\ ShownBranches(user, bs, b) \in SUBSET (Branches \cup {None})
<1>1. user.home \in Branches \cup {None}
  BY DEF User
<1>2. TokenBranches(user, bs) \in SUBSET (Branches \cup {None})
  BY <1>1 DEF TokenBranches, AnyOf
<1> QED BY <1>1, <1>2 DEF ShownBranches

\* The branch a guard settles on is a branch, or none.
LEMMA AskedTypes ==
    ASSUME NEW user \in User, NEW header \in Branches \cup {None}, NEW b \in Branches \cup {None}
    PROVE  /\ AskedBranch(user, header, b) \in Branches \cup {None}
           /\ HomeOnly(user, header) \in SUBSET Branches
<1>1. user.home \in Branches \cup {None}
  BY DEF User
<1> QED BY <1>1 DEF AskedBranch, HomeOnly, First

\* The rows of known users.
LEMMA KnownRows ==
    ASSUME TypeOK, NEW u \in Users
    PROVE  Row(u) \in User \cup {None} /\ (Known(u) => users[u] \in User) /\ (Row(u) # None => Known(u))
  BY DEF TypeOK, Row, Known

\* A request comes in, or goes on.
Advances(r) == pc'[r] \in Steps \ {"idle"} /\ pc' = [pc EXCEPT ![r] = pc'[r]]

Comes(r)  == At(r, "idle") /\ (\E k \in Calls : Arrive(r, k)) /\ Advances(r)
GoesOn(r) == pc[r] \notin Ended \cup {"idle"} /\ UNCHANGED <<call, before>> /\ Advances(r)

Moves(r) == (Comes(r) \/ GoesOn(r)) /\ Others(r, local')

\* A request that goes to a step other than "idle" advances.
LEMMA Advance ==
    ASSUME TypeOK, NEW r \in Requests, NEW step \in Steps \ {"idle"}, Goto(r, step)
    PROVE  Advances(r) /\ pc'[r] = step
  BY DEF TypeOK, Goto, Advances

\* A step that notes nothing leaves all notes.
LEMMA Same ==
    ASSUME TypeOK, NEW r \in Requests, UNCHANGED local
    PROVE  Others(r, local') /\ local'[r] = local[r]
  BY DEF TypeOK, Others

\* What the handlers of accounts and branches do to their call.
LEMMA AccountMoves ==
    ASSUME TypeOK, ControlInv, NEW r \in Requests,
           \/ CreateFind(r) \/ Insert(r) \/ EditFind(r) \/ Write(r) \/ Unassign(r) \/ AssignFind(r)
           \/ Validate(r) \/ Sync(r) \/ Drop(r) \/ OpenBranch(r) \/ ToggleBranch(r) \/ CloseBranch(r)
    PROVE  Moves(r) /\ Fits(r)'
<1> USE DEF At, Steps, Ended, Moves, Comes, GoesOn, Refuse, Proceed
<1>0. /\ pc \in [Requests -> Steps] /\ call \in [Requests -> Calls \cup {None}]
      /\ local \in [Requests -> Local] /\ Fits(r)
  BY DEF TypeOK, ControlInv
<1>1. CASE CreateFind(r)
  <2>1. PICK k \in In(r, {"create"}) :
          /\ Arrive(r, k)
          /\ Goto(r, IF Known(k.user) \/ (k.role = "CASHIER" /\ k.home = None) THEN "refused"
                     ELSE IF k.role = "ADMIN" THEN "validate" ELSE "insert")
    BY <1>1 DEF CreateFind
  <2>2. pc[r] = "idle" /\ k \in Calls /\ k.kind = "create" /\ k.to \in SUBSET Branches /\ call'[r] = k
    BY <1>0, <2>1, Incoming, CallFields DEF Arrive
  <2>3. Others(r, local')
    BY <1>1, Same DEF CreateFind
  <2>4. Advances(r) /\ pc'[r] \in {"refused", "validate", "insert"}
    BY <2>1, Advance
  <2> QED BY <2>1, <2>2, <2>3, <2>4 DEF Fits
<1>2. CASE Insert(r)
  <2>1. Others(r, local')
    BY <1>0, <1>2, Same, NoteWrote DEF Insert
  <2>2. /\ pc[r] = "insert" /\ UNCHANGED <<call, before>>
    BY <1>2 DEF Insert
  <2>3. call[r].to \in SUBSET Branches /\ call[r].kind = "create"
    BY <1>0, <2>2, CallFields DEF Fits
  <2>4. Advances(r) /\ pc'[r] \in {"refused", "sync", "done"}
    BY <1>2, Advance DEF Insert
  <2> QED BY <1>0, <2>1, <2>2, <2>3, <2>4 DEF Fits
<1>3. CASE EditFind(r)
  <2>1. PICK k \in In(r, {"edit"}) :
          /\ Arrive(r, k)
          /\ \/ Goto(r, "refused") /\ UNCHANGED local
             \/ /\ Known(k.user) /\ Goto(r, "write")
                /\ local' = [local EXCEPT ![r].row = users[k.user]]
    BY <1>3 DEF EditFind
  <2>2. pc[r] = "idle" /\ k \in Calls /\ k.kind = "edit" /\ call'[r] = k /\ k.user \in Users
    BY <1>0, <2>1, Incoming, CallFields DEF Arrive
  <2>3. CASE Goto(r, "refused") /\ UNCHANGED local
    <3>1. Advances(r) /\ pc'[r] = "refused" /\ Others(r, local')
      BY <2>3, Advance, Same
    <3> QED BY <2>1, <2>2, <3>1 DEF Fits
  <2>4. CASE /\ Known(k.user) /\ Goto(r, "write")
             /\ local' = [local EXCEPT ![r].row = users[k.user]]
    <3>0. users[k.user] \in User
      BY <2>2, <2>4, KnownRows
    <3>1. Others(r, local') /\ local'[r].row \in User
      BY <1>0, <2>4, <3>0, RowNoted
    <3>2. Advances(r) /\ pc'[r] = "write"
      BY <2>4, Advance
    <3> QED BY <2>1, <2>2, <3>1, <3>2 DEF Fits
  <2> QED BY <2>1, <2>3, <2>4
<1>4. CASE Write(r)
  <2>1. Others(r, local')
    BY <1>0, <1>4, Same, NoteWrote DEF Write
  <2>2. pc[r] = "write" /\ UNCHANGED <<call, before>> /\ call[r].kind = "edit" /\ call[r] \in Calls
    BY <1>0, <1>4 DEF Write, Fits
  <2> DEFINE next == IF RoleName(r) # "ADMIN" THEN IF call[r].role # None THEN "unassign" ELSE "done"
                     ELSE IF call[r].to # None THEN "validate"
                     ELSE IF call[r].role # None /\ local[r].row.role # "ADMIN" THEN "refused" ELSE "done"
  <2>3. Goto(r, "refused") \/ Goto(r, next)
    BY <1>4 DEF Write
  <2>4. next \in {"refused", "unassign", "done"} \/ (next = "validate" /\ call[r].to # None)
    OBVIOUS
  <2> HIDE DEF next
  <2>5. /\ Advances(r)
        /\ pc'[r] \in {"refused", "unassign", "done"} \/ (pc'[r] = "validate" /\ call[r].to # None)
    BY <2>3, <2>4, Advance
  <2>6. call[r].to \in (SUBSET Branches) \cup {None}
    BY <2>2, CallFields
  <2>7. pc'[r] = "validate" => call[r].to \in SUBSET Branches
    BY <2>5, <2>6
  <2>8. Moves(r)
    BY <2>1, <2>2, <2>5
  <2>9. pc'[r] \in {"refused", "unassign", "done", "validate"}
    BY <2>5
  <2> QED BY <2>2, <2>7, <2>8, <2>9 DEF Fits
<1>5. CASE Unassign(r)
  <2>1. Advances(r) /\ pc'[r] = "done" /\ Others(r, local')
    BY <1>5, Advance, Same DEF Unassign
  <2> QED BY <1>0, <1>5, <2>1 DEF Unassign, Fits
<1>6. CASE AssignFind(r)
  <2>1. PICK k \in In(r, {"assign"}) :
          /\ Arrive(r, k)
          /\ Goto(r, IF Known(k.user) /\ users[k.user].role = "ADMIN" THEN "validate" ELSE "refused")
    BY <1>6 DEF AssignFind
  <2>2. pc[r] = "idle" /\ k \in Calls /\ k.kind = "assign" /\ k.to \in SUBSET Branches /\ call'[r] = k
    BY <1>0, <2>1, Incoming, CallFields DEF Arrive
  <2>3. Others(r, local')
    BY <1>6, Same DEF AssignFind
  <2>4. Advances(r) /\ pc'[r] \in {"validate", "refused"}
    BY <2>1, Advance
  <2> QED BY <2>1, <2>2, <2>3, <2>4 DEF Fits
<1>7. CASE Validate(r)
  <2>1. Others(r, local')
    BY <1>7, Same DEF Validate
  <2>2. pc[r] = "validate" /\ UNCHANGED <<call, before>>
    BY <1>7 DEF Validate
  <2> DEFINE next == IF call[r].to = {} \/ ~(call[r].to \subseteq Open) THEN "refused"
                     ELSE IF call[r].kind = "create" THEN "insert" ELSE "sync"
  <2>3. Goto(r, next) /\ next \in {"refused", "insert", "sync"} /\ (next = "insert" => call[r].kind = "create")
    BY <1>7 DEF Validate
  <2> HIDE DEF next
  <2>4. Advances(r) /\ pc'[r] = next
    BY <2>3, Advance
  <2> QED BY <1>0, <2>1, <2>2, <2>3, <2>4 DEF Fits
<1>8. CASE Sync(r)
  <2>1. Others(r, local')
    BY <1>0, <1>8, Same, NoteWrote DEF Sync
  <2>2. pc[r] = "sync" /\ UNCHANGED <<call, before>> /\ (Goto(r, "refused") \/ Goto(r, "done"))
    BY <1>8 DEF Sync
  <2>3. Advances(r) /\ pc'[r] \in {"refused", "done"}
    BY <2>2, Advance
  <2> QED BY <1>0, <2>1, <2>2, <2>3 DEF Fits
<1>9. CASE Drop(r) \/ OpenBranch(r) \/ ToggleBranch(r) \/ CloseBranch(r)
  <2>1. PICK k \in In(r, {"drop", "open", "toggle", "close"}) :
          Arrive(r, k) /\ (Goto(r, "refused") \/ Goto(r, "done"))
    BY <1>9 DEF Drop, OpenBranch, ToggleBranch, CloseBranch, In
  <2>2. pc[r] = "idle" /\ k \in Calls /\ call'[r] = k
    BY <1>0, <2>1, Incoming DEF Arrive
  <2>3. Others(r, local')
    BY <1>9, Same DEF Drop, OpenBranch, ToggleBranch, CloseBranch
  <2>4. Advances(r) /\ pc'[r] \in {"refused", "done"}
    BY <2>1, Advance
  <2> QED BY <2>1, <2>2, <2>3, <2>4 DEF Fits
<1> QED BY <1>1, <1>2, <1>3, <1>4, <1>5, <1>6, <1>7, <1>8, <1>9

\* What sign-in does to its call.
LEMMA SignInMoves ==
    ASSUME TypeOK, ControlInv, NEW r \in Requests,
           Login(r) \/ Token(r) \/ SwitchFind(r) \/ SwitchAccess(r) \/ Me(r) \/ Show(r)
    PROVE  Moves(r) /\ Fits(r)'
<1> USE DEF At, Steps, Ended, Moves, Comes, GoesOn, Refuse, Proceed
<1>0. /\ pc \in [Requests -> Steps] /\ call \in [Requests -> Calls \cup {None}]
      /\ local \in [Requests -> Local] /\ Fits(r)
      /\ assigned \in [Users -> SUBSET Branches]
      /\ local[r].where \in Branches \cup {None}
  BY DEF TypeOK, ControlInv, Standing, Local
<1>1. CASE Login(r)
  <2>1. PICK k \in In(r, {"login"}) :
          /\ Arrive(r, k)
          /\ \/ Goto(r, "refused") /\ UNCHANGED local
             \/ /\ Known(k.user) /\ Goto(r, "token")
                /\ local' = [local EXCEPT ![r].row = users[k.user]]
    BY <1>1 DEF Login
  <2>2. pc[r] = "idle" /\ k \in Calls /\ k.kind = "login" /\ call'[r] = k /\ k.user \in Users
    BY <1>0, <2>1, Incoming, CallFields DEF Arrive
  <2>3. CASE Goto(r, "refused") /\ UNCHANGED local
    <3>1. Advances(r) /\ pc'[r] = "refused" /\ Others(r, local')
      BY <2>3, Advance, Same
    <3> QED BY <2>1, <2>2, <3>1 DEF Fits
  <2>4. CASE /\ Known(k.user) /\ Goto(r, "token")
             /\ local' = [local EXCEPT ![r].row = users[k.user]]
    <3>0. users[k.user] \in User
      BY <2>2, <2>4, KnownRows
    <3>1. Others(r, local') /\ local'[r].row \in User
      BY <1>0, <2>4, <3>0, RowNoted
    <3>2. Advances(r) /\ pc'[r] = "token"
      BY <2>4, Advance
    <3> QED BY <2>1, <2>2, <3>1, <3>2 DEF Fits
  <2> QED BY <2>1, <2>3, <2>4
<1>2. pc[r] \in {"token", "find", "access", "me", "show"} => call[r] \in Calls /\ call[r].user \in Users
  BY <1>0, CallFields DEF Fits
<1> DEFINE u == call[r].user
<1>3. CASE Token(r)
  <2>1. pc[r] = "token" /\ UNCHANGED <<call, before>> /\ Goto(r, "me")
    BY <1>3 DEF Token
  <2>2. u \in Users /\ local[r].row \in User /\ call[r].kind = "login" /\ call[r] \in Calls
    BY <1>0, <1>2, <2>1 DEF Fits
  <2>3. PICK b \in TokenBranches(local[r].row, BranchesFor(local[r].row.role, Row(u), assigned[u], Open)) :
           local' = [local EXCEPT ![r].where = b]
    BY <1>3 DEF Token
  <2>4. b \in Branches \cup {None}
    BY <1>0, <2>2, <2>3, KnownRows, BranchTypes, AnswerTypes
  <2>5. Others(r, local')
    BY <1>0, <2>3, <2>4, NoteWhere
  <2>6. Advances(r) /\ pc'[r] = "me"
    BY <2>1, Advance
  <2> QED BY <2>1, <2>2, <2>5, <2>6 DEF Fits
<1>4. CASE SwitchFind(r)
  <2>1. /\ pc[r] = "find" /\ UNCHANGED <<call, before>>
        /\ \/ Goto(r, "refused") /\ UNCHANGED local
           \/ Known(u) /\ Goto(r, "access") /\ local' = [local EXCEPT ![r].row = users[u]]
    BY <1>4 DEF SwitchFind
  <2>2. u \in Users /\ call[r].kind = "switch" /\ call[r] \in Calls
    BY <1>0, <1>2, <2>1 DEF Fits
  <2>3. CASE Goto(r, "refused") /\ UNCHANGED local
    <3>1. Advances(r) /\ pc'[r] = "refused" /\ Others(r, local')
      BY <2>3, Advance, Same
    <3> QED BY <2>1, <2>2, <3>1 DEF Fits
  <2>4. CASE Known(u) /\ Goto(r, "access") /\ local' = [local EXCEPT ![r].row = users[u]]
    <3>0. users[u] \in User
      BY <2>2, <2>4, KnownRows
    <3>1. Others(r, local') /\ local'[r].row \in User
      BY <1>0, <2>4, <3>0, RowNoted
    <3>2. Advances(r) /\ pc'[r] = "access"
      BY <2>4, Advance
    <3> QED BY <2>1, <2>2, <3>1, <3>2 DEF Fits
  <2> QED BY <2>1, <2>3, <2>4
<1>5. CASE SwitchAccess(r)
  <2>1. /\ pc[r] = "access" /\ UNCHANGED <<call, before>>
        /\ \/ Goto(r, "refused") /\ UNCHANGED local
           \/ Goto(r, "me") /\ local' = [local EXCEPT ![r].where = call[r].to]
    BY <1>5 DEF SwitchAccess
  <2>2. call[r].kind = "switch" /\ call[r] \in Calls /\ call[r].to \in Branches
    BY <1>0, <1>2, <2>1, CallFields DEF Fits
  <2>3. Others(r, local')
    BY <1>0, <2>1, <2>2, Same, NoteWhere
  <2>4. Advances(r) /\ pc'[r] \in {"refused", "me"}
    BY <2>1, Advance
  <2> QED BY <2>1, <2>2, <2>3, <2>4 DEF Fits
<1>6. CASE Me(r)
  <2>1. /\ pc[r] = "me" /\ UNCHANGED <<call, before>>
        /\ \/ Goto(r, "refused") /\ UNCHANGED local
           \/ /\ Row(u) # None /\ Goto(r, "show")
              /\ local' = [local EXCEPT ![r].row = users[u], ![r].pages = assigned[u]]
    BY <1>6 DEF Me
  <2>2. u \in Users /\ call[r].kind \in {"login", "switch"} /\ call[r] \in Calls
    BY <1>0, <1>2, <2>1 DEF Fits
  <2>3. CASE Goto(r, "refused") /\ UNCHANGED local
    <3>1. Advances(r) /\ pc'[r] = "refused" /\ Others(r, local')
      BY <2>3, Advance, Same
    <3> QED BY <2>1, <2>2, <3>1 DEF Fits
  <2>4. CASE /\ Row(u) # None /\ Goto(r, "show")
             /\ local' = [local EXCEPT ![r].row = users[u], ![r].pages = assigned[u]]
    <3>1. Others(r, local') /\ local'[r].row \in User
      <4>1. users[u] \in User /\ assigned[u] \in SUBSET Branches
        BY <1>0, <2>2, <2>4, KnownRows
      <4> DEFINE row == users[u]
                 to  == assigned[u]
      <4>2. row \in User \cup {None} /\ to \in SUBSET Branches
        BY <4>1
      <4>3. local' = [local EXCEPT ![r].row = row, ![r].pages = to]
        BY <2>4
      <4> HIDE DEF row, to
      <4>4. Others(r, local') /\ local'[r].row = row
        BY <1>0, <4>2, <4>3, NotePages
      <4> QED BY <4>1, <4>4 DEF row
    <3>2. Advances(r) /\ pc'[r] = "show"
      BY <2>4, Advance
    <3> QED BY <2>1, <2>2, <3>1, <3>2 DEF Fits
  <2> QED BY <2>1, <2>3, <2>4
<1>7. CASE Show(r)
  <2>1. pc[r] = "show" /\ UNCHANGED <<call, before>> /\ Goto(r, "done")
    BY <1>7 DEF Show
  <2>2. u \in Users /\ local[r].row \in User /\ call[r] \in Calls
    BY <1>0, <1>2, <2>1 DEF Fits
  <2>3. PICK b \in ShownBranches(local[r].row, Allowed(r), local[r].where) :
           local' = [local EXCEPT ![r].shown = b]
    BY <1>7 DEF Show
  <2>7. Allowed(r) \in SUBSET Branches
    BY <1>0, <2>2, KnownRows, BranchTypes DEF Allowed
  <2>4. b \in Branches \cup {None}
    BY <1>0, <2>2, <2>3, <2>7, AnswerTypes
  <2>5. Others(r, local')
    BY <1>0, <2>3, <2>4, NoteShown
  <2>6. Advances(r) /\ pc'[r] = "done"
    BY <2>1, Advance
  <2> QED BY <2>1, <2>2, <2>5, <2>6 DEF Fits
<1> QED BY <1>1, <1>3, <1>4, <1>5, <1>6, <1>7

\* A call is let through to its handler, or refused for its role.
LEMMA BehindMoves ==
    ASSUME TypeOK, NEW r \in Requests, NEW b \in Branches, Behind(r, b),
           call[r].kind \in {"store", "loyalty", "video", "hold"}
    PROVE  /\ Advances(r) /\ Others(r, local')
           /\ \/ pc'[r] = "refused"
              \/ pc'[r] = "hold" /\ call[r].kind = "hold" /\ local'[r].where = b
              \/ pc'[r] = "read" /\ call[r].kind # "hold" /\ local'[r].where = b
<1>1. CASE Refuse(r)
  BY <1>1, Advance, Same DEF Refuse, Steps, Ended
<1>2. CASE /\ local' = [local EXCEPT ![r].where = b]
           /\ Goto(r, IF call[r].kind = "hold" THEN "hold" ELSE "read")
  <2>1. Others(r, local') /\ local'[r].where = b
    BY <1>2, NoteWhere DEF TypeOK
  <2> QED BY <1>2, <2>1, Advance DEF Steps
<1> QED BY <1>1, <1>2 DEF Behind

\* The default settings are typed.
LEMMA SettingsTypes ==
    /\ DOMAIN Defaults = {"store", "loyalty"}
    /\ \A key \in {"store", "loyalty"} : Defaults[key] \in [FieldsOf(key) -> Values]
  BY DEF Defaults, Values

\* What the guards, the settings and a break-off do to their call.
LEMMA GuardMoves ==
    ASSUME TypeOK, ControlInv, NEW r \in Requests,
           \/ Authenticate(r) \/ Guard(r) \/ GuardAgain(r)
           \/ ReadSettings(r) \/ SaveSettings(r) \/ Hold(r) \/ Fail(r)
    PROVE  Moves(r) /\ Fits(r)'
<1> USE DEF At, Steps, Ended, Moves, Comes, GoesOn, Proceed
<1>0. /\ pc \in [Requests -> Steps] /\ call \in [Requests -> Calls \cup {None}]
      /\ local \in [Requests -> Local] /\ Fits(r)
      /\ assigned \in [Users -> SUBSET Branches]
      /\ tokens \in [Users -> SUBSET (Branches \cup {None})]
      /\ local[r].where \in Branches \cup {None}
  BY DEF TypeOK, ControlInv, Standing, Local
<1>1. CASE Authenticate(r)
  <2>0. PICK k \in In(r, {"switch", "store", "loyalty", "video", "hold"}) : \E t \in tokens[k.user] :
          /\ Arrive(r, k)
          /\ \/ Goto(r, "refused") /\ UNCHANGED local
             \/ /\ MaySignOn(k.user)
                /\ local' = [local EXCEPT ![r].row = users[k.user], ![r].where = t]
                /\ Goto(r, IF k.kind = "switch" THEN "find" ELSE "guard")
    BY <1>1 DEF Authenticate, Refuse
  <2>1. PICK t \in tokens[k.user] :
          /\ Arrive(r, k)
          /\ \/ Goto(r, "refused") /\ UNCHANGED local
             \/ /\ MaySignOn(k.user)
                /\ local' = [local EXCEPT ![r].row = users[k.user], ![r].where = t]
                /\ Goto(r, IF k.kind = "switch" THEN "find" ELSE "guard")
    BY <2>0
  <2>2. /\ pc[r] = "idle" /\ k \in Calls /\ call'[r] = k /\ k.user \in Users
        /\ k.kind \in {"switch", "store", "loyalty", "video", "hold"}
    BY <1>0, <2>1, Incoming, CallFields DEF Arrive
  <2>3. CASE Goto(r, "refused") /\ UNCHANGED local
    <3>1. Advances(r) /\ pc'[r] = "refused" /\ Others(r, local')
      BY <2>3, Advance, Same
    <3> QED BY <2>1, <2>2, <3>1 DEF Fits
  <2>4. CASE /\ MaySignOn(k.user)
             /\ local' = [local EXCEPT ![r].row = users[k.user], ![r].where = t]
             /\ Goto(r, IF k.kind = "switch" THEN "find" ELSE "guard")
    <3> DEFINE row == users[k.user]
    <3>1. row \in User /\ t \in Branches \cup {None}
      BY <1>0, <2>2, <2>4, KnownRows DEF MaySignOn
    <3>2. local' = [local EXCEPT ![r].row = row, ![r].where = t]
      BY <2>4
    <3> HIDE DEF row
    <3>3. Others(r, local') /\ local'[r].row = row
      BY <1>0, <3>1, <3>2, TokenNoted
    <3>4. Advances(r) /\ pc'[r] = IF k.kind = "switch" THEN "find" ELSE "guard"
      BY <2>4, Advance
    <3> QED BY <2>1, <2>2, <3>1, <3>3, <3>4 DEF Fits
  <2> QED BY <2>1, <2>3, <2>4
<1>2. pc[r] \in {"guard", "again"} =>
        /\ call[r] \in Calls /\ call[r].user \in Users /\ call[r].header \in Branches \cup {None}
        /\ local[r].row \in User /\ call[r].kind \in {"store", "loyalty", "video", "hold"}
        /\ Allowed(r) \in SUBSET Branches
  <2>1. SUFFICES ASSUME pc[r] \in {"guard", "again"}
                 PROVE  /\ call[r] \in Calls /\ call[r].user \in Users
                        /\ call[r].header \in Branches \cup {None}
                        /\ local[r].row \in User
                        /\ call[r].kind \in {"store", "loyalty", "video", "hold"}
                        /\ Allowed(r) \in SUBSET Branches
    OBVIOUS
  <2>2. /\ call[r] \in Calls /\ local[r].row \in User
        /\ call[r].kind \in {"store", "loyalty", "video", "hold"}
    BY <1>0, <2>1 DEF Fits
  <2>3. call[r].user \in Users /\ call[r].header \in Branches \cup {None}
    BY <2>2, CallFields
  <2>4. Allowed(r) \in SUBSET Branches
    BY <1>0, <2>3, KnownRows, BranchTypes DEF Allowed
  <2> QED BY <2>2, <2>3, <2>4
<1>3. ASSUME NEW b \in Branches, Behind(r, b), pc[r] \in {"guard", "again"}, UNCHANGED <<call, before>>
      PROVE  Moves(r) /\ Fits(r)'
  BY <1>0, <1>2, <1>3, BehindMoves DEF Fits
<1>4. ASSUME Refuse(r), pc[r] \in {"guard", "again", "save"}, UNCHANGED <<call, before>>
      PROVE  Moves(r) /\ Fits(r)'
  <2>1. Advances(r) /\ pc'[r] = "refused" /\ Others(r, local')
    BY <1>4, Advance, Same DEF Refuse
  <2> QED BY <1>0, <1>4, <2>1 DEF Fits
<1>5. CASE Guard(r)
  <2> DEFINE row == local[r].row
             asked == AskedBranch(row, call[r].header, local[r].where)
  <2>1. pc[r] = "guard" /\ UNCHANGED <<call, before>>
    BY <1>5 DEF Guard
  <2>2. asked \in Branches \cup {None} /\ HomeOnly(row, call[r].header) \in SUBSET Branches
    BY <1>0, <1>2, <2>1, AskedTypes
  <2>3. \/ Refuse(r)
        \/ \E b \in HomeOnly(row, call[r].header) \cup Allowed(r) : Behind(r, b)
        \/ asked # None /\ Behind(r, asked)
        \/ /\ row.role = "ADMIN" /\ asked # None
           /\ local' = [local EXCEPT ![r].where = asked] /\ Goto(r, "again")
    BY <1>5 DEF Guard
  <2>4. CASE /\ row.role = "ADMIN" /\ asked # None
             /\ local' = [local EXCEPT ![r].where = asked] /\ Goto(r, "again")
    <3> HIDE DEF asked
    <3>1. /\ Others(r, local') /\ local'[r].where = asked /\ local'[r].row = local[r].row
          /\ asked \in Branches
      BY <1>0, <2>2, <2>4, NoteWhere
    <3>2. Advances(r) /\ pc'[r] = "again"
      BY <2>4, Advance
    <3> QED BY <1>2, <2>1, <2>4, <3>1, <3>2 DEF Fits
  <2> HIDE DEF asked
  <2> QED BY <1>2, <1>3, <1>4, <2>1, <2>2, <2>3, <2>4
<1>6. CASE GuardAgain(r)
  <2>1. pc[r] = "again" /\ UNCHANGED <<call, before>> /\ (Refuse(r) \/ Behind(r, local[r].where))
    BY <1>6 DEF GuardAgain
  <2> QED BY <1>0, <1>3, <1>4, <2>1 DEF Fits
<1>7. CASE ReadSettings(r)
  <2>1. /\ pc[r] = "read" /\ UNCHANGED <<call, before>> /\ Goto(r, "save")
        /\ call[r].kind \in {"store", "loyalty", "video"} /\ local[r].where \in Branches
        /\ call[r] \in Calls
    BY <1>0, <1>7 DEF ReadSettings, Fits
  <2> DEFINE copy == IF local[r].where \in Standing THEN settings[local[r].where][Key(r)]
                     ELSE Defaults[Key(r)]
  <2>2. Key(r) \in DOMAIN Defaults
    BY SettingsTypes DEF Key
  <2>3. copy \in [FieldsOf(Key(r)) -> Values]
    BY <2>1, <2>2, SettingsTypes DEF TypeOK
  <2>4. local' = [local EXCEPT ![r].copy = copy]
    BY <1>7 DEF ReadSettings
  <2> HIDE DEF copy
  <2>5. copy \in Contents
    BY <2>2, <2>3 DEF Contents
  <2>6. Others(r, local') /\ local'[r].copy = copy /\ local'[r].where = local[r].where
    BY <1>0, <2>4, <2>5, NoteCopy
  <2>7. Advances(r) /\ pc'[r] = "save"
    BY <2>1, Advance
  <2> QED BY <2>1, <2>3, <2>6, <2>7 DEF Fits, Key
<1>8. CASE SaveSettings(r)
  <2>1. pc[r] = "save" /\ UNCHANGED <<call, before>> /\ (Refuse(r) \/ (Goto(r, "done") /\ UNCHANGED local))
    BY <1>8 DEF SaveSettings
  <2>2. CASE Goto(r, "done") /\ UNCHANGED local
    <3>1. Advances(r) /\ pc'[r] = "done" /\ Others(r, local')
      BY <2>2, Advance, Same
    <3> QED BY <1>0, <2>1, <3>1 DEF Fits
  <2> QED BY <1>4, <2>1, <2>2
<1>9. CASE Hold(r)
  <2>1. /\ pc[r] = "hold" /\ UNCHANGED <<call, before, local>>
        /\ Goto(r, IF local[r].where \in Standing /\ Known(call[r].user) THEN "done" ELSE "refused")
    BY <1>9 DEF Hold
  <2>2. Advances(r) /\ pc'[r] \in {"done", "refused"} /\ Others(r, local')
    BY <2>1, Advance, Same
  <2> QED BY <1>0, <2>1, <2>2 DEF Fits
<1>10. CASE Fail(r)
  <2>1. pc[r] \notin Ended \cup {"idle"} /\ UNCHANGED <<call, before, local>> /\ Goto(r, "failed")
    BY <1>10 DEF Fail, BreakOff
  <2>2. Advances(r) /\ pc'[r] = "failed" /\ Others(r, local')
    BY <2>1, Advance, Same
  <2> QED BY <1>0, <2>1, <2>2 DEF Fits
<1> QED BY <1>1, <1>5, <1>6, <1>7, <1>8, <1>9, <1>10

-----------------------------------------------------------------------------
\* Every action moves its request on and leaves the others where they are.
LEMMA AllMove ==
    ASSUME TypeOK, ControlInv, NEW r \in Requests, Handle(r) \/ Fail(r)
    PROVE  Moves(r) /\ Fits(r)'
  BY AccountMoves, SignInMoves, GuardMoves DEF Handle

\* A step moves one request: the others keep their locals, and it keeps its call.
LEMMA OneMoves ==
    ASSUME TypeOK, ControlInv, NEW r \in Requests, Handle(r) \/ Fail(r)
    PROVE  /\ \A q \in Requests \ {r} : /\ pc'[q] = pc[q] /\ call'[q] = call[q]
                                        /\ local'[q] = local[q] /\ before'[q] = before[q]
           /\ pc'[r] # "idle" /\ pc[r] \notin Ended
           /\ pc[r] # "idle" => call'[r] = call[r] /\ before'[r] = before[r]
           /\ pc[r] = "idle" => before'[r] = {s \in Requests : pc[s] \in Ended}
<1>1. Moves(r) /\ pc \in [Requests -> Steps] /\ call \in [Requests -> Calls \cup {None}]
      /\ before \in [Requests -> SUBSET Requests]
  BY AllMove DEF TypeOK
<1>2. \A q \in Requests \ {r} : local'[q] = local[q]
  BY <1>1 DEF Moves, Others
<1>3. CASE Comes(r)
  BY <1>1, <1>2, <1>3 DEF Comes, Arrive, Advances, At, Ended
<1>4. CASE GoesOn(r)
  BY <1>1, <1>2, <1>4 DEF GoesOn, Advances, Ended
<1> QED BY <1>1, <1>3, <1>4 DEF Moves

\* Calls come only to the statements of their kind, with what these need.
LEMMA ControlKept == TypeOK /\ ControlInv /\ [Next]_vars => ControlInv'
<1> SUFFICES ASSUME TypeOK, ControlInv, [Next]_vars PROVE ControlInv'
  OBVIOUS
<1>1. ASSUME NEW r \in Requests, Handle(r) \/ Fail(r)
      PROVE  ControlInv'
  <2>1. Fits(r)'
    BY <1>1, AllMove
  <2>2. \A q \in Requests \ {r} : Fits(q)'
    BY <1>1, OneMoves DEF ControlInv, Fits, Key
  <2> QED BY <2>1, <2>2 DEF ControlInv
<1>2. CASE UNCHANGED vars
  BY <1>2 DEF vars, ControlInv, Fits, Key
<1> QED BY <1>1, <1>2 DEF Next, AllEnded

\* The rows of accounts, branches, settings and tokens.
RowTypes ==
    /\ users \in [Users -> User \cup {None, Gone}]
    /\ \A u \in Users : Known(u) => users[u].home \in Standing \cup {None}
    /\ assigned \in [Users -> SUBSET Standing]
    /\ \A u \in Users : ~Known(u) => assigned[u] = {}
    /\ branches \in [Branches -> {"active", "inactive", None, Gone}]
    /\ branches[Main] \in {"active", "inactive"}
    /\ settings \in [Branches -> [DOMAIN Defaults -> Contents]]
    /\ \A b \in Branches : /\ \A key \in DOMAIN Defaults : settings[b][key] \in [FieldsOf(key) -> Values]
                           /\ b \notin Standing => settings[b] = Defaults
    /\ tokens \in [Users -> SUBSET (Branches \cup {None})]

\* The first of two that is there is of their type.
LEMMA FirstOf ==
    ASSUME NEW S, NEW a \in S \cup {None}, NEW b \in S
    PROVE  First(a, b) \in S
  BY DEF First

\* A row that is written for a user.
LEMMA UserWritten ==
    ASSUME RowTypes, NEW u \in Users, NEW row \in User, row.home \in Standing \cup {None},
           users' = [users EXCEPT ![u] = row], UNCHANGED <<assigned, branches, settings, tokens>>
    PROVE  RowTypes'
<1>1. row # None /\ row # Gone
  BY NoneIsNoRow
<1>2. /\ users' \in [Users -> User \cup {None, Gone}] /\ Standing' = Standing
      /\ Known(u)' /\ users'[u] = row
      /\ \A v \in Users \ {u} : users'[v] = users[v] /\ (Known(v)' <=> Known(v))
  BY <1>1 DEF RowTypes, Known, Standing
<1>3. \A v \in Users : Known(v)' => users'[v].home \in Standing' \cup {None}
  BY <1>2 DEF RowTypes
<1>4. assigned' \in [Users -> SUBSET Standing'] /\ \A v \in Users : ~Known(v)' => assigned'[v] = {}
  BY <1>2 DEF RowTypes
<1> QED BY <1>2, <1>3, <1>4 DEF RowTypes

\* Assignments that are written for a user.
LEMMA AssignmentsWritten ==
    ASSUME RowTypes, NEW u \in Users, NEW to \in SUBSET Standing, to # {} => Known(u),
           assigned' = [assigned EXCEPT ![u] = to], UNCHANGED <<users, branches, settings, tokens>>
    PROVE  RowTypes'
<1>1. Standing' = Standing /\ \A v \in Users : Known(v)' <=> Known(v)
  BY DEF Standing, Known
<1> QED BY <1>1 DEF RowTypes

\* What writes accounts and assignments leaves the database typed.
LEMMA AccountRows ==
    ASSUME TypeOK, ControlInv, NEW r \in Requests,
           Insert(r) \/ Write(r) \/ Unassign(r) \/ Sync(r) \/ Drop(r)
    PROVE  RowTypes'
<1> USE DEF At, Proceed
<1>0. RowTypes /\ Fits(r)
  BY DEF TypeOK, ControlInv, RowTypes
<1>1. pc[r] \in {"insert", "write", "unassign", "sync"} => call[r] \in Calls /\ call[r].user \in Users
  <2>1. pc[r] \in {"insert", "write", "unassign", "sync"} =>
          call[r] \in Calls /\ call[r].kind \in {"create", "edit", "assign"}
    BY <1>0 DEF Fits
  <2> QED BY <2>1, CallFields
<1> DEFINE k == call[r]
<1>2. CASE Insert(r)
  <2> DEFINE home == IF k.role = "CASHIER" THEN k.home ELSE None
             row  == [role |-> k.role, home |-> home, active |-> TRUE]
  <2>1. k.role \in Roles /\ k.home \in Branches \cup {None} /\ k.user \in Users
    BY <1>0, <1>1, <1>2, CallFields DEF Fits, Insert
  <2>2. \/ UNCHANGED rows
        \/ /\ home \in Standing \cup {None} /\ users' = [users EXCEPT ![k.user] = row]
           /\ UNCHANGED <<assigned, branches, settings, tokens>>
    BY <1>2 DEF Insert, rows
  <2>3. row.home = home /\ (home \in Standing \cup {None} => row \in User)
    BY <2>1 DEF User, Standing
  <2> HIDE DEF home, row
  <2>4. CASE UNCHANGED rows
    BY <1>0, <2>4 DEF RowTypes, rows, Known, Standing
  <2> QED BY <1>0, <2>1, <2>2, <2>3, <2>4, UserWritten
<1>3. CASE Write(r)
  <2>1. /\ k.role \in Roles \cup {None} /\ k.home \in Branches \cup {None} /\ k.user \in Users
        /\ k.active \in BOOLEAN \cup {None}
    BY <1>0, <1>1, <1>3, CallFields DEF Fits, Write
  <2> DEFINE old  == users[k.user]
             home == IF RoleName(r) # "CASHIER" THEN None ELSE First(k.home, old.home)
             row  == [role |-> First(k.role, old.role), home |-> home, active |-> First(k.active, old.active)]
  <2>2. \/ UNCHANGED rows
        \/ /\ Known(k.user) /\ (RoleName(r) = "CASHIER" => k.home \in Standing \cup {None})
           /\ users' = [users EXCEPT ![k.user] = row]
           /\ UNCHANGED <<assigned, branches, settings, tokens>>
    BY <1>3 DEF Write, rows, Refuse
  <2>3. CASE UNCHANGED rows
    BY <1>0, <2>3 DEF RowTypes, rows, Known, Standing
  <2>4. CASE /\ Known(k.user) /\ (RoleName(r) = "CASHIER" => k.home \in Standing \cup {None})
             /\ users' = [users EXCEPT ![k.user] = row]
             /\ UNCHANGED <<assigned, branches, settings, tokens>>
    <3>1. old \in User /\ old.home \in Standing \cup {None}
      BY <1>0, <2>1, <2>4, KnownRows DEF RowTypes
    <3>2. old.role \in Roles /\ old.active \in BOOLEAN
      BY <3>1 DEF User
    <3>3. home \in Standing \cup {None}
      BY <2>4, <3>1 DEF First
    <3>4. First(k.role, old.role) \in Roles
      BY <2>1, <3>2 DEF First
    <3>5. First(k.active, old.active) \in BOOLEAN
      BY <2>1, <3>2, FirstOf
    <3>6. home \in Branches \cup {None}
      BY <3>3 DEF Standing
    <3> HIDE DEF home, old
    <3>7. row \in User /\ row.home = home
      BY <3>4, <3>5, <3>6 DEF User
    <3> HIDE DEF row
    <3> QED BY <1>0, <2>1, <2>4, <3>3, <3>7, UserWritten
  <2> QED BY <2>2, <2>3, <2>4
<1>4. CASE Unassign(r)
  <2>1. k.user \in Users /\ assigned' = [assigned EXCEPT ![k.user] = {}]
        /\ UNCHANGED <<users, branches, settings, tokens>>
    BY <1>1, <1>4 DEF Unassign
  <2> QED BY <1>0, <2>1, AssignmentsWritten
<1>5. CASE Sync(r)
  <2>1. k.user \in Users
    BY <1>1, <1>5 DEF Sync
  <2>2. \/ UNCHANGED rows
        \/ /\ Known(k.user) /\ k.to \subseteq Standing
           /\ assigned' = [assigned EXCEPT ![k.user] = k.to]
           /\ UNCHANGED <<users, branches, settings, tokens>>
    BY <1>5 DEF Sync, rows
  <2>3. CASE UNCHANGED rows
    BY <1>0, <2>3 DEF RowTypes, rows, Known, Standing
  <2> QED BY <1>0, <2>1, <2>2, <2>3, AssignmentsWritten
<1>6. CASE Drop(r)
  <2>1. PICK d \in In(r, {"drop"}) :
          \/ UNCHANGED <<users, assigned>>
          \/ /\ users' = [users EXCEPT ![d.user] = Gone]
             /\ assigned' = [assigned EXCEPT ![d.user] = {}]
    BY <1>6 DEF Drop
  <2>2. d.user \in Users /\ UNCHANGED <<branches, settings, tokens>> /\ Standing' = Standing
    BY <1>6, Incoming, CallFields DEF Drop, Standing
  <2>3. CASE UNCHANGED <<users, assigned>>
    BY <1>0, <2>2, <2>3 DEF RowTypes, Known
  <2>4. CASE /\ users' = [users EXCEPT ![d.user] = Gone]
             /\ assigned' = [assigned EXCEPT ![d.user] = {}]
    <3>1. /\ users' \in [Users -> User \cup {None, Gone}] /\ ~Known(d.user)'
          /\ \A v \in Users \ {d.user} : users'[v] = users[v] /\ (Known(v)' <=> Known(v))
      BY <1>0, <2>2, <2>4 DEF RowTypes, Known
    <3>2. assigned' \in [Users -> SUBSET Standing] /\ assigned'[d.user] = {}
          /\ \A v \in Users \ {d.user} : assigned'[v] = assigned[v]
      BY <1>0, <2>2, <2>4 DEF RowTypes
    <3> QED BY <1>0, <2>2, <3>1, <3>2 DEF RowTypes
  <2> QED BY <2>1, <2>3, <2>4
<1> QED BY <1>2, <1>3, <1>4, <1>5, <1>6

\* What opens, closes and deletes branches does, with all that goes with a branch.
LEMMA BranchRows ==
    ASSUME TypeOK, ControlInv, NEW r \in Requests, OpenBranch(r) \/ ToggleBranch(r) \/ CloseBranch(r)
    PROVE  RowTypes'
<1>0. RowTypes
  BY DEF TypeOK, RowTypes
<1>1. CASE UNCHANGED rows
  BY <1>0, <1>1 DEF RowTypes, rows, Known, Standing
<1>2. CASE OpenBranch(r)
  <2>1. PICK k \in In(r, {"open"}) :
          branches[k.branch] = None /\ branches' = [branches EXCEPT ![k.branch] = "active"]
    BY <1>2 DEF OpenBranch
  <2>2. k.branch \in Branches /\ UNCHANGED <<users, assigned, settings, tokens>>
    BY <1>2, Incoming, CallFields DEF OpenBranch
  <2>3. Standing \in SUBSET Standing' /\ branches' \in [Branches -> {"active", "inactive", None, Gone}]
        /\ branches'[Main] \in {"active", "inactive"}
    BY <1>0, <2>1, <2>2, MainIsABranch DEF RowTypes, Standing
  <2>4. \A u \in Users : Known(u)' <=> Known(u)
    BY <2>2 DEF Known
  <2> QED BY <1>0, <2>2, <2>3, <2>4 DEF RowTypes
<1>3. CASE ToggleBranch(r)
  <2>1. PICK k \in In(r, {"toggle"}) :
          \/ UNCHANGED branches
          \/ /\ k.branch \in Standing
             /\ branches' = [branches EXCEPT ![k.branch] = IF @ = "active" THEN "inactive" ELSE "active"]
    BY <1>3 DEF ToggleBranch
  <2>2. k.branch \in Branches /\ UNCHANGED <<users, assigned, settings, tokens>>
    BY <1>3, Incoming, CallFields DEF ToggleBranch
  <2>3. Standing' = Standing /\ branches' \in [Branches -> {"active", "inactive", None, Gone}]
        /\ branches'[Main] \in {"active", "inactive"}
    BY <1>0, <2>1, <2>2, MainIsABranch DEF RowTypes, Standing
  <2>4. \A u \in Users : Known(u)' <=> Known(u)
    BY <2>2 DEF Known
  <2> QED BY <1>0, <2>2, <2>3, <2>4 DEF RowTypes
<1>4. CASE CloseBranch(r)
  <2>1. PICK k \in In(r, {"close"}) :
          \/ UNCHANGED <<users, assigned, branches, settings>>
          \/ /\ k.branch \in Standing \ {Main}
             /\ branches' = [branches EXCEPT ![k.branch] = Gone]
             /\ settings' = [settings EXCEPT ![k.branch] = Defaults]
             /\ assigned' = [u \in Users |-> assigned[u] \ {k.branch}]
             /\ users' = [u \in Users |->
                  IF Known(u) /\ users[u].home = k.branch THEN [users[u] EXCEPT !.home = None]
                  ELSE users[u]]
    BY <1>4 DEF CloseBranch
  <2>2. UNCHANGED tokens /\ k.branch \in Branches
    BY <1>4, Incoming, CallFields DEF CloseBranch
  <2>3. CASE UNCHANGED <<users, assigned, branches, settings>>
    BY <1>1, <2>2, <2>3 DEF rows
  <2>4. CASE /\ k.branch \in Standing \ {Main}
             /\ branches' = [branches EXCEPT ![k.branch] = Gone]
             /\ settings' = [settings EXCEPT ![k.branch] = Defaults]
             /\ assigned' = [u \in Users |-> assigned[u] \ {k.branch}]
             /\ users' = [u \in Users |->
                  IF Known(u) /\ users[u].home = k.branch THEN [users[u] EXCEPT !.home = None]
                  ELSE users[u]]
    <3>1. /\ branches' \in [Branches -> {"active", "inactive", None, Gone}]
          /\ branches'[Main] \in {"active", "inactive"}
          /\ Standing \ {k.branch} \in SUBSET Standing'
      BY <1>0, <2>2, <2>4, MainIsABranch DEF RowTypes, Standing
    <3>2. ASSUME NEW u \in Users
          PROVE  /\ users'[u] \in User \cup {None, Gone} /\ (Known(u)' <=> Known(u))
                 /\ Known(u)' => users'[u].home \in Standing' \cup {None}
      <4>1. CASE Known(u) /\ users[u].home = k.branch
        <5>1. users[u] \in User /\ users'[u] = [users[u] EXCEPT !.home = None]
          BY <2>4, <4>1, KnownRows
        <5>2. users'[u] \in User /\ users'[u].home = None
          BY <5>1 DEF User
        <5> QED BY <4>1, <5>2, NoneIsNoRow DEF Known
      <4>2. CASE ~(Known(u) /\ users[u].home = k.branch)
        <5>1. users'[u] = users[u]
          BY <2>4, <4>2
        <5> QED BY <1>0, <3>1, <4>2, <5>1 DEF RowTypes, Known
      <4> QED BY <4>1, <4>2
    <3>3. /\ assigned' \in [Users -> SUBSET Standing'] /\ \A u \in Users : ~Known(u)' => assigned'[u] = {}
      BY <1>0, <2>4, <3>1, <3>2 DEF RowTypes
    <3>4. /\ settings' \in [Branches -> [DOMAIN Defaults -> Contents]]
          /\ settings'[k.branch] = Defaults
          /\ \A b \in Branches \ {k.branch} : settings'[b] = settings[b]
      <4>1. Defaults \in [DOMAIN Defaults -> Contents]
        BY SettingsTypes DEF Contents, Defaults
      <4> QED BY <1>0, <2>2, <2>4, <4>1 DEF RowTypes
    <3>5. ASSUME NEW b \in Branches
          PROVE  /\ \A key \in DOMAIN Defaults : settings'[b][key] \in [FieldsOf(key) -> Values]
                 /\ b \notin Standing' => settings'[b] = Defaults
      <4>1. CASE b = k.branch
        BY <3>4, <4>1, SettingsTypes
      <4>2. CASE b # k.branch
        BY <1>0, <3>1, <3>4, <4>2 DEF RowTypes
      <4> QED BY <4>1, <4>2
    <3>6. users' \in [Users -> User \cup {None, Gone}]
      BY <2>4, <3>2
    <3> QED BY <1>0, <2>2, <3>1, <3>2, <3>3, <3>4, <3>5, <3>6 DEF RowTypes
  <2> QED BY <2>1, <2>3, <2>4
<1> QED BY <1>2, <1>3, <1>4

\* So does the answer to a sign-in, which gives a token.
LEMMA ShowRows ==
    ASSUME TypeOK, ControlInv, NEW r \in Requests, Show(r)
    PROVE  RowTypes'
<1>0. RowTypes /\ Fits(r) /\ local[r].where \in Branches \cup {None}
  BY DEF TypeOK, ControlInv, RowTypes, Local
<1>1. call[r].user \in Users
  BY <1>0, CallFields DEF Show, Proceed, At, Fits
<1>2. tokens' \in [Users -> SUBSET (Branches \cup {None})] /\ UNCHANGED <<users, assigned, branches, settings>>
  BY <1>0, <1>1 DEF Show, RowTypes
<1>3. Standing' = Standing /\ \A v \in Users : Known(v)' <=> Known(v)
  BY <1>2 DEF Standing, Known
<1> QED BY <1>0, <1>2, <1>3 DEF RowTypes

\* Settings are merged into settings of the same kind.
LEMMA MergedTypes ==
    ASSUME NEW r \in Requests, call[r] \in Calls, call[r].kind \in {"store", "loyalty", "video"},
           local[r].copy \in [FieldsOf(Key(r)) -> Values]
    PROVE  Merged(r) \in [FieldsOf(Key(r)) -> Values]
<1>1. CASE call[r].kind \in {"store", "loyalty"}
  <2>1. call[r].patch \in Patches(call[r].kind)
    BY <1>1, CallFields
  <2>2. PICK fields : call[r].patch \in [fields -> {Blank, None}]
    BY <2>1 DEF Patches
  <2>3. DOMAIN Patch(r) = fields /\ \A f \in fields : Patch(r)[f] \in Values
    BY <2>2 DEF Patch, Values
  <2> DEFINE patch == Patch(r)
             copy  == local[r].copy
  <2>4. DOMAIN copy = FieldsOf(Key(r)) /\ (\A f \in FieldsOf(Key(r)) : copy[f] \in Values)
        /\ \A f \in DOMAIN patch : patch[f] \in Values
    BY <2>3
  <2>5. Blank \in Values /\ (Merged(r) = MergedStore(copy, patch) \/ Merged(r) = Spread(copy, patch))
    BY <1>1 DEF Merged, Values
  <2> HIDE DEF patch, copy
  <2>6. Spread(copy, patch) \in [FieldsOf(Key(r)) -> Values]
    BY <2>4 DEF Spread
  <2>7. MergedStore(copy, patch) \in [FieldsOf(Key(r)) -> Values]
    BY <2>4, <2>5, <2>6 DEF MergedStore
  <2> QED BY <2>5, <2>6, <2>7
<1>2. CASE call[r].kind = "video"
  <2>1. Merged(r) = WithVideo(local[r].copy, r) /\ r \in Values /\ Blank \in Values
    BY <1>2 DEF Merged, Values
  <2> QED BY <2>1 DEF WithVideo
<1> QED BY <1>1, <1>2

\* So does the writing of settings.
LEMMA SaveRows ==
    ASSUME TypeOK, ControlInv, NEW r \in Requests, SaveSettings(r)
    PROVE  RowTypes'
<1>0. RowTypes /\ Fits(r)
  BY DEF TypeOK, ControlInv, RowTypes
<1>1. UNCHANGED <<users, assigned, branches, tokens>>
  BY DEF SaveSettings
<1>2. Standing' = Standing /\ \A v \in Users : Known(v)' <=> Known(v)
  BY <1>1 DEF Standing, Known
<1> DEFINE b == local[r].where
<1>3. UNCHANGED settings \/ (b \in Standing /\ settings' = [settings EXCEPT ![b][Key(r)] = Merged(r)])
  BY DEF SaveSettings
<1>4. CASE UNCHANGED settings
  BY <1>0, <1>1, <1>2, <1>4 DEF RowTypes
<1>5. CASE b \in Standing /\ settings' = [settings EXCEPT ![b][Key(r)] = Merged(r)]
  <2>1. Merged(r) \in [FieldsOf(Key(r)) -> Values]
    BY <1>0, MergedTypes DEF SaveSettings, Proceed, At, Fits
  <2>2. Key(r) \in DOMAIN Defaults /\ b \in Branches
    BY <1>5, SettingsTypes DEF Key, Standing
  <2> DEFINE key == Key(r)
             new == Merged(r)
  <2>3. new \in Contents /\ key \in DOMAIN Defaults /\ new \in [FieldsOf(key) -> Values]
    BY <2>1, <2>2 DEF Contents
  <2>4. settings' = [settings EXCEPT ![b] = [settings[b] EXCEPT ![key] = new]]
    BY <1>5
  <2> HIDE DEF key, new
  <2>5. settings[b] \in [DOMAIN Defaults -> Contents]
    BY <1>0, <2>2 DEF RowTypes
  <2>6. [settings[b] EXCEPT ![key] = new] \in [DOMAIN Defaults -> Contents]
    BY <2>3, <2>5
  <2>7. settings' \in [Branches -> [DOMAIN Defaults -> Contents]]
    BY <1>0, <2>2, <2>4, <2>6 DEF RowTypes
  <2>8. ASSUME NEW c \in Branches
        PROVE  /\ \A k \in DOMAIN Defaults : settings'[c][k] \in [FieldsOf(k) -> Values]
               /\ c \notin Standing' => settings'[c] = Defaults
    <3>1. CASE c # b
      BY <1>0, <1>2, <2>4, <2>8, <3>1 DEF RowTypes
    <3>2. CASE c = b
      <4>1. settings'[c] = [settings[b] EXCEPT ![key] = new]
        BY <1>0, <2>2, <2>4, <3>2 DEF RowTypes
      <4>2. \A k \in DOMAIN Defaults : settings[b][k] \in [FieldsOf(k) -> Values]
        BY <1>0, <2>2 DEF RowTypes
      <4>3. ASSUME NEW k \in DOMAIN Defaults PROVE settings'[c][k] \in [FieldsOf(k) -> Values]
        BY <2>3, <2>5, <4>1, <4>2
      <4> QED BY <1>2, <1>5, <3>2, <4>3
    <3> QED BY <3>1, <3>2
  <2> QED BY <1>0, <1>1, <1>2, <2>7, <2>8 DEF RowTypes
<1> QED BY <1>3, <1>4, <1>5

\* The other handlers only read.
LEMMA RowsKept ==
    ASSUME TypeOK, ControlInv, NEW r \in Requests, Handle(r) \/ Fail(r)
    PROVE  RowTypes'
<1>1. CASE UNCHANGED rows
  <2>1. RowTypes
    BY DEF TypeOK, RowTypes
  <2> QED BY <1>1, <2>1 DEF RowTypes, rows, Known, Standing
<1>2. CASE \/ CreateFind(r) \/ EditFind(r) \/ AssignFind(r) \/ Validate(r)
           \/ Login(r) \/ Token(r) \/ SwitchFind(r) \/ SwitchAccess(r) \/ Me(r)
           \/ Authenticate(r) \/ Guard(r) \/ GuardAgain(r) \/ ReadSettings(r) \/ Hold(r) \/ Fail(r)
  BY <1>1, <1>2 DEF CreateFind, EditFind, AssignFind, Validate, Login, Token, SwitchFind, SwitchAccess,
                    Me, Authenticate, Guard, GuardAgain, ReadSettings, Hold, Fail
<1> QED BY <1>2, AccountRows, BranchRows, ShowRows, SaveRows DEF Handle

\* Every column and every local keeps its type.
LEMMA TypesKept == TypeOK /\ ControlInv /\ [Next]_vars => TypeOK'
<1> SUFFICES ASSUME TypeOK, ControlInv, [Next]_vars PROVE TypeOK'
  OBVIOUS
<1>1. ASSUME NEW r \in Requests, Handle(r) \/ Fail(r)
      PROVE  TypeOK'
  <2>1. RowTypes' /\ Moves(r)
    BY <1>1, RowsKept, AllMove
  <2>2. /\ call \in [Requests -> Calls \cup {None}] /\ pc \in [Requests -> Steps]
        /\ before \in [Requests -> SUBSET Requests]
    BY DEF TypeOK
  <2>3. /\ call' \in [Requests -> Calls \cup {None}] /\ pc' \in [Requests -> Steps]
        /\ before' \in [Requests -> SUBSET Requests]
    BY <2>1, <2>2 DEF Moves, Comes, GoesOn, Arrive, Advances
  <2>4. local' \in [Requests -> Local]
    BY <2>1 DEF Moves, Others
  <2> QED BY <2>1, <2>3, <2>4 DEF TypeOK, RowTypes
<1>2. CASE UNCHANGED vars
  BY <1>2 DEF vars, TypeOK, Known, Standing
<1> QED BY <1>1, <1>2 DEF Next, AllEnded


-----------------------------------------------------------------------------
\* Requests that came before another one have ended, and one that has not come in has no past.
HistoryInv ==
    \A r \in Requests :
      /\ \A s \in before[r] : pc[s] \in Ended /\ s # r
      /\ At(r, "idle") => before[r] = {}

\* Who had ended when a request came in has ended.
LEMMA HistoryKept == TypeOK /\ ControlInv /\ HistoryInv /\ [Next]_vars => HistoryInv'
<1> SUFFICES ASSUME TypeOK, ControlInv, HistoryInv, [Next]_vars PROVE HistoryInv'
  OBVIOUS
<1>1. ASSUME NEW r \in Requests, Handle(r) \/ Fail(r)
      PROVE  HistoryInv'
  <2>1. pc[r] \notin Ended /\ pc'[r] # "idle" /\ before \in [Requests -> SUBSET Requests]
    BY <1>1, OneMoves DEF TypeOK
  <2>2. \A q \in Requests \ {r} : pc'[q] = pc[q] /\ before'[q] = before[q]
    BY <1>1, OneMoves
  <2>3. before'[r] = before[r] \/ before'[r] = {s \in Requests : pc[s] \in Ended}
    BY <1>1, OneMoves
  <2>4. ASSUME NEW q \in Requests, NEW s \in before'[q]
        PROVE  pc'[s] \in Ended /\ s # q
    <3>1. s \in Requests /\ pc[s] \in Ended /\ s # q
      BY <2>1, <2>2, <2>3, <2>4 DEF HistoryInv
    <3> QED BY <2>1, <2>2, <3>1
  <2> QED BY <2>1, <2>2, <2>4 DEF HistoryInv, At
<1>2. CASE UNCHANGED vars
  BY <1>2 DEF vars, HistoryInv, At
<1> QED BY <1>1, <1>2 DEF Next, AllEnded

-----------------------------------------------------------------------------
\* A call that may change where the user of r works came in or went on since r came in.
Changed(r) == \E s \in Requests : Changes(s, call[r].user) /\ NotBefore(s, r)

\* What the guards know of the user of a call on its way to a branch's data: until the
\* handler runs, the row that was read; from then on, that the user may act there.
Admitted(r) ==
    /\ pc[r] \in {"guard", "again"} => MaySignOn(call[r].user) /\ local[r].row = users[call[r].user]
    /\ pc[r] \in {"read", "save", "hold"} => MayAct(call[r].user, local[r].where)

Guarded == {"guard", "again", "read", "save", "hold"}

ActsInv == \A r \in Requests : pc[r] \in Guarded => Admitted(r) \/ Changed(r)

\* Calls behind the guards name a user.
LEMMA GuardedUsers ==
    ASSUME ControlInv, NEW r \in Requests, pc[r] \in Guarded
    PROVE  /\ call[r].user \in Users
           /\ call[r].kind \in {"store", "loyalty", "video", "hold"}
<1>1. call[r] \in Calls /\ call[r].kind \in {"store", "loyalty", "video", "hold"}
  BY DEF ControlInv, Fits, Guarded
<1> QED BY <1>1, CallFields

\* A step that changes where a user works is one of a call that may.
LEMMA PlacesMove ==
    ASSUME TypeOK, ControlInv, NEW s \in Requests, Handle(s) \/ Fail(s), NEW u \in Users
    PROVE  \/ users'[u] = users[u] /\ assigned'[u] = assigned[u] /\ branches' = branches
           \/ Changes(s, u)'
<1> USE DEF At, Proceed
<1>0. /\ Fits(s) /\ pc'[s] # "idle" /\ (pc[s] # "idle" => call'[s] = call[s])
      /\ call \in [Requests -> Calls \cup {None}]
      /\ users \in [Users -> User \cup {None, Gone}] /\ assigned \in [Users -> SUBSET Standing]
  BY OneMoves DEF TypeOK, ControlInv
<1>1. CASE Insert(s) \/ Write(s) \/ Unassign(s) \/ Sync(s)
  <2>1. pc[s] # "idle" /\ call[s].kind \in {"create", "edit", "assign"}
    BY <1>0, <1>1 DEF Insert, Write, Unassign, Sync, Fits
  <2>2. call[s].user # u =>
          users'[u] = users[u] /\ assigned'[u] = assigned[u]
    BY <1>0, <1>1 DEF Insert, Write, Unassign, Sync
  <2>3. branches' = branches
    BY <1>1 DEF Insert, Write, Unassign, Sync
  <2> QED BY <1>0, <2>1, <2>2, <2>3 DEF Changes, Kind
<1>2. CASE Drop(s)
  <2>1. PICK k \in In(s, {"drop"}) :
          /\ Arrive(s, k)
          /\ \/ UNCHANGED <<users, assigned>>
             \/ /\ users' = [users EXCEPT ![k.user] = Gone]
                /\ assigned' = [assigned EXCEPT ![k.user] = {}]
    BY <1>2 DEF Drop
  <2>2. call'[s] = k /\ k.kind = "drop" /\ branches' = branches
    BY <1>0, <1>2, <2>1, Incoming DEF Drop, Arrive
  <2>3. k.user # u => users'[u] = users[u] /\ assigned'[u] = assigned[u]
    BY <1>0, <2>1
  <2> QED BY <1>0, <2>2, <2>3 DEF Changes, Kind
<1>3. CASE OpenBranch(s) \/ ToggleBranch(s) \/ CloseBranch(s)
  <2>1. PICK k \in In(s, {"open", "toggle", "close"}) : Arrive(s, k)
    BY <1>3 DEF OpenBranch, ToggleBranch, CloseBranch, In
  <2>2. call'[s] = k /\ k.kind \in {"open", "toggle", "close"}
    BY <1>0, <2>1, Incoming DEF Arrive
  <2> QED BY <1>0, <2>2 DEF Changes, Kind
<1>4. CASE Show(s) \/ SaveSettings(s)
  BY <1>4 DEF Show, SaveSettings
<1>5. CASE \/ CreateFind(s) \/ EditFind(s) \/ AssignFind(s) \/ Validate(s)
           \/ Login(s) \/ Token(s) \/ SwitchFind(s) \/ SwitchAccess(s) \/ Me(s)
           \/ Authenticate(s) \/ Guard(s) \/ GuardAgain(s) \/ ReadSettings(s) \/ Hold(s) \/ Fail(s)
  BY <1>5 DEF rows, CreateFind, EditFind, AssignFind, Validate, Login, Token, SwitchFind, SwitchAccess,
              Me, Authenticate, Guard, GuardAgain, ReadSettings, Hold, Fail
<1> QED BY <1>1, <1>2, <1>3, <1>4, <1>5 DEF Handle

\* What changed where a user works since a call came in, stays so.
LEMMA ChangedStays ==
    ASSUME TypeOK, ControlInv, NEW s \in Requests, Handle(s) \/ Fail(s),
           NEW r \in Requests, pc[r] # "idle", Changed(r)
    PROVE  Changed(r)'
<1> USE DEF At
<1>1. PICK t \in Requests : Changes(t, call[r].user) /\ NotBefore(t, r)
  BY DEF Changed
<1>2. pc[t] # "idle"
  BY <1>1 DEF NotBefore
<1>3. pc'[t] # "idle" /\ call'[t] = call[t]
  BY <1>2, OneMoves
<1>4. call'[r] = call[r] /\ before'[r] = before[r]
  BY OneMoves
<1>5. Changes(t, call[r].user)' /\ NotBefore(t, r)'
  BY <1>1, <1>2, <1>3, <1>4 DEF Changes, Kind, NotBefore
<1> QED BY <1>4, <1>5 DEF Changed

\* Accounts, branches and sign-in do not lead behind the guards.
LEMMA Elsewhere ==
    ASSUME TypeOK, NEW r \in Requests, Handle(r),
           ~(Authenticate(r) \/ Guard(r) \/ GuardAgain(r) \/ ReadSettings(r) \/ SaveSettings(r) \/ Hold(r))
    PROVE  pc'[r] \notin Guarded
<1> USE DEF Goto, Guarded, Refuse
<1>0. pc \in [Requests -> Steps]
  BY DEF TypeOK
<1>1. CASE CreateFind(r) \/ Insert(r) \/ EditFind(r) \/ Unassign(r) \/ AssignFind(r) \/ Validate(r)
  BY <1>0, <1>1 DEF CreateFind, Insert, EditFind, Unassign, AssignFind, Validate
<1>2. CASE Write(r)
  BY <1>0, <1>2 DEF Write
<1>3. CASE Sync(r) \/ Drop(r) \/ OpenBranch(r) \/ ToggleBranch(r) \/ CloseBranch(r)
  BY <1>0, <1>3 DEF Sync, Drop, OpenBranch, ToggleBranch, CloseBranch
<1>4. CASE Login(r) \/ Token(r) \/ SwitchFind(r) \/ SwitchAccess(r) \/ Me(r) \/ Show(r)
  BY <1>0, <1>4 DEF Login, Token, SwitchFind, SwitchAccess, Me, Show
<1> QED BY <1>1, <1>2, <1>3, <1>4 DEF Handle

\* The user of a row that was read just now may act where the guards lead the call.
LEMMA LetThrough ==
    ASSUME TypeOK, NEW r \in Requests, NEW u \in Users, u = call[r].user, MaySignOn(u),
           local[r].row = users[u], NEW b \in Branches,
           \/ MayAccess(local[r].row, b, Allowed(r))
           \/ local[r].row.role # "CASHIER" /\ b \in Allowed(r)
           \/ local[r].row.role = "CASHIER" /\ b \in HomeOnly(local[r].row, call[r].header)
    PROVE  MayAct(u, b)
<1>1. users[u] \in User
  BY KnownRows DEF MaySignOn
<1>2. users[u].role \in Roles
  BY <1>1 DEF User
<1> QED BY <1>2 DEF MayAct, MayAccess, Allowed, HomeOnly, Roles

\* A call that goes behind the guards takes its user to where that user may act.
LEMMA BehindAdmits ==
    ASSUME TypeOK, NEW r \in Requests, NEW b \in Branches, Behind(r, b),
           call[r].kind \in {"store", "loyalty", "video", "hold"},
           MayAct(call[r].user, b), call[r].user \in Users, UNCHANGED <<call, rows>>
    PROVE  pc'[r] \in Guarded => Admitted(r)'
<1>1. \/ pc'[r] = "refused"
      \/ pc'[r] \in {"read", "hold"} /\ local'[r].where = b
  BY BehindMoves
<1>2. MayAct(call[r].user, b)'
  BY DEF rows, MayAct, MaySignOn, Known, Row, Open
<1> QED BY <1>1, <1>2 DEF Admitted, Guarded


\* What the guards know of a user holds until a call changes it.
LEMMA OthersActs ==
    ASSUME TypeOK, ControlInv, HistoryInv, ActsInv, NEW s \in Requests, Handle(s) \/ Fail(s),
           NEW r \in Requests \ {s}, pc'[r] \in Guarded
    PROVE  Admitted(r)' \/ Changed(r)'
<1> USE DEF At
<1>1. pc'[r] = pc[r] /\ call'[r] = call[r] /\ local'[r] = local[r] /\ before'[r] = before[r]
  BY OneMoves
<1>2. PICK u \in Users : u = call[r].user
  BY <1>1, GuardedUsers
<1>3. CASE Changed(r)
  BY <1>1, <1>3, ChangedStays DEF Guarded
<1>4. CASE Changes(s, u)'
  <2>1. s \notin before[r] /\ pc'[s] # "idle"
    BY OneMoves DEF HistoryInv
  <2>2. NotBefore(s, r)'
    BY <1>1, <2>1 DEF NotBefore
  <2> QED BY <1>1, <1>2, <1>4, <2>2 DEF Changed
<1>5. CASE /\ Admitted(r)
           /\ users'[u] = users[u] /\ assigned'[u] = assigned[u] /\ branches' = branches
  <2>1. CASE pc[r] \in {"guard", "again"}
    <3>1. MaySignOn(call[r].user) /\ local[r].row = users[call[r].user]
      BY <1>5, <2>1 DEF Admitted
    <3> QED BY <1>1, <1>2, <1>5, <2>1, <3>1 DEF Admitted, MaySignOn, Known
  <2>2. CASE pc[r] \in {"read", "save", "hold"}
    <3>1. MayAct(call[r].user, local[r].where)
      BY <1>5, <2>2 DEF Admitted
    <3> QED BY <1>1, <1>2, <1>5, <2>2, <3>1 DEF Admitted, MayAct, MaySignOn, Known, Row, Open
  <2>3. pc[r] \in {"guard", "again"} \/ pc[r] \in {"read", "save", "hold"}
    BY <1>1 DEF Guarded
  <2> QED BY <2>1, <2>2, <2>3
<1>6. Admitted(r) \/ Changed(r)
  BY <1>1 DEF ActsInv
<1>7. (users'[u] = users[u] /\ assigned'[u] = assigned[u] /\ branches' = branches) \/ Changes(s, u)'
  BY <1>2, PlacesMove
<1> QED BY <1>3, <1>4, <1>5, <1>6, <1>7

\* The guards themselves, and the statements behind them.
LEMMA OwnActs ==
    ASSUME TypeOK, ControlInv, HistoryInv, ActsInv, NEW r \in Requests, Handle(r) \/ Fail(r),
           pc'[r] \in Guarded
    PROVE  Admitted(r)' \/ Changed(r)'
<1> USE DEF At, Proceed
<1>0. /\ pc \in [Requests -> Steps] /\ call \in [Requests -> Calls \cup {None}]
      /\ local \in [Requests -> Local] /\ tokens \in [Users -> SUBSET (Branches \cup {None})]
      /\ assigned \in [Users -> SUBSET Branches] /\ local[r].where \in Branches \cup {None}
  BY DEF TypeOK, Standing, Local
<1>1. ~Fail(r)
  BY <1>0 DEF Fail, BreakOff, Goto, Guarded
<1>2. CASE Authenticate(r)
  <2>0. PICK k \in In(r, {"switch", "store", "loyalty", "video", "hold"}) : \E t \in tokens[k.user] :
          /\ Arrive(r, k)
          /\ \/ Goto(r, "refused")
             \/ /\ MaySignOn(k.user)
                /\ local' = [local EXCEPT ![r].row = users[k.user], ![r].where = t]
                /\ Goto(r, IF k.kind = "switch" THEN "find" ELSE "guard")
    BY <1>2 DEF Authenticate, Refuse
  <2>1. PICK t \in tokens[k.user] :
          /\ Arrive(r, k) /\ MaySignOn(k.user)
          /\ local' = [local EXCEPT ![r].row = users[k.user], ![r].where = t]
          /\ Goto(r, IF k.kind = "switch" THEN "find" ELSE "guard")
    BY <1>0, <2>0 DEF Goto, Guarded
  <2>2. call'[r] = k /\ k.user \in Users /\ pc'[r] \in {"find", "guard"}
    BY <1>0, <2>1, Incoming, CallFields DEF Arrive, Goto
  <2> DEFINE row == users[k.user]
  <2>3. row \in User /\ t \in Branches \cup {None}
    BY <1>0, <2>1, <2>2, KnownRows DEF MaySignOn
  <2>4. local' = [local EXCEPT ![r].row = row, ![r].where = t]
    BY <2>1
  <2> HIDE DEF row
  <2>5. local'[r].row = row
    BY <1>0, <2>3, <2>4, TokenNoted
  <2>6. UNCHANGED rows
    BY <1>2 DEF Authenticate
  <2>7. MaySignOn(k.user)' /\ users'[k.user] = row
    BY <2>1, <2>6 DEF rows, MaySignOn, Known, row
  <2> QED BY <2>2, <2>5, <2>7 DEF Admitted
<1>3. ASSUME pc[r] # "idle", Changed(r)
      PROVE  Changed(r)'
  BY <1>3, ChangedStays
<1>4. ASSUME pc[r] \in Guarded
      PROVE  /\ call[r].user \in Users /\ call[r].kind \in {"store", "loyalty", "video", "hold"}
             /\ call[r].header \in Branches \cup {None}
             /\ Admitted(r) \/ Changed(r)
             /\ Allowed(r) \in SUBSET Branches
  <2>1. call[r].user \in Users /\ call[r].kind \in {"store", "loyalty", "video", "hold"}
    BY <1>4, GuardedUsers
  <2>2. call[r].header \in Branches \cup {None}
    BY <1>4, <2>1, CallFields DEF ControlInv, Fits, Guarded
  <2>3. Allowed(r) \in SUBSET Branches
    BY <1>0, <2>1, KnownRows, BranchTypes DEF Allowed
  <2> QED BY <1>4, <2>1, <2>2, <2>3 DEF ActsInv
<1>5. CASE Guard(r) /\ Admitted(r)
  <2> DEFINE row == local[r].row
             asked == AskedBranch(row, call[r].header, local[r].where)
             u == call[r].user
  <2>1. pc[r] = "guard" /\ UNCHANGED <<call, before>> /\ UNCHANGED rows
    BY <1>5 DEF Guard
  <2>2. /\ u \in Users /\ call[r].kind \in {"store", "loyalty", "video", "hold"}
        /\ MaySignOn(u) /\ row = users[u] /\ row \in User /\ row.role \in Roles
        /\ call[r].header \in Branches \cup {None} /\ Allowed(r) \in SUBSET Branches
    BY <1>4, <1>5, <2>1, KnownRows DEF Admitted, Guarded, MaySignOn, User
  <2>3. asked \in Branches \cup {None} /\ HomeOnly(row, call[r].header) \in SUBSET Branches
    BY <1>0, <2>2, AskedTypes
  <2>4. \/ Refuse(r)
        \/ row.role = "CASHIER" /\ \E b \in HomeOnly(row, call[r].header) : Behind(r, b)
        \/ row.role = "SUPER_ADMIN" /\ asked # None /\ Behind(r, asked)
        \/ row.role # "CASHIER" /\ \E b \in Allowed(r) : Behind(r, b)
        \/ local' = [local EXCEPT ![r].where = asked] /\ Goto(r, "again")
    BY <1>5 DEF Guard
  <2>5. ~Refuse(r)
    BY <1>0 DEF Refuse, Goto, Guarded
  <2>6. CASE local' = [local EXCEPT ![r].where = asked] /\ Goto(r, "again")
    <3> HIDE DEF asked
    <3>1. local'[r].row = row /\ pc'[r] = "again"
      BY <1>0, <2>3, <2>6, NoteWhere DEF Goto
    <3>2. MaySignOn(u)' /\ users'[u] = users[u]
      BY <2>1, <2>2 DEF rows, MaySignOn, Known
    <3> QED BY <2>1, <2>2, <3>1, <3>2 DEF Admitted
  <2>7. ASSUME NEW b \in Branches, Behind(r, b), MayAct(u, b)
        PROVE  Admitted(r)'
    BY <2>1, <2>2, <2>7, BehindAdmits
  <2>8. CASE row.role = "CASHIER" /\ \E b \in HomeOnly(row, call[r].header) : Behind(r, b)
    BY <2>2, <2>3, <2>7, <2>8, LetThrough
  <2>9. CASE row.role = "SUPER_ADMIN" /\ asked # None /\ Behind(r, asked)
    BY <2>2, <2>3, <2>7, <2>9, LetThrough DEF MayAccess
  <2>10. CASE row.role # "CASHIER" /\ \E b \in Allowed(r) : Behind(r, b)
    BY <2>2, <2>7, <2>10, LetThrough
  <2> HIDE DEF asked
  <2> QED BY <2>4, <2>5, <2>6, <2>8, <2>9, <2>10
<1>6. CASE GuardAgain(r) /\ Admitted(r)
  <2> DEFINE b == local[r].where
             u == call[r].user
  <2>1. /\ pc[r] = "again" /\ UNCHANGED <<call, before>> /\ UNCHANGED rows
        /\ Refuse(r) \/ (MayAccess(local[r].row, b, Allowed(r)) /\ Behind(r, b))
    BY <1>6 DEF GuardAgain
  <2>2. /\ u \in Users /\ call[r].kind \in {"store", "loyalty", "video", "hold"}
        /\ MaySignOn(u) /\ local[r].row = users[u] /\ b \in Branches
    BY <1>4, <1>6, <2>1 DEF Admitted, Guarded, ControlInv, Fits
  <2>3. ~Refuse(r)
    BY <1>0 DEF Refuse, Goto, Guarded
  <2>4. MayAct(u, b)
    BY <2>1, <2>2, <2>3, LetThrough
  <2> QED BY <2>1, <2>2, <2>3, <2>4, BehindAdmits
<1>7. CASE ReadSettings(r) /\ Admitted(r)
  <2>1. pc[r] = "read" /\ pc'[r] = "save" /\ UNCHANGED <<call, before>> /\ UNCHANGED rows
    BY <1>0, <1>7 DEF ReadSettings, Goto
  <2>2. local'[r].where = local[r].where
    BY <1>0, <1>7 DEF ReadSettings, Local
  <2>3. MayAct(call[r].user, local[r].where)'
    BY <1>7, <2>1, <2>2 DEF Admitted, rows, MayAct, MaySignOn, Known, Row, Open
  <2> QED BY <2>1, <2>3 DEF Admitted
<1>8. ~SaveSettings(r) /\ ~Hold(r)
  BY <1>0 DEF SaveSettings, Hold, Goto, Guarded, Refuse
<1>9. Guard(r) \/ GuardAgain(r) \/ ReadSettings(r) => pc[r] \in Guarded /\ pc[r] # "idle"
  BY DEF Guard, GuardAgain, ReadSettings, Guarded
<1> QED BY <1>1, <1>2, <1>3, <1>4, <1>5, <1>6, <1>7, <1>8, <1>9, Elsewhere

\* What the guards know of the user is kept.
LEMMA ActsKept == TypeOK /\ ControlInv /\ HistoryInv /\ ActsInv /\ [Next]_vars => ActsInv'
<1> SUFFICES ASSUME TypeOK, ControlInv, HistoryInv, ActsInv, [Next]_vars PROVE ActsInv'
  OBVIOUS
<1>1. ASSUME NEW s \in Requests, Handle(s) \/ Fail(s)
      PROVE  ActsInv'
  BY <1>1, OthersActs, OwnActs DEF ActsInv
<1>2. CASE UNCHANGED vars
  BY <1>2 DEF vars, ActsInv, Admitted, Changed, Changes, Kind, NotBefore, At, MayAct, MaySignOn, Known,
              Row, Open
<1> QED BY <1>1, <1>2 DEF Next, AllEnded

-----------------------------------------------------------------------------
\* The inductive invariant.
IInv == TypeOK /\ ControlInv /\ HistoryInv /\ ActsInv

\* The invariant holds at first.
LEMMA InitInv == Init => IInv
<1> SUFFICES ASSUME Init PROVE IInv
  OBVIOUS
<1>1. /\ pc = [r \in Requests |-> "idle"] /\ call = [r \in Requests |-> None]
      /\ before = [r \in Requests |-> {}] /\ local = [r \in Requests |-> NothingRead]
      /\ settings = [b \in Branches |-> Defaults]
  BY DEF Init, NoCalls
<1>2. NothingRead \in Local
  BY DEF NothingRead, Local
<1>3. /\ branches \in [Branches -> {"active", "inactive", None, Gone}]
      /\ branches[Main] \in {"active", "inactive"} /\ Open \in SUBSET Standing
  BY DEF Init, Open, Standing
<1>4. /\ users \in [Users -> User \cup {None, Gone}]
      /\ \A u \in Users : Known(u) => users[u].home \in Standing \cup {None}
  BY <1>3 DEF Init
<1>5. /\ assigned \in [Users -> SUBSET Standing]
      /\ \A u \in Users : ~Known(u) => assigned[u] = {}
  <2>1. \A u \in Users : ~Known(u) => users[u] = None
    BY NoneIsNoRow DEF Init, Known
  <2> QED BY <1>3, <2>1 DEF Init
<1>6. tokens \in [Users -> SUBSET (Branches \cup {None})]
  BY DEF Init
<1>7. /\ settings \in [Branches -> [DOMAIN Defaults -> Contents]]
      /\ \A b \in Branches : /\ \A key \in DOMAIN Defaults : settings[b][key] \in [FieldsOf(key) -> Values]
                             /\ b \notin Standing => settings[b] = Defaults
  <2>1. Defaults \in [DOMAIN Defaults -> Contents]
    BY SettingsTypes DEF Contents, Defaults
  <2> QED BY <1>1, <2>1, SettingsTypes
<1>8. TypeOK
  BY <1>1, <1>2, <1>3, <1>4, <1>5, <1>6, <1>7 DEF TypeOK, Steps
<1> QED BY <1>1, <1>8 DEF IInv, ControlInv, Fits, HistoryInv, ActsInv, Guarded

\* Calls come to the statements of their kind with what these need, and behind the guards
\* only for users who may be there, whatever calls interleave.
THEOREM Inductive == Spec => []IInv
<1>1. Init => IInv
  BY InitInv
<1>2. IInv /\ [Next]_vars => IInv'
  BY TypesKept, ControlKept, HistoryKept, ActsKept DEF IInv
<1> QED BY <1>1, <1>2, PTL DEF Spec

\* Every column and every local keeps its type, and no row refers to a branch or a user that
\* is not there (the foreign keys, and BranchesService.remove).
THEOREM TypeCorrect == Spec => []TypeOK
<1>1. IInv => TypeOK
  BY DEF IInv
<1> QED BY <1>1, Inductive, PTL

\* Data of a branch are written for users who work there, but for changes that overlap
\* (JwtStrategy, BranchGuard, BranchService).
THEOREM ActsWhereAllowedHolds == Spec => ActsWhereAllowed
<1>1. IInv => \A r \in Requests :
                At(r, "save") \/ At(r, "hold") =>
                  \/ MayAct(call[r].user, local[r].where)
                  \/ \E s \in Requests : Changes(s, call[r].user) /\ NotBefore(s, r)
  BY DEF IInv, ActsInv, Guarded, Admitted, Changed, At
<1>2. IInv => [\A r \in Requests :
                 (At(r, "save") \/ At(r, "hold")) /\ pc'[r] = "done" =>
                   \/ MayAct(call[r].user, local[r].where)
                   \/ \E s \in Requests : Changes(s, call[r].user) /\ NotBefore(s, r)]_vars
  BY <1>1
<1> QED BY <1>2, Inductive, PTL DEF ActsWhereAllowed

-----------------------------------------------------------------------------
(* Settings.                                                                *)

\* Settings: fields that a finished update gave are in the row, or another update of the
\* row excuses it.
Excused(r, f) ==
    \E s \in Requests : /\ SameRow(r, s) /\ NotBefore(s, r)
                        /\ NotBefore(r, s) \/ f \in Settled(s)

KeptInv ==
    \A r \in Requests : Updated(r) =>
      /\ local[r].where \in Branches /\ branches[local[r].where] # None
      /\ local[r].where \in Standing =>
           \A f \in DOMAIN Kept(r) :
             settings[local[r].where][Key(r)][f] = Kept(r)[f] \/ Excused(r, f)

\* What an update has read and is about to write back, too.
CopyInv ==
    \A r, t \in Requests :
      /\ Updated(r) /\ At(t, "save") /\ r \in before[t]
      /\ local[t].where = local[r].where /\ Key(t) = Key(r) /\ local[r].where \in Standing
      => \A f \in DOMAIN Kept(r) : local[t].copy[f] = Kept(r)[f] \/ Excused(r, f)

OneSource(row) == Blank \in {row.url, row.path}

DisplayInv ==
    /\ \A b \in Branches : OneSource(settings[b]["store"])
    /\ \A t \in Requests : At(t, "save") /\ Key(t) = "store" => OneSource(local[t].copy)

\* A request that has ended is left as it is.
LEMMA EndedStay ==
    ASSUME TypeOK, ControlInv, NEW s \in Requests, Handle(s) \/ Fail(s), NEW q \in Requests, pc[q] \in Ended
    PROVE  /\ q # s /\ pc'[q] = pc[q] /\ call'[q] = call[q]
           /\ local'[q] = local[q] /\ before'[q] = before[q]
  BY OneMoves

\* An update that is finished stays so, with what it gave and settled.
LEMMA UpdateStays ==
    ASSUME TypeOK, ControlInv, NEW s \in Requests, Handle(s) \/ Fail(s), NEW r \in Requests, At(r, "done")
    PROVE  /\ At(r, "done")' /\ Updated(r)' = Updated(r) /\ Key(r)' = Key(r) /\ Kept(r)' = Kept(r)
           /\ Settled(r)' = Settled(r) /\ local'[r] = local[r] /\ before'[r] = before[r]
<1>1. pc'[r] = pc[r] /\ call'[r] = call[r] /\ local'[r] = local[r] /\ before'[r] = before[r]
  BY EndedStay DEF At, Ended
<1>2. Patch(r)' = Patch(r)
  BY <1>1 DEF Patch
<1>3. Updated(r)' = Updated(r) /\ Key(r)' = Key(r)
  BY <1>1 DEF Updated, Kind, At, Key
<1>4. Kept(r)' = Kept(r)
  BY <1>1, <1>2 DEF Kept, Given
<1>5. Settled(r)' = Settled(r)
  BY <1>1, <1>2 DEF Settled, Given
<1> QED BY <1>1, <1>3, <1>4, <1>5 DEF At

\* What excuses a field goes on excusing it.
LEMMA ExcusedStays ==
    ASSUME TypeOK, ControlInv, NEW s \in Requests, Handle(s) \/ Fail(s),
           NEW r \in Requests, Updated(r), NEW f, Excused(r, f)
    PROVE  Excused(r, f)'
<1>1. PICK t \in Requests : /\ SameRow(r, t) /\ NotBefore(t, r)
                            /\ NotBefore(r, t) \/ f \in Settled(t)
  BY DEF Excused
<1>2. At(r, "done") /\ At(t, "done")
  BY <1>1 DEF Updated, SameRow
<1>3. SameRow(r, t)'
  BY <1>1, <1>2, UpdateStays DEF SameRow
<1>4. NotBefore(t, r)' /\ (NotBefore(r, t) => NotBefore(r, t)')
  BY <1>1, <1>2, UpdateStays DEF NotBefore, At
<1>5. NotBefore(r, t)' \/ f \in Settled(t)'
  BY <1>1, <1>2, <1>4, UpdateStays
<1> QED BY <1>3, <1>4, <1>5 DEF Excused

\* What an update writes: the fields it gives, and as they were read those it does not settle.
LEMMA MergedKeeps ==
    ASSUME NEW r \in Requests, call[r] \in Calls, call[r].kind \in {"store", "loyalty", "video"},
           local[r].copy \in [FieldsOf(Key(r)) -> Values]
    PROVE  /\ \A f \in DOMAIN Kept(r) : f \in FieldsOf(Key(r)) /\ Merged(r)[f] = Kept(r)[f]
           /\ \A f \in FieldsOf(Key(r)) \ Settled(r) : Merged(r)[f] = local[r].copy[f]
           /\ Key(r) = "store" /\ OneSource(local[r].copy) => OneSource(Merged(r))
<1> DEFINE copy == local[r].copy
<1>1. CASE call[r].kind = "video"
  <2>1. /\ Merged(r) = WithVideo(copy, r) /\ Key(r) = "store" /\ FieldsOf(Key(r)) = {"url", "path", "pin"}
        /\ Kept(r) = [f \in {"path"} |-> r] /\ Settled(r) = {"url", "path"}
    BY <1>1 DEF Merged, Key, FieldsOf, Kept, Settled
  <2> HIDE DEF copy
  <2>2. DOMAIN copy = {"url", "path", "pin"}
    BY <2>1 DEF copy
  <2>3. WithVideo(copy, r).path = r /\ WithVideo(copy, r).url = Blank /\ WithVideo(copy, r).pin = copy.pin
    BY <2>2 DEF WithVideo
  <2> QED BY <2>1, <2>3 DEF OneSource, copy
<1>2. CASE call[r].kind \in {"store", "loyalty"}
  <2>1. call[r].patch \in Patches(Key(r))
    BY <1>2, CallFields DEF Key
  <2>2. PICK fields \in SUBSET FieldsOf(Key(r)) : call[r].patch \in [fields -> {Blank, None}]
    BY <2>1 DEF Patches
  <2> DEFINE patch == Patch(r)
             key   == Key(r)
  <2>3. DOMAIN patch = fields /\ DOMAIN patch \subseteq FieldsOf(key) /\ DOMAIN copy = FieldsOf(key)
    BY <2>2 DEF Patch
  <2>4. /\ Kept(r) = [f \in {g \in DOMAIN patch :
                              ~(g \in {"url", "path"} /\ Given(patch, "url") /\ Given(patch, "path"))}
                       |-> patch[f]]
        /\ DOMAIN patch \subseteq Settled(r)
        /\ Given(patch, "url") \/ Given(patch, "path") => {"url", "path"} \subseteq Settled(r)
    BY <1>2 DEF Kept, Settled
  <2>5. CASE call[r].kind = "loyalty"
    <3>1. Merged(r) = Spread(copy, patch) /\ key = "loyalty" /\ FieldsOf(key) = {"rate", "bonus"}
      BY <2>5 DEF Merged, Key, FieldsOf
    <3> HIDE DEF patch, copy, key
    <3>2. \A f \in FieldsOf(key) : Merged(r)[f] = IF f \in DOMAIN patch THEN patch[f] ELSE copy[f]
      BY <2>3, <3>1 DEF Spread
    <3>3. \A f \in DOMAIN Kept(r) : f \in DOMAIN patch /\ Kept(r)[f] = patch[f]
      BY <2>4
    <3> QED BY <2>3, <2>4, <3>1, <3>2, <3>3 DEF copy, key
  <2>6. CASE call[r].kind = "store"
    <3>1. Merged(r) = MergedStore(copy, patch) /\ key = "store" /\ FieldsOf(key) = {"url", "path", "pin"}
      BY <2>6 DEF Merged, Key, FieldsOf
    <3> HIDE DEF patch, copy, key
    <3>2. \A f \in FieldsOf(key) :
            Merged(r)[f] = IF (f = "path" /\ Given(patch, "url")) \/ (f = "url" /\ Given(patch, "path"))
                           THEN Blank ELSE IF f \in DOMAIN patch THEN patch[f] ELSE copy[f]
      BY <2>3, <3>1 DEF MergedStore, Spread
    <3>3. \A f \in DOMAIN Kept(r) :
            /\ f \in DOMAIN patch /\ Kept(r)[f] = patch[f]
            /\ ~(f \in {"url", "path"} /\ Given(patch, "url") /\ Given(patch, "path"))
      BY <2>4
    <3>4. \A f \in DOMAIN Kept(r) : f \in FieldsOf(key) /\ Merged(r)[f] = Kept(r)[f]
      BY <2>3, <3>2, <3>3 DEF Given
    <3>5. \A f \in FieldsOf(key) \ Settled(r) : Merged(r)[f] = copy[f]
      BY <2>4, <3>2 DEF Given
    <3>6. OneSource(copy) => OneSource(Merged(r))
      BY <3>1, <3>2 DEF OneSource, Given
    <3> QED BY <3>1, <3>4, <3>5, <3>6 DEF copy, key
  <2> QED BY <1>2, <2>5, <2>6
<1> QED BY <1>1, <1>2

\* Settings are read and saved by updates, and lost with their branch.
LEMMA SettingsMove ==
    ASSUME TypeOK, ControlInv, NEW s \in Requests, Handle(s) \/ Fail(s), ~ReadSettings(s), ~SaveSettings(s)
    PROVE  /\ pc'[s] # "save" /\ ~Updated(s)'
           /\ settings' = settings \/ CloseBranch(s)
<1> USE DEF At, Goto, Refuse, Updated, Kind
<1>0. pc \in [Requests -> Steps] /\ Fits(s) /\ call \in [Requests -> Calls \cup {None}]
  BY DEF TypeOK, ControlInv
<1>1. CASE Insert(s) \/ Write(s) \/ Unassign(s) \/ Sync(s)
  <2>1. /\ pc[s] \in {"insert", "write", "unassign", "sync"} /\ call'[s] = call[s] /\ settings' = settings
    BY <1>1 DEF Insert, Write, Unassign, Sync, Proceed
  <2>2. call[s].kind \in {"create", "edit", "assign"}
    BY <1>0, <2>1 DEF Fits
  <2>3. CASE Write(s)
    BY <1>0, <2>1, <2>2, <2>3 DEF Write
  <2>4. CASE Insert(s) \/ Unassign(s) \/ Sync(s)
    BY <1>0, <2>1, <2>2, <2>4 DEF Insert, Unassign, Sync
  <2> QED BY <1>1, <2>3, <2>4
<1>2. CASE Drop(s) \/ OpenBranch(s) \/ ToggleBranch(s) \/ CloseBranch(s)
  <2>1. PICK k \in In(s, {"drop", "open", "toggle", "close"}) :
          Arrive(s, k) /\ (Goto(s, "refused") \/ Goto(s, "done"))
    BY <1>2 DEF Drop, OpenBranch, ToggleBranch, CloseBranch, In
  <2>2. call'[s] = k /\ k.kind \in {"drop", "open", "toggle", "close"} /\ pc'[s] # "save"
    BY <1>0, <2>1, Incoming DEF Arrive
  <2>3. settings' = settings \/ CloseBranch(s)
    BY <1>2 DEF Drop, OpenBranch, ToggleBranch
  <2> QED BY <2>2, <2>3
<1>3. CASE Show(s)
  <2>1. pc[s] = "show" /\ call'[s] = call[s] /\ settings' = settings /\ pc'[s] = "done"
    BY <1>0, <1>3 DEF Show, Proceed
  <2> QED BY <1>0, <2>1 DEF Fits
<1>4. CASE Hold(s)
  <2>1. pc[s] = "hold" /\ call'[s] = call[s] /\ settings' = settings /\ pc'[s] # "save"
    BY <1>0, <1>4 DEF Hold, Proceed, rows
  <2> QED BY <1>0, <2>1 DEF Fits
<1>5. CASE CreateFind(s) \/ EditFind(s) \/ AssignFind(s) \/ Validate(s)
  BY <1>0, <1>5 DEF rows, CreateFind, EditFind, AssignFind, Validate
<1>6. CASE Login(s) \/ Token(s) \/ SwitchFind(s) \/ SwitchAccess(s) \/ Me(s)
  BY <1>0, <1>6 DEF rows, Login, Token, SwitchFind, SwitchAccess, Me
<1>7. CASE Authenticate(s)
  BY <1>0, <1>7 DEF rows, Authenticate
<1>8. CASE Guard(s) \/ GuardAgain(s)
  BY <1>0, <1>8 DEF rows, Guard, GuardAgain, Behind
<1>9. CASE Fail(s)
  BY <1>0, <1>9 DEF rows, Fail, BreakOff
<1> QED BY <1>1, <1>2, <1>3, <1>4, <1>5, <1>6, <1>7, <1>8, <1>9 DEF Handle

\* A branch that was opened stays opened or is deleted, and one that was deleted is not
\* opened again.
LEMMA BranchesStay ==
    ASSUME TypeOK, ControlInv, NEW s \in Requests, Handle(s) \/ Fail(s), NEW b \in Branches, branches[b] # None
    PROVE  branches'[b] # None /\ (b \in Standing' => b \in Standing)
<1>0. branches \in [Branches -> {"active", "inactive", None, Gone}]
  BY DEF TypeOK
<1>1. CASE branches' = branches
  BY <1>1 DEF Standing
<1>2. CASE OpenBranch(s)
  <2>1. PICK k \in In(s, {"open"}) :
          branches[k.branch] = None /\ branches' = [branches EXCEPT ![k.branch] = "active"]
    BY <1>2 DEF OpenBranch
  <2>2. branches'[b] = branches[b]
    BY <1>0, <2>1
  <2> QED BY <2>2 DEF Standing
<1>3. CASE ToggleBranch(s) /\ branches' # branches
  <2>1. PICK k \in In(s, {"toggle"}) :
          /\ k.branch \in Standing
          /\ branches' = [branches EXCEPT ![k.branch] = IF @ = "active" THEN "inactive" ELSE "active"]
    BY <1>3 DEF ToggleBranch
  <2>2. branches'[b] = branches[b] \/ (b \in Standing /\ branches'[b] \in {"active", "inactive"})
    BY <1>0, <2>1
  <2> QED BY <2>2, NoneIsNoRow DEF Standing
<1>4. CASE CloseBranch(s) /\ branches' # branches
  <2>1. PICK k \in In(s, {"close"}) : branches' = [branches EXCEPT ![k.branch] = Gone]
    BY <1>4 DEF CloseBranch
  <2>2. branches'[b] = branches[b] \/ branches'[b] = Gone
    BY <1>0, <2>1
  <2> QED BY <2>2, NoneIsNoRow DEF Standing
<1>5. CASE ~(OpenBranch(s) \/ ToggleBranch(s) \/ CloseBranch(s))
  <2>1. CASE Insert(s) \/ Write(s) \/ Unassign(s) \/ Sync(s) \/ Drop(s) \/ Show(s) \/ SaveSettings(s)
    BY <1>1, <2>1 DEF Insert, Write, Unassign, Sync, Drop, Show, SaveSettings
  <2>2. CASE \/ CreateFind(s) \/ EditFind(s) \/ AssignFind(s) \/ Validate(s)
             \/ Login(s) \/ Token(s) \/ SwitchFind(s) \/ SwitchAccess(s) \/ Me(s)
             \/ Authenticate(s) \/ Guard(s) \/ GuardAgain(s) \/ ReadSettings(s) \/ Hold(s) \/ Fail(s)
    BY <1>1, <2>2 DEF rows, CreateFind, EditFind, AssignFind, Validate, Login, Token, SwitchFind,
                      SwitchAccess, Me, Authenticate, Guard, GuardAgain, ReadSettings, Hold, Fail
  <2> QED BY <1>5, <2>1, <2>2 DEF Handle
<1> QED BY <1>1, <1>2, <1>3, <1>4, <1>5

\* Settings are lost with their branch only.
LEMMA CloseEffect ==
    ASSUME TypeOK, NEW s \in Requests, CloseBranch(s), NEW b \in Branches
    PROVE  settings'[b] = settings[b] \/ (b \notin Standing' /\ settings'[b] = Defaults)
<1>1. CASE UNCHANGED settings
  BY <1>1
<1>2. CASE ~UNCHANGED settings
  <2>1. PICK k \in In(s, {"close"}) : /\ branches' = [branches EXCEPT ![k.branch] = Gone]
                                      /\ settings' = [settings EXCEPT ![k.branch] = Defaults]
    BY <1>2 DEF CloseBranch
  <2>2. CASE k.branch # b
    BY <2>1, <2>2 DEF TypeOK
  <2>3. CASE k.branch = b
    BY <2>1, <2>3, NoneIsNoRow DEF TypeOK, Standing
  <2> QED BY <2>2, <2>3
<1> QED BY <1>1, <1>2

\* What reading and saving do.
LEMMA ReadEffect ==
    ASSUME TypeOK, NEW s \in Requests, ReadSettings(s)
    PROVE  /\ At(s, "read") /\ At(s, "save")' /\ UNCHANGED <<call, before, settings, branches>>
           /\ local'[s].where = local[s].where
           /\ local'[s].copy = IF local[s].where \in Standing THEN settings[local[s].where][Key(s)]
                               ELSE Defaults[Key(s)]
  BY DEF TypeOK, Local, ReadSettings, Proceed, At, Goto, rows, Key

\* Settings are written merged with the patch, or the request is refused.
LEMMA SaveEffect ==
    ASSUME TypeOK, ControlInv, NEW s \in Requests, SaveSettings(s)
    PROVE  /\ At(s, "save") /\ UNCHANGED <<call, before, branches, local>>
           /\ \/ pc'[s] = "refused" /\ settings' = settings
              \/ /\ Updated(s)' /\ local[s].where \in Standing
                 /\ settings'[local[s].where][Key(s)] = Merged(s)
                 /\ \A b \in Branches, key \in DOMAIN Defaults :
                      b # local[s].where \/ key # Key(s) => settings'[b][key] = settings[b][key]
<1>0. Fits(s) /\ pc \in [Requests -> Steps] /\ settings \in [Branches -> [DOMAIN Defaults -> Contents]]
  BY DEF TypeOK, ControlInv
<1>1. At(s, "save") /\ UNCHANGED <<call, before, branches, local>>
  BY DEF SaveSettings, Proceed, Refuse
<1>2. local[s].where \in Branches /\ Key(s) \in DOMAIN Defaults /\ call[s].kind \in {"store", "loyalty", "video"}
  BY <1>0, <1>1, SettingsTypes DEF At, Fits, Key
<1>3. CASE local[s].where \notin Standing
  BY <1>0, <1>1, <1>3 DEF SaveSettings, Refuse, Goto
<1>4. CASE local[s].where \in Standing
  <2> DEFINE b   == local[s].where
             key == Key(s)
             new == Merged(s)
  <2>1. settings' = [settings EXCEPT ![b] = [settings[b] EXCEPT ![key] = new]] /\ pc'[s] = "done"
    BY <1>0, <1>4 DEF SaveSettings, Goto, Refuse
  <2> HIDE DEF b, key, new
  <2>2. b \in Branches /\ key \in DOMAIN Defaults
    BY <1>2 DEF b, key
  <2>3. /\ settings'[b][key] = new
        /\ \A c \in Branches, k \in DOMAIN Defaults :
             c # b \/ k # key => settings'[c][k] = settings[c][k]
    BY <1>0, <2>1, <2>2
  <2>4. Updated(s)'
    BY <1>1, <1>2, <2>1 DEF Updated, Kind, At
  <2> QED BY <1>1, <1>4, <2>3, <2>4 DEF b, key, new
<1> QED BY <1>3, <1>4

-----------------------------------------------------------------------------
\* The fields that an update gives are those of its row.
LEMMA KeptFields ==
    ASSUME NEW r \in Requests, call[r] \in Calls, call[r].kind \in {"store", "loyalty", "video"}
    PROVE  DOMAIN Kept(r) \subseteq FieldsOf(Key(r))
<1>1. CASE call[r].kind = "video"
  BY <1>1 DEF Kept, Key, FieldsOf
<1>2. CASE call[r].kind \in {"store", "loyalty"}
  <2>1. call[r].patch \in Patches(Key(r))
    BY <1>2, CallFields DEF Key
  <2>2. DOMAIN call[r].patch \subseteq FieldsOf(Key(r))
    BY <2>1 DEF Patches
  <2>3. DOMAIN Kept(r) \subseteq DOMAIN call[r].patch
    BY <1>2 DEF Kept, Patch
  <2> QED BY <2>2, <2>3
<1> QED BY <1>1, <1>2

\* A request that has not ended is not among those that came before another.
LEMMA StillOn ==
    ASSUME TypeOK, ControlInv, HistoryInv, NEW s \in Requests, Handle(s) \/ Fail(s), NEW r \in Requests \ {s}
    PROVE  s \notin before[r] /\ NotBefore(s, r)'
<1>1. s \notin before[r] /\ before'[r] = before[r] /\ pc'[s] # "idle"
  BY OneMoves DEF HistoryInv
<1> QED BY <1>1 DEF NotBefore, At

\* A finished update of another request: its fields are still in the row, or excused.
LEMMA OthersKept ==
    ASSUME TypeOK, ControlInv, HistoryInv, KeptInv, CopyInv, NEW s \in Requests, Handle(s) \/ Fail(s),
           NEW r \in Requests, Updated(r), local[r].where \in Standing', NEW f \in DOMAIN Kept(r)
    PROVE  settings'[local[r].where][Key(r)][f] = Kept(r)[f] \/ Excused(r, f)'
<1> DEFINE b == local[r].where
<1>0. At(r, "done") /\ r # s /\ call[r] \in Calls
  BY OneMoves DEF Updated, At, Ended, ControlInv, Fits
<1>1. b \in Branches /\ b \in Standing /\ Key(r) \in DOMAIN Defaults
  BY BranchesStay, SettingsTypes DEF KeptInv, Key
<1>2. settings[b][Key(r)][f] = Kept(r)[f] \/ Excused(r, f)'
  BY <1>1, ExcusedStays DEF KeptInv
<1>3. CASE ~SaveSettings(s)
  <2>1. settings' = settings \/ CloseBranch(s)
    BY <1>3, SettingsMove DEF ReadSettings, rows
  <2>2. settings'[b] = settings[b]
    BY <1>1, <2>1, CloseEffect
  <2> QED BY <1>2, <2>2
<1>4. CASE SaveSettings(s)
  <2>1. CASE settings' = settings
    BY <1>2, <2>1
  <2>2. CASE local[s].where # b \/ Key(s) # Key(r)
    BY <1>1, <1>2, <1>4, <2>1, <2>2, SaveEffect
  <2>3. CASE settings' # settings /\ local[s].where = b /\ Key(s) = Key(r)
    <3>1. /\ At(s, "save") /\ UNCHANGED <<call, before, branches, local>> /\ Updated(s)'
          /\ settings'[b][Key(r)] = Merged(s)
      BY <1>4, <2>3, SaveEffect
    <3>2. Key(s)' = Key(s) /\ Key(r)' = Key(r) /\ Settled(s)' = Settled(s)
      BY <3>1 DEF Key, Settled, Given, Patch
    <3>3. SameRow(r, s)' /\ NotBefore(s, r)'
      BY <1>0, <2>3, <3>1, <3>2, StillOn DEF SameRow
    <3>4. CASE r \notin before[s]
      <4>1. NotBefore(r, s)'
        BY <1>0, <3>1, <3>4, UpdateStays DEF NotBefore, At
      <4> QED BY <3>3, <4>1 DEF Excused
    <3>5. CASE f \in Settled(s)
      BY <3>2, <3>3, <3>5 DEF Excused
    <3>6. CASE r \in before[s] /\ f \notin Settled(s)
      <4>1. local[s].copy[f] = Kept(r)[f] \/ Excused(r, f)
        BY <1>1, <2>3, <3>1, <3>6 DEF CopyInv
      <4>2. /\ call[s] \in Calls /\ call[s].kind \in {"store", "loyalty", "video"}
            /\ local[s].copy \in [FieldsOf(Key(s)) -> Values]
        BY <3>1 DEF ControlInv, Fits, At
      <4>3. f \in FieldsOf(Key(r))
        BY <1>0, KeptFields DEF Updated, Kind
      <4>4. Merged(s)[f] = local[s].copy[f]
        BY <2>3, <3>6, <4>2, <4>3, MergedKeeps
      <4> QED BY <3>1, <4>1, <4>4, ExcusedStays
    <3> QED BY <3>4, <3>5, <3>6
  <2> QED BY <2>1, <2>2, <2>3
<1> QED BY <1>3, <1>4

\* What an update has set stays in the row.
LEMMA KeptStays ==
    ASSUME TypeOK, ControlInv, HistoryInv, KeptInv, CopyInv, NEW s \in Requests, Handle(s) \/ Fail(s)
    PROVE  KeptInv'
<1> SUFFICES ASSUME NEW r \in Requests, Updated(r)'
             PROVE  /\ local'[r].where \in Branches /\ branches'[local'[r].where] # None
                    /\ local'[r].where \in Standing' =>
                         \A f \in DOMAIN Kept(r)' :
                           settings'[local'[r].where][Key(r)'][f] = Kept(r)'[f] \/ Excused(r, f)'
  BY DEF KeptInv
<1>1. CASE r # s \/ At(r, "done")
  <2>1. At(r, "done")
    BY <1>1, OneMoves DEF Updated, At
  <2>2. Updated(r) /\ local'[r] = local[r] /\ Kept(r)' = Kept(r) /\ Key(r)' = Key(r)
    BY <2>1, UpdateStays
  <2>3. local[r].where \in Branches /\ branches[local[r].where] # None
    BY <2>2 DEF KeptInv
  <2>4. branches'[local[r].where] # None
    BY <2>3, BranchesStay
  <2> QED BY <2>2, <2>3, <2>4, OthersKept
<1>2. CASE r = s /\ ~At(r, "done")
  <2>1. SaveSettings(r)
    BY <1>2, SettingsMove, ReadEffect DEF Updated, At
  <2>2. /\ At(r, "save") /\ UNCHANGED <<call, before, branches, local>>
        /\ local[r].where \in Standing /\ settings'[local[r].where][Key(r)] = Merged(r)
    BY <2>1, SaveEffect DEF Updated, At
  <2>3. Key(r)' = Key(r) /\ Kept(r)' = Kept(r)
    BY <2>2 DEF Key, Kept, Given, Patch
  <2>4. /\ call[r] \in Calls /\ call[r].kind \in {"store", "loyalty", "video"}
        /\ local[r].copy \in [FieldsOf(Key(r)) -> Values]
    BY <2>2 DEF ControlInv, Fits, At
  <2>5. \A f \in DOMAIN Kept(r) : Merged(r)[f] = Kept(r)[f]
    BY <2>4, MergedKeeps
  <2> QED BY <2>2, <2>3, <2>5, NoneIsNoRow DEF Standing
<1> QED BY <1>1, <1>2

\* What an update has set stays in the copies that others will write back.
LEMMA CopyStays ==
    ASSUME TypeOK, ControlInv, HistoryInv, KeptInv, CopyInv, NEW s \in Requests, Handle(s) \/ Fail(s)
    PROVE  CopyInv'
<1> SUFFICES ASSUME NEW r \in Requests, NEW t \in Requests,
                    Updated(r)', At(t, "save")', r \in before'[t],
                    local'[t].where = local'[r].where, Key(t)' = Key(r)', local'[r].where \in Standing',
                    NEW f \in DOMAIN Kept(r)'
             PROVE  local'[t].copy[f] = Kept(r)'[f] \/ Excused(r, f)'
  BY DEF CopyInv
<1>1. CASE t = s
  <2>1. ReadSettings(s)
    BY <1>1, SettingsMove, SaveEffect DEF At, Updated
  <2>2. /\ At(s, "read") /\ UNCHANGED <<call, before, settings, branches>>
        /\ local'[s].where = local[s].where
        /\ local'[s].copy = IF local[s].where \in Standing THEN settings[local[s].where][Key(s)]
                            ELSE Defaults[Key(s)]
    BY <2>1, ReadEffect
  <2>3. pc[r] \in Ended /\ r # s
    BY <1>1, <2>2 DEF HistoryInv
  <2>4. At(r, "done")
    BY <2>3, EndedStay DEF Updated, At
  <2>5. Updated(r) /\ local'[r] = local[r] /\ Kept(r)' = Kept(r) /\ Key(r)' = Key(r)
    BY <2>4, UpdateStays
  <2>6. Standing' = Standing /\ Key(s)' = Key(s)
    BY <2>2 DEF Standing, Key
  <2>7. local'[s].copy = settings[local[r].where][Key(r)] /\ local[r].where \in Standing
    BY <1>1, <2>2, <2>5, <2>6
  <2>8. settings[local[r].where][Key(r)][f] = Kept(r)[f] \/ Excused(r, f)
    BY <2>5, <2>7 DEF KeptInv
  <2> QED BY <1>1, <2>5, <2>7, <2>8, ExcusedStays
<1>2. CASE t # s
  <2>1. pc'[t] = pc[t] /\ call'[t] = call[t] /\ before'[t] = before[t] /\ local'[t] = local[t]
    BY <1>2, OneMoves
  <2>2. pc[r] \in Ended
    BY <2>1 DEF HistoryInv
  <2>3. At(r, "done")
    BY <2>2, EndedStay DEF Updated, At
  <2>4. Updated(r) /\ local'[r] = local[r] /\ Kept(r)' = Kept(r) /\ Key(r)' = Key(r)
    BY <2>3, UpdateStays
  <2>5. Key(t)' = Key(t)
    BY <2>1 DEF Key
  <2>6. local[r].where \in Branches /\ branches[local[r].where] # None
    BY <2>4 DEF KeptInv
  <2>7. local[r].where \in Standing
    BY <2>4, <2>6, BranchesStay
  <2>8. local[t].copy[f] = Kept(r)[f] \/ Excused(r, f)
    BY <2>1, <2>4, <2>5, <2>7 DEF CopyInv, At
  <2> QED BY <2>1, <2>4, <2>8, ExcusedStays
<1> QED BY <1>1, <1>2

\* The two sources of the video exclude each other, in rows and in copies.
LEMMA DisplayStays ==
    ASSUME TypeOK, ControlInv, DisplayInv, NEW s \in Requests, Handle(s) \/ Fail(s)
    PROVE  DisplayInv'
<1>0. OneSource(Defaults["store"])
  BY DEF OneSource, Defaults, FieldsOf
<1>1. ASSUME NEW b \in Branches PROVE OneSource(settings'[b]["store"])
  <2>1. CASE settings'[b] = settings[b]
    BY <2>1 DEF DisplayInv
  <2>2. CASE SaveSettings(s) /\ settings' # settings
    <3>1. /\ At(s, "save") /\ local[s].where \in Standing /\ settings'[local[s].where][Key(s)] = Merged(s)
          /\ \A c \in Branches, key \in DOMAIN Defaults :
               c # local[s].where \/ key # Key(s) => settings'[c][key] = settings[c][key]
      BY <2>2, SaveEffect
    <3>2. CASE local[s].where # b \/ Key(s) # "store"
      BY <3>1, <3>2, SettingsTypes DEF DisplayInv
    <3>3. CASE local[s].where = b /\ Key(s) = "store"
      <4>1. /\ call[s] \in Calls /\ call[s].kind \in {"store", "loyalty", "video"}
            /\ local[s].copy \in [FieldsOf(Key(s)) -> Values]
        BY <3>1 DEF ControlInv, Fits, At
      <4>2. OneSource(local[s].copy)
        BY <3>1, <3>3 DEF DisplayInv
      <4>3. OneSource(Merged(s))
        BY <3>3, <4>1, <4>2, MergedKeeps
      <4> QED BY <3>1, <3>3, <4>3
    <3> QED BY <3>2, <3>3
  <2>3. CASE CloseBranch(s)
    BY <1>0, <2>1, <2>3, CloseEffect
  <2>4. CASE ReadSettings(s)
    BY <2>1, <2>4, ReadEffect
  <2> QED BY <2>1, <2>2, <2>3, <2>4, SettingsMove
<1>2. ASSUME NEW t \in Requests, At(t, "save")', Key(t)' = "store"
      PROVE  OneSource(local'[t].copy)
  <2>1. CASE t # s
    <3>1. At(t, "save") /\ Key(t) = "store" /\ local'[t] = local[t]
      BY <1>2, <2>1, OneMoves DEF At, Key
    <3> QED BY <3>1 DEF DisplayInv
  <2>2. CASE t = s
    <3>1. ReadSettings(s)
      BY <1>2, <2>2, SettingsMove, SaveEffect DEF At, Updated
    <3>2. Key(s) = "store"
      BY <1>2, <2>2, <3>1, ReadEffect DEF Key
    <3>3. \/ local[s].where \in Branches /\ local'[s].copy = settings[local[s].where]["store"]
          \/ local'[s].copy = Defaults["store"]
      BY <3>1, <3>2, ReadEffect DEF Standing
    <3> QED BY <1>0, <2>2, <3>3 DEF DisplayInv
  <2> QED BY <2>1, <2>2
<1> QED BY <1>1, <1>2 DEF DisplayInv

\* What an update has given is in the row or in what others are about to write back.
SettingsInv == KeptInv /\ CopyInv /\ DisplayInv

\* The settings' part of the invariant is kept.
LEMMA SettingsStay == IInv /\ SettingsInv /\ [Next]_vars => SettingsInv'
<1> SUFFICES ASSUME IInv, SettingsInv, [Next]_vars PROVE SettingsInv'
  OBVIOUS
<1> USE DEF IInv, SettingsInv
<1>1. ASSUME NEW s \in Requests, Handle(s) \/ Fail(s)
      PROVE  SettingsInv'
  BY <1>1, KeptStays, CopyStays, DisplayStays
<1>2. CASE UNCHANGED vars
  <2>1. UNCHANGED <<settings, branches, local, call, pc, before>> /\ Standing' = Standing
    BY <1>2 DEF vars, Standing
  <2>2. \A r \in Requests : /\ Updated(r)' = Updated(r) /\ Key(r)' = Key(r) /\ Patch(r)' = Patch(r)
                            /\ At(r, "save")' = At(r, "save")
    BY <2>1 DEF Updated, Kind, At, Key, Patch
  <2>3. \A r \in Requests : Kept(r)' = Kept(r) /\ Settled(r)' = Settled(r)
    BY <2>1, <2>2 DEF Kept, Settled, Given
  <2>4. \A r, t \in Requests : SameRow(r, t)' = SameRow(r, t) /\ NotBefore(r, t)' = NotBefore(r, t)
    BY <2>1, <2>2 DEF SameRow, NotBefore, At
  <2>5. \A r \in Requests : \A f : Excused(r, f) => Excused(r, f)'
    BY <2>3, <2>4 DEF Excused
  <2>6. KeptInv'
    BY <2>1, <2>2, <2>3, <2>5 DEF KeptInv
  <2>7. CopyInv'
    BY <2>1, <2>2, <2>3, <2>5 DEF CopyInv
  <2>8. DisplayInv'
    BY <2>1, <2>2 DEF DisplayInv
  <2> QED BY <2>6, <2>7, <2>8
<1> QED BY <1>1, <1>2 DEF Next, AllEnded

\* It holds at first.
LEMMA SettingsBegin == Init => SettingsInv
<1> SUFFICES ASSUME Init PROVE SettingsInv
  OBVIOUS
<1>1. pc = [r \in Requests |-> "idle"] /\ settings = [b \in Branches |-> Defaults]
  BY DEF Init, NoCalls
<1>2. OneSource(Defaults["store"])
  BY DEF OneSource, Defaults, FieldsOf
<1> QED BY <1>1, <1>2 DEF SettingsInv, KeptInv, CopyInv, DisplayInv, Updated, Kind, At

\* Settings that were saved stay until they are set anew, but for updates of the same row that
\* overlapped, and the customer display has one source at most (SettingsService.updateStore,
\* updateLoyalty, setCustomerDisplayVideoLocalPath).
THEOREM SettingsAreKeptHolds == Spec => []SettingsAreKept
<1>1. SettingsInv => SettingsAreKept
  BY DEF SettingsInv, KeptInv, DisplayInv, OneSource, SettingsAreKept, Excused
<1>2. Spec => []SettingsInv
  BY Inductive, SettingsBegin, SettingsStay, PTL DEF Spec
<1> QED BY <1>1, <1>2, PTL

-----------------------------------------------------------------------------
(* Accounts.                                                                *)

\* What a call that rewrites an account has checked and written when it comes to a statement.
WriterFits(r) ==
    /\ pc[r] \in {"idle", "insert", "write"} => ~local[r].wrote
    /\ pc[r] = "validate" /\ call[r].kind = "create" => ~local[r].wrote /\ call[r].role = "ADMIN"
    /\ pc[r] = "validate" /\ call[r].kind = "edit" => local[r].wrote
    /\ pc[r] = "insert" => /\ call[r].role = "CASHIER" => call[r].home # None
                           /\ call[r].role = "ADMIN" => call[r].to # {}
    /\ pc[r] = "sync" => call[r].to # {} /\ (call[r].kind \in {"create", "edit"} => local[r].wrote)
    /\ pc[r] = "unassign" => local[r].wrote

WriterInv == \A r \in Requests : WriterFits(r)

\* The role that an edit has read holds until another call rewrites the account.
RoleFits(s) ==
    \/ ~Known(call[s].user)
    \/ users[call[s].user].role = local[s].row.role
    \/ \E t \in Rewrites(call[s].user) \ {s} : t \notin before[s]

RoleInv == \A s \in Requests : At(s, "write") => RoleFits(s)

\* What was done to an account so far could still turn out to be orderly.
Tidy(u) ==
    /\ \A s \in Rewrites(u) :
         /\ pc[s] \in {"done", "validate", "sync", "unassign"} /\ ~HomelessCashier(s)
         /\ \A t \in Rewrites(u) \ {s} : s \in before[t] \/ t \in before[s]
    /\ \A s \in Requests : Kind(s, {"close"}) => ~At(s, "done")

\* Then the account is as its role needs it, or will be when the call that is rewriting it ends.
StaffFits(u) ==
    /\ users[u].role = "CASHIER" <=> users[u].home # None
    /\ users[u].role = "ADMIN" =>
         assigned[u] # {} \/ \E s \in Rewrites(u) : pc[s] \in {"validate", "sync"}
    /\ \A s \in Rewrites(u) : pc[s] = "unassign" => users[u].role # "ADMIN"

StaffInv == \A u \in Users : Known(u) /\ Tidy(u) => StaffFits(u)

\* What the statements that rewrite an account do.
LEMMA InsertEffect ==
    ASSUME TypeOK, ControlInv, NEW s \in Requests, Insert(s)
    PROVE  LET k == call[s]
           IN  /\ pc[s] = "insert" /\ UNCHANGED <<call, before, assigned>>
               /\ k \in Calls /\ k.kind = "create" /\ k.user \in Users
               /\ \/ pc'[s] = "refused" /\ users' = users /\ local' = local
                  \/ /\ pc'[s] = IF k.role = "ADMIN" THEN "sync" ELSE "done"
                     /\ ~Known(k.user) /\ local'[s].wrote /\ local'[s].row = local[s].row
                     /\ users'[k.user].role = k.role
                     /\ users'[k.user].home = IF k.role = "CASHIER" THEN k.home ELSE None
                     /\ \A v \in Users \ {k.user} : users'[v] = users[v]
<1>1. /\ pc \in [Requests -> Steps] /\ users \in [Users -> User \cup {None, Gone}]
      /\ local \in [Requests -> Local] /\ Fits(s)
  BY DEF TypeOK, ControlInv
<1>2. pc[s] = "insert" /\ UNCHANGED <<call, before, assigned>>
  BY DEF Insert, Proceed, At
<1>3. call[s] \in Calls /\ call[s].kind = "create" /\ call[s].user \in Users
  BY <1>1, <1>2, CallFields DEF Fits
<1>4. CASE Refuse(s) /\ users' = users
  BY <1>1, <1>2, <1>3, <1>4 DEF Refuse, Goto
<1> DEFINE k    == call[s]
           home == IF k.role = "CASHIER" THEN k.home ELSE None
           row  == [role |-> k.role, home |-> home, active |-> TRUE]
<1>5. CASE /\ ~Known(k.user) /\ users' = [users EXCEPT ![k.user] = row]
           /\ local' = [local EXCEPT ![s].wrote = TRUE]
           /\ Goto(s, IF k.role = "ADMIN" THEN "sync" ELSE "done")
  <2>1. local'[s].wrote /\ local'[s].row = local[s].row
    BY <1>1, <1>5 DEF Local
  <2>2. users'[k.user] = row /\ \A v \in Users \ {k.user} : users'[v] = users[v]
    BY <1>1, <1>3, <1>5
  <2>3. pc'[s] = IF k.role = "ADMIN" THEN "sync" ELSE "done"
    BY <1>1, <1>5 DEF Goto
  <2> QED BY <1>2, <1>3, <1>5, <2>1, <2>2, <2>3
<1> QED BY <1>4, <1>5 DEF Insert

\* An edit writes the role and the home it asks for, and goes on by the role.
LEMMA WriteEffect ==
    ASSUME TypeOK, ControlInv, NEW s \in Requests, Write(s)
    PROVE  LET k == call[s]
               row == local[s].row
           IN  /\ pc[s] = "write" /\ UNCHANGED <<call, before, assigned>>
               /\ k \in Calls /\ k.kind = "edit" /\ k.user \in Users /\ row \in User
               /\ \/ pc'[s] = "refused" /\ users' = users /\ local' = local
                  \/ /\ pc'[s] = IF RoleName(s) # "ADMIN" THEN IF k.role # None THEN "unassign" ELSE "done"
                                 ELSE IF k.to # None THEN "validate"
                                 ELSE IF k.role # None /\ row.role # "ADMIN" THEN "refused" ELSE "done"
                     /\ Known(k.user) /\ local'[s].wrote /\ local'[s].row = row
                     /\ users'[k.user].role = First(k.role, users[k.user].role)
                     /\ users'[k.user].home = IF RoleName(s) # "CASHIER" THEN None
                                              ELSE First(k.home, users[k.user].home)
                     /\ \A v \in Users \ {k.user} : users'[v] = users[v]
<1>1. /\ pc \in [Requests -> Steps] /\ users \in [Users -> User \cup {None, Gone}]
      /\ local \in [Requests -> Local] /\ Fits(s)
  BY DEF TypeOK, ControlInv
<1>2. pc[s] = "write" /\ UNCHANGED <<call, before, assigned>>
  BY DEF Write, Proceed, At
<1>3. call[s] \in Calls /\ call[s].kind = "edit" /\ call[s].user \in Users /\ local[s].row \in User
  BY <1>1, <1>2, CallFields DEF Fits
<1>4. CASE Refuse(s) /\ users' = users
  BY <1>1, <1>2, <1>3, <1>4 DEF Refuse, Goto
<1> DEFINE k    == call[s]
           home == IF RoleName(s) # "CASHIER" THEN None ELSE First(k.home, users[k.user].home)
           next == IF RoleName(s) # "ADMIN" THEN IF k.role # None THEN "unassign" ELSE "done"
                   ELSE IF k.to # None THEN "validate"
                   ELSE IF k.role # None /\ local[s].row.role # "ADMIN" THEN "refused" ELSE "done"
           row  == [role   |-> First(k.role, users[k.user].role), home |-> home,
                    active |-> First(k.active, users[k.user].active)]
<1>5. CASE /\ Known(k.user) /\ users' = [users EXCEPT ![k.user] = row]
           /\ local' = [local EXCEPT ![s].wrote = TRUE]
           /\ Goto(s, next)
  <2>1. local'[s].wrote /\ local'[s].row = local[s].row
    BY <1>1, <1>5 DEF Local
  <2>2. row.role = First(k.role, users[k.user].role) /\ row.home = home
    OBVIOUS
  <2>3. users'[k.user] = row /\ \A v \in Users \ {k.user} : users'[v] = users[v]
    <3> HIDE DEF row, next
    <3> QED BY <1>1, <1>3, <1>5
  <2>4. pc'[s] = next
    <3> HIDE DEF row, next
    <3> QED BY <1>1, <1>5 DEF Goto
  <2> HIDE DEF row
  <2> QED BY <1>2, <1>3, <1>5, <2>1, <2>2, <2>3, <2>4
<1> HIDE DEF next
<1>6. \/ Refuse(s) /\ users' = users
      \/ /\ Known(k.user) /\ users' = [users EXCEPT ![k.user] = row]
         /\ local' = [local EXCEPT ![s].wrote = TRUE] /\ Goto(s, next)
  BY DEF Write, next
<1> QED BY <1>4, <1>5, <1>6

\* The assignments become those that were asked for.
LEMMA SyncEffect ==
    ASSUME TypeOK, ControlInv, NEW s \in Requests, Sync(s)
    PROVE  LET k == call[s]
           IN  /\ pc[s] = "sync" /\ UNCHANGED <<call, before, users>>
               /\ k \in Calls /\ k.kind \in {"create", "edit", "assign"} /\ k.user \in Users
               /\ \/ pc'[s] = "refused" /\ assigned' = assigned /\ local' = local
                  \/ /\ pc'[s] = "done" /\ local'[s].wrote /\ local'[s].row = local[s].row
                     /\ assigned'[k.user] = k.to
                     /\ \A v \in Users \ {k.user} : assigned'[v] = assigned[v]
<1>1. /\ pc \in [Requests -> Steps] /\ assigned \in [Users -> SUBSET Standing]
      /\ local \in [Requests -> Local] /\ Fits(s)
  BY DEF TypeOK, ControlInv
<1>2. pc[s] = "sync" /\ UNCHANGED <<call, before, users>>
  BY DEF Sync, Proceed, At
<1>3. call[s] \in Calls /\ call[s].kind \in {"create", "edit", "assign"} /\ call[s].user \in Users
  BY <1>1, <1>2, CallFields DEF Fits
<1>4. CASE Refuse(s) /\ assigned' = assigned
  BY <1>1, <1>2, <1>3, <1>4 DEF Refuse, Goto
<1>5. CASE /\ assigned' = [assigned EXCEPT ![call[s].user] = call[s].to]
           /\ local' = [local EXCEPT ![s].wrote = TRUE] /\ Goto(s, "done")
  BY <1>1, <1>2, <1>3, <1>5 DEF Local, Goto
<1> QED BY <1>4, <1>5 DEF Sync

\* Who is no admin any more loses the assignments, and nobody else does.
LEMMA UnassignEffect ==
    ASSUME TypeOK, ControlInv, NEW s \in Requests, Unassign(s)
    PROVE  /\ pc[s] = "unassign" /\ pc'[s] = "done" /\ UNCHANGED <<call, before, users, local>>
           /\ call[s].kind = "edit" /\ call[s].user \in Users
           /\ \A v \in Users \ {call[s].user} : assigned'[v] = assigned[v]
<1>1. pc \in [Requests -> Steps] /\ assigned \in [Users -> SUBSET Standing] /\ Fits(s)
  BY DEF TypeOK, ControlInv
<1>2. pc[s] = "unassign"
  BY DEF Unassign, Proceed, At
<1>3. call[s].kind = "edit" /\ call[s].user \in Users
  BY <1>1, <1>2, CallFields DEF Fits
<1> QED BY <1>1, <1>2, <1>3 DEF Unassign, Proceed, Goto

\* The other statements leave alone whether a call has written.
Rewriting == {"idle", "insert", "write", "validate", "sync", "unassign"}

\* The first look-up of a call that rewrites an account writes nothing.
LEMMA FindEffect ==
    ASSUME TypeOK, ControlInv, NEW s \in Requests, CreateFind(s) \/ EditFind(s) \/ AssignFind(s)
    PROVE  /\ pc[s] = "idle" /\ UNCHANGED <<users, assigned>> /\ local'[s].wrote = local[s].wrote
           /\ \/ pc'[s] = "refused"
              \/ /\ pc'[s] \in {"validate", "insert"} /\ call'[s].kind = "create"
                 /\ pc'[s] = "validate" => call'[s].role = "ADMIN"
                 /\ pc'[s] = "insert" => /\ call'[s].role # "ADMIN"
                                         /\ call'[s].role = "CASHIER" => call'[s].home # None
              \/ /\ pc'[s] = "write" /\ call'[s].user \in Users
                 /\ local'[s].row = users[call'[s].user]
              \/ pc'[s] = "validate" /\ call'[s].kind = "assign"
<1>0. /\ pc \in [Requests -> Steps] /\ call \in [Requests -> Calls \cup {None}]
      /\ local \in [Requests -> Local]
  BY DEF TypeOK
<1>1. CASE CreateFind(s)
  <2>1. PICK k \in In(s, {"create"}) :
          /\ Arrive(s, k)
          /\ Goto(s, IF Known(k.user) \/ (k.role = "CASHIER" /\ k.home = None) THEN "refused"
                     ELSE IF k.role = "ADMIN" THEN "validate" ELSE "insert")
    BY <1>1 DEF CreateFind
  <2>2. pc[s] = "idle" /\ call'[s] = k /\ k.kind = "create"
    BY <1>0, <2>1, Incoming DEF Arrive, At
  <2> QED BY <1>0, <1>1, <2>1, <2>2 DEF CreateFind, rows, Goto
<1>2. CASE AssignFind(s)
  <2>1. PICK k \in In(s, {"assign"}) :
          /\ Arrive(s, k)
          /\ Goto(s, IF Known(k.user) /\ users[k.user].role = "ADMIN" THEN "validate" ELSE "refused")
    BY <1>2 DEF AssignFind
  <2>2. pc[s] = "idle" /\ call'[s] = k /\ k.kind = "assign"
    BY <1>0, <2>1, Incoming DEF Arrive, At
  <2> QED BY <1>0, <1>2, <2>1, <2>2 DEF AssignFind, rows, Goto
<1>3. CASE EditFind(s)
  <2>1. PICK k \in In(s, {"edit"}) :
          /\ Arrive(s, k)
          /\ \/ Goto(s, "refused") /\ UNCHANGED local
             \/ /\ Known(k.user) /\ Goto(s, "write")
                /\ local' = [local EXCEPT ![s].row = users[k.user]]
    BY <1>3 DEF EditFind, Refuse
  <2>2. pc[s] = "idle" /\ call'[s] = k /\ k.user \in Users
    BY <1>0, <2>1, Incoming, CallFields DEF Arrive, At
  <2>3. CASE Goto(s, "refused") /\ UNCHANGED local
    BY <1>0, <1>3, <2>2, <2>3 DEF EditFind, rows, Goto
  <2>4. CASE Known(k.user) /\ Goto(s, "write") /\ local' = [local EXCEPT ![s].row = users[k.user]]
    <3>1. users[k.user] \in User
      BY <2>2, <2>4, KnownRows
    <3>2. local'[s].row = users[k.user] /\ local'[s].wrote = local[s].wrote
      BY <1>0, <2>4, <3>1, NoteRow
    <3> QED BY <1>0, <1>3, <2>2, <2>4, <3>2 DEF EditFind, rows, Goto
  <2> QED BY <2>1, <2>3, <2>4
<1> QED BY <1>1, <1>2, <1>3

\* Only these statements rewrite an account.
LEMMA OtherEffect ==
    ASSUME TypeOK, ControlInv, NEW s \in Requests, Handle(s) \/ Fail(s),
           ~(CreateFind(s) \/ EditFind(s) \/ AssignFind(s)),
           ~(Insert(s) \/ Write(s) \/ Unassign(s) \/ Validate(s) \/ Sync(s))
    PROVE  /\ pc'[s] \notin Rewriting /\ local'[s].wrote = local[s].wrote
           /\ (users' = users /\ assigned' = assigned) \/ Drop(s) \/ CloseBranch(s)
<1> USE DEF At, Goto, Refuse, Rewriting
<1>0. pc \in [Requests -> Steps] /\ local \in [Requests -> Local]
  BY DEF TypeOK
<1>1. CASE Drop(s) \/ OpenBranch(s) \/ ToggleBranch(s) \/ CloseBranch(s)
  BY <1>0, <1>1 DEF Drop, OpenBranch, ToggleBranch, CloseBranch
<1>2. CASE Login(s) \/ Token(s)
  BY <1>0, <1>2 DEF rows, Local, Login, Token
<1>3. CASE SwitchFind(s) \/ SwitchAccess(s)
  BY <1>0, <1>3 DEF rows, Local, SwitchFind, SwitchAccess
<1>4. CASE Me(s) \/ Show(s)
  BY <1>0, <1>4 DEF rows, Local, Me, Show
<1>5. CASE Authenticate(s)
  BY <1>0, <1>5 DEF rows, Local, Authenticate
<1>6. CASE Guard(s)
  BY <1>0, <1>6 DEF rows, Local, Guard, Behind
<1>7. CASE GuardAgain(s)
  BY <1>0, <1>7 DEF rows, Local, GuardAgain, Behind
<1>8. CASE ReadSettings(s)
  BY <1>0, <1>8 DEF rows, Local, ReadSettings
<1>9. CASE SaveSettings(s) \/ Hold(s)
  BY <1>0, <1>9 DEF rows, SaveSettings, Hold
<1>10. CASE Fail(s)
  BY <1>0, <1>10 DEF rows, Fail, BreakOff
<1> QED BY <1>1, <1>2, <1>3, <1>4, <1>5, <1>6, <1>7, <1>8, <1>9, <1>10 DEF Handle

\* Validate lets a call on that has branches to assign.
LEMMA ValidateEffect ==
    ASSUME TypeOK, ControlInv, NEW s \in Requests, Validate(s)
    PROVE  /\ pc[s] = "validate" /\ UNCHANGED <<call, before, users, assigned, local>>
           /\ call[s].kind \in {"create", "edit", "assign"}
           /\ \/ pc'[s] = "refused"
              \/ /\ call[s].to # {}
                 /\ pc'[s] = IF call[s].kind = "create" THEN "insert" ELSE "sync"
<1>1. pc \in [Requests -> Steps] /\ Fits(s)
  BY DEF TypeOK, ControlInv
<1>2. pc[s] = "validate" /\ UNCHANGED <<call, before, users, assigned, local>>
  BY DEF Validate, Proceed, At, rows
<1>3. call[s].kind \in {"create", "edit", "assign"}
  BY <1>1, <1>2 DEF Fits
<1> QED BY <1>1, <1>2, <1>3 DEF Validate, Goto

\* What such calls ask for stays as it was validated.
LEMMA WriterStays ==
    ASSUME TypeOK, ControlInv, WriterInv, NEW s \in Requests, Handle(s) \/ Fail(s)
    PROVE  WriterInv'
<1>1. ASSUME NEW r \in Requests \ {s} PROVE WriterFits(r)'
  BY OneMoves DEF WriterInv, WriterFits
<1>2. WriterFits(s)'
  <2> USE DEF WriterFits
  <2>0. WriterFits(s) /\ pc'[s] # "idle"
    BY OneMoves DEF WriterInv
  <2>1. CASE Insert(s)
    BY <2>0, <2>1, InsertEffect
  <2>2. CASE Write(s)
    BY <2>0, <2>2, WriteEffect
  <2>3. CASE Sync(s)
    BY <2>0, <2>3, SyncEffect
  <2>4. CASE Unassign(s)
    BY <2>0, <2>4, UnassignEffect
  <2>5. CASE Validate(s)
    BY <2>0, <2>5, ValidateEffect
  <2>6. CASE CreateFind(s) \/ EditFind(s) \/ AssignFind(s)
    BY <2>0, <2>6, FindEffect
  <2>7. CASE ~(CreateFind(s) \/ EditFind(s) \/ AssignFind(s)
               \/ Insert(s) \/ Write(s) \/ Unassign(s) \/ Validate(s) \/ Sync(s))
    BY <2>7, OtherEffect DEF Rewriting
  <2> QED BY <2>1, <2>2, <2>3, <2>4, <2>5, <2>6, <2>7
<1> QED BY <1>1, <1>2 DEF WriterInv

\* Who has written the row or the assignments of a user.
LEMMA RewritesGrow ==
    ASSUME TypeOK, ControlInv, WriterInv, NEW s \in Requests, Handle(s) \/ Fail(s), NEW u
    PROVE  /\ Rewrites(u) \subseteq Rewrites(u)' /\ Rewrites(u)' \subseteq Rewrites(u) \cup {s}
           /\ local'[s].wrote = local[s].wrote => Rewrites(u)' = Rewrites(u)
<1> USE DEF Rewrites, Kind, At
<1>1. \A q \in Requests \ {s} : q \in Rewrites(u)' <=> q \in Rewrites(u)
  BY OneMoves
<1>2. pc[s] = "idle" => ~local[s].wrote
  BY DEF WriterInv, WriterFits
<1>3. local'[s].wrote = local[s].wrote => (s \in Rewrites(u)' <=> s \in Rewrites(u))
  BY <1>2, OneMoves
<1>4. local[s].wrote => local'[s].wrote
  <2>1. CASE Insert(s) \/ Write(s) \/ Sync(s)
    BY <2>1, InsertEffect, WriteEffect, SyncEffect
  <2>2. CASE Unassign(s) \/ Validate(s) \/ CreateFind(s) \/ EditFind(s) \/ AssignFind(s)
    BY <2>2, UnassignEffect, ValidateEffect, FindEffect
  <2> QED BY <2>1, <2>2, OtherEffect
<1>5. s \in Rewrites(u) => s \in Rewrites(u)'
  BY <1>2, <1>4, OneMoves
<1>6. Rewrites(u) \subseteq Requests /\ Rewrites(u)' \subseteq Requests
  OBVIOUS
<1> HIDE DEF Rewrites, Kind, At
<1> QED BY <1>1, <1>3, <1>5, <1>6

\* A user's row is written by a call that rewrites the account, keeps its role or is deleted.
LEMMA RolesMove ==
    ASSUME TypeOK, ControlInv, NEW s \in Requests, Handle(s) \/ Fail(s), NEW u \in Users
    PROVE  \/ ~Known(u)'
           \/ Known(u) /\ users'[u].role = users[u].role
           \/ s \in Rewrites(u)'
<1>1. CASE users'[u] = users[u]
  BY <1>1 DEF Known
<1>2. CASE Insert(s) /\ users' # users
  BY <1>1, <1>2, InsertEffect DEF Rewrites, Kind, At
<1>3. CASE Write(s) /\ users' # users
  <2>1. /\ pc[s] = "write" /\ call' = call /\ call[s].kind = "edit" /\ local'[s].wrote
        /\ pc'[s] # "idle" /\ \A v \in Users \ {call[s].user} : users'[v] = users[v]
    BY <1>3, WriteEffect, OneMoves
  <2> QED BY <1>1, <2>1 DEF Rewrites, Kind, At
<1>4. CASE Drop(s)
  <2>1. PICK k \in In(s, {"drop"}) : users' = users \/ users' = [users EXCEPT ![k.user] = Gone]
    BY <1>4 DEF Drop
  <2>2. users'[u] = users[u] \/ users'[u] = Gone
    BY <2>1 DEF TypeOK
  <2> QED BY <1>1, <2>2 DEF Known
<1>5. CASE CloseBranch(s)
  <2>1. PICK k \in In(s, {"close"}) :
          \/ users' = users
          \/ users' = [v \in Users |-> IF Known(v) /\ users[v].home = k.branch
                                       THEN [users[v] EXCEPT !.home = None] ELSE users[v]]
    BY <1>5 DEF CloseBranch
  <2>2. CASE Known(u) /\ users'[u] = [users[u] EXCEPT !.home = None]
    BY <2>2, KnownRows DEF User
  <2>3. users'[u] = users[u] \/ (Known(u) /\ users'[u] = [users[u] EXCEPT !.home = None])
    BY <2>1
  <2> QED BY <1>1, <2>2, <2>3
<1>6. CASE Sync(s) \/ Unassign(s) \/ Validate(s) \/ CreateFind(s) \/ EditFind(s) \/ AssignFind(s)
  BY <1>1, <1>6, SyncEffect, UnassignEffect, ValidateEffect, FindEffect
<1> QED BY <1>1, <1>2, <1>3, <1>4, <1>5, <1>6, OtherEffect

\* The role an edit has read stays that of the account, short of another call.
LEMMA RoleStays ==
    ASSUME TypeOK, ControlInv, HistoryInv, WriterInv, RoleInv, NEW s \in Requests, Handle(s) \/ Fail(s)
    PROVE  RoleInv'
<1> SUFFICES ASSUME NEW e \in Requests, pc'[e] = "write" PROVE RoleFits(e)'
  BY DEF RoleInv, At
<1>1. CASE e = s
  <2>1. CASE CreateFind(s) \/ EditFind(s) \/ AssignFind(s)
    BY <1>1, <2>1, FindEffect DEF RoleFits
  <2>2. CASE Insert(s) \/ Write(s) \/ Sync(s)
    BY <1>1, <2>2, InsertEffect, WriteEffect, SyncEffect
  <2>3. CASE Unassign(s) \/ Validate(s)
    BY <1>1, <2>3, UnassignEffect, ValidateEffect
  <2> QED BY <1>1, <2>1, <2>2, <2>3, OtherEffect DEF Rewriting
<1>2. CASE e # s
  <2>1. pc[e] = "write" /\ call'[e] = call[e] /\ local'[e] = local[e] /\ before'[e] = before[e]
    BY <1>2, OneMoves
  <2>2. PICK u \in Users : u = call[e].user
    BY <2>1, CallFields DEF ControlInv, Fits
  <2>3. CASE s \in Rewrites(u)'
    <3>1. s \notin before'[e]
      BY <1>2, <2>1, StillOn
    <3> QED BY <1>2, <2>1, <2>2, <2>3, <3>1 DEF RoleFits
  <2>4. CASE \E t \in Rewrites(u) \ {e} : t \notin before[e]
    <3>1. Rewrites(u) \subseteq Rewrites(u)'
      BY RewritesGrow
    <3> QED BY <2>1, <2>2, <2>4, <3>1 DEF RoleFits
  <2>5. CASE ~Known(u)' \/ (Known(u) /\ users'[u].role = users[u].role)
    <3>1. RoleFits(e)
      BY <2>1 DEF RoleInv, At
    <3> QED BY <2>1, <2>2, <2>4, <2>5, <3>1 DEF RoleFits
  <2> QED BY <2>3, <2>5, RolesMove
<1> QED BY <1>1, <1>2

\* A call that has begun to rewrite an account goes on with it.
LEMMA RewritersGoOn ==
    ASSUME TypeOK, ControlInv, WriterInv, NEW s \in Requests, Handle(s) \/ Fail(s), NEW u, s \in Rewrites(u)
    PROVE  /\ pc[s] \in {"validate", "sync", "unassign"}
           /\ call'[s] = call[s] /\ call[s].kind \in {"create", "edit", "assign"} /\ call[s].user = u
           /\ local'[s].row = local[s].row
           /\ \/ Validate(s) /\ pc'[s] = "sync"
              \/ Sync(s) /\ pc'[s] = "done"
              \/ Unassign(s)
              \/ pc'[s] \in {"refused", "failed"}
<1>1. /\ pc[s] # "idle" /\ local[s].wrote /\ call[s].kind \in {"create", "edit", "assign"} /\ call[s].user = u
      /\ pc[s] \notin Ended /\ call'[s] = call[s]
  BY OneMoves DEF Rewrites, Kind, At
<1>2. pc[s] \in Steps /\ Fits(s) /\ WriterFits(s) /\ pc \in [Requests -> Steps]
  BY DEF TypeOK, ControlInv, WriterInv
<1>3. pc[s] \in {"validate", "sync", "unassign"}
  BY <1>1, <1>2 DEF Steps, Fits, WriterFits, Ended
<1>4. Validate(s) \/ Sync(s) \/ Unassign(s) \/ Fail(s)
  <2> USE DEF Proceed, At
  <2>1. ~(Insert(s) \/ Write(s) \/ Token(s) \/ SwitchFind(s) \/ SwitchAccess(s) \/ Me(s) \/ Show(s)
          \/ Guard(s) \/ GuardAgain(s) \/ ReadSettings(s) \/ SaveSettings(s) \/ Hold(s))
    BY <1>3 DEF Insert, Write, Token, SwitchFind, SwitchAccess, Me, Show, Guard, GuardAgain, ReadSettings,
                SaveSettings, Hold
  <2>2. ~(CreateFind(s) \/ EditFind(s) \/ AssignFind(s) \/ Drop(s) \/ OpenBranch(s) \/ ToggleBranch(s)
          \/ CloseBranch(s) \/ Login(s) \/ Authenticate(s))
    BY <1>3 DEF CreateFind, EditFind, AssignFind, Drop, OpenBranch, ToggleBranch, CloseBranch, Login,
                Authenticate, In, New
  <2> QED BY <2>1, <2>2 DEF Handle
<1>5. CASE Validate(s)
  BY <1>1, <1>2, <1>3, <1>5, ValidateEffect DEF WriterFits
<1>6. CASE Sync(s)
  BY <1>1, <1>3, <1>6, SyncEffect
<1>7. CASE Unassign(s)
  BY <1>1, <1>3, <1>7, UnassignEffect
<1>8. CASE Fail(s)
  BY <1>1, <1>2, <1>3, <1>8 DEF Fail, BreakOff, Goto
<1> QED BY <1>4, <1>5, <1>6, <1>7, <1>8

\* What is orderly after a step was so before it, and a call that begins to rewrite an account
\* finds nobody else at it.
LEMMA TidyBefore ==
    ASSUME TypeOK, ControlInv, HistoryInv, WriterInv, NEW s \in Requests, Handle(s) \/ Fail(s),
           NEW u \in Users, Tidy(u)'
    PROVE  /\ Tidy(u)
           /\ s \in Rewrites(u)' \ Rewrites(u) =>
                \A t \in Rewrites(u) : pc[t] = "done" /\ pc'[t] = "done" /\ t \in before[s] /\ t # s
<1>1. \A q \in Requests \ {s} : pc'[q] = pc[q] /\ call'[q] = call[q] /\ before'[q] = before[q] /\ local'[q] = local[q]
  BY OneMoves
<1>2. Rewrites(u) \subseteq Rewrites(u)' /\ Rewrites(u)' \subseteq Requests
  BY RewritesGrow DEF Rewrites
<1>3. s \in Rewrites(u)' => before'[s] = before[s]
  <2>1. CASE pc[s] # "idle"
    BY <2>1, OneMoves
  <2>2. CASE CreateFind(s) \/ EditFind(s) \/ AssignFind(s)
    BY <1>2, <2>2, FindEffect DEF Rewrites, WriterInv, WriterFits
  <2>3. CASE Insert(s) \/ Write(s) \/ Unassign(s) \/ Validate(s) \/ Sync(s)
    BY <2>1, <2>3, InsertEffect, WriteEffect, UnassignEffect, ValidateEffect, SyncEffect
  <2>4. CASE pc[s] = "idle" /\ local'[s].wrote = local[s].wrote
    BY <2>4 DEF Rewrites, WriterInv, WriterFits
  <2> QED BY <2>1, <2>2, <2>3, <2>4, OtherEffect
<1>4. ASSUME NEW t \in Rewrites(u)
      PROVE  /\ pc[t] \in {"done", "validate", "sync", "unassign"} /\ ~HomelessCashier(t)
             /\ \A q \in Rewrites(u) \ {t} : t \in before[q] \/ q \in before[t]
  <2>1. t \in Rewrites(u)' /\ t \in Requests
    BY <1>2
  <2>2. /\ pc'[t] \in {"done", "validate", "sync", "unassign"} /\ ~HomelessCashier(t)'
        /\ \A q \in Rewrites(u)' \ {t} : t \in before'[q] \/ q \in before'[t]
    BY <2>1 DEF Tidy
  <2>3. \A q \in Rewrites(u) : before'[q] = before[q]
    BY <1>1, <1>2, <1>3
  <2>4. CASE t # s
    BY <1>1, <1>2, <2>1, <2>2, <2>3, <2>4 DEF HomelessCashier, Kind, At
  <2>5. CASE t = s
    BY <1>2, <2>2, <2>3, <2>5, RewritersGoOn DEF HomelessCashier, Kind, At
  <2> QED BY <2>4, <2>5
<1>5. \A c \in Requests : Kind(c, {"close"}) => ~At(c, "done")
  BY <1>1, OneMoves DEF Tidy, Kind, At, Ended
<1>6. ASSUME s \in Rewrites(u)' \ Rewrites(u), NEW t \in Rewrites(u)
      PROVE  pc[t] = "done" /\ pc'[t] = "done" /\ t \in before[s] /\ t # s
  <2>1. t # s /\ t \in Requests /\ t \in Rewrites(u)'
    BY <1>2, <1>6
  <2>2. s \notin before'[t]
    BY <1>1, <2>1, StillOn
  <2>3. t \in before[s]
    BY <1>3, <1>6, <2>1, <2>2 DEF Tidy
  <2>4. pc[t] \in Ended
    BY <2>3 DEF HistoryInv
  <2> QED BY <1>1, <1>4, <2>1, <2>3, <2>4 DEF Ended
<1> QED BY <1>4, <1>5, <1>6 DEF Tidy

\* A call that begins to rewrite an account leaves it as its role needs it, or goes on.
LEMMA StaffBegin ==
    ASSUME TypeOK, ControlInv, HistoryInv, WriterInv, RoleInv, StaffInv,
           NEW s \in Requests, Handle(s) \/ Fail(s), NEW u \in Users, Known(u)', Tidy(u)',
           s \in Rewrites(u)' \ Rewrites(u)
    PROVE  StaffFits(u)'
<1>1. /\ Tidy(u) /\ \A t \in Rewrites(u) : pc[t] = "done" /\ pc'[t] = "done" /\ t \in before[s] /\ t # s
      /\ Rewrites(u)' \subseteq Rewrites(u) \cup {s}
  BY TidyBefore, RewritesGrow
<1>2. /\ local'[s].wrote # local[s].wrote /\ pc'[s] \in {"done", "validate", "sync", "unassign"}
      /\ ~HomelessCashier(s)' /\ call'[s].user = u
  BY RewritesGrow DEF Tidy, Rewrites
<1>3. Known(u) =>
        /\ users[u].role = "CASHIER" <=> users[u].home # None
        /\ users[u].role = "ADMIN" => assigned[u] # {}
  BY <1>1 DEF StaffInv, StaffFits
<1>4. CASE Insert(s)
  <2>1. /\ call' = call /\ pc[s] = "insert" /\ pc'[s] = IF call[s].role = "ADMIN" THEN "sync" ELSE "done"
        /\ users'[u].role = call[s].role
        /\ users'[u].home = IF call[s].role = "CASHIER" THEN call[s].home ELSE None
    BY <1>2, <1>4, InsertEffect
  <2>2. call[s].role = "CASHIER" => call[s].home # None
    BY <2>1 DEF WriterInv, WriterFits
  <2>3. users'[u].role = "CASHIER" <=> users'[u].home # None
    BY <2>1, <2>2
  <2>4. users'[u].role = "ADMIN" => pc'[s] = "sync"
    BY <2>1
  <2>5. \A t \in Rewrites(u)' : pc'[t] # "unassign"
    BY <1>1, <2>1
  <2> QED BY <2>3, <2>4, <2>5 DEF StaffFits
<1>5. CASE Write(s)
  <2> DEFINE k    == call[s]
             read == local[s].row
  <2>1. /\ call' = call /\ pc[s] = "write" /\ k.kind = "edit" /\ k.user = u /\ Known(u) /\ assigned' = assigned
        /\ pc'[s] = IF RoleName(s) # "ADMIN" THEN IF k.role # None THEN "unassign" ELSE "done"
                    ELSE IF k.to # None THEN "validate"
                    ELSE IF k.role # None /\ read.role # "ADMIN" THEN "refused" ELSE "done"
        /\ users'[u].role = First(k.role, users[u].role)
        /\ users'[u].home = IF RoleName(s) # "CASHIER" THEN None ELSE First(k.home, users[u].home)
        /\ local'[s].row = read
    BY <1>2, <1>5, WriteEffect
  <2>2. users[u].role = read.role
    BY <1>1, <2>1 DEF RoleInv, RoleFits, At
  <2>3. users'[u].role = RoleName(s) /\ RoleName(s) = First(k.role, read.role)
    BY <2>1, <2>2 DEF RoleName
  <2>4. RoleName(s) = "CASHIER" => users'[u].home # None
    <3>1. ~(k.role = "CASHIER" /\ k.home = None /\ read.role # "CASHIER")
      BY <1>2, <2>1 DEF HomelessCashier, Kind, At
    <3>2. RoleName(s) = "CASHIER" /\ k.home = None => users[u].home # None
      BY <1>3, <2>1, <2>2, <2>3, <3>1 DEF First
    <3> QED BY <2>1, <3>2 DEF First
  <2>5. RoleName(s) # "CASHIER" => users'[u].home = None
    BY <2>1
  <2>6. RoleName(s) = "ADMIN" => assigned'[u] # {} \/ pc'[s] = "validate"
    <3>1. CASE pc'[s] = "done" /\ RoleName(s) = "ADMIN"
      <4>1. read.role = "ADMIN"
        BY <2>1, <2>3, <3>1 DEF First
      <4> QED BY <1>3, <2>1, <2>2, <4>1
    <3> QED BY <1>2, <2>1, <3>1
  <2>7. \A t \in Rewrites(u)' : pc'[t] = "unassign" => RoleName(s) # "ADMIN"
    BY <1>1, <2>1
  <2> QED BY <2>3, <2>4, <2>5, <2>6, <2>7 DEF StaffFits
<1>6. CASE Sync(s)
  <2>1. pc[s] = "sync" /\ UNCHANGED <<call, users>> /\ pc'[s] = "done" /\ assigned'[u] = call[s].to
    BY <1>2, <1>6, SyncEffect
  <2>2. call[s].to # {} /\ Known(u)
    BY <2>1 DEF WriterInv, WriterFits, Known
  <2>3. \A t \in Rewrites(u)' : pc'[t] # "unassign"
    BY <1>1, <2>1
  <2> QED BY <1>3, <2>1, <2>2, <2>3 DEF StaffFits
<1>7. CASE Unassign(s) \/ Validate(s) \/ CreateFind(s) \/ EditFind(s) \/ AssignFind(s)
  BY <1>2, <1>7, UnassignEffect, ValidateEffect, FindEffect
<1> QED BY <1>2, <1>4, <1>5, <1>6, <1>7, OtherEffect

\* A user's row and assignments change while nobody begins to rewrite them.
LEMMA StaffRows ==
    ASSUME TypeOK, ControlInv, WriterInv, NEW s \in Requests, Handle(s) \/ Fail(s),
           NEW u \in Users, s \notin Rewrites(u)', Known(u)', Tidy(u)'
    PROVE  users'[u] = users[u] /\ assigned'[u] = assigned[u]
<1> USE DEF Rewrites, Kind, At
<1>0. pc'[s] # "idle"
  BY OneMoves
<1>1. CASE Insert(s)
  <2>1. call[s].user # u \/ users' = users
    BY <1>0, <1>1, InsertEffect
  <2> QED BY <1>1, <2>1, InsertEffect
<1>2. CASE Write(s)
  <2>1. call[s].user # u \/ users' = users
    BY <1>0, <1>2, WriteEffect
  <2> QED BY <1>2, <2>1, WriteEffect
<1>3. CASE Sync(s)
  <2>1. call[s].user # u \/ assigned' = assigned
    BY <1>0, <1>3, SyncEffect
  <2> QED BY <1>3, <2>1, SyncEffect
<1>4. CASE Unassign(s)
  <2>1. local[s].wrote
    BY <1>4, UnassignEffect DEF WriterInv, WriterFits
  <2>2. call[s].user # u
    BY <1>0, <1>4, <2>1, UnassignEffect
  <2> QED BY <1>4, <2>2, UnassignEffect
<1>5. CASE Drop(s)
  <2>1. PICK k \in In(s, {"drop"}) :
          \/ UNCHANGED <<users, assigned>>
          \/ /\ users' = [users EXCEPT ![k.user] = Gone] /\ assigned' = [assigned EXCEPT ![k.user] = {}]
    BY <1>5 DEF Drop
  <2>2. users \in [Users -> User \cup {None, Gone}] /\ assigned \in [Users -> SUBSET Standing]
    BY DEF TypeOK
  <2>3. k.user = u => UNCHANGED <<users, assigned>>
    BY <2>1, <2>2 DEF Known
  <2> QED BY <2>1, <2>2, <2>3
<1>6. CASE CloseBranch(s)
  <2>1. PICK k \in In(s, {"close"}) :
          Arrive(s, k) /\ (UNCHANGED <<users, assigned>> \/ Goto(s, "done"))
    BY <1>6 DEF CloseBranch
  <2>2. call'[s] = k /\ k.kind = "close"
    BY <2>1, Incoming DEF Arrive, TypeOK
  <2>3. pc'[s] # "done"
    BY <1>0, <2>2 DEF Tidy
  <2> QED BY <2>1, <2>3 DEF Goto, TypeOK
<1>7. CASE Validate(s) \/ CreateFind(s) \/ EditFind(s) \/ AssignFind(s)
  BY <1>7, ValidateEffect, FindEffect
<1> QED BY <1>1, <1>2, <1>3, <1>4, <1>5, <1>6, <1>7, OtherEffect

\* A call that goes on rewriting an account ends with what the role needs.
LEMMA StaffGoOn ==
    ASSUME TypeOK, ControlInv, HistoryInv, WriterInv, StaffInv,
           NEW s \in Requests, Handle(s) \/ Fail(s), NEW u \in Users, Known(u)', Tidy(u)', s \in Rewrites(u)
    PROVE  StaffFits(u)'
<1>1. Rewrites(u)' = Rewrites(u) /\ Tidy(u)
  BY RewritesGrow, TidyBefore
<1>2. \A t \in Rewrites(u) \ {s} : pc'[t] = pc[t]
  BY OneMoves DEF Rewrites
<1>3. call[s].user = u /\ pc'[s] \notin {"refused", "failed"}
  BY <1>1, RewritersGoOn DEF Tidy
<1>4. CASE Validate(s) /\ pc'[s] = "sync"
  <2>1. UNCHANGED <<users, assigned>>
    BY <1>4, ValidateEffect
  <2>2. Known(u)
    BY <2>1 DEF Known
  <2> QED BY <1>1, <1>2, <1>4, <2>1, <2>2 DEF StaffInv, StaffFits
<1>5. CASE Sync(s) /\ pc'[s] = "done"
  <2>1. pc[s] = "sync" /\ UNCHANGED users /\ assigned'[u] = call[s].to
    BY <1>3, <1>5, SyncEffect
  <2>2. Known(u) /\ call[s].to # {}
    BY <2>1 DEF Known, WriterInv, WriterFits
  <2> QED BY <1>1, <1>2, <1>5, <2>1, <2>2 DEF StaffInv, StaffFits
<1>6. CASE Unassign(s)
  <2>1. pc[s] = "unassign" /\ pc'[s] = "done" /\ UNCHANGED users
    BY <1>6, UnassignEffect
  <2>2. Known(u)
    BY <2>1 DEF Known
  <2> QED BY <1>1, <1>2, <2>1, <2>2 DEF StaffInv, StaffFits
<1> QED BY <1>3, <1>4, <1>5, <1>6, RewritersGoOn

\* Accounts keep what their roles need, or will get it.
LEMMA StaffStays ==
    ASSUME TypeOK, ControlInv, HistoryInv, WriterInv, RoleInv, StaffInv, NEW s \in Requests, Handle(s) \/ Fail(s)
    PROVE  StaffInv'
<1> SUFFICES ASSUME NEW u \in Users, Known(u)', Tidy(u)' PROVE StaffFits(u)'
  BY DEF StaffInv
<1>1. CASE s \in Rewrites(u)
  BY <1>1, StaffGoOn
<1>2. CASE s \in Rewrites(u)' \ Rewrites(u)
  BY <1>2, StaffBegin
<1>3. CASE s \notin Rewrites(u)'
  <2>1. users'[u] = users[u] /\ assigned'[u] = assigned[u]
    BY <1>3, StaffRows
  <2>2. Rewrites(u)' = Rewrites(u) /\ Tidy(u)
    BY <1>3, RewritesGrow, TidyBefore
  <2>3. \A t \in Rewrites(u) : pc'[t] = pc[t]
    BY <1>3, <2>2, OneMoves DEF Rewrites
  <2>4. Known(u)
    BY <2>1 DEF Known
  <2> QED BY <2>1, <2>2, <2>3, <2>4 DEF StaffInv, StaffFits
<1> QED BY <1>1, <1>2, <1>3, RewritesGrow

\* The steps of a sign-in are taken by sign-ins only.
LEMMA NoSignIn ==
    ASSUME TypeOK, ControlInv, NEW r \in Requests, Handle(r) \/ Fail(r),
           ~(Login(r) \/ Token(r) \/ SwitchFind(r) \/ SwitchAccess(r) \/ Me(r) \/ Show(r) \/ Authenticate(r)),
           call'[r].kind \in {"login", "switch"}
    PROVE  pc'[r] \notin {"token", "find", "access", "me", "show", "done"}
<1> USE DEF At, Proceed
<1>0. pc \in [Requests -> Steps] /\ call \in [Requests -> Calls \cup {None}] /\ Fits(r)
  BY DEF TypeOK, ControlInv
<1>1. CASE Fail(r)
  BY <1>0, <1>1 DEF Fail, BreakOff, Goto
<1>2. CASE Insert(r) \/ Write(r) \/ Sync(r) \/ Unassign(r) \/ Validate(r)
  BY <1>2, InsertEffect, WriteEffect, SyncEffect, UnassignEffect, ValidateEffect
<1>3. CASE CreateFind(r) \/ EditFind(r) \/ AssignFind(r)
  BY <1>3, FindEffect
<1>4. CASE Drop(r) \/ OpenBranch(r) \/ ToggleBranch(r) \/ CloseBranch(r)
  <2>1. PICK k \in In(r, {"drop", "open", "toggle", "close"}) : Arrive(r, k)
    BY <1>4 DEF Drop, OpenBranch, ToggleBranch, CloseBranch, In
  <2> QED BY <1>0, <2>1, Incoming DEF Arrive
<1>5. CASE Guard(r) \/ GuardAgain(r) \/ ReadSettings(r) \/ SaveSettings(r) \/ Hold(r)
  <2>1. call' = call /\ pc[r] \in {"guard", "again", "read", "save", "hold"}
    BY <1>5 DEF Guard, GuardAgain, ReadSettings, SaveSettings, Hold
  <2> QED BY <1>0, <2>1 DEF Fits
<1> QED BY <1>1, <1>2, <1>3, <1>4, <1>5 DEF Handle

-----------------------------------------------------------------------------
(* Sign-in.                                                                 *)

Places(u) == BranchesFor(users[u].role, users[u], assigned[u], Open)

\* The branch that a sign-in names: the first of its user's, or the one that was asked for.
Named(r) ==
    LET u == call[r].user
    IN  \/ call[r].kind = "login" /\ local[r].where \in TokenBranches(users[u], Places(u))
        \/ /\ call[r].kind = "switch" /\ local[r].where \in Branches
           /\ users[u].role # "CASHIER" /\ MayAccess(users[u], local[r].where, Places(u))

\* What a sign-in knows of its user.
Knows(r) ==
    LET u == call[r].user
    IN  /\ pc[r] \in {"token", "find", "access", "me", "show", "done"} => MaySignOn(u)
        /\ pc[r] \in {"token", "access", "show"} => local[r].row = users[u]
        /\ pc[r] = "access" => users[u].role # "CASHIER"
        /\ pc[r] \in {"me", "show", "done"} => Named(r)
        /\ pc[r] \in {"show", "done"} => local[r].pages = assigned[u]
        /\ pc[r] = "done" => local[r].shown \in ShownBranches(users[u], Places(u), local[r].where)

SignInv == \A r \in Requests : Kind(r, {"login", "switch"}) => Knows(r) \/ Changed(r)

\* Sign-ins name a user, and come to these statements only.
LEMMA SignInUsers ==
    ASSUME ControlInv, NEW r \in Requests, Kind(r, {"login", "switch"})
    PROVE  call[r] \in Calls /\ call[r].user \in Users
<1>1. call[r] \in Calls /\ call[r].kind \in {"login", "switch"}
  BY DEF ControlInv, Fits, Kind, At
<1> QED BY <1>1, CallFields

\* What a sign-in knows holds while nothing changes where its user works.
LEMMA OthersKnow ==
    ASSUME TypeOK, ControlInv, HistoryInv, SignInv, NEW s \in Requests, Handle(s) \/ Fail(s),
           NEW r \in Requests \ {s}, Kind(r, {"login", "switch"})'
    PROVE  Knows(r)' \/ Changed(r)'
<1>1. pc'[r] = pc[r] /\ call'[r] = call[r] /\ local'[r] = local[r] /\ before'[r] = before[r]
  BY OneMoves
<1>2. Kind(r, {"login", "switch"}) /\ pc[r] # "idle"
  BY <1>1 DEF Kind, At
<1>3. PICK u \in Users : u = call[r].user
  BY <1>2, SignInUsers
<1>4. CASE Changed(r)
  BY <1>2, <1>4, ChangedStays
<1>5. CASE Changes(s, u)'
  BY <1>1, <1>3, <1>5, StillOn DEF Changed
<1>6. CASE /\ Knows(r)
           /\ users'[u] = users[u] /\ assigned'[u] = assigned[u] /\ branches' = branches
  <2>1. Places(u)' = Places(u) /\ (MaySignOn(u) => MaySignOn(u)')
    BY <1>6 DEF Places, Open, MaySignOn, Known
  <2>2. Named(r) => Named(r)'
    BY <1>1, <1>3, <1>6, <2>1 DEF Named
  <2> QED BY <1>1, <1>3, <1>6, <2>1, <2>2 DEF Knows
<1> QED BY <1>2, <1>3, <1>4, <1>5, <1>6, PlacesMove DEF SignInv

\* The branches that are read for a known user are those the user works in.
LEMMA SamePlaces ==
    ASSUME TypeOK, NEW r \in Requests, NEW u \in Users, call[r].user = u, Known(u), local[r].row = users[u]
    PROVE  Allowed(r) = Places(u) /\ Row(u) = users[u]
  BY DEF Allowed, Places, Row

\* The steps of a sign-in.
LEMMA OwnKnows ==
    ASSUME TypeOK, ControlInv, HistoryInv, SignInv, NEW r \in Requests, Handle(r) \/ Fail(r),
           Kind(r, {"login", "switch"})'
    PROVE  Knows(r)' \/ Changed(r)'
<1> USE DEF At, Proceed
<1>0. /\ pc \in [Requests -> Steps] /\ call \in [Requests -> Calls \cup {None}] /\ local \in [Requests -> Local]
      /\ users \in [Users -> User \cup {None, Gone}] /\ assigned \in [Users -> SUBSET Branches]
      /\ Fits(r) /\ Fits(r)' /\ tokens \in [Users -> SUBSET (Branches \cup {None})]
  BY AllMove DEF TypeOK, ControlInv, Standing
<1>1. call'[r].kind \in {"login", "switch"} /\ pc'[r] # "idle"
  BY DEF Kind
<1>2. CASE pc'[r] \notin {"token", "find", "access", "me", "show", "done"}
  BY <1>2 DEF Knows
<1>3. CASE Login(r)
  <2>1. PICK k \in In(r, {"login"}) :
          /\ Arrive(r, k)
          /\ \/ Goto(r, "refused")
             \/ /\ Known(k.user) /\ users[k.user].active
                /\ local' = [local EXCEPT ![r].row = users[k.user]] /\ Goto(r, "token")
    BY <1>3 DEF Login, Refuse
  <2>2. CASE Goto(r, "refused")
    BY <1>0, <1>2, <2>2 DEF Goto
  <2>3. CASE /\ Known(k.user) /\ users[k.user].active
             /\ local' = [local EXCEPT ![r].row = users[k.user]] /\ Goto(r, "token")
    <3>1. pc'[r] = "token" /\ call'[r] = k /\ k.user \in Users /\ UNCHANGED rows
      BY <1>0, <1>3, <2>1, <2>3, Incoming, CallFields DEF Goto, Arrive, Login
    <3>2. users[k.user] \in User
      BY <2>3, <3>1, KnownRows
    <3>3. local'[r].row = users[k.user]
      BY <1>0, <2>3, <3>2, NoteRow
    <3>4. MaySignOn(k.user)'
      BY <2>3, <3>1 DEF rows, MaySignOn, Known
    <3> QED BY <3>1, <3>3, <3>4 DEF Knows, rows
  <2> QED BY <2>1, <2>2, <2>3
<1>4. CASE Authenticate(r)
  <2>0. PICK k \in In(r, {"switch", "store", "loyalty", "video", "hold"}) : \E t \in tokens[k.user] :
          /\ Arrive(r, k)
          /\ \/ Goto(r, "refused")
             \/ MaySignOn(k.user) /\ Goto(r, IF k.kind = "switch" THEN "find" ELSE "guard")
    BY <1>4 DEF Authenticate, Refuse
  <2>1. CASE MaySignOn(k.user) /\ Goto(r, IF k.kind = "switch" THEN "find" ELSE "guard")
    <3>1. call'[r] = k /\ pc'[r] \in {"find", "guard"} /\ UNCHANGED rows
      BY <1>0, <1>4, <2>0, <2>1 DEF Goto, Arrive, Authenticate
    <3>2. MaySignOn(k.user)'
      BY <2>1, <3>1 DEF rows, MaySignOn, Known
    <3> QED BY <3>1, <3>2 DEF Knows
  <2>2. CASE Goto(r, "refused")
    BY <1>0, <1>2, <2>2 DEF Goto
  <2> QED BY <2>0, <2>1, <2>2
<1>5. ASSUME pc[r] \in {"token", "find", "access", "me", "show"}
      PROVE  /\ call' = call => call[r].user \in Users /\ call[r] \in Calls
             /\ Changed(r) => Changed(r)'
             /\ call' = call => Knows(r) \/ Changed(r)
  <2>1. Changed(r) => Changed(r)'
    BY <1>5, ChangedStays
  <2>2. call' = call => Kind(r, {"login", "switch"})
    BY <1>1, <1>5 DEF Kind
  <2> QED BY <2>1, <2>2, SignInUsers DEF SignInv
<1> DEFINE u == call[r].user
<1>6. ASSUME UNCHANGED <<call, users, assigned, branches>>, pc[r] \in {"token", "find", "access", "me", "show"}
      PROVE  /\ u \in Users /\ MaySignOn(u) = MaySignOn(u)' /\ users'[u] = users[u] /\ assigned'[u] = assigned[u]
             /\ Places(u)' = Places(u)
  BY <1>5, <1>6 DEF MaySignOn, Known, Places, Open
<1>7. CASE Token(r) /\ Knows(r)
  <2>1. pc[r] = "token" /\ pc'[r] = "me" /\ UNCHANGED <<call, before>> /\ UNCHANGED rows
    BY <1>0, <1>7 DEF Token, Goto
  <2>2. call[r].kind = "login" /\ u \in Users /\ MaySignOn(u) /\ local[r].row = users[u]
    BY <1>0, <1>5, <1>7, <2>1 DEF Fits, Knows
  <2>3. Row(u) = users[u] /\ users[u] \in User
    BY <2>2, KnownRows DEF MaySignOn, Row
  <2>4. PICK b \in TokenBranches(users[u], Places(u)) : local' = [local EXCEPT ![r].where = b]
    BY <1>7, <2>2, <2>3 DEF Token, Places
  <2>5. Places(u) \in SUBSET Branches
    BY <1>0, <2>2, <2>3, BranchTypes DEF Places
  <2>6. local'[r].where = b
    BY <1>0, <2>3, <2>4, <2>5, AnswerTypes, NoteWhere
  <2>7. MaySignOn(u)' /\ users'[u] = users[u] /\ Places(u)' = Places(u)
    BY <1>6, <2>1, <2>2 DEF rows
  <2>8. Named(r)'
    BY <2>1, <2>2, <2>4, <2>6, <2>7 DEF Named
  <2> QED BY <2>1, <2>7, <2>8 DEF Knows
<1>8. CASE SwitchFind(r) /\ Knows(r)
  <2>1. pc[r] = "find" /\ UNCHANGED <<call, before>> /\ UNCHANGED rows
    BY <1>8 DEF SwitchFind
  <2>2. CASE Refuse(r)
    BY <1>0, <1>2, <2>2 DEF Refuse, Goto
  <2>3. CASE /\ Known(u) /\ users[u].role # "CASHIER" /\ Goto(r, "access")
             /\ local' = [local EXCEPT ![r].row = users[u]]
    <3>1. pc'[r] = "access" /\ u \in Users /\ MaySignOn(u) /\ users[u] \in User
      BY <1>0, <1>5, <1>8, <2>1, <2>3, KnownRows DEF Goto, Knows
    <3>2. local'[r].row = users[u]
      BY <1>0, <2>3, <3>1, NoteRow
    <3> QED BY <1>6, <2>1, <2>3, <3>1, <3>2 DEF Knows, rows
  <2> QED BY <1>8, <2>2, <2>3 DEF SwitchFind
<1>9. CASE SwitchAccess(r) /\ Knows(r)
  <2> DEFINE b == call[r].to
  <2>1. pc[r] = "access" /\ UNCHANGED <<call, before>> /\ UNCHANGED rows
    BY <1>9 DEF SwitchAccess
  <2>2. CASE Refuse(r)
    BY <1>0, <1>2, <2>2 DEF Refuse, Goto
  <2>3. CASE MayAccess(local[r].row, b, Allowed(r)) /\ local' = [local EXCEPT ![r].where = b] /\ Goto(r, "me")
    <3>1. /\ pc'[r] = "me" /\ u \in Users /\ call[r] \in Calls /\ call[r].kind = "switch" /\ MaySignOn(u)
          /\ local[r].row = users[u] /\ users[u].role # "CASHIER"
      BY <1>0, <1>5, <1>9, <2>1, <2>3 DEF Goto, Knows, Fits
    <3>2. b \in Branches
      BY <3>1, CallFields
    <3>3. local'[r].where = b
      BY <1>0, <2>3, <3>2, NoteWhere
    <3>4. MayAccess(users[u], b, Places(u))
      BY <2>3, <3>1, SamePlaces DEF MaySignOn
    <3>5. MaySignOn(u)' /\ users'[u] = users[u] /\ Places(u)' = Places(u)
      BY <1>6, <2>1, <3>1 DEF rows
    <3>6. Named(r)'
      BY <2>1, <3>1, <3>2, <3>3, <3>4, <3>5 DEF Named
    <3> QED BY <2>1, <3>1, <3>5, <3>6 DEF Knows
  <2> QED BY <1>9, <2>2, <2>3 DEF SwitchAccess
<1>10. CASE Me(r) /\ Knows(r)
  <2>1. pc[r] = "me" /\ UNCHANGED <<call, before>> /\ UNCHANGED rows
    BY <1>10 DEF Me
  <2>2. CASE Refuse(r)
    BY <1>0, <1>2, <2>2 DEF Refuse, Goto
  <2>3. CASE local' = [local EXCEPT ![r].row = users[u], ![r].pages = assigned[u]] /\ Goto(r, "show")
    <3>1. pc'[r] = "show" /\ u \in Users /\ MaySignOn(u) /\ Named(r)
      BY <1>0, <1>5, <1>10, <2>1, <2>3 DEF Goto, Knows
    <3>2. local'[r].row = users[u] /\ local'[r].pages = assigned[u] /\ local'[r].where = local[r].where
      BY <1>0, <2>3 DEF Local
    <3>3. MaySignOn(u)' /\ users'[u] = users[u] /\ assigned'[u] = assigned[u] /\ Places(u)' = Places(u)
      BY <1>6, <2>1, <3>1 DEF rows
    <3>4. Named(r)'
      BY <2>1, <3>1, <3>2, <3>3 DEF Named
    <3> QED BY <2>1, <3>1, <3>2, <3>3, <3>4 DEF Knows
  <2> QED BY <1>10, <2>2, <2>3 DEF Me
<1>11. CASE Show(r) /\ Knows(r)
  <2>1. /\ pc[r] = "show" /\ pc'[r] = "done" /\ UNCHANGED <<call, before>>
        /\ UNCHANGED <<users, assigned, branches>>
    BY <1>0, <1>11 DEF Show, Goto
  <2>2. /\ u \in Users /\ MaySignOn(u) /\ local[r].row = users[u] /\ Named(r) /\ local[r].pages = assigned[u]
    BY <1>5, <1>11, <2>1 DEF Knows
  <2>3. PICK b \in ShownBranches(users[u], Places(u), local[r].where) : local' = [local EXCEPT ![r].shown = b]
    BY <1>11, <2>2, SamePlaces DEF Show, MaySignOn
  <2>4. local'[r].shown = b /\ local'[r].where = local[r].where /\ local'[r].pages = local[r].pages
    BY <1>0, <2>3 DEF Local
  <2>5. MaySignOn(u)' /\ users'[u] = users[u] /\ assigned'[u] = assigned[u] /\ Places(u)' = Places(u)
    BY <1>6, <2>1, <2>2
  <2>6. Named(r)'
    BY <2>1, <2>2, <2>4, <2>5 DEF Named
  <2> QED BY <2>1, <2>2, <2>3, <2>4, <2>5, <2>6 DEF Knows
<1>12. Token(r) \/ SwitchFind(r) \/ SwitchAccess(r) \/ Me(r) \/ Show(r) =>
         call' = call /\ pc[r] \in {"token", "find", "access", "me", "show"}
  BY DEF Token, SwitchFind, SwitchAccess, Me, Show
<1>13. CASE Token(r) \/ SwitchFind(r) \/ SwitchAccess(r) \/ Me(r) \/ Show(r)
  BY <1>5, <1>7, <1>8, <1>9, <1>10, <1>11, <1>12, <1>13
<1>14. CASE ~(Login(r) \/ Token(r) \/ SwitchFind(r) \/ SwitchAccess(r) \/ Me(r) \/ Show(r) \/ Authenticate(r))
  BY <1>1, <1>2, <1>14, NoSignIn
<1> QED BY <1>3, <1>4, <1>13, <1>14

\* What sign-ins know stays true, or something has changed.
LEMMA SignStays ==
    ASSUME TypeOK, ControlInv, HistoryInv, SignInv, NEW s \in Requests, Handle(s) \/ Fail(s)
    PROVE  SignInv'
  BY OthersKnow, OwnKnows DEF SignInv

-----------------------------------------------------------------------------
\* What calls that rewrite accounts and calls that sign in rely on.
AccountInv == WriterInv /\ RoleInv /\ StaffInv /\ SignInv

\* The accounts' part of the invariant is kept.
LEMMA AccountsStay == IInv /\ AccountInv /\ [Next]_vars => AccountInv'
<1> SUFFICES ASSUME IInv, AccountInv, [Next]_vars PROVE AccountInv'
  OBVIOUS
<1> USE DEF IInv, AccountInv
<1>1. ASSUME NEW s \in Requests, Handle(s) \/ Fail(s)
      PROVE  AccountInv'
  BY <1>1, WriterStays, RoleStays, StaffStays, SignStays
<1>2. CASE UNCHANGED vars
  <2>1. UNCHANGED <<users, assigned, branches, local, call, pc, before>>
    BY <1>2 DEF vars
  <2>2. \A u : Rewrites(u)' = Rewrites(u) /\ Tidy(u)' = Tidy(u) /\ Known(u)' = Known(u)
    BY <2>1 DEF Rewrites, Tidy, HomelessCashier, Kind, At, Known
  <2>3. WriterInv' /\ RoleInv'
    BY <2>1, <2>2 DEF WriterInv, WriterFits, RoleInv, RoleFits, At
  <2>4. StaffInv'
    BY <2>1, <2>2 DEF StaffInv, StaffFits
  <2>5. \A u : Places(u)' = Places(u) /\ MaySignOn(u)' = MaySignOn(u)
    BY <2>1, <2>2 DEF Places, Open, MaySignOn
  <2>6. \A r \in Requests : Knows(r)' = Knows(r) /\ Changed(r)' = Changed(r)
    BY <2>1, <2>5 DEF Knows, Named, Changed, Changes, Kind, NotBefore, At
  <2>7. SignInv'
    BY <2>1, <2>6 DEF SignInv, Kind, At
  <2> QED BY <2>3, <2>4, <2>7
<1> QED BY <1>1, <1>2 DEF Next, AllEnded

\* It holds at first.
LEMMA AccountsBegin == Init => AccountInv
<1> SUFFICES ASSUME Init PROVE AccountInv
  OBVIOUS
<1>1. pc = [r \in Requests |-> "idle"] /\ local = [r \in Requests |-> NothingRead]
  BY DEF Init, NoCalls
<1>2. WriterInv /\ RoleInv /\ SignInv
  BY <1>1 DEF WriterInv, WriterFits, RoleInv, SignInv, NothingRead, Kind, At
<1>3. \A u \in Users : Rewrites(u) = {}
  BY <1>1 DEF Rewrites, Kind, At
<1>4. StaffInv
  BY <1>3 DEF StaffInv, StaffFits, Init, HasItsBranches
<1> QED BY <1>2, <1>4 DEF AccountInv

\* An account that is orderly is as its role needs it.
LEMMA OrderlyStaff ==
    ASSUME AccountInv, NEW u \in Users, Known(u), Orderly(u)
    PROVE  /\ users[u].role = "CASHIER" <=> users[u].home # None
           /\ users[u].role = "ADMIN" => assigned[u] # {}
<1>1. Tidy(u) /\ \A s \in Rewrites(u) : pc[s] = "done"
  BY DEF Orderly, Tidy, At
<1> QED BY <1>1 DEF AccountInv, StaffInv, StaffFits

\* Admins have branches assigned and cashiers a home branch, whatever orderly sequence of
\* creations, edits and assignments they went through (UsersService.create, update,
\* setUserBranches, BranchesService.remove).
THEOREM StaffHaveTheirBranchesHolds == Spec => []StaffHaveTheirBranches
<1>1. AccountInv => StaffHaveTheirBranches
  BY OrderlyStaff DEF StaffHaveTheirBranches
<1>2. Spec => []AccountInv
  BY Inductive, AccountsBegin, AccountsStay, PTL DEF Spec
<1> QED BY <1>1, <1>2, PTL

\* A finished sign-in that nothing overlapped shows its user a branch to work in.
LEMMA SignInFits ==
    ASSUME IInv, AccountInv, NEW r \in Requests, Kind(r, {"login", "switch"}), At(r, "done"),
           Orderly(call[r].user), \A s \in Requests : Changes(s, call[r].user) => s \in before[r]
    PROVE  LET u == call[r].user
               b == local[r].where
           IN  /\ local[r].shown = b
               /\ b = None => users[u].role = "SUPER_ADMIN"
               /\ b # None => MayAct(u, b) /\ SeesPages(users[u], b, local[r].pages)
<1> DEFINE user == users[call[r].user]
           to   == assigned[call[r].user]
           b    == local[r].where
           bs   == Places(call[r].user)
<1>1. call[r].user \in Users /\ ~Changed(r)
  BY SignInUsers DEF IInv, Changed, NotBefore
<1>2. /\ MaySignOn(call[r].user) /\ Named(r) /\ local[r].pages = to
      /\ local[r].shown \in ShownBranches(user, bs, b)
  BY <1>1 DEF AccountInv, SignInv, Knows, At
<1>3. Known(call[r].user) /\ user \in User /\ to \in SUBSET Branches /\ None \notin Branches
  BY <1>1, <1>2, KnownRows, NoneIsNoRow DEF IInv, MaySignOn, TypeOK, Standing
<1>4. /\ user.role \in Roles /\ user.home \in Branches \cup {None}
      /\ user.role = "CASHIER" <=> user.home # None
      /\ user.role = "ADMIN" => to # {}
  BY <1>1, <1>3, OrderlyStaff DEF User
<1>5. Row(call[r].user) = user /\ bs = BranchesFor(user.role, user, to, Open)
  BY <1>3 DEF Row, Places
<1>6. MayAct(call[r].user, b) <=> MayAccess(user, b, bs)
  BY <1>2, <1>5 DEF MayAct
<1>7. \/ call[r].kind = "login" /\ b \in TokenBranches(user, bs)
      \/ call[r].kind = "switch" /\ b \in Branches /\ user.role # "CASHIER" /\ MayAccess(user, b, bs)
  BY <1>2 DEF Named
<1>8. user # None
  BY <1>3, NoneIsNoRow
<1> HIDE DEF user, to, b, bs
<1>9. CASE user.role = "SUPER_ADMIN"
  <2>1. user.home = None /\ None \notin bs
    BY <1>3, <1>4, <1>5, <1>9 DEF BranchesFor, Open
  <2>2. b = None => bs = {}
    BY <1>3, <1>7, <2>1 DEF TokenBranches, AnyOf
  <2>3. local[r].shown = b
    BY <1>2, <1>9, <2>1, <2>2 DEF ShownBranches, TokenBranches, AnyOf
  <2> QED BY <1>6, <1>9, <2>3 DEF MayAccess, SeesPages, user, b
<1>10. CASE user.role = "CASHIER"
  <2>1. b = user.home /\ local[r].shown = b /\ b # None
    BY <1>2, <1>4, <1>7, <1>10 DEF ShownBranches, TokenBranches
  <2> QED BY <1>6, <1>10, <2>1 DEF MayAccess, SeesPages, user, b
<1>11. CASE user.role = "ADMIN"
  <2>1. bs = to /\ to # {} /\ user.home = None
    BY <1>4, <1>5, <1>8, <1>11 DEF BranchesFor
  <2>2. b \in to /\ b # None
    BY <1>3, <1>7, <1>11, <2>1 DEF TokenBranches, AnyOf, MayAccess
  <2>3. local[r].shown = b
    BY <1>2, <1>11, <2>1, <2>2 DEF ShownBranches
  <2> QED BY <1>2, <1>6, <1>11, <2>1, <2>2, <2>3 DEF MayAccess, SeesPages, user, b, bs, to
<1> QED BY <1>4, <1>9, <1>10, <1>11 DEF Roles

\* Who signs in finds a branch to work in, with its pages, unless the account is not orderly
\* or a change overlapped or followed (AuthService.login, posSwitch, switchBranch, getMe).
THEOREM SignedInStaffCanWorkHolds == Spec => []SignedInStaffCanWork
<1>1. IInv /\ AccountInv => SignedInStaffCanWork
  BY SignInFits DEF SignedInStaffCanWork
<1>2. Spec => []AccountInv
  BY Inductive, AccountsBegin, AccountsStay, PTL DEF Spec
<1> QED BY <1>1, <1>2, Inductive, PTL

=============================================================================
