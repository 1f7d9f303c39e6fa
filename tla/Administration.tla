---------------------------- MODULE Administration ---------------------------
(* Staff accounts, the branches they work in, sign-in with tokens that name *)
(* a branch, the guards in front of every branch's data, and the settings   *)
(* of a branch as what is written behind the guards.                        *)
(*                                                                         *)
(* Accounts and branches are administered by a super admin who is not one   *)
(* of Users; what that actor may not do is refused without a change and     *)
(* left out.  An email is the identity of its account, whose id is not used *)
(* again.  Passwords, PINs and the pages granted with an assignment (at     *)
(* least one) are left out; the entry in the activity log is best effort.   *)
EXTENDS HttpCalls, StoreSettings

INSTANCE BranchAccess

CONSTANTS
    Users, Branches,
    Main,   \* the branch that cannot be deleted
    Gone,   \* a row that was deleted
    Asked,  \* bound: what each request may ask for
    Late    \* bound: requests that come in when the others have ended

ASSUME MainIsABranch == Main \in Branches

VARIABLES
    users,      \* rows of "users", by email
    assigned,   \* rows of "user_branches"
    branches,   \* rows of "branches"
    settings,   \* rows of "settings"
    tokens,     \* the branch named by each token a user was given
    local       \* what a request has read and done

rows == <<users, assigned, branches, settings, tokens>>
vars == <<users, assigned, branches, settings, tokens, local, call, pc, before>>

User == [role : Roles, home : Branches \cup {None}, active : BOOLEAN]

Values == Requests \cup {Blank}

\* What a client sends for a field that it fills in is told by the request.
Patches(key) == UNION {[fields -> {Blank, None}] : fields \in SUBSET FieldsOf(key) \ {{}}}

Calls ==
    [kind : {"create"}, user : Users, role : Roles, home : Branches \cup {None}, to : SUBSET Branches]
      \cup [kind : {"edit"}, user : Users, role : Roles \cup {None}, home : Branches \cup {None},
            to : (SUBSET Branches) \cup {None}, active : BOOLEAN \cup {None}]
      \cup [kind : {"assign"}, user : Users, to : SUBSET Branches]
      \cup [kind : {"drop", "login"}, user : Users]
      \cup [kind : {"open", "toggle", "close"}, branch : Branches]
      \cup [kind : {"switch"}, user : Users, to : Branches]
      \cup [kind : {"store"}, user : Users, header : Branches \cup {None}, patch : Patches("store")]
      \cup [kind : {"loyalty"}, user : Users, header : Branches \cup {None}, patch : Patches("loyalty")]
      \cup [kind : {"video", "hold"}, user : Users, header : Branches \cup {None}]

ASSUME AskedAreCalls == \A r \in Requests : Asked[r] \subseteq Calls

ASSUME NoneIsNoRow ==
    /\ None \notin Calls \cup User \cup Branches \cup {Gone, "active", "inactive"}
    /\ Gone \notin User \cup {"active", "inactive"}

Steps == {"idle", "validate", "insert", "sync", "write", "unassign", "token", "me", "show",
          "find", "access", "guard", "again", "read", "save", "hold"} \cup Ended

NothingRead == [row |-> None, where |-> None, shown |-> None, pages |-> {}, copy |-> None, wrote |-> FALSE]

In(r, kinds) ==
    IF r \in Late /\ \E s \in Requests \ Late : pc[s] \notin Ended THEN {}
    ELSE {k \in New(r, Asked[r]) : k.kind \in kinds}

Known(u)  == users[u] \notin {None, Gone}
Open      == {b \in Branches : branches[b] = "active"}
Standing  == {b \in Branches : branches[b] \in {"active", "inactive"}}
Row(u)    == IF Known(u) THEN users[u] ELSE None

Refuse(r) == Goto(r, "refused") /\ UNCHANGED local

\* A call breaks off; a single statement or a transaction of it is done or not.
Fail(r) == BreakOff(r) /\ UNCHANGED <<rows, local>>

-----------------------------------------------------------------------------
(* Accounts: create, update, setUserBranches, remove *)

CreateFind(r) ==
    /\ \E k \in In(r, {"create"}) :
         /\ Arrive(r, k)
         /\ Goto(r, IF Known(k.user) \/ (k.role = "CASHIER" /\ k.home = None) THEN "refused"
                    ELSE IF k.role = "ADMIN" THEN "validate" ELSE "insert")
    /\ UNCHANGED <<rows, local>>

\* The unique email and the key of the home branch are checked by the database.
Insert(r) ==
    LET k == call[r]
        home == IF k.role = "CASHIER" THEN k.home ELSE None
    IN  /\ Proceed(r, "insert")
        /\ users[k.user] # Gone
        /\ \/ /\ Known(k.user) \/ home \notin Standing \cup {None}
              /\ Refuse(r) /\ UNCHANGED users
           \/ /\ ~Known(k.user) /\ home \in Standing \cup {None}
              /\ users' = [users EXCEPT ![k.user] = [role |-> k.role, home |-> home, active |-> TRUE]]
              /\ local' = [local EXCEPT ![r].wrote = TRUE]
              /\ Goto(r, IF k.role = "ADMIN" THEN "sync" ELSE "done")
        /\ UNCHANGED <<assigned, branches, settings, tokens>>

EditFind(r) ==
    /\ \E k \in In(r, {"edit"}) :
         /\ Arrive(r, k)
         /\ \/ ~Known(k.user) /\ Refuse(r)
            \/ Known(k.user) /\ Goto(r, "write") /\ local' = [local EXCEPT ![r].row = users[k.user]]
    /\ UNCHANGED rows

\* Mutant of RoleName: an edit that gives no role is taken for one.
RoleGiven(r) == call[r].role

\* The role given, or the one that was read.
RoleName(r) == First(call[r].role, local[r].row.role)

\* The row is written before the assignments that its role needs are looked at.
Write(r) ==
    LET k == call[r]
        home == IF RoleName(r) # "CASHIER" THEN None ELSE First(k.home, users[k.user].home)
        next == IF RoleName(r) # "ADMIN" THEN IF k.role # None THEN "unassign" ELSE "done"
                ELSE IF k.to # None THEN "validate"
                ELSE IF k.role # None /\ local[r].row.role # "ADMIN" THEN "refused" ELSE "done"
        possible == /\ Known(k.user)
                    /\ RoleName(r) = "CASHIER" => k.home \in Standing \cup {None}
    IN  /\ Proceed(r, "write")
        /\ \/ ~possible /\ Refuse(r) /\ UNCHANGED users
           \/ /\ possible
              /\ users' = [users EXCEPT ![k.user] = [role   |-> First(k.role, @.role),
                                                     home   |-> home,
                                                     active |-> First(k.active, @.active)]]
              /\ local' = [local EXCEPT ![r].wrote = TRUE]
              /\ Goto(r, next)
        /\ UNCHANGED <<assigned, branches, settings, tokens>>

Unassign(r) ==
    /\ Proceed(r, "unassign")
    /\ assigned' = [assigned EXCEPT ![call[r].user] = {}]
    /\ Goto(r, "done")
    /\ UNCHANGED <<users, branches, settings, tokens, local>>

\* setUserBranches is for admins.
AssignFind(r) ==
    /\ \E k \in In(r, {"assign"}) :
         /\ Arrive(r, k)
         /\ Goto(r, IF Known(k.user) /\ users[k.user].role = "ADMIN" THEN "validate" ELSE "refused")
    /\ UNCHANGED <<rows, local>>

\* At least one branch, and all of them in business.
Validate(r) ==
    /\ Proceed(r, "validate")
    /\ Goto(r, IF call[r].to = {} \/ ~(call[r].to \subseteq Open) THEN "refused"
               ELSE IF call[r].kind = "create" THEN "insert" ELSE "sync")
    /\ UNCHANGED <<rows, local>>

\* The assignments are replaced in one transaction, unless a key is missing by now.
Sync(r) ==
    LET k == call[r]
        possible == Known(k.user) /\ k.to \subseteq Standing
    IN  /\ Proceed(r, "sync")
        /\ \/ ~possible /\ Refuse(r) /\ UNCHANGED assigned
           \/ /\ possible
              /\ assigned' = [assigned EXCEPT ![k.user] = k.to]
              /\ local' = [local EXCEPT ![r].wrote = TRUE]
              /\ Goto(r, "done")
        /\ UNCHANGED <<users, branches, settings, tokens>>

\* An account is deleted with its assignments, unless it is unknown or rows refer to it.
Drop(r) ==
    /\ \E k \in In(r, {"drop"}) :
         /\ Arrive(r, k)
         /\ \/ Goto(r, "refused") /\ UNCHANGED <<users, assigned>>
            \/ /\ Known(k.user)
               /\ users' = [users EXCEPT ![k.user] = Gone]
               /\ assigned' = [assigned EXCEPT ![k.user] = {}]
               /\ Goto(r, "done")
    /\ UNCHANGED <<branches, settings, tokens, local>>

-----------------------------------------------------------------------------
(* Branches: create, update, remove *)

OpenBranch(r) ==
    /\ \E k \in In(r, {"open"}) :
         /\ branches[k.branch] = None
         /\ Arrive(r, k)
         /\ branches' = [branches EXCEPT ![k.branch] = "active"]
    /\ Goto(r, "done")
    /\ UNCHANGED <<users, assigned, settings, tokens, local>>

ToggleBranch(r) ==
    /\ \E k \in In(r, {"toggle"}) :
         /\ Arrive(r, k)
         /\ \/ k.branch \notin Standing /\ Goto(r, "refused") /\ UNCHANGED branches
            \/ /\ k.branch \in Standing
               /\ branches' = [branches EXCEPT ![k.branch] = IF @ = "active" THEN "inactive" ELSE "active"]
               /\ Goto(r, "done")
    /\ UNCHANGED <<users, assigned, settings, tokens, local>>

\* Mutant of CloseBranch: the home branch of the staff is left as it is.
CloseAlone(r) ==
    /\ \E k \in In(r, {"close"}) :
         /\ k.branch \in Standing \ {Main}
         /\ Arrive(r, k)
         /\ branches' = [branches EXCEPT ![k.branch] = Gone]
         /\ settings' = [settings EXCEPT ![k.branch] = Defaults]
         /\ assigned' = [u \in Users |-> assigned[u] \ {k.branch}]
    /\ Goto(r, "done")
    /\ UNCHANGED <<users, tokens, local>>

\* A branch is deleted with its data in one transaction, which a row that refers to it and
\* came meanwhile rolls back; its staff keep their accounts.
CloseBranch(r) ==
    /\ \E k \in In(r, {"close"}) :
         LET b == k.branch
         IN  /\ Arrive(r, k)
             /\ \/ Goto(r, "refused") /\ UNCHANGED <<users, assigned, branches, settings>>
                \/ /\ b \in Standing \ {Main}
                   /\ branches' = [branches EXCEPT ![b] = Gone]
                   /\ settings' = [settings EXCEPT ![b] = Defaults]
                   /\ assigned' = [u \in Users |-> assigned[u] \ {b}]
                   /\ users' = [u \in Users |->
                        IF Known(u) /\ users[u].home = b THEN [users[u] EXCEPT !.home = None]
                        ELSE users[u]]
                   /\ Goto(r, "done")
    /\ UNCHANGED <<tokens, local>>

-----------------------------------------------------------------------------
(* Sign-in: login, posSwitch, switchBranch, getMe *)

\* login and posSwitch find an active account.
Login(r) ==
    /\ \E k \in In(r, {"login"}) :
         /\ Arrive(r, k)
         /\ \/ ~(Known(k.user) /\ users[k.user].active) /\ Refuse(r)
            \/ /\ Known(k.user) /\ users[k.user].active
               /\ local' = [local EXCEPT ![r].row = users[k.user]]
               /\ Goto(r, "token")
    /\ UNCHANGED rows

\* The token names a branch; it reaches the user with the answer.
Token(r) ==
    LET u == call[r].user
        row == local[r].row
    IN  /\ Proceed(r, "token")
        /\ \E b \in TokenBranches(row, BranchesFor(row.role, Row(u), assigned[u], Open)) :
             local' = [local EXCEPT ![r].where = b]
        /\ Goto(r, "me")
        /\ UNCHANGED rows

\* switchBranch reads the user once more ...
SwitchFind(r) ==
    LET u == call[r].user
        possible == Known(u) /\ users[u].role # "CASHIER"
    IN  /\ Proceed(r, "find")
        /\ \/ ~possible /\ Refuse(r)
           \/ /\ possible
              /\ local' = [local EXCEPT ![r].row = users[u]]
              /\ Goto(r, "access")
        /\ UNCHANGED rows

Allowed(r) == BranchesFor(local[r].row.role, Row(call[r].user), assigned[call[r].user], Open)

\* ... and issues a token for the branch that was asked for.
SwitchAccess(r) ==
    LET b == call[r].to
    IN  /\ Proceed(r, "access")
        /\ \/ ~MayAccess(local[r].row, b, Allowed(r)) /\ Refuse(r)
           \/ /\ MayAccess(local[r].row, b, Allowed(r))
              /\ local' = [local EXCEPT ![r].where = b]
              /\ Goto(r, "me")
        /\ UNCHANGED rows

\* getMe reads the user with its assignments, then its branches.
Me(r) ==
    LET u == call[r].user
    IN  /\ Proceed(r, "me")
        /\ \/ Row(u) = None /\ Refuse(r)
           \/ /\ Row(u) # None
              /\ local' = [local EXCEPT ![r].row = users[u], ![r].pages = assigned[u]]
              /\ Goto(r, "show")
        /\ UNCHANGED rows

\* Mutant of Show: the branch that the token names is not asked for.
ShowFirst(r) ==
    /\ Proceed(r, "show")
    /\ \E b \in ShownBranches(local[r].row, Allowed(r), None) : local' = [local EXCEPT ![r].shown = b]
    /\ tokens' = [tokens EXCEPT ![call[r].user] = @ \cup {local[r].where}]
    /\ Goto(r, "done")
    /\ UNCHANGED <<users, assigned, branches, settings>>

Show(r) ==
    /\ Proceed(r, "show")
    /\ \E b \in ShownBranches(local[r].row, Allowed(r), local[r].where) :
         local' = [local EXCEPT ![r].shown = b]
    /\ tokens' = [tokens EXCEPT ![call[r].user] = @ \cup {local[r].where}]
    /\ Goto(r, "done")
    /\ UNCHANGED <<users, assigned, branches, settings>>

-----------------------------------------------------------------------------
(* The guards in front of a branch's data, and the settings behind them *)

MaySignOn(u) == Known(u) /\ (users[u].active \/ users[u].role = "SUPER_ADMIN")

\* JwtStrategy.validate reads the user whose token the call carries; switchBranch has no
\* further guard, the other calls are led to BranchGuard, with the branch of the token.
Authenticate(r) ==
    /\ \E k \in In(r, {"switch", "store", "loyalty", "video", "hold"}) :
       \E t \in tokens[k.user] :
         /\ Arrive(r, k)
         /\ \/ ~MaySignOn(k.user) /\ Refuse(r)
            \/ /\ MaySignOn(k.user)
               /\ local' = [local EXCEPT ![r].row = users[k.user], ![r].where = t]
               /\ Goto(r, IF k.kind = "switch" THEN "find" ELSE "guard")
    /\ UNCHANGED rows

\* RolesGuard, which keeps cashiers from the settings; then the handler.
Behind(r, b) ==
    LET role == local[r].row.role
    IN  \/ role = "CASHIER" /\ call[r].kind # "hold" /\ Refuse(r)
        \/ /\ role # "CASHIER" \/ call[r].kind = "hold"
           /\ local' = [local EXCEPT ![r].where = b]
           /\ Goto(r, IF call[r].kind = "hold" THEN "hold" ELSE "read")

\* Mutant of Guard: the branch of the token is not checked again.
GuardOnce(r) ==
    LET row == local[r].row
        asked == AskedBranch(row, call[r].header, local[r].where)
    IN  /\ Proceed(r, "guard")
        /\ \/ row.role = "CASHIER" /\ HomeOnly(row, call[r].header) = {} /\ Refuse(r)
           \/ row.role = "CASHIER" /\ \E b \in HomeOnly(row, call[r].header) : Behind(r, b)
           \/ row.role # "CASHIER" /\ asked # None /\ Behind(r, asked)
           \/ row.role # "CASHIER" /\ asked = None /\ Allowed(r) = {} /\ Refuse(r)
           \/ row.role # "CASHIER" /\ asked = None /\ \E b \in Allowed(r) : Behind(r, b)
        /\ UNCHANGED rows

\* resolveActiveBranchId: a super admin may ask for any branch, an admin for one of those
\* assigned, which are read again to check it.
Guard(r) ==
    LET row == local[r].row
        asked == AskedBranch(row, call[r].header, local[r].where)
    IN  /\ Proceed(r, "guard")
        /\ \/ row.role = "CASHIER" /\ HomeOnly(row, call[r].header) = {} /\ Refuse(r)
           \/ row.role = "CASHIER" /\ \E b \in HomeOnly(row, call[r].header) : Behind(r, b)
           \/ row.role = "SUPER_ADMIN" /\ asked # None /\ Behind(r, asked)
           \/ /\ row.role = "ADMIN" /\ asked # None /\ Allowed(r) # {}
              /\ local' = [local EXCEPT ![r].where = asked]
              /\ Goto(r, "again")
           \/ row.role = "ADMIN" /\ asked # None /\ Allowed(r) = {} /\ Refuse(r)
           \/ row.role # "CASHIER" /\ asked = None /\ Allowed(r) = {} /\ Refuse(r)
           \/ row.role # "CASHIER" /\ asked = None /\ \E b \in Allowed(r) : Behind(r, b)
        /\ UNCHANGED rows

GuardAgain(r) ==
    LET b == local[r].where
    IN  /\ Proceed(r, "again")
        /\ \/ ~MayAccess(local[r].row, b, Allowed(r)) /\ Refuse(r)
           \/ MayAccess(local[r].row, b, Allowed(r)) /\ Behind(r, b)
        /\ UNCHANGED rows

Key(r) == IF call[r].kind = "loyalty" THEN "loyalty" ELSE "store"

\* updateStore, setCustomerDisplayVideoLocalPath and updateLoyalty read the row ...
ReadSettings(r) ==
    /\ Proceed(r, "read")
    /\ local' = [local EXCEPT ![r].copy = IF local[r].where \in Standing
                                          THEN settings[local[r].where][Key(r)]
                                          ELSE Defaults[Key(r)]]
    /\ Goto(r, "save")
    /\ UNCHANGED rows

\* The fields as the client fills them in.
Patch(r) ==
    [f \in DOMAIN call[r].patch |-> IF call[r].patch[f] = None THEN r ELSE call[r].patch[f]]

\* Mutant of Merged: what the client sends is put on the defaults.
MergedAnew(r) ==
    CASE call[r].kind = "store"   -> MergedStore(Defaults["store"], Patch(r))
      [] call[r].kind = "video"   -> WithVideo(Defaults["store"], r)
      [] call[r].kind = "loyalty" -> Spread(Defaults["loyalty"], Patch(r))

Merged(r) ==
    CASE call[r].kind = "store"   -> MergedStore(local[r].copy, Patch(r))
      [] call[r].kind = "video"   -> WithVideo(local[r].copy, r)
      [] call[r].kind = "loyalty" -> Spread(local[r].copy, Patch(r))

\* ... and write it back whole, unless the branch is gone.
SaveSettings(r) ==
    LET b == local[r].where
    IN  /\ Proceed(r, "save")
        /\ \/ b \notin Standing /\ Refuse(r) /\ UNCHANGED settings
           \/ /\ b \in Standing
              /\ settings' = [settings EXCEPT ![b][Key(r)] = Merged(r)]
              /\ Goto(r, "done")
              /\ UNCHANGED local
        /\ UNCHANGED <<users, assigned, branches, tokens>>

\* An order is put on hold: one row, of the branch and the user.
Hold(r) ==
    /\ Proceed(r, "hold")
    /\ Goto(r, IF local[r].where \in Standing /\ Known(call[r].user) THEN "done" ELSE "refused")
    /\ UNCHANGED <<rows, local>>

-----------------------------------------------------------------------------
HasItsBranches(user, to) ==
    /\ user.role = "CASHIER" <=> user.home # None
    /\ user.role = "ADMIN" <=> to # {}

\* Accounts as they leave the handlers, in branches that stand, and signed in.
Init ==
    /\ branches \in [Branches -> {"active", None}] /\ branches[Main] = "active"
    /\ users \in [Users -> User \cup {None}]
    /\ assigned \in [Users -> SUBSET Open]
    /\ \A u \in Users :
         /\ users[u] = None => assigned[u] = {}
         /\ Known(u) => HasItsBranches(users[u], assigned[u]) /\ users[u].home \in Open \cup {None}
                        /\ users[u].active
    /\ tokens \in [Users -> {{}} \cup {{b} : b \in Branches \cup {None}}]
    /\ \A u \in Users :
         IF Known(u)
         THEN \E b \in TokenBranches(users[u], BranchesFor(users[u].role, users[u], assigned[u], Open)) :
                tokens[u] = {b}
         ELSE tokens[u] = {}
    /\ settings = [b \in Branches |-> Defaults]
    /\ local = [r \in Requests |-> NothingRead]
    /\ NoCalls

Handle(r) ==
    \/ CreateFind(r) \/ Insert(r) \/ EditFind(r) \/ Write(r) \/ Unassign(r) \/ AssignFind(r)
    \/ Validate(r) \/ Sync(r) \/ Drop(r)
    \/ OpenBranch(r) \/ ToggleBranch(r) \/ CloseBranch(r)
    \/ Login(r) \/ Token(r) \/ SwitchFind(r) \/ SwitchAccess(r) \/ Me(r) \/ Show(r)
    \/ Authenticate(r) \/ Guard(r) \/ GuardAgain(r) \/ ReadSettings(r) \/ SaveSettings(r) \/ Hold(r)

\* All requests have been answered or have broken off.
AllEnded == (\A r \in Requests : pc[r] \in Ended) /\ UNCHANGED vars

Next ==
    \/ \E r \in Requests : Handle(r) \/ Fail(r)
    \/ AllEnded

Spec == Init /\ [][Next]_vars

-----------------------------------------------------------------------------
Contents == UNION {[FieldsOf(key) -> Values] : key \in DOMAIN Defaults}

Local ==
    [row : User \cup {None}, where : Branches \cup {None}, shown : Branches \cup {None},
     pages : SUBSET Branches, copy : Contents \cup {None},
     wrote : BOOLEAN]

\* Every column and every local holds a value of its type, and no row refers to a branch or
\* a user that is not there.
TypeOK ==
    /\ users \in [Users -> User \cup {None, Gone}]
    /\ \A u \in Users : Known(u) => users[u].home \in Standing \cup {None}
    /\ assigned \in [Users -> SUBSET Standing]
    /\ \A u \in Users : ~Known(u) => assigned[u] = {}
    /\ branches \in [Branches -> {"active", "inactive", None, Gone}]
    /\ branches[Main] \in {"active", "inactive"}
    /\ settings \in [Branches -> [DOMAIN Defaults -> Contents]]
    /\ \A b \in Branches : /\ \A key \in DOMAIN Defaults : settings[b][key] \in [FieldsOf(key) -> Values]
                           /\ b \notin Standing => settings[b] = Defaults
    /\ tokens \in [Users -> SUBSET (Branches \cup {None})]
    /\ local \in [Requests -> Local]
    /\ call \in [Requests -> Calls \cup {None}]
    /\ pc \in [Requests -> Steps]
    /\ before \in [Requests -> SUBSET Requests]

\* Calls that have written the row or the assignments of a user.
Rewrites(u) == {s \in Requests : Kind(s, {"create", "edit", "assign"}) /\ call[s].user = u /\ local[s].wrote}

\* An edit that makes a cashier of somebody and names no branch.
HomelessCashier(s) ==
    /\ Kind(s, {"edit"})
    /\ call[s].role = "CASHIER" /\ call[s].home = None /\ local[s].row.role # "CASHIER"

\* What was done to an account was done one call after the other and to the end, and its
\* branches are still there.
Orderly(u) ==
    /\ \A s \in Rewrites(u) :
         /\ At(s, "done") /\ ~HomelessCashier(s)
         /\ \A t \in Rewrites(u) \ {s} : s \in before[t] \/ t \in before[s]
    /\ \A s \in Requests : Kind(s, {"close"}) => ~At(s, "done")

\* Admins have branches assigned and cashiers a home branch, whatever sequence of creations,
\* edits and assignments an account went through, as long as they were orderly: update
\* writes the role before it looks at the assignments, takes the role it has read for the
\* one that holds, and lets a cashier be made without a branch.
StaffHaveTheirBranches ==
    \A u \in Users :
      Known(u) /\ Orderly(u) =>
        /\ users[u].role = "CASHIER" => users[u].home # None
        /\ users[u].role = "ADMIN" => assigned[u] # {}

\* Calls that may change where a user works.
Changes(s, u) ==
    \/ Kind(s, {"create", "edit", "assign", "drop"}) /\ call[s].user = u
    \/ Kind(s, {"open", "toggle", "close"})

MayAct(u, b) == MaySignOn(u) /\ MayAccess(users[u], b, BranchesFor(users[u].role, Row(u), assigned[u], Open))

\* Data of a branch are written for users who work there: whatever tokens they hold from
\* earlier, the guards notice a dismissal, a demotion and an assignment taken away, all but
\* those that overlap the call.
ActsWhereAllowed ==
    [][\A r \in Requests :
         (At(r, "save") \/ At(r, "hold")) /\ pc'[r] = "done" =>
           \/ MayAct(call[r].user, local[r].where)
           \/ \E s \in Requests : Changes(s, call[r].user) /\ NotBefore(s, r)]_vars

\* Who signs in can work: the answer of login, posSwitch and switchBranch shows the branch
\* that the token names, the guards let the user into it, and an admin finds pages there -
\* unless the account is not orderly or a change to it overlapped or followed.
SignedInStaffCanWork ==
    \A r \in Requests :
      LET u == call[r].user
          b == local[r].where
      IN  /\ Kind(r, {"login", "switch"}) /\ At(r, "done")
          /\ Orderly(u) /\ \A s \in Requests : Changes(s, u) => s \in before[r]
          => /\ local[r].shown = b
             /\ b = None => users[u].role = "SUPER_ADMIN"
             /\ b # None => MayAct(u, b) /\ SeesPages(users[u], b, local[r].pages)

Updated(r) == Kind(r, {"store", "loyalty", "video"}) /\ At(r, "done")

SameRow(r, s) == Updated(s) /\ local[r].where = local[s].where /\ Key(r) = Key(s)

\* Fields that an update gives (a URL and a path given together cancel out), and those it
\* settles.
Kept(r) ==
    IF call[r].kind = "video" THEN [f \in {"path"} |-> r]
    ELSE [f \in {g \in DOMAIN Patch(r) :
                   ~(g \in {"url", "path"} /\ Given(Patch(r), "url") /\ Given(Patch(r), "path"))}
            |-> Patch(r)[f]]

Settled(r) ==
    IF call[r].kind = "video" \/ Given(Patch(r), "url") \/ Given(Patch(r), "path")
    THEN {"url", "path"} \cup (IF call[r].kind = "video" THEN {} ELSE DOMAIN Patch(r))
    ELSE DOMAIN Patch(r)

\* Settings that were saved stay as they are until somebody sets them anew: only an update
\* of the same row that overlapped may bring old values back (the row is read, merged and
\* written whole).  The customer display never has both a URL and an uploaded video.
SettingsAreKept ==
    /\ \A r \in Requests :
         Updated(r) /\ local[r].where \in Standing =>
           \A f \in DOMAIN Kept(r) :
             \/ settings[local[r].where][Key(r)][f] = Kept(r)[f]
             \/ \E s \in Requests : /\ SameRow(r, s) /\ NotBefore(s, r)
                                    /\ NotBefore(r, s) \/ f \in Settled(s)
    /\ \A b \in Branches : Blank \in {settings[b]["store"].url, settings[b]["store"].path}
=============================================================================
