---------------------------- MODULE BranchAccess -----------------------------
(* Which branches a member of staff works in: the decisions of              *)
(* BranchService, AuthService and admin-page-access.util over rows that     *)
(* have been read.  A row is a record with role and home (None without      *)
(* one); assigned are the branches of its user_branches rows, active those  *)
(* that are open for business.  Where the code takes the first of a list    *)
(* that is in no order, or ordered by name, the operator returns the set    *)
(* that holds it.                                                           *)
CONSTANT None

Roles == {"SUPER_ADMIN", "ADMIN", "CASHIER"}

\* resolveBranchesForUser, with the user as found then (None if deleted) and the role the
\* caller knows.
BranchesFor(role, user, assigned, active) ==
    IF role = "SUPER_ADMIN" THEN active
    ELSE IF user = None THEN {}
    ELSE IF assigned # {} /\ ~(role = "CASHIER" /\ user.home # None) THEN assigned
    ELSE {user.home} \ {None}

\* assertBranchAccess
MayAccess(user, b, allowed) ==
    \/ user.role = "SUPER_ADMIN"
    \/ user.role = "CASHIER" /\ user.home = b
    \/ user.role = "ADMIN" /\ b \in allowed

First(b, otherwise) == IF b # None THEN b ELSE otherwise

\* The first of the branches, None when there are none.
AnyOf(branches) == IF branches = {} THEN {None} ELSE branches

\* resolveActiveBranchId: the branch a call asks for, by header, token or home.
AskedBranch(user, header, token) == First(header, First(token, user.home))

\* A cashier is let into the home branch alone.
HomeOnly(user, header) ==
    IF user.home # None /\ header \in {None, user.home} THEN {user.home} ELSE {}

\* buildTokenPayload
TokenBranches(user, branches) == IF user.home # None THEN {user.home} ELSE AnyOf(branches)

\* getMe: the branch shown to a user who works in branch b.
ShownBranches(user, branches, b) ==
    IF /\ user.role # "CASHIER" /\ b # None
       /\ user.role = "SUPER_ADMIN" \/ b \in branches
    THEN {b}
    ELSE IF user.role = "CASHIER" THEN {user.home}
    ELSE TokenBranches(user, branches)

\* resolveAdminPageAccess: pages are open to the user in branch b.
SeesPages(user, b, assigned) == user.role = "ADMIN" => b \in assigned
=============================================================================
