-------------------------- MODULE MCAdministration ---------------------------
(* One member of staff, the main branch and another one; two requests for   *)
(* anything, and a late one that signs in, works or updates settings.       *)
EXTENDS Administration, TLC

CONSTANTS r1, r2, r3, u1, main, b2

MCRequests == {r1, r2, r3}
MCLate     == {r3}
MCUsers    == {u1}
MCBranches == {main, b2}

Creations ==
    [kind : {"create"}, user : MCUsers, role : {"SUPER_ADMIN"}, home : {None}, to : {{}}]
      \cup [kind : {"create"}, user : MCUsers, role : {"ADMIN"}, home : {None}, to : {{b2}}]
      \cup [kind : {"create"}, user : MCUsers, role : {"CASHIER"}, home : {b2, None}, to : {{}}]

Edit(role, home, to, active) ==
    [kind |-> "edit", user |-> u1, role |-> role, home |-> home, to |-> to, active |-> active]

Edits ==
    {Edit(None, b2, None, None), Edit(None, None, None, FALSE), Edit(None, None, {b2}, None),
     Edit("CASHIER", b2, None, None), Edit("CASHIER", None, None, None),
     Edit("ADMIN", None, {b2}, None), Edit("ADMIN", None, {}, None), Edit("ADMIN", None, None, None),
     Edit("SUPER_ADMIN", None, None, None)}

Store(header, patch) == [kind |-> "store", user |-> u1, header |-> header, patch |-> patch]

Updates ==
    {Store(header, [pin |-> None]) : header \in {None, b2}}
      \cup {Store(None, patch) : patch \in [{"url"} -> {None, Blank}] \cup [{"url", "path"} -> {None}]}
      \cup [kind : {"loyalty"}, user : MCUsers, header : {None}, patch : [{"rate"} -> {None}] \cup [{"bonus"} -> {None}]]
      \cup [kind : {"video"}, user : MCUsers, header : {None}]

Rest ==
    [kind : {"assign"}, user : MCUsers, to : {{main}, {b2}}]
      \cup [kind : {"drop", "login"}, user : MCUsers]
      \cup [kind : {"open", "toggle", "close"}, branch : {b2}]
      \cup [kind : {"switch"}, user : MCUsers, to : MCBranches]
      \cup [kind : {"hold"}, user : MCUsers, header : {None, b2}]

Last ==
    [kind : {"login"}, user : MCUsers]
      \cup [kind : {"hold"}, user : MCUsers, header : {None, b2}]
      \cup {Store(None, [pin |-> None])}

MCAsked == [r \in MCRequests |-> IF r \in MCLate THEN Last ELSE Creations \cup Edits \cup Updates \cup Rest]

Symmetry == Permutations({r1, r2})
=============================================================================
