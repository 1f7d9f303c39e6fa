---------------------------- MODULE StoreSettings ----------------------------
(* The settings rows of a branch as SettingsService merges them.  Fields of *)
(* the row "store" are the URL and the uploaded path of the video on the    *)
(* customer display, which exclude one another, and the manager PIN, which  *)
(* stands for the fields that are merged by themselves; those of the row    *)
(* "loyalty" are all of that kind.  Blank is the default and what trims to  *)
(* nothing.                                                                 *)
Blank == "blank"

FieldsOf(key) == IF key = "store" THEN {"url", "path", "pin"} ELSE {"rate", "bonus"}

\* DEFAULT_STORE, DEFAULT_LOYALTY
Defaults == [key \in {"store", "loyalty"} |-> [f \in FieldsOf(key) |-> Blank]]

Given(patch, f) == f \in DOMAIN patch /\ patch[f] # Blank

Spread(current, patch) ==
    [f \in DOMAIN current |-> IF f \in DOMAIN patch THEN patch[f] ELSE current[f]]

\* updateStore: a URL given clears the path, a path given clears the URL.
MergedStore(current, patch) ==
    [f \in DOMAIN current |->
       IF (f = "path" /\ Given(patch, "url")) \/ (f = "url" /\ Given(patch, "path"))
       THEN Blank ELSE Spread(current, patch)[f]]

\* setCustomerDisplayVideoLocalPath
WithVideo(current, path) == [current EXCEPT !.path = path, !.url = Blank]
=============================================================================
