----------------------------- MODULE HttpCalls ------------------------------
(* Requests as the handlers run them: one process, one event loop, and a    *)
(* request that yields at every awaited statement, so that requests         *)
(* interleave between them.  The services' modules extend this one and say  *)
(* what each statement does.                                                *)
CONSTANTS
    Requests,  \* HTTP calls of a run
    None

VARIABLES
    call,   \* what each request asks for
    pc,     \* the statement each request comes to next
    before  \* history: requests that had ended when this one arrived

calls == <<call, pc, before>>

\* Answered, answered with an error, or broken off.
Ended == {"done", "refused", "failed"}

At(r, step)   == pc[r] = step
Goto(r, step) == pc' = [pc EXCEPT ![r] = step]

\* What may come in as request r, of the calls given.
New(r, asked) == IF At(r, "idle") THEN asked ELSE {}

\* Request r comes in; the statement it starts with is the same step.
Arrive(r, k) ==
    /\ call' = [call EXCEPT ![r] = k]
    /\ before' = [before EXCEPT ![r] = {s \in Requests : pc[s] \in Ended}]

\* A request under way comes to a statement.
Proceed(r, step) == At(r, step) /\ UNCHANGED <<call, before>>

\* A statement throws, or the process dies.
BreakOff(r) ==
    /\ pc[r] \notin Ended \cup {"idle"}
    /\ Goto(r, "failed")
    /\ UNCHANGED <<call, before>>

NoCalls ==
    /\ call = [r \in Requests |-> None]
    /\ pc = [r \in Requests |-> "idle"]
    /\ before = [r \in Requests |-> {}]

Kind(r, kinds) == ~At(r, "idle") /\ call[r].kind \in kinds

\* Request s has come in and had not ended when r came in.
NotBefore(s, r) == ~At(s, "idle") /\ s # r /\ s \notin before[r]
=============================================================================
