--------------------------- MODULE ConnectRequests ---------------------------
(***************************************************************************)
(* What StreamProvider::connect promises to the object that calls it,      *)
(* whatever the wire does: the callback is held until the request is       *)
(* resolved, it runs once, with success or failure, and a request is never *)
(* left pending: it succeeds, fails (the 8 s timer at the latest) or is    *)
(* dropped with its stream.                                                *)
(***************************************************************************)
CONSTANT Reqs

VARIABLES
    pending,  \* the requests whose callback is held
    outcome   \* what each request has been told

absVars == <<pending, outcome>>

Outcomes == {"none", "ok", "failed", "dropped"}

AbsInit == pending = {} /\ outcome = [r \in Reqs |-> "none"]

Ask(r) ==
    /\ r \notin pending
    /\ outcome[r] = "none"
    /\ pending' = pending \cup {r}
    /\ UNCHANGED outcome

Resolve(r, result) ==
    /\ r \in pending
    /\ pending' = pending \ {r}
    /\ outcome' = [outcome EXCEPT ![r] = result]

\* The stream of an answered request is closed.
Drop(r) ==
    /\ outcome[r] \in {"ok", "failed"}
    /\ outcome' = [outcome EXCEPT ![r] = "dropped"]
    /\ UNCHANGED pending

Settle(r) == \E result \in Outcomes \ {"none"} : Resolve(r, result)

AbsNext == \E r \in Reqs : Ask(r) \/ Settle(r) \/ Drop(r)

AbsSafety == AbsInit /\ [][AbsNext]_absVars

AbsSpec == AbsSafety /\ \A r \in Reqs : WF_absVars(Settle(r))
==============================================================================
