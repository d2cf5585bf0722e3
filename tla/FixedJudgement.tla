---------------------------- MODULE FixedJudgement --------------------------
(***************************************************************************)
(* What fixed approvals promise, without transactions, retries, history or *)
(* notifications: a request is asked once and settled once, for good; an   *)
(* old request is decided where it is or moves, and moving it asks one new *)
(* request in the same instant.                                            *)
(***************************************************************************)
CONSTANTS Approvals, Legacy

VARIABLES
    standing,    \* approval -> absent, requested, or its final status
    old         \* legacy -> open, decided or moved

vars == <<standing, old>>

Settled == {"approved", "approved_with_exceptions", "rejected", "cancelled"}

Init ==
    /\ standing = [a \in Approvals |-> "absent"]
    /\ old = [l \in Legacy |-> "open"]

Asked(a) ==
    /\ standing[a] = "absent"
    /\ standing' = [standing EXCEPT ![a] = "requested"]

Ask(a) == Asked(a) /\ UNCHANGED old

Settle(a, v) ==
    /\ standing[a] = "requested"
    /\ standing' = [standing EXCEPT ![a] = v]
    /\ UNCHANGED old

Decide(l) ==
    /\ old[l] = "open"
    /\ old' = [old EXCEPT ![l] = "decided"]
    /\ UNCHANGED standing

Move(l, a) ==
    /\ old[l] = "open"
    /\ old' = [old EXCEPT ![l] = "moved"]
    /\ Asked(a)

Next ==
    \/ \E a \in Approvals : Ask(a) \/ \E v \in Settled : Settle(a, v)
    \/ \E l \in Legacy : Decide(l) \/ \E a \in Approvals : Move(l, a)

Spec == Init /\ [][Next]_vars
=============================================================================
