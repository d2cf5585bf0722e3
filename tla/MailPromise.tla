---------------------------- MODULE MailPromise -----------------------------
(***************************************************************************)
(* What the approval-mail pipeline promises for each notification, without *)
(* workers, leases, tokens or processes: while a mail is out it may arrive *)
(* once; it goes back to waiting, or is written off, only if it has not    *)
(* arrived and never will; it is called accepted only if it has arrived.   *)
(***************************************************************************)
CONSTANT Notifications

VARIABLES
    status,     \* notification -> what the ledger says
    arrived     \* the notifications whose mail the provider has accepted

vars == <<status, arrived>>

Init ==
    /\ status = [n \in Notifications |-> "absent"]
    /\ arrived = {}

Become(n, s) == status' = [status EXCEPT ![n] = s] /\ UNCHANGED arrived

Save(n)   == status[n] = "absent" /\ Become(n, "waiting")
Send(n)   == status[n] = "waiting" /\ Become(n, "out")
Return(n) == status[n] = "out" /\ n \notin arrived /\ Become(n, "waiting")
Accept(n) == status[n] = "out" /\ n \in arrived /\ Become(n, "accepted")
Refuse(n) == status[n] \in {"waiting", "out"} /\ n \notin arrived /\ Become(n, "refused")

Arrive(n) ==
    /\ status[n] = "out"
    /\ n \notin arrived
    /\ arrived' = arrived \cup {n}
    /\ UNCHANGED status

Next == \E n \in Notifications :
    Save(n) \/ Send(n) \/ Return(n) \/ Accept(n) \/ Refuse(n) \/ Arrive(n)

Spec == Init /\ [][Next]_vars
=============================================================================
