--------------------------- MODULE GuestInvitations ---------------------------
(* Invitations of one mail address to one project: created, mailed, mailed  *)
(* again, revoked; inspected with the token of the mail, which is exchanged *)
(* for a short proof; and accepted or declined with that proof.             *)
(*                                                                          *)
(* Every write transaction holds the advisory lock of qualifications        *)
(* exclusively, so it is one step.  A client fills in a form with the       *)
(* version it has read.  Creating and resending are three transactions with *)
(* the mail between them: the row with its new token, the row again for the *)
(* text, and what became of the mail.                                       *)
EXTENDS Naturals, FiniteSets, TLC

CONSTANTS Calls, Invitations, Keys,
          None,                  \* the request id of an invitation that was there before
          Concerns,              \* sets of operations and events: what a behaviour is made of
          MaxToken               \* bound: how often an invitation is mailed again

VARIABLES kinds,         \* the operations and the events of a behaviour
          row,           \* the invitations
          check,         \* proofs: invitation, generation of its token, fresh or spent
          receipt,       \* root events: invitation, request id, what was done
          mail,          \* mails delivered: invitation, token in the link, idempotency key
          account,       \* the address has an account
          part,          \* participations: invitation each came from, generation, state
          inviter,       \* the inviter may still invite, the project is open
          calls
vars == <<kinds, row, check, receipt, mail, account, part, inviter, calls>>
outside == <<kinds, account, part, inviter>>

-----------------------------------------------------------------------------
Deliveries == {"sending", "sent", "unknown", "failed"}
Invitation == [status : {"absent", "pending", "accepted", "declined", "revoked", "expired"}, lapsed : BOOLEAN,
               token : 0..MaxToken, version : Nat, delivery : Deliveries, known : BOOLEAN]
Check == [on : Invitations, token : 1..MaxToken, state : {"fresh", "spent", "stale"}]
Participation == [from : Invitations, generation : Nat, active : BOOLEAN]
Mail == [on : Invitations, token : 1..MaxToken, key : 1..MaxToken]
Receipt == [on : Invitations, key : Keys \cup {None}, kind : {"created", "resent", "revoked", "accepted", "declined", "registered", "expired"}]

Open(i) == row[i].status = "pending" /\ ~row[i].lapsed           \* state
Active == {p \in part : p.active}
Seen(c, i) == calls[c].at = "form" /\ calls[c].on = i /\ row[i].version = calls[c].version
Unused(i, k) == \A r \in receipt : ~(r.on = i /\ r.key = k)       \* replay answers the rest, or refuses it
Record(i, k, kind) == receipt' = receipt \cup {[on |-> i, key |-> k, kind |-> kind]}
Settle(i, status) == row' = [row EXCEPT ![i].status = status, ![i].version = @ + 1]
Idle(c) == calls' = [calls EXCEPT ![c] = [at |-> "idle"]]

-----------------------------------------------------------------------------
Fill(c) ==                   \* a form opened, with the version shown in it
    /\ calls[c].at = "idle"
    /\ \E i \in Invitations :
         /\ row[i].status = "pending"
         /\ calls' = [calls EXCEPT ![c] = [at |-> "form", on |-> i, version |-> row[i].version]]
    /\ UNCHANGED <<row, check, receipt, mail, outside>>
Lost(c) ==                   \* refused, closed, or the process died
    /\ calls[c].at # "idle"
    /\ Idle(c)
    /\ UNCHANGED <<row, check, receipt, mail, outside>>

(* prepare: the invitation and its token are saved before the mail.         *)
Pending == {i \in Invitations : row[i].status = "pending"}
Fresh == [status |-> "pending", lapsed |-> FALSE, token |-> 1, version |-> 1, delivery |-> "sending", known |-> account]
ExpiredAsLapsed(i) ==         \* mutation: a status the table does not know
    [row[i] EXCEPT !.status = "lapsed", !.version = @ + 1]
Expired(i) == [row[i] EXCEPT !.status = "expired", !.version = @ + 1]
Create(c) ==
    /\ "create" \in kinds
    /\ calls[c].at = "idle" /\ inviter
    /\ \A i \in Pending : ~Open(i)
    /\ \E i \in Invitations, k \in Keys :
         /\ row[i].status = "absent"
         /\ \A r \in receipt : ~(r.key = k /\ r.kind = "created")
         /\ \A e \in Pending : Unused(e, k)                       \* the event of its expiry has the same id
         /\ row' = [x \in Invitations |-> IF x = i THEN Fresh ELSE IF x \in Pending THEN Expired(x) ELSE row[x]]
         /\ receipt' = receipt \cup {[on |-> i, key |-> k, kind |-> "created"]}
                               \cup {[on |-> e, key |-> k, kind |-> "expired"] : e \in Pending}
         /\ calls' = [calls EXCEPT ![c] = [at |-> "prepared", on |-> i, token |-> 1]]
    /\ UNCHANGED <<check, mail, outside>>
Resend(c) ==
    /\ "resend" \in kinds
    /\ inviter
    /\ \E i \in Invitations, k \in Keys :
         /\ Seen(c, i) /\ Open(i) /\ Unused(i, k)
         /\ row[i].token < MaxToken
         /\ row' = [row EXCEPT ![i].token = @ + 1, ![i].version = @ + 1, ![i].delivery = "sending"]
         /\ Record(i, k, "resent")
         /\ calls' = [calls EXCEPT ![c] = [at |-> "prepared", on |-> i, token |-> row[i].token + 1]]
    /\ UNCHANGED <<check, mail, outside>>

(* send: the text and its idempotency key from the row as it is now.        *)
Compose(c) ==
    /\ calls[c].at = "prepared"
    /\ calls' = [calls EXCEPT ![c] = [at |-> "mailing", on |-> calls[c].on, token |-> calls[c].token,
                                      key |-> row[calls[c].on].token]]
    /\ UNCHANGED <<row, check, receipt, mail, outside>>
Post(c) ==                   \* accepted, refused, or nobody knows
    /\ calls[c].at = "mailing"
    /\ \E delivery \in Deliveries \ {"sending"}, left \in BOOLEAN :
         /\ delivery = "sent" => left
         /\ delivery = "failed" => ~left
         /\ mail' = IF left THEN mail \cup {[on |-> calls[c].on, token |-> calls[c].token, key |-> calls[c].key]} ELSE mail
         /\ calls' = [calls EXCEPT ![c] = [at |-> "mailed", on |-> calls[c].on, key |-> calls[c].key, delivery |-> delivery]]
    /\ UNCHANGED <<row, check, receipt, outside>>
StillCurrent(i, key) == row[i].status = "pending" /\ row[i].token = key
RecordDelivery(c) ==
    /\ calls[c].at = "mailed"
    /\ LET i == calls[c].on
       IN row' = IF StillCurrent(i, calls[c].key)
                 THEN [row EXCEPT ![i].delivery = calls[c].delivery, ![i].version = @ + 1] ELSE row
    /\ Idle(c)
    /\ UNCHANGED <<check, receipt, mail, outside>>

Revoke(c) ==
    /\ "revoke" \in kinds
    /\ \E i \in Invitations, k \in Keys :
         /\ Seen(c, i) /\ row[i].status = "pending" /\ Unused(i, k)
         /\ Settle(i, "revoked") /\ Record(i, k, "revoked")
    /\ Idle(c)
    /\ UNCHANGED <<check, mail, outside>>

-----------------------------------------------------------------------------
(* The recipient's side; inviter: whoever invited may still invite.         *)
Target(i) == account \/ ~row[i].known                           \* target finds nobody, or the one invited
Inspect ==                   \* the token of a mail for a proof
    /\ "inspect" \in kinds
    /\ inviter
    /\ \E m \in mail :
         /\ Open(m.on) /\ row[m.on].delivery \in {"sent", "unknown"} /\ row[m.on].token = m.token
         /\ Target(m.on)
         /\ check' = check \cup {[on |-> m.on, token |-> m.token, state |-> "fresh"]}
    /\ UNCHANGED <<row, receipt, mail, outside, calls>>
CheckedAnyToken(i, x) == x.on = i /\ x.state # "stale" /\ ~row[i].lapsed    \* mutation: proofs of old tokens serve
Checked(i, x) == x.on = i /\ x.state # "stale" /\ x.token = row[i].token /\ ~row[i].lapsed
Register(c) ==
    /\ "register" \in kinds
    /\ inviter /\ ~account
    /\ \E i \in Invitations, k \in Keys, x \in check :
         /\ Checked(i, x) /\ x.state = "fresh"
         /\ Seen(c, i) /\ row[i].status = "pending" /\ Target(i) /\ Unused(i, k)
         /\ row' = [row EXCEPT ![i].known = TRUE, ![i].version = @ + 1]
         /\ Record(i, k, "registered")
    /\ account' = TRUE
    /\ Idle(c)
    /\ UNCHANGED <<kinds, check, mail, part, inviter>>
NoneActive == Active = {}
Generation == Cardinality(part) + 1
Joined(i) == [from |-> i, generation |-> Generation, active |-> TRUE]
Spend(x) == check' = (check \ {x}) \cup {[x EXCEPT !.state = "spent"]}
Accept(c) ==                 \* by the account invited, with a second factor
    /\ "accept" \in kinds
    /\ inviter /\ account /\ NoneActive
    /\ \E i \in Invitations, k \in Keys, x \in check :
         /\ Checked(i, x) /\ x.state = "fresh" /\ Seen(c, i) /\ row[i].status = "pending" /\ Unused(i, k)
         /\ Settle(i, "accepted") /\ Record(i, k, "accepted") /\ Spend(x)
         /\ part' = part \cup {Joined(i)}
    /\ Idle(c)
    /\ UNCHANGED <<kinds, mail, account, inviter>>
Decline(c) ==                \* by the account, or by whoever has the proof
    /\ "decline" \in kinds
    /\ inviter
    /\ \E i \in Invitations, k \in Keys, x \in check :
         /\ Checked(i, x) /\ x.state = "fresh" /\ Seen(c, i) /\ row[i].status = "pending" /\ Target(i) /\ Unused(i, k)
         /\ Settle(i, "declined") /\ Record(i, k, "declined") /\ Spend(x)
    /\ Idle(c)
    /\ UNCHANGED <<mail, outside>>

-----------------------------------------------------------------------------
(* What happens besides.                                                    *)
Lapse(i) ==
    /\ "lapse" \in kinds
    /\ Open(i)
    /\ row' = [row EXCEPT ![i].lapsed = TRUE]
    /\ UNCHANGED <<check, receipt, mail, outside, calls>>
GrowStale(x) ==
    /\ "stale" \in kinds
    /\ x.state = "fresh"
    /\ check' = (check \ {x}) \cup {[x EXCEPT !.state = "stale"]}
    /\ UNCHANGED <<row, receipt, mail, outside, calls>>
EndParticipation(p) ==
    /\ "end" \in kinds
    /\ p.active
    /\ part' = (part \ {p}) \cup {[p EXCEPT !.active = FALSE]}
    /\ UNCHANGED <<kinds, row, check, receipt, mail, account, inviter, calls>>
OpenAccount ==               \* through another project
    /\ "account" \in kinds /\ ~account /\ account' = TRUE
    /\ UNCHANGED <<kinds, row, check, receipt, mail, part, inviter, calls>>
Demote ==
    /\ "demote" \in kinds /\ inviter /\ inviter' = FALSE
    /\ UNCHANGED <<kinds, row, check, receipt, mail, account, part, calls>>

Absent == [status |-> "absent", lapsed |-> FALSE, token |-> 0, version |-> 0, delivery |-> "sending", known |-> FALSE]
Init ==                      \* one invitation was sent before
    /\ kinds \in Concerns /\ account \in BOOLEAN /\ inviter = TRUE
    /\ \E old \in {{i} : i \in Invitations} :
         /\ row = [i \in Invitations |-> IF i \in old THEN [Fresh EXCEPT !.delivery = "sent", !.version = 2] ELSE Absent]
         /\ receipt = [on : old, key : {None}, kind : {"created"}]
         /\ mail = [on : old, token : {1}, key : {1}]
    /\ check = {} /\ part = {}
    /\ calls = [c \in Calls |-> [at |-> "idle"]]
Managing(c) == Create(c) \/ Resend(c) \/ Compose(c) \/ Post(c) \/ RecordDelivery(c) \/ Revoke(c)
Answering(c) == Register(c) \/ Accept(c) \/ Decline(c)
Environment ==
    \/ \E i \in Invitations : Lapse(i)
    \/ \E x \in check : GrowStale(x)
    \/ \E p \in part : EndParticipation(p)
    \/ OpenAccount \/ Demote
Next == Inspect \/ Environment \/ \E c \in Calls : Fill(c) \/ Lost(c) \/ Managing(c) \/ Answering(c)
Spec == Init /\ [][Next]_vars

-----------------------------------------------------------------------------
(* Every row has its type.                                                  *)
TypeOK ==
    /\ row \in [Invitations -> Invitation] /\ check \subseteq Check /\ part \subseteq Participation
    /\ mail \subseteq Mail /\ receipt \subseteq Receipt

(* An invitation shown as sent was mailed since its token was last changed, *)
(* however long the mail of an earlier token was under way.                 *)
SentWasMailed == \A i \in Invitations :
    row[i].delivery = "sent" => \E m \in mail : m.on = i /\ m.key = row[i].token

(* The address has one active participation at most, and every invitation   *)
(* that was accepted gave it exactly one, whatever was repeated, revoked or *)
(* invited again.                                                           *)
OneParticipation ==
    /\ Cardinality(Active) <= 1
    /\ \A i \in Invitations : Cardinality({p \in part : p.from = i}) = IF row[i].status = "accepted" THEN 1 ELSE 0

(* Whoever answers an invitation or registers with it holds a proof of its  *)
(* present token: after a resend the earlier mail and its proof are dead.   *)
AnswerHasCurrentProof == [][\A r \in receipt' \ receipt :
    r.kind \in {"accepted", "declined", "registered"} =>
        \E x \in check : x.on = r.on /\ x.token = row[r.on].token /\ x.state = "fresh"]_vars
=============================================================================
