---------------------------- MODULE FixedApproval ---------------------------
(***************************************************************************)
(* Fixed approvals: a named person judges a frozen node (a requirement or a *)
(* requirement document) of a fixed release, once.                         *)
(*                                                                         *)
(*   app/services/fixed_approval.py            create, decide, cancel      *)
(*   app/services/fixed_approval_migration.py  switch of an old request    *)
(*   app/services/requirement_approval.py      the old way, still in use   *)
(*   app/services/guest_fixed_approval.py      requests to outside guests  *)
(*   app/services/shared_fixed_approval.py     the guest's own decision    *)
(*   alembic/versions/c9e3f6a1d547_*.py        unique indexes and guards   *)
(*                                                                         *)
(* An internal operation runs in a REPEATABLE READ transaction: it reads a *)
(* snapshot (Read), and its locks, unique indexes and writes meet the      *)
(* committed state later (Judge, Insert, Switch).  A serialization failure *)
(* or a repeated operation id starts it again on a new snapshot, at most   *)
(* three times.  Guest operations hold the project's publication lock      *)
(* exclusively and are one action each.                                    *)
(*                                                                         *)
(* Permissions, confirmations, the body comparison bound by the review     *)
(* digest and input limits can only refuse an operation: Refuse stands for *)
(* all of them.                                                            *)
(***************************************************************************)
EXTENDS Naturals, Sequences, FiniteSets

CONSTANTS
    Calls,      \* concurrent HTTP requests
    Approvals,  \* identities of fixed_approval_requests
    Users,      \* internal users
    Guests,     \* outside users a publication may be granted to
    Ids,        \* request_id and operation_id values clients draw
    Nodes,      \* frozen nodes: one per release, node and attachment set
    Subject,    \* node -> the requirement text it freezes (NoOne: a document)
    Members,    \* node -> the requirement texts of a document
    Legacy,     \* requests of the old approval tables
    Fits,       \* legacy -> the nodes that hold what it asks about
    NoOne,
    MaxGrants   \* bound on the grants a guest receives

ASSUME NodesAssumption ==
    /\ Members \in [Nodes -> SUBSET {Subject[n] : n \in Nodes}]
    /\ \A n \in Nodes : Subject[n] # NoOne => Members[n] = {}
ASSUME NamesAssumption ==
    /\ NoOne \notin Approvals \cup Users \cup Guests \cup Ids \cup Legacy
    /\ Users \cap Guests = {} /\ Ids \cap Legacy = {}
    /\ Fits \in [Legacy -> SUBSET Nodes]
ASSUME GrantsAssumption == MaxGrants \in Nat

VARIABLES
    row,        \* approval -> its fixed_approval_requests row, or NoOne
    events,     \* approval -> its fixed_approval_events, by seq
    moved,      \* legacy -> the switching import and its request, or NoOne
    judged,     \* legacy -> the decisions written on the old row
    grant,      \* guest -> number of the latest publication grant
    live,       \* the guests whose latest grant is active
    told,       \* <<approval, action, user>>: notifications written
    calls       \* call -> the operation it runs

vars == <<row, events, moved, judged, grant, live, told, calls>>

Final == {"approved", "approved_with_exceptions", "rejected", "cancelled"}

Exists(a)  == row[a] # NoOne
Open(a)    == Exists(a) /\ row[a].status = "requested"
OfGuest(a) == row[a].approver \in Guests

-----------------------------------------------------------------------------
(* What a snapshot says of a document's requirements.                       *)

\* basis_rows: a requirement is agreed when the same text was approved and never
\* rejected; everything else needs an exception (NoOne).
Agreements(s, pool) ==
    LET same == {a \in pool : Exists(a) /\ Subject[row[a].node] = s}
    IN  IF \E a \in same : row[a].status = "rejected" THEN {}
        ELSE {a \in same : row[a].status = "approved"}

Bases(n) == [Members[n] -> Approvals \cup {NoOne}]

BasesHold(n, b, pool) ==
    /\ b \in Bases(n)
    /\ \A s \in Members[n] : IF Agreements(s, pool) = {} THEN b[s] = NoOne
                             ELSE b[s] \in Agreements(s, pool)

Exceptions(r) == {s \in DOMAIN r.bases : r.bases[s] = NoOne}

-----------------------------------------------------------------------------
(* What a transaction writes.                                               *)

\* emit: who hears of an action besides its actor.
RecipientsOfAnswer(r, action) ==            \* mutation: the designated person of a
    IF action = "requested" THEN {r.approver} ELSE {r.requester}   \* cancelled request
Recipients(r, action) ==
    CASE action = "requested" -> {r.approver}
      [] action = "cancelled" -> {r.requester, r.approver}
      [] OTHER                -> {r.requester}

\* An outside person is told only while the grant the request is bound to stands.
MayRead(r, u) == u \in Guests => u \in live /\ r.grant = grant[u]

Tell(a, r, action, actor) ==
    told' = told \cup {<<a, action, u>> : u \in
                          {v \in Recipients(r, action) \ {actor} : MayRead(r, v)}}

Event(id, actor, action, input) ==
    [id |-> id, actor |-> actor, action |-> action, input |-> input]

\* What the digest of a request body binds, beyond its operation id.
Input(d) == IF d.kind \in {"decide", "cancel"} THEN <<d.word>>
            ELSE <<d.node, d.approver, d.bases>>

\* save: row, first event, bases, seal and notifications together.
Save(a, d, id, g) ==
    LET r == [status |-> "requested", node |-> d.node, requester |-> d.user,
              approver |-> d.approver, id |-> id, bases |-> d.bases, grant |-> g]
    IN  /\ ~Exists(a)
        /\ row' = [row EXCEPT ![a] = r]
        /\ events' = [events EXCEPT ![a] = <<Event(id, d.user, "requested", Input(d))>>]
        /\ Tell(a, r, "requested", d.user)

StatusAsSent(r, word) == word         \* mutation: the word is stored as it came
StatusIgnoringExceptions(r, word) ==     \* mutation: exceptions are forgotten
    CASE word = "approve" -> "approved"
      [] word = "reject"  -> "rejected"
      [] word = "cancel"  -> "cancelled"
StatusOf(r, word) ==
    CASE word = "approve" /\ Exceptions(r) = {} -> "approved"
      [] word = "approve" /\ Exceptions(r) # {} -> "approved_with_exceptions"
      [] word = "reject"                        -> "rejected"
      [] word = "cancel"                        -> "cancelled"

\* decide and cancel: status, second event and notifications together.
Conclude(a, actor, id, word) ==
    LET s == StatusOf(row[a], word)
    IN  /\ row' = [row EXCEPT ![a].status = s]
        /\ events' = [events EXCEPT ![a] = Append(@, Event(id, actor, s, <<word>>))]
        /\ Tell(a, row[a], s, actor)

\* by_operation: the requester has a request under this id.
OperationTaken(d) ==
    \E a \in Approvals : Exists(a) /\ row[a].requester = d.user /\ row[a].id = d.id

\* The unique index an insertion meets first: request ids are a constraint of the
\* table and come before the index on open requests, where a missing attachment
\* set counts as equal to another.
CollisionPendingFirst(d) ==                 \* mutation: the indexes in the other order
    IF \E a \in Approvals : Open(a) /\ row[a].node = d.node THEN "pending"
    ELSE IF OperationTaken(d) THEN "operation"
    ELSE "none"
CollisionOfOwn(d) ==                        \* mutation: the index names the requester
    IF OperationTaken(d) THEN "operation"
    ELSE IF \E a \in Approvals : Open(a) /\ row[a].node = d.node /\ row[a].requester = d.user
    THEN "pending"
    ELSE "none"
Collision(d) ==
    IF OperationTaken(d) THEN "operation"
    ELSE IF \E a \in Approvals : Open(a) /\ row[a].node = d.node THEN "pending"
    ELSE "none"

-----------------------------------------------------------------------------
(* The life of an internal call: sent, read (its snapshot taken), ended.    *)

Ended(answer) == [stage |-> "ended", answer |-> answer]

Init ==
    /\ row = [a \in Approvals |-> NoOne]
    /\ events = [a \in Approvals |-> <<>>]
    /\ moved = [l \in Legacy |-> NoOne]
    /\ judged = [l \in Legacy |-> <<>>]
    /\ grant = [g \in Guests |-> 0]
    /\ live = {}
    /\ told = {}
    /\ calls = [c \in Calls |-> Ended("none")]

\* The bodies a client may send.
AnyBases  == UNION {Bases(n) : n \in Nodes}
Requests  == {[kind |-> "create", user |-> u, id |-> i, node |-> n, approver |-> v,
               bases |-> b, legacy |-> NoOne] :
                  u \in Users, i \in Ids, n \in Nodes, v \in Users, b \in AnyBases}
Switches  == {[kind |-> "switch", user |-> u, id |-> i, node |-> n, approver |-> v,
               bases |-> b, legacy |-> l] :
                  u \in Users, i \in Ids, n \in Nodes, v \in Users, b \in AnyBases,
                  l \in Legacy}
Decisions == {[kind |-> IF v = "cancel" THEN "cancel" ELSE "decide",
               user |-> u, id |-> i, approval |-> a, word |-> v] :
                  u \in Users, i \in Ids, a \in Approvals, v \in {"approve", "reject", "cancel"}}
OldDecisions == {[kind |-> "old", user |-> u, legacy |-> l, word |-> v] :
                  u \in Users, l \in Legacy, v \in {"approve", "reject"}}

\* The operation a body asks for has taken effect: by_operation with an equal
\* digest, previous_event, the import of a switch.
Recorded(d) ==
    CASE d.kind = "create" ->
           \E a \in Approvals : /\ Exists(a) /\ row[a].requester = d.user /\ row[a].id = d.id
                                /\ events[a][1].input = Input(d)
      [] d.kind \in {"decide", "cancel"} ->
           \E i \in DOMAIN events[d.approval] : /\ events[d.approval][i].id = d.id
                                                /\ events[d.approval][i].input = Input(d)
      [] d.kind = "switch" -> moved[d.legacy] = d
      [] d.kind = "old" -> FALSE

\* A preview has just shown the client the bases and the node of a new request;
\* a body that was sent before may be sent again.
Seen(d) ==
    CASE d.kind \in {"create", "switch"} ->
           /\ d.user # d.approver
           /\ BasesHold(d.node, d.bases, Approvals)
           /\ d.kind = "switch" => d.node \in Fits[d.legacy]
      [] d.kind \in {"decide", "cancel"} -> Exists(d.approval)
      [] d.kind = "old" -> TRUE
InFlight == {c \in Calls : calls[c].stage # "ended"}

Submit(c) ==
    /\ calls[c].stage = "ended"
    /\ \E d \in Requests \cup Switches \cup Decisions \cup OldDecisions :
           /\ Seen(d) \/ Recorded(d) \/ \E o \in InFlight : calls[o].data = d
           /\ calls' = [calls EXCEPT ![c] = [stage |-> "sent", data |-> d, attempt |-> 0]]
    /\ UNCHANGED <<row, events, moved, judged, grant, live, told>>

Answer(c, answer) == calls' = [calls EXCEPT ![c] = Ended(answer)]
NoWrite == UNCHANGED <<row, events, moved, judged, grant, live, told>>

\* retry: a serialization failure or a taken operation id starts the transaction
\* again, on a new snapshot; the third time the caller is told of a conflict.
Retry(c) ==
    IF calls[c].attempt = 2 THEN Answer(c, "exhausted")
    ELSE calls' = [calls EXCEPT ![c] = [stage |-> "sent", data |-> calls[c].data,
                                        attempt |-> calls[c].attempt + 1]]

\* The snapshot is taken: view is what the call will act upon.
Look(c, view) ==
    calls' = [calls EXCEPT ![c] = [stage |-> "read", data |-> calls[c].data,
                                   attempt |-> calls[c].attempt, view |-> view]]

\* An earlier operation with the same id ends the call at once.
Replay(c) == Answer(c, IF Recorded(calls[c].data) THEN "same" ELSE "duplicate")

ReadCreate(c, d) ==
    IF OperationTaken(d) THEN Replay(c)
    ELSE IF BasesHold(d.node, d.bases, Approvals) THEN Look(c, NoOne)
         ELSE Answer(c, "refused")

ReadSwitch(c, d) ==
    IF \E l \in Legacy : moved[l] # NoOne /\ moved[l].user = d.user /\ moved[l].id = d.id
    THEN Replay(c)
    ELSE Look(c, [judged |-> Len(judged[d.legacy]), moved |-> moved[d.legacy] # NoOne,
                  holds |-> BasesHold(d.node, d.bases, Approvals)])

ReadDecision(c, d) == Look(c, <<row[d.approval], events[d.approval]>>)

\* _raise_if_decided of the old services: read without a lock.
ReadOld(c, d) == IF judged[d.legacy] # <<>> THEN Answer(c, "refused") ELSE Look(c, NoOne)

Read(c) ==
    /\ calls[c].stage = "sent"
    /\ LET d == calls[c].data IN
       \/ d.kind = "create" /\ ReadCreate(c, d)
       \/ d.kind = "switch" /\ ReadSwitch(c, d)
       \/ d.kind \in {"decide", "cancel"} /\ ReadDecision(c, d)
       \/ d.kind = "old" /\ ReadOld(c, d)
    /\ NoWrite

\* Permissions, digests of the previews, confirmations, sizes, a lost process:
\* whatever ends a call without a trace.
Refuse(c) == calls[c].stage # "ended" /\ Answer(c, "refused") /\ NoWrite

\* The insertion meets what has been committed since the snapshot.
Insert(c) ==
    /\ calls[c].stage = "read"
    /\ calls[c].data.kind = "create"
    /\ LET d == calls[c].data IN
       \/ Collision(d) = "operation" /\ Retry(c) /\ NoWrite
       \/ Collision(d) = "pending" /\ Answer(c, "duplicate") /\ NoWrite
       \/ /\ Collision(d) = "none"
          /\ \E a \in Approvals : Save(a, d, d.id, 0)
          /\ Answer(c, "done")
          /\ UNCHANGED <<moved, judged, grant, live>>

\* SELECT ... FOR UPDATE fails when the row has changed since the snapshot.
ChangedIgnored(a, view) == FALSE            \* mutation: no lock, no conflict
Changed(a, view) == <<row[a], events[a]>> # view

\* The one who may make this decision: anyone with the right to request cancels.
Entitled(d, r) == d.kind = "decide" => d.user = r.approver /\ d.user # r.requester

Judge(c) ==
    /\ calls[c].stage = "read"
    /\ calls[c].data.kind \in {"decide", "cancel"}
    /\ LET d == calls[c].data
           r == calls[c].view[1]
           h == calls[c].view[2]
           repeated == \E i \in DOMAIN h : h[i].id = d.id
       IN
       \/ Changed(d.approval, calls[c].view) /\ Retry(c) /\ NoWrite
       \/ /\ ~Changed(d.approval, calls[c].view)
          /\ \/ (OfGuest(d.approval) \/ ~Entitled(d, r)) /\ Answer(c, "refused") /\ NoWrite
             \/ /\ ~OfGuest(d.approval) /\ Entitled(d, r)
                /\ \/ repeated /\ Replay(c) /\ NoWrite
                   \/ ~repeated /\ r.status # "requested" /\ Answer(c, "stale") /\ NoWrite
                   \/ /\ ~repeated /\ r.status = "requested"
                      /\ Conclude(d.approval, d.user, d.id, d.word)
                      /\ Answer(c, "done")
                      /\ UNCHANGED <<moved, judged, grant, live>>

\* create of the migration: the old row is locked, then judged on the snapshot;
\* another switch committed meanwhile shows as a taken unique key.
Switch(c) ==
    /\ calls[c].stage = "read"
    /\ calls[c].data.kind = "switch"
    /\ LET d == calls[c].data
           view == calls[c].view
           l == d.legacy
           taken == Collision([d EXCEPT !.id = l])
       IN
       \/ Len(judged[l]) # view.judged /\ Retry(c) /\ NoWrite
       \/ /\ Len(judged[l]) = view.judged
          /\ \/ view.moved /\ Answer(c, "migrated") /\ NoWrite
             \/ /\ ~view.moved /\ (view.judged > 0 \/ ~view.holds)
                /\ Answer(c, "refused") /\ NoWrite
             \/ /\ ~view.moved /\ view.judged = 0 /\ view.holds
                /\ \/ moved[l] # NoOne /\ Retry(c) /\ NoWrite
                   \/ /\ moved[l] = NoOne /\ taken = "pending"
                      /\ Answer(c, "duplicate") /\ NoWrite
                   \/ /\ moved[l] = NoOne /\ taken = "none"
                      /\ \E a \in Approvals : Save(a, d, l, 0)
                      /\ moved' = [moved EXCEPT ![l] = d]
                      /\ Answer(c, "done")
                      /\ UNCHANGED <<judged, grant, live>>

\* guard_legacy_approval_migrated: the old row cannot change once switched.
Writable(l) == moved[l] = NoOne

\* mark_approved, mark_rejected: the update overwrites what is there.
OldWrite(c) ==
    /\ calls[c].stage = "read"
    /\ calls[c].data.kind = "old"
    /\ LET d == calls[c].data IN
       \/ ~Writable(d.legacy) /\ Answer(c, "migrated") /\ NoWrite
       \/ /\ Writable(d.legacy)
          /\ judged' = [judged EXCEPT ![d.legacy] = Append(@, d.word)]
          /\ Answer(c, "done")
          /\ UNCHANGED <<row, events, moved, grant, live, told>>

-----------------------------------------------------------------------------
(* Requests to outside people, under the project's publication lock.        *)

\* external_bases: only what an outside person agreed to counts.
OutsidePool == {a \in Approvals : Exists(a) /\ OfGuest(a)}

GuestCreate ==
    \E u \in Users, i \in Ids, n \in Nodes, g \in live, b \in AnyBases, a \in Approvals :
        LET d == [kind |-> "create", user |-> u, id |-> i, node |-> n, approver |-> g,
                  bases |-> b, legacy |-> NoOne]
        IN  /\ Collision(d) = "none"
            /\ BasesHold(n, b, OutsidePool)
            /\ Save(a, d, i, grant[g])
            /\ UNCHANGED <<moved, judged, grant, live, calls>>

\* guest_approval_has_access: the grant the request was made under, still active.
HasAnyGrant(r) == r.approver \in live       \* mutation: a newer grant will do
HasAccess(r) == r.approver \in live /\ r.grant = grant[r.approver]

Unrepeated(a, i) == \A k \in DOMAIN events[a] : events[a][k].id # i

GuestDecide ==
    \E a \in Approvals, i \in Ids, v \in {"approve", "reject"} :
        /\ Open(a) /\ OfGuest(a) /\ HasAccess(row[a]) /\ Unrepeated(a, i)
        /\ Conclude(a, row[a].approver, i, v)
        /\ UNCHANGED <<moved, judged, grant, live, calls>>

\* Cancelling needs no access of the outside person.
GuestCancel ==
    \E a \in Approvals, i \in Ids, u \in Users :
        /\ Open(a) /\ OfGuest(a) /\ Unrepeated(a, i)
        /\ Conclude(a, u, i, "cancel")
        /\ UNCHANGED <<moved, judged, grant, live, calls>>

Grant(g) ==
    /\ g \notin live
    /\ grant[g] < MaxGrants
    /\ grant' = [grant EXCEPT ![g] = @ + 1]
    /\ live' = live \cup {g}
    /\ UNCHANGED <<row, events, moved, judged, told, calls>>

\* Revoked, expired, the publication stopped or the participation ended.
Lapse(g) ==
    /\ live' = live \ {g}
    /\ g \in live
    /\ UNCHANGED <<row, events, moved, judged, grant, told, calls>>

-----------------------------------------------------------------------------
Next ==
    \/ \E c \in Calls : \/ Submit(c) \/ Read(c) \/ Refuse(c)
                        \/ Insert(c) \/ Judge(c) \/ Switch(c) \/ OldWrite(c)
    \/ GuestCreate \/ GuestDecide \/ GuestCancel
    \/ \E g \in Guests : Grant(g) \/ Lapse(g)

Spec == Init /\ [][Next]_vars

-----------------------------------------------------------------------------
(* Type.                                                                    *)

RowType == [status : Final \cup {"requested"}, node : Nodes, requester : Users,
            approver : Users \cup Guests, id : Ids \cup Legacy, bases : AnyBases,
            grant : 0..MaxGrants]

EventType == [id : Ids \cup Legacy, actor : Users \cup Guests,
              action : Final \cup {"requested"},
              input : {Input(d) : d \in Decisions}
                      \cup (Nodes \X (Users \cup Guests) \X AnyBases)]

ASSUME NullAssumption == NoOne \notin RowType \cup Switches

\* Every variable has its type: in particular a status is one of the five the
\* check constraint allows, and null is no row.
TypeOK ==
    /\ row \in [Approvals -> RowType \cup {NoOne}]
    /\ events \in [Approvals -> Seq(EventType)]
    /\ moved \in [Legacy -> Switches \cup {NoOne}]
    /\ judged \in [Legacy -> Seq({"approve", "reject"})]
    /\ grant \in [Guests -> 0..MaxGrants]
    /\ live \in SUBSET Guests
    /\ told \in SUBSET (Approvals \X (Final \cup {"requested"}) \X (Users \cup Guests))
    /\ \A c \in Calls : /\ calls[c].stage \in {"sent", "read", "ended"}
                        /\ calls[c].stage # "ended" => calls[c].attempt \in 0..2

-----------------------------------------------------------------------------
(* Safety.                                                                  *)

\* The request row and its events tell the same story, whatever calls raced:
\* one event per version, the second names the row's status, was made by the
\* designated person unless it is a cancellation.  The deferred trigger
\* check_fixed_approval_complete would turn anything else into an error.
HistoryMatchesRow ==
    \A a \in Approvals : Exists(a) =>
        /\ Len(events[a]) = IF Open(a) THEN 1 ELSE 2
        /\ events[a][1].action = "requested"
        /\ events[a][1].actor = row[a].requester
        /\ ~Open(a) => /\ events[a][2].action = row[a].status
                       /\ row[a].status = "cancelled" \/ events[a][2].actor = row[a].approver
                       /\ events[a][2].id # events[a][1].id

\* A document called approved without exceptions rests, for every requirement in
\* it, on a finished approval of exactly that text; one approved with exceptions
\* lacks at least one.
AgreementIsBacked ==
    \A a \in Approvals : Exists(a) =>
        /\ \A s \in DOMAIN row[a].bases \ Exceptions(row[a]) :
               LET b == row[a].bases[s]
               IN  /\ Exists(b) /\ row[b].status = "approved"
                   /\ Subject[row[b].node] = s
                   /\ events[b][2].action = "approved"
        /\ row[a].status = "approved" => Exceptions(row[a]) = {}
        /\ row[a].status = "approved_with_exceptions" => Exceptions(row[a]) # {}

\* Nobody can ask for a node again while a request for it is open, from whichever
\* of the three ways the requests come.
OneOpenRequest ==
    \A a, b \in Approvals :
        Open(a) /\ Open(b) /\ row[a].node = row[b].node => a = b

\* No internal request or decision is given up as a conflict because others were
\* busy: whatever made the first attempt fail decides the second one.
RetrySuffices ==
    \A c \in Calls :
        calls[c].stage # "ended" /\ calls[c].data.kind # "switch" => calls[c].attempt < 2

\* A switched request of the old tables is never judged there, and has exactly
\* one successor, made by the person who switched it.
SwitchFreezesLegacy ==
    \A l \in Legacy : moved[l] # NoOne =>
        /\ judged[l] = <<>>
        /\ \E a \in Approvals : /\ Exists(a) /\ row[a].id = l
                                /\ row[a].requester = moved[l].user
                                /\ \A b \in Approvals : Exists(b) /\ row[b].id = l => b = a

\* A node has one open request, whoever asks and in whichever way, and a switched
\* request one successor and no judgement of its own.
OneRequestEach == OneOpenRequest /\ SwitchFreezesLegacy

\* A call that repeats an operation already in effect is never told that it
\* collides, is out of date or was migrated: it is recognised as the same.
ReplayIsRecognised ==
    [][\A c \in Calls :
          (/\ calls[c].stage # "ended" /\ calls'[c].stage = "ended"
           /\ calls'[c].answer \in {"duplicate", "stale", "migrated", "exhausted"})
          => ~Recorded(calls[c].data)]_vars

\* A second attempt decides, and a call that repeats what already took effect is
\* recognised, never told that it collides or is out of date.
RepeatsAreHeard == []RetrySuffices /\ ReplayIsRecognised

\* An outside person's decision is recorded only while the very grant the request
\* was made under is active: a newer grant does not revive an older request.
GuestDecisionHasAccess ==
    [][\A a \in Approvals :
          (/\ Open(a) /\ OfGuest(a)
           /\ row'[a].status \in Final \ {"cancelled"})
          => row[a].approver \in live /\ row[a].grant = grant[row[a].approver]]_vars

\* Each request and each outcome is told to whoever is waiting for it: the
\* designated person of a request and of its cancellation, the requester of a
\* decision or of a cancellation by someone else.  Only outside people whose
\* access has lapsed may miss a cancellation.
NobodyIsLeftOut ==
    \A a \in Approvals : Exists(a) =>
        /\ <<a, "requested", row[a].approver>> \in told
        /\ ~Open(a) /\ events[a][2].actor # row[a].requester =>
               <<a, row[a].status, row[a].requester>> \in told
        /\ (/\ row[a].status = "cancelled" /\ events[a][2].actor # row[a].approver
            /\ row[a].approver \in Users)
           => <<a, "cancelled", row[a].approver>> \in told

\* The docstring of _raise_if_decided: a decided old request raises, so it is
\* judged once.
LegacyDecidedOnce == \A l \in Legacy : Len(judged[l]) <= 1

-----------------------------------------------------------------------------
(* What all of it amounts to: see FixedJudgement.                           *)

StandingNow == [a \in Approvals |-> IF Exists(a) THEN row[a].status ELSE "absent"]
OldNow == [l \in Legacy |-> CASE moved[l] # NoOne  -> "moved"
                              [] moved[l] = NoOne /\ judged[l] # <<>> -> "decided"
                              [] moved[l] = NoOne /\ judged[l] = <<>> -> "open"]

Judgement == INSTANCE FixedJudgement WITH standing <- StandingNow, old <- OldNow

\* Every request takes one judgement and keeps it; an old request is either
\* decided in place or succeeded by a new one, never both.
KeepsJudgement == Judgement!Spec
=============================================================================
