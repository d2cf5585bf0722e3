------------------------ MODULE FixedApproval_proofs ------------------------
(***************************************************************************)
(* Theorems about FixedApproval, for any calls, people, ids, nodes, old    *)
(* requests and grants.                                                    *)
(***************************************************************************)
EXTENDS FixedApproval, TLAPS

\* The agreements a set of bases rests on are finished approvals of those very texts.
Backed(bases, rows) ==
    \A s \in DOMAIN bases : bases[s] # NoOne =>
        /\ bases[s] \in Approvals /\ rows[bases[s]] # NoOne
        /\ rows[bases[s]].status = "approved" /\ Subject[rows[bases[s]].node] = s

\* What a call under way may rely on.
WorkFits(w, rows) ==
    /\ w.stage \in {"sent", "read"} /\ w.attempt \in 0..2
    /\ w.data \in Requests \cup Switches \cup Decisions \cup OldDecisions
    /\ w.data.kind \in {"create", "switch"} => w.data.user # w.data.approver
    /\ w.data.kind \in {"decide", "cancel"} => rows[w.data.approval] # NoOne
    /\ w.stage = "read" /\ w.data.kind = "create" => Backed(w.data.bases, rows)
    /\ w.stage = "read" /\ w.data.kind = "switch" /\ w.view.holds => Backed(w.data.bases, rows)

CallsFit ==
    /\ calls = [c \in Calls |-> calls[c]]
    /\ \A c \in Calls : calls[c].stage # "ended" => WorkFits(calls[c], row)

\* What every row owes to the way it was made.
RowFits(a) ==
    /\ row[a].requester # row[a].approver
    /\ Backed(row[a].bases, row)
    /\ events[a][1].input = <<row[a].node, row[a].approver, row[a].bases>>
    /\ row[a].status = "approved" => Exceptions(row[a]) = {}
    /\ row[a].status = "approved_with_exceptions" => Exceptions(row[a]) # {}
    /\ row[a].id \in Legacy => /\ moved[row[a].id] # NoOne
                               /\ row[a].requester = moved[row[a].id].user

RowsFit ==
    \A a \in Approvals : IF Exists(a) THEN RowFits(a) ELSE events[a] = <<>>

\* A switch has one new request, and the old one is left undecided.
MovesFit ==
    /\ \A a, b \in Approvals :
          Exists(a) /\ Exists(b) /\ row[a].id = row[b].id /\ row[a].id \in Legacy => a = b
    /\ \A l \in Legacy : moved[l] # NoOne =>
          /\ judged[l] = <<>> /\ moved[l].user # moved[l].approver
          /\ \E a \in Approvals : Exists(a) /\ row[a].id = l

RowInv == RowsFit /\ MovesFit /\ HistoryMatchesRow /\ OneOpenRequest /\ NobodyIsLeftOut

Inv == TypeOK /\ CallsFit /\ RowInv
-----------------------------------------------------------------------------
(* The operators.                                                           *)

\* What a body of each kind carries.
LEMMA BodyShape ==
    ASSUME NEW d \in Requests \cup Switches \cup Decisions \cup OldDecisions
    PROVE  /\ d.kind \in {"create", "switch", "decide", "cancel", "old"}
           /\ d.kind \in {"create", "switch"} =>
                 /\ d.user \in Users /\ d.id \in Ids /\ d.node \in Nodes
                 /\ d.approver \in Users /\ d.bases \in AnyBases
           /\ d.kind = "switch" => d.legacy \in Legacy /\ d \in Switches
           /\ d.kind \in {"decide", "cancel"} =>
                 /\ d.user \in Users /\ d.id \in Ids /\ d.approval \in Approvals
                 /\ d.word \in {"approve", "reject", "cancel"} /\ d \in Decisions
                 /\ d.kind = "cancel" <=> d.word = "cancel"
           /\ d.kind = "old" => d.legacy \in Legacy /\ d.word \in {"approve", "reject"}
<1>1. CASE d \in Requests
  BY <1>1 DEF Requests
<1>2. CASE d \in Switches
  BY <1>2 DEF Switches
<1>3. CASE d \in Decisions
  BY <1>3 DEF Decisions
<1>4. CASE d \in OldDecisions
  BY <1>4 DEF OldDecisions
<1> QED
  BY <1>1, <1>2, <1>3, <1>4

\* An insertion that meets no unique index.
LEMMA NoCollision ==
    ASSUME NEW d, Collision(d) = "none"
    PROVE  \A a \in Approvals :
               /\ ~(Exists(a) /\ row[a].requester = d.user /\ row[a].id = d.id)
               /\ ~(Open(a) /\ row[a].node = d.node)
  BY DEF Collision, OperationTaken

\* The status a word leads to.
LEMMA StatusIs ==
    ASSUME NEW r, NEW word \in {"approve", "reject", "cancel"}
    PROVE  /\ StatusOf(r, word) \in Final
           /\ StatusOf(r, word) = "approved" => word = "approve" /\ Exceptions(r) = {}
           /\ StatusOf(r, word) = "approved_with_exceptions" =>
                 word = "approve" /\ Exceptions(r) # {}
           /\ StatusOf(r, word) = "cancelled" <=> word = "cancel"
<1>1. CASE word = "approve" /\ Exceptions(r) = {}
  <2>1. StatusOf(r, word) = "approved"
    BY <1>1, Zenon DEF StatusOf
  <2> QED
    BY <1>1, <2>1 DEF Final
<1>2. CASE word = "approve" /\ Exceptions(r) # {}
  <2>1. StatusOf(r, word) = "approved_with_exceptions"
    BY <1>2, Zenon DEF StatusOf
  <2> QED
    BY <1>2, <2>1 DEF Final
<1>3. CASE word = "reject"
  <2>1. StatusOf(r, word) = "rejected"
    BY <1>3, Zenon DEF StatusOf
  <2> QED
    BY <1>3, <2>1 DEF Final
<1>4. CASE word = "cancel"
  <2>1. StatusOf(r, word) = "cancelled"
    BY <1>4, Zenon DEF StatusOf
  <2> QED
    BY <1>4, <2>1 DEF Final
<1> QED
  BY <1>1, <1>2, <1>3, <1>4

\* Who hears of an action.
LEMMA RecipientsAre ==
    ASSUME NEW r
    PROVE  /\ Recipients(r, "requested") = {r.approver}
           /\ Recipients(r, "cancelled") = {r.requester, r.approver}
           /\ \A s \in Final \ {"cancelled"} : Recipients(r, s) = {r.requester}
<1>1. Recipients(r, "requested") = {r.approver}
  BY Zenon DEF Recipients
<1>2. Recipients(r, "cancelled") = {r.requester, r.approver}
  BY Zenon DEF Recipients
<1>3. ASSUME NEW s \in Final \ {"cancelled"} PROVE Recipients(r, s) = {r.requester}
  <2>1. s # "requested" /\ s # "cancelled"
    BY DEF Final
  <2> QED
    BY <2>1, Zenon DEF Recipients
<1> QED
  BY <1>1, <1>2, <1>3

\* The bases of a preview are a function on a document's members that rests on finished
\* approvals only.
LEMMA BasesAreBacked ==
    ASSUME NEW n \in Nodes, NEW b, NEW pool \in SUBSET Approvals, BasesHold(n, b, pool)
    PROVE  b \in AnyBases /\ Backed(b, row)
<1>1. b \in AnyBases /\ DOMAIN b = Members[n]
  BY DEF BasesHold, AnyBases, Bases
<1>2. ASSUME NEW s \in DOMAIN b, b[s] # NoOne
      PROVE  /\ b[s] \in Approvals /\ Exists(b[s])
             /\ row[b[s]].status = "approved" /\ Subject[row[b[s]].node] = s
  <2>1. b[s] \in Agreements(s, pool)
    BY <1>1, <1>2 DEF BasesHold
  <2>2. b[s] \in pool /\ Exists(b[s]) /\ Subject[row[b[s]].node] = s /\ row[b[s]].status = "approved"
    BY <2>1 DEF Agreements
  <2> QED
    BY <2>2
<1> QED
  BY <1>1, <1>2 DEF Backed, Exists

\* Equal triples agree in the second place.
LEMMA SecondOfThree ==
    ASSUME NEW a, NEW b, NEW c, NEW d, NEW e, NEW f, <<a, b, c>> = <<d, e, f>>
    PROVE  b = e
<1>1. <<a, b, c>>[2] = b /\ <<d, e, f>>[2] = e
  OBVIOUS
<1> QED
  BY <1>1

\* Who asks in a recorded body is not the designated person, and what it decides exists.
LEMMA RecordedBodies ==
    ASSUME Inv, NEW d \in Requests \cup Switches \cup Decisions \cup OldDecisions, Recorded(d)
    PROVE  /\ d.kind \in {"create", "switch"} => d.user # d.approver
           /\ d.kind \in {"decide", "cancel"} => Exists(d.approval)
<1>1. CASE d.kind = "create"
  <2>1. PICK a \in Approvals : /\ Exists(a) /\ row[a].requester = d.user /\ row[a].id = d.id
                               /\ events[a][1].input = Input(d)
    BY <1>1, Zenon DEF Recorded
  <2>2. RowFits(a)
    BY <2>1 DEF Inv, RowInv, RowsFit
  <2>3. row[a].requester # row[a].approver
        /\ events[a][1].input = <<row[a].node, row[a].approver, row[a].bases>>
    BY <2>2 DEF RowFits
  <2>4. Input(d) = <<d.node, d.approver, d.bases>>
    BY <1>1 DEF Input
  <2>5. <<row[a].node, row[a].approver, row[a].bases>> = <<d.node, d.approver, d.bases>>
    BY <2>1, <2>3, <2>4, Zenon
  <2>6. row[a].approver = d.approver
    BY <2>5, SecondOfThree, Zenon
  <2> QED
    BY <1>1, <2>1, <2>3, <2>6
<1>2. CASE d.kind = "switch"
  <2>1. moved[d.legacy] = d
    BY <1>2, Zenon DEF Recorded
  <2>2. d \in Switches /\ d.legacy \in Legacy
    BY <1>2, BodyShape
  <2>3. moved[d.legacy] # NoOne
    BY <2>1, <2>2, NullAssumption
  <2> QED
    BY <1>2, <2>1, <2>2, <2>3 DEF Inv, RowInv, MovesFit
<1>3. CASE d.kind \in {"decide", "cancel"}
  <2>1. PICK i \in DOMAIN events[d.approval] : TRUE
    BY <1>3, Zenon DEF Recorded
  <2>2. d.approval \in Approvals
    BY <1>3, BodyShape
  <2>3. events[d.approval] # <<>>
    BY <2>1
  <2> QED
    BY <1>3, <2>2, <2>3 DEF Inv, RowInv, RowsFit
<1> QED
  BY <1>1, <1>2, <1>3, BodyShape

-----------------------------------------------------------------------------
(* What never changes back.                                                 *)

\* A request that exists keeps its node, and an approval stays one.
Grows ==
    \A a \in Approvals : Exists(a) =>
        /\ row'[a] # NoOne /\ row'[a].node = row[a].node
        /\ row[a].status = "approved" => row'[a].status = "approved"

\* Agreements stay what they were.
LEMMA BackedGrows ==
    ASSUME Grows, NEW b, Backed(b, row)
    PROVE  Backed(b, row')
  BY DEF Grows, Backed, Exists

\* A call that fits a state fits the later ones.
LEMMA WorkGrows ==
    ASSUME Grows, NEW w, WorkFits(w, row)
    PROVE  WorkFits(w, row')
<1>1. w.data.kind \in {"decide", "cancel"} => w.data.approval \in Approvals
  BY BodyShape DEF WorkFits
<1>2. w.data.kind \in {"decide", "cancel"} => row'[w.data.approval] # NoOne
  BY <1>1 DEF WorkFits, Grows, Exists
<1>3. \A b : Backed(b, row) => Backed(b, row')
  BY BackedGrows
<1> QED
  BY <1>2, <1>3 DEF WorkFits

\* The calls when requests grow and no call moves.
LEMMA CallsStay ==
    ASSUME CallsFit, Grows, UNCHANGED calls
    PROVE  CallsFit'
<1>1. ASSUME NEW k \in Calls, calls[k].stage # "ended" PROVE WorkFits(calls[k], row')
  BY <1>1, WorkGrows DEF CallsFit
<1> QED
  BY <1>1 DEF CallsFit

\* The calls when one of them moves on.
LEMMA CallMoves ==
    ASSUME CallsFit, Grows, NEW c \in Calls, NEW w, calls' = [calls EXCEPT ![c] = w],
           w.stage # "ended" => WorkFits(w, row')
    PROVE  CallsFit'
<1>1. calls' = [k \in Calls |-> IF k = c THEN w ELSE calls[k]]
  BY DEF CallsFit
<1>2. ASSUME NEW k \in Calls, calls'[k].stage # "ended" PROVE WorkFits(calls'[k], row')
  <2>1. CASE k = c
    BY <1>1, <1>2, <2>1
  <2>2. CASE k # c
    BY <1>1, <1>2, <2>2, WorkGrows DEF CallsFit
  <2> QED
    BY <2>1, <2>2
<1> QED
  BY <1>1, <1>2 DEF CallsFit

-----------------------------------------------------------------------------
(* The two writes.                                                          *)

\* What a word binds is an input of the type.
LEMMA WordIsInput ==
    ASSUME NEW u \in Users, NEW i \in Ids, NEW a \in Approvals,
           NEW v \in {"approve", "reject", "cancel"}
    PROVE  <<v>> \in {Input(d) : d \in Decisions}
<1> DEFINE d == [kind |-> IF v = "cancel" THEN "cancel" ELSE "decide",
                 user |-> u, id |-> i, approval |-> a, word |-> v]
<1>1. d \in Decisions
  BY DEF Decisions
<1>2. Input(d) = <<v>>
  BY DEF Input
<1> QED
  BY <1>1, <1>2

\* The rest of the state keeps its type when only rows, events and notices change.
Written ==
    /\ row' \in [Approvals -> RowType \cup {NoOne}]
    /\ events' \in [Approvals -> Seq(EventType)]
    /\ told' \in SUBSET (Approvals \X (Final \cup {"requested"}) \X (Users \cup Guests))

\* What a new request is made of.
Asks(d, id, g) ==
    /\ d.kind \in {"create", "switch"}
    /\ d.user \in Users /\ d.node \in Nodes /\ d.approver \in Users \cup Guests
    /\ d.bases \in AnyBases /\ id \in Ids \cup Legacy /\ g \in 0..MaxGrants
    /\ d.user # d.approver
    /\ Backed(d.bases, row)
    /\ d.approver \in Guests => d.approver \in live /\ g = grant[d.approver]
    /\ \A b \in Approvals : ~(Open(b) /\ row[b].node = d.node)

\* The row and the events after a new request.
LEMMA Saved ==
    ASSUME TypeOK, NEW a \in Approvals, NEW d, NEW id, NEW g, Save(a, d, id, g), Asks(d, id, g)
    PROVE  /\ row[a] = NoOne /\ row'[a] # NoOne
           /\ row'[a] = [status |-> "requested", node |-> d.node, requester |-> d.user,
                         approver |-> d.approver, id |-> id, bases |-> d.bases, grant |-> g]
           /\ events'[a] = <<[id |-> id, actor |-> d.user, action |-> "requested",
                              input |-> <<d.node, d.approver, d.bases>>]>>
           /\ \A b \in Approvals \ {a} : row'[b] = row[b] /\ events'[b] = events[b]
           /\ told \subseteq told' /\ <<a, "requested", d.approver>> \in told'
           /\ Written
<1> DEFINE r == [status |-> "requested", node |-> d.node, requester |-> d.user,
                 approver |-> d.approver, id |-> id, bases |-> d.bases, grant |-> g]
           e == Event(id, d.user, "requested", Input(d))
<1>1. /\ row' = [row EXCEPT ![a] = r] /\ events' = [events EXCEPT ![a] = <<e>>]
      /\ Tell(a, r, "requested", d.user) /\ row[a] = NoOne
  BY Zenon DEF Save, Exists
<1>2. r \in RowType
  BY DEF RowType, Asks
<1>3. r # NoOne
  BY <1>2, NullAssumption
<1>4. Input(d) = <<d.node, d.approver, d.bases>>
  BY DEF Asks, Input
<1>5. e = [id |-> id, actor |-> d.user, action |-> "requested",
           input |-> <<d.node, d.approver, d.bases>>]
  BY <1>4 DEF Event
<1>6. e \in EventType
  BY <1>5 DEF EventType, Asks
<1>7. told' = told \cup {<<a, "requested", u>> : u \in {v \in {d.approver} \ {d.user} : MayRead(r, v)}}
  <2>1. Recipients(r, "requested") = {d.approver}
    BY RecipientsAre
  <2> QED
    BY <1>1, <2>1 DEF Tell
<1>8. MayRead(r, d.approver) /\ d.approver # d.user
  BY DEF MayRead, Asks
<1>9. <<a, "requested", d.approver>> \in told'
  BY <1>7, <1>8
<1>10. Written
  <2>1. row' \in [Approvals -> RowType \cup {NoOne}]
    BY <1>1, <1>2 DEF TypeOK
  <2>2. events' \in [Approvals -> Seq(EventType)]
    BY <1>1, <1>6 DEF TypeOK
  <2>3. told' \in SUBSET (Approvals \X (Final \cup {"requested"}) \X (Users \cup Guests))
    BY <1>7 DEF TypeOK, Asks
  <2> QED
    BY <2>1, <2>2, <2>3 DEF Written
<1> HIDE DEF r, e
<1>11. row'[a] = r /\ events'[a] = <<e>>
       /\ \A b \in Approvals \ {a} : row'[b] = row[b] /\ events'[b] = events[b]
  BY <1>1 DEF TypeOK
<1> QED
  BY <1>1, <1>3, <1>5, <1>7, <1>9, <1>10, <1>11 DEF r

\* The row and the events after a judgement.
LEMMA Concluded ==
    ASSUME TypeOK, NEW a \in Approvals, Exists(a), NEW actor \in Users \cup Guests,
           NEW id \in Ids, NEW word \in {"approve", "reject", "cancel"},
           Len(events[a]) = 1, Conclude(a, actor, id, word),
           NEW s, s = StatusOf(row[a], word)
    PROVE  /\ row' = [row EXCEPT ![a].status = s]
           /\ row'[a] # NoOne /\ row'[a] = [row[a] EXCEPT !.status = s]
           /\ Len(events'[a]) = 2 /\ events'[a][1] = events[a][1]
           /\ events'[a][2] = [id |-> id, actor |-> actor, action |-> s, input |-> <<word>>]
           /\ \A b \in Approvals \ {a} : row'[b] = row[b] /\ events'[b] = events[b]
           /\ told \subseteq told'
           /\ \A u \in Users \ {actor} : u \in Recipients(row[a], s) => <<a, s, u>> \in told'
           /\ Written
<1> DEFINE e == Event(id, actor, s, <<word>>)
<1>1. /\ row' = [row EXCEPT ![a].status = s]
      /\ events' = [events EXCEPT ![a] = Append(events[a], e)]
      /\ Tell(a, row[a], s, actor)
  BY DEF Conclude
<1>2. s \in Final
  BY StatusIs
<1>3. row[a] \in RowType
  BY DEF TypeOK, Exists
<1>4. e \in EventType /\ e = [id |-> id, actor |-> actor, action |-> s, input |-> <<word>>]
  <2>1. row[a].requester \in Users
    BY <1>3 DEF RowType
  <2>2. <<word>> \in {Input(d) : d \in Decisions}
    BY <2>1, WordIsInput
  <2> QED
    BY <1>2, <2>2 DEF Event, EventType
<1>5. Recipients(row[a], s) \in SUBSET (Users \cup Guests)
  <2>1. {row[a].requester, row[a].approver} \subseteq Users \cup Guests
    BY <1>3 DEF RowType
  <2>2. CASE s = "cancelled"
    BY <2>1, <2>2, RecipientsAre
  <2>3. CASE s # "cancelled"
    BY <1>2, <2>1, <2>3, RecipientsAre
  <2> QED
    BY <2>2, <2>3
<1>6. told' = told \cup {<<a, s, u>> : u \in {v \in Recipients(row[a], s) \ {actor} : MayRead(row[a], v)}}
  BY <1>1 DEF Tell
<1>7. ASSUME NEW u \in Users \ {actor}, u \in Recipients(row[a], s) PROVE <<a, s, u>> \in told'
  <2>1. MayRead(row[a], u)
    BY NamesAssumption DEF MayRead
  <2> QED
    BY <1>6, <1>7, <2>1
<1> HIDE DEF e
<1>8. events[a] \in Seq(EventType)
  BY DEF TypeOK
<1>9. row'[a] = [row[a] EXCEPT !.status = s] /\ events'[a] = Append(events[a], e)
      /\ \A b \in Approvals \ {a} : row'[b] = row[b] /\ events'[b] = events[b]
  BY <1>1 DEF TypeOK
<1>10. row'[a] \in RowType
  BY <1>2, <1>3, <1>9 DEF RowType
<1>11. Written
  <2>1. row' \in [Approvals -> RowType \cup {NoOne}]
    BY <1>1, <1>9, <1>10 DEF TypeOK
  <2>2. events' \in [Approvals -> Seq(EventType)]
    BY <1>1, <1>4, <1>8 DEF TypeOK
  <2>3. told' \in SUBSET (Approvals \X (Final \cup {"requested"}) \X (Users \cup Guests))
    BY <1>2, <1>5, <1>6 DEF TypeOK
  <2> QED
    BY <2>1, <2>2, <2>3 DEF Written
<1>12. Len(events'[a]) = 2 /\ events'[a][1] = events[a][1] /\ events'[a][2] = e
  BY <1>4, <1>8, <1>9
<1>13. row'[a] # NoOne
  BY <1>10, NullAssumption
<1> QED
  BY <1>1, <1>4, <1>6, <1>7, <1>9, <1>11, <1>12, <1>13

-----------------------------------------------------------------------------
(* What the two writes keep.                                                *)

\* A new request, with or without an old one that moves to it.
LEMMA SaveKeeps ==
    ASSUME Inv, NEW a \in Approvals, NEW d, NEW id, NEW g, Save(a, d, id, g), Asks(d, id, g),
           \A l \in Legacy : moved[l] # NoOne => moved'[l] = moved[l] /\ judged'[l] = judged[l],
           \A l \in Legacy : moved[l] = NoOne /\ moved'[l] # NoOne =>
               l = id /\ judged'[l] = <<>> /\ moved'[l].user # moved'[l].approver,
           id \in Legacy => moved[id] = NoOne /\ moved'[id] # NoOne /\ moved'[id].user = d.user
    PROVE  Grows /\ Written /\ RowInv'
<1>1. /\ row[a] = NoOne /\ row'[a] # NoOne
      /\ row'[a] = [status |-> "requested", node |-> d.node, requester |-> d.user,
                    approver |-> d.approver, id |-> id, bases |-> d.bases, grant |-> g]
      /\ events'[a] = <<[id |-> id, actor |-> d.user, action |-> "requested",
                         input |-> <<d.node, d.approver, d.bases>>]>>
      /\ \A b \in Approvals \ {a} : row'[b] = row[b] /\ events'[b] = events[b]
      /\ told \subseteq told' /\ <<a, "requested", d.approver>> \in told'
      /\ Written
  BY Saved DEF Inv
<1>2. Grows
  BY <1>1 DEF Grows, Exists
<1>3. Backed(d.bases, row') /\ \A b : Backed(b, row) => Backed(b, row')
  BY <1>2, BackedGrows DEF Asks
<1>4. RowsFit'
  <2>1. RowFits(a)'
    BY <1>1, <1>3 DEF RowFits, Asks
  <2>2. ASSUME NEW b \in Approvals \ {a}, Exists(b) PROVE RowFits(b)'
    <3>1. RowFits(b)
      BY <2>2 DEF Inv, RowInv, RowsFit
    <3>2. Exceptions(row[b])' = Exceptions(row[b])
      BY <1>1 DEF Exceptions
    <3> QED
      BY <1>1, <1>3, <3>1, <3>2 DEF RowFits
  <2>3. ASSUME NEW b \in Approvals \ {a}, ~Exists(b) PROVE ~Exists(b)' /\ events'[b] = <<>>
    BY <1>1, <2>3 DEF Inv, RowInv, RowsFit, Exists
  <2>4. ASSUME NEW b \in Approvals \ {a}, Exists(b)' PROVE Exists(b)
    BY <1>1, <2>4 DEF Exists
  <2> QED
    BY <1>1, <2>1, <2>2, <2>3, <2>4 DEF RowsFit, Exists
<1>5. MovesFit'
  <2>1. \A b \in Approvals : Exists(b) /\ row[b].id \in Legacy => moved[row[b].id] # NoOne
    BY DEF Inv, RowInv, RowsFit, RowFits
  <2>2. ASSUME NEW b \in Approvals, NEW c \in Approvals, row'[b] # NoOne, row'[c] # NoOne,
               row'[b].id = row'[c].id, row'[b].id \in Legacy
        PROVE  b = c
    BY <1>1, <2>1, <2>2 DEF Inv, RowInv, MovesFit, Exists
  <2>3. ASSUME NEW l \in Legacy, moved'[l] # NoOne
        PROVE  /\ judged'[l] = <<>> /\ moved'[l].user # moved'[l].approver
               /\ \E b \in Approvals : row'[b] # NoOne /\ row'[b].id = l
    <3>1. CASE moved[l] = NoOne
      BY <1>1, <2>3, <3>1
    <3>2. CASE moved[l] # NoOne
      BY <1>1, <3>2 DEF Inv, RowInv, MovesFit, Exists
    <3> QED
      BY <3>1, <3>2
  <2> QED
    BY <2>2, <2>3 DEF MovesFit, Exists
<1>6. HistoryMatchesRow'
  <2>1. ASSUME NEW b \in Approvals \ {a}, row'[b] # NoOne
        PROVE  /\ Len(events'[b]) = IF row'[b].status = "requested" THEN 1 ELSE 2
               /\ events'[b][1].action = "requested"
               /\ events'[b][1].actor = row'[b].requester
               /\ row'[b].status # "requested" =>
                     /\ events'[b][2].action = row'[b].status
                     /\ row'[b].status = "cancelled" \/ events'[b][2].actor = row'[b].approver
                     /\ events'[b][2].id # events'[b][1].id
    BY <1>1, <2>1 DEF Inv, RowInv, HistoryMatchesRow, Exists, Open
  <2>2. /\ Len(events'[a]) = 1 /\ row'[a].status = "requested"
        /\ events'[a][1].action = "requested" /\ events'[a][1].actor = row'[a].requester
    BY <1>1
  <2> QED
    BY <2>1, <2>2 DEF HistoryMatchesRow, Exists, Open
<1>7. OneOpenRequest'
  BY <1>1 DEF Inv, RowInv, OneOpenRequest, Asks, Exists, Open
<1>8. NobodyIsLeftOut'
  BY <1>1 DEF Inv, RowInv, NobodyIsLeftOut, Exists, Open
<1> QED
  BY <1>1, <1>2, <1>4, <1>5, <1>6, <1>7, <1>8 DEF RowInv

\* A judgement: of the designated person, or a cancellation.
LEMMA ConcludeKeeps ==
    ASSUME Inv, NEW a \in Approvals, Open(a), NEW actor \in Users \cup Guests,
           NEW id \in Ids, NEW word \in {"approve", "reject", "cancel"},
           Conclude(a, actor, id, word),
           word # "cancel" => actor = row[a].approver,
           \A i \in DOMAIN events[a] : events[a][i].id # id,
           UNCHANGED <<moved, judged>>
    PROVE  Grows /\ Written /\ RowInv'
<1> DEFINE s == StatusOf(row[a], word)
<1>1. Exists(a) /\ Len(events[a]) = 1 /\ events[a] \in Seq(EventType) /\ row[a] \in RowType
  BY DEF Inv, RowInv, HistoryMatchesRow, Open, Exists, TypeOK
<1>2. /\ row'[a] # NoOne /\ row'[a] = [row[a] EXCEPT !.status = s]
      /\ Len(events'[a]) = 2 /\ events'[a][1] = events[a][1]
      /\ events'[a][2] = [id |-> id, actor |-> actor, action |-> s, input |-> <<word>>]
      /\ \A b \in Approvals \ {a} : row'[b] = row[b] /\ events'[b] = events[b]
      /\ told \subseteq told'
      /\ \A u \in Users \ {actor} : u \in Recipients(row[a], s) => <<a, s, u>> \in told'
      /\ Written
  <2> HIDE DEF s
  <2>1. s = StatusOf(row[a], word)
    BY DEF s
  <2> QED
    BY <1>1, <2>1, Concluded DEF Inv
<1>3. /\ s \in Final /\ s # "requested"
      /\ s = "approved" => Exceptions(row[a]) = {}
      /\ s = "approved_with_exceptions" => Exceptions(row[a]) # {}
      /\ s = "cancelled" <=> word = "cancel"
  BY StatusIs DEF Final
<1> HIDE DEF s
<1>4. /\ row'[a].status = s /\ row'[a].node = row[a].node /\ row'[a].requester = row[a].requester
      /\ row'[a].approver = row[a].approver /\ row'[a].id = row[a].id
      /\ row'[a].bases = row[a].bases
  BY <1>1, <1>2 DEF RowType
<1>5. Grows
  BY <1>2, <1>4 DEF Grows, Exists, Open
<1>6. \A b : Backed(b, row) => Backed(b, row')
  BY <1>5, BackedGrows
<1>7. RowsFit'
  <2>1. RowFits(a)'
    <3>1. RowFits(a)
      BY <1>1 DEF Inv, RowInv, RowsFit
    <3>2. Exceptions(row[a])' = Exceptions(row[a])
      BY <1>4 DEF Exceptions
    <3> QED
      BY <1>2, <1>3, <1>4, <1>6, <3>1, <3>2 DEF RowFits
  <2>2. ASSUME NEW b \in Approvals \ {a}, Exists(b) PROVE RowFits(b)'
    <3>1. RowFits(b)
      BY <2>2 DEF Inv, RowInv, RowsFit
    <3>2. Exceptions(row[b])' = Exceptions(row[b])
      BY <1>2 DEF Exceptions
    <3> QED
      BY <1>2, <1>6, <3>1, <3>2 DEF RowFits
  <2>3. ASSUME NEW b \in Approvals \ {a}, ~Exists(b) PROVE ~Exists(b)' /\ events'[b] = <<>>
    BY <1>2, <2>3 DEF Inv, RowInv, RowsFit, Exists
  <2>4. ASSUME NEW b \in Approvals \ {a}, Exists(b)' PROVE Exists(b)
    BY <1>2, <2>4 DEF Exists
  <2> QED
    BY <1>2, <2>1, <2>2, <2>3, <2>4 DEF RowsFit, Exists
<1>8. MovesFit'
  <2>1. \A b \in Approvals : /\ row'[b] # NoOne <=> row[b] # NoOne
                             /\ row'[b].id = row[b].id
    BY <1>1, <1>2, <1>4 DEF Exists
  <2>2. UNCHANGED <<moved, judged>>
    OBVIOUS
  <2> HIDE DEF Conclude
  <2> QED
    BY <2>1, <2>2 DEF Inv, RowInv, MovesFit, Exists
<1>9. HistoryMatchesRow'
  <2>1. events[a][1].id # id
    BY <1>1
  <2>2. events[a][1].action = "requested" /\ events[a][1].actor = row[a].requester
    BY <1>1 DEF Inv, RowInv, HistoryMatchesRow
  <2>3. ASSUME NEW b \in Approvals \ {a}, row'[b] # NoOne
        PROVE  /\ Len(events'[b]) = IF row'[b].status = "requested" THEN 1 ELSE 2
               /\ events'[b][1].action = "requested"
               /\ events'[b][1].actor = row'[b].requester
               /\ row'[b].status # "requested" =>
                     /\ events'[b][2].action = row'[b].status
                     /\ row'[b].status = "cancelled" \/ events'[b][2].actor = row'[b].approver
                     /\ events'[b][2].id # events'[b][1].id
    BY <1>2, <2>3 DEF Inv, RowInv, HistoryMatchesRow, Exists, Open
  <2>4. /\ row'[a].status # "requested" /\ Len(events'[a]) = 2
        /\ events'[a][1].action = "requested" /\ events'[a][1].actor = row'[a].requester
        /\ events'[a][2].action = row'[a].status
        /\ row'[a].status = "cancelled" \/ events'[a][2].actor = row'[a].approver
        /\ events'[a][2].id # events'[a][1].id
    BY <1>2, <1>3, <1>4, <2>1, <2>2
  <2> QED
    BY <2>3, <2>4 DEF HistoryMatchesRow, Exists, Open
<1>10. OneOpenRequest'
  <2>1. ASSUME NEW b \in Approvals, Open(b)' PROVE b # a /\ Open(b) /\ row'[b] = row[b]
    BY <1>2, <1>3, <1>4, <2>1 DEF Exists, Open
  <2> QED
    BY <2>1 DEF Inv, RowInv, OneOpenRequest
<1>11. NobodyIsLeftOut'
  <2>1. row[a].requester \in Users /\ row[a].requester \in Recipients(row[a], s)
    BY <1>1, <1>3, RecipientsAre DEF RowType
  <2>2. s = "cancelled" => row[a].approver \in Recipients(row[a], s)
    BY RecipientsAre
  <2>3. <<a, "requested", row[a].approver>> \in told
    BY <1>1 DEF Inv, RowInv, NobodyIsLeftOut
  <2>4. /\ <<a, "requested", row'[a].approver>> \in told'
        /\ events'[a][2].actor # row'[a].requester =>
               <<a, row'[a].status, row'[a].requester>> \in told'
        /\ (/\ row'[a].status = "cancelled" /\ events'[a][2].actor # row'[a].approver
            /\ row'[a].approver \in Users)
           => <<a, "cancelled", row'[a].approver>> \in told'
    BY <1>2, <1>4, <2>1, <2>2, <2>3
  <2>5. ASSUME NEW b \in Approvals \ {a}, row'[b] # NoOne
        PROVE  /\ <<b, "requested", row'[b].approver>> \in told'
               /\ row'[b].status # "requested" /\ events'[b][2].actor # row'[b].requester =>
                     <<b, row'[b].status, row'[b].requester>> \in told'
               /\ (/\ row'[b].status = "cancelled" /\ events'[b][2].actor # row'[b].approver
                   /\ row'[b].approver \in Users)
                  => <<b, "cancelled", row'[b].approver>> \in told'
    BY <1>2, <2>5 DEF Inv, RowInv, NobodyIsLeftOut, Exists, Open
  <2> QED
    BY <2>4, <2>5 DEF NobodyIsLeftOut, Exists, Open
<1> QED
  BY <1>2, <1>5, <1>7, <1>8, <1>9, <1>10, <1>11 DEF RowInv

-----------------------------------------------------------------------------
(* The invariant.                                                           *)

\* Nothing is requested at the start and no call is under way.
LEMMA InvInit == Init => Inv
  BY GrantsAssumption DEF Init, Ended, Inv, TypeOK, CallsFit, RowInv, RowsFit, MovesFit, HistoryMatchesRow,
     OneOpenRequest, NobodyIsLeftOut, Exists, Open

\* What the parts of a step amount to.
LEMMA InvFrom ==
    ASSUME Inv, Written, CallsFit', RowInv',
           moved' \in [Legacy -> Switches \cup {NoOne}],
           judged' \in [Legacy -> Seq({"approve", "reject"})],
           grant' \in [Guests -> 0..MaxGrants], live' \in SUBSET Guests
    PROVE  Inv'
<1>1. \A c \in Calls : /\ calls'[c].stage \in {"sent", "read", "ended"}
                       /\ calls'[c].stage # "ended" => calls'[c].attempt \in 0..2
  BY DEF CallsFit, WorkFits
<1>2. TypeOK'
  BY <1>1 DEF TypeOK, Written
<1> QED
  BY <1>2 DEF Inv

\* Nothing is written.
LEMMA NothingWritten ==
    ASSUME Inv, UNCHANGED <<row, events, moved, judged, told>>
    PROVE  Grows /\ Written /\ RowInv'
<1>1. Grows /\ Written
  BY DEF Grows, Written, Inv, TypeOK, Exists
<1>2. RowInv'
  BY DEF Inv, RowInv, RowsFit, RowFits, MovesFit, HistoryMatchesRow, OneOpenRequest,
     NobodyIsLeftOut, Exists, Open, Exceptions
<1> QED
  BY <1>1, <1>2

\* A call moves on and nothing is written.
LEMMA CallKeeps ==
    ASSUME Inv, NEW c \in Calls, NEW w, calls' = [calls EXCEPT ![c] = w], NoWrite,
           w.stage # "ended" => WorkFits(w, row)
    PROVE  Inv'
<1>1. Grows /\ Written /\ RowInv'
  BY NothingWritten DEF NoWrite
<1>2. CallsFit'
  BY <1>1, CallMoves, WorkGrows DEF Inv
<1> QED
  BY <1>1, <1>2, InvFrom DEF NoWrite, Inv, TypeOK

\* A call ends, or starts again, and nothing is written.
LEMMA AnswerKeeps ==
    ASSUME Inv, NEW c \in Calls, NEW answer, Answer(c, answer), NoWrite
    PROVE  Inv'
<1>1. Ended(answer).stage = "ended"
  BY DEF Ended
<1> QED
  BY <1>1, CallKeeps DEF Answer

\* A repeated operation is answered.
LEMMA ReplayKeeps ==
    ASSUME Inv, NEW c \in Calls, Replay(c), NoWrite
    PROVE  Inv'
  BY AnswerKeeps DEF Replay

\* A call starts again.
LEMMA RetryKeeps ==
    ASSUME Inv, NEW c \in Calls, calls[c].stage # "ended", Retry(c), NoWrite
    PROVE  Inv'
<1>1. CASE calls[c].attempt = 2
  BY <1>1, AnswerKeeps DEF Retry
<1>2. CASE calls[c].attempt # 2
  <2> DEFINE w == [stage |-> "sent", data |-> calls[c].data, attempt |-> calls[c].attempt + 1]
  <2>1. calls' = [calls EXCEPT ![c] = w]
    BY <1>2 DEF Retry
  <2>2. WorkFits(w, row)
    BY <1>2 DEF Inv, CallsFit, WorkFits
  <2> HIDE DEF w
  <2> QED
    BY <2>1, <2>2, CallKeeps
<1> QED
  BY <1>1, <1>2

\* A snapshot is taken: what the call will act upon was true in it.
LEMMA LookKeeps ==
    ASSUME Inv, NEW c \in Calls, calls[c].stage # "ended", NEW view, Look(c, view), NoWrite,
           calls[c].data.kind = "create" => Backed(calls[c].data.bases, row),
           calls[c].data.kind = "switch" /\ view.holds => Backed(calls[c].data.bases, row)
    PROVE  Inv'
<1> DEFINE w == [stage |-> "read", data |-> calls[c].data, attempt |-> calls[c].attempt,
                 view |-> view]
<1>1. calls' = [calls EXCEPT ![c] = w]
  BY DEF Look
<1>2. WorkFits(w, row)
  BY DEF Inv, CallsFit, WorkFits
<1> HIDE DEF w
<1> QED
  BY <1>1, <1>2, CallKeeps

\* What a call under way carries.
LEMMA CallData ==
    ASSUME Inv, NEW c \in Calls, calls[c].stage # "ended"
    PROVE  /\ WorkFits(calls[c], row)
           /\ calls[c].data \in Requests \cup Switches \cup Decisions \cup OldDecisions
           /\ calls[c].data.kind \in {"create", "switch"} =>
                 calls[c].data.user # calls[c].data.approver
  BY DEF Inv, CallsFit, WorkFits

-----------------------------------------------------------------------------
(* The actions.                                                             *)

\* A body that is sent, or sent again.
LEMMA KeepsSubmit ==
    ASSUME Inv, NEW c \in Calls, Submit(c)
    PROVE  Inv'
<1>1. PICK d \in Requests \cup Switches \cup Decisions \cup OldDecisions :
          /\ Seen(d) \/ Recorded(d) \/ \E o \in InFlight : calls[o].data = d
          /\ calls' = [calls EXCEPT ![c] = [stage |-> "sent", data |-> d, attempt |-> 0]]
  BY DEF Submit
<1>2. /\ d.kind \in {"create", "switch"} => d.user # d.approver
      /\ d.kind \in {"decide", "cancel"} => Exists(d.approval)
  <2>1. CASE Seen(d)
    <3>1. d.kind \in {"create", "switch"} => d.user # d.approver
      BY <2>1, Zenon DEF Seen
    <3>2. ASSUME d.kind \in {"decide", "cancel"} PROVE Exists(d.approval)
      <4>1. d.kind \notin {"create", "switch"}
        BY <3>2
      <4> QED
        BY <2>1, <3>2, <4>1, Zenon DEF Seen
    <3> QED
      BY <3>1, <3>2
  <2>2. CASE Recorded(d)
    BY <2>2, RecordedBodies
  <2>3. CASE \E o \in InFlight : calls[o].data = d
    <3>1. PICK o \in Calls : calls[o].stage # "ended" /\ calls[o].data = d
      BY <2>3 DEF InFlight
    <3> QED
      BY <3>1, CallData DEF WorkFits, Exists
  <2> QED
    BY <1>1, <2>1, <2>2, <2>3
<1> DEFINE w == [stage |-> "sent", data |-> d, attempt |-> 0]
<1>3. WorkFits(w, row)
  BY <1>2 DEF WorkFits, Exists
<1>4. NoWrite
  BY DEF Submit, NoWrite
<1> HIDE DEF w
<1>5. calls' = [calls EXCEPT ![c] = w]
  BY <1>1 DEF w
<1> QED
  BY <1>3, <1>4, <1>5, CallKeeps

\* A snapshot is taken, of each kind of call.
LEMMA KeepsRead ==
    ASSUME Inv, NEW c \in Calls, Read(c)
    PROVE  Inv'
<1> DEFINE d == calls[c].data
<1>1. NoWrite /\ calls[c].stage # "ended"
  BY DEF Read
<1>2. /\ d \in Requests \cup Switches \cup Decisions \cup OldDecisions
      /\ d.kind \in {"create", "switch"} => d.node \in Nodes
  BY <1>1, CallData, BodyShape
<1>3. CASE d.kind = "create" /\ ReadCreate(c, d)
  <2>1. CASE Replay(c)
    BY <1>1, <2>1, ReplayKeeps
  <2>2. CASE Answer(c, "refused")
    BY <1>1, <2>2, AnswerKeeps
  <2>3. CASE BasesHold(d.node, d.bases, Approvals) /\ Look(c, NoOne)
    <3>1. Backed(d.bases, row)
      BY <1>2, <1>3, <2>3, BasesAreBacked
    <3> QED
      BY <1>1, <1>3, <2>3, <3>1, LookKeeps
  <2> QED
    BY <1>3, <2>1, <2>2, <2>3 DEF ReadCreate
<1>4. CASE d.kind = "switch" /\ ReadSwitch(c, d)
  <2> DEFINE v == [judged |-> Len(judged[d.legacy]), moved |-> moved[d.legacy] # NoOne,
                   holds |-> BasesHold(d.node, d.bases, Approvals)]
  <2>1. CASE Replay(c)
    BY <1>1, <2>1, ReplayKeeps
  <2>2. CASE Look(c, v)
    <3>1. v.holds => Backed(d.bases, row)
      BY <1>2, <1>4, BasesAreBacked
    <3> HIDE DEF v
    <3> QED
      BY <1>1, <1>4, <2>2, <3>1, LookKeeps
  <2> QED
    BY <1>4, <2>1, <2>2 DEF ReadSwitch
<1>5. CASE d.kind \in {"decide", "cancel"} /\ ReadDecision(c, d)
  BY <1>1, <1>5, LookKeeps DEF ReadDecision
<1>6. CASE d.kind = "old" /\ ReadOld(c, d)
  BY <1>1, <1>6, LookKeeps, AnswerKeeps DEF ReadOld
<1> QED
  BY <1>3, <1>4, <1>5, <1>6 DEF Read

\* A call ends without a trace.
LEMMA KeepsRefuse ==
    ASSUME Inv, NEW c \in Calls, Refuse(c)
    PROVE  Inv'
  BY AnswerKeeps DEF Refuse

\* A call that has written ends.
LEMMA DoneKeeps ==
    ASSUME Inv, NEW c \in Calls, NEW answer, Answer(c, answer), Grows, Written, RowInv',
           moved' \in [Legacy -> Switches \cup {NoOne}],
           judged' \in [Legacy -> Seq({"approve", "reject"})],
           UNCHANGED <<grant, live>>
    PROVE  Inv'
<1>1. Ended(answer).stage = "ended"
  BY DEF Ended
<1>2. CallsFit'
  BY <1>1, CallMoves DEF Inv, Answer
<1> QED
  BY <1>2, InvFrom DEF Inv, TypeOK

\* A creation answers, starts again, or saves one request.
LEMMA InsertWrites ==
    ASSUME Inv, NEW c \in Calls, Insert(c)
    PROVE  \/ \E x : Answer(c, x) /\ NoWrite
           \/ Retry(c) /\ NoWrite
           \/ \E a \in Approvals :
                 LET d == calls[c].data IN
                 /\ Save(a, d, d.id, 0) /\ Asks(d, d.id, 0) /\ d.id \notin Legacy
                 /\ Answer(c, "done") /\ UNCHANGED <<moved, judged, grant, live>>
<1> DEFINE d == calls[c].data
<1>1. calls[c].stage = "read" /\ d.kind = "create"
  BY DEF Insert
<1>2. ASSUME NEW a \in Approvals, Collision(d) = "none", Save(a, d, d.id, 0),
             Answer(c, "done"), UNCHANGED <<moved, judged, grant, live>>
      PROVE  Asks(d, d.id, 0) /\ d.id \notin Legacy
  <2>1. /\ d \in Requests \cup Switches \cup Decisions \cup OldDecisions
        /\ d.user # d.approver /\ Backed(d.bases, row)
    BY <1>1, CallData DEF WorkFits
  <2>2. /\ d.user \in Users /\ d.id \in Ids /\ d.node \in Nodes
        /\ d.approver \in Users /\ d.bases \in AnyBases
    BY <1>1, <2>1, BodyShape
  <2> QED
    BY <1>1, <1>2, <2>1, <2>2, NoCollision, NamesAssumption, GrantsAssumption DEF Asks
<1> QED
  BY <1>2, Zenon DEF Insert

\* A creation.
LEMMA KeepsInsert ==
    ASSUME Inv, NEW c \in Calls, Insert(c)
    PROVE  Inv'
<1> DEFINE d == calls[c].data
<1>1. CASE Retry(c) /\ NoWrite
  BY <1>1, RetryKeeps DEF Insert
<1>2. CASE \E x : Answer(c, x) /\ NoWrite
  BY <1>2, AnswerKeeps
<1>3. ASSUME NEW a \in Approvals, Save(a, d, d.id, 0), Asks(d, d.id, 0), d.id \notin Legacy,
             Answer(c, "done"), UNCHANGED <<moved, judged, grant, live>>
      PROVE  Inv'
  <2>1. Grows /\ Written /\ RowInv'
    BY <1>3, SaveKeeps
  <2> QED
    BY <1>3, <2>1, DoneKeeps DEF Inv, TypeOK
<1> QED
  BY <1>1, <1>2, <1>3, InsertWrites

\* Whoever judges a request through the internal way.
LEMMA JudgeWrites ==
    ASSUME Inv, NEW c \in Calls, Judge(c)
    PROVE  \/ \E x : Answer(c, x) /\ NoWrite
           \/ Retry(c) /\ NoWrite
           \/ LET d == calls[c].data IN
              /\ d.kind \in {"decide", "cancel"} /\ d.approval \in Approvals
              /\ ~OfGuest(d.approval) /\ Open(d.approval)
              /\ d.user \in Users /\ d.id \in Ids /\ d.word \in {"approve", "reject", "cancel"}
              /\ d.word # "cancel" => d.user = row[d.approval].approver
              /\ \A i \in DOMAIN events[d.approval] : events[d.approval][i].id # d.id
              /\ Conclude(d.approval, d.user, d.id, d.word)
              /\ Answer(c, "done") /\ UNCHANGED <<moved, judged, grant, live>>
<1> DEFINE d == calls[c].data
           v == calls[c].view
           h == v[2]
<1>1. calls[c].stage = "read" /\ d.kind \in {"decide", "cancel"}
  BY DEF Judge
<1>2. CASE (Answer(c, "refused") \/ Answer(c, "stale") \/ Replay(c)) /\ NoWrite
  BY <1>2 DEF Replay
<1>3. CASE Retry(c) /\ NoWrite
  BY <1>3
<1>4. CASE /\ ~Changed(d.approval, v) /\ ~OfGuest(d.approval) /\ Entitled(d, v[1])
           /\ ~(\E i \in DOMAIN h : h[i].id = d.id) /\ v[1].status = "requested"
           /\ Conclude(d.approval, d.user, d.id, d.word)
           /\ Answer(c, "done") /\ UNCHANGED <<moved, judged, grant, live>>
  <2>1. /\ d \in Requests \cup Switches \cup Decisions \cup OldDecisions
        /\ row[d.approval] # NoOne
    BY <1>1, CallData DEF WorkFits
  <2>2. /\ d.user \in Users /\ d.id \in Ids /\ d.approval \in Approvals
        /\ d.word \in {"approve", "reject", "cancel"} /\ (d.kind = "cancel" <=> d.word = "cancel")
    BY <1>1, <2>1, BodyShape
  <2>3. v = <<row[d.approval], events[d.approval]>>
    BY <1>4 DEF Changed
  <2>4. v[1] = row[d.approval] /\ h = events[d.approval]
    BY <2>3
  <2>5. Open(d.approval) /\ (d.word # "cancel" => d.user = row[d.approval].approver)
    BY <1>1, <1>4, <2>1, <2>2, <2>4 DEF Open, Exists, Entitled
  <2>6. \A i \in DOMAIN events[d.approval] : events[d.approval][i].id # d.id
    BY <1>4, <2>4
  <2> HIDE DEF v, h
  <2> QED
    BY <1>1, <1>4, <2>2, <2>5, <2>6
<1> QED
  BY <1>2, <1>3, <1>4, Zenon DEF Judge

\* A decision or a cancellation.
LEMMA KeepsJudge ==
    ASSUME Inv, NEW c \in Calls, Judge(c)
    PROVE  Inv'
<1> DEFINE d == calls[c].data
<1>1. calls[c].stage # "ended"
  BY DEF Judge
<1>2. CASE \E x : Answer(c, x) /\ NoWrite
  BY <1>2, AnswerKeeps
<1>3. CASE Retry(c) /\ NoWrite
  BY <1>1, <1>3, RetryKeeps
<1>4. CASE /\ d.kind \in {"decide", "cancel"} /\ d.approval \in Approvals
           /\ ~OfGuest(d.approval) /\ Open(d.approval)
           /\ d.user \in Users /\ d.id \in Ids /\ d.word \in {"approve", "reject", "cancel"}
           /\ d.word # "cancel" => d.user = row[d.approval].approver
           /\ \A i \in DOMAIN events[d.approval] : events[d.approval][i].id # d.id
           /\ Conclude(d.approval, d.user, d.id, d.word)
           /\ Answer(c, "done") /\ UNCHANGED <<moved, judged, grant, live>>
  <2>1. Grows /\ Written /\ RowInv'
    BY <1>4, ConcludeKeeps
  <2> QED
    BY <1>4, <2>1, DoneKeeps DEF Inv, TypeOK
<1> QED
  BY <1>2, <1>3, <1>4, JudgeWrites

\* A switch answers, starts again, or saves one request to which the old one moves.
LEMMA SwitchWrites ==
    ASSUME Inv, NEW c \in Calls, Switch(c)
    PROVE  \/ \E x : Answer(c, x) /\ NoWrite
           \/ Retry(c) /\ NoWrite
           \/ \E a \in Approvals :
                 LET d == calls[c].data
                     l == d.legacy IN
                 /\ l \in Legacy /\ d \in Switches /\ d # NoOne /\ d.user # d.approver
                 /\ moved[l] = NoOne /\ judged[l] = <<>>
                 /\ Save(a, d, l, 0) /\ Asks(d, l, 0)
                 /\ moved' = [moved EXCEPT ![l] = d]
                 /\ Answer(c, "done") /\ UNCHANGED <<judged, grant, live>>
<1> DEFINE d == calls[c].data
           v == calls[c].view
           l == d.legacy
<1>1. calls[c].stage = "read" /\ d.kind = "switch"
  BY DEF Switch
<1>2. ASSUME NEW a \in Approvals, Len(judged[l]) = v.judged, v.judged = 0, v.holds,
             moved[l] = NoOne, Collision([d EXCEPT !.id = l]) = "none"
      PROVE  /\ l \in Legacy /\ d \in Switches /\ d # NoOne /\ d.user # d.approver
             /\ judged[l] = <<>> /\ Asks(d, l, 0)
  <2>1. /\ d \in Requests \cup Switches \cup Decisions \cup OldDecisions
        /\ d.user # d.approver /\ Backed(d.bases, row)
    BY <1>1, <1>2, CallData DEF WorkFits
  <2>2. /\ d.user \in Users /\ d.node \in Nodes /\ d.approver \in Users /\ d.bases \in AnyBases
        /\ l \in Legacy /\ d \in Switches
    BY <1>1, <2>1, BodyShape
  <2>3. [d EXCEPT !.id = l].node = d.node
    BY <2>2 DEF Switches
  <2>4. \A b \in Approvals : ~(Open(b) /\ row[b].node = d.node)
    BY <1>2, <2>3, NoCollision
  <2>5. Asks(d, l, 0)
    BY <1>1, <2>1, <2>2, <2>4, NamesAssumption, GrantsAssumption DEF Asks
  <2>6. judged[l] \in Seq({"approve", "reject"}) /\ Len(judged[l]) = 0
    BY <1>2, <2>2 DEF Inv, TypeOK
  <2>7. judged[l] = <<>>
    BY <2>6
  <2>8. d # NoOne
    BY <2>2, NullAssumption
  <2> QED
    BY <2>1, <2>2, <2>5, <2>7, <2>8
<1> QED
  BY <1>2, Zenon DEF Switch

\* A switch of an old request.
LEMMA KeepsSwitch ==
    ASSUME Inv, NEW c \in Calls, Switch(c)
    PROVE  Inv'
<1> DEFINE d == calls[c].data
           l == d.legacy
<1>1. CASE Retry(c) /\ NoWrite
  BY <1>1, RetryKeeps DEF Switch
<1>2. CASE \E x : Answer(c, x) /\ NoWrite
  BY <1>2, AnswerKeeps
<1>3. ASSUME NEW a \in Approvals,
             l \in Legacy, d \in Switches, d # NoOne, d.user # d.approver,
             moved[l] = NoOne, judged[l] = <<>>, Save(a, d, l, 0), Asks(d, l, 0),
             moved' = [moved EXCEPT ![l] = d],
             Answer(c, "done"), UNCHANGED <<judged, grant, live>>
      PROVE  Inv'
  <2>1. /\ moved' \in [Legacy -> Switches \cup {NoOne}] /\ moved'[l] = d
        /\ \A k \in Legacy \ {l} : moved'[k] = moved[k]
    BY <1>3 DEF Inv, TypeOK
  <2> HIDE DEF d, l
  <2>2. Grows /\ Written /\ RowInv'
    BY <1>3, <2>1, SaveKeeps
  <2> QED
    BY <1>3, <2>1, <2>2, DoneKeeps DEF Inv, TypeOK
<1> QED
  BY <1>1, <1>2, <1>3, SwitchWrites

\* A decision written on an old row.
LEMMA KeepsOldWrite ==
    ASSUME Inv, NEW c \in Calls, OldWrite(c)
    PROVE  Inv'
<1> DEFINE d == calls[c].data
<1>1. calls[c].stage = "read" /\ d.kind = "old"
  BY DEF OldWrite
<1>2. CASE Answer(c, "migrated") /\ NoWrite
  BY <1>2, AnswerKeeps
<1>3. CASE /\ moved[d.legacy] = NoOne
           /\ judged' = [judged EXCEPT ![d.legacy] = Append(judged[d.legacy], d.word)]
           /\ Answer(c, "done") /\ UNCHANGED <<row, events, moved, grant, live, told>>
  <2>1. d.legacy \in Legacy /\ d.word \in {"approve", "reject"}
    BY <1>1, CallData, BodyShape
  <2>2. judged[d.legacy] \in Seq({"approve", "reject"})
    BY <2>1 DEF Inv, TypeOK
  <2> HIDE DEF d
  <2>3. judged' \in [Legacy -> Seq({"approve", "reject"})]
    BY <1>3, <2>1, <2>2 DEF Inv, TypeOK
  <2>4. \A l \in Legacy : moved[l] # NoOne => judged'[l] = judged[l]
    BY <1>3, <2>1 DEF Inv, TypeOK
  <2>5. Grows /\ Written
    BY <1>3 DEF Grows, Written, Inv, TypeOK, Exists
  <2>6. RowsFit' /\ HistoryMatchesRow' /\ OneOpenRequest' /\ NobodyIsLeftOut'
    BY <1>3 DEF Inv, RowInv, RowsFit, RowFits, HistoryMatchesRow, OneOpenRequest,
       NobodyIsLeftOut, Exists, Open, Exceptions
  <2>7. MovesFit'
    BY <1>3, <2>4 DEF Inv, RowInv, MovesFit, Exists
  <2> QED
    BY <1>3, <2>3, <2>5, <2>6, <2>7, DoneKeeps DEF RowInv, Inv, TypeOK
<1> QED
  BY <1>2, <1>3 DEF OldWrite, Writable

\* A request to an outside person saves one request under that person's grant.
LEMMA GuestCreateWrites ==
    ASSUME Inv, GuestCreate
    PROVE  \E a \in Approvals, i \in Ids, g \in 0..MaxGrants : \E d :
               /\ Save(a, d, i, g) /\ Asks(d, i, g)
               /\ UNCHANGED <<moved, judged, grant, live, calls>>
<1>1. PICK u \in Users, i \in Ids, n \in Nodes, g \in live, b \in AnyBases, a \in Approvals :
          LET d == [kind |-> "create", user |-> u, id |-> i, node |-> n, approver |-> g,
                    bases |-> b, legacy |-> NoOne]
          IN  /\ Collision(d) = "none"
              /\ BasesHold(n, b, OutsidePool)
              /\ Save(a, d, i, grant[g])
              /\ UNCHANGED <<moved, judged, grant, live, calls>>
  BY Zenon DEF GuestCreate
<1> DEFINE d == [kind |-> "create", user |-> u, id |-> i, node |-> n, approver |-> g,
                 bases |-> b, legacy |-> NoOne]
<1>2. g \in Guests /\ grant[g] \in 0..MaxGrants
  BY DEF Inv, TypeOK
<1>3. Backed(b, row)
  <2>1. OutsidePool \in SUBSET Approvals
    BY DEF OutsidePool
  <2> QED
    BY <1>1, <2>1, BasesAreBacked
<1>4. /\ d.kind = "create" /\ d.user = u /\ d.node = n /\ d.approver = g /\ d.bases = b
  OBVIOUS
<1>5. Collision(d) = "none" /\ Save(a, d, i, grant[g])
  BY <1>1
<1> HIDE DEF d
<1>6. Asks(d, i, grant[g])
  BY <1>2, <1>3, <1>4, <1>5, NoCollision, NamesAssumption DEF Asks
<1> QED
  BY <1>1, <1>2, <1>5, <1>6

\* A request to an outside person.
LEMMA KeepsGuestCreate ==
    ASSUME Inv, GuestCreate
    PROVE  Inv'
<1>1. PICK a \in Approvals, i \in Ids, g \in 0..MaxGrants : \E d :
          /\ Save(a, d, i, g) /\ Asks(d, i, g)
          /\ UNCHANGED <<moved, judged, grant, live, calls>>
  BY GuestCreateWrites
<1>2. i \notin Legacy
  BY NamesAssumption
<1>3. Grows /\ Written /\ RowInv'
  BY <1>1, <1>2, SaveKeeps
<1>4. CallsFit'
  BY <1>1, <1>3, CallsStay DEF Inv
<1> QED
  BY <1>1, <1>3, <1>4, InvFrom DEF Inv, TypeOK

\* An outside person's decision.
LEMMA KeepsGuestDecide ==
    ASSUME Inv, GuestDecide
    PROVE  Inv'
<1>1. PICK a \in Approvals, i \in Ids, v \in {"approve", "reject"} :
          /\ Open(a) /\ OfGuest(a) /\ HasAccess(row[a]) /\ Unrepeated(a, i)
          /\ Conclude(a, row[a].approver, i, v)
          /\ UNCHANGED <<moved, judged, grant, live, calls>>
  BY DEF GuestDecide
<1>2. row[a].approver \in Users \cup Guests
  BY <1>1 DEF OfGuest
<1>3. Grows /\ Written /\ RowInv'
  BY <1>1, <1>2, ConcludeKeeps DEF Unrepeated
<1>4. CallsFit'
  BY <1>1, <1>3, CallsStay DEF Inv
<1> QED
  BY <1>1, <1>3, <1>4, InvFrom DEF Inv, TypeOK

\* A cancelled request to an outside person.
LEMMA KeepsGuestCancel ==
    ASSUME Inv, GuestCancel
    PROVE  Inv'
<1>1. PICK a \in Approvals, i \in Ids, u \in Users :
          /\ Open(a) /\ OfGuest(a) /\ Unrepeated(a, i)
          /\ Conclude(a, u, i, "cancel")
          /\ UNCHANGED <<moved, judged, grant, live, calls>>
  BY DEF GuestCancel
<1>2. Grows /\ Written /\ RowInv'
  BY <1>1, ConcludeKeeps DEF Unrepeated
<1>3. CallsFit'
  BY <1>1, <1>2, CallsStay DEF Inv
<1> QED
  BY <1>1, <1>2, <1>3, InvFrom DEF Inv, TypeOK

\* A grant begins or lapses: no request hears of it.
LEMMA KeepsGrants ==
    ASSUME Inv, NEW g \in Guests, Grant(g) \/ Lapse(g)
    PROVE  Inv'
<1>1. UNCHANGED <<row, events, moved, judged, told, calls>>
  BY DEF Grant, Lapse
<1>2. Grows /\ Written /\ RowInv'
  BY <1>1, NothingWritten
<1>3. CallsFit'
  BY <1>1, <1>2, CallsStay DEF Inv
<1>4. live' \in SUBSET Guests
  BY DEF Inv, TypeOK, Grant, Lapse
<1>5. grant' \in [Guests -> 0..MaxGrants]
  <2>1. grant \in [Guests -> 0..MaxGrants]
    BY DEF Inv, TypeOK
  <2>2. CASE Grant(g)
    <3>1. grant[g] + 1 \in 0..MaxGrants
      BY <2>1, <2>2, GrantsAssumption DEF Grant
    <3> QED
      BY <2>1, <2>2, <3>1 DEF Grant
  <2>3. CASE Lapse(g)
    BY <2>1, <2>3 DEF Lapse
  <2> QED
    BY <2>2, <2>3
<1> QED
  BY <1>1, <1>2, <1>3, <1>4, <1>5, InvFrom DEF Inv, TypeOK

\* Every step keeps the invariant.
LEMMA InvStep == Inv /\ [Next]_vars => Inv'
<1> SUFFICES ASSUME Inv, [Next]_vars PROVE Inv'
  OBVIOUS
<1>1. CASE UNCHANGED vars
  <2>1. UNCHANGED <<row, events, moved, judged, grant, live, told, calls>>
    BY <1>1 DEF vars
  <2>2. Grows /\ Written /\ RowInv'
    BY <2>1, NothingWritten
  <2>3. CallsFit'
    BY <2>1, <2>2, CallsStay DEF Inv
  <2> QED
    BY <2>1, <2>2, <2>3, InvFrom DEF Inv, TypeOK
<1>2. ASSUME NEW c \in Calls,
             \/ Submit(c) \/ Read(c) \/ Refuse(c)
             \/ Insert(c) \/ Judge(c) \/ Switch(c) \/ OldWrite(c)
      PROVE  Inv'
  BY <1>2, KeepsSubmit, KeepsRead, KeepsRefuse, KeepsInsert, KeepsJudge, KeepsSwitch, KeepsOldWrite
<1>3. CASE GuestCreate \/ GuestDecide \/ GuestCancel
  BY <1>3, KeepsGuestCreate, KeepsGuestDecide, KeepsGuestCancel
<1>4. ASSUME NEW g \in Guests, Grant(g) \/ Lapse(g) PROVE Inv'
  BY <1>4, KeepsGrants
<1> QED
  BY <1>1, <1>2, <1>3, <1>4 DEF Next

\* The invariant holds, for any calls, people, documents and old requests.
THEOREM InvHolds == Spec => []Inv
  BY InvInit, InvStep, PTL DEF Spec

-----------------------------------------------------------------------------
(* Safety.                                                                  *)

\* The rows of requests, events, grants, notices and old requests keep their types.
THEOREM FixedApprovalTyped == Spec => []TypeOK
  BY InvHolds, PTL DEF Inv

\* A request's row and its events tell the same story, whatever calls raced.
THEOREM HistoryMatches == Spec => []HistoryMatchesRow
<1>1. Inv => HistoryMatchesRow
  BY DEF Inv, RowInv
<1> QED
  BY <1>1, InvHolds, PTL

\* A node has one open request at most; a switched request has one successor and is
\* not judged itself.
THEOREM OneRequest == Spec => []OneRequestEach
<1>1. Inv => OneRequestEach
  <2> SUFFICES ASSUME Inv PROVE OneRequestEach
    OBVIOUS
  <2>1. OneOpenRequest
    BY DEF Inv, RowInv
  <2>2. ASSUME NEW l \in Legacy, moved[l] # NoOne
        PROVE  /\ judged[l] = <<>>
               /\ \E a \in Approvals : /\ Exists(a) /\ row[a].id = l
                                       /\ row[a].requester = moved[l].user
                                       /\ \A b \in Approvals : Exists(b) /\ row[b].id = l => b = a
    <3>1. PICK a \in Approvals : Exists(a) /\ row[a].id = l
      BY <2>2 DEF Inv, RowInv, MovesFit
    <3>2. row[a].requester = moved[l].user
      BY <3>1 DEF Inv, RowInv, RowsFit, RowFits
    <3>3. \A b \in Approvals : Exists(b) /\ row[b].id = l => b = a
      BY <3>1 DEF Inv, RowInv, MovesFit
    <3>4. judged[l] = <<>>
      BY <2>2 DEF Inv, RowInv, MovesFit
    <3> QED
      BY <3>1, <3>2, <3>3, <3>4
  <2> QED
    BY <2>1, <2>2 DEF OneRequestEach, SwitchFreezesLegacy
<1> QED
  BY <1>1, InvHolds, PTL

\* What a document's approval rests on are finished approvals of those very texts.
THEOREM AgreementsAreBacked == Spec => []AgreementIsBacked
<1>1. Inv => AgreementIsBacked
  <2> SUFFICES ASSUME Inv, NEW a \in Approvals, Exists(a)
               PROVE  /\ \A s \in DOMAIN row[a].bases \ Exceptions(row[a]) :
                            LET b == row[a].bases[s]
                            IN  /\ Exists(b) /\ row[b].status = "approved"
                                /\ Subject[row[b].node] = s
                                /\ events[b][2].action = "approved"
                      /\ row[a].status = "approved" => Exceptions(row[a]) = {}
                      /\ row[a].status = "approved_with_exceptions" => Exceptions(row[a]) # {}
    BY DEF AgreementIsBacked
  <2>1. RowFits(a)
    BY DEF Inv, RowInv, RowsFit
  <2>2. ASSUME NEW s \in DOMAIN row[a].bases \ Exceptions(row[a])
        PROVE  LET b == row[a].bases[s]
               IN  /\ Exists(b) /\ row[b].status = "approved" /\ Subject[row[b].node] = s
                   /\ events[b][2].action = "approved"
    <3> DEFINE b == row[a].bases[s]
    <3>1. b # NoOne
      BY DEF Exceptions
    <3>2. /\ b \in Approvals /\ Exists(b)
          /\ row[b].status = "approved" /\ Subject[row[b].node] = s
      BY <2>1, <3>1 DEF RowFits, Backed, Exists
    <3>3. events[b][2].action = "approved"
      BY <3>2 DEF Inv, RowInv, HistoryMatchesRow, Open
    <3> QED
      BY <3>2, <3>3
  <2> QED
    BY <2>1, <2>2 DEF RowFits
<1> QED
  BY <1>1, InvHolds, PTL

\* Whoever waits for a request or for its outcome has been told.
THEOREM EverybodyIsTold == Spec => []NobodyIsLeftOut
<1>1. Inv => NobodyIsLeftOut
  BY DEF Inv, RowInv
<1> QED
  BY <1>1, InvHolds, PTL

-----------------------------------------------------------------------------
(* What a step can do to one request.                                       *)

\* A request appears.
AsksFor(a) ==
    /\ row[a] = NoOne /\ row'[a] # NoOne /\ row'[a].status = "requested"
    /\ \A b \in Approvals \ {a} : row'[b] = row[b] /\ events'[b] = events[b]

\* A request is settled; a guest's decision is made under its grant.
Settles(a) ==
    /\ Open(a) /\ row'[a] # NoOne /\ row'[a].status \in Final
    /\ row'[a].requester = row[a].requester /\ row'[a].id = row[a].id
    /\ \A b \in Approvals \ {a} : row'[b] = row[b] /\ events'[b] = events[b]
    /\ OfGuest(a) /\ row'[a].status # "cancelled" => HasAccess(row[a])
    /\ UNCHANGED <<moved, judged>>

StepIs ==
    \/ \E a \in Approvals : AsksFor(a) /\ UNCHANGED <<moved, judged>>
    \/ \E a \in Approvals, l \in Legacy :
          /\ AsksFor(a) /\ moved[l] = NoOne /\ judged[l] = <<>> /\ UNCHANGED judged
          /\ moved'[l] # NoOne /\ \A k \in Legacy \ {l} : moved'[k] = moved[k]
    \/ \E a \in Approvals : Settles(a)
    \/ \E l \in Legacy : /\ moved[l] = NoOne /\ judged'[l] # <<>> /\ UNCHANGED <<row, events, moved>>
                         /\ \A k \in Legacy \ {l} : judged'[k] = judged[k]
    \/ UNCHANGED <<row, events, moved, judged>>

\* A judgement settles one request.
LEMMA ConcludeSettles ==
    ASSUME Inv, NEW a \in Approvals, NEW actor \in Users \cup Guests, NEW id \in Ids,
           NEW word \in {"approve", "reject", "cancel"}, Open(a),
           Conclude(a, actor, id, word), UNCHANGED <<moved, judged>>,
           OfGuest(a) => word = "cancel" \/ HasAccess(row[a])
    PROVE  Settles(a)
<1> DEFINE s == StatusOf(row[a], word)
<1>1. Exists(a) /\ Len(events[a]) = 1 /\ row[a] \in RowType
  BY DEF Inv, RowInv, HistoryMatchesRow, Open, Exists, TypeOK
<1>2. s \in Final /\ (s = "cancelled" <=> word = "cancel")
  BY StatusIs
<1>3. row' = [row EXCEPT ![a].status = s]
      /\ \E e : events' = [events EXCEPT ![a] = e]
  BY DEF Conclude
<1> HIDE DEF s
<1>4. /\ row'[a] = [row[a] EXCEPT !.status = s]
      /\ \A b \in Approvals \ {a} : row'[b] = row[b] /\ events'[b] = events[b]
  BY <1>3 DEF Inv, TypeOK
<1>5. /\ row'[a] \in RowType /\ row'[a].status = s
      /\ row'[a].requester = row[a].requester /\ row'[a].id = row[a].id
  BY <1>1, <1>2, <1>4 DEF RowType
<1>6. row'[a] # NoOne
  BY <1>5, NullAssumption
<1> QED
  BY <1>2, <1>4, <1>5, <1>6 DEF Settles

\* Every step of the system is of one of these five kinds.
LEMMA StepShape == Inv /\ [Next]_vars => StepIs
<1> SUFFICES ASSUME Inv, [Next]_vars PROVE StepIs
  OBVIOUS
<1>1. ASSUME UNCHANGED <<row, events, moved, judged>> PROVE StepIs
  BY <1>1 DEF StepIs
<1>2. ASSUME NoWrite PROVE StepIs
  BY <1>1, <1>2 DEF NoWrite
<1>3. ASSUME NEW a \in Approvals, NEW d, NEW id, NEW g, Save(a, d, id, g), Asks(d, id, g)
      PROVE  AsksFor(a)
  <2>1. /\ row[a] = NoOne /\ row'[a] # NoOne
        /\ row'[a] = [status |-> "requested", node |-> d.node, requester |-> d.user,
                      approver |-> d.approver, id |-> id, bases |-> d.bases, grant |-> g]
        /\ \A b \in Approvals \ {a} : row'[b] = row[b] /\ events'[b] = events[b]
    BY <1>3, Saved DEF Inv
  <2> QED
    BY <2>1 DEF AsksFor
<1>4. ASSUME NEW a \in Approvals, NEW actor \in Users \cup Guests, NEW id \in Ids,
             NEW word \in {"approve", "reject", "cancel"}, Open(a),
             Conclude(a, actor, id, word), UNCHANGED <<moved, judged>>,
             OfGuest(a) => word = "cancel" \/ HasAccess(row[a])
      PROVE  StepIs
  BY <1>4, ConcludeSettles DEF StepIs
<1>5. CASE UNCHANGED vars
  BY <1>1, <1>5 DEF vars
<1>6. ASSUME NEW c \in Calls, Submit(c) \/ Read(c) \/ Refuse(c) PROVE StepIs
  BY <1>1, <1>2, <1>6 DEF Submit, Read, Refuse
<1>7. ASSUME NEW c \in Calls, Insert(c) PROVE StepIs
  BY <1>2, <1>3, <1>7, InsertWrites DEF StepIs
<1>8. ASSUME NEW c \in Calls, Judge(c) PROVE StepIs
  BY <1>2, <1>4, <1>8, JudgeWrites
<1>9. ASSUME NEW c \in Calls, Switch(c) PROVE StepIs
  <2> DEFINE d == calls[c].data
             l == d.legacy
  <2>1. ASSUME NEW a \in Approvals, l \in Legacy, d # NoOne, moved[l] = NoOne, judged[l] = <<>>,
               Save(a, d, l, 0), Asks(d, l, 0), moved' = [moved EXCEPT ![l] = d],
               UNCHANGED judged
        PROVE  StepIs
    <3>1. moved'[l] = d /\ \A k \in Legacy \ {l} : moved'[k] = moved[k]
      BY <2>1 DEF Inv, TypeOK
    <3>2. AsksFor(a)
      BY <1>3, <2>1
    <3> QED
      BY <2>1, <3>1, <3>2 DEF StepIs
  <2> QED
    BY <1>2, <1>9, <2>1, SwitchWrites
<1>10. ASSUME NEW c \in Calls, OldWrite(c) PROVE StepIs
  <2> DEFINE d == calls[c].data
  <2>1. CASE NoWrite
    BY <1>2, <2>1
  <2>2. CASE /\ moved[d.legacy] = NoOne
             /\ judged' = [judged EXCEPT ![d.legacy] = Append(judged[d.legacy], d.word)]
             /\ UNCHANGED <<row, events, moved>>
    <3>1. d.legacy \in Legacy /\ d.word \in {"approve", "reject"}
      BY <1>10, CallData, BodyShape DEF OldWrite
    <3> HIDE DEF d
    <3>2. judged[d.legacy] \in Seq({"approve", "reject"})
      BY <3>1 DEF Inv, TypeOK
    <3>3. Append(judged[d.legacy], d.word) # <<>>
      BY <3>1, <3>2
    <3>4. /\ judged'[d.legacy] # <<>>
          /\ \A k \in Legacy \ {d.legacy} : judged'[k] = judged[k]
      BY <2>2, <3>1, <3>3 DEF Inv, TypeOK
    <3> QED
      BY <2>2, <3>1, <3>4 DEF StepIs
  <2> QED
    BY <1>10, <2>1, <2>2 DEF OldWrite, Writable
<1>11. CASE GuestCreate
  BY <1>3, <1>11, GuestCreateWrites DEF StepIs
<1>12. CASE GuestDecide
  <2>1. PICK a \in Approvals, i \in Ids, v \in {"approve", "reject"} :
            /\ Open(a) /\ OfGuest(a) /\ HasAccess(row[a])
            /\ Conclude(a, row[a].approver, i, v) /\ UNCHANGED <<moved, judged>>
    BY <1>12 DEF GuestDecide
  <2>2. row[a].approver \in Users \cup Guests
    BY <2>1 DEF OfGuest
  <2> QED
    BY <1>4, <2>1, <2>2
<1>13. CASE GuestCancel
  BY <1>4, <1>13 DEF GuestCancel
<1>14. ASSUME NEW g \in Guests, Grant(g) \/ Lapse(g) PROVE StepIs
  BY <1>1, <1>14 DEF Grant, Lapse
<1> QED
  BY <1>5, <1>6, <1>7, <1>8, <1>9, <1>10, <1>11, <1>12, <1>13, <1>14 DEF Next

\* An outside person decides under the very grant the request was made under.
THEOREM GuestsDecideWithAccess == Spec => GuestDecisionHasAccess
<1>1. Inv /\ [Next]_vars =>
        [\A a \in Approvals :
            (/\ Open(a) /\ OfGuest(a)
             /\ row'[a].status \in Final \ {"cancelled"})
            => row[a].approver \in live /\ row[a].grant = grant[row[a].approver]]_vars
  <2> SUFFICES ASSUME Inv, [Next]_vars, NEW a \in Approvals, Open(a), OfGuest(a),
                      row'[a].status \in Final \ {"cancelled"}
               PROVE  HasAccess(row[a])
    BY DEF HasAccess
  <2>1. row[a] # NoOne /\ row[a].status \notin Final
    BY DEF Open, Exists, Final
  <2>2. StepIs
    BY StepShape
  <2> QED
    BY <2>1, <2>2 DEF StepIs, AsksFor, Settles
<1> QED
  BY <1>1, InvHolds, PTL DEF Spec, GuestDecisionHasAccess

-----------------------------------------------------------------------------
(* FixedApproval implements FixedJudgement.                                 *)

\* What became of an old request, for the provers.
OldIs(m, j) == IF m # NoOne THEN "moved" ELSE IF j # <<>> THEN "decided" ELSE "open"

OldIsShown == OldNow = [l \in Legacy |-> OldIs(moved[l], judged[l])]

\* The state of an old request by its two columns.
LEMMA OldShown == OldIsShown
<1> DEFINE f(l) == CASE moved[l] # NoOne  -> "moved"
                     [] moved[l] = NoOne /\ judged[l] # <<>> -> "decided"
                     [] moved[l] = NoOne /\ judged[l] = <<>> -> "open"
<1>1. OldNow = [l \in Legacy |-> f(l)]
  BY Zenon DEF OldNow
<1>2. ASSUME NEW l \in Legacy PROVE f(l) = OldIs(moved[l], judged[l])
  <2>1. /\ moved[l] # NoOne => f(l) = "moved"
        /\ moved[l] = NoOne /\ judged[l] # <<>> => f(l) = "decided"
        /\ moved[l] = NoOne /\ judged[l] = <<>> => f(l) = "open"
    BY Zenon
  <2> HIDE DEF f
  <2> QED
    BY <2>1 DEF OldIs
<1> HIDE DEF f
<1> QED
  BY <1>1, <1>2 DEF OldIsShown

\* In the next state, too.
LEMMA OldShownNext == OldIsShown'
  BY OldShown, PTL

\* Nothing asked, nothing settled.
LEMMA JudgementInit == Init => Judgement!Init
<1> SUFFICES ASSUME Init PROVE Judgement!Init
  OBVIOUS
<1>1. StandingNow = [a \in Approvals |-> "absent"]
  BY DEF Init, StandingNow, Exists
<1>2. OldNow = [l \in Legacy |-> "open"]
  BY OldShown DEF Init, OldIsShown, OldIs
<1> QED
  BY <1>1, <1>2 DEF Judgement!Init

\* A request that appears is asked.
LEMMA Asking ==
    ASSUME NEW a \in Approvals, AsksFor(a)
    PROVE  Judgement!Asked(a)
<1>1. StandingNow[a] = "absent"
  BY DEF AsksFor, StandingNow, Exists
<1>2. StandingNow' = [StandingNow EXCEPT ![a] = "requested"]
  BY DEF AsksFor, StandingNow, Exists
<1> QED
  BY <1>1, <1>2 DEF Judgement!Asked

\* Every step is one of the promise, or none.
LEMMA JudgementStep == Inv /\ [Next]_vars => [Judgement!Next]_<<StandingNow, OldNow>>
<1> SUFFICES ASSUME StepIs PROVE [Judgement!Next]_<<StandingNow, OldNow>>
  BY StepShape
<1>0. /\ OldNow = [l \in Legacy |-> OldIs(moved[l], judged[l])]
      /\ OldNow' = [l \in Legacy |-> OldIs(moved'[l], judged'[l])]
  BY OldShown, OldShownNext DEF OldIsShown
<1>1. ASSUME UNCHANGED <<moved, judged>> PROVE UNCHANGED OldNow
  BY <1>0, <1>1
<1>2. ASSUME UNCHANGED row PROVE UNCHANGED StandingNow
  BY <1>2 DEF StandingNow, Exists
<1>3. ASSUME NEW a \in Approvals, AsksFor(a), UNCHANGED <<moved, judged>>
      PROVE  Judgement!Next
  BY <1>1, <1>3, Asking DEF Judgement!Next, Judgement!Ask
<1>4. ASSUME NEW a \in Approvals, NEW l \in Legacy,
             AsksFor(a), moved[l] = NoOne, judged[l] = <<>>, UNCHANGED judged,
             moved'[l] # NoOne, \A k \in Legacy \ {l} : moved'[k] = moved[k]
      PROVE  Judgement!Next
  <2>1. OldNow[l] = "open" /\ OldNow' = [OldNow EXCEPT ![l] = "moved"]
    BY <1>0, <1>4 DEF OldIs
  <2>2. Judgement!Move(l, a)
    BY <1>4, <2>1, Asking DEF Judgement!Move
  <2> QED
    BY <2>2 DEF Judgement!Next
<1>5. ASSUME NEW a \in Approvals, Settles(a)
      PROVE  Judgement!Next
  <2>1. UNCHANGED OldNow
    BY <1>1, <1>5 DEF Settles
  <2>2. /\ StandingNow[a] = "requested"
        /\ StandingNow' = [StandingNow EXCEPT ![a] = row'[a].status]
    BY <1>5 DEF Settles, StandingNow, Exists, Open
  <2>3. row'[a].status \in Judgement!Settled
    BY <1>5 DEF Settles, Final, Judgement!Settled
  <2>4. Judgement!Settle(a, row'[a].status)
    BY <2>1, <2>2 DEF Judgement!Settle
  <2> QED
    BY <2>3, <2>4 DEF Judgement!Next
<1>6. ASSUME NEW l \in Legacy, moved[l] = NoOne, judged'[l] # <<>>, UNCHANGED <<row, events, moved>>,
             \A k \in Legacy \ {l} : judged'[k] = judged[k]
      PROVE  Judgement!Next \/ UNCHANGED <<StandingNow, OldNow>>
  <2>1. UNCHANGED StandingNow
    BY <1>2, <1>6
  <2>2. CASE judged[l] = <<>>
    <3>1. OldNow[l] = "open" /\ OldNow' = [OldNow EXCEPT ![l] = "decided"]
      BY <1>0, <1>6, <2>2 DEF OldIs
    <3>2. Judgement!Decide(l)
      BY <2>1, <3>1 DEF Judgement!Decide
    <3> QED
      BY <3>2 DEF Judgement!Next
  <2>3. CASE judged[l] # <<>>
    <3>1. \A k \in Legacy : OldIs(moved'[k], judged'[k]) = OldIs(moved[k], judged[k])
      BY <1>6, <2>3 DEF OldIs
    <3>2. UNCHANGED OldNow
      BY <1>0, <3>1
    <3> QED
      BY <2>1, <3>2
  <2> QED
    BY <2>2, <2>3
<1>7. CASE UNCHANGED <<row, events, moved, judged>>
  BY <1>1, <1>2, <1>7
<1> QED
  BY <1>3, <1>4, <1>5, <1>6, <1>7 DEF StepIs

\* Every request takes one judgement and keeps it; an old request is decided in place
\* or moves to one new request, never both.
THEOREM JudgementKept == Spec => KeepsJudgement
  BY InvHolds, JudgementInit, JudgementStep, PTL DEF Spec, KeepsJudgement, Judgement!Spec, Judgement!vars

-----------------------------------------------------------------------------
(* Repeated calls.  A call remembers why its last attempt failed.           *)

OpenIn(a, rows) == rows[a] # NoOne /\ rows[a].status = "requested"

TakenIn(d, rows) ==
    \E a \in Approvals : rows[a] # NoOne /\ rows[a].requester = d.user /\ rows[a].id = d.id

\* A creation starts again when its operation id is taken, a decision when its request
\* was settled by another.
RemembersRequest(w, rows, hist) ==
    /\ w.data.kind = "create" =>
          /\ w.attempt < 2
          /\ w.attempt = 1 => w.stage = "sent" /\ TakenIn(w.data, rows)
    /\ w.data.kind \in {"decide", "cancel"} =>
          /\ w.attempt < 2
          /\ w.attempt = 1 => ~OpenIn(w.data.approval, rows)
          /\ w.stage = "read" /\ <<rows[w.data.approval], hist[w.data.approval]>> # w.view =>
                w.attempt = 0 /\ ~OpenIn(w.data.approval, rows)

\* A switch starts again when the old request has moved or has been decided; when it
\* starts for the third time it has been decided.
RemembersSwitch(w, mv, jd) ==
    w.data.kind = "switch" =>
        LET l == w.data.legacy IN
        /\ w.attempt = 1 => mv[l] # NoOne \/ jd[l] # <<>>
        /\ w.attempt = 2 => jd[l] # <<>>
        /\ w.stage = "read" /\ jd[l] = <<>> => w.view.judged = 0
        /\ w.stage = "read" /\ w.view.moved => mv[l] # NoOne /\ mv[l] # w.data
        /\ w.stage = "read" /\ w.attempt = 1 /\ mv[l] # NoOne => w.view.moved /\ w.view.judged = 0

Remembers(w, rows, hist, mv, jd) ==
    /\ RemembersRequest(w, rows, hist) /\ RemembersSwitch(w, mv, jd)
    /\ w.data.kind = "old" => w.attempt = 0

CallsRemember ==
    \A c \in Calls : calls[c].stage # "ended" => Remembers(calls[c], row, events, moved, judged)

\* What no step takes back: who made a request, an outcome, a move, a decision on an old row.
Lasts ==
    /\ \A a \in Approvals : row[a] # NoOne =>
          /\ row'[a] # NoOne /\ row'[a].requester = row[a].requester /\ row'[a].id = row[a].id
          /\ \/ row'[a] = row[a] /\ events'[a] = events[a]
             \/ Open(a) /\ row'[a].status # "requested"
    /\ \A l \in Legacy : /\ moved[l] # NoOne => moved'[l] = moved[l]
                         /\ judged[l] # <<>> => judged'[l] # <<>> /\ moved'[l] = NoOne

\* Every step is of that kind.
LEMMA StepLasts == Inv /\ [Next]_vars => Lasts
<1> SUFFICES ASSUME Inv, StepIs PROVE Lasts
  BY StepShape
<1>1. \A l \in Legacy : judged[l] # <<>> => moved[l] = NoOne
  BY DEF Inv, RowInv, MovesFit
<1>2. ASSUME NEW a \in Approvals, AsksFor(a) PROVE
        \A b \in Approvals : row[b] # NoOne => row'[b] = row[b] /\ events'[b] = events[b]
  BY <1>2 DEF AsksFor
<1>3. ASSUME NEW a \in Approvals, AsksFor(a) /\ UNCHANGED <<moved, judged>> PROVE Lasts
  BY <1>1, <1>2, <1>3 DEF Lasts
<1>4. ASSUME NEW a \in Approvals, NEW l \in Legacy,
             AsksFor(a) /\ moved[l] = NoOne /\ judged[l] = <<>> /\ UNCHANGED judged,
             \A k \in Legacy \ {l} : moved'[k] = moved[k]
      PROVE  Lasts
  <2>1. \A k \in Legacy : moved[k] # NoOne \/ judged[k] # <<>> => moved'[k] = moved[k]
    BY <1>4
  <2> QED
    BY <1>1, <1>2, <1>4, <2>1 DEF Lasts
<1>5. ASSUME NEW a \in Approvals, Settles(a) PROVE Lasts
  <2>1. row'[a].status # "requested"
    BY <1>5 DEF Settles, Final
  <2> QED
    BY <1>1, <1>5, <2>1 DEF Settles, Lasts
<1>6. ASSUME NEW l \in Legacy, moved[l] = NoOne, judged'[l] # <<>>,
             UNCHANGED <<row, events, moved>>, \A k \in Legacy \ {l} : judged'[k] = judged[k]
      PROVE  Lasts
  <2>1. \A k \in Legacy : judged[k] # <<>> => judged'[k] # <<>>
    BY <1>6
  <2> QED
    BY <1>1, <1>6, <2>1 DEF Lasts
<1>7. CASE UNCHANGED <<row, events, moved, judged>>
  BY <1>1, <1>7 DEF Lasts
<1> QED
  BY <1>3, <1>4, <1>5, <1>6, <1>7 DEF StepIs

\* A call that does not move keeps what it remembers.
LEMMA MemoryLasts ==
    ASSUME Lasts, NEW w, WorkFits(w, row), Remembers(w, row, events, moved, judged)
    PROVE  Remembers(w, row', events', moved', judged')
<1>1. /\ w.data.kind \in {"decide", "cancel"} =>
            w.data.approval \in Approvals /\ row[w.data.approval] # NoOne
      /\ w.data.kind = "switch" => w.data.legacy \in Legacy
  BY BodyShape DEF WorkFits
<1>2. RemembersRequest(w, row', events')
  <2>1. TakenIn(w.data, row) => TakenIn(w.data, row')
    BY DEF Lasts, TakenIn
  <2>2. ASSUME w.data.kind \in {"decide", "cancel"}, ~OpenIn(w.data.approval, row)
        PROVE  row'[w.data.approval] = row[w.data.approval]
               /\ events'[w.data.approval] = events[w.data.approval]
    BY <1>1, <2>2 DEF Lasts, OpenIn, Open, Exists
  <2>3. ASSUME w.data.kind \in {"decide", "cancel"}, OpenIn(w.data.approval, row)
        PROVE  \/ row'[w.data.approval] = row[w.data.approval]
                  /\ events'[w.data.approval] = events[w.data.approval]
               \/ ~OpenIn(w.data.approval, row')
    BY <1>1, <2>3 DEF Lasts, OpenIn
  <2>4. w.data.kind = "create" =>
          /\ w.attempt < 2
          /\ w.attempt = 1 => w.stage = "sent" /\ TakenIn(w.data, row')
    BY <2>1 DEF Remembers, RemembersRequest
  <2>5. ASSUME w.data.kind \in {"decide", "cancel"}
        PROVE  /\ w.attempt < 2
               /\ w.attempt = 1 => ~OpenIn(w.data.approval, row')
               /\ w.stage = "read" /\ <<row'[w.data.approval], events'[w.data.approval]>> # w.view =>
                     w.attempt = 0 /\ ~OpenIn(w.data.approval, row')
    <3>1. CASE ~OpenIn(w.data.approval, row)
      BY <2>2, <2>5, <3>1 DEF Remembers, RemembersRequest, OpenIn
    <3>2. CASE OpenIn(w.data.approval, row)
      <4>1. w.attempt = 0
        BY <2>5, <3>2 DEF Remembers, RemembersRequest, WorkFits
      <4> QED
        BY <2>3, <2>5, <3>2, <4>1 DEF Remembers, RemembersRequest
    <3> QED
      BY <3>1, <3>2
  <2> QED
    BY <2>4, <2>5 DEF RemembersRequest
<1>3. RemembersSwitch(w, moved', judged')
  <2> SUFFICES ASSUME w.data.kind = "switch" PROVE RemembersSwitch(w, moved', judged')
    BY DEF RemembersSwitch
  <2> DEFINE l == w.data.legacy
  <2>1. l \in Legacy
    BY <1>1
  <2>2. /\ moved[l] # NoOne => moved'[l] = moved[l]
        /\ judged[l] # <<>> => judged'[l] # <<>> /\ moved'[l] = NoOne
    BY <2>1 DEF Lasts
  <2> QED
    BY <2>2 DEF Remembers, RemembersSwitch
<1> QED
  BY <1>2, <1>3 DEF Remembers

\* One call moves on, the others remember what they did.
LEMMA MemoryMoves ==
    ASSUME Inv, CallsRemember, Lasts, NEW c \in Calls, NEW w, calls' = [calls EXCEPT ![c] = w],
           w.stage # "ended" => Remembers(w, row', events', moved', judged')
    PROVE  CallsRemember'
<1>1. calls' = [k \in Calls |-> IF k = c THEN w ELSE calls[k]]
  BY DEF Inv, CallsFit
<1>2. ASSUME NEW k \in Calls, calls'[k].stage # "ended"
      PROVE  Remembers(calls'[k], row', events', moved', judged')
  <2>1. CASE k = c
    BY <1>1, <1>2, <2>1
  <2>2. CASE k # c
    <3>1. calls'[k] = calls[k] /\ WorkFits(calls[k], row)
      BY <1>1, <1>2, <2>2 DEF Inv, CallsFit
    <3> QED
      BY <1>2, <3>1, MemoryLasts DEF CallsRemember
  <2> QED
    BY <2>1, <2>2
<1> QED
  BY <1>2 DEF CallsRemember

\* No call moves.
LEMMA MemoryStays ==
    ASSUME Inv, CallsRemember, Lasts, UNCHANGED calls
    PROVE  CallsRemember'
<1>1. ASSUME NEW k \in Calls, calls[k].stage # "ended"
      PROVE  Remembers(calls[k], row', events', moved', judged')
  BY <1>1, MemoryLasts DEF Inv, CallsFit, CallsRemember
<1> QED
  BY <1>1 DEF CallsRemember

\* A call ends and has nothing to remember.
LEMMA MemoryEnds ==
    ASSUME Inv, CallsRemember, Lasts, NEW c \in Calls, NEW x, Answer(c, x)
    PROVE  CallsRemember'
  BY MemoryMoves DEF Answer, Ended

\* What the call at hand remembers.
LEMMA Memory ==
    ASSUME Inv, CallsRemember, NEW c \in Calls, calls[c].stage # "ended"
    PROVE  /\ Remembers(calls[c], row, events, moved, judged) /\ calls[c].attempt \in 0..2
           /\ calls[c].data \in Requests \cup Switches \cup Decisions \cup OldDecisions
  BY CallData DEF CallsRemember, WorkFits

\* A call that starts again.
Again(c) == [stage |-> "sent", data |-> calls[c].data, attempt |-> calls[c].attempt + 1]

\* A call starts again for a reason it remembers.
LEMMA MemoryRetry ==
    ASSUME Inv, CallsRemember, Lasts, NEW c \in Calls, Retry(c), NoWrite,
           calls[c].attempt # 2 => Remembers(Again(c), row, events, moved, judged)
    PROVE  CallsRemember'
<1>1. CASE calls[c].attempt = 2
  BY <1>1, MemoryEnds DEF Retry
<1>2. CASE calls[c].attempt # 2
  <2>1. calls' = [calls EXCEPT ![c] = Again(c)]
    BY <1>2 DEF Retry, Again
  <2>2. Remembers(Again(c), row', events', moved', judged')
    BY <1>2 DEF NoWrite
  <2> QED
    BY <2>1, <2>2, MemoryMoves
<1> QED
  BY <1>1, <1>2

\* Why each kind of call starts again.
LEMMA InsertAgain ==
    ASSUME Inv, CallsRemember, NEW c \in Calls, calls[c].stage = "read",
           calls[c].data.kind = "create", OperationTaken(calls[c].data)
    PROVE  calls[c].attempt = 0 /\ Remembers(Again(c), row, events, moved, judged)
<1>1. calls[c].attempt = 0
  BY Memory DEF Remembers, RemembersRequest
<1>2. TakenIn(calls[c].data, row)
  BY DEF OperationTaken, TakenIn, Exists
<1> QED
  BY <1>1, <1>2 DEF Again, Remembers, RemembersRequest, RemembersSwitch

\* A decision starts again: its request has been settled by another.
LEMMA JudgeAgain ==
    ASSUME Inv, CallsRemember, NEW c \in Calls, calls[c].stage = "read",
           calls[c].data.kind \in {"decide", "cancel"},
           Changed(calls[c].data.approval, calls[c].view)
    PROVE  calls[c].attempt = 0 /\ Remembers(Again(c), row, events, moved, judged)
<1>1. calls[c].attempt = 0 /\ ~OpenIn(calls[c].data.approval, row)
  BY Memory DEF Remembers, RemembersRequest, Changed
<1> QED
  BY <1>1 DEF Again, Remembers, RemembersRequest, RemembersSwitch

\* A switch starts again: its old request has moved or has been decided.
LEMMA SwitchAgain ==
    ASSUME Inv, CallsRemember, NEW c \in Calls, calls[c].stage = "read",
           calls[c].data.kind = "switch",
           LET l == calls[c].data.legacy
               v == calls[c].view
           IN  Len(judged[l]) # v.judged \/ (moved[l] # NoOne /\ ~v.moved)
    PROVE  /\ calls[c].attempt # 2 => Remembers(Again(c), row, events, moved, judged)
           /\ calls[c].attempt = 2 => moved[calls[c].data.legacy] = NoOne
<1> DEFINE l == calls[c].data.legacy
           v == calls[c].view
<1>1. l \in Legacy /\ calls[c].attempt \in 0..2
  BY Memory, BodyShape
<1>2. judged[l] # <<>> => moved[l] = NoOne
  BY <1>1 DEF Inv, RowInv, MovesFit
<1>3. /\ calls[c].attempt = 1 => moved[l] # NoOne \/ judged[l] # <<>>
      /\ calls[c].attempt = 2 => judged[l] # <<>>
      /\ judged[l] = <<>> => v.judged = 0
      /\ v.moved => moved[l] # NoOne
      /\ calls[c].attempt = 1 /\ moved[l] # NoOne => v.moved /\ v.judged = 0
  BY Memory DEF Remembers, RemembersSwitch
<1>4. judged[l] \in Seq({"approve", "reject"})
  BY <1>1 DEF Inv, TypeOK
<1>5. Len(judged[l]) # v.judged => judged[l] # <<>>
  BY <1>3, <1>4
<1>6. moved[l] # NoOne \/ judged[l] # <<>>
  BY <1>5
<1>7. calls[c].attempt = 1 => judged[l] # <<>>
  BY <1>3, <1>5
<1>8. calls[c].attempt # 2 => Remembers(Again(c), row, events, moved, judged)
  BY <1>1, <1>6, <1>7 DEF Again, Remembers, RemembersRequest, RemembersSwitch
<1> QED
  BY <1>2, <1>3, <1>8

\* A snapshot is remembered.
LEMMA MemoryLook ==
    ASSUME Inv, CallsRemember, Lasts, NEW c \in Calls, calls[c].stage = "sent", NEW view,
           Look(c, view), NoWrite,
           calls[c].data.kind = "create" => ~OperationTaken(calls[c].data),
           calls[c].data.kind \in {"decide", "cancel"} =>
               view = <<row[calls[c].data.approval], events[calls[c].data.approval]>>,
           calls[c].data.kind = "switch" =>
               LET l == calls[c].data.legacy IN
               /\ view.judged = Len(judged[l]) /\ view.moved = (moved[l] # NoOne)
               /\ moved[l] # calls[c].data
    PROVE  CallsRemember'
<1> DEFINE w == [stage |-> "read", data |-> calls[c].data, attempt |-> calls[c].attempt,
                 view |-> view]
           d == calls[c].data
<1>1. calls' = [calls EXCEPT ![c] = w]
  BY DEF Look
<1>2. Remembers(calls[c], row, events, moved, judged)
  BY Memory
<1>3. RemembersRequest(w, row, events)
  <2>1. d.kind = "create" => calls[c].attempt < 2 /\ calls[c].attempt # 1
    BY <1>2 DEF Remembers, RemembersRequest, OperationTaken, TakenIn, Exists
  <2>2. d.kind \in {"decide", "cancel"} =>
          /\ calls[c].attempt < 2 /\ (calls[c].attempt = 1 => ~OpenIn(d.approval, row))
          /\ <<row[d.approval], events[d.approval]>> = view
    BY <1>2 DEF Remembers, RemembersRequest
  <2> QED
    BY <2>1, <2>2 DEF RemembersRequest
<1>4. RemembersSwitch(w, moved, judged)
  <2> SUFFICES ASSUME d.kind = "switch" PROVE RemembersSwitch(w, moved, judged)
    BY DEF RemembersSwitch
  <2> DEFINE l == d.legacy
  <2>1. l \in Legacy
    BY Memory, BodyShape
  <2>2. judged[l] \in Seq({"approve", "reject"}) /\ (judged[l] # <<>> => moved[l] = NoOne)
    BY <2>1 DEF Inv, TypeOK, RowInv, MovesFit
  <2>3. judged[l] = <<>> => Len(judged[l]) = 0
    BY <2>2
  <2>4. /\ calls[c].attempt = 1 => moved[l] # NoOne \/ judged[l] # <<>>
        /\ calls[c].attempt = 2 => judged[l] # <<>>
    BY <1>2 DEF Remembers, RemembersSwitch
  <2> QED
    BY <2>2, <2>3, <2>4 DEF RemembersSwitch
<1>5. Remembers(w, row', events', moved', judged')
  BY <1>2, <1>3, <1>4 DEF Remembers, NoWrite
<1> HIDE DEF w
<1> QED
  BY <1>1, <1>5, MemoryMoves

\* A snapshot of each kind.
LEMMA RememberRead ==
    ASSUME Inv, CallsRemember, Lasts, NEW c \in Calls, Read(c)
    PROVE  CallsRemember'
<1> DEFINE d == calls[c].data
<1>1. NoWrite /\ calls[c].stage = "sent"
  BY DEF Read
<1>2. ASSUME Replay(c) PROVE CallsRemember'
  BY <1>2, MemoryEnds DEF Replay
<1>3. ASSUME Answer(c, "refused") PROVE CallsRemember'
  BY <1>3, MemoryEnds
<1>4. CASE d.kind = "create" /\ ReadCreate(c, d)
  BY <1>1, <1>2, <1>3, <1>4, MemoryLook DEF ReadCreate
<1>5. CASE d.kind = "switch" /\ ReadSwitch(c, d)
  <2> DEFINE v == [judged |-> Len(judged[d.legacy]), moved |-> moved[d.legacy] # NoOne,
                   holds |-> BasesHold(d.node, d.bases, Approvals)]
  <2>1. d \in Switches /\ d.legacy \in Legacy
    BY <1>1, <1>5, Memory, BodyShape
  <2>2. CASE Look(c, v) /\ ~\E l \in Legacy : moved[l] # NoOne /\ moved[l].user = d.user /\ moved[l].id = d.id
    <3>1. moved[d.legacy] # d
      BY <2>1, <2>2, NullAssumption
    <3>2. v.judged = Len(judged[d.legacy]) /\ v.moved = (moved[d.legacy] # NoOne)
      OBVIOUS
    <3> HIDE DEF v
    <3> QED
      BY <1>1, <1>5, <2>2, <3>1, <3>2, MemoryLook
  <2> QED
    BY <1>2, <1>5, <2>2 DEF ReadSwitch
<1>6. CASE d.kind \in {"decide", "cancel"} /\ ReadDecision(c, d)
  BY <1>1, <1>6, MemoryLook DEF ReadDecision
<1>7. CASE d.kind = "old" /\ ReadOld(c, d)
  BY <1>1, <1>3, <1>7, MemoryLook DEF ReadOld
<1> QED
  BY <1>4, <1>5, <1>6, <1>7 DEF Read

\* A new call has nothing to remember.
LEMMA RememberSubmit ==
    ASSUME Inv, CallsRemember, Lasts, NEW c \in Calls, Submit(c)
    PROVE  CallsRemember'
<1>1. PICK d : calls' = [calls EXCEPT ![c] = [stage |-> "sent", data |-> d, attempt |-> 0]]
  BY DEF Submit
<1> DEFINE w == [stage |-> "sent", data |-> d, attempt |-> 0]
<1>2. Remembers(w, row', events', moved', judged')
  BY DEF Remembers, RemembersRequest, RemembersSwitch
<1>3. calls' = [calls EXCEPT ![c] = w]
  BY <1>1
<1> HIDE DEF w
<1> QED
  BY <1>2, <1>3, MemoryMoves

\* A creation that meets a taken id.
LEMMA RememberInsert ==
    ASSUME Inv, CallsRemember, Lasts, NEW c \in Calls, Insert(c)
    PROVE  CallsRemember'
<1>1. CASE Collision(calls[c].data) = "operation" /\ Retry(c) /\ NoWrite
  <2>1. OperationTaken(calls[c].data)
    BY <1>1 DEF Collision
  <2> QED
    BY <1>1, <2>1, InsertAgain, MemoryRetry DEF Insert
<1>2. CASE \E x : Answer(c, x)
  BY <1>2, MemoryEnds
<1> QED
  BY <1>1, <1>2, Zenon DEF Insert

\* A decision whose request has changed.
LEMMA RememberJudge ==
    ASSUME Inv, CallsRemember, Lasts, NEW c \in Calls, Judge(c)
    PROVE  CallsRemember'
<1>1. CASE Changed(calls[c].data.approval, calls[c].view) /\ Retry(c) /\ NoWrite
  BY <1>1, JudgeAgain, MemoryRetry DEF Judge
<1>2. CASE \E x : Answer(c, x)
  BY <1>2, MemoryEnds
<1>3. CASE Replay(c)
  BY <1>3, MemoryEnds DEF Replay
<1> QED
  BY <1>1, <1>2, <1>3, Zenon DEF Judge

\* A switch whose old request has changed.
LEMMA RememberSwitch ==
    ASSUME Inv, CallsRemember, Lasts, NEW c \in Calls, Switch(c)
    PROVE  CallsRemember'
<1> DEFINE l == calls[c].data.legacy
           v == calls[c].view
<1>1. CASE (Len(judged[l]) # v.judged \/ (moved[l] # NoOne /\ ~v.moved)) /\ Retry(c) /\ NoWrite
  BY <1>1, SwitchAgain, MemoryRetry DEF Switch
<1>2. CASE \E x : Answer(c, x)
  BY <1>2, MemoryEnds
<1> QED
  BY <1>1, <1>2, Zenon DEF Switch

\* The old way never starts again.
LEMMA RememberOldWrite ==
    ASSUME Inv, CallsRemember, Lasts, NEW c \in Calls, OldWrite(c)
    PROVE  CallsRemember'
  BY MemoryEnds DEF OldWrite

\* Every step keeps what calls remember.
LEMMA RememberStep == Inv /\ CallsRemember /\ [Next]_vars => CallsRemember'
<1> SUFFICES ASSUME Inv, CallsRemember, [Next]_vars PROVE CallsRemember'
  OBVIOUS
<1>1. Lasts
  BY StepLasts
<1>2. CASE UNCHANGED calls
  BY <1>1, <1>2, MemoryStays
<1>3. ASSUME NEW c \in Calls,
             \/ Submit(c) \/ Read(c) \/ Refuse(c)
             \/ Insert(c) \/ Judge(c) \/ Switch(c) \/ OldWrite(c)
      PROVE  CallsRemember'
  <2>1. CASE Refuse(c)
    BY <1>1, <2>1, MemoryEnds DEF Refuse
  <2> QED
    BY <1>1, <1>3, <2>1, RememberSubmit, RememberRead, RememberInsert, RememberJudge,
       RememberSwitch, RememberOldWrite
<1>4. CASE UNCHANGED vars
  BY <1>2, <1>4 DEF vars
<1>5. CASE GuestCreate \/ GuestDecide \/ GuestCancel \/ \E g \in Guests : Grant(g) \/ Lapse(g)
  <2>1. UNCHANGED calls
    BY <1>5, Zenon DEF GuestCreate, GuestDecide, GuestCancel, Grant, Lapse
  <2> QED
    BY <1>2, <2>1
<1> QED
  BY <1>3, <1>4, <1>5 DEF Next

\* No call is under way at the start.
LEMMA RememberInit == Init => CallsRemember
  BY DEF Init, Ended, CallsRemember

\* Calls under way always remember.
LEMMA MemoryHolds == Spec => [](Inv /\ CallsRemember)
<1>1. Init => Inv /\ CallsRemember
  BY InvInit, RememberInit
<1>2. (Inv /\ CallsRemember) /\ [Next]_vars => (Inv /\ CallsRemember)'
  BY InvStep, RememberStep
<1> QED
  BY <1>1, <1>2, PTL DEF Spec

-----------------------------------------------------------------------------
(* What a repeated call is told.                                            *)

Unheard == {"duplicate", "stale", "migrated", "exhausted"}

\* In a step in which call c ends, it is told what it ought to be.
IsHeard(c) ==
    calls[c].stage # "ended" /\ calls'[c].stage = "ended" /\ calls'[c].answer \in Unheard
    => ~Recorded(calls[c].data)

\* An answer ends one call.
LEMMA AnswerIs ==
    ASSUME Inv, NEW c \in Calls, NEW x, Answer(c, x)
    PROVE  /\ calls'[c].stage = "ended" /\ calls'[c].answer = x
           /\ \A k \in Calls \ {c} : calls'[k] = calls[k]
  BY DEF Inv, CallsFit, Answer, Ended

\* An answer that is due whether or not the operation took effect, or is true.
LEMMA HeardAnswer ==
    ASSUME Inv, NEW c \in Calls, NEW x, Answer(c, x),
           x \in Unheard => ~Recorded(calls[c].data)
    PROVE  IsHeard(c)
  BY AnswerIs DEF IsHeard

\* A repeated operation is told the truth.
LEMMA HeardReplay ==
    ASSUME Inv, NEW c \in Calls, Replay(c)
    PROVE  IsHeard(c)
<1>1. CASE Recorded(calls[c].data)
  BY <1>1, HeardAnswer DEF Replay, Unheard
<1>2. CASE ~Recorded(calls[c].data)
  BY <1>2, HeardAnswer DEF Replay
<1> QED
  BY <1>1, <1>2

\* A call that goes on is told nothing.
LEMMA HeardOpen ==
    ASSUME Inv, NEW c \in Calls, NEW w, calls' = [calls EXCEPT ![c] = w], w.stage # "ended"
    PROVE  IsHeard(c)
  BY DEF Inv, CallsFit, IsHeard

\* A call given up the third time.
LEMMA HeardRetry ==
    ASSUME Inv, NEW c \in Calls, Retry(c),
           calls[c].attempt = 2 => ~Recorded(calls[c].data)
    PROVE  IsHeard(c)
<1>1. CASE calls[c].attempt = 2
  BY <1>1, HeardAnswer DEF Retry
<1>2. CASE calls[c].attempt # 2
  <2>1. calls' = [calls EXCEPT ![c] = Again(c)] /\ Again(c).stage # "ended"
    BY <1>2 DEF Retry, Again
  <2> QED
    BY <2>1, HeardOpen
<1> QED
  BY <1>1, <1>2

\* A call that has read goes on.
LEMMA HeardLook ==
    ASSUME Inv, NEW c \in Calls, NEW view, Look(c, view)
    PROVE  IsHeard(c)
<1> DEFINE w == [stage |-> "read", data |-> calls[c].data, attempt |-> calls[c].attempt,
                 view |-> view]
<1>1. calls' = [calls EXCEPT ![c] = w] /\ w.stage # "ended"
  BY DEF Look
<1> HIDE DEF w
<1> QED
  BY <1>1, HeardOpen

\* What a call is told when it has read.
LEMMA HeardRead ==
    ASSUME Inv, NEW c \in Calls, Read(c)
    PROVE  IsHeard(c)
<1>1. ASSUME Answer(c, "refused") PROVE IsHeard(c)
  BY <1>1, HeardAnswer DEF Unheard
<1>2. CASE \E view : Look(c, view)
  BY <1>2, HeardLook
<1>3. CASE Replay(c)
  BY <1>3, HeardReplay
<1> QED
  BY <1>1, <1>2, <1>3, Zenon DEF Read, ReadCreate, ReadSwitch, ReadDecision, ReadOld

\* What a creation is told.
LEMMA HeardInsert ==
    ASSUME Inv, CallsRemember, NEW c \in Calls, Insert(c)
    PROVE  IsHeard(c)
<1> DEFINE d == calls[c].data
<1>1. calls[c].stage = "read" /\ d.kind = "create"
  BY DEF Insert
<1>2. CASE Collision(d) = "operation" /\ Retry(c)
  <2>1. calls[c].attempt = 0
    BY <1>1, <1>2, InsertAgain DEF Collision
  <2> QED
    BY <1>2, <2>1, HeardRetry
<1>3. CASE Collision(d) = "pending" /\ Answer(c, "duplicate")
  <2>1. ~OperationTaken(d)
    BY <1>3 DEF Collision
  <2>2. ~Recorded(d)
    BY <1>1, <2>1, Zenon DEF Recorded, OperationTaken
  <2> QED
    BY <1>3, <2>2, HeardAnswer
<1>4. CASE Answer(c, "done")
  BY <1>4, HeardAnswer DEF Unheard
<1> QED
  BY <1>2, <1>3, <1>4, Zenon DEF Insert

\* What a decision is told.
LEMMA HeardJudge ==
    ASSUME Inv, CallsRemember, NEW c \in Calls, Judge(c)
    PROVE  IsHeard(c)
<1> DEFINE d == calls[c].data
           v == calls[c].view
           h == v[2]
<1>1. calls[c].stage = "read" /\ d.kind \in {"decide", "cancel"}
  BY DEF Judge
<1>2. CASE Changed(d.approval, v) /\ Retry(c)
  <2>1. calls[c].attempt = 0
    BY <1>1, <1>2, JudgeAgain
  <2> QED
    BY <1>2, <2>1, HeardRetry
<1>3. CASE Answer(c, "refused") \/ Answer(c, "done")
  BY <1>3, HeardAnswer DEF Unheard
<1>4. CASE Replay(c)
  BY <1>4, HeardReplay
<1>5. CASE ~Changed(d.approval, v) /\ ~(\E i \in DOMAIN h : h[i].id = d.id) /\ Answer(c, "stale")
  <2>1. v = <<row[d.approval], events[d.approval]>>
    BY <1>5 DEF Changed
  <2>2. h = events[d.approval]
    BY <2>1
  <2>3. ~\E i \in DOMAIN events[d.approval] : events[d.approval][i].id = d.id
    BY <1>5, <2>2
  <2>4. d.kind # "create"
    BY <1>1
  <2> HIDE DEF d, h, v
  <2>5. ~Recorded(d)
    BY <1>1, <2>3, <2>4, Zenon DEF Recorded
  <2> QED
    BY <1>5, <2>5, HeardAnswer DEF d
<1> QED
  BY <1>2, <1>3, <1>4, <1>5, Zenon DEF Judge

\* What a switch is told.
LEMMA HeardSwitch ==
    ASSUME Inv, CallsRemember, NEW c \in Calls, Switch(c)
    PROVE  IsHeard(c)
<1> DEFINE d == calls[c].data
           v == calls[c].view
           l == d.legacy
<1>1. calls[c].stage = "read" /\ d.kind = "switch"
  BY DEF Switch
<1>2. d # NoOne
  BY <1>1, Memory, BodyShape, NullAssumption
<1>3. moved[l] # d => ~Recorded(d)
  <2>1. d.kind # "create" /\ d.kind \notin {"decide", "cancel"}
    BY <1>1
  <2> QED
    BY <1>1, <2>1, Zenon DEF Recorded
<1>4. CASE (Len(judged[l]) # v.judged \/ (moved[l] # NoOne /\ ~v.moved)) /\ Retry(c)
  <2>1. calls[c].attempt = 2 => moved[l] = NoOne
    BY <1>1, <1>4, SwitchAgain
  <2> QED
    BY <1>2, <1>3, <1>4, <2>1, HeardRetry
<1>5. CASE v.moved /\ Answer(c, "migrated")
  <2>1. moved[l] # d
    BY <1>1, <1>5, Memory DEF Remembers, RemembersSwitch
  <2> QED
    BY <1>3, <1>5, <2>1, HeardAnswer
<1>6. CASE Answer(c, "refused") \/ Answer(c, "done")
  BY <1>6, HeardAnswer DEF Unheard
<1>7. CASE moved[l] = NoOne /\ Answer(c, "duplicate")
  BY <1>2, <1>3, <1>7, HeardAnswer
<1> QED
  BY <1>4, <1>5, <1>6, <1>7, Zenon DEF Switch

\* What a decision in the old way is told.
LEMMA HeardOldWrite ==
    ASSUME Inv, NEW c \in Calls, OldWrite(c)
    PROVE  IsHeard(c)
<1>1. calls[c].data.kind = "old"
  BY DEF OldWrite
<1>2. ~Recorded(calls[c].data)
  <2>1. calls[c].data.kind \notin {"create", "decide", "cancel", "switch"}
    BY <1>1
  <2>2. /\ calls[c].data.kind # "create" /\ calls[c].data.kind \notin {"decide", "cancel"}
        /\ calls[c].data.kind # "switch"
    BY <2>1
  <2> QED
    BY <1>1, <2>2, Zenon DEF Recorded
<1> QED
  BY <1>2, HeardAnswer DEF OldWrite

\* Whoever repeats an operation that took effect is told so, and nobody is given up
\* because others were busy.
THEOREM RepeatsHeard == Spec => RepeatsAreHeard
<1>1. Inv /\ CallsRemember => RetrySuffices
  <2> SUFFICES ASSUME Inv, CallsRemember, NEW c \in Calls, calls[c].stage # "ended",
                      calls[c].data.kind # "switch"
               PROVE  calls[c].attempt < 2
    BY DEF RetrySuffices
  <2> QED
    BY Memory, BodyShape DEF Remembers, RemembersRequest
<1>2. (Inv /\ CallsRemember) /\ [Next]_vars =>
        [\A c \in Calls :
            (/\ calls[c].stage # "ended" /\ calls'[c].stage = "ended"
             /\ calls'[c].answer \in {"duplicate", "stale", "migrated", "exhausted"})
            => ~Recorded(calls[c].data)]_vars
  <2> SUFFICES ASSUME Inv, CallsRemember, [Next]_vars, NEW k \in Calls PROVE IsHeard(k)
    BY DEF IsHeard, Unheard
  <2>1. ASSUME calls'[k] = calls[k] PROVE IsHeard(k)
    BY <2>1 DEF IsHeard
  <2>2. ASSUME NEW c \in Calls,
               \/ Submit(c) \/ Read(c) \/ Refuse(c)
               \/ Insert(c) \/ Judge(c) \/ Switch(c) \/ OldWrite(c)
        PROVE  IsHeard(k)
    <3>1. CASE k = c
      <4>1. CASE Submit(c)
        BY <2>1, <3>1, <4>1 DEF Submit, IsHeard
      <4>2. CASE Refuse(c)
        BY <3>1, <4>2, HeardAnswer DEF Refuse, Unheard
      <4> QED
        BY <2>2, <3>1, <4>1, <4>2, HeardRead, HeardInsert, HeardJudge, HeardSwitch, HeardOldWrite
    <3>2. CASE k # c
      <4>1. \E w : calls' = [calls EXCEPT ![c] = w]
        BY <2>2, Zenon DEF Submit, Read, Refuse, Insert, Judge, Switch, OldWrite, ReadCreate,
           ReadSwitch, ReadDecision, ReadOld, Replay, Retry, Look, Answer
      <4>2. calls'[k] = calls[k]
        BY <3>2, <4>1 DEF Inv, CallsFit
      <4> QED
        BY <2>1, <4>2
    <3> QED
      BY <3>1, <3>2
  <2>3. CASE UNCHANGED vars
    BY <2>1, <2>3 DEF vars
  <2>4. CASE GuestCreate \/ GuestDecide \/ GuestCancel \/ \E g \in Guests : Grant(g) \/ Lapse(g)
    <3>1. UNCHANGED calls
      BY <2>4, Zenon DEF GuestCreate, GuestDecide, GuestCancel, Grant, Lapse
    <3> QED
      BY <2>1, <3>1
  <2> QED
    BY <2>2, <2>3, <2>4 DEF Next
<1> QED
  BY <1>1, <1>2, MemoryHolds, PTL DEF Spec, RepeatsAreHeard, ReplayIsRecognised
=============================================================================
