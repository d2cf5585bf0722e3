------------------------- MODULE SecondFactor_proofs -------------------------
(***************************************************************************)
(* Proofs about SecondFactor for any number of users, requests, flows,     *)
(* sessions, factors, recoveries and codes, and any bounds.                *)
(*                                                                         *)
(* A handler in a flow holds the user's lock, so the flow it validated and *)
(* the fingerprint it compared are the ones it commits under.  What a flow *)
(* is entitled to (a factor to confirm with, a free factor to enrol) stays *)
(* true without the lock, because whoever takes it away spends the flow in *)
(* the same commit.  A proof that was accepted is behind the factor's last *)
(* step, or gone from the sheet, and its flow accepts no other.            *)
(***************************************************************************)
EXTENDS SecondFactor, FiniteSetTheorems, TLAPS

Ident == [ver : Nat, era : Nat, pending : BOOLEAN]
FactorRow ==
    [st : {"active"}, user : Users, kind : {"totp", "passkey"}, last : 0 .. MaxTime]
FlowRow ==
    [st : {"open"}, user : Users,
     purpose : {"login", "setup", "manage", "reauth", "recovery", "finish"},
     fp : (0 .. MaxChanges) \X (0 .. MaxChanges), session : Sessions \cup {NoOne},
     ceremony : {"none", "totp", "passkey", "authenticate"},
     factor : Factors \cup {NoOne}, attempts : 0 .. MaxAttempts]
SessionRow ==
    [st : {"live", "revoked"}, user : Users, ver : 0 .. MaxChanges, era : 0 .. MaxChanges,
     recent : BOOLEAN]
RecoveryRow == [st : {"open"}, user : Users, ver : Nat]
FlowCall == [at : {"flow"}, flow : Flows, user : Users, row : FlowRow]
SessionCall == [at : {"in"}, session : Sessions, user : Users]
CallRow == {Idle} \cup FlowCall \cup SessionCall

IdentTyped ==
    /\ ident \in [Users -> Ident]
    /\ \A u \in Users : ident[u].ver + ident[u].era <= MaxChanges
FactorTyped == factor \in [Factors -> {Unused, Revoked} \cup FactorRow]
CodesTyped ==
    /\ sheet \in [Users -> Nat] /\ codes \in [Users -> SUBSET (Nat \X Slots)]
    /\ \A u \in Users : codes[u] \subseteq {sheet[u]} \X Slots
FlowTyped == flow \in [Flows -> {Unused, Spent} \cup FlowRow]
SessionTyped == session \in [Sessions -> {Unused} \cup SessionRow]
RecoveryTyped == recovery \in [Recoveries -> {Unused, Spent} \cup RecoveryRow]
CallTyped == call \in [Calls -> CallRow]
HolderTyped == holder \in [Users -> Calls \cup {NoOne}]
Typed ==
    /\ IdentTyped /\ FactorTyped /\ CodesTyped /\ FlowTyped /\ SessionTyped
    /\ RecoveryTyped /\ CallTyped /\ HolderTyped

\* The lock of a row is held exactly by the call that handles a flow of its user.
HolderInFlow ==
    \A u \in Users : holder[u] # NoOne =>
        call[holder[u]].at = "flow" /\ call[holder[u]].user = u
FlowHolds == \A c \in Calls : call[c].at = "flow" => holder[call[c].user] = c
LocksFit == HolderInFlow /\ FlowHolds

\* What a handler validated under the lock still holds; a request was admitted with a
\* session of its user.
HandlerFits(c) ==
    call[c].at = "flow" =>
        /\ flow[call[c].flow] = call[c].row
        /\ call[c].row.user = call[c].user
        /\ call[c].row.fp = Fingerprint(call[c].user)
        /\ call[c].row.attempts < MaxAttempts
        /\ ident[call[c].user].pending => call[c].row.purpose \in {"recovery", "finish"}
VisitFits(c) ==
    call[c].at = "in" =>
        /\ session[call[c].session] \in SessionRow
        /\ session[call[c].session].user = call[c].user
CallFits(c) == HandlerFits(c) /\ VisitFits(c)
CallsFit == \A c \in Calls : CallFits(c)

Enrols(f) == flow[f].purpose \in {"setup", "manage", "recovery"}

\* A flow belongs to a session that was opened, if it belongs to one.
FlowSession(f) ==
    /\ flow[f].session # NoOne <=> flow[f].purpose \in {"manage", "reauth"}
    /\ flow[f].session # NoOne => session[flow[f].session] \in SessionRow
\* Whoever signs in, confirms or manages has a factor.
FlowHasFactor(f) ==
    flow[f].purpose \in {"login", "manage", "reauth"} => Active(flow[f].user) # {}
\* The factor that a flow is about to enrol is still free, and no other flow's.
FlowReserves(f) ==
    /\ flow[f].ceremony \in {"totp", "passkey"} => flow[f].factor # NoOne /\ Enrols(f)
    /\ (flow[f].factor # NoOne /\ Enrols(f)) => factor[flow[f].factor] = Unused
FlowsHold ==
    /\ \A f \in Flows : flow[f] \in FlowRow =>
          FlowSession(f) /\ FlowHasFactor(f) /\ FlowReserves(f)
    /\ \A f, g \in Flows :
          (/\ flow[f] \in FlowRow /\ flow[g] \in FlowRow
           /\ flow[f].factor # NoOne /\ flow[f].factor = flow[g].factor) => f = g

\* What was accepted cannot be accepted again.
AcceptedFlow(x) ==
    x.flow \in Flows /\ (flow[x.flow] = Spent
                         \/ (flow[x.flow] \in FlowRow /\ flow[x.flow].purpose = "finish"))
AcceptedProof(x) ==
    \/ \E p \in Factors, t \in Nat :
          /\ x.proof = <<"totp", p, t>> /\ factor[p] # Unused
          /\ factor[p] \in FactorRow => t <= factor[p].last
    \/ \E u \in Users, k \in Nat \X Slots :
          x.proof = <<"code", u, k>> /\ k \notin codes[u] /\ k[1] <= sheet[u]
AcceptedHold ==
    /\ OneProofOneUse
    /\ \A x \in accepted : AcceptedFlow(x) /\ AcceptedProof(x)

\* An approval was given at a version the account has reached.
ApprovalsPast ==
    \A r \in Recoveries : recovery[r] \in RecoveryRow =>
        recovery[r].ver <= ident[recovery[r].user].ver

IInv ==
    /\ Typed /\ LocksFit /\ CallsFit /\ FlowsHold /\ AcceptedHold /\ LiveSessionIsCurrent
    /\ ApprovalsPast

-----------------------------------------------------------------------------
(* What the rows of a call, a flow, a session and a factor are.              *)

LEMMA CallShape ==
    ASSUME Typed, NEW c \in Calls
    PROVE  /\ call[c].at = "flow" => call[c] \in FlowCall
           /\ call[c].at = "in" => call[c] \in SessionCall
           /\ call[c].at \notin {"flow", "in"} => call[c] = Idle
BY DEF Typed, CallTyped, CallRow, Idle, FlowCall, SessionCall

LEMMA FlowShape ==
    ASSUME Typed, NEW f \in Flows
    PROVE  /\ flow[f].st = "open" <=> flow[f] \in FlowRow
           /\ flow[f] \in {Unused, Spent} <=> flow[f] \notin FlowRow
           /\ flow[f] \in {Unused, Spent} \cup FlowRow
BY DEF Typed, FlowTyped, FlowRow, Unused, Spent

LEMMA SessionShape ==
    ASSUME Typed, NEW s \in Sessions
    PROVE  /\ session[s].st = "live" => session[s] \in SessionRow
           /\ session[s] = Unused <=> session[s] \notin SessionRow
BY DEF Typed, SessionTyped, SessionRow, Unused

LEMMA FactorShape ==
    ASSUME Typed, NEW p \in Factors
    PROVE  /\ factor[p].st = "active" <=> factor[p] \in FactorRow
           /\ factor[p] \in {Unused, Revoked} <=> factor[p] \notin FactorRow
           /\ factor[p] \in {Unused, Revoked} \cup FactorRow
           /\ Unused # Revoked
BY DEF Typed, FactorTyped, FactorRow, Unused, Revoked

LEMMA RecoveryShape ==
    ASSUME Typed, NEW r \in Recoveries
    PROVE  /\ recovery[r].st = "open" <=> recovery[r] \in RecoveryRow
           /\ recovery[r] \in {Unused, Spent} \cup RecoveryRow
BY DEF Typed, RecoveryTyped, RecoveryRow, Unused, Spent

LEMMA Apart ==
    /\ Unused # Spent /\ Unused \notin FlowRow /\ Spent \notin FlowRow
    /\ Unused \notin SessionRow /\ Unused \notin FactorRow /\ Revoked \notin FactorRow
    /\ Spent \notin RecoveryRow /\ Unused \notin RecoveryRow
BY DEF Unused, Spent, Revoked, FlowRow, SessionRow, FactorRow, RecoveryRow

LEMMA ActiveRows ==
    ASSUME Typed, NEW u
    PROVE  Active(u) = {p \in Factors : factor[p] \in FactorRow /\ factor[p].user = u}
BY FactorShape DEF Active

-----------------------------------------------------------------------------
(* Calls.  The step of a call c (or of no call) leaves alone what the other  *)
(* calls hold: the row of a user they have locked, the flow they handle, the *)
(* session they came with.                                                   *)

OthersKept(c) ==
    /\ \A u \in Users : holder[u] \notin {NoOne, c} => ident'[u] = ident[u]
    /\ \A f \in Flows : (flow[f] \in FlowRow /\ holder[flow[f].user] \notin {NoOne, c}) =>
          flow'[f] = flow[f]
SessionsLast ==
    \A s \in Sessions : session[s] \in SessionRow =>
        session'[s] \in SessionRow /\ session'[s].user = session[s].user

LEMMA OthersFit ==
    ASSUME IInv, NEW c, OthersKept(c), SessionsLast, NEW d \in Calls, d # c, call'[d] = call[d]
    PROVE  CallFits(d)'
<1>. CallFits(d) /\ Typed /\ NoOne \notin Calls
  BY NamesAssumption DEF IInv, CallsFit
<1>1. HandlerFits(d)'
  <2>1. CASE call[d].at = "flow"
    <3>1. call[d] \in FlowCall /\ call[d].user \in Users /\ call[d].flow \in Flows
      BY <2>1, CallShape DEF FlowCall
    <3>2. holder[call[d].user] = d
      BY <2>1 DEF IInv, LocksFit, FlowHolds
    <3>3. ident'[call[d].user] = ident[call[d].user]
      BY <3>1, <3>2 DEF OthersKept
    <3>4. flow'[call[d].flow] = flow[call[d].flow]
      BY <2>1, <3>1, <3>2 DEF OthersKept, CallFits, HandlerFits, FlowCall
    <3>. QED  BY <2>1, <3>3, <3>4 DEF CallFits, HandlerFits, Fingerprint
  <2>. QED  BY <2>1 DEF HandlerFits
<1>2. VisitFits(d)'
  BY CallShape DEF VisitFits, CallFits, SessionsLast, SessionCall
<1>. QED  BY <1>1, <1>2 DEF CallFits

LEMMA CallMoves ==
    ASSUME IInv, NEW c \in Calls, OthersKept(c), SessionsLast, NEW r \in CallRow,
           call' = [call EXCEPT ![c] = r], CallFits(c)'
    PROVE  CallTyped' /\ CallsFit'
<1>1. call'[c] = r /\ \A d \in Calls : d # c => call'[d] = call[d]
  BY DEF IInv, Typed, CallTyped
<1>2. CallTyped'
  BY DEF IInv, Typed, CallTyped
<1>3. \A d \in Calls : CallFits(d)'
  BY <1>1, OthersFit
<1>. QED  BY <1>2, <1>3 DEF CallsFit

LEMMA CallEnds ==
    ASSUME IInv, NEW c \in Calls, OthersKept(c), SessionsLast,
           call' = [call EXCEPT ![c] = Idle]
    PROVE  CallTyped' /\ CallsFit'
<1>1. Idle \in CallRow /\ call'[c] = Idle
  BY DEF CallRow, IInv, Typed, CallTyped
<1>2. CallFits(c)'
  BY <1>1 DEF CallFits, HandlerFits, VisitFits, Idle
<1>. QED  BY <1>1, <1>2, CallMoves

LEMMA CallsStay ==
    ASSUME IInv, OthersKept(NoOne), SessionsLast, UNCHANGED call
    PROVE  CallTyped' /\ CallsFit'
<1>1. \A d \in Calls : CallFits(d)'
  BY OthersFit, NamesAssumption
<1>2. CallTyped'
  BY DEF IInv, Typed, CallTyped
<1>. QED  BY <1>1, <1>2 DEF CallsFit

LEMMA LocksReleased ==
    ASSUME IInv, NEW c \in Calls, Release(c)
    PROVE  LocksFit' /\ HolderTyped' /\ call' = [call EXCEPT ![c] = Idle]
<1>1. call'[c] = Idle /\ \A d \in Calls : d # c => call'[d] = call[d]
  BY DEF IInv, Typed, CallTyped, Release
<1>2. \A v \in Users : holder'[v] = IF holder[v] = c THEN NoOne ELSE holder[v]
  BY DEF Release
<1>3. HolderTyped'
  BY DEF IInv, Typed, HolderTyped, Release
<1>4. HolderInFlow'
  BY <1>1, <1>2 DEF IInv, Typed, HolderTyped, LocksFit, HolderInFlow
<1>5. FlowHolds'
  <2>. SUFFICES ASSUME NEW d \in Calls, call'[d].at = "flow"
                PROVE  holder'[call'[d].user] = d
    BY DEF FlowHolds
  <2>1. d # c /\ call'[d] = call[d]
    BY <1>1 DEF Idle
  <2>2. call[d].user \in Users /\ holder[call[d].user] = d
    BY <2>1, CallShape DEF IInv, LocksFit, FlowHolds, FlowCall
  <2>. QED  BY <2>1, <2>2, <1>2
<1>. QED  BY <1>3, <1>4, <1>5 DEF LocksFit, Release

\* A call that holds no lock goes on, or ends.
LEMMA LocksStay ==
    ASSUME IInv, NEW c \in Calls, NEW r, r.at # "flow", call[c].at # "flow",
           UNCHANGED holder, call' = [call EXCEPT ![c] = r]
    PROVE  LocksFit' /\ HolderTyped'
<1>1. call'[c] = r /\ \A d \in Calls : d # c => call'[d] = call[d]
  BY DEF IInv, Typed, CallTyped
<1>2. HolderInFlow'
  BY <1>1 DEF IInv, Typed, HolderTyped, LocksFit, HolderInFlow
<1>3. FlowHolds'
  BY <1>1 DEF IInv, LocksFit, FlowHolds
<1>. QED  BY <1>2, <1>3 DEF IInv, Typed, HolderTyped, LocksFit

LEMMA NoLockMoves ==
    ASSUME IInv, UNCHANGED <<holder, call>>
    PROVE  LocksFit' /\ HolderTyped'
BY DEF IInv, Typed, HolderTyped, LocksFit, HolderInFlow, FlowHolds

-----------------------------------------------------------------------------
(* Flows, sessions and proofs that a step leaves behind.                     *)

\* Factors are only gained, or used.
FactorsGrow ==
    \A p \in Factors :
        /\ factor[p] \in FactorRow =>
              /\ factor'[p] \in FactorRow /\ factor'[p].user = factor[p].user
              /\ factor[p].last <= factor'[p].last
        /\ factor'[p] \in FactorRow => factor[p] \in FactorRow \/ factor[p] = Unused
        /\ factor[p] = Revoked => factor'[p] = Revoked

\* The factors of a user after the step, also for a user who is named by a row after it.
ActiveNext(u) == {p \in Factors : factor'[p].st = "active" /\ factor'[p].user = u}

LEMMA ActiveStays ==
    ASSUME IInv, FactorTyped', FactorsGrow, NEW u, Active(u) # {}
    PROVE  Active(u)' # {} /\ ActiveNext(u) # {}
<1>1. PICK p \in Factors : factor[p] \in FactorRow /\ factor[p].user = u
  BY ActiveRows DEF IInv
<1>2. factor'[p] \in FactorRow /\ factor'[p].user = u
  BY <1>1 DEF FactorsGrow
<1>3. p \in Active(u)' /\ p \in ActiveNext(u)
  BY <1>2 DEF Active, ActiveNext, FactorRow
<1>. QED  BY <1>3

\* A flow other than g either is as it was or is over; what an old flow is entitled to
\* stays; g has what it needs.
LEMMA FlowsKept ==
    ASSUME IInv, SessionsLast, NEW g,
           \A f \in Flows : f # g /\ flow'[f] \in FlowRow =>
               /\ flow'[f] = flow[f]
               /\ Active(flow[f].user) # {} => ActiveNext(flow[f].user) # {}
               /\ \A p \in Factors : (factor[p] = Unused /\ flow[f].factor = p) => factor'[p] = Unused,
           g \in Flows /\ flow'[g] \in FlowRow =>
               /\ FlowSession(g)' /\ FlowHasFactor(g)' /\ FlowReserves(g)'
               /\ \A f \in Flows : f # g /\ flow'[f] \in FlowRow =>
                      flow'[g].factor = NoOne \/ flow'[f].factor # flow'[g].factor
    PROVE  FlowsHold'
<1>1. ASSUME NEW f \in Flows, flow'[f] \in FlowRow, f # g
      PROVE  FlowSession(f)' /\ FlowHasFactor(f)' /\ FlowReserves(f)'
  <2>1. flow'[f] = flow[f] /\ flow[f] \in FlowRow
    BY <1>1
  <2>2. FlowSession(f) /\ FlowHasFactor(f) /\ FlowReserves(f)
    BY <2>1 DEF IInv, FlowsHold
  <2>3. flow[f].session # NoOne => flow[f].session \in Sessions
    BY <2>1 DEF FlowRow
  <2>4. FlowSession(f)'
    BY <2>1, <2>2, <2>3 DEF FlowSession, SessionsLast
  <2>5. FlowHasFactor(f)'
    <3>1. Active(flow[f].user) # {} => ActiveNext(flow[f].user) # {}
      BY <1>1
    <3>2. flow'[f].user = flow[f].user /\ flow'[f].purpose = flow[f].purpose
      BY <2>1
    <3>3. ActiveNext(flow'[f].user) = ActiveNext(flow[f].user)
      BY <3>2
    <3>. QED  BY <2>2, <3>1, <3>2, <3>3 DEF FlowHasFactor, Active, ActiveNext
  <2>6. flow[f].factor # NoOne => flow[f].factor \in Factors
    BY <2>1 DEF FlowRow
  <2>7. FlowReserves(f)'
    BY <1>1, <2>1, <2>2, <2>6 DEF FlowReserves, Enrols
  <2>. QED  BY <2>4, <2>5, <2>7
<1>2. ASSUME NEW f \in Flows, NEW h \in Flows, flow'[f] \in FlowRow, flow'[h] \in FlowRow,
             flow'[f].factor # NoOne, flow'[f].factor = flow'[h].factor
      PROVE  f = h
  <2>1. CASE f # g /\ h # g
    <3>1. flow'[f] = flow[f] /\ flow'[h] = flow[h]
      BY <1>2, <2>1
    <3>. QED  BY <1>2, <3>1 DEF IInv, FlowsHold
  <2>2. CASE f = g \/ h = g
    BY <1>2, <2>2
  <2>. QED  BY <2>1, <2>2
<1>. QED  BY <1>1, <1>2 DEF FlowsHold

LEMMA FlowsStand ==
    ASSUME IInv, SessionsLast,
           \A f \in Flows : flow'[f] \in FlowRow =>
               /\ flow'[f] = flow[f]
               /\ Active(flow[f].user) # {} => ActiveNext(flow[f].user) # {}
               /\ \A p \in Factors : (factor[p] = Unused /\ flow[f].factor = p) => factor'[p] = Unused
    PROVE  FlowsHold'
<1>1. PICK g : g \notin Flows
  BY NoSetContainsEverything
<1>. QED  BY <1>1, FlowsKept

LEMMA FlowsRest ==
    ASSUME IInv, SessionsLast, UNCHANGED flow, FactorTyped', FactorsGrow,
           \A p \in Factors : factor[p] = Unused => factor'[p] = Unused
    PROVE  FlowsHold'
<1>1. \A f \in Flows : Active(flow[f].user) # {} => ActiveNext(flow[f].user) # {}
  BY ActiveStays
<1>2. \A f \in Flows : flow'[f] = flow[f]
  OBVIOUS
<1>. QED
  BY <1>1, <1>2, FlowsStand

\* What ends a flow for good.
ProofsLast ==
    /\ \A f \in Flows : flow[f] = Spent => flow'[f] = Spent
    /\ \A f \in Flows : (flow[f] \in FlowRow /\ flow[f].purpose = "finish") =>
          flow'[f] = Spent \/ (flow'[f] \in FlowRow /\ flow'[f].purpose = "finish")
    /\ \A p \in Factors : factor[p] # Unused =>
          /\ factor'[p] # Unused
          /\ factor'[p] \in FactorRow => factor[p] \in FactorRow /\ factor[p].last <= factor'[p].last
    /\ \A u \in Users :
          /\ sheet'[u] >= sheet[u]
          /\ \A k \in codes'[u] : k \in codes[u] \/ k[1] > sheet[u]

LEMMA AcceptedLasts ==
    ASSUME IInv, ProofsLast, FactorTyped', CodesTyped', NEW x \in accepted
    PROVE  AcceptedFlow(x)' /\ AcceptedProof(x)'
<1>1. AcceptedFlow(x) /\ AcceptedProof(x)
  BY DEF IInv, AcceptedHold
<1>2. AcceptedFlow(x)'
  BY <1>1 DEF AcceptedFlow, ProofsLast
<1>3. CASE \E p \in Factors, t \in Nat :
             /\ x.proof = <<"totp", p, t>> /\ factor[p] # Unused
             /\ factor[p] \in FactorRow => t <= factor[p].last
  <2>1. PICK p \in Factors, t \in Nat :
             /\ x.proof = <<"totp", p, t>> /\ factor[p] # Unused
             /\ factor[p] \in FactorRow => t <= factor[p].last
    BY <1>3
  <2>2. factor'[p] # Unused
    BY <2>1 DEF ProofsLast
  <2>3. factor'[p] \in FactorRow => t <= factor'[p].last
    <3>. SUFFICES ASSUME factor'[p] \in FactorRow PROVE t <= factor'[p].last
      OBVIOUS
    <3>1. factor[p] \in FactorRow /\ factor[p].last <= factor'[p].last
      BY <2>1 DEF ProofsLast
    <3>2. factor[p].last \in Nat /\ factor'[p].last \in Nat
      BY <3>1, BoundsAssumption DEF FactorRow
    <3>. QED  BY <2>1, <3>1, <3>2
  <2>. QED  BY <1>2, <2>1, <2>2, <2>3 DEF AcceptedProof
<1>4. CASE \E u \in Users, k \in Nat \X Slots :
             x.proof = <<"code", u, k>> /\ k \notin codes[u] /\ k[1] <= sheet[u]
  <2>1. PICK u \in Users, k \in Nat \X Slots :
             x.proof = <<"code", u, k>> /\ k \notin codes[u] /\ k[1] <= sheet[u]
    BY <1>4
  <2>2. sheet[u] \in Nat /\ sheet'[u] \in Nat /\ k[1] \in Nat
    BY DEF IInv, Typed, CodesTyped
  <2>3. k \notin codes'[u] /\ k[1] <= sheet'[u]
    BY <2>1, <2>2 DEF ProofsLast
  <2>. QED  BY <1>2, <2>1, <2>3 DEF AcceptedProof
<1>. QED  BY <1>1, <1>3, <1>4 DEF AcceptedProof

LEMMA AcceptedRests ==
    ASSUME IInv, ProofsLast, FactorTyped', CodesTyped', UNCHANGED accepted
    PROVE  AcceptedHold'
BY AcceptedLasts DEF IInv, AcceptedHold, OneProofOneUse

\* A new proof in flow f, when neither was accepted before.
LEMMA AcceptedGrows ==
    ASSUME IInv, ProofsLast, FactorTyped', CodesTyped', NEW y, accepted' = accepted \cup {y},
           AcceptedFlow(y)', AcceptedProof(y)',
           \A x \in accepted : x.flow # y.flow /\ x.proof # y.proof
    PROVE  AcceptedHold'
BY AcceptedLasts DEF IInv, AcceptedHold, OneProofOneUse

\* Sessions.
LEMMA SessionsRest ==
    ASSUME IInv, UNCHANGED session,
           \A u \in Users : /\ ident'[u].ver = ident[u].ver /\ ident'[u].era = ident[u].era
                            /\ ident'[u].pending => ident[u].pending
                            /\ Active(u) # {} => Active(u)' # {}
    PROVE  SessionTyped' /\ SessionsLast /\ LiveSessionIsCurrent'
<1>1. SessionTyped' /\ SessionsLast
  BY DEF IInv, Typed, SessionTyped, SessionsLast
<1>2. \A s \in Sessions : session[s].st = "live" => session[s].user \in Users
  BY SessionShape DEF IInv, SessionRow
<1>3. LiveSessionIsCurrent'
  <2>. SUFFICES ASSUME NEW s \in Sessions, session'[s].st = "live"
                PROVE  /\ session'[s].ver = ident'[session'[s].user].ver
                       /\ session'[s].era = ident'[session'[s].user].era
                       /\ ActiveNext(session'[s].user) # {}
                       /\ ~ident'[session'[s].user].pending
    BY DEF LiveSessionIsCurrent, Live, Active, ActiveNext
  <2>1. session'[s] = session[s]
    OBVIOUS
  <2>2. PICK u \in Users : u = session[s].user
    BY <1>2, <2>1
  <2>3. /\ session[s].ver = ident[u].ver /\ session[s].era = ident[u].era
        /\ Active(u) # {} /\ ~ident[u].pending
    BY <2>1, <2>2 DEF IInv, LiveSessionIsCurrent, Live
  <2>4. Active(u)' # {}
    BY <2>3
  <2>5. ActiveNext(session'[s].user) = Active(u)'
    BY <2>1, <2>2 DEF Active, ActiveNext
  <2>. QED  BY <2>1, <2>2, <2>3, <2>4, <2>5
<1>. QED  BY <1>1, <1>3

Revokes(u) ==
    session' = [s \in Sessions |-> IF Live(s) /\ session[s].user = u
                                   THEN [session[s] EXCEPT !.st = "revoked"] ELSE session[s]]

LEMMA SessionMark ==
    ASSUME NEW q \in SessionRow
    PROVE  /\ [q EXCEPT !.st = "revoked"] \in SessionRow
           /\ [q EXCEPT !.st = "revoked"].st = "revoked"
           /\ [q EXCEPT !.st = "revoked"].user = q.user
BY DEF SessionRow

LEMMA RecentMark ==
    ASSUME NEW q \in SessionRow, NEW b \in BOOLEAN
    PROVE  /\ [q EXCEPT !.recent = b] \in SessionRow
           /\ [q EXCEPT !.recent = b].st = q.st /\ [q EXCEPT !.recent = b].user = q.user
           /\ [q EXCEPT !.recent = b].ver = q.ver /\ [q EXCEPT !.recent = b].era = q.era
BY DEF SessionRow

\* All sessions of u end; the others' accounts and factors rest.
LEMMA SessionsRevoked ==
    ASSUME IInv, NEW u, Revokes(u),
           \A v \in Users \ {u} : ident'[v] = ident[v] /\ (Active(v) # {} => Active(v)' # {})
    PROVE  SessionTyped' /\ SessionsLast /\ LiveSessionIsCurrent'
<1>1. \A s \in Sessions :
        \/ session'[s] = session[s] /\ ~(session[s].st = "live" /\ session[s].user = u)
        \/ /\ session[s] \in SessionRow /\ session'[s] \in SessionRow
           /\ session'[s].st = "revoked" /\ session'[s].user = session[s].user
  <2>. TAKE s \in Sessions
  <2>1. CASE session[s].st = "live" /\ session[s].user = u
    <3>1. PICK q \in SessionRow : q = session[s]
      BY <2>1, SessionShape DEF IInv
    <3>2. session'[s] = [q EXCEPT !.st = "revoked"]
      BY <2>1, <3>1 DEF Revokes, Live
    <3>. QED  BY <3>1, <3>2, SessionMark
  <2>2. CASE ~(session[s].st = "live" /\ session[s].user = u)
    BY <2>2 DEF Revokes, Live
  <2>. QED  BY <2>1, <2>2
<1>2. SessionTyped'
  <2>1. \A s \in Sessions : session'[s] \in {Unused} \cup SessionRow
    BY <1>1 DEF IInv, Typed, SessionTyped
  <2>. QED  BY <2>1 DEF SessionTyped, Revokes
<1>3. SessionsLast
  BY <1>1 DEF SessionsLast
<1>4. LiveSessionIsCurrent'
  <2>. SUFFICES ASSUME NEW s \in Sessions, session'[s].st = "live"
                PROVE  /\ session'[s].ver = ident'[session'[s].user].ver
                       /\ session'[s].era = ident'[session'[s].user].era
                       /\ ActiveNext(session'[s].user) # {}
                       /\ ~ident'[session'[s].user].pending
    BY DEF LiveSessionIsCurrent, Live, Active, ActiveNext
  <2>1. session'[s] = session[s] /\ session[s].user # u
    BY <1>1
  <2>2. PICK v \in Users \ {u} : v = session[s].user
    BY <2>1, SessionShape DEF IInv, SessionRow
  <2>3. /\ session[s].ver = ident[v].ver /\ session[s].era = ident[v].era
        /\ Active(v) # {} /\ ~ident[v].pending
    BY <2>1, <2>2 DEF IInv, LiveSessionIsCurrent, Live
  <2>4. ident'[v] = ident[v] /\ Active(v)' # {}
    BY <2>3
  <2>5. ActiveNext(session'[s].user) = Active(v)'
    BY <2>1, <2>2 DEF Active, ActiveNext
  <2>. QED  BY <2>1, <2>2, <2>3, <2>4, <2>5
<1>. QED  BY <1>2, <1>3, <1>4

\* One row changes and does not come to life.
LEMMA SessionMarked ==
    ASSUME IInv, UNCHANGED <<ident, factor>>, NEW s \in Sessions, NEW q \in SessionRow,
           q = session[s], NEW r \in SessionRow, session' = [session EXCEPT ![s] = r],
           r.user = q.user, r.st = "live" => q.st = "live" /\ r.ver = q.ver /\ r.era = q.era
    PROVE  SessionTyped' /\ SessionsLast /\ LiveSessionIsCurrent'
<1>1. session'[s] = r /\ \A t \in Sessions : t # s => session'[t] = session[t]
  BY DEF IInv, Typed, SessionTyped
<1>2. SessionTyped' /\ SessionsLast
  BY <1>1 DEF IInv, Typed, SessionTyped, SessionsLast
<1>3. LiveSessionIsCurrent'
  <2>. SUFFICES ASSUME NEW t \in Sessions, session'[t].st = "live"
                PROVE  /\ session'[t].ver = ident[session'[t].user].ver
                       /\ session'[t].era = ident[session'[t].user].era
                       /\ Active(session'[t].user) # {}
                       /\ ~ident[session'[t].user].pending
    BY DEF LiveSessionIsCurrent, Live, Active
  <2>1. /\ session[t].st = "live" /\ session'[t].ver = session[t].ver
        /\ session'[t].era = session[t].era /\ session'[t].user = session[t].user
    BY <1>1
  <2>. QED  BY <2>1 DEF IInv, LiveSessionIsCurrent, Live
<1>. QED  BY <1>2, <1>3

-----------------------------------------------------------------------------
(* Every step keeps the invariant.  First the steps that change a flow, or   *)
(* only a call.                                                              *)

Rested ==
    /\ IdentTyped' /\ FactorTyped' /\ CodesTyped' /\ SessionTyped' /\ RecoveryTyped'
    /\ SessionsLast /\ LiveSessionIsCurrent' /\ ApprovalsPast'

\* Nothing but a recovery request changes, and only by ending.
Quiet ==
    /\ UNCHANGED <<ident, factor, sheet, codes, session, accepted>>
    /\ \E r \in Recoveries : recovery' = [recovery EXCEPT ![r] = Spent]

LEMMA RecordsRest ==
    ASSUME IInv, UNCHANGED records \/ Quiet
    PROVE  Rested
<1>1. SessionTyped' /\ SessionsLast /\ LiveSessionIsCurrent'
  BY SessionsRest DEF records, Quiet, Active
<1>2. /\ IdentTyped' /\ FactorTyped' /\ CodesTyped'
  BY DEF records, Quiet, IInv, Typed, IdentTyped, FactorTyped, CodesTyped
<1>3. RecoveryTyped' /\ ApprovalsPast'
  <2>1. CASE UNCHANGED records
    BY <2>1 DEF records, IInv, Typed, RecoveryTyped, ApprovalsPast
  <2>2. CASE Quiet
    <3>1. PICK r \in Recoveries : recovery' = [recovery EXCEPT ![r] = Spent]
      BY <2>2 DEF Quiet
    <3>2. recovery'[r] = Spent /\ \A q \in Recoveries : q # r => recovery'[q] = recovery[q]
      BY <3>1 DEF IInv, Typed, RecoveryTyped
    <3>. QED
      BY <2>2, <3>1, <3>2, Apart DEF Quiet, IInv, Typed, RecoveryTyped, ApprovalsPast
  <2>. QED  BY <2>1, <2>2
<1>. QED  BY <1>1, <1>2, <1>3 DEF Rested

\* What a row of a flow needs to stand.
Entitled(r) ==
    /\ (r.session # NoOne) <=> (r.purpose \in {"manage", "reauth"})
    /\ r.session # NoOne => session[r.session] \in SessionRow
    /\ r.purpose \in {"login", "manage", "reauth"} => Active(r.user) # {}
    /\ r.ceremony \in {"totp", "passkey"} =>
          r.factor # NoOne /\ r.purpose \in {"setup", "manage", "recovery"}
    /\ (r.factor # NoOne /\ r.purpose \in {"setup", "manage", "recovery"}) =>
          factor[r.factor] = Unused

LEMMA FlowStep ==
    ASSUME IInv, NEW c, UNCHANGED records \/ Quiet, NEW f \in Flows, NEW r \in {Spent} \cup FlowRow,
           flow' = [flow EXCEPT ![f] = r], flow[f] # Spent,
           (flow[f] \in FlowRow /\ flow[f].purpose = "finish") => (r = Spent \/ r.purpose = "finish"),
           flow[f] \in FlowRow => holder[flow[f].user] \in {NoOne, c},
           r \in FlowRow =>
               /\ Entitled(r)
               /\ \A h \in Flows : h # f /\ flow[h] \in FlowRow =>
                      r.factor = NoOne \/ flow[h].factor # r.factor
    PROVE  Rested /\ FlowTyped' /\ FlowsHold' /\ AcceptedHold' /\ OthersKept(c)
<1>1. flow'[f] = r /\ \A h \in Flows : h # f => flow'[h] = flow[h]
  BY DEF IInv, Typed, FlowTyped
<1>2. FlowTyped'
  BY DEF IInv, Typed, FlowTyped
<1>3. Rested /\ SessionsLast /\ FactorTyped' /\ CodesTyped'
  BY RecordsRest DEF Rested
<1>4. UNCHANGED <<factor, session, sheet, codes, accepted, ident>>
  BY DEF records, Quiet
<1>5. FlowsHold'
  <2>1. r \in FlowRow => FlowSession(f)' /\ FlowHasFactor(f)' /\ FlowReserves(f)'
    BY <1>1, <1>4 DEF Entitled, FlowSession, FlowHasFactor, FlowReserves, Enrols, Active
  <2>2. \A h \in Flows : Active(flow[h].user) # {} => ActiveNext(flow[h].user) # {}
    BY <1>4 DEF Active, ActiveNext
  <2>3. \A h \in Flows : h # f /\ flow'[h] \in FlowRow =>
            /\ flow'[h] = flow[h]
            /\ Active(flow[h].user) # {} => ActiveNext(flow[h].user) # {}
            /\ \A p \in Factors : (factor[p] = Unused /\ flow[h].factor = p) => factor'[p] = Unused
    BY <1>1, <1>4, <2>2
  <2>4. flow'[f] \in FlowRow =>
            /\ FlowSession(f)' /\ FlowHasFactor(f)' /\ FlowReserves(f)'
            /\ \A h \in Flows : h # f /\ flow'[h] \in FlowRow =>
                  flow'[f].factor = NoOne \/ flow'[h].factor # flow'[f].factor
    BY <1>1, <2>1
  <2>. QED  BY <1>3, <2>3, <2>4, FlowsKept, ZenonT(60)
<1>6. ProofsLast
  <2>1. \A h \in Flows : flow[h] = Spent => flow'[h] = Spent
    BY <1>1
  <2>2. \A h \in Flows : (flow[h] \in FlowRow /\ flow[h].purpose = "finish") =>
          flow'[h] = Spent \/ (flow'[h] \in FlowRow /\ flow'[h].purpose = "finish")
    BY <1>1
  <2>3. \A p \in Factors : factor[p] \in FactorRow => factor[p].last \in Nat
    BY BoundsAssumption DEF FactorRow
  <2>4. \A u \in Users : sheet[u] \in Nat
    BY DEF IInv, Typed, CodesTyped
  <2>. QED  BY <1>4, <2>1, <2>2, <2>3, <2>4 DEF ProofsLast
<1>7. AcceptedHold'
  BY <1>3, <1>4, <1>6, AcceptedRests
<1>8. OthersKept(c)
  BY <1>1, <1>4 DEF OthersKept
<1>. QED  BY <1>2, <1>3, <1>5, <1>7, <1>8

LEMMA NoFlowStep ==
    ASSUME IInv, NEW c, UNCHANGED records \/ Quiet, UNCHANGED flow
    PROVE  Rested /\ FlowTyped' /\ FlowsHold' /\ AcceptedHold' /\ OthersKept(c)
<1>1. UNCHANGED <<factor, session, sheet, codes, accepted, ident>>
  BY DEF records, Quiet
<1>2. Rested /\ SessionsLast /\ FactorTyped' /\ CodesTyped'
  BY RecordsRest DEF Rested
<1>3. FlowsHold'
  <2>1. \A h \in Flows : Active(flow[h].user) # {} => ActiveNext(flow[h].user) # {}
    BY <1>1 DEF Active, ActiveNext
  <2>. QED  BY <1>1, <1>2, <2>1, FlowsStand
<1>4. ProofsLast
  <2>3. \A p \in Factors : factor[p] \in FactorRow => factor[p].last \in Nat
    BY BoundsAssumption DEF FactorRow
  <2>4. \A u \in Users : sheet[u] \in Nat
    BY DEF IInv, Typed, CodesTyped
  <2>. QED  BY <1>1, <2>3, <2>4 DEF ProofsLast
<1>. QED
  BY <1>1, <1>2, <1>3, <1>4, AcceptedRests DEF OthersKept, IInv, Typed, FlowTyped

\* A step of no call, or one that ends a call.
LEMMA NobodyMoves ==
    ASSUME IInv, Rested, FlowTyped', FlowsHold', AcceptedHold', OthersKept(NoOne),
           UNCHANGED <<holder, call>>
    PROVE  IInv'
BY CallsStay, NoLockMoves DEF Rested, IInv, Typed

LEMMA MoverEnds ==
    ASSUME IInv, NEW c \in Calls, Rested, FlowTyped', FlowsHold', AcceptedHold', OthersKept(c),
           Release(c) \/ (/\ UNCHANGED holder /\ call[c].at # "flow"
                          /\ call' = [call EXCEPT ![c] = Idle])
    PROVE  IInv'
<1>1. LocksFit' /\ HolderTyped' /\ call' = [call EXCEPT ![c] = Idle]
  BY LocksReleased, LocksStay DEF Idle
<1>2. CallTyped' /\ CallsFit'
  BY <1>1, CallEnds DEF Rested
<1>. QED  BY <1>1, <1>2 DEF Rested, IInv, Typed

\* What a handler in a flow knows.
LEMMA Handler ==
    ASSUME IInv, NEW c \in Calls, InFlow(c)
    PROVE  /\ call[c].flow \in Flows /\ call[c].user \in Users /\ call[c].row \in FlowRow
           /\ flow[call[c].flow] = call[c].row /\ call[c].row.user = call[c].user
           /\ call[c].row.fp = Fingerprint(call[c].user) /\ call[c].row.attempts < MaxAttempts
           /\ ident[call[c].user].pending => call[c].row.purpose \in {"recovery", "finish"}
           /\ holder[call[c].user] = c /\ call[c].row # Spent
           /\ Entitled(call[c].row)
           /\ \A h \in Flows : h # call[c].flow /\ flow[h] \in FlowRow =>
                 call[c].row.factor = NoOne \/ flow[h].factor # call[c].row.factor
<1>1. call[c] \in FlowCall /\ CallFits(c)
  BY CallShape DEF IInv, CallsFit, InFlow
<1>2. HandlerFits(c) /\ call[c].at = "flow" /\ holder[call[c].user] = c
  BY <1>1 DEF CallFits, InFlow, IInv, LocksFit, FlowHolds
<1>3. call[c].flow \in Flows /\ call[c].user \in Users /\ call[c].row \in FlowRow
  BY <1>1 DEF FlowCall
<1>4. flow[call[c].flow] = call[c].row
  BY <1>2 DEF HandlerFits
<1>5. Entitled(call[c].row)
  BY <1>3, <1>4
  DEF IInv, FlowsHold, FlowSession, FlowHasFactor, FlowReserves, Enrols, Entitled
<1>6. \A h \in Flows : h # call[c].flow /\ flow[h] \in FlowRow =>
        call[c].row.factor = NoOne \/ flow[h].factor # call[c].row.factor
  BY <1>3, <1>4 DEF IInv, FlowsHold
<1>. QED  BY <1>2, <1>3, <1>4, <1>5, <1>6, Apart DEF HandlerFits

\* What an admitted request knows once it has looked again.
LEMMA Visitor ==
    ASSUME IInv, NEW c \in Calls, InSession(c)
    PROVE  /\ call[c].session \in Sessions /\ call[c].user \in Users
           /\ session[call[c].session] \in SessionRow /\ call[c].session # NoOne
           /\ session[call[c].session].user = call[c].user
           /\ Active(call[c].user) # {} /\ ~ident[call[c].user].pending
           /\ holder[call[c].user] = NoOne /\ call[c].at = "in"
<1>1. call[c] \in SessionCall /\ CallFits(c) /\ call[c].at = "in" /\ Live(call[c].session)
  BY CallShape DEF IInv, CallsFit, InSession, StillStands
<1>2. call[c].session \in Sessions /\ call[c].user \in Users
  BY <1>1 DEF SessionCall
<1>. QED
  BY <1>1, <1>2, NamesAssumption
  DEF CallFits, VisitFits, InSession, Free, IInv, LiveSessionIsCurrent

LEMMA FingerprintTyped ==
    ASSUME IInv, NEW u \in Users
    PROVE  /\ Fingerprint(u) \in (0 .. MaxChanges) \X (0 .. MaxChanges)
           /\ ident[u].ver \in Nat /\ ident[u].era \in Nat
           /\ ident[u].ver \in 0 .. MaxChanges /\ ident[u].era \in 0 .. MaxChanges
BY BoundsAssumption DEF IInv, Typed, IdentTyped, Ident, Fingerprint

\* start: a new flow for a user nobody else has locked.
LEMMA OpenStep ==
    ASSUME IInv, NEW c, UNCHANGED records \/ Quiet, NEW f \in Flows, NEW u \in Users, NEW s,
           NEW purpose \in {"login", "setup", "manage", "reauth", "recovery"},
           Open(f, u, purpose, s),
           \/ s = NoOne /\ purpose \notin {"manage", "reauth"}
           \/ /\ s \in Sessions /\ s # NoOne /\ session[s] \in SessionRow
              /\ purpose \in {"manage", "reauth"},
           purpose \in {"login", "manage", "reauth"} => Active(u) # {}
    PROVE  Rested /\ FlowTyped' /\ FlowsHold' /\ AcceptedHold' /\ OthersKept(c)
<1> DEFINE r == [st |-> "open", user |-> u, purpose |-> purpose, fp |-> Fingerprint(u),
                 session |-> s, ceremony |-> "none", factor |-> NoOne, attempts |-> 0]
<1>1. flow[f] = Unused /\ flow' = [flow EXCEPT ![f] = r]
  BY DEF Open
<1>2. r \in FlowRow
  BY FingerprintTyped, BoundsAssumption DEF FlowRow
<1>3. /\ r.session = s /\ r.purpose = purpose /\ r.user = u /\ r.ceremony = "none"
      /\ r.factor = NoOne
  OBVIOUS
<1>. HIDE DEF r
<1>4. Entitled(r)
  BY <1>3 DEF Entitled
<1>. QED  BY <1>1, <1>2, <1>3, <1>4, FlowStep, Apart

LEMMA KeepStartLogin ==
    ASSUME IInv, NEW u \in Users, NEW f \in Flows, StartLogin(u, f)
    PROVE  IInv'
<1>1. Rested /\ FlowTyped' /\ FlowsHold' /\ AcceptedHold' /\ OthersKept(NoOne)
  BY OpenStep DEF StartLogin
<1>. QED  BY <1>1, NobodyMoves DEF StartLogin

LEMMA KeepManage ==
    ASSUME IInv, NEW c \in Calls, NEW f \in Flows, Manage(c, f) \/ Reauthenticate(c, f)
    PROVE  IInv'
<1>1. InSession(c)
  BY DEF Manage, Reauthenticate
<1>2. Rested /\ FlowTyped' /\ FlowsHold' /\ AcceptedHold' /\ OthersKept(c)
  BY <1>1, Visitor, OpenStep DEF Manage, Reauthenticate
<1>. QED  BY <1>1, <1>2, Visitor, MoverEnds DEF Manage, Reauthenticate

LEMMA KeepEnter ==
    ASSUME IInv, NEW c \in Calls, NEW f \in Flows, Enter(c, f)
    PROVE  IInv'
<1> DEFINE u == flow[f].user
           r == [at |-> "flow", flow |-> f, user |-> u, row |-> flow[f]]
<1>1. /\ call[c] = Idle /\ flow[f] \in FlowRow /\ ValidFlow(f) /\ holder[u] = NoOne
      /\ holder' = [holder EXCEPT ![u] = c] /\ call' = [call EXCEPT ![c] = r]
      /\ UNCHANGED <<records, flow>>
  BY FlowShape DEF Enter, Free, IInv
<1>2. u \in Users /\ r \in CallRow
  BY <1>1 DEF FlowRow, CallRow, FlowCall
<1>3. Rested /\ FlowTyped' /\ FlowsHold' /\ AcceptedHold' /\ OthersKept(c)
  BY <1>1, NoFlowStep
<1>4. call'[c] = r /\ \A d \in Calls : d # c => call'[d] = call[d]
  BY <1>1 DEF IInv, Typed, CallTyped
<1>5. holder'[u] = c /\ \A v \in Users : v # u => holder'[v] = holder[v]
  BY <1>1, <1>2 DEF IInv, Typed, HolderTyped
<1>6. HolderTyped'
  BY <1>1, <1>2 DEF IInv, Typed, HolderTyped
<1>7. CallFits(c)'
  <2>1. HandlerFits(c)'
    BY <1>1, <1>4 DEF HandlerFits, ValidFlow, Fingerprint, records
  <2>2. VisitFits(c)'
    BY <1>4 DEF VisitFits
  <2>. QED  BY <2>1, <2>2 DEF CallFits
<1>8. CallTyped' /\ CallsFit'
  BY <1>1, <1>2, <1>3, <1>7, CallMoves DEF Rested
<1>. HIDE DEF r
<1>9. r.at = "flow" /\ r.user = u
  BY DEF r
<1>10. HolderInFlow'
  <2>1. \A v \in Users : holder[v] # NoOne => holder[v] \in Calls /\ holder[v] # c
    BY <1>1 DEF IInv, Typed, HolderTyped, LocksFit, HolderInFlow, Idle
  <2>. QED  BY <1>1, <1>4, <1>5, <1>9, <2>1 DEF IInv, LocksFit, HolderInFlow
<1>11. FlowHolds'
  <2>. SUFFICES ASSUME NEW d \in Calls, call'[d].at = "flow"
                PROVE  holder'[call'[d].user] = d
    BY DEF FlowHolds
  <2>1. CASE d = c
    BY <2>1, <1>4, <1>5, <1>9
  <2>2. CASE d # c
    <3>1. call'[d] = call[d] /\ call[d].user \in Users /\ holder[call[d].user] = d
      BY <2>2, <1>4, CallShape DEF IInv, LocksFit, FlowHolds, FlowCall
    <3>. QED  BY <3>1, <1>1, <1>5, NamesAssumption
  <2>. QED  BY <2>1, <2>2
<1>. QED  BY <1>3, <1>6, <1>8, <1>10, <1>11 DEF Rested, IInv, Typed, LocksFit

\* The handler stores a new row of its flow and commits.
LEMMA StoreStep ==
    ASSUME IInv, NEW c \in Calls, InFlow(c), NEW r \in {Spent} \cup FlowRow, Store(c, r),
           Release(c), UNCHANGED records,
           r = Spent \/ Purpose(c) # "finish" \/ r.purpose = "finish",
           r \in FlowRow =>
               /\ Entitled(r)
               /\ \A h \in Flows : h # call[c].flow /\ flow[h] \in FlowRow =>
                      r.factor = NoOne \/ flow[h].factor # r.factor
    PROVE  IInv'
<1>1. /\ call[c].flow \in Flows /\ flow[call[c].flow] = call[c].row /\ call[c].row # Spent
      /\ call[c].row.user = call[c].user /\ holder[call[c].user] = c
  BY Handler
<1>2. Rested /\ FlowTyped' /\ FlowsHold' /\ AcceptedHold' /\ OthersKept(c)
  BY <1>1, FlowStep DEF Store, Purpose
<1>. QED  BY <1>2, MoverEnds

LEMMA KeepBeginEnrolment ==
    ASSUME IInv, NEW c \in Calls, NEW kind \in {"totp", "passkey"}, NEW p \in Factors,
           BeginEnrolment(c, kind, p)
    PROVE  IInv'
<1>1. PICK q \in FlowRow : q = call[c].row /\ Entitled(q)
  BY Handler DEF BeginEnrolment
<1>2. PICK r : r = [q EXCEPT !.ceremony = kind, !.factor = p]
  OBVIOUS
<1>3. /\ r \in FlowRow /\ r.ceremony = kind /\ r.factor = p /\ r.purpose = q.purpose
      /\ r.user = q.user /\ r.session = q.session
  BY <1>2 DEF FlowRow
<1>4. /\ InFlow(c) /\ Store(c, r) /\ Release(c) /\ UNCHANGED records
      /\ factor[p] = Unused /\ \A f \in Flows : flow[f].st = "open" => flow[f].factor # p
      /\ q.purpose \in {"setup", "manage", "recovery"} /\ Purpose(c) = q.purpose
  BY <1>1, <1>2 DEF BeginEnrolment, MayEnrol, Purpose
<1>5. Entitled(r)
  BY <1>1, <1>3, <1>4, NamesAssumption DEF Entitled
<1>6. \A h \in Flows : flow[h] \in FlowRow => flow[h].factor # p
  BY <1>4 DEF FlowRow
<1>. QED  BY <1>3, <1>4, <1>5, <1>6, StoreStep

LEMMA KeepAskPasskey ==
    ASSUME IInv, NEW c \in Calls, AskPasskey(c)
    PROVE  IInv'
<1>1. PICK q \in FlowRow :
        /\ q = call[c].row /\ Entitled(q)
        /\ \A h \in Flows : h # call[c].flow /\ flow[h] \in FlowRow =>
              q.factor = NoOne \/ flow[h].factor # q.factor
  BY Handler DEF AskPasskey
<1>2. PICK r : r = [q EXCEPT !.ceremony = "authenticate"]
  OBVIOUS
<1>3. /\ r \in FlowRow /\ r.ceremony = "authenticate" /\ r.factor = q.factor
      /\ r.purpose = q.purpose /\ r.user = q.user /\ r.session = q.session
  BY <1>2 DEF FlowRow
<1>4. /\ InFlow(c) /\ Store(c, r) /\ Release(c) /\ UNCHANGED records
      /\ Purpose(c) = q.purpose
  BY <1>1, <1>2 DEF AskPasskey, Purpose
<1>5. Entitled(r)
  BY <1>1, <1>3 DEF Entitled
<1>. QED  BY <1>1, <1>3, <1>4, <1>5, StoreStep

LEMMA KeepFail ==
    ASSUME IInv, NEW c \in Calls, Fail(c)
    PROVE  IInv'
<1>1. PICK q \in FlowRow :
        /\ q = call[c].row /\ Entitled(q) /\ q.attempts < MaxAttempts
        /\ \A h \in Flows : h # call[c].flow /\ flow[h] \in FlowRow =>
              q.factor = NoOne \/ flow[h].factor # q.factor
  BY Handler DEF Fail
<1>2. PICK n \in 0 .. MaxAttempts : n = q.attempts + 1
  BY <1>1, BoundsAssumption DEF FlowRow
<1>3. PICK r : r = [q EXCEPT !.attempts = n]
  OBVIOUS
<1>4. /\ r \in FlowRow /\ r.ceremony = q.ceremony /\ r.factor = q.factor
      /\ r.purpose = q.purpose /\ r.user = q.user /\ r.session = q.session
  BY <1>3 DEF FlowRow
<1>5. /\ InFlow(c) /\ Store(c, r) /\ Release(c) /\ UNCHANGED records
      /\ Purpose(c) = q.purpose
  BY <1>1, <1>2, <1>3 DEF Fail, Purpose
<1>6. Entitled(r)
  BY <1>1, <1>4 DEF Entitled
<1>. QED  BY <1>1, <1>4, <1>5, <1>6, StoreStep

LEMMA KeepCancel ==
    ASSUME IInv, NEW f \in Flows, Cancel(f)
    PROVE  IInv'
<1>1. Rested /\ FlowTyped' /\ FlowsHold' /\ AcceptedHold' /\ OthersKept(NoOne)
  BY FlowStep, Apart, FlowShape DEF Cancel, Free, IInv
<1>. QED  BY <1>1, NobodyMoves DEF Cancel

LEMMA KeepAdmit ==
    ASSUME IInv, NEW c \in Calls, NEW s \in Sessions, Admit(c, s)
    PROVE  IInv'
<1> DEFINE r == [at |-> "in", session |-> s, user |-> session[s].user]
<1>1. /\ call[c] = Idle /\ Live(s) /\ call' = [call EXCEPT ![c] = r]
      /\ UNCHANGED <<records, holder, flow>>
  BY DEF Admit
<1>2. session[s] \in SessionRow /\ session[s].user \in Users
  BY <1>1, SessionShape DEF IInv, Live, SessionRow
<1>3. r \in CallRow
  BY <1>2 DEF CallRow, SessionCall
<1>4. Rested /\ FlowTyped' /\ FlowsHold' /\ AcceptedHold' /\ OthersKept(c)
  BY <1>1, NoFlowStep
<1>5. call'[c] = r
  BY <1>1 DEF IInv, Typed, CallTyped
<1>6. CallFits(c)'
  BY <1>1, <1>2, <1>5 DEF CallFits, HandlerFits, VisitFits, records
<1>7. CallTyped' /\ CallsFit'
  BY <1>1, <1>3, <1>4, <1>6, CallMoves DEF Rested
<1>8. LocksFit' /\ HolderTyped'
  <2>1. r.at # "flow" /\ call[c].at # "flow"
    BY <1>1 DEF Idle
  <2>. HIDE DEF r
  <2>. QED  BY <1>1, <2>1, LocksStay
<1>. QED  BY <1>4, <1>7, <1>8 DEF Rested, IInv, Typed

LEMMA KeepTick ==
    ASSUME IInv, Tick
    PROVE  IInv'
BY NoFlowStep, NobodyMoves DEF Tick

LEMMA KeepStop ==
    ASSUME IInv, NEW c \in Calls, Stop(c)
    PROVE  IInv'
BY NoFlowStep, MoverEnds DEF Stop

-----------------------------------------------------------------------------
(* Steps that change records but leave factors where they are.               *)

CodesLast ==
    \A u \in Users :
        /\ sheet'[u] >= sheet[u]
        /\ \A k \in codes'[u] : k \in codes[u] \/ k[1] > sheet[u]

LEMMA ProofsGo ==
    ASSUME IInv, CodesLast,
           \A f \in Flows : flow[f] = Spent => flow'[f] = Spent,
           \A f \in Flows : (flow[f] \in FlowRow /\ flow[f].purpose = "finish") =>
                              flow'[f] \in {flow[f], Spent},
           \A p \in Factors : factor[p] # Unused =>
              /\ factor'[p] # Unused
              /\ factor'[p] \in FactorRow =>
                    factor[p] \in FactorRow /\ factor[p].last <= factor'[p].last
    PROVE  ProofsLast
BY DEF ProofsLast, CodesLast

LEMMA CodesRest ==
    ASSUME IInv, UNCHANGED <<sheet, codes>>
    PROVE  CodesLast /\ CodesTyped'
BY DEF CodesLast, IInv, Typed, CodesTyped

LEMMA FactorsRest ==
    ASSUME IInv, UNCHANGED factor
    PROVE  /\ FactorsGrow /\ FactorTyped'
           /\ \A p \in Factors : factor[p] = Unused => factor'[p] = Unused
           /\ \A p \in Factors : factor[p] # Unused =>
                 /\ factor'[p] # Unused
                 /\ factor'[p] \in FactorRow =>
                       factor[p] \in FactorRow /\ factor[p].last <= factor'[p].last
<1>1. \A p \in Factors : factor[p] \in FactorRow => factor[p].last \in Nat
  BY BoundsAssumption DEF FactorRow
<1>. QED  BY <1>1 DEF FactorsGrow, IInv, Typed, FactorTyped

LEMMA FlowsSame ==
    ASSUME IInv, UNCHANGED flow
    PROVE  /\ FlowTyped' /\ \A f \in Flows : flow[f] = Spent => flow'[f] = Spent
           /\ \A f \in Flows : (flow[f] \in FlowRow /\ flow[f].purpose = "finish") =>
                  flow'[f] \in {flow[f], Spent}
BY DEF IInv, Typed, FlowTyped

\* The step leaves flows, factors and codes.
LEMMA ProofsRest ==
    ASSUME IInv, SessionsLast, UNCHANGED <<flow, factor, sheet, codes, accepted>>
    PROVE  FlowTyped' /\ FactorTyped' /\ CodesTyped' /\ FlowsHold' /\ AcceptedHold'
<1>1. FlowsHold'
  BY FactorsRest, FlowsRest
<1>. QED  BY <1>1, FactorsRest, CodesRest, FlowsSame, ProofsGo, AcceptedRests

LEMMA NewSheetFits ==
    ASSUME IInv, NEW u \in Users, NewSheet(u)
    PROVE  CodesLast /\ CodesTyped'
<1>1. /\ sheet'[u] = sheet[u] + 1 /\ codes'[u] = {sheet[u] + 1} \X Slots
      /\ \A v \in Users : v # u => sheet'[v] = sheet[v] /\ codes'[v] = codes[v]
  BY DEF IInv, Typed, CodesTyped, NewSheet
<1>2. \A v \in Users : sheet[v] \in Nat
  BY DEF IInv, Typed, CodesTyped
<1>3. CodesLast
  BY <1>1, <1>2 DEF CodesLast
<1>4. \A v \in Users : codes'[v] \subseteq {sheet'[v]} \X Slots /\ sheet'[v] \in Nat
  BY <1>1, <1>2 DEF IInv, Typed, CodesTyped
<1>5. /\ sheet' = [v \in Users |-> sheet'[v]] /\ codes' = [v \in Users |-> codes'[v]]
      /\ \A v \in Users : codes'[v] \in SUBSET (Nat \X Slots)
  BY <1>4 DEF IInv, Typed, CodesTyped, NewSheet
<1>6. sheet' \in [Users -> Nat] /\ codes' \in [Users -> SUBSET (Nat \X Slots)]
  BY <1>4, <1>5
<1>. QED  BY <1>3, <1>4, <1>6 DEF CodesTyped

LEMMA KeepRegenerate ==
    ASSUME IInv, NEW c \in Calls, Regenerate(c)
    PROVE  IInv'
<1>1. /\ InSession(c) /\ NewSheet(call[c].user) /\ call' = [call EXCEPT ![c] = Idle]
      /\ UNCHANGED <<ident, holder, factor, flow, session, recovery, accepted, clock>>
  BY DEF Regenerate
<1>2. call[c].user \in Users /\ call[c].at = "in"
  BY <1>1, Visitor
<1>3. CodesLast /\ CodesTyped'
  BY <1>1, <1>2, NewSheetFits
<1>4. SessionTyped' /\ SessionsLast /\ LiveSessionIsCurrent'
  BY <1>1, SessionsRest DEF Active
<1>5. Rested
  BY <1>1, <1>3, <1>4, FactorsRest
  DEF Rested, IInv, Typed, IdentTyped, RecoveryTyped, ApprovalsPast
<1>6. FlowsHold'
  BY <1>1, <1>4, FactorsRest, FlowsRest
<1>7. AcceptedHold'
  BY <1>1, <1>3, FactorsRest, FlowsSame, ProofsGo, AcceptedRests
<1>8. OthersKept(c)
  BY <1>1 DEF OthersKept
<1>. QED  BY <1>1, <1>2, <1>5, <1>6, <1>7, <1>8, FlowsSame, MoverEnds

\* A session ends, or is no longer recent.
LEMMA SessionOnly ==
    ASSUME IInv, NEW s \in Sessions, NEW q \in SessionRow, q = session[s], NEW r \in SessionRow,
           session' = [session EXCEPT ![s] = r],
           r.user = q.user, r.st = "live" => q.st = "live" /\ r.ver = q.ver /\ r.era = q.era,
           UNCHANGED <<ident, holder, factor, sheet, codes, flow, recovery, accepted, clock, call>>
    PROVE  IInv'
<1>1. SessionTyped' /\ SessionsLast /\ LiveSessionIsCurrent'
  BY SessionMarked
<1>2. FlowTyped' /\ FactorTyped' /\ CodesTyped' /\ FlowsHold' /\ AcceptedHold'
  BY <1>1, ProofsRest
<1>3. Rested
  BY <1>1, <1>2 DEF Rested, IInv, Typed, IdentTyped, RecoveryTyped, ApprovalsPast
<1>4. OthersKept(NoOne)
  BY DEF OthersKept
<1>. QED  BY <1>2, <1>3, <1>4, NobodyMoves

LEMMA KeepEndSession ==
    ASSUME IInv, NEW s \in Sessions, EndSession(s)
    PROVE  IInv'
<1>1. PICK q \in SessionRow : q = session[s]
  BY SessionShape DEF EndSession, Live, IInv
<1>2. PICK r : r = [q EXCEPT !.st = "revoked"]
  OBVIOUS
<1>3. r \in SessionRow /\ r.st = "revoked" /\ r.user = q.user
  BY <1>2, SessionMark
<1>4. session' = [session EXCEPT ![s] = r]
  BY <1>1, <1>2 DEF EndSession
<1>. QED  BY <1>1, <1>3, <1>4, SessionOnly DEF EndSession

LEMMA KeepStale ==
    ASSUME IInv, NEW s \in Sessions, Stale(s)
    PROVE  IInv'
<1>1. PICK q \in SessionRow : q = session[s]
  BY SessionShape DEF Stale, Live, IInv
<1>2. PICK r : r = [q EXCEPT !.recent = FALSE]
  OBVIOUS
<1>3. r \in SessionRow /\ r.st = q.st /\ r.user = q.user /\ r.ver = q.ver /\ r.era = q.era
  BY <1>2, RecentMark
<1>4. session' = [session EXCEPT ![s] = r]
  BY <1>1, <1>2 DEF Stale
<1>. QED  BY <1>1, <1>3, <1>4, SessionOnly DEF Stale

LEMMA KeepRecoveryExpires ==
    ASSUME IInv, NEW r \in Recoveries, RecoveryExpires(r)
    PROVE  IInv'
<1>1. Quiet /\ UNCHANGED flow
  BY DEF RecoveryExpires, Quiet
<1>2. Rested /\ FlowTyped' /\ FlowsHold' /\ AcceptedHold' /\ OthersKept(NoOne)
  BY <1>1, NoFlowStep
<1>. QED  BY <1>2, NobodyMoves DEF RecoveryExpires

LEMMA KeepRecover ==
    ASSUME IInv, NEW r \in Recoveries, NEW f \in Flows, Recover(r, f)
    PROVE  IInv'
<1>1. Quiet /\ recovery[r] \in RecoveryRow /\ Open(f, recovery[r].user, "recovery", NoOne)
  BY RecoveryShape DEF Recover, Quiet, IInv
<1>2. PICK u \in Users : u = recovery[r].user
  BY <1>1 DEF RecoveryRow
<1>3. Rested /\ FlowTyped' /\ FlowsHold' /\ AcceptedHold' /\ OthersKept(NoOne)
  BY <1>1, <1>2, OpenStep
<1>. QED  BY <1>3, NobodyMoves DEF Recover

LEMMA KeepNewCredentials ==
    ASSUME IInv, NEW u \in Users, NewCredentials(u)
    PROVE  IInv'
<1>1. /\ holder[u] = NoOne /\ ident[u].ver + ident[u].era < MaxChanges /\ Revokes(u)
      /\ UNCHANGED <<holder, factor, sheet, codes, flow, recovery, accepted, clock, call>>
  BY DEF NewCredentials, Free, Revokes
<1>2. PICK q \in Ident : q = ident[u]
  BY DEF IInv, Typed, IdentTyped
<1>3. PICK r : r = [q EXCEPT !.era = q.era + 1]
  OBVIOUS
<1>4. r \in Ident /\ r.ver = q.ver /\ r.era = q.era + 1
  BY <1>3 DEF Ident
<1>5. ident' = [ident EXCEPT ![u] = r]
  BY <1>2, <1>3 DEF NewCredentials
<1>6. ident'[u] = r /\ \A v \in Users \ {u} : ident'[v] = ident[v]
  BY <1>5 DEF IInv, Typed, IdentTyped
<1>7. SessionTyped' /\ SessionsLast /\ LiveSessionIsCurrent'
  BY <1>1, <1>6, SessionsRevoked DEF Active
<1>8. FlowTyped' /\ FactorTyped' /\ CodesTyped' /\ FlowsHold' /\ AcceptedHold'
  BY <1>1, <1>7, ProofsRest
<1>9. IdentTyped'
  <2>1. ident' \in [Users -> Ident]
    BY <1>4, <1>5 DEF IInv, Typed, IdentTyped
  <2>2. \A v \in Users : ident'[v].ver + ident'[v].era <= MaxChanges
    BY <1>1, <1>2, <1>4, <1>6, BoundsAssumption DEF IInv, Typed, IdentTyped, Ident
  <2>. QED  BY <2>1, <2>2 DEF IdentTyped
<1>10. RecoveryTyped' /\ ApprovalsPast'
  <2>1. \A v \in Users : ident'[v].ver = ident[v].ver
    BY <1>2, <1>4, <1>6
  <2>2. \A x \in Recoveries : recovery[x] \in RecoveryRow => recovery[x].user \in Users
    BY DEF RecoveryRow
  <2>. QED  BY <1>1, <2>1, <2>2 DEF IInv, Typed, RecoveryTyped, ApprovalsPast
<1>11. OthersKept(NoOne)
  BY <1>1, <1>6 DEF OthersKept
<1>. QED  BY <1>1, <1>7, <1>8, <1>9, <1>10, <1>11, NobodyMoves DEF Rested

-----------------------------------------------------------------------------
(* The end of a flow: verified, and the proofs that lead to it.              *)

LEMMA StoredFlow ==
    ASSUME IInv, NEW c \in Calls, InFlow(c), NEW r \in {Spent} \cup FlowRow, Store(c, r),
           \A u \in Users : u # call[c].user => ident'[u] = ident[u]
    PROVE  /\ FlowTyped' /\ OthersKept(c) /\ flow'[call[c].flow] = r
           /\ \A h \in Flows : h # call[c].flow => flow'[h] = flow[h]
<1>1. /\ call[c].flow \in Flows /\ holder[call[c].user] = c
      /\ flow[call[c].flow].user = call[c].user
  BY Handler
<1>2. /\ flow'[call[c].flow] = r /\ \A h \in Flows : h # call[c].flow => flow'[h] = flow[h]
      /\ FlowTyped'
  BY <1>1 DEF IInv, Typed, FlowTyped, Store
<1>3. OthersKept(c)
  BY <1>1, <1>2 DEF OthersKept
<1>. QED  BY <1>2, <1>3

\* A flow that is spent leaves the others what they are entitled to.
LEMMA SpentFlow ==
    ASSUME IInv, SessionsLast, NEW c \in Calls, InFlow(c), Store(c, Spent),
           FactorTyped', FactorsGrow,
           \A p \in Factors : factor[p] = Unused /\ p # call[c].row.factor => factor'[p] = Unused
    PROVE  FlowsHold'
<1>1. /\ call[c].flow \in Flows
      /\ \A h \in Flows : h # call[c].flow /\ flow[h] \in FlowRow =>
            call[c].row.factor = NoOne \/ flow[h].factor # call[c].row.factor
  BY Handler
<1>2. flow'[call[c].flow] = Spent /\ \A h \in Flows : h # call[c].flow => flow'[h] = flow[h]
  BY <1>1 DEF IInv, Typed, FlowTyped, Store
<1>3. \A h \in Flows : Active(flow[h].user) # {} => ActiveNext(flow[h].user) # {}
  BY ActiveStays
<1>4. ASSUME NEW h \in Flows, flow'[h] \in FlowRow
      PROVE  /\ flow'[h] = flow[h]
             /\ Active(flow[h].user) # {} => ActiveNext(flow[h].user) # {}
             /\ \A p \in Factors : (factor[p] = Unused /\ flow[h].factor = p) => factor'[p] = Unused
  <2>1. h # call[c].flow /\ flow'[h] = flow[h] /\ flow[h] \in FlowRow
    BY <1>2, <1>4, Apart
  <2>2. \A p \in Factors : flow[h].factor = p => p # call[c].row.factor
    BY <1>1, <2>1, NamesAssumption
  <2>. QED  BY <2>1, <2>2, <1>3
<1>. QED  BY <1>4, FlowsStand

\* The session that Conclude opens or confirms.
LEMMA ConcludedSession ==
    ASSUME IInv, NEW c \in Calls, NEW s \in Sessions, InFlow(c), Conclude(c, s),
           Purpose(c) \in {"login", "reauth", "finish"},
           \A u \in Users : /\ ident'[u].ver = ident[u].ver /\ ident'[u].era = ident[u].era
                            /\ ident'[u].pending => ident[u].pending
                            /\ Active(u) # {} => Active(u)' # {},
           ~ident'[call[c].user].pending, Active(call[c].user) # {}
    PROVE  SessionTyped' /\ SessionsLast /\ LiveSessionIsCurrent'
<1>1. PICK u \in Users :
        /\ u = call[c].user /\ call[c].row \in FlowRow /\ call[c].row.user = u
        /\ call[c].row.fp = Fingerprint(u) /\ Entitled(call[c].row)
  BY Handler
<1>2. PICK r \in SessionRow :
        /\ session' = [session EXCEPT ![s] = r]
        /\ \/ /\ session[s] = Unused /\ r.user = u /\ r.ver = ident[u].ver /\ r.era = ident[u].era
           \/ /\ session[s] \in SessionRow /\ r.user = session[s].user /\ r.st = session[s].st
              /\ r.ver = session[s].ver /\ r.era = session[s].era
  <2>1. CASE Purpose(c) = "reauth"
    <3>1. s = call[c].row.session /\ session' = [session EXCEPT ![s].recent = TRUE]
      BY <2>1 DEF Conclude
    <3>2. PICK q \in SessionRow : q = session[s]
      BY <1>1, <2>1, <3>1, NamesAssumption DEF Entitled, Purpose
    <3>3. PICK r : r = [q EXCEPT !.recent = TRUE]
      OBVIOUS
    <3>. QED  BY <3>1, <3>2, <3>3, RecentMark
  <2>2. CASE Purpose(c) # "reauth"
    <3> DEFINE r == [st |-> "live", user |-> call[c].row.user, ver |-> call[c].row.fp[1],
                     era |-> call[c].row.fp[2], recent |-> TRUE]
    <3>1. session[s] = Unused /\ session' = [session EXCEPT ![s] = r]
      BY <2>2 DEF Conclude
    <3>2. call[c].row.fp[1] = ident[u].ver /\ call[c].row.fp[2] = ident[u].era
      BY <1>1 DEF Fingerprint
    <3>3. r \in SessionRow /\ r.user = u /\ r.ver = ident[u].ver /\ r.era = ident[u].era
      BY <1>1, <3>2, FingerprintTyped DEF SessionRow
    <3>. HIDE DEF r
    <3>. QED  BY <3>1, <3>3
  <2>. QED  BY <2>1, <2>2
<1>3. session'[s] = r /\ \A t \in Sessions : t # s => session'[t] = session[t]
  BY <1>2 DEF IInv, Typed, SessionTyped
<1>4. SessionTyped'
  BY <1>2 DEF IInv, Typed, SessionTyped
<1>5. SessionsLast
  BY <1>2, <1>3, Apart DEF SessionsLast
<1>6. LiveSessionIsCurrent'
  <2>. SUFFICES ASSUME NEW t \in Sessions, session'[t].st = "live"
                PROVE  /\ session'[t].ver = ident'[session'[t].user].ver
                       /\ session'[t].era = ident'[session'[t].user].era
                       /\ ActiveNext(session'[t].user) # {}
                       /\ ~ident'[session'[t].user].pending
    BY DEF LiveSessionIsCurrent, Live, Active, ActiveNext
  <2>1. PICK v \in Users :
          /\ v = session'[t].user
          /\ session'[t].ver = ident[v].ver /\ session'[t].era = ident[v].era
          /\ Active(v) # {} /\ ~ident'[v].pending
    <3>1. CASE t = s /\ session[s] = Unused
      BY <1>1, <1>2, <1>3, <3>1, Apart
    <3>2. CASE ~(t = s /\ session[s] = Unused)
      <4>1. /\ session[t].st = "live" /\ session'[t].user = session[t].user
            /\ session'[t].ver = session[t].ver /\ session'[t].era = session[t].era
        BY <1>2, <1>3, <3>2
      <4>2. PICK v \in Users : v = session[t].user
        BY <4>1, SessionShape DEF IInv, SessionRow
      <4>3. /\ session[t].ver = ident[v].ver /\ session[t].era = ident[v].era
            /\ Active(v) # {} /\ ~ident[v].pending
        BY <4>1, <4>2 DEF IInv, LiveSessionIsCurrent, Live
      <4>4. ~ident'[v].pending
        BY <4>3
      <4>. QED  BY <4>1, <4>2, <4>3, <4>4
    <3>. QED  BY <3>1, <3>2
  <2>2. Active(v)' # {}
    BY <2>1
  <2>3. ActiveNext(session'[t].user) = Active(v)'
    BY <2>1 DEF Active, ActiveNext
  <2>. QED  BY <2>1, <2>2, <2>3
<1>. QED  BY <1>4, <1>5, <1>6

LEMMA ConcludeStep ==
    ASSUME IInv, NEW c \in Calls, NEW s \in Sessions, InFlow(c), Conclude(c, s),
           Purpose(c) \in {"login", "reauth", "finish"}, IdentTyped',
           \A u \in Users : /\ ident'[u].ver = ident[u].ver /\ ident'[u].era = ident[u].era
                            /\ ident'[u].pending => ident[u].pending
                            /\ u # call[c].user => ident'[u] = ident[u],
           ~ident'[call[c].user].pending, Active(call[c].user) # {},
           FactorTyped', FactorsGrow, CodesTyped', UNCHANGED recovery,
           \A p \in Factors : factor[p] = Unused => factor'[p] = Unused,
           AcceptedHold'
    PROVE  IInv'
<1>1. Store(c, Spent) /\ Release(c)
  BY DEF Conclude
<1>2. \A u \in Users : Active(u) # {} => Active(u)' # {}
  BY ActiveStays
<1>3. SessionTyped' /\ SessionsLast /\ LiveSessionIsCurrent'
  BY <1>2, ConcludedSession
<1>4. FlowTyped' /\ OthersKept(c)
  BY <1>1, StoredFlow
<1>5. FlowsHold'
  BY <1>1, <1>3, SpentFlow
<1>6. RecoveryTyped' /\ ApprovalsPast'
  <2>1. \A x \in Recoveries : recovery[x] \in RecoveryRow => recovery[x].user \in Users
    BY DEF RecoveryRow
  <2>. QED  BY <2>1 DEF IInv, Typed, RecoveryTyped, ApprovalsPast
<1>. QED  BY <1>1, <1>3, <1>4, <1>5, <1>6, MoverEnds DEF Rested

\* A flow under way has accepted nothing yet.
LEMMA FreshFlow ==
    ASSUME IInv, NEW c \in Calls, InFlow(c), Purpose(c) # "finish", NEW x \in accepted
    PROVE  x.flow # call[c].flow
BY Handler, Apart DEF IInv, AcceptedHold, AcceptedFlow, Purpose

\* A step of a factor that was not used, and a code still on its sheet, were not accepted.
LEMMA FreshTotp ==
    ASSUME IInv, NEW p \in Factors, NEW t \in Nat,
           factor[p] = Unused \/ (factor[p] \in FactorRow /\ t > factor[p].last),
           NEW x \in accepted
    PROVE  x.proof # <<"totp", p, t>>
<1>1. AcceptedProof(x)
  BY DEF IInv, AcceptedHold
<1>2. factor[p] \in FactorRow => factor[p].last \in Nat
  BY BoundsAssumption DEF FactorRow
<1>. QED  BY <1>1, <1>2, Apart DEF AcceptedProof

LEMMA FreshCode ==
    ASSUME IInv, NEW u \in Users, NEW k \in codes[u], NEW x \in accepted
    PROVE  x.proof # <<"code", u, k>>
BY DEF IInv, AcceptedHold, AcceptedProof

\* Handlers that end their flow add nothing to what it accepted, or one proof.
LEMMA ConcludeProofs ==
    ASSUME IInv, NEW c \in Calls, InFlow(c), Store(c, Spent), CodesLast,
           \A p \in Factors : factor[p] # Unused =>
              /\ factor'[p] # Unused
              /\ factor'[p] \in FactorRow =>
                    factor[p] \in FactorRow /\ factor[p].last <= factor'[p].last
    PROVE  ProofsLast
<1>1. call[c].flow \in Flows
  BY Handler
<1>2. flow'[call[c].flow] = Spent /\ \A h \in Flows : h # call[c].flow => flow'[h] = flow[h]
  BY <1>1 DEF IInv, Typed, FlowTyped, Store
<1>. QED  BY <1>2, ProofsGo

LEMMA KeepFinish ==
    ASSUME IInv, NEW c \in Calls, NEW s \in Sessions, Finish(c, s)
    PROVE  IInv'
<1>1. /\ InFlow(c) /\ Purpose(c) = "finish" /\ Active(call[c].user) # {} /\ Conclude(c, s)
      /\ Store(c, Spent) /\ UNCHANGED <<factor, sheet, codes, recovery, accepted>>
  BY DEF Finish, Conclude
<1>2. PICK u \in Users : u = call[c].user
  BY <1>1, Handler
<1>3. PICK q \in Ident : q = ident[u]
  BY DEF IInv, Typed, IdentTyped
<1>4. PICK r : r = [q EXCEPT !.pending = FALSE]
  OBVIOUS
<1>5. r \in Ident /\ r.ver = q.ver /\ r.era = q.era /\ ~r.pending
  BY <1>4, Zenon DEF Ident
<1>6. ident' = [ident EXCEPT ![u] = r]
  BY <1>2, <1>3, <1>4 DEF Finish
<1>7. ident'[u] = r /\ \A v \in Users : v # u => ident'[v] = ident[v]
  BY <1>6 DEF IInv, Typed, IdentTyped
<1>8. IdentTyped'
  <2>1. ident' \in [Users -> Ident]
    BY <1>5, <1>6 DEF IInv, Typed, IdentTyped
  <2>2. \A v \in Users : ident'[v].ver + ident'[v].era <= MaxChanges
    BY <1>3, <1>5, <1>7 DEF IInv, Typed, IdentTyped
  <2>. QED  BY <2>1, <2>2 DEF IdentTyped
<1>9. AcceptedHold'
  BY <1>1, FactorsRest, CodesRest, ConcludeProofs, AcceptedRests
<1>. QED
  BY <1>1, <1>2, <1>3, <1>5, <1>7, <1>8, <1>9, FactorsRest, CodesRest, ConcludeStep

LEMMA NotPending ==
    ASSUME IInv, NEW c \in Calls, InFlow(c), Purpose(c) \in {"login", "reauth"}
    PROVE  ~ident[call[c].user].pending /\ Active(call[c].user) # {}
BY Handler DEF Purpose, Entitled

LEMMA IdentRests ==
    ASSUME IInv, UNCHANGED ident
    PROVE  IdentTyped'
BY DEF IInv, Typed, IdentTyped

LEMMA KeepByPasskey ==
    ASSUME IInv, NEW c \in Calls, NEW p \in Factors, NEW s \in Sessions, ByPasskey(c, p, s)
    PROVE  IInv'
<1>1. /\ InFlow(c) /\ Purpose(c) \in {"login", "reauth"} /\ Conclude(c, s) /\ Store(c, Spent)
      /\ UNCHANGED <<ident, factor, sheet, codes, recovery, accepted>>
  BY DEF ByPasskey, Conclude
<1>2. AcceptedHold'
  BY <1>1, FactorsRest, CodesRest, ConcludeProofs, AcceptedRests
<1>. QED  BY <1>1, <1>2, NotPending, IdentRests, FactorsRest, CodesRest, ConcludeStep

LEMMA KeepByRecoveryCode ==
    ASSUME IInv, NEW c \in Calls, NEW k, NEW s \in Sessions, ByRecoveryCode(c, k, s)
    PROVE  IInv'
<1>1. /\ InFlow(c) /\ Purpose(c) = "login" /\ Conclude(c, s) /\ Store(c, Spent)
      /\ UNCHANGED <<ident, factor, sheet, recovery>>
  BY DEF ByRecoveryCode, Conclude
<1>2. PICK u \in Users : u = call[c].user
  BY <1>1, Handler
<1>3. /\ k \in codes[u] /\ codes' = [codes EXCEPT ![u] = @ \ {k}]
      /\ Accept(c, <<"code", u, k>>)
  BY <1>2 DEF ByRecoveryCode
<1>4. k \in Nat \X Slots /\ k \in {sheet[u]} \X Slots /\ sheet[u] \in Nat
  BY <1>3 DEF IInv, Typed, CodesTyped
<1>5. codes'[u] = codes[u] \ {k} /\ \A v \in Users : v # u => codes'[v] = codes[v]
  BY <1>3 DEF IInv, Typed, CodesTyped
<1>6. CodesTyped'
  <2>1. codes' \in [Users -> SUBSET (Nat \X Slots)]
    BY <1>3 DEF IInv, Typed, CodesTyped
  <2>2. \A v \in Users : codes'[v] \subseteq {sheet'[v]} \X Slots
    BY <1>1, <1>5 DEF IInv, Typed, CodesTyped
  <2>. QED  BY <1>1, <2>1, <2>2 DEF IInv, Typed, CodesTyped
<1>7. CodesLast
  BY <1>1, <1>5 DEF CodesLast, IInv, Typed, CodesTyped
<1>8. ProofsLast
  BY <1>1, <1>7, FactorsRest, ConcludeProofs
<1>9. AcceptedHold'
  <2>0. PICK y : y = [proof |-> <<"code", u, k>>, flow |-> call[c].flow]
    OBVIOUS
  <2>1. accepted' = accepted \cup {y}
    BY <1>3, <2>0 DEF Accept
  <2>2. AcceptedFlow(y)'
    <3>1. call[c].flow \in Flows /\ flow'[call[c].flow] = Spent
      BY <1>1, Handler, StoredFlow
    <3>2. y.flow = call[c].flow
      BY <2>0
    <3>3. y.flow \in Flows /\ flow'[y.flow] = Spent
      BY <3>1, <3>2
    <3>. QED  BY <3>3 DEF AcceptedFlow
  <2>3. AcceptedProof(y)'
    BY <1>1, <1>4, <1>5, <2>0 DEF AcceptedProof
  <2>4. \A x \in accepted : x.flow # y.flow /\ x.proof # y.proof
    BY <1>1, <1>3, <2>0, FreshFlow, FreshCode
  <2>. QED  BY <1>1, <1>6, <1>8, <2>1, <2>2, <2>3, <2>4, FactorsRest, AcceptedGrows
<1>. QED  BY <1>1, <1>6, <1>9, NotPending, IdentRests, FactorsRest, ConcludeStep

LEMMA KeepByTotp ==
    ASSUME IInv, NEW c \in Calls, NEW p \in Factors, NEW t \in 1 .. MaxTime,
           NEW s \in Sessions, ByTotp(c, p, t, s)
    PROVE  IInv'
<1>1. /\ InFlow(c) /\ Purpose(c) \in {"login", "reauth"} /\ Conclude(c, s) /\ Store(c, Spent)
      /\ factor[p].st = "active" /\ t > factor[p].last
      /\ Accept(c, <<"totp", p, t>>) /\ UNCHANGED <<ident, sheet, codes, recovery>>
  BY DEF ByTotp, Conclude, Newer, Active
<1>2. PICK q \in FactorRow : q = factor[p]
  BY <1>1, FactorShape DEF IInv
<1>3. PICK r : r = [q EXCEPT !.last = t]
  OBVIOUS
<1>4. t \in Nat /\ t \in 0 .. MaxTime /\ q.last \in Nat /\ q.last < t
  BY <1>1, <1>2, BoundsAssumption DEF FactorRow
<1>5. r \in FactorRow /\ r.last = t /\ r.user = q.user
  BY <1>3, <1>4 DEF FactorRow
<1>6. factor' = [factor EXCEPT ![p] = r]
  BY <1>2, <1>3 DEF ByTotp
<1>7. factor'[p] = r /\ \A o \in Factors : o # p => factor'[o] = factor[o]
  BY <1>6 DEF IInv, Typed, FactorTyped
<1>8. FactorTyped'
  BY <1>5, <1>6 DEF IInv, Typed, FactorTyped
<1>9. \A o \in Factors : factor[o] \in FactorRow => factor[o].last \in Nat
  BY BoundsAssumption DEF FactorRow
<1>10. factor[p] \in FactorRow /\ factor[p] # Unused /\ factor[p] # Revoked
  BY <1>2, Apart
<1>11. FactorsGrow
  BY <1>2, <1>4, <1>5, <1>7, <1>9, <1>10 DEF FactorsGrow
<1>12. \A o \in Factors : factor[o] # Unused =>
         /\ factor'[o] # Unused
         /\ factor'[o] \in FactorRow =>
               factor[o] \in FactorRow /\ factor[o].last <= factor'[o].last
  BY <1>2, <1>4, <1>5, <1>7, <1>9, <1>10, Apart
<1>13. ProofsLast
  BY <1>1, <1>12, CodesRest, ConcludeProofs
<1>14. AcceptedHold'
  <2>0. PICK y : y = [proof |-> <<"totp", p, t>>, flow |-> call[c].flow]
    OBVIOUS
  <2>1. accepted' = accepted \cup {y}
    BY <1>1, <2>0 DEF Accept
  <2>2. AcceptedFlow(y)'
    <3>1. call[c].flow \in Flows /\ flow'[call[c].flow] = Spent
      BY <1>1, Handler, StoredFlow
    <3>2. y.flow = call[c].flow
      BY <2>0
    <3>. QED  BY <3>1, <3>2 DEF AcceptedFlow
  <2>3. AcceptedProof(y)'
    <3>1. factor'[p] # Unused /\ (factor'[p] \in FactorRow => t <= factor'[p].last)
      BY <1>4, <1>5, <1>7, Apart
    <3>2. y.proof = <<"totp", p, t>>
      BY <2>0
    <3>. QED  BY <1>4, <3>1, <3>2 DEF AcceptedProof
  <2>4. \A x \in accepted : x.flow # y.flow /\ x.proof # y.proof
    BY <1>1, <1>4, <1>10, <2>0, FreshFlow, FreshTotp
  <2>. QED  BY <1>1, <1>8, <1>13, <2>1, <2>2, <2>3, <2>4, CodesRest, AcceptedGrows
<1>15. \A o \in Factors : factor[o] = Unused => factor'[o] = Unused
  BY <1>7, <1>10
<1>. QED
  BY <1>1, <1>8, <1>11, <1>14, <1>15, NotPending, IdentRests, CodesRest, ConcludeStep

-----------------------------------------------------------------------------
(* A factor is enrolled.                                                     *)

LEMMA KeepEnrol ==
    ASSUME IInv, NEW c \in Calls, NEW t \in 0 .. MaxTime, Enrol(c, t)
    PROVE  IInv'
<1>1. PICK row \in FlowRow, u \in Users, f \in Flows :
        /\ row = call[c].row /\ u = call[c].user /\ f = call[c].flow /\ flow[f] = row
        /\ row.user = u /\ Entitled(row)
        /\ \A h \in Flows : h # f /\ flow[h] \in FlowRow =>
              row.factor = NoOne \/ flow[h].factor # row.factor
  BY Handler DEF Enrol
<1>2. PICK p : p = row.factor
  OBVIOUS
<1>3. PICK new : new = [st |-> "active", user |-> u, kind |-> row.ceremony, last |-> t]
  OBVIOUS
<1>4. PICK done : done = [row EXCEPT !.purpose = "finish", !.ceremony = "none"]
  OBVIOUS
<1>5. PICK r : r = IF row.purpose = "manage" THEN Spent ELSE done
  OBVIOUS
<1>6. /\ InFlow(c) /\ row.purpose \in {"setup", "manage", "recovery"} /\ Purpose(c) = row.purpose
      /\ row.ceremony \in {"totp", "passkey"} /\ Release(c) /\ Store(c, r)
      /\ factor' = [factor EXCEPT ![p] = new]
      /\ UNCHANGED <<ident, session, recovery>>
  BY <1>1, <1>2, <1>3, <1>4, <1>5 DEF Enrol, MayEnrol, Purpose
<1>7. IF row.purpose = "manage" THEN UNCHANGED <<sheet, codes>> ELSE NewSheet(u)
  BY <1>1 DEF Enrol, Purpose
<1>8. IF row.ceremony = "totp" THEN t \in Window /\ Accept(c, <<"totp", p, t>>)
      ELSE UNCHANGED accepted
  BY <1>1, <1>2 DEF Enrol
<1>9. p \in Factors /\ factor[p] = Unused /\ p # NoOne
  BY <1>1, <1>2, <1>6 DEF Entitled, FlowRow
<1>10. new \in FactorRow /\ new.last = t /\ new.user = u
  BY <1>1, <1>3, <1>6 DEF FactorRow
<1>11. /\ done \in FlowRow /\ done.purpose = "finish" /\ done.ceremony = "none"
       /\ done.factor = p /\ done.session = row.session /\ done.user = u
  BY <1>1, <1>2, <1>4 DEF FlowRow
<1>12. r \in {Spent} \cup FlowRow /\ (r # Spent => r = done /\ row.purpose # "manage")
  BY <1>5, <1>11
<1>13. factor'[p] = new /\ \A o \in Factors : o # p => factor'[o] = factor[o]
  BY <1>6, <1>9 DEF IInv, Typed, FactorTyped
<1>14. FactorTyped'
  BY <1>6, <1>10 DEF IInv, Typed, FactorTyped
<1>15. \A o \in Factors : factor[o] \in FactorRow => factor[o].last \in Nat
  BY BoundsAssumption DEF FactorRow
<1>16. FactorsGrow
  BY <1>9, <1>10, <1>13, <1>15, Apart, FactorShape DEF FactorsGrow, IInv
<1>17. CodesLast /\ CodesTyped'
  BY <1>7, CodesRest, NewSheetFits
<1>18. \A v \in Users : Active(v) # {} => Active(v)' # {}
  BY <1>14, <1>16, ActiveStays
<1>19. SessionTyped' /\ SessionsLast /\ LiveSessionIsCurrent'
  BY <1>6, <1>18, SessionsRest
<1>20. Rested
  BY <1>6, <1>14, <1>17, <1>19, IdentRests
  DEF Rested, IInv, Typed, RecoveryTyped, ApprovalsPast
<1>21. /\ FlowTyped' /\ OthersKept(c) /\ flow'[f] = r
       /\ \A h \in Flows : h # f => flow'[h] = flow[h]
  BY <1>1, <1>6, <1>12, StoredFlow
<1>22. FlowsHold'
  <2>1. \A h \in Flows : h # f /\ flow'[h] \in FlowRow =>
            /\ flow'[h] = flow[h]
            /\ Active(flow[h].user) # {} => ActiveNext(flow[h].user) # {}
            /\ \A o \in Factors : (factor[o] = Unused /\ flow[h].factor = o) => factor'[o] = Unused
    BY <1>1, <1>2, <1>9, <1>13, <1>14, <1>16, <1>21, ActiveStays
  <2>2. flow'[f] \in FlowRow => flow'[f] = done /\ row.purpose # "manage"
    BY <1>12, <1>21, Apart
  <2>3. flow'[f] \in FlowRow => FlowSession(f)' /\ FlowHasFactor(f)' /\ FlowReserves(f)'
    BY <1>1, <1>6, <1>11, <2>2 DEF FlowSession, FlowHasFactor, FlowReserves, Enrols, Entitled
  <2>4. flow'[f] \in FlowRow =>
            /\ FlowSession(f)' /\ FlowHasFactor(f)' /\ FlowReserves(f)'
            /\ \A h \in Flows : h # f /\ flow'[h] \in FlowRow =>
                  flow'[f].factor = NoOne \/ flow'[h].factor # flow'[f].factor
    BY <1>1, <1>2, <1>9, <1>11, <2>1, <2>2, <2>3
  <2>. QED  BY <1>19, <2>1, <2>4, FlowsKept, ZenonT(60)
<1>23. ProofsLast
  <2>1. row.purpose # "finish" /\ row # Spent
    BY <1>1, <1>6, Apart
  <2>2. \A h \in Flows : /\ flow[h] = Spent => flow'[h] = Spent
                         /\ (flow[h] \in FlowRow /\ flow[h].purpose = "finish") =>
                               flow'[h] \in {flow[h], Spent}
    BY <1>1, <1>21, <2>1
  <2>3. \A o \in Factors : factor[o] # Unused =>
           /\ factor'[o] # Unused
           /\ factor'[o] \in FactorRow =>
                 factor[o] \in FactorRow /\ factor[o].last <= factor'[o].last
    BY <1>9, <1>13, <1>15
  <2>. QED  BY <1>17, <2>2, <2>3, ProofsGo
<1>24. AcceptedHold'
  <2>1. CASE row.ceremony = "totp"
    <3>0. PICK y : y = [proof |-> <<"totp", p, t>>, flow |-> f]
      OBVIOUS
    <3>1. accepted' = accepted \cup {y}
      BY <1>1, <1>8, <2>1, <3>0 DEF Accept
    <3>2. AcceptedFlow(y)'
      <4>1. y.flow = f
        BY <3>0
      <4>. QED  BY <1>1, <1>11, <1>12, <1>21, <4>1 DEF AcceptedFlow
    <3>3. AcceptedProof(y)'
      <4>1. factor'[p] # Unused /\ (factor'[p] \in FactorRow => t <= factor'[p].last)
        BY <1>10, <1>13, Apart, BoundsAssumption
      <4>2. y.proof = <<"totp", p, t>>
        BY <3>0
      <4>. QED  BY <1>9, <4>1, <4>2, BoundsAssumption DEF AcceptedProof
    <3>4. \A x \in accepted : x.flow # y.flow /\ x.proof # y.proof
      <4>1. t \in Nat
        BY BoundsAssumption
      <4>. QED  BY <1>1, <1>6, <1>9, <3>0, <4>1, FreshFlow, FreshTotp
    <3>. QED  BY <1>14, <1>17, <1>23, <3>1, <3>2, <3>3, <3>4, AcceptedGrows
  <2>2. CASE row.ceremony # "totp"
    BY <1>8, <1>14, <1>17, <1>23, <2>2, AcceptedRests
  <2>. QED  BY <2>1, <2>2
<1>. QED  BY <1>6, <1>20, <1>21, <1>22, <1>24, MoverEnds

-----------------------------------------------------------------------------
(* What an operator or a removal takes away.                                 *)

LEMMA InvalidateStep ==
    ASSUME IInv, NEW c, NEW u \in Users, holder[u] = NoOne, Invalidate(u),
           NEW q \in Ident, q = ident[u], NEW r \in Ident, r.ver = q.ver + 1, r.era = q.era,
           ident' = [ident EXCEPT ![u] = r],
           FactorTyped',
           \A p \in Factors :
              \/ factor'[p] = factor[p]
              \/ factor[p] \in FactorRow /\ factor[p].user = u /\ factor'[p] = Revoked,
           UNCHANGED <<sheet, accepted>>, CodesTyped', \A v \in Users : codes'[v] \subseteq codes[v],
           RecoveryTyped', ApprovalsPast'
    PROVE  Rested /\ FlowTyped' /\ FlowsHold' /\ AcceptedHold' /\ OthersKept(c)
<1>1. ident'[u] = r /\ \A v \in Users \ {u} : ident'[v] = ident[v]
  BY DEF IInv, Typed, IdentTyped
<1>2. IdentTyped'
  <2>1. ident' \in [Users -> Ident]
    BY DEF IInv, Typed, IdentTyped
  <2>2. q.ver \in Nat /\ q.era \in Nat /\ q.ver + q.era < MaxChanges
    BY DEF Invalidate, Ident
  <2>3. \A v \in Users : ident'[v].ver + ident'[v].era <= MaxChanges
    BY <1>1, <2>2, BoundsAssumption DEF IInv, Typed, IdentTyped
  <2>. QED  BY <2>1, <2>3 DEF IdentTyped
<1>3. \A v : v # u => Active(v) \subseteq ActiveNext(v)
  BY DEF Active, ActiveNext, FactorRow
<1>4. \A v \in Users \ {u} : Active(v) # {} => Active(v)' # {}
  BY <1>3 DEF Active, ActiveNext
<1>5. SessionTyped' /\ SessionsLast /\ LiveSessionIsCurrent'
  BY <1>1, <1>4, SessionsRevoked DEF Invalidate, Revokes
<1>6. \A f \in Flows :
         \/ flow'[f] = flow[f] /\ ~(flow[f] \in FlowRow /\ flow[f].user = u)
         \/ flow[f] \in FlowRow /\ flow[f].user = u /\ flow'[f] = Spent
  BY FlowShape DEF Invalidate, IInv
<1>7. FlowTyped'
  <2>1. \A f \in Flows : flow'[f] \in {Unused, Spent} \cup FlowRow
    BY <1>6 DEF IInv, Typed, FlowTyped
  <2>. QED  BY <2>1 DEF FlowTyped, Invalidate
<1>8. FlowsHold'
  <2>1. ASSUME NEW f \in Flows, flow'[f] \in FlowRow
        PROVE  /\ flow'[f] = flow[f]
               /\ Active(flow[f].user) # {} => ActiveNext(flow[f].user) # {}
               /\ \A p \in Factors : (factor[p] = Unused /\ flow[f].factor = p) => factor'[p] = Unused
    <3>1. flow'[f] = flow[f] /\ flow[f].user # u
      BY <1>6, <2>1, Apart
    <3>2. \A p \in Factors : factor[p] = Unused => factor'[p] = Unused
      BY Apart
    <3>. QED  BY <1>3, <3>1, <3>2
  <2>. QED  BY <1>5, <2>1, FlowsStand
<1>9. CodesLast
  BY DEF CodesLast, IInv, Typed, CodesTyped
<1>10. ProofsLast
  <2>1. \A f \in Flows : /\ flow[f] = Spent => flow'[f] = Spent
                         /\ (flow[f] \in FlowRow /\ flow[f].purpose = "finish") =>
                               flow'[f] \in {flow[f], Spent}
    BY <1>6, Apart
  <2>2. \A p \in Factors : factor[p] \in FactorRow => factor[p].last \in Nat
    BY BoundsAssumption DEF FactorRow
  <2>3. \A p \in Factors : factor[p] # Unused =>
           /\ factor'[p] # Unused
           /\ factor'[p] \in FactorRow =>
                 factor[p] \in FactorRow /\ factor[p].last <= factor'[p].last
    BY <2>2, Apart, FactorShape DEF IInv
  <2>. QED  BY <1>9, <2>1, <2>3, ProofsGo
<1>11. AcceptedHold'
  BY <1>10, AcceptedRests
<1>12. OthersKept(c)
  BY <1>1, <1>6 DEF OthersKept
<1>. QED  BY <1>2, <1>5, <1>7, <1>8, <1>11, <1>12 DEF Rested

LEMMA ApprovalsStay ==
    ASSUME IInv, UNCHANGED recovery,
           \A v \in Users : ident'[v].ver >= ident[v].ver /\ ident'[v].ver \in Nat
    PROVE  RecoveryTyped' /\ ApprovalsPast'
<1>1. \A x \in Recoveries : recovery[x] \in RecoveryRow =>
         recovery[x].user \in Users /\ recovery[x].ver \in Nat
  BY DEF RecoveryRow
<1>2. \A v \in Users : ident[v].ver \in Nat
  BY DEF IInv, Typed, IdentTyped, Ident
<1>3. \A x \in Recoveries : recovery[x] \in RecoveryRow =>
         recovery[x].ver <= ident'[recovery[x].user].ver
  BY <1>1, <1>2 DEF IInv, ApprovalsPast
<1>. QED  BY <1>3 DEF IInv, Typed, RecoveryTyped, ApprovalsPast

LEMMA KeepRemove ==
    ASSUME IInv, NEW c \in Calls, NEW p \in Factors, Remove(c, p)
    PROVE  IInv'
<1>1. PICK u \in Users :
        /\ u = call[c].user /\ holder[u] = NoOne /\ call[c].at = "in"
  BY Visitor DEF Remove
<1>2. /\ p \in Active(u) /\ Invalidate(u) /\ factor' = [factor EXCEPT ![p] = Revoked]
      /\ call' = [call EXCEPT ![c] = Idle]
      /\ UNCHANGED <<holder, sheet, codes, recovery, accepted>>
  BY <1>1 DEF Remove
<1>3. PICK q \in Ident : q = ident[u]
  BY DEF IInv, Typed, IdentTyped
<1>4. PICK r : r = [q EXCEPT !.ver = q.ver + 1]
  OBVIOUS
<1>5. r \in Ident /\ r.ver = q.ver + 1 /\ r.era = q.era
  BY <1>4 DEF Ident
<1>6. ident' = [ident EXCEPT ![u] = r]
  BY <1>1, <1>3, <1>4 DEF Remove
<1>7. FactorTyped'
  BY <1>2 DEF IInv, Typed, FactorTyped
<1>8. \A o \in Factors :
         \/ factor'[o] = factor[o]
         \/ factor[o] \in FactorRow /\ factor[o].user = u /\ factor'[o] = Revoked
  <2>1. factor[p] \in FactorRow /\ factor[p].user = u
    BY <1>2, ActiveRows DEF IInv
  <2>2. factor'[p] = Revoked /\ \A o \in Factors : o # p => factor'[o] = factor[o]
    BY <1>2 DEF IInv, Typed, FactorTyped
  <2>. QED  BY <2>1, <2>2
<1>9. q.ver \in Nat /\ \A v \in Users : ident[v].ver \in Nat
  BY DEF Ident, IInv, Typed, IdentTyped
<1>10. \A v \in Users : ident'[v].ver >= ident[v].ver /\ ident'[v].ver \in Nat
  BY <1>3, <1>5, <1>6, <1>9 DEF IInv, Typed, IdentTyped
<1>11. RecoveryTyped' /\ ApprovalsPast'
  BY <1>2, <1>10, ApprovalsStay
<1>12. CodesTyped'
  BY <1>2, CodesRest
<1>13. Rested /\ FlowTyped' /\ FlowsHold' /\ AcceptedHold' /\ OthersKept(c)
  BY <1>1, <1>2, <1>3, <1>5, <1>6, <1>7, <1>8, <1>11, <1>12, InvalidateStep
<1>. QED  BY <1>1, <1>2, <1>13, MoverEnds

LEMMA KeepApproveRecovery ==
    ASSUME IInv, NEW u \in Users, NEW x \in Recoveries, ApproveRecovery(u, x)
    PROVE  IInv'
<1>1. /\ holder[u] = NoOne /\ recovery[x] = Unused /\ Invalidate(u)
      /\ factor' = [p \in Factors |-> IF p \in Active(u) THEN Revoked ELSE factor[p]]
      /\ codes' = [codes EXCEPT ![u] = {}]
      /\ UNCHANGED <<holder, sheet, accepted, call>>
  BY DEF ApproveRecovery, Free
<1>2. PICK q \in Ident : q = ident[u]
  BY DEF IInv, Typed, IdentTyped
<1>3. PICK r : r = [q EXCEPT !.ver = q.ver + 1, !.pending = TRUE]
  OBVIOUS
<1>4. q.ver \in Nat /\ q.era \in Nat
  BY DEF Ident
<1>5. r \in Ident /\ r.ver = q.ver + 1 /\ r.era = q.era
  <2>1. r = [ver |-> q.ver + 1, era |-> q.era, pending |-> TRUE]
    BY <1>3, Zenon DEF Ident
  <2>. QED  BY <1>4, <2>1 DEF Ident
<1>6. ident' = [ident EXCEPT ![u] = r]
  <2>1. ident' = [ident EXCEPT ![u] = [ident[u] EXCEPT !.ver = ident[u].ver + 1,
                                                       !.pending = TRUE]]
    BY DEF ApproveRecovery
  <2>. QED  BY <1>2, <1>3, <2>1
<1>7. FactorTyped'
  BY <1>1 DEF IInv, Typed, FactorTyped
<1>8. \A o \in Factors :
         \/ factor'[o] = factor[o]
         \/ factor[o] \in FactorRow /\ factor[o].user = u /\ factor'[o] = Revoked
  BY <1>1, ActiveRows DEF IInv
<1>9. CodesTyped' /\ \A v \in Users : codes'[v] \subseteq codes[v]
  <2>1. codes'[u] = {} /\ \A v \in Users : v # u => codes'[v] = codes[v]
    BY <1>1 DEF IInv, Typed, CodesTyped
  <2>2. codes' \in [Users -> SUBSET (Nat \X Slots)]
    BY <1>1 DEF IInv, Typed, CodesTyped
  <2>. QED  BY <1>1, <2>1, <2>2 DEF IInv, Typed, CodesTyped
<1>10. \A v \in Users : ident[v].ver \in Nat
  BY DEF Ident, IInv, Typed, IdentTyped
<1>11. /\ ident'[u] = r /\ \A v \in Users : v # u => ident'[v] = ident[v]
       /\ \A v \in Users : ident'[v].ver >= ident[v].ver
  BY <1>2, <1>4, <1>5, <1>6, <1>10 DEF IInv, Typed, IdentTyped
<1>12. RecoveryTyped' /\ ApprovalsPast'
  <2> DEFINE new == [st |-> "open", user |-> u, ver |-> ident[u].ver + 1]
  <2>1. recovery' = [recovery EXCEPT ![x] = new]
    BY DEF ApproveRecovery
  <2>2. new \in RecoveryRow /\ new.user = u /\ new.ver = r.ver
    BY <1>2, <1>4, <1>5 DEF RecoveryRow
  <2>. HIDE DEF new
  <2>3. recovery'[x] = new /\ \A y \in Recoveries : y # x => recovery'[y] = recovery[y]
    BY <2>1 DEF IInv, Typed, RecoveryTyped
  <2>4. RecoveryTyped'
    BY <2>1, <2>2 DEF IInv, Typed, RecoveryTyped
  <2>5. \A y \in Recoveries : recovery[y] \in RecoveryRow =>
           recovery[y].user \in Users /\ recovery[y].ver \in Nat
    BY DEF RecoveryRow
  <2>6. r.ver \in Nat /\ \A v \in Users : ident'[v].ver \in Nat
    BY <1>4, <1>5, <1>10, <1>11
  <2>7. ASSUME NEW y \in Recoveries, recovery'[y] \in RecoveryRow
        PROVE  recovery'[y].ver <= ident'[recovery'[y].user].ver
    <3>1. CASE y = x
      BY <1>11, <2>2, <2>3, <2>6, <3>1
    <3>2. CASE y # x
      <4>1. recovery'[y] = recovery[y] /\ recovery[y] \in RecoveryRow
        BY <2>3, <2>7, <3>2
      <4>2. recovery[y].ver <= ident[recovery[y].user].ver
        BY <4>1 DEF IInv, ApprovalsPast
      <4>. QED  BY <1>10, <1>11, <2>5, <2>6, <4>1, <4>2
    <3>. QED  BY <3>1, <3>2
  <2>. QED  BY <2>4, <2>7 DEF ApprovalsPast
<1>13. Rested /\ FlowTyped' /\ FlowsHold' /\ AcceptedHold' /\ OthersKept(NoOne)
  BY <1>1, <1>2, <1>5, <1>6, <1>7, <1>8, <1>9, <1>12, InvalidateStep
<1>. QED  BY <1>1, <1>13, NobodyMoves

-----------------------------------------------------------------------------
LEMMA InitFits == Init => IInv
<1>. SUFFICES ASSUME Init PROVE IInv
  OBVIOUS
<1>1. /\ \A s \in Sessions : session[s] = Unused
      /\ \A f \in Flows : flow[f] = Unused
      /\ \A r \in Recoveries : recovery[r] = Unused
      /\ \A c \in Calls : call[c] = Idle
      /\ \A u \in Users : holder[u] = NoOne
  BY DEF Init
<1>2. IdentTyped
  <2> DEFINE q == [ver |-> 0, era |-> 0, pending |-> FALSE]
  <2>1. q \in Ident /\ q.ver + q.era = 0
    BY DEF Ident
  <2>2. ident = [u \in Users |-> q]
    BY DEF Init
  <2>. HIDE DEF q
  <2>. QED  BY <2>1, <2>2, BoundsAssumption DEF IdentTyped
<1>3. CodesTyped
  BY DEF Init, CodesTyped
<1>4. FactorTyped /\ FlowTyped /\ SessionTyped /\ RecoveryTyped /\ CallTyped /\ HolderTyped
  BY DEF Init, FactorTyped, FlowTyped, SessionTyped, RecoveryTyped, CallTyped, CallRow,
         HolderTyped
<1>5. Typed
  BY <1>2, <1>3, <1>4 DEF Typed
<1>6. LocksFit /\ CallsFit
  BY <1>1 DEF LocksFit, HolderInFlow, FlowHolds, CallsFit, CallFits, HandlerFits, VisitFits, Idle
<1>7. FlowsHold /\ ApprovalsPast
  BY <1>1, Apart DEF FlowsHold, ApprovalsPast
<1>8. LiveSessionIsCurrent
  BY <1>1 DEF LiveSessionIsCurrent, Live, Unused
<1>9. AcceptedHold
  BY DEF Init, AcceptedHold, OneProofOneUse
<1>. QED  BY <1>5, <1>6, <1>7, <1>8, <1>9 DEF IInv

LEMMA RestFits ==
    ASSUME IInv, UNCHANGED vars
    PROVE  IInv'
<1>1. UNCHANGED records /\ UNCHANGED flow /\ UNCHANGED <<holder, call>>
  BY DEF vars, records
<1>2. Rested /\ FlowTyped' /\ FlowsHold' /\ AcceptedHold' /\ OthersKept(NoOne)
  BY <1>1, NoFlowStep
<1>. QED  BY <1>1, <1>2, NobodyMoves

LEMMA StepFits == IInv /\ [Next]_vars => IInv'
<1>. SUFFICES ASSUME IInv, [Next]_vars PROVE IInv'
  OBVIOUS
<1>1. CASE UNCHANGED vars
  BY <1>1, RestFits
<1>2. ASSUME NEW u \in Users, NEW f \in Flows, StartLogin(u, f) PROVE IInv'
  BY <1>2, KeepStartLogin
<1>3. ASSUME NEW c \in Calls, NEW f \in Flows,
             Enter(c, f) \/ Manage(c, f) \/ Reauthenticate(c, f)
      PROVE  IInv'
  BY <1>3, KeepEnter, KeepManage
<1>4. ASSUME NEW c \in Calls, NEW k \in {"totp", "passkey"}, NEW p \in Factors,
             BeginEnrolment(c, k, p)
      PROVE  IInv'
  BY <1>4, KeepBeginEnrolment
<1>5. ASSUME NEW c \in Calls, AskPasskey(c) \/ Fail(c) \/ Regenerate(c) \/ Stop(c)
      PROVE  IInv'
  BY <1>5, KeepAskPasskey, KeepFail, KeepRegenerate, KeepStop
<1>6. ASSUME NEW c \in Calls, NEW t \in 0 .. MaxTime, Enrol(c, t) PROVE IInv'
  BY <1>6, KeepEnrol
<1>7. ASSUME NEW c \in Calls, NEW s \in Sessions,
             \/ Admit(c, s) \/ Finish(c, s)
             \/ \E p \in Factors, t \in 1 .. MaxTime : ByTotp(c, p, t, s)
             \/ \E p \in Factors : ByPasskey(c, p, s)
             \/ \E k \in (1 .. MaxSheets) \X Slots : ByRecoveryCode(c, k, s)
      PROVE  IInv'
  BY <1>7, KeepAdmit, KeepFinish, KeepByTotp, KeepByPasskey, KeepByRecoveryCode
<1>8. ASSUME NEW c \in Calls, NEW p \in Factors, Remove(c, p) PROVE IInv'
  BY <1>8, KeepRemove
<1>9. ASSUME NEW f \in Flows, Cancel(f) PROVE IInv'
  BY <1>9, KeepCancel
<1>10. ASSUME NEW u \in Users, NEW r \in Recoveries, ApproveRecovery(u, r) PROVE IInv'
  BY <1>10, KeepApproveRecovery
<1>11. ASSUME NEW r \in Recoveries, NEW f \in Flows, Recover(r, f) PROVE IInv'
  BY <1>11, KeepRecover
<1>12. ASSUME NEW r \in Recoveries, RecoveryExpires(r) PROVE IInv'
  BY <1>12, KeepRecoveryExpires
<1>13. ASSUME NEW u \in Users, NewCredentials(u) PROVE IInv'
  BY <1>13, KeepNewCredentials
<1>14. ASSUME NEW s \in Sessions, EndSession(s) \/ Stale(s) PROVE IInv'
  BY <1>14, KeepEndSession, KeepStale
<1>15. CASE Tick
  BY <1>15, KeepTick
<1>. QED
  BY <1>1, <1>2, <1>3, <1>4, <1>5, <1>6, <1>7, <1>8, <1>9, <1>10, <1>11, <1>12, <1>13,
     <1>14, <1>15, Zenon DEF Next

\* A handler in a flow commits under the flow and the fingerprint it validated, and what
\* a flow is entitled to stays true without the lock: the inductive invariant behind the
\* theorems below (limited_context, flow, verified, invalidate).
THEOREM SecondFactorInvariant == Spec => []IInv
BY InitFits, StepFits, PTL DEF Spec

LEMMA InvTypes == IInv => TypeOK
<1>. SUFFICES ASSUME IInv PROVE TypeOK
  OBVIOUS
<1>1. ident \in [Users -> [ver : 0 .. MaxChanges, era : 0 .. MaxChanges, pending : BOOLEAN]]
  <2> DEFINE Bounded == [ver : 0 .. MaxChanges, era : 0 .. MaxChanges, pending : BOOLEAN]
  <2>1. \A u \in Users : ident[u] \in Bounded
    <3>. TAKE u \in Users
    <3>1. PICK q \in Ident : q = ident[u]
      BY DEF IInv, Typed, IdentTyped
    <3>2. q.ver \in 0 .. MaxChanges /\ q.era \in 0 .. MaxChanges
      BY <3>1, FingerprintTyped
    <3>. QED  BY <3>1, <3>2, Zenon DEF Ident
  <2>. HIDE DEF Bounded
  <2>2. ident \in [Users -> Bounded]
    BY <2>1 DEF IInv, Typed, IdentTyped
  <2>. QED  BY <2>2 DEF Bounded
<1>2. \A f \in Flows :
        \/ flow[f] \in {Unused, Spent}
        \/ /\ flow[f].st = "open" /\ flow[f].attempts \in 0 .. MaxAttempts
           /\ flow[f].purpose \in {"login", "setup", "manage", "reauth", "recovery", "finish"}
  BY DEF IInv, Typed, FlowTyped, FlowRow
<1>3. \A c \in Calls : InFlow(c) <=> \E u \in Users : holder[u] = c
  <2>. TAKE c \in Calls
  <2>1. InFlow(c) => call[c].user \in Users /\ holder[call[c].user] = c
    BY Handler
  <2>2. \A u \in Users : holder[u] = c => InFlow(c)
    BY NamesAssumption DEF IInv, LocksFit, HolderInFlow, InFlow
  <2>. QED  BY <2>1, <2>2
<1>. QED
  BY <1>1, <1>2, <1>3
  DEF TypeOK, IInv, Typed, FactorTyped, FactorRow, CodesTyped, SessionTyped, SessionRow

\* Every row has its type; a live session stands for the present factors and credentials;
\* a one-time code, a recovery code and a flow prove an identity once (verified,
\* verify_code, invalidate).
THEOREM FactorsStand == Spec => []FactorsStandBehindSessions
<1>1. IInv => FactorsStandBehindSessions
  BY InvTypes DEF IInv, AcceptedHold, FactorsStandBehindSessions
<1>. QED  BY <1>1, SecondFactorInvariant, PTL

-----------------------------------------------------------------------------
(* What a step may do to factors, sessions, requests under way, approvals.   *)

FactorMove ==
    \/ /\ \A u : Active(u) \subseteq ActiveNext(u)
       /\ \A p \in Factors : factor[p] = Unused => factor'[p] = Unused
    \/ \E c \in Calls, t \in 0 .. MaxTime : Enrol(c, t)
    \/ \E c \in Calls, p \in Factors : Remove(c, p)
    \/ \E u \in Users, r \in Recoveries : ApproveRecovery(u, r)
SessionMove ==
    \/ \A s \in Sessions : session[s] = Unused => session'[s] = Unused
    \/ \E c \in Calls, s \in Sessions :
          InFlow(c) /\ Conclude(c, s) /\ Purpose(c) \in {"login", "reauth", "finish"}
CallMove ==
    \A c \in Calls : (call[c].at = "in" /\ call'[c] = Idle) =>
        UNCHANGED <<factor, codes, flow>> \/ StillStands(c)
RecoveryMove ==
    \A r \in Recoveries : (recovery[r].st = "open" /\ recovery'[r] = Spent) =>
        UNCHANGED flow \/ \E f \in Flows : Recover(r, f)
Moves == FactorMove /\ SessionMove /\ CallMove /\ RecoveryMove

LEMMA RecoverySame == UNCHANGED recovery => RecoveryMove
BY DEF RecoveryMove, Spent

LEMMA FactorSame == UNCHANGED factor => FactorMove
BY DEF FactorMove, Active, ActiveNext

LEMMA SessionSame == UNCHANGED session => SessionMove
BY DEF SessionMove

LEMMA CallSame == UNCHANGED call => CallMove
BY DEF CallMove, Idle

LEMMA CallOnly ==
    ASSUME IInv, NEW c \in Calls, NEW r, call' = [call EXCEPT ![c] = r],
           call[c].at # "in" \/ UNCHANGED <<factor, codes, flow>> \/ StillStands(c)
    PROVE  CallMove
<1>1. \A d \in Calls : d # c => call'[d] = call[d]
  BY DEF IInv, Typed, CallTyped
<1>. QED  BY <1>1 DEF CallMove, Idle

LEMMA Sessionless ==
    ASSUME NEW u, Revokes(u)
    PROVE  SessionMove
BY DEF SessionMove, Revokes, Live, Unused

\* The steps in a flow that only store a row.
LEMMA StoringMoves ==
    ASSUME IInv, NEW c \in Calls, InFlow(c), Release(c), UNCHANGED records
    PROVE  Moves
BY RecoverySame, FactorSame, SessionSame, CallOnly DEF Moves, InFlow, Release, records

\* The steps without a call that change flows or approvals only.
LEMMA PlainMoves ==
    ASSUME IInv, UNCHANGED <<factor, session, call>>, UNCHANGED recovery \/ UNCHANGED flow
    PROVE  Moves
BY RecoverySame, FactorSame, SessionSame, CallSame DEF Moves, RecoveryMove

LEMMA VisitorMoves ==
    ASSUME IInv, NEW c \in Calls, StillStands(c), call' = [call EXCEPT ![c] = Idle],
           UNCHANGED <<factor, session, recovery>>
    PROVE  Moves
BY RecoverySame, FactorSame, SessionSame, CallOnly DEF Moves

LEMMA ConcludeMoves ==
    ASSUME IInv, NEW c \in Calls, NEW s \in Sessions, InFlow(c), Conclude(c, s),
           Purpose(c) \in {"login", "reauth", "finish"}, FactorMove, UNCHANGED recovery
    PROVE  Moves
<1>1. SessionMove
  BY DEF SessionMove
<1>2. CallMove
  BY CallOnly DEF Conclude, Release, InFlow
<1>. QED  BY <1>1, <1>2, RecoverySame DEF Moves

LEMMA TotpMoves ==
    ASSUME IInv, NEW c \in Calls, NEW p \in Factors, NEW t \in 1 .. MaxTime,
           NEW s \in Sessions, ByTotp(c, p, t, s)
    PROVE  Moves
<1>1. PICK q \in FactorRow : q = factor[p]
  BY FactorShape DEF ByTotp, Active, IInv
<1>2. PICK r : r = [q EXCEPT !.last = t]
  OBVIOUS
<1>3. r.st = "active" /\ r.user = q.user /\ q.st = "active"
  BY <1>2 DEF FactorRow
<1>4. factor' = [factor EXCEPT ![p] = r]
  BY <1>1, <1>2 DEF ByTotp
<1>5. factor'[p] = r /\ \A o \in Factors : o # p => factor'[o] = factor[o]
  BY <1>4 DEF IInv, Typed, FactorTyped
<1>6. FactorMove
  <2>1. \A u : Active(u) \subseteq ActiveNext(u)
    BY <1>1, <1>3, <1>5 DEF Active, ActiveNext
  <2>2. \A o \in Factors : factor[o] = Unused => factor'[o] = Unused
    BY <1>1, <1>5, Apart
  <2>. QED  BY <2>1, <2>2 DEF FactorMove
<1>. QED  BY <1>6, ConcludeMoves DEF ByTotp

LEMMA EnrolMoves ==
    ASSUME IInv, NEW c \in Calls, NEW t \in 0 .. MaxTime, Enrol(c, t)
    PROVE  Moves
<1>1. InFlow(c) /\ Release(c) /\ UNCHANGED <<session, recovery>>
  BY DEF Enrol
<1>2. CallMove
  BY <1>1, CallOnly DEF Release, InFlow
<1>. QED  BY <1>1, <1>2, RecoverySame, SessionSame DEF Moves, FactorMove

LEMMA RemoveMoves ==
    ASSUME IInv, NEW c \in Calls, NEW p \in Factors, Remove(c, p)
    PROVE  Moves
<1>1. StillStands(c) /\ call' = [call EXCEPT ![c] = Idle] /\ UNCHANGED recovery
  BY DEF Remove, InSession
<1>2. Revokes(call[c].user)
  BY DEF Remove, Invalidate, Revokes
<1>3. SessionMove
  BY <1>2 DEF SessionMove, Revokes, Live, Unused
<1>. QED  BY <1>1, <1>3, RecoverySame, CallOnly DEF Moves, FactorMove

LEMMA ApproveMoves ==
    ASSUME IInv, NEW u \in Users, NEW r \in Recoveries, ApproveRecovery(u, r)
    PROVE  Moves
<1>1. SessionMove
  BY Sessionless DEF ApproveRecovery, Invalidate, Revokes
<1>2. RecoveryMove
  <2>1. recovery[r] = Unused /\ \A x \in Recoveries : x # r => recovery'[x] = recovery[x]
    BY DEF ApproveRecovery, IInv, Typed, RecoveryTyped
  <2>. QED  BY <2>1 DEF RecoveryMove, Unused, Spent
<1>3. CallMove /\ FactorMove
  BY CallSame DEF ApproveRecovery, FactorMove
<1>. QED  BY <1>1, <1>2, <1>3 DEF Moves

LEMMA RecoverMoves ==
    ASSUME IInv, NEW r \in Recoveries, NEW f \in Flows, Recover(r, f)
    PROVE  Moves
<1>1. RecoveryMove
  <2>1. \A x \in Recoveries : x # r => recovery'[x] = recovery[x]
    BY DEF Recover, IInv, Typed, RecoveryTyped
  <2>. QED  BY <2>1 DEF RecoveryMove, Spent
<1>. QED  BY <1>1, FactorSame, SessionSame, CallSame DEF Moves, Recover

LEMMA SessionOnlyMoves ==
    ASSUME IInv, NEW s \in Sessions, EndSession(s) \/ Stale(s)
    PROVE  Moves
<1>1. session[s] # Unused /\ \A t \in Sessions : t # s => session'[t] = session[t]
  BY DEF EndSession, Stale, Live, Unused, IInv, Typed, SessionTyped
<1>2. SessionMove
  BY <1>1 DEF SessionMove
<1>. QED
  BY <1>2, RecoverySame, FactorSame, CallSame DEF Moves, EndSession, Stale

LEMMA StepMoves ==
    ASSUME IInv, [Next]_vars
    PROVE  Moves
<1>1. CASE UNCHANGED vars
  BY <1>1, PlainMoves DEF vars
<1>2. ASSUME NEW u \in Users, NEW f \in Flows, StartLogin(u, f) PROVE Moves
  BY <1>2, PlainMoves DEF StartLogin, records
<1>3. ASSUME NEW c \in Calls, NEW f \in Flows,
             Enter(c, f) \/ Manage(c, f) \/ Reauthenticate(c, f)
      PROVE  Moves
  <2>1. CASE Enter(c, f)
    BY <2>1, CallOnly, RecoverySame, FactorSame, SessionSame DEF Enter, Idle, records, Moves
  <2>2. CASE Manage(c, f) \/ Reauthenticate(c, f)
    BY <2>2, VisitorMoves DEF Manage, Reauthenticate, InSession, records
  <2>. QED  BY <1>3, <2>1, <2>2
<1>4. ASSUME NEW c \in Calls, NEW k \in {"totp", "passkey"}, NEW p \in Factors,
             BeginEnrolment(c, k, p)
      PROVE  Moves
  BY <1>4, StoringMoves DEF BeginEnrolment
<1>5. ASSUME NEW c \in Calls, AskPasskey(c) \/ Fail(c) \/ Regenerate(c) \/ Stop(c)
      PROVE  Moves
  <2>1. CASE AskPasskey(c) \/ Fail(c)
    BY <2>1, StoringMoves DEF AskPasskey, Fail
  <2>2. CASE Regenerate(c)
    BY <2>2, VisitorMoves DEF Regenerate, InSession
  <2>3. CASE Stop(c)
    BY <2>3, CallOnly, RecoverySame, FactorSame, SessionSame DEF Stop, Release, records, Moves
  <2>. QED  BY <1>5, <2>1, <2>2, <2>3
<1>6. ASSUME NEW c \in Calls, NEW t \in 0 .. MaxTime, Enrol(c, t) PROVE Moves
  BY <1>6, EnrolMoves
<1>7. ASSUME NEW c \in Calls, NEW s \in Sessions,
             \/ Admit(c, s) \/ Finish(c, s)
             \/ \E p \in Factors, t \in 1 .. MaxTime : ByTotp(c, p, t, s)
             \/ \E p \in Factors : ByPasskey(c, p, s)
             \/ \E k \in (1 .. MaxSheets) \X Slots : ByRecoveryCode(c, k, s)
      PROVE  Moves
  <2>1. CASE Admit(c, s)
    BY <2>1, CallOnly, RecoverySame, FactorSame, SessionSame DEF Admit, Idle, records, Moves
  <2>2. CASE Finish(c, s)
    BY <2>2, ConcludeMoves, FactorSame DEF Finish
  <2>3. CASE \E p \in Factors, t \in 1 .. MaxTime : ByTotp(c, p, t, s)
    BY <2>3, TotpMoves
  <2>4. CASE \E p \in Factors : ByPasskey(c, p, s)
    BY <2>4, ConcludeMoves, FactorSame DEF ByPasskey
  <2>5. CASE \E k \in (1 .. MaxSheets) \X Slots : ByRecoveryCode(c, k, s)
    BY <2>5, ConcludeMoves, FactorSame DEF ByRecoveryCode
  <2>. QED  BY <1>7, <2>1, <2>2, <2>3, <2>4, <2>5
<1>8. ASSUME NEW c \in Calls, NEW p \in Factors, Remove(c, p) PROVE Moves
  BY <1>8, RemoveMoves
<1>9. ASSUME NEW f \in Flows, Cancel(f) PROVE Moves
  BY <1>9, PlainMoves DEF Cancel, records
<1>10. ASSUME NEW u \in Users, NEW r \in Recoveries, ApproveRecovery(u, r) PROVE Moves
  BY <1>10, ApproveMoves
<1>11. ASSUME NEW r \in Recoveries, NEW f \in Flows, Recover(r, f) PROVE Moves
  BY <1>11, RecoverMoves
<1>12. ASSUME NEW r \in Recoveries, RecoveryExpires(r) PROVE Moves
  BY <1>12, PlainMoves DEF RecoveryExpires
<1>13. ASSUME NEW u \in Users, NewCredentials(u) PROVE Moves
  <2>1. Revokes(u)
    BY <1>13 DEF NewCredentials, Revokes
  <2>. QED
    BY <1>13, <2>1, Sessionless, RecoverySame, FactorSame, CallSame DEF Moves, NewCredentials
<1>14. ASSUME NEW s \in Sessions, EndSession(s) \/ Stale(s) PROVE Moves
  BY <1>14, SessionOnlyMoves
<1>15. CASE Tick
  BY <1>15, PlainMoves DEF Tick, records
<1>. QED
  BY <1>1, <1>2, <1>3, <1>4, <1>5, <1>6, <1>7, <1>8, <1>9, <1>10, <1>11, <1>12, <1>13,
     <1>14, <1>15, Zenon DEF Next

\* Each session is opened by the flow that is spent for it.
LEMMA OpenedByFlow ==
    ASSUME IInv, [Next]_vars, NEW s \in Sessions, session[s] = Unused, session'[s] # Unused
    PROVE  \E f \in Flows : /\ flow[f].st = "open" /\ flow'[f].st = "spent"
                            /\ flow[f].purpose \in {"login", "finish"}
<1>1. PICK c \in Calls, t \in Sessions :
        InFlow(c) /\ Conclude(c, t) /\ Purpose(c) \in {"login", "reauth", "finish"}
  BY StepMoves DEF Moves, SessionMove
<1>2. /\ call[c].flow \in Flows /\ call[c].row \in FlowRow /\ flow[call[c].flow] = call[c].row
      /\ Entitled(call[c].row)
  BY <1>1, Handler
<1>3. flow'[call[c].flow] = Spent
  BY <1>1, <1>2 DEF Conclude, Store, IInv, Typed, FlowTyped
<1>4. Purpose(c) # "reauth"
  <2>. SUFFICES ASSUME Purpose(c) = "reauth" PROVE FALSE
    OBVIOUS
  <2>1. t = call[c].row.session /\ session' = [session EXCEPT ![t].recent = TRUE]
    BY <1>1 DEF Conclude
  <2>2. session[t] # Unused
    BY <1>2, <2>1, Apart, NamesAssumption DEF Entitled, Purpose
  <2>3. \A o \in Sessions : o # t => session'[o] = session[o]
    BY <2>1 DEF IInv, Typed, SessionTyped
  <2>. QED  BY <2>2, <2>3
<1>. QED  BY <1>1, <1>2, <1>3, <1>4 DEF FlowRow, Spent, Purpose

\* An enrolment only adds to the factors of a user.
LEMMA EnrolAdds ==
    ASSUME IInv, NEW c \in Calls, NEW t \in 0 .. MaxTime, Enrol(c, t)
    PROVE  /\ call[c].row.factor \in Factors /\ factor[call[c].row.factor] = Unused
           /\ factor'[call[c].row.factor].user = call[c].user
           /\ \A o \in Factors : o # call[c].row.factor => factor'[o] = factor[o]
           /\ \A u : Active(u) \subseteq ActiveNext(u)
<1>1. /\ call[c].row \in FlowRow /\ Entitled(call[c].row)
      /\ call[c].row.ceremony \in {"totp", "passkey"}
  BY Handler DEF Enrol
<1>2. PICK p : p = call[c].row.factor
  OBVIOUS
<1>3. p \in Factors /\ factor[p] = Unused
  BY <1>1, <1>2 DEF Entitled, FlowRow
<1>4. factor' = [factor EXCEPT ![p] = [st |-> "active", user |-> call[c].user,
                                       kind |-> call[c].row.ceremony, last |-> t]]
  BY <1>2 DEF Enrol
<1>5. /\ factor'[p].user = call[c].user
      /\ \A o \in Factors : o # p => factor'[o] = factor[o]
  BY <1>3, <1>4 DEF IInv, Typed, FactorTyped
<1>6. \A u : Active(u) \subseteq ActiveNext(u)
  BY <1>3, <1>5 DEF Active, ActiveNext, Unused
<1>. QED  BY <1>2, <1>3, <1>5, <1>6

\* Two removals leave a factor between them.
LEMMA LastFactor ==
    ASSUME IInv, [Next]_vars, NEW u \in Users, Active(u) # {}, ActiveNext(u) = {}
    PROVE  ident'[u].pending
<1>1. ~(\A v : Active(v) \subseteq ActiveNext(v))
  OBVIOUS
<1>2. \A c \in Calls, t \in 0 .. MaxTime : ~Enrol(c, t)
  BY <1>1, EnrolAdds
<1>3. \A c \in Calls, p \in Factors : ~Remove(c, p)
  <2>. SUFFICES ASSUME NEW c \in Calls, NEW p \in Factors, Remove(c, p) PROVE FALSE
    OBVIOUS
  <2>1. PICK v : v = call[c].user
    OBVIOUS
  <2>2. p \in Active(v) /\ Cardinality(Active(v)) > 1
    BY <2>1 DEF Remove, AnotherRemains
  <2>3. \A o \in Factors : o # p => factor'[o] = factor[o]
    BY DEF Remove, IInv, Typed, FactorTyped
  <2>4. \A o \in Active(u) : o = p
    BY <2>3 DEF Active, ActiveNext
  <2>5. Active(u) = {p} /\ v = u
    BY <2>2, <2>4 DEF Active
  <2>6. Cardinality(Active(u)) = 1
    BY <2>5, FS_Singleton
  <2>. QED  BY <2>2, <2>5, <2>6
<1>4. PICK v \in Users, r \in Recoveries : ApproveRecovery(v, r)
  BY <1>1, <1>2, <1>3, StepMoves DEF Moves, FactorMove
<1>5. v = u
  BY <1>4 DEF ApproveRecovery, Active, ActiveNext
<1>6. ident' = [ident EXCEPT ![u] = [ident[u] EXCEPT !.ver = ident[u].ver + 1,
                                                     !.pending = TRUE]]
  BY <1>4, <1>5 DEF ApproveRecovery
<1>7. PICK q \in Ident : q = ident[u]
  BY DEF IInv, Typed, IdentTyped
<1>8. ident'[u] = [q EXCEPT !.ver = q.ver + 1, !.pending = TRUE]
  BY <1>6, <1>7 DEF IInv, Typed, IdentTyped
<1>. QED  BY <1>8, Zenon DEF Ident

\* Every factor comes from a flow entitled to it.
LEMMA Entitlement ==
    ASSUME IInv, [Next]_vars, NEW p \in Factors, factor[p] = Unused, factor'[p] # Unused
    PROVE  \E f \in Flows :
              /\ flow[f].st = "open" /\ flow[f].factor = p
              /\ IF flow[f].purpose = "manage" THEN Active(factor'[p].user) # {}
                 ELSE Active(factor'[p].user) = {}
<1>1. \A c \in Calls, o \in Factors : ~Remove(c, o)
  <2>. SUFFICES ASSUME NEW c \in Calls, NEW o \in Factors, Remove(c, o) PROVE FALSE
    OBVIOUS
  <2>1. factor[o] # Unused /\ \A x \in Factors : x # o => factor'[x] = factor[x]
    BY DEF Remove, Active, Unused, IInv, Typed, FactorTyped
  <2>. QED  BY <2>1
<1>2. \A u \in Users, r \in Recoveries : ~ApproveRecovery(u, r)
  BY DEF ApproveRecovery, Active, Unused
<1>3. PICK c \in Calls, t \in 0 .. MaxTime : Enrol(c, t)
  BY <1>1, <1>2, StepMoves DEF Moves, FactorMove
<1>4. p = call[c].row.factor /\ factor'[p].user = call[c].user
  BY <1>3, EnrolAdds
<1>5. /\ call[c].flow \in Flows /\ call[c].row \in FlowRow /\ flow[call[c].flow] = call[c].row
      /\ call[c].row.user = call[c].user /\ Entitled(call[c].row)
  BY <1>3, Handler DEF Enrol
<1>6. /\ call[c].row.purpose \in {"setup", "manage", "recovery"}
      /\ call[c].row.purpose \in {"setup", "recovery"} => Active(call[c].user) = {}
  BY <1>3 DEF Enrol, MayEnrol, Purpose
<1>7. call[c].row.purpose = "manage" => Active(call[c].user) # {}
  BY <1>5 DEF Entitled
<1>. QED  BY <1>4, <1>5, <1>6, <1>7 DEF FlowRow

\* A request that waited for the lock looks again.
LEMMA Rechecked ==
    ASSUME IInv, [Next]_vars, NEW c \in Calls, call[c].at = "in", call'[c] = Idle,
           <<factor, codes, flow>>' # <<factor, codes, flow>>
    PROVE  Live(call[c].session) /\ Verified(call[c].session)
<1>1. CallMove
  BY StepMoves DEF Moves
<1>. QED  BY <1>1 DEF CallMove, StillStands

\* Only the newest approval of a user is at the user's version.
LEMMA Newest ==
    ASSUME IInv, [Next]_vars, NEW r \in Recoveries, recovery[r].st = "open",
           recovery'[r] = Spent, flow' # flow, NEW q \in Recoveries,
           recovery[q].st = "open", recovery[q].user = recovery[r].user
    PROVE  recovery[q].ver <= recovery[r].ver
<1>1. PICK f \in Flows : Recover(r, f)
  BY StepMoves DEF Moves, RecoveryMove
<1>2. recovery[r].ver = ident[recovery[r].user].ver
  BY <1>1 DEF Recover, FromNewestApproval
<1>. QED  BY <1>2, RecoveryShape DEF IInv, ApprovalsPast

\* A flow opens one session at most, and is spent in that step; two removals never take
\* the last two factors; a factor is enrolled by a flow entitled to it; a request that
\* waited for the lock acts only if its session still stands; only the newest approval
\* opens a recovery (verified, remove, require_enrollment, regenerate_codes, recover).
THEOREM FactorStepsHold == Spec => FactorSteps
<1>1. IInv /\ [Next]_vars =>
        [\A s \in Sessions : (session[s] = Unused /\ session'[s] # Unused) =>
            \E f \in Flows : /\ flow[f].st = "open" /\ flow'[f].st = "spent"
                             /\ flow[f].purpose \in {"login", "finish"}]_vars
  BY OpenedByFlow
<1>2. IInv /\ [Next]_vars =>
        [\A u \in Users : (Active(u) # {} /\ Active(u)' = {}) => ident[u]'.pending]_vars
  BY LastFactor DEF Active, ActiveNext
<1>3. IInv /\ [Next]_vars =>
        [\A p \in Factors : (factor[p] = Unused /\ factor'[p] # Unused) =>
            \E f \in Flows :
               /\ flow[f].st = "open" /\ flow[f].factor = p
               /\ IF flow[f].purpose = "manage" THEN Active(factor'[p].user) # {}
                  ELSE Active(factor'[p].user) = {}]_vars
  BY Entitlement
<1>4. IInv /\ [Next]_vars =>
        [\A c \in Calls :
            (/\ call[c].at = "in" /\ call'[c] = Idle
             /\ <<factor, codes, flow>>' # <<factor, codes, flow>>) =>
            Live(call[c].session) /\ Verified(call[c].session)]_vars
  BY Rechecked
<1>5. IInv /\ [Next]_vars =>
        [\A r \in Recoveries :
            (recovery[r].st = "open" /\ recovery'[r] = Spent /\ flow' # flow) =>
            \A q \in Recoveries : recovery[q].st = "open" /\ recovery[q].user = recovery[r].user =>
                                      recovery[q].ver <= recovery[r].ver]_vars
  BY Newest
<1>6. Spec => SessionSpendsFlow
  BY <1>1, SecondFactorInvariant, PTL DEF Spec, SessionSpendsFlow
<1>7. Spec => LastFactorStays
  BY <1>2, SecondFactorInvariant, PTL DEF Spec, LastFactorStays
<1>8. Spec => FactorIsEntitled
  BY <1>3, SecondFactorInvariant, PTL DEF Spec, FactorIsEntitled
<1>9. Spec => WaitedRequestIsRechecked
  BY <1>4, SecondFactorInvariant, PTL DEF Spec, WaitedRequestIsRechecked
<1>10. Spec => NewestApprovalCounts
  BY <1>5, SecondFactorInvariant, PTL DEF Spec, NewestApprovalCounts
<1>. QED  BY <1>6, <1>7, <1>8, <1>9, <1>10, PTL DEF FactorSteps
=============================================================================
