------------------------------ MODULE Publications ------------------------------
(* Publications of fixed releases to guests of a project: prepared,         *)
(* published to named participants, withdrawn; grants and participations    *)
(* revoked; and what other parts of the system do that ends them: a source  *)
(* deleted, a user suspended, a guest made a member, a project closed.      *)
(*                                                                          *)
(* Every request is a transaction that takes the locks of its Plan one by   *)
(* one, then reads and decides under them, then commits.  "Q" is the        *)
(* advisory lock of qualifications, "P" that of the project.  What the      *)
(* triggers do in the transaction belongs to the decision.  The history     *)
(* that the triggers append is left out.                                    *)
EXTENDS Naturals, Sequences, FiniteSets, TLC

CONSTANTS Calls, Sources, Guests, Staff,
          None,
          Keys,         \* request ids
          Concerns      \* sets of operations: what the clients of a behaviour ask for
Users == Guests \cup {Staff}

VARIABLES kinds,        \* the operations clients ask for
          publication, grant, part,     \* one publication; grants and participations by guest
          receipt,      \* the root events: request id and what was asked
          source, active, member, open, \* sources; users; members of the tenant; the project
          session,      \* the session a guest downloads with
          url,          \* download addresses issued
          calls
vars == <<kinds, publication, grant, part, receipt, source, active, member, open, session, url, calls>>
access == <<publication, grant, part>>
world == <<source, active, member, open, session>>

-----------------------------------------------------------------------------
Publication == [state : {"absent", "prepared", "published", "withdrawn"}, version : Nat]
Grant == [state : {"absent", "active", "revoked"}, serial : Nat]            \* the latest row and its version
Participation == [state : {"absent", "active", "revoked"}, generation : Nat, lapsed : BOOLEAN]
Session == {"live", "revoked"}
Current(g) == part[g].state = "active" /\ ~part[g].lapsed
SourcesAlive == open /\ \A s \in Sources : source[s] = "live"
Entitled(g) ==               \* shared_query
    /\ publication.state = "published" /\ grant[g].state = "active" /\ part[g].state = "active"
    /\ active[g] /\ ~member[g] /\ open /\ session[g] = "live"
Authorization(g) ==
    [version |-> publication.version, generation |-> part[g].generation, serial |-> grant[g].serial]

Recorded == {"publish", "add", "withdraw", "ungrant", "expel"}
PublicationRequests ==
    [op : {"prepare"}] \cup [op : {"publish", "add"}, to : SUBSET Guests, key : Keys]
    \cup [op : {"withdraw"}, key : Keys] \cup [op : {"ungrant", "expel"}, on : Guests, key : Keys]
QualificationRequests ==
    [op : {"join", "hire", "dismiss", "signout"}, on : Guests] \cup [op : {"suspend"}, on : Users] \cup [op : {"close"}]
SourceRequests == [op : {"strike", "revive", "purge"}, on : Sources]
DownloadRequests == [op : {"download"}, on : Guests]
Requests == {d \in PublicationRequests \cup QualificationRequests \cup SourceRequests \cup DownloadRequests :
                d.op \in kinds}

-----------------------------------------------------------------------------
(* The locks of each transaction, in the order it takes them.               *)
Lock(table, id, mode) == [table |-> table, id |-> id, mode |-> mode]
Row(id, mode) == Lock("row", id, mode)
SessionRow(g, mode) == Lock("session", g, mode)
Boundary(mode) == Lock("advisory", "Q", mode)
ProjectLock(mode) == Lock("advisory", "P", mode)
Management(d) ==             \* key-share of the rows the request refers to
    <<Row(Staff, "S"), Row("project", "S"), Boundary(IF d.op = "expel" THEN "X" ELSE "S"), ProjectLock("X")>>
Joining(d) == <<Row(d.on, "S"), Row("project", "S"), Boundary("X"), ProjectLock("X")>>
SourceChange(d) ==
    IF d.op = "revive" THEN <<Row(d.on, "X"), Boundary("S")>> ELSE <<Row(d.on, "X"), Boundary("S"), ProjectLock("X")>>
TakesPart(u) == u \in Guests /\ part[u].state = "active"
Membership(d) ==             \* the project of a participation that ends
    IF d.op = "hire" /\ TakesPart(d.on) THEN <<Boundary("X"), Row(d.on, "S"), ProjectLock("X")>>
    ELSE <<Boundary("X"), Row(d.on, "S")>>
Suspension(d) ==
    IF TakesPart(d.on) THEN <<Row(d.on, "X"), Boundary("X"), ProjectLock("X")>> ELSE <<Row(d.on, "X"), Boundary("X")>>
Closing == <<Row("project", "X"), Boundary("X"), ProjectLock("X")>>
AddressFree(d) == <<Row(d.on, "S"), Boundary("S")>>        \* mutation: issued without the lock of the project
Address(d) == <<Row(d.on, "S"), Boundary("S"), ProjectLock("S"), SessionRow(d.on, "S")>>
Plan(d) ==
    CASE d.op = "prepare" -> <<>>
      [] d.op \in Recorded -> Management(d)
      [] d.op = "join" -> Joining(d)
      [] d.op \in {"hire", "dismiss"} -> Membership(d)
      [] d.op = "suspend" -> Suspension(d)
      [] d.op = "close" -> Closing
      [] d.op \in {"strike", "purge", "revive"} -> SourceChange(d)
      [] d.op = "download" -> Address(d)
      [] d.op = "signout" -> <<SessionRow(d.on, "X")>>

Ask(c) == calls[c].ask
InTransaction(c) == calls[c].at \in {"locking", "decided"}
Held(c) == IF InTransaction(c) THEN {Plan(Ask(c))[i] : i \in 1..calls[c].locks} ELSE {}
Wants(c) == IF calls[c].at = "locking" /\ calls[c].locks < Len(Plan(Ask(c)))
            THEN {Plan(Ask(c))[calls[c].locks + 1]} ELSE {}
Conflict(l, m) == l.table = m.table /\ l.id = m.id /\ "X" \in {l.mode, m.mode}
WaitsFor(c, x) == c # x /\ \E l \in Wants(c), m \in Held(x) : Conflict(l, m)

-----------------------------------------------------------------------------
Form == [publication |-> publication, part |-> part, grant |-> grant]   \* what a client has read
Done(c) == calls' = [calls EXCEPT ![c] = [at |-> "done"]]
Begin(c) ==                  \* the client's form, or the first transaction of a download
    /\ calls[c].at = "idle"
    /\ \E d \in Requests :
         /\ d.op = "download" => Entitled(d.on) /\ Current(d.on)
         /\ calls' = [calls EXCEPT ![c] =
                [at |-> "locking", ask |-> d, locks |-> 0,
                 seen |-> IF d.op = "download" THEN Authorization(d.on) ELSE Form]]
    /\ UNCHANGED <<kinds, access, receipt, world, url>>
Acquire(c) ==
    /\ calls[c].at = "locking" /\ Wants(c) # {}
    /\ \A x \in Calls : ~WaitsFor(c, x)
    /\ calls' = [calls EXCEPT ![c].locks = @ + 1]
    /\ UNCHANGED <<kinds, access, receipt, world, url>>
Refuse(c) ==                 \* permission, a stale form, a deadlock found, a lost process
    /\ calls[c].at = "locking"
    /\ Done(c)
    /\ UNCHANGED <<kinds, access, receipt, world, url>>
Locked(c) == calls[c].at = "locking" /\ Wants(c) = {}

(* What the request and the triggers decide to change.                      *)
Seen(c) == calls[c].seen
Recipients(c) ==             \* participations as the client saw them, still qualified
    \A g \in Ask(c).to : part[g] = Seen(c).part[g] /\ Current(g) /\ active[g] /\ ~member[g]
MayManage == active[Staff] /\ open             \* verify, permission
Replayed(c) == \E r \in receipt : r.key = Ask(c).key
GrantsOf(guests) == {g \in guests : grant[g].state = "active"}
Stopped == publication.state \in {"prepared", "published"}
MayPublish(c) ==
    /\ publication = Seen(c).publication
    /\ Ask(c).op = "publish" => publication.state = "prepared"
    /\ Ask(c).op = "add" => publication.state = "published" /\ GrantsOf(Ask(c).to) = {}    \* the unique index
    /\ Ask(c).op = "withdraw" => Stopped
    /\ Ask(c).op \in {"publish", "add"} => SourcesAlive /\ Recipients(c)
MayRevoke(c) ==
    /\ Ask(c).op = "ungrant" => grant[Ask(c).on] = Seen(c).grant[Ask(c).on] /\ grant[Ask(c).on].state = "active"
    /\ Ask(c).op = "expel" => part[Ask(c).on] = Seen(c).part[Ask(c).on] /\ part[Ask(c).on].state = "active"
MayJoin(g) == open /\ active[g] /\ ~member[g] /\ part[g].state # "active"
MayDownload(c) == Entitled(Ask(c).on) /\ Current(Ask(c).on) /\ Authorization(Ask(c).on) = Seen(c)
May(c) ==
    /\ Ask(c).op \in Recorded \cup {"prepare"} => MayManage
    /\ Ask(c).op = "prepare" => publication.state = "absent"
    /\ Ask(c).op \in {"publish", "add", "withdraw"} => MayPublish(c)
    /\ Ask(c).op \in {"ungrant", "expel"} => MayRevoke(c)
    /\ Ask(c).op = "join" => MayJoin(Ask(c).on)
    /\ Ask(c).op = "strike" => source[Ask(c).on] = "live"
    /\ Ask(c).op \in {"purge", "revive"} => source[Ask(c).on] = "deleted"
    /\ Ask(c).op = "download" => MayDownload(c)

NoCascade(guests) == {}      \* mutation: the grants of a revoked participation stay
Cascade(guests) == GrantsOf(guests)
Withdraws(c) == Ask(c).op = "withdraw" \/ (Ask(c).op \in {"close", "strike", "purge"} /\ Stopped)
Move(c) == IF Withdraws(c) THEN "withdrawn"
           ELSE IF Ask(c).op = "publish" THEN "published"
           ELSE IF Ask(c).op = "prepare" THEN "prepared" ELSE "stay"
Leavers(c) == {g \in Guests : /\ part[g].state = "active"
                              /\ Ask(c).op = "close" \/ (Ask(c).op \in {"expel", "hire", "suspend"} /\ Ask(c).on = g)}
Revoked(c) == {g \in GrantsOf(Guests) : Withdraws(c) \/ (Ask(c).op = "ungrant" /\ Ask(c).on = g)}
              \cup Cascade(Leavers(c))
Given(c) == IF Ask(c).op \in {"publish", "add"} THEN Ask(c).to ELSE {}
Effect(c) == [move |-> Move(c), parts |-> Leavers(c), grants |-> Revoked(c), given |-> Given(c)]
Decide(c) ==
    /\ Locked(c) /\ May(c)
    /\ Ask(c).op \in Recorded => ~Replayed(c)
    /\ calls' = [calls EXCEPT ![c].at = "decided", ![c].seen = Effect(c)]
    /\ UNCHANGED <<kinds, access, receipt, world, url>>
Replay(c) ==                 \* the stored answer again, or a conflict with another request
    /\ Locked(c) /\ Ask(c).op \in Recorded /\ Replayed(c)
    /\ Done(c)
    /\ UNCHANGED <<kinds, access, receipt, world, url>>

-----------------------------------------------------------------------------
(* Commits.                                                                 *)
Deciding(c, ops) == calls[c].at = "decided" /\ Ask(c).op \in ops
Apply(e) ==
    /\ publication' = IF e.move = "stay" THEN publication
                      ELSE [state |-> e.move, version |-> publication.version + 1]
    /\ part' = [g \in Guests |-> IF g \in e.parts THEN [part[g] EXCEPT !.state = "revoked"] ELSE part[g]]
    /\ grant' = [g \in Guests |-> IF g \in e.grants THEN [state |-> "revoked", serial |-> grant[g].serial + 1]
                                  ELSE IF g \in e.given THEN [state |-> "active", serial |-> grant[g].serial + 1]
                                  ELSE grant[g]]
Prepare(c) ==                \* the row's id is that of the request: a second insert has no effect
    /\ Deciding(c, {"prepare"})
    /\ IF publication.state = "absent" THEN Apply(Seen(c)) ELSE UNCHANGED access
    /\ Done(c) /\ UNCHANGED <<kinds, receipt, world, url>>
Manage(c, op) ==             \* with its root event
    /\ Deciding(c, {op}) /\ Apply(Seen(c))
    /\ receipt' = receipt \cup {Ask(c)}
    /\ Done(c) /\ UNCHANGED <<kinds, world, url>>
Publish(c) == Manage(c, "publish")
AddGrants(c) == Manage(c, "add")
Withdraw(c) == Manage(c, "withdraw")
RevokeGrant(c) == Manage(c, "ungrant")
RevokeParticipation(c) == Manage(c, "expel")
Join(c) ==                   \* an invitation accepted: the next generation
    /\ Deciding(c, {"join"})
    /\ part' = [part EXCEPT ![Ask(c).on] = [state |-> "active", generation |-> @.generation + 1, lapsed |-> FALSE]]
    /\ Done(c) /\ UNCHANGED <<kinds, publication, grant, receipt, world, url>>
Hire(c) ==
    /\ Deciding(c, {"hire"}) /\ Apply(Seen(c))
    /\ member' = [member EXCEPT ![Ask(c).on] = TRUE]
    /\ Done(c) /\ UNCHANGED <<kinds, receipt, source, active, open, session, url>>
Dismiss(c) ==
    /\ Deciding(c, {"dismiss"})
    /\ member' = [member EXCEPT ![Ask(c).on] = FALSE]
    /\ Done(c) /\ UNCHANGED <<kinds, access, receipt, source, active, open, session, url>>
Suspend(c) ==
    /\ Deciding(c, {"suspend"}) /\ Apply(Seen(c))
    /\ active' = [active EXCEPT ![Ask(c).on] = FALSE]
    /\ Done(c) /\ UNCHANGED <<kinds, receipt, source, member, open, session, url>>
Close(c) ==                  \* the project deleted or its tenant stopped
    /\ Deciding(c, {"close"}) /\ Apply(Seen(c))
    /\ open' = FALSE
    /\ Done(c) /\ UNCHANGED <<kinds, receipt, source, active, member, session, url>>
Strike(c) ==                 \* a source deleted
    /\ Deciding(c, {"strike"}) /\ Apply(Seen(c))
    /\ source' = [source EXCEPT ![Ask(c).on] = "deleted"]
    /\ Done(c) /\ UNCHANGED <<kinds, receipt, active, member, open, session, url>>
Revive(c) ==                 \* what was withdrawn stays withdrawn
    /\ Deciding(c, {"revive"})
    /\ source' = [source EXCEPT ![Ask(c).on] = "live"]
    /\ Done(c) /\ UNCHANGED <<kinds, access, receipt, active, member, open, session, url>>
Purge(c) ==
    /\ Deciding(c, {"purge"}) /\ Apply(Seen(c))
    /\ source' = [source EXCEPT ![Ask(c).on] = "purged"]
    /\ Done(c) /\ UNCHANGED <<kinds, receipt, active, member, open, session, url>>
SignOut(c) ==
    /\ Deciding(c, {"signout"})
    /\ session' = [session EXCEPT ![Ask(c).on] = "revoked"]
    /\ Done(c) /\ UNCHANGED <<kinds, access, receipt, source, active, member, open, url>>
Issue(c) ==                  \* signed while the locks are held
    /\ Deciding(c, {"download"})
    /\ url' = url \cup {Ask(c).on}
    /\ Done(c) /\ UNCHANGED <<kinds, access, receipt, world>>
Lapse(g) ==                  \* time passes
    /\ part[g].state = "active" /\ ~part[g].lapsed
    /\ part' = [part EXCEPT ![g].lapsed = TRUE]
    /\ UNCHANGED <<kinds, publication, grant, receipt, world, url, calls>>

-----------------------------------------------------------------------------
Init ==
    /\ kinds \in Concerns
    /\ publication \in {[state |-> "absent", version |-> 0], [state |-> "prepared", version |-> 1]}
                       \cup {[state |-> "published", version |-> 2]}
    /\ \E joined \in SUBSET Guests, given \in SUBSET Guests :
         /\ given \subseteq joined
         /\ publication.state = "published" \/ given = {}
         /\ part = [g \in Guests |-> IF g \in joined THEN [state |-> "active", generation |-> 1, lapsed |-> FALSE]
                                     ELSE [state |-> "absent", generation |-> 0, lapsed |-> FALSE]]
         /\ grant = [g \in Guests |-> IF g \in given THEN [state |-> "active", serial |-> 1]
                                      ELSE [state |-> "absent", serial |-> 0]]
    /\ receipt = {}
    /\ source = [s \in Sources |-> "live"]
    /\ active = [u \in Users |-> TRUE]
    /\ member = [g \in Guests |-> FALSE]
    /\ open = TRUE
    /\ session = [g \in Guests |-> "live"]
    /\ url = {}
    /\ calls = [c \in Calls |-> [at |-> "idle"]]

Publishing(c) == Prepare(c) \/ Publish(c) \/ AddGrants(c) \/ Withdraw(c) \/ RevokeGrant(c) \/ RevokeParticipation(c)
Qualifying(c) == Join(c) \/ Hire(c) \/ Dismiss(c) \/ Suspend(c) \/ Close(c) \/ SignOut(c)
Changing(c) == Strike(c) \/ Revive(c) \/ Purge(c)
Next ==
    \/ \E g \in Guests : Lapse(g)
    \/ \E c \in Calls : \/ Begin(c) \/ Acquire(c) \/ Refuse(c) \/ Decide(c) \/ Replay(c)
                        \/ Publishing(c) \/ Qualifying(c) \/ Changing(c) \/ Issue(c)
Spec == Init /\ [][Next]_vars

-----------------------------------------------------------------------------
(* Every row has its type.                                                  *)
TypeOK ==
    /\ publication \in Publication /\ grant \in [Guests -> Grant] /\ part \in [Guests -> Participation]
    /\ session \in [Guests -> Session] /\ url \subseteq Guests

(* What is published is there: no source of it is deleted and the project   *)
(* is open, however a deletion and a publication overlap.                   *)
PublishedSourcesLive == publication.state = "published" => SourcesAlive

(* A grant stands only on a publication that is out and on a participation  *)
(* that is not revoked: withdrawing or revoking takes the grants along.     *)
GrantIsBacked == \A g \in Guests :
    grant[g].state = "active" => publication.state = "published" /\ part[g].state = "active"

(* A participant is an active user from outside the tenant, also when he is *)
(* suspended or made a member while he joins.                               *)
ParticipantIsOutside == \A g \in Guests : part[g].state = "active" => active[g] /\ ~member[g]

(* A download address is issued only to somebody who may see the file at    *)
(* that moment, with a session that is not revoked.                         *)
AddressFollowsEntitlement == [][\A g \in url' \ url : Entitled(g)]_vars

(* Requests on publications and downloads wait, but never in a circle: the  *)
(* rows they refer to are locked before the advisory locks.                 *)
NoCircle == \A c, x, y \in Calls :
    /\ InTransaction(c) /\ Ask(c).op \in Recorded \cup {"download", "join"}
    => ~(WaitsFor(c, x) /\ (WaitsFor(x, c) \/ (WaitsFor(x, y) /\ WaitsFor(y, c))))
=============================================================================
