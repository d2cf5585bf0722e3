------------------------- MODULE Identity_proofs -------------------------
(***************************************************************************)
(* Proofs about Identity for any number of users, addresses, calls,        *)
(* sessions and links, and any bound on the writes to a row.               *)
(*                                                                         *)
(* What makes its promises hold is the lock on the users row.  A call that *)
(* has read a row under the lock finds it unchanged when it commits, and   *)
(* what it holds for the user (a link to confirm, an approval to replace)  *)
(* is still usable: whoever would change the row or revoke what belongs to *)
(* it needs the same lock.                                                 *)
(***************************************************************************)
EXTENDS Identity, TLAPS

\* Rows, with the bounds that TypeOK takes from the number of writes.
Acct == [email : Emails, pw : Nat, era : Nat, version : Nat, edits : Nat,
         active : BOOLEAN, deleted : BOOLEAN, initial : BOOLEAN]
Counted(r) ==
    r.pw <= r.era /\ r.era <= r.edits /\ r.version <= r.edits /\ r.edits <= MaxEdits
SessionRow ==
    [st : {"live", "revoked"}, user : Users, sub : Emails, era : 0 .. MaxEdits,
     setup : BOOLEAN, idle : BOOLEAN, over : BOOLEAN]
LinkRow ==
    [st : {"usable", "consumed", "revoked"}, purpose : {"reset", "approve", "verify"},
     user : Users, fp : Emails \X (0 .. MaxEdits), era : 0 .. MaxEdits,
     new : Emails \cup {NoOne}, late : BOOLEAN]

\* What a call carries, by the operation it runs.
Login == [op : {"login"}, at : {"open"}, user : Users, row : Acct]
Visit == [op : {"request"}, at : {"who", "in"}, session : Sessions, user : Users, born : Nat]
Form == [op : {"update", "profile"}, at : {"form", "write"}, user : Users, version : Nat]
Mail ==
    [op : {"mail"}, at : {"sent"}, user : Users, link : Links,
     purpose : {"reset", "approve", "verify"}, new : Emails \cup {NoOne},
     by : Links \cup {NoOne}]
Change == [op : {"confirm"}, at : {"confirm"}, user : Users, link : Links]
CallRow == {Idle} \cup Login \cup Visit \cup Form \cup Mail \cup Change

AcctTyped == acct \in [Users -> Acct] /\ \A u \in Users : Counted(acct[u])
SessionTyped == session \in [Sessions -> {NoSession} \cup SessionRow]
LinkTyped == link \in [Links -> {Unsent, Orphan} \cup LinkRow]
CallTyped == call \in [Calls -> CallRow]
HolderTyped == holder \in [Users -> Calls \cup {NoOne}]
Typed == AcctTyped /\ SessionTyped /\ LinkTyped /\ CallTyped /\ HolderTyped

\* The lock of a row is held exactly by the call that has to commit for its user.
Locks(r) ==
    r.op \in {"login", "mail", "confirm"} \/ (r.op = "update" /\ r.at = "write")
HolderLocks ==
    \A u \in Users : holder[u] # NoOne =>
        Locks(call[holder[u]]) /\ call[holder[u]].user = u
LockerHolds == \A c \in Calls : Locks(call[c]) => holder[call[c].user] = c
LocksFit == HolderLocks /\ LockerHolds

\* What each call knows still holds.
LoginFits(c) == call[c].op = "login" => call[c].row = acct[call[c].user]
VisitFits(c) ==
    call[c].op = "request" =>
        /\ session[call[c].session] \in SessionRow
        /\ session[call[c].session].era = call[c].born
FormFits(c) ==
    /\ call[c].op \in {"update", "profile"} => call[c].version <= acct[call[c].user].edits
    /\ (call[c].op = "update" /\ call[c].at = "write") => acct[call[c].user].edits < MaxEdits
MailFits(c) ==
    call[c].op = "mail" =>
        /\ link[call[c].link] = Orphan
        /\ (call[c].by # NoOne) <=> (call[c].purpose = "verify")
        /\ call[c].purpose # "reset" => call[c].new # NoOne
        /\ call[c].by # NoOne =>
              /\ Usable(call[c].by)
              /\ link[call[c].by].purpose = "approve"
              /\ link[call[c].by].user = call[c].user
              /\ link[call[c].by].new = call[c].new
MailIsOwn ==
    \A c, d \in Calls : (/\ call[c].op = "mail" /\ call[d].op = "mail"
                         /\ call[c].link = call[d].link) => c = d
ChangeFits(c) ==
    call[c].op = "confirm" =>
        /\ Usable(call[c].link)
        /\ link[call[c].link].user = call[c].user
        /\ link[call[c].link].purpose \in {"reset", "verify"}
        /\ acct[call[c].user].edits < MaxEdits
CallFits(c) == LoginFits(c) /\ VisitFits(c) /\ FormFits(c) /\ MailFits(c) /\ ChangeFits(c)
CallsFit == (\A c \in Calls : CallFits(c)) /\ MailIsOwn

\* A link of an address change names the address.
LinksNameNew ==
    \A l \in Links : (link[l] \in LinkRow /\ link[l].purpose # "reset") => link[l].new # NoOne
LinksHold == NoStaleLink /\ VerifyFollowsApproval /\ LinksNameNew

IInv == Typed /\ LocksFit /\ CallsFit /\ NoStaleSession /\ LinksHold

-----------------------------------------------------------------------------
(* What the rows of a call, a link and a session are.                        *)

LEMMA CallShape ==
    ASSUME Typed, NEW c \in Calls
    PROVE  /\ call[c].op = "login" => call[c] \in Login
           /\ call[c].op = "request" => call[c] \in Visit
           /\ call[c].op \in {"update", "profile"} => call[c] \in Form
           /\ call[c].op = "mail" => call[c] \in Mail
           /\ call[c].op = "confirm" => call[c] \in Change
           /\ call[c].op \notin {"login", "request", "update", "profile", "mail", "confirm"}
                => call[c] = Idle
BY DEF Typed, CallTyped, CallRow, Idle, Login, Visit, Form, Mail, Change

LEMMA LinkShape ==
    ASSUME Typed, NEW l \in Links
    PROVE  /\ link[l].st \in {"usable", "consumed", "revoked"} <=> link[l] \in LinkRow
           /\ link[l] = Orphan => link[l] \notin LinkRow
           /\ link[l] = Unsent => link[l] \notin LinkRow
           /\ link[l] \in {Unsent, Orphan} \cup LinkRow
BY DEF Typed, LinkTyped, LinkRow, Unsent, Orphan

LEMMA SessionShape ==
    ASSUME Typed, NEW s \in Sessions
    PROVE  /\ session[s].st \in {"live", "revoked"} <=> session[s] \in SessionRow
           /\ session[s] = NoSession => session[s] \notin SessionRow
           /\ session[s] \in {NoSession} \cup SessionRow
BY DEF Typed, SessionTyped, SessionRow, NoSession

\* A row that counts its writes is a row of TypeOK.
LEMMA CountedRow ==
    ASSUME NEW r \in Acct, Counted(r)
    PROVE  /\ r \in [email : Emails, pw : 0 .. MaxEdits, era : 0 .. MaxEdits,
                     version : 0 .. MaxEdits, edits : 0 .. MaxEdits,
                     active : BOOLEAN, deleted : BOOLEAN, initial : BOOLEAN]
           /\ r.era \in 0 .. MaxEdits /\ r.pw \in 0 .. MaxEdits
BY BoundsAssumption DEF Acct, Counted

-----------------------------------------------------------------------------
(* Frames.  The step of a call c (or of no call) leaves alone what the other *)
(* calls hold: the rows they have locked, the sessions they came with, the   *)
(* links they are about to use.                                              *)

RowsOfOthers(c) ==
    /\ \A u \in Users : holder[u] \notin {NoOne, c} => acct'[u] = acct[u]
    /\ \A u \in Users : acct'[u].edits \in Nat /\ acct'[u].edits >= acct[u].edits
SessionsLast ==
    \A s \in Sessions : session[s] \in SessionRow =>
        session'[s] \in SessionRow /\ session'[s].era = session[s].era
LinksOfOthers(c) ==
    /\ \A d \in Calls \ {c} : call[d].op = "mail" => link'[call[d].link] = Orphan
    /\ \A l \in Links : Usable(l) /\ holder[link[l].user] \notin {NoOne, c} =>
          /\ link'[l].st = "usable" /\ link'[l].purpose = link[l].purpose
          /\ link'[l].user = link[l].user /\ link'[l].new = link[l].new
OthersKept(c) == RowsOfOthers(c) /\ SessionsLast /\ LinksOfOthers(c)

LEMMA OthersFit ==
    ASSUME IInv, NEW c, OthersKept(c), NEW d \in Calls, d # c, call'[d] = call[d]
    PROVE  CallFits(d)'
<1>. USE DEF IInv
<1>1. CallFits(d) /\ Typed /\ NoOne \notin Calls /\ NoOne \notin Links
  BY NamesAssumption DEF CallsFit
<1>2. Locks(call[d]) => holder[call[d].user] = d /\ holder[call[d].user] \notin {NoOne, c}
  BY <1>1 DEF LocksFit, LockerHolds
<1>3. LoginFits(d)'
  BY <1>1, <1>2, CallShape DEF LoginFits, CallFits, Locks, OthersKept, RowsOfOthers, Login
<1>4. VisitFits(d)'
  BY <1>1, CallShape DEF VisitFits, CallFits, OthersKept, SessionsLast, Visit
<1>5. FormFits(d)'
  <2>1. CASE call[d].op \in {"update", "profile"}
    <3>1. call[d] \in Form /\ call[d].user \in Users
      BY <2>1, <1>1, CallShape DEF Form
    <3>2. acct[call[d].user].edits \in Nat
      BY <3>1 DEF Typed, AcctTyped, Acct
    <3>. QED
      BY <1>1, <1>2, <3>1, <3>2 DEF FormFits, CallFits, Locks, OthersKept, RowsOfOthers, Form
  <2>2. CASE call[d].op \notin {"update", "profile"}
    BY <2>2 DEF FormFits
  <2>. QED  BY <2>1, <2>2
<1>6. MailFits(d)'
  <2>1. CASE call[d].op = "mail"
    <3>1. call[d] \in Mail /\ call[d].link \in Links /\ call[d].by \in Links \cup {NoOne}
      BY <2>1, <1>1, CallShape DEF Mail
    <3>. QED
      BY <2>1, <1>1, <1>2, <3>1 DEF MailFits, CallFits, Locks, OthersKept, LinksOfOthers, Usable
  <2>. QED  BY <2>1 DEF MailFits
<1>7. ChangeFits(d)'
  <2>1. CASE call[d].op = "confirm"
    <3>1. call[d] \in Change /\ call[d].link \in Links /\ call[d].user \in Users
      BY <2>1, <1>1, CallShape DEF Change
    <3>. QED
      BY <2>1, <1>1, <1>2, <3>1
      DEF ChangeFits, CallFits, Locks, OthersKept, LinksOfOthers, RowsOfOthers, Usable
  <2>. QED  BY <2>1 DEF ChangeFits
<1>. QED  BY <1>3, <1>4, <1>5, <1>6, <1>7 DEF CallFits

\* A call that moves on to r, when r is no mail.
LEMMA CallMoves ==
    ASSUME IInv, NEW c \in Calls, OthersKept(c), NEW r \in CallRow, r.op # "mail",
           call' = [call EXCEPT ![c] = r], CallFits(c)'
    PROVE  CallTyped' /\ CallsFit'
<1>. USE DEF IInv
<1>1. call'[c] = r /\ \A d \in Calls : d # c => call'[d] = call[d]
  BY DEF Typed, CallTyped
<1>2. CallTyped'
  BY DEF Typed, CallTyped
<1>3. \A d \in Calls : CallFits(d)'
  BY <1>1, OthersFit
<1>4. MailIsOwn'
  BY <1>1 DEF CallsFit, MailIsOwn
<1>. QED  BY <1>2, <1>3, <1>4 DEF CallsFit

LEMMA CallsStay ==
    ASSUME IInv, OthersKept(NoOne), UNCHANGED call
    PROVE  CallTyped' /\ CallsFit'
<1>1. \A d \in Calls : CallFits(d)'
  BY OthersFit, NamesAssumption
<1>2. CallTyped' /\ MailIsOwn'
  BY DEF IInv, Typed, CallTyped, CallsFit, MailIsOwn
<1>. QED  BY <1>1, <1>2 DEF CallsFit

LEMMA NothingMoves ==
    ASSUME IInv, NEW c, UNCHANGED <<acct, session, link>>,
           \A d \in Calls \ {c} : call[d].op = "mail" => link[call[d].link] = Orphan
    PROVE  OthersKept(c)
BY DEF IInv, Typed, AcctTyped, Acct, OthersKept, RowsOfOthers, SessionsLast, LinksOfOthers, Usable

LEMMA MailsAreOut ==
    ASSUME IInv, NEW d \in Calls, call[d].op = "mail"
    PROVE  call[d].link \in Links /\ link[call[d].link] = Orphan
BY CallShape DEF IInv, CallsFit, CallFits, MailFits, Mail

-----------------------------------------------------------------------------
(* The locks.                                                                *)

LEMMA LocksTaken ==
    ASSUME IInv, NEW c \in Calls, NEW u \in Users, NEW r, Take(c, u, r),
           ~Locks(call[c]), Locks(r), r.user = u
    PROVE  LocksFit' /\ HolderTyped'
<1>1. call'[c] = r /\ \A d \in Calls : d # c => call'[d] = call[d]
  BY DEF IInv, Typed, CallTyped, Take
<1>2. holder'[u] = c /\ holder[u] = NoOne /\ \A v \in Users : v # u => holder'[v] = holder[v]
  BY DEF IInv, Typed, HolderTyped, Take, Free
<1>3. HolderTyped'
  BY DEF IInv, Typed, HolderTyped, Take
<1>4. \A v \in Users : holder[v] # NoOne => holder[v] \in Calls /\ holder[v] # c
  BY DEF IInv, Typed, HolderTyped, LocksFit, HolderLocks
<1>5. HolderLocks'
  BY <1>1, <1>2, <1>4 DEF IInv, LocksFit, HolderLocks, Locks
<1>6. LockerHolds'
  <2>. SUFFICES ASSUME NEW d \in Calls, Locks(call'[d])
                PROVE  holder'[call'[d].user] = d
    BY DEF LockerHolds, Locks
  <2>1. CASE d = c
    BY <2>1, <1>1, <1>2
  <2>2. CASE d # c
    <3>1. call'[d] = call[d] /\ holder[call[d].user] = d
      BY <2>2, <1>1 DEF IInv, LocksFit, LockerHolds
    <3>2. call[d].user \in Users
      BY <3>1, CallShape DEF IInv, Locks, Login, Mail, Change, Form
    <3>. QED  BY <3>1, <3>2, <1>2, NamesAssumption
  <2>. QED  BY <2>1, <2>2
<1>. QED  BY <1>3, <1>5, <1>6 DEF LocksFit

LEMMA LocksReleased ==
    ASSUME IInv, NEW c \in Calls, Release(c)
    PROVE  LocksFit' /\ HolderTyped'
<1>1. call'[c] = Idle /\ \A d \in Calls : d # c => call'[d] = call[d]
  BY DEF IInv, Typed, CallTyped, Release
<1>2. \A v \in Users : holder'[v] = IF holder[v] = c THEN NoOne ELSE holder[v]
  BY DEF Release
<1>3. HolderTyped'
  BY DEF IInv, Typed, HolderTyped, Release
<1>4. HolderLocks'
  BY <1>1, <1>2 DEF IInv, Typed, HolderTyped, LocksFit, HolderLocks, Locks
<1>5. LockerHolds'
  <2>. SUFFICES ASSUME NEW d \in Calls, Locks(call'[d])
                PROVE  holder'[call'[d].user] = d
    BY DEF LockerHolds, Locks
  <2>1. d # c
    BY <1>1 DEF Locks, Idle
  <2>2. call'[d] = call[d] /\ holder[call[d].user] = d
    BY <2>1, <1>1 DEF IInv, LocksFit, LockerHolds
  <2>3. call[d].user \in Users
    BY <2>2, CallShape DEF IInv, Locks, Login, Mail, Change, Form
  <2>. QED  BY <2>1, <2>2, <2>3, <1>2
<1>. QED  BY <1>3, <1>4, <1>5 DEF LocksFit

LEMMA LocksStay ==
    ASSUME IInv, NEW c \in Calls, NEW r, ~Locks(r), ~Locks(call[c]),
           UNCHANGED holder, call' = [call EXCEPT ![c] = r]
    PROVE  LocksFit' /\ HolderTyped'
<1>1. call'[c] = r /\ \A d \in Calls : d # c => call'[d] = call[d]
  BY DEF IInv, Typed, CallTyped
<1>2. HolderLocks'
  BY <1>1 DEF IInv, Typed, HolderTyped, LocksFit, HolderLocks, Locks
<1>3. LockerHolds'
  BY <1>1 DEF IInv, LocksFit, LockerHolds, Locks
<1>. QED  BY <1>2, <1>3 DEF IInv, Typed, HolderTyped, LocksFit

-----------------------------------------------------------------------------
(* The rows.                                                                 *)

SameCounts(r, a) == r.era = a.era /\ r.edits = a.edits /\ r.version = a.version

LEMMA RowChanged ==
    ASSUME IInv, NEW c, NEW u \in Users, holder[u] \in {NoOne, c}, NEW r \in Acct, Counted(r),
           r.edits >= acct[u].edits, acct' = [acct EXCEPT ![u] = r]
    PROVE  AcctTyped' /\ RowsOfOthers(c)
<1>. acct \in [Users -> Acct] /\ \A v \in Users : Counted(acct[v])
  BY DEF IInv, Typed, AcctTyped
<1>1. acct' \in [Users -> Acct] /\ acct'[u] = r /\ \A v \in Users : v # u => acct'[v] = acct[v]
  OBVIOUS
<1>2. \A v \in Users : Counted(acct'[v])
  BY <1>1
<1>3. \A v \in Users : acct[v].edits \in Nat /\ r.edits \in Nat
  BY DEF Acct
<1>. QED  BY <1>1, <1>2, <1>3 DEF AcctTyped, RowsOfOthers, Counted

\* Rows with one more column written.
LEMMA Columns ==
    ASSUME NEW r \in Acct, NEW n \in Nat
    PROVE  /\ [r EXCEPT !.version = n] \in Acct
           /\ [r EXCEPT !.edits = n] \in Acct
           /\ [r EXCEPT !.era = n] \in Acct
BY DEF Acct

\* What a form or a link may write to a row.
LEMMA EmailColumn ==
    ASSUME NEW r \in Acct, NEW e \in Emails
    PROVE  /\ [r EXCEPT !.email = e] \in Acct /\ SameCounts([r EXCEPT !.email = e], r)
           /\ [r EXCEPT !.email = e].pw = r.pw /\ [r EXCEPT !.email = e].initial = r.initial
BY DEF Acct, SameCounts

LEMMA PasswordColumn ==
    ASSUME NEW r \in Acct, NEW n \in Nat
    PROVE  /\ [r EXCEPT !.pw = n] \in Acct /\ SameCounts([r EXCEPT !.pw = n], r)
           /\ [r EXCEPT !.pw = n].pw = n /\ [r EXCEPT !.pw = n].initial = r.initial
BY DEF Acct, SameCounts

LEMMA ActiveColumn ==
    ASSUME NEW r \in Acct, NEW b \in BOOLEAN
    PROVE  /\ [r EXCEPT !.active = b] \in Acct /\ SameCounts([r EXCEPT !.active = b], r)
           /\ [r EXCEPT !.active = b].pw = r.pw /\ [r EXCEPT !.active = b].initial = r.initial
BY DEF Acct, SameCounts

LEMMA EndOrStart ==
    ASSUME NEW r \in Acct
    PROVE  /\ [r EXCEPT !.deleted = TRUE] \in Acct /\ SameCounts([r EXCEPT !.deleted = TRUE], r)
           /\ [r EXCEPT !.deleted = TRUE].pw = r.pw
           /\ [r EXCEPT !.deleted = TRUE].initial = r.initial
           /\ [r EXCEPT !.initial = FALSE] \in Acct /\ SameCounts([r EXCEPT !.initial = FALSE], r)
           /\ [r EXCEPT !.initial = FALSE].pw = r.pw
BY DEF Acct, SameCounts

LEMMA WrittenRow ==
    ASSUME NEW r \in Acct
    PROVE  /\ Written(r) \in Acct
           /\ Written(r).version = r.version + 1 /\ Written(r).edits = r.edits + 1
           /\ Written(r).era = r.era /\ Written(r).pw = r.pw
           /\ Written(r).initial = r.initial
<1> DEFINE v == [r EXCEPT !.version = r.version + 1]
<1>1. v \in Acct /\ v.edits = r.edits
  BY Columns DEF Acct
<1>2. Written(r) = [v EXCEPT !.edits = v.edits + 1]
  BY <1>1 DEF Written
<1>3. Written(r) \in Acct
  <2>. HIDE DEF v
  <2>. QED  BY <1>1, <1>2, Columns DEF Acct
<1>. QED  BY <1>3 DEF Written, Acct

LEMMA EraRow ==
    ASSUME NEW r \in Acct
    PROVE  /\ NewEra(r) \in Acct
           /\ NewEra(r).version = r.version + 1 /\ NewEra(r).edits = r.edits + 1
           /\ NewEra(r).era = r.era + 1 /\ NewEra(r).pw = r.pw
           /\ NewEra(r).initial = r.initial
<1> DEFINE w == Written(r)
<1>1. w \in Acct /\ w.era = r.era
  BY WrittenRow
<1>. HIDE DEF w
<1>2. NewEra(r) = [w EXCEPT !.era = w.era + 1]
  BY DEF NewEra, w
<1>3. NewEra(r) \in Acct
  BY <1>1, <1>2, Columns DEF Acct
<1>4. /\ NewEra(r).version = w.version /\ NewEra(r).edits = w.edits /\ NewEra(r).era = w.era + 1
      /\ NewEra(r).pw = w.pw /\ NewEra(r).initial = w.initial
  BY <1>1, <1>2 DEF Acct
<1>. QED  BY <1>1, <1>3, <1>4, WrittenRow DEF w

\* Such rows still count their writes.
LEMMA StillCounted ==
    ASSUME NEW a \in Acct, Counted(a), a.edits < MaxEdits, NEW r \in Acct,
           r.edits = a.edits + 1, r.version <= a.version + 1,
           \/ r.era = a.era /\ r.pw <= a.era
           \/ r.era = a.era + 1 /\ r.pw <= a.era + 1
    PROVE  Counted(r) /\ r.edits >= a.edits
BY BoundsAssumption DEF Counted, Acct

LEMMA EndedSession ==
    ASSUME NEW r \in SessionRow
    PROVE  /\ [r EXCEPT !.st = "revoked"] \in SessionRow
           /\ [r EXCEPT !.st = "revoked"].st = "revoked"
           /\ [r EXCEPT !.st = "revoked"].era = r.era
BY DEF SessionRow

LEMMA EndedLink ==
    ASSUME NEW r \in LinkRow, NEW w, w = "consumed" \/ w = "revoked"
    PROVE  /\ [r EXCEPT !.st = w] \in LinkRow
           /\ [r EXCEPT !.st = w].st # "usable" /\ [r EXCEPT !.st = w].st = w
           /\ [r EXCEPT !.st = w].purpose = r.purpose
           /\ [r EXCEPT !.st = w].user = r.user /\ [r EXCEPT !.st = w].new = r.new
           /\ [r EXCEPT !.st = w].era = r.era
BY DEF LinkRow

LEMMA SessionsRest ==
    ASSUME IInv, UNCHANGED session,
           \A u \in Users : acct'[u].era = acct[u].era /\ acct'[u].initial = acct[u].initial
    PROVE  SessionTyped' /\ SessionsLast /\ NoStaleSession'
<1>1. \A s \in Sessions : Live(s) => session[s].user \in Users
  BY SessionShape DEF IInv, Live, SessionRow
<1>. QED
  BY <1>1 DEF IInv, Typed, SessionTyped, SessionsLast, NoStaleSession, Live

LEMMA SessionsRevoked ==
    ASSUME IInv, NEW u \in Users, RevokeSessions(u),
           \A v \in Users \ {u} : acct'[v] = acct[v]
    PROVE  SessionTyped' /\ SessionsLast /\ NoStaleSession'
<1>1. \A s \in Sessions :
        session'[s] = IF session[s].st = "live" /\ session[s].user = u
                      THEN [session[s] EXCEPT !.st = "revoked"] ELSE session[s]
  BY DEF RevokeSessions, Live
<1>2. \A s \in Sessions : session[s].st = "live" => session[s] \in SessionRow
  BY SessionShape DEF IInv
<1>3. \A s \in Sessions : session'[s] \in {NoSession} \cup SessionRow
  BY <1>1, <1>2, SessionShape, EndedSession DEF IInv
<1>4. SessionTyped'
  BY <1>3 DEF RevokeSessions, SessionTyped, IInv, Typed
<1>5. SessionsLast
  BY <1>1, EndedSession DEF SessionsLast
<1>6. NoStaleSession'
  <2>. SUFFICES ASSUME NEW s \in Sessions, session'[s].st = "live"
                PROVE  /\ session'[s].era = acct'[session'[s].user].era
                       /\ session'[s].setup = acct'[session'[s].user].initial
    BY DEF NoStaleSession, Live
  <2>1. session'[s] = session[s] /\ session[s].user # u
    BY <1>1, <1>2, EndedSession
  <2>2. session[s].user \in Users
    BY <1>2, <2>1 DEF SessionRow
  <2>. QED  BY <2>1, <2>2 DEF IInv, NoStaleSession, Live
<1>. QED  BY <1>4, <1>5, <1>6

\* One row that stays what it was opened as, and does not come to life.
LEMMA SessionMarked ==
    ASSUME IInv, UNCHANGED acct, NEW s \in Sessions, session[s] \in SessionRow,
           NEW r \in SessionRow, session' = [session EXCEPT ![s] = r],
           r.user = session[s].user, r.era = session[s].era, r.setup = session[s].setup,
           r.st = "live" => Live(s)
    PROVE  SessionTyped' /\ SessionsLast /\ NoStaleSession'
<1>1. session'[s] = r /\ \A t \in Sessions : t # s => session'[t] = session[t]
  BY DEF IInv, Typed, SessionTyped
<1>2. SessionTyped'
  BY DEF IInv, Typed, SessionTyped
<1>. QED  BY <1>1, <1>2 DEF IInv, SessionsLast, NoStaleSession, Live

LEMMA LinksRest ==
    ASSUME IInv, UNCHANGED link, \A u \in Users : acct'[u].era = acct[u].era
    PROVE  LinkTyped' /\ LinksHold' /\ \A c : LinksOfOthers(c)
<1>1. \A l \in Links : Usable(l) => link[l].user \in Users
  BY LinkShape DEF IInv, Usable, LinkRow
<1>2. \A d \in Calls : call[d].op = "mail" => link[call[d].link] = Orphan
  BY MailsAreOut
<1>. QED
  BY <1>1, <1>2 DEF IInv, Typed, LinkTyped, LinksHold, NoStaleLink, VerifyFollowsApproval, LinksNameNew,
                    LinksOfOthers, Usable

\* What a credential change leaves of the links: none of its user's is usable.
LEMMA LinksClosed ==
    ASSUME IInv, NEW u \in Users, NEW c, holder[u] \in {NoOne, c}, NEW l,
           l = NoOne \/ (l \in Links /\ Usable(l) /\ link[l].user = u),
           link' = LinksAfter(u, l), \A v \in Users \ {u} : acct'[v] = acct[v]
    PROVE  /\ LinkTyped' /\ LinksHold' /\ LinksOfOthers(c)
           /\ \A k \in Links : link'[k].st = "usable" => link'[k] = link[k] /\ link[k].user # u
           /\ \A k \in Links : link[k].st # "usable" => link'[k] = link[k]
<1>. Typed /\ NoOne \notin Links
  BY NamesAssumption DEF IInv
<1>1. \A k \in Links : Usable(k) => link[k] \in LinkRow
  BY LinkShape DEF Usable
<1>2. \A k \in Links :
        \/ link'[k] = link[k] /\ (Usable(k) => link[k].user # u)
        \/ /\ Usable(k) /\ link[k].user = u /\ link[k] \in LinkRow
           /\ link'[k] \in LinkRow /\ link'[k].st # "usable"
           /\ link'[k].purpose = link[k].purpose /\ link'[k].new = link[k].new
  <2>. SUFFICES ASSUME NEW k \in Links,
                       link'[k] # link[k] \/ (Usable(k) /\ link[k].user = u)
                PROVE  /\ Usable(k) /\ link[k].user = u /\ link[k] \in LinkRow
                       /\ link'[k] \in LinkRow /\ link'[k].st # "usable"
                       /\ link'[k].purpose = link[k].purpose /\ link'[k].new = link[k].new
    OBVIOUS
  <2>1. Usable(k) /\ link[k].user = u
    BY DEF LinksAfter
  <2>2. CASE k = l
    <3>1. link'[k] = [link[k] EXCEPT !.st = "consumed"]
      BY <2>2 DEF LinksAfter
    <3>2. PICK r \in LinkRow : r = link[k]
      BY <1>1, <2>1
    <3>. QED  BY <2>1, <3>1, <3>2, EndedLink
  <2>3. CASE k # l
    <3>1. link'[k] = [link[k] EXCEPT !.st = "revoked"]
      BY <2>1, <2>3 DEF LinksAfter
    <3>2. PICK r \in LinkRow : r = link[k]
      BY <1>1, <2>1
    <3>. QED  BY <2>1, <3>1, <3>2, EndedLink
  <2>. QED  BY <2>2, <2>3
<1>3. \A k \in Links : link'[k] \in {Unsent, Orphan} \cup LinkRow
  BY <1>2, LinkShape
<1>4. LinkTyped'
  BY <1>3 DEF LinksAfter, LinkTyped, Typed
<1>5. \A k \in Links : link'[k].st = "usable" => link'[k] = link[k] /\ link[k].user # u
  BY <1>2 DEF Usable
<1>6. \A k \in Links : link[k].st # "usable" => link'[k] = link[k]
  BY <1>2 DEF Usable
<1>7. NoStaleLink'
  BY <1>1, <1>5 DEF IInv, LinksHold, NoStaleLink, Usable, LinkRow
<1>8. VerifyFollowsApproval'
  BY <1>5, <1>6 DEF IInv, LinksHold, VerifyFollowsApproval, Usable
<1>9. LinksNameNew'
  BY <1>2 DEF IInv, LinksHold, LinksNameNew
<1>10. LinksOfOthers(c)
  <2>1. \A d \in Calls : call[d].op = "mail" => link'[call[d].link] = Orphan
    BY <1>6, MailsAreOut DEF Orphan
  <2>2. \A k \in Links : Usable(k) /\ holder[link[k].user] \notin {NoOne, c} => link'[k] = link[k]
    BY <1>2
  <2>. QED  BY <2>1, <2>2 DEF LinksOfOthers, Usable
<1>. QED  BY <1>4, <1>5, <1>6, <1>7, <1>8, <1>9, <1>10 DEF LinksHold

\* A step that moves one call and nothing else.
LEMMA OnlyACallMoves ==
    ASSUME IInv, NEW c \in Calls, UNCHANGED <<acct, session, link>>,
           NEW r \in CallRow, r.op # "mail", call' = [call EXCEPT ![c] = r],
           CallFits(c)', LocksFit', HolderTyped'
    PROVE  IInv'
<1>1. OthersKept(c)
  BY NothingMoves, MailsAreOut
<1>2. CallTyped' /\ CallsFit'
  BY <1>1, CallMoves
<1>3. SessionTyped' /\ NoStaleSession'
  BY SessionsRest
<1>4. LinkTyped' /\ LinksHold'
  BY LinksRest
<1>5. AcctTyped'
  BY DEF IInv, Typed, AcctTyped
<1>. QED  BY <1>2, <1>3, <1>4, <1>5 DEF IInv, Typed

-----------------------------------------------------------------------------
(* Every step keeps the invariant.  First the steps that move a call only.   *)

LEMMA IdleFits ==
    ASSUME NEW c \in Calls, call'[c] = Idle
    PROVE  CallFits(c)'
BY DEF CallFits, LoginFits, VisitFits, FormFits, MailFits, ChangeFits, Idle

LEMMA KeepCheckPassword ==
    ASSUME IInv, NEW c \in Calls, NEW e \in Emails, CheckPassword(c, e)
    PROVE  IInv'
<1>1. PICK u \in Users :
        Take(c, u, [op |-> "login", at |-> "open", user |-> u, row |-> acct[u]])
  BY DEF CheckPassword
<1> DEFINE r == [op |-> "login", at |-> "open", user |-> u, row |-> acct[u]]
<1>2. call[c] = Idle /\ UNCHANGED <<acct, session, link>> /\ call' = [call EXCEPT ![c] = r]
  BY <1>1 DEF CheckPassword, Take
<1>3. r \in CallRow
  BY DEF IInv, Typed, AcctTyped, CallRow, Login
<1>4. LocksFit' /\ HolderTyped'
  BY <1>1, <1>2, LocksTaken DEF Locks, Idle
<1>5. call'[c] = r
  BY <1>2 DEF IInv, Typed, CallTyped
<1>6. CallFits(c)'
  BY <1>2, <1>5 DEF CallFits, LoginFits, VisitFits, FormFits, MailFits, ChangeFits
<1>. QED  BY <1>2, <1>3, <1>4, <1>6, OnlyACallMoves

LEMMA KeepValidate ==
    ASSUME IInv, NEW c \in Calls, NEW s \in Sessions, Validate(c, s)
    PROVE  IInv'
<1> DEFINE r == [op |-> "request", at |-> "who", session |-> s,
                 user |-> session[s].user, born |-> acct[session[s].user].era]
<1>1. /\ call[c] = Idle /\ UNCHANGED <<acct, holder, session, link>>
      /\ call' = [call EXCEPT ![c] = r] /\ Live(s)
  BY DEF Validate, Unrevoked
<1>2. session[s] \in SessionRow
  BY <1>1, SessionShape DEF IInv, Live
<1>3. session[s].user \in Users /\ acct[session[s].user].era \in Nat
  BY <1>2 DEF IInv, Typed, AcctTyped, SessionRow, Acct
<1>4. r \in CallRow
  BY <1>3 DEF CallRow, Visit
<1>5. LocksFit' /\ HolderTyped'
  <2>1. ~Locks(r) /\ ~Locks(call[c])
    BY <1>1 DEF Locks, Idle
  <2>. HIDE DEF r
  <2>. QED  BY <1>1, <2>1, LocksStay
<1>6. call'[c] = r
  BY <1>1 DEF IInv, Typed, CallTyped
<1>7. session[s].era = acct[session[s].user].era
  BY <1>1 DEF IInv, NoStaleSession
<1>8. CallFits(c)'
  BY <1>1, <1>2, <1>6, <1>7 DEF CallFits, LoginFits, VisitFits, FormFits, MailFits, ChangeFits
<1>. QED  BY <1>1, <1>4, <1>5, <1>8, OnlyACallMoves

\* A request steps back to idle or goes in.
LEMMA VisitMoves ==
    ASSUME IInv, NEW c \in Calls, call[c].op = "request",
           UNCHANGED <<acct, holder, session, link>>,
           NEW r, r = Idle \/ r = [call[c] EXCEPT !.at = "in"],
           call' = [call EXCEPT ![c] = r]
    PROVE  IInv'
<1>1. PICK v \in Visit : v = call[c]
  BY CallShape DEF IInv
<1>2. call'[c] = r /\ ~Locks(call[c])
  BY <1>1 DEF IInv, Typed, CallTyped, Locks, Visit
<1>3. CASE r = Idle
  <2>1. r \in CallRow /\ ~Locks(r) /\ r.op # "mail"
    BY <1>3 DEF CallRow, Locks, Idle
  <2>2. LocksFit' /\ HolderTyped'
    BY <1>2, <2>1, LocksStay
  <2>3. CallFits(c)'
    BY <1>2, <1>3, IdleFits
  <2>. QED  BY <2>1, <2>2, <2>3, OnlyACallMoves
<1>4. CASE r = [call[c] EXCEPT !.at = "in"]
  <2>1. r \in Visit /\ r.session = v.session /\ r.born = v.born
    BY <1>1, <1>4 DEF Visit
  <2>2. r \in CallRow /\ ~Locks(r) /\ r.op = "request"
    BY <2>1 DEF CallRow, Locks, Visit
  <2>3. LocksFit' /\ HolderTyped'
    BY <1>2, <2>2, LocksStay
  <2>4. VisitFits(c)
    BY DEF IInv, CallsFit, CallFits
  <2>5. CallFits(c)'
    BY <1>1, <1>2, <2>1, <2>2, <2>4
    DEF CallFits, LoginFits, VisitFits, FormFits, MailFits, ChangeFits
  <2>. QED  BY <2>2, <2>3, <2>5, OnlyACallMoves
<1>. QED  BY <1>3, <1>4

LEMMA KeepIdentify ==
    ASSUME IInv, NEW c \in Calls, Identify(c)
    PROVE  IInv'
<1>1. PICK r : /\ r = Idle \/ r = [call[c] EXCEPT !.at = "in"]
               /\ call' = [call EXCEPT ![c] = r]
  BY DEF Identify
<1>. QED  BY <1>1, VisitMoves DEF Identify

LEMMA KeepDone ==
    ASSUME IInv, NEW c \in Calls, Done(c)
    PROVE  IInv'
BY VisitMoves DEF Done

LEMMA KeepOpenForm ==
    ASSUME IInv, NEW c \in Calls, NEW u \in Users, NEW op, OpenForm(c, u, op)
    PROVE  IInv'
<1> DEFINE r == [op |-> op, at |-> "form", user |-> u, version |-> acct[u].version]
<1>1. /\ call[c] = Idle /\ op \in {"update", "profile"}
      /\ UNCHANGED <<acct, holder, session, link>> /\ call' = [call EXCEPT ![c] = r]
  BY DEF OpenForm
<1>2. acct[u] \in Acct /\ Counted(acct[u])
  BY DEF IInv, Typed, AcctTyped
<1>3. r \in CallRow
  BY <1>1, <1>2 DEF CallRow, Form, Acct
<1>4. LocksFit' /\ HolderTyped'
  <2>1. ~Locks(r) /\ ~Locks(call[c])
    BY <1>1 DEF Locks, Idle
  <2>. HIDE DEF r
  <2>. QED  BY <1>1, <2>1, LocksStay
<1>5. call'[c] = r
  BY <1>1 DEF IInv, Typed, CallTyped
<1>6. CallFits(c)'
  BY <1>1, <1>2, <1>5
  DEF CallFits, LoginFits, VisitFits, FormFits, MailFits, ChangeFits, Counted, Acct
<1>. QED  BY <1>1, <1>3, <1>4, <1>6, OnlyACallMoves

\* A form that is about to be written.
LEMMA FormMoves ==
    ASSUME NEW f \in Form
    PROVE  /\ [f EXCEPT !.at = "write"] \in Form
           /\ [f EXCEPT !.at = "write"].op = f.op /\ [f EXCEPT !.at = "write"].at = "write"
           /\ [f EXCEPT !.at = "write"].user = f.user
           /\ [f EXCEPT !.at = "write"].version = f.version
BY DEF Form

LEMMA KeepBeginUpdate ==
    ASSUME IInv, NEW c \in Calls, BeginUpdate(c)
    PROVE  IInv'
<1>1. PICK f \in Form : f = call[c]
  BY CallShape DEF IInv, BeginUpdate
<1>2. PICK r : r = [f EXCEPT !.at = "write"]
  OBVIOUS
<1>3. /\ r \in Form /\ r.op = "update" /\ r.at = "write" /\ r.user = f.user
      /\ r.version = f.version /\ f.op = "update" /\ f.at = "form" /\ f.user \in Users
  BY <1>1, <1>2, FormMoves DEF BeginUpdate, Form
<1>4. /\ Take(c, f.user, r) /\ acct[f.user].edits < MaxEdits
      /\ UNCHANGED <<acct, session, link>>
  BY <1>1, <1>2 DEF BeginUpdate
<1>5. call' = [call EXCEPT ![c] = r] /\ call'[c] = r
  BY <1>4 DEF IInv, Typed, CallTyped, Take
<1>6. LocksFit' /\ HolderTyped'
  BY <1>1, <1>3, <1>4, LocksTaken DEF Locks
<1>7. FormFits(c)
  BY DEF IInv, CallsFit, CallFits
<1>8. CallFits(c)'
  BY <1>1, <1>3, <1>4, <1>5, <1>7
  DEF CallFits, LoginFits, VisitFits, FormFits, MailFits, ChangeFits
<1>. QED  BY <1>3, <1>4, <1>5, <1>6, <1>8, OnlyACallMoves DEF CallRow

LEMMA KeepCheckProfile ==
    ASSUME IInv, NEW c \in Calls, CheckProfile(c)
    PROVE  IInv'
<1>1. PICK f \in Form : f = call[c]
  BY CallShape DEF IInv, CheckProfile
<1>2. PICK r : r = [f EXCEPT !.at = "write"]
  OBVIOUS
<1>3. /\ r \in Form /\ r.op = "profile" /\ r.user = f.user
      /\ r.version = f.version /\ f.op = "profile" /\ f.user \in Users
  BY <1>1, <1>2, FormMoves DEF CheckProfile, Form
<1>4. UNCHANGED <<acct, holder, session, link>> /\ call' = [call EXCEPT ![c] = r]
  BY <1>1, <1>2 DEF CheckProfile
<1>5. call'[c] = r
  BY <1>4 DEF IInv, Typed, CallTyped
<1>6. LocksFit' /\ HolderTyped'
  BY <1>1, <1>3, <1>4, LocksStay DEF Locks
<1>7. FormFits(c)
  BY DEF IInv, CallsFit, CallFits
<1>8. CallFits(c)'
  BY <1>1, <1>3, <1>4, <1>5, <1>7
  DEF CallFits, LoginFits, VisitFits, FormFits, MailFits, ChangeFits
<1>. QED  BY <1>3, <1>4, <1>5, <1>6, <1>8, OnlyACallMoves DEF CallRow

LEMMA KeepOpenLink ==
    ASSUME IInv, NEW c \in Calls, NEW l \in Links, NEW p, OpenLink(c, l, p)
    PROVE  IInv'
<1> DEFINE u == link[l].user
           r == [op |-> "confirm", at |-> "confirm", user |-> u, link |-> l]
<1>1. /\ call[c] = Idle /\ Usable(l) /\ link[l].purpose \in {"reset", "verify"}
      /\ acct[u].edits < MaxEdits /\ Take(c, u, r) /\ UNCHANGED <<acct, session, link>>
  BY DEF OpenLink, Valid
<1>2. u \in Users
  BY <1>1, LinkShape DEF IInv, Usable, LinkRow
<1>3. r \in CallRow
  BY <1>2 DEF CallRow, Change
<1>4. LocksFit' /\ HolderTyped'
  BY <1>1, <1>2, LocksTaken DEF Locks, Idle
<1>5. call' = [call EXCEPT ![c] = r] /\ call'[c] = r
  BY <1>1 DEF IInv, Typed, CallTyped, Take
<1>6. CallFits(c)'
  BY <1>1, <1>5 DEF CallFits, LoginFits, VisitFits, FormFits, MailFits, ChangeFits, Usable
<1>. QED  BY <1>1, <1>3, <1>4, <1>5, <1>6, OnlyACallMoves

LEMMA KeepStop ==
    ASSUME IInv, NEW c \in Calls, Stop(c)
    PROVE  IInv'
<1>1. call' = [call EXCEPT ![c] = Idle] /\ call'[c] = Idle
  BY DEF Stop, Release, IInv, Typed, CallTyped
<1>2. LocksFit' /\ HolderTyped'
  BY LocksReleased DEF Stop
<1>3. Idle \in CallRow /\ Idle.op # "mail"
  BY DEF CallRow, Idle
<1>. QED  BY <1>1, <1>2, <1>3, IdleFits, OnlyACallMoves DEF Stop

-----------------------------------------------------------------------------
(* Steps that change a session.                                              *)

\* A session's row changes; the calls rest or one of them ends.
LEMMA SessionStep ==
    ASSUME IInv, UNCHANGED <<acct, holder, link, call>>,
           NEW s \in Sessions, session[s] \in SessionRow,
           NEW r \in SessionRow, session' = [session EXCEPT ![s] = r],
           r.user = session[s].user, r.era = session[s].era, r.setup = session[s].setup,
           r.st = "live" => Live(s)
    PROVE  IInv'
<1>1. SessionTyped' /\ SessionsLast /\ NoStaleSession'
  BY SessionMarked
<1>2. LinkTyped' /\ LinksHold' /\ LinksOfOthers(NoOne)
  BY LinksRest
<1>3. AcctTyped' /\ HolderTyped' /\ LocksFit' /\ RowsOfOthers(NoOne)
  BY DEF IInv, Typed, AcctTyped, Acct, HolderTyped, LocksFit, HolderLocks, LockerHolds, Locks,
         RowsOfOthers
<1>4. CallTyped' /\ CallsFit'
  BY <1>1, <1>2, <1>3, CallsStay DEF OthersKept
<1>. QED  BY <1>1, <1>2, <1>3, <1>4 DEF IInv, Typed

LEMMA MarkedSession ==
    ASSUME NEW r \in SessionRow, NEW i \in BOOLEAN, NEW o \in BOOLEAN
    PROVE  /\ [r EXCEPT !.idle = i] \in SessionRow
           /\ [r EXCEPT !.idle = i].user = r.user /\ [r EXCEPT !.idle = i].era = r.era
           /\ [r EXCEPT !.idle = i].setup = r.setup /\ [r EXCEPT !.idle = i].st = r.st
           /\ [r EXCEPT !.idle = i, !.over = o] \in SessionRow
           /\ [r EXCEPT !.idle = i, !.over = o].user = r.user
           /\ [r EXCEPT !.idle = i, !.over = o].era = r.era
           /\ [r EXCEPT !.idle = i, !.over = o].setup = r.setup
           /\ [r EXCEPT !.idle = i, !.over = o].st = r.st
           /\ [r EXCEPT !.st = "revoked"] \in SessionRow
           /\ [r EXCEPT !.st = "revoked"].st # "live"
           /\ [r EXCEPT !.st = "revoked"].user = r.user
           /\ [r EXCEPT !.st = "revoked"].era = r.era
           /\ [r EXCEPT !.st = "revoked"].setup = r.setup
BY DEF SessionRow

LEMMA KeepEnding ==
    ASSUME IInv, NEW s \in Sessions, RevokeLate(s) \/ Logout(s)
    PROVE  IInv'
<1>1. PICK q \in SessionRow : q = session[s]
  BY SessionShape DEF IInv, RevokeLate, Logout, Live
<1>2. PICK r : r = [q EXCEPT !.st = "revoked"]
  OBVIOUS
<1>3. session' = [session EXCEPT ![s] = r] /\ UNCHANGED <<acct, holder, link, call>>
  BY <1>1, <1>2 DEF RevokeLate, Logout
<1>4. /\ r \in SessionRow /\ r.user = q.user /\ r.era = q.era /\ r.setup = q.setup
      /\ r.st # "live"
  BY <1>2, MarkedSession
<1>. QED  BY <1>1, <1>3, <1>4, SessionStep

LEMMA KeepIdleDeadline ==
    ASSUME IInv, NEW s \in Sessions, IdleDeadline(s)
    PROVE  IInv'
<1>1. PICK q \in SessionRow : q = session[s]
  BY SessionShape DEF IInv, IdleDeadline, Live
<1>2. PICK r : r = [q EXCEPT !.idle = TRUE]
  OBVIOUS
<1>3. /\ session' = [session EXCEPT ![s] = r] /\ UNCHANGED <<acct, holder, link, call>>
      /\ Live(s)
  BY <1>1, <1>2 DEF IdleDeadline
<1>4. r \in SessionRow /\ r.user = q.user /\ r.era = q.era /\ r.setup = q.setup
  BY <1>2, MarkedSession
<1>. QED  BY <1>1, <1>3, <1>4, SessionStep

LEMMA KeepLastDeadline ==
    ASSUME IInv, NEW s \in Sessions, LastDeadline(s)
    PROVE  IInv'
<1>1. PICK q \in SessionRow : q = session[s]
  BY SessionShape DEF IInv, LastDeadline, Live
<1>2. PICK r : r = [q EXCEPT !.idle = TRUE, !.over = TRUE]
  OBVIOUS
<1>3. /\ session' = [session EXCEPT ![s] = r] /\ UNCHANGED <<acct, holder, link, call>>
      /\ Live(s)
  BY <1>1, <1>2 DEF LastDeadline
<1>4. r \in SessionRow /\ r.user = q.user /\ r.era = q.era /\ r.setup = q.setup
  BY <1>2, MarkedSession
<1>. QED  BY <1>1, <1>3, <1>4, SessionStep

\* The late write of an admitted request leaves a revoked session revoked.
LEMMA KeepExtend ==
    ASSUME IInv, NEW c \in Calls, Extend(c)
    PROVE  IInv'
<1> DEFINE s == call[c].session
<1>1. s \in Sessions
  BY CallShape DEF IInv, Extend, Visit
<1>2. VisitFits(c)
  BY DEF IInv, CallsFit, CallFits
<1>3. PICK q \in SessionRow : q = session[s]
  BY <1>2 DEF Extend, VisitFits
<1>4. PICK r : r = [q EXCEPT !.idle = q.over]
  OBVIOUS
<1>5. session' = [session EXCEPT ![s] = r] /\ UNCHANGED <<acct, holder, link, call>>
  BY <1>3, <1>4 DEF Extend, Extended
<1>6. r \in SessionRow /\ r.user = q.user /\ r.era = q.era /\ r.setup = q.setup /\ r.st = q.st
  BY <1>4, MarkedSession DEF SessionRow
<1>. QED  BY <1>1, <1>3, <1>5, <1>6, SessionStep DEF Live

\* The row that was checked under the lock is the row the session is opened for.
LEMMA KeepOpenSession ==
    ASSUME IInv, NEW c \in Calls, NEW s \in Sessions, OpenSession(c, s)
    PROVE  IInv'
<1>1. PICK k \in Login : k = call[c]
  BY CallShape DEF IInv, OpenSession
<1>2. LoginFits(c)
  BY DEF IInv, CallsFit, CallFits
<1> DEFINE a == acct[k.user]
           r == [st |-> "live", user |-> k.user, sub |-> a.email, era |-> a.era,
                 setup |-> a.initial, idle |-> FALSE, over |-> FALSE]
<1>3. k.user \in Users /\ k.row = a
  BY <1>1, <1>2 DEF LoginFits, Login
<1>4. a \in Acct /\ Counted(a) /\ a.era \in 0 .. MaxEdits
  BY <1>3, CountedRow DEF IInv, Typed, AcctTyped
<1>5. r \in SessionRow
  BY <1>3, <1>4 DEF SessionRow, Acct
<1>6. /\ session' = [session EXCEPT ![s] = r] /\ session[s] = NoSession
      /\ Release(c) /\ UNCHANGED <<acct, link>>
  BY <1>1, <1>3 DEF OpenSession
<1>7. session'[s] = r /\ \A t \in Sessions : t # s => session'[t] = session[t]
  BY <1>6 DEF IInv, Typed, SessionTyped
<1>8. SessionTyped'
  BY <1>5, <1>6 DEF IInv, Typed, SessionTyped
<1>9. SessionsLast
  BY <1>6, <1>7, SessionShape DEF IInv, SessionsLast
<1>10. NoStaleSession'
  BY <1>6, <1>7 DEF IInv, NoStaleSession, Live
<1>11. LinkTyped' /\ LinksHold' /\ LinksOfOthers(c)
  BY <1>6, LinksRest
<1>12. AcctTyped' /\ RowsOfOthers(c)
  BY <1>6 DEF IInv, Typed, AcctTyped, Acct, RowsOfOthers
<1>13. LocksFit' /\ HolderTyped'
  BY <1>6, LocksReleased
<1>14. call' = [call EXCEPT ![c] = Idle] /\ call'[c] = Idle /\ Idle \in CallRow /\ Idle.op # "mail"
  BY <1>6 DEF Release, IInv, Typed, CallTyped, CallRow, Idle
<1>15. CallTyped' /\ CallsFit'
  BY <1>9, <1>11, <1>12, <1>14, IdleFits, CallMoves DEF OthersKept
<1>. QED  BY <1>8, <1>10, <1>11, <1>12, <1>13, <1>15 DEF IInv, Typed

-----------------------------------------------------------------------------
(* Steps that change a link.                                                 *)

LEMMA KeepLinkExpires ==
    ASSUME IInv, NEW l \in Links, LinkExpires(l)
    PROVE  IInv'
<1>1. PICK k \in LinkRow : k = link[l]
  BY LinkShape DEF IInv, LinkExpires, Usable
<1>2. PICK r : r = [k EXCEPT !.late = TRUE]
  OBVIOUS
<1>3. /\ link' = [link EXCEPT ![l] = r] /\ UNCHANGED <<acct, holder, session, call>>
      /\ Usable(l)
  BY <1>1, <1>2 DEF LinkExpires
<1>4. /\ r \in LinkRow /\ r.st = k.st /\ r.purpose = k.purpose /\ r.user = k.user
      /\ r.new = k.new /\ r.era = k.era
  BY <1>2 DEF LinkRow
<1>5. link'[l] = r /\ \A m \in Links : m # l => link'[m] = link[m]
  BY <1>3 DEF IInv, Typed, LinkTyped
<1>6. LinkTyped'
  BY <1>3, <1>4 DEF IInv, Typed, LinkTyped
<1>7. NoStaleLink' /\ LinksNameNew'
  BY <1>1, <1>3, <1>4, <1>5 DEF IInv, LinksHold, NoStaleLink, LinksNameNew, Usable
<1>8. VerifyFollowsApproval'
  <2>1. \A m \in Links : /\ link'[m].st = link[m].st /\ (link[m].st \in {"usable", "consumed"} =>
                               /\ link'[m].purpose = link[m].purpose
                               /\ link'[m].user = link[m].user
                               /\ link'[m].new = link[m].new /\ link'[m].era = link[m].era)
    BY <1>1, <1>4, <1>5
  <2>2. VerifyFollowsApproval
    BY DEF IInv, LinksHold
  <2>. QED  BY <2>1, <2>2 DEF VerifyFollowsApproval, Usable
<1>9. LinksOfOthers(NoOne)
  <2>1. \A d \in Calls : call[d].op = "mail" => link'[call[d].link] = Orphan
    BY <1>3, <1>5, MailsAreOut DEF Usable, Orphan
  <2>. QED  BY <2>1, <1>1, <1>4, <1>5 DEF LinksOfOthers, Usable
<1>10. SessionTyped' /\ SessionsLast /\ NoStaleSession'
  BY <1>3, SessionsRest
<1>11. AcctTyped' /\ HolderTyped' /\ LocksFit' /\ RowsOfOthers(NoOne)
  BY <1>3 DEF IInv, Typed, AcctTyped, Acct, HolderTyped, LocksFit, HolderLocks, LockerHolds,
              Locks, RowsOfOthers
<1>12. CallTyped' /\ CallsFit'
  BY <1>3, <1>9, <1>10, <1>11, CallsStay DEF OthersKept
<1>. QED  BY <1>6, <1>7, <1>8, <1>10, <1>11, <1>12 DEF IInv, Typed, LinksHold

\* A mail that goes out before its row exists: under the lock, with an address if it is
\* about one, and, if it verifies, with the approval it replaces still usable.
LEMMA SendStep ==
    ASSUME IInv, NEW c \in Calls, NEW u \in Users, NEW l \in Links,
           NEW purpose \in {"reset", "approve", "verify"}, NEW new \in Emails \cup {NoOne},
           NEW by \in Links \cup {NoOne}, purpose # "reset" => new # NoOne,
           (by # NoOne) <=> (purpose = "verify"),
           by # NoOne => /\ Usable(by) /\ link[by].purpose = "approve"
                         /\ link[by].user = u /\ link[by].new = new,
           call[c] = Idle, Send(c, u, l, purpose, new, by), UNCHANGED <<acct, session>>
    PROVE  IInv'
<1> DEFINE r == [op |-> "mail", at |-> "sent", user |-> u, link |-> l,
                 purpose |-> purpose, new |-> new, by |-> by]
<1>1. /\ link[l] = Unsent /\ link' = [link EXCEPT ![l] = Orphan] /\ Take(c, u, r)
      /\ call' = [call EXCEPT ![c] = r]
  BY DEF Send, Take
<1>2. /\ call'[c] = r /\ \A d \in Calls : d # c => call'[d] = call[d]
      /\ link'[l] = Orphan /\ \A m \in Links : m # l => link'[m] = link[m]
  BY <1>1 DEF IInv, Typed, CallTyped, LinkTyped
<1>3. r \in CallRow
  BY DEF CallRow, Mail
<1>4. LocksFit' /\ HolderTyped'
  BY <1>1, LocksTaken DEF Locks, Idle
<1>5. LinkTyped'
  BY <1>1 DEF IInv, Typed, LinkTyped
<1>6. LinksHold'
  <2>1. \A m \in Links : link'[m] = link[m] \/ (link[m] = Unsent /\ link'[m] = Orphan)
    BY <1>1, <1>2
  <2>2. NoStaleLink'
    BY <2>1 DEF IInv, LinksHold, NoStaleLink, Usable, Orphan
  <2>3. VerifyFollowsApproval'
    BY <2>1 DEF IInv, LinksHold, VerifyFollowsApproval, Usable, Orphan, Unsent
  <2>4. LinksNameNew'
    BY <2>1 DEF IInv, LinksHold, LinksNameNew, LinkRow, Orphan
  <2>. QED  BY <2>2, <2>3, <2>4 DEF LinksHold
<1>7. LinksOfOthers(c)
  <2>1. \A d \in Calls : call[d].op = "mail" => link'[call[d].link] = Orphan
    BY <1>2, MailsAreOut
  <2>2. \A m \in Links : Usable(m) => link'[m] = link[m]
    BY <1>1, <1>2 DEF Usable, Unsent
  <2>. QED  BY <2>1, <2>2 DEF LinksOfOthers, Usable
<1>8. SessionTyped' /\ SessionsLast /\ NoStaleSession'
  BY SessionsRest
<1>9. AcctTyped' /\ RowsOfOthers(c)
  BY DEF IInv, Typed, AcctTyped, Acct, RowsOfOthers
<1>10. CallTyped'
  BY <1>1, <1>3 DEF IInv, Typed, CallTyped
<1>11. CallsFit'
  <2>1. CallFits(c)'
    <3>1. by # NoOne => by \in Links /\ by # l
      BY <1>1 DEF Usable, Unsent
    <3>. QED
      BY <1>2, <3>1 DEF CallFits, LoginFits, VisitFits, FormFits, MailFits, ChangeFits, Usable
  <2>2. \A d \in Calls : CallFits(d)'
    BY <2>1, <1>2, <1>7, <1>8, <1>9, OthersFit DEF OthersKept
  <2>3. \A d \in Calls : d # c /\ call[d].op = "mail" => call[d].link # l
    BY <1>1, MailsAreOut DEF Orphan, Unsent
  <2>4. MailIsOwn'
    <3>. HIDE DEF r
    <3>1. r.link = l
      BY DEF r
    <3>. QED  BY <2>3, <1>2, <3>1 DEF IInv, CallsFit, MailIsOwn
  <2>. QED  BY <2>2, <2>4 DEF CallsFit
<1>. QED  BY <1>4, <1>5, <1>6, <1>8, <1>9, <1>10, <1>11 DEF IInv, Typed

LEMMA KeepRequest ==
    ASSUME IInv, NEW c \in Calls, NEW u \in Users, NEW l \in Links,
           NEW e \in Emails \cup {NoOne}, Request(c, u, l, e)
    PROVE  IInv'
<1>1. CASE e = NoOne
  BY <1>1, SendStep DEF Request
<1>2. CASE e # NoOne
  BY <1>2, SendStep DEF Request
<1>. QED  BY <1>1, <1>2

LEMMA KeepApprove ==
    ASSUME IInv, NEW c \in Calls, NEW l \in Links, NEW m \in Links, Approve(c, l, m)
    PROVE  IInv'
<1>1. /\ Usable(l) /\ link[l].purpose = "approve" /\ call[c] = Idle
      /\ Send(c, link[l].user, m, "verify", link[l].new, l) /\ UNCHANGED <<acct, session>>
  BY DEF Approve, Valid
<1>2. link[l] \in LinkRow
  BY <1>1, LinkShape DEF IInv, Usable
<1>3. link[l].new # NoOne
  BY <1>1, <1>2 DEF IInv, LinksHold, LinksNameNew
<1>4. link[l].user \in Users /\ link[l].new \in Emails \cup {NoOne} /\ l # NoOne
  BY <1>2, NamesAssumption DEF LinkRow
<1>. QED  BY <1>1, <1>3, <1>4, SendStep

\* The row of a mail is committed with the credentials under which it was sent, and uses
\* the approval up.
LEMMA KeepCommitLink ==
    ASSUME IInv, NEW c \in Calls, CommitLink(c)
    PROVE  IInv'
<1>1. PICK k \in Mail : k = call[c]
  BY CallShape DEF IInv, CommitLink
<1>2. /\ k.user \in Users /\ k.link \in Links /\ k.by \in Links \cup {NoOne} /\ k.op = "mail"
      /\ k.purpose \in {"reset", "approve", "verify"} /\ k.new \in Emails \cup {NoOne}
  BY <1>1 DEF Mail
<1>3. /\ link[k.link] = Orphan /\ ((k.by # NoOne) <=> (k.purpose = "verify"))
      /\ k.purpose # "reset" => k.new # NoOne
      /\ k.by # NoOne => /\ Usable(k.by) /\ link[k.by].purpose = "approve"
                         /\ link[k.by].user = k.user /\ link[k.by].new = k.new
  BY <1>1, <1>2 DEF IInv, CallsFit, CallFits, MailFits
<1> DEFINE a == acct[k.user]
           r == Row(k.user, k.purpose, k.new)
<1>4. a \in Acct /\ a.era \in 0 .. MaxEdits /\ a.pw \in 0 .. MaxEdits
  BY <1>2, CountedRow DEF IInv, Typed, AcctTyped
<1>5. /\ r \in LinkRow /\ r.st = "usable" /\ r.purpose = k.purpose /\ r.user = k.user
      /\ r.new = k.new /\ r.era = a.era
  BY <1>2, <1>4 DEF Row, Fingerprint, LinkRow, Acct
<1>6. holder[k.user] = c
  BY <1>1, <1>2 DEF IInv, LocksFit, LockerHolds, Locks
<1>. HIDE DEF r
<1>7. /\ link' = [m \in Links |-> IF m = k.link THEN r
                                  ELSE IF m = k.by THEN [link[m] EXCEPT !.st = "consumed"]
                                  ELSE link[m]]
      /\ Release(c) /\ UNCHANGED <<acct, session>>
  BY <1>1 DEF CommitLink, Issued, r
<1>8. k.by # NoOne => /\ k.by \in Links /\ k.by # k.link /\ link[k.by] \in LinkRow
                      /\ link[k.by].era = a.era
  BY <1>2, <1>3, LinkShape DEF IInv, LinksHold, NoStaleLink, Usable, Orphan
<1>9. \A m \in Links :
        \/ m = k.link /\ link[m] = Orphan /\ link'[m] = r
        \/ /\ m = k.by /\ m # k.link /\ k.by # NoOne /\ Usable(m) /\ link'[m] \in LinkRow
           /\ link'[m].st = "consumed" /\ link'[m].purpose = link[m].purpose
           /\ link'[m].user = link[m].user /\ link'[m].new = link[m].new
           /\ link'[m].era = link[m].era
        \/ m # k.by /\ m # k.link /\ link'[m] = link[m]
  <2>. TAKE m \in Links
  <2>1. CASE m = k.link
    BY <2>1, <1>3, <1>7
  <2>2. CASE m # k.link /\ m = k.by
    <3>1. PICK q \in LinkRow : q = link[m]
      BY <2>2, <1>8, NamesAssumption
    <3>2. link'[m] = [q EXCEPT !.st = "consumed"] /\ Usable(m) /\ k.by # NoOne
      BY <2>2, <3>1, <1>3, <1>7, NamesAssumption
    <3>. QED  BY <2>2, <3>1, <3>2, EndedLink
  <2>3. CASE m # k.link /\ m # k.by
    BY <2>3, <1>7
  <2>. QED  BY <2>1, <2>2, <2>3
<1>10. LinkTyped'
  <2>1. \A m \in Links : link'[m] \in {Unsent, Orphan} \cup LinkRow
    BY <1>5, <1>9 DEF IInv, Typed, LinkTyped
  <2>. QED  BY <2>1, <1>7 DEF LinkTyped
<1>11. NoStaleLink'
  BY <1>5, <1>7, <1>9 DEF IInv, LinksHold, NoStaleLink, Usable
<1>12. LinksNameNew'
  BY <1>3, <1>5, <1>9 DEF IInv, LinksHold, LinksNameNew, LinkRow, Usable
<1>13. VerifyFollowsApproval'
  <2>. SUFFICES ASSUME NEW m \in Links, link'[m].st = "usable", link'[m].purpose = "verify"
                PROVE  \E n \in Links :
                         /\ link'[n].st = "consumed" /\ link'[n].purpose = "approve"
                         /\ link'[n].user = link'[m].user /\ link'[n].new = link'[m].new
                         /\ link'[n].era = link'[m].era
    BY DEF VerifyFollowsApproval, Usable
  <2>1. CASE m = k.link
    <3>1. link'[m] = r /\ k.by # NoOne /\ k.by \in Links
      BY <2>1, <1>3, <1>5, <1>8, <1>9
    <3>. QED  BY <3>1, <1>3, <1>5, <1>8, <1>9
  <2>2. CASE m # k.link
    <3>1. link'[m] = link[m]
      BY <2>2, <1>9
    <3>2. PICK n \in Links :
            /\ link[n].st = "consumed" /\ link[n].purpose = "approve"
            /\ link[n].user = link[m].user /\ link[n].new = link[m].new
            /\ link[n].era = link[m].era
      BY <3>1 DEF IInv, LinksHold, VerifyFollowsApproval, Usable
    <3>3. link'[n] = link[n]
      BY <3>2, <1>9 DEF Usable, Orphan
    <3>. QED  BY <3>1, <3>2, <3>3
  <2>. QED  BY <2>1, <2>2
<1>14. LinksOfOthers(c)
  <2>1. \A d \in Calls \ {c} : call[d].op = "mail" => link'[call[d].link] = Orphan
    <3>. SUFFICES ASSUME NEW d \in Calls \ {c}, call[d].op = "mail"
                  PROVE  link'[call[d].link] = Orphan
      OBVIOUS
    <3>1. call[d].link # k.link
      BY <1>1, <1>2 DEF IInv, CallsFit, MailIsOwn
    <3>2. call[d].link \in Links /\ link[call[d].link] = Orphan
      BY MailsAreOut
    <3>. QED  BY <3>1, <3>2, <1>9 DEF Usable, Orphan
  <2>2. \A m \in Links : Usable(m) /\ holder[link[m].user] \notin {NoOne, c} => link'[m] = link[m]
    BY <1>3, <1>6, <1>9 DEF Usable, Orphan
  <2>. QED  BY <2>1, <2>2 DEF LinksOfOthers, Usable
<1>15. SessionTyped' /\ SessionsLast /\ NoStaleSession'
  BY <1>7, SessionsRest
<1>16. AcctTyped' /\ RowsOfOthers(c)
  BY <1>7 DEF IInv, Typed, AcctTyped, Acct, RowsOfOthers
<1>17. LocksFit' /\ HolderTyped'
  BY <1>7, LocksReleased
<1>18. call' = [call EXCEPT ![c] = Idle] /\ call'[c] = Idle /\ Idle \in CallRow /\ Idle.op # "mail"
  BY <1>7 DEF Release, IInv, Typed, CallTyped, CallRow, Idle
<1>19. CallTyped' /\ CallsFit'
  BY <1>14, <1>15, <1>16, <1>18, IdleFits, CallMoves DEF OthersKept
<1>. QED
  BY <1>10, <1>11, <1>12, <1>13, <1>15, <1>16, <1>17, <1>19 DEF IInv, Typed, LinksHold

-----------------------------------------------------------------------------
(* Steps that write a users row.                                             *)

\* Whoever writes the row has the lock, or nobody has it; sessions end and links close
\* unless the credentials stay.
LEMMA WriteStep ==
    ASSUME IInv, NEW c, NEW u \in Users, holder[u] \in {NoOne, c},
           NEW r \in Acct, Counted(r), r.edits >= acct[u].edits,
           acct' = [acct EXCEPT ![u] = r],
           RevokeSessions(u) \/ (/\ UNCHANGED session /\ r.era = acct[u].era
                                 /\ r.initial = acct[u].initial),
           \/ UNCHANGED link /\ r.era = acct[u].era
           \/ \E l : /\ l = NoOne \/ (l \in Links /\ Usable(l) /\ link[l].user = u)
                     /\ link' = LinksAfter(u, l)
    PROVE  /\ AcctTyped' /\ SessionTyped' /\ NoStaleSession' /\ LinkTyped' /\ LinksHold'
           /\ OthersKept(c)
<1>1. AcctTyped' /\ RowsOfOthers(c)
  BY RowChanged
<1>2. acct'[u] = r /\ \A v \in Users \ {u} : acct'[v] = acct[v]
  BY DEF IInv, Typed, AcctTyped
<1>3. SessionTyped' /\ SessionsLast /\ NoStaleSession'
  <2>1. CASE RevokeSessions(u)
    BY <2>1, <1>2, SessionsRevoked
  <2>2. CASE UNCHANGED session /\ r.era = acct[u].era /\ r.initial = acct[u].initial
    BY <2>2, <1>2, SessionsRest
  <2>. QED  BY <2>1, <2>2
<1>4. LinkTyped' /\ LinksHold' /\ LinksOfOthers(c)
  <2>1. CASE UNCHANGED link /\ r.era = acct[u].era
    BY <2>1, <1>2, LinksRest
  <2>2. CASE \E l : /\ l = NoOne \/ (l \in Links /\ Usable(l) /\ link[l].user = u)
                    /\ link' = LinksAfter(u, l)
    BY <2>2, <1>2, LinksClosed
  <2>. QED  BY <2>1, <2>2
<1>. QED  BY <1>1, <1>3, <1>4 DEF OthersKept

\* A row that is written once more than a, with or without a change of credentials.
LEMMA NextRow ==
    ASSUME NEW a \in Acct, Counted(a), a.edits < MaxEdits,
           NEW r \in Acct, SameCounts(r, a), r.pw <= a.era + 1
    PROVE  /\ NewEra(r) \in Acct /\ Counted(NewEra(r)) /\ NewEra(r).edits >= a.edits
           /\ r.pw = a.pw => /\ Written(r) \in Acct /\ Counted(Written(r))
                             /\ Written(r).edits >= a.edits /\ Written(r).era = a.era
                             /\ Written(r).initial = r.initial
<1>1. Counted(NewEra(r)) /\ NewEra(r).edits >= a.edits
  <2>1. NewEra(r) \in Acct
    BY EraRow
  <2>2. /\ NewEra(r).edits = a.edits + 1 /\ NewEra(r).version <= a.version + 1
        /\ NewEra(r).era = a.era + 1 /\ NewEra(r).pw <= a.era + 1
    BY EraRow DEF SameCounts, Acct
  <2>. QED  BY <2>1, <2>2, StillCounted
<1>2. ASSUME r.pw = a.pw
      PROVE  Counted(Written(r)) /\ Written(r).edits >= a.edits
  <2>1. Written(r) \in Acct
    BY WrittenRow
  <2>2. /\ Written(r).edits = a.edits + 1 /\ Written(r).version <= a.version + 1
        /\ Written(r).era = a.era /\ Written(r).pw <= a.era
    BY <1>2, WrittenRow DEF SameCounts, Acct, Counted
  <2>. QED  BY <2>1, <2>2, StillCounted
<1>. QED  BY <1>1, <1>2, EraRow, WrittenRow DEF SameCounts

\* The end of a call that held the lock, or of one that held none.
LEMMA WriterEnds ==
    ASSUME IInv, NEW c \in Calls, AcctTyped', SessionTyped', NoStaleSession', LinkTyped',
           LinksHold', OthersKept(c),
           Release(c) \/ (/\ UNCHANGED holder /\ ~Locks(call[c])
                          /\ call' = [call EXCEPT ![c] = Idle])
    PROVE  IInv'
<1>1. LocksFit' /\ HolderTyped'
  BY LocksReleased, LocksStay DEF Locks, Idle
<1>2. call' = [call EXCEPT ![c] = Idle] /\ call'[c] = Idle /\ Idle \in CallRow /\ Idle.op # "mail"
  BY DEF Release, IInv, Typed, CallTyped, CallRow, Idle
<1>3. CallTyped' /\ CallsFit'
  BY <1>2, IdleFits, CallMoves
<1>. QED  BY <1>1, <1>3 DEF IInv, Typed

LEMMA NobodyMoves ==
    ASSUME IInv, UNCHANGED <<holder, call>>, AcctTyped', SessionTyped', NoStaleSession',
           LinkTyped', LinksHold', OthersKept(NoOne)
    PROVE  IInv'
<1>1. LocksFit' /\ HolderTyped'
  BY DEF IInv, Typed, HolderTyped, LocksFit, HolderLocks, LockerHolds, Locks
<1>2. CallTyped' /\ CallsFit'
  BY CallsStay
<1>. QED  BY <1>1, <1>2 DEF IInv, Typed

\* What the operator's form makes of a row.
LEMMA FormRow ==
    ASSUME NEW a \in Acct, Counted(a), NEW W, NEW e, ("email" \in W) => e \in Emails
    PROVE  LET r == [a EXCEPT !.email = IF "email" \in W THEN e ELSE a.email,
                              !.pw = IF "password" \in W THEN a.era + 1 ELSE a.pw,
                              !.active = IF "active" \in W THEN ~a.active ELSE a.active]
           IN  /\ r \in Acct /\ SameCounts(r, a) /\ r.pw <= a.era + 1
               /\ r.initial = a.initial
               /\ "password" \notin W => r.pw = a.pw
<1> DEFINE x == IF "email" \in W THEN e ELSE a.email
           n == IF "password" \in W THEN a.era + 1 ELSE a.pw
           b == IF "active" \in W THEN ~a.active ELSE a.active
           f == [a EXCEPT !.email = x]
           g == [f EXCEPT !.pw = n]
           h == [g EXCEPT !.active = b]
<1>1. /\ x \in Emails /\ n \in Nat /\ b \in BOOLEAN /\ n <= a.era + 1
      /\ "password" \notin W => n = a.pw
  <2>1. x \in Emails /\ n \in Nat /\ n <= a.era + 1 /\ ("password" \notin W => n = a.pw)
    BY DEF Acct, Counted
  <2>2. a.active \in BOOLEAN
    BY DEF Acct
  <2>3. b \in BOOLEAN
    BY <2>2, Zenon
  <2>. QED  BY <2>1, <2>3
<1>2. h = [a EXCEPT !.email = x, !.pw = n, !.active = b]
  OBVIOUS
<1>. HIDE DEF x, n, b
<1>3. f \in Acct /\ SameCounts(f, a) /\ f.initial = a.initial
  BY <1>1, EmailColumn
<1>. HIDE DEF f
<1>4. g \in Acct /\ SameCounts(g, f) /\ g.pw = n /\ g.initial = f.initial
  BY <1>1, <1>3, PasswordColumn
<1>. HIDE DEF g
<1>5. h \in Acct /\ SameCounts(h, g) /\ h.pw = g.pw /\ h.initial = g.initial
  BY <1>1, <1>4, ActiveColumn, Zenon
<1>6. SameCounts(h, a) /\ h.initial = a.initial /\ h.pw = n
  BY <1>3, <1>4, <1>5 DEF SameCounts
<1>. HIDE DEF h
<1>. QED  BY <1>1, <1>2, <1>5, <1>6 DEF x, n, b

LEMMA KeepFinishUpdate ==
    ASSUME IInv, NEW c \in Calls, NEW W, NEW e, FinishUpdate(c, W, e)
    PROVE  IInv'
<1>1. PICK k \in Form : k = call[c]
  BY CallShape DEF IInv, FinishUpdate
<1> DEFINE u == k.user
           a == acct[u]
           r == [a EXCEPT !.email = IF "email" \in W THEN e ELSE a.email,
                          !.pw = IF "password" \in W THEN a.era + 1 ELSE a.pw,
                          !.active = IF "active" \in W THEN ~a.active ELSE a.active]
           credentials == W \cap {"email", "password", "active"} # {}
           q == IF credentials THEN NewEra(r) ELSE Written(r)
<1>2. /\ k.op = "update" /\ k.at = "write" /\ ("email" \in W => e \in Emails)
      /\ Release(c) /\ u \in Users
  BY <1>1 DEF FinishUpdate, Form
<1>3. acct' = [acct EXCEPT ![u] = q]
  BY <1>1 DEF FinishUpdate
<1>4. IF W # {} THEN RevokeSessions(u) ELSE UNCHANGED session
  BY <1>1 DEF FinishUpdate
<1>5. link' = IF credentials THEN LinksAfter(u, NoOne) ELSE link
  BY <1>1 DEF FinishUpdate
<1>6. a \in Acct /\ Counted(a) /\ a.edits < MaxEdits /\ holder[u] = c
  <2>1. a.edits < MaxEdits
    BY <1>1, <1>2 DEF IInv, CallsFit, CallFits, FormFits
  <2>2. holder[u] = c
    BY <1>1, <1>2 DEF IInv, LocksFit, LockerHolds, Locks
  <2>. QED  BY <1>2, <2>1, <2>2 DEF IInv, Typed, AcctTyped
<1>7. /\ r \in Acct /\ SameCounts(r, a) /\ r.pw <= a.era + 1 /\ r.initial = a.initial
      /\ "password" \notin W => r.pw = a.pw
  <2>1. a \in Acct /\ Counted(a) /\ ("email" \in W => e \in Emails)
    BY <1>2, <1>6
  <2>. HIDE DEF a
  <2>. QED  BY <2>1, FormRow, Zenon
<1>. HIDE DEF r
<1>8. credentials \/ "password" \notin W
  OBVIOUS
<1>. HIDE DEF credentials, a
<1>9. /\ q \in Acct /\ Counted(q) /\ q.edits >= a.edits
      /\ ~credentials => q.era = a.era /\ q.initial = a.initial
  BY <1>6, <1>7, <1>8, NextRow
<1>10. credentials \/ W # {} \/ W = {}
  OBVIOUS
<1>11. RevokeSessions(u) \/ (UNCHANGED session /\ q.era = a.era /\ q.initial = a.initial)
  <2>1. W = {} => ~credentials
    BY DEF credentials
  <2>. QED  BY <1>4, <1>9, <2>1
<1>12. \/ UNCHANGED link /\ q.era = a.era
       \/ \E l : /\ l = NoOne \/ (l \in Links /\ Usable(l) /\ link[l].user = u)
                 /\ link' = LinksAfter(u, l)
  BY <1>5, <1>9
<1>. HIDE DEF q
<1>13. /\ AcctTyped' /\ SessionTyped' /\ NoStaleSession' /\ LinkTyped' /\ LinksHold'
       /\ OthersKept(c)
  BY <1>2, <1>3, <1>6, <1>9, <1>11, <1>12, WriteStep DEF a
<1>. QED  BY <1>2, <1>13, WriterEnds

\* The profile writes the version it was shown, which no write has passed.
LEMMA KeepWriteProfile ==
    ASSUME IInv, NEW c \in Calls, WriteProfile(c)
    PROVE  IInv'
<1>1. PICK k \in Form : k = call[c]
  BY CallShape DEF IInv, WriteProfile
<1> DEFINE u == k.user
           a == acct[u]
           f == [a EXCEPT !.version = k.version + 1]
           r == [f EXCEPT !.edits = f.edits + 1]
<1>2. /\ k.op = "profile" /\ u \in Users /\ k.version \in Nat /\ k.version <= a.edits
  BY <1>1 DEF WriteProfile, Form, IInv, CallsFit, CallFits, FormFits
<1>3. /\ holder[u] = NoOne /\ a.edits < MaxEdits /\ UNCHANGED <<holder, session, link>>
      /\ call' = [call EXCEPT ![c] = Idle]
  BY <1>1 DEF WriteProfile, Free
<1>4. a \in Acct /\ Counted(a) /\ a.edits \in Nat
  BY <1>2 DEF IInv, Typed, AcctTyped, Acct
<1>5. acct' = [acct EXCEPT ![u] = r]
  BY <1>1, <1>2, <1>4 DEF WriteProfile, IInv, Typed, AcctTyped, Acct
<1>6. /\ f \in Acct /\ f.edits = a.edits /\ f.version = k.version + 1 /\ f.era = a.era
      /\ f.pw = a.pw /\ f.initial = a.initial
  BY <1>2, <1>4, Columns DEF Acct
<1>. HIDE DEF f
<1>7. /\ r \in Acct /\ r.edits = a.edits + 1 /\ r.version = k.version + 1 /\ r.era = a.era
      /\ r.pw = a.pw /\ r.initial = a.initial
  BY <1>4, <1>6, Columns DEF Acct
<1>8. Counted(r) /\ r.edits >= a.edits
  BY <1>2, <1>3, <1>4, <1>7, BoundsAssumption DEF Counted, Acct
<1>. HIDE DEF r
<1>9. /\ AcctTyped' /\ SessionTyped' /\ NoStaleSession' /\ LinkTyped' /\ LinksHold'
      /\ OthersKept(c)
  BY <1>2, <1>3, <1>5, <1>7, <1>8, WriteStep
<1>. QED  BY <1>1, <1>2, <1>3, <1>9, WriterEnds DEF Locks

\* A password that the user sets, with or without the mark of an issued one.
LEMMA PasswordRow ==
    ASSUME IInv, NEW u \in Users, NEW r \in Acct, SameCounts(r, acct[u])
    PROVE  /\ NewPassword(u, r) \in Acct /\ SameCounts(NewPassword(u, r), acct[u])
           /\ NewPassword(u, r).pw <= acct[u].era + 1
           /\ NewPassword(u, r).initial = r.initial
<1>1. acct[u].era + 1 \in Nat
  BY DEF IInv, Typed, AcctTyped, Acct
<1>2. PICK n \in Nat : n = acct[u].era + 1
  BY <1>1
<1>3. NewPassword(u, r) = [r EXCEPT !.pw = n]
  BY <1>2 DEF NewPassword
<1>. QED  BY <1>2, <1>3, PasswordColumn DEF SameCounts

LEMMA KeepConfirm ==
    ASSUME IInv, NEW c \in Calls, Confirm(c)
    PROVE  IInv'
<1>1. PICK k \in Change : k = call[c]
  BY CallShape DEF IInv, Confirm
<1> DEFINE u == k.user
           l == k.link
           a == acct[u]
           verify == link[l].purpose = "verify"
           r == IF verify THEN [a EXCEPT !.email = link[l].new]
                ELSE [NewPassword(u, a) EXCEPT !.initial = FALSE]
<1>2. /\ k.op = "confirm" /\ u \in Users /\ l \in Links
      /\ Usable(l) /\ link[l].user = u /\ a.edits < MaxEdits
  BY <1>1 DEF Change, IInv, CallsFit, CallFits, ChangeFits
<1>3. /\ acct' = [acct EXCEPT ![u] = NewEra(r)] /\ link' = LinksAfter(u, l)
      /\ RevokeSessions(u) /\ Release(c)
  BY <1>1 DEF Confirm
<1>4. a \in Acct /\ Counted(a) /\ holder[u] = c
  BY <1>1, <1>2 DEF IInv, Typed, AcctTyped, LocksFit, LockerHolds, Locks
<1>5. r \in Acct /\ SameCounts(r, a) /\ r.pw <= a.era + 1
  <2>1. CASE verify
    <3>1. link[l] \in LinkRow
      BY <1>2, LinkShape DEF IInv, Usable
    <3>2. link[l].new \in Emails
      BY <1>2, <2>1, <3>1 DEF IInv, LinksHold, LinksNameNew, LinkRow
    <3>3. PICK e \in Emails : e = link[l].new
      BY <3>2
    <3>4. PICK b \in Acct : b = a
      BY <1>4
    <3>5. r = [b EXCEPT !.email = e]
      BY <2>1, <3>3, <3>4
    <3>6. r \in Acct /\ SameCounts(r, b) /\ r.pw = b.pw
      BY <3>5, EmailColumn
    <3>7. b.pw <= b.era + 1
      BY <1>4, <3>4 DEF Counted, Acct
    <3>. QED  BY <3>4, <3>6, <3>7
  <2>2. CASE ~verify
    <3>1. SameCounts(a, a)
      BY DEF SameCounts
    <3>2. PICK p \in Acct : /\ p = NewPassword(u, a) /\ SameCounts(p, a) /\ p.pw <= a.era + 1
      BY <1>2, <1>4, <3>1, PasswordRow
    <3>3. r = [p EXCEPT !.initial = FALSE]
      BY <2>2, <3>2
    <3>4. r \in Acct /\ SameCounts(r, p) /\ r.pw = p.pw
      BY <3>3, EndOrStart
    <3>. QED  BY <3>2, <3>4 DEF SameCounts
  <2>. QED  BY <2>1, <2>2
<1>. HIDE DEF r
<1>6. NewEra(r) \in Acct /\ Counted(NewEra(r)) /\ NewEra(r).edits >= a.edits
  BY <1>2, <1>4, <1>5, NextRow
<1>7. /\ AcctTyped' /\ SessionTyped' /\ NoStaleSession' /\ LinkTyped' /\ LinksHold'
      /\ OthersKept(c)
  BY <1>2, <1>3, <1>4, <1>6, WriteStep
<1>. QED  BY <1>3, <1>7, WriterEnds

\* The first password, taken or issued again.
LEMMA FirstPasswordWrites ==
    ASSUME IInv, NEW c, NEW u \in Users, NEW r \in Acct, SameCounts(r, acct[u]),
           FirstPassword(u, r)
    PROVE  /\ AcctTyped' /\ SessionTyped' /\ NoStaleSession' /\ LinkTyped' /\ LinksHold'
           /\ OthersKept(c) /\ UNCHANGED holder
<1> DEFINE a == acct[u]
           p == NewPassword(u, r)
<1>1. /\ holder[u] = NoOne /\ a.edits < MaxEdits /\ acct' = [acct EXCEPT ![u] = NewEra(p)]
      /\ RevokeSessions(u) /\ link' = LinksAfter(u, NoOne) /\ UNCHANGED holder
  BY DEF FirstPassword, Free
<1>2. a \in Acct /\ Counted(a)
  BY DEF IInv, Typed, AcctTyped
<1>3. p \in Acct /\ SameCounts(p, a) /\ p.pw <= a.era + 1
  BY PasswordRow
<1>. HIDE DEF p
<1>4. NewEra(p) \in Acct /\ Counted(NewEra(p)) /\ NewEra(p).edits >= a.edits
  BY <1>1, <1>2, <1>3, NextRow
<1>. QED  BY <1>1, <1>4, WriteStep

LEMMA KeepOnboard ==
    ASSUME IInv, NEW c \in Calls, Onboard(c)
    PROVE  IInv'
<1> DEFINE u == call[c].user
<1>1. u \in Users /\ ~Locks(call[c])
  BY CallShape DEF IInv, Onboard, Visit, Locks
<1>2. PICK a \in Acct : a = acct[u]
  BY <1>1 DEF IInv, Typed, AcctTyped
<1>3. PICK r : r = [a EXCEPT !.initial = FALSE]
  OBVIOUS
<1>4. r \in Acct /\ SameCounts(r, a)
  BY <1>3, EndOrStart
<1>5. FirstPassword(u, r) /\ call' = [call EXCEPT ![c] = Idle]
  BY <1>2, <1>3 DEF Onboard
<1>6. /\ AcctTyped' /\ SessionTyped' /\ NoStaleSession' /\ LinkTyped' /\ LinksHold'
      /\ OthersKept(c) /\ UNCHANGED holder
  BY <1>1, <1>2, <1>4, <1>5, FirstPasswordWrites
<1>. QED  BY <1>1, <1>5, <1>6, WriterEnds

LEMMA KeepReissue ==
    ASSUME IInv, NEW u \in Users, Reissue(u)
    PROVE  IInv'
<1>1. acct[u] \in Acct /\ SameCounts(acct[u], acct[u])
  BY DEF IInv, Typed, AcctTyped, SameCounts
<1>2. /\ AcctTyped' /\ SessionTyped' /\ NoStaleSession' /\ LinkTyped' /\ LinksHold'
      /\ OthersKept(NoOne) /\ UNCHANGED holder
  BY <1>1, FirstPasswordWrites DEF Reissue
<1>. QED  BY <1>2, NobodyMoves DEF Reissue

LEMMA KeepDelete ==
    ASSUME IInv, NEW u \in Users, Delete(u)
    PROVE  IInv'
<1>1. PICK a \in Acct : a = acct[u] /\ Counted(a)
  BY DEF IInv, Typed, AcctTyped
<1>2. PICK r : r = [a EXCEPT !.deleted = TRUE]
  OBVIOUS
<1>3. r \in Acct /\ SameCounts(r, a) /\ r.pw = a.pw /\ r.initial = a.initial
  BY <1>2, EndOrStart
<1>4. Counted(r) /\ r.edits >= a.edits /\ r.era = a.era
  BY <1>1, <1>3 DEF Counted, SameCounts, Acct
<1>5. /\ acct' = [acct EXCEPT ![u] = r] /\ holder[u] = NoOne
      /\ UNCHANGED <<holder, session, link, call>>
  BY <1>1, <1>2 DEF Delete, Free
<1>6. /\ AcctTyped' /\ SessionTyped' /\ NoStaleSession' /\ LinkTyped' /\ LinksHold'
      /\ OthersKept(NoOne)
  BY <1>1, <1>3, <1>4, <1>5, WriteStep
<1>. QED  BY <1>5, <1>6, NobodyMoves

-----------------------------------------------------------------------------
(* What a step may not do.                                                   *)

LEMMA RevokedStays ==
    ASSUME IInv, Next, NEW s \in Sessions, session[s].st = "revoked"
    PROVE  session'[s].st = "revoked"
<1>1. session[s] \in SessionRow
  BY SessionShape DEF IInv
<1>2. ASSUME NEW c \in Calls, NEW t \in Sessions, OpenSession(c, t)
      PROVE  session'[s].st = "revoked"
  BY <1>2 DEF OpenSession, NoSession, IInv, Typed, SessionTyped
<1>3. ASSUME NEW c \in Calls, Extend(c)
      PROVE  session'[s].st = "revoked"
  <2>1. PICK q \in SessionRow : q = session[s]
    BY <1>1
  <2>2. PICK t : /\ t = call[c].session /\ session' = [session EXCEPT ![t] = Extended(t)]
    BY <1>3 DEF Extend
  <2>3. CASE s = t
    <3>1. session'[s] = [q EXCEPT !.idle = q.over]
      BY <2>1, <2>2, <2>3 DEF Extended, IInv, Typed, SessionTyped
    <3>. QED  BY <2>1, <3>1 DEF SessionRow
  <2>4. CASE s # t
    BY <2>2, <2>4 DEF IInv, Typed, SessionTyped
  <2>. QED  BY <2>3, <2>4
<1>4. ASSUME NEW u, RevokeSessions(u)
      PROVE  session'[s].st = "revoked"
  BY <1>4 DEF RevokeSessions, Live
<1>5. ASSUME NEW t \in Sessions, RevokeLate(t) \/ Logout(t) \/ IdleDeadline(t) \/ LastDeadline(t)
      PROVE  session'[s].st = "revoked"
  <2>1. t # s
    BY <1>5 DEF RevokeLate, Logout, IdleDeadline, LastDeadline, Live
  <2>. QED
    BY <1>5, <2>1 DEF RevokeLate, Logout, IdleDeadline, LastDeadline, IInv, Typed, SessionTyped
<1>6. ASSUME UNCHANGED session
      PROVE  session'[s].st = "revoked"
  BY <1>6
<1>7. ASSUME NEW c \in Calls, NEW W, NEW e, FinishUpdate(c, W, e)
      PROVE  session'[s].st = "revoked"
  BY <1>4, <1>6, <1>7 DEF FinishUpdate
<1>8. ASSUME NEW c \in Calls, Confirm(c) \/ Onboard(c)
      PROVE  session'[s].st = "revoked"
  BY <1>4, <1>8 DEF Confirm, Onboard, FirstPassword
<1>9. ASSUME NEW u \in Users, Reissue(u) \/ Delete(u)
      PROVE  session'[s].st = "revoked"
  BY <1>4, <1>6, <1>9 DEF Reissue, Delete, FirstPassword
<1>10. ASSUME NEW c \in Calls,
              \/ \E e \in Emails : CheckPassword(c, e)
              \/ \E t \in Sessions : Validate(c, t)
              \/ Identify(c) \/ Done(c)
              \/ \E u \in Users, op \in {"update", "profile"} : OpenForm(c, u, op)
              \/ BeginUpdate(c) \/ CheckProfile(c) \/ WriteProfile(c)
              \/ \E u \in Users, l \in Links, e \in Emails \cup {NoOne} : Request(c, u, l, e)
              \/ \E l, m \in Links : Approve(c, l, m)
              \/ CommitLink(c)
              \/ \E l \in Links, p \in {"reset", "verify"} : OpenLink(c, l, p)
              \/ Stop(c)
       PROVE  session'[s].st = "revoked"
  BY <1>6, <1>10 DEF CheckPassword, Validate, Identify, Done, OpenForm, BeginUpdate, CheckProfile,
                     WriteProfile, Request, Approve, CommitLink, OpenLink, Stop
<1>11. ASSUME NEW l \in Links, LinkExpires(l)
       PROVE  session'[s].st = "revoked"
  BY <1>6, <1>11 DEF LinkExpires
<1>. QED
  BY <1>2, <1>3, <1>5, <1>7, <1>8, <1>9, <1>10, <1>11, Zenon DEF Next

LEMMA ClosedStays ==
    ASSUME IInv, Next, NEW l \in Links, link[l].st \in {"consumed", "revoked"}
    PROVE  link'[l].st = link[l].st
<1>1. ASSUME NEW u, NEW k, link' = LinksAfter(u, k), k = NoOne \/ Usable(k)
      PROVE  link'[l].st = link[l].st
  BY <1>1, NamesAssumption DEF LinksAfter, Usable
<1>2. ASSUME UNCHANGED link
      PROVE  link'[l].st = link[l].st
  BY <1>2
<1>3. ASSUME NEW c \in Calls, NEW W, NEW e, FinishUpdate(c, W, e)
      PROVE  link'[l].st = link[l].st
  BY <1>1, <1>2, <1>3 DEF FinishUpdate
<1>4. ASSUME NEW c \in Calls, Confirm(c)
      PROVE  link'[l].st = link[l].st
  <2>1. Usable(call[c].link)
    BY <1>4 DEF IInv, CallsFit, CallFits, ChangeFits, Confirm
  <2>2. link' = LinksAfter(call[c].user, call[c].link)
    BY <1>4 DEF Confirm
  <2>. QED  BY <1>1, <2>1, <2>2
<1>5. ASSUME NEW c \in Calls, Onboard(c)
      PROVE  link'[l].st = link[l].st
  BY <1>1, <1>5 DEF Onboard, FirstPassword
<1>6. ASSUME NEW u \in Users, Reissue(u) \/ Delete(u)
      PROVE  link'[l].st = link[l].st
  BY <1>1, <1>2, <1>6 DEF Reissue, Delete, FirstPassword
<1>7. ASSUME NEW k \in Links, link[k] = Unsent, link' = [link EXCEPT ![k] = Orphan]
      PROVE  link'[l].st = link[l].st
  BY <1>7 DEF IInv, Typed, LinkTyped, Unsent
<1>8. ASSUME NEW c \in Calls, NEW u \in Users, NEW k \in Links, NEW e \in Emails \cup {NoOne},
             Request(c, u, k, e)
      PROVE  link'[l].st = link[l].st
  BY <1>7, <1>8 DEF Request, Send
<1>9. ASSUME NEW c \in Calls, NEW k \in Links, NEW m \in Links, Approve(c, k, m)
      PROVE  link'[l].st = link[l].st
  BY <1>7, <1>9 DEF Approve, Send
<1>10. ASSUME NEW c \in Calls, CommitLink(c)
       PROVE  link'[l].st = link[l].st
  <2>1. call[c].link # l
    BY <1>10, MailsAreOut DEF CommitLink, Orphan
  <2>2. call[c].by # l
    BY <1>10, NamesAssumption DEF CommitLink, IInv, CallsFit, CallFits, MailFits, Usable
  <2>. QED  BY <1>10, <2>1, <2>2 DEF CommitLink, Issued
<1>11. ASSUME NEW k \in Links, LinkExpires(k)
       PROVE  link'[l].st = link[l].st
  <2>1. k # l
    BY <1>11 DEF LinkExpires, Usable
  <2>. QED  BY <1>11, <2>1 DEF LinkExpires, IInv, Typed, LinkTyped
<1>12. ASSUME NEW c \in Calls,
              \/ \E e \in Emails : CheckPassword(c, e)
              \/ \E s \in Sessions : OpenSession(c, s) \/ Validate(c, s)
              \/ Identify(c) \/ Extend(c) \/ Done(c)
              \/ \E u \in Users, op \in {"update", "profile"} : OpenForm(c, u, op)
              \/ BeginUpdate(c) \/ CheckProfile(c) \/ WriteProfile(c)
              \/ \E k \in Links, p \in {"reset", "verify"} : OpenLink(c, k, p)
              \/ Stop(c)
       PROVE  link'[l].st = link[l].st
  BY <1>2, <1>12 DEF CheckPassword, OpenSession, Validate, Identify, Extend, Done, OpenForm,
                     BeginUpdate, CheckProfile, WriteProfile, OpenLink, Stop
<1>13. ASSUME NEW s \in Sessions,
              RevokeLate(s) \/ Logout(s) \/ IdleDeadline(s) \/ LastDeadline(s)
       PROVE  link'[l].st = link[l].st
  BY <1>2, <1>13 DEF RevokeLate, Logout, IdleDeadline, LastDeadline
<1>. QED
  BY <1>3, <1>4, <1>5, <1>6, <1>8, <1>9, <1>10, <1>11, <1>12, <1>13, Zenon DEF Next

\* What an action of a call changes in calls, and who may write a row.
LEMMA ConfirmWrites ==
    ASSUME IInv, NEW c \in Calls, call[c].op = "confirm", Confirm(c)
    PROVE  /\ Usable(call[c].link) /\ link[call[c].link].era = acct[call[c].user].era
           /\ \A k \in Links : link'[k].st = "usable" => link'[k].user # call[c].user
<1>1. PICK k \in Change : k = call[c]
  BY CallShape DEF IInv
<1>2. /\ k.user \in Users /\ k.link \in Links /\ Usable(k.link)
      /\ link[k.link].user = k.user /\ holder[k.user] = c
  BY <1>1 DEF Change, IInv, CallsFit, CallFits, ChangeFits, LocksFit, LockerHolds, Locks
<1>3. link[k.link].era = acct[k.user].era
  BY <1>2 DEF IInv, LinksHold, NoStaleLink
<1>4. \A n \in Links : Usable(n) => link[n] \in LinkRow
  BY LinkShape DEF IInv, Usable
<1>5. link' = LinksAfter(k.user, k.link)
  BY <1>1 DEF Confirm
<1>6. ASSUME NEW n \in Links, link'[n].st = "usable"
      PROVE  link'[n].user # k.user
  <2>1. CASE Usable(n) /\ link[n].user = k.user
    <3>1. PICK q \in LinkRow : q = link[n]
      BY <2>1, <1>4
    <3>2. link'[n] = [q EXCEPT !.st = "consumed"] \/ link'[n] = [q EXCEPT !.st = "revoked"]
      BY <2>1, <3>1, <1>5 DEF LinksAfter
    <3>3. link'[n].st # "usable"
      BY <3>1, <3>2 DEF LinkRow
    <3>. QED  BY <1>6, <3>3
  <2>2. CASE ~(Usable(n) /\ link[n].user = k.user)
    <3>1. link'[n] = link[n]
      BY <2>2, <1>2, <1>5 DEF LinksAfter
    <3>. QED  BY <1>6, <2>2, <3>1 DEF Usable
  <2>. QED  BY <2>1, <2>2
<1>. QED  BY <1>1, <1>2, <1>3, <1>6

LEMMA OnlyConfirm ==
    ASSUME IInv, Next, NEW c \in Calls, call[c].op = "confirm", acct' # acct, call'[c] = Idle
    PROVE  Confirm(c)
<1>0. call \in [Calls -> CallRow] /\ call[c] # Idle
  BY DEF IInv, Typed, CallTyped, Idle
<1>1. ASSUME NEW d \in Calls, NEW W, NEW e, FinishUpdate(d, W, e)
      PROVE  FALSE
  BY <1>0, <1>1 DEF FinishUpdate, Release
<1>2. ASSUME NEW d \in Calls, Confirm(d)
      PROVE  Confirm(c)
  BY <1>0, <1>2 DEF Confirm, Release
<1>3. ASSUME NEW d \in Calls, Onboard(d) \/ WriteProfile(d)
      PROVE  FALSE
  BY <1>0, <1>3 DEF Onboard, WriteProfile
<1>4. ASSUME NEW u \in Users, Reissue(u) \/ Delete(u)
      PROVE  FALSE
  BY <1>0, <1>4 DEF Reissue, Delete
<1>5. ASSUME NEW d \in Calls,
             \/ \E e \in Emails : CheckPassword(d, e)
             \/ \E s \in Sessions : OpenSession(d, s) \/ Validate(d, s)
             \/ Identify(d) \/ Extend(d) \/ Done(d)
             \/ \E u \in Users, op \in {"update", "profile"} : OpenForm(d, u, op)
             \/ BeginUpdate(d) \/ CheckProfile(d)
             \/ \E u \in Users, l \in Links, e \in Emails \cup {NoOne} : Request(d, u, l, e)
             \/ \E l, m \in Links : Approve(d, l, m)
             \/ CommitLink(d)
             \/ \E l \in Links, p \in {"reset", "verify"} : OpenLink(d, l, p)
             \/ Stop(d)
      PROVE  FALSE
  BY <1>5 DEF CheckPassword, OpenSession, Validate, Identify, Extend, Done, OpenForm, BeginUpdate,
              CheckProfile, Request, Approve, CommitLink, OpenLink, Stop
<1>6. ASSUME NEW s \in Sessions,
             RevokeLate(s) \/ Logout(s) \/ IdleDeadline(s) \/ LastDeadline(s)
      PROVE  FALSE
  BY <1>6 DEF RevokeLate, Logout, IdleDeadline, LastDeadline
<1>7. ASSUME NEW l \in Links, LinkExpires(l)
      PROVE  FALSE
  BY <1>7 DEF LinkExpires
<1>. QED
  BY <1>1, <1>2, <1>3, <1>4, <1>5, <1>6, <1>7, Zenon DEF Next

\* Only the check of who it is lets a request in.
LEMMA AdmittedIsCurrent ==
    ASSUME IInv, Next, NEW c \in Calls, call[c].at # "in", call'[c].at = "in"
    PROVE  /\ session[call[c].session].era = call[c].born
           /\ Present(call[c].user)
<1>0. call \in [Calls -> CallRow] /\ Idle.at # "in" /\ call'[c] # call[c]
  BY DEF IInv, Typed, CallTyped, Idle
<1>1. ASSUME NEW d \in Calls, Identify(d)
      PROVE  Present(call[c].user) /\ session[call[c].session].era = call[c].born
  <2>1. d = c /\ Present(call[c].user)
    BY <1>0, <1>1 DEF Identify
  <2>. QED  BY <1>1, <2>1 DEF Identify, IInv, CallsFit, CallFits, VisitFits
<1>2. ASSUME NEW d \in Calls, NEW r, call' = [call EXCEPT ![d] = r], r.at # "in"
      PROVE  FALSE
  BY <1>0, <1>2
<1>3. ASSUME NEW d \in Calls,
             \/ \E s \in Sessions : OpenSession(d, s)
             \/ Done(d) \/ WriteProfile(d) \/ CommitLink(d) \/ Confirm(d) \/ Onboard(d) \/ Stop(d)
             \/ \E W \in SUBSET {"email", "password", "active", "roles"},
                   e \in Emails \cup {NoOne} : FinishUpdate(d, W, e)
      PROVE  FALSE
  <2>1. call' = [call EXCEPT ![d] = Idle]
    BY <1>3 DEF OpenSession, Done, WriteProfile, CommitLink, Confirm, Onboard, Stop, FinishUpdate,
                Release
  <2>. QED  BY <1>0, <1>2, <2>1
<1>4. ASSUME NEW d \in Calls, NEW e \in Emails, CheckPassword(d, e)
      PROVE  FALSE
  BY <1>2, <1>4 DEF CheckPassword, Take
<1>5. ASSUME NEW d \in Calls, NEW s \in Sessions, Validate(d, s)
      PROVE  FALSE
  BY <1>2, <1>5 DEF Validate
<1>6. ASSUME NEW d \in Calls, NEW u \in Users, NEW op \in {"update", "profile"}, OpenForm(d, u, op)
      PROVE  FALSE
  BY <1>2, <1>6 DEF OpenForm
<1>7. ASSUME NEW d \in Calls, BeginUpdate(d) \/ CheckProfile(d)
      PROVE  FALSE
  <2>1. PICK f \in Form : f = call[d]
    BY <1>7, CallShape DEF IInv, BeginUpdate, CheckProfile
  <2>2. PICK r : r = [f EXCEPT !.at = "write"]
    OBVIOUS
  <2>3. call' = [call EXCEPT ![d] = r] /\ r.at = "write"
    BY <1>7, <2>1, <2>2, FormMoves DEF BeginUpdate, CheckProfile, Take
  <2>. QED  BY <1>2, <2>3
<1>8. ASSUME NEW d \in Calls,
             \/ \E u \in Users, l \in Links, e \in Emails \cup {NoOne} : Request(d, u, l, e)
             \/ \E l, m \in Links : Approve(d, l, m)
      PROVE  FALSE
  <2>1. PICK u, l, p, e, b : Send(d, u, l, p, e, b)
    BY <1>8 DEF Request, Approve
  <2>. QED  BY <1>2, <2>1 DEF Send, Take
<1>9. ASSUME NEW d \in Calls, NEW l \in Links, NEW p \in {"reset", "verify"}, OpenLink(d, l, p)
      PROVE  FALSE
  BY <1>2, <1>9 DEF OpenLink, Take
<1>10. ASSUME UNCHANGED call
       PROVE  FALSE
  BY <1>0, <1>10
<1>11. ASSUME NEW d \in Calls, Extend(d)
       PROVE  FALSE
  BY <1>10, <1>11 DEF Extend
<1>12. ASSUME NEW u \in Users, Reissue(u) \/ Delete(u)
       PROVE  FALSE
  BY <1>10, <1>12 DEF Reissue, Delete
<1>13. ASSUME NEW s \in Sessions,
              RevokeLate(s) \/ Logout(s) \/ IdleDeadline(s) \/ LastDeadline(s)
       PROVE  FALSE
  BY <1>10, <1>13 DEF RevokeLate, Logout, IdleDeadline, LastDeadline
<1>14. ASSUME NEW l \in Links, LinkExpires(l)
       PROVE  FALSE
  BY <1>10, <1>14 DEF LinkExpires
<1>. QED
  BY <1>1, <1>3, <1>4, <1>5, <1>6, <1>7, <1>8, <1>9, <1>11, <1>12, <1>13, <1>14, Zenon DEF Next

-----------------------------------------------------------------------------
(* The theorems.                                                             *)

LEMMA InitFits == Init => IInv
<1>. SUFFICES ASSUME Init PROVE IInv
  OBVIOUS
<1>1. AcctTyped
  BY PeopleAssumption, BoundsAssumption DEF Init, AcctTyped, Acct, Counted
<1>2. SessionTyped /\ LinkTyped /\ HolderTyped /\ CallTyped
  BY DEF Init, SessionTyped, LinkTyped, HolderTyped, CallTyped, CallRow
<1>3. LocksFit
  BY DEF Init, LocksFit, HolderLocks, LockerHolds, Locks, Idle
<1>4. CallsFit
  BY DEF Init, CallsFit, CallFits, LoginFits, VisitFits, FormFits, MailFits, ChangeFits, MailIsOwn,
         Idle
<1>5. NoStaleSession
  BY DEF Init, NoStaleSession, Live, NoSession
<1>6. LinksHold
  BY DEF Init, LinksHold, NoStaleLink, VerifyFollowsApproval, LinksNameNew, Usable, Unsent, LinkRow
<1>. QED  BY <1>1, <1>2, <1>3, <1>4, <1>5, <1>6 DEF IInv, Typed

LEMMA StepFits == IInv /\ [Next]_vars => IInv'
<1>. SUFFICES ASSUME IInv, [Next]_vars PROVE IInv'
  OBVIOUS
<1>1. CASE UNCHANGED vars
  BY <1>1
  DEF vars, IInv, Typed, AcctTyped, SessionTyped, LinkTyped, HolderTyped, CallTyped, LocksFit,
      HolderLocks, LockerHolds, Locks, CallsFit, CallFits, LoginFits, VisitFits, FormFits, MailFits,
      ChangeFits, MailIsOwn, NoStaleSession, Live, LinksHold, NoStaleLink, VerifyFollowsApproval,
      LinksNameNew, Usable
<1>2. ASSUME NEW c \in Calls,
             \/ \E e \in Emails : CheckPassword(c, e)
             \/ \E s \in Sessions : OpenSession(c, s) \/ Validate(c, s)
             \/ Identify(c) \/ Extend(c) \/ Done(c)
             \/ \E u \in Users, op \in {"update", "profile"} : OpenForm(c, u, op)
             \/ BeginUpdate(c)
             \/ \E W \in SUBSET {"email", "password", "active", "roles"},
                   e \in Emails \cup {NoOne} : FinishUpdate(c, W, e)
             \/ CheckProfile(c) \/ WriteProfile(c)
      PROVE  IInv'
  BY <1>2, KeepCheckPassword, KeepOpenSession, KeepValidate, KeepIdentify, KeepExtend, KeepDone,
     KeepOpenForm, KeepBeginUpdate, KeepFinishUpdate, KeepCheckProfile, KeepWriteProfile
<1>3. ASSUME NEW c \in Calls,
             \/ \E u \in Users, l \in Links, e \in Emails \cup {NoOne} : Request(c, u, l, e)
             \/ \E l, m \in Links : Approve(c, l, m)
             \/ CommitLink(c)
             \/ \E l \in Links, p \in {"reset", "verify"} : OpenLink(c, l, p)
             \/ Confirm(c) \/ Onboard(c) \/ Stop(c)
      PROVE  IInv'
  BY <1>3, KeepRequest, KeepApprove, KeepCommitLink, KeepOpenLink, KeepConfirm, KeepOnboard, KeepStop
<1>4. ASSUME NEW u \in Users, Reissue(u) \/ Delete(u)
      PROVE  IInv'
  BY <1>4, KeepReissue, KeepDelete
<1>5. ASSUME NEW s \in Sessions,
             RevokeLate(s) \/ Logout(s) \/ IdleDeadline(s) \/ LastDeadline(s)
      PROVE  IInv'
  BY <1>5, KeepEnding, KeepIdleDeadline, KeepLastDeadline
<1>6. ASSUME NEW l \in Links, LinkExpires(l)
      PROVE  IInv'
  BY <1>6, KeepLinkExpires
<1>. QED  BY <1>1, <1>2, <1>3, <1>4, <1>5, <1>6, Zenon DEF Next

\* Everything a call knows about its user stays true until the call commits: the
\* inductive invariant behind the theorems below (the row locks of authenticate_user,
\* update_user, _valid_action and _finish).
THEOREM IdentityInvariant == Spec => []IInv
BY InitFits, StepFits, PTL DEF Spec

LEMMA InvTypes == IInv => TypeOK
<1>. SUFFICES ASSUME IInv PROVE TypeOK
  OBVIOUS
<1> DEFINE Bounded == [email : Emails, pw : 0 .. MaxEdits, era : 0 .. MaxEdits,
                       version : 0 .. MaxEdits, edits : 0 .. MaxEdits,
                       active : BOOLEAN, deleted : BOOLEAN, initial : BOOLEAN]
<1>1. acct \in [Users -> Acct] /\ \A u \in Users : Counted(acct[u])
  BY DEF IInv, Typed, AcctTyped
<1>2. \A u \in Users : acct[u] \in Bounded
  BY <1>1, CountedRow
<1>. HIDE DEF Bounded
<1>3. acct \in [Users -> Bounded]
  BY <1>1, <1>2
<1>4. \A u \in Users : holder[u] # NoOne =>
        call[holder[u]].at \in {"open", "write", "sent", "confirm"}
  <2>. SUFFICES ASSUME NEW u \in Users, holder[u] # NoOne
                PROVE  call[holder[u]].at \in {"open", "write", "sent", "confirm"}
    OBVIOUS
  <2>1. holder[u] \in Calls /\ Locks(call[holder[u]])
    BY DEF IInv, Typed, HolderTyped, LocksFit, HolderLocks
  <2>2. PICK c \in Calls : c = holder[u]
    BY <2>1
  <2>. QED  BY <2>1, <2>2, CallShape DEF IInv, Locks, Login, Mail, Change
<1>. QED
  BY <1>3, <1>4
  DEF Bounded, TypeOK, IInv, Typed, SessionTyped, SessionRow, LinkTyped, LinkRow, HolderTyped

\* No session and no link outlives the login it was issued for, and a link that verifies
\* a new address was preceded by the approval of the old mailbox (login, update_user,
\* request_*, approve_email_change, reset_password, confirm_email_change, onboarding).
THEOREM LoginIsCurrent == Spec => []NothingOutlivesTheLogin
<1>1. IInv => NothingOutlivesTheLogin
  BY InvTypes DEF IInv, LinksHold, NothingOutlivesTheLogin
<1>. QED  BY <1>1, IdentityInvariant, PTL

\* Two calls with one link, or two links of one user, never both change the account; an
\* ended session or link stays ended; a request is never admitted under a login that has
\* changed since (_valid_action, _finish, extend, get_authenticated_user).
THEOREM LoginStepsHold == Spec => LoginSteps
<1>1. IInv /\ [Next]_vars =>
        [\A c \in Calls : (call[c].op = "confirm" /\ acct' # acct /\ call'[c] = Idle) =>
            /\ Usable(call[c].link) /\ link[call[c].link].era = acct[call[c].user].era
            /\ \A k \in Links : link'[k].st = "usable" => link'[k].user # call[c].user]_vars
  BY OnlyConfirm, ConfirmWrites
<1>2. IInv /\ [Next]_vars =>
        [/\ \A s \in Sessions : session[s].st = "revoked" => session'[s].st = "revoked"
         /\ \A l \in Links : link[l].st \in {"consumed", "revoked"} => link'[l].st = link[l].st]_vars
  BY RevokedStays, ClosedStays
<1>3. IInv /\ [Next]_vars =>
        [\A c \in Calls : (call[c].at # "in" /\ call'[c].at = "in") =>
            /\ session[call[c].session].era = call[c].born
            /\ Present(call[c].user)]_vars
  BY AdmittedIsCurrent
<1>4. Spec => LinkChangesOnce
  BY <1>1, IdentityInvariant, PTL DEF Spec, LinkChangesOnce
<1>5. Spec => EndedStaysEnded
  BY <1>2, IdentityInvariant, PTL DEF Spec, EndedStaysEnded
<1>6. Spec => AdmittedKnowsTheLogin
  BY <1>3, IdentityInvariant, PTL DEF Spec, AdmittedKnowsTheLogin
<1>. QED  BY <1>4, <1>5, <1>6 DEF LoginSteps
=============================================================================
