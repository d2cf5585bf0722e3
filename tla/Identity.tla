------------------------------ MODULE Identity ------------------------------
(***************************************************************************)
(* The login identity shared by every organisation: its e-mail address and *)
(* password, the sessions opened with them, the links mailed to change     *)
(* them and the requests that arrive with a session cookie.                *)
(*                                                                         *)
(*   app/services/user.py             login, operator's update, profile    *)
(*   app/services/session.py          sessions                             *)
(*   app/services/account_action.py   password reset, two-sided mail change*)
(*   app/services/onboarding.py       the first password                   *)
(*   app/services/tenant_issuance.py  reissue of the first password        *)
(*   app/core/auth.py                 admission of a request               *)
(*                                                                         *)
(* Transactions are READ COMMITTED.  Whatever relies on a user's            *)
(* credentials or changes them locks the users row before it reads it and   *)
(* keeps the lock until it commits: an operation takes the lock in one      *)
(* action and commits in another, so that the steps of other calls, also    *)
(* those that take no lock, fall between them.  Stop is a crash, a refused  *)
(* mail or any other error: the transaction is rolled back.                 *)
(*                                                                         *)
(* Password texts are left out: a right password is the one behind the hash *)
(* that is compared.  Sign-in without a second factor is modelled here      *)
(* (first passwords, and every account when the factor is not required);    *)
(* SecondFactor continues it.  Authority over other members and the lock    *)
(* after failed logins only refuse an operation.                            *)
(***************************************************************************)
EXTENDS Naturals, FiniteSets

CONSTANTS
    Users,
    Fresh,          \* the users who still hold an issued first password
    Emails,
    Address,        \* user -> the address first registered
    Calls,          \* concurrent HTTP requests
    Sessions,       \* identities of user_sessions
    Links,          \* identities of account_actions
    NoOne,
    MaxEdits        \* bound on the writes to one users row

ASSUME PeopleAssumption ==
    /\ Fresh \subseteq Users
    /\ Address \in [Users -> Emails]
    /\ \A u, v \in Users : Address[u] = Address[v] => u = v
ASSUME NamesAssumption == NoOne \notin Emails \cup Calls \cup Links \cup Users
ASSUME BoundsAssumption == MaxEdits \in Nat

VARIABLES
    acct,       \* user -> its users row, with the number of credential changes
                \* (era) and of committed writes (edits)
    holder,     \* user -> the call that holds the row lock, or NoOne
    session,    \* session -> its user_sessions row
    link,       \* link -> its account_actions row, or what became of the mail
    call        \* call -> the operation it runs

vars == <<acct, holder, session, link, call>>

Idle == [op |-> "idle", at |-> "idle"]
NoSession == [st |-> "none"]
Unsent == [st |-> "unsent"]
Orphan == [st |-> "orphan"]         \* the mail is out, the row never came to be

Init ==
    /\ acct = [u \in Users |-> [email |-> Address[u], pw |-> 0, era |-> 0, version |-> 0,
                                edits |-> 0, active |-> TRUE, deleted |-> FALSE,
                                initial |-> u \in Fresh]]
    /\ holder = [u \in Users |-> NoOne]
    /\ session = [s \in Sessions |-> NoSession]
    /\ link = [l \in Links |-> Unsent]
    /\ call = [c \in Calls |-> Idle]

-----------------------------------------------------------------------------
(* Rows, locks and what a credential change takes along.                    *)

Usable(l) == link[l].st = "usable"
Live(s) == session[s].st = "live"
Present(u) == acct[u].active /\ ~acct[u].deleted

\* SELECT ... FOR UPDATE waits for the holder and reads the row it left.
Free(u) == holder[u] = NoOne

Take(c, u, r) ==
    /\ Free(u)
    /\ holder' = [holder EXCEPT ![u] = c]
    /\ call' = [call EXCEPT ![c] = r]
Release(c) ==
    /\ holder' = [u \in Users |-> IF holder[u] = c THEN NoOne ELSE holder[u]]
    /\ call' = [call EXCEPT ![c] = Idle]

\* email_in_use, and the unique column: deleted accounts keep their address.
Taken(e) == \E u \in Users : acct[u].email = e

Fingerprint(u) == <<acct[u].email, acct[u].pw>>

\* What a write to the users row changes besides its own columns.
Written(r) == [r EXCEPT !.version = @ + 1, !.edits = @ + 1]
NewEra(r) == [Written(r) EXCEPT !.era = @ + 1]
NewPassword(u, r) == [r EXCEPT !.pw = acct[u].era + 1]

RevokeSessions(u) ==
    session' = [s \in Sessions |->
        IF Live(s) /\ session[s].user = u THEN [session[s] EXCEPT !.st = "revoked"]
        ELSE session[s]]

\* revoke_actions, after link l (or none) was consumed.
LinksKept(u, l) ==                          \* mutation: only the link used is closed
    [k \in Links |-> IF k = l THEN [link[k] EXCEPT !.st = "consumed"] ELSE link[k]]
LinksAfter(u, l) ==
    [k \in Links |-> IF k = l THEN [link[k] EXCEPT !.st = "consumed"]
                     ELSE IF Usable(k) /\ link[k].user = u
                          THEN [link[k] EXCEPT !.st = "revoked"]
                     ELSE link[k]]

-----------------------------------------------------------------------------
(* Login.                                                                   *)

\* authenticate_user: the right password keeps the row lock; anything else rolls back
\* and leaves nothing behind here.
CheckPassword(c, e) ==
    /\ call[c] = Idle
    /\ \E u \in Users :
          /\ acct[u].email = e /\ Present(u)
          /\ Take(c, u, [op |-> "login", at |-> "open", user |-> u, row |-> acct[u]])
    /\ UNCHANGED <<acct, session, link>>

\* create_session_token, for the row that was checked, in the same transaction.
OpenSession(c, s) ==
    /\ call[c].op = "login" /\ call[c].at = "open" /\ session[s] = NoSession
    /\ LET r == call[c].row
       IN  session' = [session EXCEPT ![s] =
              [st |-> "live", user |-> call[c].user, sub |-> r.email, era |-> r.era,
               setup |-> r.initial, idle |-> FALSE, over |-> FALSE]]
    /\ Release(c)
    /\ UNCHANGED <<acct, link>>

-----------------------------------------------------------------------------
(* Requests that carry a session cookie.                                    *)

\* validate_session: a session past its deadline is revoked instead.
EverOpened(s) == session[s].st # "none"     \* mutation: revocation is not looked at
Unrevoked(s) == Live(s)
Validate(c, s) ==
    /\ call[c] = Idle /\ Unrevoked(s) /\ ~session[s].idle /\ ~session[s].over
    /\ call' = [call EXCEPT ![c] = [op |-> "request", at |-> "who", session |-> s,
                    user |-> session[s].user, born |-> acct[session[s].user].era]]
    /\ UNCHANGED <<acct, holder, session, link>>
RevokeLate(s) ==
    /\ Live(s) /\ (session[s].idle \/ session[s].over)
    /\ session' = [session EXCEPT ![s].st = "revoked"]
    /\ UNCHANGED <<acct, holder, link, call>>

\* get_authenticated_user: the address in the token still names that user.
Identify(c) ==
    /\ call[c].op = "request" /\ call[c].at = "who"
    /\ LET u == call[c].user
       IN  call' = [call EXCEPT ![c] =
                       IF Present(u) /\ acct[u].email = session[call[c].session].sub
                       THEN [@ EXCEPT !.at = "in"] ELSE Idle]
    /\ UNCHANGED <<acct, holder, session, link>>

\* extend: the deadline moves, never past the absolute one; other columns stay.
Extended(s) == [session[s] EXCEPT !.idle = session[s].over]
Extend(c) ==
    /\ call[c].op = "request" /\ call[c].at = "in"
    /\ LET s == call[c].session
       IN  /\ ~session[s].setup
           /\ session' = [session EXCEPT ![s] = Extended(s)]
    /\ UNCHANGED <<acct, holder, link, call>>

Done(c) ==
    /\ call[c].op = "request" /\ call[c].at = "in"
    /\ call' = [call EXCEPT ![c] = Idle]
    /\ UNCHANGED <<acct, holder, session, link>>

Logout(s) ==
    /\ Live(s)
    /\ session' = [session EXCEPT ![s].st = "revoked"]
    /\ UNCHANGED <<acct, holder, link, call>>

-----------------------------------------------------------------------------
(* The operator's update and the user's own profile.                        *)

\* The form shows the row and its version; both operations come from such a form.
OpenForm(c, u, op) ==
    /\ call[c] = Idle /\ op \in {"update", "profile"} /\ ~acct[u].deleted
    /\ call' = [call EXCEPT ![c] = [op |-> op, at |-> "form", user |-> u,
                                    version |-> acct[u].version]]
    /\ UNCHANGED <<acct, holder, session, link>>

\* update_user: lock, compare the version ...
BeginUpdate(c) ==
    /\ call[c].op = "update" /\ call[c].at = "form"
    /\ LET u == call[c].user
       IN  /\ ~acct[u].deleted /\ acct[u].version = call[c].version
           /\ acct[u].edits < MaxEdits
           /\ Take(c, u, [call[c] EXCEPT !.at = "write"])
    /\ UNCHANGED <<acct, session, link>>

\* ... and write what the form changes (W): a new address, a password, the active
\* flag, roles, or only descriptive columns.
FinishUpdate(c, W, e) ==
    /\ call[c].op = "update" /\ call[c].at = "write"
    /\ W \subseteq {"email", "password", "active", "roles"}
    /\ ("email" \in W) = (e \in Emails) /\ (e \in Emails => ~Taken(e))
    /\ LET u == call[c].user
           r == [acct[u] EXCEPT !.email = IF "email" \in W THEN e ELSE @,
                                !.pw = IF "password" \in W THEN acct[u].era + 1 ELSE @,
                                !.active = IF "active" \in W THEN ~@ ELSE @]
           credentials == W \cap {"email", "password", "active"} # {}
       IN  /\ acct' = [acct EXCEPT ![u] = IF credentials THEN NewEra(r) ELSE Written(r)]
           /\ IF W # {} THEN RevokeSessions(u) ELSE UNCHANGED session
           /\ link' = IF credentials THEN LinksAfter(u, NoOne) ELSE link
    /\ Release(c)

\* update_profile compares the version of the row the admission read and writes the
\* next one later; no lock, and the UPDATE names the row by its key only.
CheckProfile(c) ==
    /\ call[c].op = "profile" /\ call[c].at = "form"
    /\ LET u == call[c].user
       IN  /\ Present(u) /\ ~acct[u].initial /\ acct[u].version = call[c].version
           /\ call' = [call EXCEPT ![c].at = "write"]
    /\ UNCHANGED <<acct, holder, session, link>>
WriteProfile(c) ==
    /\ call[c].op = "profile" /\ call[c].at = "write"
    /\ LET u == call[c].user
       IN  /\ Free(u) /\ acct[u].edits < MaxEdits
           /\ acct' = [acct EXCEPT ![u].version = call[c].version + 1, ![u].edits = @ + 1]
    /\ call' = [call EXCEPT ![c] = Idle]
    /\ UNCHANGED <<holder, session, link>>

-----------------------------------------------------------------------------
(* Links: a password reset, or a change of address that the old mailbox     *)
(* approves and the new one verifies.                                       *)

Row(u, purpose, new) ==
    [st |-> "usable", purpose |-> purpose, user |-> u, fp |-> Fingerprint(u),
     era |-> acct[u].era, new |-> new, late |-> FALSE]

\* _issue sends before the transaction commits: the mail is an orphan until then.
Send(c, u, l, purpose, new, by) ==
    /\ link[l] = Unsent
    /\ link' = [link EXCEPT ![l] = Orphan]
    /\ Take(c, u, [op |-> "mail", at |-> "sent", user |-> u, link |-> l,
                   purpose |-> purpose, new |-> new, by |-> by])

\* request_password_reset, request_email_change.
Request(c, u, l, new) ==
    /\ call[c] = Idle /\ Present(u)
    /\ new # NoOne => ~Taken(new)
    /\ Send(c, u, l, IF new = NoOne THEN "reset" ELSE "approve", new, NoOne)
    /\ UNCHANGED <<acct, session>>

\* _valid_action, under the user's lock.
Valid(l, purpose) ==
    /\ Usable(l) /\ ~link[l].late /\ link[l].purpose = purpose
    /\ Present(link[l].user) /\ link[l].fp = Fingerprint(link[l].user)

\* approve_email_change: the link to the new mailbox replaces the approval.
Approve(c, l, m) ==
    /\ call[c] = Idle /\ l # m /\ Valid(l, "approve") /\ ~Taken(link[l].new)
    /\ Send(c, link[l].user, m, "verify", link[l].new, l)
    /\ UNCHANGED <<acct, session>>

Issued(c) ==
    [k \in Links |->
        IF k = call[c].link THEN Row(call[c].user, call[c].purpose, call[c].new)
        ELSE IF k = call[c].by THEN [link[k] EXCEPT !.st = "consumed"]
        ELSE link[k]]
CommitLink(c) ==
    /\ call[c].op = "mail" /\ call[c].at = "sent"
    /\ link' = Issued(c)
    /\ Release(c)
    /\ UNCHANGED <<acct, session>>

\* reset_password and confirm_email_change: lock and validate, ...
OpenLink(c, l, purpose) ==
    /\ call[c] = Idle /\ purpose \in {"reset", "verify"} /\ Valid(l, purpose)
    /\ purpose = "verify" => ~Taken(link[l].new)
    /\ acct[link[l].user].edits < MaxEdits
    /\ Take(c, link[l].user, [op |-> "confirm", at |-> "confirm", user |-> link[l].user,
                              link |-> l])
    /\ UNCHANGED <<acct, session, link>>

\* ... change, consume and revoke in one commit.  An address taken meanwhile
\* violates the unique column: the call stops.
Confirm(c) ==
    /\ call[c].op = "confirm" /\ call[c].at = "confirm"
    /\ LET l == call[c].link
           u == call[c].user
           verify == link[l].purpose = "verify"
           r == IF verify THEN [acct[u] EXCEPT !.email = link[l].new]
                ELSE [NewPassword(u, acct[u]) EXCEPT !.initial = FALSE]
       IN  /\ verify => ~Taken(link[l].new)
           /\ acct' = [acct EXCEPT ![u] = NewEra(r)]
           /\ link' = LinksAfter(u, l)
           /\ RevokeSessions(u)
    /\ Release(c)

-----------------------------------------------------------------------------
(* The first password, and the end of an account.  One transaction under    *)
(* the lock, one action.                                                    *)

FirstPassword(u, r) ==
    /\ Free(u) /\ Present(u) /\ acct[u].initial /\ acct[u].edits < MaxEdits
    /\ acct' = [acct EXCEPT ![u] = NewEra(NewPassword(u, r))]
    /\ RevokeSessions(u)
    /\ link' = LinksAfter(u, NoOne)
    /\ UNCHANGED holder

\* complete, by an admitted request that knows the current first password.
Onboard(c) ==
    /\ call[c].op = "request" /\ call[c].at = "in"
    /\ LET u == call[c].user IN FirstPassword(u, [acct[u] EXCEPT !.initial = FALSE])
    /\ call' = [call EXCEPT ![c] = Idle]
\* resend
Reissue(u) == FirstPassword(u, acct[u]) /\ UNCHANGED call

\* delete_user neither locks first nor ends sessions: the row is not found any more.
Delete(u) ==
    /\ Free(u) /\ ~acct[u].deleted
    /\ acct' = [acct EXCEPT ![u].deleted = TRUE]
    /\ UNCHANGED <<holder, session, link, call>>

-----------------------------------------------------------------------------
(* Time, failure, and the specification.                                    *)

IdleDeadline(s) ==
    /\ Live(s) /\ ~session[s].idle
    /\ session' = [session EXCEPT ![s].idle = TRUE]
    /\ UNCHANGED <<acct, holder, link, call>>
LastDeadline(s) ==
    /\ Live(s) /\ ~session[s].over
    /\ session' = [session EXCEPT ![s].idle = TRUE, ![s].over = TRUE]
    /\ UNCHANGED <<acct, holder, link, call>>
LinkExpires(l) ==
    /\ Usable(l) /\ ~link[l].late
    /\ link' = [link EXCEPT ![l].late = TRUE]
    /\ UNCHANGED <<acct, holder, session, call>>

Stop(c) ==
    /\ call[c] # Idle
    /\ Release(c)
    /\ UNCHANGED <<acct, session, link>>

Next ==
    \/ \E c \in Calls :
          \/ \E e \in Emails : CheckPassword(c, e)
          \/ \E s \in Sessions : OpenSession(c, s) \/ Validate(c, s)
          \/ Identify(c) \/ Extend(c) \/ Done(c)
          \/ \E u \in Users, op \in {"update", "profile"} : OpenForm(c, u, op)
          \/ BeginUpdate(c)
          \/ \E W \in SUBSET {"email", "password", "active", "roles"},
                e \in Emails \cup {NoOne} : FinishUpdate(c, W, e)
          \/ CheckProfile(c) \/ WriteProfile(c)
          \/ \E u \in Users, l \in Links, e \in Emails \cup {NoOne} : Request(c, u, l, e)
          \/ \E l, m \in Links : Approve(c, l, m)
          \/ CommitLink(c)
          \/ \E l \in Links, p \in {"reset", "verify"} : OpenLink(c, l, p)
          \/ Confirm(c) \/ Onboard(c) \/ Stop(c)
    \/ \E u \in Users : Reissue(u) \/ Delete(u)
    \/ \E s \in Sessions : RevokeLate(s) \/ Logout(s) \/ IdleDeadline(s) \/ LastDeadline(s)
    \/ \E l \in Links : LinkExpires(l)

Spec == Init /\ [][Next]_vars

-----------------------------------------------------------------------------
(* Properties.                                                              *)

\* Type invariant: rows have their columns, an unset link has none, and a call
\* that holds a lock is past its first step.
TypeOK ==
    /\ acct \in [Users -> [email : Emails, pw : 0 .. MaxEdits, era : 0 .. MaxEdits,
                           version : 0 .. MaxEdits, edits : 0 .. MaxEdits,
                           active : BOOLEAN, deleted : BOOLEAN, initial : BOOLEAN]]
    /\ holder \in [Users -> Calls \cup {NoOne}]
    /\ session \in [Sessions -> {NoSession} \cup
          [st : {"live", "revoked"}, user : Users, sub : Emails, era : 0 .. MaxEdits,
           setup : BOOLEAN, idle : BOOLEAN, over : BOOLEAN]]
    /\ link \in [Links -> {Unsent, Orphan} \cup
          [st : {"usable", "consumed", "revoked"}, purpose : {"reset", "approve", "verify"},
           user : Users, fp : Emails \X (0 .. MaxEdits), era : 0 .. MaxEdits,
           new : Emails \cup {NoOne}, late : BOOLEAN]]
    /\ \A u \in Users : holder[u] # NoOne => call[holder[u]].at \in {"open", "write", "sent", "confirm"}

\* A live session was opened with the credentials the account has now, and is limited
\* to the first password exactly while that is still due: the login keeps the row lock
\* until its session is committed, and every credential change revokes the sessions
\* in its own transaction (authenticate_user, update_user, _finish, complete, resend).
NoStaleSession ==
    \A s \in Sessions : Live(s) =>
        /\ session[s].era = acct[session[s].user].era
        /\ session[s].setup = acct[session[s].user].initial

\* A usable link was issued under the account's present credentials.  The fingerprint
\* alone would not do: an address changed and changed back, or a suspension lifted
\* again, brings the old fingerprint back (revoke_actions).
NoStaleLink ==
    \A l \in Links : Usable(l) => link[l].era = acct[link[l].user].era

\* The link that is about to verify a new address was preceded by the approval of the
\* old mailbox for the same address under the same credentials, and that approval
\* cannot be used again (approve_email_change).
VerifyFollowsApproval ==
    \A l \in Links : Usable(l) /\ link[l].purpose = "verify" =>
        \E k \in Links : /\ link[k].st = "consumed" /\ link[k].purpose = "approve"
                         /\ link[k].user = link[l].user /\ link[k].new = link[l].new
                         /\ link[k].era = link[l].era

\* A change made through a link uses it up: two calls that hold the same link, or two
\* links of one user, never both change the account (_valid_action, _finish).
LinkChangesOnce ==
    [][\A c \in Calls : (call[c].op = "confirm" /\ acct' # acct /\ call'[c] = Idle) =>
          /\ Usable(call[c].link) /\ link[call[c].link].era = acct[call[c].user].era
          /\ \A k \in Links : link'[k].st = "usable" => link'[k].user # call[c].user]_vars

\* What has ended stays ended: no late write of another call revives a revoked session
\* or a used or revoked link (extend, revoke, revoke_actions).
EndedStaysEnded ==
    [][/\ \A s \in Sessions : session[s].st = "revoked" => session'[s].st = "revoked"
       /\ \A l \in Links : link[l].st \in {"consumed", "revoked"} => link'[l].st = link[l].st]_vars

\* A request that arrives after a credential change is never admitted with a session
\* opened before it, and a deleted or suspended user is not admitted at all
\* (validate_session, get_authenticated_user).
AdmittedKnowsTheLogin ==
    [][\A c \in Calls : (call[c].at # "in" /\ call'[c].at = "in") =>
          /\ session[call[c].session].era = call[c].born
          /\ Present(call[c].user)]_vars

\* Every row has its type; and no session and no link outlives the login it was
\* issued for, however often that changes and changes back.
NothingOutlivesTheLogin ==
    TypeOK /\ NoStaleSession /\ NoStaleLink /\ VerifyFollowsApproval

\* What a step may not do: change an account twice through one link, revive what has
\* ended, admit a request under a login that has changed.
LoginSteps == LinkChangesOnce /\ EndedStaysEnded /\ AdmittedKnowsTheLogin
=============================================================================
