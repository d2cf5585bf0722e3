---------------------------- MODULE SecondFactor ----------------------------
(***************************************************************************)
(* The second factor of a login identity: one-time codes (TOTP), passkeys, *)
(* recovery codes, the short-lived flows in which they are checked, and    *)
(* the recovery an operator approves.                                      *)
(*                                                                         *)
(*   app/services/mfa.py        every operation                            *)
(*   app/repositories/mfa.py    the user lock and invalidate               *)
(*   app/core/mfa.py            fingerprint, require_verified, _recent     *)
(*   app/routers/mfa.py         limited context, approval by an operator   *)
(*                                                                         *)
(* A flow handler locks the users row, validates the flow (Enter) and      *)
(* keeps the lock until it commits, across the transactions in which the   *)
(* attempt budget is charged.  A handler with a session is admitted first  *)
(* (Admit) and checks again under the lock.  MFA_REQUIRED has its default, *)
(* true.  Identity models the passwords: NewCredentials is any of its      *)
(* changes, and a login or recovery here has passed the password check.    *)
(* Attempt budgets, key configuration and bad input only refuse.           *)
(***************************************************************************)
EXTENDS Naturals, FiniteSets

CONSTANTS
    Users,
    Calls,          \* concurrent HTTP requests
    Flows,          \* identities of mfa_flows
    Sessions,       \* identities of user_sessions
    Factors,        \* identities of mfa_factors
    Recoveries,     \* identities of mfa_recovery_requests
    Slots,          \* the recovery codes of one sheet (ten in the code)
    NoOne,
    MaxAttempts,    \* wrong codes a flow survives (five in the code)
    MaxFactors,     \* factors a user may have (ten in the code)
    MaxChanges,     \* bound on credential changes and invalidations of a user
    MaxSheets,      \* bound on the sheets of recovery codes a user receives
    MaxTime         \* bound on the thirty-second steps of TOTP

ASSUME NamesAssumption == NoOne \notin Sessions \cup Calls \cup Factors
ASSUME BoundsAssumption ==
    /\ MaxAttempts \in Nat \ {0} /\ MaxFactors \in Nat \ {0}
    /\ MaxChanges \in Nat /\ MaxSheets \in Nat /\ MaxTime \in Nat

VARIABLES
    ident,      \* user -> mfa_security_version, credentials, recovery pending
    holder,     \* user -> the call that holds the row lock, or NoOne
    factor,     \* factor -> its mfa_factors row
    sheet,      \* user -> number of the newest sheet of recovery codes
    codes,      \* user -> the unused recovery codes, <<sheet, slot>>
    flow,       \* flow -> its mfa_flows row
    session,    \* session -> its user_sessions row
    recovery,   \* recovery -> its mfa_recovery_requests row
    accepted,   \* history: the proofs accepted, and in which flow
    clock,      \* the current TOTP step
    call        \* call -> the handler it runs

vars == <<ident, holder, factor, sheet, codes, flow, session, recovery, accepted, clock, call>>
records == <<ident, factor, sheet, codes, session, recovery, accepted>>

Idle == [at |-> "idle"]
Unused == [st |-> "none"]
Spent == [st |-> "spent"]           \* a consumed flow or request: its payload is cleared
Revoked == [st |-> "revoked"]       \* a removed factor: its secret is gone

Init ==
    /\ ident = [u \in Users |-> [ver |-> 0, era |-> 0, pending |-> FALSE]]
    /\ holder = [u \in Users |-> NoOne]
    /\ factor = [p \in Factors |-> Unused]
    /\ sheet = [u \in Users |-> 0]
    /\ codes = [u \in Users |-> {}]
    /\ flow = [f \in Flows |-> Unused]
    /\ session = [s \in Sessions |-> Unused]
    /\ recovery = [r \in Recoveries |-> Unused]
    /\ accepted = {}
    /\ clock = 1
    /\ call = [c \in Calls |-> Idle]

-----------------------------------------------------------------------------
(* What the rows say.                                                       *)

Active(u) == {p \in Factors : factor[p].st = "active" /\ factor[p].user = u}
Live(s) == session[s].st = "live"
Fingerprint(u) == <<ident[u].ver, ident[u].era>>

\* require_verified, require_recent.
Verified(s) == session[s].ver = ident[session[s].user].ver /\ ~ident[session[s].user].pending
Recent(s) == session[s].recent

\* The flow's own session has not ended and still vouches for the user.
SessionStands(f) ==
    LET s == flow[f].session
    IN  s # NoOne => /\ Live(s) /\ Verified(s)
                     /\ flow[f].purpose = "manage" => Recent(s)

\* flow()
ValidFlow(f) ==
    LET u == flow[f].user
    IN  /\ flow[f].attempts < MaxAttempts
        /\ flow[f].fp = Fingerprint(u)
        /\ ident[u].pending => flow[f].purpose \in {"recovery", "finish"}
        /\ SessionStands(f)

Free(u) == holder[u] = NoOne
Release(c) ==
    /\ holder' = [u \in Users |-> IF holder[u] = c THEN NoOne ELSE holder[u]]
    /\ call' = [call EXCEPT ![c] = Idle]

\* start
Open(f, u, purpose, s) ==
    /\ flow[f] = Unused
    /\ flow' = [flow EXCEPT ![f] =
          [st |-> "open", user |-> u, purpose |-> purpose, fp |-> Fingerprint(u),
           session |-> s, ceremony |-> "none", factor |-> NoOne, attempts |-> 0]]

\* replace_codes
NewSheet(u) ==
    /\ sheet[u] < MaxSheets
    /\ sheet' = [sheet EXCEPT ![u] = @ + 1]
    /\ codes' = [codes EXCEPT ![u] = {sheet[u] + 1} \X Slots]

\* invalidate
Invalidate(u) ==
    /\ ident[u].ver + ident[u].era < MaxChanges
    /\ session' = [s \in Sessions |-> IF Live(s) /\ session[s].user = u
                                      THEN [session[s] EXCEPT !.st = "revoked"] ELSE session[s]]
    /\ flow' = [f \in Flows |-> IF flow[f].st = "open" /\ flow[f].user = u
                                THEN Spent ELSE flow[f]]

-----------------------------------------------------------------------------
(* Flows.                                                                   *)

\* login: no flow while a recovery is pending.
StartLogin(u, f) ==
    /\ Free(u) /\ ~ident[u].pending
    /\ Open(f, u, IF Active(u) = {} THEN "setup" ELSE "login", NoOne)
    /\ UNCHANGED <<records, holder, clock, call>>

\* limited_context: lock, refresh, validate.
Enter(c, f) ==
    /\ call[c] = Idle /\ flow[f].st = "open" /\ ValidFlow(f)
    /\ Free(flow[f].user)
    /\ holder' = [holder EXCEPT ![flow[f].user] = c]
    /\ call' = [call EXCEPT ![c] = [at |-> "flow", flow |-> f, user |-> flow[f].user,
                                    row |-> flow[f]]]
    /\ UNCHANGED <<records, flow, clock>>

InFlow(c) == call[c].at = "flow"
Purpose(c) == call[c].row.purpose          \* the handler works on the row it validated
Store(c, r) == flow' = [flow EXCEPT ![call[c].flow] = r]

\* require_enrollment: the first factor through a setup or recovery flow, more only
\* through a manage flow.
MayEnrol(c) ==
    /\ Purpose(c) \in {"setup", "manage", "recovery"}
    /\ Cardinality(Active(call[c].user)) < MaxFactors
    /\ Purpose(c) \in {"setup", "recovery"} => Active(call[c].user) = {}

\* begin_totp, and passkey_options for a new passkey: the new secret or challenge
\* replaces what the flow held.
BeginEnrolment(c, kind, p) ==
    /\ InFlow(c) /\ MayEnrol(c)
    /\ factor[p] = Unused /\ \A f \in Flows : flow[f].st = "open" => flow[f].factor # p
    /\ Store(c, [call[c].row EXCEPT !.ceremony = kind, !.factor = p])
    /\ Release(c)
    /\ UNCHANGED <<records, clock>>

\* passkey_options for a login.
AskPasskey(c) ==
    /\ InFlow(c) /\ Purpose(c) \in {"login", "reauth"}
    /\ \E p \in Active(call[c].user) : factor[p].kind = "passkey"
    /\ Store(c, [call[c].row EXCEPT !.ceremony = "authenticate"])
    /\ Release(c)
    /\ UNCHANGED <<records, clock>>

Accept(c, proof) == accepted' = accepted \cup {[proof |-> proof, flow |-> call[c].flow]}
Window == {t \in 1 .. MaxTime : t <= clock + 1 /\ clock <= t + 1}

\* verify_code and verify_passkey in an enrolment, with enrolled.
Enrol(c, t) ==
    /\ InFlow(c) /\ MayEnrol(c)
    /\ LET row == call[c].row
           u == call[c].user
           p == row.factor
       IN  /\ row.ceremony \in {"totp", "passkey"}
           /\ IF row.ceremony = "totp" THEN t \in Window /\ Accept(c, <<"totp", p, t>>)
                                           ELSE t = 0 /\ UNCHANGED accepted
           /\ factor' = [factor EXCEPT ![p] =
                 [st |-> "active", user |-> u, kind |-> row.ceremony, last |-> t]]
           /\ IF Purpose(c) = "manage"
              THEN /\ Store(c, Spent)
                   /\ UNCHANGED <<sheet, codes>>
              ELSE /\ Store(c, [row EXCEPT !.purpose = "finish", !.ceremony = "none"])
                   /\ NewSheet(u)
    /\ Release(c)
    /\ UNCHANGED <<ident, session, recovery, clock>>

\* verified: the flow is spent and the session opened or confirmed in one commit.
Conclude(c, s) ==
    LET row == call[c].row
    IN  /\ Store(c, Spent)
        /\ IF Purpose(c) = "reauth"
           THEN /\ s = row.session
                /\ session' = [session EXCEPT ![s].recent = TRUE]
           ELSE /\ session[s] = Unused
                /\ session' = [session EXCEPT ![s] =
                      [st |-> "live", user |-> row.user, ver |-> row.fp[1],
                       era |-> row.fp[2], recent |-> TRUE]]
        /\ Release(c)

\* totp_step: a step counts once per factor.
NewerOrSame(p, t) == t >= factor[p].last    \* mutation: off by one
Newer(p, t) == t > factor[p].last
ByTotp(c, p, t, s) ==
    /\ InFlow(c) /\ Purpose(c) \in {"login", "reauth"}
    /\ p \in Active(call[c].user) /\ factor[p].kind = "totp"
    /\ t \in Window
    /\ Newer(p, t)
    /\ factor' = [factor EXCEPT ![p].last = t]
    /\ Accept(c, <<"totp", p, t>>)
    /\ Conclude(c, s)
    /\ UNCHANGED <<ident, sheet, codes, recovery, clock>>

ByPasskey(c, p, s) ==
    /\ InFlow(c) /\ Purpose(c) \in {"login", "reauth"}
    /\ call[c].row.ceremony = "authenticate"
    /\ p \in Active(call[c].user) /\ factor[p].kind = "passkey"
    /\ Conclude(c, s)
    /\ UNCHANGED <<ident, factor, sheet, codes, recovery, accepted, clock>>

ByRecoveryCode(c, k, s) ==
    /\ InFlow(c) /\ Purpose(c) = "login"
    /\ k \in codes[call[c].user]
    /\ codes' = [codes EXCEPT ![call[c].user] = @ \ {k}]
    /\ Accept(c, <<"code", call[c].user, k>>)
    /\ Conclude(c, s)
    /\ UNCHANGED <<ident, factor, sheet, recovery, clock>>

\* finish: the sheet has been kept, the account is in use again.
Finish(c, s) ==
    /\ InFlow(c) /\ Purpose(c) = "finish" /\ Active(call[c].user) # {}
    /\ ident' = [ident EXCEPT ![call[c].user].pending = FALSE]
    /\ Conclude(c, s)
    /\ UNCHANGED <<factor, sheet, codes, recovery, accepted, clock>>

\* fail
Fail(c) ==
    /\ InFlow(c)
    /\ Store(c, [call[c].row EXCEPT !.attempts = @ + 1])
    /\ Release(c)
    /\ UNCHANGED <<records, clock>>

\* cancel, also by logout; a flow whose ten minutes are over is as good as cancelled.
Cancel(f) ==
    /\ flow[f].st = "open" /\ Free(flow[f].user)
    /\ flow' = [flow EXCEPT ![f] = Spent]
    /\ UNCHANGED <<records, holder, clock, call>>

-----------------------------------------------------------------------------
(* Requests with a session.                                                 *)

\* get_current_user: no lock is held after it.
Admit(c, s) ==
    /\ call[c] = Idle /\ Live(s) /\ Verified(s)
    /\ call' = [call EXCEPT ![c] = [at |-> "in", session |-> s, user |-> session[s].user]]
    /\ UNCHANGED <<records, holder, flow, clock>>

\* Every handler below locks the user, reads the session again and looks once more.
TrustAdmission(c) == call[c].at = "in"      \* mutation: the admission is trusted
StillStands(c) == call[c].at = "in" /\ Live(call[c].session) /\ Verified(call[c].session)

InSession(c) == StillStands(c) /\ Free(call[c].user)

\* begin_management: adding a factor needs a recent proof, confirming one's identity
\* the password.
Manage(c, f) ==
    /\ InSession(c) /\ Recent(call[c].session)
    /\ Open(f, call[c].user, "manage", call[c].session)
    /\ call' = [call EXCEPT ![c] = Idle]
    /\ UNCHANGED <<records, holder, clock>>
Reauthenticate(c, f) ==
    /\ InSession(c)
    /\ Open(f, call[c].user, "reauth", call[c].session)
    /\ call' = [call EXCEPT ![c] = Idle]
    /\ UNCHANGED <<records, holder, clock>>

\* remove
AnotherRemains(u) == Cardinality(Active(u)) > 1
Remove(c, p) ==
    /\ InSession(c) /\ Recent(call[c].session)
    /\ LET u == call[c].user
       IN  /\ p \in Active(u) /\ AnotherRemains(u)
           /\ factor' = [factor EXCEPT ![p] = Revoked]
           /\ ident' = [ident EXCEPT ![u].ver = @ + 1]
           /\ Invalidate(u)
    /\ call' = [call EXCEPT ![c] = Idle]
    /\ UNCHANGED <<holder, sheet, codes, recovery, accepted, clock>>

\* regenerate_codes
Regenerate(c) ==
    /\ InSession(c) /\ Recent(call[c].session)
    /\ NewSheet(call[c].user)
    /\ call' = [call EXCEPT ![c] = Idle]
    /\ UNCHANGED <<ident, holder, factor, flow, session, recovery, accepted, clock>>

-----------------------------------------------------------------------------
(* Recovery by an operator.                                                 *)

\* approve_recovery: the mail leaves before the commit; if it is refused nothing
\* happened, if the process dies after it the link leads nowhere.
ApproveRecovery(u, r) ==
    /\ Free(u) /\ recovery[r] = Unused
    /\ Invalidate(u)
    /\ ident' = [ident EXCEPT ![u].ver = @ + 1, ![u].pending = TRUE]
    /\ factor' = [p \in Factors |-> IF p \in Active(u) THEN Revoked ELSE factor[p]]
    /\ codes' = [codes EXCEPT ![u] = {}]
    /\ recovery' = [recovery EXCEPT ![r] =
          [st |-> "open", user |-> u, ver |-> ident[u].ver + 1]]
    /\ UNCHANGED <<holder, sheet, accepted, clock, call>>

\* recover
FromNewestApproval(r) == recovery[r].ver = ident[recovery[r].user].ver
Recover(r, f) ==
    /\ recovery[r].st = "open"
    /\ LET u == recovery[r].user
       IN  /\ Free(u) /\ ident[u].pending /\ FromNewestApproval(r)
           /\ Open(f, u, "recovery", NoOne)
    /\ recovery' = [recovery EXCEPT ![r] = Spent]
    /\ UNCHANGED <<ident, holder, factor, sheet, codes, session, accepted, clock, call>>

-----------------------------------------------------------------------------
(* Other components, time, failure, and the specification.                  *)

\* A password or address change of Identity revokes the sessions and moves the
\* fingerprint; flows are left to it.
NewCredentials(u) ==
    /\ Free(u) /\ ident[u].ver + ident[u].era < MaxChanges
    /\ ident' = [ident EXCEPT ![u].era = @ + 1]
    /\ session' = [s \in Sessions |-> IF Live(s) /\ session[s].user = u
                                      THEN [session[s] EXCEPT !.st = "revoked"] ELSE session[s]]
    /\ UNCHANGED <<holder, factor, sheet, codes, flow, recovery, accepted, clock, call>>

\* Logout and the deadlines of a session take no user lock.
EndSession(s) ==
    /\ Live(s)
    /\ session' = [session EXCEPT ![s].st = "revoked"]
    /\ UNCHANGED <<ident, holder, factor, sheet, codes, flow, recovery, accepted, clock, call>>

Tick ==
    /\ clock < MaxTime
    /\ clock' = clock + 1
    /\ UNCHANGED <<records, holder, flow, call>>
Stale(s) ==
    /\ Live(s) /\ Recent(s)
    /\ session' = [session EXCEPT ![s].recent = FALSE]
    /\ UNCHANGED <<ident, holder, factor, sheet, codes, flow, recovery, accepted, clock, call>>
RecoveryExpires(r) ==
    /\ recovery[r].st = "open"
    /\ recovery' = [recovery EXCEPT ![r] = Spent]
    /\ UNCHANGED <<ident, holder, factor, sheet, codes, flow, session, accepted, clock, call>>

\* A refused or failed handler rolls back; so does one whose process dies.
Stop(c) ==
    /\ call[c] # Idle
    /\ Release(c)
    /\ UNCHANGED <<records, flow, clock>>

Next ==
    \/ \E u \in Users, f \in Flows : StartLogin(u, f)
    \/ \E c \in Calls :
          \/ \E f \in Flows : Enter(c, f) \/ Manage(c, f) \/ Reauthenticate(c, f)
          \/ \E k \in {"totp", "passkey"}, p \in Factors : BeginEnrolment(c, k, p)
          \/ AskPasskey(c) \/ Fail(c) \/ Regenerate(c) \/ Stop(c)
          \/ \E t \in 0 .. MaxTime : Enrol(c, t)
          \/ \E s \in Sessions :
                \/ Admit(c, s) \/ Finish(c, s)
                \/ \E p \in Factors, t \in 1 .. MaxTime : ByTotp(c, p, t, s)
                \/ \E p \in Factors : ByPasskey(c, p, s)
                \/ \E k \in (1 .. MaxSheets) \X Slots : ByRecoveryCode(c, k, s)
          \/ \E p \in Factors : Remove(c, p)
    \/ \E f \in Flows : Cancel(f)
    \/ \E u \in Users, r \in Recoveries : ApproveRecovery(u, r)
    \/ \E r \in Recoveries, f \in Flows : Recover(r, f)
    \/ \E r \in Recoveries : RecoveryExpires(r)
    \/ \E u \in Users : NewCredentials(u)
    \/ \E s \in Sessions : EndSession(s) \/ Stale(s)
    \/ Tick

Spec == Init /\ [][Next]_vars

-----------------------------------------------------------------------------
(* Properties.                                                              *)

\* Type invariant: rows have their columns; codes belong to the newest sheet; a call in
\* a flow holds its user's lock.
TypeOK ==
    /\ ident \in [Users -> [ver : 0 .. MaxChanges, era : 0 .. MaxChanges, pending : BOOLEAN]]
    /\ factor \in [Factors -> {Unused, Revoked} \cup [st : {"active"}, user : Users,
                                             kind : {"totp", "passkey"}, last : 0 .. MaxTime]]
    /\ \A u \in Users : codes[u] \subseteq {sheet[u]} \X Slots
    /\ \A f \in Flows :
          \/ flow[f] \in {Unused, Spent}
          \/ /\ flow[f].st = "open" /\ flow[f].attempts \in 0 .. MaxAttempts
             /\ flow[f].purpose \in {"login", "setup", "manage", "reauth", "recovery", "finish"}
    /\ session \in [Sessions -> {Unused} \cup [st : {"live", "revoked"}, user : Users,
                      ver : 0 .. MaxChanges, era : 0 .. MaxChanges, recent : BOOLEAN]]
    /\ \A c \in Calls : InFlow(c) <=> \E u \in Users : holder[u] = c

\* A live session stands for the present credentials and factors, its user still has a
\* factor to confirm with, and no recovery is pending: a verification that was under
\* way when an operator approved a recovery, a factor was removed or a password changed
\* opens no session (flow, verified, invalidate).
LiveSessionIsCurrent ==
    \A s \in Sessions : Live(s) =>
        LET u == session[s].user
        IN  /\ session[s].ver = ident[u].ver /\ session[s].era = ident[u].era
            /\ Active(u) # {} /\ ~ident[u].pending

\* A one-time code, a recovery code and a flow prove an identity once, also when two
\* calls present them at the same time (verify_code: the user lock, last_step, used_at).
OneProofOneUse ==
    \A x, y \in accepted : (x.proof = y.proof \/ x.flow = y.flow) => x = y

\* Of the flows that sign in, each opens at most one session, in the step that spends it.
SessionSpendsFlow ==
    [][\A s \in Sessions : (session[s] = Unused /\ session'[s] # Unused) =>
          \E f \in Flows : /\ flow[f].st = "open" /\ flow'[f].st = "spent"
                           /\ flow[f].purpose \in {"login", "finish"}]_vars

\* A user who has a factor keeps one, unless an operator approved a recovery; two
\* removals at the same time do not take the last two (remove).
LastFactorStays ==
    [][\A u \in Users : (Active(u) # {} /\ Active(u)' = {}) => ident[u]'.pending]_vars

\* The first factor is added in a setup or recovery flow to a user who still has none, a
\* further one in a managing flow to a user who still has one.  Two first enrolments,
\* begun while there was no factor, never both succeed (require_enrollment).
FactorIsEntitled ==
    [][\A p \in Factors : (factor[p] = Unused /\ factor'[p] # Unused) =>
          \E f \in Flows :
             /\ flow[f].st = "open" /\ flow[f].factor = p
             /\ IF flow[f].purpose = "manage" THEN Active(factor'[p].user) # {}
                ELSE Active(factor'[p].user) = {}]_vars

\* What needs a recent session is done for one that is live and verified at that moment,
\* not only when the request was admitted: a request that waited for the lock while
\* its session was revoked changes nothing (remove, regenerate_codes, begin_management).
WaitedRequestIsRechecked ==
    [][\A c \in Calls :
          (/\ call[c].at = "in" /\ call'[c] = Idle
           /\ <<factor, codes, flow>>' # <<factor, codes, flow>>) =>
          Live(call[c].session) /\ Verified(call[c].session)]_vars

\* An approval that a later one replaced opens no enrolment (recover, approve_recovery).
NewestApprovalCounts ==
    [][\A r \in Recoveries : (recovery[r].st = "open" /\ recovery'[r] = Spent /\ flow' # flow) =>
          \A q \in Recoveries : recovery[q].st = "open" /\ recovery[q].user = recovery[r].user =>
                                    recovery[q].ver <= recovery[r].ver]_vars

\* Every row has its type; a live session stands for the present factors and
\* credentials; and a proof proves an identity once.
FactorsStandBehindSessions == TypeOK /\ LiveSessionIsCurrent /\ OneProofOneUse

\* What a step may not do: open two sessions with one flow, take the last factor, enrol
\* without title, act on a session that ended while it waited, or enrol from an
\* approval that was replaced.
FactorSteps ==
    /\ SessionSpendsFlow /\ LastFactorStays /\ FactorIsEntitled
    /\ WaitedRequestIsRechecked /\ NewestApprovalCounts
=============================================================================
