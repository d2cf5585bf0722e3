---------------------------- MODULE ApprovalMail ----------------------------
(***************************************************************************)
(* The approval-mail pipeline: a notification saved by an approval is      *)
(* mailed to its recipient at most once.                                   *)
(*                                                                         *)
(*   app/services/notification_email_preferences.py  the recipient's switch*)
(*   app/services/notification_email_delivery.py     ledger and worker     *)
(*   app/services/notification_email_transport.py    sending child process *)
(*                                                                         *)
(* Every database transaction is one action.  The process boundaries are   *)
(* kept: a worker (run_once) claims a row, opens a guard transaction that  *)
(* holds the recipient's qualifications under shared locks, marks the row  *)
(* `sending` through a second connection, lets a child process talk to the *)
(* mail provider, and writes the outcome.  A worker may be killed, or lose *)
(* its guard or gate connection, between any two of these steps; the child *)
(* outlives a killed worker.                                               *)
(*                                                                         *)
(* Clocks are three sets (leases that have run out, retries that are due,  *)
(* deliveries past their 24 hours): any order the real clock can produce   *)
(* is an order of the actions that add to them.                            *)
(***************************************************************************)
EXTENDS Naturals, Sequences, FiniteSets

CONSTANTS
    Workers,            \* concurrent run_once callers: cron, CLI, request hooks
    Notifications,      \* notifications an approval may save
    Recipients,         \* users who can be notified
    To,                 \* the recipient of each notification
    Addresses,          \* e-mail addresses a user may have
    NoOne,              \* null: no worker, no notification, no digest
    MaxTokens,          \* bound on claims (uuid4 claim tokens drawn)
    MaxPrefVersion,     \* bound on preference updates
    MaxFaults           \* bound on crashes, lost connections and long stalls

ASSUME NullAssumption ==
    NoOne \notin Workers \cup Notifications \cup Addresses
ASSUME ToAssumption == To \in [Notifications -> Recipients]
ASSUME BoundAssumption ==
    MaxTokens \in Nat /\ MaxPrefVersion \in Nat /\ MaxFaults \in Nat
ASSUME AddressAssumption == Addresses # {}

VARIABLES
    pref,       \* recipient -> row of notification_email_preferences (version 0: none)
    address,    \* recipient -> users.email
    chosen,     \* recipient -> the <<version, address>> pairs ever switched on
    qualified,  \* recipient -> permissions, membership, active account, publication
    state,      \* notification -> notification_email_deliveries.state
    count,      \* notification -> attempt_count
    token,      \* notification -> claim_token
    bound,      \* notification -> <<preference_version, email_digest>> of the row
    leaseOver,  \* notifications whose lease_until <= now
    due,        \* notifications whose next_attempt_at <= now
    expired,    \* notifications whose expires_at <= now
    gate,       \* the session holding the worker advisory lock
    guard,      \* the workers whose guard transaction is open
    pc,         \* worker -> where run_once stands
    tok,        \* worker -> the token of its claimed row
    result,     \* worker -> the MailOutcome it is about to write
    issued,     \* claim tokens drawn so far: 1..issued
    of,         \* token -> the notification claimed with it
    child,      \* token -> sending process, or the outcome it left in the pipe
    wire,       \* token -> what the provider made of the message
    started, completed, resolution,  \* notification_email_attempts, by record_kind
    faults

prefVars   == <<pref, address, chosen, qualified>>
rowVars    == <<state, count, token, bound>>
clockVars  == <<leaseOver, due, expired>>
workerVars == <<gate, guard, pc, tok, result>>
sendVars   == <<issued, of, child, wire>>
logVars    == <<started, completed, resolution>>
vars == <<prefVars, rowVars, clockVars, workerVars, sendVars, logVars, faults>>

Tokens   == 1..MaxTokens
Outcomes == {"accepted", "temporary", "failed", "suppressed", "unknown"}
States   == {"absent", "pending", "leased", "sending", "retry_wait",
             "accepted", "unknown", "failed", "suppressed"}
Phases   == {"idle", "gated", "claimed", "qualified", "sending", "finishing"}
RetryDelays == <<60, 300, 1800>>

Init ==
    /\ pref = [u \in Recipients |-> [version |-> 0, enabled |-> FALSE, digest |-> NoOne]]
    /\ address \in [Recipients -> Addresses]
    /\ chosen = [u \in Recipients |-> {}]
    /\ qualified = [u \in Recipients |-> TRUE]
    /\ state = [n \in Notifications |-> "absent"]
    /\ count = [n \in Notifications |-> 0]
    /\ token = [n \in Notifications |-> 0]
    /\ bound = [n \in Notifications |-> NoOne]
    /\ leaseOver = {} /\ due = {} /\ expired = {}
    /\ gate = NoOne /\ guard = {}
    /\ pc = [w \in Workers |-> "idle"]
    /\ tok = [w \in Workers |-> 0]
    /\ result = [w \in Workers |-> "none"]
    /\ issued = 0
    /\ of = [t \in Tokens |-> NoOne]
    /\ child = [t \in Tokens |-> "none"]
    /\ wire = [t \in Tokens |-> "none"]
    /\ started = {}
    /\ completed = [t \in Tokens |-> "none"]
    /\ resolution = [t \in Tokens |-> "none"]
    /\ faults = 0

-----------------------------------------------------------------------------
(* The recipient's side.  Each of these writers waits for the shared locks  *)
(* of the guard transactions it conflicts with.                             *)

\* Workers whose open guard transaction protects recipient u.
GuardsIgnored(u) == {}      \* mutation: the preference row is not locked
GuardsOf(u) == {w \in guard : tok[w] \in Tokens /\ of[tok[w]] \in Notifications
                                 /\ To[of[tok[w]]] = u}

\* PATCH /notification-preferences with the current version: the row is locked
\* FOR UPDATE, so the update waits for a guard that holds it FOR SHARE.
UpdatePreference(u, on) ==
    /\ GuardsOf(u) = {}
    /\ pref[u].version < MaxPrefVersion
    /\ pref' = [pref EXCEPT ![u] = [version |-> pref[u].version + 1, enabled |-> on,
                                    digest |-> IF on THEN address[u] ELSE NoOne]]
    /\ chosen' = IF on THEN [chosen EXCEPT ![u] =
                               @ \cup {<<pref[u].version + 1, address[u]>>}]
                 ELSE chosen
    /\ UNCHANGED <<address, qualified, rowVars, clockVars, workerVars, sendVars,
                   logVars, faults>>

\* An address change (user.py, account_action.py) takes the exclusive boundary
\* lock, so it waits for every guard, and pauses the selection in the same
\* transaction.
ChangeAddress(u, a) ==
    /\ guard = {}
    /\ a # address[u]
    /\ pref[u].enabled => pref[u].version < MaxPrefVersion
    /\ address' = [address EXCEPT ![u] = a]
    /\ pref' = IF pref[u].enabled
               THEN [pref EXCEPT ![u] = [version |-> @.version + 1, enabled |-> FALSE,
                                         digest |-> @.digest]]
               ELSE pref
    /\ UNCHANGED <<chosen, qualified, rowVars, clockVars, workerVars, sendVars,
                   logVars, faults>>

\* A permission, membership, account or publication change: each writer needs a
\* lock the guard of that recipient holds (row FOR SHARE or boundary lock).
ChangeQualification(u) ==
    /\ GuardsOf(u) = {}
    /\ qualified' = [qualified EXCEPT ![u] = ~@]
    /\ UNCHANGED <<pref, address, chosen, rowVars, clockVars, workerVars, sendVars,
                   logVars, faults>>

\* eligible_notification plus the worker's comparison with the ledger row.
Stands(n) ==
    LET u == To[n] IN
    /\ pref[u].enabled
    /\ pref[u].digest = address[u]
    /\ <<pref[u].version, pref[u].digest>> = bound[n]
    /\ qualified[u]

\* enqueue_notification_email runs inside the approval's transaction.  That
\* transaction may have read the preference before a later update committed, so
\* the row may carry any selection that was once in force.
Enqueue(n) ==
    /\ state[n] = "absent"
    /\ \E c \in chosen[To[n]] :
          bound' = [bound EXCEPT ![n] = c]
    /\ state' = [state EXCEPT ![n] = "pending"]
    /\ UNCHANGED <<count, token, prefVars, clockVars, workerVars, sendVars, logVars,
                   faults>>

-----------------------------------------------------------------------------
(* The worker: run_once.                                                    *)

Release(w) ==
    /\ pc' = [pc EXCEPT ![w] = "idle"]
    /\ tok' = [tok EXCEPT ![w] = 0]
    /\ result' = [result EXCEPT ![w] = "none"]
    /\ guard' = guard \ {w}
    /\ gate' = IF gate = w THEN NoOne ELSE gate

TakeGate(w) ==
    /\ pc[w] = "idle"
    /\ gate = NoOne
    /\ gate' = w
    /\ pc' = [pc EXCEPT ![w] = "gated"]
    /\ UNCHANGED <<guard, tok, result, prefVars, rowVars, clockVars, sendVars,
                   logVars, faults>>

\* recover_and_claim, first half: what lapsed leases become.
Lapsed == {n \in leaseOver : state[n] \in {"leased", "sending"}}

\* mutations: a started delivery is queued again; a lapsed claim is left alone
RecoveredAsPending ==
    [n \in Notifications |-> IF n \in Lapsed THEN "pending" ELSE state[n]]
RecoveredSendingOnly ==
    [n \in Notifications |->
        IF n \in Lapsed /\ state[n] = "sending" THEN "unknown" ELSE state[n]]
Recovered ==
    [n \in Notifications |->
        IF n \notin Lapsed THEN state[n]
        ELSE IF state[n] = "sending" THEN "unknown" ELSE "pending"]

RecoveredToken ==
    [n \in Notifications |->
        IF n \in Lapsed /\ state[n] = "leased" THEN 0 ELSE token[n]]

RecordNoRecovery == UNCHANGED completed     \* mutation: no record on recovery
RecordRecovery ==
    completed' = [t \in Tokens |->
        IF /\ completed[t] = "none"
           /\ \E n \in Lapsed : state[n] = "sending" /\ token[n] = t
        THEN "unknown" ELSE completed[t]]

Ready == {n \in Notifications : \/ Recovered[n] = "pending"
                                \/ Recovered[n] = "retry_wait" /\ n \in due}

\* recover_and_claim finds a row: it is leased with a fresh token.
ClaimNext(w, n) ==
    /\ pc[w] = "gated"
    /\ n \in Ready
    /\ issued < MaxTokens
    /\ issued' = issued + 1
    /\ of' = [of EXCEPT ![issued + 1] = n]
    /\ state' = [Recovered EXCEPT ![n] = "leased"]
    /\ token' = [RecoveredToken EXCEPT ![n] = issued + 1]
    /\ leaseOver' = leaseOver \ {n}
    /\ RecordRecovery
    /\ pc' = [pc EXCEPT ![w] = "claimed"]
    /\ tok' = [tok EXCEPT ![w] = issued + 1]
    /\ UNCHANGED <<count, bound, due, expired, gate, guard, result, child, wire,
                   started, resolution, prefVars, faults>>

\* recover_and_claim finds nothing to send.
FindNothing(w) ==
    /\ pc[w] = "gated"
    /\ Ready = {}
    /\ state' = Recovered
    /\ token' = RecoveredToken
    /\ RecordRecovery
    /\ Release(w)
    /\ UNCHANGED <<count, bound, clockVars, sendVars, started, resolution, prefVars,
                   faults>>

\* deliver takes its shared locks, then decides on what it reads under them.
Qualify(w) ==
    LET n == of[tok[w]] IN
    /\ pc[w] = "claimed"
    /\ guard' = guard \cup {w}
    /\ IF Stands(n) /\ n \notin expired
       THEN pc' = [pc EXCEPT ![w] = "qualified"] /\ UNCHANGED result
       ELSE /\ pc' = [pc EXCEPT ![w] = "finishing"]
            /\ result' = [result EXCEPT ![w] = "suppressed"]
    /\ UNCHANGED <<gate, tok, prefVars, rowVars, clockVars, sendVars, logVars, faults>>

\* A timeout or database error before the start is durable: the except branch
\* reads the row again (without comparing tokens) and picks the outcome.
QualifyFails(w) ==
    /\ pc[w] \in {"claimed", "qualified"}
    /\ pc' = [pc EXCEPT ![w] = "finishing"]
    /\ result' = [result EXCEPT ![w] =
                     IF state[of[tok[w]]] = "leased" THEN "temporary" ELSE "unknown"]
    /\ guard' = guard \ {w}
    /\ UNCHANGED <<gate, tok, prefVars, rowVars, clockVars, sendVars, logVars, faults>>

\* The control transaction: only the holder of an unexpired lease starts, and
\* the start is durable before the child process exists.
Start(w) ==
    LET t == tok[w]
        n == of[t] IN
    /\ pc[w] = "qualified"
    /\ state[n] = "leased" /\ token[n] = t /\ n \notin leaseOver
    /\ state' = [state EXCEPT ![n] = "sending"]
    /\ count' = [count EXCEPT ![n] = @ + 1]
    /\ started' = started \cup {t}
    /\ child' = [child EXCEPT ![t] = "connecting"]
    /\ pc' = [pc EXCEPT ![w] = "sending"]
    /\ UNCHANGED <<token, bound, gate, guard, tok, result, issued, of, wire, completed,
                   resolution, prefVars, clockVars, faults>>

ClaimLost(w) ==
    LET t == tok[w]
        n == of[t] IN
    /\ pc[w] = "qualified"
    /\ ~(state[n] = "leased" /\ token[n] = t /\ n \notin leaseOver)
    /\ Release(w)
    /\ UNCHANGED <<prefVars, rowVars, clockVars, sendVars, logVars, faults>>

\* The parent reads the child's outcome from the pipe.
Receive(w) ==
    /\ pc[w] = "sending"
    /\ child[tok[w]] \in Outcomes
    /\ result' = [result EXCEPT ![w] = child[tok[w]]]
    /\ pc' = [pc EXCEPT ![w] = "finishing"]
    /\ UNCHANGED <<gate, guard, tok, prefVars, rowVars, clockVars, sendVars, logVars,
                   faults>>

\* The deadline, a dead child or a dead guard connection: the child is killed
\* and the outcome stays unknown.
GiveUpAsTemporary(w) ==     \* mutation: a timeout is taken for a refusal
    /\ pc[w] = "sending"
    /\ child' = [child EXCEPT ![tok[w]] = "gone"]
    /\ result' = [result EXCEPT ![w] = "temporary"]
    /\ pc' = [pc EXCEPT ![w] = "finishing"]
    /\ UNCHANGED <<gate, guard, tok, issued, of, wire, prefVars, rowVars, clockVars,
                   logVars, faults>>
GiveUp(w) ==
    /\ pc[w] = "sending"
    /\ child' = [child EXCEPT ![tok[w]] = "gone"]
    /\ result' = [result EXCEPT ![w] = "unknown"]
    /\ pc' = [pc EXCEPT ![w] = "finishing"]
    /\ UNCHANGED <<gate, guard, tok, issued, of, wire, prefVars, rowVars, clockVars,
                   logVars, faults>>

\* What finish makes of an outcome, after the attempt has been counted.
\* mutation: the outcome is stored as it is
SettledRaw(r, n, tried) == r
Settled(r, n, tried) ==
    CASE r # "temporary"             -> r
      [] r = "temporary" /\ n \in expired -> "suppressed"
      [] r = "temporary" /\ n \notin expired /\ tried <= Len(RetryDelays) -> "retry_wait"
      [] OTHER -> "failed"

\* mutation: the claim token is not compared
StillInFlight(n, t) == state[n] \in {"leased", "sending"}
StillMine(n, t) == token[n] = t /\ state[n] \in {"leased", "sending"}

\* finish changes the row only if it is still this worker's, and the gate and
\* the guard are released with it.
Finish(w) ==
    LET t == tok[w]
        n == of[t]
        tried == count[n] + IF state[n] = "leased" THEN 1 ELSE 0
    IN
    /\ pc[w] = "finishing"
    /\ IF StillMine(n, t)
       THEN /\ count' = [count EXCEPT ![n] = tried]
            /\ state' = [state EXCEPT ![n] = Settled(result[w], n, tried)]
            /\ due' = due \ {n}
            /\ completed' = [completed EXCEPT ![t] = IF @ = "none" THEN result[w] ELSE @]
       ELSE UNCHANGED <<count, state, due, completed>>
    /\ Release(w)
    /\ UNCHANGED <<token, bound, leaseOver, expired, sendVars, started, resolution,
                   prefVars, faults>>

-----------------------------------------------------------------------------
(* The child process and the provider.                                      *)

\* smtp_exchange ends before DATA: no connection, an early refusal, bad input.
EndsEarly(t) ==
    /\ child[t] = "connecting"
    /\ \/ /\ \E r \in {"temporary", "failed"} : child' = [child EXCEPT ![t] = r]
          /\ UNCHANGED wire
       \/ /\ child' = [child EXCEPT ![t] = "temporary"]
          /\ wire' = [wire EXCEPT ![t] = "rejected4"]
       \/ /\ child' = [child EXCEPT ![t] = "failed"]
          /\ wire' = [wire EXCEPT ![t] = "rejected5"]
       \/ /\ of[t] \in expired
          /\ child' = [child EXCEPT ![t] = "suppressed"]
          /\ UNCHANGED wire
    /\ UNCHANGED <<issued, of, prefVars, rowVars, clockVars, workerVars, logVars, faults>>

\* The expiry is checked, then the message goes out.
BeginData(t) ==
    /\ child[t] = "connecting"
    /\ of[t] \notin expired
    /\ child' = [child EXCEPT ![t] = "transmitting"]
    /\ wire' = [wire EXCEPT ![t] = "sent"]
    /\ UNCHANGED <<issued, of, prefVars, rowVars, clockVars, workerVars, logVars, faults>>

\* The provider decides whether or not anybody is left to hear the reply.
ProviderDecides(t) ==
    /\ wire[t] = "sent"
    /\ \E d \in {"accepted", "rejected4", "rejected5", "lost"} :
          wire' = [wire EXCEPT ![t] = d]
    /\ UNCHANGED <<issued, of, child, prefVars, rowVars, clockVars, workerVars, logVars,
                   faults>>

ReplyOf(d) == CASE d = "accepted"  -> "accepted"
                [] d = "rejected4" -> "temporary"
                [] d = "rejected5" -> "failed"

\* The reply is read, or (connection, SIGALRM) it never is.
EndsAfterData(t) ==
    /\ child[t] = "transmitting"
    /\ \/ /\ wire[t] \in {"accepted", "rejected4", "rejected5"}
          /\ child' = [child EXCEPT ![t] = ReplyOf(wire[t])]
       \/ child' = [child EXCEPT ![t] = "unknown"]
    /\ UNCHANGED <<issued, of, wire, prefVars, rowVars, clockVars, workerVars, logVars,
                   faults>>

-----------------------------------------------------------------------------
(* The local operator: scripts/deliver_approval_mail.py resolve.            *)

\* What both resolutions require: nobody holds the gate, the row is unknown
\* and its lease is over.
Resolvable(n) == gate = NoOne /\ state[n] = "unknown" /\ n \in leaseOver

Resolve(n, s) ==
    /\ Resolvable(n)
    /\ state' = [state EXCEPT ![n] = s]
    /\ due' = due \ {n}
    /\ resolution' = [resolution EXCEPT ![token[n]] = IF @ = "none" THEN s ELSE @]
    /\ UNCHANGED <<count, token, bound, leaseOver, expired, workerVars, sendVars,
                   started, completed, prefVars, faults>>

\* accepted=True: the mail with this delivery's Message-ID is in the mailbox.
ResolveAccepted(n) ==
    /\ \E t \in Tokens : of[t] = n /\ wire[t] = "accepted"
    /\ Resolve(n, "accepted")

\* accepted=False: an SMTP rejection of this very attempt was received.
ResolveRejected(n) ==
    /\ token[n] \in Tokens
    /\ wire[token[n]] \in {"rejected4", "rejected5"}
    /\ Resolve(n, CASE n \in expired -> "suppressed"
                    [] n \notin expired /\ (wire[token[n]] = "rejected5" \/ count[n] >= 4)
                         -> "failed"
                    [] OTHER -> "retry_wait")

-----------------------------------------------------------------------------
(* Time and faults.                                                         *)

\* A lease that runs out under a live worker is a stall, and counts as a fault.
LeaseRunsOut(n) ==
    /\ state[n] \in {"leased", "sending", "unknown"}
    /\ n \notin leaseOver
    /\ leaseOver' = leaseOver \cup {n}
    /\ IF \E w \in Workers : tok[w] = token[n]
       THEN faults < MaxFaults /\ faults' = faults + 1
       ELSE UNCHANGED faults
    /\ UNCHANGED <<due, expired, prefVars, rowVars, workerVars, sendVars, logVars>>

BecomesDue(n) ==
    /\ state[n] = "retry_wait" /\ n \notin due
    /\ due' = due \cup {n}
    /\ UNCHANGED <<leaseOver, expired, prefVars, rowVars, workerVars, sendVars, logVars,
                   faults>>

Expires(n) ==
    /\ state[n] # "absent" /\ n \notin expired
    /\ expired' = expired \cup {n}
    /\ UNCHANGED <<leaseOver, due, prefVars, rowVars, workerVars, sendVars, logVars,
                   faults>>

Fault == faults < MaxFaults /\ faults' = faults + 1

\* SIGKILL: the connections and their locks go, the child process stays.
Crash(w) ==
    /\ Fault
    /\ pc[w] # "idle"
    /\ Release(w)
    /\ UNCHANGED <<prefVars, rowVars, clockVars, sendVars, logVars>>

LoseGuard(w) ==
    /\ Fault
    /\ w \in guard
    /\ guard' = guard \ {w}
    /\ UNCHANGED <<gate, pc, tok, result, prefVars, rowVars, clockVars, sendVars, logVars>>

\* The gate's connection dies; nobody looks at it until the worker unlocks.
LoseGate ==
    /\ Fault
    /\ gate # NoOne
    /\ gate' = NoOne
    /\ UNCHANGED <<guard, pc, tok, result, prefVars, rowVars, clockVars, sendVars, logVars>>

\* A child without a parent dies at its own deadline, or of anything else.
ChildDies(t) ==
    /\ child[t] \in {"connecting", "transmitting"}
    /\ child' = [child EXCEPT ![t] = "gone"]
    /\ UNCHANGED <<issued, of, wire, prefVars, rowVars, clockVars, workerVars, logVars,
                   faults>>

-----------------------------------------------------------------------------
RecipientStep ==
    \/ \E u \in Recipients, on \in BOOLEAN : UpdatePreference(u, on)
    \/ \E u \in Recipients, a \in Addresses : ChangeAddress(u, a)
    \/ \E u \in Recipients : ChangeQualification(u)

WorkerStep(w) ==
    \/ TakeGate(w)
    \/ \E n \in Notifications : ClaimNext(w, n)
    \/ FindNothing(w) \/ Qualify(w) \/ QualifyFails(w) \/ Start(w) \/ ClaimLost(w)
    \/ Receive(w) \/ GiveUp(w) \/ Finish(w)

SendStep(t) ==
    EndsEarly(t) \/ BeginData(t) \/ ProviderDecides(t) \/ EndsAfterData(t) \/ ChildDies(t)

LedgerStep(n) ==
    \/ Enqueue(n) \/ ResolveAccepted(n) \/ ResolveRejected(n)
    \/ LeaseRunsOut(n) \/ BecomesDue(n) \/ Expires(n)

FaultStep == LoseGate \/ \E w \in Workers : Crash(w) \/ LoseGuard(w)

Next ==
    \/ RecipientStep
    \/ \E w \in Workers : WorkerStep(w)
    \/ \E t \in Tokens : SendStep(t)
    \/ \E n \in Notifications : LedgerStep(n)
    \/ FaultStep

Spec == Init /\ [][Next]_vars

\* The queue is served after every approval request and by a daily cron job; a
\* worker that runs keeps running, every wait in it has a timeout, and the
\* clock moves.  Nothing is assumed of the recipient, the provider or the
\* operator.
Fairness ==
    /\ WF_vars(\E w \in Workers : TakeGate(w))
    /\ \A w \in Workers :
          /\ WF_vars(FindNothing(w) \/ \E n \in Notifications : ClaimNext(w, n))
          /\ WF_vars(Qualify(w) \/ QualifyFails(w))
          /\ WF_vars(Start(w) \/ ClaimLost(w) \/ QualifyFails(w))
          /\ WF_vars(Receive(w) \/ GiveUp(w))
          /\ WF_vars(Finish(w))
    /\ \A n \in Notifications : WF_vars(LeaseRunsOut(n)) /\ WF_vars(BecomesDue(n))

FairSpec == Spec /\ Fairness

-----------------------------------------------------------------------------
(* Properties.                                                              *)

TypeOK ==
    /\ pref \in [Recipients -> [version : Nat, enabled : BOOLEAN,
                                digest : Addresses \cup {NoOne}]]
    /\ address \in [Recipients -> Addresses]
    /\ chosen \in [Recipients -> SUBSET (Nat \X Addresses)]
    /\ qualified \in [Recipients -> BOOLEAN]
    /\ state \in [Notifications -> States]
    /\ count \in [Notifications -> Nat]
    /\ token \in [Notifications -> 0..MaxTokens]
    /\ bound \in [Notifications -> (Nat \X Addresses) \cup {NoOne}]
    /\ leaseOver \subseteq Notifications
    /\ due \subseteq Notifications
    /\ expired \subseteq Notifications
    /\ gate \in Workers \cup {NoOne}
    /\ guard \subseteq Workers
    /\ pc \in [Workers -> Phases]
    /\ tok \in [Workers -> 0..MaxTokens]
    /\ result \in [Workers -> Outcomes \cup {"none"}]
    /\ issued \in 0..MaxTokens
    /\ of \in [Tokens -> Notifications \cup {NoOne}]
    /\ child \in [Tokens -> Outcomes \cup {"none", "connecting", "transmitting", "gone"}]
    /\ wire \in [Tokens -> {"none", "sent", "accepted", "rejected4", "rejected5", "lost"}]
    /\ started \subseteq Tokens
    /\ completed \in [Tokens -> Outcomes \cup {"none"}]
    /\ resolution \in [Tokens -> States \cup {"none"}]
    /\ faults \in Nat

AcceptedOn(t) == wire[t] = "accepted"

\* An attempt the provider may still come to accept.
MayStillArrive(t) == child[t] = "connecting" \/ wire[t] = "sent"

\* A notification is mailed at most once: the provider accepts at most one of
\* the attempts made for it, whatever crashes, stalls, lost locks and retries
\* happen in recover_and_claim, deliver, finish and resolve.
AtMostOneAcceptance ==
    \A t1, t2 \in Tokens :
        of[t1] \in Notifications /\ of[t1] = of[t2] /\ AcceptedOn(t1) /\ AcceptedOn(t2)
            => t1 = t2

\* A final ledger state tells the truth about the provider, for good: an
\* accepted row has an accepted attempt, a failed or suppressed row has none and
\* no attempt of it can arrive any more.  The rows a worker may claim again are
\* in the second class, which is why retrying them is safe.
VerdictIsTrue ==
    \A n \in Notifications :
        /\ state[n] = "accepted" => \E t \in Tokens : of[t] = n /\ AcceptedOn(t)
        /\ state[n] \in {"failed", "suppressed", "pending", "retry_wait", "leased"}
              => \A t \in Tokens : of[t] = n => ~AcceptedOn(t) /\ ~MayStillArrive(t)

\* No delivery is tried more than four times, a row that can be claimed has an
\* attempt left, and the delay table is never indexed outside 1..3 by finish or
\* by resolve, which both use attempt_count - 1.
AttemptsWithinLimit ==
    \A n \in Notifications :
        /\ count[n] <= Len(RetryDelays) + 1
        /\ state[n] \in {"pending", "leased"} => count[n] <= Len(RetryDelays)
        /\ state[n] = "retry_wait" => count[n] \in 1..Len(RetryDelays)
        /\ state[n] \in {"sending", "unknown"} => count[n] >= 1

\* The append-only attempt records explain the ledger: a result that is unknown
\* was started, a message the provider took was recorded as started before it
\* left, and an accepted row has a worker's or an operator's record saying so.
AuditExplainsLedger ==
    /\ \A t \in Tokens : wire[t] # "none" => t \in started
    /\ \A n \in Notifications :
          /\ state[n] = "unknown" =>
                token[n] \in started /\ completed[token[n]] = "unknown"
          /\ state[n] = "sending" => completed[token[n]] = "none"
          /\ state[n] = "accepted" =>
                \/ completed[token[n]] = "accepted"
                \/ completed[token[n]] = "unknown" /\ resolution[token[n]] = "accepted"

\* An attempt whose worker is alive with its guard transaction open.
Supervised(t) == \E w \in guard : tok[w] = t /\ pc[w] = "sending"

DataBegins(t) == wire[t] = "none" /\ wire'[t] = "sent"

\* A switch-off, an address change or a lost qualification is never overtaken:
\* when a supervised child sends DATA, what the recipient chose and may see is
\* still what the ledger row was created for (deliver's shared locks).
StopNotOvertaken ==
    [][\A t \in Tokens : DataBegins(t) /\ Supervised(t) => Stands(of[t])]_vars

\* Every saved delivery is eventually accepted, refused or set aside for the
\* operator: no crash, stall or lost lock leaves it waiting for ever.
EveryMailSettles ==
    \A n \in Notifications :
        state[n] = "pending" ~> state[n] \in {"accepted", "unknown", "failed", "suppressed"}

\* How the pipeline's state shows what MailPromise speaks of.
PromiseStatus ==
    [n \in Notifications |->
        CASE state[n] = "absent" -> "absent"
          [] state[n] \in {"pending", "leased", "retry_wait"} -> "waiting"
          [] state[n] \in {"sending", "unknown"} -> "out"
          [] state[n] = "accepted" -> "accepted"
          [] state[n] \in {"failed", "suppressed"} -> "refused"]

Arrived == {n \in Notifications : \E t \in Tokens : of[t] = n /\ AcceptedOn(t)}

Promise == INSTANCE MailPromise WITH status <- PromiseStatus, arrived <- Arrived

\* The pipeline implements the promise: its rows, leases, retries, recovery and
\* resolutions are steps of the abstract ledger, or none at all.
KeepsPromise == Promise!Spec
=============================================================================
