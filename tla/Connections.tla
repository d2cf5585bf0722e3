------------------------------ MODULE Connections ------------------------------
(* What an outside tool may do for a person: he consents to a request, its  *)
(* code is exchanged once for a pair of tokens, a refresh token once for    *)
(* the next pair, and with an access token the tool reads and writes under  *)
(* keys that make a repeated call harmless.                                 *)
(*                                                                          *)
(* A connection is named by the request it answers.  An exchange locks its  *)
(* row and commits later ("issuing"); the person's own rows are read        *)
(* without a lock.  A tool call is one outer transaction: the commits of    *)
(* the services it uses are savepoints, so its change, its receipt and its  *)
(* audit entry are kept together or not at all ("writing").                 *)
EXTENDS Naturals, FiniteSets, TLC

CONSTANTS Asks, Tokens, Keys, Calls, None,
          Concerns,                 \* sets of events: what a behaviour is made of
          MaxChange, MaxVersion     \* bounds: changes of the login; versions of the task

VARIABLES kinds,
          login,       \* the person: credential version; may he use tools now
          ask, conn, token,
          receipt,     \* <<connection, key>> -> what was answered, or None
          made,        \* <<connection, key>> -> changes committed under it
          task,        \* the task that is planned: version, and who planned it last
          calls
vars == <<kinds, login, ask, conn, token, receipt, made, task, calls>>
grants == <<kinds, login, ask, conn, token>>
work == <<receipt, made, task>>

-----------------------------------------------------------------------------
Login == [cred : 0..MaxChange, allowed : BOOLEAN]
Ask == [status : {"absent", "pending", "granted", "spent", "denied"}, over : BOOLEAN]
Conn == [status : {"absent", "live", "revoked"}, cred : 0..MaxChange]     \* revoked, or too old
Token == [of : Asks, spent : BOOLEAN, over : BOOLEAN, from : Tokens \cup {None}]   \* from: not kept by the code
Op == [tool : {"add", "preview"}, on : {None}] \cup [tool : {"apply"}, on : Keys]
Receipt == [op : Op, seen : 0..MaxVersion, over : BOOLEAN]

(* Null is no row and no identifier.                                        *)
ASSUME ConstantsApart ==
    /\ MaxChange \in Nat /\ MaxVersion \in Nat
    /\ None \notin Token /\ None \notin Receipt
    /\ None \notin Tokens /\ None \notin Keys

Issued == {t \in Tokens : token[t] # None}
Fingerprint(q) == conn[q].cred = login.cred                  \* credential_fingerprint
Valid(q) == conn[q].status = "live" /\ login.allowed /\ Fingerprint(q)   \* valid_connection
ConnFree(q) == \A c \in Calls : ~(calls[c].at = "issuing" /\ calls[c].on = q)
KeyFree(q, k) == \A c \in Calls : ~(calls[c].at = "writing" /\ calls[c].on = q /\ calls[c].key = k)
TaskFree == \A c \in Calls : ~(calls[c].at = "writing" /\ calls[c].op.tool = "apply")
Revoked(q) == conn' = [conn EXCEPT ![q].status = "revoked"]
Goto(c, call) == calls' = [calls EXCEPT ![c] = call]
Idle(c) == Goto(c, [at |-> "idle"])

-----------------------------------------------------------------------------
(* The person: his login changes, his membership and permissions come and   *)
(* go.  A change that makes a new fingerprint is not undone.                *)
ChangeLogin ==
    /\ "login" \in kinds
    /\ \/ login.cred < MaxChange /\ login' = [login EXCEPT !.cred = @ + 1]
       \/ login' = [login EXCEPT !.allowed = ~@]
    /\ UNCHANGED <<kinds, ask, conn, token, work, calls>>
Start ==
    /\ \E q \in Asks : ask[q].status = "absent" /\ ask' = [ask EXCEPT ![q].status = "pending"]
    /\ UNCHANGED <<kinds, login, conn, token, work, calls>>
Identify(c) ==               \* the browser's request read the login before the row was locked
    /\ calls[c].at = "idle" /\ login.allowed
    /\ \E q \in Asks : ask[q].status = "pending" /\ Goto(c, [at |-> "consenting", on |-> q, cred |-> login.cred])
    /\ UNCHANGED <<grants, work>>
Pending(q) == ask[q].status = "pending" /\ ~ask[q].over
Approve(c) ==
    /\ calls[c].at = "consenting" /\ login.allowed
    /\ LET q == calls[c].on
       IN /\ Pending(q)
          /\ ask' = [ask EXCEPT ![q].status = "granted"]
          /\ conn' = [conn EXCEPT ![q] = [status |-> "live", cred |-> calls[c].cred]]
    /\ Idle(c)
    /\ UNCHANGED <<kinds, login, token, work>>
Deny(c) ==
    /\ calls[c].at = "consenting"
    /\ Pending(calls[c].on)
    /\ ask' = [ask EXCEPT ![calls[c].on].status = "denied"]
    /\ Idle(c)
    /\ UNCHANGED <<kinds, login, conn, token, work>>
Disconnect ==                \* by the person, or by the tool that logs out
    /\ "revoke" \in kinds
    /\ \E q \in Asks : conn[q].status = "live" /\ ConnFree(q) /\ Revoked(q)
    /\ UNCHANGED <<kinds, login, ask, token, work, calls>>
Outlive ==                   \* thirty days after the consent, or with a review account
    /\ "lapse" \in kinds
    /\ \E q \in Asks : conn[q].status = "live" /\ Revoked(q)
    /\ UNCHANGED <<kinds, login, ask, token, work, calls>>
Lapse ==                     \* ten minutes, two for a code; fifteen for a preview
    /\ "lapse" \in kinds
    /\ \/ /\ \E q \in Asks : ~ask[q].over /\ ask' = [ask EXCEPT ![q].over = TRUE]
          /\ UNCHANGED <<token, receipt>>
       \/ /\ \E t \in Issued : ~token[t].over /\ token' = [token EXCEPT ![t].over = TRUE]
          /\ UNCHANGED <<ask, receipt>>
       \/ /\ \E x \in DOMAIN receipt : receipt[x] # None /\ ~receipt[x].over
                                       /\ receipt' = [receipt EXCEPT ![x].over = TRUE]
          /\ UNCHANGED <<ask, token>>
    /\ UNCHANGED <<kinds, login, conn, made, task, calls>>

-----------------------------------------------------------------------------
(* Tokens.  What was used before ends the connection.                       *)
Redeem(c) ==                 \* the code's row and the connection's are locked
    /\ calls[c].at = "idle"
    /\ \E q \in Asks :
         /\ ask[q].status \in {"granted", "spent"} /\ ~ask[q].over /\ ConnFree(q) /\ Valid(q)
         /\ IF ask[q].status = "spent" THEN Revoked(q) /\ UNCHANGED calls
            ELSE Goto(c, [at |-> "issuing", on |-> q, from |-> None]) /\ UNCHANGED conn
    /\ UNCHANGED <<kinds, login, ask, token, work>>
Present(c) ==                \* the refresh token is looked up without a lock
    /\ calls[c].at = "idle"
    /\ \E t \in Issued : Goto(c, [at |-> "found", from |-> t, spent |-> token[t].spent])
    /\ UNCHANGED <<grants, work>>
Spent(c) == token[calls[c].from].spent
Refresh(c) ==                \* once the connection is locked it is read again
    /\ calls[c].at = "found"
    /\ LET t == calls[c].from
           q == token[t].of
       IN /\ ConnFree(q) /\ Valid(q)
          /\ IF Spent(c) THEN Revoked(q) /\ Idle(c)
             ELSE Goto(c, [at |-> "issuing", on |-> q, from |-> t]) /\ UNCHANGED conn
    /\ UNCHANGED <<kinds, login, ask, token, work>>
Issue(c) ==
    /\ calls[c].at = "issuing"
    /\ LET new == [of |-> calls[c].on, spent |-> FALSE, over |-> FALSE, from |-> calls[c].from]
       IN \E t \in Tokens \ Issued :
            IF calls[c].from = None
            THEN /\ token' = [token EXCEPT ![t] = new]
                 /\ ask' = [ask EXCEPT ![calls[c].on].status = "spent"]
            ELSE /\ token' = [token EXCEPT ![t] = new, ![calls[c].from].spent = TRUE]
                 /\ UNCHANGED ask
    /\ Idle(c)
    /\ UNCHANGED <<kinds, login, conn, work>>

-----------------------------------------------------------------------------
(* Tool calls.                                                              *)
Call(c) ==                   \* an access token, a one-minute pass, the first check
    /\ "work" \in kinds
    /\ calls[c].at = "idle"
    /\ \E t \in Issued, k \in Keys, op \in Op :
         /\ ~token[t].over /\ Valid(token[t].of)
         /\ Goto(c, [at |-> "called", on |-> token[t].of, key |-> k, op |-> op, seen |-> 0])
    /\ UNCHANGED <<grants, work>>
Result(c) == receipt[<<calls[c].on, calls[c].key>>]
PlanOf(c) == receipt[<<calls[c].on, calls[c].op.on>>]
StillAsSeenUnchecked(c) == TRUE              \* mutation: the versions are not compared
StillAsSeen(c) == PlanOf(c).seen = task.version
Ready(c) ==                  \* a plan is applied to what it was shown for
    calls[c].op.tool = "apply" =>
        /\ PlanOf(c) # None /\ ~PlanOf(c).over /\ PlanOf(c).op.tool = "preview"
        /\ TaskFree /\ StillAsSeen(c)
Perform(c) ==                \* the key is locked, the connection checked again, the task read
    /\ calls[c].at = "called"
    /\ KeyFree(calls[c].on, calls[c].key) /\ Valid(calls[c].on)
    /\ Result(c) = None /\ Ready(c)
    /\ Goto(c, [at |-> "writing", on |-> calls[c].on, key |-> calls[c].key, op |-> calls[c].op, seen |-> task.version])
    /\ UNCHANGED <<grants, work>>
Replay(c) ==                 \* the receipt is the answer, or the key is refused
    /\ calls[c].at = "called"
    /\ KeyFree(calls[c].on, calls[c].key) /\ Valid(calls[c].on)
    /\ Result(c) # None
    /\ Idle(c)
    /\ UNCHANGED <<grants, work>>
Kept(c) == [receipt EXCEPT ![<<calls[c].on, calls[c].key>>] =
               [op |-> calls[c].op, seen |-> IF calls[c].op.tool = "preview" THEN calls[c].seen ELSE 0, over |-> FALSE]]
Commit(c) ==
    /\ calls[c].at = "writing"
    /\ receipt' = Kept(c)
    /\ made' = [made EXCEPT ![<<calls[c].on, calls[c].key>>] = IF calls[c].op.tool = "preview" THEN @ ELSE @ + 1]
    /\ task' = IF calls[c].op.tool # "apply" THEN task
               ELSE [version |-> task.version + 1, plan |-> <<calls[c].on, calls[c].op.on>>]
    /\ Idle(c)
    /\ UNCHANGED grants
EditTask ==                  \* somebody else, in the browser
    /\ "work" \in kinds
    /\ TaskFree /\ task.version < MaxVersion
    /\ task' = [version |-> task.version + 1, plan |-> None]
    /\ UNCHANGED <<grants, receipt, made, calls>>
Lost(c) ==                   \* refused, failed or died: the outer transaction is rolled back
    /\ calls[c].at # "idle"
    /\ Idle(c)
    /\ UNCHANGED <<grants, work>>

Init ==
    /\ kinds \in Concerns
    /\ login = [cred |-> 0, allowed |-> TRUE]
    /\ ask = [q \in Asks |-> [status |-> "absent", over |-> FALSE]]
    /\ conn = [q \in Asks |-> [status |-> "absent", cred |-> 0]]
    /\ token = [t \in Tokens |-> None]
    /\ receipt = [x \in Asks \X Keys |-> None] /\ made = [x \in Asks \X Keys |-> 0]
    /\ task = [version |-> 0, plan |-> None]
    /\ calls = [c \in Calls |-> [at |-> "idle"]]
Granting(c) == Identify(c) \/ Approve(c) \/ Deny(c) \/ Redeem(c) \/ Present(c) \/ Refresh(c) \/ Issue(c)
Working(c) == Call(c) \/ (task.version < MaxVersion /\ Perform(c)) \/ Replay(c) \/ Commit(c)
Next == ChangeLogin \/ Start \/ Disconnect \/ Outlive \/ Lapse \/ EditTask
        \/ \E c \in Calls : Granting(c) \/ Working(c) \/ Lost(c)
Spec == Init /\ [][Next]_vars

-----------------------------------------------------------------------------
(* Every row has its type.                                                  *)
TypeOK ==
    /\ login \in Login /\ ask \in [Asks -> Ask] /\ conn \in [Asks -> Conn]
    /\ token \in [Tokens -> Token \cup {None}]
    /\ receipt \in [Asks \X Keys -> Receipt \cup {None}]

(* A code and a refresh token are exchanged at most once each, whoever      *)
(* presents them at the same time: the pairs of a connection form one line. *)
ExchangedOnce == \A t, u \in Issued :
    token[t].of = token[u].of /\ token[t].from = token[u].from => t = u

(* However often a tool repeats a call, and whatever became of the earlier  *)
(* ones, what it does under a key happens at most once.                     *)
OneEffectPerKey == \A x \in DOMAIN made : made[x] <= 1

(* A plan is applied only to the version it was previewed for: no edit made *)
(* in between is overwritten.                                               *)
AppliedAsPreviewed == [][
    task'.plan # None /\ task' # task => receipt[task'.plan].seen = task.version]_vars

(* All three: repeated or late, a tool is let in once for what it presents, *)
(* and does only what was asked for, once.                                  *)
ToolsActOnce == [](ExchangedOnce /\ OneEffectPerKey) /\ AppliedAsPreviewed
=============================================================================
