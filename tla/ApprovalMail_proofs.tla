------------------------ MODULE ApprovalMail_proofs -------------------------
(***************************************************************************)
(* Theorems about ApprovalMail, for every set of workers, notifications,   *)
(* recipients and addresses and every value of the bounds.                 *)
(***************************************************************************)
EXTENDS ApprovalMail, TLAPS

\* Who may hold a token: the ones drawn belong to a notification that has a
\* ledger row, the others are untouched.
TokensDrawn ==
    /\ \A t \in Tokens : t <= issued => of[t] \in Notifications /\ state[of[t]] # "absent"
    /\ \A t \in Tokens : t > issued => child[t] = "none" /\ wire[t] = "none"
    /\ \A n \in Notifications : token[n] <= issued

\* What a child process has seen agrees with what the provider did.
ChildKnows ==
    \A t \in Tokens :
        /\ child[t] \in {"none", "connecting"} => wire[t] = "none"
        /\ child[t] = "accepted" => wire[t] = "accepted"
        /\ child[t] \in {"temporary", "failed", "suppressed"}
              => wire[t] \in {"none", "rejected4", "rejected5"}

\* A claimed row names the token of its claim, and only a started one has a child.
RowNamesClaim ==
    \A n \in Notifications :
        /\ state[n] \in {"leased", "sending", "unknown"}
              => token[n] \in Tokens /\ of[token[n]] = n
        /\ state[n] = "leased" => child[token[n]] = "none"
        /\ state[n] \in {"sending", "unknown"} => child[token[n]] # "none"
        /\ state[n] = "accepted" => \E t \in Tokens : of[t] = n /\ wire[t] = "accepted"

\* The core: a message that may still arrive, or has arrived, belongs to the
\* current claim of a row that no worker can claim again.
SentByCurrentClaim ==
    \A t \in Tokens :
        /\ MayStillArrive(t) =>
              token[of[t]] = t /\ state[of[t]] \in {"sending", "unknown"}
        /\ AcceptedOn(t) =>
              token[of[t]] = t /\ state[of[t]] \in {"sending", "unknown", "accepted"}

\* Where a worker stands; no two workers share a claim.
WorkerHoldsClaim ==
    /\ \A w \in Workers :
          IF pc[w] \in {"idle", "gated"} THEN tok[w] = 0
          ELSE tok[w] \in Tokens /\ tok[w] <= issued
    /\ \A v, w \in Workers : tok[v] = tok[w] /\ tok[v] # 0 => v = w
    /\ \A w \in Workers :
          /\ pc[w] \in {"claimed", "qualified"} => child[tok[w]] = "none"
          /\ pc[w] = "sending" => child[tok[w]] # "none"

\* The outcome a worker is about to write is one its row can bear.
ResultIsSound ==
    \A w \in Workers : pc[w] = "finishing" =>
        LET t == tok[w]
            n == of[tok[w]] IN
        /\ result[w] \in Outcomes
        /\ StillMine(n, t) /\ state[n] = "leased" => result[w] \in {"temporary", "suppressed"}
        /\ StillMine(n, t) /\ state[n] = "sending" =>
              /\ result[w] = "accepted" => AcceptedOn(t)
              /\ result[w] \in {"temporary", "failed", "suppressed"}
                    => ~AcceptedOn(t) /\ ~MayStillArrive(t)

Inv == /\ TypeOK /\ TokensDrawn /\ ChildKnows /\ RowNamesClaim
       /\ SentByCurrentClaim /\ WorkerHoldsClaim /\ ResultIsSound

\* An open guard keeps what its worker decided on in force.
GuardProtects ==
    \A w \in guard : pc[w] \in {"qualified", "sending"} => Stands(of[tok[w]])

-----------------------------------------------------------------------------
\* The variables stay in their types: every ledger state is one the CHECK
\* constraint of notification_email_deliveries admits.
LEMMA TypeInit == Init => TypeOK
<1> SUFFICES ASSUME Init PROVE TypeOK
  OBVIOUS
<1>1. prefVars = prefVars /\ 0 \in 0..MaxTokens
  BY BoundAssumption
<1> QED
  BY <1>1, BoundAssumption DEF Init, TypeOK, States, Phases, Outcomes, Tokens

\* What recover_and_claim makes of the lapsed leases is well typed.
LEMMA RecoveredType ==
    ASSUME TypeOK
    PROVE  /\ Recovered \in [Notifications -> States]
           /\ RecoveredToken \in [Notifications -> 0..MaxTokens]
           /\ RecordRecovery => completed' \in [Tokens -> Outcomes \cup {"none"}]
  BY BoundAssumption DEF TypeOK, States, Outcomes, Recovered, RecoveredToken, RecordRecovery

\* So is what finish makes of an outcome.
LEMMA SettledType ==
    ASSUME NEW r \in Outcomes, NEW n, NEW tried
    PROVE  Settled(r, n, tried) \in States \ {"absent", "pending", "leased", "sending"}
  BY DEF Settled, States, Outcomes

\* A busy worker holds a token that was drawn for a row that exists.
LEMMA ClaimHeld ==
    ASSUME Inv, NEW w \in Workers, pc[w] \notin {"idle", "gated"}
    PROVE  /\ tok[w] \in Tokens /\ tok[w] <= issued
           /\ of[tok[w]] \in Notifications
           /\ state[of[tok[w]]] # "absent"
  BY DEF Inv, WorkerHoldsClaim, TokensDrawn

\* The variables the invariant speaks of are functions (facts for later leaves).
LEMMA Functional ==
    ASSUME TypeOK
    PROVE  /\ state \in [Notifications -> States] /\ token \in [Notifications -> 0..MaxTokens]
           /\ child = [t \in Tokens |-> child[t]] /\ wire = [t \in Tokens |-> wire[t]]
           /\ pc = [w \in Workers |-> pc[w]] /\ tok = [w \in Workers |-> tok[w]]
           /\ result = [w \in Workers |-> result[w]]
           /\ of = [t \in Tokens |-> of[t]]
  BY DEF TypeOK

\* A step keeps the types.  TypeOK alone is not inductive: Start records the
\* worker's token, Finish stores its result, so both must be known to exist.
LEMMA TypeStep == Inv /\ [Next]_vars => TypeOK'
<1> SUFFICES ASSUME TypeOK, Inv, [Next]_vars PROVE TypeOK'
  BY DEF Inv
<1> USE BoundAssumption, ToAssumption
<1> USE DEF TypeOK, States, Phases, Outcomes, Tokens, prefVars, rowVars, clockVars,
            workerVars, sendVars, logVars
<1>1. ASSUME NEW u \in Recipients, NEW on \in BOOLEAN, UpdatePreference(u, on)
      PROVE TypeOK'
  BY <1>1 DEF UpdatePreference
<1>2. ASSUME NEW u \in Recipients, NEW a \in Addresses, ChangeAddress(u, a)
      PROVE TypeOK'
  BY <1>2 DEF ChangeAddress
<1>3. ASSUME NEW u \in Recipients, ChangeQualification(u) PROVE TypeOK'
  BY <1>3 DEF ChangeQualification
<1>4. ASSUME NEW w \in Workers, TakeGate(w) PROVE TypeOK'
  BY <1>4 DEF TakeGate
<1>5. ASSUME NEW w \in Workers, NEW n \in Notifications, ClaimNext(w, n) PROVE TypeOK'
  <2>1. issued + 1 \in Tokens /\ issued + 1 \in 0..MaxTokens
    BY <1>5 DEF ClaimNext
  <2>2. /\ issued' \in 0..MaxTokens
        /\ of' \in [Tokens -> Notifications \cup {NoOne}]
        /\ tok' \in [Workers -> 0..MaxTokens]
        /\ pc' \in [Workers -> Phases]
    BY <1>5, <2>1 DEF ClaimNext
  <2>3. state' \in [Notifications -> States] /\ token' \in [Notifications -> 0..MaxTokens]
    BY <1>5, <2>1, RecoveredType DEF ClaimNext
  <2>4. completed' \in [Tokens -> Outcomes \cup {"none"}]
    BY <1>5, RecoveredType DEF ClaimNext
  <2> QED
    BY <1>5, <2>2, <2>3, <2>4 DEF ClaimNext
<1>6. ASSUME NEW w \in Workers, FindNothing(w) PROVE TypeOK'
  BY <1>6, RecoveredType, SMTT(30) DEF FindNothing, Release
<1>7. ASSUME NEW w \in Workers, Qualify(w) PROVE TypeOK'
  BY <1>7 DEF Qualify
<1>8. ASSUME NEW w \in Workers, QualifyFails(w) PROVE TypeOK'
  BY <1>8 DEF QualifyFails
<1>9. ASSUME NEW w \in Workers, Start(w) PROVE TypeOK'
  <2> DEFINE t == tok[w]
             n == of[tok[w]]
  <2>1. pc[w] \notin {"idle", "gated"}
    BY <1>9 DEF Start
  <2>2. t \in Tokens /\ n \in Notifications
    BY <2>1, ClaimHeld
  <2>3. /\ state' = [state EXCEPT ![n] = "sending"]
        /\ count' = [count EXCEPT ![n] = count[n] + 1]
        /\ started' = started \cup {t}
        /\ child' = [child EXCEPT ![t] = "connecting"]
    BY <1>9 DEF Start
  <2>4. state' \in [Notifications -> States] /\ count' \in [Notifications -> Nat]
    <3>1. state \in [Notifications -> States] /\ count \in [Notifications -> Nat]
          /\ "sending" \in States
      OBVIOUS
    <3> HIDE DEF TypeOK, States, n
    <3> QED
      BY <2>2, <2>3, <3>1
  <2>5. started' \subseteq Tokens /\ child' \in [Tokens -> Outcomes \cup
            {"none", "connecting", "transmitting", "gone"}]
    BY <2>2, <2>3
  <2> QED
    BY <1>9, <2>4, <2>5 DEF Start
<1>10. ASSUME NEW w \in Workers, ClaimLost(w) PROVE TypeOK'
  BY <1>10 DEF ClaimLost, Release
<1>11. ASSUME NEW w \in Workers, Receive(w) PROVE TypeOK'
  BY <1>11 DEF Receive
<1>12. ASSUME NEW w \in Workers, GiveUp(w) PROVE TypeOK'
  BY <1>12 DEF GiveUp
<1>13. ASSUME NEW w \in Workers, Finish(w) PROVE TypeOK'
  <2> DEFINE n == of[tok[w]]
             tried == count[n] + IF state[n] = "leased" THEN 1 ELSE 0
  <2>1. result[w] \in Outcomes
    BY <1>13 DEF Finish, Inv, ResultIsSound
  <2>2. Settled(result[w], n, tried) \in States
    BY <2>1, SettledType
  <2>3. n \in Notifications
    BY <1>13, ClaimHeld DEF Finish
  <2>4. /\ \/ state' = state
           \/ state' = [state EXCEPT ![n] = Settled(result[w], n, tried)]
        /\ count' = count \/ count' = [count EXCEPT ![n] = tried]
        /\ due' = due \/ due' = due \ {n}
    BY <1>13 DEF Finish
  <2>5. state' \in [Notifications -> States] /\ count' \in [Notifications -> Nat]
    <3>1. state \in [Notifications -> States] /\ count \in [Notifications -> Nat]
      OBVIOUS
    <3>2. tried \in Nat
      BY <2>3, <3>1
    <3> HIDE DEF TypeOK, States, n, tried
    <3> QED
      BY <2>2, <2>3, <2>4, <3>1, <3>2
  <2>6. completed' \in [Tokens -> Outcomes \cup {"none"}]
    BY <1>13, <2>1 DEF Finish
  <2>7. due' \subseteq Notifications
    BY <2>4
  <2>8. Release(w) /\ UNCHANGED <<token, bound, leaseOver, expired, sendVars, started,
                                   resolution, prefVars, faults>>
    BY <1>13 DEF Finish
  <2>9. /\ gate' \in Workers \cup {NoOne} /\ guard' \subseteq Workers
        /\ pc' \in [Workers -> Phases] /\ tok' \in [Workers -> 0..MaxTokens]
        /\ result' \in [Workers -> Outcomes \cup {"none"}]
    BY <2>8 DEF Release
  <2> HIDE DEF n, tried, Phases, Outcomes, States
  <2> QED
    BY <2>5, <2>6, <2>7, <2>8, <2>9
<1>14. ASSUME NEW t \in Tokens, SendStep(t) PROVE TypeOK'
  <2>1. CASE EndsEarly(t)
    <3>1. child' \in [Tokens -> Outcomes \cup {"none", "connecting", "transmitting", "gone"}]
      BY <2>1, ZenonT(40) DEF EndsEarly
    <3>2. wire' \in [Tokens -> {"none", "sent", "accepted", "rejected4", "rejected5", "lost"}]
      BY <2>1 DEF EndsEarly
    <3>3. UNCHANGED <<issued, of, prefVars, rowVars, clockVars, workerVars, logVars, faults>>
      BY <2>1 DEF EndsEarly
    <3> QED
      BY <3>1, <3>2, <3>3
  <2>2. CASE BeginData(t)
    BY <2>2 DEF BeginData
  <2>3. CASE ProviderDecides(t)
    BY <2>3 DEF ProviderDecides
  <2>4. CASE EndsAfterData(t)
    BY <2>4, ZenonT(40) DEF EndsAfterData, ReplyOf
  <2>5. CASE ChildDies(t)
    BY <2>5 DEF ChildDies
  <2> QED
    BY <1>14, <2>1, <2>2, <2>3, <2>4, <2>5 DEF SendStep
<1>15. ASSUME NEW n \in Notifications, LedgerStep(n) PROVE TypeOK'
  <2>1. CASE Enqueue(n)
    <3>1. PICK c \in chosen[To[n]] : bound' = [bound EXCEPT ![n] = c]
      BY <2>1 DEF Enqueue
    <3>2. c \in Nat \X Addresses
      OBVIOUS
    <3> QED
      BY <2>1, <3>1, <3>2 DEF Enqueue
  <2>2. ASSUME NEW r \in {"accepted", "suppressed", "failed", "retry_wait"}, Resolve(n, r)
        PROVE  TypeOK'
    BY <2>2, ZenonT(40) DEF Resolve
  <2>3. CASE ResolveAccepted(n)
    BY <2>2, <2>3 DEF ResolveAccepted
  <2>4. CASE ResolveRejected(n)
    BY <2>2, <2>4 DEF ResolveRejected
  <2>5. CASE LeaseRunsOut(n) \/ BecomesDue(n) \/ Expires(n)
    <3>1. faults' \in Nat
      BY <2>5 DEF LeaseRunsOut, BecomesDue, Expires
    <3> QED
      BY <2>5, <3>1, ZenonT(40) DEF LeaseRunsOut, BecomesDue, Expires
  <2> QED
    BY <1>15, <2>1, <2>3, <2>4, <2>5 DEF LedgerStep
<1>16. ASSUME FaultStep PROVE TypeOK'
  <2>1. ASSUME NEW w \in Workers, Crash(w) PROVE TypeOK'
    BY <2>1 DEF Crash, Fault, Release
  <2>2. ASSUME NEW w \in Workers, LoseGuard(w) PROVE TypeOK'
    BY <2>2 DEF LoseGuard, Fault
  <2>3. CASE LoseGate
    BY <2>3 DEF LoseGate, Fault
  <2> QED
    BY <1>16, <2>1, <2>2, <2>3 DEF FaultStep
<1>17. ASSUME UNCHANGED vars PROVE TypeOK'
  BY <1>17 DEF vars
<1> QED
  BY <1>1, <1>2, <1>3, <1>4, <1>5, <1>6, <1>7, <1>8, <1>9, <1>10, <1>11, <1>12, <1>13,
     <1>14, <1>15, <1>16, <1>17 DEF Next, RecipientStep, WorkerStep

-----------------------------------------------------------------------------
\* The invariant holds of the empty ledger, with no worker and no token drawn.
LEMMA InvInit == Init => Inv
<1> SUFFICES ASSUME Init PROVE Inv
  OBVIOUS
<1>1. TypeOK
  BY TypeInit
<1>2. TokensDrawn /\ ChildKnows /\ SentByCurrentClaim
  BY DEF Init, TokensDrawn, ChildKnows, SentByCurrentClaim, MayStillArrive, AcceptedOn, Tokens
<1>3. RowNamesClaim /\ WorkerHoldsClaim /\ ResultIsSound
  BY DEF Init, RowNamesClaim, WorkerHoldsClaim, ResultIsSound
<1> QED
  BY <1>1, <1>2, <1>3 DEF Inv

\* The invariant speaks of no other variable: recipients, clocks and lost
\* connections cannot break it.
LEMMA Frame ==
    ASSUME Inv, TypeOK',
           UNCHANGED <<state, token, issued, of, child, wire, pc, tok, result>>
    PROVE  Inv'
<1>1. TokensDrawn' /\ ChildKnows' /\ RowNamesClaim'
  BY DEF Inv, TokensDrawn, ChildKnows, RowNamesClaim
<1>2. SentByCurrentClaim' /\ WorkerHoldsClaim'
  BY DEF Inv, SentByCurrentClaim, WorkerHoldsClaim, MayStillArrive, AcceptedOn
<1>3. ResultIsSound'
  BY DEF Inv, ResultIsSound, MayStillArrive, AcceptedOn, StillMine
<1> QED
  BY <1>1, <1>2, <1>3 DEF Inv

\* A worker step that ends the job, or moves on without touching rows and sends.
LEMMA ReleaseStep ==
    ASSUME Inv, TypeOK', NEW w \in Workers, Release(w),
           UNCHANGED <<state, token, issued, of, child, wire>>
    PROVE  Inv'
<1>1. TokensDrawn' /\ ChildKnows' /\ RowNamesClaim' /\ SentByCurrentClaim'
  BY DEF Inv, TokensDrawn, ChildKnows, RowNamesClaim, SentByCurrentClaim,
         MayStillArrive, AcceptedOn
<1>2. \A v \in Workers : /\ pc'[v] = IF v = w THEN "idle" ELSE pc[v]
                         /\ tok'[v] = IF v = w THEN 0 ELSE tok[v]
                         /\ result'[v] = IF v = w THEN "none" ELSE result[v]
  BY DEF Release, Inv, TypeOK
<1>3. WorkerHoldsClaim'
  BY <1>2 DEF Inv, WorkerHoldsClaim
<1>4. ResultIsSound'
  BY <1>2 DEF Inv, ResultIsSound, MayStillArrive, AcceptedOn, StillMine
<1> QED
  BY <1>1, <1>3, <1>4 DEF Inv

\* Taking the worker lock touches no row and no token.
LEMMA TakeGateStep ==
    ASSUME Inv, TypeOK', NEW w \in Workers, TakeGate(w)
    PROVE  Inv'
<1>1. TokensDrawn' /\ ChildKnows' /\ RowNamesClaim' /\ SentByCurrentClaim'
  BY DEF Inv, TokensDrawn, ChildKnows, RowNamesClaim, SentByCurrentClaim,
         MayStillArrive, AcceptedOn, TakeGate, rowVars, sendVars
<1>2. /\ \A v \in Workers : pc'[v] = IF v = w THEN "gated" ELSE pc[v]
      /\ pc[w] = "idle"
      /\ UNCHANGED <<tok, result, state, token, of, child, wire, issued>>
  BY DEF TakeGate, Inv, TypeOK, rowVars, sendVars
<1>3. WorkerHoldsClaim'
  BY <1>2 DEF Inv, WorkerHoldsClaim
<1>4. ResultIsSound'
  BY <1>2 DEF Inv, ResultIsSound, MayStillArrive, AcceptedOn, StillMine
<1> QED
  BY <1>1, <1>3, <1>4 DEF Inv

\* A worker that decides on an outcome: only pc, result and child move.
LEMMA DecideStep ==
    ASSUME Inv, TypeOK', NEW w \in Workers, Qualify(w) \/ QualifyFails(w) \/ Receive(w)
    PROVE  Inv'
<1> DEFINE t == tok[w]
           n == of[tok[w]]
<1>1. pc[w] \notin {"idle", "gated"}
  BY DEF Qualify, QualifyFails, Receive
<1>2. t \in Tokens /\ t <= issued /\ n \in Notifications
  BY <1>1, ClaimHeld
<1>3. UNCHANGED <<state, token, issued, of, child, wire, tok>>
  BY DEF Qualify, QualifyFails, Receive, rowVars, sendVars
<1>4. TokensDrawn' /\ ChildKnows' /\ RowNamesClaim' /\ SentByCurrentClaim'
  BY <1>3 DEF Inv, TokensDrawn, ChildKnows, RowNamesClaim, SentByCurrentClaim,
         MayStillArrive, AcceptedOn
<1>5. \A v \in Workers : v # w => pc'[v] = pc[v] /\ result'[v] = result[v]
  BY DEF Qualify, QualifyFails, Receive, Inv, TypeOK
<1>6. \/ pc'[w] = "qualified" /\ pc[w] = "claimed"
      \/ pc'[w] = "finishing"
  BY DEF Qualify, QualifyFails, Receive, Inv, TypeOK
<1>7. WorkerHoldsClaim'
  BY <1>1, <1>3, <1>5, <1>6 DEF Inv, WorkerHoldsClaim
<1>8. ASSUME pc'[w] = "finishing"
      PROVE  /\ result'[w] \in Outcomes
             /\ StillMine(n, t) /\ state[n] = "leased" => result'[w] \in {"temporary", "suppressed"}
             /\ StillMine(n, t) /\ state[n] = "sending" =>
                   /\ result'[w] = "accepted" => AcceptedOn(t)
                   /\ result'[w] \in {"temporary", "failed", "suppressed"}
                         => ~AcceptedOn(t) /\ ~MayStillArrive(t)
  <2>1. StillMine(n, t) /\ state[n] = "leased" => child[t] = "none"
    BY <1>2 DEF Inv, RowNamesClaim, StillMine
  <2>2. StillMine(n, t) /\ state[n] = "sending" => child[t] # "none"
    BY <1>2 DEF Inv, RowNamesClaim, StillMine
  <2>3. CASE Qualify(w)
    <3>1. child[t] = "none" /\ result'[w] = "suppressed"
      BY <1>8, <2>3 DEF Qualify, Inv, WorkerHoldsClaim, TypeOK
    <3> QED
      BY <2>2, <3>1 DEF Outcomes
  <2>4. CASE QualifyFails(w)
    <3>1. /\ child[t] = "none"
          /\ result'[w] = IF state[n] = "leased" THEN "temporary" ELSE "unknown"
      BY <2>4 DEF QualifyFails, Inv, WorkerHoldsClaim, TypeOK
    <3> QED
      BY <2>2, <3>1 DEF Outcomes
  <2>5. CASE Receive(w)
    <3>1. child[t] \in Outcomes /\ result'[w] = child[t]
      BY <2>5 DEF Receive, Inv, TypeOK
    <3>2. /\ child[t] = "accepted" => AcceptedOn(t)
          /\ child[t] \in {"temporary", "failed", "suppressed"}
                => ~AcceptedOn(t) /\ ~MayStillArrive(t)
      BY <1>2 DEF Inv, ChildKnows, AcceptedOn, MayStillArrive
    <3> QED
      BY <2>1, <3>1, <3>2 DEF Outcomes
  <2> QED
    BY <2>3, <2>4, <2>5
<1>9. ResultIsSound'
  <2> SUFFICES ASSUME NEW v \in Workers, pc'[v] = "finishing"
               PROVE  LET u == tok[v]
                          m == of[tok[v]] IN
        /\ result'[v] \in Outcomes
        /\ StillMine(m, u) /\ state[m] = "leased" => result'[v] \in {"temporary", "suppressed"}
        /\ StillMine(m, u) /\ state[m] = "sending" =>
              /\ result'[v] = "accepted" => AcceptedOn(u)
              /\ result'[v] \in {"temporary", "failed", "suppressed"}
                    => ~AcceptedOn(u) /\ ~MayStillArrive(u)
    BY <1>3 DEF ResultIsSound, StillMine, AcceptedOn, MayStillArrive
  <2>1. CASE v = w
    BY <1>8, <2>1
  <2>2. CASE v # w
    BY <1>5, <2>2 DEF Inv, ResultIsSound
  <2> QED
    BY <2>1, <2>2
<1> QED
  BY <1>4, <1>7, <1>9 DEF Inv

\* The child is killed: its outcome stays unknown, and so may its message.
LEMMA GiveUpStep ==
    ASSUME Inv, TypeOK', NEW w \in Workers, GiveUp(w)
    PROVE  Inv'
<1> DEFINE t == tok[w]
           n == of[tok[w]]
<1>1. pc[w] = "sending" /\ t \in Tokens /\ t <= issued /\ n \in Notifications
  BY ClaimHeld DEF GiveUp
<1>2. UNCHANGED <<state, token, issued, of, wire, tok>>
  BY DEF GiveUp, rowVars
<1>3. \A u \in Tokens : child'[u] = IF u = t THEN "gone" ELSE child[u]
  <2>1. child = [u \in Tokens |-> child[u]]
    BY Functional DEF Inv
  <2>2. child' = [child EXCEPT ![t] = "gone"]
    BY DEF GiveUp
  <2> QED
    BY <1>1, <2>1, <2>2
<1>4. child[t] # "none"
  BY <1>1 DEF Inv, WorkerHoldsClaim
<1>5. \A v \in Workers : /\ pc'[v] = IF v = w THEN "finishing" ELSE pc[v]
                         /\ result'[v] = IF v = w THEN "unknown" ELSE result[v]
                         /\ v # w => tok[v] # t
  <2>1. pc = [v \in Workers |-> pc[v]] /\ result = [v \in Workers |-> result[v]]
    BY Functional DEF Inv
  <2>2. /\ pc' = [pc EXCEPT ![w] = "finishing"]
        /\ result' = [result EXCEPT ![w] = "unknown"]
    BY DEF GiveUp
  <2>3. \A v \in Workers : v # w => tok[v] # t
    BY <1>1 DEF Inv, WorkerHoldsClaim, Tokens
  <2> QED
    BY <2>1, <2>2, <2>3
<1>6. TokensDrawn'
  <2>1. /\ \A u \in Tokens : u <= issued => of[u] \in Notifications /\ state[of[u]] # "absent"
        /\ \A u \in Tokens : u > issued => child[u] = "none" /\ wire[u] = "none"
        /\ \A m \in Notifications : token[m] <= issued
    BY DEF Inv, TokensDrawn
  <2>2. issued \in Nat /\ t \in Nat
    BY <1>1, BoundAssumption DEF Inv, TypeOK, Tokens
  <2> HIDE DEF t, n
  <2> QED
    BY <1>1, <1>2, <1>3, <2>1, <2>2 DEF TokensDrawn, Tokens
<1>7. ChildKnows'
  BY <1>2, <1>3 DEF Inv, ChildKnows
<1>8. RowNamesClaim'
  BY <1>1, <1>2, <1>3, <1>4 DEF Inv, RowNamesClaim
<1>9. SentByCurrentClaim'
  BY <1>2, <1>3 DEF Inv, SentByCurrentClaim, MayStillArrive, AcceptedOn
<1>10. WorkerHoldsClaim'
  <2>1. WorkerHoldsClaim
    BY DEF Inv
  <2>2. \A v \in Workers : pc[v] \notin {"idle", "gated"} => tok[v] \in Tokens
    BY <2>1 DEF WorkerHoldsClaim
  <2> HIDE DEF n
  <2> QED
    BY <1>1, <1>2, <1>3, <1>5, <2>1, <2>2 DEF WorkerHoldsClaim
<1>11. ResultIsSound'
  <2>1. ~(StillMine(n, t) /\ state[n] = "leased")
    BY <1>1, <1>4 DEF Inv, RowNamesClaim, StillMine
  <2>2. \A v \in Workers : pc[v] = "finishing" => MayStillArrive(tok[v])' = MayStillArrive(tok[v])
    BY <1>1, <1>2, <1>3, <1>5 DEF MayStillArrive, Inv, WorkerHoldsClaim
  <2> QED
    BY <1>1, <1>2, <1>5, <2>1, <2>2 DEF Inv, ResultIsSound, StillMine, AcceptedOn, Outcomes
<1> QED
  BY <1>6, <1>7, <1>8, <1>9, <1>10, <1>11 DEF Inv

\* The start is durable, and only then is there a child.
LEMMA StartStep ==
    ASSUME Inv, TypeOK', NEW w \in Workers, Start(w)
    PROVE  Inv'
<1> DEFINE t == tok[w]
           n == of[tok[w]]
<1>1. /\ pc[w] = "qualified" /\ t \in Tokens /\ t <= issued /\ n \in Notifications
      /\ state[n] = "leased" /\ token[n] = t
  BY ClaimHeld DEF Start
<1>2. UNCHANGED <<token, issued, of, wire, tok, result>>
  BY DEF Start
<1>3. /\ \A u \in Tokens : child'[u] = IF u = t THEN "connecting" ELSE child[u]
      /\ \A m \in Notifications : state'[m] = IF m = n THEN "sending" ELSE state[m]
      /\ \A v \in Workers : pc'[v] = IF v = w THEN "sending" ELSE pc[v]
  <2>1. /\ child = [u \in Tokens |-> child[u]] /\ pc = [v \in Workers |-> pc[v]]
        /\ state \in [Notifications -> States]
    BY Functional DEF Inv
  <2>2. /\ child' = [child EXCEPT ![t] = "connecting"]
        /\ state' = [state EXCEPT ![n] = "sending"]
        /\ pc' = [pc EXCEPT ![w] = "sending"]
    BY DEF Start
  <2> QED
    BY <1>1, <2>1, <2>2
<1>4. child[t] = "none" /\ wire[t] = "none"
  BY <1>1 DEF Inv, WorkerHoldsClaim, ChildKnows
<1>5. \A v \in Workers : v # w => tok[v] # t
  BY <1>1 DEF Inv, WorkerHoldsClaim, Tokens
<1>6. TokensDrawn'
  <2>1. /\ \A u \in Tokens : u <= issued => of[u] \in Notifications /\ state[of[u]] # "absent"
        /\ \A u \in Tokens : u > issued => child[u] = "none" /\ wire[u] = "none"
        /\ \A m \in Notifications : token[m] <= issued
    BY DEF Inv, TokensDrawn
  <2>2. issued \in Nat /\ t \in Nat
    BY <1>1, BoundAssumption DEF Inv, TypeOK, Tokens
  <2> HIDE DEF t, n
  <2> QED
    BY <1>1, <1>2, <1>3, <2>1, <2>2 DEF TokensDrawn, Tokens
<1>7. ChildKnows'
  BY <1>2, <1>3, <1>4 DEF Inv, ChildKnows
<1>8. RowNamesClaim'
  BY <1>1, <1>2, <1>3 DEF Inv, RowNamesClaim
<1>9. SentByCurrentClaim'
  <2> SUFFICES ASSUME NEW u \in Tokens
               PROVE  /\ MayStillArrive(u)' => /\ token[of[u]] = u
                                               /\ state'[of[u]] \in {"sending", "unknown"}
                      /\ AcceptedOn(u) => /\ token[of[u]] = u
                                          /\ state'[of[u]] \in {"sending", "unknown", "accepted"}
    BY <1>2 DEF SentByCurrentClaim, AcceptedOn
  <2>1. CASE u = t
    BY <1>1, <1>2, <1>3, <1>4, <2>1 DEF AcceptedOn
  <2>2. CASE u # t
    <3>1. MayStillArrive(u)' = MayStillArrive(u)
      BY <1>2, <1>3, <2>2 DEF MayStillArrive
    <3>2. of[u] \in Notifications \/ (child[u] = "none" /\ wire[u] = "none")
      BY DEF Inv, TypeOK, TokensDrawn, Tokens
    <3>3. of[u] \in Notifications => state'[of[u]] = state[of[u]] \/ of[u] = n
      BY <1>3
    <3> QED
      BY <1>1, <2>2, <3>1, <3>2, <3>3 DEF Inv, SentByCurrentClaim, MayStillArrive, AcceptedOn
  <2> QED
    BY <2>1, <2>2
<1>10. WorkerHoldsClaim'
  BY <1>1, <1>2, <1>3, <1>5 DEF Inv, WorkerHoldsClaim
<1>11. ResultIsSound'
  <2> SUFFICES ASSUME NEW v \in Workers, pc[v] = "finishing", v # w
               PROVE  LET u == tok[v]
                          m == of[tok[v]] IN
        /\ result[v] \in Outcomes
        /\ StillMine(m, u)' /\ state'[m] = "leased" => result[v] \in {"temporary", "suppressed"}
        /\ StillMine(m, u)' /\ state'[m] = "sending" =>
              /\ result[v] = "accepted" => AcceptedOn(u)
              /\ result[v] \in {"temporary", "failed", "suppressed"}
                    => ~AcceptedOn(u) /\ ~MayStillArrive(u)'
    BY <1>2, <1>3 DEF ResultIsSound, StillMine, AcceptedOn
  <2>1. tok[v] \in Tokens /\ tok[v] # t /\ of[tok[v]] \in Notifications
    BY <1>5, ClaimHeld
  <2>2. MayStillArrive(tok[v])' = MayStillArrive(tok[v])
    BY <1>2, <1>3, <2>1 DEF MayStillArrive
  <2>3. of[tok[v]] = n => token[of[tok[v]]] # tok[v]
    BY <1>1, <2>1
  <2>4. of[tok[v]] # n => state'[of[tok[v]]] = state[of[tok[v]]]
    BY <1>3, <2>1
  <2> QED
    BY <1>2, <2>1, <2>2, <2>3, <2>4 DEF Inv, ResultIsSound, StillMine, AcceptedOn
<1> QED
  BY <1>6, <1>7, <1>8, <1>9, <1>10, <1>11 DEF Inv

\* Only a drawn token has a child process or a message.
LEMMA DrawnIfSent ==
    ASSUME Inv, NEW t \in Tokens, child[t] # "none" \/ wire[t] # "none"
    PROVE  t <= issued /\ of[t] \in Notifications /\ state[of[t]] # "absent"
<1>1. t \in Nat /\ issued \in Nat
  BY BoundAssumption DEF Inv, TypeOK, Tokens
<1>2. ~(t > issued)
  BY DEF Inv, TokensDrawn
<1>3. t <= issued
  BY <1>1, <1>2
<1> QED
  BY <1>3 DEF Inv, TokensDrawn

\* What finish stores for an outcome: an acceptance and an unknown outcome are kept
\* as they are, anything else becomes a retry or a final refusal.
LEMMA SettledCases ==
    ASSUME NEW r \in Outcomes, NEW n, NEW tried
    PROVE  \/ r = "accepted" /\ Settled(r, n, tried) = "accepted"
           \/ r = "unknown" /\ Settled(r, n, tried) = "unknown"
           \/ /\ r \in {"temporary", "failed", "suppressed"}
              /\ Settled(r, n, tried) \in {"retry_wait", "failed", "suppressed"}
  BY DEF Settled, Outcomes

\* finish: a row leaves the claim only with an outcome its attempt can bear.
LEMMA FinishStep ==
    ASSUME Inv, TypeOK', NEW w \in Workers, Finish(w)
    PROVE  Inv'
<1> DEFINE t == tok[w]
           n == of[tok[w]]
           s == Settled(result[w], n, count[n] + IF state[n] = "leased" THEN 1 ELSE 0)
<1>1. /\ pc[w] = "finishing" /\ t \in Tokens /\ t <= issued /\ n \in Notifications
      /\ Release(w)
  BY ClaimHeld DEF Finish
<1>2. UNCHANGED <<token, issued, of, child, wire>>
  BY DEF Finish, sendVars
<1>3. CASE ~StillMine(n, t)
  <2>1. UNCHANGED state
    BY <1>3 DEF Finish
  <2> QED
    BY <1>1, <1>2, <2>1, ReleaseStep
<1>4. CASE StillMine(n, t)
  <2>1. \A m \in Notifications : state'[m] = IF m = n THEN s ELSE state[m]
    <3>1. state \in [Notifications -> States]
      BY Functional DEF Inv
    <3>2. state' = [state EXCEPT ![n] = s]
      BY <1>4 DEF Finish
    <3> HIDE DEF s, n
    <3> QED
      BY <1>1, <3>1, <3>2
  <2>2. \A v \in Workers : /\ pc'[v] = IF v = w THEN "idle" ELSE pc[v]
                           /\ tok'[v] = IF v = w THEN 0 ELSE tok[v]
                           /\ result'[v] = IF v = w THEN "none" ELSE result[v]
    BY <1>1, Functional DEF Release, Inv
  <2>3. result[w] \in Outcomes /\ token[n] = t
    BY <1>1, <1>4 DEF Inv, ResultIsSound, StillMine
  <2>4. \/ result[w] = "accepted" /\ s = "accepted"
        \/ result[w] = "unknown" /\ s = "unknown"
        \/ /\ result[w] \in {"temporary", "failed", "suppressed"}
           /\ s \in {"retry_wait", "failed", "suppressed"}
    BY <2>3, SettledCases
  <2>5. state[n] = "leased" => child[t] = "none" /\ wire[t] = "none"
    BY <1>1, <2>3 DEF Inv, RowNamesClaim, ChildKnows
  <2>6. state[n] = "sending" => child[t] # "none"
    BY <1>1, <2>3 DEF Inv, RowNamesClaim
  <2>7. /\ s = "accepted" => AcceptedOn(t)
        /\ s = "unknown" => child[t] # "none"
        /\ s \in {"retry_wait", "failed", "suppressed"} => ~AcceptedOn(t) /\ ~MayStillArrive(t)
    BY <1>1, <1>4, <2>4, <2>5, <2>6
       DEF Inv, ResultIsSound, StillMine, AcceptedOn, MayStillArrive
  <2> HIDE DEF s
  <2>8. TokensDrawn' /\ ChildKnows'
    BY <1>2, <2>1, <2>4 DEF Inv, TokensDrawn, ChildKnows
  <2>9. RowNamesClaim'
    BY <1>1, <1>2, <2>1, <2>3, <2>4, <2>7 DEF Inv, RowNamesClaim, AcceptedOn
  <2>10. SentByCurrentClaim'
    <3> SUFFICES ASSUME NEW u \in Tokens
                 PROVE  /\ MayStillArrive(u) => /\ token[of[u]] = u
                                                /\ state'[of[u]] \in {"sending", "unknown"}
                        /\ AcceptedOn(u) =>
                              /\ token[of[u]] = u
                              /\ state'[of[u]] \in {"sending", "unknown", "accepted"}
      BY <1>2 DEF SentByCurrentClaim, AcceptedOn, MayStillArrive
    <3>1. /\ MayStillArrive(u) => /\ token[of[u]] = u
                                  /\ state[of[u]] \in {"sending", "unknown"}
          /\ AcceptedOn(u) => /\ token[of[u]] = u
                              /\ state[of[u]] \in {"sending", "unknown", "accepted"}
      BY DEF Inv, SentByCurrentClaim
    <3>2. MayStillArrive(u) \/ AcceptedOn(u) => of[u] \in Notifications
      BY DrawnIfSent DEF MayStillArrive, AcceptedOn
    <3>3. CASE u = t
      <4>1. child[t] = "none" => ~MayStillArrive(t) /\ ~AcceptedOn(t)
        BY <1>1 DEF Inv, ChildKnows, MayStillArrive, AcceptedOn
      <4>2. s = "accepted" => ~MayStillArrive(t)
        <5>1. s = "accepted" => wire[t] = "accepted"
          BY <2>7 DEF AcceptedOn
        <5> QED
          BY <1>1, <5>1 DEF Inv, ChildKnows, MayStillArrive
      <4> QED
        BY <1>1, <2>1, <2>4, <2>7, <3>1, <3>3, <4>1, <4>2
    <3>4. CASE u # t
      BY <1>1, <2>1, <2>3, <3>1, <3>2, <3>4
    <3> QED
      BY <3>3, <3>4
  <2>11. WorkerHoldsClaim'
    BY <1>2, <2>2 DEF Inv, WorkerHoldsClaim
  <2>12. ResultIsSound'
    <3> SUFFICES ASSUME NEW v \in Workers, pc[v] = "finishing", v # w
                 PROVE  LET u == tok[v]
                            m == of[tok[v]] IN
          /\ result[v] \in Outcomes
          /\ StillMine(m, u)' /\ state'[m] = "leased" => result[v] \in {"temporary", "suppressed"}
          /\ StillMine(m, u)' /\ state'[m] = "sending" =>
                /\ result[v] = "accepted" => AcceptedOn(u)
                /\ result[v] \in {"temporary", "failed", "suppressed"}
                      => ~AcceptedOn(u) /\ ~MayStillArrive(u)
      BY <1>2, <2>2 DEF ResultIsSound, StillMine, AcceptedOn, MayStillArrive
    <3>1. tok[v] \in Tokens /\ of[tok[v]] \in Notifications
      BY ClaimHeld
    <3>2. of[tok[v]] = n => state'[of[tok[v]]] \notin {"leased", "sending"}
      BY <2>1, <2>4, <1>1
    <3>3. of[tok[v]] # n => state'[of[tok[v]]] = state[of[tok[v]]]
      BY <2>1, <3>1
    <3>4. result[v] \in Outcomes
      BY DEF Inv, ResultIsSound
    <3>5. CASE of[tok[v]] = n
      BY <1>2, <2>2, <3>2, <3>4, <3>5 DEF StillMine
    <3>6. CASE of[tok[v]] # n
      <4>1. StillMine(of[tok[v]], tok[v])' => StillMine(of[tok[v]], tok[v])
        BY <1>2, <2>2, <3>3, <3>6 DEF StillMine
      <4> QED
        BY <3>3, <3>6, <4>1 DEF Inv, ResultIsSound
    <3> QED
      BY <3>5, <3>6
  <2> QED
    BY <2>8, <2>9, <2>10, <2>11, <2>12 DEF Inv
<1> QED
  BY <1>3, <1>4

\* What recover_and_claim does to each row.
LEMMA RecoveredRows ==
    ASSUME Inv, NEW n \in Notifications
    PROVE  \/ Recovered[n] = state[n] /\ RecoveredToken[n] = token[n]
           \/ state[n] = "sending" /\ Recovered[n] = "unknown" /\ RecoveredToken[n] = token[n]
           \/ state[n] = "leased" /\ Recovered[n] = "pending" /\ RecoveredToken[n] = 0
  BY DEF Recovered, RecoveredToken, Lapsed

\* Recovery alone keeps every fact about rows and messages: only a row whose
\* message is already out, or one that was never started, is recovered.
LEMMA RecoveryKeeps ==
    ASSUME Inv, NEW n \in Notifications
    PROVE  /\ RecoveredToken[n] <= issued
           /\ Recovered[n] \in {"leased", "sending", "unknown"}
                 => RecoveredToken[n] \in Tokens /\ of[RecoveredToken[n]] = n
           /\ Recovered[n] = "leased" => child[RecoveredToken[n]] = "none"
           /\ Recovered[n] \in {"sending", "unknown"} => child[RecoveredToken[n]] # "none"
           /\ Recovered[n] = "accepted" => \E t \in Tokens : of[t] = n /\ wire[t] = "accepted"
           /\ Recovered[n] = "absent" <=> state[n] = "absent"
           /\ \A t \in Tokens : of[t] = n =>
                 /\ MayStillArrive(t) => /\ RecoveredToken[n] = t
                                         /\ Recovered[n] \in {"sending", "unknown"}
                 /\ AcceptedOn(t) => /\ RecoveredToken[n] = t
                                     /\ Recovered[n] \in {"sending", "unknown", "accepted"}
<1>1. \/ Recovered[n] = state[n] /\ RecoveredToken[n] = token[n]
      \/ state[n] = "sending" /\ Recovered[n] = "unknown" /\ RecoveredToken[n] = token[n]
      \/ state[n] = "leased" /\ Recovered[n] = "pending" /\ RecoveredToken[n] = 0
  BY RecoveredRows
<1>2. token[n] <= issued /\ 0 <= issued
  BY BoundAssumption DEF Inv, TokensDrawn, TypeOK
<1>3. /\ state[n] \in {"leased", "sending", "unknown"} => token[n] \in Tokens /\ of[token[n]] = n
      /\ state[n] = "leased" => child[token[n]] = "none"
      /\ state[n] \in {"sending", "unknown"} => child[token[n]] # "none"
      /\ state[n] = "accepted" => \E t \in Tokens : of[t] = n /\ wire[t] = "accepted"
  BY DEF Inv, RowNamesClaim
<1>4. \A t \in Tokens : of[t] = n =>
         /\ MayStillArrive(t) => token[n] = t /\ state[n] \in {"sending", "unknown"}
         /\ AcceptedOn(t) => token[n] = t /\ state[n] \in {"sending", "unknown", "accepted"}
  BY DEF Inv, SentByCurrentClaim
<1> QED
  BY <1>1, <1>2, <1>3, <1>4

\* A pass that only recovers lapsed leases keeps the invariant.
LEMMA FindNothingStep ==
    ASSUME Inv, TypeOK', NEW w \in Workers, FindNothing(w)
    PROVE  Inv'
<1>1. /\ UNCHANGED <<issued, of, child, wire>>
      /\ state' = Recovered /\ token' = RecoveredToken /\ Release(w)
  BY DEF FindNothing, sendVars
<1>2. \A v \in Workers : /\ pc'[v] = IF v = w THEN "idle" ELSE pc[v]
                         /\ tok'[v] = IF v = w THEN 0 ELSE tok[v]
                         /\ result'[v] = IF v = w THEN "none" ELSE result[v]
  BY <1>1, Functional DEF Release, Inv
<1>3. TokensDrawn' /\ ChildKnows'
  BY <1>1, RecoveryKeeps DEF Inv, TokensDrawn, ChildKnows
<1>4. RowNamesClaim'
  BY <1>1, RecoveryKeeps DEF RowNamesClaim
<1>5. SentByCurrentClaim'
  BY <1>1, RecoveryKeeps, DrawnIfSent DEF SentByCurrentClaim, MayStillArrive, AcceptedOn
<1>6. WorkerHoldsClaim'
  BY <1>1, <1>2 DEF Inv, WorkerHoldsClaim
<1>7. ResultIsSound'
  <2> SUFFICES ASSUME NEW v \in Workers, pc[v] = "finishing", v # w
               PROVE  LET u == tok[v]
                          m == of[tok[v]] IN
        /\ result[v] \in Outcomes
        /\ (token'[m] = u /\ state'[m] = "leased") => result[v] \in {"temporary", "suppressed"}
        /\ (token'[m] = u /\ state'[m] = "sending") =>
              /\ result[v] = "accepted" => AcceptedOn(u)
              /\ result[v] \in {"temporary", "failed", "suppressed"}
                    => ~AcceptedOn(u) /\ ~MayStillArrive(u)
    BY <1>1, <1>2 DEF ResultIsSound, StillMine, AcceptedOn, MayStillArrive
  <2>1. of[tok[v]] \in Notifications
    BY ClaimHeld
  <2>2. state'[of[tok[v]]] \in {"leased", "sending"} =>
           state'[of[tok[v]]] = state[of[tok[v]]] /\ token'[of[tok[v]]] = token[of[tok[v]]]
    BY <1>1, <2>1, RecoveredRows
  <2> QED
    BY <2>2 DEF Inv, ResultIsSound, StillMine
<1> QED
  BY <1>3, <1>4, <1>5, <1>6, <1>7 DEF Inv

\* The claim: a fresh token for a row of which nothing has arrived or can arrive.
LEMMA ClaimStep ==
    ASSUME Inv, TypeOK', NEW w \in Workers, NEW n \in Notifications, ClaimNext(w, n)
    PROVE  Inv'
<1> DEFINE k == issued + 1
<1>1. /\ k \in Tokens /\ issued \in Nat /\ k > issued
      /\ child[k] = "none" /\ wire[k] = "none"
  BY BoundAssumption DEF ClaimNext, Inv, TypeOK, TokensDrawn, Tokens
<1>2. UNCHANGED <<child, wire, result>> /\ issued' = k
  BY DEF ClaimNext
<1>3. /\ \A t \in Tokens : of'[t] = IF t = k THEN n ELSE of[t]
      /\ \A v \in Workers : /\ pc'[v] = IF v = w THEN "claimed" ELSE pc[v]
                            /\ tok'[v] = IF v = w THEN k ELSE tok[v]
  BY <1>1, Functional DEF ClaimNext, Inv
<1>4. \A m \in Notifications :
         /\ state'[m] = IF m = n THEN "leased" ELSE Recovered[m]
         /\ token'[m] = IF m = n THEN k ELSE RecoveredToken[m]
  BY RecoveredType DEF ClaimNext, Inv
<1>5. Recovered[n] \in {"pending", "retry_wait"}
  BY DEF ClaimNext, Ready
<1>6. \A t \in Tokens : t # k /\ of[t] = n => ~MayStillArrive(t) /\ ~AcceptedOn(t)
  BY <1>5, RecoveryKeeps
<1>7. \A m \in Notifications : RecoveredToken[m] <= issued /\ RecoveredToken[m] \in Nat
  BY RecoveryKeeps, RecoveredType DEF Inv
<1> HIDE DEF k
<1>8. TokensDrawn'
  <2>1. ASSUME NEW t \in Tokens, t <= k
        PROVE  of'[t] \in Notifications /\ state'[of'[t]] # "absent"
    <3>1. CASE t = k
      BY <1>3, <1>4, <3>1
    <3>2. CASE t # k
      <4>1. t <= issued
        BY <1>1, <2>1, <3>2 DEF k, Tokens
      <4>2. of[t] \in Notifications /\ state[of[t]] # "absent"
        BY <4>1 DEF Inv, TokensDrawn
      <4> QED
        BY <1>3, <1>4, <3>2, <4>2, RecoveryKeeps
    <3> QED
      BY <3>1, <3>2
  <2>2. ASSUME NEW t \in Tokens, t > k
        PROVE  child[t] = "none" /\ wire[t] = "none"
    <3>1. t > issued
      BY <1>1, <2>2 DEF k, Tokens
    <3> QED
      BY <3>1 DEF Inv, TokensDrawn
  <2>3. \A m \in Notifications : token'[m] <= k
    BY <1>1, <1>4, <1>7 DEF k
  <2> QED
    BY <1>2, <2>1, <2>2, <2>3 DEF TokensDrawn
<1>9. ChildKnows'
  BY <1>2 DEF Inv, ChildKnows
<1>10. RowNamesClaim'
  <2> SUFFICES ASSUME NEW m \in Notifications
               PROVE  /\ state'[m] \in {"leased", "sending", "unknown"}
                            => token'[m] \in Tokens /\ of'[token'[m]] = m
                      /\ state'[m] = "leased" => child[token'[m]] = "none"
                      /\ state'[m] \in {"sending", "unknown"} => child[token'[m]] # "none"
                      /\ state'[m] = "accepted"
                            => \E t \in Tokens : of'[t] = m /\ wire[t] = "accepted"
    BY <1>2 DEF RowNamesClaim
  <2>1. CASE m = n
    BY <1>1, <1>3, <1>4, <2>1
  <2>2. CASE m # n
    <3>1. RecoveredToken[m] # k
      BY <1>1, <1>7 DEF k
    <3>2. \A t \in Tokens : wire[t] = "accepted" => t # k
      BY <1>1
    <3> QED
      BY <1>3, <1>4, <2>2, <3>1, <3>2, RecoveryKeeps
  <2> QED
    BY <2>1, <2>2
<1>11. SentByCurrentClaim'
  <2> SUFFICES ASSUME NEW t \in Tokens, MayStillArrive(t) \/ AcceptedOn(t)
               PROVE  /\ MayStillArrive(t) => /\ token'[of'[t]] = t
                                              /\ state'[of'[t]] \in {"sending", "unknown"}
                      /\ AcceptedOn(t) =>
                            /\ token'[of'[t]] = t
                            /\ state'[of'[t]] \in {"sending", "unknown", "accepted"}
    BY <1>2 DEF SentByCurrentClaim, AcceptedOn, MayStillArrive
  <2>1. t # k /\ of[t] \in Notifications
    BY <1>1, DrawnIfSent DEF MayStillArrive, AcceptedOn
  <2>2. of[t] # n
    BY <1>6, <2>1
  <2> QED
    BY <1>3, <1>4, <2>1, <2>2, RecoveryKeeps
<1>12. \A v \in Workers : tok[v] # k
  BY <1>1 DEF Inv, WorkerHoldsClaim, k, Tokens
<1>13. WorkerHoldsClaim'
  <2>1. \A v \in Workers : pc[v] \notin {"idle", "gated"} => tok[v] \in Tokens /\ tok[v] <= k
    BY <1>1 DEF Inv, WorkerHoldsClaim, k, Tokens
  <2> QED
    <3>1. WorkerHoldsClaim
      BY DEF Inv
    <3>2. \A v \in Workers :
             IF pc'[v] \in {"idle", "gated"} THEN tok'[v] = 0
             ELSE tok'[v] \in Tokens /\ tok'[v] <= k
      BY <1>1, <1>3, <2>1, <3>1 DEF WorkerHoldsClaim, k
    <3>3. \A v, x \in Workers : tok'[v] = tok'[x] /\ tok'[v] # 0 => v = x
      BY <1>3, <1>12, <3>1 DEF WorkerHoldsClaim
    <3>4. \A v \in Workers :
             /\ pc'[v] \in {"claimed", "qualified"} => child[tok'[v]] = "none"
             /\ pc'[v] = "sending" => child[tok'[v]] # "none"
      BY <1>1, <1>3, <3>1 DEF WorkerHoldsClaim
    <3> QED
      BY <1>2, <3>2, <3>3, <3>4 DEF WorkerHoldsClaim
<1>14. ResultIsSound'
  <2> SUFFICES ASSUME NEW v \in Workers, pc[v] = "finishing", v # w
               PROVE  LET u == tok[v]
                          m == of[tok[v]] IN
        /\ result[v] \in Outcomes
        /\ (token'[m] = u /\ state'[m] = "leased") => result[v] \in {"temporary", "suppressed"}
        /\ (token'[m] = u /\ state'[m] = "sending") =>
              /\ result[v] = "accepted" => AcceptedOn(u)
              /\ result[v] \in {"temporary", "failed", "suppressed"}
                    => ~AcceptedOn(u) /\ ~MayStillArrive(u)
    <3>1. \A v \in Workers : pc'[v] = "finishing" => pc[v] = "finishing" /\ v # w
      BY <1>3
    <3>2. \A v \in Workers : pc'[v] = "finishing" =>
             tok'[v] = tok[v] /\ of'[tok[v]] = of[tok[v]]
      BY <1>3, <1>12, <3>1, ClaimHeld
    <3> QED
      BY <1>2, <3>1, <3>2 DEF ResultIsSound, StillMine, AcceptedOn, MayStillArrive
  <2>1. of[tok[v]] \in Notifications
    BY ClaimHeld
  <2>2. token'[of[tok[v]]] = tok[v] /\ state'[of[tok[v]]] \in {"leased", "sending"} =>
           state'[of[tok[v]]] = state[of[tok[v]]] /\ token'[of[tok[v]]] = token[of[tok[v]]]
    BY <1>4, <1>12, <2>1, RecoveredRows
  <2> QED
    BY <2>2 DEF Inv, ResultIsSound, StillMine
<1> QED
  BY <1>8, <1>9, <1>10, <1>11, <1>13, <1>14 DEF Inv

\* The child process and the provider: one token at a time, and a message is
\* sent, or accepted, only while its row names that token.
LEMMA ChildStep ==
    ASSUME Inv, TypeOK', NEW t \in Tokens, SendStep(t)
    PROVE  Inv'
<1>1. UNCHANGED <<issued, of, state, token, pc, tok, result>>
  BY DEF SendStep, EndsEarly, BeginData, ProviderDecides, EndsAfterData, ChildDies,
         rowVars, workerVars
<1>2. \A u \in Tokens : u # t => child'[u] = child[u] /\ wire'[u] = wire[u]
  BY Functional DEF Inv, SendStep, EndsEarly, BeginData, ProviderDecides, EndsAfterData,
                    ChildDies
<1>3. \/ child[t] = "connecting" /\ child'[t] = "transmitting" /\ wire'[t] = "sent"
      \/ /\ child[t] = "connecting"
         /\ child'[t] \in {"temporary", "failed", "suppressed", "gone"}
         /\ wire'[t] \in {wire[t], "rejected4", "rejected5"}
      \/ /\ wire[t] = "sent" /\ child'[t] = child[t]
         /\ wire'[t] \in {"accepted", "rejected4", "rejected5", "lost"}
      \/ /\ child[t] = "transmitting" /\ wire'[t] = wire[t]
         /\ \/ child'[t] \in {"unknown", "gone"}
            \/ wire[t] = "accepted" /\ child'[t] = "accepted"
            \/ wire[t] = "rejected4" /\ child'[t] = "temporary"
            \/ wire[t] = "rejected5" /\ child'[t] = "failed"
  <2>1. child = [u \in Tokens |-> child[u]] /\ wire = [u \in Tokens |-> wire[u]]
    BY Functional DEF Inv
  <2>2. CASE EndsEarly(t)
    BY <2>1, <2>2 DEF EndsEarly
  <2>3. CASE BeginData(t)
    BY <2>1, <2>3 DEF BeginData
  <2>4. CASE ProviderDecides(t)
    BY <2>1, <2>4 DEF ProviderDecides
  <2>5. CASE EndsAfterData(t)
    BY <2>1, <2>5 DEF EndsAfterData, ReplyOf
  <2>6. CASE ChildDies(t)
    BY <2>1, <2>6 DEF ChildDies
  <2> QED
    BY <2>2, <2>3, <2>4, <2>5, <2>6 DEF SendStep
<1>4. child[t] # "none" \/ wire[t] # "none"
  BY <1>3
<1>5. t <= issued /\ of[t] \in Notifications
  BY <1>4, DrawnIfSent
<1>6. child[t] \in {"none", "connecting"} => wire[t] = "none"
  BY DEF Inv, ChildKnows
<1>7. MayStillArrive(t)' \/ AcceptedOn(t)' => MayStillArrive(t) \/ AcceptedOn(t)
  BY <1>3, <1>6 DEF MayStillArrive, AcceptedOn
<1>8. MayStillArrive(t)' => MayStillArrive(t)
  BY <1>3, <1>6 DEF MayStillArrive
<1>9. TokensDrawn'
  <2>1. issued \in Nat /\ t \in Nat
    BY BoundAssumption DEF Inv, TypeOK, Tokens
  <2> QED
    BY <1>1, <1>2, <1>5, <2>1 DEF Inv, TokensDrawn
<1>10. ChildKnows'
  BY <1>2, <1>3, <1>6 DEF Inv, ChildKnows
<1>11. child'[t] # "none" \/ child[t] = "none"
  BY <1>3
<1>12. child[t] = "none" => child'[t] = "none"
  BY <1>3, <1>6
<1>13. RowNamesClaim'
  <2>1. \A u \in Tokens : wire[u] = "accepted" => wire'[u] = "accepted"
    BY <1>2, <1>3, <1>6
  <2>2. \A u \in Tokens : child'[u] = "none" <=> child[u] = "none"
    BY <1>2, <1>11, <1>12
  <2> QED
    BY <1>1, <2>1, <2>2 DEF Inv, RowNamesClaim
<1>14. SentByCurrentClaim'
  <2> SUFFICES ASSUME NEW u \in Tokens
               PROVE  /\ MayStillArrive(u)' => /\ token[of[u]] = u
                                               /\ state[of[u]] \in {"sending", "unknown"}
                      /\ AcceptedOn(u)' => /\ token[of[u]] = u
                                           /\ state[of[u]] \in {"sending", "unknown", "accepted"}
    BY <1>1 DEF SentByCurrentClaim
  <2>1. CASE u = t
    BY <1>7, <1>8, <2>1 DEF Inv, SentByCurrentClaim
  <2>2. CASE u # t
    BY <1>2, <2>2 DEF Inv, SentByCurrentClaim, MayStillArrive, AcceptedOn
  <2> QED
    BY <2>1, <2>2
<1>15. WorkerHoldsClaim'
  <2>1. \A u \in Tokens : child'[u] = "none" <=> child[u] = "none"
    BY <1>2, <1>11, <1>12
  <2>2. \A v \in Workers : pc[v] \notin {"idle", "gated"} => tok[v] \in Tokens
    BY DEF Inv, WorkerHoldsClaim
  <2> QED
    BY <1>1, <2>1, <2>2 DEF Inv, WorkerHoldsClaim
<1>16. ResultIsSound'
  <2> SUFFICES ASSUME NEW v \in Workers, pc[v] = "finishing"
               PROVE  LET u == tok[v]
                          m == of[tok[v]] IN
        /\ result[v] \in Outcomes
        /\ StillMine(m, u) /\ state[m] = "leased" => result[v] \in {"temporary", "suppressed"}
        /\ StillMine(m, u) /\ state[m] = "sending" =>
              /\ result[v] = "accepted" => wire'[u] = "accepted"
              /\ result[v] \in {"temporary", "failed", "suppressed"}
                    => ~(wire'[u] = "accepted")
                       /\ ~(child'[u] = "connecting" \/ wire'[u] = "sent")
    BY <1>1 DEF ResultIsSound, StillMine, AcceptedOn, MayStillArrive
  <2>1. tok[v] \in Tokens
    BY ClaimHeld
  <2>2. CASE tok[v] # t
    BY <1>2, <2>1, <2>2 DEF Inv, ResultIsSound, AcceptedOn, MayStillArrive
  <2>3. CASE tok[v] = t
    <3>1. AcceptedOn(t) => AcceptedOn(t)'
      BY <1>3, <1>6 DEF AcceptedOn
    <3>2. ~AcceptedOn(t) /\ ~MayStillArrive(t) => ~AcceptedOn(t)' /\ ~MayStillArrive(t)'
      BY <1>7
    <3> QED
      BY <2>3, <3>1, <3>2 DEF Inv, ResultIsSound, AcceptedOn, MayStillArrive
  <2> QED
    BY <2>2, <2>3
<1> QED
  BY <1>9, <1>10, <1>13, <1>14, <1>15, <1>16 DEF Inv

\* A new row, or a row the operator resolves: one row changes, and what it
\* becomes is backed by the provider.
LEMMA RowStep ==
    ASSUME Inv, TypeOK', NEW n \in Notifications, NEW s \in States,
           state' = [state EXCEPT ![n] = s],
           UNCHANGED <<token, issued, of, child, wire, pc, tok, result>>,
           state[n] \in {"absent", "unknown"},
           s \in {"pending", "accepted", "suppressed", "failed", "retry_wait"},
           s = "accepted" => \E t \in Tokens : of[t] = n /\ AcceptedOn(t),
           \A t \in Tokens : of[t] = n =>
               /\ ~MayStillArrive(t)
               /\ AcceptedOn(t) => s = "accepted"
    PROVE  Inv'
<1>1. \A m \in Notifications : state'[m] = IF m = n THEN s ELSE state[m]
  BY Functional DEF Inv
<1>2. TokensDrawn' /\ ChildKnows'
  BY <1>1 DEF Inv, TokensDrawn, ChildKnows
<1>3. RowNamesClaim'
  BY <1>1 DEF Inv, RowNamesClaim, AcceptedOn
<1>4. SentByCurrentClaim'
  <2> SUFFICES ASSUME NEW u \in Tokens, MayStillArrive(u) \/ AcceptedOn(u)
               PROVE  /\ MayStillArrive(u) => /\ token[of[u]] = u
                                              /\ state'[of[u]] \in {"sending", "unknown"}
                      /\ AcceptedOn(u) => /\ token[of[u]] = u
                                          /\ state'[of[u]] \in {"sending", "unknown", "accepted"}
    BY DEF SentByCurrentClaim, AcceptedOn, MayStillArrive
  <2>1. of[u] \in Notifications
    BY DrawnIfSent DEF AcceptedOn, MayStillArrive
  <2>2. /\ MayStillArrive(u) => token[of[u]] = u /\ state[of[u]] \in {"sending", "unknown"}
        /\ AcceptedOn(u) => /\ token[of[u]] = u
                            /\ state[of[u]] \in {"sending", "unknown", "accepted"}
    BY DEF Inv, SentByCurrentClaim
  <2> QED
    BY <1>1, <2>1, <2>2
<1>5. WorkerHoldsClaim'
  BY DEF Inv, WorkerHoldsClaim
<1>6. ResultIsSound'
  <2>1. \A v \in Workers : pc[v] = "finishing" => of[tok[v]] \in Notifications
    BY ClaimHeld
  <2> QED
    BY <1>1, <2>1 DEF Inv, ResultIsSound, StillMine, AcceptedOn, MayStillArrive
<1> QED
  BY <1>2, <1>3, <1>4, <1>5, <1>6 DEF Inv

\* Saving, resolving and the clock of one row keep the invariant.
LEMMA LedgerSteps ==
    ASSUME Inv, TypeOK', NEW n \in Notifications, LedgerStep(n)
    PROVE  Inv'
<1>1. CASE Enqueue(n)
  <2>1. /\ state[n] = "absent" /\ state' = [state EXCEPT ![n] = "pending"]
        /\ UNCHANGED <<token, issued, of, child, wire, pc, tok, result>>
    BY <1>1 DEF Enqueue, workerVars, sendVars
  <2>2. \A t \in Tokens : of[t] = n => ~MayStillArrive(t) /\ ~AcceptedOn(t)
    BY <2>1 DEF Inv, SentByCurrentClaim
  <2> QED
    BY <2>1, <2>2, RowStep DEF States
<1>2. CASE ResolveAccepted(n)
  <2>1. /\ state[n] = "unknown" /\ state' = [state EXCEPT ![n] = "accepted"]
        /\ UNCHANGED <<token, issued, of, child, wire, pc, tok, result>>
    BY <1>2 DEF ResolveAccepted, Resolve, Resolvable, workerVars, sendVars
  <2>2. PICK t \in Tokens : of[t] = n /\ wire[t] = "accepted"
    BY <1>2 DEF ResolveAccepted
  <2>3. token[n] = t
    BY <2>2 DEF Inv, SentByCurrentClaim, AcceptedOn
  <2>4. \A u \in Tokens : of[u] = n => ~MayStillArrive(u)
    BY <2>2, <2>3 DEF Inv, SentByCurrentClaim, ChildKnows, MayStillArrive
  <2> QED
    <3>1. "accepted" \in States /\ \E u \in Tokens : of[u] = n /\ AcceptedOn(u)
      BY <2>2 DEF States, AcceptedOn
    <3> QED
      BY <2>1, <2>4, <3>1, RowStep
<1>3. CASE ResolveRejected(n)
  <2>1. PICK s \in {"suppressed", "failed", "retry_wait"} : Resolve(n, s)
    BY <1>3 DEF ResolveRejected
  <2>2. /\ state[n] = "unknown" /\ state' = [state EXCEPT ![n] = s]
        /\ UNCHANGED <<token, issued, of, child, wire, pc, tok, result>>
    BY <2>1 DEF Resolve, Resolvable, workerVars, sendVars
  <2>3. token[n] \in Tokens /\ wire[token[n]] \in {"rejected4", "rejected5"}
    BY <1>3 DEF ResolveRejected
  <2>4. \A u \in Tokens : of[u] = n => ~MayStillArrive(u) /\ ~AcceptedOn(u)
    BY <2>3 DEF Inv, SentByCurrentClaim, ChildKnows, MayStillArrive, AcceptedOn
  <2> QED
    BY <2>2, <2>4, RowStep DEF States
<1>4. CASE LeaseRunsOut(n) \/ BecomesDue(n) \/ Expires(n)
  BY <1>4, Frame DEF LeaseRunsOut, BecomesDue, Expires, rowVars, workerVars, sendVars
<1> QED
  BY <1>1, <1>2, <1>3, <1>4 DEF LedgerStep

\* The invariant is inductive: one case per kind of step.
LEMMA InvStep == Inv /\ [Next]_vars => Inv'
<1> SUFFICES ASSUME Inv, [Next]_vars PROVE Inv'
  OBVIOUS
<1>0. TypeOK'
  BY TypeStep
<1>1. CASE RecipientStep
  BY <1>0, <1>1, Frame DEF RecipientStep, UpdatePreference, ChangeAddress,
                           ChangeQualification, rowVars, workerVars, sendVars
<1>2. ASSUME NEW w \in Workers, WorkerStep(w) PROVE Inv'
  <2>1. CASE TakeGate(w)
    BY <1>0, <2>1, TakeGateStep
  <2>2. CASE \E n \in Notifications : ClaimNext(w, n)
    BY <1>0, <2>2, ClaimStep
  <2>3. CASE FindNothing(w)
    BY <1>0, <2>3, FindNothingStep
  <2>4. CASE Qualify(w) \/ QualifyFails(w) \/ Receive(w)
    BY <1>0, <2>4, DecideStep
  <2>5. CASE Start(w)
    BY <1>0, <2>5, StartStep
  <2>6. CASE ClaimLost(w)
    BY <1>0, <2>6, ReleaseStep DEF ClaimLost, rowVars, sendVars
  <2>7. CASE GiveUp(w)
    BY <1>0, <2>7, GiveUpStep
  <2>8. CASE Finish(w)
    BY <1>0, <2>8, FinishStep
  <2> QED
    BY <1>2, <2>1, <2>2, <2>3, <2>4, <2>5, <2>6, <2>7, <2>8 DEF WorkerStep
<1>3. ASSUME NEW t \in Tokens, SendStep(t) PROVE Inv'
  BY <1>0, <1>3, ChildStep
<1>4. ASSUME NEW n \in Notifications, LedgerStep(n) PROVE Inv'
  BY <1>0, <1>4, LedgerSteps
<1>5. CASE FaultStep
  <2>1. ASSUME NEW w \in Workers, Crash(w) PROVE Inv'
    BY <1>0, <2>1, ReleaseStep DEF Crash, rowVars, sendVars
  <2>2. ASSUME NEW w \in Workers, LoseGuard(w) PROVE Inv'
    <3>1. UNCHANGED <<state, token, issued, of, child, wire, pc, tok, result>>
      BY <2>2 DEF LoseGuard, rowVars, sendVars
    <3> QED
      BY <1>0, <3>1, Frame
  <2>3. CASE LoseGate
    <3>1. UNCHANGED <<state, token, issued, of, child, wire, pc, tok, result>>
      BY <2>3 DEF LoseGate, rowVars, sendVars
    <3> QED
      BY <1>0, <3>1, Frame
  <2> QED
    BY <1>5, <2>1, <2>2, <2>3 DEF FaultStep
<1>6. CASE UNCHANGED vars
  BY <1>0, <1>6, Frame DEF vars, rowVars, workerVars, sendVars
<1> QED
  BY <1>1, <1>2, <1>3, <1>4, <1>5, <1>6 DEF Next

\* The inductive invariant behind every safety theorem of the approval-mail worker:
\* which token may still be heard of, in which state of its row.
THEOREM InvCorrect == Spec => []Inv
  BY InvInit, InvStep, PTL DEF Spec

\* Every variable keeps its type: in particular no ledger state is written that
\* the CHECK constraint of notification_email_deliveries would refuse.
THEOREM TypeCorrect == Spec => []TypeOK
<1>1. Inv => TypeOK
  BY DEF Inv
<1> QED
  BY <1>1, InvCorrect, PTL

\* For any number of workers, crashes, stalls and lost connections, the provider
\* accepts at most one attempt of a notification.
THEOREM AtMostOnce == Spec => []AtMostOneAcceptance
<1>1. Inv => AtMostOneAcceptance
  BY DEF Inv, SentByCurrentClaim, AtMostOneAcceptance
<1> QED
  BY <1>1, InvCorrect, PTL

\* The ledger's final states, and its retryable ones, tell the truth about the
\* provider.
THEOREM VerdictTrue == Spec => []VerdictIsTrue
<1>1. Inv => VerdictIsTrue
  BY DEF Inv, RowNamesClaim, SentByCurrentClaim, VerdictIsTrue, AcceptedOn
<1> QED
  BY <1>1, InvCorrect, PTL

-----------------------------------------------------------------------------
(* Attempts.                                                                *)

CountInv ==
    /\ AttemptsWithinLimit
    /\ \A n \in Notifications : state[n] = "absent" => count[n] = 0

\* No attempt is counted at the start.
LEMMA CountInit == Init => CountInv
  BY DEF Init, CountInv, AttemptsWithinLimit, RetryDelays

\* An action that leaves counts alone and moves no row into a state with a
\* tighter bound keeps the limit.
LEMMA CountFrame ==
    ASSUME CountInv, count \in [Notifications -> Nat], count' = count,
           \A n \in Notifications :
               \/ state'[n] = state[n]
               \/ state[n] \in {"leased", "absent"} /\ state'[n] = "pending"
               \/ state[n] \in {"pending", "retry_wait"} /\ state'[n] = "leased"
               \/ state[n] = "leased" /\ state'[n] = "leased"
               \/ state[n] = "sending" /\ state'[n] = "unknown"
               \/ state'[n] \in {"accepted", "failed", "suppressed"}
               \/ state[n] = "unknown" /\ state'[n] = "retry_wait" /\ count[n] < 4
    PROVE  CountInv'
<1>1. \A n \in Notifications : state'[n] = "absent" => state[n] = "absent"
  OBVIOUS
<1>2. Len(RetryDelays) = 3
  BY DEF RetryDelays
<1> QED
  BY <1>1, <1>2 DEF CountInv, AttemptsWithinLimit

\* No step of recover_and_claim, deliver, finish or resolve exceeds the limit of
\* attempts that goes with the state it leaves.
LEMMA CountStep == Inv /\ CountInv /\ [Next]_vars => CountInv'
<1> SUFFICES ASSUME Inv, CountInv, [Next]_vars PROVE CountInv'
  OBVIOUS
<1>0. /\ state \in [Notifications -> States] /\ count \in [Notifications -> Nat]
      /\ Len(RetryDelays) = 3
  BY DEF Inv, TypeOK, RetryDelays
<1>1. CASE UNCHANGED <<state, count>>
  BY <1>0, <1>1, CountFrame
<1>2. ASSUME NEW w \in Workers, NEW n \in Notifications, ClaimNext(w, n) PROVE CountInv'
  <2>1. count' = count /\ Recovered[n] \in {"pending", "retry_wait"}
    BY <1>2 DEF ClaimNext, Ready
  <2>2. \A m \in Notifications : state'[m] = IF m = n THEN "leased" ELSE Recovered[m]
    BY <1>2, RecoveredType DEF ClaimNext, Inv
  <2> QED
    BY <1>0, <2>1, <2>2, RecoveredRows, CountFrame
<1>3. ASSUME NEW w \in Workers, FindNothing(w) PROVE CountInv'
  <2>1. count' = count /\ state' = Recovered
    BY <1>3 DEF FindNothing
  <2> QED
    BY <1>0, <2>1, RecoveredRows, CountFrame
<1>4. ASSUME NEW w \in Workers, Start(w) PROVE CountInv'
  <2> DEFINE n == of[tok[w]]
  <2>1. n \in Notifications /\ state[n] = "leased"
    BY <1>4, ClaimHeld DEF Start
  <2>2. /\ \A m \in Notifications : state'[m] = IF m = n THEN "sending" ELSE state[m]
        /\ \A m \in Notifications : count'[m] = IF m = n THEN count[n] + 1 ELSE count[m]
    BY <1>0, <1>4, <2>1 DEF Start
  <2> HIDE DEF n
  <2> QED
    BY <1>0, <2>1, <2>2 DEF CountInv, AttemptsWithinLimit
<1>5. ASSUME NEW w \in Workers, Finish(w) PROVE CountInv'
  <2> DEFINE n == of[tok[w]]
             tried == count[n] + IF state[n] = "leased" THEN 1 ELSE 0
             s == Settled(result[w], n, tried)
  <2>1. n \in Notifications /\ result[w] \in Outcomes
    BY <1>5, ClaimHeld DEF Finish, Inv, ResultIsSound
  <2>2. CASE ~StillMine(n, tok[w])
    BY <1>1, <1>5, <2>2 DEF Finish
  <2>3. CASE StillMine(n, tok[w])
    <3>1. state[n] \in {"leased", "sending"}
      BY <2>3 DEF StillMine
    <3>2. tried \in 1..4
      BY <1>0, <2>1, <3>1 DEF CountInv, AttemptsWithinLimit
    <3>3. s = "retry_wait" => tried <= 3
      BY <1>0, <2>1 DEF Settled, Outcomes
    <3>4. s \notin {"absent", "pending", "leased", "sending"}
      BY <2>1, SettledType
    <3>5. state' = [state EXCEPT ![n] = s] /\ count' = [count EXCEPT ![n] = tried]
      BY <1>5, <2>3 DEF Finish
    <3> HIDE DEF n, tried, s
    <3>6. /\ \A m \in Notifications : state'[m] = IF m = n THEN s ELSE state[m]
          /\ \A m \in Notifications : count'[m] = IF m = n THEN tried ELSE count[m]
      BY <1>0, <2>1, <3>5
    <3> QED
      BY <1>0, <2>1, <3>2, <3>3, <3>4, <3>6 DEF CountInv, AttemptsWithinLimit
  <2> QED
    BY <2>2, <2>3
<1>6. ASSUME NEW n \in Notifications, Enqueue(n) PROVE CountInv'
  BY <1>0, <1>6, CountFrame DEF Enqueue
<1>7. ASSUME NEW n \in Notifications, ResolveAccepted(n) PROVE CountInv'
  BY <1>0, <1>7, CountFrame DEF ResolveAccepted, Resolve
<1>8. ASSUME NEW n \in Notifications, ResolveRejected(n) PROVE CountInv'
  <2>1. PICK s \in {"suppressed", "failed", "retry_wait"} :
           Resolve(n, s) /\ (s = "retry_wait" => ~(count[n] >= 4))
    BY <1>8 DEF ResolveRejected
  <2>2. count' = count /\ state[n] = "unknown" /\ state' = [state EXCEPT ![n] = s]
    BY <2>1 DEF Resolve, Resolvable
  <2>3. s = "retry_wait" => count[n] < 4
    BY <1>0, <2>1
  <2> QED
    BY <1>0, <2>2, <2>3, CountFrame
<1>9. CASE RecipientStep
  BY <1>1, <1>9 DEF RecipientStep, UpdatePreference, ChangeAddress, ChangeQualification, rowVars
<1>10. ASSUME NEW w \in Workers, WorkerStep(w) PROVE CountInv'
  <2>1. CASE TakeGate(w) \/ Qualify(w) \/ QualifyFails(w) \/ ClaimLost(w) \/ Receive(w) \/ GiveUp(w)
    BY <1>1, <2>1 DEF TakeGate, Qualify, QualifyFails, ClaimLost, Receive, GiveUp, rowVars
  <2> QED
    BY <1>2, <1>3, <1>4, <1>5, <1>10, <2>1 DEF WorkerStep
<1>11. ASSUME NEW t \in Tokens, SendStep(t) PROVE CountInv'
  BY <1>1, <1>11 DEF SendStep, EndsEarly, BeginData, ProviderDecides, EndsAfterData, ChildDies,
                     rowVars
<1>12. ASSUME NEW n \in Notifications, LedgerStep(n) PROVE CountInv'
  <2>1. CASE LeaseRunsOut(n) \/ BecomesDue(n) \/ Expires(n)
    BY <1>1, <2>1 DEF LeaseRunsOut, BecomesDue, Expires, rowVars
  <2> QED
    BY <1>6, <1>7, <1>8, <1>12, <2>1 DEF LedgerStep
<1>13. CASE FaultStep
  BY <1>1, <1>13 DEF FaultStep, Crash, LoseGuard, LoseGate, rowVars
<1>14. CASE UNCHANGED vars
  BY <1>1, <1>14 DEF vars, rowVars
<1> QED
  BY <1>9, <1>10, <1>11, <1>12, <1>13, <1>14 DEF Next

\* No delivery is tried more than four times and the retry delay is always one
\* of the three in the table.
THEOREM AttemptsBounded == Spec => []AttemptsWithinLimit
<1>1. CountInv => AttemptsWithinLimit
  BY DEF CountInv
<1> QED
  BY <1>1, CountInit, CountStep, InvCorrect, PTL DEF Spec

-----------------------------------------------------------------------------
(* The guard.                                                               *)

\* No guard transaction is open at the start.
LEMMA GuardInit == Init => GuardProtects
  BY DEF Init, GuardProtects

\* Nothing the decision of a guarded worker rests on has changed, and nobody
\* new is guarded.
LEMMA GuardFrame ==
    ASSUME Inv, GuardProtects,
           UNCHANGED <<pref, address, qualified, bound, of, tok>>,
           guard' \subseteq guard,
           \A w \in guard' : pc'[w] \in {"qualified", "sending"}
                                => pc[w] \in {"qualified", "sending"}
    PROVE  GuardProtects'
  BY DEF GuardProtects, Stands

\* While a guard transaction is open, what its worker decided upon cannot change.
LEMMA GuardStep == Inv /\ GuardProtects /\ [Next]_vars => GuardProtects'
<1> SUFFICES ASSUME Inv, GuardProtects, [Next]_vars PROVE GuardProtects'
  OBVIOUS
<1>0. /\ guard \subseteq Workers /\ of \in [Tokens -> Notifications \cup {NoOne}]
      /\ pc = [w \in Workers |-> pc[w]] /\ tok = [w \in Workers |-> tok[w]]
  BY Functional DEF Inv, TypeOK
<1>1. ASSUME NEW w \in guard, pc[w] \in {"qualified", "sending"}
      PROVE  /\ tok[w] \in Tokens /\ tok[w] <= issued /\ of[tok[w]] \in Notifications
             /\ state[of[tok[w]]] # "absent" /\ w \in GuardsOf(To[of[tok[w]]])
  BY <1>0, <1>1, ClaimHeld DEF GuardsOf
<1>2. CASE RecipientStep
  <2>1. UNCHANGED <<guard, pc, tok, of, bound>>
    BY <1>2 DEF RecipientStep, UpdatePreference, ChangeAddress, ChangeQualification,
                workerVars, sendVars, rowVars
  <2> SUFFICES ASSUME NEW w \in guard, pc[w] \in {"qualified", "sending"}
               PROVE  Stands(of[tok[w]])'
    BY <2>1 DEF GuardProtects
  <2> DEFINE r == To[of[tok[w]]]
  <2>2. Stands(of[tok[w]]) /\ w \in GuardsOf(r) /\ r \in Recipients
    BY <1>1, ToAssumption DEF GuardProtects
  <2>3. pref'[r] = pref[r] /\ address'[r] = address[r] /\ qualified'[r] = qualified[r]
    <3>1. ASSUME NEW u \in Recipients, NEW on \in BOOLEAN, UpdatePreference(u, on)
          PROVE  pref'[r] = pref[r] /\ address'[r] = address[r] /\ qualified'[r] = qualified[r]
      BY <2>2, <3>1 DEF UpdatePreference, Inv, TypeOK
    <3>2. ASSUME NEW u \in Recipients, NEW a \in Addresses, ChangeAddress(u, a)
          PROVE  FALSE
      BY <3>2 DEF ChangeAddress
    <3>3. ASSUME NEW u \in Recipients, ChangeQualification(u)
          PROVE  pref'[r] = pref[r] /\ address'[r] = address[r] /\ qualified'[r] = qualified[r]
      BY <2>2, <3>3 DEF ChangeQualification, Inv, TypeOK
    <3> QED
      BY <1>2, <3>1, <3>2, <3>3 DEF RecipientStep
  <2> QED
    BY <2>1, <2>2, <2>3 DEF Stands
<1>3. ASSUME NEW w \in Workers, Qualify(w) PROVE GuardProtects'
  <2>1. UNCHANGED <<pref, address, qualified, bound, of, tok>> /\ guard' = guard \cup {w}
    BY <1>3 DEF Qualify, prefVars, rowVars, sendVars
  <2>2. pc'[w] = "qualified" => Stands(of[tok[w]])
    BY <1>0, <1>3 DEF Qualify
  <2>3. pc'[w] \in {"qualified", "finishing"} /\ \A v \in Workers : v # w => pc'[v] = pc[v]
    BY <1>0, <1>3 DEF Qualify
  <2> QED
    BY <1>0, <2>1, <2>2, <2>3 DEF GuardProtects, Stands
<1>4. ASSUME NEW w \in Workers, NEW n \in Notifications, ClaimNext(w, n) PROVE GuardProtects'
  <2>1. UNCHANGED <<pref, address, qualified, bound, guard>>
    BY <1>4 DEF ClaimNext, prefVars
  <2>2. issued + 1 \in Tokens /\ issued \in Nat
    BY <1>4, BoundAssumption DEF ClaimNext, Inv, TypeOK, Tokens
  <2>3. /\ \A t \in Tokens : t <= issued => of'[t] = of[t]
        /\ pc'[w] = "claimed"
        /\ \A v \in Workers : v # w => pc'[v] = pc[v] /\ tok'[v] = tok[v]
    BY <1>0, <1>4, <2>2 DEF ClaimNext
  <2> SUFFICES ASSUME NEW v \in guard, pc'[v] \in {"qualified", "sending"}
               PROVE  Stands(of[tok[v]])'
    BY <2>1 DEF GuardProtects
  <2>4. v # w /\ tok'[v] = tok[v] /\ pc[v] \in {"qualified", "sending"}
    BY <1>0, <2>3
  <2>5. of'[tok'[v]] = of[tok[v]]
    BY <1>1, <2>3, <2>4
  <2> QED
    BY <2>1, <2>4, <2>5 DEF GuardProtects, Stands
<1>5. ASSUME NEW n \in Notifications, Enqueue(n) PROVE GuardProtects'
  <2>1. /\ UNCHANGED <<pref, address, qualified, of, tok, guard, pc>> /\ state[n] = "absent"
        /\ \A m \in Notifications : m # n => bound'[m] = bound[m]
    BY <1>5 DEF Enqueue, prefVars, sendVars, workerVars, Inv, TypeOK
  <2> SUFFICES ASSUME NEW v \in guard, pc[v] \in {"qualified", "sending"}
               PROVE  Stands(of[tok[v]])'
    BY <2>1 DEF GuardProtects
  <2>2. bound'[of[tok[v]]] = bound[of[tok[v]]]
    BY <1>1, <2>1
  <2> QED
    BY <2>1, <2>2 DEF GuardProtects, Stands
<1>6. ASSUME NEW w \in Workers, Release(w), UNCHANGED <<pref, address, qualified, bound, of>>
      PROVE  GuardProtects'
  <2>1. /\ guard' = guard \ {w}
        /\ \A v \in Workers : v # w => pc'[v] = pc[v] /\ tok'[v] = tok[v]
    BY <1>0, <1>6 DEF Release
  <2> QED
    BY <1>0, <1>6, <2>1 DEF GuardProtects, Stands
<1>7. ASSUME NEW w \in Workers, WorkerStep(w) PROVE GuardProtects'
  <2>1. CASE FindNothing(w) \/ ClaimLost(w) \/ Finish(w)
    BY <1>6, <2>1 DEF FindNothing, ClaimLost, Finish, prefVars, rowVars, sendVars
  <2>2. CASE TakeGate(w) \/ Receive(w)
    BY <1>0, <2>2, GuardFrame DEF TakeGate, Receive, prefVars, rowVars, sendVars
  <2>3. CASE QualifyFails(w)
    BY <1>0, <2>3, GuardFrame DEF QualifyFails, prefVars, rowVars, sendVars
  <2>4. CASE Start(w) \/ GiveUp(w)
    BY <1>0, <2>4, GuardFrame DEF Start, GiveUp, prefVars, rowVars
  <2> QED
    BY <1>3, <1>4, <1>7, <2>1, <2>2, <2>3, <2>4 DEF WorkerStep
<1>8. ASSUME NEW t \in Tokens, SendStep(t) PROVE GuardProtects'
  <2>1. UNCHANGED <<pref, address, qualified, bound, of, tok, guard, pc>>
    BY <1>8 DEF SendStep, EndsEarly, BeginData, ProviderDecides, EndsAfterData, ChildDies,
                prefVars, rowVars, workerVars
  <2> QED
    BY <2>1, GuardFrame
<1>9. ASSUME NEW n \in Notifications, LedgerStep(n) PROVE GuardProtects'
  <2>1. CASE ~Enqueue(n)
    <3>1. UNCHANGED <<pref, address, qualified, bound, of, tok, guard, pc>>
      BY <1>9, <2>1 DEF LedgerStep, ResolveAccepted, ResolveRejected, Resolve, LeaseRunsOut,
                        BecomesDue, Expires, prefVars, rowVars, workerVars, sendVars
    <3> QED
      BY <3>1, GuardFrame
  <2> QED
    BY <1>5, <2>1
<1>10. CASE FaultStep
  <2>1. ASSUME NEW w \in Workers, Crash(w) PROVE GuardProtects'
    BY <1>6, <2>1 DEF Crash, prefVars, rowVars, sendVars
  <2>2. ASSUME NEW w \in Workers, LoseGuard(w) PROVE GuardProtects'
    BY <2>2, GuardFrame DEF LoseGuard, prefVars, rowVars, sendVars
  <2>3. CASE LoseGate
    BY <2>3, GuardFrame DEF LoseGate, prefVars, rowVars, sendVars
  <2> QED
    BY <1>10, <2>1, <2>2, <2>3 DEF FaultStep
<1>11. CASE UNCHANGED vars
  BY <1>11, GuardFrame DEF vars, prefVars, rowVars, workerVars, sendVars
<1> QED
  BY <1>2, <1>7, <1>8, <1>9, <1>10, <1>11 DEF Next

\* A switch-off, an address change or a lost qualification is never overtaken by
\* a child whose worker still holds its guard.
THEOREM StopHolds == Spec => StopNotOvertaken
<1>1. Inv /\ GuardProtects /\ [Next]_vars =>
         [\A t \in Tokens : DataBegins(t) /\ Supervised(t) => Stands(of[t])]_vars
  BY DEF GuardProtects, Supervised, DataBegins
<1>2. Spec => []GuardProtects
  BY GuardInit, GuardStep, InvCorrect, PTL DEF Spec
<1> QED
  BY <1>1, <1>2, InvCorrect, PTL DEF Spec, StopNotOvertaken

-----------------------------------------------------------------------------
(* What ApprovalMail shows to others: its attempt records explain its       *)
(* ledger, and it implements MailPromise.                                   *)

\* Who has a child or a message was recorded as started, and a token that was not
\* drawn has no record.
RecordsOfTokens ==
    /\ \A t \in Tokens : child[t] # "none" \/ wire[t] # "none" => t \in started
    /\ \A t \in Tokens : t > issued => completed[t] = "none" /\ resolution[t] = "none"

\* What the records of a claim say while its row is in state s: an attempt that is not
\* over has no result yet, and no operator has decided on it.
RecordsFit(s, t) ==
    /\ s \in {"leased", "sending"} => completed[t] = "none"
    /\ s = "unknown" => completed[t] = "unknown"
    /\ s \in {"leased", "sending", "unknown"} => resolution[t] = "none"
    /\ s = "accepted" => /\ t \in Tokens
                         /\ \/ completed[t] = "accepted"
                            \/ completed[t] = "unknown" /\ resolution[t] = "accepted"

RecordsFollowRows ==
    RecordsOfTokens /\ \A n \in Notifications : RecordsFit(state[n], token[n])

-----------------------------------------------------------------------------
(* The records.                                                             *)

\* Nothing is recorded at the start, and no row is under way.
LEMMA RecordsInit == Init => RecordsFollowRows
  BY DEF Init, RecordsFollowRows, RecordsOfTokens, RecordsFit, Tokens

\* A step that writes no record, and moves rows at most to states that need none.
LEMMA RecordsFrame ==
    ASSUME RecordsFollowRows,
           UNCHANGED <<token, issued, completed, resolution>>,
           started \subseteq started',
           \A t \in Tokens : \/ child'[t] = "none" /\ wire'[t] = "none"
                             \/ child[t] # "none" \/ wire[t] # "none"
                             \/ t \in started',
           \A n \in Notifications :
               \/ state'[n] = state[n]
               \/ state[n] = "leased" /\ state'[n] = "sending"
               \/ state'[n] \in {"absent", "pending", "retry_wait", "failed", "suppressed"}
    PROVE  RecordsFollowRows'
<1>1. RecordsOfTokens'
  BY DEF RecordsFollowRows, RecordsOfTokens
<1>2. ASSUME NEW n \in Notifications PROVE RecordsFit(state[n], token[n])'
  BY DEF RecordsFollowRows, RecordsFit
<1> QED
  BY <1>1, <1>2 DEF RecordsFollowRows

\* Rows under way have claims of their own.
LEMMA OwnClaim ==
    ASSUME Inv, NEW n \in Notifications, NEW m \in Notifications, token[n] = token[m],
           state[n] \in {"leased", "sending", "unknown"},
           state[m] \in {"leased", "sending", "unknown"}
    PROVE  n = m
  BY DEF Inv, RowNamesClaim

\* What recovery makes of a row, and of the record of its claim, agree.
LEMMA RecordsRecovered ==
    ASSUME Inv, RecordsFollowRows, RecordRecovery, UNCHANGED resolution,
           NEW n \in Notifications
    PROVE  LET s == Recovered[n]
               t == RecoveredToken[n] IN
           /\ s \in {"leased", "sending"} => completed'[t] = "none"
           /\ s = "unknown" => completed'[t] = "unknown"
           /\ s \in {"leased", "sending", "unknown"} => resolution'[t] = "none"
           /\ s = "accepted" => /\ t \in Tokens
                                /\ \/ completed'[t] = "accepted"
                                   \/ completed'[t] = "unknown" /\ resolution'[t] = "accepted"
<1>1. \A t \in Tokens : completed'[t] = IF /\ completed[t] = "none"
                                           /\ \E m \in Lapsed : state[m] = "sending" /\ token[m] = t
                                        THEN "unknown" ELSE completed[t]
  BY DEF RecordRecovery
<1>2. RecordsFit(state[n], token[n])
  BY DEF RecordsFollowRows
<1>3. state[n] \in {"leased", "sending", "unknown", "accepted"} => token[n] \in Tokens
  BY <1>2 DEF Inv, RowNamesClaim, RecordsFit
<1>4. CASE Recovered[n] = state[n] /\ RecoveredToken[n] = token[n]
  <2>1. ASSUME state[n] \in {"leased", "sending"}, NEW m \in Lapsed,
               state[m] = "sending", token[m] = token[n]
        PROVE  FALSE
    <3>1. m \in Notifications
      BY DEF Lapsed, Inv, TypeOK
    <3>2. m = n
      BY <2>1, <3>1, OwnClaim
    <3> QED
      BY <1>4, <2>1, <3>2 DEF Recovered
  <2> QED
    BY <1>1, <1>2, <1>3, <1>4, <2>1 DEF RecordsFit
<1>5. CASE state[n] = "sending" /\ Recovered[n] = "unknown" /\ RecoveredToken[n] = token[n]
  <2>1. n \in Lapsed
    BY <1>5 DEF Recovered
  <2> QED
    BY <1>1, <1>2, <1>3, <1>5, <2>1 DEF RecordsFit
<1>6. CASE Recovered[n] = "pending"
  BY <1>6
<1> QED
  BY <1>4, <1>5, <1>6, RecoveredRows

\* Recovery writes no record about a token that was not drawn, and starts nothing.
LEMMA RecoveryRecordsDrawn ==
    ASSUME Inv, RecordsFollowRows, RecordRecovery, NEW t \in Tokens, t > issued
    PROVE  completed'[t] = "none"
<1>1. ASSUME NEW m \in Lapsed, token[m] = t PROVE FALSE
  <2>1. m \in Notifications /\ token[m] <= issued
    BY DEF Lapsed, Inv, TypeOK, TokensDrawn
  <2> QED
    BY <1>1, <2>1, BoundAssumption DEF Inv, TypeOK, Tokens
<1> QED
  BY <1>1 DEF RecordRecovery, RecordsFollowRows, RecordsOfTokens

\* recover_and_claim: the claimed row has a token without a past.
LEMMA RecordsClaim ==
    ASSUME Inv, RecordsFollowRows, NEW w \in Workers, NEW n \in Notifications,
           ClaimNext(w, n)
    PROVE  RecordsFollowRows'
<1>1. issued \in Nat /\ issued + 1 \in Tokens /\ issued' = issued + 1
  BY BoundAssumption DEF ClaimNext, Inv, TypeOK, Tokens
<1>2. RecordRecovery /\ UNCHANGED <<child, wire, started, resolution>>
  BY DEF ClaimNext
<1>3. completed'[issued + 1] = "none" /\ resolution'[issued + 1] = "none"
  BY <1>1, <1>2, RecoveryRecordsDrawn DEF RecordsFollowRows, RecordsOfTokens
<1>4. RecordsOfTokens'
  <2>1. \A t \in Tokens : t > issued + 1 => t > issued
    BY <1>1 DEF Tokens
  <2> QED
    BY <1>1, <1>2, <2>1, RecoveryRecordsDrawn DEF RecordsFollowRows, RecordsOfTokens
<1>5. \A m \in Notifications : /\ state'[m] = IF m = n THEN "leased" ELSE Recovered[m]
                               /\ token'[m] = IF m = n THEN issued + 1 ELSE RecoveredToken[m]
  BY RecoveredType DEF ClaimNext, Inv
<1>6. ASSUME NEW m \in Notifications PROVE RecordsFit(state[m], token[m])'
  BY <1>2, <1>3, <1>5, RecordsRecovered DEF RecordsFit
<1> QED
  BY <1>4, <1>6 DEF RecordsFollowRows

\* The same when nothing is found to send.
LEMMA RecordsFindNothing ==
    ASSUME Inv, RecordsFollowRows, NEW w \in Workers, FindNothing(w)
    PROVE  RecordsFollowRows'
<1>1. /\ RecordRecovery /\ UNCHANGED <<issued, child, wire, started, resolution>>
      /\ state' = Recovered /\ token' = RecoveredToken
  BY DEF FindNothing, sendVars
<1>2. RecordsOfTokens'
  BY <1>1, RecoveryRecordsDrawn DEF RecordsFollowRows, RecordsOfTokens
<1>3. ASSUME NEW m \in Notifications PROVE RecordsFit(state[m], token[m])'
  BY <1>1, RecordsRecovered DEF RecordsFit
<1> QED
  BY <1>2, <1>3 DEF RecordsFollowRows

\* finish records the outcome of the very attempt whose row it settles.
LEMMA RecordsFinish ==
    ASSUME Inv, RecordsFollowRows, NEW w \in Workers, Finish(w)
    PROVE  RecordsFollowRows'
<1> DEFINE t == tok[w]
           n == of[tok[w]]
           tried == count[n] + IF state[n] = "leased" THEN 1 ELSE 0
           s == Settled(result[w], n, tried)
<1>1. /\ t \in Tokens /\ t <= issued /\ n \in Notifications /\ result[w] \in Outcomes
      /\ UNCHANGED <<token, issued, child, wire, started, resolution>>
  BY ClaimHeld DEF Finish, sendVars, Inv, ResultIsSound
<1>2. CASE ~StillMine(n, t)
  <2>1. UNCHANGED <<state, completed>>
    BY <1>2 DEF Finish
  <2> QED
    BY <1>1, <2>1, RecordsFrame
<1>3. CASE StillMine(n, t)
  <2>1. /\ token[n] = t /\ state[n] \in {"leased", "sending"}
        /\ state' = [state EXCEPT ![n] = s]
        /\ completed' = [completed EXCEPT ![t] = IF @ = "none" THEN result[w] ELSE @]
    BY <1>3 DEF Finish, StillMine
  <2>2. completed[t] = "none" /\ resolution[t] = "none"
    BY <1>1, <2>1 DEF RecordsFollowRows, RecordsFit
  <2>3. state[n] = "leased" => result[w] \in {"temporary", "suppressed"}
    BY <1>1, <1>3 DEF Inv, ResultIsSound, Finish
  <2>4. /\ s = "unknown" => result[w] = "unknown"
        /\ s = "accepted" => result[w] = "accepted"
        /\ s \notin {"absent", "pending", "leased", "sending"}
    BY <1>1, SettledType DEF Settled, Outcomes
  <2>5. /\ state \in [Notifications -> States]
        /\ completed \in [Tokens -> Outcomes \cup {"none"}]
    BY DEF Inv, TypeOK
  <2> HIDE DEF s, tried, t, n
  <2>6. /\ \A m \in Notifications : state'[m] = IF m = n THEN s ELSE state[m]
        /\ \A u \in Tokens : completed'[u] = IF u = t THEN result[w] ELSE completed[u]
    BY <1>1, <2>1, <2>2, <2>5
  <2>7. RecordsOfTokens'
    <3>1. ASSUME NEW u \in Tokens, u > issued PROVE u # t
      BY <1>1, <3>1, BoundAssumption DEF Inv, TypeOK, Tokens
    <3> QED
      BY <1>1, <2>6, <3>1 DEF RecordsFollowRows, RecordsOfTokens
  <2>8. ASSUME NEW m \in Notifications PROVE RecordsFit(state[m], token[m])'
    <3>1. CASE m = n
      BY <1>1, <2>1, <2>2, <2>4, <2>6, <3>1 DEF RecordsFit
    <3>2. CASE m # n
      <4>1. RecordsFit(state[m], token[m]) /\ state'[m] = state[m]
        BY <2>6, <3>2 DEF RecordsFollowRows
      <4>2. state[m] \in {"leased", "sending", "unknown"} => token[m] # t /\ token[m] \in Tokens
        BY <1>1, <2>1, <3>2, OwnClaim DEF Inv, RowNamesClaim
      <4>3. state[m] = "accepted" => token[m] # t /\ token[m] \in Tokens
        BY <2>2, <4>1 DEF RecordsFit
      <4> QED
        BY <1>1, <2>6, <4>1, <4>2, <4>3 DEF RecordsFit
    <3> QED
      BY <3>1, <3>2
  <2> QED
    BY <2>7, <2>8 DEF RecordsFollowRows
<1> QED
  BY <1>2, <1>3

\* resolve records the operator's decision on the attempt the row names.
LEMMA RecordsResolve ==
    ASSUME Inv, RecordsFollowRows, NEW n \in Notifications,
           NEW s \in {"accepted", "suppressed", "failed", "retry_wait"}, Resolve(n, s)
    PROVE  RecordsFollowRows'
<1> DEFINE t == token[n]
<1>1. /\ state[n] = "unknown"
      /\ UNCHANGED <<token, issued, child, wire, started, completed>>
      /\ state' = [state EXCEPT ![n] = s]
      /\ resolution' = [resolution EXCEPT ![t] = IF @ = "none" THEN s ELSE @]
  BY DEF Resolve, Resolvable, sendVars
<1>2. t \in Tokens /\ t <= issued /\ completed[t] = "unknown" /\ resolution[t] = "none"
  BY <1>1 DEF Inv, RowNamesClaim, TokensDrawn, RecordsFollowRows, RecordsFit
<1>3. /\ state \in [Notifications -> States]
      /\ resolution \in [Tokens -> States \cup {"none"}]
  BY DEF Inv, TypeOK
<1>4. /\ \A m \in Notifications : state'[m] = IF m = n THEN s ELSE state[m]
      /\ \A u \in Tokens : resolution'[u] = IF u = t THEN s ELSE resolution[u]
  BY <1>1, <1>2, <1>3
<1>5. RecordsOfTokens'
  <2>1. ASSUME NEW u \in Tokens, u > issued PROVE u # t
    BY <1>2, <2>1, BoundAssumption DEF Inv, TypeOK, Tokens
  <2> QED
    BY <1>1, <1>4, <2>1 DEF RecordsFollowRows, RecordsOfTokens
<1>6. ASSUME NEW m \in Notifications PROVE RecordsFit(state[m], token[m])'
  <2>1. CASE m = n
    BY <1>1, <1>2, <1>4, <2>1 DEF RecordsFit
  <2>2. CASE m # n
    <3>1. RecordsFit(state[m], token[m]) /\ state'[m] = state[m]
      BY <1>4, <2>2 DEF RecordsFollowRows
    <3>2. state[m] \in {"leased", "sending", "unknown"} => token[m] # t /\ token[m] \in Tokens
      BY <1>1, <2>2, OwnClaim DEF Inv, RowNamesClaim
    <3>3. state[m] = "accepted" /\ token[m] = t => completed[t] = "accepted"
      BY <1>2, <3>1 DEF RecordsFit
    <3> QED
      BY <1>1, <1>2, <1>4, <3>1, <3>2, <3>3 DEF RecordsFit
  <2> QED
    BY <2>1, <2>2
<1> QED
  BY <1>5, <1>6 DEF RecordsFollowRows

\* Every step keeps the records in agreement with the rows.
LEMMA RecordsStep == Inv /\ RecordsFollowRows /\ [Next]_vars => RecordsFollowRows'
<1> SUFFICES ASSUME Inv, RecordsFollowRows, [Next]_vars PROVE RecordsFollowRows'
  OBVIOUS
<1>1. CASE UNCHANGED <<state, token, issued, child, wire, started, completed, resolution>>
  BY <1>1, RecordsFrame
<1>2. CASE RecipientStep
  BY <1>1, <1>2 DEF RecipientStep, UpdatePreference, ChangeAddress, ChangeQualification,
                    rowVars, sendVars, logVars
<1>3. ASSUME NEW w \in Workers, WorkerStep(w) PROVE RecordsFollowRows'
  <2>1. CASE TakeGate(w) \/ Qualify(w) \/ QualifyFails(w) \/ ClaimLost(w) \/ Receive(w)
    BY <1>1, <2>1 DEF TakeGate, Qualify, QualifyFails, ClaimLost, Receive, rowVars, sendVars,
                      logVars
  <2>2. CASE Start(w)
    <3> DEFINE t == tok[w]
               n == of[tok[w]]
    <3>1. /\ t \in Tokens /\ n \in Notifications /\ state[n] = "leased"
          /\ UNCHANGED <<token, issued, wire, completed, resolution>>
          /\ state' = [state EXCEPT ![n] = "sending"] /\ started' = started \cup {t}
          /\ child' = [child EXCEPT ![t] = "connecting"]
      BY <2>2, ClaimHeld DEF Start
    <3>2. state \in [Notifications -> States] /\ child = [u \in Tokens |-> child[u]]
      BY Functional DEF Inv
    <3> HIDE DEF t, n
    <3>3. /\ \A m \in Notifications : state'[m] = IF m = n THEN "sending" ELSE state[m]
          /\ \A u \in Tokens : child'[u] = IF u = t THEN "connecting" ELSE child[u]
      BY <3>1, <3>2
    <3> QED
      BY <3>1, <3>3, RecordsFrame
  <2>3. CASE GiveUp(w)
    <3>1. /\ tok[w] \in Tokens /\ child[tok[w]] # "none"
          /\ UNCHANGED <<state, token, issued, wire, started, completed, resolution>>
          /\ child' = [child EXCEPT ![tok[w]] = "gone"]
      BY <2>3, ClaimHeld DEF GiveUp, rowVars, logVars, Inv, WorkerHoldsClaim
    <3>2. \A u \in Tokens : u # tok[w] => child'[u] = child[u]
      BY <3>1, Functional DEF Inv
    <3> QED
      BY <3>1, <3>2, RecordsFrame
  <2> QED
    BY <1>3, <2>1, <2>2, <2>3, RecordsClaim, RecordsFindNothing, RecordsFinish DEF WorkerStep
<1>4. ASSUME NEW t \in Tokens, SendStep(t) PROVE RecordsFollowRows'
  <2>1. UNCHANGED <<state, token, issued, started, completed, resolution>>
    BY <1>4 DEF SendStep, EndsEarly, BeginData, ProviderDecides, EndsAfterData, ChildDies,
                rowVars, logVars
  <2>2. /\ child[t] # "none" \/ wire[t] # "none"
        /\ child' = child \/ \E r : child' = [child EXCEPT ![t] = r]
        /\ wire' = wire \/ \E r : wire' = [wire EXCEPT ![t] = r]
    BY <1>4 DEF SendStep, EndsEarly, BeginData, ProviderDecides, EndsAfterData, ChildDies
  <2>3. \A u \in Tokens : u # t => child'[u] = child[u] /\ wire'[u] = wire[u]
    BY <2>2, Functional DEF Inv
  <2> QED
    BY <2>1, <2>2, <2>3, RecordsFrame
<1>5. ASSUME NEW n \in Notifications, LedgerStep(n) PROVE RecordsFollowRows'
  <2>1. CASE Enqueue(n)
    <3>1. /\ UNCHANGED <<token, issued, child, wire, started, completed, resolution>>
          /\ state' = [state EXCEPT ![n] = "pending"]
      BY <2>1 DEF Enqueue, sendVars, logVars
    <3>2. \A m \in Notifications : state'[m] = state[m] \/ state'[m] = "pending"
      BY <3>1, Functional DEF Inv
    <3> QED
      BY <3>1, <3>2, RecordsFrame
  <2>2. CASE ResolveAccepted(n)
    BY <2>2, RecordsResolve DEF ResolveAccepted
  <2>3. CASE ResolveRejected(n)
    BY <2>3, RecordsResolve DEF ResolveRejected
  <2>4. CASE LeaseRunsOut(n) \/ BecomesDue(n) \/ Expires(n)
    BY <1>1, <2>4 DEF LeaseRunsOut, BecomesDue, Expires, rowVars, sendVars, logVars
  <2> QED
    BY <1>5, <2>1, <2>2, <2>3, <2>4 DEF LedgerStep
<1>6. CASE FaultStep
  BY <1>1, <1>6 DEF FaultStep, Crash, LoseGuard, LoseGate, rowVars, sendVars, logVars
<1>7. CASE UNCHANGED vars
  BY <1>1, <1>7 DEF vars, rowVars, sendVars, logVars
<1> QED
  BY <1>2, <1>3, <1>4, <1>5, <1>6, <1>7 DEF Next

\* The append-only attempt records always explain the ledger: nothing reaches the
\* provider that was not recorded as started, and no row is called unknown or accepted
\* without a record that says why.
THEOREM AuditExplains == Spec => []AuditExplainsLedger
<1>1. Inv /\ RecordsFollowRows => AuditExplainsLedger
  BY DEF Inv, RowNamesClaim, RecordsFollowRows, RecordsOfTokens, RecordsFit, AuditExplainsLedger
<1>2. Spec => []RecordsFollowRows
  BY RecordsInit, RecordsStep, InvCorrect, PTL DEF Spec
<1> QED
  BY <1>1, <1>2, InvCorrect, PTL

-----------------------------------------------------------------------------
(* The promise.                                                             *)

\* What MailPromise sees of a state.
Seen(s) ==
    IF s = "absent" THEN "absent"
    ELSE IF s \in {"pending", "leased", "retry_wait"} THEN "waiting"
    ELSE IF s \in {"sending", "unknown"} THEN "out"
    ELSE IF s = "accepted" THEN "accepted" ELSE "refused"

StatusIsSeen == TypeOK => PromiseStatus = [n \in Notifications |-> Seen(state[n])]

\* The status shown is a function of the state, row by row.
LEMMA Shown == StatusIsSeen
<1> SUFFICES ASSUME TypeOK PROVE PromiseStatus = [n \in Notifications |-> Seen(state[n])]
  BY DEF StatusIsSeen
<1> DEFINE f(n) == CASE state[n] = "absent" -> "absent"
                     [] state[n] \in {"pending", "leased", "retry_wait"} -> "waiting"
                     [] state[n] \in {"sending", "unknown"} -> "out"
                     [] state[n] = "accepted" -> "accepted"
                     [] state[n] \in {"failed", "suppressed"} -> "refused"
<1>1. PromiseStatus = [n \in Notifications |-> f(n)]
  BY Zenon DEF PromiseStatus
<1>2. ASSUME NEW n \in Notifications PROVE f(n) = Seen(state[n])
  <2>1. /\ state[n] = "absent" => f(n) = "absent"
        /\ state[n] \in {"pending", "leased", "retry_wait"} => f(n) = "waiting"
        /\ state[n] \in {"sending", "unknown"} => f(n) = "out"
        /\ state[n] = "accepted" => f(n) = "accepted"
        /\ state[n] \in {"failed", "suppressed"} => f(n) = "refused"
    BY Zenon
  <2>2. state[n] \in States
    BY DEF TypeOK
  <2> HIDE DEF f
  <2> QED
    BY <2>1, <2>2, SMT DEF States, Seen
<1> HIDE DEF f
<1> QED
  BY <1>1, <1>2

\* In the next state, too.
LEMMA ShownNext == StatusIsSeen'
  BY Shown, PTL

LEMMA ShownBoth ==
    ASSUME TypeOK, TypeOK'
    PROVE  /\ PromiseStatus = [n \in Notifications |-> Seen(state[n])]
           /\ PromiseStatus' = [n \in Notifications |-> Seen(state'[n])]
           /\ state \in [Notifications -> States]
  BY Shown, ShownNext DEF StatusIsSeen, TypeOK

\* A step that leaves every row in the class it was in is none of the promise's.
LEMMA StatusStays ==
    ASSUME TypeOK, TypeOK',
           \A n \in Notifications :
               \/ state'[n] = state[n]
               \/ {state[n], state'[n]} \subseteq {"pending", "leased", "retry_wait"}
               \/ {state[n], state'[n]} \subseteq {"sending", "unknown"}
    PROVE  PromiseStatus' = PromiseStatus
  BY ShownBoth DEF Seen

\* A step that moves one row.
LEMMA StatusMoves ==
    ASSUME TypeOK, TypeOK', NEW n \in Notifications, NEW s, state' = [state EXCEPT ![n] = s]
    PROVE  /\ PromiseStatus[n] = Seen(state[n])
           /\ PromiseStatus' = [PromiseStatus EXCEPT ![n] = Seen(s)]
  BY ShownBoth

\* No message is accepted in a step in which the provider does not accept one.
LEMMA ArrivedStays ==
    ASSUME Inv, \A t \in Tokens : wire'[t] # wire[t] => "accepted" \notin {wire[t], wire'[t]},
           \A t \in Tokens : of'[t] = of[t] \/ wire[t] = "none"
    PROVE  Arrived' = Arrived
  BY DEF Arrived, AcceptedOn

\* The only attempt of a row that may have arrived is the one of its current claim.
LEMMA OnlyCurrentArrives ==
    ASSUME Inv, NEW n \in Notifications
    PROVE  /\ n \in Arrived => /\ token[n] \in Tokens /\ AcceptedOn(token[n])
                               /\ state[n] \in {"sending", "unknown", "accepted"}
           /\ state[n] = "accepted" => n \in Arrived
  BY DEF Inv, SentByCurrentClaim, RowNamesClaim, Arrived, AcceptedOn, TypeOK

\* The empty ledger is the empty promise.
LEMMA PromiseInit == Init => Promise!Init
  BY DEF Init, Promise!Init, PromiseStatus, Arrived, AcceptedOn, Tokens

\* recover_and_claim moves rows among those that wait, or among those that are out.
LEMMA PromiseRecovery ==
    ASSUME Inv, TypeOK', NEW w \in Workers,
           FindNothing(w) \/ \E n \in Notifications : ClaimNext(w, n)
    PROVE  UNCHANGED <<PromiseStatus, Arrived>>
<1>1. CASE FindNothing(w)
  <2>1. state' = Recovered /\ UNCHANGED <<wire, of>>
    BY <1>1 DEF FindNothing, sendVars
  <2>2. UNCHANGED PromiseStatus
    BY <2>1, RecoveredRows, StatusStays DEF Inv
  <2> QED
    BY <2>1, <2>2, ArrivedStays
<1>2. ASSUME NEW n \in Notifications, ClaimNext(w, n)
      PROVE  UNCHANGED <<PromiseStatus, Arrived>>
  <2>1. /\ \A m \in Notifications : state'[m] = IF m = n THEN "leased" ELSE Recovered[m]
        /\ Recovered[n] \in {"pending", "retry_wait"}
        /\ UNCHANGED wire /\ of' = [of EXCEPT ![issued + 1] = n]
    BY <1>2, RecoveredType DEF ClaimNext, Ready, Inv
  <2>2. UNCHANGED PromiseStatus
    BY <2>1, RecoveredRows, StatusStays DEF Inv
  <2>3. issued + 1 \in Tokens => wire[issued + 1] = "none"
    BY BoundAssumption DEF Inv, TokensDrawn, TypeOK, Tokens
  <2>4. \A t \in Tokens : of'[t] = of[t] \/ wire[t] = "none"
    BY <2>1, <2>3, Functional DEF Inv
  <2> QED
    BY <2>1, <2>2, <2>4, ArrivedStays
<1> QED
  BY <1>1, <1>2

\* Start sends a mail that waits.
LEMMA PromiseStart ==
    ASSUME Inv, TypeOK', NEW w \in Workers, Start(w)
    PROVE  \E n \in Notifications : Promise!Send(n)
<1> DEFINE n == of[tok[w]]
<1>1. /\ n \in Notifications /\ state[n] = "leased" /\ UNCHANGED <<wire, of>>
      /\ state' = [state EXCEPT ![n] = "sending"]
  BY ClaimHeld DEF Start
<1> HIDE DEF n
<1>2. UNCHANGED Arrived
  BY <1>1, ArrivedStays
<1>3. PromiseStatus[n] = "waiting" /\ PromiseStatus' = [PromiseStatus EXCEPT ![n] = "out"]
  BY <1>1, StatusMoves DEF Inv, Seen
<1> QED
  BY <1>1, <1>2, <1>3 DEF Promise!Send, Promise!Become

\* A row that moves out of "sending", "unknown" or "leased" accepts a mail that arrived,
\* or refuses or takes back one that has not.
LEMMA PromiseSettles ==
    ASSUME Inv, TypeOK', NEW n \in Notifications, NEW s \in States, UNCHANGED <<wire, of>>,
           state' = [state EXCEPT ![n] = s],
           state[n] \in {"leased", "sending", "unknown"},
           s \in {"accepted", "unknown", "retry_wait", "failed", "suppressed"},
           s = "accepted" => n \in Arrived,
           s = "unknown" => state[n] # "leased",
           s \in {"retry_wait", "failed", "suppressed"} => n \notin Arrived
    PROVE  \/ UNCHANGED <<PromiseStatus, Arrived>>
           \/ Promise!Return(n) \/ Promise!Accept(n) \/ Promise!Refuse(n)
<1>1. UNCHANGED Arrived
  BY ArrivedStays
<1>2. state \in [Notifications -> States] /\ state'[n] = s
  BY DEF Inv, TypeOK
<1>3. /\ PromiseStatus[n] = IF state[n] = "leased" THEN "waiting" ELSE "out"
      /\ PromiseStatus' = [PromiseStatus EXCEPT ![n] = Seen(s)]
  BY StatusMoves DEF Inv, Seen
<1>4. CASE s = "accepted"
  <2>1. state[n] # "leased"
    BY <1>4, OnlyCurrentArrives
  <2> QED
    BY <1>1, <1>3, <1>4, <2>1 DEF Seen, Promise!Accept, Promise!Become
<1>5. CASE s = "unknown"
  <2>1. UNCHANGED PromiseStatus
    BY <1>2, <1>5, StatusStays DEF Inv
  <2> QED
    BY <1>1, <2>1
<1>6. CASE s = "retry_wait"
  <2>1. CASE state[n] = "leased"
    <3>1. UNCHANGED PromiseStatus
      BY <1>2, <1>6, <2>1, StatusStays DEF Inv
    <3> QED
      BY <1>1, <3>1
  <2>2. CASE state[n] # "leased"
    BY <1>1, <1>3, <1>6, <2>2 DEF Seen, Promise!Return, Promise!Become
  <2> QED
    BY <2>1, <2>2
<1>7. CASE s \in {"failed", "suppressed"}
  BY <1>1, <1>3, <1>7 DEF Seen, Promise!Refuse, Promise!Become
<1> QED
  BY <1>4, <1>5, <1>6, <1>7

\* finish tells the promise what the worker heard of its own attempt.
LEMMA PromiseFinish ==
    ASSUME Inv, TypeOK', NEW w \in Workers, Finish(w)
    PROVE  [Promise!Next]_<<PromiseStatus, Arrived>>
<1> DEFINE t == tok[w]
           n == of[tok[w]]
           tried == count[n] + IF state[n] = "leased" THEN 1 ELSE 0
           s == Settled(result[w], n, tried)
<1>1. /\ t \in Tokens /\ n \in Notifications /\ result[w] \in Outcomes /\ pc[w] = "finishing"
      /\ UNCHANGED <<wire, of>>
  BY ClaimHeld DEF Finish, sendVars, Inv, ResultIsSound
<1>2. CASE ~StillMine(n, t)
  <2>1. UNCHANGED state
    BY <1>2 DEF Finish
  <2> QED
    BY <1>1, <2>1, StatusStays, ArrivedStays DEF Inv
<1>3. CASE StillMine(n, t)
  <2>1. /\ token[n] = t /\ state[n] \in {"leased", "sending"}
        /\ state' = [state EXCEPT ![n] = s]
    BY <1>3 DEF Finish, StillMine
  <2>2. /\ s = "unknown" => result[w] = "unknown"
        /\ s = "accepted" => result[w] = "accepted"
        /\ s \in {"retry_wait", "failed", "suppressed"}
              => result[w] \in {"temporary", "failed", "suppressed"}
        /\ s \in States \ {"absent", "pending", "leased", "sending"}
    BY <1>1, SettledType DEF Settled, Outcomes
  <2>3. /\ state[n] = "leased" => result[w] \in {"temporary", "suppressed"}
        /\ state[n] = "sending" =>
              /\ result[w] = "accepted" => AcceptedOn(t)
              /\ result[w] \in {"temporary", "failed", "suppressed"} => ~AcceptedOn(t)
    BY <1>1, <1>3 DEF Inv, ResultIsSound
  <2> HIDE DEF s, tried
  <2>4. s = "accepted" => n \in Arrived
    BY <1>1, <2>1, <2>2, <2>3 DEF Arrived
  <2>5. s \in {"retry_wait", "failed", "suppressed"} => n \notin Arrived
    BY <1>1, <2>1, <2>2, <2>3, OnlyCurrentArrives
  <2>6. s = "unknown" => state[n] # "leased"
    BY <2>2, <2>3
  <2>7. s \in States /\ s \in {"accepted", "unknown", "retry_wait", "failed", "suppressed"}
    BY <2>2 DEF States
  <2> HIDE DEF n, t
  <2>8. \/ UNCHANGED <<PromiseStatus, Arrived>>
        \/ Promise!Return(n) \/ Promise!Accept(n) \/ Promise!Refuse(n)
    BY <1>1, <2>1, <2>4, <2>5, <2>6, <2>7, PromiseSettles
  <2> QED
    BY <1>1, <2>8 DEF Promise!Next
<1> QED
  BY <1>2, <1>3

\* So does an operator who resolves an unknown delivery.
LEMMA PromiseResolve ==
    ASSUME Inv, TypeOK', NEW n \in Notifications, ResolveAccepted(n) \/ ResolveRejected(n)
    PROVE  [Promise!Next]_<<PromiseStatus, Arrived>>
<1>1. CASE ResolveAccepted(n)
  <2>1. /\ state[n] = "unknown" /\ UNCHANGED <<wire, of>> /\ n \in Arrived
        /\ state' = [state EXCEPT ![n] = "accepted"]
    BY <1>1 DEF ResolveAccepted, Resolve, Resolvable, sendVars, Arrived, AcceptedOn
  <2>2. \/ UNCHANGED <<PromiseStatus, Arrived>>
        \/ Promise!Return(n) \/ Promise!Accept(n) \/ Promise!Refuse(n)
    BY <2>1, PromiseSettles DEF States
  <2> QED
    BY <2>2 DEF Promise!Next
<1>2. CASE ResolveRejected(n)
  <2>1. PICK s \in {"suppressed", "failed", "retry_wait"} : Resolve(n, s)
    BY <1>2 DEF ResolveRejected
  <2>2. /\ state[n] = "unknown" /\ UNCHANGED <<wire, of>>
        /\ state' = [state EXCEPT ![n] = s]
    BY <2>1 DEF Resolve, Resolvable, sendVars
  <2>3. n \notin Arrived
    BY <1>2, OnlyCurrentArrives DEF ResolveRejected, AcceptedOn
  <2>4. \/ UNCHANGED <<PromiseStatus, Arrived>>
        \/ Promise!Return(n) \/ Promise!Accept(n) \/ Promise!Refuse(n)
    BY <2>2, <2>3, PromiseSettles DEF States
  <2> QED
    BY <2>4 DEF Promise!Next
<1> QED
  BY <1>1, <1>2

\* The provider's acceptance is the only arrival, and of a mail that is out.
LEMMA PromiseArrives ==
    ASSUME Inv, TypeOK', NEW t \in Tokens, ProviderDecides(t)
    PROVE  [Promise!Next]_<<PromiseStatus, Arrived>>
<1> DEFINE n == of[t]
<1>1. PICK d \in {"accepted", "rejected4", "rejected5", "lost"} : wire' = [wire EXCEPT ![t] = d]
  BY DEF ProviderDecides
<1>2. wire[t] = "sent" /\ UNCHANGED <<of, state>>
  BY DEF ProviderDecides, rowVars
<1>3. \A u \in Tokens : wire'[u] = IF u = t THEN d ELSE wire[u]
  BY <1>1, Functional DEF Inv
<1>4. UNCHANGED PromiseStatus
  BY <1>2, StatusStays DEF Inv
<1>5. n \in Notifications /\ token[n] = t /\ state[n] \in {"sending", "unknown"}
  <2>1. t <= issued
    BY <1>2, BoundAssumption DEF Inv, TokensDrawn, TypeOK, Tokens
  <2> QED
    BY <1>2, <2>1 DEF Inv, TokensDrawn, SentByCurrentClaim, MayStillArrive
<1>6. CASE d = "accepted"
  <2>1. n \notin Arrived
    BY <1>2, <1>5, OnlyCurrentArrives DEF AcceptedOn
  <2>2. Arrived' = Arrived \cup {n}
    BY <1>2, <1>3, <1>5, <1>6 DEF Arrived, AcceptedOn
  <2>3. PromiseStatus[n] = "out"
    BY <1>5, ShownBoth DEF Inv, Seen
  <2> QED
    BY <1>4, <1>5, <2>1, <2>2, <2>3 DEF Promise!Next, Promise!Arrive
<1>7. CASE d # "accepted"
  <2>1. UNCHANGED Arrived
    BY <1>2, <1>3, <1>7, ArrivedStays
  <2> QED
    BY <1>4, <2>1
<1> QED
  BY <1>6, <1>7

\* Every step of the pipeline is a step of the promise, or none.
LEMMA PromiseStep == Inv /\ Inv' /\ [Next]_vars => [Promise!Next]_<<PromiseStatus, Arrived>>
<1> SUFFICES ASSUME Inv, Inv', [Next]_vars PROVE [Promise!Next]_<<PromiseStatus, Arrived>>
  OBVIOUS
<1>0. TypeOK /\ TypeOK'
  BY DEF Inv
<1>1. CASE UNCHANGED <<state, of, wire>>
  BY <1>0, <1>1, StatusStays, ArrivedStays
<1>2. CASE RecipientStep
  BY <1>1, <1>2 DEF RecipientStep, UpdatePreference, ChangeAddress, ChangeQualification,
                    rowVars, sendVars
<1>3. ASSUME NEW w \in Workers, WorkerStep(w) PROVE [Promise!Next]_<<PromiseStatus, Arrived>>
  <2>1. CASE TakeGate(w) \/ Qualify(w) \/ QualifyFails(w) \/ ClaimLost(w) \/ Receive(w) \/ GiveUp(w)
    BY <1>1, <2>1 DEF TakeGate, Qualify, QualifyFails, ClaimLost, Receive, GiveUp, rowVars,
                      sendVars
  <2>2. CASE Start(w)
    BY <1>0, <2>2, PromiseStart DEF Promise!Next
  <2>3. CASE FindNothing(w) \/ \E n \in Notifications : ClaimNext(w, n)
    BY <1>0, <2>3, PromiseRecovery
  <2>4. CASE Finish(w)
    BY <1>0, <2>4, PromiseFinish
  <2> QED
    BY <1>3, <2>1, <2>2, <2>3, <2>4 DEF WorkerStep
<1>4. ASSUME NEW t \in Tokens, SendStep(t) PROVE [Promise!Next]_<<PromiseStatus, Arrived>>
  <2>1. CASE ProviderDecides(t)
    BY <1>0, <2>1, PromiseArrives
  <2>2. CASE EndsAfterData(t) \/ ChildDies(t)
    BY <1>1, <2>2 DEF EndsAfterData, ChildDies, rowVars
  <2>3. CASE EndsEarly(t) \/ BeginData(t)
    <3>1. UNCHANGED <<state, of>> /\ child[t] = "connecting"
      BY <2>3 DEF EndsEarly, BeginData, rowVars
    <3>2. wire' = wire \/ \E r \in {"rejected4", "rejected5", "sent"} : wire' = [wire EXCEPT ![t] = r]
      BY <2>3 DEF EndsEarly, BeginData
    <3>3. wire[t] = "none"
      BY <3>1 DEF Inv, ChildKnows
    <3>4. \A u \in Tokens : wire'[u] # wire[u] => "accepted" \notin {wire[u], wire'[u]}
      BY <3>2, <3>3, Functional, <1>0
    <3> QED
      BY <1>0, <3>1, <3>4, StatusStays, ArrivedStays
  <2> QED
    BY <1>4, <2>1, <2>2, <2>3 DEF SendStep
<1>5. ASSUME NEW n \in Notifications, LedgerStep(n) PROVE [Promise!Next]_<<PromiseStatus, Arrived>>
  <2>1. CASE Enqueue(n)
    <3>1. /\ state[n] = "absent" /\ UNCHANGED <<wire, of>>
          /\ state' = [state EXCEPT ![n] = "pending"]
      BY <2>1 DEF Enqueue, sendVars
    <3>2. /\ PromiseStatus[n] = "absent" /\ UNCHANGED Arrived
          /\ PromiseStatus' = [PromiseStatus EXCEPT ![n] = "waiting"]
      BY <1>0, <3>1, StatusMoves, ArrivedStays DEF Seen
    <3> QED
      BY <3>2 DEF Promise!Next, Promise!Save, Promise!Become
  <2>2. CASE ResolveAccepted(n) \/ ResolveRejected(n)
    BY <1>0, <2>2, PromiseResolve
  <2>3. CASE LeaseRunsOut(n) \/ BecomesDue(n) \/ Expires(n)
    BY <1>1, <2>3 DEF LeaseRunsOut, BecomesDue, Expires, rowVars, sendVars
  <2> QED
    BY <1>5, <2>1, <2>2, <2>3 DEF LedgerStep
<1>6. CASE FaultStep
  BY <1>1, <1>6 DEF FaultStep, Crash, LoseGuard, LoseGate, rowVars, sendVars
<1>7. CASE UNCHANGED vars
  BY <1>1, <1>7 DEF vars, rowVars, sendVars
<1> QED
  BY <1>2, <1>3, <1>4, <1>5, <1>6, <1>7 DEF Next

\* The pipeline, with its workers, leases, crashes and retries, implements the promise:
\* a mail goes back to waiting only if it has not arrived, arrives at most once, and is
\* called accepted only if it has arrived.
THEOREM PromiseKept == Spec => KeepsPromise
<1>1. Inv /\ Inv' /\ [Next]_vars => [Promise!Next]_(Promise!vars)
  BY PromiseStep DEF Promise!vars
<1> QED
  BY <1>1, PromiseInit, InvCorrect, PTL DEF Spec, KeepsPromise, Promise!Spec
=============================================================================
