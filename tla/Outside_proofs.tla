----------------------------- MODULE Outside_proofs -----------------------------
(***************************************************************************)
(* Proofs about how people and tools from outside reach a project, for any *)
(* number of requests, sources, guests, invitations, tokens and calls:     *)
(* every behaviour of MCOutside is one of Connections, of GuestInvitations *)
(* or of Publications, so that the inductive invariant is the conjunction  *)
(* of theirs.                                                              *)
(***************************************************************************)
EXTENDS MCOutside, Sequences, FiniteSetTheorems, TLAPS

-----------------------------------------------------------------------------
(* Connections.  The call that is about to issue a pair is alone on its     *)
(* connection and holds something that is not used up yet, although it was  *)
(* looked up without a lock.  The call that is about to write is alone with *)
(* its key and knows that nothing was answered under it; if it applies a    *)
(* plan, nothing else touches the task.                                     *)

\* Rows that TypeOK does not mention, and what a call carries in each of its stages.
Made == [Asks \X Keys -> Nat]
TaskRow == [version : 0..MaxVersion, plan : {None} \cup (Asks \X Keys)]
CallRow ==
    [at : {"idle"}]
    \cup [at : {"consenting"}, on : Asks, cred : 0..MaxChange]
    \cup [at : {"issuing"}, on : Asks, from : Tokens \cup {None}]
    \cup [at : {"found"}, from : Tokens, spent : BOOLEAN]
    \cup [at : {"called", "writing"}, on : Asks, key : Keys, op : Op, seen : 0..MaxVersion]
Typed == TypeOK /\ made \in Made /\ task \in TaskRow /\ calls \in [Calls -> CallRow]

\* What a pair was issued for is used up.
CodeIsSpent ==
    \A t \in Issued : token[t].from = None => ask[token[t].of].status = "spent"
RefreshIsSpent ==
    \A t \in Issued : token[t].from # None =>
        token[t].from \in Issued /\ token[token[t].from].spent

\* A call about to issue is alone on its connection, with something not used up yet.
FoundIsIssued == \A c \in Calls : calls[c].at = "found" => calls[c].from \in Issued
IssuerIsAlone ==
    \A c, d \in Calls : (/\ calls[c].at = "issuing" /\ calls[d].at = "issuing"
                         /\ calls[c].on = calls[d].on) => c = d
IssuerHoldsUnspent ==
    \A c \in Calls : calls[c].at = "issuing" =>
        \/ calls[c].from = None /\ ask[calls[c].on].status = "granted"
        \/ /\ calls[c].from \in Issued
           /\ token[calls[c].from].of = calls[c].on /\ ~token[calls[c].from].spent
OneLine ==
    /\ ExchangedOnce /\ CodeIsSpent /\ RefreshIsSpent
    /\ FoundIsIssued /\ IssuerIsAlone /\ IssuerHoldsUnspent

\* What was done under a key has its receipt; a call that writes is alone with
\* its key, finds no receipt there, and the task keeps still for one that applies.
DoneHasReceipt ==
    \A x \in Asks \X Keys : made[x] = 0 \/ (made[x] = 1 /\ receipt[x] # None)
WriterIsAlone ==
    \A c, d \in Calls : (/\ calls[c].at = "writing" /\ calls[d].at = "writing"
                         /\ calls[c].on = calls[d].on /\ calls[c].key = calls[d].key) => c = d
WriterIsFirst == \A c \in Calls : calls[c].at = "writing" => Result(c) = None
ApplierIsAlone ==
    \A c, d \in Calls : (/\ calls[c].at = "writing" /\ calls[c].op.tool = "apply"
                         /\ calls[d].at = "writing" /\ calls[d].op.tool = "apply") => c = d
PlanStands ==
    \A c \in Calls : (calls[c].at = "writing" /\ calls[c].op.tool = "apply") =>
        PlanOf(c) # None /\ PlanOf(c).seen = task.version /\ task.version < MaxVersion
OneEffect == DoneHasReceipt /\ WriterIsAlone /\ WriterIsFirst /\ ApplierIsAlone /\ PlanStands

IInv == Typed /\ OneLine /\ OneEffect

-----------------------------------------------------------------------------
(* Two frames.  An action that leaves codes and tokens alone and lets its    *)
(* call do no more than look a token up keeps OneLine; one that leaves the   *)
(* work alone and lets its call do anything but write keeps OneEffect.       *)

LEMMA LineRests ==
    ASSUME OneLine, Typed, UNCHANGED <<ask, token>>, NEW c \in Calls, NEW call,
           calls' = [calls EXCEPT ![c] = call],
           call.at # "issuing", call.at = "found" => call.from \in Issued
    PROVE  OneLine'
<1>1. calls'[c] = call /\ \A d \in Calls : d # c => calls'[d] = calls[d]
  BY DEF Typed
<1>. QED
  BY <1>1 DEF OneLine, ExchangedOnce, CodeIsSpent, RefreshIsSpent, FoundIsIssued,
              IssuerIsAlone, IssuerHoldsUnspent, Issued

LEMMA WorkRests ==
    ASSUME OneEffect, Typed, UNCHANGED work, NEW c \in Calls, NEW call,
           calls' = [calls EXCEPT ![c] = call], call.at # "writing"
    PROVE  OneEffect'
<1>1. calls'[c] = call /\ \A d \in Calls : d # c => calls'[d] = calls[d]
  BY DEF Typed
<1>. QED
  BY <1>1 DEF work, OneEffect, DoneHasReceipt, WriterIsAlone, WriterIsFirst,
              ApplierIsAlone, PlanStands, Result, PlanOf

LEMMA AllWorkRests ==
    ASSUME OneEffect, UNCHANGED <<work, calls>>
    PROVE  OneEffect'
BY DEF work, OneEffect, DoneHasReceipt, WriterIsAlone, WriterIsFirst,
       ApplierIsAlone, PlanStands, Result, PlanOf

LEMMA AllLinesRest ==
    ASSUME OneLine, UNCHANGED <<ask, token, calls>>
    PROVE  OneLine'
BY DEF OneLine, ExchangedOnce, CodeIsSpent, RefreshIsSpent, FoundIsIssued,
       IssuerIsAlone, IssuerHoldsUnspent, Issued

\* A row of calls takes a well-formed entry.
LEMMA CallsTyped ==
    ASSUME Typed, NEW c \in Calls, NEW call \in CallRow, calls' = [calls EXCEPT ![c] = call]
    PROVE  calls' \in [Calls -> CallRow]
BY DEF Typed

-----------------------------------------------------------------------------
(* The invariant is kept by every action.                                    *)

LEMMA KeepChangeLogin ==
    ASSUME IInv, ChangeLogin
    PROVE  IInv'
<1>. USE ConstantsApart DEF IInv, ChangeLogin
<1>1. login' \in Login
  <2>. login \in Login
    BY DEF Typed, TypeOK
  <2>1. CASE login.cred < MaxChange /\ login' = [login EXCEPT !.cred = @ + 1]
    BY <2>1 DEF Login
  <2>2. CASE login' = [login EXCEPT !.allowed = ~@]
    BY <2>2 DEF Login
  <2>. QED  BY <2>1, <2>2
<1>2. Typed'
  BY <1>1 DEF Typed, TypeOK, work
<1>. QED  BY <1>2, AllLinesRest, AllWorkRests

\* A request that changes its state, as long as no code or pair is out for it.
LEMMA KeepAsk ==
    ASSUME IInv, UNCHANGED <<login, token, work>>,
           NEW q \in Asks, NEW s \in {"pending", "granted", "denied"},
           ask' = [ask EXCEPT ![q].status = s],
           ask[q].status \in {"absent", "pending"},
           conn' \in [Asks -> Conn], calls' \in [Calls -> CallRow],
           \A c \in Calls : calls'[c] = calls[c] \/ calls'[c].at = "idle"
    PROVE  IInv'
<1>. USE DEF IInv
<1>1. ask' \in [Asks -> Ask]
  BY DEF Typed, TypeOK, Ask
<1>2. Typed'
  BY <1>1 DEF Typed, TypeOK, work
<1>3. OneLine'
  <2>. /\ ask'[q].status = s /\ ask[q].status # "spent" /\ ask[q].status # "granted"
       /\ \A r \in Asks : r # q => ask'[r] = ask[r]
    BY DEF Typed, TypeOK, Ask
  <2>1. CodeIsSpent'
    BY DEF OneLine, CodeIsSpent, Issued, Typed, TypeOK, Token
  <2>2. IssuerHoldsUnspent'
    BY DEF OneLine, IssuerHoldsUnspent, Issued
  <2>. QED
    BY <2>1, <2>2 DEF OneLine, ExchangedOnce, RefreshIsSpent, FoundIsIssued,
                      IssuerIsAlone, Issued
<1>4. OneEffect'
  <2>. UNCHANGED <<receipt, made, task>>
    BY DEF work
  <2>1. DoneHasReceipt' /\ WriterIsAlone' /\ ApplierIsAlone'
    BY DEF OneEffect, DoneHasReceipt, WriterIsAlone, ApplierIsAlone
  <2>2. WriterIsFirst'
    BY DEF OneEffect, WriterIsFirst, Result
  <2>3. PlanStands'
    BY DEF OneEffect, PlanStands, PlanOf
  <2>. QED  BY <2>1, <2>2, <2>3 DEF OneEffect
<1>. QED  BY <1>2, <1>3, <1>4

LEMMA KeepStart ==
    ASSUME IInv, Start
    PROVE  IInv'
<1>1. PICK q \in Asks : ask[q].status = "absent" /\ ask' = [ask EXCEPT ![q].status = "pending"]
  BY DEF Start
<1>. QED
  BY <1>1, KeepAsk DEF Start, IInv, Typed, TypeOK

\* A call that neither issues nor writes, and has looked up at most a pair that exists.
LEMMA KeepMoving ==
    ASSUME IInv, UNCHANGED <<login, ask, token, work>>,
           conn' \in [Asks -> Conn],
           NEW c \in Calls, NEW call \in CallRow, calls' = [calls EXCEPT ![c] = call],
           call.at # "issuing", call.at # "writing",
           call.at = "found" => call.from \in Issued
    PROVE  IInv'
<1>. USE DEF IInv
<1>1. calls' \in [Calls -> CallRow]
  BY CallsTyped
<1>2. Typed'
  BY <1>1 DEF Typed, TypeOK, work
<1>3. OneLine'
  BY LineRests
<1>4. OneEffect'
  BY WorkRests
<1>. QED  BY <1>2, <1>3, <1>4

LEMMA KeepIdentify ==
    ASSUME IInv, NEW c \in Calls, Identify(c)
    PROVE  IInv'
<1>1. PICK q \in Asks : calls' = [calls EXCEPT ![c] = [at |-> "consenting", on |-> q, cred |-> login.cred]]
  BY DEF Identify, Goto
<1>. DEFINE call == [at |-> "consenting", on |-> q, cred |-> login.cred]
<1>2. login.cred \in 0..MaxChange /\ conn \in [Asks -> Conn]
  BY DEF IInv, Typed, TypeOK, Login
<1>3. call \in CallRow /\ call.at = "consenting"
  BY <1>2 DEF CallRow
<1>4. UNCHANGED <<login, ask, conn, token, work>>
  BY DEF Identify, grants
<1>. HIDE DEF call
<1>. QED
  BY <1>1, <1>2, <1>3, <1>4, KeepMoving DEF call

LEMMA KeepApprove ==
    ASSUME IInv, NEW c \in Calls, Approve(c)
    PROVE  IInv'
<1>. USE DEF IInv, Approve, Goto, Idle, Pending
<1>1. calls[c].on \in Asks /\ calls[c].cred \in 0..MaxChange
  BY DEF Typed, CallRow
<1>2. conn' \in [Asks -> Conn]
  BY <1>1 DEF Typed, TypeOK, Conn
<1>3. calls' \in [Calls -> CallRow]
  BY CallsTyped DEF CallRow
<1>4. \A d \in Calls : calls'[d] = calls[d] \/ calls'[d].at = "idle"
  BY DEF Typed
<1>. QED
  BY <1>1, <1>2, <1>3, <1>4, KeepAsk

LEMMA KeepDeny ==
    ASSUME IInv, NEW c \in Calls, Deny(c)
    PROVE  IInv'
<1>. USE DEF IInv, Deny, Goto, Idle, Pending
<1>1. calls[c].on \in Asks
  BY DEF Typed, CallRow
<1>2. conn' \in [Asks -> Conn]
  BY DEF Typed, TypeOK
<1>3. calls' \in [Calls -> CallRow]
  BY CallsTyped DEF CallRow
<1>4. \A d \in Calls : calls'[d] = calls[d] \/ calls'[d].at = "idle"
  BY DEF Typed
<1>. QED
  BY <1>1, <1>2, <1>3, <1>4, KeepAsk

LEMMA RevokedTyped ==
    ASSUME Typed, NEW q \in Asks, Revoked(q)
    PROVE  conn' \in [Asks -> Conn]
BY DEF Typed, TypeOK, Conn, Revoked

LEMMA KeepDisconnect ==
    ASSUME IInv, Disconnect
    PROVE  IInv'
<1>1. Typed'
  BY RevokedTyped DEF IInv, Disconnect, Typed, TypeOK, work
<1>. QED
  BY <1>1, AllLinesRest, AllWorkRests DEF IInv, Disconnect

LEMMA KeepOutlive ==
    ASSUME IInv, Outlive
    PROVE  IInv'
<1>1. Typed'
  BY RevokedTyped DEF IInv, Outlive, Typed, TypeOK, work
<1>. QED
  BY <1>1, AllLinesRest, AllWorkRests DEF IInv, Outlive

LEMMA KeepLapse ==
    ASSUME IInv, Lapse
    PROVE  IInv'
<1>. USE ConstantsApart DEF IInv
<1>a. UNCHANGED <<kinds, login, conn, made, task, calls>>
  BY DEF Lapse
<1>1. CASE /\ \E q \in Asks : ~ask[q].over /\ ask' = [ask EXCEPT ![q].over = TRUE]
           /\ UNCHANGED <<token, receipt>>
  <2>1. PICK q \in Asks : ask' = [ask EXCEPT ![q].over = TRUE]
    BY <1>1
  <2>. ask \in [Asks -> Ask]
    BY DEF Typed, TypeOK
  <2>2. ask' \in [Asks -> Ask] /\ \A r \in Asks : ask'[r].status = ask[r].status
    BY <2>1 DEF Ask
  <2>3. Typed'
    BY <1>a, <1>1, <2>2 DEF Typed, TypeOK
  <2>4. OneLine'
    BY <1>a, <1>1, <2>2
       DEF OneLine, ExchangedOnce, CodeIsSpent, RefreshIsSpent, FoundIsIssued,
           IssuerIsAlone, IssuerHoldsUnspent, Issued, Typed, TypeOK, Token, CallRow
  <2>. QED  BY <1>a, <1>1, <2>3, <2>4, AllWorkRests DEF work
<1>2. CASE /\ \E t \in Issued : ~token[t].over /\ token' = [token EXCEPT ![t].over = TRUE]
           /\ UNCHANGED <<ask, receipt>>
  <2>1. PICK t \in Issued : token' = [token EXCEPT ![t].over = TRUE]
    BY <1>2
  <2>2. /\ t \in Tokens /\ token[t] \in Token
        /\ token \in [Tokens -> Token \cup {None}]
    BY DEF Typed, TypeOK, Issued
  <2>3. token'[t] \in Token /\ token'[t] # None
    BY <2>1, <2>2 DEF Token
  <2>4. token' \in [Tokens -> Token \cup {None}]
    BY <2>1, <2>2, <2>3
  <2>5. Issued' = Issued
    BY <2>1, <2>2, <2>3 DEF Issued
  <2>6. \A u \in Issued : /\ token'[u].of = token[u].of /\ token'[u].from = token[u].from
                          /\ token'[u].spent = token[u].spent
    BY <2>1, <2>2 DEF Issued, Token
  <2>7. OneLine'
    BY <1>a, <1>2, <2>5, <2>6
       DEF OneLine, ExchangedOnce, CodeIsSpent, RefreshIsSpent, FoundIsIssued,
           IssuerIsAlone, IssuerHoldsUnspent
  <2>8. Typed'
    BY <1>a, <1>2, <2>4 DEF Typed, TypeOK
  <2>. QED  BY <1>a, <1>2, <2>7, <2>8, AllWorkRests DEF work
<1>3. CASE /\ \E x \in DOMAIN receipt : /\ receipt[x] # None /\ ~receipt[x].over
                                        /\ receipt' = [receipt EXCEPT ![x].over = TRUE]
           /\ UNCHANGED <<ask, token>>
  <2>1. PICK x \in Asks \X Keys : receipt[x] # None /\ receipt' = [receipt EXCEPT ![x].over = TRUE]
    BY <1>3 DEF Typed, TypeOK
  <2>2. receipt[x] \in Receipt /\ receipt \in [Asks \X Keys -> Receipt \cup {None}]
    BY <2>1 DEF Typed, TypeOK
  <2>3. receipt'[x] \in Receipt /\ receipt'[x] # None /\ receipt'[x].seen = receipt[x].seen
    BY <2>1, <2>2 DEF Receipt
  <2>4. \A y \in Asks \X Keys : y # x => receipt'[y] = receipt[y]
    BY <2>1, <2>2
  <2>5. receipt' \in [Asks \X Keys -> Receipt \cup {None}]
    BY <2>1, <2>2, <2>3
  <2>6. Typed'
    BY <1>a, <1>3, <2>5 DEF Typed, TypeOK
  <2>7. \A c \in Calls : calls[c].at = "writing" =>
            /\ <<calls[c].on, calls[c].key>> \in Asks \X Keys
            /\ calls[c].op.tool = "apply" => <<calls[c].on, calls[c].op.on>> \in Asks \X Keys
    BY DEF Typed, CallRow, Op
  <2>8. DoneHasReceipt'
    BY <1>a, <2>1, <2>3, <2>4 DEF OneEffect, DoneHasReceipt
  <2>9. WriterIsFirst'
    BY <1>a, <2>1, <2>4, <2>7 DEF OneEffect, WriterIsFirst, Result
  <2>10. PlanStands'
    BY <1>a, <2>3, <2>4, <2>7 DEF OneEffect, PlanStands, PlanOf
  <2>11. OneEffect'
    BY <1>a, <2>8, <2>9, <2>10 DEF OneEffect, WriterIsAlone, ApplierIsAlone
  <2>. QED  BY <1>a, <1>3, <2>6, <2>11, AllLinesRest
<1>. QED  BY <1>1, <1>2, <1>3 DEF Lapse

LEMMA KeepIdle ==
    ASSUME IInv, UNCHANGED <<login, ask, token, work>>,
           conn' \in [Asks -> Conn], NEW c \in Calls, Idle(c)
    PROVE  IInv'
<1>. DEFINE call == [at |-> "idle"]
<1>1. call \in CallRow /\ call.at = "idle" /\ calls' = [calls EXCEPT ![c] = call]
  BY DEF CallRow, Idle, Goto
<1>. HIDE DEF call
<1>. QED
  BY <1>1, KeepMoving

LEMMA KeepPresent ==
    ASSUME IInv, NEW c \in Calls, Present(c)
    PROVE  IInv'
<1>1. PICK t \in Issued : calls' = [calls EXCEPT ![c] = [at |-> "found", from |-> t, spent |-> token[t].spent]]
  BY DEF Present, Goto
<1>. DEFINE call == [at |-> "found", from |-> t, spent |-> token[t].spent]
<1>2. t \in Tokens /\ token[t].spent \in BOOLEAN /\ conn \in [Asks -> Conn]
  BY DEF IInv, Typed, TypeOK, Issued, Token
<1>3. call \in CallRow /\ call.at = "found" /\ call.from = t
  BY <1>2 DEF CallRow
<1>4. UNCHANGED <<login, ask, conn, token, work>>
  BY DEF Present, grants
<1>5. calls' = [calls EXCEPT ![c] = call]
  BY <1>1
<1>. HIDE DEF call
<1>. QED
  BY <1>2, <1>3, <1>4, <1>5, KeepMoving

LEMMA KeepCall ==
    ASSUME IInv, NEW c \in Calls, Call(c)
    PROVE  IInv'
<1>1. PICK t \in Issued, k \in Keys, op \in Op :
          calls' = [calls EXCEPT ![c] = [at |-> "called", on |-> token[t].of, key |-> k, op |-> op, seen |-> 0]]
  BY DEF Call, Goto
<1>. DEFINE call == [at |-> "called", on |-> token[t].of, key |-> k, op |-> op, seen |-> 0]
<1>2. token[t].of \in Asks /\ conn \in [Asks -> Conn]
  BY DEF IInv, Typed, TypeOK, Issued, Token
<1>3. call \in CallRow /\ call.at = "called"
  BY <1>2, ConstantsApart DEF CallRow
<1>4. UNCHANGED <<login, ask, conn, token, work>>
  BY DEF Call, grants
<1>5. calls' = [calls EXCEPT ![c] = call]
  BY <1>1
<1>. HIDE DEF call
<1>. QED
  BY <1>2, <1>3, <1>4, <1>5, KeepMoving

LEMMA KeepReplayAndLost ==
    ASSUME IInv, NEW c \in Calls, Replay(c) \/ Lost(c)
    PROVE  IInv'
<1>1. UNCHANGED <<login, ask, conn, token, work>> /\ Idle(c)
  BY DEF Replay, Lost, grants
<1>2. conn' \in [Asks -> Conn]
  BY <1>1 DEF IInv, Typed, TypeOK
<1>. QED
  BY <1>1, <1>2, KeepIdle

-----------------------------------------------------------------------------
(* Exchanges: the row of the connection is locked, what is presented is not  *)
(* used up, and so nothing was issued for it yet.                            *)

LEMMA KeepIssuing ==
    ASSUME IInv, UNCHANGED <<login, ask, conn, token, work>>,
           NEW c \in Calls, NEW q \in Asks, NEW f \in Tokens \cup {None}, ConnFree(q),
           Goto(c, [at |-> "issuing", on |-> q, from |-> f]),
           \/ f = None /\ ask[q].status = "granted"
           \/ f \in Issued /\ token[f].of = q /\ ~token[f].spent
    PROVE  IInv'
<1>. DEFINE call == [at |-> "issuing", on |-> q, from |-> f]
<1>1. call \in CallRow /\ call.at = "issuing" /\ call.on = q /\ call.from = f
  BY DEF CallRow
<1>2. calls' = [calls EXCEPT ![c] = call]
  BY DEF Goto
<1>. HIDE DEF call
<1>3. calls'[c] = call /\ \A d \in Calls : d # c => calls'[d] = calls[d]
  BY <1>2 DEF IInv, Typed
<1>4. calls' \in [Calls -> CallRow]
  BY <1>1, <1>2, CallsTyped DEF IInv
<1>5. Typed'
  BY <1>4 DEF IInv, Typed, TypeOK, work
<1>6. IssuerIsAlone'
  BY <1>1, <1>3 DEF IInv, OneLine, IssuerIsAlone, ConnFree
<1>7. IssuerHoldsUnspent'
  BY <1>1, <1>3 DEF IInv, OneLine, IssuerHoldsUnspent, Issued
<1>8. FoundIsIssued'
  BY <1>1, <1>3 DEF IInv, OneLine, FoundIsIssued, Issued
<1>9. OneLine'
  BY <1>6, <1>7, <1>8 DEF IInv, OneLine, ExchangedOnce, CodeIsSpent, RefreshIsSpent, Issued
<1>10. OneEffect'
  BY <1>1, <1>2, WorkRests DEF IInv
<1>. QED  BY <1>5, <1>9, <1>10 DEF IInv

LEMMA KeepRedeem ==
    ASSUME IInv, NEW c \in Calls, Redeem(c)
    PROVE  IInv'
<1>1. PICK q \in Asks :
          /\ ask[q].status \in {"granted", "spent"} /\ ConnFree(q)
          /\ IF ask[q].status = "spent" THEN Revoked(q) /\ UNCHANGED calls
             ELSE Goto(c, [at |-> "issuing", on |-> q, from |-> None]) /\ UNCHANGED conn
  BY DEF Redeem
<1>2. UNCHANGED <<kinds, login, ask, token, work>>
  BY DEF Redeem
<1>3. CASE ask[q].status = "spent"
  <2>1. conn' \in [Asks -> Conn]
    BY <1>1, <1>3, RevokedTyped DEF IInv
  <2>2. Typed'
    BY <1>1, <1>2, <1>3, <2>1 DEF IInv, Typed, TypeOK, work
  <2>. QED
    BY <1>1, <1>2, <1>3, <2>2, AllLinesRest, AllWorkRests DEF IInv
<1>4. CASE ask[q].status # "spent"
  BY <1>1, <1>2, <1>4, KeepIssuing
<1>. QED  BY <1>3, <1>4

LEMMA KeepRefresh ==
    ASSUME IInv, NEW c \in Calls, Refresh(c)
    PROVE  IInv'
<1>. DEFINE t == calls[c].from
            q == token[t].of
<1>1. /\ ConnFree(q)
      /\ IF token[t].spent THEN Revoked(q) /\ Idle(c)
         ELSE Goto(c, [at |-> "issuing", on |-> q, from |-> t]) /\ UNCHANGED conn
      /\ UNCHANGED <<kinds, login, ask, token, work>>
  BY DEF Refresh, Spent
<1>2. t \in Issued /\ t \in Tokens /\ q \in Asks
  BY DEF Refresh, IInv, OneLine, FoundIsIssued, Typed, TypeOK, Issued, Token
<1>. HIDE DEF t, q
<1>3. CASE token[t].spent
  <2>1. conn' \in [Asks -> Conn]
    BY <1>1, <1>2, <1>3, RevokedTyped DEF IInv
  <2>. QED
    BY <1>1, <1>3, <2>1, KeepIdle
<1>4. CASE ~token[t].spent
  <2>1. token[t].of = q
    BY DEF q
  <2>. QED
    BY <1>1, <1>2, <1>4, <2>1, KeepIssuing
<1>. QED  BY <1>3, <1>4

LEMMA KeepIssue ==
    ASSUME IInv, NEW c \in Calls, Issue(c)
    PROVE  IInv'
<1>. USE ConstantsApart
<1>. DEFINE q == calls[c].on
            f == calls[c].from
            new == [of |-> q, spent |-> FALSE, over |-> FALSE, from |-> f]
<1>1. PICK t \in Tokens \ Issued :
          IF f = None
          THEN /\ token' = [token EXCEPT ![t] = new]
               /\ ask' = [ask EXCEPT ![q].status = "spent"]
          ELSE /\ token' = [token EXCEPT ![t] = new, ![f].spent = TRUE]
               /\ UNCHANGED ask
  BY DEF Issue
<1>2. /\ calls[c].at = "issuing" /\ UNCHANGED <<kinds, login, conn, work>>
      /\ calls' = [calls EXCEPT ![c] = [at |-> "idle"]]
  BY DEF Issue, Idle, Goto
<1>3. /\ q \in Asks /\ f \in Tokens \cup {None}
      /\ token \in [Tokens -> Token \cup {None}] /\ ask \in [Asks -> Ask]
  BY <1>2 DEF IInv, Typed, TypeOK, CallRow
<1>4. \/ f = None /\ ask[q].status = "granted"
      \/ f # None /\ f \in Issued /\ token[f].of = q /\ ~token[f].spent
  BY <1>2, <1>3 DEF IInv, OneLine, IssuerHoldsUnspent, Issued
<1>5. new \in Token /\ new.of = q /\ new.from = f /\ ~new.spent
  BY <1>3 DEF Token
<1>. HIDE DEF new, q, f
<1>6. t \in Tokens /\ t \notin Issued /\ t # f
  BY <1>1, <1>4
\* What the step does to the rows.
<1>7. /\ token' \in [Tokens -> Token \cup {None}] /\ token'[t] = new
      /\ \A u \in Tokens : u # t /\ u # f => token'[u] = token[u]
      /\ f # None => /\ token'[f] \in Token /\ token'[f].spent
                     /\ token'[f].of = token[f].of /\ token'[f].from = token[f].from
  <2>1. CASE f = None
    BY <1>1, <1>3, <1>5, <1>6, <2>1
  <2>2. CASE f # None
    <3>1. f \in Tokens /\ token[f] \in Token
      BY <1>3, <1>4, <2>2 DEF Issued
    <3>2. /\ [token[f] EXCEPT !.spent = TRUE] \in Token
          /\ [token[f] EXCEPT !.spent = TRUE].spent
          /\ [token[f] EXCEPT !.spent = TRUE].of = token[f].of
          /\ [token[f] EXCEPT !.spent = TRUE].from = token[f].from
      BY <3>1 DEF Token
    <3>3. token' = [[token EXCEPT ![t] = new] EXCEPT ![f] = [token[f] EXCEPT !.spent = TRUE]]
      BY <1>1, <1>3, <1>6, <2>2, <3>1
    <3>. QED  BY <1>3, <1>5, <1>6, <2>2, <3>1, <3>2, <3>3
  <2>. QED  BY <2>1, <2>2
<1>8. /\ ask' \in [Asks -> Ask]
      /\ \A r \in Asks : ask'[r].status = IF f = None /\ r = q THEN "spent" ELSE ask[r].status
  BY <1>1, <1>3 DEF Ask
<1>9. /\ Issued' = Issued \cup {t}
      /\ \A u \in Issued : token'[u].of = token[u].of /\ token'[u].from = token[u].from
      /\ \A u \in Issued : token[u].spent \/ u = f => token'[u].spent
      /\ \A u \in Issued : u # f => token'[u].spent = token[u].spent
  <2>1. token'[t] # None
    BY <1>5, <1>7
  <2>2. \A u \in Tokens : u # t => (token'[u] # None <=> token[u] # None)
    BY <1>4, <1>7 DEF Issued
  <2>. QED  BY <1>4, <1>6, <1>7, <2>1, <2>2 DEF Issued
<1>10. calls'[c].at = "idle" /\ \A d \in Calls : d # c => calls'[d] = calls[d]
  BY <1>2 DEF IInv, Typed
<1>11. Typed'
  <2>1. calls' \in [Calls -> CallRow]
    BY <1>2, CallsTyped DEF IInv, CallRow
  <2>. QED
    BY <1>2, <1>7, <1>8, <2>1 DEF IInv, Typed, TypeOK, work
\* Nothing was issued for what the call holds.
<1>12. \A u \in Issued : token[u].of # q \/ token[u].from # f
  BY <1>4 DEF IInv, OneLine, CodeIsSpent, RefreshIsSpent
<1>13. ExchangedOnce'
  BY <1>5, <1>7, <1>9, <1>12 DEF IInv, OneLine, ExchangedOnce
<1>14. CodeIsSpent'
  <2>1. \A u \in Issued : token[u].of \in Asks
    BY <1>3 DEF Issued, Token
  <2>. QED
    BY <1>3, <1>5, <1>7, <1>8, <1>9, <2>1 DEF IInv, OneLine, CodeIsSpent
<1>15. RefreshIsSpent'
  BY <1>4, <1>5, <1>7, <1>9 DEF IInv, OneLine, RefreshIsSpent
<1>16. FoundIsIssued'
  BY <1>9, <1>10 DEF IInv, OneLine, FoundIsIssued
<1>17. IssuerIsAlone'
  BY <1>10 DEF IInv, OneLine, IssuerIsAlone
\* Another call that is about to issue is on another connection.
<1>18. IssuerHoldsUnspent'
  <2>. SUFFICES ASSUME NEW d \in Calls, calls'[d].at = "issuing"
                PROVE  \/ calls'[d].from = None /\ ask'[calls'[d].on].status = "granted"
                       \/ /\ calls'[d].from \in Issued' /\ ~token'[calls'[d].from].spent
                          /\ token'[calls'[d].from].of = calls'[d].on
    BY DEF IssuerHoldsUnspent
  <2>1. d # c /\ calls'[d] = calls[d]
    BY <1>10
  <2>2. calls[d].on # q /\ calls[d].on \in Asks
    BY <1>2, <2>1 DEF IInv, OneLine, IssuerIsAlone, q, Typed, CallRow
  <2>3. \/ calls[d].from = None /\ ask[calls[d].on].status = "granted"
        \/ /\ calls[d].from \in Issued /\ ~token[calls[d].from].spent
           /\ token[calls[d].from].of = calls[d].on
    BY <2>1 DEF IInv, OneLine, IssuerHoldsUnspent
  <2>4. CASE calls[d].from = None /\ ask[calls[d].on].status = "granted"
    BY <1>8, <2>1, <2>2, <2>4
  <2>5. CASE /\ calls[d].from \in Issued /\ ~token[calls[d].from].spent
             /\ token[calls[d].from].of = calls[d].on
    <3>1. calls[d].from # f
      BY <1>4, <2>2, <2>5 DEF Issued
    <3>. QED  BY <1>9, <2>1, <2>5, <3>1
  <2>. QED  BY <2>3, <2>4, <2>5
<1>19. OneLine'
  BY <1>13, <1>14, <1>15, <1>16, <1>17, <1>18 DEF OneLine
<1>20. OneEffect'
  <2>. DEFINE rest == [at |-> "idle"]
  <2>1. calls' = [calls EXCEPT ![c] = rest] /\ rest.at = "idle"
    BY <1>2
  <2>. HIDE DEF rest
  <2>. QED
    BY <1>2, <2>1, WorkRests DEF IInv
<1>. QED  BY <1>11, <1>19, <1>20 DEF IInv

-----------------------------------------------------------------------------
(* Tool calls: the key is locked, and so is the task when a plan is applied. *)

\* The entries of the ledger a writing call is about.
LEMMA WriterShape ==
    ASSUME Typed, NEW c \in Calls, calls[c].at \in {"called", "writing"}
    PROVE  /\ calls[c].on \in Asks /\ calls[c].key \in Keys /\ calls[c].op \in Op
           /\ <<calls[c].on, calls[c].key>> \in Asks \X Keys
           /\ calls[c] = [at |-> calls[c].at, on |-> calls[c].on,
                          key |-> calls[c].key, op |-> calls[c].op, seen |-> calls[c].seen]
           /\ calls[c].seen \in 0..MaxVersion
           /\ calls[c].op.tool = "apply" =>
                calls[c].op.on \in Keys /\ <<calls[c].on, calls[c].op.on>> \in Asks \X Keys
<1>1. calls[c] \in [at : {"called", "writing"}, on : Asks, key : Keys, op : Op, seen : 0..MaxVersion]
  BY DEF Typed, CallRow
<1>. QED
  BY <1>1 DEF Op

LEMMA KeepPerform ==
    ASSUME IInv, NEW c \in Calls, task.version < MaxVersion, Perform(c)
    PROVE  IInv'
<1>. DEFINE old == calls[c]
            call == [at |-> "writing", on |-> old.on, key |-> old.key, op |-> old.op,
                     seen |-> task.version]
<1>1. /\ old.on \in Asks /\ old.key \in Keys /\ old.op \in Op
      /\ old = [at |-> "called", on |-> old.on, key |-> old.key, op |-> old.op, seen |-> old.seen]
      /\ task.version \in 0..MaxVersion
  BY WriterShape DEF Perform, IInv, Typed, TaskRow
<1>4. /\ call \in CallRow /\ call.at = "writing" /\ call.on = old.on
      /\ call.key = old.key /\ call.op = old.op
  BY <1>1 DEF CallRow
<1>5. /\ KeyFree(old.on, old.key) /\ Result(c) = None
      /\ old.op.tool = "apply" => PlanOf(c) # None /\ TaskFree /\ PlanOf(c).seen = task.version
      /\ UNCHANGED <<login, ask, conn, token, work>>
  BY DEF Perform, Ready, StillAsSeen, grants
<1>6. calls' = [calls EXCEPT ![c] = call]
  BY DEF Perform, Goto
<1>. HIDE DEF call
<1>7. calls'[c] = call /\ \A d \in Calls : d # c => calls'[d] = calls[d]
  BY <1>6 DEF IInv, Typed
<1>8. Typed'
  <2>1. calls' \in [Calls -> CallRow]
    BY <1>4, <1>6, CallsTyped DEF IInv
  <2>. QED  BY <1>5, <2>1 DEF IInv, Typed, TypeOK, work
<1>9. OneLine'
  BY <1>4, <1>5, <1>6, LineRests DEF IInv
<1>10. WriterIsAlone'
  BY <1>4, <1>5, <1>7 DEF IInv, OneEffect, WriterIsAlone, KeyFree
<1>11. WriterIsFirst'
  BY <1>4, <1>5, <1>7 DEF IInv, OneEffect, WriterIsFirst, Result, work
<1>12. ApplierIsAlone'
  BY <1>4, <1>5, <1>7 DEF IInv, OneEffect, ApplierIsAlone, TaskFree
<1>13. PlanStands'
  BY <1>4, <1>5, <1>7 DEF IInv, OneEffect, PlanStands, PlanOf, work
<1>14. OneEffect'
  BY <1>5, <1>10, <1>11, <1>12, <1>13 DEF IInv, OneEffect, DoneHasReceipt, work
<1>. QED  BY <1>8, <1>9, <1>14 DEF IInv

LEMMA KeepEditTask ==
    ASSUME IInv, EditTask
    PROVE  IInv'
<1>. USE ConstantsApart DEF IInv, EditTask, grants
<1>1. task' \in TaskRow
  BY DEF Typed, TaskRow
<1>2. Typed'
  BY <1>1 DEF Typed, TypeOK
<1>3. OneLine'
  BY AllLinesRest
<1>4. OneEffect'
  BY DEF OneEffect, DoneHasReceipt, WriterIsAlone, WriterIsFirst, ApplierIsAlone,
         PlanStands, Result, PlanOf, TaskFree
<1>. QED  BY <1>2, <1>3, <1>4

LEMMA KeepCommit ==
    ASSUME IInv, NEW c \in Calls, Commit(c)
    PROVE  IInv'
<1>. USE ConstantsApart
<1>. DEFINE x == <<calls[c].on, calls[c].key>>
            op == calls[c].op
            row == [op |-> op, seen |-> IF op.tool = "preview" THEN calls[c].seen ELSE 0, over |-> FALSE]
            rest == [at |-> "idle"]
<1>1. /\ calls[c].at = "writing" /\ receipt' = [receipt EXCEPT ![x] = row]
      /\ made' = [made EXCEPT ![x] = IF op.tool = "preview" THEN @ ELSE @ + 1]
      /\ task' = IF op.tool # "apply" THEN task
                 ELSE [version |-> task.version + 1, plan |-> <<calls[c].on, op.on>>]
      /\ calls' = [calls EXCEPT ![c] = rest] /\ rest.at = "idle"
      /\ UNCHANGED <<login, ask, conn, token>>
  BY DEF Commit, Kept, Idle, Goto, grants
<1>2. /\ x \in Asks \X Keys /\ op \in Op /\ calls[c].seen \in 0..MaxVersion
      /\ op.tool = "apply" => <<calls[c].on, op.on>> \in Asks \X Keys
  BY <1>1, WriterShape DEF IInv
<1>3. /\ receipt \in [Asks \X Keys -> Receipt \cup {None}] /\ made \in [Asks \X Keys -> Nat]
      /\ task \in TaskRow /\ task.version \in 0..MaxVersion
  BY DEF IInv, Typed, TypeOK, Made, TaskRow
<1>4. row \in Receipt /\ rest \in CallRow
  BY <1>2, <1>3 DEF Receipt, CallRow
<1>5. receipt[x] = None /\ made[x] = 0
  BY <1>1, <1>2 DEF IInv, OneEffect, WriterIsFirst, DoneHasReceipt, Result
<1>. HIDE DEF row, x, rest
<1>6. /\ receipt'[x] = row /\ row # None
      /\ \A y \in Asks \X Keys : y # x => receipt'[y] = receipt[y] /\ made'[y] = made[y]
      /\ made'[x] \in {0, 1}
  BY <1>1, <1>2, <1>3, <1>4, <1>5
<1>7. calls'[c].at = "idle" /\ \A d \in Calls : d # c => calls'[d] = calls[d]
  BY <1>1 DEF IInv, Typed
<1>8. Typed'
  <2>1. receipt' \in [Asks \X Keys -> Receipt \cup {None}]
    BY <1>1, <1>3, <1>4
  <2>2. made' \in Made
    BY <1>1, <1>2, <1>3 DEF Made
  <2>3. task' \in TaskRow
    <3>1. op.tool = "apply" => task.version < MaxVersion
      BY <1>1 DEF IInv, OneEffect, PlanStands
    <3>. QED  BY <1>1, <1>2, <1>3, <3>1 DEF TaskRow
  <2>4. calls' \in [Calls -> CallRow]
    BY <1>1, <1>4, CallsTyped DEF IInv
  <2>. QED  BY <1>1, <2>1, <2>2, <2>3, <2>4 DEF IInv, Typed, TypeOK
<1>9. OneLine'
  <2>. rest.at # "issuing" /\ rest.at # "found"
    BY <1>1
  <2>. QED  BY <1>1, LineRests DEF IInv
<1>10. DoneHasReceipt'
  BY <1>6 DEF IInv, OneEffect, DoneHasReceipt
<1>11. WriterIsAlone' /\ ApplierIsAlone'
  BY <1>7 DEF IInv, OneEffect, WriterIsAlone, ApplierIsAlone
\* Another call that writes has another key, and applies another plan than this receipt.
<1>12. \A d \in Calls : calls'[d].at = "writing" =>
           /\ d # c /\ calls'[d] = calls[d]
           /\ <<calls[d].on, calls[d].key>> \in Asks \X Keys
           /\ <<calls[d].on, calls[d].key>> # x
  <2>. SUFFICES ASSUME NEW d \in Calls, calls'[d].at = "writing"
                PROVE  /\ d # c /\ calls'[d] = calls[d]
                       /\ <<calls[d].on, calls[d].key>> \in Asks \X Keys
                       /\ <<calls[d].on, calls[d].key>> # x
    OBVIOUS
  <2>1. d # c /\ calls'[d] = calls[d] /\ calls[d].at = "writing"
    BY <1>7
  <2>2. ~(calls[d].on = calls[c].on /\ calls[d].key = calls[c].key)
    BY <1>1, <2>1 DEF IInv, OneEffect, WriterIsAlone
  <2>3. <<calls[d].on, calls[d].key>> # x
    BY <2>2 DEF x
  <2>. QED  BY <2>1, <2>3, WriterShape DEF IInv
<1>13. WriterIsFirst'
  <2>1. ASSUME NEW d \in Calls, calls'[d].at = "writing"
        PROVE  receipt'[<<calls'[d].on, calls'[d].key>>] = None
    <3>1. calls'[d] = calls[d] /\ receipt[<<calls[d].on, calls[d].key>>] = None
      BY <1>12, <2>1 DEF IInv, OneEffect, WriterIsFirst, Result
    <3>. QED  BY <1>6, <1>12, <2>1, <3>1
  <2>. QED  BY <2>1 DEF WriterIsFirst, Result
<1>14. PlanStands'
  <2>. SUFFICES ASSUME NEW d \in Calls, calls'[d].at = "writing", calls'[d].op.tool = "apply"
                PROVE  /\ receipt'[<<calls'[d].on, calls'[d].op.on>>] # None
                       /\ receipt'[<<calls'[d].on, calls'[d].op.on>>].seen = task'.version
                       /\ task'.version < MaxVersion
    BY DEF PlanStands, PlanOf
  <2>1. d # c /\ calls'[d] = calls[d]
    BY <1>12
  <2>2. op.tool # "apply"
    BY <1>1, <2>1 DEF IInv, OneEffect, ApplierIsAlone
  <2>3. /\ PlanOf(d) # None /\ PlanOf(d).seen = task.version /\ task.version < MaxVersion
        /\ <<calls[d].on, calls[d].op.on>> \in Asks \X Keys
    BY <2>1, WriterShape DEF IInv, OneEffect, PlanStands
  <2>4. receipt'[<<calls[d].on, calls[d].op.on>>] = PlanOf(d)
    BY <1>5, <1>6, <2>3 DEF PlanOf
  <2>. QED  BY <1>1, <2>1, <2>2, <2>3, <2>4
<1>15. OneEffect'
  BY <1>10, <1>11, <1>13, <1>14 DEF OneEffect
<1>. QED  BY <1>8, <1>9, <1>15 DEF IInv

-----------------------------------------------------------------------------
(* The theorems.                                                             *)

LEMMA Initially == Init => IInv
<1>. SUFFICES ASSUME Init PROVE IInv
  OBVIOUS
<1>. USE ConstantsApart DEF Init
<1>1. Typed
  BY DEF Typed, TypeOK, Made, TaskRow, Login, Ask, Conn, CallRow
<1>2. Issued = {}
  BY DEF Issued
<1>3. OneLine
  BY <1>2 DEF OneLine, ExchangedOnce, CodeIsSpent, RefreshIsSpent, FoundIsIssued,
              IssuerIsAlone, IssuerHoldsUnspent
<1>4. OneEffect
  BY DEF OneEffect, DoneHasReceipt, WriterIsAlone, WriterIsFirst, ApplierIsAlone, PlanStands
<1>. QED  BY <1>1, <1>3, <1>4 DEF IInv

LEMMA KeepStuttering ==
    ASSUME IInv, UNCHANGED vars
    PROVE  IInv'
<1>. USE DEF IInv, vars
<1>1. Typed'
  BY DEF Typed, TypeOK
<1>. QED
  BY <1>1, AllLinesRest, AllWorkRests DEF work

LEMMA Inductive ==
    ASSUME IInv, [Next]_vars
    PROVE  IInv'
<1>1. CASE UNCHANGED vars
  BY <1>1, KeepStuttering
<1>2. CASE ChangeLogin \/ Start \/ Disconnect \/ Outlive \/ Lapse \/ EditTask
  BY <1>2, KeepChangeLogin, KeepStart, KeepDisconnect, KeepOutlive, KeepLapse, KeepEditTask
<1>3. ASSUME NEW c \in Calls, Granting(c)
      PROVE  IInv'
  BY <1>3, KeepIdentify, KeepApprove, KeepDeny, KeepRedeem, KeepPresent, KeepRefresh,
     KeepIssue DEF Granting
<1>4. ASSUME NEW c \in Calls, Working(c) \/ Lost(c)
      PROVE  IInv'
  BY <1>4, KeepCall, KeepPerform, KeepReplayAndLost, KeepCommit DEF Working
<1>. QED  BY <1>1, <1>2, <1>3, <1>4 DEF Next

LEMMA NothingTwice ==
    ASSUME IInv
    PROVE  OneEffectPerKey /\ ExchangedOnce /\ TypeOK
<1>1. OneEffectPerKey
  <2>. SUFFICES ASSUME NEW x \in DOMAIN made PROVE made[x] <= 1
    BY DEF OneEffectPerKey
  <2>1. x \in Asks \X Keys
    BY DEF IInv, Typed, Made
  <2>. QED  BY <2>1 DEF IInv, OneEffect, DoneHasReceipt
<1>. QED  BY <1>1 DEF IInv, OneLine, Typed

\* A plan is still that of its preview when the call that applies it commits.
LEMMA AppliesWhatStands ==
    ASSUME IInv, [Next]_vars, task' # task, task'.plan # None
    PROVE  receipt[task'.plan].seen = task.version
<1>. USE DEF vars, work, grants
<1>1. PICK c \in Calls : Commit(c)
  <2>1. ~(ChangeLogin \/ Start \/ Disconnect \/ Outlive \/ Lapse \/ EditTask \/ UNCHANGED vars)
    BY DEF ChangeLogin, Start, Disconnect, Outlive, Lapse, EditTask
  <2>2. PICK c \in Calls : Granting(c) \/ Working(c) \/ Lost(c)
    BY <2>1 DEF Next
  <2>3. ~Granting(c)
    BY DEF Granting, Identify, Approve, Deny, Redeem, Present, Refresh, Issue
  <2>4. ~(Call(c) \/ Perform(c) \/ Replay(c) \/ Lost(c))
    BY DEF Call, Perform, Replay, Lost
  <2>. QED  BY <2>2, <2>3, <2>4 DEF Working
<1>2. calls[c].op.tool = "apply" /\ task'.plan = <<calls[c].on, calls[c].op.on>>
  BY <1>1 DEF Commit
<1>3. calls[c].at = "writing"
  BY <1>1 DEF Commit
<1>. QED  BY <1>2, <1>3 DEF IInv, OneEffect, PlanStands, PlanOf

-----------------------------------------------------------------------------
(* GuestInvitations.  A call that reports a mail as sent knows one that left*)
(* under the token it names; the participations are of the invitations      *)
(* accepted, one each, and one of them at most is active.                   *)

\* An invitation is mailed at least once.
GSensible == MaxToken \in Nat \ {0}

InvitationRow == {q \in I!Invitation : q.status # "absent" => q.token >= 1}
GCallRow ==
    {[at |-> "idle"]} \cup [at : {"form"}, on : Invitations, version : Nat]
        \cup [at : {"prepared"}, on : Invitations, token : 1 .. MaxToken]
        \cup [at : {"mailing"}, on : Invitations, token : 1 .. MaxToken, key : 1 .. MaxToken]
        \cup [at : {"mailed"}, on : Invitations, key : 1 .. MaxToken,
              delivery : I!Deliveries \ {"sending"}]
GTyped ==
    /\ iRow \in [Invitations -> InvitationRow] /\ iCheck \subseteq I!Check
    /\ iPart \subseteq I!Participation /\ iMail \subseteq I!Mail /\ iReceipt \subseteq I!Receipt
    /\ iAccount \in BOOLEAN /\ iCalls \in [Calls -> GCallRow]

\* Whoever is to be mailed was invited, and a mail known to be sent has left.
MailingFits(c) ==
    /\ iCalls[c].at = "prepared" => iRow[iCalls[c].on].status # "absent"
    /\ (iCalls[c].at = "mailed" /\ iCalls[c].delivery = "sent") =>
          \E m \in iMail : m.on = iCalls[c].on /\ m.key = iCalls[c].key
MailingsFit == \A c \in Calls : MailingFits(c)

\* Participations are of the invitations accepted, one each, and one is active.
PartFits ==
    /\ IsFiniteSet(iPart)
    /\ \A p, q \in iPart : p.from = q.from => p = q
    /\ \A p, q \in iPart : p.active /\ q.active => p = q
    /\ \A p \in iPart : iRow[p.from].status = "accepted"
    /\ \A i \in Invitations : iRow[i].status = "accepted" => \E p \in iPart : p.from = i

GInv == GTyped /\ I!SentWasMailed /\ MailingsFit /\ PartFits

LEMMA SameCardinality == \A S : I!Cardinality(S) = Cardinality(S)
BY DEF I!Cardinality, Cardinality

LEMMA GCallShape ==
    ASSUME GTyped, NEW c \in Calls
    PROVE  /\ iCalls[c].at = "prepared" =>
                 iCalls[c] \in [at : {"prepared"}, on : Invitations, token : 1 .. MaxToken]
           /\ iCalls[c].at = "mailing" =>
                 iCalls[c] \in [at : {"mailing"}, on : Invitations, token : 1 .. MaxToken,
                               key : 1 .. MaxToken]
           /\ iCalls[c].at = "mailed" =>
                 iCalls[c] \in [at : {"mailed"}, on : Invitations, key : 1 .. MaxToken,
                               delivery : I!Deliveries \ {"sending"}]
BY DEF GTyped, GCallRow

\* What a step of a row leaves to the mails under way.
StaysInvited == \A x \in Invitations : iRow[x].status # "absent" => iRow'[x].status # "absent"

LEMMA MailingKept ==
    ASSUME GInv, StaysInvited, iMail \subseteq iMail', NEW d \in Calls, iCalls'[d] = iCalls[d]
    PROVE  MailingFits(d)'
<1>1. MailingFits(d)
  BY DEF GInv, MailingsFit
<1>2. iCalls[d].at = "prepared" => iCalls[d].on \in Invitations
  BY GCallShape DEF GInv
<1>. QED  BY <1>1, <1>2 DEF MailingFits, StaysInvited

\* A call goes on to m.
LEMMA MailingMoves ==
    ASSUME GInv, StaysInvited, iMail \subseteq iMail', NEW c \in Calls, NEW m \in GCallRow,
           iCalls' = [iCalls EXCEPT ![c] = m], MailingFits(c)'
    PROVE  iCalls' \in [Calls -> GCallRow] /\ MailingsFit'
<1>1. iCalls' \in [Calls -> GCallRow]
  BY DEF GInv, GTyped
<1>2. \A d \in Calls : d # c => iCalls'[d] = iCalls[d]
  BY DEF GInv, GTyped
<1>3. \A d \in Calls : d # c => MailingFits(d)'
  BY <1>2, MailingKept
<1>. QED  BY <1>1, <1>3 DEF MailingsFit

LEMMA MailingRests ==
    ASSUME GInv, StaysInvited, iMail \subseteq iMail', NEW c \in Calls, I!Idle(c)
    PROVE  iCalls' \in [Calls -> GCallRow] /\ MailingsFit'
<1>1. PICK m : m = [at |-> "idle"]
  OBVIOUS
<1>2. m \in GCallRow /\ iCalls' = [iCalls EXCEPT ![c] = m] /\ iCalls'[c] = m
  BY <1>1 DEF GCallRow, I!Idle, GInv, GTyped
<1>3. MailingFits(c)'
  BY <1>1, <1>2 DEF MailingFits
<1>. QED  BY <1>2, <1>3, MailingMoves

\* One invitation changes to n.
LEMMA OneRow ==
    ASSUME GInv, NEW i \in Invitations, NEW n \in InvitationRow,
           iRow' = [iRow EXCEPT ![i] = n], n.status # "absent", iMail \subseteq iMail',
           n.delivery = "sent" => \/ iRow[i].delivery = "sent" /\ n.token = iRow[i].token
                                  \/ \E m \in iMail : m.on = i /\ m.key = n.token
    PROVE  /\ iRow' \in [Invitations -> InvitationRow] /\ iRow'[i] = n
           /\ \A x \in Invitations : x # i => iRow'[x] = iRow[x]
           /\ I!SentWasMailed' /\ StaysInvited
<1>1. iRow' \in [Invitations -> InvitationRow]
  BY DEF GInv, GTyped
<1>2. iRow'[i] = n
  BY DEF GInv, GTyped
<1>3. \A x \in Invitations : x # i => iRow'[x] = iRow[x]
  BY DEF GInv, GTyped
<1>4. I!SentWasMailed'
  <2>. SUFFICES ASSUME NEW x \in Invitations, iRow'[x].delivery = "sent"
                PROVE  \E m \in iMail' : m.on = x /\ m.key = iRow'[x].token
    BY DEF I!SentWasMailed
  <2>1. \E m \in iMail : m.on = x /\ m.key = iRow'[x].token
    BY <1>2, <1>3 DEF GInv, I!SentWasMailed
  <2>. QED  BY <2>1
<1>5. StaysInvited
  BY <1>2, <1>3 DEF StaysInvited
<1>. QED  BY <1>1, <1>2, <1>3, <1>4, <1>5

\* The same participations, and nothing accepted or taken back.
LEMMA PartKept ==
    ASSUME GInv, iPart' = iPart,
           \A x \in Invitations : iRow'[x].status = "accepted" <=> iRow[x].status = "accepted"
    PROVE  PartFits'
<1>1. \A p \in iPart : p.from \in Invitations
  BY DEF GInv, GTyped, I!Participation
<1>. QED  BY <1>1 DEF GInv, PartFits

LEMMA RowQuiet ==
    ASSUME GInv, UNCHANGED iRow, iMail \subseteq iMail'
    PROVE  StaysInvited /\ I!SentWasMailed' /\ (iPart' = iPart => PartFits')
<1>1. StaysInvited
  BY DEF StaysInvited
<1>2. I!SentWasMailed'
  BY DEF GInv, I!SentWasMailed
<1>3. iPart' = iPart => PartFits'
  BY PartKept
<1>. QED  BY <1>1, <1>2, <1>3

\* An invitation is settled, or known to have been mailed.
LEMMA SettledShape ==
    ASSUME GInv, NEW i \in Invitations,
           NEW s \in {"pending", "accepted", "declined", "revoked", "expired"},
           NEW n, n = [iRow[i] EXCEPT !.status = s, !.version = @ + 1], iRow[i].status # "absent"
    PROVE  n \in InvitationRow /\ n.status = s /\ n.token = iRow[i].token
           /\ n.delivery = iRow[i].delivery
<1>1. PICK q \in InvitationRow : q = iRow[i]
  BY DEF GInv, GTyped
<1>2. PICK v \in Nat : v = q.version + 1
  BY <1>1 DEF InvitationRow, I!Invitation
<1>3. PICK g : g = [q EXCEPT !.status = s, !.version = v]
  OBVIOUS
<1>4. n = g
  BY <1>1, <1>2, <1>3
<1>5. g \in I!Invitation
  BY <1>3, Zenon DEF InvitationRow, I!Invitation
<1>6. g.status = s /\ g.token = q.token /\ g.delivery = q.delivery
  BY <1>3 DEF InvitationRow, I!Invitation
<1>. QED  BY <1>1, <1>4, <1>5, <1>6 DEF InvitationRow

LEMMA SettleRow ==
    ASSUME GInv, NEW i \in Invitations,
           NEW s \in {"pending", "accepted", "declined", "revoked", "expired"}, I!Settle(i, s),
           iRow[i].status # "absent", iMail \subseteq iMail'
    PROVE  /\ iRow' \in [Invitations -> InvitationRow] /\ iRow'[i].status = s
           /\ \A x \in Invitations : x # i => iRow'[x] = iRow[x]
           /\ I!SentWasMailed' /\ StaysInvited
<1>1. PICK n : n = [iRow[i] EXCEPT !.status = s, !.version = @ + 1]
  OBVIOUS
<1>2. n \in InvitationRow /\ n.status = s /\ n.token = iRow[i].token /\ n.delivery = iRow[i].delivery
  BY <1>1, SettledShape, ZenonT(60)
<1>3. iRow' = [iRow EXCEPT ![i] = n]
  BY <1>1 DEF I!Settle
<1>. QED  BY <1>2, <1>3, OneRow

LEMMA RecordShape ==
    ASSUME GInv, NEW i \in Invitations, NEW k \in Keys,
           NEW kind \in {"created", "resent", "revoked", "accepted", "declined", "registered", "expired"},
           I!Record(i, k, kind)
    PROVE  iReceipt' \subseteq I!Receipt
<1>1. PICK r : r = [on |-> i, key |-> k, kind |-> kind]
  OBVIOUS
<1>2. r \in I!Receipt
  BY <1>1 DEF I!Receipt
<1>. QED  BY <1>1, <1>2 DEF I!Record, GInv, GTyped

LEMMA IKeepFill ==
    ASSUME GInv, NEW c \in Calls, I!Fill(c)
    PROVE  GInv'
<1>1. PICK i \in Invitations :
        iCalls' = [iCalls EXCEPT ![c] = [at |-> "form", on |-> i, version |-> iRow[i].version]]
  BY DEF I!Fill
<1>2. UNCHANGED <<iRow, iCheck, iReceipt, iMail, iAccount, iPart>>
  BY DEF I!Fill, I!outside
<1>3. PICK m : m = [at |-> "form", on |-> i, version |-> iRow[i].version]
  OBVIOUS
<1>4. iRow[i].version \in Nat
  BY DEF GInv, GTyped, InvitationRow, I!Invitation
<1>5. m \in GCallRow /\ m.at = "form" /\ iCalls' = [iCalls EXCEPT ![c] = m] /\ iCalls'[c] = m
  BY <1>1, <1>3, <1>4 DEF GCallRow, GInv, GTyped
<1>6. MailingFits(c)'
  BY <1>5 DEF MailingFits
<1>7. StaysInvited /\ I!SentWasMailed' /\ PartFits'
  BY <1>2, RowQuiet
<1>8. iCalls' \in [Calls -> GCallRow] /\ MailingsFit'
  BY <1>2, <1>5, <1>6, <1>7, MailingMoves
<1>. QED  BY <1>2, <1>7, <1>8 DEF GInv, GTyped

LEMMA IKeepLost ==
    ASSUME GInv, NEW c \in Calls, I!Lost(c)
    PROVE  GInv'
<1>1. I!Idle(c) /\ UNCHANGED <<iRow, iCheck, iReceipt, iMail, iAccount, iPart>>
  BY DEF I!Lost, I!outside
<1>2. StaysInvited /\ I!SentWasMailed' /\ PartFits'
  BY <1>1, RowQuiet
<1>3. iCalls' \in [Calls -> GCallRow] /\ MailingsFit'
  BY <1>1, <1>2, MailingRests
<1>. QED  BY <1>1, <1>2, <1>3 DEF GInv, GTyped

LEMMA IKeepCreate ==
    ASSUME GInv, NEW c \in Calls, I!Create(c), GSensible
    PROVE  GInv'
<1>1. PICK i \in Invitations, k \in Keys :
        /\ iRow[i].status = "absent"
        /\ iRow' = [x \in Invitations |-> IF x = i THEN I!Fresh
                                         ELSE IF x \in I!Pending THEN I!Expired(x) ELSE iRow[x]]
        /\ iReceipt' = iReceipt \cup {[on |-> i, key |-> k, kind |-> "created"]}
                              \cup {[on |-> e, key |-> k, kind |-> "expired"] : e \in I!Pending}
        /\ iCalls' = [iCalls EXCEPT ![c] = [at |-> "prepared", on |-> i, token |-> 1]]
  BY DEF I!Create
<1>2. UNCHANGED <<iCheck, iMail, iAccount, iPart>>
  BY DEF I!Create, I!outside
<1>3. PICK n : n = I!Fresh
  OBVIOUS
<1>4. n \in InvitationRow /\ n.status = "pending" /\ n.delivery = "sending"
  <2>1. n \in I!Invitation
    BY <1>3 DEF I!Fresh, I!Invitation, I!Deliveries, GInv, GTyped, GSensible
  <2>. QED  BY <1>3, <2>1 DEF I!Fresh, InvitationRow
<1>5. \A x \in I!Pending : x \in Invitations /\ iRow[x].status = "pending"
  BY DEF I!Pending
<1>6. \A x \in I!Pending : I!Expired(x) \in InvitationRow /\ I!Expired(x).status = "expired"
          /\ I!Expired(x).token = iRow[x].token /\ I!Expired(x).delivery = iRow[x].delivery
  <2>. SUFFICES ASSUME NEW x \in I!Pending
                PROVE  /\ I!Expired(x) \in InvitationRow /\ I!Expired(x).status = "expired"
                       /\ I!Expired(x).token = iRow[x].token /\ I!Expired(x).delivery = iRow[x].delivery
    OBVIOUS
  <2>1. PICK y \in Invitations : y = x
    BY <1>5
  <2>4. iRow[y].status # "absent"
    BY <1>5, <2>1
  <2>5. PICK q \in InvitationRow : q = iRow[y]
    BY DEF GInv, GTyped
  <2>6. PICK v \in Nat : v = q.version + 1
    BY DEF InvitationRow, I!Invitation
  <2>7. PICK e : e = [q EXCEPT !.status = "expired", !.version = v]
    OBVIOUS
  <2>8. e \in I!Invitation
    BY <2>7, Zenon DEF InvitationRow, I!Invitation
  <2>9. e.status = "expired" /\ e.token = q.token /\ e.delivery = q.delivery
    BY <2>7 DEF InvitationRow, I!Invitation
  <2>10. e \in InvitationRow
    BY <2>4, <2>5, <2>8, <2>9 DEF InvitationRow
  <2>11. I!Expired(x) = e
    BY <2>1, <2>5, <2>6, <2>7 DEF I!Expired
  <2>. QED  BY <2>1, <2>5, <2>9, <2>10, <2>11
<1>7. \A x \in Invitations :
          /\ x = i => iRow'[x] = n
          /\ (x # i /\ x \in I!Pending) => iRow'[x] = I!Expired(x)
          /\ (x # i /\ x \notin I!Pending) => iRow'[x] = iRow[x]
  BY <1>1, <1>3
<1>8. \A x \in Invitations : iRow'[x] \in InvitationRow
  BY <1>4, <1>6, <1>7 DEF GInv, GTyped
<1>9. iRow' \in [Invitations -> InvitationRow]
  <2>1. iRow' = [x \in Invitations |-> iRow'[x]]
    BY <1>1
  <2>. QED  BY <1>8, <2>1
<1>10. StaysInvited
  BY <1>4, <1>6, <1>7 DEF StaysInvited
<1>11. I!SentWasMailed'
  <2>. SUFFICES ASSUME NEW x \in Invitations, iRow'[x].delivery = "sent"
                PROVE  \E m \in iMail : m.on = x /\ m.key = iRow'[x].token
    BY <1>2 DEF I!SentWasMailed
  <2>1. iRow[x].delivery = "sent" /\ iRow'[x].token = iRow[x].token
    BY <1>4, <1>6, <1>7
  <2>. QED  BY <2>1 DEF GInv, I!SentWasMailed
<1>12. \A x \in Invitations : iRow'[x].status = "accepted" <=> iRow[x].status = "accepted"
  BY <1>1, <1>4, <1>5, <1>6, <1>7
<1>13. PartFits'
  BY <1>2, <1>12, PartKept
<1>14. iReceipt' \subseteq I!Receipt
  <2>1. \A x \in Invitations, kind \in {"created", "expired"} :
            [on |-> x, key |-> k, kind |-> kind] \in I!Receipt
    BY DEF I!Receipt
  <2>. QED  BY <1>1, <1>5, <2>1 DEF GInv, GTyped
<1>15. PICK m : m = [at |-> "prepared", on |-> i, token |-> 1]
  OBVIOUS
<1>16. /\ m \in GCallRow /\ m.at = "prepared" /\ m.on = i
       /\ iCalls' = [iCalls EXCEPT ![c] = m] /\ iCalls'[c] = m
  BY <1>1, <1>15 DEF GCallRow, GInv, GTyped, GSensible
<1>17. MailingFits(c)'
  BY <1>4, <1>7, <1>16 DEF MailingFits
<1>18. iCalls' \in [Calls -> GCallRow] /\ MailingsFit'
  BY <1>2, <1>10, <1>16, <1>17, MailingMoves
<1>. QED  BY <1>2, <1>9, <1>11, <1>13, <1>14, <1>18 DEF GInv, GTyped

LEMMA IKeepResend ==
    ASSUME GInv, NEW c \in Calls, I!Resend(c), GSensible
    PROVE  GInv'
<1>1. PICK i \in Invitations, k \in Keys :
        /\ I!Open(i) /\ iRow[i].token < MaxToken
        /\ iRow' = [iRow EXCEPT ![i].token = @ + 1, ![i].version = @ + 1, ![i].delivery = "sending"]
        /\ I!Record(i, k, "resent")
        /\ iCalls' = [iCalls EXCEPT ![c] = [at |-> "prepared", on |-> i, token |-> iRow[i].token + 1]]
  BY DEF I!Resend
<1>2. UNCHANGED <<iCheck, iMail, iAccount, iPart>>
  BY DEF I!Resend, I!outside
<1>3. PICK q \in InvitationRow : q = iRow[i]
  BY DEF GInv, GTyped
<1>4. PICK t \in 1 .. MaxToken : t = q.token + 1
  BY <1>1, <1>3 DEF InvitationRow, I!Invitation, GSensible
<1>5. PICK v \in Nat : v = q.version + 1
  BY DEF InvitationRow, I!Invitation
<1>6. PICK n : n = [q EXCEPT !.token = t, !.version = v, !.delivery = "sending"]
  OBVIOUS
<1>7. n \in I!Invitation
  <2>1. t \in 0 .. MaxToken /\ "sending" \in I!Deliveries
    BY DEF GSensible, I!Deliveries
  <2>. QED  BY <1>6, <2>1, Zenon DEF InvitationRow, I!Invitation
<1>8. n.status = "pending" /\ n.token = t /\ n.delivery = "sending"
  BY <1>1, <1>3, <1>6 DEF I!Open, InvitationRow, I!Invitation
<1>9. n \in InvitationRow
  BY <1>4, <1>7, <1>8 DEF InvitationRow
<1>10. iRow' = [iRow EXCEPT ![i] = n]
  BY <1>1, <1>3, <1>4, <1>5, <1>6
<1>11. /\ iRow' \in [Invitations -> InvitationRow] /\ iRow'[i] = n
       /\ \A x \in Invitations : x # i => iRow'[x] = iRow[x]
       /\ I!SentWasMailed' /\ StaysInvited
  BY <1>2, <1>8, <1>9, <1>10, OneRow
<1>12. \A x \in Invitations : iRow'[x].status = "accepted" <=> iRow[x].status = "accepted"
  BY <1>1, <1>8, <1>11 DEF I!Open
<1>13. PartFits'
  BY <1>2, <1>12, PartKept
<1>14. iReceipt' \subseteq I!Receipt
  BY <1>1, RecordShape
<1>15. PICK m : m = [at |-> "prepared", on |-> i, token |-> t]
  OBVIOUS
<1>16. /\ m \in GCallRow /\ m.at = "prepared" /\ m.on = i
       /\ iCalls' = [iCalls EXCEPT ![c] = m] /\ iCalls'[c] = m
  BY <1>1, <1>3, <1>4, <1>15 DEF GCallRow, GInv, GTyped, GSensible
<1>17. MailingFits(c)'
  BY <1>8, <1>11, <1>16 DEF MailingFits
<1>18. iCalls' \in [Calls -> GCallRow] /\ MailingsFit'
  BY <1>2, <1>11, <1>16, <1>17, MailingMoves
<1>. QED  BY <1>2, <1>11, <1>13, <1>14, <1>18 DEF GInv, GTyped

LEMMA IKeepCompose ==
    ASSUME GInv, NEW c \in Calls, I!Compose(c), GSensible
    PROVE  GInv'
<1>1. iCalls[c].at = "prepared" /\ UNCHANGED <<iRow, iCheck, iReceipt, iMail, iAccount, iPart>>
  BY DEF I!Compose, I!outside
<1>2. PICK h \in [at : {"prepared"}, on : Invitations, token : 1 .. MaxToken] : h = iCalls[c]
  BY <1>1, GCallShape DEF GInv
<1>3. PICK k \in 1 .. MaxToken : k = iRow[h.on].token
  <2>1. iRow[h.on].status # "absent"
    BY <1>1, <1>2 DEF GInv, MailingsFit, MailingFits
  <2>2. iRow[h.on].token >= 1 /\ iRow[h.on].token \in 0 .. MaxToken
    BY <1>2, <2>1 DEF GInv, GTyped, InvitationRow, I!Invitation
  <2>. QED  BY <2>2 DEF GSensible
<1>4. PICK m : m = [at |-> "mailing", on |-> h.on, token |-> h.token, key |-> k]
  OBVIOUS
<1>5. m \in GCallRow /\ m.at = "mailing" /\ iCalls' = [iCalls EXCEPT ![c] = m] /\ iCalls'[c] = m
  BY <1>2, <1>3, <1>4 DEF I!Compose, GCallRow, GInv, GTyped
<1>6. MailingFits(c)'
  BY <1>5 DEF MailingFits
<1>7. StaysInvited /\ I!SentWasMailed' /\ PartFits'
  BY <1>1, RowQuiet
<1>8. iCalls' \in [Calls -> GCallRow] /\ MailingsFit'
  BY <1>1, <1>5, <1>6, <1>7, MailingMoves
<1>. QED  BY <1>1, <1>7, <1>8 DEF GInv, GTyped

LEMMA IKeepPost ==
    ASSUME GInv, NEW c \in Calls, I!Post(c)
    PROVE  GInv'
<1>1. PICK delivery \in I!Deliveries \ {"sending"}, left \in BOOLEAN :
        /\ delivery = "sent" => left
        /\ iMail' = IF left
                   THEN iMail \cup {[on |-> iCalls[c].on, token |-> iCalls[c].token, key |-> iCalls[c].key]}
                   ELSE iMail
        /\ iCalls' = [iCalls EXCEPT ![c] = [at |-> "mailed", on |-> iCalls[c].on,
                                          key |-> iCalls[c].key, delivery |-> delivery]]
  BY DEF I!Post
<1>2. iCalls[c].at = "mailing" /\ UNCHANGED <<iRow, iCheck, iReceipt, iAccount, iPart>>
  BY DEF I!Post, I!outside
<1>3. PICK h \in [at : {"mailing"}, on : Invitations, token : 1 .. MaxToken, key : 1 .. MaxToken] :
        h = iCalls[c]
  BY <1>2, GCallShape DEF GInv
<1>4. PICK x : x = [on |-> h.on, token |-> h.token, key |-> h.key]
  OBVIOUS
<1>5. x \in I!Mail /\ x.on = h.on /\ x.key = h.key
  BY <1>4 DEF I!Mail
<1>6. iMail' = IF left THEN iMail \cup {x} ELSE iMail
  BY <1>1, <1>3, <1>4
<1>7. iMail \subseteq iMail' /\ iMail' \subseteq I!Mail /\ (left => x \in iMail')
  BY <1>5, <1>6 DEF GInv, GTyped
<1>8. PICK m : m = [at |-> "mailed", on |-> h.on, key |-> h.key, delivery |-> delivery]
  OBVIOUS
<1>9. /\ m \in GCallRow /\ m.at = "mailed" /\ m.on = h.on /\ m.key = h.key
      /\ m.delivery = delivery
      /\ iCalls' = [iCalls EXCEPT ![c] = m] /\ iCalls'[c] = m
  BY <1>1, <1>3, <1>8 DEF GCallRow, GInv, GTyped
<1>10. MailingFits(c)'
  BY <1>1, <1>5, <1>7, <1>9 DEF MailingFits
<1>11. StaysInvited /\ I!SentWasMailed' /\ PartFits'
  BY <1>2, <1>7, RowQuiet
<1>12. iCalls' \in [Calls -> GCallRow] /\ MailingsFit'
  BY <1>7, <1>9, <1>10, <1>11, MailingMoves
<1>. QED  BY <1>2, <1>7, <1>11, <1>12 DEF GInv, GTyped

LEMMA IKeepRecordDelivery ==
    ASSUME GInv, NEW c \in Calls, I!RecordDelivery(c)
    PROVE  GInv'
<1>1. iCalls[c].at = "mailed" /\ I!Idle(c) /\ UNCHANGED <<iCheck, iReceipt, iMail, iAccount, iPart>>
  BY DEF I!RecordDelivery, I!outside
<1>2. PICK h \in [at : {"mailed"}, on : Invitations, key : 1 .. MaxToken,
                  delivery : I!Deliveries \ {"sending"}] : h = iCalls[c]
  BY <1>1, GCallShape DEF GInv
<1>3. PICK i \in Invitations : i = h.on
  BY <1>2
<1>4. CASE I!StillCurrent(i, h.key)
  <2>1. iRow' = [iRow EXCEPT ![i].delivery = h.delivery, ![i].version = @ + 1]
    BY <1>2, <1>3, <1>4 DEF I!RecordDelivery
  <2>2. PICK q \in InvitationRow : q = iRow[i]
    BY DEF GInv, GTyped
  <2>3. PICK v \in Nat : v = q.version + 1
    BY DEF InvitationRow, I!Invitation
  <2>4. PICK n : n = [q EXCEPT !.delivery = h.delivery, !.version = v]
    OBVIOUS
  <2>5. n \in I!Invitation
    <3>1. h.delivery \in I!Deliveries
      BY <1>2
    <3>. QED  BY <2>4, <3>1, Zenon DEF InvitationRow, I!Invitation
  <2>6. n.status = q.status /\ n.token = q.token /\ n.delivery = h.delivery
    BY <2>4 DEF InvitationRow, I!Invitation
  <2>7. n \in InvitationRow /\ n.status = "pending" /\ n.token = h.key
    BY <1>4, <2>2, <2>5, <2>6 DEF InvitationRow, I!StillCurrent
  <2>8. n.delivery = "sent" => \E m \in iMail : m.on = i /\ m.key = n.token
    BY <1>1, <1>2, <1>3, <2>6, <2>7 DEF GInv, MailingsFit, MailingFits
  <2>9. iRow' = [iRow EXCEPT ![i] = n]
    BY <2>1, <2>2, <2>3, <2>4
  <2>10. /\ iRow' \in [Invitations -> InvitationRow] /\ iRow'[i] = n
         /\ \A x \in Invitations : x # i => iRow'[x] = iRow[x]
         /\ I!SentWasMailed' /\ StaysInvited
    BY <1>1, <2>7, <2>8, <2>9, OneRow
  <2>11. \A x \in Invitations : iRow'[x].status = "accepted" <=> iRow[x].status = "accepted"
    BY <1>4, <2>7, <2>10 DEF I!StillCurrent
  <2>12. PartFits'
    BY <1>1, <2>11, PartKept
  <2>13. iCalls' \in [Calls -> GCallRow] /\ MailingsFit'
    BY <1>1, <2>10, MailingRests
  <2>. QED  BY <1>1, <2>10, <2>12, <2>13 DEF GInv, GTyped
<1>5. CASE ~I!StillCurrent(i, h.key)
  <2>1. iRow' = iRow
    BY <1>2, <1>3, <1>5 DEF I!RecordDelivery
  <2>2. StaysInvited /\ I!SentWasMailed' /\ PartFits'
    BY <1>1, <2>1, RowQuiet
  <2>3. iCalls' \in [Calls -> GCallRow] /\ MailingsFit'
    BY <1>1, <2>2, MailingRests
  <2>. QED  BY <1>1, <2>1, <2>2, <2>3 DEF GInv, GTyped
<1>. QED  BY <1>4, <1>5

LEMMA IKeepRevoke ==
    ASSUME GInv, NEW c \in Calls, I!Revoke(c)
    PROVE  GInv'
<1>1. PICK i \in Invitations, k \in Keys :
        iRow[i].status = "pending" /\ I!Settle(i, "revoked") /\ I!Record(i, k, "revoked")
  BY DEF I!Revoke
<1>2. I!Idle(c) /\ UNCHANGED <<iCheck, iMail, iAccount, iPart>>
  BY DEF I!Revoke, I!outside
<1>3. /\ iRow' \in [Invitations -> InvitationRow] /\ iRow'[i].status = "revoked"
      /\ \A x \in Invitations : x # i => iRow'[x] = iRow[x]
      /\ I!SentWasMailed' /\ StaysInvited
  BY <1>1, <1>2, SettleRow
<1>4. PartFits'
  <2>1. \A x \in Invitations : iRow'[x].status = "accepted" <=> iRow[x].status = "accepted"
    BY <1>1, <1>3
  <2>. QED  BY <1>2, <2>1, PartKept
<1>5. iCalls' \in [Calls -> GCallRow] /\ MailingsFit'
  BY <1>2, <1>3, MailingRests
<1>6. iReceipt' \subseteq I!Receipt
  BY <1>1, RecordShape
<1>. QED  BY <1>2, <1>3, <1>4, <1>5, <1>6 DEF GInv, GTyped

LEMMA IKeepInspect ==
    ASSUME GInv, I!Inspect
    PROVE  GInv'
<1>1. PICK m \in iMail : iCheck' = iCheck \cup {[on |-> m.on, token |-> m.token, state |-> "fresh"]}
  BY DEF I!Inspect
<1>2. UNCHANGED <<iRow, iReceipt, iMail, iAccount, iPart, iCalls>>
  BY DEF I!Inspect, I!outside
<1>3. PICK x : x = [on |-> m.on, token |-> m.token, state |-> "fresh"]
  OBVIOUS
<1>4. x \in I!Check
  BY <1>3 DEF I!Check, I!Mail, GInv, GTyped
<1>5. iCheck' \subseteq I!Check
  BY <1>1, <1>3, <1>4 DEF GInv, GTyped
<1>6. StaysInvited /\ I!SentWasMailed' /\ PartFits'
  BY <1>2, RowQuiet
<1>7. MailingsFit'
  BY <1>2, <1>6, MailingKept DEF MailingsFit
<1>. QED  BY <1>2, <1>5, <1>6, <1>7 DEF GInv, GTyped

LEMMA IKeepRegister ==
    ASSUME GInv, NEW c \in Calls, I!Register(c)
    PROVE  GInv'
<1>1. PICK i \in Invitations, k \in Keys :
        /\ iRow[i].status = "pending"
        /\ iRow' = [iRow EXCEPT ![i].known = TRUE, ![i].version = @ + 1]
        /\ I!Record(i, k, "registered")
  BY DEF I!Register
<1>2. I!Idle(c) /\ iAccount' = TRUE /\ UNCHANGED <<iCheck, iMail, iPart>>
  BY DEF I!Register
<1>3. PICK q \in InvitationRow : q = iRow[i]
  BY DEF GInv, GTyped
<1>4. PICK v \in Nat : v = q.version + 1
  BY DEF InvitationRow, I!Invitation
<1>5. PICK n : n = [q EXCEPT !.known = TRUE, !.version = v]
  OBVIOUS
<1>6. n \in I!Invitation
  BY <1>5, Zenon DEF InvitationRow, I!Invitation
<1>7. n.status = q.status /\ n.token = q.token /\ n.delivery = q.delivery
  BY <1>5 DEF InvitationRow, I!Invitation
<1>8. n \in InvitationRow /\ n.status = "pending" /\ iRow' = [iRow EXCEPT ![i] = n]
  BY <1>1, <1>3, <1>4, <1>5, <1>6, <1>7 DEF InvitationRow
<1>9. /\ iRow' \in [Invitations -> InvitationRow] /\ iRow'[i] = n
      /\ \A x \in Invitations : x # i => iRow'[x] = iRow[x]
      /\ I!SentWasMailed' /\ StaysInvited
  BY <1>2, <1>3, <1>7, <1>8, OneRow
<1>10. PartFits'
  <2>1. \A x \in Invitations : iRow'[x].status = "accepted" <=> iRow[x].status = "accepted"
    BY <1>1, <1>8, <1>9
  <2>. QED  BY <1>2, <2>1, PartKept
<1>11. iCalls' \in [Calls -> GCallRow] /\ MailingsFit'
  BY <1>2, <1>9, MailingRests
<1>12. iReceipt' \subseteq I!Receipt
  BY <1>1, RecordShape
<1>. QED  BY <1>2, <1>9, <1>10, <1>11, <1>12 DEF GInv, GTyped

\* A proof is spent or grows stale.
LEMMA ChecksStay ==
    ASSUME GInv, NEW x \in iCheck, NEW s \in {"spent", "stale"},
           iCheck' = (iCheck \ {x}) \cup {[x EXCEPT !.state = s]}
    PROVE  iCheck' \subseteq I!Check
<1>1. PICK y : y = [x EXCEPT !.state = s]
  OBVIOUS
<1>2. y \in I!Check
  BY <1>1 DEF I!Check, GInv, GTyped
<1>. QED  BY <1>1, <1>2 DEF GInv, GTyped

LEMMA IKeepDecline ==
    ASSUME GInv, NEW c \in Calls, I!Decline(c)
    PROVE  GInv'
<1>1. PICK i \in Invitations, k \in Keys, x \in iCheck :
        /\ iRow[i].status = "pending"
        /\ I!Settle(i, "declined") /\ I!Record(i, k, "declined") /\ I!Spend(x)
  BY DEF I!Decline
<1>2. I!Idle(c) /\ UNCHANGED <<iMail, iAccount, iPart>>
  BY DEF I!Decline, I!outside
<1>3. /\ iRow' \in [Invitations -> InvitationRow] /\ iRow'[i].status = "declined"
      /\ \A y \in Invitations : y # i => iRow'[y] = iRow[y]
      /\ I!SentWasMailed' /\ StaysInvited
  BY <1>1, <1>2, SettleRow
<1>4. PartFits'
  <2>1. \A y \in Invitations : iRow'[y].status = "accepted" <=> iRow[y].status = "accepted"
    BY <1>1, <1>3
  <2>. QED  BY <1>2, <2>1, PartKept
<1>5. iCalls' \in [Calls -> GCallRow] /\ MailingsFit'
  BY <1>2, <1>3, MailingRests
<1>6. iReceipt' \subseteq I!Receipt /\ iCheck' \subseteq I!Check
  BY <1>1, RecordShape, ChecksStay DEF I!Spend
<1>. QED  BY <1>2, <1>3, <1>4, <1>5, <1>6 DEF GInv, GTyped

LEMMA IKeepAccept ==
    ASSUME GInv, NEW c \in Calls, I!Accept(c)
    PROVE  GInv'
<1>1. PICK i \in Invitations, k \in Keys, x \in iCheck :
        /\ iRow[i].status = "pending"
        /\ I!Settle(i, "accepted") /\ I!Record(i, k, "accepted") /\ I!Spend(x)
        /\ iPart' = iPart \cup {I!Joined(i)}
  BY DEF I!Accept
<1>2. I!Idle(c) /\ I!Active = {} /\ UNCHANGED <<iMail, iAccount>>
  BY DEF I!Accept, I!NoneActive
<1>3. /\ iRow' \in [Invitations -> InvitationRow] /\ iRow'[i].status = "accepted"
      /\ \A y \in Invitations : y # i => iRow'[y] = iRow[y]
      /\ I!SentWasMailed' /\ StaysInvited
  BY <1>1, <1>2, SettleRow
<1>4. PICK p : p = I!Joined(i)
  OBVIOUS
<1>5. p \in I!Participation /\ p.from = i
  <2>1. I!Generation \in Nat
    BY FS_CardinalityType, SameCardinality DEF I!Generation, GInv, PartFits
  <2>. QED  BY <1>4, <2>1 DEF I!Joined, I!Participation
<1>6. iPart' = iPart \cup {p}
  BY <1>1, <1>4
<1>7. PartFits'
  <2>1. IsFiniteSet(iPart')
    BY <1>6, FS_AddElement DEF GInv, PartFits
  <2>2. \A q \in iPart : q.from # i /\ q.from \in Invitations /\ ~q.active
    BY <1>1, <1>2 DEF GInv, PartFits, GTyped, I!Participation, I!Active
  <2>3. \A q, r \in iPart' : q.from = r.from => q = r
    BY <1>5, <1>6, <2>2 DEF GInv, PartFits
  <2>4. \A q, r \in iPart' : q.active /\ r.active => q = r
    BY <1>6, <2>2
  <2>5. \A q \in iPart' : iRow'[q.from].status = "accepted"
    BY <1>3, <1>5, <1>6, <2>2 DEF GInv, PartFits
  <2>6. \A y \in Invitations : iRow'[y].status = "accepted" => \E q \in iPart' : q.from = y
    BY <1>3, <1>5, <1>6 DEF GInv, PartFits
  <2>. QED  BY <2>1, <2>3, <2>4, <2>5, <2>6 DEF PartFits
<1>8. iCalls' \in [Calls -> GCallRow] /\ MailingsFit'
  BY <1>2, <1>3, MailingRests
<1>9. iReceipt' \subseteq I!Receipt /\ iCheck' \subseteq I!Check
  BY <1>1, RecordShape, ChecksStay DEF I!Spend
<1>10. iPart' \subseteq I!Participation
  BY <1>5, <1>6 DEF GInv, GTyped
<1>. QED  BY <1>2, <1>3, <1>7, <1>8, <1>9, <1>10 DEF GInv, GTyped

LEMMA IKeepLapse ==
    ASSUME GInv, NEW i \in Invitations, I!Lapse(i)
    PROVE  GInv'
<1>1. I!Open(i) /\ iRow' = [iRow EXCEPT ![i].lapsed = TRUE]
  BY DEF I!Lapse
<1>2. UNCHANGED <<iCheck, iReceipt, iMail, iAccount, iPart, iCalls>>
  BY DEF I!Lapse, I!outside
<1>3. PICK q \in InvitationRow : q = iRow[i]
  BY DEF GInv, GTyped
<1>4. PICK n : n = [q EXCEPT !.lapsed = TRUE]
  OBVIOUS
<1>5. n \in I!Invitation
  BY <1>4, Zenon DEF InvitationRow, I!Invitation
<1>6. n.status = q.status /\ n.token = q.token /\ n.delivery = q.delivery
  BY <1>4 DEF InvitationRow, I!Invitation
<1>7. n \in InvitationRow /\ n.status = "pending" /\ iRow' = [iRow EXCEPT ![i] = n]
  BY <1>1, <1>3, <1>4, <1>5, <1>6 DEF InvitationRow, I!Open
<1>8. /\ iRow' \in [Invitations -> InvitationRow] /\ iRow'[i] = n
      /\ \A x \in Invitations : x # i => iRow'[x] = iRow[x]
      /\ I!SentWasMailed' /\ StaysInvited
  BY <1>2, <1>3, <1>6, <1>7, OneRow
<1>9. PartFits'
  <2>1. \A x \in Invitations : iRow'[x].status = "accepted" <=> iRow[x].status = "accepted"
    BY <1>1, <1>7, <1>8 DEF I!Open
  <2>. QED  BY <1>2, <2>1, PartKept
<1>10. MailingsFit'
  BY <1>2, <1>8, MailingKept DEF MailingsFit
<1>. QED  BY <1>2, <1>8, <1>9, <1>10 DEF GInv, GTyped

LEMMA IKeepEnd ==
    ASSUME GInv, NEW p \in iPart, I!EndParticipation(p)
    PROVE  GInv'
<1>1. iPart' = (iPart \ {p}) \cup {[p EXCEPT !.active = FALSE]}
  BY DEF I!EndParticipation
<1>2. UNCHANGED <<iRow, iCheck, iReceipt, iMail, iAccount, iCalls>>
  BY DEF I!EndParticipation
<1>3. PICK e : e = [p EXCEPT !.active = FALSE]
  OBVIOUS
<1>4. e \in I!Participation
  BY <1>3, Zenon DEF I!Participation, GInv, GTyped
<1>5. e.active = FALSE /\ e.from = p.from
  BY <1>3 DEF I!Participation, GInv, GTyped
<1>6. iPart' = (iPart \ {p}) \cup {e}
  BY <1>1, <1>3
<1>7. PartFits'
  <2>1. IsFiniteSet(iPart')
    <3>1. IsFiniteSet(iPart \ {p})
      BY FS_RemoveElement DEF GInv, PartFits
    <3>. QED  BY <1>6, <3>1, FS_AddElement
  <2>2. \A q, r \in iPart' : q.from = r.from => q = r
    BY <1>5, <1>6 DEF GInv, PartFits
  <2>3. \A q, r \in iPart' : q.active /\ r.active => q = r
    BY <1>5, <1>6 DEF GInv, PartFits
  <2>4. \A q \in iPart' : iRow[q.from].status = "accepted"
    BY <1>5, <1>6 DEF GInv, PartFits
  <2>5. \A i \in Invitations : iRow[i].status = "accepted" => \E q \in iPart' : q.from = i
    BY <1>5, <1>6 DEF GInv, PartFits
  <2>. QED  BY <1>2, <2>1, <2>2, <2>3, <2>4, <2>5 DEF PartFits
<1>8. StaysInvited /\ I!SentWasMailed'
  BY <1>2, RowQuiet
<1>9. MailingsFit'
  BY <1>2, <1>8, MailingKept DEF MailingsFit
<1>10. iPart' \subseteq I!Participation
  BY <1>4, <1>6 DEF GInv, GTyped
<1>. QED  BY <1>2, <1>7, <1>8, <1>9, <1>10 DEF GInv, GTyped

LEMMA IKeepQuietly ==
    ASSUME GInv, UNCHANGED <<iRow, iReceipt, iMail, iPart, iCalls>>, iCheck' \subseteq I!Check,
           iAccount' \in BOOLEAN
    PROVE  GInv'
<1>1. StaysInvited /\ I!SentWasMailed' /\ PartFits'
  BY RowQuiet
<1>2. MailingsFit'
  BY <1>1, MailingKept DEF MailingsFit
<1>. QED  BY <1>1, <1>2 DEF GInv, GTyped

LEMMA GStarts ==
    ASSUME I!Init, GSensible
    PROVE  GInv
<1>1. PICK o \in Invitations :
        /\ iRow = [i \in Invitations |-> IF i \in {o} THEN [I!Fresh EXCEPT !.delivery = "sent", !.version = 2]
                                        ELSE I!Absent]
        /\ iReceipt = [on : {o}, key : {None}, kind : {"created"}]
        /\ iMail = [on : {o}, token : {1}, key : {1}]
  BY DEF I!Init
<1>2. iAccount \in BOOLEAN /\ iCheck = {} /\ iPart = {} /\ iCalls = [c \in Calls |-> [at |-> "idle"]]
  BY DEF I!Init
<1>3. PICK n : n = [I!Fresh EXCEPT !.delivery = "sent", !.version = 2]
  OBVIOUS
<1>4. n \in InvitationRow /\ n.status = "pending" /\ n.token = 1
  <2>1. PICK f : f = I!Fresh
    OBVIOUS
  <2>2. f \in I!Invitation
    BY <1>2, <2>1 DEF I!Fresh, I!Invitation, I!Deliveries, GSensible
  <2>3. f.status = "pending" /\ f.token = 1
    BY <2>1 DEF I!Fresh
  <2>4. n = [f EXCEPT !.delivery = "sent", !.version = 2]
    BY <1>3, <2>1
  <2>5. n \in I!Invitation
    <3>1. "sent" \in I!Deliveries /\ 2 \in Nat
      BY DEF I!Deliveries
    <3>. QED  BY <2>2, <2>4, <3>1, Zenon DEF I!Invitation
  <2>6. n.status = f.status /\ n.token = f.token
    BY <2>2, <2>4 DEF I!Invitation
  <2>. QED  BY <2>3, <2>5, <2>6 DEF InvitationRow
<1>5. PICK a : a = I!Absent
  OBVIOUS
<1>6. a \in InvitationRow /\ a.status = "absent" /\ a.delivery = "sending"
  <2>1. a \in I!Invitation
    BY <1>5 DEF I!Absent, I!Invitation, I!Deliveries, GSensible
  <2>. QED  BY <1>5, <2>1 DEF I!Absent, InvitationRow
<1>7. iRow = [i \in Invitations |-> IF i = o THEN n ELSE a]
  BY <1>1, <1>3, <1>5
<1>8. iRow \in [Invitations -> InvitationRow] /\ iRow[o] = n
      /\ \A i \in Invitations : i # o => iRow[i] = a
  BY <1>4, <1>6, <1>7
<1>9. PICK m : m = [on |-> o, token |-> 1, key |-> 1]
  OBVIOUS
<1>10. m \in iMail /\ m.on = o /\ m.key = 1
  BY <1>1, <1>9
<1>11. I!SentWasMailed
  BY <1>4, <1>6, <1>8, <1>10 DEF I!SentWasMailed
<1>12. iMail \subseteq I!Mail
  BY <1>1 DEF I!Mail, GSensible
<1>13. iReceipt \subseteq I!Receipt
  BY <1>1 DEF I!Receipt
<1>14. MailingsFit
  BY <1>2 DEF MailingsFit, MailingFits
<1>15. PartFits
  <2>1. IsFiniteSet(iPart)
    BY <1>2, FS_EmptySet
  <2>. QED  BY <1>2, <1>4, <1>6, <1>8, <2>1 DEF PartFits
<1>16. iCalls \in [Calls -> GCallRow]
  BY <1>2 DEF GCallRow
<1>. QED  BY <1>2, <1>8, <1>11, <1>12, <1>13, <1>14, <1>15, <1>16 DEF GInv, GTyped

LEMMA GKept ==
    ASSUME GInv, [I!Next]_(I!vars), GSensible
    PROVE  GInv'
<1>1. CASE I!Inspect
  BY <1>1, IKeepInspect
<1>2. CASE I!Environment
  <2>1. CASE \E x \in iCheck : I!GrowStale(x)
    <3>1. PICK x \in iCheck : iCheck' = (iCheck \ {x}) \cup {[x EXCEPT !.state = "stale"]}
      BY <2>1 DEF I!GrowStale
    <3>2. iCheck' \subseteq I!Check
      BY <3>1, ChecksStay
    <3>3. UNCHANGED <<iRow, iReceipt, iMail, iPart, iCalls, iAccount>>
      BY <2>1 DEF I!GrowStale, I!outside
    <3>. QED  BY <3>2, <3>3, IKeepQuietly DEF GInv, GTyped
  <2>2. CASE I!OpenAccount \/ I!Demote
    BY <2>2, IKeepQuietly DEF I!OpenAccount, I!Demote, GInv, GTyped
  <2>. QED  BY <1>2, <2>1, <2>2, IKeepLapse, IKeepEnd DEF I!Environment
<1>3. ASSUME NEW c \in Calls, I!Managing(c)
      PROVE  GInv'
  BY <1>3, IKeepCreate, IKeepResend, IKeepCompose, IKeepPost, IKeepRecordDelivery, IKeepRevoke DEF I!Managing
<1>4. ASSUME NEW c \in Calls, I!Answering(c)
      PROVE  GInv'
  BY <1>4, IKeepRegister, IKeepAccept, IKeepDecline DEF I!Answering
<1>5. CASE UNCHANGED I!vars
  BY <1>5, IKeepQuietly DEF I!vars, GInv, GTyped
<1>. QED  BY <1>1, <1>2, <1>3, <1>4, <1>5, IKeepFill, IKeepLost DEF I!Next

LEMMA GTypeOK ==
    ASSUME GInv
    PROVE  I!TypeOK
BY DEF GInv, GTyped, I!TypeOK, InvitationRow

\* However often an address is invited again, it takes part once.
LEMMA TakesPartOnce ==
    ASSUME GInv
    PROVE  I!OneParticipation
<1>1. Cardinality(I!Active) <= 1
  <2>1. CASE I!Active = {}
    BY <2>1, FS_EmptySet
  <2>2. CASE I!Active # {}
    <3>1. PICK p : p \in I!Active
      BY <2>2
    <3>2. I!Active = {p}
      BY <3>1 DEF I!Active, GInv, PartFits
    <3>. QED  BY <3>2, FS_Singleton
  <2>. QED  BY <2>1, <2>2
<1>2. ASSUME NEW i \in Invitations
      PROVE  Cardinality({p \in iPart : p.from = i}) = IF iRow[i].status = "accepted" THEN 1 ELSE 0
  <2>1. CASE iRow[i].status = "accepted"
    <3>1. PICK p \in iPart : p.from = i
      BY <2>1 DEF GInv, PartFits
    <3>2. {q \in iPart : q.from = i} = {p}
      BY <3>1 DEF GInv, PartFits
    <3>. QED  BY <2>1, <3>2, FS_Singleton
  <2>2. CASE iRow[i].status # "accepted"
    <3>1. {q \in iPart : q.from = i} = {}
      BY <2>2 DEF GInv, PartFits
    <3>. QED  BY <2>2, <3>1, FS_EmptySet
  <2>. QED  BY <2>1, <2>2
<1>. QED  BY <1>1, <1>2, SameCardinality DEF I!OneParticipation

AnswerStep ==
    \A r \in iReceipt' \ iReceipt :
        r.kind \in {"accepted", "declined", "registered"} =>
            \E x \in iCheck : x.on = r.on /\ x.token = iRow[r.on].token /\ x.state = "fresh"

LEMMA AnswersWithProof ==
    ASSUME GInv, [I!Next]_(I!vars)
    PROVE  AnswerStep
<1>1. ASSUME NEW c \in Calls, I!Answering(c)
      PROVE  AnswerStep
  <2>1. PICK i \in Invitations, k \in Keys, x \in iCheck :
          /\ I!Checked(i, x) /\ x.state = "fresh"
          /\ \E kind \in {"registered", "accepted", "declined"} : I!Record(i, k, kind)
    BY <1>1 DEF I!Answering, I!Register, I!Accept, I!Decline
  <2>2. \A r \in iReceipt' \ iReceipt : r.on = i
    BY <2>1 DEF I!Record
  <2>. QED  BY <2>1, <2>2 DEF AnswerStep, I!Checked
<1>2. ASSUME NEW c \in Calls, I!Managing(c)
      PROVE  AnswerStep
  <2>1. CASE I!Create(c)
    <3>1. PICK i \in Invitations, k \in Keys :
            iReceipt' = iReceipt \cup {[on |-> i, key |-> k, kind |-> "created"]}
                               \cup {[on |-> e, key |-> k, kind |-> "expired"] : e \in I!Pending}
      BY <2>1 DEF I!Create
    <3>2. \A r \in iReceipt' \ iReceipt : r.kind \in {"created", "expired"}
      BY <3>1
    <3>. QED  BY <3>2 DEF AnswerStep
  <2>2. CASE I!Resend(c) \/ I!Revoke(c)
    <3>1. PICK i \in Invitations, k \in Keys : I!Record(i, k, "resent") \/ I!Record(i, k, "revoked")
      BY <2>2 DEF I!Resend, I!Revoke
    <3>2. \A r \in iReceipt' \ iReceipt : r.kind \in {"resent", "revoked"}
      BY <3>1 DEF I!Record
    <3>. QED  BY <3>2 DEF AnswerStep
  <2>3. CASE I!Compose(c) \/ I!Post(c) \/ I!RecordDelivery(c)
    BY <2>3 DEF I!Compose, I!Post, I!RecordDelivery, AnswerStep
  <2>. QED  BY <1>2, <2>1, <2>2, <2>3 DEF I!Managing
<1>3. ASSUME UNCHANGED iReceipt PROVE AnswerStep
  BY <1>3 DEF AnswerStep
<1>4. (I!Inspect \/ UNCHANGED I!vars) => UNCHANGED iReceipt
  BY DEF I!Inspect, I!vars
<1>5. I!Environment => UNCHANGED iReceipt
  BY DEF I!Environment, I!Lapse, I!GrowStale, I!EndParticipation, I!OpenAccount, I!Demote
<1>6. \A c \in Calls : (I!Fill(c) \/ I!Lost(c)) => UNCHANGED iReceipt
  BY DEF I!Fill, I!Lost
<1>. QED  BY <1>1, <1>2, <1>3, <1>4, <1>5, <1>6 DEF I!Next

-----------------------------------------------------------------------------
(* Publications.  No two transactions hold locks that conflict, so that what*)
(* one has decided still holds when it commits; and in the order in which   *)
(* the locks are taken nobody waits for somebody who waits for him.         *)

\* Requests that hold no lock of qualifications, and those that hold it alone.
Silent == {"prepare", "signout"}
Exclusive == {"expel", "join", "hire", "dismiss", "suspend", "close"}
OfGuests == {"ungrant", "expel", "join", "hire", "dismiss", "signout", "download"}
Stopping == {"close", "strike", "purge"}
Ending == {"expel", "hire", "suspend", "close"}
AskFits(d) ==
    /\ d.op \in P!Recorded \cup Exclusive \cup Silent \cup Stopping \cup {"revive", "download"}
    /\ d.op \in {"publish", "add"} => d.to \in SUBSET Guests
    /\ d.op \in OfGuests => d.on \in Guests

PTyped ==
    /\ pPublication \in P!Publication /\ pGrant \in [Guests -> P!Grant] /\ pPart \in [Guests -> P!Participation]
    /\ pSession \in [Guests -> P!Session] /\ pUrl \subseteq Guests
    /\ pActive \in [P!Users -> BOOLEAN] /\ pMember \in [Guests -> BOOLEAN] /\ pOpen \in BOOLEAN
    /\ pSource \in [Sources -> {"live", "deleted", "purged"}]

\* A transaction has taken the first locks of its plan, and all of them when it has decided.
Counts(c) ==
    /\ pCalls[c].at \in {"idle", "locking", "decided", "done"}
    /\ P!InTransaction(c) =>
          /\ pCalls[c] = [at |-> pCalls[c].at, ask |-> P!Ask(c), locks |-> pCalls[c].locks, seen |-> P!Seen(c)]
          /\ AskFits(P!Ask(c)) /\ pCalls[c].locks \in 0 .. Len(P!Plan(P!Ask(c)))
    /\ pCalls[c].at = "decided" => pCalls[c].locks = Len(P!Plan(P!Ask(c)))
Counted == pCalls = [c \in Calls |-> pCalls[c]] /\ \A c \in Calls : Counts(c)

\* No two transactions hold locks that conflict.
Compatible(c, x) == \A l \in P!Held(c), m \in P!Held(x) : ~P!Conflict(l, m)
NoConflict == \A c, x \in Calls : c # x => Compatible(c, x)

\* What each request may decide to change.
EffectFits(c) ==
    /\ P!Seen(c) \in [move : {"stay", "prepared", "published", "withdrawn"},
                    parts : SUBSET Guests, grants : SUBSET Guests, given : SUBSET Guests]
    /\ P!Seen(c).move = "published" <=> P!Ask(c).op = "publish"
    /\ P!Seen(c).move = "prepared" <=> P!Ask(c).op = "prepare"
    /\ P!Seen(c).move = "withdrawn" => P!Ask(c).op \in Stopping \cup {"withdraw"}
    /\ P!Seen(c).given # {} => P!Ask(c).op \in {"publish", "add"}
    /\ P!Seen(c).parts # {} => P!Ask(c).op \in Ending
    /\ P!Seen(c).grants # {} => P!Ask(c).op \in Ending \cup Stopping \cup {"withdraw", "ungrant"}

\* What it decided on still holds: sources, the publication and its grants,
\* participations, and who asks.
SourceGround(c) ==
    /\ P!Ask(c).op = "publish" => pPublication.state = "prepared" /\ P!SourcesAlive
    /\ P!Ask(c).op = "add" => pPublication.state = "published"
    /\ P!Ask(c).op \in Stopping => (pPublication.state = "published" => P!Seen(c).move = "withdrawn")
    /\ P!Seen(c).move = "withdrawn" => P!GrantsOf(Guests) \subseteq P!Seen(c).grants
PartGround(c) ==
    /\ \A g \in P!Seen(c).given : pPart[g].state = "active"
    /\ \A g \in P!Seen(c).parts : pGrant[g].state = "active" => g \in P!Seen(c).grants
    /\ P!Ask(c).op \in {"hire", "suspend"} => (P!TakesPart(P!Ask(c).on) => P!Ask(c).on \in P!Seen(c).parts)
PersonGround(c) ==
    /\ P!Ask(c).op = "join" => pActive[P!Ask(c).on] /\ ~pMember[P!Ask(c).on]
    /\ P!Ask(c).op = "download" => P!Entitled(P!Ask(c).on)
Grounded(c) == pCalls[c].at = "decided" => EffectFits(c) /\ SourceGround(c) /\ PartGround(c) /\ PersonGround(c)
Decided == \A c \in Calls : Grounded(c)

Backed == P!PublishedSourcesLive /\ P!GrantIsBacked /\ P!ParticipantIsOutside
PInv == PTyped /\ Counted /\ NoConflict /\ Decided /\ Backed
-----------------------------------------------------------------------------
(* The locks of a plan, in the order it takes them.                         *)
LEMMA PlanIs ==
    ASSUME NEW d
    PROVE  /\ d.op = "prepare" => P!Plan(d) = <<>>
           /\ d.op \in P!Recorded => P!Plan(d) = P!Management(d)
           /\ d.op = "join" => P!Plan(d) = P!Joining(d)
           /\ d.op \in {"hire", "dismiss"} => P!Plan(d) = P!Membership(d)
           /\ d.op = "suspend" => P!Plan(d) = P!Suspension(d)
           /\ d.op = "close" => P!Plan(d) = P!Closing
           /\ d.op \in {"strike", "purge", "revive"} => P!Plan(d) = P!SourceChange(d)
           /\ d.op = "download" => P!Plan(d) = P!Address(d)
           /\ d.op = "signout" => P!Plan(d) = <<P!SessionRow(d.on, "X")>>
<1>1. d.op = "prepare" => P!Plan(d) = <<>>
  BY Zenon DEF P!Plan, P!Recorded
<1>2. d.op \in P!Recorded => P!Plan(d) = P!Management(d)
  BY Zenon DEF P!Plan, P!Recorded
<1>3. d.op = "join" => P!Plan(d) = P!Joining(d)
  BY Zenon DEF P!Plan, P!Recorded
<1>4. d.op \in {"hire", "dismiss"} => P!Plan(d) = P!Membership(d)
  BY Zenon DEF P!Plan, P!Recorded
<1>5. d.op = "suspend" => P!Plan(d) = P!Suspension(d)
  BY Zenon DEF P!Plan, P!Recorded
<1>6. d.op = "close" => P!Plan(d) = P!Closing
  BY Zenon DEF P!Plan, P!Recorded
<1>7. d.op \in {"strike", "purge", "revive"} => P!Plan(d) = P!SourceChange(d)
  BY Zenon DEF P!Plan, P!Recorded
<1>8. d.op = "download" => P!Plan(d) = P!Address(d)
  BY Zenon DEF P!Plan, P!Recorded
<1>9. d.op = "signout" => P!Plan(d) = <<P!SessionRow(d.on, "X")>>
  BY Zenon DEF P!Plan, P!Recorded
<1>. QED  BY <1>1, <1>2, <1>3, <1>4, <1>5, <1>6, <1>7, <1>8, <1>9

\* The rows a plan names come first, then the lock of qualifications, then that of
\* the project, then the session; only a change of members takes its row later.
Shared(l) == l.table = "row" /\ l.mode = "S"
OnRow(l) == l.table = "row"
OnQ(l) == l.table = "advisory" /\ l.id = "Q"
OnP(l) == l.table = "advisory" /\ l.id = "P"
OnSession(l) == l.table = "session"
Orderly == P!Recorded \cup {"download", "join"}
InOrder(p, n) ==
    /\ OnRow(p[n]) \/ OnQ(p[n]) \/ OnP(p[n]) \/ OnSession(p[n])
    /\ OnRow(p[n]) /\ p[n].mode = "X" => n = 1
    /\ OnQ(p[n]) => \A i \in 1 .. n - 1 : OnRow(p[i])
    /\ OnRow(p[n]) => \A i \in 1 .. n - 1 : ~OnP(p[i])
    /\ OnSession(p[n]) => n = Len(p)
OrderlyAt(p, n) ==
    /\ OnRow(p[n]) => Shared(p[n])
    /\ OnRow(p[n]) \/ OnQ(p[n]) => \A i \in 1 .. n - 1 : Shared(p[i])
    /\ OnP(p[n]) => \A i \in 1 .. n - 1 : Shared(p[i]) \/ OnQ(p[i])
USE DEF P!Lock, P!Row, P!SessionRow, P!Boundary, P!ProjectLock

LEMMA PlanOrder ==
    ASSUME NEW d, AskFits(d), NEW n \in 1 .. Len(P!Plan(d))
    PROVE  InOrder(P!Plan(d), n) /\ (d.op \in Orderly => OrderlyAt(P!Plan(d), n))
<1>. USE DEF Shared, OnRow, OnQ, OnP, OnSession, InOrder, OrderlyAt, Orderly
<1>1. CASE d.op = "prepare"
  BY <1>1, PlanIs DEF P!Recorded
<1>2. CASE d.op \in P!Recorded
  BY <1>2, PlanIs DEF P!Recorded, P!Management
<1>3. CASE d.op = "join"
  <2>1. P!Plan(d) = P!Joining(d)
    BY <1>3, PlanIs
  <2>2. Len(P!Plan(d)) = 4 /\ n \in 1 .. 4
    BY <2>1 DEF P!Joining
  <2>3. \/ n \in {1, 2} /\ Shared(P!Plan(d)[n]) /\ ~OnQ(P!Plan(d)[n])
        \/ n = 3 /\ OnQ(P!Plan(d)[n]) /\ ~OnRow(P!Plan(d)[n])
        \/ n = 4 /\ OnP(P!Plan(d)[n]) /\ ~OnRow(P!Plan(d)[n])
    BY <2>1, <2>2 DEF P!Joining
  <2>4. \A i \in 1 .. n - 1 : (i \in {1, 2} /\ Shared(P!Plan(d)[i])) \/ (i = 3 /\ OnQ(P!Plan(d)[i]) /\ n = 4)
    BY <2>1, <2>2 DEF P!Joining
  <2>. QED  BY <1>3, <2>2, <2>3, <2>4
<1>4. CASE d.op \in {"hire", "dismiss"}
  <2>1. P!Plan(d) = P!Membership(d)
    BY <1>4, PlanIs
  <2>. QED  BY <1>4, <2>1 DEF P!Recorded, P!Membership
<1>5. CASE d.op = "suspend"
  <2>1. P!Plan(d) = P!Suspension(d)
    BY <1>5, PlanIs
  <2>. QED  BY <1>5, <2>1 DEF P!Recorded, P!Suspension
<1>6. CASE d.op = "close"
  <2>1. P!Plan(d) = P!Closing
    BY <1>6, PlanIs
  <2>. QED  BY <1>6, <2>1 DEF P!Recorded, P!Closing
<1>7. CASE d.op \in {"strike", "purge", "revive"}
  <2>1. P!Plan(d) = P!SourceChange(d)
    BY <1>7, PlanIs
  <2>. QED  BY <1>7, <2>1 DEF P!Recorded, P!SourceChange
<1>8. CASE d.op = "download"
  <2>1. P!Plan(d) = P!Address(d)
    BY <1>8, PlanIs
  <2>2. Len(P!Plan(d)) = 4 /\ n \in 1 .. 4
    BY <2>1 DEF P!Address
  <2>3. \/ n = 1 /\ Shared(P!Plan(d)[n])
        \/ n = 2 /\ OnQ(P!Plan(d)[n]) /\ ~OnRow(P!Plan(d)[n])
        \/ n = 3 /\ OnP(P!Plan(d)[n]) /\ ~OnRow(P!Plan(d)[n])
        \/ n = 4 /\ OnSession(P!Plan(d)[n]) /\ ~OnRow(P!Plan(d)[n])
    BY <2>1, <2>2 DEF P!Address
  <2>. QED  BY <1>8, <2>1, <2>2 DEF P!Recorded, P!Address
<1>9. CASE d.op = "signout"
  <2>1. P!Plan(d) = <<P!SessionRow(d.on, "X")>>
    BY <1>9, PlanIs
  <2>2. n = 1 /\ Len(P!Plan(d)) = 1
    BY <2>1
  <2>3. P!Plan(d)[n].table = "session"
    BY <2>1, <2>2
  <2>. QED  BY <1>9, <2>2, <2>3 DEF P!Recorded
<1>. QED  BY <1>1, <1>2, <1>3, <1>4, <1>5, <1>6, <1>7, <1>8, <1>9 DEF AskFits, P!Recorded, Exclusive, Silent, Stopping

-----------------------------------------------------------------------------
(* The calls under way.                                                     *)
LEMMA RequestsFit == \A d \in P!Requests : AskFits(d)
<1>. SUFFICES ASSUME NEW d \in P!Requests PROVE AskFits(d)
  OBVIOUS
<1>1. CASE d \in P!PublicationRequests
  BY <1>1 DEF P!PublicationRequests, AskFits, P!Recorded, Exclusive, Silent, Stopping, OfGuests
<1>2. CASE d \in P!QualificationRequests
  BY <1>2 DEF P!QualificationRequests, AskFits, P!Recorded, Exclusive, Silent, Stopping, OfGuests
<1>3. CASE d \in P!SourceRequests
  BY <1>3 DEF P!SourceRequests, AskFits, P!Recorded, Exclusive, Silent, Stopping, OfGuests
<1>4. CASE d \in P!DownloadRequests
  BY <1>4 DEF P!DownloadRequests, AskFits, P!Recorded, Exclusive, Silent, Stopping, OfGuests
<1>. QED  BY <1>1, <1>2, <1>3, <1>4 DEF P!Requests

\* A step leaves the locks that x has taken where they are in its plan.
PPlanStands(x) ==
    \/ P!Plan(P!Ask(x))' = P!Plan(P!Ask(x))
    \/ pCalls[x].at = "locking" /\ pCalls[x].locks = 0
    \/ /\ pCalls[x].at = "locking" /\ pCalls[x].locks = 1
       /\ Len(P!Plan(P!Ask(x))') >= 1 /\ P!Plan(P!Ask(x))'[1] = P!Plan(P!Ask(x))[1]

LEMMA PlanIsSeq == \A e : AskFits(e) => Len(P!Plan(e)) \in Nat
<1>. SUFFICES ASSUME NEW d, AskFits(d) PROVE Len(P!Plan(d)) \in Nat
  OBVIOUS
<1>1. CASE d.op = "prepare"
  BY <1>1, PlanIs DEF P!Recorded
<1>2. CASE d.op \in P!Recorded
  <2>1. P!Plan(d) = P!Management(d)
    BY <1>2, PlanIs DEF P!Recorded
  <2>. QED  BY <2>1 DEF P!Management
<1>3. CASE d.op = "join"
  <2>1. P!Plan(d) = P!Joining(d)
    BY <1>3, PlanIs DEF P!Recorded
  <2>. QED  BY <2>1 DEF P!Joining
<1>4. CASE d.op \in {"hire", "dismiss"}
  <2>1. P!Plan(d) = P!Membership(d)
    BY <1>4, PlanIs DEF P!Recorded
  <2>. QED  BY <2>1 DEF P!Membership
<1>5. CASE d.op = "suspend"
  <2>1. P!Plan(d) = P!Suspension(d)
    BY <1>5, PlanIs DEF P!Recorded
  <2>. QED  BY <2>1 DEF P!Suspension
<1>6. CASE d.op = "close"
  <2>1. P!Plan(d) = P!Closing
    BY <1>6, PlanIs DEF P!Recorded
  <2>. QED  BY <2>1 DEF P!Closing
<1>7. CASE d.op \in {"strike", "purge", "revive"}
  <2>1. P!Plan(d) = P!SourceChange(d)
    BY <1>7, PlanIs DEF P!Recorded
  <2>. QED  BY <2>1 DEF P!SourceChange
<1>8. CASE d.op = "download"
  <2>1. P!Plan(d) = P!Address(d)
    BY <1>8, PlanIs DEF P!Recorded
  <2>. QED  BY <2>1 DEF P!Address
<1>9. CASE d.op = "signout"
  BY <1>9, PlanIs DEF P!Recorded
<1>. QED  BY <1>1, <1>2, <1>3, <1>4, <1>5, <1>6, <1>7, <1>8, <1>9 DEF AskFits, P!Recorded, Exclusive, Silent, Stopping

LEMMA PlanIsSeqThen == (\A e : AskFits(e) => Len(P!Plan(e)) \in Nat)'
BY PlanIsSeq, PTL

LEMMA Rests ==
    ASSUME NEW x \in Calls, Counts(x), pCalls'[x] = pCalls[x], P!InTransaction(x) => PPlanStands(x)
    PROVE  Counts(x)' /\ P!Held(x)' = P!Held(x)
<1>1. CASE ~P!InTransaction(x)
  BY <1>1 DEF Counts, P!InTransaction, P!Held
<1>2. CASE P!InTransaction(x)
  <2>1. P!Ask(x)' = P!Ask(x) /\ P!Seen(x)' = P!Seen(x) /\ P!InTransaction(x)' /\ pCalls[x].locks \in Nat
    BY <1>2, PlanIsSeq DEF P!Ask, P!Seen, P!InTransaction, Counts
  <2>2. PPlanStands(x)
    BY <1>2
  <2>3. /\ pCalls[x].locks \in 0 .. Len(P!Plan(P!Ask(x))')
        /\ pCalls[x].at = "decided" => pCalls[x].locks = Len(P!Plan(P!Ask(x))')
        /\ \A i \in 1 .. pCalls[x].locks : P!Plan(P!Ask(x))'[i] = P!Plan(P!Ask(x))[i]
    <3>1. CASE P!Plan(P!Ask(x))' = P!Plan(P!Ask(x))
      BY <1>2, <3>1 DEF Counts
    <3>2. CASE pCalls[x].at = "locking" /\ pCalls[x].locks = 0
      <4>1. Len(P!Plan(P!Ask(x))') \in Nat
        <5>1. AskFits(P!Ask(x))
          BY <1>2 DEF Counts
        <5>2. AskFits(P!Ask(x))'
          BY <5>1, <2>1 DEF AskFits
        <5>. QED  BY <5>2, PlanIsSeqThen
      <4>. QED  BY <3>2, <4>1
    <3>3. CASE /\ pCalls[x].at = "locking" /\ pCalls[x].locks = 1
               /\ Len(P!Plan(P!Ask(x))') >= 1 /\ P!Plan(P!Ask(x))'[1] = P!Plan(P!Ask(x))[1]
      <4>1. Len(P!Plan(P!Ask(x))') \in Nat
        <5>1. AskFits(P!Ask(x))
          BY <1>2 DEF Counts
        <5>2. AskFits(P!Ask(x))'
          BY <5>1, <2>1 DEF AskFits
        <5>. QED  BY <5>2, PlanIsSeqThen
      <4>. QED  BY <3>3, <4>1
    <3>. QED  BY <2>2, <3>1, <3>2, <3>3 DEF PPlanStands
  <2>4. Counts(x)'
    <3>1. AskFits(P!Ask(x))'
      BY <1>2, <2>1 DEF Counts, AskFits
    <3>2. pCalls'[x] = [at |-> pCalls'[x].at, ask |-> P!Ask(x)', locks |-> pCalls'[x].locks, seen |-> P!Seen(x)']
      BY <1>2, <2>1 DEF Counts
    <3>. QED  BY <1>2, <2>1, <2>3, <3>1, <3>2 DEF Counts
  <2>5. P!Held(x)' = {P!Plan(P!Ask(x))'[i] : i \in 1 .. pCalls[x].locks}
    BY <2>1 DEF P!Held
  <2>6. P!Held(x) = {P!Plan(P!Ask(x))[i] : i \in 1 .. pCalls[x].locks}
    BY <1>2 DEF P!Held
  <2>7. P!Held(x)' = P!Held(x)
    BY <2>3, <2>5, <2>6
  <2>. QED  BY <2>4, <2>7
<1>. QED  BY <1>1, <1>2

\* Nothing that a plan depends on changes.
PlansStand == \A g \in Guests : pPart'[g].state = pPart[g].state

LEMMA PlanSame == ASSUME PlansStand, NEW d PROVE P!Plan(d)' = P!Plan(d)
<1>1. \A u : P!TakesPart(u)' <=> P!TakesPart(u)
  BY DEF PlansStand, P!TakesPart
<1>2. \A e : P!Membership(e)' = P!Membership(e) /\ P!Suspension(e)' = P!Suspension(e)
  BY <1>1 DEF P!Membership, P!Suspension
<1>3. \A e : P!Management(e)' = P!Management(e) /\ P!Joining(e)' = P!Joining(e) /\ P!SourceChange(e)' = P!SourceChange(e)
             /\ P!Address(e)' = P!Address(e) /\ P!Closing' = P!Closing /\ P!Recorded' = P!Recorded
  BY DEF P!Management, P!Joining, P!SourceChange, P!Address, P!Closing, P!Recorded
<1>. QED  BY <1>2, <1>3, Zenon DEF P!Plan

LEMMA PlanSteady ==
    ASSUME PlansStand, NEW x \in Calls, Counts(x), pCalls'[x] = pCalls[x], P!InTransaction(x)
    PROVE  PPlanStands(x)
<1>1. P!Ask(x)' = P!Ask(x)
  BY DEF P!Ask
<1>2. PICK d : d = P!Ask(x)
  OBVIOUS
<1>3. P!Plan(d)' = P!Plan(d)
  BY PlanSame
<1>. QED  BY <1>1, <1>2, <1>3 DEF PPlanStands

LEMMA CallMoves ==
    ASSUME Counted, NoConflict, NEW c \in Calls, NEW m, pCalls' = [pCalls EXCEPT ![c] = m], Counts(c)',
           \A x \in Calls : x # c /\ P!InTransaction(x) => PPlanStands(x),
           \A x \in Calls : x # c => \A l \in P!Held(c)', k \in P!Held(x) : ~P!Conflict(l, k)
    PROVE  Counted' /\ NoConflict'
<1>1. pCalls'[c] = m /\ \A x \in Calls : x # c => pCalls'[x] = pCalls[x]
  BY DEF Counted
<1>2. \A x \in Calls : x # c => Counts(x)' /\ P!Held(x)' = P!Held(x)
  <2>. SUFFICES ASSUME NEW x \in Calls, x # c PROVE Counts(x)' /\ P!Held(x)' = P!Held(x)
    OBVIOUS
  <2>1. Counts(x) /\ pCalls'[x] = pCalls[x] /\ (P!InTransaction(x) => PPlanStands(x))
    BY <1>1 DEF Counted
  <2>. QED  BY <2>1, Rests
<1>3. pCalls' = [x \in Calls |-> pCalls'[x]]
  BY DEF Counted
<1>4. Counted'
  BY <1>2, <1>3 DEF Counted
<1>5. ASSUME NEW x \in Calls, NEW y \in Calls, x # y, NEW l \in P!Held(x)', NEW k \in P!Held(y)'
      PROVE  ~P!Conflict(l, k)
  <2>1. CASE x = c
    BY <2>1, <1>2, <1>5
  <2>2. CASE y = c
    <3>1. ~P!Conflict(k, l)
      BY <2>2, <1>2, <1>5
    <3>. QED  BY <3>1 DEF P!Conflict
  <2>3. CASE x # c /\ y # c
    BY <2>3, <1>2, <1>5 DEF NoConflict, Compatible
  <2>. QED  BY <2>1, <2>2, <2>3
<1>6. NoConflict'
  BY <1>5 DEF NoConflict, Compatible, P!Conflict
<1>. QED  BY <1>4, <1>6

LEMMA Leaves ==
    ASSUME Counted, NoConflict, NEW c \in Calls, P!Done(c),
           \A x \in Calls : x # c /\ P!InTransaction(x) => PPlanStands(x)
    PROVE  Counted' /\ NoConflict' /\ pCalls'[c].at = "done"
<1>1. PICK m : m = [at |-> "done"]
  OBVIOUS
<1>2. pCalls' = [pCalls EXCEPT ![c] = m] /\ pCalls'[c] = m
  BY <1>1 DEF P!Done, Counted
<1>3. Counts(c)' /\ P!Held(c)' = {}
  <2>1. pCalls'[c].at = "done"
    BY <1>1, <1>2
  <2>2. ~P!InTransaction(c)'
    BY <2>1 DEF P!InTransaction
  <2>3. P!Held(c)' = {}
    BY <2>2, Zenon DEF P!Held
  <2>4. Counts(c)'
    BY <2>1, <2>2 DEF Counts
  <2>. QED  BY <2>3, <2>4
<1>4. \A x \in Calls : x # c => \A l \in P!Held(c)', k \in P!Held(x) : ~P!Conflict(l, k)
  BY <1>3
<1>5. Counted' /\ NoConflict'
  BY <1>2, <1>3, <1>4, CallMoves
<1>6. pCalls'[c].at = "done"
  BY <1>1, <1>2
<1>. QED  BY <1>5, <1>6

LEMMA Stand ==
    ASSUME Counted, PlansStand, NEW c \in Calls, \A x \in Calls : x # c => pCalls'[x] = pCalls[x]
    PROVE  \A x \in Calls : x # c /\ P!InTransaction(x) => PPlanStands(x)
BY PlanSteady DEF Counted

-----------------------------------------------------------------------------
(* What a decided request holds, and whom it therefore excludes.            *)
LEMMA HoldsQ ==
    ASSUME NEW c \in Calls, Counts(c), P!InTransaction(c), P!Ask(c).op \in Exclusive,
           \/ pCalls[c].at = "decided"
           \/ P!Ask(c).op \in {"hire", "dismiss"} /\ pCalls[c].locks # 0
           \/ P!Ask(c).op = "suspend" /\ pCalls[c].locks \notin {0, 1}
    PROVE  P!Boundary("X") \in P!Held(c)
<1>1. PICK d : d = P!Ask(c)
  OBVIOUS
<1>2. PICK p : p = P!Plan(d)
  OBVIOUS
<1>3. /\ P!Held(c) = {p[i] : i \in 1 .. pCalls[c].locks} /\ pCalls[c].locks \in 0 .. Len(p)
      /\ pCalls[c].at = "decided" => pCalls[c].locks = Len(p)
  BY <1>1, <1>2 DEF P!Held, Counts
<1>4. CASE d.op = "expel"
  <2>1. p = P!Management(d)
    BY <1>2, <1>4, PlanIs DEF P!Recorded
  <2>2. Len(p) = 4 /\ p[3] = P!Boundary("X")
    BY <1>4, <2>1 DEF P!Management
  <2>3. pCalls[c].locks = 4
    BY <1>1, <1>3, <1>4, <2>2
  <2>4. 3 \in 1 .. pCalls[c].locks
    BY <2>3
  <2>. QED  BY <1>3, <2>2, <2>4
<1>5. CASE d.op = "join"
  <2>1. p = P!Joining(d)
    BY <1>2, <1>5, PlanIs DEF P!Recorded
  <2>2. Len(p) = 4 /\ p[3] = P!Boundary("X")
    BY <1>5, <2>1 DEF P!Joining
  <2>3. pCalls[c].locks = 4
    BY <1>1, <1>3, <1>5, <2>2
  <2>4. 3 \in 1 .. pCalls[c].locks
    BY <2>3
  <2>. QED  BY <1>3, <2>2, <2>4
<1>6. CASE d.op \in {"hire", "dismiss"}
  <2>1. Len(p) \in Nat /\ Len(p) >= 1 /\ p[1] = P!Boundary("X")
    BY <1>2, <1>6, PlanIs DEF P!Membership
  <2>2. 1 \in 1 .. pCalls[c].locks
    BY <1>1, <1>3, <1>6, <2>1
  <2>. QED  BY <1>3, <2>1, <2>2
<1>7. CASE d.op = "suspend"
  <2>1. Len(p) \in Nat /\ Len(p) >= 2 /\ p[2] = P!Boundary("X")
    <3>1. p = P!Suspension(d)
      BY <1>2, <1>7, PlanIs
    <3>. QED  BY <3>1 DEF P!Suspension
  <2>2. 2 \in 1 .. pCalls[c].locks
    BY <1>1, <1>3, <1>7, <2>1
  <2>. QED  BY <1>3, <2>1, <2>2
<1>8. CASE d.op = "close"
  <2>1. p = P!Closing
    BY <1>2, <1>8, PlanIs DEF P!Recorded
  <2>2. Len(p) = 3 /\ p[2] = P!Boundary("X")
    BY <1>8, <2>1 DEF P!Closing
  <2>3. pCalls[c].locks = 3
    BY <1>1, <1>3, <1>8, <2>2
  <2>4. 2 \in 1 .. pCalls[c].locks
    BY <2>3
  <2>. QED  BY <1>3, <2>2, <2>4
<1>. QED  BY <1>1, <1>4, <1>5, <1>6, <1>7, <1>8 DEF Exclusive

LEMMA HoldsAll ==
    ASSUME NEW c \in Calls, Counts(c), pCalls[c].at = "decided"
    PROVE  /\ P!Ask(c).op \in Exclusive => P!Boundary("X") \in P!Held(c)
           /\ P!Ask(c).op \notin Exclusive \cup Silent => P!Boundary("S") \in P!Held(c)
           /\ P!Ask(c).op \in {"publish", "add", "withdraw", "ungrant", "strike", "purge"} =>
                 P!ProjectLock("X") \in P!Held(c)
           /\ P!Ask(c).op = "download" =>
                 P!ProjectLock("S") \in P!Held(c) /\ P!SessionRow(P!Ask(c).on, "S") \in P!Held(c)
           /\ P!Ask(c).op = "signout" => P!SessionRow(P!Ask(c).on, "X") \in P!Held(c)
<1>1. PICK d : d = P!Ask(c)
  OBVIOUS
<1>2. PICK p : p = P!Plan(d)
  OBVIOUS
<1>3. P!Held(c) = {p[i] : i \in 1 .. Len(p)} /\ AskFits(d) /\ P!InTransaction(c)
  BY <1>1, <1>2 DEF P!Held, Counts, P!InTransaction
<1>4. d.op \in Exclusive => P!Boundary("X") \in P!Held(c)
  BY <1>1, <1>3, HoldsQ
<1>5. CASE d.op \in {"publish", "add", "withdraw", "ungrant"}
  <2>1. p = P!Management(d)
    BY <1>2, <1>5, PlanIs DEF P!Recorded
  <2>2. Len(p) = 4 /\ p[3] = P!Boundary("S") /\ p[4] = P!ProjectLock("X")
    BY <1>5, <2>1 DEF P!Management
  <2>3. 3 \in 1 .. Len(p) /\ 4 \in 1 .. Len(p)
    BY <2>2
  <2>. QED  BY <1>1, <1>3, <1>5, <2>2, <2>3 DEF Exclusive
<1>6. CASE d.op \in {"strike", "purge"}
  <2>1. p = P!SourceChange(d)
    BY <1>2, <1>6, PlanIs
  <2>2. Len(p) = 3 /\ p[2] = P!Boundary("S") /\ p[3] = P!ProjectLock("X")
    BY <1>6, <2>1 DEF P!SourceChange
  <2>3. 2 \in 1 .. Len(p) /\ 3 \in 1 .. Len(p)
    BY <2>2
  <2>. QED  BY <1>1, <1>3, <1>6, <2>2, <2>3 DEF Exclusive
<1>7. CASE d.op = "revive"
  <2>1. p = P!SourceChange(d)
    BY <1>2, <1>7, PlanIs
  <2>2. Len(p) = 2 /\ p[2] = P!Boundary("S")
    BY <1>7, <2>1 DEF P!SourceChange
  <2>3. 2 \in 1 .. Len(p)
    BY <2>2
  <2>. QED  BY <1>1, <1>3, <1>7, <2>2, <2>3 DEF Exclusive
<1>8. CASE d.op = "download"
  <2>1. p = P!Address(d)
    BY <1>2, <1>8, PlanIs
  <2>2. Len(p) = 4 /\ p[2] = P!Boundary("S") /\ p[3] = P!ProjectLock("S") /\ p[4] = P!SessionRow(d.on, "S")
    BY <2>1 DEF P!Address
  <2>3. 2 \in 1 .. Len(p) /\ 3 \in 1 .. Len(p) /\ 4 \in 1 .. Len(p)
    BY <2>2
  <2>. QED  BY <1>1, <1>3, <1>8, <2>2, <2>3 DEF Exclusive
<1>9. CASE d.op = "signout"
  <2>1. p = <<P!SessionRow(d.on, "X")>>
    BY <1>2, <1>9, PlanIs
  <2>2. 1 \in 1 .. Len(p) /\ p[1] = P!SessionRow(d.on, "X")
    BY <2>1
  <2>. QED  BY <1>1, <1>3, <1>9, <2>2 DEF Exclusive, Silent
<1>10. CASE d.op \in Exclusive \cup {"prepare"}
  BY <1>1, <1>4, <1>10 DEF Exclusive, Silent
<1>. QED  BY <1>1, <1>3, <1>5, <1>6, <1>7, <1>8, <1>9, <1>10 DEF AskFits, P!Recorded, Exclusive, Silent, Stopping

\* A request that changes what others decide on.
Deep == P!Recorded \cup Exclusive \cup {"strike", "purge"}

LEMMA Apart ==
    ASSUME Counted, NoConflict, NEW c \in Calls, NEW x \in Calls, c # x,
           pCalls[c].at = "decided", pCalls[x].at = "decided"
    PROVE  /\ P!Ask(c).op \in Exclusive => P!Ask(x).op \in Silent
           /\ P!Ask(c).op \in Deep => P!Ask(x).op \in Silent \cup {"revive"}
           /\ P!Ask(c).op = "signout" /\ P!Ask(x).op = "download" => P!Ask(c).on # P!Ask(x).on
<1>1. Counts(c) /\ Counts(x) /\ AskFits(P!Ask(x)) /\ AskFits(P!Ask(c))
  BY DEF Counted, Counts, P!InTransaction
<1>2. \A l \in P!Held(c), k \in P!Held(x) : ~P!Conflict(l, k)
  BY DEF NoConflict, Compatible
<1>3. P!Ask(c).op \in Exclusive => P!Ask(x).op \in Silent
  <2>. SUFFICES ASSUME P!Ask(c).op \in Exclusive, P!Ask(x).op \notin Silent PROVE FALSE
    OBVIOUS
  <2>1. P!Boundary("X") \in P!Held(c)
    BY <1>1, HoldsAll
  <2>2. P!Boundary("X") \in P!Held(x) \/ P!Boundary("S") \in P!Held(x)
    BY <1>1, HoldsAll
  <2>. QED  BY <1>2, <2>1, <2>2 DEF P!Conflict
<1>4. P!Ask(c).op \in Deep => P!Ask(x).op \in Silent \cup {"revive"}
  <2>. SUFFICES ASSUME P!Ask(c).op \in Deep \ Exclusive, P!Ask(x).op \notin Silent \cup {"revive"} PROVE FALSE
    BY <1>3
  <2>1. P!Boundary("S") \in P!Held(c) /\ P!ProjectLock("X") \in P!Held(c)
    BY <1>1, HoldsAll DEF Deep, P!Recorded, Exclusive, Silent
  <2>2. CASE P!Ask(x).op \in Exclusive
    <3>1. P!Boundary("X") \in P!Held(x)
      BY <1>1, <2>2, HoldsAll
    <3>. QED  BY <1>2, <2>1, <3>1 DEF P!Conflict
  <2>3. CASE P!Ask(x).op \notin Exclusive
    <3>1. P!Ask(x).op \in {"publish", "add", "withdraw", "ungrant", "strike", "purge", "download"}
      BY <1>1, <2>3 DEF AskFits, P!Recorded, Exclusive, Silent, Stopping
    <3>2. P!ProjectLock("X") \in P!Held(x) \/ P!ProjectLock("S") \in P!Held(x)
      BY <1>1, <3>1, HoldsAll
    <3>. QED  BY <1>2, <2>1, <3>2 DEF P!Conflict
  <2>. QED  BY <2>2, <2>3
<1>5. P!Ask(c).op = "signout" /\ P!Ask(x).op = "download" => P!Ask(c).on # P!Ask(x).on
  <2>. SUFFICES ASSUME P!Ask(c).op = "signout", P!Ask(x).op = "download", P!Ask(c).on = P!Ask(x).on PROVE FALSE
    OBVIOUS
  <2>1. P!SessionRow(P!Ask(c).on, "X") \in P!Held(c) /\ P!SessionRow(P!Ask(c).on, "S") \in P!Held(x)
    BY <1>1, HoldsAll
  <2>. QED  BY <1>2, <2>1 DEF P!Conflict
<1>. QED  BY <1>3, <1>4, <1>5

\* While a change of qualifications is decided, nobody whose plan may change has begun on it.
LEMMA StandAside ==
    ASSUME Counted, NoConflict, NEW c \in Calls, pCalls[c].at = "decided", P!Ask(c).op \in Exclusive,
           \A x \in Calls : x # c => pCalls'[x] = pCalls[x]
    PROVE  \A x \in Calls : x # c /\ P!InTransaction(x) => PPlanStands(x)
<1>. SUFFICES ASSUME NEW x \in Calls, x # c, P!InTransaction(x) PROVE PPlanStands(x)
  OBVIOUS
<1>1. Counts(c) /\ Counts(x) /\ AskFits(P!Ask(x)) /\ P!Ask(x)' = P!Ask(x)
  BY DEF Counted, Counts, P!Ask
<1>2. P!Boundary("X") \in P!Held(c)
  BY <1>1, HoldsAll
<1>3. P!Boundary("X") \notin P!Held(x)
  BY <1>2 DEF NoConflict, Compatible, P!Conflict
<1>4. PICK d : d = P!Ask(x)
  OBVIOUS
<1>5. CASE d.op \notin {"hire", "dismiss", "suspend"}
  <2>1. \A e : P!Management(e)' = P!Management(e) /\ P!Joining(e)' = P!Joining(e) /\ P!SourceChange(e)' = P!SourceChange(e)
               /\ P!Address(e)' = P!Address(e) /\ P!Closing' = P!Closing /\ P!Recorded' = P!Recorded
    BY DEF P!Management, P!Joining, P!SourceChange, P!Address, P!Closing, P!Recorded
  <2>2. P!Plan(d)' = P!Plan(d)
    <3>1. d.op = "prepare" => P!Plan(d)' = P!Plan(d)
      BY Zenon DEF P!Plan, P!Recorded
    <3>2. d.op \in P!Recorded => P!Plan(d)' = P!Plan(d)
      BY <2>1, Zenon DEF P!Plan, P!Recorded
    <3>3. d.op = "join" => P!Plan(d)' = P!Plan(d)
      BY <2>1, Zenon DEF P!Plan, P!Recorded
    <3>4. d.op = "close" => P!Plan(d)' = P!Plan(d)
      BY <2>1, Zenon DEF P!Plan, P!Recorded
    <3>5. d.op \in {"strike", "purge", "revive"} => P!Plan(d)' = P!Plan(d)
      BY <2>1, Zenon DEF P!Plan, P!Recorded
    <3>6. d.op = "download" => P!Plan(d)' = P!Plan(d)
      BY <2>1, Zenon DEF P!Plan, P!Recorded
    <3>7. d.op = "signout" => P!Plan(d)' = P!Plan(d)
      BY Zenon DEF P!Plan, P!Recorded
    <3>. QED
      BY <1>1, <1>4, <1>5, <3>1, <3>2, <3>3, <3>4, <3>5, <3>6, <3>7
      DEF AskFits, P!Recorded, Exclusive, Silent, Stopping
  <2>. QED  BY <1>1, <1>4, <2>2 DEF PPlanStands
<1>6. CASE d.op \in {"hire", "dismiss"}
  <2>1. pCalls[x].at # "decided" /\ pCalls[x].locks = 0
    BY <1>1, <1>3, <1>4, <1>6, HoldsQ DEF Exclusive
  <2>. QED  BY <2>1 DEF PPlanStands, P!InTransaction
<1>7. CASE d.op = "suspend"
  <2>1. pCalls[x].at # "decided" /\ pCalls[x].locks \in {0, 1}
    BY <1>1, <1>3, <1>4, <1>7, HoldsQ DEF Exclusive
  <2>2. P!Plan(d) = P!Suspension(d) /\ P!Plan(d)' = P!Suspension(d)'
    BY <1>7, Zenon DEF P!Plan, P!Recorded
  <2>3. Len(P!Plan(d)') >= 1 /\ P!Plan(d)'[1] = P!Row(d.on, "X")
    BY <2>2 DEF P!Suspension
  <2>4. P!Plan(d)[1] = P!Row(d.on, "X")
    BY <2>2 DEF P!Suspension
  <2>. QED  BY <1>1, <1>4, <2>1, <2>3, <2>4 DEF PPlanStands, P!InTransaction
<1>. QED  BY <1>5, <1>6, <1>7

-----------------------------------------------------------------------------
(* Commits.                                                                 *)
LEMMA SilentGround ==
    ASSUME NEW x \in Calls, Grounded(x), pCalls'[x] = pCalls[x], P!Ask(x).op \in Silent \cup {"revive"}
    PROVE  Grounded(x)'
<1>. SUFFICES ASSUME pCalls'[x].at = "decided" PROVE Grounded(x)'
  BY DEF Grounded
<1>1. P!Ask(x)' = P!Ask(x) /\ P!Seen(x)' = P!Seen(x) /\ pCalls[x].at = "decided"
  BY DEF P!Ask, P!Seen
<1>2. EffectFits(x) /\ EffectFits(x)'
  BY <1>1 DEF Grounded, EffectFits
<1>3. P!Seen(x).move # "withdrawn" /\ P!Seen(x).given = {} /\ P!Seen(x).parts = {}
  BY <1>2 DEF EffectFits, Silent, Stopping, Ending
<1>4. SourceGround(x)' /\ PartGround(x)' /\ PersonGround(x)'
  BY <1>1, <1>3 DEF SourceGround, PartGround, PersonGround, Silent, Stopping
<1>. QED  BY <1>2, <1>4 DEF Grounded

LEMMA DeepCommit ==
    ASSUME PInv, NEW c \in Calls, pCalls[c].at = "decided", P!Ask(c).op \in Deep, P!Done(c),
           P!Ask(c).op \in Exclusive \/ PlansStand
    PROVE  Counted' /\ NoConflict' /\ Decided'
<1>1. Counted /\ NoConflict /\ \A x \in Calls : Grounded(x)
  BY DEF PInv, Decided
<1>2. \A x \in Calls : x # c => pCalls'[x] = pCalls[x]
  BY <1>1 DEF P!Done, Counted
<1>3. \A x \in Calls : x # c /\ P!InTransaction(x) => PPlanStands(x)
  <2>1. CASE P!Ask(c).op \in Exclusive
    BY <1>1, <1>2, <2>1, StandAside
  <2>2. CASE PlansStand
    BY <1>1, <1>2, <2>2, Stand
  <2>. QED  BY <2>1, <2>2
<1>4. Counted' /\ NoConflict' /\ pCalls'[c].at = "done"
  BY <1>1, <1>3, Leaves
<1>5. ASSUME NEW x \in Calls PROVE Grounded(x)'
  <2>1. CASE pCalls'[x].at # "decided"
    BY <2>1 DEF Grounded
  <2>2. CASE pCalls'[x].at = "decided"
    <3>1. x # c /\ pCalls'[x] = pCalls[x] /\ pCalls[x].at = "decided"
      BY <1>2, <1>4, <2>2
    <3>2. P!Ask(x).op \in Silent \cup {"revive"}
      BY <1>1, <3>1, Apart
    <3>. QED  BY <1>1, <3>1, <3>2, SilentGround
  <2>. QED  BY <2>1, <2>2
<1>. QED  BY <1>4, <1>5 DEF Decided

\* Any other commit leaves the plans alone, and what the others decided on.
LEMMA MildCommit ==
    ASSUME PInv, NEW c \in Calls, P!Done(c), PlansStand,
           \A x \in Calls : /\ x # c /\ pCalls[x].at = "decided" /\ Grounded(x)
                            /\ pCalls'[x] = pCalls[x] /\ P!Ask(x)' = P!Ask(x) /\ P!Seen(x)' = P!Seen(x)
                            => SourceGround(x)' /\ PartGround(x)' /\ PersonGround(x)'
    PROVE  Counted' /\ NoConflict' /\ Decided'
<1>1. Counted /\ NoConflict /\ \A x \in Calls : Grounded(x)
  BY DEF PInv, Decided
<1>2. \A x \in Calls : x # c => pCalls'[x] = pCalls[x]
  BY <1>1 DEF P!Done, Counted
<1>3. \A x \in Calls : x # c /\ P!InTransaction(x) => PPlanStands(x)
  BY <1>1, <1>2, Stand
<1>4. Counted' /\ NoConflict' /\ pCalls'[c].at = "done"
  BY <1>1, <1>3, Leaves
<1>5. ASSUME NEW x \in Calls PROVE Grounded(x)'
  <2>1. CASE pCalls'[x].at # "decided"
    BY <2>1 DEF Grounded
  <2>2. CASE pCalls'[x].at = "decided"
    <3>1. x # c /\ pCalls'[x] = pCalls[x] /\ pCalls[x].at = "decided"
      BY <1>2, <1>4, <2>2
    <3>2. P!Ask(x)' = P!Ask(x) /\ P!Seen(x)' = P!Seen(x)
      BY <3>1 DEF P!Ask, P!Seen
    <3>3. SourceGround(x)' /\ PartGround(x)' /\ PersonGround(x)'
      BY <1>1, <3>1, <3>2
    <3>4. EffectFits(x)'
      BY <1>1, <3>1, <3>2 DEF Grounded, EffectFits
    <3>. QED  BY <3>3, <3>4 DEF Grounded
  <2>. QED  BY <2>1, <2>2
<1>. QED  BY <1>4, <1>5 DEF Decided

\* What an effect makes of the rows.
LEMMA Applied ==
    ASSUME PTyped, NEW c \in Calls, EffectFits(c), P!Apply(P!Seen(c))
    PROVE  /\ pPublication' \in P!Publication /\ pGrant' \in [Guests -> P!Grant] /\ pPart' \in [Guests -> P!Participation]
           /\ pPublication'.state = IF P!Seen(c).move = "stay" THEN pPublication.state ELSE P!Seen(c).move
           /\ \A g \in Guests :
                 /\ pPart'[g].state = IF g \in P!Seen(c).parts THEN "revoked" ELSE pPart[g].state
                 /\ pGrant'[g].state = IF g \in P!Seen(c).grants THEN "revoked"
                                      ELSE IF g \in P!Seen(c).given THEN "active" ELSE pGrant[g].state
<1>1. PICK e : e = P!Seen(c)
  OBVIOUS
<1>2. /\ e \in [move : {"stay", "prepared", "published", "withdrawn"},
                parts : SUBSET Guests, grants : SUBSET Guests, given : SUBSET Guests]
      /\ P!Apply(e)
  BY <1>1 DEF EffectFits
<1>3. /\ pPublication' \in P!Publication
      /\ pPublication'.state = IF e.move = "stay" THEN pPublication.state ELSE e.move
  <2>1. CASE e.move = "stay"
    BY <1>2, <2>1 DEF P!Apply, PTyped
  <2>2. CASE e.move # "stay"
    <3>1. PICK v \in Nat : v = pPublication.version + 1
      BY DEF PTyped, P!Publication
    <3>2. pPublication' = [state |-> e.move, version |-> v]
      BY <1>2, <2>2, <3>1 DEF P!Apply
    <3>3. e.move \in {"absent", "prepared", "published", "withdrawn"}
      BY <1>2, <2>2
    <3>. QED  BY <2>2, <3>2, <3>3 DEF P!Publication
  <2>. QED  BY <2>1, <2>2
<1>4. /\ pPart' \in [Guests -> P!Participation]
      /\ \A g \in Guests : pPart'[g].state = IF g \in e.parts THEN "revoked" ELSE pPart[g].state
  <2>1. ASSUME NEW g \in Guests
        PROVE  /\ pPart'[g] \in P!Participation
               /\ pPart'[g].state = IF g \in e.parts THEN "revoked" ELSE pPart[g].state
    <3>1. PICK q \in P!Participation : q = pPart[g]
      BY DEF PTyped
    <3>2. PICK r : r = [q EXCEPT !.state = "revoked"]
      OBVIOUS
    <3>3. r \in P!Participation /\ r.state = "revoked"
      BY <3>1, <3>2 DEF P!Participation
    <3>4. pPart'[g] = IF g \in e.parts THEN r ELSE q
      BY <1>2, <3>1, <3>2 DEF P!Apply
    <3>. QED  BY <3>1, <3>3, <3>4
  <2>2. pPart' = [g \in Guests |-> pPart'[g]]
    BY <1>2 DEF P!Apply
  <2>. QED  BY <2>1, <2>2
<1>5. /\ pGrant' \in [Guests -> P!Grant]
      /\ \A g \in Guests : pGrant'[g].state = IF g \in e.grants THEN "revoked"
                                             ELSE IF g \in e.given THEN "active" ELSE pGrant[g].state
  <2>1. ASSUME NEW g \in Guests
        PROVE  /\ pGrant'[g] \in P!Grant
               /\ pGrant'[g].state = IF g \in e.grants THEN "revoked"
                                    ELSE IF g \in e.given THEN "active" ELSE pGrant[g].state
    <3>1. PICK q \in P!Grant : q = pGrant[g]
      BY DEF PTyped
    <3>2. PICK v \in Nat : v = q.serial + 1
      BY <3>1 DEF P!Grant
    <3>3. PICK r : r = [state |-> "revoked", serial |-> v]
      OBVIOUS
    <3>4. PICK s : s = [state |-> "active", serial |-> v]
      OBVIOUS
    <3>5. r \in P!Grant /\ r.state = "revoked" /\ s \in P!Grant /\ s.state = "active"
      BY <3>3, <3>4 DEF P!Grant
    <3>6. pGrant'[g] = IF g \in e.grants THEN r ELSE IF g \in e.given THEN s ELSE q
      BY <1>2, <3>1, <3>2, <3>3, <3>4 DEF P!Apply
    <3>. QED  BY <3>1, <3>5, <3>6
  <2>2. pGrant' = [g \in Guests |-> pGrant'[g]]
    BY <1>2 DEF P!Apply
  <2>. QED  BY <2>1, <2>2
<1>. QED  BY <1>1, <1>3, <1>4, <1>5

LEMMA AppliedBacked ==
    ASSUME PInv, NEW c \in Calls, pCalls[c].at = "decided", P!Ask(c).op \in Deep, P!Apply(P!Seen(c))
    PROVE  P!GrantIsBacked'
<1>1. PTyped /\ EffectFits(c) /\ SourceGround(c) /\ PartGround(c) /\ P!GrantIsBacked
  BY DEF PInv, Decided, Grounded, Backed
<1>2. PICK e : e = P!Seen(c)
  OBVIOUS
<1>3. /\ pPublication'.state = IF e.move = "stay" THEN pPublication.state ELSE e.move
      /\ \A g \in Guests :
            /\ pPart'[g].state = IF g \in e.parts THEN "revoked" ELSE pPart[g].state
            /\ pGrant'[g].state = IF g \in e.grants THEN "revoked"
                                 ELSE IF g \in e.given THEN "active" ELSE pGrant[g].state
  BY <1>1, <1>2, Applied
<1>. SUFFICES ASSUME NEW g \in Guests, pGrant'[g].state = "active"
              PROVE  pPublication'.state = "published" /\ pPart'[g].state = "active"
  BY DEF P!GrantIsBacked
<1>4. g \notin e.grants /\ (g \in e.given \/ pGrant[g].state = "active")
  BY <1>3
<1>5. CASE g \in e.given
  <2>1. P!Ask(c).op \in {"publish", "add"} /\ pPart[g].state = "active" /\ e.parts = {}
    BY <1>1, <1>2, <1>5 DEF EffectFits, PartGround, Ending
  <2>2. \/ e.move = "published"
        \/ e.move = "stay" /\ pPublication.state = "published"
    BY <1>1, <1>2, <2>1 DEF EffectFits, SourceGround, Stopping
  <2>. QED  BY <1>3, <2>1, <2>2
<1>6. CASE pGrant[g].state = "active"
  <2>1. pPublication.state = "published" /\ pPart[g].state = "active"
    BY <1>1, <1>6 DEF P!GrantIsBacked
  <2>2. g \notin e.parts
    BY <1>1, <1>2, <1>4, <1>6 DEF PartGround
  <2>3. e.move # "withdrawn"
    BY <1>1, <1>2, <1>4, <1>6 DEF SourceGround, P!GrantsOf
  <2>4. e.move \in {"stay", "published"}
    BY <1>1, <1>2, <2>3 DEF EffectFits, Deep, P!Recorded, Exclusive
  <2>. QED  BY <1>3, <2>1, <2>2, <2>4
<1>. QED  BY <1>4, <1>5, <1>6

-----------------------------------------------------------------------------
(* Every step keeps the invariant.                                          *)
LEMMA QuietMove ==
    ASSUME PInv, NEW c \in Calls, NEW m, pCalls' = [pCalls EXCEPT ![c] = m],
           UNCHANGED <<pKinds, P!access, pReceipt, P!world, pUrl>>, Counts(c)', Grounded(c)',
           \A x \in Calls : x # c => \A l \in P!Held(c)', k \in P!Held(x) : ~P!Conflict(l, k)
    PROVE  PInv'
<1>1. Counted /\ NoConflict /\ \A x \in Calls : Grounded(x)
  BY DEF PInv, Decided
<1>2. \A x \in Calls : x # c => pCalls'[x] = pCalls[x]
  BY <1>1 DEF Counted
<1>3. PlansStand
  BY DEF PlansStand, P!access
<1>4. \A x \in Calls : x # c /\ P!InTransaction(x) => PPlanStands(x)
  BY <1>1, <1>2, <1>3, Stand
<1>5. Counted' /\ NoConflict'
  BY <1>1, <1>4, CallMoves
<1>6. ASSUME NEW x \in Calls, x # c PROVE Grounded(x)'
  <2>1. Grounded(x) /\ pCalls'[x] = pCalls[x] /\ P!Ask(x)' = P!Ask(x) /\ P!Seen(x)' = P!Seen(x)
    BY <1>1, <1>2, <1>6 DEF P!Ask, P!Seen
  <2>2. EffectFits(x) => EffectFits(x)'
    BY <2>1 DEF EffectFits
  <2>3. SourceGround(x) => SourceGround(x)'
    BY <2>1 DEF SourceGround, P!SourcesAlive, P!GrantsOf, P!access, P!world
  <2>4. PartGround(x) => PartGround(x)'
    BY <2>1 DEF PartGround, P!TakesPart, P!access
  <2>5. PersonGround(x) => PersonGround(x)'
    BY <2>1 DEF PersonGround, P!Entitled, P!access, P!world
  <2>. QED  BY <2>1, <2>2, <2>3, <2>4, <2>5 DEF Grounded
<1>7. Decided'
  BY <1>6 DEF Decided
<1>8. PTyped'
  BY DEF PInv, PTyped, P!access, P!world
<1>9. Backed'
  BY DEF PInv, Backed, P!PublishedSourcesLive, P!SourcesAlive, P!GrantIsBacked, P!ParticipantIsOutside, P!access, P!world
<1>. QED  BY <1>5, <1>7, <1>8, <1>9 DEF PInv

LEMMA PKeepBegin == ASSUME PInv, NEW c \in Calls, P!Begin(c) PROVE PInv'
<1>1. PICK d \in P!Requests : pCalls' = [pCalls EXCEPT ![c] =
              [at |-> "locking", ask |-> d, locks |-> 0,
               seen |-> IF d.op = "download" THEN P!Authorization(d.on) ELSE P!Form]]
  BY DEF P!Begin
<1>2. PICK s : s = IF d.op = "download" THEN P!Authorization(d.on) ELSE P!Form
  OBVIOUS
<1>3. PICK m : m = [at |-> "locking", ask |-> d, locks |-> 0, seen |-> s]
  OBVIOUS
<1>4. pCalls' = [pCalls EXCEPT ![c] = m] /\ pCalls'[c] = m
  BY <1>1, <1>2, <1>3 DEF PInv, Counted
<1>5. UNCHANGED <<pKinds, P!access, pReceipt, P!world, pUrl>>
  BY DEF P!Begin
<1>6. /\ pCalls'[c].at = "locking" /\ P!Ask(c)' = d /\ pCalls'[c].locks = 0 /\ P!Seen(c)' = s
      /\ pCalls'[c] = [at |-> pCalls'[c].at, ask |-> P!Ask(c)', locks |-> pCalls'[c].locks, seen |-> P!Seen(c)']
  BY <1>3, <1>4 DEF P!Ask, P!Seen
<1>7. AskFits(d) /\ AskFits(d)'
  BY RequestsFit DEF AskFits
<1>8. Len(P!Plan(d)') \in Nat
  BY <1>7, PlanIsSeqThen
<1>9. Counts(c)'
  <2>1. AskFits(P!Ask(c))'
    BY <1>6, <1>7 DEF AskFits
  <2>2. pCalls'[c].locks \in 0 .. Len(P!Plan(P!Ask(c))')
    BY <1>6, <1>8
  <2>. QED  BY <1>6, <2>1, <2>2 DEF Counts
<1>10. P!Held(c)' = {}
  BY <1>6 DEF P!Held
<1>11. Grounded(c)'
  BY <1>6 DEF Grounded
<1>12. \A x \in Calls : x # c => \A l \in P!Held(c)', k \in P!Held(x) : ~P!Conflict(l, k)
  BY <1>10
<1>. QED  BY <1>4, <1>5, <1>9, <1>11, <1>12, QuietMove

LEMMA PKeepAcquire == ASSUME PInv, NEW c \in Calls, P!Acquire(c) PROVE PInv'
<1>1. /\ pCalls[c].at = "locking" /\ P!Wants(c) # {} /\ \A x \in Calls : ~P!WaitsFor(c, x)
      /\ UNCHANGED <<pKinds, P!access, pReceipt, P!world, pUrl>>
  BY DEF P!Acquire
<1>2. Counts(c) /\ P!InTransaction(c)
  BY <1>1 DEF PInv, Counted, P!InTransaction
<1>3. PICK p : p = P!Plan(P!Ask(c))
  OBVIOUS
<1>4. Len(p) \in Nat
  BY <1>2, <1>3, PlanIsSeq DEF Counts
<1>5. PICK n \in Nat : n = pCalls[c].locks /\ n <= Len(p)
  BY <1>2, <1>3, <1>4 DEF Counts
<1>6. n < Len(p) /\ P!Wants(c) = {p[n + 1]}
  BY <1>1, <1>3, <1>5 DEF P!Wants
<1>7. PICK v \in Nat : v = n + 1
  OBVIOUS
<1>8. PICK m : m = [at |-> "locking", ask |-> P!Ask(c), locks |-> v, seen |-> P!Seen(c)]
  OBVIOUS
<1>9. pCalls[c] = [at |-> "locking", ask |-> P!Ask(c), locks |-> n, seen |-> P!Seen(c)]
  BY <1>1, <1>2, <1>5 DEF Counts
<1>10. [pCalls[c] EXCEPT !.locks = @ + 1] = m
  BY <1>7, <1>8, <1>9
<1>11. pCalls' = [pCalls EXCEPT ![c] = m] /\ pCalls'[c] = m
  <2>1. pCalls' = [pCalls EXCEPT ![c] = [pCalls[c] EXCEPT !.locks = @ + 1]]
    BY DEF P!Acquire
  <2>2. pCalls' = [pCalls EXCEPT ![c] = m]
    BY <1>10, <2>1
  <2>. QED  BY <2>2 DEF PInv, Counted
<1>12. /\ pCalls'[c].at = "locking" /\ P!Ask(c)' = P!Ask(c) /\ pCalls'[c].locks = v /\ P!Seen(c)' = P!Seen(c)
       /\ pCalls'[c] = [at |-> pCalls'[c].at, ask |-> P!Ask(c)', locks |-> pCalls'[c].locks, seen |-> P!Seen(c)']
  BY <1>8, <1>11 DEF P!Ask, P!Seen
<1>13. P!Plan(P!Ask(c))' = p
  <2>1. PlansStand
    BY <1>1 DEF PlansStand, P!access
  <2>2. PICK d : d = P!Ask(c)
    OBVIOUS
  <2>3. P!Plan(d)' = P!Plan(d)
    BY <2>1, PlanSame
  <2>. QED  BY <1>3, <1>12, <2>2, <2>3
<1>14. Counts(c)'
  <2>1. AskFits(P!Ask(c))'
    BY <1>2, <1>12 DEF Counts, AskFits
  <2>2. pCalls'[c].locks \in 0 .. Len(P!Plan(P!Ask(c))')
    BY <1>4, <1>6, <1>7, <1>12, <1>13
  <2>. QED  BY <1>12, <2>1, <2>2 DEF Counts
<1>15. P!Held(c)' = P!Held(c) \cup {p[n + 1]}
  <2>1. P!Held(c) = {p[i] : i \in 1 .. n}
    BY <1>2, <1>3, <1>5 DEF P!Held
  <2>2. P!InTransaction(c)'
    BY <1>12 DEF P!InTransaction
  <2>3. P!Held(c)' = {p[i] : i \in 1 .. v}
    BY <1>12, <1>13, <2>2 DEF P!Held
  <2>. QED  BY <1>7, <2>1, <2>3
<1>16. Grounded(c)'
  BY <1>12 DEF Grounded
<1>17. \A x \in Calls : x # c => \A l \in P!Held(c)', k \in P!Held(x) : ~P!Conflict(l, k)
  BY <1>1, <1>6, <1>15 DEF P!WaitsFor, PInv, NoConflict, Compatible
<1>. QED  BY <1>1, <1>11, <1>14, <1>16, <1>17, QuietMove

LEMMA PKeepRefuse == ASSUME PInv, NEW c \in Calls, P!Refuse(c) \/ P!Replay(c) PROVE PInv'
<1>1. PICK m : m = [at |-> "done"]
  OBVIOUS
<1>2. /\ pCalls' = [pCalls EXCEPT ![c] = m] /\ pCalls'[c] = m
      /\ UNCHANGED <<pKinds, P!access, pReceipt, P!world, pUrl>>
  BY <1>1 DEF P!Refuse, P!Replay, P!Done, PInv, Counted
<1>3. pCalls'[c].at = "done"
  BY <1>1, <1>2
<1>4. ~P!InTransaction(c)'
  BY <1>3 DEF P!InTransaction
<1>5. P!Held(c)' = {}
  BY <1>4, Zenon DEF P!Held
<1>6. Counts(c)' /\ Grounded(c)'
  BY <1>3, <1>4 DEF Counts, Grounded
<1>7. \A x \in Calls : x # c => \A l \in P!Held(c)', k \in P!Held(x) : ~P!Conflict(l, k)
  BY <1>5
<1>. QED  BY <1>2, <1>6, <1>7, QuietMove

LEMMA PKeepDecide == ASSUME PInv, NEW c \in Calls, P!Decide(c) PROVE PInv'
<1>1. /\ pCalls[c].at = "locking" /\ P!Wants(c) = {} /\ P!May(c)
      /\ UNCHANGED <<pKinds, P!access, pReceipt, P!world, pUrl>>
  BY DEF P!Decide, P!Locked
<1>2. Counts(c) /\ P!InTransaction(c) /\ AskFits(P!Ask(c))
  BY <1>1 DEF PInv, Counted, Counts, P!InTransaction
<1>3. PICK p : p = P!Plan(P!Ask(c))
  OBVIOUS
<1>4. Len(p) \in Nat
  BY <1>2, <1>3, PlanIsSeq DEF Counts
<1>5. pCalls[c].locks = Len(p)
  <2>1. PICK n \in Nat : n = pCalls[c].locks /\ n <= Len(p)
    BY <1>2, <1>3, <1>4 DEF Counts
  <2>2. P!Wants(c) = IF n < Len(p) THEN {p[n + 1]} ELSE {}
    BY <1>1, <1>3, <2>1 DEF P!Wants
  <2>3. ~(n < Len(p))
    BY <1>1, <2>2
  <2>. QED  BY <1>4, <2>1, <2>3
<1>6. PICK e : e = P!Effect(c)
  OBVIOUS
<1>7. PICK m : m = [at |-> "decided", ask |-> P!Ask(c), locks |-> Len(p), seen |-> e]
  OBVIOUS
<1>8. pCalls' = [pCalls EXCEPT ![c] = m] /\ pCalls'[c] = m
  <2>1. pCalls[c] = [at |-> "locking", ask |-> P!Ask(c), locks |-> Len(p), seen |-> P!Seen(c)]
    BY <1>1, <1>2, <1>5 DEF Counts
  <2>2. pCalls' = [pCalls EXCEPT ![c].at = "decided", ![c].seen = e]
    BY <1>6 DEF P!Decide
  <2>3. pCalls' = [pCalls EXCEPT ![c] = [pCalls[c] EXCEPT !.at = "decided", !.seen = e]]
    BY <2>2 DEF PInv, Counted
  <2>4. [pCalls[c] EXCEPT !.at = "decided", !.seen = e] = m
    <3>1. PICK q : q = [at |-> "locking", ask |-> P!Ask(c), locks |-> Len(p), seen |-> P!Seen(c)]
      OBVIOUS
    <3>2. PICK r : r = [at |-> "decided", ask |-> P!Ask(c), locks |-> Len(p), seen |-> P!Seen(c)]
      OBVIOUS
    <3>3. [q EXCEPT !.at = "decided"] = r
      BY <3>1, <3>2
    <3>4. [r EXCEPT !.seen = e] = m
      BY <1>7, <3>2
    <3>5. [q EXCEPT !.at = "decided", !.seen = e] = m
      BY <3>3, <3>4, Zenon
    <3>. QED  BY <2>1, <3>1, <3>5
  <2>5. pCalls' = [pCalls EXCEPT ![c] = m]
    BY <2>3, <2>4
  <2>. QED  BY <2>5 DEF PInv, Counted
<1>9. /\ pCalls'[c].at = "decided" /\ P!Ask(c)' = P!Ask(c) /\ pCalls'[c].locks = Len(p) /\ P!Seen(c)' = e
      /\ pCalls'[c] = [at |-> pCalls'[c].at, ask |-> P!Ask(c)', locks |-> pCalls'[c].locks, seen |-> P!Seen(c)']
  BY <1>7, <1>8 DEF P!Ask, P!Seen
<1>10. P!Plan(P!Ask(c))' = p
  <2>1. PlansStand
    BY <1>1 DEF PlansStand, P!access
  <2>2. PICK d : d = P!Ask(c)
    OBVIOUS
  <2>3. P!Plan(d)' = P!Plan(d)
    BY <2>1, PlanSame
  <2>. QED  BY <1>3, <1>9, <2>2, <2>3
<1>11. Counts(c)'
  <2>1. AskFits(P!Ask(c))'
    BY <1>2, <1>9 DEF AskFits
  <2>. QED  BY <1>4, <1>9, <1>10, <2>1 DEF Counts
<1>12. \A x \in Calls : x # c => \A l \in P!Held(c)', k \in P!Held(x) : ~P!Conflict(l, k)
  <2>1. P!Held(c)' = {p[i] : i \in 1 .. Len(p)}
    BY <1>9, <1>10 DEF P!Held, P!InTransaction
  <2>2. P!Held(c) = {p[i] : i \in 1 .. Len(p)}
    BY <1>2, <1>3, <1>5 DEF P!Held
  <2>. QED  BY <2>1, <2>2 DEF PInv, NoConflict, Compatible
<1>13. /\ e.move = P!Move(c) /\ e.parts = P!Leavers(c) /\ e.grants = P!Revoked(c) /\ e.given = P!Given(c)
       /\ e = [move |-> e.move, parts |-> e.parts, grants |-> e.grants, given |-> e.given]
  BY <1>6 DEF P!Effect
<1>14. EffectFits(c)'
  <2>1. e.move \in {"stay", "prepared", "published", "withdrawn"}
    BY <1>13 DEF P!Move
  <2>2. e.parts \in SUBSET Guests /\ e.grants \in SUBSET Guests /\ e.given \in SUBSET Guests
    BY <1>2, <1>13 DEF P!Leavers, P!Revoked, P!Cascade, P!GrantsOf, P!Given, AskFits
  <2>3. e \in [move : {"stay", "prepared", "published", "withdrawn"},
               parts : SUBSET Guests, grants : SUBSET Guests, given : SUBSET Guests]
    BY <1>13, <2>1, <2>2
  <2>4. /\ e.move = "published" <=> P!Ask(c).op = "publish"
        /\ e.move = "prepared" <=> P!Ask(c).op = "prepare"
        /\ e.move = "withdrawn" => P!Ask(c).op \in Stopping \cup {"withdraw"}
    BY <1>13 DEF P!Move, P!Withdraws, Stopping
  <2>5. /\ e.given # {} => P!Ask(c).op \in {"publish", "add"}
        /\ e.parts # {} => P!Ask(c).op \in Ending
    BY <1>13 DEF P!Given, P!Leavers, Ending
  <2>6. e.grants # {} => P!Ask(c).op \in Ending \cup Stopping \cup {"withdraw", "ungrant"}
    BY <1>13 DEF P!Revoked, P!Cascade, P!GrantsOf, P!Withdraws, P!Leavers, Ending, Stopping
  <2>. QED  BY <1>9, <2>3, <2>4, <2>5, <2>6 DEF EffectFits
<1>15. SourceGround(c)'
  <2>1. P!Ask(c).op = "publish" => pPublication.state = "prepared" /\ P!SourcesAlive
    BY <1>1 DEF P!May, P!MayPublish
  <2>2. P!Ask(c).op = "add" => pPublication.state = "published"
    BY <1>1 DEF P!May, P!MayPublish
  <2>3. P!Ask(c).op \in Stopping => (pPublication.state = "published" => e.move = "withdrawn")
    BY <1>13 DEF Stopping, P!Move, P!Withdraws, P!Stopped
  <2>4. e.move = "withdrawn" => P!GrantsOf(Guests) \subseteq e.grants
    <3>1. e.move = "withdrawn" => P!Withdraws(c)
      BY <1>13 DEF P!Move
    <3>. QED  BY <1>13, <3>1 DEF P!Revoked
  <2>5. P!GrantsOf(Guests)' = P!GrantsOf(Guests) /\ P!SourcesAlive' = P!SourcesAlive /\ pPublication' = pPublication
    BY <1>1 DEF P!GrantsOf, P!SourcesAlive, P!access, P!world
  <2>. QED  BY <1>9, <2>1, <2>2, <2>3, <2>4, <2>5 DEF SourceGround
<1>16. PartGround(c)'
  <2>1. \A g \in e.given : pPart[g].state = "active"
    BY <1>1, <1>13 DEF P!Given, P!May, P!MayPublish, P!Recipients, P!Current
  <2>2. \A g \in e.parts : pGrant[g].state = "active" => g \in e.grants
    BY <1>13 DEF P!Leavers, P!Revoked, P!Cascade, P!GrantsOf
  <2>3. P!Ask(c).op \in {"hire", "suspend"} => (P!TakesPart(P!Ask(c).on) => P!Ask(c).on \in e.parts)
    BY <1>13 DEF P!Leavers, P!TakesPart
  <2>. QED  BY <1>1, <1>9, <2>1, <2>2, <2>3 DEF PartGround, P!TakesPart, P!access
<1>17. PersonGround(c)'
  <2>1. P!Ask(c).op = "join" => pActive[P!Ask(c).on] /\ ~pMember[P!Ask(c).on]
    BY <1>1 DEF P!May, P!MayJoin
  <2>2. P!Ask(c).op = "download" => P!Entitled(P!Ask(c).on)
    BY <1>1 DEF P!May, P!MayDownload
  <2>. QED  BY <1>1, <1>9, <2>1, <2>2 DEF PersonGround, P!Entitled, P!access, P!world
<1>18. Grounded(c)'
  BY <1>14, <1>15, <1>16, <1>17 DEF Grounded
<1>. QED  BY <1>1, <1>8, <1>11, <1>12, <1>18, QuietMove

\* What a decided request knows of itself.
LEMMA DecidedFits ==
    ASSUME PInv, NEW c \in Calls, pCalls[c].at = "decided"
    PROVE  /\ EffectFits(c) /\ SourceGround(c) /\ PartGround(c) /\ PersonGround(c) /\ AskFits(P!Ask(c))
           /\ PTyped /\ P!PublishedSourcesLive /\ P!GrantIsBacked /\ P!ParticipantIsOutside
BY DEF PInv, Decided, Grounded, Counted, Counts, P!InTransaction, Backed

\* Rows change, and whatever ends a participation is a change of qualifications.
LEMMA Applies ==
    ASSUME PInv, NEW c \in Calls, pCalls[c].at = "decided", P!Ask(c).op \in Deep, P!Apply(P!Seen(c)), P!Done(c)
    PROVE  /\ Counted' /\ NoConflict' /\ Decided' /\ P!GrantIsBacked'
           /\ pPublication' \in P!Publication /\ pGrant' \in [Guests -> P!Grant] /\ pPart' \in [Guests -> P!Participation]
           /\ pPublication'.state = "published" => pPublication.state = "published" \/ P!Ask(c).op = "publish"
           /\ \A g \in Guests : pPart'[g].state = "active" => pPart[g].state = "active" /\ g \notin P!Seen(c).parts
           /\ P!Ask(c).op \in Stopping => pPublication'.state # "published"
<1>1. EffectFits(c) /\ SourceGround(c) /\ PTyped
  BY DecidedFits
<1>2. /\ pPublication' \in P!Publication /\ pGrant' \in [Guests -> P!Grant] /\ pPart' \in [Guests -> P!Participation]
      /\ pPublication'.state = IF P!Seen(c).move = "stay" THEN pPublication.state ELSE P!Seen(c).move
      /\ \A g \in Guests : pPart'[g].state = IF g \in P!Seen(c).parts THEN "revoked" ELSE pPart[g].state
  BY <1>1, Applied
<1>3. P!Ask(c).op \in Exclusive \/ PlansStand
  <2>1. CASE P!Ask(c).op \in Ending
    BY <2>1 DEF Ending, Exclusive
  <2>2. CASE P!Ask(c).op \notin Ending
    <3>1. P!Seen(c).parts = {}
      BY <1>1, <2>2 DEF EffectFits
    <3>. QED  BY <1>2, <3>1 DEF PlansStand
  <2>. QED  BY <2>1, <2>2
<1>4. Counted' /\ NoConflict' /\ Decided'
  BY <1>3, DeepCommit
<1>5. P!GrantIsBacked'
  BY AppliedBacked
<1>6. pPublication'.state = "published" => pPublication.state = "published" \/ P!Ask(c).op = "publish"
  BY <1>1, <1>2 DEF EffectFits
<1>7. P!Ask(c).op \in Stopping => pPublication'.state # "published"
  BY <1>1, <1>2 DEF EffectFits, SourceGround, Stopping
<1>. QED  BY <1>2, <1>4, <1>5, <1>6, <1>7

LEMMA PKeepManage ==
    ASSUME PInv, NEW c \in Calls, NEW op \in P!Recorded, P!Manage(c, op)
    PROVE  PInv'
<1>1. /\ pCalls[c].at = "decided" /\ P!Ask(c).op \in Deep /\ P!Apply(P!Seen(c)) /\ P!Done(c)
      /\ UNCHANGED P!world /\ pUrl' = pUrl
  BY DEF P!Manage, P!Deciding, Deep
<1>2. /\ EffectFits(c) /\ SourceGround(c) /\ PTyped /\ P!PublishedSourcesLive /\ P!ParticipantIsOutside
  BY <1>1, DecidedFits
<1>3. /\ Counted' /\ NoConflict' /\ Decided' /\ P!GrantIsBacked'
      /\ pPublication' \in P!Publication /\ pGrant' \in [Guests -> P!Grant] /\ pPart' \in [Guests -> P!Participation]
      /\ pPublication'.state = "published" => pPublication.state = "published" \/ P!Ask(c).op = "publish"
      /\ \A g \in Guests : pPart'[g].state = "active" => pPart[g].state = "active"
  BY <1>1, Applies
<1>4. PTyped'
  BY <1>1, <1>2, <1>3 DEF PTyped, P!world
<1>5. P!PublishedSourcesLive'
  BY <1>1, <1>2, <1>3 DEF P!PublishedSourcesLive, SourceGround, P!SourcesAlive, P!world
<1>6. P!ParticipantIsOutside'
  BY <1>1, <1>2, <1>3 DEF P!ParticipantIsOutside, P!world
<1>. QED  BY <1>3, <1>4, <1>5, <1>6 DEF PInv, Backed

LEMMA PKeepJoin == ASSUME PInv, NEW c \in Calls, P!Join(c) PROVE PInv'
<1>1. /\ pCalls[c].at = "decided" /\ P!Ask(c).op = "join" /\ P!Done(c)
      /\ UNCHANGED <<pPublication, pGrant>> /\ UNCHANGED P!world /\ pUrl' = pUrl
  BY DEF P!Join, P!Deciding
<1>2. /\ EffectFits(c) /\ PersonGround(c) /\ AskFits(P!Ask(c))
      /\ PTyped /\ P!PublishedSourcesLive /\ P!GrantIsBacked /\ P!ParticipantIsOutside
  BY <1>1, DecidedFits
<1>3. Counted' /\ NoConflict' /\ Decided'
  BY <1>1, DeepCommit DEF Deep, Exclusive
<1>4. PICK u \in Guests : u = P!Ask(c).on
  BY <1>1, <1>2 DEF AskFits, OfGuests
<1>5. PICK v \in Nat : v = pPart[u].generation + 1
  BY <1>2 DEF PTyped, P!Participation
<1>6. PICK r : r = [state |-> "active", generation |-> v, lapsed |-> FALSE]
  OBVIOUS
<1>7. r \in P!Participation /\ r.state = "active"
  BY <1>6 DEF P!Participation
<1>8. pPart' = [pPart EXCEPT ![u] = r]
  BY <1>4, <1>5, <1>6 DEF P!Join
<1>9. pPart' \in [Guests -> P!Participation] /\ pPart'[u] = r /\ \A g \in Guests : g # u => pPart'[g] = pPart[g]
  BY <1>2, <1>7, <1>8 DEF PTyped
<1>10. PTyped'
  BY <1>1, <1>2, <1>9 DEF PTyped, P!world
<1>11. pActive[u] /\ ~pMember[u]
  BY <1>1, <1>2, <1>4 DEF PersonGround
<1>12. P!ParticipantIsOutside'
  BY <1>1, <1>2, <1>9, <1>11 DEF P!ParticipantIsOutside, P!world
<1>13. P!GrantIsBacked'
  BY <1>1, <1>2, <1>7, <1>9 DEF P!GrantIsBacked
<1>14. P!PublishedSourcesLive'
  BY <1>1, <1>2 DEF P!PublishedSourcesLive, P!SourcesAlive, P!world
<1>. QED  BY <1>3, <1>10, <1>12, <1>13, <1>14 DEF PInv, Backed

LEMMA PKeepHire == ASSUME PInv, NEW c \in Calls, P!Hire(c) PROVE PInv'
<1>1. /\ pCalls[c].at = "decided" /\ P!Ask(c).op = "hire" /\ P!Apply(P!Seen(c)) /\ P!Done(c)
      /\ UNCHANGED <<pSource, pActive, pOpen, pSession, pUrl>> /\ pMember' = [pMember EXCEPT ![P!Ask(c).on] = TRUE]
  BY DEF P!Hire, P!Deciding
<1>2. /\ EffectFits(c) /\ PartGround(c) /\ AskFits(P!Ask(c)) /\ PTyped /\ P!PublishedSourcesLive /\ P!ParticipantIsOutside
  BY <1>1, DecidedFits
<1>3. /\ Counted' /\ NoConflict' /\ Decided' /\ P!GrantIsBacked'
      /\ pPublication' \in P!Publication /\ pGrant' \in [Guests -> P!Grant] /\ pPart' \in [Guests -> P!Participation]
      /\ pPublication'.state = "published" => pPublication.state = "published"
      /\ \A g \in Guests : pPart'[g].state = "active" => pPart[g].state = "active" /\ g \notin P!Seen(c).parts
  BY <1>1, Applies DEF Deep, Exclusive
<1>4. PTyped'
  BY <1>1, <1>2, <1>3 DEF PTyped
<1>5. P!PublishedSourcesLive'
  BY <1>1, <1>2, <1>3 DEF P!PublishedSourcesLive, P!SourcesAlive
<1>6. P!ParticipantIsOutside'
  <2>. SUFFICES ASSUME NEW g \in Guests, pPart'[g].state = "active" PROVE pActive'[g] /\ ~pMember'[g]
    BY DEF P!ParticipantIsOutside
  <2>1. pPart[g].state = "active" /\ g \notin P!Seen(c).parts
    BY <1>3
  <2>2. g # P!Ask(c).on
    BY <1>1, <1>2, <2>1 DEF PartGround, P!TakesPart
  <2>. QED  BY <1>1, <1>2, <2>1, <2>2 DEF P!ParticipantIsOutside, PTyped
<1>. QED  BY <1>3, <1>4, <1>5, <1>6 DEF PInv, Backed

LEMMA PKeepDismiss == ASSUME PInv, NEW c \in Calls, P!Dismiss(c) PROVE PInv'
<1>1. /\ pCalls[c].at = "decided" /\ P!Ask(c).op = "dismiss" /\ P!Done(c) /\ UNCHANGED P!access
      /\ UNCHANGED <<pSource, pActive, pOpen, pSession, pUrl>> /\ pMember' = [pMember EXCEPT ![P!Ask(c).on] = FALSE]
  BY DEF P!Dismiss, P!Deciding
<1>2. PTyped /\ P!PublishedSourcesLive /\ P!GrantIsBacked /\ P!ParticipantIsOutside
  BY <1>1, DecidedFits
<1>3. Counted' /\ NoConflict' /\ Decided'
  BY <1>1, DeepCommit DEF Deep, Exclusive
<1>4. PTyped'
  BY <1>1, <1>2 DEF PTyped, P!access
<1>5. P!PublishedSourcesLive' /\ P!GrantIsBacked'
  BY <1>1, <1>2 DEF P!PublishedSourcesLive, P!SourcesAlive, P!GrantIsBacked, P!access
<1>6. P!ParticipantIsOutside'
  BY <1>1, <1>2 DEF P!ParticipantIsOutside, PTyped, P!access
<1>. QED  BY <1>3, <1>4, <1>5, <1>6 DEF PInv, Backed

LEMMA PKeepSuspend == ASSUME PInv, NEW c \in Calls, P!Suspend(c) PROVE PInv'
<1>1. /\ pCalls[c].at = "decided" /\ P!Ask(c).op = "suspend" /\ P!Apply(P!Seen(c)) /\ P!Done(c)
      /\ UNCHANGED <<pSource, pMember, pOpen, pSession, pUrl>> /\ pActive' = [pActive EXCEPT ![P!Ask(c).on] = FALSE]
  BY DEF P!Suspend, P!Deciding
<1>2. /\ EffectFits(c) /\ PartGround(c) /\ PTyped /\ P!PublishedSourcesLive /\ P!ParticipantIsOutside
  BY <1>1, DecidedFits
<1>3. /\ Counted' /\ NoConflict' /\ Decided' /\ P!GrantIsBacked'
      /\ pPublication' \in P!Publication /\ pGrant' \in [Guests -> P!Grant] /\ pPart' \in [Guests -> P!Participation]
      /\ pPublication'.state = "published" => pPublication.state = "published"
      /\ \A g \in Guests : pPart'[g].state = "active" => pPart[g].state = "active" /\ g \notin P!Seen(c).parts
  BY <1>1, Applies DEF Deep, Exclusive
<1>4. PTyped'
  BY <1>1, <1>2, <1>3 DEF PTyped
<1>5. P!PublishedSourcesLive'
  BY <1>1, <1>2, <1>3 DEF P!PublishedSourcesLive, P!SourcesAlive
<1>6. P!ParticipantIsOutside'
  <2>. SUFFICES ASSUME NEW g \in Guests, pPart'[g].state = "active" PROVE pActive'[g] /\ ~pMember'[g]
    BY DEF P!ParticipantIsOutside
  <2>1. pPart[g].state = "active" /\ g \notin P!Seen(c).parts /\ g \in P!Users
    BY <1>3 DEF P!Users
  <2>2. g # P!Ask(c).on
    BY <1>1, <1>2, <2>1 DEF PartGround, P!TakesPart
  <2>. QED  BY <1>1, <1>2, <2>1, <2>2 DEF P!ParticipantIsOutside, PTyped
<1>. QED  BY <1>3, <1>4, <1>5, <1>6 DEF PInv, Backed

\* What is not published binds no source, whatever becomes of the sources.
LEMMA PKeepClose ==
    ASSUME PInv, NEW c \in Calls, P!Close(c) \/ P!Strike(c) \/ P!Purge(c)
    PROVE  PInv'
<1>1. /\ pCalls[c].at = "decided" /\ P!Ask(c).op \in Stopping /\ P!Apply(P!Seen(c)) /\ P!Done(c)
      /\ UNCHANGED <<pActive, pMember, pSession, pUrl>>
      /\ pOpen' \in BOOLEAN /\ pSource' \in [Sources -> {"live", "deleted", "purged"}]
  <2>1. PTyped
    BY DEF PInv
  <2>2. CASE P!Close(c)
    BY <2>1, <2>2 DEF P!Close, P!Deciding, Stopping, PTyped
  <2>3. CASE P!Strike(c)
    BY <2>1, <2>3 DEF P!Strike, P!Deciding, Stopping, PTyped
  <2>4. CASE P!Purge(c)
    BY <2>1, <2>4 DEF P!Purge, P!Deciding, Stopping, PTyped
  <2>. QED  BY <2>2, <2>3, <2>4
<1>2. PTyped /\ P!ParticipantIsOutside
  BY <1>1, DecidedFits
<1>3. /\ Counted' /\ NoConflict' /\ Decided' /\ P!GrantIsBacked'
      /\ pPublication' \in P!Publication /\ pGrant' \in [Guests -> P!Grant] /\ pPart' \in [Guests -> P!Participation]
      /\ pPublication'.state # "published"
      /\ \A g \in Guests : pPart'[g].state = "active" => pPart[g].state = "active"
  BY <1>1, Applies DEF Deep, Exclusive, Stopping
<1>4. PTyped'
  BY <1>1, <1>2, <1>3 DEF PTyped
<1>5. P!PublishedSourcesLive'
  BY <1>3 DEF P!PublishedSourcesLive
<1>6. P!ParticipantIsOutside'
  BY <1>1, <1>2, <1>3 DEF P!ParticipantIsOutside
<1>. QED  BY <1>3, <1>4, <1>5, <1>6 DEF PInv, Backed

LEMMA PKeepRevive == ASSUME PInv, NEW c \in Calls, P!Revive(c) PROVE PInv'
<1>1. /\ P!Done(c) /\ UNCHANGED <<P!access, pActive, pMember, pOpen, pSession, pUrl>>
      /\ pSource' = [pSource EXCEPT ![P!Ask(c).on] = "live"] /\ pCalls[c].at = "decided"
  BY DEF P!Revive, P!Deciding
<1>2. PTyped /\ P!PublishedSourcesLive /\ P!GrantIsBacked /\ P!ParticipantIsOutside
  BY <1>1, DecidedFits
<1>3. P!SourcesAlive => P!SourcesAlive'
  BY <1>1, <1>2 DEF P!SourcesAlive, PTyped
<1>4. PlansStand
  BY <1>1 DEF PlansStand, P!access
<1>5. ASSUME NEW x \in Calls, x # c, pCalls[x].at = "decided", Grounded(x), pCalls'[x] = pCalls[x],
             P!Ask(x)' = P!Ask(x), P!Seen(x)' = P!Seen(x)
      PROVE  SourceGround(x)' /\ PartGround(x)' /\ PersonGround(x)'
  <2>1. SourceGround(x)'
    BY <1>1, <1>3, <1>5 DEF Grounded, SourceGround, P!GrantsOf, P!access
  <2>2. PartGround(x)'
    BY <1>1, <1>5 DEF Grounded, PartGround, P!TakesPart, P!access
  <2>3. PersonGround(x)'
    BY <1>1, <1>5 DEF Grounded, PersonGround, P!Entitled, P!access
  <2>. QED  BY <2>1, <2>2, <2>3
<1>6. Counted' /\ NoConflict' /\ Decided'
  BY <1>1, <1>4, <1>5, MildCommit
<1>7. PTyped'
  BY <1>1, <1>2 DEF PTyped, P!access
<1>8. P!PublishedSourcesLive' /\ P!GrantIsBacked' /\ P!ParticipantIsOutside'
  BY <1>1, <1>2, <1>3 DEF P!PublishedSourcesLive, P!GrantIsBacked, P!ParticipantIsOutside, P!access
<1>. QED  BY <1>6, <1>7, <1>8 DEF PInv, Backed

LEMMA PKeepSignOut == ASSUME PInv, NEW c \in Calls, P!SignOut(c) PROVE PInv'
<1>1. /\ P!Done(c) /\ UNCHANGED <<P!access, pSource, pActive, pMember, pOpen, pUrl>>
      /\ pSession' = [pSession EXCEPT ![P!Ask(c).on] = "revoked"]
      /\ pCalls[c].at = "decided" /\ P!Ask(c).op = "signout"
  BY DEF P!SignOut, P!Deciding
<1>2. PTyped /\ P!PublishedSourcesLive /\ P!GrantIsBacked /\ P!ParticipantIsOutside /\ Counted /\ NoConflict
  BY <1>1, DecidedFits DEF PInv
<1>3. P!SourcesAlive' = P!SourcesAlive
  BY <1>1 DEF P!SourcesAlive
<1>4. PlansStand
  BY <1>1 DEF PlansStand, P!access
<1>5. ASSUME NEW x \in Calls, x # c, pCalls[x].at = "decided", Grounded(x), pCalls'[x] = pCalls[x],
             P!Ask(x)' = P!Ask(x), P!Seen(x)' = P!Seen(x)
      PROVE  SourceGround(x)' /\ PartGround(x)' /\ PersonGround(x)'
  <2>1. SourceGround(x)'
    BY <1>1, <1>3, <1>5 DEF Grounded, SourceGround, P!GrantsOf, P!access
  <2>2. PartGround(x)'
    BY <1>1, <1>5 DEF Grounded, PartGround, P!TakesPart, P!access
  <2>3. PersonGround(x)'
    <3>1. P!Ask(x).op = "download" => P!Ask(c).on # P!Ask(x).on
      BY <1>1, <1>2, <1>5, Apart
    <3>2. P!Ask(x).op = "download" => pSession'[P!Ask(x).on] = pSession[P!Ask(x).on]
      <4>1. AskFits(P!Ask(x))
        BY <1>2, <1>5 DEF Counted, Counts, P!InTransaction
      <4>. QED  BY <1>1, <1>2, <3>1, <4>1 DEF PTyped, AskFits, OfGuests
    <3>. QED  BY <1>1, <1>5, <3>2 DEF Grounded, PersonGround, P!Entitled, P!access
  <2>. QED  BY <2>1, <2>2, <2>3
<1>6. Counted' /\ NoConflict' /\ Decided'
  BY <1>1, <1>4, <1>5, MildCommit
<1>7. PTyped'
  BY <1>1, <1>2 DEF PTyped, P!Session, P!access
<1>8. P!PublishedSourcesLive' /\ P!GrantIsBacked' /\ P!ParticipantIsOutside'
  BY <1>1, <1>2, <1>3 DEF P!PublishedSourcesLive, P!GrantIsBacked, P!ParticipantIsOutside, P!access
<1>. QED  BY <1>6, <1>7, <1>8 DEF PInv, Backed

LEMMA PKeepIssue == ASSUME PInv, NEW c \in Calls, P!Issue(c) PROVE PInv'
<1>1. /\ P!Done(c) /\ UNCHANGED <<P!access, P!world>> /\ pUrl' = pUrl \cup {P!Ask(c).on}
      /\ pCalls[c].at = "decided" /\ P!Ask(c).op = "download"
  BY DEF P!Issue, P!Deciding
<1>2. PTyped /\ P!PublishedSourcesLive /\ P!GrantIsBacked /\ P!ParticipantIsOutside /\ AskFits(P!Ask(c))
  BY <1>1, DecidedFits
<1>3. P!SourcesAlive' = P!SourcesAlive
  BY <1>1 DEF P!SourcesAlive, P!world
<1>4. PlansStand
  BY <1>1 DEF PlansStand, P!access
<1>5. ASSUME NEW x \in Calls, x # c, pCalls[x].at = "decided", Grounded(x), pCalls'[x] = pCalls[x],
             P!Ask(x)' = P!Ask(x), P!Seen(x)' = P!Seen(x)
      PROVE  SourceGround(x)' /\ PartGround(x)' /\ PersonGround(x)'
  <2>1. SourceGround(x)'
    BY <1>1, <1>3, <1>5 DEF Grounded, SourceGround, P!GrantsOf, P!access
  <2>2. PartGround(x)'
    BY <1>1, <1>5 DEF Grounded, PartGround, P!TakesPart, P!access
  <2>3. PersonGround(x)'
    BY <1>1, <1>5 DEF Grounded, PersonGround, P!Entitled, P!access, P!world
  <2>. QED  BY <2>1, <2>2, <2>3
<1>6. Counted' /\ NoConflict' /\ Decided'
  BY <1>1, <1>4, <1>5, MildCommit
<1>7. PTyped'
  BY <1>1, <1>2 DEF PTyped, AskFits, OfGuests, P!access, P!world
<1>8. P!PublishedSourcesLive' /\ P!GrantIsBacked' /\ P!ParticipantIsOutside'
  BY <1>1, <1>2, <1>3 DEF P!PublishedSourcesLive, P!GrantIsBacked, P!ParticipantIsOutside, P!access, P!world
<1>. QED  BY <1>6, <1>7, <1>8 DEF PInv, Backed

LEMMA PKeepPrepare == ASSUME PInv, NEW c \in Calls, P!Prepare(c) PROVE PInv'
<1>1. /\ pCalls[c].at = "decided" /\ P!Ask(c).op = "prepare" /\ P!Done(c) /\ UNCHANGED <<P!world, pUrl>>
      /\ IF pPublication.state = "absent" THEN P!Apply(P!Seen(c)) ELSE UNCHANGED P!access
  BY DEF P!Prepare, P!Deciding
<1>2. EffectFits(c) /\ PTyped /\ P!PublishedSourcesLive /\ P!GrantIsBacked /\ P!ParticipantIsOutside
  BY <1>1, DecidedFits
<1>3. P!SourcesAlive' = P!SourcesAlive
  BY <1>1 DEF P!SourcesAlive, P!world
<1>4. P!Seen(c).move = "prepared" /\ P!Seen(c).given = {} /\ P!Seen(c).parts = {} /\ P!Seen(c).grants = {}
  BY <1>1, <1>2 DEF EffectFits, Ending, Stopping
<1>5. /\ pPublication' \in P!Publication /\ pGrant' \in [Guests -> P!Grant] /\ pPart' \in [Guests -> P!Participation]
      /\ \/ pPublication' = pPublication
         \/ pPublication.state = "absent" /\ pPublication'.state = "prepared"
      /\ \A g \in Guests : pPart'[g].state = pPart[g].state /\ pGrant'[g].state = pGrant[g].state
  <2>1. CASE pPublication.state = "absent"
    BY <1>1, <1>2, <1>4, <2>1, Applied
  <2>2. CASE pPublication.state # "absent"
    BY <1>1, <1>2, <2>2 DEF P!access, PTyped
  <2>. QED  BY <2>1, <2>2
<1>6. PlansStand
  BY <1>5 DEF PlansStand
<1>7. ASSUME NEW x \in Calls, x # c, pCalls[x].at = "decided", Grounded(x), pCalls'[x] = pCalls[x],
             P!Ask(x)' = P!Ask(x), P!Seen(x)' = P!Seen(x)
      PROVE  SourceGround(x)' /\ PartGround(x)' /\ PersonGround(x)'
  <2>1. SourceGround(x) /\ PartGround(x) /\ PersonGround(x) /\ EffectFits(x)
    BY <1>7 DEF Grounded
  <2>2. P!GrantsOf(Guests)' = P!GrantsOf(Guests)
    BY <1>5 DEF P!GrantsOf
  <2>3. SourceGround(x)'
    BY <1>3, <1>5, <1>7, <2>1, <2>2 DEF SourceGround
  <2>4. PartGround(x)'
    BY <1>5, <1>7, <2>1 DEF PartGround, P!TakesPart, EffectFits
  <2>5. PersonGround(x)'
    <3>1. AskFits(P!Ask(x))
      BY <1>7 DEF PInv, Counted, Counts, P!InTransaction
    <3>2. P!Ask(x).op = "download" => P!Ask(x).on \in Guests
      BY <3>1 DEF AskFits, OfGuests
    <3>. QED  BY <1>1, <1>5, <1>7, <2>1, <3>2 DEF PersonGround, P!Entitled, P!world
  <2>. QED  BY <2>3, <2>4, <2>5
<1>8. Counted' /\ NoConflict' /\ Decided'
  BY <1>1, <1>6, <1>7, MildCommit
<1>9. PTyped'
  BY <1>1, <1>2, <1>5 DEF PTyped, P!world
<1>10. P!PublishedSourcesLive' /\ P!GrantIsBacked' /\ P!ParticipantIsOutside'
  BY <1>1, <1>2, <1>3, <1>5 DEF P!PublishedSourcesLive, P!GrantIsBacked, P!ParticipantIsOutside, P!world
<1>. QED  BY <1>8, <1>9, <1>10 DEF PInv, Backed

LEMMA PKeepLapse == ASSUME PInv, NEW u \in Guests, P!Lapse(u) PROVE PInv'
<1>1. /\ pPart' = [pPart EXCEPT ![u].lapsed = TRUE]
      /\ UNCHANGED <<pPublication, pGrant, P!world, pUrl, pCalls>>
  BY DEF P!Lapse
<1>2. PTyped /\ Counted /\ NoConflict /\ Decided /\ Backed
  BY DEF PInv
<1>3. PICK q \in P!Participation : q = pPart[u]
  BY <1>2 DEF PTyped
<1>4. PICK r : r = [q EXCEPT !.lapsed = TRUE]
  OBVIOUS
<1>5. r \in P!Participation
  BY <1>3, <1>4, Zenon DEF P!Participation
<1>6. r.state = q.state
  BY <1>3, <1>4 DEF P!Participation
<1>7. pPart' = [pPart EXCEPT ![u] = r]
  BY <1>1, <1>3, <1>4
<1>8. pPart' \in [Guests -> P!Participation] /\ \A g \in Guests : pPart'[g].state = pPart[g].state
  BY <1>2, <1>3, <1>5, <1>6, <1>7 DEF PTyped
<1>9. PlansStand
  BY <1>8 DEF PlansStand
<1>10. ASSUME NEW x \in Calls PROVE Counts(x)' /\ P!Held(x)' = P!Held(x)
  <2>1. Counts(x) /\ pCalls'[x] = pCalls[x]
    BY <1>1, <1>2 DEF Counted
  <2>2. P!InTransaction(x) => PPlanStands(x)
    BY <1>9, <2>1, PlanSteady
  <2>. QED  BY <2>1, <2>2, Rests
<1>11. Counted' /\ NoConflict'
  BY <1>1, <1>2, <1>10 DEF Counted, NoConflict, Compatible, P!Conflict
<1>12. ASSUME NEW x \in Calls PROVE Grounded(x)'
  <2>1. Grounded(x) /\ pCalls'[x] = pCalls[x] /\ P!Ask(x)' = P!Ask(x) /\ P!Seen(x)' = P!Seen(x)
    BY <1>1, <1>2 DEF Decided, P!Ask, P!Seen
  <2>. SUFFICES ASSUME pCalls[x].at = "decided" PROVE Grounded(x)'
    BY <2>1 DEF Grounded
  <2>2. AskFits(P!Ask(x)) /\ EffectFits(x) /\ SourceGround(x) /\ PartGround(x) /\ PersonGround(x)
    BY <1>2, <2>1 DEF Counted, Counts, P!InTransaction, Grounded
  <2>3. EffectFits(x)'
    BY <2>1, <2>2 DEF EffectFits
  <2>4. SourceGround(x)'
    BY <1>1, <2>1, <2>2 DEF SourceGround, P!SourcesAlive, P!GrantsOf, P!world
  <2>5. PartGround(x)'
    BY <1>1, <1>8, <2>1, <2>2 DEF PartGround, P!TakesPart, EffectFits
  <2>6. PersonGround(x)'
    <3>1. P!Ask(x).op = "download" => P!Ask(x).on \in Guests
      BY <2>2 DEF AskFits, OfGuests
    <3>. QED  BY <1>1, <1>8, <2>1, <2>2, <3>1 DEF PersonGround, P!Entitled, P!world
  <2>. QED  BY <2>3, <2>4, <2>5, <2>6 DEF Grounded
<1>13. Decided'
  BY <1>12 DEF Decided
<1>14. PTyped'
  BY <1>1, <1>2, <1>8 DEF PTyped, P!world
<1>15. Backed'
  BY <1>1, <1>2, <1>8 DEF Backed, P!PublishedSourcesLive, P!SourcesAlive, P!GrantIsBacked, P!ParticipantIsOutside, P!world
<1>. QED  BY <1>11, <1>13, <1>14, <1>15 DEF PInv

-----------------------------------------------------------------------------
(* The invariant of every behaviour.                                        *)
LEMMA PStarts == ASSUME P!Init PROVE PInv
<1>1. /\ pPublication \in {[state |-> "absent", version |-> 0], [state |-> "prepared", version |-> 1]}
                         \cup {[state |-> "published", version |-> 2]}
      /\ pSource = [s \in Sources |-> "live"] /\ pActive = [u \in P!Users |-> TRUE]
      /\ pMember = [g \in Guests |-> FALSE] /\ pOpen = TRUE /\ pSession = [g \in Guests |-> "live"]
      /\ pUrl = {} /\ pCalls = [c \in Calls |-> [at |-> "idle"]]
  BY DEF P!Init
<1>2. PICK joined \in SUBSET Guests, given \in SUBSET Guests :
         /\ given \subseteq joined
         /\ pPublication.state = "published" \/ given = {}
         /\ pPart = [g \in Guests |-> IF g \in joined THEN [state |-> "active", generation |-> 1, lapsed |-> FALSE]
                                     ELSE [state |-> "absent", generation |-> 0, lapsed |-> FALSE]]
         /\ pGrant = [g \in Guests |-> IF g \in given THEN [state |-> "active", serial |-> 1]
                                      ELSE [state |-> "absent", serial |-> 0]]
  BY DEF P!Init
<1>3. pPublication \in P!Publication
  BY <1>1 DEF P!Publication
<1>4. \A c \in Calls : pCalls[c].at = "idle"
  BY <1>1
<1>5. \A c \in Calls : ~P!InTransaction(c)
  BY <1>4 DEF P!InTransaction
<1>6. \A c \in Calls : P!Held(c) = {}
  BY <1>5, Zenon DEF P!Held
<1>7. Counted
  BY <1>1, <1>4, <1>5 DEF Counted, Counts
<1>8. NoConflict
  BY <1>6 DEF NoConflict, Compatible
<1>9. Decided
  BY <1>4 DEF Decided, Grounded
<1>10. pPart \in [Guests -> P!Participation]
  BY <1>2 DEF P!Participation
<1>11. pGrant \in [Guests -> P!Grant]
  BY <1>2 DEF P!Grant
<1>12. PTyped
  BY <1>1, <1>3, <1>10, <1>11 DEF PTyped, P!Session
<1>13. P!PublishedSourcesLive /\ P!ParticipantIsOutside
  BY <1>1 DEF P!PublishedSourcesLive, P!SourcesAlive, P!ParticipantIsOutside, P!Users
<1>14. P!GrantIsBacked
  BY <1>2 DEF P!GrantIsBacked
<1>. QED  BY <1>7, <1>8, <1>9, <1>12, <1>13, <1>14 DEF PInv, Backed

LEMMA PKept == ASSUME PInv, [P!Next]_(P!vars) PROVE PInv'
<1>1. CASE UNCHANGED P!vars
  <2>1. UNCHANGED <<pPublication, pGrant, pPart, pSource, pActive, pMember, pOpen, pSession, pUrl, pCalls>>
    BY <1>1 DEF P!vars
  <2>2. PTyped' /\ Backed'
    BY <2>1 DEF PInv, PTyped, Backed, P!PublishedSourcesLive, P!SourcesAlive, P!GrantIsBacked, P!ParticipantIsOutside
  <2>3. PlansStand
    BY <2>1 DEF PlansStand
  <2>4. ASSUME NEW x \in Calls PROVE Counts(x)' /\ P!Held(x)' = P!Held(x)
    <3>1. Counts(x) /\ pCalls'[x] = pCalls[x]
      BY <2>1 DEF PInv, Counted
    <3>2. P!InTransaction(x) => PPlanStands(x)
      BY <2>3, <3>1, PlanSteady
    <3>. QED  BY <3>1, <3>2, Rests
  <2>5. Counted' /\ NoConflict'
    BY <2>1, <2>4 DEF PInv, Counted, NoConflict, Compatible, P!Conflict
  <2>6. Decided'
    BY <2>1 DEF PInv, Decided, Grounded, EffectFits, SourceGround, PartGround, PersonGround, P!Ask, P!Seen,
                P!SourcesAlive, P!GrantsOf, P!TakesPart, P!Entitled
  <2>. QED  BY <2>2, <2>5, <2>6 DEF PInv
<1>2. ASSUME NEW g \in Guests, P!Lapse(g) PROVE PInv'
  BY <1>2, PKeepLapse
<1>3. ASSUME NEW c \in Calls, P!Begin(c) \/ P!Acquire(c) \/ P!Refuse(c) \/ P!Decide(c) \/ P!Replay(c) PROVE PInv'
  BY <1>3, PKeepBegin, PKeepAcquire, PKeepRefuse, PKeepDecide
<1>4. ASSUME NEW c \in Calls, P!Publishing(c) PROVE PInv'
  BY <1>4, PKeepPrepare, PKeepManage
  DEF P!Publishing, P!Publish, P!AddGrants, P!Withdraw, P!RevokeGrant, P!RevokeParticipation, P!Recorded
<1>5. ASSUME NEW c \in Calls, P!Qualifying(c) PROVE PInv'
  BY <1>5, PKeepJoin, PKeepHire, PKeepDismiss, PKeepSuspend, PKeepClose, PKeepSignOut DEF P!Qualifying
<1>6. ASSUME NEW c \in Calls, P!Changing(c) \/ P!Issue(c) PROVE PInv'
  BY <1>6, PKeepClose, PKeepRevive, PKeepIssue DEF P!Changing
<1>. QED  BY <1>1, <1>2, <1>3, <1>4, <1>5, <1>6 DEF P!Next

LEMMA PTypeOK == PInv => P!TypeOK
BY DEF PInv, PTyped, P!TypeOK

\* An address is issued by a request that has decided, and its ground still holds.
LEMMA AddressIsEntitled ==
    ASSUME PInv, [P!Next]_(P!vars)
    PROVE  \A g \in pUrl' \ pUrl : P!Entitled(g)
<1>. SUFFICES ASSUME NEW g \in pUrl' \ pUrl PROVE P!Entitled(g)
  OBVIOUS
<1>1. \E c \in Calls : P!Issue(c)
  BY DEF P!Next, P!vars, P!Lapse, P!Begin, P!Acquire, P!Refuse, P!Decide, P!Replay, P!Publishing, P!Qualifying, P!Changing, P!Prepare,
         P!Publish, P!AddGrants, P!Withdraw, P!RevokeGrant, P!RevokeParticipation, P!Manage, P!Join, P!Hire, P!Dismiss, P!Suspend,
         P!Close, P!SignOut, P!Strike, P!Revive, P!Purge
<1>2. PICK c \in Calls : P!Issue(c)
  BY <1>1
<1>3. g = P!Ask(c).on /\ pCalls[c].at = "decided" /\ P!Ask(c).op = "download"
  BY <1>2 DEF P!Issue, P!Deciding
<1>4. PersonGround(c)
  BY <1>3, DecidedFits
<1>. QED  BY <1>3, <1>4 DEF PersonGround

-----------------------------------------------------------------------------
(* No circle of requests: who is waited for holds a lock, and what it       *)
(* itself waits for comes later in the order.                               *)
LEMMA WantsNext ==
    ASSUME Counted, NEW c \in Calls, NEW l \in P!Wants(c)
    PROVE  \E n \in 1 .. Len(P!Plan(P!Ask(c))) :
              /\ l = P!Plan(P!Ask(c))[n] /\ n = pCalls[c].locks + 1
              /\ P!Held(c) = {P!Plan(P!Ask(c))[i] : i \in 1 .. n - 1}
              /\ AskFits(P!Ask(c))
<1>1. Counts(c)
  BY DEF Counted
<1>2. PICK p : p = P!Plan(P!Ask(c))
  OBVIOUS
<1>3. pCalls[c].at = "locking" /\ pCalls[c].locks < Len(p) /\ l = p[pCalls[c].locks + 1]
  <2>1. P!Wants(c) = IF pCalls[c].at = "locking" /\ pCalls[c].locks < Len(p)
                   THEN {p[pCalls[c].locks + 1]} ELSE {}
    BY <1>2 DEF P!Wants
  <2>. QED  BY <2>1
<1>4. P!InTransaction(c) /\ AskFits(P!Ask(c))
  BY <1>1, <1>3 DEF P!InTransaction, Counts
<1>5. Len(p) \in Nat
  BY <1>2, <1>4, PlanIsSeq
<1>6. PICK k \in Nat : k = pCalls[c].locks
  BY <1>1, <1>2, <1>4, <1>5 DEF Counts
<1>7. P!Held(c) = {p[i] : i \in 1 .. k}
  BY <1>2, <1>4, <1>6 DEF P!Held
<1>8. PICK n \in Nat : n = k + 1
  OBVIOUS
<1>9. n \in 1 .. Len(p) /\ l = p[n] /\ n - 1 = k
  BY <1>3, <1>5, <1>6, <1>8
<1>10. P!Held(c) = {p[i] : i \in 1 .. n - 1}
  BY <1>7, <1>9
<1>. QED  BY <1>2, <1>4, <1>6, <1>8, <1>9, <1>10

LEMMA WantsInOrder ==
    ASSUME Counted, NEW c \in Calls, NEW l \in P!Wants(c)
    PROVE  /\ OnRow(l) \/ OnQ(l) \/ OnP(l) \/ OnSession(l)
           /\ OnRow(l) /\ l.mode = "X" => P!Held(c) = {}
           /\ OnQ(l) => \A k \in P!Held(c) : OnRow(k)
           /\ OnRow(l) => \A k \in P!Held(c) : ~OnP(k)
           /\ P!Ask(c).op \in Orderly =>
                 /\ OnRow(l) => Shared(l)
                 /\ OnRow(l) \/ OnQ(l) => \A k \in P!Held(c) : Shared(k)
                 /\ OnP(l) => \A k \in P!Held(c) : Shared(k) \/ OnQ(k)
<1>1. PICK p : p = P!Plan(P!Ask(c))
  OBVIOUS
<1>2. PICK n \in 1 .. Len(p) : l = p[n] /\ P!Held(c) = {p[i] : i \in 1 .. n - 1} /\ AskFits(P!Ask(c))
  BY <1>1, WantsNext
<1>3. InOrder(p, n) /\ (P!Ask(c).op \in Orderly => OrderlyAt(p, n))
  BY <1>1, <1>2, PlanOrder
<1>4. OnRow(l) /\ l.mode = "X" => P!Held(c) = {}
  <2>. SUFFICES ASSUME OnRow(l), l.mode = "X" PROVE P!Held(c) = {}
    OBVIOUS
  <2>1. n = 1
    BY <1>2, <1>3 DEF InOrder
  <2>. QED  BY <1>2, <2>1
<1>5. \A k \in P!Held(c) : \E i \in 1 .. n - 1 : k = p[i]
  BY <1>2
<1>. QED  BY <1>2, <1>3, <1>4, <1>5 DEF InOrder, OrderlyAt

\* Who holds a session waits for nothing more.
LEMMA SessionIsLast ==
    ASSUME Counted, NEW c \in Calls, NEW k \in P!Held(c), OnSession(k)
    PROVE  P!Wants(c) = {}
<1>. SUFFICES ASSUME NEW l \in P!Wants(c) PROVE FALSE
  OBVIOUS
<1>1. PICK p : p = P!Plan(P!Ask(c))
  OBVIOUS
<1>2. PICK n \in 1 .. Len(p) : l = p[n] /\ P!Held(c) = {p[i] : i \in 1 .. n - 1} /\ AskFits(P!Ask(c))
  BY <1>1, WantsNext
<1>3. Len(p) \in Nat
  BY <1>1, <1>2, PlanIsSeq
<1>4. PICK i \in 1 .. n - 1 : k = p[i]
  BY <1>2
<1>5. i \in 1 .. Len(p) /\ i < Len(p)
  BY <1>2, <1>3, <1>4
<1>6. InOrder(p, i)
  BY <1>1, <1>2, <1>5, PlanOrder
<1>. QED  BY <1>3, <1>4, <1>5, <1>6 DEF InOrder

LEMMA Unwound ==
    ASSUME PInv, NEW c \in Calls, NEW x \in Calls, NEW y \in Calls, P!Ask(c).op \in Orderly,
           P!WaitsFor(c, x), P!WaitsFor(x, y), P!WaitsFor(y, c)
    PROVE  FALSE
<1>1. Counted
  BY DEF PInv
<1>2. PICK l \in P!Wants(c), m \in P!Held(x) : P!Conflict(l, m)
  BY DEF P!WaitsFor
<1>3. PICK lx \in P!Wants(x), my \in P!Held(y) : P!Conflict(lx, my)
  BY DEF P!WaitsFor
<1>4. PICK ly \in P!Wants(y), mc \in P!Held(c) : P!Conflict(ly, mc)
  BY DEF P!WaitsFor
<1>5. ~Shared(mc)
  <2>. SUFFICES ASSUME Shared(mc) PROVE FALSE
    OBVIOUS
  <2>1. OnRow(ly) /\ ly.mode = "X"
    BY <1>4 DEF P!Conflict, Shared, OnRow
  <2>. QED  BY <1>1, <1>3, <2>1, WantsInOrder
<1>6. OnP(l) \/ OnSession(l)
  BY <1>1, <1>5, WantsInOrder
<1>7. ~OnSession(l)
  <2>. SUFFICES ASSUME OnSession(l) PROVE FALSE
    OBVIOUS
  <2>1. OnSession(m)
    BY <1>2 DEF P!Conflict, OnSession
  <2>. QED  BY <1>1, <1>3, <2>1, SessionIsLast
<1>8. OnP(l) /\ OnP(m) /\ OnQ(mc) /\ OnQ(ly)
  BY <1>1, <1>2, <1>4, <1>5, <1>6, <1>7, WantsInOrder DEF P!Conflict, OnP, OnQ
<1>9. OnRow(my)
  BY <1>1, <1>8, WantsInOrder
<1>10. OnRow(lx)
  BY <1>3, <1>9 DEF P!Conflict, OnRow
<1>. QED  BY <1>1, <1>8, <1>10, WantsInOrder

LEMMA Unpaired ==
    ASSUME PInv, NEW c \in Calls, NEW x \in Calls, P!Ask(c).op \in Orderly, P!WaitsFor(c, x), P!WaitsFor(x, c)
    PROVE  FALSE
<1>1. Counted
  BY DEF PInv
<1>2. PICK l \in P!Wants(c), m \in P!Held(x) : P!Conflict(l, m)
  BY DEF P!WaitsFor
<1>3. PICK lx \in P!Wants(x), mc \in P!Held(c) : P!Conflict(lx, mc)
  BY DEF P!WaitsFor
<1>4. ~Shared(mc)
  <2>. SUFFICES ASSUME Shared(mc) PROVE FALSE
    OBVIOUS
  <2>1. OnRow(lx) /\ lx.mode = "X"
    BY <1>3 DEF P!Conflict, Shared, OnRow
  <2>. QED  BY <1>1, <1>2, <2>1, WantsInOrder
<1>5. OnP(l) \/ OnSession(l)
  BY <1>1, <1>4, WantsInOrder
<1>6. ~OnSession(l)
  <2>. SUFFICES ASSUME OnSession(l) PROVE FALSE
    OBVIOUS
  <2>1. OnSession(m)
    BY <1>2 DEF P!Conflict, OnSession
  <2>. QED  BY <1>1, <1>3, <2>1, SessionIsLast
<1>7. OnP(l) /\ OnP(m) /\ OnQ(mc) /\ OnQ(lx)
  BY <1>1, <1>2, <1>3, <1>4, <1>5, <1>6, WantsInOrder DEF P!Conflict, OnP, OnQ
<1>8. OnRow(m)
  BY <1>1, <1>7, WantsInOrder
<1>. QED  BY <1>7, <1>8 DEF OnP, OnRow

LEMMA NobodyInCircles == PInv => P!NoCircle
<1>. SUFFICES ASSUME PInv, NEW c \in Calls, NEW x \in Calls, NEW y \in Calls,
                     P!InTransaction(c), P!Ask(c).op \in P!Recorded \cup {"download", "join"},
                     P!WaitsFor(c, x), P!WaitsFor(x, c) \/ (P!WaitsFor(x, y) /\ P!WaitsFor(y, c))
              PROVE  FALSE
  BY DEF P!NoCircle
<1>1. P!Ask(c).op \in Orderly
  BY DEF Orderly
<1>2. CASE P!WaitsFor(x, c)
  BY <1>1, <1>2, Unpaired
<1>3. CASE P!WaitsFor(x, y) /\ P!WaitsFor(y, c)
  BY <1>1, <1>3, Unwound
<1>. QED  BY <1>2, <1>3

HIDE DEF P!Lock, P!Row, P!SessionRow, P!Boundary, P!ProjectLock

-----------------------------------------------------------------------------
(* The three together.                                                      *)

PartInv == IInv /\ GInv /\ PInv

LEMMA PartStarts ==
    ASSUME GSensible, InitPart
    PROVE  PartInv
<1>1. Init /\ I!Init /\ P!Init
  BY DEF InitPart, PublicationsRest, InvitationsRest, ConnectionsRest
<1>. QED  BY <1>1, Initially, GStarts, PStarts DEF PartInv

\* A step is one of each component, or leaves it alone.
LEMMA PartSteps ==
    ASSUME [NextPart]_<<part, pVars, iVars, vars>>
    PROVE  [Next]_vars /\ [I!Next]_(I!vars) /\ [P!Next]_(P!vars)
<1>1. UNCHANGED pVars => UNCHANGED P!vars
  BY DEF pVars, P!vars
<1>2. UNCHANGED iVars => UNCHANGED I!vars
  BY DEF iVars, I!vars
<1>3. \/ Next /\ UNCHANGED <<pVars, iVars>>
      \/ I!Next /\ UNCHANGED <<pVars, vars>>
      \/ P!Next /\ UNCHANGED <<iVars, vars>>
      \/ UNCHANGED <<pVars, iVars, vars>>
  BY DEF NextPart
<1>. QED  BY <1>1, <1>2, <1>3

LEMMA PartKeeps ==
    ASSUME GSensible, PartInv, [NextPart]_<<part, pVars, iVars, vars>>
    PROVE  PartInv'
<1>1. [Next]_vars /\ [I!Next]_(I!vars) /\ [P!Next]_(P!vars)
  BY PartSteps
<1>2. IInv'
  BY <1>1, Inductive DEF PartInv
<1>3. GInv'
  BY <1>1, GKept DEF PartInv
<1>4. PInv'
  BY <1>1, PKept DEF PartInv
<1>. QED  BY <1>2, <1>3, <1>4 DEF PartInv

LEMMA PartInvariant ==
    ASSUME GSensible
    PROVE  SpecPart => []PartInv
<1>1. InitPart => PartInv
  BY PartStarts
<1>2. PartInv /\ [NextPart]_<<part, pVars, iVars, vars>> => PartInv'
  BY PartKeeps
<1>. QED  BY <1>1, <1>2, PTL DEF SpecPart

\* Type correctness of the three components.
THEOREM OutsideTyped ==
    ASSUME GSensible
    PROVE  SpecPart => []AllTypeOK
<1>1. PartInv => AllTypeOK
  BY PTypeOK, GTypeOK, NothingTwice DEF PartInv, AllTypeOK
<1>. QED  BY <1>1, PartInvariant, PTL

\* However requests, deletions, suspensions and changes of members overlap: what is published is
\* there, a grant stands on an active participation, a participant is an active user from outside
\* the tenant, and requests on publications never wait in a circle (the locks of
\* PublicationAccessContext.transaction and of the triggers).
THEOREM SharingStaysBacked ==
    ASSUME GSensible
    PROVE  SpecPart => []SharingIsBacked
<1>1. PartInv => SharingIsBacked
  BY NobodyInCircles DEF PartInv, PInv, Backed, SharingIsBacked
<1>. QED  BY <1>1, PartInvariant, PTL

\* A download address is issued only to somebody entitled at that moment
\* (PublicationDownloadService._issue, which signs while it holds the locks).
THEOREM AddressesFollowEntitlement ==
    ASSUME GSensible
    PROVE  SpecPart => AddressFollowsEntitlement
<1>1. PartInv /\ [NextPart]_<<part, pVars, iVars, vars>> => [\A g \in pUrl' \ pUrl : P!Entitled(g)]_(P!vars)
  <2>. SUFFICES ASSUME PartInv, [NextPart]_<<part, pVars, iVars, vars>>
                PROVE  [\A g \in pUrl' \ pUrl : P!Entitled(g)]_(P!vars)
    OBVIOUS
  <2>1. [P!Next]_(P!vars)
    BY PartSteps
  <2>. QED  BY <2>1, AddressIsEntitled DEF PartInv
<1>2. [][\A g \in pUrl' \ pUrl : P!Entitled(g)]_(P!vars) => P!AddressFollowsEntitlement
  BY PTL DEF P!AddressFollowsEntitlement
<1>. QED  BY <1>1, <1>2, PartInvariant, PTL DEF SpecPart, AddressFollowsEntitlement

\* An invitation shown as sent was mailed since its token was last renewed, one address takes part
\* once, and an answer comes with a proof of the token that is valid.
THEOREM InvitationsStayTrue ==
    ASSUME GSensible
    PROVE  SpecPart => InvitationsAreTrue
<1>1. PartInv => I!SentWasMailed /\ I!OneParticipation
  BY TakesPartOnce DEF PartInv, GInv
<1>2. PartInv /\ [NextPart]_<<part, pVars, iVars, vars>> => [AnswerStep]_(I!vars)
  <2>. SUFFICES ASSUME PartInv, [NextPart]_<<part, pVars, iVars, vars>>
                PROVE  [AnswerStep]_(I!vars)
    OBVIOUS
  <2>1. [I!Next]_(I!vars)
    BY PartSteps
  <2>. QED  BY <2>1, AnswersWithProof DEF PartInv
<1>3. [][AnswerStep]_(I!vars) => I!AnswerHasCurrentProof
  BY PTL DEF AnswerStep, I!AnswerHasCurrentProof
<1>. QED  BY <1>1, <1>2, <1>3, PartInvariant, PTL DEF SpecPart, InvitationsAreTrue

\* However many clients present a code or a refresh token, it is exchanged once, although it is looked
\* up before anything is locked; however often a tool repeats a call, it takes effect once; and a plan
\* is applied to the version it was previewed for (McpAuthService.token, McpOperationsService.write).
THEOREM ToolsActOnceEach ==
    ASSUME GSensible
    PROVE  SpecPart => ToolsActOnce
<1>1. PartInv => ExchangedOnce /\ OneEffectPerKey
  BY NothingTwice DEF PartInv
<1>2. PartInv /\ [NextPart]_<<part, pVars, iVars, vars>> =>
        [task'.plan # None /\ task' # task => receipt[task'.plan].seen = task.version]_vars
  <2>. SUFFICES ASSUME PartInv, [NextPart]_<<part, pVars, iVars, vars>>
                PROVE  [task'.plan # None /\ task' # task => receipt[task'.plan].seen = task.version]_vars
    OBVIOUS
  <2>1. [Next]_vars
    BY PartSteps
  <2>. QED  BY <2>1, AppliesWhatStands DEF PartInv
<1>. QED
  BY <1>1, <1>2, PartInvariant, PTL DEF SpecPart, ToolsActOnce, AppliedAsPreviewed
=============================================================================
