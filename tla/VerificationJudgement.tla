------------------------- MODULE VerificationJudgement -------------------------
(* How a requirement is judged: a plan with its checklist, test runs that   *)
(* speak for it, a request that fixes this ground and names a judge, his    *)
(* review of the preserved files one by one, and his decision, which may be *)
(* withdrawn and asked for again.                                           *)
(*                                                                          *)
(* A transaction locks what it compares, so it is one step, but for the     *)
(* decision: it is weighed under the locks ("weighing") and then committed. *)
(* Reading a file happens outside, under a lease that the claim before took *)
(* and the step after must still have.  A stale form is refused and changes *)
(* nothing, so a form is not a step of its own.  review_version grows with  *)
(* every change of the lease; comparing the lease stands for comparing it.  *)
EXTENDS Naturals, Sequences, FiniteSets, TLC

CONSTANTS Calls, Requests, Files, Sessions,
          None,
          Concerns,                 \* sets of events: what a behaviour is made of
          MaxVersion, MaxRuns       \* bounds: versions of each source; test runs

VARIABLES kinds,       \* what happens in a behaviour besides requests and reviews
          plan,        \* version and whether its coverage is confirmed; version 0: none
          source,      \* the test case: its version
          runs,        \* the test runs: status and version of the case
          objection,   \* a failed manual confirmation was preserved
          judge,       \* version of the judge's memberships
          file,        \* the preserved files that can be read
          request, calls
vars == <<kinds, plan, source, runs, objection, judge, file, request, calls>>
ground == <<kinds, plan, source, runs, judge>>

-----------------------------------------------------------------------------
Statuses == {"passed", "failed", "not_applicable"}
Versions == 1..MaxVersion
Basis == [plan : Versions, covered : BOOLEAN, source : Versions, runs : Nat, judge : Versions, objection : BOOLEAN]
Review == [session : Sessions \cup {None}, live : BOOLEAN,
           seen : SUBSET (Files \X Sessions)]            \* verified, and (not kept by the code) in which session
Row == [status : {"absent", "requested", "decided", "cancelled", "withdrawn"}, previous : Requests \cup {None},
        reviewed : Requests \cup {None}, basis : Basis, review : Review, lease : Calls \cup {None},
        over : BOOLEAN, result : Statuses \cup {None}, by : Sessions \cup {None}]
NoReview == [session |-> None, live |-> FALSE, seen |-> {}]

Made == {r \in Requests : request[r].status # "absent"}
Terminal == {r \in Made : \A x \in Made : request[x].previous # r}
Last == runs[Len(runs)]
Observed == Len(runs)                                     \* observe: the latest run of the case
Eligible(result) ==                                       \* readiness
    /\ plan.covered /\ Observed > 0 /\ Last.source = source /\ Last.status = result /\ ~objection
Now == [plan |-> plan.version, covered |-> plan.covered, source |-> source, runs |-> Observed,
        judge |-> judge, objection |-> objection]
Qualified(r) == request[r].basis.judge = judge            \* judge
SameGround(r) == /\ request[r].basis.plan = plan.version  \* compare_many: checklist, sources, runs
                 /\ request[r].basis.source = source /\ request[r].basis.runs = Observed
LeaseFree(r) == request[r].lease = None \/ request[r].over
Set(r, row) == request' = [request EXCEPT ![r] = row]

(* Transactions that decide hold the rows they compare until they commit.   *)
Weighing == {c \in Calls : calls[c].at = "weighing"}
GroundFreeUnlocked == TRUE    \* mutation: the sources are compared without locks
GroundFree == Weighing = {}
RowFree(r) == \A c \in Weighing : calls[c].on # r
Goto(c, stage) == calls' = [calls EXCEPT ![c].at = stage]
Idle(c) == calls' = [calls EXCEPT ![c] = [at |-> "idle"]]

-----------------------------------------------------------------------------
(* The plan and what it rests on.                                           *)
SavePlan ==                  \* created with an empty checklist, then revised
    /\ "plan" \in kinds
    /\ GroundFree /\ plan.version < MaxVersion
    /\ \E covered \in BOOLEAN :
         /\ plan.version = 0 => ~covered
         /\ plan' = [version |-> plan.version + 1, covered |-> covered]
    /\ UNCHANGED <<kinds, source, runs, objection, judge, file, request, calls>>
EditCase ==
    /\ "case" \in kinds
    /\ GroundFree /\ source < MaxVersion /\ source' = source + 1
    /\ UNCHANGED <<kinds, plan, runs, objection, judge, file, request, calls>>
RunTest ==
    /\ "run" \in kinds
    /\ GroundFree /\ Len(runs) < MaxRuns
    /\ \E status \in Statuses : runs' = Append(runs, [status |-> status, source |-> source])
    /\ UNCHANGED <<kinds, plan, source, objection, judge, file, request, calls>>
Requalify ==                 \* a role or a membership of the judge changed
    /\ "requalify" \in kinds
    /\ GroundFree /\ judge < MaxVersion /\ judge' = judge + 1
    /\ UNCHANGED <<kinds, plan, source, runs, objection, file, request, calls>>
Object ==                    \* preserved without a lock that a decision holds
    /\ "object" \in kinds
    /\ ~objection /\ objection' = TRUE
    /\ UNCHANGED <<ground, file, request, calls>>
LoseFile ==
    /\ "lose" \in kinds
    /\ \E f \in file : file' = file \ {f}
    /\ UNCHANGED <<ground, objection, request, calls>>

-----------------------------------------------------------------------------
(* Requests.                                                                *)
Follows(p) ==
    IF Made = {} THEN p = None
    ELSE Cardinality(Terminal) = 1 /\ p \in Terminal /\ request[p].status # "requested"
ReviewedDecision(p) == IF p = None THEN None ELSE IF request[p].result # None THEN p ELSE request[p].reviewed
Create ==
    /\ plan.version > 0
    /\ \E r \in Requests \ Made, p \in Made \cup {None} :
         /\ Follows(p)
         /\ p # None => RowFree(p)
         /\ Set(r, [status |-> "requested", previous |-> p, reviewed |-> ReviewedDecision(p), basis |-> Now,
                    review |-> NoReview, lease |-> None, over |-> FALSE, result |-> None, by |-> None])
    /\ UNCHANGED <<ground, objection, file, calls>>
StartReview ==               \* the review of this session, or a new one
    /\ \E r \in Made, s \in Sessions :
         LET row == request[r]
         IN /\ row.status = "requested" /\ Qualified(r) /\ LeaseFree(r) /\ RowFree(r)
            /\ ~(row.review.session = s /\ row.review.live)
            /\ Set(r, [row EXCEPT !.review = [session |-> s, live |-> TRUE, seen |-> {}],
                                  !.lease = None, !.over = FALSE])
    /\ UNCHANGED <<ground, objection, file, calls>>
Lapse ==                     \* fifteen minutes, or ninety seconds
    /\ "lapse" \in kinds
    /\ \E r \in Made :
         \/ request[r].review.live /\ Set(r, [request[r] EXCEPT !.review.live = FALSE])
         \/ request[r].lease # None /\ ~request[r].over /\ Set(r, [request[r] EXCEPT !.over = TRUE])
    /\ UNCHANGED <<ground, objection, file, calls>>

ReviewValid(r, s) == request[r].status = "requested" /\ request[r].review.live /\ request[r].review.session = s
Checked(r) == {x[1] : x \in request[r].review.seen}
Claim(c) ==                  \* for one file, or for the decision when no file remains
    /\ calls[c].at = "idle"
    /\ \E r \in Made, s \in Sessions, result \in Statuses \cup {None} :
         /\ Qualified(r) /\ ReviewValid(r, s) /\ LeaseFree(r) /\ RowFree(r)
         /\ result # "failed"
         /\ (result = None) <=> (Checked(r) # Files)
         /\ \E f \in IF result = None THEN Files \ Checked(r) ELSE {None} :
              calls' = [calls EXCEPT ![c] = [at |-> "reading", on |-> r, session |-> s, result |-> result, file |-> f]]
         /\ Set(r, [request[r] EXCEPT !.lease = c, !.over = FALSE])
    /\ UNCHANGED <<ground, objection, file>>
Inspect(c) ==                \* outside any transaction
    /\ calls[c].at = "reading"
    /\ LET wanted == IF calls[c].result = None THEN {calls[c].file} ELSE Files
       IN \E ok \in {wanted \subseteq file, FALSE} : calls' = [calls EXCEPT ![c] =
            [at |-> "read", on |-> calls[c].on, session |-> calls[c].session, result |-> calls[c].result,
             file |-> calls[c].file, ok |-> ok]]
    /\ UNCHANGED <<ground, objection, file, request>>
StillClaimed(c) ==           \* _finish_claim
    LET r == calls[c].on
    IN Qualified(r) /\ ReviewValid(r, calls[c].session) /\ request[r].lease = c /\ ~request[r].over /\ RowFree(r)
Free(row) == [row EXCEPT !.lease = None, !.over = FALSE]
FinishFile(c) ==
    /\ calls[c].at = "read" /\ calls[c].result = None
    /\ StillClaimed(c) /\ SameGround(calls[c].on)
    /\ LET r == calls[c].on
           found == IF calls[c].ok THEN {<<calls[c].file, calls[c].session>>} ELSE {}
       IN Set(r, [Free(request[r]) EXCEPT !.review.seen = @ \cup found])
    /\ Idle(c)
    /\ UNCHANGED <<ground, objection, file>>
Unreadable(c) ==             \* a file of the decision is gone: all must be seen again
    /\ calls[c].at = "read" /\ calls[c].result # None /\ ~calls[c].ok
    /\ StillClaimed(c)
    /\ LET r == calls[c].on IN Set(r, [Free(request[r]) EXCEPT !.review.seen = {}])
    /\ Idle(c)
    /\ UNCHANGED <<ground, objection, file>>
GiveUp(c) ==                 \* refused: the lease is given back if the judge still may, and it is his
    /\ calls[c].at = "read"
    /\ LET r == calls[c].on
       IN /\ RowFree(r)
          /\ IF Qualified(r) /\ request[r].status = "requested" /\ request[r].lease = c
             THEN Set(r, Free(request[r])) ELSE UNCHANGED request
    /\ Idle(c)
    /\ UNCHANGED <<ground, objection, file>>
Lost(c) ==                   \* the process died; a lease stays until it is over
    /\ calls[c].at # "idle"
    /\ Idle(c)
    /\ UNCHANGED <<ground, objection, file, request>>

-----------------------------------------------------------------------------
(* Decisions.  A favourable one needs the ground it was asked for; that the *)
(* requirement has changed he may acknowledge, so it is left out.           *)
MayPass(r, result) ==
    /\ request[r].basis.covered /\ ~request[r].basis.objection /\ SameGround(r) /\ ~objection
    /\ Eligible(result)
Weigh(c) ==
    /\ calls[c].at = "read" /\ calls[c].result # None /\ calls[c].ok
    /\ StillClaimed(c) /\ MayPass(calls[c].on, calls[c].result)
    /\ Goto(c, "weighing")
    /\ UNCHANGED <<ground, objection, file, request>>
WeighFailed(c) ==            \* needs no file and no lease
    /\ "failed" \in kinds
    /\ calls[c].at = "idle"
    /\ \E r \in Made, s \in Sessions :
         /\ Qualified(r) /\ ReviewValid(r, s) /\ LeaseFree(r) /\ RowFree(r)
         /\ calls' = [calls EXCEPT ![c] = [at |-> "weighing", on |-> r, session |-> s, result |-> "failed"]]
    /\ UNCHANGED <<ground, objection, file, request>>
Decide(c) ==
    /\ calls[c].at = "weighing"
    /\ LET r == calls[c].on
       IN Set(r, [Free(request[r]) EXCEPT !.status = "decided", !.result = calls[c].result, !.by = calls[c].session])
    /\ Idle(c)
    /\ UNCHANGED <<ground, objection, file>>
Cancel ==
    /\ "cancel" \in kinds
    /\ \E r \in Made : /\ request[r].status = "requested" /\ RowFree(r)
                       /\ Set(r, [Free(request[r]) EXCEPT !.status = "cancelled"])
    /\ UNCHANGED <<ground, objection, file, calls>>
Withdraw ==
    /\ "withdraw" \in kinds
    /\ \E r \in Made : /\ request[r].status = "decided" /\ Qualified(r) /\ RowFree(r)
                       /\ Set(r, [Free(request[r]) EXCEPT !.status = "withdrawn"])
    /\ UNCHANGED <<ground, objection, file, calls>>

Init ==
    /\ kinds \in Concerns
    /\ plan \in {[version |-> 0, covered |-> FALSE], [version |-> 1, covered |-> TRUE]} /\ source = 1 /\ judge = 1
    /\ runs \in {<<>>, <<[status |-> "passed", source |-> 1]>>}
    /\ objection = FALSE /\ file = Files
    /\ request = [r \in Requests |-> [status |-> "absent"]]
    /\ calls = [c \in Calls |-> [at |-> "idle"]]
Changing == SavePlan \/ EditCase \/ RunTest \/ Requalify \/ Object \/ LoseFile
Reviewing(c) == Claim(c) \/ Inspect(c) \/ FinishFile(c) \/ Unreadable(c) \/ GiveUp(c) \/ Lost(c)
Deciding(c) == Weigh(c) \/ WeighFailed(c) \/ Decide(c)
Next == Changing \/ Create \/ StartReview \/ Lapse \/ Cancel \/ Withdraw \/ \E c \in Calls : Reviewing(c) \/ Deciding(c)
Spec == Init /\ [][Next]_vars

-----------------------------------------------------------------------------
(* Every row has its type.                                                  *)
TypeOK == \A r \in Made : request[r] \in Row

(* The requests for a requirement form one line, and only its last may be   *)
(* open, whoever asks again at the same time.                               *)
OneLineOfRequests ==
    /\ Cardinality(Terminal) <= 1
    /\ \A r \in Made : request[r].status = "requested" => r \in Terminal

(* Whoever decides in favour has, in the session he decides in, seen every  *)
(* file that speaks for it.                                                 *)
SeenInThisSession == \A r \in Made :
    request[r].status = "decided" /\ request[r].result # "failed" =>
        \A f \in Files : <<f, request[r].by>> \in request[r].review.seen

(* A favourable decision is committed while the checklist, the case and its *)
(* runs are those of the request, the last run says so, and the judge has   *)
(* the memberships he was chosen with.                                      *)
PassesOnItsGround == [][\A r \in Made :
    request[r].status = "requested" /\ request'[r].status = "decided" =>
        /\ Qualified(r)
        /\ request'[r].result # "failed" =>
             /\ SameGround(r) /\ Last.source = source /\ Last.status = request'[r].result /\ plan.covered]_vars
=============================================================================
