--------------------------- MODULE TeamWork_proofs ---------------------------
(* The tasks and the test designs of a project, and the members of a tenant *)
(* and its projects: their inductive invariants, and what the steps promise.*)
EXTENDS MCTeamWork, FiniteSetTheorems, TLAPS

-----------------------------------------------------------------------------
(* Tasks.  A form that holds a task's lock still has the version it saw,    *)
(* and the phase or type it takes is open, until it commits.                *)
\* What a request may ask for.
SetFits(s) ==
    /\ DOMAIN s \subseteq {"status", "progress", "phase", "type", "code", "parent", "assignee"}
    /\ "status" \in DOMAIN s => s.status \in T!Statuses
    /\ "progress" \in DOMAIN s => s.progress \in {50, 100}
    /\ "phase" \in DOMAIN s => s.phase \in BOOLEAN
    /\ "type" \in DOMAIN s => s.type \in {"bug", "other", "custom"}
    /\ "code" \in DOMAIN s => s.code \in Nat
    /\ "parent" \in DOMAIN s => s.parent \in Tasks \cup {NoOne}
    /\ "assignee" \in DOMAIN s => s.assignee \in Users \cup {NoOne}
Forms == {"update", "plan"}
TaskOps == {"update", "plan", "create", "move", "delete", "relate", "unrelate", "link", "unlink"}
PairOps == {"depend", "redepend", "undepend"}
CommentOps == {"comment", "recomment", "uncomment", "resolve", "reopen"}
PlainOps == {"add", "edit", "remove"}
TAskFits(d) ==
    /\ d.op \in TaskOps \cup PairOps \cup CommentOps \cup PlainOps \cup {"phase", "type"}
    /\ d.op \in TaskOps => d.task \in Tasks
    /\ d.op \in Forms => SetFits(d.set)
    /\ d.op = "plan" => DOMAIN d.set = {"assignee"}
    /\ d.op = "create" => d.parent \in Tasks \cup {NoOne} /\ d.phase \in BOOLEAN /\ d.assignee \in Users \cup {NoOne}
    /\ d.op = "move" => d.status \in T!Statuses
    /\ d.op \in PairOps => d.pair \in T!Pairs
    /\ d.op \in CommentOps => d.comment \in Comments
    /\ d.op \in {"comment", "recomment"} => d.mentions \in SUBSET Users
    /\ d.op = "phase" => d.archived \in BOOLEAN
    /\ d.op = "type" => d.active \in BOOLEAN
    /\ d.op \in PlainOps => d.row \in T!PlainRows

\* What it has read.  A move that would return its task has become a form.
SeenFits(d, s) ==
    /\ d.op \in TaskOps \ {"create"} => s \in T!Task
    /\ d.op = "move" /\ d.status = "returned" => s.status = "returned"
    /\ d.op \in PairOps \cup {"create"} => s \in Nat
    /\ d.op \in CommentOps => s \in T!Comment
    /\ d.op = "phase" => s \in T!Phase
    /\ d.op = "type" => s \in T!CustomType
    /\ d.op \in PlainOps => s \in T!PlainRow

\* What a call carries: a form that was checked has its row as it was seen, and what it takes is open.
TUnder(c) == tCalls[c].at \in {"read", "checked", "made", "saved"}
Checked(c) ==
    LET d == tCalls[c].ask
    IN /\ d.op \in Forms
       /\ tTask[d.task].version = tCalls[c].seen.version
       /\ T!TakesPhase(d) => ~tPhase.archived \/ tTask[d.task].phase
       /\ T!TakesType(d) => tKind.active \/ tTask[d.task].type = "custom"
TCallFits(c) ==
    TUnder(c) =>
        /\ tCalls[c] = [at |-> tCalls[c].at, ask |-> tCalls[c].ask, seen |-> tCalls[c].seen, tries |-> tCalls[c].tries]
        /\ TAskFits(tCalls[c].ask) /\ SeenFits(tCalls[c].ask, tCalls[c].seen)
        /\ tCalls[c].ask.op \in TaskOps \ {"create"} => tTask[tCalls[c].ask.task].state # "absent"
        /\ tCalls[c].at = "checked" => Checked(c)
        /\ T!At(c, "read", "create") /\ T!TakesPhase(tCalls[c].ask) => ~tPhase.archived
        /\ tCalls[c].at = "made" => tCalls[c].ask.op = "create"
TCallsFit == tCalls = [c \in Calls |-> tCalls[c]] /\ \A c \in Calls : TCallFits(c)

\* One form is saved to a row at a time.
TApart == \A c, x \in Calls :
    c # x /\ tCalls[c].at = "checked" /\ tCalls[x].at = "checked" => tCalls[c].ask.task # tCalls[x].ask.task

\* Any of the numbers given have a greatest one.
Numbered == \A S \in SUBSET T!Numbers : S # {} => \E n \in S : \A m \in S : m <= n

TInv == T!TypeOK /\ Numbered /\ TCallsFit /\ TApart

(* What a request asks for, and what it carries.                            *)
LEMMA OneFieldFits ==
    ASSUME NEW s \in T!OneField
    PROVE  SetFits(s)
<1>1. CASE s \in {[status |-> "done", progress |-> 100], [status |-> "done"], [status |-> "returned"],
                  [status |-> "todo", progress |-> 50]}
  BY <1>1 DEF SetFits, T!Statuses
<1>2. CASE s = [phase |-> TRUE]
  BY <1>2 DEF SetFits
<1>5. CASE s = [code |-> 1]
  BY <1>5 DEF SetFits
<1>6. CASE s = [type |-> "custom"] \/ s = [type |-> "bug"]
  <2>1. PICK y \in {"bug", "custom"} : s = [type |-> y]
    BY <1>6
  <2>. QED  BY <2>1 DEF SetFits
<1>3. CASE s \in {[parent |-> p] : p \in Tasks \cup {NoOne}}
  BY <1>3 DEF SetFits
<1>4. CASE s \in {[assignee |-> u] : u \in Users}
  BY <1>4 DEF SetFits
<1>. QED  BY <1>1, <1>2, <1>3, <1>4, <1>5, <1>6 DEF T!OneField

LEMMA ReturnedFits == SetFits([status |-> "returned"])
BY DEF SetFits, T!Statuses

LEMMA FormAsked ==
    ASSUME NEW d \in T!TaskUpdate \cup T!TaskPlanningUpdate
    PROVE  TAskFits(d) /\ d.op \in Forms
<1>1. CASE d \in T!TaskUpdate
  <2>1. PICK t \in Tasks, s \in T!OneField \cup {[status |-> "returned"]}, b \in BOOLEAN :
          d = [op |-> "update", task |-> t, set |-> s, reason |-> b]
    <3>1. CASE \E t \in Tasks, s \in T!OneField : d = [op |-> "update", task |-> t, set |-> s, reason |-> TRUE]
      BY <3>1
    <3>2. CASE \E t \in Tasks : d = [op |-> "update", task |-> t, set |-> [status |-> "returned"], reason |-> FALSE]
      <4>1. PICK s : s = [status |-> "returned"]
        OBVIOUS
      <4>. QED  BY <3>2, <4>1
    <3>. QED  BY <1>1, <3>1, <3>2 DEF T!TaskUpdate
  <2>2. SetFits(s)
    BY OneFieldFits, ReturnedFits
  <2>. QED  BY <2>1, <2>2 DEF TAskFits, Forms, TaskOps, PairOps, CommentOps, PlainOps
<1>2. CASE d \in T!TaskPlanningUpdate
  <2>1. PICK t \in Tasks, u \in Users : d = [op |-> "plan", task |-> t, set |-> [assignee |-> u], reason |-> TRUE]
    BY <1>2 DEF T!TaskPlanningUpdate
  <2>2. SetFits(d.set) /\ DOMAIN d.set = {"assignee"}
    BY <2>1 DEF SetFits
  <2>. QED  BY <2>1, <2>2 DEF TAskFits, Forms, TaskOps, PairOps, CommentOps, PlainOps
<1>. QED  BY <1>1, <1>2

LEMMA CreationAsked ==
    ASSUME NEW d \in T!TaskCreate
    PROVE  TAskFits(d) /\ d.op = "create" /\ d.code \in Nat
<1>1. PICK t \in Tasks :
        d \in {T!NewTask(t), [T!NewTask(t) EXCEPT !.code = 1], [T!NewTask(t) EXCEPT !.parent = t1],
               [T!NewTask(t) EXCEPT !.phase = TRUE], [T!NewTask(t) EXCEPT !.requirement = TRUE]}
              \cup {[T!NewTask(t) EXCEPT !.assignee = u] : u \in Users}
  BY DEF T!TaskCreate
<1>2. PICK q : q = T!NewTask(t)
  OBVIOUS
<1>3. q \in [op : {"create"}, task : {t}, code : {0}, parent : {NoOne}, phase : {FALSE}, requirement : {FALSE}, assignee : {NoOne}]
  BY <1>2 DEF T!NewTask
<1>7. /\ d.op = "create" /\ d.task = t /\ d.code \in {0, 1} /\ d.parent \in {NoOne, t1}
      /\ d.phase \in BOOLEAN /\ d.assignee \in Users \cup {NoOne}
  <2>1. CASE d \in {[T!NewTask(t) EXCEPT !.assignee = u] : u \in Users}
    <3>1. PICK u \in Users : d = [q EXCEPT !.assignee = u]
      BY <1>2, <2>1
    <3>. QED  BY <1>3, <3>1
  <2>2. CASE d = T!NewTask(t)
    BY <1>2, <1>3, <2>2
  <2>3. CASE d = [T!NewTask(t) EXCEPT !.code = 1]
    BY <1>2, <1>3, <2>3
  <2>4. CASE d = [T!NewTask(t) EXCEPT !.parent = t1]
    BY <1>2, <1>3, <2>4
  <2>5. CASE d = [T!NewTask(t) EXCEPT !.phase = TRUE]
    BY <1>2, <1>3, <2>5
  <2>6. CASE d = [T!NewTask(t) EXCEPT !.requirement = TRUE]
    BY <1>2, <1>3, <2>6
  <2>. QED  BY <1>1, <2>1, <2>2, <2>3, <2>4, <2>5, <2>6
<1>. QED  BY <1>7, TasksAssumption DEF TAskFits, Forms, TaskOps, PairOps, CommentOps, PlainOps

LEMMA TAsked ==
    ASSUME NEW d \in T!Requests
    PROVE  TAskFits(d) /\ (d.op = "create" => d.code \in Nat)
<1>1. CASE d \in T!TaskUpdate \cup T!TaskPlanningUpdate
  BY <1>1, FormAsked DEF Forms
<1>2. CASE d \in T!TaskCreate
  BY <1>2, CreationAsked
<1>3. CASE d \in T!TaskMoveRequest \cup [op : {"delete", "relate", "unrelate", "link", "unlink"}, task : Tasks]
  BY <1>3 DEF T!TaskMoveRequest, TAskFits, Forms, TaskOps, PairOps, CommentOps, PlainOps
<1>4. CASE d \in T!TaskDependencyCreate
  BY <1>4 DEF T!TaskDependencyCreate, TAskFits, Forms, TaskOps, PairOps, CommentOps, PlainOps
<1>5. CASE d \in T!CommentRequests
  BY <1>5 DEF T!CommentRequests, TAskFits, Forms, TaskOps, PairOps, CommentOps, PlainOps
<1>6. CASE d \in T!PhaseUpdate \cup T!TaskTypeUpdate
  BY <1>6 DEF T!PhaseUpdate, T!TaskTypeUpdate, TAskFits, Forms, TaskOps, PairOps, CommentOps, PlainOps
<1>7. CASE d \in T!PlainRequests
  BY <1>7 DEF T!PlainRequests, TAskFits, Forms, TaskOps, PairOps, CommentOps, PlainOps
<1>. QED  BY <1>1, <1>2, <1>3, <1>4, <1>5, <1>6, <1>7 DEF T!Requests

LEMMA TCallShape ==
    ASSUME TCallsFit, NEW c \in Calls
    PROVE  TCallFits(c)
BY DEF TCallsFit

LEMMA TaskShape ==
    ASSUME T!TypeOK, NEW t \in Tasks
    PROVE  tTask[t] \in T!Task /\ tTask[t].version \in Nat /\ tTask[t].code \in Nat
BY DEF T!TypeOK, T!Task

\* One call moves, and everybody else carries what he carried.
TMoves(c) == tCalls' = [tCalls EXCEPT ![c] = tCalls'[c]]
TEnds(c) == tCalls' = [tCalls EXCEPT ![c] = [at |-> "done"]]
ShutPhase == tPhase' = tPhase \/ T!PhaseFree
ShutType == tKind' = tKind \/ T!TypeFree
TasksStay == \A t \in Tasks : tTask[t].state # "absent" => tTask'[t].state # "absent"
FormsStay(c) == \A x \in Calls \ {c} :
    tCalls[x].at = "checked" => tTask'[tCalls[x].ask.task] = tTask[tCalls[x].ask.task]

LEMMA TOthers ==
    ASSUME TCallsFit, NEW c \in Calls, TMoves(c), NEW x \in Calls, x # c
    PROVE  tCalls'[x] = tCalls[x]
BY DEF TCallsFit, TMoves

LEMMA TEndsIsMove ==
    ASSUME TCallsFit, NEW c \in Calls, TEnds(c)
    PROVE  TMoves(c) /\ tCalls'[c].at = "done" /\ TCallFits(c)'
<1>1. tCalls'[c] = [at |-> "done"]
  BY DEF TCallsFit, TEnds
<1>2. TMoves(c)
  BY <1>1 DEF TCallsFit, TEnds, TMoves
<1>3. TCallFits(c)'
  BY <1>1 DEF TCallFits, TUnder
<1>. QED  BY <1>1, <1>2, <1>3

LEMMA CheckedStays ==
    ASSUME NEW x \in Calls, tCalls'[x] = tCalls[x], tCalls[x].at = "checked", Checked(x), ShutPhase, ShutType,
           tTask'[tCalls[x].ask.task] = tTask[tCalls[x].ask.task]
    PROVE  Checked(x)'
<1>. PICK d : d = tCalls[x].ask
  OBVIOUS
<1>1. tCalls'[x].ask = d /\ tCalls'[x].seen = tCalls[x].seen /\ tTask'[d.task] = tTask[d.task]
  OBVIOUS
<1>2. T!TakesPhase(d) => tPhase' = tPhase
  BY DEF ShutPhase, T!PhaseFree
<1>3. T!TakesType(d) => tKind' = tKind
  BY DEF ShutType, T!TypeFree
<1>4. (T!TakesPhase(d)' <=> T!TakesPhase(d)) /\ (T!TakesType(d)' <=> T!TakesType(d))
  BY DEF T!TakesPhase, T!TakesType
<1>. QED  BY <1>1, <1>2, <1>3, <1>4 DEF Checked

LEMMA TOtherFits ==
    ASSUME TCallsFit, NEW c \in Calls, TMoves(c), NEW x \in Calls, x # c,
           ShutPhase, ShutType, TasksStay, FormsStay(c)
    PROVE  TCallFits(x)'
<1>1. tCalls'[x] = tCalls[x] /\ TCallFits(x)
  BY TOthers, TCallShape
<1>. SUFFICES ASSUME TUnder(x) PROVE TCallFits(x)'
  BY <1>1 DEF TCallFits, TUnder
<1>2. TAskFits(tCalls[x].ask) /\ SeenFits(tCalls[x].ask, tCalls[x].seen)
  BY <1>1 DEF TCallFits
<1>3. tCalls[x].ask.op \in TaskOps \ {"create"} => tTask'[tCalls[x].ask.task].state # "absent"
  BY <1>1, <1>2 DEF TCallFits, TAskFits, TasksStay
<1>4. tCalls[x].at = "checked" => Checked(x)'
  BY <1>1, CheckedStays DEF TCallFits, FormsStay
<1>5. T!At(x, "read", "create") /\ T!TakesPhase(tCalls[x].ask) => ~tPhase'.archived
  BY <1>1 DEF TCallFits, ShutPhase, T!PhaseFree
<1>6. (T!At(x, "read", "create")' <=> T!At(x, "read", "create")) /\ (T!TakesPhase(tCalls[x].ask)' <=> T!TakesPhase(tCalls[x].ask))
  BY <1>1 DEF T!At, T!TakesPhase
<1>7. tCalls[x] = [at |-> tCalls[x].at, ask |-> tCalls[x].ask, seen |-> tCalls[x].seen, tries |-> tCalls[x].tries]
      /\ (tCalls[x].at = "made" => tCalls[x].ask.op = "create")
  BY <1>1 DEF TCallFits
<1>. QED  BY <1>1, <1>2, <1>3, <1>4, <1>5, <1>6, <1>7 DEF TCallFits

LEMMA TCallsStay ==
    ASSUME TCallsFit, NEW c \in Calls, TMoves(c), TCallFits(c)', ShutPhase, ShutType, TasksStay, FormsStay(c)
    PROVE  TCallsFit'
<1>1. tCalls' = [x \in Calls |-> tCalls'[x]]
  BY DEF TCallsFit, TMoves
<1>2. \A x \in Calls : x # c => TCallFits(x)'
  BY TOtherFits
<1>. QED  BY <1>1, <1>2 DEF TCallsFit

LEMMA TApartStays ==
    ASSUME TCallsFit, TApart, NEW c \in Calls, TMoves(c), tCalls'[c].at # "checked"
    PROVE  TApart'
<1>1. \A x \in Calls \ {c} : tCalls'[x] = tCalls[x]
  BY TOthers
<1>. QED  BY <1>1 DEF TApart

-----------------------------------------------------------------------------

(* Steps that leave tasks, phases and types alone.                          *)
LEMMA Quiet ==
    ASSUME TInv, T!TypeOK', NEW c \in Calls, TMoves(c), TCallFits(c)', tCalls'[c].at # "checked",
           UNCHANGED <<tTask, tPhase, tKind>>
    PROVE  TInv'
<1>1. ShutPhase /\ ShutType /\ TasksStay /\ FormsStay(c)
  BY DEF ShutPhase, ShutType, TasksStay, FormsStay
<1>2. TCallsFit' /\ TApart'
  BY <1>1, TCallsStay, TApartStays DEF TInv
<1>3. Numbered'
  BY DEF TInv, Numbered, T!Numbers
<1>. QED  BY <1>2, <1>3 DEF TInv

LEMMA TEndsQuietly ==
    ASSUME TInv, T!TypeOK', NEW c \in Calls, TEnds(c), UNCHANGED <<tTask, tPhase, tKind>>
    PROVE  TInv'
BY TEndsIsMove, Quiet DEF TInv

LEMMA TTypesRest ==
    ASSUME T!TypeOK, UNCHANGED <<tTask, tDep, tRelated, tPhase, tKind, tComment, tPlain>>
    PROVE  T!TypeOK'
BY DEF T!TypeOK

\* The history is left for another transaction.
Saves(c) == tCalls' = [tCalls EXCEPT ![c].at = "saved"]
LEMMA SavesFit ==
    ASSUME TCallsFit, NEW c \in Calls, TUnder(c), Saves(c), TasksStay
    PROVE  TMoves(c) /\ TCallFits(c)' /\ tCalls'[c].at = "saved"
<1>1. TCallFits(c)
  BY TCallShape
<1>2. tCalls'[c] = [at |-> "saved", ask |-> tCalls[c].ask, seen |-> tCalls[c].seen, tries |-> tCalls[c].tries]
  BY <1>1 DEF TCallsFit, TCallFits, Saves
<1>3. TMoves(c)
  BY <1>2 DEF TMoves, TCallsFit, Saves
<1>4. tCalls[c].ask.op \in TaskOps \ {"create"} => tTask'[tCalls[c].ask.task].state # "absent"
  BY <1>1 DEF TCallFits, TAskFits, TasksStay
<1>5. TCallFits(c)'
  BY <1>1, <1>2, <1>4 DEF TCallFits, TUnder, T!At
<1>. QED  BY <1>2, <1>3, <1>5

LEMMA SavesQuietly ==
    ASSUME TInv, T!TypeOK', NEW c \in Calls, TUnder(c), Saves(c), UNCHANGED <<tTask, tPhase, tKind>>
    PROVE  TInv'
<1>1. TasksStay
  BY DEF TasksStay
<1>. QED  BY <1>1, SavesFit, Quiet DEF TInv

LEMMA Reads ==
    ASSUME TInv, NEW c \in Calls, NEW d, NEW s, T!Reading(c, d, s), TAskFits(d), SeenFits(d, s),
           d.op \in TaskOps \ {"create"} => tTask[d.task].state # "absent",
           d.op = "create" /\ T!TakesPhase(d) => ~tPhase.archived,
           UNCHANGED T!rows
    PROVE  TInv'
<1>1. tCalls'[c] = [at |-> "read", ask |-> d, seen |-> s, tries |-> 1]
  BY DEF T!Reading, TInv, TCallsFit
<1>2. TMoves(c)
  BY <1>1 DEF TMoves, TInv, TCallsFit, T!Reading
<1>3. tTask' = tTask /\ tPhase' = tPhase /\ tKind' = tKind /\ T!TypeOK'
  BY TTypesRest DEF T!rows, TInv
<1>4. T!TakesPhase(d)' <=> T!TakesPhase(d)
  BY DEF T!TakesPhase
<1>5. TCallFits(c)'
  BY <1>1, <1>3, <1>4 DEF TCallFits, TUnder, T!At
<1>. QED  BY <1>1, <1>2, <1>3, <1>5, Quiet

LEMMA TReadsTask ==
    ASSUME TInv, NEW c \in Calls, T!ReadTask(c), UNCHANGED T!rows
    PROVE  TInv'
<1>1. PICK d \in T!Requests : /\ d.op \in {"update", "plan", "delete", "relate", "unrelate", "link", "unlink"}
                            /\ T!Live(d.task) /\ T!Reading(c, d, tTask[d.task])
  BY DEF T!ReadTask
<1>2. TAskFits(d)
  BY TAsked
<1>3. d.task \in Tasks
  BY <1>1, <1>2 DEF TAskFits, TaskOps
<1>4. tTask[d.task] \in T!Task /\ tTask[d.task].state # "absent"
  BY <1>1, <1>3, TaskShape DEF TInv, T!Live
<1>5. SeenFits(d, tTask[d.task])
  BY <1>1, <1>4 DEF SeenFits, TaskOps, PairOps, CommentOps, PlainOps
<1>6. d.op # "create"
  BY <1>1
<1>. QED  BY <1>1, <1>2, <1>4, <1>5, <1>6, Reads

LEMMA TReadsMove ==
    ASSUME TInv, NEW c \in Calls, T!ReadMove(c), UNCHANGED T!rows
    PROVE  TInv'
<1>1. PICK d \in T!Requests :
        /\ d.op = "move" /\ T!Live(d.task)
        /\ IF T!MoveReturns(d)
           THEN T!Reading(c, [op |-> "update", task |-> d.task, set |-> [status |-> "returned"], reason |-> d.reason],
                        tTask[d.task])
           ELSE T!Reading(c, d, tTask[d.task])
  BY DEF T!ReadMove
<1>2. TAskFits(d)
  BY TAsked
<1>3. d.task \in Tasks
  BY <1>1, <1>2 DEF TAskFits, TaskOps
<1>4. tTask[d.task] \in T!Task /\ tTask[d.task].state # "absent"
  BY <1>1, <1>3, TaskShape DEF TInv, T!Live
<1>5. CASE T!MoveReturns(d)
  <2>1. PICK e : e = [op |-> "update", task |-> d.task, set |-> [status |-> "returned"], reason |-> d.reason]
    OBVIOUS
  <2>2. e.op = "update" /\ e.task = d.task /\ SetFits(e.set)
    BY <2>1, ReturnedFits
  <2>3. TAskFits(e) /\ SeenFits(e, tTask[d.task])
    BY <1>3, <1>4, <2>2 DEF TAskFits, SeenFits, Forms, TaskOps, PairOps, CommentOps, PlainOps
  <2>4. T!Reading(c, e, tTask[d.task])
    BY <1>1, <1>5, <2>1
  <2>. QED  BY <1>4, <2>2, <2>3, <2>4, Reads
<1>6. CASE ~T!MoveReturns(d)
  <2>1. d.status = "returned" => tTask[d.task].status = "returned"
    BY <1>6 DEF T!MoveReturns
  <2>2. SeenFits(d, tTask[d.task])
    BY <1>1, <1>4, <2>1 DEF SeenFits, TaskOps, PairOps, CommentOps, PlainOps
  <2>. QED  BY <1>1, <1>2, <1>4, <1>6, <2>2, Reads
<1>. QED  BY <1>5, <1>6

LEMMA NextNumber ==
    ASSUME T!TypeOK, Numbered
    PROVE  T!MaxAutoNumber + 1 \in Nat
<1>3. 0 \in T!Numbers
  BY DEF T!Numbers
<1>4. \E n \in T!Numbers : \A m \in T!Numbers : m <= n
  BY <1>3 DEF Numbered
<1>1. T!MaxAutoNumber \in T!Numbers
  BY <1>4 DEF T!MaxAutoNumber
<1>2. T!Numbers \subseteq Nat
  BY TaskShape DEF T!Numbers
<1>. QED  BY <1>1, <1>2

LEMMA TReadsCreate ==
    ASSUME TInv, NEW c \in Calls, T!ReadCreate(c), UNCHANGED T!rows
    PROVE  TInv'
<1>1. PICK d \in T!Requests : /\ d.op = "create" /\ (T!TakesPhase(d) => ~tPhase.archived)
                            /\ T!Reading(c, d, IF d.code = 0 THEN T!MaxAutoNumber + 1 ELSE d.code)
  BY DEF T!ReadCreate
<1>2. TAskFits(d) /\ d.code \in Nat
  BY <1>1, TAsked
<1>3. PICK n : n = IF d.code = 0 THEN T!MaxAutoNumber + 1 ELSE d.code
  OBVIOUS
<1>4. n \in Nat /\ T!Reading(c, d, n)
  BY <1>1, <1>2, <1>3, NextNumber DEF TInv
<1>5. SeenFits(d, n)
  BY <1>1, <1>4 DEF SeenFits, TaskOps, PairOps, CommentOps, PlainOps
<1>. QED  BY <1>1, <1>2, <1>4, <1>5, Reads

LEMMA TReadsOther ==
    ASSUME TInv, NEW c \in Calls, T!ReadDependency(c) \/ T!ReadComment(c) \/ T!ReadSetting(c) \/ T!ReadPlain(c), UNCHANGED T!rows
    PROVE  TInv'
<1>1. CASE T!ReadDependency(c)
  <2>1. PICK d \in T!Requests : d.op \in PairOps /\ T!Reading(c, d, tDep[d.pair])
    BY <1>1 DEF T!ReadDependency, PairOps
  <2>2. TAskFits(d) /\ d.op \notin TaskOps
    BY <2>1, TAsked DEF PairOps, TaskOps
  <2>3. d.pair \in T!Pairs
    BY <2>1, <2>2 DEF TAskFits
  <2>4. tDep[d.pair] \in Nat
    BY <2>3 DEF TInv, T!TypeOK
  <2>5. SeenFits(d, tDep[d.pair])
    BY <2>1, <2>4 DEF SeenFits, TaskOps, PairOps, CommentOps, PlainOps
  <2>. QED  BY <2>1, <2>2, <2>5, Reads DEF TaskOps
<1>2. CASE T!ReadComment(c)
  <2>1. PICK d \in T!Requests : d.op \in CommentOps /\ T!Reading(c, d, tComment[d.comment])
    BY <1>2 DEF T!ReadComment, CommentOps
  <2>2. TAskFits(d) /\ d.op \notin TaskOps
    BY <2>1, TAsked DEF CommentOps, TaskOps
  <2>3. d.comment \in Comments
    BY <2>1, <2>2 DEF TAskFits
  <2>4. tComment[d.comment] \in T!Comment
    BY <2>3 DEF TInv, T!TypeOK
  <2>5. SeenFits(d, tComment[d.comment])
    BY <2>1, <2>4 DEF SeenFits, TaskOps, PairOps, CommentOps, PlainOps
  <2>. QED  BY <2>1, <2>2, <2>5, Reads DEF TaskOps
<1>3. CASE T!ReadSetting(c)
  <2>1. PICK d \in T!Requests : d.op \in {"phase", "type"} /\ T!Reading(c, d, IF d.op = "phase" THEN tPhase ELSE tKind)
    BY <1>3 DEF T!ReadSetting
  <2>2. TAskFits(d) /\ d.op \notin TaskOps
    BY <2>1, TAsked DEF TaskOps
  <2>3. PICK s : s = IF d.op = "phase" THEN tPhase ELSE tKind
    OBVIOUS
  <2>4. (d.op = "phase" => s \in T!Phase) /\ (d.op = "type" => s \in T!CustomType)
    BY <2>3 DEF TInv, T!TypeOK
  <2>5. SeenFits(d, s) /\ T!Reading(c, d, s)
    BY <2>1, <2>3, <2>4 DEF SeenFits, TaskOps, PairOps, CommentOps, PlainOps
  <2>. QED  BY <2>2, <2>5, Reads DEF TaskOps
<1>4. CASE T!ReadPlain(c)
  <2>1. PICK d \in T!Requests : d.op \in PlainOps /\ T!Reading(c, d, tPlain[d.row])
    BY <1>4 DEF T!ReadPlain, PlainOps
  <2>2. TAskFits(d) /\ d.op \notin TaskOps
    BY <2>1, TAsked DEF PlainOps, TaskOps
  <2>3. d.row \in T!PlainRows
    BY <2>1, <2>2 DEF TAskFits
  <2>4. tPlain[d.row] \in T!PlainRow
    BY <2>3 DEF TInv, T!TypeOK
  <2>5. SeenFits(d, tPlain[d.row])
    BY <2>1, <2>4 DEF SeenFits, TaskOps, PairOps, CommentOps, PlainOps
  <2>. QED  BY <2>1, <2>2, <2>5, Reads DEF TaskOps
<1>. QED  BY <1>1, <1>2, <1>3, <1>4

LEMMA TArrives ==
    ASSUME TInv, NEW c \in Calls, T!Arrive(c)
    PROVE  TInv'
<1>1. UNCHANGED T!rows
  BY DEF T!Arrive, T!rows
<1>. QED  BY <1>1, TReadsTask, TReadsMove, TReadsCreate, TReadsOther DEF T!Arrive

-----------------------------------------------------------------------------

(* Histories, relations, dependencies.                                      *)
LEMMA TRests ==
    ASSUME TInv, NEW c \in Calls, T!Log(c) \/ T!Refuse(c) \/ T!LinkIssue(c) \/ T!UnlinkIssue(c)
    PROVE  TInv'
<1>1. TEnds(c) /\ UNCHANGED <<tTask, tDep, tRelated, tPhase, tKind, tComment, tPlain>>
  BY DEF T!Log, T!Refuse, T!LinkIssue, T!UnlinkIssue, T!Done, TEnds, T!rows
<1>. QED  BY <1>1, TTypesRest, TEndsQuietly DEF TInv

LEMMA TRelates ==
    ASSUME TInv, NEW c \in Calls, T!Relate(c) \/ T!Unrelate(c)
    PROVE  TInv'
<1>. PICK t : t = tCalls[c].ask.task
  OBVIOUS
<1>1. /\ TUnder(c) /\ tCalls[c].ask.op \in {"create", "relate", "unrelate"}
      /\ tRelated' \in {tRelated, tRelated \cup {t}, tRelated \ {t}} /\ (TEnds(c) \/ Saves(c))
      /\ UNCHANGED <<tTask, tDep, tPhase, tKind, tComment, tPlain>>
  <2>1. CASE T!Relate(c)
    <3>1. tCalls[c].at = "made" => tCalls[c].ask.op = "create"
      BY TCallShape DEF TInv, TCallFits, TUnder
    <3>. QED  BY <2>1, <3>1 DEF T!Relate, T!At, TUnder, T!Done, T!Goto, TEnds, Saves
  <2>2. CASE T!Unrelate(c)
    BY <2>2 DEF T!Unrelate, T!At, TUnder, T!Done, T!Goto, TEnds, Saves
  <2>. QED  BY <2>1, <2>2
<1>2. t \in Tasks
  BY <1>1, TCallShape DEF TInv, TCallFits, TAskFits, TaskOps
<1>3. T!TypeOK'
  BY <1>1, <1>2 DEF TInv, T!TypeOK
<1>. QED  BY <1>1, <1>3, TEndsQuietly, SavesQuietly

LEMMA TDepends ==
    ASSUME TInv, NEW c \in Calls, T!TaskDependencies(c)
    PROVE  TInv'
<1>. PICK p, s : p = tCalls[c].ask.pair /\ s = tCalls[c].seen
  OBVIOUS
<1>1. /\ TUnder(c) /\ tCalls[c].ask.op \in PairOps
      /\ \/ tDep' = tDep
         \/ tDep' = [tDep EXCEPT ![p] = 1] \/ tDep' = [tDep EXCEPT ![p] = 0] \/ tDep' = [tDep EXCEPT ![p] = s + 1]
      /\ (TEnds(c) \/ Saves(c))
      /\ UNCHANGED <<tTask, tRelated, tPhase, tKind, tComment, tPlain>>
  BY DEF T!TaskDependencies, T!CreateDependency, T!UpdateDependency, T!DeleteDependency, T!At, TUnder, T!Done, T!Goto, TEnds, Saves, PairOps
<1>2. p \in T!Pairs /\ s \in Nat
  BY <1>1, TCallShape DEF TInv, TCallFits, TAskFits, SeenFits
<1>3. s + 1 \in Nat
  BY <1>2
<1>4. tDep' \in [T!Pairs -> Nat]
  BY <1>1, <1>2, <1>3 DEF TInv, T!TypeOK
<1>5. T!TypeOK'
  BY <1>1, <1>4 DEF TInv, T!TypeOK
<1>. QED  BY <1>1, <1>5, TEndsQuietly, SavesQuietly

\* Comments.
LEMMA CommentCarried ==
    ASSUME TInv, NEW c \in Calls, tCalls[c].at = "read", tCalls[c].ask.op \in CommentOps
    PROVE  /\ TUnder(c) /\ tCalls[c].ask.comment \in Comments /\ tCalls[c].seen \in T!Comment
           /\ tComment[tCalls[c].ask.comment] \in T!Comment
           /\ tCalls[c].ask.op \in {"comment", "recomment"} => tCalls[c].ask.mentions \in SUBSET Users
BY TCallShape DEF TInv, TCallFits, TAskFits, SeenFits, TUnder, T!TypeOK

LEMMA CommentWritten ==
    ASSUME T!TypeOK, NEW k \in Comments, NEW r \in T!Comment, tComment' = [tComment EXCEPT ![k] = r],
           UNCHANGED <<tTask, tDep, tRelated, tPhase, tKind, tPlain>>
    PROVE  T!TypeOK'
BY DEF T!TypeOK

LEMMA TCreatesComment ==
    ASSUME TInv, NEW c \in Calls, T!CreateComment(c)
    PROVE  TInv'
<1>. PICK k, n : k = tCalls[c].ask.comment
                 /\ n = [state |-> "live", resolved |-> FALSE, mentions |-> tCalls[c].ask.mentions, version |-> 1]
  OBVIOUS
<1>1. /\ tCalls[c].at = "read" /\ tCalls[c].ask.op = "comment" /\ TEnds(c)
      /\ tComment' = tComment \/ tComment' = [tComment EXCEPT ![k] = n]
      /\ UNCHANGED <<tTask, tDep, tRelated, tPhase, tKind, tPlain>>
  BY DEF T!CreateComment, T!At, T!Done, TEnds
<1>2. k \in Comments /\ n \in T!Comment
  BY <1>1, CommentCarried DEF CommentOps, T!Comment
<1>. QED  BY <1>1, <1>2, CommentWritten, TTypesRest, TEndsQuietly DEF TInv

LEMMA Recommented ==
    ASSUME NEW r \in T!Comment, NEW m \in SUBSET Users
    PROVE  [r EXCEPT !.mentions = m, !.version = @ + 1] \in T!Comment
<1>1. PICK w : w = [r EXCEPT !.mentions = m]
  OBVIOUS
<1>2. w = [state |-> r.state, resolved |-> r.resolved, mentions |-> m, version |-> r.version]
  BY <1>1 DEF T!Comment
<1>3. [w EXCEPT !.version = @ + 1] = [state |-> r.state, resolved |-> r.resolved, mentions |-> m, version |-> r.version + 1]
  BY <1>2
<1>4. [r EXCEPT !.mentions = m, !.version = @ + 1] = [w EXCEPT !.version = @ + 1]
  BY <1>1
<1>. QED  BY <1>3, <1>4 DEF T!Comment

LEMMA TUpdatesComment ==
    ASSUME TInv, NEW c \in Calls, T!UpdateComment(c)
    PROVE  TInv'
<1>. PICK k, m : k = tCalls[c].ask.comment /\ m = tCalls[c].ask.mentions
  OBVIOUS
<1>1. /\ tCalls[c].at = "read" /\ tCalls[c].ask.op = "recomment" /\ TEnds(c)
      /\ tComment' = tComment \/ tComment' = [tComment EXCEPT ![k] = [tComment[k] EXCEPT !.mentions = m, !.version = @ + 1]]
      /\ UNCHANGED <<tTask, tDep, tRelated, tPhase, tKind, tPlain>>
  BY DEF T!UpdateComment, T!At, T!Done, TEnds
<1>2. k \in Comments /\ m \in SUBSET Users /\ tComment[k] \in T!Comment
  BY <1>1, CommentCarried DEF CommentOps
<1>3. PICK n : n = [tComment[k] EXCEPT !.mentions = m, !.version = @ + 1]
  OBVIOUS
<1>4. n \in T!Comment
  <2>1. PICK r : r = tComment[k]
    OBVIOUS
  <2>2. n = [r EXCEPT !.mentions = m, !.version = @ + 1]
    BY <1>3, <2>1
  <2>. QED  BY <1>2, <2>1, <2>2, Recommented
<1>. QED  BY <1>1, <1>2, <1>3, <1>4, CommentWritten, TTypesRest, TEndsQuietly DEF TInv

LEMMA WithdrawnFits ==
    ASSUME NEW r \in T!Comment, NEW s \in T!Comment
    PROVE  T!Withdrawn(r, s) \in T!Comment
<1>1. PICK w : w = [r EXCEPT !.state = "deleted"]
  OBVIOUS
<1>2. w = [state |-> "deleted", resolved |-> r.resolved, mentions |-> r.mentions, version |-> r.version]
  BY <1>1 DEF T!Comment
<1>3. PICK v : v = [w EXCEPT !.version = s.version + 1]
  OBVIOUS
<1>4. v = [state |-> "deleted", resolved |-> r.resolved, mentions |-> r.mentions, version |-> s.version + 1]
  BY <1>2, <1>3
<1>5. T!Withdrawn(r, s) = [v EXCEPT !.mentions = r.mentions \ s.mentions]
  BY <1>1, <1>3 DEF T!Withdrawn
<1>6. T!Withdrawn(r, s) = [state |-> "deleted", resolved |-> r.resolved, mentions |-> r.mentions \ s.mentions, version |-> s.version + 1]
  BY <1>4, <1>5
<1>. QED  BY <1>6 DEF T!Comment

LEMMA TDeletesComment ==
    ASSUME TInv, NEW c \in Calls, T!DeleteComment(c)
    PROVE  TInv'
<1>. PICK k, s : k = tCalls[c].ask.comment /\ s = tCalls[c].seen
  OBVIOUS
<1>1. /\ tCalls[c].at = "read" /\ tCalls[c].ask.op = "uncomment" /\ Saves(c)
      /\ tComment' = [tComment EXCEPT ![k] = T!Withdrawn(tComment[k], s)]
      /\ UNCHANGED <<tTask, tDep, tRelated, tPhase, tKind, tPlain>>
  BY DEF T!DeleteComment, T!At, T!Goto, Saves
<1>2. k \in Comments /\ s \in T!Comment /\ tComment[k] \in T!Comment /\ TUnder(c)
  BY <1>1, CommentCarried DEF CommentOps
<1>3. T!Withdrawn(tComment[k], s) \in T!Comment
  BY <1>2, WithdrawnFits
<1>. QED  BY <1>1, <1>2, <1>3, CommentWritten, SavesQuietly DEF TInv

LEMMA FlushedComment ==
    ASSUME NEW r \in T!Comment, NEW s \in T!Comment, NEW n \in T!Comment
    PROVE  T!Flushed(r, s, n) \in T!Comment
<1>1. DOMAIN r = {"state", "resolved", "mentions", "version"}
  BY DEF T!Comment
<1>2. PICK a, b, m, v : /\ a = (IF n.state # s.state THEN n.state ELSE r.state)
                        /\ b = (IF n.resolved # s.resolved THEN n.resolved ELSE r.resolved)
                        /\ m = (IF n.mentions # s.mentions THEN n.mentions ELSE r.mentions)
                        /\ v = (IF n.version # s.version THEN n.version ELSE r.version)
  OBVIOUS
<1>3. T!Flushed(r, s, n) = [state |-> a, resolved |-> b, mentions |-> m, version |-> v]
  BY <1>1, <1>2 DEF T!Flushed
<1>4. a \in {"absent", "live", "deleted"} /\ b \in BOOLEAN /\ m \in SUBSET Users /\ v \in Nat
  BY <1>2 DEF T!Comment
<1>. QED  BY <1>3, <1>4 DEF T!Comment

LEMMA TResolves ==
    ASSUME TInv, NEW c \in Calls, T!SetResolved(c)
    PROVE  TInv'
<1>. PICK k, s, b : k = tCalls[c].ask.comment /\ s = tCalls[c].seen /\ b = (tCalls[c].ask.op = "resolve")
  OBVIOUS
<1>. PICK n : n = [s EXCEPT !.resolved = b, !.version = @ + 1]
  OBVIOUS
<1>1. /\ tCalls[c].at = "read" /\ tCalls[c].ask.op \in {"resolve", "reopen"} /\ Saves(c)
      /\ tComment' = [tComment EXCEPT ![k] = T!Flushed(tComment[k], s, n)]
      /\ UNCHANGED <<tTask, tDep, tRelated, tPhase, tKind, tPlain>>
  BY DEF T!SetResolved, T!At, T!Goto, Saves
<1>2. k \in Comments /\ s \in T!Comment /\ tComment[k] \in T!Comment /\ TUnder(c)
  BY <1>1, CommentCarried DEF CommentOps
<1>3. n \in T!Comment
  <2>1. PICK w : w = [s EXCEPT !.resolved = b]
    OBVIOUS
  <2>2. w = [state |-> s.state, resolved |-> b, mentions |-> s.mentions, version |-> s.version]
    BY <1>2, <2>1 DEF T!Comment
  <2>3. n = [w EXCEPT !.version = @ + 1]
    BY <2>1
  <2>4. n = [state |-> s.state, resolved |-> b, mentions |-> s.mentions, version |-> s.version + 1]
    BY <2>2, <2>3
  <2>5. b \in BOOLEAN
    <3>1. tCalls[c].ask.op = "resolve" => b = TRUE
      OBVIOUS
    <3>2. tCalls[c].ask.op # "resolve" => b = FALSE
      OBVIOUS
    <3>. QED  BY <3>1, <3>2
  <2>6. s.state \in {"absent", "live", "deleted"} /\ s.mentions \in SUBSET Users /\ s.version + 1 \in Nat
    BY <1>2 DEF T!Comment
  <2>7. PICK e \in BOOLEAN : e = b
    BY <2>5
  <2>8. n = [state |-> s.state, resolved |-> e, mentions |-> s.mentions, version |-> s.version + 1]
    BY <2>4, <2>7
  <2>. QED  BY <2>6, <2>8 DEF T!Comment
<1>4. T!Flushed(tComment[k], s, n) \in T!Comment
  BY <1>2, <1>3, FlushedComment
<1>. QED  BY <1>1, <1>2, <1>4, CommentWritten, SavesQuietly DEF TInv

LEMMA TComments ==
    ASSUME TInv, NEW c \in Calls, T!TaskComments(c)
    PROVE  TInv'
BY TCreatesComment, TUpdatesComment, TDeletesComment, TResolves DEF T!TaskComments

\* Boards, columns and milestones.
LEMMA PlainSaved ==
    ASSUME TInv, NEW c \in Calls, NEW x, NEW op \in PlainOps, NEW n, T!WritePlain(c, x, op, n),
           n \in T!PlainRow
    PROVE  TInv'
<1>. PICK s : s = tCalls[c].seen
  OBVIOUS
<1>1. /\ tCalls[c].at = "read" /\ tCalls[c].ask.op = op /\ tCalls[c].ask.row = x /\ Saves(c)
      /\ tPlain' = [tPlain EXCEPT ![x] = T!Flushed(tPlain[x], s, n)]
      /\ UNCHANGED <<tTask, tDep, tRelated, tPhase, tKind, tComment>>
  BY DEF T!WritePlain, T!At, T!Goto, Saves
<1>2. x \in T!PlainRows /\ s \in T!PlainRow /\ tPlain[x] \in T!PlainRow /\ TUnder(c)
  BY <1>1, TCallShape DEF TInv, TCallFits, TAskFits, SeenFits, TUnder, T!TypeOK
<1>3. T!Flushed(tPlain[x], s, n) \in T!PlainRow
  <2>1. PICK r : r = tPlain[x]
    OBVIOUS
  <2>2. PICK a, v : a = (IF n.state # s.state THEN n.state ELSE r.state) /\ v = (IF n.version # s.version THEN n.version ELSE r.version)
    OBVIOUS
  <2>3. DOMAIN r = {"state", "version"}
    BY <1>2, <2>1 DEF T!PlainRow
  <2>4. T!Flushed(r, s, n) = [state |-> a, version |-> v]
    BY <2>2, <2>3 DEF T!Flushed
  <2>5. a \in {"absent", "live", "deleted"} /\ v \in Nat
    BY <1>2, <2>1, <2>2 DEF T!PlainRow
  <2>. QED  BY <2>1, <2>4, <2>5 DEF T!PlainRow
<1>4. T!TypeOK'
  BY <1>1, <1>2, <1>3 DEF TInv, T!TypeOK
<1>. QED  BY <1>1, <1>2, <1>4, SavesQuietly

LEMMA PlainFits ==
    ASSUME TInv, NEW c \in Calls, tCalls[c].at = "read", tCalls[c].ask.op \in PlainOps
    PROVE  T!Added(c) \in T!PlainRow /\ T!Edited(c) \in T!PlainRow /\ T!Removed(c) \in T!PlainRow
<1>1. PICK s : s = tCalls[c].seen
  OBVIOUS
<1>5. s \in T!PlainRow
  BY <1>1, TCallShape DEF TInv, TCallFits, SeenFits, TUnder
<1>2. s.version \in Nat /\ s.version + 1 \in Nat
  BY <1>5 DEF T!PlainRow
<1>3. [s EXCEPT !.version = @ + 1] = [state |-> s.state, version |-> s.version + 1]
  BY <1>5 DEF T!PlainRow
<1>. QED  BY <1>1, <1>2, <1>3, <1>5 DEF T!Added, T!Edited, T!Removed, T!PlainRow

LEMMA TPlain ==
    ASSUME TInv, NEW c \in Calls,
           \/ T!CreateBoard(c) \/ T!UpdateBoard(c) \/ T!DeleteBoard(c)
           \/ T!CreateBoardColumn(c) \/ T!UpdateBoardColumn(c) \/ T!DeleteBoardColumn(c)
           \/ T!CreateMilestone(c) \/ T!UpdateMilestone(c) \/ T!DeleteMilestone(c)
    PROVE  TInv'
<1>1. PICK x \in T!PlainRows :
        T!WritePlain(c, x, "add", T!Added(c)) \/ T!WritePlain(c, x, "edit", T!Edited(c)) \/ T!WritePlain(c, x, "remove", T!Removed(c))
  BY DEF T!CreateBoard, T!UpdateBoard, T!DeleteBoard, T!CreateBoardColumn, T!UpdateBoardColumn, T!DeleteBoardColumn,
         T!CreateMilestone, T!UpdateMilestone, T!DeleteMilestone, T!PlainRows
<1>2. tCalls[c].at = "read" /\ tCalls[c].ask.op \in PlainOps
  BY <1>1 DEF T!WritePlain, T!At, PlainOps
<1>3. "add" \in PlainOps /\ "edit" \in PlainOps /\ "remove" \in PlainOps
  BY DEF PlainOps
<1>. QED  BY <1>1, <1>2, <1>3, PlainFits, PlainSaved

\* A phase is archived, or a type hidden, only while nobody takes it.
LEMMA TSettings ==
    ASSUME TInv, NEW c \in Calls, T!SavePhase(c) \/ T!SaveType(c)
    PROVE  TInv'
<1>1. /\ tCalls[c].at = "read" /\ TEnds(c) /\ UNCHANGED <<tTask, tDep, tRelated, tComment, tPlain>>
      /\ ShutPhase /\ ShutType
  BY DEF T!SavePhase, T!SaveType, T!At, T!Done, TEnds, ShutPhase, ShutType
<1>2. TCallFits(c) /\ TAskFits(tCalls[c].ask)
  BY <1>1, TCallShape DEF TInv, TCallFits, TUnder
<1>3. tPhase' \in T!Phase /\ tKind' \in T!CustomType
  <2>1. CASE T!SavePhase(c)
    <3>1. tCalls[c].ask.archived \in BOOLEAN
      BY <1>2, <2>1 DEF TAskFits, T!SavePhase, T!At
    <3>2. tPhase.version + 1 \in Nat /\ tPhase \in T!Phase /\ tKind \in T!CustomType
      BY DEF TInv, T!TypeOK, T!Phase
    <3>. QED  BY <2>1, <3>1, <3>2 DEF T!SavePhase, T!Phase
  <2>2. CASE T!SaveType(c)
    <3>1. tCalls[c].ask.active \in BOOLEAN
      BY <1>2, <2>2 DEF TAskFits, T!SaveType, T!At
    <3>2. tKind.version + 1 \in Nat /\ tPhase \in T!Phase /\ tKind \in T!CustomType
      BY DEF TInv, T!TypeOK, T!CustomType
    <3>. QED  BY <2>2, <3>1, <3>2 DEF T!SaveType, T!CustomType
  <2>. QED  BY <2>1, <2>2
<1>4. T!TypeOK'
  BY <1>1, <1>3 DEF TInv, T!TypeOK
<1>5. TasksStay /\ FormsStay(c)
  BY <1>1 DEF TasksStay, FormsStay
<1>6. TMoves(c) /\ tCalls'[c].at = "done" /\ TCallFits(c)'
  BY <1>1, TEndsIsMove DEF TInv
<1>7. TCallsFit' /\ TApart'
  BY <1>1, <1>5, <1>6, TCallsStay, TApartStays DEF TInv
<1>8. Numbered'
  <2>1. T!Numbers' = T!Numbers
    BY <1>1 DEF T!Numbers
  <2>. QED  BY <2>1 DEF TInv, Numbered
<1>. QED  BY <1>4, <1>7, <1>8 DEF TInv

-----------------------------------------------------------------------------

(* Steps that write a task.                                                 *)
LEMMA NumbersStay ==
    ASSUME T!TypeOK, Numbered, NEW t \in Tasks, NEW n, n.code \in Nat, tTask' = [tTask EXCEPT ![t] = n]
    PROVE  Numbered'
<1>. PICK k : k = n.code
  OBVIOUS
<1>1. T!Numbers' \subseteq T!Numbers \cup {k}
  <2>1. \A x \in Tasks : tTask'[x].code \in {tTask[x].code, k}
    BY DEF T!TypeOK
  <2>. QED  BY <2>1 DEF T!Numbers
<1>2. T!Numbers \subseteq Nat
  BY TaskShape DEF T!Numbers
<1>. SUFFICES ASSUME NEW S \in SUBSET (T!Numbers'), S # {}
              PROVE  \E m \in S : \A i \in S : i <= m
  BY DEF Numbered
<1>3. S \ {k} \in SUBSET T!Numbers
  BY <1>1
<1>4. CASE S \ {k} = {}
  <2>1. S = {k}
    BY <1>4
  <2>. QED  BY <2>1
<1>5. CASE S \ {k} # {}
  <2>1. PICK R : R = S \ {k}
    OBVIOUS
  <2>2. PICK m \in R : \A i \in R : i <= m
    BY <1>3, <1>5, <2>1 DEF Numbered
  <2>3. m \in Nat /\ k \in Nat /\ R \subseteq Nat
    BY <1>2, <1>3, <2>1, <2>2
  <2>4. CASE k \in S /\ m < k
    <3>1. \A i \in S : i <= k
      BY <2>1, <2>2, <2>3, <2>4
    <3>. QED  BY <2>4, <3>1
  <2>5. CASE k \notin S \/ k <= m
    <3>1. \A i \in S : i <= m
      BY <2>1, <2>2, <2>3, <2>5
    <3>. QED  BY <2>1, <2>2, <3>1
  <2>. QED  BY <2>3, <2>4, <2>5
<1>. QED  BY <1>4, <1>5

\* A task written by a call while no form of another is under way there.
LEMMA TaskWritten ==
    ASSUME TInv, NEW c \in Calls, NEW t \in Tasks, NEW n \in T!Task, tTask' = [tTask EXCEPT ![t] = n],
           n.state # "absent" \/ tTask[t].state = "absent",
           \A x \in Calls \ {c} : ~T!HoldsTask(x, t),
           UNCHANGED <<tDep, tRelated, tPhase, tKind, tComment, tPlain>>
    PROVE  T!TypeOK' /\ Numbered' /\ ShutPhase /\ ShutType /\ TasksStay /\ FormsStay(c)
<1>1. T!TypeOK'
  BY DEF TInv, T!TypeOK
<1>2. Numbered'
  BY NumbersStay DEF TInv, T!Task
<1>3. ShutPhase /\ ShutType
  BY DEF ShutPhase, ShutType
<1>4. TasksStay
  BY DEF TasksStay, TInv, T!TypeOK
<1>5. FormsStay(c)
  <2>. SUFFICES ASSUME NEW x \in Calls \ {c}, tCalls[x].at = "checked"
                PROVE  tTask'[tCalls[x].ask.task] = tTask[tCalls[x].ask.task]
    BY DEF FormsStay
  <2>1. tCalls[x].ask.op \in Forms /\ tCalls[x].ask.task \in Tasks
    BY TCallShape DEF TInv, TCallFits, TUnder, Checked, TAskFits, Forms, TaskOps
  <2>2. tCalls[x].ask.task # t
    BY DEF T!HoldsTask
  <2>. QED  BY <2>1, <2>2 DEF TInv, T!TypeOK
<1>. QED  BY <1>1, <1>2, <1>3, <1>4, <1>5

LEMMA WrittenKept ==
    ASSUME TInv, NEW c \in Calls, TMoves(c), TCallFits(c)', tCalls'[c].at # "checked",
           T!TypeOK' /\ Numbered' /\ ShutPhase /\ ShutType /\ TasksStay /\ FormsStay(c)
    PROVE  TInv'
BY TCallsStay, TApartStays DEF TInv

\* The field a form leaves alone keeps its value.
LEMMA ChangedFits ==
    ASSUME NEW r \in T!Task, NEW s, SetFits(s), NEW v \in Nat
    PROVE  /\ T!Changed(r, s) \in T!Task
           /\ [T!Changed(r, s) EXCEPT !.version = v] \in T!Task
           /\ [T!Changed(r, s) EXCEPT !.version = v].state = r.state
           /\ T!Changed(r, s).state = r.state /\ T!Changed(r, s).version = r.version
           /\ T!Changed(r, s).status = IF "status" \in DOMAIN s THEN s.status ELSE r.status
           /\ T!Changed(r, s).phase = IF "phase" \in DOMAIN s THEN s.phase ELSE r.phase
           /\ T!Changed(r, s).type = IF "type" \in DOMAIN s THEN s.type ELSE r.type
           /\ T!Changed(r, s).code = IF "code" \in DOMAIN s THEN s.code ELSE r.code
<1>1. DOMAIN r = {"state", "parent", "status", "progress", "type", "phase", "assignee", "code", "version"}
  BY DEF T!Task
<1>2. PICK p, st, pr, ty, ph, a, k :
        /\ p = (IF "parent" \in DOMAIN s THEN s.parent ELSE r.parent)
        /\ st = (IF "status" \in DOMAIN s THEN s.status ELSE r.status)
        /\ pr = (IF "progress" \in DOMAIN s THEN s.progress ELSE r.progress)
        /\ ty = (IF "type" \in DOMAIN s THEN s.type ELSE r.type)
        /\ ph = (IF "phase" \in DOMAIN s THEN s.phase ELSE r.phase)
        /\ a = (IF "assignee" \in DOMAIN s THEN s.assignee ELSE r.assignee)
        /\ k = (IF "code" \in DOMAIN s THEN s.code ELSE r.code)
  OBVIOUS
<1>3. "state" \notin DOMAIN s /\ "version" \notin DOMAIN s
  BY DEF SetFits
<1>4. PICK w : w = T!Changed(r, s)
  OBVIOUS
<1>5. w = [state |-> r.state, parent |-> p, status |-> st, progress |-> pr, type |-> ty, phase |-> ph,
           assignee |-> a, code |-> k, version |-> r.version]
  <2>1. w = [f \in DOMAIN r |-> IF f \in DOMAIN s THEN s[f] ELSE r[f]]
    BY <1>4 DEF T!Changed
  <2>. QED  BY <1>1, <1>2, <1>3, <2>1
<1>6. p \in Tasks \cup {NoOne} /\ a \in Users \cup {NoOne} /\ k \in Nat
  BY <1>2 DEF SetFits, T!Task
<1>7. st \in T!Statuses /\ pr \in {50, 100} /\ ty \in {"bug", "other", "custom"} /\ ph \in BOOLEAN
  BY <1>2 DEF SetFits, T!Task
<1>8. r.state \in {"absent", "live", "deleted"} /\ r.version \in Nat
  BY DEF T!Task
<1>9. w \in T!Task
  BY <1>5, <1>6, <1>7, <1>8 DEF T!Task
<1>10. [w EXCEPT !.version = v] \in T!Task /\ [w EXCEPT !.version = v].state = w.state
  BY <1>9 DEF T!Task
<1>. QED  BY <1>2, <1>4, <1>5, <1>9, <1>10

\* What a call that names a task carries.
LEMMA TaskCarried ==
    ASSUME TInv, NEW c \in Calls, TUnder(c), tCalls[c].ask.op \in TaskOps \ {"create"}
    PROVE  /\ tCalls[c].ask.task \in Tasks /\ tCalls[c].seen \in T!Task
           /\ tTask[tCalls[c].ask.task] \in T!Task /\ tTask[tCalls[c].ask.task].state # "absent"
           /\ tCalls[c].ask.op \in Forms => SetFits(tCalls[c].ask.set)
           /\ tCalls[c].ask.op = "plan" => DOMAIN tCalls[c].ask.set = {"assignee"}
           /\ tCalls[c].ask.op = "move" =>
                /\ tCalls[c].ask.status \in T!Statuses
                /\ tCalls[c].ask.status = "returned" => tCalls[c].seen.status = "returned"
<1>1. TAskFits(tCalls[c].ask) /\ SeenFits(tCalls[c].ask, tCalls[c].seen)
      /\ tTask[tCalls[c].ask.task].state # "absent"
  BY TCallShape DEF TInv, TCallFits
<1>2. tCalls[c].ask.task \in Tasks
  BY <1>1 DEF TAskFits
<1>3. tTask[tCalls[c].ask.task] \in T!Task
  BY <1>2, TaskShape DEF TInv
<1>. QED  BY <1>1, <1>2, <1>3 DEF TAskFits, SeenFits

\* The lock is taken: from here to the commit the row and what it takes stay.
LEMMA TChecks ==
    ASSUME TInv, NEW c \in Calls, T!Check(c)
    PROVE  TInv'
<1>. PICK d, s, r : d = tCalls[c].ask /\ s = tCalls[c].seen /\ r = tTask[d.task]
  OBVIOUS
<1>1. /\ tCalls[c].at = "read" /\ d.op \in Forms /\ TUnder(c)
      /\ tCalls' = [tCalls EXCEPT ![c].at = "checked"] /\ UNCHANGED T!rows
  BY DEF T!Check, T!At, Forms, T!Goto, TUnder
<1>2. /\ T!Free(d.task) /\ T!SameVersion(r, s)
      /\ T!TypeFits(r, T!Changed(r, d.set).type) /\ (T!TakesPhase(d) => T!PhaseFits(r))
  BY DEF T!Check
<1>3. d.task \in Tasks /\ r \in T!Task /\ r.state # "absent" /\ SetFits(d.set)
  BY <1>1, TaskCarried DEF Forms, TaskOps
<1>4. T!Changed(r, d.set).type = IF "type" \in DOMAIN d.set THEN d.set.type ELSE r.type
  BY <1>3, ChangedFits, 0 \in Nat
<1>5. T!TakesType(d) => tKind.active \/ r.type = "custom"
  BY <1>2, <1>4 DEF T!TakesType, T!TypeFits
<1>6. T!TakesPhase(d) => ~tPhase.archived \/ r.phase
  BY <1>2 DEF T!PhaseFits
<1>7. TCallFits(c)
  BY TCallShape DEF TInv
<1>8. tCalls'[c] = [at |-> "checked", ask |-> d, seen |-> s, tries |-> tCalls[c].tries]
  BY <1>1, <1>7 DEF TInv, TCallsFit, TCallFits
<1>9. TMoves(c)
  BY <1>1, <1>8 DEF TInv, TCallsFit, TMoves
<1>10. UNCHANGED <<tTask, tPhase, tKind>>
  BY <1>1 DEF T!rows
<1>11. (T!TakesPhase(d)' <=> T!TakesPhase(d)) /\ (T!TakesType(d)' <=> T!TakesType(d))
  BY DEF T!TakesPhase, T!TakesType
<1>12. Checked(c)'
  <2>1. tCalls'[c].ask = d /\ tCalls'[c].seen = s
    BY <1>8
  <2>2. tTask'[d.task].version = s.version
    BY <1>2, <1>10 DEF T!SameVersion
  <2>. QED  BY <1>1, <1>5, <1>6, <1>10, <1>11, <2>1, <2>2 DEF Checked
<1>13. TCallFits(c)'
  BY <1>1, <1>3, <1>7, <1>8, <1>10, <1>12 DEF TCallFits, TUnder, T!At
<1>14. ShutPhase /\ ShutType /\ TasksStay /\ FormsStay(c)
  BY <1>10 DEF ShutPhase, ShutType, TasksStay, FormsStay
<1>15. TCallsFit'
  BY <1>9, <1>13, <1>14, TCallsStay DEF TInv
<1>16. TApart'
  <2>1. \A x \in Calls \ {c} : tCalls'[x] = tCalls[x]
    BY <1>9, TOthers DEF TInv
  <2>2. \A x \in Calls \ {c} : tCalls[x].at = "checked" => tCalls[x].ask.task # d.task
    BY <1>2 DEF T!Free, T!HoldsTask
  <2>. QED  BY <1>8, <2>1, <2>2 DEF TInv, TApart
<1>17. T!TypeOK' /\ Numbered'
  BY <1>1, <1>10, TTypesRest DEF TInv, T!rows, Numbered, T!Numbers
<1>. QED  BY <1>15, <1>16, <1>17 DEF TInv

\* What the commit of a form does.
LEMMA UpdateWrites ==
    ASSUME TInv, NEW c \in Calls, T!Update(c)
    PROVE  LET d == tCalls[c].ask
               r == tTask[d.task]
               n == [T!Changed(r, d.set) EXCEPT !.version = r.version + 1]
           IN /\ tCalls[c].at = "checked" /\ d.op \in Forms /\ d.task \in Tasks /\ r \in T!Task /\ n \in T!Task
              /\ n.state = r.state /\ r.state # "absent" /\ SetFits(d.set) /\ Checked(c)
              /\ UNCHANGED tTask \/ tTask' = [tTask EXCEPT ![d.task] = n]
              /\ TEnds(c) /\ UNCHANGED <<tDep, tRelated, tIssue, tPhase, tKind, tComment, tPlain>>
<1>. PICK d, r : d = tCalls[c].ask /\ r = tTask[d.task]
  OBVIOUS
<1>. PICK n : n = [T!Changed(r, d.set) EXCEPT !.version = r.version + 1]
  OBVIOUS
<1>1. /\ tCalls[c].at = "checked" /\ TUnder(c) /\ (UNCHANGED tTask \/ tTask' = [tTask EXCEPT ![d.task] = n])
      /\ TEnds(c) /\ UNCHANGED <<tDep, tRelated, tIssue, tPhase, tKind, tComment, tPlain>>
  BY DEF T!Update, TEnds, T!Done, TUnder
<1>2. Checked(c) /\ d.op \in Forms
  BY <1>1, TCallShape DEF TInv, TCallFits, Checked
<1>3. d.task \in Tasks /\ r \in T!Task /\ r.state # "absent" /\ SetFits(d.set)
  BY <1>1, <1>2, TaskCarried DEF Forms, TaskOps
<1>4. r.version + 1 \in Nat
  BY <1>3 DEF T!Task
<1>5. n \in T!Task /\ n.state = r.state
  BY <1>3, <1>4, ChangedFits
<1>. QED  BY <1>1, <1>2, <1>3, <1>5

LEMMA TUpdates ==
    ASSUME TInv, NEW c \in Calls, T!Update(c)
    PROVE  TInv'
<1>. PICK d, r : d = tCalls[c].ask /\ r = tTask[d.task]
  OBVIOUS
<1>. PICK n : n = [T!Changed(r, d.set) EXCEPT !.version = r.version + 1]
  OBVIOUS
<1>1. /\ tCalls[c].at = "checked" /\ d.task \in Tasks /\ n \in T!Task /\ n.state # "absent"
      /\ (UNCHANGED tTask \/ tTask' = [tTask EXCEPT ![d.task] = n])
      /\ TEnds(c) /\ UNCHANGED <<tDep, tRelated, tIssue, tPhase, tKind, tComment, tPlain>>
  BY UpdateWrites
<1>2. CASE UNCHANGED tTask
  BY <1>1, <1>2, TTypesRest, TEndsQuietly DEF TInv
<1>3. CASE tTask' = [tTask EXCEPT ![d.task] = n]
  <2>1. \A x \in Calls \ {c} : ~T!HoldsTask(x, d.task)
    BY <1>1 DEF TInv, TApart, T!HoldsTask
  <2>2. TMoves(c) /\ tCalls'[c].at = "done" /\ TCallFits(c)'
    BY <1>1, TEndsIsMove DEF TInv
  <2>3. T!TypeOK' /\ Numbered' /\ ShutPhase /\ ShutType /\ TasksStay /\ FormsStay(c)
    BY <1>1, <1>3, <2>1, TaskWritten
  <2>. QED  BY <2>2, <2>3, WrittenKept
<1>. QED  BY <1>1, <1>2, <1>3

\* A deletion keeps everything else of the row.
LEMMA DeletedFits ==
    ASSUME NEW r \in T!Task, NEW v \in Nat
    PROVE  /\ [r EXCEPT !.state = "deleted", !.version = v] \in T!Task
           /\ [r EXCEPT !.state = "deleted", !.version = v].state = "deleted"
           /\ [r EXCEPT !.state = "deleted", !.version = v].status = r.status
           /\ [r EXCEPT !.state = "deleted", !.version = v].phase = r.phase
           /\ [r EXCEPT !.state = "deleted", !.version = v].type = r.type
BY DEF T!Task

LEMMA DeleteWrites ==
    ASSUME TInv, NEW c \in Calls, T!Delete(c)
    PROVE  /\ tCalls[c].at = "read" /\ tCalls[c].ask.op = "delete" /\ TUnder(c)
           /\ T!Free(tCalls[c].ask.task) /\ tCalls[c].ask.task \in Tasks
           /\ tTask[tCalls[c].ask.task] \in T!Task /\ tCalls[c].seen.version + 1 \in Nat
           /\ tTask' = [tTask EXCEPT ![tCalls[c].ask.task] =
                           [tTask[tCalls[c].ask.task] EXCEPT !.state = "deleted", !.version = tCalls[c].seen.version + 1]]
           /\ Saves(c) /\ UNCHANGED <<tDep, tRelated, tIssue, tPhase, tKind, tComment, tPlain>>
<1>. PICK t, v : t = tCalls[c].ask.task /\ v = tCalls[c].seen.version + 1
  OBVIOUS
<1>1. /\ tCalls[c].at = "read" /\ tCalls[c].ask.op = "delete" /\ TUnder(c) /\ T!Free(t)
      /\ tTask' = [tTask EXCEPT ![t].state = "deleted", ![t].version = v]
      /\ Saves(c) /\ UNCHANGED <<tDep, tRelated, tIssue, tPhase, tKind, tComment, tPlain>>
  BY DEF T!Delete, T!At, T!Goto, Saves, TUnder
<1>2. t \in Tasks /\ tTask[t] \in T!Task /\ tCalls[c].seen \in T!Task
  BY <1>1, TaskCarried DEF TaskOps
<1>3. v \in Nat
  BY <1>2 DEF T!Task
<1>4. tTask' = [tTask EXCEPT ![t] = [tTask[t] EXCEPT !.state = "deleted", !.version = v]]
  BY <1>1, <1>2 DEF TInv, T!TypeOK
<1>. QED  BY <1>1, <1>2, <1>3, <1>4

LEMMA TDeletes ==
    ASSUME TInv, NEW c \in Calls, T!Delete(c)
    PROVE  TInv'
<1>. PICK t, v : t = tCalls[c].ask.task /\ v = tCalls[c].seen.version + 1
  OBVIOUS
<1>. PICK n : n = [tTask[t] EXCEPT !.state = "deleted", !.version = v]
  OBVIOUS
<1>1. /\ TUnder(c) /\ T!Free(t) /\ t \in Tasks /\ tTask[t] \in T!Task /\ v \in Nat
      /\ tTask' = [tTask EXCEPT ![t] = n]
      /\ Saves(c) /\ UNCHANGED <<tDep, tRelated, tIssue, tPhase, tKind, tComment, tPlain>>
  BY DeleteWrites
<1>2. n \in T!Task /\ n.state = "deleted"
  BY <1>1, DeletedFits
<1>3. \A x \in Calls \ {c} : ~T!HoldsTask(x, t)
  BY <1>1 DEF T!Free
<1>4. T!TypeOK' /\ Numbered' /\ ShutPhase /\ ShutType /\ TasksStay /\ FormsStay(c)
  BY <1>1, <1>2, <1>3, TaskWritten
<1>5. TMoves(c) /\ TCallFits(c)' /\ tCalls'[c].at = "saved"
  BY <1>1, <1>4, SavesFit DEF TInv
<1>. QED  BY <1>4, <1>5, WrittenKept

\* The columns a move writes.
LEMMA FlushedTask ==
    ASSUME NEW r \in T!Task, NEW s \in T!Task, NEW n \in T!Task
    PROVE  /\ T!Flushed(r, s, n) \in T!Task
           /\ T!Flushed(r, s, n).state = IF n.state # s.state THEN n.state ELSE r.state
           /\ T!Flushed(r, s, n).status = IF n.status # s.status THEN n.status ELSE r.status
           /\ T!Flushed(r, s, n).phase = IF n.phase # s.phase THEN n.phase ELSE r.phase
           /\ T!Flushed(r, s, n).type = IF n.type # s.type THEN n.type ELSE r.type
<1>1. DOMAIN r = {"state", "parent", "status", "progress", "type", "phase", "assignee", "code", "version"}
  BY DEF T!Task
<1>2. PICK e, p, st, pr, ty, ph, a, k, v :
        /\ e = (IF n.state # s.state THEN n.state ELSE r.state)
        /\ p = (IF n.parent # s.parent THEN n.parent ELSE r.parent)
        /\ st = (IF n.status # s.status THEN n.status ELSE r.status)
        /\ pr = (IF n.progress # s.progress THEN n.progress ELSE r.progress)
        /\ ty = (IF n.type # s.type THEN n.type ELSE r.type)
        /\ ph = (IF n.phase # s.phase THEN n.phase ELSE r.phase)
        /\ a = (IF n.assignee # s.assignee THEN n.assignee ELSE r.assignee)
        /\ k = (IF n.code # s.code THEN n.code ELSE r.code)
        /\ v = (IF n.version # s.version THEN n.version ELSE r.version)
  OBVIOUS
<1>3. PICK w : w = T!Flushed(r, s, n)
  OBVIOUS
<1>4. w = [state |-> e, parent |-> p, status |-> st, progress |-> pr, type |-> ty, phase |-> ph,
           assignee |-> a, code |-> k, version |-> v]
  <2>1. w = [f \in DOMAIN r |-> IF n[f] # s[f] THEN n[f] ELSE r[f]]
    BY <1>3 DEF T!Flushed
  <2>. QED  BY <1>1, <1>2, <2>1
<1>5. p \in Tasks \cup {NoOne} /\ a \in Users \cup {NoOne} /\ k \in Nat /\ v \in Nat
  BY <1>2 DEF T!Task
<1>6. e \in {"absent", "live", "deleted"} /\ st \in T!Statuses /\ pr \in {50, 100}
  BY <1>2 DEF T!Task
<1>7. ty \in {"bug", "other", "custom"} /\ ph \in BOOLEAN
  BY <1>2 DEF T!Task
<1>8. w \in T!Task
  BY <1>4, <1>5, <1>6, <1>7 DEF T!Task
<1>. QED  BY <1>2, <1>3, <1>4, <1>8

LEMMA MovedFits ==
    ASSUME NEW s \in T!Task, NEW st \in T!Statuses
    PROVE  /\ T!Moved(s, st) \in T!Task
           /\ T!Moved(s, st).state = s.state /\ T!Moved(s, st).status = st
           /\ T!Moved(s, st).phase = s.phase /\ T!Moved(s, st).type = s.type
<1>. PICK w, v, p : /\ w = [s EXCEPT !.status = st] /\ v = [w EXCEPT !.version = s.version + 1]
                    /\ p = (IF st = "done" THEN 100 ELSE s.progress)
  OBVIOUS
<1>1. w = [state |-> s.state, parent |-> s.parent, status |-> st, progress |-> s.progress, type |-> s.type,
           phase |-> s.phase, assignee |-> s.assignee, code |-> s.code, version |-> s.version]
  BY DEF T!Task
<1>2. v = [state |-> s.state, parent |-> s.parent, status |-> st, progress |-> s.progress, type |-> s.type,
           phase |-> s.phase, assignee |-> s.assignee, code |-> s.code, version |-> s.version + 1]
  BY <1>1
<1>3. T!Moved(s, st) = [v EXCEPT !.progress = p]
  BY <1>1, <1>2 DEF T!Moved
<1>4. T!Moved(s, st) = [state |-> s.state, parent |-> s.parent, status |-> st, progress |-> p, type |-> s.type,
           phase |-> s.phase, assignee |-> s.assignee, code |-> s.code, version |-> s.version + 1]
  BY <1>2, <1>3
<1>5. s.version + 1 \in Nat /\ p \in {50, 100} /\ s.parent \in Tasks \cup {NoOne} /\ s.assignee \in Users \cup {NoOne}
  BY DEF T!Task
<1>6. s.state \in {"absent", "live", "deleted"} /\ s.type \in {"bug", "other", "custom"} /\ s.phase \in BOOLEAN
      /\ s.code \in Nat
  BY DEF T!Task
<1>7. T!Moved(s, st) \in T!Task
  BY <1>4, <1>5, <1>6 DEF T!Task
<1>. QED  BY <1>4, <1>7

LEMMA MoveWrites ==
    ASSUME TInv, NEW c \in Calls, T!Move(c)
    PROVE  \E m \in T!Task :
             /\ tCalls[c].at = "read" /\ tCalls[c].ask.op = "move" /\ TUnder(c)
             /\ T!Free(tCalls[c].ask.task) /\ tCalls[c].ask.task \in Tasks
             /\ tTask[tCalls[c].ask.task] \in T!Task
             /\ tTask' = [tTask EXCEPT ![tCalls[c].ask.task] = m]
             /\ m.state = tTask[tCalls[c].ask.task].state /\ m.state # "absent"
             /\ m.phase = tTask[tCalls[c].ask.task].phase /\ m.type = tTask[tCalls[c].ask.task].type
             /\ m.status = "returned" => tTask[tCalls[c].ask.task].status = "returned"
             /\ Saves(c) /\ UNCHANGED <<tDep, tRelated, tIssue, tPhase, tKind, tComment, tPlain>>
<1>. PICK d, s, r : d = tCalls[c].ask /\ s = tCalls[c].seen /\ r = tTask[d.task]
  OBVIOUS
<1>. PICK n : n = T!Moved(s, d.status)
  OBVIOUS
<1>1. /\ tCalls[c].at = "read" /\ d.op = "move" /\ TUnder(c) /\ T!Free(d.task)
      /\ tTask' = [tTask EXCEPT ![d.task] = T!Flushed(r, s, n)]
      /\ Saves(c) /\ UNCHANGED <<tDep, tRelated, tIssue, tPhase, tKind, tComment, tPlain>>
  BY DEF T!Move, T!At, T!Goto, Saves, TUnder
<1>2. /\ d.task \in Tasks /\ s \in T!Task /\ r \in T!Task /\ r.state # "absent" /\ d.status \in T!Statuses
      /\ d.status = "returned" => s.status = "returned"
  BY <1>1, TaskCarried DEF TaskOps
<1>3. n \in T!Task /\ n.state = s.state /\ n.status = d.status /\ n.phase = s.phase /\ n.type = s.type
  BY <1>2, MovedFits
<1>4. PICK m : m = T!Flushed(r, s, n)
  OBVIOUS
<1>8. /\ m \in T!Task /\ m.state = IF n.state # s.state THEN n.state ELSE r.state
      /\ m.status = IF n.status # s.status THEN n.status ELSE r.status
      /\ m.phase = IF n.phase # s.phase THEN n.phase ELSE r.phase
      /\ m.type = IF n.type # s.type THEN n.type ELSE r.type
  BY <1>2, <1>3, <1>4, FlushedTask
<1>5. /\ m \in T!Task /\ m.state = r.state /\ m.phase = r.phase /\ m.type = r.type
      /\ m.status = IF d.status # s.status THEN d.status ELSE r.status
  BY <1>3, <1>8
<1>6. m.status = "returned" => r.status = "returned"
  BY <1>2, <1>5
<1>7. tTask' = [tTask EXCEPT ![d.task] = m]
  BY <1>1, <1>4
<1>. QED  BY <1>1, <1>2, <1>5, <1>6, <1>7

LEMMA TMovesTask ==
    ASSUME TInv, NEW c \in Calls, T!Move(c)
    PROVE  TInv'
<1>. PICK t : t = tCalls[c].ask.task
  OBVIOUS
<1>1. PICK m \in T!Task :
        /\ TUnder(c) /\ T!Free(t) /\ t \in Tasks /\ m.state # "absent"
        /\ tTask' = [tTask EXCEPT ![t] = m]
        /\ Saves(c) /\ UNCHANGED <<tDep, tRelated, tIssue, tPhase, tKind, tComment, tPlain>>
  BY MoveWrites
<1>2. \A x \in Calls \ {c} : ~T!HoldsTask(x, t)
  BY <1>1 DEF T!Free
<1>3. T!TypeOK' /\ Numbered' /\ ShutPhase /\ ShutType /\ TasksStay /\ FormsStay(c)
  BY <1>1, <1>2, TaskWritten
<1>4. TMoves(c) /\ TCallFits(c)' /\ tCalls'[c].at = "saved"
  BY <1>1, <1>3, SavesFit DEF TInv
<1>. QED  BY <1>3, <1>4, WrittenKept

-----------------------------------------------------------------------------
(* Creation: the row, or another number, or the end.                        *)
Created(d, code) == [state |-> "live", parent |-> d.parent, status |-> "todo", progress |-> 50,
                     type |-> "other", phase |-> d.phase, assignee |-> d.assignee, code |-> code, version |-> 1]

LEMMA CreationCarried ==
    ASSUME TInv, NEW c \in Calls, T!At(c, "read", "create")
    PROVE  /\ TUnder(c) /\ tCalls[c].at = "read" /\ tCalls[c].ask.op = "create" /\ tCalls[c].ask.task \in Tasks
           /\ tTask[tCalls[c].ask.task] \in T!Task
           /\ Created(tCalls[c].ask, tCalls[c].seen) \in T!Task
           /\ tCalls[c].ask.phase => ~tPhase.archived
<1>. PICK d, s : d = tCalls[c].ask /\ s = tCalls[c].seen
  OBVIOUS
<1>1. tCalls[c].at = "read" /\ d.op = "create" /\ TUnder(c)
  BY DEF T!At, TUnder
<1>2. TAskFits(d) /\ SeenFits(d, s) /\ (T!TakesPhase(d) => ~tPhase.archived)
  BY <1>1, TCallShape DEF TInv, TCallFits
<1>3. d.task \in Tasks /\ d.parent \in Tasks \cup {NoOne} /\ d.phase \in BOOLEAN /\ d.assignee \in Users \cup {NoOne}
      /\ s \in Nat
  BY <1>1, <1>2 DEF TAskFits, SeenFits, TaskOps, PairOps
<1>4. Created(d, s) \in T!Task
  BY <1>3 DEF Created, T!Task, T!Statuses
<1>5. d.phase => ~tPhase.archived
  BY <1>1, <1>2 DEF T!TakesPhase
<1>. QED  BY <1>1, <1>3, <1>4, <1>5, TaskShape DEF TInv

LEMMA CreateWrites ==
    ASSUME NEW c \in Calls, T!Create(c)
    PROVE  LET d == tCalls[c].ask
           IN /\ T!At(c, "read", "create") /\ UNCHANGED <<tDep, tRelated, tIssue, tPhase, tKind, tComment, tPlain>>
              /\ \/ /\ tTask[d.task].state = "absent" /\ tTask' = [tTask EXCEPT ![d.task] = Created(d, tCalls[c].seen)]
                    /\ (tCalls' = [tCalls EXCEPT ![c].at = "made"] \/ TEnds(c))
                 \/ UNCHANGED tTask /\ TEnds(c)
                 \/ UNCHANGED tTask /\ tCalls' = [tCalls EXCEPT ![c].seen = T!MaxAutoNumber + 1, ![c].tries = @ + 1]
<1>. PICK d, s : d = tCalls[c].ask /\ s = tCalls[c].seen
  OBVIOUS
<1>1. T!At(c, "read", "create") /\ UNCHANGED <<tDep, tRelated, tIssue, tPhase, tKind, tComment, tPlain>>
  BY DEF T!Create
<1>2. CASE tTask[d.task].state = "absent" /\ ~T!CodeStored(s)
  BY <1>1, <1>2 DEF T!Create, Created, T!Goto, T!Done, TEnds
<1>3. CASE ~(tTask[d.task].state = "absent" /\ ~T!CodeStored(s))
  BY <1>1, <1>3 DEF T!Create, T!Done, TEnds
<1>. QED  BY <1>1, <1>2, <1>3

LEMMA CallRetries ==
    ASSUME TCallsFit, NEW c \in Calls, TUnder(c), NEW n,
           tCalls' = [tCalls EXCEPT ![c].seen = n, ![c].tries = @ + 1]
    PROVE  /\ tCalls'[c] = [at |-> tCalls[c].at, ask |-> tCalls[c].ask, seen |-> n, tries |-> tCalls'[c].tries]
           /\ TMoves(c)
<1>1. PICK q, k : q = tCalls[c] /\ k = [q EXCEPT !.seen = n, !.tries = @ + 1]
  OBVIOUS
<1>2. tCalls' = [tCalls EXCEPT ![c] = k] /\ tCalls'[c] = k
  BY <1>1 DEF TCallsFit
<1>3. q = [at |-> tCalls[c].at, ask |-> tCalls[c].ask, seen |-> tCalls[c].seen, tries |-> tCalls[c].tries]
  BY <1>1, TCallShape DEF TCallFits
<1>4. PICK w : w = [q EXCEPT !.seen = n]
  OBVIOUS
<1>5. w = [at |-> tCalls[c].at, ask |-> tCalls[c].ask, seen |-> n, tries |-> tCalls[c].tries]
  BY <1>3, <1>4
<1>6. k = [w EXCEPT !.tries = @ + 1]
  BY <1>1, <1>4
<1>7. k = [at |-> tCalls[c].at, ask |-> tCalls[c].ask, seen |-> n, tries |-> k.tries]
  BY <1>5, <1>6
<1>8. TMoves(c)
  BY <1>2 DEF TMoves
<1>. QED  BY <1>2, <1>7, <1>8

LEMMA TCreates ==
    ASSUME TInv, NEW c \in Calls, T!Create(c)
    PROVE  TInv'
<1>. PICK d, s : d = tCalls[c].ask /\ s = tCalls[c].seen
  OBVIOUS
<1>1. T!At(c, "read", "create") /\ UNCHANGED <<tDep, tRelated, tPhase, tKind, tComment, tPlain>>
  BY CreateWrites
<1>2. /\ TUnder(c) /\ tCalls[c].at = "read" /\ d.op = "create" /\ d.task \in Tasks
      /\ Created(d, s) \in T!Task
  BY <1>1, CreationCarried
<1>3. TCallFits(c)
  BY TCallShape DEF TInv
<1>4. CASE /\ tTask[d.task].state = "absent" /\ tTask' = [tTask EXCEPT ![d.task] = Created(d, s)]
           /\ (tCalls' = [tCalls EXCEPT ![c].at = "made"] \/ TEnds(c))
  <2>1. \A x \in Calls \ {c} : ~T!HoldsTask(x, d.task)
    <3>. SUFFICES ASSUME NEW x \in Calls, T!HoldsTask(x, d.task) PROVE FALSE
      OBVIOUS
    <3>1. tCalls[x].at = "checked" /\ tCalls[x].ask.task = d.task
      BY DEF T!HoldsTask
    <3>2. tCalls[x].ask.op \in Forms
      BY <3>1, TCallShape DEF TInv, TCallFits, TUnder, Checked
    <3>3. tTask[tCalls[x].ask.task].state # "absent"
      BY <3>1, <3>2, TaskCarried DEF TUnder, Forms, TaskOps
    <3>. QED  BY <1>4, <3>1, <3>3
  <2>2. T!TypeOK' /\ Numbered' /\ ShutPhase /\ ShutType /\ TasksStay /\ FormsStay(c)
    BY <1>1, <1>2, <1>4, <2>1, TaskWritten
  <2>3. CASE tCalls' = [tCalls EXCEPT ![c].at = "made"]
    <3>1. tCalls'[c] = [at |-> "made", ask |-> d, seen |-> s, tries |-> tCalls[c].tries]
      BY <1>2, <1>3, <2>3 DEF TInv, TCallsFit, TCallFits
    <3>2. TMoves(c)
      BY <2>3, <3>1 DEF TInv, TCallsFit, TMoves
    <3>3. TCallFits(c)'
      BY <1>2, <1>3, <3>1 DEF TCallFits, TUnder, T!At
    <3>. QED  BY <2>2, <3>1, <3>2, <3>3, WrittenKept
  <2>4. CASE TEnds(c)
    BY <2>2, <2>4, TEndsIsMove, WrittenKept DEF TInv
  <2>. QED  BY <1>4, <2>3, <2>4
<1>5. CASE UNCHANGED tTask /\ TEnds(c)
  BY <1>1, <1>5, TTypesRest, TEndsQuietly DEF TInv
<1>6. CASE UNCHANGED tTask /\ tCalls' = [tCalls EXCEPT ![c].seen = T!MaxAutoNumber + 1, ![c].tries = @ + 1]
  <2>1. PICK n : n = T!MaxAutoNumber + 1
    OBVIOUS
  <2>2. n \in Nat
    BY <2>1, NextNumber DEF TInv
  <2>3. tCalls'[c] = [at |-> "read", ask |-> d, seen |-> n, tries |-> tCalls'[c].tries] /\ TMoves(c)
    BY <1>2, <1>6, <2>1, CallRetries DEF TInv
  <2>4. TAskFits(d) /\ SeenFits(d, n)
    BY <1>2, <1>3, <2>2 DEF TCallFits, SeenFits, TaskOps, PairOps, CommentOps, PlainOps
  <2>5. T!TakesPhase(d)' <=> T!TakesPhase(d)
    BY DEF T!TakesPhase
  <2>6. T!TakesPhase(d) => ~tPhase'.archived
    BY <1>1, <1>2, <1>3 DEF TCallFits
  <2>7. TCallFits(c)'
    BY <1>2, <2>3, <2>4, <2>5, <2>6 DEF TCallFits, TUnder, T!At
  <2>8. T!TypeOK'
    BY <1>1, <1>6, TTypesRest DEF TInv
  <2>9. tCalls'[c].at # "checked"
    BY <2>3
  <2>. QED  BY <1>1, <1>6, <2>3, <2>7, <2>8, <2>9, Quiet
<1>. QED  BY <1>4, <1>5, <1>6, CreateWrites

-----------------------------------------------------------------------------
(* The first rows, and every step.                                          *)
LEMMA TBegins ==
    ASSUME T!Init
    PROVE  TInv
<1>1. PICK u \in Users, parent \in {NoOne, t1},
           first \in {T!Standing(NoOne, "todo", 50, "other", FALSE, 1), T!Standing(NoOne, "todo", 100, "bug", TRUE, 1),
                      T!Standing(NoOne, "done", 100, "other", FALSE, 1), T!Standing(NoOne, "returned", 50, "other", FALSE, 1)} :
        tTask = [[t \in Tasks |-> T!Blank] EXCEPT ![t1] = [first EXCEPT !.assignee = u],
                                               ![t2] = T!Standing(parent, "todo", 50, "other", FALSE, 2)]
  BY DEF T!Init
<1>2. PICK a, b : a = [first EXCEPT !.assignee = u] /\ b = T!Standing(parent, "todo", 50, "other", FALSE, 2)
  OBVIOUS
<1>3. first \in T!Task /\ first.code = 1
  <2>1. PICK status \in {"todo", "done", "returned"}, progress \in {50, 100}, type \in {"bug", "other"}, in \in BOOLEAN :
          first = T!Standing(NoOne, status, progress, type, in, 1)
    OBVIOUS
  <2>. QED  BY <2>1 DEF T!Standing, T!Task, T!Statuses
<1>4. a \in T!Task /\ a.code = 1
  BY <1>2, <1>3 DEF T!Task
<1>5. b \in T!Task /\ b.code = 2
  BY <1>1, <1>2, TasksAssumption DEF T!Standing, T!Task, T!Statuses
<1>6. T!Blank \in T!Task /\ T!Blank.code = 0
  BY DEF T!Blank, T!Task, T!Statuses
<1>7. tTask \in [Tasks -> T!Task] /\ \A t \in Tasks : tTask[t] \in {T!Blank, a, b}
  BY <1>1, <1>2, <1>4, <1>5, <1>6, TasksAssumption
<1>8. T!Numbers \subseteq {0, 1, 2}
  BY <1>4, <1>5, <1>6, <1>7 DEF T!Numbers
<1>9. Numbered
  <2>. SUFFICES ASSUME NEW S \in SUBSET T!Numbers, S # {}
                PROVE  \E n \in S : \A m \in S : m <= n
    BY DEF Numbered
  <2>1. CASE 2 \in S
    BY <1>8, <2>1
  <2>2. CASE 2 \notin S /\ 1 \in S
    BY <1>8, <2>2
  <2>3. CASE 2 \notin S /\ 1 \notin S
    <3>1. S = {0}
      BY <1>8, <2>3
    <3>. QED  BY <3>1
  <2>. QED  BY <2>1, <2>2, <2>3
<1>10. tDep \in [T!Pairs -> Nat] /\ tRelated \subseteq Tasks
  BY TasksAssumption DEF T!Init
<1>11. tPhase \in T!Phase /\ tKind \in T!CustomType
  BY DEF T!Init, T!Phase, T!CustomType
<1>12. tComment \in [Comments -> T!Comment]
  <2>1. PICK x : x = CHOOSE k \in Comments : TRUE
    OBVIOUS
  <2>2. PICK y, z : /\ y = [state |-> "live", resolved |-> FALSE, mentions |-> {}, version |-> 1]
                    /\ z = [state |-> "absent", resolved |-> FALSE, mentions |-> {}, version |-> 0]
    OBVIOUS
  <2>3. y \in T!Comment /\ z \in T!Comment
    BY <2>2 DEF T!Comment
  <2>4. tComment = [k \in Comments |-> IF k = x THEN y ELSE z]
    BY <2>1, <2>2 DEF T!Init
  <2>. QED  BY <2>3, <2>4
<1>13. tPlain \in [T!PlainRows -> T!PlainRow]
  <2>1. PICK y, z : y = [state |-> "live", version |-> 1] /\ z = [state |-> "absent", version |-> 0]
    OBVIOUS
  <2>2. y \in T!PlainRow /\ z \in T!PlainRow
    BY <2>1 DEF T!PlainRow
  <2>3. tPlain \in {[r \in T!PlainRows |-> y], [r \in T!PlainRows |-> z], [r \in T!PlainRows |-> IF r = "board" THEN y ELSE z]}
    BY <2>1 DEF T!Init
  <2>. QED  BY <2>2, <2>3
<1>14. TCallsFit /\ TApart
  BY DEF T!Init, TCallsFit, TCallFits, TUnder, TApart
<1>. QED  BY <1>7, <1>9, <1>10, <1>11, <1>12, <1>13, <1>14 DEF TInv, T!TypeOK

LEMMA Written ==
    ASSUME NEW c \in Calls,
           \/ T!Arrive(c) \/ T!TaskItems(c) \/ T!TestIssues(c) \/ T!TaskDependencies(c) \/ T!TaskComments(c)
           \/ T!TaskBoards(c) \/ T!Milestones(c) \/ T!TaskPhases(c) \/ T!TaskTypes(c) \/ T!Log(c) \/ T!Refuse(c)
    PROVE  \/ T!Update(c) \/ T!Create(c) \/ T!Delete(c) \/ T!Move(c)
           \/ UNCHANGED tTask
<1>1. CASE T!Arrive(c) \/ T!Log(c) \/ T!Refuse(c)
  BY <1>1 DEF T!Arrive, T!Log, T!Refuse, T!rows
<1>2. CASE T!TaskItems(c)
  BY <1>2 DEF T!TaskItems, T!Check, T!Relate, T!Unrelate, T!rows
<1>3. CASE T!TestIssues(c) \/ T!TaskDependencies(c) \/ T!TaskComments(c)
  BY <1>3 DEF T!TestIssues, T!TaskDependencies, T!TaskComments, T!LinkIssue, T!UnlinkIssue, T!CreateDependency, T!UpdateDependency,
              T!DeleteDependency, T!CreateComment, T!UpdateComment, T!DeleteComment, T!SetResolved
<1>4. CASE T!TaskBoards(c) \/ T!Milestones(c)
  BY <1>4 DEF T!TaskBoards, T!Milestones, T!CreateBoard, T!UpdateBoard, T!DeleteBoard, T!CreateBoardColumn, T!UpdateBoardColumn,
              T!DeleteBoardColumn, T!CreateMilestone, T!UpdateMilestone, T!DeleteMilestone, T!WritePlain
<1>5. CASE T!TaskPhases(c) \/ T!TaskTypes(c)
  BY <1>5 DEF T!TaskPhases, T!TaskTypes, T!SavePhase, T!SaveType
<1>. QED  BY <1>1, <1>2, <1>3, <1>4, <1>5

LEMMA TKept ==
    ASSUME TInv, [T!Next]_(T!vars)
    PROVE  TInv'
<1>1. CASE UNCHANGED T!vars
  <2>1. tCalls' = tCalls /\ tTask' = tTask /\ tPhase' = tPhase /\ tKind' = tKind
    BY <1>1 DEF T!vars
  <2>2. T!TypeOK'
    BY <1>1, TTypesRest DEF T!vars, TInv
  <2>3. \A c \in Calls : TCallFits(c)'
    <3>. SUFFICES ASSUME NEW c \in Calls PROVE TCallFits(c)'
      OBVIOUS
    <3>. QED  BY <2>1, TCallShape DEF TInv, TCallFits, TUnder, T!At, Checked, T!TakesPhase, T!TakesType
  <2>4. TCallsFit' /\ TApart' /\ Numbered'
    BY <2>1, <2>3 DEF TInv, TCallsFit, TApart, Numbered, T!Numbers
  <2>. QED  BY <2>2, <2>4 DEF TInv
<1>2. CASE T!Next
  <2>1. PICK c \in Calls :
          \/ T!Arrive(c) \/ T!TaskItems(c) \/ T!TestIssues(c) \/ T!TaskDependencies(c) \/ T!TaskComments(c)
          \/ T!TaskBoards(c) \/ T!Milestones(c) \/ T!TaskPhases(c) \/ T!TaskTypes(c) \/ T!Log(c) \/ T!Refuse(c)
    BY <1>2 DEF T!Next
  <2>2. CASE T!Arrive(c)
    BY <2>2, TArrives
  <2>3. CASE T!TaskItems(c)
    BY <2>3, TChecks, TUpdates, TCreates, TRelates, TDeletes DEF T!TaskItems
  <2>4. CASE T!TestIssues(c) \/ T!Log(c) \/ T!Refuse(c)
    BY <2>4, TRests DEF T!TestIssues
  <2>5. CASE T!TaskDependencies(c)
    BY <2>5, TDepends
  <2>6. CASE T!TaskComments(c)
    BY <2>6, TComments
  <2>7. CASE T!TaskBoards(c) \/ T!Milestones(c)
    BY <2>7, TMovesTask, TPlain DEF T!TaskBoards, T!Milestones
  <2>8. CASE T!TaskPhases(c) \/ T!TaskTypes(c)
    BY <2>8, TSettings DEF T!TaskPhases, T!TaskTypes
  <2>. QED  BY <2>1, <2>2, <2>3, <2>4, <2>5, <2>6, <2>7, <2>8
<1>. QED  BY <1>1, <1>2

-----------------------------------------------------------------------------
(* What a step does to a task.                                              *)
ReturnTold(t) ==
    (/\ tTask[t].state # "absent"
     /\ tTask[t].status # "returned" /\ tTask'[t].status = "returned" /\ tTask'[t].assignee # NoOne)
        => <<tTask'[t].assignee, t, tTask'[t].version, "returned">> \in tTold'
OpenTaken(t) ==
    /\ tTask'[t].phase /\ ~tTask[t].phase => ~tPhase'.archived
    /\ tTask'[t].type = "custom" /\ tTask[t].type # "custom" => tKind'.active

LEMMA FormTakes ==
    ASSUME NEW r \in T!Task, NEW d, SetFits(d.set), d.op \in Forms, d.op = "plan" => DOMAIN d.set = {"assignee"},
           NEW v \in Nat
    PROVE  /\ [T!Changed(r, d.set) EXCEPT !.version = v].phase /\ ~r.phase => T!TakesPhase(d)
           /\ [T!Changed(r, d.set) EXCEPT !.version = v].type = "custom" /\ r.type # "custom" => T!TakesType(d)
<1>. PICK f, m : f = d.set /\ m = T!Changed(r, f)
  OBVIOUS
<1>1. /\ m \in T!Task
      /\ m.phase = IF "phase" \in DOMAIN f THEN f.phase ELSE r.phase
      /\ m.type = IF "type" \in DOMAIN f THEN f.type ELSE r.type
  BY ChangedFits
<1>2. [m EXCEPT !.version = v].phase = m.phase /\ [m EXCEPT !.version = v].type = m.type
  BY <1>1 DEF T!Task
<1>3. m.phase /\ ~r.phase => T!TakesPhase(d)
  BY <1>1 DEF T!TakesPhase, Forms
<1>4. m.type = "custom" /\ r.type # "custom" => T!TakesType(d)
  BY <1>1 DEF T!TakesType, Forms
<1>. QED  BY <1>2, <1>3, <1>4

LEMMA UpdateStep ==
    ASSUME TInv, NEW c \in Calls, T!Update(c), tTask' # tTask, NEW t \in Tasks
    PROVE  ReturnTold(t) /\ OpenTaken(t)
<1>. PICK d, r : d = tCalls[c].ask /\ r = tTask[d.task]
  OBVIOUS
<1>. PICK n : n = [T!Changed(r, d.set) EXCEPT !.version = r.version + 1]
  OBVIOUS
<1>1. /\ tCalls[c].at = "checked" /\ d.op \in Forms /\ d.task \in Tasks /\ r \in T!Task /\ n \in T!Task
      /\ SetFits(d.set) /\ Checked(c) /\ tTask' = [tTask EXCEPT ![d.task] = n] /\ UNCHANGED <<tPhase, tKind>>
  BY UpdateWrites
<1>2. CASE t # d.task
  BY <1>1, <1>2 DEF ReturnTold, OpenTaken
<1>3. CASE t = d.task
  <2>1. tTask[t] = r /\ tTask'[t] = n
    BY <1>1, <1>3 DEF TInv, T!TypeOK
  <2>2. ReturnTold(t)
    <3>1. tTold' = tTold \cup T!AssignmentChanged(d.task, r, n)
                 \cup (IF n.status = "returned" /\ r.status # "returned"
                       THEN T!Emit(n.assignee, d.task, n.version, "returned") ELSE {})
      BY DEF T!Update
    <3>2. n.status = "returned" /\ r.status # "returned" => T!Emit(n.assignee, d.task, n.version, "returned") \subseteq tTold'
      BY <3>1
    <3>3. n.assignee # NoOne => T!Emit(n.assignee, d.task, n.version, "returned") = {<<n.assignee, d.task, n.version, "returned">>}
      BY DEF T!Emit
    <3>. QED  BY <1>3, <2>1, <3>2, <3>3 DEF ReturnTold
  <2>3. OpenTaken(t)
    <3>1. d.op = "plan" => DOMAIN d.set = {"assignee"}
      BY <1>1, TaskCarried DEF TUnder, Forms, TaskOps
    <3>2. PICK v : v = r.version + 1
      OBVIOUS
    <3>3. v \in Nat
      BY <1>1, <3>2 DEF T!Task
    <3>4. n = [T!Changed(r, d.set) EXCEPT !.version = v]
      BY <3>2
    <3>5. (n.phase /\ ~r.phase => T!TakesPhase(d)) /\ (n.type = "custom" /\ r.type # "custom" => T!TakesType(d))
      <4>1. r \in T!Task /\ SetFits(d.set) /\ d.op \in Forms
        BY <1>1
      <4>2. /\ [T!Changed(r, d.set) EXCEPT !.version = v].phase /\ ~r.phase => T!TakesPhase(d)
            /\ [T!Changed(r, d.set) EXCEPT !.version = v].type = "custom" /\ r.type # "custom" => T!TakesType(d)
        BY ONLY <3>1, <3>3, <4>1, FormTakes
      <4>. QED  BY ONLY <3>4, <4>2
    <3>10. (T!TakesPhase(d) => ~tPhase.archived \/ r.phase) /\ (T!TakesType(d) => tKind.active \/ r.type = "custom")
      BY <1>1 DEF Checked
    <3>. QED  BY <1>1, <2>1, <3>5, <3>10 DEF OpenTaken
  <2>. QED  BY <2>2, <2>3
<1>. QED  BY <1>2, <1>3

LEMMA TaskStep ==
    ASSUME TInv, T!Next, NEW t \in Tasks
    PROVE  ReturnTold(t) /\ OpenTaken(t)
<1>1. CASE UNCHANGED tTask
  BY <1>1 DEF ReturnTold, OpenTaken
<1>. SUFFICES ASSUME tTask' # tTask PROVE ReturnTold(t) /\ OpenTaken(t)
  BY <1>1
<1>2. PICK c \in Calls : T!Update(c) \/ T!Create(c) \/ T!Delete(c) \/ T!Move(c)
  BY Written DEF T!Next
<1>3. CASE T!Update(c)
  BY <1>3, UpdateStep
<1>4. CASE T!Create(c)
  <2>. PICK d : d = tCalls[c].ask
    OBVIOUS
  <2>. PICK n : n = Created(d, tCalls[c].seen)
    OBVIOUS
  <2>1. T!At(c, "read", "create") /\ UNCHANGED <<tPhase, tKind>> /\ tTask[d.task].state = "absent"
        /\ tTask' = [tTask EXCEPT ![d.task] = n]
    BY <1>4, CreateWrites
  <2>2. d.task \in Tasks /\ (d.phase => ~tPhase.archived)
    BY <2>1, CreationCarried
  <2>3. CASE t # d.task
    BY <2>1, <2>3 DEF ReturnTold, OpenTaken
  <2>4. CASE t = d.task
    <3>1. tTask'[t] = n /\ n.phase = d.phase /\ n.type = "other"
      BY <2>1, <2>2, <2>4 DEF TInv, T!TypeOK, Created
    <3>. QED  BY <2>1, <2>2, <2>4, <3>1 DEF ReturnTold, OpenTaken
  <2>. QED  BY <2>3, <2>4
<1>5. CASE T!Delete(c)
  <2>. PICK x, v : x = tCalls[c].ask.task /\ v = tCalls[c].seen.version + 1
    OBVIOUS
  <2>. PICK n : n = [tTask[x] EXCEPT !.state = "deleted", !.version = v]
    OBVIOUS
  <2>1. x \in Tasks /\ tTask[x] \in T!Task /\ v \in Nat /\ tTask' = [tTask EXCEPT ![x] = n]
    BY <1>5, DeleteWrites
  <2>2. n.status = tTask[x].status /\ n.phase = tTask[x].phase /\ n.type = tTask[x].type
    BY <2>1, DeletedFits
  <2>3. tTask'[t].status = tTask[t].status /\ tTask'[t].phase = tTask[t].phase /\ tTask'[t].type = tTask[t].type
    BY <2>1, <2>2 DEF TInv, T!TypeOK
  <2>. QED  BY <2>3 DEF ReturnTold, OpenTaken
<1>6. CASE T!Move(c)
  <2>. PICK x : x = tCalls[c].ask.task
    OBVIOUS
  <2>1. PICK m \in T!Task :
          /\ x \in Tasks /\ tTask' = [tTask EXCEPT ![x] = m]
          /\ m.phase = tTask[x].phase /\ m.type = tTask[x].type
          /\ m.status = "returned" => tTask[x].status = "returned"
    BY <1>6, MoveWrites
  <2>2. /\ tTask'[t].phase = tTask[t].phase /\ tTask'[t].type = tTask[t].type
        /\ tTask'[t].status = "returned" => tTask[t].status = "returned"
    BY <2>1 DEF TInv, T!TypeOK
  <2>. QED  BY <2>2 DEF ReturnTold, OpenTaken
<1>. QED  BY <1>2, <1>3, <1>4, <1>5, <1>6

LEMMA ReturnIsToldStep ==
    ASSUME TInv, [T!Next]_(T!vars), NEW t \in Tasks
    PROVE  ReturnTold(t)
BY TaskStep DEF T!vars, ReturnTold

LEMMA OpenIsTakenStep ==
    ASSUME TInv, [T!Next]_(T!vars), NEW t \in Tasks
    PROVE  OpenTaken(t)
BY TaskStep DEF T!vars, OpenTaken

SeenReplaced(c) ==
    /\ (T!At(c, "checked", "update") \/ T!At(c, "checked", "plan")) /\ tTask' # tTask
          /\ tCalls[c] # tCalls'[c]
        => tTask[tCalls[c].ask.task].version = tCalls[c].seen.version
    /\ T!At(c, "read", "recomment") /\ tCalls[c] # tCalls'[c] /\ tComment' # tComment
        => tComment[tCalls[c].ask.comment].version = tCalls[c].seen.version

LEMMA CommentStep ==
    ASSUME TInv, T!Next, NEW c \in Calls, T!At(c, "read", "recomment"), tCalls[c] # tCalls'[c], tComment' # tComment
    PROVE  tComment[tCalls[c].ask.comment].version = tCalls[c].seen.version
<1>1. PICK x \in Calls : T!TaskComments(x)
  <2>1. PICK x \in Calls :
          \/ T!Arrive(x) \/ T!TaskItems(x) \/ T!TestIssues(x) \/ T!TaskDependencies(x) \/ T!TaskComments(x)
          \/ T!TaskBoards(x) \/ T!Milestones(x) \/ T!TaskPhases(x) \/ T!TaskTypes(x) \/ T!Log(x) \/ T!Refuse(x)
    BY DEF T!Next
  <2>2. CASE T!Arrive(x) \/ T!Log(x) \/ T!Refuse(x)
    BY <2>2 DEF T!Arrive, T!Log, T!Refuse, T!rows
  <2>3. CASE T!TaskItems(x)
    BY <2>3 DEF T!TaskItems, T!Check, T!Update, T!Create, T!Relate, T!Unrelate, T!Delete, T!rows
  <2>4. CASE T!TestIssues(x) \/ T!TaskDependencies(x) \/ T!TaskPhases(x) \/ T!TaskTypes(x)
    BY <2>4 DEF T!TestIssues, T!TaskDependencies, T!LinkIssue, T!UnlinkIssue, T!CreateDependency, T!UpdateDependency,
                T!DeleteDependency, T!TaskPhases, T!TaskTypes, T!SavePhase, T!SaveType
  <2>5. CASE T!TaskBoards(x) \/ T!Milestones(x)
    BY <2>5 DEF T!TaskBoards, T!Milestones, T!Move, T!CreateBoard, T!UpdateBoard, T!DeleteBoard, T!CreateBoardColumn,
                T!UpdateBoardColumn, T!DeleteBoardColumn, T!CreateMilestone, T!UpdateMilestone, T!DeleteMilestone, T!WritePlain
  <2>. QED  BY <2>1, <2>2, <2>3, <2>4, <2>5
<1>2. TEnds(x) \/ Saves(x)
  BY <1>1 DEF T!TaskComments, T!CreateComment, T!UpdateComment, T!DeleteComment, T!SetResolved, T!Done, T!Goto, TEnds, Saves
<1>3. x = c
  BY <1>2 DEF TEnds, Saves, TInv, TCallsFit
<1>4. T!UpdateComment(c)
  BY <1>1, <1>3 DEF T!TaskComments, T!CreateComment, T!DeleteComment, T!SetResolved, T!At
<1>. QED  BY <1>4 DEF T!UpdateComment, T!SameVersion

LEMMA SeenIsReplacedStep ==
    ASSUME TInv, [T!Next]_(T!vars), NEW c \in Calls
    PROVE  SeenReplaced(c)
<1>1. CASE UNCHANGED T!vars
  BY <1>1 DEF T!vars, SeenReplaced
<1>2. CASE T!Next
  <2>1. tCalls[c].at = "checked" => tTask[tCalls[c].ask.task].version = tCalls[c].seen.version
    BY TCallShape DEF TInv, TCallFits, TUnder, Checked
  <2>. QED  BY <1>2, <2>1, CommentStep DEF SeenReplaced, T!At
<1>. QED  BY <1>1, <1>2

-----------------------------------------------------------------------------
(* Test designs.  A request that holds the lock was shown what it decides   *)
(* on, and a case's digest is of the text a person confirmed.               *)
\* What a request may ask for.
DAskFits(d) ==
    /\ d.op \in {"save", "execute", "refresh", "link", "unlink"} => d.key \in Keys
    /\ d.op = "save" => d.content \in D!Source \cup {NoSource}
    /\ d.op = "execute" => d.status \in D!Statuses
    /\ d.op \in {"plan", "upload", "complete", "drop"} => d.file \in Files

\* What a call carries.  The version it names of a case is one the case had, and while it still
\* is the case's, so is the content that was seen; under the lock it is.
DUnder(c) == dCalls[c].at \in {"form", "held", "failed"}
CaseSeen(c) ==
    LET r == dCase[dCalls[c].ask.key]
    IN /\ r.exists /\ dCalls[c].version \in Nat /\ dCalls[c].version <= r.version
       /\ dCalls[c].version = r.version => dCalls[c].saw = r.source
       /\ dCalls[c].at = "held" => dCalls[c].version = r.version
DCallFits(c) ==
    DUnder(c) =>
        /\ dCalls[c] = [at |-> dCalls[c].at, ask |-> dCalls[c].ask, version |-> dCalls[c].version, saw |-> dCalls[c].saw]
        /\ DAskFits(dCalls[c].ask)
        /\ dCalls[c].ask.op \in D!Cases => CaseSeen(c)
        /\ D!Holding(c, {"upload", "complete"}) => D!UnderLimit
        /\ dCalls[c].at = "failed" => dCalls[c].ask.op \in {"upload", "complete"}
DCallsFit == dCalls = [c \in Calls |-> dCalls[c]] /\ \A c \in Calls : DCallFits(c)

\* The design's row, and a run's, is locked by one.
Uploads == {"upload", "complete"}
DApart == \A c, x \in Calls : c # x =>
    /\ ~(D!Holding(c, D!Designs \cup D!Cases) /\ D!Holding(x, D!Designs \cup D!Cases))
    /\ ~(D!Holding(c, Uploads) /\ D!Holding(x, Uploads))

\* A case has the content of its key while that is active, and its digest is of the text that was confirmed.
CaseFits(k) ==
    dCase[k].exists =>
        /\ dCase[k].source \in D!Source /\ dCase[k].hash \in D!Source
        /\ dCase[k].hash.text = dConfirmed[k]
        /\ dDesign.content[k] # NoSource => dCase[k].source = dDesign.content[k]
CasesFit == dConfirmed = [k \in Keys |-> dConfirmed[k]] /\ \A k \in Keys : CaseFits(k)

FilesFit == IsFiniteSet(D!LiveFiles) /\ D!FilesWithinLimit

DInv == D!TypeOK /\ DCallsFit /\ DApart /\ CasesFit /\ FilesFit

(* What a call carries.                                                     *)
LEMMA DCallShape ==
    ASSUME DCallsFit, NEW c \in Calls
    PROVE  DCallFits(c)
BY DEF DCallsFit

LEMMA CaseShape ==
    ASSUME D!TypeOK, NEW k \in Keys
    PROVE  /\ dCase[k] \in D!TestCase /\ dCase[k].version \in Nat
           /\ dCase[k] = [exists |-> dCase[k].exists, source |-> dCase[k].source, ack |-> dCase[k].ack,
                         hash |-> dCase[k].hash, status |-> dCase[k].status, version |-> dCase[k].version]
           /\ dDesign.content[k] \in D!Source \cup {NoSource}
BY DEF D!TypeOK, D!TestCase

LEMMA SameCardinality == \A S : D!Cardinality(S) = Cardinality(S)
BY DEF D!Cardinality, Cardinality

LEMMA DAsked ==
    ASSUME NEW d \in D!Requests
    PROVE  DAskFits(d)
BY DEF D!Requests, DAskFits, D!Statuses

LEMMA ShownCase ==
    ASSUME NEW d, d.op \in D!Cases
    PROVE  D!Shown(d) = dCase[d.key].version
<1>1. d.op \notin D!Designs
  BY DEF D!Cases, D!Designs
<1>. QED  BY <1>1, Zenon DEF D!Shown

\* One call moves, and everybody else carries what he carried.
DMoves(c) == dCalls' = [dCalls EXCEPT ![c] = dCalls'[c]]
DEnds(c) == dCalls' = [dCalls EXCEPT ![c] = [at |-> "done"]]

LEMMA DOthers ==
    ASSUME DCallsFit, NEW c \in Calls, DMoves(c), NEW x \in Calls, x # c
    PROVE  dCalls'[x] = dCalls[x]
BY DEF DCallsFit, DMoves

LEMMA DEndsIsMove ==
    ASSUME DCallsFit, NEW c \in Calls, DEnds(c)
    PROVE  DMoves(c) /\ dCalls'[c] = [at |-> "done"] /\ dCalls'[c].at = "done" /\ DCallFits(c)'
<1>1. dCalls'[c] = [at |-> "done"]
  BY DEF DCallsFit, DEnds
<1>2. DMoves(c)
  BY <1>1 DEF DCallsFit, DEnds, DMoves
<1>3. DCallFits(c)'
  BY <1>1 DEF DCallFits, DUnder
<1>. QED  BY <1>1, <1>2, <1>3

\* A case that was seen goes on: a change of its content is a change of its version.
GoesOn(k) ==
    dCase[k].exists =>
        /\ dCase'[k].exists /\ dCase[k].version <= dCase'[k].version
        /\ dCase'[k].version = dCase[k].version => dCase'[k].source = dCase[k].source

LEMMA SeenStays ==
    ASSUME D!TypeOK, D!TypeOK', NEW x \in Calls, DCallFits(x), dCalls'[x] = dCalls[x],
           DUnder(x), dCalls[x].ask.op \in D!Cases, GoesOn(dCalls[x].ask.key),
           dCalls[x].at = "held" => dCase'[dCalls[x].ask.key] = dCase[dCalls[x].ask.key]
    PROVE  CaseSeen(x)'
<1>. PICK k \in Keys : k = dCalls[x].ask.key
  BY DEF DCallFits, DAskFits, D!Cases
<1>0. dCalls'[x].ask.key = k /\ dCalls'[x] = dCalls[x] /\ dCase[k].version \in Nat /\ dCase'[k].version \in Nat
  BY DEF D!TypeOK, D!TestCase
<1>1. CaseSeen(x)
  BY DEF DCallFits
<1>2. dCalls[x].version \in Nat /\ dCalls[x].version <= dCase[k].version /\ dCase'[k].exists /\ dCase[k].version <= dCase'[k].version
  BY <1>1 DEF CaseSeen, GoesOn
<1>3. dCalls[x].version <= dCase'[k].version
  BY <1>0, <1>2
<1>4. dCalls[x].version = dCase'[k].version => dCalls[x].saw = dCase'[k].source
  <2>. SUFFICES ASSUME dCalls[x].version = dCase'[k].version PROVE dCalls[x].saw = dCase'[k].source
    OBVIOUS
  <2>1. dCase'[k].version = dCase[k].version
    BY <1>0, <1>2
  <2>. QED  BY <1>1, <2>1 DEF CaseSeen, GoesOn
<1>5. dCalls[x].at = "held" => dCalls[x].version = dCase'[k].version
  BY <1>1 DEF CaseSeen
<1>. QED  BY <1>0, <1>2, <1>3, <1>4, <1>5 DEF CaseSeen

\* What is left of a call whose neighbour made a step.
LEMMA DOtherFits ==
    ASSUME D!TypeOK, D!TypeOK', DCallsFit, NEW c \in Calls, DMoves(c), NEW x \in Calls, x # c,
           \A k \in Keys : GoesOn(k),
           D!Holding(x, D!Cases) => dCase'[dCalls[x].ask.key] = dCase[dCalls[x].ask.key],
           D!Holding(x, Uploads) => D!UnderLimit'
    PROVE  DCallFits(x)'
<1>1. dCalls'[x] = dCalls[x] /\ DCallFits(x)
  BY DOthers, DCallShape
<1>2. (D!Holding(x, {"upload", "complete"})' => D!UnderLimit') /\ (DUnder(x)' <=> DUnder(x))
  BY <1>1 DEF D!Holding, D!At, DUnder, Uploads
<1>3. DUnder(x) /\ dCalls[x].ask.op \in D!Cases => CaseSeen(x)'
  <2>. SUFFICES ASSUME DUnder(x), dCalls[x].ask.op \in D!Cases PROVE CaseSeen(x)'
    OBVIOUS
  <2>1. dCalls[x].ask.key \in Keys
    BY <1>1 DEF DCallFits, DAskFits, D!Cases
  <2>2. dCalls[x].at = "held" => dCase'[dCalls[x].ask.key] = dCase[dCalls[x].ask.key]
    BY DEF D!Holding, D!At
  <2>. QED  BY <1>1, <2>1, <2>2, SeenStays
<1>4. DUnder(x) => DAskFits(dCalls[x].ask)
  BY <1>1 DEF DCallFits
<1>. QED  BY <1>1, <1>2, <1>3, <1>4 DEF DCallFits

LEMMA DCallsStay ==
    ASSUME D!TypeOK, D!TypeOK', DCallsFit, NEW c \in Calls, DMoves(c), DCallFits(c)',
           \A k \in Keys : GoesOn(k),
           \A x \in Calls \ {c} : D!Holding(x, D!Cases) => dCase'[dCalls[x].ask.key] = dCase[dCalls[x].ask.key],
           \A x \in Calls \ {c} : D!Holding(x, Uploads) => D!UnderLimit'
    PROVE  DCallsFit'
<1>1. dCalls' = [x \in Calls |-> dCalls'[x]]
  BY DEF DCallsFit, DMoves
<1>2. \A x \in Calls : x # c => DCallFits(x)'
  BY DOtherFits
<1>. QED  BY <1>1, <1>2 DEF DCallsFit

\* No lock is taken, or the one taken was free.
LEMMA DApartStays ==
    ASSUME DCallsFit, DApart, NEW c \in Calls, DMoves(c),
           D!Holding(c, D!Designs \cup D!Cases)' => \A x \in Calls \ {c} : ~D!Holding(x, D!Designs \cup D!Cases),
           D!Holding(c, Uploads)' => \A x \in Calls \ {c} : ~D!Holding(x, Uploads)
    PROVE  DApart'
<1>1. \A x \in Calls \ {c} : (D!Holding(x, D!Designs \cup D!Cases)' <=> D!Holding(x, D!Designs \cup D!Cases))
                             /\ (D!Holding(x, Uploads)' <=> D!Holding(x, Uploads))
  BY DOthers DEF D!Holding, D!At
<1>. SUFFICES ASSUME NEW y \in Calls, NEW x \in Calls, y # x
              PROVE  /\ ~(D!Holding(y, D!Designs \cup D!Cases)' /\ D!Holding(x, D!Designs \cup D!Cases)')
                     /\ ~(D!Holding(y, Uploads)' /\ D!Holding(x, Uploads)')
  BY DEF DApart
<1>2. CASE y # c /\ x # c
  BY <1>1, <1>2 DEF DApart
<1>3. CASE y = c
  BY <1>1, <1>3
<1>4. CASE x = c
  BY <1>1, <1>4
<1>. QED  BY <1>2, <1>3, <1>4

\* Whoever holds a lock, holds it alone.
LEMMA Alone ==
    ASSUME DApart, NEW c \in Calls, NEW x \in Calls, x # c
    PROVE  /\ D!Holding(c, D!Designs \cup D!Cases) => ~D!Holding(x, D!Cases) /\ ~D!Holding(x, D!Designs \cup D!Cases)
           /\ D!Holding(c, Uploads) => ~D!Holding(x, Uploads)
BY DEF DApart, D!Holding, D!At

-----------------------------------------------------------------------------

(* Steps that leave the cases and the files alone.                          *)
LEMMA CasesRest ==
    ASSUME CasesFit, UNCHANGED <<dDesign, dCase, dConfirmed>>
    PROVE  CasesFit'
BY DEF CasesFit, CaseFits

LEMMA FilesRest ==
    ASSUME FilesFit, UNCHANGED dFile
    PROVE  FilesFit' /\ (D!UnderLimit' <=> D!UnderLimit) /\ D!LiveFiles' = D!LiveFiles
<1>1. D!LiveFiles' = D!LiveFiles
  BY DEF D!LiveFiles
<1>. QED  BY SameCardinality, <1>1 DEF FilesFit, D!FilesWithinLimit, D!UnderLimit

LEMMA AllGoOn ==
    ASSUME D!TypeOK, UNCHANGED dCase
    PROVE  \A k \in Keys : GoesOn(k)
BY DEF GoesOn, D!TypeOK, D!TestCase

LEMMA NothingMoves ==
    ASSUME DInv, D!TypeOK', NEW c \in Calls, DMoves(c), DCallFits(c)', DApart',
           UNCHANGED <<dDesign, dCase, dConfirmed, dFile>>
    PROVE  DInv'
<1>1. \A x \in Calls \ {c} : D!Holding(x, Uploads) => D!UnderLimit'
  BY FilesRest, DCallShape DEF DInv, DCallFits, Uploads, D!Holding, D!At, DUnder
<1>2. DCallsFit'
  BY <1>1, DCallsStay, AllGoOn DEF DInv
<1>3. CasesFit'
  BY DEF DInv, CasesFit, CaseFits
<1>4. FilesFit'
  BY FilesRest DEF DInv
<1>. QED  BY <1>2, <1>3, <1>4 DEF DInv

LEMMA DEndsQuietly ==
    ASSUME DInv, D!TypeOK', NEW c \in Calls, DEnds(c), UNCHANGED <<dDesign, dCase, dConfirmed, dFile>>
    PROVE  DInv'
<1>1. DMoves(c) /\ DCallFits(c)' /\ dCalls'[c].at = "done"
  BY DEndsIsMove DEF DInv
<1>2. DApart'
  BY <1>1, DApartStays DEF DInv, D!Holding, D!At
<1>. QED  BY <1>1, <1>2, NothingMoves

LEMMA DTypesRest ==
    ASSUME D!TypeOK, UNCHANGED <<dDesign, dCase, dRuns, dObject, dFile>>
    PROVE  D!TypeOK'
BY DEF D!TypeOK

LEMMA DLooks ==
    ASSUME DInv, NEW c \in Calls, D!Look(c)
    PROVE  DInv'
<1>1. UNCHANGED <<dDesign, dCase, dRuns, dConfirmed, dObject, dFile>>
  BY DEF D!Look, D!tests, D!files
<1>2. D!TypeOK'
  BY <1>1, DTypesRest DEF DInv
<1>3. PICK d \in D!Requests :
        /\ d.op \in D!Cases => dCase[d.key].exists
        /\ dCalls' = [dCalls EXCEPT ![c] = [at |-> "form", ask |-> d, version |-> D!Shown(d),
                       saw |-> IF d.op \in D!Cases THEN dCase[d.key].source ELSE NoSource]]
  BY DEF D!Look
<1>4. PICK v, s : v = D!Shown(d) /\ s = (IF d.op \in D!Cases THEN dCase[d.key].source ELSE NoSource)
  OBVIOUS
<1>5. dCalls'[c] = [at |-> "form", ask |-> d, version |-> v, saw |-> s]
  BY <1>3, <1>4 DEF DInv, DCallsFit
<1>6. DMoves(c)
  BY <1>3, <1>4, <1>5 DEF DMoves
<1>7. DAskFits(d)
  BY DAsked
<1>8. d.op \in D!Cases => CaseSeen(c)'
  <2>. SUFFICES ASSUME d.op \in D!Cases PROVE CaseSeen(c)'
    OBVIOUS
  <2>1. d.key \in Keys
    BY <1>7 DEF DAskFits, D!Cases
  <2>2. v = dCase[d.key].version /\ s = dCase[d.key].source /\ dCase[d.key].exists
    BY <1>3, <1>4, ShownCase
  <2>3. v \in Nat
    BY <2>1, <2>2, CaseShape DEF DInv
  <2>. QED  BY <1>1, <1>5, <2>2, <2>3 DEF CaseSeen
<1>9. DCallFits(c)'
  BY <1>5, <1>7, <1>8 DEF DCallFits, D!Holding, D!At
<1>10. DApart'
  BY <1>5, <1>6, DApartStays DEF DInv, D!Holding, D!At
<1>. QED  BY <1>1, <1>2, <1>6, <1>9, <1>10, NothingMoves

LEMMA DRests ==
    ASSUME DInv, NEW c \in Calls, D!Refuse(c) \/ D!CreateLink(c) \/ D!DeleteLink(c) \/ D!CreateComment(c) \/ D!UpdateComment(c)
    PROVE  DInv'
<1>1. DEnds(c) /\ UNCHANGED <<dDesign, dCase, dRuns, dConfirmed, dObject, dFile>>
  BY DEF D!Refuse, D!CreateLink, D!DeleteLink, D!CreateComment, D!UpdateComment, D!tests, D!files, D!Done, DEnds
<1>2. D!TypeOK'
  BY <1>1, DTypesRest DEF DInv
<1>. QED  BY <1>1, <1>2, DEndsQuietly

LEMMA DAgain ==
    ASSUME DInv, NEW c \in Calls, D!Again(c)
    PROVE  DInv'
<1>1. dCalls' = [dCalls EXCEPT ![c] = [at |-> "idle"]] /\ UNCHANGED <<dDesign, dCase, dRuns, dConfirmed, dObject, dFile>>
  BY DEF D!Again, D!tests, D!files
<1>2. D!TypeOK'
  BY <1>1, DTypesRest DEF DInv
<1>3. dCalls'[c] = [at |-> "idle"] /\ dCalls'[c].at = "idle"
  BY <1>1 DEF DInv, DCallsFit
<1>4. DMoves(c)
  BY <1>1, <1>3 DEF DMoves
<1>5. DCallFits(c)'
  BY <1>3 DEF DCallFits, DUnder
<1>6. DApart'
  BY <1>3, <1>4, DApartStays DEF DInv, D!Holding, D!At
<1>. QED  BY <1>1, <1>2, <1>4, <1>5, <1>6, NothingMoves

\* A handler that goes on to another stage keeps what it carries.
LEMMA Stage ==
    ASSUME DInv, NEW c \in Calls, NEW s, DUnder(c), dCalls' = [dCalls EXCEPT ![c].at = s]
    PROVE  /\ DMoves(c)
           /\ dCalls'[c] = [at |-> s, ask |-> dCalls[c].ask, version |-> dCalls[c].version, saw |-> dCalls[c].saw]
<1>1. dCalls[c] = [at |-> dCalls[c].at, ask |-> dCalls[c].ask, version |-> dCalls[c].version, saw |-> dCalls[c].saw]
  BY DCallShape DEF DInv, DCallFits
<1>2. dCalls'[c] = [dCalls[c] EXCEPT !.at = s]
  BY DEF DInv, DCallsFit
<1>3. DMoves(c)
  BY <1>2 DEF DMoves, DInv, DCallsFit
<1>. QED  BY <1>1, <1>2, <1>3

LEMMA DLocks ==
    ASSUME DInv, NEW c \in Calls, D!Lock(c)
    PROVE  DInv'
<1>1. /\ dCalls[c].at = "form" /\ dCalls[c].ask.op \in D!Designs \cup D!Cases /\ D!LockFree(c)
      /\ dCalls' = [dCalls EXCEPT ![c].at = "held"]
      /\ dCalls[c].version = (IF dCalls[c].ask.op \in D!Designs THEN dDesign.version ELSE dCase[dCalls[c].ask.key].version)
      /\ UNCHANGED <<dDesign, dCase, dRuns, dConfirmed, dObject, dFile>>
  BY DEF D!Lock, D!At, D!Goto, D!tests, D!files
<1>2. D!TypeOK'
  BY <1>1, DTypesRest DEF DInv
<1>3. DMoves(c) /\ dCalls'[c] = [at |-> "held", ask |-> dCalls[c].ask, version |-> dCalls[c].version, saw |-> dCalls[c].saw]
  BY <1>1, Stage DEF DUnder
<1>4. DCallFits(c)
  BY DCallShape DEF DInv
<1>5. dCalls[c].ask.op \notin Uploads
  BY <1>1 DEF D!Designs, D!Cases, Uploads
<1>6. dCalls[c].ask.op \in D!Cases => CaseSeen(c)'
  <2>1. dCalls[c].ask.op \in D!Cases => dCalls[c].version = dCase[dCalls[c].ask.key].version /\ CaseSeen(c)
    BY <1>1, <1>4 DEF D!Cases, D!Designs, DCallFits, DUnder
  <2>. QED  BY <1>1, <1>3, <2>1 DEF CaseSeen
<1>7. DCallFits(c)'
  BY <1>1, <1>3, <1>4, <1>5, <1>6 DEF DCallFits, DUnder, D!Holding, D!At, Uploads
<1>8. DApart'
  <2>1. \A x \in Calls : ~D!Holding(x, D!Designs \cup D!Cases)
    BY <1>1 DEF D!LockFree
  <2>. QED  BY <1>3, <1>5, <2>1, DApartStays DEF DInv, D!Holding, D!At
<1>. QED  BY <1>1, <1>2, <1>3, <1>7, <1>8, NothingMoves

-----------------------------------------------------------------------------

(* The design and its cases.                                                *)
LEMMA CaseWrite ==
    ASSUME DInv, D!TypeOK', NEW c \in Calls, DEnds(c), D!Holding(c, D!Designs \cup D!Cases),
           UNCHANGED dFile, \A k \in Keys : GoesOn(k), CasesFit'
    PROVE  DInv'
<1>1. DMoves(c) /\ DCallFits(c)' /\ dCalls'[c].at = "done"
  BY DEndsIsMove DEF DInv
<1>2. \A x \in Calls \ {c} : ~D!Holding(x, D!Cases)
  BY Alone DEF DInv
<1>3. \A x \in Calls \ {c} : D!Holding(x, Uploads) => D!UnderLimit'
  BY FilesRest, DCallShape DEF DInv, DCallFits, Uploads, D!Holding, D!At, DUnder
<1>4. DCallsFit'
  BY <1>1, <1>2, <1>3, DCallsStay DEF DInv
<1>5. DApart'
  BY <1>1, DApartStays DEF DInv, D!Holding, D!At
<1>6. FilesFit'
  BY FilesRest DEF DInv
<1>. QED  BY <1>4, <1>5, <1>6 DEF DInv

LEMMA DesignShape ==
    ASSUME D!TypeOK
    PROVE  /\ dDesign = [live |-> dDesign.live, version |-> dDesign.version, content |-> dDesign.content]
           /\ dDesign.live \in BOOLEAN /\ dDesign.version \in Nat /\ dDesign.version + 1 \in Nat
           /\ dDesign.content \in [Keys -> D!Source \cup {NoSource}]
BY DEF D!TypeOK

LEMMA NewVersionGoesOn ==
    ASSUME NEW k \in Keys, dCase[k].version \in Nat, dCase'[k].version = dCase[k].version + 1,
           dCase[k].exists => dCase'[k].exists
    PROVE  GoesOn(k)
<1>1. dCase[k].version <= dCase'[k].version /\ dCase'[k].version # dCase[k].version
  OBVIOUS
<1>. QED  BY <1>1 DEF GoesOn

LEMMA GeneratedFits ==
    ASSUME NEW s \in D!Source
    PROVE  /\ D!Generated(s) \in D!TestCase /\ D!Generated(s).exists /\ D!Generated(s).source = s
           /\ D!Generated(s).hash = s
BY DEF D!Generated, D!TestCase, D!Statuses

LEMMA SyncedFits ==
    ASSUME NEW r \in D!TestCase, NEW s \in D!Source, r.source \in D!Source, r.hash \in D!Source
    PROVE  /\ D!Synced(r, s) \in D!TestCase /\ D!Synced(r, s).exists = r.exists /\ D!Synced(r, s).source = s
           /\ D!Synced(r, s).version = r.version + 1 /\ D!Synced(r, s).hash \in D!Source
           /\ D!Synced(r, s).hash.text = r.hash.text
<1>1. PICK v, a, h :
        /\ v = D!NewVersion(r)
        /\ a = (IF D!Agrees(r, s) THEN s ELSE IF r.ack = NoSource /\ D!was_acknowledged(r) THEN r.source ELSE r.ack)
        /\ h = (IF D!Agrees(r, s) THEN s ELSE r.hash)
  OBVIOUS
<1>2. v = r.version + 1 /\ v \in Nat /\ a \in D!Source \cup {NoSource} /\ h \in D!Source
  BY <1>1 DEF D!NewVersion, D!TestCase
<1>3. h.text = r.hash.text
  BY <1>1 DEF D!Agrees, D!was_acknowledged, D!source_without_item_code
<1>4. D!Synced(r, s) = [r EXCEPT !.source = s, !.version = v, !.ack = a, !.hash = h]
  BY <1>1 DEF D!Synced
<1>5. D!Synced(r, s) = [exists |-> r.exists, source |-> s, ack |-> a, hash |-> h, status |-> r.status, version |-> v]
  BY <1>4 DEF D!TestCase
<1>. QED  BY <1>2, <1>3, <1>5 DEF D!TestCase

LEMMA DSaves ==
    ASSUME DInv, NEW c \in Calls, D!Save(c)
    PROVE  DInv'
<1>. PICK k, s : k = dCalls[c].ask.key /\ s = dCalls[c].ask.content
  OBVIOUS
<1>. PICK content : content = [dDesign.content EXCEPT ![k] = s]
  OBVIOUS
<1>. PICK made : made = {x \in Keys : content[x] # NoSource /\ ~dCase[x].exists}
  OBVIOUS
<1>1. /\ dCalls[c].at = "held" /\ dCalls[c].ask.op = "save" /\ DEnds(c)
      /\ UNCHANGED <<dRuns, dObject, dFile>>
      /\ dDesign' = [dDesign EXCEPT !.content = content, !.version = @ + 1]
      /\ dCase' = [x \in Keys |->
                    IF x \in made THEN D!Generated(content[x])
                    ELSE IF content[x] # NoSource /\ dCase[x].source # content[x]
                    THEN D!Synced(dCase[x], content[x]) ELSE dCase[x]]
      /\ dConfirmed' = [x \in Keys |-> IF x \in made THEN content[x].text ELSE dConfirmed[x]]
  BY DEF D!Save, D!Holding, D!At, D!Done, DEnds, D!files
<1>2. k \in Keys /\ s \in D!Source \cup {NoSource}
  BY <1>1, DCallShape DEF DInv, DCallFits, DAskFits, DUnder
<1>3. content \in [Keys -> D!Source \cup {NoSource}]
  BY <1>2 DEF DInv, D!TypeOK
<1>4. dDesign'.content = content /\ dDesign' \in [live : BOOLEAN, version : Nat, content : [Keys -> D!Source \cup {NoSource}]]
  <2>1. dDesign' = [live |-> dDesign.live, version |-> dDesign.version + 1, content |-> content]
    BY <1>1, DesignShape DEF DInv
  <2>. QED  BY <1>3, <2>1, DesignShape DEF DInv
<1>5. \A x \in Keys : /\ dCase'[x] \in D!TestCase /\ GoesOn(x)
                      /\ dCase'[x].exists =>
                            /\ dCase'[x].source \in D!Source /\ dCase'[x].hash \in D!Source
                            /\ dCase'[x].hash.text = dConfirmed'[x]
                            /\ content[x] # NoSource => dCase'[x].source = content[x]
  <2>. SUFFICES ASSUME NEW x \in Keys
                PROVE  /\ dCase'[x] \in D!TestCase /\ GoesOn(x)
                       /\ dCase'[x].exists =>
                            /\ dCase'[x].source \in D!Source /\ dCase'[x].hash \in D!Source
                            /\ dCase'[x].hash.text = dConfirmed'[x]
                            /\ content[x] # NoSource => dCase'[x].source = content[x]
    OBVIOUS
  <2>1. CaseFits(x) /\ dCase[x] \in D!TestCase /\ dCase[x].version \in Nat
    BY CaseShape DEF DInv, CasesFit
  <2>2. CASE x \in made
    <3>1. content[x] \in D!Source /\ ~dCase[x].exists
      BY <1>3, <2>2
    <3>2. dCase'[x] = D!Generated(content[x]) /\ dConfirmed'[x] = content[x].text
      BY <1>1, <2>2
    <3>. QED  BY <3>1, <3>2, GeneratedFits DEF GoesOn
  <2>3. CASE x \notin made /\ content[x] # NoSource /\ dCase[x].source # content[x]
    <3>1. content[x] \in D!Source /\ dCase[x].exists
      BY <1>3, <2>3
    <3>2. dCase'[x] = D!Synced(dCase[x], content[x]) /\ dConfirmed'[x] = dConfirmed[x]
      BY <1>1, <2>3
    <3>3. dCase[x].source \in D!Source /\ dCase[x].hash \in D!Source /\ dCase[x].hash.text = dConfirmed[x]
      BY <2>1, <3>1 DEF CaseFits
    <3>4. PICK r : r = D!Synced(dCase[x], content[x])
      OBVIOUS
    <3>5. /\ r \in D!TestCase /\ r.exists = dCase[x].exists /\ r.source = content[x]
          /\ r.version = dCase[x].version + 1 /\ r.hash \in D!Source /\ r.hash.text = dCase[x].hash.text
      BY <2>1, <3>1, <3>3, <3>4, SyncedFits
    <3>6. GoesOn(x)
      BY <2>1, <3>2, <3>4, <3>5, NewVersionGoesOn
    <3>. QED  BY <3>1, <3>2, <3>3, <3>4, <3>5, <3>6
  <2>4. CASE x \notin made /\ ~(content[x] # NoSource /\ dCase[x].source # content[x])
    <3>1. dCase'[x] = dCase[x] /\ dConfirmed'[x] = dConfirmed[x]
      BY <1>1, <2>4
    <3>2. GoesOn(x)
      BY <2>1, <3>1 DEF GoesOn
    <3>. QED  BY <2>1, <2>4, <3>1, <3>2 DEF CaseFits
  <2>. QED  BY <2>2, <2>3, <2>4
<1>6. CasesFit'
  BY <1>1, <1>4, <1>5 DEF CasesFit, CaseFits
<1>7. D!TypeOK'
  BY <1>1, <1>4, <1>5 DEF DInv, D!TypeOK
<1>8. D!Holding(c, D!Designs \cup D!Cases)
  BY <1>1 DEF D!Holding, D!At, D!Designs
<1>. QED  BY <1>1, <1>5, <1>6, <1>7, <1>8, CaseWrite

LEMMA DGenerates ==
    ASSUME DInv, NEW c \in Calls, D!Generate(c)
    PROVE  DInv'
<1>. PICK made : made = {x \in D!case_sources : ~dCase[x].exists}
  OBVIOUS
<1>1. /\ dCalls[c].at = "held" /\ dCalls[c].ask.op = "generate" /\ DEnds(c)
      /\ UNCHANGED <<dDesign, dRuns, dObject, dFile>>
      /\ dCase' = [x \in Keys |-> IF x \in made THEN D!Generated(dDesign.content[x]) ELSE dCase[x]]
      /\ dConfirmed' = [x \in Keys |-> IF x \in made THEN dDesign.content[x].text ELSE dConfirmed[x]]
  BY DEF D!Generate, D!Holding, D!At, D!Done, DEnds, D!files
<1>2. \A x \in Keys : dCase'[x] \in D!TestCase /\ GoesOn(x) /\ CaseFits(x)'
  <2>. SUFFICES ASSUME NEW x \in Keys PROVE dCase'[x] \in D!TestCase /\ GoesOn(x) /\ CaseFits(x)'
    OBVIOUS
  <2>1. CaseFits(x) /\ dCase[x] \in D!TestCase /\ dCase[x].version \in Nat /\ dDesign.content[x] \in D!Source \cup {NoSource}
    BY CaseShape DEF DInv, CasesFit
  <2>2. CASE x \in made
    <3>1. dDesign.content[x] \in D!Source /\ ~dCase[x].exists
      BY <2>1, <2>2 DEF D!case_sources
    <3>2. dCase'[x] = D!Generated(dDesign.content[x]) /\ dConfirmed'[x] = dDesign.content[x].text
      BY <1>1, <2>2
    <3>. QED  BY <1>1, <3>1, <3>2, GeneratedFits DEF GoesOn, CaseFits
  <2>3. CASE x \notin made
    <3>1. dCase'[x] = dCase[x] /\ dConfirmed'[x] = dConfirmed[x]
      BY <1>1, <2>3
    <3>. QED  BY <1>1, <2>1, <3>1 DEF GoesOn, CaseFits
  <2>. QED  BY <2>2, <2>3
<1>3. CasesFit'
  BY <1>1, <1>2 DEF CasesFit
<1>4. D!TypeOK'
  BY <1>1, <1>2 DEF DInv, D!TypeOK
<1>5. D!Holding(c, D!Designs \cup D!Cases)
  BY <1>1 DEF D!Holding, D!At, D!Designs
<1>. QED  BY <1>1, <1>2, <1>3, <1>4, <1>5, CaseWrite

LEMMA DDeletes ==
    ASSUME DInv, NEW c \in Calls, D!DeleteDesign(c)
    PROVE  DInv'
<1>1. /\ dCalls[c].at = "held" /\ dCalls[c].ask.op = "delete" /\ DEnds(c)
      /\ UNCHANGED <<dCase, dRuns, dConfirmed, dObject, dFile>>
      /\ dDesign' = [dDesign EXCEPT !.live = FALSE, !.version = @ + 1]
  BY DEF D!DeleteDesign, D!Holding, D!At, D!Done, DEnds, D!files
<1>2. dDesign'.content = dDesign.content /\ dDesign' \in [live : BOOLEAN, version : Nat, content : [Keys -> D!Source \cup {NoSource}]]
  <2>1. dDesign' = [live |-> FALSE, version |-> dDesign.version + 1, content |-> dDesign.content]
    BY <1>1, DesignShape DEF DInv
  <2>. QED  BY <2>1, DesignShape DEF DInv
<1>3. CasesFit'
  BY <1>1, <1>2 DEF DInv, CasesFit, CaseFits
<1>4. D!TypeOK'
  BY <1>1, <1>2 DEF DInv, D!TypeOK
<1>5. D!Holding(c, D!Designs \cup D!Cases)
  BY <1>1 DEF D!Holding, D!At, D!Designs
<1>. QED  BY <1>1, <1>3, <1>4, <1>5, AllGoOn, CaseWrite DEF DInv

\* Fields of one row, written one after the other, are one write of the row.
LEMMA Twice ==
    ASSUME NEW k \in Keys, NEW s
    PROVE  [dCase EXCEPT ![k].status = s, ![k].version = @ + 1]
           = [dCase EXCEPT ![k] = [dCase[k] EXCEPT !.status = s, !.version = @ + 1]]
OBVIOUS

LEMMA ResultWritten ==
    ASSUME NEW q \in D!TestCase, NEW s
    PROVE  [q EXCEPT !.status = s, !.version = @ + 1] =
           [exists |-> q.exists, source |-> q.source, ack |-> q.ack, hash |-> q.hash, status |-> s, version |-> q.version + 1]
<1>1. PICK w : w = [q EXCEPT !.status = s]
  OBVIOUS
<1>2. w = [exists |-> q.exists, source |-> q.source, ack |-> q.ack, hash |-> q.hash, status |-> s, version |-> q.version]
  BY <1>1 DEF D!TestCase
<1>3. [w EXCEPT !.version = @ + 1] =
      [exists |-> q.exists, source |-> q.source, ack |-> q.ack, hash |-> q.hash, status |-> s, version |-> q.version + 1]
  BY <1>2
<1>4. [q EXCEPT !.status = s, !.version = @ + 1] = [w EXCEPT !.version = @ + 1]
  BY <1>1
<1>. QED  BY <1>3, <1>4

LEMMA ContentWritten ==
    ASSUME NEW q \in D!TestCase, NEW s
    PROVE  D!Refreshed(q, s) =
           [exists |-> q.exists, source |-> s, ack |-> s, hash |-> s, status |-> q.status, version |-> q.version + 1]
<1>1. PICK w : w = [q EXCEPT !.source = s, !.ack = s, !.hash = s]
  OBVIOUS
<1>2. w = [exists |-> q.exists, source |-> s, ack |-> s, hash |-> s, status |-> q.status, version |-> q.version]
  <2>1. PICK u : u = [q EXCEPT !.source = s]
    OBVIOUS
  <2>2. u = [exists |-> q.exists, source |-> s, ack |-> q.ack, hash |-> q.hash, status |-> q.status, version |-> q.version]
    BY <2>1 DEF D!TestCase
  <2>3. PICK v : v = [u EXCEPT !.ack = s]
    OBVIOUS
  <2>4. v = [exists |-> q.exists, source |-> s, ack |-> s, hash |-> q.hash, status |-> q.status, version |-> q.version]
    BY <2>2, <2>3
  <2>5. w = [v EXCEPT !.hash = s]
    BY <1>1, <2>1, <2>3
  <2>. QED  BY <2>4, <2>5
<1>3. [w EXCEPT !.version = @ + 1] =
      [exists |-> q.exists, source |-> s, ack |-> s, hash |-> s, status |-> q.status, version |-> q.version + 1]
  BY <1>2
<1>4. D!Refreshed(q, s) = [w EXCEPT !.version = @ + 1]
  BY <1>1 DEF D!Refreshed
<1>. QED  BY <1>3, <1>4

LEMMA DExecutes ==
    ASSUME DInv, NEW c \in Calls, D!Execute(c)
    PROVE  DInv'
<1>. PICK k, run : /\ k = dCalls[c].ask.key
                   /\ run = [run_number |-> dRuns[k].run_number + 1, status |-> dCalls[c].ask.status, source |-> dCase[k].source]
  OBVIOUS
<1>1. /\ dCalls[c].at = "held" /\ dCalls[c].ask.op = "execute" /\ DEnds(c)
      /\ UNCHANGED <<dDesign, dConfirmed, dObject, dFile>>
      /\ dRuns' = [dRuns EXCEPT ![k] = run]
      /\ dCase' = [dCase EXCEPT ![k].status = run.status, ![k].version = @ + 1]
  BY DEF D!Execute, D!Holding, D!At, D!Done, DEnds, D!files
<1>2. k \in Keys /\ run.status \in D!Statuses
  BY <1>1, DCallShape DEF DInv, DCallFits, DAskFits, DUnder
<1>3. dCase[k] \in D!TestCase /\ CaseFits(k) /\ dRuns[k] \in D!TestExecution
  BY <1>2 DEF DInv, D!TypeOK, CasesFit
<1>4. PICK r : r = [exists |-> dCase[k].exists, source |-> dCase[k].source, ack |-> dCase[k].ack,
                    hash |-> dCase[k].hash, status |-> run.status, version |-> dCase[k].version + 1]
  OBVIOUS
<1>5. dCase' = [dCase EXCEPT ![k] = r]
  <2>1. PICK s : s = run.status
    OBVIOUS
  <2>2. dCase' = [dCase EXCEPT ![k].status = s, ![k].version = @ + 1]
    BY <1>1, <2>1
  <2>3. [dCase[k] EXCEPT !.status = s, !.version = @ + 1] = r
    <3>1. PICK q : q = dCase[k]
      OBVIOUS
    <3>2. r = [exists |-> q.exists, source |-> q.source, ack |-> q.ack, hash |-> q.hash, status |-> s, version |-> q.version + 1]
      BY <1>4, <2>1, <3>1
    <3>3. q \in D!TestCase
      BY <1>3, <3>1
    <3>4. [q EXCEPT !.status = s, !.version = @ + 1] = r
      BY <3>2, <3>3, ResultWritten
    <3>. QED  BY <3>1, <3>4
  <2>. QED  BY <1>2, <2>2, <2>3, Twice
<1>6. r \in D!TestCase
  BY <1>2, <1>3, <1>4 DEF D!TestCase
<1>7. r.version = dCase[k].version + 1 /\ r.source = dCase[k].source /\ r.hash = dCase[k].hash /\ r.exists = dCase[k].exists
  BY <1>4
<1>8. run \in D!TestExecution
  BY <1>2, <1>3 DEF D!TestExecution, D!TestCase
<1>9. dCase' \in [Keys -> D!TestCase] /\ \A x \in Keys : dCase'[x] = IF x = k THEN r ELSE dCase[x]
  BY <1>2, <1>5, <1>6 DEF DInv, D!TypeOK
<1>10. D!TypeOK'
  BY <1>1, <1>8, <1>9 DEF DInv, D!TypeOK
<1>11. \A x \in Keys : GoesOn(x)
  <2>. SUFFICES ASSUME NEW x \in Keys PROVE GoesOn(x)
    OBVIOUS
  <2>1. CASE x = k
    BY <1>7, <1>9, <2>1, CaseShape, NewVersionGoesOn DEF DInv
  <2>2. CASE x # k
    <3>1. dCase'[x] = dCase[x] /\ dCase[x].version \in Nat
      BY <1>9, <2>2, CaseShape DEF DInv
    <3>. QED  BY <3>1 DEF GoesOn
  <2>. QED  BY <2>1, <2>2
<1>12. \A x \in Keys : CaseFits(x)'
  <2>. SUFFICES ASSUME NEW x \in Keys PROVE CaseFits(x)'
    OBVIOUS
  <2>1. CaseFits(x)
    BY DEF DInv, CasesFit
  <2>2. /\ dCase'[x].exists = dCase[x].exists /\ dCase'[x].source = dCase[x].source /\ dCase'[x].hash = dCase[x].hash
        /\ dConfirmed' = dConfirmed /\ dDesign' = dDesign
    BY <1>1, <1>7, <1>9
  <2>. QED  BY <2>1, <2>2 DEF CaseFits
<1>13. CasesFit'
  BY <1>1, <1>12 DEF DInv, CasesFit
<1>14. D!Holding(c, D!Designs \cup D!Cases)
  BY <1>1 DEF D!Holding, D!At, D!Cases
<1>. QED  BY <1>1, <1>10, <1>11, <1>13, <1>14, CaseWrite

LEMMA DRefreshes ==
    ASSUME DInv, NEW c \in Calls, D!Refresh(c)
    PROVE  DInv'
<1>. PICK k, s : k = dCalls[c].ask.key /\ s = dDesign.content[k]
  OBVIOUS
<1>1. /\ dCalls[c].at = "held" /\ dCalls[c].ask.op = "refresh" /\ DEnds(c) /\ k \in D!case_sources
      /\ UNCHANGED <<dDesign, dRuns, dObject, dFile>>
      /\ dCase' = [dCase EXCEPT ![k] = D!Refreshed(@, s)]
      /\ dConfirmed' = [dConfirmed EXCEPT ![k] = s.text]
  BY DEF D!Refresh, D!Holding, D!At, D!Done, DEnds, D!files
<1>2. k \in Keys /\ s \in D!Source
  BY <1>1, CaseShape DEF DInv, D!case_sources
<1>3. dCase[k] \in D!TestCase /\ CaseSeen(c)
  BY <1>1, <1>2, DCallShape DEF DInv, D!TypeOK, DCallFits, DUnder, D!Cases
<1>4. PICK r : r = [exists |-> dCase[k].exists, source |-> s, ack |-> s, hash |-> s,
                    status |-> dCase[k].status, version |-> dCase[k].version + 1]
  OBVIOUS
<1>5. dCase' = [dCase EXCEPT ![k] = r]
  <2>1. D!Refreshed(dCase[k], s) = r
    BY <1>3, <1>4, ContentWritten
  <2>. QED  BY <1>1, <1>2, <2>1
<1>6. r.version = dCase[k].version + 1 /\ r.source = s /\ r.hash = s /\ r.exists = dCase[k].exists
  BY <1>4
<1>7. r \in D!TestCase
  BY <1>2, <1>3, <1>4 DEF D!TestCase
<1>8. dCase' \in [Keys -> D!TestCase] /\ \A x \in Keys : dCase'[x] = IF x = k THEN r ELSE dCase[x]
  BY <1>2, <1>5, <1>7 DEF DInv, D!TypeOK
<1>9. D!TypeOK'
  BY <1>1, <1>8 DEF DInv, D!TypeOK
<1>10. \A x \in Keys : GoesOn(x)
  <2>. SUFFICES ASSUME NEW x \in Keys PROVE GoesOn(x)
    OBVIOUS
  <2>1. CASE x = k
    BY <1>6, <1>8, <2>1, CaseShape, NewVersionGoesOn DEF DInv
  <2>2. CASE x # k
    <3>1. dCase'[x] = dCase[x] /\ dCase[x].version \in Nat
      BY <1>8, <2>2, CaseShape DEF DInv
    <3>. QED  BY <3>1 DEF GoesOn
  <2>. QED  BY <2>1, <2>2
<1>11. dConfirmed' = [x \in Keys |-> IF x = k THEN s.text ELSE dConfirmed[x]]
  BY <1>1 DEF DInv, CasesFit
<1>12. \A x \in Keys : CaseFits(x)'
  <2>. SUFFICES ASSUME NEW x \in Keys PROVE CaseFits(x)'
    OBVIOUS
  <2>1. CASE x = k
    <3>1. dCase'[x] = r /\ dConfirmed'[x] = s.text /\ dDesign'.content[x] = s
      BY <1>1, <1>8, <1>11, <2>1
    <3>. QED  BY <1>2, <1>6, <3>1 DEF CaseFits
  <2>2. CASE x # k
    <3>1. CaseFits(x) /\ dCase'[x] = dCase[x] /\ dConfirmed'[x] = dConfirmed[x] /\ dDesign' = dDesign
      BY <1>1, <1>8, <1>11, <2>2 DEF DInv, CasesFit
    <3>. QED  BY <3>1 DEF CaseFits
  <2>. QED  BY <2>1, <2>2
<1>13. CasesFit'
  BY <1>11, <1>12 DEF CasesFit
<1>14. D!Holding(c, D!Designs \cup D!Cases)
  BY <1>1 DEF D!Holding, D!At, D!Cases
<1>. QED  BY <1>1, <1>9, <1>10, <1>13, <1>14, CaseWrite

-----------------------------------------------------------------------------

(* The files of a run.                                                      *)
LEMMA ObjectsStay ==
    ASSUME D!TypeOK, UNCHANGED <<dDesign, dCase, dRuns, dFile>>,
           NEW e \in SUBSET Files, NEW p \in SUBSET Files, NEW q \in SUBSET Files,
           dObject' = [evidence |-> e, pending |-> p, planned |-> q]
    PROVE  D!TypeOK'
BY DEF D!TypeOK, D!Objects

LEMMA ObjectShape ==
    ASSUME D!TypeOK
    PROVE  /\ dObject = [evidence |-> dObject.evidence, pending |-> dObject.pending, planned |-> dObject.planned]
           /\ dObject.evidence \in SUBSET Files /\ dObject.pending \in SUBSET Files /\ dObject.planned \in SUBSET Files
BY DEF D!TypeOK, D!Objects

LEMMA FileNamed ==
    ASSUME DInv, NEW c \in Calls, DUnder(c), dCalls[c].ask.op \in {"plan", "upload", "complete", "drop"}
    PROVE  dCalls[c].ask.file \in Files
BY DCallShape DEF DInv, DCallFits, DAskFits

LEMMA DPlans ==
    ASSUME DInv, NEW c \in Calls, D!Plan(c)
    PROVE  DInv'
<1>. PICK f : f = dCalls[c].ask.file
  OBVIOUS
<1>1. DEnds(c) /\ UNCHANGED <<dDesign, dCase, dRuns, dConfirmed, dFile>> /\ dObject' = [dObject EXCEPT !.planned = @ \cup {f}]
  BY DEF D!Plan, D!tests, D!Done, DEnds
<1>2. f \in Files
  BY FileNamed DEF D!Plan, D!At, DUnder
<1>3. dObject' = [evidence |-> dObject.evidence, pending |-> dObject.pending, planned |-> dObject.planned \cup {f}]
  BY <1>1, ObjectShape DEF DInv
<1>4. dObject.planned \cup {f} \in SUBSET Files
  BY <1>2, ObjectShape DEF DInv
<1>5. D!TypeOK'
  BY <1>1, <1>3, <1>4, ObjectShape, ObjectsStay DEF DInv
<1>. QED  BY <1>1, <1>5, DEndsQuietly

LEMMA OnlyObjects ==
    ASSUME DInv, D!TypeOK', UNCHANGED <<dDesign, dCase, dConfirmed, dFile, dCalls>>
    PROVE  DInv'
<1>1. CasesFit' /\ FilesFit' /\ (D!UnderLimit' <=> D!UnderLimit)
  BY CasesRest, FilesRest DEF DInv
<1>2. DCallsFit'
  <2>1. \A c \in Calls : DCallFits(c)'
    BY <1>1, DCallShape DEF DInv, DCallFits, CaseSeen, DUnder, D!Holding, D!At
  <2>. QED  BY <2>1 DEF DInv, DCallsFit
<1>3. DApart'
  BY DEF DInv, DApart, D!Holding, D!At
<1>. QED  BY <1>1, <1>2, <1>3 DEF DInv

LEMMA DPuts ==
    ASSUME DInv, NEW c \in Calls, D!PutObject(c)
    PROVE  DInv'
<1>. PICK f : f = dCalls[c].ask.file
  OBVIOUS
<1>1. UNCHANGED <<dDesign, dCase, dRuns, dConfirmed, dFile, dCalls>> /\ dObject' = [dObject EXCEPT !.evidence = @ \cup {f}]
  BY DEF D!PutObject, D!tests
<1>2. f \in Files
  BY FileNamed DEF D!PutObject, D!Holding, D!At, DUnder
<1>3. dObject' = [evidence |-> dObject.evidence \cup {f}, pending |-> dObject.pending, planned |-> dObject.planned]
  BY <1>1, ObjectShape DEF DInv
<1>4. dObject.evidence \cup {f} \in SUBSET Files
  BY <1>2, ObjectShape DEF DInv
<1>5. D!TypeOK'
  BY <1>1, <1>3, <1>4, ObjectShape, ObjectsStay DEF DInv
<1>. QED  BY <1>1, <1>5, OnlyObjects

LEMMA DBrowserPuts ==
    ASSUME DInv, D!BrowserPuts
    PROVE  DInv'
<1>1. PICK f \in dObject.planned : dObject' = [dObject EXCEPT !.pending = @ \cup {f}]
  BY DEF D!BrowserPuts
<1>2. UNCHANGED <<dDesign, dCase, dRuns, dConfirmed, dFile, dCalls>>
  BY DEF D!BrowserPuts, D!tests
<1>3. dObject' = [evidence |-> dObject.evidence, pending |-> dObject.pending \cup {f}, planned |-> dObject.planned]
  BY <1>1, ObjectShape DEF DInv
<1>4. dObject.pending \cup {f} \in SUBSET Files
  BY ObjectShape DEF DInv
<1>5. D!TypeOK'
  BY <1>2, <1>3, <1>4, ObjectShape, ObjectsStay DEF DInv
<1>. QED  BY <1>2, <1>5, OnlyObjects

LEMMA DiscardedFits ==
    ASSUME D!TypeOK, NEW c \in Calls
    PROVE  D!Discarded(c) \in SUBSET Files
BY ObjectShape DEF D!Discarded

LEMMA DLocksRun ==
    ASSUME DInv, NEW c \in Calls, D!LockRun(c)
    PROVE  DInv'
<1>1. /\ dCalls[c].at = "form" /\ dCalls[c].ask.op \in Uploads /\ D!LockFree(c) /\ D!UnderLimit
      /\ dCalls' = [dCalls EXCEPT ![c].at = "held"]
      /\ UNCHANGED <<dDesign, dCase, dRuns, dConfirmed, dObject, dFile>>
  BY DEF D!LockRun, D!At, D!Goto, D!tests, D!files, Uploads
<1>2. D!TypeOK'
  BY <1>1, DTypesRest DEF DInv
<1>3. DMoves(c) /\ dCalls'[c] = [at |-> "held", ask |-> dCalls[c].ask, version |-> dCalls[c].version, saw |-> dCalls[c].saw]
  BY <1>1, Stage DEF DUnder
<1>4. DCallFits(c)
  BY DCallShape DEF DInv
<1>5. dCalls[c].ask.op \notin D!Designs \cup D!Cases
  BY <1>1 DEF D!Designs, D!Cases, Uploads
<1>6. D!UnderLimit'
  BY <1>1, FilesRest DEF DInv
<1>7. DCallFits(c)'
  BY <1>1, <1>3, <1>4, <1>5, <1>6 DEF DCallFits, DUnder, D!Holding, D!At, Uploads
<1>8. DApart'
  <2>1. \A x \in Calls : ~D!Holding(x, Uploads)
    BY <1>1, <1>5 DEF D!LockFree, Uploads
  <2>. QED  BY <1>3, <1>5, <2>1, DApartStays DEF DInv, D!Holding, D!At
<1>. QED  BY <1>1, <1>2, <1>3, <1>7, <1>8, NothingMoves

LEMMA DFails ==
    ASSUME DInv, NEW c \in Calls, D!CommitFails(c)
    PROVE  DInv'
<1>1. /\ dCalls[c].at = "held" /\ dCalls[c].ask.op \in Uploads
      /\ dCalls' = [dCalls EXCEPT ![c].at = "failed"]
      /\ UNCHANGED <<dDesign, dCase, dRuns, dConfirmed, dObject, dFile>>
  BY DEF D!CommitFails, D!Holding, D!At, D!Goto, D!tests, D!files, Uploads
<1>2. D!TypeOK'
  BY <1>1, DTypesRest DEF DInv
<1>3. DMoves(c) /\ dCalls'[c] = [at |-> "failed", ask |-> dCalls[c].ask, version |-> dCalls[c].version, saw |-> dCalls[c].saw]
  BY <1>1, Stage DEF DUnder
<1>4. DCallFits(c)
  BY DCallShape DEF DInv
<1>5. dCalls[c].ask.op \notin D!Designs \cup D!Cases
  BY <1>1 DEF D!Designs, D!Cases, Uploads
<1>7. DCallFits(c)'
  BY <1>1, <1>3, <1>4, <1>5 DEF DCallFits, DUnder, D!Holding, D!At, Uploads
<1>8. DApart'
  BY <1>3, <1>5, DApartStays DEF DInv, D!Holding, D!At
<1>. QED  BY <1>1, <1>2, <1>3, <1>7, <1>8, NothingMoves

LEMMA DCleansUp ==
    ASSUME DInv, NEW c \in Calls, D!DeleteObject(c)
    PROVE  DInv'
<1>. PICK f : f = dCalls[c].ask.file
  OBVIOUS
<1>1. DEnds(c) /\ UNCHANGED <<dDesign, dCase, dRuns, dConfirmed, dFile>>
      /\ dObject' = [dObject EXCEPT !.evidence = @ \ {f}, !.pending = D!Discarded(c)]
  BY DEF D!DeleteObject, D!tests, D!Done, DEnds
<1>2. dObject' = [evidence |-> dObject.evidence \ {f}, pending |-> D!Discarded(c), planned |-> dObject.planned]
  <2>1. PICK w : w = [dObject EXCEPT !.evidence = @ \ {f}]
    OBVIOUS
  <2>2. w = [evidence |-> dObject.evidence \ {f}, pending |-> dObject.pending, planned |-> dObject.planned]
    BY <2>1, ObjectShape DEF DInv
  <2>3. dObject' = [w EXCEPT !.pending = D!Discarded(c)]
    BY <1>1, <2>1
  <2>. QED  BY <2>2, <2>3
<1>3. dObject.evidence \ {f} \in SUBSET Files /\ D!Discarded(c) \in SUBSET Files
  BY ObjectShape, DiscardedFits DEF DInv
<1>4. D!TypeOK'
  BY <1>1, <1>2, <1>3, ObjectShape, ObjectsStay DEF DInv
<1>. QED  BY <1>1, <1>4, DEndsQuietly

\* A file is added by the only call that holds the run, and below its limit.
LEMMA DRegisters ==
    ASSUME DInv, NEW c \in Calls, D!Register(c)
    PROVE  DInv'
<1>. PICK f : f = dCalls[c].ask.file
  OBVIOUS
<1>1. /\ dCalls[c].at = "held" /\ dCalls[c].ask.op \in Uploads /\ DEnds(c) /\ UNCHANGED <<dDesign, dCase, dRuns, dConfirmed>>
      /\ dFile' = [dFile EXCEPT ![f] = "live"] /\ dObject' = [dObject EXCEPT !.pending = D!Discarded(c)]
  BY DEF D!Register, D!Holding, D!At, D!tests, D!Done, DEnds, Uploads
<1>2. f \in Files /\ D!Holding(c, Uploads) /\ D!UnderLimit
  BY <1>1, FileNamed, DCallShape DEF DInv, D!Holding, D!At, DUnder, Uploads, DCallFits
<1>3. D!LiveFiles' \subseteq D!LiveFiles \cup {f} /\ IsFiniteSet(D!LiveFiles)
  BY <1>1, <1>2 DEF D!LiveFiles, DInv, D!TypeOK, FilesFit
<1>4. PICK n : n = D!LiveFiles \cup {f}
  OBVIOUS
<1>5. IsFiniteSet(n) /\ Cardinality(n) <= Cardinality(D!LiveFiles) + 1 /\ Cardinality(n) \in Nat /\ Cardinality(D!LiveFiles) \in Nat
  <2>1. IsFiniteSet(D!LiveFiles \cup {f}) /\ Cardinality(D!LiveFiles \cup {f}) \in {Cardinality(D!LiveFiles), Cardinality(D!LiveFiles) + 1}
    BY <1>3, FS_AddElement
  <2>2. Cardinality(D!LiveFiles) \in Nat
    BY <1>3, FS_CardinalityType
  <2>. QED  BY <1>4, <2>1, <2>2
<1>6. IsFiniteSet(D!LiveFiles') /\ Cardinality(D!LiveFiles') <= Cardinality(n) /\ Cardinality(D!LiveFiles') \in Nat
  BY <1>3, <1>4, <1>5, FS_Subset, FS_CardinalityType
<1>7. FilesFit'
  BY SameCardinality, <1>2, <1>5, <1>6, DesignAssumption DEF FilesFit, D!FilesWithinLimit, D!UnderLimit
<1>8. dObject' = [evidence |-> dObject.evidence, pending |-> D!Discarded(c), planned |-> dObject.planned]
  BY <1>1, ObjectShape DEF DInv
<1>9. D!TypeOK'
  BY <1>1, <1>2, <1>8, ObjectShape, DiscardedFits DEF DInv, D!TypeOK, D!Objects, D!TestEvidence
<1>10. DMoves(c) /\ DCallFits(c)' /\ dCalls'[c].at = "done"
  BY <1>1, DEndsIsMove DEF DInv
<1>11. \A x \in Calls \ {c} : ~D!Holding(x, Uploads)
  BY <1>2, Alone DEF DInv
<1>12. DCallsFit'
  BY <1>1, <1>9, <1>10, <1>11, AllGoOn, DCallsStay DEF DInv
<1>13. DApart'
  BY <1>10, DApartStays DEF DInv, D!Holding, D!At
<1>14. CasesFit'
  BY <1>1, CasesRest DEF DInv
<1>. QED  BY <1>7, <1>9, <1>12, <1>13, <1>14 DEF DInv

LEMMA DDrops ==
    ASSUME DInv, NEW c \in Calls, D!DeleteEvidence(c)
    PROVE  DInv'
<1>. PICK f : f = dCalls[c].ask.file
  OBVIOUS
<1>1. /\ dCalls[c].at = "form" /\ dCalls[c].ask.op = "drop" /\ DEnds(c) /\ UNCHANGED <<dDesign, dCase, dRuns, dConfirmed, dObject>>
      /\ dFile' = [dFile EXCEPT ![f] = "deleted"]
  BY DEF D!DeleteEvidence, D!At, D!tests, D!Done, DEnds
<1>2. f \in Files
  BY <1>1, FileNamed DEF DUnder
<1>3. D!LiveFiles' \subseteq D!LiveFiles /\ IsFiniteSet(D!LiveFiles)
  BY <1>1, <1>2 DEF D!LiveFiles, DInv, D!TypeOK, FilesFit
<1>4. IsFiniteSet(D!LiveFiles') /\ Cardinality(D!LiveFiles') <= Cardinality(D!LiveFiles)
      /\ Cardinality(D!LiveFiles') \in Nat /\ Cardinality(D!LiveFiles) \in Nat
  BY <1>3, FS_Subset, FS_CardinalityType
<1>5. FilesFit' /\ (D!UnderLimit => D!UnderLimit')
  BY SameCardinality, <1>4, DesignAssumption DEF FilesFit, D!FilesWithinLimit, D!UnderLimit, DInv
<1>6. D!TypeOK'
  BY <1>1, <1>2 DEF DInv, D!TypeOK, D!TestEvidence
<1>7. DMoves(c) /\ DCallFits(c)' /\ dCalls'[c].at = "done"
  BY <1>1, DEndsIsMove DEF DInv
<1>8. \A x \in Calls \ {c} : D!Holding(x, Uploads) => D!UnderLimit'
  BY <1>5, DCallShape DEF DInv, DCallFits, Uploads, D!Holding, D!At, DUnder
<1>9. DCallsFit'
  BY <1>1, <1>6, <1>7, <1>8, AllGoOn, DCallsStay DEF DInv
<1>10. DApart'
  BY <1>7, DApartStays DEF DInv, D!Holding, D!At
<1>11. CasesFit'
  BY <1>1, CasesRest DEF DInv
<1>. QED  BY <1>5, <1>6, <1>9, <1>10, <1>11 DEF DInv

-----------------------------------------------------------------------------

(* Beginning and steps.                                                     *)
LEMMA DBegins ==
    ASSUME D!Init
    PROVE  DInv
<1>1. PICK k \in Keys, r \in {D!Old, [D!Old EXCEPT !.ack = D!Old.source], D!NoCase}, s \in {D!Old.source, NoSource} :
        /\ r.exists => s = D!Old.source
        /\ dCase = [x \in Keys |-> IF x = k THEN r ELSE D!NoCase]
        /\ dDesign = [live |-> TRUE, version |-> 1, content |-> [x \in Keys |-> IF x = k THEN s ELSE NoSource]]
  BY DEF D!Init
<1>2. D!Old.source \in D!Source /\ D!Old.hash = D!Old.source /\ D!Old.source.text = "a" /\ D!Old.exists
      /\ D!Old \in D!TestCase /\ D!NoCase \in D!TestCase /\ ~D!NoCase.exists
  BY DEF D!Old, D!NoCase, D!Source, D!TestCase, D!Statuses
<1>3. [D!Old EXCEPT !.ack = D!Old.source] =
      [exists |-> D!Old.exists, source |-> D!Old.source, ack |-> D!Old.source, hash |-> D!Old.hash, status |-> D!Old.status, version |-> D!Old.version]
  <2>1. PICK o : o = D!Old
    OBVIOUS
  <2>2. [o EXCEPT !.ack = o.source] =
        [exists |-> o.exists, source |-> o.source, ack |-> o.source, hash |-> o.hash, status |-> o.status, version |-> o.version]
    BY <1>2, <2>1 DEF D!TestCase
  <2>. QED  BY <2>1, <2>2
<1>4. r \in D!TestCase /\ (r.exists => r.source = D!Old.source /\ r.hash = D!Old.source)
  BY <1>2, <1>3 DEF D!TestCase
<1>5. s \in D!Source \cup {NoSource}
  BY <1>2
<1>6. D!TypeOK
  <2>1. dDesign \in [live : BOOLEAN, version : Nat, content : [Keys -> D!Source \cup {NoSource}]]
    BY <1>1, <1>5
  <2>2. dCase \in [Keys -> D!TestCase]
    BY <1>1, <1>2, <1>4
  <2>3. dRuns \in [Keys -> D!TestExecution]
    BY DEF D!Init, D!TestExecution, D!Statuses
  <2>4. dObject \in D!Objects /\ dFile \in [Files -> D!TestEvidence]
    BY DEF D!Init, D!Objects, D!TestEvidence
  <2>. QED  BY <2>1, <2>2, <2>3, <2>4 DEF D!TypeOK
<1>7. CasesFit
  <2>1. dConfirmed = [x \in Keys |-> dConfirmed[x]] /\ \A x \in Keys : dConfirmed[x] = "a"
    BY DEF D!Init
  <2>2. ASSUME NEW x \in Keys PROVE CaseFits(x)
    <3>1. CASE x = k
      <4>1. dCase[x] = r /\ dDesign.content[x] = s /\ dConfirmed[x] = "a"
        BY <1>1, <2>1, <3>1
      <4>. QED  BY <1>1, <1>2, <1>4, <4>1 DEF CaseFits
    <3>2. CASE x # k
      <4>1. dCase[x] = D!NoCase
        BY <1>1, <3>2
      <4>. QED  BY <1>2, <4>1 DEF CaseFits
    <3>. QED  BY <3>1, <3>2
  <2>. QED  BY <2>1, <2>2 DEF CasesFit
<1>8. DCallsFit /\ DApart
  BY DEF D!Init, DCallsFit, DCallFits, DUnder, DApart, D!Holding, D!At
<1>9. FilesFit
  <2>1. D!LiveFiles = {}
    BY DEF D!Init, D!LiveFiles
  <2>. QED  BY SameCardinality, <2>1, FS_EmptySet, DesignAssumption DEF FilesFit, D!FilesWithinLimit
<1>. QED  BY <1>6, <1>7, <1>8, <1>9 DEF DInv

LEMMA DKept ==
    ASSUME DInv, [D!Next]_(D!vars)
    PROVE  DInv'
<1>1. ASSUME NEW c \in Calls, D!Look(c) \/ D!Again(c) \/ D!Refuse(c) PROVE DInv'
  BY <1>1, DLooks, DAgain, DRests
<1>2. ASSUME NEW c \in Calls, D!TestDesigns(c) PROVE DInv'
  BY <1>2, DLocks, DSaves, DGenerates, DDeletes, DExecutes, DRefreshes DEF D!TestDesigns
<1>3. ASSUME NEW c \in Calls, D!TestCollaboration(c) PROVE DInv'
  BY <1>3, DRests DEF D!TestCollaboration
<1>4. ASSUME NEW c \in Calls, D!TestEvidenceFiles(c) PROVE DInv'
  BY <1>4, DPlans, DLocksRun, DPuts, DRegisters, DFails, DCleansUp, DDrops DEF D!TestEvidenceFiles
<1>5. CASE UNCHANGED D!vars
  <2>1. UNCHANGED <<dDesign, dCase, dConfirmed, dFile, dCalls>> /\ D!TypeOK'
    BY <1>5, DTypesRest DEF D!vars, DInv
  <2>. QED  BY <2>1, OnlyObjects
<1>. QED  BY <1>1, <1>2, <1>3, <1>4, <1>5, DBrowserPuts DEF D!Next

LEMMA ShownIsRead ==
    ASSUME DInv
    PROVE  D!NothingUnreadIsShownAsRead /\ D!FilesWithinLimit
<1>1. ASSUME NEW k \in Keys, dCase[k].exists, ~D!Stale(k) PROVE dDesign.content[k].text = dConfirmed[k]
  BY <1>1 DEF DInv, CasesFit, CaseFits, D!Stale
<1>. QED  BY <1>1 DEF D!NothingUnreadIsShownAsRead, DInv, FilesFit

\* What a result, or a confirmation, is about.
ResultStep == \A c \in Calls : dCalls'[c] # dCalls[c] =>
    /\ D!Holding(c, {"execute"}) /\ dRuns' # dRuns =>
           \E k \in Keys : dRuns'[k] # dRuns[k] /\ dRuns'[k].source = dCalls[c].saw
    /\ D!Holding(c, {"refresh"}) /\ dCase' # dCase => dCase'[dCalls[c].ask.key].ack = dCalls[c].saw

LEMMA StepIsOf ==
    ASSUME DInv, [D!Next]_(D!vars), NEW c \in Calls, dCalls'[c] # dCalls[c], D!Holding(c, D!Cases)
    PROVE  \/ D!Execute(c) \/ D!Refresh(c) \/ UNCHANGED <<dRuns, dCase>>
<1>1. CASE UNCHANGED D!vars
  BY <1>1 DEF D!vars
<1>2. CASE D!Next
  <2>1. ~D!BrowserPuts
    BY DEF D!BrowserPuts
  <2>2. PICK x \in Calls : \/ D!Look(x) \/ D!Again(x) \/ D!Refuse(x) \/ D!TestDesigns(x)
                           \/ D!TestCollaboration(x) \/ D!TestEvidenceFiles(x)
    BY <1>2, <2>1 DEF D!Next
  <2>3. x = c
    <3>. SUFFICES ASSUME x # c PROVE dCalls'[c] = dCalls[c]
      OBVIOUS
    <3>1. dCalls = [y \in Calls |-> dCalls[y]]
      BY DEF DInv, DCallsFit
    <3>. QED  BY <2>2, <3>1 DEF D!Look, D!Again, D!Refuse, D!TestDesigns, D!TestCollaboration, D!TestEvidenceFiles,
                D!Lock, D!Save, D!Generate, D!DeleteDesign, D!Execute, D!Refresh, D!CreateLink, D!DeleteLink, D!CreateComment,
                D!UpdateComment, D!Plan, D!LockRun, D!PutObject, D!Register, D!CommitFails, D!DeleteObject, D!DeleteEvidence,
                D!Goto, D!Done
  <2>4. dCalls[c].at = "held" /\ dCalls[c].ask.op \in {"execute", "refresh"}
    BY DEF D!Holding, D!At, D!Cases
  <2>5. ~D!Look(c) /\ ~D!Again(c) /\ ~D!TestCollaboration(c) /\ ~D!TestEvidenceFiles(c)
        /\ ~D!Lock(c) /\ ~D!Save(c) /\ ~D!Generate(c) /\ ~D!DeleteDesign(c)
    BY <2>4 DEF D!Look, D!Again, D!TestCollaboration, D!TestEvidenceFiles, D!Lock, D!Save, D!Generate, D!DeleteDesign,
                D!CreateLink, D!DeleteLink, D!CreateComment, D!UpdateComment, D!Plan, D!LockRun, D!PutObject, D!Register,
                D!CommitFails, D!DeleteObject, D!DeleteEvidence, D!Holding, D!At
  <2>6. D!Refuse(c) => UNCHANGED <<dRuns, dCase>>
    BY DEF D!Refuse, D!tests
  <2>. QED  BY <2>2, <2>3, <2>5, <2>6 DEF D!TestDesigns
<1>. QED  BY <1>1, <1>2

LEMMA ResultsAreOfWhatWasSeen ==
    ASSUME DInv, [D!Next]_(D!vars)
    PROVE  ResultStep
<1>. SUFFICES ASSUME NEW c \in Calls, dCalls'[c] # dCalls[c]
              PROVE  /\ D!Holding(c, {"execute"}) /\ dRuns' # dRuns =>
                           \E k \in Keys : dRuns'[k] # dRuns[k] /\ dRuns'[k].source = dCalls[c].saw
                     /\ D!Holding(c, {"refresh"}) /\ dCase' # dCase => dCase'[dCalls[c].ask.key].ack = dCalls[c].saw
  BY DEF ResultStep
<1>. PICK k : k = dCalls[c].ask.key
  OBVIOUS
<1>1. D!Holding(c, D!Cases) => k \in Keys /\ CaseFits(k) /\ dCalls[c].saw = dCase[k].source /\ dCase[k].exists
  <2>. SUFFICES ASSUME D!Holding(c, D!Cases) PROVE k \in Keys /\ CaseFits(k) /\ dCalls[c].saw = dCase[k].source /\ dCase[k].exists
    OBVIOUS
  <2>1. DCallFits(c) /\ DUnder(c) /\ dCalls[c].at = "held" /\ dCalls[c].ask.op \in D!Cases
    BY DCallShape DEF DInv, D!Holding, D!At, DUnder
  <2>2. DAskFits(dCalls[c].ask) /\ CaseSeen(c)
    BY <2>1 DEF DCallFits
  <2>3. k \in Keys
    BY <2>1, <2>2 DEF DAskFits, D!Cases
  <2>. QED  BY <2>1, <2>2, <2>3 DEF CaseSeen, DInv, CasesFit
<1>2. ASSUME D!Holding(c, {"execute"}), dRuns' # dRuns
      PROVE  \E y \in Keys : dRuns'[y] # dRuns[y] /\ dRuns'[y].source = dCalls[c].saw
  <2>1. D!Holding(c, D!Cases) /\ ~D!Refresh(c)
    BY <1>2 DEF D!Holding, D!At, D!Cases, D!Refresh
  <2>2. D!Execute(c)
    BY <1>2, <2>1, StepIsOf
  <2>3. dRuns' = [dRuns EXCEPT ![k] = [run_number |-> dRuns[k].run_number + 1, status |-> dCalls[c].ask.status,
                                     source |-> dCase[k].source]]
    BY <2>2 DEF D!Execute
  <2>4. k \in Keys /\ dRuns[k].run_number \in Nat /\ dRuns \in [Keys -> D!TestExecution]
    BY <1>1, <2>1 DEF DInv, D!TypeOK, D!TestExecution
  <2>5. dRuns'[k].run_number # dRuns[k].run_number /\ dRuns'[k].source = dCase[k].source
    BY <2>3, <2>4
  <2>. QED  BY <1>1, <2>1, <2>4, <2>5
<1>3. ASSUME D!Holding(c, {"refresh"}), dCase' # dCase
      PROVE  dCase'[dCalls[c].ask.key].ack = dCalls[c].saw
  <2>1. D!Holding(c, D!Cases) /\ ~D!Execute(c)
    BY <1>3 DEF D!Holding, D!At, D!Cases, D!Execute
  <2>2. D!Refresh(c)
    BY <1>3, <2>1, StepIsOf
  <2>. PICK s : s = dDesign.content[k]
    OBVIOUS
  <2>3. dCase' = [dCase EXCEPT ![k] = D!Refreshed(@, s)] /\ k \in D!case_sources
    BY <2>2 DEF D!Refresh
  <2>4. dCase[k] \in D!TestCase /\ k \in Keys /\ dCase \in [Keys -> D!TestCase]
    BY <1>1, <2>1 DEF DInv, D!TypeOK
  <2>5. dCase'[k].ack = s
    BY <2>3, <2>4, ContentWritten
  <2>6. s = dCase[k].source
    BY <1>1, <2>1, <2>3 DEF CaseFits, D!case_sources
  <2>. QED  BY <1>1, <2>1, <2>5, <2>6
<1>. QED  BY <1>2, <1>3

-----------------------------------------------------------------------------
(* Members.  Under the tenant's lock a membership is as it was read, and    *)
(* under the project's an administrator has another beside them.            *)
\* What a request is about.
OfPerson == M!Operations \ {"rename", "edit", "close"}
OfProject == M!LocksProject \cup {"found", "edit", "close"}
RequestFits(r) ==
    /\ r.kind \in OfPerson => r.user \in People
    /\ r.kind \in OfProject => r.project \in Projects
    /\ r.kind \in {"assign", "rerole"} => r.role \in M!ProjectRoles
    /\ r.kind \in {"hire", "bootstrap"} => r.status = "active"
    /\ r.kind = "bootstrap" => r.role = "owner"
    /\ r.kind = "dismiss" => r.status = "removed"
    /\ r.kind = "rename" => r.user = NoOne
MCallFits(c) == mCalls[c] \in M!Call /\ (mCalls[c] # M!Free => RequestFits(mCalls[c]))
MCallsFit == mCalls = [c \in Calls |-> mCalls[c]] /\ \A c \in Calls : MCallFits(c)

\* The row of the tenant, and a project's, is locked by one.
MApart == \A c, x \in Calls : c # x =>
    /\ ~(M!At(c, "checked", M!LocksTenant) /\ M!At(x, "checked", M!LocksTenant))
    /\ ~(M!At(c, "checked", M!LocksProject) /\ M!At(x, "checked", M!LocksProject)
            /\ mCalls[c].project = mCalls[x].project)

\* Under the tenant's lock a membership is as it was read, and a request that takes an owner's role
\* leaves another.
Memberships == {"hire", "change", "dismiss", "bootstrap"}
MemberHeld(c) ==
    M!At(c, "checked", Memberships) =>
        /\ mCalls[c].loaded = mMember[mCalls[c].user].version
        /\ mAccount[mCalls[c].user] # "absent"
        /\ mCalls[c].kind = "hire" => mMember[mCalls[c].user].status \in {"absent", "removed"}
        /\ (M!IsActiveOwner(mCalls[c].user) /\ ~(mCalls[c].role = "owner" /\ mCalls[c].status = "active"))
              => \E v \in People \ {mCalls[c].user} : M!IsActiveOwner(v)
TenantHeld(c) ==
    /\ M!At(c, "checked", M!LocksTenant) => mTenant.state = "live"
    /\ M!At(c, "asked", M!LocksTenant \ {"bootstrap"}) => mTenant.state = "live"
    /\ M!At(c, "checked", {"rename"}) => mCalls[c].loaded = mTenant.version

\* Under a project's lock, a request that takes an administrator's right leaves another, or one
\* dismissed since.
Demotes(r) == ~(r.kind = "rerole" /\ r.role = "admin")
RightHeld(c) ==
    /\ M!At(c, "checked", M!LocksProject) => mProject[mCalls[c].project].state # "absent"
    /\ (/\ M!At(c, "checked", {"rerole", "unassign"}) /\ Demotes(mCalls[c])
        /\ M!IsProjectAdmin(mCalls[c].project, mCalls[c].user))
       => \E v \in People \ {mCalls[c].user} : M!IsProjectAdmin(mCalls[c].project, v) \/ v \in mCalls[c].gone
Held(c) == MemberHeld(c) /\ TenantHeld(c) /\ RightHeld(c)

\* Nobody belongs to a tenant not yet issued, or without an account.
Unborn ==
    /\ \A u \in People : mAccount[u] = "absent" \/ mTenant.state = "absent" => mMember[u] = M!NoMember
    /\ mTenant.state = "absent" => mTenant.version = 0

MInv == M!TypeOK /\ MCallsFit /\ MApart /\ (\A c \in Calls : Held(c)) /\ Unborn

-----------------------------------------------------------------------------
LEMMA MBegins ==
    ASSUME M!Init
    PROVE  MInv
<1>. USE DEF M!Init, M!NoMember, M!NoRight, M!Joined, M!Assigned
<1>1. M!TypeOK
  <2>1. mTenant \in M!Tenant /\ mMember \in [People -> M!TenantMember]
    BY DEF M!Tenant, M!TenantMember, M!TenantRoles
  <2>2. mProject \in [Projects -> M!Project] /\ mRight \in [Projects -> [People -> M!ProjectMember]]
    BY DEF M!Project, M!ProjectMember, M!ProjectRoles
  <2>3. mCalls \in [Calls -> M!Call]
    BY DEF M!Call
  <2>. QED  BY <2>1, <2>2, <2>3 DEF M!TypeOK
<1>2. \A c \in Calls : mCalls[c].step = "free"
  BY DEF M!Free
<1>3. MCallsFit
  BY DEF MCallsFit, MCallFits, M!Call
<1>4. MApart /\ \A c \in Calls : Held(c)
  BY <1>2 DEF MApart, Held, MemberHeld, TenantHeld, RightHeld, M!At
<1>5. Unborn
  BY DEF Unborn
<1>. QED  BY <1>1, <1>3, <1>4, <1>5 DEF MInv

-----------------------------------------------------------------------------
(* What a call may become.                                                  *)

LEMMA RequestMade ==
    ASSUME NEW kind \in M!Operations, NEW power \in M!TenantRoles, NEW u \in People \cup {NoOne},
           NEW p \in Projects \cup {NoOne}, NEW role \in M!TenantRoles,
           NEW status \in {"active", "suspended", "removed"}, NEW seen \in Nat
    PROVE  M!Request(kind, power, u, p, role, status, seen) \in M!Call
BY DEF M!Request, M!Call

LEMMA CallRead ==
    ASSUME NEW r \in M!Call, r # M!Free
    PROVE  /\ r.step \in {"asked", "checked"} /\ r.kind \in M!Operations
           /\ r.user \in People \cup {NoOne} /\ r.project \in Projects \cup {NoOne}
           /\ r.role \in M!TenantRoles /\ r.status \in {"active", "suspended", "removed"}
           /\ r.seen \in Nat /\ r.loaded \in Nat /\ r.gone \in SUBSET People
BY DEF M!Call

LEMMA LoadedMade ==
    ASSUME NEW r \in M!Call, r # M!Free, NEW v \in Nat
    PROVE  LET x == M!WithLoaded(r, v)
           IN  /\ x \in M!Call /\ x # M!Free /\ x.step = "checked" /\ x.kind = r.kind /\ x.user = r.user
               /\ x.project = r.project /\ x.role = r.role /\ x.status = r.status
               /\ x.loaded = v /\ x.gone = {}
BY DEF M!WithLoaded, M!Call, M!Free

LEMMA GoneMade ==
    ASSUME NEW r \in M!Call, r # M!Free, NEW u \in People
    PROVE  LET x == M!AlsoGone(r, u)
           IN  /\ x \in M!Call /\ x # M!Free /\ x.step = r.step /\ x.kind = r.kind /\ x.user = r.user
               /\ x.project = r.project /\ x.role = r.role /\ x.status = r.status
               /\ x.loaded = r.loaded /\ x.gone = r.gone \cup {u}
BY DEF M!AlsoGone, M!Call, M!Free

\* A call at a step carries the request it is about.
LEMMA AtFits ==
    ASSUME MCallsFit, NEW c \in Calls, NEW step \in {"asked", "checked"}, NEW ks, M!At(c, step, ks)
    PROVE  mCalls[c] \in M!Call /\ mCalls[c] # M!Free /\ RequestFits(mCalls[c]) /\ mCalls[c].kind \in ks
           /\ mCalls[c].step = step
BY DEF MCallsFit, MCallFits, M!At, M!Free

\* The other calls hold what they held while the rows they hold stay.
LEMMA OthersFit ==
    ASSUME MInv, NEW c \in Calls, NEW x \in M!Call, x # M!Free => RequestFits(x),
           mCalls' = [mCalls EXCEPT ![c] = x]
    PROVE  /\ mCalls' \in [Calls -> M!Call] /\ MCallsFit' /\ mCalls'[c] = x
           /\ \A y \in Calls : y # c => mCalls'[y] = mCalls[y]
BY DEF MInv, M!TypeOK, MCallsFit, MCallFits, RequestFits

LEMMA StillApart ==
    ASSUME MInv, NEW c \in Calls,
           \A y \in Calls : y # c => mCalls'[y] = mCalls[y],
           \/ mCalls'[c].step # "checked"
           \/ /\ mCalls'[c].kind \in M!LocksTenant => M!TenantIsFree
              /\ mCalls'[c].kind \in M!LocksProject => M!ProjectIsFree(mCalls'[c].project)
    PROVE  MApart'
BY DEF MInv, MApart, M!At, M!TenantIsFree, M!ProjectIsFree, M!LocksTenant, M!LocksProject

\* Nothing but the call changes.
LEMMA OnlyCall ==
    ASSUME MInv, NEW c \in Calls, NEW x \in M!Call, x # M!Free => RequestFits(x),
           mCalls' = [mCalls EXCEPT ![c] = x], UNCHANGED <<mKinds, M!rows>>,
           MApart', Held(c)'
    PROVE  MInv'
<1>1. /\ mCalls' \in [Calls -> M!Call] /\ MCallsFit' /\ mCalls'[c] = x
      /\ \A y \in Calls : y # c => mCalls'[y] = mCalls[y]
  BY OthersFit
<1>2. M!TypeOK'
  BY <1>1 DEF MInv, M!TypeOK, M!rows
<1>3. \A y \in Calls : y # c => Held(y)'
  BY <1>1 DEF MInv, Held, MemberHeld, TenantHeld, RightHeld, M!At, M!IsActiveOwner, M!IsProjectAdmin, Demotes, M!rows
<1>4. Unborn'
  BY DEF MInv, Unborn, M!rows
<1>. QED  BY <1>1, <1>2, <1>3, <1>4 DEF MInv

LEMMA FreeKept ==
    ASSUME MInv, NEW c \in Calls, mCalls' = [mCalls EXCEPT ![c] = M!Free]
    PROVE  /\ mCalls' \in [Calls -> M!Call] /\ MCallsFit' /\ MApart' /\ Held(c)'
           /\ \A y \in Calls : y # c => mCalls'[y] = mCalls[y]
<1>1. /\ mCalls' \in [Calls -> M!Call] /\ MCallsFit' /\ mCalls'[c] = M!Free
      /\ \A y \in Calls : y # c => mCalls'[y] = mCalls[y]
  BY OthersFit DEF M!Call
<1>2. MApart'
  BY <1>1, StillApart DEF M!Free
<1>3. Held(c)'
  BY <1>1 DEF Held, MemberHeld, TenantHeld, RightHeld, M!At, M!Free
<1>. QED  BY <1>1, <1>2, <1>3

LEMMA RefuseKept ==
    ASSUME MInv, NEW c \in Calls, M!Refuse(c)
    PROVE  MInv'
BY FreeKept, OnlyCall DEF M!Refuse, M!Call

\* An admitted request waits for its lock.
LEMMA OpenKept ==
    ASSUME MInv, NEW c \in Calls, NEW r \in M!Call, r # M!Free, r.step = "asked", RequestFits(r), M!Open(c, r),
           r.kind \in M!LocksTenant \ {"bootstrap"} => mTenant.state = "live"
    PROVE  MInv'
<1>1. mCalls' = [mCalls EXCEPT ![c] = r] /\ UNCHANGED <<mKinds, M!rows>>
  BY DEF M!Open
<1>2. mCalls'[c] = r /\ \A y \in Calls : y # c => mCalls'[y] = mCalls[y]
  BY <1>1, OthersFit
<1>3. MApart'
  BY <1>2, StillApart
<1>4. Held(c)'
  BY <1>1, <1>2 DEF Held, MemberHeld, TenantHeld, RightHeld, M!At, M!LocksTenant, M!rows
<1>. QED  BY <1>1, <1>3, <1>4, OnlyCall

LEMMA AskKept ==
    ASSUME MInv, NEW c \in Calls,
           NEW kind \in M!Operations, NEW power \in M!TenantRoles, NEW u \in People \cup {NoOne},
           NEW p \in Projects \cup {NoOne}, NEW role \in M!TenantRoles,
           NEW status \in {"active", "suspended", "removed"}, NEW seen \in Nat,
           M!Open(c, M!Request(kind, power, u, p, role, status, seen)),
           kind # "bootstrap" /\ kind \in M!LocksTenant => mTenant.state = "live",
           kind \in OfPerson => u \in People,
           kind \in OfProject => p \in Projects,
           kind \in {"assign", "rerole"} => role \in M!ProjectRoles,
           kind \in {"hire", "bootstrap"} => status = "active",
           kind = "bootstrap" => role = "owner",
           kind = "dismiss" => status = "removed",
           kind = "rename" => u = NoOne
    PROVE  MInv'
<1>. DEFINE r == M!Request(kind, power, u, p, role, status, seen)
<1>1. /\ r \in M!Call /\ r # M!Free /\ r.step = "asked" /\ r.kind = kind /\ r.user = u
      /\ r.project = p /\ r.role = role /\ r.status = status
  <2>1. r.step = "asked" /\ r.kind = kind /\ r.user = u
    BY DEF M!Request
  <2>2. r.project = p /\ r.role = role /\ r.status = status
    BY DEF M!Request
  <2>3. r \in M!Call
    BY RequestMade
  <2>. HIDE DEF r
  <2>4. r # M!Free
    BY <2>1 DEF M!Free
  <2>. QED  BY <2>1, <2>2, <2>3, <2>4
<1>2. RequestFits(r)
  BY <1>1 DEF RequestFits
<1>3. M!Open(c, r)
  OBVIOUS
<1>. HIDE DEF r
<1>. QED  BY <1>1, <1>2, <1>3, OpenKept DEF M!LocksTenant

LEMMA AskTenantKept ==
    ASSUME MInv, NEW c \in Calls, NEW a \in People, NEW u \in People, M!AskTenant(c, a, u)
    PROVE  MInv'
<1>1. mTenant.state = "live" /\ mMember[a].role \in M!TenantRoles /\ mMember[u].role \in M!TenantRoles
      /\ mMember[u].version \in Nat /\ mTenant.version \in Nat /\ 0 \in Nat
  BY DEF M!AskTenant, M!IsTenantAdmin, M!Admitted, MInv, M!TypeOK, M!TenantMember, M!Tenant
<1>. DEFINE pw == mMember[a].role
<1>2. ASSUME NEW kind \in {"hire", "register"}, NEW role \in M!TenantRoles,
             M!Open(c, M!Request(kind, pw, u, NoOne, role, "active", 0))
      PROVE  MInv'
  BY <1>1, <1>2, AskKept DEF M!Operations, M!LocksTenant, M!LocksProject, OfPerson, OfProject
<1>3. ASSUME NEW role \in M!TenantRoles, NEW status \in {"active", "suspended"},
             M!Open(c, M!Request("change", pw, u, NoOne, role, status, mMember[u].version))
      PROVE  MInv'
  <2>1. "change" \in M!Operations /\ "change" \notin OfProject
    BY DEF M!Operations, M!LocksTenant, M!LocksProject, OfProject
  <2>. QED  BY <1>1, <1>3, <2>1, AskKept
<1>4. ASSUME M!Open(c, M!Request("dismiss", pw, u, NoOne, mMember[u].role, "removed", mMember[u].version))
      PROVE  MInv'
  <2>1. "dismiss" \in M!Operations /\ "dismiss" \notin OfProject
    BY DEF M!Operations, M!LocksTenant, M!LocksProject, OfProject
  <2>. QED  BY <1>1, <1>4, <2>1, AskKept
<1>5. ASSUME M!Open(c, M!Request("rename", pw, NoOne, NoOne, "member", "active", mTenant.version))
      PROVE  MInv'
  BY <1>1, <1>5, AskKept DEF M!Operations, M!LocksTenant, M!LocksProject, OfPerson, OfProject, M!TenantRoles
<1>. QED  BY <1>2, <1>3, <1>4, <1>5 DEF M!AskTenant

LEMMA AskProjectKept ==
    ASSUME MInv, NEW c \in Calls, NEW a \in People, NEW p \in Projects, NEW u \in People, M!AskProject(c, a, p, u)
    PROVE  MInv'
<1>1. /\ mMember[a].role \in M!TenantRoles /\ mRight[p][u].version \in Nat /\ mProject[p].version \in Nat
      /\ M!ProjectRoles \subseteq M!TenantRoles /\ 0 \in Nat
  BY DEF MInv, M!TypeOK, M!TenantMember, M!ProjectMember, M!Project, M!ProjectRoles, M!TenantRoles
<1>. DEFINE pw == mMember[a].role
<1>. USE DEF M!Operations, M!LocksTenant, M!LocksProject, OfPerson, OfProject
<1>2. ASSUME M!Open(c, M!Request("found", pw, a, p, "admin", "active", 0))
      PROVE  MInv'
  BY <1>1, <1>2, AskKept DEF M!TenantRoles
<1>3. ASSUME NEW role \in M!ProjectRoles, M!Open(c, M!Request("assign", pw, u, p, role, "active", 0))
      PROVE  MInv'
  BY <1>1, <1>3, AskKept
<1>4. ASSUME NEW role \in M!ProjectRoles, M!Open(c, M!Request("rerole", pw, u, p, role, "active", mRight[p][u].version))
      PROVE  MInv'
  BY <1>1, <1>4, AskKept
<1>5. ASSUME M!Open(c, M!Request("unassign", pw, u, p, "member", "active", 0))
      PROVE  MInv'
  BY <1>1, <1>5, AskKept DEF M!TenantRoles
<1>6. ASSUME NEW kind \in {"edit", "close"}, M!Open(c, M!Request(kind, pw, NoOne, p, "member", "active", mProject[p].version))
      PROVE  MInv'
  <2>1. kind \in M!Operations /\ kind \notin OfPerson /\ kind \notin M!LocksTenant /\ "member" \in M!TenantRoles
    BY DEF M!TenantRoles
  <2>. HIDE DEF M!Operations, M!LocksTenant, M!LocksProject, OfPerson, OfProject
  <2>. QED  BY <1>1, <1>6, <2>1, AskKept
<1>. QED  BY <1>2, <1>3, <1>4, <1>5, <1>6 DEF M!AskProject

LEMMA AskOperatorKept ==
    ASSUME MInv, NEW c \in Calls, NEW u \in People, M!AskOperator(c, u)
    PROVE  MInv'
<1>1. PICK kind \in {"issue", "bootstrap"} : M!Open(c, M!Request(kind, "owner", u, NoOne, "owner", "active", 0))
  BY DEF M!AskOperator
<1>2. 0 \in Nat
  OBVIOUS
<1>. QED  BY <1>1, <1>2, AskKept DEF M!Operations, M!LocksTenant, M!LocksProject, OfPerson, OfProject, M!TenantRoles

-----------------------------------------------------------------------------
(* A request is let through and reads its row.                              *)

LEMMA LoadKept ==
    ASSUME MInv, NEW c \in Calls, mCalls[c] # M!Free, NEW v \in Nat, M!Load(c, v),
           NEW u, u = mCalls[c].user, NEW p, p = mCalls[c].project, NEW k, k = mCalls[c].kind,
           k \in M!LocksTenant => M!TenantIsFree /\ mTenant.state = "live",
           k \in M!LocksProject => M!ProjectIsFree(p) /\ mProject[p].state # "absent",
           k \in Memberships => v = mMember[u].version /\ mAccount[u] # "absent",
           k = "hire" => mMember[u].status \in {"absent", "removed"},
           (k \in Memberships /\ M!IsActiveOwner(u) /\ ~(mCalls[c].role = "owner" /\ mCalls[c].status = "active"))
              => \E w \in People \ {u} : M!IsActiveOwner(w),
           k = "rename" => v = mTenant.version,
           (k \in {"rerole", "unassign"} /\ Demotes(mCalls[c]) /\ M!IsProjectAdmin(p, u))
              => \E w \in People \ {u} : M!IsProjectAdmin(p, w)
    PROVE  MInv'
<1>. DEFINE x == M!WithLoaded(mCalls[c], v)
<1>1. mCalls[c] \in M!Call /\ RequestFits(mCalls[c])
  BY DEF MInv, MCallsFit, MCallFits
<1>2. /\ x \in M!Call /\ x # M!Free /\ x.step = "checked" /\ x.kind = k /\ x.user = u
      /\ x.project = p /\ x.role = mCalls[c].role /\ x.status = mCalls[c].status
      /\ x.loaded = v /\ x.gone = {}
  BY <1>1, LoadedMade
<1>3. RequestFits(x)
  BY <1>1, <1>2 DEF RequestFits
<1>4. mCalls' = [mCalls EXCEPT ![c] = x] /\ UNCHANGED <<mKinds, M!rows>>
  BY DEF M!Load
<1>. HIDE DEF x
<1>5. mCalls'[c] = x /\ \A y \in Calls : y # c => mCalls'[y] = mCalls[y]
  BY <1>2, <1>3, <1>4, OthersFit
<1>6. MApart'
  BY <1>2, <1>5, StillApart
<1>7. MemberHeld(c)'
  BY <1>2, <1>4, <1>5 DEF MemberHeld, M!At, M!IsActiveOwner, M!rows
<1>8. TenantHeld(c)'
  BY <1>2, <1>4, <1>5 DEF TenantHeld, M!At, M!rows
<1>9. RightHeld(c)'
  BY <1>2, <1>4, <1>5 DEF RightHeld, M!At, M!IsProjectAdmin, Demotes, M!rows
<1>. QED  BY <1>2, <1>3, <1>4, <1>6, <1>7, <1>8, <1>9, OnlyCall DEF Held

LEMMA CheckAddMemberKept ==
    ASSUME MInv, NEW c \in Calls, M!CheckAddMember(c)
    PROVE  MInv'
<1>. DEFINE r == mCalls[c]
<1>1. r.kind = "hire" /\ r # M!Free /\ r.user \in People /\ mTenant.state = "live"
  BY AtFits DEF M!CheckAddMember, MInv, Held, TenantHeld, RequestFits, M!At, M!Free, OfPerson, M!Operations, M!LocksTenant
<1>2. mMember[r.user].version \in Nat
  BY <1>1 DEF MInv, M!TypeOK, M!TenantMember
<1>3. ~M!IsActiveOwner(r.user)
  BY DEF M!CheckAddMember, M!IsActiveOwner
<1>. QED  BY <1>1, <1>2, <1>3, LoadKept DEF M!CheckAddMember, M!LocksProject

LEMMA MemberCardinality == \A S : M!Cardinality(S) = Cardinality(S)
BY DEF M!Cardinality, Cardinality

\* A second active owner.
LEMMA AnotherOwner ==
    ASSUME NEW u \in People, M!OwnerCount > 1
    PROVE  \E w \in People \ {u} : M!IsActiveOwner(w)
<1>. DEFINE S == {w \in People : M!IsActiveOwner(w) /\ mAccount[w] = "active"}
<1>1. SUFFICES ASSUME S \subseteq {u}
               PROVE  FALSE
  OBVIOUS
<1>2. IsFiniteSet({u}) /\ Cardinality({u}) = 1
  BY FS_Singleton
<1>3. Cardinality(S) \in Nat /\ Cardinality(S) <= 1
  BY <1>1, <1>2, FS_Subset, FS_CardinalityType
<1>. QED  BY <1>3, MemberCardinality DEF M!OwnerCount

LEMMA CheckChangeMemberKept ==
    ASSUME MInv, NEW c \in Calls, M!CheckChangeMember(c)
    PROVE  MInv'
<1>. DEFINE r == mCalls[c]
<1>1. r.kind \in {"change", "dismiss"} /\ r # M!Free /\ r.user \in People /\ mTenant.state = "live"
  BY AtFits DEF M!CheckChangeMember, MInv, Held, TenantHeld, RequestFits, M!At, M!Free, OfPerson, M!Operations, M!LocksTenant
<1>2. mMember[r.user].version \in Nat
  BY <1>1 DEF MInv, M!TypeOK, M!TenantMember
<1>3. mAccount[r.user] # "absent"
  BY <1>1 DEF M!CheckChangeMember, MInv, Unborn, M!NoMember
<1>4. (M!IsActiveOwner(r.user) /\ ~(r.role = "owner" /\ r.status = "active"))
         => \E w \in People \ {r.user} : M!IsActiveOwner(w)
  BY <1>1, AnotherOwner DEF M!CheckChangeMember
<1>. QED  BY <1>1, <1>2, <1>3, <1>4, LoadKept DEF M!CheckChangeMember, M!LocksProject

LEMMA CheckBootstrapKept ==
    ASSUME MInv, NEW c \in Calls, M!CheckBootstrap(c)
    PROVE  MInv'
<1>. DEFINE r == mCalls[c]
<1>1. r.kind = "bootstrap" /\ r # M!Free /\ r.user \in People
  BY AtFits DEF M!CheckBootstrap, MInv, RequestFits, M!At, M!Free, OfPerson, M!Operations, M!LocksTenant
<1>2. mMember[r.user].version \in Nat
  BY <1>1 DEF MInv, M!TypeOK, M!TenantMember
<1>. QED  BY <1>1, <1>2, LoadKept DEF M!CheckBootstrap, M!LocksProject

LEMMA CheckCreateUserKept ==
    ASSUME MInv, NEW c \in Calls, M!CheckCreateUser(c)
    PROVE  MInv'
<1>. DEFINE r == mCalls[c]
<1>1. r.kind = "register" /\ r # M!Free /\ mTenant.state = "live" /\ 0 \in Nat
  BY AtFits DEF M!CheckCreateUser, MInv, Held, TenantHeld, M!At, M!LocksTenant
<1>. QED  BY <1>1, LoadKept DEF M!CheckCreateUser, M!LocksProject, Memberships

LEMMA CheckUpdateKept ==
    ASSUME MInv, NEW c \in Calls, M!CheckUpdate(c)
    PROVE  MInv'
<1>. DEFINE r == mCalls[c]
<1>1. r.kind = "rename" /\ r # M!Free /\ mTenant.state = "live" /\ mTenant.version \in Nat
  BY AtFits DEF M!CheckUpdate, MInv, Held, TenantHeld, M!At, M!LocksTenant, M!TypeOK, M!Tenant
<1>. QED  BY <1>1, LoadKept DEF M!CheckUpdate, M!LocksProject, Memberships

LEMMA CheckIssueKept ==
    ASSUME MInv, NEW c \in Calls, M!CheckIssue(c)
    PROVE  MInv'
<1>. DEFINE r == mCalls[c]
<1>1. r.kind = "issue" /\ r # M!Free
  BY AtFits DEF M!CheckIssue, MInv
<1>2. PICK v \in Nat : M!Load(c, v)
  BY DEF M!CheckIssue
<1>. QED  BY <1>1, <1>2, LoadKept DEF M!LocksProject, M!LocksTenant, Memberships

LEMMA ReadProjectKept ==
    ASSUME MInv, NEW c \in Calls, M!ReadProject(c)
    PROVE  MInv'
<1>. DEFINE r == mCalls[c]
<1>1. r.kind \in {"edit", "close"} /\ r # M!Free /\ r.seen \in Nat
  BY AtFits, CallRead DEF M!ReadProject, MInv
<1>. QED  BY <1>1, LoadKept DEF M!ReadProject, M!LocksProject, M!LocksTenant, Memberships

LEMMA CheckAssignKept ==
    ASSUME MInv, NEW c \in Calls, M!CheckAssign(c)
    PROVE  MInv'
<1>. DEFINE r == mCalls[c]
<1>1. r.kind = "assign" /\ r # M!Free /\ r.user \in People /\ r.project \in Projects
  BY AtFits DEF M!CheckAssign, MInv, RequestFits, OfPerson, OfProject, M!Operations, M!LocksProject
<1>2. mRight[r.project][r.user].version \in Nat
  BY <1>1 DEF MInv, M!TypeOK, M!ProjectMember
<1>. QED  BY <1>1, <1>2, LoadKept DEF M!CheckAssign, M!LockProject, M!LocksTenant, Memberships

LEMMA CheckMemberKept ==
    ASSUME MInv, NEW c \in Calls, M!CheckMember(c)
    PROVE  MInv'
<1>. DEFINE r == mCalls[c]
<1>1. r.kind \in {"rerole", "unassign"} /\ r # M!Free /\ r.user \in People /\ r.project \in Projects
  BY AtFits DEF M!CheckMember, MInv, RequestFits, OfPerson, OfProject, M!Operations, M!LocksProject
<1>2. mRight[r.project][r.user].version \in Nat
  BY <1>1 DEF MInv, M!TypeOK, M!ProjectMember
<1>3. (Demotes(r) /\ M!IsProjectAdmin(r.project, r.user))
         => \E w \in People \ {r.user} : M!IsProjectAdmin(r.project, w)
  BY <1>1 DEF M!CheckMember, Demotes, M!IsProjectAdmin, M!OtherAdmins
<1>. QED  BY <1>1, <1>2, <1>3, LoadKept DEF M!CheckMember, M!LockProject, M!LocksTenant, Memberships

-----------------------------------------------------------------------------
(* A request writes and commits.                                            *)

\* Under the tenant's lock no other request is about to write there.
LEMMA AloneInTenant ==
    ASSUME MInv, NEW c \in Calls, M!At(c, "checked", M!LocksTenant),
           NEW y \in Calls, y # c
    PROVE  ~M!At(y, "checked", M!LocksTenant)
BY DEF MInv, MApart

LEMMA AloneInProject ==
    ASSUME MInv, NEW c \in Calls, M!At(c, "checked", M!LocksProject),
           NEW y \in Calls, y # c, M!At(y, "checked", M!LocksProject)
    PROVE  mCalls[y].project # mCalls[c].project
BY DEF MInv, MApart

LEMMA SaveMemberKept ==
    ASSUME MInv, NEW c \in Calls, M!SaveMember(c)
    PROVE  MInv'
<1>. DEFINE r == mCalls[c]
            row == [status |-> r.status, role |-> r.role, version |-> r.loaded + 1]
<1>1. /\ r \in M!Call /\ r # M!Free /\ r.user \in People /\ r.kind \in {"hire", "change", "bootstrap"}
      /\ r.step = "checked"
  BY AtFits DEF M!SaveMember, MInv, RequestFits, OfPerson, M!Operations, M!LocksTenant
<1>2. row \in M!TenantMember
  BY <1>1, CallRead DEF M!TenantMember
<1>3. /\ M!At(c, "checked", M!LocksTenant) /\ mTenant.state = "live" /\ mAccount[r.user] # "absent"
  BY <1>1 DEF M!At, M!LocksTenant, Memberships, MInv, Held, TenantHeld, MemberHeld
<1>4. /\ mCalls' \in [Calls -> M!Call] /\ MCallsFit' /\ MApart' /\ Held(c)'
      /\ \A y \in Calls : y # c => mCalls'[y] = mCalls[y]
  BY FreeKept DEF M!SaveMember, M!Done
<1>5. /\ mMember' \in [People -> M!TenantMember]
      /\ \A u \in People : u # r.user => mMember'[u] = mMember[u]
  BY <1>1, <1>2 DEF M!SaveMember, MInv, M!TypeOK
<1>6. M!TypeOK'
  BY <1>4, <1>5 DEF M!SaveMember, M!Done, MInv, M!TypeOK
<1>7. \A y \in Calls : y # c => Held(y)'
  <2>1. SUFFICES ASSUME NEW y \in Calls, y # c
                 PROVE  Held(y)'
    OBVIOUS
  <2>2. ~M!At(y, "checked", Memberships) /\ mCalls'[y] = mCalls[y] /\ Held(y)
    BY <1>3, <1>4, <2>1, AloneInTenant DEF M!At, Memberships, M!LocksTenant, MInv
  <2>. QED  BY <2>2 DEF M!SaveMember, Held, MemberHeld, TenantHeld, RightHeld, M!At, M!IsProjectAdmin
<1>8. Unborn'
  BY <1>3, <1>5 DEF M!SaveMember, MInv, Unborn
<1>. QED  BY <1>4, <1>6, <1>7, <1>8 DEF MInv

\* A dismissal leaves the requests what they were, but tells those that may take a right.
LEMMA DismissCalls ==
    ASSUME MInv, NEW c \in Calls, M!Dismiss(c)
    PROVE  /\ mCalls' \in [Calls -> M!Call] /\ MCallsFit' /\ mCalls'[c] = M!Free
           /\ \A y \in Calls : y # c =>
                 /\ mCalls[y] = M!Free => mCalls'[y] = M!Free
                 /\ mCalls[y] # M!Free =>
                       /\ mCalls'[y] # M!Free
                       /\ mCalls'[y].step = mCalls[y].step /\ mCalls'[y].kind = mCalls[y].kind
                       /\ mCalls'[y].user = mCalls[y].user /\ mCalls'[y].project = mCalls[y].project
                       /\ mCalls'[y].role = mCalls[y].role /\ mCalls'[y].status = mCalls[y].status
                       /\ mCalls'[y].loaded = mCalls[y].loaded
                       /\ mCalls[y].gone \subseteq mCalls'[y].gone
                       /\ M!At(y, "checked", {"rerole", "unassign"}) => mCalls[c].user \in mCalls'[y].gone
<1>. DEFINE r == mCalls[c]
<1>1. r.user \in People
  BY AtFits DEF M!Dismiss, MInv, RequestFits, OfPerson, M!Operations, M!LocksTenant
<1>2. mCalls' = [x \in Calls |-> IF x = c THEN M!Free
                    ELSE IF M!At(x, "checked", {"rerole", "unassign"})
                         THEN M!AlsoGone(mCalls[x], r.user) ELSE mCalls[x]]
  BY DEF M!Dismiss
<1>3. mCalls'[c] = M!Free
  BY <1>2
<1>4. ASSUME NEW y \in Calls, y # c, mCalls[y] = M!Free
      PROVE  mCalls'[y] = M!Free
  BY <1>2, <1>4 DEF M!At, M!Free
<1>5. ASSUME NEW y \in Calls, y # c, mCalls[y] # M!Free
      PROVE  /\ mCalls'[y] \in M!Call /\ mCalls'[y] # M!Free
             /\ mCalls'[y].step = mCalls[y].step /\ mCalls'[y].kind = mCalls[y].kind
             /\ mCalls'[y].user = mCalls[y].user /\ mCalls'[y].project = mCalls[y].project
             /\ mCalls'[y].role = mCalls[y].role /\ mCalls'[y].status = mCalls[y].status
             /\ mCalls'[y].loaded = mCalls[y].loaded
             /\ mCalls[y].gone \subseteq mCalls'[y].gone
             /\ M!At(y, "checked", {"rerole", "unassign"}) => mCalls[c].user \in mCalls'[y].gone
  <2>1. mCalls[y] \in M!Call
    BY DEF MInv, MCallsFit, MCallFits
  <2>2. CASE M!At(y, "checked", {"rerole", "unassign"})
    <3>1. mCalls'[y] = M!AlsoGone(mCalls[y], r.user)
      BY <1>2, <1>5, <2>2
    <3>. QED  BY <1>1, <1>5, <2>1, <3>1, GoneMade
  <2>3. CASE ~M!At(y, "checked", {"rerole", "unassign"})
    <3>1. mCalls'[y] = mCalls[y]
      BY <1>2, <1>5, <2>3
    <3>. QED  BY <1>5, <2>1, <2>3, <3>1
  <2>. QED  BY <2>2, <2>3
<1>6. \A y \in Calls : mCalls'[y] \in M!Call
  BY <1>3, <1>4, <1>5 DEF M!Call
<1>7. mCalls' \in [Calls -> M!Call] /\ mCalls' = [y \in Calls |-> mCalls'[y]]
  BY <1>2, <1>6
<1>8. ASSUME NEW y \in Calls, mCalls'[y] # M!Free
      PROVE  RequestFits(mCalls[y])' 
  BY <1>3, <1>4, <1>5, <1>8 DEF MInv, MCallsFit, MCallFits, RequestFits
<1>9. MCallsFit'
  BY <1>6, <1>7, <1>8 DEF MCallsFit, MCallFits
<1>. QED  BY <1>3, <1>4, <1>5, <1>7, <1>9

LEMMA DismissKept ==
    ASSUME MInv, NEW c \in Calls, M!Dismiss(c)
    PROVE  MInv'
<1>. DEFINE r == mCalls[c]
            row == [status |-> "removed", role |-> r.role, version |-> r.loaded + 1]
<1>1. /\ r \in M!Call /\ r # M!Free /\ r.user \in People /\ r.kind = "dismiss" /\ r.step = "checked"
  BY AtFits DEF M!Dismiss, MInv, RequestFits, OfPerson, M!Operations, M!LocksTenant
<1>2. row \in M!TenantMember
  BY <1>1, CallRead DEF M!TenantMember
<1>3. /\ M!At(c, "checked", M!LocksTenant) /\ mTenant.state = "live" /\ mAccount[r.user] # "absent"
  BY <1>1 DEF M!At, M!LocksTenant, Memberships, MInv, Held, TenantHeld, MemberHeld
<1>5. /\ mMember' \in [People -> M!TenantMember]
      /\ \A u \in People : u # r.user => mMember'[u] = mMember[u]
  BY <1>1, <1>2 DEF M!Dismiss, MInv, M!TypeOK
<1>6. \A p \in Projects, u \in People : M!Withdrawn(mRight[p][u]) \in M!ProjectMember
  BY DEF MInv, M!TypeOK, M!Withdrawn, M!ProjectMember
<1>7. mRight' \in [Projects -> [People -> M!ProjectMember]]
  BY <1>6 DEF M!Dismiss, MInv, M!TypeOK
<1>8. \A p \in Projects, u \in People : u # r.user => mRight'[p][u] = mRight[p][u]
  BY DEF M!Dismiss
<1>9. \A p \in Projects, u \in People : u = r.user => ~M!IsProjectAdmin(p, u)'
  BY <1>1 DEF M!Dismiss, M!Withdrawn, M!IsProjectAdmin, MInv, M!TypeOK
<1>10. M!TypeOK'
  BY <1>5, <1>7, DismissCalls DEF M!Dismiss, MInv, M!TypeOK
<1>11. \A y \in Calls, step \in {"asked", "checked"} : \A ks :
          M!At(y, step, ks)' => y # c /\ M!At(y, step, ks) /\ mCalls[y] # M!Free
  BY DismissCalls DEF M!At, M!Free
<1>12. MApart'
  BY <1>11, DismissCalls DEF MInv, MApart
<1>13. ASSUME NEW y \in Calls
       PROVE  Held(y)'
  <2>1. MemberHeld(y)'
    BY <1>3, <1>11, AloneInTenant DEF MemberHeld, M!At, Memberships, M!LocksTenant
  <2>2. TenantHeld(y)'
    BY <1>11, DismissCalls DEF TenantHeld, M!Dismiss, MInv, Held
  <2>3. RightHeld(y)'
    <3>1. M!At(y, "checked", M!LocksProject)' => (mProject[mCalls[y].project].state # "absent")'
      BY <1>11, DismissCalls DEF RightHeld, M!Dismiss, MInv, Held
    <3>2. ASSUME M!At(y, "checked", {"rerole", "unassign"})', Demotes(mCalls[y])',
                 M!IsProjectAdmin(mCalls[y].project, mCalls[y].user)'
          PROVE  \E v \in People \ {mCalls'[y].user} :
                    M!IsProjectAdmin(mCalls[y].project, v)' \/ v \in mCalls'[y].gone
      <4>1. /\ y # c /\ mCalls[y] # M!Free /\ M!At(y, "checked", {"rerole", "unassign"})
            /\ Demotes(mCalls[y])
            /\ mCalls'[y].project = mCalls[y].project /\ mCalls'[y].user = mCalls[y].user
            /\ mCalls[y].gone \subseteq mCalls'[y].gone /\ r.user \in mCalls'[y].gone
        BY <1>11, <3>2, DismissCalls DEF Demotes
      <4>2. mCalls[y].user \in People /\ mCalls[y].project \in Projects
        BY <4>1, AtFits DEF MInv, RequestFits, OfPerson, OfProject, M!Operations, M!LocksProject
      <4>3. M!IsProjectAdmin(mCalls[y].project, mCalls[y].user) /\ mCalls[y].user # r.user
        BY <1>8, <1>9, <3>2, <4>1, <4>2 DEF M!IsProjectAdmin
      <4>4. PICK v \in People \ {mCalls[y].user} :
               M!IsProjectAdmin(mCalls[y].project, v) \/ v \in mCalls[y].gone
        BY <4>1, <4>3 DEF MInv, Held, RightHeld
      <4>5. CASE v = r.user
        BY <4>1, <4>4, <4>5
      <4>6. CASE v # r.user
        BY <1>8, <4>1, <4>2, <4>4, <4>6 DEF M!IsProjectAdmin
      <4>. QED  BY <4>5, <4>6
    <3>. QED  BY <3>1, <3>2 DEF RightHeld
  <2>. QED  BY <2>1, <2>2, <2>3 DEF Held
<1>14. Unborn'
  BY <1>3, <1>5 DEF M!Dismiss, MInv, Unborn
<1>. QED  BY <1>10, <1>12, <1>13, <1>14, DismissCalls DEF MInv

LEMMA CreateUserKept ==
    ASSUME MInv, NEW c \in Calls, M!CreateUser(c)
    PROVE  MInv'
<1>. DEFINE r == mCalls[c]
<1>1. /\ r \in M!Call /\ r # M!Free /\ r.user \in People /\ r.kind = "register" /\ r.step = "checked"
      /\ r.role \in M!TenantRoles
  BY AtFits, CallRead DEF M!CreateUser, MInv, RequestFits, OfPerson, M!Operations, M!LocksTenant
<1>2. M!Joined(r.role, 1) \in M!TenantMember
  BY <1>1 DEF M!TenantMember, M!Joined
<1>3. M!At(c, "checked", M!LocksTenant) /\ mTenant.state = "live"
  BY <1>1 DEF M!At, M!LocksTenant, MInv, Held, TenantHeld
<1>4. /\ mCalls' \in [Calls -> M!Call] /\ MCallsFit' /\ MApart' /\ Held(c)'
      /\ \A y \in Calls : y # c => mCalls'[y] = mCalls[y]
  BY FreeKept DEF M!CreateUser, M!Done
<1>5. /\ mMember' \in [People -> M!TenantMember] /\ mAccount' \in [People -> {"absent", "active", "inactive"}]
      /\ mAccount'[r.user] = "active"
      /\ \A u \in People : u # r.user => mMember'[u] = mMember[u] /\ mAccount'[u] = mAccount[u]
  BY <1>1, <1>2 DEF M!CreateUser, MInv, M!TypeOK
<1>6. M!TypeOK'
  BY <1>4, <1>5 DEF M!CreateUser, M!Done, MInv, M!TypeOK
<1>7. \A y \in Calls : y # c => Held(y)'
  <2>1. SUFFICES ASSUME NEW y \in Calls, y # c
                 PROVE  Held(y)'
    OBVIOUS
  <2>2. ~M!At(y, "checked", Memberships) /\ mCalls'[y] = mCalls[y] /\ Held(y)
    BY <1>3, <1>4, <2>1, AloneInTenant DEF M!At, Memberships, M!LocksTenant, MInv
  <2>. QED  BY <2>2 DEF M!CreateUser, Held, MemberHeld, TenantHeld, RightHeld, M!At, M!IsProjectAdmin
<1>8. Unborn'
  BY <1>3, <1>5 DEF M!CreateUser, MInv, Unborn
<1>. QED  BY <1>4, <1>6, <1>7, <1>8 DEF MInv

LEMMA UpdateKept ==
    ASSUME MInv, NEW c \in Calls, M!Update(c)
    PROVE  MInv'
<1>. DEFINE r == mCalls[c]
<1>1. /\ r \in M!Call /\ r # M!Free /\ r.kind = "rename" /\ r.step = "checked" /\ r.loaded \in Nat
  BY AtFits, CallRead DEF M!Update, MInv
<1>3. M!At(c, "checked", M!LocksTenant) /\ mTenant.state = "live"
  BY <1>1 DEF M!At, M!LocksTenant, MInv, Held, TenantHeld
<1>4. /\ mCalls' \in [Calls -> M!Call] /\ MCallsFit' /\ MApart' /\ Held(c)'
      /\ \A y \in Calls : y # c => mCalls'[y] = mCalls[y]
  BY FreeKept DEF M!Update, M!Done
<1>5. mTenant' \in M!Tenant /\ mTenant'.state = "live"
  BY <1>1, <1>3 DEF M!Update, M!Tenant
<1>6. M!TypeOK'
  BY <1>4, <1>5 DEF M!Update, M!Done, MInv, M!TypeOK
<1>7. \A y \in Calls : y # c => Held(y)'
  <2>1. SUFFICES ASSUME NEW y \in Calls, y # c
                 PROVE  Held(y)'
    OBVIOUS
  <2>2. ~M!At(y, "checked", {"rename"}) /\ mCalls'[y] = mCalls[y] /\ Held(y)
    BY <1>3, <1>4, <2>1, AloneInTenant DEF M!At, M!LocksTenant, MInv
  <2>. QED  BY <1>5, <2>2 DEF M!Update, Held, MemberHeld, TenantHeld, RightHeld, M!At, M!IsActiveOwner, M!IsProjectAdmin
<1>8. Unborn'
  BY <1>3, <1>5 DEF M!Update, MInv, Unborn
<1>. QED  BY <1>4, <1>6, <1>7, <1>8 DEF MInv

LEMMA IssueKept ==
    ASSUME MInv, NEW c \in Calls, M!Issue(c)
    PROVE  MInv'
<1>. DEFINE r == mCalls[c]
<1>1. r \in M!Call /\ r # M!Free /\ r.user \in People /\ r.kind = "issue"
  BY AtFits DEF M!Issue, MInv, RequestFits, OfPerson, M!Operations
<1>2. M!Joined("owner", 1) \in M!TenantMember
  BY DEF M!TenantMember, M!TenantRoles, M!Joined
<1>4. /\ mCalls' \in [Calls -> M!Call] /\ MCallsFit' /\ MApart' /\ Held(c)'
      /\ \A y \in Calls : y # c => mCalls'[y] = mCalls[y]
  BY FreeKept DEF M!Issue, M!Done
<1>5. /\ mMember' \in [People -> M!TenantMember] /\ mAccount' \in [People -> {"absent", "active", "inactive"}]
      /\ mAccount'[r.user] # "absent"
      /\ \A u \in People : u # r.user => mMember'[u] = mMember[u] /\ mAccount'[u] = mAccount[u]
  BY <1>1, <1>2 DEF M!Issue, MInv, M!TypeOK
<1>6. mTenant' \in M!Tenant /\ mTenant'.state = "live"
  BY DEF M!Issue, M!Tenant
<1>7. M!TypeOK'
  BY <1>4, <1>5, <1>6 DEF M!Issue, M!Done, MInv, M!TypeOK
<1>8. \A y \in Calls : y # c => Held(y)'
  <2>1. SUFFICES ASSUME NEW y \in Calls, y # c
                 PROVE  Held(y)'
    OBVIOUS
  <2>2. mCalls'[y] = mCalls[y] /\ Held(y)
    BY <1>4, <2>1 DEF MInv
  <2>3. ~M!At(y, "checked", M!LocksTenant)
    BY <2>2 DEF M!Issue, Held, TenantHeld
  <2>. QED  BY <1>6, <2>2, <2>3 DEF M!Issue, Held, MemberHeld, TenantHeld, RightHeld, M!At, M!IsProjectAdmin, Memberships, M!LocksTenant
<1>9. Unborn'
  BY <1>5, <1>6 DEF M!Issue, MInv, Unborn
<1>. QED  BY <1>4, <1>7, <1>8, <1>9 DEF MInv

LEMMA CreateProjectKept ==
    ASSUME MInv, NEW c \in Calls, M!CreateProject(c)
    PROVE  MInv'
<1>. DEFINE r == mCalls[c]
<1>1. r.user \in People /\ r.project \in Projects
  BY AtFits DEF M!CreateProject, MInv, RequestFits, OfPerson, OfProject, M!Operations
<1>2. M!Assigned("admin") \in M!ProjectMember /\ [state |-> "live", version |-> 1] \in M!Project
  BY DEF M!ProjectMember, M!ProjectRoles, M!Assigned, M!Project
<1>4. /\ mCalls' \in [Calls -> M!Call] /\ MCallsFit' /\ MApart' /\ Held(c)'
      /\ \A y \in Calls : y # c => mCalls'[y] = mCalls[y]
  BY FreeKept DEF M!CreateProject, M!Done
<1>5. /\ mProject' \in [Projects -> M!Project] /\ mRight' \in [Projects -> [People -> M!ProjectMember]]
      /\ \A p \in Projects : p # r.project => mProject'[p] = mProject[p] /\ mRight'[p] = mRight[p]
  BY <1>1, <1>2 DEF M!CreateProject, MInv, M!TypeOK
<1>6. M!TypeOK'
  BY <1>4, <1>5 DEF M!CreateProject, M!Done, MInv, M!TypeOK
<1>7. \A y \in Calls : y # c => Held(y)'
  <2>1. SUFFICES ASSUME NEW y \in Calls, y # c
                 PROVE  Held(y)'
    OBVIOUS
  <2>2. mCalls'[y] = mCalls[y] /\ Held(y)
    BY <1>4, <2>1 DEF MInv
  <2>3. M!At(y, "checked", M!LocksProject) => mCalls[y].project # r.project /\ mCalls[y].project \in Projects
    BY <2>2, AtFits DEF M!CreateProject, Held, RightHeld, MInv, RequestFits, OfProject
  <2>4. MemberHeld(y)' /\ TenantHeld(y)'
    BY <2>2 DEF M!CreateProject, Held, MemberHeld, TenantHeld, M!At, M!IsActiveOwner
  <2>5. RightHeld(y)'
    BY <1>5, <2>2, <2>3 DEF Held, RightHeld, M!At, M!IsProjectAdmin, M!LocksProject
  <2>. QED  BY <2>4, <2>5 DEF Held
<1>8. Unborn'
  BY DEF M!CreateProject, MInv, Unborn
<1>. QED  BY <1>4, <1>6, <1>7, <1>8 DEF MInv

\* A change of a project's own row.
LEMMA ProjectRowKept ==
    ASSUME MInv, NEW c \in Calls, NEW p \in Projects, NEW row \in M!Project,
           mProject[p].state # "absent" => row.state # "absent",
           mProject' = [mProject EXCEPT ![p] = row],
           M!Done(c), UNCHANGED <<mAccount, mTenant, mMember, mRight>>
    PROVE  MInv'
<1>4. /\ mCalls' \in [Calls -> M!Call] /\ MCallsFit' /\ MApart' /\ Held(c)'
      /\ \A y \in Calls : y # c => mCalls'[y] = mCalls[y]
  BY FreeKept DEF M!Done
<1>5. /\ mProject' \in [Projects -> M!Project]
      /\ \A q : q \in Projects /\ mProject[q].state # "absent" => mProject'[q].state # "absent"
  BY DEF MInv, M!TypeOK
<1>6. M!TypeOK'
  BY <1>4, <1>5 DEF M!Done, MInv, M!TypeOK
<1>7. \A y \in Calls : y # c => Held(y)'
  <2>1. SUFFICES ASSUME NEW y \in Calls, y # c
                 PROVE  Held(y)'
    OBVIOUS
  <2>2. mCalls'[y] = mCalls[y] /\ Held(y)
    BY <1>4, <2>1 DEF MInv
  <2>3. M!At(y, "checked", M!LocksProject) => mCalls[y].project \in Projects
    BY <2>2, AtFits DEF MInv, RequestFits, OfProject
  <2>. QED  BY <1>5, <2>2, <2>3 DEF Held, MemberHeld, TenantHeld, RightHeld, M!At, M!IsActiveOwner, M!IsProjectAdmin, Demotes
<1>8. Unborn'
  BY DEF MInv, Unborn
<1>. QED  BY <1>4, <1>6, <1>7, <1>8 DEF MInv

LEMMA UpdateProjectKept ==
    ASSUME MInv, NEW c \in Calls, M!UpdateProject(c)
    PROVE  MInv'
<1>. DEFINE p == mCalls[c].project
            row == [state |-> mProject[p].state, version |-> mCalls[c].loaded + 1]
<1>1. p \in Projects /\ mCalls[c].loaded \in Nat
  BY AtFits, CallRead DEF M!UpdateProject, MInv, RequestFits, OfProject
<1>2. row \in M!Project
  BY <1>1 DEF MInv, M!TypeOK, M!Project
<1>3. mProject' = [mProject EXCEPT ![p] = row]
  BY <1>1 DEF M!UpdateProject, MInv, M!TypeOK
<1>. QED  BY <1>1, <1>2, <1>3, ProjectRowKept DEF M!UpdateProject

LEMMA DeleteProjectKept ==
    ASSUME MInv, NEW c \in Calls, M!DeleteProject(c)
    PROVE  MInv'
<1>. DEFINE p == mCalls[c].project
            row == [state |-> "deleted", version |-> mProject[p].version]
<1>1. p \in Projects
  BY AtFits DEF M!DeleteProject, MInv, RequestFits, OfProject
<1>2. row \in M!Project /\ row.state # "absent"
  BY <1>1 DEF MInv, M!TypeOK, M!Project
<1>3. mProject' = [mProject EXCEPT ![p] = row]
  BY <1>1 DEF M!DeleteProject, MInv, M!TypeOK
<1>. QED  BY <1>1, <1>2, <1>3, ProjectRowKept DEF M!DeleteProject

\* A change of one right, under the project's lock.
LEMMA RightRowKept ==
    ASSUME MInv, NEW c \in Calls, M!At(c, "checked", M!LocksProject),
           NEW p, p = mCalls[c].project, NEW u \in People, NEW row \in M!ProjectMember,
           mRight' = [mRight EXCEPT ![p][u] = row],
           M!Done(c), UNCHANGED <<mAccount, mTenant, mMember, mProject>>
    PROVE  MInv'
<1>1. p \in Projects
  BY AtFits DEF MInv, RequestFits, OfProject
<1>4. /\ mCalls' \in [Calls -> M!Call] /\ MCallsFit' /\ MApart' /\ Held(c)'
      /\ \A y \in Calls : y # c => mCalls'[y] = mCalls[y]
  BY FreeKept DEF M!Done
<1>5. /\ mRight' \in [Projects -> [People -> M!ProjectMember]]
      /\ \A q \in Projects : q # p => mRight'[q] = mRight[q]
  BY <1>1 DEF MInv, M!TypeOK
<1>6. M!TypeOK'
  BY <1>4, <1>5 DEF M!Done, MInv, M!TypeOK
<1>7. \A y \in Calls : y # c => Held(y)'
  <2>1. SUFFICES ASSUME NEW y \in Calls, y # c
                 PROVE  Held(y)'
    OBVIOUS
  <2>2. mCalls'[y] = mCalls[y] /\ Held(y)
    BY <1>4, <2>1 DEF MInv
  <2>3. M!At(y, "checked", M!LocksProject) => mCalls[y].project # p /\ mCalls[y].project \in Projects
    BY <2>1, AtFits, AloneInProject DEF MInv, RequestFits, OfProject
  <2>4. MemberHeld(y)' /\ TenantHeld(y)'
    BY <2>2 DEF Held, MemberHeld, TenantHeld, M!At, M!IsActiveOwner
  <2>5. CASE M!At(y, "checked", M!LocksProject)
    <3>1. mRight'[mCalls[y].project] = mRight[mCalls[y].project]
      BY <1>5, <2>3, <2>5
    <3>2. RightHeld(y)
      BY <2>2 DEF Held
    <3>. QED  BY <2>2, <2>4, <3>1, <3>2 DEF Held, RightHeld, M!At, M!IsProjectAdmin
  <2>6. CASE ~M!At(y, "checked", M!LocksProject)
    <3>1. RightHeld(y)'
      BY <2>2, <2>6 DEF RightHeld, M!At, M!LocksProject
    <3>. QED  BY <2>4, <3>1 DEF Held
  <2>. QED  BY <2>5, <2>6
<1>8. Unborn'
  BY DEF MInv, Unborn
<1>. QED  BY <1>4, <1>6, <1>7, <1>8 DEF MInv

LEMMA AssignKept ==
    ASSUME MInv, NEW c \in Calls, M!Assign(c)
    PROVE  MInv'
<1>1. /\ mCalls[c].user \in People /\ mCalls[c].role \in M!ProjectRoles /\ M!At(c, "checked", M!LocksProject)
  BY AtFits DEF M!Assign, MInv, RequestFits, OfPerson, M!Operations, M!LocksProject, M!At
<1>2. M!Assigned(mCalls[c].role) \in M!ProjectMember
  BY <1>1 DEF M!ProjectMember, M!Assigned
<1>. QED  BY <1>1, <1>2, RightRowKept DEF M!Assign

LEMMA UpdateRoleKept ==
    ASSUME MInv, NEW c \in Calls, M!UpdateRole(c)
    PROVE  MInv'
<1>. DEFINE p == mCalls[c].project
            u == mCalls[c].user
            row == [state |-> mRight[p][u].state, role |-> mCalls[c].role, version |-> mCalls[c].loaded + 1]
<1>1. /\ u \in People /\ p \in Projects /\ mCalls[c].role \in M!ProjectRoles /\ mCalls[c].loaded \in Nat
      /\ M!At(c, "checked", M!LocksProject)
  BY AtFits, CallRead DEF M!UpdateRole, MInv, RequestFits, OfPerson, OfProject, M!Operations, M!LocksProject, M!At
<1>2. row \in M!ProjectMember
  BY <1>1 DEF M!ProjectMember, MInv, M!TypeOK
<1>3. mRight' = [mRight EXCEPT ![p][u] = row]
  BY <1>1 DEF M!UpdateRole, MInv, M!TypeOK
<1>. QED  BY <1>1, <1>2, <1>3, RightRowKept DEF M!UpdateRole

LEMMA RemoveMemberKept ==
    ASSUME MInv, NEW c \in Calls, M!RemoveMember(c)
    PROVE  MInv'
<1>1. mCalls[c].user \in People /\ M!At(c, "checked", M!LocksProject)
  BY AtFits DEF M!RemoveMember, MInv, RequestFits, OfPerson, M!Operations, M!LocksProject, M!At
<1>2. M!NoRight \in M!ProjectMember
  BY DEF M!ProjectMember, M!ProjectRoles, M!NoRight
<1>. QED  BY <1>1, <1>2, RightRowKept DEF M!RemoveMember

LEMMA ChangeAccountKept ==
    ASSUME MInv, NEW u \in People, M!ChangeAccount(u)
    PROVE  MInv'
<1>1. /\ mAccount' \in [People -> {"absent", "active", "inactive"}]
      /\ \A v \in People : mAccount'[v] = "absent" <=> mAccount[v] = "absent"
  BY DEF M!ChangeAccount, MInv, M!TypeOK
<1>2. M!TypeOK' /\ MCallsFit' /\ MApart'
  BY <1>1 DEF M!ChangeAccount, MInv, M!TypeOK, MCallsFit, MCallFits, RequestFits, MApart, M!At
<1>3. \A y \in Calls : Held(y)'
  <2>1. SUFFICES ASSUME NEW y \in Calls
                 PROVE  Held(y)'
    OBVIOUS
  <2>2. M!At(y, "checked", Memberships) => mCalls[y].user \in People
    BY AtFits DEF MInv, RequestFits, OfPerson, M!Operations, M!LocksTenant, Memberships
  <2>. QED  BY <1>1, <2>2 DEF M!ChangeAccount, MInv, Held, MemberHeld, TenantHeld, RightHeld, M!At, M!IsActiveOwner, M!IsProjectAdmin, Demotes
<1>4. Unborn'
  BY <1>1 DEF M!ChangeAccount, MInv, Unborn
<1>. QED  BY <1>2, <1>3, <1>4 DEF MInv

-----------------------------------------------------------------------------
LEMMA MKept ==
    ASSUME MInv, [M!Next]_(M!vars)
    PROVE  MInv'
<1>1. CASE UNCHANGED M!vars
  <2>1. M!TypeOK' /\ MCallsFit' /\ MApart' /\ Unborn'
    BY <1>1 DEF MInv, M!TypeOK, MCallsFit, MCallFits, RequestFits, MApart, M!At, Unborn, M!vars
  <2>2. \A c \in Calls : Held(c)'
    BY <1>1 DEF MInv, Held, MemberHeld, TenantHeld, RightHeld, M!At, M!IsActiveOwner, M!IsProjectAdmin, Demotes, M!vars
  <2>. QED  BY <2>1, <2>2 DEF MInv
<1>2. CASE \E u \in People : M!ChangeAccount(u)
  BY <1>2, ChangeAccountKept
<1>3. ASSUME NEW c \in Calls, \E a, u \in People :
                M!AskTenant(c, a, u) \/ (\E p \in Projects : M!AskProject(c, a, p, u)) \/ M!AskOperator(c, u)
      PROVE  MInv'
  BY <1>3, AskTenantKept, AskProjectKept, AskOperatorKept
<1>4. ASSUME NEW c \in Calls,
             \/ M!Refuse(c) \/ M!CheckAddMember(c) \/ M!CheckChangeMember(c) \/ M!CheckBootstrap(c)
             \/ M!CheckCreateUser(c) \/ M!CheckUpdate(c) \/ M!CheckIssue(c) \/ M!ReadProject(c)
             \/ M!CheckAssign(c) \/ M!CheckMember(c)
      PROVE  MInv'
  BY <1>4, RefuseKept, CheckAddMemberKept, CheckChangeMemberKept, CheckBootstrapKept,
     CheckCreateUserKept, CheckUpdateKept, CheckIssueKept, ReadProjectKept, CheckAssignKept, CheckMemberKept
<1>5. ASSUME NEW c \in Calls,
             \/ M!SaveMember(c) \/ M!Dismiss(c) \/ M!CreateUser(c) \/ M!Update(c) \/ M!Issue(c)
             \/ M!CreateProject(c) \/ M!UpdateProject(c) \/ M!DeleteProject(c)
             \/ M!Assign(c) \/ M!UpdateRole(c) \/ M!RemoveMember(c)
      PROVE  MInv'
  BY <1>5, SaveMemberKept, DismissKept, CreateUserKept, UpdateKept, IssueKept, CreateProjectKept,
     UpdateProjectKept, DeleteProjectKept, AssignKept, UpdateRoleKept, RemoveMemberKept
<1>. QED  BY <1>1, <1>2, <1>3, <1>4, <1>5 DEF M!Next

-----------------------------------------------------------------------------
(* What the steps promise.                                                  *)
OwnerKept == (\E u \in People : M!IsActiveOwner(u)) => \E u \in People : M!IsActiveOwner(u)'
AdminKept == \A c \in Calls, p \in Projects, u \in People : M!TakesAdmin(c, p, u) =>
                \E v \in People \ {u} : M!IsProjectAdmin(p, v)' \/ v \in mCalls[c].gone
ChangeCounted ==
    /\ \A u \in People : mMember'[u] # mMember[u] => mMember'[u].version = mMember[u].version + 1
    /\ mTenant' # mTenant => mTenant'.version = mTenant.version + 1

\* A request that is admitted, refused or let through writes no row.
LEMMA WhoWrites ==
    ASSUME [M!Next]_(M!vars)
    PROVE  \/ UNCHANGED M!rows
           \/ \E u \in People : M!ChangeAccount(u)
           \/ \E c \in Calls :
                 \/ M!SaveMember(c) \/ M!Dismiss(c) \/ M!CreateUser(c) \/ M!Update(c) \/ M!Issue(c)
                 \/ M!CreateProject(c) \/ M!UpdateProject(c) \/ M!DeleteProject(c)
                 \/ M!Assign(c) \/ M!UpdateRole(c) \/ M!RemoveMember(c)
<1>1. ASSUME NEW c \in Calls, NEW a \in People, NEW u \in People,
             M!AskTenant(c, a, u) \/ (\E p \in Projects : M!AskProject(c, a, p, u)) \/ M!AskOperator(c, u)
      PROVE  UNCHANGED M!rows
  <2>1. \E r : M!Open(c, r)
    BY <1>1 DEF M!AskTenant, M!AskProject, M!AskOperator
  <2>. QED  BY <2>1 DEF M!Open
<1>2. ASSUME NEW c \in Calls,
             \/ M!Refuse(c) \/ M!CheckAddMember(c) \/ M!CheckChangeMember(c) \/ M!CheckBootstrap(c)
             \/ M!CheckCreateUser(c) \/ M!CheckUpdate(c) \/ M!CheckIssue(c) \/ M!ReadProject(c)
             \/ M!CheckAssign(c) \/ M!CheckMember(c)
      PROVE  UNCHANGED M!rows
  BY <1>2 DEF M!Refuse, M!Load, M!CheckAddMember, M!CheckChangeMember, M!CheckBootstrap, M!CheckCreateUser,
     M!CheckUpdate, M!CheckIssue, M!ReadProject, M!CheckAssign, M!CheckMember
<1>3. CASE UNCHANGED M!vars
  BY <1>3 DEF M!vars, M!rows
<1>. QED  BY <1>1, <1>2, <1>3 DEF M!Next

\* The steps that write a membership, or the tenant's row.
WritesMember(c) == M!SaveMember(c) \/ M!Dismiss(c) \/ M!CreateUser(c) \/ M!Issue(c)
LEMMA OnlyThese ==
    ASSUME [M!Next]_(M!vars)
    PROVE  (\E c \in Calls : WritesMember(c) \/ M!Update(c)) \/ UNCHANGED <<mTenant, mMember>>
BY WhoWrites DEF WritesMember, M!rows, M!ChangeAccount, M!CreateProject, M!UpdateProject, M!DeleteProject,
   M!Assign, M!UpdateRole, M!RemoveMember

\* A membership is written over the row that was read, an owner's only while there is another.
LEMMA MemberWritten ==
    ASSUME MInv, NEW c \in Calls, WritesMember(c)
    PROVE  OwnerKept /\ \A u \in People : mMember'[u] # mMember[u] => mMember'[u].version = mMember[u].version + 1
<1>. DEFINE r == mCalls[c]
<1>1. CASE M!SaveMember(c) \/ M!Dismiss(c)
  <2>1. /\ r \in M!Call /\ r # M!Free /\ r.user \in People /\ r.kind \in Memberships /\ r.step = "checked"
        /\ M!At(c, "checked", Memberships) /\ (r.kind = "dismiss" => r.status = "removed")
    BY <1>1, AtFits DEF M!SaveMember, M!Dismiss, MInv, RequestFits, OfPerson, M!Operations, M!LocksTenant, Memberships, M!At
  <2>2. /\ r.loaded = mMember[r.user].version
        /\ (M!IsActiveOwner(r.user) /\ ~(r.role = "owner" /\ r.status = "active"))
              => \E v \in People \ {r.user} : M!IsActiveOwner(v)
    BY <2>1 DEF MInv, Held, MemberHeld
  <2>3. PICK status : /\ mMember' = [mMember EXCEPT ![r.user] =
                            [status |-> status, role |-> r.role, version |-> r.loaded + 1]]
                      /\ r.role = "owner" /\ r.status = "active" => status = "active"
    <3>1. CASE M!SaveMember(c)
      BY <3>1 DEF M!SaveMember
    <3>2. CASE M!Dismiss(c)
      <4>1. r.status # "active"
        BY <2>1, <3>2 DEF M!Dismiss, M!At
      <4>. QED  BY <3>2, <4>1 DEF M!Dismiss
    <3>. QED  BY <1>1, <3>1, <3>2
  <2>4. /\ mMember'[r.user] = [status |-> status, role |-> r.role, version |-> r.loaded + 1]
        /\ \A v \in People : v # r.user => mMember'[v] = mMember[v]
    BY <2>1, <2>3 DEF MInv, M!TypeOK
  <2>5. OwnerKept
    <3>1. CASE r.role = "owner" /\ r.status = "active"
      <4>1. mMember'[r.user].status = "active" /\ mMember'[r.user].role = "owner"
        BY <2>3, <2>4, <3>1
      <4>. QED  BY <2>1, <4>1 DEF OwnerKept, M!IsActiveOwner
    <3>2. CASE ~(r.role = "owner" /\ r.status = "active")
      <4>1. SUFFICES ASSUME NEW u \in People, M!IsActiveOwner(u)
                     PROVE  \E v \in People : M!IsActiveOwner(v)'
        BY DEF OwnerKept
      <4>2. PICK v \in People \ {r.user} : M!IsActiveOwner(v)
        BY <2>2, <3>2, <4>1
      <4>. QED  BY <2>4, <4>2 DEF M!IsActiveOwner
    <3>. QED  BY <3>1, <3>2
  <2>. QED  BY <2>2, <2>4, <2>5
<1>2. CASE M!CreateUser(c) \/ M!Issue(c)
  <2>1. r.user \in People
    BY <1>2, AtFits DEF M!CreateUser, M!Issue, MInv, RequestFits, OfPerson, M!Operations, M!LocksTenant
  <2>2. /\ mMember[r.user] = M!NoMember
        /\ \E role : mMember' = [mMember EXCEPT ![r.user] = M!Joined(role, 1)]
    BY <1>2, <2>1 DEF M!CreateUser, M!Issue, MInv, Unborn
  <2>3. /\ mMember'[r.user].version = 1
        /\ \A v \in People : v # r.user => mMember'[v] = mMember[v]
    BY <2>1, <2>2 DEF MInv, M!TypeOK, M!Joined
  <2>4. mMember[r.user].version = 0 /\ mMember[r.user].status # "active"
    BY <2>2 DEF M!NoMember
  <2>5. OwnerKept
    BY <2>3, <2>4 DEF OwnerKept, M!IsActiveOwner
  <2>. QED  BY <2>3, <2>4, <2>5
<1>. QED  BY <1>1, <1>2 DEF WritesMember

LEMMA OwnerIsKept ==
    ASSUME MInv, [M!Next]_(M!vars)
    PROVE  OwnerKept
<1>1. CASE \E c \in Calls : WritesMember(c)
  BY <1>1, MemberWritten
<1>2. CASE UNCHANGED mMember
  BY <1>2 DEF OwnerKept, M!IsActiveOwner
<1>. QED  BY <1>1, <1>2, OnlyThese DEF M!Update

LEMMA ChangesAreCounted ==
    ASSUME MInv, [M!Next]_(M!vars)
    PROVE  ChangeCounted
<1>1. \A u \in People : mMember'[u] # mMember[u] => mMember'[u].version = mMember[u].version + 1
  BY MemberWritten, OnlyThese DEF M!Update
<1>2. ASSUME NEW c \in Calls, M!Update(c)
      PROVE  mTenant'.version = mTenant.version + 1
  <2>1. M!At(c, "checked", {"rename"})
    BY <1>2 DEF M!Update
  <2>. QED  BY <1>2, <2>1 DEF M!Update, MInv, Held, TenantHeld
<1>3. ASSUME NEW c \in Calls, WritesMember(c), mTenant' # mTenant
      PROVE  mTenant'.version = mTenant.version + 1
  BY <1>3 DEF WritesMember, M!SaveMember, M!Dismiss, M!CreateUser, M!Issue, MInv, Unborn
<1>. QED  BY <1>1, <1>2, <1>3, OnlyThese DEF ChangeCounted

\* Only these steps write a right and end the request that holds the project's lock.
LEMMA WhoTakes ==
    ASSUME MInv, [M!Next]_(M!vars), NEW c \in Calls, NEW p \in Projects, NEW u \in People, M!TakesAdmin(c, p, u)
    PROVE  M!UpdateRole(c) \/ M!RemoveMember(c)
<1>1. /\ mCalls[c].step = "checked" /\ mCalls[c].kind \in M!LocksProject /\ mCalls'[c] = M!Free /\ mCalls[c] # M!Free
      /\ mCalls[c].project = p /\ mRight' # mRight
  BY DEF M!TakesAdmin, M!At, M!Free, M!IsProjectAdmin
<1>2. ASSUME NEW x \in Calls, mCalls' = [mCalls EXCEPT ![x] = M!Free]
      PROVE  x = c
  BY <1>1, <1>2 DEF MInv, M!TypeOK
<1>3. \E x \in Calls : \/ M!UpdateRole(x) \/ M!RemoveMember(x) \/ M!Assign(x) \/ M!CreateProject(x) \/ M!Dismiss(x)
  BY <1>1, WhoWrites DEF M!rows, M!ChangeAccount, M!SaveMember, M!CreateUser, M!Update, M!Issue, M!UpdateProject,
     M!DeleteProject
<1>4. PICK x \in Calls : \/ M!UpdateRole(x) \/ M!RemoveMember(x) \/ M!Assign(x) \/ M!CreateProject(x) \/ M!Dismiss(x)
  BY <1>3
<1>5. CASE M!UpdateRole(x) \/ M!RemoveMember(x)
  <2>1. x = c
    BY <1>2, <1>5 DEF M!UpdateRole, M!RemoveMember, M!Done
  <2>. QED  BY <1>5, <2>1
<1>6. ~M!Assign(x)
  <2>1. SUFFICES ASSUME M!Assign(x)
                 PROVE  FALSE
    OBVIOUS
  <2>2. x = c
    BY <1>2, <2>1 DEF M!Assign, M!Done
  <2>3. mRight[p][u].state = "live" /\ mRight'[p][u] # mRight[p][u] /\ mCalls[c].user = u
    BY DEF M!TakesAdmin, M!IsProjectAdmin
  <2>. QED  BY <1>1, <2>1, <2>2, <2>3 DEF M!Assign
<1>7. ~M!CreateProject(x)
  <2>1. M!CreateProject(x) => x = c
    BY <1>2 DEF M!CreateProject, M!Done
  <2>. QED  BY <1>1, <2>1 DEF M!CreateProject, M!At, M!LocksProject
<1>8. ~M!Dismiss(x)
  <2>1. SUFFICES ASSUME M!Dismiss(x)
                 PROVE  FALSE
    OBVIOUS
  <2>2. x # c
    BY <1>1, <2>1 DEF M!Dismiss, M!At, M!LocksProject
  <2>. QED  BY <1>1, <2>1, <2>2, DismissCalls
<1>. QED  BY <1>4, <1>5, <1>6, <1>7, <1>8

LEMMA AdminIsKept ==
    ASSUME MInv, [M!Next]_(M!vars)
    PROVE  AdminKept
<1>1. SUFFICES ASSUME NEW c \in Calls, NEW p \in Projects, NEW u \in People, M!TakesAdmin(c, p, u)
               PROVE  \E v \in People \ {u} : M!IsProjectAdmin(p, v)' \/ v \in mCalls[c].gone
  BY DEF AdminKept
<1>2. M!UpdateRole(c) \/ M!RemoveMember(c)
  BY <1>1, WhoTakes
<1>3. mCalls[c].project = p /\ mCalls[c].user = u /\ M!IsProjectAdmin(p, u)
  BY <1>1 DEF M!TakesAdmin
<1>4. PICK row : mRight' = [mRight EXCEPT ![p][u] = row]
  BY <1>2, <1>3 DEF M!UpdateRole, M!RemoveMember
<1>5. Demotes(mCalls[c])
  <2>1. CASE M!UpdateRole(c)
    <3>1. mRight'[p][u] = [state |-> mRight[p][u].state, role |-> mCalls[c].role, version |-> mCalls[c].loaded + 1]
      BY <1>3, <2>1 DEF M!UpdateRole, MInv, M!TypeOK
    <3>2. mCalls[c].role # "admin"
      BY <1>1, <3>1 DEF M!TakesAdmin, M!IsProjectAdmin
    <3>. QED  BY <3>2 DEF Demotes
  <2>2. CASE M!RemoveMember(c)
    BY <2>2 DEF M!RemoveMember, Demotes, M!At
  <2>. QED  BY <1>2, <2>1, <2>2
<1>6. M!At(c, "checked", {"rerole", "unassign"})
  BY <1>2 DEF M!UpdateRole, M!RemoveMember, M!At
<1>7. PICK v \in People \ {u} : M!IsProjectAdmin(p, v) \/ v \in mCalls[c].gone
  BY <1>3, <1>5, <1>6 DEF MInv, Held, RightHeld
<1>8. mRight'[p][v] = mRight[p][v]
  BY <1>4, <1>7 DEF MInv, M!TypeOK
<1>. QED  BY <1>7, <1>8 DEF M!IsProjectAdmin

-----------------------------------------------------------------------------
(* The three together.                                                      *)
TeamWorkInv == TInv /\ DInv /\ MInv

LEMMA TeamWorkStarts ==
    ASSUME Init
    PROVE  TeamWorkInv
<1>1. T!Init /\ D!Init /\ M!Init
  BY DEF Init, DesignRests, TasksRest, MembersRest
<1>. QED  BY <1>1, TBegins, DBegins, MBegins DEF TeamWorkInv

\* A step is one of each component, or leaves it alone.
LEMMA TeamWorkStep ==
    ASSUME [Next]_<<part, tVars, dVars, mVars>>
    PROVE  [T!Next]_(T!vars) /\ [D!Next]_(D!vars) /\ [M!Next]_(M!vars)
<1>1. UNCHANGED tVars => UNCHANGED T!vars
  BY DEF tVars, T!vars
<1>2. UNCHANGED dVars => UNCHANGED D!vars
  BY DEF dVars, D!vars
<1>3. UNCHANGED mVars => UNCHANGED M!vars
  BY DEF mVars, M!vars
<1>4. \/ T!Next /\ UNCHANGED <<dVars, mVars>>
      \/ D!Next /\ UNCHANGED <<tVars, mVars>>
      \/ M!Next /\ UNCHANGED <<tVars, dVars>>
      \/ UNCHANGED <<tVars, dVars, mVars>>
  BY DEF Next
<1>. QED  BY <1>1, <1>2, <1>3, <1>4

LEMMA TeamWorkKept ==
    ASSUME TeamWorkInv, [Next]_<<part, tVars, dVars, mVars>>
    PROVE  TeamWorkInv'
<1>1. [T!Next]_(T!vars) /\ [D!Next]_(D!vars) /\ [M!Next]_(M!vars)
  BY TeamWorkStep
<1>2. TInv'
  BY <1>1, TKept DEF TeamWorkInv
<1>3. DInv'
  BY <1>1, DKept DEF TeamWorkInv
<1>4. MInv'
  BY <1>1, MKept DEF TeamWorkInv
<1>. QED  BY <1>2, <1>3, <1>4 DEF TeamWorkInv

\* The inductive invariants of the three components hold of every behaviour of a project's team: what
\* a request holds a lock for is as it was when the request compared it.
THEOREM TeamWorkInvariant == Spec => []TeamWorkInv
<1>1. Init => TeamWorkInv
  BY TeamWorkStarts
<1>2. TeamWorkInv /\ [Next]_<<part, tVars, dVars, mVars>> => TeamWorkInv'
  BY TeamWorkKept
<1>. QED  BY <1>1, <1>2, PTL DEF Spec

\* Type correctness of the three components.
THEOREM TeamWorkTyped == Spec => []TypeOK
<1>1. TeamWorkInv => TypeOK
  BY DEF TeamWorkInv, TInv, DInv, MInv, TypeOK
<1>. QED  BY <1>1, TeamWorkInvariant, PTL

\* Whatever generation, import or refresh comes between, a case that is not shown as changed has the
\* text a person last confirmed, and a run never has more files than its limit
\* (TestDesignService._upsert_cases, TestEvidenceService.upload_file).
THEOREM DesignStaysHonest == Spec => []DesignIsHonest
<1>1. TeamWorkInv => DesignIsHonest
  BY ShownIsRead DEF TeamWorkInv, DesignIsHonest
<1>. QED  BY <1>1, TeamWorkInvariant, PTL

\* Whatever a board move, a deletion or an archiving does between reading and writing: a task is
\* returned only in a step that tells its assignee, enters a phase or takes a type only while that is
\* open, and a form saved under the row's lock replaces the row its client saw (TaskService._update_task,
\* TaskBoardService.move_task, TaskCommentService.update_comment).
THEOREM TaskStepsHold == Spec => TaskSteps
<1>1. TeamWorkInv /\ [Next]_<<part, tVars, dVars, mVars>> =>
        /\ [\A t \in Tasks : ReturnTold(t)]_(T!vars)
        /\ [\A t \in Tasks : OpenTaken(t)]_(T!vars)
        /\ [\A c \in Calls : SeenReplaced(c)]_(T!vars)
  <2>. SUFFICES ASSUME TeamWorkInv, [Next]_<<part, tVars, dVars, mVars>>
                PROVE  /\ \A t \in Tasks : ReturnTold(t)
                       /\ \A t \in Tasks : OpenTaken(t)
                       /\ \A c \in Calls : SeenReplaced(c)
    OBVIOUS
  <2>1. TInv /\ [T!Next]_(T!vars)
    BY TeamWorkStep DEF TeamWorkInv
  <2>. QED  BY <2>1, ReturnIsToldStep, OpenIsTakenStep, SeenIsReplacedStep
<1>2. [][\A t \in Tasks : ReturnTold(t)]_(T!vars) => T!ReturnIsTold
  BY PTL DEF ReturnTold, T!ReturnIsTold
<1>3. [][\A t \in Tasks : OpenTaken(t)]_(T!vars) => T!ClosedChoiceIsNotTaken
  BY PTL DEF OpenTaken, T!ClosedChoiceIsNotTaken
<1>4. [][\A c \in Calls : SeenReplaced(c)]_(T!vars) => T!LockedSaveReplacesWhatWasSeen
  BY PTL DEF SeenReplaced, T!LockedSaveReplacesWhatWasSeen
<1>. QED  BY <1>1, <1>2, <1>3, <1>4, TeamWorkInvariant, PTL DEF Spec, TaskSteps

\* A run records, and a refresh acknowledges, the content its author was shown
\* (TestDesignService.create_execution, refresh_case).
THEOREM SeenCounts == Spec => SeenIsWhatCounts
<1>1. TeamWorkInv /\ [Next]_<<part, tVars, dVars, mVars>> => [ResultStep]_(D!vars)
  <2>. SUFFICES ASSUME TeamWorkInv, [Next]_<<part, tVars, dVars, mVars>> PROVE ResultStep
    OBVIOUS
  <2>1. DInv /\ [D!Next]_(D!vars)
    BY TeamWorkStep DEF TeamWorkInv
  <2>. QED  BY <2>1, ResultsAreOfWhatWasSeen
<1>2. [][ResultStep]_(D!vars) => D!SeenIsWhatCounts
  BY PTL DEF ResultStep, D!SeenIsWhatCounts
<1>. QED  BY <1>1, <1>2, TeamWorkInvariant, PTL DEF Spec, SeenIsWhatCounts

\* Whoever demotes, suspends or dismisses whom at the same time: a tenant that has an owner keeps one;
\* a request that takes an administrator's right in a project leaves another administrator there, or
\* one dismissed since it counted; and no change of a membership or of the tenant's settings is lost
\* (TenantService.change_member, remove_member, update; ProjectMemberService.update_role, remove_member).
THEOREM MemberStepsHold == Spec => MemberSteps
<1>1. TeamWorkInv /\ [Next]_<<part, tVars, dVars, mVars>> =>
        [OwnerKept]_(M!vars) /\ [AdminKept]_(M!vars) /\ [ChangeCounted]_(M!vars)
  <2>. SUFFICES ASSUME TeamWorkInv, [Next]_<<part, tVars, dVars, mVars>>
                PROVE  OwnerKept /\ AdminKept /\ ChangeCounted
    OBVIOUS
  <2>1. MInv /\ [M!Next]_(M!vars)
    BY TeamWorkStep DEF TeamWorkInv
  <2>. QED  BY <2>1, OwnerIsKept, AdminIsKept, ChangesAreCounted
<1>2. [][OwnerKept]_(M!vars) => M!OwnerStays
  BY PTL DEF OwnerKept, M!OwnerStays
<1>3. [][AdminKept]_(M!vars) => M!AdminRemains
  BY PTL DEF AdminKept, M!AdminRemains
<1>4. [][ChangeCounted]_(M!vars) => M!LockedChangesAreCounted
  BY PTL DEF ChangeCounted, M!LockedChangesAreCounted
<1>. QED  BY <1>1, <1>2, <1>3, <1>4, TeamWorkInvariant, PTL DEF Spec, MemberSteps
=============================================================================
