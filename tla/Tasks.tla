-------------------------------- MODULE Tasks --------------------------------
(* The tasks of one project: their hierarchy, dependencies, phases and      *)
(* types, the board that moves them, their comments, and the plainer rows   *)
(* (boards, columns, milestones) that are edited beside them.               *)
(*                                                                          *)
(* A request is a process.  Under READ COMMITTED it reads rows without a    *)
(* lock ("read"), may then lock and check what it changes ("checked"),      *)
(* commits ("saved": the history entry is another transaction; "made": the  *)
(* relation of a new task is yet another) and ends.  The ORM writes only    *)
(* the columns whose value differs from the one it LOADED.                  *)
EXTENDS Naturals, FiniteSets, TLC

CONSTANTS Calls,        \* requests under way
          Tasks, Users, Comments,
          t1, t2,       \* the tasks that exist at first
          NoOne,
          Kinds,        \* the operations clients ask for
          RetryLimit    \* AUTO_TASK_CODE_RETRY_LIMIT

VARIABLES task,      \* row of each task
          dep,       \* version of the dependency of a pair of tasks, 0: none
          related,   \* tasks related to the requirement
          issue,     \* bugs linked to a test case
          phase, kind,   \* the project's one phase and one custom type
          comment,   \* rows of comments on the task they are about
          plain,     \* rows of a board, a column and a milestone
          log,       \* entries of the history: <<operation, subject>>
          told,      \* notifications <<user, task, version, why>>
          calls
vars == <<task, dep, related, issue, phase, kind, comment, plain, log, told, calls>>
rows == <<task, dep, related, issue, phase, kind, comment, plain>>

-----------------------------------------------------------------------------
(* Rows.  Dates, titles, tags and minutes are left out.                     *)
Statuses == {"todo", "returned", "done"}
Task == [state : {"absent", "live", "deleted"}, parent : Tasks \cup {NoOne},
         status : Statuses, progress : {50, 100}, type : {"bug", "other", "custom"},
         phase : BOOLEAN, assignee : Users \cup {NoOne}, code : Nat, version : Nat]
Comment == [state : {"absent", "live", "deleted"}, resolved : BOOLEAN,
            mentions : SUBSET Users, version : Nat]
Pairs == Tasks \X Tasks
Phase == [archived : BOOLEAN, version : Nat]
CustomType == [active : BOOLEAN, version : Nat]
PlainRows == {"board", "column", "milestone"}

Live(t) == task[t].state = "live"                                 \* get_by_id
Successors(t) == {s \in Tasks : dep[<<t, s>>] > 0}
Numbers == {0} \cup {task[t].code : t \in Tasks}
MaxAutoNumber == CHOOSE n \in Numbers : \A m \in Numbers : m <= n
CodeInUse(n) == \E t \in Tasks : Live(t) /\ task[t].code = n
CodeStored(n) == \E t \in Tasks : task[t].state # "absent" /\ task[t].code = n

(* The walks below read one row at a time and lock none of them.            *)
ParentsOf(t, n) ==      \* the rows a walk of n steps upwards meets
    LET up[k \in 0..n] == IF k = 0 THEN {t}
                          ELSE up[k-1] \cup {task[s].parent : s \in {x \in up[k-1] \ {NoOne} : Live(x)}}
    IN up[n]
CreatesParentCycle(t, parent) == t \in ParentsOf(parent, Cardinality(Tasks))
ParentFits(t, parent) ==
    parent # NoOne => parent # t /\ Live(parent) /\ ~CreatesParentCycle(t, parent)
ReachedFrom(t, n) ==
    LET reach[k \in 0..n] == IF k = 0 THEN {t}
                             ELSE reach[k-1] \cup UNION {Successors(s) : s \in reach[k-1]}
    IN reach[n]
CreatesCycle(p, s) == p \in ReachedFrom(s, Cardinality(Tasks))
DependencyFits(p, s) == p # s /\ task[p].parent # s /\ task[s].parent # p

-----------------------------------------------------------------------------
(* Requests.  "set" holds the fields a body names, and no other.            *)
OneField == {[status |-> "done", progress |-> 100], [status |-> "done"], [status |-> "returned"],
             [status |-> "todo", progress |-> 50], [phase |-> TRUE], [type |-> "custom"],
             [type |-> "bug"], [code |-> 1]}
             \cup {[parent |-> p] : p \in Tasks \cup {NoOne}}
             \cup {[assignee |-> u] : u \in Users}
TaskUpdate == {[op |-> "update", task |-> t, set |-> f, reason |-> TRUE] : t \in Tasks, f \in OneField}
              \cup {[op |-> "update", task |-> t, set |-> [status |-> "returned"], reason |-> FALSE] : t \in Tasks}
TaskPlanningUpdate == [op : {"plan"}, task : Tasks, set : {[assignee |-> u] : u \in Users}, reason : {TRUE}]
NewTask(t) == [op |-> "create", task |-> t, code |-> 0, parent |-> NoOne, phase |-> FALSE,
               requirement |-> FALSE, assignee |-> NoOne]
TaskCreate == UNION {{NewTask(t), [NewTask(t) EXCEPT !.code = 1], [NewTask(t) EXCEPT !.parent = t1],
                      [NewTask(t) EXCEPT !.phase = TRUE], [NewTask(t) EXCEPT !.requirement = TRUE]}
                     \cup {[NewTask(t) EXCEPT !.assignee = u] : u \in Users} : t \in Tasks}
TaskMoveRequest == [op : {"move"}, task : Tasks, status : Statuses, reason : BOOLEAN]
TaskDependencyCreate == [op : {"depend", "redepend", "undepend"}, pair : Pairs]
CommentRequests == [op : {"comment", "recomment"}, comment : Comments, mentions : SUBSET Users]
                   \cup [op : {"uncomment", "resolve", "reopen"}, comment : Comments]
PhaseUpdate == [op : {"phase"}, archived : BOOLEAN]
TaskTypeUpdate == [op : {"type"}, active : BOOLEAN]
PlainRow == [state : {"absent", "live", "deleted"}, version : Nat]
PlainRequests == [op : {"add", "edit", "remove"}, row : PlainRows]
Requests == {d \in TaskUpdate \cup TaskPlanningUpdate \cup TaskCreate \cup TaskMoveRequest
                   \cup TaskDependencyCreate \cup CommentRequests \cup PhaseUpdate \cup TaskTypeUpdate
                   \cup PlainRequests \cup [op : {"delete", "relate", "unrelate", "link", "unlink"}, task : Tasks] :
                d.op \in Kinds}

At(c, stage, op) == calls[c].at = stage /\ calls[c].ask.op = op
Done(c) == calls' = [calls EXCEPT ![c] = [at |-> "done"]]
Goto(c, stage) == calls' = [calls EXCEPT ![c].at = stage]
Reading(c, d, seen) == calls' = [calls EXCEPT ![c] = [at |-> "read", ask |-> d, seen |-> seen, tries |-> 1]]

(* A lock is held from the check to the commit; an UPDATE waits for it.     *)
HoldsTask(c, t) == calls[c].at = "checked" /\ calls[c].ask.task = t
Free(t) == ~\E c \in Calls : HoldsTask(c, t)
TakesPhase(d) == \/ d.op = "create" /\ d.phase
                 \/ d.op = "update" /\ "phase" \in DOMAIN d.set
PhaseFree == ~\E c \in Calls : \/ calls[c].at = "checked" /\ TakesPhase(calls[c].ask)
                               \/ At(c, "read", "create") /\ TakesPhase(calls[c].ask)
TakesType(d) == d.op = "update" /\ "type" \in DOMAIN d.set /\ d.set.type = "custom"
TypeFree == ~\E c \in Calls : calls[c].at = "checked" /\ TakesType(calls[c].ask)

(* Notifications: a set, for a key is inserted once.                        *)
Emit(u, t, version, why) == IF u = NoOne THEN {} ELSE {<<u, t, version, why>>}
AssignmentChanged(t, old, new) ==
    IF new.assignee = old.assignee THEN {} ELSE Emit(new.assignee, t, new.version, "assigned")
MentionsChanged(k, old, new) == {<<u, k, new.version, "mentioned">> : u \in new.mentions \ old.mentions}

Log(c) ==          \* the history entry, and the audit's, in their own transaction
    /\ calls[c].at = "saved"
    /\ log' = log \cup {calls[c].ask}
    /\ Done(c)
    /\ UNCHANGED <<rows, told>>

Refuse(c) ==       \* permission, a missing row, a taken name, a stale form, a lost process
    /\ calls[c].at \in {"read", "checked", "made", "saved"}
    /\ Done(c)
    /\ UNCHANGED <<rows, log, told>>
-----------------------------------------------------------------------------
(* Tasks.                                                                   *)
ReadTask(c) ==
    \E d \in {x \in Requests : x.op \in {"update", "plan", "delete", "relate", "unrelate", "link", "unlink"}} :
        /\ Live(d.task)
        /\ d.op = "unrelate" => d.task \in related
        /\ d.op = "link" => task[d.task].type = "bug"
        /\ Reading(c, d, task[d.task])

MoveReturns(d) == d.status = "returned" /\ task[d.task].status # "returned"
ReadMove(c) ==     \* a move that returns the task becomes an update of the same version
    \E d \in {x \in Requests : x.op = "move"} :
        /\ Live(d.task) /\ plain["board"].state = "live"
        /\ IF MoveReturns(d)
           THEN Reading(c, [op |-> "update", task |-> d.task, set |-> [status |-> "returned"],
                            reason |-> d.reason], task[d.task])
           ELSE Reading(c, d, task[d.task])

ReadCreate(c) ==
    \E d \in {x \in Requests : x.op = "create"} :
        /\ task[d.task].state = "absent"
        /\ d.parent # NoOne => Live(d.parent)
        /\ d.code # 0 => ~CodeInUse(d.code)
        /\ TakesPhase(d) => PhaseFree /\ ~phase.archived
        /\ Reading(c, d, IF d.code = 0 THEN MaxAutoNumber + 1 ELSE d.code)

PhaseFits(r) == ~phase.archived \/ r.phase
TypeFits(r, type) ==
    type # "custom" \/ r.type = "custom" \/ kind.active
StateFits(r) == r.status = "done" => r.progress = 100
Changed(r, set) == [f \in DOMAIN r |-> IF f \in DOMAIN set THEN set[f] ELSE r[f]]
SameVersion(r, seen) == r.version = seen.version

Check(c) ==        \* _update_task up to the write, the row locked
    /\ At(c, "read", "update") \/ At(c, "read", "plan")
    /\ LET d == calls[c].ask
           r == task[d.task]
           n == Changed(r, d.set)
       IN /\ Free(d.task)
          /\ SameVersion(r, calls[c].seen)
          /\ r.type = "bug" /\ n.type # "bug" => d.task \notin issue
          /\ "parent" \in DOMAIN d.set => ParentFits(d.task, d.set.parent)
          /\ n.code # r.code => ~CodeInUse(n.code)
          /\ n.status = "returned" /\ r.status # "returned" => d.reason
          /\ TakesType(d) => TypeFree
          /\ TypeFits(r, n.type)
          /\ d.op = "update" => StateFits(n)
          /\ TakesPhase(d) => PhaseFree /\ PhaseFits(r)
    /\ Goto(c, "checked")
    /\ UNCHANGED <<rows, log, told>>

Update(c) ==       \* the row, its notifications and its history in one commit
    /\ calls[c].at = "checked"
    /\ LET d == calls[c].ask
           r == task[d.task]
           n == [Changed(r, d.set) EXCEPT !.version = r.version + 1]
       IN IF n.code # r.code /\ CodeStored(n.code)
          THEN UNCHANGED <<task, log, told>>                    \* the unique index
          ELSE /\ task' = [task EXCEPT ![d.task] = n]
               /\ told' = told \cup AssignmentChanged(d.task, r, n)
                       \cup (IF n.status = "returned" /\ r.status # "returned"
                             THEN Emit(n.assignee, d.task, n.version, "returned") ELSE {})
               /\ log' = log \cup {d}
    /\ Done(c)
    /\ UNCHANGED <<dep, related, issue, phase, kind, comment, plain>>

Create(c) ==       \* the insertion; a taken number is generated anew
    /\ At(c, "read", "create")
    /\ LET d == calls[c].ask
           code == calls[c].seen
           n == [state |-> "live", parent |-> d.parent, status |-> "todo", progress |-> 50,
                 type |-> "other", phase |-> d.phase, assignee |-> d.assignee, code |-> code,
                 version |-> 1]
       IN IF task[d.task].state = "absent" /\ ~CodeStored(code)
          THEN /\ task' = [task EXCEPT ![d.task] = n]
               /\ told' = told \cup AssignmentChanged(d.task, [n EXCEPT !.assignee = NoOne], n)
               /\ log' = log \cup {d}
               /\ IF d.requirement THEN Goto(c, "made") ELSE Done(c)
          ELSE /\ IF d.code # 0 \/ calls[c].tries = RetryLimit \/ task[d.task].state # "absent"
                  THEN Done(c)
                  ELSE calls' = [calls EXCEPT ![c].seen = MaxAutoNumber + 1, ![c].tries = @ + 1]
               /\ UNCHANGED <<task, log, told>>
    /\ UNCHANGED <<dep, related, issue, phase, kind, comment, plain>>

Relate(c) ==       \* also the last part of a creation for a requirement
    /\ calls[c].at = "made" \/ At(c, "read", "relate")
    /\ LET t == calls[c].ask.task
       IN IF Live(t) /\ t \notin related
          THEN related' = related \cup {t} /\ Goto(c, "saved")
          ELSE UNCHANGED related /\ Done(c)
    /\ UNCHANGED <<task, dep, issue, phase, kind, comment, plain, log, told>>

Unrelate(c) ==
    /\ At(c, "read", "unrelate")
    /\ related' = related \ {calls[c].ask.task}
    /\ Goto(c, "saved")
    /\ UNCHANGED <<task, dep, issue, phase, kind, comment, plain, log, told>>

LinkIssue(c) ==    \* the bug was read without a lock; one row for a pair
    /\ At(c, "read", "link")
    /\ issue' = issue \cup {calls[c].ask.task}
    /\ Done(c)
    /\ UNCHANGED <<task, dep, related, phase, kind, comment, plain, log, told>>
UnlinkIssue(c) ==
    /\ At(c, "read", "unlink")
    /\ issue' = issue \ {calls[c].ask.task}
    /\ Done(c)
    /\ UNCHANGED <<task, dep, related, phase, kind, comment, plain, log, told>>

Delete(c) ==       \* neither lock nor version; children and dependencies stay
    /\ At(c, "read", "delete")
    /\ LET t == calls[c].ask.task
       IN /\ Free(t)
          /\ task' = [task EXCEPT ![t].state = "deleted", ![t].version = calls[c].seen.version + 1]
    /\ Goto(c, "saved")
    /\ UNCHANGED <<dep, related, issue, phase, kind, comment, plain, log, told>>

(* What the ORM flushes: the columns that differ from what was loaded.      *)
FlushedWhole(r, seen, new) == new             \* mutation: every column is written
Flushed(r, seen, new) == [f \in DOMAIN r |-> IF new[f] # seen[f] THEN new[f] ELSE r[f]]
Moved(r, status) == [r EXCEPT !.status = status, !.version = r.version + 1,
                              !.progress = IF status = "done" THEN 100 ELSE @]
Move(c) ==
    /\ At(c, "read", "move")
    /\ LET d == calls[c].ask
           seen == calls[c].seen
       IN /\ Free(d.task)
          /\ task' = [task EXCEPT ![d.task] = Flushed(@, seen, Moved(seen, d.status))]
    /\ Goto(c, "saved")
    /\ UNCHANGED <<dep, related, issue, phase, kind, comment, plain, log, told>>

-----------------------------------------------------------------------------
(* Dependencies: created after an unlocked search for a cycle.              *)
ReadDependency(c) ==
    \E d \in {x \in Requests : x.op \in {"depend", "redepend", "undepend"}} :
        LET p == d.pair[1]  s == d.pair[2]
        IN /\ Live(s)
           /\ IF d.op = "depend" THEN Live(p) /\ DependencyFits(p, s) /\ ~CreatesCycle(p, s)
              ELSE dep[d.pair] > 0
           /\ Reading(c, d, dep[d.pair])

CreateDependency(c) ==
    /\ At(c, "read", "depend")
    /\ IF dep[calls[c].ask.pair] = 0
       THEN dep' = [dep EXCEPT ![calls[c].ask.pair] = 1] /\ Goto(c, "saved")
       ELSE UNCHANGED dep /\ Done(c)
    /\ UNCHANGED <<task, related, issue, phase, kind, comment, plain, log, told>>

UpdateDependency(c) ==      \* the version was compared when the row was read
    /\ At(c, "read", "redepend")
    /\ IF dep[calls[c].ask.pair] > 0
       THEN dep' = [dep EXCEPT ![calls[c].ask.pair] = calls[c].seen + 1] /\ Goto(c, "saved")
       ELSE UNCHANGED dep /\ Done(c)
    /\ UNCHANGED <<task, related, issue, phase, kind, comment, plain, log, told>>

DeleteDependency(c) ==
    /\ At(c, "read", "undepend")
    /\ dep' = [dep EXCEPT ![calls[c].ask.pair] = 0]
    /\ Goto(c, "saved")
    /\ UNCHANGED <<task, related, issue, phase, kind, comment, plain, log, told>>

-----------------------------------------------------------------------------
(* Comments, on a task whose row is not locked.                             *)
ReadComment(c) ==
    \E d \in {x \in Requests : x.op \in {"comment", "recomment", "uncomment", "resolve", "reopen"}} :
        /\ \E t \in Tasks : Live(t)
        /\ comment[d.comment].state = (IF d.op = "comment" THEN "absent" ELSE "live")
        /\ Reading(c, d, comment[d.comment])

CreateComment(c) ==         \* comment, notifications and history in one commit
    /\ At(c, "read", "comment")
    /\ LET d == calls[c].ask
           old == comment[d.comment]
           new == [state |-> "live", resolved |-> FALSE, mentions |-> d.mentions, version |-> 1]
       IN IF old.state = "absent"
          THEN /\ comment' = [comment EXCEPT ![d.comment] = new]
               /\ told' = told \cup MentionsChanged(d.comment, old, new)
               /\ log' = log \cup {d}
          ELSE UNCHANGED <<comment, told, log>>
    /\ Done(c)
    /\ UNCHANGED <<task, dep, related, issue, phase, kind, plain>>

UpdateComment(c) ==         \* the comment's row locked and compared
    /\ At(c, "read", "recomment")
    /\ LET d == calls[c].ask
           old == comment[d.comment]
           new == [old EXCEPT !.mentions = d.mentions, !.version = @ + 1]
       IN IF SameVersion(old, calls[c].seen)
          THEN /\ comment' = [comment EXCEPT ![d.comment] = new]
               /\ told' = told \cup MentionsChanged(d.comment, old, new)
               /\ log' = log \cup {d}
          ELSE UNCHANGED <<comment, told, log>>
    /\ Done(c)
    /\ UNCHANGED <<task, dep, related, issue, phase, kind, plain>>

Withdrawn(r, seen) == [r EXCEPT !.state = "deleted", !.version = seen.version + 1,
                                !.mentions = r.mentions \ seen.mentions]
DeleteComment(c) ==         \* removes the mentions it loaded
    /\ At(c, "read", "uncomment")
    /\ comment' = [comment EXCEPT ![calls[c].ask.comment] = Withdrawn(@, calls[c].seen)]
    /\ Goto(c, "saved")
    /\ UNCHANGED <<task, dep, related, issue, phase, kind, plain, log, told>>

SetResolved(c) ==           \* the version was compared on an unlocked read
    /\ At(c, "read", "resolve") \/ At(c, "read", "reopen")
    /\ LET d == calls[c].ask
           seen == calls[c].seen
           new == [seen EXCEPT !.resolved = (d.op = "resolve"), !.version = @ + 1]
       IN comment' = [comment EXCEPT ![d.comment] = Flushed(@, seen, new)]
    /\ Goto(c, "saved")
    /\ UNCHANGED <<task, dep, related, issue, phase, kind, plain, log, told>>

-----------------------------------------------------------------------------
(* Phases and types: locked, compared and committed with their own history. *)
ReadSetting(c) ==
    \E d \in {x \in Requests : x.op \in {"phase", "type"}} :
        Reading(c, d, IF d.op = "phase" THEN phase ELSE kind)

SavePhase(c) ==
    /\ At(c, "read", "phase")
    /\ PhaseFree
    /\ phase' = IF SameVersion(phase, calls[c].seen)
                THEN [archived |-> calls[c].ask.archived, version |-> phase.version + 1]
                ELSE phase
    /\ Done(c)
    /\ UNCHANGED <<task, dep, related, issue, kind, comment, plain, log, told>>

SaveType(c) ==
    /\ At(c, "read", "type")
    /\ TypeFree
    /\ kind' = IF SameVersion(kind, calls[c].seen)
               THEN [active |-> calls[c].ask.active, version |-> kind.version + 1]
               ELSE kind
    /\ Done(c)
    /\ UNCHANGED <<task, dep, related, issue, phase, comment, plain, log, told>>

(* Boards, columns and milestones: a column is reached through its board.   *)
ReadPlain(c) ==
    \E d \in {x \in Requests : x.op \in {"add", "edit", "remove"}} :
        /\ plain[d.row].state = (IF d.op = "add" THEN "absent" ELSE "live")
        /\ d.row = "column" => plain["board"].state = "live"
        /\ Reading(c, d, plain[d.row])

WritePlain(c, row, op, new) ==
    /\ At(c, "read", op)
    /\ calls[c].ask.row = row
    /\ plain' = [plain EXCEPT ![row] = Flushed(@, calls[c].seen, new)]
    /\ Goto(c, "saved")
    /\ UNCHANGED <<task, dep, related, issue, phase, kind, comment, log, told>>

Added(c) == [state |-> "live", version |-> 1]
Edited(c) == [calls[c].seen EXCEPT !.version = @ + 1]
Removed(c) == [state |-> "deleted", version |-> calls[c].seen.version + 1]
CreateBoard(c) == WritePlain(c, "board", "add", Added(c))
UpdateBoard(c) == WritePlain(c, "board", "edit", Edited(c))
DeleteBoard(c) == WritePlain(c, "board", "remove", Removed(c))
CreateBoardColumn(c) ==       \* one column for a status, deleted ones counted
    plain["column"].state = "absent" /\ WritePlain(c, "column", "add", Added(c))
UpdateBoardColumn(c) == WritePlain(c, "column", "edit", Edited(c))
DeleteBoardColumn(c) == WritePlain(c, "column", "remove", Removed(c))
CreateMilestone(c) == WritePlain(c, "milestone", "add", Added(c))
UpdateMilestone(c) == WritePlain(c, "milestone", "edit", Edited(c))
DeleteMilestone(c) == WritePlain(c, "milestone", "remove", Removed(c))

-----------------------------------------------------------------------------
(* Rows a project may hold when the requests arrive.                        *)
Blank == [state |-> "absent", parent |-> NoOne, status |-> "todo", progress |-> 50,
          type |-> "other", phase |-> FALSE, assignee |-> NoOne, code |-> 0, version |-> 0]
Standing(parent, status, progress, type, inPhase, code) ==
    [state |-> "live", parent |-> parent, status |-> status, progress |-> progress,
     type |-> type, phase |-> inPhase, assignee |-> NoOne, code |-> code, version |-> 1]

Init ==
    /\ \E u \in Users, parent \in {NoOne, t1} :
       \E first \in {Standing(NoOne, "todo", 50, "other", FALSE, 1), Standing(NoOne, "todo", 100, "bug", TRUE, 1),
                    Standing(NoOne, "done", 100, "other", FALSE, 1), Standing(NoOne, "returned", 50, "other", FALSE, 1)} :
         task = [[t \in Tasks |-> Blank] EXCEPT ![t1] = [first EXCEPT !.assignee = u],
                                                 ![t2] = Standing(parent, "todo", 50, "other", FALSE, 2)]
    /\ dep = [p \in Pairs |-> 0]
    /\ related = {t2}
    /\ issue = {}
    /\ phase \in [archived : BOOLEAN, version : {1}]
    /\ kind = [active |-> TRUE, version |-> 1]
    /\ comment = [k \in Comments |->
                    IF k = CHOOSE x \in Comments : TRUE
                    THEN [state |-> "live", resolved |-> FALSE, mentions |-> {}, version |-> 1]
                    ELSE [state |-> "absent", resolved |-> FALSE, mentions |-> {}, version |-> 0]]
    /\ plain \in {[r \in PlainRows |-> [state |-> "live", version |-> 1]],
                 [r \in PlainRows |-> [state |-> "absent", version |-> 0]],
                 [r \in PlainRows |-> IF r = "board" THEN [state |-> "live", version |-> 1]
                                                    ELSE [state |-> "absent", version |-> 0]]}
    /\ log = {}
    /\ told = {}
    /\ calls = [c \in Calls |-> [at |-> "idle"]]

Arrive(c) ==
    /\ calls[c].at = "idle"
    /\ \/ ReadTask(c) \/ ReadMove(c) \/ ReadCreate(c) \/ ReadDependency(c)
       \/ ReadComment(c) \/ ReadSetting(c) \/ ReadPlain(c)
    /\ UNCHANGED <<rows, log, told>>
TaskItems(c) == Check(c) \/ Update(c) \/ Create(c) \/ Relate(c) \/ Unrelate(c) \/ Delete(c)
TestIssues(c) == LinkIssue(c) \/ UnlinkIssue(c)
TaskDependencies(c) == CreateDependency(c) \/ UpdateDependency(c) \/ DeleteDependency(c)
TaskComments(c) == CreateComment(c) \/ UpdateComment(c) \/ DeleteComment(c) \/ SetResolved(c)
TaskBoards(c) == \/ Move(c) \/ CreateBoard(c) \/ UpdateBoard(c) \/ DeleteBoard(c)
                 \/ CreateBoardColumn(c) \/ UpdateBoardColumn(c) \/ DeleteBoardColumn(c)
Milestones(c) == CreateMilestone(c) \/ UpdateMilestone(c) \/ DeleteMilestone(c)
TaskPhases(c) == SavePhase(c)
TaskTypes(c) == SaveType(c)
Next == \E c \in Calls : \/ Arrive(c) \/ TaskItems(c) \/ TestIssues(c) \/ TaskDependencies(c) \/ TaskComments(c)
                          \/ TaskBoards(c) \/ Milestones(c) \/ TaskPhases(c) \/ TaskTypes(c)
                          \/ Log(c) \/ Refuse(c)
Spec == Init /\ [][Next]_vars

-----------------------------------------------------------------------------
(* Every row has its type.                                                  *)
TypeOK ==
    /\ task \in [Tasks -> Task] /\ dep \in [Pairs -> Nat] /\ related \subseteq Tasks
    /\ phase \in Phase /\ kind \in CustomType
    /\ comment \in [Comments -> Comment] /\ plain \in [PlainRows -> PlainRow]

(* A task becomes returned only in the step that tells its assignee, though *)
(* a board may move a task on the strength of a row it read long before.    *)
ReturnIsTold == [][\A t \in Tasks :
    (/\ task[t].state # "absent"
     /\ task[t].status # "returned" /\ task'[t].status = "returned" /\ task'[t].assignee # NoOne)
        => <<task'[t].assignee, t, task'[t].version, "returned">> \in told']_vars

(* No task enters a phase that is archived, or takes a type that is hidden, *)
(* at the moment it does: the archiving waits for the assignment or the     *)
(* assignment sees it.                                                      *)
ClosedChoiceIsNotTaken == [][\A t \in Tasks :
    /\ task'[t].phase /\ ~task[t].phase => ~phase'.archived
    /\ task'[t].type = "custom" /\ task[t].type # "custom" => kind'.active]_vars

(* A form saved under the row's lock replaces the row its client saw, also  *)
(* against the requests that take no lock.                                  *)
LockedSaveReplacesWhatWasSeen == [][\A c \in Calls :
    /\ (At(c, "checked", "update") \/ At(c, "checked", "plan")) /\ task' # task
          /\ calls[c] # calls'[c]
        => task[calls[c].ask.task].version = calls[c].seen.version
    /\ At(c, "read", "recomment") /\ calls[c] # calls'[c] /\ comment' # comment
        => comment[calls[c].ask.comment].version = calls[c].seen.version]_vars

(* Dependencies have no cycle (the code refuses one).                       *)
NoDependencyCycle == \A t \in Tasks : \A s \in Successors(t) : ~CreatesCycle(t, s)
=============================================================================
