-------------------------------- MODULE MCTeamWork --------------------------------
(* Small instances of a project's tasks, of its test designs, and of the    *)
(* people of a tenant and its projects.  They share no state here: a        *)
(* behaviour is a behaviour of one of them, and the others rest in one of   *)
(* their initial states.                                                    *)
EXTENDS Naturals, FiniteSets, TLC

CONSTANTS Parts,        \* of {"tasks", "design", "members"}: what this instance is about
          Calls, t1, t2, Tasks, Users, Comments, NoOne, Kinds, RetryLimit,
          Keys, Files, NoSource, MAX_FILES_PER_EXECUTION, MaxVersion,
          People, Projects, MaxSeen

VARIABLES
    part,
    tTask, tDep, tRelated, tIssue, tPhase, tKind, tComment, tPlain, tLog,
    tTold, tCalls,
    dKinds, dDesign, dCase, dRuns, dConfirmed, dLink, dRemark, dFile, dObject,
    dCalls,
    mKinds, mAccount, mTenant, mMember, mProject, mRight, mCalls
tVars == <<tTask, tDep, tRelated, tIssue, tPhase, tKind, tComment, tPlain, tLog,
    tTold, tCalls>>
dVars == <<dKinds, dDesign, dCase, dRuns, dConfirmed, dLink, dRemark, dFile, dObject,
    dCalls>>
mVars == <<mKinds, mAccount, mTenant, mMember, mProject, mRight, mCalls>>

-----------------------------------------------------------------------------
(* Two tasks, a free slot, and two requests of every kind.                  *)
AllKinds == {"update", "plan", "create", "move", "delete", "relate", "unrelate", "depend", "redepend",
             "undepend", "comment", "recomment", "uncomment", "resolve", "reopen", "phase", "type",
             "link", "unlink", "add", "edit", "remove"}
T == INSTANCE Tasks WITH
    task <- tTask, dep <- tDep, related <- tRelated, issue <- tIssue,
    phase <- tPhase, kind <- tKind, comment <- tComment, plain <- tPlain,
    log <- tLog, told <- tTold, calls <- tCalls
\* The tasks that exist at first are tasks.
ASSUME TasksAssumption == t1 \in Tasks /\ t2 \in Tasks
TasksRest ==
    /\ T!Init /\ tTask[t1].type = "other" /\ tTask[t1].status = "todo" /\ tTask[t2].parent = NoOne
    /\ ~tPhase.archived /\ tPlain["board"].state = "absent"

(* One case, or one run with two files, and two clients.                    *)
CaseWork == {"save", "generate", "delete", "execute", "refresh"}
Discussion == {"save", "link", "unlink", "remark", "amend", "erase", "resolve"}
UploadWork == {"plan", "upload", "complete", "drop"}
DesignConcerns == {CaseWork, Discussion, UploadWork}
D == INSTANCE TestDesign WITH
    Concerns <- DesignConcerns, kinds <- dKinds, design <- dDesign,
    case <- dCase, runs <- dRuns, confirmed <- dConfirmed, link <- dLink,
    remark <- dRemark, file <- dFile, object <- dObject, calls <- dCalls
\* No content is not a content; the limit is a number.
ASSUME DesignAssumption == NoSource \notin D!Source /\ MAX_FILES_PER_EXECUTION \in Nat
DesignRests == D!Init /\ dKinds = CaseWork /\ D!Old \in {dCase[k] : k \in Keys}

(* Two people, one project, and two requests.                               *)
Settings == {"change", "dismiss", "account"}
FirstOwner == {"issue", "bootstrap", "register", "rename"}
Assignments == {"assign", "rerole", "unassign", "dismiss"}
ProjectLife == {"found", "edit", "close", "rerole", "dismiss"}
ComingBack == {"assign", "dismiss", "hire"}
MemberConcerns == {Settings, FirstOwner, Assignments, ProjectLife, ComingBack}
M == INSTANCE Membership WITH
    Users <- People, Concerns <- MemberConcerns, MaxVersion <- MaxSeen,
    kinds <- mKinds, account <- mAccount, tenant <- mTenant, member <- mMember,
    project <- mProject, right <- mRight, calls <- mCalls
MembersRest == M!Init /\ mKinds = FirstOwner /\ mTenant.state = "absent"
               /\ \A u \in People : mAccount[u] = "active"

-----------------------------------------------------------------------------
Init ==
    \/ part = "tasks"   /\ part \in Parts /\ T!Init    /\ DesignRests /\ MembersRest
    \/ part = "design"  /\ part \in Parts /\ TasksRest /\ D!Init      /\ MembersRest
    \/ part = "members" /\ part \in Parts /\ TasksRest /\ DesignRests /\ M!Init
Next ==
    /\ UNCHANGED part
    /\ \/ part = "tasks"   /\ T!Next /\ UNCHANGED <<dVars, mVars>>
       \/ part = "design"  /\ D!Next /\ UNCHANGED <<tVars, mVars>>
       \/ part = "members" /\ M!Next /\ UNCHANGED <<tVars, dVars>>
Spec == Init /\ [][Next]_<<part, tVars, dVars, mVars>>

(* Every variable of the three components has its type.                     *)
TypeOK == T!TypeOK /\ D!TypeOK /\ M!TypeOK

(* A task is returned only in the step that tells its assignee; it enters a *)
(* phase or takes a type only while that is open; a form saved under the    *)
(* lock replaces the row its client saw: whatever unlocked requests do.     *)
TaskSteps == T!ReturnIsTold /\ T!ClosedChoiceIsNotTaken /\ T!LockedSaveReplacesWhatWasSeen

(* A case not shown as changed has the text a person last confirmed, and a  *)
(* run has no more files than its limit.                                    *)
DesignIsHonest == D!NothingUnreadIsShownAsRead /\ D!FilesWithinLimit

(* A result or a confirmation is about the content its author was shown.    *)
SeenIsWhatCounts == D!SeenIsWhatCounts

(* Dependencies have no cycle: the service looks for one and refuses it.    *)
NoDependencyCycle == T!NoDependencyCycle

(* The tenant keeps an owner, a project keeps an administrator unless the   *)
(* tenant dismisses one meanwhile, and no change of a membership is lost.   *)
MemberSteps == M!OwnerStays /\ M!AdminRemains /\ M!LockedChangesAreCounted

(* Taken into the tenant again, a person has no old right in its projects.  *)
NoRevival == M!NoRevival

Symmetry == Permutations(Calls) \cup Permutations(People)
=============================================================================
