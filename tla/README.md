# A TLA+ model of the Syncnesto backend

Syncnesto is a FastAPI service over SQLAlchemy and PostgreSQL (about 72,000 lines in
`app/`), with an S3-compatible object store for files and Resend for mail. Organisations
(tenants) keep projects, and in them requirements, specifications, documents, tasks and
tests; people approve frozen versions of these, some of them from outside the
organisation, and tools work on them over OAuth. Nearly everything the service does is one
HTTP request in one database transaction. What is hard to get right is the rest: work that
spans several transactions, processes or systems, and requests that meet on the same rows.

This directory holds TLA+ models of sixteen subsystems, the TLC configurations that check
them on small instances, and TLAPS proofs about all of them. `PROJECT.json` is the index:
which definition models which lines, which run checks which property, which mutation of
the model breaks it, what is proved, and which hazards of the code are covered.

Contents:
1. the system's parts; 2. the plan; 3. the modules; 4. the runs; 5. bounds; 6. fairness;
7. the proofs; 8. findings; 9. what is only model-checked; 10. what is not modelled.

How to run a configuration or the proofs, from this directory:

    tlc -workers 2 -config mail_delivery.cfg MCApprovalMail.tla
    tlapm ApprovalMail_proofs.tla

## 1. The parts of the system

For each part: what it keeps, what it does, what makes it hard, and what makes it correct.
"Modelled" names the module.

**Approval mail** (modelled: `ApprovalMail`).
*State*: the recipient's switch (`notification_email_preferences`), the delivery ledger
(`notification_email_deliveries`), append-only attempt records
(`notification_email_attempts`), a PostgreSQL advisory lock, shared row locks held by a
second connection, a child process with a pipe. *Operations*: save a delivery with the
notification, claim, qualify, mark as sending, send in a child process, record the outcome,
recover expired leases, resolve an unknown outcome by hand. *Interacts with*: approvals
(they save notifications), permissions, account changes (both can withdraw the recipient's
qualification), Resend's SMTP relay. *Hard*: a worker can be killed, stall past its lease, or
lose either connection between any two steps; the child outlives it; the answer can come
after the deadline. *Correct if* a notification is mailed at most once, the ledger never
says something false about the provider, a recipient's stop is not overtaken, and every
saved delivery ends.

**Fixed approvals** (modelled: `FixedApproval`).
*State*: `fixed_approval_requests`, the append-only `fixed_approval_events`,
`legacy_approval_imports`, the old approval tables, notifications, guests'
publication grants. *Operations*: create, decide, cancel, switch an old request, decide an
old request in the old tables, the same three for guests. *Interacts with*: fixed releases
(what is judged), publications and grants (who outside may judge), notifications.
*Hard*: clients repeat requests; snapshots under REPEATABLE READ are stale by the time of the
write; several unique indexes can fire and which one fires decides the answer; old and new
ways live side by side; a grant can lapse and be renewed. *Correct if* a request is judged
once, by the person asked, on agreements that hold, and everybody waiting hears of it.

**Login identity and sessions** (modelled: `Identity`).
*State*: `users`, `user_sessions`, `account_actions` (links by mail). *Operations*: login,
request admission, session extension, logout, profile form, operator's form, password reset,
two-sided change of address, first password, its reissue, deletion. *Interacts with*: second
factor, mail, every request. *Hard*: a password is checked before its session is written,
links live for hours, admission reads session and user in two statements, some steps take
the row lock and some do not. *Correct if* nothing opened with old credentials survives their
change, a link works once, and what has ended stays ended.

**Second factor** (modelled: `SecondFactor`).
*State*: `mfa_factors`, `mfa_flows`, `mfa_recovery_codes`, `mfa_recovery_requests`,
`users.mfa_security_version`. *Operations*: start a flow, enrol TOTP or passkey, verify by
TOTP, passkey or recovery code, finish recovery, manage, re-authenticate, remove, regenerate,
approve a recovery, recover. *Hard*: a flow stays open while factors, passwords and recoveries
change beside it; a wrong code is charged in a transaction of its own while the lock is
held. *Correct if* each proof and each flow counts once, the last factor stays, and what was
under way does not survive a change.

**Attachment preservation** (modelled: `ArtifactPreservation`).
*State*: `artifact_preservations` (status and lease), `artifact_preservation_objects` (one
ledger row per storage key), objects in the store. *Operations*: create, advance (claim, copy,
compare, publish), fail, clean up, sweep one key. *Interacts with*: documents and their
attachments (they may change), the object store. *Hard*: the store has no transactions: a PUT
may be answered with an error and arrive later, a deletion may fail; leases lapse while
the copy goes on. *Correct if* an adopted copy is never removed, each file is adopted once,
and every other copy is one the ledger leads a cleanup to.

**Verification evidence and verdicts** (modelled: `VerificationEvidence`,
`VerificationJudgement`).
*State*: evidence sets and their copies, plans with a checklist, requests for a verdict with
the ground they were made on, reviews with a lease and the files seen in them, decisions.
*Operations*: preserve what was previewed, copy file by file, seal, cancel, clean up,
download; plan, ask, review, read a file, decide, cancel, withdraw, ask again. *Interacts
with*: test designs and their runs, attachments, memberships. *Hard*: files are copied and
read outside transactions under leases; the ground may shift between the review and the
decision; another session may take a review over. *Correct if* evidence becomes ready only as
it was previewed, a selected file stays, and a verdict stands on the ground its request
fixed, given in a session that saw every file.

**Tasks and boards** (modelled: `Tasks`).
*State*: tasks with parent, phase, type, status and version; dependencies, comments, boards,
columns, milestones, relations to requirements and test issues; history and notifications.
*Operations*: create, edit, plan, move, delete, relate; the same for the others.
*Hard*: some forms lock the row and re-read it, board moves and deletions do not; the ORM
writes only columns that changed; the history entry is a transaction of its own; cycles are
looked for without a lock. *Correct if* a return tells its assignee, a closed phase or type
takes no task, a save under the lock replaces what its client saw, dependencies have no
cycle.

**Test design and collaboration** (modelled: `TestDesign`).
*State*: a design's graph, the cases generated from it with the text last confirmed and its
hash, runs, comments, files of runs, objects in the store. *Operations*: save, generate,
delete, execute, refresh, link, comment, plan, upload, complete and delete a file.
*Hard*: a design is saved while its cases are run; cases made before a column existed; an
upload's object and its row are kept by two systems. *Correct if* a case that changed is
shown as changed until a person confirms it, a result is about what its author saw, and a run
keeps within its limit of files.

**Requirement documents** (modelled: `Requirements`).
*State*: documents, sections, requirements with revisions, open issues, children, comments,
receipts of standard documents. *Operations*: create, edit, delete, sort, renumber, promote,
comment, resolve. *Hard*: codes are numbered without a lock and retried on a unique index;
sections, promotions and children are written without the lock that documents, requirements
and issues take. *Correct if* revisions lead without a gap or a fork to the present text, and
a standard document is made once.

**Specifications and documents; trash and cleanup; drafts** (modelled: `Documents`).
*State*: documents with revisions, attachments and their objects, specifications with
status and remarks, deleted rows with a time, drafts. *Operations*: edit, delete, attach,
detach, judge a specification, remark, restore, purge, expire. *Hard*: the store and the
database do not commit together; a cleanup may stop between any two deletions; a parent can be
deleted while its child is restored. *Correct if* what can be reached has its file, a document
its revision, a specification is approved with every remark settled, and nothing is
restored under a parent that is gone.

**Publications and their recipients** (modelled: `Publications`).
*State*: a publication of a fixed release, participations, grants, receipts; sources, people
and memberships beside them. *Operations*: prepare, publish, add, withdraw, revoke; and,
through triggers, what the deletion of a source, a suspension, a hire or the closing of a
project ends. *Hard*: every operation takes several locks, in an order of its own; a download
is authorised, reads the store, and is authorised again. *Correct if* a grant stands on an
active participation of an outsider and a published release on live sources, no address is
given out without title, and nobody waits in a circle.

**Guest invitations** (modelled: `GuestInvitations`).
*State*: invitations with a generation of their token, confirmations, receipts, participations.
*Operations*: create, resend, revoke, inspect, register, accept, decline. *Hard*: the mail
is sent between transactions; links, confirmations and invitations expire separately. *Correct
if* an invitation called sent was mailed since its token last changed, an address takes part
once, an answer comes with a confirmation of the current token.

**OAuth connections and the tools' operations** (modelled: `Connections`).
*State*: requests, connections with a fingerprint of the login, codes, refresh tokens,
receipts of operations, plans. *Operations*: ask, consent, deny, exchange, refresh, revoke;
write under a key, preview, apply. *Hard*: tokens rotate and their reuse ends the
connection; clients repeat calls whose answer was lost; what was previewed changes. *Correct if*
a token is exchanged once, a call takes effect once, and a plan is applied to what it was made
for.

**Tenants, projects and their members** (modelled: `Membership`).
*State*: the tenant's row, memberships of it with a role and a status, projects, memberships of
projects, all with a version; accounts beside them. *Operations*: issue a tenant, give an ownerless
one its owner, hire, register, change, suspend and dismiss members, rename; found, edit and delete
projects, assign people, change their role, take them out. *Interacts with*: everything, which asks
it who may do what. *Hard*: members change under the tenant's lock and rights in a project under
the project's, a dismissal writes the rights under the tenant's lock alone, and an assignment reads the
person's membership of the tenant without that lock; project forms compare a version read
without any. *Correct if* a tenant keeps an owner and a project an administrator, no change of a
member replaces one it has not seen, and who comes back comes back without old rights.

**Demo workspaces** (modelled: `DemoWorkspaces`).
*State*: a ledger row for each workspace lent to a visitor without an account, reservations of
uploads with the time their address runs out, starts counted per hour; the rows of the workspace and
its objects in the store. *Operations*: start, extend, reserve an upload, leave, end by time, clean
up, sweep daily, prune. *Interacts with*: sessions (a demo's session ends with it), documents and
tests (their uploads are reserved first). *Hard*: an address to upload to outlives the workspace; a
cleanup spans the store and the database and is done by whoever finds one due; starts meet at the
pool's limit. *Correct if* a workspace cleaned up has left no row and no address that works, a
request admitted before the end writes nothing after it, and the pool keeps its bound.

**Login attempts and request budgets; fixed releases;
audit log; notifications and mentions; review accounts; home, search, exports; HTTP layer;
mail and storage clients** (not modelled, see section 10).

How the parts meet: an approval's decision tells its recipients inside its own
transaction (`FixedApproval!Tell`); each such notification is what `ApprovalMail!Enqueue`
saves for mailing. `Identity`'s credential changes are `SecondFactor!NewCredentials` and
`Connections!ChangeLogin`; its deletion, suspension and change of address are what
`ApprovalMail`'s `ChangeQualification` and `ChangeAddress` and `Publications!Suspend` stand
for. `Publications!Grant` is what a guest's decision needs in `FixedApproval!HasAccess`.
`TestDesign`'s cases and runs are the ground of `VerificationJudgement` (`EditCase`, `RunTest`),
`VerificationEvidence`'s failed confirmations its `Object`. A module takes the part it does not
model as something that may happen at any time, which includes every order the real part can
produce, so no composition with shared state is needed for the properties below.

## 2. The plan

Order of work, the most important behaviour first:

| # | module | question | state |
|---|---|---|---|
| 1 | `ApprovalMail` with `MailPromise` | is a notification mailed at most once, and does every delivery end | checked, proved |
| 2 | `FixedApproval` with `FixedJudgement` | is a request judged once and truthfully | checked, proved |
| 3 | `Identity` | does anything outlive the credentials it was opened with | checked, proved |
| 4 | `SecondFactor` | does a proof count once | checked, proved |
| 5 | `ArtifactPreservation` | is an adopted copy ever lost, is any copy leaked | checked, proved |
| 6 | `Tasks`, `TestDesign` | what do unlocked forms break; is a changed case shown as changed | checked, proved |
| 7 | `Requirements`, `Documents` | revisions, files, trash, approvals of specifications | checked, proved |
| 8 | `Publications`, `GuestInvitations` | is everything shared outside backed | checked, proved |
| 9 | `VerificationEvidence`, `VerificationJudgement` | does a verdict stand on what its judge saw | checked, proved |
| 10 | `Connections` | does anything a tool does count twice | checked, proved |
| 11 | `Membership` | can owners or administrators who remove each other all go | checked, proved |
| 12 | `DemoWorkspaces` | is anything left of a visitor's workspace after its cleanup | checked, proved |

Abstract specifications: `MailPromise` (what a delivery promises, refined by `ApprovalMail`) and
`FixedJudgement` (a request is judged once, refined by `FixedApproval`). The invariants of
`ArtifactPreservation`, `Publications` and `Connections` are promises of their own and need none.

## 3. The modules and the code

General conventions. One database transaction is one action unless other transactions can
come between its statements; then it is split where it takes a lock or a snapshot and where
it commits. A request that is split is a process of `Calls` whose `at` names how far it is
(read, locked and checked, committed, history to be written). A crash, a refused permission
and any other error before the commit roll back, and are one action (`Stop`, `Refuse`,
`Lost`, `Crash`). Random identifiers are fresh model values. A clock is the set of deadlines
that have passed, or a flag `over`: every order of deadlines the real clock can produce is an
order of the actions that set them. What two versions of a text differ in is the version.
Operators with the comment "mutation" stand beside the definition they are a wrong version
of and are used by nothing else.

### ApprovalMail, MailPromise

`app/services/notification_email_preferences.py`, `..._delivery.py`, `..._transport.py`,
`approval_mail_dispatch.py`.

| code | model |
|---|---|
| preference `update`, change of address, permissions | `UpdatePreference`, `ChangeAddress`, `ChangeQualification` |
| `enqueue_notification_email` in the approval's transaction | `Enqueue` |
| advisory lock of `run_once` (`gate`) | `gate`, `TakeGate`, `Release` |
| `recover_and_claim` (recovery of lapsed leases, then the next due row) | `Recovered`, `RecordRecovery`, `ClaimNext`, `FindNothing` |
| the checks of `deliver` under shared locks on the guard connection | `Qualify`, `QualifyFails`, `guard` |
| `deliver` marks the row `sending` and records the attempt, through a second connection | `Start`, `ClaimLost` |
| the child process: connect, DATA, reply, pipe | `EndsEarly`, `BeginData`, `ProviderDecides`, `EndsAfterData`, `ChildDies` |
| `send` waiting for the child with its deadline | `Receive`, `GiveUp` |
| `finish`, compare-and-set on the claim token | `StillMine`, `Settled`, `Finish` |
| `resolve` by an operator | `Resolvable`, `ResolveAccepted`, `ResolveRejected` |
| kill, lost connections, stall past the lease | `Crash`, `LoseGuard`, `LoseGate`, `LeaseRunsOut` |

A shared lock blocks the writer, so the writer's action has the guard "no open guard
transaction on this recipient". A stalled worker needs no action of its own: its lease may
run out at any step, and then another may claim the row. `MailPromise` forgets workers,
leases, tokens and processes: a mail waits, is out, comes back only if it has not arrived
and never will, and is called accepted only if it has arrived.

### FixedApproval, FixedJudgement

`app/services/fixed_approval.py`, `fixed_approval_migration.py`,
`requirement_approval.py`, `guest_fixed_approval.py`, `shared_fixed_approval.py`,
repositories, and the unique indexes of `alembic/versions/c9e3f6a1d547_*`.

| code | model |
|---|---|
| a request arrives, also as a repetition of an earlier one | `Submit` |
| the snapshot's first read, the idempotent replay | `Read`, `Replay` |
| locks and comparison with the snapshot (SQLSTATE 40001), retries | `Changed`, `Retry` (three attempts) |
| `create`'s insertion and its unique indexes in order | `Insert`, `Collision` |
| `decide`, `cancel` | `Judge`, `StatusOf`, `Conclude` |
| switch of an old request with its decision | `Switch` |
| `approve`/`reject` of the old tables | `ReadOld`, `OldWrite`, `Writable` |
| guest requests, decisions, cancellations under the publication lock | `GuestCreate`, `GuestDecide`, `GuestCancel` |
| grants given and lapsed | `Grant`, `Lapse`, `HasAccess` |
| recipients of notifications | `Recipients`, `Tell` |

`Refuse` stands for permissions, digests, confirmations and limits: they can refuse any
operation at any point before it writes and have no other effect. The agreements a document
rests on (`Agreements`, `BasesHold`) are those of approved requests for the same text;
which one is taken, when several are approved, is left open. The database's assertion
triggers are not actions: what they assert is stated as invariants instead.
`MCFixedApproval` gives each behaviour a `scope` (which operations its clients use), so that
races of creations and switches of old requests are two parts of one run.

### Identity

`app/services/user.py`, `session.py`, `account_action.py`, `onboarding.py`,
`tenant_issuance.py`, `app/core/auth.py`.

The lock on the users row is `holder`. An operation takes it in one action (`CheckPassword`,
`BeginUpdate`, `Request`, `OpenLink`) and commits in another (`OpenSession`,
`FinishUpdate`, `CommitLink`, `Confirm`); everything that takes no lock can fall between:
`Validate`/`Identify` (the two reads of admission), `Extend`, `Logout`, `CheckProfile`/
`WriteProfile`. `era` counts credential changes; it is not in the code, where the
fingerprint (address and password hash) plays its part: the properties compare eras, the
actions only fingerprints, so that a fingerprint that comes back is a case of its own.
`Orphan` is a mail whose link was never committed.

### SecondFactor

`app/services/mfa.py`, `app/repositories/mfa.py`, `app/core/mfa.py`, `app/routers/mfa.py`.

`Enter` locks the user and validates the flow; `Enrol`, `ByTotp`, `ByPasskey`,
`ByRecoveryCode`, `Conclude`, `Finish` act under the lock; `Fail` charges a wrong code and
keeps it; `Admit` lets a request with a session in and `StillStands` is the second look at it
under the lock; `Remove`, `Regenerate`, `Manage`, `Reauthenticate` follow. `Invalidate` is
the repository's `invalidate` with everything it touches: security version, sessions, flows,
open recoveries. `accepted` is a history of the proofs that counted. `MFA_REQUIRED` has its
default, true. The expiry of a flow has the same effect as `Cancel`.

### ArtifactPreservation

`app/services/artifact_preservation.py`, its repository, models and migration,
`app/services/storage.py` (external store).

| code | model |
|---|---|
| `create` | `Create` |
| `_claim`, first transaction of `advance`: lease, ledger row, stale reservations given up | `Claim` |
| GET, PUT and comparison of digests with no lock held | `Copy`, `CopyFails`, `Compare` |
| `_publish`, last transaction: adoption if the lease stands | `MayPublish`, `Publish`, `PublishFails` |
| `_fail`, and its own failure | `Fail`, `FailIsLost` |
| `cleanup`, with or without cancelling | `Cleanup`, `Collectable` |
| `_cleanup_one`: look again, let go, delete | `Sweep`, `Delete` |
| attachments edited or removed meanwhile | `SourceChanges` |
| lease past 120 s, PUT arriving after its timeout, death of a process | `LeaseLapses`, `PutArrives`, `Crash` |

Lease token and object id are drawn together in `Claim`, so that a key stands for both. The
S3 client is built with one attempt in total and a timeout, so that a PUT given up is sent
at most once and may still arrive (`late`). Bytes under an attachment's own storage key never
change; what changes is which key it names.

### Tasks

`app/services/task.py`, `task_board.py`, `task_comment.py`, `task_dependency.py`,
`task_phase.py`, `task_type.py`, `task_milestone.py`, `test_issue.py`, their repositories and
models.

| code | model |
|---|---|
| a client's request with what it was shown; reads without a lock | `Arrive`, `ReadTask`, `ReadMove`, `ReadCreate`, `ReadDependency`, `ReadComment`, `ReadSetting`, `ReadPlain` |
| `_update_task`: row lock, version, hierarchy, phase, type, state | `Check`, `ParentFits`, `PhaseFits`, `TypeFits`, `StateFits`, `SameVersion` |
| the write with its notifications | `Update`, `Emit`, `AssignmentChanged` |
| creation, codes numbered anew when taken, the relation that follows | `Create`, `MaxAutoNumber`, `CodeInUse`, `Relate` |
| the board's move, a deletion: no lock, no version | `Move`, `Delete`, `Flushed` |
| dependencies, comments with mentions, phases, types | `CreateDependency` … `DeleteDependency`, `CreateComment` … `SetResolved`, `SavePhase`, `SaveType` |
| boards, columns, milestones | `WritePlain` and the operations made of it |
| history and audit entry, a transaction of its own | `Log` |

`Flushed` is what SQLAlchemy's unit of work writes: the columns whose value differs from
the one it loaded. A second writer that loaded the same row therefore overwrites the columns
it changes and leaves the others, and this is what the properties are about.

### TestDesign

`app/services/test_design.py`, `test_design_cases.py`, `test_collaboration.py`,
`test_evidence.py`, `file_upload.py`.

A client looks (`Look`), sends its form with the version it saw, the handler locks and
compares, and commits. `Generated` is what a saved graph makes of its cases: a case whose
content changed becomes changed and keeps the text a person confirmed, until `Refresh` or
`Execute` confirms it. An upload to a run is planned (`Plan`), checked under the run's lock (`LockRun`),
put in the store (`PutObject`) and then registered (`Register`); a commit that fails
(`CommitFails`) has lost the lock before `DeleteObject` takes the object back. `confirmed` is a
history that the code does not keep.

### Requirements, Documents

`app/services/requirement_document.py`, `..._section.py`, `..._item.py`, `..._open_issue.py`,
`..._child_base.py` and the children made of it, `..._target_comment.py`,
`standard_requirement_document.py`; `document.py`, `document_attachment.py`, `specification.py`,
`trash.py`, `deleted_data_cleanup.py`, `draft.py`.

`Requirements` is a process per request with `Read`, `Check` (lock, re-read, compare) and the
operation; sections, promotions, deletions and children are written straight after the
read, as in the code. `revision` collects what the triggers and services append.
`Documents` takes the parent's lock before the row's own for everything in the trash; an upload
is `put` in the store before its row is written, a purge deletes the files one at a time
before it commits. `Demo` is true: a demo workspace's reservation of room commits in the
middle and so gives the lock up, which is the harder of the two cases.

### Publications, GuestInvitations

`app/services/artifact_publication.py`, `artifact_publication_access.py`,
`publication_access_context.py`, `publication_download.py`, `shared_publication.py`, `tenant.py`,
`user.py`, the triggers of `alembic/versions/e1f5a8c3b769_publication_access.sql`; and
`guest_invitation.py` with the triggers of `f2a6b9d4c870_guest_invitations.sql`.

`Plan(request)` is the sequence of locks an operation takes, `Acquire` takes one; the decision
(`May`, and `Effect`: how the publication moves, which participations and grants end, which are
given) is made when all are held and applied by the commit. What the triggers do (a deleted source withdraws its publication, a hired guest
loses his participation) is part of the decision. `Issue` is the second authorisation of a
download. `GuestInvitations` has no such plan: all its writes hold one advisory lock, so a
transaction is a step, and the interleaving is between the three transactions around a mail
and between mails, proofs, answers and expiries.

### VerificationEvidence, VerificationJudgement

`app/services/verification_evidence.py` with `..._access.py`, `..._selection.py`,
`..._storage.py`; `verification_verdict.py` with `..._access.py`, `..._basis.py`,
`requirement_verification.py`; the triggers of `f8a2b5d0c436` and `f9b3c6e1d547`.

An attempt to copy a file is the evidence set's lease: `Claim`, `Copy` outside any transaction,
`Finish` if the lease is still its own (`TooLate` if not); `Reserve` and `Delete` collect what was
given up; `Resolve`, `Compare`, `Sign` are a download. `VerificationJudgement` fixes in a request
the versions of plan, case, runs and judge (`ground`); `Claim`, `Inspect`, `FinishFile` read one
file under a lease and mark it seen in that session; `Weigh` compares the ground under the locks
and `Decide` commits. Anything may move the ground in between (`Changing`).

### Connections

`app/services/mcp_auth.py`, `mcp_operations.py`, `app/repositories/mcp.py`, `app/db/mcp.py`.

| code | model |
|---|---|
| a request by the tool, the person's consent or refusal | `Start`, `Identify`, `Approve`, `Deny` |
| the code, under the lock of its row; a used one ends the connection | `Redeem` |
| a refresh token is found without a lock, then read again under the connection's | `Present`, `Refresh` |
| the new pair, with what it was given for marked as used | `Issue` |
| every call looks at the connection twice | `Call`, `Valid` |
| a call under a key: the receipt is the answer, or it is performed | `Replay`, `Perform`, `Commit` |
| a plan previewed and applied | `StillAsSeen`, `Ready` |
| changes of the login, disconnection, expiry of a code, of the connection | `ChangeLogin`, `Disconnect`, `Lapse`, `Outlive` |

### Membership

`app/services/tenant.py`, `tenant_issuance.py`, `project.py`, `app/repositories/tenant.py`, `project.py`,
`app/core/tenant.py`, `app/db/tenant_scope.py`, `scripts/bootstrap_tenant_owner.py`.

A request is *asked* when its actor is admitted on what the database says at that moment (`AskTenant`,
`AskProject`, `AskOperator`), *checked* when it has taken its lock and read its row, and then
commits. What the actor was when admitted (`power`) is not looked at again.

| code | model |
|---|---|
| `get_current_tenant`, `require_tenant_admin`, `require_project_management` | `Admitted`, `IsTenantAdmin`, `Manages` |
| `TenantRepository.lock`, `get_by_id(for_update)` | `TenantIsFree`, `ProjectIsFree` |
| add, change, suspend a member; the owners' count | `CheckAddMember`, `CheckChangeMember`, `OwnerCount`, `SaveMember` |
| dismissal with the rights it withdraws | `Dismiss`, `Withdrawn` |
| new accounts, settings, issue, first owner | `CheckCreateUser`, `CreateUser`, `CheckUpdate`, `Update`, `CheckIssue`, `Issue`, `CheckBootstrap` |
| found, edit (version of an unlocked read), delete a project | `CreateProject`, `ReadProject`, `UpdateProject`, `DeleteProject` |
| assign, change the role, take out; the administrators' count | `CheckAssign`, `Assign`, `CheckMember`, `OtherAdmins`, `UpdateRole`, `RemoveMember` |
| the flush reads a membership once more (`validate_tenant_writes`) | `IsActiveMember` |
| accounts suspended, deleted, let in again | `ChangeAccount` |

The ORM writes the version it loaded plus one (`loaded`), whatever stands there by then. `gone` is a
history: whom a dismissal has removed while a request holds a project's lock.

### DemoWorkspaces

`app/services/demo.py`, `session.py`, `storage.py`, `app/repositories/demo.py`, `session.py`,
`app/db/demo_scope.py`, `app/routers/demo.py`.

| code | model |
|---|---|
| `start`: the hour's budget, two cleanups, the admission lock and the count, the workspace | `Start`, `Admit`, `Issue`, `Stop` |
| a write locks the row and looks at it (`lock_active_demo`); the session is extended | `Hold`, `Write`, `Extend` |
| `reserve_upload`, and the upload that uses the address | `ReserveUpload`, `Put` |
| the end: logout or reset; `bind`, which finds the time over without a lock | `Leave`, `FindExpired`, `Expire` |
| `_cleanup` up to its lock: nothing to do, ended first, locked | `Skip`, `EndFirst`, `Lock`, `LockAgain` |
| `delete_prefix`, then `delete_business_data`; or neither | `DeletePrefix`, `DeleteBusinessData`, `CleanupFails`, `RecordFailure`, `Abandon` |
| `sweep`, `prune_receipts` | `SweepDue`, `PruneReceipt` |
| the clock: of a workspace, of its addresses, of a retry, of the hour | `Ages`, `UrlEnds`, `ComesDue`, `HourEnds` |

The rows and the objects of a workspace are one bit each (`data`, `stored`): they come together
and are deleted together. Of the addresses given out only the one that runs out last counts (`url`).
`swept` is a history: whether the objects were last deleted before or after that one was over.

### Composition

`MCTeamWork`, `MCPapers`, `MCKeptCopies` and `MCOutside` put three components in one
run. They share no rows in the parts modelled, so a behaviour is one of a single component
(`part`) while the others rest in one of their initial states. This saves TLC their product and
loses nothing: a product of independent components has no behaviour of a component that
the component has not by itself. Where components do meet, section 1 says how the one stands for the other.
`Concerns` (`kinds`) is a second economy: a set of sets of operations, of which one is drawn at
the start; a hazard is looked for among the operations that can produce it, not among all.
`MCFixedApproval`'s `Scopes` are the same economy: races of two calls, switches of old requests, or a
document with a guest (there with one call at a time, sent only where it can take effect: refusals
and repeats are the first scope's).

## 4. The runs

| run | states | what it shows |
|---|---|---|
| `mail_delivery` | 1,261,000 | two workers, two claims, two faults, a recipient switching off, moving, losing the right to see: `AtMostOneAcceptance`, `VerdictIsTrue`, `AuditExplainsLedger`, `StopNotOvertaken`, and the refinement `KeepsPromise` of `MailPromise` |
| `mail_settles` | 626,000 | all four attempts under `FairSpec`: `SettlesWithinLimit` (never a fifth, and every mail ends) |
| `approvals` | 388,000 | two calls about one node, or about an old request, or about a document with its requirement and a guest whose grant lapses and is renewed: `HistoryMatchesRow`, `OneRequestEach`, `AgreementIsBacked`, `NobodyIsLeftOut`, `RepeatsAreHeard`, `GuestDecisionHasAccess`, and the refinement `KeepsJudgement` of `FixedJudgement` |
| `identity_races` | 1,904,000 | two calls, a session, two links: `NothingOutlivesTheLogin` (no stale session, no stale link, verification follows approval), `LoginSteps` (a link changes once, what ended stays ended, who is admitted knows the login) |
| `factor_flows` | 1,292,000 | two calls, three flows, two sessions, factors and recoveries: `FactorsStandBehindSessions`, `FactorSteps` (one proof one use, a session spends its flow, the last factor stays, the newest approval counts) |
| `team_work` | 1,830,000 | tasks, or a test design, or the members of a tenant and its project: `TaskSteps`, `DesignIsHonest`, `SeenIsWhatCounts`, `MemberSteps` (an owner stays, an administrator stays unless dismissed meanwhile, changes of members are counted) |
| `papers` | 1,112,000 | requirements, or documents and their trash, or workspaces lent to visitors: `RequirementsAreTold`, `NothingIsLostOrLeft` (a file in reach is there, a workspace cleaned up is gone, the pool is bounded), `DecidedOnWhatStands` |
| `kept_copies` | 1,750,000 | preservation, evidence, or judgement: `AdoptedCopyIsKept`, `ReadyMeansComplete`, `LeftoverIsCollectable`, `OneStoredCopy`, `DecidedAsPlanned`, `JudgedOnItsGround` |
| `outside` | 925,000 | publications, invitations, or connections: `SharingIsBacked`, `AddressFollowsEntitlement`, `InvitationsAreTrue`, `ToolsActOnce` (a token is exchanged once, a key has one effect, a plan is applied to what it showed) |
| `approval_old_race` | violation | finding 1 |
| `task_cycle` | violation | finding 2 |
| `member_returns` | violation | finding 3 |

A property named in an MC module is the conjunction of the component's own, whose comments
say what each means. Each has a mutation in `PROJECT.json`: a definition of the model
replaced by what a plausible bug would make of it, under which the same run finds the
property violated. A lease taken without its token, an answer out of time taken for a
refusal, a refresh token not read again under the lock, a sweep that takes reservations under
way, a save that writes every column: each is caught by the property that is about it.

Deadlock is checked in the two runs of mail. The others switch it off: within the bounds
identifiers, keys, tokens and requests are used up (a deleted account with no link left, a
design whose versions are spent), which is a legal end and not a wait. Waiting in a circle,
where transactions take several locks, is a property of its own (`NoCircle` in `SharingIsBacked`).

## 5. Bounds

Every bound is a constant of its module, named where it is declared, and appears in the
guard of the action it stops.

- `MaxTokens` (claims), `MaxFaults`, `MaxPrefVersion` in `ApprovalMail`. Two attempts of one
  notification are the least that can both be accepted. `mail_settles` has five claims, more
  than the four attempts a delivery has, so that a fifth attempt is excluded by the code's
  counter and not by the bound. One notification is enough because workers only meet on a row
  and on the gate; the proofs do without these bounds.
- Two `Calls`, two `Approvals`, two `Ids` in `FixedApproval`: races are between two
  transactions (the third attempt of `Retry` needs a second conflict, which one other
  approval and the old path provide). `MaxGrants` 2: one grant, its lapse, and the next.
- `MaxEdits` 2 in `Identity` allows a change and its reversal (address away and back,
  suspension and return), which is when fingerprints repeat. Two links are the least for
  the two-sided change; one session suffices as no property relates two.
- In `SecondFactor` two of each kind and three flows: a setup or login flow, one that
  manages, one beside them. `MaxAttempts` 1 makes both "wrong, flow survives" and "wrong, flow
  ends" reachable; the code's five are no different. `MaxTime` 2 with a window of one step on
  either side lets a code be early, in time, late and repeated.
- `Tasks`: two requests of every kind over two tasks and a third to be created: lost updates
  need two writers, parents and dependencies three rows at most. `TestDesign`: one case,
  to be made or made, `MaxVersion` 3 (made, changed, changed back), `MAX_FILES_PER_EXECUTION` 1 with two files, so
  that the limit is met at once.
- `Requirements`: three requirements and one issue (promotion collides with a creation), two
  clients at a time. `Documents`: two files, `Retention` 1 of `MaxTime` 2 so that a row can be
  within its time, at its edge and past it; limits of one so that they are met.
- Three `Keys`, two slots in `ArtifactPreservation`: one slot can be copied twice while the
  other is not yet begun. Proved without bounds. `VerificationEvidence` uses the same with two
  sets, `MaxUnfinished` 1 and two versions of what is quoted; `VerificationJudgement` two
  requests (a chain of one), two sessions, two versions and two runs.
- `Publications`: one source, one guest, two requests, which is what a circle of two needs.
  `GuestInvitations`: two invitations of one address, each mailed twice (`MaxToken`), so that an
  old token, proof or mail meets a new one. `Connections`: three tokens (a code's pair and two
  would-be successors), one change of the login, two versions of the task. Proved without bounds.
- `Membership`: two people, one project, two requests: owners who remove each other, administrators
  who remove each other, a dismissal beside an assignment. `MaxSeen` 2 bounds the versions that forms
  are opened on, so that versions stay small although every save adds one; a stale form is within it.
  Its concerns: settings of members, a tenant's beginning, assignments, a project's life, coming back.
  Proved without bounds.
- `DemoWorkspaces`: two workers, two workspaces, `MAX_UNFINISHED` 1 (ten in the code), so that a second
  start meets the limit; two starts an hour (three), one reservation that can be renewed (ten), two
  workspaces a day (ten). Each limit is met. Proved without bounds.

Symmetry is used only in runs without liveness, over sets of interchangeable model values.

## 6. Fairness

Only `mail_settles` assumes any. `approval_mail_dispatch.dispatch_pending_mail` runs a worker
after requests that saved notifications, and a daily cron calls the same entry; so somebody
takes the gate again and again (`WF` on `TakeGate` by some worker), a worker that runs is
scheduled, each of its waits has a timeout, so that it either receives or gives up, and time
passes (`LeaseRunsOut`, `BecomesDue`). Nothing is assumed of the provider, of the recipient, of
the operator or of the child process. The property then says that a saved delivery ends as
accepted, failed, suppressed or unknown; an unknown one waits for the operator, who is not
obliged to act.

## 7. The proofs

`tlapm` checks the proof modules from nothing. None assumes that a constant is finite, so that
each theorem holds for any number of workers, requests, tokens and keys. Each inductive invariant was
checked with TLC on the small instances before it was proved.

### ApprovalMail_proofs

Assumptions: those of the module (null is none of the identifiers, `To` maps notifications to
recipients, bounds are naturals, there is an address).

`AtMostOneAcceptance` is not inductive: it says nothing of the worker about to start an
attempt. The inductive invariant is

    Inv == TypeOK /\ TokensDrawn /\ ChildKnows /\ RowNamesClaim
           /\ SentByCurrentClaim /\ WorkerHoldsClaim /\ ResultIsSound

that is: tokens not yet drawn have no trace; what a child knows is what the wire says;
a row that is leased or sending names the claim that made it so; only the current claim of a
row can have a message on the way or accepted, and only in a state that allows for it; a
worker past its claim holds a token of that claim, or an old one that no compare-and-set
will honour; the outcome it is about to write is one the wire bears out. From it follow

- `TypeCorrect`: `Spec => []TypeOK`
- `AtMostOnce`: `Spec => []AtMostOneAcceptance`
- `VerdictTrue`: `Spec => []VerdictIsTrue`
- `AttemptsBounded`: `Spec => []AttemptsWithinLimit`, with the counter invariant `CountInv`
- `StopHolds`: `Spec => StopNotOvertaken`, with `GuardProtects`: while the guard
  transaction of a worker that is sending is open, the recipient's choice and qualification
  are those its row is bound to.

`AuditExplainsLedger` is not inductive: a row becomes accepted or unknown on the record of its
claim, so the records of rows under way have to be known too. `RecordsFollowRows` adds them: no
claim has a child or a message without a started record, a claimed or sending row has no result yet
and no decision of an operator, an unknown row's result is unknown. Theorem: `AuditExplains`.

`PromiseKept` (`Spec => KeepsPromise`) maps a row to what `MailPromise` sees of it. Every step of
`ApprovalMail` is a step of one notification or none: `PromiseRecovery`, `PromiseFinish`,
`PromiseResolve` and `PromiseArrives` name the steps that are more than a stutter. The heart of it is
that a provider accepts a message only under the claim its row still names (`OnlyCurrentArrives`):
a row set back to waiting can never be arrived at by an earlier child.

### FixedApproval_proofs

Assumptions: those of the module, and that null is neither a row nor a body (`NullAssumption`).

None of the properties is inductive alone, because what a transaction writes was decided on a
snapshot that may be old. `CallsFit` says what a call under way may still rely on: agreements it
read are finished approvals and stay so, what it decides exists, who asks is not the
designated person. `RowsFit` and `MovesFit` say what every row owes to the way it was made. `Inv`
joins them with the properties themselves; the two writes of the module, `Save` and `Conclude`, are
treated once (`SaveKeeps`, `ConcludeKeeps`), and each action only has to show that it may
use them. Theorems: `FixedApprovalTyped`, `HistoryMatches`, `OneRequest`, `AgreementsAreBacked`,
`EverybodyIsTold`.

`StepShape` then sorts every step into five kinds: a request appears, alone or as the successor
of an old one; one is settled; an old one is decided; nothing of it. `GuestsDecideWithAccess` and the
refinement `JudgementKept` follow from it.

`RepeatsHeard` needs the memory of calls (`CallsRemember`): a creation is sent a second time
because its operation id was taken, and so finds itself; a decision because its request was
settled, for good; a switch a third time because the old request was decided, and so cannot
have moved. That is why a repeated call is never given up as a conflict or told of its own success as
somebody else's.

### Identity_proofs

Assumptions: those of the module.

The properties are about sessions and links, but they hold because of the lock on the users row,
which they do not mention. The inductive invariant `IInv` therefore says what a call may rely on
while it holds that lock: `LocksFit` (the row is held by exactly the call that has to commit for its
user), `LoginFits` (the row read by a login is still the row), `MailFits` (the link to be written is
still an orphan, the approval it replaces still usable), `ChangeFits` (the link opened is usable and
belongs to this user), and for calls without a lock `VisitFits` and `FormFits`, which say only what
an earlier read leaves certain. `LinksNameNew` completes `NoStaleLink` and
`VerifyFollowsApproval`. Theorems: `IdentityInvariant`, `LoginIsCurrent`, and, from one lemma per
kind of step, `LoginStepsHold`.

### SecondFactor_proofs

Assumptions: those of the module (null is no session, call or factor; bounds are naturals).

Two kinds of facts make the promises hold. Under the lock, `CallsFit` says that the flow a handler
validated is still the stored one and its fingerprint still the user's: every writer of either needs
the lock the handler holds (`OthersKept` is the step of anybody else seen from there). Without the
lock, `FlowsHold` says what an open flow is entitled to: whoever signs in, confirms or manages has a
factor, and a factor about to be enrolled is still free and no other flow's. That stays true because
whoever takes factors away spends the user's flows in the same commit (`InvalidateStep`).
`AcceptedHold` strengthens `OneProofOneUse`: an accepted code is behind its factor's last step or
gone from the sheet, and its flow is spent or past its proof. Theorems: `SecondFactorInvariant`,
`FactorsStand`, and, from `StepMoves`, which sorts the steps by what they do to factors, sessions,
waiting requests and approvals, `FactorStepsHold`.

### KeptCopies_proofs

Assumption (`Sensible`, stated in each theorem): null is neither a key, a request nor a call, and
there is a first version. A behaviour of `MCKeptCopies` is one of a single component, so the
invariant `PartInv` is the conjunction of three.

*Preservation* (`IInv`). `AdoptedCopyIsKept` alone is not inductive: why no sweep may take an adopted
key depends on what each call holds in its hands. The invariant adds that a key is held by at most
one call that copies it; that a reserved key is the lease's; that a key in somebody's hands is in
the ledger and not adopted; that a key compared and still reserved is intact in the store; that a PUT
which may arrive late and a key about to be deleted are given up for good; that nothing is in the
store that is not in the ledger.

*Evidence* (`EInv`). A lease that is not over is of an attempt still reserved, for a file its set
lacks (`LeaseFits`); a selected copy is verified and stored (`SelectedFits`); what a copy wrote is there until
its attempt is given up, and what a cleanup deletes was given up for good (`CopiesFit`).

*Verdicts* (`JInv`). A judge reads the files outside every transaction and decides long after.
`Line`: every request follows a made one and the requests have one end. `RowsFit`: whatever a
review has seen it saw in its own session, and a favourable decision keeps all of it. `CallsFit`:
while the lease a call took is its own, the review is the one it claimed, and what a decision
compared under the locks holds until it commits, one decision to a row.

Theorems: `KeptCopiesTyped`, `CopiesAreKept`, `ReadyIsCorrect`, `LeftoversAreCollectable`,
`OneCopyIsStored`, and for steps `DecisionsAreSealed` and `JudgementsStand`.

### Outside_proofs

Assumptions: those of the modules, and that there is a first token (`GSensible`). The invariant
`PartInv` is again the conjunction of three.

*Connections* (`IInv`). `ExchangedOnce` compares pairs that were issued; it is kept because of the calls
that are about to issue one. `OneLine` therefore adds that a code or refresh token for which a
pair exists is used up, that a call about to issue is alone on its connection and that what it
holds is not used up, although it was found without a lock. `OneEffect` does the same for the
calls that write: one is alone with its key and finds no receipt there, and one that applies a
plan is alone with the task, whose version is the one previewed.

*Invitations* (`GInv`). Between its transactions a mail carries only a number: `MailingsFit` says
that whoever is to be mailed was invited and that a mail known to be sent has left. `PartFits` ties
participations to the invitations accepted, one each, of which one is active.

*Publications* (`PInv`). The argument is about locks, so the invariant is too: a transaction holds
the first locks of its plan (`Counted`), no two hold locks that conflict (`NoConflict`), and what
one decided on stands until it commits (`Decided`): sources, publication, participations, whoever
asks. `Apart` is the step of the proof that carries it: a transaction can change what another
has decided on only with a lock the other holds. `NobodyInCircles` orders the locks: a
transaction waits only for one that comes later in that order.

Theorems: `OutsideTyped`, `SharingStaysBacked`, and for steps `AddressesFollowEntitlement`,
`InvitationsStayTrue`, `ToolsActOnceEach` (which includes `ExchangedOnce` and `OneEffectPerKey`).

### Papers_proofs

Assumptions (`RequirementsAssumption`, `DocumentsAssumption`, `WorkspacesAssumption`, which TLC evaluates): null
is no key, code, request, workspace or visitor, the two papers are no attachments, times and limits
are numbers. The invariant `PapersInv` is the conjunction of three.

*Documents* (`DInv`). A restore, a purge and an approval each compare other rows than the one they
write. `Apart` says that no row is locked twice, where a call holds its own row, its document and
everything on the same side of the trash; `Grounded` says what each kind of call compared under
those locks (`Ground`), and is preserved because whoever could change it needs one of them.
`KeysFit` names every object after its attachment and the upload that stored it, or leaves it to an upload
still under way: that is why neither a purge that deletes objects one by one, nor an upload
that lost, takes away what somebody can reach. `VersionsFit` completes `DocumentHasItsRevision`.

*Requirements* (`RInv`). `ItemsSeen` says that a save, having compared versions, still holds the row as it
is in the table, and `Apart` that it is alone with it; `RevisionsFit` that no revision is ahead of its
requirement, so that the one added is the only one of its version and `RevisionsChain` extends by one
link. `MadeOnce` ties receipts to documents: a document and its receipt appear in one commit, and only
while the key has none. `Numbered` (automatic numbers have a greatest one) is what makes the next
number defined for any set of requirements, finite or not.

*Demo workspaces* (`WInv`). `WorkersPlaced` says that a locked row has one worker, that one start at a
time is admitted, and what each worker's step tells of the row: under the lock, it is still active, or has ended; objects
deleted, if any could be there. `WorkspacesFit` relates a row to its addresses, its sweeps
and its data: a workspace without reservations gave out no address, a late sweep found the last
one over and nothing can come any more. `PoolFits` carries the count from `Admit` to `Issue`: while
one is admitted there is room for it, because whatever happens meanwhile only shrinks the pool.

Theorems: `PapersInvariant`, `PapersTyped`, `RequirementsStayTold`, `NothingIsLost`, and for steps
`DecisionsStand`.

### TeamWork_proofs

Assumptions (`TasksAssumption`, `DesignAssumption`, which TLC evaluates): the two tasks of the start are
tasks; no content is not a content and the limit of files is a number. The invariant `TeamWorkInv` is the
conjunction of three.

*Tasks* (`TInv`). A form that has locked a task is alone with it (`TApart`); the task still has the
version it compared, and the phase or type it takes is open, or is the one the task had (`TCallsFit`).
A board move writes without any lock; what the proof needs of it is only what the ORM lets it write. `Numbered` is as in `Papers_proofs`.

*Test designs* (`DInv`). `CasesFit` says that a case's digest is of the text a person confirmed last
and that an active case has the content of its key. `CaseSeen`, in `DCallsFit`: a form names a version
the case had, while the case still has it its content is the one the author saw, and under the lock it
has it. `FilesFit` counts the live files of a run: one more is registered by a transaction that found
the run under its limit and still holds the run's lock (`DApart`).

*Members* (`MInv`). `MemberHeld`: under the tenant's lock a membership is as it was read, and a
request that takes an owner's role leaves another. `RightHeld` is the same for a project's lock,
weaker by `gone`, because dismissals do not take it. `TenantHeld` and `Unborn` (nobody belongs to a
tenant not yet issued) keep the issue of a tenant, which has no row to lock, apart from the rest.

Theorems: `TeamWorkInvariant`, `TeamWorkTyped`, `DesignStaysHonest`, and for steps `TaskStepsHold`,
`SeenCounts`, `MemberStepsHold`.
## 8. Findings

1. `approval_old_race`. `requirement_approval.py:289` promises an exception when a request is
   already decided. The old decision path reads the status without a lock and overwrites it:
   two people decide at once, both succeed, and the later decision replaces the earlier.
2. `task_cycle`. `tests/routers/test_tasks.py:418` expects a circular dependency to be refused.
   `task_dependency.py:68` looks for a path without a lock: two requests add opposite
   dependencies, neither sees the other's, and both commit.
3. `member_returns`. `tenant.py:171` and `docs/multi-tenancy.md:35` promise that whoever is added to a
   tenant again gets no old right in its projects. `ProjectMemberService.add_member` (`project.py:455`)
   reads the person's membership of the tenant without the tenant's lock: a dismissal that commits
   before the assignment does withdraws only the rights that exist, the new one stays, and it counts
   again when the person comes back.

Disagreements seen while modelling that have no run of their own:

- `docs/approval-email.md:45` says that sending stops when the locks are lost. The parent looks
  at its guard connection every 50 ms (`notification_email_transport.py:195`), and after a kill of
  the parent nobody looks: the child may begin DATA although the recipient's stop has
  committed. What does hold, and is proved, is the same for a supervised child
  (`StopNotOvertaken`).
- `docs/frontend-authorization.md:718` says an update of a profile with an old version is not
  made. The check (`user.py:439`) reads the row without a lock and the UPDATE is by primary key only.
- `docs/frontend-authorization.md:686` has an open issue promoted once. The promotion
  (`requirement_open_issue.py:370`) takes no lock on the issue: two at once make two requirements.
- `docs/frontend-file-upload.md:20`: an upload whose commit was made but whose answer was lost is
  treated as failed, and its object is deleted (`test_evidence.py:259-264`) while the row stays.
- `docs/frontend-guest-invitations.md:5`: resending ends the earlier token. When two resendings
  overlap, the first mails its own token under the generation of the second, which it has read again
  (`guest_invitation.py:362-416`): the invitation can be shown as sent by a mail whose link is
  dead. `SentWasMailed` therefore speaks of the generation a mail was sent under.
- `docs/frontend-documents-api.md:42` limits the attachments of a document; a restoration from the
  trash (`trash.py:182`) does not count them.
- Every form keeps a finished task at 100 percent (`services/task.py:1059-1062`), but a form saved
  between a board move's reading and its writing can leave one with another number: the ORM writes
  the columns that changed, and the move saw 100 already.
- A hire (`tenant.py:187`) takes the advisory lock before the user's row, a suspension
  (`user.py:309`) the row first: the two can wait for each other. PostgreSQL ends one of them.
  `NoCircle` is stated for publications and downloads, for which it holds.
- A dismissal keeps the row of a withdrawn right, and the pair of project and person is unique. Whoever
  comes back to the tenant is offered among a project's candidates but cannot be assigned
  to it: the INSERT fails (`Assign` needs a pair without a row).
- The guard of a project's last administrator (`project.py:643`) counts the others under the project's
  lock. A dismissal from the tenant holds another lock, so the one counted can be gone at the commit:
  `AdminRemains` excuses exactly that. An edit of a project compares the version of a row read
  without a lock (`project.py:212`), so that two saves of the same version can both be taken.
- `docs/portfolio-demo.md:66` has the objects deleted once more, after the last address and its 60
  seconds are over, before a workspace counts as cleaned. `_cleanup` (`demo.py:320-336`) deletes them first
  and looks at the time afterwards: when the minute ends in between, an upload that came after the
  deletion stays. `NothingIsLeft` therefore says "no object" only of a deletion after the end (`swept`).
- `bind` (`demo.py:209`) reads a workspace's time without the lock, and `revoke` does not read it
  again: a workspace that another request is just extending can end as expired (`FindExpired`,
  `Extend`, `Expire`).

## 9. Only model-checked

`SettlesWithinLimit` (liveness under fairness is beyond the prover). Beyond the prover in general: liveness and
ENABLED, induction over data with an operator as a parameter, and modules with RECURSIVE
operators; none of the modules here declares one.

## 10. Not modelled, and why

Within the modelled parts:

- *Approval mail*: the text of a mail. *Fixed approvals*: imports that only archive, the origin
  column of imported rows, history pages and cursors, creation of requests in the old tables,
  change logs. *Identity*: creation of users, avatars, password rules, the lock after failed
  logins (it only refuses), authority within a tenant. *Second factor*: renaming a factor.
  *Preservation*: preview, download link, error codes, the time of the last sweep.
- *Tasks*: presentation and lists; of a row the columns that properties tell apart. *Test
  design*: import of designs, parsing of files. *Requirements*: schedules, agreements, summaries,
  traces, anchors (texts derived from rows that are modelled). *Documents*: lists, comparisons of
  revisions, the permit of a direct upload; the other kinds of the trash go through the same code
  with other tables. *Publications*: the projection of texts, derived copies, notifications of
  recipients. *Evidence and verdicts*: an objection is one bit; texts, lists and exports.
  *Connections*: metadata, registration of clients, checks of addresses; what an operation offered
  to tools does is what the component it calls does. *Membership*: names, profiles, codes,
  objectives, overviews and lists; the table of permissions, of which only "manages" and "does not"
  are kept; the project roles that manage nothing are one. *Demo workspaces*: which
  rows a request may read and how many it may write (checks that only refuse), sizes of uploads,
  addresses for downloads.

Left out as a whole:

- Fixed releases are one idempotent insertion of an immutable snapshot. The audit log and
  notifications are insertions in the transaction of the change they tell of, and are kept in the
  modules as who was told what.
- Login attempts and request budgets are counters that only refuse: the budget is one atomic
  upsert; the count of failures may lose one when two failures come at once, and the code promises
  nothing that a property could state of it.
- Review accounts are a fixture an operator runs.
- Home, search, exports and presenters only read. The HTTP layer keeps no state beyond a request
  but caches of texts. Clients of mail and storage have no state; each module models what
  their calls may answer. Migrations are read for the constraints and triggers they create, which
  are part of the actions.
