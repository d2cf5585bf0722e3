----------------------------- MODULE Membership -----------------------------
(* Who belongs to a tenant and to its projects.  A request is admitted by   *)
(* what the database says of its actor ("asked"); it then locks the tenant  *)
(* or the project, if it does, and reads what it needs ("checked"); it      *)
(* writes and commits.  Member rows change under the tenant's lock, rights  *)
(* in a project under the project's, and a dismissal writes rights under    *)
(* the tenant's lock alone.  The ORM writes the version it LOADED plus one. *)
EXTENDS Naturals, FiniteSets

CONSTANTS Calls,        \* requests under way
          Users, Projects, NoOne,
          Concerns,     \* sets of operations: a behaviour is about one of them
          MaxVersion    \* bound on the versions forms are opened on

VARIABLES kinds,     \* the operations of this behaviour
          account,   \* state of each person's account
          tenant,    \* row of the tenant
          member,    \* row of each person's membership of it
          project,   \* rows of its projects
          right,     \* right[p][u]: row of a person's membership of a project
          calls
rows == <<account, tenant, member, project, right>>
vars == <<kinds, account, tenant, member, project, right, calls>>

-----------------------------------------------------------------------------
(* Rows; version 0 is no row.  Names, profiles, codes and dates are left    *)
(* out, the project roles that manage nothing are one, "member", and a      *)
(* deleted account is an inactive one.                                      *)
Tenant == [state : {"absent", "live"}, version : Nat]
TenantRoles == {"owner", "admin", "member"}
TenantMember == [status : {"absent", "active", "suspended", "removed"},
                 role : TenantRoles, version : Nat]
Project == [state : {"absent", "live", "deleted"}, version : Nat]
ProjectRoles == {"admin", "member"}
ProjectMember == [state : {"absent", "live", "withdrawn"}, role : ProjectRoles, version : Nat]
NoMember == [status |-> "absent", role |-> "member", version |-> 0]
NoRight == [state |-> "absent", role |-> "member", version |-> 0]
Joined(role, v) == [status |-> "active", role |-> role, version |-> v]
Assigned(role) == [state |-> "live", role |-> role, version |-> 1]

IsActiveOwner(u) == member[u].status = "active" /\ member[u].role = "owner"
OwnerCount == Cardinality({u \in Users : IsActiveOwner(u) /\ account[u] = "active"})
IsActiveMember(u) == account[u] = "active" /\ member[u].status = "active"
IsProjectAdmin(p, u) == right[p][u].state = "live" /\ right[p][u].role = "admin"
OtherAdmins(p, u) ==      \* count_project_admins
    {v \in Users \ {u} :
        IsProjectAdmin(p, v) /\ project[p].state = "live" /\ IsActiveMember(v)}

-----------------------------------------------------------------------------
(* Requests.                                                                *)
LocksTenant == {"hire", "change", "dismiss", "register", "rename", "bootstrap"}
LocksProject == {"assign", "rerole", "unassign"}
Operations == LocksTenant \cup LocksProject \cup {"issue", "found", "edit", "close"}
Free == [step |-> "free"]
Call == {Free} \cup
    [step : {"asked", "checked"}, kind : Operations,
     power : TenantRoles,                   \* the actor's role when admitted
     user : Users \cup {NoOne}, project : Projects \cup {NoOne},
     role : TenantRoles, status : {"active", "suspended", "removed"},
     seen : Nat,                            \* version the form shows
     loaded : Nat,                          \* version of the row read
     gone : SUBSET Users]                   \* history: dismissed since
Request(kind, power, u, p, role, status, seen) ==
    [step |-> "asked", kind |-> kind, power |-> power, user |-> u, project |-> p,
     role |-> role, status |-> status, seen |-> seen, loaded |-> 0, gone |-> {}]
WithLoaded(r, version) ==
    [step |-> "checked", kind |-> r.kind, power |-> r.power, user |-> r.user,
     project |-> r.project, role |-> r.role, status |-> r.status, seen |-> r.seen,
     loaded |-> version, gone |-> {}]
AlsoGone(r, u) ==
    [step |-> r.step, kind |-> r.kind, power |-> r.power, user |-> r.user,
     project |-> r.project, role |-> r.role, status |-> r.status, seen |-> r.seen,
     loaded |-> r.loaded, gone |-> r.gone \cup {u}]

At(c, step, ks) == calls[c].step = step /\ calls[c].kind \in ks
TenantIsFreeAnyway == TRUE      \* mutation: the tenant's row is read without its lock
TenantIsFree == \A c \in Calls : ~At(c, "checked", LocksTenant)
ProjectIsFree(p) == \A c \in Calls : ~(At(c, "checked", LocksProject) /\ calls[c].project = p)

(* get_current_tenant, require_tenant_admin, require_project_management.    *)
Admitted(a) == tenant.state = "live" /\ IsActiveMember(a)
IsTenantAdmin(a) == Admitted(a) /\ member[a].role \in {"owner", "admin"}
Manages(a, p) ==
    project[p].state = "live" /\ (IsTenantAdmin(a) \/ (Admitted(a) /\ IsProjectAdmin(p, a)))
MayGrant(r) == r.role = "owner" => r.power = "owner"

Open(c, r) ==
    /\ calls[c] = Free /\ r.kind \in kinds /\ r.seen < MaxVersion
    /\ calls' = [calls EXCEPT ![c] = r]
    /\ UNCHANGED <<kinds, rows>>
AskTenant(c, a, u) ==
    /\ IsTenantAdmin(a)
    /\ LET new(kind, role) == Request(kind, member[a].role, u, NoOne, role, "active", 0)
           form(kind, role, status) ==
               Request(kind, member[a].role, u, NoOne, role, status, member[u].version)
       IN \/ \E kind \in {"hire", "register"}, role \in TenantRoles : Open(c, new(kind, role))
          \/ \E role \in TenantRoles, status \in {"active", "suspended"} :
                Open(c, form("change", role, status))
          \/ Open(c, form("dismiss", member[u].role, "removed"))
          \/ Open(c, Request("rename", member[a].role, NoOne, NoOne, "member", "active", tenant.version))
AskProject(c, a, p, u) ==
    \/ IsTenantAdmin(a) /\ Open(c, Request("found", member[a].role, a, p, "admin", "active", 0))
    \/ /\ Manages(a, p)
       /\ \/ \E role \in ProjectRoles :
                \/ Open(c, Request("assign", member[a].role, u, p, role, "active", 0))
                \/ Open(c, Request("rerole", member[a].role, u, p, role, "active", right[p][u].version))
          \/ Open(c, Request("unassign", member[a].role, u, p, "member", "active", 0))
          \/ \E kind \in {"edit", "close"} :
                Open(c, Request(kind, member[a].role, NoOne, p, "member", "active", project[p].version))
(* The operator issues a tenant; a script gives an ownerless one its owner. *)
AskOperator(c, u) ==
    \E kind \in {"issue", "bootstrap"} : Open(c, Request(kind, "owner", u, NoOne, "owner", "active", 0))

(* The request is refused, or its transaction lost: nothing is stored.      *)
Refuse(c) ==
    /\ calls[c] # Free
    /\ calls' = [calls EXCEPT ![c] = Free]
    /\ UNCHANGED <<kinds, rows>>

Load(c, version) ==
    /\ calls' = [calls EXCEPT ![c] = WithLoaded(@, version)]
    /\ UNCHANGED <<kinds, rows>>
Done(c) == calls' = [calls EXCEPT ![c] = Free] /\ UNCHANGED kinds

-----------------------------------------------------------------------------
(* The tenant and its members.                                              *)
CheckAddMember(c) ==
    LET r == calls[c] IN
    /\ At(c, "asked", {"hire"}) /\ TenantIsFree
    /\ account[r.user] = "active" /\ MayGrant(r)
    /\ member[r.user].status \in {"absent", "removed"}
    /\ Load(c, member[r.user].version)

CheckChangeMember(c) ==
    LET r == calls[c]
        row == member[r.user] IN
    /\ At(c, "asked", {"change", "dismiss"}) /\ TenantIsFree
    /\ row.status \notin {"absent", "removed"} /\ row.version = r.seen
    /\ row.role = "owner" => r.power = "owner"
    /\ MayGrant(r)
    /\ (IsActiveOwner(r.user) /\ ~(r.role = "owner" /\ r.status = "active")) => OwnerCount > 1
    /\ Load(c, row.version)

CheckBootstrap(c) ==
    LET u == calls[c].user IN
    /\ At(c, "asked", {"bootstrap"}) /\ TenantIsFree /\ tenant.state = "live"
    /\ account[u] = "active" /\ member[u].status # "absent"
    /\ \A v \in Users : ~IsActiveOwner(v)
    /\ Load(c, member[u].version)

SaveMember(c) ==
    LET r == calls[c] IN
    /\ At(c, "checked", {"hire", "change", "bootstrap"})
    /\ member' = [member EXCEPT ![r.user] =
                     [status |-> r.status, role |-> r.role, version |-> r.loaded + 1]]
    /\ Done(c) /\ UNCHANGED <<account, tenant, project, right>>

\* A dismissal withdraws the person's rights in every project of the tenant.
Withdrawn(row) ==
    IF row.state = "live"
    THEN [state |-> "withdrawn", role |-> row.role, version |-> row.version + 1] ELSE row
Dismiss(c) ==
    LET r == calls[c] IN
    /\ At(c, "checked", {"dismiss"})
    /\ member' = [member EXCEPT ![r.user] =
                     [status |-> "removed", role |-> r.role, version |-> r.loaded + 1]]
    /\ right' = [p \in Projects |-> [u \in Users |->
                     IF u = r.user THEN Withdrawn(right[p][u]) ELSE right[p][u]]]
    /\ calls' = [x \in Calls |->
                     IF x = c THEN Free
                     ELSE IF At(x, "checked", {"rerole", "unassign"})
                          THEN AlsoGone(calls[x], r.user) ELSE calls[x]]
    /\ UNCHANGED <<kinds, account, tenant, project>>

CheckCreateUser(c) ==
    LET r == calls[c] IN
    /\ At(c, "asked", {"register"}) /\ TenantIsFree
    /\ account[r.user] = "absent" /\ MayGrant(r)
    /\ Load(c, 0)
CreateUser(c) ==
    LET u == calls[c].user IN
    /\ At(c, "checked", {"register"})
    /\ account[u] = "absent"              \* the address is unique
    /\ account' = [account EXCEPT ![u] = "active"]
    /\ member' = [member EXCEPT ![u] = Joined(calls[c].role, 1)]
    /\ Done(c) /\ UNCHANGED <<tenant, project, right>>

CheckUpdate(c) ==
    /\ At(c, "asked", {"rename"}) /\ TenantIsFree
    /\ tenant.version = calls[c].seen
    /\ Load(c, tenant.version)
Update(c) ==
    /\ At(c, "checked", {"rename"})
    /\ tenant' = [state |-> tenant.state, version |-> calls[c].loaded + 1]
    /\ Done(c) /\ UNCHANGED <<account, member, project, right>>

CheckIssue(c) ==      \* loaded: whether the owner has an account
    LET u == calls[c].user IN
    /\ At(c, "asked", {"issue"})
    /\ account[u] \in {"absent", "active"}
    /\ Load(c, IF account[u] = "active" THEN 1 ELSE 0)
Issue(c) ==
    LET u == calls[c].user IN
    /\ At(c, "checked", {"issue"})
    /\ tenant.state = "absent" /\ (account[u] = "absent") = (calls[c].loaded = 0)
    /\ tenant' = [state |-> "live", version |-> 1]
    /\ account' = [account EXCEPT ![u] = IF @ = "absent" THEN "active" ELSE @]
    /\ member' = [member EXCEPT ![u] = Joined("owner", 1)]
    /\ Done(c) /\ UNCHANGED <<project, right>>

-----------------------------------------------------------------------------
(* Projects and their members.                                              *)

\* The INSERT waits for the tenant's lock and keeps others from it.
CreateProject(c) ==
    LET r == calls[c] IN
    /\ At(c, "asked", {"found"}) /\ TenantIsFree
    /\ project[r.project].state = "absent"
    /\ IsActiveMember(r.user)
    /\ project' = [project EXCEPT ![r.project] = [state |-> "live", version |-> 1]]
    /\ right' = [right EXCEPT ![r.project][r.user] = Assigned("admin")]
    /\ Done(c) /\ UNCHANGED <<account, tenant, member>>

\* No lock: the row was loaded when the request was admitted.
ReadProject(c) ==
    /\ At(c, "asked", {"edit", "close"})
    /\ project[calls[c].project].state = "live"
    /\ Load(c, calls[c].seen)
UpdateProject(c) ==
    LET p == calls[c].project IN
    /\ At(c, "checked", {"edit"}) /\ ProjectIsFree(p)
    /\ project' = [project EXCEPT ![p] = [state |-> @.state, version |-> calls[c].loaded + 1]]
    /\ Done(c) /\ UNCHANGED <<account, tenant, member, right>>
DeleteProject(c) ==
    LET p == calls[c].project IN
    /\ At(c, "checked", {"close"}) /\ ProjectIsFree(p)
    /\ project' = [project EXCEPT ![p] = [state |-> "deleted", version |-> @.version]]
    /\ Done(c) /\ UNCHANGED <<account, tenant, member, right>>

LockProject(c) ==
    LET p == calls[c].project IN project[p].state = "live" /\ ProjectIsFree(p)
\* The tenant is not locked while the person's membership of it is read.
CheckAssign(c) ==
    LET r == calls[c] IN
    /\ At(c, "asked", {"assign"}) /\ LockProject(c)
    /\ IsActiveMember(r.user)
    /\ right[r.project][r.user].state # "live"
    /\ Load(c, right[r.project][r.user].version)
\* One row per pair: where a dismissal left one, the INSERT fails.
Assign(c) ==
    LET r == calls[c] IN
    /\ At(c, "checked", {"assign"})
    /\ right[r.project][r.user].state = "absent"
    /\ right' = [right EXCEPT ![r.project][r.user] = Assigned(r.role)]
    /\ Done(c) /\ UNCHANGED <<account, tenant, member, project>>

CheckMember(c) ==      \* rerole or unassign
    LET r == calls[c]
        row == right[r.project][r.user] IN
    /\ At(c, "asked", {"rerole", "unassign"}) /\ LockProject(c)
    /\ row.state = "live"
    /\ r.kind = "rerole" => row.version = r.seen
    /\ (row.role = "admin" /\ ~(r.kind = "rerole" /\ r.role = "admin"))
          => OtherAdmins(r.project, r.user) # {}
    /\ Load(c, row.version)
UpdateRole(c) ==
    LET r == calls[c] IN
    /\ At(c, "checked", {"rerole"})
    /\ right' = [right EXCEPT ![r.project][r.user] =
                    [state |-> @.state, role |-> r.role, version |-> r.loaded + 1]]
    /\ Done(c) /\ UNCHANGED <<account, tenant, member, project>>
RemoveMember(c) ==
    LET r == calls[c] IN
    /\ At(c, "checked", {"unassign"})
    /\ right' = [right EXCEPT ![r.project][r.user] = NoRight]
    /\ Done(c) /\ UNCHANGED <<account, tenant, member, project>>

(* The operator suspends an account, deletes it, or lets it in again.       *)
ChangeAccount(u) ==
    /\ "account" \in kinds /\ account[u] # "absent"
    /\ account' = [account EXCEPT ![u] = IF @ = "active" THEN "inactive" ELSE "active"]
    /\ UNCHANGED <<kinds, tenant, member, project, right, calls>>

-----------------------------------------------------------------------------
(* A tenant not yet issued, or one with its first members and projects.     *)
Init ==
    /\ kinds \in Concerns
    /\ account \in [Users -> {"absent", "active"}]
    /\ \/ /\ tenant = [state |-> "absent", version |-> 0]
          /\ member = [u \in Users |-> NoMember]
          /\ project = [p \in Projects |-> [state |-> "absent", version |-> 0]]
          /\ right = [p \in Projects |-> [u \in Users |-> NoRight]]
       \/ /\ tenant = [state |-> "live", version |-> 1]
          /\ member \in [Users -> {NoMember} \cup {Joined(role, 1) : role \in TenantRoles}]
          /\ project \in [Projects -> {[state |-> "absent", version |-> 0],
                                       [state |-> "live", version |-> 1]}]
          /\ right \in [Projects -> [Users -> {NoRight} \cup {Assigned(role) : role \in ProjectRoles}]]
          /\ \A u \in Users : account[u] = "absent" => member[u] = NoMember
          /\ \A p \in Projects, u \in Users :
                right[p][u] # NoRight => project[p].state = "live" /\ member[u] # NoMember
          /\ \A p \in Projects : project[p].state = "live" => \E u \in Users : IsProjectAdmin(p, u)
    /\ calls = [c \in Calls |-> Free]

Next ==
    \/ \E c \in Calls :
          \/ \E a, u \in Users : AskTenant(c, a, u) \/ \E p \in Projects : AskProject(c, a, p, u)
          \/ \E u \in Users : AskOperator(c, u)
          \/ Refuse(c)
          \/ CheckAddMember(c) \/ CheckChangeMember(c) \/ CheckBootstrap(c)
          \/ SaveMember(c) \/ Dismiss(c)
          \/ CheckCreateUser(c) \/ CreateUser(c) \/ CheckUpdate(c) \/ Update(c)
          \/ CheckIssue(c) \/ Issue(c)
          \/ CreateProject(c) \/ ReadProject(c) \/ UpdateProject(c) \/ DeleteProject(c)
          \/ CheckAssign(c) \/ Assign(c) \/ CheckMember(c) \/ UpdateRole(c) \/ RemoveMember(c)
    \/ \E u \in Users : ChangeAccount(u)
Spec == Init /\ [][Next]_vars

-----------------------------------------------------------------------------
(* Every variable has its type.                                             *)
TypeOK ==
    /\ kinds \in Concerns
    /\ account \in [Users -> {"absent", "active", "inactive"}]
    /\ tenant \in Tenant /\ member \in [Users -> TenantMember]
    /\ project \in [Projects -> Project] /\ right \in [Projects -> [Users -> ProjectMember]]
    /\ calls \in [Calls -> Call]

(* A tenant that has an active owner keeps one: owners who demote, suspend  *)
(* or dismiss each other at the same time (change_member) never all go.     *)
OwnerStays == [][(\E u \in Users : IsActiveOwner(u)) => \E u \in Users : IsActiveOwner(u)']_vars

(* A request that takes an administrator's right in a project leaves        *)
(* another administrator there, or one whom the tenant has dismissed since  *)
(* the request counted (_ensure_project_admin_remains).                     *)
TakesAdmin(c, p, u) ==
    /\ At(c, "checked", LocksProject) /\ calls[c].project = p /\ calls[c].user = u
    /\ calls'[c] = Free /\ IsProjectAdmin(p, u) /\ ~IsProjectAdmin(p, u)'
AdminRemains ==
    [][\A c \in Calls, p \in Projects, u \in Users : TakesAdmin(c, p, u) =>
          \E v \in Users \ {u} : IsProjectAdmin(p, v)' \/ v \in calls[c].gone]_vars

(* Every change of a membership or of the tenant's settings counts: none    *)
(* replaces a row of which another change has not been seen.                *)
LockedChangesAreCounted ==
    [][/\ \A u \in Users : member'[u] # member[u] => member'[u].version = member[u].version + 1
       /\ tenant' # tenant => tenant'.version = tenant.version + 1]_vars

(* Whoever is taken into the tenant again has no right in its projects from *)
(* before (TenantService.add_member).                                       *)
NoRevival ==
    [][\A u \in Users : (member[u].status = "removed" /\ member'[u].status = "active")
          => \A p \in Projects : right[p][u].state # "live"]_vars
=============================================================================
