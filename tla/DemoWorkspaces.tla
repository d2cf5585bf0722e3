--------------------------- MODULE DemoWorkspaces ---------------------------
(* Workspaces lent to visitors without an account.  One is issued under a   *)
(* lock that all starts share; it ends when its visitor leaves or its time  *)
(* is over, and is cleaned up by the request that finds it ended, the next  *)
(* visitor's start or the daily job.  The store of files keeps no           *)
(* transactions: an address to upload to can be used after the workspace    *)
(* has ended, until it runs out itself.                                     *)
EXTENDS Naturals, FiniteSets

CONSTANTS Workers,      \* requests and jobs under way
          Demos,        \* workspaces that may ever be issued
          Visitors, None,
          MAX_UNFINISHED, MAX_STARTS, MAX_UPLOADS, MAX_DUE

VARIABLES demo,      \* ledger rows of the workspaces
          data,      \* workspaces that have rows: users, projects, documents
          stored,    \* workspaces that have an object in the store
          swept,     \* history: when a workspace's objects were last deleted
          starts,    \* starts counted in the present hour
          work       \* what each worker does
vars == <<demo, data, stored, swept, starts, work>>

-----------------------------------------------------------------------------
Row == [status : {"unused", "active", "cleanup_pending", "cleaned", "pruned"},
        age : {"fresh", "idle", "old"},               \* 15 minutes unused, or 60 in all
        waits : {"no", "retry", "puts"},              \* why cleanup_after is not yet due
        uploads : Nat,                                \* reservations
        url : {"none", "usable", "grace", "over"}]    \* the last address given out, and 60 s
Unissued == [status |-> "unused", age |-> "fresh", waits |-> "no", uploads |-> 0, url |-> "none"]

Steps == {"idle", "holding", "expired", "going", "admitted",
          "revoked", "cleaning", "deleted", "failed"}
Work == [at : Steps, demo : Demos \cup {None}, todo : SUBSET Demos,
         visitor : Visitors \cup {None}]
Doing(at, d, todo, v) == [at |-> at, demo |-> d, todo |-> todo, visitor |-> v]
Idle == Doing("idle", None, {}, None)
Going(w) == Doing("going", None, work[w].todo, work[w].visitor)
Goes(w, at) == work' = [work EXCEPT ![w] = Doing(at, @.demo, @.todo, @.visitor)]
Turns(w, x) == work' = [work EXCEPT ![w] = x]

Locked(d) == \E w \in Workers : work[w].at \in {"holding", "cleaning", "deleted"} /\ work[w].demo = d
AdmissionFree == \A w \in Workers : work[w].at # "admitted"
Unfinished == {d \in Demos : demo[d].status \in {"active", "cleanup_pending"}}
Expired(d) == demo[d].age # "fresh"
Due == {d \in Demos : \/ demo[d].status = "active" /\ Expired(d)
                      \/ demo[d].status = "cleanup_pending" /\ demo[d].waits = "no"}
Batch(n) ==      \* due_ids: as many as there are, up to the limit
    {T \in SUBSET Due : Cardinality(T) <= n /\ (T # Due => Cardinality(T) = n)}
\* What has ended has no age.
Revoked(row) == IF row.status # "active" THEN row
    ELSE [status |-> "cleanup_pending", age |-> "fresh", waits |-> "no", uploads |-> row.uploads, url |-> row.url]

-----------------------------------------------------------------------------
(* A start: counted, then it cleans two that are due, then it is admitted.  *)
Start(w, v) ==
    /\ work[w] = Idle /\ AdmissionFree
    /\ starts[v] < MAX_STARTS
    /\ starts' = [starts EXCEPT ![v] = @ + 1]
    /\ \E T \in Batch(2) : Turns(w, Doing("going", None, T, v))
    /\ UNCHANGED <<demo, data, stored, swept>>
Admit(w) ==
    /\ work[w].at = "going" /\ work[w].todo = {} /\ work[w].visitor # None
    /\ AdmissionFree /\ Cardinality(Unfinished) < MAX_UNFINISHED
    /\ Goes(w, "admitted")
    /\ UNCHANGED <<demo, data, stored, swept, starts>>
Issue(w, d) ==
    /\ work[w].at = "admitted" /\ demo[d].status = "unused"
    /\ demo' = [demo EXCEPT ![d] =
                   [status |-> "active", age |-> "fresh", waits |-> "no", uploads |-> 0, url |-> "none"]]
    /\ data' = data \cup {d}
    /\ Turns(w, Idle)
    /\ UNCHANGED <<stored, swept, starts>>
\* DemoLimitError, everything cleaned, an error or the end of the process: the lock goes with it.
Stop(w) == work[w] # Idle /\ Turns(w, Idle) /\ UNCHANGED <<demo, data, stored, swept, starts>>

-----------------------------------------------------------------------------
(* In the workspace.  Before a write the row is locked and looked at.       *)
Active(d) == demo[d].status = "active" /\ ~Expired(d)
Hold(w, d) ==
    /\ work[w] = Idle /\ ~Locked(d) /\ Active(d)
    /\ Turns(w, Doing("holding", d, {}, None))
    /\ UNCHANGED <<demo, data, stored, swept, starts>>
Write(w) ==
    /\ work[w].at = "holding"
    /\ data' = data \cup {work[w].demo}
    /\ Turns(w, Idle)
    /\ UNCHANGED <<demo, stored, swept, starts>>
Extend(w) ==
    /\ work[w].at = "holding"
    /\ demo' = [demo EXCEPT ![work[w].demo].age = IF @ = "old" THEN @ ELSE "fresh"]
    /\ Turns(w, Idle)
    /\ UNCHANGED <<data, stored, swept, starts>>
\* A reservation is a transaction of its own, and commits before the address is given out.
ReserveUpload(d) ==
    /\ ~Locked(d) /\ Active(d)
    /\ \E n \in {demo[d].uploads, demo[d].uploads + 1} \ {0} :
          /\ n <= MAX_UPLOADS
          /\ demo' = [demo EXCEPT ![d] =
                [status |-> @.status, age |-> @.age, waits |-> @.waits, uploads |-> n, url |-> "usable"]]
    /\ UNCHANGED <<data, stored, swept, starts, work>>
\* The upload arrives, whatever has become of the workspace: within a minute of its address's end.
Put(d) ==
    /\ demo[d].url \in {"usable", "grace"}
    /\ stored' = stored \cup {d}
    /\ UNCHANGED <<demo, data, swept, starts, work>>

-----------------------------------------------------------------------------
(* The end.  What has expired is found without the lock.                    *)
Leave(w, d) ==      \* logout, reset, a session revoked elsewhere
    /\ work[w] = Idle /\ ~Locked(d) /\ demo[d].status = "active"
    /\ demo' = [demo EXCEPT ![d] = Revoked(@)]
    /\ Turns(w, Doing("going", None, {d}, None))
    /\ UNCHANGED <<data, stored, swept, starts>>
FindExpired(w, d) ==
    /\ work[w] = Idle /\ demo[d].status = "active" /\ Expired(d)
    /\ Turns(w, Doing("expired", d, {}, None))
    /\ UNCHANGED <<demo, data, stored, swept, starts>>
Expire(w) ==
    LET d == work[w].demo IN
    /\ work[w].at = "expired" /\ ~Locked(d)
    /\ demo' = [demo EXCEPT ![d] = Revoked(@)]
    /\ Turns(w, Doing("going", None, {d}, None))
    /\ UNCHANGED <<data, stored, swept, starts>>
SweepDue(w) ==      \* the daily job
    /\ work[w] = Idle
    /\ \E T \in Batch(MAX_DUE) : Turns(w, Doing("going", None, T, None))
    /\ UNCHANGED <<demo, data, stored, swept, starts>>

-----------------------------------------------------------------------------
(* Cleanup of one workspace; the row's lock is the lease.                   *)
Takes(w, d, at) == d \in work[w].todo /\ Turns(w, Doing(at, d, work[w].todo \ {d}, work[w].visitor))
Skip(w, d) ==      \* locked by another, done, or not ended after all
    /\ work[w].at = "going" /\ d \in work[w].todo
    /\ Locked(d) \/ demo[d].status \notin {"active", "cleanup_pending"} \/ Active(d)
    /\ Turns(w, Doing("going", None, work[w].todo \ {d}, work[w].visitor))
    /\ UNCHANGED <<demo, data, stored, swept, starts>>
EndFirst(w, d) ==      \* the commit gives the lock up
    /\ work[w].at = "going" /\ ~Locked(d)
    /\ demo[d].status = "active" /\ Expired(d)
    /\ demo' = [demo EXCEPT ![d] = Revoked(@)]
    /\ Takes(w, d, "revoked")
    /\ UNCHANGED <<data, stored, swept, starts>>
Lock(w, d) ==
    /\ work[w].at = "going" /\ ~Locked(d)
    /\ demo[d].status = "cleanup_pending"
    /\ Takes(w, d, "cleaning")
    /\ UNCHANGED <<demo, data, stored, swept, starts>>
LockAgain(w) ==
    /\ work[w].at = "revoked" /\ ~Locked(work[w].demo)
    /\ Goes(w, "cleaning")
    /\ UNCHANGED <<demo, data, stored, swept, starts>>
DeletePrefix(w) ==
    LET d == work[w].demo IN
    /\ work[w].at = "cleaning"
    /\ IF demo[d].uploads = 0 THEN UNCHANGED <<stored, swept>>
       ELSE /\ stored' = stored \ {d}
            /\ swept' = [swept EXCEPT ![d] = IF demo[d].url = "over" THEN "late" ELSE "early"]
    /\ Goes(w, "deleted")
    /\ UNCHANGED <<demo, data, starts>>
\* Uploads may still arrive: the ledger stays, and another sweep comes.
PutsMayCome(d) == demo[d].uploads > 0 /\ demo[d].url \in {"usable", "grace"}
DeleteBusinessData(w) ==
    LET d == work[w].demo IN
    /\ work[w].at = "deleted"
    /\ data' = data \ {d}
    /\ demo' = [demo EXCEPT ![d] =
          IF PutsMayCome(d)
          THEN [status |-> @.status, age |-> @.age, waits |-> "puts", uploads |-> @.uploads, url |-> @.url]
          ELSE [status |-> "cleaned", age |-> "fresh", waits |-> "no", uploads |-> 0, url |-> @.url]]
    /\ Turns(w, Going(w))
    /\ UNCHANGED <<stored, swept, starts>>
CleanupFails(w) ==      \* the store, or the database, fails: the rollback gives the lock up
    /\ work[w].at \in {"cleaning", "deleted"}
    /\ Goes(w, "failed")
    /\ UNCHANGED <<demo, data, stored, swept, starts>>
Abandon(w) ==      \* not even that is recorded: cleanup goes on with the next
    /\ work[w].at \in {"revoked", "failed"}
    /\ Turns(w, Going(w))
    /\ UNCHANGED <<demo, data, stored, swept, starts>>
RecordFailure(w) ==
    LET d == work[w].demo IN
    /\ work[w].at = "failed" /\ ~Locked(d)
    /\ demo' = [demo EXCEPT ![d].waits = IF demo[d].status = "cleanup_pending" THEN "retry" ELSE @]
    /\ Turns(w, Going(w))
    /\ UNCHANGED <<data, stored, swept, starts>>
\* A day later: nobody who dealt with it then is still under way.
PruneReceipt(d) ==
    /\ demo[d].status = "cleaned" /\ \A w \in Workers : work[w].demo # d
    /\ demo' = [demo EXCEPT ![d].status = "pruned"]
    /\ UNCHANGED <<data, stored, swept, starts, work>>

-----------------------------------------------------------------------------
(* Time: of the workspace, of its addresses, of a retry, and of the hour.   *)
Ages(d) ==
    /\ demo[d].status = "active" /\ demo[d].age # "old"
    /\ \E age \in {"idle", "old"} \ {demo[d].age} : demo' = [demo EXCEPT ![d].age = age]
    /\ UNCHANGED <<data, stored, swept, starts, work>>
UrlEnds(d) ==
    /\ demo[d].url \in {"usable", "grace"}
    /\ demo' = [demo EXCEPT ![d].url = IF @ = "usable" THEN "grace" ELSE "over"]
    /\ UNCHANGED <<data, stored, swept, starts, work>>
ComesDue(d) ==
    /\ demo[d].waits = "retry" \/ (demo[d].waits = "puts" /\ demo[d].url = "over")
    /\ demo' = [demo EXCEPT ![d].waits = "no"]
    /\ UNCHANGED <<data, stored, swept, starts, work>>
HourEnds ==
    /\ starts # [v \in Visitors |-> 0]
    /\ starts' = [v \in Visitors |-> 0]
    /\ UNCHANGED <<demo, data, stored, swept, work>>

-----------------------------------------------------------------------------
Init ==
    /\ demo = [d \in Demos |-> Unissued]
    /\ data = {} /\ stored = {}
    /\ swept = [d \in Demos |-> "never"]
    /\ starts = [v \in Visitors |-> 0]
    /\ work = [w \in Workers |-> Idle]
Next ==
    \/ \E w \in Workers :
          \/ \E v \in Visitors : Start(w, v)
          \/ Admit(w) \/ Stop(w) \/ Write(w) \/ Extend(w) \/ Expire(w) \/ SweepDue(w)
          \/ LockAgain(w) \/ DeletePrefix(w) \/ DeleteBusinessData(w)
          \/ CleanupFails(w) \/ Abandon(w) \/ RecordFailure(w)
          \/ \E d \in Demos :
                \/ Issue(w, d) \/ Hold(w, d) \/ Leave(w, d) \/ FindExpired(w, d)
                \/ Skip(w, d) \/ EndFirst(w, d) \/ Lock(w, d)
    \/ \E d \in Demos :
          \/ ReserveUpload(d) \/ Put(d) \/ PruneReceipt(d)
          \/ Ages(d) \/ UrlEnds(d) \/ ComesDue(d)
    \/ HourEnds
Spec == Init /\ [][Next]_vars

-----------------------------------------------------------------------------
(* Every variable has its type.                                             *)
TypeOK ==
    /\ demo \in [Demos -> Row]
    /\ data \subseteq Demos /\ stored \subseteq Demos
    /\ swept \in [Demos -> {"never", "early", "late"}]
    /\ starts \in [Visitors -> Nat]
    /\ work \in [Workers -> Work]

(* However many start at once, workspaces not yet cleaned up stay within    *)
(* the pool (unfinished_count under the lock of lock_admission).            *)
PoolIsBounded == Cardinality(Unfinished) <= MAX_UNFINISHED

(* Of a workspace that was cleaned up no row is left and no address can be  *)
(* used; where files could have been uploaded its objects were deleted, and *)
(* if that was after the last address had run out, there are none.          *)
NothingIsLeft ==
    \A d \in Demos : demo[d].status \in {"cleaned", "pruned"} =>
        /\ d \notin data
        /\ demo[d].url \in {"none", "over"}
        /\ demo[d].url = "over" => swept[d] # "never"
        /\ swept[d] = "late" => d \notin stored

(* Whoever has locked a workspace to write to it commits before it ends: a  *)
(* request let in before that and come too late writes nothing              *)
(* (lock_active_demo, revoke).                                              *)
WritesComeInTime ==
    \A w \in Workers : work[w].at = "holding" => demo[work[w].demo].status = "active"
=============================================================================
