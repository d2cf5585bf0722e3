------------------------- MODULE ArtifactPreservation -------------------------
(***************************************************************************)
(* Keeping the attachments of a fixed release.  A preservation (row) names *)
(* the attachments it keeps (Slots).  Each call of advance copies one of   *)
(* them in three parts: a transaction that takes a lease and writes the    *)
(* new key into the ledger, the copy in the object store with no lock      *)
(* held, and a transaction that adopts the copy if the lease still stands. *)
(* cleanup cancels a preservation or collects the copies nobody adopted.   *)
(* The store has no transactions: a PUT may be answered with an error and  *)
(* arrive later, a deletion may fail, and a process may die at any point.  *)
(*                                                                         *)
(* A transaction is one action: it locks the row, runs under REPEATABLE    *)
(* READ and is run again when it met a concurrent change.  The lease's     *)
(* token and the object's id are drawn together, so a key stands for both. *)
(* When a key was last swept is only reported, and left out.               *)
(***************************************************************************)
EXTENDS Naturals, FiniteSets

CONSTANTS Calls,      \* requests under way, and the processes that serve them
          Keys,       \* storage keys, one for each attempt to copy a file
          NSlots,     \* number of attachments selected
          None        \* no lease

ASSUME SlotsAssumption == NSlots \in Nat \ {0}
ASSUME NoneAssumption == None \notin Keys

Slots == 1 .. NSlots

VARIABLES row,        \* the preservation: its status and lease
          object,     \* the ledger: one row for each key, written before the copy
          changed,    \* slots whose attachment or document is no longer as planned
          store,      \* what the object store holds under each key
          late,       \* keys whose PUT was given up but may still arrive
          call        \* where each request is

vars == <<row, object, changed, store, late, call>>

Unused == [st |-> "unused", slot |-> 0]
Idle == [at |-> "idle", key |-> None, todo |-> {}]

Selected(k) == object[k].st = "selected"
Filled(s) == \E k \in Keys : Selected(k) /\ object[k].slot = s
Leased == row.lease # None /\ ~row.lapsed

Released(r) == [r EXCEPT !.lease = None, !.lapsed = FALSE]

Init ==
    /\ row = [st |-> "none", lease |-> None, lapsed |-> FALSE]
    /\ object = [k \in Keys |-> Unused]
    /\ changed = {}
    /\ store = [k \in Keys |-> "nothing"]
    /\ late = {}
    /\ call = [c \in Calls |-> Idle]

\* create: the plan was previewed, so every attachment is as it was then.  Sending the
\* request again finds the row.
Create ==
    /\ row.st = "none"
    /\ row' = [row EXCEPT !.st = "preparing"]
    /\ UNCHANGED <<object, changed, store, late, call>>

\* An attachment is deleted, or its document gets another version.
SourceChanges(s) ==
    /\ row.st # "none" /\ s \notin changed
    /\ changed' = changed \cup {s}
    /\ UNCHANGED <<row, object, store, late, call>>

LeaseLapses ==
    /\ Leased
    /\ row' = [row EXCEPT !.lapsed = TRUE]
    /\ UNCHANGED <<object, changed, store, late, call>>

-----------------------------------------------------------------------------
(* advance.                                                                 *)

NextSlot(s) == ~Filled(s) /\ \A r \in 1 .. s - 1 : Filled(r)
AbandonedLate(ks) == [k \in Keys |-> object[k]]      \* mutation: reservations are left as they are
AbandonedAsFailed(ks) ==                             \* mutation: the status of the other table
    [k \in Keys |-> IF k \in ks /\ object[k].st = "reserved"
                    THEN [object[k] EXCEPT !.st = "failed"] ELSE object[k]]
Abandoned(ks) == [k \in Keys |-> IF k \in ks /\ object[k].st = "reserved"
                                 THEN [object[k] EXCEPT !.st = "abandoned"] ELSE object[k]]

\* _claim: refuses a live lease; what earlier attempts reserved is abandoned.
Claim(c, k, s) ==
    /\ call[c] = Idle /\ object[k] = Unused
    /\ row.st \in {"preparing", "failed"} /\ ~Leased
    /\ NextSlot(s) /\ s \notin changed
    /\ row' = [st |-> "preparing", lease |-> k, lapsed |-> FALSE]
    /\ object' = [Abandoned(Keys) EXCEPT ![k] = [st |-> "reserved", slot |-> s]]
    /\ call' = [call EXCEPT ![c] = [Idle EXCEPT !.at = "copy", !.key = k]]
    /\ UNCHANGED <<changed, store, late>>

Goes(c, at) == call' = [call EXCEPT ![c].at = at]

\* upload_private_object was answered; the object may be damaged.
Copy(c) ==
    /\ call[c].at = "copy"
    /\ \E content \in {"copy", "damaged"} : store' = [store EXCEPT ![call[c].key] = content]
    /\ Goes(c, "compare")
    /\ UNCHANGED <<row, object, changed, late>>

\* The original cannot be read, or the PUT times out and may yet arrive.
CopyFails(c) ==
    /\ call[c].at = "copy"
    /\ late' \in {late, late \cup {call[c].key}}
    /\ Goes(c, "fail")
    /\ UNCHANGED <<row, object, changed, store>>

\* The copy is read back and its hash compared.
Compare(c) ==
    /\ call[c].at = "compare"
    /\ \/ store[call[c].key] = "copy" /\ Goes(c, "publish")
       \/ Goes(c, "fail")
    /\ UNCHANGED <<row, object, changed, store, late>>

\* The trigger on the ledger's rows: an adoption of an abandoned or overtaken attempt fails.
Guarded(k) == object[k].st # "abandoned" /\ row.st = "preparing" /\ row.lease = k

\* The conditions of _publish, and the trigger behind them.
MayPublish(k) ==
    /\ row.st = "preparing" /\ row.lease = k /\ ~row.lapsed
    /\ object[k].slot \notin changed
    /\ Guarded(k)

\* The last file also completes the preservation.
CompletedBefore(k) == \A s \in Slots : Filled(s)     \* mutation: counted before the flush
Completed(k) ==
    \A s \in Slots : s = object[k].slot \/ Filled(s)

\* _publish; the answer to the commit may be lost, and the call then goes on as if
\* it had failed.
Publish(c) ==
    LET k == call[c].key
    IN  /\ call[c].at = "publish" /\ MayPublish(k)
        /\ object' = [object EXCEPT ![k].st = "selected"]
        /\ row' = [Released(row) EXCEPT !.st = IF Completed(k) THEN "ready" ELSE "preparing"]
        /\ \/ call' = [call EXCEPT ![c] = Idle]
           \/ Goes(c, "fail")
        /\ UNCHANGED <<changed, store, late>>

\* The lease was lost, the source changed, or the user may no longer write.
PublishFails(c) ==
    /\ call[c].at = "publish"
    /\ Goes(c, "fail")
    /\ UNCHANGED <<row, object, changed, store, late>>

\* _fail: the key is given up, and the lease if it is still this call's.
Fail(c) ==
    LET k == call[c].key
    IN  /\ call[c].at = "fail"
        /\ object' = Abandoned({k})
        /\ row' = IF row.st = "preparing" /\ row.lease = k
                  THEN [Released(row) EXCEPT !.st = "failed"] ELSE row
        /\ call' = [call EXCEPT ![c] = [Idle EXCEPT !.at = "sweep", !.todo = {k}]]
        /\ UNCHANGED <<changed, store, late>>

\* The ledger cannot be written: the failure is logged and the sweep tried all the same.
FailIsLost(c) ==
    /\ call[c].at = "fail"
    /\ call' = [call EXCEPT ![c] = [Idle EXCEPT !.at = "sweep", !.todo = {call[c].key}]]
    /\ UNCHANGED <<row, object, changed, store, late>>

-----------------------------------------------------------------------------
(* cleanup, and the sweep of one key.                                       *)

Cancellable == row.st \in {"preparing", "failed", "cancelled"}

\* What is collected, given the ledger and the status the transaction leaves.
CollectableUnadopted(o, st, k) ==                    \* mutation: attempts under way are taken
    o[k] # Unused /\ (st = "cancelled" \/ o[k].st # "selected")
Collectable(o, st, k) == o[k] # Unused /\ (st = "cancelled" \/ o[k].st = "abandoned")

\* cleanup: cancels if asked; reservations without a live lease are abandoned.
Cleanup(c, cancel) ==
    /\ call[c] = Idle /\ row.st # "none"
    /\ cancel => Cancellable
    /\ row' = IF cancel /\ row.st # "cancelled"
              THEN [Released(row) EXCEPT !.st = "cancelled"] ELSE row
    /\ object' = IF row'.lease = None \/ row'.lapsed THEN Abandoned(Keys) ELSE object
    /\ call' = [call EXCEPT ![c] = [Idle EXCEPT !.at = "sweep",
                    !.todo = {k \in Keys : Collectable(object', row'.st, k)}]]
    /\ UNCHANGED <<changed, store, late>>

\* _cleanup_one, first transaction: looks again, then lets go of the lock.  A key that is
\* no longer to be collected, or a ledger that cannot be read, ends it there.
Sweep(c, k) ==
    /\ call[c].at = "sweep" /\ k \in call[c].todo
    /\ LET left == call[c].todo \ {k}
       IN  \/ /\ Collectable(object, row.st, k)
              /\ call' = [call EXCEPT ![c] = [at |-> "delete", key |-> k, todo |-> left]]
           \/ call' = [call EXCEPT ![c].todo = left]
    /\ UNCHANGED <<row, object, changed, store, late>>

\* delete_object: it may fail, and the sweep goes on with the next key.
Delete(c) ==
    /\ call[c].at = "delete"
    /\ store' \in {store, [store EXCEPT ![call[c].key] = "nothing"]}
    /\ call' = [call EXCEPT ![c].at = "sweep", ![c].key = None]
    /\ UNCHANGED <<row, object, changed, late>>

Done(c) ==
    /\ call[c].at = "sweep" /\ call[c].todo = {}
    /\ call' = [call EXCEPT ![c] = Idle]
    /\ UNCHANGED <<row, object, changed, store, late>>

-----------------------------------------------------------------------------
(* The store and the machine.                                               *)

PutArrives(k) ==
    /\ k \in late
    /\ late' = late \ {k}
    /\ \E content \in {"copy", "damaged"} : store' = [store EXCEPT ![k] = content]
    /\ UNCHANGED <<row, object, changed, call>>

\* The process of a call dies; a PUT it had sent may still arrive.
Crash(c) ==
    /\ call[c].at # "idle"
    /\ late' \in IF call[c].at = "copy" THEN {late, late \cup {call[c].key}} ELSE {late}
    /\ call' = [call EXCEPT ![c] = Idle]
    /\ UNCHANGED <<row, object, changed, store>>

Next ==
    \/ Create \/ LeaseLapses
    \/ \E s \in Slots : SourceChanges(s)
    \/ \E k \in Keys : PutArrives(k)
    \/ \E c \in Calls :
          \/ Copy(c) \/ CopyFails(c) \/ Compare(c) \/ Publish(c) \/ PublishFails(c)
          \/ Fail(c) \/ FailIsLost(c) \/ Delete(c) \/ Done(c) \/ Crash(c)
          \/ \E k \in Keys, s \in Slots : Claim(c, k, s)
          \/ \E cancel \in BOOLEAN : Cleanup(c, cancel)
          \/ \E k \in Keys : Sweep(c, k)

Spec == Init /\ [][Next]_vars

-----------------------------------------------------------------------------
(* Properties.                                                              *)

\* Type invariant.
TypeOK ==
    /\ row \in [st : {"none", "preparing", "ready", "failed", "cancelled"},
                lease : Keys \cup {None}, lapsed : BOOLEAN]
    /\ object \in [Keys -> {Unused} \cup
                      [st : {"reserved", "selected", "abandoned"}, slot : Slots]]
    /\ changed \subseteq Slots
    /\ store \in [Keys -> {"nothing", "copy", "damaged"}]
    /\ late \subseteq Keys
    /\ call \in [Calls ->
                    [at : {"idle", "copy", "compare", "publish", "fail", "sweep", "delete"},
                     key : Keys \cup {None}, todo : SUBSET Keys]]

\* The copy of an adopted file is in the store and intact for as long as the preservation
\* is not cancelled, whatever sweeps, lapsed leases and late PUTs go on around it
\* (_publish, _cleanup_one).
AdoptedCopyIsKept ==
    row.st # "cancelled" => \A k \in Keys : Selected(k) => store[k] = "copy"

\* An attachment is adopted once, also when a call whose lease was taken over comes
\* back with its copy (_claim, _publish, uq_artifact_preservation_selected).
OneCopyPerSlot ==
    \A k, j \in Keys :
        (Selected(k) /\ Selected(j) /\ object[k].slot = object[j].slot) => k = j

\* A preservation is ready exactly when every attachment has its copy, so that an
\* unfinished one always has a next file for _claim to take.
ReadyMeansComplete ==
    row.st # "cancelled" => (row.st = "ready" <=> \A s \in Slots : Filled(s))

\* No copy is forgotten: what is in the store or may still arrive there, and is not part
\* of the preservation, is of a key in the ledger which belongs to the attempt that holds
\* the lease or which the next cleanup collects (_claim, _fail, cleanup).
LeftoverIsCollectable ==
    \A k \in Keys : (store[k] # "nothing" \/ k \in late) =>
        \/ row.st = "cancelled" /\ object[k] # Unused
        \/ object[k].st \in {"selected", "abandoned"}
        \/ object[k].st = "reserved" /\ (row.lease \in {None, k} \/ row.lapsed)

\* A ready preservation and a cancelled one stay as they are, and the files adopted
\* so far stay adopted (guard_artifact_preservation; the late result of a cancelled or
\* overtaken attempt is refused).
SealedOnceDecided ==
    [][/\ (row.st = "ready") => (row' = row)
       /\ (row.st = "cancelled") => (row'.st = "cancelled")
       /\ \A k \in Keys :
             /\ Selected(k) => (object'[k] = object[k])
             /\ (row.st \in {"ready", "cancelled"} /\ Selected(k)') => Selected(k)]_vars
=============================================================================
