---------------------------- MODULE KeptCopies_proofs ----------------------------
(***************************************************************************)
(* Proofs about the copies of files that are kept, and what is judged by   *)
(* them, for any number of calls, files, copies and requests: every        *)
(* behaviour of MCKeptCopies is one of ArtifactPreservation, of            *)
(* VerificationEvidence or of VerificationJudgement, so that the inductive *)
(* invariant is the conjunction of theirs.                                 *)
(***************************************************************************)
EXTENDS MCKeptCopies, Sequences, FiniteSetTheorems, TLAPS

\* What the constants must satisfy: null is no request and no call, and sources have a
\* version.
ESensible == None \notin Keys /\ MaxSource \in Nat \ {0}
JSensible == None \notin Requests \cup Calls /\ MaxVersion \in Nat \ {0}
Sensible == ESensible /\ JSensible

-----------------------------------------------------------------------------
(* ArtifactPreservation.  Every key has one owner: a reserved key is the one*)
(* the lease names, the call that holds a key is alone with it until it     *)
(* fails or publishes, a PUT that may still arrive is of a key nobody holds,*)
(* and a deletion under way is of a key that can never be adopted again.    *)

Holds(c) == call[c].at \in {"copy", "compare", "publish"}

\* The lease is of a preservation under way, for an attachment not yet adopted.
LeaseIsOpen ==
    row.lease # None =>
        /\ row.st = "preparing" /\ object[row.lease] # Unused
        /\ \A k \in Keys : Selected(k) => object[k].slot # object[row.lease].slot

\* Only the attempt the lease names is still reserved.
ReservedIsLeased == \A k \in Keys : object[k].st = "reserved" => row.lease = k

\* A call works on a key of the ledger, alone, and one that is not adopted yet.
HandsOnLedger ==
    \A c \in Calls : (Holds(c) \/ call[c].at = "fail") =>
        call[c].key \in Keys /\ object[call[c].key] # Unused
HandsAlone ==
    \A c, d \in Calls : (Holds(c) /\ Holds(d) /\ call[c].key = call[d].key) => c = d
HandsUnadopted == \A c \in Calls : Holds(c) => ~Selected(call[c].key)

\* What was read back and compared is still there, unless the attempt was abandoned.
ComparedIsKept ==
    \A c \in Calls : (call[c].at = "publish" /\ object[call[c].key].st = "reserved") =>
        store[call[c].key] = "copy"

\* A PUT that may still arrive is of a given-up key.
LateIsGivenUp ==
    \A k \in late : /\ object[k] # Unused /\ ~Selected(k)
                     /\ \A c \in Calls : Holds(c) => call[c].key # k

\* A deletion is of a key which no call can adopt any more.
DeletedIsGivenUp ==
    \A c \in Calls : call[c].at = "delete" =>
        call[c].key \in Keys /\ Collectable(object, row.st, call[c].key)

\* The ledger is written before the store.
LedgerFirst == \A k \in Keys : store[k] # "nothing" => object[k] # Unused

IInv == /\ TypeOK /\ LeaseIsOpen /\ ReservedIsLeased
        /\ HandsOnLedger /\ HandsAlone /\ HandsUnadopted /\ ComparedIsKept
        /\ LateIsGivenUp /\ DeletedIsGivenUp /\ LedgerFirst
        /\ AdoptedCopyIsKept /\ OneCopyPerSlot /\ ReadyMeansComplete

-----------------------------------------------------------------------------
(* The invariant is kept by every action.  The first steps of a lemma list   *)
(* what the action does not disturb.                                       *)


\* create: a preservation starts with an empty ledger and no lease.
LEMMA KeepCreate ==
    ASSUME IInv, Create
    PROVE  IInv'
<1>. USE SlotsAssumption, NoneAssumption DEF Slots
<1>. USE DEF IInv, Create
<1>1. TypeOK' /\ LeaseIsOpen' /\ ReservedIsLeased' /\ HandsOnLedger'
  BY DEF TypeOK, Unused, LeaseIsOpen, ReservedIsLeased, HandsOnLedger, Selected, Holds
<1>2. HandsAlone' /\ HandsUnadopted' /\ ComparedIsKept' /\ LateIsGivenUp'
  BY DEF TypeOK, Unused, HandsAlone, HandsUnadopted, ComparedIsKept, LateIsGivenUp,
         Holds, Selected
<1>3. DeletedIsGivenUp' /\ LedgerFirst' /\ AdoptedCopyIsKept' /\ OneCopyPerSlot'
  BY DEF TypeOK, Unused, DeletedIsGivenUp, LedgerFirst, AdoptedCopyIsKept,
         OneCopyPerSlot, Collectable, Selected
<1>4. ReadyMeansComplete'
  BY DEF TypeOK, Unused, ReadyMeansComplete, Filled, Selected
<1>. QED  BY <1>1, <1>2, <1>3, <1>4

\* A lapsed lease keeps its name, so its reservation still has an owner.
LEMMA KeepLeaseLapses ==
    ASSUME IInv, LeaseLapses
    PROVE  IInv'
<1>. USE SlotsAssumption, NoneAssumption DEF Slots
<1>. USE DEF IInv, LeaseLapses, Leased
<1>1. TypeOK' /\ LeaseIsOpen' /\ ReservedIsLeased' /\ HandsOnLedger'
  BY DEF TypeOK, Unused, LeaseIsOpen, ReservedIsLeased, HandsOnLedger, Selected, Holds
<1>2. HandsAlone' /\ HandsUnadopted' /\ ComparedIsKept' /\ LateIsGivenUp'
  BY DEF TypeOK, Unused, HandsAlone, HandsUnadopted, ComparedIsKept, LateIsGivenUp,
         Holds, Selected
<1>3. DeletedIsGivenUp' /\ LedgerFirst' /\ AdoptedCopyIsKept' /\ OneCopyPerSlot'
  BY DEF TypeOK, Unused, DeletedIsGivenUp, LedgerFirst, AdoptedCopyIsKept,
         OneCopyPerSlot, Collectable, Selected
<1>4. ReadyMeansComplete'
  BY DEF TypeOK, Unused, ReadyMeansComplete, Filled, Selected
<1>. QED  BY <1>1, <1>2, <1>3, <1>4

\* A changed source touches neither ledger nor store.
LEMMA KeepSourceChanges ==
    ASSUME IInv, NEW s \in Slots, SourceChanges(s)
    PROVE  IInv'
<1>. USE SlotsAssumption, NoneAssumption DEF Slots
<1>. USE DEF IInv, SourceChanges
<1>1. TypeOK' /\ LeaseIsOpen' /\ ReservedIsLeased' /\ HandsOnLedger'
  BY DEF TypeOK, Unused, LeaseIsOpen, ReservedIsLeased, HandsOnLedger, Selected, Holds
<1>2. HandsAlone' /\ HandsUnadopted' /\ ComparedIsKept' /\ LateIsGivenUp'
  BY DEF TypeOK, Unused, HandsAlone, HandsUnadopted, ComparedIsKept, LateIsGivenUp,
         Holds, Selected
<1>3. DeletedIsGivenUp' /\ LedgerFirst' /\ AdoptedCopyIsKept' /\ OneCopyPerSlot'
  BY DEF TypeOK, Unused, DeletedIsGivenUp, LedgerFirst, AdoptedCopyIsKept,
         OneCopyPerSlot, Collectable, Selected
<1>4. ReadyMeansComplete'
  BY DEF TypeOK, Unused, ReadyMeansComplete, Filled, Selected
<1>. QED  BY <1>1, <1>2, <1>3, <1>4

\* A late PUT arrives under a given-up key: no adopted or compared copy is hit.
LEMMA KeepPutArrives ==
    ASSUME IInv, NEW k \in Keys, PutArrives(k)
    PROVE  IInv'
<1>. USE SlotsAssumption, NoneAssumption DEF Slots
<1>. USE DEF IInv, PutArrives
<1>1. TypeOK' /\ LeaseIsOpen' /\ ReservedIsLeased' /\ HandsOnLedger'
  BY DEF TypeOK, Unused, LeaseIsOpen, ReservedIsLeased, HandsOnLedger, Selected, Holds
<1>2. HandsAlone' /\ HandsUnadopted' /\ LateIsGivenUp' /\ DeletedIsGivenUp'
  BY DEF TypeOK, Unused, HandsAlone, HandsUnadopted, LateIsGivenUp, DeletedIsGivenUp,
         Holds, Selected, Collectable
<1>3. OneCopyPerSlot' /\ ReadyMeansComplete'
  BY DEF TypeOK, Unused, OneCopyPerSlot, ReadyMeansComplete, Selected, Filled
<1>4. ComparedIsKept'
  BY DEF TypeOK, Unused, ComparedIsKept, HandsOnLedger, HandsAlone, HandsUnadopted,
         DeletedIsGivenUp, LateIsGivenUp, Collectable, Holds, Selected
<1>5. LedgerFirst'
  BY DEF TypeOK, Unused, LedgerFirst, HandsOnLedger, HandsAlone, HandsUnadopted,
         ComparedIsKept, DeletedIsGivenUp, LateIsGivenUp, Collectable, Holds, Selected
<1>6. AdoptedCopyIsKept'
  BY DEF TypeOK, Unused, AdoptedCopyIsKept, Selected, HandsOnLedger, HandsAlone,
         HandsUnadopted, ComparedIsKept, DeletedIsGivenUp, LateIsGivenUp, Collectable,
         Holds
<1>. QED  BY <1>1, <1>2, <1>3, <1>4, <1>5, <1>6

\* The copy is written under the key the call holds alone.
LEMMA KeepCopy ==
    ASSUME IInv, NEW c \in Calls, Copy(c)
    PROVE  IInv'
<1>. USE SlotsAssumption, NoneAssumption DEF Slots
<1>. USE DEF IInv, Copy, Goes
<1>1. LeaseIsOpen' /\ ReservedIsLeased' /\ HandsOnLedger' /\ HandsAlone'
  BY DEF TypeOK, Unused, LeaseIsOpen, ReservedIsLeased, HandsOnLedger, HandsAlone,
         Selected, Holds
<1>2. HandsUnadopted' /\ LateIsGivenUp' /\ DeletedIsGivenUp' /\ OneCopyPerSlot'
  BY DEF TypeOK, Unused, HandsUnadopted, LateIsGivenUp, DeletedIsGivenUp, OneCopyPerSlot,
         Holds, Selected, Collectable
<1>3. ReadyMeansComplete'
  BY DEF TypeOK, Unused, ReadyMeansComplete, Filled, Selected
<1>4. TypeOK'
  BY DEF TypeOK, Unused, HandsOnLedger, HandsAlone, HandsUnadopted, ComparedIsKept,
         DeletedIsGivenUp, LateIsGivenUp, Collectable, Holds, Selected
<1>5. ComparedIsKept'
  BY DEF TypeOK, Unused, ComparedIsKept, HandsOnLedger, HandsAlone, HandsUnadopted,
         DeletedIsGivenUp, LateIsGivenUp, Collectable, Holds, Selected
<1>6. LedgerFirst'
  BY DEF TypeOK, Unused, LedgerFirst, HandsOnLedger, HandsAlone, HandsUnadopted,
         ComparedIsKept, DeletedIsGivenUp, LateIsGivenUp, Collectable, Holds, Selected
<1>7. AdoptedCopyIsKept'
  BY DEF TypeOK, Unused, AdoptedCopyIsKept, Selected, HandsOnLedger, HandsAlone,
         HandsUnadopted, ComparedIsKept, DeletedIsGivenUp, LateIsGivenUp, Collectable,
         Holds
<1>. QED  BY <1>1, <1>2, <1>3, <1>4, <1>5, <1>6, <1>7

\* An attempt gives its key up before its PUT can be late.
LEMMA KeepCopyFails ==
    ASSUME IInv, NEW c \in Calls, CopyFails(c)
    PROVE  IInv'
<1>. USE SlotsAssumption, NoneAssumption DEF Slots
<1>. USE DEF IInv, CopyFails, Goes
<1>1. LeaseIsOpen' /\ ReservedIsLeased' /\ HandsOnLedger' /\ HandsAlone'
  BY DEF TypeOK, Unused, LeaseIsOpen, ReservedIsLeased, HandsOnLedger, HandsAlone,
         Selected, Holds
<1>2. HandsUnadopted' /\ ComparedIsKept' /\ DeletedIsGivenUp' /\ LedgerFirst'
  BY DEF TypeOK, Unused, HandsUnadopted, ComparedIsKept, DeletedIsGivenUp, LedgerFirst,
         Holds, Selected, Collectable
<1>3. AdoptedCopyIsKept' /\ OneCopyPerSlot' /\ ReadyMeansComplete'
  BY DEF TypeOK, Unused, AdoptedCopyIsKept, OneCopyPerSlot, ReadyMeansComplete, Selected,
         Filled
<1>4. TypeOK'
  BY DEF TypeOK, Unused, HandsOnLedger, HandsAlone, HandsUnadopted, ComparedIsKept,
         DeletedIsGivenUp, LateIsGivenUp, Collectable, Holds, Selected
<1>5. LateIsGivenUp'
  BY DEF TypeOK, Unused, LateIsGivenUp, Holds, Selected, HandsOnLedger, HandsAlone,
         HandsUnadopted, ComparedIsKept, DeletedIsGivenUp, Collectable
<1>. QED  BY <1>1, <1>2, <1>3, <1>4, <1>5

\* What is compared stays under a key nobody else writes.
LEMMA KeepCompare ==
    ASSUME IInv, NEW c \in Calls, Compare(c)
    PROVE  IInv'
<1>. USE SlotsAssumption, NoneAssumption DEF Slots
<1>. USE DEF IInv, Compare, Goes
<1>1. TypeOK' /\ LeaseIsOpen'
  BY DEF TypeOK, Unused, LeaseIsOpen, Selected
<1>2. ReservedIsLeased' /\ HandsOnLedger'
  BY DEF TypeOK, Unused, ReservedIsLeased, HandsOnLedger, Holds
<1>3. HandsAlone' /\ HandsUnadopted'
  BY DEF TypeOK, Unused, HandsAlone, HandsUnadopted, Holds, Selected
<1>4. ComparedIsKept' /\ LateIsGivenUp'
  BY DEF TypeOK, Unused, ComparedIsKept, LateIsGivenUp, Holds, Selected
<1>5. DeletedIsGivenUp' /\ LedgerFirst'
  BY DEF TypeOK, Unused, DeletedIsGivenUp, LedgerFirst, Collectable
<1>6. AdoptedCopyIsKept' /\ OneCopyPerSlot'
  BY DEF TypeOK, Unused, AdoptedCopyIsKept, OneCopyPerSlot, Selected
<1>7. ReadyMeansComplete'
  BY DEF TypeOK, Unused, ReadyMeansComplete, Filled, Selected
<1>. QED  BY <1>1, <1>2, <1>3, <1>4, <1>5, <1>6, <1>7

\* _publish: the leased key's copy was compared and is still there, and its slot is free.
LEMMA KeepPublish ==
    ASSUME IInv, NEW c \in Calls, Publish(c)
    PROVE  IInv'
<1>. USE SlotsAssumption, NoneAssumption DEF Slots
<1>. DEFINE k == call[c].key
<1>1. /\ k \in Keys /\ object[k].st = "reserved" /\ object[k].slot \in Slots
      /\ row.st = "preparing" /\ row.lease = k /\ store[k] = "copy"
  BY DEF IInv, Publish, MayPublish, Guarded, TypeOK, Unused, HandsOnLedger, HandsUnadopted, Holds,
         Selected, ComparedIsKept
<1>2. \A j \in Keys : Selected(j) => object[j].slot # object[k].slot
  BY <1>1 DEF IInv, LeaseIsOpen, TypeOK
<1>3. /\ \A d \in Calls : d # c => call'[d] = call[d]
      /\ call'[c].at \in {"idle", "fail"}
      /\ call'[c].at = "fail" => call'[c].key = k
  <2>1. CASE call' = [call EXCEPT ![c] = Idle]
    BY <2>1 DEF IInv, TypeOK, Idle
  <2>2. CASE Goes(c, "fail")
    BY <2>2 DEF IInv, TypeOK, Goes
  <2>. QED  BY <2>1, <2>2 DEF Publish
<1>4. call' \in [Calls ->
                    [at : {"idle", "copy", "compare", "publish", "fail", "sweep", "delete"},
                     key : Keys \cup {None}, todo : SUBSET Keys]]
  <2>1. CASE call' = [call EXCEPT ![c] = Idle]
    BY <2>1 DEF IInv, TypeOK, Idle
  <2>2. CASE Goes(c, "fail")
    BY <2>2 DEF IInv, TypeOK, Goes
  <2>. QED  BY <2>1, <2>2 DEF Publish
<1>5. /\ object' = [object EXCEPT ![k].st = "selected"]
      /\ object' \in [Keys -> {Unused} \cup
                         [st : {"reserved", "selected", "abandoned"}, slot : Slots]]
      /\ object'[k] = [st |-> "selected", slot |-> object[k].slot]
      /\ \A j \in Keys : j # k => object'[j] = object[j]
  BY <1>1 DEF IInv, TypeOK, Publish, Unused
<1>6. /\ row' = [st |-> IF Completed(k) THEN "ready" ELSE "preparing",
                 lease |-> None, lapsed |-> FALSE]
      /\ store' = store /\ late' = late /\ changed' = changed
  BY DEF IInv, TypeOK, Publish, Released
<1>7. TypeOK'
  BY <1>4, <1>5, <1>6 DEF IInv, TypeOK
<1>8. LeaseIsOpen' /\ ReservedIsLeased'
  BY <1>1, <1>5, <1>6 DEF IInv, LeaseIsOpen, ReservedIsLeased
<1>9. HandsOnLedger' /\ HandsAlone' /\ HandsUnadopted'
  BY <1>1, <1>3, <1>5 DEF IInv, HandsOnLedger, HandsAlone, HandsUnadopted, Holds, Selected,
         Unused, Publish
<1>10. ComparedIsKept'
  BY <1>1, <1>3, <1>5, <1>6 DEF IInv, ComparedIsKept, HandsOnLedger, Holds
<1>11. LateIsGivenUp'
  BY <1>1, <1>3, <1>5, <1>6 DEF IInv, LateIsGivenUp, TypeOK, Holds, Selected, Unused, Publish
<1>12. DeletedIsGivenUp' /\ LedgerFirst'
  <2>1. DeletedIsGivenUp'
    BY <1>1, <1>3, <1>5, <1>6 DEF IInv, DeletedIsGivenUp, Collectable, Unused
  <2>2. LedgerFirst'
    BY <1>1, <1>5, <1>6 DEF IInv, LedgerFirst, Unused
  <2>. QED  BY <2>1, <2>2
<1>13. AdoptedCopyIsKept'
  BY <1>1, <1>5, <1>6 DEF IInv, AdoptedCopyIsKept, Selected
<1>14. OneCopyPerSlot'
  BY <1>1, <1>2, <1>5 DEF IInv, OneCopyPerSlot, Selected
<1>15. ReadyMeansComplete'
  BY <1>1, <1>2, <1>5, <1>6 DEF ReadyMeansComplete, Completed, Filled, Selected
<1>. QED  BY <1>7, <1>8, <1>9, <1>10, <1>11, <1>12, <1>13, <1>14, <1>15 DEF IInv

\* An attempt that is not adopted goes on to give its key up.
LEMMA KeepPublishFails ==
    ASSUME IInv, NEW c \in Calls, PublishFails(c)
    PROVE  IInv'
<1>. USE SlotsAssumption, NoneAssumption DEF Slots
<1>. USE DEF IInv, PublishFails, Goes
<1>1. TypeOK' /\ LeaseIsOpen' /\ ReservedIsLeased' /\ HandsOnLedger'
  BY DEF TypeOK, Unused, LeaseIsOpen, ReservedIsLeased, HandsOnLedger, Selected, Holds
<1>2. HandsAlone' /\ HandsUnadopted' /\ ComparedIsKept' /\ LateIsGivenUp'
  BY DEF TypeOK, Unused, HandsAlone, HandsUnadopted, ComparedIsKept, LateIsGivenUp,
         Holds, Selected
<1>3. DeletedIsGivenUp' /\ LedgerFirst' /\ AdoptedCopyIsKept' /\ OneCopyPerSlot'
  BY DEF TypeOK, Unused, DeletedIsGivenUp, LedgerFirst, AdoptedCopyIsKept,
         OneCopyPerSlot, Collectable, Selected
<1>4. ReadyMeansComplete'
  BY DEF TypeOK, Unused, ReadyMeansComplete, Filled, Selected
<1>. QED  BY <1>1, <1>2, <1>3, <1>4

\* _fail abandons its own reservation and gives back only its own lease.
LEMMA KeepFail ==
    ASSUME IInv, NEW c \in Calls, Fail(c)
    PROVE  IInv'
<1>. USE SlotsAssumption, NoneAssumption DEF Slots
<1>. USE DEF IInv, Fail, Abandoned, Released, Idle
<1>1. LeaseIsOpen' /\ ReservedIsLeased' /\ HandsOnLedger' /\ HandsAlone'
  BY DEF TypeOK, Unused, LeaseIsOpen, ReservedIsLeased, HandsOnLedger, HandsAlone,
         Selected, Holds
<1>2. LateIsGivenUp' /\ DeletedIsGivenUp' /\ LedgerFirst' /\ AdoptedCopyIsKept'
  BY DEF TypeOK, Unused, LateIsGivenUp, DeletedIsGivenUp, LedgerFirst, AdoptedCopyIsKept,
         Holds, Selected, Collectable
<1>3. OneCopyPerSlot' /\ ReadyMeansComplete'
  BY DEF TypeOK, Unused, OneCopyPerSlot, ReadyMeansComplete, Selected, Filled
<1>4. TypeOK'
  <2>1. row' \in [st : {"none", "preparing", "ready", "failed", "cancelled"},
                lease : Keys \cup {None}, lapsed : BOOLEAN]
    BY DEF TypeOK, HandsOnLedger
  <2>2. object' \in [Keys -> {Unused} \cup
                      [st : {"reserved", "selected", "abandoned"}, slot : Slots]]
    BY DEF TypeOK, Unused
  <2>3. call' \in [Calls ->
                 [at : {"idle", "copy", "compare", "publish", "fail", "sweep", "delete"},
                  key : Keys \cup {None}, todo : SUBSET Keys]]
    BY DEF TypeOK, HandsOnLedger
  <2>. QED  BY <2>1, <2>2, <2>3 DEF TypeOK
<1>5. HandsUnadopted'
  BY DEF TypeOK, Unused, HandsUnadopted, Holds, Selected, HandsOnLedger, HandsAlone,
         ComparedIsKept, DeletedIsGivenUp, LateIsGivenUp, Collectable
<1>6. ComparedIsKept'
  BY DEF TypeOK, Unused, ComparedIsKept, HandsOnLedger, HandsAlone, HandsUnadopted,
         DeletedIsGivenUp, LateIsGivenUp, Collectable, Holds, Selected
<1>. QED  BY <1>1, <1>2, <1>3, <1>4, <1>5, <1>6

\* If the failure cannot be recorded, the reservation keeps its lease.
LEMMA KeepFailIsLost ==
    ASSUME IInv, NEW c \in Calls, FailIsLost(c)
    PROVE  IInv'
<1>. USE SlotsAssumption, NoneAssumption DEF Slots
<1>. USE DEF IInv, FailIsLost, Idle
<1>1. LeaseIsOpen' /\ ReservedIsLeased' /\ HandsOnLedger' /\ HandsAlone'
  BY DEF TypeOK, Unused, LeaseIsOpen, ReservedIsLeased, HandsOnLedger, HandsAlone,
         Selected, Holds
<1>2. HandsUnadopted' /\ ComparedIsKept' /\ LateIsGivenUp' /\ DeletedIsGivenUp'
  BY DEF TypeOK, Unused, HandsUnadopted, ComparedIsKept, LateIsGivenUp, DeletedIsGivenUp,
         Holds, Selected, Collectable
<1>3. LedgerFirst' /\ AdoptedCopyIsKept' /\ OneCopyPerSlot' /\ ReadyMeansComplete'
  BY DEF TypeOK, Unused, LedgerFirst, AdoptedCopyIsKept, OneCopyPerSlot,
         ReadyMeansComplete, Selected, Filled
<1>4. TypeOK'
  BY DEF TypeOK, Unused, HandsOnLedger, HandsAlone, HandsUnadopted, ComparedIsKept,
         DeletedIsGivenUp, LateIsGivenUp, Collectable, Holds, Selected
<1>. QED  BY <1>1, <1>2, <1>3, <1>4

\* A deletion hits a key that can no longer be adopted.
LEMMA KeepDelete ==
    ASSUME IInv, NEW c \in Calls, Delete(c)
    PROVE  IInv'
<1>. USE SlotsAssumption, NoneAssumption DEF Slots
<1>. USE DEF IInv, Delete
<1>1. LeaseIsOpen' /\ ReservedIsLeased' /\ HandsOnLedger' /\ HandsAlone'
  BY DEF TypeOK, Unused, LeaseIsOpen, ReservedIsLeased, HandsOnLedger, HandsAlone,
         Selected, Holds
<1>2. HandsUnadopted' /\ ComparedIsKept' /\ LateIsGivenUp' /\ DeletedIsGivenUp'
  BY DEF TypeOK, Unused, HandsUnadopted, ComparedIsKept, LateIsGivenUp, DeletedIsGivenUp,
         Holds, Selected, Collectable
<1>3. LedgerFirst' /\ AdoptedCopyIsKept' /\ OneCopyPerSlot' /\ ReadyMeansComplete'
  BY DEF TypeOK, Unused, LedgerFirst, AdoptedCopyIsKept, OneCopyPerSlot,
         ReadyMeansComplete, Selected, Filled
<1>4. TypeOK'
  BY DEF TypeOK, Unused, HandsOnLedger, HandsAlone, HandsUnadopted, ComparedIsKept,
         DeletedIsGivenUp, LateIsGivenUp, Collectable, Holds, Selected
<1>. QED  BY <1>1, <1>2, <1>3, <1>4

\* A sweep that is over changes nothing.
LEMMA KeepDone ==
    ASSUME IInv, NEW c \in Calls, Done(c)
    PROVE  IInv'
<1>. USE SlotsAssumption, NoneAssumption DEF Slots
<1>. USE DEF IInv, Done, Idle
<1>1. TypeOK' /\ LeaseIsOpen' /\ ReservedIsLeased' /\ HandsOnLedger'
  BY DEF TypeOK, Unused, LeaseIsOpen, ReservedIsLeased, HandsOnLedger, Selected, Holds
<1>2. HandsAlone' /\ HandsUnadopted' /\ ComparedIsKept' /\ LateIsGivenUp'
  BY DEF TypeOK, Unused, HandsAlone, HandsUnadopted, ComparedIsKept, LateIsGivenUp,
         Holds, Selected
<1>3. DeletedIsGivenUp' /\ LedgerFirst' /\ AdoptedCopyIsKept' /\ OneCopyPerSlot'
  BY DEF TypeOK, Unused, DeletedIsGivenUp, LedgerFirst, AdoptedCopyIsKept,
         OneCopyPerSlot, Collectable, Selected
<1>4. ReadyMeansComplete'
  BY DEF TypeOK, Unused, ReadyMeansComplete, Filled, Selected
<1>. QED  BY <1>1, <1>2, <1>3, <1>4

\* A crash forgets the call; ledger and store stay, and its PUT may be late.
LEMMA KeepCrash ==
    ASSUME IInv, NEW c \in Calls, Crash(c)
    PROVE  IInv'
<1>. USE SlotsAssumption, NoneAssumption DEF Slots
<1>. USE DEF IInv, Crash, Idle
<1>1. LeaseIsOpen' /\ ReservedIsLeased' /\ HandsOnLedger' /\ HandsAlone'
  BY DEF TypeOK, Unused, LeaseIsOpen, ReservedIsLeased, HandsOnLedger, HandsAlone,
         Selected, Holds
<1>2. HandsUnadopted' /\ ComparedIsKept' /\ DeletedIsGivenUp' /\ LedgerFirst'
  BY DEF TypeOK, Unused, HandsUnadopted, ComparedIsKept, DeletedIsGivenUp, LedgerFirst,
         Holds, Selected, Collectable
<1>3. AdoptedCopyIsKept' /\ OneCopyPerSlot' /\ ReadyMeansComplete'
  BY DEF TypeOK, Unused, AdoptedCopyIsKept, OneCopyPerSlot, ReadyMeansComplete, Selected,
         Filled
<1>4. TypeOK'
  BY DEF TypeOK, Unused, HandsOnLedger, HandsAlone, HandsUnadopted, ComparedIsKept,
         DeletedIsGivenUp, LateIsGivenUp, Collectable, Holds, Selected
<1>5. LateIsGivenUp'
  BY DEF TypeOK, Unused, LateIsGivenUp, Holds, Selected, HandsOnLedger, HandsAlone,
         HandsUnadopted, ComparedIsKept, DeletedIsGivenUp, Collectable
<1>. QED  BY <1>1, <1>2, <1>3, <1>4, <1>5

\* _claim: the new key is fresh, and every older reservation is abandoned.
LEMMA KeepClaim ==
    ASSUME IInv, NEW c \in Calls, NEW k \in Keys, NEW s \in Slots, Claim(c, k, s)
    PROVE  IInv'
<1>. USE SlotsAssumption, NoneAssumption DEF Slots
<1>. USE DEF IInv, Claim, Abandoned, Leased, NextSlot, Idle
<1>1. ReservedIsLeased' /\ HandsOnLedger' /\ LateIsGivenUp' /\ DeletedIsGivenUp'
  BY DEF TypeOK, Unused, ReservedIsLeased, HandsOnLedger, LateIsGivenUp,
         DeletedIsGivenUp, Holds, Selected, Collectable
<1>2. LedgerFirst' /\ AdoptedCopyIsKept' /\ OneCopyPerSlot'
  <2>1. LedgerFirst'
    BY DEF TypeOK, Unused, LedgerFirst
  <2>2. AdoptedCopyIsKept'
    BY DEF TypeOK, Unused, AdoptedCopyIsKept, Selected
  <2>3. OneCopyPerSlot'
    BY DEF TypeOK, Unused, OneCopyPerSlot, Selected
  <2>. QED  BY <2>1, <2>2, <2>3
<1>3. TypeOK'
  <2>1. row' \in [st : {"none", "preparing", "ready", "failed", "cancelled"},
                lease : Keys \cup {None}, lapsed : BOOLEAN]
    BY DEF TypeOK, HandsOnLedger
  <2>2. object' \in [Keys -> {Unused} \cup
                      [st : {"reserved", "selected", "abandoned"}, slot : Slots]]
    BY DEF TypeOK, Unused
  <2>3. call' \in [Calls ->
                 [at : {"idle", "copy", "compare", "publish", "fail", "sweep", "delete"},
                  key : Keys \cup {None}, todo : SUBSET Keys]]
    BY DEF TypeOK, HandsOnLedger
  <2>. QED  BY <2>1, <2>2, <2>3 DEF TypeOK
<1>4. LeaseIsOpen'
  BY DEF TypeOK, Unused, LeaseIsOpen, Selected, OneCopyPerSlot, ReservedIsLeased, Filled
<1>5. HandsAlone'
  BY DEF TypeOK, Unused, HandsAlone, Holds, HandsOnLedger, HandsUnadopted,
         ComparedIsKept, DeletedIsGivenUp, LateIsGivenUp, Collectable, Selected
<1>6. HandsUnadopted'
  BY DEF TypeOK, Unused, HandsUnadopted, Holds, Selected, HandsOnLedger, HandsAlone,
         ComparedIsKept, DeletedIsGivenUp, LateIsGivenUp, Collectable
<1>7. ComparedIsKept'
  BY DEF TypeOK, Unused, ComparedIsKept, HandsOnLedger, HandsAlone, HandsUnadopted,
         DeletedIsGivenUp, LateIsGivenUp, Collectable, Holds, Selected
<1>8. ReadyMeansComplete'
  <2>1. row.st \in {"preparing", "failed"} /\ row'.st = "preparing"
    OBVIOUS
  <2>2. ~Filled(s)
    OBVIOUS
  <2>3. \A j \in Keys : Selected(j)' => Selected(j) /\ object'[j].slot = object[j].slot
    BY DEF TypeOK, Unused, Selected
  <2>4. ~Filled(s)'
    BY <2>2, <2>3 DEF Filled
  <2>. QED  BY <2>1, <2>4 DEF ReadyMeansComplete
<1>. QED  BY <1>1, <1>2, <1>3, <1>4, <1>5, <1>6, <1>7, <1>8

\* cleanup gives up reservations only without a live lease.
LEMMA KeepCleanup ==
    ASSUME IInv, NEW c \in Calls, NEW cancel \in BOOLEAN, Cleanup(c, cancel)
    PROVE  IInv'
<1>. USE SlotsAssumption, NoneAssumption DEF Slots
<1>. USE DEF IInv, Cleanup, Abandoned, Cancellable, Released, Idle
<1>1. LeaseIsOpen' /\ ReservedIsLeased' /\ HandsOnLedger' /\ HandsAlone'
  BY DEF TypeOK, Unused, LeaseIsOpen, ReservedIsLeased, HandsOnLedger, HandsAlone,
         Selected, Holds
<1>2. LateIsGivenUp' /\ DeletedIsGivenUp' /\ LedgerFirst' /\ AdoptedCopyIsKept'
  BY DEF TypeOK, Unused, LateIsGivenUp, DeletedIsGivenUp, LedgerFirst, AdoptedCopyIsKept,
         Holds, Selected, Collectable
<1>3. OneCopyPerSlot' /\ ReadyMeansComplete'
  BY DEF TypeOK, Unused, OneCopyPerSlot, ReadyMeansComplete, Selected, Filled
<1>4. TypeOK'
  <2>1. row' \in [st : {"none", "preparing", "ready", "failed", "cancelled"},
                lease : Keys \cup {None}, lapsed : BOOLEAN]
    BY DEF TypeOK, HandsOnLedger
  <2>2. object' \in [Keys -> {Unused} \cup
                      [st : {"reserved", "selected", "abandoned"}, slot : Slots]]
    BY DEF TypeOK, Unused
  <2>3. call' \in [Calls ->
                 [at : {"idle", "copy", "compare", "publish", "fail", "sweep", "delete"},
                  key : Keys \cup {None}, todo : SUBSET Keys]]
    BY DEF TypeOK, HandsOnLedger
  <2>. QED  BY <2>1, <2>2, <2>3 DEF TypeOK
<1>5. HandsUnadopted'
  BY DEF TypeOK, Unused, HandsUnadopted, Holds, Selected, HandsOnLedger, HandsAlone,
         ComparedIsKept, DeletedIsGivenUp, LateIsGivenUp, Collectable
<1>6. ComparedIsKept'
  BY DEF TypeOK, Unused, ComparedIsKept, HandsOnLedger, HandsAlone, HandsUnadopted,
         DeletedIsGivenUp, LateIsGivenUp, Collectable, Holds, Selected
<1>. QED  BY <1>1, <1>2, <1>3, <1>4, <1>5, <1>6

\* _cleanup_one looks again before it goes to delete.
LEMMA KeepSweep ==
    ASSUME IInv, NEW c \in Calls, NEW k \in Keys, Sweep(c, k)
    PROVE  IInv'
<1>. USE SlotsAssumption, NoneAssumption DEF Slots
<1>. USE DEF IInv, Sweep
<1>1. TypeOK' /\ LeaseIsOpen' /\ ReservedIsLeased' /\ HandsOnLedger'
  BY DEF TypeOK, Unused, LeaseIsOpen, ReservedIsLeased, HandsOnLedger, Selected, Holds
<1>2. HandsAlone' /\ HandsUnadopted'
  BY DEF TypeOK, Unused, HandsAlone, HandsUnadopted, Holds, Selected
<1>5. ComparedIsKept'
  BY DEF TypeOK, Unused, ComparedIsKept, Selected
<1>6. LateIsGivenUp'
  <2>1. \A d \in Calls : Holds(d)' => Holds(d) /\ call'[d] = call[d]
    BY DEF TypeOK, Unused, Holds
  <2>. QED  BY <2>1 DEF LateIsGivenUp, Selected
<1>3. DeletedIsGivenUp' /\ LedgerFirst' /\ AdoptedCopyIsKept' /\ OneCopyPerSlot'
  BY DEF TypeOK, Unused, DeletedIsGivenUp, LedgerFirst, AdoptedCopyIsKept,
         OneCopyPerSlot, Collectable, Selected
<1>4. ReadyMeansComplete'
  BY DEF TypeOK, Unused, ReadyMeansComplete, Filled, Selected
<1>. QED  BY <1>1, <1>2, <1>3, <1>4, <1>5, <1>6

-----------------------------------------------------------------------------
(* The theorems.                                                            *)

\* The initial state satisfies the invariant.
LEMMA Initially == Init => IInv
<1>. USE SlotsAssumption, NoneAssumption DEF Slots
<1>. SUFFICES ASSUME Init PROVE IInv
  OBVIOUS
<1>. USE DEF Init
<1>1. TypeOK
  BY DEF TypeOK, Idle, Unused
<1>2. LeaseIsOpen /\ ReservedIsLeased /\ LedgerFirst /\ LateIsGivenUp
  BY DEF LeaseIsOpen, ReservedIsLeased, LedgerFirst, LateIsGivenUp, Unused
<1>3. \A k \in Keys : ~Selected(k)
  BY DEF Selected, Unused
<1>4. HandsUnadopted /\ AdoptedCopyIsKept /\ OneCopyPerSlot
  BY <1>3 DEF HandsUnadopted, AdoptedCopyIsKept, OneCopyPerSlot, Holds, Idle
<1>5. HandsOnLedger /\ HandsAlone /\ ComparedIsKept /\ DeletedIsGivenUp
  BY DEF HandsOnLedger, HandsAlone, ComparedIsKept, DeletedIsGivenUp, Holds, Idle
<1>6. ReadyMeansComplete
  BY <1>3 DEF ReadyMeansComplete, Filled
<1>. QED  BY <1>1, <1>2, <1>4, <1>5, <1>6 DEF IInv

\* Every step keeps it.
LEMMA Inductive == IInv /\ [Next]_vars => IInv'
<1>. USE SlotsAssumption, NoneAssumption DEF Slots
<1>. SUFFICES ASSUME IInv, [Next]_vars PROVE IInv'
  OBVIOUS
<1>1. CASE Next
  BY <1>1, KeepCreate, KeepLeaseLapses, KeepSourceChanges, KeepPutArrives, KeepCopy,
     KeepCopyFails, KeepCompare, KeepPublish, KeepPublishFails, KeepFail, KeepFailIsLost,
     KeepDelete, KeepDone, KeepCrash, KeepClaim, KeepCleanup, KeepSweep DEF Next
<1>2. CASE UNCHANGED vars
  BY <1>2 DEF vars, IInv, TypeOK, LeaseIsOpen, ReservedIsLeased, HandsOnLedger, HandsAlone,
     HandsUnadopted, ComparedIsKept, LateIsGivenUp, DeletedIsGivenUp, LedgerFirst,
     AdoptedCopyIsKept, OneCopyPerSlot, ReadyMeansComplete, Holds, Selected, Filled,
     Collectable
<1>. QED  BY <1>1, <1>2

\* The safety properties follow, and what a step may not do.
LEMMA Adopted ==
    ASSUME IInv
    PROVE  AdoptedCopyIsKept /\ TypeOK /\ OneCopyPerSlot /\ ReadyMeansComplete
BY DEF IInv

LEMMA Leftover ==
    ASSUME IInv
    PROVE  LeftoverIsCollectable
<1>. USE SlotsAssumption, NoneAssumption DEF Slots
<1>. SUFFICES ASSUME IInv, NEW k \in Keys, store[k] # "nothing" \/ k \in late
              PROVE  \/ row.st = "cancelled" /\ object[k] # Unused
                     \/ object[k].st \in {"selected", "abandoned"}
                     \/ object[k].st = "reserved" /\ (row.lease \in {None, k} \/ row.lapsed)
  BY DEF LeftoverIsCollectable
<1>1. object[k] # Unused
  BY DEF IInv, LedgerFirst, LateIsGivenUp
<1>2. object[k].st \in {"reserved", "selected", "abandoned"}
  BY <1>1 DEF IInv, TypeOK
<1>. QED  BY <1>2 DEF IInv, ReservedIsLeased

SealedStep ==
    /\ (row.st = "ready") => (row' = row)
    /\ (row.st = "cancelled") => (row'.st = "cancelled")
    /\ \A k \in Keys :
          /\ Selected(k) => (object'[k] = object[k])
          /\ (row.st \in {"ready", "cancelled"} /\ Selected(k)') => Selected(k)

LEMMA SealedNext ==
    ASSUME IInv, Next
    PROVE  SealedStep
<1>. USE SlotsAssumption, NoneAssumption DEF Slots
<1>. USE DEF SealedStep, Selected, IInv, TypeOK, Unused
<1>1. CASE Create
  BY <1>1 DEF Create
<1>2. CASE LeaseLapses
  <2>1. row.st = "preparing"
    BY <1>2 DEF LeaseLapses, Leased, LeaseIsOpen
  <2>. QED  BY <1>2, <2>1 DEF LeaseLapses
<1>3. CASE \E s \in Slots : SourceChanges(s)
  BY <1>3 DEF SourceChanges
<1>4. CASE \E k \in Keys : PutArrives(k)
  BY <1>4 DEF PutArrives
<1>5. ASSUME NEW c \in Calls,
             Copy(c) \/ CopyFails(c) \/ Compare(c) \/ PublishFails(c) \/ FailIsLost(c)
               \/ Delete(c) \/ Done(c) \/ Crash(c) \/ \E k \in Keys : Sweep(c, k)
      PROVE  SealedStep
  BY <1>5 DEF Copy, CopyFails, Compare, PublishFails, FailIsLost, Delete, Done, Crash, Sweep
<1>6. ASSUME NEW c \in Calls, Publish(c) PROVE SealedStep
  <2>1. row.st = "preparing" /\ ~Selected(call[c].key)
    BY <1>6 DEF Publish, MayPublish, Guarded, HandsUnadopted, Holds
  <2>. QED  BY <1>6, <2>1 DEF Publish, Released
<1>7. ASSUME NEW c \in Calls, Fail(c) PROVE SealedStep
  BY <1>7 DEF Fail, Abandoned
<1>8. ASSUME NEW c \in Calls, NEW k \in Keys, NEW s \in Slots, Claim(c, k, s) PROVE SealedStep
  BY <1>8 DEF Claim, Abandoned
<1>9. ASSUME NEW c \in Calls, NEW cancel \in BOOLEAN, Cleanup(c, cancel) PROVE SealedStep
  BY <1>9 DEF Cleanup, Abandoned, Cancellable, Released
<1>. QED  BY <1>1, <1>2, <1>3, <1>4, <1>5, <1>6, <1>7, <1>8, <1>9 DEF Next


-----------------------------------------------------------------------------
(* VerificationEvidence.  A lease that is not over is of an attempt still   *)
(* reserved, for a file its set lacks; a selected copy is verified and      *)
(* stored; and what a cleanup deletes was given up for good, so that no copy*)
(* can be selected any more whose key it deletes.                           *)

NoRow == [status |-> "absent"]
EUnused == [state |-> "unused", selected |-> FALSE]
ECallRow ==
    {[at |-> "idle"]} \cup [at : {"copying", "resolved", "compared"}, on : Keys]
        \cup [at : {"copied"}, on : Keys, ok : BOOLEAN]
        \cup [at : {"deleting"}, these : SUBSET Keys]
ETyped ==
    /\ eSource \in 1 .. MaxSource
    /\ eRow \in [Requests -> {NoRow} \cup E!Row]
    /\ eAttempt \in [Keys -> {EUnused} \cup E!Attempt]
    /\ eStore \subseteq Keys
    /\ eCalls \in [Calls -> ECallRow]

\* A lease that is not over is of an attempt to copy a file the set still lacks.
LeaseFits ==
    \A e \in Requests, a \in Keys :
        (eRow[e].status # "absent" /\ eRow[e].lease = a /\ ~eRow[e].over) =>
            /\ eAttempt[a].state = "reserved" /\ eAttempt[a].of = e
            /\ \A b \in Keys :
                  (eAttempt[b].selected /\ eAttempt[b].of = e) => eAttempt[b].slot # eAttempt[a].slot

\* A selected copy is verified, in the store and the only one of its file.
SelectedFits ==
    /\ \A a \in Keys :
          eAttempt[a].selected => eAttempt[a].state = "verified" /\ a \in eStore
    /\ \A a, b \in Keys :
          (eAttempt[a].selected /\ eAttempt[b].selected /\ eAttempt[a].of = eAttempt[b].of
             /\ eAttempt[a].slot = eAttempt[b].slot) => a = b

\* What a copy found written is there until the attempt is given up, and what a cleanup
\* deletes was given up for good.
CopyFits(c) ==
    /\ eCalls[c].at \in {"copying", "copied"} => eAttempt[eCalls[c].on].state # "unused"
    /\ (eCalls[c].at = "copied" /\ eAttempt[eCalls[c].on].state = "reserved") =>
          (eCalls[c].ok => eCalls[c].on \in eStore)
    /\ eCalls[c].at = "deleting" => \A a \in eCalls[c].these : eAttempt[a].state = "abandoned"
CopiesFit == \A c \in Calls : CopyFits(c)

EInv == ETyped /\ LeaseFits /\ SelectedFits /\ CopiesFit

LEMMA AttemptShape ==
    ASSUME ETyped, NEW a \in Keys
    PROVE  /\ eAttempt[a].state = "unused" => eAttempt[a] = EUnused
           /\ eAttempt[a].state # "unused" => eAttempt[a] \in E!Attempt
           /\ eAttempt[a].selected \in BOOLEAN
           /\ eAttempt[a].selected => eAttempt[a] \in E!Attempt
<1>1. eAttempt[a] = EUnused \/ eAttempt[a] \in E!Attempt
  BY DEF ETyped
<1>2. CASE eAttempt[a] = EUnused
  BY <1>2 DEF EUnused
<1>3. CASE eAttempt[a] \in E!Attempt
  <2>1. eAttempt[a].selected \in BOOLEAN
    BY <1>3, Zenon DEF E!Attempt
  <2>2. eAttempt[a].state # "unused"
    BY <1>3 DEF E!Attempt
  <2>. QED  BY <1>3, <2>1, <2>2
<1>. QED  BY <1>1, <1>2, <1>3

LEMMA RowShape ==
    ASSUME ETyped, NEW e \in Requests
    PROVE  /\ e \in E!Made <=> eRow[e].status # "absent"
           /\ e \in E!Made <=> eRow[e] \in E!Row
BY DEF ETyped, NoRow, E!Row, E!Made

LEMMA ECallShape ==
    ASSUME ETyped, NEW c \in Calls
    PROVE  /\ eCalls[c].at \in {"copying", "resolved", "compared"} => eCalls[c].on \in Keys
           /\ eCalls[c].at = "copied" => eCalls[c].on \in Keys /\ eCalls[c].ok \in BOOLEAN
           /\ eCalls[c].at = "deleting" =>
                 eCalls[c] \in [at : {"deleting"}, these : SUBSET Keys]
BY DEF ETyped, ECallRow

LEMMA AbandonShape ==
    ASSUME ETyped, NEW these \in SUBSET Keys, \A a \in these : eAttempt[a].state # "unused",
           NEW n, n = E!Abandon(these)
    PROVE  /\ n \in [Keys -> {EUnused} \cup E!Attempt]
           /\ \A a \in these :
                 /\ n[a].state = "abandoned" /\ n[a].selected = FALSE /\ n[a] \in E!Attempt
                 /\ n[a].of = eAttempt[a].of /\ n[a].slot = eAttempt[a].slot
           /\ \A a \in Keys \ these : n[a] = eAttempt[a]
<1>1. ASSUME NEW a \in these
      PROVE  /\ n[a].state = "abandoned" /\ n[a].selected = FALSE /\ n[a] \in E!Attempt
             /\ n[a].of = eAttempt[a].of /\ n[a].slot = eAttempt[a].slot
  <2>1. PICK q \in E!Attempt : q = eAttempt[a]
    BY AttemptShape
  <2>2. PICK g : g = [q EXCEPT !.state = "abandoned", !.selected = FALSE]
    OBVIOUS
  <2>3. n[a] = g
    BY <2>1, <2>2 DEF E!Abandon
  <2>4. g.state = "abandoned" /\ g.selected = FALSE /\ g.of = q.of /\ g.slot = q.slot
    BY <2>2 DEF E!Attempt
  <2>5. g \in E!Attempt
    BY <2>2, Zenon DEF E!Attempt
  <2>. QED  BY <2>1, <2>3, <2>4, <2>5
<1>2. \A a \in Keys \ these : n[a] = eAttempt[a]
  BY DEF E!Abandon
<1>3. \A a \in Keys : n[a] \in {EUnused} \cup E!Attempt
  BY <1>1, <1>2 DEF ETyped
<1>4. n = [a \in Keys |-> n[a]]
  BY DEF E!Abandon
<1>. QED  BY <1>1, <1>2, <1>3, <1>4

\* The row without its lease.
LEMMA NoLeaseShape ==
    ASSUME ETyped, NEW q \in E!Row, NEW s \in {"preparing", "failed", "ready", "cancelled"},
           NEW n, n = [E!NoLease(q) EXCEPT !.status = s]
    PROVE  n \in E!Row /\ n.status = s /\ n.lease = None /\ n.preview = q.preview /\ n.files = q.files
<1>1. PICK m : m = [q EXCEPT !.lease = None, !.over = FALSE]
  OBVIOUS
<1>2. m \in E!Row
  BY <1>1, Zenon DEF E!Row
<1>3. m.lease = None /\ m.preview = q.preview /\ m.files = q.files
  BY <1>1 DEF E!Row
<1>4. n = [m EXCEPT !.status = s]
  BY <1>1 DEF E!NoLease
<1>5. n \in E!Row
  BY <1>2, <1>4, Zenon DEF E!Row
<1>. QED  BY <1>2, <1>3, <1>4, <1>5 DEF E!Row

\* Attempts only grow older.
Ages ==
    \A x \in Keys : eAttempt[x].state # "unused" =>
        /\ eAttempt'[x].state # "unused"
        /\ eAttempt'[x].state = "reserved" => eAttempt[x].state = "reserved"
        /\ eAttempt[x].state = "abandoned" => eAttempt'[x].state = "abandoned"

LEMMA CopyKept ==
    ASSUME EInv, Ages, NEW d \in Calls, eCalls'[d] = eCalls[d],
           \A x \in eStore \ eStore' : eAttempt'[x].state # "reserved"
    PROVE  CopyFits(d)'
<1>1. CopyFits(d)
  BY DEF EInv, CopiesFit
<1>2. CASE eCalls[d].at \in {"copying", "copied"}
  <2>1. PICK x \in Keys : x = eCalls[d].on
    BY <1>2, ECallShape DEF EInv
  <2>. QED  BY <1>1, <1>2, <2>1 DEF CopyFits, Ages
<1>3. CASE eCalls[d].at = "deleting"
  <2>1. eCalls[d].these \subseteq Keys
    BY <1>3, ECallShape DEF EInv
  <2>. QED  BY <1>1, <1>3, <2>1 DEF CopyFits, Ages
<1>4. CASE eCalls[d].at \notin {"copying", "copied", "deleting"}
  BY <1>4 DEF CopyFits
<1>. QED  BY <1>2, <1>3, <1>4

\* A call goes on to m.
LEMMA CallMoves ==
    ASSUME EInv, NEW c \in Calls, NEW m \in ECallRow, eCalls' = [eCalls EXCEPT ![c] = m],
           CopyFits(c)', \A d \in Calls : d # c => CopyFits(d)'
    PROVE  eCalls' \in [Calls -> ECallRow] /\ CopiesFit'
BY DEF EInv, ETyped, CopiesFit

LEMMA CallRests ==
    ASSUME EInv, NEW c \in Calls, E!Idle(c), \A d \in Calls : d # c => CopyFits(d)'
    PROVE  eCalls' \in [Calls -> ECallRow] /\ CopiesFit'
<1>1. PICK m : m = [at |-> "idle"]
  OBVIOUS
<1>2. m \in ECallRow /\ eCalls' = [eCalls EXCEPT ![c] = m] /\ eCalls'[c] = m
  BY <1>1 DEF ECallRow, E!Idle, E!Goto, EInv, ETyped
<1>3. CopyFits(c)'
  BY <1>1, <1>2 DEF CopyFits
<1>. QED  BY <1>2, <1>3, CallMoves

\* Nothing happens to the attempts, and nothing to the sets but that a lease ends.
LEMMA LeaseKept ==
    ASSUME EInv, eAttempt' = eAttempt,
           \A e \in Requests : (eRow'[e].status # "absent" /\ eRow'[e].lease \in Keys /\ ~eRow'[e].over) =>
               eRow[e].status # "absent" /\ eRow'[e].lease = eRow[e].lease /\ ~eRow[e].over
    PROVE  LeaseFits'
BY DEF EInv, LeaseFits

LEMMA EKeepQuiet ==
    ASSUME EInv, UNCHANGED <<eRow, eAttempt>>, eSource' \in 1 .. MaxSource, eStore' \subseteq Keys,
           \A a \in eStore \ eStore' : eAttempt[a].state = "abandoned",
           eCalls' \in [Calls -> ECallRow] /\ CopiesFit'
    PROVE  EInv'
<1>1. ETyped'
  BY DEF EInv, ETyped
<1>2. LeaseFits'
  BY DEF EInv, LeaseFits
<1>3. SelectedFits'
  BY DEF EInv, SelectedFits
<1>. QED  BY <1>1, <1>2, <1>3 DEF EInv

LEMMA EKeepCreate ==
    ASSUME EInv, E!Create, ESensible
    PROVE  EInv'
<1>1. PICK e \in Requests \ E!Made, files \in SUBSET Slots :
        eRow' = [eRow EXCEPT ![e] = E!Sealed([status |-> "preparing", preview |-> eSource,
                                          files |-> files, lease |-> None, over |-> FALSE], {})]
  BY DEF E!Create
<1>2. PICK q : q = [status |-> "preparing", preview |-> eSource, files |-> files,
                    lease |-> None, over |-> FALSE]
  OBVIOUS
<1>3. q \in E!Row
  BY <1>2, Zenon DEF E!Row, EInv, ETyped
<1>4. PICK m : m = [E!NoLease(q) EXCEPT !.status = "ready"]
  OBVIOUS
<1>5. m \in E!Row /\ m.lease = None
  BY <1>3, <1>4, NoLeaseShape DEF EInv
<1>6. PICK n \in E!Row : eRow' = [eRow EXCEPT ![e] = n] /\ n.lease = None
  BY <1>1, <1>2, <1>3, <1>4, <1>5 DEF E!Sealed
<1>7. UNCHANGED <<eSource, eAttempt, eStore, eCalls>>
  BY DEF E!Create
<1>8. ETyped'
  BY <1>6, <1>7 DEF EInv, ETyped
<1>9. LeaseFits'
  BY <1>6, <1>7, LeaseKept DEF EInv, ETyped, ESensible
<1>10. SelectedFits' /\ CopiesFit'
  BY <1>7 DEF EInv, SelectedFits, CopiesFit, CopyFits
<1>. QED  BY <1>8, <1>9, <1>10 DEF EInv

LEMMA EKeepLapse ==
    ASSUME EInv, E!Lapse
    PROVE  EInv'
<1>1. PICK e \in E!Made : eRow' = [eRow EXCEPT ![e].over = TRUE]
  BY DEF E!Lapse
<1>2. PICK q \in E!Row : q = eRow[e] /\ e \in Requests
  BY RowShape DEF EInv, E!Made
<1>3. PICK n : n = [q EXCEPT !.over = TRUE]
  OBVIOUS
<1>4. n \in E!Row
  BY <1>3, Zenon DEF E!Row
<1>5. n.over = TRUE
  BY <1>3 DEF E!Row
<1>6. eRow' = [eRow EXCEPT ![e] = n]
  BY <1>1, <1>2, <1>3
<1>7. UNCHANGED <<eSource, eAttempt, eStore, eCalls>>
  BY DEF E!Lapse
<1>8. ETyped'
  BY <1>2, <1>4, <1>6, <1>7 DEF EInv, ETyped
<1>9. LeaseFits'
  BY <1>2, <1>5, <1>6, <1>7, LeaseKept DEF EInv, ETyped
<1>10. SelectedFits' /\ CopiesFit'
  BY <1>7 DEF EInv, SelectedFits, CopiesFit, CopyFits
<1>. QED  BY <1>8, <1>9, <1>10 DEF EInv

LEMMA EKeepChangeSource ==
    ASSUME EInv, E!ChangeSource, ESensible
    PROVE  EInv'
<1>1. eSource' \in 1 .. MaxSource
  BY DEF E!ChangeSource, EInv, ETyped, ESensible
<1>2. UNCHANGED <<eRow, eAttempt, eStore, eCalls>>
  BY DEF E!ChangeSource
<1>3. eCalls' \in [Calls -> ECallRow] /\ CopiesFit'
  BY <1>2 DEF EInv, ETyped, CopiesFit, CopyFits
<1>. QED  BY <1>1, <1>2, <1>3, EKeepQuiet DEF EInv, ETyped

LEMMA EKeepClaim ==
    ASSUME EInv, NEW c \in Calls, E!Claim(c), ESensible
    PROVE  EInv'
<1>0. PICK e \in E!Made, a \in Keys :
        /\ eAttempt[a].state = "unused" /\ E!LeaseFree(e)
        /\ \E slot \in eRow[e].files \ E!Kept(e) :
              eAttempt' = [E!Abandon({x \in E!Tried(e) : eAttempt[x].state = "reserved"}) EXCEPT
                  ![a] = [of |-> e, slot |-> slot, state |-> "reserved", selected |-> FALSE]]
        /\ eRow' = [eRow EXCEPT ![e].status = "preparing", ![e].lease = a, ![e].over = FALSE]
        /\ E!Goto(c, [at |-> "copying", on |-> a])
  BY DEF E!Claim
<1>1. PICK slot \in eRow[e].files \ E!Kept(e) :
        eAttempt' = [E!Abandon({x \in E!Tried(e) : eAttempt[x].state = "reserved"}) EXCEPT
              ![a] = [of |-> e, slot |-> slot, state |-> "reserved", selected |-> FALSE]]
  BY <1>0
<1>2. UNCHANGED <<eSource, eStore>>
  BY DEF E!Claim
<1>3. PICK q \in E!Row : q = eRow[e] /\ e \in Requests
  BY RowShape DEF EInv, E!Made
<1>4. PICK r : r = [q EXCEPT !.status = "preparing", !.lease = a, !.over = FALSE]
  OBVIOUS
<1>5. r \in E!Row
  BY <1>4, Zenon DEF E!Row
<1>6. r.lease = a /\ r.over = FALSE /\ eRow' = [eRow EXCEPT ![e] = r]
  BY <1>0, <1>3, <1>4 DEF E!Row
<1>7. PICK old \in SUBSET Keys : old = {x \in E!Tried(e) : eAttempt[x].state = "reserved"}
  BY DEF E!Tried
<1>8. PICK n : n = E!Abandon(old)
  OBVIOUS
<1>9. /\ n \in [Keys -> {EUnused} \cup E!Attempt]
      /\ \A x \in old : n[x].state = "abandoned" /\ n[x].selected = FALSE
      /\ \A x \in Keys \ old : n[x] = eAttempt[x]
  <2>1. \A x \in old : eAttempt[x].state # "unused"
    BY <1>7
  <2>2. ETyped
    BY DEF EInv
  <2>. QED  BY <1>8, <2>1, <2>2, AbandonShape, Zenon
<1>10. PICK new : new = [of |-> e, slot |-> slot, state |-> "reserved", selected |-> FALSE]
  OBVIOUS
<1>11. slot \in Slots
  BY <1>1, <1>3 DEF E!Row
<1>12. new \in E!Attempt
  BY <1>3, <1>10, <1>11, Zenon DEF E!Attempt
<1>13. new.of = e /\ new.slot = slot /\ new.state = "reserved" /\ new.selected = FALSE
  BY <1>10
<1>14. eAttempt' = [n EXCEPT ![a] = new]
  BY <1>1, <1>7, <1>8, <1>10
<1>15. /\ eAttempt'[a] = new /\ a \notin old
       /\ \A x \in Keys \ {a} : eAttempt'[x] = n[x]
  BY <1>0, <1>7, <1>9, <1>14
<1>16. \A b \in Keys : eAttempt'[b].selected =>
          eAttempt[b].selected /\ eAttempt'[b] = eAttempt[b] /\ b # a
  BY <1>9, <1>13, <1>15
<1>17. \A x \in old : eAttempt[x].state = "reserved" /\ eAttempt[x].of = e
  BY <1>7 DEF E!Tried
<1>18. Ages
  BY <1>0, <1>9, <1>15, <1>17 DEF Ages
<1>19. LeaseFits'
  <2>. SUFFICES ASSUME NEW f \in Requests, NEW x \in Keys,
                       eRow'[f].status # "absent", eRow'[f].lease = x, ~eRow'[f].over
                PROVE  /\ eAttempt'[x].state = "reserved" /\ eAttempt'[x].of = f
                       /\ \A b \in Keys :
                             (eAttempt'[b].selected /\ eAttempt'[b].of = f) =>
                                eAttempt'[b].slot # eAttempt'[x].slot
    BY DEF LeaseFits
  <2>1. CASE f = e
    <3>1. x = a
      BY <1>3, <1>6, <2>1 DEF EInv, ETyped
    <3>2. \A b \in Keys : (eAttempt[b].selected /\ eAttempt[b].of = e) => eAttempt[b].slot # slot
      BY <1>1, AttemptShape DEF EInv, E!Kept, E!Selected, E!Tried, E!Attempt
    <3>. QED  BY <1>13, <1>15, <1>16, <2>1, <3>1, <3>2
  <2>2. CASE f # e
    <3>1. eRow'[f] = eRow[f]
      BY <1>6, <2>2 DEF EInv, ETyped
    <3>2. /\ eAttempt[x].state = "reserved" /\ eAttempt[x].of = f
          /\ \A b \in Keys :
                (eAttempt[b].selected /\ eAttempt[b].of = f) => eAttempt[b].slot # eAttempt[x].slot
      BY <3>1 DEF EInv, LeaseFits
    <3>3. eAttempt'[x] = eAttempt[x]
      BY <1>0, <1>9, <1>15, <1>17, <2>2, <3>2
    <3>. QED  BY <1>16, <3>2, <3>3
  <2>. QED  BY <2>1, <2>2
<1>20. SelectedFits'
  BY <1>2, <1>16 DEF EInv, SelectedFits
<1>21. PICK m : m = [at |-> "copying", on |-> a]
  OBVIOUS
<1>22. /\ m \in ECallRow /\ m.at = "copying" /\ m.on = a
       /\ eCalls' = [eCalls EXCEPT ![c] = m] /\ eCalls'[c] = m
       /\ \A d \in Calls : d # c => eCalls'[d] = eCalls[d]
  BY <1>0, <1>21 DEF ECallRow, E!Goto, EInv, ETyped
<1>23. CopyFits(c)'
  BY <1>13, <1>15, <1>22 DEF CopyFits
<1>24. \A d \in Calls : d # c => CopyFits(d)'
  BY <1>2, <1>18, <1>22, CopyKept
<1>25. eCalls' \in [Calls -> ECallRow] /\ CopiesFit'
  BY <1>22, <1>23, <1>24, CallMoves
<1>26. ETyped'
  <2>1. eAttempt' \in [Keys -> {EUnused} \cup E!Attempt]
    BY <1>9, <1>12, <1>14
  <2>2. eRow' \in [Requests -> {NoRow} \cup E!Row]
    BY <1>5, <1>6 DEF EInv, ETyped
  <2>. QED  BY <1>2, <1>25, <2>1, <2>2 DEF EInv, ETyped
<1>. QED  BY <1>19, <1>20, <1>25, <1>26 DEF EInv

LEMMA EKeepCopy ==
    ASSUME EInv, NEW c \in Calls, E!Copy(c)
    PROVE  EInv'
<1>1. PICK written \in BOOLEAN, ok \in BOOLEAN :
        /\ ok => written
        /\ eStore' = IF written THEN eStore \cup {eCalls[c].on} ELSE eStore
        /\ E!Goto(c, [at |-> "copied", on |-> eCalls[c].on, ok |-> ok])
  BY DEF E!Copy
<1>2. UNCHANGED <<eSource, eRow, eAttempt>> /\ eCalls[c].at = "copying"
  BY DEF E!Copy
<1>3. PICK a \in Keys : a = eCalls[c].on
  BY <1>2, ECallShape DEF EInv
<1>4. PICK m : m = [at |-> "copied", on |-> a, ok |-> ok]
  OBVIOUS
<1>5. m \in ECallRow /\ m.at = "copied" /\ m.on = a /\ m.ok = ok
  BY <1>4 DEF ECallRow
<1>6. /\ eCalls' = [eCalls EXCEPT ![c] = m] /\ eCalls'[c] = m
      /\ \A d \in Calls : d # c => eCalls'[d] = eCalls[d]
  BY <1>1, <1>3, <1>4 DEF E!Goto, EInv, ETyped
<1>7. eStore \subseteq eStore' /\ eStore' \subseteq Keys /\ (ok => a \in eStore')
  BY <1>1, <1>3 DEF EInv, ETyped
<1>8. eAttempt[a].state # "unused"
  BY <1>2, <1>3 DEF EInv, CopiesFit, CopyFits
<1>9. CopyFits(c)'
  BY <1>2, <1>5, <1>6, <1>7, <1>8 DEF CopyFits
<1>10. Ages
  BY <1>2 DEF Ages
<1>11. \A d \in Calls : d # c => CopyFits(d)'
  BY <1>6, <1>7, <1>10, CopyKept
<1>12. eCalls' \in [Calls -> ECallRow] /\ CopiesFit'
  BY <1>5, <1>6, <1>9, <1>11, CallMoves
<1>. QED  BY <1>2, <1>7, <1>12, EKeepQuiet DEF EInv, ETyped

\* The lease of e ends, and only attempts of e change.
LEMMA LeaseEnds ==
    ASSUME EInv, ESensible, NEW e \in Requests, NEW r \in E!Row, r.lease = None,
           eRow' = [eRow EXCEPT ![e] = r],
           \A x \in Keys : eAttempt'[x] = eAttempt[x]
                              \/ (eAttempt'[x].of = e /\ eAttempt[x].of = e)
    PROVE  LeaseFits'
<1>. SUFFICES ASSUME NEW f \in Requests, NEW x \in Keys,
                     eRow'[f].status # "absent", eRow'[f].lease = x, ~eRow'[f].over
              PROVE  /\ eAttempt'[x].state = "reserved" /\ eAttempt'[x].of = f
                     /\ \A b \in Keys :
                           (eAttempt'[b].selected /\ eAttempt'[b].of = f) =>
                              eAttempt'[b].slot # eAttempt'[x].slot
  BY DEF LeaseFits
<1>1. f # e
  BY DEF EInv, ETyped, ESensible
<1>2. eRow'[f] = eRow[f]
  BY <1>1 DEF EInv, ETyped
<1>3. /\ eAttempt[x].state = "reserved" /\ eAttempt[x].of = f
      /\ \A b \in Keys :
            (eAttempt[b].selected /\ eAttempt[b].of = f) => eAttempt[b].slot # eAttempt[x].slot
  BY <1>2 DEF EInv, LeaseFits
<1>4. eAttempt'[x] = eAttempt[x]
  BY <1>1, <1>3
<1>5. \A b \in Keys : eAttempt'[b].of = f => eAttempt'[b] = eAttempt[b]
  BY <1>1
<1>. QED  BY <1>3, <1>4, <1>5

\* A copy that finishes is of the attempt that holds the lease.
LEMMA FinishShape ==
    ASSUME EInv, NEW c \in Calls, E!Finish(c), NEW a, a = eCalls[c].on
    PROVE  /\ a \in Keys /\ eAttempt[a] \in E!Attempt /\ eAttempt[a].of \in E!Made
           /\ E!LeaseHeld(eAttempt[a].of, a) /\ eAttempt[a].state = "reserved"
           /\ eCalls[c].ok => a \in eStore
           /\ \A b \in Keys : (eAttempt[b].selected /\ eAttempt[b].of = eAttempt[a].of) =>
                  eAttempt[b].slot # eAttempt[a].slot
<1>1. a \in Keys /\ eCalls[c].at = "copied"
  BY ECallShape DEF EInv, E!Finish
<1>2. eAttempt[a].state # "unused"
  BY <1>1 DEF EInv, CopiesFit, CopyFits
<1>3. eAttempt[a] \in E!Attempt
  BY <1>1, <1>2, AttemptShape DEF EInv
<1>4. PICK e \in Requests : e = eAttempt[a].of
  BY <1>3 DEF E!Attempt
<1>5. E!LeaseHeld(e, a)
  BY <1>4 DEF E!Finish
<1>6. e \in E!Made
  BY <1>5 DEF E!LeaseHeld, E!Made
<1>7. /\ eAttempt[a].state = "reserved"
      /\ \A b \in Keys : (eAttempt[b].selected /\ eAttempt[b].of = e) =>
            eAttempt[b].slot # eAttempt[a].slot
  BY <1>1, <1>5 DEF EInv, LeaseFits, E!LeaseHeld
<1>8. eCalls[c].ok => a \in eStore
  BY <1>1, <1>7 DEF EInv, CopiesFit, CopyFits
<1>. QED  BY <1>1, <1>3, <1>4, <1>5, <1>6, <1>7, <1>8

\* The row of the set after a copy that is kept.
LEMMA SealShape ==
    ASSUME ETyped, NEW q \in E!Row, NEW kept, NEW n, n = E!Sealed(E!NoLease(q), kept)
    PROVE  /\ n \in E!Row /\ n.lease = None
           /\ n.status = "ready" => q.status = "ready" \/ kept = q.files
<1>1. PICK m : m = [q EXCEPT !.lease = None, !.over = FALSE]
  OBVIOUS
<1>2. m \in E!Row
  BY <1>1, Zenon DEF E!Row
<1>3. m.lease = None /\ m.status = q.status /\ m.files = q.files
  BY <1>1 DEF E!Row
<1>4. PICK p : p = [E!NoLease(m) EXCEPT !.status = "ready"]
  OBVIOUS
<1>5. p \in E!Row /\ p.lease = None
  <2>1. PICK w : w = [m EXCEPT !.lease = None, !.over = FALSE]
    OBVIOUS
  <2>2. w \in E!Row
    BY <1>2, <2>1, Zenon DEF E!Row
  <2>3. w.lease = None
    BY <1>2, <2>1 DEF E!Row
  <2>4. p = [w EXCEPT !.status = "ready"]
    BY <1>4, <2>1 DEF E!NoLease
  <2>5. p \in E!Row
    BY <2>2, <2>4, Zenon DEF E!Row
  <2>. QED  BY <2>2, <2>3, <2>4, <2>5 DEF E!Row
<1>6. n = IF kept = m.files THEN p ELSE m
  BY <1>1, <1>4 DEF E!Sealed, E!NoLease
<1>. QED  BY <1>2, <1>3, <1>5, <1>6

LEMMA EKeepFinish ==
    ASSUME EInv, NEW c \in Calls, E!Finish(c), ESensible
    PROVE  EInv'
<1>1. PICK a : a = eCalls[c].on
  OBVIOUS
<1>2. /\ a \in Keys /\ eAttempt[a] \in E!Attempt /\ eAttempt[a].of \in E!Made
      /\ E!LeaseHeld(eAttempt[a].of, a) /\ eAttempt[a].state = "reserved"
      /\ eCalls[c].ok => a \in eStore
      /\ \A b \in Keys : (eAttempt[b].selected /\ eAttempt[b].of = eAttempt[a].of) =>
             eAttempt[b].slot # eAttempt[a].slot
  BY <1>1, FinishShape
<1>3. PICK e \in E!Made : e = eAttempt[a].of
  BY <1>2
<1>4. PICK q \in E!Row : q = eRow[e] /\ e \in Requests
  BY RowShape DEF EInv, E!Made
<1>5. E!Idle(c) /\ UNCHANGED <<eSource, eStore>>
  BY DEF E!Finish
<1>6. /\ eAttempt' \in [Keys -> {EUnused} \cup E!Attempt]
      /\ eAttempt'[a].of = e /\ eAttempt'[a].state # "reserved" /\ eAttempt'[a].state # "unused"
      /\ eAttempt'[a].slot = eAttempt[a].slot
      /\ eAttempt'[a].selected => eAttempt'[a].state = "verified" /\ a \in eStore
      /\ \A x \in Keys : x # a => eAttempt'[x] = eAttempt[x]
      /\ \E r \in E!Row : eRow' = [eRow EXCEPT ![e] = r] /\ r.lease = None
  <2>1. CASE eCalls[c].ok /\ E!AsPreviewed(e)
    <3>1. /\ eAttempt' = [eAttempt EXCEPT ![a].state = "verified", ![a].selected = TRUE]
          /\ eRow' = [eRow EXCEPT ![e] = E!Sealed(E!NoLease(eRow[e]), E!Kept(e) \cup {eAttempt[a].slot})]
      BY <1>1, <1>3, <2>1 DEF E!Finish
    <3>2. PICK g : g = eAttempt[a]
      OBVIOUS
    <3>3. PICK n : n = [g EXCEPT !.state = "verified", !.selected = TRUE]
      OBVIOUS
    <3>4. n \in E!Attempt
      BY <1>2, <3>2, <3>3, Zenon DEF E!Attempt
    <3>5. n.state = "verified" /\ n.of = g.of /\ n.slot = g.slot
      BY <1>2, <3>2, <3>3 DEF E!Attempt
    <3>6. eAttempt' = [eAttempt EXCEPT ![a] = n]
      BY <3>1, <3>2, <3>3
    <3>7. PICK r : r = E!Sealed(E!NoLease(q), E!Kept(e) \cup {eAttempt[a].slot})
      OBVIOUS
    <3>8. r \in E!Row /\ r.lease = None
      BY <3>7, SealShape DEF EInv
    <3>9. eRow' = [eRow EXCEPT ![e] = r]
      BY <1>4, <3>1, <3>7
    <3>10. /\ eAttempt' \in [Keys -> {EUnused} \cup E!Attempt] /\ eAttempt'[a] = n
           /\ \A x \in Keys : x # a => eAttempt'[x] = eAttempt[x]
      BY <1>2, <3>4, <3>6 DEF EInv, ETyped
    <3>. QED  BY <1>2, <1>3, <2>1, <3>2, <3>5, <3>8, <3>9, <3>10
  <2>2. CASE ~(eCalls[c].ok /\ E!AsPreviewed(e))
    <3>1. /\ eAttempt' = E!Abandon({a})
          /\ eRow' = [eRow EXCEPT ![e] = [E!NoLease(eRow[e]) EXCEPT !.status = "failed"]]
      BY <1>1, <1>3, <2>2 DEF E!Finish
    <3>2. /\ eAttempt' \in [Keys -> {EUnused} \cup E!Attempt]
          /\ \A x \in {a} :
                /\ eAttempt'[x].state = "abandoned" /\ eAttempt'[x].selected = FALSE
                /\ eAttempt'[x] \in E!Attempt
                /\ eAttempt'[x].of = eAttempt[x].of /\ eAttempt'[x].slot = eAttempt[x].slot
          /\ \A x \in Keys \ {a} : eAttempt'[x] = eAttempt[x]
      <4>1. \A x \in {a} : eAttempt[x].state # "unused"
        BY <1>2
      <4>2. ETyped /\ {a} \in SUBSET Keys
        BY <1>2 DEF EInv
      <4>. QED  BY <3>1, <4>1, <4>2, AbandonShape, Zenon
    <3>3. PICK r : r = [E!NoLease(q) EXCEPT !.status = "failed"]
      OBVIOUS
    <3>4. r \in E!Row /\ r.lease = None
      BY <3>3, NoLeaseShape DEF EInv
    <3>5. eRow' = [eRow EXCEPT ![e] = r]
      BY <1>4, <3>1, <3>3
    <3>. QED  BY <1>3, <3>2, <3>4, <3>5
  <2>. QED  BY <2>1, <2>2
<1>7. PICK r \in E!Row : eRow' = [eRow EXCEPT ![e] = r] /\ r.lease = None
  BY <1>6
<1>8. LeaseFits'
  BY <1>3, <1>4, <1>6, <1>7, LeaseEnds
<1>9. SelectedFits'
  BY <1>2, <1>3, <1>5, <1>6 DEF EInv, SelectedFits
<1>10. Ages
  BY <1>2, <1>6 DEF Ages
<1>11. \A d \in Calls : d # c => eCalls'[d] = eCalls[d]
  BY <1>5 DEF E!Idle, E!Goto, EInv, ETyped
<1>12. \A d \in Calls : d # c => CopyFits(d)'
  BY <1>5, <1>10, <1>11, CopyKept
<1>13. eCalls' \in [Calls -> ECallRow] /\ CopiesFit'
  BY <1>5, <1>12, CallRests
<1>14. ETyped'
  BY <1>4, <1>5, <1>6, <1>7, <1>13 DEF EInv, ETyped
<1>. QED  BY <1>8, <1>9, <1>13, <1>14 DEF EInv

LEMMA EKeepIdle ==
    ASSUME EInv, NEW c \in Calls, E!Idle(c), UNCHANGED <<eSource, eRow, eAttempt>>,
           eStore' \subseteq Keys, \A a \in eStore \ eStore' : eAttempt[a].state = "abandoned"
    PROVE  EInv'
<1>1. Ages
  BY DEF Ages
<1>2. \A d \in Calls : d # c => eCalls'[d] = eCalls[d]
  BY DEF E!Idle, E!Goto, EInv, ETyped
<1>3. \A x \in eStore \ eStore' : eAttempt'[x].state # "reserved"
  OBVIOUS
<1>4. \A d \in Calls : d # c => CopyFits(d)'
  BY <1>1, <1>2, <1>3, CopyKept
<1>5. eCalls' \in [Calls -> ECallRow] /\ CopiesFit'
  BY <1>4, CallRests
<1>. QED  BY <1>5, EKeepQuiet DEF EInv, ETyped

LEMMA EKeepGoto ==
    ASSUME EInv, NEW c \in Calls, NEW m \in ECallRow, E!Goto(c, m), CopyFits(c)',
           UNCHANGED <<eSource, eRow, eAttempt>>,
           eStore' \subseteq Keys, \A a \in eStore \ eStore' : eAttempt[a].state = "abandoned"
    PROVE  EInv'
<1>1. Ages
  BY DEF Ages
<1>2. \A d \in Calls : d # c => eCalls'[d] = eCalls[d]
  BY DEF E!Goto, EInv, ETyped
<1>3. \A x \in eStore \ eStore' : eAttempt'[x].state # "reserved"
  OBVIOUS
<1>4. \A d \in Calls : d # c => CopyFits(d)'
  BY <1>1, <1>2, <1>3, CopyKept
<1>5. eCalls' \in [Calls -> ECallRow] /\ CopiesFit'
  BY <1>4, CallMoves DEF E!Goto
<1>. QED  BY <1>5, EKeepQuiet DEF EInv, ETyped

LEMMA EKeepCancel ==
    ASSUME EInv, E!Cancel, ESensible
    PROVE  EInv'
<1>1. PICK e \in E!Made :
        /\ eAttempt' = E!Abandon(E!Tried(e))
        /\ eRow' = [eRow EXCEPT ![e] = [E!NoLease(eRow[e]) EXCEPT !.status = "cancelled"]]
  BY DEF E!Cancel
<1>2. UNCHANGED <<eSource, eStore, eCalls>>
  BY DEF E!Cancel
<1>3. PICK q \in E!Row : q = eRow[e] /\ e \in Requests
  BY RowShape DEF EInv, E!Made
<1>4. PICK old \in SUBSET Keys : old = E!Tried(e)
  BY DEF E!Tried
<1>5. /\ eAttempt' \in [Keys -> {EUnused} \cup E!Attempt]
      /\ \A a \in old :
            /\ eAttempt'[a].state = "abandoned" /\ eAttempt'[a].selected = FALSE
            /\ eAttempt'[a] \in E!Attempt
            /\ eAttempt'[a].of = eAttempt[a].of /\ eAttempt'[a].slot = eAttempt[a].slot
      /\ \A a \in Keys \ old : eAttempt'[a] = eAttempt[a]
  <2>1. \A a \in old : eAttempt[a].state # "unused"
    BY <1>4 DEF E!Tried
  <2>2. ETyped
    BY DEF EInv
  <2>3. eAttempt' = E!Abandon(old)
    BY <1>1, <1>4
  <2>. QED  BY <2>1, <2>2, <2>3, AbandonShape, Zenon
<1>6. \A a \in old : eAttempt[a].of = e
  BY <1>4 DEF E!Tried
<1>7. PICK r : r = [E!NoLease(q) EXCEPT !.status = "cancelled"]
  OBVIOUS
<1>8. r \in E!Row /\ r.lease = None
  BY <1>7, NoLeaseShape DEF EInv
<1>9. eRow' = [eRow EXCEPT ![e] = r]
  BY <1>1, <1>3, <1>7
<1>10. \A x \in Keys : eAttempt'[x] = eAttempt[x]
                           \/ (eAttempt'[x].of = e /\ eAttempt[x].of = e)
  BY <1>5, <1>6
<1>11. LeaseFits'
  BY <1>3, <1>8, <1>9, <1>10, LeaseEnds
<1>12. SelectedFits'
  BY <1>2, <1>5 DEF EInv, SelectedFits
<1>13. Ages
  BY <1>5 DEF Ages
<1>14. CopiesFit'
  BY <1>2, <1>13, CopyKept DEF CopiesFit
<1>15. ETyped'
  BY <1>2, <1>3, <1>5, <1>8, <1>9 DEF EInv, ETyped
<1>. QED  BY <1>11, <1>12, <1>14, <1>15 DEF EInv

LEMMA EKeepReserve ==
    ASSUME EInv, NEW c \in Calls, E!Reserve(c), ESensible
    PROVE  EInv'
<1>1. PICK e \in E!Made : /\ E!LeaseFree(e)
                        /\ \E these \in SUBSET (E!Tried(e) \ E!Selected(e)) :
                              /\ eAttempt' = E!Abandon(these)
                              /\ E!Goto(c, [at |-> "deleting", these |-> these])
  BY DEF E!Reserve
<1>2. PICK these \in SUBSET (E!Tried(e) \ E!Selected(e)) :
        eAttempt' = E!Abandon(these) /\ E!Goto(c, [at |-> "deleting", these |-> these])
  BY <1>1
<1>3. UNCHANGED <<eSource, eRow, eStore>>
  BY DEF E!Reserve
<1>4. these \in SUBSET Keys /\ e \in Requests
  BY <1>1, <1>2 DEF E!Tried, E!Made
<1>5. \A a \in these : eAttempt[a].state # "unused" /\ eAttempt[a].of = e /\ ~eAttempt[a].selected
  BY <1>2, <1>4 DEF E!Tried, E!Selected
<1>6. /\ eAttempt' \in [Keys -> {EUnused} \cup E!Attempt]
      /\ \A a \in these :
            /\ eAttempt'[a].state = "abandoned" /\ eAttempt'[a].selected = FALSE
            /\ eAttempt'[a] \in E!Attempt
            /\ eAttempt'[a].of = eAttempt[a].of /\ eAttempt'[a].slot = eAttempt[a].slot
      /\ \A a \in Keys \ these : eAttempt'[a] = eAttempt[a]
  <2>1. \A a \in these : eAttempt[a].state # "unused"
    BY <1>5
  <2>2. ETyped
    BY DEF EInv
  <2>3. PICK old \in SUBSET Keys : old = these
    BY <1>4
  <2>4. eAttempt' = E!Abandon(old)
    BY <1>2, <2>3
  <2>6. \A a \in old : eAttempt[a].state # "unused"
    BY <2>1, <2>3
  <2>5. /\ eAttempt' \in [Keys -> {EUnused} \cup E!Attempt]
        /\ \A a \in old :
              /\ eAttempt'[a].state = "abandoned" /\ eAttempt'[a].selected = FALSE
              /\ eAttempt'[a] \in E!Attempt
              /\ eAttempt'[a].of = eAttempt[a].of /\ eAttempt'[a].slot = eAttempt[a].slot
        /\ \A a \in Keys \ old : eAttempt'[a] = eAttempt[a]
    BY <2>2, <2>4, <2>6, AbandonShape, ZenonT(60)
  <2>. QED  BY <2>3, <2>5
<1>7. PICK m : m = [at |-> "deleting", these |-> these]
  OBVIOUS
<1>8. /\ m \in ECallRow /\ m.at = "deleting" /\ m.these = these
      /\ eCalls' = [eCalls EXCEPT ![c] = m] /\ eCalls'[c] = m
      /\ \A d \in Calls : d # c => eCalls'[d] = eCalls[d]
  BY <1>2, <1>4, <1>7 DEF ECallRow, E!Goto, EInv, ETyped
<1>9. CopyFits(c)'
  BY <1>6, <1>8 DEF CopyFits
<1>10. Ages
  BY <1>6 DEF Ages
<1>11. \A d \in Calls : d # c => CopyFits(d)'
  BY <1>3, <1>8, <1>10, CopyKept
<1>12. eCalls' \in [Calls -> ECallRow] /\ CopiesFit'
  BY <1>8, <1>9, <1>11, CallMoves
<1>13. LeaseFits'
  <2>. SUFFICES ASSUME NEW f \in Requests, NEW x \in Keys,
                       eRow[f].status # "absent", eRow[f].lease = x, ~eRow[f].over
                PROVE  /\ eAttempt'[x].state = "reserved" /\ eAttempt'[x].of = f
                       /\ \A b \in Keys :
                             (eAttempt'[b].selected /\ eAttempt'[b].of = f) =>
                                eAttempt'[b].slot # eAttempt'[x].slot
    BY <1>3 DEF LeaseFits
  <2>1. /\ eAttempt[x].state = "reserved" /\ eAttempt[x].of = f
        /\ \A b \in Keys :
              (eAttempt[b].selected /\ eAttempt[b].of = f) => eAttempt[b].slot # eAttempt[x].slot
    BY DEF EInv, LeaseFits
  <2>2. x \notin these
    <3>1. CASE eRow[e].lease = None
      BY <1>5, <2>1, <3>1 DEF ESensible
    <3>2. CASE eRow[e].over
      BY <1>5, <2>1, <3>2
    <3>. QED  BY <1>1, <3>1, <3>2 DEF E!LeaseFree
  <2>. QED  BY <1>6, <2>1, <2>2
<1>14. SelectedFits'
  BY <1>3, <1>6 DEF EInv, SelectedFits
<1>15. ETyped'
  BY <1>3, <1>6, <1>12 DEF EInv, ETyped
<1>. QED  BY <1>12, <1>13, <1>14, <1>15 DEF EInv

LEMMA EKeepDelete ==
    ASSUME EInv, NEW c \in Calls, E!Delete(c)
    PROVE  EInv'
<1>1. PICK a \in eCalls[c].these, gone \in BOOLEAN :
        /\ eStore' = IF gone THEN eStore \ {a} ELSE eStore
        /\ IF eCalls[c].these = {a} THEN E!Idle(c)
                                   ELSE E!Goto(c, [eCalls[c] EXCEPT !.these = @ \ {a}])
  BY DEF E!Delete
<1>2. eCalls[c].at = "deleting" /\ UNCHANGED <<eSource, eRow, eAttempt>>
  BY DEF E!Delete
<1>3. PICK q \in [at : {"deleting"}, these : SUBSET Keys] : q = eCalls[c]
  BY <1>2, ECallShape DEF EInv
<1>4. \A x \in q.these : eAttempt[x].state = "abandoned"
  BY <1>2, <1>3 DEF EInv, CopiesFit, CopyFits
<1>5. /\ eStore' \subseteq Keys
      /\ \A x \in eStore \ eStore' : eAttempt[x].state = "abandoned"
  BY <1>1, <1>3, <1>4 DEF EInv, ETyped
<1>6. CASE E!Idle(c)
  BY <1>2, <1>5, <1>6, EKeepIdle
<1>7. CASE E!Goto(c, [eCalls[c] EXCEPT !.these = @ \ {a}])
  <2>1. PICK m : m = [q EXCEPT !.these = q.these \ {a}]
    OBVIOUS
  <2>2. m \in ECallRow /\ m.at = "deleting" /\ m.these = q.these \ {a}
    BY <2>1 DEF ECallRow
  <2>3. E!Goto(c, m)
    BY <1>3, <1>7, <2>1
  <2>4. eCalls'[c] = m
    BY <2>3 DEF E!Goto, EInv, ETyped
  <2>5. CopyFits(c)'
    BY <1>2, <1>4, <2>2, <2>4 DEF CopyFits
  <2>. QED  BY <1>2, <1>5, <2>2, <2>3, <2>5, EKeepGoto
<1>. QED  BY <1>1, <1>6, <1>7

\* The steps of a download write nothing.
LEMMA EKeepDownload ==
    ASSUME EInv, NEW c \in Calls, E!Downloading(c)
    PROVE  EInv'
<1>1. CASE E!Resolve(c)
  <2>1. PICK a \in Keys : E!Goto(c, [at |-> "resolved", on |-> a])
    BY <1>1 DEF E!Resolve
  <2>2. UNCHANGED <<eSource, eRow, eAttempt, eStore>>
    BY <1>1 DEF E!Resolve
  <2>3. PICK m : m = [at |-> "resolved", on |-> a]
    OBVIOUS
  <2>4. m \in ECallRow /\ m.at = "resolved" /\ E!Goto(c, m)
    BY <2>1, <2>3 DEF ECallRow
  <2>5. eCalls'[c] = m
    BY <2>4 DEF E!Goto, EInv, ETyped
  <2>6. CopyFits(c)'
    BY <2>4, <2>5 DEF CopyFits
  <2>. QED  BY <2>2, <2>4, <2>6, EKeepGoto DEF EInv, ETyped
<1>2. CASE E!Compare(c)
  <2>1. eCalls[c].at = "resolved" /\ UNCHANGED <<eSource, eRow, eAttempt, eStore>>
    BY <1>2 DEF E!Compare
  <2>2. CASE E!Idle(c)
    BY <2>1, <2>2, EKeepIdle DEF EInv, ETyped
  <2>3. CASE E!Goto(c, [at |-> "compared", on |-> eCalls[c].on])
    <3>1. PICK a \in Keys : a = eCalls[c].on
      BY <2>1, ECallShape DEF EInv
    <3>2. PICK m : m = [at |-> "compared", on |-> a]
      OBVIOUS
    <3>3. m \in ECallRow /\ m.at = "compared" /\ E!Goto(c, m)
      BY <2>3, <3>1, <3>2 DEF ECallRow
    <3>4. eCalls'[c] = m
      BY <3>3 DEF E!Goto, EInv, ETyped
    <3>5. CopyFits(c)'
      BY <3>3, <3>4 DEF CopyFits
    <3>. QED  BY <2>1, <3>3, <3>5, EKeepGoto DEF EInv, ETyped
  <2>. QED  BY <1>2, <2>2, <2>3 DEF E!Compare
<1>3. CASE E!Sign(c)
  BY <1>3, EKeepIdle DEF E!Sign, EInv, ETyped
<1>. QED  BY <1>1, <1>2, <1>3 DEF E!Downloading

LEMMA EStarts ==
    ASSUME E!Init, ESensible
    PROVE  EInv
<1>1. PICK u : u = EUnused
  OBVIOUS
<1>2. eAttempt = [a \in Keys |-> u] /\ u.state = "unused" /\ u.selected = FALSE
  BY <1>1 DEF E!Init, EUnused
<1>3. ETyped
  <2>1. eRow \in [Requests -> {NoRow} \cup E!Row]
    BY DEF E!Init, NoRow
  <2>2. eAttempt \in [Keys -> {EUnused} \cup E!Attempt]
    BY <1>1, <1>2
  <2>3. eCalls \in [Calls -> ECallRow]
    BY DEF E!Init, ECallRow
  <2>. QED  BY <2>1, <2>2, <2>3 DEF E!Init, ETyped, ESensible
<1>4. LeaseFits
  BY DEF E!Init, LeaseFits
<1>5. SelectedFits
  BY <1>2 DEF SelectedFits
<1>6. CopiesFit
  BY DEF E!Init, CopiesFit, CopyFits
<1>. QED  BY <1>3, <1>4, <1>5, <1>6 DEF EInv

LEMMA EKept ==
    ASSUME EInv, [E!Next]_(E!vars), ESensible
    PROVE  EInv'
<1>1. CASE E!Create
  BY <1>1, EKeepCreate
<1>2. CASE E!ChangeSource
  BY <1>2, EKeepChangeSource
<1>3. CASE E!Lapse
  BY <1>3, EKeepLapse
<1>4. CASE E!Cancel
  BY <1>4, EKeepCancel
<1>5. ASSUME NEW c \in Calls, E!Preserving(c)
      PROVE  EInv'
  <2>1. CASE E!Claim(c)
    BY <2>1, EKeepClaim
  <2>2. CASE E!Copy(c)
    BY <2>2, EKeepCopy
  <2>3. CASE E!Finish(c)
    BY <2>3, EKeepFinish
  <2>4. CASE E!TooLate(c)
    BY <2>4, EKeepIdle DEF E!TooLate, EInv, ETyped
  <2>5. CASE E!Lost(c)
    BY <2>5, EKeepIdle DEF E!Lost, EInv, ETyped
  <2>. QED  BY <1>5, <2>1, <2>2, <2>3, <2>4, <2>5 DEF E!Preserving
<1>6. ASSUME NEW c \in Calls, E!Cleaning(c)
      PROVE  EInv'
  BY <1>6, EKeepReserve, EKeepDelete DEF E!Cleaning
<1>7. ASSUME NEW c \in Calls, E!Downloading(c)
      PROVE  EInv'
  BY <1>7, EKeepDownload
<1>8. CASE UNCHANGED E!vars
  BY <1>8 DEF E!vars, EInv, ETyped, LeaseFits, SelectedFits, CopiesFit, CopyFits
<1>. QED  BY <1>1, <1>2, <1>3, <1>4, <1>5, <1>6, <1>7, <1>8 DEF E!Next

\* The type invariant follows.
LEMMA ETypeOK ==
    ASSUME EInv
    PROVE  E!TypeOK
<1>1. \A e \in E!Made : eRow[e] \in E!Row
  BY RowShape DEF EInv, E!Made
<1>2. \A e \in E!Made : \A a, b \in E!Selected(e) : eAttempt[a].slot = eAttempt[b].slot => a = b
  BY DEF EInv, SelectedFits, E!Selected, E!Tried
<1>3. \A a \in Keys : eAttempt[a].state # "unused" => eAttempt[a] \in E!Attempt
  BY AttemptShape DEF EInv
<1>. QED  BY <1>1, <1>2, <1>3 DEF E!TypeOK

LEMMA ESelectedIsStored ==
    ASSUME EInv
    PROVE  E!SelectedIsStored
BY DEF EInv, SelectedFits, E!SelectedIsStored, E!Selected, E!Tried

\* Only Create and Finish make a set ready; Create one that was not made.
ReadyStep ==
    \A e \in E!Made :
        eRow[e].status # "ready" /\ eRow'[e].status = "ready" =>
            eRow[e].preview = eSource
            /\ {eAttempt'[a].slot : a \in {x \in E!Tried(e) : eAttempt'[x].selected}} = eRow[e].files

LEMMA ReadyStays ==
    ASSUME EInv, \A f \in E!Made : eRow'[f].status = "ready" => eRow[f].status = "ready"
    PROVE  ReadyStep
BY DEF ReadyStep

LEMMA EReady ==
    ASSUME EInv, [E!Next]_(E!vars), ESensible
    PROVE  ReadyStep
<1>1. CASE E!Create
  <2>1. \A f \in E!Made : eRow'[f] = eRow[f]
    BY <1>1 DEF E!Create, EInv, ETyped, E!Made
  <2>. QED  BY <2>1, ReadyStays
<1>2. CASE E!Lapse
  <2>1. \A f \in E!Made : eRow'[f].status = eRow[f].status
    <3>1. PICK e \in E!Made : eRow' = [eRow EXCEPT ![e].over = TRUE]
      BY <1>2 DEF E!Lapse
    <3>2. PICK q \in E!Row : q = eRow[e] /\ e \in Requests
      BY RowShape DEF EInv, E!Made
    <3>3. PICK n : n = [q EXCEPT !.over = TRUE]
      OBVIOUS
    <3>4. n.status = q.status /\ eRow' = [eRow EXCEPT ![e] = n]
      BY <3>1, <3>2, <3>3 DEF E!Row
    <3>. QED  BY <3>2, <3>4 DEF EInv, ETyped, E!Made
  <2>. QED  BY <2>1, ReadyStays
<1>3. CASE E!Cancel
  <2>1. PICK e \in E!Made :
          eRow' = [eRow EXCEPT ![e] = [E!NoLease(eRow[e]) EXCEPT !.status = "cancelled"]]
    BY <1>3 DEF E!Cancel
  <2>2. PICK q \in E!Row : q = eRow[e] /\ e \in Requests
    BY RowShape DEF EInv, E!Made
  <2>3. PICK n : n = [E!NoLease(q) EXCEPT !.status = "cancelled"]
    OBVIOUS
  <2>4. n.status = "cancelled" /\ eRow' = [eRow EXCEPT ![e] = n]
    BY <2>1, <2>2, <2>3, NoLeaseShape DEF EInv
  <2>5. \A f \in E!Made : eRow'[f].status = "ready" => eRow[f].status = "ready"
    BY <2>2, <2>4 DEF EInv, ETyped, E!Made
  <2>. QED  BY <2>5, ReadyStays
<1>4. ASSUME NEW c \in Calls, E!Claim(c)
      PROVE  ReadyStep
  <2>1. PICK e \in E!Made, a \in Keys :
          eRow' = [eRow EXCEPT ![e].status = "preparing", ![e].lease = a, ![e].over = FALSE]
    BY <1>4 DEF E!Claim
  <2>2. PICK q \in E!Row : q = eRow[e] /\ e \in Requests
    BY RowShape DEF EInv, E!Made
  <2>3. PICK n : n = [q EXCEPT !.status = "preparing", !.lease = a, !.over = FALSE]
    OBVIOUS
  <2>4. n.status = "preparing" /\ eRow' = [eRow EXCEPT ![e] = n]
    BY <2>1, <2>2, <2>3 DEF E!Row
  <2>5. \A f \in E!Made : eRow'[f].status = "ready" => eRow[f].status = "ready"
    BY <2>2, <2>4 DEF EInv, ETyped, E!Made
  <2>. QED  BY <2>5, ReadyStays
<1>5. ASSUME NEW c \in Calls, E!Finish(c)
      PROVE  ReadyStep
  <2>1. PICK a : a = eCalls[c].on
    OBVIOUS
  <2>2. /\ a \in Keys /\ eAttempt[a] \in E!Attempt /\ eAttempt[a].of \in E!Made
        /\ eAttempt[a].state = "reserved"
    BY <1>5, <2>1, FinishShape
  <2>3. PICK e \in E!Made : e = eAttempt[a].of
    BY <2>2
  <2>4. PICK q \in E!Row : q = eRow[e] /\ e \in Requests
    BY RowShape DEF EInv, E!Made
  <2>5. CASE eCalls[c].ok /\ E!AsPreviewed(e)
    <3>1. /\ eAttempt' = [eAttempt EXCEPT ![a].state = "verified", ![a].selected = TRUE]
          /\ eRow' = [eRow EXCEPT ![e] = E!Sealed(E!NoLease(eRow[e]), E!Kept(e) \cup {eAttempt[a].slot})]
      BY <1>5, <2>1, <2>3, <2>5 DEF E!Finish
    <3>2. PICK r : r = E!Sealed(E!NoLease(q), E!Kept(e) \cup {eAttempt[a].slot})
      OBVIOUS
    <3>3. r.status = "ready" => q.status = "ready" \/ E!Kept(e) \cup {eAttempt[a].slot} = q.files
      BY <3>2, SealShape DEF EInv
    <3>4. eRow' = [eRow EXCEPT ![e] = r]
      BY <2>4, <3>1, <3>2
    <3>5. /\ eAttempt'[a].selected = TRUE /\ eAttempt'[a].slot = eAttempt[a].slot
          /\ \A x \in Keys : x # a => eAttempt'[x] = eAttempt[x]
      BY <2>2, <3>1 DEF EInv, ETyped, E!Attempt
    <3>6. a \in E!Tried(e) /\ E!Tried(e) \subseteq Keys
      BY <2>2, <2>3 DEF E!Tried
    <3>7. {eAttempt'[x].slot : x \in {y \in E!Tried(e) : eAttempt'[y].selected}}
            = E!Kept(e) \cup {eAttempt[a].slot}
      <4>1. {y \in E!Tried(e) : eAttempt'[y].selected} = E!Selected(e) \cup {a}
        BY <3>5, <3>6 DEF E!Selected
      <4>2. \A x \in E!Selected(e) : x \in Keys
        BY <3>6 DEF E!Selected
      <4>. QED  BY <3>5, <4>1, <4>2 DEF E!Kept
    <3>8. \A f \in E!Made : f # e => eRow'[f] = eRow[f]
      BY <2>4, <3>4 DEF EInv, ETyped, E!Made
    <3>9. eRow'[e] = r
      BY <2>4, <3>4 DEF EInv, ETyped
    <3>. QED  BY <2>4, <2>5, <3>3, <3>7, <3>8, <3>9 DEF ReadyStep, E!AsPreviewed
  <2>6. CASE ~(eCalls[c].ok /\ E!AsPreviewed(e))
    <3>1. eRow' = [eRow EXCEPT ![e] = [E!NoLease(eRow[e]) EXCEPT !.status = "failed"]]
      BY <1>5, <2>1, <2>3, <2>6 DEF E!Finish
    <3>2. PICK n : n = [E!NoLease(q) EXCEPT !.status = "failed"]
      OBVIOUS
    <3>3. n.status = "failed" /\ eRow' = [eRow EXCEPT ![e] = n]
      BY <2>4, <3>1, <3>2, NoLeaseShape DEF EInv
    <3>4. \A f \in E!Made : eRow'[f].status = "ready" => eRow[f].status = "ready"
      BY <2>4, <3>3 DEF EInv, ETyped, E!Made
    <3>. QED  BY <3>4, ReadyStays
  <2>. QED  BY <2>5, <2>6
<1>6. CASE UNCHANGED eRow
  BY <1>6, ReadyStays
<1>7. \A c \in Calls : (E!Cleaning(c) \/ E!Downloading(c) \/ E!Copy(c) \/ E!TooLate(c) \/ E!Lost(c))
         => UNCHANGED eRow
  BY DEF E!Cleaning, E!Downloading, E!Reserve, E!Delete, E!Resolve, E!Compare, E!Sign, E!Copy, E!TooLate, E!Lost
<1>8. (E!ChangeSource \/ UNCHANGED E!vars) => UNCHANGED eRow
  BY DEF E!ChangeSource, E!vars
<1>. QED  BY <1>1, <1>2, <1>3, <1>4, <1>5, <1>6, <1>7, <1>8 DEF E!Next, E!Preserving

-----------------------------------------------------------------------------
(* VerificationJudgement.  A judge looks at the files one at a time, outside*)
(* any transaction, and decides much later.  That his decision rests on what*)
(* he saw follows from the lease: while it is his, nobody changes what the  *)
(* review has seen.  That it rests on the ground of the request follows from*)
(* the locks a decision holds from its comparison to its commit.            *)

Absent == [status |-> "absent"]
MadeRow == {q \in J!Row : q.status # "absent"}
Rest == [at |-> "idle"]
Held ==
    [at : {"reading"}, on : Requests, session : Sessions, result : J!Statuses \cup {None},
     file : Files \cup {None}]
Found ==
    [at : {"read", "weighing"}, on : Requests, session : Sessions,
     result : J!Statuses \cup {None}, file : Files \cup {None}, ok : BOOLEAN]
Failing ==
    [at : {"weighing"}, on : Requests, session : Sessions, result : {"failed"}]
CallRow == {Rest} \cup Held \cup Found \cup Failing

GroundTyped ==
    /\ jPlan \in [version : 0 .. MaxVersion, covered : BOOLEAN]
    /\ jSource \in J!Versions /\ jJudge \in J!Versions /\ jObjection \in BOOLEAN
    /\ jRuns \in Seq([status : J!Statuses, source : J!Versions])
RequestTyped == jRequest \in [Requests -> {Absent} \cup MadeRow]
CallTyped == jCalls \in [Calls -> CallRow]
JTyped == GroundTyped /\ RequestTyped /\ CallTyped

\* The requests form one line.
Line ==
    /\ \A r \in J!Made : jRequest[r].previous \in J!Made \cup {None}
    /\ \A a, b \in J!Terminal : a = b
    /\ \A r \in J!Made : jRequest[r].status = "requested" => r \in J!Terminal

\* What a review has seen it saw in its session, and a decision keeps it.
Covers(q) == {x[1] : x \in q.review.seen}
RowFits(q) ==
    /\ \A x \in q.review.seen : x[2] = q.review.session
    /\ (q.status = "decided" /\ q.result # "failed") =>
          \A f \in Files : <<f, q.by>> \in q.review.seen
RowsFit == \A r \in J!Made : RowFits(jRequest[r])

\* While the lease is the call's own, the review is the one it claimed.
ClaimFits(c) ==
    jCalls[c].at \in {"reading", "read"} =>
        /\ jCalls[c].on \in J!Made
        /\ jCalls[c].result = None => jCalls[c].file \in Files
        /\ jRequest[jCalls[c].on].lease = c =>
              /\ jRequest[jCalls[c].on].review.session = jCalls[c].session
              /\ jCalls[c].result # None => Covers(jRequest[jCalls[c].on]) = Files
\* What a decision compared holds until it commits.
WeighFits(c) ==
    jCalls[c].at = "weighing" =>
        /\ jCalls[c].on \in J!Made /\ jRequest[jCalls[c].on].status = "requested"
        /\ jRequest[jCalls[c].on].basis.judge = jJudge
        /\ jRequest[jCalls[c].on].review.session = jCalls[c].session
        /\ jCalls[c].result # "failed" =>
              /\ Covers(jRequest[jCalls[c].on]) = Files
              /\ jRequest[jCalls[c].on].basis.plan = jPlan.version
              /\ jRequest[jCalls[c].on].basis.source = jSource
              /\ jRequest[jCalls[c].on].basis.runs = J!Observed
              /\ jPlan.covered /\ J!Last.source = jSource /\ J!Last.status = jCalls[c].result
CallFits(c) == ClaimFits(c) /\ WeighFits(c)
OneWeighs ==
    \A c, d \in Calls :
        (jCalls[c].at = "weighing" /\ jCalls[d].at = "weighing" /\ jCalls[c].on = jCalls[d].on) => c = d
CallsFit == (\A c \in Calls : CallFits(c)) /\ OneWeighs

JInv == JTyped /\ Line /\ RowsFit /\ CallsFit

-----------------------------------------------------------------------------
(* The shapes of calls and rows.                                             *)

LEMMA CallShape ==
    ASSUME CallTyped, NEW c \in Calls
    PROVE  /\ jCalls[c].at = "reading" => jCalls[c] \in Held
           /\ jCalls[c].at = "read" => jCalls[c] \in Found
           /\ jCalls[c].at = "weighing" => jCalls[c] \in Found \cup Failing
           /\ jCalls[c].at \in {"idle", "reading", "read", "weighing"}
BY DEF CallTyped, CallRow, Rest, Held, Found, Failing

LEMMA MadeShape ==
    ASSUME RequestTyped, NEW r \in Requests
    PROVE  /\ r \in J!Made <=> jRequest[r] \in MadeRow
           /\ jRequest[r] \in MadeRow => jRequest[r] \in J!Row /\ jRequest[r].status # "absent"
           /\ Absent \notin MadeRow
BY DEF RequestTyped, J!Made, MadeRow, Absent, J!Row

\* What a row keeps of the review.
Loyal(q, n) == n.review.session = q.review.session /\ n.review.seen = q.review.seen

LEMMA CallKept ==
    ASSUME JInv, NEW d \in Calls, jCalls'[d] = jCalls[d], J!Made \subseteq J!Made',
           jCalls[d].at = "weighing" => UNCHANGED <<jPlan, jSource, jRuns, jJudge>>,
           jCalls[d].at # "idle" =>
               LET q == jRequest[jCalls[d].on]
                   n == jRequest'[jCalls[d].on]
               IN  /\ n.lease = d => q.lease = d /\ Loyal(q, n)
                   /\ jCalls[d].at = "weighing" =>
                         n.status = q.status /\ n.basis = q.basis /\ Loyal(q, n)
    PROVE  CallFits(d)'
<1>1. ClaimFits(d) /\ WeighFits(d)
  BY DEF JInv, CallsFit, CallFits
<1>2. ClaimFits(d)'
  BY <1>1 DEF ClaimFits, Loyal, Covers
<1>3. WeighFits(d)'
  BY <1>1 DEF WeighFits, Loyal, Covers, J!Observed, J!Last
<1>. QED  BY <1>2, <1>3 DEF CallFits

\* One call moves on to m, or none.
Moves(c, m) ==
    IF c \in Calls
    THEN /\ m \in CallRow /\ jCalls' = [jCalls EXCEPT ![c] = m]
         /\ CallFits(c)'
         /\ m.at = "weighing" =>
              \A d \in Calls : (d # c /\ jCalls[d].at = "weighing") => jCalls[d].on # m.on
    ELSE UNCHANGED jCalls

LEMMA CallsAfter ==
    ASSUME JInv, NEW c, NEW m, Moves(c, m), \A d \in Calls : d # c => CallFits(d)'
    PROVE  CallTyped' /\ CallsFit'
<1>1. CASE c \notin Calls
  <2>1. UNCHANGED jCalls
    BY <1>1 DEF Moves
  <2>. QED  BY <1>1, <2>1 DEF JInv, JTyped, CallTyped, CallsFit, OneWeighs
<1>2. CASE c \in Calls
  <2>1. /\ m \in CallRow /\ jCalls' = [jCalls EXCEPT ![c] = m] /\ CallFits(c)'
        /\ m.at = "weighing" =>
             \A d \in Calls : (d # c /\ jCalls[d].at = "weighing") => jCalls[d].on # m.on
    BY <1>2 DEF Moves
  <2>2. jCalls'[c] = m /\ \A d \in Calls : d # c => jCalls'[d] = jCalls[d]
    BY <1>2, <2>1 DEF JInv, JTyped, CallTyped
  <2>3. CallTyped'
    BY <2>1 DEF JInv, JTyped, CallTyped
  <2>4. OneWeighs'
    BY <2>1, <2>2 DEF JInv, CallsFit, OneWeighs
  <2>5. \A d \in Calls : CallFits(d)'
    BY <2>1
  <2>. QED  BY <2>3, <2>4, <2>5 DEF CallsFit
<1>. QED  BY <1>1, <1>2

\* Nobody but c weighs this row.
Alone(c, r) == \A d \in Calls : (d # c /\ jCalls[d].at = "weighing") => jCalls[d].on # r

\* A row of a request changes, and perhaps a call.
LEMMA RowStep ==
    ASSUME JInv, NEW r \in J!Made, NEW q \in MadeRow, q = jRequest[r], NEW n \in MadeRow,
           jRequest' = [jRequest EXCEPT ![r] = n],
           n.previous = q.previous, n.basis = q.basis,
           n.status = "requested" => q.status = "requested",
           RowFits(n), UNCHANGED <<jPlan, jSource, jRuns, jJudge, jObjection>>,
           NEW c, NEW m, Moves(c, m),
           n.lease \in Calls \ {c} => q.lease = n.lease /\ Loyal(q, n),
           (n.status = q.status /\ Loyal(q, n)) \/ Alone(c, r)
    PROVE  JInv'
<1>1. jRequest'[r] = n /\ \A x \in Requests : x # r => jRequest'[x] = jRequest[x]
  BY DEF JInv, JTyped, RequestTyped, J!Made
<1>2. RequestTyped' /\ r \in Requests
  BY DEF JInv, JTyped, RequestTyped, J!Made
<1>3. J!Made' = J!Made
  BY <1>1, <1>2 DEF J!Made, MadeRow
<1>4. J!Terminal' = J!Terminal
  BY <1>1, <1>3 DEF J!Terminal, J!Made
<1>5. Line'
  BY <1>1, <1>3, <1>4 DEF JInv, Line, J!Made
<1>6. RowsFit'
  BY <1>1, <1>3 DEF JInv, RowsFit, J!Made
<1>7. \A d \in Calls : d # c => CallFits(d)'
  <2>. SUFFICES ASSUME NEW d \in Calls, d # c PROVE CallFits(d)'
    OBVIOUS
  <2>1. jCalls'[d] = jCalls[d]
    BY DEF Moves, JInv, JTyped, CallTyped
  <2>2. CASE jCalls[d].at # "idle"
    <3>1. PICK x \in Requests : x = jCalls[d].on
      BY <2>2, CallShape DEF JInv, JTyped, Held, Found, Failing
    <3>2. CASE x = r
      BY <1>1, <1>3, <2>1, <3>1, <3>2, CallKept DEF Alone
    <3>3. CASE x # r
      BY <1>1, <1>3, <2>1, <3>1, <3>3, CallKept DEF Loyal
    <3>. QED  BY <3>2, <3>3
  <2>3. CASE jCalls[d].at = "idle"
    BY <1>3, <2>1, <2>3, CallKept
  <2>. QED  BY <2>2, <2>3
<1>8. CallTyped' /\ CallsFit'
  BY <1>7, CallsAfter
<1>9. GroundTyped'
  BY DEF JInv, JTyped, GroundTyped
<1>. QED  BY <1>2, <1>5, <1>6, <1>8, <1>9 DEF JInv, JTyped

\* A call moves on and no row changes.
LEMMA CallStep ==
    ASSUME JInv, UNCHANGED <<jRequest, jPlan, jSource, jRuns, jJudge, jObjection>>,
           NEW c, NEW m, Moves(c, m)
    PROVE  JInv'
<1>1. J!Made' = J!Made /\ J!Terminal' = J!Terminal
  BY DEF J!Made, J!Terminal
<1>2. RequestTyped' /\ Line' /\ RowsFit' /\ GroundTyped'
  BY <1>1 DEF JInv, JTyped, RequestTyped, Line, RowsFit, GroundTyped
<1>3. \A d \in Calls : d # c => CallFits(d)'
  <2>. SUFFICES ASSUME NEW d \in Calls, d # c PROVE CallFits(d)'
    OBVIOUS
  <2>1. jCalls'[d] = jCalls[d]
    BY DEF Moves, JInv, JTyped, CallTyped
  <2>. QED  BY <1>1, <2>1, CallKept DEF Loyal
<1>. QED  BY <1>2, <1>3, CallsAfter DEF JInv, JTyped

\* The ground moves while nobody weighs, or something that nobody compares under a lock.
LEMMA GroundStep ==
    ASSUME JInv, UNCHANGED <<jRequest, jCalls>>, GroundTyped',
           J!Weighing = {} \/ UNCHANGED <<jPlan, jSource, jRuns, jJudge>>
    PROVE  JInv'
<1>1. J!Made' = J!Made /\ J!Terminal' = J!Terminal
  BY DEF J!Made, J!Terminal
<1>2. RequestTyped' /\ Line' /\ RowsFit' /\ CallTyped' /\ OneWeighs'
  BY <1>1 DEF JInv, JTyped, RequestTyped, Line, RowsFit, CallTyped, CallsFit, OneWeighs
<1>3. \A d \in Calls : CallFits(d)'
  BY <1>1, CallKept DEF Loyal, J!Weighing
<1>. QED  BY <1>2, <1>3 DEF JInv, JTyped, CallsFit

-----------------------------------------------------------------------------
(* Changes of a row.                                                         *)

LEMMA Freed ==
    ASSUME NEW q \in MadeRow
    PROVE  /\ J!Free(q) \in MadeRow /\ J!Free(q).lease = None /\ J!Free(q).status = q.status
           /\ J!Free(q).previous = q.previous /\ J!Free(q).basis = q.basis
           /\ J!Free(q).review = q.review /\ J!Free(q).result = q.result /\ J!Free(q).by = q.by
<1>1. PICK n : n = [q EXCEPT !.lease = None, !.over = FALSE]
  OBVIOUS
<1>2. n \in J!Row
  BY <1>1, Zenon DEF MadeRow, J!Row
<1>3. /\ n.lease = None /\ n.status = q.status /\ n.previous = q.previous
      /\ n.basis = q.basis /\ n.review = q.review /\ n.result = q.result /\ n.by = q.by
  BY <1>1 DEF MadeRow, J!Row
<1>. QED  BY <1>1, <1>2, <1>3 DEF J!Free, MadeRow

LEMMA Reviewed ==
    ASSUME NEW q \in MadeRow, NEW v \in J!Review
    PROVE  LET n == [q EXCEPT !.review = v]
           IN  /\ n \in MadeRow /\ n.review = v /\ n.lease = q.lease /\ n.status = q.status
               /\ n.previous = q.previous /\ n.basis = q.basis /\ n.result = q.result
               /\ n.by = q.by
<1>1. PICK n : n = [q EXCEPT !.review = v]
  OBVIOUS
<1>2. n \in J!Row
  BY <1>1, Zenon DEF MadeRow, J!Row
<1>3. /\ n.review = v /\ n.lease = q.lease /\ n.status = q.status /\ n.previous = q.previous
      /\ n.basis = q.basis /\ n.result = q.result /\ n.by = q.by
  BY <1>1 DEF MadeRow, J!Row
<1>. QED  BY <1>1, <1>2, <1>3 DEF MadeRow

LEMMA MadeRowFits ==
    ASSUME JInv, NEW r \in J!Made
    PROVE  /\ r \in Requests /\ jRequest[r] \in MadeRow /\ RowFits(jRequest[r])
           /\ jRequest[r].review \in J!Review
           /\ jRequest[r].review.seen \subseteq Files \X Sessions
BY MadeShape DEF JInv, JTyped, RowsFit, J!Made, MadeRow, J!Row, J!Review

\* Nobody's call moves.
LEMMA NoCall ==
    ASSUME NEW c, c \notin Calls, UNCHANGED jCalls, NEW m
    PROVE  Moves(c, m)
BY DEF Moves

LEMMA JCallRests ==
    ASSUME JInv, NEW c \in Calls, J!Idle(c)
    PROVE  Moves(c, Rest)
<1>1. jCalls' = [jCalls EXCEPT ![c] = Rest] /\ jCalls'[c] = Rest /\ Rest \in CallRow
  BY DEF J!Idle, Rest, CallRow, JInv, JTyped, CallTyped
<1>2. CallFits(c)'
  BY <1>1 DEF CallFits, ClaimFits, WeighFits, Rest
<1>. QED  BY <1>1, <1>2 DEF Moves, Rest

-----------------------------------------------------------------------------
(* Every step keeps the invariant.                                           *)

LEMMA JKeepGround ==
    ASSUME JInv, JSensible, J!SavePlan \/ J!EditCase \/ J!RunTest \/ J!Requalify \/ J!Object \/ J!LoseFile
    PROVE  JInv'
<1>1. UNCHANGED <<jRequest, jCalls>>
  BY DEF J!SavePlan, J!EditCase, J!RunTest, J!Requalify, J!Object, J!LoseFile, J!ground
<1>2. J!Weighing = {} \/ UNCHANGED <<jPlan, jSource, jRuns, jJudge>>
  BY DEF J!SavePlan, J!EditCase, J!RunTest, J!Requalify, J!Object, J!LoseFile, J!ground, J!GroundFree
<1>3. CASE J!SavePlan
  <2>1. PICK b \in BOOLEAN : jPlan' = [version |-> jPlan.version + 1, covered |-> b]
    BY <1>3 DEF J!SavePlan
  <2>2. jPlan.version \in 0 .. MaxVersion /\ jPlan.version < MaxVersion
    BY <1>3 DEF J!SavePlan, JInv, JTyped, GroundTyped
  <2>3. jPlan.version + 1 \in 0 .. MaxVersion
    BY <2>2 DEF JSensible
  <2>4. jPlan' \in [version : 0 .. MaxVersion, covered : BOOLEAN]
    BY <2>1, <2>3, Zenon
  <2>5. GroundTyped'
    BY <1>3, <2>4 DEF J!SavePlan, JInv, JTyped, GroundTyped
  <2>. QED  BY <1>1, <1>2, <2>5, GroundStep
<1>4. CASE J!RunTest
  <2>1. PICK s \in J!Statuses : jRuns' = Append(jRuns, [status |-> s, source |-> jSource])
    BY <1>4 DEF J!RunTest
  <2>2. jRuns' \in Seq([status : J!Statuses, source : J!Versions])
    BY <2>1 DEF JInv, JTyped, GroundTyped
  <2>3. GroundTyped'
    BY <1>4, <2>2 DEF J!RunTest, JInv, JTyped, GroundTyped
  <2>. QED  BY <1>1, <1>2, <2>3, GroundStep
<1>5. CASE J!EditCase \/ J!Requalify
  <2>1. GroundTyped'
    BY <1>5 DEF J!EditCase, J!Requalify, JInv, JTyped, GroundTyped, J!Versions, JSensible
  <2>. QED  BY <1>1, <1>2, <2>1, GroundStep
<1>6. CASE J!Object \/ J!LoseFile
  <2>1. GroundTyped'
    BY <1>6 DEF J!Object, J!LoseFile, J!ground, JInv, JTyped, GroundTyped
  <2>. QED  BY <1>1, <1>2, <2>1, GroundStep
<1>. QED  BY <1>3, <1>4, <1>5, <1>6

LEMMA JKeepStartReview ==
    ASSUME JInv, J!StartReview, JSensible
    PROVE  JInv'
<1>1. PICK r \in J!Made, s \in Sessions :
        /\ jRequest[r].status = "requested" /\ J!RowFree(r)
        /\ jRequest' = [jRequest EXCEPT ![r] =
              [jRequest[r] EXCEPT !.review = [session |-> s, live |-> TRUE, seen |-> {}],
                                 !.lease = None, !.over = FALSE]]
  BY DEF J!StartReview, J!Set
<1>2. UNCHANGED <<jPlan, jSource, jRuns, jJudge, jObjection, jCalls>>
  BY DEF J!StartReview, J!ground
<1>3. PICK q \in MadeRow : q = jRequest[r]
  BY MadeRowFits
<1>4. PICK v : v = [session |-> s, live |-> TRUE, seen |-> {}]
  OBVIOUS
<1>5. v \in J!Review /\ v.seen = {} /\ v.session = s
  BY <1>4 DEF J!Review
<1>6. PICK w \in MadeRow :
        /\ w = [q EXCEPT !.review = v]
        /\ w.review = v /\ w.status = q.status /\ w.previous = q.previous /\ w.basis = q.basis
  BY <1>5, Reviewed
<1>7. PICK n : n = J!Free(w)
  OBVIOUS
<1>8. /\ n \in MadeRow /\ n.lease = None /\ n.status = "requested" /\ n.previous = q.previous
      /\ n.basis = q.basis /\ n.review = v
  BY <1>1, <1>3, <1>6, <1>7, Freed
<1>9. n = [q EXCEPT !.review = v, !.lease = None, !.over = FALSE]
  BY <1>6, <1>7 DEF J!Free
<1>10. jRequest' = [jRequest EXCEPT ![r] = n]
  BY <1>1, <1>3, <1>4, <1>9
<1>11. RowFits(n)
  BY <1>5, <1>8 DEF RowFits
<1>12. PICK c : c \notin Calls
  BY NoSetContainsEverything
<1>13. Alone(c, r)
  BY <1>1 DEF J!RowFree, J!Weighing, Alone
<1>14. n.lease \notin Calls \ {c}
  BY <1>8 DEF JSensible
<1>15. Moves(c, Rest)
  BY <1>2, <1>12, NoCall
<1>. QED
  BY <1>1, <1>2, <1>3, <1>8, <1>10, <1>11, <1>13, <1>14, <1>15, RowStep

LEMMA JKeepLapse ==
    ASSUME JInv, J!Lapse
    PROVE  JInv'
<1>1. PICK r \in J!Made :
        \/ jRequest' = [jRequest EXCEPT ![r] = [jRequest[r] EXCEPT !.review =
                                                [jRequest[r].review EXCEPT !.live = FALSE]]]
        \/ jRequest' = [jRequest EXCEPT ![r] = [jRequest[r] EXCEPT !.over = TRUE]]
  BY DEF J!Lapse, J!Set
<1>2. UNCHANGED <<jPlan, jSource, jRuns, jJudge, jObjection, jCalls>>
  BY DEF J!Lapse, J!ground
<1>3. PICK q \in MadeRow : q = jRequest[r] /\ q.review \in J!Review /\ RowFits(q)
  BY MadeRowFits
<1>4. PICK c : c \notin Calls
  BY NoSetContainsEverything
<1>5. PICK n \in MadeRow :
        /\ jRequest' = [jRequest EXCEPT ![r] = n]
        /\ n.status = q.status /\ n.previous = q.previous /\ n.basis = q.basis
        /\ n.lease = q.lease /\ n.result = q.result /\ n.by = q.by /\ Loyal(q, n)
  <2>1. CASE jRequest' = [jRequest EXCEPT ![r] = [jRequest[r] EXCEPT !.review =
                                                 [jRequest[r].review EXCEPT !.live = FALSE]]]
    <3>1. PICK w \in J!Review : w = q.review
      BY <1>3
    <3>2. PICK v : v = [w EXCEPT !.live = FALSE]
      OBVIOUS
    <3>3. v \in J!Review /\ v.session = w.session /\ v.seen = w.seen
      BY <3>2 DEF J!Review
    <3>4. jRequest' = [jRequest EXCEPT ![r] = [q EXCEPT !.review = v]]
      BY <1>3, <2>1, <3>1, <3>2
    <3>5. PICK n \in MadeRow :
            /\ n = [q EXCEPT !.review = v] /\ n.review = v /\ n.lease = q.lease
            /\ n.status = q.status /\ n.previous = q.previous /\ n.basis = q.basis
            /\ n.result = q.result /\ n.by = q.by
      BY <3>3, Reviewed
    <3>. QED  BY <3>1, <3>3, <3>4, <3>5 DEF Loyal
  <2>2. CASE jRequest' = [jRequest EXCEPT ![r] = [jRequest[r] EXCEPT !.over = TRUE]]
    <3>1. PICK n : n = [q EXCEPT !.over = TRUE]
      OBVIOUS
    <3>2. n \in J!Row
      BY <3>1, Zenon DEF MadeRow, J!Row
    <3>3. /\ n.status = q.status /\ n.previous = q.previous /\ n.basis = q.basis
          /\ n.lease = q.lease /\ n.result = q.result /\ n.by = q.by /\ n.review = q.review
      BY <3>1 DEF MadeRow, J!Row
    <3>. QED  BY <1>3, <2>2, <3>1, <3>2, <3>3 DEF MadeRow, Loyal
  <2>. QED  BY <1>1, <2>1, <2>2
<1>6. RowFits(n)
  BY <1>3, <1>5 DEF RowFits, Loyal
<1>7. Moves(c, Rest)
  BY <1>2, <1>4, NoCall
<1>. QED  BY <1>2, <1>3, <1>5, <1>6, <1>7, RowStep

LEMMA JKeepClaim ==
    ASSUME JInv, NEW c \in Calls, J!Claim(c)
    PROVE  JInv'
<1>1. PICK r \in J!Made, s \in Sessions, result \in J!Statuses \cup {None} :
        /\ J!ReviewValid(r, s) /\ J!RowFree(r)
        /\ result = None <=> J!Checked(r) # Files
        /\ \E f \in IF result = None THEN Files \ J!Checked(r) ELSE {None} :
             jCalls' = [jCalls EXCEPT ![c] = [at |-> "reading", on |-> r, session |-> s,
                                            result |-> result, file |-> f]]
        /\ jRequest' = [jRequest EXCEPT ![r] = [jRequest[r] EXCEPT !.lease = c, !.over = FALSE]]
  BY DEF J!Claim, J!Set
<1>2. UNCHANGED <<jPlan, jSource, jRuns, jJudge, jObjection>>
  BY DEF J!Claim, J!ground
<1>3. PICK q \in MadeRow :
        q = jRequest[r] /\ q.review \in J!Review /\ RowFits(q) /\ r \in Requests
  BY MadeRowFits
<1>4. PICK f \in Files \cup {None} :
        /\ result = None => f \in Files
        /\ jCalls' = [jCalls EXCEPT ![c] = [at |-> "reading", on |-> r, session |-> s,
                                          result |-> result, file |-> f]]
  BY <1>1
<1>5. PICK m : m = [at |-> "reading", on |-> r, session |-> s, result |-> result, file |-> f]
  OBVIOUS
<1>6. /\ m \in Held /\ m.at = "reading" /\ m.on = r /\ m.session = s /\ m.result = result
      /\ m.file = f
  BY <1>3, <1>5 DEF Held
<1>7. PICK n : n = [q EXCEPT !.lease = c, !.over = FALSE]
  OBVIOUS
<1>8. n \in J!Row
  BY <1>7, Zenon DEF MadeRow, J!Row
<1>9. /\ n.status = q.status /\ n.previous = q.previous /\ n.basis = q.basis /\ n.lease = c
      /\ n.result = q.result /\ n.by = q.by /\ n.review = q.review
  BY <1>7 DEF MadeRow, J!Row
<1>10. n \in MadeRow /\ RowFits(n) /\ Loyal(q, n) /\ jRequest' = [jRequest EXCEPT ![r] = n]
  BY <1>1, <1>3, <1>7, <1>8, <1>9 DEF MadeRow, RowFits, Loyal
<1>11. jCalls' = [jCalls EXCEPT ![c] = m] /\ jCalls'[c] = m
  BY <1>4, <1>5 DEF JInv, JTyped, CallTyped
<1>12. jRequest'[r] = n /\ r \in J!Made'
  BY <1>3, <1>10 DEF JInv, JTyped, RequestTyped, J!Made, MadeRow
<1>13. Covers(n) = J!Checked(r)
  BY <1>3, <1>9 DEF Covers, J!Checked
<1>14. CallFits(c)'
  <2>1. ClaimFits(c)'
    BY <1>1, <1>3, <1>4, <1>6, <1>9, <1>11, <1>12, <1>13 DEF ClaimFits, J!ReviewValid, Covers
  <2>2. WeighFits(c)'
    BY <1>6, <1>11 DEF WeighFits
  <2>. QED  BY <2>1, <2>2 DEF CallFits
<1>15. Moves(c, m)
  BY <1>6, <1>11, <1>14 DEF Moves, CallRow
<1>. QED  BY <1>2, <1>3, <1>9, <1>10, <1>15, RowStep

LEMMA JKeepInspect ==
    ASSUME JInv, NEW c \in Calls, J!Inspect(c)
    PROVE  JInv'
<1>1. PICK h \in Held : h = jCalls[c]
  BY CallShape DEF JInv, JTyped, J!Inspect
<1>2. PICK ok \in BOOLEAN :
        jCalls' = [jCalls EXCEPT ![c] = [at |-> "read", on |-> h.on, session |-> h.session,
                                       result |-> h.result, file |-> h.file, ok |-> ok]]
  BY <1>1, Zenon DEF J!Inspect
<1>3. PICK m : m = [at |-> "read", on |-> h.on, session |-> h.session, result |-> h.result,
                    file |-> h.file, ok |-> ok]
  OBVIOUS
<1>4. m \in Found
  BY <1>3, Zenon DEF Held, Found
<1>5. /\ m.at = "read" /\ m.on = h.on /\ m.session = h.session /\ m.result = h.result
      /\ m.file = h.file
  BY <1>3
<1>6. jCalls' = [jCalls EXCEPT ![c] = m] /\ jCalls'[c] = m
  BY <1>2, <1>3 DEF JInv, JTyped, CallTyped
<1>7. UNCHANGED <<jRequest, jPlan, jSource, jRuns, jJudge, jObjection>> /\ J!Made' = J!Made
  BY DEF J!Inspect, J!ground, J!Made
<1>8. ClaimFits(c) /\ h.at = "reading"
  BY <1>1 DEF JInv, CallsFit, CallFits, J!Inspect
<1>9. CallFits(c)'
  BY <1>1, <1>5, <1>6, <1>7, <1>8 DEF CallFits, ClaimFits, WeighFits, Covers
<1>10. Moves(c, m)
  BY <1>4, <1>5, <1>6, <1>9 DEF Moves, CallRow
<1>. QED  BY <1>7, <1>10, CallStep

LEMMA ReadShape ==
    ASSUME JInv, NEW c \in Calls, jCalls[c].at = "read"
    PROVE  /\ jCalls[c] \in Found /\ jCalls[c].on \in J!Made /\ ClaimFits(c)
BY CallShape DEF JInv, JTyped, CallsFit, CallFits, ClaimFits

LEMMA JKeepFinishFile ==
    ASSUME JInv, NEW c \in Calls, J!FinishFile(c), JSensible
    PROVE  JInv'
<1>1. PICK r \in J!Made : r = jCalls[c].on
  BY ReadShape DEF J!FinishFile
<1>2. PICK q \in MadeRow :
        q = jRequest[r] /\ q.review \in J!Review /\ RowFits(q) /\ r \in Requests
  BY MadeRowFits
<1>3. PICK h \in Found : h = jCalls[c] /\ ClaimFits(c) /\ h.at = "read" /\ h.result = None
  BY ReadShape DEF J!FinishFile
<1>4. /\ q.status = "requested" /\ q.lease = c /\ q.review.session = h.session
      /\ Alone(c, r)
  BY <1>1, <1>2, <1>3 DEF J!FinishFile, J!StillClaimed, J!ReviewValid, J!RowFree, J!Weighing, Alone
<1>5. h.file \in Files /\ h.session \in Sessions
  BY <1>1, <1>3 DEF ClaimFits, Found
<1>6. PICK w \in MadeRow :
        /\ w = J!Free(q) /\ w.lease = None /\ w.status = q.status /\ w.previous = q.previous
        /\ w.basis = q.basis /\ w.review = q.review
  BY Freed
<1>7. PICK found \in SUBSET {<<h.file, h.session>>} :
        jRequest' = [jRequest EXCEPT ![r] = [w EXCEPT !.review.seen = @ \cup found]]
  BY <1>1, <1>2, <1>3, <1>6 DEF J!FinishFile, J!Set
<1>8. PICK u \in J!Review : u = w.review
  BY <1>2, <1>6
<1>9. PICK v : v = [u EXCEPT !.seen = @ \cup found]
  OBVIOUS
<1>10. /\ v.session = u.session /\ v.seen = u.seen \cup found
       /\ v \in J!Review
  <2>1. u.seen \cup found \in SUBSET (Files \X Sessions)
    BY <1>5 DEF J!Review
  <2>2. v \in J!Review
    BY <1>9, <2>1, Zenon DEF J!Review
  <2>. QED  BY <1>9, <2>2 DEF J!Review
<1>11. jRequest' = [jRequest EXCEPT ![r] = [w EXCEPT !.review = v]]
  BY <1>7, <1>8, <1>9
<1>12. PICK n \in MadeRow :
        /\ n = [w EXCEPT !.review = v] /\ n.review = v /\ n.lease = w.lease
        /\ n.status = w.status /\ n.previous = w.previous /\ n.basis = w.basis
  BY <1>10, Reviewed
<1>13. RowFits(n)
  BY <1>2, <1>4, <1>6, <1>8, <1>10, <1>12 DEF RowFits
<1>14. J!Idle(c) /\ UNCHANGED <<jPlan, jSource, jRuns, jJudge, jObjection>>
  BY DEF J!FinishFile, J!ground
<1>15. Moves(c, Rest)
  BY <1>14, JCallRests
<1>16. n.lease \notin Calls \ {c}
  BY <1>6, <1>12 DEF JSensible
<1>17. n.status = "requested" => q.status = "requested"
  BY <1>4
<1>18. n.previous = q.previous /\ n.basis = q.basis /\ Alone(c, r)
  BY <1>4, <1>6, <1>12
<1>19. jRequest' = [jRequest EXCEPT ![r] = n]
  BY <1>11, <1>12
<1>. QED  BY <1>2, <1>13, <1>14, <1>15, <1>16, <1>17, <1>18, <1>19, RowStep

LEMMA JKeepUnreadable ==
    ASSUME JInv, NEW c \in Calls, J!Unreadable(c), JSensible
    PROVE  JInv'
<1>1. PICK r \in J!Made : r = jCalls[c].on
  BY ReadShape DEF J!Unreadable
<1>2. PICK q \in MadeRow :
        q = jRequest[r] /\ q.review \in J!Review /\ RowFits(q) /\ r \in Requests
  BY MadeRowFits
<1>3. /\ q.status = "requested"
      /\ Alone(c, r)
  BY <1>1, <1>2 DEF J!Unreadable, J!StillClaimed, J!ReviewValid, J!RowFree, J!Weighing, Alone
<1>4. PICK w \in MadeRow :
        /\ w = J!Free(q) /\ w.lease = None /\ w.status = q.status /\ w.previous = q.previous
        /\ w.basis = q.basis /\ w.review = q.review
  BY Freed
<1>5. jRequest' = [jRequest EXCEPT ![r] = [w EXCEPT !.review.seen = {}]]
  BY <1>1, <1>2, <1>4 DEF J!Unreadable, J!Set
<1>6. PICK u \in J!Review : u = w.review
  BY <1>2, <1>4
<1>7. PICK v : v = [u EXCEPT !.seen = {}]
  OBVIOUS
<1>8. v \in J!Review /\ v.seen = {}
  BY <1>7 DEF J!Review
<1>9. jRequest' = [jRequest EXCEPT ![r] = [w EXCEPT !.review = v]]
  BY <1>5, <1>6, <1>7
<1>10. PICK n \in MadeRow :
        /\ n = [w EXCEPT !.review = v] /\ n.review = v /\ n.lease = w.lease
        /\ n.status = w.status /\ n.previous = w.previous /\ n.basis = w.basis
  BY <1>8, Reviewed
<1>11. RowFits(n)
  BY <1>3, <1>4, <1>8, <1>10 DEF RowFits
<1>12. J!Idle(c) /\ UNCHANGED <<jPlan, jSource, jRuns, jJudge, jObjection>>
  BY DEF J!Unreadable, J!ground
<1>13. Moves(c, Rest)
  BY <1>12, JCallRests
<1>14. n.lease \notin Calls \ {c}
  BY <1>4, <1>10 DEF JSensible
<1>. QED  BY <1>2, <1>3, <1>4, <1>9, <1>10, <1>11, <1>12, <1>13, <1>14, RowStep

LEMMA JKeepGiveUp ==
    ASSUME JInv, NEW c \in Calls, J!GiveUp(c), JSensible
    PROVE  JInv'
<1>1. PICK r \in J!Made : r = jCalls[c].on
  BY ReadShape DEF J!GiveUp
<1>2. J!Idle(c) /\ UNCHANGED <<jPlan, jSource, jRuns, jJudge, jObjection>>
  BY DEF J!GiveUp, J!ground
<1>3. Moves(c, Rest)
  BY <1>2, JCallRests
<1>4. CASE UNCHANGED jRequest
  BY <1>2, <1>3, <1>4, CallStep
<1>5. CASE jRequest' = [jRequest EXCEPT ![r] = J!Free(jRequest[r])]
  <2>1. PICK q \in MadeRow :
          q = jRequest[r] /\ q.review \in J!Review /\ RowFits(q) /\ r \in Requests
    BY MadeRowFits
  <2>2. PICK n \in MadeRow :
          /\ n = J!Free(q) /\ n.lease = None /\ n.status = q.status /\ n.previous = q.previous
          /\ n.basis = q.basis /\ n.review = q.review /\ n.result = q.result /\ n.by = q.by
    BY Freed
  <2>3. RowFits(n) /\ Loyal(q, n)
    BY <2>1, <2>2 DEF RowFits, Loyal
  <2>4. n.lease \notin Calls \ {c}
    BY <2>2 DEF JSensible
  <2>5. jRequest' = [jRequest EXCEPT ![r] = n]
    BY <1>5, <2>1, <2>2
  <2>. QED  BY <1>2, <1>3, <2>1, <2>2, <2>3, <2>4, <2>5, RowStep
<1>. QED  BY <1>1, <1>4, <1>5 DEF J!GiveUp, J!Set

LEMMA JKeepLost ==
    ASSUME JInv, NEW c \in Calls, J!Lost(c)
    PROVE  JInv'
<1>1. J!Idle(c) /\ UNCHANGED <<jRequest, jPlan, jSource, jRuns, jJudge, jObjection>>
  BY DEF J!Lost, J!ground
<1>. QED  BY <1>1, JCallRests, CallStep

-----------------------------------------------------------------------------
(* Decisions.                                                                *)

LEMMA JKeepWeigh ==
    ASSUME JInv, NEW c \in Calls, J!Weigh(c)
    PROVE  JInv'
<1>1. PICK h \in Found : h = jCalls[c] /\ ClaimFits(c) /\ h.at = "read" /\ h.on \in J!Made
  BY ReadShape DEF J!Weigh
<1>2. /\ J!StillClaimed(c) /\ J!MayPass(h.on, h.result) /\ h.result # None
      /\ jCalls' = [jCalls EXCEPT ![c].at = "weighing"]
      /\ UNCHANGED <<jRequest, jPlan, jSource, jRuns, jJudge, jObjection>>
  BY <1>1 DEF J!Weigh, J!Goto, J!ground
<1>3. PICK m : m = [h EXCEPT !.at = "weighing"]
  OBVIOUS
<1>4. /\ m \in Found /\ m.at = "weighing" /\ m.on = h.on /\ m.session = h.session
      /\ m.result = h.result
  BY <1>3 DEF Found
<1>5. jCalls' = [jCalls EXCEPT ![c] = m] /\ jCalls'[c] = m
  BY <1>1, <1>2, <1>3 DEF JInv, JTyped, CallTyped
<1>6. J!Made' = J!Made
  BY <1>2 DEF J!Made
<1>7. PICK r \in J!Made : r = h.on
  BY <1>1
<1>8. /\ jRequest[r].status = "requested" /\ jRequest[r].basis.judge = jJudge
      /\ jRequest[r].review.session = h.session /\ jRequest[r].lease = c /\ J!RowFree(r)
  BY <1>1, <1>2, <1>7 DEF J!StillClaimed, J!Qualified, J!ReviewValid
<1>9. Covers(jRequest[r]) = Files
  BY <1>1, <1>2, <1>7, <1>8 DEF ClaimFits
<1>10. /\ jRequest[r].basis.plan = jPlan.version /\ jRequest[r].basis.source = jSource
       /\ jRequest[r].basis.runs = J!Observed
       /\ jPlan.covered /\ J!Last.source = jSource /\ J!Last.status = h.result
  BY <1>2, <1>7 DEF J!MayPass, J!SameGround, J!Eligible
<1>11. WeighFits(c)'
  BY <1>2, <1>4, <1>5, <1>6, <1>7, <1>8, <1>9, <1>10 DEF WeighFits, Covers, J!Observed, J!Last
<1>12. CallFits(c)'
  BY <1>4, <1>5, <1>11 DEF CallFits, ClaimFits
<1>13. \A d \in Calls : (d # c /\ jCalls[d].at = "weighing") => jCalls[d].on # m.on
  BY <1>4, <1>7, <1>8 DEF J!RowFree, J!Weighing
<1>14. Moves(c, m)
  BY <1>4, <1>5, <1>12, <1>13 DEF Moves, CallRow
<1>. QED  BY <1>2, <1>14, CallStep

LEMMA JKeepWeighFailed ==
    ASSUME JInv, NEW c \in Calls, J!WeighFailed(c)
    PROVE  JInv'
<1>1. PICK r \in J!Made, s \in Sessions :
        /\ J!Qualified(r) /\ J!ReviewValid(r, s) /\ J!RowFree(r)
        /\ jCalls' = [jCalls EXCEPT ![c] = [at |-> "weighing", on |-> r, session |-> s,
                                          result |-> "failed"]]
  BY DEF J!WeighFailed
<1>2. UNCHANGED <<jRequest, jPlan, jSource, jRuns, jJudge, jObjection>> /\ J!Made' = J!Made
  BY DEF J!WeighFailed, J!ground, J!Made
<1>3. PICK m : m = [at |-> "weighing", on |-> r, session |-> s, result |-> "failed"]
  OBVIOUS
<1>4. /\ m \in Failing /\ m.at = "weighing" /\ m.on = r /\ m.session = s /\ m.result = "failed"
  BY <1>3 DEF Failing, J!Made
<1>5. jCalls' = [jCalls EXCEPT ![c] = m] /\ jCalls'[c] = m
  BY <1>1, <1>3 DEF JInv, JTyped, CallTyped
<1>6. CallFits(c)'
  BY <1>1, <1>2, <1>4, <1>5 DEF CallFits, ClaimFits, WeighFits, J!Qualified, J!ReviewValid
<1>7. \A d \in Calls : (d # c /\ jCalls[d].at = "weighing") => jCalls[d].on # m.on
  BY <1>1, <1>4 DEF J!RowFree, J!Weighing
<1>8. Moves(c, m)
  BY <1>4, <1>5, <1>6, <1>7 DEF Moves, CallRow
<1>. QED  BY <1>2, <1>8, CallStep

\* What is weighed, and by whom.
LEMMA WeighShape ==
    ASSUME JInv, NEW c \in Calls, jCalls[c].at = "weighing"
    PROVE  /\ WeighFits(c) /\ jCalls[c].on \in J!Made /\ Alone(c, jCalls[c].on)
           /\ jCalls[c].result \in J!Statuses \cup {None} /\ jCalls[c].session \in Sessions
<1>1. WeighFits(c) /\ jCalls[c].on \in J!Made
  BY DEF JInv, CallsFit, CallFits, WeighFits
<1>2. Alone(c, jCalls[c].on)
  BY DEF JInv, CallsFit, OneWeighs, Alone
<1>3. jCalls[c].result \in J!Statuses \cup {None} /\ jCalls[c].session \in Sessions
  BY CallShape DEF JInv, JTyped, Found, Failing, J!Statuses
<1>. QED  BY <1>1, <1>2, <1>3

LEMMA JKeepDecide ==
    ASSUME JInv, NEW c \in Calls, J!Decide(c), JSensible
    PROVE  JInv'
<1>1. PICK r \in J!Made : r = jCalls[c].on /\ WeighFits(c) /\ Alone(c, r)
  BY WeighShape DEF J!Decide
<1>2. PICK result \in J!Statuses \cup {None}, s \in Sessions :
        result = jCalls[c].result /\ s = jCalls[c].session
  BY WeighShape DEF J!Decide
<1>3. PICK q \in MadeRow :
        q = jRequest[r] /\ q.review \in J!Review /\ RowFits(q) /\ r \in Requests
        /\ q.review.seen \subseteq Files \X Sessions
  BY MadeRowFits
<1>4. PICK w \in MadeRow :
        /\ w = J!Free(q) /\ w.lease = None /\ w.status = q.status /\ w.previous = q.previous
        /\ w.basis = q.basis /\ w.review = q.review
  BY Freed
<1>5. PICK n : n = [w EXCEPT !.status = "decided", !.result = result, !.by = s]
  OBVIOUS
<1>6. n \in J!Row
  BY <1>5, Zenon DEF MadeRow, J!Row
<1>7. /\ n.status = "decided" /\ n.result = result /\ n.by = s /\ n.lease = None
      /\ n.previous = q.previous /\ n.basis = q.basis /\ n.review = q.review
  BY <1>4, <1>5 DEF MadeRow, J!Row
<1>8. n \in MadeRow
  BY <1>6, <1>7 DEF MadeRow
<1>9. jRequest' = [jRequest EXCEPT ![r] = n]
  BY <1>1, <1>2, <1>3, <1>4, <1>5 DEF J!Decide, J!Set
<1>10. /\ q.status = "requested" /\ q.review.session = s
       /\ result # "failed" => Covers(q) = Files
  BY <1>1, <1>2, <1>3 DEF WeighFits, J!Decide
<1>11. RowFits(n)
  <2>1. \A x \in n.review.seen : x[2] = n.review.session
    BY <1>3, <1>7 DEF RowFits
  <2>2. ASSUME n.result # "failed", NEW f \in Files PROVE <<f, n.by>> \in n.review.seen
    <3>1. PICK x \in q.review.seen : x[1] = f
      BY <1>7, <1>10, <2>2 DEF Covers
    <3>2. x = <<f, s>>
      BY <1>3, <1>10, <3>1 DEF RowFits
    <3>. QED  BY <1>7, <3>1, <3>2
  <2>. QED  BY <2>1, <2>2 DEF RowFits
<1>12. J!Idle(c) /\ UNCHANGED <<jPlan, jSource, jRuns, jJudge, jObjection>>
  BY DEF J!Decide, J!ground
<1>13. Moves(c, Rest)
  BY <1>12, JCallRests
<1>14. n.lease \notin Calls \ {c}
  BY <1>7 DEF JSensible
<1>. QED  BY <1>1, <1>3, <1>7, <1>8, <1>9, <1>11, <1>12, <1>13, <1>14, RowStep

LEMMA JKeepClose ==
    ASSUME JInv, J!Cancel \/ J!Withdraw, JSensible
    PROVE  JInv'
<1>1. PICK r \in J!Made, t \in {"cancelled", "withdrawn"} :
        /\ J!RowFree(r)
        /\ jRequest' = [jRequest EXCEPT ![r] = [J!Free(jRequest[r]) EXCEPT !.status = t]]
  BY DEF J!Cancel, J!Withdraw, J!Set
<1>2. UNCHANGED <<jPlan, jSource, jRuns, jJudge, jObjection, jCalls>>
  BY DEF J!Cancel, J!Withdraw, J!ground
<1>3. PICK q \in MadeRow :
        q = jRequest[r] /\ q.review \in J!Review /\ RowFits(q) /\ r \in Requests
  BY MadeRowFits
<1>4. PICK w \in MadeRow :
        /\ w = J!Free(q) /\ w.lease = None /\ w.status = q.status /\ w.previous = q.previous
        /\ w.basis = q.basis /\ w.review = q.review
  BY Freed
<1>5. PICK n \in MadeRow :
        /\ n = [w EXCEPT !.status = t] /\ n.status = t /\ n.lease = w.lease
        /\ n.review = w.review /\ n.previous = w.previous /\ n.basis = w.basis
  <2>1. PICK n : n = [w EXCEPT !.status = t]
    OBVIOUS
  <2>2. n \in J!Row
    BY <2>1, Zenon DEF MadeRow, J!Row
  <2>3. /\ n.status = t /\ n.lease = w.lease
        /\ n.review = w.review /\ n.previous = w.previous /\ n.basis = w.basis
    BY <2>1 DEF MadeRow, J!Row
  <2>. QED  BY <2>1, <2>2, <2>3 DEF MadeRow
<1>6. jRequest' = [jRequest EXCEPT ![r] = n]
  BY <1>1, <1>3, <1>4, <1>5
<1>7. RowFits(n)
  BY <1>3, <1>4, <1>5 DEF RowFits
<1>8. PICK c : c \notin Calls
  BY NoSetContainsEverything
<1>9. Moves(c, Rest) /\ Alone(c, r)
  BY <1>1, <1>2, <1>8, NoCall DEF J!RowFree, J!Weighing, Alone
<1>10. n.lease \notin Calls \ {c} /\ n.previous = q.previous /\ n.basis = q.basis
  BY <1>4, <1>5 DEF JSensible
<1>. QED  BY <1>2, <1>3, <1>5, <1>6, <1>7, <1>9, <1>10, RowStep

-----------------------------------------------------------------------------
(* A new request continues the line.                                         *)

LEMMA JKeepCreate ==
    ASSUME JInv, J!Create, JSensible
    PROVE  JInv'
<1>1. PICK r \in Requests \ J!Made, p \in J!Made \cup {None} :
        /\ J!Follows(p)
        /\ jRequest' = [jRequest EXCEPT ![r] =
              [status |-> "requested", previous |-> p, reviewed |-> J!ReviewedDecision(p),
               basis |-> J!Now, review |-> J!NoReview, lease |-> None, over |-> FALSE,
               result |-> None, by |-> None]]
  BY DEF J!Create, J!Set
<1>2. /\ UNCHANGED <<jPlan, jSource, jRuns, jJudge, jObjection, jCalls>>
      /\ jPlan.version > 0
  BY DEF J!Create, J!ground
<1>3. PICK n : n = [status |-> "requested", previous |-> p, reviewed |-> J!ReviewedDecision(p),
                    basis |-> J!Now, review |-> J!NoReview, lease |-> None, over |-> FALSE,
                    result |-> None, by |-> None]
  OBVIOUS
<1>4. jRequest' = [jRequest EXCEPT ![r] = n]
  BY <1>1, <1>3
<1>5. /\ jRequest'[r] = n /\ \A x \in Requests : x # r => jRequest'[x] = jRequest[x]
  BY <1>4 DEF JInv, JTyped, RequestTyped
<1>6. n \in MadeRow /\ n.status = "requested" /\ n.previous = p /\ n.review = J!NoReview
  <2>1. J!ReviewedDecision(p) \in Requests \cup {None}
    BY MadeRowFits, Zenon DEF J!ReviewedDecision, MadeRow, J!Row, J!Made
  <2>2. J!Now \in J!Basis
    <3>1. jPlan.version \in J!Versions /\ jPlan.covered \in BOOLEAN
      BY <1>2 DEF JInv, JTyped, GroundTyped, J!Versions, JSensible
    <3>2. J!Observed \in Nat
      BY DEF J!Observed, JInv, JTyped, GroundTyped
    <3>3. jSource \in J!Versions /\ jJudge \in J!Versions /\ jObjection \in BOOLEAN
      BY DEF JInv, JTyped, GroundTyped
    <3>. QED  BY <3>1, <3>2, <3>3, Zenon DEF J!Now, J!Basis
  <2>3. J!NoReview \in J!Review
    BY DEF J!NoReview, J!Review
  <2>4. p \in Requests \cup {None}
    BY DEF J!Made
  <2>5. n \in J!Row
    BY <1>3, <2>1, <2>2, <2>3, <2>4, Zenon DEF J!Row
  <2>6. n.status = "requested" /\ n.previous = p /\ n.review = J!NoReview
    BY <1>3
  <2>. QED  BY <2>5, <2>6 DEF MadeRow
<1>7. J!Made' = J!Made \cup {r}
  BY <1>5, <1>6 DEF J!Made
<1>8. RequestTyped'
  BY <1>4, <1>6 DEF JInv, JTyped, RequestTyped
<1>9. \A x \in J!Made : jRequest'[x] = jRequest[x]
  BY <1>5 DEF J!Made
<1>10. Line'
  <2>1. p # r
    BY DEF JSensible
  <2>2. \A x \in J!Made' : jRequest'[x].previous # r
    BY <1>5, <1>6, <1>7, <1>9, <2>1 DEF JInv, Line, JSensible
  <2>3. r \in J!Terminal'
    BY <1>7, <2>2 DEF J!Terminal
  <2>4. J!Terminal' \subseteq {r}
    <3>1. CASE J!Made = {}
      BY <1>7, <3>1 DEF J!Terminal
    <3>2. CASE J!Made # {}
      <4>1. p \in J!Terminal /\ p \in J!Made
        BY <1>1, <3>2 DEF J!Follows, J!Terminal
      <4>2. ASSUME NEW t \in J!Terminal', t # r PROVE FALSE
        <5>1. t \in J!Made /\ \A x \in J!Made' : jRequest'[x].previous # t
          BY <1>7, <4>2 DEF J!Terminal
        <5>2. \A x \in J!Made : jRequest[x].previous # t
          BY <1>7, <1>9, <5>1
        <5>3. t \in J!Terminal
          BY <5>1, <5>2 DEF J!Terminal
        <5>4. t = p
          BY <4>1, <5>3 DEF JInv, Line
        <5>. QED  BY <1>5, <1>6, <1>7, <5>1, <5>4
      <4>. QED  BY <4>2
    <3>. QED  BY <3>1, <3>2
  <2>5. \A x \in J!Made' : jRequest'[x].previous \in J!Made' \cup {None}
    BY <1>5, <1>6, <1>7, <1>9 DEF JInv, Line
  <2>6. \A x \in J!Made' : jRequest'[x].status = "requested" => x \in J!Terminal'
    <3>1. ASSUME NEW x \in J!Made, jRequest[x].status = "requested" PROVE FALSE
      <4>1. x \in J!Terminal /\ J!Made # {}
        BY <3>1 DEF JInv, Line
      <4>2. p \in J!Terminal /\ jRequest[p].status # "requested"
        BY <1>1, <4>1 DEF J!Follows
      <4>. QED  BY <3>1, <4>1, <4>2 DEF JInv, Line
    <3>. QED  BY <1>7, <1>9, <2>3, <3>1
  <2>. QED  BY <2>3, <2>4, <2>5, <2>6 DEF Line
<1>11. RowsFit'
  <2>1. RowFits(n)
    BY <1>6 DEF RowFits, J!NoReview
  <2>. QED  BY <1>5, <1>7, <1>9, <2>1 DEF JInv, RowsFit
<1>12. \A d \in Calls : CallFits(d)'
  <2>. SUFFICES ASSUME NEW d \in Calls PROVE CallFits(d)'
    OBVIOUS
  <2>1. CASE jCalls[d].at \in {"reading", "read", "weighing"}
    <3>1. jCalls[d].on \in J!Made
      BY <2>1 DEF JInv, CallsFit, CallFits, ClaimFits, WeighFits
    <3>2. jRequest'[jCalls[d].on] = jRequest[jCalls[d].on]
      BY <1>9, <3>1
    <3>. QED  BY <1>2, <1>7, <3>2, CallKept DEF Loyal
  <2>2. CASE jCalls[d].at = "idle"
    BY <1>2, <1>7, <2>2, CallKept
  <2>. QED  BY <2>1, <2>2, CallShape DEF JInv, JTyped
<1>13. CallTyped' /\ OneWeighs' /\ GroundTyped'
  BY <1>2 DEF JInv, JTyped, CallTyped, GroundTyped, CallsFit, OneWeighs
<1>. QED  BY <1>8, <1>10, <1>11, <1>12, <1>13 DEF JInv, JTyped, CallsFit

-----------------------------------------------------------------------------
(* The invariant of the specification.                                       *)

LEMMA InitFits ==
    ASSUME J!Init, JSensible
    PROVE  JInv
<1>1. GroundTyped
  <2>0. 1 \in J!Versions /\ 0 \in 0 .. MaxVersion /\ 1 \in 0 .. MaxVersion
    BY DEF J!Versions, JSensible
  <2>1. jPlan \in [version : 0 .. MaxVersion, covered : BOOLEAN]
    <3>1. \A i \in 0 .. MaxVersion, b \in BOOLEAN :
            [version |-> i, covered |-> b] \in [version : 0 .. MaxVersion, covered : BOOLEAN]
      BY Zenon
    <3>2. \/ jPlan = [version |-> 0, covered |-> FALSE]
          \/ jPlan = [version |-> 1, covered |-> TRUE]
      BY DEF J!Init
    <3>. QED  BY <2>0, <3>1, <3>2, Zenon
  <2>2. jSource \in J!Versions /\ jJudge \in J!Versions /\ jObjection \in BOOLEAN
    BY <2>0 DEF J!Init
  <2>3. jRuns \in Seq([status : J!Statuses, source : J!Versions])
    <3>1. [status |-> "passed", source |-> 1] \in [status : J!Statuses, source : J!Versions]
      BY <2>0 DEF J!Statuses
    <3>2. PICK first \in [status : J!Statuses, source : J!Versions] :
            first = [status |-> "passed", source |-> 1]
      BY <3>1
    <3>3. jRuns = <<>> \/ jRuns = <<first>>
      BY <3>2 DEF J!Init
    <3>4. PICK T : T = [status : J!Statuses, source : J!Versions]
      OBVIOUS
    <3>5. first \in T
      BY <3>2, <3>4
    <3>6. <<>> \in Seq(T) /\ <<first>> \in Seq(T)
      BY <3>5
    <3>. QED  BY <3>3, <3>4, <3>6
  <2>. QED  BY <2>1, <2>2, <2>3 DEF GroundTyped
<1>2. RequestTyped /\ J!Made = {}
  BY DEF J!Init, RequestTyped, Absent, J!Made
<1>3. CallTyped
  BY DEF J!Init, CallTyped, CallRow, Rest
<1>4. Line /\ RowsFit
  BY <1>2 DEF Line, RowsFit, J!Terminal
<1>5. CallsFit
  BY DEF J!Init, CallsFit, CallFits, ClaimFits, WeighFits, OneWeighs
<1>. QED  BY <1>1, <1>2, <1>3, <1>4, <1>5 DEF JInv, JTyped

LEMMA StepFits ==
    ASSUME JInv, [J!Next]_(J!vars), JSensible
    PROVE  JInv'
<1>1. CASE J!Changing
  BY <1>1, JKeepGround DEF J!Changing
<1>2. CASE J!Create \/ J!StartReview \/ J!Lapse \/ J!Cancel \/ J!Withdraw
  BY <1>2, JKeepCreate, JKeepStartReview, JKeepLapse, JKeepClose
<1>3. ASSUME NEW c \in Calls, J!Reviewing(c)
      PROVE  JInv'
  BY <1>3, JKeepClaim, JKeepInspect, JKeepFinishFile, JKeepUnreadable, JKeepGiveUp, JKeepLost
     DEF J!Reviewing
<1>4. ASSUME NEW c \in Calls, J!Deciding(c)
      PROVE  JInv'
  BY <1>4, JKeepWeigh, JKeepWeighFailed, JKeepDecide DEF J!Deciding
<1>5. CASE UNCHANGED J!vars
  <2>1. UNCHANGED <<jRequest, jCalls, jPlan, jSource, jRuns, jJudge, jObjection>>
    BY <1>5 DEF J!vars
  <2>2. GroundTyped'
    BY <2>1 DEF JInv, JTyped, GroundTyped
  <2>. QED  BY <2>1, <2>2, GroundStep
<1>. QED  BY <1>1, <1>2, <1>3, <1>4, <1>5 DEF J!Next

LEMMA ShapedRequests ==
    ASSUME JInv
    PROVE  J!TypeOK
BY MadeRowFits DEF J!TypeOK, MadeRow

\* However many ask at the same time, only the end of the line is open.
LEMMA SameCardinality == \A S : J!Cardinality(S) = Cardinality(S)
BY DEF J!Cardinality, Cardinality

LEMMA OneLine ==
    ASSUME JInv
    PROVE  J!OneLineOfRequests
<1>1. J!Cardinality(J!Terminal) <= 1
  <2>1. CASE J!Terminal = {}
    BY <2>1, FS_EmptySet, SameCardinality
  <2>2. CASE J!Terminal # {}
    <3>1. PICK t : t \in J!Terminal
      BY <2>2
    <3>2. J!Terminal = {t}
      BY <3>1 DEF JInv, Line
    <3>. QED  BY <3>2, FS_Singleton, SameCardinality
  <2>. QED  BY <2>1, <2>2
<1>. QED  BY <1>1 DEF JInv, Line, J!OneLineOfRequests

LEMMA SeenThen ==
    ASSUME JInv
    PROVE  J!SeenInThisSession
BY DEF JInv, RowsFit, RowFits, J!SeenInThisSession

LEMMA DecisionGround ==
    ASSUME JInv, [J!Next]_(J!vars), JSensible, NEW r \in J!Made,
           jRequest[r].status = "requested", jRequest'[r].status = "decided"
    PROVE  /\ J!Qualified(r)
           /\ jRequest'[r].result # "failed" =>
                 /\ J!SameGround(r) /\ J!Last.source = jSource /\ J!Last.status = jRequest'[r].result
                 /\ jPlan.covered
<1>1. r \in Requests /\ jRequest \in [Requests -> {Absent} \cup MadeRow]
  BY DEF J!Made, JInv, JTyped, RequestTyped
<1>2. \A n, x : (jRequest' = [jRequest EXCEPT ![x] = n] /\ x \in Requests)
                  => n.status = "decided" /\ x = r
  BY <1>1
<1>3. ~ UNCHANGED jRequest
  OBVIOUS
<1>4. ASSUME NEW c \in Calls, J!Decide(c)
      PROVE  /\ J!Qualified(r)
             /\ jRequest'[r].result # "failed" =>
                   /\ J!SameGround(r) /\ J!Last.source = jSource /\ J!Last.status = jRequest'[r].result
                   /\ jPlan.covered
  <2>1. PICK x \in J!Made : x = jCalls[c].on /\ WeighFits(c)
    BY <1>4, WeighShape DEF J!Decide
  <2>2. PICK w \in MadeRow : w = J!Free(jRequest[x])
    BY MadeRowFits, Freed
  <2>3. PICK n : n = [w EXCEPT !.status = "decided", !.result = jCalls[c].result,
                               !.by = jCalls[c].session]
    OBVIOUS
  <2>4. jRequest' = [jRequest EXCEPT ![x] = n] /\ n.result = jCalls[c].result
    BY <1>4, <2>1, <2>2, <2>3 DEF J!Decide, J!Set, MadeRow, J!Row
  <2>5. x = r /\ jRequest'[r].result = jCalls[c].result
    BY <1>1, <1>2, <2>4 DEF J!Made
  <2>. QED  BY <1>4, <2>1, <2>5 DEF WeighFits, J!Decide, J!Qualified, J!SameGround
<1>5. ASSUME NEW x \in J!Made, NEW n, jRequest' = [jRequest EXCEPT ![x] = n],
             n.status = jRequest[x].status \/ n.status # "decided"
      PROVE  FALSE
  BY <1>2, <1>5 DEF J!Made
<1>6. CASE J!Changing
  BY <1>3, <1>6
     DEF J!Changing, J!SavePlan, J!EditCase, J!RunTest, J!Requalify, J!Object, J!LoseFile, J!ground
<1>7. CASE J!Create
  <2>1. PICK x \in Requests \ J!Made : \E n : jRequest' = [jRequest EXCEPT ![x] = n]
    BY <1>7 DEF J!Create, J!Set
  <2>. QED  BY <1>2, <2>1
<1>8. CASE J!StartReview
  <2>1. PICK x \in J!Made : \E v :
          jRequest' = [jRequest EXCEPT ![x] =
             [jRequest[x] EXCEPT !.review = v, !.lease = None, !.over = FALSE]]
    BY <1>8 DEF J!StartReview, J!Set
  <2>5. PICK v :
          jRequest' = [jRequest EXCEPT ![x] =
             [jRequest[x] EXCEPT !.review = v, !.lease = None, !.over = FALSE]]
    BY <2>1
  <2>2. PICK q \in MadeRow : q = jRequest[x]
    BY MadeRowFits
  <2>3. PICK n : n = [q EXCEPT !.review = v, !.lease = None, !.over = FALSE]
    OBVIOUS
  <2>4. n.status = q.status
    BY <2>3 DEF MadeRow, J!Row
  <2>. QED  BY <1>5, <2>5, <2>2, <2>3, <2>4
<1>9. CASE J!Lapse
  <2>1. PICK x \in J!Made :
          \/ jRequest' = [jRequest EXCEPT ![x] = [jRequest[x] EXCEPT !.review =
                                                  [jRequest[x].review EXCEPT !.live = FALSE]]]
          \/ jRequest' = [jRequest EXCEPT ![x] = [jRequest[x] EXCEPT !.over = TRUE]]
    BY <1>9 DEF J!Lapse, J!Set
  <2>2. PICK q \in MadeRow : q = jRequest[x]
    BY MadeRowFits
  <2>3. PICK v : v = [q.review EXCEPT !.live = FALSE]
    OBVIOUS
  <2>4. PICK n : n = [q EXCEPT !.review = v]
    OBVIOUS
  <2>5. PICK m : m = [q EXCEPT !.over = TRUE]
    OBVIOUS
  <2>6. n.status = q.status /\ m.status = q.status
    BY <2>4, <2>5 DEF MadeRow, J!Row
  <2>7. jRequest' = [jRequest EXCEPT ![x] = n] \/ jRequest' = [jRequest EXCEPT ![x] = m]
    BY <2>1, <2>2, <2>3, <2>4, <2>5
  <2>. QED  BY <1>5, <2>2, <2>6, <2>7
<1>10. CASE J!Cancel \/ J!Withdraw
  <2>1. PICK x \in J!Made, t \in {"cancelled", "withdrawn"} :
          jRequest' = [jRequest EXCEPT ![x] = [J!Free(jRequest[x]) EXCEPT !.status = t]]
    BY <1>10 DEF J!Cancel, J!Withdraw, J!Set
  <2>2. PICK w \in MadeRow : w = J!Free(jRequest[x])
    BY MadeRowFits, Freed
  <2>3. PICK n : n = [w EXCEPT !.status = t]
    OBVIOUS
  <2>4. n.status # "decided"
    BY <2>3 DEF MadeRow, J!Row
  <2>. QED  BY <1>5, <2>1, <2>2, <2>3, <2>4
<1>11. ASSUME NEW c \in Calls, J!Reviewing(c)
       PROVE  FALSE
  <2>1. CASE J!Inspect(c) \/ J!Lost(c)
    BY <1>3, <2>1 DEF J!Inspect, J!Lost
  <2>2. CASE J!Claim(c)
    <3>1. PICK x \in J!Made :
            jRequest' = [jRequest EXCEPT ![x] = [jRequest[x] EXCEPT !.lease = c, !.over = FALSE]]
      BY <2>2 DEF J!Claim, J!Set
    <3>2. PICK q \in MadeRow : q = jRequest[x]
      BY MadeRowFits
    <3>3. PICK n : n = [q EXCEPT !.lease = c, !.over = FALSE]
      OBVIOUS
    <3>4. n.status = q.status
      BY <3>3 DEF MadeRow, J!Row
    <3>. QED  BY <1>5, <3>1, <3>2, <3>3, <3>4
  <2>3. CASE J!FinishFile(c) \/ J!Unreadable(c)
    <3>1. PICK x \in J!Made : x = jCalls[c].on
      BY <2>3, ReadShape DEF J!FinishFile, J!Unreadable
    <3>2. PICK w \in MadeRow : w = J!Free(jRequest[x]) /\ w.status = jRequest[x].status
      BY MadeRowFits, Freed
    <3>3. PICK v : jRequest' = [jRequest EXCEPT ![x] = [w EXCEPT !.review = v]]
      <4>1. PICK a, b :
              \/ jRequest' = [jRequest EXCEPT ![x] = [w EXCEPT !.review.seen = @ \cup a]]
              \/ jRequest' = [jRequest EXCEPT ![x] = [w EXCEPT !.review.seen = b]]
        BY <2>3, <3>1, <3>2 DEF J!FinishFile, J!Unreadable, J!Set
      <4>. QED  BY <4>1
    <3>4. PICK n : n = [w EXCEPT !.review = v]
      OBVIOUS
    <3>5. n.status = w.status
      BY <3>4 DEF MadeRow, J!Row
    <3>. QED  BY <1>5, <3>2, <3>3, <3>4, <3>5
  <2>4. CASE J!GiveUp(c)
    <3>1. PICK x \in J!Made : x = jCalls[c].on
      BY <2>4, ReadShape DEF J!GiveUp
    <3>2. PICK w \in MadeRow : w = J!Free(jRequest[x]) /\ w.status = jRequest[x].status
      BY MadeRowFits, Freed
    <3>3. jRequest' = [jRequest EXCEPT ![x] = w]
      BY <1>3, <2>4, <3>1, <3>2 DEF J!GiveUp, J!Set
    <3>. QED  BY <1>5, <3>2, <3>3
  <2>. QED  BY <1>11, <2>1, <2>2, <2>3, <2>4 DEF J!Reviewing
<1>12. ASSUME NEW c \in Calls, J!Weigh(c) \/ J!WeighFailed(c)
       PROVE  FALSE
  BY <1>3, <1>12 DEF J!Weigh, J!WeighFailed
<1>13. ~ UNCHANGED J!vars
  BY <1>3 DEF J!vars
<1>. QED
  BY <1>4, <1>6, <1>7, <1>8, <1>9, <1>10, <1>11, <1>12, <1>13 DEF J!Next, J!Deciding

GroundStands ==
    \A r \in J!Made :
        jRequest[r].status = "requested" /\ jRequest'[r].status = "decided" =>
            /\ J!Qualified(r)
            /\ jRequest'[r].result # "failed" =>
                 /\ J!SameGround(r) /\ J!Last.source = jSource
                      /\ J!Last.status = jRequest'[r].result /\ jPlan.covered

-----------------------------------------------------------------------------
(* The three together.                                                      *)

PartInv == IInv /\ EInv /\ JInv

LEMMA PartStarts ==
    ASSUME Sensible, InitPart
    PROVE  PartInv
<1>1. Init /\ E!Init /\ J!Init
  BY DEF InitPart, JudgementRests
<1>. QED  BY <1>1, Initially, EStarts, InitFits DEF PartInv, Sensible

\* A step is one of each component, or leaves it alone.
LEMMA PartSteps ==
    ASSUME [NextPart]_<<part, vars, eVars, jVars>>
    PROVE  [Next]_vars /\ [E!Next]_(E!vars) /\ [J!Next]_(J!vars)
<1>1. UNCHANGED eVars => UNCHANGED E!vars
  BY DEF eVars, E!vars
<1>2. UNCHANGED jVars => UNCHANGED J!vars
  BY DEF jVars, J!vars
<1>3. \/ Next /\ UNCHANGED <<eVars, jVars>>
      \/ E!Next /\ UNCHANGED <<vars, jVars>>
      \/ J!Next /\ UNCHANGED <<vars, eVars>>
      \/ UNCHANGED <<vars, eVars, jVars>>
  BY DEF NextPart
<1>. QED  BY <1>1, <1>2, <1>3

LEMMA PartKept ==
    ASSUME Sensible, PartInv, [NextPart]_<<part, vars, eVars, jVars>>
    PROVE  PartInv'
<1>1. [Next]_vars /\ [E!Next]_(E!vars) /\ [J!Next]_(J!vars)
  BY PartSteps
<1>2. IInv'
  BY <1>1, Inductive DEF PartInv
<1>3. EInv'
  BY <1>1, EKept DEF PartInv, Sensible
<1>4. JInv'
  BY <1>1, StepFits DEF PartInv, Sensible
<1>. QED  BY <1>2, <1>3, <1>4 DEF PartInv

LEMMA PartInvariant ==
    ASSUME Sensible
    PROVE  SpecPart => []PartInv
<1>1. InitPart => PartInv
  BY PartStarts
<1>2. PartInv /\ [NextPart]_<<part, vars, eVars, jVars>> => PartInv'
  BY PartKept
<1>. QED  BY <1>1, <1>2, PTL DEF SpecPart

\* Every row, lease and call keeps its type, and a slot of an evidence set is kept once.
THEOREM KeptCopiesTyped ==
    ASSUME Sensible
    PROVE  SpecPart => []AllTypeOK
<1>1. PartInv => AllTypeOK
  BY Adopted, ETypeOK, ShapedRequests DEF PartInv, AllTypeOK
<1>. QED  BY <1>1, PartInvariant, PTL

\* What a preservation has adopted is kept in the store, intact, until it is cancelled: for any
\* number of requests, lapsed leases, sweeps, late PUTs and crashes (_publish, _cleanup_one).
THEOREM CopiesAreKept ==
    ASSUME Sensible
    PROVE  SpecPart => []AdoptedCopyIsKept
<1>1. PartInv => AdoptedCopyIsKept
  BY Adopted DEF PartInv
<1>. QED  BY <1>1, PartInvariant, PTL

\* A preservation is ready exactly when all its attachments are adopted (_publish).
THEOREM ReadyIsCorrect ==
    ASSUME Sensible
    PROVE  SpecPart => []ReadyMeansComplete
<1>1. PartInv => ReadyMeansComplete
  BY Adopted DEF PartInv
<1>. QED  BY <1>1, PartInvariant, PTL

\* Every copy that is not part of a preservation is one the ledger will lead a cleanup to
\* (_claim, _fail, cleanup).
THEOREM LeftoversAreCollectable ==
    ASSUME Sensible
    PROVE  SpecPart => []LeftoverIsCollectable
<1>1. PartInv => LeftoverIsCollectable
  BY Leftover DEF PartInv
<1>. QED  BY <1>1, PartInvariant, PTL

\* An attachment is adopted once, and a file selected for evidence is in the store whatever
\* attempts came too late and whatever was cleaned up (finish_attempt, reserve_cleanup).
THEOREM OneCopyIsStored ==
    ASSUME Sensible
    PROVE  SpecPart => []OneStoredCopy
<1>1. PartInv => OneStoredCopy
  BY Adopted, ESelectedIsStored DEF PartInv, OneStoredCopy
<1>. QED  BY <1>1, PartInvariant, PTL

\* Ready and cancelled are final, what was adopted stays adopted, and evidence becomes ready
\* only while what it quotes is as it was previewed, with a copy of every file.
THEOREM DecisionsAreSealed ==
    ASSUME Sensible
    PROVE  SpecPart => DecidedAsPlanned
<1>1. PartInv /\ [NextPart]_<<part, vars, eVars, jVars>> => [SealedStep]_vars
  <2>. SUFFICES ASSUME PartInv, [NextPart]_<<part, vars, eVars, jVars>>
                PROVE  [SealedStep]_vars
    OBVIOUS
  <2>1. [Next]_vars
    BY PartSteps
  <2>. QED  BY <2>1, SealedNext DEF PartInv
<1>2. PartInv /\ [NextPart]_<<part, vars, eVars, jVars>> => [ReadyStep]_(E!vars)
  <2>. SUFFICES ASSUME PartInv, [NextPart]_<<part, vars, eVars, jVars>>
                PROVE  [ReadyStep]_(E!vars)
    OBVIOUS
  <2>1. [E!Next]_(E!vars)
    BY PartSteps
  <2>. QED  BY <2>1, EReady DEF PartInv, Sensible
<1>3. [][SealedStep]_vars => SealedOnceDecided
  BY PTL DEF SealedStep, SealedOnceDecided
<1>4. [][ReadyStep]_(E!vars) => E!ReadyIsAsPreviewed
  BY PTL DEF ReadyStep, E!ReadyIsAsPreviewed
<1>. QED  BY <1>1, <1>2, <1>3, <1>4, PartInvariant, PTL DEF SpecPart, DecidedAsPlanned

\* Whoever decides in favour has seen every file in the session he decides in, although the
\* files are read outside every transaction; the requests form one line; and a favourable
\* decision is committed on the ground of its request (create, claim, finish_claim, decide).
THEOREM JudgementsStand ==
    ASSUME Sensible
    PROVE  SpecPart => JudgedOnItsGround
<1>1. PartInv => J!SeenInThisSession /\ J!OneLineOfRequests
  BY SeenThen, OneLine DEF PartInv
<1>2. PartInv /\ [NextPart]_<<part, vars, eVars, jVars>> => [GroundStands]_(J!vars)
  <2>. SUFFICES ASSUME PartInv, [NextPart]_<<part, vars, eVars, jVars>>
                PROVE  [GroundStands]_(J!vars)
    OBVIOUS
  <2>1. [J!Next]_(J!vars)
    BY PartSteps
  <2>. QED  BY <2>1, DecisionGround DEF PartInv, Sensible, GroundStands
<1>3. [][GroundStands]_(J!vars) => J!PassesOnItsGround
  BY PTL DEF GroundStands, J!PassesOnItsGround
<1>. QED  BY <1>1, <1>2, <1>3, PartInvariant, PTL DEF SpecPart, JudgedOnItsGround
=============================================================================
