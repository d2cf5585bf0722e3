-------------------------- MODULE VerificationEvidence --------------------------
(* How the evidence for a requirement is preserved: what was previewed is   *)
(* fixed in an evidence set, and its files are copied one at a time.  A     *)
(* copy is reserved in the database before the store is touched; the store  *)
(* is written, read and emptied outside any transaction.                    *)
(*                                                                          *)
(* An attempt to copy is a row; its identity is also the lease of the set.  *)
(* The triggers on both tables (alembic f8a2b5d0c436) repeat the conditions *)
(* of the service and are not modelled a second time.                       *)
EXTENDS Naturals, FiniteSets, TLC

CONSTANTS Sets, Slots, Attempts, Calls, None,
          MaxUnfinished,            \* evidence sets a person may have under way
          MaxSource                 \* bound: versions of what is quoted

VARIABLES source,      \* version of the test runs, cases and attachments quoted
          row,         \* the evidence sets
          attempt,     \* the copies, reserved, verified or abandoned
          store,       \* attempts whose key holds a file
          calls
vars == <<source, row, attempt, store, calls>>

-----------------------------------------------------------------------------
Row == [status : {"preparing", "failed", "ready", "cancelled"}, preview : 1..MaxSource,
        files : SUBSET Slots, lease : Attempts \cup {None}, over : BOOLEAN]
Attempt == [of : Sets, slot : Slots, state : {"reserved", "verified", "abandoned"}, selected : BOOLEAN]

Made == {e \in Sets : row[e].status # "absent"}
Tried(e) == {a \in Attempts : attempt[a].state # "unused" /\ attempt[a].of = e}
Selected(e) == {a \in Tried(e) : attempt[a].selected}
Kept(e) == {attempt[a].slot : a \in Selected(e)}
Open(e) == row[e].status \in {"preparing", "failed"}
LeaseFree(e) == row[e].lease = None \/ row[e].over
AsPreviewedUnchecked(e) == TRUE    \* mutation: the sources are not compared again
AsPreviewed(e) == row[e].preview = source
NoLease(r) == [r EXCEPT !.lease = None, !.over = FALSE]
Sealed(r, kept) ==           \* seal: ready once every file is kept
    IF kept = r.files THEN [NoLease(r) EXCEPT !.status = "ready"] ELSE r
Abandon(these) == [a \in Attempts |->
    IF a \in these THEN [attempt[a] EXCEPT !.state = "abandoned", !.selected = FALSE] ELSE attempt[a]]
Goto(c, call) == calls' = [calls EXCEPT ![c] = call]
Idle(c) == Goto(c, [at |-> "idle"])

-----------------------------------------------------------------------------
(* Create: the preview that was shown must still be the one that is built.  *)
Create ==
    /\ Cardinality({e \in Made : Open(e)}) < MaxUnfinished
    /\ \E e \in Sets \ Made, files \in SUBSET Slots :
         row' = [row EXCEPT ![e] = Sealed([status |-> "preparing", preview |-> source, files |-> files,
                                           lease |-> None, over |-> FALSE], {})]
    /\ UNCHANGED <<source, attempt, store, calls>>

ChangeSource ==              \* a run, a case or an attachment is edited or removed
    /\ source < MaxSource
    /\ source' = source + 1
    /\ UNCHANGED <<row, attempt, store, calls>>

Claim(c) ==
    /\ calls[c].at = "idle"
    /\ \E e \in Made, a \in {x \in Attempts : attempt[x].state = "unused"} :
         /\ Open(e) /\ LeaseFree(e) /\ AsPreviewed(e)
         /\ \E slot \in row[e].files \ Kept(e) :
              attempt' = [Abandon({x \in Tried(e) : attempt[x].state = "reserved"}) EXCEPT
                             ![a] = [of |-> e, slot |-> slot, state |-> "reserved", selected |-> FALSE]]
         /\ row' = [row EXCEPT ![e].status = "preparing", ![e].lease = a, ![e].over = FALSE]
         /\ Goto(c, [at |-> "copying", on |-> a])
    /\ UNCHANGED <<source, store>>
Copy(c) ==                   \* the key may hold a file even if the call reports a failure
    /\ calls[c].at = "copying"
    /\ \E written \in BOOLEAN, ok \in BOOLEAN :
         /\ ok => written
         /\ store' = IF written THEN store \cup {calls[c].on} ELSE store
         /\ Goto(c, [at |-> "copied", on |-> calls[c].on, ok |-> ok])
    /\ UNCHANGED <<source, row, attempt>>

LeaseHeldEvenLate(e, a) == row[e].status = "preparing" /\ row[e].lease = a    \* mutation: the lease is not timed
LeaseHeld(e, a) == row[e].status = "preparing" /\ row[e].lease = a /\ ~row[e].over
Finish(c) ==
    /\ calls[c].at = "copied"
    /\ LET a == calls[c].on
           e == attempt[a].of
       IN /\ LeaseHeld(e, a)
          /\ IF calls[c].ok /\ AsPreviewed(e)
             THEN /\ attempt' = [attempt EXCEPT ![a].state = "verified", ![a].selected = TRUE]
                  /\ row' = [row EXCEPT ![e] = Sealed(NoLease(row[e]), Kept(e) \cup {attempt[a].slot})]
             ELSE /\ attempt' = Abandon({a})
                  /\ row' = [row EXCEPT ![e] = [NoLease(row[e]) EXCEPT !.status = "failed"]]
    /\ Idle(c)
    /\ UNCHANGED <<source, store>>
TooLate(c) ==                \* refused: nothing is written
    /\ calls[c].at = "copied"
    /\ ~LeaseHeld(attempt[calls[c].on].of, calls[c].on)
    /\ Idle(c)
    /\ UNCHANGED <<source, row, attempt, store>>
Lapse ==                     \* ninety seconds
    /\ \E e \in Made : row[e].lease # None /\ ~row[e].over /\ row' = [row EXCEPT ![e].over = TRUE]
    /\ UNCHANGED <<source, attempt, store, calls>>

Cancel ==                    \* also while a copy is under way
    /\ \E e \in Made :
         /\ Open(e)
         /\ attempt' = Abandon(Tried(e))
         /\ row' = [row EXCEPT ![e] = [NoLease(row[e]) EXCEPT !.status = "cancelled"]]
    /\ UNCHANGED <<source, store, calls>>

-----------------------------------------------------------------------------
(* Cleanup: attempts are given up, then their keys deleted.  The rows stay, *)
(* so a key written late is deleted by a later cleanup.                     *)
Reserve(c) ==
    /\ calls[c].at = "idle"
    /\ \E e \in Made :
         /\ LeaseFree(e)
         /\ \E these \in SUBSET (Tried(e) \ Selected(e)) :
              /\ Cardinality(these) \in 1..2
              /\ attempt' = Abandon(these)
              /\ Goto(c, [at |-> "deleting", these |-> these])
    /\ UNCHANGED <<source, row, store>>
Delete(c) ==                 \* one key after the other; a failure is noted and retried by hand
    /\ calls[c].at = "deleting"
    /\ \E a \in calls[c].these, gone \in BOOLEAN :
         /\ store' = IF gone THEN store \ {a} ELSE store
         /\ IF calls[c].these = {a} THEN Idle(c) ELSE Goto(c, [calls[c] EXCEPT !.these = @ \ {a}])
    /\ UNCHANGED <<source, row, attempt>>

(* Download: the row is read, the file compared, the row read again.        *)
Readable(a) == attempt[a].selected /\ row[attempt[a].of].status = "ready"
Resolve(c) ==
    /\ calls[c].at = "idle"
    /\ \E a \in Attempts : attempt[a].state = "verified" /\ Readable(a) /\ Goto(c, [at |-> "resolved", on |-> a])
    /\ UNCHANGED <<source, row, attempt, store>>
Compare(c) ==
    /\ calls[c].at = "resolved"
    /\ IF calls[c].on \in store THEN Goto(c, [at |-> "compared", on |-> calls[c].on]) ELSE Idle(c)
    /\ UNCHANGED <<source, row, attempt, store>>
Sign(c) ==                   \* the link goes to the client
    /\ calls[c].at = "compared" /\ Readable(calls[c].on)
    /\ Idle(c)
    /\ UNCHANGED <<source, row, attempt, store>>
Lost(c) ==                   \* the process died; a lease stays until it is over
    /\ calls[c].at # "idle"
    /\ Idle(c)
    /\ UNCHANGED <<source, row, attempt, store>>

Init ==
    /\ source = 1
    /\ row = [e \in Sets |-> [status |-> "absent"]]
    /\ attempt = [a \in Attempts |-> [state |-> "unused", selected |-> FALSE]]
    /\ store = {}
    /\ calls = [c \in Calls |-> [at |-> "idle"]]
Preserving(c) == Claim(c) \/ Copy(c) \/ Finish(c) \/ TooLate(c) \/ Lost(c)
Cleaning(c) == Reserve(c) \/ Delete(c)
Downloading(c) == Resolve(c) \/ Compare(c) \/ Sign(c)
Next == Create \/ ChangeSource \/ Lapse \/ Cancel \/ \E c \in Calls : Preserving(c) \/ Cleaning(c) \/ Downloading(c)
Spec == Init /\ [][Next]_vars

-----------------------------------------------------------------------------
(* Every row has its type, and a slot is kept at most once.                 *)
TypeOK ==
    /\ \A e \in Made : row[e] \in Row /\ \A a, b \in Selected(e) : attempt[a].slot = attempt[b].slot => a = b
    /\ \A a \in Attempts : attempt[a].state # "unused" => attempt[a] \in Attempt

(* What a set counts as preserved is in the store: no cleanup deletes the   *)
(* file of an attempt that is or will be selected, however late the copy.   *)
SelectedIsStored == \A e \in Made : Selected(e) \subseteq store

(* A set becomes ready only while all it quotes is as it was previewed, and *)
(* with a copy of every file.                                               *)
ReadyIsAsPreviewed == [][\A e \in Made :
    row[e].status # "ready" /\ row'[e].status = "ready" =>
        row[e].preview = source /\ {attempt'[a].slot : a \in {x \in Tried(e) : attempt'[x].selected}} = row[e].files]_vars
=============================================================================
