------------------------------- MODULE Documents -------------------------------
(* A project's documents with their attachments, its specifications with    *)
(* the remarks made on them, the trash both share with every other kind of  *)
(* deletable row, and drafts of forms.                                      *)
(*                                                                          *)
(* A client asks with what it has seen ("read"); the request locks its row, *)
(* and the parent of a row in the trash first, and compares ("held"); then  *)
(* it commits.  An upload stores its file before it commits ("put"), a      *)
(* purge deletes files before it commits.  The audit entry that follows a   *)
(* commit in a transaction of its own is left out.                          *)
EXTENDS Naturals, FiniteSets, TLC

CONSTANTS Calls, Files, Remarks, Targets,
          None,
          Demo,                 \* a demo reserves room, which commits and so drops the lock
          Retention, MaxTime,   \* how long a deleted row can be restored; the bound of time
          FileLimit, LinkLimit, RemarkLimit,
          Concerns              \* sets of operations: what the clients of a behaviour ask for

VARIABLES kinds,      \* the operations clients ask for
          now,
          row,        \* the document, the specification and each attachment: state and version
          body,       \* the text of the document and of the specification
          revision,   \* <<kind, version, text>>
          key, store, \* the object each attachment names; the objects in the store
          link,       \* what the document and the specification are linked with
          status, remark,       \* of the specification
          draft, calls
vars == <<kinds, now, row, body, revision, key, store, link, status, remark, draft, calls>>
rows == <<row, body, revision>>
files == <<key, store>>
review == <<status, remark>>

-----------------------------------------------------------------------------
Texts == {"a", "b"}
Statuses == {"draft", "in_review", "changes_requested", "approved"}
Kinds == {"document", "specification"}
Revision == ({"document"} \X Nat \X Texts) \cup ({"specification"} \X Nat \X (Texts \X Statuses))
Links == [Kinds -> SUBSET Targets]
Row == [state : {"absent", "live", "deleted", "purged"}, at : 0..MaxTime, version : Nat]
Remark == [state : {"absent", "open", "resolved"}, version : Nat]
Draft == [state : {"absent", "live"}, text : Texts, version : Nat, expires : Nat]
Live(x) == row[x].state = "live"
Parent(x) == IF x \in Files THEN {"document"} ELSE {}         \* RESOURCES
Expired(x, time) == row[x].at + Retention <= time
LiveFiles == {f \in Files : Live(f)}

DocumentRequests == [op : {"edit"}, on : {"document"}, text : Texts] \cup [op : {"delete"}, on : {"document"}]
LinkRequests == [op : {"link", "unlink"}, on : Kinds, target : Targets]
FileRequests == [op : {"upload", "detach"}, on : Files]
SpecificationRequests ==
    [op : {"respecify"}, on : {"specification"}, text : Texts] \cup [op : {"discard"}, on : {"specification"}]
    \cup [op : {"judge"}, on : {"specification"}, status : Statuses]
RemarkRequests == [op : {"remark", "resolve", "reopen"}, on : {"specification"}, remark : Remarks]
TrashRequests == [op : {"restore", "purge"}, on : Kinds \cup Files]
DraftRequests == [op : {"draft"}, on : {None}, text : Texts] \cup [op : {"undraft", "expire"}, on : {None}]
Requests == {d \in DocumentRequests \cup LinkRequests \cup FileRequests \cup SpecificationRequests
                   \cup RemarkRequests \cup TrashRequests \cup DraftRequests : d.op \in kinds}

Ask(c) == calls[c].ask
At(c, stage, ops) == calls[c].at = stage /\ Ask(c).op \in ops
Done(c) == calls' = [calls EXCEPT ![c] = [at |-> "done"]]
Goto(c, stage) == calls' = [calls EXCEPT ![c].at = stage]

(* The rows a request locks, and keeps locked until it commits: get(lock)   *)
(* of the services, and the parent first in the trash.                      *)
LocksWithoutRemarks(d) ==          \* mutation: a remark reads its specification without a lock
    IF d.op = "remark" THEN {} ELSE IF d.op \in {"upload", "detach"} THEN {"document"} ELSE {d.on} \cup Parent(d.on)
Locks(d) == IF d.op \in {"upload", "detach"} THEN {"document"} ELSE {d.on} \cup Parent(d.on)
Held(c) == IF calls[c].at = "held" \/ (calls[c].at = "put" /\ ~Demo) THEN Locks(Ask(c)) ELSE {}
CanLock(c) == \A x \in Calls \ {c} : Held(x) \cap Locks(Ask(c)) = {}

-----------------------------------------------------------------------------
(* A form, a listing of the trash or of what is due, as the client has it.  *)
Seen(d) ==
    CASE d.op \in {"resolve", "reopen"} -> remark[d.remark].version
      [] d.op \in {"draft", "undraft", "expire"} -> draft
      [] OTHER -> row[d.on]
Read(c) ==
    /\ calls[c].at = "idle"
    /\ \E d \in Requests :
         /\ CASE d.op \in {"restore", "purge"} -> row[d.on].state = "deleted"
              [] d.op = "upload" -> Live("document")
              [] d.op = "undraft" -> draft.state = "live"
              [] d.op \in {"draft", "expire"} -> TRUE
              [] OTHER -> Live(d.on)
         /\ d.op = "purge" => Retention # 0 /\ Expired(d.on, now)              \* due
         /\ calls' = [calls EXCEPT ![c] = [at |-> "read", ask |-> d, seen |-> Seen(d), from |-> now]]
    /\ UNCHANGED <<kinds, now, rows, files, link, review, draft>>
Refuse(c) ==       \* permission, a missing field, a deadline, a rollback, a lost process
    /\ calls[c].at \in {"read", "held", "put"}
    /\ Done(c)
    /\ UNCHANGED <<kinds, now, rows, files, link, review, draft>>

(* What is compared under the lock.                                         *)
StillDueUnchecked(c) == TRUE       \* mutation: the row is purged as it was listed
StillDue(c) == row[Ask(c).on].state = "deleted" /\ Expired(Ask(c).on, calls[c].from)
Restorable(x, time) ==
    /\ row[x].state = "deleted"
    /\ Retention = 0 \/ ~Expired(x, time)
    /\ \A p \in Parent(x) : Live(p)
Versioned == {"edit", "delete", "respecify", "discard", "judge", "remark"}
Agrees(c) ==
    LET d == Ask(c)
    IN /\ d.op \in Versioned => Live(d.on) /\ row[d.on].version = calls[c].seen.version
       /\ d.op = "judge" /\ d.status = "approved" => \A k \in Remarks : remark[k].state # "open"
       /\ d.op = "remark" => /\ remark[d.remark].state = "absent"
                             /\ Cardinality({k \in Remarks : remark[k].state # "absent"}) < RemarkLimit
       /\ d.op \in {"resolve", "reopen"} => /\ Live(d.on) /\ remark[d.remark].state # "absent"
                                            /\ remark[d.remark].version = calls[c].seen
       /\ d.op \in {"link", "unlink"} => Live(d.on)
       /\ d.op = "link" => d.target \notin link[d.on] /\ Cardinality(link[d.on]) < LinkLimit
       /\ d.op = "unlink" => d.target \in link[d.on]
       /\ d.op = "upload" => /\ Live("document") /\ row[d.on].state = "absent"    \* or the stored row answers
                             /\ Cardinality(LiveFiles) < FileLimit
       /\ d.op = "detach" => Live("document") /\ Live(d.on)
       /\ d.op = "restore" => row[d.on] = calls[c].seen /\ Restorable(d.on, now)
       /\ d.op = "purge" => StillDue(c)
Take(c) ==
    /\ calls[c].at = "read" /\ Ask(c).on # None
    /\ CanLock(c) /\ Agrees(c)
    /\ Goto(c, "held")
    /\ UNCHANGED <<kinds, now, rows, files, link, review, draft>>

-----------------------------------------------------------------------------
(* Documents.                                                               *)
Changed(x) == [row EXCEPT ![x].version = @ + 1]
Deleted(x) == [row EXCEPT ![x].state = "deleted", ![x].at = now, ![x].version = @ + 1]
CreateDocument ==          \* with its first revision
    /\ row["document"].state = "absent"
    /\ row' = [row EXCEPT !["document"] = [state |-> "live", at |-> 0, version |-> 1]]
    /\ revision' = revision \cup {<<"document", 1, body["document"]>>}
    /\ UNCHANGED <<kinds, now, body, files, link, review, draft, calls>>
UpdateDocument(c) ==       \* the same text is no change
    /\ At(c, "held", {"edit"})
    /\ LET d == Ask(c)
       IN IF body[d.on] = d.text THEN UNCHANGED rows
          ELSE /\ body' = [body EXCEPT ![d.on] = d.text]
               /\ row' = Changed(d.on)
               /\ revision' = revision \cup {<<d.on, row[d.on].version + 1, d.text>>}
    /\ Done(c)
    /\ UNCHANGED <<kinds, now, files, link, review, draft>>
DeleteDocument(c) ==       \* a version more, no revision
    /\ At(c, "held", {"delete"})
    /\ row' = Deleted("document")
    /\ Done(c)
    /\ UNCHANGED <<kinds, now, body, revision, files, link, review, draft>>
AddLink(c) ==
    /\ At(c, "held", {"link"})
    /\ link' = [link EXCEPT ![Ask(c).on] = @ \cup {Ask(c).target}]
    /\ Done(c)
    /\ UNCHANGED <<kinds, now, rows, files, review, draft>>
DeleteLink(c) ==
    /\ At(c, "held", {"unlink"})
    /\ link' = [link EXCEPT ![Ask(c).on] = @ \ {Ask(c).target}]
    /\ Done(c)
    /\ UNCHANGED <<kinds, now, rows, files, review, draft>>

(* Attachments.  Each upload stores an object of its own, which it drops    *)
(* again when it cannot keep it.                                            *)
KeyOf(c) == <<Ask(c).on, c>>
Put(c) ==
    /\ At(c, "held", {"upload"})
    /\ store' = store \cup {KeyOf(c)}
    /\ Goto(c, "put")
    /\ UNCHANGED <<kinds, now, rows, key, link, review, draft>>
Attach(c) ==               \* everything is compared once more
    /\ At(c, "put", {"upload"}) /\ CanLock(c)
    /\ LET f == Ask(c).on
       IN IF Live("document") /\ row[f].state = "absent" /\ Cardinality(LiveFiles) < FileLimit
          THEN /\ row' = [row EXCEPT ![f] = [state |-> "live", at |-> 0, version |-> 0]]
               /\ key' = [key EXCEPT ![f] = KeyOf(c)]
               /\ UNCHANGED store
          ELSE /\ store' = store \ {KeyOf(c)}
               /\ UNCHANGED <<row, key>>
    /\ Done(c)
    /\ UNCHANGED <<kinds, now, body, revision, link, review, draft>>
AttachFails(c) ==          \* the commit fails
    /\ At(c, "put", {"upload"})
    /\ store' = store \ {KeyOf(c)}
    /\ Done(c)
    /\ UNCHANGED <<kinds, now, rows, key, link, review, draft>>
Detach(c) ==
    /\ At(c, "held", {"detach"})
    /\ row' = [row EXCEPT ![Ask(c).on].state = "deleted", ![Ask(c).on].at = now]
    /\ Done(c)
    /\ UNCHANGED <<kinds, now, body, revision, files, link, review, draft>>

-----------------------------------------------------------------------------
(* Specifications.                                                          *)
CreateSpecification ==
    /\ row["specification"].state = "absent"
    /\ row' = [row EXCEPT !["specification"] = [state |-> "live", at |-> 0, version |-> 1]]
    /\ revision' = revision \cup {<<"specification", 1, <<body["specification"], "draft">>>>}
    /\ UNCHANGED <<kinds, now, body, files, link, review, draft, calls>>
Record(text, state) ==
    revision' = revision \cup {<<"specification", row["specification"].version + 1, <<text, state>>>>}
UpdateSpecification(c) ==  \* an approved text goes back to draft
    /\ At(c, "held", {"respecify"})
    /\ LET again == IF status = "approved" THEN "draft" ELSE status
       IN /\ body' = [body EXCEPT !["specification"] = Ask(c).text]
          /\ status' = again
          /\ Record(Ask(c).text, again)
    /\ row' = Changed("specification")
    /\ Done(c)
    /\ UNCHANGED <<kinds, now, files, link, remark, draft>>
SetStatus(c) ==
    /\ At(c, "held", {"judge"})
    /\ status' = Ask(c).status
    /\ Record(body["specification"], Ask(c).status)
    /\ row' = Changed("specification")
    /\ Done(c)
    /\ UNCHANGED <<kinds, now, body, files, link, remark, draft>>
DeleteSpecification(c) ==
    /\ At(c, "held", {"discard"})
    /\ row' = Deleted("specification")
    /\ Done(c)
    /\ UNCHANGED <<kinds, now, body, revision, files, link, review, draft>>
AddRemark(c) ==            \* the version of the specification stays
    /\ At(c, "held", {"remark"})
    /\ remark' = [remark EXCEPT ![Ask(c).remark] = [state |-> "open", version |-> 1]]
    /\ Done(c)
    /\ UNCHANGED <<kinds, now, rows, files, link, status, draft>>
Resolve(c) ==
    /\ At(c, "held", {"resolve", "reopen"})
    /\ remark' = [remark EXCEPT ![Ask(c).remark] = [state |-> IF Ask(c).op = "resolve" THEN "resolved" ELSE "open",
                                                    version |-> @.version + 1]]
    /\ Done(c)
    /\ UNCHANGED <<kinds, now, rows, files, link, status, draft>>

-----------------------------------------------------------------------------
(* The trash.                                                               *)
Restored(x) == [row EXCEPT ![x].state = "live", ![x].at = 0,
                           ![x].version = IF x \in Files THEN @ ELSE @ + 1]    \* attachments have no version
RestoredRevision(x) ==             \* only a document gets one
    IF x = "document" THEN revision \cup {<<x, row[x].version + 1, body[x]>>} ELSE revision
Restore(c) ==
    /\ At(c, "held", {"restore"})
    /\ row' = Restored(Ask(c).on)
    /\ revision' = RestoredRevision(Ask(c).on)
    /\ Done(c)
    /\ UNCHANGED <<kinds, now, body, files, link, review, draft>>
Owned(x) == IF x = "document" THEN {x} \cup {f \in Files : row[f].state # "absent"} ELSE {x}    \* purge_plan
OwnedKeys(x) == {key[f] : f \in Owned(x) \cap Files} \ {None}
PurgeObject(c) ==          \* one object after the other
    /\ At(c, "held", {"purge"})
    /\ \E k \in OwnedKeys(Ask(c).on) \cap store : store' = store \ {k}
    /\ UNCHANGED <<kinds, now, rows, key, link, review, draft, calls>>
Purge(c) ==                \* then the rows, in one commit
    /\ At(c, "held", {"purge"})
    /\ OwnedKeys(Ask(c).on) \cap store = {}
    /\ LET x == Ask(c).on
       IN /\ row' = [r \in DOMAIN row |-> IF r \in Owned(x) THEN [row[r] EXCEPT !.state = "purged"] ELSE row[r]]
          /\ revision' = {e \in revision : e[1] # x}
          /\ key' = [f \in Files |-> IF f \in Owned(x) THEN None ELSE key[f]]
          /\ link' = [k \in Kinds |-> IF k = x THEN {} ELSE link[k]]
          /\ remark' = IF x = "specification" THEN [k \in Remarks |-> [state |-> "absent", version |-> 0]] ELSE remark
    /\ Done(c)
    /\ UNCHANGED <<kinds, now, body, store, status, draft>>

-----------------------------------------------------------------------------
(* Drafts: read and compared without a lock.                                *)
DraftLife == 1             \* DRAFT_TTL_DAYS
NoDraft == [state |-> "absent", text |-> "a", version |-> 0, expires |-> 0]
Flushed(r, seen, new) == [f \in DOMAIN r |-> IF new[f] # seen[f] THEN new[f] ELSE r[f]]
SaveDraft(c) ==
    /\ At(c, "read", {"draft"})
    /\ LET seen == calls[c].seen
       IN draft' = IF seen.state = "absent"
                   THEN IF draft.state = "absent"
                        THEN [state |-> "live", text |-> Ask(c).text, version |-> 1, expires |-> now + DraftLife]
                        ELSE draft                                  \* the unique scope
                   ELSE IF draft.state = "absent" THEN draft        \* nothing to update
                   ELSE Flushed(draft, seen, [seen EXCEPT !.text = Ask(c).text, !.version = @ + 1,
                                                          !.expires = now + DraftLife])
    /\ Done(c)
    /\ UNCHANGED <<kinds, now, rows, files, link, review>>
DeleteDraft(c) ==
    /\ At(c, "read", {"undraft"})
    /\ draft' = NoDraft
    /\ Done(c)
    /\ UNCHANGED <<kinds, now, rows, files, link, review>>
ExpireDrafts(c) ==
    /\ At(c, "read", {"expire"})
    /\ draft' = IF draft.expires <= now THEN NoDraft ELSE draft
    /\ Done(c)
    /\ UNCHANGED <<kinds, now, rows, files, link, review>>
Tick ==
    /\ now < MaxTime
    /\ now' = now + 1
    /\ UNCHANGED <<kinds, rows, files, link, review, draft, calls>>

-----------------------------------------------------------------------------
(* A behaviour starts with what earlier requests may have left.             *)
Begun(state) == [state |-> state, at |-> 0, version |-> CASE state = "absent" -> 0 [] state = "live" -> 1 [] OTHER -> 2]
Init ==
    /\ kinds \in Concerns
    /\ now = 0
    /\ \E d \in {"absent", "live", "deleted"}, f \in {"absent", "live", "deleted"} :
         /\ d = "absent" => f = "absent"
         /\ f = "live" => Cardinality(Files) <= FileLimit
         /\ row = [x \in Kinds \cup Files |->
                     IF x \notin Files THEN Begun(d)
                     ELSE [state |-> f, at |-> 0, version |-> 0]]
         /\ revision = IF d = "absent" THEN {} ELSE {<<"document", 1, "a">>, <<"specification", 1, <<"a", "draft">>>>}
         /\ key = [x \in Files |-> IF f = "absent" THEN None ELSE <<x, None>>]
         /\ store = IF f = "absent" THEN {} ELSE {<<x, None>> : x \in Files}
    /\ body = [k \in Kinds |-> "a"]
    /\ link = [k \in Kinds |-> {}]
    /\ status = "draft"
    /\ remark = [k \in Remarks |-> [state |-> "absent", version |-> 0]]
    /\ draft = NoDraft
    /\ calls = [c \in Calls |-> [at |-> "idle"]]

DocumentWork(c) == UpdateDocument(c) \/ DeleteDocument(c) \/ AddLink(c) \/ DeleteLink(c)
AttachmentWork(c) == Put(c) \/ Attach(c) \/ AttachFails(c) \/ Detach(c)
SpecificationWork(c) == UpdateSpecification(c) \/ SetStatus(c) \/ DeleteSpecification(c) \/ AddRemark(c) \/ Resolve(c)
TrashWork(c) == Restore(c) \/ PurgeObject(c) \/ Purge(c)
DraftWork(c) == SaveDraft(c) \/ DeleteDraft(c) \/ ExpireDrafts(c)
Next ==
    \/ Tick \/ CreateDocument \/ CreateSpecification
    \/ \E c \in Calls : \/ Read(c) \/ Take(c) \/ Refuse(c)
                        \/ DocumentWork(c) \/ AttachmentWork(c) \/ SpecificationWork(c)
                        \/ TrashWork(c) \/ DraftWork(c)
Spec == Init /\ [][Next]_vars

-----------------------------------------------------------------------------
(* Every variable has its type.                                             *)
TypeOK ==
    /\ row \in [Kinds \cup Files -> Row] /\ body \in [Kinds -> Texts]
    /\ revision \subseteq Revision /\ link \in Links /\ status \in Statuses
    /\ remark \in [Remarks -> Remark] /\ draft \in Draft

(* Whoever can still reach an attachment, now or after restoring it and its *)
(* document, finds its file: a purge that stopped half way, an upload that  *)
(* lost and a restore in between notwithstanding.                           *)
Reachable(x) == Live(x) \/ (row[x].state = "deleted" /\ (Retention = 0 \/ ~Expired(x, now)))
ReachableFileIsThere == \A f \in Files :
    Reachable(f) /\ Reachable("document") => key[f] \in store

(* The live document has a revision of its own version, with its text, and  *)
(* no version has two, also after it was deleted and restored.              *)
DocumentHasItsRevision ==
    /\ Live("document") => <<"document", row["document"].version, body["document"]>> \in revision
    /\ \A e, g \in revision : e[1] = g[1] /\ e[2] = g[2] => e = g

(* A specification becomes approved only while no remark on it is open.     *)
ApprovalSawEveryRemark ==
    [][status' = "approved" /\ status # "approved" => \A k \in Remarks : remark'[k].state # "open"]_vars

(* An attachment comes back from the trash only under a live document.      *)
RestoredUnderLiveParent ==
    [][\A f \in Files : row[f].state = "deleted" /\ row'[f].state = "live" => Live("document")]_vars
=============================================================================
