------------------------------ MODULE TestDesign ------------------------------
(* A test design, the cases generated from it, their runs, and the files    *)
(* attached to a run.                                                       *)
(*                                                                          *)
(* A client reads a version ("form"), sends it back ("sent"); the handler   *)
(* locks the design, reads and checks ("held") and commits.  The files of a *)
(* run are guarded by the lock of the run's row, which is gone before a     *)
(* failed commit has removed its object ("failed").                         *)
EXTENDS Naturals, Sequences, FiniteSets, TLC

CONSTANTS Calls,
          Keys,         \* what a case may be generated from (an item, with a pattern)
          Files,        \* ids of uploads to one run
          NoSource,     \* no content: the key is not active
          MAX_FILES_PER_EXECUTION,
          MaxVersion,   \* bound: versions of the design and of a case
          Concerns      \* sets of operations: what the clients of a behaviour ask for

VARIABLES kinds,        \* the operations clients ask for
          design,       \* [live, version, content of each key]
          case,         \* row of the case of each key
          runs,         \* the newest execution of each case
          confirmed,    \* history: text a person last confirmed of each case
          link,         \* requirement linked to the item of each key
          remark,       \* a comment on the design, and its change rows
          file,         \* evidence rows
          object,       \* the objects in the store: evidence and pending uploads
          calls
vars == <<kinds, design, case, runs, confirmed, link, remark, file, object, calls>>
tests == <<kinds, design, case, runs, confirmed>>
files == <<file, object>>

-----------------------------------------------------------------------------
(* Content is a text and an item code; the digest of a content is itself.   *)
Source == [text : {"a", "b"}, code : {1, 2}]
source_without_item_code(s) == s.text
Statuses == {"not_run", "passed", "failed"}
TestCase == [exists : BOOLEAN, source : Source \cup {NoSource}, ack : Source \cup {NoSource},
             hash : Source \cup {NoSource}, status : Statuses, version : Nat]
TestExecution == [run_number : Nat, status : Statuses, source : Source \cup {NoSource}]
TestEvidence == {"absent", "live", "deleted"}
Objects == [evidence : SUBSET Files, pending : SUBSET Files, planned : SUBSET Files]

case_sources == {k \in Keys : design.content[k] # NoSource}          \* active keys
Stale(k) == design.content[k] = NoSource \/ design.content[k] # case[k].hash
GeneratedAsDraft(s) ==        \* mutation: a case takes the status of a design
    [exists |-> TRUE, source |-> s, ack |-> s, hash |-> s, status |-> "draft", version |-> 1]
Generated(s) == [exists |-> TRUE, source |-> s, ack |-> s, hash |-> s, status |-> "not_run", version |-> 1]
LiveFiles == {f \in Files : file[f] = "live"}

Requests ==
    {d \in [op : {"save"}, key : Keys, content : Source \cup {NoSource}]
           \cup [op : {"generate", "delete"}]
           \cup [op : {"execute"}, key : Keys, status : {"failed"}]
           \cup [op : {"refresh", "link", "unlink"}, key : Keys]
           \cup [op : {"plan", "upload", "complete", "drop"}, file : Files]
           \cup [op : {"remark", "amend", "erase", "resolve"}] : d.op \in kinds}

At(c, stage, ops) == calls[c].at = stage /\ calls[c].ask.op \in ops
Goto(c, stage) == calls' = [calls EXCEPT ![c].at = stage]
Done(c) == calls' = [calls EXCEPT ![c] = [at |-> "done"]]

Designs == {"save", "generate", "delete"}
Cases == {"execute", "refresh"}
Holding(c, op) == At(c, "held", op)
LockFree(c) == IF calls[c].ask.op \in Designs \cup Cases
               THEN ~\E x \in Calls : Holding(x, Designs \cup Cases)
               ELSE ~\E x \in Calls : Holding(x, {"upload", "complete"})

-----------------------------------------------------------------------------
(* A client looks, and asks for something on the strength of what it saw.   *)
Shown(d) == CASE d.op \in Designs -> design.version [] d.op \in Cases -> case[d.key].version
              [] OTHER -> remark.version
Look(c) ==
    /\ calls[c].at = "idle"
    /\ \E d \in Requests :
         /\ design.live
         /\ d.op \in Cases => case[d.key].exists
         /\ d.op \in {"amend", "erase", "resolve"} => remark.state = "live"
         /\ calls' = [calls EXCEPT ![c] = [at |-> "form", ask |-> d,
                        version |-> Shown(d),
                        saw |-> IF d.op \in Cases THEN case[d.key].source ELSE NoSource]]
    /\ UNCHANGED <<tests, link, remark, files>>

Refuse(c) ==       \* permission, a stale form, a missing row, a lost process
    /\ calls[c].at \in {"form", "held", "put", "failed"}
    /\ Done(c)
    /\ UNCHANGED <<tests, link, remark, files>>

(* The design's row is locked, then compared.                               *)
Lock(c) ==
    /\ At(c, "form", Designs \cup Cases)
    /\ LockFree(c)
    /\ design.live
    /\ calls[c].version = (IF calls[c].ask.op \in Designs THEN design.version
                           ELSE case[calls[c].ask.key].version)
    /\ Goto(c, "held")
    /\ UNCHANGED <<tests, link, remark, files>>

was_acknowledged(r) == r.source = r.hash
AgreesUnread(r, s) == source_without_item_code(r.source) = source_without_item_code(s)    \* mutation
Agrees(r, s) == was_acknowledged(r) /\ source_without_item_code(r.source) = source_without_item_code(s)
VersionKept(r) == r.version                   \* mutation: a case changes under its version
NewVersion(r) == r.version + 1
Synced(r, s) ==                               \* a case whose content the design changed
    [r EXCEPT !.source = s, !.version = NewVersion(r),
              !.ack = IF Agrees(r, s) THEN s
                      ELSE IF @ = NoSource /\ was_acknowledged(r) THEN r.source ELSE @,
              !.hash = IF Agrees(r, s) THEN s ELSE @]

Save(c) ==         \* the whole graph, then every case, in one commit
    /\ Holding(c, {"save"})
    /\ design.version < MaxVersion
    /\ LET k == calls[c].ask.key
           s == calls[c].ask.content
           content == [design.content EXCEPT ![k] = s]
           made == {x \in Keys : content[x] # NoSource /\ ~case[x].exists}
       IN /\ design' = [design EXCEPT !.content = content, !.version = @ + 1]
          /\ case' = [x \in Keys |->
                 IF x \in made THEN Generated(content[x])
                 ELSE IF content[x] # NoSource /\ case[x].source # content[x]
                 THEN Synced(case[x], content[x]) ELSE case[x]]
          /\ confirmed' = [x \in Keys |-> IF x \in made THEN content[x].text ELSE confirmed[x]]
    /\ Done(c)
    /\ UNCHANGED <<kinds, runs, link, remark, files>>

Generate(c) ==
    /\ Holding(c, {"generate"})
    /\ LET made == {x \in case_sources : ~case[x].exists}
       IN /\ case' = [x \in Keys |-> IF x \in made THEN Generated(design.content[x]) ELSE case[x]]
          /\ confirmed' = [x \in Keys |-> IF x \in made THEN design.content[x].text ELSE confirmed[x]]
    /\ Done(c)
    /\ UNCHANGED <<kinds, design, runs, link, remark, files>>

DeleteDesign(c) ==
    /\ Holding(c, {"delete"})
    /\ design' = [design EXCEPT !.live = FALSE, !.version = @ + 1]
    /\ Done(c)
    /\ UNCHANGED <<kinds, case, runs, confirmed, link, remark, files>>

Execute(c) ==      \* the case's result and its run, in one commit
    /\ Holding(c, {"execute"})
    /\ LET k == calls[c].ask.key
           run == [run_number |-> runs[k].run_number + 1, status |-> calls[c].ask.status,
                   source |-> case[k].source]
       IN /\ case[k].version < MaxVersion
          /\ runs' = [runs EXCEPT ![k] = run]
          /\ case' = [case EXCEPT ![k].status = run.status, ![k].version = @ + 1]
    /\ Done(c)
    /\ UNCHANGED <<kinds, design, confirmed, link, remark, files>>

Refreshed(r, s) == [r EXCEPT !.source = s, !.ack = s, !.hash = s, !.version = @ + 1]
Refresh(c) ==      \* a person confirms the current content
    /\ Holding(c, {"refresh"})
    /\ LET k == calls[c].ask.key
           s == design.content[k]
       IN /\ k \in case_sources /\ case[k].version < MaxVersion
          /\ case' = [case EXCEPT ![k] = Refreshed(@, s)]
          /\ confirmed' = [confirmed EXCEPT ![k] = s.text]
    /\ Done(c)
    /\ UNCHANGED <<kinds, design, runs, link, remark, files>>

-----------------------------------------------------------------------------
(* The requirement an item is for: looked up and inserted without a lock,   *)
(* one row for a pair.                                                      *)
CreateLink(c) ==
    /\ At(c, "form", {"link"})
    /\ LET k == calls[c].ask.key
       IN design.content[k] # NoSource /\ ~link[k] /\ link' = [link EXCEPT ![k] = TRUE]
    /\ Done(c)
    /\ UNCHANGED <<tests, remark, files>>
DeleteLink(c) ==
    /\ At(c, "form", {"unlink"})
    /\ link' = [link EXCEPT ![calls[c].ask.key] = FALSE]
    /\ Done(c)
    /\ UNCHANGED <<tests, remark, files>>

(* Comments: the row is locked and compared, its change row in one commit.  *)
CreateComment(c) ==
    /\ At(c, "form", {"remark"})
    /\ remark.state = "absent" /\ design.live
    /\ remark' = [state |-> "live", resolved |-> FALSE, version |-> 1, changes |-> <<"created">>]
    /\ Done(c)
    /\ UNCHANGED <<tests, link, files>>
UpdateComment(c) ==
    /\ At(c, "form", {"amend", "erase", "resolve"})
    /\ remark.state = "live" /\ design.live
    /\ remark.version = calls[c].version /\ remark.version < MaxVersion
    /\ LET op == calls[c].ask.op
       IN remark' = [state |-> IF op = "erase" THEN "deleted" ELSE "live",
                     resolved |-> remark.resolved # (op = "resolve"),
                     version |-> remark.version + 1, changes |-> Append(remark.changes, op)]
    /\ Done(c)
    /\ UNCHANGED <<tests, link, files>>

-----------------------------------------------------------------------------
(* Files of a run.                                                          *)
Plan(c) ==         \* the number of files is looked at without the lock
    /\ At(c, "form", {"plan"})
    /\ LET f == calls[c].ask.file
       IN /\ Cardinality(LiveFiles) < MAX_FILES_PER_EXECUTION
          /\ f \notin object.planned /\ file[f] = "absent" /\ f \notin object.evidence
          /\ object' = [object EXCEPT !.planned = @ \cup {f}]
    /\ Done(c)
    /\ UNCHANGED <<tests, link, remark, file>>

BrowserPuts ==     \* with the signed address, as long as it lasts
    /\ \E f \in object.planned : object' = [object EXCEPT !.pending = @ \cup {f}]
    /\ UNCHANGED <<tests, link, remark, file, calls>>

UnderLimit == Cardinality(LiveFiles) < MAX_FILES_PER_EXECUTION
LockRun(c) ==      \* lock_execution, then what is registered already
    /\ At(c, "form", {"upload", "complete"})
    /\ LockFree(c)
    /\ LET f == calls[c].ask.file
       IN /\ IF calls[c].ask.op = "complete" THEN f \in object.planned
             ELSE f \notin object.planned \cup object.evidence
                  /\ \A x \in Calls : Holding(x, {"upload"}) => calls[x].ask.file # f      \* a fresh id
          /\ file[f] = "absent"
          /\ UnderLimit
          /\ calls[c].ask.op = "complete" => f \in object.pending
    /\ Goto(c, "held")
    /\ UNCHANGED <<tests, link, remark, files>>

PutObject(c) ==    \* under the evidence's own key; the row comes next
    /\ Holding(c, {"upload", "complete"})
    /\ calls[c].ask.file \notin object.evidence
    /\ object' = [object EXCEPT !.evidence = @ \cup {calls[c].ask.file}]
    /\ UNCHANGED <<tests, link, remark, file, calls>>

Discarded(c) == IF calls[c].ask.op = "complete" THEN object.pending \ {calls[c].ask.file} ELSE object.pending
Register(c) ==
    /\ Holding(c, {"upload", "complete"})
    /\ calls[c].ask.file \in object.evidence
    /\ file' = [file EXCEPT ![calls[c].ask.file] = "live"]
    /\ object' = [object EXCEPT !.pending = Discarded(c)]
    /\ Done(c)
    /\ UNCHANGED <<tests, link, remark>>

CommitFails(c) ==  \* rolled back: the lock is gone, the object is not yet
    /\ Holding(c, {"upload", "complete"})
    /\ calls[c].ask.file \in object.evidence
    /\ Goto(c, "failed")
    /\ UNCHANGED <<tests, link, remark, files>>
DeleteObject(c) ==
    /\ calls[c].at = "failed"
    /\ object' = [object EXCEPT !.evidence = @ \ {calls[c].ask.file}, !.pending = Discarded(c)]
    /\ Done(c)
    /\ UNCHANGED <<tests, link, remark, file>>

DeleteEvidence(c) ==      \* the row only
    /\ At(c, "form", {"drop"})
    /\ file[calls[c].ask.file] = "live"
    /\ file' = [file EXCEPT ![calls[c].ask.file] = "deleted"]
    /\ Done(c)
    /\ UNCHANGED <<tests, link, remark, object>>

-----------------------------------------------------------------------------
Old == [exists |-> TRUE, source |-> [text |-> "a", code |-> 1], ack |-> NoSource,
        hash |-> [text |-> "a", code |-> 1], status |-> "not_run", version |-> 1]
NoCase == [exists |-> FALSE, source |-> NoSource, ack |-> NoSource, hash |-> NoSource,
           status |-> "not_run", version |-> 0]
Init ==            \* a case may be older than acknowledged_source, or not be made yet
    /\ \E k \in Keys, r \in {Old, [Old EXCEPT !.ack = Old.source], NoCase}, s \in {Old.source, NoSource} :
         /\ r.exists => s = Old.source
         /\ case = [x \in Keys |-> IF x = k THEN r ELSE NoCase]
         /\ design = [live |-> TRUE, version |-> 1, content |-> [x \in Keys |-> IF x = k THEN s ELSE NoSource]]
    /\ confirmed = [x \in Keys |-> "a"]
    /\ runs = [k \in Keys |-> [run_number |-> 0, status |-> "not_run", source |-> NoSource]]
    /\ kinds \in Concerns
    /\ link = [k \in Keys |-> FALSE]
    /\ remark = [state |-> "absent", resolved |-> FALSE, version |-> 0, changes |-> <<>>]
    /\ file = [f \in Files |-> "absent"]
    /\ object = [evidence |-> {}, pending |-> {}, planned |-> {}]
    /\ calls = [c \in Calls |-> [at |-> "idle"]]

Again(c) ==        \* a client asks for something else
    /\ calls[c].at = "done"
    /\ calls' = [calls EXCEPT ![c] = [at |-> "idle"]]
    /\ UNCHANGED <<tests, link, remark, files>>
TestDesigns(c) == Lock(c) \/ Save(c) \/ Generate(c) \/ DeleteDesign(c) \/ Execute(c) \/ Refresh(c)
TestCollaboration(c) == CreateLink(c) \/ DeleteLink(c) \/ CreateComment(c) \/ UpdateComment(c)
TestEvidenceFiles(c) == \/ Plan(c) \/ LockRun(c) \/ PutObject(c) \/ Register(c) \/ CommitFails(c)
                        \/ DeleteObject(c) \/ DeleteEvidence(c)
Next == \/ \E c \in Calls : \/ Look(c) \/ Again(c) \/ Refuse(c) \/ TestDesigns(c)
                            \/ TestCollaboration(c) \/ TestEvidenceFiles(c)
        \/ BrowserPuts
Spec == Init /\ [][Next]_vars

-----------------------------------------------------------------------------
(* Every row has its type.                                                  *)
TypeOK ==
    /\ design \in [live : BOOLEAN, version : Nat, content : [Keys -> Source \cup {NoSource}]]
    /\ case \in [Keys -> TestCase] /\ object \in Objects /\ file \in [Files -> TestEvidence]
    /\ runs \in [Keys -> TestExecution]

(* A case that is not shown as changed has the text a person last confirmed *)
(* of it, however often the design was changed, and changed back, and even  *)
(* if the changes of its item code confirmed themselves.                    *)
NothingUnreadIsShownAsRead ==
    \A k \in Keys : case[k].exists /\ ~Stale(k) => design.content[k].text = confirmed[k]

(* A result, or a confirmation, is about the content its author was shown,  *)
(* though the design may have been saved in between.                        *)
SeenIsWhatCounts == [][\A c \in Calls : calls'[c] # calls[c] =>
    /\ Holding(c, {"execute"}) /\ runs' # runs =>
           \E k \in Keys : runs'[k] # runs[k] /\ runs'[k].source = calls[c].saw
    /\ Holding(c, {"refresh"}) /\ case' # case => case'[calls[c].ask.key].ack = calls[c].saw]_vars

(* A run never has more files than its limit, however many are uploaded at  *)
(* once or completed again.                                                 *)
FilesWithinLimit == Cardinality(LiveFiles) <= MAX_FILES_PER_EXECUTION
=============================================================================
