----------------------------- MODULE Requirements -----------------------------
(* The requirement documents of a project: documents and their sections,    *)
(* requirements with their revisions and plainer children, open issues that *)
(* may be promoted to requirements, and comments on any of these.           *)
(*                                                                          *)
(* A request reads without a lock ("read"); documents, requirements, open   *)
(* issues and comments are then locked, re-read and compared with the       *)
(* version the client names ("checked") before they are written; sections,  *)
(* promotions, deletions and children are not.  "saved": the history entry  *)
(* is a transaction of its own.                                             *)
EXTENDS Naturals, FiniteSets

CONSTANTS Calls, Documents, Sections, Items, Issues, Users,
          d1, r1,       \* the document and the requirement that exist at first
          NoOne, None,
          Keys,         \* request keys of standard documents
          Concerns,     \* sets of operations: what the clients of a behaviour ask for
          RetryLimit    \* AUTO_REQUIREMENT_CODE_RETRY_LIMIT

VARIABLES kinds,      \* the operations clients ask for
          document, receipt,     \* documents; receipts of standard ones by key
          section, item, issue,
          revision,   \* <<requirement, version, before, after>>
          child,      \* a detail, a link, a relation, a review and a remark of r1
          comment,    \* one comment on each thing
          log, told, calls
vars == <<kinds, document, receipt, section, item, issue, revision, child, comment, log, told, calls>>
documents == <<kinds, document, receipt>>
texts == <<section, item, revision>>
talk == <<child, comment>>
notes == <<log, told>>

-----------------------------------------------------------------------------
RowState == {"absent", "live", "deleted"}
Codes == 0..3
RequirementDocument == [state : RowState, code : Codes, sections : {0, 9}, key : Keys \cup {None}, version : Nat]
RequirementSection == [state : RowState, order : 0..3, title : {"a", "b"}, version : Nat]
Deleted(row) == [row EXCEPT !.state = "deleted"]
Text == [text : {"a", "b"}, owner : Users \cup {NoOne}]
Requirement == [state : RowState, text : Text, code : Nat, source : {None} \cup (Issues \X Nat), version : Nat]
OpenIssue == [state : RowState, assignee : Users \cup {NoOne}, status : {"open", "resolved"},
              related : Items \cup {None}, code : Nat, version : Nat]
Children == {"detail", "link", "relation", "review", "remark"}
Child == [state : {"absent", "live"}, text : {"a", "b"}]
Targets == {"document", "section", "item", "issue"}
TargetComment == [state : RowState, resolved : BOOLEAN, mentions : SUBSET Users, version : Nat]

LiveDocument == document[d1].state = "live"
LiveSection(s) == LiveDocument /\ section[s].state = "live"
LiveItem(r) == LiveDocument /\ item[r].state = "live"
LiveIssue(i) == LiveDocument /\ issue[i].state = "live"
LiveTarget(t) ==
    CASE t = "document" -> LiveDocument
      [] t = "section" -> \E s \in Sections : LiveSection(s)
      [] t = "item" -> LiveItem(r1)
      [] t = "issue" -> \E i \in Issues : LiveIssue(i)
Numbers(rows) == {0} \cup {rows[x].code : x \in DOMAIN rows}
MaxNumber(rows) == CHOOSE n \in Numbers(rows) : \A m \in Numbers(rows) : m <= n
CodeStored(rows, n) == \E x \in DOMAIN rows : rows[x].state # "absent" /\ rows[x].code = n

DocumentRequests ==
    [op : {"document"}, code : {1, 2}] \cup [op : {"standard"}, key : Keys, code : {2, 3}]
    \cup [op : {"redocument"}, document : Documents, code : {1, 2}] \cup [op : {"undocument"}, document : Documents]
SectionRequests ==
    [op : {"section", "unsection"}, section : Sections] \cup [op : {"resection"}, section : Sections, title : {"a", "b"}]
    \cup [op : {"sort"}, first : Sections]
ItemRequests ==
    [op : {"item"}, item : Items, code : {0, 1}, owner : Users \cup {NoOne}] \cup [op : {"unitem"}, item : Items]
    \cup [op : {"reitem"}, item : Items, set : {[text |-> "b"], [text |-> "a"]} \cup {[owner |-> u] : u \in Users}]
IssueRequests ==
    [op : {"issue"}, issue : Issues, code : {0, 1}, assignee : Users \cup {NoOne}] \cup [op : {"unissue"}, issue : Issues]
    \cup [op : {"reissue"}, issue : Issues, related : Items \cup {None}, assignee : Users]
    \cup [op : {"promote"}, issue : Issues, item : Items]
ChildRequests ==
    [op : {"child", "unchild"}, child : Children] \cup [op : {"rechild"}, child : {"detail", "link", "review"}, text : {"b"}]
CommentRequests ==
    [op : {"comment", "recomment"}, target : Targets, mentions : SUBSET Users]
    \cup [op : {"uncomment", "resolve", "reopen"}, target : Targets]
Requests == {d \in DocumentRequests \cup SectionRequests \cup ItemRequests \cup IssueRequests
                   \cup ChildRequests \cup CommentRequests : d.op \in kinds}

At(c, stage, ops) == calls[c].at = stage /\ calls[c].ask.op \in ops
Done(c) == calls' = [calls EXCEPT ![c] = [at |-> "done"]]
Goto(c, stage) == calls' = [calls EXCEPT ![c].at = stage]
Emit(u, key) == IF u = NoOne THEN {} ELSE {<<u, key>>}
Assigned(old, new, key) == IF new = old THEN {} ELSE Emit(new, key)
Mentioned(t, old, new) == {<<u, <<t, new.version>>>> : u \in new.mentions \ old.mentions}
Flushed(r, seen, new) == [f \in DOMAIN r |-> IF new[f] # seen[f] THEN new[f] ELSE r[f]]

-----------------------------------------------------------------------------
(* What each operation finds, without a lock, before it goes on.            *)
Subject(d) ==
    CASE d.op \in {"document", "standard"} -> None
      [] d.op \in {"redocument", "undocument"} -> document[d.document]
      [] d.op \in {"section", "unsection", "resection"} -> section[d.section]
      [] d.op = "sort" -> section
      [] d.op \in {"item", "reitem", "unitem"} -> item[d.item]
      [] d.op \in {"issue", "reissue", "unissue", "promote"} -> issue[d.issue]
      [] d.op \in {"child", "rechild", "unchild"} -> child[d.child]
      [] OTHER -> comment[d.target]
Found(d) ==
    CASE d.op \in {"document", "standard"} -> TRUE
      [] d.op \in {"redocument", "undocument"} -> document[d.document].state = "live"
      [] d.op = "section" -> LiveDocument /\ section[d.section].state = "absent"
      [] d.op \in {"unsection", "resection"} -> LiveSection(d.section)
      [] d.op = "sort" -> LiveDocument /\ \A s \in Sections : section[s].state = "live"
      [] d.op = "item" -> LiveDocument /\ item[d.item].state = "absent"
      [] d.op \in {"reitem", "unitem"} -> LiveItem(d.item)
      [] d.op = "issue" -> LiveDocument /\ issue[d.issue].state = "absent"
      [] d.op = "promote" -> LiveIssue(d.issue) /\ item[d.item].state = "absent"
      [] d.op \in {"reissue", "unissue"} -> LiveIssue(d.issue)
      [] d.op = "child" -> LiveItem(r1) /\ child[d.child].state = "absent"
      [] d.op \in {"rechild", "unchild"} -> LiveItem(r1) /\ child[d.child].state = "live"
      [] d.op = "comment" -> LiveTarget(d.target) /\ comment[d.target].state = "absent"
      [] OTHER -> LiveTarget(d.target) /\ comment[d.target].state = "live"

Read(c) ==
    /\ calls[c].at = "idle"
    /\ \E d \in Requests :
         /\ Found(d)
         /\ d.op = "document" => \A x \in Documents : document[x].state = "live" => document[x].code # d.code
         /\ d.op \in {"item", "issue"} /\ d.code # 0 =>
                LET rows == IF d.op = "item" THEN item ELSE issue
                IN \A x \in DOMAIN rows : rows[x].state = "live" => rows[x].code # d.code
         /\ IF d.op = "standard" /\ receipt[d.key] # None
            THEN Done(c)                                     \* _replay
            ELSE calls' = [calls EXCEPT ![c] =
                    [at |-> "read", ask |-> d, seen |-> Subject(d), tries |-> 1,
                     named |-> IF d.op = "promote" THEN issue[d.issue].version ELSE 0,
                     number |-> CASE d.op = "item" -> IF d.code = 0 THEN MaxNumber(item) + 1 ELSE d.code
                                  [] d.op = "issue" -> IF d.code = 0 THEN MaxNumber(issue) + 1 ELSE d.code
                                  [] d.op = "promote" -> MaxNumber(item) + 1
                                  [] OTHER -> 0]]
    /\ UNCHANGED <<documents, texts, issue, talk, notes>>

Log(c) ==          \* the history entry in its own transaction
    /\ calls[c].at = "saved"
    /\ log' = log \cup {calls[c].ask}
    /\ Done(c)
    /\ UNCHANGED <<documents, texts, issue, talk, told>>
Refuse(c) ==       \* permission, a stale form, a missing row, a lost process
    /\ calls[c].at \in {"read", "checked", "saved"}
    /\ Done(c)
    /\ UNCHANGED <<documents, texts, issue, talk, notes>>

(* The row locked, re-read and compared.  A document must still be live;    *)
(* the others are re-read by id, whatever became of them.                   *)
ReadOnce(c) == calls[c].seen                  \* mutation: what was read first is kept
Reread(c) == Subject(calls[c].ask)
SameVersion(c) == Reread(c).version = calls[c].seen.version
LockedOps == {"redocument", "reitem", "reissue", "recomment"}
SameRow(d, e) == CASE d.op = "redocument" -> e.op = "redocument" /\ e.document = d.document
                   [] d.op = "reitem" -> e.op = "reitem" /\ e.item = d.item
                   [] d.op = "reissue" -> e.op = "reissue" /\ e.issue = d.issue
                   [] OTHER -> e.op = "recomment" /\ e.target = d.target
NotLocked(c, d) == ~\E x \in Calls \ {c} : At(x, "checked", LockedOps) /\ SameRow(calls[x].ask, d)
Check(c) ==
    /\ At(c, "read", LockedOps)
    /\ LET d == calls[c].ask
       IN /\ NotLocked(c, d)
          /\ SameVersion(c)
          /\ d.op = "redocument" => Found(d) /\ ~CodeStored([x \in Documents \ {d.document} |-> document[x]], d.code)
          /\ d.op = "reissue" /\ d.related # None => LiveItem(d.related)
    /\ calls' = [calls EXCEPT ![c].at = "checked", ![c].seen = Reread(c)]
    /\ UNCHANGED <<documents, texts, issue, talk, notes>>
Unlocked(op, key, value) ==       \* an UPDATE waits for a lock on its row
    \A x \in Calls : At(x, "checked", {op}) => calls[x].ask[key] # value

-----------------------------------------------------------------------------
(* Documents.                                                               *)
FreshDocument(code, key) ==
    \E x \in Documents :
        /\ document[x].state = "absent"
        /\ document' = [document EXCEPT ![x] = [state |-> "live", code |-> code, key |-> key, version |-> 1,
                                                sections |-> IF key = None THEN 0 ELSE 9]]
CreateDocument(c) ==        \* with its history entry
    /\ At(c, "read", {"document"})
    /\ IF CodeStored(document, calls[c].ask.code)
       THEN UNCHANGED <<document, log>>                       \* the unique index
       ELSE FreshDocument(calls[c].ask.code, None) /\ log' = log \cup {calls[c].ask}
    /\ Done(c)
    /\ UNCHANGED <<kinds, receipt, texts, issue, talk, told>>
ReceiptFree(key) == receipt[key] = None
CreateStandard(c) ==        \* document, nine sections and receipt in one commit
    /\ At(c, "read", {"standard"})
    /\ LET d == calls[c].ask
       IN IF CodeStored(document, d.code) \/ ~ReceiptFree(d.key)
          THEN UNCHANGED <<document, receipt, log>>           \* rolled back, then the receipt is replayed
          ELSE /\ FreshDocument(d.code, d.key)
               /\ receipt' = [receipt EXCEPT ![d.key] = d.code]
               /\ log' = log \cup {d}
    /\ Done(c)
    /\ UNCHANGED <<kinds, texts, issue, talk, told>>
UpdateDocument(c) ==
    /\ At(c, "checked", {"redocument"})
    /\ LET d == calls[c].ask
       IN document' = [document EXCEPT ![d.document].code = d.code, ![d.document].version = calls[c].seen.version + 1]
    /\ log' = log \cup {calls[c].ask}
    /\ Done(c)
    /\ UNCHANGED <<kinds, receipt, texts, issue, talk, told>>
DeleteDocument(c) ==        \* the row only; what belongs to it stays
    /\ At(c, "read", {"undocument"})
    /\ Unlocked("redocument", "document", calls[c].ask.document)
    /\ document' = [document EXCEPT ![calls[c].ask.document] = Deleted(@)]
    /\ Goto(c, "saved")
    /\ UNCHANGED <<kinds, receipt, texts, issue, talk, notes>>

(* Sections: compared when they were read, written without a lock.          *)
NewSection == [state |-> "live", order |-> 0, title |-> "a", version |-> 1]
Retitled(s, title) == [s EXCEPT !.title = title, !.version = @ + 1]
Placed(s, place) == [s EXCEPT !.order = place, !.version = @ + 1]
CreateSection(c) ==
    /\ At(c, "read", {"section"})
    /\ section' = [section EXCEPT ![calls[c].ask.section] = NewSection]
    /\ Goto(c, "saved")
    /\ UNCHANGED <<documents, item, revision, issue, talk, notes>>
UpdateSection(c) ==
    /\ At(c, "read", {"resection"})
    /\ LET s == calls[c].ask.section
           seen == calls[c].seen
       IN section' = [section EXCEPT ![s] =
                         Flushed(@, seen, Retitled(seen, calls[c].ask.title))]
    /\ Goto(c, "saved")
    /\ UNCHANGED <<documents, item, revision, issue, talk, notes>>
SortSections(c) ==          \* every section named, in one commit
    /\ At(c, "read", {"sort"})
    /\ LET seen == calls[c].seen
       IN section' = [s \in Sections |->
                        Flushed(section[s], seen[s], Placed(seen[s], IF s = calls[c].ask.first THEN 1 ELSE 2))]
    /\ Goto(c, "saved")
    /\ UNCHANGED <<documents, item, revision, issue, talk, notes>>
DeleteSection(c) ==
    /\ At(c, "read", {"unsection"})
    /\ section' = [section EXCEPT ![calls[c].ask.section] = Deleted(@)]
    /\ Goto(c, "saved")
    /\ UNCHANGED <<documents, item, revision, issue, talk, notes>>

-----------------------------------------------------------------------------
(* Requirements.                                                            *)
NewItem(code, owner, source) ==
    [state |-> "live", text |-> [text |-> "a", owner |-> owner], code |-> code, source |-> source, version |-> 1]
Renumber(c, free) ==        \* a taken number is generated anew, up to the limit
    IF free /\ calls[c].ask.op = "promote" /\ calls[c].tries < RetryLimit
    THEN calls' = [calls EXCEPT ![c].tries = @ + 1, ![c].number = MaxNumber(item) + 1,
                                ![c].seen = Reread(c)]      \* the rollback expires the row; its version is not compared again
    ELSE IF free /\ calls[c].ask.code = 0 /\ calls[c].tries < RetryLimit
    THEN calls' = [calls EXCEPT ![c].tries = @ + 1,
                                ![c].number = MaxNumber(IF calls[c].ask.op = "item" THEN item ELSE issue) + 1]
    ELSE Done(c)
CreateItem(c) ==            \* row, notification and history in one commit
    /\ At(c, "read", {"item"})
    /\ LET d == calls[c].ask
           free == item[d.item].state = "absent"
       IN IF free /\ ~CodeStored(item, calls[c].number)
          THEN /\ item' = [item EXCEPT ![d.item] = NewItem(calls[c].number, d.owner, None)]
               /\ told' = told \cup Emit(d.owner, <<d.item, 1>>)
               /\ log' = log \cup {d}
               /\ Done(c)
          ELSE Renumber(c, free) /\ UNCHANGED <<item, told, log>>
    /\ UNCHANGED <<documents, section, revision, issue, talk>>
Amended(text, set) == [f \in DOMAIN text |-> IF f \in DOMAIN set THEN set[f] ELSE text[f]]
Revision(r, old, new) == <<r, new.version, old.text, new.text>>
UpdateItem(c) ==            \* row, notification, revision and history in one commit
    /\ At(c, "checked", {"reitem"})
    /\ LET d == calls[c].ask
           old == calls[c].seen
           new == [old EXCEPT !.text = Amended(@, d.set), !.version = @ + 1]
       IN /\ item' = [item EXCEPT ![d.item] = Flushed(@, old, new)]
          /\ told' = told \cup Assigned(old.text.owner, new.text.owner, <<d.item, new.version>>)
          /\ revision' = revision \cup {Revision(d.item, old, new)}
          /\ log' = log \cup {d}
    /\ Done(c)
    /\ UNCHANGED <<documents, section, issue, talk>>
DeleteItem(c) ==            \* neither lock nor version
    /\ At(c, "read", {"unitem"})
    /\ Unlocked("reitem", "item", calls[c].ask.item)
    /\ item' = [item EXCEPT ![calls[c].ask.item] = Deleted(@)]
    /\ Goto(c, "saved")
    /\ UNCHANGED <<documents, section, revision, issue, talk, notes>>

(* Open issues.                                                             *)
NewIssue(code, assignee) ==
    [state |-> "live", assignee |-> assignee, status |-> "open", related |-> None, code |-> code, version |-> 1]
PromotedByName(i, r) ==       \* mutation: an issue takes a status of its own
    [i EXCEPT !.related = r, !.status = "promoted", !.version = @ + 1]
Promoted(i, r) == [i EXCEPT !.related = r, !.status = "resolved", !.version = @ + 1]
CreateIssue(c) ==
    /\ At(c, "read", {"issue"})
    /\ LET d == calls[c].ask
           free == issue[d.issue].state = "absent"
       IN IF free /\ ~CodeStored(issue, calls[c].number)
          THEN /\ issue' = [issue EXCEPT ![d.issue] = NewIssue(calls[c].number, d.assignee)]
               /\ told' = told \cup Emit(d.assignee, <<d.issue, 1>>)
               /\ log' = log \cup {d}
               /\ Done(c)
          ELSE Renumber(c, free) /\ UNCHANGED <<issue, told, log>>
    /\ UNCHANGED <<documents, texts, talk>>
UpdateIssue(c) ==
    /\ At(c, "checked", {"reissue"})
    /\ LET d == calls[c].ask
           old == calls[c].seen
           new == [old EXCEPT !.related = d.related, !.assignee = d.assignee, !.version = @ + 1]
       IN /\ issue' = [issue EXCEPT ![d.issue] = Flushed(@, old, new)]
          /\ told' = told \cup Assigned(old.assignee, new.assignee, <<d.issue, new.version>>)
          /\ log' = log \cup {d}
    /\ Done(c)
    /\ UNCHANGED <<documents, texts, talk>>
DeleteIssue(c) ==
    /\ At(c, "read", {"unissue"})
    /\ Unlocked("reissue", "issue", calls[c].ask.issue)
    /\ issue' = [issue EXCEPT ![calls[c].ask.issue] = Deleted(@)]
    /\ Goto(c, "saved")
    /\ UNCHANGED <<documents, texts, talk, notes>>
Promote(c) ==               \* the version was compared on an unlocked read
    /\ At(c, "read", {"promote"})
    /\ LET d == calls[c].ask
           seen == calls[c].seen
           free == item[d.item].state = "absent"
       IN /\ Unlocked("reissue", "issue", d.issue)
          /\ IF free /\ ~CodeStored(item, calls[c].number)
             THEN /\ item' = [item EXCEPT ![d.item] = NewItem(calls[c].number, seen.assignee, <<d.issue, calls[c].named>>)]
                  /\ issue' = [issue EXCEPT ![d.issue] = Flushed(@, seen, Promoted(seen, d.item))]
                  /\ told' = told \cup Emit(seen.assignee, <<d.item, 1>>)
                  /\ Goto(c, "saved")
             ELSE Renumber(c, free) /\ UNCHANGED <<item, issue, told>>
    /\ UNCHANGED <<documents, section, revision, talk, log>>

-----------------------------------------------------------------------------
(* Children of a requirement: no version, the last writer wins.             *)
CreateChild(c) ==
    /\ calls[c].ask.op = "child"
    /\ child' = [child EXCEPT ![calls[c].ask.child] = [state |-> "live", text |-> "a"]]
    /\ Goto(c, "saved")
    /\ UNCHANGED <<documents, texts, issue, comment, notes>>
UpdateChild(c) ==
    /\ calls[c].ask.op = "rechild"
    /\ IF child[calls[c].ask.child].state = "live"
       THEN child' = [child EXCEPT ![calls[c].ask.child].text = calls[c].ask.text] /\ Goto(c, "saved")
       ELSE UNCHANGED child /\ Done(c)
    /\ UNCHANGED <<documents, texts, issue, comment, notes>>
DeleteChild(c) ==
    /\ calls[c].ask.op = "unchild"
    /\ child' = [child EXCEPT ![calls[c].ask.child].state = "absent"]
    /\ Goto(c, "saved")
    /\ UNCHANGED <<documents, texts, issue, comment, notes>>
ChildOf(c, kind) ==         \* ask.child is there only for these operations
    /\ At(c, "read", {"child", "rechild", "unchild"})
    /\ calls[c].ask.child = kind
Details(c) == ChildOf(c, "detail") /\ (CreateChild(c) \/ UpdateChild(c) \/ DeleteChild(c))
Links(c) == ChildOf(c, "link") /\ (CreateChild(c) \/ UpdateChild(c) \/ DeleteChild(c))
Reviews(c) == ChildOf(c, "review") /\ (CreateChild(c) \/ UpdateChild(c) \/ DeleteChild(c))
Relations(c) == ChildOf(c, "relation") /\ (CreateChild(c) \/ DeleteChild(c))
Remarks(c) == ChildOf(c, "remark") /\ (CreateChild(c) \/ DeleteChild(c))

(* Comments.                                                                *)
NoComment == [state |-> "absent", resolved |-> FALSE, mentions |-> {}, version |-> 0]
NewComment(mentions) == [state |-> "live", resolved |-> FALSE, mentions |-> mentions, version |-> 1]
Marked(t, resolved) == [t EXCEPT !.resolved = resolved, !.version = @ + 1]
CreateComment(c) ==
    /\ At(c, "read", {"comment"})
    /\ LET d == calls[c].ask
           new == NewComment(d.mentions)
       IN IF comment[d.target].state = "absent"
          THEN /\ comment' = [comment EXCEPT ![d.target] = new]
               /\ told' = told \cup Mentioned(d.target, NoComment, new)
               /\ log' = log \cup {d}
          ELSE UNCHANGED <<comment, told, log>>
    /\ Done(c)
    /\ UNCHANGED <<documents, texts, issue, child>>
UpdateComment(c) ==
    /\ At(c, "checked", {"recomment"})
    /\ LET d == calls[c].ask
           old == calls[c].seen
           new == [old EXCEPT !.mentions = d.mentions, !.version = @ + 1]
       IN /\ comment' = [comment EXCEPT ![d.target] = Flushed(@, old, new)]
          /\ told' = told \cup Mentioned(d.target, old, new)
          /\ log' = log \cup {d}
    /\ Done(c)
    /\ UNCHANGED <<documents, texts, issue, child>>
SetResolved(c) ==           \* compared on an unlocked read
    /\ At(c, "read", {"resolve", "reopen"})
    /\ Unlocked("recomment", "target", calls[c].ask.target)
    /\ LET seen == calls[c].seen
       IN comment' = [comment EXCEPT ![calls[c].ask.target] =
                         Flushed(@, seen, Marked(seen, calls[c].ask.op = "resolve"))]
    /\ Goto(c, "saved")
    /\ UNCHANGED <<documents, texts, issue, child, notes>>
Removed(t, seen) == [Deleted(t) EXCEPT !.mentions = t.mentions \ seen.mentions]
DeleteComment(c) ==         \* removes the mentions it loaded
    /\ At(c, "read", {"uncomment"})
    /\ Unlocked("recomment", "target", calls[c].ask.target)
    /\ comment' = [comment EXCEPT ![calls[c].ask.target] = Removed(@, calls[c].seen)]
    /\ Goto(c, "saved")
    /\ UNCHANGED <<documents, texts, issue, child, notes>>

-----------------------------------------------------------------------------
Init ==
    /\ kinds \in Concerns
    /\ document = [x \in Documents |-> IF x = d1 THEN [state |-> "live", code |-> 1, sections |-> 0, key |-> None, version |-> 1]
                                       ELSE [state |-> "absent", code |-> 0, sections |-> 0, key |-> None, version |-> 0]]
    /\ receipt = [k \in Keys |-> None]
    /\ \E there \in BOOLEAN :
         section = [s \in Sections |-> IF there THEN NewSection
                                        ELSE [NewSection EXCEPT !.state = "absent", !.version = 0]]
    /\ item = [r \in Items |-> IF r = r1 THEN NewItem(1, NoOne, None)
                               ELSE [NewItem(0, NoOne, None) EXCEPT !.state = "absent", !.version = 0]]
    /\ \E u \in Users \cup {NoOne}, there \in BOOLEAN :
         issue = [i \in Issues |-> IF there THEN NewIssue(1, u)
                                    ELSE [NewIssue(0, NoOne) EXCEPT !.state = "absent", !.version = 0]]
    /\ revision = {}
    /\ \E s \in {"absent", "live"} : child = [k \in Children |-> [state |-> s, text |-> "a"]]
    /\ \E s \in {"absent", "live"}, m \in SUBSET Users :
         comment = [t \in Targets |-> IF s = "absent" THEN NoComment
                                      ELSE NewComment(m)]
    /\ log = {} /\ told = {}
    /\ calls = [c \in Calls |-> [at |-> "idle"]]

RequirementDocuments(c) == CreateDocument(c) \/ CreateStandard(c) \/ UpdateDocument(c) \/ DeleteDocument(c)
RequirementSections(c) == CreateSection(c) \/ UpdateSection(c) \/ SortSections(c) \/ DeleteSection(c)
RequirementItems(c) == CreateItem(c) \/ UpdateItem(c) \/ DeleteItem(c)
OpenIssues(c) == CreateIssue(c) \/ UpdateIssue(c) \/ DeleteIssue(c) \/ Promote(c)
RequirementChildren(c) == Details(c) \/ Links(c) \/ Reviews(c) \/ Relations(c) \/ Remarks(c)
TargetComments(c) == CreateComment(c) \/ UpdateComment(c) \/ SetResolved(c) \/ DeleteComment(c)
Next == \E c \in Calls : \/ Read(c) \/ Check(c) \/ Log(c) \/ Refuse(c)
                         \/ RequirementDocuments(c) \/ RequirementSections(c) \/ RequirementItems(c)
                         \/ OpenIssues(c) \/ RequirementChildren(c) \/ TargetComments(c)
Spec == Init /\ [][Next]_vars

-----------------------------------------------------------------------------
(* Every row has its type.                                                  *)
TypeOK ==
    /\ document \in [Documents -> RequirementDocument] /\ receipt \in [Keys -> Codes \cup {None}]
    /\ section \in [Sections -> RequirementSection] /\ item \in [Items -> Requirement]
    /\ issue \in [Issues -> OpenIssue] /\ child \in [Children -> Child]
    /\ comment \in [Targets -> TargetComment]

(* The revisions of a requirement lead from its first text to its present   *)
(* one without a gap or a fork, whoever saved it at the same time.          *)
RevisionsChain == \A r \in Items :
    LET of == {e \in revision : e[1] = r}
    IN /\ \A e \in of : e[2] > 2 => \E f \in of : f[2] = e[2] - 1 /\ f[4] = e[3]
       /\ \A e, f \in of : e[2] = f[2] => e = f
       /\ \A e \in of : e[2] = item[r].version => e[4] = item[r].text
       /\ item[r].version > 1 => \E e \in of : e[2] = item[r].version

(* A request for a standard document makes one document however often it is *)
(* sent, and its receipt names what was asked for.                          *)
StandardDocumentIsMadeOnce == \A k \in Keys :
    LET made == {x \in Documents : document[x].key = k}
    IN Cardinality(made) <= 1 /\ (receipt[k] # None <=> made # {})
=============================================================================
