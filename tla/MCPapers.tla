--------------------------------- MODULE MCPapers ---------------------------------
(* Small instances of the requirement documents, of the documents and       *)
(* specifications of a project, and of the workspaces lent to visitors.     *)
(* They share no state here: a behaviour is a behaviour of one of them, and *)
(* the others rest in one of their initial states.                          *)
EXTENDS Naturals, FiniteSets, TLC

CONSTANTS Calls, None, Things,
          d1, r1, Documents, Sections, Items, Issues, Users, NoOne, Keys, RetryLimit,
          Clients, Files, Notices, Demo, Retention, MaxTime, FileLimit, LinkLimit, RemarkLimit,
          Lent, Visitors, MAX_UNFINISHED, MAX_STARTS, MAX_UPLOADS, MAX_DUE

VARIABLES
    part,
    rKinds, rDocument, rReceipt, rSection, rItem, rIssue, rRevision, rChild,
    rComment, rLog, rTold, rCalls,
    pKinds, pNow, pRow, pBody, pRevision, pKey, pStore, pLink, pStatus,
    pRemark, pDraft, pCalls,
    wDemo, wData, wStored, wSwept, wStarts, wWork
rVars == <<rKinds, rDocument, rReceipt, rSection, rItem, rIssue, rRevision, rChild,
    rComment, rLog, rTold, rCalls>>
pVars == <<pKinds, pNow, pRow, pBody, pRevision, pKey, pStore, pLink, pStatus,
    pRemark, pDraft, pCalls>>
wVars == <<wDemo, wData, wStored, wSwept, wStarts, wWork>>

-----------------------------------------------------------------------------
(* One requirement document with a requirement, and one kind of work.       *)
DocumentWork == {"document", "standard", "redocument", "undocument"}
SectionWork == {"section", "unsection", "resection", "sort", "undocument"}
ItemWork == {"item", "reitem", "unitem", "child", "rechild", "unchild"}
IssueWork == {"issue", "reissue", "unissue", "promote", "item"}
CommentWork == {"comment", "recomment", "uncomment", "resolve", "reopen", "unitem"}
RequirementConcerns == {DocumentWork, SectionWork, ItemWork, IssueWork, CommentWork}
R == INSTANCE Requirements WITH
    Concerns <- RequirementConcerns, kinds <- rKinds, document <- rDocument,
    receipt <- rReceipt, section <- rSection, item <- rItem, issue <- rIssue,
    revision <- rRevision, child <- rChild, comment <- rComment, log <- rLog,
    told <- rTold, calls <- rCalls
\* Null is no key and no code.
ASSUME RequirementsAssumption == None \notin Keys \cup R!Codes
RequirementsRest ==
    /\ R!Init /\ rKinds = DocumentWork
    /\ \A x \in Sections : rSection[x].state = "absent"
    /\ \A x \in Issues : rIssue[x].state = "absent"
    /\ \A x \in DOMAIN rChild : rChild[x].state = "absent"
    /\ \A x \in DOMAIN rComment : rComment[x].state = "absent"

(* One document with two attachments and one specification.                 *)
PaperWork == {"edit", "delete", "link", "unlink", "restore", "purge"}
FileWork == {"delete", "upload", "detach", "restore", "purge"}
SpecWork == {"respecify", "judge", "remark", "resolve", "reopen", "link"}
SpecTrash == {"discard", "restore", "purge", "judge"}
FormWork == {"draft", "undraft", "expire"}
DocumentConcerns == {PaperWork, FileWork, SpecWork, SpecTrash, FormWork}
P == INSTANCE Documents WITH
    Calls <- Clients, Targets <- Things, Remarks <- Notices,
    Concerns <- DocumentConcerns, kinds <- pKinds,
    now <- pNow, row <- pRow, body <- pBody, revision <- pRevision,
    key <- pKey, store <- pStore, link <- pLink, status <- pStatus,
    remark <- pRemark, draft <- pDraft, calls <- pCalls
\* Null is no request and no key, the two papers are no attachments, times are numbers.
ASSUME DocumentsAssumption ==
    /\ None \notin Clients /\ None \notin Files \X (Clients \cup {None}) /\ P!Kinds \cap Files = {}
    /\ Retention \in Nat /\ MaxTime \in Nat
DocumentsRest == P!Init /\ pKinds = FormWork /\ \A x \in DOMAIN pRow : pRow[x].state = "absent"

(* Two workspaces that may be lent to one visitor, and room for one.        *)
W == INSTANCE DemoWorkspaces WITH
    Workers <- Calls, Demos <- Lent, demo <- wDemo, data <- wData, stored <- wStored,
    swept <- wSwept, starts <- wStarts, work <- wWork
\* Null is no workspace and no visitor, limits are numbers.
ASSUME WorkspacesAssumption ==
    /\ None \notin Lent \cup Visitors
    /\ MAX_UNFINISHED \in Nat /\ MAX_STARTS \in Nat /\ MAX_UPLOADS \in Nat /\ MAX_DUE \in Nat

-----------------------------------------------------------------------------
Init ==
    /\ W!Init
    /\ \/ part = "requirements" /\ R!Init           /\ DocumentsRest
       \/ part = "documents"    /\ RequirementsRest /\ P!Init
       \/ part = "workspaces"   /\ RequirementsRest /\ DocumentsRest
Next ==
    /\ UNCHANGED part
    /\ \/ part = "requirements" /\ R!Next /\ UNCHANGED <<pVars, wVars>>
       \/ part = "documents"    /\ P!Next /\ UNCHANGED <<rVars, wVars>>
       \/ part = "workspaces"   /\ W!Next /\ UNCHANGED <<rVars, pVars>>
Spec == Init /\ [][Next]_<<part, rVars, pVars, wVars>>

(* Every variable of the three components has its type.                     *)
TypeOK == R!TypeOK /\ P!TypeOK /\ W!TypeOK

(* The revisions of a requirement lead without a gap or a fork to its text, *)
(* and a request for a standard document makes one, however often it comes. *)
RequirementsAreTold == R!RevisionsChain /\ R!StandardDocumentIsMadeOnce

(* Whoever can still reach an attachment finds its file, and a live         *)
(* document has the revision of its version: also after a purge that        *)
(* stopped half way, an upload that lost, a deletion and a restore.  What   *)
(* a visitor made is gone once the workspace was cleaned up: no late write  *)
(* brings it back, and the room it takes up is bounded until then.          *)
NothingIsLostOrLeft ==
    /\ P!ReachableFileIsThere /\ P!DocumentHasItsRevision
    /\ W!NothingIsLeft /\ W!WritesComeInTime /\ W!PoolIsBounded

(* A specification is approved only when no remark on it is open, and an    *)
(* attachment restored only under a live document, at the very step.        *)
DecidedOnWhatStands == P!ApprovalSawEveryRemark /\ P!RestoredUnderLiveParent

Symmetry == Permutations(Calls) \cup Permutations(Clients)
=============================================================================
