----------------------------- MODULE Papers_proofs -----------------------------
(***************************************************************************)
(* Proofs about the papers of a project, for any number of requests, files,*)
(* remarks, requirements, keys and workspaces lent: every behaviour of     *)
(* MCPapers is one of Documents, Requirements or DemoWorkspaces, so that   *)
(* the inductive invariant is the conjunction of theirs.                   *)
(***************************************************************************)
EXTENDS MCPapers, FiniteSetTheorems, TLAPS

-----------------------------------------------------------------------------
(* Documents.  What a request compared under the lock of its row stands     *)
(* until it commits, because nobody else works on the same side of the      *)
(* trash meanwhile; an object is named by the attachment it was stored for, *)
(* or by the upload still under way, so that what a purge or a lost upload  *)
(* takes away is nobody else's.                                             *)

\* What a request may ask for.
PAskFits(d) ==
    /\ d.op \in {"edit", "delete", "link", "unlink", "upload", "detach", "respecify", "discard", "judge",
                 "remark", "resolve", "reopen", "restore", "purge", "draft", "undraft", "expire"}
    /\ d.op \in {"edit", "delete"} => d.on = "document"
    /\ d.op \in {"edit", "respecify", "draft"} => d.text \in P!Texts
    /\ d.op \in {"link", "unlink"} => d.on \in P!Kinds /\ d.target \in Things
    /\ d.op \in {"upload", "detach"} => d.on \in Files
    /\ d.op \in {"respecify", "discard", "judge", "remark", "resolve", "reopen"} => d.on = "specification"
    /\ d.op = "judge" => d.status \in P!Statuses
    /\ d.op \in {"remark", "resolve", "reopen"} => d.remark \in Notices
    /\ d.op \in {"restore", "purge"} => d.on \in P!Kinds \cup Files
    /\ d.op \in {"draft", "undraft", "expire"} => d.on = None

\* What a call carries: the draft it read, the time it listed what was due.
PUnder(c) == pCalls[c].at \in {"read", "held", "put"}
PCallFits(c) ==
    /\ pCalls[c].at \in {"idle", "read", "held", "put", "done"}
    /\ PUnder(c) =>
          /\ pCalls[c] = [at |-> pCalls[c].at, ask |-> P!Ask(c), seen |-> pCalls[c].seen, from |-> pCalls[c].from]
          /\ PAskFits(P!Ask(c)) /\ pCalls[c].from \in 0..pNow
    /\ pCalls[c].at = "read" /\ P!Ask(c).op = "draft" => pCalls[c].seen \in P!Draft
    /\ pCalls[c].at = "read" /\ P!Ask(c).op = "purge" => Retention # 0
    /\ pCalls[c].at = "held" => P!Ask(c).on \in P!Kinds \cup Files
    /\ pCalls[c].at = "put" => P!Ask(c).op = "upload"
PCallsFit == pCalls = [c \in Clients |-> pCalls[c]] /\ \A c \in Clients : PCallFits(c)
DTyped == P!TypeOK /\ pNow \in 0..MaxTime /\ PCallsFit

\* No row is locked twice.
PApart == \A c, x \in Clients : c # x => P!Held(c) \cap P!Held(x) = {}

\* What was compared under the lock stands until the commit.
FilesKept(x) ==
    /\ x \in Files => pKey[x] \in pStore
    /\ x = "document" => \A f \in Files : P!Reachable(f) => pKey[f] \in pStore
Ground(c) ==
    LET d == P!Ask(c)
    IN /\ d.op \in P!Versioned \cup {"detach"} => P!Live(d.on)
       /\ d.op = "judge" /\ d.status = "approved" => \A k \in Notices : pRemark[k].state # "open"
       /\ d.op = "restore" => /\ pRow[d.on].state = "deleted" /\ FilesKept(d.on)
                              /\ \A p \in P!Parent(d.on) : P!Live(p)
       /\ d.op = "purge" => pRow[d.on].state = "deleted" /\ ~P!Reachable(d.on)
Grounded == \A c \in Clients : pCalls[c].at = "held" => Ground(c)

\* An attachment that was not purged names an object of its own, which was its file's or that of an
\* upload that has ended; one still under way has stored its object.
KeyFits(f) ==
    \/ pRow[f].state \in {"live", "deleted"} /\ \E x \in Clients \cup {None} :
          pKey[f] = <<f, x>> /\ (x \in Clients => pCalls[x].at = "done")
    \/ pRow[f].state \in {"absent", "purged"} /\ pKey[f] = None
KeysFit ==
    /\ pKey = [f \in Files |-> pKey[f]] /\ \A f \in Files : KeyFits(f)
    /\ \A c \in Clients : pCalls[c].at = "put" => P!KeyOf(c) \in pStore

\* No revision is ahead of its document, and without a document there are no attachments.
VersionsFit ==
    /\ pRow["document"].state = "absent" => \A f \in Files : pRow[f].state = "absent"
    /\ \A k \in P!Kinds : pRow[k].state = "absent" => pRow[k].version = 0
    /\ \A e \in pRevision : e[2] \in 1..pRow[e[1]].version

DInv == DTyped /\ PApart /\ Grounded /\ KeysFit /\ VersionsFit /\ P!ReachableFileIsThere /\ P!DocumentHasItsRevision

(* What a call holds, and what it leaves to the others.                     *)

\* The side of the trash a request works on: the document with its attachments, or the specification.
Side(d) == IF d.on = "specification" THEN "specification" ELSE "document"

LEMMA CallShape ==
    ASSUME PCallsFit, NEW c \in Clients
    PROVE  PCallFits(c)
BY DEF PCallsFit

LEMMA RowShape ==
    ASSUME P!TypeOK, NEW x \in P!Kinds \cup Files
    PROVE  /\ pRow[x] \in P!Row /\ pRow[x].state \in {"absent", "live", "deleted", "purged"}
           /\ pRow[x].at \in 0..MaxTime /\ pRow[x].version \in Nat
BY DEF P!TypeOK, P!Row

LEMMA SideIsLocked ==
    ASSUME NEW d, PAskFits(d), d.on \in P!Kinds \cup Files
    PROVE  Side(d) \in P!Locks(d) /\ Side(d) \in P!Kinds
<1>1. CASE d.op \in {"upload", "detach"}
  <2>1. d.on \in Files
    BY <1>1 DEF PAskFits
  <2>. QED  BY <1>1, <2>1, DocumentsAssumption DEF Side, P!Locks, P!Kinds
<1>2. CASE d.op \notin {"upload", "detach"}
  <2>1. CASE d.on \in Files
    BY <1>2, <2>1, DocumentsAssumption DEF Side, P!Locks, P!Kinds, P!Parent
  <2>2. CASE d.on \in P!Kinds
    BY <1>2, <2>2 DEF Side, P!Locks, P!Kinds
  <2>. QED  BY <2>1, <2>2
<1>. QED  BY <1>1, <1>2

\* Two requests are never under way on one side.
LEMMA OneEachSide ==
    ASSUME PCallsFit, PApart, NEW c \in Clients, NEW x \in Clients, c # x,
           pCalls[c].at = "held", pCalls[x].at = "held"
    PROVE  Side(P!Ask(c)) # Side(P!Ask(x))
<1>1. PAskFits(P!Ask(c)) /\ P!Ask(c).on \in P!Kinds \cup Files /\ PAskFits(P!Ask(x)) /\ P!Ask(x).on \in P!Kinds \cup Files
  BY CallShape DEF PCallFits, PUnder
<1>2. Side(P!Ask(c)) \in P!Held(c) /\ Side(P!Ask(x)) \in P!Held(x)
  BY <1>1, SideIsLocked DEF P!Held
<1>. QED  BY <1>2 DEF PApart

\* A request that could lock its rows has nobody on its side.
LEMMA SideIsFree ==
    ASSUME PCallsFit, NEW c \in Clients, NEW x \in Clients, c # x, P!CanLock(c), pCalls[x].at = "held",
           PAskFits(P!Ask(c)), P!Ask(c).on \in P!Kinds \cup Files
    PROVE  Side(P!Ask(c)) # Side(P!Ask(x))
<1>1. PAskFits(P!Ask(x)) /\ P!Ask(x).on \in P!Kinds \cup Files
  BY CallShape DEF PCallFits, PUnder
<1>2. Side(P!Ask(c)) \in P!Locks(P!Ask(c)) /\ Side(P!Ask(x)) \in P!Held(x)
  BY <1>1, SideIsLocked DEF P!Held
<1>. QED  BY <1>2 DEF P!CanLock

\* What a step leaves to whoever works on a side.
SpecificationStays == pRow'["specification"] = pRow["specification"] /\ pRemark' = pRemark
DocumentStays ==
    /\ \A y \in {"document"} \cup Files : pRow'[y] = pRow[y]
    /\ pKey' = pKey /\ \A f \in Files : pKey[f] \in pStore => pKey[f] \in pStore'

LEMMA GroundStays ==
    ASSUME PCallsFit, NEW x \in Clients, pCalls[x].at = "held", Ground(x), pCalls'[x] = pCalls[x], pNow' = pNow,
           Side(P!Ask(x)) = "specification" => SpecificationStays,
           Side(P!Ask(x)) = "document" => DocumentStays
    PROVE  Ground(x)'
<1>1. PICK d : d = P!Ask(x)
  OBVIOUS
<1>0. P!Ask(x) = d /\ P!Ask(x)' = d /\ PAskFits(d) /\ d.on \in P!Kinds \cup Files
  BY <1>1, CallShape DEF PCallFits, PUnder, P!Ask
<1>2. CASE d.on = "specification"
  <2>1. SpecificationStays /\ P!Parent(d.on) = {} /\ d.on \notin Files /\ d.on # "document"
    BY <1>0, <1>2, DocumentsAssumption DEF Side, P!Parent, P!Kinds
  <2>2. d.op # "detach"
    BY <1>0, <2>1 DEF PAskFits
  <2>3. P!Live(d.on)' <=> P!Live(d.on)
    BY <1>2, <2>1 DEF P!Live, SpecificationStays
  <2>4. P!Reachable(d.on)' <=> P!Reachable(d.on)
    BY <1>2, <2>1 DEF P!Live, SpecificationStays, P!Reachable, P!Expired
  <2>5. pRow'[d.on] = pRow[d.on] /\ pRemark' = pRemark
    BY <1>2, <2>1 DEF SpecificationStays
  <2>6. FilesKept(d.on)'
    BY <2>1 DEF FilesKept
  <2>. QED  BY <1>0, <2>1, <2>2, <2>3, <2>4, <2>5, <2>6 DEF Ground
<1>3. CASE d.on # "specification"
  <2>1. DocumentStays /\ d.on \in {"document"} \cup Files /\ P!Parent(d.on) \subseteq {"document"}
    BY <1>0, <1>3 DEF Side, P!Kinds, P!Parent
  <2>2. d.op # "judge"
    BY <1>0, <1>3 DEF PAskFits
  <2>3. \A y \in {"document"} \cup Files : pRow'[y] = pRow[y] /\ (P!Live(y)' <=> P!Live(y)) /\ (P!Reachable(y)' <=> P!Reachable(y))
    BY <2>1 DEF DocumentStays, P!Live, P!Reachable, P!Expired
  <2>4. FilesKept(d.on) => FilesKept(d.on)'
    BY <2>1, <2>3 DEF FilesKept, DocumentStays
  <2>. QED  BY <1>0, <2>1, <2>2, <2>3, <2>4 DEF Ground
<1>. QED  BY <1>2, <1>3

-----------------------------------------------------------------------------
(* The frame of a commit: a call is done, and no other call loses its ground.*)
Ends(c) == pCalls' = [pCalls EXCEPT ![c] = [at |-> "done"]] /\ pNow' = pNow
PMoves(c) == pCalls' = [pCalls EXCEPT ![c] = pCalls'[c]] /\ pNow' = pNow

LEMMA Others ==
    ASSUME PCallsFit, NEW c \in Clients, PMoves(c)
    PROVE  \A x \in Clients \ {c} : pCalls'[x] = pCalls[x] /\ P!Ask(x)' = P!Ask(x) /\ P!Held(x)' = P!Held(x) /\ PCallFits(x)'
<1>. SUFFICES ASSUME NEW x \in Clients \ {c}
              PROVE  pCalls'[x] = pCalls[x] /\ P!Ask(x)' = P!Ask(x) /\ P!Held(x)' = P!Held(x) /\ PCallFits(x)'
  OBVIOUS
<1>1. pCalls'[x] = pCalls[x]
  BY DEF PCallsFit, PMoves
<1>2. P!Ask(x)' = P!Ask(x) /\ P!Held(x)' = P!Held(x)
  BY <1>1 DEF P!Ask, P!Held
<1>3. PCallFits(x)'
  BY <1>1, <1>2, CallShape DEF PCallFits, PUnder, PMoves
<1>. QED  BY <1>1, <1>2, <1>3

LEMMA CallsStay ==
    ASSUME PCallsFit, NEW c \in Clients, PMoves(c), PCallFits(c)'
    PROVE  PCallsFit'
<1>1. pCalls' = [x \in Clients |-> pCalls'[x]]
  BY DEF PCallsFit, PMoves
<1>2. \A x \in Clients : PCallFits(x)'
  BY Others
<1>. QED  BY <1>1, <1>2 DEF PCallsFit

LEMMA EndsIsMove ==
    ASSUME PCallsFit, NEW c \in Clients, Ends(c)
    PROVE  PMoves(c) /\ pCalls'[c] = [at |-> "done"] /\ P!Held(c)' = {} /\ PCallFits(c)'
<1>1. pCalls'[c] = [at |-> "done"]
  BY DEF PCallsFit, Ends
<1>2. PMoves(c)
  BY <1>1 DEF PCallsFit, Ends, PMoves
<1>3. P!Held(c)' = {}
  BY <1>1 DEF P!Held
<1>4. PCallFits(c)'
  BY <1>1 DEF PCallFits, PUnder
<1>. QED  BY <1>1, <1>2, <1>3, <1>4

LEMMA ApartStays ==
    ASSUME PCallsFit, PApart, NEW c \in Clients, PMoves(c), P!Held(c)' \subseteq P!Held(c)
    PROVE  PApart'
<1>. SUFFICES ASSUME NEW y \in Clients, NEW x \in Clients, y # x PROVE P!Held(y)' \cap P!Held(x)' = {}
  BY DEF PApart
<1>1. P!Held(y)' \subseteq P!Held(y) /\ P!Held(x)' \subseteq P!Held(x)
  BY Others
<1>2. P!Held(y) \cap P!Held(x) = {}
  BY DEF PApart
<1>. QED  BY <1>1, <1>2

\* Whoever holds the rows of a side leaves the other side alone.
LeavesOthers(c) ==
    \A x \in Clients \ {c} : pCalls[x].at = "held" =>
        /\ Side(P!Ask(x)) = "specification" => SpecificationStays
        /\ Side(P!Ask(x)) = "document" => DocumentStays

LEMMA GroundsStay ==
    ASSUME PCallsFit, Grounded, NEW c \in Clients, PMoves(c), LeavesOthers(c), pCalls'[c].at = "held" => Ground(c)'
    PROVE  Grounded'
<1>. SUFFICES ASSUME NEW x \in Clients, pCalls'[x].at = "held" PROVE Ground(x)'
  BY DEF Grounded
<1>1. CASE x = c
  BY <1>1
<1>2. CASE x # c
  <2>1. pCalls'[x] = pCalls[x] /\ pCalls[x].at = "held" /\ Ground(x)
    BY <1>2, Others DEF Grounded
  <2>. QED  BY <1>2, <2>1, GroundStays DEF LeavesOthers, PMoves
<1>. QED  BY <1>1, <1>2

\* A call under way that ends.
LEMMA Finished ==
    ASSUME PCallsFit, PApart, Grounded, NEW c \in Clients, Ends(c), LeavesOthers(c)
    PROVE  PCallsFit' /\ PApart' /\ Grounded'
<1>1. PMoves(c) /\ pCalls'[c].at # "held" /\ P!Held(c)' \subseteq P!Held(c) /\ PCallFits(c)'
  BY EndsIsMove
<1>. QED  BY <1>1, CallsStay, ApartStays, GroundsStay

\* Nobody else works on the side of one that holds its rows.
LEMMA Alone ==
    ASSUME PCallsFit, PApart, NEW c \in Clients, pCalls[c].at = "held",
           Side(P!Ask(c)) = "specification" => DocumentStays,
           Side(P!Ask(c)) = "document" => SpecificationStays
    PROVE  LeavesOthers(c)
<1>. SUFFICES ASSUME NEW x \in Clients \ {c}, pCalls[x].at = "held"
              PROVE  /\ Side(P!Ask(x)) = "specification" => SpecificationStays
                     /\ Side(P!Ask(x)) = "document" => DocumentStays
  BY DEF LeavesOthers
<1>1. Side(P!Ask(c)) # Side(P!Ask(x)) /\ Side(P!Ask(c)) \in {"specification", "document"}
  BY OneEachSide DEF Side
<1>. QED  BY <1>1

-----------------------------------------------------------------------------
(* Keys and revisions.                                                      *)
LEMMA KeyStays ==
    ASSUME PCallsFit, KeysFit, NEW c \in Clients, PMoves(c), pCalls[c].at # "done", NEW f \in Files,
           pRow'[f].state = pRow[f].state, pKey'[f] = pKey[f]
    PROVE  KeyFits(f)'
<1>1. KeyFits(f) /\ \A x \in Clients : pCalls[x].at = "done" => pCalls'[x].at = "done"
  BY Others DEF KeysFit
<1>. QED  BY <1>1 DEF KeyFits

LEMMA KeysStay ==
    ASSUME PCallsFit, KeysFit, NEW c \in Clients, PMoves(c), pCalls[c].at # "done",
           \A f \in Files : pRow'[f].state = pRow[f].state, pKey' = pKey,
           pStore \subseteq pStore', pCalls'[c].at = "put" => P!KeyOf(c)' \in pStore'
    PROVE  KeysFit'
<1>1. \A f \in Files : KeyFits(f)'
  BY KeyStays
<1>2. \A x \in Clients : pCalls'[x].at = "put" => P!KeyOf(x)' \in pStore'
  BY Others DEF KeysFit, P!KeyOf
<1>3. pKey' = [f \in Files |-> pKey'[f]]
  BY DEF KeysFit
<1>. QED  BY <1>1, <1>2, <1>3 DEF KeysFit

\* Nothing was written.
LEMMA RowsStay ==
    ASSUME VersionsFit, P!ReachableFileIsThere, P!DocumentHasItsRevision,
           UNCHANGED <<pRow, pBody, pRevision, pKey>>, pNow' = pNow, pStore \subseteq pStore'
    PROVE  VersionsFit' /\ P!ReachableFileIsThere' /\ P!DocumentHasItsRevision'
<1>1. VersionsFit' /\ P!DocumentHasItsRevision'
  BY DEF VersionsFit, P!DocumentHasItsRevision, P!Live
<1>2. P!ReachableFileIsThere'
  BY DEF P!ReachableFileIsThere, P!Reachable, P!Live, P!Expired
<1>. QED  BY <1>1, <1>2

LEMMA RowsStand ==
    ASSUME pRow' = pRow, pRemark' = pRemark, pKey' = pKey, pStore \subseteq pStore'
    PROVE  SpecificationStays /\ DocumentStays
BY DEF SpecificationStays, DocumentStays

-----------------------------------------------------------------------------
(* The beginning.                                                           *)
LEMMA PAsksFit ==
    ASSUME NEW d \in P!Requests
    PROVE  PAskFits(d)
<1>1. CASE d \in P!DocumentRequests
  BY <1>1 DEF P!DocumentRequests, PAskFits
<1>2. CASE d \in P!LinkRequests
  BY <1>2 DEF P!LinkRequests, PAskFits
<1>3. CASE d \in P!FileRequests
  BY <1>3 DEF P!FileRequests, PAskFits
<1>4. CASE d \in P!SpecificationRequests
  BY <1>4 DEF P!SpecificationRequests, PAskFits
<1>5. CASE d \in P!RemarkRequests
  BY <1>5 DEF P!RemarkRequests, PAskFits
<1>6. CASE d \in P!TrashRequests
  BY <1>6 DEF P!TrashRequests, PAskFits
<1>7. CASE d \in P!DraftRequests
  BY <1>7 DEF P!DraftRequests, PAskFits
<1>. QED  BY <1>1, <1>2, <1>3, <1>4, <1>5, <1>6, <1>7 DEF P!Requests

LEMMA BegunIs ==
    /\ P!Begun("absent") = [state |-> "absent", at |-> 0, version |-> 0]
    /\ P!Begun("live") = [state |-> "live", at |-> 0, version |-> 1]
    /\ P!Begun("deleted") = [state |-> "deleted", at |-> 0, version |-> 2]
BY Zenon DEF P!Begun

LEMMA DStarts ==
    ASSUME P!Init
    PROVE  DInv
<1>1. PICK d \in {"absent", "live", "deleted"}, f \in {"absent", "live", "deleted"} :
         /\ d = "absent" => f = "absent"
         /\ pRow = [x \in P!Kinds \cup Files |->
                     IF x \notin Files THEN P!Begun(d)
                     ELSE [state |-> f, at |-> 0, version |-> 0]]
         /\ pRevision = IF d = "absent" THEN {} ELSE {<<"document", 1, "a">>, <<"specification", 1, <<"a", "draft">>>>}
         /\ pKey = [x \in Files |-> IF f = "absent" THEN None ELSE <<x, None>>]
         /\ pStore = IF f = "absent" THEN {} ELSE {<<x, None>> : x \in Files}
  BY DEF P!Init
<1>2. PICK v \in 0..2 : /\ d = "absent" => v = 0
                        /\ d = "live" => v = 1
                        /\ d = "deleted" => v = 2
                        /\ P!Begun(d) = [state |-> d, at |-> 0, version |-> v]
  BY BegunIs
<1>3. \A k \in P!Kinds : pRow[k] = [state |-> d, at |-> 0, version |-> v]
  BY <1>1, <1>2, DocumentsAssumption
<1>4. \A x \in Files : pRow[x] = [state |-> f, at |-> 0, version |-> 0]
  BY <1>1
<1>5. pNow = 0 /\ pBody = [k \in P!Kinds |-> "a"] /\ pCalls = [c \in Clients |-> [at |-> "idle"]]
  BY DEF P!Init
<1>6. \A x \in P!Kinds \cup Files : pRow[x] \in P!Row
  BY <1>3, <1>4, DocumentsAssumption DEF P!Row
<1>7. pRow \in [P!Kinds \cup Files -> P!Row]
  BY <1>1, <1>6
<1>8. pRevision \subseteq P!Revision
  BY <1>1 DEF P!Revision, P!Texts, P!Statuses
<1>9. pLink \in P!Links /\ pStatus \in P!Statuses /\ pRemark \in [Notices -> P!Remark] /\ pDraft \in P!Draft
  BY DEF P!Init, P!Links, P!Statuses, P!Remark, P!Draft, P!NoDraft, P!Texts
<1>10. DTyped
  BY <1>5, <1>7, <1>8, <1>9, DocumentsAssumption DEF DTyped, P!TypeOK, P!Texts, PCallsFit, PCallFits, PUnder
<1>11. PApart /\ Grounded
  BY <1>5 DEF PApart, Grounded, P!Held
<1>12. \A x \in Files : KeyFits(x)
  <2>. SUFFICES ASSUME NEW x \in Files PROVE KeyFits(x)
    OBVIOUS
  <2>1. CASE f = "absent"
    BY <1>1, <1>4, <2>1 DEF KeyFits
  <2>2. CASE f # "absent"
    BY <1>1, <1>4, <2>2, DocumentsAssumption DEF KeyFits
  <2>. QED  BY <2>1, <2>2
<1>13. KeysFit
  BY <1>1, <1>5, <1>12 DEF KeysFit
<1>14. VersionsFit
  <2>1. CASE d = "absent"
    BY <1>1, <1>2, <1>3, <1>4, <2>1 DEF VersionsFit
  <2>2. CASE d # "absent"
    BY <1>1, <1>2, <1>3, <2>2 DEF VersionsFit, P!Kinds
  <2>. QED  BY <2>1, <2>2
<1>15. P!ReachableFileIsThere
  BY <1>1, <1>4 DEF P!ReachableFileIsThere, P!Reachable, P!Live
<1>16. P!DocumentHasItsRevision
  <2>1. CASE d = "absent"
    BY <1>1, <1>3, <2>1 DEF P!DocumentHasItsRevision, P!Live, P!Kinds
  <2>2. CASE d # "absent"
    BY <1>1, <1>2, <1>3, <1>5, <2>2 DEF P!DocumentHasItsRevision, P!Live, P!Kinds
  <2>. QED  BY <2>1, <2>2
<1>. QED  BY <1>10, <1>11, <1>13, <1>14, <1>15, <1>16 DEF DInv

-----------------------------------------------------------------------------
(* Steps that write nothing.                                                *)
LEMMA DReads ==
    ASSUME DInv, NEW c \in Clients, P!Read(c)
    PROVE  DInv'
<1>1. PICK d \in P!Requests :
        /\ d.op = "purge" => Retention # 0
        /\ pCalls' = [pCalls EXCEPT ![c] = [at |-> "read", ask |-> d, seen |-> P!Seen(d), from |-> pNow]]
  BY DEF P!Read
<1>2. pCalls[c].at = "idle" /\ UNCHANGED <<pNow, pRow, pBody, pRevision, pKey, pStore, pLink, pStatus, pRemark, pDraft>>
  BY DEF P!Read, P!rows, P!files, P!review
<1>3. pCalls'[c] = [at |-> "read", ask |-> d, seen |-> P!Seen(d), from |-> pNow] /\ PMoves(c)
  BY <1>1, <1>2 DEF DInv, DTyped, PCallsFit, PMoves
<1>4. d.op = "draft" => P!Seen(d) = pDraft
  BY Zenon DEF P!Seen
<1>5. PCallFits(c)' /\ P!Held(c)' = {}
  BY <1>1, <1>2, <1>3, <1>4, PAsksFit, DocumentsAssumption DEF PCallFits, PUnder, P!Ask, P!Held, DInv, DTyped, P!TypeOK
<1>6. PCallsFit' /\ PApart'
  BY <1>3, <1>5, CallsStay, ApartStays DEF DInv, DTyped
<1>7. Grounded'
  <2>1. LeavesOthers(c) /\ pCalls'[c].at # "held"
    BY <1>2, <1>3, RowsStand DEF LeavesOthers
  <2>. QED  BY <1>3, <2>1, GroundsStay DEF DInv, DTyped
<1>8. KeysFit'
  BY <1>2, <1>3, KeysStay DEF DInv, DTyped
<1>9. VersionsFit' /\ P!ReachableFileIsThere' /\ P!DocumentHasItsRevision'
  BY <1>2, RowsStay DEF DInv
<1>10. P!TypeOK'
  BY <1>2 DEF DInv, DTyped, P!TypeOK
<1>. QED  BY <1>2, <1>6, <1>7, <1>8, <1>9, <1>10 DEF DInv, DTyped

\* Nothing is written, and the call holds no rows any more.
LEMMA DRefuses ==
    ASSUME DInv, NEW c \in Clients, P!Refuse(c)
    PROVE  DInv'
<1>2. pCalls[c].at # "done" /\ UNCHANGED <<pNow, pRow, pBody, pRevision, pKey, pStore, pLink, pStatus, pRemark, pDraft>>
  BY DEF P!Refuse, P!rows, P!files, P!review
<1>3. Ends(c)
  BY <1>2 DEF P!Refuse, P!Done, Ends
<1>6. PCallsFit' /\ PApart' /\ Grounded'
  <2>1. LeavesOthers(c)
    BY <1>2, RowsStand DEF LeavesOthers
  <2>. QED  BY <1>3, <2>1, Finished DEF DInv, DTyped
<1>8. KeysFit'
  BY <1>2, <1>3, EndsIsMove, KeysStay DEF DInv, DTyped
<1>9. VersionsFit' /\ P!ReachableFileIsThere' /\ P!DocumentHasItsRevision'
  BY <1>2, RowsStay DEF DInv
<1>10. P!TypeOK'
  BY <1>2 DEF DInv, DTyped, P!TypeOK
<1>. QED  BY <1>2, <1>6, <1>8, <1>9, <1>10 DEF DInv, DTyped

\* What was compared is the ground a request stands on.
LEMMA DTakes ==
    ASSUME DInv, NEW c \in Clients, P!Take(c)
    PROVE  DInv'
<1>1. pCalls[c].at = "read" /\ P!Ask(c).on # None /\ P!CanLock(c) /\ P!Agrees(c)
  BY DEF P!Take
<1>2. UNCHANGED <<pNow, pRow, pBody, pRevision, pKey, pStore, pLink, pStatus, pRemark, pDraft>>
  BY DEF P!Take, P!rows, P!files, P!review
<1>3. PCallFits(c) /\ PCallsFit /\ PUnder(c)
  BY <1>1, CallShape DEF DInv, DTyped, PUnder
<1>4. PICK d, s, t : /\ pCalls[c] = [at |-> "read", ask |-> d, seen |-> s, from |-> t] /\ d = P!Ask(c)
                     /\ t = pCalls[c].from
  BY <1>1, <1>3 DEF PCallFits
<1>5. PAskFits(d) /\ d.on # None /\ t \in 0..pNow /\ d.on \in P!Kinds \cup Files
  BY <1>1, <1>3, <1>4 DEF PCallFits, PAskFits, P!Kinds
<1>6. pCalls' = [pCalls EXCEPT ![c].at = "held"]
  BY DEF P!Take, P!Goto
<1>7. pCalls'[c] = [at |-> "held", ask |-> d, seen |-> s, from |-> t] /\ PMoves(c) /\ P!Ask(c)' = d
  BY <1>2, <1>3, <1>4, <1>6 DEF PCallsFit, PMoves, P!Ask
<1>8. PCallFits(c)'
  BY <1>2, <1>5, <1>7 DEF PCallFits, PUnder
<1>9. PCallsFit'
  BY <1>3, <1>7, <1>8, CallsStay
<1>10. PApart'
  <2>1. P!Held(c)' \subseteq P!Locks(d)
    BY <1>7 DEF P!Held
  <2>2. \A x \in Clients \ {c} : P!Held(x)' = P!Held(x) /\ P!Held(x) \cap P!Locks(d) = {}
    BY <1>1, <1>3, <1>4, <1>7, Others DEF P!CanLock
  <2>3. \A y, x \in Clients \ {c} : y # x => P!Held(y) \cap P!Held(x) = {}
    BY DEF DInv, PApart
  <2>. QED  BY <2>1, <2>2, <2>3 DEF PApart
<1>11. Ground(c)'
  <2>1. d.op \in P!Versioned \cup {"detach"} => P!Live(d.on)
    BY <1>1, <1>4 DEF P!Agrees
  <2>2. d.op = "judge" /\ d.status = "approved" => \A k \in Notices : pRemark[k].state # "open"
    BY <1>1, <1>4 DEF P!Agrees
  <2>3. d.op = "restore" => /\ pRow[d.on].state = "deleted" /\ FilesKept(d.on)
                            /\ \A p \in P!Parent(d.on) : P!Live(p)
    <3>. SUFFICES ASSUME d.op = "restore"
                  PROVE  /\ pRow[d.on].state = "deleted" /\ FilesKept(d.on)
                         /\ \A p \in P!Parent(d.on) : P!Live(p)
      OBVIOUS
    <3>1. P!Restorable(d.on, pNow)
      BY <1>1, <1>4 DEF P!Agrees
    <3>2. P!Reachable(d.on)
      BY <3>1 DEF P!Restorable, P!Reachable
    <3>3. d.on \in Files => P!Live("document")
      BY <3>1 DEF P!Restorable, P!Parent
    <3>4. d.on \in Files => pKey[d.on] \in pStore
      BY <3>2, <3>3 DEF DInv, P!ReachableFileIsThere, P!Reachable
    <3>5. d.on = "document" => \A f \in Files : P!Reachable(f) => pKey[f] \in pStore
      BY <3>2 DEF DInv, P!ReachableFileIsThere
    <3>. QED  BY <3>1, <3>4, <3>5 DEF P!Restorable, FilesKept
  <2>4. d.op = "purge" => pRow[d.on].state = "deleted" /\ ~P!Reachable(d.on)
    <3>. SUFFICES ASSUME d.op = "purge" PROVE pRow[d.on].state = "deleted" /\ ~P!Reachable(d.on)
      OBVIOUS
    <3>1. Retention # 0 /\ pRow[d.on].state = "deleted" /\ P!Expired(d.on, t)
      BY <1>1, <1>3, <1>4 DEF PCallFits, P!Agrees, P!StillDue
    <3>2. pRow[d.on].at \in Nat /\ pNow \in Nat /\ t \in Nat /\ t <= pNow
      BY <1>5, RowShape, DocumentsAssumption DEF DInv, DTyped
    <3>3. P!Expired(d.on, pNow)
      BY <3>1, <3>2, DocumentsAssumption DEF P!Expired
    <3>. QED  BY <3>1, <3>3 DEF P!Reachable, P!Live
  <2>5. Ground(c)
    BY <1>4, <2>1, <2>2, <2>3, <2>4 DEF Ground
  <2>. QED  BY <1>2, <1>4, <1>7, <2>5 DEF Ground, FilesKept, P!Reachable, P!Live, P!Expired
<1>12. Grounded'
  <2>1. LeavesOthers(c)
    BY <1>2, RowsStand DEF LeavesOthers
  <2>. QED  BY <1>3, <1>7, <1>11, <2>1, GroundsStay DEF DInv
<1>13. KeysFit'
  BY <1>1, <1>2, <1>3, <1>7, KeysStay DEF DInv
<1>14. VersionsFit' /\ P!ReachableFileIsThere' /\ P!DocumentHasItsRevision'
  BY <1>2, RowsStay DEF DInv
<1>15. P!TypeOK'
  BY <1>2 DEF DInv, DTyped, P!TypeOK
<1>. QED  BY <1>2, <1>9, <1>10, <1>12, <1>13, <1>14, <1>15 DEF DInv, DTyped

\* What expires later is out of reach already for whoever purges it.
LEMMA DTicks ==
    ASSUME DInv, P!Tick
    PROVE  DInv'
<1>1. pNow < MaxTime /\ pNow' = pNow + 1 /\ UNCHANGED <<pRow, pBody, pRevision, pKey, pStore, pLink, pStatus, pRemark, pDraft, pCalls>>
  BY DEF P!Tick, P!rows, P!files, P!review
<1>2. pNow \in Nat /\ pNow' \in 0..MaxTime
  BY <1>1, DocumentsAssumption DEF DInv, DTyped
<1>3. P!TypeOK' /\ PApart' /\ VersionsFit' /\ P!DocumentHasItsRevision'
  BY <1>1 DEF DInv, DTyped, P!TypeOK, PApart, P!Held, P!Ask, VersionsFit, P!DocumentHasItsRevision, P!Live
<1>4. KeysFit'
  BY <1>1 DEF DInv, KeysFit, KeyFits, P!KeyOf, P!Ask
<1>5. PCallsFit'
  <2>1. \A c \in Clients : PCallFits(c)'
    <3>. SUFFICES ASSUME NEW c \in Clients PROVE PCallFits(c)'
      OBVIOUS
    <3>1. PCallFits(c)
      BY CallShape DEF DInv, DTyped
    <3>2. pCalls[c].from \in 0..pNow => pCalls[c].from \in 0..pNow'
      BY <1>1, <1>2
    <3>. QED  BY <1>1, <3>1, <3>2 DEF PCallFits, PUnder, P!Ask
  <2>. QED  BY <1>1, <2>1 DEF DInv, DTyped, PCallsFit
<1>6. \A x \in P!Kinds \cup Files : P!Reachable(x)' => P!Reachable(x)
  <2>. SUFFICES ASSUME NEW x \in P!Kinds \cup Files, P!Reachable(x)' PROVE P!Reachable(x)
    OBVIOUS
  <2>1. pRow[x].at \in Nat
    BY RowShape, DocumentsAssumption DEF DInv, DTyped
  <2>2. P!Expired(x, pNow) => P!Expired(x, pNow')
    BY <1>1, <1>2, <2>1, DocumentsAssumption DEF P!Expired
  <2>. QED  BY <1>1, <2>2 DEF P!Reachable, P!Live, P!Expired
<1>7. P!ReachableFileIsThere'
  BY <1>1, <1>6 DEF DInv, P!ReachableFileIsThere, P!Kinds
<1>8. Grounded'
  <2>. SUFFICES ASSUME NEW c \in Clients, pCalls'[c].at = "held" PROVE Ground(c)'
    BY DEF Grounded
  <2>1. PICK d : d = P!Ask(c)
    OBVIOUS
  <2>2. P!Ask(c)' = d /\ P!Ask(c) = d /\ Ground(c) /\ d.on \in P!Kinds \cup Files
    BY <1>1, <2>1, CallShape DEF DInv, Grounded, DTyped, PCallFits, P!Ask
  <2>3. FilesKept(d.on) => FilesKept(d.on)'
    BY <1>1, <1>6 DEF FilesKept
  <2>4. P!Reachable(d.on)' => P!Reachable(d.on)
    BY <1>6, <2>2
  <2>. QED  BY <1>1, <2>2, <2>3, <2>4 DEF Ground, P!Live
<1>. QED  BY <1>2, <1>3, <1>4, <1>5, <1>7, <1>8 DEF DInv, DTyped

-----------------------------------------------------------------------------
(* The commits.  A write under the lock of a document leaves the other side *)
(* and, except for files, every attachment alone.                           *)
LEMMA HeldShape ==
    ASSUME DInv, NEW c \in Clients, pCalls[c].at = "held"
    PROVE  /\ PAskFits(P!Ask(c)) /\ P!Ask(c).on \in P!Kinds \cup Files /\ Ground(c)
           /\ pRow[P!Ask(c).on] \in P!Row
BY CallShape, RowShape DEF DInv, DTyped, PCallFits, PUnder, Grounded

\* A call that ends having written no more than links, remarks, drafts.
LEMMA EndsQuietly ==
    ASSUME DInv, NEW c \in Clients, Ends(c), pCalls[c].at # "done", P!TypeOK',
           UNCHANGED <<pRow, pBody, pRevision, pKey, pStore>>, pRemark' = pRemark \/ pCalls[c].at = "held",
           pRemark' = pRemark \/ Side(P!Ask(c)) = "specification"
    PROVE  DInv'
<1>1. LeavesOthers(c)
  <2>1. CASE pRemark' = pRemark
    BY <2>1, RowsStand DEF LeavesOthers
  <2>2. CASE pRemark' # pRemark
    <3>1. DocumentStays
      BY DEF DocumentStays
    <3>. QED  BY <2>2, <3>1, Alone DEF DInv, DTyped
  <2>. QED  BY <2>1, <2>2
<1>2. PCallsFit' /\ PApart' /\ Grounded'
  BY <1>1, Finished DEF DInv, DTyped
<1>3. KeysFit'
  BY EndsIsMove, KeysStay DEF DInv, DTyped
<1>4. VersionsFit' /\ P!ReachableFileIsThere' /\ P!DocumentHasItsRevision'
  BY RowsStay DEF DInv, Ends
<1>. QED  BY <1>2, <1>3, <1>4 DEF DInv, DTyped, Ends

LEMMA DLinks ==
    ASSUME DInv, NEW c \in Clients, P!AddLink(c) \/ P!DeleteLink(c)
    PROVE  DInv'
<1>1. pCalls[c].at = "held" /\ Ends(c) /\ UNCHANGED <<pNow, pRow, pBody, pRevision, pKey, pStore, pStatus, pRemark, pDraft>>
  BY DEF P!AddLink, P!DeleteLink, P!At, P!Done, Ends, P!rows, P!files, P!review
<1>2. PAskFits(P!Ask(c))
  BY <1>1, HeldShape
<1>3. pLink' \in P!Links
  <2>1. CASE P!AddLink(c)
    BY <1>2, <2>1 DEF P!AddLink, P!At, PAskFits, P!Links, DInv, DTyped, P!TypeOK
  <2>2. CASE P!DeleteLink(c)
    BY <1>2, <2>2 DEF P!DeleteLink, P!At, PAskFits, P!Links, DInv, DTyped, P!TypeOK
  <2>. QED  BY <2>1, <2>2
<1>4. P!TypeOK'
  BY <1>1, <1>3 DEF DInv, DTyped, P!TypeOK
<1>. QED  BY <1>1, <1>4, EndsQuietly

LEMMA DRemarks ==
    ASSUME DInv, NEW c \in Clients, P!AddRemark(c) \/ P!Resolve(c)
    PROVE  DInv'
<1>1. pCalls[c].at = "held" /\ Ends(c) /\ UNCHANGED <<pNow, pRow, pBody, pRevision, pKey, pStore, pLink, pStatus, pDraft>>
  BY DEF P!AddRemark, P!Resolve, P!At, P!Done, Ends, P!rows, P!files
<1>2. PAskFits(P!Ask(c)) /\ P!Ask(c).on = "specification" /\ P!Ask(c).remark \in Notices
  BY <1>1, HeldShape DEF P!AddRemark, P!Resolve, P!At, PAskFits
<1>3. pRemark' \in [Notices -> P!Remark]
  <2>1. CASE P!AddRemark(c)
    BY <1>2, <2>1 DEF P!AddRemark, P!Remark, DInv, DTyped, P!TypeOK
  <2>2. CASE P!Resolve(c)
    <3>1. pRemark[P!Ask(c).remark].version + 1 \in Nat
      BY <1>2 DEF P!Remark, DInv, DTyped, P!TypeOK
    <3>. QED  BY <1>2, <2>2, <3>1 DEF P!Resolve, P!Remark, DInv, DTyped, P!TypeOK
  <2>. QED  BY <2>1, <2>2
<1>4. P!TypeOK'
  BY <1>1, <1>3 DEF DInv, DTyped, P!TypeOK
<1>5. Side(P!Ask(c)) = "specification"
  BY <1>2 DEF Side
<1>. QED  BY <1>1, <1>4, <1>5, EndsQuietly

\* A draft flushed over a newer one is a draft.
LEMMA FlushedDraft ==
    ASSUME NEW r \in P!Draft, NEW s \in P!Draft, NEW n \in P!Draft
    PROVE  P!Flushed(r, s, n) \in P!Draft
<1>1. DOMAIN r = {"state", "text", "version", "expires"}
  BY DEF P!Draft
<1>2. PICK a, b, v, e : /\ a = (IF n.state # s.state THEN n.state ELSE r.state)
                        /\ b = (IF n.text # s.text THEN n.text ELSE r.text)
                        /\ v = (IF n.version # s.version THEN n.version ELSE r.version)
                        /\ e = (IF n.expires # s.expires THEN n.expires ELSE r.expires)
  OBVIOUS
<1>3. P!Flushed(r, s, n) = [state |-> a, text |-> b, version |-> v, expires |-> e]
  BY <1>1, <1>2 DEF P!Flushed
<1>. QED  BY <1>2, <1>3 DEF P!Draft

LEMMA DDrafts ==
    ASSUME DInv, NEW c \in Clients, P!DraftWork(c)
    PROVE  DInv'
<1>1. pCalls[c].at = "read" /\ Ends(c) /\ UNCHANGED <<pNow, pRow, pBody, pRevision, pKey, pStore, pLink, pStatus, pRemark>>
  BY DEF P!DraftWork, P!SaveDraft, P!DeleteDraft, P!ExpireDrafts, P!At, P!Done, Ends, P!rows, P!files, P!review
<1>2. pDraft \in P!Draft /\ P!NoDraft \in P!Draft /\ pNow \in Nat
  BY DocumentsAssumption DEF DInv, DTyped, P!TypeOK, P!NoDraft, P!Draft, P!Texts
<1>3. pDraft' \in P!Draft
  <2>1. CASE P!SaveDraft(c)
    <3>1. PCallFits(c) /\ P!Ask(c).op = "draft"
      BY <2>1, CallShape DEF DInv, DTyped, P!SaveDraft, P!At
    <3>2. pCalls[c].seen \in P!Draft /\ P!Ask(c).text \in P!Texts
      BY <1>1, <3>1 DEF PCallFits, PUnder, PAskFits
    <3>3. PICK s \in P!Draft, t \in P!Texts, e \in Nat : s = pCalls[c].seen /\ t = P!Ask(c).text /\ e = pNow + P!DraftLife
      BY <1>2, <3>2 DEF P!DraftLife
    <3>4. PICK n : n = [s EXCEPT !.text = t, !.version = @ + 1, !.expires = e]
      OBVIOUS
    <3>5. n = [state |-> s.state, text |-> t, version |-> s.version + 1, expires |-> e] /\ n \in P!Draft
      <4>1. s.state \in {"absent", "live"} /\ s.version + 1 \in Nat
        BY DEF P!Draft
      <4>2. s = [state |-> s.state, text |-> s.text, version |-> s.version, expires |-> s.expires]
        BY DEF P!Draft
      <4>3. n = [state |-> s.state, text |-> t, version |-> s.version + 1, expires |-> e]
        BY <3>4, <4>2
      <4>. QED  BY <4>1, <4>3 DEF P!Draft
    <3>6. P!Flushed(pDraft, s, n) \in P!Draft
      BY <1>2, <3>5, FlushedDraft
    <3>7. [state |-> "live", text |-> t, version |-> 1, expires |-> e] \in P!Draft
      BY DEF P!Draft
    <3>. QED  BY <1>2, <2>1, <3>3, <3>4, <3>6, <3>7 DEF P!SaveDraft
  <2>2. CASE P!DeleteDraft(c) \/ P!ExpireDrafts(c)
    BY <1>2, <2>2 DEF P!DeleteDraft, P!ExpireDrafts
  <2>. QED  BY <2>1, <2>2 DEF P!DraftWork
<1>4. P!TypeOK'
  BY <1>1, <1>3 DEF DInv, DTyped, P!TypeOK
<1>. QED  BY <1>1, <1>4, EndsQuietly

-----------------------------------------------------------------------------
(* Writes to one row.                                                       *)
OneRow(x, r) == pRow' = [pRow EXCEPT ![x] = r]

\* A row that keeps its state, or was live and is deleted now, keeps what its file needs.
LEMMA RowTyped ==
    ASSUME P!TypeOK, NEW x \in P!Kinds \cup Files, NEW r \in P!Row, OneRow(x, r)
    PROVE  /\ pRow' \in [P!Kinds \cup Files -> P!Row] /\ pRow'[x] = r
           /\ \A y \in (P!Kinds \cup Files) \ {x} : pRow'[y] = pRow[y]
BY DEF P!TypeOK, OneRow

LEMMA ChangedIs ==
    ASSUME P!TypeOK, NEW x \in P!Kinds \cup Files, pRow' = P!Changed(x)
    PROVE  \E r \in P!Row : OneRow(x, r) /\ r.state = pRow[x].state /\ r.at = pRow[x].at /\ r.version = pRow[x].version + 1
<1>1. pRow[x] \in P!Row /\ pRow[x].version + 1 \in Nat
  BY RowShape
<1>2. PICK q : q = pRow[x]
  OBVIOUS
<1>3. PICK r : r = [q EXCEPT !.version = @ + 1]
  OBVIOUS
<1>4. r = [state |-> q.state, at |-> q.at, version |-> q.version + 1]
  BY <1>1, <1>2, <1>3 DEF P!Row
<1>5. r \in P!Row
  BY <1>1, <1>2, <1>4 DEF P!Row
<1>6. OneRow(x, r)
  BY <1>2, <1>3 DEF OneRow, P!Changed
<1>. QED  BY <1>2, <1>4, <1>5, <1>6

LEMMA DeletedIs ==
    ASSUME DTyped, NEW x \in P!Kinds \cup Files, pRow' = P!Deleted(x)
    PROVE  \E r \in P!Row : OneRow(x, r) /\ r.state = "deleted" /\ r.at = pNow /\ r.version = pRow[x].version + 1
<1>1. pRow[x] \in P!Row /\ pRow[x].version + 1 \in Nat /\ pNow \in 0..MaxTime /\ P!TypeOK
  BY RowShape DEF DTyped
<1>2. PICK q : q = pRow[x]
  OBVIOUS
<1>3. PICK r : r = [q EXCEPT !.state = "deleted", !.at = pNow, !.version = @ + 1]
  OBVIOUS
<1>4. q = [state |-> q.state, at |-> q.at, version |-> q.version]
  BY <1>1, <1>2 DEF P!Row
<1>5. r = [state |-> "deleted", at |-> pNow, version |-> q.version + 1]
  BY <1>3, <1>4
<1>6. r \in P!Row
  BY <1>1, <1>2, <1>5 DEF P!Row
<1>7. pRow' = [pRow EXCEPT ![x] = r]
  BY <1>1, <1>2, <1>3 DEF P!Deleted, P!TypeOK
<1>. QED  BY <1>2, <1>5, <1>6, <1>7 DEF OneRow

LEMMA RestoredIs ==
    ASSUME P!TypeOK, NEW x \in P!Kinds \cup Files, pRow' = P!Restored(x), 0 \in 0..MaxTime
    PROVE  \E r \in P!Row : /\ OneRow(x, r) /\ r.state = "live"
                          /\ r.version = IF x \in Files THEN pRow[x].version ELSE pRow[x].version + 1
<1>1. pRow[x] \in P!Row /\ pRow[x].version \in Nat /\ pRow[x].version + 1 \in Nat
  BY RowShape
<1>2. PICK q : q = pRow[x]
  OBVIOUS
<1>3. PICK v \in Nat : v = IF x \in Files THEN q.version ELSE q.version + 1
  BY <1>1, <1>2
<1>4. PICK r : r = [q EXCEPT !.state = "live", !.at = 0, !.version = v]
  OBVIOUS
<1>5. q = [state |-> q.state, at |-> q.at, version |-> q.version]
  BY <1>1, <1>2 DEF P!Row
<1>6. r = [state |-> "live", at |-> 0, version |-> v]
  BY <1>4, <1>5
<1>7. r \in P!Row
  BY <1>6 DEF P!Row
<1>8. pRow' = [pRow EXCEPT ![x] = r]
  BY <1>1, <1>2, <1>3, <1>4 DEF P!Restored, P!TypeOK
<1>. QED  BY <1>2, <1>3, <1>6, <1>7, <1>8 DEF OneRow

LEMMA DetachedIs ==
    ASSUME DTyped, NEW x \in P!Kinds \cup Files,
           pRow' = [pRow EXCEPT ![x].state = "deleted", ![x].at = pNow]
    PROVE  \E r \in P!Row : OneRow(x, r) /\ r.state = "deleted" /\ r.at = pNow /\ r.version = pRow[x].version
<1>1. pRow[x] \in P!Row /\ pRow[x].version \in Nat /\ pNow \in 0..MaxTime /\ P!TypeOK
  BY RowShape DEF DTyped
<1>2. PICK q : q = pRow[x]
  OBVIOUS
<1>3. PICK r : r = [q EXCEPT !.state = "deleted", !.at = pNow]
  OBVIOUS
<1>4. q = [state |-> q.state, at |-> q.at, version |-> q.version]
  BY <1>1, <1>2 DEF P!Row
<1>5. r = [state |-> "deleted", at |-> pNow, version |-> q.version]
  BY <1>3, <1>4
<1>6. r \in P!Row
  BY <1>1, <1>2, <1>5 DEF P!Row
<1>7. pRow' = [pRow EXCEPT ![x] = r]
  BY <1>1, <1>2, <1>3 DEF P!TypeOK
<1>. QED  BY <1>2, <1>5, <1>6, <1>7 DEF OneRow

\* Creating a document or a specification.
LEMMA CreatedIs ==
    ASSUME P!TypeOK, NEW x \in P!Kinds \cup Files, 0 \in 0..MaxTime, NEW v \in Nat,
           pRow' = [pRow EXCEPT ![x] = [state |-> "live", at |-> 0, version |-> v]]
    PROVE  \E r \in P!Row : OneRow(x, r) /\ r.state = "live" /\ r.version = v
<1>1. PICK r : r = [state |-> "live", at |-> 0, version |-> v]
  OBVIOUS
<1>2. r \in P!Row
  BY <1>1 DEF P!Row
<1>3. OneRow(x, r)
  BY <1>1 DEF OneRow
<1>. QED  BY <1>1, <1>2, <1>3

-----------------------------------------------------------------------------
(* What a commit on a document or a specification, or on an attachment,     *)
(* leaves standing.                                                         *)
LEMMA KindWritten ==
    ASSUME DInv, NEW x \in P!Kinds, NEW r \in P!Row, OneRow(x, r), pNow' = pNow, pKey' = pKey, pStore' = pStore,
           r.state # "absent", r.version = pRow[x].version + 1,
           NEW N, pRevision' = pRevision \cup N, \A e \in N : e[1] = x /\ e[2] = r.version,
           \A e, g \in N : e = g,
           x = "document" /\ r.state = "live" => <<x, r.version, pBody'[x]>> \in pRevision',
           x # "document" => pBody'["document"] = pBody["document"],
           x = "document" /\ P!Reachable(x)' => \A f \in Files : P!Reachable(f) => pKey[f] \in pStore
    PROVE  VersionsFit' /\ P!ReachableFileIsThere' /\ P!DocumentHasItsRevision'
<1>1. /\ pRow' \in [P!Kinds \cup Files -> P!Row] /\ pRow'[x] = r
      /\ \A y \in (P!Kinds \cup Files) \ {x} : pRow'[y] = pRow[y]
  BY RowTyped DEF DInv, DTyped
<1>2. \A k \in P!Kinds : pRow[k].version \in Nat
  BY RowShape DEF DInv, DTyped
<1>3. \A e \in pRevision : e[1] \in P!Kinds
  BY DEF DInv, DTyped, P!TypeOK, P!Revision, P!Kinds
<1>4. VersionsFit'
  <2>1. ASSUME NEW e \in pRevision' PROVE e[2] \in 1..pRow'[e[1]].version
    <3>1. CASE e \in N
      BY <1>1, <1>2, <3>1
    <3>2. CASE e \in pRevision
      <4>1. e[2] \in 1..pRow[e[1]].version /\ e[1] \in P!Kinds
        BY <1>3, <3>2 DEF DInv, VersionsFit
      <4>2. CASE e[1] = x
        BY <1>1, <1>2, <4>1, <4>2
      <4>3. CASE e[1] # x
        BY <1>1, <4>1, <4>3
      <4>. QED  BY <4>2, <4>3
    <3>. QED  BY <2>1, <3>1, <3>2
  <2>2. \A k \in P!Kinds : pRow'[k].state = "absent" => pRow'[k].version = 0
    BY <1>1 DEF DInv, VersionsFit
  <2>3. pRow'["document"].state = "absent" => \A f \in Files : pRow'[f].state = "absent"
    BY <1>1, DocumentsAssumption DEF DInv, VersionsFit, P!Kinds
  <2>. QED  BY <2>1, <2>2, <2>3 DEF VersionsFit
<1>5. \A f \in Files : pRow'[f] = pRow[f] /\ (P!Reachable(f)' <=> P!Reachable(f))
  BY <1>1, DocumentsAssumption DEF P!Reachable, P!Live, P!Expired
<1>6. P!ReachableFileIsThere'
  <2>1. CASE x = "document"
    BY <1>5, <2>1 DEF P!ReachableFileIsThere
  <2>2. CASE x # "document"
    <3>1. P!Reachable("document")' <=> P!Reachable("document")
      BY <1>1, <2>2 DEF P!Kinds, P!Reachable, P!Live, P!Expired
    <3>. QED  BY <1>5, <3>1 DEF DInv, P!ReachableFileIsThere
  <2>. QED  BY <2>1, <2>2
<1>7. P!DocumentHasItsRevision'
  <2>1. P!Live("document")' => <<"document", pRow'["document"].version, pBody'["document"]>> \in pRevision'
    <3>1. CASE x = "document"
      BY <1>1, <3>1 DEF P!Live
    <3>2. CASE x # "document"
      BY <1>1, <3>2 DEF DInv, P!DocumentHasItsRevision, P!Live, P!Kinds
    <3>. QED  BY <3>1, <3>2
  <2>2. ASSUME NEW e \in pRevision', NEW g \in pRevision', e[1] = g[1], e[2] = g[2] PROVE e = g
    <3>1. CASE e \in N /\ g \in N
      BY <3>1
    <3>2. CASE e \in pRevision /\ g \in pRevision
      BY <2>2, <3>2 DEF DInv, P!DocumentHasItsRevision
    <3>3. \A h \in pRevision : h[1] = x => h[2] # r.version
      BY <1>2 DEF DInv, VersionsFit
    <3>. QED  BY <2>2, <3>1, <3>2, <3>3
  <2>. QED  BY <2>1, <2>2 DEF P!DocumentHasItsRevision
<1>. QED  BY <1>4, <1>6, <1>7

LEMMA FileWritten ==
    ASSUME DInv, NEW x \in Files, NEW r \in P!Row, OneRow(x, r), pNow' = pNow,
           UNCHANGED <<pBody, pRevision>>, pRow["document"].state # "absent",
           P!Reachable(x)' /\ P!Reachable("document") => pKey'[x] \in pStore',
           \A f \in Files \ {x} : P!Reachable(f) /\ pKey[f] \in pStore => pKey'[f] \in pStore'
    PROVE  VersionsFit' /\ P!ReachableFileIsThere' /\ P!DocumentHasItsRevision'
<1>1. /\ pRow' \in [P!Kinds \cup Files -> P!Row] /\ pRow'[x] = r
      /\ \A y \in (P!Kinds \cup Files) \ {x} : pRow'[y] = pRow[y]
  BY RowTyped DEF DInv, DTyped
<1>2. \A k \in P!Kinds : pRow'[k] = pRow[k]
  BY <1>1, DocumentsAssumption
<1>3. \A e \in pRevision : e[1] \in P!Kinds
  BY DEF DInv, DTyped, P!TypeOK, P!Revision, P!Kinds
<1>4. VersionsFit'
  BY <1>2, <1>3 DEF DInv, VersionsFit, P!Kinds
<1>5. P!DocumentHasItsRevision'
  BY <1>2 DEF DInv, P!DocumentHasItsRevision, P!Live, P!Kinds
<1>6. P!Reachable("document")' <=> P!Reachable("document")
  BY <1>2 DEF P!Kinds, P!Reachable, P!Live, P!Expired
<1>7. \A f \in Files \ {x} : P!Reachable(f)' <=> P!Reachable(f)
  BY <1>1 DEF P!Reachable, P!Live, P!Expired
<1>8. P!ReachableFileIsThere'
  BY <1>6, <1>7 DEF DInv, P!ReachableFileIsThere
<1>. QED  BY <1>4, <1>5, <1>8

LEMMA OtherSide ==
    ASSUME DInv, NEW x \in P!Kinds \cup Files, NEW r \in P!Row, OneRow(x, r)
    PROVE  /\ x = "specification" /\ pKey' = pKey /\ pStore' = pStore => DocumentStays
           /\ x # "specification" /\ pRemark' = pRemark => SpecificationStays
<1>1. pRow'[x] = r /\ \A y \in (P!Kinds \cup Files) \ {x} : pRow'[y] = pRow[y]
  BY RowTyped DEF DInv, DTyped
<1>. QED  BY <1>1, DocumentsAssumption DEF DocumentStays, SpecificationStays, P!Kinds

\* A commit on a document or a specification by the call that holds it.
LEMMA KindCommits ==
    ASSUME DInv, NEW c \in Clients, pCalls[c].at = "held", Ends(c), NEW r \in P!Row, P!Ask(c).on \in P!Kinds,
           OneRow(P!Ask(c).on, r), pKey' = pKey, pStore' = pStore, pRemark' = pRemark,
           VersionsFit', P!ReachableFileIsThere', P!DocumentHasItsRevision',
           pBody' \in [P!Kinds -> P!Texts], pRevision' \subseteq P!Revision, pStatus' \in P!Statuses,
           UNCHANGED <<pLink, pDraft>>
    PROVE  DInv'
<1>1. PICK x : x = P!Ask(c).on
  OBVIOUS
<1>2. /\ pRow' \in [P!Kinds \cup Files -> P!Row] /\ \A y \in (P!Kinds \cup Files) \ {x} : pRow'[y] = pRow[y]
  BY <1>1, RowTyped DEF DInv, DTyped
<1>3. LeavesOthers(c)
  <2>1. /\ Side(P!Ask(c)) = "specification" => DocumentStays
        /\ Side(P!Ask(c)) = "document" => SpecificationStays
    BY <1>1, OtherSide DEF Side
  <2>. QED  BY <2>1, Alone DEF DInv, DTyped
<1>4. PCallsFit' /\ PApart' /\ Grounded'
  BY <1>3, Finished DEF DInv, DTyped
<1>5. KeysFit'
  <2>1. \A f \in Files : pRow'[f].state = pRow[f].state
    BY <1>1, <1>2, DocumentsAssumption
  <2>. QED  BY <2>1, EndsIsMove, KeysStay DEF DInv, DTyped
<1>6. P!TypeOK'
  BY <1>2 DEF DInv, DTyped, P!TypeOK
<1>. QED  BY <1>4, <1>5, <1>6 DEF DInv, DTyped, Ends

\* A live document's files are there, and so are those of one that can be restored.
LEMMA FilesAreThere ==
    ASSUME DInv, P!Reachable("document")
    PROVE  \A f \in Files : P!Reachable(f) => pKey[f] \in pStore
BY DEF DInv, P!ReachableFileIsThere

-----------------------------------------------------------------------------
(* Documents and specifications.                                            *)
LEMMA Revises ==
    ASSUME NEW n \in Nat, NEW t \in P!Texts, NEW s \in P!Statuses
    PROVE  <<"document", n, t>> \in P!Revision /\ <<"specification", n, <<t, s>>>> \in P!Revision
BY DEF P!Revision

\* Whatever is created, nobody works on.
LEMMA GroundsBeside ==
    ASSUME DInv, NEW x \in P!Kinds, NEW r \in P!Row, OneRow(x, r), pRow[x].state = "absent",
           UNCHANGED <<pNow, pKey, pStore, pRemark, pCalls>>
    PROVE  Grounded'
<1>1. /\ pRow'[x] = r /\ \A y \in (P!Kinds \cup Files) \ {x} : pRow'[y] = pRow[y]
  BY RowTyped DEF DInv, DTyped
<1>. SUFFICES ASSUME NEW c \in Clients, pCalls[c].at = "held" PROVE Ground(c)'
  BY DEF Grounded
<1>2. PICK d : d = P!Ask(c)
  OBVIOUS
<1>3. P!Ask(c)' = d /\ P!Ask(c) = d /\ Ground(c) /\ d.on \in P!Kinds \cup Files
  BY <1>1, <1>2, HeldShape DEF P!Ask
<1>4. \A y \in P!Kinds \cup Files : pRow[y].state # "absent" => pRow'[y] = pRow[y]
  BY <1>1
<1>5. \A y \in P!Kinds \cup Files : P!Live(y) => P!Live(y)'
  BY <1>4 DEF P!Live
<1>6. \A y \in P!Kinds \cup Files : pRow[y].state = "deleted" => pRow'[y].state = "deleted" /\ (P!Reachable(y)' <=> P!Reachable(y))
  BY <1>1, <1>4 DEF P!Reachable, P!Live, P!Expired
<1>7. FilesKept(d.on) => FilesKept(d.on)'
  BY <1>1, DocumentsAssumption DEF FilesKept, P!Reachable, P!Live, P!Expired, P!Kinds
<1>8. P!Parent(d.on) \subseteq P!Kinds
  BY DEF P!Parent, P!Kinds
<1>9. d.op \in P!Versioned \cup {"detach"} => P!Live(d.on)'
  BY <1>3, <1>5 DEF Ground
<1>10. d.op = "restore" => pRow'[d.on].state = "deleted" /\ FilesKept(d.on)' /\ \A p \in P!Parent(d.on) : P!Live(p)'
  BY <1>3, <1>5, <1>6, <1>7, <1>8 DEF Ground
<1>11. d.op = "purge" => pRow'[d.on].state = "deleted" /\ ~P!Reachable(d.on)'
  BY <1>3, <1>6 DEF Ground
<1>. QED  BY <1>1, <1>3, <1>9, <1>10, <1>11 DEF Ground

LEMMA DCreatesDocument ==
    ASSUME DInv, P!CreateDocument
    PROVE  DInv'
<1>1. /\ pRow["document"].state = "absent" /\ pRow' = [pRow EXCEPT !["document"] = [state |-> "live", at |-> 0, version |-> 1]]
      /\ pRevision' = pRevision \cup {<<"document", 1, pBody["document"]>>}
      /\ UNCHANGED <<pNow, pBody, pKey, pStore, pLink, pStatus, pRemark, pDraft, pCalls>>
  BY DEF P!CreateDocument, P!files, P!review
<1>2. PICK r \in P!Row : OneRow("document", r) /\ r.state = "live" /\ r.version = 1
  <2>1. "document" \in P!Kinds \cup Files /\ 0 \in 0..MaxTime /\ 1 \in Nat /\ P!TypeOK
    BY DocumentsAssumption DEF DInv, DTyped, P!Kinds
  <2>. QED  BY <1>1, <2>1, CreatedIs
<1>3. /\ pRow' \in [P!Kinds \cup Files -> P!Row] /\ pRow'["document"] = r
      /\ \A y \in (P!Kinds \cup Files) \ {"document"} : pRow'[y] = pRow[y]
  BY <1>2, RowTyped DEF DInv, DTyped, P!Kinds
<1>4. pRow["document"].version = 0 /\ \A f \in Files : pRow[f].state = "absent"
  BY <1>1 DEF DInv, VersionsFit, P!Kinds
<1>5. "document" \in P!Kinds /\ \A f \in Files : ~P!Reachable(f)
  BY <1>4 DEF P!Kinds, P!Reachable, P!Live
<1>6. VersionsFit' /\ P!ReachableFileIsThere' /\ P!DocumentHasItsRevision'
  <2>1. PICK N : N = {<<"document", 1, pBody["document"]>>}
    OBVIOUS
  <2>2. pRevision' = pRevision \cup N /\ (\A e \in N : e[1] = "document" /\ e[2] = r.version) /\ \A e, g \in N : e = g
    BY <1>1, <1>2, <2>1
  <2>3. r.state # "absent" /\ r.version = pRow["document"].version + 1
    BY <1>2, <1>4
  <2>4. <<"document", r.version, pBody'["document"]>> \in pRevision'
    BY <1>1, <1>2
  <2>. QED  BY <1>1, <1>2, <1>5, <2>2, <2>3, <2>4, KindWritten
<1>7. P!TypeOK'
  <2>0. pBody["document"] \in P!Texts /\ pBody["specification"] \in P!Texts /\ "draft" \in P!Statuses /\ 1 \in Nat
    BY DEF DInv, DTyped, P!TypeOK, P!Kinds, P!Statuses
  <2>1. pRevision' \subseteq P!Revision
    BY <1>1, <2>0, Revises DEF DInv, DTyped, P!TypeOK
  <2>. QED  BY <1>1, <1>3, <2>1 DEF DInv, DTyped, P!TypeOK
<1>8. PCallsFit' /\ PApart'
  BY <1>1 DEF DInv, DTyped, PCallsFit, PCallFits, PUnder, P!Ask, PApart, P!Held
<1>9. KeysFit'
  BY <1>1, <1>3, DocumentsAssumption DEF DInv, KeysFit, KeyFits, P!KeyOf, P!Ask, P!Kinds
<1>10. Grounded'
  BY <1>1, <1>2, <1>5, GroundsBeside
<1>. QED  BY <1>1, <1>6, <1>7, <1>8, <1>9, <1>10 DEF DInv, DTyped

LEMMA DCreatesSpecification ==
    ASSUME DInv, P!CreateSpecification
    PROVE  DInv'
<1>1. /\ pRow["specification"].state = "absent"
      /\ pRow' = [pRow EXCEPT !["specification"] = [state |-> "live", at |-> 0, version |-> 1]]
      /\ pRevision' = pRevision \cup {<<"specification", 1, <<pBody["specification"], "draft">>>>}
      /\ UNCHANGED <<pNow, pBody, pKey, pStore, pLink, pStatus, pRemark, pDraft, pCalls>>
  BY DEF P!CreateSpecification, P!files, P!review
<1>2. PICK r \in P!Row : OneRow("specification", r) /\ r.state = "live" /\ r.version = 1
  <2>1. "specification" \in P!Kinds \cup Files /\ 0 \in 0..MaxTime /\ 1 \in Nat /\ P!TypeOK
    BY DocumentsAssumption DEF DInv, DTyped, P!Kinds
  <2>. QED  BY <1>1, <2>1, CreatedIs
<1>3. /\ pRow' \in [P!Kinds \cup Files -> P!Row] /\ pRow'["specification"] = r
      /\ \A y \in (P!Kinds \cup Files) \ {"specification"} : pRow'[y] = pRow[y]
  BY <1>2, RowTyped DEF DInv, DTyped, P!Kinds
<1>4. pRow["specification"].version = 0
  BY <1>1 DEF DInv, VersionsFit, P!Kinds
<1>5. "specification" \in P!Kinds
  BY DEF P!Kinds
<1>6. VersionsFit' /\ P!ReachableFileIsThere' /\ P!DocumentHasItsRevision'
  <2>1. PICK N : N = {<<"specification", 1, <<pBody["specification"], "draft">>>>}
    OBVIOUS
  <2>2. pRevision' = pRevision \cup N /\ (\A e \in N : e[1] = "specification" /\ e[2] = r.version) /\ \A e, g \in N : e = g
    BY <1>1, <1>2, <2>1
  <2>3. r.state # "absent" /\ r.version = pRow["specification"].version + 1
    BY <1>2, <1>4
  <2>. QED  BY <1>1, <1>2, <1>5, <2>2, <2>3, KindWritten
<1>7. P!TypeOK'
  <2>0. pBody["document"] \in P!Texts /\ pBody["specification"] \in P!Texts /\ "draft" \in P!Statuses /\ 1 \in Nat
    BY DEF DInv, DTyped, P!TypeOK, P!Kinds, P!Statuses
  <2>1. pRevision' \subseteq P!Revision
    BY <1>1, <2>0, Revises DEF DInv, DTyped, P!TypeOK
  <2>. QED  BY <1>1, <1>3, <2>1 DEF DInv, DTyped, P!TypeOK
<1>8. PCallsFit' /\ PApart'
  BY <1>1 DEF DInv, DTyped, PCallsFit, PCallFits, PUnder, P!Ask, PApart, P!Held
<1>9. KeysFit'
  BY <1>1, <1>3, DocumentsAssumption DEF DInv, KeysFit, KeyFits, P!KeyOf, P!Ask, P!Kinds
<1>10. Grounded'
  BY <1>1, <1>2, <1>5, GroundsBeside
<1>. QED  BY <1>1, <1>6, <1>7, <1>8, <1>9, <1>10 DEF DInv, DTyped

LEMMA DUpdatesDocument ==
    ASSUME DInv, NEW c \in Clients, P!UpdateDocument(c)
    PROVE  DInv'
<1>1. /\ pCalls[c].at = "held" /\ P!Ask(c).op = "edit" /\ Ends(c)
      /\ UNCHANGED <<pNow, pKey, pStore, pLink, pStatus, pRemark, pDraft>>
  BY DEF P!UpdateDocument, P!At, P!Done, Ends, P!files, P!review
<1>2. PAskFits(P!Ask(c)) /\ P!Ask(c).on = "document" /\ P!Ask(c).text \in P!Texts /\ P!Live("document") /\ "document" \in P!Kinds
  BY <1>1, HeldShape DEF PAskFits, Ground, P!Versioned, P!Kinds
<1>3. CASE pBody["document"] = P!Ask(c).text
  <2>1. UNCHANGED <<pRow, pBody, pRevision>>
    BY <1>2, <1>3 DEF P!UpdateDocument, P!rows
  <2>2. P!TypeOK'
    BY <1>1, <2>1 DEF DInv, DTyped, P!TypeOK
  <2>. QED  BY <1>1, <2>1, <2>2, EndsQuietly
<1>4. CASE pBody["document"] # P!Ask(c).text
  <2>1. PICK t \in P!Texts : t = P!Ask(c).text
    BY <1>2
  <2>2. /\ pBody' = [pBody EXCEPT !["document"] = t] /\ pRow' = P!Changed("document")
        /\ pRevision' = pRevision \cup {<<"document", pRow["document"].version + 1, t>>}
    BY <1>2, <1>4, <2>1 DEF P!UpdateDocument
  <2>3. PICK r \in P!Row : OneRow("document", r) /\ r.state = pRow["document"].state /\ r.version = pRow["document"].version + 1
    BY <1>2, <2>2, ChangedIs DEF DInv, DTyped
  <2>4. r.version \in Nat /\ r.state = "live"
    BY <1>2, <2>3 DEF P!Row, P!Live
  <2>5. pBody' \in [P!Kinds -> P!Texts] /\ pBody'["document"] = t /\ pRevision' \subseteq P!Revision
    BY <1>2, <2>2, <2>3, <2>4, Revises DEF DInv, DTyped, P!TypeOK, P!Statuses
  <2>6. VersionsFit' /\ P!ReachableFileIsThere' /\ P!DocumentHasItsRevision'
    <3>1. PICK N : N = {<<"document", r.version, t>>}
      OBVIOUS
    <3>2. pRevision' = pRevision \cup N /\ (\A e \in N : e[1] = "document" /\ e[2] = r.version) /\ \A e, g \in N : e = g
      BY <2>2, <2>3, <3>1
    <3>3. <<"document", r.version, pBody'["document"]>> \in pRevision'
      BY <2>5, <3>1, <3>2
    <3>4. \A f \in Files : P!Reachable(f) => pKey[f] \in pStore
      BY <1>2, FilesAreThere DEF P!Reachable
    <3>. QED  BY <1>1, <1>2, <2>3, <2>4, <3>2, <3>3, <3>4, KindWritten DEF Ends
  <2>7. P!Ask(c).on \in P!Kinds /\ OneRow(P!Ask(c).on, r)
    BY <1>2, <2>3
  <2>8. pStatus' \in P!Statuses
    BY <1>1 DEF DInv, DTyped, P!TypeOK
  <2>. QED  BY <1>1, <2>5, <2>6, <2>7, <2>8, KindCommits
<1>. QED  BY <1>3, <1>4

\* A deleted document was live, and so its attachments have their files.
LEMMA DDeletes ==
    ASSUME DInv, NEW c \in Clients, P!DeleteDocument(c) \/ P!DeleteSpecification(c)
    PROVE  DInv'
<1>1. PICK x \in P!Kinds : /\ pRow' = P!Deleted(x)
                         /\ x = P!Ask(c).on
  <2>1. CASE P!DeleteDocument(c)
    BY <2>1, HeldShape DEF P!DeleteDocument, P!At, PAskFits, P!Kinds
  <2>2. CASE P!DeleteSpecification(c)
    BY <2>2, HeldShape DEF P!DeleteSpecification, P!At, PAskFits, P!Kinds
  <2>. QED  BY <2>1, <2>2
<1>2. /\ pCalls[c].at = "held" /\ P!Ask(c).op \in {"delete", "discard"} /\ Ends(c)
      /\ UNCHANGED <<pNow, pBody, pRevision, pKey, pStore, pLink, pStatus, pRemark, pDraft>>
  BY DEF P!DeleteDocument, P!DeleteSpecification, P!At, P!Done, Ends, P!files, P!review
<1>3. P!Live(x)
  BY <1>1, <1>2, HeldShape DEF Ground, P!Versioned
<1>4. PICK r \in P!Row : OneRow(x, r) /\ r.state = "deleted" /\ r.version = pRow[x].version + 1
  BY <1>1, DeletedIs DEF DInv
<1>5. VersionsFit' /\ P!ReachableFileIsThere' /\ P!DocumentHasItsRevision'
  <2>0. PICK N : N = {}
    OBVIOUS
  <2>1. pRevision' = pRevision \cup N /\ (\A e \in N : e[1] = x /\ e[2] = r.version) /\ \A e, g \in N : e = g
    BY <1>2, <2>0
  <2>2. x = "document" => \A f \in Files : P!Reachable(f) => pKey[f] \in pStore
    BY <1>3, FilesAreThere DEF P!Reachable
  <2>3. r.state # "absent" /\ r.state # "live" /\ pNow' = pNow /\ pKey' = pKey /\ pStore' = pStore /\ pBody' = pBody
    BY <1>2, <1>4
  <2>. QED  BY <1>4, <2>1, <2>2, <2>3, KindWritten
<1>6. pBody' \in [P!Kinds -> P!Texts] /\ pRevision' \subseteq P!Revision /\ pStatus' \in P!Statuses
  BY <1>2 DEF DInv, DTyped, P!TypeOK
<1>. QED  BY <1>1, <1>2, <1>4, <1>5, <1>6, KindCommits

\* A new text of a specification, or a new status, is its next revision.
LEMMA DRespecifies ==
    ASSUME DInv, NEW c \in Clients, P!UpdateSpecification(c) \/ P!SetStatus(c)
    PROVE  DInv'
<1>1. /\ pCalls[c].at = "held" /\ Ends(c) /\ P!Ask(c).op \in {"respecify", "judge"}
      /\ UNCHANGED <<pNow, pKey, pStore, pLink, pRemark, pDraft>> /\ pRow' = P!Changed("specification")
  BY DEF P!UpdateSpecification, P!SetStatus, P!At, P!Done, Ends, P!files
<1>2. /\ PAskFits(P!Ask(c)) /\ P!Ask(c).on = "specification" /\ "specification" \in P!Kinds
      /\ P!Live("specification")
  BY <1>1, HeldShape DEF PAskFits, Ground, P!Versioned, P!Kinds
<1>3. PICK r \in P!Row : OneRow("specification", r) /\ r.state = pRow["specification"].state
                       /\ r.version = pRow["specification"].version + 1
  BY <1>1, <1>2, ChangedIs DEF DInv, DTyped
<1>4. r.version \in Nat /\ r.state = "live"
  BY <1>2, <1>3 DEF P!Row, P!Live
<1>5. PICK t \in P!Texts, s \in P!Statuses :
        /\ pRevision' = pRevision \cup {<<"specification", r.version, <<t, s>>>>}
        /\ pStatus' = s /\ pBody' = [pBody EXCEPT !["specification"] = t]
  <2>1. pBody \in [P!Kinds -> P!Texts] /\ pStatus \in P!Statuses /\ "draft" \in P!Statuses
    BY DEF DInv, DTyped, P!TypeOK, P!Statuses
  <2>2. CASE P!UpdateSpecification(c)
    <3>1. P!Ask(c).text \in P!Texts
      BY <1>2, <2>2 DEF P!UpdateSpecification, P!At, PAskFits
    <3>2. PICK t \in P!Texts : t = P!Ask(c).text
      BY <3>1
    <3>3. PICK s \in P!Statuses : s = IF pStatus = "approved" THEN "draft" ELSE pStatus
      BY <2>1
    <3>. QED  BY <1>3, <2>2, <3>2, <3>3 DEF P!UpdateSpecification, P!Record
  <2>3. CASE P!SetStatus(c)
    <3>1. P!Ask(c).status \in P!Statuses
      BY <1>2, <2>3 DEF P!SetStatus, P!At, PAskFits
    <3>2. PICK t \in P!Texts : t = pBody["specification"]
      BY <1>2, <2>1
    <3>3. pBody' = [pBody EXCEPT !["specification"] = t]
      BY <2>1, <2>3, <3>2 DEF P!SetStatus
    <3>. QED  BY <1>3, <2>3, <3>1, <3>2, <3>3 DEF P!SetStatus, P!Record
  <2>. QED  BY <2>2, <2>3
<1>6. /\ pBody' \in [P!Kinds -> P!Texts] /\ pBody'["document"] = pBody["document"]
      /\ pRevision' \subseteq P!Revision /\ pStatus' \in P!Statuses
  BY <1>2, <1>4, <1>5, Revises DEF DInv, DTyped, P!TypeOK, P!Kinds
<1>7. VersionsFit' /\ P!ReachableFileIsThere' /\ P!DocumentHasItsRevision'
  <2>1. PICK N : N = {<<"specification", r.version, <<t, s>>>>}
    OBVIOUS
  <2>2. pRevision' = pRevision \cup N /\ (\A e \in N : e[1] = "specification" /\ e[2] = r.version) /\ \A e, g \in N : e = g
    BY <1>5, <2>1
  <2>. QED  BY <1>1, <1>2, <1>3, <1>4, <1>6, <2>2, KindWritten
<1>8. OneRow(P!Ask(c).on, r) /\ P!Ask(c).on \in P!Kinds
  BY <1>2, <1>3
<1>. QED  BY <1>1, <1>6, <1>7, <1>8, KindCommits

-----------------------------------------------------------------------------
(* Attachments.                                                             *)
LEMMA Free ==
    ASSUME PCallsFit, NEW c \in Clients, P!CanLock(c), PAskFits(P!Ask(c)), P!Ask(c).on \in Files, SpecificationStays
    PROVE  LeavesOthers(c)
<1>. SUFFICES ASSUME NEW x \in Clients \ {c}, pCalls[x].at = "held"
              PROVE  Side(P!Ask(x)) = "specification"
  BY DEF LeavesOthers
<1>1. Side(P!Ask(c)) # Side(P!Ask(x)) /\ Side(P!Ask(c)) = "document"
  BY SideIsFree, DocumentsAssumption DEF Side, P!Kinds
<1>. QED  BY <1>1 DEF Side

\* The key of an upload that has not ended is no attachment's.
LEMMA KeyIsOwn ==
    ASSUME DInv, NEW c \in Clients, pCalls[c].at # "done", NEW x, NEW f \in Files
    PROVE  pKey[f] # <<x, c>> \/ (pKey[f] = None /\ x \notin Files)
<1>1. KeyFits(f)
  BY DEF DInv, KeysFit
<1>2. CASE pKey[f] = None
  BY <1>2, DocumentsAssumption
<1>3. CASE \E y \in Clients \cup {None} : pKey[f] = <<f, y>> /\ (y \in Clients => pCalls[y].at = "done")
  BY <1>3, DocumentsAssumption
<1>. QED  BY <1>1, <1>2, <1>3 DEF KeyFits

LEMMA DPuts ==
    ASSUME DInv, NEW c \in Clients, P!Put(c)
    PROVE  DInv'
<1>1. /\ pCalls[c].at = "held" /\ P!Ask(c).op = "upload" /\ pStore' = pStore \cup {P!KeyOf(c)}
      /\ UNCHANGED <<pNow, pRow, pBody, pRevision, pKey, pLink, pStatus, pRemark, pDraft>>
      /\ pCalls' = [pCalls EXCEPT ![c].at = "put"]
  BY DEF P!Put, P!At, P!Goto, P!rows, P!review
<1>2. PCallFits(c) /\ PCallsFit /\ PUnder(c)
  BY <1>1, CallShape DEF DInv, DTyped, PUnder
<1>3. PICK d, s, t : pCalls[c] = [at |-> "held", ask |-> d, seen |-> s, from |-> t] /\ d = P!Ask(c) /\ t = pCalls[c].from
  BY <1>1, <1>2 DEF PCallFits
<1>4. pCalls'[c] = [at |-> "put", ask |-> d, seen |-> s, from |-> t] /\ PMoves(c) /\ P!Ask(c)' = d
  BY <1>1, <1>2, <1>3 DEF PCallsFit, PMoves, P!Ask
<1>5. PCallFits(c)'
  BY <1>1, <1>2, <1>3, <1>4 DEF PCallFits, PUnder
<1>6. PCallsFit'
  BY <1>2, <1>4, <1>5, CallsStay
<1>7. P!Held(c)' \subseteq P!Held(c)
  BY <1>1, <1>3, <1>4 DEF P!Held
<1>8. PApart'
  BY <1>2, <1>4, <1>7, ApartStays DEF DInv
<1>9. Grounded'
  <2>1. LeavesOthers(c)
    BY <1>1, RowsStand DEF LeavesOthers
  <2>. QED  BY <1>2, <1>4, <2>1, GroundsStay DEF DInv
<1>10. P!KeyOf(c)' = P!KeyOf(c)
  BY <1>3, <1>4 DEF P!KeyOf
<1>11. KeysFit'
  BY <1>1, <1>2, <1>4, <1>10, KeysStay DEF DInv
<1>12. VersionsFit' /\ P!ReachableFileIsThere' /\ P!DocumentHasItsRevision'
  BY <1>1, RowsStay DEF DInv
<1>13. P!TypeOK'
  BY <1>1 DEF DInv, DTyped, P!TypeOK
<1>. QED  BY <1>1, <1>6, <1>8, <1>9, <1>11, <1>12, <1>13 DEF DInv, DTyped

\* A lost upload takes away its own object, which no row names.
LEMMA Drops ==
    ASSUME DInv, NEW c \in Clients, pCalls[c].at = "put", Ends(c), pStore' = pStore \ {P!KeyOf(c)},
           UNCHANGED <<pRow, pBody, pRevision, pKey, pLink, pStatus, pRemark, pDraft>>
    PROVE  DInv'
<1>1. P!Ask(c).on \in Files
  BY CallShape DEF DInv, DTyped, PCallFits, PUnder, PAskFits
<1>2. \A f \in Files : pKey[f] # P!KeyOf(c)
  BY <1>1, KeyIsOwn DEF P!KeyOf
<1>3. LeavesOthers(c)
  BY <1>2 DEF LeavesOthers, SpecificationStays, DocumentStays
<1>4. PCallsFit' /\ PApart' /\ Grounded'
  BY <1>3, Finished DEF DInv, DTyped
<1>5. PMoves(c) /\ pCalls'[c].at = "done" /\ PCallsFit
  BY EndsIsMove DEF DInv, DTyped
<1>6. KeysFit'
  <2>1. \A f \in Files : KeyFits(f)'
    BY <1>5, KeyStays DEF DInv
  <2>2. \A x \in Clients \ {c} : pCalls'[x] = pCalls[x] /\ P!Ask(x)' = P!Ask(x)
    BY <1>5, Others
  <2>3. ASSUME NEW x \in Clients, pCalls'[x].at = "put" PROVE P!KeyOf(x)' \in pStore'
    <3>1. x # c /\ pCalls[x].at = "put" /\ P!KeyOf(x)' = P!KeyOf(x)
      BY <1>5, <2>2, <2>3 DEF P!KeyOf
    <3>2. P!KeyOf(x) \in pStore /\ P!KeyOf(x) # P!KeyOf(c)
      BY <3>1 DEF DInv, KeysFit, P!KeyOf
    <3>. QED  BY <3>1, <3>2
  <2>. QED  BY <2>1, <2>3 DEF DInv, KeysFit
<1>7. VersionsFit' /\ P!DocumentHasItsRevision'
  BY DEF DInv, VersionsFit, P!DocumentHasItsRevision, P!Live
<1>8. P!ReachableFileIsThere'
  BY <1>2 DEF DInv, P!ReachableFileIsThere, P!Reachable, P!Live, P!Expired, Ends
<1>9. P!TypeOK'
  BY DEF DInv, DTyped, P!TypeOK
<1>. QED  BY <1>4, <1>6, <1>7, <1>8, <1>9 DEF DInv, DTyped, Ends

\* A commit on an attachment by a call that keeps its side for itself.
LEMMA FileCommits ==
    ASSUME DInv, NEW c \in Clients, pCalls[c].at # "done", Ends(c), NEW f \in Files, NEW r \in P!Row, OneRow(f, r),
           LeavesOthers(c), pStore' = pStore, KeyFits(f)',
           pKey' = [g \in Files |-> pKey'[g]], \A g \in Files \ {f} : pKey'[g] = pKey[g],
           VersionsFit', P!ReachableFileIsThere', P!DocumentHasItsRevision',
           UNCHANGED <<pBody, pRevision, pLink, pStatus, pRemark, pDraft>>
    PROVE  DInv'
<1>1. /\ pRow' \in [P!Kinds \cup Files -> P!Row] /\ \A y \in (P!Kinds \cup Files) \ {f} : pRow'[y] = pRow[y]
  BY RowTyped DEF DInv, DTyped
<1>2. PCallsFit' /\ PApart' /\ Grounded'
  BY Finished DEF DInv, DTyped
<1>3. PMoves(c) /\ pCalls'[c].at = "done" /\ PCallsFit
  BY EndsIsMove DEF DInv, DTyped
<1>4. KeysFit'
  <2>1. \A g \in Files : KeyFits(g)'
    BY <1>1, <1>3, KeyStays DEF DInv
  <2>2. \A x \in Clients : pCalls'[x].at = "put" => P!KeyOf(x)' \in pStore'
    BY <1>3, Others DEF DInv, KeysFit, P!KeyOf
  <2>. QED  BY <2>1, <2>2 DEF KeysFit
<1>5. P!TypeOK'
  BY <1>1 DEF DInv, DTyped, P!TypeOK
<1>. QED  BY <1>2, <1>4, <1>5 DEF DInv, DTyped, Ends

\* The object of an upload is there when its row is written.
LEMMA DAttaches ==
    ASSUME DInv, NEW c \in Clients, P!Attach(c) \/ P!AttachFails(c)
    PROVE  DInv'
<1>1. /\ pCalls[c].at = "put" /\ Ends(c)
      /\ UNCHANGED <<pNow, pBody, pRevision, pLink, pStatus, pRemark, pDraft>>
  BY DEF P!Attach, P!AttachFails, P!At, P!Done, Ends, P!rows, P!review
<1>2. PICK f \in Files : f = P!Ask(c).on
  BY <1>1, CallShape DEF DInv, DTyped, PCallFits, PUnder, PAskFits
<1>3. CASE pStore' = pStore \ {P!KeyOf(c)} /\ UNCHANGED <<pRow, pKey>>
  BY <1>1, <1>3, Drops
<1>4. CASE /\ P!CanLock(c) /\ P!Live("document") /\ pRow' = [pRow EXCEPT ![f] = [state |-> "live", at |-> 0, version |-> 0]]
           /\ pKey' = [pKey EXCEPT ![f] = P!KeyOf(c)] /\ UNCHANGED pStore
  <2>1. PICK r \in P!Row : OneRow(f, r) /\ r.state = "live" /\ r.version = 0
    <3>1. 0 \in 0..MaxTime /\ 0 \in Nat /\ P!TypeOK
      BY DocumentsAssumption DEF DInv, DTyped
    <3>. QED  BY <1>4, <3>1, CreatedIs
  <2>2. pRow'[f] = r /\ \A y \in (P!Kinds \cup Files) \ {f} : pRow'[y] = pRow[y]
    BY <2>1, RowTyped DEF DInv, DTyped
  <2>3. /\ pKey' = [g \in Files |-> pKey'[g]] /\ pKey'[f] = <<f, c>> /\ \A g \in Files \ {f} : pKey'[g] = pKey[g]
    BY <1>2, <1>4 DEF DInv, KeysFit, P!KeyOf
  <2>4. <<f, c>> \in pStore
    BY <1>1, <1>2 DEF DInv, KeysFit, P!KeyOf
  <2>5. VersionsFit' /\ P!ReachableFileIsThere' /\ P!DocumentHasItsRevision'
    <3>1. pRow["document"].state # "absent" /\ pKey'[f] \in pStore'
      BY <1>4, <2>3, <2>4 DEF P!Live
    <3>2. \A g \in Files \ {f} : P!Reachable(g) /\ pKey[g] \in pStore => pKey'[g] \in pStore'
      BY <1>4, <2>3
    <3>. QED  BY <1>1, <2>1, <3>1, <3>2, FileWritten
  <2>6. KeyFits(f)'
    <3>1. pCalls'[c].at = "done"
      BY <1>1, EndsIsMove DEF DInv, DTyped
    <3>. QED  BY <2>1, <2>2, <2>3, <3>1 DEF KeyFits
  <2>7. LeavesOthers(c)
    <3>1. SpecificationStays
      BY <1>1, <2>2, DocumentsAssumption DEF SpecificationStays, P!Kinds
    <3>2. PAskFits(P!Ask(c))
      BY <1>1, CallShape DEF DInv, DTyped, PCallFits, PUnder
    <3>. QED  BY <1>2, <1>4, <3>1, <3>2, Free DEF DInv, DTyped
  <2>. QED  BY <1>1, <1>4, <2>1, <2>3, <2>5, <2>6, <2>7, FileCommits
<1>5. CASE P!AttachFails(c)
  <2>1. pStore' = pStore \ {P!KeyOf(c)} /\ UNCHANGED <<pRow, pKey>>
    BY <1>5 DEF P!AttachFails, P!rows
  <2>. QED  BY <1>3, <2>1
<1>6. CASE P!Attach(c)
  <2>1. CASE P!Live("document") /\ pRow[f].state = "absent" /\ P!Cardinality(P!LiveFiles) < FileLimit
    BY <1>2, <1>4, <1>6, <2>1 DEF P!Attach
  <2>2. CASE ~(P!Live("document") /\ pRow[f].state = "absent" /\ P!Cardinality(P!LiveFiles) < FileLimit)
    BY <1>2, <1>3, <1>6, <2>2 DEF P!Attach
  <2>. QED  BY <2>1, <2>2
<1>. QED  BY <1>5, <1>6

LEMMA DDetaches ==
    ASSUME DInv, NEW c \in Clients, P!Detach(c)
    PROVE  DInv'
<1>1. /\ pCalls[c].at = "held" /\ P!Ask(c).op = "detach" /\ Ends(c)
      /\ UNCHANGED <<pNow, pBody, pRevision, pKey, pStore, pLink, pStatus, pRemark, pDraft>>
  BY DEF P!Detach, P!At, P!Done, Ends, P!files, P!review
<1>2. PICK f \in Files : f = P!Ask(c).on
  BY <1>1, HeldShape DEF PAskFits
<1>3. P!Live(f)
  BY <1>1, <1>2, HeldShape DEF Ground
<1>4. PICK r \in P!Row : OneRow(f, r) /\ r.state = "deleted" /\ r.version = pRow[f].version
  BY <1>2, DetachedIs DEF DInv, P!Detach
<1>5. pRow'[f] = r /\ \A y \in (P!Kinds \cup Files) \ {f} : pRow'[y] = pRow[y]
  BY <1>4, RowTyped DEF DInv, DTyped
<1>6. VersionsFit' /\ P!ReachableFileIsThere' /\ P!DocumentHasItsRevision'
  <2>1. pRow["document"].state # "absent"
    BY <1>3 DEF DInv, VersionsFit, P!Live
  <2>2. P!Reachable("document") => pKey[f] \in pStore
    BY <1>3 DEF DInv, P!ReachableFileIsThere, P!Reachable
  <2>. QED  BY <1>1, <1>4, <2>1, <2>2, FileWritten DEF Ends
<1>7. KeyFits(f)'
  <2>1. KeyFits(f) /\ PCallsFit
    BY DEF DInv, DTyped, KeysFit
  <2>2. \A x \in Clients : pCalls[x].at = "done" => pCalls'[x].at = "done"
    BY <1>1, <2>1, EndsIsMove, Others
  <2>. QED  BY <1>1, <1>3, <1>4, <1>5, <2>1, <2>2 DEF KeyFits, P!Live
<1>8. LeavesOthers(c)
  <2>1. SpecificationStays /\ Side(P!Ask(c)) = "document"
    BY <1>1, <1>2, <1>5, DocumentsAssumption DEF SpecificationStays, P!Kinds, Side
  <2>. QED  BY <1>1, <2>1, Alone DEF DInv, DTyped
<1>9. pKey' = [g \in Files |-> pKey'[g]] /\ \A g \in Files \ {f} : pKey'[g] = pKey[g]
  BY <1>1 DEF DInv, KeysFit
<1>. QED  BY <1>1, <1>4, <1>6, <1>7, <1>8, <1>9, FileCommits

-----------------------------------------------------------------------------
(* The trash.  What is purged is out of reach, and its object was nobody    *)
(* else's; what is restored has kept its files while its rows were locked.  *)
LEMMA DRestores ==
    ASSUME DInv, NEW c \in Clients, P!Restore(c)
    PROVE  DInv'
<1>1. /\ pCalls[c].at = "held" /\ P!Ask(c).op = "restore" /\ Ends(c)
      /\ UNCHANGED <<pNow, pBody, pKey, pStore, pLink, pStatus, pRemark, pDraft>>
  BY DEF P!Restore, P!At, P!Done, Ends, P!files, P!review
<1>2. PICK x \in P!Kinds \cup Files : x = P!Ask(c).on
  BY <1>1, HeldShape
<1>3. pRow[x].state = "deleted" /\ FilesKept(x) /\ \A p \in P!Parent(x) : P!Live(p)
  BY <1>1, <1>2, HeldShape DEF Ground
<1>4. pRow' = P!Restored(x) /\ pRevision' = P!RestoredRevision(x)
  BY <1>2 DEF P!Restore
<1>5. PICK r \in P!Row : /\ OneRow(x, r) /\ r.state = "live"
                       /\ r.version = IF x \in Files THEN pRow[x].version ELSE pRow[x].version + 1
  BY <1>4, RestoredIs, DocumentsAssumption DEF DInv, DTyped
<1>6. pRow'[x] = r /\ \A y \in (P!Kinds \cup Files) \ {x} : pRow'[y] = pRow[y]
  BY <1>5, RowTyped DEF DInv, DTyped
<1>7. CASE x \in Files
  <2>1. x # "document" /\ x # "specification" /\ P!Live("document") /\ pKey[x] \in pStore
    BY <1>3, <1>7, DocumentsAssumption DEF P!Kinds, P!Parent, FilesKept
  <2>2. pRevision' = pRevision
    BY <1>4, <2>1 DEF P!RestoredRevision
  <2>3. VersionsFit' /\ P!ReachableFileIsThere' /\ P!DocumentHasItsRevision'
    <3>1. pRow["document"].state # "absent" /\ pKey'[x] \in pStore'
      BY <1>1, <2>1 DEF P!Live
    <3>. QED  BY <1>1, <1>5, <1>7, <2>2, <3>1, FileWritten
  <2>4. KeyFits(x)'
    <3>1. KeyFits(x) /\ PCallsFit
      BY <1>7 DEF DInv, DTyped, KeysFit
    <3>2. \A y \in Clients : pCalls[y].at = "done" => pCalls'[y].at = "done"
      BY <1>1, <3>1, EndsIsMove, Others
    <3>. QED  BY <1>1, <1>3, <1>5, <1>6, <3>1, <3>2 DEF KeyFits
  <2>5. LeavesOthers(c)
    <3>1. SpecificationStays /\ Side(P!Ask(c)) = "document"
      BY <1>1, <1>2, <1>6, <2>1 DEF SpecificationStays, P!Kinds, Side
    <3>. QED  BY <1>1, <3>1, Alone DEF DInv, DTyped
  <2>6. pKey' = [g \in Files |-> pKey'[g]] /\ \A g \in Files \ {x} : pKey'[g] = pKey[g]
    BY <1>1 DEF DInv, KeysFit
  <2>. QED  BY <1>1, <1>5, <1>7, <2>2, <2>3, <2>4, <2>5, <2>6, FileCommits
<1>8. CASE x \in P!Kinds
  <2>1. r.version = pRow[x].version + 1 /\ r.version \in Nat
    BY <1>5, <1>8, DocumentsAssumption DEF P!Row
  <2>2. PICK N : N = IF x = "document" THEN {<<x, r.version, pBody[x]>>} ELSE {}
    OBVIOUS
  <2>3. pRevision' = pRevision \cup N /\ (\A e \in N : e[1] = x /\ e[2] = r.version) /\ \A e, g \in N : e = g
    BY <1>4, <2>1, <2>2 DEF P!RestoredRevision
  <2>4. VersionsFit' /\ P!ReachableFileIsThere' /\ P!DocumentHasItsRevision'
    <3>1. x = "document" => <<x, r.version, pBody'[x]>> \in pRevision'
      BY <1>1, <2>2, <2>3
    <3>2. x = "document" => \A f \in Files : P!Reachable(f) => pKey[f] \in pStore
      BY <1>3 DEF FilesKept
    <3>. QED  BY <1>1, <1>5, <1>8, <2>1, <2>3, <3>1, <3>2, KindWritten
  <2>5. pBody' \in [P!Kinds -> P!Texts] /\ pRevision' \subseteq P!Revision /\ pStatus' \in P!Statuses
    <3>1. pBody[x] \in P!Texts
      BY <1>8 DEF DInv, DTyped, P!TypeOK
    <3>2. N \subseteq P!Revision
      BY <2>1, <2>2, <3>1, Revises DEF P!Statuses
    <3>. QED  BY <1>1, <2>3, <3>2 DEF DInv, DTyped, P!TypeOK
  <2>. QED  BY <1>1, <1>2, <1>5, <1>8, <2>4, <2>5, KindCommits
<1>. QED  BY <1>7, <1>8

LEMMA Doomed ==
    ASSUME DInv, NEW c \in Clients, pCalls[c].at = "held", P!Ask(c).op = "purge"
    PROVE  /\ P!Ask(c).on \in P!Kinds \cup Files /\ pRow[P!Ask(c).on].state = "deleted" /\ ~P!Reachable(P!Ask(c).on)
           /\ PAskFits(P!Ask(c))
BY HeldShape DEF Ground

LEMMA OwnedKey ==
    ASSUME DInv, NEW x, x \in P!Kinds \cup Files, pRow[x].state = "deleted", NEW k \in P!OwnedKeys(x)
    PROVE  \E f \in P!Owned(x) \cap Files, y \in Clients \cup {None} :
              k = <<f, y>> /\ k = pKey[f] /\ (y \in Clients => pCalls[y].at = "done")
<1>1. PICK f \in P!Owned(x) \cap Files : k = pKey[f] /\ k # None
  BY DEF P!OwnedKeys
<1>2. KeyFits(f)
  BY <1>1 DEF DInv, KeysFit
<1>. QED  BY <1>1, <1>2 DEF KeyFits

LEMMA CallsRest ==
    ASSUME PCallsFit, UNCHANGED <<pCalls, pNow>>
    PROVE  PCallsFit'
<1>1. pCalls' = [c \in Clients |-> pCalls'[c]]
  BY DEF PCallsFit
<1>2. \A c \in Clients : PCallFits(c)'
  <2>. SUFFICES ASSUME NEW c \in Clients PROVE PCallFits(c)'
    OBVIOUS
  <2>1. PICK d : d = P!Ask(c)
    OBVIOUS
  <2>2. P!Ask(c)' = d /\ PCallFits(c) /\ pCalls'[c] = pCalls[c] /\ pNow' = pNow
    BY <2>1 DEF P!Ask, PCallsFit
  <2>. QED  BY <2>1, <2>2 DEF PCallFits, PUnder
<1>. QED  BY <1>1, <1>2 DEF PCallsFit

LEMMA DPurgesObject ==
    ASSUME DInv, NEW c \in Clients, P!PurgeObject(c)
    PROVE  DInv'
<1>1. /\ pCalls[c].at = "held" /\ P!Ask(c).op = "purge"
      /\ UNCHANGED <<pNow, pRow, pBody, pRevision, pKey, pLink, pStatus, pRemark, pDraft, pCalls>>
  BY DEF P!PurgeObject, P!At, P!rows, P!review
<1>2. PICK x \in P!Kinds \cup Files : x = P!Ask(c).on
  BY <1>1, Doomed
<1>3. pRow[x].state = "deleted" /\ ~P!Reachable(x)
  BY <1>1, <1>2, Doomed
<1>4. PICK k \in P!OwnedKeys(x) : pStore' = pStore \ {k}
  BY <1>2 DEF P!PurgeObject
<1>5. PICK f \in P!Owned(x) \cap Files, y \in Clients \cup {None} :
        k = <<f, y>> /\ k = pKey[f] /\ (y \in Clients => pCalls[y].at = "done")
  BY <1>3, OwnedKey
<1>6. x # "specification"
  BY <1>5, DocumentsAssumption DEF P!Owned, P!Kinds
<1>7. PCallsFit' /\ PApart' /\ P!TypeOK' /\ VersionsFit' /\ P!DocumentHasItsRevision'
  <2>1. \A z \in Clients : P!Ask(z)' = P!Ask(z) /\ PUnder(z)' = PUnder(z) /\ P!Held(z)' = P!Held(z)
    BY <1>1 DEF P!Ask, PUnder, P!Held
  <2>2. PCallsFit'
    BY <1>1, <2>1, CallsRest DEF DInv, DTyped
  <2>3. PApart'
    BY <2>1 DEF DInv, PApart
  <2>4. P!TypeOK'
    BY <1>1 DEF DInv, DTyped, P!TypeOK
  <2>5. VersionsFit' /\ P!DocumentHasItsRevision'
    BY <1>1 DEF DInv, VersionsFit, P!DocumentHasItsRevision, P!Live
  <2>. QED  BY <2>2, <2>3, <2>4, <2>5
<1>8. Grounded'
  <2>. SUFFICES ASSUME NEW z \in Clients, pCalls[z].at = "held" PROVE Ground(z)'
    BY <1>1 DEF Grounded
  <2>1. CASE z = c
    <3>1. PICK d : d = P!Ask(c)
      OBVIOUS
    <3>2. P!Ask(c)' = d /\ d.op = "purge" /\ d.on = x /\ d = P!Ask(c)
      BY <1>1, <1>2, <3>1 DEF P!Ask
    <3>3. pRow'[x].state = "deleted" /\ ~P!Reachable(x)'
      BY <1>1, <1>3 DEF P!Reachable, P!Live, P!Expired
    <3>. QED  BY <2>1, <3>2, <3>3 DEF Ground, P!Versioned
  <2>2. CASE z # c
    <3>1. Side(P!Ask(c)) = "document" /\ Side(P!Ask(z)) # Side(P!Ask(c))
      BY <1>1, <1>2, <1>6, <2>2, OneEachSide DEF DInv, DTyped, Side
    <3>2. SpecificationStays
      BY <1>1 DEF SpecificationStays
    <3>. QED  BY <1>1, <3>1, <3>2, GroundStays DEF DInv, DTyped, Grounded
  <2>. QED  BY <2>1, <2>2
<1>9. KeysFit'
  <2>1. \A g \in Files : KeyFits(g)'
    BY <1>1 DEF DInv, KeysFit, KeyFits
  <2>2. \A z \in Clients : pCalls[z].at = "put" => P!KeyOf(z) \in pStore /\ P!KeyOf(z) # k
    BY <1>5 DEF DInv, KeysFit, P!KeyOf
  <2>. QED  BY <1>1, <1>4, <2>1, <2>2 DEF DInv, KeysFit, P!KeyOf, P!Ask
<1>10. P!ReachableFileIsThere'
  <2>. SUFFICES ASSUME NEW g \in Files, P!Reachable(g), P!Reachable("document") PROVE pKey[g] \in pStore'
    BY <1>1 DEF P!ReachableFileIsThere, P!Reachable, P!Live, P!Expired
  <2>1. pKey[g] \in pStore
    BY DEF DInv, P!ReachableFileIsThere
  <2>2. x \in Files /\ f = x
    BY <1>3, <1>5, <1>6 DEF P!Kinds, P!Owned
  <2>3. g # f /\ KeyFits(g) /\ pRow[g].state \in {"live", "deleted"}
    BY <1>3, <2>2 DEF DInv, KeysFit, P!Reachable, P!Live
  <2>4. pKey[g] # k
    BY <1>5, <2>3 DEF KeyFits
  <2>. QED  BY <1>4, <2>1, <2>4
<1>. QED  BY <1>1, <1>7, <1>8, <1>9, <1>10 DEF DInv, DTyped

LEMMA PurgedIs ==
    ASSUME P!TypeOK, NEW O, pRow' = [r \in DOMAIN pRow |-> IF r \in O THEN [pRow[r] EXCEPT !.state = "purged"] ELSE pRow[r]]
    PROVE  /\ pRow' \in [P!Kinds \cup Files -> P!Row]
           /\ \A y \in P!Kinds \cup Files :
                 /\ y \in O => pRow'[y].state = "purged" /\ pRow'[y].version = pRow[y].version
                 /\ y \notin O => pRow'[y] = pRow[y]
<1>1. \A y \in P!Kinds \cup Files : pRow'[y] \in P!Row /\ (y \in O => pRow'[y].state = "purged" /\ pRow'[y].version = pRow[y].version)
  <2>. SUFFICES ASSUME NEW y \in P!Kinds \cup Files
                PROVE  pRow'[y] \in P!Row /\ (y \in O => pRow'[y].state = "purged" /\ pRow'[y].version = pRow[y].version)
    OBVIOUS
  <2>1. PICK q \in P!Row : q = pRow[y]
    BY DEF P!TypeOK
  <2>2. PICK n : n = [q EXCEPT !.state = "purged"]
    OBVIOUS
  <2>3. n \in P!Row /\ n.state = "purged" /\ n.version = q.version
    BY <2>2 DEF P!Row
  <2>4. pRow'[y] = IF y \in O THEN n ELSE q
    BY <2>1, <2>2 DEF P!TypeOK
  <2>. QED  BY <2>1, <2>3, <2>4
<1>. QED  BY <1>1 DEF P!TypeOK

LEMMA DPurges ==
    ASSUME DInv, NEW c \in Clients, P!Purge(c)
    PROVE  DInv'
<1>1. /\ pCalls[c].at = "held" /\ P!Ask(c).op = "purge" /\ Ends(c)
      /\ UNCHANGED <<pNow, pBody, pStore, pStatus, pDraft>>
  BY DEF P!Purge, P!At, P!Done, Ends
<1>2. PICK x \in P!Kinds \cup Files : x = P!Ask(c).on
  BY <1>1, Doomed
<1>3. pRow[x].state = "deleted" /\ ~P!Reachable(x)
  BY <1>1, <1>2, Doomed
<1>4. /\ pRow' = [r \in DOMAIN pRow |-> IF r \in P!Owned(x) THEN [pRow[r] EXCEPT !.state = "purged"] ELSE pRow[r]]
      /\ pRevision' = {e \in pRevision : e[1] # x}
      /\ pKey' = [f \in Files |-> IF f \in P!Owned(x) THEN None ELSE pKey[f]]
      /\ pLink' = [k \in P!Kinds |-> IF k = x THEN {} ELSE pLink[k]]
      /\ pRemark' = IF x = "specification" THEN [k \in Notices |-> [state |-> "absent", version |-> 0]] ELSE pRemark
  BY <1>2 DEF P!Purge
<1>5. /\ pRow' \in [P!Kinds \cup Files -> P!Row]
      /\ \A y \in P!Kinds \cup Files :
            /\ y \in P!Owned(x) => pRow'[y].state = "purged" /\ pRow'[y].version = pRow[y].version
            /\ y \notin P!Owned(x) => pRow'[y] = pRow[y]
  BY <1>4, PurgedIs DEF DInv, DTyped
<1>6. /\ x \in P!Owned(x) /\ P!Owned(x) \subseteq P!Kinds \cup Files
      /\ x # "document" => P!Owned(x) = {x}
      /\ \A k \in P!Kinds \ {x} : k \notin P!Owned(x)
  BY <1>2, DocumentsAssumption DEF P!Owned
<1>7. P!TypeOK'
  <2>1. pRevision' \subseteq P!Revision /\ pLink' \in P!Links
    BY <1>4 DEF DInv, DTyped, P!TypeOK, P!Links
  <2>2. pRemark' \in [Notices -> P!Remark]
    BY <1>4 DEF DInv, DTyped, P!TypeOK, P!Remark
  <2>. QED  BY <1>1, <1>5, <2>1, <2>2 DEF DInv, DTyped, P!TypeOK
<1>8. LeavesOthers(c)
  <2>1. CASE x = "specification"
    <3>1. \A y \in {"document"} \cup Files : y \notin P!Owned(x)
      BY <1>6, <2>1, DocumentsAssumption DEF P!Kinds
    <3>2. pKey' = pKey
      BY <1>4, <3>1 DEF DInv, KeysFit
    <3>3. DocumentStays
      BY <1>1, <1>5, <3>1, <3>2 DEF DocumentStays, P!Kinds
    <3>. QED  BY <1>1, <1>2, <2>1, <3>3, Alone DEF DInv, DTyped, Side
  <2>2. CASE x # "specification"
    <3>1. SpecificationStays
      BY <1>4, <1>5, <1>6, <2>2 DEF SpecificationStays, P!Kinds
    <3>. QED  BY <1>1, <1>2, <2>2, <3>1, Alone DEF DInv, DTyped, Side
  <2>. QED  BY <2>1, <2>2
<1>9. PCallsFit' /\ PApart' /\ Grounded'
  BY <1>1, <1>8, Finished DEF DInv, DTyped
<1>10. KeysFit'
  <2>1. PMoves(c) /\ pCalls'[c].at = "done" /\ PCallsFit /\ KeysFit
    BY <1>1, EndsIsMove DEF DInv, DTyped
  <2>2. \A f \in Files : KeyFits(f)'
    <3>. SUFFICES ASSUME NEW f \in Files PROVE KeyFits(f)'
      OBVIOUS
    <3>1. CASE f \in P!Owned(x)
      BY <1>4, <1>5, <3>1 DEF KeyFits
    <3>2. CASE f \notin P!Owned(x)
      BY <1>1, <1>4, <1>5, <2>1, <3>2, KeyStays
    <3>. QED  BY <3>1, <3>2
  <2>3. \A z \in Clients : pCalls'[z].at = "put" => P!KeyOf(z)' \in pStore'
    BY <1>1, <2>1, Others DEF KeysFit, P!KeyOf
  <2>. QED  BY <1>4, <2>2, <2>3 DEF KeysFit
<1>11. VersionsFit'
  <2>1. pRow["document"].state = "absent" => x \notin Files
    BY <1>3 DEF DInv, VersionsFit
  <2>2. pRow'["document"].state = "absent" => \A f \in Files : pRow'[f].state = "absent"
    <3>. SUFFICES ASSUME pRow'["document"].state = "absent", NEW f \in Files PROVE pRow'[f].state = "absent"
      OBVIOUS
    <3>1. "document" \notin P!Owned(x) /\ pRow["document"].state = "absent"
      BY <1>5 DEF P!Kinds
    <3>2. x # "document" /\ x \notin Files /\ f \notin P!Owned(x)
      BY <1>6, <2>1, <3>1
    <3>. QED  BY <1>5, <3>1, <3>2 DEF DInv, VersionsFit
  <2>3. \A k \in P!Kinds : pRow'[k].state = "absent" => pRow'[k].version = 0
    BY <1>5 DEF DInv, VersionsFit
  <2>4. \A e \in pRevision' : e[2] \in 1..pRow'[e[1]].version
    <3>1. \A e \in pRevision : e[1] \in P!Kinds
      BY DEF DInv, DTyped, P!TypeOK, P!Revision, P!Kinds
    <3>2. \A k \in P!Kinds : pRow'[k].version = pRow[k].version
      BY <1>5
    <3>. QED  BY <1>4, <3>1, <3>2 DEF DInv, VersionsFit
  <2>. QED  BY <2>2, <2>3, <2>4 DEF VersionsFit
<1>12. P!ReachableFileIsThere'
  <2>. SUFFICES ASSUME NEW f \in Files, P!Reachable(f)', P!Reachable("document")' PROVE pKey'[f] \in pStore'
    BY DEF P!ReachableFileIsThere
  <2>1. f \notin P!Owned(x) /\ "document" \notin P!Owned(x)
    BY <1>5 DEF P!Reachable, P!Live, P!Kinds
  <2>2. P!Reachable(f) /\ P!Reachable("document")
    BY <1>1, <1>5, <2>1 DEF P!Reachable, P!Live, P!Expired, P!Kinds
  <2>. QED  BY <1>1, <1>4, <2>1, <2>2 DEF DInv, P!ReachableFileIsThere
<1>13. P!DocumentHasItsRevision'
  <2>1. P!Live("document")' => x # "document" /\ P!Live("document") /\ pRow'["document"] = pRow["document"]
    BY <1>5, <1>6 DEF P!Live, P!Kinds
  <2>. QED  BY <1>1, <1>4, <2>1 DEF DInv, P!DocumentHasItsRevision
<1>. QED  BY <1>1, <1>7, <1>9, <1>10, <1>11, <1>12, <1>13 DEF DInv, DTyped, Ends

-----------------------------------------------------------------------------
(* Every step.                                                              *)
LEMMA DKept ==
    ASSUME DInv, [P!Next]_(P!vars)
    PROVE  DInv'
<1>1. CASE UNCHANGED P!vars
  <2>1. UNCHANGED <<pNow, pRow, pBody, pRevision, pKey, pStore, pLink, pStatus, pRemark, pDraft, pCalls>>
    BY <1>1 DEF P!vars
  <2>2. DTyped' /\ PApart'
    <3>1. \A z \in Clients : P!Ask(z)' = P!Ask(z) /\ P!Held(z)' = P!Held(z)
      BY <2>1 DEF P!Ask, P!Held
    <3>2. P!TypeOK'
      BY <2>1 DEF DInv, DTyped, P!TypeOK
    <3>3. PCallsFit'
      BY <2>1, CallsRest DEF DInv, DTyped
    <3>4. PApart'
      BY <3>1 DEF DInv, PApart
    <3>. QED  BY <2>1, <3>2, <3>3, <3>4 DEF DInv, DTyped
  <2>5. VersionsFit' /\ P!DocumentHasItsRevision'
    BY <2>1 DEF DInv, VersionsFit, P!DocumentHasItsRevision, P!Live
  <2>6. P!ReachableFileIsThere'
    BY <2>1 DEF DInv, P!ReachableFileIsThere, P!Reachable, P!Live, P!Expired
  <2>3. KeysFit'
    BY <2>1 DEF DInv, KeysFit, KeyFits, P!KeyOf, P!Ask
  <2>4. Grounded'
    BY <2>1 DEF DInv, Grounded, Ground, P!Ask, FilesKept, P!Reachable, P!Live, P!Expired
  <2>. QED  BY <2>2, <2>3, <2>4, <2>5, <2>6 DEF DInv
<1>2. CASE P!Tick
  BY <1>2, DTicks
<1>3. CASE P!CreateDocument
  BY <1>3, DCreatesDocument
<1>4. CASE P!CreateSpecification
  BY <1>4, DCreatesSpecification
<1>5. ASSUME NEW c \in Clients, P!Read(c) \/ P!Take(c) \/ P!Refuse(c) PROVE DInv'
  BY <1>5, DReads, DTakes, DRefuses
<1>6. ASSUME NEW c \in Clients, P!DocumentWork(c) PROVE DInv'
  BY <1>6, DUpdatesDocument, DDeletes, DLinks DEF P!DocumentWork
<1>7. ASSUME NEW c \in Clients, P!AttachmentWork(c) PROVE DInv'
  BY <1>7, DPuts, DAttaches, DDetaches DEF P!AttachmentWork
<1>8. ASSUME NEW c \in Clients, P!SpecificationWork(c) PROVE DInv'
  BY <1>8, DRespecifies, DDeletes, DRemarks DEF P!SpecificationWork
<1>9. ASSUME NEW c \in Clients, P!TrashWork(c) PROVE DInv'
  BY <1>9, DRestores, DPurgesObject, DPurges DEF P!TrashWork
<1>10. ASSUME NEW c \in Clients, P!DraftWork(c) PROVE DInv'
  BY <1>10, DDrafts
<1>. QED  BY <1>1, <1>2, <1>3, <1>4, <1>5, <1>6, <1>7, <1>8, <1>9, <1>10 DEF P!Next

\* What a step may not do.
ApprovalStep == pStatus' = "approved" /\ pStatus # "approved" => \A k \in Notices : pRemark'[k].state # "open"
RestoreStep == \A f \in Files : pRow[f].state = "deleted" /\ pRow'[f].state = "live" => P!Live("document")

LEMMA ApprovesWhatStands ==
    ASSUME DInv, [P!Next]_(P!vars)
    PROVE  [ApprovalStep]_(P!vars)
<1>. SUFFICES ASSUME NEW c \in Clients, P!SetStatus(c), pStatus' = "approved"
              PROVE  \A k \in Notices : pRemark'[k].state # "open"
  <2>1. CASE pStatus' = pStatus
    BY <2>1 DEF ApprovalStep
  <2>2. CASE \E c \in Clients : P!UpdateSpecification(c)
    BY <2>2 DEF ApprovalStep, P!UpdateSpecification
  <2>3. CASE \E c \in Clients : P!SetStatus(c)
    BY <2>3 DEF ApprovalStep
  <2>4. UNCHANGED P!vars \/ P!Tick \/ P!CreateDocument \/ P!CreateSpecification => pStatus' = pStatus
    BY DEF P!vars, P!Tick, P!CreateDocument, P!CreateSpecification, P!review
  <2>5. \A c \in Clients : P!Read(c) \/ P!Take(c) \/ P!Refuse(c) \/ P!DocumentWork(c) => pStatus' = pStatus
    BY DEF P!Read, P!Take, P!Refuse, P!DocumentWork, P!UpdateDocument, P!DeleteDocument, P!AddLink, P!DeleteLink, P!review
  <2>6. \A c \in Clients : P!AttachmentWork(c) \/ P!TrashWork(c) \/ P!DraftWork(c) => pStatus' = pStatus
    BY DEF P!AttachmentWork, P!Put, P!Attach, P!AttachFails, P!Detach, P!TrashWork, P!Restore, P!PurgeObject, P!Purge,
           P!DraftWork, P!SaveDraft, P!DeleteDraft, P!ExpireDrafts, P!review
  <2>7. \A c \in Clients : P!SpecificationWork(c) => pStatus' = pStatus \/ P!UpdateSpecification(c) \/ P!SetStatus(c)
    BY DEF P!SpecificationWork, P!DeleteSpecification, P!AddRemark, P!Resolve, P!review
  <2>. QED  BY <2>1, <2>2, <2>3, <2>4, <2>5, <2>6, <2>7 DEF P!Next
<1>1. pCalls[c].at = "held" /\ P!Ask(c).op = "judge" /\ P!Ask(c).status = "approved" /\ pRemark' = pRemark
  BY DEF P!SetStatus, P!At
<1>2. \A k \in Notices : pRemark[k].state # "open"
  BY <1>1, HeldShape DEF Ground
<1>. QED  BY <1>1, <1>2

LEMMA RestoresUnderParent ==
    ASSUME DInv, [P!Next]_(P!vars)
    PROVE  [RestoreStep]_(P!vars)
<1>. SUFFICES ASSUME NEW f \in Files, pRow[f].state = "deleted", pRow'[f].state = "live"
              PROVE  P!Live("document")
  BY DEF RestoreStep
<1>. DEFINE Quiet == pRow' = pRow
<1>1. ~Quiet
  OBVIOUS
<1>2. pRow \in [P!Kinds \cup Files -> P!Row] /\ f \in P!Kinds \cup Files /\ f \notin P!Kinds
  BY DocumentsAssumption DEF DInv, DTyped, P!TypeOK
<1>3. UNCHANGED P!vars \/ P!Tick => Quiet
  BY DEF P!vars, P!Tick, P!rows
<1>4. P!CreateDocument \/ P!CreateSpecification => pRow'[f] = pRow[f]
  BY <1>2 DEF P!CreateDocument, P!CreateSpecification, P!Kinds
<1>5. \A c \in Clients : P!Read(c) \/ P!Take(c) \/ P!Refuse(c) => Quiet
  BY DEF P!Read, P!Take, P!Refuse, P!rows
<1>6. \A c \in Clients : P!DocumentWork(c) => pRow'[f] = pRow[f]
  <2>. SUFFICES ASSUME NEW c \in Clients, P!DocumentWork(c) PROVE pRow'[f] = pRow[f]
    OBVIOUS
  <2>1. CASE P!UpdateDocument(c)
    <3>1. P!Ask(c).on = "document"
      BY <2>1, HeldShape DEF P!UpdateDocument, P!At, PAskFits
    <3>. QED  BY <1>2, <2>1, <3>1 DEF P!UpdateDocument, P!Changed, P!rows, P!Kinds
  <2>2. CASE P!DeleteDocument(c)
    BY <1>2, <2>2 DEF P!DeleteDocument, P!Deleted, P!Kinds
  <2>3. CASE P!AddLink(c) \/ P!DeleteLink(c)
    BY <2>3 DEF P!AddLink, P!DeleteLink, P!rows
  <2>. QED  BY <2>1, <2>2, <2>3 DEF P!DocumentWork
<1>7. \A c \in Clients : P!Put(c) \/ P!AttachFails(c) => Quiet
  BY DEF P!Put, P!AttachFails, P!rows
<1>8. \A c \in Clients : P!Attach(c) => P!Live("document") \/ Quiet
  BY DEF P!Attach
<1>9. \A c \in Clients : P!Detach(c) => pRow'[f].state # "live"
  <2>. SUFFICES ASSUME NEW c \in Clients, P!Detach(c) PROVE pRow'[f].state # "live"
    OBVIOUS
  <2>1. PICK g \in Files : g = P!Ask(c).on
    BY HeldShape DEF P!Detach, P!At, PAskFits
  <2>2. PICK r \in P!Row : OneRow(g, r) /\ r.state = "deleted"
    BY <2>1, DetachedIs DEF DInv, P!Detach
  <2>3. pRow'[f] = r \/ pRow'[f] = pRow[f]
    BY <1>2, <2>1, <2>2, RowTyped DEF DInv, DTyped
  <2>. QED  BY <2>2, <2>3
<1>10. \A c \in Clients : P!SpecificationWork(c) => pRow'[f] = pRow[f]
  <2>. SUFFICES ASSUME NEW c \in Clients, P!SpecificationWork(c) PROVE pRow'[f] = pRow[f]
    OBVIOUS
  <2>1. CASE P!UpdateSpecification(c) \/ P!SetStatus(c)
    BY <1>2, <2>1 DEF P!UpdateSpecification, P!SetStatus, P!Changed, P!Kinds
  <2>2. CASE P!DeleteSpecification(c)
    BY <1>2, <2>2 DEF P!DeleteSpecification, P!Deleted, P!Kinds
  <2>3. CASE P!AddRemark(c) \/ P!Resolve(c)
    BY <2>3 DEF P!AddRemark, P!Resolve, P!rows
  <2>. QED  BY <2>1, <2>2, <2>3 DEF P!SpecificationWork
<1>11. \A c \in Clients : P!DraftWork(c) => Quiet
  BY DEF P!DraftWork, P!SaveDraft, P!DeleteDraft, P!ExpireDrafts, P!rows
<1>12. \A c \in Clients : P!PurgeObject(c) => Quiet
  BY DEF P!PurgeObject, P!rows
<1>13. \A c \in Clients : P!Purge(c) => pRow'[f].state # "live"
  <2>. SUFFICES ASSUME NEW c \in Clients, P!Purge(c) PROVE pRow'[f].state # "live"
    OBVIOUS
  <2>1. PICK O : pRow' = [r \in DOMAIN pRow |-> IF r \in O THEN [pRow[r] EXCEPT !.state = "purged"] ELSE pRow[r]]
    BY DEF P!Purge
  <2>. QED  BY <1>2, <2>1, PurgedIs DEF DInv, DTyped
<1>14. \A c \in Clients : P!Restore(c) => P!Live("document")
  <2>. SUFFICES ASSUME NEW c \in Clients, P!Restore(c) PROVE P!Live("document")
    OBVIOUS
  <2>1. PICK x \in P!Kinds \cup Files : x = P!Ask(c).on /\ pCalls[c].at = "held" /\ P!Ask(c).op = "restore"
    BY HeldShape DEF P!Restore, P!At
  <2>2. \A p \in P!Parent(x) : P!Live(p)
    BY <2>1, HeldShape DEF Ground
  <2>3. PICK r \in P!Row : OneRow(x, r)
    BY <2>1, RestoredIs, DocumentsAssumption DEF DInv, DTyped, P!Restore
  <2>4. f = x
    BY <1>2, <2>3, RowTyped DEF DInv, DTyped
  <2>. QED  BY <2>2, <2>4 DEF P!Parent
<1>. QED
  BY <1>1, <1>3, <1>4, <1>5, <1>6, <1>7, <1>8, <1>9, <1>10, <1>11, <1>12, <1>13, <1>14
     DEF P!Next, P!AttachmentWork, P!TrashWork

-----------------------------------------------------------------------------
(* Requirements.  A request about to save a requirement has the row as it   *)
(* is and is alone with it, and a deletion waits for it: so the revision it *)
(* adds leads from the text the last one led to.                            *)

\* What a request may ask for.
RAskFits(d) ==
    /\ d.op \in {"document", "standard", "redocument"} => d.code \in R!Codes
    /\ d.op = "standard" => d.key \in Keys
    /\ d.op \in {"redocument", "undocument"} => d.document \in Documents
    /\ d.op \in {"section", "unsection", "resection"} => d.section \in Sections
    /\ d.op = "resection" => d.title \in {"a", "b"}
    /\ d.op \in {"item", "reitem", "unitem", "promote"} => d.item \in Items
    /\ d.op = "item" => d.code \in {0, 1} /\ d.owner \in Users \cup {NoOne}
    /\ d.op = "reitem" => d.set \in [text : {"a", "b"}] \cup [owner : Users]
    /\ d.op \in {"issue", "reissue", "unissue", "promote"} => d.issue \in Issues
    /\ d.op = "issue" => d.code \in {0, 1} /\ d.assignee \in Users \cup {NoOne}
    /\ d.op = "reissue" => d.related \in Items \cup {None} /\ d.assignee \in Users
    /\ d.op \in {"child", "rechild", "unchild"} => d.child \in R!Children
    /\ d.op = "rechild" => d.text = "b"
    /\ d.op \in {"comment", "recomment", "uncomment", "resolve", "reopen"} => d.target \in R!Targets
    /\ d.op \in {"comment", "recomment"} => d.mentions \in SUBSET Users

\* What it has read.
SeenFits(d, s) ==
    /\ d.op = "redocument" => s \in R!RequirementDocument
    /\ d.op = "resection" => s \in R!RequirementSection
    /\ d.op = "sort" => s \in [Sections -> R!RequirementSection]
    /\ d.op = "reitem" => s \in R!Requirement
    /\ d.op \in {"reissue", "promote"} => s \in R!OpenIssue
    /\ d.op \in {"recomment", "resolve", "reopen"} => s \in R!TargetComment

\* What a call carries.  What names a requirement has found it; a call about to write it
\* has the row as it is, and is alone with it.
RUnder(c) == rCalls[c].at \in {"read", "checked"}
RCallFits(c) ==
    RUnder(c) =>
        /\ rCalls[c] = [at |-> rCalls[c].at, ask |-> rCalls[c].ask, seen |-> rCalls[c].seen, tries |-> rCalls[c].tries,
                       named |-> rCalls[c].named, number |-> rCalls[c].number]
        /\ RAskFits(rCalls[c].ask) /\ SeenFits(rCalls[c].ask, rCalls[c].seen)
        /\ rCalls[c].named \in Nat /\ rCalls[c].number \in Nat
        /\ rCalls[c].at = "checked" => rCalls[c].ask.op \in R!LockedOps
RCallsFit == rCalls = [c \in Calls |-> rCalls[c]] /\ \A c \in Calls : RCallFits(c)
Naming(c) == RUnder(c) /\ rCalls[c].ask.op \in {"reitem", "unitem"}
ItemSeen(c) ==
    Naming(c) =>
        /\ rItem[rCalls[c].ask.item].state # "absent"
        /\ rCalls[c].at = "checked" => rCalls[c].seen = rItem[rCalls[c].ask.item]
ItemsSeen == \A c \in Calls : ItemSeen(c)
RApart == \A c, x \in Calls :
    c # x /\ Naming(c) /\ Naming(x) /\ rCalls[c].at = "checked" /\ rCalls[x].at = "checked"
        => rCalls[c].ask.item # rCalls[x].ask.item

\* Numbers have a greatest one; what is absent has neither number nor version.
Numbered(rows) == \E n \in R!Numbers(rows) : \A m \in R!Numbers(rows) : m <= n
ItemsFit ==
    /\ Numbered(rItem)
    /\ \A r \in Items : (rItem[r].state = "absent" <=> rItem[r].version = 0) /\ (rItem[r].state = "absent" => rItem[r].code = 0)
IssuesFit ==
    /\ Numbered(rIssue)
    /\ \A i \in Issues : rIssue[i].state = "absent" => rIssue[i].code = 0

\* Every revision is of a version its requirement had, and led to it from the version before.
RevisionFits(e) == e = <<e[1], e[2], e[3], e[4]>> /\ e[1] \in Items /\ e[2] \in 2..rItem[e[1]].version
RevisionsFit == \A e \in rRevision : RevisionFits(e)

\* A key makes one document, whose receipt is given with it.
Made(k) == {x \in Documents : rDocument[x].key = k}
MadeOnce ==
    /\ \A x \in Documents : rDocument[x].state = "absent" => rDocument[x].key = None
    /\ \A k \in Keys : (rReceipt[k] # None <=> Made(k) # {}) /\ \A x, y \in Made(k) : x = y

DocumentPart ==
    rDocument \in [Documents -> R!RequirementDocument] /\ rReceipt \in [Keys -> R!Codes \cup {None}] /\ MadeOnce
SectionPart == rSection \in [Sections -> R!RequirementSection]
ItemPart == rItem \in [Items -> R!Requirement] /\ ItemsFit /\ RevisionsFit /\ R!RevisionsChain
IssuePart == rIssue \in [Issues -> R!OpenIssue] /\ IssuesFit
TalkPart == rChild \in [R!Children -> R!Child] /\ rComment \in [R!Targets -> R!TargetComment]
CallPart == RCallsFit /\ ItemsSeen /\ RApart
RInv == DocumentPart /\ SectionPart /\ ItemPart /\ IssuePart /\ TalkPart /\ CallPart

(* What a call may hold, and what it leaves to the others.                  *)

LEMMA RTypes ==
    ASSUME RInv
    PROVE  R!TypeOK
BY DEF RInv, DocumentPart, SectionPart, ItemPart, IssuePart, TalkPart, R!TypeOK

LEMMA Rest ==
    ASSUME RInv
    PROVE  /\ UNCHANGED <<rDocument, rReceipt>> => DocumentPart'
           /\ UNCHANGED rSection => SectionPart'
           /\ UNCHANGED <<rItem, rRevision>> => ItemPart'
           /\ UNCHANGED rIssue => IssuePart'
           /\ UNCHANGED <<rChild, rComment>> => TalkPart'
<1>1. UNCHANGED <<rDocument, rReceipt>> => DocumentPart'
  <2>. SUFFICES ASSUME UNCHANGED <<rDocument, rReceipt>> PROVE DocumentPart'
    OBVIOUS
  <2>1. \A k \in Keys : Made(k)' = Made(k)
    BY DEF Made
  <2>. QED  BY <2>1 DEF RInv, DocumentPart, MadeOnce
<1>2. UNCHANGED <<rItem, rRevision>> => ItemPart'
  <2>. SUFFICES ASSUME UNCHANGED <<rItem, rRevision>> PROVE ItemPart'
    OBVIOUS
  <2>1. ItemsFit'
    BY DEF RInv, ItemPart, ItemsFit, Numbered, R!Numbers
  <2>2. RevisionsFit'
    BY DEF RInv, ItemPart, RevisionsFit, RevisionFits
  <2>3. R!RevisionsChain'
    BY DEF RInv, ItemPart, R!RevisionsChain
  <2>. QED  BY <2>1, <2>2, <2>3 DEF RInv, ItemPart
<1>3. UNCHANGED rIssue => IssuePart'
  BY DEF RInv, IssuePart, IssuesFit, Numbered, R!Numbers
<1>. QED  BY <1>1, <1>2, <1>3 DEF RInv, SectionPart, TalkPart

\* A step of one call.
RMoves(c) ==
    /\ rCalls' = [x \in Calls |-> rCalls'[x]]
    /\ \A x \in Calls \ {c} : rCalls'[x] = rCalls[x]
Leaves(c) == RMoves(c) /\ rCalls'[c].at \notin {"read", "checked"}
ItemKept(x) ==
    Naming(x) =>
        /\ rItem'[rCalls[x].ask.item].state # "absent"
        /\ rCalls[x].at = "checked" => rItem'[rCalls[x].ask.item] = rItem[rCalls[x].ask.item]
Clear(c) ==
    rCalls'[c].at = "checked" /\ Naming(c)' =>
        \A x \in Calls \ {c} : Naming(x) /\ rCalls[x].at = "checked" => rCalls'[c].ask.item # rCalls[x].ask.item

LEMMA CallsMove ==
    ASSUME CallPart, NEW c \in Calls, RMoves(c), RCallFits(c)', ItemSeen(c)', Clear(c),
           \A x \in Calls \ {c} : ItemKept(x)
    PROVE  CallPart'
<1>1. \A x \in Calls \ {c} : rCalls'[x] = rCalls[x] /\ (RUnder(x)' <=> RUnder(x)) /\ (Naming(x)' <=> Naming(x))
  BY DEF RMoves, RUnder, Naming
<1>2. RCallsFit'
  <2>1. \A x \in Calls \ {c} : RCallFits(x)'
    BY <1>1 DEF CallPart, RCallsFit, RCallFits
  <2>. QED  BY <2>1 DEF RCallsFit, RMoves
<1>3. ItemsSeen'
  <2>1. \A x \in Calls \ {c} : ItemSeen(x)'
    BY <1>1 DEF CallPart, ItemsSeen, ItemSeen, ItemKept
  <2>. QED  BY <2>1 DEF ItemsSeen
<1>4. RApart'
  <2>. SUFFICES ASSUME NEW y \in Calls, NEW x \in Calls, y # x, Naming(y)', Naming(x)',
                       rCalls'[y].at = "checked", rCalls'[x].at = "checked"
                PROVE  rCalls'[y].ask.item # rCalls'[x].ask.item
    BY DEF RApart
  <2>1. CASE y # c /\ x # c
    BY <1>1, <2>1 DEF CallPart, RApart
  <2>2. CASE y = c
    BY <1>1, <2>2 DEF Clear
  <2>3. CASE x = c
    BY <1>1, <2>3 DEF Clear
  <2>. QED  BY <2>1, <2>2, <2>3
<1>. QED  BY <1>2, <1>3, <1>4 DEF CallPart

LEMMA CallsLeave ==
    ASSUME CallPart, NEW c \in Calls, Leaves(c), \A x \in Calls \ {c} : ItemKept(x)
    PROVE  CallPart'
<1>1. RCallFits(c)' /\ ItemSeen(c)' /\ Clear(c) /\ RMoves(c)
  BY DEF Leaves, RCallFits, ItemSeen, Naming, RUnder, Clear
<1>. QED  BY <1>1, CallsMove

LEMMA ItemsKept ==
    ASSUME CallPart, rItem' = rItem
    PROVE  \A x \in Calls : ItemKept(x)
BY DEF CallPart, ItemsSeen, ItemSeen, ItemKept

\* A call that ends, or has only its history entry to write.
LEMMA Ending ==
    ASSUME CallPart, NEW c \in Calls, R!Done(c) \/ (RUnder(c) /\ R!Goto(c, "saved"))
    PROVE  Leaves(c)
<1>1. CASE R!Done(c)
  BY <1>1 DEF CallPart, RCallsFit, R!Done, Leaves, RMoves
<1>2. CASE RUnder(c) /\ R!Goto(c, "saved")
  <2>1. PICK d, s, t, v, n : rCalls[c] = [at |-> rCalls[c].at, ask |-> d, seen |-> s, tries |-> t, named |-> v, number |-> n]
    BY <1>2 DEF CallPart, RCallsFit, RCallFits
  <2>2. rCalls'[c] = [at |-> "saved", ask |-> d, seen |-> s, tries |-> t, named |-> v, number |-> n]
    BY <1>2, <2>1 DEF CallPart, RCallsFit, R!Goto
  <2>. QED  BY <1>2, <2>2 DEF CallPart, RCallsFit, R!Goto, Leaves, RMoves
<1>. QED  BY <1>1, <1>2

\* Of a call under way.
LEMMA AskShape ==
    ASSUME RInv, NEW c \in Calls, RUnder(c)
    PROVE  RAskFits(rCalls[c].ask) /\ SeenFits(rCalls[c].ask, rCalls[c].seen) /\ rCalls[c].named \in Nat /\ rCalls[c].number \in Nat
BY DEF RInv, CallPart, RCallsFit, RCallFits

LEMMA SubjectFits ==
    ASSUME R!TypeOK, NEW d, RAskFits(d)
    PROVE  SeenFits(d, R!Subject(d))
<1>1. d.op = "redocument" => R!Subject(d) = rDocument[d.document]
  BY Zenon DEF R!Subject
<1>2. d.op = "resection" => R!Subject(d) = rSection[d.section]
  BY Zenon DEF R!Subject
<1>3. d.op = "sort" => R!Subject(d) = rSection
  BY Zenon DEF R!Subject
<1>4. d.op = "reitem" => R!Subject(d) = rItem[d.item]
  BY Zenon DEF R!Subject
<1>5. d.op \in {"reissue", "promote"} => R!Subject(d) = rIssue[d.issue]
  BY Zenon DEF R!Subject
<1>6. d.op \in {"recomment", "resolve", "reopen"} => R!Subject(d) = rComment[d.target]
  BY Zenon DEF R!Subject
<1>. QED  BY <1>1, <1>2, <1>3, <1>4, <1>5, <1>6 DEF R!TypeOK, RAskFits, SeenFits

LEMMA RAsksFit ==
    ASSUME NEW d \in R!Requests
    PROVE  RAskFits(d)
<1>1. d \in R!DocumentRequests \/ d \in R!SectionRequests \/ d \in R!ItemRequests \/ d \in R!IssueRequests
        \/ d \in R!ChildRequests \/ d \in R!CommentRequests
  BY DEF R!Requests
<1>2. CASE d \in R!DocumentRequests
  BY <1>2 DEF R!DocumentRequests, RAskFits, R!Codes
<1>3. CASE d \in R!SectionRequests
  BY <1>3 DEF R!SectionRequests, RAskFits
<1>4. CASE d \in R!ItemRequests
  BY <1>4 DEF R!ItemRequests, RAskFits
<1>5. CASE d \in R!IssueRequests
  BY <1>5 DEF R!IssueRequests, RAskFits
<1>6. CASE d \in R!ChildRequests
  BY <1>6 DEF R!ChildRequests, RAskFits, R!Children
<1>7. CASE d \in R!CommentRequests
  BY <1>7 DEF R!CommentRequests, RAskFits
<1>. QED  BY <1>1, <1>2, <1>3, <1>4, <1>5, <1>6, <1>7

\* A generated number is a number.
LEMMA NextNumber ==
    ASSUME NEW rows, Numbered(rows), \A x \in DOMAIN rows : rows[x].code \in Nat
    PROVE  R!MaxNumber(rows) \in Nat /\ \A m \in R!Numbers(rows) : m <= R!MaxNumber(rows)
<1>1. R!MaxNumber(rows) \in R!Numbers(rows) /\ \A m \in R!Numbers(rows) : m <= R!MaxNumber(rows)
  BY DEF Numbered, R!MaxNumber
<1>2. R!Numbers(rows) \subseteq Nat
  BY DEF R!Numbers
<1>. QED  BY <1>1, <1>2

LEMMA NextNumbers ==
    ASSUME RInv
    PROVE  R!MaxNumber(rItem) + 1 \in Nat /\ R!MaxNumber(rIssue) + 1 \in Nat
<1>1. \A r \in Items : rItem[r].code \in Nat
  BY DEF RInv, ItemPart, R!Requirement
<1>2. \A i \in Issues : rIssue[i].code \in Nat
  BY DEF RInv, IssuePart, R!OpenIssue
<1>3. DOMAIN rItem = Items /\ DOMAIN rIssue = Issues
  BY DEF RInv, ItemPart, IssuePart
<1>4. R!MaxNumber(rItem) \in Nat
  BY <1>1, <1>3, NextNumber DEF RInv, ItemPart, ItemsFit
<1>5. R!MaxNumber(rIssue) \in Nat
  BY <1>2, <1>3, NextNumber DEF RInv, IssuePart, IssuesFit
<1>. QED  BY <1>4, <1>5

-----------------------------------------------------------------------------
(* A request reads, is compared, is refused, writes its history entry.      *)
LEMMA RReads ==
    ASSUME RInv, NEW c \in Calls, R!Read(c)
    PROVE  RInv'
<1>1. UNCHANGED <<rDocument, rReceipt, rSection, rItem, rRevision, rIssue, rChild, rComment>>
  BY DEF R!Read, R!documents, R!texts, R!talk
<1>2. CallPart'
  <2>1. CASE R!Done(c)
    BY <1>1, <2>1, Ending, ItemsKept, CallsLeave DEF RInv
  <2>2. CASE ~R!Done(c)
    <3>0. PICK d \in R!Requests :
             /\ R!Found(d)
             /\ rCalls' = [rCalls EXCEPT ![c] =
                  [at |-> "read", ask |-> d, seen |-> R!Subject(d), tries |-> 1,
                   named |-> IF d.op = "promote" THEN rIssue[d.issue].version ELSE 0,
                   number |-> CASE d.op = "item" -> IF d.code = 0 THEN R!MaxNumber(rItem) + 1 ELSE d.code
                                [] d.op = "issue" -> IF d.code = 0 THEN R!MaxNumber(rIssue) + 1 ELSE d.code
                                [] d.op = "promote" -> R!MaxNumber(rItem) + 1
                                [] OTHER -> 0]]
      BY <2>2, Zenon DEF R!Read
    <3>1. PICK v, n : /\ v = (IF d.op = "promote" THEN rIssue[d.issue].version ELSE 0)
                      /\ n = (CASE d.op = "item" -> IF d.code = 0 THEN R!MaxNumber(rItem) + 1 ELSE d.code
                                [] d.op = "issue" -> IF d.code = 0 THEN R!MaxNumber(rIssue) + 1 ELSE d.code
                                [] d.op = "promote" -> R!MaxNumber(rItem) + 1
                                [] OTHER -> 0)
                      /\ rCalls' = [rCalls EXCEPT ![c] = [at |-> "read", ask |-> d, seen |-> R!Subject(d), tries |-> 1,
                                                        named |-> v, number |-> n]]
      BY <3>0, Zenon
    <3>2. RAskFits(d) /\ SeenFits(d, R!Subject(d))
      BY RAsksFit, SubjectFits, RTypes
    <3>3. v \in Nat
      BY <3>1, <3>2 DEF RAskFits, RInv, IssuePart, R!OpenIssue
    <3>4. n \in Nat
      <4>1. d.op = "item" => n = IF d.code = 0 THEN R!MaxNumber(rItem) + 1 ELSE d.code
        BY <3>1, Zenon
      <4>2. d.op = "issue" => n = IF d.code = 0 THEN R!MaxNumber(rIssue) + 1 ELSE d.code
        BY <3>1, Zenon
      <4>3. d.op = "promote" => n = R!MaxNumber(rItem) + 1
        BY <3>1, Zenon
      <4>4. d.op \notin {"item", "issue", "promote"} => n = 0
        BY <3>1, Zenon
      <4>. QED  BY <3>2, <4>1, <4>2, <4>3, <4>4, NextNumbers DEF RAskFits
    <3>5. rCalls'[c] = [at |-> "read", ask |-> d, seen |-> R!Subject(d), tries |-> 1, named |-> v, number |-> n] /\ RMoves(c)
      <4>1. PICK r : r = [at |-> "read", ask |-> d, seen |-> R!Subject(d), tries |-> 1, named |-> v, number |-> n]
        OBVIOUS
      <4>2. rCalls' = [rCalls EXCEPT ![c] = r]
        BY <3>1, <4>1
      <4>. QED  BY <4>1, <4>2 DEF RInv, CallPart, RCallsFit, RMoves
    <3>6. RCallFits(c)' /\ Clear(c)
      BY <3>2, <3>3, <3>4, <3>5 DEF RCallFits, Clear, RUnder
    <3>7. ItemSeen(c)'
      <4>1. d.op \in {"reitem", "unitem"} => R!LiveItem(d.item)
        BY <3>0, Zenon DEF R!Found
      <4>. QED  BY <1>1, <3>5, <4>1 DEF ItemSeen, Naming, R!LiveItem
    <3>. QED  BY <1>1, <3>5, <3>6, <3>7, ItemsKept, CallsMove DEF RInv
  <2>. QED  BY <2>1, <2>2
<1>. QED  BY <1>1, <1>2, Rest DEF RInv

LEMMA RChecks ==
    ASSUME RInv, NEW c \in Calls, R!Check(c)
    PROVE  RInv'
<1>1. UNCHANGED <<rDocument, rReceipt, rSection, rItem, rRevision, rIssue, rChild, rComment>>
  BY DEF R!Check, R!documents, R!texts, R!talk
<1>2. CallPart'
  <2>1. rCalls[c].at = "read" /\ RUnder(c)
    BY DEF R!Check, R!At, RUnder
  <2>2. PICK d, s, t, v, n : /\ rCalls[c] = [at |-> "read", ask |-> d, seen |-> s, tries |-> t, named |-> v, number |-> n]
                             /\ RAskFits(d) /\ v \in Nat /\ n \in Nat
    BY <2>1, AskShape DEF RInv, CallPart, RCallsFit, RCallFits
  <2>3. /\ rCalls'[c] = [at |-> "checked", ask |-> d, seen |-> R!Subject(d), tries |-> t, named |-> v, number |-> n]
        /\ RMoves(c)
    <3>1. PICK q : q = R!Subject(d)
      OBVIOUS
    <3>2. rCalls' = [rCalls EXCEPT ![c].at = "checked", ![c].seen = q]
      BY <2>2, <3>1 DEF R!Check, R!Reread
    <3>3. PICK m : m = rCalls[c]
      OBVIOUS
    <3>4. [m EXCEPT !.at = "checked", !.seen = q] = [at |-> "checked", ask |-> d, seen |-> q, tries |-> t, named |-> v, number |-> n]
      <4>1. m = [at |-> "read", ask |-> d, seen |-> s, tries |-> t, named |-> v, number |-> n]
        BY <2>2, <3>3
      <4>2. PICK w : w = [m EXCEPT !.at = "checked"]
        OBVIOUS
      <4>3. w = [at |-> "checked", ask |-> d, seen |-> s, tries |-> t, named |-> v, number |-> n]
        BY <4>1, <4>2
      <4>4. [w EXCEPT !.seen = q] = [at |-> "checked", ask |-> d, seen |-> q, tries |-> t, named |-> v, number |-> n]
        BY <4>3
      <4>5. [m EXCEPT !.at = "checked", !.seen = q] = [w EXCEPT !.seen = q]
        BY <4>2
      <4>. QED  BY <4>4, <4>5
    <3>5. rCalls' = [rCalls EXCEPT ![c] = [m EXCEPT !.at = "checked", !.seen = q]]
      BY <3>2, <3>3 DEF RInv, CallPart, RCallsFit
    <3>. QED  BY <3>1, <3>4, <3>5 DEF RInv, CallPart, RCallsFit, RMoves
  <2>0. d.op \in R!LockedOps
    BY <2>2 DEF R!Check, R!At
  <2>4. RCallFits(c)'
    BY <2>0, <2>2, <2>3, SubjectFits, RTypes DEF RCallFits
  <2>5. ItemSeen(c)'
    <3>1. d.op = "reitem" => R!Subject(d) = rItem[d.item] /\ rItem[d.item].state # "absent"
      <4>1. d.op = "reitem" => R!Subject(d) = rItem[d.item]
        BY Zenon DEF R!Subject
      <4>2. d.op = "reitem" => rItem[d.item].state # "absent"
        BY <2>1, <2>2 DEF RInv, CallPart, ItemsSeen, ItemSeen, Naming
      <4>. QED  BY <4>1, <4>2
    <3>. QED  BY <1>1, <2>0, <2>3, <3>1 DEF ItemSeen, Naming, R!LockedOps
  <2>6. Clear(c)
    <3>1. \A x \in Calls \ {c} : ~(rCalls[x].at = "checked" /\ rCalls[x].ask.op \in R!LockedOps /\ R!SameRow(rCalls[x].ask, d))
      BY <2>2 DEF R!Check, R!NotLocked, R!At
    <3>2. \A e : d.op = "reitem" /\ e.op = "reitem" /\ e.item = d.item => R!SameRow(e, d)
      BY Zenon DEF R!SameRow
    <3>3. \A x \in Calls \ {c} : Naming(x) /\ rCalls[x].at = "checked" => rCalls[x].ask.op = "reitem"
      BY DEF RInv, CallPart, RCallsFit, RCallFits, Naming, R!LockedOps
    <3>. QED  BY <2>0, <2>3, <3>1, <3>2, <3>3 DEF Clear, Naming, R!LockedOps
  <2>. QED  BY <1>1, <2>3, <2>4, <2>5, <2>6, ItemsKept, CallsMove DEF RInv
<1>. QED  BY <1>1, <1>2, Rest DEF RInv

LEMMA RLogs ==
    ASSUME RInv, NEW c \in Calls, R!Log(c) \/ R!Refuse(c)
    PROVE  RInv'
<1>1. R!Done(c) /\ UNCHANGED <<rDocument, rReceipt, rSection, rItem, rRevision, rIssue, rChild, rComment>>
  BY DEF R!Log, R!Refuse, R!documents, R!texts, R!talk
<1>2. CallPart'
  BY <1>1, Ending, ItemsKept, CallsLeave DEF RInv
<1>. QED  BY <1>1, <1>2, Rest DEF RInv

-----------------------------------------------------------------------------
(* Documents.  A key is given away with its receipt.                        *)
LEMMA DocumentWritten ==
    ASSUME RInv, NEW x \in Documents, NEW n \in R!RequirementDocument, rDocument' = [rDocument EXCEPT ![x] = n],
           n.key = rDocument[x].key, n.state = "absent" => rDocument[x].state = "absent", rReceipt' = rReceipt
    PROVE  DocumentPart'
<1>1. /\ rDocument' \in [Documents -> R!RequirementDocument]
      /\ \A y \in Documents : rDocument'[y].key = rDocument[y].key
      /\ \A y \in Documents : rDocument'[y].state = "absent" => rDocument[y].state = "absent"
  BY DEF RInv, DocumentPart
<1>2. \A k \in Keys : Made(k)' = Made(k)
  BY <1>1 DEF Made
<1>. QED  BY <1>1, <1>2 DEF RInv, DocumentPart, MadeOnce

LEMMA DocumentMade ==
    ASSUME RInv, NEW code \in R!Codes, NEW key \in Keys \cup {None}, R!FreshDocument(code, key),
           \/ key = None /\ rReceipt' = rReceipt
           \/ key # None /\ rReceipt[key] = None /\ rReceipt' = [rReceipt EXCEPT ![key] = code]
    PROVE  DocumentPart'
<1>1. PICK x \in Documents, n \in R!RequirementDocument :
        /\ rDocument[x].state = "absent" /\ rDocument' = [rDocument EXCEPT ![x] = n]
        /\ n.key = key /\ n.state = "live"
  <2>1. PICK x \in Documents :
          /\ rDocument[x].state = "absent"
          /\ rDocument' = [rDocument EXCEPT ![x] = [state |-> "live", code |-> code, key |-> key, version |-> 1,
                                                  sections |-> IF key = None THEN 0 ELSE 9]]
    BY DEF R!FreshDocument
  <2>2. PICK m : m = IF key = None THEN 0 ELSE 9
    OBVIOUS
  <2>3. PICK n : n = [state |-> "live", code |-> code, key |-> key, version |-> 1, sections |-> m]
    OBVIOUS
  <2>4. n \in R!RequirementDocument /\ n.key = key /\ n.state = "live"
    BY <2>2, <2>3 DEF R!RequirementDocument, R!RowState
  <2>5. rDocument' = [rDocument EXCEPT ![x] = n]
    BY <2>1, <2>2, <2>3
  <2>. QED  BY <2>1, <2>4, <2>5
<1>2. /\ rDocument' \in [Documents -> R!RequirementDocument]
      /\ rDocument'[x] = n /\ \A y \in Documents \ {x} : rDocument'[y] = rDocument[y]
  BY <1>1 DEF RInv, DocumentPart
<1>3. rDocument[x].key = None
  BY <1>1 DEF RInv, DocumentPart, MadeOnce
<1>4. \A k \in Keys \ {key} : Made(k)' = Made(k)
  BY <1>1, <1>2, <1>3, RequirementsAssumption DEF Made
<1>5. CASE key = None
  <2>1. rReceipt' = rReceipt /\ \A k \in Keys : Made(k)' = Made(k)
    BY <1>4, <1>5, RequirementsAssumption
  <2>. QED  BY <1>1, <1>2, <2>1, <1>5 DEF RInv, DocumentPart, MadeOnce
<1>6. CASE key # None
  <2>1. key \in Keys /\ Made(key) = {} /\ rReceipt' = [rReceipt EXCEPT ![key] = code]
    BY <1>6 DEF RInv, DocumentPart, MadeOnce
  <2>2. Made(key)' = {x}
    BY <1>1, <1>2, <2>1 DEF Made
  <2>3. /\ rReceipt' \in [Keys -> R!Codes \cup {None}] /\ rReceipt'[key] # None
        /\ \A k \in Keys \ {key} : rReceipt'[k] = rReceipt[k]
    BY <2>1, RequirementsAssumption DEF RInv, DocumentPart
  <2>. QED  BY <1>1, <1>2, <1>4, <2>2, <2>3 DEF RInv, DocumentPart, MadeOnce
<1>. QED  BY <1>5, <1>6

LEMMA RDocuments ==
    ASSUME RInv, NEW c \in Calls, R!RequirementDocuments(c)
    PROVE  RInv'
<1>1. UNCHANGED <<rSection, rItem, rRevision, rIssue, rChild, rComment>>
  BY DEF R!RequirementDocuments, R!CreateDocument, R!CreateStandard, R!UpdateDocument, R!DeleteDocument, R!texts, R!talk
<1>2. RUnder(c) /\ (R!Done(c) \/ R!Goto(c, "saved"))
  BY DEF R!RequirementDocuments, R!CreateDocument, R!CreateStandard, R!UpdateDocument, R!DeleteDocument, RUnder, R!At
<1>3. CallPart'
  BY <1>1, <1>2, Ending, ItemsKept, CallsLeave DEF RInv
<1>4. PICK d : d = rCalls[c].ask
  OBVIOUS
<1>5. RAskFits(d) /\ SeenFits(d, rCalls[c].seen)
  BY <1>2, <1>4, AskShape
<1>6. DocumentPart'
  <2>1. CASE R!CreateDocument(c)
    <3>1. d.code \in R!Codes /\ rReceipt' = rReceipt
      BY <1>4, <1>5, <2>1 DEF R!CreateDocument, R!At, RAskFits
    <3>2. CASE UNCHANGED rDocument
      BY <3>1, <3>2, Rest
    <3>3. CASE R!FreshDocument(d.code, None)
      BY <3>1, <3>3, DocumentMade
    <3>. QED  BY <1>4, <2>1, <3>2, <3>3 DEF R!CreateDocument
  <2>2. CASE R!CreateStandard(c)
    <3>1. d.code \in R!Codes /\ d.key \in Keys /\ d.key # None
      BY <1>4, <1>5, <2>2, RequirementsAssumption DEF R!CreateStandard, R!At, RAskFits
    <3>2. CASE UNCHANGED <<rDocument, rReceipt>>
      BY <3>2, Rest
    <3>3. CASE R!ReceiptFree(d.key) /\ R!FreshDocument(d.code, d.key) /\ rReceipt' = [rReceipt EXCEPT ![d.key] = d.code]
      BY <3>1, <3>3, DocumentMade DEF R!ReceiptFree
    <3>. QED  BY <1>4, <2>2, <3>2, <3>3 DEF R!CreateStandard
  <2>3. CASE R!UpdateDocument(c)
    <3>1. d.document \in Documents /\ d.code \in R!Codes /\ rCalls[c].seen \in R!RequirementDocument
      BY <1>4, <1>5, <2>3 DEF R!UpdateDocument, R!At, RAskFits, SeenFits
    <3>2. PICK x \in Documents, v \in Nat, k \in R!Codes : x = d.document /\ v = rCalls[c].seen.version + 1 /\ k = d.code
      BY <3>1 DEF R!RequirementDocument
    <3>3. rDocument' = [rDocument EXCEPT ![x].code = k, ![x].version = v] /\ rReceipt' = rReceipt /\ x \in Documents
      BY <1>4, <2>3, <3>1, <3>2 DEF R!UpdateDocument
    <3>4. PICK q \in R!RequirementDocument : q = rDocument[x]
      BY <3>3 DEF RInv, DocumentPart
    <3>5. PICK w : w = [q EXCEPT !.code = k]
      OBVIOUS
    <3>6. PICK n : n = [w EXCEPT !.version = v]
      OBVIOUS
    <3>7. w \in R!RequirementDocument /\ w.key = q.key /\ w.state = q.state
      BY <3>5 DEF R!RequirementDocument
    <3>8. n \in R!RequirementDocument /\ n.key = q.key /\ n.state = q.state
      BY <3>6, <3>7 DEF R!RequirementDocument
    <3>9. rDocument' = [rDocument EXCEPT ![x] = n]
      BY <3>3, <3>4, <3>5, <3>6 DEF RInv, DocumentPart
    <3>. QED  BY <3>3, <3>4, <3>8, <3>9, DocumentWritten
  <2>4. CASE R!DeleteDocument(c)
    <3>1. PICK x \in Documents : x = d.document
      BY <1>4, <1>5, <2>4 DEF R!DeleteDocument, R!At, RAskFits
    <3>2. PICK q \in R!RequirementDocument : q = rDocument[x]
      BY DEF RInv, DocumentPart
    <3>3. PICK n : n = [q EXCEPT !.state = "deleted"]
      OBVIOUS
    <3>4. n \in R!RequirementDocument /\ n.key = q.key /\ n.state = "deleted"
      BY <3>3 DEF R!RequirementDocument, R!RowState
    <3>5. rDocument' = [rDocument EXCEPT ![x] = n] /\ rReceipt' = rReceipt
      BY <1>4, <2>4, <3>1, <3>2, <3>3 DEF R!DeleteDocument, R!Deleted
    <3>. QED  BY <3>2, <3>4, <3>5, DocumentWritten
  <2>. QED  BY <2>1, <2>2, <2>3, <2>4 DEF R!RequirementDocuments
<1>. QED  BY <1>1, <1>3, <1>6, Rest DEF RInv

-----------------------------------------------------------------------------
(* Sections, children and comments, whose last writer wins.                 *)
LEMMA FlushedSection ==
    ASSUME NEW r \in R!RequirementSection, NEW s \in R!RequirementSection, NEW n \in R!RequirementSection
    PROVE  R!Flushed(r, s, n) \in R!RequirementSection
<1>1. DOMAIN r = {"state", "order", "title", "version"}
  BY DEF R!RequirementSection
<1>2. PICK a, o, t, v : /\ a = (IF n.state # s.state THEN n.state ELSE r.state)
                        /\ o = (IF n.order # s.order THEN n.order ELSE r.order)
                        /\ t = (IF n.title # s.title THEN n.title ELSE r.title)
                        /\ v = (IF n.version # s.version THEN n.version ELSE r.version)
  OBVIOUS
<1>3. R!Flushed(r, s, n) = [state |-> a, order |-> o, title |-> t, version |-> v]
  BY <1>1, <1>2 DEF R!Flushed
<1>. QED  BY <1>2, <1>3 DEF R!RequirementSection

LEMMA SectionChanged ==
    ASSUME NEW s \in R!RequirementSection
    PROVE  /\ \A t \in {"a", "b"} : R!Retitled(s, t) \in R!RequirementSection
           /\ \A o \in 0..3 : R!Placed(s, o) \in R!RequirementSection
           /\ R!Deleted(s) \in R!RequirementSection
<1>1. s = [state |-> s.state, order |-> s.order, title |-> s.title, version |-> s.version]
  BY DEF R!RequirementSection
<1>2. s.state \in R!RowState /\ s.order \in 0..3 /\ s.title \in {"a", "b"} /\ s.version \in Nat
  BY DEF R!RequirementSection
<1>3. ASSUME NEW t \in {"a", "b"} PROVE R!Retitled(s, t) \in R!RequirementSection
  <2>1. PICK w : w = [s EXCEPT !.title = t]
    OBVIOUS
  <2>2. w = [state |-> s.state, order |-> s.order, title |-> t, version |-> s.version]
    BY <1>1, <2>1
  <2>3. [w EXCEPT !.version = @ + 1] = [state |-> s.state, order |-> s.order, title |-> t, version |-> s.version + 1]
    BY <2>2
  <2>4. R!Retitled(s, t) = [w EXCEPT !.version = @ + 1]
    BY <2>1 DEF R!Retitled
  <2>. QED  BY <1>2, <2>3, <2>4 DEF R!RequirementSection
<1>4. ASSUME NEW o \in 0..3 PROVE R!Placed(s, o) \in R!RequirementSection
  <2>1. PICK w : w = [s EXCEPT !.order = o]
    OBVIOUS
  <2>2. w = [state |-> s.state, order |-> o, title |-> s.title, version |-> s.version]
    BY <1>1, <2>1
  <2>3. [w EXCEPT !.version = @ + 1] = [state |-> s.state, order |-> o, title |-> s.title, version |-> s.version + 1]
    BY <2>2
  <2>4. R!Placed(s, o) = [w EXCEPT !.version = @ + 1]
    BY <2>1 DEF R!Placed
  <2>. QED  BY <1>2, <2>3, <2>4 DEF R!RequirementSection
<1>5. R!Deleted(s) \in R!RequirementSection
  BY DEF R!Deleted, R!RequirementSection, R!RowState
<1>. QED  BY <1>3, <1>4, <1>5

LEMMA RSections ==
    ASSUME RInv, NEW c \in Calls, R!RequirementSections(c)
    PROVE  RInv'
<1>1. UNCHANGED <<rDocument, rReceipt, rItem, rRevision, rIssue, rChild, rComment>>
  BY DEF R!RequirementSections, R!CreateSection, R!UpdateSection, R!SortSections, R!DeleteSection, R!documents, R!talk
<1>2. RUnder(c) /\ R!Goto(c, "saved")
  BY DEF R!RequirementSections, R!CreateSection, R!UpdateSection, R!SortSections, R!DeleteSection, RUnder, R!At
<1>3. CallPart'
  BY <1>1, <1>2, Ending, ItemsKept, CallsLeave DEF RInv
<1>4. PICK d, p : d = rCalls[c].ask /\ p = rCalls[c].seen
  OBVIOUS
<1>5. RAskFits(d) /\ SeenFits(d, p)
  BY <1>2, <1>4, AskShape
<1>6. SectionPart'
  <2>1. CASE R!CreateSection(c)
    <3>1. R!NewSection \in R!RequirementSection
      BY DEF R!NewSection, R!RequirementSection, R!RowState
    <3>. QED  BY <2>1, <3>1 DEF R!CreateSection, RInv, SectionPart
  <2>2. CASE R!UpdateSection(c)
    <3>1. PICK x \in Sections, t \in {"a", "b"} : x = d.section /\ t = d.title
      BY <1>4, <1>5, <2>2 DEF R!UpdateSection, R!At, RAskFits
    <3>2. p \in R!RequirementSection /\ rSection[x] \in R!RequirementSection
      BY <1>4, <1>5, <2>2 DEF R!UpdateSection, R!At, SeenFits, RInv, SectionPart
    <3>3. rSection' = [rSection EXCEPT ![x] = R!Flushed(rSection[x], p, R!Retitled(p, t))]
      BY <1>4, <2>2, <3>1 DEF R!UpdateSection
    <3>. QED  BY <3>2, <3>3, FlushedSection, SectionChanged DEF RInv, SectionPart
  <2>3. CASE R!SortSections(c)
    <3>1. p \in [Sections -> R!RequirementSection]
      BY <1>4, <1>5, <2>3 DEF R!SortSections, R!At, SeenFits
    <3>2. rSection' = [s \in Sections |-> R!Flushed(rSection[s], p[s], R!Placed(p[s], IF s = d.first THEN 1 ELSE 2))]
      BY <1>4, <2>3 DEF R!SortSections
    <3>3. ASSUME NEW s \in Sections
          PROVE  R!Flushed(rSection[s], p[s], R!Placed(p[s], IF s = d.first THEN 1 ELSE 2)) \in R!RequirementSection
      <4>1. PICK o \in 0..3 : o = IF s = d.first THEN 1 ELSE 2
        OBVIOUS
      <4>2. rSection[s] \in R!RequirementSection /\ p[s] \in R!RequirementSection
        BY <3>1 DEF RInv, SectionPart
      <4>3. R!Flushed(rSection[s], p[s], R!Placed(p[s], o)) \in R!RequirementSection
        BY <4>2, FlushedSection, SectionChanged
      <4>. QED  BY <4>1, <4>3
    <3>. QED  BY <3>2, <3>3 DEF SectionPart
  <2>4. CASE R!DeleteSection(c)
    <3>1. rSection' = [rSection EXCEPT ![d.section] = R!Deleted(rSection[d.section])] /\ d.section \in Sections
      BY <1>4, <1>5, <2>4 DEF R!DeleteSection, R!At, RAskFits
    <3>. QED  BY <3>1, SectionChanged DEF RInv, SectionPart
  <2>. QED  BY <2>1, <2>2, <2>3, <2>4 DEF R!RequirementSections
<1>. QED  BY <1>1, <1>3, <1>6, Rest DEF RInv

LEMMA RChildren ==
    ASSUME RInv, NEW c \in Calls, R!RequirementChildren(c)
    PROVE  RInv'
<1>0. /\ R!At(c, "read", {"child", "rechild", "unchild"})
      /\ R!CreateChild(c) \/ R!UpdateChild(c) \/ R!DeleteChild(c)
  BY DEF R!RequirementChildren, R!Details, R!Links, R!Reviews, R!Relations, R!Remarks, R!ChildOf
<1>1. UNCHANGED <<rDocument, rReceipt, rSection, rItem, rRevision, rIssue, rComment>>
  BY <1>0 DEF R!CreateChild, R!UpdateChild, R!DeleteChild, R!documents, R!texts
<1>2. RUnder(c) /\ (R!Done(c) \/ R!Goto(c, "saved"))
  BY <1>0 DEF R!CreateChild, R!UpdateChild, R!DeleteChild, RUnder, R!At
<1>3. CallPart'
  BY <1>1, <1>2, Ending, ItemsKept, CallsLeave DEF RInv
<1>4. PICK k \in R!Children : k = rCalls[c].ask.child
  BY <1>0, <1>2, AskShape DEF R!At, RAskFits
<1>5. TalkPart'
  <2>1. PICK q \in R!Child : q = rChild[k]
    BY DEF RInv, TalkPart
  <2>2. CASE R!CreateChild(c)
    <3>1. [state |-> "live", text |-> "a"] \in R!Child
      BY DEF R!Child
    <3>. QED  BY <1>1, <2>2, <3>1 DEF R!CreateChild, RInv, TalkPart
  <2>3. CASE R!UpdateChild(c)
    <3>1. rCalls[c].ask.text = "b"
      BY <1>2, <2>3, AskShape DEF R!UpdateChild, RAskFits
    <3>2. PICK n : n = [q EXCEPT !.text = "b"]
      OBVIOUS
    <3>3. n \in R!Child
      BY <3>2 DEF R!Child
    <3>4. rChild' = rChild \/ rChild' = [rChild EXCEPT ![k] = n]
      BY <1>4, <2>1, <2>3, <3>1, <3>2 DEF R!UpdateChild
    <3>. QED  BY <1>1, <3>3, <3>4 DEF RInv, TalkPart
  <2>4. CASE R!DeleteChild(c)
    <3>1. PICK n : n = [q EXCEPT !.state = "absent"]
      OBVIOUS
    <3>2. n \in R!Child
      BY <3>1 DEF R!Child
    <3>3. rChild' = [rChild EXCEPT ![k] = n]
      BY <1>4, <2>1, <2>4, <3>1 DEF R!DeleteChild
    <3>. QED  BY <1>1, <3>2, <3>3 DEF RInv, TalkPart
  <2>. QED  BY <1>0, <2>2, <2>3, <2>4
<1>. QED  BY <1>1, <1>3, <1>5, Rest DEF RInv

LEMMA FlushedComment ==
    ASSUME NEW r \in R!TargetComment, NEW s \in R!TargetComment, NEW n \in R!TargetComment
    PROVE  R!Flushed(r, s, n) \in R!TargetComment
<1>1. DOMAIN r = {"state", "resolved", "mentions", "version"}
  BY DEF R!TargetComment
<1>2. PICK a, o, t, v : /\ a = (IF n.state # s.state THEN n.state ELSE r.state)
                        /\ o = (IF n.resolved # s.resolved THEN n.resolved ELSE r.resolved)
                        /\ t = (IF n.mentions # s.mentions THEN n.mentions ELSE r.mentions)
                        /\ v = (IF n.version # s.version THEN n.version ELSE r.version)
  OBVIOUS
<1>3. R!Flushed(r, s, n) = [state |-> a, resolved |-> o, mentions |-> t, version |-> v]
  BY <1>1, <1>2 DEF R!Flushed
<1>4. a \in R!RowState /\ o \in BOOLEAN /\ t \in SUBSET Users /\ v \in Nat
  BY <1>2 DEF R!TargetComment
<1>. QED  BY <1>3, <1>4 DEF R!TargetComment

LEMMA CommentChanged ==
    ASSUME NEW s \in R!TargetComment
    PROVE  /\ \A b \in BOOLEAN : R!Marked(s, b) \in R!TargetComment
           /\ \A m \in SUBSET Users : [s EXCEPT !.mentions = m, !.version = @ + 1] \in R!TargetComment
           /\ \A p : R!Removed(s, p) \in R!TargetComment
<1>1. s = [state |-> s.state, resolved |-> s.resolved, mentions |-> s.mentions, version |-> s.version]
  BY DEF R!TargetComment
<1>2. s.state \in R!RowState /\ s.resolved \in BOOLEAN /\ s.mentions \in SUBSET Users /\ s.version \in Nat
  BY DEF R!TargetComment
<1>3. ASSUME NEW b \in BOOLEAN PROVE R!Marked(s, b) \in R!TargetComment
  <2>1. PICK w : w = [s EXCEPT !.resolved = b]
    OBVIOUS
  <2>2. w = [state |-> s.state, resolved |-> b, mentions |-> s.mentions, version |-> s.version]
    BY <1>1, <2>1
  <2>3. [w EXCEPT !.version = @ + 1] = [state |-> s.state, resolved |-> b, mentions |-> s.mentions, version |-> s.version + 1]
    BY <2>2
  <2>4. R!Marked(s, b) = [w EXCEPT !.version = @ + 1]
    BY <2>1 DEF R!Marked
  <2>. QED  BY <1>2, <2>3, <2>4 DEF R!TargetComment
<1>4. ASSUME NEW m \in SUBSET Users PROVE [s EXCEPT !.mentions = m, !.version = @ + 1] \in R!TargetComment
  <2>1. PICK w : w = [s EXCEPT !.mentions = m]
    OBVIOUS
  <2>2. w = [state |-> s.state, resolved |-> s.resolved, mentions |-> m, version |-> s.version]
    BY <1>1, <2>1
  <2>3. [w EXCEPT !.version = @ + 1]
          = [state |-> s.state, resolved |-> s.resolved, mentions |-> m, version |-> s.version + 1]
    BY <2>2
  <2>4. [s EXCEPT !.mentions = m, !.version = @ + 1] = [w EXCEPT !.version = @ + 1]
    BY <2>1
  <2>. QED  BY <1>2, <2>3, <2>4 DEF R!TargetComment
<1>5. ASSUME NEW p PROVE R!Removed(s, p) \in R!TargetComment
  <2>1. PICK w : w = R!Deleted(s)
    OBVIOUS
  <2>2. w = [state |-> "deleted", resolved |-> s.resolved, mentions |-> s.mentions, version |-> s.version]
    BY <1>1, <2>1 DEF R!Deleted
  <2>3. PICK m : m = s.mentions \ p.mentions
    OBVIOUS
  <2>4. [w EXCEPT !.mentions = m]
          = [state |-> "deleted", resolved |-> s.resolved, mentions |-> m, version |-> s.version]
    BY <2>2
  <2>5. R!Removed(s, p) = [w EXCEPT !.mentions = m]
    BY <2>1, <2>3 DEF R!Removed
  <2>. QED  BY <1>2, <2>3, <2>4, <2>5 DEF R!TargetComment, R!RowState
<1>. QED  BY <1>3, <1>4, <1>5

LEMMA RComments ==
    ASSUME RInv, NEW c \in Calls, R!TargetComments(c)
    PROVE  RInv'
<1>1. UNCHANGED <<rDocument, rReceipt, rSection, rItem, rRevision, rIssue, rChild>>
  BY DEF R!TargetComments, R!CreateComment, R!UpdateComment, R!SetResolved, R!DeleteComment, R!documents, R!texts
<1>2. RUnder(c) /\ (R!Done(c) \/ R!Goto(c, "saved"))
  BY DEF R!TargetComments, R!CreateComment, R!UpdateComment, R!SetResolved, R!DeleteComment, RUnder, R!At
<1>3. CallPart'
  BY <1>1, <1>2, Ending, ItemsKept, CallsLeave DEF RInv
<1>4. PICK d, p : d = rCalls[c].ask /\ p = rCalls[c].seen
  OBVIOUS
<1>5. RAskFits(d) /\ SeenFits(d, p)
  BY <1>2, <1>4, AskShape
<1>6. d.op \in {"comment", "recomment", "uncomment", "resolve", "reopen"}
  BY <1>4 DEF R!TargetComments, R!CreateComment, R!UpdateComment, R!SetResolved, R!DeleteComment, R!At
<1>7. PICK x \in R!Targets : x = d.target
  BY <1>5, <1>6 DEF RAskFits
<1>8. rComment[x] \in R!TargetComment
  BY DEF RInv, TalkPart
<1>9. PICK n \in R!TargetComment : rComment' = rComment \/ rComment' = [rComment EXCEPT ![x] = n]
  <2>1. CASE R!CreateComment(c)
    <3>1. R!NewComment(d.mentions) \in R!TargetComment
      BY <1>4, <1>5, <2>1 DEF R!CreateComment, R!At, RAskFits, R!NewComment, R!TargetComment, R!RowState
    <3>. QED  BY <1>4, <1>7, <2>1, <3>1 DEF R!CreateComment
  <2>2. CASE R!UpdateComment(c)
    <3>1. p \in R!TargetComment /\ d.mentions \in SUBSET Users
      BY <1>4, <1>5, <2>2 DEF R!UpdateComment, R!At, SeenFits, RAskFits
    <3>2. PICK w \in R!TargetComment : w = [p EXCEPT !.mentions = d.mentions, !.version = @ + 1]
      BY <3>1, CommentChanged
    <3>3. rComment' = [rComment EXCEPT ![x] = R!Flushed(rComment[x], p, w)]
      BY <1>4, <1>7, <2>2, <3>2 DEF R!UpdateComment
    <3>. QED  BY <1>8, <3>1, <3>3, FlushedComment
  <2>3. CASE R!SetResolved(c)
    <3>1. p \in R!TargetComment
      BY <1>4, <1>5, <2>3 DEF R!SetResolved, R!At, SeenFits
    <3>2. PICK b \in BOOLEAN : b = (d.op = "resolve")
      OBVIOUS
    <3>3. rComment' = [rComment EXCEPT ![x] = R!Flushed(rComment[x], p, R!Marked(p, b))]
      BY <1>4, <1>7, <2>3, <3>2 DEF R!SetResolved
    <3>. QED  BY <1>8, <3>1, <3>3, CommentChanged, FlushedComment
  <2>4. CASE R!DeleteComment(c)
    <3>1. rComment' = [rComment EXCEPT ![x] = R!Removed(rComment[x], p)]
      BY <1>4, <1>7, <2>4 DEF R!DeleteComment
    <3>. QED  BY <1>8, <3>1, CommentChanged
  <2>. QED  BY <2>1, <2>2, <2>3, <2>4 DEF R!TargetComments
<1>10. TalkPart'
  BY <1>1, <1>9 DEF RInv, TalkPart
<1>. QED  BY <1>1, <1>3, <1>10, Rest DEF RInv

-----------------------------------------------------------------------------
(* Open issues and requirements.  Numbers stay bounded, revisions without a *)
(* gap or a fork, and a call about to save has the row as it is.            *)
LEMMA StillNumbered ==
    ASSUME NEW S, NEW f, NEW g, NEW x \in S, DOMAIN f = S, DOMAIN g = S, Numbered(f),
           \A y \in S : f[y].code \in Nat, g[x].code \in Nat, f[x].code <= g[x].code,
           \A y \in S \ {x} : g[y].code = f[y].code
    PROVE  Numbered(g)
<1>1. PICK n \in R!Numbers(f) : \A m \in R!Numbers(f) : m <= n
  BY DEF Numbered
<1>2. n \in Nat /\ \A y \in S : f[y].code <= n
  BY <1>1 DEF R!Numbers
<1>3. \A m \in R!Numbers(g) : m = 0 \/ m = g[x].code \/ \E y \in S \ {x} : m = f[y].code
  BY DEF R!Numbers
<1>4. CASE n <= g[x].code
  <2>1. g[x].code \in R!Numbers(g)
    BY DEF R!Numbers
  <2>2. \A m \in R!Numbers(g) : m <= g[x].code
    BY <1>2, <1>3, <1>4
  <2>. QED  BY <2>1, <2>2 DEF Numbered
<1>5. CASE ~(n <= g[x].code)
  <2>1. n \in R!Numbers(g)
    BY <1>1, <1>2, <1>5 DEF R!Numbers
  <2>2. \A m \in R!Numbers(g) : m <= n
    BY <1>2, <1>3, <1>5
  <2>. QED  BY <2>1, <2>2 DEF Numbered
<1>. QED  BY <1>4, <1>5

LEMMA IssueWritten ==
    ASSUME RInv, NEW x \in Issues, NEW n \in R!OpenIssue, rIssue' = [rIssue EXCEPT ![x] = n],
           \/ rIssue[x].state = "absent" /\ n.state # "absent"
           \/ n.code = rIssue[x].code /\ (n.state = "absent" => rIssue[x].state = "absent")
    PROVE  IssuePart'
<1>1. rIssue' \in [Issues -> R!OpenIssue] /\ rIssue'[x] = n /\ \A y \in Issues \ {x} : rIssue'[y] = rIssue[y]
  BY DEF RInv, IssuePart
<1>2. DOMAIN rIssue = Issues /\ DOMAIN rIssue' = Issues
  BY <1>1 DEF RInv, IssuePart
<1>3. \A y \in Issues : rIssue[y].code \in Nat /\ rIssue'[y].code \in Nat
  BY <1>1 DEF RInv, IssuePart, R!OpenIssue
<1>4. rIssue[x].code <= n.code
  BY <1>1, <1>3 DEF RInv, IssuePart, IssuesFit
<1>5. Numbered(rIssue)'
  <2>1. PICK f, g : f = rIssue /\ g = rIssue'
    OBVIOUS
  <2>2. Numbered(g)
    BY <1>1, <1>2, <1>3, <1>4, <2>1, StillNumbered DEF RInv, IssuePart, IssuesFit
  <2>3. R!Numbers(g) = R!Numbers(rIssue)'
    BY <2>1 DEF R!Numbers
  <2>. QED  BY <2>2, <2>3 DEF Numbered
<1>. QED  BY <1>1, <1>5 DEF RInv, IssuePart, IssuesFit

LEMMA FlushedIssue ==
    ASSUME NEW r \in R!OpenIssue, NEW s \in R!OpenIssue, NEW n \in R!OpenIssue, n.state = s.state, n.code = s.code
    PROVE  /\ R!Flushed(r, s, n) \in R!OpenIssue
           /\ R!Flushed(r, s, n).state = r.state /\ R!Flushed(r, s, n).code = r.code
<1>1. DOMAIN r = {"state", "assignee", "status", "related", "code", "version"}
  BY DEF R!OpenIssue
<1>2. PICK a, b, d, v : /\ a = (IF n.assignee # s.assignee THEN n.assignee ELSE r.assignee)
                        /\ b = (IF n.status # s.status THEN n.status ELSE r.status)
                        /\ d = (IF n.related # s.related THEN n.related ELSE r.related)
                        /\ v = (IF n.version # s.version THEN n.version ELSE r.version)
  OBVIOUS
<1>3. R!Flushed(r, s, n) = [state |-> r.state, assignee |-> a, status |-> b, related |-> d, code |-> r.code, version |-> v]
  BY <1>1, <1>2 DEF R!Flushed
<1>4. /\ a \in Users \cup {NoOne} /\ b \in {"open", "resolved"} /\ d \in Items \cup {None} /\ v \in Nat
      /\ r.state \in R!RowState /\ r.code \in Nat
  BY <1>2 DEF R!OpenIssue
<1>. QED  BY <1>3, <1>4 DEF R!OpenIssue

Reassigned(i, r, u) == [i EXCEPT !.related = r, !.assignee = u, !.version = @ + 1]

LEMMA IssueChanged ==
    ASSUME NEW i \in R!OpenIssue, NEW r \in Items \cup {None}
    PROVE  /\ R!Promoted(i, r) \in R!OpenIssue /\ R!Promoted(i, r).state = i.state /\ R!Promoted(i, r).code = i.code
           /\ \A u \in Users : /\ Reassigned(i, r, u) \in R!OpenIssue
                               /\ Reassigned(i, r, u).state = i.state /\ Reassigned(i, r, u).code = i.code
           /\ R!Deleted(i) \in R!OpenIssue /\ R!Deleted(i).state = "deleted" /\ R!Deleted(i).code = i.code
<1>1. i = [state |-> i.state, assignee |-> i.assignee, status |-> i.status, related |-> i.related,
           code |-> i.code, version |-> i.version]
  BY DEF R!OpenIssue
<1>2. /\ i.state \in R!RowState /\ i.assignee \in Users \cup {NoOne} /\ i.status \in {"open", "resolved"}
      /\ i.code \in Nat /\ i.version \in Nat
  BY DEF R!OpenIssue
<1>3. PICK w : w = [i EXCEPT !.related = r]
  OBVIOUS
<1>4. w = [state |-> i.state, assignee |-> i.assignee, status |-> i.status, related |-> r,
           code |-> i.code, version |-> i.version]
  BY <1>1, <1>3
<1>5. R!Promoted(i, r) \in R!OpenIssue /\ R!Promoted(i, r).state = i.state /\ R!Promoted(i, r).code = i.code
  <2>1. PICK z : z = [w EXCEPT !.status = "resolved"]
    OBVIOUS
  <2>2. z = [state |-> i.state, assignee |-> i.assignee, status |-> "resolved", related |-> r,
             code |-> i.code, version |-> i.version]
    BY <1>4, <2>1
  <2>3. PICK n : n = [z EXCEPT !.version = @ + 1]
    OBVIOUS
  <2>4. n = [state |-> i.state, assignee |-> i.assignee, status |-> "resolved", related |-> r,
             code |-> i.code, version |-> i.version + 1]
    BY <2>2, <2>3
  <2>5. [w EXCEPT !.status = "resolved", !.version = @ + 1] = n
    BY <2>1, <2>3
  <2>6. R!Promoted(i, r) = n
    BY <1>3, <2>5 DEF R!Promoted
  <2>. QED  BY <1>2, <2>4, <2>6 DEF R!OpenIssue
<1>6. ASSUME NEW u \in Users, NEW n, n = Reassigned(i, r, u)
      PROVE  n \in R!OpenIssue /\ n.state = i.state /\ n.code = i.code
  <2>1. PICK z : z = [w EXCEPT !.assignee = u]
    OBVIOUS
  <2>2. z = [state |-> i.state, assignee |-> u, status |-> i.status, related |-> r,
             code |-> i.code, version |-> i.version]
    BY <1>4, <2>1
  <2>3. PICK m : m = [z EXCEPT !.version = @ + 1]
    OBVIOUS
  <2>4. m = [state |-> i.state, assignee |-> u, status |-> i.status, related |-> r,
             code |-> i.code, version |-> i.version + 1]
    BY <2>2, <2>3
  <2>5. [w EXCEPT !.assignee = u, !.version = @ + 1] = m
    BY <2>1, <2>3
  <2>6. n = m
    BY <1>3, <1>6, <2>5 DEF Reassigned
  <2>. QED  BY <1>2, <2>4, <2>6 DEF R!OpenIssue
<1>7. R!Deleted(i) \in R!OpenIssue /\ R!Deleted(i).state = "deleted" /\ R!Deleted(i).code = i.code
  <2>1. PICK n : n = R!Deleted(i)
    OBVIOUS
  <2>2. n = [state |-> "deleted", assignee |-> i.assignee, status |-> i.status, related |-> i.related,
             code |-> i.code, version |-> i.version]
    BY <1>1, <2>1 DEF R!Deleted
  <2>. QED  BY <1>2, <2>1, <2>2 DEF R!OpenIssue, R!RowState
<1>. QED  BY <1>5, <1>6, <1>7

\* A request that met a taken number tries the next one, or gives up.
LEMMA Renumbers ==
    ASSUME RInv, NEW c \in Calls, NEW free, R!Renumber(c, free), rCalls[c].at = "read",
           rCalls[c].ask.op \in {"item", "issue", "promote"}, rItem' = rItem
    PROVE  CallPart'
<1>1. PICK d, s, t, v, n : /\ rCalls[c] = [at |-> "read", ask |-> d, seen |-> s, tries |-> t, named |-> v, number |-> n]
                           /\ RAskFits(d) /\ SeenFits(d, s) /\ v \in Nat /\ n \in Nat
  BY AskShape DEF RInv, CallPart, RCallsFit, RCallFits, RUnder
<1>2. R!MaxNumber(rItem) + 1 \in Nat /\ R!MaxNumber(rIssue) + 1 \in Nat
  BY NextNumbers
<1>3. PICK q : q = rCalls[c]
  OBVIOUS
<1>4. q = [at |-> "read", ask |-> d, seen |-> s, tries |-> t, named |-> v, number |-> n] /\ RCallsFit
  BY <1>1, <1>3 DEF RInv, CallPart
<1>5. ASSUME NEW k \in Nat, NEW z, SeenFits(d, z),
             rCalls' = [rCalls EXCEPT ![c] = [at |-> "read", ask |-> d, seen |-> z, tries |-> t + 1, named |-> v, number |-> k]]
      PROVE  CallPart'
  <2>1. PICK m : m = [at |-> "read", ask |-> d, seen |-> z, tries |-> t + 1, named |-> v, number |-> k]
    OBVIOUS
  <2>2. rCalls' = [rCalls EXCEPT ![c] = m]
    BY <1>5, <2>1
  <2>3. rCalls'[c] = m /\ RMoves(c)
    BY <1>4, <2>2 DEF RCallsFit, RMoves
  <2>4. RCallFits(c)'
    BY <1>1, <1>5, <2>1, <2>3 DEF RCallFits
  <2>5. ItemSeen(c)' /\ Clear(c)
    BY <1>1, <2>1, <2>3 DEF ItemSeen, Naming, Clear
  <2>. QED  BY <2>3, <2>4, <2>5, ItemsKept, CallsMove DEF RInv
<1>6. PICK w : w = [q EXCEPT !.tries = @ + 1]
  OBVIOUS
<1>7. w = [at |-> "read", ask |-> d, seen |-> s, tries |-> t + 1, named |-> v, number |-> n]
  BY <1>4, <1>6
<1>8. CASE R!Done(c)
  BY <1>8, Ending, ItemsKept, CallsLeave DEF RInv
<1>9. CASE rCalls' = [rCalls EXCEPT ![c].tries = @ + 1, ![c].number = R!MaxNumber(rItem) + 1, ![c].seen = R!Reread(c)]
  <2>1. PICK k \in Nat, z \in {R!Reread(c)} : k = R!MaxNumber(rItem) + 1
    BY <1>2
  <2>2. SeenFits(d, z)
    BY <1>1, <2>1, SubjectFits, RTypes DEF R!Reread
  <2>3. PICK y : y = [w EXCEPT !.number = k]
    OBVIOUS
  <2>4. y = [at |-> "read", ask |-> d, seen |-> s, tries |-> t + 1, named |-> v, number |-> k]
    BY <1>7, <2>3
  <2>5. [y EXCEPT !.seen = z] = [at |-> "read", ask |-> d, seen |-> z, tries |-> t + 1, named |-> v, number |-> k]
    BY <2>4
  <2>6. rCalls' = [rCalls EXCEPT ![c].tries = @ + 1, ![c].number = k, ![c].seen = z]
    BY <1>9, <2>1
  <2>7. [q EXCEPT !.tries = @ + 1, !.number = k, !.seen = z] = [y EXCEPT !.seen = z]
    BY <1>6, <2>3
  <2>8. rCalls' = [rCalls EXCEPT ![c] = [q EXCEPT !.tries = @ + 1, !.number = k, !.seen = z]]
    BY <1>3, <1>4, <2>6 DEF RCallsFit
  <2>. QED  BY <1>5, <2>2, <2>5, <2>7, <2>8
<1>10. ASSUME NEW k \in Nat, rCalls' = [rCalls EXCEPT ![c].tries = @ + 1, ![c].number = k]
       PROVE  CallPart'
  <2>1. [w EXCEPT !.number = k] = [at |-> "read", ask |-> d, seen |-> s, tries |-> t + 1, named |-> v, number |-> k]
    BY <1>7
  <2>2. [q EXCEPT !.tries = @ + 1, !.number = k] = [w EXCEPT !.number = k]
    BY <1>6
  <2>3. rCalls' = [rCalls EXCEPT ![c] = [q EXCEPT !.tries = @ + 1, !.number = k]]
    BY <1>3, <1>4, <1>10 DEF RCallsFit
  <2>. QED  BY <1>1, <1>5, <2>1, <2>2, <2>3
<1>. QED  BY <1>2, <1>8, <1>9, <1>10 DEF R!Renumber

LEMMA ItemShape ==
    ASSUME RInv, NEW x \in Items
    PROVE  rItem[x] \in R!Requirement /\ rItem[x].version \in Nat /\ rItem[x].code \in Nat /\ rItem[x].text \in R!Text
BY DEF RInv, ItemPart, R!Requirement

LEMMA ItemsStillFit ==
    ASSUME RInv, NEW x \in Items, NEW n \in R!Requirement, rItem' = [rItem EXCEPT ![x] = n], n.state # "absent",
           n.version # 0, rItem[x].state = "absent" \/ n.code = rItem[x].code
    PROVE  /\ rItem' \in [Items -> R!Requirement] /\ ItemsFit'
           /\ rItem'[x] = n /\ \A y \in Items \ {x} : rItem'[y] = rItem[y]
<1>1. rItem' \in [Items -> R!Requirement] /\ rItem'[x] = n /\ \A y \in Items \ {x} : rItem'[y] = rItem[y]
  BY DEF RInv, ItemPart
<1>2. DOMAIN rItem = Items /\ DOMAIN rItem' = Items
  BY <1>1 DEF RInv, ItemPart
<1>3. \A y \in Items : rItem[y].code \in Nat /\ rItem'[y].code \in Nat
  BY <1>1 DEF RInv, ItemPart, R!Requirement
<1>4. rItem[x].code <= n.code
  BY <1>1, <1>3 DEF RInv, ItemPart, ItemsFit
<1>5. Numbered(rItem)'
  <2>1. PICK f, g : f = rItem /\ g = rItem'
    OBVIOUS
  <2>2. Numbered(g)
    BY <1>1, <1>2, <1>3, <1>4, <2>1, StillNumbered DEF RInv, ItemPart, ItemsFit
  <2>3. R!Numbers(g) = R!Numbers(rItem)'
    BY <2>1 DEF R!Numbers
  <2>. QED  BY <2>2, <2>3 DEF Numbered
<1>. QED  BY <1>1, <1>5 DEF RInv, ItemPart, ItemsFit

\* The first version of a requirement has no revision, and a deletion is no version.
LEMMA ItemWritten ==
    ASSUME RInv, NEW x \in Items, NEW n \in R!Requirement, rItem' = [rItem EXCEPT ![x] = n], n.state # "absent",
           rRevision' = rRevision,
           \/ rItem[x].state = "absent" /\ n.version = 1
           \/ /\ rItem[x].state # "absent" /\ n.code = rItem[x].code
              /\ n.version = rItem[x].version /\ n.text = rItem[x].text
    PROVE  ItemPart'
<1>1. /\ rItem' \in [Items -> R!Requirement] /\ ItemsFit'
      /\ rItem'[x] = n /\ \A y \in Items \ {x} : rItem'[y] = rItem[y]
  <2>1. n.version # 0
    BY ItemShape DEF RInv, ItemPart, ItemsFit
  <2>. QED  BY <2>1, ItemsStillFit
<1>2. \A y \in Items : rItem[y].version \in Nat /\ rItem'[y].version \in Nat
  BY <1>1 DEF RInv, ItemPart, R!Requirement
<1>3. rItem[x].state = "absent" => \A e \in rRevision : e[1] # x
  BY <1>2 DEF RInv, ItemPart, RevisionsFit, RevisionFits, ItemsFit
<1>4. RevisionsFit'
  BY <1>1, <1>2, <1>3 DEF RInv, ItemPart, RevisionsFit, RevisionFits
<1>5. R!RevisionsChain'
  <2>. SUFFICES ASSUME NEW r \in Items
                PROVE  LET of == {e \in rRevision : e[1] = r}
                       IN /\ \A e \in of : e[2] > 2 => \E f \in of : f[2] = e[2] - 1 /\ f[4] = e[3]
                          /\ \A e, f \in of : e[2] = f[2] => e = f
                          /\ \A e \in of : e[2] = rItem'[r].version => e[4] = rItem'[r].text
                          /\ rItem'[r].version > 1 => \E e \in of : e[2] = rItem'[r].version
    BY DEF R!RevisionsChain
  <2>1. CASE r = x /\ rItem[x].state = "absent"
    BY <1>1, <1>3, <2>1 DEF RInv, ItemPart, ItemsFit
  <2>2. CASE ~(r = x /\ rItem[x].state = "absent")
    <3>1. rItem'[r].version = rItem[r].version /\ rItem'[r].text = rItem[r].text
      BY <1>1, <2>2
    <3>. QED  BY <3>1 DEF RInv, ItemPart, R!RevisionsChain
  <2>. QED  BY <2>1, <2>2
<1>. QED  BY <1>1, <1>4, <1>5 DEF ItemPart

\* A save adds the next version and the revision that leads to it.
LEMMA ItemRevised ==
    ASSUME RInv, NEW x \in Items, NEW n \in R!Requirement, rItem' = [rItem EXCEPT ![x] = n], n.state # "absent",
           rItem[x].state # "absent", n.code = rItem[x].code, n.version = rItem[x].version + 1,
           rRevision' = rRevision \cup {<<x, n.version, rItem[x].text, n.text>>}
    PROVE  ItemPart'
<1>1. /\ rItem' \in [Items -> R!Requirement] /\ ItemsFit'
      /\ rItem'[x] = n /\ \A y \in Items \ {x} : rItem'[y] = rItem[y]
  <2>1. n.version # 0
    BY ItemShape DEF RInv, ItemPart, ItemsFit
  <2>. QED  BY <2>1, ItemsStillFit
<1>2. \A y \in Items : rItem[y].version \in Nat /\ rItem'[y].version \in Nat
  BY <1>1 DEF RInv, ItemPart, R!Requirement
<1>3. PICK g : g = <<x, n.version, rItem[x].text, n.text>>
  OBVIOUS
<1>4. g = <<g[1], g[2], g[3], g[4]>> /\ g[1] = x /\ g[2] = rItem[x].version + 1 /\ g[3] = rItem[x].text /\ g[4] = n.text
  BY <1>3
<1>5. rRevision' = rRevision \cup {g}
  BY <1>3
<1>6. \A e \in rRevision : RevisionFits(e)
  BY DEF RInv, ItemPart, RevisionsFit
<1>7. rItem[x].version >= 1
  <2>1. PICK v \in Nat : v = rItem[x].version
    BY <1>2
  <2>2. CASE v = 0
    BY <2>1, <2>2 DEF RInv, ItemPart, ItemsFit
  <2>. QED  BY <2>1, <2>2
<1>8. RevisionsFit'
  <2>1. RevisionFits(g)'
    BY <1>1, <1>2, <1>4, <1>7 DEF RevisionFits
  <2>2. \A e \in rRevision : RevisionFits(e)'
    BY <1>1, <1>2, <1>6 DEF RevisionFits
  <2>. QED  BY <1>5, <2>1, <2>2 DEF RevisionsFit
<1>9. R!RevisionsChain'
  <2>. SUFFICES ASSUME NEW r \in Items
                PROVE  LET of == {e \in rRevision' : e[1] = r}
                       IN /\ \A e \in of : e[2] > 2 => \E f \in of : f[2] = e[2] - 1 /\ f[4] = e[3]
                          /\ \A e, f \in of : e[2] = f[2] => e = f
                          /\ \A e \in of : e[2] = rItem'[r].version => e[4] = rItem'[r].text
                          /\ rItem'[r].version > 1 => \E e \in of : e[2] = rItem'[r].version
    BY DEF R!RevisionsChain
  <2>1. PICK old : old = {e \in rRevision : e[1] = r}
    OBVIOUS
  <2>2. /\ \A e \in old : e[2] > 2 => \E f \in old : f[2] = e[2] - 1 /\ f[4] = e[3]
        /\ \A e, f \in old : e[2] = f[2] => e = f
        /\ \A e \in old : e[2] = rItem[r].version => e[4] = rItem[r].text
        /\ rItem[r].version > 1 => \E e \in old : e[2] = rItem[r].version
    BY <2>1 DEF RInv, ItemPart, R!RevisionsChain
  <2>3. CASE r # x
    <3>1. {e \in rRevision' : e[1] = r} = old /\ rItem'[r] = rItem[r]
      BY <1>1, <1>4, <1>5, <2>1, <2>3
    <3>. QED  BY <2>2, <3>1
  <2>4. CASE r = x
    <3>1. {e \in rRevision' : e[1] = r} = old \cup {g}
      BY <1>4, <1>5, <2>1, <2>4
    <3>2. \A e \in old : e[2] \in Nat /\ e[2] <= rItem[x].version
      BY <1>2, <1>6, <2>1, <2>4 DEF RevisionFits
    <3>3. g[2] > 2 => \E f \in old : f[2] = g[2] - 1 /\ f[4] = g[3]
      BY <1>2, <1>4, <2>2, <2>4
    <3>4. rItem'[r].version = g[2] /\ rItem'[r].text = g[4] /\ \A e \in old : e[2] # g[2]
      BY <1>1, <1>2, <1>4, <2>4, <3>2
    <3>. QED  BY <2>2, <3>1, <3>3, <3>4
  <2>. QED  BY <2>3, <2>4
<1>. QED  BY <1>1, <1>8, <1>9 DEF ItemPart

LEMMA Merged ==
    ASSUME NEW t \in R!Text, NEW s \in [text : {"a", "b"}] \cup [owner : Users]
    PROVE  R!Amended(t, s) \in R!Text
<1>1. DOMAIN t = {"text", "owner"}
  BY DEF R!Text
<1>2. CASE s \in [text : {"a", "b"}]
  <2>1. DOMAIN s = {"text"}
    BY <1>2
  <2>2. R!Amended(t, s) = [text |-> s.text, owner |-> t.owner]
    BY <1>1, <2>1 DEF R!Amended
  <2>. QED  BY <1>2, <2>2 DEF R!Text
<1>3. CASE s \in [owner : Users]
  <2>1. DOMAIN s = {"owner"}
    BY <1>3
  <2>2. R!Amended(t, s) = [text |-> t.text, owner |-> s.owner]
    BY <1>1, <2>1 DEF R!Amended
  <2>. QED  BY <1>3, <2>2 DEF R!Text
<1>. QED  BY <1>2, <1>3

LEMMA FlushedItem ==
    ASSUME NEW r \in R!Requirement, NEW n \in R!Requirement
    PROVE  R!Flushed(r, r, n) = n
<1>1. r = [state |-> r.state, text |-> r.text, code |-> r.code, source |-> r.source, version |-> r.version]
  BY DEF R!Requirement
<1>2. DOMAIN r = {"state", "text", "code", "source", "version"}
  BY <1>1
<1>3. n = [state |-> n.state, text |-> n.text, code |-> n.code, source |-> n.source, version |-> n.version]
  BY DEF R!Requirement
<1>4. R!Flushed(r, r, n) = [state |-> n.state, text |-> n.text, code |-> n.code, source |-> n.source, version |-> n.version]
  BY <1>2 DEF R!Flushed
<1>. QED  BY <1>3, <1>4

LEMMA NewItemFits ==
    ASSUME NEW k \in Nat, NEW o \in Users \cup {NoOne}, NEW s \in {None} \cup (Issues \X Nat), NEW n, n = R!NewItem(k, o, s)
    PROVE  n \in R!Requirement /\ n.state = "live" /\ n.version = 1 /\ n.code = k
BY DEF R!NewItem, R!Requirement, R!RowState, R!Text

LEMMA NewIssueFits ==
    ASSUME NEW k \in Nat, NEW u \in Users \cup {NoOne}, NEW n, n = R!NewIssue(k, u)
    PROVE  n \in R!OpenIssue /\ n.state = "live" /\ n.code = k
BY DEF R!NewIssue, R!OpenIssue, R!RowState

\* A requirement nobody has yet is named by no call that saves or deletes one.
LEMMA NewItemKept ==
    ASSUME RInv, NEW x \in Items, rItem[x].state = "absent", NEW n, rItem' = [rItem EXCEPT ![x] = n]
    PROVE  \A y \in Calls : ItemKept(y)
<1>. SUFFICES ASSUME NEW y \in Calls, Naming(y) PROVE ItemKept(y)
  BY DEF ItemKept
<1>1. rItem[rCalls[y].ask.item].state # "absent" /\ rCalls[y].ask.item \in Items
  BY AskShape DEF RInv, CallPart, ItemsSeen, ItemSeen, Naming, RAskFits
<1>2. rItem'[rCalls[y].ask.item] = rItem[rCalls[y].ask.item]
  BY <1>1 DEF RInv, ItemPart
<1>. QED  BY <1>1, <1>2 DEF ItemKept, RInv, CallPart, ItemsSeen, ItemSeen

LEMMA RItems ==
    ASSUME RInv, NEW c \in Calls, R!RequirementItems(c)
    PROVE  RInv'
<1>1. UNCHANGED <<rDocument, rReceipt, rSection, rIssue, rChild, rComment>>
  BY DEF R!RequirementItems, R!CreateItem, R!UpdateItem, R!DeleteItem, R!documents, R!talk
<1>2. RUnder(c)
  BY DEF R!RequirementItems, R!CreateItem, R!UpdateItem, R!DeleteItem, RUnder, R!At
<1>3. PICK d : d = rCalls[c].ask
  OBVIOUS
<1>4. RAskFits(d)
  BY <1>2, <1>3, AskShape
<1>5. PICK x \in Items : x = d.item
  BY <1>3, <1>4 DEF R!RequirementItems, R!CreateItem, R!UpdateItem, R!DeleteItem, R!At, RAskFits
<1>6. rItem[x] \in R!Requirement
  BY ItemShape
<1>7. ItemPart' /\ CallPart'
  <2>1. CASE R!CreateItem(c)
    <3>1. rCalls[c].at = "read" /\ d.op = "item" /\ d.owner \in Users \cup {NoOne} /\ rRevision' = rRevision
      BY <1>3, <1>4, <2>1 DEF R!CreateItem, R!At, RAskFits
    <3>2. CASE rItem[x].state = "absent" /\ ~R!CodeStored(rItem, rCalls[c].number)
      <4>1. PICK n \in R!Requirement : n = R!NewItem(rCalls[c].number, d.owner, None) /\ n.state = "live" /\ n.version = 1
        <5>1. PICK k \in Nat, s \in {None} \cup (Issues \X Nat) : k = rCalls[c].number /\ s = None
          BY <1>2, AskShape
        <5>. QED  BY <3>1, <5>1, NewItemFits
      <4>2. rItem' = [rItem EXCEPT ![x] = n] /\ R!Done(c)
        BY <1>3, <1>5, <2>1, <3>2, <4>1 DEF R!CreateItem
      <4>3. ItemPart'
        BY <3>1, <3>2, <4>1, <4>2, ItemWritten
      <4>4. \A y \in Calls \ {c} : ItemKept(y)
        BY <3>2, <4>2, NewItemKept
      <4>. QED  BY <4>2, <4>3, <4>4, Ending, CallsLeave DEF RInv
    <3>3. CASE ~(rItem[x].state = "absent" /\ ~R!CodeStored(rItem, rCalls[c].number))
      <4>1. PICK free : free = (rItem[x].state = "absent")
        OBVIOUS
      <4>2. R!Renumber(c, free) /\ rItem' = rItem
        BY <1>3, <1>5, <2>1, <3>3, <4>1 DEF R!CreateItem
      <4>. QED  BY <1>3, <3>1, <4>2, Renumbers, Rest
    <3>. QED  BY <3>2, <3>3
  <2>2. CASE R!UpdateItem(c)
    <3>1. rCalls[c].at = "checked" /\ d.op = "reitem" /\ R!Done(c)
      BY <1>3, <2>2 DEF R!UpdateItem, R!At
    <3>2. Naming(c) /\ rCalls[c].seen = rItem[x] /\ rItem[x].state # "absent"
      BY <1>2, <1>3, <1>5, <3>1 DEF Naming, RInv, CallPart, ItemsSeen, ItemSeen
    <3>3. PICK r \in R!Requirement : r = rItem[x]
      BY <1>6
    <3>4. r = [state |-> r.state, text |-> r.text, code |-> r.code, source |-> r.source, version |-> r.version]
      BY DEF R!Requirement
    <3>5. PICK t \in R!Text : t = R!Amended(r.text, d.set)
      BY <1>4, <3>1, Merged DEF RAskFits, R!Requirement
    <3>6. PICK w : w = [r EXCEPT !.text = t]
      OBVIOUS
    <3>7. w = [state |-> r.state, text |-> t, code |-> r.code, source |-> r.source, version |-> r.version]
      BY <3>4, <3>6
    <3>8. PICK n : n = [w EXCEPT !.version = @ + 1]
      OBVIOUS
    <3>9. n = [state |-> r.state, text |-> t, code |-> r.code, source |-> r.source, version |-> r.version + 1]
      BY <3>7, <3>8
    <3>10. n \in R!Requirement /\ n.state = r.state /\ n.text = t /\ n.code = r.code /\ n.version = r.version + 1
      BY <3>9 DEF R!Requirement
    <3>11. n = [r EXCEPT !.text = R!Amended(@, d.set), !.version = @ + 1]
      BY <3>5, <3>6, <3>8
    <3>12. rItem' = [rItem EXCEPT ![x] = n] /\ rRevision' = rRevision \cup {<<x, n.version, rItem[x].text, n.text>>}
      <4>1. /\ rItem' = [rItem EXCEPT ![x] = R!Flushed(rItem[x], r, n)]
            /\ rRevision' = rRevision \cup {R!Revision(x, r, n)}
        BY <1>3, <1>5, <2>2, <3>2, <3>3, <3>11 DEF R!UpdateItem
      <4>. QED  BY <3>3, <3>10, <4>1, FlushedItem DEF R!Revision
    <3>13. ItemPart'
      BY <3>2, <3>3, <3>10, <3>12, ItemRevised
    <3>14. \A y \in Calls \ {c} : ItemKept(y)
      <4>. SUFFICES ASSUME NEW y \in Calls \ {c}, Naming(y) PROVE ItemKept(y)
        BY DEF ItemKept
      <4>1. rItem[rCalls[y].ask.item].state # "absent" /\ rCalls[y].ask.item \in Items
        BY AskShape DEF RInv, CallPart, ItemsSeen, ItemSeen, Naming, RAskFits
      <4>2. rCalls[y].at = "checked" => rCalls[y].ask.item # x
        BY <1>3, <1>5, <3>1, <3>2 DEF RInv, CallPart, RApart
      <4>3. rItem'[x] = n /\ \A z \in Items \ {x} : rItem'[z] = rItem[z]
        BY <3>12 DEF RInv, ItemPart
      <4>. QED  BY <3>2, <3>3, <3>10, <4>1, <4>2, <4>3 DEF ItemKept
    <3>. QED  BY <3>1, <3>13, <3>14, Ending, CallsLeave DEF RInv
  <2>3. CASE R!DeleteItem(c)
    <3>1. /\ rCalls[c].at = "read" /\ d.op = "unitem" /\ R!Goto(c, "saved") /\ rRevision' = rRevision
          /\ R!Unlocked("reitem", "item", x)
      BY <1>3, <1>5, <2>3 DEF R!DeleteItem, R!At
    <3>2. Naming(c) /\ rItem[x].state # "absent"
      BY <1>2, <1>3, <1>5, <3>1 DEF Naming, RInv, CallPart, ItemsSeen, ItemSeen
    <3>3. PICK r \in R!Requirement : r = rItem[x]
      BY <1>6
    <3>4. PICK n : n = [r EXCEPT !.state = "deleted"]
      OBVIOUS
    <3>5. /\ n \in R!Requirement /\ n.state = "deleted" /\ n.text = r.text /\ n.code = r.code /\ n.version = r.version
      BY <3>4 DEF R!Requirement, R!RowState
    <3>6. rItem' = [rItem EXCEPT ![x] = n]
      BY <1>3, <1>5, <2>3, <3>3, <3>4 DEF R!DeleteItem, R!Deleted
    <3>7. ItemPart'
      BY <3>1, <3>2, <3>3, <3>5, <3>6, ItemWritten
    <3>8. \A y \in Calls \ {c} : ItemKept(y)
      <4>. SUFFICES ASSUME NEW y \in Calls \ {c}, Naming(y) PROVE ItemKept(y)
        BY DEF ItemKept
      <4>1. /\ rItem[rCalls[y].ask.item].state # "absent" /\ rCalls[y].ask.item \in Items
            /\ rCalls[y].at = "checked" => rCalls[y].ask.op \in R!LockedOps
        BY AskShape DEF RInv, CallPart, RCallsFit, RCallFits, ItemsSeen, ItemSeen, Naming, RAskFits
      <4>2. rCalls[y].at = "checked" => rCalls[y].ask.item # x
        BY <3>1, <4>1 DEF R!Unlocked, R!At, Naming, R!LockedOps
      <4>3. rItem'[x] = n /\ \A z \in Items \ {x} : rItem'[z] = rItem[z]
        BY <3>6 DEF RInv, ItemPart
      <4>. QED  BY <3>5, <4>1, <4>2, <4>3 DEF ItemKept
    <3>. QED  BY <1>2, <3>1, <3>7, <3>8, Ending, CallsLeave DEF RInv
  <2>. QED  BY <2>1, <2>2, <2>3 DEF R!RequirementItems
<1>. QED  BY <1>1, <1>7, Rest DEF RInv

LEMMA ROpenIssues ==
    ASSUME RInv, NEW c \in Calls, R!OpenIssues(c)
    PROVE  RInv'
<1>1. UNCHANGED <<rDocument, rReceipt, rSection, rRevision, rChild, rComment>>
  BY DEF R!OpenIssues, R!CreateIssue, R!UpdateIssue, R!DeleteIssue, R!Promote, R!documents, R!texts, R!talk
<1>2. RUnder(c)
  BY DEF R!OpenIssues, R!CreateIssue, R!UpdateIssue, R!DeleteIssue, R!Promote, RUnder, R!At
<1>3. PICK d, p : d = rCalls[c].ask /\ p = rCalls[c].seen
  OBVIOUS
<1>4. RAskFits(d) /\ SeenFits(d, p) /\ rCalls[c].named \in Nat
  BY <1>2, <1>3, AskShape
<1>5. PICK x \in Issues : x = d.issue
  BY <1>3, <1>4 DEF R!OpenIssues, R!CreateIssue, R!UpdateIssue, R!DeleteIssue, R!Promote, R!At, RAskFits
<1>6. rIssue[x] \in R!OpenIssue
  BY DEF RInv, IssuePart
<1>7. IssuePart' /\ ItemPart' /\ CallPart'
  <2>1. CASE R!CreateIssue(c)
    <3>1. rCalls[c].at = "read" /\ d.op = "issue" /\ d.assignee \in Users \cup {NoOne} /\ rItem' = rItem
      BY <1>3, <1>4, <2>1 DEF R!CreateIssue, R!At, RAskFits, R!texts
    <3>2. CASE rIssue[x].state = "absent" /\ ~R!CodeStored(rIssue, rCalls[c].number)
      <4>1. PICK n \in R!OpenIssue : n = R!NewIssue(rCalls[c].number, d.assignee) /\ n.state = "live"
        <5>1. PICK k \in Nat : k = rCalls[c].number
          BY <1>2, AskShape
        <5>. QED  BY <3>1, <5>1, NewIssueFits
      <4>2. rIssue' = [rIssue EXCEPT ![x] = n] /\ R!Done(c)
        BY <1>3, <1>5, <2>1, <3>2, <4>1 DEF R!CreateIssue
      <4>3. IssuePart'
        BY <3>2, <4>1, <4>2, IssueWritten
      <4>. QED  BY <1>1, <3>1, <4>2, <4>3, Ending, ItemsKept, CallsLeave, Rest DEF RInv
    <3>3. CASE ~(rIssue[x].state = "absent" /\ ~R!CodeStored(rIssue, rCalls[c].number))
      <4>1. PICK free : free = (rIssue[x].state = "absent")
        OBVIOUS
      <4>2. R!Renumber(c, free) /\ rIssue' = rIssue
        BY <1>3, <1>5, <2>1, <3>3, <4>1 DEF R!CreateIssue
      <4>. QED  BY <1>1, <1>3, <3>1, <4>2, Renumbers, Rest
    <3>. QED  BY <3>2, <3>3
  <2>2. CASE R!UpdateIssue(c)
    <3>1. p \in R!OpenIssue /\ d.related \in Items \cup {None} /\ d.assignee \in Users /\ R!Done(c) /\ rItem' = rItem
      BY <1>3, <1>4, <2>2 DEF R!UpdateIssue, R!At, SeenFits, RAskFits, R!texts
    <3>0. PICK z \in Items \cup {None}, u \in Users : z = d.related /\ u = d.assignee
      BY <3>1
    <3>2. PICK n : n = Reassigned(p, z, u)
      OBVIOUS
    <3>3. n \in R!OpenIssue /\ n.state = p.state /\ n.code = p.code
      BY <3>1, <3>2, IssueChanged
    <3>4. rIssue' = [rIssue EXCEPT ![x] = R!Flushed(rIssue[x], p, n)]
      BY <1>3, <1>5, <2>2, <3>0, <3>2 DEF R!UpdateIssue, Reassigned
    <3>5. IssuePart'
      <4>1. PICK m : m = R!Flushed(rIssue[x], p, n)
        OBVIOUS
      <4>2. m \in R!OpenIssue /\ m.state = rIssue[x].state /\ m.code = rIssue[x].code
        BY <1>6, <3>1, <3>3, <4>1, FlushedIssue
      <4>. QED  BY <1>6, <3>4, <4>1, <4>2, IssueWritten
    <3>. QED  BY <1>1, <3>1, <3>5, Ending, ItemsKept, CallsLeave, Rest DEF RInv
  <2>3. CASE R!DeleteIssue(c)
    <3>1. R!Goto(c, "saved") /\ rItem' = rItem /\ rIssue' = [rIssue EXCEPT ![x] = R!Deleted(rIssue[x])]
      BY <1>3, <1>5, <2>3 DEF R!DeleteIssue, R!texts
    <3>2. PICK n \in R!OpenIssue : n = R!Deleted(rIssue[x]) /\ n.state = "deleted" /\ n.code = rIssue[x].code
      BY <1>6, IssueChanged
    <3>3. IssuePart'
      BY <3>1, <3>2, IssueWritten
    <3>. QED  BY <1>1, <1>2, <3>1, <3>3, Ending, ItemsKept, CallsLeave, Rest DEF RInv
  <2>4. CASE R!Promote(c)
    <3>1. rCalls[c].at = "read" /\ d.op = "promote" /\ p \in R!OpenIssue
      BY <1>3, <1>4, <2>4 DEF R!Promote, R!At, SeenFits
    <3>2. PICK r \in Items : r = d.item
      BY <1>4, <3>1 DEF RAskFits
    <3>3. CASE rItem[r].state = "absent" /\ ~R!CodeStored(rItem, rCalls[c].number)
      <4>1. PICK o \in Users \cup {NoOne}, s \in {None} \cup (Issues \X Nat) :
              o = p.assignee /\ s = <<x, rCalls[c].named>>
        BY <1>4, <3>1 DEF R!OpenIssue
      <4>2. PICK n \in R!Requirement : n = R!NewItem(rCalls[c].number, o, s) /\ n.state = "live" /\ n.version = 1
        <5>1. PICK k \in Nat : k = rCalls[c].number
          BY <1>2, AskShape
        <5>. QED  BY <3>1, <4>1, <5>1, NewItemFits
      <4>3. /\ rItem' = [rItem EXCEPT ![r] = n] /\ R!Goto(c, "saved")
            /\ rIssue' = [rIssue EXCEPT ![x] = R!Flushed(rIssue[x], p, R!Promoted(p, r))]
        BY <1>3, <1>5, <2>4, <3>2, <3>3, <4>1, <4>2 DEF R!Promote
      <4>4. ItemPart'
        BY <1>1, <3>3, <4>2, <4>3, ItemWritten
      <4>5. IssuePart'
        <5>1. PICK m \in R!OpenIssue : m = R!Promoted(p, r) /\ m.state = p.state /\ m.code = p.code
          BY <3>1, IssueChanged
        <5>2. PICK k \in R!OpenIssue : k = R!Flushed(rIssue[x], p, m) /\ k.state = rIssue[x].state /\ k.code = rIssue[x].code
          BY <1>6, <3>1, <5>1, FlushedIssue
        <5>. QED  BY <4>3, <5>1, <5>2, IssueWritten
      <4>6. \A y \in Calls \ {c} : ItemKept(y)
        BY <3>3, <4>3, NewItemKept
      <4>. QED  BY <1>2, <4>3, <4>4, <4>5, <4>6, Ending, CallsLeave DEF RInv
    <3>4. CASE ~(rItem[r].state = "absent" /\ ~R!CodeStored(rItem, rCalls[c].number))
      <4>1. PICK free : free = (rItem[r].state = "absent")
        OBVIOUS
      <4>2. R!Renumber(c, free) /\ rItem' = rItem /\ rIssue' = rIssue
        BY <1>3, <2>4, <3>2, <3>4, <4>1 DEF R!Promote
      <4>. QED  BY <1>1, <1>3, <3>1, <4>2, Renumbers, Rest
    <3>. QED  BY <3>3, <3>4
  <2>. QED  BY <2>1, <2>2, <2>3, <2>4 DEF R!OpenIssues
<1>. QED  BY <1>1, <1>7, Rest DEF RInv

-----------------------------------------------------------------------------
(* Every step, and what follows.                                            *)
LEMMA RKept ==
    ASSUME RInv, [R!Next]_(R!vars)
    PROVE  RInv'
<1>1. CASE UNCHANGED R!vars
  <2>1. UNCHANGED <<rDocument, rReceipt, rSection, rItem, rIssue, rRevision, rChild, rComment, rCalls>>
    BY <1>1 DEF R!vars
  <2>2. RCallsFit'
    BY <2>1 DEF RInv, CallPart, RCallsFit, RCallFits, RUnder
  <2>3. ItemsSeen'
    BY <2>1 DEF RInv, CallPart, ItemsSeen, ItemSeen, Naming, RUnder
  <2>4. RApart'
    BY <2>1 DEF RInv, CallPart, RApart, Naming, RUnder
  <2>. QED  BY <2>1, <2>2, <2>3, <2>4, Rest DEF RInv, CallPart
<1>2. ASSUME NEW c \in Calls, R!Read(c) \/ R!Check(c) \/ R!Log(c) \/ R!Refuse(c) PROVE RInv'
  BY <1>2, RReads, RChecks, RLogs
<1>3. ASSUME NEW c \in Calls, \/ R!RequirementDocuments(c) \/ R!RequirementSections(c) \/ R!RequirementItems(c)
                              \/ R!OpenIssues(c) \/ R!RequirementChildren(c) \/ R!TargetComments(c)
      PROVE  RInv'
  BY <1>3, RDocuments, RSections, RItems, ROpenIssues, RChildren, RComments
<1>. QED  BY <1>1, <1>2, <1>3 DEF R!Next

LEMMA RBegins ==
    ASSUME R!Init
    PROVE  RInv
<1>1. DocumentPart
  <2>1. \A x \in Documents : /\ rDocument[x] \in R!RequirementDocument /\ rDocument[x].key = None
    <3>. SUFFICES ASSUME NEW x \in Documents PROVE rDocument[x] \in R!RequirementDocument /\ rDocument[x].key = None
      OBVIOUS
    <3>1. CASE x = d1
      <4>1. rDocument[x] = [state |-> "live", code |-> 1, sections |-> 0, key |-> None, version |-> 1]
        BY <3>1 DEF R!Init
      <4>. QED  BY <4>1 DEF R!RequirementDocument, R!RowState, R!Codes
    <3>2. CASE x # d1
      <4>1. rDocument[x] = [state |-> "absent", code |-> 0, sections |-> 0, key |-> None, version |-> 0]
        BY <3>2 DEF R!Init
      <4>. QED  BY <4>1 DEF R!RequirementDocument, R!RowState, R!Codes
    <3>. QED  BY <3>1, <3>2
  <2>2. rDocument = [x \in Documents |-> rDocument[x]] /\ rReceipt = [k \in Keys |-> None]
    BY DEF R!Init
  <2>3. \A k \in Keys : Made(k) = {}
    BY <2>1, RequirementsAssumption DEF Made
  <2>. QED  BY <2>1, <2>2, <2>3 DEF DocumentPart, MadeOnce
<1>2. SectionPart
  <2>1. R!NewSection \in R!RequirementSection /\ [R!NewSection EXCEPT !.state = "absent", !.version = 0] \in R!RequirementSection
    <3>1. R!NewSection = [state |-> "live", order |-> 0, title |-> "a", version |-> 1]
      BY DEF R!NewSection
    <3>2. PICK w : w = [R!NewSection EXCEPT !.state = "absent"]
      OBVIOUS
    <3>3. w = [state |-> "absent", order |-> 0, title |-> "a", version |-> 1]
      BY <3>1, <3>2
    <3>4. [w EXCEPT !.version = 0] = [state |-> "absent", order |-> 0, title |-> "a", version |-> 0]
      BY <3>3
    <3>5. [R!NewSection EXCEPT !.state = "absent", !.version = 0] = [w EXCEPT !.version = 0]
      BY <3>2
    <3>. QED  BY <3>1, <3>4, <3>5 DEF R!RequirementSection, R!RowState
  <2>2. PICK there \in BOOLEAN :
          rSection = [s \in Sections |-> IF there THEN R!NewSection ELSE [R!NewSection EXCEPT !.state = "absent", !.version = 0]]
    BY DEF R!Init
  <2>. QED  BY <2>1, <2>2 DEF SectionPart
<1>3. ItemPart
  <2>1. PICK n \in R!Requirement : n = R!NewItem(1, NoOne, None) /\ n.state = "live" /\ n.version = 1 /\ n.code = 1
    <3>1. PICK s \in {None} \cup (Issues \X Nat), o \in Users \cup {NoOne} : s = None /\ o = NoOne
      OBVIOUS
    <3>. QED  BY <3>1, NewItemFits
  <2>2. PICK m \in R!Requirement : /\ m = [R!NewItem(0, NoOne, None) EXCEPT !.state = "absent", !.version = 0]
                                 /\ m.state = "absent" /\ m.version = 0 /\ m.code = 0
    <3>1. PICK t \in R!Text : t = [text |-> "a", owner |-> NoOne]
      BY DEF R!Text
    <3>2. PICK q : q = R!NewItem(0, NoOne, None)
      OBVIOUS
    <3>3. q = [state |-> "live", text |-> t, code |-> 0, source |-> None, version |-> 1]
      BY <3>1, <3>2 DEF R!NewItem
    <3>4. PICK w : w = [q EXCEPT !.state = "absent"]
      OBVIOUS
    <3>5. w = [state |-> "absent", text |-> t, code |-> 0, source |-> None, version |-> 1]
      BY <3>3, <3>4
    <3>6. PICK z : z = [w EXCEPT !.version = 0]
      OBVIOUS
    <3>7. z = [state |-> "absent", text |-> t, code |-> 0, source |-> None, version |-> 0]
      BY <3>5, <3>6
    <3>8. z = [q EXCEPT !.state = "absent", !.version = 0]
      BY <3>4, <3>6
    <3>9. z \in R!Requirement
      BY <3>7 DEF R!Requirement, R!RowState
    <3>10. z.state = "absent" /\ z.version = 0 /\ z.code = 0
      BY <3>7
    <3>. QED  BY <3>2, <3>8, <3>9, <3>10
  <2>3. rItem = [r \in Items |-> IF r = r1 THEN n ELSE m] /\ rRevision = {}
    BY <2>1, <2>2 DEF R!Init
  <2>4. rItem \in [Items -> R!Requirement] /\ DOMAIN rItem = Items
    BY <2>3
  <2>5. \A r \in Items : rItem[r] = n \/ rItem[r] = m
    BY <2>3
  <2>6. Numbered(rItem)
    <3>1. CASE r1 \in Items
      <4>1. 1 \in R!Numbers(rItem)
        BY <2>1, <2>3, <3>1 DEF R!Numbers
      <4>2. \A k \in R!Numbers(rItem) : k = 0 \/ k = 1
        BY <2>1, <2>2, <2>4, <2>5 DEF R!Numbers
      <4>. QED  BY <4>1, <4>2 DEF Numbered
    <3>2. CASE r1 \notin Items
      <4>1. \A r \in Items : rItem[r].code = 0
        BY <2>2, <2>3, <3>2
      <4>2. R!Numbers(rItem) = {0}
        BY <2>4, <4>1 DEF R!Numbers
      <4>. QED  BY <4>2 DEF Numbered
    <3>. QED  BY <3>1, <3>2
  <2>7. \A r \in Items : /\ rItem[r].state = "absent" <=> rItem[r].version = 0
                         /\ rItem[r].state = "absent" => rItem[r].code = 0
                         /\ rItem[r].version \in {0, 1}
    <3>. SUFFICES ASSUME NEW r \in Items
                  PROVE  /\ rItem[r].state = "absent" <=> rItem[r].version = 0
                         /\ rItem[r].state = "absent" => rItem[r].code = 0
                         /\ rItem[r].version \in {0, 1}
      OBVIOUS
    <3>1. CASE rItem[r] = n
      BY <2>1, <3>1
    <3>2. CASE rItem[r] = m
      BY <2>2, <3>2
    <3>. QED  BY <2>5, <3>1, <3>2
  <2>8. ItemsFit
    BY <2>6, <2>7 DEF ItemsFit
  <2>9. RevisionsFit /\ R!RevisionsChain
    <3>1. \A r \in Items : ~(rItem[r].version > 1)
      BY <2>7
    <3>. QED  BY <2>3, <3>1 DEF RevisionsFit, R!RevisionsChain
  <2>. QED  BY <2>4, <2>8, <2>9 DEF ItemPart
<1>4. IssuePart
  <2>1. PICK u \in Users \cup {NoOne}, there \in BOOLEAN :
          rIssue = [i \in Issues |-> IF there THEN R!NewIssue(1, u)
                                    ELSE [R!NewIssue(0, NoOne) EXCEPT !.state = "absent", !.version = 0]]
    BY DEF R!Init
  <2>2. PICK n \in R!OpenIssue : n = R!NewIssue(1, u) /\ n.state = "live"
    BY NewIssueFits
  <2>3. PICK m \in R!OpenIssue : m = [R!NewIssue(0, NoOne) EXCEPT !.state = "absent", !.version = 0] /\ m.state = "absent" /\ m.code = 0
    <3>1. PICK q : q = R!NewIssue(0, NoOne)
      OBVIOUS
    <3>2. q = [state |-> "live", assignee |-> NoOne, status |-> "open", related |-> None, code |-> 0, version |-> 1]
      BY <3>1 DEF R!NewIssue
    <3>3. PICK w : w = [q EXCEPT !.state = "absent"]
      OBVIOUS
    <3>4. w = [state |-> "absent", assignee |-> NoOne, status |-> "open", related |-> None, code |-> 0, version |-> 1]
      BY <3>2, <3>3
    <3>5. PICK z : z = [w EXCEPT !.version = 0]
      OBVIOUS
    <3>6. z = [state |-> "absent", assignee |-> NoOne, status |-> "open", related |-> None, code |-> 0, version |-> 0]
      BY <3>4, <3>5
    <3>7. z = [q EXCEPT !.state = "absent", !.version = 0]
      BY <3>3, <3>5
    <3>8. z \in R!OpenIssue
      BY <3>6 DEF R!OpenIssue, R!RowState
    <3>9. z.state = "absent" /\ z.code = 0
      BY <3>6
    <3>. QED  BY <3>1, <3>7, <3>8, <3>9
  <2>4. rIssue = [i \in Issues |-> IF there THEN n ELSE m]
    BY <2>1, <2>2, <2>3
  <2>5. Numbered(rIssue)
    <3>1. PICK k \in {n.code, 0} : \A i \in Issues : rIssue[i].code = k
      BY <2>3, <2>4
    <3>2. k \in Nat /\ k >= 0 /\ DOMAIN rIssue = Issues
      BY <2>2, <2>4 DEF R!OpenIssue
    <3>3. R!Numbers(rIssue) \subseteq {0, k}
      BY <3>1, <3>2 DEF R!Numbers
    <3>4. CASE Issues = {}
      BY <3>2, <3>4 DEF Numbered, R!Numbers
    <3>5. CASE Issues # {}
      <4>1. k \in R!Numbers(rIssue)
        BY <3>1, <3>2, <3>5 DEF R!Numbers
      <4>. QED  BY <3>2, <3>3, <4>1 DEF Numbered
    <3>. QED  BY <3>4, <3>5
  <2>. QED  BY <2>2, <2>3, <2>4, <2>5 DEF IssuePart, IssuesFit
<1>5. TalkPart
  <2>1. PICK s \in {"absent", "live"} : rChild = [k \in R!Children |-> [state |-> s, text |-> "a"]]
    BY DEF R!Init
  <2>2. [state |-> s, text |-> "a"] \in R!Child
    BY DEF R!Child
  <2>3. PICK z \in {"absent", "live"}, m \in SUBSET Users :
          rComment = [t \in R!Targets |-> IF z = "absent" THEN R!NoComment ELSE R!NewComment(m)]
    BY DEF R!Init
  <2>4. R!NoComment \in R!TargetComment /\ R!NewComment(m) \in R!TargetComment
    BY DEF R!NoComment, R!NewComment, R!TargetComment, R!RowState
  <2>. QED  BY <2>1, <2>2, <2>3, <2>4 DEF TalkPart
<1>6. CallPart
  <2>1. rCalls = [c \in Calls |-> [at |-> "idle"]]
    BY DEF R!Init
  <2>2. \A c \in Calls : ~RUnder(c)
    BY <2>1 DEF RUnder
  <2>. QED  BY <2>1, <2>2 DEF CallPart, RCallsFit, RCallFits, ItemsSeen, ItemSeen, Naming, RApart
<1>. QED  BY <1>1, <1>2, <1>3, <1>4, <1>5, <1>6 DEF RInv

LEMMA SameCardinality == \A S : R!Cardinality(S) = Cardinality(S)
BY DEF R!Cardinality, Cardinality

LEMMA MadeOfOne ==
    ASSUME RInv
    PROVE  R!StandardDocumentIsMadeOnce
<1>. SUFFICES ASSUME NEW k \in Keys
              PROVE  Cardinality(Made(k)) <= 1 /\ (rReceipt[k] # None <=> Made(k) # {})
  BY SameCardinality DEF R!StandardDocumentIsMadeOnce, Made
<1>1. (rReceipt[k] # None <=> Made(k) # {}) /\ \A x, y \in Made(k) : x = y
  BY DEF RInv, DocumentPart, MadeOnce
<1>2. CASE Made(k) = {}
  BY <1>1, <1>2, FS_EmptySet
<1>3. CASE Made(k) # {}
  <2>1. PICK x : x \in Made(k)
    BY <1>3
  <2>2. Made(k) = {x}
    BY <1>1, <2>1
  <2>3. Cardinality(Made(k)) = 1
    BY <2>2, FS_Singleton
  <2>. QED  BY <1>1, <2>3
<1>. QED  BY <1>2, <1>3

-----------------------------------------------------------------------------
(* Workspaces lent to visitors.  A worker who has locked a workspace keeps  *)
(* it from ending; one cleaning it up finds it ended, whatever others did   *)
(* before it got the lock; and whoever was admitted is the only one.        *)

WOwns(w) == wWork[w].at \in {"holding", "cleaning", "deleted"}
WPlaced(w) ==
    LET d == wWork[w].demo
    IN /\ wWork[w].at \notin {"idle", "going", "admitted"} => d \in Lent
       /\ wWork[w].at = "holding" => wDemo[d].status = "active"
       /\ wWork[w].at \in {"revoked", "cleaning", "deleted"} => wDemo[d].status \in {"cleanup_pending", "cleaned"}
       /\ wWork[w].at = "deleted" /\ wDemo[d].uploads # 0 => wSwept[d] # "never"
WorkersPlaced ==
    /\ \A w \in Calls : WPlaced(w)
    /\ \A w, x \in Calls : WOwns(w) /\ WOwns(x) /\ wWork[w].demo = wWork[x].demo => w = x
    /\ \A w, x \in Calls : wWork[w].at = "admitted" /\ wWork[x].at = "admitted" => w = x

\* What a workspace's row says of its addresses, its sweeps and its data.
WFitting(d) ==
    /\ wDemo[d].status \in {"unused", "active"} => wSwept[d] = "never"
    /\ wDemo[d].status \in {"active", "cleanup_pending"} /\ wDemo[d].uploads = 0 => wDemo[d].url = "none"
    /\ wDemo[d].status \in {"cleaned", "pruned"} =>
          wDemo[d].url \in {"none", "over"} /\ (wDemo[d].url = "over" => wSwept[d] # "never")
    /\ wSwept[d] = "late" => wDemo[d].url = "over" /\ d \notin wStored
    /\ d \in wData => wDemo[d].status \in {"active", "cleanup_pending"}
WorkspacesFit == \A d \in Lent : WFitting(d)

PoolFits ==
    /\ IsFiniteSet(W!Unfinished) /\ Cardinality(W!Unfinished) <= MAX_UNFINISHED
    /\ \A w \in Calls : wWork[w].at = "admitted" => Cardinality(W!Unfinished) < MAX_UNFINISHED

WInv == W!TypeOK /\ WorkersPlaced /\ WorkspacesFit /\ PoolFits

(* What a step may do to one worker, and to one row.                        *)

LEMMA WSameCardinality == \A S : W!Cardinality(S) = Cardinality(S)
  BY DEF W!Cardinality, Cardinality

LEMMA WDoing ==
    ASSUME NEW at \in W!Steps, NEW d \in Lent \cup {None}, NEW T \in SUBSET Lent, NEW v \in Visitors \cup {None}
    PROVE  /\ W!Doing(at, d, T, v) \in W!Work
           /\ W!Doing(at, d, T, v).at = at /\ W!Doing(at, d, T, v).demo = d
BY DEF W!Doing, W!Work

\* The pool does not grow unless somebody is admitted.
LEMMA PoolShrinks ==
    ASSUME PoolFits, W!Unfinished' \subseteq W!Unfinished,
           \A w \in Calls : wWork'[w].at = "admitted" => wWork[w].at = "admitted"
    PROVE  PoolFits'
<1>1. IsFiniteSet(W!Unfinished)' /\ Cardinality(W!Unfinished)' <= Cardinality(W!Unfinished)
  BY FS_Subset DEF PoolFits
<1>2. Cardinality(W!Unfinished) \in Nat /\ Cardinality(W!Unfinished)' \in Nat
  BY <1>1, FS_CardinalityType DEF PoolFits
<1>. QED  BY <1>1, <1>2, WorkspacesAssumption DEF PoolFits

\* One worker turns to something else, and no row changes.
LEMMA WTurns ==
    ASSUME WInv, NEW w \in Calls, NEW x \in W!Work, UNCHANGED <<wDemo, wData, wStored>>,
           wSwept' \in [Lent -> {"never", "early", "late"}], wStarts' \in [Visitors -> Nat],
           \A d \in Lent : wSwept'[d] = wSwept[d], W!Turns(w, x), x.at # "admitted",
           x.at \notin {"idle", "going", "admitted"} => x.demo \in Lent,
           x.at = "holding" => wDemo[x.demo].status = "active",
           x.at \in {"revoked", "cleaning", "deleted"} => wDemo[x.demo].status \in {"cleanup_pending", "cleaned"},
           x.at = "deleted" /\ wDemo[x.demo].uploads # 0 => wSwept[x.demo] # "never",
           x.at \in {"holding", "cleaning", "deleted"} =>
               \A y \in Calls \ {w} : WOwns(y) => wWork[y].demo # x.demo
    PROVE  WInv'
<1>1. /\ wWork' \in [Calls -> W!Work] /\ wWork'[w] = x
      /\ \A y \in Calls \ {w} : wWork'[y] = wWork[y]
  BY DEF WInv, W!TypeOK, W!Turns
<1>2. W!TypeOK'
  BY <1>1 DEF WInv, W!TypeOK
<1>3. \A y \in Calls : WPlaced(y)'
  <2>. SUFFICES ASSUME NEW y \in Calls  PROVE WPlaced(y)'
    OBVIOUS
  <2>1. CASE y = w
    BY <1>1, <2>1 DEF WPlaced
  <2>2. CASE y # w
    BY <1>1, <2>2 DEF WPlaced, WInv, WorkersPlaced
  <2>. QED  BY <2>1, <2>2
<1>4. WorkersPlaced'
  BY <1>1, <1>3 DEF WInv, WorkersPlaced, WOwns
<1>5. WorkspacesFit'
  BY DEF WInv, WorkspacesFit, WFitting
<1>6. PoolFits'
  <2>1. W!Unfinished' \subseteq W!Unfinished
    BY DEF W!Unfinished
  <2>. QED  BY <1>1, <2>1, PoolShrinks DEF WInv
<1>. QED  BY <1>2, <1>4, <1>5, <1>6 DEF WInv

\* One row changes, and workers only become idle, go on or have ended it.
WChange(d, r) ==
    /\ wDemo' = [wDemo EXCEPT ![d] = r]
    /\ UNCHANGED <<wStored, wSwept, wStarts>> /\ wData' \subseteq wData \cup {d}
    /\ wWork' \in [Calls -> W!Work]
    /\ \A y \in Calls : \/ wWork'[y] = wWork[y]
                        \/ wWork'[y].at \in {"idle", "going"}
                        \/ wWork'[y].at = "revoked" /\ wWork'[y].demo = d /\ r.status = "cleanup_pending"
    /\ \A y \in Calls : wWork'[y] = wWork[y] /\ wWork[y].demo = d =>
           /\ wWork[y].at = "holding" => r.status = "active"
           /\ wWork[y].at \in {"revoked", "cleaning", "deleted"} => r.status \in {"cleanup_pending", "cleaned"}
           /\ wWork[y].at = "deleted" /\ r.uploads # 0 => wSwept[d] # "never"
    /\ r.status \in {"unused", "active"} => wSwept[d] = "never"
    /\ r.status \in {"active", "cleanup_pending"} /\ r.uploads = 0 => r.url = "none"
    /\ r.status \in {"cleaned", "pruned"} => r.url \in {"none", "over"} /\ (r.url = "over" => wSwept[d] # "never")
    /\ wSwept[d] = "late" => r.url = "over"
    /\ d \in wData' => r.status \in {"active", "cleanup_pending"}
    /\ r.status \in {"active", "cleanup_pending"} => wDemo[d].status \in {"active", "cleanup_pending"}

LEMMA WChanges ==
    ASSUME WInv, NEW d \in Lent, NEW r \in W!Row, WChange(d, r)
    PROVE  WInv'
<1>. USE DEF WChange
<1>1. wDemo'[d] = r /\ \A x \in Lent \ {d} : wDemo'[x] = wDemo[x]
  BY DEF WInv, W!TypeOK
<1>2. W!TypeOK'
  BY DEF WInv, W!TypeOK
<1>3. \A y \in Calls : WPlaced(y)'
  <2>. SUFFICES ASSUME NEW y \in Calls  PROVE WPlaced(y)'
    OBVIOUS
  <2>1. CASE wWork'[y] = wWork[y] /\ wWork[y].demo = d
    BY <1>1, <2>1 DEF WPlaced, WInv, WorkersPlaced
  <2>2. CASE wWork'[y] = wWork[y] /\ wWork[y].demo # d
    <3>1. WPlaced(y)
      BY DEF WInv, WorkersPlaced
    <3>. QED  BY <1>1, <2>2, <3>1 DEF WPlaced
  <2>3. CASE wWork'[y] # wWork[y]
    BY <1>1, <2>3 DEF WPlaced
  <2>. QED  BY <2>1, <2>2, <2>3
<1>4. WorkersPlaced'
  <2>1. \A y \in Calls : wWork'[y].at \in {"holding", "cleaning", "deleted", "admitted"} => wWork'[y] = wWork[y]
    OBVIOUS
  <2>. QED  BY <1>3, <2>1 DEF WInv, WorkersPlaced, WOwns
<1>5. WorkspacesFit'
  <2>. SUFFICES ASSUME NEW x \in Lent  PROVE WFitting(x)'
    BY DEF WorkspacesFit
  <2>1. CASE x = d
    BY <1>1, <2>1 DEF WFitting, WInv, WorkspacesFit
  <2>2. CASE x # d
    BY <1>1, <2>2 DEF WFitting, WInv, WorkspacesFit
  <2>. QED  BY <2>1, <2>2
<1>6. PoolFits'
  <2>1. W!Unfinished' \subseteq W!Unfinished
    BY <1>1 DEF W!Unfinished
  <2>. QED  BY <2>1, PoolShrinks DEF WInv
<1>. QED  BY <1>2, <1>4, <1>5, <1>6 DEF WInv

\* What a worker can turn to, and what a free row means.
LEMMA WWorker ==
    ASSUME WInv, NEW w \in Calls
    PROVE  /\ wWork[w] \in W!Work /\ W!Idle \in W!Work /\ W!Going(w) \in W!Work
           /\ W!Idle.at = "idle" /\ W!Going(w).at = "going"
           /\ \A at \in W!Steps : LET x == W!Doing(at, wWork[w].demo, wWork[w].todo, wWork[w].visitor)
                                  IN x \in W!Work /\ x.at = at /\ x.demo = wWork[w].demo
           /\ \A at \in W!Steps, d \in Lent \cup {None}, T \in SUBSET Lent :
                  LET x == W!Doing(at, d, T, None)
                  IN x \in W!Work /\ x.at = at /\ x.demo = d
<1>1. wWork[w] \in W!Work
  BY DEF WInv, W!TypeOK
<1>. QED  BY <1>1 DEF W!Work, W!Doing, W!Idle, W!Going, W!Steps

LEMMA WGoes ==
    ASSUME WInv, NEW w \in Calls, NEW at \in W!Steps, W!Goes(w, at)
    PROVE  W!Turns(w, W!Doing(at, wWork[w].demo, wWork[w].todo, wWork[w].visitor))
BY DEF W!Goes, W!Turns, WInv, W!TypeOK

LEMMA WTurned ==
    ASSUME WInv, NEW w \in Calls, NEW x \in W!Work, W!Turns(w, x)
    PROVE  wWork' \in [Calls -> W!Work] /\ wWork'[w] = x /\ \A y \in Calls \ {w} : wWork'[y] = wWork[y]
BY DEF WInv, W!TypeOK, W!Turns

LEMMA WFree ==
    ASSUME NEW d, ~W!Locked(d)
    PROVE  \A y \in Calls : WOwns(y) => wWork[y].demo # d
BY DEF W!Locked, WOwns

(* A start, and whatever only turns a worker.                               *)

LEMMA WStarts ==
    ASSUME WInv, NEW w \in Calls, NEW v \in Visitors, W!Start(w, v)
    PROVE  WInv'
<1>1. PICK T \in SUBSET Lent : W!Turns(w, W!Doing("going", None, T, v))
  BY DEF W!Start, W!Batch, W!Due
<1>2. wStarts' \in [Visitors -> Nat]
  BY DEF W!Start, WInv, W!TypeOK
<1>3. UNCHANGED <<wDemo, wData, wStored, wSwept>>
  BY DEF W!Start
<1>4. wSwept' \in [Lent -> {"never", "early", "late"}]
  BY <1>3 DEF WInv, W!TypeOK
<1>5. /\ W!Doing("going", None, T, v) \in W!Work /\ W!Doing("going", None, T, v).at = "going"
  BY WDoing DEF W!Steps
<1>. QED  BY <1>1, <1>2, <1>3, <1>4, <1>5, WTurns

LEMMA WAdmits ==
    ASSUME WInv, NEW w \in Calls, W!Admit(w)
    PROVE  WInv'
<1>. DEFINE x == W!Doing("admitted", wWork[w].demo, wWork[w].todo, wWork[w].visitor)
<1>1. x \in W!Work /\ x.at = "admitted"
  BY WWorker DEF W!Steps
<1>2. /\ wWork' \in [Calls -> W!Work] /\ wWork'[w] = x
      /\ \A y \in Calls \ {w} : wWork'[y] = wWork[y]
  BY <1>1, WGoes, WTurned DEF W!Admit, W!Steps
<1>3. UNCHANGED <<wDemo, wData, wStored, wSwept, wStarts>>
  BY DEF W!Admit
<1>4. W!TypeOK'
  BY <1>2, <1>3 DEF WInv, W!TypeOK
<1>5. \A y \in Calls : WPlaced(y)'
  BY <1>1, <1>2, <1>3 DEF WPlaced, WInv, WorkersPlaced
<1>6. \A y \in Calls \ {w} : wWork'[y].at # "admitted"
  BY <1>2 DEF W!Admit, W!AdmissionFree
<1>7. WorkersPlaced'
  BY <1>1, <1>2, <1>5, <1>6 DEF WInv, WorkersPlaced, WOwns
<1>8. WorkspacesFit'
  BY <1>3 DEF WInv, WorkspacesFit, WFitting
<1>9. PoolFits'
  <2>1. W!Unfinished' = W!Unfinished
    BY <1>3 DEF W!Unfinished
  <2>2. Cardinality(W!Unfinished) < MAX_UNFINISHED
    BY WSameCardinality DEF W!Admit
  <2>. QED  BY <2>1, <2>2 DEF WInv, PoolFits
<1>. QED  BY <1>4, <1>7, <1>8, <1>9 DEF WInv

\* Steps that leave the rows alone, and let nobody in.
LEMMA WQuiet ==
    ASSUME WInv, NEW w \in Calls,
           \/ W!Stop(w) \/ W!SweepDue(w) \/ W!LockAgain(w) \/ W!CleanupFails(w) \/ W!Abandon(w)
           \/ \E d \in Lent : W!Hold(w, d) \/ W!FindExpired(w, d) \/ W!Skip(w, d) \/ W!Lock(w, d)
    PROVE  WInv'
<1>1. UNCHANGED <<wDemo, wData, wStored, wSwept, wStarts>>
  BY DEF W!Stop, W!SweepDue, W!LockAgain, W!CleanupFails, W!Abandon, W!Hold, W!FindExpired, W!Skip, W!Lock
<1>2. wSwept' \in [Lent -> {"never", "early", "late"}] /\ wStarts' \in [Visitors -> Nat]
  BY <1>1 DEF WInv, W!TypeOK
<1>3. \A x \in W!Work : W!Turns(w, x) /\ x.at \in {"idle", "going"} => WInv'
  BY <1>1, <1>2, WTurns
<1>4. CASE W!Stop(w)
  BY <1>3, <1>4, WWorker DEF W!Stop
<1>5. CASE W!SweepDue(w)
  <2>1. PICK T \in SUBSET Lent : W!Turns(w, W!Doing("going", None, T, None))
    BY <1>5 DEF W!SweepDue, W!Batch, W!Due
  <2>. QED  BY <1>3, <2>1, WDoing DEF W!Steps
<1>6. CASE W!LockAgain(w)
  <2>. DEFINE x == W!Doing("cleaning", wWork[w].demo, wWork[w].todo, wWork[w].visitor)
  <2>1. x \in W!Work /\ x.at = "cleaning" /\ x.demo = wWork[w].demo /\ W!Turns(w, x)
    BY <1>6, WWorker, WGoes DEF W!LockAgain, W!Steps
  <2>2. \A y \in Calls : WOwns(y) => wWork[y].demo # x.demo
    BY <1>6, <2>1, WFree DEF W!LockAgain
  <2>3. x.demo \in Lent /\ wDemo[x.demo].status \in {"cleanup_pending", "cleaned"}
    BY <1>6, <2>1 DEF W!LockAgain, WInv, WorkersPlaced, WPlaced
  <2>. QED  BY <1>1, <1>2, <2>1, <2>2, <2>3, WTurns
<1>7. CASE W!CleanupFails(w)
  <2>. DEFINE x == W!Doing("failed", wWork[w].demo, wWork[w].todo, wWork[w].visitor)
  <2>1. x \in W!Work /\ x.at = "failed" /\ x.demo = wWork[w].demo /\ W!Turns(w, x)
    BY <1>7, WWorker, WGoes DEF W!CleanupFails, W!Steps
  <2>2. x.demo \in Lent
    BY <1>7, <2>1 DEF W!CleanupFails, WInv, WorkersPlaced, WPlaced
  <2>. QED  BY <1>1, <1>2, <2>1, <2>2, WTurns
<1>8. CASE W!Abandon(w)
  BY <1>3, <1>8, WWorker DEF W!Abandon
<1>9. ASSUME NEW d \in Lent, W!Hold(w, d)  PROVE WInv'
  <2>. DEFINE x == W!Doing("holding", d, {}, None)
  <2>1. x \in W!Work /\ x.at = "holding" /\ x.demo = d /\ W!Turns(w, x) /\ wDemo[d].status = "active"
    BY <1>9, WWorker DEF W!Hold, W!Active, W!Steps
  <2>2. \A y \in Calls : WOwns(y) => wWork[y].demo # x.demo
    BY <1>9, <2>1, WFree DEF W!Hold
  <2>. QED  BY <1>1, <1>2, <2>1, <2>2, WTurns
<1>10. ASSUME NEW d \in Lent, W!FindExpired(w, d)  PROVE WInv'
  <2>. DEFINE x == W!Doing("expired", d, {}, None)
  <2>1. x \in W!Work /\ x.at = "expired" /\ x.demo = d /\ W!Turns(w, x)
    BY <1>10, WWorker DEF W!FindExpired, W!Steps
  <2>. QED  BY <1>1, <1>2, <2>1, WTurns
<1>11. ASSUME NEW d \in Lent, W!Skip(w, d)  PROVE WInv'
  <2>. DEFINE x == W!Doing("going", None, wWork[w].todo \ {d}, wWork[w].visitor)
  <2>1. x \in W!Work /\ x.at = "going" /\ W!Turns(w, x)
    <3>1. wWork[w].todo \ {d} \in SUBSET Lent /\ wWork[w].visitor \in Visitors \cup {None}
      BY WWorker DEF W!Work
    <3>. QED  BY <1>11, <3>1, WDoing DEF W!Skip, W!Steps
  <2>. QED  BY <1>3, <2>1
<1>12. ASSUME NEW d \in Lent, W!Lock(w, d)  PROVE WInv'
  <2>. DEFINE x == W!Doing("cleaning", d, wWork[w].todo \ {d}, wWork[w].visitor)
  <2>1. x \in W!Work /\ x.at = "cleaning" /\ x.demo = d
    <3>1. wWork[w].todo \ {d} \in SUBSET Lent /\ wWork[w].visitor \in Visitors \cup {None}
      BY WWorker DEF W!Work
    <3>. QED  BY <3>1, WDoing DEF W!Steps
  <2>3. W!Turns(w, x) /\ wDemo[d].status = "cleanup_pending"
    BY <1>12 DEF W!Lock, W!Takes
  <2>2. \A y \in Calls : WOwns(y) => wWork[y].demo # x.demo
    BY <1>12, <2>1, WFree DEF W!Lock
  <2>. QED  BY <1>1, <1>2, <2>1, <2>2, <2>3, WTurns
<1>. QED  BY <1>4, <1>5, <1>6, <1>7, <1>8, <1>9, <1>10, <1>11, <1>12

(* Writes, reservations, uploads and the passing of time.                   *)

\* Nobody else who works on a workspace is disturbed by what its owner does, and what a row's
\* time and its addresses do concerns nobody.
LEMMA WOwned ==
    ASSUME WInv, NEW w \in Calls, WOwns(w)
    PROVE  /\ wWork[w].demo \in Lent
           /\ \A y \in Calls \ {w} : WOwns(y) => wWork[y].demo # wWork[w].demo
           /\ \A y \in Calls : wWork[y].demo = wWork[w].demo /\ wWork[y].at = "revoked" =>
                  wDemo[wWork[w].demo].status \in {"cleanup_pending", "cleaned"}
BY DEF WInv, WorkersPlaced, WPlaced, WOwns

LEMMA WRow ==
    ASSUME WInv, NEW d \in Lent
    PROVE  wDemo[d] \in W!Row /\ WFitting(d)
BY DEF WInv, W!TypeOK, WorkspacesFit

LEMMA WIssues ==
    ASSUME WInv, NEW w \in Calls, NEW d \in Lent, W!Issue(w, d)
    PROVE  WInv'
<1>. DEFINE r == [status |-> "active", age |-> "fresh", waits |-> "no", uploads |-> 0, url |-> "none"]
<1>1. r \in W!Row
  BY DEF W!Row
<1>2. wDemo' = [wDemo EXCEPT ![d] = r] /\ wData' = wData \cup {d} /\ UNCHANGED <<wStored, wSwept, wStarts>>
  BY DEF W!Issue
<1>3. /\ wWork' \in [Calls -> W!Work] /\ wWork'[w] = W!Idle
      /\ \A y \in Calls \ {w} : wWork'[y] = wWork[y]
  BY WWorker, WTurned DEF W!Issue
<1>4. wDemo[d].status = "unused" /\ wWork[w].at = "admitted"
  BY DEF W!Issue
<1>5. wDemo'[d] = r /\ \A x \in Lent \ {d} : wDemo'[x] = wDemo[x]
  BY <1>2 DEF WInv, W!TypeOK
<1>6. W!TypeOK'
  BY <1>1, <1>2, <1>3 DEF WInv, W!TypeOK
<1>7. W!Idle.at = "idle"
  BY WWorker
<1>8. \A y \in Calls : WPlaced(y)'
  <2>. SUFFICES ASSUME NEW y \in Calls \ {w}  PROVE WPlaced(y)'
    BY <1>3, <1>7 DEF WPlaced
  <2>1. WPlaced(y)
    BY DEF WInv, WorkersPlaced
  <2>. QED  BY <1>2, <1>3, <1>4, <1>5, <2>1 DEF WPlaced
<1>9. WorkersPlaced'
  BY <1>3, <1>7, <1>8 DEF WInv, WorkersPlaced, WOwns
<1>10. WorkspacesFit'
  <2>. SUFFICES ASSUME NEW x \in Lent  PROVE WFitting(x)'
    BY DEF WorkspacesFit
  <2>1. CASE x = d
    BY <1>2, <1>4, <1>5, <2>1, WRow DEF WFitting
  <2>2. CASE x # d
    BY <1>2, <1>5, <2>2, WRow DEF WFitting
  <2>. QED  BY <2>1, <2>2
<1>11. PoolFits'
  <2>1. W!Unfinished' = W!Unfinished \cup {d}
    BY <1>5 DEF W!Unfinished
  <2>2. IsFiniteSet(W!Unfinished) /\ Cardinality(W!Unfinished) < MAX_UNFINISHED
    BY <1>4 DEF WInv, PoolFits
  <2>3. /\ IsFiniteSet(W!Unfinished \cup {d})
        /\ Cardinality(W!Unfinished \cup {d}) =
               IF d \in W!Unfinished THEN Cardinality(W!Unfinished) ELSE Cardinality(W!Unfinished) + 1
    BY <2>2, FS_AddElement
  <2>4. Cardinality(W!Unfinished) \in Nat /\ Cardinality(W!Unfinished \cup {d}) \in Nat
    BY <2>2, <2>3, FS_CardinalityType
  <2>5. Cardinality(W!Unfinished \cup {d}) <= MAX_UNFINISHED
    BY <2>2, <2>3, <2>4, WorkspacesAssumption
  <2>6. \A y \in Calls : wWork'[y].at # "admitted"
    BY <1>3, <1>4, <1>7 DEF WInv, WorkersPlaced
  <2>. QED  BY <2>1, <2>3, <2>5, <2>6 DEF PoolFits
<1>. QED  BY <1>6, <1>9, <1>10, <1>11 DEF WInv

LEMMA WWrites ==
    ASSUME WInv, NEW w \in Calls, W!Write(w)
    PROVE  WInv'
<1>. DEFINE d == wWork[w].demo
<1>1. WOwns(w) /\ wDemo[d].status = "active"
  BY DEF W!Write, WOwns, WInv, WorkersPlaced, WPlaced
<1>2. d \in Lent /\ wDemo[d] \in W!Row /\ WFitting(d)
  BY <1>1, WOwned, WRow
<1>3. wDemo' = [wDemo EXCEPT ![d] = wDemo[d]]
  BY <1>2 DEF W!Write, WInv, W!TypeOK
<1>4. /\ wWork' \in [Calls -> W!Work] /\ wWork'[w].at = "idle"
      /\ \A y \in Calls \ {w} : wWork'[y] = wWork[y]
  BY WWorker, WTurned DEF W!Write
<1>5. \A y \in Calls : WPlaced(y)
  BY DEF WInv, WorkersPlaced
<1>6. wData' \subseteq wData \cup {d} /\ UNCHANGED <<wStored, wSwept, wStarts>>
  BY DEF W!Write
<1>7. WChange(d, wDemo[d])
  BY <1>1, <1>2, <1>3, <1>4, <1>5, <1>6 DEF WPlaced, WFitting, WChange
<1>. QED  BY <1>2, <1>7, WChanges

\* A step that changes what only concerns the row: its age, and what it waits for.
LEMMA WPasses ==
    ASSUME WInv, NEW d \in Lent, NEW r \in W!Row, wDemo' = [wDemo EXCEPT ![d] = r],
           UNCHANGED <<wData, wStored, wSwept, wStarts>>,
           r.status = wDemo[d].status, r.uploads = wDemo[d].uploads,
           \/ r.url = wDemo[d].url
           \/ wDemo[d].url \in {"usable", "grace"} /\ r.url \in {"usable", "grace", "over"},
           wWork' \in [Calls -> W!Work],
           \A y \in Calls : wWork'[y] = wWork[y] \/ wWork'[y].at \in {"idle", "going"}
    PROVE  WInv'
<1>1. WFitting(d) /\ \A y \in Calls : WPlaced(y)
  BY WRow DEF WInv, WorkersPlaced
<1>2. WChange(d, r)
  BY <1>1 DEF WPlaced, WFitting, WChange
<1>. QED  BY <1>2, WChanges

LEMMA WExtends ==
    ASSUME WInv, NEW w \in Calls, W!Extend(w)
    PROVE  WInv'
<1>. DEFINE d == wWork[w].demo
            r == [wDemo[d] EXCEPT !.age = IF @ = "old" THEN @ ELSE "fresh"]
<1>1. d \in Lent
  BY WOwned DEF W!Extend, WOwns
<1>2. r \in W!Row /\ r.status = wDemo[d].status /\ r.uploads = wDemo[d].uploads /\ r.url = wDemo[d].url
  BY <1>1, WRow DEF W!Row
<1>3. wDemo' = [wDemo EXCEPT ![d] = r] /\ UNCHANGED <<wData, wStored, wSwept, wStarts>>
  BY DEF W!Extend
<1>4. wWork' \in [Calls -> W!Work] /\ \A y \in Calls : wWork'[y] = wWork[y] \/ wWork'[y].at \in {"idle", "going"}
  BY WWorker, WTurned DEF W!Extend
<1>. HIDE DEF d, r
<1>. QED  BY <1>1, <1>2, <1>3, <1>4, WPasses

LEMMA WAges ==
    ASSUME WInv, NEW d \in Lent, W!Ages(d) \/ W!UrlEnds(d) \/ W!ComesDue(d)
    PROVE  WInv'
<1>1. UNCHANGED <<wData, wStored, wSwept, wStarts>> /\ wWork' = wWork
  BY DEF W!Ages, W!UrlEnds, W!ComesDue
<1>2. wWork' \in [Calls -> W!Work] /\ \A y \in Calls : wWork'[y] = wWork[y] \/ wWork'[y].at \in {"idle", "going"}
  BY <1>1 DEF WInv, W!TypeOK
<1>3. wDemo[d] \in W!Row
  BY WRow
<1>4. CASE W!Ages(d)
  <2>1. PICK age \in {"idle", "old"} : wDemo' = [wDemo EXCEPT ![d].age = age]
    BY <1>4 DEF W!Ages
  <2>. DEFINE r == [wDemo[d] EXCEPT !.age = age]
  <2>2. r \in W!Row /\ r.status = wDemo[d].status /\ r.uploads = wDemo[d].uploads /\ r.url = wDemo[d].url
    BY <1>3 DEF W!Row
  <2>3. wDemo' = [wDemo EXCEPT ![d] = r]
    BY <2>1
  <2>. HIDE DEF r
  <2>. QED  BY <1>1, <1>2, <2>2, <2>3, WPasses
<1>5. CASE W!UrlEnds(d)
  <2>. DEFINE r == [wDemo[d] EXCEPT !.url = IF @ = "usable" THEN "grace" ELSE "over"]
  <2>1. /\ r \in W!Row /\ r.status = wDemo[d].status /\ r.uploads = wDemo[d].uploads
        /\ wDemo[d].url \in {"usable", "grace"} /\ r.url \in {"usable", "grace", "over"}
    BY <1>3, <1>5 DEF W!Row, W!UrlEnds
  <2>2. wDemo' = [wDemo EXCEPT ![d] = r]
    BY <1>5 DEF W!UrlEnds
  <2>. HIDE DEF r
  <2>. QED  BY <1>1, <1>2, <2>1, <2>2, WPasses
<1>6. CASE W!ComesDue(d)
  <2>. DEFINE r == [wDemo[d] EXCEPT !.waits = "no"]
  <2>1. r \in W!Row /\ r.status = wDemo[d].status /\ r.uploads = wDemo[d].uploads /\ r.url = wDemo[d].url
    BY <1>3 DEF W!Row
  <2>2. wDemo' = [wDemo EXCEPT ![d] = r]
    BY <1>6 DEF W!ComesDue
  <2>. HIDE DEF r
  <2>. QED  BY <1>1, <1>2, <2>1, <2>2, WPasses
<1>. QED  BY <1>4, <1>5, <1>6

LEMMA WFails ==
    ASSUME WInv, NEW w \in Calls, W!RecordFailure(w)
    PROVE  WInv'
<1>. DEFINE d == wWork[w].demo
            r == [wDemo[d] EXCEPT !.waits = IF wDemo[d].status = "cleanup_pending" THEN "retry" ELSE @]
<1>1. d \in Lent
  BY DEF W!RecordFailure, WInv, WorkersPlaced, WPlaced
<1>2. r \in W!Row /\ r.status = wDemo[d].status /\ r.uploads = wDemo[d].uploads /\ r.url = wDemo[d].url
  BY <1>1, WRow DEF W!Row
<1>3. wDemo' = [wDemo EXCEPT ![d] = r] /\ UNCHANGED <<wData, wStored, wSwept, wStarts>>
  BY DEF W!RecordFailure
<1>4. wWork' \in [Calls -> W!Work] /\ \A y \in Calls : wWork'[y] = wWork[y] \/ wWork'[y].at \in {"idle", "going"}
  BY WWorker, WTurned DEF W!RecordFailure
<1>. HIDE DEF d, r
<1>. QED  BY <1>1, <1>2, <1>3, <1>4, WPasses

LEMMA WReserves ==
    ASSUME WInv, NEW d \in Lent, W!ReserveUpload(d)
    PROVE  WInv'
<1>1. PICK n \in {wDemo[d].uploads, wDemo[d].uploads + 1} \ {0} :
          wDemo' = [wDemo EXCEPT ![d] = [status |-> wDemo[d].status, age |-> wDemo[d].age,
                        waits |-> wDemo[d].waits, uploads |-> n, url |-> "usable"]]
  BY DEF W!ReserveUpload
<1>. DEFINE r == [status |-> wDemo[d].status, age |-> wDemo[d].age,
                  waits |-> wDemo[d].waits, uploads |-> n, url |-> "usable"]
<1>2. wDemo[d] \in W!Row /\ WFitting(d) /\ wDemo[d].status = "active" /\ ~W!Locked(d)
  BY WRow DEF W!ReserveUpload, W!Active
<1>3. r \in W!Row /\ r.status = "active" /\ r.uploads # 0
  BY <1>2 DEF W!Row
<1>4. UNCHANGED <<wData, wStored, wSwept, wStarts>> /\ wWork' = wWork
  BY DEF W!ReserveUpload
<1>5. wDemo' = [wDemo EXCEPT ![d] = r]
  BY <1>1
<1>6. \A y \in Calls : WPlaced(y) /\ (WOwns(y) => wWork[y].demo # d)
  BY <1>2, WFree DEF WInv, WorkersPlaced
<1>7. wWork' \in [Calls -> W!Work]
  BY <1>4 DEF WInv, W!TypeOK
<1>. HIDE DEF r
<1>8. WChange(d, r)
  BY <1>2, <1>3, <1>4, <1>5, <1>6, <1>7 DEF WPlaced, WFitting, WOwns, WChange
<1>. QED  BY <1>3, <1>8, WChanges

LEMMA WPuts ==
    ASSUME WInv, NEW d \in Lent, W!Put(d)
    PROVE  WInv'
<1>1. UNCHANGED <<wDemo, wData, wSwept, wStarts, wWork>> /\ wStored' = wStored \cup {d}
  BY DEF W!Put
<1>2. wSwept[d] # "late"
  BY WRow DEF WFitting, W!Put
<1>3. W!TypeOK'
  BY <1>1 DEF WInv, W!TypeOK
<1>4. WorkersPlaced'
  BY <1>1 DEF WInv, WorkersPlaced, WPlaced, WOwns
<1>5. WorkspacesFit'
  BY <1>1, <1>2 DEF WInv, WorkspacesFit, WFitting
<1>6. PoolFits'
  BY <1>1 DEF WInv, PoolFits, W!Unfinished
<1>. QED  BY <1>3, <1>4, <1>5, <1>6 DEF WInv

(* The end of a workspace.                                                  *)

LEMMA WRevokes ==
    ASSUME WInv, NEW w \in Calls, NEW d \in Lent, ~W!Locked(d),
           wDemo' = [wDemo EXCEPT ![d] = W!Revoked(@)],
           UNCHANGED <<wData, wStored, wSwept, wStarts>>,
           NEW x \in W!Work, W!Turns(w, x),
           x.at = "going" \/ (x.at = "revoked" /\ x.demo = d /\ wDemo[d].status = "active")
    PROVE  WInv'
<1>. DEFINE r == W!Revoked(wDemo[d])
<1>1. wDemo[d] \in W!Row /\ WFitting(d)
  BY WRow
<1>2. /\ r \in W!Row /\ r.uploads = wDemo[d].uploads /\ r.url = wDemo[d].url
      /\ r.status = IF wDemo[d].status = "active" THEN "cleanup_pending" ELSE wDemo[d].status
  BY <1>1 DEF W!Row, W!Revoked
<1>3. wDemo' = [wDemo EXCEPT ![d] = r]
  OBVIOUS
<1>4. /\ wWork' \in [Calls -> W!Work] /\ wWork'[w] = x
      /\ \A y \in Calls \ {w} : wWork'[y] = wWork[y]
  BY WTurned
<1>5. \A y \in Calls : WPlaced(y) /\ (WOwns(y) => wWork[y].demo # d)
  BY WFree DEF WInv, WorkersPlaced
<1>. HIDE DEF r
<1>6. WChange(d, r)
  BY <1>1, <1>2, <1>3, <1>4, <1>5 DEF WPlaced, WFitting, WOwns, WChange
<1>. QED  BY <1>2, <1>6, WChanges

LEMMA WEnds ==
    ASSUME WInv, NEW w \in Calls,
           W!Expire(w) \/ \E d \in Lent : W!Leave(w, d) \/ W!EndFirst(w, d)
    PROVE  WInv'
<1>1. CASE W!Expire(w)
  <2>. DEFINE d == wWork[w].demo
              x == W!Doing("going", None, {d}, None)
  <2>1. d \in Lent
    BY <1>1 DEF W!Expire, WInv, WorkersPlaced, WPlaced
  <2>2. x \in W!Work /\ x.at = "going"
    BY <2>1, WDoing DEF W!Steps
  <2>3. /\ ~W!Locked(d) /\ wDemo' = [wDemo EXCEPT ![d] = W!Revoked(@)]
        /\ UNCHANGED <<wData, wStored, wSwept, wStarts>> /\ W!Turns(w, x)
    BY <1>1 DEF W!Expire
  <2>. HIDE DEF d, x
  <2>. QED  BY <2>1, <2>2, <2>3, WRevokes
<1>2. ASSUME NEW d \in Lent, W!Leave(w, d)  PROVE WInv'
  <2>. DEFINE x == W!Doing("going", None, {d}, None)
  <2>1. x \in W!Work /\ x.at = "going"
    BY WDoing DEF W!Steps
  <2>2. /\ ~W!Locked(d) /\ wDemo' = [wDemo EXCEPT ![d] = W!Revoked(@)]
        /\ UNCHANGED <<wData, wStored, wSwept, wStarts>> /\ W!Turns(w, x)
    BY <1>2 DEF W!Leave
  <2>. HIDE DEF x
  <2>. QED  BY <2>1, <2>2, WRevokes
<1>3. ASSUME NEW d \in Lent, W!EndFirst(w, d)  PROVE WInv'
  <2>. DEFINE x == W!Doing("revoked", d, wWork[w].todo \ {d}, wWork[w].visitor)
  <2>1. x \in W!Work /\ x.at = "revoked" /\ x.demo = d
    <3>1. wWork[w].todo \ {d} \in SUBSET Lent /\ wWork[w].visitor \in Visitors \cup {None}
      BY WWorker DEF W!Work
    <3>. QED  BY <3>1, WDoing DEF W!Steps
  <2>2. /\ ~W!Locked(d) /\ wDemo' = [wDemo EXCEPT ![d] = W!Revoked(@)] /\ wDemo[d].status = "active"
        /\ UNCHANGED <<wData, wStored, wSwept, wStarts>> /\ W!Turns(w, x)
    BY <1>3 DEF W!EndFirst, W!Takes
  <2>. HIDE DEF x
  <2>. QED  BY <2>1, <2>2, WRevokes
<1>. QED  BY <1>1, <1>2, <1>3

LEMMA WSweeps ==
    ASSUME WInv, NEW w \in Calls, W!DeletePrefix(w)
    PROVE  WInv'
<1>. DEFINE d == wWork[w].demo
            x == W!Doing("deleted", d, wWork[w].todo, wWork[w].visitor)
<1>1. /\ WOwns(w) /\ wWork[w].at = "cleaning" /\ W!Turns(w, x)
      /\ UNCHANGED <<wDemo, wData, wStarts>>
  BY WGoes DEF W!DeletePrefix, WOwns, W!Steps
<1>2. /\ d \in Lent /\ wDemo[d].status \in {"cleanup_pending", "cleaned"} /\ WFitting(d) /\ wDemo[d] \in W!Row
      /\ \A y \in Calls \ {w} : WOwns(y) => wWork[y].demo # d
  BY <1>1, WOwned, WRow DEF WInv, WorkersPlaced, WPlaced
<1>3. x \in W!Work /\ x.at = "deleted" /\ x.demo = d
  BY WWorker DEF W!Steps
<1>4. /\ wWork' \in [Calls -> W!Work] /\ wWork'[w] = x
      /\ \A y \in Calls \ {w} : wWork'[y] = wWork[y]
  BY <1>1, <1>3, WTurned
<1>5. /\ wStored' \subseteq wStored
      /\ wSwept' \in [Lent -> {"never", "early", "late"}]
      /\ \A e \in Lent \ {d} : wSwept'[e] = wSwept[e]
  BY DEF W!DeletePrefix, WInv, W!TypeOK
<1>6. /\ wDemo[d].uploads = 0 => wSwept'[d] = wSwept[d]
      /\ wDemo[d].uploads # 0 => /\ d \notin wStored' /\ wSwept'[d] # "never"
                                 /\ wSwept'[d] = "late" => wDemo[d].url = "over"
  BY <1>2 DEF W!DeletePrefix, WInv, W!TypeOK
<1>. HIDE DEF d, x
<1>7. W!TypeOK'
  BY <1>1, <1>4, <1>5 DEF WInv, W!TypeOK
<1>8. \A y \in Calls : WPlaced(y)'
  <2>. SUFFICES ASSUME NEW y \in Calls  PROVE WPlaced(y)'
    OBVIOUS
  <2>1. CASE y = w
    BY <1>1, <1>2, <1>3, <1>4, <1>6, <2>1 DEF WPlaced
  <2>2. CASE y # w
    <3>1. WPlaced(y) /\ (WOwns(y) => wWork[y].demo # d) /\ wWork'[y] = wWork[y]
      BY <1>2, <1>4, <2>2 DEF WInv, WorkersPlaced
    <3>. QED  BY <1>1, <1>5, <3>1 DEF WPlaced, WOwns
  <2>. QED  BY <2>1, <2>2
<1>9. WorkersPlaced'
  BY <1>2, <1>3, <1>4, <1>8 DEF WInv, WorkersPlaced, WOwns
<1>10. WorkspacesFit'
  <2>. SUFFICES ASSUME NEW e \in Lent  PROVE WFitting(e)'
    BY DEF WorkspacesFit
  <2>1. CASE e = d
    BY <1>1, <1>2, <1>5, <1>6, <2>1 DEF WFitting
  <2>2. CASE e # d
    BY <1>1, <1>5, <2>2, WRow DEF WFitting
  <2>. QED  BY <2>1, <2>2
<1>11. PoolFits'
  <2>1. W!Unfinished' \subseteq W!Unfinished
    BY <1>1 DEF W!Unfinished
  <2>2. \A y \in Calls : wWork'[y].at = "admitted" => wWork[y].at = "admitted"
    BY <1>3, <1>4
  <2>. QED  BY <2>1, <2>2, PoolShrinks DEF WInv
<1>. QED  BY <1>7, <1>9, <1>10, <1>11 DEF WInv

LEMMA WDeletes ==
    ASSUME WInv, NEW w \in Calls, W!DeleteBusinessData(w)
    PROVE  WInv'
<1>. DEFINE d == wWork[w].demo
            r == IF W!PutsMayCome(d)
                 THEN [status |-> wDemo[d].status, age |-> wDemo[d].age, waits |-> "puts",
                       uploads |-> wDemo[d].uploads, url |-> wDemo[d].url]
                 ELSE [status |-> "cleaned", age |-> "fresh", waits |-> "no", uploads |-> 0, url |-> wDemo[d].url]
<1>1. /\ WOwns(w) /\ wWork[w].at = "deleted" /\ W!Turns(w, W!Going(w)) /\ wData' = wData \ {d}
      /\ UNCHANGED <<wStored, wSwept, wStarts>>
  BY DEF W!DeleteBusinessData, WOwns
<1>2. /\ d \in Lent /\ wDemo[d].status \in {"cleanup_pending", "cleaned"} /\ WFitting(d) /\ wDemo[d] \in W!Row
      /\ wDemo[d].uploads # 0 => wSwept[d] # "never"
      /\ \A y \in Calls \ {w} : WOwns(y) => wWork[y].demo # d
  BY <1>1, WOwned, WRow DEF WInv, WorkersPlaced, WPlaced
<1>3. /\ wWork' \in [Calls -> W!Work] /\ wWork'[w].at = "going"
      /\ \A y \in Calls \ {w} : wWork'[y] = wWork[y]
  BY <1>1, WWorker, WTurned
<1>4. wDemo' = [wDemo EXCEPT ![d] = r]
  BY DEF W!DeleteBusinessData
<1>5. r \in W!Row
  BY <1>2 DEF W!Row
<1>6. /\ r.url = wDemo[d].url
      /\ \/ r.status = wDemo[d].status /\ r.uploads = wDemo[d].uploads /\ r.uploads # 0 /\ r.url \in {"usable", "grace"}
         \/ r.status = "cleaned" /\ (wDemo[d].uploads = 0 \/ r.url \in {"none", "over"})
  BY <1>2 DEF W!PutsMayCome, W!Row
<1>7. \A y \in Calls : WPlaced(y)
  BY DEF WInv, WorkersPlaced
<1>. HIDE DEF d, r
<1>8. WChange(d, r)
  BY <1>1, <1>2, <1>3, <1>4, <1>6, <1>7 DEF WPlaced, WFitting, WOwns, WChange
<1>. QED  BY <1>2, <1>5, <1>8, WChanges

LEMMA WPrunes ==
    ASSUME WInv, NEW d \in Lent, W!PruneReceipt(d)
    PROVE  WInv'
<1>. DEFINE r == [wDemo[d] EXCEPT !.status = "pruned"]
<1>1. wDemo[d] \in W!Row /\ WFitting(d) /\ wDemo[d].status = "cleaned"
  BY WRow DEF W!PruneReceipt
<1>2. r \in W!Row /\ r.status = "pruned" /\ r.uploads = wDemo[d].uploads /\ r.url = wDemo[d].url
  BY <1>1 DEF W!Row
<1>3. wDemo' = [wDemo EXCEPT ![d] = r]
  BY DEF W!PruneReceipt
<1>4. /\ UNCHANGED <<wData, wStored, wSwept, wStarts>> /\ wWork' = wWork
      /\ \A y \in Calls : wWork[y].demo # d
  BY DEF W!PruneReceipt
<1>5. wWork' \in [Calls -> W!Work]
  BY <1>4 DEF WInv, W!TypeOK
<1>. HIDE DEF r
<1>6. WChange(d, r)
  BY <1>1, <1>2, <1>3, <1>4, <1>5 DEF WFitting, WChange
<1>. QED  BY <1>2, <1>6, WChanges

LEMMA WHours ==
    ASSUME WInv, W!HourEnds \/ UNCHANGED W!vars
    PROVE  WInv'
<1>1. UNCHANGED <<wDemo, wData, wStored, wSwept, wWork>> /\ wStarts' \in [Visitors -> Nat]
  BY DEF W!HourEnds, W!vars, WInv, W!TypeOK
<1>2. W!TypeOK'
  BY <1>1 DEF WInv, W!TypeOK
<1>3. WorkersPlaced'
  BY <1>1 DEF WInv, WorkersPlaced, WPlaced, WOwns
<1>4. WorkspacesFit' /\ PoolFits'
  BY <1>1 DEF WInv, WorkspacesFit, WFitting, PoolFits, W!Unfinished
<1>. QED  BY <1>2, <1>3, <1>4 DEF WInv

LEMMA WBegins == W!Init => WInv
<1>. SUFFICES ASSUME W!Init  PROVE WInv
  OBVIOUS
<1>. USE DEF W!Init
<1>1. W!Unissued \in W!Row /\ W!Unissued.status = "unused" /\ W!Idle \in W!Work /\ W!Idle.at = "idle"
  BY DEF W!Unissued, W!Row, W!Idle, W!Work, W!Doing, W!Steps
<1>2. W!TypeOK
  BY <1>1 DEF W!TypeOK
<1>3. WorkersPlaced
  BY <1>1 DEF WorkersPlaced, WPlaced, WOwns
<1>4. WorkspacesFit
  BY <1>1 DEF WorkspacesFit, WFitting
<1>5. W!Unfinished = {}
  BY <1>1 DEF W!Unfinished
<1>6. PoolFits
  BY <1>1, <1>5, FS_EmptySet, WorkspacesAssumption DEF PoolFits
<1>. QED  BY <1>2, <1>3, <1>4, <1>6 DEF WInv

LEMMA WKept == WInv /\ [W!Next]_(W!vars) => WInv'
<1>. SUFFICES ASSUME WInv, [W!Next]_(W!vars)  PROVE WInv'
  OBVIOUS
<1>1. ASSUME NEW w \in Calls, NEW d \in Lent,
             \/ W!Issue(w, d) \/ W!Hold(w, d) \/ W!Leave(w, d) \/ W!FindExpired(w, d)
             \/ W!Skip(w, d) \/ W!EndFirst(w, d) \/ W!Lock(w, d)
      PROVE  WInv'
  BY <1>1, WIssues, WQuiet, WEnds
<1>2. ASSUME NEW w \in Calls,
             \/ \E v \in Visitors : W!Start(w, v)
             \/ W!Admit(w) \/ W!Stop(w) \/ W!Write(w) \/ W!Extend(w) \/ W!Expire(w) \/ W!SweepDue(w)
             \/ W!LockAgain(w) \/ W!DeletePrefix(w) \/ W!DeleteBusinessData(w)
             \/ W!CleanupFails(w) \/ W!Abandon(w) \/ W!RecordFailure(w)
      PROVE  WInv'
  BY <1>2, WStarts, WAdmits, WQuiet, WWrites, WExtends, WEnds, WSweeps, WDeletes, WFails
<1>3. ASSUME NEW d \in Lent,
             \/ W!ReserveUpload(d) \/ W!Put(d) \/ W!PruneReceipt(d)
             \/ W!Ages(d) \/ W!UrlEnds(d) \/ W!ComesDue(d)
      PROVE  WInv'
  BY <1>3, WReserves, WPuts, WPrunes, WAges
<1>. QED  BY <1>1, <1>2, <1>3, WHours DEF W!Next

\* What the runs check of the workspaces.
LEMMA WorkspacesKeep == WInv => W!TypeOK /\ W!NothingIsLeft /\ W!WritesComeInTime /\ W!PoolIsBounded
<1>1. WInv => W!NothingIsLeft
  BY DEF WInv, WorkspacesFit, WFitting, W!NothingIsLeft
<1>2. WInv => W!WritesComeInTime
  BY DEF WInv, WorkersPlaced, WPlaced, W!WritesComeInTime
<1>3. WInv => W!PoolIsBounded
  BY WSameCardinality DEF WInv, PoolFits, W!PoolIsBounded
<1>. QED  BY <1>1, <1>2, <1>3 DEF WInv

-----------------------------------------------------------------------------
(* The three together.                                                      *)
PapersInv == RInv /\ DInv /\ WInv

LEMMA PapersStart ==
    ASSUME Init
    PROVE  PapersInv
<1>1. R!Init /\ P!Init /\ W!Init
  BY DEF Init, DocumentsRest, RequirementsRest
<1>. QED  BY <1>1, RBegins, DStarts, WBegins DEF PapersInv

\* A step is one of each component, or leaves it alone.
LEMMA PapersStep ==
    ASSUME [Next]_<<part, rVars, pVars, wVars>>
    PROVE  [R!Next]_(R!vars) /\ [P!Next]_(P!vars) /\ [W!Next]_(W!vars)
<1>1. UNCHANGED rVars => UNCHANGED R!vars
  BY DEF rVars, R!vars
<1>2. UNCHANGED pVars => UNCHANGED P!vars
  BY DEF pVars, P!vars
<1>3. UNCHANGED wVars => UNCHANGED W!vars
  BY DEF wVars, W!vars
<1>4. \/ R!Next /\ UNCHANGED <<pVars, wVars>>
      \/ P!Next /\ UNCHANGED <<rVars, wVars>>
      \/ W!Next /\ UNCHANGED <<rVars, pVars>>
      \/ UNCHANGED <<rVars, pVars, wVars>>
  BY DEF Next
<1>. QED  BY <1>1, <1>2, <1>3, <1>4

LEMMA PapersKeep ==
    ASSUME PapersInv, [Next]_<<part, rVars, pVars, wVars>>
    PROVE  PapersInv'
<1>1. [R!Next]_(R!vars) /\ [P!Next]_(P!vars) /\ [W!Next]_(W!vars)
  BY PapersStep
<1>2. RInv'
  BY <1>1, RKept DEF PapersInv
<1>3. DInv'
  BY <1>1, DKept DEF PapersInv
<1>4. WInv'
  BY <1>1, WKept DEF PapersInv
<1>. QED  BY <1>2, <1>3, <1>4 DEF PapersInv

\* The inductive invariants of the three components hold of every behaviour of the papers of a
\* project: what a request remembers of the rows it locked is what they still hold.
THEOREM PapersInvariant == Spec => []PapersInv
<1>1. Init => PapersInv
  BY PapersStart
<1>2. PapersInv /\ [Next]_<<part, rVars, pVars, wVars>> => PapersInv'
  BY PapersKeep
<1>. QED  BY <1>1, <1>2, PTL DEF Spec

\* Type correctness of the three components.
THEOREM PapersTyped == Spec => []TypeOK
<1>1. PapersInv => TypeOK
  BY RTypes, WorkspacesKeep DEF PapersInv, DInv, DTyped, TypeOK
<1>. QED  BY <1>1, PapersInvariant, PTL

\* However many people save a requirement at the same time, its revisions lead without a gap or a
\* fork to its text (RequirementItemService._update_item and its revision, in one commit), and however
\* often a standard document is asked for under one key it is made once, with its receipt.
THEOREM RequirementsStayTold == Spec => []RequirementsAreTold
<1>1. PapersInv => RequirementsAreTold
  BY MadeOfOne DEF PapersInv, RInv, ItemPart, RequirementsAreTold
<1>. QED  BY <1>1, PapersInvariant, PTL

\* Whoever can still reach an attachment, now or after restoring it and its document, finds its file,
\* whatever purge stopped half way, upload lost or restore came in between; and a live document has
\* the revision of its version (ProjectDocumentService, TrashService and the purge of what is due).
\* Whatever a visitor's requests, an ending and two cleanups do at once, no row of a workspace that
\* was cleaned up is left, no address to upload to still works, and as many as start at the same
\* time keep within the pool (DemoService.start, revoke, _cleanup).
THEOREM NothingIsLost == Spec => []NothingIsLostOrLeft
<1>1. PapersInv => NothingIsLostOrLeft
  BY WorkspacesKeep DEF PapersInv, DInv, NothingIsLostOrLeft
<1>. QED  BY <1>1, PapersInvariant, PTL

\* A specification becomes approved only while no remark on it is open, and an attachment comes back
\* only under a live document: what the request compared still holds at its commit.
THEOREM DecisionsStand == Spec => DecidedOnWhatStands
<1>1. PapersInv /\ [Next]_<<part, rVars, pVars, wVars>> => [ApprovalStep]_(P!vars) /\ [RestoreStep]_(P!vars)
  <2>. SUFFICES ASSUME PapersInv, [Next]_<<part, rVars, pVars, wVars>>
                PROVE  [ApprovalStep]_(P!vars) /\ [RestoreStep]_(P!vars)
    OBVIOUS
  <2>1. DInv /\ [P!Next]_(P!vars)
    BY PapersStep DEF PapersInv
  <2>. QED  BY <2>1, ApprovesWhatStands, RestoresUnderParent
<1>2. [][ApprovalStep]_(P!vars) => P!ApprovalSawEveryRemark
  BY PTL DEF ApprovalStep, P!ApprovalSawEveryRemark
<1>3. [][RestoreStep]_(P!vars) => P!RestoredUnderLiveParent
  BY PTL DEF RestoreStep, P!RestoredUnderLiveParent
<1>. QED  BY <1>1, <1>2, <1>3, PapersInvariant, PTL DEF Spec, DecidedOnWhatStands
=============================================================================
