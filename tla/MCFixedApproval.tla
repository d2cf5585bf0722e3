--------------------------- MODULE MCFixedApproval --------------------------
(* Small instances of FixedApproval: a requirement text frozen as one node, *)
(* a document that contains it, and the requests about them.  A behaviour   *)
(* keeps to one scope: two calls about the text, with two ids and no        *)
(* request of the old tables or with such a request and one id; or one call *)
(* that may take effect about the text and the document beside an outside   *)
(* person.                                                                  *)
EXTENDS FixedApproval, FiniteSets, TLC

CONSTANTS text, leaf, doc,
          Scopes        \* of {"races", "switches", "documents"}

LeafAndDoc == {leaf, doc}
SubjectOfLeaf == (leaf :> text) @@ (doc :> NoOne)
MembersOfDoc == (leaf :> {}) @@ (doc :> {text})
LeafFits == [l \in Legacy |-> {leaf}]

VARIABLE scope

Asked == {calls[c].data : c \in InFlight}
IdsUsed == (UNION {{events[a][i].id : i \in DOMAIN events[a]} : a \in Approvals}
             \cup {d.id : d \in {x \in Asked : x.kind # "old"}}) \cap Ids
Within ==
    /\ scope \in {"races", "documents"} => \A d \in Asked : d.kind \notin {"switch", "old"}
    /\ scope = "switches" => Cardinality(IdsUsed) <= 1
    /\ scope = "documents" => Cardinality({c \in Calls : calls[c] # Ended("none")}) <= 1
    /\ scope = "documents" => \A d \in Asked : d.kind \in {"decide", "cancel"} =>
          Open(d.approval) /\ ~OfGuest(d.approval) /\ Entitled(d, row[d.approval])
    /\ scope # "documents" =>
          /\ \A g \in Guests : grant[g] = 0
          /\ \A d \in Asked : d.kind \in {"create", "switch"} => d.node = leaf

ScopedInit == Init /\ scope \in Scopes
ScopedNext == Next /\ UNCHANGED scope /\ Within'
ScopedSpec == ScopedInit /\ [][ScopedNext]_<<vars, scope>>

People == Permutations(Users) \cup Permutations(Approvals) \cup Permutations(Ids)
          \cup Permutations(Calls)
=============================================================================
