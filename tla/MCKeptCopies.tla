------------------------------ MODULE MCKeptCopies ------------------------------
(* Small instances of the three components that keep copies of files and    *)
(* judge what they show.  They share no state: a behaviour is a behaviour   *)
(* of one of them, and the others rest in one of their initial states.      *)
EXTENDS ArtifactPreservation, FiniteSets, TLC

CONSTANTS MaxUnfinished, MaxSource,
          Requests, Files, Sessions, MaxVersion, MaxRuns

VARIABLES
    part,
    eSource, eRow, eAttempt, eStore, eCalls,
    jKinds, jPlan, jSource, jRuns, jObjection, jJudge, jFile, jRequest, jCalls
eVars == <<eSource, eRow, eAttempt, eStore, eCalls>>
jVars == <<jKinds, jPlan, jSource, jRuns, jObjection, jJudge, jFile, jRequest, jCalls>>

-----------------------------------------------------------------------------
(* Two evidence sets of up to two files, and three attempts to copy them.   *)
E == INSTANCE VerificationEvidence WITH
    Sets <- Requests, Attempts <- Keys, source <- eSource, row <- eRow,
    attempt <- eAttempt, store <- eStore, calls <- eCalls

(* One requirement, two requests for it, two preserved files.              *)
GroundWork == {"plan", "case", "run"}
JudgeWork == {"requalify", "run", "failed", "withdraw"}
LosingWork == {"lapse", "lose"}
ChainWork == {"cancel", "withdraw", "failed", "object"}
JudgementConcerns == {GroundWork, JudgeWork, LosingWork, ChainWork}
J == INSTANCE VerificationJudgement WITH
    Concerns <- JudgementConcerns, kinds <- jKinds, plan <- jPlan,
    source <- jSource, runs <- jRuns, objection <- jObjection,
    judge <- jJudge, file <- jFile, request <- jRequest, calls <- jCalls
JudgementRests == J!Init /\ jKinds = GroundWork /\ jPlan.version = 0 /\ jRuns = <<>>

-----------------------------------------------------------------------------
InitPart ==
    /\ Init /\ E!Init
    /\ part \in {"preservation", "evidence", "judgement"}
    /\ IF part = "judgement" THEN J!Init ELSE JudgementRests
NextPart ==
    /\ UNCHANGED part
    /\ \/ part = "preservation" /\ Next   /\ UNCHANGED <<eVars, jVars>>
       \/ part = "evidence"     /\ E!Next /\ UNCHANGED <<vars, jVars>>
       \/ part = "judgement"    /\ J!Next /\ UNCHANGED <<vars, eVars>>
SpecPart == InitPart /\ [][NextPart]_<<part, vars, eVars, jVars>>

(* Every variable of the three components has its type.                     *)
AllTypeOK == TypeOK /\ E!TypeOK /\ J!TypeOK

(* A slot has one adopted copy, and a file selected for evidence is in the  *)
(* store: a late attempt and a cleanup take neither away.                   *)
OneStoredCopy == OneCopyPerSlot /\ E!SelectedIsStored

(* A preservation that is complete or cancelled stays as it is, and evidence*)
(* becomes ready only as it was previewed.                                  *)
DecidedAsPlanned == SealedOnceDecided /\ E!ReadyIsAsPreviewed

(* A verdict given in a review saw every file in that very session, and at  *)
(* most one request for a requirement is open, each following the last one; *)
(* a requirement passes only on the ground its request was made on.         *)
JudgedOnItsGround == [](J!SeenInThisSession /\ J!OneLineOfRequests) /\ J!PassesOnItsGround

Symmetry == Permutations(Calls) \cup Permutations(Keys) \cup Permutations(Requests)
=============================================================================
