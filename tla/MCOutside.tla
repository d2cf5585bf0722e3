------------------------------- MODULE MCOutside -------------------------------
(* Small instances of the three components through which people and tools   *)
(* from outside reach a project.  They share no state: a behaviour is a     *)
(* behaviour of one of them, the others rest in one of their initial states.*)
EXTENDS Connections

CONSTANTS Sources, Guests, Staff,
          Invitations, MaxToken

VARIABLES
    part,
    pKinds, pPublication, pGrant, pPart, pReceipt, pSource, pActive, pMember,
    pOpen, pSession, pUrl, pCalls,
    iKinds, iRow, iCheck, iReceipt, iMail, iAccount, iPart, iInviter, iCalls
pVars == <<pKinds, pPublication, pGrant, pPart, pReceipt, pSource, pActive, pMember,
    pOpen, pSession, pUrl, pCalls>>
iVars == <<iKinds, iRow, iCheck, iReceipt, iMail, iAccount, iPart, iInviter, iCalls>>

-----------------------------------------------------------------------------
(* One publication of one source, and a guest it may be shown to.           *)
SourceWork == {"prepare", "publish", "withdraw", "strike", "revive", "purge", "close"}
GuestWork == {"publish", "add", "ungrant", "expel", "withdraw", "join"}
MemberWork == {"join", "hire", "dismiss", "suspend", "expel", "add"}
DownloadWork == {"download", "withdraw", "ungrant", "hire", "suspend", "signout", "strike"}
PublicationConcerns == {SourceWork, GuestWork, MemberWork, DownloadWork}
P == INSTANCE Publications WITH
    Concerns <- PublicationConcerns, kinds <- pKinds,
    publication <- pPublication, grant <- pGrant, part <- pPart,
    receipt <- pReceipt, source <- pSource, active <- pActive,
    member <- pMember, open <- pOpen, session <- pSession, url <- pUrl,
    calls <- pCalls
PublicationsRest ==
    /\ P!Init /\ pKinds = SourceWork /\ pPublication.state = "absent"
    /\ \A g \in Guests : pPart[g].state = "absent"

(* One address, two invitations, each mailed at most twice.                 *)
SendingWork == {"create", "resend", "revoke", "lapse"}
JoiningWork == {"inspect", "resend", "register", "accept", "stale", "account", "demote"}
AgainWork == {"inspect", "create", "accept", "end"}
EndingWork == {"inspect", "revoke", "accept", "decline", "lapse"}
InvitationConcerns == {SendingWork, JoiningWork, AgainWork, EndingWork}
I == INSTANCE GuestInvitations WITH
    Concerns <- InvitationConcerns, kinds <- iKinds, row <- iRow,
    check <- iCheck, receipt <- iReceipt, mail <- iMail, account <- iAccount,
    part <- iPart, inviter <- iInviter, calls <- iCalls
InvitationsRest ==
    /\ I!Init /\ iKinds = SendingWork /\ ~iAccount
    /\ \A x \in iMail : x.on = CHOOSE y \in Invitations : TRUE

(* One connection; tokens are passed on, or a tool plans and applies.       *)
TokenWork == {"login", "revoke", "lapse"}
ToolWork == {"work", "revoke"}
StalePlans == {"work", "lapse"}
ConnectionConcerns == {TokenWork, ToolWork, StalePlans}
ConnectionsRest == Init /\ kinds = TokenWork

-----------------------------------------------------------------------------
InitPart ==
    \/ part = "publications" /\ P!Init           /\ InvitationsRest /\ ConnectionsRest
    \/ part = "invitations"  /\ PublicationsRest /\ I!Init          /\ ConnectionsRest
    \/ part = "connections"  /\ PublicationsRest /\ InvitationsRest /\ Init
NextPart ==
    /\ UNCHANGED part
    /\ \/ part = "publications" /\ P!Next /\ UNCHANGED <<iVars, vars>>
       \/ part = "invitations"  /\ I!Next /\ UNCHANGED <<pVars, vars>>
       \/ part = "connections"  /\ Next   /\ UNCHANGED <<pVars, iVars>>
SpecPart == InitPart /\ [][NextPart]_<<part, pVars, iVars, vars>>

(* Every variable of the three components has its type.                     *)
AllTypeOK == P!TypeOK /\ I!TypeOK /\ TypeOK

(* A published source is live, a grant stands on an active participation, a *)
(* participant is an active user who is no member; and the requests on      *)
(* publications and downloads, all of which lock, never wait in a circle.   *)
SharingIsBacked ==
    P!PublishedSourcesLive /\ P!GrantIsBacked /\ P!ParticipantIsOutside /\ P!NoCircle

(* A download address is issued only to who is entitled at that moment.     *)
AddressFollowsEntitlement == P!AddressFollowsEntitlement

(* An invitation shown as sent was mailed since its token was last renewed, *)
(* one address takes part once, and an answer comes with a proof of the     *)
(* token that is valid.                                                     *)
InvitationsAreTrue == [](I!SentWasMailed /\ I!OneParticipation) /\ I!AnswerHasCurrentProof

Symmetry == Permutations(Calls) \cup Permutations(Keys) \cup Permutations(Tokens)
=============================================================================
