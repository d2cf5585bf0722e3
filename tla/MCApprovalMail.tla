--------------------------- MODULE MCApprovalMail ---------------------------
(* Small instances of ApprovalMail: every notification goes to one user.    *)
EXTENDS ApprovalMail

CONSTANT user
OneRecipient == {user}
ToUser == [n \in Notifications |-> user]

(* Every saved delivery settles, after no more attempts than the three      *)
(* delays allow.                                                            *)
SettlesWithinLimit == []AttemptsWithinLimit /\ EveryMailSettles
=============================================================================
