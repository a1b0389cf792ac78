----------------------------- MODULE MCMailStore -----------------------------
(* MailStore with three of the six system mailboxes and two custom names. *)
EXTENDS MailStore, TLC

MCName == {"INBOX", "Drafts", "Sent", "Work", "Home"}
MCSystemMailboxes == <<"INBOX", "Drafts", "Sent">>

UserSymmetry == Permutations(User)
SessionSymmetry == Permutations(Session)
Symmetry == UserSymmetry \cup SessionSymmetry
=============================================================================
