---------------------------- MODULE MCClientCache ----------------------------
(* ClientCache with three of the six system mailboxes and one custom name. *)
EXTENDS ClientCache

MCName == {"INBOX", "Drafts", "Sent", "Work"}
MCSystemMailboxes == <<"INBOX", "Drafts", "Sent">>
=============================================================================
