------------------------------ MODULE MCInbox ------------------------------
(* Small inboxes for Inbox. *)
EXTENDS Inbox

CONSTANTS ann, cat, desk, phone

=============================================================================
