----------------------------- MODULE MCConversation ----------------------------
(* Small instances of Conversation. *)
EXTENDS Conversation
================================================================================
