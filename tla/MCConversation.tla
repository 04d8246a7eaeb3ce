--------------------------- MODULE MCConversation ---------------------------
(***************************************************************************)
(* Instances of Conversation. Two recordings stand for the forty of the    *)
(* source: one that is followed by another and one that is the last. Three *)
(* events in flight let a new event overtake the handling of two others.   *)
(***************************************************************************)
EXTENDS Conversation
=============================================================================
