--------------------------- MODULE MCChatSession ---------------------------
(***************************************************************************)
(* Small chats for TLC.                                                    *)
(***************************************************************************)
EXTENDS ChatSession
=============================================================================
