---------------------------- MODULE MCChatHistory ----------------------------
(* Small instances of ChatHistory for TLC: see the .cfg files. *)
EXTENDS ChatHistory

Inodes4 == 1 .. 4
=============================================================================
