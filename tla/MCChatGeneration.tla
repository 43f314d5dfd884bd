---- MODULE MCChatGeneration ----
(* Small instances of ChatGeneration for TLC. *)
EXTENDS ChatGeneration

CONSTANTS c1, c2
====
