----------------------------- MODULE MCChatSend -----------------------------
(***************************************************************************)
(* Values for TLC: texts that begin alike, as two rounds of findings do.    *)
(***************************************************************************)
EXTENDS ChatSend

Heads == [text \in Texts |-> "round"]
=============================================================================
