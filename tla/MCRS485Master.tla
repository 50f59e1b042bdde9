--------------------------- MODULE MCRS485Master ---------------------------
(***************************************************************************)
(* Instances of RS485Master for TLC: small numbers of slaves, and the      *)
(* kinds of message a slave sends, one of each answer.                     *)
(***************************************************************************)
EXTENDS RS485Master

\* one message that is answered
OneKind == {"post"}

\* one that makes the parser raise
RaisingKind == {"raises"}

\* one that is answered, one that makes the parser raise, and one that is empty
ThreeKinds == {"post", "raises", "zeros"}
=============================================================================
