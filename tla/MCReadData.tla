---------------------------- MODULE MCReadData ----------------------------
(***************************************************************************)
(* Instances of ReadData for TLC.                                          *)
(***************************************************************************)
EXTENDS ReadData

\* performance data, and a message that makes the parser raise
DataKinds == {"post", "raises"}

\* performance data, a request for the time, a message that is not answered, and
\* one that makes the parser raise
ServerKinds == {"post", "gmt", "other", "raises"}
=============================================================================
