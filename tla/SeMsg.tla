------------------------------- MODULE SeMsg -------------------------------
(***************************************************************************)
(* What one SolarEdge message means to the program: which messages         *)
(* semonitor.py rejects, which it answers and with what, and the           *)
(* transaction number kept in the sequence file.  A message is abstracted  *)
(* to its kind:                                                            *)
(*                                                                         *)
(*   post       performance data (PROT_CMD_SERVER_POST_DATA) with a body   *)
(*   emptyPost  the same function with no body                             *)
(*   key        the encryption key message 0x0503                          *)
(*   gmt        a request for the time (PROT_CMD_SERVER_GET_GMT)           *)
(*   grantAck   the release of the RS485 bus (MASTER_GRANT_ACK)            *)
(*   other      any other message that parses                              *)
(*   raises     a well formed message whose parsing raises an exception    *)
(*   bad        too short, wrong length, or wrong checksum                 *)
(*   zeros      nothing, or only zero bytes, between two magic numbers     *)
(***************************************************************************)
EXTENDS Integers

CONSTANT MaxSeq                \* the largest sequence number (65535)

ASSUME MaxSeqAssumption == MaxSeq \in Nat \ {0}

Kinds == {"post", "emptyPost", "key", "gmt", "grantAck", "other", "raises",
          "bad", "zeros"}

Replies == {"none", "ack", "serverGmt"}

\* validateMsg/parseMsg return function 0 for these, and processMsg ignores them.
Rejected == {"bad"}

\* se.data.parseData raises for these; readData catches the exception.
Raising == {"raises"}

\* the performance data that processMsg hands to writeData
Written == {"post"}

\* the reply processMsg sends when it is allowed to reply at all
ReplyTo(k) == IF k \in {"post", "emptyPost", "key"} THEN "ack"
              ELSE IF k = "gmt" THEN "serverGmt" ELSE "none"

-----------------------------------------------------------------------------
\* The sequence file: a number, or absent, or left empty by a crash.
Absent == 0
Torn   == -1
SeqFiles == {Torn} \cup (0 .. MaxSeq)

\* nextSeq for a file that can be read (a torn file makes int() raise).
NextSeq(file) == IF file >= MaxSeq THEN 1 ELSE file + 1
=============================================================================
