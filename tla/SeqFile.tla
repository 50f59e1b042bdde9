------------------------------ MODULE SeqFile ------------------------------
(***************************************************************************)
(* The transaction numbers of the messages the program initiates (nextSeq) *)
(* and the file that carries them from one execution to the next.  The     *)
(* program is killed at any point (a restart by cron, Ctrl-C, a power      *)
(* failure) and started again.  open(..., "w") empties the file before     *)
(* anything is written to it.                                              *)
(***************************************************************************)
EXTENDS SeMsg

VARIABLES
  file,         \* what the file holds
  pc,           \* where nextSeq is
  seq,          \* its local variable
  issued        \* history: the numbers issued since the last wrap-around

seqVars == <<file, pc, seq, issued>>

SeqTypeOK ==
  /\ file \in SeqFiles
  /\ pc \in {"call", "write", "close", "send", "failed", "stopped"}
  /\ seq \in 0 .. MaxSeq
  /\ issued \subseteq 1 .. MaxSeq

SeqInit == /\ file \in SeqFiles \ {Torn}
           /\ pc = "call"
           /\ seq = 0
           /\ issued = {}

\* Mutant of ReadSeq: the number that was used last is used again.
ReadSeqNoIncrement == /\ pc = "call"
                      /\ file # Torn
                      /\ seq' = file
                      /\ pc' = "write"
                      /\ UNCHANGED <<file, issued>>

\* Read the file and add one; an absent file counts as zero.
ReadSeq == /\ pc = "call"
           /\ file # Torn
           /\ seq' = NextSeq(file)
           /\ pc' = "write"
           /\ UNCHANGED <<file, issued>>

\* int("") raises ValueError, which only IOError would have been caught.
ReadFails == /\ pc = "call"
             /\ file = Torn
             /\ pc' = "failed"
             /\ UNCHANGED <<file, seq, issued>>

\* open(SEQ_FILE_NAME, "w")
Truncate == /\ pc = "write"
            /\ file' = Torn
            /\ pc' = "close"
            /\ UNCHANGED <<seq, issued>>

\* The write reaches the file when it is closed.
WriteSeq == /\ pc = "close"
            /\ file' = seq
            /\ pc' = "send"
            /\ issued' = IF seq = 1 THEN {} ELSE issued
            /\ UNCHANGED seq

\* The caller sends a message with the number.
Issue == /\ pc = "send"
         /\ issued' = issued \cup {seq}
         /\ seq' = 0
         /\ pc' = "call"
         /\ UNCHANGED file

\* Killed, at any point; the file stays as it is.
Crash == /\ pc # "stopped"
         /\ pc' = "stopped"
         /\ seq' = 0
         /\ UNCHANGED <<file, issued>>

Restart == /\ pc = "stopped"
           /\ pc' = "call"
           /\ UNCHANGED <<file, seq, issued>>

SeqNext == \/ ReadSeq \/ ReadFails \/ Truncate \/ WriteSeq \/ Issue
           \/ Crash \/ Restart

SeqSpec == SeqInit /\ [][SeqNext]_seqVars

-----------------------------------------------------------------------------
\* A number that is about to be sent is larger than every number sent since the
\* last wrap-around, by this execution or an earlier one, wherever the earlier
\* ones were killed (README.md:304-305 "monotonically increasing sequence
\* number", semonitor.py:207-218).
Increasing == pc = "send" => \A n \in issued : n < seq

\* What makes it so: the file is never behind what has been sent, and nextSeq
\* works on what the file holds.
FileInv ==
  /\ file # Torn => \A n \in issued : n <= file
  /\ pc = "write" => file # Torn /\ seq = NextSeq(file)
  /\ pc = "close" => seq >= 1 /\ (seq > 1 => \A n \in issued : n < seq)
  /\ pc = "send"  => file = seq /\ seq >= 1 /\ \A n \in issued : n < seq

SeqInv == SeqTypeOK /\ FileInv
=============================================================================
