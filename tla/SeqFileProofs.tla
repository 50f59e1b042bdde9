--------------------------- MODULE SeqFileProofs ---------------------------
(***************************************************************************)
(* The transaction numbers increase, for every size of the number range    *)
(* (65535 in the program) and wherever the program is killed.              *)
(***************************************************************************)
EXTENDS SeqFile, TLAPS

USE MaxSeqAssumption

\* The invariant holds before the first call.
LEMMA SeqInvInit == SeqInit => SeqInv
BY DEF SeqInit, SeqInv, SeqTypeOK, FileInv, SeqFiles, Torn

\* No step of nextSeq, no kill and no restart breaks it.
LEMMA SeqInvStep == SeqInv /\ [SeqNext]_seqVars => SeqInv'
<1> SUFFICES ASSUME SeqInv, [SeqNext]_seqVars PROVE SeqInv'
  OBVIOUS
<1> USE DEF SeqInv, SeqTypeOK, FileInv, SeqFiles, Torn
<1>1. CASE ReadSeq
  BY <1>1 DEF ReadSeq, NextSeq
<1>2. CASE ReadFails
  BY <1>2 DEF ReadFails
<1>3. CASE Truncate
  <2>1. seq \in 1 .. MaxSeq /\ (seq > 1 => seq = file + 1)
    BY <1>3 DEF Truncate, NextSeq, Absent
  <2>2. seq > 1 => \A n \in issued : n < seq
    BY <1>3, <2>1 DEF Truncate
  <2> QED BY <1>3, <2>1, <2>2 DEF Truncate
<1>4. CASE WriteSeq
  <2>1. issued' \subseteq 1 .. MaxSeq /\ \A n \in issued' : n < seq
    <3>1. CASE seq = 1
      BY <1>4, <3>1 DEF WriteSeq
    <3>2. CASE seq > 1
      BY <1>4, <3>2 DEF WriteSeq
    <3> QED BY <1>4, <3>1, <3>2 DEF WriteSeq
  <2>2. \A n \in issued' : n <= seq
    BY <1>4, <2>1
  <2> QED BY <1>4, <2>1, <2>2 DEF WriteSeq
<1>5. CASE Issue
  BY <1>5 DEF Issue
<1>6. CASE Crash
  BY <1>6 DEF Crash
<1>7. CASE Restart
  BY <1>7 DEF Restart
<1>8. CASE UNCHANGED seqVars
  BY <1>8 DEF seqVars
<1> QED BY <1>1, <1>2, <1>3, <1>4, <1>5, <1>6, <1>7, <1>8 DEF SeqNext

\* A number that is about to be sent is larger than all that were sent since
\* the last wrap-around, across every kill and restart (semonitor.py:207-218).
THEOREM NumbersIncrease == SeqSpec => []Increasing
<1>1. SeqInv => Increasing
  BY DEF SeqInv, FileInv, Increasing
<1> QED BY SeqInvInit, SeqInvStep, <1>1, PTL DEF SeqSpec
=============================================================================
