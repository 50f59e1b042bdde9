-------------------------- MODULE Se2InfluxProofs --------------------------
(***************************************************************************)
(* What the queues and the rotation of se2influx.py keep, for every size   *)
(* of the queues and any number of lines.                                  *)
(***************************************************************************)
EXTENDS Se2Influx, SequenceTheorems, TLAPS

USE SizeAssumption, SwitchAssumption

-----------------------------------------------------------------------------
(* The lines of a sequence. *)

LEMMA ToSetEmpty == ToSet(<<>>) = {}
BY DEF ToSet

LEMMA ToSetOne == ASSUME NEW l PROVE ToSet(<<l>>) = {l}
BY DEF ToSet

LEMMA ToSetAppend ==
  ASSUME NEW S, NEW s \in Seq(S), NEW l \in S
  PROVE  ToSet(Append(s, l)) = ToSet(s) \cup {l}
<1> DEFINE t == Append(s, l)
<1>1. /\ Len(s) \in Nat /\ DOMAIN s = 1 .. Len(s) /\ DOMAIN t = 1 .. Len(s) + 1
      /\ t[Len(s) + 1] = l /\ \A i \in 1 .. Len(s) : t[i] = s[i]
  OBVIOUS
<1> HIDE DEF t
<1>2. \A i \in DOMAIN t : t[i] \in ToSet(s) \cup {l}
  BY <1>1 DEF ToSet
<1>3. \A i \in DOMAIN s : s[i] \in ToSet(t)
  BY <1>1 DEF ToSet
<1>4. l \in ToSet(t)
  BY <1>1 DEF ToSet
<1>5. ToSet(t) = ToSet(s) \cup {l}
  BY <1>2, <1>3, <1>4 DEF ToSet
<1> QED BY <1>5 DEF t

LEMMA ToSetTail ==
  ASSUME NEW S, NEW s \in Seq(S), s # <<>>
  PROVE  /\ Head(s) \in S /\ Tail(s) \in Seq(S) /\ Len(Tail(s)) = Len(s) - 1
         /\ ToSet(s) = {Head(s)} \cup ToSet(Tail(s))
         /\ ToSet(Tail(s)) \subseteq ToSet(s)
<1>1. Len(s) \in Nat \ {0} /\ DOMAIN s = 1 .. Len(s)
  OBVIOUS
<1>2. /\ Head(s) = s[1] /\ Head(s) \in S /\ Tail(s) \in Seq(S)
      /\ Len(Tail(s)) = Len(s) - 1 /\ DOMAIN Tail(s) = 1 .. Len(s) - 1
      /\ \A i \in 1 .. Len(s) - 1 : Tail(s)[i] = s[i + 1]
  BY <1>1
<1>3. \A i \in DOMAIN s : s[i] \in {Head(s)} \cup ToSet(Tail(s))
  <2> SUFFICES ASSUME NEW i \in 1 .. Len(s), i # 1
               PROVE  s[i] \in ToSet(Tail(s))
    BY <1>1, <1>2
  <2>1. i - 1 \in 1 .. Len(s) - 1 /\ Tail(s)[i - 1] = s[i]
    BY <1>1, <1>2
  <2> QED BY <2>1, <1>2 DEF ToSet
<1>4. \A i \in DOMAIN Tail(s) : Tail(s)[i] \in ToSet(s)
  BY <1>1, <1>2 DEF ToSet
<1>5. Head(s) \in ToSet(s)
  BY <1>1, <1>2 DEF ToSet
<1> QED BY <1>2, <1>3, <1>4, <1>5 DEF ToSet

\* A sequence cut after its first i elements.
LEMMA ToSetCut ==
  ASSUME NEW S, NEW s \in Seq(S), NEW i \in 1 .. Len(s)
  PROVE  /\ Head(s) \in S
         /\ SubSeq(s, 2, i) \in Seq(S) /\ SubSeq(s, i + 1, Len(s)) \in Seq(S)
         /\ ToSet(s) \subseteq {Head(s)} \cup ToSet(SubSeq(s, 2, i))
                                         \cup ToSet(SubSeq(s, i + 1, Len(s)))
<1> DEFINE a == SubSeq(s, 2, i)
           b == SubSeq(s, i + 1, Len(s))
<1>1. Len(s) \in Nat /\ DOMAIN s = 1 .. Len(s) /\ Head(s) = s[1] /\ s[1] \in S
  OBVIOUS
<1>2. /\ a \in Seq(S) /\ DOMAIN a = 1 .. i - 1
      /\ \A j \in 1 .. i - 1 : a[j] = s[j + 1]
  BY <1>1
<1>3. /\ b \in Seq(S) /\ DOMAIN b = 1 .. Len(s) - i
      /\ \A j \in 1 .. Len(s) - i : b[j] = s[j + i]
  BY <1>1
<1> HIDE DEF a, b
<1>4. \A j \in DOMAIN s : s[j] \in {Head(s)} \cup ToSet(a) \cup ToSet(b)
  <2> TAKE j \in DOMAIN s
  <2>1. CASE j = 1
    BY <2>1, <1>1
  <2>2. CASE j \in 2 .. i
    <3>1. j - 1 \in 1 .. i - 1 /\ a[j - 1] = s[j]
      BY <2>2, <1>2
    <3> QED BY <3>1, <1>2 DEF ToSet
  <2>3. CASE j \in i + 1 .. Len(s)
    <3>1. j - i \in 1 .. Len(s) - i /\ b[j - i] = s[j]
      BY <2>3, <1>1, <1>3
    <3> QED BY <3>1, <1>3 DEF ToSet
  <2> QED BY <1>1, <2>1, <2>2, <2>3
<1>5. ToSet(s) \subseteq {Head(s)} \cup ToSet(a) \cup ToSet(b)
  BY <1>4 DEF ToSet
<1> QED BY <1>1, <1>2, <1>3, <1>5 DEF a, b

LEMMA ToSetConcat ==
  ASSUME NEW S, NEW s \in Seq(S), NEW t \in Seq(S)
  PROVE  ToSet(s \o t) = ToSet(s) \cup ToSet(t)
<1>1. /\ Len(s) \in Nat /\ Len(t) \in Nat
      /\ DOMAIN (s \o t) = 1 .. Len(s) + Len(t)
      /\ DOMAIN s = 1 .. Len(s) /\ DOMAIN t = 1 .. Len(t)
      /\ \A i \in 1 .. Len(s) : (s \o t)[i] = s[i]
      /\ \A i \in 1 .. Len(t) : (s \o t)[Len(s) + i] = t[i]
  OBVIOUS
<1>2. \A i \in DOMAIN (s \o t) : (s \o t)[i] \in ToSet(s) \cup ToSet(t)
  <2> TAKE i \in DOMAIN (s \o t)
  <2>1. CASE i <= Len(s)
    BY <2>1, <1>1 DEF ToSet
  <2>2. CASE i > Len(s)
    <3>1. i - Len(s) \in 1 .. Len(t) /\ (s \o t)[i] = t[i - Len(s)]
      BY <2>2, <1>1
    <3> QED BY <3>1, <1>1 DEF ToSet
  <2> QED BY <1>1, <2>1, <2>2
<1>3. \A i \in DOMAIN s : s[i] \in ToSet(s \o t)
  BY <1>1 DEF ToSet
<1>4. \A i \in DOMAIN t : t[i] \in ToSet(s \o t)
  <2> TAKE i \in DOMAIN t
  <2>1. Len(s) + i \in 1 .. Len(s) + Len(t) /\ (s \o t)[Len(s) + i] = t[i]
    BY <1>1
  <2> QED BY <2>1, <1>1 DEF ToSet
<1> QED BY <1>2, <1>3, <1>4 DEF ToSet

-----------------------------------------------------------------------------
(* Types. *)

LEMMA TypeInit == Init => TypeOK
<1> SUFFICES ASSUME Init PROVE TypeOK
  OBVIOUS
<1>1. gPc \in {"off", "open"}
  BY DEF Init
<1>2. closed \in BOOLEAN /\ shutdown \in BOOLEAN
  BY DEF Init
<1>3. <<>> \in Seq(Lines) /\ Len(<<>>) <= QueueSize
  OBVIOUS
<1> QED BY <1>1, <1>2, <1>3 DEF Init, TypeOK, Lines, NoLine, Ended

LEMMA TypeStep == TypeOK /\ [Next]_vars => TypeOK'
<1> SUFFICES ASSUME TypeOK, [Next]_vars PROVE TypeOK'
  OBVIOUS
<1> USE DEF TypeOK, Ended, NoLine
<1> USE DEF input, reader, writer, files, logger
<1>1. CASE Feed
  <2>1. fed' \in 0 .. MaxLines /\ fed + 1 \in Lines /\ pipe' \in Seq(Lines)
    BY <1>1 DEF Feed, Lines
  <2> QED BY <1>1, <2>1 DEF Feed
<1>2. CASE CloseInput
  BY <1>2 DEF CloseInput
<1>3. CASE ReadLine
  <2>1. CASE buf # <<>> /\ rLine' = Head(buf) /\ buf' = Tail(buf) /\ UNCHANGED pipe
    <3>1. Head(buf) \in Lines /\ Tail(buf) \in Seq(Lines)
      BY <2>1, ToSetTail
    <3> QED BY <1>3, <2>1, <3>1 DEF ReadLine
  <2>2. ASSUME pipe # <<>>, rLine' = Head(pipe), NEW i \in 1 .. Len(pipe),
               buf' = SubSeq(pipe, 2, i), pipe' = SubSeq(pipe, i + 1, Len(pipe))
        PROVE  TypeOK'
    <3>1. Head(pipe) \in Lines /\ buf' \in Seq(Lines) /\ pipe' \in Seq(Lines)
      BY <2>2, ToSetCut
    <3> QED BY <1>3, <2>2, <3>1 DEF ReadLine
  <2> QED BY <1>3, <2>1, <2>2 DEF ReadLine
<1>4. CASE EndOfInput \/ ReadFails \/ ReadIdle
  BY <1>4 DEF EndOfInput, ReadFails, ReadIdle
<1>5. CASE PutWriter
  <2>1. rLine \in Lines /\ wq' \in Seq(Lines) /\ Len(wq') <= QueueSize
    BY <1>5 DEF PutWriter
  <2> QED BY <1>5, <2>1 DEF PutWriter
<1>6. CASE PutLogger
  BY <1>6 DEF PutLogger
<1>7. CASE Connect \/ WriterEmpty \/ WriterCheck \/ WriterWrite \/ WriterFails \/ WriterBlocks
  BY <1>7 DEF Connect, WriterEmpty, WriterCheck, WriterWrite, WriterFails, WriterBlocks
<1>8. CASE WriterGet
  <2>1. Head(wq) \in Lines /\ Tail(wq) \in Seq(Lines) /\ Len(Tail(wq)) = Len(wq) - 1
    BY <1>8, ToSetTail DEF WriterGet
  <2> QED BY <1>8, <2>1 DEF WriterGet
<1>9. CASE LogOpen \/ LogEmpty \/ LogCheck \/ LogWriteFails \/ LogSizeFails
  BY <1>9 DEF LogOpen, LogEmpty, LogCheck, LogWriteFails, LogSizeFails
<1>10. CASE LogGet
  <2>1. Head(lq) \in Lines /\ Tail(lq) \in Seq(Lines) /\ Len(Tail(lq)) = Len(lq) - 1
    BY <1>10, ToSetTail DEF LogGet
  <2> QED BY <1>10, <2>1 DEF LogGet
<1>11. CASE LogWrite
  BY <1>11 DEF LogWrite
<1>12. CASE RotateCopy
  BY <1>12 DEF RotateCopy, Archive
<1>13. CASE RotateFails
  BY <1>13 DEF RotateFails, Archive
<1>14. CASE RotateTruncate
  BY <1>14 DEF RotateTruncate
<1>15. CASE MainPoll
  BY <1>15 DEF MainPoll, SomeEnded
<1>16. CASE MainJoin
  BY <1>16 DEF MainJoin
<1>17. CASE UNCHANGED vars
  BY <1>17 DEF vars
<1> QED BY <1>1, <1>2, <1>3, <1>4, <1>5, <1>6, <1>7, <1>8, <1>9, <1>10, <1>11,
           <1>12, <1>13, <1>14, <1>15, <1>16, <1>17
        DEF Next, Reader, Writer, Logger

THEOREM TypeCorrect == Spec => []TypeOK
BY TypeInit, TypeStep, PTL DEF Spec

-----------------------------------------------------------------------------
(* The end of the program. *)

LEMMA EndInit == Init => EndInv
BY ToSetEmpty DEF Init, EndInv, NoFailure, Ended

\* A step that leaves the queues, the threads and what is late alone.
LEMMA EndSame ==
  ASSUME EndInv, UNCHANGED <<rPc, wPc, gPc, wq, lq, late, shutdown, main>>
  PROVE  EndInv'
BY DEF EndInv, NoFailure

LEMMA EndStep == TypeOK /\ EndInv /\ [Next]_vars => EndInv'
<1> SUFFICES ASSUME TypeOK, EndInv, [Next]_vars PROVE EndInv'
  OBVIOUS
<1> USE DEF NoFailure, Ended, input, reader, writer, files, logger
<1>1. CASE Feed \/ CloseInput \/ UNCHANGED vars
  BY <1>1, EndSame DEF Feed, CloseInput, vars
<1>2. CASE ReadLine \/ EndOfInput \/ ReadFails \/ ReadIdle
  BY <1>2 DEF ReadLine, Ready, EndOfInput, ReadFails, ReadIdle, EndInv
<1>3. CASE PutWriter
  <2>1. ToSet(wq') = ToSet(wq) \cup {rLine}
    BY <1>3, ToSetAppend DEF PutWriter, TypeOK
  <2>2. wPc # "done" \/ ~NoFailure
    BY <1>3 DEF PutWriter, EndInv
  <2>3. late \subseteq late' /\ (wPc = "empty" => <<rLine, "writer">> \in late')
    BY <1>3 DEF PutWriter
  <2>4. /\ UNCHANGED <<wPc, gPc, lq, shutdown, main>>
        /\ rPc = "putW" /\ rPc' \in {"putL", "select"} /\ (rPc' = "putL" => WithLog)
    BY <1>3 DEF PutWriter
  <2> QED BY <2>1, <2>2, <2>3, <2>4 DEF EndInv
<1>4. CASE PutLogger
  <2>1. ToSet(lq') = ToSet(lq) \cup {rLine}
    BY <1>4, ToSetAppend DEF PutLogger, TypeOK
  <2>2. gPc # "done" \/ ~NoFailure
    BY <1>4 DEF PutLogger, EndInv
  <2>3. late \subseteq late' /\ (gPc = "empty" => <<rLine, "logger">> \in late')
    BY <1>4 DEF PutLogger
  <2>4. /\ UNCHANGED <<wPc, gPc, wq, shutdown, main>>
        /\ rPc = "putL" /\ rPc' = "select" /\ WithLog /\ gPc # "off"
    BY <1>4 DEF PutLogger, EndInv
  <2> QED BY <2>1, <2>2, <2>3, <2>4 DEF EndInv
<1>5. CASE \/ Connect \/ WriterWrite \/ WriterFails \/ WriterBlocks
           \/ LogOpen \/ LogWrite \/ LogWriteFails \/ LogSizeFails
  BY <1>5 DEF Connect, WriterWrite, WriterFails, WriterBlocks,
              LogOpen, LogWrite, LogWriteFails, LogSizeFails, EndInv
<1>6. CASE WriterGet
  <2>1. wPc = "get" /\ wPc' = "write" /\ UNCHANGED <<rPc, gPc, lq, shutdown, main>>
    BY <1>6 DEF WriterGet
  <2>2. \A l : <<l, "logger">> \in late => <<l, "logger">> \in late'
    BY <1>6 DEF WriterGet
  <2> QED BY <2>1, <2>2 DEF EndInv
<1>7. CASE LogGet
  <2>1. gPc = "get" /\ gPc' = "write" /\ UNCHANGED <<rPc, wPc, wq, shutdown, main>>
    BY <1>7 DEF LogGet
  <2>2. \A l : <<l, "writer">> \in late => <<l, "writer">> \in late'
    BY <1>7 DEF LogGet
  <2>3. WithLog
    BY <1>7 DEF EndInv, LogGet
  <2> QED BY <2>1, <2>2, <2>3 DEF EndInv
<1>8. CASE WriterEmpty
  <2>1. wq' = <<>> /\ ToSet(wq') = {}
    BY <1>8, ToSetEmpty DEF WriterEmpty
  <2> QED BY <1>8, <2>1 DEF WriterEmpty, EndInv
<1>9. CASE LogEmpty
  <2>1. lq' = <<>> /\ ToSet(lq') = {}
    BY <1>9, ToSetEmpty DEF LogEmpty
  <2> QED BY <1>9, <2>1 DEF LogEmpty, EndInv
<1>10. CASE WriterCheck \/ LogCheck
  BY <1>10 DEF WriterCheck, LogCheck, EndInv
<1>11. CASE RotateCopy \/ RotateFails \/ RotateTruncate
  BY <1>11 DEF RotateCopy, RotateFails, RotateTruncate, EndInv
<1>12. CASE MainPoll
  <2>1. (NoFailure /\ shutdown') => rPc \in Ended
    <3>1. CASE shutdown
      BY <3>1 DEF EndInv
    <3>2. CASE ~shutdown
      <4>1. wPc # "done" /\ gPc # "done"
        BY <3>2 DEF EndInv
      <4>2. shutdown' = SomeEnded
        BY <1>12, <3>2 DEF MainPoll
      <4> QED BY <4>1, <4>2 DEF SomeEnded
    <3> QED BY <3>1, <3>2
  <2>2. /\ UNCHANGED <<rPc, wPc, gPc, wq, lq, late>>
        /\ shutdown => shutdown'
        /\ main' # "done"
    BY <1>12 DEF MainPoll
  <2> QED BY <2>1, <2>2 DEF EndInv
<1>13. CASE MainJoin
  BY <1>13 DEF MainJoin, EndInv
<1> QED BY <1>1, <1>2, <1>3, <1>4, <1>5, <1>6, <1>7, <1>8, <1>9, <1>10, <1>11,
           <1>12, <1>13
        DEF Next, Reader, Writer, Logger

\* When run() returns without a failure of the writer or the logger, nothing is
\* left in a queue but what was put there between a time-out and the look at the
\* event that follows it (se2influx.py:106-110).
THEOREM NothingLeftBehind == Spec => []LeftBehind
<1>1. TypeOK /\ EndInv => LeftBehind
  <2> SUFFICES ASSUME TypeOK, EndInv, main = "done", wPc # "failed", gPc # "failed"
               PROVE  /\ \A l \in ToSet(wq) : <<l, "writer">> \in late
                      /\ \A l \in ToSet(lq) : <<l, "logger">> \in late
    BY DEF LeftBehind
  <2>1. wPc = "done" /\ gPc \in {"done", "off"}
    BY DEF EndInv, TypeOK, Ended
  <2> QED BY <2>1, ToSetEmpty DEF EndInv, NoFailure
<1> QED BY TypeInit, TypeStep, EndInit, EndStep, <1>1, PTL DEF Spec

-----------------------------------------------------------------------------
(* The log. *)

\* Where a line may be on its way to the log.
LEMMA WhereLines ==
  ASSUME TypeOK
  PROVE  /\ ToSet(Unread) = ToSet(buf) \cup ToSet(pipe)
         /\ ToSet(InHand({"putW", "putL"})) =
              IF rPc \in {"putW", "putL"} THEN {rLine} ELSE {}
<1>1. buf \in Seq(Lines) /\ pipe \in Seq(Lines)
  BY DEF TypeOK
<1>2. ToSet(buf \o pipe) = ToSet(buf) \cup ToSet(pipe)
  BY <1>1, ToSetConcat
<1>3. CASE rPc \in {"putW", "putL"}
  <2>1. InHand({"putW", "putL"}) = <<rLine>> /\ ToSet(<<rLine>>) = {rLine}
    BY <1>3, ToSetOne DEF InHand
  <2> QED BY <1>2, <1>3, <2>1 DEF Unread
<1>4. CASE rPc \notin {"putW", "putL"}
  <2>1. InHand({"putW", "putL"}) = <<>>
    BY <1>4 DEF InHand
  <2> QED BY <1>2, <1>4, <2>1, ToSetEmpty DEF Unread
<1> QED BY <1>3, <1>4

\* The set of these lines, spelled out.
Kept == file \cup lastArch \cup oldArch \cup overwritten \cup {gLine} \cup ToSet(lq)
        \cup (IF rPc \in {"putW", "putL"} THEN {rLine} ELSE {})
        \cup ToSet(buf) \cup ToSet(pipe)

LEMMA KeptIs == TypeOK => (LogKeepsAll <=> (WithLog => 1 .. fed \subseteq Kept))
BY WhereLines DEF LogKeepsAll, Kept

\* The invariant of the log: a rotation empties the file only when all of it has
\* been copied, and the logger takes a line only when it has none in hand.
KeptInv ==
  /\ gPc = "truncate" => file \subseteq lastArch
  /\ gPc \in {"write", "failed"} \/ gLine = NoLine
  /\ WithLog => 1 .. fed \subseteq Kept

LEMMA KeptInit == Init => KeptInv
<1> SUFFICES ASSUME Init PROVE KeptInv
  OBVIOUS
<1>1. 1 .. fed = {}
  BY DEF Init
<1>2. gPc # "truncate" /\ gLine = NoLine
  BY DEF Init
<1> QED BY <1>1, <1>2 DEF KeptInv

LEMMA KeptStep == TypeOK /\ EndInv /\ KeptInv /\ [Next]_vars => KeptInv'
<1> SUFFICES ASSUME TypeOK, EndInv, KeptInv, [Next]_vars PROVE KeptInv'
  OBVIOUS
<1> USE DEF input, reader, writer, files, logger, NoLine
<1>1. CASE Feed
  <2>1. ToSet(pipe') = ToSet(pipe) \cup {fed + 1}
    <3>1. fed + 1 \in Lines
      BY <1>1 DEF Feed, Lines, TypeOK
    <3> QED BY <1>1, <3>1, ToSetAppend DEF Feed, TypeOK
  <2>2. 1 .. fed' = (1 .. fed) \cup {fed + 1}
    BY <1>1 DEF Feed, TypeOK
  <2>3. UNCHANGED <<buf, rPc, rLine, lq, gPc, gLine, file, lastArch, oldArch,
                    overwritten>>
    BY <1>1 DEF Feed
  <2> QED BY <2>1, <2>2, <2>3 DEF KeptInv, Kept
<1>2. CASE ReadLine
  <2>1. rPc' = "putW" /\ rPc = "select"
        /\ UNCHANGED <<fed, lq, gPc, gLine, file, lastArch, oldArch, overwritten>>
    BY <1>2 DEF ReadLine, Ready
  <2>2. ToSet(buf) \cup ToSet(pipe) \subseteq {rLine'} \cup ToSet(buf') \cup ToSet(pipe')
    <3>1. CASE buf # <<>> /\ rLine' = Head(buf) /\ buf' = Tail(buf) /\ UNCHANGED pipe
      <4>1. ToSet(buf) = {Head(buf)} \cup ToSet(Tail(buf))
        BY <3>1, ToSetTail DEF TypeOK
      <4> QED BY <3>1, <4>1
    <3>2. ASSUME buf = <<>>, rLine' = Head(pipe), NEW i \in 1 .. Len(pipe),
                 buf' = SubSeq(pipe, 2, i), pipe' = SubSeq(pipe, i + 1, Len(pipe))
          PROVE  ToSet(buf) \cup ToSet(pipe)
                   \subseteq {rLine'} \cup ToSet(buf') \cup ToSet(pipe')
      BY <3>2, ToSetCut, ToSetEmpty DEF TypeOK
    <3> QED BY <1>2, <3>1, <3>2 DEF ReadLine
  <2> QED BY <2>1, <2>2 DEF KeptInv, Kept
<1>3. CASE CloseInput \/ EndOfInput \/ ReadFails \/ ReadIdle
  BY <1>3 DEF CloseInput, EndOfInput, Ready, ReadFails, ReadIdle, KeptInv, Kept
<1>4. CASE PutWriter
  BY <1>4 DEF PutWriter, KeptInv, Kept
<1>5. CASE PutLogger
  <2>1. ToSet(lq') = ToSet(lq) \cup {rLine}
    BY <1>5, ToSetAppend DEF PutLogger, TypeOK
  <2> QED BY <1>5, <2>1 DEF PutLogger, KeptInv, Kept
<1>6. CASE \/ Connect \/ WriterGet \/ WriterEmpty \/ WriterCheck
           \/ WriterWrite \/ WriterFails \/ WriterBlocks
  BY <1>6 DEF Connect, WriterGet, WriterEmpty, WriterCheck, WriterWrite, WriterFails,
              WriterBlocks, KeptInv, Kept
<1>7. CASE LogOpen \/ LogEmpty \/ LogCheck \/ LogWriteFails \/ LogSizeFails
  BY <1>7 DEF LogOpen, LogEmpty, LogCheck, LogWriteFails, LogSizeFails, KeptInv, Kept
<1>8. CASE LogGet
  <2>1. ToSet(lq) = {gLine'} \cup ToSet(lq')
    BY <1>8, ToSetTail DEF LogGet, TypeOK
  <2>2. gLine = 0 /\ 0 \notin 1 .. fed
    BY <1>8 DEF LogGet, KeptInv, TypeOK
  <2> QED BY <1>8, <2>1, <2>2 DEF LogGet, KeptInv, Kept
<1>9. CASE LogWrite
  BY <1>9 DEF LogWrite, KeptInv, Kept
<1>10. ASSUME NEW lines, Archive(lines)
       PROVE  lastArch' = lines
              /\ file \cup lastArch \cup oldArch \cup overwritten
                   \subseteq file \cup oldArch' \cup overwritten'
  BY <1>10 DEF Archive
<1>11. CASE RotateCopy
  <2>1. /\ lastArch' = file /\ file' = file
        /\ file \cup lastArch \cup oldArch \cup overwritten
             \subseteq file \cup oldArch' \cup overwritten'
    BY <1>11, <1>10 DEF RotateCopy
  <2>2. /\ gPc = "copy" /\ gPc' = "truncate"
        /\ UNCHANGED <<fed, buf, pipe, rPc, rLine, lq, gLine>>
    BY <1>11 DEF RotateCopy
  <2> QED BY <2>1, <2>2 DEF KeptInv, Kept
<1>12. CASE RotateFails
  <2>1. /\ file' = file
        /\ file \cup lastArch \cup oldArch \cup overwritten
             \subseteq file' \cup lastArch' \cup oldArch' \cup overwritten'
    BY <1>12, <1>10 DEF RotateFails
  <2>2. /\ gPc \in {"copy", "truncate"} /\ gPc' = "open"
        /\ UNCHANGED <<fed, buf, pipe, rPc, rLine, lq, gLine>>
    BY <1>12 DEF RotateFails
  <2> QED BY <2>1, <2>2 DEF KeptInv, Kept
<1>13. CASE RotateTruncate
  BY <1>13 DEF RotateTruncate, KeptInv, Kept
<1>14. CASE MainPoll \/ MainJoin \/ UNCHANGED vars
  BY <1>14 DEF MainPoll, MainJoin, vars, KeptInv, Kept
<1> QED BY <1>1, <1>2, <1>3, <1>4, <1>5, <1>6, <1>7, <1>8, <1>9, <1>11, <1>12,
           <1>13, <1>14
        DEF Next, Reader, Writer, Logger

\* For every size of the queue and wherever a rotation fails, a line that has
\* arrived is in the log or on its way there, or was in a compressed log written
\* over within the second (se2influx.py:221-280).
THEOREM LogComplete == Spec => []LogKeepsAll
<1>1. TypeOK /\ KeptInv => LogKeepsAll
  BY KeptIs DEF KeptInv
<1> QED BY TypeInit, TypeStep, EndInit, EndStep, KeptInit, KeptStep, <1>1, PTL
        DEF Spec

-----------------------------------------------------------------------------
(* The order of the lines. *)

\* An element moves from the beginning of a sequence to the end of the one before.
LEMMA MoveHead ==
  ASSUME NEW S, NEW s \in Seq(S), NEW t \in Seq(S), t # <<>>
  PROVE  Append(s, Head(t)) \o Tail(t) = s \o t
<1>1. /\ Head(t) \in S /\ Tail(t) \in Seq(S) /\ Head(t) = t[1]
      /\ Len(Tail(t)) = Len(t) - 1 /\ Len(t) \in Nat \ {0} /\ Len(s) \in Nat
      /\ \A i \in 1 .. Len(t) - 1 : Tail(t)[i] = t[i + 1]
  BY HeadTailProperties, EmptySeq, LenProperties
<1> DEFINE u == Append(s, Head(t))
           v == Tail(t)
<1>2. /\ u \in Seq(S) /\ Len(u) = Len(s) + 1 /\ u[Len(s) + 1] = t[1]
      /\ \A i \in 1 .. Len(s) : u[i] = s[i]
  BY <1>1
<1>3. v \in Seq(S) /\ Len(v) = Len(t) - 1 /\ \A i \in 1 .. Len(t) - 1 : v[i] = t[i + 1]
  BY <1>1
<1> HIDE DEF u, v
<1>4. /\ u \o v \in Seq(S) /\ s \o t \in Seq(S)
      /\ Len(u \o v) = Len(s) + Len(t) /\ Len(s \o t) = Len(s) + Len(t)
  <2>1. u \o v \in Seq(S) /\ Len(u \o v) = Len(u) + Len(v)
    BY <1>2, <1>3, ConcatProperties
  <2>2. s \o t \in Seq(S) /\ Len(s \o t) = Len(s) + Len(t)
    BY ConcatProperties
  <2> QED BY <1>1, <1>2, <1>3, <2>1, <2>2
<1>5. ASSUME NEW i \in 1 .. Len(s) + Len(t) PROVE (u \o v)[i] = (s \o t)[i]
  <2>1. (s \o t)[i] = IF i <= Len(s) THEN s[i] ELSE t[i - Len(s)]
    BY ConcatProperties
  <2>2. (u \o v)[i] = IF i <= Len(u) THEN u[i] ELSE v[i - Len(u)]
    BY <1>1, <1>2, <1>3, ConcatProperties
  <2>3. CASE i <= Len(s)
    BY <1>1, <1>2, <2>1, <2>2, <2>3
  <2>4. CASE i = Len(s) + 1
    BY <1>1, <1>2, <2>1, <2>2, <2>4
  <2>5. CASE i > Len(s) + 1
    <3>1. i - Len(u) \in 1 .. Len(t) - 1 /\ i - Len(u) + 1 = i - Len(s)
      BY <1>1, <1>2, <2>5
    <3>2. v[i - Len(u)] = t[i - Len(s)]
      BY <1>3, <3>1
    <3>3. ~(i <= Len(s)) /\ ~(i <= Len(u))
      BY <1>1, <1>2, <2>5
    <3>4. (u \o v)[i] = v[i - Len(u)]
      BY <2>2, <3>3
    <3>5. (s \o t)[i] = t[i - Len(s)]
      BY <2>1, <3>3
    <3> QED BY <3>2, <3>4, <3>5
  <2>6. i <= Len(s) \/ i = Len(s) + 1 \/ i > Len(s) + 1
    BY <1>1
  <2> QED BY <2>3, <2>4, <2>5, <2>6, Zenon
<1>6. u \o v = s \o t
  BY <1>4, <1>5, SeqEqual
<1> QED BY <1>6 DEF u, v

\* One element is the end of one sequence or the beginning of the next.
LEMMA OneBetween ==
  ASSUME NEW S, NEW s \in Seq(S), NEW l \in S, NEW t \in Seq(S)
  PROVE  s \o (<<l>> \o t) = Append(s, l) \o t
<1>1. <<l>> \o t \in Seq(S) /\ <<l>> \o t # <<>> /\ <<l>> \in Seq(S)
  BY ConcatProperties
<1>2. Append(<<>>, l) = <<l>> /\ <<>> \in Seq(S)
  OBVIOUS
<1>3. (s \o <<l>>) \o t = s \o (<<l>> \o t)
  BY <1>1, ConcatAssociative
<1>4. s \o <<l>> = Append(s, l)
  <2>1. Head(<<l>>) = l /\ Tail(<<l>>) = <<>> /\ <<l>> # <<>>
    OBVIOUS
  <2>2. Append(s, l) \o <<>> = s \o <<l>>
    BY <1>1, <2>1, MoveHead
  <2>3. Append(s, l) \in Seq(S)
    OBVIOUS
  <2> QED BY <2>2, <2>3, ConcatEmptySeq
<1> QED BY <1>3, <1>4

\* What holds of the sequences of lines.
LEMMA LineSeqs ==
  /\ <<>> \in Seq(Lines)
  /\ \A s, t \in Seq(Lines) : s \o t \in Seq(Lines)
  /\ \A s \in Seq(Lines) : <<>> \o s = s /\ s \o <<>> = s
  /\ \A s, t, u \in Seq(Lines) : (s \o t) \o u = s \o (t \o u)
<1>1. \A s, t \in Seq(Lines) : s \o t \in Seq(Lines)
  BY ConcatProperties
<1>2. \A s \in Seq(Lines) : <<>> \o s = s /\ s \o <<>> = s
  BY ConcatEmptySeq
<1>3. \A s, t, u \in Seq(Lines) : (s \o t) \o u = s \o (t \o u)
  BY ConcatAssociative
<1> QED BY <1>1, <1>2, <1>3

\* What is on its way to the writer, from the history back to the pipe.
Rest(h, b, p) == h \o (b \o p)
Way(s, q, h, b, p) == s \o (q \o Rest(h, b, p))
Hand == InHand({"putW"})

OnWay == Way(seen, wq, Hand, buf, pipe) = [i \in 1 .. fed |-> i]

\* The line in hand is a line.
LEMMA HandType == TypeOK => Hand \in Seq(Lines)
BY DEF TypeOK, Hand, InHand

\* The property, without its parentheses.
LEMMA WayIs == TypeOK /\ OnWay => WriterInOrder
<1> SUFFICES ASSUME TypeOK, OnWay PROVE WriterInOrder
  OBVIOUS
<1>1. seen \in Seq(Lines)
  BY DEF TypeOK
<1>2. wq \in Seq(Lines)
  BY DEF TypeOK
<1>3. Hand \in Seq(Lines)
  BY HandType
<1>4. buf \o pipe \in Seq(Lines)
  BY LineSeqs DEF TypeOK
<1>5. seen \o wq \in Seq(Lines)
  BY <1>1, <1>2, LineSeqs
<1>6. Hand \o (buf \o pipe) \in Seq(Lines)
  BY <1>3, <1>4, LineSeqs
<1>7. \A s, t, u \in Seq(Lines) : (s \o t) \o u = s \o (t \o u)
  BY LineSeqs
<1>8. ((seen \o wq) \o Hand) \o (buf \o pipe) = (seen \o wq) \o (Hand \o (buf \o pipe))
  BY <1>3, <1>4, <1>5, <1>7
<1>9. (seen \o wq) \o (Hand \o (buf \o pipe)) = seen \o (wq \o (Hand \o (buf \o pipe)))
  BY <1>1, <1>2, <1>6, <1>7
<1>10. ((seen \o wq) \o Hand) \o (buf \o pipe) = Way(seen, wq, Hand, buf, pipe)
  BY <1>8, <1>9, Zenon DEF Way, Rest
<1> QED BY <1>10, Zenon DEF WriterInOrder, OnWay, Unread, Hand

\* A step keeps the lines and their order, except for one that arrives.
LEMMA WayStep ==
  ASSUME TypeOK, TypeOK', [Next]_vars, ~Feed
  PROVE  Way(seen, wq, Hand, buf, pipe)' = Way(seen, wq, Hand, buf, pipe) /\ fed' = fed
<1> USE DEF input, reader, writer, files, logger
<1>1. /\ buf \in Seq(Lines) /\ pipe \in Seq(Lines)
      /\ seen \in Seq(Lines) /\ wq \in Seq(Lines)
  BY DEF TypeOK
<1>2. CASE ReadLine
  <2>1. UNCHANGED <<seen, wq, fed>> /\ Hand = <<>> /\ Hand' = <<rLine'>>
    BY <1>2 DEF ReadLine, Ready, Hand, InHand
  <2>2. CASE buf # <<>> /\ rLine' = Head(buf) /\ buf' = Tail(buf) /\ UNCHANGED pipe
    <3>1. Head(buf) \in Lines /\ Tail(buf) \in Seq(Lines) /\ <<>> \in Seq(Lines)
          /\ <<Head(buf)>> = Append(<<>>, Head(buf))
      BY <1>1, <2>2
    <3>2. <<Head(buf)>> \o Tail(buf) = <<>> \o buf /\ <<>> \o buf = buf
      BY <1>1, <2>2, <3>1, MoveHead, ConcatEmptySeq
    <3>3. <<Head(buf)>> \o (Tail(buf) \o pipe) = (<<Head(buf)>> \o Tail(buf)) \o pipe
      BY <1>1, <3>1, ConcatAssociative
    <3>4. <<>> \o (buf \o pipe) = buf \o pipe
      BY <1>1, ConcatProperties, ConcatEmptySeq
    <3>5. Rest(Hand, buf, pipe)' = Rest(Hand, buf, pipe)
      BY <2>1, <2>2, <3>2, <3>3, <3>4 DEF Rest
    <3> QED BY <2>1, <3>5 DEF Way
  <2>3. ASSUME buf = <<>>, pipe # <<>>, rLine' = Head(pipe), NEW i \in 1 .. Len(pipe),
               buf' = SubSeq(pipe, 2, i), pipe' = SubSeq(pipe, i + 1, Len(pipe))
        PROVE  Way(seen, wq, Hand, buf, pipe)' = Way(seen, wq, Hand, buf, pipe)
    <3>1. /\ 1 \in 1 .. Len(pipe) /\ Len(pipe) \in 1 .. Len(pipe) /\ Head(pipe) = pipe[1]
          /\ Len(pipe) \in Nat /\ i \in 1 .. Len(pipe) /\ 2 \in 1 .. Len(pipe) + 1
      BY <1>1, <2>3
    <3>2. SubSeq(pipe, 2, i) \o SubSeq(pipe, i + 1, Len(pipe)) = SubSeq(pipe, 2, Len(pipe))
      <4>1. i \in 2 - 1 .. Len(pipe) /\ Len(pipe) \in i .. Len(pipe)
        BY <3>1
      <4> QED BY <1>1, <3>1, <4>1, ConcatAdjacentSubSeq
    <3>3. SubSeq(pipe, 1, Len(pipe)) = <<pipe[1]>> \o SubSeq(pipe, 1 + 1, Len(pipe))
      <4>1. Len(pipe) \in 1 .. Len(pipe)
        BY <3>1
      <4> QED BY <1>1, <3>1, <4>1, SubSeqRecursiveFirst
    <3>4. SubSeq(pipe, 1, Len(pipe)) = pipe
      BY <1>1, SubSeqFull
    <3>5. 1 + 1 = 2
      OBVIOUS
    <3>6. <<Head(pipe)>> \o (buf \o pipe)' = pipe
      BY <2>3, <3>1, <3>2, <3>3, <3>4, <3>5
    <3>7. <<>> \o pipe = pipe
      BY <1>1, ConcatEmptySeq
    <3>8. Rest(Hand, buf, pipe)' = Rest(Hand, buf, pipe)
      BY <2>1, <2>3, <3>6, <3>7 DEF Rest
    <3> QED BY <2>1, <3>8 DEF Way
  <2> QED BY <1>2, <2>1, <2>2, <2>3 DEF ReadLine
<1>3. CASE PutWriter
  <2>1. /\ UNCHANGED <<seen, buf, pipe, fed>> /\ wq' = Append(wq, rLine)
        /\ Hand = <<rLine>> /\ Hand' = <<>> /\ rLine \in Lines
    BY <1>3 DEF PutWriter, Hand, InHand, TypeOK
  <2>2. buf \o pipe \in Seq(Lines)
    BY <1>1, ConcatProperties
  <2>3. wq \o (<<rLine>> \o (buf \o pipe)) = Append(wq, rLine) \o (buf \o pipe)
    BY <1>1, <2>1, <2>2, OneBetween
  <2>4. <<>> \o (buf \o pipe) = buf \o pipe
    BY <2>2, ConcatEmptySeq
  <2> QED BY <2>1, <2>3, <2>4 DEF Way, Rest
<1>4. CASE WriterGet
  <2>1. /\ UNCHANGED <<buf, pipe, fed, rPc, rLine>> /\ wq # <<>>
        /\ wq' = Tail(wq) /\ seen' = Append(seen, Head(wq))
    BY <1>4 DEF WriterGet
  <2>2. Hand' = Hand
    BY <2>1 DEF Hand, InHand
  <2> DEFINE r == Rest(Hand, buf, pipe)
  <2>3. r \in Seq(Lines) /\ r' = r
    <3>1. Hand \in Seq(Lines) /\ buf \o pipe \in Seq(Lines)
      BY <1>1, HandType, LineSeqs
    <3>2. Hand \o (buf \o pipe) \in Seq(Lines)
      BY <3>1, LineSeqs
    <3> QED BY <2>1, <2>2, <3>2 DEF Rest
  <2> HIDE DEF r
  <2>4. Tail(wq) \in Seq(Lines) /\ Head(wq) \in Lines /\ Append(seen, Head(wq)) \in Seq(Lines)
    BY <1>1, <2>1
  <2>5. \A s, t, u \in Seq(Lines) : (s \o t) \o u = s \o (t \o u)
    BY LineSeqs
  <2>6. Append(seen, Head(wq)) \o (Tail(wq) \o r) = (Append(seen, Head(wq)) \o Tail(wq)) \o r
    BY <2>3, <2>4, <2>5, Zenon
  <2>7. Append(seen, Head(wq)) \o Tail(wq) = seen \o wq
    BY <1>1, <2>1, MoveHead
  <2>8. (seen \o wq) \o r = seen \o (wq \o r)
    BY <1>1, <2>3, <2>5, Zenon
  <2> QED BY <2>1, <2>3, <2>6, <2>7, <2>8 DEF Way, r
<1>5. ASSUME UNCHANGED <<seen, wq, buf, pipe, fed>>, Hand' = Hand
      PROVE  Way(seen, wq, Hand, buf, pipe)' = Way(seen, wq, Hand, buf, pipe)
  BY <1>5 DEF Way, Rest
<1>6. CASE EndOfInput \/ ReadFails \/ ReadIdle \/ PutLogger
  <2>1. UNCHANGED <<seen, wq, buf, pipe, fed>> /\ Hand' = Hand
    BY <1>6 DEF EndOfInput, Ready, ReadFails, ReadIdle, PutLogger, Hand, InHand
  <2> QED BY <2>1, <1>5
<1>7. CASE UNCHANGED <<seen, wq, buf, pipe, fed, rPc, rLine>>
  <2>1. UNCHANGED <<seen, wq, buf, pipe, fed>> /\ Hand' = Hand
    BY <1>7 DEF Hand, InHand
  <2> QED BY <2>1, <1>5
<1>8. \/ ReadLine \/ PutWriter \/ WriterGet
      \/ EndOfInput \/ ReadFails \/ ReadIdle \/ PutLogger
      \/ UNCHANGED <<seen, wq, buf, pipe, fed, rPc, rLine>>
  BY DEF Next, vars, CloseInput, Reader, Writer, Connect, WriterEmpty, WriterCheck,
         WriterWrite, WriterFails, WriterBlocks, Logger, LogOpen, LogGet, LogEmpty, LogCheck,
         LogWrite, LogWriteFails, LogSizeFails,
         RotateCopy, RotateFails, RotateTruncate, MainPoll, MainJoin
<1>9. fed' = fed
  BY <1>8 DEF ReadLine, PutWriter, WriterGet, EndOfInput, ReadFails, ReadIdle, PutLogger
<1> QED BY <1>2, <1>3, <1>4, <1>6, <1>7, <1>8, <1>9

\* A line that arrives is the last.
LEMMA FeedStep ==
  ASSUME TypeOK, Feed, Way(seen, wq, Hand, buf, pipe) = [i \in 1 .. fed |-> i]
  PROVE  Way(seen, wq, Hand, buf, pipe)' = [i \in 1 .. fed' |-> i]
<1>1. /\ UNCHANGED <<seen, wq, buf>> /\ Hand' = Hand
      /\ fed \in Nat /\ fed' = fed + 1 /\ fed' \in Lines /\ pipe' = Append(pipe, fed')
  BY DEF Feed, TypeOK, reader, writer, Hand, InHand, Lines
<1>2. /\ buf \in Seq(Lines) /\ pipe \in Seq(Lines)
      /\ seen \in Seq(Lines) /\ wq \in Seq(Lines) /\ Hand \in Seq(Lines)
  BY HandType DEF TypeOK
<1>3. ASSUME NEW s \in Seq(Lines), NEW t \in Seq(Lines), NEW l \in Lines
      PROVE  s \o Append(t, l) = Append(s \o t, l)
  <2>1. <<l>> \in Seq(Lines) /\ s \o t \in Seq(Lines)
    BY LineSeqs
  <2>2. ASSUME NEW u \in Seq(Lines) PROVE u \o <<l>> = Append(u, l)
    <3>1. <<l>> \o <<>> = <<l>> /\ Append(u, l) \o <<>> = Append(u, l)
      <4>1. Append(u, l) \in Seq(Lines)
        OBVIOUS
      <4> QED BY <2>1, <4>1, LineSeqs
    <3>2. u \o (<<l>> \o <<>>) = Append(u, l) \o <<>>
      BY LineSeqs, OneBetween
    <3> QED BY <3>1, <3>2
  <2>3. s \o (t \o <<l>>) = (s \o t) \o <<l>>
    BY <2>1, LineSeqs
  <2>4. t \o <<l>> = Append(t, l) /\ (s \o t) \o <<l>> = Append(s \o t, l)
    BY <2>1, <2>2
  <2> QED BY <2>3, <2>4
<1> DEFINE a == buf \o pipe
           r == Hand \o a
           w == wq \o r
<1>4. a \in Seq(Lines) /\ r \in Seq(Lines) /\ w \in Seq(Lines)
  <2>1. a \in Seq(Lines)
    BY <1>2, LineSeqs
  <2>2. r \in Seq(Lines)
    BY <1>2, <2>1, LineSeqs
  <2> QED BY <1>2, <2>1, <2>2, LineSeqs
<1>5. buf \o Append(pipe, fed') = Append(a, fed')
  BY <1>1, <1>2, <1>3
<1>6. Hand \o Append(a, fed') = Append(r, fed')
  <2> HIDE DEF a
  <2> QED BY <1>1, <1>2, <1>3, <1>4
<1>7. seen \o (wq \o Append(r, fed')) = Append(seen \o w, fed')
  <2> HIDE DEF r
  <2>1. wq \o Append(r, fed') = Append(w, fed')
    BY <1>1, <1>2, <1>3, <1>4
  <2> HIDE DEF w
  <2>2. seen \o Append(w, fed') = Append(seen \o w, fed')
    BY <1>1, <1>2, <1>3, <1>4
  <2> QED BY <2>1, <2>2
<1>9. Way(seen, wq, Hand, buf, pipe)' = Append(Way(seen, wq, Hand, buf, pipe), fed')
  <2>1. Way(seen, wq, Hand, buf, pipe)' = seen' \o (wq' \o (Hand' \o (buf' \o pipe')))
    BY DEF Way, Rest
  <2>2. seen' = seen /\ wq' = wq /\ Hand' = Hand /\ buf' = buf /\ pipe' = Append(pipe, fed')
    BY <1>1
  <2>3. Way(seen, wq, Hand, buf, pipe)' = seen \o (wq \o (Hand \o (buf \o Append(pipe, fed'))))
    BY <2>1, <2>2, Zenon
  <2>4. Way(seen, wq, Hand, buf, pipe) = seen \o w
    BY DEF Way, Rest
  <2>5. Hand \o (buf \o Append(pipe, fed')) = Append(r, fed')
    BY <1>5, <1>6, Zenon
  <2>6. Way(seen, wq, Hand, buf, pipe)' = Append(seen \o w, fed')
    BY <1>7, <2>3, <2>5, Zenon
  <2> QED BY <2>4, <2>6, Zenon
<1>8. Append([i \in 1 .. fed |-> i], fed + 1) = [i \in 1 .. fed + 1 |-> i]
  <2> DEFINE f == [i \in 1 .. fed |-> i]
             g == [i \in 1 .. fed + 1 |-> i]
  <2>1. /\ f \in Seq(Nat) /\ g \in Seq(Nat) /\ Len(f) = fed /\ Len(g) = fed + 1
        /\ \A i \in 1 .. fed : f[i] = i
        /\ \A i \in 1 .. fed + 1 : g[i] = i
    BY <1>1
  <2> HIDE DEF f, g
  <2>2. Append(f, fed + 1) \in Seq(Nat) /\ Len(Append(f, fed + 1)) = fed + 1
        /\ \A i \in 1 .. fed + 1 : Append(f, fed + 1)[i] = IF i = fed + 1 THEN fed + 1 ELSE f[i]
    BY <1>1, <2>1
  <2>3. \A i \in 1 .. fed + 1 : Append(f, fed + 1)[i] = g[i]
    BY <1>1, <2>1, <2>2
  <2>4. Append(f, fed + 1) = g
    BY <2>1, <2>2, <2>3, SeqEqual
  <2> QED BY <2>4 DEF f, g
<1> QED BY <1>1, <1>8, <1>9, Zenon

\* The writer takes every line once and in the order of arrival, whatever the
\* threads do and whichever of them fails (se2influx.py:118-127, 170-171).
THEOREM LinesInOrder == Spec => []WriterInOrder
<1>1. Init => OnWay
  <2> SUFFICES ASSUME Init PROVE OnWay
    OBVIOUS
  <2>1. seen = <<>> /\ wq = <<>> /\ buf = <<>> /\ pipe = <<>> /\ Hand = <<>> /\ fed = 0
    BY DEF Init, Hand, InHand
  <2>2. <<>> \o <<>> = <<>> /\ [i \in 1 .. 0 |-> i] = <<>>
    OBVIOUS
  <2> QED BY <2>1, <2>2 DEF OnWay, Way, Rest
<1>2. TypeOK /\ TypeOK' /\ OnWay /\ [Next]_vars => OnWay'
  <2>1. TypeOK /\ Feed /\ OnWay => OnWay'
    BY FeedStep DEF OnWay
  <2>2. TypeOK /\ TypeOK' /\ [Next]_vars /\ ~Feed /\ OnWay => OnWay'
    BY WayStep DEF OnWay
  <2> QED BY <2>1, <2>2
<1> QED BY <1>1, <1>2, WayIs, TypeCorrect, PTL DEF Spec
=============================================================================
