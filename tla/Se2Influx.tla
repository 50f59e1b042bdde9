----------------------------- MODULE Se2Influx -----------------------------
(***************************************************************************)
(* utilities/se2influx.py: the reader takes lines from stdin and puts each *)
(* into the queue of the writer (to the data base) and of the logger (to a *)
(* file that is rotated); the main thread polls the three and shuts them   *)
(* down when one has ended.  A line is its number; what is in a line and   *)
(* the sizes of the files are abstracted to the choices they lead to.      *)
(*                                                                         *)
(* stdin is a pipe and the text buffer that readline() fills from it: a    *)
(* read takes as much of the pipe as there is, and select() sees only what *)
(* is still in the pipe.                                                   *)
(***************************************************************************)
EXTENDS Integers, Sequences, SequencesExt

CONSTANTS
  QueueSize,    \* --queue_size
  MaxLines,     \* bound on the lines that arrive
  WithLog,      \* --log_path is given
  CanFail,      \* the data base, the input, a line and the log file can fail
  CanBlock      \* the data base may never answer

ASSUME SizeAssumption == QueueSize \in Nat \ {0} /\ MaxLines \in Nat
ASSUME SwitchAssumption == WithLog \in BOOLEAN /\ CanFail \in BOOLEAN /\ CanBlock \in BOOLEAN

VARIABLES
  fed,          \* how many lines have arrived on stdin
  closed,       \* stdin has been closed
  pipe, buf,    \* stdin: the pipe, and the text buffer of the process
  rPc, rLine,   \* the reader and the line it has in hand
  wq, lq,       \* writer_queue, logger_queue
  wPc, wLine,   \* the writer
  gPc, gLine,   \* the logger
  shutdown,     \* the event
  main,         \* the main thread
  seen,         \* history: the lines the writer has taken
  file,         \* the lines in the log file
  lastArch,     \* the lines in the newest compressed log
  oldArch,      \* those in the older ones
  overwritten,  \* history: lines lost with a compressed log written over
  late          \* history: see PutWriter, PutLogger

input   == <<fed, closed, pipe, buf>>
reader  == <<rPc, rLine>>
writer  == <<wPc, wLine, seen>>
files   == <<file, lastArch, oldArch, overwritten>>
logger  == <<gPc, gLine, files>>
vars    == <<input, reader, wq, lq, writer, logger, shutdown, main, late>>

Lines == 1 .. MaxLines
NoLine == 0
Ended == {"done", "failed"}

TypeOK ==
  /\ fed \in 0 .. MaxLines
  /\ closed \in BOOLEAN
  /\ pipe \in Seq(Lines) /\ buf \in Seq(Lines)
  /\ rPc \in {"select", "putW", "putL"} \cup Ended
  /\ wPc \in {"connect", "get", "empty", "write", "blocked"} \cup Ended
  /\ gPc \in {"off", "open", "get", "empty", "write", "copy", "truncate"} \cup Ended
  /\ {rLine, wLine, gLine} \subseteq Lines \cup {NoLine}
  /\ rPc \in {"putW", "putL"} => rLine \in Lines
  /\ gPc = "write" => gLine \in Lines
  /\ wq \in Seq(Lines) /\ lq \in Seq(Lines)
  /\ Len(wq) <= QueueSize /\ Len(lq) <= QueueSize
  /\ shutdown \in BOOLEAN
  /\ main \in {"loop", "join", "done"}
  /\ seen \in Seq(Lines)
  /\ file \cup lastArch \cup oldArch \cup overwritten \subseteq Lines
  /\ late \subseteq Lines \X {"writer", "logger"}

Init ==
  /\ fed = 0 /\ closed = FALSE
  /\ pipe = <<>> /\ buf = <<>>
  /\ rPc = "select" /\ wPc = "connect"
  /\ gPc = IF WithLog THEN "open" ELSE "off"
  /\ rLine = NoLine /\ wLine = NoLine /\ gLine = NoLine
  /\ wq = <<>> /\ lq = <<>>
  /\ shutdown = FALSE
  /\ main = "loop"
  /\ seen = <<>>
  /\ file = {} /\ lastArch = {} /\ oldArch = {} /\ overwritten = {}
  /\ late = {}

-----------------------------------------------------------------------------
(* Upstream. *)

Feed == /\ ~closed /\ fed < MaxLines
        /\ fed' = fed + 1
        /\ pipe' = Append(pipe, fed + 1)
        /\ UNCHANGED <<closed, buf, reader, wq, lq, writer, logger, shutdown, main, late>>

CloseInput == /\ ~closed
              /\ closed' = TRUE
              /\ UNCHANGED <<fed, pipe, buf, reader, wq, lq, writer, logger, shutdown,
                             main, late>>

-----------------------------------------------------------------------------
(* reader *)

\* select() reports stdin, and readline() does not wait.
Ready == rPc = "select" /\ (pipe # <<>> \/ closed)

\* Mutant of ReadLine: what the read has taken beyond the first line is dropped.
ReadLineDropsRest ==
  /\ Ready
  /\ pipe # <<>>
  /\ rLine' = Head(pipe)
  /\ \E i \in 1 .. Len(pipe) : pipe' = SubSeq(pipe, i + 1, Len(pipe))
  /\ rPc' = "putW"
  /\ UNCHANGED <<fed, closed, buf, wq, lq, writer, logger, shutdown, main, late>>

\* Mutant of ReadLine: a line that is in the buffer already is not returned.
ReadLineUnbuffered ==
  /\ Ready
  /\ buf = <<>> /\ pipe # <<>>
  /\ rLine' = Head(pipe)
  /\ \E i \in 1 .. Len(pipe) : /\ buf'  = SubSeq(pipe, 2, i)
                               /\ pipe' = SubSeq(pipe, i + 1, Len(pipe))
  /\ rPc' = "putW"
  /\ UNCHANGED <<fed, closed, wq, lq, writer, logger, shutdown, main, late>>

\* readline(): from the buffer, or from the pipe, whose next lines it buffers.
ReadLine ==
  /\ Ready
  /\ \/ /\ buf # <<>>
        /\ rLine' = Head(buf)
        /\ buf' = Tail(buf)
        /\ UNCHANGED pipe
     \/ /\ buf = <<>> /\ pipe # <<>>
        /\ rLine' = Head(pipe)
        /\ \E i \in 1 .. Len(pipe) : /\ buf'  = SubSeq(pipe, 2, i)
                                     /\ pipe' = SubSeq(pipe, i + 1, Len(pipe))
  /\ rPc' = "putW"
  /\ UNCHANGED <<fed, closed, wq, lq, writer, logger, shutdown, main, late>>

\* EndOfFile
EndOfInput == /\ Ready
              /\ buf = <<>> /\ pipe = <<>>
              /\ rPc' = "done"
              /\ UNCHANGED <<input, rLine, wq, lq, writer, logger, shutdown, main, late>>

\* the read raises
ReadFails == /\ CanFail
             /\ rPc = "select"
             /\ rPc' = "failed"
             /\ UNCHANGED <<input, rLine, wq, lq, writer, logger, shutdown, main, late>>

\* select() times out; only then does the reader look at the event.
ReadIdle == /\ rPc = "select" /\ ~Ready
            /\ shutdown
            /\ rPc' = "done"
            /\ UNCHANGED <<input, rLine, wq, lq, writer, logger, shutdown, main, late>>

\* writer_queue.put(line) waits while the queue is full.  late keeps the lines
\* of the queues that were put while the thread that takes from the queue has found it empty
\* and has not yet looked at the event.
PutWriter == /\ rPc = "putW"
             /\ Len(wq) < QueueSize
             /\ wq' = Append(wq, rLine)
             /\ late' = IF wPc = "empty" THEN late \cup {<<rLine, "writer">>} ELSE late
             /\ IF WithLog THEN rPc' = "putL" /\ UNCHANGED rLine
                           ELSE rPc' = "select" /\ rLine' = NoLine
             /\ UNCHANGED <<input, lq, writer, logger, shutdown, main>>

\* Mutant of PutLogger: the queue has no limit.
PutLoggerUnbounded ==
  /\ rPc = "putL"
  /\ lq' = Append(lq, rLine)
  /\ late' = IF gPc = "empty" THEN late \cup {<<rLine, "logger">>} ELSE late
  /\ rPc' = "select" /\ rLine' = NoLine
  /\ UNCHANGED <<input, wq, writer, logger, shutdown, main>>

\* logger_queue.put(line)
PutLogger == /\ rPc = "putL"
             /\ Len(lq) < QueueSize
             /\ lq' = Append(lq, rLine)
             /\ late' = IF gPc = "empty" THEN late \cup {<<rLine, "logger">>} ELSE late
             /\ rPc' = "select" /\ rLine' = NoLine
             /\ UNCHANGED <<input, wq, writer, logger, shutdown, main>>

Reader == ReadLine \/ EndOfInput \/ ReadFails \/ ReadIdle \/ PutWriter \/ PutLogger

-----------------------------------------------------------------------------
(* writer *)

\* Connecting, and creating the data base; the thread returns if it cannot.
Connect == /\ wPc = "connect"
           /\ wPc' \in {"get"} \cup (IF CanFail THEN {"failed"} ELSE {})
           /\ UNCHANGED <<input, reader, wq, lq, wLine, seen, logger, shutdown, main, late>>

\* writer_queue.get
WriterGet == /\ wPc = "get" /\ wq # <<>>
             /\ wLine' = Head(wq)
             /\ wq' = Tail(wq)
             /\ seen' = Append(seen, Head(wq))
             /\ wPc' = "write"
             /\ late' = late \ {<<Head(wq), "writer">>}
             /\ UNCHANGED <<input, reader, lq, logger, shutdown, main>>

\* get times out: queue.Empty
WriterEmpty == /\ wPc = "get" /\ wq = <<>>
               /\ wPc' = "empty"
               /\ UNCHANGED <<input, reader, wq, lq, wLine, seen, logger, shutdown, main,
                              late>>

\* Mutant of WriterCheck: the event is looked at before every get.
WriterCheckAlways ==
  /\ wPc = "empty" \/ (wPc = "get" /\ shutdown)
  /\ wPc' = IF shutdown THEN "done" ELSE "get"
  /\ UNCHANGED <<input, reader, wq, lq, wLine, seen, logger, shutdown, main, late>>

\* The handler of queue.Empty looks at the event.
WriterCheck == /\ wPc = "empty"
               /\ wPc' = IF shutdown THEN "done" ELSE "get"
               /\ UNCHANGED <<input, reader, wq, lq, wLine, seen, logger, shutdown, main,
                              late>>

\* Written to the data base, or dropped with a message in the program's log.
WriterWrite == /\ wPc = "write"
               /\ wLine' = NoLine
               /\ wPc' = "get"
               /\ UNCHANGED <<input, reader, wq, lq, seen, logger, shutdown, main, late>>

\* A line that raises something else than the errors looked for, as one that is no
\* JSON object does, ends the thread.
WriterFails == /\ CanFail
               /\ wPc = "write"
               /\ wPc' = "failed"
               /\ UNCHANGED <<input, reader, wq, lq, wLine, seen, logger, shutdown, main,
                              late>>

\* The data base takes the request and never answers: by default the client waits
\* without a limit.
WriterBlocks == /\ CanBlock
                /\ wPc \in {"connect", "write"}
                /\ wPc' = "blocked"
                /\ UNCHANGED <<input, reader, wq, lq, wLine, seen, logger, shutdown, main,
                               late>>

Writer == \/ Connect \/ WriterGet \/ WriterEmpty \/ WriterCheck
          \/ WriterWrite \/ WriterFails \/ WriterBlocks

-----------------------------------------------------------------------------
(* logger, _rotate_log *)

\* open(log_path, "a")
LogOpen == /\ gPc = "open"
           /\ gPc' \in {"get"} \cup (IF CanFail THEN {"failed"} ELSE {})
           /\ UNCHANGED <<input, reader, wq, lq, writer, gLine, files, shutdown, main, late>>

\* logger_queue.get
LogGet == /\ gPc = "get" /\ lq # <<>>
          /\ gLine' = Head(lq)
          /\ lq' = Tail(lq)
          /\ gPc' = "write"
          /\ late' = late \ {<<Head(lq), "logger">>}
          /\ UNCHANGED <<input, reader, wq, writer, files, shutdown, main>>

LogEmpty == /\ gPc = "get" /\ lq = <<>>
            /\ gPc' = "empty"
            /\ UNCHANGED <<input, reader, wq, lq, writer, gLine, files, shutdown, main,
                           late>>

LogCheck == /\ gPc = "empty"
            /\ gPc' = IF shutdown THEN "done" ELSE "get"
            /\ UNCHANGED <<input, reader, wq, lq, writer, gLine, files, shutdown, main,
                           late>>

\* Written and flushed; the file may be over its size then.
LogWrite == /\ gPc = "write"
            /\ file' = file \cup {gLine}
            /\ gLine' = NoLine
            /\ gPc' \in {"get", "copy"}
            /\ UNCHANGED <<input, reader, wq, lq, writer, lastArch, oldArch, overwritten,
                           shutdown, main, late>>

\* The write raises: the thread returns with the line in hand.
LogWriteFails == /\ CanFail
                 /\ gPc = "write"
                 /\ gPc' = "failed"
                 /\ UNCHANGED <<input, reader, wq, lq, writer, gLine, files, shutdown, main,
                                late>>

\* It is written, but its size cannot be had or compared.
LogSizeFails == /\ CanFail
                /\ gPc = "write"
                /\ file' = file \cup {gLine}
                /\ gLine' = NoLine
                /\ gPc' = "failed"
                /\ UNCHANGED <<input, reader, wq, lq, writer, lastArch, oldArch, overwritten,
                               shutdown, main, late>>

\* A compressed log with the given lines.  Its name has the time in seconds: it
\* is a new file, or writes over the last one.
Archive(lines) ==
  /\ lastArch' = lines
  /\ \/ /\ oldArch' = oldArch \cup lastArch
        /\ UNCHANGED overwritten
     \/ /\ overwritten' = overwritten \cup (lastArch \ (file \cup oldArch))
        /\ UNCHANGED oldArch

\* Copy the file to a compressed one.
RotateCopy == /\ gPc = "copy"
              /\ Archive(file)
              /\ gPc' = "truncate"
              /\ UNCHANGED <<input, reader, wq, lq, writer, gLine, file, shutdown, main, late>>

\* Mutant of RotateFails: the file is emptied although the copy has failed.
RotateFailsEmpties ==
  /\ CanFail
  /\ gPc = "copy"
  /\ file' = {}
  /\ gPc' = "open"
  /\ UNCHANGED <<input, reader, wq, lq, writer, gLine, lastArch, oldArch, overwritten,
                 shutdown, main, late>>

\* The rotation raises, before anything is written to the compressed log, or
\* with any part of it readable there, or when the file is to be emptied; the
\* file is opened again and written on.
RotateFails ==
  /\ CanFail
  /\ \/ gPc = "copy" /\ \E part \in SUBSET file : Archive(part)
     \/ gPc \in {"copy", "truncate"} /\ UNCHANGED <<lastArch, oldArch, overwritten>>
  /\ gPc' = "open"
  /\ UNCHANGED <<input, reader, wq, lq, writer, gLine, file, shutdown, main, late>>

\* open(log_path, "w")
RotateTruncate == /\ gPc = "truncate"
                  /\ file' = {}
                  /\ gPc' = "open"
                  /\ UNCHANGED <<input, reader, wq, lq, writer, gLine, lastArch, oldArch,
                                 overwritten, shutdown, main, late>>

Logger == \/ LogOpen \/ LogGet \/ LogEmpty \/ LogCheck \/ LogWrite \/ LogWriteFails
          \/ LogSizeFails \/ RotateCopy \/ RotateFails \/ RotateTruncate

-----------------------------------------------------------------------------
(* run *)

SomeEnded == {rPc, wPc, gPc} \cap Ended # {}

\* Mutant of MainPoll: the reader is not among the threads it looks at.
MainPollConsumers ==
  /\ main = "loop"
  /\ IF shutdown THEN main' = "join" /\ UNCHANGED shutdown
     ELSE shutdown' = ({wPc, gPc} \cap Ended # {}) /\ UNCHANGED main
  /\ UNCHANGED <<input, reader, wq, lq, writer, logger, late>>

\* One round of the loop.
MainPoll == /\ main = "loop"
            /\ IF shutdown THEN main' = "join" /\ UNCHANGED shutdown
               ELSE shutdown' = SomeEnded /\ UNCHANGED main
            /\ UNCHANGED <<input, reader, wq, lq, writer, logger, late>>

\* Every thread has been joined.
MainJoin == /\ main = "join"
            /\ {rPc, wPc, gPc} \subseteq Ended \cup {"off"}
            /\ main' = "done"
            /\ UNCHANGED <<input, reader, wq, lq, writer, logger, shutdown, late>>

Next == Feed \/ CloseInput \/ Reader \/ Writer \/ Logger \/ MainPoll \/ MainJoin

Spec == Init /\ [][Next]_vars

\* Every thread goes on with what it does, but for a writer that is blocked.  A
\* failure is never owed, and nothing is asked of the input.
ReaderGoesOn == ReadLine \/ EndOfInput \/ ReadIdle \/ PutWriter \/ PutLogger
WriterGoesOn == Connect \/ WriterGet \/ WriterEmpty \/ WriterCheck \/ WriterWrite
LoggerGoesOn == \/ LogOpen \/ LogGet \/ LogEmpty \/ LogCheck \/ LogWrite
                \/ RotateCopy \/ RotateTruncate

FairSpec ==
  /\ Spec
  /\ WF_vars(ReaderGoesOn) /\ WF_vars(WriterGoesOn) /\ WF_vars(LoggerGoesOn)
  /\ WF_vars(MainPoll) /\ WF_vars(MainJoin)

-----------------------------------------------------------------------------
(* Properties. *)

\* What is still before the reader, or in its hand on the way to a queue.
InHand(pcs) == IF rPc \in pcs THEN <<rLine>> ELSE <<>>
Unread == buf \o pipe

\* The writer takes every line that has arrived once and in order: those it has
\* taken, its queue, the reader's hand, the buffer and the pipe together are all
\* of them (se2influx.py:118-127, 170-171).
WriterInOrder ==
  seen \o wq \o InHand({"putW"}) \o Unread = [i \in 1 .. fed |-> i]

\* A line is not lost on its way to the log or by a rotation, whichever step of
\* it fails, except with a compressed log that is written over by the next one
\* within the same second (se2influx.py:221-280).
LogKeepsAll ==
  WithLog => 1 .. fed \subseteq
    file \cup lastArch \cup oldArch \cup overwritten \cup {gLine} \cup
    ToSet(lq) \cup ToSet(InHand({"putW", "putL"})) \cup ToSet(Unread)

\* When run() returns and neither the writer nor the logger has failed, a line
\* left in a queue was put there between a time-out of get() and the look at the
\* event that follows it (se2influx.py:106-110, 170-175, 239-244).
LeftBehind ==
  (main = "done" /\ wPc # "failed" /\ gPc # "failed") =>
    /\ \A l \in ToSet(wq) : <<l, "writer">> \in late
    /\ \A l \in ToSet(lq) : <<l, "logger">> \in late

-----------------------------------------------------------------------------
(* Why it is so: the invariant that the steps keep. *)

NoFailure == wPc # "failed" /\ gPc # "failed"

\* A thread that takes from a queue ends only after the event, and the event
\* comes, without a failure, only after the reader has ended: what is in the
\* queue then has been put since the queue was found empty.
EndInv ==
  /\ rPc = "putL" => WithLog
  /\ gPc = "off" => ~WithLog /\ lq = <<>>
  /\ WithLog => gPc # "off"
  /\ ~WithLog => lq = <<>>
  /\ wPc = "done" \/ gPc = "done" => shutdown
  /\ (NoFailure /\ shutdown) => rPc \in Ended
  /\ (wPc = "empty" \/ (NoFailure /\ wPc = "done")) =>
       \A l \in ToSet(wq) : <<l, "writer">> \in late
  /\ (gPc = "empty" \/ (NoFailure /\ gPc = "done")) =>
       \A l \in ToSet(lq) : <<l, "logger">> \in late
  /\ main = "done" => {rPc, wPc, gPc} \subseteq Ended \cup {"off"}

-----------------------------------------------------------------------------
(* Liveness. *)

\* When the input has ended, run() returns, unless the writer or the logger has
\* failed or the data base keeps the writer for ever (se2influx.py:96-107, 216).
EndsAtEof == closed ~> (main = "done" \/ "failed" \in {wPc, gPc} \/ wPc = "blocked")

\* A line in the buffer is read if more input comes or the input ends, unless
\* a thread has failed or the data base keeps the writer for ever
\* (se2influx.py:119-127, 216).
BufferIsRead ==
  \A l \in Lines :
    (l \in ToSet(buf) /\ (pipe # <<>> \/ closed))
      ~> (l \notin ToSet(buf) \/ "failed" \in {rPc, wPc, gPc} \/ wPc = "blocked")

\* run() will "block forever or until one of the threads exits"
\* (se2influx.py:75-76): it returns once one has.
RunReturns == SomeEnded ~> (main = "done")
=============================================================================
