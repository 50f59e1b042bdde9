----------------------------- MODULE DoCommands -----------------------------
(***************************************************************************)
(* semonitor.py -c from its options to its end: the mode is decided        *)
(* (RunMode), every command gets a transaction number (SeqFile), is sent,  *)
(* with -m the bus is granted to the inverter, and one message is read and *)
(* written as the response.  The inverter answers, keeps silent, sends     *)
(* messages of its own or garbled ones, and goes away; the program is      *)
(* killed at any point and started again with the same options.            *)
(*                                                                         *)
(* What the inverter sends stays in line; taken says how much of it has    *)
(* been read.  A message is its kind and, for an answer, the execution     *)
(* and the command it answers.  On RS485 it is what begins with a magic    *)
(* number and ends before the next one.                                    *)
(***************************************************************************)
EXTENDS RunMode, SeqFile, Sequences

CONSTANTS
  NCommands,    \* the length of the -c list
  MaxNoise,     \* bound, per execution, on what the inverter sends besides answers
  MaxLost,      \* bound, per execution, on the commands it leaves unanswered
  MaxRestarts,  \* bound on the restarts of the program
  SlowMaster    \* the program may be held up for a whole MASTER_MSG_TIMEOUT

ASSUME CommandsAssumption ==
  /\ NCommands \in Nat \ {0}
  /\ MaxNoise \in Nat /\ MaxLost \in Nat /\ MaxRestarts \in Nat
  /\ SlowMaster \in BOOLEAN

VARIABLES
  at,           \* the statement of doCommands
  cmd,          \* the command it performs
  got,          \* what readMsg has returned
  out,          \* what this execution has written: the responses
  timer,        \* masterTimer runs
  event,        \* masterEvent
  line,         \* what the inverter has sent since the source was opened
  taken,        \* how many of these messages have been read
  begun,        \* the magic number of the next one has been read with the last
  inStep,       \* the source was opened at the beginning of a message
  closed,       \* the other end is gone: "clean" or "torn", inside a header
  dead,         \* a read has timed out: the file object reads no more
  asked,        \* the commands that the inverter has still to answer
  granted,      \* the inverter has the bus
  noise, lost, restarts

program  == <<at, cmd, got, out, timer, event>>
reading  == <<taken, begun, inStep, dead>>
inverter == <<line, closed, asked, granted, noise, lost>>
vars     == <<modeVars, seqVars, program, reading, inverter, restarts>>

Nobody  == <<0, 0>>
Nothing == [kind |-> "nothing", of |-> Nobody]
Answers(e, c) == [kind |-> "answer", of |-> <<e, c>>]

Ids   == (0 .. MaxRestarts) \X (1 .. NCommands)
Noise == {"own", "damaged", "wrongLength", "raises"}
Msgs  == [kind : {"answer"}, of : Ids]
           \cup [kind : Noise \cup {"release", "nothing"}, of : {Nobody}]

SystemTypeOK ==
  /\ ModeTypeOK /\ SeqTypeOK
  /\ at \in {"off", "elsewhere", "command", "grant", "clear", "wait", "read",
             "write", "sleep", "ended", "failed"}
  /\ cmd \in 1 .. NCommands /\ got \in Msgs
  /\ out \in Seq([command : 1 .. NCommands, response : Msgs])
  /\ Len(out) = IF at \in {"sleep", "ended"} THEN cmd
                ELSE IF at = "failed" THEN Len(out) ELSE cmd - 1
  /\ timer \in BOOLEAN /\ event \in BOOLEAN
  /\ line \in Seq(Msgs) /\ taken \in 0 .. Len(line)
  /\ begun \in BOOLEAN /\ (begun => taken < Len(line))
  /\ inStep \in BOOLEAN /\ dead \in BOOLEAN /\ closed \in {"no", "clean", "torn"}
  /\ asked \in Seq(Ids) /\ granted \in BOOLEAN
  /\ noise \in 0 .. MaxNoise /\ lost \in 0 .. MaxLost /\ restarts \in 0 .. MaxRestarts

Init ==
  /\ ModeInit /\ SeqInit
  /\ at = "off" /\ cmd = 1 /\ got = Nothing /\ out = <<>>
  /\ timer = FALSE /\ event = FALSE
  /\ line = <<>> /\ taken = 0 /\ begun = FALSE /\ inStep = TRUE
  /\ closed = "no" /\ dead = FALSE
  /\ asked = <<>> /\ granted = FALSE
  /\ noise = 0 /\ lost = 0 /\ restarts = 0

-----------------------------------------------------------------------------
(* The main program, up to the call of doCommands. *)

Alive == pc # "stopped"

Options == /\ Alive /\ Validate
           /\ UNCHANGED <<seqVars, program, reading, inverter, restarts>>

\* A serial port may be opened in the middle of a message.
Open == /\ Alive /\ OpenSource
        /\ inStep' \in IF opened' = "serial" THEN BOOLEAN ELSE {TRUE}
        /\ UNCHANGED <<seqVars, program, taken, begun, dead, inverter, restarts>>

Call == /\ Alive /\ Dispatch
        /\ at' = IF role' = "doCommands" THEN "command" ELSE "elsewhere"
        /\ UNCHANGED <<seqVars, cmd, got, out, timer, event, reading, inverter, restarts>>

-----------------------------------------------------------------------------
(* doCommands and masterGrant: sending. *)

\* seq = nextSeq(), statement by statement.
DrawSeq == /\ at \in {"command", "grant"}
           /\ ReadSeq \/ Truncate \/ WriteSeq
           /\ UNCHANGED <<modeVars, program, reading, inverter, restarts>>

DrawFails == /\ at \in {"command", "grant"}
             /\ ReadFails
             /\ at' = "failed"
             /\ UNCHANGED <<modeVars, cmd, got, out, timer, event, reading, inverter,
                            restarts>>

CanWrite == opened \in Interactive

SendCommand ==
  /\ at = "command" /\ CanWrite
  /\ Issue
  /\ asked' = IF closed = "no" THEN Append(asked, <<restarts, cmd>>) ELSE asked
  /\ at' = IF args.master THEN "grant" ELSE "read"
  /\ UNCHANGED <<modeVars, cmd, got, out, timer, event, reading, line, closed, granted,
                 noise, lost, restarts>>

\* The grant is sent and the timer that bounds the wait is started.
SendGrant ==
  /\ at = "grant" /\ CanWrite
  /\ Issue
  /\ granted' = (granted \/ closed = "no")
  /\ timer' = TRUE
  /\ at' = "clear"
  /\ UNCHANGED <<modeVars, cmd, got, out, event, reading, line, closed, asked, noise,
                 lost, restarts>>

\* write() raises: the source is a file, or the other end is gone.
SendFails ==
  /\ at \in {"command", "grant"} /\ pc = "send"
  /\ ~CanWrite \/ closed # "no"
  /\ at' = "failed"
  /\ UNCHANGED <<modeVars, seqVars, cmd, got, out, timer, event, reading, inverter,
                 restarts>>

ClearEvent ==
  /\ at = "clear"
  /\ event' = FALSE /\ at' = "wait"
  /\ UNCHANGED <<modeVars, seqVars, cmd, got, out, timer, reading, inverter, restarts>>

TimerExpires ==
  /\ Alive /\ timer
  /\ at = "clear" => SlowMaster
  /\ timer' = FALSE /\ event' = TRUE
  /\ UNCHANGED <<modeVars, seqVars, at, cmd, got, out, reading, inverter, restarts>>

\* Nobody reads while masterGrant waits: only the timer can set the event.
WaitEvent ==
  /\ at = "wait" /\ event
  /\ timer' = FALSE /\ at' = "read"
  /\ UNCHANGED <<modeVars, seqVars, cmd, got, out, event, reading, inverter, restarts>>

-----------------------------------------------------------------------------
(* readMsg, see Framing for its bytes. *)

\* What parseMsg makes of a message: function 0 if it is not valid.
Response(m) == IF m.kind \in {"damaged", "wrongLength"} THEN Nothing ELSE m

Delimiting == args.type = "4"

\* No message that is longer or shorter than its header says has been read before
\* the i-th.
Intact(i) == \A k \in 1 .. taken : k < i => line[k].kind # "wrongLength"

\* Reading by the length is at the beginning of a message, and not merely by chance.
InStep == inStep /\ Intact(taken + 1)

\* The next read takes something else than the length of a message for one.
Astray == /\ ~Delimiting
          /\ InStep => taken < Len(line) /\ line[taken + 1].kind = "wrongLength"

Return(m) == /\ Alive /\ at = "read"
             /\ got' = m /\ at' = "write"
             /\ UNCHANGED <<modeVars, seqVars, cmd, out, timer, event, inverter, restarts>>

\* Mutant of ReadFirst: as readData does, the first message is skipped.
ReadFirstSkips == /\ Delimiting /\ ~begun /\ taken + 1 < Len(line)
                  /\ begun' = TRUE /\ taken' = taken + 1
                  /\ Return(Response(line[taken + 1]))
                  /\ UNCHANGED <<inStep, dead>>

\* What comes before the first magic number is a message that is too short.
ReadFirst == /\ Delimiting /\ ~begun /\ taken < Len(line)
             /\ begun' = TRUE
             /\ Return(Nothing)
             /\ UNCHANGED <<taken, inStep, dead>>

\* A message is returned when the next one begins.
ReadNext == /\ Delimiting /\ begun /\ taken + 1 < Len(line)
            /\ taken' = taken + 1
            /\ Return(Response(line[taken + 1]))
            /\ UNCHANGED <<begun, inStep, dead>>

\* Or at the end; then there is nothing more.
ReadRest == /\ Delimiting /\ closed # "no"
            /\ taken + (IF begun THEN 1 ELSE 0) = Len(line)
            /\ taken' = Len(line) /\ begun' = FALSE
            /\ Return(IF begun THEN Response(line[Len(line)]) ELSE Nothing)
            /\ UNCHANGED <<inStep, dead>>

\* Mutant of ReadByLength: what the inverter sends besides answers is skipped.
ReadByLengthSkips ==
  /\ ~Delimiting /\ InStep /\ ~dead
  /\ \E n \in taken + 1 .. Len(line) :
       /\ \A i \in taken + 1 .. n - 1 : line[i].kind = "own"
       /\ line[n].kind # "own"
       /\ taken' = n
       /\ Return(Response(line[n]))
  /\ UNCHANGED <<begun, inStep, dead>>

\* Reading by the length returns a message when it is complete.
ReadByLength == /\ ~Delimiting /\ ~Astray /\ ~dead /\ taken < Len(line)
                /\ taken' = taken + 1
                /\ Return(Response(line[taken + 1]))
                /\ UNCHANGED <<begun, inStep, dead>>

\* The header is believed before anything is validated: with a wrong length the read
\* ends inside this message or a later one, or waits for bytes that are not there.
ReadWrongLength == /\ Astray /\ InStep /\ ~dead
                   /\ taken' \in taken + 1 .. Len(line)
                   /\ Return(Nothing)
                   /\ UNCHANGED <<begun, inStep, dead>>

\* Out of step it returns bytes that are no message, what is left of the last one
\* for example, unless it meets the beginning of one by chance.
ReadOutOfStep ==
  /\ Astray /\ ~InStep /\ ~dead
  /\ \E n \in taken .. Len(line) :
       /\ taken' = n
       /\ Return(Nothing) \/ (n > taken /\ Return(Response(line[n])))
  /\ UNCHANGED <<begun, inStep, dead>>

\* All that came before the end has been read.
AtEnd == ~Delimiting /\ closed # "no" /\ (InStep /\ ~dead => taken = Len(line))

ReadEof == /\ AtEnd
           /\ closed = "clean" \/ ~InStep \/ dead
           /\ Return(Nothing)
           /\ UNCHANGED reading

\* struct.unpack refuses an incomplete header.
ReadRaises == /\ Alive /\ at = "read" /\ AtEnd
              /\ ~dead /\ (closed = "torn" \/ ~InStep)
              /\ at' = "failed"
              /\ UNCHANGED <<modeVars, seqVars, cmd, got, out, timer, event, reading,
                             inverter, restarts>>

\* Mutant of ReadTimesOut: the next call reads again.
ReadTimesOutOnce == /\ opened = "socket" /\ (taken = Len(line) \/ Astray \/ dead)
                    /\ Return(Nothing)
                    /\ UNCHANGED reading

\* A socket waits for socketTimeout; after that its file object refuses to read.
ReadTimesOut == /\ opened = "socket" /\ (taken = Len(line) \/ Astray \/ dead)
                /\ dead' = TRUE
                /\ Return(Nothing)
                /\ UNCHANGED <<taken, begun, inStep>>

Read == \/ ReadFirst \/ ReadNext \/ ReadRest
        \/ ReadByLength \/ ReadWrongLength \/ ReadOutOfStep
        \/ ReadEof \/ ReadRaises \/ ReadTimesOut

-----------------------------------------------------------------------------
(* doCommands: writing the response. *)

\* Mutant of WriteResponse: an empty response is not written, as in readData.
WriteResponseIfAny ==
  /\ Alive /\ at = "write" /\ got.kind # "raises"
  /\ out' = IF got = Nothing THEN out ELSE Append(out, [command |-> cmd, response |-> got])
  /\ got' = Nothing /\ at' = "sleep"
  /\ UNCHANGED <<modeVars, seqVars, cmd, timer, event, reading, inverter, restarts>>

WriteResponse ==
  /\ Alive /\ at = "write" /\ got.kind # "raises"
  /\ out' = Append(out, [command |-> cmd, response |-> got])
  /\ got' = Nothing /\ at' = "sleep"
  /\ UNCHANGED <<modeVars, seqVars, cmd, timer, event, reading, inverter, restarts>>

\* parseData raises, or the output cannot be written: nothing catches it here.
ResponseFails ==
  /\ Alive /\ at = "write"
  /\ got' = Nothing /\ at' = "failed"
  /\ UNCHANGED <<modeVars, seqVars, cmd, out, timer, event, reading, inverter, restarts>>

\* time.sleep(COMMAND_DELAY), and the next command or the end
NextCommand ==
  /\ Alive /\ at = "sleep"
  /\ IF cmd < NCommands THEN cmd' = cmd + 1 /\ at' = "command"
                        ELSE at' = "ended" /\ UNCHANGED cmd
  /\ UNCHANGED <<modeVars, seqVars, got, out, timer, event, reading, inverter, restarts>>

Program == \/ Options \/ Open \/ Call
           \/ DrawSeq \/ DrawFails \/ SendCommand \/ SendGrant \/ SendFails
           \/ ClearEvent \/ WaitEvent \/ Read
           \/ WriteResponse \/ ResponseFails \/ NextCommand

-----------------------------------------------------------------------------
(* The inverter, and what happens to the program. *)

Connected == /\ Alive /\ CanWrite /\ closed = "no"
             /\ at \notin {"off", "elsewhere", "ended", "failed"}

Talk(m) == /\ Connected
           /\ line' = Append(line, m)
           /\ UNCHANGED <<modeVars, seqVars, program, reading, closed, lost, restarts>>

Answer == /\ asked # <<>>
          /\ Talk([kind |-> "answer", of |-> Head(asked)])
          /\ asked' = Tail(asked)
          /\ UNCHANGED <<granted, noise>>

\* A message of its own, which a slave sends only when it has the bus, or one with
\* damaged bytes or too many or too few of them, in place of an answer or besides.
Interfere == /\ noise < MaxNoise /\ noise' = noise + 1
             /\ args.master => granted
             /\ \E kd \in Noise : Talk([kind |-> kd, of |-> Nobody])
             /\ asked' \in {asked} \cup IF asked # <<>> THEN {Tail(asked)} ELSE {}
             /\ UNCHANGED granted

Release == /\ granted /\ granted' = FALSE
           /\ Talk([kind |-> "release", of |-> Nobody])
           /\ UNCHANGED <<asked, noise>>

\* A command is not heard, or not answered.
Lose == /\ Connected /\ asked # <<>> /\ lost < MaxLost
        /\ asked' = Tail(asked) /\ lost' = lost + 1
        /\ UNCHANGED <<modeVars, seqVars, program, reading, line, closed, granted, noise,
                       restarts>>

\* The inverter goes away, or the serial device fails.
Close == /\ Connected
         /\ closed' \in {"clean", "torn"}
         /\ UNCHANGED <<modeVars, seqVars, program, reading, line, asked, granted, noise,
                        lost, restarts>>

\* Killed, at any point; everything but the sequence file is gone.  A connection has
\* no past; an inverter on a serial line still has what it has not answered.
Kill ==
  /\ Crash
  /\ args' = IF args.type = "n" THEN [args EXCEPT !.datasource = "stdin"] ELSE args
  /\ stage' = "source" /\ opened' = "none" /\ role' = "none"
  /\ serialDevice' = FALSE /\ networkDevice' = FALSE /\ passiveMode' = TRUE
  /\ at' = "off" /\ cmd' = 1 /\ got' = Nothing /\ out' = <<>>
  /\ timer' = FALSE /\ event' = FALSE
  /\ line' = <<>> /\ taken' = 0 /\ begun' = FALSE /\ inStep' = TRUE
  /\ closed' = "no" /\ dead' = FALSE /\ granted' = FALSE
  /\ asked' = IF opened = "serial" THEN asked ELSE <<>>
  /\ noise' = 0 /\ lost' = 0 /\ UNCHANGED restarts

\* Started again, with the same options; some of what the inverter had to answer it
\* has answered meanwhile, to nobody.
StartAgain ==
  /\ restarts < MaxRestarts /\ restarts' = restarts + 1
  /\ Restart
  /\ asked' \in {SubSeq(asked, i, Len(asked)) : i \in 1 .. Len(asked) + 1}
  /\ UNCHANGED <<modeVars, program, reading, line, closed, granted, noise, lost>>

Next == \/ Program \/ TimerExpires
        \/ Answer \/ Interfere \/ Release \/ Lose \/ Close
        \/ Kill \/ StartAgain

Spec == Init /\ [][Next]_vars

\* A serial port has no time-out: a read that has gone astray may wait for ever.
Waits == at = "read" /\ Astray /\ opened = "serial" /\ closed = "no"

\* The program goes on unless it waits so, and its timer; the inverter answers what it
\* has heard.
FairSpec == /\ Spec
            /\ WF_vars(Program /\ ~Waits) /\ WF_vars(TimerExpires) /\ WF_vars(Answer)

-----------------------------------------------------------------------------
(* Properties. *)

\* The k-th response is the k-th message of the line, on RS485 the one before it,
\* and function 0 when there is none: however the line ends, no message is lost or
\* written twice.  Reading by the length this is so up to the first message that is
\* longer or shorter than its header says (semonitor.py:160-187, msg.py:34-58).
OutputIsLine ==
  \A i \in 1 .. Len(out) :
    Delimiting \/ (inStep /\ Intact(i)) =>
      LET j == IF Delimiting THEN i - 1 ELSE i
      IN  out[i] = [command |-> i,
                    response |-> IF j \in 1 .. taken THEN Response(line[j]) ELSE Nothing]

\* The inverter sends only answers, to the commands of this execution.
OnlyAnswers == \A i \in 1 .. Len(line) : line[i].kind = "answer" /\ line[i].of[1] = restarts

\* Read by the length, a response belongs to its command, although nothing
\* compares their numbers, as long as the inverter sends only answers: also when
\* one is lost, late, or the connection breaks (semonitor.py:165-187).
ResponseOfCommand ==
  OnlyAnswers /\ ~Delimiting /\ inStep =>
    \A i \in 1 .. Len(out) : out[i].response \in {Nothing, Answers(restarts, i)}

\* "After each command is sent, semonitor.py will wait for a response before
\* sending the next command. [...] Responses are sent to output."
\* (README.md:299-301)
ResponsesAreWritten ==
  OnlyAnswers /\ closed = "no" /\ ~dead /\ inStep =>
    \A i \in 1 .. Len(out) : out[i].response = Answers(restarts, i)

\* "When all commands have been sent and responded to, the program terminates"
\* (README.md:300-301): also when a socket has no answer or a message of the wrong
\* length, with the grants of -m, which only their timer ends, and behind whatever else
\* the inverter sends.  The only place where it can stay is a read from a serial port,
\* when no answer has come or the step is lost.
CommandsEnd ==
  (at = "command") ~> \/ at \in {"ended", "failed"} \/ ~Alive
                      \/ [](at = "read" /\ opened = "serial" /\ (lost > 0 \/ Astray))

=============================================================================
