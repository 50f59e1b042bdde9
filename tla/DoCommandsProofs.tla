-------------------------- MODULE DoCommandsProofs --------------------------
(***************************************************************************)
(* Command mode, for every list of options and commands, whatever the      *)
(* inverter sends and wherever the program is killed.  The steps are taken *)
(* apart along the parts the module is made of: those of nextSeq, those of *)
(* the options, and those that send, read and write.                       *)
(***************************************************************************)
EXTENDS DoCommands, SeqFileProofs, SequenceTheorems

USE CommandsAssumption, MaxSlavesAssumption

\* The steps that leave the options, the transaction numbers, or both alone.
LEMMA ReadAlone ==
  ASSUME Read
  PROVE  /\ UNCHANGED modeVars /\ UNCHANGED seqVars /\ UNCHANGED inverter
         /\ UNCHANGED <<cmd, out, timer, event, restarts>>
         /\ Alive /\ at = "read" /\ at' \in {"write", "failed"}
<1>1. CASE ReadFirst
  BY <1>1 DEF ReadFirst, Return
<1>2. CASE ReadNext
  BY <1>2 DEF ReadNext, Return
<1>3. CASE ReadRest
  BY <1>3 DEF ReadRest, Return
<1>4. CASE ReadByLength
  BY <1>4 DEF ReadByLength, Return
<1>5. CASE ReadOutOfStep
  BY <1>5 DEF ReadOutOfStep, Return
<1>6. CASE ReadEof
  BY <1>6 DEF ReadEof, Return
<1>7. CASE ReadRaises
  BY <1>7 DEF ReadRaises
<1>8. CASE ReadTimesOut
  BY <1>8 DEF ReadTimesOut, Return
<1>9. CASE ReadWrongLength
  BY <1>9 DEF ReadWrongLength, Return
<1> QED BY <1>1, <1>2, <1>3, <1>4, <1>5, <1>6, <1>7, <1>8, <1>9 DEF Read

\* What the inverter does changes only what it has to answer and what it has sent.
TalkStep == Answer \/ Interfere \/ Release \/ Lose \/ Close

LEMMA TalkAlone ==
  ASSUME TalkStep
  PROVE  /\ UNCHANGED modeVars /\ UNCHANGED seqVars /\ UNCHANGED program
         /\ UNCHANGED reading /\ UNCHANGED restarts /\ Connected
<1>1. CASE Answer
  BY <1>1 DEF Answer, Talk
<1>2. CASE Interfere
  BY <1>2 DEF Interfere, Talk
<1>3. CASE Release
  BY <1>3 DEF Release, Talk
<1>4. CASE Lose
  BY <1>4 DEF Lose
<1>5. CASE Close
  BY <1>5 DEF Close
<1> QED BY <1>1, <1>2, <1>3, <1>4, <1>5 DEF TalkStep

\* The statements that write to the device, and those that do not touch it.
SendStep  == SendCommand \/ SendGrant
OtherStep == \/ DrawFails \/ SendFails \/ ClearEvent \/ TimerExpires \/ WaitEvent
             \/ WriteResponse \/ ResponseFails \/ NextCommand

LEMMA Steps ==
  Next => \/ Options \/ Open \/ Call \/ DrawSeq \/ SendStep \/ OtherStep \/ Read
          \/ TalkStep \/ Kill \/ StartAgain
BY DEF Next, Program, SendStep, OtherStep, TalkStep

LEMMA OtherAlone ==
  ASSUME OtherStep
  PROVE  /\ UNCHANGED modeVars /\ UNCHANGED reading /\ UNCHANGED inverter
         /\ UNCHANGED restarts
         /\ ReadFails \/ UNCHANGED seqVars
<1>1. CASE DrawFails
  BY <1>1 DEF DrawFails
<1>2. CASE SendFails
  BY <1>2 DEF SendFails
<1>3. CASE ClearEvent
  BY <1>3 DEF ClearEvent
<1>4. CASE TimerExpires
  BY <1>4 DEF TimerExpires
<1>5. CASE WaitEvent
  BY <1>5 DEF WaitEvent
<1>6. CASE WriteResponse
  BY <1>6 DEF WriteResponse
<1>7. CASE ResponseFails
  BY <1>7 DEF ResponseFails
<1>8. CASE NextCommand
  BY <1>8 DEF NextCommand
<1> QED BY <1>1, <1>2, <1>3, <1>4, <1>5, <1>6, <1>7, <1>8 DEF OtherStep

LEMMA SendAlone ==
  ASSUME SendStep
  PROVE  /\ UNCHANGED modeVars /\ UNCHANGED reading /\ UNCHANGED restarts /\ Issue
         /\ UNCHANGED <<cmd, got, out, event, line, closed, noise, lost>>
<1>1. CASE SendCommand
  BY <1>1 DEF SendCommand
<1>2. CASE SendGrant
  BY <1>2 DEF SendGrant
<1> QED BY <1>1, <1>2 DEF SendStep

-----------------------------------------------------------------------------
(* Transaction numbers. *)

LEMMA SeqPart == [Next]_vars => [SeqNext]_seqVars
<1> SUFFICES ASSUME [Next]_vars PROVE SeqNext \/ UNCHANGED seqVars
  OBVIOUS
<1>1. CASE Options \/ Open \/ Call
  BY <1>1 DEF Options, Open, Call
<1>2. CASE DrawSeq
  BY <1>2 DEF DrawSeq, SeqNext
<1>3. CASE SendStep
  BY <1>3, SendAlone DEF SeqNext
<1>4. CASE OtherStep
  BY <1>4, OtherAlone DEF SeqNext
<1>5. CASE Read
  BY <1>5, ReadAlone
<1>6. CASE TalkStep
  BY <1>6, TalkAlone
<1>7. CASE Kill \/ StartAgain
  BY <1>7 DEF Kill, StartAgain, SeqNext
<1>8. CASE UNCHANGED vars
  BY <1>8 DEF vars
<1> QED BY <1>1, <1>2, <1>3, <1>4, <1>5, <1>6, <1>7, <1>8, Steps

\* Command mode draws its numbers as SeqFile says, with everything that happens
\* between two calls of nextSeq (semonitor.py:160-187, 207-218).
THEOREM ImplementsSeqFile == Spec => SeqSpec
<1>1. Init => SeqInit
  BY DEF Init
<1> QED BY <1>1, SeqPart, PTL DEF Spec, SeqSpec

\* Every number a command or a grant is sent with is larger than all sent before
\* it since the last wrap-around, across failures, kills and restarts.
THEOREM CommandNumbersIncrease == Spec => []Increasing
BY ImplementsSeqFile, NumbersIncrease, PTL

-----------------------------------------------------------------------------
(* The mode. *)

\* The source that is opened for a name.
Opens(name) == IF name = "network" THEN "socket"
               ELSE IF serialDevice THEN "serial"
               ELSE IF name = "stdin" THEN "stdin" ELSE "file"

\* What each block of getArgs leaves behind for those that follow.
StageInv ==
  /\ stage # "source" => serialDevice = (args.datasource = "port")
  /\ stage \notin {"source", "network"} =>
       (networkDevice => args.datasource = "network")
  /\ stage \in {"source", "network"} => ~networkDevice
  /\ stage \in {"master", "commands", "open", "dispatch", "running"} =>
       serialDevice = (args.type \in {"2", "4"})
  /\ stage \in {"commands", "open", "dispatch", "running"} =>
       (args.master => args.type = "4" /\ args.slaves >= 1)
  /\ stage = "commands" => passiveMode = ~args.master
  /\ stage \in {"open", "dispatch", "running"} =>
       passiveMode = (~args.master /\ ~args.commands)
  /\ stage \in {"dispatch", "running"} => opened = Opens(args.datasource)
  /\ IF stage = "running"
     THEN role = IF passiveMode THEN "readData"
                 ELSE IF args.commands THEN "doCommands" ELSE "threads"
     ELSE role = "none"

ModeInv == ModeTypeOK /\ StageInv

LEMMA ModeInvInit == ModeInit => ModeInv
BY DEF ModeInit, ModeInv, ModeTypeOK, StageInv

LEMMA ModeTypeStep ==
  ASSUME ModeTypeOK, Validate \/ OpenSource \/ Dispatch
  PROVE  ModeTypeOK'
<1> USE DEF ModeTypeOK, Args, Sources
<1>1. CASE ValidateSource
  BY <1>1 DEF ValidateSource
<1>2. CASE ValidateNetwork
  BY <1>2 DEF ValidateNetwork, Refuse
<1>3. CASE ValidateSerial
  BY <1>3 DEF ValidateSerial, Refuse
<1>4. CASE ValidateMaster
  BY <1>4 DEF ValidateMaster, Refuse
<1>5. CASE ValidateCommands
  BY <1>5 DEF ValidateCommands, Refuse
<1>6. CASE OpenSource
  BY <1>6 DEF OpenSource
<1>7. CASE Dispatch
  BY <1>7 DEF Dispatch
<1> QED BY <1>1, <1>2, <1>3, <1>4, <1>5, <1>6, <1>7 DEF Validate

LEMMA StageStep ==
  ASSUME ModeInv, Validate \/ OpenSource \/ Dispatch
  PROVE  StageInv'
<1> USE DEF ModeInv, ModeTypeOK, StageInv, Args, Sources, Opens
<1>1. CASE ValidateSource
  BY <1>1 DEF ValidateSource
<1>2. CASE ValidateNetwork
  BY <1>2 DEF ValidateNetwork, Refuse
<1>3. CASE ValidateSerial
  BY <1>3 DEF ValidateSerial, Refuse
<1>4. CASE ValidateMaster
  BY <1>4 DEF ValidateMaster, Refuse
<1>5. CASE ValidateCommands
  BY <1>5 DEF ValidateCommands, Refuse
<1>6. CASE OpenSource
  BY <1>6 DEF OpenSource
<1>7. CASE Dispatch
  BY <1>7 DEF Dispatch
<1> QED BY <1>1, <1>2, <1>3, <1>4, <1>5, <1>6, <1>7 DEF Validate

LEMMA ModeInvStep == ModeInv /\ [Next]_vars => ModeInv'
<1> SUFFICES ASSUME ModeInv, [Next]_vars PROVE ModeInv'
  OBVIOUS
<1>1. CASE Options \/ Open \/ Call
  <2>1. Validate \/ OpenSource \/ Dispatch
    BY <1>1 DEF Options, Open, Call
  <2> QED BY <2>1, ModeTypeStep, StageStep DEF ModeInv
<1>2. CASE Kill
  <2>1. ModeTypeOK'
    BY <1>2 DEF Kill, ModeInv, ModeTypeOK, Args, Sources
  <2>2. StageInv'
    BY <1>2 DEF Kill, ModeInv, StageInv
  <2> QED BY <2>1, <2>2 DEF ModeInv
<1>3. CASE UNCHANGED modeVars
  BY <1>3 DEF modeVars, ModeInv, ModeTypeOK, StageInv, Opens
<1>4. UNCHANGED modeVars \/ Options \/ Open \/ Call \/ Kill
  <2>1. DrawSeq \/ StartAgain => UNCHANGED modeVars
    BY DEF DrawSeq, StartAgain
  <2>2. UNCHANGED vars => UNCHANGED modeVars
    BY DEF vars
  <2> QED BY <2>1, <2>2, Steps, SendAlone, OtherAlone, ReadAlone, TalkAlone
<1> QED BY <1>1, <1>2, <1>3, <1>4

LEMMA ModeInvHolds == Spec => []ModeInv
<1>1. Init => ModeInv
  BY ModeInvInit DEF Init
<1> QED BY <1>1, ModeInvStep, PTL DEF Spec

\* An accepted -m has a serial port of type 4 and a slave, for every combination
\* of options and data source (env.py:155-187; semonitor.py:235-276).
THEOREM MasterModeIsSound == Spec => []MasterModeSound
<1>1. ModeInv => MasterModeSound
  BY DEF ModeInv, ModeTypeOK, StageInv, Opens, Args, MasterModeSound
<1> QED BY <1>1, ModeInvHolds, PTL

\* readData never answers where nothing can be written.
THEOREM RepliesAreWritten == Spec => []RepliesHaveDevice
<1>1. ModeInv => RepliesHaveDevice
  BY DEF ModeInv, ModeTypeOK, StageInv, Opens, Args, RepliesHaveDevice, Interactive
<1> QED BY <1>1, ModeInvHolds, PTL

-----------------------------------------------------------------------------
(* Where the program is. *)

\* at is off until the mode is decided; then it is set apart from the other
\* loops, and nothing has been sent, read or written before.
Begun ==
  /\ pc = "stopped" => at = "off"
  /\ at = "off" <=> stage # "running"
  /\ at \in {"off", "elsewhere"} =>
       cmd = 1 /\ out = <<>> /\ line = <<>> /\ taken = 0 /\ ~begun
  /\ begun => Delimiting

StateInv == ModeInv /\ SeqInv /\ SystemTypeOK /\ Begun

LEMMA StateInvInit == Init => StateInv
<1> SUFFICES ASSUME Init PROVE StateInv
  OBVIOUS
<1>1. ModeInv /\ SeqInv
  BY ModeInvInit, SeqInvInit DEF Init
<1>2. ModeTypeOK /\ SeqTypeOK
  BY <1>1 DEF ModeInv, SeqInv
<1>3. Nothing \in Msgs
  BY DEF Nothing, Msgs, Nobody
<1>4. SystemTypeOK
  <2>1. out \in Seq([command : 1 .. NCommands, response : Msgs]) /\ Len(out) = 0
    BY DEF Init
  <2>2. line \in Seq(Msgs) /\ Len(line) = 0 /\ asked \in Seq(Ids)
    BY DEF Init
  <2>3. /\ at = "off" /\ cmd \in 1 .. NCommands /\ cmd - 1 = 0
        /\ taken \in 0 .. 0 /\ noise \in 0 .. MaxNoise /\ lost \in 0 .. MaxLost
        /\ restarts \in 0 .. MaxRestarts
    BY DEF Init
  <2>4. /\ ~begun /\ begun \in BOOLEAN /\ inStep \in BOOLEAN /\ dead \in BOOLEAN
        /\ timer \in BOOLEAN /\ event \in BOOLEAN /\ granted \in BOOLEAN
        /\ closed = "no" /\ got = Nothing
    BY DEF Init
  <2> QED BY <1>2, <1>3, <2>1, <2>2, <2>3, <2>4 DEF SystemTypeOK
<1>5. Begun
  BY DEF Init, Begun, ModeInit, SeqInit
<1> QED BY <1>1, <1>4, <1>5 DEF StateInv

LEMMA NothingIsMsg == Nothing \in Msgs /\ \A m \in Msgs : Response(m) \in Msgs
BY DEF Nothing, Msgs, Nobody, Response, Noise

\* What a read does to the types.
LEMMA ReadTypes ==
  ASSUME StateInv, Read
  PROVE  /\ taken' \in 0 .. Len(line) /\ begun' \in BOOLEAN
         /\ begun' => taken' < Len(line) /\ Delimiting
         /\ inStep' = inStep /\ dead' \in BOOLEAN
         /\ at' = "write" => got' \in Msgs
         /\ at' = "failed" => got' = got
<1>1. /\ Len(line) \in Nat /\ taken \in 0 .. Len(line)
      /\ \A i \in 1 .. Len(line) : line[i] \in Msgs
      /\ begun \in BOOLEAN /\ (begun => taken < Len(line) /\ Delimiting)
      /\ dead \in BOOLEAN
  <2>1. line \in Seq(Msgs)
    BY DEF StateInv, SystemTypeOK
  <2> QED BY <2>1, LenProperties, ElementOfSeq DEF StateInv, SystemTypeOK, Begun
<1> USE NothingIsMsg
<1>2. CASE ReadFirst
  BY <1>1, <1>2 DEF ReadFirst, Return
<1>3. CASE ReadNext
  <2>1. taken + 1 \in 1 .. Len(line)
    BY <1>1, <1>3 DEF ReadNext
  <2> QED BY <1>1, <1>3, <2>1 DEF ReadNext, Return
<1>4. CASE ReadRest
  <2>1. /\ taken' \in 0 .. Len(line) /\ inStep' = inStep /\ dead' \in BOOLEAN
        /\ at' = "write" /\ at' # "failed"
    BY <1>1, <1>4 DEF ReadRest, Return
  <2>4. ~begun' /\ begun' \in BOOLEAN
    BY <1>4 DEF ReadRest
  <2>2. CASE begun
    <3>1. Len(line) \in 1 .. Len(line)
      BY <1>1, <2>2
    <3>2. got' = Response(line[Len(line)])
      BY <1>4, <2>2 DEF ReadRest, Return
    <3> QED BY <1>1, <2>1, <2>4, <3>1, <3>2
  <2>3. CASE ~begun
    <3>1. got' = Nothing
      BY <1>4, <2>3 DEF ReadRest, Return
    <3> QED BY <2>1, <2>4, <3>1
  <2> QED BY <2>2, <2>3
<1>5. CASE ReadByLength
  <2>1. taken + 1 \in 1 .. Len(line)
    BY <1>1, <1>5 DEF ReadByLength
  <2> QED BY <1>1, <1>5, <2>1 DEF ReadByLength, Return
<1>6. CASE ReadOutOfStep
  <2>1. PICK n \in taken .. Len(line) :
          /\ taken' = n
          /\ Return(Nothing) \/ (n > taken /\ Return(Response(line[n])))
    BY <1>6 DEF ReadOutOfStep
  <2>2. n \in 0 .. Len(line) /\ (n > taken => n \in 1 .. Len(line))
    BY <1>1
  <2>3. at' = "write" /\ got' \in Msgs
    BY <1>1, <2>1, <2>2 DEF Return
  <2> QED BY <1>1, <1>6, <2>1, <2>2, <2>3 DEF ReadOutOfStep, Astray
<1>7. CASE ReadEof
  BY <1>1, <1>7 DEF ReadEof, Return, reading
<1>8. CASE ReadRaises
  BY <1>1, <1>8 DEF ReadRaises, reading
<1>9. CASE ReadTimesOut
  BY <1>1, <1>9 DEF ReadTimesOut, Return
<1>10. CASE ReadWrongLength
  BY <1>1, <1>10 DEF ReadWrongLength, Return, Astray
<1> QED BY <1>2, <1>3, <1>4, <1>5, <1>6, <1>7, <1>8, <1>9, <1>10 DEF Read

\* What the inverter does to the types.
LEMMA TalkTypes ==
  ASSUME StateInv, TalkStep
  PROVE  /\ line' \in Seq(Msgs) /\ Len(line') >= Len(line) /\ Len(line) \in Nat
         /\ asked' \in Seq(Ids)
         /\ closed' \in {"no", "clean", "torn"} /\ granted' \in BOOLEAN
         /\ noise' \in 0 .. MaxNoise /\ lost' \in 0 .. MaxLost
<1>1. /\ line \in Seq(Msgs) /\ asked \in Seq(Ids)
      /\ closed \in {"no", "clean", "torn"} /\ granted \in BOOLEAN
      /\ noise \in 0 .. MaxNoise /\ lost \in 0 .. MaxLost
  BY DEF StateInv, SystemTypeOK
<1>2. ASSUME NEW m \in Msgs, Talk(m)
      PROVE  line' \in Seq(Msgs) /\ Len(line') >= Len(line) /\ closed' = closed
             /\ lost' = lost
  BY <1>1, <1>2, AppendProperties, LenProperties DEF Talk
<1>3. Len(line) \in Nat
  BY <1>1, LenProperties
<1>4. asked # <<>> => Head(asked) \in Ids /\ Tail(asked) \in Seq(Ids)
  BY <1>1, HeadTailProperties
<1>5. CASE Answer
  <2> DEFINE m == [kind |-> "answer", of |-> Head(asked)]
  <2>1. m \in Msgs
    BY <1>4, <1>5 DEF Answer, Msgs
  <2>2. Talk(m) /\ asked' = Tail(asked) /\ UNCHANGED <<granted, noise>> /\ asked # <<>>
    BY <1>5 DEF Answer
  <2> HIDE DEF m
  <2> QED BY <1>1, <1>2, <1>3, <1>4, <2>1, <2>2
<1>6. CASE Interfere
  <2>1. PICK kd \in Noise : Talk([kind |-> kd, of |-> Nobody])
    BY <1>6 DEF Interfere
  <2>2. [kind |-> kd, of |-> Nobody] \in Msgs
    BY DEF Msgs
  <2>3. noise' \in 0 .. MaxNoise /\ granted' = granted
    BY <1>1, <1>6 DEF Interfere
  <2>4. asked' \in Seq(Ids)
    <3>1. asked' = asked \/ (asked # <<>> /\ asked' = Tail(asked))
      BY <1>6 DEF Interfere
    <3> QED BY <1>1, <1>4, <3>1
  <2> QED BY <1>1, <1>2, <1>3, <2>1, <2>2, <2>3, <2>4
<1>7. CASE Release
  <2>1. [kind |-> "release", of |-> Nobody] \in Msgs
    BY DEF Msgs
  <2> QED BY <1>1, <1>2, <1>3, <1>7, <2>1 DEF Release
<1>8. CASE Lose
  <2>1. line' = line /\ closed' = closed /\ granted' = granted /\ noise' = noise
    BY <1>8 DEF Lose
  <2>2. asked' \in Seq(Ids) /\ lost' \in 0 .. MaxLost
    BY <1>1, <1>4, <1>8 DEF Lose
  <2> QED BY <1>1, <1>3, <2>1, <2>2
<1>9. CASE Close
  BY <1>1, <1>3, <1>9 DEF Close
<1> QED BY <1>5, <1>6, <1>7, <1>8, <1>9 DEF TalkStep

\* The values of at, and what SystemTypeOK says of the statements.
Places == {"off", "elsewhere", "command", "grant", "clear", "wait", "read", "write",
           "sleep", "ended", "failed"}
Lines  == [command : 1 .. NCommands, response : Msgs]

ProgramTypeOK ==
  /\ at \in Places
  /\ cmd \in 1 .. NCommands /\ got \in Msgs
  /\ out \in Seq(Lines)
  /\ Len(out) = IF at \in {"sleep", "ended"} THEN cmd
                ELSE IF at = "failed" THEN Len(out) ELSE cmd - 1
  /\ timer \in BOOLEAN /\ event \in BOOLEAN

InverterTypeOK ==
  /\ line \in Seq(Msgs) /\ taken \in 0 .. Len(line)
  /\ begun \in BOOLEAN /\ (begun => taken < Len(line))
  /\ inStep \in BOOLEAN /\ dead \in BOOLEAN /\ closed \in {"no", "clean", "torn"}
  /\ asked \in Seq(Ids) /\ granted \in BOOLEAN
  /\ noise \in 0 .. MaxNoise /\ lost \in 0 .. MaxLost /\ restarts \in 0 .. MaxRestarts

LEMMA TypeParts ==
  SystemTypeOK <=> ModeTypeOK /\ SeqTypeOK /\ ProgramTypeOK /\ InverterTypeOK
BY DEF SystemTypeOK, ProgramTypeOK, InverterTypeOK, Places, Lines

LEMMA OtherTypes ==
  ASSUME ProgramTypeOK, OtherStep
  PROVE  /\ ProgramTypeOK'
         /\ \/ at' = at /\ cmd' = cmd /\ out' = out
            \/ at \notin {"off", "elsewhere"} /\ at' \notin {"off", "elsewhere"}
<1> USE DEF ProgramTypeOK
<1>1. CASE DrawFails
  BY <1>1 DEF DrawFails, Places
<1>2. CASE SendFails
  BY <1>2 DEF SendFails, Places
<1>3. CASE ClearEvent
  BY <1>3 DEF ClearEvent, Places
<1>4. CASE TimerExpires
  BY <1>4 DEF TimerExpires, Places
<1>5. CASE WaitEvent
  BY <1>5 DEF WaitEvent, Places
<1>6. CASE WriteResponse
  <2> DEFINE x == [command |-> cmd, response |-> got]
  <2>1. x \in Lines
    BY DEF Lines
  <2>2. out' = Append(out, x)
    BY <1>6 DEF WriteResponse
  <2>3. at = "write" /\ at' = "sleep" /\ cmd' = cmd /\ got' = Nothing
        /\ timer' = timer /\ event' = event
    BY <1>6 DEF WriteResponse
  <2> HIDE DEF x
  <2>4. out' \in Seq(Lines) /\ Len(out') = Len(out) + 1
    BY <2>1, <2>2, AppendProperties
  <2>5. Len(out) = cmd - 1 /\ cmd \in Nat
    BY <2>3
  <2> QED BY <2>3, <2>4, <2>5, NothingIsMsg DEF Places
<1>7. CASE ResponseFails
  BY <1>7, NothingIsMsg DEF ResponseFails, Places
<1>8. CASE NextCommand
  BY <1>8 DEF NextCommand, Places
<1> QED BY <1>1, <1>2, <1>3, <1>4, <1>5, <1>6, <1>7, <1>8 DEF OtherStep

LEMMA SendTypes ==
  ASSUME ProgramTypeOK, InverterTypeOK, SendStep
  PROVE  /\ ProgramTypeOK' /\ InverterTypeOK'
         /\ at \in {"command", "grant"} /\ at' \in {"grant", "read", "clear"}
<1> USE DEF ProgramTypeOK, InverterTypeOK
<1>1. CASE SendCommand
  <2>1. asked' \in Seq(Ids)
    <3>1. <<restarts, cmd>> \in Ids
      BY DEF Ids
    <3>2. Append(asked, <<restarts, cmd>>) \in Seq(Ids)
      BY <3>1, AppendProperties
    <3> QED BY <1>1, <3>2 DEF SendCommand
  <2> QED BY <1>1, <2>1 DEF SendCommand, Places, reading
<1>2. CASE SendGrant
  BY <1>2 DEF SendGrant, Places, reading
<1> QED BY <1>1, <1>2 DEF SendStep

LEMMA TypeStep ==
  ASSUME StateInv, ModeInv', SeqInv', [Next]_vars
  PROVE  ProgramTypeOK' /\ InverterTypeOK'
<1>1. ProgramTypeOK /\ InverterTypeOK
  BY TypeParts DEF StateInv
<1> USE DEF ProgramTypeOK, InverterTypeOK
<1>2. CASE Options \/ Open \/ Call \/ DrawSeq
  <2>1. CASE Options \/ DrawSeq
    BY <1>1, <2>1 DEF Options, DrawSeq, program, reading, inverter
  <2>2. CASE Open
    BY <1>1, <2>2 DEF Open, program, inverter
  <2>3. CASE Call
    <3>1. at = "off"
      BY <2>3 DEF Call, Dispatch, StateInv, Begun
    <3> QED BY <1>1, <2>3, <3>1 DEF Call, reading, inverter, Places
  <2> QED BY <1>2, <2>1, <2>2, <2>3
<1>3. CASE SendStep
  BY <1>1, <1>3, SendTypes
<1>4. CASE OtherStep
  <2>1. ProgramTypeOK'
    BY <1>1, <1>4, OtherTypes
  <2>2. UNCHANGED reading /\ UNCHANGED inverter /\ UNCHANGED restarts
    BY <1>4, OtherAlone
  <2> QED BY <1>1, <2>1, <2>2 DEF reading, inverter
<1>5. CASE Read
  <2>1. UNCHANGED inverter /\ UNCHANGED <<cmd, out, timer, event, restarts>>
        /\ at = "read" /\ at' \in {"write", "failed"}
    BY <1>5, ReadAlone
  <2>2. /\ taken' \in 0 .. Len(line) /\ begun' \in BOOLEAN
        /\ begun' => taken' < Len(line)
        /\ inStep' = inStep /\ dead' \in BOOLEAN
    BY <1>5, ReadTypes
  <2>3. got' \in Msgs
    BY <1>1, <1>5, <2>1, ReadTypes
  <2>4. ProgramTypeOK'
    BY <1>1, <2>1, <2>3 DEF Places
  <2> QED BY <1>1, <2>1, <2>2, <2>4 DEF inverter
<1>6. CASE TalkStep
  <2>1. UNCHANGED program /\ UNCHANGED reading /\ UNCHANGED restarts
    BY <1>6, TalkAlone
  <2>2. /\ line' \in Seq(Msgs) /\ Len(line') >= Len(line) /\ Len(line) \in Nat
        /\ asked' \in Seq(Ids)
        /\ closed' \in {"no", "clean", "torn"} /\ granted' \in BOOLEAN
        /\ noise' \in 0 .. MaxNoise /\ lost' \in 0 .. MaxLost
    BY <1>6, TalkTypes
  <2>3. Len(line') \in Nat
    BY <2>2, LenProperties
  <2>4. taken' \in 0 .. Len(line') /\ (begun' => taken' < Len(line'))
    BY <1>1, <2>1, <2>2, <2>3 DEF reading
  <2> QED BY <1>1, <2>1, <2>2, <2>4 DEF program, reading
<1>7. CASE Kill
  <2>1. out' \in Seq(Lines) /\ Len(out') = 0 /\ cmd' = 1 /\ at' = "off" /\ got' = Nothing
    BY <1>7 DEF Kill
  <2>2. timer' \in BOOLEAN /\ event' \in BOOLEAN
    BY <1>7 DEF Kill
  <2>3. ProgramTypeOK'
    BY <2>1, <2>2, NothingIsMsg DEF Places
  <2>4. line' \in Seq(Msgs) /\ Len(line') = 0 /\ taken' = 0
    BY <1>7 DEF Kill
  <2>7. ~begun' /\ begun' \in BOOLEAN
    BY <1>7 DEF Kill
  <2>5. asked' \in Seq(Ids)
    BY <1>1, <1>7 DEF Kill
  <2>6. /\ inStep' \in BOOLEAN /\ dead' \in BOOLEAN /\ closed' = "no" /\ granted' \in BOOLEAN
        /\ noise' = 0 /\ lost' = 0 /\ restarts' = restarts
    BY <1>7 DEF Kill
  <2>8. restarts' \in 0 .. MaxRestarts
    BY <1>1, <2>6
  <2>9. taken' \in 0 .. Len(line') /\ noise' \in 0 .. MaxNoise /\ lost' \in 0 .. MaxLost
    BY <2>4, <2>6
  <2> QED BY <2>3, <2>4, <2>5, <2>6, <2>7, <2>8, <2>9
<1>8. CASE StartAgain
  <2>1. asked' \in Seq(Ids)
    <3>1. PICK i \in 1 .. Len(asked) + 1 : asked' = SubSeq(asked, i, Len(asked))
      BY <1>8 DEF StartAgain
    <3>2. Len(asked) \in Nat
      BY <1>1, LenProperties
    <3>3. \A k \in i .. Len(asked) : asked[k] \in Ids
      <4>1. \A k \in i .. Len(asked) : k \in 1 .. Len(asked)
        BY <3>2
      <4> QED BY <1>1, <4>1, ElementOfSeq
    <3> QED BY <3>1, <3>2, <3>3, SubSeqProperties
  <2>2. restarts' \in 0 .. MaxRestarts
    BY <1>1, <1>8 DEF StartAgain
  <2> QED BY <1>1, <1>8, <2>1, <2>2 DEF StartAgain, program, reading
<1>9. CASE UNCHANGED vars
  BY <1>1, <1>9 DEF vars, program, reading, inverter
<1> QED BY <1>2, <1>3, <1>4, <1>5, <1>6, <1>7, <1>8, <1>9, Steps

LEMMA BegunStep ==
  ASSUME StateInv, [Next]_vars
  PROVE  Begun'
<1>0. Begun /\ ProgramTypeOK /\ InverterTypeOK
  BY TypeParts DEF StateInv
<1> USE DEF Begun
<1>1. CASE Options \/ Open
  <2>1. stage # "running" /\ stage' # "running" /\ pc # "stopped" /\ pc' = pc
    BY <1>1 DEF Options, Open, Alive, Validate, ValidateSource, ValidateNetwork,
                ValidateSerial, ValidateMaster, ValidateCommands, Refuse, OpenSource, seqVars
  <2>2. at = "off" /\ UNCHANGED <<at, cmd, out, line, taken, begun>>
    BY <1>0, <1>1, <2>1 DEF Options, Open, program, inverter, reading
  <2> QED BY <1>0, <2>1, <2>2
<1>2. CASE Call
  BY <1>0, <1>2 DEF Call, Dispatch, Alive, seqVars, reading, inverter
<1>3. CASE DrawSeq
  BY <1>0, <1>3 DEF DrawSeq, ReadSeq, Truncate, WriteSeq, modeVars, program, reading,
                    inverter, Delimiting
<1>4. CASE SendStep
  <2>1. UNCHANGED modeVars /\ UNCHANGED reading /\ Issue
    BY <1>4, SendAlone
  <2>2. at \in {"command", "grant"} /\ at' \in {"grant", "read", "clear"}
    BY <1>0, <1>4, SendTypes
  <2> QED BY <1>0, <2>1, <2>2 DEF modeVars, reading, Issue, Delimiting
<1>5. CASE OtherStep
  <2>1. /\ UNCHANGED modeVars /\ UNCHANGED reading /\ UNCHANGED inverter
        /\ ReadFails \/ UNCHANGED seqVars
    BY <1>5, OtherAlone
  <2>2. \/ at' = at /\ cmd' = cmd /\ out' = out
        \/ at \notin {"off", "elsewhere"} /\ at' \notin {"off", "elsewhere"}
    BY <1>0, <1>5, OtherTypes
  <2>3. pc' = "stopped" => pc = "stopped"
    BY <2>1 DEF ReadFails, seqVars
  <2> QED BY <1>0, <2>1, <2>2, <2>3 DEF modeVars, reading, inverter, Delimiting
<1>6. CASE Read
  <2>1. /\ UNCHANGED modeVars /\ UNCHANGED seqVars
        /\ Alive /\ at = "read" /\ at' \in {"write", "failed"}
    BY <1>6, ReadAlone
  <2>2. begun' => Delimiting
    BY <1>6, ReadTypes
  <2> QED BY <1>0, <2>1, <2>2 DEF modeVars, seqVars, Alive, Delimiting
<1>7. CASE TalkStep
  <2>1. /\ UNCHANGED modeVars /\ UNCHANGED seqVars /\ UNCHANGED program
        /\ UNCHANGED reading /\ Connected
    BY <1>7, TalkAlone
  <2> QED BY <1>0, <2>1 DEF modeVars, seqVars, program, reading, Connected, Delimiting
<1>8. CASE Kill
  BY <1>8 DEF Kill
<1>9. CASE StartAgain
  BY <1>0, <1>9 DEF StartAgain, Restart, modeVars, program, reading, Delimiting
<1>10. CASE UNCHANGED vars
  BY <1>0, <1>10 DEF vars, modeVars, seqVars, program, reading, inverter, Delimiting
<1> QED BY <1>1, <1>2, <1>3, <1>4, <1>5, <1>6, <1>7, <1>8, <1>9, <1>10, Steps

LEMMA StateInvStep == StateInv /\ [Next]_vars => StateInv'
<1> SUFFICES ASSUME StateInv, [Next]_vars PROVE StateInv'
  OBVIOUS
<1>1. ModeInv'
  BY ModeInvStep DEF StateInv
<1>2. SeqInv'
  BY SeqPart, SeqInvStep DEF StateInv
<1>3. ProgramTypeOK' /\ InverterTypeOK'
  BY <1>1, <1>2, TypeStep
<1>4. SystemTypeOK'
  <2>1. ModeTypeOK' /\ SeqTypeOK'
    BY <1>1, <1>2 DEF ModeInv, SeqInv
  <2>2. SystemTypeOK' <=> ModeTypeOK' /\ SeqTypeOK' /\ ProgramTypeOK' /\ InverterTypeOK'
    BY TypeParts, PTL
  <2> QED BY <1>3, <2>1, <2>2
<1> QED BY <1>1, <1>2, <1>4, BegunStep DEF StateInv

LEMMA StateInvHolds == Spec => []StateInv
BY StateInvInit, StateInvStep, PTL DEF Spec

\* The types of the whole system hold: what is written keeps up with the commands,
\* and no more is read than was sent.
THEOREM SystemTypes == Spec => []SystemTypeOK
<1>1. StateInv => SystemTypeOK
  BY DEF StateInv
<1> QED BY <1>1, StateInvHolds, PTL

-----------------------------------------------------------------------------
(* What is written. *)

\* How often readMsg has returned, and what its i-th call returns.
Reads == IF at \in {"write", "sleep"} THEN cmd ELSE cmd - 1

Expected(i) ==
  LET j == IF Delimiting THEN i - 1 ELSE i
  IN  IF j \in 1 .. taken THEN Response(line[j]) ELSE Nothing

Over == at \in {"ended", "failed"}

\* As many messages have been read as calls of readMsg have returned, on RS485
\* one less; fewer only when there will be no more.  A step that is lost is lost
\* with a message that a call has met.
Step ==
  ~Over => /\ ~Delimiting /\ InStep =>
                /\ taken <= Reads
                /\ taken < Reads => dead \/ (closed # "no" /\ taken = Len(line))
           /\ ~Delimiting /\ inStep /\ ~InStep => ~Intact(Reads + 1)
           /\ Delimiting =>
                /\ begun => taken = Reads - 1
                /\ ~begun /\ Reads > 0 =>
                     closed # "no" /\ taken = Len(line) /\ taken < Reads
                /\ Reads = 0 => taken = 0

\* What the i-th response is, is known.
Known(i) == Delimiting \/ (inStep /\ Intact(i))

Holding == at = "write" /\ Known(cmd) => got = Expected(cmd)

AsRead == \A i \in 1 .. Len(out) :
            Known(i) => out[i] = [command |-> i, response |-> Expected(i)]

ReadInv == Step /\ Holding /\ AsRead

\* A type 4 source is not a socket.
LEMMA DelimitingIsSerial ==
  ASSUME StateInv, Delimiting, at \notin {"off", "elsewhere"}
  PROVE  opened # "socket"
BY DEF StateInv, Begun, ModeInv, ModeTypeOK, StageInv, Opens, Delimiting, Args

\* Nothing that was returned or written can change when what is read, and the line
\* as far as it has been read, is the same.
LEMMA SameExpected ==
  ASSUME StateInv, taken' = taken, args'.type = args.type,
         \A j \in 1 .. taken : line'[j] = line[j],
         NEW i
  PROVE  Expected(i)' = Expected(i)
BY DEF Expected, Response, Delimiting

\* Nor can what is known of it.
LEMMA SameIntact ==
  ASSUME taken' = taken, \A j \in 1 .. taken : line'[j] = line[j], NEW i, NEW j, i = j
  PROVE  Intact(i)' <=> Intact(j)
BY DEF Intact

LEMMA SameInStep ==
  ASSUME taken' = taken, inStep' = inStep, \A j \in 1 .. taken : line'[j] = line[j]
  PROVE  InStep' <=> InStep
BY DEF InStep, Intact

LEMMA SameKnown ==
  ASSUME taken' = taken, inStep' = inStep, args'.type = args.type,
         \A j \in 1 .. taken : line'[j] = line[j], NEW i
  PROVE  Known(i)' <=> Known(i)
BY DEF Known, Intact, Delimiting

\* What holds when a read is called.
LEMMA BeforeRead ==
  ASSUME StateInv, ReadInv, Read
  PROVE  /\ Len(line) \in Nat /\ taken \in 0 .. Len(line) /\ cmd \in 1 .. NCommands
         /\ cmd \in Nat
         /\ begun \in BOOLEAN /\ (begun => taken < Len(line) /\ Delimiting)
         /\ Reads = cmd - 1 /\ line' = line /\ args' = args /\ closed' = closed
         /\ cmd' = cmd /\ out' = out /\ inStep' = inStep /\ at = "read"
         /\ ~Delimiting /\ InStep =>
              /\ taken <= cmd - 1
              /\ taken < cmd - 1 => dead \/ (closed # "no" /\ taken = Len(line))
         /\ ~Delimiting /\ inStep /\ ~InStep => ~Intact(cmd)
         /\ Delimiting =>
              /\ begun => taken = cmd - 2
              /\ ~begun /\ cmd - 1 > 0 =>
                   closed # "no" /\ taken = Len(line) /\ taken < cmd - 1
              /\ cmd - 1 = 0 => taken = 0
<1>1. /\ UNCHANGED modeVars /\ UNCHANGED inverter /\ UNCHANGED <<cmd, out>> /\ at = "read"
  BY ReadAlone
<1>2. /\ Len(line) \in Nat /\ taken \in 0 .. Len(line) /\ cmd \in 1 .. NCommands
      /\ begun \in BOOLEAN /\ (begun => taken < Len(line) /\ Delimiting)
      /\ Reads = cmd - 1 /\ line' = line /\ args' = args /\ closed' = closed
  <2>1. line \in Seq(Msgs)
    BY DEF StateInv, SystemTypeOK
  <2> QED BY <1>1, <2>1, LenProperties DEF StateInv, SystemTypeOK, Begun, Reads, inverter,
                                       modeVars
<1>3. inStep' = inStep
  BY ReadTypes
<1>4. Reads + 1 = cmd /\ cmd \in Nat
  BY <1>2
<1>5. ~Delimiting /\ inStep /\ ~InStep => ~Intact(cmd)
  BY <1>1, <1>4 DEF ReadInv, Step, Over
<1> QED BY <1>1, <1>2, <1>3, <1>4, <1>5 DEF ReadInv, Step, Over

\* A read in step by the length, of the message that is next.
LEMMA ReadInStep ==
  ASSUME StateInv, ReadInv, Read, InStep, ~Delimiting, ~dead, taken < Len(line)
  PROVE  taken = cmd - 1
<1>1. taken <= cmd - 1 /\ ~(taken < cmd - 1)
  BY BeforeRead
<1> QED BY <1>1, BeforeRead

\* What no call before had met is not met again.
LEMMA IntactBefore ==
  ASSUME StateInv, ReadInv, Read, NEW i \in 1 .. cmd, Intact(i)'
  PROVE  Intact(i)
<1>1. taken' \in 0 .. Len(line) /\ taken \in 0 .. Len(line) /\ line' = line
      /\ Len(line) \in Nat
  BY BeforeRead, ReadTypes
<1>2. taken' >= taken
  BY <1>1, BeforeRead DEF Read, ReadFirst, ReadNext, ReadRest, ReadByLength, ReadWrongLength,
        ReadOutOfStep, ReadEof, ReadRaises, ReadTimesOut, reading
<1>3. \A k \in 1 .. taken : k \in 1 .. taken'
  BY <1>1, <1>2
<1> QED BY <1>1, <1>3 DEF Intact

\* A message of the wrong length before the i-th has been taken.
LEMMA NotIntact ==
  ASSUME StateInv, NEW i \in Nat, ~Intact(i)
  PROVE  \E k \in 1 .. taken : k < i /\ line[k].kind = "wrongLength"
BY DEF Intact

\* A read goes one on, and what the calls before it returned stays as it is.
LEMMA ReadOnce ==
  ASSUME StateInv, ReadInv, Read, at' = "write"
  PROVE  /\ Known(cmd)' => got' = Expected(cmd)'
         /\ \A i \in 1 .. cmd - 1 :
              Known(i)' => Known(i) /\ Expected(i)' = Expected(i)
<1>2. /\ Len(line) \in Nat /\ taken \in 0 .. Len(line) /\ cmd \in 1 .. NCommands
      /\ cmd \in Nat
      /\ begun \in BOOLEAN /\ (begun => taken < Len(line) /\ Delimiting)
      /\ line' = line /\ args' = args /\ inStep' = inStep /\ at = "read" /\ cmd' = cmd
  BY BeforeRead
<1>3. Delimiting =>
           /\ begun => taken = cmd - 2
           /\ ~begun /\ cmd - 1 > 0 =>
                closed # "no" /\ taken = Len(line) /\ taken < cmd - 1
           /\ cmd - 1 = 0 => taken = 0
  BY BeforeRead
<1>4. Delimiting' = Delimiting
  BY <1>2 DEF Delimiting
<1>5. ~Delimiting /\ inStep /\ ~InStep => ~Intact(cmd)
  BY BeforeRead
<1>6. ~Delimiting /\ InStep =>
           /\ taken <= cmd - 1
           /\ taken < cmd - 1 => dead \/ (closed # "no" /\ taken = Len(line))
  BY BeforeRead
<1>7. CASE Delimiting
  <2>1. ~ReadByLength /\ ~ReadWrongLength /\ ~ReadOutOfStep /\ ~ReadEof /\ ~ReadRaises
    BY <1>7 DEF ReadByLength, ReadWrongLength, ReadOutOfStep, ReadEof, ReadRaises, AtEnd, Astray
  <2>2. ~ReadTimesOut
    BY <1>2, <1>7, DelimitingIsSerial DEF ReadTimesOut
  <2> SUFFICES /\ got' = Expected(cmd)'
               /\ \A i \in 1 .. cmd - 1 : Expected(i)' = Expected(i)
    BY <1>4, <1>7 DEF Known
  <2> USE DEF Expected, Response, Delimiting
  <2>3. CASE ReadFirst
    BY <1>2, <1>3, <1>7, <2>3 DEF ReadFirst, Return
  <2>4. CASE ReadNext
    BY <1>2, <1>3, <1>7, <2>4 DEF ReadNext, Return
  <2>5. CASE ReadRest
    BY <1>2, <1>3, <1>7, <2>5 DEF ReadRest, Return
  <2> QED BY <2>1, <2>2, <2>3, <2>4, <2>5 DEF Read
<1>8. CASE ~Delimiting /\ InStep
  <2>1. ~ReadFirst /\ ~ReadNext /\ ~ReadRest /\ ~ReadOutOfStep /\ ~ReadRaises
    BY <1>2, <1>8 DEF ReadFirst, ReadNext, ReadRest, ReadOutOfStep, ReadRaises
  <2>2. ReadByLength \/ ReadWrongLength => taken = cmd - 1
    BY <1>8, ReadInStep DEF ReadByLength, ReadWrongLength, Astray
  <2>3. \A i \in 1 .. cmd - 1 : Intact(i)' => Intact(i)
    BY <1>2, IntactBefore
  <2>4. \A i \in 1 .. cmd - 1 : Known(i)' => Known(i)
    BY <1>2, <1>4, <1>8, <2>3 DEF Known
  <2> SUFFICES /\ got' = Expected(cmd)'
               /\ \A i \in 1 .. cmd - 1 : Expected(i)' = Expected(i)
    BY <2>4
  <2> USE DEF Expected, Response
  <2>5. CASE ReadByLength
    BY <1>2, <1>4, <1>8, <2>2, <2>5 DEF ReadByLength, Return
  <2>6. CASE ReadWrongLength
    <3>1. /\ taken = cmd - 1 /\ taken' \in taken + 1 .. Len(line) /\ got' = Nothing
          /\ line[taken + 1].kind = "wrongLength"
      BY <1>8, <2>2, <2>6 DEF ReadWrongLength, Return, Astray
    <3>2. cmd \in 1 .. taken' /\ line[cmd].kind = "wrongLength"
      BY <1>2, <3>1
    <3>3. \A i \in 1 .. cmd - 1 : i \in 1 .. taken /\ i \in 1 .. taken'
      BY <1>2, <3>1
    <3> QED BY <1>2, <1>4, <1>8, <3>1, <3>2, <3>3
  <2>7. CASE ReadEof
    BY <1>2, <1>4, <1>6, <1>8, <2>7 DEF ReadEof, AtEnd, Return, reading
  <2>8. CASE ReadTimesOut
    <3>1. taken' = taken /\ got' = Nothing /\ taken <= cmd - 1
      BY <1>6, <1>8, <2>8 DEF ReadTimesOut, Return
    <3> QED BY <1>2, <1>4, <1>8, <3>1
  <2> QED BY <2>1, <2>5, <2>6, <2>7, <2>8 DEF Read
<1>9. CASE ~Delimiting /\ ~InStep
  <2>1. CASE ~inStep
    BY <1>2, <1>4, <1>9, <2>1 DEF Known
  <2>2. CASE inStep
    <3>1. ~Intact(cmd)
      BY <1>5, <1>9, <2>2
    <3>2. PICK k \in 1 .. taken : k < cmd /\ line[k].kind = "wrongLength"
      BY <1>2, <3>1, NotIntact
    <3>3. taken' >= taken /\ taken' \in 0 .. Len(line)
      <4>1. ~ReadFirst /\ ~ReadNext /\ ~ReadRest /\ ~ReadByLength /\ ~ReadWrongLength
        BY <1>9 DEF ReadFirst, ReadNext, ReadRest, ReadByLength, ReadWrongLength, Astray
      <4>2. taken' \in taken .. Len(line)
        BY <1>2, <4>1 DEF Read, ReadOutOfStep, ReadEof, ReadRaises, ReadTimesOut, reading
      <4> QED BY <1>2, <4>2
    <3>4. ~Intact(cmd)'
      <4>1. k \in 1 .. taken' /\ k < cmd' /\ line'[k].kind = "wrongLength"
        BY <1>2, <3>2, <3>3
      <4> QED BY <4>1 DEF Intact
    <3>5. ~Known(cmd)'
      BY <1>4, <1>9, <3>4 DEF Known
    <3>6. ASSUME NEW i \in 1 .. cmd - 1, Known(i)'
          PROVE  Known(i) /\ Expected(i)' = Expected(i)
      <4>1. Intact(i)' /\ i \in 1 .. cmd
        BY <1>2, <1>4, <1>9, <3>6 DEF Known
      <4>2. Intact(i)
        BY <4>1, IntactBefore
      <4>3. ~(k < i)
        BY <3>2, <4>2 DEF Intact
      <4>5. i \in 1 .. taken /\ i \in 1 .. taken'
        BY <1>2, <3>2, <3>3, <4>3
      <4> QED BY <1>2, <1>4, <1>9, <2>2, <4>2, <4>5 DEF Known, Expected, Response
    <3> QED BY <3>5, <3>6
  <2> QED BY <2>1, <2>2
<1> QED BY <1>7, <1>8, <1>9

\* What is at most a number is below its successor.
LEMMA UpTo == \A t \in Nat : \A k \in 1 .. t : k < t + 1
  OBVIOUS

\* A read keeps step.
LEMMA ReadStep ==
  ASSUME StateInv, ReadInv, Read
  PROVE  Step'
<1>1. at' \in {"write", "failed"}
  BY ReadAlone
<1>2. /\ Len(line) \in Nat /\ taken \in 0 .. Len(line) /\ cmd \in 1 .. NCommands
      /\ cmd \in Nat
      /\ begun \in BOOLEAN /\ (begun => taken < Len(line) /\ Delimiting)
      /\ line' = line /\ args' = args /\ inStep' = inStep /\ at = "read"
      /\ closed' = closed /\ cmd' = cmd
  BY BeforeRead
<1>3. Delimiting =>
           /\ begun => taken = cmd - 2
           /\ ~begun /\ cmd - 1 > 0 =>
                closed # "no" /\ taken = Len(line) /\ taken < cmd - 1
           /\ cmd - 1 = 0 => taken = 0
  BY BeforeRead
<1>4. Delimiting' = Delimiting
  BY <1>2 DEF Delimiting
<1>5. ~Delimiting /\ inStep /\ ~InStep => ~Intact(cmd)
  BY BeforeRead
<1>6. ~Delimiting /\ InStep =>
           /\ taken <= cmd - 1
           /\ taken < cmd - 1 => dead \/ (closed # "no" /\ taken = Len(line))
  BY BeforeRead
<1>7. CASE at' = "failed"
  BY <1>7 DEF Step, Over
<1>8. CASE at' = "write"
  <2>1. Reads' = cmd /\ ~Over'
    BY <1>2, <1>8 DEF Reads, Over
  <2>2. CASE Delimiting
    <3>1. ~ReadByLength /\ ~ReadWrongLength /\ ~ReadOutOfStep /\ ~ReadEof /\ ~ReadRaises
      BY <2>2 DEF ReadByLength, ReadWrongLength, ReadOutOfStep, ReadEof, ReadRaises, AtEnd,
                  Astray
    <3>2. ~ReadTimesOut
      BY <1>2, <2>2, DelimitingIsSerial DEF ReadTimesOut
    <3>3. CASE ReadFirst
      BY <1>2, <1>3, <1>4, <2>1, <2>2, <3>3 DEF ReadFirst, Step
    <3>4. CASE ReadNext
      BY <1>2, <1>3, <1>4, <2>1, <2>2, <3>4 DEF ReadNext, Step
    <3>5. CASE ReadRest
      BY <1>2, <1>3, <1>4, <2>1, <2>2, <3>5 DEF ReadRest, Step
    <3> QED BY <3>1, <3>2, <3>3, <3>4, <3>5 DEF Read
  <2>3. CASE ~Delimiting /\ InStep
    <3>1. ~ReadFirst /\ ~ReadNext /\ ~ReadRest /\ ~ReadOutOfStep /\ ~ReadRaises
      BY <1>8, <2>3 DEF ReadFirst, ReadNext, ReadRest, ReadOutOfStep, ReadRaises
    <3>2. ReadByLength \/ ReadWrongLength => taken = cmd - 1
      BY <2>3, ReadInStep DEF ReadByLength, ReadWrongLength, Astray
    <3>3. CASE ReadByLength
      <4>1. taken' = cmd /\ line[cmd].kind # "wrongLength" /\ Intact(taken + 1) /\ inStep
        BY <1>2, <2>3, <3>2, <3>3 DEF ReadByLength, Astray, InStep
      <4>2. \A k \in 1 .. taken' : k = cmd \/ (k \in 1 .. taken /\ k < taken + 1)
        BY <1>2, <3>2, <3>3, <4>1
      <4>3. \A k \in 1 .. taken' : line[k].kind # "wrongLength"
        BY <4>1, <4>2 DEF Intact
      <4>4. InStep'
        BY <1>2, <4>1, <4>3 DEF InStep, Intact
      <4> QED BY <1>2, <1>4, <2>1, <2>3, <4>1, <4>4 DEF Step
    <3>4. CASE ReadWrongLength
      <4>1. /\ taken = cmd - 1 /\ taken' \in taken + 1 .. Len(line)
            /\ line[taken + 1].kind = "wrongLength"
        BY <2>3, <3>2, <3>4 DEF ReadWrongLength, Astray
      <4> DEFINE c == taken + 1
      <4>2. c \in 1 .. taken' /\ line[c].kind = "wrongLength" /\ c = cmd
        BY <1>2, <4>1
      <4> HIDE DEF c
      <4>3. PICK k \in 1 .. taken' : line[k].kind = "wrongLength" /\ k = cmd
        BY <4>2
      <4>4. taken' \in Nat
        BY <1>2, <4>1
      <4>5. k < taken' + 1
        BY <4>4, UpTo, Zenon
      <4>6. k < Reads' + 1
        BY <1>2, <2>1, <4>3
      <4>7. k < Reads' + 1 /\ k < taken' + 1
        BY <4>5, <4>6
      <4>8. k < Reads' + 1 /\ k < taken' + 1 /\ line'[k].kind = "wrongLength"
        BY <1>2, <4>3, <4>7
      <4>9. ~Intact(Reads + 1)'
        BY <4>8 DEF Intact
      <4>10. ~InStep'
        BY <4>8 DEF InStep, Intact
      <4> QED BY <1>4, <2>3, <4>9, <4>10 DEF Step
    <3>5. CASE ReadEof \/ ReadTimesOut
      <4>1. taken' = taken
        BY <3>5 DEF ReadEof, ReadTimesOut, reading
      <4>2. InStep'
        BY <1>2, <2>3, <4>1, SameInStep
      <4>3. dead' \/ (closed # "no" /\ taken = Len(line))
        BY <2>3, <3>5 DEF ReadEof, ReadTimesOut, AtEnd, reading
      <4> QED BY <1>2, <1>4, <1>6, <2>1, <2>3, <4>1, <4>2, <4>3 DEF Step
    <3> QED BY <3>1, <3>3, <3>4, <3>5 DEF Read
  <2>4. CASE ~Delimiting /\ ~InStep
    <3>1. CASE ~inStep
      BY <1>2, <1>4, <2>4, <3>1 DEF Step, InStep
    <3>2. CASE inStep
      <4>1. PICK k \in 1 .. taken : k < cmd /\ line[k].kind = "wrongLength"
        BY <1>2, <1>5, <2>4, <3>2, NotIntact
      <4>2. taken' \in taken .. Len(line)
        <5>1. ~ReadFirst /\ ~ReadNext /\ ~ReadRest /\ ~ReadByLength /\ ~ReadWrongLength
          BY <2>4 DEF ReadFirst, ReadNext, ReadRest, ReadByLength, ReadWrongLength, Astray
        <5> QED BY <1>2, <5>1 DEF Read, ReadOutOfStep, ReadEof, ReadRaises, ReadTimesOut, reading
      <4>3. k \in 1 .. taken' /\ line'[k].kind = "wrongLength" /\ k < Reads' + 1
            /\ k < taken' + 1
        BY <1>2, <2>1, <4>1, <4>2
      <4>4. ~Intact(Reads + 1)'
        BY <4>3 DEF Intact
      <4>5. ~InStep'
        BY <4>3 DEF InStep, Intact
      <4> QED BY <1>4, <2>4, <4>4, <4>5 DEF Step
    <3> QED BY <3>1, <3>2
  <2> QED BY <2>2, <2>3, <2>4
<1> QED BY <1>1, <1>7, <1>8

\* Writing the response appends what was returned for the command.
LEMMA WriteStep ==
  ASSUME StateInv, ReadInv, WriteResponse
  PROVE  AsRead'
<1> DEFINE x == [command |-> cmd, response |-> got]
<1>1. /\ out \in Seq(Lines) /\ Len(out) = cmd - 1 /\ cmd \in Nat /\ got \in Msgs
      /\ cmd \in 1 .. NCommands
  BY TypeParts DEF StateInv, ProgramTypeOK, WriteResponse
<1>2. out' = Append(out, x) /\ UNCHANGED reading /\ UNCHANGED inverter /\ UNCHANGED modeVars
  BY DEF WriteResponse
<1>3. x \in Lines
  BY <1>1 DEF Lines
<1> HIDE DEF x
<1>4. /\ Len(out') = cmd /\ out'[cmd] = x
      /\ \A i \in 1 .. cmd - 1 : out'[i] = out[i]
  BY <1>1, <1>2, <1>3, AppendProperties
<1>5. ASSUME NEW i PROVE Expected(i)' = Expected(i) /\ (Known(i)' <=> Known(i))
  BY <1>2, SameExpected, SameKnown DEF reading, inverter, modeVars
<1> SUFFICES ASSUME NEW i \in 1 .. cmd, Known(i)
             PROVE  out'[i] = [command |-> i, response |-> Expected(i)]
  BY <1>2, <1>4, <1>5 DEF AsRead
<1>6. CASE i = cmd
  <2>1. got = Expected(cmd)
    BY <1>6 DEF ReadInv, Holding, WriteResponse
  <2> QED BY <1>4, <1>6, <2>1 DEF x
<1>7. CASE i # cmd
  <2>1. i \in 1 .. Len(out)
    BY <1>1, <1>7
  <2> QED BY <1>1, <1>4, <2>1 DEF ReadInv, AsRead
<1> QED BY <1>6, <1>7

\* What is read, what was returned and what was written are as they were, as far as
\* the next read and the next response are concerned.
LEMMA SameReadInv ==
  ASSUME StateInv, ReadInv, UNCHANGED reading, UNCHANGED cmd, UNCHANGED out,
         UNCHANGED modeVars, UNCHANGED line, closed = "no" \/ UNCHANGED closed,
         Over' \/ (Reads' = Reads /\ ~Over), at' = "write" => at = "write" /\ got' = got
  PROVE  ReadInv'
<1>1. ASSUME NEW i PROVE Expected(i)' = Expected(i) /\ (Known(i)' <=> Known(i))
  BY SameExpected, SameKnown DEF reading, modeVars
<1>2. /\ Delimiting' = Delimiting /\ inStep' = inStep /\ (InStep' <=> InStep)
      /\ ~Over' => (Intact(Reads + 1)' <=> Intact(Reads + 1))
  <2>1. taken' = taken /\ inStep' = inStep /\ \A j \in 1 .. taken : line'[j] = line[j]
    BY DEF reading
  <2>2. InStep' <=> InStep
    BY <2>1, SameInStep
  <2>3. ~Over' => (Intact(Reads + 1)' <=> Intact(Reads + 1))
    BY <2>1 DEF Intact
  <2> QED BY <2>1, <2>2, <2>3 DEF Delimiting, modeVars
<1>3. Step'
  BY <1>2 DEF ReadInv, Step, reading
<1>4. Holding'
  <2>1. Known(cmd)' <=> Known(cmd)
    BY DEF Known, Intact, Delimiting, reading, modeVars
  <2>2. Expected(cmd)' = Expected(cmd)
    BY DEF Expected, Response, Delimiting, reading, modeVars
  <2> QED BY <2>1, <2>2 DEF ReadInv, Holding
<1>5. AsRead'
  BY <1>1, <1>2 DEF ReadInv, AsRead
<1> QED BY <1>3, <1>4, <1>5 DEF ReadInv

\* Nothing has been read or written yet.
LEMMA NothingRead ==
  ASSUME taken' = 0, ~begun', cmd' = 1, out' = <<>>,
         at' \in {"off", "elsewhere", "command"}
  PROVE  ReadInv'
<1>1. Reads' = 0
  BY DEF Reads
<1>2. Len(out') = 0
  OBVIOUS
<1>3. Step'
  BY <1>1 DEF Step, InStep, Intact
<1>4. Holding' /\ AsRead'
  BY <1>2 DEF Holding, AsRead
<1> QED BY <1>3, <1>4 DEF ReadInv

LEMMA ReadInvStep == StateInv /\ ReadInv /\ [Next]_vars => ReadInv'
<1> SUFFICES ASSUME StateInv, ReadInv, [Next]_vars PROVE ReadInv'
  OBVIOUS
<1>0. /\ line \in Seq(Msgs) /\ Len(line) \in Nat /\ taken \in 0 .. Len(line)
      /\ cmd \in 1 .. NCommands /\ cmd \in Nat
  <2>1. line \in Seq(Msgs)
    BY DEF StateInv, SystemTypeOK
  <2> QED BY <2>1, LenProperties DEF StateInv, SystemTypeOK
<1>1. CASE Options \/ Open \/ Call
  <2>1. at = "off"
    BY <1>1 DEF Options, Open, Call, Validate, ValidateSource, ValidateNetwork,
                ValidateSerial, ValidateMaster, ValidateCommands, OpenSource, Dispatch,
                StateInv, Begun
  <2>2. cmd = 1 /\ out = <<>> /\ taken = 0 /\ ~begun
    BY <2>1 DEF StateInv, Begun
  <2>3. taken' = taken /\ begun' = begun
    BY <1>1 DEF Options, Open, Call, reading
  <2>4. cmd' = cmd /\ out' = out
    BY <1>1 DEF Options, Open, Call, program
  <2>5. at' \in {"off", "elsewhere", "command"}
    BY <1>1, <2>1 DEF Options, Open, Call, program
  <2> QED BY <2>2, <2>3, <2>4, <2>5, NothingRead
<1>2. CASE DrawSeq
  <2>1. ~Over /\ Reads' = Reads
    BY <1>2 DEF DrawSeq, Over, Reads, program
  <2> QED BY <1>2, <2>1, SameReadInv DEF DrawSeq, program, inverter
<1>3. CASE SendStep
  <2>1. /\ UNCHANGED modeVars /\ UNCHANGED reading
        /\ UNCHANGED <<cmd, got, out, event, line, closed, noise, lost>>
    BY <1>3, SendAlone
  <2>2. at \in {"command", "grant"} /\ at' \in {"grant", "read", "clear"}
    BY <1>3, SendTypes, TypeParts DEF StateInv
  <2>3. ~Over /\ Reads' = Reads
    BY <2>1, <2>2 DEF Over, Reads
  <2> QED BY <2>1, <2>2, <2>3, SameReadInv
<1>4. CASE OtherStep
  <2>1. UNCHANGED modeVars /\ UNCHANGED reading /\ UNCHANGED inverter
    BY <1>4, OtherAlone
  <2>2. ASSUME NEW i PROVE Expected(i)' = Expected(i) /\ (Known(i)' <=> Known(i))
    BY <2>1, SameExpected, SameKnown DEF reading, inverter, modeVars
  <2>8. InStep' <=> InStep
    BY <2>1, SameInStep DEF reading, inverter
  <2>9. Reads' = Reads => (Intact(Reads + 1)' <=> Intact(Reads + 1))
    BY <2>1 DEF Intact, reading, inverter
  <2>3. CASE DrawFails \/ SendFails \/ ResponseFails
    <3>1. UNCHANGED <<cmd, out>> /\ at' = "failed"
      BY <2>3 DEF DrawFails, SendFails, ResponseFails
    <3> QED BY <2>1, <3>1, SameReadInv DEF inverter, Over
  <2>4. CASE ClearEvent \/ WaitEvent
    <3>1. /\ UNCHANGED <<cmd, out>> /\ at \in {"clear", "wait"} /\ at' \in {"wait", "read"}
      BY <2>4 DEF ClearEvent, WaitEvent
    <3>2. ~Over /\ Reads' = Reads
      BY <3>1 DEF Over, Reads
    <3> QED BY <2>1, <3>1, <3>2, SameReadInv DEF inverter
  <2>5. CASE TimerExpires
    <3>1. UNCHANGED <<at, cmd, got, out>>
      BY <2>5 DEF TimerExpires
    <3>2. Over' \/ (Reads' = Reads /\ ~Over)
      BY <3>1 DEF Over, Reads
    <3> QED BY <2>1, <3>1, <3>2, SameReadInv DEF inverter
  <2>6. CASE WriteResponse
    <3>1. at = "write" /\ at' = "sleep" /\ cmd' = cmd
      BY <2>6 DEF WriteResponse
    <3>4. Reads' = Reads /\ ~Over
      BY <3>1 DEF Reads, Over
    <3>2. Step'
      BY <2>1, <2>8, <2>9, <3>4 DEF ReadInv, Step, reading, inverter, modeVars, Delimiting
    <3>3. Holding'
      BY <3>1 DEF Holding
    <3> QED BY <2>6, <3>2, <3>3, WriteStep DEF ReadInv
  <2>7. CASE NextCommand
    <3>1. at = "sleep" /\ out' = out /\ (at' = "ended" \/ (at' = "command" /\ cmd' = cmd + 1))
      BY <2>7 DEF NextCommand
    <3>2. Over' \/ (Reads' = Reads /\ ~Over)
      BY <1>0, <3>1 DEF Over, Reads
    <3>3. Step'
      BY <2>1, <2>8, <2>9, <3>2 DEF ReadInv, Step, reading, inverter, modeVars, Delimiting
    <3>4. Holding'
      BY <3>1 DEF Holding
    <3>5. AsRead'
      BY <2>2, <3>1 DEF ReadInv, AsRead
    <3> QED BY <3>3, <3>4, <3>5 DEF ReadInv
  <2> QED BY <1>4, <2>3, <2>4, <2>5, <2>6, <2>7 DEF OtherStep
<1>5. CASE Read
  <2>1. /\ UNCHANGED modeVars /\ UNCHANGED <<cmd, out>>
        /\ at = "read" /\ at' \in {"write", "failed"} /\ UNCHANGED inverter
    BY <1>5, ReadAlone
  <2>2. inStep' = inStep /\ Delimiting' = Delimiting
    BY <1>5, <2>1, ReadTypes DEF Delimiting, modeVars
  <2>3. Len(out) = cmd - 1
    BY <2>1, TypeParts DEF StateInv, ProgramTypeOK
  <2>4. Holding'
    <3>1. at' = "write" /\ Known(cmd)' => got' = Expected(cmd)'
      BY <1>5, ReadOnce
    <3> QED BY <3>1 DEF Holding
  <2>5. AsRead'
    <3>1. CASE at' = "write"
      <4>1. \A i \in 1 .. cmd - 1 : Known(i)' => Known(i) /\ Expected(i)' = Expected(i)
        BY <1>5, <3>1, ReadOnce
      <4> QED BY <2>1, <2>3, <4>1 DEF ReadInv, AsRead
    <3>2. CASE at' = "failed"
      <4>1. ReadRaises
        BY <1>5, <3>2 DEF Read, Return, ReadFirst, ReadNext, ReadRest, ReadByLength,
                          ReadWrongLength, ReadOutOfStep, ReadEof, ReadTimesOut
      <4>2. ASSUME NEW i PROVE Expected(i)' = Expected(i) /\ (Known(i)' <=> Known(i))
        BY <2>1, <4>1, SameExpected, SameKnown DEF ReadRaises, reading, inverter, modeVars
      <4> QED BY <2>1, <2>2, <4>2 DEF ReadInv, AsRead
    <3> QED BY <2>1, <3>1, <3>2
  <2> QED BY <1>5, <2>4, <2>5, ReadStep DEF ReadInv
<1>6. CASE TalkStep
  <2>1. /\ UNCHANGED modeVars /\ UNCHANGED program /\ UNCHANGED reading /\ Connected
    BY <1>6, TalkAlone
  <2>2. Reads' = Reads /\ ~Over /\ closed = "no" /\ UNCHANGED <<at, got, cmd, out>>
    BY <2>1 DEF Connected, Over, Reads, program
  <2>3. CASE UNCHANGED line
    BY <2>1, <2>2, <2>3, SameReadInv
  <2>4. CASE \E m \in Msgs : line' = Append(line, m) /\ closed' = closed
    <3>1. PICK m \in Msgs : line' = Append(line, m) /\ closed' = closed
      BY <2>4
    <3>2. \A j \in 1 .. Len(line) : line'[j] = line[j]
      BY <1>0, <3>1, AppendProperties
    <3>3. \A j \in 1 .. taken : line'[j] = line[j]
      BY <1>0, <3>2
    <3>4. ASSUME NEW i PROVE Expected(i)' = Expected(i) /\ (Known(i)' <=> Known(i))
      BY <2>1, <3>3, SameExpected, SameKnown DEF reading, modeVars
    <3>7. (InStep' <=> InStep) /\ taken' = taken
      BY <2>1, <3>3, SameInStep DEF reading
    <3>8. Intact(Reads + 1)' <=> Intact(Reads + 1)
      BY <2>2, <3>3, <3>7 DEF Intact
    <3>5. Step'
      BY <2>1, <2>2, <3>1, <3>7, <3>8 DEF ReadInv, Step, reading, Over, modeVars, Delimiting
    <3>6. Holding' /\ AsRead'
      <4>1. (Known(cmd)' <=> Known(cmd)) /\ Expected(cmd)' = Expected(cmd)
        BY <2>1, <2>2, <3>3, <3>7 DEF Known, Intact, Expected, Response, Delimiting, reading,
                                      modeVars
      <4> QED BY <2>2, <3>4, <4>1 DEF ReadInv, Holding, AsRead
    <3> QED BY <3>5, <3>6 DEF ReadInv
  <2>5. UNCHANGED line \/ \E m \in Msgs : line' = Append(line, m) /\ closed' = closed
    <3>1. ASSUME Answer PROVE \E m \in Msgs : Talk(m)
      <4>1. Head(asked) \in Ids
        BY <3>1, HeadTailProperties DEF Answer, StateInv, SystemTypeOK
      <4>2. [kind |-> "answer", of |-> Head(asked)] \in Msgs
        BY <4>1 DEF Msgs
      <4> QED BY <3>1, <4>2 DEF Answer
    <3>2. ASSUME Interfere \/ Release PROVE \E m \in Msgs : Talk(m)
      <4>1. PICK kd \in Noise \cup {"release"} : Talk([kind |-> kd, of |-> Nobody])
        BY <3>2 DEF Interfere, Release
      <4>2. [kind |-> kd, of |-> Nobody] \in Msgs
        BY DEF Msgs
      <4> QED BY <4>1, <4>2
    <3>3. ASSUME Lose \/ Close PROVE UNCHANGED line
      BY <3>3 DEF Lose, Close
    <3> QED BY <1>6, <3>1, <3>2, <3>3 DEF TalkStep, Talk
  <2> QED BY <2>3, <2>4, <2>5
<1>7. CASE Kill
  BY <1>7, NothingRead DEF Kill
<1>8. CASE StartAgain
  <2>1. UNCHANGED <<at, got, cmd, out, line, closed>> /\ UNCHANGED reading /\ UNCHANGED modeVars
    BY <1>8 DEF StartAgain, program
  <2>2. at = "off"
    BY <1>8 DEF StartAgain, Restart, StateInv, Begun
  <2>3. Reads' = Reads /\ ~Over
    BY <2>1, <2>2 DEF Reads, Over
  <2> QED BY <2>1, <2>3, SameReadInv
<1>9. CASE UNCHANGED vars
  <2>1. UNCHANGED <<at, got, cmd, out, line, closed>> /\ UNCHANGED reading /\ UNCHANGED modeVars
    BY <1>9 DEF vars, program, inverter
  <2>2. Over' \/ (Reads' = Reads /\ ~Over)
    BY <2>1 DEF Reads, Over
  <2> QED BY <2>1, <2>2, SameReadInv
<1> QED BY <1>1, <1>2, <1>3, <1>4, <1>5, <1>6, <1>7, <1>8, <1>9, Steps

\* What -c writes is what came on the line, message by message, on RS485 with the
\* bytes before the first magic number as the first response, and read by the length up
\* to the first message that is longer or shorter than its header says: no late answer,
\* timeout, broken connection or kill makes it lose or repeat one
\* (semonitor.py:160-187, msg.py:34-58).
THEOREM ResponsesFollowTheLine == Spec => []OutputIsLine
<1>1. Init => ReadInv
  <2>1. Init => taken = 0 /\ ~begun /\ cmd = 1 /\ out = <<>> /\ at = "off" /\ Len(out) = 0
    BY DEF Init
  <2> QED BY <2>1 DEF ReadInv, Step, Holding, AsRead, Reads, InStep, Intact
<1>2. ReadInv => OutputIsLine
  BY DEF ReadInv, AsRead, Known, Expected, OutputIsLine
<1> QED BY <1>1, <1>2, StateInvHolds, ReadInvStep, PTL DEF Spec

-----------------------------------------------------------------------------
(* Whose response it is. *)

\* How many commands have been sent, at most, and what answers one of them.
Sent   == IF at \in {"off", "elsewhere", "command"} THEN cmd - 1 ELSE cmd
Own(m) == m.kind = "answer" /\ m.of[1] = restarts

\* The commands of this execution are asked and answered in their order, after they
\* were sent; the i-th message that is read comes before the next command.
InOrder ==
  /\ \A q \in 1 .. Len(asked) : asked[q][1] = restarts => asked[q][2] <= Sent
  /\ \A q, r \in 1 .. Len(asked) :
       q < r /\ asked[q][1] = restarts /\ asked[r][1] = restarts =>
         asked[q][2] < asked[r][2]
  /\ \A p \in 1 .. Len(line) : Own(line[p]) => line[p].of[2] <= Sent
  /\ \A p \in 1 .. Len(line), q \in 1 .. Len(asked) :
       Own(line[p]) /\ asked[q][1] = restarts => line[p].of[2] < asked[q][2]
  /\ \A p \in 1 .. Len(line) :
       (\A k \in 1 .. p : Own(line[k])) => line[p].of[2] >= p
  /\ ~Delimiting /\ InStep =>
       \A p \in 1 .. taken : Own(line[p]) => line[p].of[2] <= p

AskInv == /\ \A q \in 1 .. Len(asked) : asked[q][1] <= restarts
          /\ Alive => InOrder

LEMMA AskTypes ==
  ASSUME StateInv
  PROVE  /\ line \in Seq(Msgs) /\ asked \in Seq(Ids)
         /\ Len(line) \in Nat /\ Len(asked) \in Nat /\ restarts \in Nat
         /\ taken \in 0 .. Len(line)
         /\ cmd \in 1 .. NCommands /\ Sent \in Nat
         /\ \A q \in 1 .. Len(asked) : asked[q][1] \in Nat /\ asked[q][2] \in Nat \ {0}
         /\ \A p \in 1 .. Len(line) : Own(line[p]) => line[p].of[2] \in Nat \ {0}
<1>1. /\ line \in Seq(Msgs) /\ asked \in Seq(Ids) /\ restarts \in Nat
      /\ taken \in 0 .. Len(line) /\ cmd \in 1 .. NCommands
  BY DEF StateInv, SystemTypeOK
<1>2. Len(line) \in Nat /\ Len(asked) \in Nat
  BY <1>1, LenProperties
<1>3. Sent \in Nat
  BY <1>1 DEF Sent
<1>4. ASSUME NEW q \in 1 .. Len(asked) PROVE asked[q][1] \in Nat /\ asked[q][2] \in Nat \ {0}
  <2>1. asked[q] \in Ids
    BY <1>1, ElementOfSeq
  <2> QED BY <2>1 DEF Ids
<1>5. ASSUME NEW p \in 1 .. Len(line), Own(line[p]) PROVE line[p].of[2] \in Nat \ {0}
  <2>1. line[p] \in Msgs
    BY <1>1, ElementOfSeq
  <2>2. line[p].of \in Ids
    BY <1>5, <2>1 DEF Msgs, Own, Noise
  <2> QED BY <2>2 DEF Ids
<1> QED BY <1>1, <1>2, <1>3, <1>4, <1>5

\* Steps after which no less has been sent.
LEMMA SameAsk ==
  ASSUME StateInv, StateInv', AskInv, UNCHANGED <<asked, line, restarts>>, Alive' => Alive,
         Sent' >= Sent,
         taken' = 0 \/ (taken' = taken /\ inStep' = inStep /\ Delimiting' = Delimiting)
  PROVE  AskInv'
<1>1. Sent \in Nat
  BY AskTypes
<1>2. Sent' \in Nat
  <2>1. cmd' \in 1 .. NCommands
    BY DEF StateInv, SystemTypeOK
  <2>2. \A c \in 1 .. NCommands : c \in Nat /\ c - 1 \in Nat
    OBVIOUS
  <2>3. cmd' \in Nat /\ cmd' - 1 \in Nat
    BY <2>1, <2>2, Zenon
  <2> QED BY <2>3 DEF Sent
<1>3. \A q \in 1 .. Len(asked) : asked[q][2] \in Nat
  BY AskTypes
<1>4. \A p \in 1 .. Len(line) : Own(line[p]) => line[p].of[2] \in Nat
  BY AskTypes
<1>6. \/ taken' = 0
      \/ taken' = taken /\ Delimiting' = Delimiting /\ (InStep' <=> InStep)
  BY SameInStep
<1>5. Alive' => InOrder'
  BY <1>1, <1>2, <1>3, <1>4, <1>6 DEF AskInv, InOrder, Own
<1> QED BY <1>5 DEF AskInv

\* Something leaves the front of asked, or nothing does, and the line gets nothing that
\* answers a command of this execution, or nothing at all.
LEMMA FewerAsked ==
  ASSUME StateInv, AskInv, Alive,
         asked' = asked \/ (asked # <<>> /\ asked' = Tail(asked)),
         line' = line \/ \E m \in Msgs : m.kind # "answer" /\ line' = Append(line, m),
         UNCHANGED <<restarts, at, cmd, taken, inStep, args>>
  PROVE  AskInv'
<1>1. /\ line \in Seq(Msgs) /\ asked \in Seq(Ids) /\ Len(line) \in Nat
      /\ Len(asked) \in Nat /\ taken \in 0 .. Len(line)
  BY AskTypes
<1>2. PICK d \in {0, 1} :
        /\ Len(asked') = Len(asked) - d /\ Len(asked') \in Nat
        /\ \A q \in 1 .. Len(asked') : asked'[q] = asked[q + d]
  <2>1. CASE asked' = asked
    <3>1. \A q \in 1 .. Len(asked') : asked'[q] = asked[q + 0]
      BY <1>1, <2>1
    <3> QED BY <1>1, <2>1, <3>1
  <2>2. CASE asked # <<>> /\ asked' = Tail(asked)
    <3>1. /\ Len(asked') = Len(asked) - 1 /\ Len(asked') \in Nat
          /\ \A q \in 1 .. Len(asked') : asked'[q] = asked[q + 1]
      BY <1>1, <2>2, HeadTailProperties, LenProperties
    <3> QED BY <3>1
  <2> QED BY <2>1, <2>2
<1>3. \A q \in 1 .. Len(asked') : q + d \in 1 .. Len(asked)
  BY <1>1, <1>2
<1>4. /\ Len(line') \in Nat /\ Len(line') >= Len(line)
      /\ \A p \in 1 .. Len(line) : line'[p] = line[p]
      /\ \A p \in 1 .. Len(line') : line'[p].kind = "answer" => p \in 1 .. Len(line)
  <2>1. CASE line' = line
    BY <1>1, <2>1
  <2>2. ASSUME NEW m \in Msgs, m.kind # "answer", line' = Append(line, m)
        PROVE  /\ Len(line') \in Nat /\ Len(line') >= Len(line)
               /\ \A p \in 1 .. Len(line) : line'[p] = line[p]
               /\ \A p \in 1 .. Len(line') :
                    line'[p].kind = "answer" => p \in 1 .. Len(line)
    <3>1. /\ Len(line') = Len(line) + 1 /\ line'[Len(line) + 1] = m
          /\ \A p \in 1 .. Len(line) : line'[p] = line[p]
      BY <1>1, <2>2, AppendProperties
    <3> QED BY <1>1, <2>2, <3>1
  <2> QED BY <2>1, <2>2
<1>5. Sent' = Sent /\ Delimiting' = Delimiting
  BY DEF Sent, Delimiting
<1>6. \A p \in 1 .. Len(line') : Own(line[p])' =>
        p \in 1 .. Len(line) /\ Own(line[p]) /\ line'[p] = line[p]
  BY <1>4 DEF Own
<1>7. InOrder
  BY DEF AskInv
<1>8. \A q \in 1 .. Len(asked') : asked'[q][1] <= restarts'
  BY <1>2, <1>3 DEF AskInv
<1>9. \A q \in 1 .. Len(asked') : asked'[q][1] = restarts' => asked'[q][2] <= Sent'
  BY <1>2, <1>3, <1>5, <1>7 DEF InOrder
<1>10. ASSUME NEW q \in 1 .. Len(asked'), NEW r \in 1 .. Len(asked'),
              q < r, asked'[q][1] = restarts', asked'[r][1] = restarts'
       PROVE  asked'[q][2] < asked'[r][2]
  <2>1. q + d \in 1 .. Len(asked) /\ r + d \in 1 .. Len(asked) /\ q + d < r + d
    BY <1>1, <1>2, <1>3, <1>10
  <2> QED BY <1>2, <1>7, <1>10, <2>1 DEF InOrder
<1>11. \A p \in 1 .. Len(line') : Own(line[p])' => line'[p].of[2] <= Sent'
  BY <1>5, <1>6, <1>7 DEF InOrder
<1>12. ASSUME NEW p \in 1 .. Len(line'), NEW q \in 1 .. Len(asked'),
              Own(line[p])', asked'[q][1] = restarts'
       PROVE  line'[p].of[2] < asked'[q][2]
  <2>1. q + d \in 1 .. Len(asked) /\ asked'[q] = asked[q + d]
    BY <1>2, <1>3
  <2>2. p \in 1 .. Len(line) /\ Own(line[p]) /\ line'[p] = line[p]
    BY <1>6, <1>12
  <2> QED BY <1>7, <1>12, <2>1, <2>2 DEF InOrder
<1>13. ASSUME NEW p \in 1 .. Len(line'), \A k \in 1 .. p : Own(line[k])'
       PROVE  line'[p].of[2] >= p
  <2>1. p \in 1 .. Len(line) /\ line'[p] = line[p]
    BY <1>4, <1>6, <1>13
  <2>2. \A k \in 1 .. p : Own(line[k])
    <3>1. \A k \in 1 .. p : k \in 1 .. Len(line')
      BY <1>4
    <3> QED BY <1>6, <1>13, <3>1
  <2> QED BY <1>7, <2>1, <2>2 DEF InOrder
<1>14. ~Delimiting' /\ InStep' => \A p \in 1 .. taken' : Own(line[p])' => line'[p].of[2] <= p
  <2>1. \A p \in 1 .. taken : p \in 1 .. Len(line')
    BY <1>1, <1>4
  <2>2. \A p \in 1 .. taken : line'[p] = line[p]
    BY <1>1, <1>4
  <2>3. InStep' <=> InStep
    BY <2>2, SameInStep
  <2> QED BY <1>5, <1>6, <1>7, <2>1, <2>3 DEF InOrder
<1> QED BY <1>8, <1>9, <1>10, <1>11, <1>12, <1>13, <1>14 DEF AskInv, InOrder

\* A command is asked after all the others were sent.
LEMMA AskedLast ==
  ASSUME StateInv, AskInv, SendCommand, closed = "no"
  PROVE  AskInv'
<1> DEFINE x == <<restarts, cmd>>
<1>1. /\ line \in Seq(Msgs) /\ asked \in Seq(Ids) /\ Len(line) \in Nat
      /\ Len(asked) \in Nat /\ taken \in 0 .. Len(line) /\ cmd \in 1 .. NCommands
      /\ cmd \in Nat /\ restarts \in Nat
      /\ \A q \in 1 .. Len(asked) : asked[q][2] \in Nat
      /\ \A p \in 1 .. Len(line) : Own(line[p]) => line[p].of[2] \in Nat
  BY AskTypes
<1>2. restarts \in 0 .. MaxRestarts
  BY DEF StateInv, SystemTypeOK
<1>3. x \in Ids /\ x[1] = restarts /\ x[2] = cmd
  BY <1>1, <1>2 DEF Ids
<1>4. /\ asked' = Append(asked, x) /\ UNCHANGED <<line, restarts, cmd>> /\ UNCHANGED reading
      /\ at = "command" /\ at' \in {"grant", "read"} /\ UNCHANGED args
      /\ pc = "send" /\ Issue
  BY DEF SendCommand, modeVars, Issue
<1> HIDE DEF x
<1>5. /\ Len(asked') = Len(asked) + 1 /\ asked'[Len(asked) + 1] = x
      /\ \A q \in 1 .. Len(asked) : asked'[q] = asked[q]
  BY <1>1, <1>3, <1>4, AppendProperties
<1>6. Sent = cmd - 1 /\ Sent' = cmd /\ Delimiting' = Delimiting
  BY <1>4 DEF Sent, Delimiting
<1>7. InOrder
  BY <1>4 DEF AskInv, Alive
<1>8. \A q \in 1 .. Len(asked') : q \in 1 .. Len(asked) \/ q = Len(asked) + 1
  BY <1>1, <1>5
<1>9. ASSUME NEW p PROVE Own(line[p])' <=> Own(line[p])
  BY <1>4 DEF Own
<1>10. \A q \in 1 .. Len(asked') : asked'[q][1] <= restarts'
  BY <1>1, <1>3, <1>4, <1>5, <1>8 DEF AskInv
<1>11. \A q \in 1 .. Len(asked) : asked[q][1] = restarts => asked[q][2] < cmd
  BY <1>1, <1>6, <1>7 DEF InOrder
<1>12. \A p \in 1 .. Len(line) : Own(line[p]) => line[p].of[2] < cmd
  BY <1>1, <1>6, <1>7 DEF InOrder
<1>13. \A q \in 1 .. Len(asked') : asked'[q][1] = restarts' => asked'[q][2] <= Sent'
  BY <1>1, <1>3, <1>4, <1>5, <1>6, <1>8, <1>11
<1>14. ASSUME NEW q \in 1 .. Len(asked'), NEW r \in 1 .. Len(asked'),
              q < r, asked'[q][1] = restarts', asked'[r][1] = restarts'
       PROVE  asked'[q][2] < asked'[r][2]
  <2>1. q \in 1 .. Len(asked)
    BY <1>1, <1>5, <1>14
  <2>2. CASE r \in 1 .. Len(asked)
    BY <1>4, <1>5, <1>7, <1>14, <2>1, <2>2 DEF InOrder
  <2>3. CASE r = Len(asked) + 1
    BY <1>3, <1>4, <1>5, <1>11, <1>14, <2>1, <2>3
  <2> QED BY <1>8, <2>2, <2>3
<1>15. \A p \in 1 .. Len(line') : Own(line[p])' => line'[p].of[2] <= Sent'
  BY <1>1, <1>4, <1>6, <1>9, <1>12
<1>16. ASSUME NEW p \in 1 .. Len(line'), NEW q \in 1 .. Len(asked'),
              Own(line[p])', asked'[q][1] = restarts'
       PROVE  line'[p].of[2] < asked'[q][2]
  <2>1. p \in 1 .. Len(line) /\ Own(line[p]) /\ line'[p] = line[p]
    BY <1>4, <1>9, <1>16
  <2>2. CASE q \in 1 .. Len(asked)
    BY <1>4, <1>5, <1>7, <1>16, <2>1, <2>2 DEF InOrder
  <2>3. CASE q = Len(asked) + 1
    BY <1>3, <1>5, <1>12, <2>1, <2>3
  <2> QED BY <1>8, <2>2, <2>3
<1>17. ASSUME NEW p \in 1 .. Len(line'), \A k \in 1 .. p : Own(line[k])'
       PROVE  line'[p].of[2] >= p
  BY <1>4, <1>7, <1>9, <1>17 DEF InOrder
<1>18. ~Delimiting' /\ InStep' => \A p \in 1 .. taken' : Own(line[p])' => line'[p].of[2] <= p
  <2>1. InStep' <=> InStep
    BY <1>4, SameInStep DEF reading
  <2> QED BY <1>4, <1>6, <1>7, <1>9, <2>1 DEF InOrder, reading
<1> QED BY <1>10, <1>13, <1>14, <1>15, <1>16, <1>17, <1>18 DEF AskInv, InOrder

\* An answer comes after the answers to the commands before.
LEMMA AnsweredLast ==
  ASSUME StateInv, AskInv, Answer
  PROVE  AskInv'
<1> DEFINE h == Head(asked)
           m == [kind |-> "answer", of |-> h]
<1>1. /\ line \in Seq(Msgs) /\ asked \in Seq(Ids) /\ Len(line) \in Nat
      /\ Len(asked) \in Nat /\ taken \in 0 .. Len(line) /\ restarts \in Nat
      /\ \A q \in 1 .. Len(asked) : asked[q][1] \in Nat /\ asked[q][2] \in Nat \ {0}
      /\ \A p \in 1 .. Len(line) : Own(line[p]) => line[p].of[2] \in Nat
  BY AskTypes
<1>2. asked # <<>> /\ line' = Append(line, m) /\ asked' = Tail(asked)
  BY DEF Answer, Talk
<1>3. UNCHANGED <<restarts, at, cmd, taken, inStep, args, pc>> /\ Alive
  BY DEF Answer, Talk, Connected, modeVars, seqVars, program, reading
<1>4. /\ Len(asked) >= 1 /\ h = asked[1] /\ h \in Ids
      /\ Len(asked') = Len(asked) - 1
      /\ \A q \in 1 .. Len(asked') : asked'[q] = asked[q + 1] /\ q + 1 \in 2 .. Len(asked)
  BY <1>1, <1>2, HeadTailProperties, LenProperties
<1>5. m \in Msgs /\ m.kind = "answer" /\ m.of = h
  BY <1>4 DEF Msgs
<1> HIDE DEF h, m
<1>6. /\ Len(line') = Len(line) + 1 /\ line'[Len(line) + 1] = m
      /\ \A p \in 1 .. Len(line) : line'[p] = line[p]
  BY <1>1, <1>2, <1>5, AppendProperties
<1>7. \A p \in 1 .. Len(line') : p \in 1 .. Len(line) \/ p = Len(line) + 1
  BY <1>1, <1>6
<1>8. \A p \in 1 .. Len(line) : Own(line[p])' <=> Own(line[p])
  BY <1>3, <1>6 DEF Own
<1>9. ASSUME NEW p \in 1 .. Len(line'), p = Len(line) + 1
      PROVE  line'[p].of = h /\ (Own(line[p])' <=> h[1] = restarts)
  BY <1>3, <1>5, <1>6, <1>9 DEF Own
<1>10. InOrder /\ (Alive' => Alive) /\ Sent' = Sent /\ Delimiting' = Delimiting
  BY <1>3 DEF AskInv, Sent, Delimiting
<1>11. \A q \in 1 .. Len(asked') : asked'[q][1] <= restarts'
  BY <1>3, <1>4 DEF AskInv
<1>12. \A q \in 1 .. Len(asked') : asked'[q][1] = restarts' => asked'[q][2] <= Sent'
  BY <1>3, <1>4, <1>10 DEF InOrder
<1>13. ASSUME NEW q \in 1 .. Len(asked'), NEW r \in 1 .. Len(asked'),
              q < r, asked'[q][1] = restarts', asked'[r][1] = restarts'
       PROVE  asked'[q][2] < asked'[r][2]
  <2>1. q + 1 \in 1 .. Len(asked) /\ r + 1 \in 1 .. Len(asked) /\ q + 1 < r + 1
    BY <1>1, <1>4, <1>13
  <2> QED BY <1>3, <1>4, <1>10, <1>13, <2>1 DEF InOrder
<1>14. ASSUME NEW p \in 1 .. Len(line'), Own(line[p])'
       PROVE  line'[p].of[2] <= Sent'
  <2>1. CASE p \in 1 .. Len(line)
    BY <1>6, <1>8, <1>10, <1>14, <2>1 DEF InOrder
  <2>2. CASE p = Len(line) + 1
    <3>1. asked[1][1] = restarts /\ line'[p].of = asked[1] /\ 1 \in 1 .. Len(asked)
      BY <1>1, <1>4, <1>9, <1>14, <2>2
    <3> QED BY <1>10, <3>1 DEF InOrder
  <2> QED BY <1>7, <2>1, <2>2
<1>15. ASSUME NEW p \in 1 .. Len(line'), NEW q \in 1 .. Len(asked'),
              Own(line[p])', asked'[q][1] = restarts'
       PROVE  line'[p].of[2] < asked'[q][2]
  <2>1. q + 1 \in 2 .. Len(asked) /\ asked'[q] = asked[q + 1]
    BY <1>4
  <2>2. q + 1 \in 1 .. Len(asked) /\ 1 \in 1 .. Len(asked) /\ 1 < q + 1
    BY <1>1, <2>1
  <2>3. CASE p \in 1 .. Len(line)
    BY <1>3, <1>6, <1>8, <1>10, <1>15, <2>1, <2>2, <2>3 DEF InOrder
  <2>4. CASE p = Len(line) + 1
    <3>1. asked[1][1] = restarts /\ line'[p].of = asked[1]
      BY <1>4, <1>9, <1>15, <2>4
    <3> QED BY <1>3, <1>10, <1>15, <2>1, <2>2, <3>1 DEF InOrder
  <2> QED BY <1>7, <2>3, <2>4
<1>16. ASSUME NEW p \in 1 .. Len(line'), \A k \in 1 .. p : Own(line[k])'
       PROVE  line'[p].of[2] >= p
  <2>1. CASE p \in 1 .. Len(line)
    <3>1. \A k \in 1 .. p : k \in 1 .. Len(line)
      BY <1>1, <2>1
    <3>2. \A k \in 1 .. p : Own(line[k])
      BY <1>8, <1>16, <3>1
    <3> QED BY <1>6, <1>10, <2>1, <3>2 DEF InOrder
  <2>2. CASE p = Len(line) + 1
    <3>1. p \in 1 .. p
      BY <1>1, <2>2
    <3>2. asked[1][1] = restarts /\ line'[p].of = asked[1] /\ 1 \in 1 .. Len(asked)
          /\ asked[1][2] \in Nat \ {0}
      BY <1>1, <1>4, <1>9, <1>16, <2>2, <3>1
    <3>3. CASE Len(line) = 0
      BY <2>2, <3>2, <3>3
    <3>4. CASE Len(line) # 0
      <4> DEFINE l == Len(line)
      <4>1. l \in 1 .. l /\ l \in Nat
        BY <1>1, <3>4
      <4>2. \A k \in 1 .. l : k \in 1 .. p
        BY <1>1, <2>2
      <4>3. \A k \in 1 .. l : Own(line[k])
        BY <1>8, <1>16, <4>2
      <4>4. Own(line[l]) /\ line[l].of[2] \in Nat
        BY <1>1, <4>1, <4>3
      <4>5. line[l].of[2] >= l
        BY <1>10, <4>1, <4>3 DEF InOrder
      <4>6. line[l].of[2] < asked[1][2]
        BY <1>10, <3>2, <4>1, <4>4 DEF InOrder
      <4>7. asked[1][2] >= l + 1
        BY <3>2, <4>1, <4>4, <4>5, <4>6
      <4> QED BY <2>2, <3>2, <4>7
    <3> QED BY <3>3, <3>4
  <2> QED BY <1>7, <2>1, <2>2
<1>17. ~Delimiting' /\ InStep' => \A p \in 1 .. taken' : Own(line[p])' => line'[p].of[2] <= p
  <2>1. \A p \in 1 .. taken : p \in 1 .. Len(line)
    BY <1>1
  <2>2. \A p \in 1 .. taken : line'[p] = line[p]
    BY <1>6, <2>1
  <2>3. InStep' <=> InStep
    BY <1>3, <2>2, SameInStep
  <2> QED BY <1>3, <1>6, <1>8, <1>10, <2>1, <2>3 DEF InOrder
<1> QED BY <1>11, <1>12, <1>13, <1>14, <1>15, <1>16, <1>17 DEF AskInv, InOrder

\* What is read by the length was sent before the next command.
LEMMA ReadBeforeNext ==
  ASSUME StateInv, StateInv', ReadInv, AskInv, Read
  PROVE  AskInv'
<1>1. /\ UNCHANGED modeVars /\ UNCHANGED seqVars /\ UNCHANGED inverter
      /\ UNCHANGED <<cmd, restarts>> /\ at = "read" /\ at' \in {"write", "failed"} /\ Alive
  BY ReadAlone
<1>2. /\ line' = line /\ asked' = asked /\ restarts' = restarts /\ Sent = cmd /\ Sent' = cmd
      /\ Delimiting' = Delimiting /\ inStep' = inStep
  BY <1>1, ReadTypes DEF inverter, modeVars, Sent, Delimiting
<1>3. /\ cmd \in Nat /\ taken \in 0 .. Len(line) /\ Len(line) \in Nat /\ InOrder
      /\ \A p \in 1 .. Len(line) : Own(line[p]) => line[p].of[2] \in Nat
  BY <1>1, AskTypes DEF AskInv
<1>4. ASSUME ~Delimiting, InStep'
      PROVE  InStep /\ (taken' = taken \/ (taken' = taken + 1 /\ taken + 1 = cmd))
  <2>1. taken' \in 0 .. Len(line) /\ inStep
    BY <1>2, <1>4, ReadTypes DEF InStep
  <2>2. ~ReadFirst /\ ~ReadNext /\ ~ReadRest
    BY <1>4 DEF ReadFirst, ReadNext, ReadRest
  <2>3. \A k \in 1 .. taken' : line[k].kind # "wrongLength"
    <3>1. taken' \in Nat
      BY <1>3, <2>1
    <3>2. \A k \in 1 .. taken' : k < taken' + 1
      BY <3>1, UpTo, Zenon
    <3> QED BY <1>2, <1>4, <3>2 DEF InStep, Intact
  <2>4. taken' >= taken
    BY <1>3, <2>2 DEF Read, ReadByLength, ReadWrongLength, ReadOutOfStep, ReadEof, ReadRaises,
                      ReadTimesOut, reading
  <2>5. \A k \in 1 .. taken : k \in 1 .. taken'
    BY <1>3, <2>1, <2>4
  <2>6. InStep
    BY <2>1, <2>3, <2>5 DEF InStep, Intact
  <2>7. ~ReadOutOfStep
    BY <2>6 DEF ReadOutOfStep
  <2>8. ~ReadWrongLength
    <3>1. ASSUME ReadWrongLength PROVE FALSE
      <4>1. taken' \in taken + 1 .. Len(line) /\ line[taken + 1].kind = "wrongLength"
        BY <2>6, <3>1 DEF ReadWrongLength, Astray
      <4>2. taken + 1 \in 1 .. taken'
        BY <1>3, <4>1
      <4> QED BY <2>3, <4>1, <4>2
    <3> QED BY <3>1
  <2>9. CASE ReadByLength
    <3>1. taken' = taken + 1 /\ ~dead /\ taken < Len(line)
      BY <2>9 DEF ReadByLength
    <3>2. taken = cmd - 1
      BY <1>4, <2>6, <3>1, ReadInStep
    <3> QED BY <1>3, <2>6, <3>1, <3>2
  <2>10. CASE ReadEof \/ ReadRaises \/ ReadTimesOut
    BY <2>6, <2>10 DEF ReadEof, ReadRaises, ReadTimesOut, reading
  <2> QED BY <2>2, <2>7, <2>8, <2>9, <2>10 DEF Read
<1>5. ~Delimiting' /\ InStep' => \A p \in 1 .. taken' : Own(line[p])' => line'[p].of[2] <= p
  <2> SUFFICES ASSUME ~Delimiting, InStep', NEW p \in 1 .. taken', Own(line[p])
               PROVE  line[p].of[2] <= p
    BY <1>2 DEF Own
  <2>4. InStep
    BY <1>4
  <2>1. p \in 1 .. taken \/ (p = taken + 1 /\ p = cmd)
    BY <1>3, <1>4
  <2>2. taken' \in 0 .. Len(line)
    BY ReadTypes
  <2>3. p \in 1 .. Len(line)
    BY <1>3, <2>2
  <2> QED BY <1>2, <1>3, <2>1, <2>3, <2>4 DEF InOrder
<1>6. InOrder'
  BY <1>2, <1>3, <1>5 DEF InOrder, Own
<1> QED BY <1>2, <1>6 DEF AskInv

LEMMA AskInvStep == StateInv /\ StateInv' /\ ReadInv /\ AskInv /\ [Next]_vars => AskInv'
<1> SUFFICES ASSUME StateInv, StateInv', ReadInv, AskInv, [Next]_vars PROVE AskInv'
  OBVIOUS
<1>0. /\ Sent \in Nat /\ cmd \in Nat /\ Len(line) \in Nat /\ taken \in 0 .. Len(line)
      /\ asked \in Seq(Ids) /\ Len(asked) \in Nat /\ restarts \in Nat
  BY AskTypes
<1>1. CASE Options \/ Open \/ Call
  <2>1. at = "off" /\ at' \in {"off", "elsewhere", "command"}
    BY <1>1 DEF Options, Open, Call, Validate, ValidateSource, ValidateNetwork,
                ValidateSerial, ValidateMaster, ValidateCommands, OpenSource, Dispatch,
                StateInv, Begun, program
  <2>2. taken = 0 /\ taken' = taken
    BY <1>1, <2>1 DEF Options, Open, Call, reading, StateInv, Begun
  <2>3. cmd' = cmd /\ UNCHANGED <<asked, line, restarts>> /\ (Alive' => Alive)
    BY <1>1 DEF Options, Open, Call, program, inverter, Alive
  <2>4. Sent' >= Sent
    BY <1>0, <2>1, <2>3 DEF Sent
  <2> QED BY <2>2, <2>3, <2>4, SameAsk
<1>2. CASE DrawSeq
  <2>1. /\ UNCHANGED <<asked, line, restarts, taken, inStep, at, cmd>>
        /\ Delimiting' = Delimiting /\ pc # "stopped"
    BY <1>2 DEF DrawSeq, inverter, reading, program, modeVars, Delimiting, ReadSeq, Truncate,
                WriteSeq
  <2>2. Sent' >= Sent
    BY <1>0, <2>1 DEF Sent
  <2> QED BY <2>1, <2>2, SameAsk DEF Alive
<1>3. CASE SendStep
  <2>1. /\ UNCHANGED modeVars /\ UNCHANGED reading /\ UNCHANGED restarts
        /\ UNCHANGED <<cmd, line>> /\ Issue
    BY <1>3, SendAlone
  <2>2. CASE SendCommand /\ closed = "no"
    BY <2>2, AskedLast
  <2>3. CASE SendGrant \/ closed # "no"
    <3>1. asked' = asked /\ at \in {"command", "grant"} /\ at' \in {"grant", "read", "clear"}
      BY <1>3, <2>3, SendTypes, TypeParts DEF SendStep, SendCommand, SendGrant, StateInv
    <3>2. Sent' >= Sent
      BY <1>0, <2>1, <3>1 DEF Sent
    <3>3. Delimiting' = Delimiting /\ taken' = taken /\ inStep' = inStep /\ Alive
      BY <2>1 DEF Delimiting, modeVars, reading, Alive, Issue
    <3> QED BY <2>1, <3>1, <3>2, <3>3, SameAsk
  <2> QED BY <1>3, <2>2, <2>3 DEF SendStep
<1>4. CASE OtherStep
  <2>1. /\ UNCHANGED modeVars /\ UNCHANGED reading /\ UNCHANGED inverter /\ UNCHANGED restarts
        /\ ReadFails \/ UNCHANGED seqVars
    BY <1>4, OtherAlone
  <2>2. Sent' >= Sent
    BY <1>0, <1>4 DEF OtherStep, DrawFails, SendFails, ClearEvent, TimerExpires, WaitEvent,
                      WriteResponse, ResponseFails, NextCommand, Sent
  <2>3. Alive' => Alive
    BY <2>1 DEF ReadFails, seqVars, Alive
  <2>4. Delimiting' = Delimiting /\ UNCHANGED <<asked, line, taken, inStep>>
    BY <2>1 DEF Delimiting, modeVars, reading, inverter
  <2> QED BY <2>1, <2>2, <2>3, <2>4, SameAsk
<1>5. CASE Read
  BY <1>5, ReadBeforeNext
<1>6. CASE TalkStep
  <2>1. /\ UNCHANGED <<restarts, at, cmd, taken, inStep, args>> /\ Alive
        /\ Sent' = Sent /\ Delimiting' = Delimiting
    BY <1>6, TalkAlone DEF modeVars, program, reading, Connected, Sent, Delimiting
  <2>2. CASE Answer
    BY <2>2, AnsweredLast
  <2>3. CASE Interfere \/ Release
    <3>1. PICK kd \in Noise \cup {"release"} : line' = Append(line, [kind |-> kd, of |-> Nobody])
      BY <2>3 DEF Interfere, Release, Talk
    <3> DEFINE m == [kind |-> kd, of |-> Nobody]
    <3>2. m \in Msgs /\ m.kind # "answer"
      BY DEF Msgs, Noise
    <3>3. asked' = asked \/ (asked # <<>> /\ asked' = Tail(asked))
      BY <2>3 DEF Interfere, Release
    <3> HIDE DEF m
    <3>4. \E n \in Msgs : n.kind # "answer" /\ line' = Append(line, n)
      BY <3>1, <3>2 DEF m
    <3> QED BY <2>1, <3>3, <3>4, FewerAsked
  <2>4. CASE Lose \/ Close
    <3>1. line' = line /\ (asked' = asked \/ (asked # <<>> /\ asked' = Tail(asked)))
      BY <2>4 DEF Lose, Close
    <3> QED BY <2>1, <3>1, FewerAsked
  <2> QED BY <1>6, <2>2, <2>3, <2>4 DEF TalkStep
<1>7. CASE Kill
  <2>1. ~Alive' /\ restarts' = restarts
    BY <1>7 DEF Kill, Crash, Alive
  <2>2. asked' = asked \/ asked' = <<>>
    BY <1>7 DEF Kill
  <2>3. \A q \in 1 .. Len(asked') : asked'[q][1] <= restarts'
    BY <2>1, <2>2 DEF AskInv
  <2> QED BY <2>1, <2>3 DEF AskInv
<1>8. CASE StartAgain
  <2>1. at = "off" /\ line = <<>> /\ taken = 0
    BY <1>8 DEF StartAgain, Restart, StateInv, Begun
  <2>2. line' = line /\ taken' = taken /\ restarts' = restarts + 1
    BY <1>8 DEF StartAgain, reading
  <2>3. \A q \in 1 .. Len(asked') : asked'[q][1] <= restarts /\ asked'[q][1] \in Nat
    <3>1. PICK i \in 1 .. Len(asked) + 1 : asked' = SubSeq(asked, i, Len(asked))
      BY <1>8 DEF StartAgain
    <3>2. \A k \in i .. Len(asked) : k \in 1 .. Len(asked)
      BY <1>0
    <3>3. \A k \in i .. Len(asked) : asked[k] \in Ids
      BY <1>0, <3>2, ElementOfSeq
    <3>4. /\ Len(asked') = IF i <= Len(asked) THEN Len(asked) - i + 1 ELSE 0
          /\ \A q \in 1 .. Len(asked) - i + 1 : asked'[q] = asked[i + q - 1]
      BY <1>0, <3>1, <3>3, SubSeqProperties
    <3>5. \A q \in 1 .. Len(asked') :
            q \in 1 .. Len(asked) - i + 1 /\ i + q - 1 \in i .. Len(asked)
      BY <1>0, <3>4
    <3>6. \A k \in 1 .. Len(asked) : asked[k][1] <= restarts /\ asked[k][1] \in Nat
      BY AskTypes DEF AskInv
    <3> QED BY <3>2, <3>4, <3>5, <3>6
  <2>4. \A q \in 1 .. Len(asked') : asked'[q][1] # restarts' /\ asked'[q][1] <= restarts'
    BY <1>0, <2>2, <2>3
  <2>5. Len(line') = 0
    BY <2>1, <2>2
  <2>6. InOrder'
    BY <2>1, <2>2, <2>4, <2>5 DEF InOrder
  <2> QED BY <2>4, <2>6 DEF AskInv
<1>9. CASE UNCHANGED vars
  <2>1. /\ UNCHANGED <<asked, line, restarts, taken, inStep, at, cmd, pc, args>>
    BY <1>9 DEF vars, inverter, reading, program, modeVars, seqVars
  <2>2. Sent' >= Sent /\ (Alive' => Alive) /\ Delimiting' = Delimiting
    BY <1>0, <2>1 DEF Sent, Alive, Delimiting
  <2> QED BY <2>1, <2>2, SameAsk
<1> QED BY <1>1, <1>2, <1>3, <1>4, <1>5, <1>6, <1>7, <1>8, <1>9, Steps

\* Reading by the length, no response belongs to another command, whatever is lost or
\* late, as long as the inverter sends only answers to what it was asked: the number
\* that nothing compares is not needed for it (semonitor.py:165-187).
THEOREM ResponseIsOfItsCommand == Spec => []ResponseOfCommand
<1>1. Init => AskInv /\ ReadInv
  <2>1. Init => /\ taken = 0 /\ ~begun /\ cmd = 1 /\ out = <<>> /\ at = "off" /\ Len(out) = 0
                /\ Len(line) = 0 /\ Len(asked) = 0
    BY DEF Init
  <2> QED BY <2>1 DEF ReadInv, Step, Holding, AsRead, Reads, AskInv, InOrder, InStep, Intact
<1>2. StateInv /\ ReadInv /\ AskInv => ResponseOfCommand
  <2> SUFFICES ASSUME StateInv, ReadInv, AskInv, OnlyAnswers, ~Delimiting, inStep,
                      NEW i \in 1 .. Len(out)
               PROVE  out[i].response \in {Nothing, Answers(restarts, i)}
    BY DEF ResponseOfCommand
  <2>4. \A k \in 1 .. taken : line[k].kind = "answer"
    <3>1. \A k \in 1 .. taken : k \in 1 .. Len(line)
      BY AskTypes
    <3> QED BY <3>1 DEF OnlyAnswers
  <2>5. InStep /\ Known(i)
    BY <2>4 DEF InStep, Known, Intact
  <2>1. out[i].response = Expected(i)
    <3>1. out[i] = [command |-> i, response |-> Expected(i)]
      BY <2>5 DEF ReadInv, AsRead
    <3> QED BY <3>1
  <2>2. CASE i \notin 1 .. taken
    BY <2>1, <2>2 DEF Expected
  <2>3. CASE i \in 1 .. taken
    <3>1. /\ line \in Seq(Msgs) /\ Len(line) \in Nat /\ taken \in 0 .. Len(line)
          /\ i \in 1 .. Len(line) /\ i \in Nat
      BY <2>3, AskTypes
    <3>2. out[i].response = Response(line[i])
      BY <2>1, <2>3 DEF Expected
    <3>3. \A k \in 1 .. i : k \in 1 .. Len(line)
      BY <3>1
    <3>4. \A k \in 1 .. i : Own(line[k])
      BY <3>3 DEF OnlyAnswers, Own
    <3>5. Alive
      <4>1. pc = "stopped" => taken = 0
        BY DEF StateInv, Begun
      <4> QED BY <2>3, <4>1 DEF Alive
    <3>6. InOrder
      BY <3>5 DEF AskInv
    <3>7. line[i].of[2] >= i
      BY <3>1, <3>4, <3>6 DEF InOrder
    <3>8. line[i].of[2] <= i
      BY <2>3, <2>5, <3>1, <3>4, <3>6 DEF InOrder
    <3>9. Own(line[i]) /\ line[i] \in Msgs /\ line[i].of[2] \in Nat
      <4>1. Own(line[i])
        BY <3>1, <3>4
      <4> QED BY <3>1, <4>1, AskTypes, ElementOfSeq
    <3>10. line[i].of[2] = i /\ line[i].of[1] = restarts
      BY <3>1, <3>7, <3>8, <3>9 DEF Own
    <3>11. line[i] = [kind |-> "answer", of |-> <<restarts, i>>]
      BY <3>9, <3>10 DEF Own, Msgs, Ids, Noise
    <3> QED BY <3>2, <3>11 DEF Response, Answers
  <2> QED BY <2>2, <2>3
<1>3. Spec => []ReadInv
  BY <1>1, StateInvHolds, ReadInvStep, PTL DEF Spec
<1>4. Spec => []AskInv
  BY <1>1, <1>3, StateInvHolds, AskInvStep, PTL DEF Spec
<1> QED BY <1>2, <1>3, <1>4, StateInvHolds, PTL
=============================================================================
