---------------------------- MODULE RS485Master ----------------------------
(***************************************************************************)
(* semonitor.py as the master of an RS485 bus (-m -t 4): the master        *)
(* thread (masterCommands, masterGrant), the timer thread of each grant    *)
(* (threading.Timer), the read thread (readData, processMsg), the lock and *)
(* the event they share, and, from how the code uses them, the serial      *)
(* device and the slaves.                                                  *)
(*                                                                         *)
(* The receive side is a sequence rx of frames.  readMsg collects bytes    *)
(* until it has seen the magic number of the NEXT frame, so the frame      *)
(* rx[1] is returned only when rx has a second one: the last frame on the  *)
(* wire is held back, however complete it is.                              *)
(***************************************************************************)
EXTENDS SeMsg, Sequences

CONSTANTS
  N,            \* the slaves are 1..N, in the order of the -s option
  SlaveKinds,   \* what a slave sends besides its release
  MaxRx,        \* capacity of the serial receive buffer, in frames
  MaxLate,      \* bound on the timers running their callback after cancel()
  Lossy,        \* the bus loses and corrupts frames
  Echo,         \* the adapter echoes what it transmits
  SlowMaster,   \* the scheduler may suspend the master for a timeout's length
  XError,       \* the -x option: halt on a data exception
  CanFail       \* the serial device can fail

ASSUME NAssumption == N \in Nat \ {0}
ASSUME SlaveKindsAssumption == SlaveKinds \subseteq Kinds \ {"grantAck"}
ASSUME BoundAssumption == MaxRx \in Nat \ {0, 1} /\ MaxLate \in Nat \ {0}
ASSUME SwitchAssumption == /\ Lossy \in BOOLEAN
                           /\ Echo \in BOOLEAN
                           /\ SlowMaster \in BOOLEAN
                           /\ XError \in BOOLEAN
                           /\ CanFail \in BOOLEAN

VARIABLES
  mPc,          \* where the master thread is
  cur,          \* the slave whose turn it is
  lock,         \* threadLock
  masterEvent,  \* masterEvent.is_set()
  setBy,        \* who set it last: a slave's release, or 0 for a timer
  timer,        \* the timer of the current grant
  late,         \* timers cancelled after they had decided to fire
  timedOut,     \* history: a timer has fired
  rx,           \* frames on the receive side, rx[1] being accumulated
  rPc,          \* where the read thread is
  rMsg,         \* the message it works on
  rEof,         \* it has met the end of the file
  device,       \* the serial device
  holders,      \* the slaves that hold the grant and may transmit
  seqFile       \* the sequence file

mvars == <<mPc, cur>>
evars == <<masterEvent, setBy>>
tvars == <<timer, late, timedOut>>
rvars == <<rPc, rMsg, rEof>>
vars  == <<mPc, cur, lock, masterEvent, setBy, timer, late, timedOut, rx,
           rPc, rMsg, rEof, device, holders, seqFile>>

Slaves  == 1 .. N
Frame   == [from : 0 .. N, kind : Kinds]   \* from = 0: no slave sent it
Garbage == [from |-> 0, kind |-> "bad"]
EchoOf  == [from |-> 0, kind |-> "other"]

TypeOK ==
  /\ mPc \in {"next", "send", "arm", "clear", "wait", "cancel", "sleep", "dead"}
  /\ cur \in Slaves
  /\ lock \in {"free", "master", "reader"}
  /\ masterEvent \in BOOLEAN
  /\ setBy \in 0 .. N
  /\ timer \in {"none", "armed", "expired"}
  /\ late \in 0 .. MaxLate
  /\ timedOut \in BOOLEAN
  /\ rx \in Seq(Frame)
  /\ Len(rx) <= MaxRx
  /\ rPc \in {"read", "lock", "process", "release", "abort",
            "done"}
  /\ rMsg \in Frame
  /\ rEof \in BOOLEAN
  /\ device \in {"up", "down"}
  /\ holders \subseteq Slaves
  /\ seqFile \in SeqFiles

Init ==
  /\ mPc = "next"
  /\ cur = 1
  /\ lock = "free"
  /\ masterEvent = FALSE
  /\ setBy = 0
  /\ timer = "none"
  /\ late = 0
  /\ timedOut = FALSE
  /\ \E k \in {"bad", "zeros"} : rx = <<[from |-> 0, kind |-> k]>>
                               \* what precedes the first magic number, if anything
  /\ rPc = "read"
  /\ rMsg = Garbage
  /\ rEof = FALSE
  /\ device = "up"
  /\ holders = {}
  /\ seqFile \in {Torn, Absent, MaxSeq}

\* What the receive side may be once f has been transmitted: f starts with a
\* magic number, may be damaged or lost, and is lost when the buffer is full.
Arrive(f) ==
  IF device = "down" \/ Len(rx) >= MaxRx THEN {rx}
  ELSE {Append(rx, f)} \cup
       (IF Lossy THEN {rx, Append(rx, [f EXCEPT !.kind = "bad"])} ELSE {})

\* The same for what the program itself has transmitted.
Echoed == IF Echo THEN Arrive(EchoOf) ELSE {rx}

-----------------------------------------------------------------------------
(* The master thread. *)

\* with threadLock: at the top of masterGrant
AcquireForGrant ==
  /\ mPc = "next"
  /\ lock = "free"
  /\ lock' = "master"
  /\ mPc' = "send"
  /\ UNCHANGED <<cur, evars, tvars, rx, rvars, device, holders, seqFile>>

\* nextSeq and sendMsg, and the lock released.
SendGrant ==
  /\ mPc = "send"
  /\ seqFile # Torn
  /\ device = "up"
  /\ seqFile' = NextSeq(seqFile)
  /\ holders' \in {holders \cup {cur}} \cup (IF Lossy THEN {holders} ELSE {})
  /\ rx' \in Echoed
  /\ lock' = "free"
  /\ mPc' = "arm"
  /\ UNCHANGED <<cur, evars, tvars, rvars, device>>

\* Mutant of GrantFails: the lock is not given back when the send raises.
GrantFailsKeepsLock ==
  /\ mPc = "send"
  /\ seqFile = Torn \/ device = "down"
  /\ seqFile' = IF seqFile = Torn THEN Torn ELSE NextSeq(seqFile)
  /\ mPc' = "dead"
  /\ UNCHANGED <<cur, lock, evars, tvars, rx, rvars, device, holders>>

\* nextSeq or sendMsg raises: nothing catches it, and the thread ends.  The
\* number is already drawn when the write fails.
GrantFails ==
  /\ mPc = "send"
  /\ seqFile = Torn \/ device = "down"
  /\ seqFile' = IF seqFile = Torn THEN Torn ELSE NextSeq(seqFile)
  /\ lock' = "free"
  /\ mPc' = "dead"
  /\ UNCHANGED <<cur, evars, tvars, rx, rvars, device, holders>>

\* Mutant of ArmTimer: the timer is created and never started.
ArmTimerNoStart ==
  /\ mPc = "arm"
  /\ mPc' = "clear"
  /\ UNCHANGED <<cur, lock, evars, tvars, rx, rvars, device, holders, seqFile>>

\* threading.Timer(...).start()
ArmTimer ==
  /\ mPc = "arm"
  /\ timer' = "armed"
  /\ mPc' = "clear"
  /\ UNCHANGED <<cur, lock, evars, late, timedOut, rx, rvars, device, holders,
                 seqFile>>

\* masterEvent.clear()
ClearEvent ==
  /\ mPc = "clear"
  /\ masterEvent' = FALSE
  /\ setBy' = 0
  /\ mPc' = "wait"
  /\ UNCHANGED <<cur, lock, tvars, rx, rvars, device, holders, seqFile>>

\* Mutant of WaitEvent: the master does not wait.
WaitEventAtOnce ==
  /\ mPc = "wait"
  /\ mPc' = "cancel"
  /\ UNCHANGED <<cur, lock, evars, tvars, rx, rvars, device, holders, seqFile>>

\* masterEvent.wait() returns
WaitEvent ==
  /\ mPc = "wait"
  /\ masterEvent
  /\ mPc' = "cancel"
  /\ UNCHANGED <<cur, lock, evars, tvars, rx, rvars, device, holders, seqFile>>

\* masterTimer.cancel() stops a timer only if it has not yet decided to fire;
\* then the for loop of masterCommands goes on, or sleeps after the last slave.
CancelTimer ==
  /\ mPc = "cancel"
  /\ timer = "expired" => late < MaxLate
  /\ late' = IF timer = "expired" THEN late + 1 ELSE late
  /\ timer' = "none"
  /\ IF cur = N THEN mPc' = "sleep" /\ UNCHANGED cur
                ELSE mPc' = "next" /\ cur' = cur + 1
  /\ UNCHANGED <<lock, evars, timedOut, rx, rvars, device, holders, seqFile>>

\* Mutant of Sleep: the next round begins where the last one ended.
SleepSameSlave ==
  /\ mPc = "sleep"
  /\ mPc' = "next"
  /\ UNCHANGED <<cur, lock, evars, tvars, rx, rvars, device, holders, seqFile>>

\* time.sleep(MASTER_MSG_INTERVAL), and the next round
Sleep ==
  /\ mPc = "sleep"
  /\ cur' = 1
  /\ mPc' = "next"
  /\ UNCHANGED <<lock, evars, tvars, rx, rvars, device, holders, seqFile>>

Master == \/ AcquireForGrant \/ SendGrant \/ GrantFails \/ ArmTimer
          \/ ClearEvent \/ WaitEvent \/ CancelTimer \/ Sleep

-----------------------------------------------------------------------------
(* The timer thread: threading.Timer waits, looks at its cancelled flag, and
   only then calls masterTimerExpire. *)

\* The interval is over and the timer was not cancelled.
TimerExpire ==
  /\ timer = "armed"
  /\ mPc \in {"wait", "cancel"} \/ SlowMaster
  /\ timer' = "expired"
  /\ timedOut' = TRUE
  /\ UNCHANGED <<mvars, lock, evars, late, rx, rvars, device, holders, seqFile>>

\* Mutant of TimerSet: the callback does not set the event.
TimerSetNothing ==
  /\ timer = "expired"
  /\ timer' = "none"
  /\ UNCHANGED <<mvars, lock, evars, late, timedOut, rx, rvars, device, holders,
                 seqFile>>

\* masterTimerExpire
TimerSet ==
  /\ timer = "expired"
  /\ masterEvent' = TRUE
  /\ setBy' = 0
  /\ timer' = "none"
  /\ UNCHANGED <<mvars, lock, late, timedOut, rx, rvars, device, holders, seqFile>>

\* masterTimerExpire, after the cancel that came too late to stop it
LateTimerSet ==
  /\ late > 0
  /\ masterEvent' = TRUE
  /\ setBy' = 0
  /\ late' = late - 1
  /\ UNCHANGED <<mvars, lock, timer, timedOut, rx, rvars, device, holders, seqFile>>

Timer == TimerExpire \/ TimerSet \/ LateTimerSet

-----------------------------------------------------------------------------
(* The read thread. *)

\* readMsg returns rx[1] once it has seen the magic number of rx[2]; readData
\* ignores a message without anything but zero bytes.
ReadMsg ==
  /\ rPc = "read"
  /\ device = "up"
  /\ Len(rx) >= 2
  /\ rx' = Tail(rx)
  /\ IF Head(rx).kind = "zeros"
     THEN UNCHANGED <<rPc, rMsg>>
     ELSE rPc' = "lock" /\ rMsg' = Head(rx)
  /\ UNCHANGED <<mvars, lock, evars, tvars, rEof, device, holders, seqFile>>

\* The read raises, readBytes makes that an end of file, and readMsg returns
\* what it has of the frame it was accumulating.
ReadEof ==
  /\ rPc = "read"
  /\ device = "down"
  /\ rx' = <<>>
  /\ rEof' = TRUE
  /\ \E f \in {Garbage} \cup (IF rx = <<>> THEN {} ELSE {Head(rx)}) :
       IF f.kind = "zeros" THEN rPc' = "done" /\ UNCHANGED rMsg
                           ELSE rPc' = "lock" /\ rMsg' = f
  /\ UNCHANGED <<mvars, lock, evars, tvars, device, holders, seqFile>>

\* with threadLock: in readData
AcquireForMsg ==
  /\ rPc = "lock"
  /\ lock = "free"
  /\ lock' = "reader"
  /\ rPc' = "process"
  /\ UNCHANGED <<mvars, evars, tvars, rx, rMsg, rEof, device, holders, seqFile>>

\* Does processMsg raise?  So it does when the reply cannot be written.
ProcessRaises == \/ rMsg.kind \in Raising
                 \/ ReplyTo(rMsg.kind) # "none" /\ device = "down"

\* Mutant of ProcessMsg: every answered message also sets the event.
ProcessMsgSetsAlways ==
  /\ rPc = "process"
  /\ masterEvent' = (masterEvent \/ rMsg.kind \in {"grantAck", "post"})
  /\ setBy' = IF rMsg.kind = "grantAck" THEN rMsg.from ELSE setBy
  /\ rx' \in IF ReplyTo(rMsg.kind) # "none" /\ device = "up" THEN Echoed ELSE {rx}
  /\ rPc' = IF XError /\ ProcessRaises THEN "abort" ELSE "release"
  /\ UNCHANGED <<mvars, lock, tvars, rMsg, rEof, device, holders, seqFile>>

\* processMsg, in master mode: a release sets the event, the other messages
\* are answered.
ProcessMsg ==
  /\ rPc = "process"
  /\ masterEvent' = (masterEvent \/ rMsg.kind = "grantAck")
  /\ setBy' = IF rMsg.kind = "grantAck" THEN rMsg.from ELSE setBy
  /\ rx' \in IF ReplyTo(rMsg.kind) # "none" /\ device = "up" THEN Echoed ELSE {rx}
  /\ rPc' = IF XError /\ ProcessRaises THEN "abort" ELSE "release"
  /\ UNCHANGED <<mvars, lock, tvars, rMsg, rEof, device, holders, seqFile>>

\* Mutant of ReleaseAfterMsg: an exception leaves the lock taken.
ReleaseUnlessAborted ==
  /\ rPc \in {"release", "abort"}
  /\ lock' = IF rPc = "abort" THEN lock ELSE "free"
  /\ rPc' = IF rEof \/ rPc = "abort" THEN "done" ELSE "read"
  /\ rMsg' = Garbage
  /\ UNCHANGED <<mvars, evars, tvars, rx, rEof, device, holders, seqFile>>

\* The lock is released; the loop ends at the end of the file, and an
\* exception ends the thread under -x.
ReleaseAfterMsg ==
  /\ rPc \in {"release", "abort"}
  /\ lock' = "free"
  /\ rPc' = IF rEof \/ rPc = "abort" THEN "done" ELSE "read"
  /\ rMsg' = Garbage            \* msg is not used again
  /\ UNCHANGED <<mvars, evars, tvars, rx, rEof, device, holders, seqFile>>

Reader == ReadMsg \/ ReadEof \/ AcquireForMsg \/ ProcessMsg \/ ReleaseAfterMsg

-----------------------------------------------------------------------------
(* The slaves, the bus and the device. *)

\* A slave that holds the grant sends a message.
SlaveSend(s) ==
  /\ s \in holders
  /\ \E k \in SlaveKinds : rx' \in Arrive([from |-> s, kind |-> k])
  /\ UNCHANGED <<mvars, lock, evars, tvars, rvars, device, holders, seqFile>>

\* It gives the bus back, and says so with MASTER_GRANT_ACK.
SlaveRelease(s) ==
  /\ s \in holders
  /\ holders' = holders \ {s}
  /\ rx' \in Arrive([from |-> s, kind |-> "grantAck"])
  /\ UNCHANGED <<mvars, lock, evars, tvars, rvars, device, seqFile>>

\* Noise that looks like the start of a message.
Noise ==
  /\ Lossy
  /\ rx' \in Arrive(Garbage)
  /\ UNCHANGED <<mvars, lock, evars, tvars, rvars, device, holders, seqFile>>

DeviceFail ==
  /\ CanFail
  /\ device = "up"
  /\ device' = "down"
  /\ UNCHANGED <<mvars, lock, evars, tvars, rx, rvars, holders, seqFile>>

Bus == (\E s \in Slaves : SlaveSend(s) \/ SlaveRelease(s)) \/ Noise \/ DeviceFail

\* The main thread waits in block() for a keyboard interrupt even when the
\* master thread has died and the read thread has ended or waits for a byte.
Blocked == mPc = "dead" /\ rPc \in {"read", "done"} /\ UNCHANGED vars

Next == Master \/ Timer \/ Reader \/ Bus \/ Blocked

Spec == Init /\ [][Next]_vars

\* The scheduler runs every thread, and the lock is held only for a few
\* statements at a time, so that a thread that keeps asking for it gets it.
\* The slaves and the device owe nothing.
Fairness ==
  /\ SF_vars(AcquireForGrant) /\ WF_vars(SendGrant) /\ WF_vars(GrantFails)
  /\ WF_vars(ArmTimer) /\ WF_vars(ClearEvent) /\ WF_vars(WaitEvent)
  /\ WF_vars(CancelTimer) /\ WF_vars(Sleep)
  /\ WF_vars(TimerExpire) /\ WF_vars(TimerSet) /\ WF_vars(LateTimerSet)
  /\ WF_vars(ReadMsg) /\ WF_vars(ReadEof) /\ SF_vars(AcquireForMsg)
  /\ WF_vars(ProcessMsg) /\ WF_vars(ReleaseAfterMsg)

FairSpec == Spec /\ Fairness

-----------------------------------------------------------------------------
(* Safety. *)

\* Until a wait has timed out, at most one slave has the bus: the master gives
\* it to the next only when the last has released it (semonitor.py:131-158).
BusExclusion == ~timedOut => \A s, t \in holders : s = t

\* Until a wait has timed out, the read thread transmits a reply only while
\* nobody but the slave it answers may transmit, although it is one frame
\* behind the bus and shares no state with the grants (semonitor.py:93-113).
ReplyWhileOthersSilent ==
  (~timedOut /\ rPc = "process" /\ ReplyTo(rMsg.kind) # "none")
    => holders \subseteq {rMsg.from}

\* The master never waits for an event that no timer is going to set
\* (semonitor.py:147 "start a timeout to release the bus if the slave doesn't
\* respond").
WaitIsBounded == (mPc = "wait" /\ ~masterEvent) => timer \in {"armed", "expired"}

\* The read thread ends only with the device or under -x: "If an error occurs
\* while processing data, the program will log a message and continue unless
\* the -x option is specified" (README.md:255-257).
ReaderContinues == rPc = "done" => device = "down" \/ XError

\* The slave the bus was last offered to.
LastOffered == IF mPc \in {"next", "send", "dead"}
               THEN IF cur = 1 THEN N ELSE cur - 1
               ELSE cur

Arbiter == INSTANCE BusArbiter WITH last <- LastOffered

\* The threads, the event and the timers together offer the bus in turn, and
\* only when it is free or after a timeout.
ImplementsArbiter == Arbiter!ASpec

-----------------------------------------------------------------------------
(* Why it is so: the invariant that the steps keep. *)

\* A received message the read thread has not processed yet.
Pending == rPc \in {"lock", "process"}

\* The bus is back with the master, or was never given.
BusBack == \/ mPc \in {"next", "send", "cancel", "sleep", "dead"}
           \/ mPc = "wait" /\ masterEvent

\* Where the threads may be together.
ThreadInv ==
  /\ lock = "master" <=> mPc = "send"
  /\ lock = "reader" <=> rPc \in {"process", "release", "abort"}
  /\ mPc = "sleep" => cur = N
  /\ timer # "none" => mPc \in {"clear", "wait", "cancel"}
  /\ (mPc = "clear" /\ ~SlowMaster) => timer = "armed"
  /\ (timer = "expired" \/ late > 0) => timedOut
  /\ rEof => device = "down"
  /\ rPc = "abort" => XError

\* What does not come from a slave is neither a release nor answered.
FrameOK(f) == f.from = 0 => f.kind \in {"bad", "other", "zeros"}

\* While the master has the bus, nothing a slave sent is still on its way.
BackInv ==
  /\ holders = {}
  /\ \A i \in DOMAIN rx : rx[i].from = 0
  /\ Pending => rMsg.from = 0

\* While a slave has it, only that slave's messages are, and a release is the
\* last of them.
RoundInv ==
  /\ holders \subseteq {cur}
  /\ \A i \in DOMAIN rx : rx[i].from \in {0, cur}
  /\ Pending => rMsg.from \in {0, cur}
  /\ \A i \in DOMAIN rx : rx[i].kind = "grantAck" =>
        holders = {} /\ \A j \in DOMAIN rx : j > i => rx[j].from = 0
  /\ (Pending /\ rMsg.kind = "grantAck") =>
        holders = {} /\ \A i \in DOMAIN rx : rx[i].from = 0

BusInv ==
  /\ \A i \in DOMAIN rx : FrameOK(rx[i])
  /\ FrameOK(rMsg)
  /\ ~timedOut => IF BusBack THEN BackInv ELSE RoundInv

\* The inductive invariant: the bus belongs to the slave whose turn it is from
\* the grant (semonitor.py:136) until its release, the last of its messages,
\* is processed (semonitor.py:109).
IndInv == TypeOK /\ ThreadInv /\ BusInv

-----------------------------------------------------------------------------
(* What the comments say, and the code does not do. *)

\* When a release, not a timer, ends a wait, it is the release of the slave
\* that was granted the bus (semonitor.py:151 "wait for slave to release the
\* bus").
SlaveReleasedBus == [][(WaitEvent /\ setBy # 0) => setBy = cur]_vars

-----------------------------------------------------------------------------
(* Liveness. *)

\* Every slave is offered the bus again and again, whatever the slaves and the
\* bus do, unless the master thread has died (semonitor.py:125-128).
EverySlavePolled == \/ <>(mPc = "dead")
                    \/ \A s \in Slaves : []<>(mPc = "wait" /\ cur = s)

\* A thread that takes threadLock gives it back, on every path.
LockIsReturned == (lock # "free") ~> (lock = "free")
=============================================================================
