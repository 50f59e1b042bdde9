------------------------- MODULE RS485MasterProofs -------------------------
(***************************************************************************)
(* Theorems about RS485Master, for every number of slaves, every receive   *)
(* buffer and every combination of its switches.                           *)
(***************************************************************************)
EXTENDS RS485Master, TLAPS

USE NAssumption, SlaveKindsAssumption, BoundAssumption, SwitchAssumption,
    MaxSeqAssumption

-----------------------------------------------------------------------------
(* The receive side. *)

\* A transmission leaves at most one more frame on the receive side.
LEMMA ArriveShape ==
  ASSUME rx \in Seq(Frame), Len(rx) <= MaxRx, NEW f \in Frame,
         NEW r \in Arrive(f)
  PROVE  /\ r \in Seq(Frame)
         /\ Len(r) <= MaxRx
         /\ Len(r) >= Len(rx)
         /\ \A i \in DOMAIN r :
              \/ i \in DOMAIN rx /\ r[i] = rx[i]
              \/ /\ i \notin DOMAIN rx
                 /\ \A j \in DOMAIN r : j <= i
                 /\ r[i].from = f.from
                 /\ r[i].kind \in {f.kind, "bad"}
<1> DEFINE b == [f EXCEPT !.kind = "bad"]
<1>1. b \in Frame /\ b.from = f.from /\ b.kind = "bad"
  BY DEF Frame, Kinds
<1> HIDE DEF b
<1>2. CASE r = rx
  BY <1>2
<1>3. ASSUME NEW g \in Frame, g.from = f.from, g.kind \in {f.kind, "bad"},
             r = Append(rx, g), Len(rx) < MaxRx
      PROVE  /\ r \in Seq(Frame)
             /\ Len(r) <= MaxRx
             /\ Len(r) >= Len(rx)
             /\ \A i \in DOMAIN r :
                  \/ i \in DOMAIN rx /\ r[i] = rx[i]
                  \/ /\ i \notin DOMAIN rx
                     /\ \A j \in DOMAIN r : j <= i
                     /\ r[i].from = f.from
                     /\ r[i].kind \in {f.kind, "bad"}
  <2>1. DOMAIN rx = 1 .. Len(rx) /\ DOMAIN r = 1 .. (Len(rx) + 1)
    BY <1>3
  <2>2. \A i \in DOMAIN rx : r[i] = rx[i]
    BY <1>3
  <2>3. r[Len(rx) + 1] = g /\ Len(r) = Len(rx) + 1 /\ r \in Seq(Frame)
    BY <1>3
  <2> QED BY <1>3, <2>1, <2>2, <2>3
<1>4. r # rx => Len(rx) < MaxRx /\ (r = Append(rx, f) \/ r = Append(rx, b))
  BY DEF Arrive, b
<1> QED BY <1>1, <1>2, <1>3, <1>4

\* What no slave sent is a frame that FrameOK allows.
LEMMA BusFrames ==
  /\ Garbage \in Frame /\ Garbage.from = 0 /\ Garbage.kind = "bad"
  /\ EchoOf \in Frame /\ EchoOf.from = 0 /\ EchoOf.kind = "other"
  /\ \A k \in {"bad", "zeros"} :
       /\ [from |-> 0, kind |-> k] \in Frame
       /\ [from |-> 0, kind |-> k].from = 0
       /\ [from |-> 0, kind |-> k].kind = k
BY DEF Garbage, EchoOf, Frame, Kinds

\* A frame of a slave, with one of its kinds or the release.
LEMMA SlaveFrames ==
  \A s \in Slaves, k \in SlaveKinds \cup {"grantAck"} :
    /\ [from |-> s, kind |-> k] \in Frame
    /\ [from |-> s, kind |-> k].from = s
    /\ [from |-> s, kind |-> k].kind = k
BY DEF Slaves, Frame, Kinds

\* The sequence number drawn is one, and is not a torn file.
LEMMA NextSeqType ==
  \A file \in SeqFiles : file # Torn => NextSeq(file) \in 1 .. MaxSeq
BY DEF SeqFiles, Torn, NextSeq

-----------------------------------------------------------------------------
(* Type correctness. *)

\* Every step keeps the types: the threads stay at one of their statements, the
\* receive buffer within its capacity, and the sequence file one the program
\* can have left.
LEMMA TypeStep == TypeOK /\ [Next]_vars => TypeOK'
<1> SUFFICES ASSUME TypeOK, [Next]_vars PROVE TypeOK'
  OBVIOUS
<1> USE DEF mvars, evars, tvars, rvars
<1>1. rx \in Seq(Frame) /\ Len(rx) <= MaxRx
  BY DEF TypeOK
<1>2. \A f \in Frame : \A r \in Arrive(f) : r \in Seq(Frame) /\ Len(r) <= MaxRx
  BY <1>1, ArriveShape
<1>3. \A r \in Echoed : r \in Seq(Frame) /\ Len(r) <= MaxRx
  BY <1>1, <1>2, BusFrames DEF Echoed
<1>4. CASE AcquireForGrant
  BY <1>4 DEF TypeOK, AcquireForGrant
<1>5. CASE SendGrant
  <2>1. rx' \in Seq(Frame) /\ Len(rx') <= MaxRx
    BY <1>3, <1>5 DEF SendGrant
  <2>2. seqFile' \in SeqFiles
    BY <1>5, NextSeqType DEF SendGrant, TypeOK, SeqFiles
  <2>3. holders' \subseteq Slaves
    BY <1>5 DEF SendGrant, TypeOK
  <2> QED BY <1>5, <2>1, <2>2, <2>3 DEF TypeOK, SendGrant
<1>6. CASE GrantFails
  <2>1. seqFile' \in SeqFiles
    BY <1>6, NextSeqType DEF GrantFails, TypeOK, SeqFiles
  <2> QED BY <1>6, <2>1 DEF TypeOK, GrantFails
<1>7. CASE ArmTimer
  BY <1>7 DEF TypeOK, ArmTimer
<1>8. CASE ClearEvent
  <2>1. masterEvent' \in BOOLEAN
    BY <1>8 DEF ClearEvent
  <2> QED BY <1>8, <2>1 DEF TypeOK, ClearEvent
<1>9. CASE WaitEvent
  BY <1>9 DEF TypeOK, WaitEvent
<1>10. CASE CancelTimer
  BY <1>10 DEF TypeOK, CancelTimer, Slaves
<1>11. CASE Sleep
  BY <1>11 DEF TypeOK, Sleep, Slaves
<1>12. CASE Timer
  <2>1. masterEvent' \in BOOLEAN /\ timedOut' \in BOOLEAN
    BY <1>12 DEF TypeOK, Timer, TimerExpire, TimerSet, LateTimerSet
  <2> QED BY <1>12, <2>1 DEF TypeOK, Timer, TimerExpire, TimerSet, LateTimerSet
<1>13. CASE ReadMsg
  <2>1. Head(rx) \in Frame /\ Tail(rx) \in Seq(Frame) /\ Len(Tail(rx)) <= MaxRx
    BY <1>1, <1>13 DEF ReadMsg
  <2>2. rx' \in Seq(Frame) /\ Len(rx') <= MaxRx
    BY <1>13, <2>1 DEF ReadMsg
  <2>3. rMsg' \in Frame /\ rPc' \in {"read", "lock"}
    BY <1>13, <2>1 DEF TypeOK, ReadMsg
  <2> QED BY <1>13, <2>2, <2>3 DEF TypeOK, ReadMsg
<1>14. CASE ReadEof
  <2>1. <<>> \in Seq(Frame) /\ Len(<<>>) <= MaxRx
    OBVIOUS
  <2>2. \A f \in {Garbage} \cup (IF rx = <<>> THEN {} ELSE {Head(rx)}) : f \in Frame
    BY <1>1, BusFrames
  <2>3. rMsg' \in Frame
    BY <1>14, <2>2 DEF TypeOK, ReadEof
  <2>4. rPc' \in {"lock", "done"}
    BY <1>14 DEF ReadEof
  <2>5. rx' \in Seq(Frame) /\ Len(rx') <= MaxRx
    BY <1>14, <2>1 DEF ReadEof
  <2> QED BY <1>14, <2>3, <2>4, <2>5 DEF TypeOK, ReadEof
<1>15. CASE AcquireForMsg
  BY <1>15 DEF TypeOK, AcquireForMsg
<1>16. CASE ProcessMsg
  <2>1. rx' \in Seq(Frame) /\ Len(rx') <= MaxRx
    BY <1>1, <1>3, <1>16 DEF ProcessMsg
  <2>2. setBy' \in 0 .. N
    BY <1>16 DEF ProcessMsg, TypeOK, Frame
  <2>3. masterEvent' \in BOOLEAN
    BY <1>16 DEF ProcessMsg, TypeOK
  <2> QED BY <1>16, <2>1, <2>2, <2>3 DEF TypeOK, ProcessMsg
<1>17. CASE ReleaseAfterMsg
  BY <1>17, BusFrames DEF TypeOK, ReleaseAfterMsg
<1>18. CASE Bus
  <2>1. ASSUME NEW s \in Slaves, SlaveSend(s) PROVE TypeOK'
    <3>1. rx' \in Seq(Frame) /\ Len(rx') <= MaxRx
      BY <1>2, <2>1, SlaveFrames DEF SlaveSend
    <3> QED BY <2>1, <3>1 DEF TypeOK, SlaveSend
  <2>2. ASSUME NEW s \in Slaves, SlaveRelease(s) PROVE TypeOK'
    <3>1. rx' \in Seq(Frame) /\ Len(rx') <= MaxRx
      BY <1>2, <2>2, SlaveFrames DEF SlaveRelease
    <3> QED BY <2>2, <3>1 DEF TypeOK, SlaveRelease
  <2>3. CASE Noise
    <3>1. rx' \in Seq(Frame) /\ Len(rx') <= MaxRx
      BY <1>2, <2>3, BusFrames DEF Noise
    <3> QED BY <2>3, <3>1 DEF TypeOK, Noise
  <2>4. CASE DeviceFail
    BY <2>4 DEF TypeOK, DeviceFail
  <2> QED BY <1>18, <2>1, <2>2, <2>3, <2>4 DEF Bus
<1>19. CASE UNCHANGED vars
  BY <1>19 DEF TypeOK, vars
<1> QED BY <1>4, <1>5, <1>6, <1>7, <1>8, <1>9, <1>10, <1>11, <1>12, <1>13, <1>14,
        <1>15, <1>16, <1>17, <1>18, <1>19 DEF Next, Master, Reader, Blocked

\* The threads begin at their first statements, with the buffer holding what
\* preceded the first message.
LEMMA TypeInit == Init => TypeOK
<1> SUFFICES ASSUME Init PROVE TypeOK
  OBVIOUS
<1>1. rx \in Seq(Frame) /\ Len(rx) <= MaxRx
  BY BusFrames DEF Init
<1>2. seqFile \in SeqFiles
  BY DEF Init, SeqFiles, Torn, Absent
<1>3. masterEvent \in BOOLEAN /\ timedOut \in BOOLEAN /\ rEof \in BOOLEAN
  BY DEF Init
<1> QED BY <1>1, <1>2, <1>3, BusFrames DEF Init, TypeOK, Slaves

\* Every reachable state has the types that TypeOK states.
THEOREM TypeCorrect == Spec => []TypeOK
BY TypeInit, TypeStep, PTL DEF Spec

-----------------------------------------------------------------------------
(* The threads. *)

\* Every step keeps the relations between the lock, the timer and where the
\* threads are.
LEMMA ThreadStep == TypeOK /\ ThreadInv /\ [Next]_vars => ThreadInv'
<1> SUFFICES ASSUME TypeOK, ThreadInv, [Next]_vars PROVE ThreadInv'
  OBVIOUS
<1> USE DEF ThreadInv, mvars, evars, tvars, rvars
<1>1. CASE AcquireForGrant
  BY <1>1 DEF AcquireForGrant
<1>2. CASE SendGrant
  BY <1>2 DEF SendGrant
<1>3. CASE GrantFails
  BY <1>3 DEF GrantFails
<1>4. CASE ArmTimer
  BY <1>4 DEF ArmTimer
<1>5. CASE ClearEvent
  BY <1>5 DEF ClearEvent
<1>6. CASE WaitEvent
  BY <1>6 DEF WaitEvent
<1>7. CASE CancelTimer
  BY <1>7 DEF CancelTimer, TypeOK
<1>8. CASE Sleep
  BY <1>8 DEF Sleep
<1>9. CASE TimerExpire
  BY <1>9 DEF TimerExpire
<1>10. CASE TimerSet
  BY <1>10 DEF TimerSet
<1>11. CASE LateTimerSet
  BY <1>11 DEF LateTimerSet
<1>12. CASE ReadMsg
  BY <1>12 DEF ReadMsg
<1>13. CASE ReadEof
  BY <1>13 DEF ReadEof
<1>14. CASE AcquireForMsg
  BY <1>14 DEF AcquireForMsg
<1>15. CASE ProcessMsg
  BY <1>15 DEF ProcessMsg
<1>16. CASE ReleaseAfterMsg
  BY <1>16 DEF ReleaseAfterMsg
<1>17. CASE Bus
  <2>1. UNCHANGED <<mPc, cur, lock, timer, late, timedOut, rPc, rEof>>
    BY <1>17 DEF Bus, SlaveSend, SlaveRelease, Noise, DeviceFail
  <2>2. device' = "down" \/ device' = device
    BY <1>17 DEF Bus, SlaveSend, SlaveRelease, Noise, DeviceFail
  <2> QED BY <2>1, <2>2
<1>18. CASE UNCHANGED vars
  BY <1>18 DEF vars
<1> QED BY <1>1, <1>2, <1>3, <1>4, <1>5, <1>6, <1>7, <1>8, <1>9, <1>10, <1>11,
        <1>12, <1>13, <1>14, <1>15, <1>16, <1>17, <1>18
        DEF Next, Master, Timer, Reader, Blocked

-----------------------------------------------------------------------------
(* The bus. *)

\* What arrives from no slave is at the end, and is no release.
LEMMA NoiseShape ==
  ASSUME TypeOK, NEW f \in Frame, f.from = 0, f.kind \in {"bad", "other"},
         NEW r \in Arrive(f) \cup {rx}
  PROVE  \A i \in DOMAIN r :
           \/ i \in DOMAIN rx /\ r[i] = rx[i]
           \/ r[i].from = 0 /\ r[i].kind \in {"bad", "other"}
BY ArriveShape DEF TypeOK

\* More noise on the receive side disturbs no part of the invariant.
LEMMA NoiseKeeps ==
  ASSUME TypeOK, BusInv, NEW f \in Frame, f.from = 0, f.kind \in {"bad", "other"},
         rx' \in Arrive(f) \cup {rx}, UNCHANGED <<cur, rMsg>>,
         Pending' => Pending
  PROVE  /\ \A i \in DOMAIN rx' : FrameOK(rx[i])'
         /\ FrameOK(rMsg)'
         /\ BackInv /\ holders' = {} => BackInv'
         /\ BackInv /\ holders' \subseteq {cur} => RoundInv'
         /\ RoundInv /\ UNCHANGED holders => RoundInv'
<1>1. \A i \in DOMAIN rx' :
        \/ i \in DOMAIN rx /\ rx'[i] = rx[i]
        \/ rx'[i].from = 0 /\ rx'[i].kind \in {"bad", "other"}
  BY NoiseShape
<1>2. \A i \in DOMAIN rx' : FrameOK(rx[i])'
  BY <1>1 DEF BusInv, FrameOK
<1>3. FrameOK(rMsg)'
  BY DEF BusInv, FrameOK
<1>4. ASSUME BackInv, holders' = {} PROVE BackInv'
  BY <1>1, <1>4 DEF BackInv
<1>5. ASSUME BackInv, holders' \subseteq {cur} PROVE RoundInv'
  <2>1. \A i \in DOMAIN rx' : rx'[i].from = 0 /\ rx'[i].kind # "grantAck"
    BY <1>1, <1>2, <1>5 DEF BackInv, FrameOK
  <2>2. Pending' => rMsg'.from = 0 /\ rMsg'.kind # "grantAck"
    BY <1>3, <1>5 DEF BackInv, FrameOK
  <2> QED BY <1>5, <2>1, <2>2 DEF RoundInv
<1>6. ASSUME RoundInv, UNCHANGED holders PROVE RoundInv'
  <2>1. \A i \in DOMAIN rx' : rx'[i].from \in {0, cur'}
    BY <1>1, <1>6 DEF RoundInv
  <2>2. ASSUME NEW i \in DOMAIN rx', rx'[i].kind = "grantAck"
        PROVE  holders' = {} /\ \A j \in DOMAIN rx' : j > i => rx'[j].from = 0
    BY <1>1, <1>6, <2>2 DEF RoundInv
  <2>3. (Pending' /\ rMsg'.kind = "grantAck") =>
           holders' = {} /\ \A i \in DOMAIN rx' : rx'[i].from = 0
    BY <1>1, <1>6 DEF RoundInv
  <2>4. holders' \subseteq {cur'} /\ (Pending' => rMsg'.from \in {0, cur'})
    BY <1>6 DEF RoundInv
  <2> QED BY <2>1, <2>2, <2>3, <2>4 DEF RoundInv
<1> QED BY <1>2, <1>3, <1>4, <1>5, <1>6

\* Every step keeps the ownership of the bus.
LEMMA BusStep == TypeOK /\ ThreadInv /\ BusInv /\ [Next]_vars => BusInv'
<1> SUFFICES ASSUME TypeOK, ThreadInv, BusInv, [Next]_vars PROVE BusInv'
  OBVIOUS
<1> USE DEF mvars, evars, tvars, rvars
<1>1. /\ rx \in Seq(Frame)
      /\ Garbage \in Frame /\ EchoOf \in Frame
      /\ Garbage.from = 0 /\ Garbage.kind = "bad"
      /\ EchoOf.from = 0 /\ EchoOf.kind = "other"
  BY BusFrames DEF TypeOK
<1>2. Echoed \subseteq Arrive(EchoOf) \cup {rx}
  BY DEF Echoed
\* a step that leaves the bus and the received messages alone
<1>3. ASSUME UNCHANGED <<rx, rMsg, holders, cur>>, Pending' => Pending,
             ~timedOut' => ~timedOut,
             ~timedOut' => (BusBack' <=> BusBack)
      PROVE  BusInv'
  BY <1>3 DEF BusInv, FrameOK, BackInv, RoundInv
<1>4. CASE AcquireForGrant
  BY <1>3, <1>4 DEF AcquireForGrant, BusBack, Pending
<1>5. CASE SendGrant
  <2>1. rx' \in Arrive(EchoOf) \cup {rx} /\ UNCHANGED <<cur, rMsg, rPc, timedOut>>
    BY <1>2, <1>5 DEF SendGrant
  <2>2. ~timedOut => BackInv /\ holders' \subseteq {cur}
    BY <1>5 DEF SendGrant, BusInv, BusBack, BackInv
  <2>3. ~BusBack'
    BY <1>5 DEF SendGrant, BusBack
  <2> QED BY <1>1, <2>1, <2>2, <2>3, NoiseKeeps DEF BusInv, Pending
<1>6. CASE GrantFails
  BY <1>3, <1>6 DEF GrantFails, BusBack, Pending
<1>7. CASE ArmTimer
  BY <1>3, <1>7 DEF ArmTimer, BusBack, Pending
<1>8. CASE ClearEvent
  BY <1>3, <1>8 DEF ClearEvent, BusBack, Pending
<1>9. CASE WaitEvent
  BY <1>3, <1>9 DEF WaitEvent, BusBack, Pending
<1>10. CASE CancelTimer
  \* cur changes, but while the bus is back nothing depends on it
  <2>1. BusBack /\ BusBack' /\ UNCHANGED <<rx, rMsg, rPc, holders, timedOut>>
    BY <1>10 DEF CancelTimer, BusBack
  <2> QED BY <2>1 DEF BusInv, FrameOK, BackInv, Pending
<1>11. CASE Sleep
  <2>1. BusBack /\ BusBack' /\ UNCHANGED <<rx, rMsg, rPc, holders, timedOut>>
    BY <1>11 DEF Sleep, BusBack
  <2> QED BY <2>1 DEF BusInv, FrameOK, BackInv, Pending
<1>12. CASE TimerExpire
  BY <1>3, <1>12 DEF TimerExpire, Pending
<1>13. CASE TimerSet
  BY <1>3, <1>13 DEF TimerSet, Pending, ThreadInv
<1>14. CASE LateTimerSet
  <2>1. timedOut
    BY <1>14 DEF LateTimerSet, ThreadInv, TypeOK
  <2> QED BY <1>3, <1>14, <2>1 DEF LateTimerSet, Pending
<1>15. CASE ReadMsg
  <2>1. /\ Len(rx) >= 2 /\ rx' = Tail(rx) /\ rMsg' \in {rMsg, rx[1]}
        /\ Pending' => rMsg' = rx[1]
        /\ UNCHANGED <<cur, holders, timedOut>>
        /\ BusBack' <=> BusBack
    BY <1>1, <1>15 DEF ReadMsg, BusBack, Pending
  <2>2. /\ 1 \in DOMAIN rx
        /\ \A i \in DOMAIN rx' : i + 1 \in DOMAIN rx /\ rx'[i] = rx[i + 1] /\ i + 1 > 1
        /\ \A i, j \in DOMAIN rx' : j > i => j + 1 > i + 1
    BY <1>1, <2>1
  <2>3. (\A i \in DOMAIN rx' : FrameOK(rx[i])') /\ FrameOK(rMsg)'
    BY <2>1, <2>2 DEF BusInv, FrameOK
  <2>4. BackInv => BackInv'
    BY <2>1, <2>2 DEF BackInv
  <2>5. ASSUME RoundInv PROVE RoundInv'
    <3>1. holders' \subseteq {cur'} /\ (Pending' => rMsg'.from \in {0, cur'})
      BY <2>1, <2>2, <2>5 DEF RoundInv
    <3>2. \A i \in DOMAIN rx' : rx'[i].from \in {0, cur'}
      BY <2>1, <2>2, <2>5 DEF RoundInv
    <3>3. ASSUME NEW i \in DOMAIN rx', rx'[i].kind = "grantAck"
          PROVE  holders' = {} /\ \A j \in DOMAIN rx' : j > i => rx'[j].from = 0
      BY <2>1, <2>2, <2>5, <3>3 DEF RoundInv
    <3>4. ASSUME Pending', rMsg'.kind = "grantAck"
          PROVE  holders' = {} /\ \A i \in DOMAIN rx' : rx'[i].from = 0
      BY <2>1, <2>2, <2>5, <3>4 DEF RoundInv
    <3> QED BY <3>1, <3>2, <3>3, <3>4 DEF RoundInv
  <2> QED BY <2>1, <2>3, <2>4, <2>5 DEF BusInv
<1>16. CASE ReadEof
  <2>1. /\ rx' = <<>> /\ UNCHANGED <<cur, holders, timedOut>>
        /\ BusBack' <=> BusBack
        /\ Pending' => rMsg' = Garbage \/ (rx # <<>> /\ rMsg' = Head(rx))
        /\ rMsg' = rMsg \/ rMsg' = Garbage \/ (rx # <<>> /\ rMsg' = Head(rx))
    BY <1>16 DEF ReadEof, BusBack, Pending
  <2>2. rx # <<>> => 1 \in DOMAIN rx /\ Head(rx) = rx[1]
    BY <1>1
  <2>3. DOMAIN rx' = {}
    BY <2>1
  <2>4. FrameOK(rMsg)'
    BY <1>1, <2>1, <2>2 DEF BusInv, FrameOK
  <2>5. BackInv => BackInv'
    BY <1>1, <2>1, <2>2, <2>3 DEF BackInv
  <2>6. RoundInv => RoundInv'
    BY <1>1, <2>1, <2>2, <2>3 DEF RoundInv
  <2> QED BY <2>1, <2>3, <2>4, <2>5, <2>6 DEF BusInv
<1>17. CASE AcquireForMsg
  BY <1>3, <1>17 DEF AcquireForMsg, BusBack, Pending
<1>18. CASE ProcessMsg
  <2>1. /\ rx' \in Arrive(EchoOf) \cup {rx} /\ UNCHANGED <<cur, mPc, rMsg, holders, timedOut>>
        /\ Pending /\ ~Pending'
    BY <1>2, <1>18 DEF ProcessMsg, Pending
  <2>2. CASE rMsg.kind = "grantAck"
    \* the release of the slave: nothing of it is left, and the bus is back
    <3>1. rx' = rx
      BY <1>18, <2>2 DEF ProcessMsg, ReplyTo
    <3>2. ~timedOut => ~BusBack
      BY <2>1, <2>2 DEF BusInv, BackInv, FrameOK
    <3>3. ~timedOut => BackInv' /\ RoundInv'
      BY <2>1, <2>2, <3>1, <3>2 DEF BusInv, BackInv, RoundInv
    <3>4. (\A i \in DOMAIN rx' : FrameOK(rx[i])') /\ FrameOK(rMsg)'
      BY <2>1, <3>1 DEF BusInv, FrameOK
    <3> QED BY <2>1, <3>3, <3>4 DEF BusInv
  <2>3. CASE rMsg.kind # "grantAck"
    <3>1. BusBack' <=> BusBack
      BY <1>18, <2>3, <2>1 DEF ProcessMsg, BusBack, TypeOK
    <3> QED BY <1>1, <2>1, <3>1, NoiseKeeps DEF BusInv, BackInv
  <2> QED BY <2>2, <2>3
<1>19. CASE ReleaseAfterMsg
  <2>1. ~Pending' /\ rMsg' = Garbage /\ UNCHANGED <<rx, cur, holders, timedOut>>
        /\ (BusBack' <=> BusBack)
    BY <1>19 DEF ReleaseAfterMsg, Pending, BusBack
  <2> QED BY <1>1, <2>1 DEF BusInv, FrameOK, BackInv, RoundInv
<1>20. ASSUME NEW s \in Slaves, SlaveSend(s) \/ SlaveRelease(s) PROVE BusInv'
  <2>1. PICK k \in SlaveKinds \cup {"grantAck"} :
             /\ rx' \in Arrive([from |-> s, kind |-> k])
             /\ IF k = "grantAck" THEN holders' = holders \ {s} ELSE UNCHANGED holders
    BY <1>20 DEF SlaveSend, SlaveRelease
  <2>2. /\ s \in holders /\ s # 0
        /\ UNCHANGED <<mPc, cur, masterEvent, rPc, rMsg, timedOut>>
    BY <1>20 DEF SlaveSend, SlaveRelease, Slaves
  <2> DEFINE f == [from |-> s, kind |-> k]
  <2>3. f \in Frame /\ f.from = s /\ f.kind = k
    BY SlaveFrames
  <2> HIDE DEF f
  <2>4. \A i \in DOMAIN rx' :
          \/ i \in DOMAIN rx /\ rx'[i] = rx[i]
          \/ /\ i \notin DOMAIN rx
             /\ \A j \in DOMAIN rx' : j <= i
             /\ rx'[i].from = s
             /\ rx'[i].kind \in {k, "bad"}
    BY <2>1, <2>3, ArriveShape DEF TypeOK, f
  <2>5. (\A i \in DOMAIN rx' : FrameOK(rx[i])') /\ FrameOK(rMsg)'
    BY <2>2, <2>4 DEF BusInv, FrameOK
  <2>6. ASSUME ~timedOut PROVE ~BusBack' /\ RoundInv'
    <3>1. ~BusBack /\ RoundInv /\ s = cur /\ ~BusBack'
      BY <2>2, <2>6 DEF BusInv, BackInv, RoundInv, BusBack
    <3>2. \A i \in DOMAIN rx : rx[i].kind # "grantAck"
      BY <2>2, <3>1 DEF RoundInv
    <3>3. ~(Pending' /\ rMsg'.kind = "grantAck")
      BY <2>2, <3>1 DEF RoundInv, Pending
    <3>4. \A i \in DOMAIN rx' : rx'[i].from \in {0, cur'}
      BY <2>2, <2>4, <3>1 DEF RoundInv
    <3>5. ASSUME NEW i \in DOMAIN rx', rx'[i].kind = "grantAck"
          PROVE  holders' = {} /\ \A j \in DOMAIN rx' : j > i => rx'[j].from = 0
      <4>1. i \notin DOMAIN rx /\ k = "grantAck" /\ \A j \in DOMAIN rx' : j <= i
        BY <2>4, <3>2, <3>5
      <4>2. \A j \in DOMAIN rx' : j \in Int /\ i \in Int
        <5>1. rx' \in Seq(Frame)
          BY <2>1, <2>3, ArriveShape DEF TypeOK, f
        <5> QED BY <5>1
      <4> QED BY <2>1, <3>1, <4>1, <4>2 DEF RoundInv
    <3> QED BY <2>1, <2>2, <3>1, <3>3, <3>4, <3>5 DEF RoundInv, Pending
  <2> QED BY <2>2, <2>5, <2>6 DEF BusInv
<1>21. CASE Noise
  <2>1. rx' \in Arrive(Garbage) \cup {rx} /\ UNCHANGED <<cur, mPc, masterEvent, rPc, rMsg, holders, timedOut>>
    BY <1>21 DEF Noise
  <2> QED BY <1>1, <2>1, NoiseKeeps DEF BusInv, BackInv, Pending, BusBack
<1>22. CASE DeviceFail
  BY <1>3, <1>22 DEF DeviceFail, BusBack, Pending
<1>23. CASE UNCHANGED vars
  BY <1>3, <1>23 DEF vars, BusBack, Pending
<1> QED BY <1>4, <1>5, <1>6, <1>7, <1>8, <1>9, <1>10, <1>11, <1>12, <1>13, <1>14,
        <1>15, <1>16, <1>17, <1>18, <1>19, <1>20, <1>21, <1>22, <1>23
        DEF Next, Master, Timer, Reader, Bus, Blocked

-----------------------------------------------------------------------------
(* The theorems. *)

\* The master begins with the bus, and nothing on the receive side is a slave's.
LEMMA IndInit == Init => IndInv
<1> SUFFICES ASSUME Init PROVE IndInv
  OBVIOUS
<1>1. TypeOK
  BY TypeInit
<1>2. ThreadInv
  BY DEF Init, ThreadInv
<1>3. PICK k \in {"bad", "zeros"} : rx = <<[from |-> 0, kind |-> k]>>
  BY DEF Init
<1>4. DOMAIN rx = {1} /\ rx[1] = [from |-> 0, kind |-> k]
  BY <1>3
<1>5. BusInv
  BY <1>4, BusFrames DEF Init, BusInv, BackInv, BusBack, FrameOK, Pending
<1> QED BY <1>1, <1>2, <1>5 DEF IndInv

\* The invariant holds in every reachable state.
THEOREM Inductive == Spec => []IndInv
<1>1. IndInv /\ [Next]_vars => IndInv'
  BY TypeStep, ThreadStep, BusStep DEF IndInv
<1> QED BY IndInit, <1>1, PTL DEF Spec

\* Until a wait times out, no two slaves have the bus, however the threads, the
\* slaves and the noise interleave (semonitor.py:131-158).
THEOREM Exclusion == Spec => []BusExclusion
<1>1. IndInv => BusExclusion
  BY DEF IndInv, BusInv, BackInv, RoundInv, BusExclusion
<1> QED BY <1>1, Inductive, PTL

\* Until a wait times out, a reply never meets the transmission of a slave
\* other than the one it answers (semonitor.py:93-113).
THEOREM RepliesInTurn == Spec => []ReplyWhileOthersSilent
<1>1. ASSUME IndInv, ~timedOut, rPc = "process", ReplyTo(rMsg.kind) # "none"
      PROVE  holders \subseteq {rMsg.from}
  <2>1. FrameOK(rMsg) /\ Pending
    BY <1>1 DEF IndInv, BusInv, Pending
  <2>2. rMsg.from # 0
    BY <1>1, <2>1 DEF FrameOK, ReplyTo
  <2>3. CASE BusBack
    BY <1>1, <2>3 DEF IndInv, BusInv, BackInv
  <2>4. CASE ~BusBack
    BY <1>1, <2>1, <2>2, <2>4 DEF IndInv, BusInv, RoundInv
  <2> QED BY <2>3, <2>4
<1>2. IndInv => ReplyWhileOthersSilent
  BY <1>1 DEF ReplyWhileOthersSilent
<1> QED BY <1>2, Inductive, PTL

\* Unless the master is suspended for a whole timeout between starting its
\* timer and clearing the event, every wait is ended by an event that is set or
\* that its timer is still going to set (semonitor.py:147-154).
THEOREM BoundedWait ==
  ASSUME SlowMaster = FALSE
  PROVE  Spec => []WaitIsBounded
<1>1. Init => WaitIsBounded
  BY DEF Init, WaitIsBounded
<1>2. IndInv /\ WaitIsBounded /\ [Next]_vars => WaitIsBounded'
  <2> SUFFICES ASSUME IndInv, WaitIsBounded, [Next]_vars PROVE WaitIsBounded'
    OBVIOUS
  <2> USE DEF WaitIsBounded, mvars, evars, tvars, rvars
  <2>1. CASE ClearEvent
    BY <2>1, SlowMaster = FALSE DEF ClearEvent, IndInv, ThreadInv
  <2>2. CASE TimerSet
    BY <2>2 DEF TimerSet
  <2>3. CASE LateTimerSet
    BY <2>3 DEF LateTimerSet
  <2>4. CASE TimerExpire
    BY <2>4 DEF TimerExpire
  <2>5. CASE ProcessMsg
    BY <2>5 DEF ProcessMsg, IndInv, TypeOK
  <2>6. CASE AcquireForGrant \/ SendGrant \/ GrantFails \/ ArmTimer \/ WaitEvent
             \/ CancelTimer \/ Sleep
    BY <2>6 DEF AcquireForGrant, SendGrant, GrantFails, ArmTimer, WaitEvent,
                CancelTimer, Sleep
  <2>7. CASE ReadMsg \/ ReadEof \/ AcquireForMsg \/ ReleaseAfterMsg \/ Bus \/ UNCHANGED vars
    <3>1. UNCHANGED <<mPc, masterEvent, timer>>
      BY <2>7 DEF ReadMsg, ReadEof, AcquireForMsg, ReleaseAfterMsg, Bus, SlaveSend,
                  SlaveRelease, Noise, DeviceFail, vars
    <3> QED BY <3>1
  <2> QED BY <2>1, <2>2, <2>3, <2>4, <2>5, <2>6, <2>7
          DEF Next, Master, Timer, Reader, Blocked
<1> QED BY <1>1, <1>2, Inductive, PTL DEF Spec

\* The read thread ends only with the device, or under -x (README.md:255-257).
THEOREM ReaderGoesOn == Spec => []ReaderContinues
<1>1. Init => ReaderContinues
  BY DEF Init, ReaderContinues
<1>2. IndInv /\ ReaderContinues /\ [Next]_vars => ReaderContinues'
  <2> SUFFICES ASSUME IndInv, ReaderContinues, [Next]_vars, rPc' = "done"
               PROVE  device' = "down" \/ XError
    BY DEF ReaderContinues
  <2> USE DEF ReaderContinues, mvars, evars, tvars, rvars
  <2>1. CASE ReadEof
    BY <2>1 DEF ReadEof
  <2>2. CASE ReleaseAfterMsg
    BY <2>2 DEF ReleaseAfterMsg, IndInv, ThreadInv
  <2>3. CASE ReadMsg \/ AcquireForMsg \/ ProcessMsg
    BY <2>3 DEF ReadMsg, AcquireForMsg, ProcessMsg
  <2>4. CASE Master \/ Timer \/ Bus \/ UNCHANGED vars
    <3>1. UNCHANGED rPc /\ (device' = device \/ device' = "down")
      BY <2>4 DEF Master, AcquireForGrant, SendGrant, GrantFails, ArmTimer,
                  ClearEvent, WaitEvent, CancelTimer, Sleep, Timer, TimerExpire,
                  TimerSet, LateTimerSet, Bus, SlaveSend, SlaveRelease, Noise,
                  DeviceFail, vars
    <3> QED BY <3>1
  <2> QED BY <2>1, <2>2, <2>3, <2>4 DEF Next, Reader, Blocked
<1> QED BY <1>1, <1>2, Inductive, PTL DEF Spec

\* The program implements the abstract arbiter of the bus: the grants go round
\* the slaves in order, and none is sent while a slave has the bus, unless a
\* timeout has given up on one (semonitor.py:125-158).
THEOREM Refinement == Spec => ImplementsArbiter
<1>1. Init => Arbiter!AInit
  BY DEF Init, Arbiter!AInit, LastOffered
<1>2. IndInv /\ [Next]_vars => [Arbiter!ANext]_(Arbiter!avars)
  <2> SUFFICES ASSUME IndInv, [Next]_vars
               PROVE  Arbiter!ANext \/ UNCHANGED Arbiter!avars
    OBVIOUS
  <2> USE DEF mvars, evars, tvars, rvars, Arbiter!avars
  <2>1. cur \in 1 .. N /\ holders \subseteq 1 .. N
    BY DEF IndInv, TypeOK, Slaves
  <2>2. CASE SendGrant
    <3>1. holders = {} \/ timedOut
      BY <2>2 DEF SendGrant, IndInv, BusInv, BusBack, BackInv
    <3>2. LastOffered' = cur /\ LastOffered' = (LastOffered % N) + 1
      <4>1. LastOffered' = cur /\ LastOffered = IF cur = 1 THEN N ELSE cur - 1
        BY <2>2 DEF SendGrant, LastOffered
      <4>2. N % N = 0 /\ \A i \in 1 .. N - 1 : i % N = i
        OBVIOUS
      <4> QED BY <2>1, <4>1, <4>2
    <3>3. /\ holders' \in {holders \cup {LastOffered'}} \cup (IF Lossy THEN {holders} ELSE {})
          /\ UNCHANGED timedOut
      BY <2>2, <3>2 DEF SendGrant
    <3> QED BY <3>1, <3>2, <3>3 DEF Arbiter!ANext, Arbiter!Grant
  <2>3. CASE TimerExpire
    BY <2>3 DEF TimerExpire, LastOffered, Arbiter!ANext, Arbiter!Timeout
  <2>4. ASSUME NEW s \in Slaves, SlaveRelease(s)
        PROVE  Arbiter!ANext
    BY <2>4 DEF SlaveRelease, LastOffered, Slaves, Arbiter!ANext, Arbiter!Release
  <2>5. CASE CancelTimer
    BY <2>1, <2>5 DEF CancelTimer, LastOffered
  <2>6. CASE Sleep
    BY <2>6 DEF Sleep, LastOffered, IndInv, ThreadInv
  <2>7. CASE AcquireForGrant \/ GrantFails \/ ArmTimer \/ ClearEvent \/ WaitEvent
    BY <2>7 DEF AcquireForGrant, GrantFails, ArmTimer, ClearEvent, WaitEvent,
                LastOffered
  <2>8. CASE TimerSet \/ LateTimerSet \/ Reader \/ Noise \/ DeviceFail \/ UNCHANGED vars
    BY <2>8 DEF TimerSet, LateTimerSet, Reader, ReadMsg, ReadEof, AcquireForMsg,
                ProcessMsg, ReleaseAfterMsg, Noise, DeviceFail, vars, LastOffered
  <2>9. ASSUME NEW s \in Slaves, SlaveSend(s)
        PROVE  UNCHANGED Arbiter!avars
    BY <2>9 DEF SlaveSend, LastOffered
  <2> QED BY <2>2, <2>3, <2>4, <2>5, <2>6, <2>7, <2>8, <2>9
          DEF Next, Master, Timer, Bus, Blocked
<1> QED BY <1>1, <1>2, Inductive, PTL DEF Spec, ImplementsArbiter, Arbiter!ASpec
=============================================================================
