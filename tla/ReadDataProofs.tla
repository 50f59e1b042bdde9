--------------------------- MODULE ReadDataProofs ---------------------------
(***************************************************************************)
(* Theorems about ReadData, for every number of connections and messages   *)
(* and every combination of its switches.                                  *)
(***************************************************************************)
EXTENDS ReadData, TLAPS

USE SwitchAssumption, BoundAssumption, MaxSeqAssumption

-----------------------------------------------------------------------------
(* Frames and their places in the history. *)

\* A frame's place in the history is one.
LEMMA IdType == \A f \in Frame : IdOf(f) \in Id
BY DEF Frame, IdOf, Id

\* The end of the stream may damage a frame, but neither its place nor the
\* number of frames.
LEMMA TruncatedShape ==
  ASSUME rx \in Seq(Frame), rx # <<>>, NEW r \in Truncated
  PROVE  /\ r \in Seq(Frame) /\ r # <<>> /\ Len(r) = Len(rx)
         /\ DOMAIN r = 1 .. Len(rx) /\ DOMAIN rx = 1 .. Len(rx)
         /\ \A i \in 1 .. Len(rx) : IdOf(r[i]) = IdOf(rx[i]) /\ r[i].n = rx[i].n
<1>1. CASE r = rx
  BY <1>1
<1>2. CASE r = [rx EXCEPT ![Len(rx)].kind = "bad"]
  <2> DEFINE g == [rx[Len(rx)] EXCEPT !.kind = "bad"]
  <2>1. Len(rx) \in 1 .. Len(rx) /\ rx[Len(rx)] \in Frame
    OBVIOUS
  <2>2. g \in Frame /\ g.n = rx[Len(rx)].n /\ g.conn = rx[Len(rx)].conn
    BY <2>1 DEF Frame, Kinds
  <2>3. r = [rx EXCEPT ![Len(rx)] = g]
    BY <1>2
  <2> HIDE DEF g
  <2>4. r \in Seq(Frame) /\ Len(r) = Len(rx) /\ DOMAIN r = 1 .. Len(rx)
    BY <2>1, <2>2, <2>3
  <2>5. \A i \in 1 .. Len(rx) : r[i] = IF i = Len(rx) THEN g ELSE rx[i]
    BY <2>1, <2>3
  <2>6. \A i \in 1 .. Len(rx) : IdOf(r[i]) = IdOf(rx[i]) /\ r[i].n = rx[i].n
    <3> SUFFICES ASSUME NEW i \in 1 .. Len(rx)
                 PROVE  IdOf(r[i]) = IdOf(rx[i]) /\ r[i].n = rx[i].n
      OBVIOUS
    <3>1. CASE i = Len(rx)
      BY <2>2, <2>5, <3>1 DEF IdOf
    <3>2. CASE i # Len(rx)
      BY <2>5, <3>2
    <3> QED BY <3>1, <3>2
  <2>7. DOMAIN rx = 1 .. Len(rx) /\ r # <<>>
    BY <2>1, <2>4
  <2> QED BY <2>4, <2>6, <2>7
<1> QED BY <1>1, <1>2 DEF Truncated

\* Damage at the end changes nothing the invariant speaks of.
LEMMA TruncatedKeeps ==
  ASSUME TypeOK, LoopInv, InOrder, link = "open", rx # <<>>,
         rx' \in Truncated, UNCHANGED <<pc, eof, log, handled>>
  PROVE  LoopInv' /\ InOrder'
<1>1. /\ rx \in Seq(Frame) /\ rx' \in Seq(Frame)
      /\ rx' # <<>> /\ Len(rx') = Len(rx)
      /\ DOMAIN rx' = 1 .. Len(rx) /\ DOMAIN rx = 1 .. Len(rx)
      /\ \A i \in 1 .. Len(rx) : IdOf(rx'[i]) = IdOf(rx[i]) /\ rx'[i].n = rx[i].n
  BY TruncatedShape DEF TypeOK
<1>2. Head(rx) = rx[1] /\ Head(rx') = rx'[1] /\ Len(rx) >= 1
  BY <1>1
<1> DEFINE h == Head(rx)   h1 == Head(rx')
<1>2a. h.n = rx[1].n /\ h1.n = rx[1].n
  BY <1>1, <1>2
<1>3. LoopInv'
  BY <1>1, <1>2 DEF LoopInv
<1>4. CASE rx[1].n = 0
  <2>1. OnTheWay = Tail(rx) /\ OnTheWay' = Tail(rx')
    BY <1>1, <1>2a, <1>4 DEF OnTheWay
  <2>2. /\ Len(Tail(rx')) = Len(Tail(rx))
        /\ \A i \in 1 .. Len(Tail(rx)) : /\ Tail(rx')[i] = rx'[i + 1]
                                         /\ Tail(rx)[i] = rx[i + 1]
                                         /\ i + 1 \in 1 .. Len(rx)
    BY <1>1, <1>2
  <2>3. /\ Len(OnTheWay') = Len(OnTheWay)
        /\ \A i \in 1 .. Len(OnTheWay) : IdOf(OnTheWay'[i]) = IdOf(OnTheWay[i])
    BY <1>1, <2>1, <2>2
  <2> QED BY <1>3, <2>3 DEF InOrder
<1>5. CASE rx[1].n # 0
  <2>1. OnTheWay = rx /\ OnTheWay' = rx'
    BY <1>1, <1>2a, <1>5 DEF OnTheWay
  <2> QED BY <1>1, <1>3, <2>1 DEF InOrder
<1> QED BY <1>4, <1>5

\* What the removal of the first frame leaves to come: all that was to come, or
\* all but that frame.
LEMMA TailOnTheWay ==
  ASSUME TypeOK, LoopInv, rx # <<>>, rx' = Tail(rx)
  PROVE  /\ rx' \in Seq(Frame) /\ OnTheWay \in Seq(Frame)
         /\ Head(rx) = rx[1] /\ rx[1] \in Frame
         /\ OnTheWay' = Tail(rx)
         /\ rx[1].n = 0 => OnTheWay = Tail(rx)
         /\ rx[1].n # 0 => OnTheWay = rx
         /\ \A i \in DOMAIN rx' : rx'[i].n > 0
         /\ Len(rx) >= 2 => rx' # <<>>
<1>1. rx \in Seq(Frame) /\ Tail(rx) \in Seq(Frame) /\ Head(rx) = rx[1] /\ rx[1] \in Frame
  BY DEF TypeOK
<1>2. \A i \in DOMAIN Tail(rx) : i + 1 \in DOMAIN rx /\ i + 1 > 1 /\ Tail(rx)[i] = rx[i + 1]
  BY <1>1
<1>3. \A i \in DOMAIN rx' : rx'[i].n > 0
  BY <1>2 DEF LoopInv
<1>4. rx' # <<>> => Head(rx') = rx'[1] /\ 1 \in DOMAIN rx'
  BY <1>1
<1>5. OnTheWay' = Tail(rx)
  <2>1. rx' # <<>> => rx'[1].n # 0
    <3>1. rx' # <<>> => rx'[1].n > 0
      BY <1>3, <1>4
    <3> QED BY <3>1
  <2> QED BY <1>4, <2>1 DEF OnTheWay
<1>6. Len(rx) >= 2 => rx' # <<>>
  <2>1. Len(rx) >= 2 => Len(rx') = Len(rx) - 1
    BY <1>1
  <2>2. rx' = <<>> => Len(rx') = 0
    OBVIOUS
  <2>3. Len(rx) \in Nat
    BY <1>1
  <2> QED BY <2>1, <2>2, <2>3
<1> QED BY <1>1, <1>3, <1>5, <1>6 DEF OnTheWay

-----------------------------------------------------------------------------
(* Type correctness. *)

\* Every step keeps the types.
LEMMA TypeStep == TypeOK /\ LoopInv /\ [Next]_vars => TypeOK'
<1> SUFFICES ASSUME TypeOK, LoopInv, [Next]_vars PROVE TypeOK'
  OBVIOUS
<1> USE DEF peer
<1>1. rx \in Seq(Frame) /\ handled \in Seq(Id) /\ log \in Seq(Id) /\ written \in Seq(Id)
      /\ msg \in Frame
  BY DEF TypeOK
<1>2. rx # <<>> => Head(rx) \in Frame /\ Tail(rx) \in Seq(Frame)
  BY <1>1
<1>3. \A f \in Frame : Append(handled, IdOf(f)) \in Seq(Id) /\ Append(written, IdOf(f)) \in Seq(Id)
  BY <1>1, IdType
<1>4. CASE Open
  <2>1. \A k \in {"zeros", "bad"} : <<[conn |-> conn + 1, n |-> 0, kind |-> k]>> \in Seq(Frame)
    <3>1. \A k \in {"zeros", "bad"} : [conn |-> conn + 1, n |-> 0, kind |-> k] \in Frame
      BY <1>4 DEF Open, TypeOK, Frame, Kinds
    <3> QED BY <3>1
  <2>2. rx' \in Seq(Frame)
    BY <1>4, <2>1 DEF Open
  <2>3. conn' \in 0 .. MaxConn /\ pc' \in {"skip", "read", "process"}
    BY <1>4 DEF Open, TypeOK
  <2>4. broken' \in BOOLEAN
    BY <1>4 DEF Open
  <2> QED BY <1>4, <2>2, <2>3, <2>4 DEF TypeOK, Open
<1>5. CASE SkipMsg
  BY <1>2, <1>5 DEF TypeOK, SkipMsg
<1>6. CASE SkipEof
  <2>1. eof' \in BOOLEAN
    BY <1>6 DEF SkipEof
  <2> QED BY <1>6, <2>1 DEF TypeOK, SkipEof
<1>7. CASE ReadMsg
  <2>1. msg' \in Frame /\ rx' \in Seq(Frame) /\ handled' \in Seq(Id)
    BY <1>1, <1>2, <1>3, <1>7 DEF ReadMsg, Return
  <2> QED BY <1>7, <2>1 DEF TypeOK, ReadMsg
<1>8. CASE ReadEof \/ CloseRaises
  <2>1. rx # <<>>
    BY <1>8 DEF LoopInv, ReadEof, CloseRaises
  <2>2. msg' \in Frame /\ handled' \in Seq(Id)
    BY <1>1, <1>2, <1>3, <1>8, <2>1 DEF ReadEof, CloseRaises, Return
  <2>3. rx' = <<>> /\ rx' \in Seq(Frame)
    <3>1. rx' = <<>>
      BY <1>8 DEF ReadEof, CloseRaises
    <3> QED BY <3>1
  <2>4. eof' \in BOOLEAN
    BY <1>8 DEF ReadEof, CloseRaises
  <2> QED BY <1>8, <2>2, <2>3, <2>4 DEF TypeOK, ReadEof, CloseRaises
<1>9. CASE ProcessNothing
  BY <1>9 DEF TypeOK, ProcessNothing, Finish
<1>10. CASE ProcessMsg
  <2>1. written' \in Seq(Id)
    BY <1>1, <1>3, <1>10 DEF ProcessMsg
  <2>2. replies' \subseteq [to : Frame, on : 0 .. MaxConn]
    <3>1. [to |-> msg, on |-> conn] \in [to : Frame, on : 0 .. MaxConn]
      BY <1>1 DEF TypeOK
    <3>2. replies' \subseteq replies \cup {[to |-> msg, on |-> conn]}
      BY <1>10 DEF ProcessMsg
    <3> QED BY <3>1, <3>2 DEF TypeOK
  <2>3. waiting' \in Nat
    <3>1. waiting' = waiting \/ (waiting > 0 /\ waiting' = waiting - 1)
      BY <1>10 DEF ProcessMsg
    <3> QED BY <3>1 DEF TypeOK
  <2>4. pc' \in {"exit", "read"}
    BY <1>10 DEF ProcessMsg, Finish
  <2> QED BY <1>10, <2>1, <2>2, <2>3, <2>4 DEF TypeOK, ProcessMsg
<1>11. ASSUME NEW k \in InverterKinds, InverterSend(k) PROVE TypeOK'
  <2>1. [conn |-> conn, n |-> sent + 1, kind |-> k] \in Frame /\ <<conn, sent + 1>> \in Id
    BY <1>11 DEF InverterSend, TypeOK, Frame, Id
  <2>2. rx' \in Seq(Frame) /\ log' \in Seq(Id)
    BY <1>1, <1>11, <2>1 DEF InverterSend
  <2>3. sent' \in 0 .. MaxSend /\ waiting' \in Nat
    BY <1>11 DEF InverterSend, TypeOK
  <2> QED BY <1>11, <2>2, <2>3 DEF TypeOK, InverterSend
<1>12. CASE PeerCloses \/ Timeout
  <2>1. rx # <<>> /\ rx' \in Truncated
    BY <1>12 DEF PeerCloses, Timeout, LoopInv
  <2>2. rx' \in Seq(Frame)
    BY <1>1, <2>1, TruncatedShape
  <2> QED BY <1>12, <2>2 DEF TypeOK, PeerCloses, Timeout
<1>13. CASE UNCHANGED vars
  BY <1>13 DEF TypeOK, vars
<1> QED BY <1>4, <1>5, <1>6, <1>7, <1>8, <1>9, <1>10, <1>11, <1>12, <1>13
        DEF Next, Server, Peer

-----------------------------------------------------------------------------
(* No message is lost or repeated. *)

\* A frame read is the next of the history, if it is a message at all.
LEMMA ReturnKeeps ==
  ASSUME TypeOK, LoopInv, InOrder, rx # <<>>, Return(Head(rx)),
         rx' = Tail(rx), UNCHANGED log
  PROVE  InOrder'
<1>1. /\ rx \in Seq(Frame) /\ handled \in Seq(Id) /\ log \in Seq(Id)
      /\ Head(rx) = rx[1] /\ rx[1] \in Frame /\ IdOf(rx[1]) \in Id
      /\ OnTheWay' = Tail(rx)
  BY TailOnTheWay, IdType DEF TypeOK
<1>2. CASE rx[1].n = 0
  <2>1. handled' = handled /\ OnTheWay' = OnTheWay
    BY <1>1, <1>2, TailOnTheWay DEF Return
  <2> QED BY <2>1 DEF InOrder
<1>3. CASE rx[1].n # 0
  <2>1. OnTheWay = rx /\ handled' = Append(handled, IdOf(rx[1]))
    <3>1. rx[1].n > 0
      BY <1>1, <1>3 DEF Frame
    <3> QED BY <1>1, <1>3, <3>1, TailOnTheWay DEF Return
  <2>2. /\ Len(handled') = Len(handled) + 1
        /\ \A i \in 1 .. Len(handled) : handled'[i] = handled[i]
        /\ handled'[Len(handled) + 1] = IdOf(rx[1])
    BY <1>1, <2>1
  <2>3. /\ Len(Tail(rx)) = Len(rx) - 1 /\ 1 \in 1 .. Len(rx)
        /\ \A i \in 1 .. Len(Tail(rx)) : Tail(rx)[i] = rx[i + 1] /\ i + 1 \in 1 .. Len(rx)
    BY <1>1
  <2>4. Len(handled) \in Nat /\ Len(rx) \in Nat
    BY <1>1
  <2>5. Len(log) = Len(handled') + Len(OnTheWay')
    BY <1>1, <2>1, <2>2, <2>3, <2>4 DEF InOrder
  <2>6. ASSUME NEW i \in 1 .. Len(handled') PROVE log[i] = handled'[i]
    <3>1. CASE i \in 1 .. Len(handled)
      BY <2>2, <3>1 DEF InOrder
    <3>2. CASE i = Len(handled) + 1
      BY <2>1, <2>2, <2>3, <2>4, <3>2 DEF InOrder
    <3> QED BY <2>2, <2>4, <3>1, <3>2
  <2>7. ASSUME NEW i \in 1 .. Len(OnTheWay')
        PROVE  log[Len(handled') + i] = IdOf(OnTheWay'[i])
    <3>1. OnTheWay'[i] = OnTheWay[i + 1] /\ i + 1 \in 1 .. Len(OnTheWay)
      BY <1>1, <2>1, <2>3
    <3>2. Len(handled') + i = Len(handled) + (i + 1)
      BY <2>2, <2>4
    <3> QED BY <3>1, <3>2 DEF InOrder
  <2> QED BY <2>5, <2>6, <2>7 DEF InOrder
<1> QED BY <1>2, <1>3

\* Every step keeps the order and loses nothing.
LEMMA OrderStep == TypeOK /\ LoopInv /\ InOrder /\ [Next]_vars => LoopInv' /\ InOrder'
<1> SUFFICES ASSUME TypeOK, LoopInv, InOrder, [Next]_vars PROVE LoopInv' /\ InOrder'
  OBVIOUS
<1> USE DEF peer
<1>1. rx \in Seq(Frame) /\ handled \in Seq(Id) /\ log \in Seq(Id)
  BY DEF TypeOK
\* a step of readData that neither reads nor opens
<1>2. ASSUME UNCHANGED <<rx, log, handled, link>>,
             pc' \in {"read", "exit"}, pc' = "read" => rx # <<>>
      PROVE  LoopInv' /\ InOrder'
  BY <1>2 DEF LoopInv, InOrder, OnTheWay
<1>3. CASE Open
  <2>1. rx = <<>> /\ OnTheWay = <<>>
    BY <1>3 DEF Open, LoopInv, OnTheWay
  <2>2. PICK f \in Frame : f.n = 0 /\ rx' = <<f>>
    <3>1. \A k \in {"zeros", "bad"} : /\ [conn |-> conn + 1, n |-> 0, kind |-> k] \in Frame
                                     /\ [conn |-> conn + 1, n |-> 0, kind |-> k].n = 0
      BY <1>3 DEF Open, TypeOK, Frame, Kinds
    <3> QED BY <1>3, <3>1 DEF Open
  <2>3. rx' # <<>> /\ Head(rx') = f /\ Tail(rx') = <<>> /\ DOMAIN rx' = {1}
    BY <2>2
  <2>4. OnTheWay' = OnTheWay /\ UNCHANGED <<log, handled>>
    BY <1>3, <2>1, <2>2, <2>3 DEF Open, OnTheWay
  <2>5. LoopInv'
    BY <1>3, <2>2, <2>3 DEF Open, LoopInv
  <2> QED BY <2>4, <2>5 DEF InOrder
<1>4. CASE SkipMsg
  <2>1. /\ rx # <<>> /\ rx' = Tail(rx) /\ Len(rx) >= 2 /\ Head(rx).n = 0
        /\ UNCHANGED <<log, handled, link>> /\ pc' = "read"
    BY <1>1, <1>4 DEF SkipMsg, LoopInv
  <2>2. OnTheWay' = OnTheWay /\ rx' # <<>> /\ \A i \in DOMAIN rx' : rx'[i].n > 0
    BY <2>1, TailOnTheWay
  <2> QED BY <2>1, <2>2 DEF LoopInv, InOrder
<1>5. CASE SkipEof
  BY <1>2, <1>5 DEF SkipEof
<1>6. CASE ReadMsg
  <2>1. /\ rx # <<>> /\ rx' = Tail(rx) /\ Len(rx) >= 2
        /\ UNCHANGED <<log, link, eof>> /\ pc' \in {"read", "process"}
    BY <1>1, <1>6 DEF ReadMsg, LoopInv
  <2>2. rx' # <<>> /\ \A i \in DOMAIN rx' : rx'[i].n > 0
    BY <2>1, TailOnTheWay
  <2>3. LoopInv'
    BY <2>1, <2>2 DEF LoopInv
  <2>4. InOrder'
    BY <1>6, <2>1, ReturnKeeps DEF ReadMsg
  <2> QED BY <2>3, <2>4
<1>7. CASE ReadEof \/ CloseRaises
  <2>1. /\ rx # <<>> /\ rx' = <<>> /\ Len(rx) <= 1 /\ UNCHANGED log /\ link' = "none"
        /\ pc' \in {"open", "process", "exit"}
        /\ pc' = "process" => eof'
    BY <1>7 DEF ReadEof, CloseRaises, AtEof, LoopInv
  <2>2. rx' = Tail(rx)
    BY <1>1, <2>1
  <2>3. LoopInv'
    <3>1. DOMAIN rx' = {}
      BY <2>1
    <3> QED BY <2>1, <3>1 DEF LoopInv
  <2>4. InOrder'
    BY <1>7, <2>1, <2>2, ReturnKeeps DEF ReadEof, CloseRaises
  <2> QED BY <2>3, <2>4
<1>8. CASE ProcessNothing
  BY <1>2, <1>8 DEF ProcessNothing, Finish, LoopInv
<1>9. CASE ProcessMsg
  BY <1>2, <1>9 DEF ProcessMsg, Finish, LoopInv
<1>10. ASSUME NEW k \in InverterKinds, InverterSend(k) PROVE LoopInv' /\ InOrder'
  <2> DEFINE f == [conn |-> conn, n |-> sent + 1, kind |-> k]
  <2>1. f \in Frame /\ f.n > 0 /\ IdOf(f) = <<conn, sent + 1>> /\ IdOf(f) \in Id
    BY <1>10 DEF InverterSend, TypeOK, Frame, IdOf, Id
  <2>2. /\ rx' = Append(rx, f) /\ log' = Append(log, IdOf(f)) /\ rx # <<>>
        /\ UNCHANGED <<handled, pc, link, eof>>
    BY <1>10, <2>1 DEF InverterSend, LoopInv
  <2> HIDE DEF f
  <2>3. /\ OnTheWay \in Seq(Frame) /\ OnTheWay' = Append(OnTheWay, f)
    <3>1. /\ rx' # <<>> /\ Head(rx') = Head(rx) /\ Tail(rx') = Append(Tail(rx), f)
          /\ Tail(rx) \in Seq(Frame)
      BY <1>1, <2>1, <2>2
    <3> QED BY <1>1, <2>2, <3>1 DEF OnTheWay
  <2>4. /\ Len(log') = Len(log) + 1 /\ log'[Len(log) + 1] = IdOf(f)
        /\ \A i \in 1 .. Len(log) : log'[i] = log[i]
        /\ Len(log) \in Nat /\ Len(handled) \in Nat
    BY <1>1, <2>1, <2>2
  <2>5. /\ Len(OnTheWay') = Len(OnTheWay) + 1 /\ OnTheWay'[Len(OnTheWay) + 1] = f
        /\ \A i \in 1 .. Len(OnTheWay) : OnTheWay'[i] = OnTheWay[i]
        /\ Len(OnTheWay) \in Nat
    BY <2>1, <2>3
  <2>6. ASSUME NEW i \in 1 .. Len(handled') PROVE log'[i] = handled'[i]
    <3>1. i \in 1 .. Len(handled) /\ i \in 1 .. Len(log)
      BY <2>2, <2>4, <2>5 DEF InOrder
    <3> QED BY <2>2, <2>4, <3>1 DEF InOrder
  <2>7. ASSUME NEW i \in 1 .. Len(OnTheWay')
        PROVE  log'[Len(handled') + i] = IdOf(OnTheWay'[i])
    <3>1. CASE i \in 1 .. Len(OnTheWay)
      <4>1. Len(handled) + i \in 1 .. Len(log)
        BY <2>4, <2>5, <3>1 DEF InOrder
      <4> QED BY <2>2, <2>4, <2>5, <3>1, <4>1 DEF InOrder
    <3>2. CASE i = Len(OnTheWay) + 1
      <4>1. Len(handled) + i = Len(log) + 1
        BY <2>4, <2>5, <3>2 DEF InOrder
      <4> QED BY <2>2, <2>4, <2>5, <3>2, <4>1
    <3> QED BY <2>5, <3>1, <3>2
  <2>8. Len(log') = Len(handled') + Len(OnTheWay')
    BY <2>2, <2>4, <2>5 DEF InOrder
  <2>9. LoopInv'
    <3>1. /\ rx' # <<>> /\ Head(rx') = Head(rx) /\ DOMAIN rx' = 1 .. Len(rx) + 1
          /\ \A i \in 1 .. Len(rx) : rx'[i] = rx[i] /\ i \in DOMAIN rx
          /\ rx'[Len(rx) + 1] = f
      BY <1>1, <2>1, <2>2
    <3>2. ASSUME NEW i \in DOMAIN rx', i > 1 PROVE rx'[i].n > 0
      <4>1. CASE i = Len(rx) + 1
        BY <2>1, <3>1, <4>1
      <4>2. CASE i \in 1 .. Len(rx)
        BY <3>1, <3>2, <4>2 DEF LoopInv
      <4> QED BY <1>1, <3>1, <4>1, <4>2
    <3>3. pc # "open"
      BY <2>2 DEF LoopInv
    <3> QED BY <2>2, <3>1, <3>2, <3>3 DEF LoopInv
  <2> QED BY <2>6, <2>7, <2>8, <2>9 DEF InOrder
<1>11. CASE PeerCloses \/ Timeout
  <2>1. link = "open" /\ rx # <<>> /\ rx' \in Truncated /\ UNCHANGED <<pc, eof, log, handled>>
    BY <1>11 DEF PeerCloses, Timeout, LoopInv
  <2> QED BY <2>1, TruncatedKeeps
<1>12. CASE UNCHANGED vars
  BY <1>12 DEF vars, LoopInv, InOrder, OnTheWay
<1> QED BY <1>3, <1>4, <1>5, <1>6, <1>7, <1>8, <1>9, <1>10, <1>11, <1>12
        DEF Next, Server, Peer

\* Nothing has been sent before the first connection is opened.
LEMMA IndInit == Init => IndInv
<1> SUFFICES ASSUME Init PROVE IndInv
  OBVIOUS
<1>1. TypeOK
  <2>1. eof \in BOOLEAN /\ broken \in BOOLEAN
    BY DEF Init
  <2>2. msg \in Frame
    BY DEF Init, Nothing, Frame, Kinds
  <2> QED BY <2>1, <2>2 DEF Init, TypeOK
<1>2. LoopInv
  BY DEF Init, LoopInv
<1>3. InOrder
  BY DEF Init, InOrder, OnTheWay
<1> QED BY <1>1, <1>2, <1>3 DEF IndInv

\* The invariant holds in every reachable state.
THEOREM Inductive == Spec => []IndInv
<1>1. IndInv /\ [Next]_vars => IndInv'
  BY TypeStep, OrderStep DEF IndInv
<1> QED BY IndInit, <1>1, PTL DEF Spec

\* Every message that is sent is read once and in order, or is still to come:
\* skipping the first bytes, delimiting by the next magic number and
\* reconnecting lose and repeat none (semonitor.py:46-57).
THEOREM NothingLost == Spec => []InOrder
<1>1. IndInv => InOrder
  BY DEF IndInv
<1> QED BY <1>1, Inductive, PTL

-----------------------------------------------------------------------------
(* What is answered is written. *)

\* Only processMsg answers, in the step that writes.
LEMMA AckedStep == TypeOK /\ AckedIsWritten /\ [Next]_vars => AckedIsWritten'
<1> SUFFICES ASSUME TypeOK, AckedIsWritten, [Next]_vars PROVE AckedIsWritten'
  OBVIOUS
<1>1. CASE UNCHANGED <<written, replies>>
  BY <1>1 DEF AckedIsWritten
<1>2. CASE ProcessMsg
  <2> SUFFICES ASSUME NEW r \in replies', r.to.kind = "post"
               PROVE  \E i \in DOMAIN written' : written'[i] = IdOf(r.to)
    BY DEF AckedIsWritten
  <2>1. written \in Seq(Id) /\ IdOf(msg) \in Id
    BY IdType DEF TypeOK
  <2>2. written' = IF msg.kind \in Written THEN Append(written, IdOf(msg)) ELSE written
    BY <1>2 DEF ProcessMsg
  <2>3. \A i \in DOMAIN written : i \in DOMAIN written' /\ written'[i] = written[i]
    BY <2>1, <2>2
  <2>4. CASE r \in replies
    BY <2>3, <2>4 DEF AckedIsWritten
  <2>5. CASE r = [to |-> msg, on |-> conn]
    <3>1. written' = Append(written, IdOf(msg)) /\ r.to = msg
      BY <2>2, <2>5 DEF Written
    <3>2. Len(written) + 1 \in DOMAIN written' /\ written'[Len(written) + 1] = IdOf(msg)
      BY <2>1, <3>1
    <3> QED BY <3>1, <3>2
  <2>6. r \in replies \/ r = [to |-> msg, on |-> conn]
    BY <1>2 DEF ProcessMsg
  <2> QED BY <2>4, <2>5, <2>6
<1>3. [Next]_vars => UNCHANGED <<written, replies>> \/ ProcessMsg
  BY DEF Next, Server, Peer, vars, Open, SkipMsg, SkipEof, ReadMsg, ReadEof, CloseRaises,
         ProcessNothing, InverterSend, PeerCloses, Timeout
<1> QED BY <1>1, <1>2, <1>3

\* An answer to performance data means that it is in the output, whatever
\* happens to connections and to the output before or after (semonitor.py:88-98).
THEOREM AnswersAreKept == Spec => []AckedIsWritten
<1>1. Init => AckedIsWritten
  BY DEF Init, AckedIsWritten
<1>2. IndInv /\ AckedIsWritten /\ [Next]_vars => AckedIsWritten'
  BY AckedStep DEF IndInv
<1> QED BY <1>1, <1>2, Inductive, PTL DEF Spec

-----------------------------------------------------------------------------
(* The output is in the order of sending. *)

Before(a, b) == a[1] < b[1] \/ (a[1] = b[1] /\ a[2] < b[2])

\* The bytes before the first magic number are no message.
NoMessageInv ==
  /\ \A i \in DOMAIN rx : rx[i].n = 0 => rx[i].kind \in {"zeros", "bad"}
  /\ msg.n = 0 => msg.kind \in {"zeros", "bad"}

\* Messages are sent in the order of their places.
LogInv ==
  /\ \A i, j \in DOMAIN log : i < j => Before(log[i], log[j])
  /\ \A i \in DOMAIN log : log[i][1] < conn \/ (log[i][1] = conn /\ log[i][2] <= sent)

\* The message in hand is the last that was handled.
InHandInv == msg.n > 0 => handled # <<>> /\ handled[Len(handled)] = IdOf(msg)

\* It has still to be processed.
Pending == msg.n > 0 /\ pc \in {"open", "process"}

\* What is written has been handled, and before the message that is pending.
WrittenInv ==
  \A i \in DOMAIN written : \E k \in DOMAIN handled :
    written[i] = handled[k] /\ (Pending => k < Len(handled))

OutputInv == NoMessageInv /\ LogInv /\ InHandInv /\ WrittenInv /\ OutputInOrder

\* A step that neither returns a message nor writes one, and leaves none pending.
LEMMA QuietStep ==
  ASSUME OutputInv, UNCHANGED <<msg, handled, written>>, Pending' => Pending
  PROVE  InHandInv' /\ WrittenInv' /\ OutputInOrder'
<1>1. InHandInv' /\ OutputInOrder'
  BY DEF OutputInv, InHandInv, OutputInOrder
<1>2. WrittenInv'
  <2> SUFFICES ASSUME NEW i \in DOMAIN written
               PROVE  \E k \in DOMAIN handled :
                        written[i] = handled[k] /\ (Pending' => k < Len(handled))
    BY DEF WrittenInv
  <2>1. PICK k \in DOMAIN handled : written[i] = handled[k] /\ (Pending => k < Len(handled))
    BY DEF OutputInv, WrittenInv
  <2> QED BY <2>1
<1> QED BY <1>1, <1>2

\* A message that readMsg returns comes after all that is written.
LEMMA ReturnStep ==
  ASSUME TypeOK, OutputInv, rx # <<>>, Return(Head(rx)), rx' \in {Tail(rx), <<>>},
         UNCHANGED <<conn, sent, log, written>>
  PROVE  OutputInv'
<1>1. /\ rx \in Seq(Frame) /\ handled \in Seq(Id) /\ Head(rx) = rx[1] /\ rx[1] \in Frame
      /\ 1 \in DOMAIN rx /\ IdOf(rx[1]) \in Id /\ rx[1].n \in Nat
  <2>1. /\ rx \in Seq(Frame) /\ handled \in Seq(Id) /\ Head(rx) = rx[1] /\ rx[1] \in Frame
        /\ 1 \in DOMAIN rx
    BY DEF TypeOK
  <2>2. rx[1].n \in Nat
    BY <2>1 DEF Frame
  <2> QED BY <2>1, <2>2, IdType
<1>2. msg' = rx[1] /\ handled' = IF rx[1].n > 0 THEN Append(handled, IdOf(rx[1])) ELSE handled
  BY <1>1 DEF Return
<1>3. NoMessageInv'
  <2>1. ASSUME NEW i \in DOMAIN rx', rx'[i].n = 0 PROVE rx'[i].kind \in {"zeros", "bad"}
    <3>1. rx' = Tail(rx) /\ i + 1 \in DOMAIN rx /\ rx'[i] = rx[i + 1]
      <4>1. rx' # <<>>
        BY <2>1
      <4> QED BY <1>1, <2>1, <4>1
    <3> QED BY <2>1, <3>1 DEF OutputInv, NoMessageInv
  <2>2. msg'.n = 0 => msg'.kind \in {"zeros", "bad"}
    BY <1>1, <1>2 DEF OutputInv, NoMessageInv
  <2> QED BY <2>1, <2>2 DEF NoMessageInv
<1>4. LogInv' /\ OutputInOrder'
  BY DEF OutputInv, LogInv, OutputInOrder
<1>5. CASE rx[1].n > 0
  <2>1. /\ handled' = Append(handled, IdOf(rx[1])) /\ Len(handled) \in Nat
        /\ Len(handled') = Len(handled) + 1 /\ handled'[Len(handled) + 1] = IdOf(rx[1])
        /\ \A k \in DOMAIN handled : /\ k \in DOMAIN handled' /\ handled'[k] = handled[k]
                                     /\ k < Len(handled')
        /\ handled' # <<>>
    BY <1>1, <1>2, <1>5
  <2>2. InHandInv'
    BY <1>2, <2>1 DEF InHandInv
  <2>3. WrittenInv'
    <3> SUFFICES ASSUME NEW i \in DOMAIN written
                 PROVE  \E k \in DOMAIN handled' :
                          written[i] = handled'[k] /\ (Pending' => k < Len(handled'))
      BY DEF WrittenInv
    <3>1. PICK k \in DOMAIN handled : written[i] = handled[k]
      BY DEF OutputInv, WrittenInv
    <3> QED BY <2>1, <3>1
  <2> QED BY <1>3, <1>4, <2>2, <2>3 DEF OutputInv
<1>6. CASE ~(rx[1].n > 0)
  <2>1. handled' = handled /\ ~(msg'.n > 0)
    BY <1>2, <1>6
  <2>2. InHandInv' /\ ~Pending'
    BY <2>1 DEF InHandInv, Pending
  <2>3. WrittenInv'
    BY <2>1, <2>2 DEF OutputInv, WrittenInv
  <2> QED BY <1>3, <1>4, <2>2, <2>3 DEF OutputInv
<1> QED BY <1>5, <1>6

\* What processMsg writes comes after all that is written.
LEMMA WriteStep ==
  ASSUME TypeOK, InOrder, OutputInv, ProcessMsg
  PROVE  OutputInv'
<1>1. /\ written \in Seq(Id) /\ handled \in Seq(Id) /\ log \in Seq(Id) /\ rx \in Seq(Frame)
      /\ msg \in Frame /\ IdOf(msg) \in Id /\ msg.n \in Nat
  BY IdType DEF TypeOK, Frame
<1>2. /\ UNCHANGED <<msg, rx, log, conn, sent, handled>>
      /\ pc = "process" /\ pc' \in {"exit", "read"}
      /\ written' = IF msg.kind \in Written THEN Append(written, IdOf(msg)) ELSE written
  BY <1>1 DEF ProcessMsg, Finish
<1>3. NoMessageInv' /\ LogInv' /\ InHandInv' /\ ~Pending'
  BY <1>2 DEF OutputInv, NoMessageInv, LogInv, InHandInv, Pending
<1>4. CASE msg.kind \notin Written
  <2>1. written' = written
    BY <1>2, <1>4
  <2>2. OutputInOrder'
    BY <2>1 DEF OutputInv, OutputInOrder
  <2>3. WrittenInv'
    BY <1>2, <1>3, <2>1 DEF OutputInv, WrittenInv
  <2> QED BY <1>3, <2>2, <2>3 DEF OutputInv
<1>5. CASE msg.kind \in Written
  <2>1. msg.n > 0
    BY <1>1, <1>5 DEF OutputInv, NoMessageInv, Written
  <2>2. Pending
    BY <1>2, <2>1 DEF Pending
  <2>3. /\ Len(handled) \in DOMAIN handled /\ handled[Len(handled)] = IdOf(msg)
    BY <1>1, <2>1 DEF OutputInv, InHandInv
  <2>4. ASSUME NEW i \in DOMAIN written PROVE Before(written[i], IdOf(msg))
    <3>1. PICK k \in DOMAIN handled : written[i] = handled[k] /\ k < Len(handled)
      BY <2>2 DEF OutputInv, WrittenInv
    <3>2. /\ k \in DOMAIN log /\ Len(handled) \in DOMAIN log
          /\ handled[k] = log[k] /\ handled[Len(handled)] = log[Len(handled)]
      <4>1. Len(log) >= Len(handled)
        <5>1. Len(OnTheWay) \in Nat
          <6>1. OnTheWay \in Seq(Frame)
            BY <1>1 DEF OnTheWay
          <6> QED BY <6>1
        <5> QED BY <1>1, <5>1 DEF InOrder
      <4>2. k \in 1 .. Len(handled) /\ Len(handled) \in 1 .. Len(handled)
        BY <1>1, <2>3
      <4>3. log[k] = handled[k] /\ log[Len(handled)] = handled[Len(handled)]
        BY <4>2 DEF InOrder
      <4> QED BY <1>1, <4>1, <4>2, <4>3
    <3>3. Before(log[k], log[Len(handled)])
      BY <3>1, <3>2 DEF OutputInv, LogInv
    <3> QED BY <2>3, <3>1, <3>2, <3>3
  <2>5. /\ Len(written) \in Nat /\ DOMAIN written' = 1 .. Len(written) + 1
        /\ DOMAIN written = 1 .. Len(written)
        /\ \A i \in 1 .. Len(written) : written'[i] = written[i]
        /\ written'[Len(written) + 1] = IdOf(msg)
    BY <1>1, <1>2, <1>5
  <2>6. OutputInOrder'
    <3> SUFFICES ASSUME NEW i \in DOMAIN written', NEW j \in DOMAIN written', i < j
                 PROVE  Before(written'[i], written'[j])
      BY DEF OutputInOrder, Before
    <3>1. CASE j = Len(written) + 1
      BY <2>4, <2>5, <3>1
    <3>2. CASE j \in 1 .. Len(written)
      <4>1. i \in DOMAIN written /\ j \in DOMAIN written
        BY <2>5, <3>2
      <4>2. Before(written[i], written[j])
        BY <4>1 DEF OutputInv, OutputInOrder, Before
      <4> QED BY <2>5, <4>1, <4>2
    <3> QED BY <2>5, <3>1, <3>2
  <2>7. WrittenInv'
    <3> SUFFICES ASSUME NEW i \in DOMAIN written'
                 PROVE  \E k \in DOMAIN handled : written'[i] = handled[k]
      BY <1>2, <1>3 DEF WrittenInv
    <3>1. CASE i = Len(written) + 1
      BY <2>3, <2>5, <3>1
    <3>2. CASE i \in 1 .. Len(written)
      BY <2>5, <3>2 DEF OutputInv, WrittenInv
    <3> QED BY <2>5, <3>1, <3>2
  <2> QED BY <1>3, <2>6, <2>7 DEF OutputInv
<1> QED BY <1>4, <1>5

\* Every step keeps the order of the output.
LEMMA OutputStep == IndInv /\ OutputInv /\ [Next]_vars => OutputInv'
<1> SUFFICES ASSUME TypeOK, LoopInv, InOrder, OutputInv, [Next]_vars PROVE OutputInv'
  BY DEF IndInv
<1> USE DEF peer
<1>1. rx \in Seq(Frame) /\ log \in Seq(Id) /\ msg \in Frame /\ conn \in Nat /\ sent \in Nat
  BY DEF TypeOK
\* a step of readData that neither reads, opens nor writes
<1>2. ASSUME UNCHANGED <<msg, handled, written, log, conn, sent, rx>>,
             Pending' => Pending
      PROVE  OutputInv'
  <2>1. NoMessageInv' /\ LogInv'
    BY <1>2 DEF OutputInv, NoMessageInv, LogInv
  <2> QED BY <1>2, <2>1, QuietStep DEF OutputInv
<1>3. CASE Open
  <2>1. NoMessageInv'
    <3>1. PICK k \in {"zeros", "bad"} : rx' = <<[conn |-> conn + 1, n |-> 0, kind |-> k]>>
      BY <1>3 DEF Open
    <3>2. \A i \in DOMAIN rx' : rx'[i].kind \in {"zeros", "bad"}
      BY <3>1
    <3>3. msg' = msg
      BY <1>3 DEF Open
    <3> QED BY <3>2, <3>3 DEF OutputInv, NoMessageInv
  <2>2. LogInv'
    <3>1. log' = log /\ conn' = conn + 1
      BY <1>3 DEF Open
    <3>2. \A i \in DOMAIN log : log[i][1] < conn'
      <4> SUFFICES ASSUME NEW i \in DOMAIN log PROVE log[i][1] < conn'
        OBVIOUS
      <4>1. log[i][1] \in Nat
        BY <1>1 DEF Id
      <4>2. log[i][1] < conn \/ log[i][1] = conn
        BY DEF OutputInv, LogInv
      <4> QED BY <1>1, <3>1, <4>1, <4>2
    <3>3. \A i, j \in DOMAIN log' : i < j => Before(log'[i], log'[j])
      BY <3>1 DEF OutputInv, LogInv
    <3> QED BY <3>1, <3>2, <3>3 DEF LogInv
  <2>3. UNCHANGED <<msg, handled, written>> /\ (Pending' => Pending)
    BY <1>3 DEF Open, Pending
  <2> QED BY <2>1, <2>2, <2>3, QuietStep DEF OutputInv
<1>4. CASE SkipMsg
  <2>1. /\ rx' = Tail(rx) /\ rx # <<>> /\ pc' = "read"
        /\ UNCHANGED <<msg, handled, written, log, conn, sent>>
    BY <1>4, <1>1 DEF SkipMsg
  <2>2. NoMessageInv'
    <3>1. \A i \in DOMAIN Tail(rx) : i + 1 \in DOMAIN rx /\ Tail(rx)[i] = rx[i + 1]
      BY <1>1, <2>1
    <3> QED BY <2>1, <3>1 DEF OutputInv, NoMessageInv
  <2>3. LogInv' /\ ~Pending'
    BY <2>1 DEF OutputInv, LogInv, Pending
  <2> QED BY <2>1, <2>2, <2>3, QuietStep DEF OutputInv
<1>5. CASE SkipEof
  BY <1>2, <1>5 DEF SkipEof, Pending
<1>6. CASE ReadMsg
  <2>1. rx # <<>> /\ rx' = Tail(rx) /\ UNCHANGED <<conn, sent, log, written>>
    BY <1>1, <1>6 DEF ReadMsg
  <2> QED BY <1>6, <2>1, ReturnStep DEF ReadMsg
<1>7. CASE ReadEof \/ CloseRaises
  <2>1. rx # <<>> /\ rx' = <<>> /\ UNCHANGED <<conn, sent, log, written>>
    BY <1>7 DEF ReadEof, CloseRaises, LoopInv
  <2> QED BY <1>7, <2>1, ReturnStep DEF ReadEof, CloseRaises
<1>8. CASE ProcessNothing
  <2>1. pc' \in {"exit", "read"}
    BY <1>8 DEF ProcessNothing, Finish
  <2> QED BY <1>2, <1>8, <2>1 DEF ProcessNothing, Pending
<1>9. CASE ProcessMsg
  BY <1>9, WriteStep
<1>10. ASSUME NEW k \in InverterKinds, InverterSend(k) PROVE OutputInv'
  <2> DEFINE f == [conn |-> conn, n |-> sent + 1, kind |-> k]
  <2>1. f.n > 0 /\ f \in Frame /\ <<conn, sent + 1>> \in Id
    BY <1>1, <1>10 DEF InverterSend, TypeOK, Frame, Id
  <2>2. /\ rx' = Append(rx, f) /\ log' = Append(log, <<conn, sent + 1>>)
        /\ sent' = sent + 1 /\ UNCHANGED <<msg, handled, written, conn, pc>>
    BY <1>10 DEF InverterSend
  <2> HIDE DEF f
  <2>3. NoMessageInv'
    <3>1. \A i \in DOMAIN rx' : (i \in DOMAIN rx /\ rx'[i] = rx[i]) \/ rx'[i] = f
      BY <1>1, <2>1, <2>2
    <3> QED BY <2>1, <2>2, <3>1 DEF OutputInv, NoMessageInv
  <2>4. LogInv'
    <3>1. /\ Len(log) \in Nat /\ DOMAIN log = 1 .. Len(log)
          /\ DOMAIN log' = 1 .. Len(log) + 1
          /\ \A i \in 1 .. Len(log) : log'[i] = log[i]
          /\ log'[Len(log) + 1] = <<conn, sent + 1>>
      BY <1>1, <2>1, <2>2
    <3>2. ASSUME NEW i \in 1 .. Len(log)
          PROVE  /\ Before(log[i], <<conn, sent + 1>>)
                 /\ log[i][1] < conn \/ (log[i][1] = conn /\ log[i][2] <= sent + 1)
      <4>1. log[i][1] \in Nat /\ log[i][2] \in Nat
        BY <1>1, <3>1 DEF Id
      <4>2. log[i][1] < conn \/ (log[i][1] = conn /\ log[i][2] <= sent)
        BY <3>1 DEF OutputInv, LogInv
      <4> QED BY <1>1, <4>1, <4>2 DEF Before
    <3>3. ASSUME NEW i \in DOMAIN log', NEW j \in DOMAIN log', i < j
          PROVE  Before(log'[i], log'[j])
      <4>1. CASE j = Len(log) + 1
        BY <3>1, <3>2, <3>3, <4>1
      <4>2. CASE j \in 1 .. Len(log)
        <5>1. i \in DOMAIN log /\ j \in DOMAIN log /\ log'[i] = log[i] /\ log'[j] = log[j]
          BY <3>1, <3>3, <4>2
        <5> QED BY <3>3, <5>1 DEF OutputInv, LogInv
      <4> QED BY <3>1, <4>1, <4>2
    <3>4. ASSUME NEW i \in DOMAIN log'
          PROVE  log'[i][1] < conn' \/ (log'[i][1] = conn' /\ log'[i][2] <= sent')
      <4>1. CASE i = Len(log) + 1
        BY <1>1, <2>2, <3>1, <4>1
      <4>2. CASE i \in 1 .. Len(log)
        BY <2>2, <3>1, <3>2, <4>2
      <4> QED BY <3>1, <4>1, <4>2
    <3> QED BY <3>3, <3>4 DEF LogInv
  <2> QED BY <2>2, <2>3, <2>4, QuietStep DEF OutputInv, Pending
<1>11. CASE PeerCloses \/ Timeout
  <2>1. /\ rx # <<>> /\ rx' \in Truncated
        /\ UNCHANGED <<pc, msg, handled, written, log, conn, sent>>
    BY <1>11 DEF PeerCloses, Timeout, LoopInv
  <2>2. NoMessageInv'
    <3>1. DOMAIN rx' = DOMAIN rx /\ \A i \in DOMAIN rx : /\ rx'[i].n = rx[i].n
                                                        /\ rx'[i].kind \in {rx[i].kind, "bad"}
      <4>1. CASE rx' = rx
        BY <4>1
      <4>2. CASE rx' = [rx EXCEPT ![Len(rx)].kind = "bad"]
        <5>1. /\ DOMAIN rx' = DOMAIN rx
              /\ \A i \in DOMAIN rx : rx'[i] = IF i = Len(rx) THEN [rx[i] EXCEPT !.kind = "bad"]
                                                               ELSE rx[i]
          BY <4>2
        <5>2. \A i \in DOMAIN rx : rx[i] \in Frame
          BY <1>1
        <5>3. \A g \in Frame : [g EXCEPT !.kind = "bad"].n = g.n
                               /\ [g EXCEPT !.kind = "bad"].kind = "bad"
          BY DEF Frame
        <5> QED BY <5>1, <5>2, <5>3
      <4> QED BY <2>1, <4>1, <4>2 DEF Truncated
    <3> QED BY <2>1, <3>1 DEF OutputInv, NoMessageInv
  <2>3. LogInv' /\ (Pending' => Pending)
    BY <2>1 DEF OutputInv, LogInv, Pending
  <2> QED BY <2>1, <2>2, <2>3, QuietStep DEF OutputInv
<1>12. CASE UNCHANGED vars
  BY <1>2, <1>12 DEF vars, Pending
<1> QED BY <1>3, <1>4, <1>5, <1>6, <1>7, <1>8, <1>9, <1>10, <1>11, <1>12
        DEF Next, Server, Peer

\* The output has each message at most once and in the order of sending, over
\* all connections, although a message is processed on the connection after its
\* own (semonitor.py:53-57, 88-90).
THEOREM OutputIsInOrder == Spec => []OutputInOrder
<1>1. Init => OutputInv
  BY DEF Init, Nothing, OutputInv, NoMessageInv, LogInv, InHandInv, WrittenInv, OutputInOrder
<1>2. OutputInv => OutputInOrder
  BY DEF OutputInv
<1> QED BY <1>1, <1>2, Inductive, OutputStep, PTL DEF Spec
=============================================================================
