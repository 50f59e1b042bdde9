------------------------------ MODULE ReadData ------------------------------
(***************************************************************************)
(* semonitor.py reading messages in passive framing without being a bus    *)
(* master: as the server of an inverter (-t n, networkDevice), or else     *)
(* from a file, stdin or a serial port it only listens to.  One thread     *)
(* runs readData; the inverter, or whoever writes the file, is external.   *)
(*                                                                         *)
(* As in RS485Master, rx is the receive side as a sequence of frames: what *)
(* precedes the first magic number (n = 0), then the messages.  readMsg    *)
(* returns rx[1] when it has seen the magic number of rx[2], or the end of *)
(* the file.                                                               *)
(***************************************************************************)
EXTENDS SeMsg, Sequences

CONSTANTS
  InverterKinds,\* the kinds of message that are sent
  MaxConn,      \* bound on the number of connections
  MaxSend,      \* bound on the messages of one connection
  Window,       \* how many unanswered messages an inverter has at most
  Flaky,        \* connections break in the middle of a message
  OutputFails,  \* a write to the output file may fail (a broken pipe)
  XError        \* the -x option

ASSUME SwitchAssumption == /\ Flaky \in BOOLEAN
                           /\ OutputFails \in BOOLEAN
                           /\ XError \in BOOLEAN
ASSUME BoundAssumption == /\ MaxConn \in Nat \ {0}
                          /\ MaxSend \in Nat
                          /\ Window \in Nat \ {0}
                          /\ InverterKinds \subseteq Kinds

VARIABLES
  networkDevice,\* mode.networkDevice, which never changes
  pc,           \* where readData is
  eof,          \* its local variable
  msg,          \* the message it works on
  conn,         \* the number of connections opened so far
  link,         \* the state of the current one
  broken,       \* a reply could not be sent on it and is still buffered
  rx,           \* the receive side
  sent,         \* messages sent on this connection
  waiting,      \* how many of them the inverter waits for an answer to
  log,          \* history: every message sent
  handled,      \* history: every message readMsg has returned
  written,      \* the output file
  replies       \* history: the replies sent, and on which connection

peer == <<sent, waiting, log>>
vars == <<networkDevice, pc, eof, msg, conn, link, broken, rx, sent, waiting, log,
          handled, written, replies>>

Id    == (0 .. MaxConn) \X (0 .. MaxSend)
Frame == [conn : 0 .. MaxConn, n : 0 .. MaxSend, kind : Kinds]
IdOf(f) == <<f.conn, f.n>>
Nothing == [conn |-> 0, n |-> 0, kind |-> "zeros"]

TypeOK ==
  /\ networkDevice \in BOOLEAN
  /\ pc \in {"open", "skip", "read", "process", "exit"}
  /\ eof \in BOOLEAN
  /\ msg \in Frame
  /\ conn \in 0 .. MaxConn
  /\ link \in {"none", "open", "closed", "timedOut"}
  /\ broken \in BOOLEAN
  /\ rx \in Seq(Frame)
  /\ sent \in 0 .. MaxSend
  /\ waiting \in Nat
  /\ log \in Seq(Id)
  /\ handled \in Seq(Id)
  /\ written \in Seq(Id)
  /\ replies \subseteq [to : Frame, on : 0 .. MaxConn]

Init ==
  /\ networkDevice \in BOOLEAN
  /\ pc = "open"
  /\ eof = FALSE
  /\ msg = Nothing
  /\ conn = 0
  /\ link = "none"
  /\ broken = FALSE
  /\ rx = <<>>
  /\ sent = 0
  /\ waiting = 0
  /\ log = <<>>
  /\ handled = <<>>
  /\ written = <<>>
  /\ replies = {}

\* No more bytes will come, and readMsg has all of them.
AtEof == link \in {"closed", "timedOut"} /\ Len(rx) <= 1

-----------------------------------------------------------------------------
(* readData *)

\* The data source is opened: by the main program, or by readData when it has
\* lost its connection and still has the last message of it to process.
Open ==
  /\ pc = "open"
  /\ conn < MaxConn
  /\ conn' = conn + 1
  /\ link' = "open"
  /\ broken' = FALSE
  /\ \E k \in {"zeros", "bad"} : rx' = <<[conn |-> conn + 1, n |-> 0, kind |-> k]>>
  /\ sent' = 0
  /\ waiting' = 0
  /\ pc' = IF conn = 0 THEN "skip"
           ELSE IF msg.kind = "zeros" THEN "read" ELSE "process"
  /\ UNCHANGED <<networkDevice, eof, msg, log, handled, written, replies>>

\* Mutant of SkipMsg: the first complete message is skipped as well.
SkipMsgTwo ==
  /\ pc = "skip"
  /\ Len(rx) >= 3
  /\ rx' = Tail(Tail(rx))
  /\ pc' = "read"
  /\ UNCHANGED <<networkDevice, eof, msg, conn, link, broken, peer, handled, written, replies>>

\* skip data until the start of the first complete message
SkipMsg ==
  /\ pc = "skip"
  /\ Len(rx) >= 2
  /\ rx' = Tail(rx)
  /\ pc' = "read"
  /\ UNCHANGED <<networkDevice, eof, msg, conn, link, broken, peer, handled, written, replies>>

\* The end of the file while skipping: the loop is never entered.
SkipEof ==
  /\ pc = "skip"
  /\ AtEof
  /\ eof' = TRUE
  /\ pc' = "exit"
  /\ UNCHANGED <<networkDevice, msg, conn, link, broken, rx, peer, handled, written, replies>>

\* The message and its place in the history.
Return(f) ==
  /\ msg' = f
  /\ handled' = IF f.n > 0 THEN Append(handled, IdOf(f)) ELSE handled

\* Mutant of ReadMsg: two frames are held back instead of one.
ReadMsgLate ==
  /\ pc = "read"
  /\ Len(rx) >= 3
  /\ Return(Head(rx))
  /\ rx' = Tail(rx)
  /\ pc' = IF Head(rx).kind = "zeros" THEN "read" ELSE "process"
  /\ UNCHANGED <<networkDevice, eof, conn, link, broken, peer, written, replies>>

\* readMsg returns a message; one without anything but zeros is ignored.
ReadMsg ==
  /\ pc = "read"
  /\ Len(rx) >= 2
  /\ Return(Head(rx))
  /\ rx' = Tail(rx)
  /\ pc' = IF Head(rx).kind = "zeros" THEN "read" ELSE "process"
  /\ UNCHANGED <<networkDevice, eof, conn, link, broken, peer, written, replies>>

\* Mutant of ReadEof: the message that the end of the file completes is lost.
ReadEofDrops ==
  /\ pc = "read"
  /\ AtEof
  /\ rx' = <<>>
  /\ link' = "none"
  /\ eof' = ~networkDevice
  /\ pc' = IF networkDevice THEN "open" ELSE "exit"
  /\ UNCHANGED <<networkDevice, msg, conn, broken, peer, handled, written, replies>>

\* Mutant of ReadEof: the end of a connection ends the program.
ReadEofExits ==
  /\ pc = "read"
  /\ AtEof
  /\ Return(Head(rx))
  /\ rx' = <<>>
  /\ link' = "none"
  /\ eof' = TRUE
  /\ pc' = IF Head(rx).kind = "zeros" THEN "exit" ELSE "process"
  /\ UNCHANGED <<networkDevice, conn, broken, peer, written, replies>>

\* readMsg returns what there is at the end of the file.  In network mode the
\* connection is closed and the next one awaited BEFORE it is processed.
ReadEof ==
  /\ pc = "read"
  /\ AtEof
  /\ Return(Head(rx))
  /\ rx' = <<>>
  /\ link' = "none"
  /\ eof' = ~networkDevice
  /\ pc' = IF networkDevice THEN "open"
           ELSE IF Head(rx).kind = "zeros" THEN "exit" ELSE "process"
  /\ UNCHANGED <<networkDevice, conn, broken, peer, written, replies>>

\* A reply that could not be sent is sent again when the connection is closed, which
\* raises outside the try: readData ends, with the last message unprocessed.
CloseRaises ==
  /\ pc = "read"
  /\ AtEof
  /\ networkDevice /\ broken
  /\ Return(Head(rx))
  /\ rx' = <<>>
  /\ link' = "none"
  /\ eof' = TRUE
  /\ pc' = "exit"
  /\ UNCHANGED <<networkDevice, conn, broken, peer, written, replies>>

\* Back to the loop, or out of it.
Finish(raised) == pc' = IF eof \/ (raised /\ XError) THEN "exit" ELSE "read"

\* processMsg ignores the message, or raises before it has any effect: the
\* parser cannot cope with it or its data cannot be written.
ProcessNothing ==
  /\ pc = "process"
  /\ \/ msg.kind \in Rejected /\ Finish(FALSE)
     \/ msg.kind \in Raising /\ Finish(TRUE)
     \/ msg.kind \in Written /\ OutputFails /\ Finish(TRUE)
  /\ UNCHANGED <<networkDevice, eof, msg, conn, link, broken, rx, peer, handled, written,
                 replies>>

\* Mutant of ProcessMsg: the answer is sent before the data is written.
ProcessMsgAckFirst ==
  /\ pc = "process"
  /\ msg.kind \notin Rejected \cup Raising
  /\ written' \in {Append(written, IdOf(msg)), written}
  /\ replies' = replies \cup {[to |-> msg, on |-> conn]}
  /\ Finish(FALSE)
  /\ UNCHANGED <<networkDevice, eof, msg, conn, link, broken, rx, peer, handled>>

\* Mutant of ProcessMsg: a message whose answer could not be sent is tried again.
ProcessMsgRetries ==
  /\ pc = "process"
  /\ msg.kind \notin Rejected \cup Raising
  /\ Len(written) < MaxConn * MaxSend
  /\ written' = IF msg.kind \in Written THEN Append(written, IdOf(msg)) ELSE written
  /\ IF link # "open" THEN UNCHANGED pc ELSE Finish(FALSE)
  /\ UNCHANGED <<networkDevice, eof, msg, conn, link, broken, rx, peer, handled, replies>>

\* processMsg writes the data and, in network mode, answers on the connection
\* that is open now.  A reply to a peer that has gone is lost or raises.
ProcessMsg ==
  /\ pc = "process"
  /\ msg.kind \notin Rejected \cup Raising
  /\ written' = IF msg.kind \in Written THEN Append(written, IdOf(msg)) ELSE written
  /\ IF networkDevice /\ ReplyTo(msg.kind) # "none"
     THEN \/ /\ replies' = replies \cup {[to |-> msg, on |-> conn]}
             /\ waiting' = IF link = "open" /\ waiting > 0 THEN waiting - 1
                                                           ELSE waiting
             /\ Finish(FALSE) /\ UNCHANGED broken
          \/ link # "open" /\ broken' = TRUE /\ Finish(TRUE) /\ UNCHANGED <<replies, waiting>>
     ELSE Finish(FALSE) /\ UNCHANGED <<broken, replies, waiting>>
  /\ UNCHANGED <<networkDevice, eof, msg, conn, link, rx, sent, log, handled>>

Server == \/ Open \/ SkipMsg \/ SkipEof \/ ReadMsg \/ ReadEof \/ CloseRaises
          \/ ProcessNothing \/ ProcessMsg

-----------------------------------------------------------------------------
(* The inverter and the network, or the writer of the file. *)

\* The next message.
InverterSend(k) ==
  /\ link = "open"
  /\ sent < MaxSend
  /\ waiting < Window
  /\ sent' = sent + 1
  /\ rx' = Append(rx, [conn |-> conn, n |-> sent + 1, kind |-> k])
  /\ log' = Append(log, <<conn, sent + 1>>)
  /\ waiting' = IF ReplyTo(k) # "none" THEN waiting + 1 ELSE waiting
  /\ UNCHANGED <<networkDevice, pc, eof, msg, conn, link, broken, handled, written, replies>>

\* The receive side when no more bytes come: the last frame may be cut short.
Truncated == {rx} \cup
             (IF Flaky THEN {[rx EXCEPT ![Len(rx)].kind = "bad"]} ELSE {})

\* The connection is closed or breaks; the file ends.
PeerCloses ==
  /\ link = "open"
  /\ link' = "closed"
  /\ rx' \in Truncated
  /\ UNCHANGED <<networkDevice, pc, eof, msg, conn, broken, peer, handled, written, replies>>

\* The socket's receive timeout: readMsg waits, and nothing comes.
Timeout ==
  /\ networkDevice
  /\ link = "open"
  /\ pc \in {"skip", "read"}
  /\ Len(rx) <= 1
  /\ link' = "timedOut"
  /\ rx' \in Truncated
  /\ UNCHANGED <<networkDevice, pc, eof, msg, conn, broken, peer, handled, written, replies>>

Peer == (\E k \in InverterKinds : InverterSend(k)) \/ PeerCloses \/ Timeout

Next == Server \/ Peer

Spec == Init /\ [][Next]_vars

\* The program runs; the inverter owes nothing.
FairSpec == /\ Spec
            /\ WF_vars(SkipMsg) /\ WF_vars(SkipEof) /\ WF_vars(ReadMsg)
            /\ WF_vars(ReadEof \/ CloseRaises) /\ WF_vars(ProcessNothing \/ ProcessMsg)

-----------------------------------------------------------------------------
(* Safety. *)

\* The messages still on the receive side.
OnTheWay == IF rx # <<>> /\ Head(rx).n = 0 THEN Tail(rx) ELSE rx

\* Every message sent is returned by readMsg once and in order, or is still on
\* its way: neither the skipping of the first bytes, nor the delimiting by the
\* next magic number, nor a reconnection loses or repeats one
\* (semonitor.py:46-57, msg.py:48-55).
InOrder ==
  /\ Len(log) = Len(handled) + Len(OnTheWay)
  /\ \A i \in 1 .. Len(handled) : log[i] = handled[i]
  /\ \A i \in 1 .. Len(OnTheWay) : log[Len(handled) + i] = IdOf(OnTheWay[i])

\* What the loop relies on: only the first frame of the receive side can be
\* what preceded the first magic number, it is while the loop skips it, and
\* there is always a first frame to read.
LoopInv ==
  /\ \A i \in DOMAIN rx : i > 1 => rx[i].n > 0
  /\ pc = "open" => rx = <<>> /\ link = "none"
  /\ pc = "skip" => rx # <<>> /\ Head(rx).n = 0
  /\ (link = "open" \/ pc = "read" \/ (pc = "process" /\ ~eof)) => rx # <<>>

IndInv == TypeOK /\ LoopInv /\ InOrder

\* An answer to performance data means that it is in the output file
\* (semonitor.py:88-98).
AckedIsWritten ==
  \A r \in replies : r.to.kind = "post" =>
    \E i \in DOMAIN written : written[i] = IdOf(r.to)

\* The output file has each message at most once, in the order of sending, over
\* all connections (semonitor.py:88-90).
OutputInOrder ==
  \A i, j \in DOMAIN written : i < j =>
    \/ written[i][1] < written[j][1]
    \/ written[i][1] = written[j][1] /\ written[i][2] < written[j][2]

-----------------------------------------------------------------------------
(* Liveness. *)

\* A message that is followed by another, or by the end of its connection, is
\* handled, unless the program ends (semonitor.py:49-71).
HandledEventually ==
  \A c \in 1 .. MaxConn, n \in 1 .. MaxSend :
    (/\ conn = c /\ sent >= n
     /\ sent > n \/ link # "open")
      ~> (pc = "exit" \/ \E i \in DOMAIN handled : handled[i] = <<c, n>>)

\* A server that has lost its connection after the first message listens again,
\* or halts on an error under -x, unless a reply could not be sent on the connection:
\* then closing it may end the program (semonitor.py:53-57, files.py:68-70).
ListensAgain ==
  (networkDevice /\ link \in {"closed", "timedOut"} /\ pc \in {"read", "process"})
    ~> (pc = "open" \/ (pc = "exit" /\ (XError \/ broken)))

-----------------------------------------------------------------------------
(* What the comments say, and the code does not do. *)

\* "eof from network means connection was broken, wait for a reconnect and
\* continue" (semonitor.py:53)
ServerContinues == (networkDevice /\ ~XError) => pc # "exit"
=============================================================================
