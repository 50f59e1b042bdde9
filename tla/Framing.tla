------------------------------ MODULE Framing ------------------------------
(***************************************************************************)
(* se/msg.py on the level of bytes: how readMsg cuts a stream into         *)
(* messages, which of them validateMsg accepts, and what readBytes and     *)
(* sendMsg leave in the record file (-r).                                  *)
(*                                                                         *)
(* A byte is a number.  The numbers below 10 are bytes of data, of which   *)
(* the magic number is made; the 16 bytes of a header are one number that  *)
(* holds the function and the length, and the checksum is one number.  The *)
(* sequence number and the addresses are left out.                         *)
(*                                                                         *)
(* The stream has whole messages, messages cut short or with a byte        *)
(* changed, stray bytes, and begins in the middle of a message.            *)
(***************************************************************************)
EXTENDS Integers, Sequences, SequencesExt, FiniteSets

CONSTANTS
  Magic,        \* the magic number: different bytes of data
  Payloads,     \* what messages carry: sequences of bytes of data
  Stray,        \* bytes of data that appear in the stream by accident
  MaxItems,     \* bound on what is put into the stream
  MaxDamage,    \* bound on what of it is not a whole message
  MaxSends,     \* bound on what the program sends that is not an answer
  calcCrc(_, _) \* the checksum of a function and data

DataBytes == 0 .. 9

ASSUME MagicAssumption ==
  /\ Magic \in Seq(DataBytes) /\ Len(Magic) >= 1
  /\ \A i, j \in 1 .. Len(Magic) : Magic[i] = Magic[j] => i = j
ASSUME DataAssumption ==
  /\ Payloads \subseteq Seq(DataBytes)
  /\ \A d \in Payloads : Len(d) < 10
  /\ Stray \subseteq DataBytes
  /\ MaxItems \in Nat /\ MaxDamage \in Nat /\ MaxSends \in Nat
ASSUME CrcAssumption ==
  \A fn \in {1, 2, 3}, d \in Payloads \cup {<<>>} : calcCrc(fn, d) \in Nat

-----------------------------------------------------------------------------
(* Messages. *)

Post == 1                     \* a message the program answers
Ack  == 2                     \* its answer
Grant == 3                    \* a grant or a command
Functions == {Post, Ack, Grant}

Header(fn, n) == 10 * fn + n

Message(fn, data) == [function |-> fn, data |-> data]
formatMsg(m) ==
  <<Header(m.function, Len(m.data))>> \o m.data \o <<calcCrc(m.function, m.data)>>

\* The bytes of data that are ever in the stream.
StreamBytes == Stray \cup ToSet(Magic) \cup UNION {ToSet(d) : d \in Payloads}

\* The number of a checksum is never that of a header or of a byte of data, and it
\* tells when a byte has been changed (see Crc).
ASSUME DamageAssumption ==
  /\ calcCrc(Ack, <<>>) \notin DataBytes /\ calcCrc(Grant, <<>>) \notin DataBytes
  /\ \A d \in Payloads :
       /\ \A x \in [1 .. Len(d) -> StreamBytes] : calcCrc(Post, x) \notin 0 .. Header(Grant, 9)
       /\ \A i \in 1 .. Len(d) : \A b \in Stray \ {d[i]} :
            calcCrc(Post, [d EXCEPT ![i] = b]) # calcCrc(Post, d)

\* What a header says, whatever the byte in its place is.
functionIn(msg) == msg[1] \div 10
dataLenIn(msg)  == msg[1] % 10
dataIn(msg)     == SubSeq(msg, 2, dataLenIn(msg) + 1)

\* Mutant of validateMsg: the message must be longer than its header says.
validateMsgLonger(msg) ==
  /\ Len(msg) >= 2
  /\ functionIn(msg) \in Functions
  /\ dataLenIn(msg) + 2 < Len(msg)
  /\ msg[dataLenIn(msg) + 2] = calcCrc(functionIn(msg), dataIn(msg))

\* Bytes after the checksum are discarded.
validateMsg(msg) ==
  /\ Len(msg) >= 2
  /\ functionIn(msg) \in Functions
  /\ dataLenIn(msg) + 2 <= Len(msg)
  /\ msg[dataLenIn(msg) + 2] = calcCrc(functionIn(msg), dataIn(msg))

\* Mutant of parseMsg: a message that is not valid is not ignored.
parseMsgZero(msg) ==
  IF validateMsg(msg) THEN <<Message(functionIn(msg), dataIn(msg))>>
                      ELSE <<Message(0, <<>>)>>

\* The messages the caller gets from what readMsg returns: one or none.
parseMsg(msg) ==
  IF validateMsg(msg) THEN <<Message(functionIn(msg), dataIn(msg))>> ELSE <<>>

HasMagic(s) == \E i \in 1 .. Len(s) - Len(Magic) + 1 :
                 SubSeq(s, i, i + Len(Magic) - 1) = Magic

\* readMsg cuts a message in two whose bytes contain the magic number.
Readable(m) == ~HasMagic(formatMsg(m))

-----------------------------------------------------------------------------
VARIABLES
  wire,         \* what is in the stream and has not been read
  closed,       \* the stream has ended
  items,        \* how much has been put into the stream
  sent,         \* history: the messages put into the stream whole
  readable,     \* history: those of them that readMsg does not cut in two
  damage,       \* history: how often something else has been put into it
  mode,         \* who reads, see Modes
  replies,      \* the program answers (mode.networkDevice or mode.masterMode)
  pc,           \* the reader
  msg,          \* what readMsg has read
  handled,      \* history: the messages the caller has got
  sends,        \* how often the program has sent something that is no answer
  rec           \* the record file

put    == <<items, sent, readable, damage>>
stream == <<wire, closed, put>>
kind   == <<mode, replies>>
vars   == <<stream, kind, pc, msg, handled, sends, rec>>

\* readMsg is called until the end of the file: by readData, which drops the
\* first message when it is passive; by readData on an RS485 line; or message by
\* message by doCommands, on a line that is not RS485, where nothing is answered.
\* doCommands reads an RS485 line as readData does, without answers.
Modes == {"passive", "rs485", "active"}

TypeOK ==
  /\ wire \in Seq(Nat) /\ msg \in Seq(Nat) /\ rec \in Seq(Nat)
  /\ closed \in BOOLEAN /\ replies \in BOOLEAN
  /\ items \in 0 .. MaxItems /\ damage \in Nat /\ sends \in 0 .. MaxSends
  /\ sent \in Seq([function : {Post}, data : Payloads])
  /\ readable \in Seq([function : {Post}, data : Payloads])
  /\ handled \in Seq([function : Functions, data : Seq(Nat)])
  /\ mode \in Modes /\ (mode = "active" => ~replies)
  /\ pc \in {"skip", "read", "done", "raised"}

\* The stream begins between two messages, or in the middle of one.
Init ==
  /\ \/ wire = <<>>
     \/ \E d \in Payloads :
          LET f == formatMsg(Message(Post, d))
          IN  \E i \in 2 .. Len(f) : wire = SubSeq(f, i, Len(f))
  /\ damage = IF wire = <<>> THEN 0 ELSE 1
  /\ closed = FALSE /\ items = 0 /\ sent = <<>> /\ readable = <<>>
  /\ mode \in Modes
  /\ replies \in IF mode = "active" THEN {FALSE} ELSE BOOLEAN
  /\ pc = IF mode = "passive" THEN "skip" ELSE "read"
  /\ msg = <<>> /\ handled = <<>> /\ sends = 0 /\ rec = <<>>

-----------------------------------------------------------------------------
(* The stream. *)

Put(bytes) == /\ ~closed /\ items < MaxItems
              /\ wire' = wire \o bytes
              /\ items' = items + 1
              /\ UNCHANGED <<closed, kind, pc, msg, handled, sends, rec>>

Damage == damage < MaxDamage /\ damage' = damage + 1

PutMessage == \E d \in Payloads :
                LET m == Message(Post, d)
                IN  /\ Put(Magic \o formatMsg(m))
                    /\ sent' = Append(sent, m)
                    /\ readable' = IF Readable(m) THEN Append(readable, m) ELSE readable
                    /\ UNCHANGED damage

\* A message that stops after some bytes, or with one of its bytes changed.
PutDamaged == \E d \in Payloads :
                LET f == formatMsg(Message(Post, d))
                IN  \E i \in 1 .. Len(f) :
                      /\ \/ Put(Magic \o SubSeq(f, 1, i - 1))
                         \/ \E b \in Stray \ {f[i]} : Put(Magic \o ReplaceAt(f, i, b))
                      /\ Damage
                      /\ UNCHANGED <<sent, readable>>

PutStray == \E b \in Stray : /\ Put(<<b>>)
                             /\ Damage
                             /\ UNCHANGED <<sent, readable>>

EndStream == /\ ~closed
             /\ closed' = TRUE
             /\ UNCHANGED <<wire, put, kind, pc, msg, handled, sends, rec>>

-----------------------------------------------------------------------------
(* The reader. *)

\* readMsg has returned m and r has been recorded: processMsg takes the message
\* and answers it, and sendMsg records the answer.
Caller(m, r) ==
  /\ msg' = <<>>
  /\ IF pc = "skip"
     THEN /\ rec' = r
          /\ UNCHANGED handled
     ELSE /\ handled' = handled \o parseMsg(m)
          /\ rec' = IF replies /\ \E x \in ToSet(parseMsg(m)) : x.function = Post
                    THEN r \o Magic \o formatMsg(Message(Ack, <<>>))
                    ELSE r

\* The two ways readMsg has to find the end of a message.
Delimiting == mode # "active" /\ pc \in {"skip", "read"}
Trusting   == mode = "active" /\ pc = "read"

\* Mutant of ReadByte: the magic number is looked for at the beginning only.
ReadByteAligned ==
  /\ Delimiting /\ wire # <<>>
  /\ wire' = Tail(wire)
  /\ LET m == Append(msg, Head(wire))
         r == Append(rec, Head(wire))
     IN  IF m = Magic
         THEN Caller(<<>>, r) /\ pc' = "read"
         ELSE msg' = m /\ rec' = r /\ UNCHANGED <<pc, handled>>
  /\ UNCHANGED <<closed, put, kind, sends>>

\* Mutant of ReadByte: what is recorded is the message, without its magic number.
ReadByteRecordsMsg ==
  /\ Delimiting /\ wire # <<>>
  /\ wire' = Tail(wire)
  /\ LET m == Append(msg, Head(wire))
     IN  IF IsSuffix(Magic, m)
         THEN /\ Caller(SubSeq(m, 1, Len(m) - Len(Magic)),
                        rec \o SubSeq(m, 1, Len(m) - Len(Magic)))
              /\ pc' = "read"
         ELSE msg' = m /\ UNCHANGED <<pc, rec, handled>>
  /\ UNCHANGED <<closed, put, kind, sends>>

\* One byte at a time until the bytes end with the magic number, which is not
\* part of the message.
ReadByte ==
  /\ Delimiting /\ wire # <<>>
  /\ wire' = Tail(wire)
  /\ LET m == Append(msg, Head(wire))
         r == Append(rec, Head(wire))
     IN  IF IsSuffix(Magic, m)
         THEN /\ Caller(SubSeq(m, 1, Len(m) - Len(Magic)), r)
              /\ pc' = "read"
         ELSE msg' = m /\ rec' = r /\ UNCHANGED <<pc, handled>>
  /\ UNCHANGED <<closed, put, kind, sends>>

\* A message also ends with the file.
ReadEof ==
  /\ Delimiting /\ wire = <<>> /\ closed
  /\ Caller(msg, rec)
  /\ pc' = "done"
  /\ UNCHANGED <<stream, kind, sends>>

\* What readBytes(n) returns: it waits for n bytes or for the end.
CanRead(n) == Len(wire) >= n \/ closed
Bytes(n)   == SubSeq(wire, 1, IF Len(wire) < n THEN Len(wire) ELSE n)

\* Mutant of ReadActive: the checksum is not counted.
ReadActiveShort ==
  /\ Trusting
  /\ LET n == Len(Magic) + 1
     IN  /\ Len(wire) >= n
         /\ LET f == n + dataLenIn(SubSeq(wire, n, n))
            IN  /\ CanRead(f)
                /\ Caller(SubSeq(Bytes(f), n, Len(Bytes(f))), rec \o Bytes(f))
                /\ wire' = SubSeq(wire, Len(Bytes(f)) + 1, Len(wire))
  /\ UNCHANGED <<closed, put, kind, pc, sends>>

\* As many bytes as the magic number and a header have, then as many as the
\* header says; nothing looks at the magic number.
ReadActive ==
  /\ Trusting
  /\ LET n == Len(Magic) + 1
     IN  /\ Len(wire) >= n
         /\ LET f == n + dataLenIn(SubSeq(wire, n, n)) + 1
            IN  /\ CanRead(f)
                /\ Caller(SubSeq(Bytes(f), n, Len(Bytes(f))), rec \o Bytes(f))
                /\ wire' = SubSeq(wire, Len(Bytes(f)) + 1, Len(wire))
  /\ UNCHANGED <<closed, put, kind, pc, sends>>

\* The end of the file, or an incomplete header, which struct.unpack refuses.
ReadActiveEnd ==
  /\ Trusting /\ closed /\ Len(wire) < Len(Magic) + 1
  /\ pc' = IF wire = <<>> THEN "done" ELSE "raised"
  /\ rec' = rec \o wire
  /\ wire' = <<>>
  /\ UNCHANGED <<closed, put, kind, msg, handled, sends>>

\* sendMsg records what the program sends: doCommands between two calls of
\* readMsg, the master thread at any moment of the read thread.
SendOther ==
  /\ sends < MaxSends /\ sends' = sends + 1
  /\ mode # "passive" /\ pc = "read"
  /\ msg = <<>> \/ (mode = "rs485" /\ replies)
  /\ rec' = rec \o Magic \o formatMsg(Message(Grant, <<>>))
  /\ UNCHANGED <<stream, kind, pc, msg, handled>>

Next == \/ PutMessage \/ PutDamaged \/ PutStray \/ EndStream
        \/ ReadByte \/ ReadEof \/ ReadActive \/ ReadActiveEnd
        \/ SendOther

Spec == Init /\ [][Next]_vars

-----------------------------------------------------------------------------
(* Properties. *)

\* Where a message may begin in the bytes s of a file, and where it ends: after a magic
\* number, and before the next one or with the file.  A definition of its own, for a
\* file that is read again as a whole.
Starts(s) == {i \in Len(Magic) + 1 .. Len(s) + 1 : SubSeq(s, i - Len(Magic), i - 1) = Magic}
EndFrom(s, i) == Min({r \in i .. Len(s) - Len(Magic) + 1 :
                        SubSeq(s, r, r + Len(Magic) - 1) = Magic} \cup {Len(s) + 1})

\* The message there, or none, and where those are that the program had received.
MessageAt(s, i) == parseMsg(SubSeq(s, i, EndFrom(s, i) - 1))
Received(s) == {i \in Starts(s) : \E m \in ToSet(MessageAt(s, i)) : m.function = Post}

\* Whatever is damaged around it, and wherever the stream begins, every message
\* that arrives whole is handled once and in order, and nothing else is, unless
\* its bytes contain the magic number (msg.py:45-55, 88-127; semonitor.py:46-50).
ReadsAll ==
  mode # "active" => /\ IsPrefix(handled, readable)
                     /\ (pc = "done" => handled = readable)

\* Reading by the length stays in step with what is sent as long as nothing is
\* lost, also across data that contains the magic number (msg.py:34-44).
ActiveInStep ==
  (mode = "active" /\ damage = 0) => /\ IsPrefix(handled, sent)
                                /\ (pc = "done" => handled = sent)
                                /\ pc # "raised"

\* Read again, the record file gives some of the messages that were handled, those with
\* a number in expected, in order, and all of them but as many as lost says.
Replays(expected, lost) ==
  LET found == Received(rec)
  IN  \E at \in [found -> expected] :
        /\ \A i, j \in found : i < j => at[i] < at[j]
        /\ \A i \in found : MessageAt(rec, i) = <<handled[at[i]]>>
        /\ Cardinality(expected \ {at[i] : i \in found}) <= lost

\* What the program has sent while it was looking for a magic number, and so has
\* recorded between the bytes of messages.
Inserted == IF mode = "active" THEN 0 ELSE sends + (IF replies THEN Len(handled) ELSE 0)

\* Read again, a record file gives the messages that were handled, in order, less
\* at most one for each thing sent, wherever between the bytes that was recorded
\* (msg.py:60-71, 137-150; test/test.sh:29-36).
ReplayLosesFew ==
  pc = "done" /\ (mode # "active" \/ damage = 0) =>
    Replays({k \in DOMAIN handled : Readable(handled[k])}, Inserted)

\* Data may be read from "the output from a previous run of semonitor.py"
\* (README.md:245-247): what was handled is handled again.
RecordingReplays ==
  pc = "done" /\ mode # "active" => Replays(DOMAIN handled, 0)

-----------------------------------------------------------------------------
(* Why it is so. *)

\* What has been read of a message never contains the magic number: the message
\* ends with the first one.
FirstMagic == mode # "active" => ~HasMagic(msg)

IndInv == TypeOK /\ FirstMagic

=============================================================================
