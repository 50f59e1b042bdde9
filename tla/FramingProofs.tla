--------------------------- MODULE FramingProofs ---------------------------
(***************************************************************************)
(* For every magic number, checksum and set of payloads: what formatMsg    *)
(* makes is what parseMsg finds; readMsg never reads past a magic number;  *)
(* reading by the length stays in step with what is sent; reading to the   *)
(* next magic number finds every message that arrives whole, whatever is   *)
(* damaged around it; and the record file, read again, gives the messages  *)
(* but one for each thing that the program has sent.                       *)
(***************************************************************************)
EXTENDS Framing, TLAPS, SequenceTheorems, WellFoundedInduction, FiniteSetTheorems

\* The parts of a formatted message.
LEMMA FormatParts ==
  ASSUME NEW fn \in Functions, NEW d \in Seq(DataBytes), Len(d) < 10,
         calcCrc(fn, d) \in Nat
  PROVE  LET f == formatMsg(Message(fn, d))
         IN  /\ f \in Seq(Nat)
             /\ Len(f) = Len(d) + 2
             /\ f[1] = Header(fn, Len(d))
             /\ f[Len(d) + 2] = calcCrc(fn, d)
             /\ \A i \in 1 .. Len(d) : f[i + 1] = d[i]
<1> DEFINE h == <<Header(fn, Len(d))>>
           c == <<calcCrc(fn, d)>>
           f == formatMsg(Message(fn, d))
<1>1. d \in Seq(Nat) /\ Len(d) \in Nat
  <2>1. DataBytes \subseteq Nat
    BY DEF DataBytes
  <2> QED BY <2>1, SeqMonotonic, LenProperties
<1>2. Header(fn, Len(d)) \in Nat
  BY <1>1 DEF Header, Functions, Post, Ack, Grant
<1>3. h \in Seq(Nat) /\ Len(h) = 1 /\ h[1] = Header(fn, Len(d))
  BY <1>2
<1>4. c \in Seq(Nat) /\ Len(c) = 1 /\ c[1] = calcCrc(fn, d)
  OBVIOUS
<1>5. f = (h \o d) \o c
  BY DEF formatMsg, Message
<1> HIDE DEF h, c, f
<1>6. /\ h \o d \in Seq(Nat)
      /\ Len(h \o d) = Len(d) + 1
      /\ \A i \in 1 .. Len(d) + 1 : (h \o d)[i] = IF i <= 1 THEN h[i] ELSE d[i - 1]
  <2>1. /\ h \o d \in Seq(Nat)
        /\ Len(h \o d) = Len(h) + Len(d)
        /\ \A i \in 1 .. Len(h) + Len(d) :
             (h \o d)[i] = IF i <= Len(h) THEN h[i] ELSE d[i - Len(h)]
    BY <1>1, <1>3, ConcatProperties
  <2> QED BY <1>1, <1>3, <2>1
<1> DEFINE g == h \o d
<1> HIDE DEF g
<1>7. /\ f \in Seq(Nat)
      /\ Len(f) = Len(d) + 2
      /\ \A i \in 1 .. Len(d) + 2 :
           f[i] = IF i <= Len(d) + 1 THEN (h \o d)[i] ELSE c[i - (Len(d) + 1)]
  <2>1. g \in Seq(Nat) /\ Len(g) = Len(d) + 1 /\ f = g \o c
    BY <1>5, <1>6 DEF g
  <2>2. /\ g \o c \in Seq(Nat)
        /\ Len(g \o c) = Len(g) + Len(c)
        /\ \A i \in 1 .. Len(g) + Len(c) :
             (g \o c)[i] = IF i <= Len(g) THEN g[i] ELSE c[i - Len(g)]
    BY <1>4, <2>1, ConcatProperties
  <2>3. Len(d) + 1 + 1 = Len(d) + 2
    BY <1>1
  <2>4. f \in Seq(Nat) /\ Len(f) = Len(d) + 2
    BY <1>1, <1>4, <2>1, <2>2, <2>3
  <2>5. ASSUME NEW i \in 1 .. Len(d) + 2
        PROVE  f[i] = IF i <= Len(d) + 1 THEN g[i] ELSE c[i - (Len(d) + 1)]
    <3>1. i \in 1 .. Len(g) + Len(c)
      BY <1>1, <1>4, <2>1
    <3> QED BY <2>1, <2>2, <3>1
  <2> QED BY <2>4, <2>5 DEF g
<1>8. f[1] = Header(fn, Len(d))
  BY <1>1, <1>3, <1>6, <1>7
<1>9. f[Len(d) + 2] = calcCrc(fn, d)
  <2>1. /\ Len(d) + 2 \in 1 .. Len(d) + 2
        /\ ~(Len(d) + 2 <= Len(d) + 1)
        /\ (Len(d) + 2) - (Len(d) + 1) = 1
    BY <1>1
  <2> QED BY <1>4, <1>7, <2>1
<1>10. ASSUME NEW i \in 1 .. Len(d) PROVE f[i + 1] = d[i]
  <2>1. i + 1 \in 1 .. Len(d) + 2 /\ i + 1 <= Len(d) + 1 /\ ~(i + 1 <= 1)
    BY <1>1
  <2>2. f[i + 1] = (h \o d)[i + 1]
    BY <1>7, <2>1
  <2>3. i + 1 \in 1 .. Len(d) + 1
    BY <1>1
  <2>4. (h \o d)[i + 1] = d[(i + 1) - 1]
    BY <1>6, <2>1, <2>3
  <2>5. (i + 1) - 1 = i
    OBVIOUS
  <2> QED BY <2>2, <2>4, <2>5
<1> QED BY <1>7, <1>8, <1>9, <1>10 DEF f

\* Whatever follows it, a message is found again as it was formatted: no data,
\* no length and no checksum makes validateMsg refuse what formatMsg makes, as
\* long as the length fits its field (msg.py:88-135).
THEOREM FoundAgain ==
  ASSUME NEW fn \in Functions, NEW d \in Seq(DataBytes), Len(d) < 10,
         calcCrc(fn, d) \in Nat, NEW rest \in Seq(Nat)
  PROVE  parseMsg(formatMsg(Message(fn, d)) \o rest) = <<Message(fn, d)>>
<1> DEFINE f == formatMsg(Message(fn, d))
           s == f \o rest
<1>1. /\ f \in Seq(Nat)
      /\ Len(f) = Len(d) + 2
      /\ f[1] = Header(fn, Len(d))
      /\ f[Len(d) + 2] = calcCrc(fn, d)
      /\ \A i \in 1 .. Len(d) : f[i + 1] = d[i]
  BY FormatParts
<1> HIDE DEF f
<1>2. Len(d) \in Nat /\ Len(rest) \in Nat
  BY LenProperties
<1>3. /\ s \in Seq(Nat) /\ Len(s) = Len(f) + Len(rest)
      /\ \A i \in 1 .. Len(f) : s[i] = f[i]
  BY <1>1, <1>2, ConcatProperties
<1> HIDE DEF s
<1>4. s[1] = 10 * fn + Len(d) /\ fn \in {1, 2, 3} /\ Len(d) \in 0 .. 9
  <2>1. 1 \in 1 .. Len(f)
    BY <1>1, <1>2
  <2>2. s[1] = Header(fn, Len(d))
    BY <1>1, <1>3, <2>1
  <2>3. fn \in {1, 2, 3}
    BY DEF Functions, Post, Ack, Grant
  <2>4. Len(d) \in 0 .. 9
    <3>1. Len(d) \in Nat /\ Len(d) < 10
      BY <1>2
    <3>2. \A k \in Nat : k < 10 => k \in 0 .. 9
      OBVIOUS
    <3> QED BY <3>1, <3>2
  <2> QED BY <2>2, <2>3, <2>4 DEF Header
<1>5. dataLenIn(s) = Len(d) /\ functionIn(s) = fn
  <2> DEFINE n == Len(d)
  <2>1. n \in 0 .. 9 /\ s[1] = 10 * fn + n
    BY <1>4
  <2> HIDE DEF n
  <2>2. CASE fn = 1
    <3>1. s[1] = 10 + n
      BY <2>1, <2>2
    <3>2. (10 + n) \div 10 = 1 /\ (10 + n) % 10 = n
      BY <2>1
    <3> QED BY <2>2, <3>1, <3>2 DEF dataLenIn, functionIn, n
  <2>3. CASE fn = 2
    <3>1. s[1] = 20 + n
      BY <2>1, <2>3
    <3>2. (20 + n) \div 10 = 2 /\ (20 + n) % 10 = n
      BY <2>1
    <3> QED BY <2>3, <3>1, <3>2 DEF dataLenIn, functionIn, n
  <2>4. CASE fn = 3
    <3>1. s[1] = 30 + n
      BY <2>1, <2>4
    <3>2. (30 + n) \div 10 = 3 /\ (30 + n) % 10 = n
      BY <2>1
    <3> QED BY <2>4, <3>1, <3>2 DEF dataLenIn, functionIn, n
  <2> QED BY <1>4, <2>2, <2>3, <2>4
<1>6. SubSeq(s, 2, Len(d) + 1) = d
  <2> DEFINE t == SubSeq(s, 2, Len(d) + 1)
  <2>0. \A i \in 2 .. Len(d) + 1 : s[i] \in Nat
    <3>1. \A i \in 2 .. Len(d) + 1 : i \in 1 .. Len(s)
      BY <1>1, <1>2, <1>3
    <3> QED BY <1>3, <3>1, ElementOfSeq
  <2>1. /\ t \in Seq(Nat)
        /\ Len(t) = IF 2 <= Len(d) + 1 THEN (Len(d) + 1) - 2 + 1 ELSE 0
        /\ \A i \in 1 .. (Len(d) + 1) - 2 + 1 : t[i] = s[2 + i - 1]
    BY <1>2, <2>0, SubSeqProperties
  <2>2. Len(t) = Len(d)
    BY <1>2, <2>1
  <2>3. ASSUME NEW i \in 1 .. Len(d) PROVE t[i] = d[i]
    <3>1. i \in 1 .. (Len(d) + 1) - 2 + 1 /\ 2 + i - 1 = i + 1 /\ i + 1 \in 1 .. Len(f)
      BY <1>1, <1>2
    <3> QED BY <1>1, <1>3, <2>1, <3>1
  <2>4. d \in Seq(Nat)
    <3>1. DataBytes \subseteq Nat
      BY DEF DataBytes
    <3> QED BY <3>1, SeqMonotonic
  <2> HIDE DEF t
  <2>5. t = d
    BY <2>1, <2>2, <2>3, <2>4, SeqEqual
  <2> QED BY <2>5 DEF t
<1>7. dataIn(s) = d
  BY <1>5, <1>6 DEF dataIn
<1>8. s[Len(d) + 2] = calcCrc(fn, d)
  BY <1>1, <1>2, <1>3
<1>9. validateMsg(s)
  BY <1>1, <1>2, <1>3, <1>5, <1>7, <1>8 DEF validateMsg
<1> QED BY <1>5, <1>7, <1>9 DEF parseMsg, s, f

-----------------------------------------------------------------------------
(* The reader. *)

\* A suffix in terms of positions.
LEMMA SuffixAt ==
  ASSUME NEW s \in Seq(Nat), NEW t \in Seq(Nat), Len(s) <= Len(t),
         SubSeq(t, Len(t) - Len(s) + 1, Len(t)) = s
  PROVE  IsSuffix(s, t)
<1> DEFINE n == Len(s)
           u == SubSeq(t, Len(t) - n + 1, Len(t))
<1>1. n \in Nat /\ Len(t) \in Nat /\ n <= Len(t)
  BY LenProperties
<1>2. \A i \in 1 .. n : s[i] = t[Len(t) - n + i]
  <2>1. \A i \in Len(t) - n + 1 .. Len(t) : t[i] \in Nat
    <3>1. \A i \in Len(t) - n + 1 .. Len(t) : i \in 1 .. Len(t)
      BY <1>1
    <3> QED BY <3>1, ElementOfSeq
  <2>2. \A i \in 1 .. Len(t) - (Len(t) - n + 1) + 1 : u[i] = t[(Len(t) - n + 1) + i - 1]
    BY <1>1, <2>1, SubSeqProperties
  <2>3. ASSUME NEW i \in 1 .. n PROVE u[i] = t[Len(t) - n + i]
    <3>1. /\ i \in 1 .. Len(t) - (Len(t) - n + 1) + 1
          /\ (Len(t) - n + 1) + i - 1 = Len(t) - n + i
      BY <1>1
    <3> QED BY <2>2, <3>1
  <2>4. u = s
    OBVIOUS
  <2> QED BY <2>3, <2>4
<1> DEFINE a == Reverse(s)
           b == Reverse(t)
<1>3. /\ a \in Seq(Nat) /\ Len(a) = n
      /\ \A i \in 1 .. n : a[i] = s[n - i + 1]
  <2>1. \A i \in 1 .. n : n - i + 1 \in 1 .. n /\ s[n - i + 1] \in Nat
    <3>1. \A i \in 1 .. n : n - i + 1 \in 1 .. n
      BY <1>1
    <3> QED BY <3>1, ElementOfSeq
  <2>2. a = [i \in 1 .. n |-> s[n - i + 1]]
    BY DEF Reverse
  <2> QED BY <1>1, <2>1, <2>2
<1>4. /\ b \in Seq(Nat) /\ Len(b) = Len(t)
      /\ \A i \in 1 .. Len(t) : b[i] = t[Len(t) - i + 1]
  <2>1. \A i \in 1 .. Len(t) : Len(t) - i + 1 \in 1 .. Len(t) /\ t[Len(t) - i + 1] \in Nat
    <3>1. \A i \in 1 .. Len(t) : Len(t) - i + 1 \in 1 .. Len(t)
      BY <1>1
    <3> QED BY <3>1, ElementOfSeq
  <2>2. b = [i \in 1 .. Len(t) |-> t[Len(t) - i + 1]]
    BY DEF Reverse
  <2> QED BY <1>1, <2>1, <2>2
<1>5. \A i \in 1 .. n : a[i] = b[i]
  <2> TAKE i \in 1 .. n
  <2>1. n - i + 1 \in 1 .. n /\ i \in 1 .. Len(t)
    BY <1>1
  <2>2. Len(t) - n + (n - i + 1) = Len(t) - i + 1
    BY <1>1
  <2> QED BY <1>2, <1>3, <1>4, <2>1, <2>2
<1> HIDE DEF a, b
<1>6. SubSeq(a, 1, Len(a)) = SubSeq(b, 1, Len(a))
  <2>1. \A i \in 1 .. n : b[i] \in Nat /\ a[i] \in Nat
    <3>1. \A i \in 1 .. n : i \in 1 .. Len(b) /\ i \in 1 .. Len(a)
      BY <1>1, <1>3, <1>4
    <3> QED BY <1>3, <1>4, <3>1, ElementOfSeq
  <2>2. SubSeq(a, 1, n) = a
    BY <1>3, SubSeqFull
  <2>3. /\ SubSeq(b, 1, n) \in Seq(Nat)
        /\ Len(SubSeq(b, 1, n)) = IF 1 <= n THEN n - 1 + 1 ELSE 0
        /\ \A i \in 1 .. n - 1 + 1 : SubSeq(b, 1, n)[i] = b[1 + i - 1]
    BY <1>1, <2>1, SubSeqProperties
  <2>4. Len(SubSeq(b, 1, n)) = n
    BY <1>1, <2>3
  <2>5. ASSUME NEW i \in 1 .. n PROVE SubSeq(b, 1, n)[i] = a[i]
    <3>1. i \in 1 .. n - 1 + 1 /\ 1 + i - 1 = i
      BY <1>1
    <3> QED BY <1>5, <2>3, <3>1
  <2>6. a = SubSeq(b, 1, n)
    BY <1>3, <2>3, <2>4, <2>5, SeqEqual
  <2> QED BY <1>3, <2>2, <2>6
<1> QED BY <1>1, <1>3, <1>4, <1>6 DEF IsSuffix, IsPrefix, a, b

LEMMA MagicIsBytes == Magic \in Seq(Nat) /\ Len(Magic) \in Nat \ {0}
<1>1. DataBytes \subseteq Nat
  BY DEF DataBytes
<1>2. Magic \in Seq(Nat)
  BY <1>1, MagicAssumption, SeqMonotonic
<1> QED BY <1>2, MagicAssumption, LenProperties

\* A byte that does not complete a magic number brings none.
LEMMA NoMagicYet ==
  ASSUME NEW s \in Seq(Nat), NEW x \in Nat, ~HasMagic(s),
         ~IsSuffix(Magic, Append(s, x))
  PROVE  ~HasMagic(Append(s, x))
<1> DEFINE m == Append(s, x)
           L == Len(Magic)
<1> SUFFICES ASSUME NEW i \in 1 .. Len(m) - L + 1,
                    SubSeq(m, i, i + L - 1) = Magic
             PROVE  FALSE
  BY DEF HasMagic
<1>1. m \in Seq(Nat) /\ Len(m) = Len(s) + 1 /\ Len(s) \in Nat /\ L \in Nat \ {0}
  BY MagicIsBytes, LenProperties
<1>2. \A j \in 1 .. Len(s) : m[j] = s[j]
  OBVIOUS
<1> HIDE DEF m, L
<1>3. CASE i + L - 1 = Len(m)
  <2>1. i = Len(m) - L + 1 /\ L <= Len(m)
    BY <1>1, <1>3
  <2>2. SubSeq(m, Len(m) - Len(Magic) + 1, Len(m)) = Magic /\ Len(Magic) <= Len(m)
    BY <1>3, <2>1 DEF L
  <2>3. IsSuffix(Magic, m)
    BY <1>1, <2>2, MagicIsBytes, SuffixAt
  <2> QED BY <2>3 DEF m
<1>4. CASE i + L - 1 # Len(m)
  <2>1. i + L - 1 <= Len(s) /\ i \in 1 .. Len(s) - L + 1
    <3>1. i \in Int /\ 1 <= i /\ i <= Len(m) - L + 1
      BY <1>1
    <3>2. i + L - 1 < Len(m)
      BY <1>1, <1>4, <3>1
    <3> QED BY <1>1, <3>1, <3>2
  <2>2. \A j \in i .. i + L - 1 : j \in 1 .. Len(s)
    BY <1>1, <2>1
  <2>3. \A j \in i .. i + L - 1 : m[j] \in Nat /\ s[j] \in Nat
    BY <1>2, <2>2, ElementOfSeq
  <2> DEFINE p == SubSeq(m, i, i + L - 1)
             q == SubSeq(s, i, i + L - 1)
  <2>4. i \in Int /\ i + L - 1 \in Int
    BY <1>1
  <2>5. /\ p \in Seq(Nat)
        /\ Len(p) = IF i <= i + L - 1 THEN (i + L - 1) - i + 1 ELSE 0
        /\ \A j \in 1 .. (i + L - 1) - i + 1 : p[j] = m[i + j - 1]
    BY <2>3, <2>4, SubSeqProperties
  <2>6. /\ q \in Seq(Nat)
        /\ Len(q) = IF i <= i + L - 1 THEN (i + L - 1) - i + 1 ELSE 0
        /\ \A j \in 1 .. (i + L - 1) - i + 1 : q[j] = s[i + j - 1]
    BY <2>3, <2>4, SubSeqProperties
  <2> HIDE DEF p, q
  <2>7. Len(p) = L /\ Len(q) = L
    BY <1>1, <2>5, <2>6
  <2>8. ASSUME NEW j \in 1 .. Len(q) PROVE q[j] = p[j]
    <3>1. j \in 1 .. (i + L - 1) - i + 1 /\ i + j - 1 \in i .. i + L - 1
      BY <1>1, <2>7
    <3> QED BY <1>2, <2>2, <2>5, <2>6, <3>1
  <2>9. q = p
    BY <2>5, <2>6, <2>7, <2>8, SeqEqual
  <2>10. SubSeq(s, i, i + L - 1) = Magic
    BY <2>9 DEF p, q
  <2> QED BY <2>1, <2>10 DEF HasMagic, L
<1> QED BY <1>3, <1>4

LEMMA NoMagicInNothing == ~HasMagic(<<>>)
<1>1. Len(<<>>) - Len(Magic) + 1 < 1
  BY MagicIsBytes
<1> QED BY <1>1, MagicIsBytes DEF HasMagic

-----------------------------------------------------------------------------
(* Types. *)

\* What parseMsg gives to its caller.
LEMMA ParsedType ==
  ASSUME NEW m \in Seq(Nat)
  PROVE  parseMsg(m) \in Seq([function : Functions, data : Seq(Nat)])
<1>1. CASE validateMsg(m)
  <2>1. dataIn(m) \in Seq(Nat)
    <3>1. Len(m) \in Nat /\ m[1] \in Nat
      <4>1. Len(m) \in Nat /\ Len(m) >= 2
        BY <1>1, LenProperties DEF validateMsg
      <4> QED BY <4>1, ElementOfSeq
    <3>2. dataLenIn(m) \in Nat /\ dataLenIn(m) + 2 <= Len(m)
      BY <1>1, <3>1 DEF validateMsg, dataLenIn
    <3>3. \A i \in 2 .. dataLenIn(m) + 1 : m[i] \in Nat
      <4>1. \A i \in 2 .. dataLenIn(m) + 1 : i \in 1 .. Len(m)
        BY <3>1, <3>2
      <4> QED BY <4>1, ElementOfSeq
    <3>4. dataLenIn(m) + 1 \in Int
      BY <3>2
    <3> QED BY <3>3, <3>4, SubSeqProperties DEF dataIn
  <2>2. functionIn(m) \in Functions
    BY <1>1 DEF validateMsg
  <2> QED BY <1>1, <2>1, <2>2 DEF parseMsg, Message
<1>2. CASE ~validateMsg(m)
  BY <1>2 DEF parseMsg
<1> QED BY <1>1, <1>2

\* What is put into the stream, and the answer, are bytes.
LEMMA FormatType ==
  ASSUME NEW fn \in Functions, NEW d \in Payloads \cup {<<>>}
  PROVE  formatMsg(Message(fn, d)) \in Seq(Nat)
<1>1. d \in Seq(DataBytes) /\ Len(d) < 10
  <2>1. CASE d \in Payloads
    BY <2>1, DataAssumption
  <2>2. CASE d = <<>>
    <3>1. Len(d) = 0
      BY <2>2
    <3>2. d \in Seq(DataBytes)
      BY <2>2, EmptySeq
    <3> QED BY <3>1, <3>2
  <2> QED BY <2>1, <2>2
<1>2. calcCrc(fn, d) \in Nat
  BY CrcAssumption DEF Functions, Post, Ack, Grant
<1> QED BY <1>1, <1>2, FormatParts

LEMMA PartType ==
  ASSUME NEW s \in Seq(Nat), NEW i \in Int, NEW j \in Int, 1 <= i, j <= Len(s)
  PROVE  SubSeq(s, i, j) \in Seq(Nat)
<1>1. \A k \in i .. j : k \in 1 .. Len(s)
  BY LenProperties
<1>2. \A k \in i .. j : s[k] \in Nat
  BY <1>1, ElementOfSeq
<1> QED BY <1>2, SubSeqProperties

\* Whatever the caller does with a message keeps the types.
LEMMA CallerType ==
  ASSUME TypeOK, NEW m \in Seq(Nat), NEW r \in Seq(Nat), Caller(m, r)
  PROVE  /\ msg' \in Seq(Nat) /\ rec' \in Seq(Nat)
         /\ handled' \in Seq([function : Functions, data : Seq(Nat)])
<1>1. msg' = <<>>
  BY DEF Caller
<1>2. r \o Magic \o formatMsg(Message(Ack, <<>>)) \in Seq(Nat)
  <2>1. formatMsg(Message(Ack, <<>>)) \in Seq(Nat)
    BY FormatType DEF Functions
  <2> QED BY <2>1, MagicIsBytes
<1>3. rec' \in Seq(Nat)
  BY <1>2 DEF Caller
<1>4. handled' = handled \/ handled' = handled \o parseMsg(m)
  BY DEF Caller
<1>5. handled' \in Seq([function : Functions, data : Seq(Nat)])
  <2> DEFINE Got == [function : Functions, data : Seq(Nat)]
  <2>1. handled \in Seq(Got)
    BY DEF TypeOK
  <2>2. parseMsg(m) \in Seq(Got)
    BY ParsedType
  <2> HIDE DEF Got
  <2>3. handled \o parseMsg(m) \in Seq(Got)
    BY <2>1, <2>2, ConcatProperties
  <2>4. handled' \in Seq(Got)
    BY <1>4, <2>1, <2>3
  <2> QED BY <2>4 DEF Got
<1> QED BY <1>1, <1>3, <1>5

LEMMA TypeInit == Init => TypeOK
<1> SUFFICES ASSUME Init PROVE TypeOK
  OBVIOUS
<1>1. wire \in Seq(Nat)
  <2>1. CASE wire = <<>>
    BY <2>1
  <2>2. CASE \E d \in Payloads : LET f == formatMsg(Message(Post, d))
                                 IN  \E i \in 2 .. Len(f) : wire = SubSeq(f, i, Len(f))
    <3>1. PICK d \in Payloads : LET f == formatMsg(Message(Post, d))
                                IN  \E i \in 2 .. Len(f) : wire = SubSeq(f, i, Len(f))
      BY <2>2
    <3> DEFINE f == formatMsg(Message(Post, d))
    <3>2. PICK i \in 2 .. Len(f) : wire = SubSeq(f, i, Len(f))
      BY <3>1
    <3>3. f \in Seq(Nat)
      BY FormatType DEF Functions
    <3> HIDE DEF f
    <3> QED BY <3>2, <3>3, PartType, LenProperties
  <2> QED BY <2>1, <2>2 DEF Init
<1>2. items \in 0 .. MaxItems /\ damage \in Nat /\ sends \in 0 .. MaxSends
  BY DataAssumption DEF Init
<1>3. replies \in BOOLEAN /\ (mode = "active" => ~replies)
  BY DEF Init
<1>4. closed \in BOOLEAN
  BY DEF Init
<1>5. mode \in Modes /\ pc \in {"skip", "read", "done", "raised"}
  BY DEF Init
<1>6. /\ sent \in Seq([function : {Post}, data : Payloads])
      /\ readable \in Seq([function : {Post}, data : Payloads])
      /\ handled \in Seq([function : Functions, data : Seq(Nat)])
      /\ msg \in Seq(Nat) /\ rec \in Seq(Nat)
  BY DEF Init
<1> QED BY <1>1, <1>2, <1>3, <1>4, <1>5, <1>6 DEF TypeOK

\* What an action that puts bytes into the stream does to the types.
LEMMA PutType ==
  ASSUME TypeOK, NEW bytes \in Seq(Nat), Put(bytes)
  PROVE  /\ wire' \in Seq(Nat) /\ msg' \in Seq(Nat) /\ rec' \in Seq(Nat)
         /\ items' \in 0 .. MaxItems
         /\ handled' \in Seq([function : Functions, data : Seq(Nat)])
         /\ closed' = closed /\ kind' = kind /\ pc' = pc /\ sends' = sends
<1>1. wire' \in Seq(Nat)
  BY ConcatProperties DEF TypeOK, Put
<1>2. items' \in 0 .. MaxItems
  BY DataAssumption DEF TypeOK, Put
<1> QED BY <1>1, <1>2 DEF TypeOK, Put

\* A step of the stream, and a step of the reader, keep the types.
LEMMA TypeStep == TypeOK /\ [Next]_vars => TypeOK'
<1> SUFFICES ASSUME TypeOK, [Next]_vars PROVE TypeOK'
  OBVIOUS
<1>1. CASE PutMessage
  <2> DEFINE m(d) == Message(Post, d)
  <2>1. PICK d \in Payloads :
          /\ Put(Magic \o formatMsg(m(d)))
          /\ sent' = Append(sent, m(d))
          /\ readable' = IF Readable(m(d)) THEN Append(readable, m(d)) ELSE readable
          /\ UNCHANGED damage
    BY <1>1 DEF PutMessage
  <2>2. formatMsg(Message(Post, d)) \in Seq(Nat)
    BY FormatType DEF Functions
  <2>3. Magic \o formatMsg(Message(Post, d)) \in Seq(Nat)
    BY <2>2, MagicIsBytes, ConcatProperties
  <2>4. /\ sent' \in Seq([function : {Post}, data : Payloads])
        /\ readable' \in Seq([function : {Post}, data : Payloads])
    <3> DEFINE Posts == [function : {Post}, data : Payloads]
    <3>1. m(d) \in Posts
      BY DEF Message
    <3>2. sent \in Seq(Posts) /\ readable \in Seq(Posts)
      BY DEF TypeOK
    <3> HIDE DEF m, Posts
    <3>3. sent' \in Seq(Posts) /\ readable' \in Seq(Posts)
      BY <2>1, <3>1, <3>2, AppendProperties
    <3> QED BY <3>3 DEF Posts
  <2> QED BY <2>1, <2>3, <2>4, PutType DEF TypeOK, kind
<1>2. CASE PutDamaged
  <2>1. PICK d \in Payloads :
          LET f == formatMsg(Message(Post, d))
          IN  \E i \in 1 .. Len(f) :
                /\ \/ Put(Magic \o SubSeq(f, 1, i - 1))
                   \/ \E b \in Stray \ {f[i]} : Put(Magic \o ReplaceAt(f, i, b))
                /\ Damage
                /\ UNCHANGED <<sent, readable>>
    BY <1>2 DEF PutDamaged
  <2> DEFINE f == formatMsg(Message(Post, d))
  <2>2. f \in Seq(Nat)
    BY FormatType DEF Functions
  <2>3. PICK i \in 1 .. Len(f) :
          /\ \/ Put(Magic \o SubSeq(f, 1, i - 1))
             \/ \E b \in Stray \ {f[i]} : Put(Magic \o ReplaceAt(f, i, b))
          /\ Damage
          /\ UNCHANGED <<sent, readable>>
    BY <2>1
  <2> HIDE DEF f
  <2>4. \E bytes \in Seq(Nat) : Put(bytes)
    <3>1. CASE Put(Magic \o SubSeq(f, 1, i - 1))
      <4>1. i - 1 \in Int /\ i - 1 <= Len(f)
        BY <2>2, LenProperties
      <4>2. SubSeq(f, 1, i - 1) \in Seq(Nat)
        BY <2>2, <4>1, PartType
      <4>3. Magic \o SubSeq(f, 1, i - 1) \in Seq(Nat)
        BY <4>2, MagicIsBytes, ConcatProperties
      <4> QED BY <3>1, <4>3
    <3>2. ASSUME NEW b \in Stray \ {f[i]}, Put(Magic \o ReplaceAt(f, i, b))
          PROVE  \E bytes \in Seq(Nat) : Put(bytes)
      <4>1. b \in Nat
        BY DataAssumption DEF DataBytes
      <4>2. ReplaceAt(f, i, b) \in Seq(Nat)
        BY <2>2, <4>1, ExceptSeq DEF ReplaceAt
      <4>3. Magic \o ReplaceAt(f, i, b) \in Seq(Nat)
        BY <4>2, MagicIsBytes, ConcatProperties
      <4> QED BY <3>2, <4>3
    <3> QED BY <2>3, <3>1, <3>2
  <2>5. damage' \in Nat /\ sent' = sent /\ readable' = readable
    BY <2>3 DEF Damage, TypeOK
  <2> QED BY <2>4, <2>5, PutType DEF TypeOK, kind
<1>3. CASE PutStray
  <2>1. PICK b \in Stray : Put(<<b>>) /\ Damage /\ UNCHANGED <<sent, readable>>
    BY <1>3 DEF PutStray
  <2>2. <<b>> \in Seq(Nat)
    BY DataAssumption DEF DataBytes
  <2>3. damage' \in Nat /\ sent' = sent /\ readable' = readable
    BY <2>1 DEF Damage, TypeOK
  <2> QED BY <2>1, <2>2, <2>3, PutType DEF TypeOK, kind
<1>4. CASE EndStream
  BY <1>4 DEF EndStream, TypeOK, kind, put
<1>5. CASE ReadByte
  <2> DEFINE m == Append(msg, Head(wire))
             r == Append(rec, Head(wire))
  <2>1. Head(wire) \in Nat /\ wire' \in Seq(Nat)
    BY <1>5, HeadTailProperties DEF ReadByte, TypeOK
  <2>2. m \in Seq(Nat) /\ r \in Seq(Nat) /\ Len(m) \in Nat
    BY <2>1 DEF TypeOK
  <2>3. CASE IsSuffix(Magic, m)
    <3>1. Caller(SubSeq(m, 1, Len(m) - Len(Magic)), r) /\ pc' = "read"
      BY <1>5, <2>3 DEF ReadByte
    <3> HIDE DEF m, r
    <3>2. Len(m) - Len(Magic) \in Int /\ Len(m) - Len(Magic) <= Len(m)
      BY <2>2, MagicIsBytes
    <3>3. SubSeq(m, 1, Len(m) - Len(Magic)) \in Seq(Nat)
      BY <2>2, <3>2, PartType
    <3>4. /\ msg' \in Seq(Nat) /\ rec' \in Seq(Nat)
          /\ handled' \in Seq([function : Functions, data : Seq(Nat)])
      BY <2>2, <3>1, <3>3, CallerType
    <3> QED BY <1>5, <2>1, <3>1, <3>4 DEF ReadByte, TypeOK, kind, put
  <2>4. CASE ~IsSuffix(Magic, m)
    <3>1. msg' = m /\ rec' = r /\ UNCHANGED <<pc, handled>>
      BY <1>5, <2>4 DEF ReadByte
    <3> QED BY <1>5, <2>1, <2>2, <3>1 DEF ReadByte, TypeOK, kind, put
  <2> QED BY <2>3, <2>4
<1>6. CASE ReadEof
  <2>1. /\ msg' \in Seq(Nat) /\ rec' \in Seq(Nat)
        /\ handled' \in Seq([function : Functions, data : Seq(Nat)])
    BY <1>6, CallerType DEF ReadEof, TypeOK
  <2> QED BY <1>6, <2>1 DEF ReadEof, TypeOK, stream, kind, put
<1>7. CASE ReadActive
  <2> DEFINE n == Len(Magic) + 1
             f == n + dataLenIn(SubSeq(wire, n, n)) + 1
             b == Bytes(f)
  <2>1. n \in Nat \ {0} /\ n <= Len(wire) /\ Len(wire) \in Nat
    BY <1>7, MagicIsBytes, LenProperties DEF ReadActive, TypeOK
  <2>2. f \in Nat
    <3>1. SubSeq(wire, n, n)[1] \in Nat
      <4>1. wire[n] \in Nat
        BY <2>1, ElementOfSeq DEF TypeOK
      <4>2. \A i \in n .. n : wire[i] \in Nat
        BY <2>1, <4>1
      <4>3. \A i \in 1 .. n - n + 1 : SubSeq(wire, n, n)[i] = wire[n + i - 1]
        BY <2>1, <4>2, SubSeqProperties
      <4>4. 1 \in 1 .. n - n + 1 /\ n + 1 - 1 = n
        BY <2>1
      <4> QED BY <4>1, <4>3, <4>4
    <3> DEFINE x == SubSeq(wire, n, n)[1]
    <3>2. dataLenIn(SubSeq(wire, n, n)) = x % 10
      BY DEF dataLenIn
    <3> HIDE DEF x
    <3>3. x % 10 \in Nat
      BY <3>1 DEF x
    <3> HIDE DEF n
    <3> QED BY <2>1, <3>2, <3>3
  <2>3. Caller(SubSeq(b, n, Len(b)), rec \o b)
    BY <1>7 DEF ReadActive
  <2>4. wire' = SubSeq(wire, Len(b) + 1, Len(wire))
    BY <1>7 DEF ReadActive
  <2> HIDE DEF n, f
  <2>5. b \in Seq(Nat)
    <3> DEFINE k == IF Len(wire) < f THEN Len(wire) ELSE f
    <3>1. k \in Int /\ k <= Len(wire)
      BY <2>1, <2>2
    <3>2. b = SubSeq(wire, 1, k)
      BY DEF Bytes
    <3> HIDE DEF k, b
    <3> QED BY <3>1, <3>2, PartType DEF TypeOK
  <2> HIDE DEF b
  <2>6. Len(b) \in Nat
    BY <2>5, LenProperties
  <2>7. wire' \in Seq(Nat)
    <3>1. wire \in Seq(Nat)
      BY DEF TypeOK
    <3>2. SubSeq(wire, Len(b) + 1, Len(wire)) \in Seq(Nat)
      <4>1. Len(b) + 1 \in Int /\ 1 <= Len(b) + 1
        BY <2>6
      <4> QED BY <2>1, <3>1, <4>1, PartType
    <3> QED BY <2>4, <3>2
  <2>8. SubSeq(b, n, Len(b)) \in Seq(Nat)
    BY <2>1, <2>5, <2>6, PartType
  <2>9. rec \o b \in Seq(Nat)
    BY <2>5, ConcatProperties DEF TypeOK
  <2>10. /\ msg' \in Seq(Nat) /\ rec' \in Seq(Nat)
         /\ handled' \in Seq([function : Functions, data : Seq(Nat)])
    BY <2>3, <2>8, <2>9, CallerType
  <2> QED BY <1>7, <2>7, <2>10 DEF ReadActive, TypeOK, kind, put
<1>8. CASE ReadActiveEnd
  <2>1. rec' \in Seq(Nat)
    BY <1>8, ConcatProperties DEF ReadActiveEnd, TypeOK
  <2> QED BY <1>8, <2>1 DEF ReadActiveEnd, TypeOK, kind, put
<1>9. CASE SendOther
  <2>1. sends' \in 0 .. MaxSends
    BY <1>9, DataAssumption DEF SendOther, TypeOK
  <2>2. formatMsg(Message(Grant, <<>>)) \in Seq(Nat)
    BY FormatType DEF Functions
  <2>3. rec' \in Seq(Nat)
    <3>1. rec \o Magic \in Seq(Nat)
      BY MagicIsBytes, ConcatProperties DEF TypeOK
    <3>2. rec' = (rec \o Magic) \o formatMsg(Message(Grant, <<>>))
      BY <1>9 DEF SendOther
    <3> QED BY <2>2, <3>1, <3>2, ConcatProperties
  <2> QED BY <1>9, <2>1, <2>3 DEF SendOther, TypeOK, stream, kind, put
<1>10. CASE UNCHANGED vars
  BY <1>10 DEF vars, stream, kind, TypeOK, put
<1> QED BY <1>1, <1>2, <1>3, <1>4, <1>5, <1>6, <1>7, <1>8, <1>9, <1>10 DEF Next

\* What is being read never holds a magic number, wherever in the stream the
\* reader has started and whatever was damaged: a message ends with the first
\* one after it, so none is swallowed (msg.py:46-54).
THEOREM EndsWithFirstMagic == Spec => []IndInv
<1>1. Init => FirstMagic
  BY NoMagicInNothing DEF Init, FirstMagic
<1>2. TypeOK /\ FirstMagic /\ [Next]_vars => FirstMagic'
  <2> SUFFICES ASSUME TypeOK, FirstMagic, [Next]_vars PROVE FirstMagic'
    OBVIOUS
  <2>1. mode' = mode
    BY DEF Next, PutMessage, PutDamaged, PutStray, Put, EndStream, ReadByte, ReadEof,
           ReadActive, ReadActiveEnd, SendOther, vars, kind
  <2>2. CASE msg' = msg
    BY <2>1, <2>2 DEF FirstMagic, HasMagic
  <2>3. CASE msg' = <<>>
    BY <2>1, <2>3, NoMagicInNothing DEF FirstMagic, HasMagic
  <2>4. CASE ReadByte
    <3> DEFINE m == Append(msg, Head(wire))
    <3>1. CASE IsSuffix(Magic, m)
      BY <2>3, <2>4, <3>1 DEF ReadByte, Caller
    <3>2. CASE ~IsSuffix(Magic, m)
      <4>1. msg' = m /\ mode # "active"
        BY <2>4, <3>2 DEF ReadByte, Delimiting
      <4>2. Head(wire) \in Nat /\ msg \in Seq(Nat)
        BY <2>4, HeadTailProperties DEF ReadByte, TypeOK
      <4>3. ~HasMagic(m)
        BY <3>2, <4>1, <4>2, NoMagicYet DEF FirstMagic
      <4> QED BY <2>1, <4>1, <4>3 DEF FirstMagic, HasMagic
    <3> QED BY <3>1, <3>2
  <2>5. CASE ReadEof \/ ReadActive
    BY <2>3, <2>5 DEF ReadEof, ReadActive, Caller
  <2>6. CASE PutMessage \/ PutDamaged \/ PutStray \/ EndStream \/ ReadActiveEnd
             \/ SendOther \/ UNCHANGED vars
    BY <2>2, <2>6 DEF PutMessage, PutDamaged, PutStray, Put, EndStream, ReadActiveEnd,
                      SendOther, vars
  <2> QED BY <2>4, <2>5, <2>6 DEF Next
<1>3. Init => IndInv
  BY <1>1, TypeInit DEF IndInv
<1>4. IndInv /\ [Next]_vars => IndInv'
  BY <1>2, TypeStep DEF IndInv
<1> QED BY <1>3, <1>4, PTL DEF Spec

-----------------------------------------------------------------------------
(* Reading by the length. *)

Msgs == [function : {Post}, data : Payloads]

LEMMA PartOf ==
  ASSUME NEW s \in Seq(Nat), NEW i \in Int, NEW j \in Int, 1 <= i, i <= j + 1, j <= Len(s)
  PROVE  /\ SubSeq(s, i, j) \in Seq(Nat)
         /\ Len(SubSeq(s, i, j)) = j - i + 1
         /\ \A k \in 1 .. j - i + 1 : SubSeq(s, i, j)[k] = s[i + k - 1]
<1>1. \A k \in i .. j : k \in 1 .. Len(s)
  BY LenProperties
<1>2. \A k \in i .. j : s[k] \in Nat
  BY <1>1, ElementOfSeq
<1>3. /\ SubSeq(s, i, j) \in Seq(Nat)
      /\ Len(SubSeq(s, i, j)) = IF i <= j THEN j - i + 1 ELSE 0
      /\ \A k \in 1 .. j - i + 1 : SubSeq(s, i, j)[k] = s[i + k - 1]
  BY <1>2, SubSeqProperties
<1> QED BY <1>3

LEMMA Joined ==
  ASSUME NEW s \in Seq(Nat), NEW t \in Seq(Nat), NEW u, u = s \o t
  PROVE  /\ u \in Seq(Nat) /\ Len(s) \in Nat /\ Len(t) \in Nat /\ Len(u) = Len(s) + Len(t)
         /\ \A i \in 1 .. Len(s) : u[i] = s[i]
         /\ \A i \in 1 .. Len(t) : u[Len(s) + i] = t[i]
<1>1. Len(s) \in Nat /\ Len(t) \in Nat
  BY LenProperties
<1>2. /\ u \in Seq(Nat) /\ Len(u) = Len(s) + Len(t)
      /\ \A i \in 1 .. Len(s) + Len(t) : u[i] = IF i <= Len(s) THEN s[i] ELSE t[i - Len(s)]
  BY ConcatProperties
<1>3. ASSUME NEW i \in 1 .. Len(s) PROVE u[i] = s[i]
  <2>1. i \in 1 .. Len(s) + Len(t) /\ i <= Len(s)
    BY <1>1
  <2> QED BY <1>2, <2>1
<1>4. ASSUME NEW i \in 1 .. Len(t) PROVE u[Len(s) + i] = t[i]
  <2>1. /\ Len(s) + i \in 1 .. Len(s) + Len(t) /\ ~(Len(s) + i <= Len(s))
        /\ (Len(s) + i) - Len(s) = i
    BY <1>1
  <2> QED BY <1>2, <2>1
<1> QED BY <1>1, <1>2, <1>3, <1>4

\* The bytes of a message that is put into the stream.
LEMMA BytesOf ==
  ASSUME NEW m \in Msgs
  PROVE  /\ Len(m.data) \in 0 .. 9 /\ m.data \in Seq(DataBytes)
         /\ formatMsg(m) \in Seq(Nat) /\ Len(formatMsg(m)) = Len(m.data) + 2
         /\ formatMsg(m)[1] = 10 + Len(m.data)
         /\ formatMsg(m)[Len(m.data) + 2] = calcCrc(Post, m.data)
         /\ \A i \in 1 .. Len(m.data) : formatMsg(m)[i + 1] = m.data[i]
         /\ \A rest \in Seq(Nat) : parseMsg(formatMsg(m) \o rest) = <<m>>
<1> DEFINE d == m.data
<1>1. d \in Payloads /\ m = Message(Post, d)
  BY DEF Msgs, Message
<1>2. d \in Seq(DataBytes) /\ Len(d) < 10 /\ Post \in Functions
  BY <1>1, DataAssumption DEF Functions
<1>3. calcCrc(Post, d) \in Nat
  BY <1>1, CrcAssumption DEF Post
<1> HIDE DEF d
<1>4. Len(d) \in 0 .. 9
  <2>1. Len(d) \in Nat /\ Len(d) < 10
    BY <1>2, LenProperties
  <2>2. \A k \in Nat : k < 10 => k \in 0 .. 9
    OBVIOUS
  <2> QED BY <2>1, <2>2
<1>5. LET g == formatMsg(Message(Post, d))
      IN  /\ g \in Seq(Nat) /\ Len(g) = Len(d) + 2
          /\ g[1] = Header(Post, Len(d))
          /\ g[Len(d) + 2] = calcCrc(Post, d)
          /\ \A i \in 1 .. Len(d) : g[i + 1] = d[i]
  BY <1>2, <1>3, FormatParts
<1>6. Header(Post, Len(d)) = 10 + Len(d)
  BY <1>4 DEF Header, Post
<1>7. \A rest \in Seq(Nat) : parseMsg(formatMsg(Message(Post, d)) \o rest) = <<Message(Post, d)>>
  BY <1>2, <1>3, FoundAgain
<1> QED BY <1>1, <1>2, <1>4, <1>5, <1>6, <1>7 DEF d

LEMMA FirstPart ==
  ASSUME NEW f \in Seq(Nat), NEW l \in Nat, l <= Len(f)
  PROVE  /\ SubSeq(f, 1, l) \in Seq(Nat) /\ Len(SubSeq(f, 1, l)) = l
         /\ \A i \in 1 .. l : SubSeq(f, 1, l)[i] = f[i]
<1> DEFINE y == SubSeq(f, 1, l)
<1>1. 1 \in Int /\ l \in Int /\ 1 <= 1 /\ 1 <= l + 1 /\ l - 1 + 1 = l
  OBVIOUS
<1>2. /\ y \in Seq(Nat) /\ Len(y) = l - 1 + 1
      /\ \A i \in 1 .. l - 1 + 1 : y[i] = f[1 + i - 1]
  BY <1>1, PartOf
<1> HIDE DEF y
<1>3. ASSUME NEW i \in 1 .. l PROVE y[i] = f[i]
  <2>1. i \in 1 .. l - 1 + 1 /\ 1 + i - 1 = i
    BY <1>1
  <2> QED BY <1>2, <2>1
<1>4. y \in Seq(Nat) /\ Len(y) = l
  BY <1>1, <1>2
<1> QED BY <1>3, <1>4 DEF y

\* Message m is in the bytes w, from the p-th.
Carries(w, p, m) ==
  /\ p + Len(formatMsg(m)) - 1 <= Len(w)
  /\ \A j \in 1 .. Len(formatMsg(m)) : w[p + j - 1] = formatMsg(m)[j]

Size(m) == Len(Magic) + Len(formatMsg(m))

\* The same, with its magic number.
Whole(w, p, m) ==
  /\ p + Size(m) - 1 <= Len(w)
  /\ \A j \in 1 .. Size(m) : w[p + j - 1] = (Magic \o formatMsg(m))[j]

\* The bytes w are the messages ms from the one after h, each after a magic number,
\* and nothing else: at says where each begins, and where the next one will.
InStep(w, ms, h, at) ==
  LET N == Len(ms)
  IN  /\ h \in 0 .. N
      /\ at \in [h + 1 .. N + 1 -> Nat]
      /\ at[h + 1] = 1 /\ at[N + 1] = Len(w) + 1
      /\ \A k, l \in h + 1 .. N + 1 : k <= l => at[k] <= at[l]
      /\ \A k \in h + 1 .. N : /\ at[k + 1] = at[k] + Size(ms[k])
                               /\ Whole(w, at[k], ms[k])

\* Only a message is put into the stream as long as nothing is damaged.
LEMMA InStepPut ==
  ASSUME NEW w \in Seq(Nat), NEW ms \in Seq(Msgs), NEW h, NEW at, InStep(w, ms, h, at),
         NEW m \in Msgs, NEW v, v = w \o (Magic \o formatMsg(m)), NEW new, new = Append(ms, m)
  PROVE  \E to : InStep(v, new, h, to)
<1> DEFINE N == Len(ms)
           f == formatMsg(m)
           x == Magic \o f
           L == Len(Magic)
           to == [k \in h + 1 .. N + 2 |-> IF k = N + 2 THEN Len(w) + 1 + Size(m) ELSE at[k]]
<1>1. f \in Seq(Nat) /\ Len(f) \in Nat /\ Len(w) \in Nat /\ N \in Nat
  BY BytesOf, LenProperties
<1>2. /\ x \in Seq(Nat) /\ Len(x) = L + Len(f) /\ L \in Nat
      /\ \A i \in 1 .. Len(f) : x[L + i] = f[i]
  BY <1>1, MagicIsBytes, Joined
<1>3. /\ v \in Seq(Nat) /\ Len(v) = Len(w) + Len(x)
      /\ \A i \in 1 .. Len(w) : v[i] = w[i]
      /\ \A i \in 1 .. Len(x) : v[Len(w) + i] = x[i]
  <2> HIDE DEF x
  <2>1. v = w \o x
    BY DEF x
  <2>2. x \in Seq(Nat)
    BY <1>2
  <2> QED BY <2>1, <2>2, Joined
<1>4. /\ Len(new) = N + 1 /\ new[N + 1] = m
      /\ \A i \in 1 .. N : new[i] = ms[i]
  BY AppendProperties
<1>5. /\ h \in 0 .. N
      /\ at \in [h + 1 .. N + 1 -> Nat]
      /\ at[h + 1] = 1 /\ at[N + 1] = Len(w) + 1
      /\ \A k, l \in h + 1 .. N + 1 : k <= l => at[k] <= at[l]
      /\ \A k \in h + 1 .. N : /\ at[k + 1] = at[k] + Size(ms[k])
                               /\ Whole(w, at[k], ms[k])
  BY DEF InStep
<1>6. Len(v) = Len(w) + Size(m) /\ Size(m) \in Nat
  BY <1>1, <1>2, <1>3 DEF Size
<1> HIDE DEF N, f, x, L
<1>7. h \in Nat /\ h <= N
  BY <1>1, <1>5
<1>8. \A k \in h + 1 .. N + 1 : k # N + 2 /\ at[k] \in Nat /\ at[k] <= Len(w) + 1
  BY <1>1, <1>5, <1>7
<1>9. /\ to \in [h + 1 .. N + 2 -> Nat]
      /\ \A k \in h + 1 .. N + 1 : to[k] = at[k]
      /\ to[N + 2] = Len(v) + 1
  <2>1. Len(w) + 1 + Size(m) \in Nat /\ N + 2 \in h + 1 .. N + 2
    BY <1>1, <1>6, <1>7
  <2>2. \A k \in h + 1 .. N + 2 : k = N + 2 \/ k \in h + 1 .. N + 1
    BY <1>1, <1>7
  <2>3. \A k \in h + 1 .. N + 1 : k \in h + 1 .. N + 2
    BY <1>1, <1>7
  <2> QED BY <1>1, <1>6, <1>8, <2>1, <2>2, <2>3
<1> HIDE DEF to
<1>10. \A k, l \in h + 1 .. N + 2 : k <= l => to[k] <= to[l]
  <2>1. \A k \in h + 1 .. N + 2 : k = N + 2 \/ k \in h + 1 .. N + 1
    BY <1>1, <1>7
  <2>2. Len(w) + 1 <= Len(v) + 1
    BY <1>1, <1>6
  <2>3. SUFFICES ASSUME NEW k \in h + 1 .. N + 2, NEW l \in h + 1 .. N + 2, k <= l
                 PROVE  to[k] <= to[l]
    OBVIOUS
  <2>4. CASE l \in h + 1 .. N + 1
    <3>1. k \in h + 1 .. N + 1
      BY <1>1, <1>7, <2>3, <2>4
    <3> QED BY <1>5, <1>9, <2>3, <2>4, <3>1
  <2>5. CASE l = N + 2 /\ k = N + 2
    BY <1>1, <1>3, <1>9, <2>5
  <2>6. CASE l = N + 2 /\ k \in h + 1 .. N + 1
    <3>1. to[k] \in Nat /\ to[k] <= Len(w) + 1 /\ to[l] = Len(v) + 1
      BY <1>8, <1>9, <2>6
    <3> QED BY <1>1, <1>6, <2>2, <3>1
  <2> QED BY <2>1, <2>4, <2>5, <2>6
<1>11. ASSUME NEW k \in h + 1 .. N + 1
       PROVE  to[k + 1] = to[k] + Size(new[k]) /\ Whole(v, to[k], new[k])
  <2>1. CASE k = N + 1
    <3>1. to[k] = Len(w) + 1 /\ to[k + 1] = Len(v) + 1 /\ new[k] = m
      <4>1. k + 1 = N + 2
        BY <1>1, <2>1
      <4> QED BY <1>4, <1>5, <1>9, <2>1, <4>1
    <3>2. to[k + 1] = to[k] + Size(new[k])
      BY <1>1, <1>6, <3>1
    <3>3. ASSUME NEW j \in 1 .. Size(m) PROVE v[(Len(w) + 1) + j - 1] = x[j]
      <4>1. j \in 1 .. Len(x) /\ (Len(w) + 1) + j - 1 = Len(w) + j
        BY <1>1, <1>2, <1>3, <1>6
      <4> QED BY <1>3, <4>1
    <3>4. (Len(w) + 1) + Size(m) - 1 <= Len(v)
      BY <1>1, <1>6
    <3>5. x = Magic \o formatMsg(m)
      BY DEF x, f
    <3> HIDE DEF x
    <3> QED BY <3>1, <3>2, <3>3, <3>4, <3>5 DEF Whole
  <2>2. CASE k # N + 1
    <3>1. k \in h + 1 .. N /\ k + 1 \in h + 1 .. N + 1 /\ k \in 1 .. N
      BY <1>1, <1>7, <2>2
    <3>2. to[k] = at[k] /\ to[k + 1] = at[k + 1] /\ new[k] = ms[k]
      BY <1>4, <1>9, <3>1
    <3>3. Whole(w, at[k], ms[k])
      BY <1>5, <3>1
    <3>4. Size(ms[k]) \in Nat /\ at[k] \in Nat /\ at[k] >= 1
      <4>1. ms[k] \in Msgs
        BY <3>1, ElementOfSeq DEF N
      <4>2. at[h + 1] <= at[k]
        BY <1>1, <1>5, <1>7, <3>1
      <4>3. Size(ms[k]) \in Nat
        BY <1>2, <4>1, BytesOf, LenProperties DEF Size, L
      <4> QED BY <1>5, <1>8, <3>1, <4>2, <4>3
    <3>5. ASSUME NEW j \in 1 .. Size(ms[k])
          PROVE  v[at[k] + j - 1] = (Magic \o formatMsg(ms[k]))[j]
      <4> DEFINE l == Size(ms[k])
                 a == at[k]
      <4>0. a + l - 1 <= Len(w) /\ a \in Nat /\ a >= 1 /\ l \in Nat /\ j \in 1 .. l
        BY <3>3, <3>4 DEF Whole
      <4>i. Len(w) \in Nat
        BY <1>1
      <4> HIDE DEF l, a
      <4>q. a + j - 1 \in 1 .. Len(w)
        BY <4>0, <4>i
      <4>1. at[k] + j - 1 \in 1 .. Len(w)
        BY <4>q DEF a
      <4>2. v[at[k] + j - 1] = w[at[k] + j - 1]
        BY <1>3, <4>1
      <4>3. w[at[k] + j - 1] = (Magic \o formatMsg(ms[k]))[j]
        BY <3>3 DEF Whole
      <4> QED BY <4>2, <4>3
    <3>6. at[k] + Size(ms[k]) - 1 <= Len(v)
      BY <1>1, <1>2, <1>3, <3>3, <3>4 DEF Whole
    <3>7. Whole(v, at[k], ms[k])
      BY <3>5, <3>6 DEF Whole
    <3> QED BY <1>5, <3>1, <3>2, <3>7
  <2> QED BY <2>1, <2>2
<1>12. InStep(v, new, h, to)
  <2>1. h \in 0 .. N + 1 /\ h + 1 \in h + 1 .. N + 1 /\ (N + 1) + 1 = N + 2
    BY <1>1, <1>7
  <2>2. to[h + 1] = 1
    BY <1>5, <1>9, <2>1
  <2> QED BY <1>4, <1>9, <1>10, <1>11, <2>1, <2>2 DEF InStep, L
<1> QED BY <1>12

\* With a magic number and a header in the stream, it holds the next message as a whole,
\* and the length in the header is that of its data.
LEMMA InStepTake ==
  ASSUME NEW w \in Seq(Nat), NEW ms \in Seq(Msgs), NEW h, NEW at, InStep(w, ms, h, at),
         Len(w) >= Len(Magic) + 1
  PROVE  /\ h + 1 \in 1 .. Len(ms)
         /\ LET m == ms[h + 1]
                n == Len(Magic) + 1
            IN  /\ n + dataLenIn(SubSeq(w, n, n)) + 1 = Size(m)
                /\ Size(m) \in Nat /\ n <= Size(m) /\ Size(m) <= Len(w)
                /\ SubSeq(SubSeq(w, 1, Size(m)), n, Size(m)) = formatMsg(m)
                /\ SubSeq(w, 1, Size(m)) = Magic \o formatMsg(m)
                /\ \E to : InStep(SubSeq(w, Size(m) + 1, Len(w)), ms, h + 1, to)
<1> DEFINE N == Len(ms)
           L == Len(Magic)
<1>1. Len(w) \in Nat /\ N \in Nat /\ L \in Nat \ {0}
  BY MagicIsBytes, LenProperties
<1>2. /\ h \in 0 .. N
      /\ at \in [h + 1 .. N + 1 -> Nat]
      /\ at[h + 1] = 1 /\ at[N + 1] = Len(w) + 1
      /\ \A k, l \in h + 1 .. N + 1 : k <= l => at[k] <= at[l]
      /\ \A k \in h + 1 .. N : /\ at[k + 1] = at[k] + Size(ms[k])
                               /\ Whole(w, at[k], ms[k])
  BY DEF InStep
<1>3. h < N
  <2>1. CASE h = N
    BY <1>1, <1>2, <2>1
  <2> QED BY <1>1, <1>2, <2>1
<1>4. h \in Nat /\ h + 1 \in 1 .. N /\ h + 1 \in h + 1 .. N
  BY <1>1, <1>2, <1>3
<1> DEFINE m == ms[h + 1]
           f == formatMsg(m)
           n == L + 1
           d == Len(m.data)
           S == Size(m)
<1>5. m \in Msgs
  BY <1>4, ElementOfSeq
<1> HIDE DEF m
<1>6. /\ d \in 0 .. 9 /\ f \in Seq(Nat) /\ Len(f) = d + 2 /\ f[1] = 10 + d
  <2>1. formatMsg(m)[1] = 10 + Len(m.data)
    BY <1>5, BytesOf
  <2>2. Len(m.data) \in 0 .. 9 /\ formatMsg(m) \in Seq(Nat) /\ Len(formatMsg(m)) = Len(m.data) + 2
    BY <1>5, BytesOf
  <2> QED BY <2>1, <2>2
<1>7. S = L + d + 2
  BY <1>1, <1>6 DEF Size
<1>8. /\ at[h + 2] = 1 + S
      /\ Whole(w, 1, m)
  <2>1. (h + 1) + 1 = h + 2
    BY <1>4
  <2>2. /\ at[(h + 1) + 1] = at[h + 1] + Size(ms[h + 1])
        /\ Whole(w, at[h + 1], ms[h + 1])
        /\ at[h + 1] = 1
    BY <1>2, <1>4
  <2> QED BY <2>1, <2>2 DEF m
<1> HIDE DEF N, L, m, d, S
<1> DEFINE x == Magic \o f
<1>14. /\ S <= Len(w) /\ S \in Nat
       /\ \A j \in 1 .. S : w[j] = x[j]
  <2>1. /\ 1 + S - 1 <= Len(w)
        /\ \A j \in 1 .. S : w[1 + j - 1] = x[j]
    BY <1>8 DEF Whole, S
  <2>2. S \in Nat /\ \A j \in 1 .. S : 1 + j - 1 = j
    BY <1>1, <1>6, <1>7
  <2> HIDE DEF f, x
  <2> QED BY <1>1, <1>6, <1>7, <2>1, <2>2
<1> HIDE DEF f
<1>15. /\ x \in Seq(Nat) /\ Len(x) = S
       /\ \A j \in 1 .. Len(f) : x[L + j] = f[j]
  <2>1. Magic \in Seq(Nat) /\ f \in Seq(Nat) /\ x = Magic \o f
    BY <1>6, MagicIsBytes
  <2> HIDE DEF x
  <2>2. /\ x \in Seq(Nat) /\ Len(x) = Len(Magic) + Len(f)
        /\ \A j \in 1 .. Len(f) : x[Len(Magic) + j] = f[j]
    BY <2>1, Joined
  <2> QED BY <1>1, <1>6, <1>7, <2>2 DEF L
<1> HIDE DEF x
<1>9. /\ S <= Len(w) /\ S \in Nat
      /\ \A j \in 1 .. Len(f) : w[L + j] = f[j]
  <2>1. \A j \in 1 .. Len(f) : L + j \in 1 .. S
    BY <1>1, <1>6, <1>7
  <2> QED BY <1>14, <1>15, <2>1
<1>16. SubSeq(w, 1, S) = x
  <2>1. w \in Seq(Nat) /\ S \in Nat /\ S <= Len(w)
    BY <1>14
  <2>2. /\ SubSeq(w, 1, S) \in Seq(Nat) /\ Len(SubSeq(w, 1, S)) = S
        /\ \A i \in 1 .. S : SubSeq(w, 1, S)[i] = w[i]
    BY <2>1, FirstPart
  <2> QED BY <1>14, <1>15, <2>2, SeqEqual
<1>10. n + dataLenIn(SubSeq(w, n, n)) + 1 = S
  <2>1. n \in Int /\ 1 <= n /\ n <= n + 1 /\ n <= Len(w)
    BY <1>1 DEF L
  <2>2. \A k \in 1 .. n - n + 1 : SubSeq(w, n, n)[k] = w[n + k - 1]
    BY <2>1, PartOf
  <2>3. 1 \in 1 .. n - n + 1 /\ n + 1 - 1 = L + 1 /\ 1 \in 1 .. Len(f)
    BY <1>1, <1>6
  <2>4. SubSeq(w, n, n)[1] = 10 + d
    BY <1>6, <1>9, <2>2, <2>3
  <2>5. (10 + d) % 10 = d
    <3>1. \A i \in 0 .. 9 : (10 + i) % 10 = i
      OBVIOUS
    <3> QED BY <1>6, <3>1
  <2>6. dataLenIn(SubSeq(w, n, n)) = d
    BY <2>4, <2>5 DEF dataLenIn
  <2> QED BY <1>1, <1>6, <1>7, <2>6
<1>11. SubSeq(SubSeq(w, 1, S), n, S) = f
  <2> DEFINE b == SubSeq(w, 1, S)
             c == SubSeq(b, n, S)
  <2>1. S \in Int /\ 1 <= S + 1
    BY <1>9
  <2>2. /\ b \in Seq(Nat) /\ Len(b) = S - 1 + 1
        /\ \A k \in 1 .. S - 1 + 1 : b[k] = w[1 + k - 1]
    BY <1>9, <2>1, PartOf
  <2>3. Len(b) = S /\ \A k \in 1 .. S : b[k] = w[k]
    BY <1>9, <2>2
  <2> HIDE DEF b
  <2>4. n \in Int /\ 1 <= n /\ n <= S + 1
    BY <1>1, <1>6, <1>7
  <2>5. /\ c \in Seq(Nat) /\ Len(c) = S - n + 1
        /\ \A k \in 1 .. S - n + 1 : c[k] = b[n + k - 1]
    <3>1. S <= Len(b)
      BY <2>1, <2>3
    <3> HIDE DEF n
    <3> QED BY <2>1, <2>2, <2>4, <3>1, PartOf
  <2> HIDE DEF c
  <2>6. S - n + 1 = Len(f)
    BY <1>1, <1>6, <1>7
  <2>7. ASSUME NEW k \in 1 .. Len(f) PROVE c[k] = f[k]
    <3>1. n + k - 1 = L + k /\ L + k \in 1 .. S
      BY <1>1, <1>6, <1>7
    <3> QED BY <1>9, <2>3, <2>5, <2>6, <3>1
  <2>8. c = f
    BY <1>6, <2>5, <2>6, <2>7, SeqEqual
  <2> QED BY <2>8 DEF b, c
<1>12. \E to : InStep(SubSeq(w, S + 1, Len(w)), ms, h + 1, to)
  <2> DEFINE v  == SubSeq(w, S + 1, Len(w))
             to == [k \in h + 2 .. N + 1 |-> at[k] - S]
  <2>1. /\ v \in Seq(Nat) /\ Len(v) = Len(w) - S
        /\ \A k \in 1 .. Len(w) - S : v[k] = w[S + k]
    <3>1. S + 1 \in Int /\ 1 <= S + 1 /\ S + 1 <= Len(w) + 1
      BY <1>1, <1>9
    <3>2. /\ v \in Seq(Nat) /\ Len(v) = Len(w) - (S + 1) + 1
          /\ \A k \in 1 .. Len(w) - (S + 1) + 1 : v[k] = w[(S + 1) + k - 1]
      BY <1>1, <3>1, PartOf
    <3>3. Len(w) - (S + 1) + 1 = Len(w) - S /\ \A k \in 1 .. Len(w) - S : (S + 1) + k - 1 = S + k
      BY <1>1, <1>9
    <3> HIDE DEF v
    <3> QED BY <3>2, <3>3
  <2> HIDE DEF v
  <2>2. /\ h + 2 \in h + 1 .. N + 1
        /\ \A k \in h + 2 .. N + 1 : k \in h + 1 .. N + 1 /\ h + 2 <= k
        /\ \A k \in h + 2 .. N : k \in h + 1 .. N /\ k + 1 \in h + 2 .. N + 1
                                 /\ k \in h + 2 .. N + 1
    BY <1>1, <1>4
  <2>3. \A k \in h + 2 .. N + 1 : at[k] \in Nat /\ at[k] >= 1 + S
    BY <1>2, <1>8, <2>2
  <2>4. to \in [h + 2 .. N + 1 -> Nat] /\ \A k \in h + 2 .. N + 1 : to[k] = at[k] - S
    <3>1. \A k \in h + 2 .. N + 1 : at[k] - S \in Nat
      BY <1>9, <2>3
    <3> QED BY <3>1
  <2> HIDE DEF to
  <2>5. to[h + 2] = 1 /\ to[N + 1] = Len(v) + 1
    <3>1. h + 2 \in h + 2 .. N + 1 /\ N + 1 \in h + 2 .. N + 1
      BY <1>1, <1>3, <1>4
    <3> QED BY <1>1, <1>2, <1>8, <1>9, <2>1, <2>4, <3>1
  <2>6. ASSUME NEW k \in h + 2 .. N + 1, NEW l \in h + 2 .. N + 1, k <= l PROVE to[k] <= to[l]
    <3>1. k \in h + 1 .. N + 1 /\ l \in h + 1 .. N + 1
      BY <2>2
    <3>2. at[k] <= at[l]
      BY <1>2, <2>6, <3>1
    <3>3. at[k] \in Nat /\ at[l] \in Nat /\ S \in Nat
      BY <1>9, <2>3
    <3>4. to[k] = at[k] - S /\ to[l] = at[l] - S
      BY <2>4
    <3> QED BY <3>2, <3>3, <3>4
  <2>7. ASSUME NEW k \in h + 2 .. N
        PROVE  to[k + 1] = to[k] + Size(ms[k]) /\ Whole(v, to[k], ms[k])
    <3> DEFINE g == Magic \o formatMsg(ms[k])
               e == Size(ms[k])
    <3>1. ms[k] \in Msgs
      <4>1. k \in 1 .. N
        BY <1>1, <1>4
      <4> QED BY <4>1, ElementOfSeq DEF N
    <3>2. e \in Nat
      BY <1>1, <3>1, BytesOf, LenProperties DEF Size, L
    <3>3. /\ at[k + 1] = at[k] + Size(ms[k])
          /\ at[k] + e - 1 <= Len(w)
          /\ \A j \in 1 .. e : w[at[k] + j - 1] = g[j]
      BY <1>2, <2>2 DEF Whole
    <3>4. /\ to[k] = at[k] - S /\ to[k + 1] = at[k + 1] - S
          /\ at[k] \in Nat /\ at[k + 1] \in Nat /\ at[k] >= 1 + S
      BY <2>2, <2>3, <2>4
    <3>5. to[k + 1] = to[k] + Size(ms[k])
      BY <1>9, <3>2, <3>3, <3>4
    <3> HIDE DEF g, e
    <3>i. S \in Nat /\ Len(w) \in Nat /\ Len(v) = Len(w) - S /\ e \in Nat
          /\ at[k] + e - 1 <= Len(w)
      BY <1>1, <1>9, <2>1, <3>2, <3>3
    <3> DEFINE a == at[k]
               t == to[k]
    <3>j. /\ t = a - S /\ a \in Nat /\ a >= 1 + S /\ e \in Nat
          /\ a + e - 1 <= Len(w)
      BY <3>i, <3>4
    <3> HIDE DEF a, t
    <3>6. to[k] + e - 1 <= Len(v)
      <4>1. t + e - 1 <= Len(v)
        BY <3>i, <3>j
      <4> QED BY <4>1 DEF t
    <3>7. ASSUME NEW j \in 1 .. e PROVE v[to[k] + j - 1] = g[j]
      <4>1. /\ to[k] + j - 1 \in 1 .. Len(w) - S
            /\ S + (to[k] + j - 1) = at[k] + j - 1
        <5>2. /\ t + j - 1 \in 1 .. Len(w) - S
              /\ S + (t + j - 1) = a + j - 1
          BY <3>i, <3>j
        <5> QED BY <5>2 DEF t, a
      <4>2. v[to[k] + j - 1] = w[at[k] + j - 1]
        BY <2>1, <4>1
      <4> QED BY <3>3, <4>2
    <3> QED BY <3>5, <3>6, <3>7 DEF Whole, g, e
  <2>8. InStep(v, ms, h + 1, to)
    <3>1. (h + 1) + 1 = h + 2 /\ h + 1 \in 0 .. N
      BY <1>1, <1>4
    <3> QED BY <2>4, <2>5, <2>6, <2>7, <3>1 DEF InStep, N, L
  <2> QED BY <2>8 DEF v
<1>13. n <= S
  BY <1>1, <1>6, <1>7
<1> QED BY <1>4, <1>9, <1>10, <1>11, <1>12, <1>13, <1>16 DEF N, L, m, f, S, x

\* With less than that, nothing of a message is left.
LEMMA InStepEnd ==
  ASSUME NEW w \in Seq(Nat), NEW ms \in Seq(Msgs), NEW h, NEW at, InStep(w, ms, h, at),
         Len(w) < Len(Magic) + 1
  PROVE  h = Len(ms) /\ w = <<>>
<1>1. Len(w) \in Nat /\ Len(ms) \in Nat /\ Len(Magic) \in Nat
  BY MagicIsBytes, LenProperties
<1>2. h \in 0 .. Len(ms) /\ at[h + 1] = 1 /\ at[Len(ms) + 1] = Len(w) + 1
  BY DEF InStep
<1>3. h = Len(ms)
  <2>1. SUFFICES ASSUME h # Len(ms) PROVE FALSE
    OBVIOUS
  <2>2. h + 1 \in h + 1 .. Len(ms) /\ h + 1 \in 1 .. Len(ms)
    BY <1>1, <1>2, <2>1
  <2>3. Whole(w, at[h + 1], ms[h + 1])
    BY <2>2 DEF InStep
  <2>4. ms[h + 1] \in Msgs
    BY <2>2, ElementOfSeq
  <2> DEFINE e == Len(formatMsg(ms[h + 1]))
  <2>5. e \in Nat /\ e >= 2
    <3>1. Len(ms[h + 1].data) \in 0 .. 9 /\ e = Len(ms[h + 1].data) + 2
      BY <2>4, BytesOf
    <3> QED BY <3>1
  <2>6. 1 + (Len(Magic) + e) - 1 <= Len(w)
    BY <1>2, <2>3 DEF Whole, Size
  <2> HIDE DEF e
  <2> QED BY <1>1, <2>5, <2>6
<1>4. Len(w) = 0
  BY <1>1, <1>2, <1>3
<1> QED BY <1>3, <1>4, EmptySeq

\* As long as nothing is damaged, what is in the stream is what is left of the messages.
ActiveInv ==
  (mode = "active" /\ damage = 0) =>
    /\ pc \in {"read", "done"}
    /\ pc = "done" => closed /\ wire = <<>>
    /\ Len(handled) <= Len(sent)
    /\ \A i \in 1 .. Len(handled) : handled[i] = sent[i]
    /\ \E at : InStep(wire, sent, Len(handled), at)

LEMMA ActiveInit == ASSUME Init PROVE ActiveInv
<1> SUFFICES ASSUME mode = "active", damage = 0 PROVE ActiveInv
  BY DEF ActiveInv
<1>1. wire = <<>> /\ sent = <<>> /\ handled = <<>> /\ pc = "read"
  BY DEF Init
<1> DEFINE at == [k \in 1 .. 1 |-> 1]
<1>2. InStep(<<>>, <<>>, 0, at)
  <2>1. Len(<<>>) = 0
    OBVIOUS
  <2>2. at \in [0 + 1 .. 0 + 1 -> Nat] /\ at[1] = 1 /\ 0 \in 0 .. 0
    OBVIOUS
  <2>3. \A k, l \in 0 + 1 .. 0 + 1 : k <= l => at[k] <= at[l]
    OBVIOUS
  <2> HIDE DEF at
  <2>4. \A k \in 0 + 1 .. 0 : FALSE
    OBVIOUS
  <2> QED BY <2>1, <2>2, <2>3, <2>4 DEF InStep
<1> HIDE DEF at
<1>3. Len(handled) = 0 /\ Len(sent) = 0
  BY <1>1
<1>4. \E x : InStep(wire, sent, Len(handled), x)
  BY <1>1, <1>2, <1>3
<1>5. \A i \in 1 .. Len(handled) : handled[i] = sent[i]
  BY <1>3
<1> QED BY <1>1, <1>3, <1>4, <1>5 DEF ActiveInv

LEMMA ActivePut ==
  ASSUME TypeOK, ActiveInv, PutMessage PROVE ActiveInv'
<1> SUFFICES ASSUME mode' = "active", damage' = 0 PROVE ActiveInv'
  BY DEF ActiveInv
<1>1. PICK d \in Payloads : /\ wire' = wire \o (Magic \o formatMsg(Message(Post, d)))
                            /\ sent' = Append(sent, Message(Post, d))
  BY DEF PutMessage, Put
<1>2. /\ ~closed /\ damage = 0 /\ mode = "active"
      /\ handled' = handled /\ pc' = pc /\ closed' = closed
  BY DEF PutMessage, Put, kind
<1> DEFINE m == Message(Post, d)
           h == Len(handled)
<1>3. m \in Msgs
  BY DEF Msgs, Message
<1>4. sent \in Seq(Msgs) /\ wire \in Seq(Nat) /\ handled \in Seq([function : Functions, data : Seq(Nat)])
  BY DEF TypeOK, Msgs
<1>5. /\ pc = "read" /\ h <= Len(sent)
      /\ \A i \in 1 .. h : handled[i] = sent[i]
  BY <1>2 DEF ActiveInv
<1>6. PICK at : InStep(wire, sent, h, at)
  BY <1>2 DEF ActiveInv
<1> HIDE DEF m, h
<1>7. \E at1 : InStep(wire', sent', h, at1)
  BY <1>1, <1>3, <1>4, <1>6, InStepPut DEF m
<1>8. /\ Len(sent') = Len(sent) + 1 /\ Len(sent) \in Nat
      /\ \A i \in 1 .. Len(sent) : sent'[i] = sent[i]
  BY <1>1, <1>3, <1>4, AppendProperties DEF m
<1>9. h \in Nat /\ \A i \in 1 .. h : i \in 1 .. Len(sent)
  BY <1>4, <1>5, <1>8 DEF h
<1>10. h <= Len(sent') /\ \A i \in 1 .. h : handled'[i] = sent'[i]
  BY <1>2, <1>5, <1>8, <1>9
<1> QED BY <1>2, <1>5, <1>7, <1>10 DEF ActiveInv, h

\* What is taken from the stream is the next message, with its magic number.
LEMMA ActiveTakes ==
  ASSUME TypeOK, ActiveInv, ReadActive, damage = 0, NEW m, m = sent[Len(handled) + 1]
  PROVE  /\ Len(handled) + 1 \in 1 .. Len(sent) /\ m \in Msgs
         /\ handled' = Append(handled, m) /\ rec' = rec \o (Magic \o formatMsg(m))
         /\ \E to : InStep(wire', sent, Len(handled) + 1, to)
<1> DEFINE L == Len(Magic)
           n == L + 1
           h == Len(handled)
           S == Size(m)
           b == n + dataLenIn(SubSeq(wire, n, n)) + 1
<1>1. /\ mode = "active" /\ pc = "read" /\ Len(wire) >= n /\ ~replies
      /\ Caller(SubSeq(Bytes(b), n, Len(Bytes(b))), rec \o Bytes(b))
      /\ wire' = SubSeq(wire, Len(Bytes(b)) + 1, Len(wire))
  BY DEF ReadActive, Trusting, TypeOK
<1>2. /\ sent \in Seq(Msgs) /\ wire \in Seq(Nat)
      /\ handled \in Seq([function : Functions, data : Seq(Nat)])
  BY DEF TypeOK, Msgs
<1>3. PICK at : InStep(wire, sent, h, at)
  BY <1>1 DEF ActiveInv
<1> HIDE DEF h
<1>5. /\ h + 1 \in 1 .. Len(sent)
      /\ b = Size(sent[h + 1]) /\ Size(sent[h + 1]) \in Nat
      /\ n <= Size(sent[h + 1]) /\ Size(sent[h + 1]) <= Len(wire)
      /\ SubSeq(SubSeq(wire, 1, Size(sent[h + 1])), n, Size(sent[h + 1])) = formatMsg(sent[h + 1])
      /\ SubSeq(wire, 1, Size(sent[h + 1])) = Magic \o formatMsg(sent[h + 1])
      /\ \E to : InStep(SubSeq(wire, Size(sent[h + 1]) + 1, Len(wire)), sent, h + 1, to)
  BY <1>1, <1>2, <1>3, InStepTake
<1>6. m = sent[h + 1]
  BY DEF h
<1>7. /\ h + 1 \in 1 .. Len(sent)
      /\ b = S /\ S \in Nat /\ n <= S /\ S <= Len(wire)
      /\ SubSeq(SubSeq(wire, 1, S), n, S) = formatMsg(m)
      /\ SubSeq(wire, 1, S) = Magic \o formatMsg(m)
      /\ \E to : InStep(SubSeq(wire, S + 1, Len(wire)), sent, h + 1, to)
  BY <1>5, <1>6
<1>8. m \in Msgs
  BY <1>2, <1>5, <1>6, ElementOfSeq
<1> HIDE DEF S, b
<1>9. Bytes(b) = SubSeq(wire, 1, S) /\ Len(Bytes(b)) = S
  <2>1. Len(wire) \in Nat
    BY <1>2, LenProperties
  <2>2. Bytes(b) = SubSeq(wire, 1, S)
    <3>1. CASE Len(wire) < b
      BY <1>7, <2>1, <3>1
    <3>2. CASE ~(Len(wire) < b)
      BY <1>7, <3>2 DEF Bytes
    <3> QED BY <3>1, <3>2
  <2>3. Len(SubSeq(wire, 1, S)) = S
    BY <1>2, <1>7, FirstPart
  <2> QED BY <2>2, <2>3
<1>10. m \in [function : Functions, data : Seq(Nat)]
  <2>1. m.data \in Seq(Nat)
    <3>1. DataBytes \subseteq Nat
      BY DEF DataBytes
    <3> QED BY <1>8, <3>1, BytesOf, SeqMonotonic
  <2> QED BY <1>8, <2>1 DEF Msgs, Functions
<1>11. handled' = Append(handled, m) /\ rec' = rec \o (Magic \o formatMsg(m))
  <2>1. SubSeq(Bytes(b), n, Len(Bytes(b))) = formatMsg(m)
    BY <1>7, <1>9
  <2>2. handled' = handled \o parseMsg(formatMsg(m)) /\ rec' = rec \o Bytes(b)
    BY <1>1, <2>1 DEF Caller
  <2>3. formatMsg(m) \in Seq(Nat) /\ <<>> \in Seq(Nat)
    BY <1>8, BytesOf
  <2>4. formatMsg(m) \o <<>> = formatMsg(m)
    BY <2>3
  <2>5. parseMsg(formatMsg(m) \o <<>>) = <<m>>
    BY <1>8, <2>3, BytesOf
  <2>6. handled' = handled \o <<m>>
    BY <2>2, <2>4, <2>5
  <2> DEFINE R == [function : Functions, data : Seq(Nat)]
  <2>7. handled \in Seq(R) /\ m \in R
    BY <1>2, <1>10
  <2> HIDE DEF R
  <2>8. handled' = Append(handled, m)
    BY <2>6, <2>7, AppendIsConcat
  <2> QED BY <1>7, <1>9, <2>2, <2>8
<1>12. \E to : InStep(wire', sent, h + 1, to)
  BY <1>1, <1>7, <1>9
<1> QED BY <1>7, <1>8, <1>11, <1>12 DEF h

LEMMA ActiveRead ==
  ASSUME TypeOK, ActiveInv, ReadActive PROVE ActiveInv'
<1> SUFFICES ASSUME mode' = "active", damage' = 0 PROVE ActiveInv'
  BY DEF ActiveInv
<1> DEFINE h == Len(handled)
           m == sent[h + 1]
<1>1. /\ mode = "active" /\ pc = "read" /\ damage = 0
      /\ sent' = sent /\ pc' = pc /\ closed' = closed
  BY DEF ReadActive, Trusting, put
<1>2. handled \in Seq([function : Functions, data : Seq(Nat)])
  BY DEF TypeOK
<1>3. \A i \in 1 .. h : handled[i] = sent[i]
  BY <1>1 DEF ActiveInv
<1>4. /\ h + 1 \in 1 .. Len(sent) /\ m \in Msgs
      /\ handled' = Append(handled, m)
      /\ \E to : InStep(wire', sent, h + 1, to)
  BY <1>1, ActiveTakes
<1> HIDE DEF h, m
<1>5. /\ Len(handled') = h + 1 /\ h \in Nat
      /\ handled'[h + 1] = m /\ \A i \in 1 .. h : handled'[i] = handled[i]
  BY <1>2, <1>4, AppendProperties, LenProperties DEF h
<1>6. \A i \in 1 .. h + 1 : handled'[i] = sent'[i]
  <2>1. \A i \in 1 .. h + 1 : i = h + 1 \/ i \in 1 .. h
    BY <1>5
  <2> QED BY <1>1, <1>3, <1>5, <2>1 DEF m
<1>7. \E to : InStep(wire', sent', Len(handled'), to)
  BY <1>1, <1>4, <1>5
<1>8. Len(handled') <= Len(sent')
  BY <1>1, <1>4, <1>5
<1> QED BY <1>1, <1>5, <1>6, <1>7, <1>8 DEF ActiveInv

LEMMA ActiveStep == ASSUME TypeOK, ActiveInv, [Next]_vars PROVE ActiveInv'
<1>1. CASE PutMessage
  BY <1>1, ActivePut
<1>2. CASE PutDamaged \/ PutStray
  <2>1. damage \in Nat /\ damage' = damage + 1
    BY <1>2 DEF PutDamaged, PutStray, Damage, TypeOK
  <2>2. damage' # 0
    BY <2>1
  <2> QED BY <2>2 DEF ActiveInv
<1>3. CASE EndStream
  BY <1>3 DEF EndStream, ActiveInv, put, kind
<1>4. CASE ReadByte
  BY <1>4 DEF ReadByte, Delimiting, ActiveInv, kind
<1>5. CASE ReadEof
  BY <1>5 DEF ReadEof, Delimiting, ActiveInv, kind
<1>6. CASE ReadActive
  BY <1>6, ActiveRead
<1>7. CASE ReadActiveEnd
  <2> SUFFICES ASSUME mode' = "active", damage' = 0 PROVE ActiveInv'
    BY DEF ActiveInv
  <2>1. /\ mode = "active" /\ damage = 0 /\ closed /\ closed' = closed /\ sent' = sent
        /\ handled' = handled /\ wire' = <<>>
        /\ Len(wire) < Len(Magic) + 1
        /\ wire = <<>> => pc' = "done"
    BY <1>7 DEF ReadActiveEnd, Trusting, put, kind
  <2>2. PICK at : InStep(wire, sent, Len(handled), at)
    BY <2>1 DEF ActiveInv
  <2>3. wire = <<>>
    <3>1. sent \in Seq(Msgs) /\ wire \in Seq(Nat)
      BY DEF TypeOK, Msgs
    <3> QED BY <2>1, <2>2, <3>1, InStepEnd
  <2> QED BY <2>1, <2>2, <2>3 DEF ActiveInv
<1>8. CASE SendOther
  BY <1>8 DEF SendOther, ActiveInv, stream, put, kind
<1>9. CASE UNCHANGED vars
  BY <1>9 DEF ActiveInv, vars, stream, put, kind
<1> QED BY <1>1, <1>2, <1>3, <1>4, <1>5, <1>6, <1>7, <1>8, <1>9 DEF Next

LEMMA ActiveImplies == ASSUME TypeOK, ActiveInv PROVE ActiveInStep
<1> SUFFICES ASSUME mode = "active", damage = 0
             PROVE  /\ IsPrefix(handled, sent)
                    /\ (pc = "done" => handled = sent)
                    /\ pc # "raised"
  BY DEF ActiveInStep
<1> DEFINE h == Len(handled)
           R == [function : Functions, data : Seq(Nat)]
<1>1. /\ pc \in {"read", "done"}
      /\ pc = "done" => wire = <<>>
      /\ h <= Len(sent)
      /\ \A i \in 1 .. h : handled[i] = sent[i]
  BY DEF ActiveInv
<1>2. PICK at : InStep(wire, sent, h, at)
  BY DEF ActiveInv
<1>3. sent \in Seq(Msgs) /\ wire \in Seq(Nat) /\ handled \in Seq(R)
  BY DEF TypeOK, Msgs
<1> HIDE DEF R
<1>4. h \in Nat /\ Len(sent) \in Nat
  BY <1>3, LenProperties
<1>5. SubSeq(sent, 1, h) = handled
  <2>1. \A i \in 1 .. h : sent[i] = handled[i] /\ handled[i] \in R
    BY <1>1, <1>3, ElementOfSeq
  <2> DEFINE p == SubSeq(sent, 1, h)
  <2>2. p = [i \in 1 .. h |-> sent[i]]
    <3>1. \A i \in 1 .. h : i \in 1 .. Len(sent)
      BY <1>1, <1>4
    <3>2. \A i \in 1 .. h : sent[i] \in Msgs
      BY <1>3, <3>1, ElementOfSeq
    <3> QED BY <1>3, <1>4, <3>2
  <2>3. handled = [i \in 1 .. h |-> handled[i]]
    BY <1>3
  <2> QED BY <2>1, <2>2, <2>3
<1>6. SubSeq(handled, 1, h) = handled
  BY <1>3
<1>7. IsPrefix(handled, sent)
  BY <1>1, <1>5, <1>6 DEF IsPrefix
<1>8. ASSUME pc = "done" PROVE handled = sent
  <2>1. Len(wire) < Len(Magic) + 1
    <3>1. wire = <<>> /\ Len(Magic) \in Nat
      BY <1>1, <1>8, MagicIsBytes, LenProperties
    <3> QED BY <3>1
  <2>2. h = Len(sent)
    BY <1>2, <1>3, <2>1, InStepEnd
  <2>3. SubSeq(sent, 1, Len(sent)) = sent
    BY <1>3
  <2> QED BY <1>5, <2>2, <2>3
<1>9. pc # "raised"
  BY <1>1
<1> QED BY <1>7, <1>8, <1>9

\* On a line that is not RS485 the messages are handled in the order and as often as
\* they are sent, and the reader does not stop before the end, as long as no byte is
\* damaged or lost (msg.py:34-44).
THEOREM StaysInStep == Spec => []ActiveInStep
<1>1. Init => TypeOK /\ ActiveInv
  BY TypeInit, ActiveInit
<1>2. TypeOK /\ ActiveInv /\ [Next]_vars => (TypeOK /\ ActiveInv)'
  BY TypeStep, ActiveStep
<1>3. TypeOK /\ ActiveInv => ActiveInStep
  BY ActiveImplies
<1> QED BY <1>1, <1>2, <1>3, PTL DEF Spec

-----------------------------------------------------------------------------
(* Reading to the next magic number. *)

-----------------------------------------------------------------------------
(* Reading up to the next magic number. *)

\* The magic number is in t, from the q-th byte.
MagicAt(t, q) ==
  /\ q >= 1 /\ q + Len(Magic) - 1 <= Len(t)
  /\ \A j \in 1 .. Len(Magic) : t[q + j - 1] = Magic[j]

LEMMA StreamBytesAreData == /\ StreamBytes \subseteq 0 .. 9
                            /\ \A j \in 1 .. Len(Magic) : Magic[j] \in StreamBytes
                            /\ \A d \in Payloads : \A j \in 1 .. Len(d) : d[j] \in StreamBytes
<1>1. Magic \in Seq(DataBytes) /\ Payloads \subseteq Seq(DataBytes) /\ Stray \subseteq DataBytes
  BY MagicAssumption, DataAssumption
<1>2. ASSUME NEW s \in Seq(DataBytes)
      PROVE  ToSet(s) \subseteq DataBytes /\ \A j \in 1 .. Len(s) : s[j] \in ToSet(s)
  BY <1>2, ElementOfSeq DEF ToSet
<1>3. \A d \in Payloads : ToSet(d) \subseteq DataBytes /\ \A j \in 1 .. Len(d) : d[j] \in ToSet(d)
  BY <1>1, <1>2
<1>4. ToSet(Magic) \subseteq DataBytes /\ \A j \in 1 .. Len(Magic) : Magic[j] \in ToSet(Magic)
  BY <1>1, <1>2
<1>5. StreamBytes \subseteq DataBytes
  BY <1>1, <1>3, <1>4 DEF StreamBytes
<1>6. \A d \in Payloads : ToSet(d) \subseteq StreamBytes
  BY DEF StreamBytes
<1> QED BY <1>3, <1>4, <1>5, <1>6 DEF StreamBytes, DataBytes

\* Two magic numbers do not overlap.
LEMMA MagicApart ==
  ASSUME NEW t, NEW q \in Int, NEW r \in Int, q < r, MagicAt(t, q), MagicAt(t, r)
  PROVE  q + Len(Magic) <= r
<1> SUFFICES ASSUME r < q + Len(Magic) PROVE FALSE
  BY MagicIsBytes
<1> DEFINE i == r - q + 1
<1>1. i \in 1 .. Len(Magic) /\ i # 1 /\ 1 \in 1 .. Len(Magic) /\ q + i - 1 = r /\ r + 1 - 1 = r
  BY MagicIsBytes
<1> HIDE DEF i
<1>2. t[q + i - 1] = Magic[i] /\ t[r + 1 - 1] = Magic[1]
  BY <1>1 DEF MagicAt
<1>3. Magic[i] = Magic[1]
  BY <1>1, <1>2
<1> QED BY <1>1, <1>3, MagicAssumption

LEMMA MagicIsThere ==
  ASSUME NEW s \in Seq(Nat), NEW i \in Int, 1 <= i, i + Len(Magic) - 1 <= Len(s)
  PROVE  (SubSeq(s, i, i + Len(Magic) - 1) = Magic) <=> MagicAt(s, i)
<1> DEFINE L == Len(Magic)
           j == i + L - 1
           p == SubSeq(s, i, j)
<1>1. L \in Nat \ {0} /\ j \in Int /\ i <= j + 1 /\ j <= Len(s) /\ j - i + 1 = L
  BY MagicIsBytes
<1>2. /\ p \in Seq(Nat) /\ Len(p) = j - i + 1
      /\ \A k \in 1 .. j - i + 1 : p[k] = s[i + k - 1]
  <2> HIDE DEF j
  <2> QED BY <1>1, PartOf
<1>3. p = Magic => MagicAt(s, i)
  <2> HIDE DEF p
  <2> QED BY <1>1, <1>2 DEF MagicAt
<1>4. MagicAt(s, i) => p = Magic
  <2> SUFFICES ASSUME MagicAt(s, i) PROVE p = Magic
    OBVIOUS
  <2> HIDE DEF p
  <2>1. Len(p) = Len(Magic)
    BY <1>1, <1>2
  <2>2. ASSUME NEW k \in 1 .. Len(p) PROVE p[k] = Magic[k]
    BY <1>1, <1>2, <2>1 DEF MagicAt
  <2> QED BY <1>2, <2>1, <2>2, MagicIsBytes, SeqEqual
<1> QED BY <1>3, <1>4

LEMMA MagicSomewhere ==
  ASSUME NEW s \in Seq(Nat)
  PROVE  HasMagic(s) <=> \E i \in 1 .. Len(s) - Len(Magic) + 1 : MagicAt(s, i)
<1>1. Len(s) \in Nat /\ Len(Magic) \in Nat
  BY MagicIsBytes, LenProperties
<1>2. ASSUME NEW i \in 1 .. Len(s) - Len(Magic) + 1
      PROVE  (SubSeq(s, i, i + Len(Magic) - 1) = Magic) <=> MagicAt(s, i)
  <2>1. i \in Int /\ 1 <= i /\ i + Len(Magic) - 1 <= Len(s)
    BY <1>1
  <2> QED BY <2>1, MagicIsThere
<1> QED BY <1>2 DEF HasMagic

\* Only a header is a number that a header has.
LEMMA OnlyHeaders ==
  /\ \A x \in 0 .. 9 : x \div 10 \notin Functions
  /\ \A x \in Nat : x \notin 0 .. 39 => x \div 10 \notin Functions
  /\ \A n \in 0 .. 9 : (10 + n) \div 10 = Post /\ (10 + n) % 10 = n
  /\ Post \in Functions /\ Header(Grant, 9) = 39
<1>1. \A x \in 0 .. 9 : x \div 10 = 0
  OBVIOUS
<1>2. \A x \in Nat : x \notin 0 .. 39 => x \div 10 > 3
  OBVIOUS
<1>3. \A x \in Nat : x \div 10 \in Int
  OBVIOUS
<1>4. \A n \in 0 .. 9 : (10 + n) \div 10 = 1 /\ (10 + n) % 10 = n
  OBVIOUS
<1> QED BY <1>1, <1>2, <1>3, <1>4 DEF Functions, Post, Ack, Grant, Header

\* The bytes of a message, of a part of it and of what is made of it by a changed byte.
LEMMA FrameBytes ==
  ASSUME NEW m \in Msgs
  PROVE  /\ Len(m.data) \in 0 .. 9 /\ m.data \in Payloads
         /\ formatMsg(m) \in Seq(Nat) /\ Len(formatMsg(m)) = Len(m.data) + 2
         /\ formatMsg(m)[1] = Header(Post, Len(m.data)) /\ formatMsg(m)[1] = 10 + Len(m.data)
         /\ \A i \in 2 .. Len(m.data) + 1 : formatMsg(m)[i] = m.data[i - 1]
                                            /\ formatMsg(m)[i] \in StreamBytes
         /\ formatMsg(m)[Len(m.data) + 2] = calcCrc(Post, m.data)
         /\ formatMsg(m)[Len(m.data) + 2] \in Nat
         /\ formatMsg(m)[Len(m.data) + 2] \notin 0 .. 39
<1> DEFINE d == m.data
           f == formatMsg(m)
<1>1. d \in Payloads
  BY DEF Msgs
<1>2. /\ Len(d) \in 0 .. 9 /\ f \in Seq(Nat) /\ Len(f) = Len(d) + 2
      /\ f[1] = 10 + Len(d)
      /\ f[Len(d) + 2] = calcCrc(Post, d)
  BY BytesOf
<1>3. \A i \in 1 .. Len(d) : f[i + 1] = d[i]
  BY BytesOf
<1> HIDE DEF d, f
<1>4. ASSUME NEW i \in 2 .. Len(d) + 1 PROVE f[i] = d[i - 1] /\ f[i] \in StreamBytes
  <2>1. i - 1 \in 1 .. Len(d) /\ (i - 1) + 1 = i
    BY <1>2
  <2>2. f[i] = d[i - 1]
    BY <1>3, <2>1
  <2> QED BY <1>1, <2>1, <2>2, StreamBytesAreData
<1>5. f[Len(d) + 2] \in Nat
  BY <1>1, <1>2, CrcAssumption DEF Post
<1>6. f[Len(d) + 2] \notin 0 .. 39
  <2>1. d \in [1 .. Len(d) -> StreamBytes]
    <3>1. d = [j \in 1 .. Len(d) |-> d[j]]
      BY <1>1, DataAssumption
    <3> QED BY <1>1, <3>1, StreamBytesAreData
  <2>2. calcCrc(Post, d) \notin 0 .. Header(Grant, 9)
    BY <1>1, <2>1, DamageAssumption
  <2> QED BY <1>2, <2>2, OnlyHeaders
<1>7. Header(Post, Len(d)) = 10 + Len(d)
  BY <1>2 DEF Header, Post
<1> QED BY <1>1, <1>2, <1>4, <1>5, <1>6, <1>7 DEF d, f

\* Where the checksum of the message with its header at s ought to be, and its data.
End(t, s)    == s + (t[s] % 10) + 1
DataAt(t, s) == [i \in 1 .. t[s] % 10 |-> t[s + i]]
IsHeader(t, s) == t[s] \div 10 \in Functions

\* Nothing valid begins with the header at s, whatever is still put into the stream: its
\* message stops early, contains the magic number, or has the wrong checksum.
Open(t, s) ==
  /\ End(t, s) > Len(t)
  /\ \E d \in Payloads : t[s] = Header(Post, Len(d))
  /\ \A j \in s + 1 .. Len(t) : t[j] \in StreamBytes
CutAt(t, s, r) ==
  /\ MagicAt(t, r)
  /\ \E d \in Payloads : t[s] = Header(Post, Len(d))
  /\ \A j \in s + 1 .. r - 1 : t[j] \in StreamBytes
Cut(t, s)     == \E r \in s + 1 .. End(t, s) : CutAt(t, s, r)
Changed(t, s) == End(t, s) <= Len(t) /\ t[End(t, s)] # calcCrc(t[s] \div 10, DataAt(t, s))
Broken(t, s)  == Open(t, s) \/ Cut(t, s) \/ Changed(t, s)

\* u is t with x after it.
Extends(t, x, u) ==
  /\ t \in Seq(Nat) /\ x \in Seq(Nat) /\ u \in Seq(Nat)
  /\ Len(t) \in Nat /\ Len(x) \in Nat /\ Len(u) = Len(t) + Len(x)
  /\ \A i \in 1 .. Len(t) : u[i] = t[i]
  /\ \A i \in 1 .. Len(x) : u[Len(t) + i] = x[i]

LEMMA ExtendsJoin ==
  ASSUME NEW t \in Seq(Nat), NEW x \in Seq(Nat), NEW u, u = t \o x
  PROVE  Extends(t, x, u)
BY Joined DEF Extends

LEMMA EndIsNat ==
  ASSUME NEW t \in Seq(Nat), NEW s \in 1 .. Len(t)
  PROVE  /\ t[s] \in Nat /\ t[s] % 10 \in 0 .. 9 /\ Len(t) \in Nat
         /\ End(t, s) \in Nat /\ End(t, s) > s
<1>1. t[s] \in Nat /\ Len(t) \in Nat
  BY ElementOfSeq, LenProperties
<1>2. \A x \in Nat : x % 10 \in 0 .. 9
  OBVIOUS
<1> DEFINE n == t[s] % 10
<1>3. n \in 0 .. 9
  BY <1>1, <1>2
<1>4. End(t, s) = s + n + 1
  BY DEF End
<1> HIDE DEF n
<1>5. End(t, s) \in Nat /\ End(t, s) > s
  BY <1>1, <1>3, <1>4
<1> QED BY <1>1, <1>3, <1>5 DEF n

LEMMA MagicKept ==
  ASSUME NEW t, NEW x, NEW u, Extends(t, x, u), NEW q \in Int, MagicAt(t, q)
  PROVE  MagicAt(u, q)
<1>1. /\ q >= 1 /\ q + Len(Magic) - 1 <= Len(t) /\ Len(t) \in Nat /\ Len(x) \in Nat
      /\ Len(u) = Len(t) + Len(x) /\ Len(Magic) \in Nat
  BY MagicIsBytes DEF Extends, MagicAt
<1>2. ASSUME NEW j \in 1 .. Len(Magic) PROVE u[q + j - 1] = Magic[j]
  <2>1. q + j - 1 \in 1 .. Len(t)
    BY <1>1
  <2> QED BY <2>1 DEF Extends, MagicAt
<1>3. q + Len(Magic) - 1 <= Len(u)
  BY <1>1
<1> QED BY <1>1, <1>2, <1>3 DEF MagicAt

LEMMA CarriesKept ==
  ASSUME NEW t, NEW x, NEW u, Extends(t, x, u), NEW m \in Msgs,
         NEW p \in Nat \ {0}, Carries(t, p, m)
  PROVE  Carries(u, p, m)
<1> DEFINE f == formatMsg(m)
<1>1. /\ p + Len(f) - 1 <= Len(t) /\ Len(t) \in Nat /\ Len(x) \in Nat
      /\ Len(u) = Len(t) + Len(x)
      /\ \A j \in 1 .. Len(f) : t[p + j - 1] = f[j]
  BY DEF Extends, Carries
<1>2. Len(f) \in Nat
  BY FrameBytes, LenProperties
<1> HIDE DEF f
<1>3. ASSUME NEW j \in 1 .. Len(f) PROVE u[p + j - 1] = f[j]
  <2>1. p + j - 1 \in 1 .. Len(t)
    BY <1>1, <1>2
  <2> QED BY <1>1, <2>1 DEF Extends
<1>4. p + Len(f) - 1 <= Len(u)
  BY <1>1, <1>2
<1> QED BY <1>3, <1>4 DEF Carries, f

\* What is put into the stream begins with the magic number, or is a stray byte.
LEMMA BrokenKept ==
  ASSUME NEW t, NEW x, NEW u, Extends(t, x, u),
         NEW s \in 1 .. Len(t), Broken(t, s),
         (Len(x) = 1 /\ x[1] \in Stray) \/ MagicAt(x, 1)
  PROVE  Broken(u, s)
<1> DEFINE e == End(t, s)
           n == t[s] % 10
<1>1. t \in Seq(Nat) /\ x \in Seq(Nat) /\ Len(t) \in Nat /\ Len(x) \in Nat
      /\ Len(u) = Len(t) + Len(x) /\ u[s] = t[s]
  BY DEF Extends
<1>2. t[s] \in Nat /\ n \in 0 .. 9 /\ e \in Nat /\ e > s
  BY <1>1, EndIsNat
<1>3. End(u, s) = e
  BY <1>1 DEF End
<1>4. e = s + n + 1
  BY DEF End
<1> HIDE DEF e, n
<1>5. CASE Cut(t, s)
  <2>1. PICK r \in s + 1 .. e : CutAt(t, s, r)
    BY <1>5 DEF Cut, e
  <2>2. MagicAt(t, r) /\ MagicAt(u, r)
    BY <1>2, <2>1, MagicKept DEF CutAt
  <2>3. r - 1 <= Len(t)
    BY <1>1, <1>2, <2>2, MagicIsBytes DEF MagicAt
  <2>4. ASSUME NEW j \in s + 1 .. r - 1 PROVE u[j] \in StreamBytes
    <3>1. j \in 1 .. Len(t)
      BY <1>1, <1>2, <2>3
    <3>2. u[j] = t[j]
      BY <3>1 DEF Extends
    <3> QED BY <2>1, <3>2 DEF CutAt
  <2>5. CutAt(u, s, r)
    BY <1>1, <2>1, <2>2, <2>4 DEF CutAt
  <2> QED BY <1>3, <2>1, <2>5 DEF Cut, Broken
<1>6. CASE Changed(t, s)
  <2>1. e <= Len(t) /\ t[e] # calcCrc(t[s] \div 10, DataAt(t, s))
    BY <1>6 DEF Changed, e
  <2>2. u[e] = t[e]
    <3>1. e \in 1 .. Len(t)
      BY <1>1, <1>2, <2>1
    <3> QED BY <3>1 DEF Extends
  <2>3. DataAt(u, s) = DataAt(t, s)
    <3>1. ASSUME NEW i \in 1 .. n PROVE u[s + i] = t[s + i]
      <4>1. s + i \in 1 .. Len(t)
        BY <1>1, <1>2, <1>4, <2>1
      <4> QED BY <4>1 DEF Extends
    <3> QED BY <1>1, <3>1 DEF DataAt, n
  <2>4. e <= Len(u)
    BY <1>1, <1>2, <2>1
  <2> QED BY <1>1, <1>3, <2>1, <2>2, <2>3, <2>4 DEF Changed, Broken
<1>7. CASE Open(t, s) /\ MagicAt(x, 1)
  <2>1. e > Len(t)
    BY <1>7 DEF Open, e
  <2> DEFINE r == Len(t) + 1
  <2>2. r \in s + 1 .. e /\ r >= 1
    BY <1>1, <1>2, <2>1
  <2>3. r + Len(Magic) - 1 <= Len(u) /\ Len(Magic) <= Len(x)
    BY <1>1, <1>7, MagicIsBytes DEF MagicAt
  <2>4. ASSUME NEW j \in 1 .. Len(Magic) PROVE u[r + j - 1] = Magic[j]
    <3>1. j \in 1 .. Len(x) /\ r + j - 1 = Len(t) + j /\ 1 + j - 1 = j
      BY <1>1, <2>3, MagicIsBytes
    <3>2. x[1 + j - 1] = Magic[j]
      BY <1>7 DEF MagicAt
    <3> QED BY <3>1, <3>2 DEF Extends
  <2>5. MagicAt(u, r)
    BY <2>2, <2>3, <2>4 DEF MagicAt
  <2>6. r - 1 = Len(t)
    BY <1>1
  <2> HIDE DEF r
  <2>7. ASSUME NEW j \in s + 1 .. r - 1 PROVE u[j] \in StreamBytes
    <3>1. j \in s + 1 .. Len(t) /\ j \in 1 .. Len(t)
      BY <1>1, <2>6
    <3>2. u[j] = t[j]
      BY <3>1 DEF Extends
    <3> QED BY <1>7, <3>1, <3>2 DEF Open
  <2>8. CutAt(u, s, r)
    BY <1>1, <1>7, <2>5, <2>7 DEF CutAt, Open
  <2> QED BY <1>3, <2>2, <2>8 DEF Cut, Broken
<1>8. CASE Open(t, s) /\ Len(x) = 1 /\ x[1] \in Stray
  <2>9. s \in Nat /\ s >= 1 /\ s <= Len(t) /\ Len(t) \in Nat /\ Len(u) = Len(t) + 1
    BY <1>1, <1>8
  <2>1. /\ e > Len(t)
        /\ \A j \in s + 1 .. Len(t) : t[j] \in StreamBytes
    BY <1>8 DEF Open, e
  <2>2. PICK d \in Payloads : t[s] = Header(Post, Len(d))
    BY <1>8 DEF Open
  <2>3. ASSUME NEW j \in s + 1 .. Len(u) PROVE u[j] \in StreamBytes
    <3>1. CASE j = Len(t) + 1
      <4>1. u[j] = x[1]
        BY <1>8, <3>1 DEF Extends
      <4> QED BY <1>8, <4>1 DEF StreamBytes
    <3>2. CASE j # Len(t) + 1
      <4>1. j \in s + 1 .. Len(t) /\ j \in 1 .. Len(t)
        BY <2>9, <3>2
      <4> QED BY <2>1, <4>1 DEF Extends
    <3> QED BY <3>1, <3>2
  <2>4. CASE e > Len(u)
    BY <1>1, <1>3, <2>2, <2>3, <2>4 DEF Open, Broken
  <2>5. CASE ~(e > Len(u))
    <3>1. e = Len(u) /\ e \in s + 1 .. Len(u)
      BY <1>2, <2>9, <2>1, <2>5
    <3>2. u[e] \in 0 .. 9
      BY <2>3, <3>1, StreamBytesAreData
    <3>3. Len(d) \in 0 .. 9 /\ t[s] = 10 + Len(d)
      <4>1. Message(Post, d) \in Msgs /\ Message(Post, d).data = d
        BY DEF Message, Msgs
      <4> QED BY <2>2, <4>1, FrameBytes
    <3>4. n = Len(d) /\ t[s] \div 10 = Post
      BY <3>3, OnlyHeaders DEF n
    <3>5. DataAt(u, s) \in [1 .. Len(d) -> StreamBytes]
      <4>1. ASSUME NEW i \in 1 .. n PROVE u[s + i] \in StreamBytes
        <5>1. s + i \in s + 1 .. Len(u)
          BY <1>1, <1>2, <1>4, <3>1
        <5> QED BY <2>3, <5>1
      <4> QED BY <1>1, <3>4, <4>1 DEF DataAt, n
    <3>6. calcCrc(Post, DataAt(u, s)) \notin 0 .. 39
      BY <3>5, DamageAssumption, OnlyHeaders
    <3>7. u[e] # calcCrc(u[s] \div 10, DataAt(u, s))
      <4>1. u[s] \div 10 = Post
        BY <1>1, <3>4
      <4>2. u[e] # calcCrc(Post, DataAt(u, s))
        <5> DEFINE c == calcCrc(Post, DataAt(u, s))
        <5>1. c \notin 0 .. 39
          BY <3>6
        <5> HIDE DEF c
        <5>2. \A i \in 0 .. 9 : i \in 0 .. 39
          OBVIOUS
        <5>3. u[e] \in 0 .. 39
          BY <3>2, <5>2
        <5>4. u[e] # c
          BY <5>1, <5>3
        <5> QED BY <5>4 DEF c
      <4> QED BY <4>1, <4>2
    <3> QED BY <1>1, <1>3, <3>1, <3>7 DEF Changed, Broken
  <2> QED BY <2>4, <2>5
<1> QED BY <1>5, <1>6, <1>7, <1>8 DEF Broken

\* Message m begins at s, where the reader will look for it.
Begins(t, s, m, p) ==
  /\ Readable(m) /\ Carries(t, s, m)
  /\ (p = "read" /\ s = 1) \/ MagicAt(t, s - Len(Magic))

\* The messages ms after the h-th are still in the bytes t, each whole and where st says,
\* and nothing else in them is valid: p is the reader.
Ahead(t, ms, h, p, st) ==
  /\ h \in 0 .. Len(ms)
  /\ st \in [h + 1 .. Len(ms) -> Nat \ {0}]
  /\ \A k, l \in h + 1 .. Len(ms) : k < l => st[k] < st[l]
  /\ \A k \in h + 1 .. Len(ms) : Begins(t, st[k], ms[k], p)
  /\ \A s \in 1 .. Len(t) : IsHeader(t, s) =>
       Broken(t, s) \/ \E k \in h + 1 .. Len(ms) : st[k] = s

LEMMA BeginsKept ==
  ASSUME NEW t, NEW x, NEW u, Extends(t, x, u), NEW m \in Msgs, NEW p,
         NEW s \in Nat \ {0}, Begins(t, s, m, p)
  PROVE  Begins(u, s, m, p)
<1>1. Carries(u, s, m)
  BY CarriesKept DEF Begins
<1>2. s - Len(Magic) \in Int
  BY MagicIsBytes
<1>3. MagicAt(t, s - Len(Magic)) => MagicAt(u, s - Len(Magic))
  BY <1>2, MagicKept
<1> QED BY <1>1, <1>3 DEF Begins

\* Bytes without a valid message change nothing about the messages.
LEMMA AheadKept ==
  ASSUME NEW t, NEW x, NEW u, Extends(t, x, u),
         (Len(x) = 1 /\ x[1] \in Stray) \/ MagicAt(x, 1),
         NEW ms \in Seq(Msgs), NEW h, NEW p, NEW st, Ahead(t, ms, h, p, st),
         \A i \in 1 .. Len(x) : IsHeader(x, i) => Broken(u, Len(t) + i)
  PROVE  Ahead(u, ms, h, p, st)
<1>1. /\ h \in 0 .. Len(ms) /\ Len(ms) \in Nat
      /\ st \in [h + 1 .. Len(ms) -> Nat \ {0}]
      /\ \A k, l \in h + 1 .. Len(ms) : k < l => st[k] < st[l]
  BY LenProperties DEF Ahead
<1>2. /\ Len(t) \in Nat /\ Len(x) \in Nat /\ Len(u) = Len(t) + Len(x)
      /\ \A i \in 1 .. Len(t) : u[i] = t[i]
      /\ \A i \in 1 .. Len(x) : u[Len(t) + i] = x[i]
  BY DEF Extends
<1>3. ASSUME NEW k \in h + 1 .. Len(ms) PROVE Begins(u, st[k], ms[k], p)
  <2>1. k \in 1 .. Len(ms)
    BY <1>1
  <2>2. ms[k] \in Msgs /\ st[k] \in Nat \ {0}
    BY <1>1, <2>1, ElementOfSeq
  <2>3. Begins(t, st[k], ms[k], p)
    BY DEF Ahead
  <2> QED BY <2>2, <2>3, BeginsKept
<1>4. ASSUME NEW s \in 1 .. Len(u), IsHeader(u, s)
      PROVE  Broken(u, s) \/ \E k \in h + 1 .. Len(ms) : st[k] = s
  <2>1. CASE s \in 1 .. Len(t)
    <3>1. IsHeader(t, s)
      BY <1>2, <1>4, <2>1 DEF IsHeader
    <3>2. Broken(t, s) \/ \E k \in h + 1 .. Len(ms) : st[k] = s
      BY <2>1, <3>1 DEF Ahead
    <3>3. Broken(t, s) => Broken(u, s)
      BY <2>1, BrokenKept
    <3> QED BY <3>2, <3>3
  <2>2. CASE s \notin 1 .. Len(t)
    <3> DEFINE i == s - Len(t)
    <3>1. i \in 1 .. Len(x) /\ s = Len(t) + i
      BY <1>2, <2>2
    <3> HIDE DEF i
    <3>2. u[s] = x[i]
      BY <1>2, <3>1
    <3>3. IsHeader(x, i)
      BY <1>4, <3>2 DEF IsHeader
    <3> QED BY <3>1, <3>3
  <2> QED BY <2>1, <2>2
<1> QED BY <1>1, <1>3, <1>4 DEF Ahead

\* What comes after t and a magic number is counted from here.
Base(t) == Len(t) + Len(Magic)

\* What is put into the stream with a magic number before it.
LEMMA PutParts ==
  ASSUME NEW t, NEW y, NEW x, NEW u, Extends(Magic, y, x), Extends(t, x, u)
  PROVE  /\ MagicAt(x, 1)
         /\ Base(t) \in Nat /\ Len(t) \in Nat /\ Len(y) \in Nat /\ Len(u) = Base(t) + Len(y)
         /\ MagicAt(u, Base(t) + 1 - Len(Magic))
         /\ \A i \in 1 .. Len(y) : u[Base(t) + i] = y[i]
         /\ \A i \in 1 .. Len(x) : IsHeader(x, i) =>
              \E j \in 1 .. Len(y) : Len(t) + i = Base(t) + j /\ IsHeader(y, j)
<1> DEFINE L == Len(Magic)
           b == Base(t)
<1>1. /\ x \in Seq(Nat) /\ Len(x) = L + Len(y) /\ Len(y) \in Nat /\ L \in Nat \ {0}
      /\ \A i \in 1 .. L : x[i] = Magic[i]
      /\ \A i \in 1 .. Len(y) : x[L + i] = y[i]
  BY MagicIsBytes DEF Extends
<1>3. /\ Len(t) \in Nat /\ Len(u) = Len(t) + Len(x)
      /\ \A i \in 1 .. Len(x) : u[Len(t) + i] = x[i]
  BY DEF Extends
<1> HIDE DEF L, b
<1>4. MagicAt(x, 1)
  <2>1. ASSUME NEW j \in 1 .. L PROVE x[1 + j - 1] = Magic[j]
    <3>1. 1 + j - 1 = j
      BY <1>1
    <3> QED BY <1>1, <3>1
  <2>2. 1 + L - 1 <= Len(x)
    BY <1>1
  <2> QED BY <2>1, <2>2 DEF MagicAt, L
<1>5. b \in Nat /\ Len(u) = b + Len(y) /\ b = Len(t) + L
  BY <1>1, <1>3 DEF L, b, Base
<1>9. /\ b \in Nat /\ Len(t) \in Nat /\ L \in Nat /\ Len(y) \in Nat /\ b = Len(t) + L
      /\ Len(x) = L + Len(y)
  BY <1>1, <1>3, <1>5
<1>6. ASSUME NEW i \in 1 .. Len(y) PROVE u[b + i] = y[i]
  <2>1. L + i \in 1 .. Len(x) /\ b + i = Len(t) + (L + i)
    BY <1>9
  <2> QED BY <1>1, <1>3, <2>1
<1>7. MagicAt(u, b + 1 - Len(Magic))
  <2>1. b + 1 - L = Len(t) + 1
    BY <1>9
  <2>2. ASSUME NEW j \in 1 .. L PROVE u[(Len(t) + 1) + j - 1] = Magic[j]
    <3>1. j \in 1 .. Len(x) /\ (Len(t) + 1) + j - 1 = Len(t) + j
      BY <1>1, <1>3
    <3> QED BY <1>1, <1>3, <3>1
  <2>3. Len(t) + 1 >= 1 /\ (Len(t) + 1) + L - 1 <= Len(u)
    BY <1>1, <1>3
  <2>4. MagicAt(u, Len(t) + 1)
    BY <2>2, <2>3 DEF MagicAt, L
  <2> QED BY <2>1, <2>4 DEF L, b
<1>8. ASSUME NEW i \in 1 .. Len(x), IsHeader(x, i)
      PROVE  \E j \in 1 .. Len(y) : Len(t) + i = b + j /\ IsHeader(y, j)
  <2>1. CASE i \in 1 .. L
    <3>1. x[i] \in 0 .. 9
      BY <1>1, <2>1, StreamBytesAreData DEF L
    <3> QED BY <1>8, <3>1, OnlyHeaders DEF IsHeader
  <2>2. CASE i \notin 1 .. L
    <3> DEFINE j == i - L
    <3>1. j \in 1 .. Len(y) /\ i = L + j /\ Len(t) + i = b + j
      BY <1>9, <2>2
    <3> HIDE DEF j
    <3>2. x[i] = y[j]
      BY <1>1, <3>1
    <3>3. IsHeader(y, j)
      BY <1>8, <3>2 DEF IsHeader
    <3> QED BY <3>1, <3>3
  <2> QED BY <2>1, <2>2
<1> QED BY <1>1, <1>3, <1>4, <1>5, <1>6, <1>7, <1>8 DEF b

LEMMA OneHeader ==
  ASSUME NEW m \in Msgs, NEW j \in 1 .. Len(formatMsg(m)), IsHeader(formatMsg(m), j)
  PROVE  j = 1
<1> DEFINE f == formatMsg(m)
           n == Len(m.data)
<1>1. n \in 0 .. 9 /\ Len(f) = n + 2
  BY FrameBytes
<1> HIDE DEF n, f
<1>2. CASE j \in 2 .. n + 1
  <2>1. f[j] \in 0 .. 9
    BY <1>2, FrameBytes, StreamBytesAreData DEF n, f
  <2> QED BY <2>1, OnlyHeaders DEF IsHeader, f
<1>3. CASE j = n + 2
  <2>1. f[j] \in Nat /\ f[j] \notin 0 .. 39
    BY <1>3, FrameBytes DEF n, f
  <2> QED BY <2>1, OnlyHeaders DEF IsHeader, f
<1>4. j \in 1 .. n + 2
  BY <1>1 DEF f
<1> QED BY <1>1, <1>2, <1>3, <1>4

\* A whole message that can be read is one more to be handled.
LEMMA AheadWhole ==
  ASSUME NEW m \in Msgs, Readable(m),
         NEW t, NEW x, NEW u, Extends(Magic, formatMsg(m), x), Extends(t, x, u),
         NEW ms \in Seq(Msgs), NEW h, NEW p, NEW st, Ahead(t, ms, h, p, st)
  PROVE  \E st2 : Ahead(u, Append(ms, m), h, p, st2)
<1> DEFINE f == formatMsg(m)
           N == Len(ms)
           b == Base(t)
           new == Append(ms, m)
           to == [k \in h + 1 .. N + 1 |-> IF k = N + 1 THEN b + 1 ELSE st[k]]
<1>1. /\ MagicAt(x, 1) /\ MagicAt(u, b + 1 - Len(Magic))
      /\ b \in Nat /\ Len(t) \in Nat /\ Len(f) \in Nat /\ Len(u) = b + Len(f)
      /\ \A i \in 1 .. Len(f) : u[b + i] = f[i]
      /\ \A i \in 1 .. Len(x) : IsHeader(x, i) =>
           \E j \in 1 .. Len(f) : Len(t) + i = b + j /\ IsHeader(f, j)
  BY PutParts
<1>2. /\ N \in Nat /\ h \in 0 .. N
      /\ st \in [h + 1 .. N -> Nat \ {0}]
      /\ \A k, l \in h + 1 .. N : k < l => st[k] < st[l]
      /\ \A k \in h + 1 .. N : Begins(t, st[k], ms[k], p)
  BY LenProperties DEF Ahead
<1>3. /\ Len(new) = N + 1 /\ new[N + 1] = m
      /\ \A k \in 1 .. N : new[k] = ms[k]
  BY AppendProperties
<1>4. Len(t) < b + 1
  BY <1>1, MagicIsBytes DEF Base
<1>5. \A k \in h + 1 .. N : ms[k] \in Msgs /\ st[k] \in Nat \ {0} /\ k \in 1 .. N /\ k # N + 1
  <2>1. \A k \in h + 1 .. N : k \in 1 .. N /\ k # N + 1
    BY <1>2
  <2> QED BY <1>2, <2>1, ElementOfSeq
<1> HIDE DEF f, N, b, new
<1>6. /\ to \in [h + 1 .. N + 1 -> Nat \ {0}]
      /\ to[N + 1] = b + 1
      /\ \A k \in h + 1 .. N : to[k] = st[k]
  <2>1. \A k \in h + 1 .. N + 1 : k = N + 1 \/ k \in h + 1 .. N
    BY <1>2
  <2>2. N + 1 \in h + 1 .. N + 1 /\ b + 1 \in Nat \ {0}
    BY <1>1, <1>2
  <2>3. \A k \in h + 1 .. N : k \in h + 1 .. N + 1
    BY <1>2
  <2> QED BY <1>5, <2>1, <2>2, <2>3
<1> HIDE DEF to
<1>7. ASSUME NEW k \in h + 1 .. N PROVE st[k] < b + 1
  <2> DEFINE g == formatMsg(ms[k])
  <2>1. Carries(t, st[k], ms[k])
    BY <1>2 DEF Begins
  <2>2. st[k] + Len(g) - 1 <= Len(t)
    BY <2>1 DEF Carries
  <2>3. Len(g) \in Nat /\ Len(g) >= 2
    <3>1. Len(ms[k].data) \in 0 .. 9 /\ Len(g) = Len(ms[k].data) + 2
      BY <1>5, FrameBytes
    <3> QED BY <3>1
  <2>4. st[k] \in Nat
    BY <1>5
  <2> HIDE DEF g
  <2> QED BY <1>1, <1>4, <2>2, <2>3, <2>4
<1>8. ASSUME NEW k \in h + 1 .. N + 1, NEW l \in h + 1 .. N + 1, k < l PROVE to[k] < to[l]
  <2>1. k \in h + 1 .. N /\ (l = N + 1 \/ l \in h + 1 .. N)
    BY <1>2, <1>8
  <2>2. CASE l = N + 1
    BY <1>6, <1>7, <2>1, <2>2
  <2>3. CASE l \in h + 1 .. N
    BY <1>2, <1>6, <1>8, <2>1, <2>3
  <2> QED BY <2>1, <2>2, <2>3
<1>9. Begins(u, b + 1, m, p)
  <2>1. ASSUME NEW j \in 1 .. Len(f) PROVE u[(b + 1) + j - 1] = f[j]
    <3>1. (b + 1) + j - 1 = b + j
      BY <1>1
    <3> QED BY <1>1, <3>1
  <2>2. (b + 1) + Len(f) - 1 <= Len(u)
    BY <1>1
  <2>3. Carries(u, b + 1, m)
    BY <2>1, <2>2 DEF Carries, f
  <2> QED BY <1>1, <2>3 DEF Begins
<1>10. ASSUME NEW k \in h + 1 .. N + 1 PROVE Begins(u, to[k], new[k], p)
  <2>1. CASE k = N + 1
    BY <1>3, <1>6, <1>9, <2>1
  <2>2. CASE k # N + 1
    <3>1. k \in h + 1 .. N
      BY <1>2, <2>2
    <3>2. Begins(t, st[k], ms[k], p)
      BY <1>2, <3>1
    <3>3. Begins(u, st[k], ms[k], p)
      BY <1>5, <3>1, <3>2, BeginsKept
    <3> QED BY <1>3, <1>5, <1>6, <3>1, <3>3
  <2> QED BY <2>1, <2>2
<1>11. ASSUME NEW s \in 1 .. Len(u), IsHeader(u, s)
       PROVE  Broken(u, s) \/ \E k \in h + 1 .. N + 1 : to[k] = s
  <2>0. /\ Len(x) \in Nat /\ Len(u) = Len(t) + Len(x)
        /\ \A i \in 1 .. Len(t) : u[i] = t[i]
        /\ \A i \in 1 .. Len(x) : u[Len(t) + i] = x[i]
    BY DEF Extends
  <2>1. CASE s \in 1 .. Len(t)
    <3>1. IsHeader(t, s)
      BY <1>11, <2>0, <2>1 DEF IsHeader
    <3>2. Broken(t, s) \/ \E k \in h + 1 .. N : st[k] = s
      BY <2>1, <3>1 DEF Ahead, N
    <3>3. CASE Broken(t, s)
      BY <1>1, <2>1, <3>3, BrokenKept
    <3>4. CASE \E k \in h + 1 .. N : st[k] = s
      <4>1. PICK k \in h + 1 .. N : st[k] = s
        BY <3>4
      <4>2. k \in h + 1 .. N + 1
        BY <1>2
      <4> QED BY <1>6, <4>1, <4>2
    <3> QED BY <3>2, <3>3, <3>4
  <2>2. CASE s \notin 1 .. Len(t)
    <3> DEFINE i == s - Len(t)
    <3>1. i \in 1 .. Len(x) /\ s = Len(t) + i
      BY <1>1, <2>0, <2>2
    <3> HIDE DEF i
    <3>2. IsHeader(x, i)
      BY <1>11, <2>0, <3>1 DEF IsHeader
    <3>3. PICK j \in 1 .. Len(f) : Len(t) + i = b + j /\ IsHeader(f, j)
      BY <1>1, <3>1, <3>2
    <3>4. j = 1
      BY <3>3, OneHeader DEF f
    <3>5. N + 1 \in h + 1 .. N + 1
      BY <1>2
    <3> QED BY <1>6, <3>1, <3>3, <3>4, <3>5
  <2> QED BY <2>1, <2>2
<1>12. h \in 0 .. N + 1
  BY <1>2
<1>13. Ahead(u, new, h, p, to)
  BY <1>3, <1>6, <1>8, <1>10, <1>11, <1>12 DEF Ahead
<1> QED BY <1>13 DEF new

\* The header of what cannot be read is the only one that is put.
LEMMA AheadBroken ==
  ASSUME NEW y, NEW t, NEW x, NEW u, Extends(Magic, y, x), Extends(t, x, u),
         NEW ms \in Seq(Msgs), NEW h, NEW p, NEW st, Ahead(t, ms, h, p, st),
         \A j \in 1 .. Len(y) : IsHeader(y, j) => Broken(u, Base(t) + j)
  PROVE  Ahead(u, ms, h, p, st)
<1> DEFINE b == Base(t)
<1>1. /\ MagicAt(x, 1)
      /\ \A i \in 1 .. Len(x) : IsHeader(x, i) =>
           \E j \in 1 .. Len(y) : Len(t) + i = b + j /\ IsHeader(y, j)
  BY PutParts
<1>2. ASSUME NEW i \in 1 .. Len(x), IsHeader(x, i) PROVE Broken(u, Len(t) + i)
  <2>1. PICK j \in 1 .. Len(y) : Len(t) + i = b + j /\ IsHeader(y, j)
    BY <1>1, <1>2
  <2> QED BY <2>1
<1> QED BY <1>1, <1>2, AheadKept

\* Where the header of what is put after a magic number comes to be, and what it says.
LEMMA PutHeader ==
  ASSUME NEW m \in Msgs, NEW y, NEW t, NEW x, NEW u, Extends(Magic, y, x), Extends(t, x, u),
         Len(y) >= 1, y[1] = formatMsg(m)[1]
  PROVE  /\ Base(t) \in Nat /\ Len(y) \in Nat /\ Len(u) = Base(t) + Len(y)
         /\ \A i \in 1 .. Len(y) : u[Base(t) + i] = y[i]
         /\ u[Base(t) + 1] = Header(Post, Len(m.data))
         /\ u[Base(t) + 1] \div 10 = Post /\ u[Base(t) + 1] % 10 = Len(m.data)
         /\ End(u, Base(t) + 1) = Base(t) + Len(m.data) + 2
<1> DEFINE b == Base(t)
<1>1. /\ b \in Nat /\ Len(y) \in Nat /\ Len(u) = b + Len(y)
      /\ \A i \in 1 .. Len(y) : u[b + i] = y[i]
  BY PutParts
<1>2. /\ Len(m.data) \in 0 .. 9 /\ formatMsg(m)[1] = 10 + Len(m.data)
      /\ formatMsg(m)[1] = Header(Post, Len(m.data))
  BY FrameBytes
<1>3. u[b + 1] = formatMsg(m)[1]
  <2>1. 1 \in 1 .. Len(y)
    BY <1>1
  <2> QED BY <1>1, <2>1
<1>4. u[b + 1] \div 10 = Post /\ u[b + 1] % 10 = Len(m.data)
  BY <1>2, <1>3, OnlyHeaders
<1> DEFINE n == Len(m.data)
<1>5. End(u, b + 1) = (b + 1) + n + 1
  BY <1>4 DEF End
<1>6. n \in Nat
  BY <1>2
<1> HIDE DEF n
<1>7. End(u, b + 1) = b + n + 2
  BY <1>1, <1>5, <1>6
<1> QED BY <1>1, <1>2, <1>3, <1>4, <1>7 DEF n

\* A message that stops before its checksum.
LEMMA CutShort ==
  ASSUME NEW m \in Msgs, NEW k \in 1 .. Len(formatMsg(m)),
         NEW y, Len(y) = k - 1, \A i \in 1 .. k - 1 : y[i] = formatMsg(m)[i],
         NEW t, NEW x, NEW u, Extends(Magic, y, x), Extends(t, x, u),
         NEW j \in 1 .. Len(y), IsHeader(y, j)
  PROVE  Broken(u, Base(t) + j)
<1> DEFINE f == formatMsg(m)
           b == Base(t)
           n == Len(m.data)
<1>1. /\ n \in 0 .. 9 /\ m.data \in Payloads /\ f \in Seq(Nat) /\ Len(f) = n + 2
  BY FrameBytes
<1>2. \A i \in 2 .. n + 1 : f[i] \in StreamBytes
  BY FrameBytes
<1>3. Len(y) = k - 1 /\ \A i \in 1 .. k - 1 : y[i] = f[i]
  OBVIOUS
<1>4. k \in Int /\ k <= n + 2 /\ 1 <= k
  BY <1>1
<1> HIDE DEF f, b, n
<1>5. j \in 1 .. Len(f) /\ y[j] = f[j] /\ Len(y) >= 1 /\ 1 \in 1 .. k - 1
  BY <1>1, <1>3, <1>4
<1>6. j = 1
  BY <1>5, OneHeader DEF IsHeader, f
<1>7. /\ b \in Nat /\ Len(u) = b + (k - 1)
      /\ \A i \in 1 .. k - 1 : u[b + i] = y[i]
      /\ u[b + 1] = Header(Post, n)
      /\ End(u, b + 1) = b + n + 2
  <2>1. y[1] = formatMsg(m)[1]
    BY <1>3, <1>5 DEF f
  <2>2. /\ b \in Nat /\ Len(u) = b + Len(y)
        /\ \A i \in 1 .. Len(y) : u[b + i] = y[i]
        /\ u[b + 1] = Header(Post, n)
        /\ End(u, b + 1) = b + n + 2
    BY <1>5, <2>1, PutHeader DEF n, b
  <2> QED BY <1>3, <2>2
<1>8. End(u, b + 1) > Len(u)
  <2>1. /\ b \in Nat /\ n \in Nat /\ k \in Int /\ k <= n + 2
        /\ Len(u) = b + (k - 1) /\ End(u, b + 1) = b + n + 2
    BY <1>1, <1>4, <1>7
  <2> HIDE DEF b, n
  <2>2. b + n + 2 > b + (k - 1)
    BY <2>1
  <2> QED BY <2>1, <2>2
<1>9. ASSUME NEW i \in (b + 1) + 1 .. Len(u) PROVE u[i] \in StreamBytes
  <2> DEFINE c == i - b
  <2>n. /\ b \in Nat /\ n \in Nat /\ k \in Int /\ k <= n + 2
        /\ i \in (b + 1) + 1 .. b + (k - 1)
    BY <1>1, <1>4, <1>7
  <2>1. c \in 2 .. n + 1 /\ c \in 1 .. k - 1 /\ i = b + c
    BY <2>n
  <2> HIDE DEF c
  <2> QED BY <1>2, <1>3, <1>7, <2>1
<1>10. Broken(u, b + 1)
  BY <1>1, <1>7, <1>8, <1>9 DEF Broken, Open, n
<1> QED BY <1>6, <1>10 DEF b

\* A message that holds the magic number.
LEMMA HoldsMagic ==
  ASSUME NEW m \in Msgs, ~Readable(m),
         NEW t, NEW x, NEW u, Extends(Magic, formatMsg(m), x), Extends(t, x, u),
         NEW j \in 1 .. Len(formatMsg(m)), IsHeader(formatMsg(m), j)
  PROVE  Broken(u, Base(t) + j)
<1> DEFINE f == formatMsg(m)
           b == Base(t)
           n == Len(m.data)
           L == Len(Magic)
<1>1. /\ n \in 0 .. 9 /\ f \in Seq(Nat) /\ Len(f) = n + 2 /\ f[1] = 10 + n /\ L \in Nat \ {0}
  BY FrameBytes, MagicIsBytes
<1>2. j = 1
  BY OneHeader
<1>3. PICK i \in 1 .. Len(f) - L + 1 : MagicAt(f, i)
  BY <1>1, MagicSomewhere DEF Readable
<1> HIDE DEF f, b, n, L
<1>4. i # 1
  <2> SUFFICES ASSUME i = 1 PROVE FALSE
    OBVIOUS
  <2>1. 1 \in 1 .. L /\ 1 + 1 - 1 = 1
    BY <1>1
  <2>2. f[1] = Magic[1]
    BY <1>3, <2>1 DEF MagicAt, L
  <2>3. Magic[1] \in 0 .. 9
    BY <2>1, StreamBytesAreData DEF L
  <2>4. 10 + n \notin 0 .. 9
    BY <1>1
  <2> QED BY <1>1, <2>2, <2>3, <2>4
<1>5. /\ b \in Nat /\ Len(u) = b + Len(f)
      /\ \A q \in 1 .. Len(f) : u[b + q] = f[q]
      /\ End(u, b + 1) = b + n + 2
  <2>1. Len(f) >= 1 /\ f[1] = formatMsg(m)[1]
    BY <1>1 DEF f
  <2> QED BY <2>1, PutHeader DEF f, n, b
<1>6. i \in Int /\ 2 <= i /\ i <= n + 2 /\ i + L - 1 <= Len(f)
  BY <1>1, <1>3, <1>4
<1>7. MagicAt(u, b + i)
  <2>1. ASSUME NEW q \in 1 .. L PROVE u[(b + i) + q - 1] = Magic[q]
    <3>1. i + q - 1 \in 1 .. Len(f) /\ (b + i) + q - 1 = b + (i + q - 1)
      BY <1>1, <1>5, <1>6
    <3>2. f[i + q - 1] = Magic[q]
      BY <1>3 DEF MagicAt, L
    <3> QED BY <1>5, <3>1, <3>2
  <2>2. b + i >= 1 /\ (b + i) + L - 1 <= Len(u)
    BY <1>1, <1>5, <1>6
  <2> QED BY <2>1, <2>2 DEF MagicAt, L
<1>8. b + i \in (b + 1) + 1 .. End(u, b + 1)
  BY <1>1, <1>5, <1>6
<1>10. ASSUME NEW q \in (b + 1) + 1 .. (b + i) - 1 PROVE u[q] \in StreamBytes
  <2> DEFINE g == q - b
  <2>1. g \in 2 .. n + 1 /\ g \in 1 .. Len(f) /\ q = b + g
    BY <1>1, <1>5, <1>6
  <2> HIDE DEF g
  <2>2. f[g] \in StreamBytes
    BY <2>1, FrameBytes DEF f, n
  <2> QED BY <1>5, <2>1, <2>2
<1>11. u[b + 1] = Header(Post, n) /\ m.data \in Payloads
  <2>1. Len(f) >= 1 /\ f[1] = formatMsg(m)[1]
    BY <1>1 DEF f
  <2> QED BY <2>1, FrameBytes, PutHeader DEF f, n, b
<1>12. CutAt(u, b + 1, b + i)
  <2>1. \E d \in Payloads : u[b + 1] = Header(Post, Len(d))
    BY <1>11 DEF n
  <2> QED BY <1>7, <1>10, <2>1 DEF CutAt
<1>9. Broken(u, b + 1)
  BY <1>8, <1>12 DEF Broken, Cut
<1> QED BY <1>2, <1>9 DEF b

\* A message with one of its bytes changed.
LEMMA ByteChanged ==
  ASSUME NEW m \in Msgs, NEW k \in 1 .. Len(formatMsg(m)), NEW c \in Stray \ {formatMsg(m)[k]},
         NEW y, y = ReplaceAt(formatMsg(m), k, c),
         NEW t, NEW x, NEW u, Extends(Magic, y, x), Extends(t, x, u),
         NEW j \in 1 .. Len(y), IsHeader(y, j)
  PROVE  Broken(u, Base(t) + j)
<1> DEFINE f == formatMsg(m)
           b == Base(t)
           d == m.data
           n == Len(d)
           e == b + n + 2
<1>1. /\ n \in 0 .. 9 /\ d \in Payloads /\ f \in Seq(Nat) /\ Len(f) = n + 2
      /\ f[n + 2] = calcCrc(Post, d)
  BY FrameBytes
<1>2. \A i \in 2 .. n + 1 : f[i] = d[i - 1] /\ f[i] \in StreamBytes
  BY FrameBytes
<1>3. c \in 0 .. 9 /\ c \in StreamBytes
  BY StreamBytesAreData DEF StreamBytes
<1>4. /\ Len(y) = n + 2 /\ y[k] = c
      /\ \A i \in 1 .. n + 2 : i # k => y[i] = f[i]
  <2>1. y = [f EXCEPT ![k] = c]
    BY DEF ReplaceAt
  <2>2. c \in Nat
    BY <1>3
  <2> HIDE DEF f, n
  <2> QED BY <1>1, <2>1, <2>2, ExceptSeq DEF f
<1> HIDE DEF f, b, d, n, e
<1>5. k \in 1 .. n + 2 /\ j \in 1 .. n + 2 /\ 1 \in 1 .. n + 2
  BY <1>1, <1>4 DEF f
<1>6. j # k
  BY <1>3, <1>4, OnlyHeaders DEF IsHeader
<1>7. j = 1
  <2>1. y[j] = f[j] /\ j \in 1 .. Len(f)
    BY <1>1, <1>4, <1>5, <1>6
  <2> QED BY <2>1, OneHeader DEF IsHeader, f
<1>8. k \in 2 .. n + 2
  BY <1>1, <1>5, <1>6, <1>7
<1>9. /\ b \in Nat /\ Len(u) = b + (n + 2)
      /\ \A i \in 1 .. n + 2 : u[b + i] = y[i]
      /\ u[b + 1] \div 10 = Post /\ u[b + 1] % 10 = n
      /\ End(u, b + 1) = b + n + 2
  <2>1. Len(y) >= 1 /\ y[1] = formatMsg(m)[1]
    BY <1>1, <1>4, <1>5, <1>6, <1>7 DEF f
  <2>2. /\ b \in Nat /\ Len(u) = b + Len(y)
        /\ \A i \in 1 .. Len(y) : u[b + i] = y[i]
        /\ u[b + 1] \div 10 = Post /\ u[b + 1] % 10 = n
        /\ End(u, b + 1) = b + n + 2
    BY <2>1, PutHeader DEF n, d, b
  <2> QED BY <1>4, <2>2
<1> DEFINE z == DataAt(u, b + 1)
<1>10. z = [i \in 1 .. n |-> u[(b + 1) + i]]
  BY <1>9 DEF DataAt
<1>11. ASSUME NEW i \in 1 .. n
       PROVE  /\ i + 1 \in 1 .. n + 2 /\ i + 1 \in 2 .. n + 1
              /\ u[(b + 1) + i] = y[i + 1] /\ (i + 1) - 1 = i
  <2>1. i + 1 \in 1 .. n + 2 /\ (b + 1) + i = b + (i + 1) /\ i + 1 \in 2 .. n + 1 /\ (i + 1) - 1 = i
    BY <1>1, <1>9
  <2> QED BY <1>9, <2>1
<1>12. e = End(u, b + 1) /\ e <= Len(u) /\ u[e] = y[n + 2]
  <2>1. e = b + (n + 2) /\ n + 2 \in 1 .. n + 2 /\ b + n + 2 = b + (n + 2) /\ b + (n + 2) \in Nat
    BY <1>1, <1>9 DEF e
  <2> QED BY <1>9, <2>1
<1> HIDE DEF z
<1>13. u[e] # calcCrc(Post, z)
  <2>1. CASE k = n + 2
    <3>1. z \in [1 .. n -> StreamBytes]
      <4>1. ASSUME NEW i \in 1 .. n PROVE u[(b + 1) + i] \in StreamBytes
        <5>1. i + 1 # k
          BY <1>1, <2>1
        <5> QED BY <1>2, <1>4, <1>11, <5>1
      <4> QED BY <1>10, <4>1
    <3>2. calcCrc(Post, z) \notin 0 .. 39
      BY <1>1, <3>1, DamageAssumption, OnlyHeaders DEF n
    <3>3. u[e] = c
      BY <1>4, <1>12, <2>1
    <3>4. c \in 0 .. 39
      <4>1. \A i \in 0 .. 9 : i \in 0 .. 39
        OBVIOUS
      <4> QED BY <1>3, <4>1
    <3> QED BY <3>2, <3>3, <3>4
  <2>2. CASE k # n + 2
    <3> DEFINE i0 == k - 1
    <3>1. i0 \in 1 .. n /\ k = i0 + 1 /\ n + 2 # k
      BY <1>1, <1>8, <2>2
    <3> HIDE DEF i0
    <3>2. u[e] = calcCrc(Post, d)
      BY <1>1, <1>4, <1>5, <1>12, <3>1
    <3>3. c # d[i0] /\ c \in Stray
      <4>1. f[k] = d[i0]
        BY <1>2, <1>11, <3>1
      <4> QED BY <4>1 DEF f
    <3>4. d = [i \in 1 .. n |-> d[i]]
      BY <1>1, DataAssumption DEF n
    <3>5. ASSUME NEW i \in 1 .. n PROVE u[(b + 1) + i] = IF i = i0 THEN c ELSE d[i]
      <4>1. CASE i = i0
        BY <1>4, <1>11, <3>1, <4>1
      <4>2. CASE i # i0
        <5>1. i + 1 # k
          BY <1>1, <1>8, <3>1, <4>2
        <5>2. y[i + 1] = f[i + 1]
          BY <1>4, <1>11, <5>1
        <5>3. f[i + 1] = d[(i + 1) - 1]
          BY <1>2, <1>11
        <5> QED BY <1>11, <4>2, <5>2, <5>3
      <4> QED BY <4>1, <4>2
    <3>6. z = [d EXCEPT ![i0] = c]
      BY <1>10, <3>1, <3>4, <3>5
    <3>7. calcCrc(Post, [d EXCEPT ![i0] = c]) # calcCrc(Post, d)
      BY <1>1, <3>1, <3>3, DamageAssumption DEF n
    <3> QED BY <3>2, <3>6, <3>7
  <2> QED BY <2>1, <2>2
<1>14. Broken(u, b + 1)
  BY <1>9, <1>12, <1>13 DEF Broken, Changed, z
<1> QED BY <1>7, <1>14 DEF b

\* The bytes before the q-th: up to a magic number, or all there are.
\* With a whole message at the beginning, that message is found.
LEMMA SegmentWhole ==
  ASSUME NEW t \in Seq(Nat), NEW m \in Msgs, Readable(m), Carries(t, 1, m),
         NEW q \in 1 .. Len(t) + 1, q = Len(t) + 1 \/ MagicAt(t, q)
  PROVE  parseMsg(SubSeq(t, 1, q - 1)) = <<m>>
<1> DEFINE f == formatMsg(m)
           n == Len(m.data)
           L == Len(Magic)
<1>1. /\ n \in 0 .. 9 /\ f \in Seq(Nat) /\ Len(f) = n + 2 /\ L \in Nat \ {0}
      /\ f[n + 2] \in Nat /\ f[n + 2] \notin 0 .. 39
  BY FrameBytes, MagicIsBytes
<1>2. Len(t) \in Nat /\ q \in Int /\ 1 <= q /\ q <= Len(t) + 1
  BY LenProperties
<1>3. Len(f) <= Len(t) /\ \A j \in 1 .. Len(f) : t[j] = f[j]
  <2>1. /\ 1 + Len(f) - 1 <= Len(t)
        /\ \A j \in 1 .. Len(f) : t[1 + j - 1] = f[j]
    BY DEF Carries
  <2> HIDE DEF f
  <2>2. \A j \in 1 .. Len(f) : 1 + j - 1 = j
    BY <1>1
  <2> QED BY <1>1, <1>2, <2>1, <2>2
<1>4. ~HasMagic(f)
  BY DEF Readable
<1> HIDE DEF f, n, L
<1>5. Len(f) <= q - 1
  <2>1. CASE q = Len(t) + 1
    BY <1>1, <1>2, <1>3, <2>1
  <2>2. CASE MagicAt(t, q)
    <3> SUFFICES ASSUME q <= Len(f) PROVE FALSE
      BY <1>1, <1>2
    <3>1. CASE q + L - 1 <= Len(f)
      <4>1. ASSUME NEW j \in 1 .. L PROVE f[q + j - 1] = Magic[j]
        <5>1. q + j - 1 \in 1 .. Len(f)
          BY <1>1, <1>2, <3>1
        <5>2. t[q + j - 1] = Magic[j]
          BY <2>2 DEF MagicAt, L
        <5> QED BY <1>3, <5>1, <5>2
      <4>2. MagicAt(f, q) /\ q \in 1 .. Len(f) - L + 1
        BY <1>1, <1>2, <3>1, <4>1 DEF MagicAt, L
      <4> QED BY <1>1, <1>4, <4>2, MagicSomewhere DEF L
    <3>2. CASE ~(q + L - 1 <= Len(f))
      <4> DEFINE j == Len(f) - q + 1
      <4>1. j \in 1 .. L /\ q + j - 1 = Len(f) /\ Len(f) \in 1 .. Len(f)
        BY <1>1, <1>2, <3>2
      <4> HIDE DEF j
      <4>2. t[q + j - 1] = Magic[j]
        BY <2>2, <4>1 DEF MagicAt, L
      <4>3. f[n + 2] = Magic[j]
        BY <1>1, <1>3, <4>1, <4>2
      <4>4. Magic[j] \in 0 .. 9
        BY <4>1, StreamBytesAreData DEF L
      <4>5. \A i \in 0 .. 9 : i \in 0 .. 39
        OBVIOUS
      <4> QED BY <1>1, <4>3, <4>4, <4>5
    <3> QED BY <3>1, <3>2
  <2> QED BY <2>1, <2>2
<1> DEFINE l == q - 1
           s == SubSeq(t, 1, l)
           e == Len(f)
           rest == SubSeq(t, e + 1, l)
<1>6. l \in Nat /\ e \in Nat /\ e <= l /\ l <= Len(t)
  BY <1>1, <1>2, <1>5
<1> HIDE DEF l, e
<1>7. /\ s \in Seq(Nat) /\ Len(s) = l
      /\ \A i \in 1 .. l : s[i] = t[i]
  BY <1>6, FirstPart
<1>8. /\ rest \in Seq(Nat) /\ Len(rest) = l - (e + 1) + 1
      /\ \A i \in 1 .. l - (e + 1) + 1 : rest[i] = t[(e + 1) + i - 1]
  <2>1. e + 1 \in Int /\ l \in Int /\ 1 <= e + 1 /\ e + 1 <= l + 1
    BY <1>6
  <2> QED BY <1>6, <2>1, PartOf
<1> HIDE DEF s, rest
<1> DEFINE z == f \o rest
<1>9. /\ z \in Seq(Nat) /\ Len(z) = e + Len(rest)
      /\ \A i \in 1 .. e : z[i] = f[i]
      /\ \A i \in 1 .. Len(rest) : z[e + i] = rest[i]
  <2>1. z = f \o rest /\ f \in Seq(Nat) /\ rest \in Seq(Nat) /\ e = Len(f)
    BY <1>1, <1>8 DEF e
  <2> HIDE DEF z
  <2>2. /\ z \in Seq(Nat) /\ Len(z) = Len(f) + Len(rest)
        /\ \A i \in 1 .. Len(f) : z[i] = f[i]
        /\ \A i \in 1 .. Len(rest) : z[Len(f) + i] = rest[i]
    BY <2>1, Joined
  <2> QED BY <2>1, <2>2
<1> HIDE DEF z
<1>10. Len(z) = l /\ Len(rest) = l - e
  BY <1>6, <1>8, <1>9
<1>11. ASSUME NEW i \in 1 .. Len(s) PROVE s[i] = z[i]
  <2>1. CASE i \in 1 .. e
    BY <1>3, <1>7, <1>9, <2>1 DEF e
  <2>2. CASE i \notin 1 .. e
    <3> DEFINE k == i - e
    <3>1. /\ k \in 1 .. Len(rest) /\ k \in 1 .. l - (e + 1) + 1
          /\ i = e + k /\ (e + 1) + k - 1 = e + k /\ i \in 1 .. l
      BY <1>6, <1>7, <1>10, <2>2
    <3> HIDE DEF k
    <3>2. z[i] = rest[k] /\ rest[k] = t[i]
      BY <1>8, <1>9, <3>1
    <3> QED BY <1>7, <3>1, <3>2
  <2> QED BY <2>1, <2>2
<1>12. s = z
  BY <1>7, <1>9, <1>10, <1>11, SeqEqual
<1>13. parseMsg(z) = <<m>>
  BY <1>8, BytesOf DEF z, f
<1> QED BY <1>12, <1>13 DEF s, l

FirstAt(t, q) == \A r \in 1 .. q - 1 : ~MagicAt(t, r)

\* With nothing valid at the beginning, nothing is found.
LEMMA SegmentNothing ==
  ASSUME NEW t \in Seq(Nat), NEW q \in 1 .. Len(t) + 1,
         FirstAt(t, q),
         Len(t) >= 1 /\ IsHeader(t, 1) => Broken(t, 1)
  PROVE  parseMsg(SubSeq(t, 1, q - 1)) = <<>>
<1> DEFINE l == q - 1
           s == SubSeq(t, 1, l)
<1>1. Len(t) \in Nat /\ l \in Nat /\ l <= Len(t) /\ l = q - 1
  BY LenProperties
<1> HIDE DEF l
<1>2. /\ s \in Seq(Nat) /\ Len(s) = l
      /\ \A i \in 1 .. l : s[i] = t[i]
  BY <1>1, FirstPart
<1> HIDE DEF s
<1> SUFFICES ASSUME validateMsg(s) PROVE FALSE
  BY DEF parseMsg, s, l
<1> DEFINE n == t[1] % 10
           e == End(t, 1)
<1>3. l >= 2 /\ s[1] = t[1]
  <2>1. l >= 2
    BY <1>2 DEF validateMsg
  <2>2. 1 \in 1 .. l
    BY <1>1, <2>1
  <2> QED BY <1>2, <2>1, <2>2
<1>4. functionIn(s) = t[1] \div 10 /\ dataLenIn(s) = n
  BY <1>3 DEF functionIn, dataLenIn
<1>5. /\ IsHeader(t, 1) /\ n + 2 <= l
      /\ s[n + 2] = calcCrc(t[1] \div 10, SubSeq(s, 2, n + 1))
  BY <1>2, <1>4 DEF validateMsg, dataIn, IsHeader
<1>6. n \in 0 .. 9 /\ e = 1 + n + 1
  <2>1. 1 \in 1 .. Len(t)
    BY <1>1, <1>3
  <2> QED BY <2>1, EndIsNat DEF End
<1> HIDE DEF n, e
<1>7. e = n + 2 /\ e \in 1 .. l /\ e \in Nat
  BY <1>1, <1>5, <1>6
<1>8. Broken(t, 1)
  BY <1>1, <1>3, <1>5
<1>9. ~Open(t, 1)
  BY <1>1, <1>7 DEF Open, e
<1>10. ~Cut(t, 1)
  <2> SUFFICES ASSUME NEW r \in 1 + 1 .. e, MagicAt(t, r) PROVE FALSE
    BY DEF Cut, CutAt, e
  <2>1. r \in 1 .. q - 1
    BY <1>1, <1>7
  <2> QED BY <2>1 DEF FirstAt
<1>11. ~Changed(t, 1)
  <2> DEFINE z == DataAt(t, 1)
             y == SubSeq(s, 2, n + 1)
  <2>1. z = [i \in 1 .. n |-> t[1 + i]]
    BY DEF DataAt, n
  <2>2. /\ y \in Seq(Nat) /\ Len(y) = (n + 1) - 2 + 1
        /\ \A i \in 1 .. (n + 1) - 2 + 1 : y[i] = s[2 + i - 1]
    <3> DEFINE k == n + 1
    <3>1. 2 \in Int /\ k \in Int /\ 1 <= 2 /\ 2 <= k + 1 /\ k <= Len(s)
      BY <1>1, <1>2, <1>5, <1>6
    <3> HIDE DEF k
    <3>2. /\ SubSeq(s, 2, k) \in Seq(Nat) /\ Len(SubSeq(s, 2, k)) = k - 2 + 1
          /\ \A i \in 1 .. k - 2 + 1 : SubSeq(s, 2, k)[i] = s[2 + i - 1]
      BY <1>2, <3>1, PartOf
    <3> QED BY <3>2 DEF k
  <2>3. (n + 1) - 2 + 1 = n
    BY <1>6
  <2> HIDE DEF y
  <2>4. ASSUME NEW i \in 1 .. n PROVE y[i] = t[1 + i] /\ t[1 + i] \in Nat
    <3>1. i \in 1 .. (n + 1) - 2 + 1 /\ 2 + i - 1 = 1 + i /\ 1 + i \in 1 .. l /\ 1 + i \in 1 .. Len(t)
      BY <1>1, <1>5, <1>6
    <3> QED BY <1>2, <2>2, <3>1, ElementOfSeq
  <2>5. z \in Seq(Nat) /\ Len(z) = n /\ \A i \in 1 .. n : z[i] = t[1 + i]
    <3> HIDE DEF z
    <3>1. \A i \in 1 .. n : t[1 + i] \in Nat
      BY <2>4
    <3>2. z \in [1 .. n -> Nat]
      BY <2>1, <3>1
    <3>3. n \in Nat
      BY <1>6
    <3>4. z \in Seq(Nat) /\ Len(z) = n
      BY <3>2, <3>3
    <3>5. ASSUME NEW i \in 1 .. n PROVE z[i] = t[1 + i]
      BY <2>1
    <3> QED BY <3>4, <3>5
  <2> HIDE DEF z
  <2>6. Len(y) = n
    BY <2>2, <2>3
  <2>7. y = z
    BY <2>2, <2>4, <2>5, <2>6, SeqEqual
  <2>8. t[e] = calcCrc(t[1] \div 10, z)
    BY <1>2, <1>5, <1>7, <2>7 DEF y
  <2> QED BY <2>8 DEF Changed, z, e
<1> QED BY <1>8, <1>9, <1>10, <1>11 DEF Broken

\* v is what is left of t after its first c bytes.
After(t, c, v) ==
  /\ t \in Seq(Nat) /\ v \in Seq(Nat) /\ c \in Nat
  /\ Len(t) \in Nat /\ Len(v) \in Nat /\ Len(t) = c + Len(v)
  /\ \A i \in 1 .. Len(v) : v[i] = t[c + i]

LEMMA MagicLeft ==
  ASSUME NEW t, NEW c, NEW v, After(t, c, v), NEW r \in Int, r > c, MagicAt(t, r)
  PROVE  MagicAt(v, r - c)
<1> DEFINE L == Len(Magic)
<1>1. /\ c \in Nat /\ Len(t) \in Nat /\ Len(v) \in Nat /\ Len(t) = c + Len(v) /\ L \in Nat
      /\ r + L - 1 <= Len(t)
  BY MagicIsBytes DEF After, MagicAt
<1>2. ASSUME NEW j \in 1 .. L PROVE v[(r - c) + j - 1] = Magic[j]
  <2>1. /\ (r - c) + j - 1 \in 1 .. Len(v)
        /\ c + ((r - c) + j - 1) = r + j - 1
    BY <1>1
  <2>2. t[r + j - 1] = Magic[j]
    BY DEF MagicAt
  <2> QED BY <2>1, <2>2 DEF After
<1>3. r - c >= 1 /\ (r - c) + L - 1 <= Len(v)
  BY <1>1
<1> QED BY <1>2, <1>3 DEF MagicAt

LEMMA CarriesLeft ==
  ASSUME NEW t, NEW c, NEW v, After(t, c, v), NEW m \in Msgs,
         NEW s \in Nat, s > c, Carries(t, s, m)
  PROVE  Carries(v, s - c, m)
<1> DEFINE f == formatMsg(m)
           e == Len(f)
<1>1. e \in Nat
  BY FrameBytes, LenProperties
<1>2. s + e - 1 <= Len(t) /\ \A j \in 1 .. e : t[s + j - 1] = f[j]
  BY DEF Carries
<1>3. c \in Nat /\ Len(t) \in Nat /\ Len(v) \in Nat /\ Len(t) = c + Len(v)
  BY DEF After
<1> HIDE DEF e, f
<1>4. ASSUME NEW j \in 1 .. e PROVE v[(s - c) + j - 1] = f[j]
  <2>1. /\ (s - c) + j - 1 \in 1 .. Len(v)
        /\ c + ((s - c) + j - 1) = s + j - 1
    BY <1>1, <1>2, <1>3
  <2> QED BY <1>2, <2>1 DEF After
<1>5. (s - c) + e - 1 <= Len(v)
  BY <1>1, <1>2, <1>3
<1> QED BY <1>4, <1>5 DEF Carries, e, f

LEMMA BrokenLeft ==
  ASSUME NEW t, NEW c, NEW v, After(t, c, v), NEW s \in 1 .. Len(v), Broken(t, c + s)
  PROVE  Broken(v, s)
<1> DEFINE n == v[s] % 10
           e == End(v, s)
<1>1. /\ c \in Nat /\ Len(t) \in Nat /\ Len(v) \in Nat /\ Len(t) = c + Len(v)
      /\ v[s] = t[c + s] /\ v \in Seq(Nat) /\ s \in Nat /\ s >= 1 /\ s <= Len(v)
  BY DEF After
<1>2. n \in 0 .. 9 /\ e \in Nat /\ e > s
  BY <1>1, EndIsNat
<1>3. e = s + n + 1
  BY DEF End
<1>4. End(t, c + s) = (c + s) + n + 1
  BY <1>1 DEF End
<1> HIDE DEF n, e
<1>5. End(t, c + s) = c + e
  <2>1. c \in Nat /\ s \in Nat /\ n \in Nat
    BY <1>1, <1>2
  <2>2. (c + s) + n + 1 = c + (s + n + 1)
    BY <2>1
  <2> QED BY <1>3, <1>4, <2>2
<1>6. CASE Open(t, c + s)
  <2>1. e > Len(v)
    <3>1. c + e > Len(t)
      BY <1>5, <1>6 DEF Open
    <3> QED BY <1>1, <1>2, <3>1
  <2>2. \E d \in Payloads : v[s] = Header(Post, Len(d))
    BY <1>1, <1>6 DEF Open
  <2>3. ASSUME NEW j \in s + 1 .. Len(v) PROVE v[j] \in StreamBytes
    <3>1. c + j \in (c + s) + 1 .. Len(t) /\ j \in 1 .. Len(v)
      BY <1>1
    <3>2. t[c + j] \in StreamBytes
      BY <1>6, <3>1 DEF Open
    <3> QED BY <3>1, <3>2 DEF After
  <2> QED BY <2>1, <2>2, <2>3 DEF Open, Broken, e
<1>7. CASE Cut(t, c + s)
  <2>1. PICK r \in (c + s) + 1 .. c + e : CutAt(t, c + s, r)
    BY <1>5, <1>7 DEF Cut
  <2>2. r - c \in s + 1 .. e /\ r \in Int /\ r > c
    BY <1>1, <1>2
  <2>7. MagicAt(t, r)
    BY <2>1 DEF CutAt
  <2>9. r \in Int /\ r > c /\ After(t, c, v)
    BY <2>2
  <2>8. MagicAt(v, r - c)
    BY <2>7, <2>9, MagicLeft
  <2>3. MagicAt(t, r) /\ MagicAt(v, r - c)
    BY <2>7, <2>8
  <2>4. r - 1 <= Len(t)
    BY <1>1, <1>2, <2>3, MagicIsBytes DEF MagicAt
  <2>5. ASSUME NEW j \in s + 1 .. (r - c) - 1 PROVE v[j] \in StreamBytes
    <3>n. /\ c \in Nat /\ s \in Nat /\ r \in Int /\ Len(v) \in Nat /\ Len(t) = c + Len(v)
          /\ s >= 1 /\ r - 1 <= Len(t) /\ j \in Int /\ s + 1 <= j /\ j <= (r - c) - 1
      BY <1>1, <2>4, <2>9
    <3> HIDE DEF n, e
    <3>1. j \in 1 .. Len(v) /\ c + j \in (c + s) + 1 .. r - 1
      BY <3>n
    <3>2. v[j] = t[c + j]
      BY <3>1 DEF After
    <3> QED BY <2>1, <3>1, <3>2 DEF CutAt
  <2>6. CutAt(v, s, r - c)
    BY <1>1, <2>1, <2>3, <2>5 DEF CutAt
  <2> QED BY <2>2, <2>6 DEF Cut, Broken, e
<1>8. CASE Changed(t, c + s)
  <2>1. c + e <= Len(t) /\ t[c + e] # calcCrc(t[c + s] \div 10, DataAt(t, c + s))
    BY <1>5, <1>8 DEF Changed
  <2>2. e \in 1 .. Len(v) /\ e <= Len(v)
    BY <1>1, <1>2, <2>1
  <2>3. v[e] = t[c + e]
    BY <2>2 DEF After
  <2>4. DataAt(v, s) = DataAt(t, c + s)
    <3>1. ASSUME NEW i \in 1 .. n PROVE v[s + i] = t[(c + s) + i]
      <4>1. s + i \in 1 .. Len(v) /\ c + (s + i) = (c + s) + i
        BY <1>1, <1>2, <1>3, <2>2
      <4> QED BY <4>1 DEF After
    <3> QED BY <1>1, <3>1 DEF DataAt, n
  <2> QED BY <1>1, <2>1, <2>2, <2>3, <2>4 DEF Changed, Broken, e
<1> QED BY <1>6, <1>7, <1>8 DEF Broken

\* The last byte of a magic number that begins with the q-th.
MagicEnd(q) == q + Len(Magic) - 1

\* The first magic number in t is the q-th byte: what is before it has been handled as
\* one message, the g-th, when the next message begins at 1, and else as none.
LEMMA AheadCut ==
  ASSUME NEW t, NEW v, NEW q \in Nat \ {0}, After(t, MagicEnd(q), v),
         MagicAt(t, q), FirstAt(t, q),
         NEW ms \in Seq(Msgs), NEW h, NEW p, NEW st, Ahead(t, ms, h, p, st), NEW g,
         \/ g = h + 1 /\ h + 1 \in h + 1 .. Len(ms) /\ st[h + 1] = 1
         \/ g = h /\ ~(p = "read" /\ h + 1 \in h + 1 .. Len(ms) /\ st[h + 1] = 1)
  PROVE  \E st2 : Ahead(v, ms, g, "read", st2)
<1> DEFINE N == Len(ms)
           L == Len(Magic)
           c == MagicEnd(q)
           to == [k \in g + 1 .. N |-> st[k] - c]
<1>1. /\ N \in Nat /\ h \in 0 .. N
      /\ st \in [h + 1 .. N -> Nat \ {0}]
      /\ \A k, l \in h + 1 .. N : k < l => st[k] < st[l]
      /\ \A k \in h + 1 .. N : Begins(t, st[k], ms[k], p)
  BY LenProperties DEF Ahead
<1>2. L \in Nat \ {0} /\ c = q + L - 1 /\ c \in Nat
  BY MagicIsBytes DEF MagicEnd
<1>13. After(t, c, v)
  OBVIOUS
<1>3. g \in 0 .. N /\ g \in Nat /\ \A k \in g + 1 .. N : k \in h + 1 .. N /\ k \in 1 .. N
  BY <1>1
<1> HIDE DEF N, L, c
<1>4. ASSUME NEW k \in g + 1 .. N PROVE ~(p = "read" /\ st[k] = 1)
  <2> SUFFICES ASSUME p = "read", st[k] = 1 PROVE FALSE
    OBVIOUS
  <2>1. h + 1 \in h + 1 .. N /\ k \in h + 1 .. N
    BY <1>1, <1>3
  <2>2. st[h + 1] \in Nat \ {0}
    BY <1>1, <2>1
  <2>3. ~(h + 1 < k)
    BY <1>1, <2>1, <2>2
  <2>4. k = h + 1
    BY <1>1, <2>1, <2>3
  <2>5. g = h
    BY <1>1, <1>3, <2>4
  <2> QED BY <1>1, <2>1, <2>4, <2>5 DEF N
<1>5. ASSUME NEW k \in g + 1 .. N
      PROVE  /\ ms[k] \in Msgs /\ st[k] \in Nat /\ st[k] > c
             /\ Begins(v, st[k] - c, ms[k], "read")
  <2>1. ms[k] \in Msgs
    BY <1>3, ElementOfSeq DEF N
  <2>2. st[k] \in Nat /\ Begins(t, st[k], ms[k], p)
    BY <1>1, <1>3
  <2> DEFINE r == st[k] - L
  <2>3. MagicAt(t, r)
    BY <1>4, <2>2 DEF Begins, L
  <2>4. r \in Int /\ r >= q
    <3>1. r \in Int
      BY <1>2, <2>2
    <3>2. r >= 1
      BY <2>3 DEF MagicAt
    <3> HIDE DEF r
    <3>3. ~(r \in 1 .. q - 1)
      BY <2>3 DEF FirstAt
    <3> QED BY <3>1, <3>2, <3>3
  <2>5. st[k] > c
    BY <1>2, <2>2, <2>4
  <2>6. Readable(ms[k]) /\ Carries(t, st[k], ms[k])
    BY <2>2 DEF Begins
  <2>7. Carries(v, st[k] - c, ms[k])
    BY <1>13, <2>1, <2>2, <2>5, <2>6, CarriesLeft
  <2>8. CASE r = q
    <3>1. st[k] - c = 1
      BY <1>2, <2>2, <2>8
    <3> QED BY <2>1, <2>2, <2>5, <2>6, <2>7, <3>1 DEF Begins
  <2>9. CASE r # q
    <3>1. q < r
      BY <2>4, <2>9
    <3>2. q + L <= r
      <4> HIDE DEF r
      <4> QED BY <2>3, <2>4, <3>1, MagicApart DEF L
    <3>3. r > c /\ r - c = (st[k] - c) - L
      BY <1>2, <2>2, <2>4, <3>2
    <3>4. MagicAt(v, r - c)
      <4> HIDE DEF r
      <4> QED BY <1>13, <2>3, <2>4, <3>3, MagicLeft
    <3> QED BY <2>1, <2>2, <2>5, <2>6, <2>7, <3>3, <3>4 DEF Begins, L
  <2> QED BY <2>8, <2>9
<1>6. /\ to \in [g + 1 .. N -> Nat \ {0}]
      /\ \A k \in g + 1 .. N : to[k] = st[k] - c
  <2>1. \A k \in g + 1 .. N : st[k] - c \in Nat \ {0}
    BY <1>2, <1>5
  <2> QED BY <2>1
<1> HIDE DEF to
<1>7. ASSUME NEW k \in g + 1 .. N, NEW l \in g + 1 .. N, k < l PROVE to[k] < to[l]
  <2>1. st[k] < st[l]
    BY <1>1, <1>3, <1>7
  <2>2. st[k] \in Nat /\ st[l] \in Nat
    BY <1>5
  <2> QED BY <1>2, <1>6, <2>1, <2>2
<1>8. ASSUME NEW s \in 1 .. Len(v), IsHeader(v, s)
      PROVE  Broken(v, s) \/ \E k \in g + 1 .. N : to[k] = s
  <2>1. /\ c \in Nat /\ Len(v) \in Nat /\ Len(t) \in Nat /\ Len(t) = c + Len(v) /\ v[s] = t[c + s]
    BY <1>13 DEF After
  <2>2. c + s \in 1 .. Len(t) /\ c + s > 1
    BY <1>2, <2>1
  <2>3. IsHeader(t, c + s)
    BY <1>8, <2>1 DEF IsHeader
  <2>4. Broken(t, c + s) \/ \E k \in h + 1 .. N : st[k] = c + s
    BY <2>2, <2>3 DEF Ahead, N
  <2>5. CASE Broken(t, c + s)
    BY <1>13, <2>5, BrokenLeft
  <2>6. CASE \E k \in h + 1 .. N : st[k] = c + s
    <3>1. PICK k \in h + 1 .. N : st[k] = c + s
      BY <2>6
    <3>2. k \in g + 1 .. N
      <4> SUFFICES ASSUME k \notin g + 1 .. N PROVE FALSE
        OBVIOUS
      <4>1. g = h + 1 /\ k = h + 1 /\ st[h + 1] = 1
        BY <1>1, <1>3
      <4> QED BY <2>2, <3>1, <4>1
    <3>3. to[k] = s
      BY <1>6, <2>1, <3>1, <3>2
    <3> QED BY <3>2, <3>3
  <2> QED BY <2>4, <2>5, <2>6
<1>9. ASSUME NEW k \in g + 1 .. N PROVE Begins(v, to[k], ms[k], "read")
  BY <1>5, <1>6
<1>10. Ahead(v, ms, g, "read", to)
  BY <1>3, <1>6, <1>7, <1>8, <1>9 DEF Ahead, N
<1> QED BY <1>10

\* A suffix in terms of positions, the other way round.
LEMMA SuffixGives ==
  ASSUME NEW s \in Seq(Nat), NEW t \in Seq(Nat), IsSuffix(s, t)
  PROVE  /\ Len(s) <= Len(t)
         /\ \A j \in 1 .. Len(s) : t[Len(t) - Len(s) + j] = s[j]
<1> DEFINE n == Len(s)
           a == Reverse(s)
           b == Reverse(t)
<1>1. n \in Nat /\ Len(t) \in Nat
  BY LenProperties
<1>2. /\ a \in Seq(Nat) /\ Len(a) = n
      /\ \A i \in 1 .. n : a[i] = s[n - i + 1]
  <2>1. \A i \in 1 .. n : n - i + 1 \in 1 .. n /\ s[n - i + 1] \in Nat
    <3>1. \A i \in 1 .. n : n - i + 1 \in 1 .. n
      BY <1>1
    <3> QED BY <3>1, ElementOfSeq
  <2>2. a = [i \in 1 .. n |-> s[n - i + 1]]
    BY DEF Reverse
  <2> QED BY <1>1, <2>1, <2>2
<1>3. /\ b \in Seq(Nat) /\ Len(b) = Len(t)
      /\ \A i \in 1 .. Len(t) : b[i] = t[Len(t) - i + 1]
  <2>1. \A i \in 1 .. Len(t) : Len(t) - i + 1 \in 1 .. Len(t) /\ t[Len(t) - i + 1] \in Nat
    <3>1. \A i \in 1 .. Len(t) : Len(t) - i + 1 \in 1 .. Len(t)
      BY <1>1
    <3> QED BY <3>1, ElementOfSeq
  <2>2. b = [i \in 1 .. Len(t) |-> t[Len(t) - i + 1]]
    BY DEF Reverse
  <2> QED BY <1>1, <2>1, <2>2
<1>4. Len(a) <= Len(b) /\ SubSeq(a, 1, Len(a)) = SubSeq(b, 1, Len(a))
  BY DEF IsSuffix, IsPrefix, a, b
<1> HIDE DEF a, b, n
<1>5. n <= Len(t)
  BY <1>2, <1>3, <1>4
<1>6. \A i \in 1 .. n : SubSeq(a, 1, n)[i] = a[i] /\ SubSeq(b, 1, n)[i] = b[i]
  <2>1. /\ n \in Nat /\ n <= Len(a) /\ n <= Len(b)
        /\ a \in Seq(Nat) /\ b \in Seq(Nat)
    BY <1>1, <1>2, <1>3, <1>5
  <2>2. \A i \in 1 .. n : SubSeq(a, 1, n)[i] = a[i]
    BY <2>1, FirstPart
  <2>3. \A i \in 1 .. n : SubSeq(b, 1, n)[i] = b[i]
    BY <2>1, FirstPart
  <2> QED BY <2>2, <2>3
<1>7. ASSUME NEW j \in 1 .. n PROVE t[Len(t) - n + j] = s[j]
  <2> DEFINE i == n - j + 1
  <2>1. i \in 1 .. n /\ i \in 1 .. Len(t) /\ n - i + 1 = j /\ Len(t) - i + 1 = Len(t) - n + j
    BY <1>1, <1>5
  <2> HIDE DEF i
  <2>2. a[i] = b[i]
    BY <1>2, <1>4, <1>6, <2>1
  <2> QED BY <1>2, <1>3, <2>1, <2>2
<1> QED BY <1>5, <1>7 DEF n

\* What a segment gives to the caller.
LEMMA Segment ==
  ASSUME NEW t \in Seq(Nat), NEW q \in 1 .. Len(t) + 1,
         FirstAt(t, q), q = Len(t) + 1 \/ MagicAt(t, q),
         NEW ms \in Seq(Msgs), NEW h, NEW p, NEW st, Ahead(t, ms, h, p, st)
  PROVE  parseMsg(SubSeq(t, 1, q - 1)) =
           IF h + 1 \in h + 1 .. Len(ms) /\ st[h + 1] = 1 THEN <<ms[h + 1]>> ELSE <<>>
<1>1. /\ Len(ms) \in Nat /\ h \in 0 .. Len(ms) /\ Len(t) \in Nat
      /\ st \in [h + 1 .. Len(ms) -> Nat \ {0}]
      /\ \A k, l \in h + 1 .. Len(ms) : k < l => st[k] < st[l]
  BY LenProperties DEF Ahead
<1>2. CASE h + 1 \in h + 1 .. Len(ms) /\ st[h + 1] = 1
  <2>1. Begins(t, 1, ms[h + 1], p)
    BY <1>2 DEF Ahead
  <2>2. ms[h + 1] \in Msgs
    <3>1. h + 1 \in 1 .. Len(ms)
      BY <1>1, <1>2
    <3> QED BY <3>1, ElementOfSeq
  <2>3. parseMsg(SubSeq(t, 1, q - 1)) = <<ms[h + 1]>>
    BY <2>1, <2>2, SegmentWhole DEF Begins
  <2> QED BY <1>2, <2>3
<1>3. CASE ~(h + 1 \in h + 1 .. Len(ms) /\ st[h + 1] = 1)
  <2>1. ASSUME Len(t) >= 1, IsHeader(t, 1) PROVE Broken(t, 1)
    <3>1. 1 \in 1 .. Len(t)
      BY <1>1, <2>1
    <3>2. Broken(t, 1) \/ \E k \in h + 1 .. Len(ms) : st[k] = 1
      BY <2>1, <3>1 DEF Ahead
    <3>3. ASSUME NEW k \in h + 1 .. Len(ms), st[k] = 1 PROVE FALSE
      <4>1. h + 1 \in h + 1 .. Len(ms)
        BY <1>1
      <4>2. st[h + 1] \in Nat \ {0}
        BY <1>1, <4>1
      <4>3. ~(h + 1 < k)
        BY <1>1, <3>3, <4>1, <4>2
      <4>4. k = h + 1
        BY <1>1, <4>3
      <4> QED BY <1>3, <3>3, <4>1, <4>4
    <3> QED BY <3>2, <3>3
  <2>2. parseMsg(SubSeq(t, 1, q - 1)) = <<>>
    BY <2>1, SegmentNothing
  <2> QED BY <1>3, <2>2
<1> QED BY <1>2, <1>3

\* All that is read or will be read of the stream: the messages left in it, and what has
\* been handled of them.
DelimInv ==
  mode # "active" =>
    /\ \A i \in 1 .. Len(handled) : handled[i] = readable[i]
    /\ \E st : Ahead(msg \o wire, readable, Len(handled), pc, st)
    /\ pc = "done" => /\ closed /\ msg = <<>> /\ wire = <<>>
                      /\ Len(handled) = Len(readable)

\* Without a header there is no message.
LEMMA AheadNothing ==
  ASSUME NEW t, \A s \in 1 .. Len(t) : ~IsHeader(t, s), NEW ms \in Seq(Msgs), NEW p
  PROVE  \E st : Ahead(t, ms, Len(ms), p, st)
<1> DEFINE N == Len(ms)
           st == [k \in N + 1 .. N |-> 1]
<1>1. N \in Nat
  BY LenProperties
<1> HIDE DEF N
<1>2. N \in 0 .. N /\ \A k \in N + 1 .. N : FALSE
  BY <1>1
<1>3. st \in [N + 1 .. N -> Nat \ {0}]
  OBVIOUS
<1> HIDE DEF st
<1>4. Ahead(t, ms, N, p, st)
  BY <1>2, <1>3 DEF Ahead, N
<1> QED BY <1>4 DEF N

\* The stream does not begin with a header.
LEMMA InitWire ==
  ASSUME Init
  PROVE  wire \in Seq(Nat) /\ \A s \in 1 .. Len(wire) : ~IsHeader(wire, s)
<1>1. CASE wire = <<>>
  BY <1>1
<1>2. CASE wire # <<>>
  <2>1. PICK d \in Payloads : \E i \in 2 .. Len(formatMsg(Message(Post, d))) :
               wire = SubSeq(formatMsg(Message(Post, d)), i, Len(formatMsg(Message(Post, d))))
    BY <1>2 DEF Init
  <2> DEFINE m == Message(Post, d)
             f == formatMsg(m)
  <2>2. m \in Msgs
    BY DEF Msgs, Message
  <2>3. PICK i \in 2 .. Len(f) : wire = SubSeq(f, i, Len(f))
    BY <2>1
  <2> HIDE DEF m
  <2>4. f \in Seq(Nat) /\ Len(f) \in Nat
    BY <2>2, FrameBytes, LenProperties
  <2> DEFINE e == Len(f)
  <2> HIDE DEF f
  <2>5. i \in Int /\ e \in Int /\ 1 <= i /\ i <= e + 1 /\ e <= Len(f) /\ wire = SubSeq(f, i, e)
    BY <2>3, <2>4
  <2> HIDE DEF e
  <2>6. /\ wire \in Seq(Nat) /\ Len(wire) = e - i + 1
        /\ \A k \in 1 .. e - i + 1 : wire[k] = f[i + k - 1]
    BY <2>4, <2>5, PartOf
  <2>7. ASSUME NEW s \in 1 .. Len(wire), IsHeader(wire, s) PROVE FALSE
    <3>1. i + s - 1 \in 1 .. Len(f) /\ i + s - 1 # 1 /\ s \in 1 .. e - i + 1
      BY <2>3, <2>4, <2>6 DEF e
    <3>2. IsHeader(f, i + s - 1)
      BY <2>6, <2>7, <3>1 DEF IsHeader
    <3> QED BY <2>2, <3>1, <3>2, OneHeader DEF f
  <2> QED BY <2>6, <2>7
<1> QED BY <1>1, <1>2

LEMMA DelimInit == ASSUME Init PROVE DelimInv
<1>1. readable = <<>> /\ handled = <<>> /\ msg = <<>> /\ pc # "done"
  BY DEF Init
<1>2. Len(readable) = 0 /\ Len(handled) = 0 /\ readable \in Seq(Msgs)
  BY <1>1
<1>3. wire \in Seq(Nat) /\ \A s \in 1 .. Len(wire) : ~IsHeader(wire, s)
  BY InitWire
<1>4. msg \o wire = wire
  BY <1>1, <1>3
<1>5. \E st : Ahead(msg \o wire, readable, Len(handled), pc, st)
  BY <1>2, <1>3, <1>4, AheadNothing
<1>6. \A i \in 1 .. Len(handled) : handled[i] = readable[i]
  BY <1>2
<1> QED BY <1>1, <1>5, <1>6 DEF DelimInv

\* What is put into the stream comes after all that is there.
LEMMA PutExtends ==
  ASSUME TypeOK, NEW x \in Seq(Nat), Put(x)
  PROVE  /\ Extends(msg \o wire, x, msg' \o wire')
         /\ ~closed /\ pc' = pc /\ handled' = handled /\ mode' = mode
<1>1. /\ wire' = wire \o x /\ msg' = msg /\ ~closed /\ pc' = pc /\ handled' = handled /\ mode' = mode
  BY DEF Put, kind
<1>2. msg \in Seq(Nat) /\ wire \in Seq(Nat)
  BY DEF TypeOK
<1>3. msg \o (wire \o x) = (msg \o wire) \o x
  BY <1>2, ConcatAssociative
<1>4. msg \o wire \in Seq(Nat)
  BY <1>2, ConcatProperties
<1>5. Extends(msg \o wire, x, msg \o (wire \o x))
  BY <1>3, <1>4, ExtendsJoin
<1> QED BY <1>1, <1>5

LEMMA DelimPutMessage ==
  ASSUME TypeOK, DelimInv, PutMessage, mode # "active" PROVE DelimInv'
<1>1. PICK d \in Payloads :
        /\ Put(Magic \o formatMsg(Message(Post, d)))
        /\ readable' = IF Readable(Message(Post, d)) THEN Append(readable, Message(Post, d))
                                                     ELSE readable
  BY DEF PutMessage
<1> DEFINE m == Message(Post, d)
           f == formatMsg(m)
           x == Magic \o f
           t == msg \o wire
           u == msg' \o wire'
           h == Len(handled)
<1>2. m \in Msgs
  BY DEF Msgs, Message
<1> HIDE DEF m
<1>3. f \in Seq(Nat)
  BY <1>2, FrameBytes
<1> HIDE DEF f
<1>4. x \in Seq(Nat) /\ Extends(Magic, f, x)
  <2>1. Extends(Magic, f, x)
    BY <1>3, MagicIsBytes, ExtendsJoin
  <2> QED BY <2>1 DEF Extends
<1>5. Put(x) /\ readable' = IF Readable(m) THEN Append(readable, m) ELSE readable
  BY <1>1 DEF x, f, m
<1> HIDE DEF x
<1>6. /\ Extends(t, x, u)
      /\ ~closed /\ pc' = pc /\ handled' = handled
  BY <1>4, <1>5, PutExtends
<1>7. readable \in Seq(Msgs)
  BY DEF TypeOK, Msgs
<1>8. /\ pc # "done" /\ \A i \in 1 .. h : handled[i] = readable[i]
  BY <1>6 DEF DelimInv
<1>9. PICK st : Ahead(t, readable, h, pc, st)
  BY DEF DelimInv
<1> HIDE DEF t, u, h
<1>10. h \in Nat /\ h <= Len(readable) /\ Len(readable) \in Nat
  BY <1>7, <1>9, LenProperties DEF Ahead
<1>11. CASE Readable(m)
  <2>1. readable' = Append(readable, m)
    BY <1>5, <1>11
  <2>2. \E st2 : Ahead(u, readable', h, pc, st2)
    BY <1>2, <1>4, <1>6, <1>7, <1>9, <1>11, <2>1, AheadWhole DEF f
  <2>3. \A i \in 1 .. Len(readable) : readable'[i] = readable[i]
    BY <1>2, <1>7, <2>1, AppendProperties
  <2>4. \A i \in 1 .. h : i \in 1 .. Len(readable)
    BY <1>10
  <2>5. \A i \in 1 .. h : handled'[i] = readable'[i]
    BY <1>6, <1>8, <2>3, <2>4
  <2> QED BY <1>6, <1>8, <2>2, <2>5 DEF DelimInv, h, u
<1>12. CASE ~Readable(m)
  <2>1. readable' = readable
    BY <1>5, <1>12
  <2>2. \A j \in 1 .. Len(f) : IsHeader(f, j) => Broken(u, Base(t) + j)
    BY <1>2, <1>4, <1>6, <1>12, HoldsMagic DEF f
  <2>3. Ahead(u, readable', h, pc, st)
    BY <1>4, <1>6, <1>7, <1>9, <2>1, <2>2, AheadBroken
  <2> QED BY <1>6, <1>8, <2>1, <2>3 DEF DelimInv, h, u
<1> QED BY <1>11, <1>12

\* What is no whole message adds none to be handled.
LEMMA DelimPutNothing ==
  ASSUME TypeOK, DelimInv, mode # "active", NEW x \in Seq(Nat), Put(x), readable' = readable,
         \A st : Ahead(msg \o wire, readable, Len(handled), pc, st)
                   => Ahead(msg' \o wire', readable, Len(handled), pc, st)
  PROVE  DelimInv'
<1>1. ~closed /\ pc' = pc /\ handled' = handled
  BY PutExtends
<1>2. pc # "done" /\ \A i \in 1 .. Len(handled) : handled[i] = readable[i]
  BY <1>1 DEF DelimInv
<1>3. PICK st : Ahead(msg \o wire, readable, Len(handled), pc, st)
  BY DEF DelimInv
<1>4. Ahead(msg' \o wire', readable, Len(handled), pc, st)
  BY <1>3
<1> QED BY <1>1, <1>2, <1>4 DEF DelimInv

LEMMA DelimPutDamaged ==
  ASSUME TypeOK, DelimInv, PutDamaged, mode # "active" PROVE DelimInv'
<1>1. PICK d \in Payloads : \E i \in 1 .. Len(formatMsg(Message(Post, d))) :
         \/ Put(Magic \o SubSeq(formatMsg(Message(Post, d)), 1, i - 1))
         \/ \E b \in Stray \ {formatMsg(Message(Post, d))[i]} :
              Put(Magic \o ReplaceAt(formatMsg(Message(Post, d)), i, b))
  BY DEF PutDamaged
<1> DEFINE m == Message(Post, d)
           f == formatMsg(m)
           t == msg \o wire
           u == msg' \o wire'
           h == Len(handled)
<1>2. m \in Msgs
  BY DEF Msgs, Message
<1>3. PICK i \in 1 .. Len(f) : \/ Put(Magic \o SubSeq(f, 1, i - 1))
                               \/ \E b \in Stray \ {f[i]} : Put(Magic \o ReplaceAt(f, i, b))
  BY <1>1
<1>4. readable' = readable /\ readable \in Seq(Msgs)
  BY DEF PutDamaged, TypeOK, Msgs
<1> HIDE DEF m
<1>5. f \in Seq(Nat) /\ Len(f) \in Nat
  BY <1>2, FrameBytes, LenProperties
<1> HIDE DEF t, u, h
<1>6. ASSUME NEW y \in Seq(Nat), Put(Magic \o y),
             \A x : Extends(Magic, y, x) /\ Extends(t, x, u) =>
               \A j \in 1 .. Len(y) : IsHeader(y, j) => Broken(u, Base(t) + j)
      PROVE  DelimInv'
  <2> DEFINE x == Magic \o y
  <2>1. Extends(Magic, y, x)
    BY MagicIsBytes, ExtendsJoin
  <2>2. x \in Seq(Nat)
    BY <2>1 DEF Extends
  <2>3. Put(x)
    BY <1>6
  <2> HIDE DEF x
  <2>4. Extends(t, x, u)
    BY <2>2, <2>3, PutExtends DEF t, u
  <2>5. \A j \in 1 .. Len(y) : IsHeader(y, j) => Broken(u, Base(t) + j)
    BY <1>6, <2>1, <2>4
  <2>6. \A st : Ahead(t, readable, h, pc, st) => Ahead(u, readable, h, pc, st)
    BY <1>4, <2>1, <2>4, <2>5, AheadBroken
  <2> QED BY <1>4, <2>2, <2>3, <2>6, DelimPutNothing DEF t, u, h
<1>7. CASE Put(Magic \o SubSeq(f, 1, i - 1))
  <2> DEFINE y == SubSeq(f, 1, i - 1)
  <2>1. /\ y \in Seq(Nat) /\ Len(y) = i - 1
        /\ \A k \in 1 .. i - 1 : y[k] = f[k]
    <3> DEFINE l == i - 1
    <3>1. l \in Nat /\ l <= Len(f)
      BY <1>5
    <3> HIDE DEF l, f
    <3>2. /\ SubSeq(f, 1, l) \in Seq(Nat) /\ Len(SubSeq(f, 1, l)) = l
          /\ \A k \in 1 .. l : SubSeq(f, 1, l)[k] = f[k]
      BY <1>5, <3>1, FirstPart
    <3> QED BY <3>2 DEF l
  <2>2. Put(Magic \o y)
    BY <1>7
  <2> HIDE DEF y
  <2>3. ASSUME NEW x, Extends(Magic, y, x), Extends(t, x, u),
               NEW j \in 1 .. Len(y), IsHeader(y, j)
        PROVE  Broken(u, Base(t) + j)
    BY <1>2, <2>1, <2>3, CutShort
  <2> QED BY <1>6, <2>1, <2>2, <2>3
<1>8. ASSUME NEW b \in Stray \ {f[i]}, Put(Magic \o ReplaceAt(f, i, b)) PROVE DelimInv'
  <2> DEFINE y == ReplaceAt(f, i, b)
  <2>1. y \in Seq(Nat)
    <3>1. b \in Nat
      <4>1. b \in DataBytes
        BY DataAssumption
      <4> QED BY <4>1 DEF DataBytes
    <3>2. y = [f EXCEPT ![i] = b]
      BY DEF ReplaceAt
    <3> HIDE DEF y, f
    <3> QED BY <1>5, <3>1, <3>2, ExceptSeq
  <2>2. Put(Magic \o y) /\ y = ReplaceAt(f, i, b)
    BY <1>8
  <2> HIDE DEF y
  <2>3. ASSUME NEW x, Extends(Magic, y, x), Extends(t, x, u),
               NEW j \in 1 .. Len(y), IsHeader(y, j)
        PROVE  Broken(u, Base(t) + j)
    BY <1>2, <1>8, <2>2, <2>3, ByteChanged
  <2> QED BY <1>6, <2>1, <2>2, <2>3
<1> QED BY <1>3, <1>7, <1>8

LEMMA DelimPutStray ==
  ASSUME TypeOK, DelimInv, PutStray, mode # "active" PROVE DelimInv'
<1>1. PICK b \in Stray : Put(<<b>>)
  BY DEF PutStray
<1> DEFINE x == <<b>>
           t == msg \o wire
           u == msg' \o wire'
           h == Len(handled)
<1>2. readable' = readable /\ readable \in Seq(Msgs)
  BY DEF PutStray, TypeOK, Msgs
<1>3. b \in 0 .. 9 /\ b \in Nat
  <2>1. b \in DataBytes
    BY DataAssumption
  <2> QED BY <2>1 DEF DataBytes
<1>4. x \in Seq(Nat) /\ Len(x) = 1 /\ x[1] = b /\ Put(x)
  BY <1>1, <1>3
<1> HIDE DEF x
<1>5. Extends(t, x, u)
  BY <1>4, PutExtends
<1>6. ASSUME NEW i \in 1 .. Len(x), IsHeader(x, i) PROVE FALSE
  <2>1. i = 1
    BY <1>4
  <2> QED BY <1>3, <1>4, <1>6, <2>1, OnlyHeaders DEF IsHeader
<1> HIDE DEF t, u, h
<1>7. \A st : Ahead(t, readable, h, pc, st) => Ahead(u, readable, h, pc, st)
  <2> TAKE st
  <2> SUFFICES ASSUME Ahead(t, readable, h, pc, st) PROVE Ahead(u, readable, h, pc, st)
    OBVIOUS
  <2>1. Len(x) = 1 /\ x[1] \in Stray
    BY <1>4
  <2>2. \A i \in 1 .. Len(x) : IsHeader(x, i) => Broken(u, Len(t) + i)
    BY <1>6
  <2> QED BY <1>2, <1>5, <2>1, <2>2, AheadKept
<1> QED BY <1>2, <1>4, <1>7, DelimPutNothing DEF t, u, h

\* A byte that has been read is still among those that are read or will be.
LEMMA ReadOne ==
  ASSUME NEW s \in Seq(Nat), NEW w \in Seq(Nat), w # <<>>, NEW m, m = Append(s, Head(w))
  PROVE  /\ m \in Seq(Nat) /\ Len(m) = Len(s) + 1 /\ Len(s) \in Nat
         /\ \A i \in 1 .. Len(s) : m[i] = s[i]
         /\ m \o Tail(w) = s \o w
         /\ Extends(m, Tail(w), s \o w)
<1> DEFINE v == Tail(w)
           u == s \o w
           z == m \o v
<1>1. /\ Head(w) \in Nat /\ v \in Seq(Nat) /\ Len(v) = Len(w) - 1
      /\ \A i \in 1 .. Len(v) : v[i] = w[i + 1]
  BY HeadTailProperties
<1>2. /\ Len(s) \in Nat /\ Len(w) \in Nat /\ Len(v) \in Nat /\ Len(w) = Len(v) + 1
  <2>1. Len(s) \in Nat /\ Len(w) \in Nat /\ Len(v) \in Nat
    BY <1>1, LenProperties
  <2> QED BY <1>1, <2>1
<1>3. Head(w) = w[1]
  OBVIOUS
<1>4. /\ m \in Seq(Nat) /\ Len(m) = Len(s) + 1
      /\ m[Len(s) + 1] = Head(w)
      /\ \A i \in 1 .. Len(s) : m[i] = s[i]
  BY <1>1, AppendProperties
<1>5. /\ u \in Seq(Nat) /\ Len(u) = Len(s) + Len(w)
      /\ \A i \in 1 .. Len(s) : u[i] = s[i]
      /\ \A i \in 1 .. Len(w) : u[Len(s) + i] = w[i]
  BY Joined
<1>6. Extends(m, v, z)
  BY <1>1, <1>4, ExtendsJoin
<1> HIDE DEF u, v, z
<1>7. /\ z \in Seq(Nat) /\ Len(z) = Len(m) + Len(v)
      /\ \A i \in 1 .. Len(m) : z[i] = m[i]
      /\ \A i \in 1 .. Len(v) : z[Len(m) + i] = v[i]
  BY <1>6 DEF Extends
<1>8. ASSUME NEW i \in 1 .. Len(z) PROVE z[i] = u[i]
  <2>n. i \in 1 .. Len(s) + 1 + Len(v)
    BY <1>2, <1>4, <1>7
  <2>1. CASE i \in 1 .. Len(s)
    <3>1. i \in 1 .. Len(m)
      BY <1>2, <1>4, <2>1
    <3> QED BY <1>4, <1>5, <1>7, <2>1, <3>1
  <2>2. CASE i = Len(s) + 1
    <3>1. i \in 1 .. Len(m) /\ 1 \in 1 .. Len(w)
      BY <1>2, <1>4, <2>2
    <3> QED BY <1>3, <1>4, <1>5, <1>7, <2>2, <3>1
  <2>3. CASE i \notin 1 .. Len(s) + 1
    <3> DEFINE k == i - (Len(s) + 1)
    <3>1. k \in 1 .. Len(v) /\ i = Len(m) + k /\ i = Len(s) + (k + 1) /\ k + 1 \in 1 .. Len(w)
      BY <1>2, <1>4, <2>n, <2>3
    <3> HIDE DEF k
    <3>2. z[i] = v[k] /\ v[k] = w[k + 1] /\ u[i] = w[k + 1]
      BY <1>1, <1>5, <1>7, <3>1
    <3> QED BY <3>2
  <2>4. i \in 1 .. Len(s) \/ i = Len(s) + 1 \/ i \notin 1 .. Len(s) + 1
    BY <1>2
  <2> QED BY <2>1, <2>2, <2>3, <2>4
<1>9. Len(z) = Len(u)
  BY <1>2, <1>4, <1>5, <1>7
<1>10. z = u
  BY <1>5, <1>7, <1>8, <1>9, SeqEqual
<1>11. Extends(m, v, u)
  BY <1>6, <1>10
<1> QED BY <1>2, <1>4, <1>10, <1>11 DEF u, v, z

\* Where the magic number begins that m ends with.
LastMagic(m) == Len(m) - Len(Magic) + 1

\* The first magic number in what is read or will be is the one that has just been read.
LEMMA FirstMagicAt ==
  ASSUME NEW s \in Seq(Nat), ~HasMagic(s), NEW m \in Seq(Nat), Len(m) = Len(s) + 1,
         \A i \in 1 .. Len(s) : m[i] = s[i], IsSuffix(Magic, m),
         NEW v, NEW t, Extends(m, v, t)
  PROVE  /\ LastMagic(m) \in Nat \ {0} /\ LastMagic(m) \in 1 .. Len(t) + 1
         /\ MagicAt(t, LastMagic(m)) /\ FirstAt(t, LastMagic(m))
         /\ After(t, MagicEnd(LastMagic(m)), v)
         /\ SubSeq(m, 1, Len(m) - Len(Magic)) = SubSeq(t, 1, LastMagic(m) - 1)
<1> DEFINE L == Len(Magic)
           q == LastMagic(m)
<1>1. /\ L \in Nat \ {0} /\ Len(s) \in Nat /\ Len(m) \in Nat
      /\ L <= Len(m) /\ \A j \in 1 .. L : m[Len(m) - L + j] = Magic[j]
  BY MagicIsBytes, LenProperties, SuffixGives
<1>2. /\ Len(t) \in Nat /\ Len(v) \in Nat /\ Len(t) = Len(m) + Len(v)
      /\ t \in Seq(Nat) /\ v \in Seq(Nat)
      /\ \A i \in 1 .. Len(m) : t[i] = m[i]
      /\ \A i \in 1 .. Len(v) : t[Len(m) + i] = v[i]
  BY DEF Extends
<1>3. q = Len(m) - L + 1
  BY DEF LastMagic
<1> HIDE DEF L, q
<1>12. L \in Nat \ {0} /\ Len(m) \in Nat /\ L <= Len(m) /\ Len(t) \in Nat /\ Len(t) >= Len(m)
  BY <1>1, <1>2
<1>4. /\ q \in Nat \ {0} /\ q \in 1 .. Len(t) + 1 /\ q + L - 1 = Len(m) /\ Len(m) - L = q - 1
      /\ q - 1 \in Nat /\ q - 1 <= Len(m) /\ q - 1 <= Len(t)
  BY <1>3, <1>12
<1>5. MagicAt(m, q)
  <2>1. ASSUME NEW j \in 1 .. L PROVE m[q + j - 1] = Magic[j]
    <3>1. q + j - 1 = Len(m) - L + j
      BY <1>3, <1>12
    <3> QED BY <1>1, <3>1
  <2> QED BY <1>4, <2>1 DEF MagicAt, L
<1>6. MagicAt(t, q)
  BY <1>4, <1>5, MagicKept
<1>7. ASSUME NEW r \in 1 .. q - 1, MagicAt(t, r) PROVE FALSE
  <2>n. q = (Len(s) + 1) - L + 1 /\ Len(s) \in Nat /\ Len(m) = Len(s) + 1
    BY <1>1, <1>3
  <2>1. r \in 1 .. Len(s) - L + 1 /\ r + L - 1 <= Len(s)
    BY <1>12, <2>n
  <2>2. ASSUME NEW j \in 1 .. L PROVE s[r + j - 1] = Magic[j]
    <3> DEFINE i == r + j - 1
    <3>1. i \in 1 .. Len(s) /\ i \in 1 .. Len(m)
      BY <1>12, <2>n, <2>1
    <3>2. t[i] = Magic[j]
      BY <1>7 DEF MagicAt, L
    <3> HIDE DEF i
    <3>3. s[i] = m[i] /\ m[i] = t[i]
      BY <1>2, <3>1
    <3>4. s[i] = Magic[j]
      BY <3>2, <3>3
    <3> QED BY <3>4 DEF i
  <2>3. MagicAt(s, r)
    <3>1. r >= 1 /\ r + L - 1 <= Len(s)
      BY <2>1
    <3> QED BY <2>2, <3>1 DEF MagicAt, L
  <2> QED BY <2>1, <2>3, MagicSomewhere DEF L
<1>8. After(t, Len(m), v)
  BY <1>1, <1>2 DEF After
<1>9. SubSeq(m, 1, q - 1) = SubSeq(t, 1, q - 1)
  <2> DEFINE l == q - 1
             a == SubSeq(m, 1, l)
             b == SubSeq(t, 1, l)
  <2>1. l \in Nat /\ l <= Len(m) /\ l <= Len(t)
    BY <1>4
  <2> HIDE DEF l
  <2>2. /\ a \in Seq(Nat) /\ Len(a) = l /\ b \in Seq(Nat) /\ Len(b) = l
        /\ \A i \in 1 .. l : a[i] = m[i] /\ b[i] = t[i]
    BY <1>2, <2>1, FirstPart
  <2> HIDE DEF a, b
  <2>3. ASSUME NEW i \in 1 .. Len(a) PROVE a[i] = b[i]
    <3>1. i \in 1 .. l /\ i \in 1 .. Len(m)
      BY <1>1, <2>1, <2>2
    <3> QED BY <1>2, <2>2, <3>1
  <2>4. a = b
    BY <2>2, <2>3, SeqEqual
  <2> QED BY <2>4 DEF a, b, l
<1>10. After(t, MagicEnd(q), v)
  BY <1>4, <1>8 DEF MagicEnd, L
<1>11. SubSeq(m, 1, Len(m) - L) = SubSeq(t, 1, q - 1)
  BY <1>4, <1>9
<1>13. FirstAt(t, q)
  BY <1>7 DEF FirstAt
<1> QED BY <1>4, <1>6, <1>10, <1>11, <1>13 DEF L, q

\* The message of a segment is the next one.
LEMMA DelimHandled ==
  ASSUME TypeOK, DelimInv, mode # "active", NEW st,
         Ahead(msg \o wire, readable, Len(handled), pc, st),
         Len(handled) + 1 \in Len(handled) + 1 .. Len(readable),
         handled' = handled \o <<readable[Len(handled) + 1]>>, readable' = readable
  PROVE  /\ Len(handled') = Len(handled) + 1
         /\ \A i \in 1 .. Len(handled') : handled'[i] = readable'[i]
<1> DEFINE R == [function : Functions, data : Seq(Nat)]
           h == Len(handled)
           m == readable[h + 1]
<1>1. handled \in Seq(R) /\ readable \in Seq(Msgs)
  BY DEF TypeOK, Msgs
<1>2. h \in Nat /\ Len(readable) \in Nat
  BY <1>1, LenProperties
<1>3. m \in Msgs
  <2>1. h + 1 \in 1 .. Len(readable)
    BY <1>2
  <2> QED BY <1>1, <2>1, ElementOfSeq
<1>4. m \in R
  <2>1. m.data \in Seq(Nat)
    <3>1. DataBytes \subseteq Nat
      BY DEF DataBytes
    <3> QED BY <1>3, <3>1, BytesOf, SeqMonotonic
  <2> QED BY <1>3, <2>1 DEF Msgs, Functions
<1>5. handled' = Append(handled, m)
  <2> HIDE DEF R
  <2> QED BY <1>1, <1>4, AppendIsConcat
<1>6. \A i \in 1 .. h : handled[i] = readable[i]
  BY DEF DelimInv
<1>7. /\ Len(handled') = h + 1 /\ handled'[h + 1] = m
      /\ \A i \in 1 .. h : handled'[i] = handled[i]
  <2> HIDE DEF R, m
  <2> QED BY <1>1, <1>4, <1>5, AppendProperties
<1>8. ASSUME NEW i \in 1 .. h + 1 PROVE handled'[i] = readable'[i]
  <2>1. i = h + 1 \/ i \in 1 .. h
    BY <1>2
  <2> QED BY <1>6, <1>7, <2>1
<1> QED BY <1>7, <1>8

LEMMA DelimReadByte ==
  ASSUME IndInv, DelimInv, ReadByte, mode # "active" PROVE DelimInv'
<1> DEFINE m == Append(msg, Head(wire))
           t == msg \o wire
           v == Tail(wire)
           h == Len(handled)
<1>1. /\ wire # <<>> /\ wire' = v /\ pc \in {"skip", "read"} /\ readable' = readable
  BY DEF ReadByte, Delimiting, put
<1>2. /\ TypeOK /\ msg \in Seq(Nat) /\ wire \in Seq(Nat) /\ readable \in Seq(Msgs)
      /\ ~HasMagic(msg)
  BY DEF IndInv, FirstMagic, TypeOK, Msgs
<1>3. /\ m \in Seq(Nat) /\ Len(m) = Len(msg) + 1
      /\ \A i \in 1 .. Len(msg) : m[i] = msg[i]
      /\ m \o v = t /\ Extends(m, v, t)
  BY <1>1, <1>2, ReadOne
<1>4. PICK st : Ahead(t, readable, h, pc, st)
  BY DEF DelimInv
<1>5. /\ \A i \in 1 .. h : handled[i] = readable[i]
      /\ pc # "done"
  BY <1>1 DEF DelimInv
<1>6. CASE ~IsSuffix(Magic, m)
  <2>1. msg' = m /\ pc' = pc /\ handled' = handled
    BY <1>6 DEF ReadByte
  <2>2. msg' \o wire' = t
    BY <1>1, <1>3, <2>1
  <2> HIDE DEF t
  <2> QED BY <1>1, <1>4, <1>5, <2>1, <2>2 DEF DelimInv
<1>7. CASE IsSuffix(Magic, m)
  <2>1. /\ Caller(SubSeq(m, 1, Len(m) - Len(Magic)), Append(rec, Head(wire)))
        /\ pc' = "read"
    BY <1>7 DEF ReadByte
  <2>2. msg' = <<>> /\ msg' \o wire' = v
    <3>1. msg' = <<>>
      BY <2>1 DEF Caller
    <3>2. v \in Seq(Nat)
      BY <1>1, <1>2, HeadTailProperties
    <3> QED BY <1>1, <3>1, <3>2, ConcatEmptySeq
  <2> DEFINE q == LastMagic(m)
  <2> HIDE DEF m, t, v
  <2>3. /\ q \in Nat \ {0} /\ q \in 1 .. Len(t) + 1
        /\ MagicAt(t, q) /\ FirstAt(t, q)
        /\ After(t, MagicEnd(q), v)
        /\ SubSeq(m, 1, Len(m) - Len(Magic)) = SubSeq(t, 1, q - 1)
    BY <1>2, <1>3, <1>7, FirstMagicAt
  <2> HIDE DEF q, h
  <2>8. q \in Nat \ {0} /\ MagicAt(t, q)
    BY <2>3
  <2>9. FirstAt(t, q)
    BY <2>3
  <2>10. After(t, MagicEnd(q), v)
    BY <2>3
  <2>11. readable \in Seq(Msgs)
    BY <1>2
  <2>12. (h + 1 \in h + 1 .. Len(readable) /\ st[h + 1] = 1)
           => \E st2 : Ahead(v, readable, h + 1, "read", st2)
    <3> DEFINE g == h + 1
    <3> SUFFICES ASSUME h + 1 \in h + 1 .. Len(readable), st[h + 1] = 1
                 PROVE  \E st2 : Ahead(v, readable, g, "read", st2)
      OBVIOUS
    <3>1. g = h + 1
      OBVIOUS
    <3> HIDE DEF g
    <3>2. g = h + 1 /\ h + 1 \in h + 1 .. Len(readable) /\ st[h + 1] = 1
      BY <3>1
    <3> QED BY <1>4, <2>8, <2>9, <2>10, <2>11, <3>2, AheadCut
  <2>13. ~(pc = "read" /\ h + 1 \in h + 1 .. Len(readable) /\ st[h + 1] = 1)
           => \E st2 : Ahead(v, readable, h, "read", st2)
    BY <1>4, <2>8, <2>9, <2>10, <2>11, AheadCut
  <2>4. parseMsg(SubSeq(t, 1, q - 1)) =
          IF h + 1 \in h + 1 .. Len(readable) /\ st[h + 1] = 1 THEN <<readable[h + 1]>> ELSE <<>>
    <3>1. t \in Seq(Nat)
      BY <1>3 DEF Extends
    <3> QED BY <1>2, <1>4, <2>3, <3>1, Segment
  <2>5. CASE pc = "skip"
    <3>1. handled' = handled
      BY <2>1, <2>5 DEF Caller
    <3>2. \E st2 : Ahead(v, readable, h, "read", st2)
      BY <2>5, <2>13
    <3> QED BY <1>1, <1>5, <2>1, <2>2, <3>1, <3>2 DEF DelimInv, h
  <2>6. CASE pc = "read" /\ h + 1 \in h + 1 .. Len(readable) /\ st[h + 1] = 1
    <3>1. handled' = handled \o <<readable[h + 1]>>
      BY <2>1, <2>3, <2>4, <2>6 DEF Caller
    <3>2. /\ Len(handled') = h + 1
          /\ \A i \in 1 .. Len(handled') : handled'[i] = readable'[i]
      BY <1>1, <1>2, <1>4, <2>6, <3>1, DelimHandled DEF t, h
    <3>3. \E st2 : Ahead(v, readable, h + 1, "read", st2)
      BY <2>6, <2>12
    <3> QED BY <1>1, <2>1, <2>2, <3>2, <3>3 DEF DelimInv, h
  <2>7. CASE pc = "read" /\ ~(h + 1 \in h + 1 .. Len(readable) /\ st[h + 1] = 1)
    <3>1. handled' = handled \o <<>>
      BY <2>1, <2>3, <2>4, <2>7 DEF Caller
    <3>2. handled' = handled
      <4> DEFINE R == [function : Functions, data : Seq(Nat)]
      <4>1. handled \in Seq(R)
        BY <1>2 DEF TypeOK
      <4> HIDE DEF R
      <4> QED BY <3>1, <4>1, ConcatEmptySeq
    <3>3. \E st2 : Ahead(v, readable, h, "read", st2)
      BY <2>7, <2>13
    <3> QED BY <1>1, <1>5, <2>1, <2>2, <3>2, <3>3 DEF DelimInv, h
  <2> QED BY <1>1, <2>5, <2>6, <2>7
<1> QED BY <1>6, <1>7

\* When there is no magic number any more, only one message can be left.
LEMMA AheadLast ==
  ASSUME NEW t \in Seq(Nat), FirstAt(t, Len(t) + 1),
         NEW ms \in Seq(Msgs), NEW h, NEW p, NEW st, Ahead(t, ms, h, p, st)
  PROVE  /\ h \in Nat /\ Len(ms) \in Nat
         /\ Len(ms) = h \/ (p = "read" /\ h + 1 \in h + 1 .. Len(ms) /\ st[h + 1] = 1
                            /\ Len(ms) = h + 1)
<1> DEFINE N == Len(ms)
           L == Len(Magic)
<1>1. /\ N \in Nat /\ h \in 0 .. N /\ Len(t) \in Nat /\ L \in Nat \ {0}
      /\ st \in [h + 1 .. N -> Nat \ {0}]
      /\ \A k, l \in h + 1 .. N : k < l => st[k] < st[l]
      /\ \A k \in h + 1 .. N : Begins(t, st[k], ms[k], p)
  BY MagicIsBytes, LenProperties DEF Ahead
<1>2. h \in Nat /\ h <= N
  BY <1>1
<1> HIDE DEF N, L
<1>3. ASSUME NEW k \in h + 1 .. N PROVE p = "read" /\ st[k] = 1
  <2>1. st[k] \in Nat \ {0} /\ Begins(t, st[k], ms[k], p)
    BY <1>1
  <2>2. (p = "read" /\ st[k] = 1) \/ MagicAt(t, st[k] - L)
    BY <2>1 DEF Begins, L
  <2> DEFINE r == st[k] - L
  <2>3. ASSUME MagicAt(t, r) PROVE FALSE
    <3>1. r >= 1 /\ r + L - 1 <= Len(t)
      BY <2>3 DEF MagicAt, L
    <3>n. r \in Int /\ L \in Nat \ {0} /\ Len(t) \in Nat
      BY <1>1, <2>1
    <3> HIDE DEF r
    <3>2. r \in 1 .. Len(t) + 1 - 1
      BY <3>1, <3>n
    <3> QED BY <2>3, <3>2 DEF FirstAt
  <2> QED BY <2>2, <2>3
<1>4. CASE N = h
  BY <1>1, <1>2, <1>4 DEF N
<1>5. CASE N # h
  <2>1. h + 1 \in h + 1 .. N
    BY <1>1, <1>2, <1>5
  <2>2. p = "read" /\ st[h + 1] = 1
    BY <1>3, <2>1
  <2>3. N = h + 1
    <3> SUFFICES ASSUME N # h + 1 PROVE FALSE
      OBVIOUS
    <3>1. h + 2 \in h + 1 .. N /\ h + 1 < h + 2
      BY <1>1, <1>2, <1>5
    <3>2. st[h + 2] = 1 /\ st[h + 1] < st[h + 2]
      BY <1>1, <1>3, <2>1, <3>1
    <3> QED BY <2>2, <3>2
  <2> QED BY <1>1, <1>2, <2>1, <2>2, <2>3 DEF N
<1> QED BY <1>4, <1>5

LEMMA DelimReadEof ==
  ASSUME IndInv, DelimInv, ReadEof, mode # "active" PROVE DelimInv'
<1> DEFINE h == Len(handled)
           q == Len(msg) + 1
           c == h + 1 \in h + 1 .. Len(readable)
<1>1. /\ wire = <<>> /\ closed /\ pc \in {"skip", "read"} /\ pc' = "done"
      /\ wire' = wire /\ closed' = closed /\ readable' = readable
      /\ Caller(msg, rec)
  BY DEF ReadEof, Delimiting, stream, put
<1>2. /\ TypeOK /\ msg \in Seq(Nat) /\ readable \in Seq(Msgs)
      /\ ~HasMagic(msg)
  BY DEF IndInv, FirstMagic, TypeOK, Msgs
<1>3. msg' = <<>> /\ msg' \o wire' = <<>>
  <2>1. msg' = <<>> /\ wire' = <<>>
    BY <1>1 DEF Caller
  <2> QED BY <2>1
<1>4. msg \o wire = msg
  BY <1>1, <1>2, ConcatEmptySeq
<1>5. PICK st : Ahead(msg, readable, h, pc, st)
  BY <1>4 DEF DelimInv
<1>6. \A i \in 1 .. h : handled[i] = readable[i]
  BY DEF DelimInv
<1>7. Len(msg) \in Nat /\ Len(Magic) \in Nat \ {0}
  BY <1>2, MagicIsBytes, LenProperties
<1>8. FirstAt(msg, q)
  <2> SUFFICES ASSUME NEW r \in 1 .. q - 1, MagicAt(msg, r) PROVE FALSE
    BY DEF FirstAt
  <2>1. r \in 1 .. Len(msg) - Len(Magic) + 1
    BY <1>7 DEF MagicAt
  <2> QED BY <1>2, <2>1, MagicSomewhere
<1>9. /\ h \in Nat /\ Len(readable) \in Nat
      /\ Len(readable) = h \/ (pc = "read" /\ c /\ st[h + 1] = 1 /\ Len(readable) = h + 1)
  BY <1>2, <1>5, <1>8, AheadLast
<1>10. parseMsg(msg) = IF c /\ st[h + 1] = 1 THEN <<readable[h + 1]>> ELSE <<>>
  <2>1. q \in 1 .. Len(msg) + 1 /\ SubSeq(msg, 1, q - 1) = msg
    <3>1. q - 1 = Len(msg) /\ SubSeq(msg, 1, Len(msg)) = msg
      BY <1>2, <1>7
    <3> QED BY <1>7, <3>1
  <2>2. parseMsg(SubSeq(msg, 1, q - 1)) =
          IF c /\ st[h + 1] = 1 THEN <<readable[h + 1]>> ELSE <<>>
    <3>1. /\ q \in 1 .. Len(msg) + 1 /\ q = Len(msg) + 1
          /\ msg \in Seq(Nat) /\ readable \in Seq(Msgs) /\ FirstAt(msg, q)
      BY <1>2, <1>8, <2>1
    <3> HIDE DEF q, h
    <3> QED BY <1>5, <3>1, Segment
  <2> QED BY <2>1, <2>2
<1>11. ASSUME Len(handled') = Len(readable),
              \A i \in 1 .. Len(handled') : handled'[i] = readable'[i]
       PROVE  DelimInv'
  <2> DEFINE t == msg' \o wire'
  <2>1. \A s \in 1 .. Len(t) : ~IsHeader(t, s)
    BY <1>3
  <2> HIDE DEF t
  <2>2. \E st2 : Ahead(t, readable, Len(readable), "done", st2)
    BY <1>2, <2>1, AheadNothing
  <2> QED BY <1>1, <1>3, <1>11, <2>2 DEF DelimInv, t
<1>12. CASE Len(readable) = h
  <2>1. handled' = handled
    <3>1. CASE pc = "skip"
      BY <1>1, <3>1 DEF Caller
    <3>2. CASE pc = "read"
      <4>1. ~c
        BY <1>9, <1>12
      <4>2. handled' = handled \o <<>>
        BY <1>1, <1>10, <3>2, <4>1 DEF Caller
      <4> DEFINE R == [function : Functions, data : Seq(Nat)]
      <4>3. handled \in Seq(R)
        BY <1>2 DEF TypeOK
      <4> HIDE DEF R
      <4> QED BY <4>2, <4>3, ConcatEmptySeq
    <3> QED BY <1>1, <3>1, <3>2
  <2> QED BY <1>1, <1>6, <1>11, <1>12, <2>1
<1>13. CASE pc = "read" /\ c /\ st[h + 1] = 1 /\ Len(readable) = h + 1
  <2>1. handled' = handled \o <<readable[h + 1]>>
    BY <1>1, <1>10, <1>13 DEF Caller
  <2>2. /\ Len(handled') = h + 1
        /\ \A i \in 1 .. Len(handled') : handled'[i] = readable'[i]
    BY <1>1, <1>2, <1>4, <1>5, <1>13, <2>1, DelimHandled
  <2> QED BY <1>11, <1>13, <2>2
<1> QED BY <1>9, <1>12, <1>13

LEMMA DelimStep == ASSUME IndInv, DelimInv, [Next]_vars PROVE DelimInv'
<1>1. mode' = mode
  BY DEF Next, PutMessage, PutDamaged, PutStray, Put, EndStream, ReadByte, ReadEof,
         ReadActive, ReadActiveEnd, SendOther, vars, kind
<1>2. CASE mode = "active"
  BY <1>1, <1>2 DEF DelimInv
<1>3. CASE mode # "active"
  <2>1. TypeOK
    BY DEF IndInv
  <2>2. CASE PutMessage
    BY <1>3, <2>1, <2>2, DelimPutMessage
  <2>3. CASE PutDamaged
    BY <1>3, <2>1, <2>3, DelimPutDamaged
  <2>4. CASE PutStray
    BY <1>3, <2>1, <2>4, DelimPutStray
  <2>5. CASE ReadByte
    BY <1>3, <2>5, DelimReadByte
  <2>6. CASE ReadEof
    BY <1>3, <2>6, DelimReadEof
  <2>7. CASE ReadActive \/ ReadActiveEnd
    BY <1>3, <2>7 DEF ReadActive, ReadActiveEnd, Trusting
  <2>8. CASE EndStream \/ SendOther \/ UNCHANGED vars
    <3>1. /\ msg' = msg /\ wire' = wire /\ readable' = readable /\ handled' = handled
          /\ pc' = pc /\ (closed => closed')
      BY <2>8 DEF EndStream, SendOther, vars, stream, put, kind
    <3> QED BY <1>1, <3>1 DEF DelimInv
  <2> QED BY <2>2, <2>3, <2>4, <2>5, <2>6, <2>7, <2>8 DEF Next
<1> QED BY <1>2, <1>3

LEMMA DelimImplies == ASSUME TypeOK, DelimInv PROVE ReadsAll
<1> SUFFICES ASSUME mode # "active"
             PROVE  /\ IsPrefix(handled, readable)
                    /\ (pc = "done" => handled = readable)
  BY DEF ReadsAll
<1> DEFINE h == Len(handled)
           R == [function : Functions, data : Seq(Nat)]
<1>1. /\ pc = "done" => h = Len(readable)
      /\ \A i \in 1 .. h : handled[i] = readable[i]
  BY DEF DelimInv
<1>2. PICK st : Ahead(msg \o wire, readable, h, pc, st)
  BY DEF DelimInv
<1>3. readable \in Seq(Msgs) /\ handled \in Seq(R)
  BY DEF TypeOK, Msgs
<1> HIDE DEF R
<1>4. h \in Nat /\ Len(readable) \in Nat /\ h <= Len(readable)
  <2>1. h \in Nat /\ Len(readable) \in Nat /\ h \in 0 .. Len(readable)
    BY <1>2, <1>3, LenProperties DEF Ahead
  <2> QED BY <2>1
<1>5. SubSeq(readable, 1, h) = handled
  <2>1. \A i \in 1 .. h : readable[i] = handled[i] /\ handled[i] \in R
    BY <1>1, <1>3, ElementOfSeq
  <2> DEFINE p == SubSeq(readable, 1, h)
  <2>2. p = [i \in 1 .. h |-> readable[i]]
    <3>1. \A i \in 1 .. h : i \in 1 .. Len(readable)
      BY <1>4
    <3>2. \A i \in 1 .. h : readable[i] \in Msgs
      BY <1>3, <3>1, ElementOfSeq
    <3> QED BY <1>3, <1>4, <3>2
  <2>3. handled = [i \in 1 .. h |-> handled[i]]
    BY <1>3
  <2> QED BY <2>1, <2>2, <2>3
<1>6. SubSeq(handled, 1, h) = handled
  BY <1>3
<1>7. IsPrefix(handled, readable)
  BY <1>4, <1>5, <1>6 DEF IsPrefix
<1>8. ASSUME pc = "done" PROVE handled = readable
  <2>1. h = Len(readable)
    BY <1>1, <1>8
  <2>2. SubSeq(readable, 1, Len(readable)) = readable
    BY <1>3
  <2> QED BY <1>5, <2>1, <2>2
<1> QED BY <1>7, <1>8

\* Whatever is damaged in the stream and wherever it begins, every message that arrives
\* whole and does not contain the magic number is handled once and in order, and nothing
\* else is (msg.py:45-55, 88-127; semonitor.py:46-50).
THEOREM ReadsEveryMessage == Spec => []ReadsAll
<1>1. Init => DelimInv
  BY DelimInit
<1>2. IndInv /\ DelimInv /\ [Next]_vars => DelimInv'
  BY DelimStep
<1>3. IndInv /\ DelimInv => ReadsAll
  BY DelimImplies DEF IndInv
<1> QED BY <1>1, <1>2, <1>3, EndsWithFirstMagic, PTL DEF Spec

\* A message may begin where a magic number ends.
LEMMA StartsAre ==
  ASSUME NEW s \in Seq(Nat), NEW i \in Int
  PROVE  i \in Starts(s) <=> MagicAt(s, i - Len(Magic))
<1> DEFINE L == Len(Magic)
           g == i - L
<1>1. /\ L \in Nat \ {0} /\ Len(s) \in Nat /\ g \in Int
      /\ i - 1 = g + L - 1
      /\ (i \in L + 1 .. Len(s) + 1 <=> 1 <= g /\ g + L - 1 <= Len(s))
  BY MagicIsBytes, LenProperties
<1>2. i \in Starts(s) <=> i \in L + 1 .. Len(s) + 1 /\ SubSeq(s, g, i - 1) = Magic
  BY DEF Starts
<1>3. MagicAt(s, g) => 1 <= g /\ g + L - 1 <= Len(s)
  BY DEF MagicAt
<1> HIDE DEF g, L
<1>4. ASSUME 1 <= g, g + L - 1 <= Len(s)
      PROVE  SubSeq(s, g, g + L - 1) = Magic <=> MagicAt(s, g)
  BY <1>1, <1>4, MagicIsThere DEF L
<1>5. i \in Starts(s) <=> MagicAt(s, g)
  BY <1>1, <1>2, <1>3, <1>4
<1> QED BY <1>5 DEF g, L

\* What begins at i ends before r.
Ends(s, i, r) ==
  /\ r \in i .. Len(s) + 1
  /\ r = Len(s) + 1 \/ MagicAt(s, r)
  /\ \A t \in i .. r - 1 : ~MagicAt(s, t)

Stops(s, i) == {r \in i .. Len(s) - Len(Magic) + 1 :
                  SubSeq(s, r, r + Len(Magic) - 1) = Magic} \cup {Len(s) + 1}

\* The places at which a message that begins at i could end: a magic number, or the end.
LEMMA StopsAre ==
  ASSUME NEW s \in Seq(Nat), NEW i \in Nat \ {0}, i <= Len(s) + 1, NEW r
  PROVE  r \in Stops(s, i) <=> r \in i .. Len(s) + 1 /\ (r = Len(s) + 1 \/ MagicAt(s, r))
<1>1. Len(s) \in Nat /\ Len(Magic) \in Nat \ {0}
  BY MagicIsBytes, LenProperties
<1>2. ASSUME r \in i .. Len(s) - Len(Magic) + 1
      PROVE  /\ SubSeq(s, r, r + Len(Magic) - 1) = Magic <=> MagicAt(s, r)
             /\ r \in i .. Len(s) + 1
  <2>1. r \in Int /\ 1 <= r /\ r + Len(Magic) - 1 <= Len(s) /\ r \in i .. Len(s) + 1
    BY <1>1, <1>2
  <2> QED BY <2>1, MagicIsThere
<1>3. ASSUME r \in i .. Len(s) + 1, MagicAt(s, r)
      PROVE  r \in i .. Len(s) - Len(Magic) + 1
  BY <1>1, <1>3 DEF MagicAt
<1>4. Len(s) + 1 \in i .. Len(s) + 1
  BY <1>1
<1> QED BY <1>2, <1>3, <1>4 DEF Stops

\* The first of them exists.
LEMMA EndExists ==
  ASSUME NEW s \in Seq(Nat), NEW i \in Nat \ {0}, i <= Len(s) + 1
  PROVE  \E r \in Nat : Ends(s, i, r)
<1>1. Len(s) \in Nat
  BY LenProperties
<1>2. Stops(s, i) \subseteq Nat /\ Stops(s, i) # {}
  <2>1. Len(s) + 1 \in Stops(s, i)
    BY DEF Stops
  <2>2. \A r \in Stops(s, i) : r \in i .. Len(s) + 1
    BY StopsAre
  <2> QED BY <1>1, <2>1, <2>2
<1>3. PICK r \in Stops(s, i) : \A t \in Stops(s, i) : ~(<<t, r>> \in OpToRel(<, Nat))
  BY <1>2, NatLessThanWellFounded, WFMin
<1>4. \A t \in Stops(s, i) : ~(t < r)
  BY <1>2, <1>3 DEF OpToRel
<1>5. r \in i .. Len(s) + 1 /\ (r = Len(s) + 1 \/ MagicAt(s, r)) /\ r \in Nat
  BY <1>2, StopsAre
<1>6. ASSUME NEW t \in i .. r - 1, MagicAt(s, t) PROVE FALSE
  <2>1. t \in i .. Len(s) + 1 /\ t < r
    BY <1>1, <1>5
  <2>2. t \in Stops(s, i)
    BY <1>6, <2>1, StopsAre
  <2> QED BY <1>4, <2>1, <2>2
<1> QED BY <1>5, <1>6 DEF Ends

\* It is where EndFrom says, and so the message is what parses up to there.
LEMMA EndIs ==
  ASSUME NEW s \in Seq(Nat), NEW i \in Nat \ {0}, i <= Len(s) + 1, NEW r, Ends(s, i, r)
  PROVE  EndFrom(s, i) = r /\ MessageAt(s, i) = parseMsg(SubSeq(s, i, r - 1))
<1>1. Len(s) \in Nat
  BY LenProperties
<1>2. r \in Stops(s, i) /\ r \in Int
  BY <1>1, StopsAre DEF Ends
<1>3. ASSUME NEW t \in Stops(s, i) PROVE r <= t /\ t \in Int
  <2>1. t \in i .. Len(s) + 1 /\ (t = Len(s) + 1 \/ MagicAt(s, t))
    BY StopsAre
  <2>2. r \in i .. Len(s) + 1 /\ ~(t \in i .. r - 1 /\ MagicAt(s, t))
    BY DEF Ends
  <2> QED BY <1>1, <2>1, <2>2
<1> DEFINE S == Stops(s, i)
<1> HIDE DEF S
<1>4. Min(S) = r
  <2>1. Min(S) = CHOOSE x \in S : \A y \in S : x <= y
    BY DEF Min
  <2>2. r \in S /\ \A y \in S : r <= y
    BY <1>2, <1>3 DEF S
  <2>3. ASSUME NEW x \in S, \A y \in S : x <= y PROVE x = r
    BY <1>2, <1>3, <2>2, <2>3 DEF S
  <2> QED BY <2>1, <2>2, <2>3
<1>5. EndFrom(s, i) = Min(S)
  BY DEF EndFrom, Stops, S
<1> QED BY <1>4, <1>5 DEF MessageAt

\* The bytes of a file that are in both t and u.
LEMMA MagicBack ==
  ASSUME NEW t, NEW x, NEW u, Extends(t, x, u), NEW q \in Int, MagicAt(u, q),
         q + Len(Magic) - 1 <= Len(t)
  PROVE  MagicAt(t, q)
<1>1. q >= 1 /\ Len(Magic) \in Nat
  BY MagicIsBytes DEF MagicAt
<1>2. ASSUME NEW j \in 1 .. Len(Magic) PROVE t[q + j - 1] = Magic[j]
  <2>1. q + j - 1 \in 1 .. Len(t)
    BY <1>1 DEF Extends
  <2> QED BY <2>1 DEF Extends, MagicAt
<1> QED BY <1>1, <1>2 DEF MagicAt

\* What is appended changes no part of what was there.
LEMMA SamePart ==
  ASSUME NEW t, NEW x, NEW u, Extends(t, x, u), NEW i \in Nat \ {0}, NEW j \in Nat,
         i <= j + 1, j <= Len(t)
  PROVE  SubSeq(t, i, j) = SubSeq(u, i, j)
<1> DEFINE a == SubSeq(t, i, j)
           b == SubSeq(u, i, j)
<1>1. /\ t \in Seq(Nat) /\ u \in Seq(Nat) /\ Len(t) \in Nat /\ Len(u) \in Nat /\ j <= Len(u)
      /\ \A k \in 1 .. Len(t) : u[k] = t[k]
  BY DEF Extends
<1>2. a \in Seq(Nat) /\ Len(a) = j - i + 1 /\ \A k \in 1 .. j - i + 1 : a[k] = t[i + k - 1]
  BY <1>1, PartOf
<1>3. b \in Seq(Nat) /\ Len(b) = j - i + 1 /\ \A k \in 1 .. j - i + 1 : b[k] = u[i + k - 1]
  BY <1>1, PartOf
<1> HIDE DEF a, b
<1>4. ASSUME NEW k \in 1 .. Len(a) PROVE a[k] = b[k]
  <2>1. k \in 1 .. j - i + 1 /\ i + k - 1 \in 1 .. Len(t)
    BY <1>1, <1>2
  <2> QED BY <1>1, <1>2, <1>3, <2>1
<1>5. a = b
  BY <1>2, <1>3, <1>4, SeqEqual
<1> QED BY <1>5 DEF a, b

\* What ends at z in u, ends there in t as well, which u continues.
Settled(t, u, z) ==
  \/ z = 0
  \/ z \in Nat \ {0} /\ MagicAt(u, z) /\ (z = Len(t) + 1 \/ MagicAt(t, z))

\* What is appended to a file leaves the messages alone that begin up to a settled place.
LEMMA SameMessage ==
  ASSUME NEW t, NEW x, NEW u, Extends(t, x, u), NEW z \in Nat, Settled(t, u, z),
         NEW i \in Int, i <= z
  PROVE  /\ i \in Starts(t) <=> i \in Starts(u)
         /\ i \in Starts(t) => MessageAt(t, i) = MessageAt(u, i)
<1> DEFINE L == Len(Magic)
<1>1. /\ t \in Seq(Nat) /\ u \in Seq(Nat) /\ Len(t) \in Nat /\ Len(u) \in Nat /\ Len(t) <= Len(u)
      /\ L \in Nat \ {0}
  BY MagicIsBytes DEF Extends
<1>2. /\ i \in Starts(t) <=> MagicAt(t, i - L)
      /\ i \in Starts(u) <=> MagicAt(u, i - L)
  BY <1>1, StartsAre
<1>3. z <= Len(t) + 1
  BY <1>1 DEF Settled, MagicAt
<1> HIDE DEF L
<1>4. i - L \in Int /\ (i - L) + L - 1 <= Len(t)
  BY <1>1, <1>3
<1>5. MagicAt(t, i - L) <=> MagicAt(u, i - L)
  BY <1>4, MagicKept, MagicBack DEF L
<1>6. ASSUME i \in Starts(t) PROVE MessageAt(t, i) = MessageAt(u, i)
  <2>1. i \in Nat \ {0} /\ i <= Len(t) + 1 /\ i <= Len(u) + 1 /\ z # 0
    <3>1. i - L >= 1
      BY <1>2, <1>6 DEF MagicAt
    <3> QED BY <1>1, <1>3, <3>1
  <2>2. PICK r \in Nat : Ends(u, i, r)
    BY <1>1, <2>1, EndExists
  <2>3. MagicAt(u, z) /\ (z = Len(t) + 1 \/ MagicAt(t, z))
    BY <2>1 DEF Settled
  <2>4. r \in i .. Len(u) + 1 /\ (r = Len(u) + 1 \/ MagicAt(u, r)) /\ \A k \in i .. r - 1 : ~MagicAt(u, k)
    BY <2>2 DEF Ends
  <2>5. r <= z
    <3>1. ~(z \in i .. r - 1)
      BY <2>3, <2>4
    <3> QED BY <2>4, <3>1
  <2>6. r = Len(t) + 1 \/ MagicAt(t, r)
    <3>1. CASE r = z
      BY <2>3, <3>1
    <3>2. CASE r # z
      <4>1. r < z /\ z <= Len(u)
        <5>1. z + L - 1 <= Len(u)
          BY <2>3 DEF MagicAt, L
        <5> QED BY <1>1, <2>5, <3>2, <5>1
      <4>2. MagicAt(u, r)
        BY <1>1, <2>4, <4>1
      <4>3. r + L <= z
        BY <2>3, <4>1, <4>2, MagicApart DEF L
      <4>4. r + L - 1 <= Len(t)
        BY <1>1, <1>3, <4>3
      <4> QED BY <4>2, <4>4, MagicBack DEF L
    <3> QED BY <3>1, <3>2
  <2>7. Ends(t, i, r)
    <3>1. ASSUME NEW k \in i .. r - 1, MagicAt(t, k) PROVE FALSE
      <4>1. MagicAt(u, k)
        BY <3>1, MagicKept
      <4> QED BY <2>4, <4>1
    <3>2. r \in i .. Len(t) + 1
      BY <1>1, <1>3, <2>4, <2>5
    <3> QED BY <2>6, <3>1, <3>2 DEF Ends
  <2>8. MessageAt(u, i) = parseMsg(SubSeq(u, i, r - 1))
    BY <1>1, <2>1, <2>2, EndIs
  <2>9. MessageAt(t, i) = parseMsg(SubSeq(t, i, r - 1))
    BY <1>1, <2>1, <2>7, EndIs
  <2>10. SubSeq(t, i, r - 1) = SubSeq(u, i, r - 1)
    <3>1. r - 1 \in Nat /\ i <= (r - 1) + 1 /\ r - 1 <= Len(t)
      BY <1>1, <1>3, <2>1, <2>4, <2>5
    <3> QED BY <2>1, <3>1, SamePart
  <2> QED BY <2>8, <2>9, <2>10
<1> QED BY <1>2, <1>5, <1>6

\* The messages that the program had received, of those that begin up to z.
ReceivedTo(s, z) == {i \in Received(s) : i <= z}

\* It leaves alone those the program had received as well.
LEMMA SameReceived ==
  ASSUME NEW t, NEW x, NEW u, Extends(t, x, u), NEW z \in Nat, Settled(t, u, z)
  PROVE  /\ ReceivedTo(t, z) = ReceivedTo(u, z)
         /\ \A i \in ReceivedTo(t, z) : MessageAt(t, i) = MessageAt(u, i)
<1>1. ASSUME NEW i \in Int, i <= z
      PROVE  /\ i \in Starts(t) <=> i \in Starts(u)
             /\ i \in Starts(t) => MessageAt(t, i) = MessageAt(u, i)
  BY <1>1, SameMessage
<1>2. Starts(t) \subseteq Int /\ Starts(u) \subseteq Int
  BY MagicIsBytes, LenProperties DEF Starts, Extends
<1> QED BY <1>1, <1>2 DEF ReceivedTo, Received

\* The messages the program could handle.
Got == [function : Functions, data : Seq(Nat)]

\* The record file s gives, at the places F, some of the messages hh that can be read and
\* in their order: at says which.
Fits(s, F, hh, at) ==
  /\ at \in [F -> {k \in DOMAIN hh : Readable(hh[k])}]
  /\ \A i, j \in F : i < j => at[i] < at[j]
  /\ \A i \in F : MessageAt(s, i) = <<hh[at[i]]>>
Missing(F, hh, at) == {k \in DOMAIN hh : Readable(hh[k])} \ {at[i] : i \in F}

\* Up to z, the record file s gives the messages hh again, all but as many as lost says.
Rec(s, z, hh, lost) ==
  \E at : /\ Fits(s, ReceivedTo(s, z), hh, at)
          /\ Cardinality(Missing(ReceivedTo(s, z), hh, at)) <= lost

\* So that what the record file gives up to there, it still gives.
LEMMA RecKept ==
  ASSUME NEW t, NEW x, NEW u, Extends(t, x, u), NEW z \in Nat, Settled(t, u, z),
         NEW hh, NEW lost, Rec(t, z, hh, lost)
  PROVE  Rec(u, z, hh, lost)
<1>1. /\ ReceivedTo(t, z) = ReceivedTo(u, z)
      /\ \A i \in ReceivedTo(t, z) : MessageAt(t, i) = MessageAt(u, i)
  BY SameReceived
<1> DEFINE F == ReceivedTo(t, z)
<1>2. PICK at : Fits(t, F, hh, at) /\ Cardinality(Missing(F, hh, at)) <= lost
  BY DEF Rec
<1>3. Fits(u, F, hh, at)
  BY <1>1, <1>2 DEF Fits
<1> QED BY <1>1, <1>2, <1>3 DEF Rec

\* What the record file does not give can be counted.
LEMMA MissingFinite ==
  ASSUME NEW hh \in Seq(Got), NEW F, NEW at
  PROVE  /\ IsFiniteSet(Missing(F, hh, at)) /\ Cardinality(Missing(F, hh, at)) \in Nat
         /\ Missing(F, hh, at) \subseteq 1 .. Len(hh)
<1>1. Len(hh) \in Nat /\ DOMAIN hh = 1 .. Len(hh)
  BY LenProperties
<1>2. Missing(F, hh, at) \subseteq 1 .. Len(hh)
  BY <1>1 DEF Missing
<1>3. IsFiniteSet(1 .. Len(hh))
  BY <1>1, FS_Interval
<1> QED BY <1>2, <1>3, FS_Subset, FS_CardinalityType

\* Who may lose k messages may lose more.
LEMMA RecMore ==
  ASSUME NEW s, NEW z, NEW hh \in Seq(Got), NEW k \in Int, NEW l \in Int, k <= l, Rec(s, z, hh, k)
  PROVE  Rec(s, z, hh, l)
<1> DEFINE F == ReceivedTo(s, z)
<1>1. PICK at : Fits(s, F, hh, at) /\ Cardinality(Missing(F, hh, at)) <= k
  BY DEF Rec
<1>2. Cardinality(Missing(F, hh, at)) \in Nat
  BY MissingFinite
<1>3. Cardinality(Missing(F, hh, at)) <= l
  BY <1>1, <1>2
<1> QED BY <1>1, <1>3 DEF Rec

\* One more message has been handled.
Adds(hh, m, new) == hh \in Seq(Got) /\ m \in Got /\ new = Append(hh, m)

\* One more message: the others keep their numbers.
LEMMA OneMore ==
  ASSUME NEW hh, NEW m, NEW new, Adds(hh, m, new)
  PROVE  /\ Len(hh) \in Nat /\ new \in Seq(Got) /\ Len(new) = Len(hh) + 1
         /\ DOMAIN hh = 1 .. Len(hh) /\ DOMAIN new = 1 .. Len(hh) + 1
         /\ \A k \in DOMAIN hh : k \in DOMAIN new /\ new[k] = hh[k] /\ k # Len(hh) + 1
         /\ \A k \in DOMAIN new : k \in DOMAIN hh \/ k = Len(hh) + 1
         /\ Len(hh) + 1 \in DOMAIN new /\ new[Len(hh) + 1] = m
<1>0. hh \in Seq(Got) /\ m \in Got /\ new = Append(hh, m)
  BY DEF Adds
<1>1. /\ Len(hh) \in Nat /\ new \in Seq(Got) /\ Len(new) = Len(hh) + 1
      /\ \A k \in 1 .. Len(hh) : new[k] = hh[k]
      /\ new[Len(hh) + 1] = m
  BY <1>0, AppendProperties, LenProperties
<1>2. DOMAIN hh = 1 .. Len(hh) /\ DOMAIN new = 1 .. Len(hh) + 1
  BY <1>0, <1>1, LenProperties
<1>3. /\ \A k \in 1 .. Len(hh) : k \in 1 .. Len(hh) + 1 /\ k # Len(hh) + 1
      /\ \A k \in 1 .. Len(hh) + 1 : k \in 1 .. Len(hh) \/ k = Len(hh) + 1
      /\ Len(hh) + 1 \in 1 .. Len(hh) + 1
  BY <1>1
<1> QED BY <1>1, <1>2, <1>3

\* What fitted still fits when there is one message more, which is missing or cannot be read.
LEMMA FitsMore ==
  ASSUME NEW hh, NEW m, NEW new, Adds(hh, m, new),
         NEW s, NEW F, NEW at, Fits(s, F, hh, at)
  PROVE  /\ Fits(s, F, new, at)
         /\ Readable(m) => Missing(F, new, at) = Missing(F, hh, at) \cup {Len(hh) + 1}
         /\ ~Readable(m) => Missing(F, new, at) = Missing(F, hh, at)
         /\ Len(hh) + 1 \notin Missing(F, hh, at)
<1>1. /\ \A k \in DOMAIN hh : k \in DOMAIN new /\ new[k] = hh[k] /\ k # Len(hh) + 1
      /\ \A k \in DOMAIN new : k \in DOMAIN hh \/ k = Len(hh) + 1
      /\ Len(hh) + 1 \in DOMAIN new /\ new[Len(hh) + 1] = m
  BY OneMore
<1>2. /\ at \in [F -> {k \in DOMAIN hh : Readable(hh[k])}]
      /\ \A i, j \in F : i < j => at[i] < at[j]
      /\ \A i \in F : MessageAt(s, i) = <<hh[at[i]]>>
  BY DEF Fits
<1>3. \A i \in F : at[i] \in DOMAIN hh /\ Readable(hh[at[i]])
  BY <1>2
<1>4. at \in [F -> {k \in DOMAIN new : Readable(new[k])}]
  BY <1>1, <1>2
<1>5. \A i \in F : MessageAt(s, i) = <<new[at[i]]>>
  BY <1>1, <1>2, <1>3
<1>6. Fits(s, F, new, at)
  BY <1>2, <1>4, <1>5 DEF Fits
<1>7. Len(hh) + 1 \notin {at[i] : i \in F}
  BY <1>1, <1>3
<1> HIDE DEF Fits
<1> DEFINE n == Len(hh) + 1
           E == {k \in DOMAIN hh : Readable(hh[k])}
           E2 == {k \in DOMAIN new : Readable(new[k])}
<1>8. E2 = IF Readable(m) THEN E \cup {n} ELSE E
  BY <1>1
<1>9. n \notin E
  BY <1>1
<1> HIDE DEF n, E, E2
<1>10. Missing(F, new, at) = E2 \ {at[i] : i \in F} /\ Missing(F, hh, at) = E \ {at[i] : i \in F}
  BY DEF Missing, E, E2
<1> QED BY <1>6, <1>7, <1>8, <1>9, <1>10 DEF n

\* A message that is handled and not found is one more lost.
LEMMA RecLost ==
  ASSUME NEW hh, NEW m, NEW new, Adds(hh, m, new),
         NEW s, NEW z, NEW k \in Int, NEW l, l = k + 1, Rec(s, z, hh, k)
  PROVE  Rec(s, z, new, l)
<1> DEFINE F == ReceivedTo(s, z)
<1>1. PICK at : Fits(s, F, hh, at) /\ Cardinality(Missing(F, hh, at)) <= k
  BY DEF Rec
<1> DEFINE M == Missing(F, hh, at)
           M2 == Missing(F, new, at)
           n == Len(hh) + 1
<1>2. IsFiniteSet(M) /\ Cardinality(M) \in Nat
  BY MissingFinite DEF Adds
<1>5. Fits(s, F, hh, at)
  BY <1>1
<1> HIDE DEF F
<1>6. /\ n \notin M /\ Fits(s, F, new, at)
      /\ Readable(m) => M2 = M \cup {n}
      /\ ~Readable(m) => M2 = M
  BY <1>5, FitsMore
<1> HIDE DEF n, M, M2
<1>3. Cardinality(M \cup {n}) = Cardinality(M) + 1
  BY <1>2, <1>6, FS_AddElement
<1>7. M2 = M \/ M2 = M \cup {n}
  BY <1>6
<1>8. Cardinality(M) <= k
  BY <1>1 DEF M
<1>9. Cardinality(M2) = Cardinality(M) \/ Cardinality(M2) = Cardinality(M) + 1
  BY <1>3, <1>7
<1>4. Cardinality(M2) <= l
  <2> DEFINE c == Cardinality(M)
             c2 == Cardinality(M2)
  <2>1. c \in Nat /\ c <= k /\ (c2 = c \/ c2 = c + 1)
    BY <1>2, <1>8, <1>9
  <2> HIDE DEF c, c2
  <2>2. c2 <= l
    BY <2>1
  <2> QED BY <2>2 DEF c2
<1> QED BY <1>6, <1>4 DEF Rec, M2, F

\* One that cannot be read again, since the magic number is in its data, is none.
LEMMA RecUnread ==
  ASSUME NEW hh, NEW m, NEW new, Adds(hh, m, new), ~Readable(m),
         NEW s, NEW z, NEW k, Rec(s, z, hh, k)
  PROVE  Rec(s, z, new, k)
<1> DEFINE F == ReceivedTo(s, z)
<1>1. PICK at : Fits(s, F, hh, at) /\ Cardinality(Missing(F, hh, at)) <= k
  BY DEF Rec
<1>3. Fits(s, F, hh, at)
  BY <1>1
<1> HIDE DEF F
<1>2. Fits(s, F, new, at) /\ Missing(F, new, at) = Missing(F, hh, at)
  BY <1>3, FitsMore
<1> QED BY <1>1, <1>2 DEF Rec, F

\* One place more, after the others, where the record file gives the message.
LEMMA RecFound ==
  ASSUME NEW hh, NEW m, NEW new, Adds(hh, m, new), Readable(m),
         NEW s, NEW z \in Int, NEW y, NEW k \in Int, Rec(s, z, hh, k),
         NEW i \in Int, i > z, ReceivedTo(s, z) \subseteq Int,
         ReceivedTo(s, y) = ReceivedTo(s, z) \cup {i}, MessageAt(s, i) = <<m>>
  PROVE  Rec(s, y, new, k)
<1> DEFINE F == ReceivedTo(s, z)
           G == F \cup {i}
           n == Len(hh) + 1
<1>1. PICK at : Fits(s, F, hh, at) /\ Cardinality(Missing(F, hh, at)) <= k
  BY DEF Rec
<1>2. \A j \in F : j \in Int /\ j < i
  BY DEF ReceivedTo
<1> DEFINE to == [j \in G |-> IF j = i THEN n ELSE at[j]]
<1>3. /\ Len(hh) \in Nat
      /\ \A j \in DOMAIN hh : j \in DOMAIN new /\ new[j] = hh[j] /\ j # n /\ j \in 1 .. Len(hh)
      /\ n \in DOMAIN new /\ new[n] = m
  BY OneMore
<1>4. /\ at \in [F -> {j \in DOMAIN hh : Readable(hh[j])}]
      /\ \A j, l \in F : j < l => at[j] < at[l]
      /\ \A j \in F : MessageAt(s, j) = <<hh[at[j]]>>
  BY <1>1 DEF Fits
<1>5. ASSUME NEW j \in F
      PROVE  /\ at[j] \in DOMAIN new /\ Readable(new[at[j]]) /\ at[j] < n /\ j # i
             /\ MessageAt(s, j) = <<new[at[j]]>> /\ to[j] = at[j]
  <2>1. at[j] \in DOMAIN hh /\ Readable(hh[at[j]])
    BY <1>4
  <2>2. at[j] \in 1 .. Len(hh) /\ j # i
    BY <1>2, <1>3, <2>1
  <2>3. at[j] < n
    BY <1>3, <2>2
  <2> QED BY <1>3, <1>4, <2>1, <2>2, <2>3
<1>6. to[i] = n
  OBVIOUS
<1>7. to \in [G -> {j \in DOMAIN new : Readable(new[j])}]
  BY <1>3, <1>5
<1> HIDE DEF to, n, F
<1>8. ASSUME NEW j \in G, NEW l \in G, j < l PROVE to[j] < to[l]
  <2>1. j \in F
    <3>1. ~(i < i)
      OBVIOUS
    <3>2. CASE j = i /\ l \in F
      BY <1>2, <1>8, <3>2
    <3> QED BY <1>8, <3>1, <3>2
  <2>2. CASE l = i
    BY <1>5, <1>6, <2>1, <2>2
  <2>3. CASE l \in F
    BY <1>4, <1>5, <1>8, <2>1, <2>3
  <2> QED BY <2>2, <2>3
<1>9. \A j \in G : MessageAt(s, j) = <<new[to[j]]>>
  BY <1>3, <1>5, <1>6
<1>10. Fits(s, G, new, to)
  BY <1>7, <1>8, <1>9 DEF Fits
<1>11. Missing(G, new, to) = Missing(F, hh, at)
  <2>1. /\ Missing(F, new, at) = Missing(F, hh, at) \cup {n}
        /\ n \notin Missing(F, hh, at)
    <3>1. Fits(s, F, hh, at)
      BY <1>1
    <3> QED BY <3>1, FitsMore DEF n
  <2>2. {to[j] : j \in G} = {at[j] : j \in F} \cup {n}
    BY <1>5, <1>6
  <2>3. Missing(G, new, to) = Missing(F, new, at) \ {n}
    BY <2>2 DEF Missing
  <2> QED BY <2>1, <2>3
<1>12. ReceivedTo(s, y) = G
  BY DEF F
<1> HIDE DEF G
<1> QED BY <1>1, <1>10, <1>11, <1>12 DEF Rec

\* Where nothing is found and nothing has been handled, nothing is lost.
LEMMA RecEmpty ==
  ASSUME NEW s, NEW z, NEW k \in Nat, ReceivedTo(s, z) = {}
  PROVE  Rec(s, z, <<>>, k)
<1> DEFINE F == ReceivedTo(s, z)
           at == [i \in F |-> 1]
<1>1. Fits(s, F, <<>>, at)
  BY DEF Fits
<1>2. Missing(F, <<>>, at) = {}
  BY DEF Missing
<1>3. Cardinality({}) = 0
  BY FS_EmptySet
<1> HIDE DEF at, F
<1>4. Cardinality(Missing(F, <<>>, at)) <= k
  <2>1. Cardinality(Missing(F, <<>>, at)) = 0
    BY <1>2, <1>3
  <2> QED BY <2>1
<1>5. Fits(s, F, <<>>, at) /\ Cardinality(Missing(F, <<>>, at)) <= k
  BY <1>1, <1>4
<1>6. F = ReceivedTo(s, z)
  BY DEF F
<1>7. Fits(s, ReceivedTo(s, z), <<>>, at) /\ Cardinality(Missing(ReceivedTo(s, z), <<>>, at)) <= k
  BY <1>5, <1>6
<1> SUFFICES \E a : /\ Fits(s, ReceivedTo(s, z), <<>>, a)
                   /\ Cardinality(Missing(ReceivedTo(s, z), <<>>, a)) <= k
  BY DEF Rec
<1> WITNESS at
<1> QED BY <1>7

\* The first j bytes of t are a message with a valid checksum, and may be more.
ValidTo(t, j) ==
  /\ j >= 2 /\ IsHeader(t, 1) /\ End(t, 1) <= j
  /\ t[End(t, 1)] = calcCrc(t[1] \div 10, DataAt(t, 1))

\* What parseMsg makes of the first j bytes, by their positions (msg.py:88-127).
LEMMA ParseFirst ==
  ASSUME NEW t \in Seq(Nat), NEW j \in Nat, j <= Len(t)
  PROVE  /\ ValidTo(t, j) => parseMsg(SubSeq(t, 1, j)) = <<Message(t[1] \div 10, DataAt(t, 1))>>
         /\ ~ValidTo(t, j) => parseMsg(SubSeq(t, 1, j)) = <<>>
<1> DEFINE s == SubSeq(t, 1, j)
           n == t[1] % 10
           e == End(t, 1)
           z == DataAt(t, 1)
           y == SubSeq(s, 2, n + 1)
<1>1. Len(t) \in Nat
  BY LenProperties
<1>2. /\ s \in Seq(Nat) /\ Len(s) = j
      /\ \A i \in 1 .. j : s[i] = t[i]
  BY <1>1, FirstPart
<1>3. CASE j < 2
  <2>1. ~validateMsg(s)
    BY <1>2, <1>3 DEF validateMsg
  <2>2. ~ValidTo(t, j)
    BY <1>3 DEF ValidTo
  <2> QED BY <2>1, <2>2 DEF parseMsg
<1>4. CASE j >= 2
  <2>1. 1 \in 1 .. j /\ 1 \in 1 .. Len(t)
    BY <1>1, <1>4
  <2>2. s[1] = t[1] /\ t[1] \in Nat
    BY <1>2, <2>1, ElementOfSeq
  <2>3. n \in 0 .. 9 /\ e = 1 + n + 1
    BY <2>1, EndIsNat DEF End
  <2>4. functionIn(s) = t[1] \div 10 /\ dataLenIn(s) = n /\ dataIn(s) = y
    BY <2>2 DEF functionIn, dataLenIn, dataIn
  <2> HIDE DEF s, n, e, y
  <2>5. e = n + 2 /\ e \in Nat /\ n \in Nat
    BY <2>3
  <2>6. CASE ~(e <= j)
    <3>1. ~validateMsg(s)
      BY <1>2, <2>4, <2>5, <2>6 DEF validateMsg
    <3>2. ~ValidTo(t, j)
      BY <2>6 DEF ValidTo, e
    <3> QED BY <3>1, <3>2 DEF parseMsg, s
  <2>7. CASE e <= j
    <3>1. z = [i \in 1 .. n |-> t[1 + i]]
      BY DEF DataAt, n
    <3>2. /\ y \in Seq(Nat) /\ Len(y) = (n + 1) - 2 + 1
          /\ \A i \in 1 .. (n + 1) - 2 + 1 : y[i] = s[2 + i - 1]
      <4> DEFINE k == n + 1
      <4>1. 2 \in Int /\ k \in Int /\ 1 <= 2 /\ 2 <= k + 1 /\ k <= Len(s)
        BY <1>2, <2>5, <2>7
      <4> HIDE DEF k
      <4>2. /\ SubSeq(s, 2, k) \in Seq(Nat) /\ Len(SubSeq(s, 2, k)) = k - 2 + 1
            /\ \A i \in 1 .. k - 2 + 1 : SubSeq(s, 2, k)[i] = s[2 + i - 1]
        BY <1>2, <4>1, PartOf
      <4> QED BY <4>2 DEF k, y
    <3>3. (n + 1) - 2 + 1 = n
      BY <2>3
    <3>4. ASSUME NEW i \in 1 .. n PROVE y[i] = t[1 + i] /\ t[1 + i] \in Nat
      <4>1. i \in 1 .. (n + 1) - 2 + 1 /\ 2 + i - 1 = 1 + i /\ 1 + i \in 1 .. j /\ 1 + i \in 1 .. Len(t)
        BY <1>1, <2>5, <2>7
      <4> QED BY <1>2, <3>2, <4>1, ElementOfSeq
    <3>5. z \in Seq(Nat) /\ Len(z) = n /\ \A i \in 1 .. n : z[i] = t[1 + i]
      <4> HIDE DEF z
      <4>1. \A i \in 1 .. n : t[1 + i] \in Nat
        BY <3>4
      <4>2. z \in [1 .. n -> Nat]
        BY <3>1, <4>1
      <4>3. n \in Nat
        BY <2>3
      <4>4. z \in Seq(Nat) /\ Len(z) = n
        BY <4>2, <4>3
      <4>5. ASSUME NEW i \in 1 .. n PROVE z[i] = t[1 + i]
        BY <3>1
      <4> QED BY <4>4, <4>5
    <3> HIDE DEF z
    <3>6. Len(y) = n
      BY <3>2, <3>3
    <3>7. y = z
      BY <3>2, <3>4, <3>5, <3>6, SeqEqual
    <3>8. s[n + 2] = t[e]
      BY <1>2, <2>5, <2>7
    <3>9. ASSUME ValidTo(t, j) PROVE validateMsg(s)
      <4>1. t[1] \div 10 \in Functions /\ t[e] = calcCrc(t[1] \div 10, z)
        BY <3>9 DEF ValidTo, IsHeader, e, z
      <4>2. Len(s) >= 2 /\ n + 2 <= Len(s)
        BY <1>2, <1>4, <2>5, <2>7
      <4> QED BY <2>4, <3>7, <3>8, <4>1, <4>2 DEF validateMsg
    <3>10. ASSUME validateMsg(s) PROVE ValidTo(t, j)
      <4>1. t[1] \div 10 \in Functions /\ s[n + 2] = calcCrc(t[1] \div 10, y)
        BY <2>4, <3>10 DEF validateMsg
      <4>2. IsHeader(t, 1) /\ t[e] = calcCrc(t[1] \div 10, z)
        BY <3>7, <3>8, <4>1 DEF IsHeader
      <4> QED BY <1>4, <2>7, <4>2 DEF ValidTo, e, z
    <3>11. ASSUME validateMsg(s)
           PROVE  parseMsg(s) = <<Message(t[1] \div 10, z)>>
      BY <2>4, <3>7, <3>11 DEF parseMsg
    <3>12. ASSUME ~validateMsg(s) PROVE parseMsg(s) = <<>>
      BY <3>12 DEF parseMsg
    <3> QED BY <3>9, <3>10, <3>11, <3>12 DEF s, z
  <2> QED BY <2>6, <2>7
<1> QED BY <1>1, <1>3, <1>4

\* Bytes after a valid message change nothing.
LEMMA ParseLonger ==
  ASSUME NEW t \in Seq(Nat), NEW j \in Nat, NEW l \in Nat, j <= l, l <= Len(t),
         parseMsg(SubSeq(t, 1, j)) # <<>>
  PROVE  parseMsg(SubSeq(t, 1, l)) = parseMsg(SubSeq(t, 1, j))
<1>1. Len(t) \in Nat /\ j <= Len(t)
  BY LenProperties
<1>2. ValidTo(t, j) /\ parseMsg(SubSeq(t, 1, j)) = <<Message(t[1] \div 10, DataAt(t, 1))>>
  BY <1>1, ParseFirst
<1>3. j >= 2 /\ 1 \in 1 .. Len(t)
  BY <1>1, <1>2 DEF ValidTo
<1>4. End(t, 1) \in Nat /\ End(t, 1) <= j
  BY <1>2, <1>3, EndIsNat DEF ValidTo
<1>5. l >= 2 /\ End(t, 1) <= l
  BY <1>3, <1>4
<1>6. ValidTo(t, l)
  BY <1>2, <1>5 DEF ValidTo
<1> QED BY <1>2, <1>6, ParseFirst

\* What does not begin with the header of a Post is not one.
LEMMA ParseOther ==
  ASSUME NEW t \in Seq(Nat), NEW j \in Nat, j <= Len(t), t[1] \div 10 # Post
  PROVE  \A m \in ToSet(parseMsg(SubSeq(t, 1, j))) : m.function # Post
<1> DEFINE p == parseMsg(SubSeq(t, 1, j))
           x == Message(t[1] \div 10, DataAt(t, 1))
<1>1. p = <<>> \/ p = <<x>>
  BY ParseFirst
<1>2. x.function # Post
  BY DEF Message
<1> HIDE DEF p, x
<1>3. \A m \in ToSet(p) : m = x
  BY <1>1 DEF ToSet
<1> QED BY <1>2, <1>3 DEF p

\* Bytes that do not begin with a header are no message.
LEMMA ParseNothing ==
  ASSUME NEW t \in Seq(Nat), NEW j \in Nat, j <= Len(t), j = 0 \/ ~IsHeader(t, 1)
  PROVE  parseMsg(SubSeq(t, 1, j)) = <<>>
<1>1. ~ValidTo(t, j)
  BY DEF ValidTo
<1> QED BY <1>1, ParseFirst

\* No magic number ends within the first j bytes.
NoneTo(t, j) == \A r \in Int : MagicAt(t, r) => r + Len(Magic) - 1 > j

\* Before the magic number, however little has been read, only the next message is valid.
LEMMA ParseNext ==
  ASSUME NEW t \in Seq(Nat), NEW j \in Nat, j <= Len(t), NoneTo(t, j),
         NEW ms \in Seq(Msgs), NEW h, NEW p, NEW st, Ahead(t, ms, h, p, st),
         parseMsg(SubSeq(t, 1, j)) # <<>>
  PROVE  /\ h + 1 \in h + 1 .. Len(ms) /\ st[h + 1] = 1
         /\ parseMsg(SubSeq(t, 1, j)) = <<ms[h + 1]>>
<1> DEFINE e == End(t, 1)
           n == t[1] % 10
<1>1. ValidTo(t, j) /\ parseMsg(SubSeq(t, 1, j)) = <<Message(t[1] \div 10, DataAt(t, 1))>>
  BY ParseFirst
<1>2. Len(t) \in Nat /\ j >= 2 /\ 1 \in 1 .. Len(t)
  <2>1. Len(t) \in Nat /\ j >= 2
    BY <1>1, LenProperties DEF ValidTo
  <2> QED BY <2>1
<1>3. n \in 0 .. 9 /\ e \in Nat /\ e > 1 /\ e = 1 + n + 1 /\ e <= j
  BY <1>1, <1>2, EndIsNat DEF End, ValidTo
<1>4. IsHeader(t, 1) /\ t[e] = calcCrc(t[1] \div 10, DataAt(t, 1))
  BY <1>1 DEF ValidTo
<1> HIDE DEF e, n
<1>5. ~Open(t, 1)
  BY <1>2, <1>3 DEF Open, e
<1>6. ~Changed(t, 1)
  BY <1>4 DEF Changed, e
<1>7. ~Cut(t, 1)
  <2> SUFFICES ASSUME NEW r \in 1 + 1 .. e, CutAt(t, 1, r) PROVE FALSE
    BY DEF Cut, e
  <2>1. /\ MagicAt(t, r) /\ r \in Int /\ 2 <= r /\ r <= e
        /\ \A i \in 2 .. r - 1 : t[i] \in StreamBytes
    BY <1>3 DEF CutAt
  <2>2. PICK d \in Payloads : t[1] = Header(Post, Len(d))
    BY DEF CutAt
  <2>3. r + Len(Magic) - 1 > j /\ Len(Magic) \in Nat \ {0}
    BY <2>1, MagicIsBytes DEF NoneTo
  <2>4. ASSUME NEW i \in 2 .. e PROVE t[i] \in StreamBytes
    <3>1. CASE i < r
      <4>1. i \in 2 .. r - 1
        BY <2>1, <3>1
      <4> QED BY <2>1, <4>1
    <3>2. CASE ~(i < r)
      <4> DEFINE k == i - r + 1
      <4>1. k \in 1 .. Len(Magic) /\ r + k - 1 = i
        BY <1>2, <1>3, <2>1, <2>3, <3>2
      <4> HIDE DEF k
      <4>2. t[i] = Magic[k]
        BY <2>1, <4>1 DEF MagicAt
      <4> QED BY <4>1, <4>2, StreamBytesAreData
    <3> QED BY <3>1, <3>2
  <2>5. Len(d) \in 0 .. 9 /\ t[1] = 10 + Len(d)
    <3>1. Message(Post, d) \in Msgs /\ Message(Post, d).data = d
      BY DEF Message, Msgs
    <3> QED BY <2>2, <3>1, FrameBytes
  <2>6. n = Len(d) /\ t[1] \div 10 = Post
    BY <2>5, OnlyHeaders DEF n
  <2>7. DataAt(t, 1) \in [1 .. Len(d) -> StreamBytes]
    <3>1. ASSUME NEW i \in 1 .. n PROVE t[1 + i] \in StreamBytes
      <4>1. 1 + i \in 2 .. e
        BY <1>3
      <4> QED BY <2>4, <4>1
    <3> QED BY <2>6, <3>1 DEF DataAt, n
  <2>8. calcCrc(Post, DataAt(t, 1)) \notin 0 .. 39
    BY <2>7, DamageAssumption, OnlyHeaders
  <2>9. t[e] \in 0 .. 9
    <3>1. e \in 2 .. e
      BY <1>3
    <3>2. t[e] \in StreamBytes
      BY <2>4, <3>1
    <3> QED BY <3>2, StreamBytesAreData
  <2> DEFINE c == calcCrc(Post, DataAt(t, 1))
  <2>10. t[e] = c /\ c \notin 0 .. 39
    BY <1>4, <2>6, <2>8
  <2> HIDE DEF c
  <2>11. \A i \in 0 .. 9 : i \in 0 .. 39
    OBVIOUS
  <2> QED BY <2>9, <2>10, <2>11
<1>8. PICK k \in h + 1 .. Len(ms) : st[k] = 1
  <2>1. Broken(t, 1) \/ \E k \in h + 1 .. Len(ms) : st[k] = 1
    BY <1>2, <1>4 DEF Ahead
  <2> QED BY <1>5, <1>6, <1>7, <2>1 DEF Broken
<1>9. /\ Len(ms) \in Nat /\ h \in 0 .. Len(ms)
      /\ st \in [h + 1 .. Len(ms) -> Nat \ {0}]
      /\ \A a, b \in h + 1 .. Len(ms) : a < b => st[a] < st[b]
  BY LenProperties DEF Ahead
<1>10. h + 1 \in h + 1 .. Len(ms) /\ k = h + 1
  <2>1. h + 1 \in h + 1 .. Len(ms)
    BY <1>9
  <2>2. st[h + 1] \in Nat \ {0}
    BY <1>9, <2>1
  <2>3. ~(h + 1 < k)
    BY <1>8, <1>9, <2>1, <2>2
  <2> QED BY <1>9, <2>1, <2>3
<1>11. Begins(t, 1, ms[h + 1], p)
  BY <1>8, <1>10 DEF Ahead
<1>12. ms[h + 1] \in Msgs
  <2>1. h + 1 \in 1 .. Len(ms)
    BY <1>9, <1>10
  <2> QED BY <2>1, ElementOfSeq
<1>13. parseMsg(SubSeq(t, 1, Len(t))) = <<ms[h + 1]>>
  <2> DEFINE q == Len(t) + 1
  <2>1. q \in 1 .. Len(t) + 1 /\ q = Len(t) + 1 /\ q - 1 = Len(t)
    BY <1>2
  <2> HIDE DEF q
  <2>2. Readable(ms[h + 1]) /\ Carries(t, 1, ms[h + 1])
    BY <1>11 DEF Begins
  <2>3. parseMsg(SubSeq(t, 1, q - 1)) = <<ms[h + 1]>>
    BY <1>12, <2>1, <2>2, SegmentWhole
  <2> QED BY <2>1, <2>3
<1>14. parseMsg(SubSeq(t, 1, Len(t))) = parseMsg(SubSeq(t, 1, j))
  <2>1. Len(t) \in Nat /\ Len(t) <= Len(t)
    BY <1>2
  <2> QED BY <2>1, ParseLonger
<1> QED BY <1>8, <1>10, <1>13, <1>14

\* In s, one magic number begins at z, and the next one at y, if not the file ends there.
Span(s, z, y) ==
  /\ z \in Nat \ {0} /\ y \in Nat /\ z < y
  /\ MagicAt(s, z) /\ (y = Len(s) + 1 \/ MagicAt(s, y))
  /\ \A g \in Int : z < g /\ g < y => ~MagicAt(s, g)

\* The bytes between them.
Between(s, z, y) == SubSeq(s, z + Len(Magic), y - 1)

\* No message that the program would have received.
NoPost(p) == \A m \in ToSet(p) : m.function # Post

\* The one message between them.
LEMMA SpanIs ==
  ASSUME NEW s \in Seq(Nat), NEW z, NEW y, Span(s, z, y)
  PROVE  /\ z + Len(Magic) \in Nat \ {0} /\ z + Len(Magic) > z
         /\ z + Len(Magic) <= y /\ y <= Len(s) + 1
         /\ z + Len(Magic) \in Starts(s)
         /\ MessageAt(s, z + Len(Magic)) = parseMsg(Between(s, z, y))
         /\ \A i \in Starts(s) : i \in Int /\ (i <= y => i <= z \/ i = z + Len(Magic))
<1> DEFINE L == Len(Magic)
           b == z + L
<1>1. /\ L \in Nat \ {0} /\ Len(s) \in Nat /\ z \in Nat \ {0} /\ y \in Nat /\ z < y
      /\ MagicAt(s, z) /\ (y = Len(s) + 1 \/ MagicAt(s, y))
      /\ \A g \in Int : z < g /\ g < y => ~MagicAt(s, g)
  BY MagicIsBytes, LenProperties DEF Span
<1>2. z + L - 1 <= Len(s)
  BY <1>1 DEF MagicAt
<1>3. z + L <= y
  <2>1. CASE y = Len(s) + 1
    BY <1>1, <1>2, <2>1
  <2>2. CASE MagicAt(s, y)
    BY <1>1, <2>2, MagicApart
  <2> QED BY <1>1, <2>1, <2>2
<1>4. y <= Len(s) + 1
  <2>1. MagicAt(s, y) => y + L - 1 <= Len(s)
    BY DEF MagicAt
  <2> HIDE DEF L
  <2> QED BY <1>1, <2>1
<1> HIDE DEF b, L
<1>5. b = z + L /\ b \in Nat \ {0} /\ b \in Int /\ b - L = z /\ b <= y /\ b <= Len(s) + 1 /\ b > z
  BY <1>1, <1>3, <1>4 DEF b
<1>6. b \in Starts(s)
  BY <1>1, <1>5, StartsAre DEF L
<1>7. Ends(s, b, y)
  <2>1. ASSUME NEW t \in b .. y - 1 PROVE ~MagicAt(s, t)
    <3>1. t \in Int /\ z < t /\ t < y
      BY <1>1, <1>5
    <3> QED BY <1>1, <3>1
  <2>2. y \in b .. Len(s) + 1
    BY <1>1, <1>4, <1>5
  <2> QED BY <1>1, <2>1, <2>2 DEF Ends
<1>8. MessageAt(s, b) = parseMsg(Between(s, z, y))
  <2>1. MessageAt(s, b) = parseMsg(SubSeq(s, b, y - 1))
    BY <1>5, <1>7, EndIs
  <2> QED BY <2>1 DEF Between, b, L
<1>9. ASSUME NEW i \in Starts(s) PROVE i \in Int /\ (i <= y => i <= z \/ i = b)
  <2>1. i \in Int
    BY <1>1 DEF Starts, L
  <2>2. MagicAt(s, i - L)
    BY <2>1, StartsAre DEF L
  <2> DEFINE g == i - L
  <2>3. g \in Int /\ i = g + L
    BY <1>1, <2>1
  <2>4. MagicAt(s, g)
    BY <2>2
  <2> HIDE DEF g
  <2>5. ASSUME i <= y PROVE i <= z \/ i = b
    <3>1. g < y
      BY <1>1, <2>3, <2>5
    <3>2. ~(z < g)
      BY <1>1, <2>3, <2>4, <3>1
    <3>3. CASE g = z
      BY <1>5, <2>3, <3>3
    <3>4. CASE g < z
      <4>1. g + L <= z
        BY <1>1, <2>3, <2>4, <3>4, MagicApart DEF L
      <4> QED BY <2>3, <4>1
    <3> QED BY <1>1, <2>3, <3>2, <3>3, <3>4
  <2> QED BY <2>1, <2>5
<1> QED BY <1>4, <1>5, <1>6, <1>8, <1>9 DEF b, L

\* The messages put into the stream are messages that could be handled.
LEMMA MsgsAreGot == Msgs \subseteq Got /\ Post \in Functions
<1>1. ASSUME NEW m \in Msgs PROVE m \in Got
  <2>1. m.data \in Seq(Nat)
    <3>1. DataBytes \subseteq Nat
      BY DEF DataBytes
    <3> QED BY <3>1, BytesOf, SeqMonotonic
  <2> QED BY <2>1 DEF Msgs, Got, Functions
<1> QED BY <1>1 DEF Functions

\* Nothing that the program has received is between them.
LEMMA CloseOther ==
  ASSUME NEW s \in Seq(Nat), NEW z, NEW y, Span(s, z, y),
         NoPost(parseMsg(Between(s, z, y))),
         NEW hh, NEW k, Rec(s, z, hh, k)
  PROVE  Rec(s, y, hh, k)
<1> DEFINE b == z + Len(Magic)
<1>1. /\ \A i \in Starts(s) : i \in Int /\ (i <= y => i <= z \/ i = b)
      /\ MessageAt(s, b) = parseMsg(Between(s, z, y))
      /\ z \in Nat /\ y \in Nat /\ z < y
  BY SpanIs DEF Span
<1>2. b \notin Received(s)
  BY <1>1 DEF Received, NoPost
<1> HIDE DEF b
<1>3. ReceivedTo(s, y) = ReceivedTo(s, z)
  <2>1. ASSUME NEW i \in Received(s) PROVE i <= y <=> i <= z
    <3>1. i \in Starts(s) /\ i # b
      BY <1>2 DEF Received
    <3>2. i \in Int /\ (i <= y => i <= z)
      BY <1>1, <3>1
    <3> QED BY <1>1, <3>2
  <2> QED BY <2>1 DEF ReceivedTo
<1> QED BY <1>3 DEF Rec

\* A message that the program had received is between them.
LEMMA CloseFound ==
  ASSUME NEW s \in Seq(Nat), NEW z, NEW y, Span(s, z, y), NEW m \in Msgs, Readable(m),
         parseMsg(Between(s, z, y)) = <<m>>,
         NEW hh, NEW new, Adds(hh, m, new), NEW k \in Int, Rec(s, z, hh, k)
  PROVE  Rec(s, y, new, k)
<1> DEFINE b == z + Len(Magic)
<1>1. /\ \A i \in Starts(s) : i \in Int /\ (i <= y => i <= z \/ i = b)
      /\ MessageAt(s, b) = parseMsg(Between(s, z, y))
      /\ z \in Nat /\ y \in Nat /\ z < y /\ z \in Int
      /\ b \in Starts(s) /\ b \in Int /\ b > z /\ b <= y
  <2>1. z \in Nat /\ y \in Nat /\ z < y /\ z \in Int
    BY DEF Span
  <2>2. b \in Nat \ {0} /\ b > z /\ b <= y /\ b \in Starts(s)
    BY SpanIs
  <2>3. /\ \A i \in Starts(s) : i \in Int /\ (i <= y => i <= z \/ i = b)
        /\ MessageAt(s, b) = parseMsg(Between(s, z, y))
    BY SpanIs
  <2> QED BY <2>1, <2>2, <2>3
<1>2. MessageAt(s, b) = <<m>>
  BY <1>1
<1> HIDE DEF b
<1>3. b \in Received(s)
  <2>1. m \in ToSet(<<m>>)
    BY DEF ToSet
  <2>2. m.function = Post
    BY DEF Msgs
  <2> QED BY <1>1, <1>2, <2>1, <2>2 DEF Received
<1>4. ReceivedTo(s, y) = ReceivedTo(s, z) \cup {b}
  <2>1. ASSUME NEW i \in Received(s) PROVE i <= y <=> i <= z \/ i = b
    <3>1. i \in Starts(s)
      BY DEF Received
    <3>2. i \in Int /\ (i <= y => i <= z \/ i = b)
      BY <1>1, <3>1
    <3> QED BY <1>1, <3>2
  <2>2. ASSUME NEW i PROVE i \in ReceivedTo(s, y) <=> i \in ReceivedTo(s, z) \cup {b}
    <3>1. i \in ReceivedTo(s, y) <=> i \in Received(s) /\ i <= y
      BY DEF ReceivedTo
    <3>2. i \in ReceivedTo(s, z) <=> i \in Received(s) /\ i <= z
      BY DEF ReceivedTo
    <3>3. CASE i \in Received(s)
      BY <2>1, <3>1, <3>2, <3>3
    <3>4. CASE i \notin Received(s)
      BY <1>3, <3>1, <3>2, <3>4
    <3> QED BY <3>3, <3>4
  <2> QED BY <2>2
<1>5. ReceivedTo(s, z) \subseteq Int
  BY <1>1 DEF ReceivedTo, Received
<1> QED BY <1>1, <1>2, <1>4, <1>5, RecFound

\* What the caller gets in the modes that look for a magic number.
Found(v) == v = <<>> \/ \E m \in Msgs : Readable(m) /\ v = <<m>>

\* To handle a message is to append it.
LEMMA FoundAdds ==
  ASSUME NEW m \in Msgs, NEW hh \in Seq(Got)
  PROVE  Adds(hh, m, hh \o <<m>>)
<1>1. m \in Got
  BY MsgsAreGot
<1>2. hh \o <<m>> = Append(hh, m)
  BY <1>1, AppendIsConcat
<1> QED BY <1>1, <1>2 DEF Adds

\* When the next magic number is in the file, what lies before it has been found.
LEMMA Close ==
  ASSUME NEW s \in Seq(Nat), NEW z, NEW y, Span(s, z, y), NEW v, Found(v),
         parseMsg(Between(s, z, y)) = v,
         NEW hh \in Seq(Got), NEW k \in Int, Rec(s, z, hh, k)
  PROVE  Rec(s, y, hh \o v, k)
<1>1. CASE v = <<>>
  <2>1. ToSet(v) = {}
    BY <1>1 DEF ToSet
  <2>2. Rec(s, y, hh, k)
    BY <2>1, CloseOther DEF NoPost
  <2>3. hh \o v = hh
    BY <1>1, ConcatEmptySeq
  <2> QED BY <2>2, <2>3
<1>2. CASE v # <<>>
  <2>1. PICK m \in Msgs : Readable(m) /\ v = <<m>>
    BY <1>2 DEF Found
  <2>2. Adds(hh, m, hh \o <<m>>)
    BY FoundAdds
  <2> DEFINE new == hh \o <<m>>
  <2>3. Adds(hh, m, new) /\ new = hh \o v
    BY <2>1, <2>2
  <2> HIDE DEF new
  <2>4. Rec(s, y, new, k)
    BY <2>1, <2>3, CloseFound
  <2> QED BY <2>3, <2>4
<1> QED BY <1>1, <1>2

\* One message more, lost or not, when there is room for a loss.
LEMMA LoseOne ==
  ASSUME NEW s, NEW z, NEW v, Found(v), NEW hh \in Seq(Got),
         NEW k \in Int, NEW l \in Int, k < l, Rec(s, z, hh, k)
  PROVE  Rec(s, z, hh \o v, l)
<1>1. CASE v = <<>>
  <2>1. hh \o v = hh /\ k <= l
    BY <1>1, ConcatEmptySeq
  <2> QED BY <2>1, RecMore
<1>2. CASE v # <<>>
  <2>1. PICK m \in Msgs : Readable(m) /\ v = <<m>>
    BY <1>2 DEF Found
  <2>2. Adds(hh, m, hh \o <<m>>)
    BY FoundAdds
  <2> DEFINE new == hh \o <<m>>
             k1 == k + 1
  <2>3. Adds(hh, m, new) /\ new = hh \o v
    BY <2>1, <2>2
  <2>4. k1 = k + 1 /\ k1 \in Int /\ k1 <= l
    OBVIOUS
  <2> HIDE DEF new, k1
  <2>5. Rec(s, z, new, k1)
    BY <2>3, <2>4, RecLost
  <2>6. new \in Seq(Got)
    BY <2>3, OneMore
  <2>7. Rec(s, z, new, l)
    BY <2>4, <2>5, <2>6, RecMore
  <2> QED BY <2>3, <2>7
<1> QED BY <1>1, <1>2

\* Before the first magic number the program has received nothing.
LEMMA NothingBefore ==
  ASSUME NEW s \in Seq(Nat), NEW y \in Int, \A g \in Int : g < y => ~MagicAt(s, g),
         NEW k \in Nat
  PROVE  Rec(s, y, <<>>, k)
<1>1. Len(Magic) \in Nat \ {0} /\ Len(s) \in Nat
  BY MagicIsBytes, LenProperties
<1>2. ASSUME NEW i \in ReceivedTo(s, y) PROVE FALSE
  <2>1. i \in Int /\ i \in Starts(s) /\ i <= y
    BY <1>1 DEF ReceivedTo, Received, Starts
  <2>2. MagicAt(s, i - Len(Magic))
    BY <2>1, StartsAre
  <2>3. i - Len(Magic) \in Int /\ i - Len(Magic) < y
    BY <1>1, <2>1
  <2> QED BY <2>2, <2>3
<1> QED BY <1>2, RecEmpty

\* The first bytes of what follows position c.
LEMMA SegmentOf ==
  ASSUME NEW t, NEW c, NEW v, After(t, c, v), NEW l \in Nat, l <= Len(v)
  PROVE  SubSeq(t, c + 1, c + l) = SubSeq(v, 1, l)
<1> DEFINE i == c + 1
           j == c + l
           a == SubSeq(t, i, j)
           b == SubSeq(v, 1, l)
<1>1. /\ t \in Seq(Nat) /\ v \in Seq(Nat) /\ c \in Nat
      /\ Len(t) \in Nat /\ Len(v) \in Nat /\ Len(t) = c + Len(v)
      /\ \A n \in 1 .. Len(v) : v[n] = t[c + n]
  BY DEF After
<1>2. i \in Int /\ j \in Int /\ 1 <= i /\ i <= j + 1 /\ j <= Len(t) /\ j - i + 1 = l /\ i = c + 1
  BY <1>1
<1> HIDE DEF i, j
<1>3. a \in Seq(Nat) /\ Len(a) = j - i + 1 /\ \A n \in 1 .. j - i + 1 : a[n] = t[i + n - 1]
  BY <1>1, <1>2, PartOf
<1>4. b \in Seq(Nat) /\ Len(b) = l /\ \A n \in 1 .. l : b[n] = v[n]
  BY <1>1, FirstPart
<1> HIDE DEF a, b
<1>5. ASSUME NEW n \in 1 .. Len(a) PROVE a[n] = b[n]
  <2>1. n \in 1 .. j - i + 1 /\ n \in 1 .. l /\ n \in 1 .. Len(v) /\ i + n - 1 = c + n
    BY <1>1, <1>2, <1>3
  <2> QED BY <1>1, <1>3, <1>4, <2>1
<1>6. a = b
  BY <1>2, <1>3, <1>4, <1>5, SeqEqual
<1> QED BY <1>6 DEF a, b, i, j

\* One byte more.
Grows(t, b, u) == t \in Seq(Nat) /\ b \in Nat /\ u = Append(t, b)

\* What it is to read one byte more.
LEMMA GrowsIs ==
  ASSUME NEW t, NEW b, NEW u, Grows(t, b, u)
  PROVE  /\ Extends(t, <<b>>, u) /\ u \in Seq(Nat) /\ t \in Seq(Nat)
         /\ Len(t) \in Nat /\ Len(u) = Len(t) + 1
         /\ u[Len(t) + 1] = b
<1>1. t \in Seq(Nat) /\ b \in Nat /\ u = Append(t, b)
  BY DEF Grows
<1>2. /\ u \in Seq(Nat) /\ Len(u) = Len(t) + 1 /\ u[Len(t) + 1] = b
      /\ \A i \in 1 .. Len(t) : u[i] = t[i]
  BY <1>1, AppendProperties
<1>3. u = t \o <<b>>
  BY <1>1, AppendIsConcat
<1>4. <<b>> \in Seq(Nat)
  BY <1>1
<1>5. Extends(t, <<b>>, u)
  BY <1>1, <1>3, <1>4, ExtendsJoin
<1> QED BY <1>1, <1>2, <1>5, LenProperties

\* A byte read and recorded: the two still end alike.
LEMMA AfterMore ==
  ASSUME NEW t, NEW c, NEW v, After(t, c, v), NEW b, NEW u, NEW w, Grows(t, b, u), Grows(v, b, w)
  PROVE  After(u, c, w)
<1>1. /\ t \in Seq(Nat) /\ v \in Seq(Nat) /\ c \in Nat
      /\ Len(t) \in Nat /\ Len(v) \in Nat /\ Len(t) = c + Len(v)
      /\ \A i \in 1 .. Len(v) : v[i] = t[c + i]
  BY DEF After
<1>6. /\ u \in Seq(Nat) /\ Len(u) = Len(t) + 1 /\ u[Len(t) + 1] = b /\ Extends(t, <<b>>, u)
      /\ w \in Seq(Nat) /\ Len(w) = Len(v) + 1 /\ w[Len(v) + 1] = b /\ Extends(v, <<b>>, w)
  BY GrowsIs
<1>2. \A i \in 1 .. Len(t) : u[i] = t[i]
  BY <1>6 DEF Extends
<1>3. \A i \in 1 .. Len(v) : w[i] = v[i]
  BY <1>6 DEF Extends
<1>4. Len(u) \in Nat /\ Len(w) \in Nat /\ Len(u) = c + Len(w)
  BY <1>1, <1>6
<1>5. ASSUME NEW i \in 1 .. Len(w) PROVE w[i] = u[c + i]
  <2>1. CASE i = Len(v) + 1
    <3>1. c + i = Len(t) + 1
      BY <1>1, <2>1
    <3> QED BY <1>6, <2>1, <3>1
  <2>2. CASE i # Len(v) + 1
    <3>1. i \in 1 .. Len(v) /\ c + i \in 1 .. Len(t)
      BY <1>1, <1>6, <2>2
    <3> QED BY <1>1, <1>2, <1>3, <3>1
  <2> QED BY <2>1, <2>2
<1> QED BY <1>1, <1>4, <1>5, <1>6 DEF After

\* After the end there is nothing.
LEMMA AfterAll ==
  ASSUME NEW t \in Seq(Nat), NEW c, c = Len(t)
  PROVE  After(t, c, <<>>)
<1>1. Len(t) \in Nat /\ Len(<<>>) = 0 /\ <<>> \in Seq(Nat) /\ Len(t) = Len(t) + 0
  BY LenProperties
<1> QED BY <1>1 DEF After

\* The other way round than MagicLeft.
LEMMA MagicOn ==
  ASSUME NEW t, NEW c, NEW v, After(t, c, v), NEW i \in Int, MagicAt(v, i)
  PROVE  MagicAt(t, c + i)
<1> DEFINE L == Len(Magic)
<1>1. /\ c \in Nat /\ Len(t) \in Nat /\ Len(v) \in Nat /\ Len(t) = c + Len(v) /\ L \in Nat
      /\ i >= 1 /\ i + L - 1 <= Len(v)
  BY MagicIsBytes DEF After, MagicAt
<1>2. ASSUME NEW j \in 1 .. L PROVE t[(c + i) + j - 1] = Magic[j]
  <2>1. i + j - 1 \in 1 .. Len(v) /\ c + (i + j - 1) = (c + i) + j - 1
    BY <1>1
  <2>2. v[i + j - 1] = Magic[j]
    BY DEF MagicAt
  <2>3. v[i + j - 1] = t[c + (i + j - 1)]
    BY <2>1 DEF After
  <2> QED BY <2>1, <2>2, <2>3
<1>3. c + i >= 1 /\ (c + i) + L - 1 <= Len(t)
  BY <1>1
<1> QED BY <1>2, <1>3 DEF MagicAt

\* What has been read after the magic number at z ends before the q-th byte of it.
StopsAt(m, q) == /\ q \in Nat \ {0} /\ q <= Len(m) + 1 /\ FirstAt(m, q)
                 /\ q = Len(m) + 1 \/ MagicAt(m, q)

\* What has been read of the message stands in the record file up to its end.
LEMMA LiveSpan ==
  ASSUME NEW r \in Seq(Nat), NEW z \in Nat \ {0}, MagicAt(r, z),
         NEW m, After(r, MagicEnd(z), m), NEW q, StopsAt(m, q)
  PROVE  /\ Span(r, z, MagicEnd(z) + q)
         /\ Between(r, z, MagicEnd(z) + q) = SubSeq(m, 1, q - 1)
<1> DEFINE L == Len(Magic)
           c == MagicEnd(z)
           y == c + q
<1>1. L \in Nat \ {0} /\ c = z + L - 1 /\ c \in Nat
  BY MagicIsBytes DEF MagicEnd
<1>2. /\ q \in Nat \ {0} /\ q <= Len(m) + 1 /\ FirstAt(m, q)
      /\ q = Len(m) + 1 \/ MagicAt(m, q)
  BY DEF StopsAt
<1>3. Len(r) \in Nat /\ Len(m) \in Nat /\ Len(r) = c + Len(m)
  BY DEF After
<1> HIDE DEF L, c
<1>4. y = Len(r) + 1 \/ MagicAt(r, y)
  <2>1. CASE q = Len(m) + 1
    BY <1>3, <1>1, <2>1
  <2>2. CASE MagicAt(m, q)
    <3>1. q \in Int
      BY <1>2
    <3> QED BY <2>2, <3>1, MagicOn DEF c
  <2> QED BY <1>2, <2>1, <2>2
<1>5. ASSUME NEW g \in Int, z < g, g < y, MagicAt(r, g) PROVE FALSE
  <2>1. z + L <= g
    BY <1>5, MagicApart DEF L
  <2>2. g > c /\ g - c \in 1 .. q - 1
    BY <1>1, <1>2, <1>5, <2>1
  <2>3. MagicAt(m, g - c)
    BY <1>5, <2>2, MagicLeft DEF c
  <2> QED BY <1>2, <2>2, <2>3 DEF FirstAt
<1>6. z < y /\ y \in Nat
  BY <1>1, <1>2
<1> DEFINE l == q - 1
<1>7. l \in Nat /\ l <= Len(m) /\ c + 1 = z + L /\ c + l = y - 1
  BY <1>1, <1>2, <1>3
<1> HIDE DEF l, y
<1>8. SubSeq(r, c + 1, c + l) = SubSeq(m, 1, l)
  BY <1>7, SegmentOf DEF c
<1>9. SubSeq(r, z + L, (c + q) - 1) = SubSeq(m, 1, l)
  BY <1>7, <1>8 DEF y
<1>10. Span(r, z, y)
  BY <1>4, <1>5, <1>6 DEF Span
<1>11. Span(r, z, MagicEnd(z) + q)
  BY <1>10 DEF y, c
<1>12. Between(r, z, MagicEnd(z) + q) = SubSeq(m, 1, q - 1)
  <2>1. l = q - 1 /\ L = Len(Magic) /\ c = MagicEnd(z)
    BY DEF l, L, c
  <2> QED BY <1>9, <2>1 DEF Between
<1> QED BY <1>11, <1>12

\* After the magic number at z the program has recorded what it sent, up to e, and then
\* w, which is also what follows the first l bytes of what it had read.
Apart(r, m, z, e, l, w) ==
  /\ z \in Nat \ {0} /\ e \in Nat /\ z + Len(Magic) <= e
  /\ MagicAt(r, z) /\ After(r, e, w) /\ After(m, l, w)
  /\ r[z + Len(Magic)] \div 10 # Post
  /\ \A t \in z + 1 .. e : r[t] # Magic[1]

\* With something sent in between, what stands there is that, and no message received.
LEMMA ApartSpan ==
  ASSUME NEW r \in Seq(Nat), NEW m, NEW z, NEW e, NEW l, NEW w, Apart(r, m, z, e, l, w),
         NEW q, StopsAt(m, q), l < q
  PROVE  /\ Span(r, z, e + (q - l))
         /\ NoPost(parseMsg(Between(r, z, e + (q - l))))
<1> DEFINE L == Len(Magic)
           y == e + (q - l)
           b == z + L
<1>1. /\ z \in Nat \ {0} /\ e \in Nat /\ z + L <= e
      /\ MagicAt(r, z) /\ After(r, e, w) /\ After(m, l, w)
      /\ r[b] \div 10 # Post
      /\ \A t \in z + 1 .. e : r[t] # Magic[1]
  BY DEF Apart
<1>2. /\ L \in Nat \ {0} /\ l \in Nat
      /\ Len(r) \in Nat /\ Len(m) \in Nat /\ Len(w) \in Nat
      /\ Len(r) = e + Len(w) /\ Len(m) = l + Len(w)
  BY <1>1, MagicIsBytes DEF After
<1>3. /\ q \in Nat \ {0} /\ q <= Len(m) + 1 /\ FirstAt(m, q)
      /\ q = Len(m) + 1 \/ MagicAt(m, q)
  BY DEF StopsAt
<1> HIDE DEF L, y, b
<1>4. y = e + (q - l) /\ q - l \in Nat \ {0} /\ y \in Nat /\ y <= Len(r) + 1 /\ z < y /\ y > e
  BY <1>1, <1>2, <1>3 DEF y
<1>5. y = Len(r) + 1 \/ MagicAt(r, y)
  <2>1. CASE q = Len(m) + 1
    BY <1>1, <1>2, <1>4, <2>1
  <2>2. CASE MagicAt(m, q)
    <3> DEFINE i == q - l
    <3>1. q \in Int /\ q > l /\ i \in Int /\ y = e + i
      BY <1>2, <1>3, <1>4
    <3>2. MagicAt(w, q - l)
      BY <1>1, <2>2, <3>1, MagicLeft
    <3>3. MagicAt(w, i)
      BY <3>2
    <3> HIDE DEF i
    <3>4. MagicAt(r, e + i)
      BY <1>1, <3>1, <3>3, MagicOn
    <3> QED BY <3>1, <3>4
  <2> QED BY <1>3, <2>1, <2>2
<1>6. ASSUME NEW g \in Int, z < g, g < y, MagicAt(r, g) PROVE FALSE
  <2>1. CASE g <= e
    <3>1. g \in z + 1 .. e /\ 1 \in 1 .. L /\ g + 1 - 1 = g
      BY <1>1, <1>2, <1>6, <2>1
    <3>2. r[g + 1 - 1] = Magic[1]
      BY <1>6, <3>1 DEF MagicAt, L
    <3> QED BY <1>1, <3>1, <3>2
  <2>2. CASE g > e
    <3>1. MagicAt(w, g - e)
      BY <1>1, <1>6, <2>2, MagicLeft
    <3> DEFINE i == g - e
    <3>2. i \in Int /\ l + i \in 1 .. q - 1
      BY <1>1, <1>2, <1>3, <1>4, <1>6, <2>2
    <3>3. MagicAt(w, i)
      BY <3>1
    <3> HIDE DEF i
    <3>4. MagicAt(m, l + i)
      BY <1>1, <3>2, <3>3, MagicOn
    <3> QED BY <1>3, <3>2, <3>4 DEF FirstAt
  <2> QED BY <1>1, <1>6, <2>1, <2>2
<1>7. Span(r, z, y)
  BY <1>1, <1>4, <1>5, <1>6 DEF Span
<1>8. \A x \in ToSet(parseMsg(SubSeq(r, b, y - 1))) : x.function # Post
  <2> DEFINE c == b - 1
             v == SubSeq(r, b, Len(r))
             n == y - b
  <2>n. b = z + L
    BY DEF b
  <2>c. c = b - 1 /\ n = y - b
    OBVIOUS
  <2> HIDE DEF c, n, v
  <2>r. /\ z \in Nat /\ z >= 1 /\ L \in Nat /\ L >= 1 /\ e \in Nat /\ y \in Nat /\ Len(r) \in Nat
        /\ z + L <= e /\ e < y /\ y <= Len(r) + 1
    BY <1>1, <1>2, <1>4
  <2>1. /\ c \in Nat /\ b \in Nat \ {0} /\ b = c + 1 /\ b <= Len(r) /\ n \in Nat
        /\ y - 1 = c + n /\ n <= Len(r) - c /\ n >= 1 /\ b \in Int /\ Len(r) \in Int /\ 1 <= b
    BY <2>n, <2>c, <2>r
  <2>2. /\ v \in Seq(Nat) /\ Len(v) = Len(r) - b + 1
        /\ \A k \in 1 .. Len(r) - b + 1 : v[k] = r[b + k - 1]
    <3> DEFINE N == Len(r)
    <3>1. b \in Int /\ N \in Int /\ 1 <= b /\ b <= N + 1 /\ N <= Len(r)
      BY <2>1
    <3> HIDE DEF N
    <3>2. /\ SubSeq(r, b, N) \in Seq(Nat) /\ Len(SubSeq(r, b, N)) = N - b + 1
          /\ \A k \in 1 .. N - b + 1 : SubSeq(r, b, N)[k] = r[b + k - 1]
      BY <3>1, PartOf
    <3> QED BY <3>2 DEF N, v
  <2>3. Len(v) = Len(r) - c /\ Len(v) \in Nat /\ Len(r) = c + Len(v) /\ 1 \in 1 .. Len(r) - b + 1
    <3>1. Len(v) = Len(r) - b + 1
      BY <2>2
    <3> QED BY <2>1, <2>r, <3>1
  <2>4. ASSUME NEW k \in 1 .. Len(v) PROVE v[k] = r[c + k]
    <3>1. b + k - 1 = c + k /\ k \in 1 .. Len(r) - b + 1
      BY <1>2, <2>1, <2>2
    <3> QED BY <2>2, <3>1
  <2>5. After(r, c, v)
    BY <1>2, <2>1, <2>2, <2>3, <2>4 DEF After
  <2>6. v[1] = r[b]
    <3>1. b + 1 - 1 = b
      BY <2>1
    <3> QED BY <2>2, <2>3, <3>1
  <2>7. n \in Nat /\ n <= Len(v)
    BY <2>1, <2>3
  <2>8. SubSeq(r, c + 1, c + n) = SubSeq(v, 1, n)
    BY <2>5, <2>7, SegmentOf
  <2>9. v[1] \div 10 # Post
    BY <1>1, <2>6
  <2>10. \A x \in ToSet(parseMsg(SubSeq(v, 1, n))) : x.function # Post
    BY <2>2, <2>7, <2>9, ParseOther
  <2> QED BY <2>1, <2>8, <2>10
<1>9. Span(r, z, e + (q - l))
  BY <1>7 DEF y
<1>10. NoPost(parseMsg(Between(r, z, e + (q - l))))
  <2>1. y = e + (q - l) /\ b = z + Len(Magic)
    BY DEF y, b, L
  <2> QED BY <1>8, <2>1 DEF NoPost, Between
<1> QED BY <1>9, <1>10

\* The record file ends with what has been read since the magic number at z, and gives
\* the messages that have been handled, all but as many as k says.
Live(r, m, hh, k) ==
  \E z \in Nat \ {0} : MagicAt(r, z) /\ After(r, MagicEnd(z), m) /\ Rec(r, z, hh, k)

\* Something was sent when j bytes had been read of the message, and the last thing when
\* l were: what those bytes are, m loses or has lost.
OwesAt(r, z, m, l, hh, k, j, c) ==
  /\ j \in Nat /\ j <= l /\ c \in Nat \ {0}
  /\ parseMsg(SubSeq(m, 1, j)) = <<>> /\ j # l => c >= 2
  /\ Rec(r, z, hh \o parseMsg(SubSeq(m, 1, j)), k - c)

\* So much is owed that whatever m turns out to be is paid for.
Owes(r, z, m, l, hh, k) == \E j, c : OwesAt(r, z, m, l, hh, k, j, c)

\* Something that the program has sent was recorded between the bytes of the message.
Dead(r, m, hh, k) ==
  \E z, e, l, w : Apart(r, m, z, e, l, w) /\ Owes(r, z, m, l, hh, k)

\* A longer file settles what begins at a magic number.
LEMMA GrowsSettled ==
  ASSUME NEW t, NEW b, NEW u, Grows(t, b, u), NEW z \in Nat \ {0}, MagicAt(t, z)
  PROVE  MagicAt(u, z) /\ Settled(t, u, z)
<1>1. Extends(t, <<b>>, u)
  BY GrowsIs
<1>2. MagicAt(u, z)
  BY <1>1, MagicKept
<1> QED BY <1>2 DEF Settled

\* Live is kept by a byte that is read and recorded.
LEMMA LiveGrows ==
  ASSUME NEW r, NEW m, NEW b, NEW r2, NEW m2, Grows(r, b, r2), Grows(m, b, m2),
         NEW hh, NEW k, Live(r, m, hh, k)
  PROVE  Live(r2, m2, hh, k)
<1>1. PICK z \in Nat \ {0} : MagicAt(r, z) /\ After(r, MagicEnd(z), m) /\ Rec(r, z, hh, k)
  BY DEF Live
<1>2. MagicAt(r2, z) /\ Settled(r, r2, z)
  BY <1>1, GrowsSettled
<1>3. After(r2, MagicEnd(z), m2)
  BY <1>1, AfterMore
<1>4. Extends(r, <<b>>, r2)
  BY GrowsIs
<1>5. Rec(r2, z, hh, k)
  BY <1>1, <1>2, <1>4, RecKept
<1> QED BY <1>2, <1>3, <1>5 DEF Live

\* The types of what has been sent in between.
LEMMA ApartIs ==
  ASSUME NEW r, NEW m, NEW z, NEW e, NEW l, NEW w, Apart(r, m, z, e, l, w)
  PROVE  /\ z \in Nat \ {0} /\ e \in Nat /\ l \in Nat /\ z + Len(Magic) <= e
         /\ r \in Seq(Nat) /\ m \in Seq(Nat) /\ w \in Seq(Nat)
         /\ Len(r) \in Nat /\ Len(m) \in Nat /\ Len(w) \in Nat
         /\ Len(r) = e + Len(w) /\ Len(m) = l + Len(w)
         /\ e <= Len(r) /\ l <= Len(m)
         /\ MagicAt(r, z) /\ Len(Magic) \in Nat \ {0}
<1>1. /\ z \in Nat \ {0} /\ e \in Nat /\ z + Len(Magic) <= e
      /\ MagicAt(r, z) /\ After(r, e, w) /\ After(m, l, w)
  BY DEF Apart
<1>2. /\ r \in Seq(Nat) /\ m \in Seq(Nat) /\ w \in Seq(Nat) /\ l \in Nat
      /\ Len(r) \in Nat /\ Len(m) \in Nat /\ Len(w) \in Nat
      /\ Len(r) = e + Len(w) /\ Len(m) = l + Len(w)
  BY <1>1 DEF After
<1>3. e <= Len(r) /\ l <= Len(m)
  BY <1>1, <1>2
<1> QED BY <1>1, <1>2, <1>3, MagicIsBytes

\* Apart is kept by a byte that is read and recorded.
LEMMA ApartGrows ==
  ASSUME NEW r, NEW m, NEW z, NEW e, NEW l, NEW w, Apart(r, m, z, e, l, w),
         NEW b, NEW r2, NEW m2, Grows(r, b, r2), Grows(m, b, m2)
  PROVE  \E w2 : Grows(w, b, w2) /\ Apart(r2, m2, z, e, l, w2)
<1> DEFINE w2 == Append(w, b)
<1>1. /\ z \in Nat \ {0} /\ e \in Nat /\ z + Len(Magic) <= e
      /\ MagicAt(r, z) /\ After(r, e, w) /\ After(m, l, w)
      /\ r[z + Len(Magic)] \div 10 # Post
      /\ \A t \in z + 1 .. e : r[t] # Magic[1]
  BY DEF Apart
<1>2. w \in Seq(Nat) /\ e <= Len(r) /\ Len(Magic) \in Nat \ {0} /\ Len(r) \in Nat
  BY ApartIs
<1>3. Grows(w, b, w2)
  BY <1>2 DEF Grows
<1> HIDE DEF w2
<1>4. After(r2, e, w2) /\ After(m2, l, w2)
  BY <1>1, <1>3, AfterMore
<1>5. Extends(r, <<b>>, r2)
  BY GrowsIs
<1>6. \A t \in 1 .. Len(r) : r2[t] = r[t]
  BY <1>5 DEF Extends
<1>7. MagicAt(r2, z)
  BY <1>1, GrowsSettled
<1>8. r2[z + Len(Magic)] = r[z + Len(Magic)]
  <2>1. z + Len(Magic) \in 1 .. Len(r)
    BY <1>1, <1>2
  <2> QED BY <1>6, <2>1
<1>9. ASSUME NEW t \in z + 1 .. e PROVE r2[t] # Magic[1]
  <2>1. t \in 1 .. Len(r)
    BY <1>1, <1>2
  <2> QED BY <1>1, <1>6, <2>1
<1>10. Apart(r2, m2, z, e, l, w2)
  BY <1>1, <1>4, <1>7, <1>8, <1>9 DEF Apart
<1> QED BY <1>3, <1>10

\* What is owed does not change with a byte.
LEMMA OwesGrows ==
  ASSUME NEW r, NEW m, NEW z, NEW e, NEW l, NEW w, Apart(r, m, z, e, l, w),
         NEW b, NEW r2, NEW m2, Grows(r, b, r2), Grows(m, b, m2),
         NEW hh, NEW k, NEW j, NEW c, OwesAt(r, z, m, l, hh, k, j, c)
  PROVE  OwesAt(r2, z, m2, l, hh, k, j, c) /\ j <= Len(m)
<1>1. /\ j \in Nat /\ j <= l /\ c \in Nat \ {0}
      /\ parseMsg(SubSeq(m, 1, j)) = <<>> /\ j # l => c >= 2
      /\ Rec(r, z, hh \o parseMsg(SubSeq(m, 1, j)), k - c)
  BY DEF OwesAt
<1>2. l \in Nat /\ l <= Len(m) /\ Len(m) \in Nat /\ z \in Nat \ {0} /\ MagicAt(r, z)
  BY ApartIs
<1>3. Extends(m, <<b>>, m2) /\ Extends(r, <<b>>, r2)
  BY GrowsIs
<1>4. SubSeq(m, 1, j) = SubSeq(m2, 1, j)
  <2>1. 1 \in Nat \ {0} /\ j \in Nat /\ 1 <= j + 1 /\ j <= Len(m)
    BY <1>1, <1>2
  <2> QED BY <1>3, <2>1, SamePart
<1>5. Settled(r, r2, z)
  BY <1>2, GrowsSettled
<1> DEFINE v == hh \o parseMsg(SubSeq(m, 1, j))
           n == k - c
<1>6. Rec(r, z, v, n) /\ z \in Nat
  BY <1>1, <1>2
<1> HIDE DEF v, n
<1>7. Rec(r2, z, v, n)
  BY <1>3, <1>5, <1>6, RecKept
<1>8. Rec(r2, z, hh \o parseMsg(SubSeq(m2, 1, j)), k - c)
  BY <1>4, <1>7 DEF v, n
<1>9. j <= Len(m)
  BY <1>1, <1>2
<1> QED BY <1>1, <1>4, <1>8, <1>9 DEF OwesAt

\* Dead is kept by a byte that is read and recorded.
LEMMA DeadGrows ==
  ASSUME NEW r, NEW m, NEW b, NEW r2, NEW m2, Grows(r, b, r2), Grows(m, b, m2),
         NEW hh, NEW k, Dead(r, m, hh, k)
  PROVE  Dead(r2, m2, hh, k)
<1>1. PICK z, e, l, w : Apart(r, m, z, e, l, w) /\ Owes(r, z, m, l, hh, k)
  BY DEF Dead
<1>2. PICK j, c : OwesAt(r, z, m, l, hh, k, j, c)
  BY <1>1 DEF Owes
<1>3. PICK w2 : Apart(r2, m2, z, e, l, w2)
  BY <1>1, ApartGrows
<1>4. OwesAt(r2, z, m2, l, hh, k, j, c)
  BY <1>1, <1>2, OwesGrows
<1> QED BY <1>3, <1>4 DEF Dead, Owes

\* Whatever the first bytes of m are as a message is what they will be.
Agrees(m, n, p) ==
  \A j \in Nat : j <= n /\ parseMsg(SubSeq(m, 1, j)) # <<>> => parseMsg(SubSeq(m, 1, j)) = p

\* What has been handled, with the message found or without one.
LEMMA FoundGot ==
  ASSUME NEW p, Found(p), NEW hh \in Seq(Got)
  PROVE  hh \o p \in Seq(Got) /\ hh \o <<>> = hh
<1>1. hh \o <<>> = hh
  BY ConcatEmptySeq
<1>2. ASSUME NEW m \in Msgs, p = <<m>> PROVE hh \o p \in Seq(Got)
  <2>1. <<m>> \in Seq(Got)
    BY MsgsAreGot
  <2> QED BY <1>2, <2>1, ConcatProperties
<1> QED BY <1>1, <1>2 DEF Found

\* What was lost is paid for once, when the message is handled.
LEMMA Pays ==
  ASSUME NEW r, NEW z, NEW m, NEW l, NEW hh \in Seq(Got), NEW k \in Int, NEW j, NEW c,
         OwesAt(r, z, m, l, hh, k, j, c),
         NEW n, j <= n, NEW p, Found(p), Agrees(m, n, p)
  PROVE  /\ Rec(r, z, hh \o p, k)
         /\ \/ j = l /\ parseMsg(SubSeq(m, 1, j)) = <<>> /\ p # <<>>
            \/ \E d \in Nat \ {0} : Rec(r, z, hh \o p, k - d)
<1> DEFINE v == parseMsg(SubSeq(m, 1, j))
           i == k - c
           i1 == k - 1
<1>1. /\ j \in Nat /\ j <= l /\ c \in Nat \ {0}
      /\ v = <<>> /\ j # l => c >= 2
      /\ Rec(r, z, hh \o v, i)
  BY DEF OwesAt
<1>2. v # <<>> => v = p
  BY <1>1 DEF Agrees
<1>3. hh \o p \in Seq(Got) /\ hh \o <<>> = hh
  BY FoundGot
<1>4. i \in Int /\ i < k /\ i <= k /\ i1 \in Int /\ (c >= 2 => i < i1) /\ i = k - c /\ i1 = k - 1
  BY <1>1
<1> HIDE DEF v, i, i1
<1>5. CASE v # <<>>
  <2>1. Rec(r, z, hh \o p, i)
    BY <1>1, <1>2, <1>5
  <2> DEFINE new == hh \o p
  <2>2. Rec(r, z, new, i) /\ new \in Seq(Got)
    BY <1>3, <2>1
  <2> HIDE DEF new
  <2>3. Rec(r, z, new, k)
    BY <1>4, <2>2, RecMore
  <2>4. Rec(r, z, hh \o p, k)
    BY <2>3 DEF new
  <2> QED BY <1>1, <1>4, <2>1, <2>4
<1>6. CASE v = <<>>
  <2>1. Rec(r, z, hh, i)
    BY <1>1, <1>3, <1>6
  <2>2. Rec(r, z, hh \o p, k)
    BY <1>4, <2>1, LoseOne
  <2>3. CASE j # l
    <3>1. Rec(r, z, hh \o p, i1)
      BY <1>1, <1>4, <1>6, <2>1, <2>3, LoseOne
    <3>2. 1 \in Nat \ {0} /\ Rec(r, z, hh \o p, k - 1)
      BY <1>4, <3>1
    <3> QED BY <2>2, <3>2
  <2>4. CASE j = l /\ p = <<>>
    <3>1. Rec(r, z, hh \o p, k - c)
      BY <1>1, <1>4, <1>6, <2>4
    <3> QED BY <1>1, <2>2, <3>1
  <2> QED BY <1>6, <2>2, <2>3, <2>4 DEF v
<1> QED BY <1>5, <1>6

\* A message ends with the magic number that has been read last.
Ended(m, q) == StopsAt(m, q) /\ MagicAt(m, q) /\ MagicEnd(q) = Len(m)

\* A message ends with the magic number: the record file gives it too, and goes on.
LEMMA LiveCut ==
  ASSUME NEW r \in Seq(Nat), NEW m, NEW hh \in Seq(Got), NEW k \in Int, Live(r, m, hh, k),
         NEW q, Ended(m, q), Found(parseMsg(SubSeq(m, 1, q - 1)))
  PROVE  Live(r, <<>>, hh \o parseMsg(SubSeq(m, 1, q - 1)), k)
<1> DEFINE p == parseMsg(SubSeq(m, 1, q - 1))
<1>1. PICK z \in Nat \ {0} : MagicAt(r, z) /\ After(r, MagicEnd(z), m) /\ Rec(r, z, hh, k)
  BY DEF Live
<1> DEFINE c == MagicEnd(z)
           y == c + q
<1>2. StopsAt(m, q) /\ MagicAt(m, q) /\ MagicEnd(q) = Len(m) /\ q \in Nat \ {0}
  BY DEF Ended, StopsAt
<1>3. After(r, c, m)
  BY <1>1
<1>4. /\ Span(r, z, MagicEnd(z) + q)
      /\ Between(r, z, MagicEnd(z) + q) = SubSeq(m, 1, q - 1)
  <2>1. StopsAt(m, q) /\ MagicAt(r, z) /\ After(r, MagicEnd(z), m)
    BY <1>1, <1>2
  <2> QED BY <2>1, LiveSpan
<1>5. /\ c \in Nat /\ Len(Magic) \in Nat \ {0} /\ Len(r) \in Nat /\ Len(m) \in Nat
      /\ Len(r) = c + Len(m) /\ q + Len(Magic) - 1 = Len(m)
  BY <1>2, <1>3, MagicIsBytes DEF After, MagicEnd
<1> HIDE DEF c, p
<1>6. y \in Nat \ {0} /\ c + q - 1 = y - 1 /\ y + Len(Magic) - 1 = Len(r)
  <2>1. q \in Nat \ {0}
    BY <1>2
  <2> QED BY <1>5, <2>1
<1>7. MagicAt(r, y)
  <2>1. q \in Int
    BY <1>2
  <2> QED BY <1>2, <1>3, <2>1, MagicOn
<1> HIDE DEF y
<1>8. MagicEnd(y) = Len(r)
  BY <1>6 DEF MagicEnd
<1>9. After(r, MagicEnd(y), <<>>)
  BY <1>8, AfterAll
<1>10. parseMsg(Between(r, z, y)) = p
  BY <1>4 DEF p, y, c
<1>11. Rec(r, y, hh \o p, k)
  <2>1. Found(p)
    BY DEF p
  <2>2. Span(r, z, y)
    BY <1>4 DEF y, c
  <2> QED BY <1>1, <1>10, <2>1, <2>2, Close
<1> QED BY <1>6, <1>7, <1>9, <1>11 DEF Live, p

\* Nothing has been read.
LEMMA EmptyAfter == After(<<>>, 0, <<>>) /\ <<>> \in Seq(Nat) /\ Len(<<>>) = 0
<1>1. <<>> \in Seq(Nat) /\ Len(<<>>) = 0
  OBVIOUS
<1> QED BY <1>1 DEF After

\* A message ends, with something sent in between: it is found or it is lost, which is paid.
LEMMA DeadCut ==
  ASSUME NEW r, NEW m, NEW b, NEW r2, NEW m2, Grows(r, b, r2), Grows(m, b, m2),
         NEW hh \in Seq(Got), NEW k \in Int, Dead(r, m, hh, k),
         NEW q, Ended(m2, q), NEW p, p = parseMsg(SubSeq(m2, 1, q - 1)), Found(p),
         Agrees(m2, Len(m), p)
  PROVE  Live(r2, <<>>, hh \o p, k) \/ Dead(r2, <<>>, hh \o p, k)
<1>1. PICK z, e, l, w : Apart(r, m, z, e, l, w) /\ Owes(r, z, m, l, hh, k)
  BY DEF Dead
<1>2. PICK j, c : OwesAt(r, z, m, l, hh, k, j, c)
  BY <1>1 DEF Owes
<1>3. PICK w2 : Apart(r2, m2, z, e, l, w2)
  BY <1>1, ApartGrows
<1>4. OwesAt(r2, z, m2, l, hh, k, j, c) /\ j <= Len(m)
  BY <1>1, <1>2, OwesGrows
<1>5. /\ z \in Nat \ {0} /\ e \in Nat /\ l \in Nat /\ z + Len(Magic) <= e
      /\ r2 \in Seq(Nat) /\ m2 \in Seq(Nat)
      /\ Len(r2) \in Nat /\ Len(m2) \in Nat /\ Len(w2) \in Nat
      /\ Len(r2) = e + Len(w2) /\ Len(m2) = l + Len(w2)
      /\ MagicAt(r2, z) /\ Len(Magic) \in Nat \ {0}
  BY <1>3, ApartIs
<1>6. /\ StopsAt(m2, q) /\ MagicAt(m2, q) /\ q + Len(Magic) - 1 = Len(m2)
      /\ q \in Nat \ {0} /\ q \in Int
  BY DEF Ended, StopsAt, MagicEnd
<1>7. /\ Rec(r2, z, hh \o p, k)
      /\ \/ j = l /\ parseMsg(SubSeq(m2, 1, j)) = <<>> /\ p # <<>>
         \/ \E d \in Nat \ {0} : Rec(r2, z, hh \o p, k - d)
  BY <1>4, Pays
<1>8. After(r2, e, w2) /\ After(m2, l, w2)
  BY <1>3 DEF Apart
<1>9. CASE l < q
  <2> DEFINE i == q - l
             y == e + i
  <2>1. Span(r2, z, y) /\ NoPost(parseMsg(Between(r2, z, y)))
    BY <1>3, <1>5, <1>6, <1>9, ApartSpan
  <2>2. i \in Int /\ i = q - l /\ i >= 1 /\ y = e + i
    BY <1>5, <1>6, <1>9
  <2>3. MagicAt(w2, i)
    <3>1. q \in Int /\ q > l /\ After(m2, l, w2) /\ MagicAt(m2, q)
      BY <1>5, <1>6, <1>8, <1>9
    <3> QED BY <3>1, MagicLeft
  <2> HIDE DEF i, y
  <2>4. MagicAt(r2, y)
    <3>1. MagicAt(r2, e + i)
      BY <1>8, <2>2, <2>3, MagicOn
    <3> QED BY <2>2, <3>1
  <2>5. y \in Nat \ {0} /\ y + Len(Magic) - 1 = Len(r2)
    <3>1. /\ e \in Nat /\ l \in Nat /\ q \in Nat /\ Len(Magic) \in Nat \ {0} /\ Len(w2) \in Nat
          /\ Len(r2) = e + Len(w2) /\ Len(m2) = l + Len(w2)
          /\ q + Len(Magic) - 1 = Len(m2)
      BY <1>5, <1>6
    <3> QED BY <2>2, <3>1
  <2>6. After(r2, MagicEnd(y), <<>>)
    <3>1. MagicEnd(y) = Len(r2)
      BY <2>5 DEF MagicEnd
    <3> QED BY <1>5, <3>1, AfterAll
  <2> DEFINE new == hh \o p
  <2>7. Rec(r2, z, new, k)
    BY <1>7
  <2> HIDE DEF new
  <2>8. Rec(r2, y, new, k)
    BY <1>5, <2>1, <2>7, CloseOther
  <2>9. Live(r2, <<>>, new, k)
    BY <2>4, <2>5, <2>6, <2>8 DEF Live
  <2> QED BY <2>9 DEF new
<1>10. CASE q <= l
  <2>1. PICK d \in Nat \ {0} : Rec(r2, z, hh \o p, k - d)
    <3>1. ASSUME j = l, parseMsg(SubSeq(m2, 1, j)) = <<>>, p # <<>> PROVE FALSE
      <4> DEFINE i == q - 1
      <4>1. i \in Nat /\ l \in Nat /\ i <= l /\ l <= Len(m2)
        BY <1>5, <1>6, <1>10
      <4>2. parseMsg(SubSeq(m2, 1, i)) # <<>>
        BY <3>1
      <4> HIDE DEF i
      <4>3. parseMsg(SubSeq(m2, 1, l)) = parseMsg(SubSeq(m2, 1, i))
        BY <1>5, <4>1, <4>2, ParseLonger
      <4> QED BY <3>1, <4>2, <4>3
    <3> QED BY <1>7, <3>1
  <2>2. r2[z + Len(Magic)] \div 10 # Post /\ \A t \in z + 1 .. e : r2[t] # Magic[1]
    BY <1>3 DEF Apart
  <2>3. ASSUME NEW t \in z + 1 .. Len(r2) PROVE r2[t] # Magic[1]
    <3>1. CASE t <= e
      <4>1. t \in z + 1 .. e
        BY <1>5, <3>1
      <4> QED BY <2>2, <4>1
    <3>2. CASE t > e
      <4> DEFINE i == t - e
                 n == (l + i) - q + 1
      <4>a. /\ e \in Nat /\ l \in Nat /\ q \in Nat /\ Len(Magic) \in Nat \ {0} /\ Len(w2) \in Nat
            /\ Len(r2) = e + Len(w2) /\ Len(m2) = l + Len(w2) /\ q <= l /\ t \in Int /\ t > e
            /\ t <= Len(r2) /\ q + Len(Magic) - 1 = Len(m2)
        BY <1>5, <1>6, <1>10, <3>2
      <4>b. i = t - e /\ n = (l + i) - q + 1
        OBVIOUS
      <4> HIDE DEF i, n
      <4>c. i \in Int /\ i >= 1 /\ i <= Len(w2) /\ e + i = t
        BY <4>a, <4>b
      <4>d. n \in Int /\ n >= 2 /\ n <= Len(Magic) /\ q + n - 1 = l + i
        BY <4>a, <4>b, <4>c
      <4>1. /\ i \in 1 .. Len(w2) /\ e + i = t /\ n \in 1 .. Len(Magic) /\ n # 1
            /\ q + n - 1 = l + i /\ 1 \in 1 .. Len(Magic)
        BY <4>a, <4>c, <4>d
      <4>2. r2[t] = w2[i] /\ m2[l + i] = w2[i]
        BY <1>8, <4>1 DEF After
      <4>3. m2[q + n - 1] = Magic[n]
        BY <1>6, <4>1 DEF MagicAt
      <4>4. Magic[n] # Magic[1]
        BY <4>1, MagicAssumption
      <4> QED BY <4>1, <4>2, <4>3, <4>4
    <3> QED BY <1>5, <3>1, <3>2
  <2> DEFINE n == Len(r2)
  <2>4. After(r2, n, <<>>) /\ n \in Nat /\ z + Len(Magic) <= n
    BY <1>5, AfterAll
  <2>5. Apart(r2, <<>>, z, n, 0, <<>>)
    BY <1>5, <2>2, <2>3, <2>4, EmptyAfter DEF Apart
  <2> HIDE DEF n
  <2> DEFINE new == hh \o p
  <2>6. new \in Seq(Got) /\ new \o <<>> = new
    <3>1. new \in Seq(Got)
      BY FoundGot
    <3> HIDE DEF new
    <3> QED BY <3>1, ConcatEmptySeq
  <2>7. parseMsg(SubSeq(<<>>, 1, 0)) = <<>>
    <3> DEFINE t == <<>>
               i == 0
    <3>1. t \in Seq(Nat) /\ i \in Nat /\ i <= Len(t) /\ i = 0
      BY EmptyAfter
    <3> HIDE DEF t, i
    <3>2. parseMsg(SubSeq(t, 1, i)) = <<>>
      BY <3>1, ParseNothing
    <3> QED BY <3>2 DEF t, i
  <2>8. Rec(r2, z, new \o parseMsg(SubSeq(<<>>, 1, 0)), k - d)
    BY <2>1, <2>6, <2>7
  <2> HIDE DEF new
  <2>9. OwesAt(r2, z, <<>>, 0, new, k, 0, d)
    BY <2>8 DEF OwesAt
  <2>10. Dead(r2, <<>>, new, k)
    BY <2>5, <2>9 DEF Dead, Owes
  <2> QED BY <2>10 DEF new
<1> QED BY <1>5, <1>6, <1>9, <1>10

\* The end of the file ends the message that is being read.
LEMMA AtEnd ==
  ASSUME NEW m \in Seq(Nat), ~HasMagic(m)
  PROVE  /\ StopsAt(m, Len(m) + 1) /\ SubSeq(m, 1, Len(m)) = m /\ Len(m) \in Nat
         /\ (Len(m) + 1) - 1 = Len(m)
         /\ \A g \in Int : ~MagicAt(m, g)
<1>1. Len(m) \in Nat /\ Len(Magic) \in Nat \ {0}
  BY MagicIsBytes, LenProperties
<1>2. ASSUME NEW g \in Int, MagicAt(m, g) PROVE FALSE
  <2>1. g \in 1 .. Len(m) - Len(Magic) + 1
    BY <1>1, <1>2 DEF MagicAt
  <2> QED BY <1>2, <2>1, MagicSomewhere
<1>3. FirstAt(m, Len(m) + 1)
  BY <1>2 DEF FirstAt
<1>4. SubSeq(m, 1, Len(m)) = m
  OBVIOUS
<1>5. Len(m) + 1 \in Nat \ {0} /\ (Len(m) + 1) - 1 = Len(m)
  BY <1>1
<1> QED BY <1>1, <1>2, <1>3, <1>4, <1>5 DEF StopsAt

\* The same at the end of the file.
LEMMA LiveEnd ==
  ASSUME NEW r \in Seq(Nat), NEW m \in Seq(Nat), ~HasMagic(m), NEW hh \in Seq(Got), NEW k \in Int,
         Live(r, m, hh, k), Found(parseMsg(m))
  PROVE  Rec(r, Len(r) + 1, hh \o parseMsg(m), k)
<1> DEFINE p == parseMsg(m)
           q == Len(m) + 1
<1>1. PICK z \in Nat \ {0} : MagicAt(r, z) /\ After(r, MagicEnd(z), m) /\ Rec(r, z, hh, k)
  BY DEF Live
<1>2. StopsAt(m, q) /\ SubSeq(m, 1, Len(m)) = m /\ Len(m) \in Nat /\ q - 1 = Len(m)
  BY AtEnd
<1> HIDE DEF p, q
<1>3. /\ Span(r, z, MagicEnd(z) + q)
      /\ Between(r, z, MagicEnd(z) + q) = SubSeq(m, 1, q - 1)
  <2>1. StopsAt(m, q) /\ MagicAt(r, z) /\ After(r, MagicEnd(z), m)
    BY <1>1, <1>2
  <2> QED BY <2>1, LiveSpan
<1>4. MagicEnd(z) \in Nat /\ Len(r) \in Nat /\ Len(r) = MagicEnd(z) + Len(m)
  BY <1>1 DEF After
<1> DEFINE y == Len(r) + 1
<1>5. MagicEnd(z) + q = y
  BY <1>2, <1>4 DEF q
<1> HIDE DEF y
<1>6. Span(r, z, y) /\ parseMsg(Between(r, z, y)) = p
  BY <1>2, <1>3, <1>5 DEF p
<1>7. Found(p)
  BY DEF p
<1>8. Rec(r, y, hh \o p, k)
  BY <1>1, <1>6, <1>7, Close
<1> QED BY <1>8 DEF p, y

\* The file ends with something sent in between: what is still owed.
LEMMA DeadEnd ==
  ASSUME NEW r \in Seq(Nat), NEW m \in Seq(Nat), ~HasMagic(m), NEW hh \in Seq(Got), NEW k \in Int,
         Dead(r, m, hh, k)
  PROVE  \E l, j, c : /\ OwesAt(r, Len(r) + 1, m, l, hh, k, j, c)
                      /\ l \in Nat /\ l <= Len(m) /\ j \in Nat /\ j <= Len(m)
<1> DEFINE q == Len(m) + 1
           y == Len(r) + 1
<1>1. PICK z, e, l, w : Apart(r, m, z, e, l, w) /\ Owes(r, z, m, l, hh, k)
  BY DEF Dead
<1>2. PICK j, c : OwesAt(r, z, m, l, hh, k, j, c)
  BY <1>1 DEF Owes
<1>3. /\ e \in Nat /\ l \in Nat /\ Len(r) \in Nat /\ Len(m) \in Nat /\ Len(w) \in Nat
      /\ Len(r) = e + Len(w) /\ Len(m) = l + Len(w) /\ l <= Len(m)
  BY <1>1, ApartIs
<1>4. StopsAt(m, q) /\ l < q
  BY <1>3, AtEnd
<1> HIDE DEF q
<1>5. /\ Span(r, z, e + (q - l))
      /\ NoPost(parseMsg(Between(r, z, e + (q - l))))
  BY <1>1, <1>4, ApartSpan
<1>6. e + (q - l) = y
  BY <1>3 DEF q
<1>7. /\ j \in Nat /\ j <= l /\ c \in Nat \ {0}
      /\ parseMsg(SubSeq(m, 1, j)) = <<>> /\ j # l => c >= 2
      /\ Rec(r, z, hh \o parseMsg(SubSeq(m, 1, j)), k - c)
  BY <1>2 DEF OwesAt
<1> DEFINE v == hh \o parseMsg(SubSeq(m, 1, j))
           n == k - c
<1>8. Span(r, z, y) /\ NoPost(parseMsg(Between(r, z, y)))
  BY <1>5, <1>6
<1>9. Rec(r, z, v, n)
  BY <1>7
<1> HIDE DEF y, v, n
<1>10. Rec(r, y, v, n)
  BY <1>8, <1>9, CloseOther
<1>11. OwesAt(r, y, m, l, hh, k, j, c)
  BY <1>7, <1>10 DEF OwesAt, v, n
<1>12. j <= Len(m)
  BY <1>3, <1>7
<1> QED BY <1>3, <1>7, <1>11, <1>12 DEF y

\* All that has been read of a message is lost when something is sent now.
LEMMA OwesLive ==
  ASSUME NEW r \in Seq(Nat), NEW m \in Seq(Nat), ~HasMagic(m), NEW hh \in Seq(Got), NEW k \in Int,
         Live(r, m, hh, k), Found(parseMsg(m))
  PROVE  Owes(r, Len(r) + 1, m, Len(m), hh, k + 1)
<1> DEFINE y == Len(r) + 1
           l == Len(m)
           n == k + 1
<1>1. Rec(r, y, hh \o parseMsg(m), k)
  BY LiveEnd
<1>2. l \in Nat /\ SubSeq(m, 1, l) = m
  BY AtEnd
<1>3. n - 1 = k /\ l <= l
  BY <1>2
<1> HIDE DEF y, l, n
<1>4. Rec(r, y, hh \o parseMsg(SubSeq(m, 1, l)), n - 1)
  BY <1>1, <1>2, <1>3
<1>5. 1 \in Nat \ {0} /\ l \in Nat /\ l <= l
  BY <1>2
<1>6. OwesAt(r, y, m, l, hh, n, l, 1)
  BY <1>4, <1>5 DEF OwesAt
<1> QED BY <1>6 DEF Owes, y, l, n

\* One more thing sent between the bytes of a message: one more may be lost.
LEMMA OwesDead ==
  ASSUME NEW r \in Seq(Nat), NEW m \in Seq(Nat), ~HasMagic(m), NEW hh \in Seq(Got), NEW k \in Int,
         Dead(r, m, hh, k)
  PROVE  Owes(r, Len(r) + 1, m, Len(m), hh, k + 1)
<1> DEFINE y == Len(r) + 1
           n == k + 1
<1>1. PICK l, j, c : /\ OwesAt(r, y, m, l, hh, k, j, c)
                     /\ l \in Nat /\ l <= Len(m) /\ j \in Nat /\ j <= Len(m)
  BY DeadEnd
<1> HIDE DEF y
<1>2. /\ c \in Nat \ {0}
      /\ Rec(r, y, hh \o parseMsg(SubSeq(m, 1, j)), k - c)
  BY <1>1 DEF OwesAt
<1> DEFINE d == c + 1
<1>3. d \in Nat \ {0} /\ d >= 2 /\ n - d = k - c
  BY <1>2
<1> HIDE DEF n, d
<1>4. Rec(r, y, hh \o parseMsg(SubSeq(m, 1, j)), n - d)
  BY <1>2, <1>3
<1>5. OwesAt(r, y, m, Len(m), hh, n, j, d)
  BY <1>1, <1>3, <1>4 DEF OwesAt
<1> QED BY <1>5 DEF Owes, y, n

\* Before the first magic number there is nothing to lose.
LEMMA OwesFresh ==
  ASSUME NEW m \in Seq(Nat), ~HasMagic(m), NEW k \in Nat, parseMsg(m) = <<>>
  PROVE  Owes(m, Len(m) + 1, m, Len(m), <<>>, k + 1) /\ Rec(m, Len(m) + 1, <<>>, k)
<1> DEFINE y == Len(m) + 1
           l == Len(m)
           n == k + 1
<1>1. l \in Nat /\ SubSeq(m, 1, l) = m /\ \A g \in Int : ~MagicAt(m, g)
  BY AtEnd
<1>2. y \in Int /\ n - 1 = k
  BY <1>1
<1> HIDE DEF y, l, n
<1>3. Rec(m, y, <<>>, k)
  BY <1>1, <1>2, NothingBefore
<1>4. <<>> \o parseMsg(SubSeq(m, 1, l)) = <<>>
  <2>1. parseMsg(SubSeq(m, 1, l)) = <<>>
    BY <1>1
  <2>2. <<>> \o <<>> = <<>>
    OBVIOUS
  <2> QED BY <2>1, <2>2
<1>5. Rec(m, y, <<>> \o parseMsg(SubSeq(m, 1, l)), n - 1)
  BY <1>2, <1>3, <1>4
<1>7. 1 \in Nat \ {0} /\ l \in Nat /\ l <= l
  BY <1>1
<1>6. OwesAt(m, y, m, l, <<>>, n, l, 1)
  BY <1>5, <1>7 DEF OwesAt
<1> QED BY <1>3, <1>6 DEF Owes, y, l, n

\* What the program sends: an answer, a grant or a command.
Frame(y) ==
  /\ y \in Seq(Nat) /\ Len(y) = 2 /\ y[1] \div 10 # Post
  /\ y[1] \notin DataBytes /\ y[2] \notin DataBytes

\* formatMsg makes such a frame of an answer, a grant or a command.
LEMMA FrameIs ==
  ASSUME NEW fn \in {Ack, Grant}
  PROVE  Frame(formatMsg(Message(fn, <<>>)))
<1> DEFINE y == formatMsg(Message(fn, <<>>))
<1>1. fn \in {1, 2, 3} /\ fn \in Functions
  BY DEF Functions, Post, Ack, Grant
<1>2. calcCrc(fn, <<>>) \in Nat
  BY <1>1, CrcAssumption
<1>4. /\ y \in Seq(Nat) /\ Len(y) = 2
      /\ y[1] = Header(fn, 0) /\ y[2] = calcCrc(fn, <<>>)
  <2> DEFINE d == <<>>
             f == formatMsg(Message(fn, d))
  <2>1. d \in Seq(DataBytes) /\ Len(d) = 0 /\ Len(d) < 10 /\ calcCrc(fn, d) \in Nat
    BY <1>2
  <2>2. f = y
    OBVIOUS
  <2> HIDE DEF y, d
  <2>3. /\ f \in Seq(Nat) /\ Len(f) = Len(d) + 2
        /\ f[1] = Header(fn, Len(d)) /\ f[Len(d) + 2] = calcCrc(fn, d)
    BY <1>1, <2>1, FormatParts
  <2> HIDE DEF f
  <2>4. Len(d) + 2 = 2
    BY <2>1
  <2>5. y \in Seq(Nat) /\ Len(y) = 2 /\ y[1] = Header(fn, 0) /\ y[2] = calcCrc(fn, d)
    BY <2>1, <2>2, <2>3, <2>4
  <2> QED BY <2>5 DEF d
<1>5. calcCrc(fn, <<>>) \notin DataBytes
  BY DamageAssumption
<1>6. y[1] = 20 \/ y[1] = 30
  BY <1>4 DEF Header, Ack, Grant
<1>7. y[1] \div 10 # Post /\ y[1] \notin DataBytes
  BY <1>6 DEF Post, DataBytes
<1>8. y[2] = calcCrc(fn, <<>>) /\ Len(y) = 2
  BY <1>4
<1> HIDE DEF y
<1>9. Frame(y)
  BY <1>4, <1>5, <1>7, <1>8 DEF Frame
<1> QED BY <1>9 DEF y

\* The program has sent y and recorded it after r.
Inserts(r, y, u) == r \in Seq(Nat) /\ Frame(y) /\ u = r \o Magic \o y

\* What has been appended is a magic number at once, and there is none behind it.
LEMMA InsertIs ==
  ASSUME NEW r, NEW y, NEW u, Inserts(r, y, u)
  PROVE  /\ Extends(r, Magic \o y, u) /\ u \in Seq(Nat) /\ r \in Seq(Nat)
         /\ Len(r) \in Nat /\ Len(u) = Len(r) + Len(Magic) + 2
         /\ MagicAt(u, Len(r) + 1) /\ Settled(r, u, Len(r) + 1)
         /\ u[(Len(r) + 1) + Len(Magic)] \div 10 # Post
         /\ \A t \in (Len(r) + 1) + 1 .. Len(u) : u[t] # Magic[1]
<1> DEFINE x == Magic \o y
           L == Len(Magic)
           z == Len(r) + 1
<1>1. r \in Seq(Nat) /\ y \in Seq(Nat) /\ Len(y) = 2 /\ Len(r) \in Nat
  BY LenProperties DEF Inserts, Frame
<1>2. Magic \in Seq(Nat) /\ L \in Nat \ {0}
  BY MagicIsBytes
<1>3. u = r \o x
  <2>1. r \in Seq(Nat) /\ Magic \in Seq(Nat) /\ y \in Seq(Nat)
    BY <1>1, <1>2
  <2> HIDE DEF x, L, z
  <2>2. (r \o Magic) \o y = r \o (Magic \o y)
    BY <2>1
  <2> QED BY <2>2 DEF Inserts, x
<1>4. /\ x \in Seq(Nat) /\ Len(x) = L + 2
      /\ \A i \in 1 .. L : x[i] = Magic[i]
      /\ \A i \in 1 .. 2 : x[L + i] = y[i]
  <2>1. Magic \in Seq(Nat) /\ y \in Seq(Nat) /\ x = Magic \o y /\ L = Len(Magic)
    BY <1>1, <1>2
  <2> HIDE DEF x, L, z
  <2>2. /\ x \in Seq(Nat) /\ Len(x) = Len(Magic) + Len(y)
        /\ \A i \in 1 .. Len(Magic) : x[i] = Magic[i]
        /\ \A i \in 1 .. Len(y) : x[Len(Magic) + i] = y[i]
    BY <2>1, Joined
  <2>3. Len(y) = 2
    BY <1>1
  <2> QED BY <2>1, <2>2, <2>3
<1> HIDE DEF x
<1>5. Extends(r, x, u)
  BY <1>1, <1>3, <1>4, ExtendsJoin
<1>6. /\ u \in Seq(Nat) /\ Len(u) = Len(r) + Len(x)
      /\ \A i \in 1 .. Len(x) : u[Len(r) + i] = x[i]
  BY <1>5 DEF Extends
<1>7. Len(u) = Len(r) + L + 2
  BY <1>1, <1>2, <1>4, <1>6
<1>8. \A i \in 1 .. L : u[Len(r) + i] = Magic[i]
  <2>1. \A i \in 1 .. L : i \in 1 .. Len(x)
    BY <1>2, <1>4
  <2> QED BY <1>4, <1>6, <2>1
<1>9. \A i \in 1 .. 2 : u[Len(r) + (L + i)] = y[i]
  <2>1. \A i \in 1 .. 2 : L + i \in 1 .. Len(x)
    BY <1>2, <1>4
  <2> QED BY <1>4, <1>6, <2>1
<1>10. MagicAt(u, z)
  <2>1. z >= 1 /\ z + L - 1 <= Len(u)
    BY <1>1, <1>2, <1>7
  <2>2. \A j \in 1 .. L : z + j - 1 = Len(r) + j
    BY <1>1, <1>2
  <2> QED BY <1>8, <2>1, <2>2 DEF MagicAt
<1>11. Settled(r, u, z)
  BY <1>1, <1>10 DEF Settled
<1>12. u[z + L] = y[1] /\ u[z + L + 1] = y[2]
  <2>1. z + L = Len(r) + (L + 1) /\ z + L + 1 = Len(r) + (L + 2)
    BY <1>1, <1>2
  <2> QED BY <1>9, <2>1
<1>13. u[z + L] \div 10 # Post
  BY <1>12 DEF Inserts, Frame
<1>14. ASSUME NEW t \in z + 1 .. Len(u) PROVE u[t] # Magic[1]
  <2>1. Magic[1] \in DataBytes
    <3>1. 1 \in 1 .. Len(Magic)
      BY <1>2
    <3> QED BY <3>1, MagicAssumption, ElementOfSeq
  <2>2. t = z + L \/ t = z + L + 1 \/ \E j \in 2 .. L : t = Len(r) + j
    <3>1. Len(r) \in Nat /\ L \in Nat /\ t \in Int /\ z = Len(r) + 1
          /\ z + 1 <= t /\ t <= Len(r) + L + 2
      BY <1>1, <1>2, <1>7
    <3>2. t - Len(r) \in 2 .. L \/ t = z + L \/ t = z + L + 1
      BY <3>1
    <3>3. t = Len(r) + (t - Len(r))
      BY <3>1
    <3> QED BY <3>2, <3>3
  <2>3. CASE t = z + L
    BY <1>12, <2>1, <2>3 DEF Inserts, Frame
  <2>4. CASE t = z + L + 1
    BY <1>12, <2>1, <2>4 DEF Inserts, Frame
  <2>5. CASE \E j \in 2 .. L : t = Len(r) + j
    <3>1. PICK j \in 2 .. L : t = Len(r) + j
      BY <2>5
    <3>2. j \in 1 .. L /\ 1 \in 1 .. L /\ j # 1
      BY <1>2, <3>1
    <3>3. u[t] = Magic[j]
      BY <1>8, <3>1, <3>2
    <3> QED BY <3>2, <3>3, MagicAssumption
  <2> QED BY <2>2, <2>3, <2>4, <2>5
<1> QED BY <1>1, <1>5, <1>6, <1>7, <1>10, <1>11, <1>13, <1>14 DEF x

\* Between the bytes of a message: what has been read of it is lost when it is read again.
LEMMA Insert ==
  ASSUME NEW r, NEW y, NEW u, Inserts(r, y, u), NEW m \in Seq(Nat), NEW hh, NEW k,
         Owes(r, Len(r) + 1, m, Len(m), hh, k)
  PROVE  Dead(u, m, hh, k)
<1> DEFINE z == Len(r) + 1
           e == Len(u)
           l == Len(m)
           x == Magic \o y
<1>1. /\ Extends(r, x, u) /\ u \in Seq(Nat) /\ r \in Seq(Nat)
      /\ Len(r) \in Nat /\ Len(u) = Len(r) + Len(Magic) + 2
      /\ MagicAt(u, z) /\ Settled(r, u, z)
      /\ u[z + Len(Magic)] \div 10 # Post
      /\ \A t \in z + 1 .. e : u[t] # Magic[1]
  BY InsertIs
<1>2. PICK j, c : OwesAt(r, z, m, l, hh, k, j, c)
  BY DEF Owes
<1>3. z \in Nat \ {0} /\ e \in Nat /\ z + Len(Magic) <= e
  BY <1>1, MagicIsBytes
<1>4. After(u, e, <<>>) /\ After(m, l, <<>>)
  <2>1. e = Len(u) /\ l = Len(m)
    OBVIOUS
  <2> HIDE DEF e, l
  <2> QED BY <1>1, <2>1, AfterAll
<1> HIDE DEF z, e, l, x
<1>5. Apart(u, m, z, e, l, <<>>)
  BY <1>1, <1>3, <1>4 DEF Apart
<1> DEFINE v == hh \o parseMsg(SubSeq(m, 1, j))
           n == k - c
<1>6. /\ j \in Nat /\ j <= l /\ c \in Nat \ {0}
      /\ parseMsg(SubSeq(m, 1, j)) = <<>> /\ j # l => c >= 2
      /\ Rec(r, z, v, n)
  BY <1>2 DEF OwesAt
<1> HIDE DEF v, n
<1>7. Rec(u, z, v, n)
  BY <1>1, <1>3, <1>6, RecKept
<1>8. OwesAt(u, z, m, l, hh, k, j, c)
  BY <1>6, <1>7 DEF OwesAt, v, n
<1> QED BY <1>5, <1>8 DEF Dead, Owes

\* Between two messages: nothing is lost.
LEMMA InsertEnd ==
  ASSUME NEW r, NEW y, NEW u, Inserts(r, y, u), NEW hh, NEW k, Rec(r, Len(r) + 1, hh, k)
  PROVE  Rec(u, Len(u) + 1, hh, k)
<1> DEFINE z == Len(r) + 1
           e == Len(u)
           x == Magic \o y
           w == <<>>
           q == 1
           l == 0
<1>1. /\ Extends(r, x, u) /\ u \in Seq(Nat) /\ r \in Seq(Nat)
      /\ Len(r) \in Nat /\ Len(u) = Len(r) + Len(Magic) + 2
      /\ MagicAt(u, z) /\ Settled(r, u, z)
      /\ u[z + Len(Magic)] \div 10 # Post
      /\ \A t \in z + 1 .. e : u[t] # Magic[1]
  BY InsertIs
<1>3. z \in Nat \ {0} /\ e \in Nat /\ z + Len(Magic) <= e
  BY <1>1, MagicIsBytes
<1>4. After(u, e, w)
  <2>1. e = Len(u)
    OBVIOUS
  <2> HIDE DEF e
  <2> QED BY <1>1, <2>1, AfterAll
<1>5. After(w, l, w)
  BY EmptyAfter
<1>6. StopsAt(w, q) /\ l < q
  <2>1. Len(w) = 0 /\ Len(w) + 1 = 1
    BY EmptyAfter
  <2>2. FirstAt(w, q)
    BY DEF FirstAt
  <2> QED BY <2>1, <2>2 DEF StopsAt
<1>7. Rec(r, z, hh, k)
  OBVIOUS
<1>8. e + (q - l) = Len(u) + 1
  BY <1>3
<1> HIDE DEF z, e, x, w, q, l
<1>9. Apart(u, w, z, e, l, w)
  BY <1>1, <1>3, <1>4, <1>5 DEF Apart
<1>10. Rec(u, z, hh, k)
  BY <1>1, <1>3, <1>7, RecKept
<1>11. /\ Span(u, z, e + (q - l))
       /\ NoPost(parseMsg(Between(u, z, e + (q - l))))
  BY <1>1, <1>6, <1>9, ApartSpan
<1> DEFINE g == e + (q - l)
<1>12. Span(u, z, g) /\ NoPost(parseMsg(Between(u, z, g)))
  BY <1>11
<1> HIDE DEF g
<1>13. Rec(u, g, hh, k)
  BY <1>1, <1>10, <1>12, CloseOther
<1> QED BY <1>8, <1>13 DEF g

\* After the first magic number, either of the two.
Holds(r, m, hh, k) == Live(r, m, hh, k) \/ Dead(r, m, hh, k)

\* What holds of the record file is kept by a byte (msg.py:69-71).
LEMMA HoldsGrows ==
  ASSUME NEW r, NEW m, NEW b, NEW r2, NEW m2, Grows(r, b, r2), Grows(m, b, m2),
         NEW hh, NEW k, Holds(r, m, hh, k)
  PROVE  Holds(r2, m2, hh, k)
<1>1. CASE Live(r, m, hh, k)
  <2>1. Live(r2, m2, hh, k)
    BY <1>1, LiveGrows
  <2> QED BY <2>1 DEF Holds
<1>2. CASE Dead(r, m, hh, k)
  <2>1. Dead(r2, m2, hh, k)
    BY <1>2, DeadGrows
  <2> QED BY <2>1 DEF Holds
<1> QED BY <1>1, <1>2 DEF Holds

\* It is kept by the end of a message (msg.py:46-54).
LEMMA HoldsCut ==
  ASSUME NEW r, NEW m, NEW b, NEW r2, NEW m2, Grows(r, b, r2), Grows(m, b, m2),
         NEW hh \in Seq(Got), NEW k \in Int, Holds(r, m, hh, k),
         NEW q, Ended(m2, q), NEW p, p = parseMsg(SubSeq(m2, 1, q - 1)), Found(p),
         Agrees(m2, Len(m), p)
  PROVE  Holds(r2, <<>>, hh \o p, k)
<1>1. CASE Live(r, m, hh, k)
  <2>1. Live(r2, m2, hh, k) /\ r2 \in Seq(Nat)
    BY <1>1, LiveGrows, GrowsIs
  <2>2. Found(parseMsg(SubSeq(m2, 1, q - 1)))
    OBVIOUS
  <2>3. Live(r2, <<>>, hh \o parseMsg(SubSeq(m2, 1, q - 1)), k)
    BY <2>1, <2>2, LiveCut
  <2>4. Live(r2, <<>>, hh \o p, k)
    BY <2>3
  <2> QED BY <2>4 DEF Holds
<1>2. CASE Dead(r, m, hh, k)
  <2>1. Live(r2, <<>>, hh \o p, k) \/ Dead(r2, <<>>, hh \o p, k)
    BY <1>2, DeadCut
  <2> QED BY <2>1 DEF Holds
<1> QED BY <1>1, <1>2 DEF Holds

\* It is kept by what the program sends, with one more that may be lost (msg.py:144-150).
LEMMA HoldsSend ==
  ASSUME NEW r \in Seq(Nat), NEW m \in Seq(Nat), ~HasMagic(m), NEW hh \in Seq(Got), NEW k \in Int,
         Holds(r, m, hh, k), Found(parseMsg(m)), NEW y, NEW u, Inserts(r, y, u)
  PROVE  Holds(u, m, hh, k + 1)
<1>1. Owes(r, Len(r) + 1, m, Len(m), hh, k + 1)
  <2>1. CASE Live(r, m, hh, k)
    BY <2>1, OwesLive
  <2>2. CASE Dead(r, m, hh, k)
    BY <2>2, OwesDead
  <2> QED BY <2>1, <2>2 DEF Holds
<1>2. Dead(u, m, hh, k + 1)
  <2> DEFINE n == k + 1
  <2>1. Owes(r, Len(r) + 1, m, Len(m), hh, n)
    BY <1>1
  <2> HIDE DEF n
  <2>2. Dead(u, m, hh, n)
    BY <2>1, Insert
  <2> QED BY <2>2 DEF n
<1> QED BY <1>2 DEF Holds

\* Whatever has been read of it, a message is what it is when it ends with the file.
LEMMA AgreesAll ==
  ASSUME NEW m \in Seq(Nat)
  PROVE  Agrees(m, Len(m), parseMsg(m))
<1>1. Len(m) \in Nat /\ SubSeq(m, 1, Len(m)) = m
  BY LenProperties
<1>2. ASSUME NEW j \in Nat, j <= Len(m), parseMsg(SubSeq(m, 1, j)) # <<>>
      PROVE  parseMsg(SubSeq(m, 1, j)) = parseMsg(m)
  <2> DEFINE l == Len(m)
  <2>1. l \in Nat /\ j <= l /\ l <= Len(m)
    BY <1>1, <1>2
  <2> HIDE DEF l
  <2>2. parseMsg(SubSeq(m, 1, l)) = parseMsg(SubSeq(m, 1, j))
    BY <1>2, <2>1, ParseLonger
  <2> QED BY <1>1, <2>2 DEF l
<1> QED BY <1>2 DEF Agrees

\* At the end of the file it says what is lost.
LEMMA HoldsEnd ==
  ASSUME NEW r \in Seq(Nat), NEW m \in Seq(Nat), ~HasMagic(m), NEW hh \in Seq(Got), NEW k \in Int,
         Holds(r, m, hh, k), Found(parseMsg(m))
  PROVE  Rec(r, Len(r) + 1, hh \o parseMsg(m), k)
<1>1. CASE Live(r, m, hh, k)
  BY <1>1, LiveEnd
<1>2. CASE Dead(r, m, hh, k)
  <2> DEFINE y == Len(r) + 1
             n == Len(m)
             p == parseMsg(m)
  <2>1. PICK l, j, c : /\ OwesAt(r, y, m, l, hh, k, j, c)
                       /\ l \in Nat /\ l <= Len(m) /\ j \in Nat /\ j <= n
    BY <1>2, DeadEnd
  <2>2. Agrees(m, n, p) /\ Found(p)
    BY AgreesAll
  <2> HIDE DEF y, n, p
  <2>3. Rec(r, y, hh \o p, k)
    <3>1. OwesAt(r, y, m, l, hh, k, j, c) /\ j <= n
      BY <2>1
    <3> QED BY <2>2, <3>1, Pays
  <2> QED BY <2>3 DEF y, p
<1> QED BY <1>1, <1>2 DEF Holds

\* Before the first magic number.
LEMMA FreshSend ==
  ASSUME NEW m \in Seq(Nat), ~HasMagic(m), NEW k \in Nat, parseMsg(m) = <<>>,
         NEW y, NEW u, Inserts(m, y, u)
  PROVE  Holds(u, m, <<>>, k + 1)
<1> DEFINE n == k + 1
           hh == <<>>
<1>1. Owes(m, Len(m) + 1, m, Len(m), hh, n)
  BY OwesFresh
<1> HIDE DEF n, hh
<1>2. Dead(u, m, hh, n)
  BY <1>1, Insert
<1> QED BY <1>2 DEF Holds, n, hh

\* The first magic number: the record file is what has been read, and from here on it holds.
LEMMA FreshCut ==
  ASSUME NEW m \in Seq(Nat), NEW q, Ended(m, q), NEW k \in Nat
  PROVE  Holds(m, <<>>, <<>>, k)
<1>1. q \in Nat \ {0} /\ FirstAt(m, q) /\ MagicAt(m, q) /\ MagicEnd(q) = Len(m)
  BY DEF Ended, StopsAt
<1> DEFINE c == MagicEnd(q)
<1>2. c = Len(m)
  BY <1>1
<1> HIDE DEF c
<1>3. After(m, c, <<>>)
  BY <1>2, AfterAll
<1>4. Rec(m, q, <<>>, k)
  <2>1. q \in Int
    BY <1>1
  <2>2. \A g \in Int : g < q => ~MagicAt(m, g)
    <3>1. SUFFICES ASSUME NEW g \in Int, g < q, MagicAt(m, g) PROVE FALSE
      OBVIOUS
    <3>2. g \in 1 .. q - 1
      BY <1>1, <3>1 DEF MagicAt
    <3> QED BY <1>1, <3>1, <3>2 DEF FirstAt
  <2> QED BY <2>1, <2>2, NothingBefore
<1>5. Live(m, <<>>, <<>>, k)
  BY <1>1, <1>3, <1>4 DEF Live, c
<1> QED BY <1>5 DEF Holds

\* What is appended leaves the first bytes alone.
LEMMA SameFirst ==
  ASSUME NEW t, NEW x, NEW u, Extends(t, x, u), NEW j \in Nat, j <= Len(t)
  PROVE  SubSeq(t, 1, j) = SubSeq(u, 1, j)
<1>1. 1 \in Nat \ {0} /\ j \in Nat /\ 1 <= j + 1 /\ j <= Len(t)
  OBVIOUS
<1> QED BY <1>1, SamePart

\* Only a message that can be read, and that was put into the stream, is ever found.
LEMMA FoundPart ==
  ASSUME NEW t \in Seq(Nat), NEW j \in Nat, j <= Len(t), NoneTo(t, j),
         NEW ms \in Seq(Msgs), NEW h, NEW p, NEW st, Ahead(t, ms, h, p, st)
  PROVE  Found(parseMsg(SubSeq(t, 1, j)))
<1>1. CASE parseMsg(SubSeq(t, 1, j)) = <<>>
  BY <1>1 DEF Found
<1>2. CASE parseMsg(SubSeq(t, 1, j)) # <<>>
  <2>1. /\ h + 1 \in h + 1 .. Len(ms)
        /\ parseMsg(SubSeq(t, 1, j)) = <<ms[h + 1]>>
    BY <1>2, ParseNext
  <2>2. Readable(ms[h + 1])
    BY <2>1 DEF Ahead, Begins
  <2>3. ms[h + 1] \in Msgs
    <3>1. h \in 0 .. Len(ms)
      BY DEF Ahead
    <3>2. h + 1 \in 1 .. Len(ms)
      BY <2>1, <3>1
    <3> QED BY <3>2, ElementOfSeq
  <2> QED BY <2>1, <2>2, <2>3 DEF Found
<1> QED BY <1>1, <1>2

\* No magic number ends before the first one does.
LEMMA NoneBefore ==
  ASSUME NEW t \in Seq(Nat), NEW q \in Nat \ {0}, FirstAt(t, q), MagicAt(t, q),
         NEW j \in Nat, j < MagicEnd(q)
  PROVE  NoneTo(t, j)
<1>1. Len(Magic) \in Nat \ {0}
  BY MagicIsBytes
<1>2. SUFFICES ASSUME NEW g \in Int, MagicAt(t, g) PROVE g + Len(Magic) - 1 > j
  BY DEF NoneTo
<1>3. g >= 1
  BY <1>2 DEF MagicAt
<1>4. ~(g \in 1 .. q - 1)
  BY <1>2 DEF FirstAt
<1>5. g >= q
  BY <1>3, <1>4
<1> QED BY <1>1, <1>5 DEF MagicEnd

\* In the bytes that have been read the magic number is the last, and what they gave
\* before it is what they give now.
LEMMA CutRead ==
  ASSUME NEW s \in Seq(Nat), ~HasMagic(s), NEW w \in Seq(Nat), w # <<>>,
         NEW m, m = Append(s, Head(w)), IsSuffix(Magic, m),
         NEW ms \in Seq(Msgs), NEW h, NEW p, NEW st, Ahead(s \o w, ms, h, p, st),
         NEW seg, seg = SubSeq(m, 1, Len(m) - Len(Magic))
  PROVE  \E q : /\ Ended(m, q) /\ parseMsg(seg) = parseMsg(SubSeq(m, 1, q - 1))
                /\ Found(parseMsg(seg)) /\ Agrees(m, Len(s), parseMsg(seg))
<1> DEFINE t == s \o w
           v == Tail(w)
           q == LastMagic(m)
<1>1. /\ m \in Seq(Nat) /\ Len(m) = Len(s) + 1 /\ Len(s) \in Nat
      /\ \A i \in 1 .. Len(s) : m[i] = s[i]
      /\ Extends(m, v, t)
  BY ReadOne
<1>2. Ahead(t, ms, h, p, st)
  OBVIOUS
<1> HIDE DEF t, v
<1>3. /\ q \in Nat \ {0} /\ q \in 1 .. Len(t) + 1
      /\ MagicAt(t, q) /\ FirstAt(t, q)
      /\ SubSeq(m, 1, Len(m) - Len(Magic)) = SubSeq(t, 1, q - 1)
  BY <1>1, FirstMagicAt
<1>4. /\ t \in Seq(Nat) /\ Len(t) \in Nat /\ Len(m) \in Nat /\ Len(m) <= Len(t)
      /\ Len(Magic) \in Nat \ {0}
  BY <1>1, MagicIsBytes DEF Extends
<1>5. q = Len(m) - Len(Magic) + 1
  BY DEF LastMagic
<1> HIDE DEF q
<1>6. MagicEnd(q) = Len(m) /\ q <= Len(m) /\ q - 1 = Len(m) - Len(Magic)
  BY <1>3, <1>4, <1>5 DEF MagicEnd
<1>7. MagicAt(m, q)
  <2>1. q \in Int /\ q + Len(Magic) - 1 <= Len(m)
    BY <1>3, <1>4, <1>6 DEF MagicEnd
  <2> QED BY <1>1, <1>3, <2>1, MagicBack
<1>8. FirstAt(m, q)
  <2>1. SUFFICES ASSUME NEW g \in 1 .. q - 1, MagicAt(m, g) PROVE FALSE
    BY DEF FirstAt
  <2>2. g \in Int
    OBVIOUS
  <2>3. MagicAt(t, g)
    BY <1>1, <2>1, <2>2, MagicKept
  <2> QED BY <1>3, <2>1, <2>3 DEF FirstAt
<1>9. Ended(m, q)
  BY <1>3, <1>4, <1>6, <1>7, <1>8 DEF Ended, StopsAt
<1>10. seg = SubSeq(m, 1, q - 1) /\ seg = SubSeq(t, 1, q - 1)
  BY <1>3, <1>6
<1>11. \A j \in Nat : j <= Len(s) => j < MagicEnd(q) /\ j <= Len(t) /\ SubSeq(m, 1, j) = SubSeq(t, 1, j)
  <2>1. SUFFICES ASSUME NEW j \in Nat, j <= Len(s)
                 PROVE  j < MagicEnd(q) /\ j <= Len(t) /\ SubSeq(m, 1, j) = SubSeq(t, 1, j)
    OBVIOUS
  <2>2. j < MagicEnd(q) /\ j <= Len(t) /\ j <= Len(m) /\ 1 <= j + 1
    BY <1>1, <1>4, <1>6, <2>1
  <2>3. j \in Nat /\ j <= Len(m)
    BY <2>2
  <2>5. Extends(m, v, t)
    BY <1>1
  <2>4. SubSeq(m, 1, j) = SubSeq(t, 1, j)
    BY <2>3, <2>5, SameFirst
  <2> QED BY <2>2, <2>4
<1>12. Found(parseMsg(seg))
  <2> DEFINE j == q - 1
  <2>1. j \in Nat /\ j <= Len(t) /\ j < MagicEnd(q)
    BY <1>3, <1>4, <1>6
  <2> HIDE DEF j
  <2>2. NoneTo(t, j)
    BY <1>3, <1>4, <2>1, NoneBefore
  <2>3. Found(parseMsg(SubSeq(t, 1, j)))
    BY <1>2, <1>4, <2>1, <2>2, FoundPart
  <2> QED BY <1>10, <2>3 DEF j
<1>13. Agrees(m, Len(s), parseMsg(seg))
  <2>1. SUFFICES ASSUME NEW j \in Nat, j <= Len(s), parseMsg(SubSeq(m, 1, j)) # <<>>
                 PROVE  parseMsg(SubSeq(m, 1, j)) = parseMsg(seg)
    BY DEF Agrees
  <2>2. j < MagicEnd(q) /\ j <= Len(t) /\ SubSeq(m, 1, j) = SubSeq(t, 1, j)
    BY <1>11, <2>1
  <2>3. NoneTo(t, j)
    BY <1>3, <1>4, <2>2, NoneBefore
  <2>4. parseMsg(SubSeq(t, 1, j)) # <<>>
    BY <2>1, <2>2
  <2>5. /\ h + 1 \in h + 1 .. Len(ms) /\ st[h + 1] = 1
        /\ parseMsg(SubSeq(t, 1, j)) = <<ms[h + 1]>>
    BY <1>2, <1>4, <2>2, <2>3, <2>4, ParseNext
  <2>8. /\ t \in Seq(Nat) /\ q \in 1 .. Len(t) + 1 /\ FirstAt(t, q)
        /\ q = Len(t) + 1 \/ MagicAt(t, q)
    BY <1>3, <1>4
  <2>6. parseMsg(SubSeq(t, 1, q - 1)) =
           IF h + 1 \in h + 1 .. Len(ms) /\ st[h + 1] = 1 THEN <<ms[h + 1]>> ELSE <<>>
    BY <1>2, <2>8, Segment
  <2>7. parseMsg(SubSeq(t, 1, q - 1)) = <<ms[h + 1]>>
    BY <2>5, <2>6
  <2> QED BY <1>10, <2>2, <2>5, <2>7
<1> QED BY <1>9, <1>10, <1>12, <1>13

\* The same for what has been read so far, without a magic number.
LEMMA FoundNow ==
  ASSUME NEW s \in Seq(Nat), ~HasMagic(s), NEW w \in Seq(Nat),
         NEW ms \in Seq(Msgs), NEW h, NEW p, NEW st, Ahead(s \o w, ms, h, p, st)
  PROVE  Found(parseMsg(s))
<1> DEFINE t == s \o w
           j == Len(s)
<1>1. Extends(s, w, t)
  <2>1. t = s \o w
    OBVIOUS
  <2> HIDE DEF t
  <2> QED BY <2>1, ExtendsJoin
<1>2. Ahead(t, ms, h, p, st)
  OBVIOUS
<1>3. j = Len(s)
  OBVIOUS
<1> HIDE DEF t, j
<1>4. t \in Seq(Nat) /\ Len(t) \in Nat /\ j \in Nat /\ j <= Len(t)
  BY <1>1, <1>3 DEF Extends
<1>5. SubSeq(s, 1, j) = s /\ \A g \in Int : ~MagicAt(s, g)
  BY <1>3, AtEnd
<1>6. SubSeq(s, 1, j) = SubSeq(t, 1, j)
  <2>1. j \in Nat /\ j <= Len(s)
    BY <1>3, <1>4
  <2> QED BY <1>1, <2>1, SameFirst
<1>7. NoneTo(t, j)
  <2>1. SUFFICES ASSUME NEW g \in Int, MagicAt(t, g), ~(g + Len(Magic) - 1 > j) PROVE FALSE
    BY DEF NoneTo
  <2>2. g + Len(Magic) - 1 <= Len(s)
    BY <1>3, <1>4, <2>1, MagicIsBytes
  <2>3. MagicAt(s, g)
    BY <1>1, <2>1, <2>2, MagicBack
  <2> QED BY <1>5, <2>3
<1>8. Found(parseMsg(SubSeq(t, 1, j)))
  BY <1>2, <1>4, <1>7, FoundPart
<1> QED BY <1>5, <1>6, <1>8

\* What the caller does with a message.
LEMMA CallerDoes ==
  ASSUME TypeOK, mode # "active", pc = "read", NEW seg, NEW r \in Seq(Nat), Found(parseMsg(seg)),
         Caller(seg, r), mode' = mode, replies' = replies, sends' = sends
  PROVE  /\ handled' = handled \o parseMsg(seg) /\ msg' = <<>>
         /\ handled \in Seq(Got) /\ Inserted \in Nat
         /\ \/ rec' = r /\ Inserted' = Inserted
            \/ \E y : Inserts(r, y, rec') /\ Inserted' = Inserted + 1
<1> DEFINE p == parseMsg(seg)
           a == formatMsg(Message(Ack, <<>>))
<1>1. /\ handled' = handled \o p /\ msg' = <<>>
      /\ rec' = IF replies /\ \E x \in ToSet(p) : x.function = Post
                THEN r \o Magic \o a ELSE r
  <2>1. pc # "skip"
    OBVIOUS
  <2> QED BY <2>1 DEF Caller
<1>2. handled \in Seq(Got) /\ Len(handled) \in Nat /\ sends \in Nat /\ replies \in BOOLEAN
  BY LenProperties DEF TypeOK, Got
<1>3. Found(p)
  OBVIOUS
<1> HIDE DEF p
<1>4. Inserted = sends + (IF replies THEN Len(handled) ELSE 0)
  BY DEF Inserted
<1>5. Inserted' = sends + (IF replies THEN Len(handled') ELSE 0)
  BY DEF Inserted
<1>6. Inserted \in Nat
  BY <1>2, <1>4
<1>7. Frame(a)
  BY FrameIs
<1> HIDE DEF a
<1>8. CASE p = <<>>
  <2>1. ~\E x \in ToSet(p) : x.function = Post
    BY <1>8 DEF ToSet
  <2>2. rec' = r
    BY <1>1, <2>1
  <2>3. handled' = handled
    <3>1. handled \o <<>> = handled
      BY <1>2
    <3> QED BY <1>1, <1>8, <3>1
  <2>4. Inserted' = Inserted
    BY <1>4, <1>5, <2>3
  <2> QED BY <1>1, <1>2, <1>6, <2>2, <2>4 DEF p
<1>9. CASE p # <<>>
  <2>1. PICK m \in Msgs : p = <<m>>
    BY <1>3, <1>9 DEF Found
  <2>2. m \in ToSet(p) /\ m.function = Post
    <3>1. 1 \in DOMAIN p /\ p[1] = m
      BY <2>1
    <3> QED BY <3>1 DEF ToSet, Msgs
  <2>3. Len(handled') = Len(handled) + 1
    <3>1. p \in Seq(Msgs) /\ Len(p) = 1
      BY <2>1
    <3>2. Adds(handled, m, handled \o <<m>>)
      BY <1>2, FoundAdds
    <3> DEFINE new == handled \o <<m>>
    <3> HIDE DEF new
    <3>3. Len(new) = Len(handled) + 1
      BY <3>2, OneMore DEF new
    <3> QED BY <1>1, <2>1, <3>3 DEF new
  <2>4. CASE replies
    <3>1. rec' = r \o Magic \o a
      BY <1>1, <2>2, <2>4
    <3>2. Inserts(r, a, rec')
      BY <1>7, <3>1 DEF Inserts
    <3>3. Inserted' = Inserted + 1
      BY <1>2, <1>4, <1>5, <2>3, <2>4
    <3> QED BY <1>1, <1>2, <1>6, <3>2, <3>3 DEF p
  <2>5. CASE ~replies
    <3>1. rec' = r
      BY <1>1, <2>5
    <3>2. Inserted' = Inserted
      BY <1>4, <1>5, <2>5
    <3> QED BY <1>1, <1>2, <1>6, <3>1, <3>2 DEF p
  <2> QED BY <2>4, <2>5
<1> QED BY <1>8, <1>9

\* Nothing has been handled, and the record file is what has been read of the first message.
Fresh == /\ rec = msg /\ handled = <<>>
         /\ msg \o wire # <<>> => ~IsHeader(msg \o wire, 1)

\* What the record file would give, when the reader looks for magic numbers.
DelimRec ==
  mode # "active" =>
    /\ pc = "done" => Rec(rec, Len(rec) + 1, handled, Inserted)
    /\ pc # "done" => Fresh \/ (pc = "read" /\ Holds(rec, msg, handled, Inserted))

\* Nothing has been read and recorded yet.
LEMMA DelimRecInit == ASSUME Init PROVE DelimRec
<1>1. rec = <<>> /\ handled = <<>> /\ msg = <<>> /\ pc # "done"
  BY DEF Init
<1>2. wire \in Seq(Nat) /\ \A s \in 1 .. Len(wire) : ~IsHeader(wire, s)
  BY InitWire
<1>3. msg \o wire = wire
  BY <1>1, <1>2
<1>4. ASSUME wire # <<>> PROVE ~IsHeader(wire, 1)
  <2>1. 1 \in 1 .. Len(wire)
    BY <1>2, <1>4, EmptySeq, LenProperties
  <2> QED BY <1>2, <2>1
<1>5. Fresh
  BY <1>1, <1>3, <1>4 DEF Fresh
<1> QED BY <1>1, <1>5 DEF DelimRec

\* What is put into the stream does not begin with a header either.
LEMMA DelimRecPut ==
  ASSUME TypeOK, DelimRec, mode # "active",
         NEW x \in Seq(Nat), Put(x), Len(x) >= 1, ~IsHeader(x, 1)
  PROVE  DelimRec'
<1> DEFINE t == msg \o wire
           u == msg' \o wire'
<1>1. /\ Extends(t, x, u) /\ pc' = pc /\ handled' = handled /\ mode' = mode
  BY PutExtends
<1>2. rec' = rec /\ msg' = msg /\ sends' = sends /\ replies' = replies
  BY DEF Put, kind
<1>3. Inserted' = Inserted
  BY <1>1, <1>2 DEF Inserted
<1> HIDE DEF t, u
<1>4. ASSUME t # <<>> => ~IsHeader(t, 1) PROVE ~IsHeader(u, 1)
  <2>1. /\ t \in Seq(Nat) /\ Len(t) \in Nat
        /\ \A i \in 1 .. Len(t) : u[i] = t[i]
        /\ \A i \in 1 .. Len(x) : u[Len(t) + i] = x[i]
    BY <1>1 DEF Extends
  <2>2. CASE t = <<>>
    <3>1. 1 \in 1 .. Len(x) /\ Len(t) + 1 = 1
      BY <2>2, LenProperties
    <3>2. u[1] = x[1]
      BY <2>1, <3>1
    <3> QED BY <3>2 DEF IsHeader
  <2>3. CASE t # <<>>
    <3>1. 1 \in 1 .. Len(t)
      BY <2>1, <2>3, EmptySeq
    <3>2. u[1] = t[1]
      BY <2>1, <3>1
    <3> QED BY <1>4, <2>3, <3>2 DEF IsHeader
  <2> QED BY <2>2, <2>3
<1>5. Fresh => Fresh'
  BY <1>1, <1>2, <1>4 DEF Fresh, t, u
<1> QED BY <1>1, <1>2, <1>3, <1>5 DEF DelimRec

\* A piece of stream begins with the magic number, and so not with a header.
LEMMA MagicFirst ==
  ASSUME NEW y \in Seq(Nat)
  PROVE  Magic \o y \in Seq(Nat) /\ Len(Magic \o y) >= 1 /\ ~IsHeader(Magic \o y, 1)
<1> DEFINE x == Magic \o y
<1>1. Magic \in Seq(Nat) /\ Len(Magic) \in Nat \ {0}
  BY MagicIsBytes
<1>2. /\ x \in Seq(Nat) /\ Len(y) \in Nat /\ Len(x) = Len(Magic) + Len(y)
      /\ \A i \in 1 .. Len(Magic) : x[i] = Magic[i]
  BY <1>1, Joined
<1>3. 1 \in 1 .. Len(Magic)
  BY <1>1
<1>4. x[1] = Magic[1] /\ Magic[1] \in 0 .. 9
  <2>1. Magic[1] \in DataBytes
    BY <1>3, MagicAssumption, ElementOfSeq
  <2> QED BY <1>2, <1>3, <2>1 DEF DataBytes
<1> HIDE DEF x
<1>5. ~IsHeader(x, 1)
  BY <1>4, OnlyHeaders DEF IsHeader
<1>6. Len(x) >= 1
  BY <1>1, <1>2
<1> QED BY <1>2, <1>5, <1>6 DEF x

\* The stream grows: nothing has been read of it.
LEMMA DelimRecStream ==
  ASSUME TypeOK, DelimRec, mode # "active", PutMessage \/ PutDamaged \/ PutStray
  PROVE  DelimRec'
<1>1. ASSUME NEW y \in Seq(Nat), Put(Magic \o y) PROVE DelimRec'
  <2> DEFINE x == Magic \o y
  <2>1. x \in Seq(Nat) /\ Len(x) >= 1 /\ ~IsHeader(x, 1) /\ Put(x)
    BY <1>1, MagicFirst
  <2> HIDE DEF x
  <2> QED BY <2>1, DelimRecPut
<1>2. CASE PutMessage
  <2>1. PICK d \in Payloads : Put(Magic \o formatMsg(Message(Post, d)))
    BY <1>2 DEF PutMessage
  <2>2. Message(Post, d) \in Msgs
    BY DEF Msgs, Message
  <2>3. formatMsg(Message(Post, d)) \in Seq(Nat)
    BY <2>2, FrameBytes
  <2> QED BY <1>1, <2>1, <2>3
<1>3. CASE PutDamaged
  <2>1. PICK d \in Payloads : \E i \in 1 .. Len(formatMsg(Message(Post, d))) :
           \/ Put(Magic \o SubSeq(formatMsg(Message(Post, d)), 1, i - 1))
           \/ \E b \in Stray \ {formatMsg(Message(Post, d))[i]} :
                Put(Magic \o ReplaceAt(formatMsg(Message(Post, d)), i, b))
    BY <1>3 DEF PutDamaged
  <2> DEFINE m == Message(Post, d)
             f == formatMsg(m)
  <2>2. m \in Msgs
    BY DEF Msgs, Message
  <2>3. PICK i \in 1 .. Len(f) : \/ Put(Magic \o SubSeq(f, 1, i - 1))
                                 \/ \E b \in Stray \ {f[i]} : Put(Magic \o ReplaceAt(f, i, b))
    BY <2>1
  <2> HIDE DEF m
  <2>4. f \in Seq(Nat) /\ Len(f) \in Nat
    BY <2>2, FrameBytes, LenProperties
  <2> HIDE DEF f
  <2>5. CASE Put(Magic \o SubSeq(f, 1, i - 1))
    <3> DEFINE l == i - 1
    <3>1. l \in Nat /\ l <= Len(f)
      BY <2>4
    <3>2. Put(Magic \o SubSeq(f, 1, l))
      BY <2>5
    <3> HIDE DEF l
    <3>3. SubSeq(f, 1, l) \in Seq(Nat)
      BY <2>4, <3>1, FirstPart
    <3> QED BY <1>1, <3>2, <3>3
  <2>6. ASSUME NEW b \in Stray \ {f[i]}, Put(Magic \o ReplaceAt(f, i, b)) PROVE DelimRec'
    <3>1. b \in Nat
      <4>1. b \in DataBytes
        BY DataAssumption
      <4> QED BY <4>1 DEF DataBytes
    <3> DEFINE y == ReplaceAt(f, i, b)
    <3>2. y = [f EXCEPT ![i] = b]
      BY DEF ReplaceAt
    <3>3. Put(Magic \o y)
      BY <2>6
    <3> HIDE DEF y
    <3>4. y \in Seq(Nat)
      BY <2>4, <3>1, <3>2, ExceptSeq
    <3> QED BY <1>1, <3>3, <3>4
  <2> QED BY <2>3, <2>5, <2>6
<1>4. CASE PutStray
  <2>1. PICK b \in Stray : Put(<<b>>)
    BY <1>4 DEF PutStray
  <2>2. b \in 0 .. 9 /\ b \in Nat
    <3>1. b \in DataBytes
      BY DataAssumption
    <3> QED BY <3>1 DEF DataBytes
  <2> DEFINE x == <<b>>
  <2>3. x \in Seq(Nat) /\ Len(x) = 1 /\ Len(x) >= 1 /\ x[1] = b /\ Put(x)
    BY <2>1, <2>2
  <2> HIDE DEF x
  <2>4. ~IsHeader(x, 1)
    BY <2>2, <2>3, OnlyHeaders DEF IsHeader
  <2> QED BY <2>3, <2>4, DelimRecPut
<1> QED BY <1>2, <1>3, <1>4

\* What does not begin with a header is no message, however much of it there is.
LEMMA FreshNothing ==
  ASSUME NEW t, NEW x, NEW u, Extends(t, x, u), u # <<>> => ~IsHeader(u, 1),
         NEW j \in Nat, j <= Len(t)
  PROVE  parseMsg(SubSeq(t, 1, j)) = <<>>
<1>1. /\ t \in Seq(Nat) /\ u \in Seq(Nat) /\ Len(t) \in Nat /\ Len(x) \in Nat
      /\ Len(u) = Len(t) + Len(x)
      /\ \A i \in 1 .. Len(t) : u[i] = t[i]
  BY DEF Extends
<1>2. j = 0 \/ ~IsHeader(t, 1)
  <2>1. SUFFICES ASSUME j # 0 PROVE ~IsHeader(t, 1)
    OBVIOUS
  <2>2. 1 \in 1 .. Len(t) /\ Len(u) # 0
    BY <1>1, <2>1
  <2>3. u # <<>>
    BY <2>2
  <2>4. u[1] = t[1]
    BY <1>1, <2>2
  <2> QED BY <2>3, <2>4 DEF IsHeader
<1> QED BY <1>1, <1>2, ParseNothing

\* The program answers, or does not, when a message has ended with the magic number.
LEMMA AfterCut ==
  ASSUME NEW r \in Seq(Nat), NEW hh \in Seq(Got), NEW k \in Int, Holds(r, <<>>, hh, k),
         NEW u, NEW l, (u = r /\ l = k) \/ ((\E y : Inserts(r, y, u)) /\ l = k + 1)
  PROVE  Holds(u, <<>>, hh, l)
<1> DEFINE m == <<>>
<1>1. CASE u = r /\ l = k
  BY <1>1
<1>2. CASE (\E y : Inserts(r, y, u)) /\ l = k + 1
  <2>1. PICK y : Inserts(r, y, u)
    BY <1>2
  <2>2. m \in Seq(Nat) /\ ~HasMagic(m) /\ Holds(r, m, hh, k)
    BY NoMagicInNothing
  <2>3. Found(parseMsg(m))
    <3> DEFINE i == 0
    <3>1. m \in Seq(Nat) /\ i \in Nat /\ i <= Len(m) /\ i = 0 /\ SubSeq(m, 1, i) = m
      OBVIOUS
    <3> HIDE DEF m, i
    <3>2. parseMsg(SubSeq(m, 1, i)) = <<>>
      BY <3>1, ParseNothing
    <3>3. parseMsg(m) = <<>>
      BY <3>1, <3>2
    <3> QED BY <3>3 DEF Found
  <2> HIDE DEF m
  <2>4. Holds(u, m, hh, k + 1)
    BY <2>1, <2>2, <2>3, HoldsSend
  <2> QED BY <1>2, <2>4 DEF m
<1> QED BY <1>1, <1>2

\* The first message of a passive reader is dropped.
LEMMA CallerSkips ==
  ASSUME TypeOK, pc = "skip", NEW seg, NEW r,
         Caller(seg, r), mode' = mode, replies' = replies, sends' = sends
  PROVE  handled' = handled /\ msg' = <<>> /\ rec' = r /\ Inserted' = Inserted
<1>1. handled' = handled /\ msg' = <<>> /\ rec' = r
  BY DEF Caller
<1> QED BY <1>1 DEF Inserted

\* What may be lost is a number.
LEMMA InsertedType == ASSUME TypeOK PROVE Inserted \in Nat /\ handled \in Seq(Got)
<1>1. handled \in Seq(Got) /\ Len(handled) \in Nat /\ sends \in Nat
  BY LenProperties DEF TypeOK, Got
<1> QED BY <1>1 DEF Inserted

\* A byte is read, and may end a message (msg.py:46-54, 60-71).
LEMMA DelimRecReadByte ==
  ASSUME IndInv, DelimInv, DelimRec, ReadByte, mode # "active" PROVE DelimRec'
<1> DEFINE b == Head(wire)
           m == Append(msg, b)
           r == Append(rec, b)
           seg == SubSeq(m, 1, Len(m) - Len(Magic))
           k == Inserted
           v == Tail(wire)
           t == msg \o wire
<1>1. /\ pc \in {"skip", "read"} /\ wire # <<>> /\ wire' = v
      /\ mode' = mode /\ replies' = replies /\ sends' = sends
      /\ IF IsSuffix(Magic, m) THEN Caller(seg, r) /\ pc' = "read"
                               ELSE msg' = m /\ rec' = r /\ pc' = pc /\ handled' = handled
  BY DEF ReadByte, Delimiting, kind
<1>2. /\ TypeOK /\ ~HasMagic(msg) /\ msg \in Seq(Nat) /\ wire \in Seq(Nat) /\ rec \in Seq(Nat)
      /\ readable \in Seq(Msgs)
  BY DEF IndInv, FirstMagic, TypeOK, Msgs
<1>3. k \in Nat /\ k \in Int /\ handled \in Seq(Got)
  BY <1>2, InsertedType
<1>4. b \in Nat
  BY <1>1, <1>2
<1>5. /\ m \in Seq(Nat) /\ Len(m) = Len(msg) + 1 /\ Len(msg) \in Nat
      /\ m \o v = t /\ Extends(m, v, t)
  BY <1>1, <1>2, ReadOne
<1>6. Grows(rec, b, r) /\ Grows(msg, b, m)
  BY <1>2, <1>4 DEF Grows
<1>7. r \in Seq(Nat)
  BY <1>2, <1>4
<1>8. pc # "done"
  BY <1>1
<1>9. Fresh \/ (pc = "read" /\ Holds(rec, msg, handled, k))
  BY <1>8 DEF DelimRec
<1>10. CASE ~IsSuffix(Magic, m)
  <2>1. msg' = m /\ rec' = r /\ pc' = pc /\ handled' = handled
    BY <1>1, <1>10
  <2>2. Inserted' = k
    BY <1>1, <2>1 DEF Inserted
  <2>3. CASE Fresh
    <3>1. rec' = msg' /\ handled' = <<>>
      BY <2>1, <2>3 DEF Fresh
    <3>2. msg' \o wire' = t
      BY <1>1, <1>5, <2>1
    <3>3. t # <<>> => ~IsHeader(t, 1)
      BY <2>3 DEF Fresh
    <3> HIDE DEF t, m
    <3>4. Fresh'
      BY <3>1, <3>2, <3>3 DEF Fresh
    <3> QED BY <1>8, <2>1, <3>4 DEF DelimRec
  <2>4. CASE pc = "read" /\ Holds(rec, msg, handled, k)
    <3>1. Holds(rec, msg, handled, k)
      BY <2>4
    <3> HIDE DEF k, m, r, b
    <3>2. Holds(r, m, handled, k)
      BY <1>6, <3>1, HoldsGrows
    <3>3. Holds(rec', msg', handled', Inserted')
      BY <2>1, <2>2, <3>2
    <3> QED BY <1>8, <2>1, <2>4, <3>3 DEF DelimRec
  <2> QED BY <1>9, <2>3, <2>4
<1>11. CASE IsSuffix(Magic, m)
  <2>1. Caller(seg, r) /\ pc' = "read"
    BY <1>1, <1>11
  <2>2. PICK st : Ahead(t, readable, Len(handled), pc, st)
    BY DEF DelimInv
  <2>3. m = Append(msg, Head(wire)) /\ seg = SubSeq(m, 1, Len(m) - Len(Magic))
    OBVIOUS
  <2>4. Ahead(msg \o wire, readable, Len(handled), pc, st)
    BY <2>2
  <2> HIDE DEF m, seg, t
  <2>5. PICK q : /\ Ended(m, q) /\ parseMsg(seg) = parseMsg(SubSeq(m, 1, q - 1))
                 /\ Found(parseMsg(seg)) /\ Agrees(m, Len(msg), parseMsg(seg))
    BY <1>1, <1>2, <1>11, <2>3, <2>4, CutRead
  <2> DEFINE p == parseMsg(seg)
  <2>6. p = parseMsg(SubSeq(m, 1, q - 1)) /\ Found(p) /\ Agrees(m, Len(msg), p)
    BY <2>5
  <2>7. Fresh => p = <<>>
    <3>1. SUFFICES ASSUME Fresh PROVE p = <<>>
      OBVIOUS
    <3>2. t # <<>> => ~IsHeader(t, 1)
      BY <3>1 DEF Fresh, t
    <3> DEFINE j == q - 1
    <3>3. j \in Nat /\ j <= Len(m)
      <4>1. q \in Nat \ {0} /\ q <= Len(m) + 1
        BY <2>5 DEF Ended, StopsAt
      <4> QED BY <1>5, <4>1
    <3> HIDE DEF j, v
    <3>4. parseMsg(SubSeq(m, 1, j)) = <<>>
      BY <1>5, <3>2, <3>3, FreshNothing
    <3> QED BY <2>6, <3>4 DEF j
  <2>8. CASE pc = "skip"
    <3>1. Fresh
      BY <1>9, <2>8
    <3>2. handled' = handled /\ msg' = <<>> /\ rec' = r /\ Inserted' = k
      BY <1>1, <1>2, <2>1, <2>8, CallerSkips
    <3>3. handled' = <<>> /\ rec' = m
      BY <3>1, <3>2 DEF Fresh, m
    <3> HIDE DEF k
    <3>4. Holds(m, <<>>, <<>>, k)
      BY <1>3, <1>5, <2>5, FreshCut
    <3>5. Holds(rec', msg', handled', Inserted')
      BY <3>2, <3>3, <3>4
    <3> QED BY <2>1, <3>5 DEF DelimRec
  <2>9. CASE pc = "read"
    <3>1. /\ handled' = handled \o p /\ msg' = <<>>
          /\ \/ rec' = r /\ Inserted' = k
             \/ (\E y : Inserts(r, y, rec')) /\ Inserted' = k + 1
      <4>1. Found(parseMsg(seg)) /\ r \in Seq(Nat) /\ Caller(seg, r)
        BY <1>7, <2>1, <2>5
      <4> HIDE DEF r
      <4> QED BY <1>1, <1>2, <2>9, <4>1, CallerDoes
    <3>2. Fresh => r = m
      BY DEF Fresh, m
    <3> HIDE DEF p, k, r, b
    <3>3. Holds(r, <<>>, handled', k) /\ handled' \in Seq(Got)
      <4>1. handled' \in Seq(Got)
        BY <1>3, <2>6, <3>1, FoundGot
      <4>2. CASE Fresh
        <5>1. handled' = <<>>
          <6>1. handled = <<>> /\ p = <<>>
            BY <2>7, <4>2 DEF Fresh
          <6> QED BY <3>1, <6>1
        <5>2. Holds(m, <<>>, <<>>, k)
          BY <1>3, <1>5, <2>5, FreshCut
        <5>3. r = m
          BY <3>2, <4>2
        <5> QED BY <4>1, <5>1, <5>2, <5>3
      <4>3. CASE Holds(rec, msg, handled, k)
        <5>1. Ended(m, q)
          BY <2>5
        <5>2. Holds(r, <<>>, handled \o p, k)
          BY <1>3, <1>6, <2>6, <4>3, <5>1, HoldsCut
        <5> QED BY <3>1, <4>1, <5>2
      <4> QED BY <1>9, <4>2, <4>3 DEF k
    <3> DEFINE hh == handled'
               u == rec'
               l == Inserted'
    <3>4. /\ hh \in Seq(Got) /\ Holds(r, <<>>, hh, k)
          /\ (u = r /\ l = k) \/ ((\E y : Inserts(r, y, u)) /\ l = k + 1)
      BY <3>1, <3>3
    <3> HIDE DEF hh, u, l
    <3>5. Holds(u, <<>>, hh, l)
      BY <1>3, <1>7, <3>4, AfterCut
    <3>6. Holds(rec', msg', handled', Inserted')
      BY <3>1, <3>5 DEF hh, u, l
    <3> QED BY <2>1, <3>6 DEF DelimRec
  <2> QED BY <1>1, <2>8, <2>9
<1> QED BY <1>10, <1>11

\* The file ends, and with it the last message (msg.py:52-54).
LEMMA DelimRecReadEof ==
  ASSUME IndInv, DelimInv, DelimRec, ReadEof, mode # "active" PROVE DelimRec'
<1> DEFINE k == Inserted
           p == parseMsg(msg)
           e == Len(rec) + 1
<1>1. /\ pc \in {"skip", "read"} /\ wire = <<>> /\ pc' = "done" /\ Caller(msg, rec)
      /\ mode' = mode /\ replies' = replies /\ sends' = sends
  BY DEF ReadEof, Delimiting, kind
<1>2. /\ TypeOK /\ ~HasMagic(msg) /\ msg \in Seq(Nat) /\ wire \in Seq(Nat) /\ rec \in Seq(Nat)
      /\ readable \in Seq(Msgs)
  BY DEF IndInv, FirstMagic, TypeOK, Msgs
<1>3. k \in Nat /\ k \in Int /\ handled \in Seq(Got)
  BY <1>2, InsertedType
<1>4. Fresh \/ (pc = "read" /\ Holds(rec, msg, handled, k))
  BY <1>1 DEF DelimRec
<1>5. PICK st : Ahead(msg \o wire, readable, Len(handled), pc, st)
  BY DEF DelimInv
<1>6. Found(p)
  BY <1>2, <1>5, FoundNow
<1>7. Fresh => p = <<>> /\ Rec(rec, e, <<>>, k)
  <2>1. SUFFICES ASSUME Fresh PROVE p = <<>> /\ Rec(rec, e, <<>>, k)
    OBVIOUS
  <2> DEFINE t == msg \o wire
             j == Len(msg)
  <2>2. t # <<>> => ~IsHeader(t, 1)
    BY <2>1 DEF Fresh
  <2>3. Extends(msg, wire, t)
    <3>1. t = msg \o wire
      OBVIOUS
    <3> HIDE DEF t
    <3> QED BY <1>2, <3>1, ExtendsJoin
  <2>4. j \in Nat /\ j <= Len(msg) /\ SubSeq(msg, 1, j) = msg
    BY <1>2, AtEnd
  <2> HIDE DEF t, j, p
  <2>5. parseMsg(SubSeq(msg, 1, j)) = <<>>
    BY <2>2, <2>3, <2>4, FreshNothing
  <2>6. parseMsg(msg) = <<>>
    BY <2>4, <2>5
  <2> HIDE DEF k
  <2>7. Rec(msg, Len(msg) + 1, <<>>, k)
    BY <1>2, <1>3, <2>6, OwesFresh
  <2> QED BY <2>1, <2>6, <2>7 DEF Fresh, p
<1>8. CASE pc = "skip"
  <2>1. Fresh
    BY <1>4, <1>8
  <2>2. handled' = handled /\ rec' = rec /\ Inserted' = k
    BY <1>1, <1>2, <1>8, CallerSkips
  <2>3. handled' = <<>> /\ Rec(rec, e, <<>>, k)
    BY <1>7, <2>1, <2>2 DEF Fresh
  <2> HIDE DEF k
  <2>4. Rec(rec', Len(rec') + 1, handled', Inserted')
    BY <2>2, <2>3
  <2> QED BY <1>1, <2>4 DEF DelimRec
<1>9. CASE pc = "read"
  <2>1. /\ handled' = handled \o p
        /\ \/ rec' = rec /\ Inserted' = k
           \/ (\E y : Inserts(rec, y, rec')) /\ Inserted' = k + 1
    <3>1. Found(parseMsg(msg)) /\ rec \in Seq(Nat) /\ Caller(msg, rec)
      BY <1>1, <1>2, <1>6
    <3> QED BY <1>1, <1>2, <1>9, <3>1, CallerDoes
  <2> HIDE DEF k
  <2>2. Rec(rec, e, handled', k) /\ handled' \in Seq(Got)
    <3>1. handled' \in Seq(Got)
      <4> HIDE DEF p
      <4> QED BY <1>3, <1>6, <2>1, FoundGot
    <3>2. CASE Fresh
      <4>1. handled' = <<>>
        <5>1. handled = <<>> /\ p = <<>>
          BY <1>7, <3>2 DEF Fresh
        <5> QED BY <2>1, <5>1
      <4> QED BY <1>7, <3>1, <3>2, <4>1
    <3>3. CASE Holds(rec, msg, handled, k)
      <4>1. Rec(rec, Len(rec) + 1, handled \o parseMsg(msg), k)
        BY <1>2, <1>3, <1>6, <3>3, HoldsEnd
      <4> QED BY <2>1, <3>1, <4>1
    <3> QED BY <1>4, <3>2, <3>3 DEF k
  <2> HIDE DEF p
  <2>3. CASE rec' = rec /\ Inserted' = k
    <3>1. Rec(rec', Len(rec') + 1, handled', Inserted')
      BY <2>2, <2>3
    <3> QED BY <1>1, <3>1 DEF DelimRec
  <2>4. CASE (\E y : Inserts(rec, y, rec')) /\ Inserted' = k + 1
    <3>1. PICK y : Inserts(rec, y, rec')
      BY <2>4
    <3> DEFINE u == rec'
               hh == handled'
               l == k + 1
               n == Len(u) + 1
    <3>2. Rec(rec, Len(rec) + 1, hh, k) /\ Inserts(rec, y, u) /\ hh \in Seq(Got)
      BY <2>2, <3>1
    <3>3. l \in Int /\ k <= l
      BY <1>3
    <3> HIDE DEF u, hh, l
    <3>4. Rec(u, n, hh, k)
      BY <3>2, InsertEnd
    <3> HIDE DEF n
    <3>5. Rec(u, n, hh, l)
      BY <1>3, <3>2, <3>3, <3>4, RecMore
    <3>6. Rec(rec', Len(rec') + 1, handled', Inserted')
      BY <2>4, <3>5 DEF u, hh, l, n
    <3> QED BY <1>1, <3>6 DEF DelimRec
  <2> QED BY <2>1, <2>3, <2>4
<1> QED BY <1>1, <1>8, <1>9

\* The program sends, wherever the reader is (semonitor.py:136, 169).
LEMMA DelimRecSend ==
  ASSUME IndInv, DelimInv, DelimRec, SendOther, mode # "active" PROVE DelimRec'
<1> DEFINE k == Inserted
           y == formatMsg(Message(Grant, <<>>))
           u == rec'
           l == k + 1
<1>1. /\ pc = "read" /\ rec' = rec \o Magic \o y /\ sends' = sends + 1
      /\ mode' = mode /\ replies' = replies /\ pc' = pc /\ msg' = msg /\ wire' = wire
      /\ handled' = handled
  BY DEF SendOther, kind, stream
<1>2. /\ TypeOK /\ ~HasMagic(msg) /\ msg \in Seq(Nat) /\ wire \in Seq(Nat) /\ rec \in Seq(Nat)
      /\ readable \in Seq(Msgs) /\ sends \in Nat
  BY DEF IndInv, FirstMagic, TypeOK, Msgs
<1>3. k \in Nat /\ k \in Int /\ handled \in Seq(Got)
  BY <1>2, InsertedType
<1>4. Inserted' = l
  <2>1. Inserted = sends + (IF replies THEN Len(handled) ELSE 0)
    BY DEF Inserted
  <2>2. Inserted' = (sends + 1) + (IF replies THEN Len(handled) ELSE 0)
    BY <1>1 DEF Inserted
  <2> DEFINE n == IF replies THEN Len(handled) ELSE 0
  <2>3. n \in Nat
    BY <1>3, LenProperties
  <2>4. k = sends + n /\ Inserted' = (sends + 1) + n
    BY <2>1, <2>2
  <2> HIDE DEF n, k
  <2> QED BY <1>2, <2>3, <2>4
<1>5. Inserts(rec, y, u)
  <2>1. Frame(y)
    BY FrameIs
  <2> QED BY <1>1, <1>2, <2>1 DEF Inserts
<1>6. Fresh \/ Holds(rec, msg, handled, k)
  BY <1>1 DEF DelimRec
<1>7. PICK st : Ahead(msg \o wire, readable, Len(handled), pc, st)
  BY DEF DelimInv
<1>8. Found(parseMsg(msg))
  BY <1>2, <1>7, FoundNow
<1> HIDE DEF k, y, u
<1>9. Holds(u, msg, handled, l)
  <2>1. CASE Fresh
    <3> DEFINE t == msg \o wire
               j == Len(msg)
    <3>1. t # <<>> => ~IsHeader(t, 1)
      BY <2>1 DEF Fresh
    <3>2. Extends(msg, wire, t)
      <4>1. t = msg \o wire
        OBVIOUS
      <4> HIDE DEF t
      <4> QED BY <1>2, <4>1, ExtendsJoin
    <3>3. j \in Nat /\ j <= Len(msg) /\ SubSeq(msg, 1, j) = msg
      BY <1>2, AtEnd
    <3> HIDE DEF t, j
    <3>4. parseMsg(SubSeq(msg, 1, j)) = <<>>
      BY <3>1, <3>2, <3>3, FreshNothing
    <3>5. parseMsg(msg) = <<>>
      BY <3>3, <3>4
    <3>6. handled = <<>> /\ Inserts(msg, y, u)
      BY <1>5, <2>1 DEF Fresh
    <3>7. Holds(u, msg, <<>>, k + 1)
      BY <1>2, <1>3, <3>5, <3>6, FreshSend
    <3> QED BY <3>6, <3>7
  <2>2. CASE Holds(rec, msg, handled, k)
    BY <1>2, <1>3, <1>5, <1>8, <2>2, HoldsSend
  <2> QED BY <1>6, <2>1, <2>2
<1>10. Holds(rec', msg', handled', Inserted')
  BY <1>1, <1>4, <1>9 DEF u
<1> QED BY <1>1, <1>10 DEF DelimRec

\* Every step keeps DelimRec.
LEMMA DelimRecStep == ASSUME IndInv, DelimInv, DelimRec, [Next]_vars PROVE DelimRec'
<1>1. mode' = mode
  BY DEF Next, PutMessage, PutDamaged, PutStray, Put, EndStream, ReadByte, ReadEof,
         ReadActive, ReadActiveEnd, SendOther, vars, kind
<1>2. CASE mode = "active"
  BY <1>1, <1>2 DEF DelimRec
<1>3. CASE mode # "active"
  <2>1. TypeOK
    BY DEF IndInv
  <2>2. CASE PutMessage \/ PutDamaged \/ PutStray
    BY <1>3, <2>1, <2>2, DelimRecStream
  <2>3. CASE ReadByte
    BY <1>3, <2>3, DelimRecReadByte
  <2>4. CASE ReadEof
    BY <1>3, <2>4, DelimRecReadEof
  <2>5. CASE SendOther
    BY <1>3, <2>5, DelimRecSend
  <2>6. CASE ReadActive \/ ReadActiveEnd
    BY <1>3, <2>6 DEF ReadActive, ReadActiveEnd, Trusting
  <2>7. CASE EndStream \/ UNCHANGED vars
    <3>1. /\ msg' = msg /\ wire' = wire /\ handled' = handled /\ rec' = rec
          /\ pc' = pc /\ sends' = sends /\ replies' = replies
      BY <2>7 DEF EndStream, vars, stream, put, kind
    <3> QED BY <1>1, <3>1 DEF DelimRec, Fresh, Inserted
  <2> QED BY <2>2, <2>3, <2>4, <2>5, <2>6, <2>7 DEF Next
<1> QED BY <1>2, <1>3

\* Nothing that begins after z is a message that the program had received.
LEMMA RecFurther ==
  ASSUME NEW s, NEW z \in Int, NEW y \in Int, z <= y,
         \A i \in Starts(s) : i \in Int /\ (i > z => NoPost(MessageAt(s, i))),
         NEW hh, NEW k, Rec(s, z, hh, k)
  PROVE  Rec(s, y, hh, k)
<1>1. ReceivedTo(s, y) = ReceivedTo(s, z)
  <2>1. ASSUME NEW i \in Received(s) PROVE i <= y <=> i <= z
    <3>1. i \in Starts(s) /\ \E m \in ToSet(MessageAt(s, i)) : m.function = Post
      BY DEF Received
    <3>2. i \in Int /\ ~(i > z)
      BY <3>1 DEF NoPost
    <3> QED BY <3>2
  <2> QED BY <2>1 DEF ReceivedTo
<1> QED BY <1>1 DEF Rec

\* A message with the magic number in it: neither it nor a part of it is found again.
LEMMA NothingFound ==
  ASSUME NEW m \in Msgs, ~Readable(m), NEW r \in Seq(Nat), NEW x, NEW u,
         Extends(Magic, formatMsg(m), x), Extends(r, x, u),
         NEW i \in Starts(u), i > Len(r) + 1
  PROVE  NoPost(MessageAt(u, i))
<1> DEFINE f == formatMsg(m)
           c == Base(r)
           z == Len(r) + 1
           g == i - Len(Magic)
<1>1. /\ Len(r) \in Nat /\ c = Len(r) + Len(Magic) /\ Len(u) = c + Len(f)
      /\ MagicAt(u, c + 1 - Len(Magic)) /\ \A j \in 1 .. Len(f) : u[c + j] = f[j]
      /\ Len(f) \in Nat
  BY PutParts DEF Base
<1>2. f \in Seq(Nat) /\ Len(Magic) \in Nat \ {0} /\ u \in Seq(Nat)
  BY FrameBytes, MagicIsBytes DEF Extends
<1>3. z \in Nat \ {0} /\ c + 1 - Len(Magic) = z /\ MagicEnd(z) = c /\ c \in Nat /\ z + Len(Magic) = c + 1
  <2>1. c + 1 - Len(Magic) = z
    BY <1>1, <1>2
  <2> QED BY <1>1, <1>2, <2>1 DEF MagicEnd
<1>4. MagicAt(u, z)
  BY <1>1, <1>3
<1>5. After(u, c, f)
  <2> HIDE DEF f, c
  <2> QED BY <1>1, <1>2, <1>3 DEF After
<1>6. i \in Int /\ i \in Nat \ {0} /\ i <= Len(u) + 1 /\ i > z
  <2>1. i \in Len(Magic) + 1 .. Len(u) + 1
    BY DEF Starts
  <2> HIDE DEF f, c
  <2> QED BY <1>1, <1>2, <1>3, <2>1
<1>7. MagicAt(u, g) /\ g \in Int /\ i = g + Len(Magic)
  <2>1. MagicAt(u, i - Len(Magic))
    BY <1>2, <1>6, StartsAre
  <2> QED BY <1>2, <1>6, <2>1
<1>p. m \in Msgs /\ ~Readable(m) /\ Extends(Magic, formatMsg(m), x) /\ Extends(r, x, u)
  OBVIOUS
<1> HIDE DEF g, z
<1>8. CASE g < z
  <2>1. g + Len(Magic) <= z
    BY <1>3, <1>4, <1>7, <1>8, MagicApart
  <2> QED BY <1>3, <1>6, <1>7, <2>1
<1>9. CASE g = z
  <2>1. PICK q \in Nat : Ends(f, 1, q)
    <3> DEFINE o == 1
    <3>1. o \in Nat \ {0} /\ o <= Len(f) + 1
      BY <1>1
    <3> HIDE DEF o, f
    <3>2. \E q \in Nat : Ends(f, o, q)
      BY <1>2, <3>1, EndExists
    <3> QED BY <3>2 DEF o
  <2> HIDE DEF c
  <2>2. /\ q \in 1 .. Len(f) + 1 /\ (q = Len(f) + 1 \/ MagicAt(f, q)) /\ FirstAt(f, q)
    BY <2>1 DEF Ends, FirstAt
  <2>3. StopsAt(f, q)
    <3> HIDE DEF f
    <3> QED BY <1>1, <2>2 DEF StopsAt
  <2>4. After(u, MagicEnd(z), f)
    BY <1>3, <1>5
  <2>14. /\ Span(u, z, MagicEnd(z) + q)
         /\ Between(u, z, MagicEnd(z) + q) = SubSeq(f, 1, q - 1)
    <3>1. u \in Seq(Nat) /\ z \in Nat \ {0} /\ MagicAt(u, z) /\ After(u, MagicEnd(z), f) /\ StopsAt(f, q)
      BY <1>2, <1>3, <1>4, <2>3, <2>4
    <3> HIDE DEF f
    <3> QED BY <3>1, LiveSpan
  <2> DEFINE y == MagicEnd(z) + q
  <2>5. Span(u, z, y) /\ Between(u, z, y) = SubSeq(f, 1, q - 1)
    BY <2>14
  <2> HIDE DEF y
  <2>6. MessageAt(u, z + Len(Magic)) = parseMsg(Between(u, z, y))
    BY <1>2, <2>5, SpanIs
  <2>7. Broken(u, c + 1)
    <3>1. 1 \in 1 .. Len(formatMsg(m)) /\ IsHeader(formatMsg(m), 1)
      <4>1. Len(m.data) \in 0 .. 9 /\ Len(formatMsg(m)) = Len(m.data) + 2
            /\ formatMsg(m)[1] = 10 + Len(m.data)
        BY FrameBytes
      <4>2. (10 + Len(m.data)) \div 10 = Post /\ Post \in Functions
        BY <4>1, OnlyHeaders
      <4>3. 1 \in 1 .. Len(formatMsg(m))
        BY <4>1
      <4>4. formatMsg(m)[1] \div 10 \in Functions
        BY <4>1, <4>2
      <4> QED BY <4>3, <4>4 DEF IsHeader
    <3> DEFINE j == 1
    <3>2. j \in 1 .. Len(formatMsg(m)) /\ IsHeader(formatMsg(m), j)
      BY <3>1
    <3> HIDE DEF j
    <3>3. Broken(u, Base(r) + j)
      BY <1>p, <3>2, HoldsMagic
    <3> QED BY <3>3 DEF j, c
  <2>8. Len(f) >= 1 /\ IsHeader(f, 1) => Broken(f, 1)
    <3> DEFINE j == 1
    <3>1. Len(f) >= 1 => j \in 1 .. Len(f)
      BY <1>1
    <3>2. Broken(u, c + j)
      BY <2>7
    <3> HIDE DEF j, f
    <3>3. Len(f) >= 1 => Broken(f, j)
      BY <1>5, <3>1, <3>2, BrokenLeft
    <3> QED BY <3>3 DEF j
  <2>9. parseMsg(SubSeq(f, 1, q - 1)) = <<>>
    <3> HIDE DEF f
    <3> QED BY <1>2, <2>2, <2>8, SegmentNothing
  <2>10. MessageAt(u, i) = <<>>
    <3>1. i = z + Len(Magic)
      BY <1>7, <1>9
    <3> QED BY <2>5, <2>6, <2>9, <3>1
  <2> QED BY <2>10 DEF NoPost, ToSet
<1>10. CASE g > z
  <2>1. z + Len(Magic) <= g
    BY <1>3, <1>4, <1>7, <1>10, MagicApart
  <2>2. i >= c + 1 + Len(Magic)
    BY <1>2, <1>3, <1>7, <2>1
  <2>3. PICK e \in Nat : Ends(u, i, e)
    BY <1>2, <1>6, EndExists
  <2>4. e \in i .. Len(u) + 1
    BY <2>3 DEF Ends
  <2>5. MessageAt(u, i) = parseMsg(SubSeq(u, i, e - 1))
    BY <1>2, <1>6, <2>3, EndIs
  <2> HIDE DEF f, c
  <2> DEFINE d == i - 1
             w == SubSeq(u, i, Len(u))
             l == e - i
  <2>6. d \in Nat /\ i = d + 1 /\ l \in Nat /\ e - 1 = d + l /\ Len(u) \in Nat
    BY <1>1, <1>3, <1>6, <2>4
  <2>7. /\ w \in Seq(Nat) /\ Len(w) = Len(u) - i + 1
        /\ \A k \in 1 .. Len(u) - i + 1 : w[k] = u[i + k - 1]
    <3> DEFINE n == Len(u)
    <3>1. n \in Int /\ 1 <= i /\ i <= n + 1 /\ n <= Len(u)
      BY <1>6, <2>6
    <3> HIDE DEF n
    <3>2. /\ SubSeq(u, i, n) \in Seq(Nat) /\ Len(SubSeq(u, i, n)) = n - i + 1
          /\ \A k \in 1 .. n - i + 1 : SubSeq(u, i, n)[k] = u[i + k - 1]
      BY <1>2, <1>6, <3>1, PartOf
    <3> QED BY <3>2 DEF n
  <2> HIDE DEF w, d, l
  <2>8. Len(w) \in Nat /\ Len(u) = d + Len(w) /\ l <= Len(w)
    <3>1. l = e - i /\ e <= Len(u) + 1
      BY <2>4 DEF l
    <3> QED BY <1>6, <2>4, <2>6, <2>7, <3>1
  <2>9. After(u, d, w)
    <3>1. ASSUME NEW k \in 1 .. Len(w) PROVE w[k] = u[d + k]
      <4>1. k \in 1 .. Len(u) - i + 1 /\ i + k - 1 = d + k
        BY <1>6, <2>6, <2>7, <3>1
      <4> QED BY <2>7, <4>1
    <3> QED BY <1>2, <2>6, <2>7, <2>8, <3>1 DEF After
  <2>10. SubSeq(u, d + 1, d + l) = SubSeq(w, 1, l)
    BY <2>6, <2>8, <2>9, SegmentOf
  <2>11. l = 0 \/ ~IsHeader(w, 1)
    <3>1. SUFFICES ASSUME l # 0, IsHeader(w, 1) PROVE FALSE
      OBVIOUS
    <3>2. 1 \in 1 .. Len(w) /\ i <= Len(u)
      BY <2>6, <2>8, <3>1
    <3>3. w[1] = u[i]
      BY <2>6, <2>9, <3>2 DEF After
    <3> DEFINE j == i - c
    <3>4. j \in 1 .. Len(f) /\ j # 1 /\ i = c + j
      <4>1. /\ c \in Nat /\ Len(f) \in Nat /\ Len(u) = c + Len(f) /\ Len(Magic) \in Nat \ {0}
            /\ i \in Int /\ i >= c + 1 + Len(Magic) /\ i <= Len(u)
        BY <1>1, <1>2, <1>3, <1>6, <2>2, <3>2
      <4> QED BY <4>1
    <3> HIDE DEF j
    <3>5. u[i] = f[j]
      BY <1>1, <3>4
    <3>6. IsHeader(f, j)
      BY <3>1, <3>3, <3>5 DEF IsHeader
    <3> QED BY <1>p, <3>4, <3>6, OneHeader DEF f
  <2>12. parseMsg(SubSeq(w, 1, l)) = <<>>
    BY <2>6, <2>7, <2>8, <2>11, ParseNothing
  <2>13. MessageAt(u, i) = <<>>
    BY <2>5, <2>6, <2>10, <2>12
  <2> QED BY <2>13 DEF NoPost, ToSet
<1> QED BY <1>3, <1>7, <1>8, <1>9, <1>10

\* One message more, with its magic number: the record file gives it again, if it can be read.
LEMMA RecTakes ==
  ASSUME NEW m \in Msgs, NEW r \in Seq(Nat), NEW u, u = r \o (Magic \o formatMsg(m)),
         NEW hh \in Seq(Got), NEW new, new = Append(hh, m), NEW k \in Int, Rec(r, Len(r) + 1, hh, k)
  PROVE  Rec(u, Len(u) + 1, new, k)
<1> DEFINE f == formatMsg(m)
           x == Magic \o f
           z == Len(r) + 1
           y == Len(u) + 1
<1>1. f \in Seq(Nat) /\ Magic \in Seq(Nat) /\ Len(Magic) \in Nat \ {0} /\ x = Magic \o f
  BY FrameBytes, MagicIsBytes
<1>2. u = r \o x
  OBVIOUS
<1> HIDE DEF x
<1>3. Extends(Magic, f, x)
  <2> HIDE DEF f
  <2> QED BY <1>1, ExtendsJoin
<1>4. Extends(r, x, u)
  <2>1. x \in Seq(Nat)
    BY <1>3 DEF Extends
  <2> QED BY <1>2, <2>1, ExtendsJoin
<1>5. /\ Len(r) \in Nat /\ Len(f) \in Nat /\ Base(r) = Len(r) + Len(Magic) /\ Len(u) = Base(r) + Len(f)
      /\ MagicAt(u, Base(r) + 1 - Len(Magic)) /\ \A j \in 1 .. Len(f) : u[Base(r) + j] = f[j]
  BY <1>3, <1>4, PutParts DEF Base
<1>6. /\ z \in Nat \ {0} /\ MagicEnd(z) = Base(r) /\ Base(r) \in Nat /\ z <= y /\ y \in Int
      /\ Base(r) + 1 - Len(Magic) = z
  BY <1>1, <1>5 DEF MagicEnd
<1>7. MagicAt(u, z) /\ u \in Seq(Nat)
  BY <1>4, <1>5, <1>6 DEF Extends
<1>8. Rec(u, z, hh, k)
  <2>1. Settled(r, u, z)
    BY <1>6, <1>7 DEF Settled
  <2>2. Rec(r, z, hh, k)
    OBVIOUS
  <2>3. z \in Nat
    BY <1>6
  <2> HIDE DEF z
  <2> QED BY <1>4, <2>1, <2>2, <2>3, RecKept
<1>9. new = hh \o <<m>> /\ Adds(hh, m, new)
  <2>1. m \in Got
    BY MsgsAreGot
  <2>2. new = hh \o <<m>>
    BY <2>1, AppendIsConcat
  <2> QED BY <2>1, <2>2 DEF Adds
<1>10. CASE Readable(m)
  <2>1. After(u, MagicEnd(z), f)
    <3> HIDE DEF f, z
    <3> DEFINE c == MagicEnd(z)
    <3>1. /\ c \in Nat /\ Len(f) \in Nat /\ f \in Seq(Nat) /\ u \in Seq(Nat) /\ Len(u) \in Nat
          /\ Len(u) = c + Len(f) /\ \A j \in 1 .. Len(f) : f[j] = u[c + j]
      <4>1. c = Base(r)
        BY <1>6
      <4> HIDE DEF c
      <4> QED BY <1>1, <1>5, <1>6, <1>7, <4>1, LenProperties
    <3> HIDE DEF c
    <3>2. After(u, c, f)
      BY <3>1 DEF After
    <3> QED BY <3>2 DEF c
  <2>2. Live(u, f, hh, k)
    BY <1>6, <1>7, <1>8, <2>1 DEF Live
  <2>3. ~HasMagic(f)
    BY <1>10 DEF Readable
  <2>4. parseMsg(f) = <<m>>
    <3>1. <<>> \in Seq(Nat) /\ f \o <<>> = f
      BY <1>1
    <3>2. parseMsg(f \o <<>>) = <<m>>
      BY <3>1, BytesOf
    <3> QED BY <3>1, <3>2
  <2>5. Found(parseMsg(f))
    BY <1>10, <2>4 DEF Found
  <2> HIDE DEF f
  <2>6. Rec(u, Len(u) + 1, hh \o parseMsg(f), k)
    BY <1>1, <1>7, <2>2, <2>3, <2>5, LiveEnd
  <2> QED BY <1>9, <2>4, <2>6
<1>11. CASE ~Readable(m)
  <2>1. ASSUME NEW i \in Starts(u) PROVE i \in Int /\ (i > z => NoPost(MessageAt(u, i)))
    <3>1. i \in Int
      <4>1. i \in Len(Magic) + 1 .. Len(u) + 1
        BY DEF Starts
      <4> QED BY <4>1
    <3>2. i > z => NoPost(MessageAt(u, i))
      BY <1>3, <1>4, <1>11, NothingFound
    <3> QED BY <3>1, <3>2
  <2>2. z \in Int /\ y \in Int /\ z <= y
    BY <1>6
  <2> HIDE DEF z, y
  <2>3. Rec(u, y, hh, k)
    BY <1>8, <2>1, <2>2, RecFurther
  <2>4. Rec(u, y, new, k)
    BY <1>9, <1>11, <2>3, RecUnread
  <2> QED BY <2>4 DEF y
<1> QED BY <1>10, <1>11

\* What the record file would give, when the reader goes by the length.
ActiveRec == mode = "active" /\ damage = 0 => Rec(rec, Len(rec) + 1, handled, 0)

\* Nothing has been read and recorded yet.
LEMMA ActiveRecInit == ASSUME Init PROVE ActiveRec
<1>1. rec = <<>> /\ handled = <<>>
  BY DEF Init
<1> DEFINE s == <<>>
           y == 1
           k == 0
<1>2. s \in Seq(Nat) /\ y \in Int /\ k \in Nat /\ Len(s) + 1 = y
  OBVIOUS
<1>3. \A g \in Int : g < y => ~MagicAt(s, g)
  BY DEF MagicAt
<1> HIDE DEF s, y, k
<1>4. Rec(s, y, <<>>, k)
  BY <1>2, <1>3, NothingBefore
<1>5. Rec(rec, Len(rec) + 1, handled, 0)
  BY <1>1, <1>2, <1>4 DEF s, k
<1> QED BY <1>5 DEF ActiveRec

\* Every step keeps ActiveRec: a message is read and recorded whole (msg.py:34-44).
LEMMA ActiveRecStep ==
  ASSUME TypeOK, ActiveInv, ActiveRec, [Next]_vars PROVE ActiveRec'
<1> SUFFICES ASSUME mode' = "active", damage' = 0 PROVE Rec(rec', Len(rec') + 1, handled', 0)
  BY DEF ActiveRec
<1>1. mode = "active" /\ damage = 0
  <2>1. mode' = mode
    BY DEF Next, PutMessage, PutDamaged, PutStray, Put, EndStream, ReadByte, ReadEof,
           ReadActive, ReadActiveEnd, SendOther, vars, kind
  <2>2. damage' = damage \/ damage' = damage + 1
    BY DEF Next, PutMessage, PutDamaged, PutStray, Put, Damage, EndStream, ReadByte, ReadEof,
           ReadActive, ReadActiveEnd, SendOther, vars, stream, put
  <2>3. damage \in Nat
    BY DEF TypeOK
  <2>4. damage + 1 # 0
    BY <2>3
  <2> QED BY <2>1, <2>2, <2>4
<1>2. Rec(rec, Len(rec) + 1, handled, 0)
  BY <1>1 DEF ActiveRec
<1>3. rec \in Seq(Nat) /\ handled \in Seq(Got)
  BY DEF TypeOK, Got
<1>4. CASE PutMessage \/ PutDamaged \/ PutStray \/ EndStream \/ UNCHANGED vars
  <2>1. rec' = rec /\ handled' = handled
    BY <1>4 DEF PutMessage, PutDamaged, PutStray, Put, EndStream, vars
  <2> QED BY <1>2, <2>1
<1>5. CASE ReadByte \/ ReadEof
  BY <1>1, <1>5 DEF ReadByte, ReadEof, Delimiting
<1>6. CASE ReadActive
  <2> DEFINE m == sent[Len(handled) + 1]
             u == rec'
             new == handled'
             k == 0
  <2>1. m \in Msgs /\ new = Append(handled, m) /\ u = rec \o (Magic \o formatMsg(m))
    BY <1>1, <1>6, ActiveTakes
  <2>2. Rec(rec, Len(rec) + 1, handled, k) /\ k \in Int
    BY <1>2
  <2> HIDE DEF m, u, new, k
  <2>3. Rec(u, Len(u) + 1, new, k)
    BY <1>3, <2>1, <2>2, RecTakes
  <2> QED BY <2>3 DEF u, new, k
<1>7. CASE ReadActiveEnd
  <2>1. handled' = handled /\ rec' = rec \o wire /\ Len(wire) < Len(Magic) + 1
    BY <1>7 DEF ReadActiveEnd
  <2>2. PICK at : InStep(wire, sent, Len(handled), at)
    BY <1>1 DEF ActiveInv
  <2>3. sent \in Seq(Msgs) /\ wire \in Seq(Nat)
    BY DEF TypeOK, Msgs
  <2>4. wire = <<>>
    BY <2>1, <2>2, <2>3, InStepEnd
  <2>5. rec' = rec
    BY <1>3, <2>1, <2>4
  <2> QED BY <1>2, <2>1, <2>5
<1>8. CASE SendOther
  <2> DEFINE y == formatMsg(Message(Grant, <<>>))
             u == rec'
  <2>1. handled' = handled /\ u = rec \o Magic \o y
    BY <1>8 DEF SendOther
  <2>2. Frame(y)
    BY FrameIs
  <2>3. Inserts(rec, y, u)
    BY <1>3, <2>1, <2>2 DEF Inserts
  <2> HIDE DEF y, u
  <2>4. Rec(u, Len(u) + 1, handled, 0)
    BY <1>2, <2>3, InsertEnd
  <2> QED BY <2>1, <2>4 DEF u
<1> QED BY <1>4, <1>5, <1>6, <1>7, <1>8 DEF Next

\* What has been recorded is what can be read again.
LEMMA RecGives ==
  ASSUME NEW k \in Nat, rec \in Seq(Nat), Rec(rec, Len(rec) + 1, handled, k)
  PROVE  Replays({n \in DOMAIN handled : Readable(handled[n])}, k)
<1> DEFINE expected == {n \in DOMAIN handled : Readable(handled[n])}
           found == Received(rec)
<1>1. ReceivedTo(rec, Len(rec) + 1) = found
  <2>1. ASSUME NEW i \in Received(rec) PROVE i <= Len(rec) + 1
    <3>1. i \in Len(Magic) + 1 .. Len(rec) + 1
      BY DEF Received, Starts
    <3> QED BY <3>1
  <2> QED BY <2>1 DEF ReceivedTo
<1>2. PICK at : /\ Fits(rec, found, handled, at)
                /\ Cardinality(Missing(found, handled, at)) <= k
  BY <1>1 DEF Rec
<1> HIDE DEF found
<1>3. /\ at \in [found -> expected]
      /\ \A i, j \in found : i < j => at[i] < at[j]
      /\ \A i \in found : MessageAt(rec, i) = <<handled[at[i]]>>
  BY <1>2 DEF Fits
<1>4. Cardinality(expected \ {at[i] : i \in found}) <= k
  BY <1>2 DEF Missing
<1> HIDE DEF expected
<1>5. Replays(expected, k)
  BY <1>3, <1>4 DEF Replays, found
<1> QED BY <1>5 DEF expected

\* The two are what the property says when the reader is done.
LEMMA RecImplies == ASSUME TypeOK, DelimRec, ActiveRec PROVE ReplayLosesFew
<1> SUFFICES ASSUME pc = "done", mode # "active" \/ damage = 0
             PROVE  Replays({k \in DOMAIN handled : Readable(handled[k])}, Inserted)
  BY DEF ReplayLosesFew
<1>1. Inserted \in Nat /\ rec \in Seq(Nat)
  BY InsertedType DEF TypeOK
<1>2. Rec(rec, Len(rec) + 1, handled, Inserted)
  <2>1. CASE mode = "active"
    <3>1. Inserted = 0
      BY <2>1 DEF Inserted
    <3>2. Rec(rec, Len(rec) + 1, handled, 0)
      BY <2>1 DEF ActiveRec
    <3> QED BY <3>1, <3>2
  <2>2. CASE mode # "active"
    BY <2>2 DEF DelimRec
  <2> QED BY <2>1, <2>2
<1> DEFINE k == Inserted
<1>3. k \in Nat /\ Rec(rec, Len(rec) + 1, handled, k)
  BY <1>1, <1>2
<1> HIDE DEF k
<1>4. Replays({n \in DOMAIN handled : Readable(handled[n])}, k)
  BY <1>1, <1>3, RecGives
<1> QED BY <1>4 DEF k

\* Read again, a record file gives the messages that were handled, in order, less at most
\* one for each thing the program sent, wherever between the bytes that was recorded, and
\* all of them when it sent nothing; reading by the length loses none of what arrives
\* undamaged (msg.py:60-71, 137-150; test/test.sh:29-36).
THEOREM RecordKeepsMessages == Spec => []ReplayLosesFew
<1>1. Init => DelimInv /\ DelimRec /\ ActiveInv /\ ActiveRec
  BY DelimInit, DelimRecInit, ActiveInit, ActiveRecInit
<1>2. IndInv /\ (DelimInv /\ DelimRec /\ ActiveInv /\ ActiveRec) /\ [Next]_vars
        => (DelimInv /\ DelimRec /\ ActiveInv /\ ActiveRec)'
  <2>1. IndInv => TypeOK
    BY DEF IndInv
  <2> QED BY <2>1, DelimStep, DelimRecStep, ActiveStep, ActiveRecStep
<1>3. IndInv /\ (DelimInv /\ DelimRec /\ ActiveInv /\ ActiveRec) => ReplayLosesFew
  BY RecImplies DEF IndInv
<1> QED BY <1>1, <1>2, <1>3, EndsWithFirstMagic, PTL DEF Spec
=============================================================================
