-------------------------- MODULE DeviceDataProofs --------------------------
(***************************************************************************)
(* For any messages: the definition of a class is as long as the longest   *)
(* record it has met; complete records are refused for that reason, or for *)
(* the name of a battery; no entry of a battery or a meter is made from    *)
(* two records; and an entry has a rest exactly if one of the records that *)
(* were merged in it is longer than the fields of its type.                *)
(***************************************************************************)
EXTENDS DeviceData, TLAPS, SequenceTheorems

\* Max of the community modules, for two numbers.
LEMMA MaxOfTwo ==
  ASSUME NEW a \in Nat, NEW b \in Nat
  PROVE  Max({a, b}) = IF a < b THEN b ELSE a
<1> DEFINE m == IF a < b THEN b ELSE a
<1>1. m \in {a, b} /\ \A y \in {a, b} : m >= y
  OBVIOUS
<1>2. \A x \in {a, b} : (\A y \in {a, b} : x >= y) => x = m
  OBVIOUS
<1> QED BY <1>1, <1>2 DEF Max

\* Whatever is appended to a sequence, it remains one.
LEMMA AppendToAny ==
  ASSUME NEW s, s \in Seq(Range(s)), NEW e
  PROVE  /\ Append(s, e) \in Seq(Range(Append(s, e)))
         /\ Len(Append(s, e)) = Len(s) + 1
         /\ \A i \in 1 .. Len(s) : Append(s, e)[i] = s[i]
         /\ Append(s, e)[Len(s) + 1] = e
<1> DEFINE T == Range(s) \cup {e}
           t == Append(s, e)
<1>1. s \in Seq(T)
  BY SeqMonotonic
<1>2. /\ t \in Seq(T)
      /\ Len(t) = Len(s) + 1
      /\ \A i \in 1 .. Len(s) : t[i] = s[i]
      /\ t[Len(s) + 1] = e
  BY <1>1, AppendProperties
<1>3. \A i \in 1 .. Len(t) : t[i] \in Range(t)
  BY <1>2, LenProperties DEF Range
<1>4. t \in Seq(Range(t))
  BY <1>2, <1>3, SeqDef, LenProperties
<1> QED BY <1>2, <1>4

\* What Extended does to the definition of a class.
LEMMA ExtendedProperties ==
  ASSUME NEW d \in Seq(Nat), Len(d) >= 1, NEW r, r.len \in Nat
  PROVE  /\ Extended(d, r) \in Seq(Nat)
         /\ Len(Extended(d, r)) >= Len(d)
         /\ defnLen(Extended(d, r)) = IF defnLen(d) < r.len THEN r.len ELSE defnLen(d)
         /\ defnLen(d) \in Nat
<1>1. Len(d) \in Nat /\ d[Len(d)] \in Nat
  BY LenProperties, ElementOfSeq
<1>2. CASE defnLen(d) < r.len
  <2>1. Extended(d, r) = Append(d, r.len)
    BY <1>2 DEF Extended
  <2>2. /\ Append(d, r.len) \in Seq(Nat)
        /\ Len(Append(d, r.len)) = Len(d) + 1
        /\ Append(d, r.len)[Len(d) + 1] = r.len
    BY AppendProperties
  <2> QED BY <1>1, <1>2, <2>1, <2>2 DEF defnLen
<1>3. CASE ~(defnLen(d) < r.len)
  BY <1>1, <1>3 DEF Extended, defnLen
<1> QED BY <1>2, <1>3

\* The record in hand is one of a message.
LEMMA RecordInHand ==
  ASSUME TypeOK, pc = "parse", at <= Len(cur)
  PROVE  IsRecord(cur[at]) /\ Len(cur) \in Nat /\ at \in Nat
<1>1. cur \in Messages
  BY DEF TypeOK
<1>2. Len(cur) \in Nat
  BY <1>1, MessagesAssumption
<1>3. at \in 1 .. Len(cur)
  BY <1>2 DEF TypeOK
<1>4. IsRecord(cur[at])
  BY <1>1, <1>3, MessagesAssumption
<1> QED BY <1>2, <1>3, <1>4

\* Learning keeps the types, and definitions only grow.
LEMMA LearnType ==
  ASSUME TypeOK, NEW r, IsRecord(r), Learn(r)
  PROVE  /\ defn' \in [Classes -> Seq(Nat)]
         /\ \A c \in Classes : Len(defn'[c]) >= Len(defn[c]) /\ Len(defn[c]) >= 1
         /\ \A c \in Classes : Len(defn'[c]) >= 1
         /\ longest' \in [Classes -> Nat]
<1>1. r.len \in Nat
  BY DEF IsRecord
<1>2. \A c \in Classes : /\ defn[c] \in Seq(Nat) /\ Len(defn[c]) >= 1 /\ Len(defn[c]) \in Nat
                         /\ longest[c] \in Nat
  BY LenProperties DEF TypeOK
<1>3. CASE r.type \in Classes
  <2>1. /\ defn' = [defn EXCEPT ![r.type] = Extended(@, r)]
        /\ longest' = [longest EXCEPT ![r.type] = Max({@, r.len})]
    BY <1>3 DEF Learn
  <2>2. /\ Extended(defn[r.type], r) \in Seq(Nat)
        /\ Len(Extended(defn[r.type], r)) >= Len(defn[r.type])
        /\ Len(Extended(defn[r.type], r)) \in Nat
    BY <1>1, <1>2, <1>3, ExtendedProperties, LenProperties
  <2>3. Max({longest[r.type], r.len}) \in Nat
    BY <1>1, <1>2, <1>3, MaxOfTwo
  <2>4. /\ defn \in [Classes -> Seq(Nat)] /\ longest \in [Classes -> Nat]
    BY DEF TypeOK
  <2>5. \A c \in Classes : defn'[c] = IF c = r.type THEN Extended(defn[r.type], r) ELSE defn[c]
    BY <1>3, <2>1, <2>4
  <2>6. defn' \in [Classes -> Seq(Nat)] /\ longest' \in [Classes -> Nat]
    BY <1>3, <2>1, <2>2, <2>3, <2>4
  <2>7. \A c \in Classes : Len(defn'[c]) >= Len(defn[c]) /\ Len(defn'[c]) \in Nat
    BY <1>2, <2>2, <2>5
  <2>8. \A c \in Classes : Len(defn'[c]) >= 1
    BY <1>2, <2>7
  <2> QED BY <1>2, <2>6, <2>7, <2>8
<1>4. CASE r.type \notin Classes
  <2>1. defn' = defn /\ longest' = longest
    BY <1>4 DEF Learn
  <2> QED BY <1>2, <2>1 DEF TypeOK
<1> QED BY <1>3, <1>4

-----------------------------------------------------------------------------
(* Types. *)

LEMMA TypeInit == Init => TypeOK
<1> SUFFICES ASSUME Init PROVE TypeOK
  OBVIOUS
<1>1. \A c \in Classes : Need[c] \in Nat
  BY NeedAssumption DEF Types
<1>2. defn \in [Classes -> Seq(Nat)] /\ \A c \in Classes : Len(defn[c]) >= 1
  BY <1>1 DEF Init
<1>3. longest \in [Classes -> Nat]
  BY <1>1 DEF Init
<1>4. /\ pc \in {"idle", "parse"} /\ cur = <<>> /\ pc # "parse" /\ at \in 1 .. Len(cur) + 1
      /\ DOMAIN out = Kinds
  BY DEF Init, Nothing
<1>5. /\ lines = <<>> /\ accepted = <<>> /\ Len(lines) = 0 /\ Len(accepted) = 0
      /\ msgs = 0 /\ restarts = 0
  BY DEF Init
<1>6. lines \in Seq(Range(lines)) /\ accepted \in Seq(Messages)
  BY <1>5, EmptySeq
<1> QED BY <1>2, <1>3, <1>4, <1>5, <1>6, BoundsAssumption DEF TypeOK

LEMMA TypeStep == TypeOK /\ [Next]_ddVars => TypeOK'
<1> SUFFICES ASSUME TypeOK, [Next]_ddVars PROVE TypeOK'
  OBVIOUS
<1> DEFINE ClassType == /\ defn \in [Classes -> Seq(Nat)]
                        /\ \A c \in Classes : Len(defn[c]) >= 1
                        /\ longest \in [Classes -> Nat]
           LoopType  == /\ pc \in {"idle", "parse"}
                        /\ IF pc = "parse" THEN cur \in Messages ELSE cur = <<>>
                        /\ at \in 1 .. Len(cur) + 1
                        /\ DOMAIN out = Kinds
           LinesType == /\ lines \in Seq(Range(lines)) /\ accepted \in Seq(Messages)
                        /\ Len(lines) = Len(accepted)
                        /\ Len(lines) <= IF pc = "parse" THEN msgs - 1 ELSE msgs
           BoundType == msgs \in 0 .. MaxMsgs /\ restarts \in 0 .. MaxRestarts
<1>1. ClassType /\ LoopType /\ LinesType /\ BoundType
  BY DEF TypeOK
<1>2. ClassType'
  <2>1. CASE ParseRecord \/ RecordRaises
    <3>1. Learn(cur[at]) /\ pc = "parse" /\ at <= Len(cur)
      BY <2>1 DEF ParseRecord, RecordRaises
    <3> QED BY <3>1, RecordInHand, LearnType
  <2>2. CASE RestartParser
    <3>1. \A c \in Classes : Need[c] \in Nat
      BY NeedAssumption DEF Types
    <3> QED BY <2>2, <3>1 DEF RestartParser
  <2>3. CASE UNCHANGED <<defn, longest>>
    BY <1>1, <2>3
  <2> QED BY <2>1, <2>2, <2>3 DEF Next, Receive, WriteLine, ddVars, loop, history
<1>3. LoopType'
  <2>1. CASE Receive
    <3>1. cur' \in Messages /\ Len(cur') \in Nat
      BY <2>1, MessagesAssumption DEF Receive
    <3> QED BY <2>1, <3>1 DEF Receive, Nothing
  <2>2. CASE ParseRecord
    <3>1. Len(cur) \in Nat /\ at \in Nat /\ at <= Len(cur)
      BY <2>2, RecordInHand DEF ParseRecord
    <3>2. at' \in 1 .. Len(cur') + 1
      BY <2>2, <3>1 DEF ParseRecord
    <3>3. DOMAIN out' = DOMAIN out
      BY <2>2 DEF ParseRecord, Merged
    <3> QED BY <1>1, <2>2, <3>2, <3>3 DEF ParseRecord
  <2>3. CASE RecordRaises \/ WriteLine \/ RestartParser
    BY <2>3 DEF RecordRaises, WriteLine, RestartParser, Nothing
  <2>4. CASE UNCHANGED ddVars
    BY <1>1, <2>4 DEF ddVars, loop
  <2> QED BY <2>1, <2>2, <2>3, <2>4 DEF Next
<1>4. LinesType' /\ BoundType'
  <2>1. CASE Receive
    <3>1. /\ msgs' = msgs + 1 /\ msgs < MaxMsgs /\ pc = "idle" /\ pc' = "parse"
          /\ UNCHANGED <<lines, accepted, restarts>>
      BY <2>1 DEF Receive, history
    <3>2. msgs' \in 0 .. MaxMsgs /\ Len(lines') <= msgs' - 1
      BY <1>1, <3>1, LenProperties, BoundsAssumption
    <3> QED BY <1>1, <3>1, <3>2
  <2>2. CASE WriteLine
    <3>1. CASE cur = <<>>
      BY <1>1, <2>2, <3>1 DEF WriteLine
    <3>2. CASE cur # <<>>
      <4>1. cur \in Messages
        BY <1>1, <3>2
      <4>2. lines' = Append(lines, out) /\ accepted' = Append(accepted, cur) /\ UNCHANGED <<msgs, restarts>>
        BY <2>2, <3>2 DEF WriteLine
      <4>3. /\ lines' \in Seq(Range(lines')) /\ Len(lines') = Len(lines) + 1
        BY <1>1, <4>2, AppendToAny
      <4>4. /\ accepted' \in Seq(Messages) /\ Len(accepted') = Len(accepted) + 1
        BY <1>1, <4>1, <4>2, AppendProperties
      <4>5. Len(lines) < msgs
        BY <1>1, <2>2, LenProperties DEF WriteLine
      <4>6. pc' = "idle" /\ Len(lines) \in Nat /\ msgs \in Nat
        BY <1>1, <2>2, LenProperties DEF WriteLine
      <4> QED BY <1>1, <4>2, <4>3, <4>4, <4>5, <4>6
    <3> QED BY <3>1, <3>2
  <2>3. CASE RecordRaises
    <3>1. /\ UNCHANGED <<lines, accepted, msgs, restarts>>
          /\ pc = "parse" /\ pc' = "idle"
      BY <2>3 DEF RecordRaises
    <3>2. Len(lines) \in Nat /\ msgs \in Nat
      BY <1>1, LenProperties, BoundsAssumption
    <3> QED BY <1>1, <3>1, <3>2
  <2>4. CASE ParseRecord \/ UNCHANGED ddVars
    <3>1. UNCHANGED <<lines, accepted, msgs, restarts, pc>>
      BY <2>4 DEF ParseRecord, ddVars, history, loop
    <3> QED BY <1>1, <3>1
  <2>5. CASE RestartParser
    <3>1. /\ UNCHANGED <<lines, accepted, msgs>> /\ pc' = "idle"
          /\ restarts < MaxRestarts /\ restarts' = restarts + 1
      BY <2>5 DEF RestartParser
    <3>2. Len(lines) \in Nat /\ msgs \in Nat
      BY <1>1, LenProperties, BoundsAssumption
    <3> QED BY <1>1, <3>1, <3>2, BoundsAssumption
  <2> QED BY <2>1, <2>2, <2>3, <2>4, <2>5 DEF Next
<1> QED BY <1>2, <1>3, <1>4 DEF TypeOK

\* The definitions, the message in hand and the lines keep their types.
THEOREM TypeCorrect == Spec => []TypeOK
BY TypeInit, TypeStep, PTL DEF Spec

-----------------------------------------------------------------------------
(* The definitions. *)

\* A record longer than the definition puts its length at the end, and nothing
\* else changes it but a restart.
LEMMA LearnIsLongest ==
  ASSUME TypeOK, DefinitionIsLongest, NEW r, IsRecord(r), Learn(r)
  PROVE  DefinitionIsLongest'
<1>1. r.len \in Nat
  BY DEF IsRecord
<1> SUFFICES ASSUME NEW c \in Classes
             PROVE  /\ defnLen(defn'[c]) = longest'[c]
                    /\ \A i, j \in 1 .. Len(defn'[c]) : i < j => defn'[c][i] < defn'[c][j]
  BY DEF DefinitionIsLongest
<1>2. /\ defn[c] \in Seq(Nat) /\ Len(defn[c]) >= 1 /\ Len(defn[c]) \in Nat
      /\ defnLen(defn[c]) = longest[c] /\ longest[c] \in Nat
      /\ \A i, j \in 1 .. Len(defn[c]) : i < j => defn[c][i] < defn[c][j]
  BY LenProperties DEF TypeOK, DefinitionIsLongest
<1>3. CASE c = r.type
  <2>1. /\ defn'[c] = Extended(defn[c], r)
        /\ longest'[c] = Max({longest[c], r.len})
    BY <1>3 DEF Learn, TypeOK
  <2>2. defnLen(defn'[c]) = longest'[c]
    <3>1. defnLen(Extended(defn[c], r)) = IF longest[c] < r.len THEN r.len ELSE longest[c]
      BY <1>1, <1>2, ExtendedProperties
    <3>2. Max({longest[c], r.len}) = IF longest[c] < r.len THEN r.len ELSE longest[c]
      BY <1>1, <1>2, MaxOfTwo
    <3> QED BY <2>1, <3>1, <3>2
  <2>3. ASSUME NEW i \in 1 .. Len(defn'[c]), NEW j \in 1 .. Len(defn'[c]), i < j
        PROVE  defn'[c][i] < defn'[c][j]
    <3>1. CASE ~(defnLen(defn[c]) < r.len)
      <4>1. defn'[c] = defn[c]
        BY <2>1, <3>1 DEF Extended
      <4> QED BY <1>2, <2>3, <4>1
    <3>2. CASE defnLen(defn[c]) < r.len
      <4> DEFINE d == defn[c]
      <4>1. defn'[c] = Append(d, r.len)
        BY <2>1, <3>2 DEF Extended
      <4> HIDE DEF d
      <4>2. /\ d \in Seq(Nat) /\ Len(d) \in Nat /\ Len(d) >= 1 /\ d[Len(d)] < r.len
            /\ \A k, l \in 1 .. Len(d) : k < l => d[k] < d[l]
        BY <1>2, <3>2 DEF d, defnLen
      <4>3. /\ Len(Append(d, r.len)) = Len(d) + 1
            /\ \A k \in 1 .. Len(d) : Append(d, r.len)[k] = d[k]
            /\ Append(d, r.len)[Len(d) + 1] = r.len
        BY <1>1, <4>2, AppendProperties
      <4>4. i \in 1 .. Len(d)
        BY <2>3, <4>1, <4>2, <4>3
      <4>5. \A k \in 1 .. Len(d) : d[k] \in Nat
        BY <4>2, ElementOfSeq
      <4>6. CASE j = Len(d) + 1
        <5>1. d[i] <= d[Len(d)]
          <6>1. CASE i = Len(d)
            BY <4>4, <4>5, <6>1
          <6>2. CASE i < Len(d)
            BY <4>2, <4>4, <4>5, <6>2
          <6> QED BY <4>2, <4>4, <6>1, <6>2
        <5>2. d[i] < r.len
          BY <1>1, <4>2, <4>4, <4>5, <5>1
        <5> QED BY <4>1, <4>3, <4>4, <4>6, <5>2
      <4>7. CASE j # Len(d) + 1
        <5>1. j \in 1 .. Len(d)
          BY <4>1, <4>2, <4>3, <4>7
        <5> QED BY <2>3, <4>1, <4>2, <4>3, <4>4, <5>1
      <4> QED BY <4>6, <4>7
    <3> QED BY <3>1, <3>2
  <2> QED BY <2>2, <2>3
<1>4. CASE c # r.type
  <2>1. defn'[c] = defn[c] /\ longest'[c] = longest[c]
    BY <1>4 DEF Learn, TypeOK
  <2> QED BY <1>2, <2>1
<1> QED BY <1>3, <1>4

\* A definition never forgets: it is as long as the longest record of its class
\* since the program started (datadevices.py:214-223).
THEOREM DefinitionGrows == Spec => []DefinitionIsLongest
<1>1. Init => DefinitionIsLongest
  <2> SUFFICES ASSUME Init, NEW c \in Classes
               PROVE  /\ defnLen(defn[c]) = longest[c]
                      /\ \A i, j \in 1 .. Len(defn[c]) : i < j => defn[c][i] < defn[c][j]
    BY DEF DefinitionIsLongest
  <2>1. defn[c] = <<Need[c]>> /\ longest[c] = Need[c]
    BY DEF Init
  <2>2. Len(<<Need[c]>>) = 1 /\ <<Need[c]>>[1] = Need[c]
    OBVIOUS
  <2> QED BY <2>1, <2>2 DEF defnLen
<1>2. TypeOK /\ DefinitionIsLongest /\ [Next]_ddVars => DefinitionIsLongest'
  <2> SUFFICES ASSUME TypeOK, DefinitionIsLongest, [Next]_ddVars
               PROVE  DefinitionIsLongest'
    OBVIOUS
  <2>1. CASE ParseRecord \/ RecordRaises
    <3>1. Learn(cur[at]) /\ IsRecord(cur[at])
      BY <2>1, RecordInHand DEF ParseRecord, RecordRaises
    <3> QED BY <3>1, LearnIsLongest
  <2>2. CASE RestartParser
    <3> SUFFICES ASSUME NEW c \in Classes
                 PROVE  /\ defnLen(defn'[c]) = longest'[c]
                        /\ \A i, j \in 1 .. Len(defn'[c]) : i < j => defn'[c][i] < defn'[c][j]
      BY DEF DefinitionIsLongest
    <3>1. defn'[c] = <<Need[c]>> /\ longest'[c] = Need[c]
      BY <2>2 DEF RestartParser
    <3>2. Len(<<Need[c]>>) = 1 /\ <<Need[c]>>[1] = Need[c]
      OBVIOUS
    <3> QED BY <3>1, <3>2 DEF defnLen
  <2>3. CASE UNCHANGED <<defn, longest>>
    BY <2>3 DEF DefinitionIsLongest
  <2> QED BY <2>1, <2>2, <2>3 DEF Next, Receive, WriteLine, ddVars, history
<1> QED BY <1>1, <1>2, TypeCorrect, PTL DEF Spec

\* But for the name of a battery that is no text, the only reason to refuse a complete
\* record is a longer one of its class before it, parsed or refused itself: no record of a
\* type without a class is, and none of a class before its first long one
\* (datadevices.py:214-223, 241-248).
THEOREM RefusedForALonger == Spec => RefusedAfterLonger
<1>1. ASSUME TypeOK, DefinitionIsLongest, RecordRaises, Complete(cur[at]), ~NoName(cur[at])
      PROVE  cur[at].type \in Classes /\ longest[cur[at].type] > cur[at].len
  <2> DEFINE r == cur[at]
  <2>1. IsRecord(r) /\ Fails(r)
    BY <1>1, RecordInHand DEF RecordRaises
  <2> HIDE DEF r
  <2>2. r.type \in Types /\ r.have = r.len /\ r.len \in Nat
    BY <1>1, <2>1 DEF Complete, IsRecord, r
  <2>3. Need[r.type] \in Nat
    BY <2>2, NeedAssumption
  <2>4. r.type # "cut"
    BY <2>2 DEF Types, Optimizers, Inverters, Events, Classes, Others
  <2>5. r.len >= Need[r.type] /\ (r.type \in Events => r.len = Need[r.type])
    BY <1>1, <2>3 DEF Complete, r
  <2>6. r.type \in Classes \cup Others /\ defnLen(Definition(r)) > r.len
    <3>1. ~NoName(r)
      BY <1>1 DEF r
    <3> QED BY <2>1, <2>2, <2>3, <2>4, <2>5, <3>1 DEF Fails, TooShort
  <2>7. r.type \in Classes
    <3>1. SUFFICES ASSUME r.type \notin Classes PROVE FALSE
      OBVIOUS
    <3>2. Definition(r) = <<Need[r.type]>>
      BY <3>1 DEF Definition
    <3>3. defnLen(<<Need[r.type]>>) = Need[r.type]
      BY DEF defnLen
    <3> QED BY <2>2, <2>3, <2>5, <2>6, <3>2, <3>3
  <2>8. Definition(r) = defn[r.type] /\ defnLen(defn[r.type]) = longest[r.type]
    BY <1>1, <2>7 DEF Definition, DefinitionIsLongest
  <2> QED BY <2>6, <2>7, <2>8 DEF r
<1>2. TypeOK /\ DefinitionIsLongest /\ [Next]_ddVars
        => [(RecordRaises /\ Complete(cur[at]) /\ ~NoName(cur[at]))
              => cur[at].type \in Classes /\ longest[cur[at].type] > cur[at].len]_ddVars
  BY <1>1
<1> QED BY <1>2, TypeCorrect, DefinitionGrows, PTL DEF Spec, RefusedAfterLonger

-----------------------------------------------------------------------------
(* The entries. *)

\* An entry with a rest says so of the record that it has its value from, and its
\* class has been extended by then.
OutInv ==
  \A key \in DOMAIN out["devices"] :
    LET v == out["devices"][key]
    IN  (key[1] \in Classes /\ "rest" \in DOMAIN v)
          => v.rest.data = v.value /\ Len(defn[key[1]]) > 1

\* The entry that is made of a record of a class, whatever is there already.
LEMMA EntryOfClass ==
  ASSUME TypeOK, NEW r, IsRecord(r), Learn(r), r.type \in Classes,
         NEW old, "rest" \in DOMAIN old => Len(defn[r.type]) > 1,
         NEW v, v = Items(r) \/ v = Over(Items(r), old), "rest" \in DOMAIN v
  PROVE  v.rest.data = v.value /\ Len(defn'[r.type]) > 1
<1> DEFINE d == Extended(defn[r.type], r)
<1>1. d = defn'[r.type]
  BY DEF Learn, TypeOK
<1>2. /\ Len(defn'[r.type]) >= Len(defn[r.type]) /\ Len(defn[r.type]) >= 1
      /\ defn' \in [Classes -> Seq(Nat)] /\ defn \in [Classes -> Seq(Nat)]
  BY LearnType DEF TypeOK
<1>3. Len(d) \in Nat /\ Len(d) >= 1 /\ Len(defn[r.type]) \in Nat
  BY <1>1, <1>2, LenProperties
<1>4. Items(r) = IF Len(d) = 1 THEN [value |-> r.val]
                 ELSE [value |-> r.val, rest |-> Undeciphered(d, r)]
  BY DEF Items, Definition
<1>5. Undeciphered(d, r).data = r.val
  BY DEF Undeciphered
<1> HIDE DEF d
<1>6. CASE Len(d) = 1
  <2>1. DOMAIN Items(r) = {"value"}
    BY <1>4, <1>6
  <2>2. v = Over(Items(r), old)
    BY <2>1
  <2>3. "rest" \in DOMAIN old
    BY <2>1, <2>2 DEF Over
  <2> QED BY <1>1, <1>2, <1>3, <1>6, <2>3
<1>7. CASE Len(d) # 1
  <2>1. /\ DOMAIN Items(r) = {"value", "rest"}
        /\ Items(r).value = r.val /\ Items(r).rest = Undeciphered(d, r)
    BY <1>4, <1>7
  <2>2. v.value = r.val /\ v.rest = Undeciphered(d, r)
    BY <2>1 DEF Over
  <2>3. v.rest.data = v.value
    BY <1>5, <2>2
  <2>4. Len(d) > 1
    <3>1. \A n \in Nat : n >= 1 /\ n # 1 => n > 1
      OBVIOUS
    <3> QED BY <1>3, <1>7, <3>1, Zenon
  <2>5. Len(defn'[r.type]) > 1
    BY <1>1, <2>4
  <2> QED BY <2>3, <2>5
<1> QED BY <1>6, <1>7

LEMMA OutStep == TypeOK /\ OutInv /\ [Next]_ddVars => OutInv'
<1> SUFFICES ASSUME TypeOK, OutInv, [Next]_ddVars PROVE OutInv'
  OBVIOUS
<1>1. CASE ParseRecord
  <2> DEFINE r == cur[at]
             d == out["devices"]
             k == Key(r)
  <2>1. /\ IsRecord(r) /\ Learn(r) /\ ~Fails(r) /\ out' = Merged(r, out)
    BY <1>1, RecordInHand DEF ParseRecord
  <2>2. \A c \in Classes : Len(defn'[c]) >= Len(defn[c]) /\ Len(defn'[c]) \in Nat /\ Len(defn[c]) \in Nat
    <3>1. /\ \A c \in Classes : Len(defn'[c]) >= Len(defn[c])
          /\ defn' \in [Classes -> Seq(Nat)] /\ defn \in [Classes -> Seq(Nat)]
      BY <2>1, LearnType DEF TypeOK
    <3> QED BY <3>1, LenProperties
  <2> HIDE DEF r
  <2>3. CASE Kind(r) # "devices"
    <3>1. out'["devices"] = out["devices"]
      BY <2>1, <2>3 DEF Merged, TypeOK, Kinds
    <3> QED BY <2>2, <3>1 DEF OutInv
  <2>4. CASE Kind(r) = "devices"
    <3> DEFINE v == IF k \in DOMAIN d THEN Over(Items(r), d[k]) ELSE Items(r)
    <3>1. out'["devices"] = With(d, k, v)
      BY <2>1, <2>4 DEF Merged, TypeOK, Kinds
    <3>2. k[1] = r.type
      BY <2>4 DEF Key
    <3> HIDE DEF k, v, d
    <3>3. ASSUME NEW key \in DOMAIN out'["devices"], key[1] \in Classes,
                 "rest" \in DOMAIN out'["devices"][key]
          PROVE  /\ out'["devices"][key].rest.data = out'["devices"][key].value
                 /\ Len(defn'[key[1]]) > 1
      <4>1. CASE key = k
        <5>1. out'["devices"][key] = v
          BY <3>1, <4>1 DEF With
        <5>2. r.type \in Classes
          BY <3>2, <3>3, <4>1
        <5>3. CASE k \in DOMAIN d
          <6>1. "rest" \in DOMAIN d[k] => Len(defn[r.type]) > 1
            BY <3>2, <5>2, <5>3 DEF OutInv, d
          <6>2. v = Over(Items(r), d[k])
            BY <5>3 DEF v
          <6> QED BY <2>1, <3>2, <3>3, <4>1, <5>1, <5>2, <6>1, <6>2, EntryOfClass
        <5>4. CASE k \notin DOMAIN d
          <6>1. v = Items(r)
            BY <5>4 DEF v
          <6>2. "rest" \notin DOMAIN <<>>
            OBVIOUS
          <6> QED BY <2>1, <3>2, <3>3, <4>1, <5>1, <5>2, <6>1, <6>2, EntryOfClass
        <5> QED BY <5>3, <5>4
      <4>2. CASE key # k
        <5>1. key \in DOMAIN d /\ out'["devices"][key] = d[key]
          BY <3>1, <4>2 DEF With
        <5> QED BY <2>2, <3>3, <5>1 DEF OutInv, d
      <4> QED BY <4>1, <4>2
    <3> QED BY <3>3 DEF OutInv
  <2> QED BY <2>3, <2>4
<1>2. CASE Receive \/ RecordRaises \/ WriteLine \/ RestartParser
  <2>1. out' = Nothing
    BY <1>2 DEF Receive, RecordRaises, WriteLine, RestartParser
  <2>2. DOMAIN Nothing["devices"] = {}
    BY DEF Nothing, Kinds
  <2> QED BY <2>1, <2>2 DEF OutInv
<1>3. CASE UNCHANGED ddVars
  BY <1>3 DEF OutInv, ddVars, loop
<1> QED BY <1>1, <1>2, <1>3 DEF Next

\* Whatever lengths the records of a message have, and whatever was parsed before,
\* a battery or a meter is reported as one of them says, not as a mixture
\* (datadevices.py:190-223, 778-801).
THEOREM OneRecordEach == Spec => []NotMixed
<1>1. Init => OutInv /\ NotMixed
  <2>1. DOMAIN Nothing["devices"] = {}
    BY DEF Nothing, Kinds
  <2> QED BY <2>1 DEF Init, OutInv, NotMixed
<1>2. TypeOK /\ OutInv /\ NotMixed /\ [Next]_ddVars => NotMixed'
  <2> SUFFICES ASSUME TypeOK, OutInv, NotMixed, [Next]_ddVars PROVE NotMixed'
    OBVIOUS
  <2>1. CASE lines' = Append(lines, out)
    <3>1. lines \in Seq(Range(lines)) /\ Len(lines) \in Nat
      BY LenProperties DEF TypeOK
    <3>2. /\ Len(lines') = Len(lines) + 1
          /\ \A i \in 1 .. Len(lines) : lines'[i] = lines[i]
          /\ lines'[Len(lines) + 1] = out
      BY <2>1, <3>1, AppendToAny
    <3>3. ASSUME NEW i \in 1 .. Len(lines'), NEW key \in DOMAIN lines'[i].devices,
                 key[1] \in Classes, "rest" \in DOMAIN lines'[i].devices[key]
          PROVE  lines'[i].devices[key].rest.data = lines'[i].devices[key].value
      <4>1. CASE i \in 1 .. Len(lines)
        BY <3>2, <3>3, <4>1 DEF NotMixed
      <4>2. CASE i = Len(lines) + 1
        BY <3>2, <3>3, <4>2 DEF OutInv
      <4> QED BY <3>1, <3>2, <4>1, <4>2
    <3> QED BY <3>3 DEF NotMixed
  <2>2. CASE lines' = lines
    BY <2>2 DEF NotMixed
  <2> QED BY <2>1, <2>2 DEF Next, Receive, ParseRecord, RecordRaises, WriteLine,
                            RestartParser, ddVars
<1> QED BY <1>1, <1>2, OutStep, TypeCorrect, PTL DEF Spec
-----------------------------------------------------------------------------
(* The lines. *)

\* What a record of a type with a level of its own leaves in the line.
Plain(r) == IF r.type = "s440" THEN [r.val EXCEPT !.Temp = 0] ELSE r.val

\* v is what the line has of record r, and r is the last of the first n records of m
\* that is stored under key.
LastOf(m, n, k, key, j) ==
  /\ j \in 1 .. n /\ Kind(m[j]) = k /\ Key(m[j]) = key
  /\ \A i \in 1 .. n : i > j /\ Kind(m[i]) = k => Key(m[i]) # key
Shows(k, v, r) == IF k = "devices" THEN v.value = r.val ELSE v = Plain(r)

\* What has been parsed, o, is what the first n records of m say.
Says(o, m, n) ==
  \A k \in Kinds :
    /\ DOMAIN o[k] = {Key(m[j]) : j \in {i \in 1 .. n : Kind(m[i]) = k}}
    /\ \A key \in DOMAIN o[k] : \E j \in 1 .. n : LastOf(m, n, k, key, j)
                                                   /\ Shows(k, o[k][key], m[j])

OutReports   == pc = "parse" => Says(out, cur, at - 1)
LinesReport  == \A i \in 1 .. Len(lines) :
                  /\ DOMAIN lines[i] = Kinds
                  /\ Says(lines[i], accepted[i], Len(accepted[i]))

\* Of two records under one key it is the later that Max finds.
LEMMA LastIsMax ==
  ASSUME NEW m, NEW n \in Nat, NEW k, NEW key, NEW j, LastOf(m, n, k, key, j)
  PROVE  j = Max({i \in 1 .. n : Kind(m[i]) = k /\ Key(m[i]) = key})
<1> DEFINE S == {i \in 1 .. n : Kind(m[i]) = k /\ Key(m[i]) = key}
<1>1. j \in S
  BY DEF LastOf
<1>2. ASSUME NEW y \in S PROVE j >= y
  <2>1. ~(y > j)
    BY DEF LastOf
  <2>2. y \in Int /\ j \in Int
    BY <1>1
  <2> QED BY <2>1, <2>2
<1>3. ASSUME NEW x \in S, \A y \in S : x >= y PROVE x = j
  <2>1. x >= j /\ j >= x
    BY <1>1, <1>2, <1>3
  <2>2. x \in Int /\ j \in Int
    BY <1>1
  <2> QED BY <2>1, <2>2
<1>4. Max(S) = CHOOSE x \in S : \A y \in S : x >= y
  BY DEF Max
<1> HIDE DEF S
<1>5. Max(S) \in S /\ \A y \in S : Max(S) >= y
  BY <1>1, <1>2, <1>4
<1>6. Max(S) = j
  BY <1>3, <1>5
<1> QED BY <1>6 DEF S

\* The entry that a parsed record leaves, whatever was there.
LEMMA EntryShows ==
  ASSUME NEW r, r.type \in Types, NEW v,
         \/ v = Items(r)
         \/ Kind(r) = "devices" /\ \E old : v = Over(Items(r), old)
  PROVE  Shows(Kind(r), v, r)
<1>1. CASE r.type \in Classes \cup Others
  <2>1. Kind(r) = "devices"
    BY <1>1 DEF Kind, Inverters, Optimizers, Events, Classes, Others
  <2>2. "value" \in DOMAIN Items(r) /\ Items(r).value = r.val
    BY <1>1 DEF Items
  <2>3. v.value = r.val
    BY <2>2 DEF Over
  <2> QED BY <2>1, <2>3 DEF Shows
<1>2. CASE r.type \notin Classes \cup Others
  <2>1. Kind(r) # "devices"
    BY <1>2 DEF Kind, Types
  <2>2. v = Plain(r)
    BY <1>2, <2>1 DEF Items, Plain
  <2> QED BY <2>1, <2>2 DEF Shows
<1> QED BY <1>1, <1>2

\* One more record.
LEMMA MergedReports ==
  ASSUME NEW o, DOMAIN o = Kinds, NEW m, NEW n \in Nat, Says(o, m, n),
         m[n + 1].type \in Types
  PROVE  Says(Merged(m[n + 1], o), m, n + 1)
<1> DEFINE r == m[n + 1]
           d == o[Kind(r)]
           v == IF Kind(r) = "devices" /\ Key(r) \in DOMAIN d THEN Over(Items(r), d[Key(r)])
                                                              ELSE Items(r)
           p == Merged(r, o)
<1>1. Kind(r) \in Kinds
  BY DEF Kind, Kinds
<1>2. /\ p[Kind(r)] = With(d, Key(r), v)
      /\ \A k \in Kinds : k # Kind(r) => p[k] = o[k]
  BY <1>1 DEF Merged
<1>3. Shows(Kind(r), v, r)
  BY EntryShows
<1> HIDE DEF v, p
<1>4. \A j \in 1 .. n + 1 : j # n + 1 => j \in 1 .. n
  OBVIOUS
<1>5. 1 .. n \subseteq 1 .. n + 1 /\ n + 1 \in 1 .. n + 1 /\ \A j \in 1 .. n : n + 1 > j
  OBVIOUS
<1> SUFFICES ASSUME NEW k \in Kinds
             PROVE  /\ DOMAIN p[k] = {Key(m[j]) : j \in {i \in 1 .. n + 1 : Kind(m[i]) = k}}
                    /\ \A key \in DOMAIN p[k] :
                         \E j \in 1 .. n + 1 : /\ LastOf(m, n + 1, k, key, j)
                                               /\ Shows(k, p[k][key], m[j])
  BY DEF Says, p
<1>6. /\ DOMAIN o[k] = {Key(m[j]) : j \in {i \in 1 .. n : Kind(m[i]) = k}}
      /\ \A key \in DOMAIN o[k] : \E j \in 1 .. n : /\ LastOf(m, n, k, key, j)
                                                     /\ Shows(k, o[k][key], m[j])
  BY DEF Says
<1>7. CASE k # Kind(r)
  <2>1. {i \in 1 .. n + 1 : Kind(m[i]) = k} = {i \in 1 .. n : Kind(m[i]) = k}
    BY <1>4, <1>5, <1>7
  <2>2. p[k] = o[k]
    BY <1>2, <1>7
  <2>3. ASSUME NEW key, NEW j \in 1 .. n, LastOf(m, n, k, key, j)
        PROVE  LastOf(m, n + 1, k, key, j)
    BY <1>4, <1>5, <1>7, <2>3 DEF LastOf
  <2> QED BY <1>5, <1>6, <2>1, <2>2, <2>3
<1>8. CASE k = Kind(r)
  <2>1. /\ DOMAIN p[k] = DOMAIN o[k] \cup {Key(r)}
        /\ \A key \in DOMAIN p[k] : p[k][key] = IF key = Key(r) THEN v ELSE o[k][key]
    BY <1>2, <1>8 DEF With
  <2>2. {i \in 1 .. n + 1 : Kind(m[i]) = k} = {i \in 1 .. n : Kind(m[i]) = k} \cup {n + 1}
    BY <1>4, <1>5, <1>8
  <2>3. DOMAIN p[k] = {Key(m[j]) : j \in {i \in 1 .. n + 1 : Kind(m[i]) = k}}
    BY <1>6, <2>1, <2>2
  <2>4. ASSUME NEW key \in DOMAIN p[k]
        PROVE  \E j \in 1 .. n + 1 : LastOf(m, n + 1, k, key, j) /\ Shows(k, p[k][key], m[j])
    <3>1. CASE key = Key(r)
      <4>1. \A i \in 1 .. n + 1 : ~(i > n + 1)
        OBVIOUS
      <4>2. LastOf(m, n + 1, k, key, n + 1)
        BY <1>5, <1>8, <3>1, <4>1 DEF LastOf
      <4>3. Shows(k, p[k][key], m[n + 1])
        BY <1>3, <1>8, <2>1, <3>1
      <4> QED BY <1>5, <4>2, <4>3
    <3>2. CASE key # Key(r)
      <4>1. PICK j \in 1 .. n : LastOf(m, n, k, key, j) /\ Shows(k, o[k][key], m[j])
        BY <1>6, <2>1, <3>2
      <4>2. LastOf(m, n + 1, k, key, j)
        BY <1>4, <1>5, <3>2, <4>1 DEF LastOf
      <4>3. p[k][key] = o[k][key]
        BY <2>1, <3>2
      <4> QED BY <1>5, <4>1, <4>2, <4>3
    <3> QED BY <3>1, <3>2
  <2> QED BY <2>3, <2>4
<1> QED BY <1>7, <1>8

LEMMA ReportsStep ==
  TypeOK /\ OutReports /\ LinesReport /\ [Next]_ddVars => OutReports' /\ LinesReport'
<1> SUFFICES ASSUME TypeOK, OutReports, LinesReport, [Next]_ddVars
             PROVE  OutReports' /\ LinesReport'
  OBVIOUS
<1>1. OutReports'
  <2>1. CASE Receive
    <3>1. out' = Nothing /\ at' = 1
      BY <2>1 DEF Receive
    <3>2. \A k \in Kinds : DOMAIN Nothing[k] = {}
      BY DEF Nothing
    <3>3. 1 .. 0 = {}
      OBVIOUS
    <3>4. Says(Nothing, cur', 0)
      BY <3>2, <3>3 DEF Says
    <3> QED BY <3>1, <3>4 DEF OutReports
  <2>2. CASE ParseRecord
    <3>1. /\ pc = "parse" /\ at <= Len(cur) /\ ~Fails(cur[at])
          /\ out' = Merged(cur[at], out) /\ at' = at + 1 /\ cur' = cur
      BY <2>2 DEF ParseRecord
    <3>2. IsRecord(cur[at]) /\ at - 1 \in Nat /\ (at - 1) + 1 = at /\ (at + 1) - 1 = at
      <4>1. IsRecord(cur[at]) /\ at \in Nat /\ at >= 1
        BY <3>1, RecordInHand DEF TypeOK
      <4> QED BY <4>1
    <3>3. cur[at].type \in Types
      BY <3>1, <3>2 DEF IsRecord, Fails
    <3>4. DOMAIN out = Kinds /\ Says(out, cur, at - 1)
      BY <3>1 DEF TypeOK, OutReports
    <3>5. Says(Merged(cur[(at - 1) + 1], out), cur, (at - 1) + 1)
      BY <3>2, <3>3, <3>4, MergedReports
    <3> QED BY <3>1, <3>2, <3>5 DEF OutReports
  <2>3. CASE RecordRaises \/ WriteLine \/ RestartParser
    <3>1. pc' = "idle"
      BY <2>3 DEF RecordRaises, WriteLine, RestartParser
    <3> QED BY <3>1 DEF OutReports
  <2>4. CASE UNCHANGED ddVars
    BY <2>4 DEF OutReports, ddVars, loop
  <2> QED BY <2>1, <2>2, <2>3, <2>4 DEF Next
<1>2. LinesReport'
  <2>1. CASE WriteLine /\ cur # <<>>
    <3>1. pc = "parse" /\ at > Len(cur) /\ lines' = Append(lines, out)
          /\ accepted' = Append(accepted, cur)
      BY <2>1 DEF WriteLine
    <3>2. Len(cur) \in Nat
      BY <3>1, MessagesAssumption DEF TypeOK
    <3>3. at - 1 = Len(cur)
      BY <3>1, <3>2 DEF TypeOK
    <3>4. Says(out, cur, Len(cur)) /\ DOMAIN out = Kinds
      BY <3>1, <3>3 DEF OutReports, TypeOK
    <3>5. /\ Len(lines') = Len(lines) + 1 /\ Len(lines) \in Nat
          /\ \A i \in 1 .. Len(lines) : lines'[i] = lines[i]
          /\ lines'[Len(lines) + 1] = out
      BY <3>1, AppendToAny, LenProperties DEF TypeOK
    <3>6. /\ \A i \in 1 .. Len(lines) : accepted'[i] = accepted[i]
          /\ accepted'[Len(lines) + 1] = cur
      <4>1. accepted \in Seq(Messages) /\ cur \in Messages /\ Len(accepted) = Len(lines)
        BY <3>1 DEF TypeOK
      <4> QED BY <3>1, <4>1, AppendProperties
    <3> SUFFICES ASSUME NEW i \in 1 .. Len(lines')
                 PROVE  /\ DOMAIN lines'[i] = Kinds
                        /\ Says(lines'[i], accepted'[i], Len(accepted'[i]))
      BY DEF LinesReport
    <3>7. CASE i = Len(lines) + 1
      BY <3>4, <3>5, <3>6, <3>7
    <3>8. CASE i # Len(lines) + 1
      <4>1. i \in 1 .. Len(lines)
        BY <3>5, <3>8
      <4> QED BY <3>5, <3>6, <4>1 DEF LinesReport
    <3> QED BY <3>7, <3>8
  <2>2. CASE UNCHANGED <<lines, accepted>>
    BY <2>2 DEF LinesReport
  <2> QED BY <2>1, <2>2 DEF Next, Receive, ParseRecord, RecordRaises, WriteLine,
                            RestartParser, ddVars, history
<1> QED BY <1>1, <1>2

LEMMA ReportsInvariant == Spec => [](OutReports /\ LinesReport)
<1>1. Init => OutReports /\ LinesReport
  BY DEF Init, OutReports, LinesReport
<1> QED BY <1>1, ReportsStep, TypeCorrect, PTL DEF Spec

\* Whatever types and identifiers the records of a message have: a line has the last
\* record of the message under each identifier, as a whole, and no other identifier
\* (data.py:139-190; datadevices.py:787-801).
THEOREM LinesAreReports == Spec => []LineReports
<1>1. TypeOK /\ LinesReport => LineReports
  <2> SUFFICES ASSUME TypeOK, LinesReport, NEW i \in 1 .. Len(lines), NEW k \in Kinds
               PROVE  LET m == accepted[i]
                          of(key) == {j \in 1 .. Len(m) : Kind(m[j]) = k /\ Key(m[j]) = key}
                      IN  /\ DOMAIN lines[i][k]
                               = {Key(m[j]) : j \in {n \in 1 .. Len(m) : Kind(m[n]) = k}}
                          /\ \A key \in DOMAIN lines[i][k] :
                               LET r == m[Max(of(key))]
                                   v == lines[i][k][key]
                               IN  IF k = "devices" THEN v.value = r.val
                                   ELSE \A a \in DOMAIN r.val :
                                          v[a] = IF r.type = "s440" /\ a = "Temp" THEN 0
                                                                                  ELSE r.val[a]
    BY DEF LineReports
  <2> DEFINE m == accepted[i]
             of(key) == {j \in 1 .. Len(m) : Kind(m[j]) = k /\ Key(m[j]) = key}
  <2>1. Says(lines[i], m, Len(m))
    BY DEF LinesReport
  <2>2. Len(m) \in Nat
    <3>1. accepted \in Seq(Messages) /\ i \in 1 .. Len(accepted)
      BY DEF TypeOK
    <3>2. m \in Messages
      BY <3>1, ElementOfSeq
    <3> QED BY <3>2, MessagesAssumption
  <2>3. DOMAIN lines[i][k] = {Key(m[j]) : j \in {n \in 1 .. Len(m) : Kind(m[n]) = k}}
    BY <2>1 DEF Says
  <2>4. ASSUME NEW key \in DOMAIN lines[i][k]
        PROVE  Shows(k, lines[i][k][key], m[Max(of(key))])
    <3>1. PICK j \in 1 .. Len(m) : /\ LastOf(m, Len(m), k, key, j)
                                   /\ Shows(k, lines[i][k][key], m[j])
      BY <2>1 DEF Says
    <3>2. j = Max(of(key))
      BY <2>2, <3>1, LastIsMax
    <3> QED BY <3>1, <3>2
  <2> HIDE DEF of
  <2>5. ASSUME NEW v, NEW r, Shows(k, v, r)
        PROVE  IF k = "devices" THEN v.value = r.val
               ELSE \A a \in DOMAIN r.val :
                      v[a] = IF r.type = "s440" /\ a = "Temp" THEN 0 ELSE r.val[a]
    BY <2>5 DEF Shows, Plain
  <2>6. ASSUME NEW key \in DOMAIN lines[i][k]
        PROVE  LET r == m[Max(of(key))]
                   v == lines[i][k][key]
               IN  IF k = "devices" THEN v.value = r.val
                   ELSE \A a \in DOMAIN r.val :
                          v[a] = IF r.type = "s440" /\ a = "Temp" THEN 0 ELSE r.val[a]
    <3> DEFINE r == m[Max(of(key))]
               v == lines[i][k][key]
    <3>1. Shows(k, v, r)
      BY <2>4
    <3> HIDE DEF r, v
    <3>2. IF k = "devices" THEN v.value = r.val
          ELSE \A a \in DOMAIN r.val :
                 v[a] = IF r.type = "s440" /\ a = "Temp" THEN 0 ELSE r.val[a]
      BY <2>5, <3>1
    <3> QED BY <3>2 DEF r, v
  <2> QED BY <2>3, <2>6 DEF of
<1> QED BY <1>1, ReportsInvariant, TypeCorrect, PTL

-----------------------------------------------------------------------------
(* What the entries consist of. *)

\* A definition begins with the fields of its class.
Begins == \A c \in Classes : defn[c][1] = Need[c]

\* They are its first entry, whatever is appended and whenever it is stopped.
LEMMA BeginsInvariant == Spec => []Begins
<1>1. Init => Begins
  BY DEF Init, Begins
<1>2. TypeOK /\ Begins /\ [Next]_ddVars => Begins'
  <2> SUFFICES ASSUME TypeOK, Begins, [Next]_ddVars PROVE Begins'
    OBVIOUS
  <2>1. CASE ParseRecord \/ RecordRaises
    <3> DEFINE r == cur[at]
    <3>1. Learn(r) /\ IsRecord(r)
      BY <2>1, RecordInHand DEF ParseRecord, RecordRaises
    <3> HIDE DEF r
    <3>2. ASSUME NEW c \in Classes PROVE defn'[c][1] = Need[c]
      <4>1. defn[c] \in Seq(Nat) /\ Len(defn[c]) >= 1 /\ defn[c][1] = Need[c]
        BY DEF TypeOK, Begins
      <4>2. CASE c = r.type
        <5>1. defn'[c] = Extended(defn[c], r)
          BY <3>1, <4>2 DEF Learn, TypeOK
        <5>2. r.len \in Nat /\ 1 \in 1 .. Len(defn[c])
          BY <3>1, <4>1, LenProperties DEF IsRecord
        <5>3. Append(defn[c], r.len)[1] = defn[c][1]
          BY <4>1, <5>2, AppendProperties
        <5> QED BY <4>1, <5>1, <5>3 DEF Extended
      <4>3. CASE c # r.type
        BY <3>1, <4>1, <4>3 DEF Learn, TypeOK
      <4> QED BY <4>2, <4>3
    <3> QED BY <3>2 DEF Begins
  <2>2. CASE RestartParser
    BY <2>2 DEF RestartParser, Begins
  <2>3. CASE UNCHANGED <<defn, longest>>
    BY <2>3 DEF Begins
  <2> QED BY <2>1, <2>2, <2>3 DEF Next, Receive, WriteLine, ddVars, history
<1> QED BY <1>1, <1>2, TypeCorrect, PTL DEF Spec

\* One of the first n records of m under key is longer than the fields of its type.
LongUnder(m, n, key) ==
  \E j \in 1 .. n : Kind(m[j]) = "devices" /\ Key(m[j]) = key /\ m[j].len > Need[m[j].type]

\* An entry of ParseDevice has the value, and a rest exactly if one of the first n records
\* of m that were merged in it is such a record.
EntryFrom(v, key, m, n) ==
  /\ "value" \in DOMAIN v /\ DOMAIN v \subseteq {"value", "rest"}
  /\ "rest" \in DOMAIN v <=> LongUnder(m, n, key)
Shaped(o, m, n) ==
  /\ \A key \in DOMAIN o["devices"] : /\ key[1] \in Classes \cup Others
                                      /\ EntryFrom(o["devices"][key], key, m, n)
  /\ \A j \in 1 .. n : Kind(m[j]) = "devices" => Key(m[j]) \in DOMAIN o["devices"]

OutShaped   == pc = "parse" => Shaped(out, cur, at - 1)
LinesShaped == \A i \in 1 .. Len(lines) : Shaped(lines[i], accepted[i], Len(accepted[i]))

\* A record has a rest exactly if it is longer than the fields of its type, whoever
\* extended the definition.
LEMMA ItemsShape ==
  ASSUME TypeOK, DefinitionIsLongest, Begins, NEW r, IsRecord(r), ~Fails(r),
         r.type \in Classes \cup Others
  PROVE  /\ "value" \in DOMAIN Items(r) /\ DOMAIN Items(r) \subseteq {"value", "rest"}
         /\ "rest" \in DOMAIN Items(r) <=> r.len > Need[r.type]
<1> DEFINE b == Definition(r)
           d == Extended(b, r)
<1>1. Need[r.type] \in Nat /\ r.len \in Nat
  BY NeedAssumption DEF Types, IsRecord
<1>2. Items(r) = IF Len(d) = 1 THEN [value |-> r.val]
                 ELSE [value |-> r.val, rest |-> Undeciphered(d, r)]
  BY DEF Items
<1>3. ~(defnLen(b) > r.len)
  BY DEF Fails
<1>4. /\ b \in Seq(Nat) /\ Len(b) >= 1 /\ Len(b) \in Nat /\ b[1] = Need[r.type]
      /\ \A i, j \in 1 .. Len(b) : i < j => b[i] < b[j]
  <2>1. CASE r.type \in Classes
    <3>1. b = defn[r.type]
      BY <2>1 DEF Definition
    <3>2. defn[r.type] \in Seq(Nat) /\ Len(defn[r.type]) >= 1
      BY <2>1 DEF TypeOK
    <3> QED BY <2>1, <3>1, <3>2, LenProperties DEF DefinitionIsLongest, Begins
  <2>2. CASE r.type \notin Classes
    <3>1. b = <<Need[r.type]>>
      BY <2>2 DEF Definition
    <3> QED BY <1>1, <3>1
  <2> QED BY <2>1, <2>2
<1>5. ASSUME Len(d) # 1 PROVE r.len > Need[r.type]
  <2>1. CASE defnLen(b) < r.len
    <3>1. b[Len(b)] < r.len /\ b[Len(b)] \in Nat
      BY <1>4, <2>1, ElementOfSeq DEF defnLen
    <3>2. Need[r.type] <= b[Len(b)]
      <4>1. CASE Len(b) = 1
        BY <1>1, <1>4, <4>1
      <4>2. CASE Len(b) # 1
        <5>1. 1 \in 1 .. Len(b) /\ Len(b) \in 1 .. Len(b) /\ 1 < Len(b)
          BY <1>4, <4>2
        <5>2. b[1] < b[Len(b)]
          BY <1>4, <5>1
        <5> QED BY <1>1, <1>4, <3>1, <5>2
      <4> QED BY <4>1, <4>2
    <3> QED BY <1>1, <3>1, <3>2
  <2>2. CASE ~(defnLen(b) < r.len)
    <3>1. d = b
      BY <2>2 DEF Extended
    <3>2. 1 \in 1 .. Len(b) /\ Len(b) \in 1 .. Len(b) /\ 1 < Len(b)
      BY <1>4, <1>5, <3>1
    <3>3. b[1] < b[Len(b)] /\ b[Len(b)] \in Nat
      BY <1>4, <3>2, ElementOfSeq
    <3> QED BY <1>1, <1>3, <1>4, <3>3 DEF defnLen
  <2> QED BY <2>1, <2>2
<1>6. ASSUME r.len > Need[r.type] PROVE Len(d) # 1
  <2>1. CASE defnLen(b) < r.len
    <3>1. d = Append(b, r.len)
      BY <2>1 DEF Extended
    <3>2. Len(Append(b, r.len)) = Len(b) + 1
      BY <1>1, <1>4, AppendProperties
    <3> QED BY <1>4, <3>1, <3>2
  <2>2. CASE ~(defnLen(b) < r.len)
    <3>1. d = b
      BY <2>2 DEF Extended
    <3> QED BY <1>1, <1>4, <1>6, <2>2, <3>1 DEF defnLen
  <2> QED BY <2>1, <2>2
<1> HIDE DEF d
<1> QED BY <1>2, <1>5, <1>6

\* One more record keeps the entries so.
LEMMA MergedShape ==
  ASSUME TypeOK, DefinitionIsLongest, Begins,
         NEW m, NEW n \in Nat, NEW r, r = m[n + 1], IsRecord(r), ~Fails(r),
         NEW o, DOMAIN o = Kinds, Shaped(o, m, n)
  PROVE  Shaped(Merged(r, o), m, n + 1)
<1> DEFINE d == o["devices"]
           k == Key(r)
           v == IF k \in DOMAIN d THEN Over(Items(r), d[k]) ELSE Items(r)
           p == Merged(r, o)
<1>1. \A j : j \in 1 .. n + 1 <=> j \in 1 .. n \/ j = n + 1
  OBVIOUS
<1>2. ASSUME NEW key
      PROVE  LongUnder(m, n + 1, key) <=> \/ LongUnder(m, n, key)
                                          \/ /\ Kind(r) = "devices" /\ Key(r) = key
                                             /\ r.len > Need[r.type]
  BY <1>1 DEF LongUnder
<1>3. /\ \A key \in DOMAIN d : key[1] \in Classes \cup Others /\ EntryFrom(d[key], key, m, n)
      /\ \A j \in 1 .. n : Kind(m[j]) = "devices" => Key(m[j]) \in DOMAIN d
  BY DEF Shaped
<1>4. CASE Kind(r) # "devices"
  <2>1. p["devices"] = d
    BY <1>4 DEF Merged, Kinds
  <2> HIDE DEF p, d
  <2>2. \A key \in DOMAIN d : EntryFrom(d[key], key, m, n + 1)
    BY <1>2, <1>3, <1>4 DEF EntryFrom
  <2>3. \A j \in 1 .. n + 1 : Kind(m[j]) = "devices" => Key(m[j]) \in DOMAIN d
    BY <1>1, <1>3, <1>4
  <2>4. Shaped(p, m, n + 1)
    BY <1>3, <2>1, <2>2, <2>3 DEF Shaped
  <2> QED BY <2>4 DEF p
<1>5. CASE Kind(r) = "devices"
  <2>1. p["devices"] = With(d, k, v)
    BY <1>5 DEF Merged, Kinds
  <2>2. r.type \in Classes \cup Others /\ k[1] = r.type
    <3>1. r.type \in Types
      BY DEF IsRecord, Fails
    <3> QED BY <1>5, <3>1 DEF Kind, Key, Types
  <2>3. /\ "value" \in DOMAIN Items(r) /\ DOMAIN Items(r) \subseteq {"value", "rest"}
        /\ "rest" \in DOMAIN Items(r) <=> r.len > Need[r.type]
    BY <2>2, ItemsShape
  <2>4. LongUnder(m, n + 1, k) <=> LongUnder(m, n, k) \/ r.len > Need[r.type]
    BY <1>2, <1>5
  <2>5. EntryFrom(v, k, m, n + 1)
    <3>1. CASE k \in DOMAIN d
      <4>1. v = Over(Items(r), d[k])
        BY <3>1
      <4>2. EntryFrom(d[k], k, m, n)
        BY <1>3, <3>1
      <4>3. DOMAIN v = DOMAIN Items(r) \cup DOMAIN d[k]
        BY <4>1 DEF Over
      <4> HIDE DEF v, d, k
      <4> QED BY <2>3, <2>4, <4>2, <4>3 DEF EntryFrom
    <3>2. CASE k \notin DOMAIN d
      <4>1. v = Items(r)
        BY <3>2
      <4>2. ~LongUnder(m, n, k)
        BY <1>3, <3>2 DEF LongUnder
      <4> HIDE DEF v, k
      <4> QED BY <2>3, <2>4, <4>1, <4>2 DEF EntryFrom
    <3> QED BY <3>1, <3>2
  <2>6. k = Key(r)
    OBVIOUS
  <2> HIDE DEF v, p, k, d
  <2>7. DOMAIN p["devices"] = DOMAIN d \cup {k}
    BY <2>1 DEF With
  <2>8. ASSUME NEW key \in DOMAIN p["devices"]
        PROVE  /\ key[1] \in Classes \cup Others
               /\ EntryFrom(p["devices"][key], key, m, n + 1)
    <3>1. CASE key = k
      BY <2>1, <2>2, <2>5, <3>1 DEF With
    <3>2. CASE key # k
      <4>1. key \in DOMAIN d /\ p["devices"][key] = d[key]
        BY <2>1, <3>2 DEF With
      <4>2. LongUnder(m, n + 1, key) <=> LongUnder(m, n, key)
        BY <1>2, <2>6, <3>2
      <4> QED BY <1>3, <4>1, <4>2 DEF EntryFrom
    <3> QED BY <3>1, <3>2
  <2>9. \A j \in 1 .. n + 1 : Kind(m[j]) = "devices" => Key(m[j]) \in DOMAIN p["devices"]
    BY <1>1, <1>3, <2>6, <2>7
  <2> QED BY <2>8, <2>9 DEF Shaped, p
<1> QED BY <1>4, <1>5

\* It is so of what has been parsed, and of the lines, in every step.
LEMMA ShapedStep ==
  TypeOK /\ DefinitionIsLongest /\ Begins /\ OutShaped /\ LinesShaped /\ [Next]_ddVars
    => OutShaped' /\ LinesShaped'
<1> SUFFICES ASSUME TypeOK, DefinitionIsLongest, Begins, OutShaped, LinesShaped,
                    [Next]_ddVars
             PROVE  OutShaped' /\ LinesShaped'
  OBVIOUS
<1>1. OutShaped'
  <2>1. CASE Receive
    <3>1. out' = Nothing /\ at' = 1
      BY <2>1 DEF Receive
    <3>2. DOMAIN Nothing["devices"] = {}
      BY DEF Nothing, Kinds
    <3>3. 1 .. at' - 1 = {}
      BY <3>1
    <3> QED BY <3>1, <3>2, <3>3 DEF OutShaped, Shaped
  <2>2. CASE ParseRecord
    <3>1. /\ pc = "parse" /\ at <= Len(cur) /\ ~Fails(cur[at])
          /\ out' = Merged(cur[at], out) /\ at' = at + 1 /\ cur' = cur
      BY <2>2 DEF ParseRecord
    <3> DEFINE r == cur[at]
               n == at - 1
    <3>2. IsRecord(r) /\ n \in Nat /\ n + 1 = at /\ at' - 1 = n + 1
      <4>1. IsRecord(r) /\ at \in Nat /\ at >= 1
        BY <3>1, RecordInHand DEF TypeOK
      <4> QED BY <3>1, <4>1
    <3>3. DOMAIN out = Kinds /\ Shaped(out, cur, n) /\ r = cur[n + 1] /\ ~Fails(r)
      BY <3>1, <3>2 DEF TypeOK, OutShaped
    <3>4. out' = Merged(r, out)
      BY <3>1
    <3> HIDE DEF r, n
    <3>5. Shaped(Merged(r, out), cur, n + 1)
      BY <3>2, <3>3, MergedShape
    <3> QED BY <3>1, <3>2, <3>4, <3>5 DEF OutShaped
  <2>3. CASE RecordRaises \/ WriteLine \/ RestartParser
    <3>1. pc' = "idle"
      BY <2>3 DEF RecordRaises, WriteLine, RestartParser
    <3> QED BY <3>1 DEF OutShaped
  <2>4. CASE UNCHANGED ddVars
    BY <2>4 DEF OutShaped, ddVars, loop
  <2> QED BY <2>1, <2>2, <2>3, <2>4 DEF Next
<1>2. LinesShaped'
  <2>1. CASE WriteLine /\ cur # <<>>
    <3>1. pc = "parse" /\ at > Len(cur) /\ lines' = Append(lines, out)
          /\ accepted' = Append(accepted, cur)
      BY <2>1 DEF WriteLine
    <3>2. Len(cur) \in Nat
      BY <3>1, MessagesAssumption DEF TypeOK
    <3>3. at - 1 = Len(cur)
      BY <3>1, <3>2 DEF TypeOK
    <3>4. Shaped(out, cur, Len(cur))
      BY <3>1, <3>3 DEF OutShaped
    <3>5. /\ Len(lines') = Len(lines) + 1 /\ Len(lines) \in Nat
          /\ \A i \in 1 .. Len(lines) : lines'[i] = lines[i]
          /\ lines'[Len(lines) + 1] = out
      BY <3>1, AppendToAny, LenProperties DEF TypeOK
    <3>6. /\ \A i \in 1 .. Len(lines) : accepted'[i] = accepted[i]
          /\ accepted'[Len(lines) + 1] = cur
      <4>1. accepted \in Seq(Messages) /\ cur \in Messages /\ Len(accepted) = Len(lines)
        BY <3>1 DEF TypeOK
      <4> QED BY <3>1, <4>1, AppendProperties
    <3> SUFFICES ASSUME NEW i \in 1 .. Len(lines')
                 PROVE  Shaped(lines'[i], accepted'[i], Len(accepted'[i]))
      BY DEF LinesShaped
    <3>7. CASE i = Len(lines) + 1
      BY <3>4, <3>5, <3>6, <3>7
    <3>8. CASE i # Len(lines) + 1
      <4>1. i \in 1 .. Len(lines)
        BY <3>5, <3>8
      <4> QED BY <3>5, <3>6, <4>1 DEF LinesShaped
    <3> QED BY <3>7, <3>8
  <2>2. CASE UNCHANGED <<lines, accepted>>
    BY <2>2 DEF LinesShaped
  <2> QED BY <2>1, <2>2 DEF Next, Receive, ParseRecord, RecordRaises, WriteLine,
                            RestartParser, ddVars, history
<1> QED BY <1>1, <1>2

\* An entry of a line has a rest exactly if one of its records is long enough for it.
LEMMA ShapedInvariant == Spec => []LinesShaped
<1>1. Init => OutShaped /\ LinesShaped
  BY DEF Init, OutShaped, LinesShaped
<1> QED BY <1>1, ShapedStep, TypeCorrect, DefinitionGrows, BeginsInvariant, PTL DEF Spec
=============================================================================
