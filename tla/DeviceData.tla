----------------------------- MODULE DeviceData -----------------------------
(***************************************************************************)
(* How a message with performance data becomes a line of output: the loop  *)
(* of parseDeviceData (se/data.py) over the records of the message, and    *)
(* ParseDevice (se/datadevices.py), which decodes the types that have a    *)
(* class with a definition of their fields, and any type that is unknown.  *)
(*                                                                         *)
(* A definition is a list that belongs to the class.  A record with more   *)
(* bytes than are defined appends an entry for the rest to it, which stays *)
(* there for every record to come; a record with fewer raises, and then    *)
(* the message is given up.                                                *)
(*                                                                         *)
(* Bytes are counted, fields are not told apart: a definition is the list  *)
(* of the lengths it has had, and a record has a length and a value.       *)
(***************************************************************************)
EXTENDS Integers, Sequences, FiniteSets, FiniteSetsExt, Functions

CONSTANTS
  Need,         \* the bytes that the fields of a type take
  Messages,     \* what is received: sequences of records
  NotText,      \* names of batteries whose bytes are not UTF-8
  MaxMsgs,      \* bound on the messages
  MaxRestarts   \* bound on the restarts of the program

Optimizers == {"opt", "newOpt", "s440"}    \* 0x0000, 0x0080, 0x0082
Inverters  == {"inv", "inv3"}              \* 0x0010, 0x0011
Events     == {"event"}                    \* 0x0300
Classes    == {"batteries", "meters"}      \* 0x0030, 0x0022: subclasses of ParseDevice
Others     == {"unknown"}                  \* what has no parser
Types      == Optimizers \cup Inverters \cup Events \cup Classes \cup Others

\* len is what the header says, have is how much of it the message holds.  sub
\* is the battery's name or the kind of meter reading.  The message may end with
\* a piece of a header: a record of type "cut".
IsRecord(r) ==
  /\ r.type \in Types \cup {"cut"}
  /\ r.len \in Nat /\ r.have \in 0 .. r.len

ASSUME NeedAssumption == Need \in [Types -> Nat \ {0}]
ASSUME MessagesAssumption ==
  \A m \in Messages :
    /\ Len(m) \in Nat
    /\ \A i \in 1 .. Len(m) : IsRecord(m[i])
    /\ \A i \in 1 .. Len(m) : i < Len(m) => m[i].type # "cut" /\ m[i].have = m[i].len
ASSUME BoundsAssumption == MaxMsgs \in Nat /\ MaxRestarts \in Nat

-----------------------------------------------------------------------------
VARIABLES
  defn,         \* _defn of each class: the lengths it has had
  pc,           \* "idle", or "parse": in the loop
  cur,          \* the message
  at,           \* the record in hand
  out,          \* what has been parsed of it
  lines,        \* the output
  msgs,         \* how many messages there have been
  restarts,
  accepted,     \* history: the messages that have become lines
  longest       \* history: the longest record of each class in this execution

loop    == <<pc, cur, at, out>>
history == <<accepted, longest>>
ddVars  == <<defn, loop, lines, msgs, restarts, history>>

Kinds   == {"inverters", "optimizers", "events", "devices"}
Nothing == [k \in Kinds |-> <<>>]

\* The sum of the lengths of all entries (the property defnLen).
defnLen(d) == d[Len(d)]

TypeOK ==
  /\ defn \in [Classes -> Seq(Nat)] /\ \A c \in Classes : Len(defn[c]) >= 1
  /\ pc \in {"idle", "parse"}
  /\ IF pc = "parse" THEN cur \in Messages ELSE cur = <<>>
  /\ at \in 1 .. Len(cur) + 1
  /\ DOMAIN out = Kinds
  /\ lines \in Seq(Range(lines)) /\ accepted \in Seq(Messages)
  /\ Len(lines) = Len(accepted)
  /\ Len(lines) <= IF pc = "parse" THEN msgs - 1 ELSE msgs
  /\ msgs \in 0 .. MaxMsgs /\ restarts \in 0 .. MaxRestarts
  /\ longest \in [Classes -> Nat]

Init ==
  /\ defn = [c \in Classes |-> <<Need[c]>>]
  /\ pc = "idle" /\ cur = <<>> /\ at = 1 /\ out = Nothing
  /\ lines = <<>> /\ accepted = <<>>
  /\ msgs = 0 /\ restarts = 0
  /\ longest = [c \in Classes |-> Need[c]]

-----------------------------------------------------------------------------
(* A record. *)

Kind(r) == CASE r.type \in Inverters  -> "inverters"
             [] r.type \in Optimizers -> "optimizers"
             [] r.type \in Events     -> "events"
             [] OTHER                 -> "devices"

\* The identifiers a record is stored under (wrap_in_ids).
Key(r) == IF Kind(r) # "devices" THEN r.id
          ELSE IF r.type \in Classes THEN <<r.type, r.id, r.sub>>
          ELSE <<r.type, r.id>>

\* The definition a record of ParseDevice is parsed by: that of its class, or the
\* date and time, in a list of the record's own.
Definition(r) == IF r.type \in Classes THEN defn[r.type] ELSE <<Need[r.type]>>
Extended(d, r) == IF defnLen(d) < r.len THEN Append(d, r.len) ELSE d

\* struct.unpack has a piece that is too short.
TooShort(r) == r.have < Need[r.type]

\* decode('utf-8') of the name of a battery, the only text in a record, fails.
NoName(r) == r.type = "batteries" /\ r.sub \in NotText

\* Mutant of Fails: a record that fills its definition is refused as well.
FailsExact(r) ==
  \/ r.type = "cut"
  \/ r.type \in Types /\ TooShort(r)
  \/ r.type \in Events /\ r.have > Need[r.type]
  \/ r.type \in Classes /\ defnLen(Definition(r)) >= r.len
  \/ NoName(r)

\* The parser of the record raises.  An event must have its length exactly: its
\* bytes are cut off at the length of an inverter's record, which is longer.
Fails(r) ==
  \/ r.type = "cut"
  \/ r.type \in Types /\ TooShort(r)
  \/ r.type \in Events /\ r.have > Need[r.type]
  \/ r.type \in Classes \cup Others /\ defnLen(Definition(r)) > r.len
  \/ NoName(r)

\* The bytes of the last entry that was appended; earlier ones have the same name.
Undeciphered(d, r) ==
  [data |-> r.val, from |-> d[Len(d) - 1] + 1, to |-> Min({defnLen(d), r.have})]

Items(r) ==
  IF r.type \in Classes \cup Others
  THEN LET d == Extended(Definition(r), r)
       IN  IF Len(d) = 1 THEN [value |-> r.val]
           ELSE [value |-> r.val, rest |-> Undeciphered(d, r)]
  ELSE IF r.type = "s440" THEN [r.val EXCEPT !.Temp = 0]
  ELSE r.val

\* dict.update, of a dict by another and by one item.
Over(new, old) == [a \in DOMAIN new \cup DOMAIN old |->
                     IF a \in DOMAIN new THEN new[a] ELSE old[a]]
With(d, key, v) == [k \in DOMAIN d \cup {key} |-> IF k = key THEN v ELSE d[k]]

\* Mutant of Merged: only what is new is taken over.
MergedNewOnly(r, o) ==
  LET d == o[Kind(r)]
      v == IF Kind(r) = "devices" /\ Key(r) \in DOMAIN d THEN Over(d[Key(r)], Items(r))
                                                         ELSE Items(r)
  IN  [o EXCEPT ![Kind(r)] = With(d, Key(r), v)]

\* A later record with the same identifiers replaces the earlier one; those of
\* ParseDevice are merged attribute by attribute (merge_update).
Merged(r, o) ==
  LET d == o[Kind(r)]
      v == IF Kind(r) = "devices" /\ Key(r) \in DOMAIN d THEN Over(Items(r), d[Key(r)])
                                                         ELSE Items(r)
  IN  [o EXCEPT ![Kind(r)] = With(d, Key(r), v)]

\* Mutant of Learn: the definition of an instance is extended, not the class's.
LearnNothing(r) ==
  /\ longest' = IF r.type \in Classes
                THEN [longest EXCEPT ![r.type] = Max({@, r.len})] ELSE longest
  /\ UNCHANGED defn

\* What parseDevTable does to the class before it takes the fields.
Learn(r) ==
  /\ longest' = IF r.type \in Classes
                THEN [longest EXCEPT ![r.type] = Max({@, r.len})] ELSE longest
  /\ defn' = IF r.type \in Classes
             THEN [defn EXCEPT ![r.type] = Extended(@, r)] ELSE defn

-----------------------------------------------------------------------------
(* The loop. *)

Receive == /\ pc = "idle" /\ msgs < MaxMsgs
           /\ cur' \in Messages
           /\ pc' = "parse" /\ at' = 1 /\ out' = Nothing
           /\ msgs' = msgs + 1
           /\ UNCHANGED <<defn, lines, restarts, history>>

ParseRecord ==
  /\ pc = "parse" /\ at <= Len(cur) /\ ~Fails(cur[at])
  /\ Learn(cur[at])
  /\ out' = Merged(cur[at], out)
  /\ at' = at + 1
  /\ UNCHANGED <<pc, cur, lines, msgs, restarts, accepted>>

\* Mutant of RecordRaises: what has been parsed of the message is written.
RecordRaisesWrites ==
  /\ pc = "parse" /\ at <= Len(cur) /\ Fails(cur[at])
  /\ Learn(cur[at])
  /\ lines' = Append(lines, out) /\ accepted' = Append(accepted, <<>>)
  /\ pc' = "idle" /\ cur' = <<>> /\ at' = 1 /\ out' = Nothing
  /\ UNCHANGED <<msgs, restarts>>

\* The message is given up, in readData, with what has been parsed of it.
RecordRaises ==
  /\ pc = "parse" /\ at <= Len(cur) /\ Fails(cur[at])
  /\ Learn(cur[at])
  /\ pc' = "idle" /\ cur' = <<>> /\ at' = 1 /\ out' = Nothing
  /\ UNCHANGED <<lines, msgs, restarts, accepted>>

\* processMsg writes the line, unless the message had no data.
WriteLine ==
  /\ pc = "parse" /\ at > Len(cur)
  /\ IF cur = <<>> THEN UNCHANGED <<lines, accepted>>
     ELSE /\ lines' = Append(lines, out)
          /\ accepted' = Append(accepted, cur)
  /\ pc' = "idle" /\ cur' = <<>> /\ at' = 1 /\ out' = Nothing
  /\ UNCHANGED <<defn, msgs, restarts, longest>>

\* The program is stopped and started again: the classes are as they are defined.
RestartParser ==
  /\ restarts < MaxRestarts
  /\ restarts' = restarts + 1
  /\ defn' = [c \in Classes |-> <<Need[c]>>]
  /\ longest' = [c \in Classes |-> Need[c]]
  /\ pc' = "idle" /\ cur' = <<>> /\ at' = 1 /\ out' = Nothing
  /\ UNCHANGED <<lines, msgs, accepted>>

Next == Receive \/ ParseRecord \/ RecordRaises \/ WriteLine \/ RestartParser

Spec == Init /\ [][Next]_ddVars

-----------------------------------------------------------------------------
(* Properties. *)

\* The definition of a class is as long as the longest record it has been given
\* since the program started, whether that record was parsed in the end or not
\* (datadevices.py:214-223).
DefinitionIsLongest ==
  \A c \in Classes : /\ defnLen(defn[c]) = longest[c]
                     /\ \A i, j \in 1 .. Len(defn[c]) : i < j => defn[c][i] < defn[c][j]

\* Under each identifier a line has the last record of its message, and nothing
\* that is not in it (data.py:139-190; datadevices.py:787-801).
LineReports ==
  \A i \in 1 .. Len(lines), k \in Kinds :
    LET m == accepted[i]
        of(key) == {j \in 1 .. Len(m) : Kind(m[j]) = k /\ Key(m[j]) = key}
    IN  /\ DOMAIN lines[i][k] = {Key(m[j]) : j \in {n \in 1 .. Len(m) : Kind(m[n]) = k}}
        /\ \A key \in DOMAIN lines[i][k] :
             LET r == m[Max(of(key))]
                 v == lines[i][k][key]
             IN  IF k = "devices" THEN v.value = r.val
                 ELSE \A a \in DOMAIN r.val :
                        v[a] = IF r.type = "s440" /\ a = "Temp" THEN 0 ELSE r.val[a]

\* What is reported of a battery or a meter is of one record, also when several
\* have been merged and the definition has grown between them.  Of an unknown
\* device it may not be (datadevices.py:214-223, 787-801).
NotMixed ==
  \A i \in 1 .. Len(lines) : \A key \in DOMAIN lines[i].devices :
    LET v == lines[i].devices[key]
    IN  key[1] \in Classes /\ "rest" \in DOMAIN v => v.rest.data = v.value

Complete(r) == /\ r.type \in Types /\ r.have = r.len
               /\ IF r.type \in Events THEN r.len = Need[r.type] ELSE r.len >= Need[r.type]

\* A complete record, unless it is of a battery whose name is no text, is refused
\* only when its class has met a longer one before, and that one may have been
\* refused itself (datadevices.py:214-223, 241-248).
RefusedAfterLonger ==
  [][(RecordRaises /\ Complete(cur[at]) /\ ~NoName(cur[at]))
       => cur[at].type \in Classes /\ longest[cur[at].type] > cur[at].len]_ddVars
=============================================================================
