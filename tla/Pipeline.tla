------------------------------ MODULE Pipeline ------------------------------
(***************************************************************************)
(* semonitor.py | se2state.py, or the second following the output file of  *)
(* the first (README.md:340-360, scripts/semonitor): the parser of         *)
(* DeviceData and the program of Se2State, which share the lines; and      *)
(* se2csv.py, at any time, over the lines there are.                       *)
(***************************************************************************)
EXTENDS DeviceData, Se2Csv

CONSTANTS
  MaxStarts     \* bound on the executions of se2state.py

VARIABLES source, prog, pos, defined, stateDict, outFile, starts, best

State == INSTANCE Se2State

ASSUME StartsAssumption == MaxStarts \in Nat

\* What the definitions of the fields of inverters and optimizers have: an inverter
\* with three phases lacks some of what is totalled, and has always the same, as an event
\* has (dataparams.py:58-61, 114-120, 147-150).
ASSUME FieldsAssumption ==
  \A m \in Messages : \A j \in 1 .. Len(m) :
    /\ m[j].type = "inv" => /\ DOMAIN m[j].val = State!SinglePhase
                            /\ \A a \in State!SinglePhase : m[j].val[a] \in Int
    /\ m[j].type = "inv3" => ~(State!SinglePhase \subseteq DOMAIN m[j].val)
    /\ m[j].type \in Optimizers => /\ DOMAIN m[j].val = {"Vmod", "Vopt", "Imod", "Temp"}
                                   /\ \A a \in DOMAIN m[j].val : m[j].val[a] \in Int
    /\ m[j].type \in {"inv3"} \cup Events =>
         \A n \in Messages : \A i \in 1 .. Len(n) :
           n[i].type = m[j].type => DOMAIN n[i].val = DOMAIN m[j].val

\* Every device that may be reported has its place in the order of the names, and one.
ASSUME OrderAssumption ==
  /\ \A i, j \in 1 .. Len(BaseNames) : BaseNames[i] = BaseNames[j] => i = j
  /\ \A m \in Messages : \A j \in 1 .. Len(m) :
       m[j].type \in Types /\ ~NoName(m[j]) =>
         \E i \in 1 .. Len(BaseNames) :
           BaseNames[i] = IF Kind(m[j]) = "devices" THEN Key(m[j])
                                                    ELSE <<Kind(m[j]), Key(m[j])>>

stateVars == <<source, prog, pos, defined, stateDict, outFile, starts, best>>
vars == <<ddVars, stateVars>>

SystemInit == Init /\ State!Init

Parser == Next /\ UNCHANGED stateVars
Reader == State!Next /\ UNCHANGED ddVars

SystemSpec == SystemInit /\ [][Parser \/ Reader]_vars

-----------------------------------------------------------------------------
SystemTypeOK  == TypeOK /\ State!TypeOK
TotalsAgree   == State!TotalsAgree
EdayIsHighest == State!EdayIsHighest
LastReading   == State!LastReading

\* What is shown of an inverter was reported in a message that could be parsed as
\* a whole: nothing is taken from one that is given up (data.py:130-192,
\* semonitor.py:63-68, 87-90).
ShownWasReported ==
  \A s \in State!Shown : \A i \in DOMAIN s.inverters :
    \E k \in 1 .. Len(accepted) : \E j \in 1 .. Len(accepted[k]) :
      LET r == accepted[k][j]
      IN  r.type = "inv" /\ r.id = i /\ \A a \in {"Eday", "Etot", "Temp"} :
                                          r.val[a] = s.inverters[i][a]

\* The records of a message that no later one has replaced.
Reported(m) == {i \in 1 .. Len(m) : \A j \in 1 .. Len(m) :
                  j > i /\ Kind(m[j]) = Kind(m[i]) => Key(m[j]) # Key(m[i])}

\* The type of device that record r is a report of, for se2csv.py.
Device(r) == IF Kind(r) = "devices" THEN r.type ELSE Kind(r)

\* What makes the attributes of a report other than those of others of its type: an
\* inverter has three phases, or one of the records that the entry was merged from is
\* longer than the fields of its type.
Unlike(m, i) ==
  IF Kind(m[i]) = "devices"
  THEN \E j \in 1 .. Len(m) : /\ Kind(m[j]) = "devices" /\ Key(m[j]) = Key(m[i])
                               /\ m[j].len > Need[m[j].type]
  ELSE m[i].type = "inv3"

\* Two reports of one type of device differ in their attributes.
Mixed ==
  \E k, l \in 1 .. Len(accepted) :
    \E i \in Reported(accepted[k]), j \in Reported(accepted[l]) :
      /\ Device(accepted[k][i]) = Device(accepted[l][j])
      /\ Unlike(accepted[k], i) # Unlike(accepted[l], j)

\* se2csv.py over the lines: a row for every report up to where it raises, which
\* takes reports of a type with different attributes.  Without such, two executions
\* of which the second has -a, wherever the first ends, give what one gives, under the
\* columns of the first, but for -t: each execution has written the names of the columns
\* in front of its rows, so that they are in the middle of the file a second time
\* (se2csv.py:31-43, datadevices.py:214-223).  It is a matter of the lines alone,
\* which are the same whether se2state.py has been started or not.
CsvKeepsReports ==
  starts = 0 =>
  \A headers \in BOOLEAN :
    LET begun == Execution(FALSE, headers, <<>>)
        one   == se2csv(begun, lines)
    IN  /\ Converted(one, lines) /\ Headed(one, Opened(begun), headers)
        /\ one.raised => Mixed
        /\ ~Mixed => \A k \in 0 .. Len(lines) :
             LET first == se2csv(begun, SubSeq(lines, 1, k))
                 both  == se2csv(Execution(TRUE, headers, first.files),
                                 SubSeq(lines, k + 1, Len(lines)))
             IN  Converted(both, lines) /\ Aligned(both) /\ Headed(both, first, headers)
=============================================================================
