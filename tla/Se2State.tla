------------------------------ MODULE Se2State ------------------------------
(***************************************************************************)
(* conversion/se2state.py: it reads the lines that semonitor.py writes and *)
(* keeps, in a file, the last values of every inverter and optimizer and   *)
(* totals over them.                                                       *)
(*                                                                         *)
(* The file is truncated and written after every line.  The program may be *)
(* killed anywhere, and is started again with -i, which begins with empty  *)
(* values, or without, which begins with those of the file.  Its input is  *)
(* a pipe, or a file that it reads from the beginning each time.           *)
(*                                                                         *)
(* An average is kept as the sum and the number it is computed from.  The  *)
(* entries for the inverters of -i are left out: they are stored below the *)
(* totals and nothing reads or changes them.                               *)
(***************************************************************************)
EXTENDS Integers, Sequences, FiniteSets, FiniteSetsExt, Functions

CONSTANTS
  MaxStarts     \* bound on the executions of the program

VARIABLES
  lines,        \* the output of semonitor.py, which only grows
  source,       \* the input: "pipe" or "file"
  prog,         \* "off", "read", "truncate", "write", or "dead" by an exception
  pos,          \* the lines that have been read
  defined,      \* there is a stateDict
  stateDict,    \* see StateType
  outFile,      \* the state file
  starts,
  best          \* history: the highest total of Eday written since -i

ssVars == <<source, prog, pos, defined, stateDict, outFile, starts, best>>

\* What a total over single-phase inverters takes from each of them.
SinglePhase == {"Vac", "Pac", "Eac", "Eday", "Etot", "Temp"}

Average(n, s) == [sum |-> s, n |-> n]

\* What -i begins with.  from is a history: the lines that have been used.
Zero == [inverters  |-> <<>>,
         optimizers |-> <<>>,
         inv |-> [Vac |-> Average(0, 0), Pac |-> 0, Eac |-> 0, Eday |-> 0, Etot |-> 0,
                  Temp |-> Average(0, 0)],
         opt |-> Average(0, 0),
         from |-> <<>>]

Missing == [is |-> "missing", value |-> Zero]
Torn    == [is |-> "torn",    value |-> Zero]
Whole(s) == [is |-> "whole", value |-> s]

StateType(s) ==
  /\ DOMAIN s = {"inverters", "optimizers", "inv", "opt", "from"}
  /\ \A i \in DOMAIN s.inverters : DOMAIN s.inverters[i] = SinglePhase
  /\ \A o \in DOMAIN s.optimizers : DOMAIN s.optimizers[o] = {"Vmod", "Vopt", "Imod", "Temp", "Pdc"}
  /\ \A k \in 1 .. Len(s.from) : s.from[k] \in 1 .. Len(lines)

TypeOK ==
  /\ source \in {"pipe", "file"}
  /\ prog \in {"off", "read", "truncate", "write", "dead"}
  /\ pos \in 0 .. Len(lines)
  /\ defined \in BOOLEAN /\ StateType(stateDict)
  /\ outFile.is \in {"missing", "torn", "whole"} /\ StateType(outFile.value)
  /\ starts \in 0 .. MaxStarts /\ best \in Nat

Init == /\ source \in {"pipe", "file"}
        /\ prog = "off" /\ pos = 0
        /\ defined = FALSE /\ stateDict = Zero
        /\ outFile = Missing
        /\ starts = 0 /\ best = 0

-----------------------------------------------------------------------------
(* The values. *)

sumItems(d, attr) == FoldFunction(LAMBDA x, y : x + y, 0, [i \in DOMAIN d |-> d[i][attr]])
avgItems(d, attr) == Average(Cardinality(DOMAIN d), sumItems(d, attr))

\* dict.update.
update(d, new) == [e \in DOMAIN d \cup DOMAIN new |-> IF e \in DOMAIN new THEN new[e] ELSE d[e]]

\* Mutant of Updated: the power of what a line replaces is not computed again.
UpdatedNoPower(s, line, k) ==
  [s EXCEPT !.inverters  = update(@, line.inverters),
            !.optimizers = update(@, line.optimizers),
            !.from       = Append(@, k)]

Updated(s, line, k) ==
  LET opt == update(s.optimizers, line.optimizers)
  IN  [s EXCEPT !.inverters  = update(@, line.inverters),
                !.optimizers = [o \in DOMAIN opt |->
                                  update(opt[o], [Pdc |-> opt[o].Vmod * opt[o].Imod])],
                !.from       = Append(@, k)]

\* The totals need every value of every inverter: one with three phases has
\* neither Vac nor Pac.
Computable(s) == \A i \in DOMAIN s.inverters : SinglePhase \subseteq DOMAIN s.inverters[i]

\* Mutant of WithTotals: the sum for the day is taken as it is.
WithTotalsOfNow(s) ==
  [s EXCEPT !.inv = [Vac  |-> avgItems(s.inverters, "Vac"),
                     Pac  |-> sumItems(s.inverters, "Pac"),
                     Eac  |-> sumItems(s.inverters, "Eac"),
                     Eday |-> sumItems(s.inverters, "Eday"),
                     Etot |-> sumItems(s.inverters, "Etot"),
                     Temp |-> avgItems(s.inverters, "Temp")],
            !.opt = avgItems(s.optimizers, "Temp")]

WithTotals(s) ==
  [s EXCEPT !.inv = [Vac  |-> avgItems(s.inverters, "Vac"),
                     Pac  |-> sumItems(s.inverters, "Pac"),
                     Eac  |-> sumItems(s.inverters, "Eac"),
                     Eday |-> Max({@.Eday, sumItems(s.inverters, "Eday")}),
                     Etot |-> sumItems(s.inverters, "Etot"),
                     Temp |-> avgItems(s.inverters, "Temp")],
            !.opt = avgItems(s.optimizers, "Temp")]

\* Mutant of Zeroed: the totals are left as they have been computed.
ZeroedDevices(s) ==
  [s EXCEPT !.inverters  = [i \in DOMAIN @ |-> [@[i] EXCEPT !.Eac = 0, !.Pac = 0]],
            !.optimizers = [o \in DOMAIN @ |->
                              [@[o] EXCEPT !.Vmod = 0, !.Vopt = 0, !.Imod = 0]]]

\* An event: no energy and power, in the totals as well, which are an entry like
\* those of the devices.
Zeroed(s) ==
  [s EXCEPT !.inverters  = [i \in DOMAIN @ |-> [@[i] EXCEPT !.Eac = 0, !.Pac = 0]],
            !.inv        = [@ EXCEPT !.Eac = 0, !.Pac = 0],
            !.optimizers = [o \in DOMAIN @ |->
                              [@[o] EXCEPT !.Vmod = 0, !.Vopt = 0, !.Imod = 0]]]

\* Mutant of AfterLine: the values of the line come after its event.
AfterLineEventFirst(s, line, k) ==
  WithTotals(Updated(IF DOMAIN line.events # {} THEN Zeroed(s) ELSE s, line, k))

AfterLine(s, line, k) ==
  LET t == WithTotals(Updated(s, line, k))
  IN  IF DOMAIN line.events # {} THEN Zeroed(t) ELSE t

-----------------------------------------------------------------------------
(* The program. *)

\* Where the input begins: a file at its beginning, a pipe after whatever has been
\* written while nobody read it.
Begin == /\ prog \in {"off", "dead"} /\ starts < MaxStarts
         /\ starts' = starts + 1
         /\ pos' \in IF source = "file" THEN {0} ELSE pos .. Len(lines)
         /\ UNCHANGED source

StartNew == /\ Begin
            /\ stateDict' = Zero /\ defined' = TRUE
            /\ prog' = "truncate"
            /\ UNCHANGED <<outFile, best>>

\* An empty file is not JSON, and a missing one leaves stateDict undefined.
StartFromFile ==
  /\ Begin
  /\ prog' = IF outFile.is = "torn" THEN "dead" ELSE "read"
  /\ defined' = (outFile.is = "whole")
  /\ stateDict' = outFile.value
  /\ UNCHANGED <<outFile, best>>

ReadLine ==
  /\ prog = "read" /\ pos < Len(lines)
  /\ pos' = pos + 1
  /\ IF defined /\ Computable(Updated(stateDict, lines[pos + 1], pos + 1))
     THEN /\ stateDict' = AfterLine(stateDict, lines[pos + 1], pos + 1)
          /\ prog' = "truncate"
     ELSE /\ prog' = "dead"
          /\ UNCHANGED stateDict
  /\ UNCHANGED <<source, defined, outFile, starts, best>>

\* writeState.
Truncate == /\ prog = "truncate"
            /\ outFile' = Torn
            /\ prog' = "write"
            /\ UNCHANGED <<source, pos, defined, stateDict, starts, best>>

Write == /\ prog = "write"
         /\ outFile' = Whole(stateDict)
         /\ best' = IF stateDict.from = <<>> THEN 0
                    ELSE Max({best, sumItems(stateDict.inverters, "Eday")})
         /\ prog' = "read"
         /\ UNCHANGED <<source, pos, defined, stateDict, starts>>

Kill == /\ prog \in {"read", "truncate", "write"}
        /\ prog' = "off"
        /\ UNCHANGED <<source, pos, defined, stateDict, outFile, starts, best>>

Next == StartNew \/ StartFromFile \/ ReadLine \/ Truncate \/ Write \/ Kill

-----------------------------------------------------------------------------
(* Properties. *)

\* Everything said below is about the file and about the values in memory.
Shown == (IF outFile.is = "whole" THEN {outFile.value} ELSE {})
         \cup (IF defined /\ prog \notin {"off", "dead"} THEN {stateDict} ELSE {})

\* The totals are those of the values shown with them, also after an event, which
\* comes after they have been computed, and after a restart (se2state.py:81-100).
TotalsAgree ==
  \A s \in Shown :
    /\ \A attr \in {"Pac", "Eac", "Etot"} : s.inv[attr] = sumItems(s.inverters, attr)
    /\ \A attr \in {"Vac", "Temp"} : s.inv[attr] = avgItems(s.inverters, attr)
    /\ s.opt = avgItems(s.optimizers, "Temp")

\* "only update Eday if it increases" (se2state.py:86): the total for the day is the
\* highest that has been shown since -i, whatever is read again after a restart.
EdayIsHighest == outFile.is = "whole" => outFile.value.inv.Eday = best

\* The values shown for a device are those of the last line that has it, and
\* nothing if an event came with it or later.  The power of an optimizer is nothing
\* from the line behind the event on; what it is until then is left open
\* (se2state.py:74-100).
LastReading ==
  \A s \in Shown :
    LET L == Len(s.from)
        at(k) == lines[s.from[k]]
        last(kind, d) == Max({k \in 1 .. L : d \in DOMAIN at(k)[kind]})
        eventSince(k, e) == \E j \in k .. e : DOMAIN at(j).events # {}
    IN  /\ DOMAIN s.inverters = UNION {DOMAIN at(k).inverters : k \in 1 .. L}
        /\ DOMAIN s.optimizers = UNION {DOMAIN at(k).optimizers : k \in 1 .. L}
        /\ \A i \in DOMAIN s.inverters :
             LET k == last("inverters", i)
             IN  \A a \in SinglePhase :
                   s.inverters[i][a] = IF a \in {"Pac", "Eac"} /\ eventSince(k, L)
                                       THEN 0 ELSE at(k).inverters[i][a]
        /\ \A o \in DOMAIN s.optimizers :
             LET k == last("optimizers", o)
                 r == at(k).optimizers[o]
             IN  /\ \A a \in {"Vmod", "Vopt", "Imod"} :
                      s.optimizers[o][a] = IF eventSince(k, L) THEN 0 ELSE r[a]
                 /\ s.optimizers[o].Temp = r.Temp
                 /\ ~eventSince(k, L) => s.optimizers[o].Pdc = r.Vmod * r.Imod
                 /\ eventSince(k, L - 1) => s.optimizers[o].Pdc = 0
=============================================================================
