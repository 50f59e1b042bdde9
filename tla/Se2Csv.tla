------------------------------- MODULE Se2Csv -------------------------------
(***************************************************************************)
(* conversion/se2csv.py: the lines of semonitor.py become rows of one file *)
(* for each type of device.  The program is sequential and keeps nothing   *)
(* but its files, so that an execution is a function of the options, the   *)
(* files that are there, and the lines.  The columns of a file are the     *)
(* attributes of the first report an execution meets; a report with        *)
(* another attribute ends it.                                              *)
(*                                                                         *)
(* A file is a sequence of rows of values; heads tells behind how many of  *)
(* them there is a row with the names of the columns.                      *)
(***************************************************************************)
EXTENDS Integers, Sequences, FiniteSets

CONSTANT BaseNames    \* the names of devices, <<type, identifiers...>>, as sorted() has them

ASSUME NamesAssumption == Len(BaseNames) \in Nat

\* Devices without a level of their own in the line are below "devices".
OwnLevel == {"inverters", "optimizers", "events"}

Has(line, name) == IF Head(name) \in OwnLevel THEN name[2] \in DOMAIN line[Head(name)]
                                              ELSE name \in DOMAIN line.devices

Attributes(line, name) == IF Head(name) \in OwnLevel THEN line[Head(name)][name[2]]
                                                     ELSE line.devices[name]

\* The devices of a line and their attributes, each at the place of its name.
unwrap_metricsDict(line) ==
  [i \in {n \in 1 .. Len(BaseNames) : Has(line, BaseNames[n])} |->
     [dev   |-> Head(BaseNames[i]), id |-> Tail(BaseNames[i]),
      attrs |-> Attributes(line, BaseNames[i])]]

\* A dictionary in which key has the value v.
Stored(d, key, v) == [k \in DOMAIN d \cup {key} |-> IF k = key THEN v ELSE d[k]]

\* An execution with or without -a and -t, where there are files already; and what
\* it begins with.
Execution(append, headers, files) == [append |-> append, headers |-> headers, files |-> files]
Opened(e) == [columns |-> <<>>, files |-> e.files, raised |-> FALSE]

NoFile == [heads |-> {}, rows |-> <<>>]

\* The columns a report is written in: those of its file, or with its file begun here.
ColumnsOf(c, r) == IF r.dev \in DOMAIN c.columns THEN c.columns[r.dev] ELSE DOMAIN r.attrs
RowOf(c, r)     == [id |-> r.id, attrs |-> r.attrs, columns |-> ColumnsOf(c, r)]

\* The file of a report as it is opened: at its end with -a, or as a new one, and with
\* the names of the columns if they are wanted; or as the execution has left it.
FileFor(c, r, e) ==
  LET new == r.dev \notin DOMAIN c.columns
      old == IF r.dev \in DOMAIN c.files /\ (e.append \/ ~new) THEN c.files[r.dev] ELSE NoFile
  IN  [old EXCEPT !.heads = @ \cup IF new /\ e.headers THEN {Len(old.rows)} ELSE {}]

\* Mutant of writerow: a report that does not fit is left out.
writerowSkips(c, r, e) ==
  IF c.raised \/ ~(DOMAIN r.attrs \subseteq ColumnsOf(c, r)) THEN c
  ELSE [c EXCEPT !.columns = Stored(@, r.dev, ColumnsOf(c, r)),
                 !.files   = Stored(@, r.dev, [FileFor(c, r, e) EXCEPT !.rows = Append(@, RowOf(c, r))])]

\* The first report of a type opens the file of the type and fixes its columns;
\* DictWriter raises ValueError for an attribute that has no column.
writerow(c, r, e) ==
  IF c.raised THEN c
  ELSE IF ~(DOMAIN r.attrs \subseteq ColumnsOf(c, r)) THEN [c EXCEPT !.raised = TRUE]
  ELSE [c EXCEPT !.columns = Stored(@, r.dev, ColumnsOf(c, r)),
                 !.files   = Stored(@, r.dev, [FileFor(c, r, e) EXCEPT !.rows = Append(@, RowOf(c, r))])]

\* A line: a row for each of its devices, in the order of their names.
writerows(c, line, e) ==
  LET devs == unwrap_metricsDict(line)
      upTo[i \in 0 .. Len(BaseNames)] ==
        IF i = 0 THEN c
        ELSE IF i \in DOMAIN devs THEN writerow(upTo[i - 1], devs[i], e)
        ELSE upTo[i - 1]
  IN  upTo[Len(BaseNames)]

\* An execution over lines.
se2csv(e, lines) ==
  LET upTo[k \in 0 .. Len(lines)] ==
        IF k = 0 THEN Opened(e) ELSE writerows(upTo[k - 1], lines[k], e)
  IN  upTo[Len(lines)]

-----------------------------------------------------------------------------
\* The rows of a type.
Rows(c, dev) == IF dev \in DOMAIN c.files THEN c.files[dev].rows ELSE <<>>

\* Where the reports are in the lines: <<line, name>>, and in this order.
Reports(lines)  == UNION {{k} \X DOMAIN unwrap_metricsDict(lines[k]) : k \in 1 .. Len(lines)}
NotAfter(q, r)  == q[1] < r[1] \/ (q[1] = r[1] /\ q[2] <= r[2])
DevOf(r)        == Head(BaseNames[r[2]])
OfType(rs, dev) == {r \in rs : DevOf(r) = dev}

\* What a row says of a report, and which row of its type is that of r among rs.
SaysOf(row, report) == row.id = report.id /\ row.attrs = report.attrs
ReportAt(lines, r)  == unwrap_metricsDict(lines[r[1]])[r[2]]
Place(rs, r)        == Cardinality({q \in OfType(rs, DevOf(r)) : NotAfter(q, r)})

\* The rows are the first reports of their type, each once; all of them unless the
\* execution ended early.
Converted(c, lines) ==
  LET all == Reports(lines)
  IN  /\ \A dev \in {Head(BaseNames[i]) : i \in 1 .. Len(BaseNames)} :
           /\ Len(Rows(c, dev)) <= Cardinality(OfType(all, dev))
           /\ ~c.raised => Len(Rows(c, dev)) = Cardinality(OfType(all, dev))
      /\ \A r \in all :
           Place(all, r) <= Len(Rows(c, DevOf(r))) =>
             SaysOf(Rows(c, DevOf(r))[Place(all, r)], ReportAt(lines, r))

\* Every row has the columns of the first.
Aligned(c) == \A dev \in DOMAIN c.files : \A i \in DOMAIN Rows(c, dev) :
                Rows(c, dev)[i].columns = Rows(c, dev)[1].columns

\* With -t the names of the columns are in front of the rows that were there before,
\* if there were any, and in front of what has been added to them, if anything was.
Headed(c, before, headers) ==
  \A dev \in DOMAIN c.files :
    c.files[dev].heads = IF headers
                         THEN {n \in {0, Len(Rows(before, dev))} : n < Len(Rows(c, dev))} ELSE {}
=============================================================================
