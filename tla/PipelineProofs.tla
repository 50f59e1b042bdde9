--------------------------- MODULE PipelineProofs ---------------------------
(***************************************************************************)
(* For any messages and any restarts of the two programs: the values that  *)
(* se2state.py shows are those of the last lines it has used, which are    *)
(* those of messages parsed as a whole; the totals agree with them; and    *)
(* the total for the day is the highest there has been.  The rows of the   *)
(* csv files are the reports of the lines, in their order.                 *)
(*                                                                         *)
(* The sums are folds, recursive functions over the subsets of a domain.   *)
(* What is needed of them is proved by induction on the size of the        *)
(* subset, with the induction over the natural numbers stated for a set;   *)
(* the executions of se2csv.py, which are recursive functions over names   *)
(* and lines, by the same induction over the numbers of these.             *)
(***************************************************************************)
EXTENDS Pipeline, DeviceDataProofs, FiniteSetTheorems, WellFoundedInduction

-----------------------------------------------------------------------------
(* Induction and sums. *)

\* A set with 0 and with the successor of each of its numbers has all of them.
LEMMA NatSetInduction ==
  ASSUME NEW S, 0 \in S, \A n \in Nat : n \in S => n + 1 \in S
  PROVE  Nat \subseteq S
<1> DEFINE R == {ss \in Nat \X Nat : ss[1] < ss[2]}
           T == Nat \ S
<1>1. IsWellFoundedOn(R, Nat)
  BY NatLessThanWellFounded DEF OpToRel
<1>2. T \subseteq Nat
  OBVIOUS
<1>3. \A x, y \in Nat : y < x => <<y, x>> \in R
  OBVIOUS
<1>4. CASE T # {}
  <2> HIDE DEF T, R
  <2>1. PICK x \in T : \A y \in T : <<y, x>> \notin R
    BY <1>1, <1>2, <1>4, WFMin
  <2>2. x \in Nat /\ x # 0
    BY <1>2 DEF T
  <2>3. x - 1 \in Nat /\ x - 1 < x /\ (x - 1) + 1 = x
    BY <2>2
  <2>4. x - 1 \in S
    BY <1>3, <2>1, <2>2, <2>3 DEF T
  <2>5. x \in S
    BY <2>3, <2>4
  <2> QED BY <2>5 DEF T
<1> QED BY <1>4

some(s) == CHOOSE x \in s : TRUE

\* g adds the terms of f over each subset of D, as FoldFunction does.
Adds(g, f, D) == g = [s \in SUBSET D |-> IF s = {} THEN 0 ELSE f[some(s)] + g[s \ {some(s)}]]

LEMMA SomeElement ==
  ASSUME NEW s, IsFiniteSet(s), s # {}, NEW n \in Nat, Cardinality(s) = n + 1
  PROVE  some(s) \in s /\ IsFiniteSet(s \ {some(s)}) /\ Cardinality(s \ {some(s)}) = n
<1>1. some(s) \in s
  BY DEF some
<1>2. IsFiniteSet(s \ {some(s)}) /\ Cardinality(s \ {some(s)}) = Cardinality(s) - 1
  BY <1>1, FS_RemoveElement
<1> QED BY <1>1, <1>2

\* The recursion is well defined: for subsets of up to n elements there is a g, and
\* D has a number of elements.
LEMMA AddsExists ==
  ASSUME NEW D, IsFiniteSet(D), NEW f
  PROVE  \E g : Adds(g, f, D)
<1> DEFINE Step(g, s)  == IF s = {} THEN 0 ELSE f[some(s)] + g[s \ {some(s)}]
           UpTo(g, n)  == /\ DOMAIN g = SUBSET D
                          /\ g = [s \in SUBSET D |-> g[s]]
                          /\ \A s \in SUBSET D : Cardinality(s) <= n => g[s] = Step(g, s)
           S == {n \in Nat : \E g : UpTo(g, n)}
<1>1. \A s \in SUBSET D : IsFiniteSet(s) /\ Cardinality(s) \in Nat
  BY FS_Subset, FS_CardinalityType
<1>2. 0 \in S
  <2> DEFINE g0 == [s \in SUBSET D |-> 0]
  <2>1. \A s \in SUBSET D : Cardinality(s) <= 0 => s = {}
    BY <1>1, FS_EmptySet
  <2>2. UpTo(g0, 0)
    BY <2>1
  <2> QED BY <2>2
<1>3. ASSUME NEW n \in Nat, n \in S PROVE n + 1 \in S
  <2>1. PICK g : UpTo(g, n)
    BY <1>3
  <2> DEFINE h == [s \in SUBSET D |-> IF Cardinality(s) <= n THEN g[s] ELSE Step(g, s)]
  <2>2. ASSUME NEW s \in SUBSET D, Cardinality(s) <= n + 1
        PROVE  h[s] = Step(h, s)
    <3>1. h[s] = Step(g, s)
      BY <2>1
    <3>2. CASE s = {}
      BY <3>1, <3>2
    <3>3. CASE s # {}
      <4>1. IsFiniteSet(s) /\ Cardinality(s) \in Nat /\ Cardinality(s) # 0
        BY <1>1, <3>3, FS_EmptySet
      <4>2. Cardinality(s) - 1 \in Nat /\ Cardinality(s) = (Cardinality(s) - 1) + 1
        BY <4>1
      <4>3. Cardinality(s \ {some(s)}) = Cardinality(s) - 1
        BY <3>3, <4>1, <4>2, SomeElement
      <4>4. Cardinality(s \ {some(s)}) <= n
        BY <2>2, <4>1, <4>3
      <4>5. s \ {some(s)} \in SUBSET D
        OBVIOUS
      <4>6. h[s \ {some(s)}] = g[s \ {some(s)}]
        BY <4>4, <4>5
      <4> QED BY <3>1, <3>3, <4>6
    <3> QED BY <3>2, <3>3
  <2>3. UpTo(h, n + 1)
    BY <2>2
  <2> HIDE DEF UpTo, h
  <2>4. n + 1 \in Nat
    OBVIOUS
  <2> QED BY <2>3, <2>4
<1>4. Nat \subseteq S
  <2> HIDE DEF S
  <2> QED BY <1>2, <1>3, NatSetInduction
<1>5. PICK g : UpTo(g, Cardinality(D))
  <2>1. Cardinality(D) \in S
    BY <1>4, FS_CardinalityType
  <2> QED BY <2>1
<1>6. \A s \in SUBSET D : g[s] = Step(g, s)
  BY <1>5, FS_Subset
<1>7. g = [s \in SUBSET D |-> Step(g, s)]
  BY <1>5, <1>6
<1> QED BY <1>7 DEF Adds

\* The sum of integers is one, and of zeros is zero.
LEMMA AddsInt ==
  ASSUME NEW D, IsFiniteSet(D), NEW f, NEW g, Adds(g, f, D), \A i \in D : f[i] \in Int
  PROVE  g[D] \in Int /\ ((\A i \in D : f[i] = 0) => g[D] = 0)
<1> DEFINE Good(s) == g[s] \in Int /\ ((\A i \in D : f[i] = 0) => g[s] = 0)
           S == {n \in Nat : \A s \in SUBSET D : Cardinality(s) = n => Good(s)}
<1>1. \A s \in SUBSET D : IsFiniteSet(s) /\ Cardinality(s) \in Nat
  BY FS_Subset, FS_CardinalityType
<1>2. \A s \in SUBSET D : g[s] = IF s = {} THEN 0 ELSE f[some(s)] + g[s \ {some(s)}]
  <2> DEFINE G == [s \in SUBSET D |-> IF s = {} THEN 0 ELSE f[some(s)] + g[s \ {some(s)}]]
  <2>1. g = G
    BY DEF Adds
  <2>2. \A s \in SUBSET D : G[s] = IF s = {} THEN 0 ELSE f[some(s)] + g[s \ {some(s)}]
    OBVIOUS
  <2> HIDE DEF G
  <2> QED BY <2>1, <2>2
<1>3. 0 \in S
  <2>1. \A s \in SUBSET D : Cardinality(s) = 0 => s = {}
    BY <1>1, FS_EmptySet
  <2>2. g[{}] = 0
    BY <1>2
  <2>3. Good({})
    BY <2>2
  <2> HIDE DEF Good
  <2> QED BY <2>1, <2>3
<1>4. ASSUME NEW n \in Nat, n \in S PROVE n + 1 \in S
  <2>1. ASSUME NEW s \in SUBSET D, Cardinality(s) = n + 1 PROVE Good(s)
    <3>1. s # {}
      <4>1. n + 1 # 0
        OBVIOUS
      <4> QED BY <2>1, <4>1, FS_EmptySet
    <3> DEFINE t == s \ {some(s)}
    <3>2. some(s) \in s /\ Cardinality(t) = n
      BY <1>1, <2>1, <3>1, SomeElement
    <3>3. t \in SUBSET D
      OBVIOUS
    <3>4. Good(t)
      <4> HIDE DEF t, Good
      <4> QED BY <1>4, <3>2, <3>3
    <3>5. g[s] = f[some(s)] + g[t]
      BY <1>2, <3>1
    <3>6. some(s) \in D
      BY <3>2
    <3> HIDE DEF t
    <3> QED BY <3>4, <3>5, <3>6
  <2> QED BY <2>1
<1>5. Nat \subseteq S
  <2> HIDE DEF S
  <2> QED BY <1>3, <1>4, NatSetInduction
<1>6. Cardinality(D) \in S
  BY <1>1, <1>5
<1> QED BY <1>6

\* sumItems is such a fold.
LEMMA SumIsFold ==
  ASSUME NEW d, NEW attr
  PROVE  LET f == [i \in DOMAIN d |-> d[i][attr]]
         IN  State!sumItems(d, attr) = (CHOOSE g : Adds(g, f, DOMAIN d))[DOMAIN d]
<1> DEFINE f == [i \in DOMAIN d |-> d[i][attr]]
<1>1. DOMAIN f = DOMAIN d
  OBVIOUS
<1>2. State!sumItems(d, attr) = State!FoldFunction(LAMBDA x, y : x + y, 0, f)
  BY DEF State!sumItems
<1> HIDE DEF f
<1>3. State!FoldFunction(LAMBDA x, y : x + y, 0, f) = (CHOOSE g : Adds(g, f, DOMAIN f))[DOMAIN f]
  BY DEF State!FoldFunction, State!FoldFunctionOnSet, State!MapThenFoldSet, Adds, some
<1>4. State!sumItems(d, attr) = (CHOOSE g : Adds(g, f, DOMAIN d))[DOMAIN d]
  BY <1>1, <1>2, <1>3
<1> QED BY <1>4 DEF f

LEMMA SumProperties ==
  ASSUME NEW d, IsFiniteSet(DOMAIN d), NEW attr, \A i \in DOMAIN d : d[i][attr] \in Int
  PROVE  /\ State!sumItems(d, attr) \in Int
         /\ (\A i \in DOMAIN d : d[i][attr] = 0) => State!sumItems(d, attr) = 0
<1> DEFINE f == [i \in DOMAIN d |-> d[i][attr]]
<1>1. /\ \A i \in DOMAIN d : f[i] = d[i][attr]
      /\ State!sumItems(d, attr) = (CHOOSE g : Adds(g, f, DOMAIN d))[DOMAIN d]
  BY SumIsFold
<1> HIDE DEF f
<1> DEFINE g == CHOOSE h : Adds(h, f, DOMAIN d)
<1>2. Adds(g, f, DOMAIN d)
  BY AddsExists
<1> HIDE DEF g
<1>3. g[DOMAIN d] \in Int /\ ((\A i \in DOMAIN d : f[i] = 0) => g[DOMAIN d] = 0)
  BY <1>1, <1>2, AddsInt
<1>4. State!sumItems(d, attr) = g[DOMAIN d]
  BY <1>1 DEF g
<1> QED BY <1>1, <1>3, <1>4

LEMMA SumOfZeros ==
  ASSUME NEW d, IsFiniteSet(DOMAIN d), NEW attr, \A i \in DOMAIN d : d[i][attr] = 0
  PROVE  State!sumItems(d, attr) = 0
<1>1. \A i \in DOMAIN d : d[i][attr] \in Int
  OBVIOUS
<1> QED BY <1>1, SumProperties, Zenon

\* A sum depends on the values of its attribute alone.
LEMMA SumSame ==
  ASSUME NEW d, NEW e, NEW attr, DOMAIN e = DOMAIN d,
         \A i \in DOMAIN d : e[i][attr] = d[i][attr]
  PROVE  /\ State!sumItems(e, attr) = State!sumItems(d, attr)
         /\ State!avgItems(e, attr) = State!avgItems(d, attr)
<1>1. [i \in DOMAIN e |-> e[i][attr]] = [i \in DOMAIN d |-> d[i][attr]]
  OBVIOUS
<1>2. State!sumItems(e, attr) = State!sumItems(d, attr)
  BY <1>1 DEF State!sumItems
<1> QED BY <1>2 DEF State!avgItems

\* The larger of two integers.
LEMMA MaxOfInts ==
  ASSUME NEW a \in Int, NEW b \in Int
  PROVE  Max({a, b}) = (IF a < b THEN b ELSE a) /\ Max({a, b}) \in Int
<1> DEFINE m == IF a < b THEN b ELSE a
<1>1. m \in {a, b} /\ m \in Int /\ \A y \in {a, b} : m >= y
  OBVIOUS
<1>2. \A x \in {a, b} : (\A y \in {a, b} : x >= y) => x = m
  OBVIOUS
<1>3. Max({a, b}) = CHOOSE x \in {a, b} : \A y \in {a, b} : x >= y
  BY DEF Max
<1> HIDE DEF m
<1>4. Max({a, b}) = m
  BY <1>1, <1>2, <1>3
<1> QED BY <1>1, <1>4 DEF m

-----------------------------------------------------------------------------
(* A line and the values it is added to. *)

SinglePhase == State!SinglePhase
OfModule    == {"Vmod", "Vopt", "Imod", "Temp"}

\* The fields of the devices in a line: an inverter has those of one phase or lacks
\* some of them.
LineOK(line) ==
  /\ IsFiniteSet(DOMAIN line.inverters) /\ IsFiniteSet(DOMAIN line.optimizers)
  /\ \A i \in DOMAIN line.inverters :
       SinglePhase \subseteq DOMAIN line.inverters[i]
         => /\ DOMAIN line.inverters[i] = SinglePhase
            /\ \A a \in SinglePhase : line.inverters[i][a] \in Int
  /\ \A o \in DOMAIN line.optimizers : /\ DOMAIN line.optimizers[o] = OfModule
                                       /\ \A a \in OfModule : line.optimizers[o][a] \in Int

StateKeys == {"inverters", "optimizers", "inv", "opt", "from"}

\* The values of a state are numbers, for finitely many devices.
ValuesOK(s) ==
  /\ DOMAIN s = StateKeys
  /\ IsFiniteSet(DOMAIN s.inverters) /\ IsFiniteSet(DOMAIN s.optimizers)
  /\ \A i \in DOMAIN s.inverters : /\ DOMAIN s.inverters[i] = SinglePhase
                                   /\ \A a \in SinglePhase : s.inverters[i][a] \in Int
  /\ \A o \in DOMAIN s.optimizers : /\ DOMAIN s.optimizers[o] = OfModule \cup {"Pdc"}
                                    /\ \A a \in OfModule : s.optimizers[o][a] \in Int
  /\ s.inv.Eday \in Int

Agrees(s) ==
  /\ \A attr \in {"Pac", "Eac", "Etot"} : s.inv[attr] = State!sumItems(s.inverters, attr)
  /\ \A attr \in {"Vac", "Temp"} : s.inv[attr] = State!avgItems(s.inverters, attr)
  /\ s.opt = State!avgItems(s.optimizers, "Temp")

\* What Updated does, value by value.
LEMMA UpdatedFacts ==
  ASSUME NEW s, DOMAIN s = StateKeys, NEW line, NEW n
  PROVE  LET t    == State!Updated(s, line, n)
             u(o) == IF o \in DOMAIN line.optimizers THEN line.optimizers[o]
                                                     ELSE s.optimizers[o]
         IN  /\ DOMAIN t = StateKeys
             /\ t.inv = s.inv /\ t.from = Append(s.from, n)
             /\ DOMAIN t.inverters = DOMAIN s.inverters \cup DOMAIN line.inverters
             /\ \A i \in DOMAIN t.inverters :
                  t.inverters[i] = IF i \in DOMAIN line.inverters THEN line.inverters[i]
                                                                  ELSE s.inverters[i]
             /\ DOMAIN t.optimizers = DOMAIN s.optimizers \cup DOMAIN line.optimizers
             /\ \A o \in DOMAIN t.optimizers :
                  /\ DOMAIN t.optimizers[o] = DOMAIN u(o) \cup {"Pdc"}
                  /\ t.optimizers[o].Pdc = u(o).Vmod * u(o).Imod
                  /\ \A a \in DOMAIN u(o) : a # "Pdc" => t.optimizers[o][a] = u(o)[a]
<1> DEFINE t    == State!Updated(s, line, n)
           opt  == State!update(s.optimizers, line.optimizers)
           u(o) == IF o \in DOMAIN line.optimizers THEN line.optimizers[o]
                                                   ELSE s.optimizers[o]
           with(o) == State!update(opt[o], [Pdc |-> opt[o].Vmod * opt[o].Imod])
<1>1. /\ DOMAIN t = StateKeys
      /\ t.inv = s.inv /\ t.from = Append(s.from, n)
      /\ t.inverters = State!update(s.inverters, line.inverters)
      /\ t.optimizers = [o \in DOMAIN opt |-> with(o)]
  BY DEF State!Updated, StateKeys
<1> HIDE DEF t
<1>2. /\ DOMAIN t.inverters = DOMAIN s.inverters \cup DOMAIN line.inverters
      /\ \A i \in DOMAIN t.inverters :
           t.inverters[i] = IF i \in DOMAIN line.inverters THEN line.inverters[i]
                                                           ELSE s.inverters[i]
  BY <1>1 DEF State!update
<1>3. /\ DOMAIN opt = DOMAIN s.optimizers \cup DOMAIN line.optimizers
      /\ \A o \in DOMAIN opt : opt[o] = u(o)
  BY DEF State!update
<1> HIDE DEF opt
<1>4. ASSUME NEW o \in DOMAIN opt
      PROVE  /\ DOMAIN with(o) = DOMAIN u(o) \cup {"Pdc"}
             /\ with(o).Pdc = u(o).Vmod * u(o).Imod
             /\ \A a \in DOMAIN u(o) : a # "Pdc" => with(o)[a] = u(o)[a]
  <2>1. opt[o] = u(o)
    BY <1>3
  <2> HIDE DEF u
  <2> DEFINE p == [Pdc |-> u(o).Vmod * u(o).Imod]
  <2>2. with(o) = State!update(u(o), p)
    BY <2>1
  <2>3. DOMAIN p = {"Pdc"} /\ p.Pdc = u(o).Vmod * u(o).Imod
    OBVIOUS
  <2> HIDE DEF p, with
  <2> QED BY <2>2, <2>3 DEF State!update
<1> HIDE DEF u, with
<1>5. DOMAIN t.optimizers = DOMAIN opt /\ \A o \in DOMAIN opt : t.optimizers[o] = with(o)
  BY <1>1
<1>6. /\ DOMAIN t.optimizers = DOMAIN s.optimizers \cup DOMAIN line.optimizers
      /\ \A o \in DOMAIN t.optimizers :
           /\ DOMAIN t.optimizers[o] = DOMAIN u(o) \cup {"Pdc"}
           /\ t.optimizers[o].Pdc = u(o).Vmod * u(o).Imod
           /\ \A a \in DOMAIN u(o) : a # "Pdc" => t.optimizers[o][a] = u(o)[a]
  BY <1>3, <1>4, <1>5
<1> QED BY <1>1, <1>2, <1>6 DEF t, u

\* What the totals and an event do to the values, and that they agree.
LEMMA TotalsFacts ==
  ASSUME NEW t, DOMAIN t = StateKeys, NEW event \in BOOLEAN,
         IsFiniteSet(DOMAIN t.inverters),
         \A i \in DOMAIN t.inverters : SinglePhase \subseteq DOMAIN t.inverters[i],
         \A o \in DOMAIN t.optimizers : "Temp" \in DOMAIN t.optimizers[o],
         NEW r, r = IF event THEN State!Zeroed(State!WithTotals(t)) ELSE State!WithTotals(t)
  PROVE  /\ DOMAIN r = StateKeys /\ r.from = t.from
         /\ DOMAIN r.inverters = DOMAIN t.inverters
         /\ \A i \in DOMAIN t.inverters :
              /\ DOMAIN r.inverters[i] = DOMAIN t.inverters[i]
              /\ \A a \in DOMAIN t.inverters[i] :
                   r.inverters[i][a] = IF event /\ a \in {"Pac", "Eac"} THEN 0
                                                                        ELSE t.inverters[i][a]
         /\ DOMAIN r.optimizers = DOMAIN t.optimizers
         /\ \A o \in DOMAIN t.optimizers :
              /\ DOMAIN r.optimizers[o] = DOMAIN t.optimizers[o]
              /\ \A a \in DOMAIN t.optimizers[o] :
                   r.optimizers[o][a] = IF event /\ a \in {"Vmod", "Vopt", "Imod"} THEN 0
                                        ELSE t.optimizers[o][a]
         /\ r.inv.Eday = Max({t.inv.Eday, State!sumItems(r.inverters, "Eday")})
         /\ Agrees(r)
<1> DEFINE w == State!WithTotals(t)
           inv == [Vac  |-> State!avgItems(t.inverters, "Vac"),
                   Pac  |-> State!sumItems(t.inverters, "Pac"),
                   Eac  |-> State!sumItems(t.inverters, "Eac"),
                   Eday |-> Max({t.inv.Eday, State!sumItems(t.inverters, "Eday")}),
                   Etot |-> State!sumItems(t.inverters, "Etot"),
                   Temp |-> State!avgItems(t.inverters, "Temp")]
<1>1. /\ DOMAIN w = StateKeys /\ w.from = t.from
      /\ w.inverters = t.inverters /\ w.optimizers = t.optimizers
      /\ w.inv = inv /\ w.opt = State!avgItems(t.optimizers, "Temp")
  BY DEF State!WithTotals, StateKeys, State!Max, Max
<1> HIDE DEF w
<1>2. Agrees(w)
  BY <1>1 DEF Agrees
<1>3. CASE ~event
  BY <1>1, <1>2, <1>3 DEF w
<1>4. CASE event
  <2> DEFINE zi(i) == [t.inverters[i] EXCEPT !.Eac = 0, !.Pac = 0]
             zo(o) == [t.optimizers[o] EXCEPT !.Vmod = 0, !.Vopt = 0, !.Imod = 0]
  <2>1. r = State!Zeroed(w)
    BY <1>4 DEF w
  <2>2. /\ DOMAIN r = StateKeys /\ r.from = t.from
        /\ r.inverters = [i \in DOMAIN t.inverters |-> zi(i)]
        /\ r.inv = [inv EXCEPT !.Eac = 0, !.Pac = 0]
        /\ r.optimizers = [o \in DOMAIN t.optimizers |-> zo(o)]
        /\ r.opt = w.opt
    <3>1. /\ r.inverters = [i \in DOMAIN w.inverters |->
                              [w.inverters[i] EXCEPT !.Eac = 0, !.Pac = 0]]
          /\ r.optimizers = [o \in DOMAIN w.optimizers |->
                                [w.optimizers[o] EXCEPT !.Vmod = 0, !.Vopt = 0, !.Imod = 0]]
          /\ r.inv = [w.inv EXCEPT !.Eac = 0, !.Pac = 0]
          /\ DOMAIN r = StateKeys /\ r.from = w.from /\ r.opt = w.opt
      BY <1>1, <2>1 DEF State!Zeroed, StateKeys
    <3> QED BY <1>1, <3>1
  <2>3. ASSUME NEW i \in DOMAIN t.inverters
        PROVE  /\ DOMAIN zi(i) = DOMAIN t.inverters[i]
               /\ \A a \in DOMAIN t.inverters[i] :
                    zi(i)[a] = IF a \in {"Pac", "Eac"} THEN 0 ELSE t.inverters[i][a]
    OBVIOUS
  <2>4. ASSUME NEW o \in DOMAIN t.optimizers
        PROVE  /\ DOMAIN zo(o) = DOMAIN t.optimizers[o]
               /\ \A a \in DOMAIN t.optimizers[o] :
                    zo(o)[a] = IF a \in {"Vmod", "Vopt", "Imod"} THEN 0 ELSE t.optimizers[o][a]
               /\ zo(o).Temp = t.optimizers[o].Temp
    OBVIOUS
  <2> HIDE DEF zi, zo
  <2>5. /\ DOMAIN r.inverters = DOMAIN t.inverters
        /\ \A i \in DOMAIN t.inverters :
              /\ DOMAIN r.inverters[i] = DOMAIN t.inverters[i]
              /\ \A a \in DOMAIN t.inverters[i] :
                   r.inverters[i][a] = IF a \in {"Pac", "Eac"} THEN 0 ELSE t.inverters[i][a]
    BY <2>2, <2>3
  <2>6. /\ DOMAIN r.optimizers = DOMAIN t.optimizers
        /\ \A o \in DOMAIN t.optimizers :
              /\ DOMAIN r.optimizers[o] = DOMAIN t.optimizers[o]
              /\ \A a \in DOMAIN t.optimizers[o] :
                   r.optimizers[o][a] = IF a \in {"Vmod", "Vopt", "Imod"} THEN 0
                                        ELSE t.optimizers[o][a]
              /\ r.optimizers[o].Temp = t.optimizers[o].Temp
    BY <2>2, <2>4
  <2>7. \A a \in {"Vac", "Eday", "Etot", "Temp"} :
          \A i \in DOMAIN t.inverters : r.inverters[i][a] = t.inverters[i][a]
    BY <2>5 DEF SinglePhase, State!SinglePhase
  <2>8. \A a \in {"Pac", "Eac"} : \A i \in DOMAIN r.inverters : r.inverters[i][a] = 0
    BY <2>5 DEF SinglePhase, State!SinglePhase
  <2>9. \A a \in {"Vac", "Eday", "Etot", "Temp"} :
          /\ State!sumItems(r.inverters, a) = State!sumItems(t.inverters, a)
          /\ State!avgItems(r.inverters, a) = State!avgItems(t.inverters, a)
    <3> TAKE a \in {"Vac", "Eday", "Etot", "Temp"}
    <3>1. \A i \in DOMAIN t.inverters : r.inverters[i][a] = t.inverters[i][a]
      BY <2>7
    <3>2. DOMAIN r.inverters = DOMAIN t.inverters
      BY <2>5
    <3> QED BY <3>1, <3>2, SumSame
  <2>10. \A a \in {"Pac", "Eac"} : State!sumItems(r.inverters, a) = 0
    <3> TAKE a \in {"Pac", "Eac"}
    <3>1. \A i \in DOMAIN r.inverters : r.inverters[i][a] = 0
      BY <2>8
    <3>2. IsFiniteSet(DOMAIN r.inverters)
      BY <2>5
    <3> QED BY <3>1, <3>2, SumOfZeros
  <2>11. State!avgItems(r.optimizers, "Temp") = State!avgItems(t.optimizers, "Temp")
    <3>1. /\ DOMAIN r.optimizers = DOMAIN t.optimizers
          /\ \A o \in DOMAIN t.optimizers : r.optimizers[o]["Temp"] = t.optimizers[o]["Temp"]
      BY <2>6
    <3> QED BY <3>1, SumSame
  <2>12. /\ r.inv.Vac = inv.Vac /\ r.inv.Pac = 0 /\ r.inv.Eac = 0 /\ r.inv.Eday = inv.Eday
         /\ r.inv.Etot = inv.Etot /\ r.inv.Temp = inv.Temp
    BY <2>2
  <2>13. Agrees(r)
    BY <1>1, <2>2, <2>9, <2>10, <2>11, <2>12 DEF Agrees
  <2>14. r.inv.Eday = Max({t.inv.Eday, State!sumItems(r.inverters, "Eday")})
    BY <2>9, <2>12
  <2> QED BY <1>4, <2>2, <2>5, <2>6, <2>13, <2>14
<1> QED BY <1>3, <1>4

\* A line that can be added: every inverter then has the values of one phase, and so
\* it had them in the line.
Added(s, line, n) == State!Computable(State!Updated(s, line, n))

OnePhase(line) == \A i \in DOMAIN line.inverters : SinglePhase \subseteq DOMAIN line.inverters[i]

\* r is s with one more line.
AddsLine(r, s, line, n) ==
  /\ r.from = Append(s.from, n)
  /\ DOMAIN r.inverters = DOMAIN s.inverters \cup DOMAIN line.inverters
  /\ OnePhase(line)
  /\ \A i \in DOMAIN r.inverters : \A a \in SinglePhase :
       r.inverters[i][a] = IF DOMAIN line.events # {} /\ a \in {"Pac", "Eac"} THEN 0
                           ELSE IF i \in DOMAIN line.inverters
                                THEN line.inverters[i][a] ELSE s.inverters[i][a]
  /\ DOMAIN r.optimizers = DOMAIN s.optimizers \cup DOMAIN line.optimizers
  /\ \A o \in DOMAIN r.optimizers :
       LET u == IF o \in DOMAIN line.optimizers THEN line.optimizers[o]
                                                ELSE s.optimizers[o]
       IN  /\ \A a \in {"Vmod", "Vopt", "Imod"} :
                r.optimizers[o][a] = IF DOMAIN line.events # {} THEN 0 ELSE u[a]
           /\ r.optimizers[o].Temp = u.Temp
           /\ r.optimizers[o].Pdc = u.Vmod * u.Imod

LEMMA AddedFacts ==
  ASSUME NEW s, ValuesOK(s), NEW line, LineOK(line), NEW n, Added(s, line, n),
         NEW r, r = State!AfterLine(s, line, n)
  PROVE  /\ ValuesOK(r) /\ Agrees(r) /\ AddsLine(r, s, line, n)
         /\ r.inv.Eday = Max({s.inv.Eday, State!sumItems(r.inverters, "Eday")})
<1> DEFINE event == DOMAIN line.events # {}
           t     == State!Updated(s, line, n)
           u(o)  == IF o \in DOMAIN line.optimizers THEN line.optimizers[o]
                                                    ELSE s.optimizers[o]
<1>1. DOMAIN s = StateKeys
  BY DEF ValuesOK
<1>2. /\ DOMAIN t = StateKeys
      /\ t.inv = s.inv /\ t.from = Append(s.from, n)
      /\ DOMAIN t.inverters = DOMAIN s.inverters \cup DOMAIN line.inverters
      /\ \A i \in DOMAIN t.inverters :
           t.inverters[i] = IF i \in DOMAIN line.inverters THEN line.inverters[i]
                                                           ELSE s.inverters[i]
      /\ DOMAIN t.optimizers = DOMAIN s.optimizers \cup DOMAIN line.optimizers
      /\ \A o \in DOMAIN t.optimizers :
           /\ DOMAIN t.optimizers[o] = DOMAIN u(o) \cup {"Pdc"}
           /\ t.optimizers[o].Pdc = u(o).Vmod * u(o).Imod
           /\ \A a \in DOMAIN u(o) : a # "Pdc" => t.optimizers[o][a] = u(o)[a]
  BY <1>1, UpdatedFacts
<1>3. /\ r = IF event THEN State!Zeroed(State!WithTotals(t)) ELSE State!WithTotals(t)
      /\ \A i \in DOMAIN t.inverters : SinglePhase \subseteq DOMAIN t.inverters[i]
  BY DEF State!AfterLine, Added, State!Computable, SinglePhase
<1> HIDE DEF t, event
<1>4. /\ \A i \in DOMAIN line.inverters : SinglePhase \subseteq DOMAIN line.inverters[i]
      /\ \A i \in DOMAIN t.inverters : /\ DOMAIN t.inverters[i] = SinglePhase
                                       /\ \A a \in SinglePhase : t.inverters[i][a] \in Int
  BY <1>2, <1>3 DEF LineOK, ValuesOK
<1>5. ASSUME NEW o \in DOMAIN t.optimizers
      PROVE  /\ OfModule \subseteq DOMAIN u(o) /\ DOMAIN u(o) \cup {"Pdc"} = OfModule \cup {"Pdc"}
             /\ \A a \in OfModule : u(o)[a] \in Int
  BY <1>2 DEF LineOK, ValuesOK
<1>6. \A o \in DOMAIN t.optimizers :
        /\ DOMAIN t.optimizers[o] = OfModule \cup {"Pdc"}
        /\ \A a \in OfModule : t.optimizers[o][a] = u(o)[a] /\ u(o)[a] \in Int
        /\ t.optimizers[o].Pdc = u(o).Vmod * u(o).Imod
  <2>1. "Pdc" \notin OfModule
    BY DEF OfModule
  <2> HIDE DEF u
  <2> QED BY <1>2, <1>5, <2>1
<1>7. IsFiniteSet(DOMAIN t.inverters) /\ IsFiniteSet(DOMAIN t.optimizers)
  <2>1. /\ IsFiniteSet(DOMAIN s.inverters) /\ IsFiniteSet(DOMAIN s.optimizers)
        /\ IsFiniteSet(DOMAIN line.inverters) /\ IsFiniteSet(DOMAIN line.optimizers)
    BY DEF LineOK, ValuesOK
  <2>2. /\ DOMAIN t.inverters = DOMAIN s.inverters \cup DOMAIN line.inverters
        /\ DOMAIN t.optimizers = DOMAIN s.optimizers \cup DOMAIN line.optimizers
    BY <1>2
  <2>3. \A A, B : IsFiniteSet(A) /\ IsFiniteSet(B) => IsFiniteSet(A \cup B)
    BY FS_Union
  <2> QED BY <2>1, <2>2, <2>3
<1>8. \A o \in DOMAIN t.optimizers : "Temp" \in DOMAIN t.optimizers[o]
  BY <1>6 DEF OfModule
<1>9. event \in BOOLEAN
  BY DEF event
<1> HIDE DEF u
<1>10. /\ DOMAIN r = StateKeys /\ r.from = t.from
       /\ DOMAIN r.inverters = DOMAIN t.inverters
       /\ \A i \in DOMAIN t.inverters :
            /\ DOMAIN r.inverters[i] = DOMAIN t.inverters[i]
            /\ \A a \in DOMAIN t.inverters[i] :
                 r.inverters[i][a] = IF event /\ a \in {"Pac", "Eac"} THEN 0
                                                                      ELSE t.inverters[i][a]
       /\ DOMAIN r.optimizers = DOMAIN t.optimizers
       /\ \A o \in DOMAIN t.optimizers :
            /\ DOMAIN r.optimizers[o] = DOMAIN t.optimizers[o]
            /\ \A a \in DOMAIN t.optimizers[o] :
                 r.optimizers[o][a] = IF event /\ a \in {"Vmod", "Vopt", "Imod"} THEN 0
                                      ELSE t.optimizers[o][a]
       /\ r.inv.Eday = Max({t.inv.Eday, State!sumItems(r.inverters, "Eday")})
       /\ Agrees(r)
  <2>1. DOMAIN t = StateKeys /\ IsFiniteSet(DOMAIN t.inverters)
    BY <1>2, <1>7
  <2> QED BY <1>3, <1>8, <1>9, <2>1, TotalsFacts
<1>11. /\ \A i \in DOMAIN r.inverters :
            /\ DOMAIN r.inverters[i] = SinglePhase
            /\ \A a \in SinglePhase :
                 /\ r.inverters[i][a] = IF event /\ a \in {"Pac", "Eac"} THEN 0
                                        ELSE t.inverters[i][a]
                 /\ r.inverters[i][a] \in Int
  BY <1>4, <1>10
<1>12. /\ \A o \in DOMAIN r.optimizers :
            /\ DOMAIN r.optimizers[o] = OfModule \cup {"Pdc"}
            /\ \A a \in OfModule :
                 /\ r.optimizers[o][a] = IF event /\ a \in {"Vmod", "Vopt", "Imod"} THEN 0
                                         ELSE u(o)[a]
                 /\ r.optimizers[o][a] \in Int
            /\ r.optimizers[o].Pdc = u(o).Vmod * u(o).Imod
  BY <1>6, <1>10
<1>13. r.inv.Eday \in Int
  <2>1. s.inv.Eday \in Int /\ t.inv.Eday = s.inv.Eday
    BY <1>2 DEF ValuesOK
  <2>2. State!sumItems(r.inverters, "Eday") \in Int
    <3>1. IsFiniteSet(DOMAIN r.inverters)
      BY <1>7, <1>10
    <3>2. \A i \in DOMAIN r.inverters : r.inverters[i]["Eday"] \in Int
      BY <1>11 DEF SinglePhase, State!SinglePhase
    <3> QED BY <3>1, <3>2, SumProperties, Zenon
  <2> QED BY <1>10, <2>1, <2>2, MaxOfInts
<1>14. ValuesOK(r)
  BY <1>7, <1>10, <1>11, <1>12, <1>13 DEF ValuesOK
<1>15. /\ r.from = Append(s.from, n)
       /\ r.inv.Eday = Max({s.inv.Eday, State!sumItems(r.inverters, "Eday")})
       /\ DOMAIN r.inverters = DOMAIN s.inverters \cup DOMAIN line.inverters
       /\ DOMAIN r.optimizers = DOMAIN s.optimizers \cup DOMAIN line.optimizers
  BY <1>2, <1>10
<1>16. \A i \in DOMAIN r.inverters : \A a \in SinglePhase :
         r.inverters[i][a] = IF event /\ a \in {"Pac", "Eac"} THEN 0
                             ELSE IF i \in DOMAIN line.inverters
                                  THEN line.inverters[i][a] ELSE s.inverters[i][a]
  BY <1>2, <1>10, <1>11
<1>17. \A o \in DOMAIN r.optimizers :
         /\ \A a \in {"Vmod", "Vopt", "Imod"} :
              r.optimizers[o][a] = IF event THEN 0 ELSE u(o)[a]
         /\ r.optimizers[o].Temp = u(o).Temp
         /\ r.optimizers[o].Pdc = u(o).Vmod * u(o).Imod
  BY <1>12 DEF OfModule
<1>18. AddsLine(r, s, line, n)
  BY <1>4, <1>15, <1>16, <1>17 DEF AddsLine, OnePhase, event, u
<1> QED BY <1>10, <1>14, <1>15, <1>18

-----------------------------------------------------------------------------
(* The last values. *)

\* Of the lines ls that f says have been used, the k-th is the last that has device d;
\* and an event came with one of the k-th to the e-th.
LatestIn(ls, f, kind, d, k) ==
  /\ k \in 1 .. Len(f) /\ d \in DOMAIN ls[f[k]][kind]
  /\ \A j \in 1 .. Len(f) : j > k => d \notin DOMAIN ls[f[j]][kind]
EventIn(ls, f, k, e) == \E j \in k .. e : DOMAIN ls[f[j]].events # {}

DevicesIn(ls, f, kind) == UNION {DOMAIN ls[f[k]][kind] : k \in 1 .. Len(f)}

InverterLast(s, ls, f, i) ==
  \E k \in 1 .. Len(f) :
    /\ LatestIn(ls, f, "inverters", i, k)
    /\ \A a \in SinglePhase :
         s.inverters[i][a] = IF a \in {"Pac", "Eac"} /\ EventIn(ls, f, k, Len(f)) THEN 0
                             ELSE ls[f[k]].inverters[i][a]

OptimizerLast(s, ls, f, o) ==
  \E k \in 1 .. Len(f) :
    /\ LatestIn(ls, f, "optimizers", o, k)
    /\ \A a \in {"Vmod", "Vopt", "Imod"} :
         s.optimizers[o][a] = IF EventIn(ls, f, k, Len(f)) THEN 0
                              ELSE ls[f[k]].optimizers[o][a]
    /\ s.optimizers[o].Temp = ls[f[k]].optimizers[o].Temp
    /\ s.optimizers[o].Pdc = IF EventIn(ls, f, k, Len(f) - 1) THEN 0
                             ELSE ls[f[k]].optimizers[o].Vmod * ls[f[k]].optimizers[o].Imod

\* f says which of the lines ls have been used, and an inverter is in them with one
\* phase only.
UsedOK(ls, f) ==
  /\ f \in Seq(Nat)
  /\ \A k \in 1 .. Len(f) :
       /\ f[k] \in 1 .. Len(ls)
       /\ OnePhase(ls[f[k]])

KeepsLast(s, ls) ==
  /\ UsedOK(ls, s.from)
  /\ DOMAIN s.inverters = DevicesIn(ls, s.from, "inverters")
  /\ DOMAIN s.optimizers = DevicesIn(ls, s.from, "optimizers")
  /\ \A i \in DOMAIN s.inverters : InverterLast(s, ls, s.from, i)
  /\ \A o \in DOMAIN s.optimizers : OptimizerLast(s, ls, s.from, o)

\* g is f and n.
Longer(g, f, n) ==
  /\ Len(f) \in Nat /\ Len(g) = Len(f) + 1
  /\ \A k \in 1 .. Len(f) : g[k] = f[k]
  /\ g[Len(f) + 1] = n

\* One more line has been used.
LEMMA UsedAppend ==
  ASSUME NEW ls, NEW f, UsedOK(ls, f), NEW n \in Nat, n \in 1 .. Len(ls),
         OnePhase(ls[n]), NEW g, g = Append(f, n)
  PROVE  /\ UsedOK(ls, g)
         /\ Longer(g, f, n)
<1>1. f \in Seq(Nat)
  BY DEF UsedOK
<1>2. /\ g \in Seq(Nat) /\ Len(f) \in Nat /\ Len(g) = Len(f) + 1
      /\ \A k \in 1 .. Len(f) : g[k] = f[k]
      /\ g[Len(f) + 1] = n
  BY <1>1, AppendProperties, LenProperties
<1>3. \A k \in 1 .. Len(f) + 1 : k = Len(f) + 1 \/ k \in 1 .. Len(f)
  BY <1>2
<1>4. UsedOK(ls, g)
  BY <1>2, <1>3 DEF UsedOK
<1> QED BY <1>2, <1>4 DEF Longer

\* What one more line does to the last line of a device and to the devices there are.
\* L is the number of lines there were.
LEMMA LatestAppend ==
  ASSUME NEW ls, NEW f, NEW g, NEW n, Longer(g, f, n), NEW L, L = Len(f), NEW kind
  PROVE  /\ \A d : d \in DOMAIN ls[n][kind] => LatestIn(ls, g, kind, d, L + 1)
         /\ \A d, k : d \notin DOMAIN ls[n][kind] /\ LatestIn(ls, f, kind, d, k)
                        => LatestIn(ls, g, kind, d, k)
         /\ DevicesIn(ls, g, kind) = DevicesIn(ls, f, kind) \cup DOMAIN ls[n][kind]
<1>1. /\ L \in Nat /\ Len(g) = L + 1 /\ Len(f) = L
      /\ \A k \in 1 .. L : g[k] = f[k]
      /\ g[L + 1] = n
  BY DEF Longer
<1>2. /\ \A k \in 1 .. L + 1 : k = L + 1 \/ k \in 1 .. L
      /\ 1 .. L \subseteq 1 .. L + 1 /\ L + 1 \in 1 .. L + 1
      /\ \A k \in 1 .. L : L + 1 > k /\ ~(k > L + 1)
      /\ ~(L + 1 > L + 1)
  BY <1>1
<1>3. ASSUME NEW d, d \in DOMAIN ls[n][kind] PROVE LatestIn(ls, g, kind, d, L + 1)
  BY <1>1, <1>2, <1>3 DEF LatestIn
<1>4. ASSUME NEW d, NEW k, d \notin DOMAIN ls[n][kind], LatestIn(ls, f, kind, d, k)
      PROVE  LatestIn(ls, g, kind, d, k)
  BY <1>1, <1>2, <1>4 DEF LatestIn
<1>5. DevicesIn(ls, g, kind) = DevicesIn(ls, f, kind) \cup DOMAIN ls[n][kind]
  <2>1. /\ \A d : d \in DevicesIn(ls, f, kind) <=> \E k \in 1 .. L : d \in DOMAIN ls[f[k]][kind]
        /\ \A d : d \in DevicesIn(ls, g, kind)
                    <=> \E k \in 1 .. L + 1 : d \in DOMAIN ls[g[k]][kind]
    BY <1>1 DEF DevicesIn
  <2>2. ASSUME NEW d
        PROVE  d \in DevicesIn(ls, g, kind)
                 <=> d \in DevicesIn(ls, f, kind) \/ d \in DOMAIN ls[n][kind]
    BY <1>1, <1>2, <2>1
  <2> QED BY <2>2
<1> QED BY <1>3, <1>4, <1>5

\* And to the events.
LEMMA EventAppend ==
  ASSUME NEW ls, NEW f, NEW g, NEW n, Longer(g, f, n), NEW L, L = Len(f)
  PROVE  /\ \A k \in 1 .. L : EventIn(ls, g, k, L + 1)
                                <=> EventIn(ls, f, k, L) \/ DOMAIN ls[n].events # {}
         /\ \A k \in 1 .. L : EventIn(ls, g, k, L) <=> EventIn(ls, f, k, L)
         /\ EventIn(ls, g, L + 1, L + 1) <=> DOMAIN ls[n].events # {}
         /\ ~EventIn(ls, g, L + 1, L)
<1>1. /\ L \in Nat /\ Len(g) = L + 1 /\ Len(f) = L
      /\ \A k \in 1 .. L : g[k] = f[k]
      /\ g[L + 1] = n
  BY DEF Longer
<1>2. ASSUME NEW k \in 1 .. L
      PROVE  /\ EventIn(ls, g, k, L + 1) <=> EventIn(ls, f, k, L) \/ DOMAIN ls[n].events # {}
             /\ EventIn(ls, g, k, L) <=> EventIn(ls, f, k, L)
  <2>1. k .. L \subseteq 1 .. L /\ L + 1 \in k .. L + 1
    BY <1>1
  <2>2. k .. L + 1 = (k .. L) \cup {L + 1}
    BY <1>1
  <2>3. EventIn(ls, g, k, L) <=> EventIn(ls, f, k, L)
    BY <1>1, <2>1 DEF EventIn
  <2>4. EventIn(ls, g, k, L + 1) <=> EventIn(ls, g, k, L) \/ DOMAIN ls[n].events # {}
    BY <1>1, <2>1, <2>2 DEF EventIn
  <2> QED BY <2>3, <2>4
<1>3. EventIn(ls, g, L + 1, L + 1) <=> DOMAIN ls[n].events # {}
  <2>1. (L + 1) .. (L + 1) = {L + 1}
    BY <1>1
  <2> QED BY <1>1, <2>1 DEF EventIn
<1>4. ~EventIn(ls, g, L + 1, L)
  <2>1. (L + 1) .. L = {}
    BY <1>1
  <2> QED BY <2>1 DEF EventIn
<1> QED BY <1>2, <1>3, <1>4

\* A line that has been added is the last one used.
LEMMA KeepsStep ==
  ASSUME NEW s, ValuesOK(s), NEW ls, KeepsLast(s, ls), NEW n \in Nat, n \in 1 .. Len(ls),
         LineOK(ls[n]), Added(s, ls[n], n), NEW r, r = State!AfterLine(s, ls[n], n)
  PROVE  KeepsLast(r, ls)
<1> DEFINE f == s.from
           g == r.from
           L == Len(f)
           event == DOMAIN ls[n].events # {}
<1>1. AddsLine(r, s, ls[n], n)
  BY AddedFacts
<1>2. UsedOK(ls, f) /\ g = Append(f, n)
  BY <1>1 DEF KeepsLast, AddsLine
<1>3. /\ UsedOK(ls, g) /\ Longer(g, f, n) /\ L \in Nat /\ Len(g) = L + 1
      /\ \A k \in 1 .. L : g[k] = f[k]
      /\ g[L + 1] = n
  <2>1. OnePhase(ls[n])
    BY <1>1 DEF AddsLine
  <2> HIDE DEF f, g
  <2>2. UsedOK(ls, g) /\ Longer(g, f, n)
    BY <1>2, <2>1, UsedAppend
  <2> QED BY <2>2 DEF Longer
<1> HIDE DEF f, g, L
<1>4. Len(f) = L
  BY DEF L
<1>5. ASSUME NEW kind
      PROVE  /\ \A d : d \in DOMAIN ls[n][kind] => LatestIn(ls, g, kind, d, L + 1)
             /\ \A d, k : d \notin DOMAIN ls[n][kind] /\ LatestIn(ls, f, kind, d, k)
                            => LatestIn(ls, g, kind, d, k)
             /\ DevicesIn(ls, g, kind) = DevicesIn(ls, f, kind) \cup DOMAIN ls[n][kind]
  BY <1>3, <1>4, LatestAppend
<1>6. /\ \A k \in 1 .. L : EventIn(ls, g, k, L + 1) <=> EventIn(ls, f, k, L) \/ event
      /\ \A k \in 1 .. L : EventIn(ls, g, k, L) <=> EventIn(ls, f, k, L)
      /\ EventIn(ls, g, L + 1, L + 1) <=> event
      /\ ~EventIn(ls, g, L + 1, L)
  <2>1. Longer(g, f, n) /\ L = Len(f)
    BY <1>3, <1>4
  <2> HIDE DEF event
  <2>2. ASSUME NEW k \in 1 .. L
        PROVE  EventIn(ls, g, k, L + 1) <=> EventIn(ls, f, k, L) \/ DOMAIN ls[n].events # {}
    BY <2>1, EventAppend
  <2>3. /\ \A k \in 1 .. L : EventIn(ls, g, k, L) <=> EventIn(ls, f, k, L)
        /\ EventIn(ls, g, L + 1, L + 1) <=> DOMAIN ls[n].events # {}
        /\ ~EventIn(ls, g, L + 1, L)
    BY <2>1, EventAppend
  <2> QED BY <2>2, <2>3 DEF event
<1> HIDE DEF event
<1>7. /\ DOMAIN s.inverters = DevicesIn(ls, f, "inverters")
      /\ DOMAIN s.optimizers = DevicesIn(ls, f, "optimizers")
      /\ \A i \in DOMAIN s.inverters : InverterLast(s, ls, f, i)
      /\ \A o \in DOMAIN s.optimizers : OptimizerLast(s, ls, f, o)
  BY DEF KeepsLast, f, L
<1>8. /\ 1 .. L \subseteq 1 .. L + 1 /\ L + 1 \in 1 .. L + 1 /\ (L + 1) - 1 = L
  BY <1>3
<1>9. ASSUME NEW i \in DOMAIN r.inverters PROVE InverterLast(r, ls, g, i)
  <2>1. CASE i \in DOMAIN ls[n].inverters
    <3>1. LatestIn(ls, g, "inverters", i, L + 1)
      BY <1>5, <2>1
    <3>2. \A a \in SinglePhase :
            r.inverters[i][a] = IF a \in {"Pac", "Eac"} /\ EventIn(ls, g, L + 1, L + 1) THEN 0
                                ELSE ls[g[L + 1]].inverters[i][a]
      BY <1>1, <1>3, <1>6, <2>1 DEF event, AddsLine
    <3> QED BY <1>3, <1>8, <3>1, <3>2 DEF InverterLast
  <2>2. CASE i \notin DOMAIN ls[n].inverters
    <3>1. i \in DOMAIN s.inverters
      BY <1>1, <2>2 DEF AddsLine
    <3>2. PICK k \in 1 .. L :
             /\ LatestIn(ls, f, "inverters", i, k)
             /\ \A a \in SinglePhase :
                  s.inverters[i][a] = IF a \in {"Pac", "Eac"} /\ EventIn(ls, f, k, L) THEN 0
                                      ELSE ls[f[k]].inverters[i][a]
      BY <1>4, <1>7, <3>1 DEF InverterLast
    <3>3. LatestIn(ls, g, "inverters", i, k)
      BY <1>5, <2>2, <3>2
    <3>4. \A a \in SinglePhase :
            r.inverters[i][a] = IF a \in {"Pac", "Eac"} /\ EventIn(ls, g, k, L + 1) THEN 0
                                ELSE ls[g[k]].inverters[i][a]
      BY <1>1, <1>3, <1>6, <2>2, <3>2 DEF event, AddsLine
    <3> QED BY <1>3, <1>8, <3>3, <3>4 DEF InverterLast
  <2> QED BY <2>1, <2>2
<1>10. ASSUME NEW o \in DOMAIN r.optimizers PROVE OptimizerLast(r, ls, g, o)
  <2>1. CASE o \in DOMAIN ls[n].optimizers
    <3> DEFINE u == ls[n].optimizers[o]
    <3>1. LatestIn(ls, g, "optimizers", o, L + 1)
      BY <1>5, <2>1
    <3>2. /\ \A a \in {"Vmod", "Vopt", "Imod"} : r.optimizers[o][a] = IF event THEN 0 ELSE u[a]
          /\ r.optimizers[o].Temp = u.Temp
          /\ r.optimizers[o].Pdc = u.Vmod * u.Imod
      BY <1>1, <2>1 DEF event, AddsLine
    <3>3. u = ls[g[L + 1]].optimizers[o]
      BY <1>3
    <3> HIDE DEF u
    <3>4. /\ \A a \in {"Vmod", "Vopt", "Imod"} :
               r.optimizers[o][a] = IF EventIn(ls, g, L + 1, L + 1) THEN 0
                                    ELSE ls[g[L + 1]].optimizers[o][a]
          /\ r.optimizers[o].Temp = ls[g[L + 1]].optimizers[o].Temp
          /\ r.optimizers[o].Pdc
               = IF EventIn(ls, g, L + 1, L) THEN 0
                 ELSE ls[g[L + 1]].optimizers[o].Vmod * ls[g[L + 1]].optimizers[o].Imod
      BY <1>6, <3>2, <3>3
    <3> QED BY <1>3, <1>8, <3>1, <3>4 DEF OptimizerLast
  <2>2. CASE o \notin DOMAIN ls[n].optimizers
    <3>1. o \in DOMAIN s.optimizers
      BY <1>1, <2>2 DEF AddsLine
    <3>2. PICK k \in 1 .. L :
             /\ LatestIn(ls, f, "optimizers", o, k)
             /\ \A a \in {"Vmod", "Vopt", "Imod"} :
                  s.optimizers[o][a] = IF EventIn(ls, f, k, L) THEN 0
                                       ELSE ls[f[k]].optimizers[o][a]
             /\ s.optimizers[o].Temp = ls[f[k]].optimizers[o].Temp
      BY <1>4, <1>7, <3>1 DEF OptimizerLast
    <3>3. LatestIn(ls, g, "optimizers", o, k)
      BY <1>5, <2>2, <3>2
    <3> DEFINE u == s.optimizers[o]
               w == ls[f[k]].optimizers[o]
    <3>4. /\ \A a \in {"Vmod", "Vopt", "Imod"} : r.optimizers[o][a] = IF event THEN 0 ELSE u[a]
          /\ r.optimizers[o].Temp = u.Temp
          /\ r.optimizers[o].Pdc = u.Vmod * u.Imod
      BY <1>1, <2>2 DEF event, AddsLine
    <3>5. w = ls[g[k]].optimizers[o]
      BY <1>3
    <3>6. /\ \A a \in {"Vmod", "Vopt", "Imod"} : u[a] = IF EventIn(ls, f, k, L) THEN 0 ELSE w[a]
          /\ u.Temp = w.Temp
      BY <3>2
    <3> HIDE DEF u, w
    <3>7. /\ \A a \in {"Vmod", "Vopt", "Imod"} :
               r.optimizers[o][a] = IF EventIn(ls, g, k, L + 1) THEN 0 ELSE w[a]
          /\ r.optimizers[o].Temp = w.Temp
      BY <1>6, <3>4, <3>6
    <3>8. r.optimizers[o].Pdc = IF EventIn(ls, g, k, L) THEN 0 ELSE w.Vmod * w.Imod
      <4>1. CASE EventIn(ls, f, k, L)
        <5>1. u.Vmod = 0 /\ u.Imod = 0
          BY <3>6, <4>1
        <5>2. r.optimizers[o].Pdc = 0 * 0
          BY <3>4, <5>1
        <5> QED BY <1>6, <4>1, <5>2
      <4>2. CASE ~EventIn(ls, f, k, L)
        <5>1. u.Vmod = w.Vmod /\ u.Imod = w.Imod
          BY <3>6, <4>2
        <5>2. r.optimizers[o].Pdc = w.Vmod * w.Imod
          BY <3>4, <5>1
        <5> QED BY <1>6, <4>2, <5>2
      <4> QED BY <4>1, <4>2
    <3> QED BY <1>3, <1>8, <3>3, <3>5, <3>7, <3>8 DEF OptimizerLast
  <2> QED BY <2>1, <2>2
<1>11. /\ DOMAIN r.inverters = DevicesIn(ls, g, "inverters")
       /\ DOMAIN r.optimizers = DevicesIn(ls, g, "optimizers")
  <2>1. /\ DOMAIN r.inverters = DOMAIN s.inverters \cup DOMAIN ls[n]["inverters"]
        /\ DOMAIN r.optimizers = DOMAIN s.optimizers \cup DOMAIN ls[n]["optimizers"]
    BY <1>1 DEF AddsLine
  <2> QED BY <1>5, <1>7, <2>1
<1> QED BY <1>3, <1>9, <1>10, <1>11 DEF KeepsLast, g

\* Lines that are added do not change those that have been used.
LEMMA KeepsLonger ==
  ASSUME NEW s, NEW ls, KeepsLast(s, ls), Len(ls) \in Nat,
         NEW new, Len(new) \in Nat, Len(new) >= Len(ls), \A n \in 1 .. Len(ls) : new[n] = ls[n]
  PROVE  KeepsLast(s, new)
<1> DEFINE f == s.from
<1>1. UsedOK(ls, f)
  BY DEF KeepsLast
<1>2. Len(f) \in Nat
  BY <1>1, LenProperties DEF UsedOK
<1> HIDE DEF f
<1>3. \A k \in 1 .. Len(f) : f[k] \in 1 .. Len(new) /\ new[f[k]] = ls[f[k]]
  BY <1>1 DEF UsedOK
<1>4. UsedOK(new, f)
  BY <1>1, <1>3 DEF UsedOK
<1>5. \A kind : DevicesIn(new, f, kind) = DevicesIn(ls, f, kind)
  BY <1>3 DEF DevicesIn
<1>6. \A kind, d, k : LatestIn(ls, f, kind, d, k) => LatestIn(new, f, kind, d, k)
  BY <1>3 DEF LatestIn
<1>7. ASSUME NEW k \in 1 .. Len(f), NEW e \in {Len(f), Len(f) - 1}
      PROVE  EventIn(new, f, k, e) <=> EventIn(ls, f, k, e)
  <2>1. k .. e \subseteq 1 .. Len(f)
    BY <1>2
  <2> QED BY <1>3, <2>1 DEF EventIn
<1>8. ASSUME NEW i, InverterLast(s, ls, f, i) PROVE InverterLast(s, new, f, i)
  <2>1. PICK k \in 1 .. Len(f) :
          /\ LatestIn(ls, f, "inverters", i, k)
          /\ \A a \in SinglePhase :
               s.inverters[i][a] = IF a \in {"Pac", "Eac"} /\ EventIn(ls, f, k, Len(f)) THEN 0
                                   ELSE ls[f[k]].inverters[i][a]
    BY <1>8 DEF InverterLast
  <2>2. EventIn(new, f, k, Len(f)) <=> EventIn(ls, f, k, Len(f))
    BY <1>7
  <2> QED BY <1>3, <1>6, <2>1, <2>2 DEF InverterLast
<1>9. ASSUME NEW o, OptimizerLast(s, ls, f, o) PROVE OptimizerLast(s, new, f, o)
  <2>1. PICK k \in 1 .. Len(f) :
          /\ LatestIn(ls, f, "optimizers", o, k)
          /\ \A a \in {"Vmod", "Vopt", "Imod"} :
               s.optimizers[o][a] = IF EventIn(ls, f, k, Len(f)) THEN 0
                                    ELSE ls[f[k]].optimizers[o][a]
          /\ s.optimizers[o].Temp = ls[f[k]].optimizers[o].Temp
          /\ s.optimizers[o].Pdc = IF EventIn(ls, f, k, Len(f) - 1) THEN 0
                                   ELSE ls[f[k]].optimizers[o].Vmod * ls[f[k]].optimizers[o].Imod
    BY <1>9 DEF OptimizerLast
  <2>2. /\ EventIn(new, f, k, Len(f)) <=> EventIn(ls, f, k, Len(f))
        /\ EventIn(new, f, k, Len(f) - 1) <=> EventIn(ls, f, k, Len(f) - 1)
    BY <1>7
  <2> QED BY <1>3, <1>6, <2>1, <2>2 DEF OptimizerLast
<1>10. /\ DOMAIN s.inverters = DevicesIn(ls, f, "inverters")
       /\ DOMAIN s.optimizers = DevicesIn(ls, f, "optimizers")
       /\ \A i \in DOMAIN s.inverters : InverterLast(s, ls, f, i)
       /\ \A o \in DOMAIN s.optimizers : OptimizerLast(s, ls, f, o)
  BY DEF KeepsLast, f
<1> QED BY <1>4, <1>5, <1>8, <1>9, <1>10 DEF KeepsLast, f

\* The identifiers in a line are those of a message's records: finitely many.
LEMMA FiniteImage ==
  ASSUME NEW m, NEW n \in Nat, NEW S \in SUBSET (1 .. n)
  PROVE  IsFiniteSet({Key(m[j]) : j \in S})
<1> DEFINE T == {Key(m[j]) : j \in S}
           key == [j \in S |-> Key(m[j])]
<1>1. IsFiniteSet(S)
  <2>1. IsFiniteSet(1 .. n)
    BY FS_Interval
  <2> QED BY <2>1, FS_Subset
<1>2. key \in Surjection(S, T)
  BY DEF Surjection
<1> HIDE DEF key, T
<1>3. IsFiniteSet(T)
  BY <1>1, <1>2, FS_Surjection
<1> QED BY <1>3 DEF T

\* What a line can have, being the report of a message: an inverter with one phase has
\* the values of a record of that type.
LEMMA ReportedLine ==
  ASSUME NEW m \in Messages, NEW line, Says(line, m, Len(m))
  PROVE  /\ LineOK(line)
         /\ \A i \in DOMAIN line.inverters : SinglePhase \subseteq DOMAIN line.inverters[i] =>
              \E j \in 1 .. Len(m) : /\ m[j].type = "inv" /\ m[j].id = i
                                     /\ line.inverters[i] = m[j].val
<1>1. Len(m) \in Nat
  BY MessagesAssumption
<1>2. \A k \in Kinds : IsFiniteSet(DOMAIN line[k])
  <2> TAKE k \in Kinds
  <2> DEFINE S == {i \in 1 .. Len(m) : Kind(m[i]) = k}
  <2>1. DOMAIN line[k] = {Key(m[j]) : j \in S}
    BY DEF Says
  <2>2. S \in SUBSET (1 .. Len(m))
    OBVIOUS
  <2> HIDE DEF S
  <2>3. IsFiniteSet({Key(m[j]) : j \in S})
    BY <1>1, <2>2, FiniteImage
  <2> QED BY <2>1, <2>3
<1>3. "inverters" \in Kinds /\ "optimizers" \in Kinds
  BY DEF Kinds
<1>4. \A r : /\ Kind(r) = "inverters" => r.type \in {"inv", "inv3"} /\ Key(r) = r.id
             /\ Kind(r) = "optimizers" => r.type \in Optimizers /\ Key(r) = r.id
  BY DEF Kind, Key, Inverters, Optimizers, Events
<1>5. ASSUME NEW i \in DOMAIN line["inverters"],
             SinglePhase \subseteq DOMAIN line["inverters"][i]
      PROVE  /\ \E j \in 1 .. Len(m) : /\ m[j].type = "inv" /\ m[j].id = i
                                       /\ line["inverters"][i] = m[j].val
             /\ DOMAIN line["inverters"][i] = SinglePhase
             /\ \A a \in SinglePhase : line["inverters"][i][a] \in Int
  <2>1. PICK j \in 1 .. Len(m) : /\ LastOf(m, Len(m), "inverters", i, j)
                                 /\ Shows("inverters", line["inverters"][i], m[j])
    BY <1>3 DEF Says
  <2> DEFINE r == m[j]
  <2>2. Kind(r) = "inverters" /\ Key(r) = i
    BY <2>1 DEF LastOf
  <2>3. r.type \in {"inv", "inv3"} /\ r.id = i
    BY <1>4, <2>2
  <2>4. line["inverters"][i] = r.val
    BY <2>1, <2>3 DEF Shows, Plain
  <2>5. r.type # "inv3"
    BY <1>5, <2>4, FieldsAssumption DEF SinglePhase
  <2>6. r.type = "inv"
    BY <2>3, <2>5
  <2>7. DOMAIN r.val = SinglePhase /\ \A a \in SinglePhase : r.val[a] \in Int
    BY <2>6, FieldsAssumption DEF SinglePhase
  <2> QED BY <2>3, <2>4, <2>6, <2>7
<1>6. ASSUME NEW o \in DOMAIN line["optimizers"]
      PROVE  /\ DOMAIN line["optimizers"][o] = OfModule
             /\ \A a \in OfModule : line["optimizers"][o][a] \in Int
  <2>1. PICK j \in 1 .. Len(m) : /\ LastOf(m, Len(m), "optimizers", o, j)
                                 /\ Shows("optimizers", line["optimizers"][o], m[j])
    BY <1>3 DEF Says
  <2> DEFINE r == m[j]
  <2>2. r.type \in Optimizers
    BY <1>4, <2>1 DEF LastOf
  <2>3. DOMAIN r.val = OfModule /\ \A a \in OfModule : r.val[a] \in Int
    BY <2>2, FieldsAssumption DEF OfModule
  <2>4. line["optimizers"][o] = Plain(r)
    BY <2>1 DEF Shows
  <2> HIDE DEF r
  <2> QED BY <2>3, <2>4 DEF Plain
<1>7. LineOK(line)
  BY <1>2, <1>3, <1>5, <1>6 DEF LineOK
<1> QED BY <1>5, <1>7

-----------------------------------------------------------------------------
(* The two programs. *)

LinesOK == Len(lines) \in Nat /\ \A n \in 1 .. Len(lines) : LineOK(lines[n])

\* The values in memory and in the file, at every step and not only when they are
\* shown: a restart takes those of the file, a line is added to those in memory.
Kept(s, ls) == ValuesOK(s) /\ Agrees(s) /\ KeepsLast(s, ls)
KeptInv == Kept(stateDict, lines) /\ Kept(outFile.value, lines)

ReaderType ==
  /\ source \in {"pipe", "file"}
  /\ prog \in {"off", "read", "truncate", "write", "dead"}
  /\ pos \in 0 .. Len(lines)
  /\ defined \in BOOLEAN
  /\ outFile.is \in {"missing", "torn", "whole"}
  /\ starts \in 0 .. MaxStarts

\* Before it is written, the highest total for the day is in memory only.
EdayInv ==
  /\ best \in Nat
  /\ outFile.is = "whole" => outFile.value.inv.Eday = best
  /\ prog = "read" /\ defined => stateDict.inv.Eday = best
  /\ prog \in {"truncate", "write"} =>
       stateDict.inv.Eday = IF stateDict.from = <<>> THEN 0
                            ELSE Max({best, State!sumItems(stateDict.inverters, "Eday")})

ReaderInv == ReaderType /\ KeptInv /\ EdayInv

\* The parser does not know of se2state.py, and what it promises holds with it.
LEMMA ParserAlone == SystemSpec => [](TypeOK /\ LinesReport /\ LinesShaped)
<1>1. SystemInit => Init
  BY DEF SystemInit
<1>2. [Parser \/ Reader]_vars => [Next]_ddVars
  BY DEF Parser, Reader, vars
<1>3. SystemSpec => Spec
  BY <1>1, <1>2, PTL DEF SystemSpec, Spec
<1> QED BY <1>3, TypeCorrect, ReportsInvariant, ShapedInvariant, PTL

LEMMA AcceptedMessages ==
  ASSUME TypeOK, NEW n \in 1 .. Len(lines)
  PROVE  accepted[n] \in Messages /\ Len(accepted[n]) \in Nat
<1>1. accepted \in Seq(Messages) /\ n \in 1 .. Len(accepted)
  BY DEF TypeOK
<1>2. accepted[n] \in Messages
  BY <1>1, ElementOfSeq
<1> QED BY <1>2, MessagesAssumption

LEMMA LinesAreOK == TypeOK /\ LinesReport => LinesOK
<1> SUFFICES ASSUME TypeOK, LinesReport PROVE LinesOK
  OBVIOUS
<1>1. Len(lines) \in Nat
  BY LenProperties DEF TypeOK
<1>2. ASSUME NEW n \in 1 .. Len(lines) PROVE LineOK(lines[n])
  <2>1. accepted[n] \in Messages
    BY AcceptedMessages
  <2>2. Says(lines[n], accepted[n], Len(accepted[n]))
    BY DEF LinesReport
  <2> QED BY <2>1, <2>2, ReportedLine
<1> QED BY <1>1, <1>2 DEF LinesOK

\* Empty values, as -i begins with and a file that is missing or torn stands for.
LEMMA ZeroKept == ASSUME NEW ls PROVE Kept(State!Zero, ls)
<1> DEFINE z == State!Zero
<1>1. /\ DOMAIN z = StateKeys
      /\ z.inverters = <<>> /\ z.optimizers = <<>> /\ z.from = <<>>
      /\ z.opt = State!Average(0, 0)
      /\ z.inv.Eday = 0
      /\ \A attr \in {"Pac", "Eac", "Etot"} : z.inv[attr] = 0
      /\ \A attr \in {"Vac", "Temp"} : z.inv[attr] = State!Average(0, 0)
  BY DEF State!Zero, StateKeys
<1> HIDE DEF z
<1>2. DOMAIN z.inverters = {} /\ DOMAIN z.optimizers = {}
  BY <1>1
<1>3. IsFiniteSet({}) /\ Cardinality({}) = 0
  BY FS_EmptySet
<1>4. ASSUME NEW d, DOMAIN d = {}, NEW attr
      PROVE  State!sumItems(d, attr) = 0 /\ State!avgItems(d, attr) = State!Average(0, 0)
  <2>1. State!sumItems(d, attr) = 0
    BY <1>3, <1>4, SumOfZeros
  <2>2. State!Cardinality({}) = 0
    BY <1>3 DEF State!Cardinality, Cardinality
  <2> QED BY <1>4, <2>1, <2>2 DEF State!avgItems
<1>5. ValuesOK(z)
  BY <1>1, <1>2, <1>3 DEF ValuesOK
<1>6. Agrees(z)
  BY <1>1, <1>2, <1>4 DEF Agrees
<1>7. KeepsLast(z, ls)
  <2>1. Len(z.from) = 0 /\ z.from \in Seq(Nat) /\ 1 .. 0 = {}
    BY <1>1
  <2>2. \A kind : DevicesIn(ls, z.from, kind) = {}
    BY <2>1 DEF DevicesIn
  <2> QED BY <1>2, <2>1, <2>2 DEF KeepsLast, UsedOK
<1> QED BY <1>5, <1>6, <1>7 DEF Kept, z

LEMMA ReaderInit == SystemInit => ReaderInv
<1> SUFFICES ASSUME SystemInit PROVE ReaderInv
  OBVIOUS
<1>1. /\ source \in {"pipe", "file"} /\ prog = "off" /\ pos = 0 /\ defined = FALSE
      /\ stateDict = State!Zero /\ outFile = State!Missing
      /\ starts = 0 /\ best = 0 /\ lines = <<>>
  BY DEF SystemInit, Init, State!Init
<1>2. outFile.is = "missing" /\ outFile.value = State!Zero
  BY <1>1 DEF State!Missing
<1>3. ReaderType
  <2>1. pos \in 0 .. Len(lines) /\ starts \in 0 .. MaxStarts
    BY <1>1, StartsAssumption
  <2> QED BY <1>1, <1>2, <2>1 DEF ReaderType
<1>4. KeptInv
  BY <1>1, <1>2, ZeroKept DEF KeptInv
<1>5. EdayInv
  BY <1>1, <1>2 DEF EdayInv
<1> QED BY <1>3, <1>4, <1>5 DEF ReaderInv

\* The parser only adds lines.
LEMMA LinesGrow ==
  ASSUME TypeOK, Parser
  PROVE  /\ Len(lines) \in Nat /\ Len(lines') \in Nat /\ Len(lines') >= Len(lines)
         /\ \A n \in 1 .. Len(lines) : lines'[n] = lines[n]
<1>1. lines \in Seq(Range(lines)) /\ Len(lines) \in Nat
  BY LenProperties DEF TypeOK
<1>2. CASE lines' = Append(lines, out)
  BY <1>1, <1>2, AppendToAny
<1>3. CASE lines' = lines
  BY <1>1, <1>3
<1> QED BY <1>2, <1>3 DEF Parser, Next, Receive, ParseRecord, RecordRaises, WriteLine,
                          RestartParser

LEMMA ParserStep == TypeOK /\ ReaderInv /\ Parser => ReaderInv'
<1> SUFFICES ASSUME TypeOK, ReaderInv, Parser PROVE ReaderInv'
  OBVIOUS
<1>1. /\ source' = source /\ prog' = prog /\ pos' = pos /\ defined' = defined
      /\ stateDict' = stateDict /\ outFile' = outFile /\ starts' = starts /\ best' = best
  BY DEF Parser, stateVars
<1>2. /\ Len(lines) \in Nat /\ Len(lines') \in Nat /\ Len(lines') >= Len(lines)
      /\ \A n \in 1 .. Len(lines) : lines'[n] = lines[n]
  BY LinesGrow
<1>3. ReaderType'
  BY <1>1, <1>2 DEF ReaderInv, ReaderType
<1>4. ASSUME NEW s, Kept(s, lines) PROVE Kept(s, lines')
  BY <1>2, <1>4, KeepsLonger DEF Kept
<1>5. KeptInv'
  BY <1>1, <1>4 DEF ReaderInv, KeptInv
<1>6. EdayInv'
  BY <1>1 DEF ReaderInv, EdayInv
<1> QED BY <1>3, <1>5, <1>6 DEF ReaderInv

\* A start, with empty values or those of the file.
LEMMA BeginStep ==
  ASSUME LinesOK, ReaderInv, State!StartNew \/ State!StartFromFile, lines' = lines
  PROVE  ReaderInv'
<1>1. State!Begin /\ outFile' = outFile /\ best' = best
  BY DEF State!StartNew, State!StartFromFile
<1>2. /\ source' = source /\ starts' = starts + 1 /\ starts < MaxStarts
      /\ pos' \in 0 .. Len(lines)
  <2>1. pos' \in IF source = "file" THEN {0} ELSE pos .. Len(lines)
    BY <1>1 DEF State!Begin
  <2>2. pos \in 0 .. Len(lines) /\ Len(lines) \in Nat
    BY DEF ReaderInv, ReaderType, LinesOK
  <2>3. pos' \in 0 .. Len(lines)
    BY <2>1, <2>2
  <2> QED BY <1>1, <2>3 DEF State!Begin
<1>3. /\ prog' \in {"read", "truncate", "dead"} /\ defined' \in BOOLEAN
      /\ stateDict' \in {State!Zero, outFile.value}
  BY DEF State!StartNew, State!StartFromFile
<1>4. ReaderType'
  <2>1. starts' \in 0 .. MaxStarts
    BY <1>2, StartsAssumption DEF ReaderInv, ReaderType
  <2> QED BY <1>1, <1>2, <1>3, <2>1 DEF ReaderInv, ReaderType
<1>5. KeptInv'
  BY <1>1, <1>3, ZeroKept DEF ReaderInv, KeptInv
<1>6. EdayInv'
  <2>1. CASE State!StartNew
    <3>1. prog' = "truncate" /\ stateDict' = State!Zero
      BY <2>1 DEF State!StartNew
    <3>2. State!Zero.inv.Eday = 0 /\ State!Zero.from = <<>>
      BY DEF State!Zero
    <3> QED BY <1>1, <3>1, <3>2 DEF ReaderInv, EdayInv
  <2>2. CASE State!StartFromFile
    <3>1. /\ prog' \in {"read", "dead"} /\ defined' = (outFile.is = "whole")
          /\ stateDict' = outFile.value
      BY <2>2 DEF State!StartFromFile
    <3> QED BY <1>1, <3>1 DEF ReaderInv, EdayInv
  <2> QED BY <2>1, <2>2
<1> QED BY <1>4, <1>5, <1>6 DEF ReaderInv

\* A line is added to the values in memory, or the program raises.
LEMMA ReadLineStep ==
  ASSUME LinesOK, ReaderInv, State!ReadLine, lines' = lines
  PROVE  ReaderInv'
<1> DEFINE n == pos + 1
           s == stateDict
<1>1. /\ prog = "read" /\ pos < Len(lines) /\ pos' = n
      /\ source' = source /\ defined' = defined /\ outFile' = outFile
      /\ starts' = starts /\ best' = best
  BY DEF State!ReadLine
<1>2. n \in Nat /\ n \in 1 .. Len(lines) /\ n \in 0 .. Len(lines)
  BY <1>1 DEF ReaderInv, ReaderType, LinesOK
<1>3. \/ /\ defined /\ Added(s, lines[n], n)
         /\ stateDict' = State!AfterLine(s, lines[n], n) /\ prog' = "truncate"
      \/ prog' = "dead" /\ stateDict' = stateDict
  BY DEF State!ReadLine, Added
<1>4. Kept(s, lines) /\ Kept(outFile.value, lines) /\ LineOK(lines[n])
  BY <1>2 DEF ReaderInv, KeptInv, LinesOK
<1> HIDE DEF n
<1>5. ReaderType'
  BY <1>1, <1>2, <1>3 DEF ReaderInv, ReaderType
<1>6. CASE /\ defined /\ Added(s, lines[n], n)
           /\ stateDict' = State!AfterLine(s, lines[n], n) /\ prog' = "truncate"
  <2> DEFINE r == State!AfterLine(s, lines[n], n)
  <2>1. ValuesOK(s) /\ KeepsLast(s, lines)
    BY <1>4 DEF Kept
  <2>2. /\ ValuesOK(r) /\ Agrees(r) /\ AddsLine(r, s, lines[n], n)
        /\ r.inv.Eday = Max({s.inv.Eday, State!sumItems(r.inverters, "Eday")})
    BY <1>4, <1>6, <2>1, AddedFacts
  <2>3. KeepsLast(r, lines)
    BY <1>2, <1>4, <1>6, <2>1, KeepsStep
  <2> HIDE DEF r
  <2>4. stateDict' = r
    BY <1>6 DEF r
  <2>5. KeptInv'
    BY <1>1, <1>4, <2>2, <2>3, <2>4 DEF KeptInv, Kept
  <2>6. r.from # <<>>
    <3>1. s.from \in Seq(Nat) /\ r.from = Append(s.from, n)
      BY <2>1, <2>2 DEF KeepsLast, UsedOK, AddsLine
    <3> QED BY <1>2, <3>1
  <2>7. s.inv.Eday = best
    BY <1>1, <1>6 DEF ReaderInv, EdayInv
  <2>8. EdayInv'
    BY <1>1, <1>6, <2>2, <2>4, <2>6, <2>7 DEF ReaderInv, EdayInv
  <2> QED BY <1>5, <2>5, <2>8 DEF ReaderInv
<1>7. CASE prog' = "dead" /\ stateDict' = stateDict
  <2>1. KeptInv'
    BY <1>1, <1>4, <1>7 DEF KeptInv
  <2>2. EdayInv'
    BY <1>1, <1>7 DEF ReaderInv, EdayInv
  <2> QED BY <1>5, <2>1, <2>2 DEF ReaderInv
<1> QED BY <1>3, <1>6, <1>7

\* writeState, and the end of the program between any two steps.
LEMMA WriteStep ==
  ASSUME LinesOK, ReaderInv, State!Truncate \/ State!Write \/ State!Kill, lines' = lines
  PROVE  ReaderInv'
<1>1. /\ source' = source /\ pos' = pos /\ defined' = defined /\ stateDict' = stateDict
      /\ starts' = starts
  BY DEF State!Truncate, State!Write, State!Kill
<1>2. CASE State!Truncate
  <2>1. /\ prog = "truncate" /\ prog' = "write" /\ best' = best
        /\ outFile'.is = "torn" /\ outFile'.value = State!Zero
    BY <1>2 DEF State!Truncate, State!Torn
  <2>2. ReaderType'
    BY <1>1, <2>1 DEF ReaderInv, ReaderType
  <2>3. KeptInv'
    BY <1>1, <2>1, ZeroKept DEF ReaderInv, KeptInv
  <2>4. EdayInv'
    BY <1>1, <2>1 DEF ReaderInv, EdayInv
  <2> QED BY <2>2, <2>3, <2>4 DEF ReaderInv
<1>3. CASE State!Write
  <2> DEFINE sum == State!sumItems(stateDict.inverters, "Eday")
  <2>1. /\ prog = "write" /\ prog' = "read"
        /\ outFile'.is = "whole" /\ outFile'.value = stateDict
        /\ best' = IF stateDict.from = <<>> THEN 0 ELSE Max({best, sum})
    BY <1>3 DEF State!Write, State!Whole, State!Max, Max
  <2>2. best' = stateDict.inv.Eday
    BY <2>1 DEF ReaderInv, EdayInv
  <2>3. best' \in Nat
    <3>1. best \in Nat
      BY DEF ReaderInv, EdayInv
    <3>2. sum \in Int
      <4>1. /\ IsFiniteSet(DOMAIN stateDict.inverters)
            /\ \A i \in DOMAIN stateDict.inverters : stateDict.inverters[i]["Eday"] \in Int
        BY DEF ReaderInv, KeptInv, Kept, ValuesOK, SinglePhase, State!SinglePhase
      <4> QED BY <4>1, SumProperties, Zenon
    <3> HIDE DEF sum
    <3>3. Max({best, sum}) = (IF best < sum THEN sum ELSE best)
      BY <3>1, <3>2, MaxOfInts
    <3> QED BY <2>1, <3>1, <3>2, <3>3
  <2>4. ReaderType'
    BY <1>1, <2>1 DEF ReaderInv, ReaderType
  <2>5. KeptInv'
    BY <1>1, <2>1 DEF ReaderInv, KeptInv
  <2>6. EdayInv'
    BY <1>1, <2>1, <2>2, <2>3 DEF EdayInv
  <2> QED BY <2>4, <2>5, <2>6 DEF ReaderInv
<1>4. CASE State!Kill
  <2>1. prog' = "off" /\ outFile' = outFile /\ best' = best
    BY <1>4 DEF State!Kill
  <2>2. ReaderType' /\ KeptInv'
    BY <1>1, <2>1 DEF ReaderInv, ReaderType, KeptInv
  <2>3. EdayInv'
    BY <1>1, <2>1 DEF ReaderInv, EdayInv
  <2> QED BY <2>2, <2>3 DEF ReaderInv
<1> QED BY <1>2, <1>3, <1>4

LEMMA ReaderInvariant == SystemSpec => []ReaderInv
<1>1. TypeOK /\ LinesReport /\ ReaderInv /\ [Parser \/ Reader]_vars => ReaderInv'
  <2> SUFFICES ASSUME TypeOK, LinesReport, ReaderInv, [Parser \/ Reader]_vars
               PROVE  ReaderInv'
    OBVIOUS
  <2>1. CASE Parser
    BY <2>1, ParserStep
  <2>2. CASE Reader
    <3>1. State!Next /\ lines' = lines
      BY <2>2 DEF Reader, ddVars
    <3>2. LinesOK
      BY LinesAreOK
    <3> QED BY <3>1, <3>2, BeginStep, ReadLineStep, WriteStep DEF State!Next
  <2>3. CASE UNCHANGED vars
    BY <2>3 DEF vars, ddVars, stateVars, ReaderInv, ReaderType, KeptInv, EdayInv
  <2> QED BY <2>1, <2>2, <2>3
<1> QED BY <1>1, ReaderInit, ParserAlone, PTL DEF SystemSpec

-----------------------------------------------------------------------------
(* What is shown. *)

LEMMA ShownIsKept ==
  ASSUME ReaderInv, NEW s \in State!Shown
  PROVE  ValuesOK(s) /\ Agrees(s) /\ KeepsLast(s, lines)
<1>1. s = stateDict \/ s = outFile.value
  BY DEF State!Shown
<1> QED BY <1>1 DEF ReaderInv, KeptInv, Kept

\* However often the two programs are stopped and started, everything keeps its type:
\* the state has its entries, the devices in it all of theirs, and it is made from
\* lines that are there (se2state.py:20-53, 74-103).
THEOREM SystemTypeCorrect == SystemSpec => []SystemTypeOK
<1>1. TypeOK /\ ReaderInv => SystemTypeOK
  <2> SUFFICES ASSUME TypeOK, ReaderInv PROVE State!TypeOK
    BY DEF SystemTypeOK
  <2>1. ASSUME NEW s, Kept(s, lines) PROVE State!StateType(s)
    <3>1. DOMAIN s = {"inverters", "optimizers", "inv", "opt", "from"}
      BY <2>1 DEF Kept, ValuesOK, StateKeys
    <3>2. \A i \in DOMAIN s.inverters : DOMAIN s.inverters[i] = State!SinglePhase
      BY <2>1 DEF Kept, ValuesOK, SinglePhase
    <3>3. \A o \in DOMAIN s.optimizers :
            DOMAIN s.optimizers[o] = {"Vmod", "Vopt", "Imod", "Temp", "Pdc"}
      BY <2>1 DEF Kept, ValuesOK, OfModule
    <3>4. \A k \in 1 .. Len(s.from) : s.from[k] \in 1 .. Len(lines)
      BY <2>1 DEF Kept, KeepsLast, UsedOK
    <3> QED BY <3>1, <3>2, <3>3, <3>4 DEF State!StateType
  <2>2. State!StateType(stateDict) /\ State!StateType(outFile.value)
    BY <2>1 DEF ReaderInv, KeptInv
  <2> QED BY <2>2 DEF ReaderInv, ReaderType, EdayInv, State!TypeOK
<1> QED BY <1>1, ParserAlone, ReaderInvariant, PTL

\* For any devices and values: the totals in memory and in the file are those of the
\* values shown with them, after any lines, events and restarts (se2state.py:81-100).
THEOREM TotalsOfValues == SystemSpec => []TotalsAgree
<1>1. ReaderInv => TotalsAgree
  BY ShownIsKept DEF Agrees, TotalsAgree, State!TotalsAgree
<1> QED BY <1>1, ReaderInvariant, PTL

\* For any lines, read again as often as one likes: the total for the day in the file
\* is the highest that has been written since -i (se2state.py:86-88).
THEOREM EdayNeverLower == SystemSpec => []EdayIsHighest
<1>1. ReaderInv => EdayIsHighest
  BY DEF ReaderInv, EdayInv, EdayIsHighest, State!EdayIsHighest
<1> QED BY <1>1, ReaderInvariant, PTL

\* Of the lines used the last with a device is the one Max finds.
LastUsed(ls, f, kind, d) == State!Max({k \in 1 .. Len(f) : d \in DOMAIN ls[f[k]][kind]})

LEMMA LatestIsMax ==
  ASSUME NEW ls, NEW f \in Seq(Nat), NEW kind, NEW d, NEW j, LatestIn(ls, f, kind, d, j)
  PROVE  j = LastUsed(ls, f, kind, d)
<1> DEFINE S == {k \in 1 .. Len(f) : d \in DOMAIN ls[f[k]][kind]}
<1>1. j \in S /\ S \subseteq Nat
  BY LenProperties DEF LatestIn
<1>2. ASSUME NEW y \in S PROVE j >= y
  <2>1. ~(y > j)
    BY DEF LatestIn
  <2> QED BY <1>1, <2>1
<1>3. ASSUME NEW x \in S, \A y \in S : x >= y PROVE x = j
  BY <1>1, <1>2, <1>3
<1>4. State!Max(S) = CHOOSE x \in S : \A y \in S : x >= y
  BY DEF State!Max
<1> HIDE DEF S
<1>5. State!Max(S) \in S /\ \A y \in S : State!Max(S) >= y
  BY <1>1, <1>2, <1>4
<1>6. State!Max(S) = j
  BY <1>3, <1>5
<1> QED BY <1>6 DEF S, LastUsed

\* LastReading of one state, for inverters and for optimizers.
InverterReads(s, i, k) ==
  \A a \in SinglePhase :
    s.inverters[i][a] = IF a \in {"Pac", "Eac"} /\ EventIn(lines, s.from, k, Len(s.from)) THEN 0
                        ELSE lines[s.from[k]].inverters[i][a]

OptimizerReads(s, o, k) ==
  /\ \A a \in {"Vmod", "Vopt", "Imod"} :
       s.optimizers[o][a] = IF EventIn(lines, s.from, k, Len(s.from)) THEN 0
                            ELSE lines[s.from[k]].optimizers[o][a]
  /\ s.optimizers[o].Temp = lines[s.from[k]].optimizers[o].Temp
  /\ ~EventIn(lines, s.from, k, Len(s.from)) =>
       s.optimizers[o].Pdc = lines[s.from[k]].optimizers[o].Vmod
                               * lines[s.from[k]].optimizers[o].Imod
  /\ EventIn(lines, s.from, k, Len(s.from) - 1) => s.optimizers[o].Pdc = 0

\* What the invariant keeps of an optimizer.
OptimizerKeeps(s, o, k) ==
  /\ \A a \in {"Vmod", "Vopt", "Imod"} :
       s.optimizers[o][a] = IF EventIn(lines, s.from, k, Len(s.from)) THEN 0
                            ELSE lines[s.from[k]].optimizers[o][a]
  /\ s.optimizers[o].Temp = lines[s.from[k]].optimizers[o].Temp
  /\ s.optimizers[o].Pdc = IF EventIn(lines, s.from, k, Len(s.from) - 1) THEN 0
                           ELSE lines[s.from[k]].optimizers[o].Vmod
                                  * lines[s.from[k]].optimizers[o].Imod

\* For any lines, with any devices and events: what is shown of a device is what the last
\* line used that has it said, or nothing when an event came with it or later, for the
\* power of an optimizer when it came before the last line used (se2state.py:74-100).
THEOREM LastValues == SystemSpec => []LastReading
<1>1. ASSUME ReaderInv, NEW s \in State!Shown
      PROVE  /\ DOMAIN s.inverters = DevicesIn(lines, s.from, "inverters")
             /\ DOMAIN s.optimizers = DevicesIn(lines, s.from, "optimizers")
             /\ \A i \in DOMAIN s.inverters :
                  InverterReads(s, i, LastUsed(lines, s.from, "inverters", i))
             /\ \A o \in DOMAIN s.optimizers :
                  OptimizerReads(s, o, LastUsed(lines, s.from, "optimizers", o))
  <2>1. KeepsLast(s, lines)
    BY <1>1, ShownIsKept
  <2>2. s.from \in Seq(Nat)
    BY <2>1 DEF KeepsLast, UsedOK
  <2>3. ASSUME NEW i \in DOMAIN s.inverters
        PROVE  InverterReads(s, i, LastUsed(lines, s.from, "inverters", i))
    <3>1. PICK j \in 1 .. Len(s.from) :
            LatestIn(lines, s.from, "inverters", i, j) /\ InverterReads(s, i, j)
      BY <2>1 DEF KeepsLast, InverterLast, InverterReads
    <3>2. j = LastUsed(lines, s.from, "inverters", i)
      BY <2>2, <3>1, LatestIsMax
    <3> QED BY <3>1, <3>2
  <2>4. ASSUME NEW o \in DOMAIN s.optimizers
        PROVE  OptimizerReads(s, o, LastUsed(lines, s.from, "optimizers", o))
    <3>1. PICK j \in 1 .. Len(s.from) :
            /\ LatestIn(lines, s.from, "optimizers", o, j)
            /\ OptimizerKeeps(s, o, j)
      BY <2>1 DEF KeepsLast, OptimizerLast, OptimizerKeeps
    <3>2. EventIn(lines, s.from, j, Len(s.from) - 1) => EventIn(lines, s.from, j, Len(s.from))
      <4>1. Len(s.from) \in Nat /\ \A e \in j .. Len(s.from) - 1 : e \in j .. Len(s.from)
        BY <2>2
      <4> QED BY <4>1 DEF EventIn
    <3>3. OptimizerReads(s, o, j)
      BY <3>1, <3>2 DEF OptimizerKeeps, OptimizerReads
    <3>4. j = LastUsed(lines, s.from, "optimizers", o)
      BY <2>2, <3>1, LatestIsMax
    <3> QED BY <3>3, <3>4
  <2> QED BY <2>1, <2>3, <2>4 DEF KeepsLast
<1>2. ReaderInv => LastReading
  BY <1>1, Zenon DEF LastReading, State!LastReading, DevicesIn, InverterReads, OptimizerReads,
                     LastUsed, EventIn, SinglePhase
<1> QED BY <1>2, ReaderInvariant, PTL

\* For any messages, complete, cut off or refused: what is shown of an inverter is in a
\* record of a message that was parsed as a whole (data.py:130-192; semonitor.py:63-68,
\* 87-90; se2state.py:74-103).
THEOREM ShownIsReported == SystemSpec => []ShownWasReported
<1>1. TypeOK /\ LinesReport /\ ReaderInv => ShownWasReported
  <2> SUFFICES ASSUME TypeOK, LinesReport, ReaderInv,
                      NEW s \in State!Shown, NEW i \in DOMAIN s.inverters
               PROVE  \E k \in 1 .. Len(accepted) : \E j \in 1 .. Len(accepted[k]) :
                        /\ accepted[k][j].type = "inv" /\ accepted[k][j].id = i
                        /\ \A a \in {"Eday", "Etot", "Temp"} :
                             accepted[k][j].val[a] = s.inverters[i][a]
    BY DEF ShownWasReported
  <2>1. KeepsLast(s, lines)
    BY ShownIsKept
  <2> DEFINE f == s.from
  <2>2. PICK e \in 1 .. Len(f) :
          /\ LatestIn(lines, f, "inverters", i, e)
          /\ \A a \in SinglePhase :
               s.inverters[i][a] = IF a \in {"Pac", "Eac"} /\ EventIn(lines, f, e, Len(f)) THEN 0
                                   ELSE lines[f[e]].inverters[i][a]
    BY <2>1 DEF KeepsLast, InverterLast
  <2> DEFINE k == f[e]
  <2>3. k \in 1 .. Len(lines) /\ OnePhase(lines[k])
    BY <2>1 DEF KeepsLast, UsedOK
  <2>4. i \in DOMAIN lines[k].inverters
    BY <2>2 DEF LatestIn
  <2> HIDE DEF k
  <2>5. \A a \in {"Eday", "Etot", "Temp"} : s.inverters[i][a] = lines[k].inverters[i][a]
    BY <2>2 DEF k, SinglePhase, State!SinglePhase
  <2>6. /\ accepted[k] \in Messages
        /\ Says(lines[k], accepted[k], Len(accepted[k]))
        /\ k \in 1 .. Len(accepted)
    BY <2>3, AcceptedMessages DEF LinesReport, TypeOK
  <2>7. PICK j \in 1 .. Len(accepted[k]) :
          /\ accepted[k][j].type = "inv" /\ accepted[k][j].id = i
          /\ lines[k].inverters[i] = accepted[k][j].val
    BY <2>3, <2>4, <2>6, ReportedLine DEF OnePhase
  <2> QED BY <2>5, <2>6, <2>7
<1> QED BY <1>1, ParserAlone, ReaderInvariant, PTL

-----------------------------------------------------------------------------
(* The csv files: a row. *)

\* Without -a, a file of this execution is opened with its first row.
Sound(c, e) ==
  /\ DOMAIN c = {"columns", "files", "raised"} /\ c.raised \in BOOLEAN
  /\ \A dev \in DOMAIN c.files : DOMAIN c.files[dev] = {"heads", "rows"}
  /\ e.append \/ DOMAIN c.files \subseteq DOMAIN c.columns

\* The columns a report is written in have all its attributes.
Fits(c, r) == DOMAIN r.attrs \subseteq ColumnsOf(c, r)

\* Where the names of the columns are in a file, and where a first report puts them.
Heads(c, dev)   == IF dev \in DOMAIN c.files THEN c.files[dev].heads ELSE {}
NewHeads(c, r, e) == IF r.dev \notin DOMAIN c.columns /\ e.headers
                     THEN {Len(Rows(c, r.dev))} ELSE {}

\* What writerow does when nothing has been raised (se2csv.py:34-43).
Written(c, r, n, e) ==
  /\ n.raised = FALSE
  /\ DOMAIN n.columns = DOMAIN c.columns \cup {r.dev}
  /\ n.columns[r.dev] = ColumnsOf(c, r)
  /\ \A dev \in DOMAIN c.columns : dev # r.dev => n.columns[dev] = c.columns[dev]
  /\ DOMAIN n.files = DOMAIN c.files \cup {r.dev}
  /\ Rows(n, r.dev) = Append(Rows(c, r.dev), RowOf(c, r))
  /\ Heads(n, r.dev) = Heads(c, r.dev) \cup NewHeads(c, r, e)
  /\ \A dev : dev # r.dev => Rows(n, dev) = Rows(c, dev) /\ Heads(n, dev) = Heads(c, dev)
Refused(c, n) == n.raised = TRUE /\ n.files = c.files /\ n.columns = c.columns

\* The file of a report is the one there is, with the names of the columns put in front
\* of the first row of the execution.
LEMMA FileFacts ==
  ASSUME NEW c, NEW e, Sound(c, e), NEW r
  PROVE  /\ DOMAIN FileFor(c, r, e) = {"heads", "rows"}
         /\ FileFor(c, r, e).rows = Rows(c, r.dev)
         /\ FileFor(c, r, e).heads = Heads(c, r.dev) \cup NewHeads(c, r, e)
<1> DEFINE new == r.dev \notin DOMAIN c.columns
           old == IF r.dev \in DOMAIN c.files /\ (e.append \/ ~new) THEN c.files[r.dev] ELSE NoFile
           H == IF new /\ e.headers THEN {Len(old.rows)} ELSE {}
<1>1. DOMAIN old = {"heads", "rows"}
  BY DEF Sound, NoFile
<1>2. old.rows = Rows(c, r.dev) /\ old.heads = Heads(c, r.dev)
  BY DEF Rows, Heads, Sound, NoFile
<1>3. H = NewHeads(c, r, e)
  BY <1>2 DEF NewHeads
<1>4. FileFor(c, r, e) = [old EXCEPT !.heads = @ \cup H]
  BY DEF FileFor
<1> HIDE DEF old, H
<1> QED BY <1>1, <1>2, <1>3, <1>4

\* A report of an execution that has not raised becomes a row of its file, or ends it;
\* the other files are left alone.
LEMMA WriterowFacts ==
  ASSUME NEW c, NEW e, Sound(c, e), NEW r, NEW n, n = writerow(c, r, e)
  PROVE  /\ Sound(n, e)
         /\ c.raised => n = c
         /\ ~c.raised => IF Fits(c, r) THEN Written(c, r, n, e) ELSE Refused(c, n)
<1> DEFINE columns == Stored(c.columns, r.dev, ColumnsOf(c, r))
           f == FileFor(c, r, e)
           file == [f EXCEPT !.rows = Append(@, RowOf(c, r))]
           files == Stored(c.files, r.dev, file)
<1>1. n = IF c.raised THEN c
          ELSE IF ~Fits(c, r) THEN [c EXCEPT !.raised = TRUE]
          ELSE [c EXCEPT !.columns = columns, !.files = files]
  BY DEF writerow, Fits
<1>2. /\ DOMAIN f = {"heads", "rows"} /\ f.rows = Rows(c, r.dev)
      /\ f.heads = Heads(c, r.dev) \cup NewHeads(c, r, e)
  BY FileFacts
<1> HIDE DEF f
<1>3. /\ DOMAIN file = {"heads", "rows"} /\ file.rows = Append(Rows(c, r.dev), RowOf(c, r))
      /\ file.heads = Heads(c, r.dev) \cup NewHeads(c, r, e)
  BY <1>2
<1> HIDE DEF file
<1>4. /\ columns = Stored(c.columns, r.dev, ColumnsOf(c, r))
      /\ files = Stored(c.files, r.dev, file)
  OBVIOUS
<1> HIDE DEF columns, files
<1>5. /\ DOMAIN columns = DOMAIN c.columns \cup {r.dev} /\ columns[r.dev] = ColumnsOf(c, r)
      /\ \A dev \in DOMAIN c.columns : dev # r.dev => columns[dev] = c.columns[dev]
  <2> DEFINE d == c.columns
             key == r.dev
             v == ColumnsOf(c, r)
  <2>1. columns = Stored(d, key, v)
    BY <1>4
  <2> HIDE DEF d, key, v
  <2>2. /\ DOMAIN columns = DOMAIN d \cup {key} /\ columns[key] = v
        /\ \A dev \in DOMAIN d : dev # key => columns[dev] = d[dev]
    BY <2>1 DEF Stored
  <2> QED BY <2>2 DEF d, key, v
<1>6. /\ DOMAIN files = DOMAIN c.files \cup {r.dev} /\ files[r.dev] = file
      /\ \A dev \in DOMAIN c.files : dev # r.dev => files[dev] = c.files[dev]
  <2> DEFINE d == c.files
             key == r.dev
             v == file
  <2>1. files = Stored(d, key, v)
    BY <1>4
  <2> HIDE DEF d, key, v
  <2>2. /\ DOMAIN files = DOMAIN d \cup {key} /\ files[key] = v
        /\ \A dev \in DOMAIN d : dev # key => files[dev] = d[dev]
    BY <2>1 DEF Stored
  <2> QED BY <2>2 DEF d, key, v
<1>7. CASE c.raised
  BY <1>1, <1>7
<1>8. CASE ~c.raised /\ ~Fits(c, r)
  <2>1. n = [c EXCEPT !.raised = TRUE]
    BY <1>1, <1>8
  <2>2. /\ DOMAIN n = {"columns", "files", "raised"} /\ n.raised = TRUE
        /\ n.files = c.files /\ n.columns = c.columns
    BY <2>1 DEF Sound
  <2> QED BY <1>8, <2>2 DEF Sound, Refused
<1>9. CASE ~c.raised /\ Fits(c, r)
  <2>1. n = [c EXCEPT !.columns = columns, !.files = files]
    BY <1>1, <1>9
  <2>2. /\ DOMAIN n = {"columns", "files", "raised"} /\ n.raised = c.raised
        /\ n.files = files /\ n.columns = columns
    BY <2>1 DEF Sound
  <2>3. n.raised = FALSE
    BY <1>9, <2>2 DEF Sound
  <2>4. r.dev \in DOMAIN n.files /\ n.files[r.dev] = file
    BY <1>6, <2>2
  <2>5. /\ Rows(n, r.dev) = Append(Rows(c, r.dev), RowOf(c, r))
        /\ Heads(n, r.dev) = Heads(c, r.dev) \cup NewHeads(c, r, e)
    <3>1. Rows(n, r.dev) = file.rows /\ Heads(n, r.dev) = file.heads
      BY <2>4 DEF Rows, Heads
    <3> QED BY <1>3, <3>1
  <2>6. ASSUME NEW dev, dev # r.dev
        PROVE  Rows(n, dev) = Rows(c, dev) /\ Heads(n, dev) = Heads(c, dev)
    <3>1. dev \in DOMAIN n.files <=> dev \in DOMAIN c.files
      BY <1>6, <2>2, <2>6
    <3>2. dev \in DOMAIN c.files => n.files[dev] = c.files[dev]
      BY <1>6, <2>2, <2>6
    <3> QED BY <3>1, <3>2 DEF Rows, Heads
  <2>7. Written(c, r, n, e)
    BY <1>5, <1>6, <2>2, <2>3, <2>5, <2>6 DEF Written
  <2>8. \A dev \in DOMAIN n.files : DOMAIN n.files[dev] = {"heads", "rows"}
    BY <1>3, <1>6, <2>2 DEF Sound
  <2>9. Sound(n, e)
    BY <1>5, <1>6, <2>2, <2>3, <2>8 DEF Sound
  <2> QED BY <1>9, <2>7, <2>9
<1> QED BY <1>7, <1>8, <1>9

\* Since the execution began: a type that it has not met has the file it had; the file of
\* one that it has met is longer, and has the names of its columns once more with -t.
HeadsFrom(c, e) ==
  /\ \A dev : dev \notin DOMAIN c.columns => /\ Rows(c, dev) = Rows(Opened(e), dev)
                                             /\ Heads(c, dev) = Heads(Opened(e), dev)
  /\ \A dev \in DOMAIN c.columns :
       /\ Heads(c, dev) = Heads(Opened(e), dev)
                            \cup IF e.headers THEN {Len(Rows(Opened(e), dev))} ELSE {}
       /\ Len(Rows(Opened(e), dev)) \in Nat /\ Len(Rows(Opened(e), dev)) < Len(Rows(c, dev))

\* It is so after one more row.
LEMMA HeadsOne ==
  ASSUME NEW c, NEW e, HeadsFrom(c, e), NEW r, NEW n, Written(c, r, n, e),
         Rows(c, r.dev) \in Seq(Range(Rows(c, r.dev)))
  PROVE  HeadsFrom(n, e)
<1> DEFINE d == r.dev
           o == Opened(e)
<1>1. /\ DOMAIN n.columns = DOMAIN c.columns \cup {d}
      /\ Rows(n, d) = Append(Rows(c, d), RowOf(c, r))
      /\ Heads(n, d) = Heads(c, d) \cup NewHeads(c, r, e)
      /\ \A dev : dev # d => Rows(n, dev) = Rows(c, dev) /\ Heads(n, dev) = Heads(c, dev)
  BY DEF Written
<1>2. Len(Rows(n, d)) = Len(Rows(c, d)) + 1 /\ Len(Rows(c, d)) \in Nat
  BY <1>1, AppendToAny, LenProperties
<1>3. /\ Heads(n, d) = Heads(o, d) \cup IF e.headers THEN {Len(Rows(o, d))} ELSE {}
      /\ Len(Rows(o, d)) \in Nat /\ Len(Rows(o, d)) < Len(Rows(n, d))
  <2>1. CASE d \in DOMAIN c.columns
    <3>1. NewHeads(c, r, e) = {}
      BY <2>1 DEF NewHeads
    <3>2. /\ Heads(c, d) = Heads(o, d) \cup IF e.headers THEN {Len(Rows(o, d))} ELSE {}
          /\ Len(Rows(o, d)) \in Nat /\ Len(Rows(o, d)) < Len(Rows(c, d))
      BY <2>1 DEF HeadsFrom
    <3> HIDE DEF d, o
    <3> QED BY <1>1, <1>2, <3>1, <3>2
  <2>2. CASE d \notin DOMAIN c.columns
    <3>1. Rows(c, d) = Rows(o, d) /\ Heads(c, d) = Heads(o, d)
      BY <2>2 DEF HeadsFrom
    <3>2. NewHeads(c, r, e) = IF e.headers THEN {Len(Rows(o, d))} ELSE {}
      BY <2>2, <3>1 DEF NewHeads
    <3> HIDE DEF d, o
    <3> QED BY <1>1, <1>2, <3>1, <3>2
  <2> QED BY <2>1, <2>2
<1> HIDE DEF d
<1>4. ASSUME NEW dev, dev \notin DOMAIN n.columns
      PROVE  Rows(n, dev) = Rows(o, dev) /\ Heads(n, dev) = Heads(o, dev)
  BY <1>1, <1>4 DEF HeadsFrom
<1>5. ASSUME NEW dev \in DOMAIN n.columns
      PROVE  /\ Heads(n, dev) = Heads(o, dev) \cup IF e.headers THEN {Len(Rows(o, dev))} ELSE {}
             /\ Len(Rows(o, dev)) \in Nat /\ Len(Rows(o, dev)) < Len(Rows(n, dev))
  <2>1. CASE dev = d
    BY <1>3, <2>1
  <2>2. CASE dev # d
    <3>1. dev \in DOMAIN c.columns /\ Rows(n, dev) = Rows(c, dev) /\ Heads(n, dev) = Heads(c, dev)
      BY <1>1, <2>2
    <3> QED BY <3>1 DEF HeadsFrom
  <2> QED BY <2>1, <2>2
<1> QED BY <1>4, <1>5 DEF HeadsFrom

-----------------------------------------------------------------------------
(* The rows and the reports. *)

\* The rows are of the reports in T, which are where their place among them says.
Wrote(c, ls, T) ==
  /\ \A dev : /\ Rows(c, dev) \in Seq(Range(Rows(c, dev)))
              /\ Len(Rows(c, dev)) = Cardinality(OfType(T, dev))
  /\ \A r \in T : SaysOf(Rows(c, DevOf(r))[Place(T, r)], ReportAt(ls, r))

\* s comes after all of T.
Later(s, T) == \A q \in T : NotAfter(q, s) /\ ~NotAfter(s, q)

\* A report has a place among those of its type.
LEMMA PlaceFacts ==
  ASSUME NEW T \in SUBSET (Nat \X Nat), IsFiniteSet(T), NEW r \in T
  PROVE  Place(T, r) \in 1 .. Cardinality(OfType(T, DevOf(r)))
<1> DEFINE U == OfType(T, DevOf(r))
           Q == {q \in U : NotAfter(q, r)}
<1>1. IsFiniteSet(U)
  <2>1. U \subseteq T
    BY DEF OfType
  <2> QED BY <2>1, FS_Subset
<1>2. r \in Q
  <2>1. r[1] \in Nat /\ r[2] \in Nat
    OBVIOUS
  <2> QED BY <2>1 DEF OfType, NotAfter
<1> HIDE DEF U
<1>3. Q \subseteq U
  OBVIOUS
<1>4. IsFiniteSet(Q) /\ Cardinality(Q) <= Cardinality(U)
  BY <1>1, <1>3, FS_Subset
<1>5. Cardinality(Q) \in Nat /\ Cardinality(U) \in Nat /\ Cardinality(Q) # 0
  BY <1>1, <1>2, <1>4, FS_CardinalityType, FS_EmptySet
<1>6. Place(T, r) = Cardinality(Q)
  BY DEF Place, U
<1> HIDE DEF Q
<1> QED BY <1>4, <1>5, <1>6 DEF U

\* A row for a report that comes after all of T keeps the places of theirs.
LEMMA WroteOne ==
  ASSUME NEW T \in SUBSET (Nat \X Nat), IsFiniteSet(T), NEW s \in Nat \X Nat, Later(s, T),
         NEW c, NEW ls, Wrote(c, ls, T), NEW n, NEW row, SaysOf(row, ReportAt(ls, s)),
         Rows(n, DevOf(s)) = Append(Rows(c, DevOf(s)), row),
         \A dev : dev # DevOf(s) => Rows(n, dev) = Rows(c, dev)
  PROVE  Wrote(n, ls, T \cup {s})
<1> DEFINE U == T \cup {s}
           d == DevOf(s)
<1>1. NotAfter(s, s)
  BY DEF NotAfter
<1>2. s \notin T
  BY <1>1 DEF Later
<1>3. OfType(U, d) = OfType(T, d) \cup {s} /\ s \notin OfType(T, d)
  BY <1>2 DEF OfType
<1>4. \A dev : dev # d => OfType(U, dev) = OfType(T, dev)
  BY DEF OfType
<1>5. IsFiniteSet(OfType(T, d)) /\ Cardinality(OfType(T, d)) \in Nat
  <2>1. OfType(T, d) \subseteq T
    BY DEF OfType
  <2> QED BY <2>1, FS_Subset, FS_CardinalityType
<1>6. Cardinality(OfType(U, d)) = Cardinality(OfType(T, d)) + 1
  BY <1>3, <1>5, FS_AddElement
<1>7. ASSUME NEW r \in T PROVE Place(U, r) = Place(T, r)
  <2>1. ~NotAfter(s, r)
    BY DEF Later
  <2>2. {q \in OfType(U, DevOf(r)) : NotAfter(q, r)} = {q \in OfType(T, DevOf(r)) : NotAfter(q, r)}
    BY <2>1 DEF OfType
  <2> QED BY <2>2 DEF Place
<1>8. Place(U, s) = Cardinality(OfType(T, d)) + 1
  <2>1. \A q \in OfType(U, d) : NotAfter(q, s)
    BY <1>1, <1>3 DEF Later, OfType
  <2>2. {q \in OfType(U, d) : NotAfter(q, s)} = OfType(U, d)
    BY <2>1
  <2> QED BY <1>6, <2>2 DEF Place
<1>9. /\ Rows(c, d) \in Seq(Range(Rows(c, d))) /\ Len(Rows(c, d)) = Cardinality(OfType(T, d))
  BY DEF Wrote
<1> HIDE DEF d, U
<1>10. /\ Rows(n, d) \in Seq(Range(Rows(n, d)))
       /\ Len(Rows(n, d)) = Len(Rows(c, d)) + 1
       /\ \A i \in 1 .. Len(Rows(c, d)) : Rows(n, d)[i] = Rows(c, d)[i]
       /\ Rows(n, d)[Len(Rows(c, d)) + 1] = row
  <2>1. Rows(n, d) = Append(Rows(c, d), row)
    BY DEF d
  <2> QED BY <1>9, <2>1, AppendToAny
<1>11. \A dev : dev # d => Rows(n, dev) = Rows(c, dev)
  BY DEF d
<1>12. ASSUME NEW dev
       PROVE  /\ Rows(n, dev) \in Seq(Range(Rows(n, dev)))
              /\ Len(Rows(n, dev)) = Cardinality(OfType(U, dev))
  <2>1. CASE dev = d
    BY <1>6, <1>9, <1>10, <2>1
  <2>2. CASE dev # d
    <3>1. Rows(n, dev) = Rows(c, dev) /\ OfType(U, dev) = OfType(T, dev)
      BY <1>4, <1>11, <2>2
    <3>2. /\ Rows(c, dev) \in Seq(Range(Rows(c, dev)))
          /\ Len(Rows(c, dev)) = Cardinality(OfType(T, dev))
      BY DEF Wrote
    <3> QED BY <3>1, <3>2
  <2> QED BY <2>1, <2>2
<1>13. ASSUME NEW r \in U PROVE SaysOf(Rows(n, DevOf(r))[Place(U, r)], ReportAt(ls, r))
  <2>1. CASE r = s
    <3>1. DevOf(r) = d /\ Place(U, r) = Len(Rows(c, d)) + 1
      BY <1>8, <1>9, <2>1 DEF d
    <3> QED BY <1>10, <2>1, <3>1
  <2>2. CASE r # s
    <3>1. r \in T
      BY <2>2 DEF U
    <3>2. Place(U, r) = Place(T, r) /\ SaysOf(Rows(c, DevOf(r))[Place(T, r)], ReportAt(ls, r))
      BY <1>7, <3>1 DEF Wrote
    <3>3. Place(T, r) \in 1 .. Cardinality(OfType(T, DevOf(r)))
      BY <3>1, PlaceFacts
    <3>4. CASE DevOf(r) = d
      <4>1. Place(T, r) \in 1 .. Len(Rows(c, d))
        BY <1>9, <3>3, <3>4
      <4> QED BY <1>10, <3>2, <3>4, <4>1
    <3>5. CASE DevOf(r) # d
      BY <1>11, <3>2, <3>5
    <3> QED BY <3>4, <3>5
  <2> QED BY <2>1, <2>2
<1>14. Wrote(n, ls, U)
  BY <1>12, <1>13 DEF Wrote
<1> QED BY <1>14 DEF U

-----------------------------------------------------------------------------
(* An execution up to a report. *)

\* T are the first of N.
FirstOf(T, N) == T \in SUBSET N /\ \A q \in T, r \in N : NotAfter(r, q) => r \in T

\* Reports of a type have the same attributes.
Uniform(ls) == \A q, r \in Reports(ls) : DevOf(q) = DevOf(r) =>
                 DOMAIN ReportAt(ls, q).attrs = DOMAIN ReportAt(ls, r).attrs

\* Then every row has them as its columns, and nothing is refused.
Even(c, ls) ==
  /\ c.raised = FALSE
  /\ \A r \in Reports(ls) :
       /\ DevOf(r) \in DOMAIN c.columns
            => c.columns[DevOf(r)] = DOMAIN ReportAt(ls, r).attrs
       /\ \A i \in 1 .. Len(Rows(c, DevOf(r))) :
            Rows(c, DevOf(r))[i].columns = DOMAIN ReportAt(ls, r).attrs

\* The reports N have been met: they have become rows, or the first of them have, and
\* one that did not fit has ended the execution.
Good(c, ls, N, e) ==
  /\ Sound(c, e)
  /\ \E T : FirstOf(T, N) /\ Wrote(c, ls, T) /\ (c.raised = FALSE => T = N)
  /\ Uniform(ls) => Even(c, ls)
  /\ HeadsFrom(c, e)

\* The next report: it is written, or refused, or the execution has ended before.
LEMMA GoodOne ==
  ASSUME NEW ls, NEW N \in SUBSET (Nat \X Nat), IsFiniteSet(N),
         NEW s \in Nat \X Nat, s \in Reports(ls), Later(s, N),
         NEW c, NEW e, Good(c, ls, N, e),
         NEW r, r = ReportAt(ls, s), r.dev = DevOf(s),
         NEW n, n = writerow(c, r, e)
  PROVE  Good(n, ls, N \cup {s}, e)
<1>1. /\ Sound(c, e)
      /\ Uniform(ls) => Even(c, ls)
      /\ HeadsFrom(c, e)
  BY DEF Good
<1>2. PICK T : FirstOf(T, N) /\ Wrote(c, ls, T) /\ (c.raised = FALSE => T = N)
  BY DEF Good
<1>3. /\ Sound(n, e)
      /\ c.raised => n = c
      /\ ~c.raised => IF Fits(c, r) THEN Written(c, r, n, e) ELSE Refused(c, n)
  BY <1>1, WriterowFacts
<1>4. c.raised \in BOOLEAN
  BY <1>1 DEF Sound
<1>5. FirstOf(T, N \cup {s})
  BY <1>2 DEF FirstOf, Later
<1>6. Uniform(ls) => c.raised = FALSE /\ Fits(c, r)
  <2> SUFFICES ASSUME Uniform(ls) PROVE c.raised = FALSE /\ Fits(c, r)
    OBVIOUS
  <2>1. Even(c, ls)
    BY <1>1
  <2> QED BY <2>1 DEF Even, Fits, ColumnsOf
<1>7. CASE c.raised = TRUE
  <2>1. n = c
    BY <1>3, <1>7
  <2> QED BY <1>1, <1>2, <1>3, <1>5, <1>6, <1>7, <2>1 DEF Good
<1>8. CASE c.raised = FALSE /\ ~Fits(c, r)
  <2>1. Refused(c, n)
    BY <1>3, <1>8
  <2>2. \A dev : Rows(n, dev) = Rows(c, dev)
    BY <2>1 DEF Refused, Rows
  <2>3. Wrote(n, ls, T)
    BY <1>2, <2>2 DEF Wrote
  <2>4. n.raised = TRUE
    BY <2>1 DEF Refused
  <2>5. \A dev : Heads(n, dev) = Heads(c, dev)
    BY <2>1 DEF Refused, Heads
  <2>6. n.columns = c.columns
    BY <2>1 DEF Refused
  <2>7. HeadsFrom(n, e)
    BY <1>1, <2>2, <2>5, <2>6 DEF HeadsFrom
  <2> QED BY <1>3, <1>5, <1>6, <1>8, <2>3, <2>4, <2>7 DEF Good
<1>9. CASE c.raised = FALSE /\ Fits(c, r)
  <2>1. Written(c, r, n, e)
    BY <1>3, <1>9
  <2> DEFINE row == RowOf(c, r)
             U == N \cup {s}
  <2>2. SaysOf(row, ReportAt(ls, s))
    BY DEF SaysOf, RowOf
  <2>3. /\ Rows(n, DevOf(s)) = Append(Rows(c, DevOf(s)), row)
        /\ \A dev : dev # DevOf(s) => Rows(n, dev) = Rows(c, dev)
    BY <2>1 DEF Written
  <2>4. Wrote(c, ls, N)
    BY <1>2, <1>9
  <2>5. row.columns = ColumnsOf(c, r)
    BY DEF RowOf
  <2> HIDE DEF row
  <2>6. Wrote(n, ls, U)
    BY <2>2, <2>3, <2>4, WroteOne
  <2>7. FirstOf(U, U)
    BY DEF FirstOf
  <2>8. ASSUME Uniform(ls) PROVE Even(n, ls)
    <3>1. Even(c, ls)
      BY <1>1, <2>8
    <3>2. ColumnsOf(c, r) = DOMAIN r.attrs
      BY <3>1 DEF Even, ColumnsOf
    <3> SUFFICES ASSUME NEW q \in Reports(ls)
                 PROVE  /\ DevOf(q) \in DOMAIN n.columns
                             => n.columns[DevOf(q)] = DOMAIN ReportAt(ls, q).attrs
                        /\ \A i \in 1 .. Len(Rows(n, DevOf(q))) :
                             Rows(n, DevOf(q))[i].columns = DOMAIN ReportAt(ls, q).attrs
      BY <2>1 DEF Even, Written
    <3>3. CASE DevOf(q) = DevOf(s)
      <4>1. DOMAIN ReportAt(ls, q).attrs = DOMAIN r.attrs
        BY <2>8, <3>3 DEF Uniform
      <4>2. n.columns[DevOf(q)] = DOMAIN r.attrs
        BY <2>1, <3>2, <3>3 DEF Written
      <4> DEFINE o == Rows(c, DevOf(s))
      <4>3. o \in Seq(Range(o))
        BY <2>4 DEF Wrote
      <4>4. \A i \in 1 .. Len(o) : o[i].columns = DOMAIN r.attrs
        BY <3>1 DEF Even
      <4> HIDE DEF o
      <4>5. /\ Len(Append(o, row)) = Len(o) + 1 /\ Append(o, row)[Len(o) + 1] = row
            /\ \A i \in 1 .. Len(o) : Append(o, row)[i] = o[i]
        BY <4>3, AppendToAny
      <4>6. Len(o) \in Nat
        BY <4>3, LenProperties
      <4>7. \A i \in 1 .. Len(o) + 1 : i \in 1 .. Len(o) \/ i = Len(o) + 1
        BY <4>6
      <4>8. \A i \in 1 .. Len(Append(o, row)) : Append(o, row)[i].columns = DOMAIN r.attrs
        BY <2>5, <3>2, <4>4, <4>5, <4>7
      <4> QED BY <2>3, <3>3, <4>1, <4>2, <4>8 DEF o
    <3>4. CASE DevOf(q) # DevOf(s)
      <4>1. Rows(n, DevOf(q)) = Rows(c, DevOf(q))
        BY <2>3, <3>4
      <4>2. DevOf(q) \in DOMAIN n.columns
              => DevOf(q) \in DOMAIN c.columns /\ n.columns[DevOf(q)] = c.columns[DevOf(q)]
        BY <2>1, <3>4 DEF Written
      <4> QED BY <3>1, <4>1, <4>2 DEF Even
    <3> QED BY <3>3, <3>4
  <2>9. HeadsFrom(n, e)
    <3>1. Rows(c, r.dev) \in Seq(Range(Rows(c, r.dev)))
      BY <2>4 DEF Wrote
    <3> QED BY <1>1, <2>1, <3>1, HeadsOne
  <2> QED BY <1>3, <2>6, <2>7, <2>8, <2>9 DEF Good
<1> QED BY <1>4, <1>7, <1>8, <1>9

-----------------------------------------------------------------------------
(* The recursions: over the devices of a line, and over the lines. *)

\* What the conversion is after the i-th name, for each i up to n.
NextRow(c, line, i, e) ==
  LET devs == unwrap_metricsDict(line)
  IN  IF i \in DOMAIN devs THEN writerow(c, devs[i], e) ELSE c
ByName(g, c, line, e, n) ==
  g = [i \in 0 .. n |-> IF i = 0 THEN c ELSE NextRow(g[i - 1], line, i, e)]

\* The recursion over the names is well defined.
LEMMA ByNameExists ==
  ASSUME NEW c, NEW line, NEW e, NEW m \in Nat
  PROVE  \E g : ByName(g, c, line, e, m)
<1> DEFINE S == {n \in Nat : \E g : ByName(g, c, line, e, n)}
<1>1. 0 \in S
  <2> DEFINE g == [i \in 0 .. 0 |-> c]
  <2>1. ByName(g, c, line, e, 0)
    BY DEF ByName
  <2> QED BY <2>1
<1>2. ASSUME NEW n \in Nat, n \in S PROVE n + 1 \in S
  <2>1. PICK g : ByName(g, c, line, e, n)
    BY <1>2
  <2> DEFINE h == [i \in 0 .. n + 1 |-> IF i = n + 1 THEN NextRow(g[n], line, n + 1, e)
                                                     ELSE g[i]]
             H == [i \in 0 .. n + 1 |-> IF i = 0 THEN c ELSE NextRow(h[i - 1], line, i, e)]
  <2>2. g[0] = c /\ \A i \in 1 .. n : g[i] = NextRow(g[i - 1], line, i, e)
    BY <2>1 DEF ByName
  <2>3. \A i \in 0 .. n : h[i] = g[i]
    OBVIOUS
  <2>4. h[n + 1] = NextRow(g[n], line, n + 1, e)
    OBVIOUS
  <2>5. DOMAIN h = 0 .. n + 1 /\ h = [i \in 0 .. n + 1 |-> h[i]]
    OBVIOUS
  <2> HIDE DEF h
  <2>6. ASSUME NEW i \in 0 .. n + 1
        PROVE  h[i] = IF i = 0 THEN c ELSE NextRow(h[i - 1], line, i, e)
    <3>1. CASE i = 0
      <4>1. 0 \in 0 .. n
        OBVIOUS
      <4> QED BY <2>2, <2>3, <3>1, <4>1
    <3>2. CASE i = n + 1
      <4>1. n \in 0 .. n /\ i - 1 = n /\ i # 0
        BY <3>2
      <4> QED BY <2>3, <2>4, <3>2, <4>1
    <3>3. CASE i # 0 /\ i # n + 1
      <4>1. i \in 0 .. n /\ i - 1 \in 0 .. n /\ i \in 1 .. n
        BY <3>3
      <4> QED BY <2>2, <2>3, <3>3, <4>1
    <3> QED BY <3>1, <3>2, <3>3
  <2>7. h = H
    BY <2>5, <2>6
  <2>8. ByName(h, c, line, e, n + 1)
    BY <2>7 DEF ByName
  <2>9. n + 1 \in Nat
    OBVIOUS
  <2> QED BY <2>8, <2>9
<1>3. Nat \subseteq S
  <2> HIDE DEF S
  <2> QED BY <1>1, <1>2, NatSetInduction
<1> QED BY <1>3

\* A line takes one step for each name.
NameSteps(g, c, line, e) ==
  /\ g[0] = c /\ g[Len(BaseNames)] = writerows(c, line, e)
  /\ \A i \in 1 .. Len(BaseNames) : g[i] = NextRow(g[i - 1], line, i, e)

\* writerows is the end of such steps.
LEMMA WriterowsSteps ==
  ASSUME NEW c, NEW line, NEW e
  PROVE  \E g : NameSteps(g, c, line, e)
<1> DEFINE N == Len(BaseNames)
           g == CHOOSE f : ByName(f, c, line, e, N)
<1>1. N \in Nat
  BY NamesAssumption
<1>2. writerows(c, line, e) = g[N]
  BY DEF writerows, ByName, NextRow
<1> HIDE DEF N
<1>3. ByName(g, c, line, e, N)
  BY <1>1, ByNameExists
<1> HIDE DEF g
<1>4. g[0] = c /\ \A i \in 1 .. N : g[i] = NextRow(g[i - 1], line, i, e)
  BY <1>1, <1>3 DEF ByName
<1> QED BY <1>2, <1>4 DEF N, NameSteps

\* The same for the lines.
ByLine(g, e, xs, n) ==
  g = [k \in 0 .. n |-> IF k = 0 THEN Opened(e) ELSE writerows(g[k - 1], xs[k], e)]

\* The recursion over the lines is well defined.
LEMMA ByLineExists ==
  ASSUME NEW e, NEW xs, NEW m \in Nat
  PROVE  \E g : ByLine(g, e, xs, m)
<1> DEFINE S == {n \in Nat : \E g : ByLine(g, e, xs, n)}
<1>1. 0 \in S
  <2> DEFINE g == [i \in 0 .. 0 |-> Opened(e)]
  <2>1. ByLine(g, e, xs, 0)
    BY DEF ByLine
  <2> QED BY <2>1
<1>2. ASSUME NEW n \in Nat, n \in S PROVE n + 1 \in S
  <2>1. PICK g : ByLine(g, e, xs, n)
    BY <1>2
  <2> DEFINE h == [i \in 0 .. n + 1 |-> IF i = n + 1 THEN writerows(g[n], xs[n + 1], e)
                                                     ELSE g[i]]
             H == [i \in 0 .. n + 1 |-> IF i = 0 THEN Opened(e)
                                        ELSE writerows(h[i - 1], xs[i], e)]
  <2>2. g[0] = Opened(e) /\ \A i \in 1 .. n : g[i] = writerows(g[i - 1], xs[i], e)
    BY <2>1 DEF ByLine
  <2>3. \A i \in 0 .. n : h[i] = g[i]
    OBVIOUS
  <2>4. h[n + 1] = writerows(g[n], xs[n + 1], e)
    OBVIOUS
  <2>5. DOMAIN h = 0 .. n + 1 /\ h = [i \in 0 .. n + 1 |-> h[i]]
    OBVIOUS
  <2> HIDE DEF h
  <2>6. ASSUME NEW i \in 0 .. n + 1
        PROVE  h[i] = IF i = 0 THEN Opened(e) ELSE writerows(h[i - 1], xs[i], e)
    <3>1. CASE i = 0
      <4>1. 0 \in 0 .. n
        OBVIOUS
      <4> QED BY <2>2, <2>3, <3>1, <4>1
    <3>2. CASE i = n + 1
      <4>1. n \in 0 .. n /\ i - 1 = n /\ i # 0
        BY <3>2
      <4> QED BY <2>3, <2>4, <3>2, <4>1
    <3>3. CASE i # 0 /\ i # n + 1
      <4>1. i \in 0 .. n /\ i - 1 \in 0 .. n /\ i \in 1 .. n
        BY <3>3
      <4> QED BY <2>2, <2>3, <3>3, <4>1
    <3> QED BY <3>1, <3>2, <3>3
  <2>7. h = H
    BY <2>5, <2>6
  <2>8. ByLine(h, e, xs, n + 1)
    BY <2>7 DEF ByLine
  <2>9. n + 1 \in Nat
    OBVIOUS
  <2> QED BY <2>8, <2>9
<1>3. Nat \subseteq S
  <2> HIDE DEF S
  <2> QED BY <1>1, <1>2, NatSetInduction
<1> QED BY <1>3

\* An execution takes one step for each line.
LineSteps(g, e, xs) ==
  /\ g[0] = Opened(e) /\ g[Len(xs)] = se2csv(e, xs)
  /\ \A k \in 1 .. Len(xs) : g[k] = writerows(g[k - 1], xs[k], e)

\* se2csv is the end of such steps.
LEMMA Se2csvSteps ==
  ASSUME NEW e, NEW xs, Len(xs) \in Nat
  PROVE  \E g : LineSteps(g, e, xs)
<1> DEFINE N == Len(xs)
           g == CHOOSE f : ByLine(f, e, xs, N)
<1>1. N \in Nat
  OBVIOUS
<1>2. se2csv(e, xs) = g[N]
  BY DEF se2csv, ByLine
<1> HIDE DEF N
<1>3. ByLine(g, e, xs, N)
  BY <1>1, ByLineExists
<1> HIDE DEF g
<1>4. g[0] = Opened(e) /\ \A k \in 1 .. N : g[k] = writerows(g[k - 1], xs[k], e)
  BY <1>1, <1>3 DEF ByLine
<1> QED BY <1>2, <1>4 DEF N, LineSteps

-----------------------------------------------------------------------------
(* The reports that have been met. *)

\* Those of the first k lines, and of the next line those with the first i names.
Done(ls, k, i) == {r \in Reports(ls) : r[1] <= k \/ (r[1] = k + 1 /\ r[2] <= i)}

\* There are finitely many reports, and each is the device of its name in its line.
LEMMA ReportsFacts ==
  ASSUME NEW ls, Len(ls) \in Nat
  PROVE  /\ Reports(ls) \subseteq (1 .. Len(ls)) \X (1 .. Len(BaseNames))
         /\ \A T \in SUBSET Reports(ls) : T \in SUBSET (Nat \X Nat) /\ IsFiniteSet(T)
         /\ \A k \in 1 .. Len(ls), i \in 1 .. Len(BaseNames) :
              <<k, i>> \in Reports(ls) <=> i \in DOMAIN unwrap_metricsDict(ls[k])
         /\ \A r \in Reports(ls) : ReportAt(ls, r).dev = DevOf(r)
<1>1. Len(BaseNames) \in Nat
  BY NamesAssumption
<1>2. \A k : DOMAIN unwrap_metricsDict(ls[k]) \subseteq 1 .. Len(BaseNames)
  BY DEF unwrap_metricsDict
<1>3. Reports(ls) \subseteq (1 .. Len(ls)) \X (1 .. Len(BaseNames))
  <2> SUFFICES ASSUME NEW r \in Reports(ls)
               PROVE  r \in (1 .. Len(ls)) \X (1 .. Len(BaseNames))
    OBVIOUS
  <2>1. PICK k \in 1 .. Len(ls) : r \in {k} \X DOMAIN unwrap_metricsDict(ls[k])
    BY DEF Reports
  <2>2. \E i \in DOMAIN unwrap_metricsDict(ls[k]) : r = <<k, i>>
    BY <2>1
  <2> QED BY <1>2, <2>2
<1>4. ASSUME NEW k \in 1 .. Len(ls), NEW i \in 1 .. Len(BaseNames)
      PROVE  <<k, i>> \in Reports(ls) <=> i \in DOMAIN unwrap_metricsDict(ls[k])
  BY DEF Reports
<1>5. ASSUME NEW T \in SUBSET Reports(ls) PROVE T \in SUBSET (Nat \X Nat) /\ IsFiniteSet(T)
  <2> DEFINE A == 1 .. Len(ls)
             B == 1 .. Len(BaseNames)
  <2>1. A \subseteq Nat /\ B \subseteq Nat
    BY <1>1
  <2>2. IsFiniteSet(A) /\ IsFiniteSet(B)
    BY <1>1, FS_Interval
  <2> HIDE DEF A, B
  <2>3. IsFiniteSet(A \X B)
    BY <2>2, FS_Product
  <2>4. T \subseteq A \X B
    BY <1>3 DEF A, B
  <2>5. IsFiniteSet(T)
    BY <2>3, <2>4, FS_Subset
  <2> QED BY <2>1, <2>4, <2>5
<1>6. ASSUME NEW r \in Reports(ls) PROVE ReportAt(ls, r).dev = DevOf(r)
  <2>1. PICK k \in 1 .. Len(ls) : \E i \in DOMAIN unwrap_metricsDict(ls[k]) : r = <<k, i>>
    BY DEF Reports
  <2>2. r[1] = k /\ r[2] \in DOMAIN unwrap_metricsDict(ls[k])
    BY <2>1
  <2> QED BY <2>2 DEF ReportAt, DevOf, unwrap_metricsDict
<1> QED BY <1>3, <1>4, <1>5, <1>6

\* The next name adds its report, if the line has one, after the others.
LEMMA DoneNext ==
  ASSUME NEW ls, Len(ls) \in Nat, NEW k \in Nat, k + 1 \in 1 .. Len(ls),
         NEW i \in Nat, i + 1 \in 1 .. Len(BaseNames), NEW s, s = <<k + 1, i + 1>>
  PROVE  /\ s \in Reports(ls) => /\ Done(ls, k, i + 1) = Done(ls, k, i) \cup {s}
                                 /\ Later(s, Done(ls, k, i))
         /\ s \notin Reports(ls) => Done(ls, k, i + 1) = Done(ls, k, i)
<1>1. ASSUME NEW r \in Reports(ls)
      PROVE  r[1] \in Nat /\ r[2] \in Nat /\ r = <<r[1], r[2]>>
  BY ReportsFacts
<1>2. \A n \in Nat : n <= i + 1 <=> n <= i \/ n = i + 1
  OBVIOUS
<1>3. \A r \in Reports(ls) : r[1] = k + 1 /\ r[2] = i + 1 <=> r = s
  BY <1>1
<1>4. \A r \in Reports(ls) : r \in Done(ls, k, i + 1) <=> r \in Done(ls, k, i) \/ r = s
  <2> SUFFICES ASSUME NEW r \in Reports(ls)
               PROVE  r \in Done(ls, k, i + 1) <=> r \in Done(ls, k, i) \/ r = s
    OBVIOUS
  <2>1. r[2] <= i + 1 <=> r[2] <= i \/ r[2] = i + 1
    BY <1>1, <1>2
  <2> QED BY <1>3, <2>1 DEF Done
<1>5. Done(ls, k, i + 1) \subseteq Reports(ls) /\ Done(ls, k, i) \subseteq Reports(ls)
  BY DEF Done
<1>6. ASSUME NEW q \in Done(ls, k, i) PROVE NotAfter(q, s) /\ ~NotAfter(s, q)
  <2>1. q[1] \in Nat /\ q[2] \in Nat /\ (q[1] <= k \/ (q[1] = k + 1 /\ q[2] <= i))
    BY <1>1 DEF Done
  <2>2. s[1] = k + 1 /\ s[2] = i + 1
    OBVIOUS
  <2> QED BY <2>1, <2>2 DEF NotAfter
<1> QED BY <1>4, <1>5, <1>6 DEF Later

\* All the names of a line are the line.
LEMMA DoneLine ==
  ASSUME NEW ls, Len(ls) \in Nat, NEW k \in Nat
  PROVE  Done(ls, k, Len(BaseNames)) = Done(ls, k + 1, 0)
<1>1. ASSUME NEW r \in Reports(ls)
      PROVE  r[1] \in Nat /\ r[2] \in Nat /\ r[2] >= 1 /\ r[2] <= Len(BaseNames)
  BY ReportsFacts, NamesAssumption
<1> QED BY <1>1 DEF Done

-----------------------------------------------------------------------------
(* A line and an execution. *)

\* A line keeps what is good of the reports met so far.
LEMMA GoodLine ==
  ASSUME NEW ls, Len(ls) \in Nat, NEW k \in Nat, k + 1 \in 1 .. Len(ls),
         NEW c, NEW e, Good(c, ls, Done(ls, k, 0), e)
  PROVE  Good(writerows(c, ls[k + 1], e), ls, Done(ls, k + 1, 0), e)
<1>1. PICK g : NameSteps(g, c, ls[k + 1], e)
  BY WriterowsSteps
<1>2. /\ g[0] = c /\ g[Len(BaseNames)] = writerows(c, ls[k + 1], e)
      /\ \A i \in 1 .. Len(BaseNames) : g[i] = NextRow(g[i - 1], ls[k + 1], i, e)
  BY <1>1 DEF NameSteps
<1> DEFINE S == {i \in Nat : i <= Len(BaseNames) => Good(g[i], ls, Done(ls, k, i), e)}
<1>3. 0 \in S
  BY <1>2
<1>4. ASSUME NEW i \in Nat, i \in S PROVE i + 1 \in S
  <2> SUFFICES ASSUME i + 1 <= Len(BaseNames)
               PROVE  Good(g[i + 1], ls, Done(ls, k, i + 1), e)
    OBVIOUS
  <2>1. i <= Len(BaseNames) /\ i + 1 \in 1 .. Len(BaseNames) /\ (i + 1) - 1 = i
    BY NamesAssumption
  <2> DEFINE s == <<k + 1, i + 1>>
             N == Done(ls, k, i)
             devs == unwrap_metricsDict(ls[k + 1])
  <2>2. Good(g[i], ls, N, e)
    BY <1>4, <2>1
  <2>3. g[i + 1] = IF i + 1 \in DOMAIN devs THEN writerow(g[i], devs[i + 1], e) ELSE g[i]
    BY <1>2, <2>1 DEF NextRow
  <2>4. s \in Reports(ls) <=> i + 1 \in DOMAIN devs
    BY <2>1, ReportsFacts
  <2>5. /\ s \in Reports(ls) => Done(ls, k, i + 1) = N \cup {s} /\ Later(s, N)
        /\ s \notin Reports(ls) => Done(ls, k, i + 1) = N
    BY <2>1, DoneNext
  <2>6. CASE s \in Reports(ls)
    <3> DEFINE r == ReportAt(ls, s)
    <3>1. r = devs[i + 1]
      BY DEF ReportAt
    <3>2. N \in SUBSET (Nat \X Nat) /\ IsFiniteSet(N)
      <4>1. N \in SUBSET Reports(ls)
        BY DEF Done
      <4> QED BY <4>1, ReportsFacts
    <3>3. s \in Nat \X Nat /\ r.dev = DevOf(s)
      BY <2>6, ReportsFacts
    <3>4. g[i + 1] = writerow(g[i], r, e)
      BY <2>3, <2>4, <2>6, <3>1
    <3>5. r = ReportAt(ls, s)
      OBVIOUS
    <3> HIDE DEF r, s, N
    <3>6. Good(g[i + 1], ls, N \cup {s}, e)
      BY <2>2, <2>5, <2>6, <3>2, <3>3, <3>4, <3>5, GoodOne
    <3> QED BY <2>5, <2>6, <3>6
  <2>7. CASE s \notin Reports(ls)
    BY <2>2, <2>3, <2>4, <2>5, <2>7
  <2> QED BY <2>6, <2>7
<1>5. Nat \subseteq S
  <2> HIDE DEF S
  <2> QED BY <1>3, <1>4, NatSetInduction
<1>6. Len(BaseNames) \in S
  BY <1>5, NamesAssumption
<1>7. Good(g[Len(BaseNames)], ls, Done(ls, k, Len(BaseNames)), e)
  BY <1>6, NamesAssumption
<1> QED BY <1>2, <1>7, DoneLine

\* And so does an execution over the lines after the first off.
LEMMA GoodRun ==
  ASSUME NEW ls, Len(ls) \in Nat, NEW off \in Nat, NEW xs, Len(xs) \in Nat,
         off + Len(xs) <= Len(ls), \A j \in 1 .. Len(xs) : xs[j] = ls[off + j],
         NEW e, Good(Opened(e), ls, Done(ls, off, 0), e)
  PROVE  Good(se2csv(e, xs), ls, Done(ls, off + Len(xs), 0), e)
<1>1. PICK g : LineSteps(g, e, xs)
  BY Se2csvSteps
<1>2. /\ g[0] = Opened(e) /\ g[Len(xs)] = se2csv(e, xs)
      /\ \A j \in 1 .. Len(xs) : g[j] = writerows(g[j - 1], xs[j], e)
  BY <1>1 DEF LineSteps
<1> DEFINE S == {j \in Nat : j <= Len(xs) => Good(g[j], ls, Done(ls, off + j, 0), e)}
<1>3. 0 \in S
  BY <1>2
<1>4. ASSUME NEW j \in Nat, j \in S PROVE j + 1 \in S
  <2> SUFFICES ASSUME j + 1 <= Len(xs)
               PROVE  Good(g[j + 1], ls, Done(ls, off + (j + 1), 0), e)
    OBVIOUS
  <2> DEFINE k == off + j
             d == g[j]
  <2>1. /\ j <= Len(xs) /\ j + 1 \in 1 .. Len(xs) /\ (j + 1) - 1 = j
        /\ k \in Nat /\ k + 1 \in 1 .. Len(ls) /\ off + (j + 1) = k + 1
    OBVIOUS
  <2>2. Good(d, ls, Done(ls, k, 0), e)
    BY <1>4, <2>1
  <2>3. g[j + 1] = writerows(d, ls[k + 1], e)
    BY <1>2, <2>1
  <2> HIDE DEF k, d
  <2>4. Good(writerows(d, ls[k + 1], e), ls, Done(ls, k + 1, 0), e)
    BY <2>1, <2>2, GoodLine
  <2> QED BY <2>1, <2>3, <2>4
<1>5. Nat \subseteq S
  <2> HIDE DEF S
  <2> QED BY <1>3, <1>4, NatSetInduction
<1>6. Len(xs) \in S
  BY <1>5
<1> QED BY <1>2, <1>6

-----------------------------------------------------------------------------
(* What the executions leave. *)

\* The first execution begins with no files and no reports.
LEMMA GoodOpened ==
  ASSUME NEW ls, Len(ls) \in Nat, NEW headers, NEW e, e = Execution(FALSE, headers, <<>>)
  PROVE  Good(Opened(e), ls, Done(ls, 0, 0), e)
<1> DEFINE c == Opened(e)
<1>1. /\ DOMAIN c = {"columns", "files", "raised"} /\ c.raised = FALSE
      /\ c.columns = <<>> /\ c.files = <<>>
  BY DEF Opened, Execution
<1> HIDE DEF c
<1>2. DOMAIN c.columns = {} /\ DOMAIN c.files = {}
  BY <1>1
<1>3. HeadsFrom(c, e)
  BY <1>2 DEF HeadsFrom, c
<1>4. Done(ls, 0, 0) = {}
  BY ReportsFacts DEF Done
<1>5. \A dev : Rows(c, dev) = <<>>
  BY <1>2 DEF Rows
<1>6. \A dev : OfType({}, dev) = {}
  BY DEF OfType
<1>7. <<>> \in Seq(Range(<<>>)) /\ Len(<<>>) = 0 /\ Cardinality({}) = 0
  BY FS_EmptySet, EmptySeq
<1>8. Wrote(c, ls, {})
  BY <1>5, <1>6, <1>7 DEF Wrote
<1>9. Sound(c, e) /\ FirstOf({}, {})
  BY <1>1, <1>2 DEF Sound, FirstOf
<1>10. Even(c, ls)
  BY <1>1, <1>2, <1>5, <1>7 DEF Even
<1>11. Good(c, ls, {}, e)
  BY <1>3, <1>8, <1>9, <1>10 DEF Good
<1> QED BY <1>4, <1>11 DEF c

\* One with -a begins with the files and the reports of the one before, if it did not raise.
LEMMA GoodAgain ==
  ASSUME NEW ls, Uniform(ls), NEW N, NEW c, NEW b, Good(c, ls, N, b),
         NEW headers, NEW e, e = Execution(TRUE, headers, c.files)
  PROVE  Good(Opened(e), ls, N, e)
<1> DEFINE d == Opened(e)
<1>1. Even(c, ls) /\ Sound(c, b)
  BY DEF Good
<1>2. Wrote(c, ls, N)
  BY <1>1 DEF Good, Even
<1>3. /\ DOMAIN d = {"columns", "files", "raised"} /\ d.raised = FALSE
      /\ d.columns = <<>> /\ d.files = c.files /\ e.append = TRUE
  BY DEF Opened, Execution
<1> HIDE DEF d
<1>4. DOMAIN d.columns = {}
  BY <1>3
<1>5. HeadsFrom(d, e)
  BY <1>4 DEF HeadsFrom, d
<1>6. \A dev : Rows(d, dev) = Rows(c, dev)
  BY <1>3 DEF Rows
<1>7. Wrote(d, ls, N)
  BY <1>2, <1>6 DEF Wrote
<1>8. Sound(d, e) /\ FirstOf(N, N)
  BY <1>1, <1>3 DEF Sound, FirstOf
<1>9. Even(d, ls)
  BY <1>1, <1>3, <1>4, <1>6 DEF Even
<1>10. Good(d, ls, N, e)
  BY <1>5, <1>7, <1>8, <1>9 DEF Good
<1> QED BY <1>10 DEF d

\* Where a report is among all, when the rows are of the first of them.
LEMMA PlaceAmongAll ==
  ASSUME NEW all \in SUBSET (Nat \X Nat), IsFiniteSet(all), NEW T, FirstOf(T, all), NEW r \in all
  PROVE  /\ r \in T => Place(all, r) = Place(T, r)
         /\ r \notin T => Place(all, r) > Cardinality(OfType(T, DevOf(r)))
<1> DEFINE dev == DevOf(r)
           U == OfType(T, dev)
           Q == {q \in OfType(all, dev) : NotAfter(q, r)}
<1>1. T \subseteq all /\ \A q \in T, p \in all : NotAfter(p, q) => p \in T
  BY DEF FirstOf
<1>2. ASSUME r \in T PROVE Place(all, r) = Place(T, r)
  <2>1. Q = {q \in U : NotAfter(q, r)}
    BY <1>1, <1>2 DEF OfType
  <2> QED BY <2>1 DEF Place
<1>3. ASSUME r \notin T PROVE Place(all, r) > Cardinality(U)
  <2>1. ASSUME NEW q \in T PROVE NotAfter(q, r)
    <3>1. ~NotAfter(r, q)
      BY <1>1, <1>3
    <3>2. q[1] \in Nat /\ q[2] \in Nat /\ r[1] \in Nat /\ r[2] \in Nat
      BY <1>1
    <3> QED BY <3>1, <3>2 DEF NotAfter
  <2>2. NotAfter(r, r)
    BY DEF NotAfter
  <2>3. U \cup {r} \subseteq Q /\ r \notin U /\ U \subseteq all /\ Q \subseteq all
    BY <1>1, <1>3, <2>1, <2>2 DEF OfType
  <2>4. Place(all, r) = Cardinality(Q)
    BY DEF Place
  <2> HIDE DEF U, Q
  <2>5. IsFiniteSet(U) /\ IsFiniteSet(Q)
    BY <2>3, FS_Subset
  <2>6. Cardinality(U \cup {r}) = Cardinality(U) + 1
    BY <2>3, <2>5, FS_AddElement
  <2>7. Cardinality(U \cup {r}) <= Cardinality(Q)
    BY <2>3, <2>5, FS_Subset
  <2>8. Cardinality(U) \in Nat /\ Cardinality(Q) \in Nat
    BY <2>5, FS_CardinalityType
  <2> QED BY <2>4, <2>6, <2>7, <2>8
<1> QED BY <1>2, <1>3

\* Once all reports have been met, the files are as they are promised to be.
LEMMA GoodConverted ==
  ASSUME NEW ls, Len(ls) \in Nat, NEW c, NEW e, Good(c, ls, Done(ls, Len(ls), 0), e)
  PROVE  /\ Converted(c, ls)
         /\ Uniform(ls) => c.raised = FALSE /\ Aligned(c)
<1> DEFINE all == Reports(ls)
<1>1. Done(ls, Len(ls), 0) = all
  <2>1. \A r \in all : r[1] <= Len(ls)
    BY ReportsFacts
  <2> QED BY <2>1 DEF Done
<1>2. all \in SUBSET (Nat \X Nat) /\ IsFiniteSet(all)
  BY ReportsFacts
<1>3. /\ Sound(c, e)
      /\ Uniform(ls) => Even(c, ls)
  BY DEF Good
<1>4. PICK T : FirstOf(T, all) /\ Wrote(c, ls, T) /\ (c.raised = FALSE => T = all)
  BY <1>1 DEF Good
<1>5. T \subseteq all
  BY <1>4 DEF FirstOf
<1>6. \A dev : /\ Rows(c, dev) \in Seq(Range(Rows(c, dev)))
               /\ Len(Rows(c, dev)) = Cardinality(OfType(T, dev))
  BY <1>4 DEF Wrote
<1>7. ASSUME NEW dev
      PROVE  /\ Len(Rows(c, dev)) <= Cardinality(OfType(all, dev))
             /\ ~c.raised => Len(Rows(c, dev)) = Cardinality(OfType(all, dev))
  <2>1. OfType(T, dev) \subseteq OfType(all, dev) /\ OfType(all, dev) \subseteq all
    BY <1>5 DEF OfType
  <2>2. Cardinality(OfType(T, dev)) <= Cardinality(OfType(all, dev))
    BY <1>2, <2>1, FS_Subset
  <2>3. ~c.raised => c.raised = FALSE
    BY <1>3 DEF Sound
  <2> QED BY <1>4, <1>6, <2>2, <2>3
<1>8. ASSUME NEW r \in all, Place(all, r) <= Len(Rows(c, DevOf(r)))
      PROVE  SaysOf(Rows(c, DevOf(r))[Place(all, r)], ReportAt(ls, r))
  <2>1. /\ r \in T => Place(all, r) = Place(T, r)
        /\ r \notin T => Place(all, r) > Cardinality(OfType(T, DevOf(r)))
    BY <1>2, <1>4, PlaceAmongAll
  <2>2. Cardinality(OfType(T, DevOf(r))) \in Nat
    <3>1. OfType(T, DevOf(r)) \subseteq all
      BY <1>5 DEF OfType
    <3> QED BY <1>2, <3>1, FS_Subset, FS_CardinalityType
  <2>3. Place(all, r) \in Nat
    BY <1>2, PlaceFacts
  <2>4. r \in T
    BY <1>6, <1>8, <2>1, <2>2, <2>3
  <2> QED BY <1>4, <2>1, <2>4 DEF Wrote
<1>9. Converted(c, ls)
  BY <1>7, <1>8 DEF Converted
<1>10. ASSUME Uniform(ls) PROVE c.raised = FALSE /\ Aligned(c)
  <2>1. Even(c, ls)
    BY <1>3, <1>10
  <2>2. ASSUME NEW dev \in DOMAIN c.files, NEW i \in DOMAIN Rows(c, dev)
        PROVE  Rows(c, dev)[i].columns = Rows(c, dev)[1].columns
    <3> DEFINE rows == Rows(c, dev)
    <3>1. rows = Rows(c, dev)
      OBVIOUS
    <3>2. rows \in Seq(Range(rows)) /\ Len(rows) = Cardinality(OfType(T, dev))
      BY <1>6
    <3>3. OfType(T, dev) # {}
      <4>1. DOMAIN rows # {} /\ DOMAIN rows = 1 .. Len(rows)
        BY <3>1, <3>2, LenProperties
      <4>2. Len(rows) # 0
        BY <4>1
      <4> QED BY <3>2, <4>2, FS_EmptySet
    <3>4. PICK r \in all : DevOf(r) = dev
      BY <1>5, <3>3 DEF OfType
    <3>5. \A n \in 1 .. Len(rows) : rows[n].columns = DOMAIN ReportAt(ls, r).attrs
      BY <2>1, <3>4 DEF Even
    <3> HIDE DEF rows
    <3>6. i \in 1 .. Len(rows) /\ 1 \in 1 .. Len(rows)
      <4>1. i \in 1 .. Len(rows) /\ Len(rows) \in Nat
        BY <3>1, <3>2, LenProperties
      <4> QED BY <4>1
    <3> QED BY <3>1, <3>5, <3>6
  <2> QED BY <2>1, <2>2 DEF Even, Aligned
<1> QED BY <1>9, <1>10

\* Where the names of the columns are after the first execution, and after one with -a on
\* its files.
LEMMA FirstHeaded ==
  ASSUME NEW headers \in BOOLEAN, NEW e, e = Execution(FALSE, headers, <<>>),
         NEW c, Sound(c, e), HeadsFrom(c, e), \A dev : Len(Rows(c, dev)) \in Nat
  PROVE  /\ Headed(c, Opened(e), headers)
         /\ \A dev : IF dev \in DOMAIN c.files
                     THEN /\ Len(Rows(c, dev)) > 0
                          /\ Heads(c, dev) = IF headers THEN {0} ELSE {}
                     ELSE Len(Rows(c, dev)) = 0 /\ Heads(c, dev) = {}
<1>1. e.append = FALSE /\ e.headers = headers /\ DOMAIN Opened(e).files = {}
  BY DEF Execution, Opened
<1>2. \A dev : Rows(Opened(e), dev) = <<>> /\ Heads(Opened(e), dev) = {}
  BY <1>1 DEF Rows, Heads
<1>5. ASSUME NEW dev PROVE Len(Rows(Opened(e), dev)) = 0
  <2>1. Rows(Opened(e), dev) = <<>>
    BY <1>2
  <2>2. Len(<<>>) = 0
    OBVIOUS
  <2> QED BY <2>1, <2>2
<1>3. ASSUME NEW dev
      PROVE  IF dev \in DOMAIN c.files
             THEN Len(Rows(c, dev)) > 0 /\ Heads(c, dev) = IF headers THEN {0} ELSE {}
             ELSE Len(Rows(c, dev)) = 0 /\ Heads(c, dev) = {}
  <2>1. CASE dev \in DOMAIN c.files
    <3>1. dev \in DOMAIN c.columns
      BY <1>1, <2>1 DEF Sound
    <3>2. /\ Heads(c, dev) = Heads(Opened(e), dev)
                                \cup IF e.headers THEN {Len(Rows(Opened(e), dev))} ELSE {}
          /\ Len(Rows(Opened(e), dev)) < Len(Rows(c, dev))
      BY <3>1 DEF HeadsFrom
    <3>3. Len(Rows(Opened(e), dev)) = 0
      BY <1>5
    <3> QED BY <1>1, <1>2, <2>1, <3>2, <3>3
  <2>2. CASE dev \notin DOMAIN c.files
    BY <2>2 DEF Rows, Heads
  <2> QED BY <2>1, <2>2
<1>4. ASSUME NEW dev \in DOMAIN c.files
      PROVE  c.files[dev].heads = IF headers THEN {n \in {0, Len(Rows(Opened(e), dev))} :
                                                     n < Len(Rows(c, dev))} ELSE {}
  <2>1. c.files[dev].heads = IF headers THEN {0} ELSE {}
    BY <1>3 DEF Heads
  <2>2. Len(Rows(Opened(e), dev)) = 0
    BY <1>5
  <2>3. Len(Rows(c, dev)) > 0 /\ Len(Rows(c, dev)) \in Nat
    BY <1>3
  <2> DEFINE l == Len(Rows(c, dev))
             z == Len(Rows(Opened(e), dev))
  <2> HIDE DEF l, z
  <2>4. {n \in {0, z} : n < l} = {0}
    BY <2>2, <2>3 DEF l, z
  <2> QED BY <2>1, <2>4 DEF l, z
<1> QED BY <1>3, <1>4 DEF Headed

\* After the second, they are in front of its rows as well.
LEMMA SecondHeaded ==
  ASSUME NEW headers \in BOOLEAN, NEW b, NEW e, e = Execution(TRUE, headers, b.files),
         \A dev : Len(Rows(b, dev)) \in Nat,
         \A dev : IF dev \in DOMAIN b.files
                  THEN Len(Rows(b, dev)) > 0 /\ Heads(b, dev) = IF headers THEN {0} ELSE {}
                  ELSE Len(Rows(b, dev)) = 0 /\ Heads(b, dev) = {},
         NEW c, HeadsFrom(c, e), \A dev : Len(Rows(c, dev)) \in Nat
  PROVE  Headed(c, b, headers)
<1>1. e.headers = headers /\ Opened(e).files = b.files
  BY DEF Execution, Opened
<1>2. \A dev : Rows(Opened(e), dev) = Rows(b, dev) /\ Heads(Opened(e), dev) = Heads(b, dev)
  BY <1>1 DEF Rows, Heads
<1>3. ASSUME NEW dev \in DOMAIN c.files
      PROVE  c.files[dev].heads = IF headers THEN {n \in {0, Len(Rows(b, dev))} :
                                                     n < Len(Rows(c, dev))} ELSE {}
  <2> DEFINE l == Len(Rows(c, dev))
             z == Len(Rows(b, dev))
             h == Heads(c, dev)
             g == Heads(b, dev)
  <2>1. c.files[dev].heads = h
    BY DEF Heads
  <2>2. \/ l = z /\ h = g
        \/ z < l /\ h = g \cup IF headers THEN {z} ELSE {}
    <3>1. CASE dev \in DOMAIN c.columns
      <4>1. /\ Heads(c, dev) = Heads(Opened(e), dev)
                                  \cup IF e.headers THEN {Len(Rows(Opened(e), dev))} ELSE {}
            /\ Len(Rows(Opened(e), dev)) < Len(Rows(c, dev))
        BY <3>1 DEF HeadsFrom
      <4> QED BY <1>1, <1>2, <4>1
    <3>2. CASE dev \notin DOMAIN c.columns
      BY <1>2, <3>2 DEF HeadsFrom
    <3> QED BY <3>1, <3>2
  <2>3. l \in Nat /\ z \in Nat
    OBVIOUS
  <2>4. \/ z > 0 /\ g = IF headers THEN {0} ELSE {}
        \/ z = 0 /\ g = {}
    OBVIOUS
  <2> HIDE DEF l, z, h, g
  <2>5. h = IF headers THEN {n \in {0, z} : n < l} ELSE {}
    <3>1. CASE ~headers
      BY <2>2, <2>4, <3>1
    <3>2. CASE headers
      <4>1. CASE l = z /\ h = g
        <5>1. CASE z > 0
          <6>1. {n \in {0, z} : n < l} = {0}
            BY <2>3, <4>1, <5>1
          <6> QED BY <2>3, <2>4, <3>2, <4>1, <5>1, <6>1
        <5>2. CASE z = 0
          <6>1. {n \in {0, z} : n < l} = {}
            BY <2>3, <4>1, <5>2
          <6> QED BY <2>3, <2>4, <3>2, <4>1, <5>2, <6>1
        <5> QED BY <2>3, <5>1, <5>2
      <4>2. CASE z < l /\ h = g \cup IF headers THEN {z} ELSE {}
        <5>1. {n \in {0, z} : n < l} = {0, z}
          BY <2>3, <4>2
        <5>2. g \cup {z} = {0, z}
          BY <2>3, <2>4, <3>2
        <5> QED BY <3>2, <4>2, <5>1, <5>2
      <4> QED BY <2>2, <4>1, <4>2
    <3> QED BY <3>1, <3>2
  <2> QED BY <2>1, <2>5 DEF l, z
<1> QED BY <1>3 DEF Headed

\* What there is after an execution that is good.
LEMMA GoodLengths ==
  ASSUME NEW ls, Len(ls) \in Nat, NEW k \in Nat, NEW c, NEW e, Good(c, ls, Done(ls, k, 0), e)
  PROVE  /\ Sound(c, e) /\ HeadsFrom(c, e)
         /\ \A dev : Len(Rows(c, dev)) \in Nat
<1>1. PICK T : Wrote(c, ls, T)
  BY DEF Good
<1>2. \A dev : Rows(c, dev) \in Seq(Range(Rows(c, dev)))
  BY <1>1 DEF Wrote
<1> QED BY <1>2, LenProperties DEF Good

\* One execution, and two of which the second appends.
LEMMA CsvOfLines ==
  ASSUME NEW ls, ls \in Seq(Range(ls)), NEW headers \in BOOLEAN
  PROVE  LET begun == Execution(FALSE, headers, <<>>)
             one   == se2csv(begun, ls)
         IN  /\ Converted(one, ls) /\ Headed(one, Opened(begun), headers)
             /\ Uniform(ls) =>
                  /\ one.raised = FALSE
                  /\ \A k \in 0 .. Len(ls) :
                       LET first == se2csv(begun, SubSeq(ls, 1, k))
                           both  == se2csv(Execution(TRUE, headers, first.files),
                                           SubSeq(ls, k + 1, Len(ls)))
                       IN  Converted(both, ls) /\ Aligned(both) /\ Headed(both, first, headers)
<1> DEFINE L == Len(ls)
           begun == Execution(FALSE, headers, <<>>)
           one == se2csv(begun, ls)
<1>1. L \in Nat
  BY LenProperties
<1>2. Good(Opened(begun), ls, Done(ls, 0, 0), begun)
  BY <1>1, GoodOpened
<1>3. begun = Execution(FALSE, headers, <<>>)
  OBVIOUS
<1> HIDE DEF begun
<1>4. Good(one, ls, Done(ls, L, 0), begun)
  <2> DEFINE z == 0
  <2>1. z \in Nat /\ z + Len(ls) <= Len(ls) /\ z + Len(ls) = L
        /\ \A j \in 1 .. Len(ls) : ls[j] = ls[z + j]
    BY <1>1
  <2>2. Good(Opened(begun), ls, Done(ls, z, 0), begun)
    BY <1>2
  <2> HIDE DEF z
  <2>3. Good(one, ls, Done(ls, z + Len(ls), 0), begun)
    BY <1>1, <2>1, <2>2, GoodRun
  <2> QED BY <2>1, <2>3
<1>5. Converted(one, ls) /\ (Uniform(ls) => one.raised = FALSE)
  BY <1>1, <1>4, GoodConverted
<1>6. Headed(one, Opened(begun), headers)
  <2>1. Sound(one, begun) /\ HeadsFrom(one, begun) /\ \A dev : Len(Rows(one, dev)) \in Nat
    BY <1>1, <1>4, GoodLengths
  <2> HIDE DEF one
  <2> QED BY <1>3, <2>1, FirstHeaded
<1>7. ASSUME Uniform(ls), NEW k \in 0 .. L
      PROVE  LET first == se2csv(begun, SubSeq(ls, 1, k))
                 both  == se2csv(Execution(TRUE, headers, first.files), SubSeq(ls, k + 1, L))
             IN  Converted(both, ls) /\ Aligned(both) /\ Headed(both, first, headers)
  <2> DEFINE xs == SubSeq(ls, 1, k)
             ys == SubSeq(ls, k + 1, L)
             first == se2csv(begun, xs)
             e == Execution(TRUE, headers, first.files)
             both  == se2csv(e, ys)
             z == 0
  <2>1. Len(xs) = k /\ \A j \in 1 .. k : xs[j] = ls[j]
    BY <1>1
  <2>2. Len(ys) = L - k /\ \A j \in 1 .. L - k : ys[j] = ls[k + j]
    BY <1>1
  <2> HIDE DEF xs, ys, L
  <2>3. /\ k \in Nat /\ k <= L /\ L - k \in Nat /\ z \in Nat
        /\ z + k = k /\ k + (L - k) = L /\ \A j \in 1 .. k : z + j = j
    BY <1>1, <1>7
  <2> HIDE DEF z
  <2>4. Good(first, ls, Done(ls, k, 0), begun)
    <3>1. /\ Len(ls) \in Nat /\ Len(xs) \in Nat /\ z + Len(xs) <= Len(ls)
          /\ \A j \in 1 .. Len(xs) : xs[j] = ls[z + j]
      BY <1>1, <2>1, <2>3 DEF L
    <3>2. Good(Opened(begun), ls, Done(ls, z, 0), begun)
      BY <1>2 DEF z
    <3>3. Good(first, ls, Done(ls, z + Len(xs), 0), begun)
      BY <2>3, <3>1, <3>2, GoodRun
    <3> QED BY <2>1, <2>3, <3>3
  <2>5. e = Execution(TRUE, headers, first.files)
    OBVIOUS
  <2> HIDE DEF first, e
  <2>6. Good(Opened(e), ls, Done(ls, k, 0), e)
    BY <1>7, <2>4, <2>5, GoodAgain
  <2>7. Good(both, ls, Done(ls, L, 0), e)
    <3>1. /\ Len(ls) \in Nat /\ Len(ys) \in Nat /\ k + Len(ys) <= Len(ls)
          /\ \A j \in 1 .. Len(ys) : ys[j] = ls[k + j]
      <4> HIDE DEF both
      <4>1. Len(ls) = L
        BY DEF L
      <4> HIDE DEF begun, one
      <4>2. Len(ls) \in Nat /\ Len(ys) \in Nat /\ k + Len(ys) <= Len(ls)
        <5>1. Len(ys) = L - k
          BY <2>2
        <5>2. L \in Nat /\ k + (L - k) <= L
          BY <1>1, <2>3, <4>1
        <5> QED BY ONLY <2>3, <4>1, <5>1, <5>2
      <4>3. \A j \in 1 .. Len(ys) : ys[j] = ls[k + j]
        BY ONLY <2>2, Zenon
      <4> QED BY ONLY <4>2, <4>3
    <3>2. k + Len(ys) = L
      BY <2>2, <2>3
    <3>3. Good(both, ls, Done(ls, k + Len(ys), 0), e)
      BY <2>3, <2>6, <3>1, GoodRun
    <3> QED BY <3>2, <3>3
  <2> HIDE DEF both
  <2>8. Converted(both, ls) /\ Aligned(both)
    BY <1>1, <1>7, <2>7, GoodConverted DEF L
  <2>9. Headed(both, first, headers)
    <3>1. Sound(first, begun) /\ HeadsFrom(first, begun) /\ \A dev : Len(Rows(first, dev)) \in Nat
      BY <1>1, <2>3, <2>4, GoodLengths DEF L
    <3>2. HeadsFrom(both, e) /\ \A dev : Len(Rows(both, dev)) \in Nat
      BY <1>1, <2>7, GoodLengths DEF L
    <3>3. \A dev : IF dev \in DOMAIN first.files
                   THEN /\ Len(Rows(first, dev)) > 0
                        /\ Heads(first, dev) = IF headers THEN {0} ELSE {}
                   ELSE Len(Rows(first, dev)) = 0 /\ Heads(first, dev) = {}
      BY <1>3, <3>1, FirstHeaded
    <3> QED BY <2>5, <3>1, <3>2, <3>3, SecondHeaded
  <2> QED BY <2>8, <2>9 DEF both, first, e, xs, ys, L
<1> QED BY <1>5, <1>6, <1>7 DEF begun

-----------------------------------------------------------------------------
(* What the attributes of a report are. *)

\* Records of one kind have the same fields, but for inverters with one and three phases.
LEMMA SameFields ==
  ASSUME NEW m \in Messages, NEW j \in 1 .. Len(m), NEW n \in Messages, NEW i \in 1 .. Len(n),
         Kind(m[j]) = Kind(n[i]), Kind(m[j]) \in OwnLevel,
         Kind(m[j]) = "inverters" => m[j].type = n[i].type
  PROVE  DOMAIN m[j].val = DOMAIN n[i].val
<1> DEFINE a == m[j]
           b == n[i]
<1>1. ASSUME m[j].type \in {"inv3"} \cup Events, n[i].type = m[j].type
      PROVE  DOMAIN m[j].val = DOMAIN n[i].val
  <2>1. \A p \in Messages : \A k \in 1 .. Len(p) :
          p[k].type = m[j].type => DOMAIN p[k].val = DOMAIN m[j].val
    BY <1>1, FieldsAssumption, Zenon
  <2> QED BY <1>1, <2>1
<1>2. \A r : /\ Kind(r) = "inverters" => r.type \in {"inv", "inv3"}
             /\ Kind(r) = "optimizers" => r.type \in Optimizers
             /\ Kind(r) = "events" => r.type = "event"
  BY DEF Kind, Inverters, Optimizers, Events
<1>3. CASE Kind(a) = "inverters"
  <2>1. a.type = b.type /\ a.type \in {"inv", "inv3"}
    BY <1>2, <1>3
  <2>2. CASE a.type = "inv"
    <3>1. DOMAIN a.val = State!SinglePhase /\ DOMAIN b.val = State!SinglePhase
      BY <2>1, <2>2, FieldsAssumption
    <3> QED BY <3>1
  <2>3. CASE a.type = "inv3"
    <3>1. b.type = a.type /\ a.type \in {"inv3"} \cup Events
      BY <2>1, <2>3
    <3> QED BY <1>1, <3>1
  <2> QED BY <2>1, <2>2, <2>3
<1>4. CASE Kind(a) = "optimizers"
  <2>1. a.type \in Optimizers /\ b.type \in Optimizers
    BY <1>2, <1>4
  <2>2. \A r \in Messages : \A e \in 1 .. Len(r) :
          r[e].type \in Optimizers => DOMAIN r[e].val = {"Vmod", "Vopt", "Imod", "Temp"}
    BY FieldsAssumption, Zenon
  <2> QED BY <2>1, <2>2
<1>5. CASE Kind(a) = "events"
  <2>1. b.type = a.type /\ a.type \in {"inv3"} \cup Events
    BY <1>2, <1>5 DEF Events
  <2> QED BY <1>1, <2>1
<1> QED BY <1>3, <1>4, <1>5 DEF OwnLevel

\* What se2csv.py has a type of device for is Classes and Others, or one of these.
LEMMA DeviceFacts ==
  \A r : /\ Kind(r) = "devices" => Device(r) = r.type
         /\ Kind(r) # "devices" => Device(r) = Kind(r) /\ Kind(r) \in OwnLevel
         /\ Kind(r) = "inverters" => r.type = "inv" \/ r.type = "inv3"
BY DEF Device, Kind, OwnLevel, Inverters, Optimizers, Events

\* The attributes of a report that is made of record i of message m, and what is next to it.
ReportedAs(m, i, attrs) ==
  IF Kind(m[i]) = "devices"
  THEN m[i].type \notin OwnLevel /\ DOMAIN attrs = IF Unlike(m, i) THEN {"value", "rest"} ELSE {"value"}
  ELSE DOMAIN attrs = DOMAIN m[i].val

\* A report is of the last record with its name.
LEMMA ReportOf ==
  ASSUME TypeOK, LinesReport, LinesShaped, NEW q \in Reports(lines)
  PROVE  \E k \in 1 .. Len(accepted) : \E i \in Reported(accepted[k]) :
           /\ accepted[k] \in Messages
           /\ Device(accepted[k][i]) = DevOf(q)
           /\ ReportedAs(accepted[k], i, ReportAt(lines, q).attrs)
<1>1. Len(lines) \in Nat /\ Len(lines) = Len(accepted)
  BY LenProperties DEF TypeOK
<1>2. PICK k \in 1 .. Len(lines) : \E i \in DOMAIN unwrap_metricsDict(lines[k]) : q = <<k, i>>
  BY DEF Reports
<1> DEFINE name == BaseNames[q[2]]
           line == lines[k]
           m == accepted[k]
<1>3. Has(line, name) /\ ReportAt(lines, q).attrs = Attributes(line, name) /\ DevOf(q) = Head(name)
  <2>1. q[1] = k /\ q[2] \in DOMAIN unwrap_metricsDict(line)
    BY <1>2
  <2> QED BY <2>1 DEF unwrap_metricsDict, ReportAt, DevOf
<1>4. m \in Messages /\ k \in 1 .. Len(accepted)
  BY <1>1, AcceptedMessages
<1>5. Says(line, m, Len(m)) /\ Shaped(line, m, Len(m))
  BY DEF LinesReport, LinesShaped
<1> HIDE DEF name, line, m
<1>6. ASSUME NEW kind \in Kinds, NEW key \in DOMAIN line[kind]
      PROVE  \E i \in Reported(m) : /\ Kind(m[i]) = kind /\ Key(m[i]) = key
                                     /\ Shows(kind, line[kind][key], m[i])
  <2>1. PICK i \in 1 .. Len(m) : LastOf(m, Len(m), kind, key, i) /\ Shows(kind, line[kind][key], m[i])
    BY <1>5 DEF Says
  <2>2. i \in Reported(m)
    BY <2>1 DEF LastOf, Reported
  <2> QED BY <2>1, <2>2 DEF LastOf
<1>7. CASE Head(name) \in OwnLevel
  <2> DEFINE kind == Head(name)
             key == name[2]
  <2>1. key \in DOMAIN line[kind] /\ Attributes(line, name) = line[kind][key]
    BY <1>3, <1>7 DEF Has, Attributes
  <2>2. kind \in Kinds /\ kind # "devices"
    BY <1>7 DEF OwnLevel, Kinds
  <2> HIDE DEF kind, key
  <2>3. PICK i \in Reported(m) : Kind(m[i]) = kind /\ Shows(kind, line[kind][key], m[i])
    BY <1>6, <2>1, <2>2
  <2>4. line[kind][key] = Plain(m[i]) /\ Kind(m[i]) # "devices"
    BY <2>2, <2>3 DEF Shows
  <2>5. DOMAIN Plain(m[i]) = DOMAIN m[i].val
    BY DEF Plain
  <2>6. Device(m[i]) = kind
    BY <2>3, <2>4, DeviceFacts
  <2>7. ReportedAs(m, i, Attributes(line, name))
    BY <2>1, <2>4, <2>5 DEF ReportedAs
  <2> QED BY <1>3, <1>4, <2>6, <2>7 DEF m, kind
<1>8. CASE Head(name) \notin OwnLevel
  <2>1. name \in DOMAIN line["devices"] /\ Attributes(line, name) = line["devices"][name]
    BY <1>3, <1>8 DEF Has, Attributes
  <2>2. name[1] \in Classes \cup Others /\ EntryFrom(line["devices"][name], name, m, Len(m))
    BY <1>5, <2>1 DEF Shaped
  <2>3. Head(name) = name[1]
    OBVIOUS
  <2>4. PICK i \in Reported(m) : Kind(m[i]) = "devices" /\ Key(m[i]) = name
    BY <1>6, <2>1 DEF Kinds
  <2>5. Device(m[i]) = m[i].type /\ m[i].type = name[1]
    BY <2>4, DeviceFacts DEF Key
  <2>6. LongUnder(m, Len(m), name) <=> Unlike(m, i)
    BY <2>4 DEF LongUnder, Unlike
  <2>7. DOMAIN Attributes(line, name) = IF Unlike(m, i) THEN {"value", "rest"} ELSE {"value"}
    <3>1. Attributes(line, name) = line["devices"][name]
      BY <2>1
    <3>2. ASSUME NEW v, EntryFrom(v, name, m, Len(m))
          PROVE  DOMAIN v = IF Unlike(m, i) THEN {"value", "rest"} ELSE {"value"}
      BY <2>6, <3>2 DEF EntryFrom
    <3> QED BY <2>2, <3>1, <3>2
  <2>8. ReportedAs(m, i, Attributes(line, name))
    BY <1>8, <2>3, <2>4, <2>5, <2>7 DEF ReportedAs
  <2> QED BY <1>3, <1>4, <2>3, <2>5, <2>8 DEF m
<1> QED BY <1>7, <1>8

\* Two reports of a type differ in their attributes only if the records are mixed.
LEMMA UniformLines ==
  ASSUME TypeOK, LinesReport, LinesShaped, ~Mixed
  PROVE  Uniform(lines)
<1> SUFFICES ASSUME NEW q \in Reports(lines), NEW p \in Reports(lines), DevOf(q) = DevOf(p)
             PROVE  DOMAIN ReportAt(lines, q).attrs = DOMAIN ReportAt(lines, p).attrs
  BY DEF Uniform
<1> DEFINE A == ReportAt(lines, q).attrs
           B == ReportAt(lines, p).attrs
<1>1. PICK k \in 1 .. Len(accepted) : \E i \in Reported(accepted[k]) :
        /\ accepted[k] \in Messages
        /\ Device(accepted[k][i]) = DevOf(q)
        /\ ReportedAs(accepted[k], i, A)
  BY ReportOf
<1>2. PICK l \in 1 .. Len(accepted) : \E j \in Reported(accepted[l]) :
        /\ accepted[l] \in Messages
        /\ Device(accepted[l][j]) = DevOf(p)
        /\ ReportedAs(accepted[l], j, B)
  BY ReportOf
<1> DEFINE m == accepted[k]
           n == accepted[l]
<1>3. PICK i \in Reported(m) : m \in Messages /\ Device(m[i]) = DevOf(q) /\ ReportedAs(m, i, A)
  BY <1>1
<1>4. PICK j \in Reported(n) : n \in Messages /\ Device(n[j]) = DevOf(p) /\ ReportedAs(n, j, B)
  BY <1>2
<1>5. Unlike(m, i) = Unlike(n, j)
  BY <1>3, <1>4 DEF Mixed
<1> HIDE DEF m, n, A, B
<1>6. i \in 1 .. Len(m) /\ j \in 1 .. Len(n)
  BY DEF Reported
<1>7. Device(m[i]) = Device(n[j])
  BY <1>3, <1>4
<1>8. DOMAIN A = DOMAIN B
  <2>1. CASE Kind(m[i]) = "devices" /\ Kind(n[j]) = "devices"
    BY <1>3, <1>4, <1>5, <2>1 DEF ReportedAs
  <2>2. CASE Kind(m[i]) # "devices" /\ Kind(n[j]) # "devices"
    <3>1. Kind(m[i]) = Kind(n[j]) /\ Kind(m[i]) \in OwnLevel
      BY <1>7, <2>2, DeviceFacts
    <3>2. (m[i].type = "inv3") = (n[j].type = "inv3")
      BY <1>5, <2>2 DEF Unlike
    <3>3. Kind(m[i]) = "inverters" => m[i].type = n[j].type
      BY <3>1, <3>2, DeviceFacts
    <3>4. DOMAIN m[i].val = DOMAIN n[j].val
      BY <1>3, <1>4, <1>6, <3>1, <3>3, SameFields
    <3> QED BY <1>3, <1>4, <2>2, <3>4 DEF ReportedAs
  <2>3. CASE Kind(m[i]) = "devices" /\ Kind(n[j]) # "devices"
    BY <1>3, <1>7, <2>3, DeviceFacts DEF ReportedAs
  <2>4. CASE Kind(m[i]) # "devices" /\ Kind(n[j]) = "devices"
    BY <1>4, <1>7, <2>4, DeviceFacts DEF ReportedAs
  <2> QED BY <2>1, <2>2, <2>3, <2>4
<1> QED BY <1>8 DEF A, B

\* For any messages and names of devices, wherever the first of two executions ends, with
\* and without -t: the rows are the reports of the lines, in their order and each once, up to
\* where an execution raises; it raises only when two reports of a type differ in their
\* attributes, an inverter of three phases beside one of one, or an entry with a rest beside one
\* without.  When none do, two executions of which the second has -a give what one does, under
\* the same columns, but that with -t each has written the names of the columns in front of
\* its rows (se2csv.py:31-43, common.py:16-35, datadevices.py:214-223).
THEOREM CsvOfReports == SystemSpec => []CsvKeepsReports
<1>1. TypeOK /\ LinesReport /\ LinesShaped => CsvKeepsReports
  <2> SUFFICES ASSUME TypeOK, LinesReport, LinesShaped, NEW headers \in BOOLEAN
               PROVE  LET begun == Execution(FALSE, headers, <<>>)
                          one   == se2csv(begun, lines)
                      IN  /\ Converted(one, lines) /\ Headed(one, Opened(begun), headers)
                          /\ one.raised => Mixed
                          /\ ~Mixed => \A k \in 0 .. Len(lines) :
                               LET first == se2csv(begun, SubSeq(lines, 1, k))
                                   both  == se2csv(Execution(TRUE, headers, first.files),
                                                   SubSeq(lines, k + 1, Len(lines)))
                               IN  Converted(both, lines) /\ Aligned(both)
                                     /\ Headed(both, first, headers)
    BY DEF CsvKeepsReports
  <2>1. lines \in Seq(Range(lines))
    BY DEF TypeOK
  <2>2. ~Mixed => Uniform(lines)
    BY UniformLines
  <2> DEFINE ls == lines
             begun == Execution(FALSE, headers, <<>>)
             one == se2csv(begun, ls)
             first(k) == se2csv(begun, SubSeq(ls, 1, k))
             both(k) == se2csv(Execution(TRUE, headers, first(k).files), SubSeq(ls, k + 1, Len(ls)))
             Ends(k) == Converted(both(k), ls) /\ Aligned(both(k)) /\ Headed(both(k), first(k), headers)
  <2>3. /\ Converted(one, ls) /\ Headed(one, Opened(begun), headers)
        /\ Uniform(ls) => one.raised = FALSE /\ \A k \in 0 .. Len(ls) : Ends(k)
    BY <2>1, CsvOfLines
  <2> HIDE DEF one, Ends, begun
  <2>4. /\ Converted(one, ls) /\ Headed(one, Opened(begun), headers)
        /\ one.raised => Mixed
        /\ ~Mixed => \A k \in 0 .. Len(ls) : Ends(k)
    BY <2>2, <2>3
  <2> QED BY <2>4 DEF one, Ends, begun
<1> QED BY <1>1, ParserAlone, PTL
=============================================================================
