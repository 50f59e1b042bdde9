----------------------------- MODULE MCPipeline -----------------------------
(***************************************************************************)
(* Instances of DeviceData and Pipeline for TLC: messages with records of  *)
(* every type, complete, longer than defined, shorter, and cut off.        *)
(***************************************************************************)
EXTENDS Pipeline

Needs == [t \in Types |-> IF t = "unknown" THEN 1 ELSE 2]

Rec(t, i, s, len, v) == [type |-> t, id |-> i, sub |-> s, len |-> len, have |-> len, val |-> v]
CutOff(r, n) == [r EXCEPT !.have = n]
HeaderOnly == [type |-> "cut", id |-> "-", sub |-> 0, len |-> 0, have |-> 0, val |-> [n |-> 0]]

Reading(n) == [Vac |-> n, Pac |-> n, Eac |-> n, Eday |-> n, Etot |-> n, Temp |-> n]
ThreePhase == [Vac1 |-> 1, Eac |-> 1, Eday |-> 1, Etot |-> 1, Temp |-> 1]
Module(n)  == [Vmod |-> n, Vopt |-> n, Imod |-> n, Temp |-> n]

Inv(i, n)    == Rec("inv", i, 0, 2, Reading(n))
Opt(t, i, n) == Rec(t, i, 0, 2, Module(n))
Event        == Rec("event", "a", 0, 2, [n |-> 1])
Value(n) == [n |-> n]
NotUtf8 == {9}
Battery(s, len, v) == Rec("batteries", "a", s, len, Value(v))
Meter(s, len, v)   == Rec("meters", "a", s, len, Value(v))
Unknown(len, v)    == Rec("unknown", "a", 0, len, Value(v))

\* What the state is made from.
StateMessages ==
  { <<Inv("a", 2), Opt("opt", "o", 2)>>,
    <<Inv("a", 1), Inv("b", 1)>>,
    <<Opt("s440", "p", 1), Event>>,
    <<Rec("inv3", "b", 0, 2, ThreePhase)>>,
    <<Inv("a", 3), CutOff(Opt("newOpt", "o", 1), 1)>> }

\* What ParseDevice parses.
DeviceMessages ==
  { <<>>,
    <<Battery(1, 2, 1), Battery(2, 2, 2), Meter(3, 2, 1)>>,
    <<Battery(1, 3, 1), Battery(1, 2, 2)>>,
    <<Battery(1, 2, 2), Battery(1, 4, 3)>>,
    <<Battery(9, 3, 1)>>,
    <<CutOff(Meter(3, 3, 1), 1)>>,
    <<Meter(3, 3, 2), HeaderOnly>>,
    <<Unknown(2, 1), Unknown(1, 2)>>,
    <<Rec("event", "a", 0, 3, [n |-> 1])>> }

Sorted == << <<"batteries", "a", 1>>, <<"batteries", "a", 2>>, <<"events", "a">>,
             <<"inverters", "a">>, <<"inverters", "b">>, <<"meters", "a", 3>>,
             <<"optimizers", "o">>, <<"optimizers", "p">>, <<"unknown", "a">> >>

AllMessages == StateMessages \cup DeviceMessages
=============================================================================
