----------------------------- MODULE BusArbiter -----------------------------
(***************************************************************************)
(* What an RS485 master promises to the slaves of its bus: the bus is      *)
(* offered to the slaves 1..N in turn, and, as long as no wait has been    *)
(* cut short by the timeout, it is offered only when nobody has it.  After *)
(* a timeout a silent slave may still have it, and the promise is only     *)
(* that the turn goes on.                                                  *)
(***************************************************************************)
EXTENDS Integers

CONSTANTS
  N,                           \* the number of slaves, at least one
  Lossy                        \* an offer may be lost on the way

VARIABLES
  holders,                     \* the slaves that may transmit
  last,                        \* the slave the bus was last offered to
  timedOut                     \* has a timeout ever ended a wait?

avars == <<holders, last, timedOut>>

AInit == holders = {} /\ last = N /\ timedOut = FALSE

\* Offer the bus to the next slave.
Grant == /\ holders = {} \/ timedOut
         /\ last' = (last % N) + 1
         /\ holders' \in {holders \cup {last'}} \cup (IF Lossy THEN {holders} ELSE {})
         /\ UNCHANGED timedOut

Release(s) == /\ s \in holders
              /\ holders' = holders \ {s}
              /\ UNCHANGED <<last, timedOut>>

Timeout == /\ timedOut' = TRUE
           /\ UNCHANGED <<holders, last>>

ANext == Grant \/ (\E s \in 1 .. N : Release(s)) \/ Timeout

ASpec == AInit /\ [][ANext]_avars
=============================================================================
