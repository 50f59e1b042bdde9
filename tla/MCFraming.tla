----------------------------- MODULE MCFraming -----------------------------
(* Instances of Framing for TLC. *)
EXTENDS Framing, Crc

TwoBytes == <<1, 2>>

\* No data, the magic number, and a part of it.
ThreePayloads == {<<>>, <<1>>, <<1, 2>>}
TwoPayloads   == {<<>>, <<3>>}

\* The checksum of the program, over the bytes that are modelled; most of those it
\* is asked for are computed once.
Frequent == [b \in {<<fn>> \o d : fn \in Functions, d \in BoundedSeq({1, 2}, 3)} |-> tableCrc(b)]
Checksum(fn, data) == LET b == <<fn>> \o data
                      IN  IF b \in DOMAIN Frequent THEN Frequent[b] ELSE tableCrc(b)
=============================================================================
