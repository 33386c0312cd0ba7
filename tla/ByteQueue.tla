------------------------------ MODULE ByteQueue ------------------------------
(***************************************************************************)
(* What Buffer promises: a queue of bytes, written at one end in any       *)
(* amount and read at the other in any amount.                             *)
(***************************************************************************)
EXTENDS Naturals, Sequences

CONSTANT Byte

VARIABLE bytes

Init == bytes = << >>

Put == \E data \in Seq(Byte) : bytes' = bytes \o data

Take == \E n \in Nat : bytes' = SubSeq(bytes, n + 1, Len(bytes))

Next == Put \/ Take

Spec == Init /\ [][Next]_bytes
=============================================================================
