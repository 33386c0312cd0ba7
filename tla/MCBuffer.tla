------------------------------ MODULE MCBuffer ------------------------------
(***************************************************************************)
(* Buffer with every piece of data of up to MaxData bytes.                 *)
(***************************************************************************)
EXTENDS Buffer

CONSTANT MaxData

MCData == UNION {[1 .. n -> Byte] : n \in 0 .. MaxData}
=============================================================================
