-------------------------------- MODULE Buffer --------------------------------
(***************************************************************************)
(* Buffer (Buffer.h, Buffer.cpp): a vector of bytes with a reader and a    *)
(* writer index.  Index i of the vector is element i + 1 of buffer.  The   *)
(* contents are the bytes from readerIndex up to writeIndex; the space in  *)
(* front of them, kCheapPrepend bytes of it apart, is used again before    *)
(* the vector grows.                                                       *)
(***************************************************************************)
EXTENDS Naturals, Sequences

CONSTANTS
    Byte,           \* the values of a char
    Zero,           \* what resize() fills with
    kCheapPrepend,
    kInitialSize,
    ExtraSize,      \* sizeof extrabuf
    Data,           \* what is appended in one call, or read from a socket
    MaxSize         \* bound on the size of the vector

ASSUME ByteAssumption == Zero \in Byte
ASSUME SizeAssumption ==
    /\ kCheapPrepend \in Nat /\ kInitialSize \in Nat
    /\ ExtraSize \in Nat /\ MaxSize \in Nat
ASSUME DataAssumption == Data \subseteq Seq(Byte)

VARIABLES
    buffer,       \* buffer_
    readerIndex,  \* readerIndex_
    writeIndex    \* writeIndex_

vars == <<buffer, readerIndex, writeIndex>>

Init ==
    /\ buffer = [i \in 1 .. kCheapPrepend + kInitialSize |-> Zero]
    /\ readerIndex = kCheapPrepend
    /\ writeIndex = kCheapPrepend

readableBytes == writeIndex - readerIndex
writeableBytes == Len(buffer) - writeIndex

-----------------------------------------------------------------------------
(* The operations on a buffer b with reader index r and write index w *)

Resize(b, size) == [i \in 1 .. size |-> IF i <= Len(b) THEN b[i] ELSE Zero]

(* The readable bytes are moved down to kCheapPrepend. *)
Compact(b, r, w) ==
    [i \in 1 .. Len(b) |->
        IF i > kCheapPrepend /\ i <= kCheapPrepend + (w - r)
          THEN b[i - kCheapPrepend + r] ELSE b[i]]

(* Mutant: the prependable bytes are all counted as space. *)
MustGrow_NoPrepend(b, r, w, len) == (Len(b) - w) + r < len
MustGrow(b, r, w, len) == (Len(b) - w) + r < len + kCheapPrepend

State(b, r, w) == [b |-> b, r |-> r, w |-> w]

makeSpace(b, r, w, len) ==
    IF MustGrow(b, r, w, len)
      THEN State(Resize(b, w + len), r, w)
      ELSE State(Compact(b, r, w), kCheapPrepend, kCheapPrepend + (w - r))

ensureWriteableBytes(b, r, w, len) ==
    IF Len(b) - w < len THEN makeSpace(b, r, w, len) ELSE State(b, r, w)

CopyIn(b, w, data) ==
    [i \in 1 .. Len(b) |->
        IF i > w /\ i <= w + Len(data) THEN data[i - w] ELSE b[i]]

append(b, r, w, data) ==
    LET s == ensureWriteableBytes(b, r, w, Len(data))
    IN  State(CopyIn(s.b, s.w, data), s.r, s.w + Len(data))

Become(s) ==
    /\ Len(s.b) <= MaxSize
    /\ buffer' = s.b
    /\ readerIndex' = s.r
    /\ writeIndex' = s.w

-----------------------------------------------------------------------------
Append_(data) == Become(append(buffer, readerIndex, writeIndex, data))

(* Mutant: the bytes in extrabuf are appended where the writer was. *)
ReadFdOverflow_KeepIndex(data) ==
    Become(append(CopyIn(buffer, writeIndex, data), readerIndex, writeIndex,
                  SubSeq(data, writeableBytes + 1, Len(data))))

(* readFd(), when more arrived than fits: the vector is full, and what is  *)
(* in extrabuf is appended.                                                *)
ReadFdOverflow(data) ==
    Become(append(CopyIn(buffer, writeIndex, data), readerIndex, Len(buffer),
                  SubSeq(data, writeableBytes + 1, Len(data))))

(* readFd(): readv() into the writeable space and then into extrabuf, which *)
(* is left out when the space alone is as large.                            *)
ReadFd(data) ==
    /\ Len(data) <= writeableBytes
                      + (IF writeableBytes < ExtraSize THEN ExtraSize ELSE 0)
    /\ IF Len(data) <= writeableBytes
         THEN /\ buffer' = CopyIn(buffer, writeIndex, data)
              /\ writeIndex' = writeIndex + Len(data)
              /\ UNCHANGED readerIndex
         ELSE ReadFdOverflow(data)

(* retrieve(len): everything, and the indices start over, once len reaches *)
(* what there is.  retrieveAll(), retrieveAsString(), retrieveUntil() and  *)
(* the writeFd() of a connection all come to this.                         *)
Retrieve(len) ==
    /\ IF len < readableBytes
         THEN /\ readerIndex' = readerIndex + len
              /\ UNCHANGED writeIndex
         ELSE /\ readerIndex' = kCheapPrepend
              /\ writeIndex' = kCheapPrepend
    /\ UNCHANGED buffer

Next ==
    \/ \E data \in Data : Append_(data) \/ ReadFd(data)
    \/ \E len \in 0 .. MaxSize : Retrieve(len)

Spec == Init /\ [][Next]_vars

-----------------------------------------------------------------------------
(* The indices stay in order and inside the vector, and kCheapPrepend      *)
(* bytes stay free in front of the contents.                               *)
TypeOK ==
    /\ buffer \in Seq(Byte)
    /\ readerIndex \in Nat
    /\ writeIndex \in Nat
    /\ kCheapPrepend <= readerIndex
    /\ readerIndex <= writeIndex
    /\ writeIndex <= Len(buffer)

Contents == SubSeq(buffer, readerIndex + 1, writeIndex)

Queue == INSTANCE ByteQueue WITH bytes <- Contents

(* What each operation does to the contents. *)
QueueStep ==
    /\ \A data \in Data :
          Append_(data) \/ ReadFd(data) => Contents' = Contents \o data
    /\ \A len \in 0 .. MaxSize :
          Retrieve(len) => Contents' = SubSeq(Contents, len + 1, Len(Contents))

(* The contents start empty; append() and readFd() add their data at the   *)
(* end, all of it and nothing else, and retrieve(len) drops len bytes from *)
(* the front: compacting, growing and the detour through extrabuf never    *)
(* lose, double or reorder a byte.                                         *)
ActsAsQueue == Queue!Init /\ [][QueueStep]_vars
=============================================================================
