---------------------------- MODULE Buffer_proofs ----------------------------
(***************************************************************************)
(* Proofs about Buffer, for every size of the vector, of the prepended     *)
(* area, of extrabuf and of the data: the indices stay in order, and the   *)
(* buffer is a queue of bytes.                                             *)
(***************************************************************************)
EXTENDS Buffer, SequenceTheorems, TLAPS

(* The indices r and w are in order in b, and q is what lies between. *)
Holds(b, r, w, q) ==
    /\ b \in Seq(Byte) /\ r \in Nat /\ w \in Nat /\ q \in Seq(Byte)
    /\ kCheapPrepend <= r /\ r <= w /\ w <= Len(b)
    /\ Len(q) = w - r
    /\ \A i \in 1 .. w - r : b[r + i] = q[i]

(* A function whose domain is 1 .. n is a sequence of length n. *)
LEMMA FunctionIsSeq ==
    ASSUME NEW n \in Nat, NEW S, NEW f \in [1 .. n -> S]
    PROVE  f \in Seq(S) /\ Len(f) = n
<1>1. f \in Seq(S)
  BY SeqDef
<1>2. DOMAIN f = 1 .. n
  OBVIOUS
<1> QED
  BY <1>1, <1>2, LenProperties

(* What Holds says is that q is the contents. *)
LEMMA HoldsContents ==
    ASSUME NEW b \in Seq(Byte), NEW r \in Nat, NEW w \in Nat,
           kCheapPrepend <= r, r <= w, w <= Len(b)
    PROVE  Holds(b, r, w, SubSeq(b, r + 1, w))
<1> DEFINE q == SubSeq(b, r + 1, w)
<1>1. \A i \in r + 1 .. w : b[i] \in Byte
  BY ElementOfSeq
<1>2. /\ q \in Seq(Byte)
      /\ Len(q) = w - r
      /\ \A i \in 1 .. w - r : q[i] = b[r + i]
  <2>1. /\ q \in Seq(Byte)
        /\ Len(q) = IF r + 1 <= w THEN w - (r + 1) + 1 ELSE 0
        /\ \A i \in 1 .. w - (r + 1) + 1 : q[i] = b[(r + 1) + i - 1]
    BY <1>1, SubSeqProperties
  <2> QED
    BY <2>1
<1> QED
  BY <1>2 DEF Holds

(* There is only one such q. *)
LEMMA HoldsUnique ==
    ASSUME NEW b, NEW r, NEW w, NEW q, Holds(b, r, w, q)
    PROVE  SubSeq(b, r + 1, w) = q
<1>1. Holds(b, r, w, SubSeq(b, r + 1, w))
  BY HoldsContents DEF Holds
<1> QED
  BY <1>1, SeqEqual DEF Holds

(* Growing the vector keeps the contents and the indices. *)
LEMMA ResizeHolds ==
    ASSUME NEW b, NEW r, NEW w, NEW q, Holds(b, r, w, q),
           NEW size \in Nat, Len(b) <= size
    PROVE  Holds(Resize(b, size), r, w, q) /\ Len(Resize(b, size)) = size
<1> USE ByteAssumption
<1>1. \A i \in 1 .. Len(b) : b[i] \in Byte
  BY ElementOfSeq DEF Holds
<1>2. Resize(b, size) \in [1 .. size -> Byte]
  BY <1>1 DEF Resize, Holds
<1>3. Resize(b, size) \in Seq(Byte) /\ Len(Resize(b, size)) = size
  BY <1>2, FunctionIsSeq
<1>4. \A i \in 1 .. w - r : Resize(b, size)[r + i] = b[r + i]
  BY SizeAssumption DEF Resize, Holds
<1>5. Len(b) \in Nat
  BY LenProperties DEF Holds
<1>6. w <= size
  BY <1>5 DEF Holds
<1> QED
  BY <1>3, <1>4, <1>6 DEF Holds

(* Compacting keeps the contents and brings them to kCheapPrepend. *)
LEMMA CompactHolds ==
    ASSUME NEW b, NEW r, NEW w, NEW q, Holds(b, r, w, q)
    PROVE  /\ Holds(Compact(b, r, w), kCheapPrepend, kCheapPrepend + (w - r), q)
           /\ Len(Compact(b, r, w)) = Len(b)
<1> USE SizeAssumption
<1> DEFINE c == Compact(b, r, w)
           k == kCheapPrepend
<1>1. \A i \in 1 .. Len(b) : b[i] \in Byte
  BY ElementOfSeq DEF Holds
<1>2. c \in [1 .. Len(b) -> Byte]
  <2>1. ASSUME NEW i \in 1 .. Len(b), i > k, i <= k + (w - r)
        PROVE  i - k + r \in 1 .. Len(b)
    BY <2>1 DEF Holds
  <2> QED
    BY <1>1, <2>1 DEF Compact
<1>3. Len(b) \in Nat
  BY LenProperties DEF Holds
<1>4. c \in Seq(Byte) /\ Len(c) = Len(b)
  BY <1>2, <1>3, FunctionIsSeq
<1>5. \A i \in 1 .. w - r : c[k + i] = b[r + i]
  <2> SUFFICES ASSUME NEW i \in 1 .. w - r PROVE c[k + i] = b[r + i]
    OBVIOUS
  <2>1. k + i \in 1 .. Len(b) /\ k + i > k /\ k + i <= k + (w - r)
    BY <1>3 DEF Holds
  <2>2. k + i - k + r = r + i
    BY DEF Holds
  <2> QED
    BY <2>1, <2>2 DEF Compact
<1> DEFINE v == k + (w - r)
<1>6. /\ k \in Nat /\ v \in Nat /\ k <= v /\ v <= Len(b)
      /\ v - k = w - r
  BY <1>3 DEF Holds
<1>7. q \in Seq(Byte) /\ Len(q) = w - r /\ \A i \in 1 .. w - r : c[k + i] = q[i]
  BY <1>5 DEF Holds
<1> HIDE DEF c, v
<1>8. Len(q) = v - k /\ \A i \in 1 .. v - k : c[k + i] = q[i]
  BY <1>6, <1>7
<1>9. Holds(c, k, v, q)
  BY <1>4, <1>6, <1>7, <1>8 DEF Holds
<1> QED
  BY <1>4, <1>9 DEF c, v

(* makeSpace(), in either branch, keeps the contents and leaves room for   *)
(* len bytes behind them.                                                  *)
LEMMA EnsureHolds ==
    ASSUME NEW b, NEW r, NEW w, NEW q, Holds(b, r, w, q), NEW len \in Nat
    PROVE  LET s == ensureWriteableBytes(b, r, w, len)
           IN  Holds(s.b, s.r, s.w, q) /\ s.w + len <= Len(s.b)
<1> USE SizeAssumption
<1>0. Len(b) \in Nat
  BY LenProperties DEF Holds
<1>1. CASE Len(b) - w >= len
  BY <1>0, <1>1 DEF ensureWriteableBytes, State, Holds
<1>2. CASE Len(b) - w < len /\ MustGrow(b, r, w, len)
  <2>1. w + len \in Nat /\ Len(b) <= w + len
    BY <1>0, <1>2 DEF Holds
  <2>2. Holds(Resize(b, w + len), r, w, q) /\ Len(Resize(b, w + len)) = w + len
    BY <2>1, ResizeHolds
  <2>3. ensureWriteableBytes(b, r, w, len) = State(Resize(b, w + len), r, w)
    BY <1>2 DEF ensureWriteableBytes, makeSpace
  <2> QED
    BY <2>1, <2>2, <2>3 DEF State
<1>3. CASE Len(b) - w < len /\ ~ MustGrow(b, r, w, len)
  <2> DEFINE c == Compact(b, r, w)
             k == kCheapPrepend
  <2>1. Holds(c, k, k + (w - r), q) /\ Len(c) = Len(b)
    BY CompactHolds
  <2>2. ensureWriteableBytes(b, r, w, len) = State(c, k, k + (w - r))
    BY <1>3 DEF ensureWriteableBytes, makeSpace
  <2>3. k + (w - r) + len <= Len(b)
    BY <1>0, <1>3 DEF MustGrow, Holds
  <2> HIDE DEF c
  <2> QED
    BY <2>1, <2>2, <2>3 DEF State
<1> QED
  BY <1>0, <1>1, <1>2, <1>3 DEF Holds

(* Copying to the write position, where there is room, adds to the contents. *)
LEMMA CopyInHolds ==
    ASSUME NEW b, NEW r, NEW w, NEW q, Holds(b, r, w, q),
           NEW data \in Seq(Byte), w + Len(data) <= Len(b)
    PROVE  /\ Holds(CopyIn(b, w, data), r, w + Len(data), q \o data)
           /\ Len(CopyIn(b, w, data)) = Len(b)
<1> USE SizeAssumption
<1> DEFINE c == CopyIn(b, w, data)
<1>1. Len(b) \in Nat /\ Len(data) \in Nat
  BY LenProperties DEF Holds
<1>2. \A i \in 1 .. Len(b) : b[i] \in Byte
  BY ElementOfSeq DEF Holds
<1>3. \A i \in 1 .. Len(data) : data[i] \in Byte
  BY ElementOfSeq
<1>4. c \in [1 .. Len(b) -> Byte]
  BY <1>1, <1>2, <1>3 DEF CopyIn, Holds
<1>5. c \in Seq(Byte) /\ Len(c) = Len(b)
  BY <1>1, <1>4, FunctionIsSeq
<1>6. /\ q \o data \in Seq(Byte)
      /\ Len(q \o data) = (w - r) + Len(data)
      /\ \A i \in 1 .. (w - r) + Len(data) :
            (q \o data)[i] = IF i <= w - r THEN q[i] ELSE data[i - (w - r)]
  <2>1. q \in Seq(Byte) /\ Len(q) = w - r
    BY DEF Holds
  <2>2. /\ q \o data \in Seq(Byte)
        /\ Len(q \o data) = Len(q) + Len(data)
        /\ \A i \in 1 .. Len(q) + Len(data) :
              (q \o data)[i] = IF i <= Len(q) THEN q[i] ELSE data[i - Len(q)]
    BY <2>1, ConcatProperties
  <2> QED BY <2>1, <2>2
<1>7. ASSUME NEW i \in 1 .. (w + Len(data)) - r
      PROVE  c[r + i] = (q \o data)[i]
  <2>1. r + i \in 1 .. Len(b) /\ i \in 1 .. (w - r) + Len(data)
    BY <1>1 DEF Holds
  <2>2. CASE i <= w - r
    <3>1. c[r + i] = b[r + i]
      BY <1>1, <2>1, <2>2 DEF CopyIn, Holds
    <3> QED
      BY <1>6, <2>1, <2>2, <3>1 DEF Holds
  <2>3. CASE i > w - r
    <3>1. r + i > w /\ r + i <= w + Len(data) /\ (r + i) - w = i - (w - r)
      BY <1>1, <2>3 DEF Holds
    <3>2. c[r + i] = data[(r + i) - w]
      BY <2>1, <3>1 DEF CopyIn
    <3> QED
      BY <1>6, <2>1, <2>3, <3>1, <3>2 DEF Holds
  <2> QED
    BY <2>2, <2>3 DEF Holds
<1> HIDE DEF c
<1>8. Holds(c, r, w + Len(data), q \o data)
  BY <1>1, <1>5, <1>6, <1>7 DEF Holds
<1> QED
  BY <1>5, <1>8 DEF c

(* append() adds its data to the contents, whatever room there was. *)
LEMMA AppendHolds ==
    ASSUME NEW b, NEW r, NEW w, NEW q, Holds(b, r, w, q), NEW data \in Seq(Byte)
    PROVE  LET s == append(b, r, w, data) IN Holds(s.b, s.r, s.w, q \o data)
<1> DEFINE e == ensureWriteableBytes(b, r, w, Len(data))
<1>1. Len(data) \in Nat
  BY LenProperties
<1>2. Holds(e.b, e.r, e.w, q) /\ e.w + Len(data) <= Len(e.b)
  BY <1>1, EnsureHolds
<1> HIDE DEF e
<1>3. Holds(CopyIn(e.b, e.w, data), e.r, e.w + Len(data), q \o data)
  BY <1>2, CopyInHolds
<1>4. append(b, r, w, data) = State(CopyIn(e.b, e.w, data), e.r, e.w + Len(data))
  BY DEF append, e
<1> QED
  BY <1>3, <1>4 DEF State

-----------------------------------------------------------------------------
(* An operation adds data to the contents when afterwards the buffer holds *)
(* the old contents with data behind them.                                 *)
LEMMA PutStep ==
    ASSUME TypeOK, NEW data \in Data,
           Holds(buffer', readerIndex', writeIndex', Contents \o data)
    PROVE  TypeOK' /\ Contents' = Contents \o data
<1>1. Contents' = Contents \o data
  BY HoldsUnique DEF Contents
<1>2. TypeOK'
  BY DEF TypeOK, Holds
<1> QED
  BY <1>1, <1>2

(* append() adds its data. *)
LEMMA AppendStep ==
    ASSUME TypeOK, NEW data \in Data, Append_(data)
    PROVE  TypeOK' /\ Contents' = Contents \o data
<1>1. Holds(buffer, readerIndex, writeIndex, Contents)
  BY HoldsContents DEF TypeOK, Contents
<1>2. data \in Seq(Byte)
  BY DataAssumption
<1> DEFINE s == append(buffer, readerIndex, writeIndex, data)
<1>3. Holds(s.b, s.r, s.w, Contents \o data)
  BY <1>1, <1>2, AppendHolds
<1> HIDE DEF s
<1>4. buffer' = s.b /\ readerIndex' = s.r /\ writeIndex' = s.w
  BY DEF Append_, Become, s
<1> QED
  BY <1>3, <1>4, PutStep

(* A prefix of data and what is behind it are data again. *)
LEMMA Split ==
    ASSUME NEW data \in Seq(Byte), NEW n \in Nat, n <= Len(data)
    PROVE  /\ SubSeq(data, 1, n) \in Seq(Byte)
           /\ Len(SubSeq(data, 1, n)) = n
           /\ SubSeq(data, n + 1, Len(data)) \in Seq(Byte)
           /\ SubSeq(data, 1, n) \o SubSeq(data, n + 1, Len(data)) = data
<1>1. Len(data) \in Nat
  BY LenProperties
<1>2. \A i \in 1 .. Len(data) : data[i] \in Byte
  BY ElementOfSeq
<1> DEFINE f == SubSeq(data, 1, n)
           g == SubSeq(data, n + 1, Len(data))
<1>3. /\ f \in Seq(Byte) /\ Len(f) = n
      /\ \A i \in 1 .. n : f[i] = data[i]
  <2>1. \A i \in 1 .. n : data[i] \in Byte
    BY <1>1, <1>2
  <2>2. /\ f \in Seq(Byte)
        /\ Len(f) = IF 1 <= n THEN n - 1 + 1 ELSE 0
        /\ \A i \in 1 .. n - 1 + 1 : f[i] = data[1 + i - 1]
    BY <2>1, SubSeqProperties
  <2> QED
    BY <2>2
<1>4. /\ g \in Seq(Byte) /\ Len(g) = Len(data) - n
      /\ \A i \in 1 .. Len(data) - n : g[i] = data[n + i]
  <2>1. \A i \in n + 1 .. Len(data) : data[i] \in Byte
    BY <1>1, <1>2
  <2>2. /\ g \in Seq(Byte)
        /\ Len(g) = IF n + 1 <= Len(data) THEN Len(data) - (n + 1) + 1 ELSE 0
        /\ \A i \in 1 .. Len(data) - (n + 1) + 1 : g[i] = data[(n + 1) + i - 1]
    BY <1>1, <2>1, SubSeqProperties
  <2> QED
    BY <1>1, <2>2
<1> HIDE DEF f, g
<1>5. /\ f \o g \in Seq(Byte) /\ Len(f \o g) = Len(data)
      /\ \A i \in 1 .. Len(data) : (f \o g)[i] = IF i <= n THEN f[i] ELSE g[i - n]
  <2>1. /\ f \o g \in Seq(Byte) /\ Len(f \o g) = Len(f) + Len(g)
        /\ \A i \in 1 .. Len(f) + Len(g) :
              (f \o g)[i] = IF i <= Len(f) THEN f[i] ELSE g[i - Len(f)]
    BY <1>3, <1>4, ConcatProperties
  <2>2. Len(f) + Len(g) = Len(data)
    BY <1>1, <1>3, <1>4
  <2> QED
    BY <1>3, <2>1, <2>2
<1>6. \A i \in 1 .. Len(data) : (f \o g)[i] = data[i]
  BY <1>1, <1>3, <1>4, <1>5
<1>7. f \o g = data
  BY <1>5, <1>6, SeqEqual
<1> QED
  BY <1>3, <1>4, <1>7 DEF f, g

(* Only the part of data that fits is copied into the vector. *)
LEMMA CopyInFull ==
    ASSUME NEW b \in Seq(Byte), NEW w \in Nat, w <= Len(b),
           NEW data \in Seq(Byte), Len(b) - w <= Len(data)
    PROVE  CopyIn(b, w, data) = CopyIn(b, w, SubSeq(data, 1, Len(b) - w))
<1>1. Len(b) \in Nat /\ Len(data) \in Nat
  BY LenProperties
<1> DEFINE n == Len(b) - w
           f == SubSeq(data, 1, n)
<1>2. n \in Nat
  BY <1>1
<1>3. Len(f) = n
  BY <1>2, Split
<1>4. \A i \in 1 .. n : f[i] = data[i]
  <2>1. \A i \in 1 .. n : data[i] \in Byte
    BY <1>1, ElementOfSeq
  <2>2. \A i \in 1 .. n - 1 + 1 : f[i] = data[1 + i - 1]
    BY <1>2, <2>1, SubSeqProperties
  <2> QED
    BY <1>2, <2>2
<1>5. ASSUME NEW i \in 1 .. Len(b)
      PROVE  (IF i > w /\ i <= w + Len(data) THEN data[i - w] ELSE b[i])
               = (IF i > w /\ i <= w + Len(f) THEN f[i - w] ELSE b[i])
  <2>1. i <= w + Len(data) /\ i <= w + n
    BY <1>1
  <2>2. i > w => i - w \in 1 .. n
    BY <1>1
  <2> HIDE DEF f
  <2> QED
    BY <1>3, <1>4, <2>1, <2>2
<1> QED
  BY <1>5 DEF CopyIn

(* readFd() adds what it read, also when that overflows into extrabuf. *)
LEMMA ReadFdStep ==
    ASSUME TypeOK, NEW data \in Data, ReadFd(data)
    PROVE  TypeOK' /\ Contents' = Contents \o data
<1>1. Holds(buffer, readerIndex, writeIndex, Contents)
  BY HoldsContents DEF TypeOK, Contents
<1>2. data \in Seq(Byte)
  BY DataAssumption
<1>3. Len(data) \in Nat /\ Len(buffer) \in Nat
  BY <1>2, LenProperties DEF TypeOK
<1>4. CASE Len(data) <= writeableBytes
  <2>1. writeIndex + Len(data) <= Len(buffer)
    BY <1>3, <1>4 DEF writeableBytes, TypeOK
  <2>2. Holds(CopyIn(buffer, writeIndex, data), readerIndex,
              writeIndex + Len(data), Contents \o data)
    BY <1>1, <1>2, <2>1, CopyInHolds
  <2>3. /\ buffer' = CopyIn(buffer, writeIndex, data)
        /\ writeIndex' = writeIndex + Len(data)
        /\ readerIndex' = readerIndex
    BY <1>4 DEF ReadFd
  <2> QED
    BY <2>2, <2>3, PutStep
<1>5. CASE ~ (Len(data) <= writeableBytes)
  <2> DEFINE n == writeableBytes
             f == SubSeq(data, 1, n)
             g == SubSeq(data, n + 1, Len(data))
             c == CopyIn(buffer, writeIndex, data)
             s == append(c, readerIndex, Len(buffer), g)
  <2>1. n \in Nat /\ n <= Len(data) /\ n = Len(buffer) - writeIndex
    BY <1>3, <1>5 DEF writeableBytes, TypeOK
  <2>2. f \in Seq(Byte) /\ Len(f) = n /\ g \in Seq(Byte) /\ f \o g = data
    BY <1>2, <2>1, Split
  <2>3. c = CopyIn(buffer, writeIndex, f)
    BY <1>2, <2>1, CopyInFull DEF TypeOK
  <2> HIDE DEF f, g, c, n
  <2>4. writeIndex + Len(f) = Len(buffer)
    BY <1>3, <2>1, <2>2 DEF TypeOK
  <2>5. Holds(c, readerIndex, Len(buffer), Contents \o f)
    <3>1. Holds(CopyIn(buffer, writeIndex, f), readerIndex,
                writeIndex + Len(f), Contents \o f)
      BY <1>1, <1>3, <2>2, <2>4, CopyInHolds
    <3> QED
      BY <2>3, <2>4, <3>1
  <2>6. Holds(s.b, s.r, s.w, (Contents \o f) \o g)
    BY <2>2, <2>5, AppendHolds
  <2>7. (Contents \o f) \o g = Contents \o data
    <3>1. Contents \in Seq(Byte)
      BY <1>1 DEF Holds
    <3>2. \A x, y, z \in Seq(Byte) : (x \o y) \o z = x \o (y \o z)
      BY ConcatAssociative
    <3> QED
      BY <2>2, <3>1, <3>2
  <2> HIDE DEF s
  <2>8. buffer' = s.b /\ readerIndex' = s.r /\ writeIndex' = s.w
    BY <1>5 DEF ReadFd, ReadFdOverflow, Become, s, c, g, n
  <2> QED
    BY <2>6, <2>7, <2>8, PutStep
<1> QED
  BY <1>4, <1>5

(* retrieve() drops bytes from the front, all of them if there are no more. *)
LEMMA RetrieveStep ==
    ASSUME TypeOK, NEW len \in Nat, Retrieve(len)
    PROVE  TypeOK' /\ Contents' = SubSeq(Contents, len + 1, Len(Contents))
<1> USE SizeAssumption
<1>1. Holds(buffer, readerIndex, writeIndex, Contents)
  BY HoldsContents DEF TypeOK, Contents
<1>2. Contents \in Seq(Byte) /\ Len(Contents) = writeIndex - readerIndex
  BY <1>1 DEF Holds
<1>3. Len(buffer) \in Nat
  BY LenProperties DEF TypeOK
<1>4. TypeOK'
  BY <1>3 DEF TypeOK, Retrieve, readableBytes
<1> DEFINE Drop(n) == SubSeq(Contents, n + 1, Len(Contents))
<1>5. CASE len < readableBytes
  <2>1. /\ len \in 0 .. Len(Contents)
        /\ readerIndex' = readerIndex + len
        /\ UNCHANGED <<writeIndex, buffer>>
    BY <1>2, <1>5 DEF Retrieve, readableBytes, TypeOK
  <2>2. /\ Drop(len) \in Seq(Byte)
        /\ Len(Drop(len)) = Len(Contents) - len
        /\ \A i \in 1 .. Len(Contents) - len : Drop(len)[i] = Contents[len + i]
    <3>1. \A i \in len + 1 .. Len(Contents) : Contents[i] \in Byte
      BY <1>2, ElementOfSeq DEF TypeOK
    <3>2. Len(Contents) \in Int
      BY <1>2, LenProperties
    <3>3. /\ Drop(len) \in Seq(Byte)
          /\ Len(Drop(len)) = IF len + 1 <= Len(Contents)
                                THEN Len(Contents) - (len + 1) + 1 ELSE 0
          /\ \A i \in 1 .. Len(Contents) - (len + 1) + 1 :
                Drop(len)[i] = Contents[(len + 1) + i - 1]
      BY <3>1, <3>2, SubSeqProperties
    <3> QED
      BY <2>1, <3>2, <3>3
  <2> HIDE DEF Drop
  <2>3. \A i \in 1 .. writeIndex - readerIndex : buffer[readerIndex + i] = Contents[i]
    BY <1>1 DEF Holds
  <2>4. \A i \in 1 .. writeIndex - (readerIndex + len) :
            buffer[(readerIndex + len) + i] = Drop(len)[i]
    <3> SUFFICES ASSUME NEW i \in 1 .. writeIndex - (readerIndex + len)
                 PROVE  buffer[(readerIndex + len) + i] = Drop(len)[i]
      OBVIOUS
    <3>1. /\ len + i \in 1 .. writeIndex - readerIndex
          /\ readerIndex + (len + i) = (readerIndex + len) + i
          /\ i \in 1 .. Len(Contents) - len
      BY <1>2 DEF TypeOK
    <3> QED
      BY <2>2, <2>3, <3>1
  <2>5. Holds(buffer', readerIndex', writeIndex', Drop(len))
    <3>1. Len(Drop(len)) = writeIndex - (readerIndex + len)
      BY <1>2, <2>2 DEF TypeOK
    <3>2. readerIndex + len <= writeIndex
      BY <1>2, <2>1 DEF TypeOK
    <3> QED
      BY <2>1, <2>2, <2>4, <3>1, <3>2 DEF Holds, TypeOK
  <2>6. Contents' = Drop(len)
    BY <2>5, HoldsUnique DEF Contents
  <2> QED
    BY <1>4, <2>6 DEF Drop
<1>6. CASE ~ (len < readableBytes)
  <2>1. Contents' = << >>
    <3>1. readerIndex' = kCheapPrepend /\ writeIndex' = kCheapPrepend
      BY <1>6 DEF Retrieve
    <3> QED
      BY <3>1, SubSeqEmpty DEF Contents
  <2>2. Len(Contents) \in Int /\ Len(Contents) < len + 1
    BY <1>2, <1>6, LenProperties DEF readableBytes, TypeOK
  <2>3. Drop(len) = << >>
    BY <2>2, SubSeqEmpty
  <2> QED
    BY <1>4, <2>1, <2>3
<1> QED
  BY <1>5, <1>6

-----------------------------------------------------------------------------
(* The constructor makes an empty queue. *)
LEMMA InitHolds == Init => TypeOK /\ Queue!Init
<1> SUFFICES ASSUME Init PROVE TypeOK /\ Queue!Init
  OBVIOUS
<1> USE SizeAssumption, ByteAssumption
<1>1. buffer \in [1 .. kCheapPrepend + kInitialSize -> Byte]
  BY DEF Init
<1>2. kCheapPrepend + kInitialSize \in Nat
  OBVIOUS
<1>3. buffer \in Seq(Byte) /\ Len(buffer) = kCheapPrepend + kInitialSize
  BY <1>1, <1>2, FunctionIsSeq
<1>4. TypeOK
  BY <1>3 DEF Init, TypeOK
<1>5. Contents = << >>
  BY SubSeqEmpty DEF Init, Contents
<1> QED
  BY <1>4, <1>5 DEF Queue!Init

(* Every operation keeps the indices in order ... *)
LEMMA TypeStep == TypeOK /\ [Next]_vars => TypeOK'
<1> SUFFICES ASSUME TypeOK, [Next]_vars PROVE TypeOK'
  OBVIOUS
<1>1. ASSUME NEW data \in Data, Append_(data) \/ ReadFd(data) PROVE TypeOK'
  BY <1>1, AppendStep, ReadFdStep
<1>2. ASSUME NEW len \in 0 .. MaxSize, Retrieve(len) PROVE TypeOK'
  BY <1>2, RetrieveStep, SizeAssumption
<1>3. CASE UNCHANGED vars
  BY <1>3 DEF TypeOK, vars
<1> QED
  BY <1>1, <1>2, <1>3 DEF Next

(* ... and does to the contents what it should. *)
LEMMA ContentsStep == TypeOK => QueueStep
<1> SUFFICES ASSUME TypeOK PROVE QueueStep
  OBVIOUS
<1>1. ASSUME NEW data \in Data, Append_(data) \/ ReadFd(data)
      PROVE  Contents' = Contents \o data
  BY <1>1, AppendStep, ReadFdStep
<1>2. ASSUME NEW len \in 0 .. MaxSize, Retrieve(len)
      PROVE  Contents' = SubSeq(Contents, len + 1, Len(Contents))
  BY <1>2, RetrieveStep, SizeAssumption
<1> QED
  BY <1>1, <1>2 DEF QueueStep

(* The indices of a Buffer stay in order and inside the vector through any *)
(* sequence of append(), readFd() and retrieve().                          *)
THEOREM TypeCorrect == Spec => []TypeOK
<1>1. Init => TypeOK
  BY InitHolds
<1>2. TypeOK /\ [Next]_vars => TypeOK'
  BY TypeStep
<1> QED
  BY <1>1, <1>2, PTL DEF Spec

(* A Buffer is a queue of bytes: every append() and readFd() adds exactly  *)
(* its data at the end, and every retrieve() takes from the front.         *)
THEOREM QueueOfBytes == Spec => ActsAsQueue
<1>1. Init => Queue!Init
  BY InitHolds
<1>2. TypeOK /\ [Next]_vars => [QueueStep]_vars
  BY ContentsStep
<1> QED
  BY <1>1, <1>2, TypeCorrect, PTL DEF Spec, ActsAsQueue

(* Every step of a Buffer is a step of ByteQueue on the contents. *)
LEMMA AbstractStep == TypeOK /\ [Next]_vars => [Queue!Next]_Contents
<1> SUFFICES ASSUME TypeOK, [Next]_vars PROVE [Queue!Next]_Contents
  OBVIOUS
<1>1. ASSUME NEW data \in Data, Append_(data) \/ ReadFd(data) PROVE Queue!Next
  <2>1. Contents' = Contents \o data /\ data \in Seq(Byte)
    BY <1>1, ContentsStep, DataAssumption DEF QueueStep
  <2> QED
    BY <2>1 DEF Queue!Next, Queue!Put
<1>2. ASSUME NEW len \in 0 .. MaxSize, Retrieve(len) PROVE Queue!Next
  <2>1. Contents' = SubSeq(Contents, len + 1, Len(Contents)) /\ len \in Nat
    BY <1>2, ContentsStep, SizeAssumption DEF QueueStep
  <2> QED
    BY <2>1 DEF Queue!Next, Queue!Take
<1>3. CASE UNCHANGED vars
  BY <1>3 DEF vars, Contents
<1> QED
  BY <1>1, <1>2, <1>3 DEF Next

(* Buffer implements ByteQueue, with the bytes between the indices as the  *)
(* queue: moving and growing the vector is invisible.                      *)
THEOREM Refinement == Spec => Queue!Spec
<1>1. Init => Queue!Init
  BY InitHolds
<1>2. TypeOK /\ [Next]_vars => [Queue!Next]_Contents
  BY AbstractStep
<1> QED
  BY <1>1, <1>2, TypeCorrect, PTL DEF Spec, Queue!Spec
=============================================================================
