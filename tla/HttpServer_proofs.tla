-------------------------- MODULE HttpServer_proofs --------------------------
(***************************************************************************)
(* Proofs about HttpServer.tla, for requests of every kind and length, any *)
(* number of them and any pieces: the application is given the requests    *)
(* that were sent.                                                         *)
(***************************************************************************)
EXTENDS HttpServer, SequenceTheorems, NaturalsInduction, WellFoundedInduction, TLAPS

(* The types *)
Octets ==
    {End} \cup {[t |-> "close"]}
        \cup [t : {"line"}, method : {"kGet", "kPost", "kInvalid"},
              version : {"kHttp10", "kHttp11", "kUnknown"}]
        \cup [t : {"length"}, n : Nat]
        \cup [t : {"body"}, of : Nat]

Fields ==
    [method : {"kGet", "kPost", "kInvalid"}, version : {"kHttp10", "kHttp11", "kUnknown"},
     length : Nat \cup {-1}, close : BOOLEAN, body : Seq(Octets)]

Types ==
    /\ sent \in Seq(Requests)
    /\ wire \in Seq(Octets) /\ buf \in Seq(Octets)
    /\ parser \in {"kExpectRequestLine", "kExpectHeaders", "kExpectBody", "kGotAll"}
    /\ request \in Fields
    /\ handled \in Seq(Fields)
    /\ pc \in {"idle", "parsing", "failed", "parsed", "aborted"}

-----------------------------------------------------------------------------
(* The inductive invariant *)

(* The bytes that the parser has still to consume. *)
Rest == buf \o wire

(* How many bytes the two headers and the body of a request take. *)
LengthPart(r) == IF r.length >= 0 THEN 2 ELSE 0
ClosePart(r) == IF r.close THEN 2 ELSE 0
BodyPart(r) == IF r.method # "kPost" THEN 0 ELSE IF r.length < 0 THEN 1 ELSE r.length
HeadPart(r) == 3 + LengthPart(r) + ClosePart(r)
Size(r) == HeadPart(r) + BodyPart(r)

(* Where the requests not yet handled are: behind the cut of a request and *)
(* up to the cut of the next are its bytes.  Of the first of them some are *)
(* consumed, so its cut is not positive.                                   *)
Placed(rest, s, n, cut) ==
    /\ cut \in [n + 1 .. Len(s) + 1 -> Int]
    /\ cut[Len(s) + 1] = Len(rest)
    /\ \A i \in n + 1 .. Len(s) :
          /\ cut[i + 1] = cut[i] + Size(s[i])
          /\ \A k \in 1 .. Size(s[i]) : cut[i] + k >= 1 =>
                cut[i] + k <= Len(rest) /\ rest[cut[i] + k] = Bytes(s[i], i)[k]

(* What the parser knows of r, of which it has consumed c bytes. *)
Unread(req) == req.version = "kUnknown" /\ req.length = -1 /\ ~req.close

LineRead(r, req) == req.method = r.method /\ req.version = r.version

InHeaders(r, c, req) ==
    \/ c = 2 /\ r.length >= 0 /\ req.length = -1 /\ ~req.close
    \/ c = 2 + LengthPart(r) /\ r.close /\ req.length = r.length /\ ~req.close
    \/ c = HeadPart(r) - 1 /\ req.length = r.length /\ req.close = r.close

AllRead(r, req) == LineRead(r, req) /\ req.length = r.length /\ req.close = r.close

BodyRead(r, i, req) ==
    r.method = "kPost" =>
        IF Unbounded(r) THEN Prefix(req.body, Body(r, i)) ELSE req.body = Body(r, i)

(* The request r, the i-th, is in front. *)
Stage(r, i, c) ==
    /\ parser = "kExpectRequestLine" => c = 0 /\ Unread(request)
    /\ parser = "kExpectHeaders" => LineRead(r, request) /\ InHeaders(r, c, request)
    /\ parser = "kExpectBody" =>
          c = HeadPart(r) /\ r.method = "kPost" /\ AllRead(r, request)
    /\ parser = "kGotAll" =>
          /\ AllRead(r, request) /\ BodyRead(r, i, request)
          /\ c = Size(r) \/ (c = HeadPart(r) /\ Unbounded(r))

InFront ==
    Len(handled) < Len(sent) =>
        \E cut : /\ Placed(Rest, sent, Len(handled), cut)
                 /\ Stage(sent[Len(handled) + 1], Len(handled) + 1, -cut[Len(handled) + 1])

(* Nothing is left but the body of a request without a length, which came  *)
(* too late for it.                                                        *)
NoEnd(s) == \A i \in 1 .. Len(s) : s[i] # End

NoneInFront ==
    Len(handled) = Len(sent) =>
        /\ parser = "kExpectRequestLine" /\ Unread(request)
        /\ NoEnd(Rest)
        /\ Rest = << >> \/ (sent # << >> /\ Unbounded(sent[Len(sent)]))

(* A client that gives no length sends no other request. *)
UnboundedLast == \A i \in 1 .. Len(sent) - 1 : ~Unbounded(sent[i])

IInv ==
    /\ Types
    /\ RequestsAsSent
    /\ UnboundedLast
    /\ parser = "kGotAll" => pc = "parsed"
    /\ InFront
    /\ NoneInFront

-----------------------------------------------------------------------------
(* Sequences of bytes *)

(* t is s with p behind it *)
Joint(s, p, t) ==
    /\ t \in Seq(Octets) /\ Len(t) = Len(s) + Len(p)
    /\ \A i \in 1 .. Len(s) : t[i] = s[i]
    /\ \A i \in 1 .. Len(p) : t[Len(s) + i] = p[i]

(* t is s without its first m bytes *)
Dropped(s, m, t) ==
    /\ t \in Seq(Octets) /\ m \in 0 .. Len(s) /\ Len(t) = Len(s) - m
    /\ \A i \in 1 .. Len(t) : t[i] = s[i + m]

(* t is the first m bytes of s *)
FirstOf(s, m, t) ==
    /\ t \in Seq(Octets) /\ m \in 0 .. Len(s) /\ Len(t) = m
    /\ \A i \in 1 .. m : t[i] = s[i]

LEMMA Joined ==
    ASSUME NEW s \in Seq(Octets), NEW p \in Seq(Octets), NEW t, t = s \o p
    PROVE  Joint(s, p, t)
<1>1. Len(s) \in Nat /\ Len(p) \in Nat
  OBVIOUS
<1>2. /\ t \in Seq(Octets) /\ Len(t) = Len(s) + Len(p)
      /\ \A i \in 1 .. Len(s) + Len(p) : t[i] = IF i <= Len(s) THEN s[i] ELSE p[i - Len(s)]
  BY ConcatProperties
<1>3. ASSUME NEW i \in 1 .. Len(s) PROVE t[i] = s[i]
  BY <1>1, <1>2
<1>4. ASSUME NEW i \in 1 .. Len(p) PROVE t[Len(s) + i] = p[i]
  <2>1. Len(s) + i \in 1 .. Len(s) + Len(p) /\ ~(Len(s) + i <= Len(s)) /\ (Len(s) + i) - Len(s) = i
    BY <1>1
  <2> QED BY <1>2, <2>1
<1> QED BY <1>2, <1>3, <1>4 DEF Joint

LEMMA Drops ==
    ASSUME NEW s \in Seq(Octets), NEW m \in 0 .. Len(s), NEW t, t = SubSeq(s, m + 1, Len(s))
    PROVE  Dropped(s, m, t)
<1>1. Len(s) \in Nat /\ m \in Nat /\ m <= Len(s)
  OBVIOUS
<1>2. \A i \in m + 1 .. Len(s) : s[i] \in Octets
  BY <1>1, ElementOfSeq
<1>3. /\ t \in Seq(Octets)
      /\ Len(t) = IF m + 1 <= Len(s) THEN Len(s) - (m + 1) + 1 ELSE 0
      /\ \A i \in 1 .. Len(s) - (m + 1) + 1 : t[i] = s[m + 1 + i - 1]
  BY <1>1, <1>2, SubSeqProperties
<1>4. Len(t) = Len(s) - m
  BY <1>1, <1>3
<1>5. ASSUME NEW i \in 1 .. Len(t) PROVE t[i] = s[i + m]
  <2>1. i \in 1 .. Len(s) - (m + 1) + 1 /\ m + 1 + i - 1 = i + m
    BY <1>1, <1>4
  <2> QED BY <1>3, <2>1
<1> QED BY <1>3, <1>4, <1>5 DEF Dropped

LEMMA Firsts ==
    ASSUME NEW s \in Seq(Octets), NEW m \in 0 .. Len(s), NEW t, t = SubSeq(s, 1, m)
    PROVE  FirstOf(s, m, t)
<1>1. Len(s) \in Nat /\ m \in Nat /\ m <= Len(s)
  OBVIOUS
<1>2. \A i \in 1 .. m : s[i] \in Octets
  BY <1>1, ElementOfSeq
<1>3. /\ t \in Seq(Octets)
      /\ Len(t) = IF 1 <= m THEN m - 1 + 1 ELSE 0
      /\ \A i \in 1 .. m - 1 + 1 : t[i] = s[1 + i - 1]
  BY <1>1, <1>2, SubSeqProperties
<1>4. Len(t) = m
  BY <1>1, <1>3
<1>5. ASSUME NEW i \in 1 .. m PROVE t[i] = s[i]
  <2>1. i \in 1 .. m - 1 + 1 /\ 1 + i - 1 = i
    BY <1>1
  <2> QED BY <1>3, <2>1
<1> QED BY <1>3, <1>4, <1>5 DEF FirstOf

-----------------------------------------------------------------------------
(* The bytes of a request *)

LEMMA Sizes ==
    ASSUME NEW r \in Requests
    PROVE  /\ LengthPart(r) \in {0, 2} /\ ClosePart(r) \in {0, 2} /\ BodyPart(r) \in Nat
           /\ HeadPart(r) \in Nat /\ Size(r) \in Nat
           /\ HeadPart(r) = 3 + LengthPart(r) + ClosePart(r)
           /\ Size(r) = HeadPart(r) + BodyPart(r)
<1>1. r.length \in Nat \cup {-1} /\ r.close \in BOOLEAN
  BY DEF Requests
<1> QED BY <1>1 DEF LengthPart, ClosePart, BodyPart, HeadPart, Size

(* b is the bytes of r, the i-th request *)
BytesAre(b, r, i) ==
    /\ b \in Seq(Octets) /\ Len(b) = Size(r)
    /\ b[1] = [t |-> "line", method |-> r.method, version |-> r.version]
    /\ b[2] = End
    /\ r.length >= 0 => b[3] = [t |-> "length", n |-> r.length] /\ b[4] = End
    /\ r.close => /\ b[3 + LengthPart(r)] = [t |-> "close"]
                  /\ b[4 + LengthPart(r)] = End
    /\ b[HeadPart(r)] = End
    /\ \A k \in 1 .. BodyPart(r) : b[HeadPart(r) + k] = [t |-> "body", of |-> i]

LEMMA BodyIs ==
    ASSUME NEW r \in Requests, NEW i \in Nat
    PROVE  /\ Body(r, i) \in Seq(Octets) /\ Len(Body(r, i)) = BodyPart(r)
           /\ \A k \in 1 .. BodyPart(r) : Body(r, i)[k] = [t |-> "body", of |-> i]
<1>1. BodyPart(r) \in Nat
  BY Sizes
<1>2. [t |-> "body", of |-> i] \in Octets
  BY DEF Octets
<1>3. Body(r, i) = [k \in 1 .. BodyPart(r) |-> [t |-> "body", of |-> i]]
  BY DEF Body, BodyPart
<1>4. Body(r, i) \in [1 .. BodyPart(r) -> Octets]
  BY <1>2, <1>3
<1> QED BY <1>1, <1>3, <1>4

LEMMA HeaderIs ==
    ASSUME NEW there \in BOOLEAN, NEW h, there => h \in Octets
    PROVE  /\ Header(there, h) \in Seq(Octets)
           /\ Len(Header(there, h)) = IF there THEN 2 ELSE 0
           /\ there => Header(there, h)[1] = h /\ Header(there, h)[2] = End
<1>1. End \in Octets
  BY DEF Octets
<1> QED BY <1>1 DEF Header

LEMMA RequestBytes ==
    ASSUME NEW r \in Requests, NEW i \in Nat
    PROVE  BytesAre(Bytes(r, i), r, i)
<1> DEFINE line == [t |-> "line", method |-> r.method, version |-> r.version]
           len == [t |-> "length", n |-> r.length]
           cls == [t |-> "close"]
<1>1. /\ r.length \in Nat \cup {-1} /\ r.close \in BOOLEAN
      /\ r.method \in {"kGet", "kPost", "kInvalid"}
      /\ r.version \in {"kHttp10", "kHttp11", "kUnknown"}
  BY DEF Requests
<1>2. line \in Octets /\ End \in Octets /\ cls \in Octets
  BY <1>1 DEF Octets
<1>3. r.length >= 0 => len \in Octets
  BY <1>1 DEF Octets
<1>4. PICK l \in Nat : l = LengthPart(r)
  BY Sizes
<1>5. PICK c \in Nat : c = ClosePart(r)
  BY Sizes
<1>6. PICK n \in Nat : n = BodyPart(r)
  BY Sizes
<1> HIDE DEF line, len, cls
<1>7. PICK a : a = <<line, End>>
  OBVIOUS
<1>8. a \in Seq(Octets) /\ Len(a) = 2 /\ a[1] = line /\ a[2] = End
  BY <1>2, <1>7
<1>9. PICK hl : hl = Header(r.length >= 0, len)
  OBVIOUS
<1>10. /\ hl \in Seq(Octets) /\ Len(hl) = l
       /\ r.length >= 0 => hl[1] = len /\ hl[2] = End
  <2>1. (r.length >= 0) \in BOOLEAN
    BY <1>1
  <2> QED BY <1>3, <1>4, <1>9, <2>1, HeaderIs DEF LengthPart
<1>11. PICK hc : hc = Header(r.close, cls)
  OBVIOUS
<1>12. /\ hc \in Seq(Octets) /\ Len(hc) = c
       /\ r.close => hc[1] = cls /\ hc[2] = End
  BY <1>1, <1>2, <1>5, <1>11, HeaderIs DEF ClosePart
<1>13. PICK e : e = <<End>>
  OBVIOUS
<1>14. e \in Seq(Octets) /\ Len(e) = 1 /\ e[1] = End
  BY <1>2, <1>13
<1>15. PICK b : b = Body(r, i)
  OBVIOUS
<1>16. /\ b \in Seq(Octets) /\ Len(b) = n
       /\ \A k \in 1 .. n : b[k] = [t |-> "body", of |-> i]
  BY <1>6, <1>15, BodyIs
<1>17. PICK s1 : s1 = a \o hl
  OBVIOUS
<1>18. Joint(a, hl, s1)
  BY <1>8, <1>10, <1>17, Joined
<1>19. PICK s2 : s2 = s1 \o hc
  OBVIOUS
<1>20. Joint(s1, hc, s2)
  <2>1. s1 \in Seq(Octets)
    BY <1>18 DEF Joint
  <2> QED BY <1>12, <1>19, <2>1, Joined
<1>21. PICK s3 : s3 = s2 \o e
  OBVIOUS
<1>22. Joint(s2, e, s3)
  <2>1. s2 \in Seq(Octets)
    BY <1>20 DEF Joint
  <2> QED BY <1>14, <1>21, <2>1, Joined
<1>23. PICK s4 : s4 = s3 \o b
  OBVIOUS
<1>24. Joint(s3, b, s4)
  <2>1. s3 \in Seq(Octets)
    BY <1>22 DEF Joint
  <2> QED BY <1>16, <1>23, <2>1, Joined
<1>25. Bytes(r, i) = s4
  BY <1>7, <1>9, <1>11, <1>13, <1>15, <1>17, <1>19, <1>21, <1>23 DEF Bytes, line, len, cls
<1>26. s1 \in Seq(Octets) /\ Len(s1) = 2 + l /\ s1[1] = line /\ s1[2] = End
  BY <1>8, <1>10, <1>18 DEF Joint
<1>27. r.length >= 0 => l = 2 /\ s1[3] = len /\ s1[4] = End
  <2> SUFFICES ASSUME r.length >= 0 PROVE l = 2 /\ s1[3] = len /\ s1[4] = End
    OBVIOUS
  <2>1. l = 2
    BY <1>4 DEF LengthPart
  <2>2. 1 \in 1 .. Len(hl) /\ 2 \in 1 .. Len(hl)
    BY <1>10, <2>1
  <2>3. s1[Len(a) + 1] = hl[1] /\ s1[Len(a) + 2] = hl[2]
    BY <1>18, <2>2 DEF Joint
  <2> QED BY <1>8, <1>10, <2>1, <2>3
<1>28. /\ s2 \in Seq(Octets) /\ Len(s2) = 2 + l + c
       /\ \A k \in 1 .. 2 + l : s2[k] = s1[k]
  BY <1>12, <1>20, <1>26 DEF Joint
<1>29. r.close => c = 2 /\ s2[3 + l] = cls /\ s2[4 + l] = End
  <2> SUFFICES ASSUME r.close PROVE c = 2 /\ s2[3 + l] = cls /\ s2[4 + l] = End
    OBVIOUS
  <2>1. c = 2
    BY <1>5 DEF ClosePart
  <2>2. 1 \in 1 .. Len(hc) /\ 2 \in 1 .. Len(hc)
    BY <1>12, <2>1
  <2>3. s2[Len(s1) + 1] = hc[1] /\ s2[Len(s1) + 2] = hc[2]
    BY <1>20, <2>2 DEF Joint
  <2>4. Len(s1) + 1 = 3 + l /\ Len(s1) + 2 = 4 + l
    BY <1>26
  <2> QED BY <1>12, <2>1, <2>3, <2>4
<1>30. /\ s3 \in Seq(Octets) /\ Len(s3) = 3 + l + c
       /\ \A k \in 1 .. 2 + l + c : s3[k] = s2[k]
       /\ s3[3 + l + c] = End
  <2>1. 1 \in 1 .. Len(e) /\ Len(s2) + 1 = 3 + l + c
    BY <1>14, <1>28
  <2> QED BY <1>14, <1>22, <1>28, <2>1 DEF Joint
<1>31. /\ s4 \in Seq(Octets) /\ Len(s4) = 3 + l + c + n
       /\ \A k \in 1 .. 3 + l + c : s4[k] = s3[k]
       /\ \A k \in 1 .. n : s4[3 + l + c + k] = b[k]
  BY <1>16, <1>24, <1>30 DEF Joint
<1>32. HeadPart(r) = 3 + l + c /\ Size(r) = 3 + l + c + n
  BY <1>4, <1>5, <1>6, Sizes
<1>33. s4[1] = line /\ s4[2] = End /\ s4[3 + l + c] = End
  <2>1. 1 \in 1 .. 2 + l /\ 2 \in 1 .. 2 + l
    OBVIOUS
  <2>2. 1 \in 1 .. 2 + l + c /\ 2 \in 1 .. 2 + l + c
    OBVIOUS
  <2>3. 1 \in 1 .. 3 + l + c /\ 2 \in 1 .. 3 + l + c /\ 3 + l + c \in 1 .. 3 + l + c
    OBVIOUS
  <2> QED BY <1>26, <1>28, <1>30, <1>31, <2>1, <2>2, <2>3
<1>34. r.length >= 0 => s4[3] = len /\ s4[4] = End
  <2> SUFFICES ASSUME r.length >= 0 PROVE s4[3] = len /\ s4[4] = End
    OBVIOUS
  <2>1. l = 2
    BY <1>27
  <2>2. 3 \in 1 .. 2 + l /\ 4 \in 1 .. 2 + l
    BY <2>1
  <2>3. 3 \in 1 .. 2 + l + c /\ 4 \in 1 .. 2 + l + c
    BY <2>1
  <2>4. 3 \in 1 .. 3 + l + c /\ 4 \in 1 .. 3 + l + c
    BY <2>1
  <2> QED BY <1>27, <1>28, <1>30, <1>31, <2>2, <2>3, <2>4
<1>35. r.close => s4[3 + l] = cls /\ s4[4 + l] = End
  <2> SUFFICES ASSUME r.close PROVE s4[3 + l] = cls /\ s4[4 + l] = End
    OBVIOUS
  <2>1. c = 2
    BY <1>29
  <2>2. 3 + l \in 1 .. 2 + l + c /\ 4 + l \in 1 .. 2 + l + c
    BY <2>1
  <2>3. 3 + l \in 1 .. 3 + l + c /\ 4 + l \in 1 .. 3 + l + c
    BY <2>1
  <2> QED BY <1>29, <1>30, <1>31, <2>2, <2>3
<1>36. s4 \in Seq(Octets) /\ Len(s4) = Size(r) /\ s4[HeadPart(r)] = End
  BY <1>31, <1>32, <1>33
<1>37. \A k \in 1 .. BodyPart(r) : s4[HeadPart(r) + k] = [t |-> "body", of |-> i]
  BY <1>6, <1>16, <1>31, <1>32
<1>38. r.close => s4[3 + LengthPart(r)] = cls /\ s4[4 + LengthPart(r)] = End
  BY <1>4, <1>35
<1>39. BytesAre(s4, r, i)
  BY <1>33, <1>34, <1>36, <1>37, <1>38 DEF BytesAre, line, len, cls
<1> QED BY <1>25, <1>39

-----------------------------------------------------------------------------
(* Where the requests are *)

(* The bytes of the request in front that were not consumed begin the rest. *)
LEMMA FrontBytes ==
    ASSUME NEW rest \in Seq(Octets), NEW s \in Seq(Requests), NEW n \in Nat, n < Len(s),
           NEW cut, Placed(rest, s, n, cut),
           NEW c \in Nat, c = -cut[n + 1]
    PROVE  /\ n + 1 \in 1 .. Len(s) /\ s[n + 1] \in Requests
           /\ BytesAre(Bytes(s[n + 1], n + 1), s[n + 1], n + 1)
           /\ \A k \in 1 .. Size(s[n + 1]) : k > c =>
                 /\ k - c \in 1 .. Len(rest)
                 /\ rest[k - c] = Bytes(s[n + 1], n + 1)[k]
<1>1. Len(s) \in Nat /\ Len(rest) \in Nat
  OBVIOUS
<1>2. n + 1 \in 1 .. Len(s) /\ n + 1 \in n + 1 .. Len(s) /\ n + 1 \in Nat
  BY <1>1
<1>3. s[n + 1] \in Requests
  BY <1>2
<1>4. BytesAre(Bytes(s[n + 1], n + 1), s[n + 1], n + 1)
  BY <1>2, <1>3, RequestBytes
<1>5. cut[n + 1] \in Int
  <2>1. n + 1 \in n + 1 .. Len(s) + 1
    BY <1>1, <1>2
  <2>2. cut \in [n + 1 .. Len(s) + 1 -> Int]
    BY DEF Placed
  <2> QED BY <2>1, <2>2
<1>6. ASSUME NEW k \in 1 .. Size(s[n + 1]), k > c
      PROVE  k - c \in 1 .. Len(rest) /\ rest[k - c] = Bytes(s[n + 1], n + 1)[k]
  <2>1. Size(s[n + 1]) \in Nat
    BY <1>3, Sizes
  <2>2. k - c = cut[n + 1] + k /\ cut[n + 1] + k >= 1
    BY <1>5, <1>6, <2>1
  <2>3. cut[n + 1] + k <= Len(rest) /\ rest[cut[n + 1] + k] = Bytes(s[n + 1], n + 1)[k]
    BY <1>2, <2>2 DEF Placed
  <2> QED BY <1>1, <1>6, <2>1, <2>2, <2>3
<1> QED BY <1>2, <1>3, <1>4, <1>6

(* Bytes are consumed. *)
LEMMA PlacedConsumed ==
    ASSUME NEW rest \in Seq(Octets), NEW s \in Seq(Requests), NEW n \in Nat, n < Len(s),
           NEW cut, Placed(rest, s, n, cut), NEW m, NEW left, Dropped(rest, m, left)
    PROVE  \E cut2 : Placed(left, s, n, cut2) /\ cut2[n + 1] = cut[n + 1] - m
<1>1. /\ Len(s) \in Nat /\ Len(rest) \in Nat /\ m \in Nat /\ m <= Len(rest)
      /\ Len(left) = Len(rest) - m /\ \A i \in 1 .. Len(left) : left[i] = rest[i + m]
  BY DEF Dropped
<1>2. PICK d : d = [i \in n + 1 .. Len(s) + 1 |-> cut[i] - m]
  OBVIOUS
<1>3. \A i \in n + 1 .. Len(s) + 1 : cut[i] \in Int /\ d[i] = cut[i] - m /\ d[i] \in Int
  BY <1>1, <1>2 DEF Placed
<1>4. d \in [n + 1 .. Len(s) + 1 -> Int]
  BY <1>2, <1>3
<1>5. Len(s) + 1 \in n + 1 .. Len(s) + 1 /\ n + 1 \in n + 1 .. Len(s) + 1
  BY <1>1
<1>6. d[Len(s) + 1] = Len(left) /\ d[n + 1] = cut[n + 1] - m
  BY <1>1, <1>3, <1>5 DEF Placed
<1>7. ASSUME NEW i \in n + 1 .. Len(s)
      PROVE  /\ d[i + 1] = d[i] + Size(s[i])
             /\ \A k \in 1 .. Size(s[i]) : d[i] + k >= 1 =>
                   d[i] + k <= Len(left) /\ left[d[i] + k] = Bytes(s[i], i)[k]
  <2>1. i \in n + 1 .. Len(s) + 1 /\ i + 1 \in n + 1 .. Len(s) + 1 /\ i \in 1 .. Len(s)
    BY <1>1
  <2>2. Size(s[i]) \in Nat
    BY <2>1, Sizes
  <2>3. cut[i + 1] = cut[i] + Size(s[i])
    BY DEF Placed
  <2>4. d[i + 1] = d[i] + Size(s[i])
    <3>1. cut[i] \in Int /\ d[i] = cut[i] - m /\ d[i + 1] = cut[i + 1] - m
      BY <1>3, <2>1
    <3> QED BY <1>1, <2>2, <2>3, <3>1
  <2>5. ASSUME NEW k \in 1 .. Size(s[i]), d[i] + k >= 1
        PROVE  d[i] + k <= Len(left) /\ left[d[i] + k] = Bytes(s[i], i)[k]
    <3>1. k \in Nat /\ cut[i] \in Int /\ d[i] = cut[i] - m
      BY <1>3, <2>1, <2>2
    <3>2. cut[i] + k >= 1
      BY <1>1, <2>5, <3>1
    <3>3. cut[i] + k <= Len(rest) /\ rest[cut[i] + k] = Bytes(s[i], i)[k]
      BY <3>2 DEF Placed
    <3>4. d[i] + k \in 1 .. Len(left) /\ (d[i] + k) + m = cut[i] + k
      BY <1>1, <2>5, <3>1, <3>3
    <3>5. left[d[i] + k] = rest[(d[i] + k) + m]
      BY <1>1, <3>4
    <3> QED BY <1>1, <3>3, <3>4, <3>5
  <2> QED BY <2>4, <2>5
<1>8. Placed(left, s, n, d)
  BY <1>4, <1>6, <1>7 DEF Placed
<1> QED BY <1>6, <1>8

(* t is s with the request r behind it *)
Added(s, r, t) ==
    /\ Len(t) = Len(s) + 1 /\ t[Len(s) + 1] = r
    /\ \A i \in 1 .. Len(s) : t[i] = s[i]

(* A request is sent. *)
LEMMA PlacedSent ==
    ASSUME NEW rest \in Seq(Octets), NEW s \in Seq(Requests), NEW n \in Nat, n <= Len(s),
           NEW cut, Placed(rest, s, n, cut), NEW r \in Requests, NEW t, Added(s, r, t),
           NEW more, Joint(rest, Bytes(r, Len(s) + 1), more)
    PROVE  \E cut2 : Placed(more, t, n, cut2) /\ cut2[n + 1] = cut[n + 1]
<1>1. Len(s) \in Nat /\ Len(rest) \in Nat /\ Size(r) \in Nat
  BY Sizes
<1>2. PICK b : b = Bytes(r, Len(s) + 1)
  OBVIOUS
<1>3. b \in Seq(Octets) /\ Len(b) = Size(r)
  <2>1. Len(s) + 1 \in Nat
    BY <1>1
  <2>2. BytesAre(b, r, Len(s) + 1)
    BY <1>2, <2>1, RequestBytes
  <2> QED BY <2>2 DEF BytesAre
<1>4. Joint(rest, b, more)
  BY <1>2
<1>5. /\ Len(more) = Len(rest) + Size(r)
      /\ \A i \in 1 .. Len(rest) : more[i] = rest[i]
      /\ \A i \in 1 .. Size(r) : more[Len(rest) + i] = b[i]
  BY <1>3, <1>4 DEF Joint
<1>7. Len(t) = Len(s) + 1 /\ t[Len(s) + 1] = r /\ \A i \in 1 .. Len(s) : t[i] = s[i]
  BY DEF Added
<1>8. PICK d : d = [i \in n + 1 .. Len(t) + 1 |->
                       IF i = Len(t) + 1 THEN Len(rest) + Size(r) ELSE cut[i]]
  OBVIOUS
<1>9. \A i \in n + 1 .. Len(s) + 1 : cut[i] \in Int /\ d[i] = cut[i]
  <2> SUFFICES ASSUME NEW i \in n + 1 .. Len(s) + 1
               PROVE  cut[i] \in Int /\ d[i] = cut[i]
    OBVIOUS
  <2>1. i \in n + 1 .. Len(t) + 1 /\ i # Len(t) + 1
    BY <1>1, <1>7
  <2> QED BY <1>8, <2>1 DEF Placed
<1>10. d[Len(t) + 1] = Len(rest) + Size(r)
  <2>1. Len(t) + 1 \in n + 1 .. Len(t) + 1
    BY <1>1, <1>7
  <2> QED BY <1>8, <2>1
<1>11. d \in [n + 1 .. Len(t) + 1 -> Int]
  <2>1. \A i \in n + 1 .. Len(t) + 1 : i = Len(t) + 1 \/ i \in n + 1 .. Len(s) + 1
    BY <1>1, <1>7
  <2>2. \A i \in n + 1 .. Len(t) + 1 : d[i] \in Int
    <3>1. Len(rest) + Size(r) \in Int
      BY <1>1
    <3> QED BY <1>9, <1>10, <2>1, <3>1
  <2> QED BY <1>8, <2>2
<1>12. cut[Len(s) + 1] = Len(rest)
  BY DEF Placed
<1>13. ASSUME NEW i \in n + 1 .. Len(s)
       PROVE  /\ d[i + 1] = d[i] + Size(t[i])
              /\ \A k \in 1 .. Size(t[i]) : d[i] + k >= 1 =>
                    d[i] + k <= Len(more) /\ more[d[i] + k] = Bytes(t[i], i)[k]
  <2>1. i \in 1 .. Len(s) /\ i \in n + 1 .. Len(s) + 1 /\ i + 1 \in n + 1 .. Len(s) + 1
    BY <1>1
  <2>2. t[i] = s[i] /\ d[i] = cut[i] /\ d[i + 1] = cut[i + 1]
    BY <1>7, <1>9, <2>1
  <2>3. Size(s[i]) \in Nat /\ cut[i] \in Int
    <3>1. s[i] \in Requests
      BY <2>1
    <3> QED BY <1>9, <2>1, <3>1, Sizes
  <2>4. cut[i + 1] = cut[i] + Size(s[i])
    BY DEF Placed
  <2>5. ASSUME NEW k \in 1 .. Size(s[i]), cut[i] + k >= 1
        PROVE  cut[i] + k <= Len(more) /\ more[cut[i] + k] = Bytes(s[i], i)[k]
    <3>1. cut[i] + k <= Len(rest) /\ rest[cut[i] + k] = Bytes(s[i], i)[k]
      BY <2>5 DEF Placed
    <3>2. cut[i] + k \in 1 .. Len(rest) /\ cut[i] + k <= Len(more)
      BY <1>1, <1>5, <2>3, <2>5, <3>1
    <3> QED BY <1>5, <3>1, <3>2
  <2> QED BY <2>2, <2>4, <2>5
<1>14. /\ d[Len(s) + 2] = d[Len(s) + 1] + Size(r)
       /\ \A k \in 1 .. Size(r) : d[Len(s) + 1] + k >= 1 =>
             /\ d[Len(s) + 1] + k <= Len(more)
             /\ more[d[Len(s) + 1] + k] = Bytes(r, Len(s) + 1)[k]
  <2>1. Len(s) + 1 \in n + 1 .. Len(s) + 1 /\ Len(s) + 2 = Len(t) + 1
    BY <1>1, <1>7
  <2>2. d[Len(s) + 1] = Len(rest) /\ d[Len(s) + 2] = Len(rest) + Size(r)
    BY <1>9, <1>10, <1>12, <2>1
  <2>3. \A k \in 1 .. Size(r) : Len(rest) + k <= Len(more)
    BY <1>1, <1>5
  <2> QED BY <1>2, <1>5, <2>2, <2>3
<1>15. ASSUME NEW i \in n + 1 .. Len(t)
       PROVE  /\ d[i + 1] = d[i] + Size(t[i])
              /\ \A k \in 1 .. Size(t[i]) : d[i] + k >= 1 =>
                    d[i] + k <= Len(more) /\ more[d[i] + k] = Bytes(t[i], i)[k]
  <2>1. i \in n + 1 .. Len(s) \/ i = Len(s) + 1
    BY <1>1, <1>7
  <2>2. CASE i \in n + 1 .. Len(s)
    BY <1>13, <2>2
  <2>3. CASE i = Len(s) + 1
    <3>1. i + 1 = Len(s) + 2 /\ t[i] = r
      BY <1>1, <1>7, <2>3
    <3> QED BY <1>14, <2>3, <3>1
  <2> QED BY <2>1, <2>2, <2>3
<1>16. Placed(more, t, n, d)
  BY <1>5, <1>10, <1>11, <1>15 DEF Placed
<1>17. d[n + 1] = cut[n + 1]
  <2>1. n + 1 \in n + 1 .. Len(s) + 1
    BY <1>1
  <2> QED BY <1>9, <2>1
<1> QED BY <1>16, <1>17

(* The request in front is handled. *)
LEMMA PlacedHandled ==
    ASSUME NEW rest \in Seq(Octets), NEW s \in Seq(Requests), NEW n \in Nat, n < Len(s),
           NEW cut, Placed(rest, s, n, cut)
    PROVE  \E cut2 : /\ Placed(rest, s, n + 1, cut2)
                     /\ cut2[n + 2] = cut[n + 1] + Size(s[n + 1])
<1>1. Len(s) \in Nat /\ n + 1 \in n + 1 .. Len(s) /\ n + 2 \in n + 2 .. Len(s) + 1
  OBVIOUS
<1>2. PICK d : d = [i \in n + 2 .. Len(s) + 1 |-> cut[i]]
  OBVIOUS
<1>3. \A i \in n + 2 .. Len(s) + 1 : i \in n + 1 .. Len(s) + 1 /\ d[i] = cut[i]
  BY <1>1, <1>2
<1>4. d \in [n + 2 .. Len(s) + 1 -> Int]
  BY <1>2, <1>3 DEF Placed
<1>5. Len(s) + 1 \in n + 2 .. Len(s) + 1
  BY <1>1
<1>6. \A i \in n + 2 .. Len(s) :
          /\ i \in n + 1 .. Len(s) /\ i \in n + 2 .. Len(s) + 1 /\ i + 1 \in n + 2 .. Len(s) + 1
  BY <1>1
<1>7. cut[n + 2] = cut[n + 1] + Size(s[n + 1])
  <2>1. (n + 1) + 1 = n + 2
    OBVIOUS
  <2> QED BY <1>1, <2>1 DEF Placed
<1>8. (n + 1) + 1 = n + 2
  OBVIOUS
<1>9. Placed(rest, s, n + 1, d)
  BY <1>3, <1>4, <1>5, <1>6, <1>8 DEF Placed
<1> QED BY <1>1, <1>3, <1>7, <1>9

-----------------------------------------------------------------------------
(* findCRLF() and the buffer *)

LEMMA Earliest ==
    ASSUME NEW S, S \subseteq Nat, S # {}
    PROVE  \E x \in S : \A y \in S : x <= y
<1>1. PICK R : R = OpToRel(<, Nat)
  OBVIOUS
<1>2. IsWellFoundedOn(R, Nat)
  BY <1>1, NatLessThanWellFounded
<1>3. \E x \in S : \A y \in S : ~ (<<y, x>> \in R)
  BY <1>2, WFMin
<1>4. R = {ss \in Nat \X Nat : ss[1] < ss[2]}
  BY <1>1 DEF OpToRel
<1>5. \A x, y \in S : ~ (<<y, x>> \in R) => x <= y
  BY <1>4
<1> QED BY <1>3, <1>5

LEMMA CRLFFound ==
    ASSUME buf \in Seq(Octets), findCRLF # 0
    PROVE  /\ findCRLF \in 1 .. Len(buf) /\ buf[findCRLF] = End
           /\ \A j \in 1 .. findCRLF - 1 : buf[j] # End
<1>1. DOMAIN buf = 1 .. Len(buf) /\ Len(buf) \in Nat
  OBVIOUS
<1>2. PICK i \in 1 .. Len(buf) : buf[i] = End
  BY <1>1 DEF findCRLF
<1> DEFINE P(m) == m \in 1 .. Len(buf) /\ buf[m] = End
<1>3. \E m \in 1 .. Len(buf) : P(m) /\ \A j \in 1 .. m - 1 : ~P(j)
  <2> DEFINE S == {m \in 1 .. Len(buf) : buf[m] = End}
  <2>1. S \subseteq Nat /\ S # {}
    BY <1>1, <1>2
  <2>2. PICK m \in S : \A k \in S : m <= k
    <3> HIDE DEF S
    <3> QED BY <2>1, Earliest
  <2>3. \A j \in 1 .. m - 1 : j \notin S
    BY <1>1, <2>2
  <2> QED BY <1>1, <2>2, <2>3
<1>4. \E m \in DOMAIN buf : buf[m] = End /\ \A j \in 1 .. m - 1 : buf[j] # End
  BY <1>1, <1>3
<1>5. \E m \in DOMAIN buf : buf[m] = End
  BY <1>1, <1>2
<1>6. findCRLF = CHOOSE m \in DOMAIN buf :
                    buf[m] = End /\ \A j \in 1 .. m - 1 : buf[j] # End
  BY <1>5 DEF findCRLF
<1> HIDE DEF P
<1> QED BY <1>1, <1>4, <1>6

LEMMA NoCRLF ==
    ASSUME buf \in Seq(Octets), NoEnd(buf)
    PROVE  findCRLF = 0
<1>1. DOMAIN buf = 1 .. Len(buf)
  OBVIOUS
<1> QED BY <1>1 DEF findCRLF, NoEnd

(* The buffer begins with a line of one byte, if it has a whole line. *)
LEMMA FirstLine ==
    ASSUME buf \in Seq(Octets), findCRLF # 0, NEW x, x # End,
           Len(buf) >= 1 => buf[1] = x, Len(buf) >= 2 => buf[2] = End
    PROVE  findCRLF = 2 /\ 2 \in 0 .. Len(buf) /\ Len(Line) = 1 /\ Line[1] = x
<1>1. Len(buf) \in Nat
  OBVIOUS
<1>2. PICK m : m = findCRLF
  OBVIOUS
<1>3. m \in 1 .. Len(buf) /\ buf[m] = End /\ \A j \in 1 .. m - 1 : buf[j] # End
  BY <1>2, CRLFFound
<1>4. m # 1
  BY <1>1, <1>3
<1>5. Len(buf) >= 2 /\ ~(2 \in 1 .. m - 1)
  BY <1>1, <1>3, <1>4
<1>6. m = 2
  BY <1>1, <1>3, <1>4, <1>5
<1>7. Line = SubSeq(buf, 1, 1)
  BY <1>2, <1>6 DEF Line
<1>8. FirstOf(buf, 1, Line)
  <2>1. 1 \in 0 .. Len(buf)
    BY <1>1, <1>5
  <2> QED BY <1>7, <2>1, Firsts
<1>9. Len(Line) = 1 /\ Line[1] = buf[1]
  BY <1>8 DEF FirstOf
<1> QED BY <1>1, <1>2, <1>5, <1>6, <1>9

(* The buffer begins with an empty line. *)
LEMMA FirstEmpty ==
    ASSUME buf \in Seq(Octets), findCRLF # 0, Len(buf) >= 1 => buf[1] = End
    PROVE  findCRLF = 1 /\ Len(buf) >= 1
<1>1. Len(buf) \in Nat
  OBVIOUS
<1>2. PICK m : m = findCRLF
  OBVIOUS
<1>3. m \in 1 .. Len(buf) /\ buf[m] = End /\ \A j \in 1 .. m - 1 : buf[j] # End
  BY <1>2, CRLFFound
<1>4. Len(buf) >= 1 /\ ~(1 \in 1 .. m - 1)
  BY <1>1, <1>3
<1>5. m = 1
  BY <1>1, <1>3, <1>4
<1> QED BY <1>2, <1>4, <1>5

LEMMA BufferInFront ==
    ASSUME Types
    PROVE  /\ Rest \in Seq(Octets) /\ Len(Rest) \in Nat /\ Len(buf) \in Nat
           /\ Len(buf) <= Len(Rest) /\ \A i \in 1 .. Len(buf) : i \in 1 .. Len(Rest) /\ Rest[i] = buf[i]
<1>1. buf \in Seq(Octets) /\ wire \in Seq(Octets)
  BY DEF Types
<1>2. Joint(buf, wire, Rest)
  BY <1>1, Joined DEF Rest
<1>3. Len(buf) \in Nat /\ Len(wire) \in Nat
  BY <1>1
<1> QED BY <1>2, <1>3 DEF Joint

(* retrieveUntil() *)
LEMMA Retrieved ==
    ASSUME Types, NEW m \in 0 .. Len(buf), retrieveUntil(m), wire' = wire
    PROVE  /\ buf' \in Seq(Octets) /\ Dropped(Rest, m, Rest')
<1>1. /\ buf \in Seq(Octets) /\ wire \in Seq(Octets)
      /\ Len(buf) \in Nat /\ Len(wire) \in Nat /\ m \in Nat /\ m <= Len(buf)
  BY DEF Types
<1>2. Dropped(buf, m, buf')
  BY <1>1, Drops DEF retrieveUntil
<1>3. /\ buf' \in Seq(Octets) /\ Len(buf') = Len(buf) - m
      /\ \A i \in 1 .. Len(buf') : buf'[i] = buf[i + m]
  BY <1>2 DEF Dropped
<1>4. PICK s : s = Rest
  OBVIOUS
<1>5. PICK t : t = Rest'
  OBVIOUS
<1>6. Joint(buf, wire, s)
  BY <1>1, <1>4, Joined DEF Rest
<1>7. Joint(buf', wire, t)
  <2>1. t = buf' \o wire
    BY <1>5 DEF Rest
  <2> QED BY <1>1, <1>3, <2>1, Joined
<1>8. Len(s) = Len(buf) + Len(wire) /\ t \in Seq(Octets) /\ Len(t) = Len(buf) - m + Len(wire)
  BY <1>3, <1>6, <1>7 DEF Joint
<1>9. ASSUME NEW i \in 1 .. Len(t) PROVE t[i] = s[i + m]
  <2>1. CASE i <= Len(buf) - m
    <3>1. i \in 1 .. Len(buf') /\ i + m \in 1 .. Len(buf)
      BY <1>1, <1>3, <1>8, <2>1
    <3>2. t[i] = buf'[i] /\ s[i + m] = buf[i + m]
      BY <1>6, <1>7, <3>1 DEF Joint
    <3> QED BY <1>3, <3>1, <3>2
  <2>2. CASE i > Len(buf) - m
    <3>1. PICK j \in 1 .. Len(wire) : i = Len(buf) - m + j
      <4>1. PICK d : d = i - (Len(buf) - m)
        OBVIOUS
      <4>2. d \in 1 .. Len(wire) /\ i = Len(buf) - m + d
        BY <1>1, <1>8, <2>2, <4>1
      <4> QED BY <4>2
    <3>2. t[Len(buf') + j] = wire[j] /\ s[Len(buf) + j] = wire[j]
      BY <1>6, <1>7, <3>1 DEF Joint
    <3>3. Len(buf') + j = i /\ Len(buf) + j = i + m
      BY <1>1, <1>3, <3>1
    <3> QED BY <3>2, <3>3
  <2> QED BY <1>1, <1>8, <2>1, <2>2
<1>10. m \in 0 .. Len(s) /\ Len(t) = Len(s) - m
  BY <1>1, <1>8
<1> QED BY <1>3, <1>4, <1>5, <1>8, <1>9, <1>10 DEF Dropped

-----------------------------------------------------------------------------
(* The request in front *)

(* r is in front, n are handled, and c bytes of r are consumed. *)
Front(n, r, c, cut) ==
    /\ n = Len(handled) /\ n \in Nat /\ n < Len(sent)
    /\ r = sent[n + 1] /\ r \in Requests
    /\ c \in Nat /\ cut[n + 1] = -c
    /\ Placed(Rest, sent, n, cut)
    /\ Stage(r, n + 1, c)

LEMMA FrontIs ==
    ASSUME IInv, Len(handled) < Len(sent)
    PROVE  \E n, r, c, cut : Front(n, r, c, cut)
<1>1. PICK n : n = Len(handled)
  OBVIOUS
<1>2. n \in Nat /\ Len(sent) \in Nat /\ n + 1 \in 1 .. Len(sent)
  BY <1>1 DEF IInv, Types
<1>3. PICK r : r = sent[n + 1]
  OBVIOUS
<1>4. r \in Requests
  BY <1>2, <1>3 DEF IInv, Types
<1>5. PICK cut : Placed(Rest, sent, n, cut) /\ Stage(r, n + 1, -cut[n + 1])
  BY <1>1, <1>3 DEF IInv, InFront
<1>6. cut[n + 1] \in Int
  <2>1. n + 1 \in n + 1 .. Len(sent) + 1
    BY <1>2
  <2> QED BY <1>5, <2>1 DEF Placed
<1>7. PICK c : c = -cut[n + 1]
  OBVIOUS
<1>8. c \in Int /\ cut[n + 1] = -c /\ Stage(r, n + 1, c)
  BY <1>5, <1>6, <1>7
<1>9. c \in Nat
  <2>1. /\ LengthPart(r) \in Nat /\ HeadPart(r) \in Nat /\ Size(r) \in Nat
        /\ HeadPart(r) >= 3
    BY <1>4, Sizes
  <2>2. parser \in {"kExpectRequestLine", "kExpectHeaders", "kExpectBody", "kGotAll"}
    BY DEF IInv, Types
  <2>3. CASE parser = "kExpectRequestLine"
    BY <1>8, <2>3 DEF Stage
  <2>4. CASE parser = "kExpectHeaders"
    BY <1>8, <2>1, <2>4 DEF Stage, InHeaders
  <2>5. CASE parser = "kExpectBody"
    BY <1>8, <2>1, <2>5 DEF Stage
  <2>6. CASE parser = "kGotAll"
    BY <1>8, <2>1, <2>6 DEF Stage
  <2> QED BY <2>2, <2>3, <2>4, <2>5, <2>6
<1>10. Front(n, r, c, cut)
  BY <1>1, <1>2, <1>3, <1>4, <1>5, <1>8, <1>9 DEF Front
<1> QED BY <1>10

(* What the buffer begins with is the rest of r, as far as it goes. *)
LEMMA FrontBuffer ==
    ASSUME Types, NEW n, NEW r, NEW c, NEW cut, Front(n, r, c, cut)
    PROVE  /\ BytesAre(Bytes(r, n + 1), r, n + 1)
           /\ \A k \in 1 .. Size(r) : k > c =>
                 /\ k - c \in 1 .. Len(Rest) /\ Rest[k - c] = Bytes(r, n + 1)[k]
                 /\ k - c <= Len(buf) => buf[k - c] = Bytes(r, n + 1)[k]
<1>1. /\ n \in Nat /\ n < Len(sent) /\ r = sent[n + 1] /\ r \in Requests
      /\ c \in Nat /\ cut[n + 1] = -c /\ Placed(Rest, sent, n, cut)
  BY DEF Front
<1>2. sent \in Seq(Requests) /\ c = -cut[n + 1]
  BY <1>1 DEF Types
<1>3. /\ Rest \in Seq(Octets) /\ Len(buf) \in Nat
      /\ \A i \in 1 .. Len(buf) : i \in 1 .. Len(Rest) /\ Rest[i] = buf[i]
  BY BufferInFront
<1>4. /\ BytesAre(Bytes(r, n + 1), r, n + 1)
      /\ \A k \in 1 .. Size(r) : k > c =>
            k - c \in 1 .. Len(Rest) /\ Rest[k - c] = Bytes(r, n + 1)[k]
  <2>1. PICK rest : rest = Rest
    OBVIOUS
  <2>2. rest \in Seq(Octets) /\ Placed(rest, sent, n, cut)
    BY <1>1, <1>3, <2>1
  <2> QED BY <1>1, <1>2, <2>1, <2>2, FrontBytes
<1>5. ASSUME NEW k \in 1 .. Size(r), k > c, k - c <= Len(buf)
      PROVE  buf[k - c] = Bytes(r, n + 1)[k]
  <2>1. k - c \in 1 .. Len(Rest) /\ Rest[k - c] = Bytes(r, n + 1)[k]
    BY <1>4, <1>5
  <2>2. k - c \in 1 .. Len(buf)
    <3>1. Size(r) \in Nat
      BY <1>1, Sizes
    <3> QED BY <1>1, <1>3, <1>5, <3>1
  <2> QED BY <1>3, <2>1, <2>2
<1> QED BY <1>4, <1>5

(* The parser consumes m bytes more of r. *)
LEMMA Consumed ==
    ASSUME Types, NEW n, NEW r, NEW c, NEW cut, Front(n, r, c, cut),
           NEW m, Dropped(Rest, m, Rest'), UNCHANGED <<sent, handled>>,
           Stage(r, n + 1, c + m)'
    PROVE  InFront' /\ NoneInFront'
<1>1. /\ n = Len(handled) /\ n \in Nat /\ n < Len(sent) /\ r = sent[n + 1]
      /\ c \in Nat /\ cut[n + 1] = -c /\ Placed(Rest, sent, n, cut)
  BY DEF Front
<1>2. sent \in Seq(Requests) /\ Len(sent) \in Nat
  BY DEF Types
<1>3. PICK rest : rest = Rest
  OBVIOUS
<1>4. PICK left : left = Rest'
  OBVIOUS
<1>5. rest \in Seq(Octets) /\ Placed(rest, sent, n, cut) /\ Dropped(rest, m, left)
  BY <1>1, <1>3, <1>4, BufferInFront
<1>6. PICK cut2 : Placed(left, sent, n, cut2) /\ cut2[n + 1] = cut[n + 1] - m
  BY <1>1, <1>2, <1>5, PlacedConsumed
<1>7. m \in Nat
  BY <1>5 DEF Dropped
<1>8. -cut2[n + 1] = c + m
  BY <1>1, <1>6, <1>7
<1>9. Placed(Rest', sent', n, cut2)
  BY <1>4, <1>6
<1>10. Stage(r, n + 1, -cut2[n + 1])'
  <2>1. PICK d : d = c + m
    OBVIOUS
  <2>2. Stage(r, n + 1, d)'
    BY <2>1
  <2>3. d = -cut2[n + 1]
    BY <1>8, <2>1
  <2> QED BY <2>2, <2>3
<1>11. Len(handled)' = n /\ r = sent'[n + 1] /\ Len(sent)' = Len(sent)
  BY <1>1
<1>12. InFront'
  BY <1>9, <1>10, <1>11 DEF InFront
<1>13. NoneInFront'
  BY <1>1, <1>2, <1>11 DEF NoneInFront
<1> QED BY <1>12, <1>13

(* A step that leaves the requests alone *)
LEMMA Kept ==
    ASSUME IInv, UNCHANGED <<sent, handled>>, Types', (parser = "kGotAll" => pc = "parsed")',
           InFront', NoneInFront'
    PROVE  IInv'
<1>1. RequestsAsSent'
  BY DEF IInv, RequestsAsSent
<1>2. UnboundedLast'
  BY DEF IInv, UnboundedLast
<1> QED BY <1>1, <1>2 DEF IInv

-----------------------------------------------------------------------------
(* The steps that consume nothing *)

LEMMA Quiet ==
    ASSUME IInv, UNCHANGED <<sent, handled, parser>>, Rest' = Rest, Types',
           parser # "kGotAll",
           request' = request \/ (parser = "kExpectRequestLine" /\ Unread(request'))
    PROVE  IInv'
<1>1. InFront'
  <2> SUFFICES ASSUME Len(handled) < Len(sent)
               PROVE  \E cut : /\ Placed(Rest, sent, Len(handled), cut)
                               /\ Stage(sent[Len(handled) + 1], Len(handled) + 1,
                                        -cut[Len(handled) + 1])'
    BY DEF InFront
  <2>1. PICK cut : /\ Placed(Rest, sent, Len(handled), cut)
                   /\ Stage(sent[Len(handled) + 1], Len(handled) + 1, -cut[Len(handled) + 1])
    BY DEF IInv, InFront
  <2>2. Stage(sent[Len(handled) + 1], Len(handled) + 1, -cut[Len(handled) + 1])'
    BY <2>1 DEF Stage, Unread
  <2> QED BY <2>1, <2>2
<1>2. NoneInFront'
  <2> SUFFICES ASSUME Len(handled) = Len(sent)
               PROVE  /\ parser = "kExpectRequestLine" /\ Unread(request')
                      /\ NoEnd(Rest)
                      /\ Rest = << >> \/ (sent # << >> /\ Unbounded(sent[Len(sent)]))
    BY DEF NoneInFront
  <2> QED BY DEF IInv, NoneInFront
<1>3. (parser = "kGotAll" => pc = "parsed")'
  OBVIOUS
<1> QED BY <1>1, <1>2, <1>3, Kept

LEMMA Pieces ==
    ASSUME NEW b \in Seq(Octets), NEW w \in Seq(Octets), NEW k \in 0 .. Len(w)
    PROVE  /\ b \o SubSeq(w, 1, k) \in Seq(Octets)
           /\ SubSeq(w, k + 1, Len(w)) \in Seq(Octets)
           /\ (b \o SubSeq(w, 1, k)) \o SubSeq(w, k + 1, Len(w)) = b \o w
<1>1. PICK p : p = SubSeq(w, 1, k)
  OBVIOUS
<1>2. PICK q : q = SubSeq(w, k + 1, Len(w))
  OBVIOUS
<1>3. PICK bp : bp = b \o p
  OBVIOUS
<1>4. PICK s : s = bp \o q
  OBVIOUS
<1>5. PICK t : t = b \o w
  OBVIOUS
<1>6. FirstOf(w, k, p) /\ Dropped(w, k, q)
  BY <1>1, <1>2, Firsts, Drops
<1>7. /\ p \in Seq(Octets) /\ Len(p) = k /\ \A i \in 1 .. k : p[i] = w[i]
      /\ q \in Seq(Octets) /\ Len(q) = Len(w) - k /\ \A i \in 1 .. Len(q) : q[i] = w[i + k]
  BY <1>6 DEF FirstOf, Dropped
<1>8. Joint(b, p, bp) /\ Joint(b, w, t)
  BY <1>3, <1>5, <1>7, Joined
<1>9. bp \in Seq(Octets) /\ Joint(bp, q, s)
  <2>1. bp \in Seq(Octets)
    BY <1>8 DEF Joint
  <2> QED BY <1>4, <1>7, <2>1, Joined
<1>10. Len(b) \in Nat /\ Len(w) \in Nat /\ k \in Nat /\ k <= Len(w)
  OBVIOUS
<1>11. Len(bp) = Len(b) + k
  BY <1>7, <1>8 DEF Joint
<1>12. /\ s \in Seq(Octets) /\ Len(s) = Len(b) + Len(w)
       /\ t \in Seq(Octets) /\ Len(t) = Len(b) + Len(w)
  BY <1>7, <1>8, <1>9, <1>10, <1>11 DEF Joint
<1>13. ASSUME NEW i \in 1 .. Len(s) PROVE s[i] = t[i]
  <2>1. CASE i <= Len(b)
    <3>1. i \in 1 .. Len(b) /\ i \in 1 .. Len(bp)
      BY <1>10, <1>11, <1>12, <2>1
    <3>2. s[i] = bp[i] /\ bp[i] = b[i] /\ t[i] = b[i]
      BY <1>8, <1>9, <3>1 DEF Joint
    <3> QED BY <3>2
  <2>2. CASE i > Len(b) /\ i <= Len(b) + k
    <3>1. PICK j : j = i - Len(b)
      OBVIOUS
    <3>2. i \in 1 .. Len(bp) /\ j \in 1 .. k /\ j \in 1 .. Len(w) /\ i = Len(b) + j
      BY <1>10, <1>11, <1>12, <2>2, <3>1
    <3>3. s[i] = bp[i]
      BY <1>9, <3>2 DEF Joint
    <3>4. bp[Len(b) + j] = p[j] /\ t[Len(b) + j] = w[j]
      BY <1>7, <1>8, <3>2 DEF Joint
    <3> QED BY <1>7, <3>2, <3>3, <3>4
  <2>3. CASE i > Len(b) + k
    <3>1. PICK j : j = i - (Len(b) + k)
      OBVIOUS
    <3>2. /\ j \in 1 .. Len(q) /\ j + k \in 1 .. Len(w)
          /\ i = Len(bp) + j /\ i = Len(b) + (j + k)
      BY <1>7, <1>10, <1>11, <1>12, <2>3, <3>1
    <3>3. s[Len(bp) + j] = q[j] /\ t[Len(b) + (j + k)] = w[j + k]
      BY <1>8, <1>9, <3>2 DEF Joint
    <3> QED BY <1>7, <3>2, <3>3
  <2> QED BY <1>10, <1>12, <2>1, <2>2, <2>3
<1>14. s = t
  BY <1>12, <1>13, SeqEqual
<1> QED BY <1>1, <1>2, <1>3, <1>4, <1>5, <1>7, <1>9, <1>14

LEMMA OnMessageStep ==
    ASSUME IInv, NEW k \in 1 .. Len(wire), OnMessage(k)
    PROVE  IInv'
<1>1. buf \in Seq(Octets) /\ wire \in Seq(Octets) /\ Len(wire) \in Nat /\ k \in 0 .. Len(wire)
  BY DEF IInv, Types
<1>2. /\ buf' = buf \o SubSeq(wire, 1, k) /\ wire' = SubSeq(wire, k + 1, Len(wire))
      /\ pc' = "parsing" /\ pc = "idle"
      /\ UNCHANGED <<sent, handled, parser, request>>
  BY DEF OnMessage
<1>3. buf' \in Seq(Octets) /\ wire' \in Seq(Octets) /\ buf' \o wire' = buf \o wire
  BY <1>1, <1>2, Pieces
<1>4. Rest' = Rest
  BY <1>3 DEF Rest
<1>5. Types'
  BY <1>2, <1>3 DEF IInv, Types
<1>6. parser # "kGotAll"
  BY <1>2 DEF IInv
<1> QED BY <1>2, <1>4, <1>5, <1>6, Quiet

LEMMA NoLineStep ==
    ASSUME IInv, NoLine
    PROVE  IInv'
<1>1. /\ UNCHANGED <<sent, handled, parser, request, buf, wire>>
      /\ parser # "kGotAll" /\ pc' = "parsed"
  BY DEF NoLine, Return, frame
<1>2. Rest' = Rest
  BY <1>1 DEF Rest
<1>3. Types'
  BY <1>1 DEF IInv, Types
<1> QED BY <1>1, <1>2, <1>3, Quiet

LEMMA NeedMoreStep ==
    ASSUME IInv, NeedMore
    PROVE  IInv'
<1>1. /\ UNCHANGED <<sent, handled, parser, request, buf, wire>>
      /\ parser # "kGotAll" /\ pc' = "idle"
  BY DEF NeedMore, Return
<1>2. Rest' = Rest
  BY <1>1 DEF Rest
<1>3. Types'
  BY <1>1 DEF IInv, Types
<1> QED BY <1>1, <1>2, <1>3, Quiet

LEMMA BadRequestStep ==
    ASSUME IInv, BadRequest
    PROVE  IInv'
<1>1. /\ UNCHANGED <<sent, handled, parser, request, buf, wire>>
      /\ pc = "failed" /\ pc' = "idle"
  BY DEF BadRequest, Return
<1>2. Rest' = Rest
  BY <1>1 DEF Rest
<1>3. Types' /\ parser # "kGotAll"
  BY <1>1 DEF IInv, Types
<1> QED BY <1>1, <1>2, <1>3, Quiet

-----------------------------------------------------------------------------
(* processRequestLine() *)

LEMMA LineMethodType ==
    ASSUME buf \in Seq(Octets), findCRLF # 0
    PROVE  LineMethod \in {"kGet", "kPost", "kInvalid"}
<1>1. findCRLF \in 1 .. Len(buf) /\ Len(buf) \in Nat
  BY CRLFFound
<1>2. PICK m : m = findCRLF - 1
  OBVIOUS
<1>3. m \in 0 .. Len(buf) /\ Line = SubSeq(buf, 1, m)
  BY <1>1, <1>2 DEF Line
<1>4. FirstOf(buf, m, Line)
  BY <1>3, Firsts
<1>5. PICK x : x = Line[1]
  OBVIOUS
<1>6. CASE Len(Line) = 1 /\ x.t = "line"
  <2>1. Line \in Seq(Octets)
    BY <1>4 DEF FirstOf
  <2>2. x \in Octets
    <3>1. 1 \in 1 .. Len(Line)
      BY <1>6
    <3> QED BY <1>5, <2>1, <3>1, ElementOfSeq
  <2>3. x.method \in {"kGet", "kPost", "kInvalid"}
    BY <1>6, <2>2 DEF Octets, End
  <2> QED BY <1>5, <1>6, <2>3 DEF LineMethod
<1>7. CASE ~(Len(Line) = 1 /\ x.t = "line")
  BY <1>5, <1>7 DEF LineMethod
<1> QED BY <1>6, <1>7

(* With a whole line in the buffer there is a request in front. *)
LEMMA LineInFront ==
    ASSUME IInv, findCRLF # 0
    PROVE  Len(handled) < Len(sent)
<1>1. Types /\ NoneInFront /\ Len(handled) <= Len(sent)
  BY DEF IInv, RequestsAsSent
<1>2. Len(handled) \in Nat /\ Len(sent) \in Nat /\ buf \in Seq(Octets)
  BY <1>1 DEF Types
<1>3. ASSUME Len(handled) = Len(sent) PROVE FALSE
  <2>1. NoEnd(Rest)
    BY <1>1, <1>3 DEF NoneInFront
  <2>2. NoEnd(buf)
    BY <1>1, <2>1, BufferInFront DEF NoEnd
  <2> QED BY <1>2, <2>2, NoCRLF
<1> QED BY <1>1, <1>2, <1>3

LEMMA RequestLineStep ==
    ASSUME IInv, RequestLine
    PROVE  IInv'
<1>1. /\ Types /\ pc = "parsing" /\ parser = "kExpectRequestLine"
      /\ findCRLF # 0 /\ UNCHANGED <<sent, handled, wire>>
  BY DEF IInv, RequestLine, frame
<1>2. LineMethod \in {"kGet", "kPost", "kInvalid"}
  BY <1>1, LineMethodType DEF Types
<1>3. Unread(request)
  <2>1. CASE Len(handled) < Len(sent)
    BY <1>1, <2>1, FrontIs DEF Front, Stage
  <2>2. CASE ~(Len(handled) < Len(sent))
    BY <1>1, <2>2, LineInFront
  <2> QED BY <2>1, <2>2
<1>4. CASE /\ request.method # "kInvalid" /\ pc' = "aborted"
           /\ UNCHANGED <<buf, parser, request>>
  <2>1. Rest' = Rest
    BY <1>1, <1>4 DEF Rest
  <2>2. Types'
    BY <1>1, <1>4 DEF Types
  <2> QED BY <1>1, <1>4, <2>1, <2>2, Quiet
<1>5. CASE /\ request' = [request EXCEPT !.method = LineMethod] /\ pc' = "failed"
           /\ UNCHANGED <<buf, parser>>
  <2>1. Rest' = Rest
    BY <1>1, <1>5 DEF Rest
  <2>2. request' \in Fields
    BY <1>1, <1>2, <1>5 DEF Types, Fields
  <2>3. Types'
    BY <1>1, <1>5, <2>2 DEF Types
  <2>4. Unread(request')
    BY <1>1, <1>3, <1>5 DEF Types, Fields, Unread
  <2> QED BY <1>1, <1>5, <2>1, <2>3, <2>4, Quiet
<1>6. CASE /\ request' = [request EXCEPT !.method = LineMethod, !.version = Line[1].version]
           /\ retrieveUntil(findCRLF)
           /\ parser' = "kExpectHeaders" /\ pc' = pc
  <2>1. PICK n, r, c, cut : Front(n, r, c, cut)
    BY <1>1, LineInFront, FrontIs
  <2>2. r \in Requests /\ c = 0
    BY <1>1, <2>1 DEF Front, Stage
  <2>3. PICK b : b = Bytes(r, n + 1)
    OBVIOUS
  <2>4. /\ BytesAre(b, r, n + 1)
        /\ \A k \in 1 .. Size(r) : k > c => (k - c <= Len(buf) => buf[k - c] = b[k])
    BY <1>1, <2>1, <2>3, FrontBuffer
  <2>5. PICK x : x = [t |-> "line", method |-> r.method, version |-> r.version]
    OBVIOUS
  <2>6. b[1] = x /\ b[2] = End /\ x # End
    BY <2>4, <2>5 DEF BytesAre, End
  <2>7. 1 \in 1 .. Size(r) /\ 2 \in 1 .. Size(r)
    BY <2>2, Sizes
  <2>8. (Len(buf) >= 1 => buf[1] = x) /\ (Len(buf) >= 2 => buf[2] = End)
    <3>1. Len(buf) \in Nat /\ 1 - c = 1 /\ 2 - c = 2
      BY <1>1, <2>2 DEF Types
    <3> QED BY <2>2, <2>4, <2>6, <2>7, <3>1
  <2>9. findCRLF = 2 /\ 2 \in 0 .. Len(buf) /\ Len(Line) = 1 /\ Line[1] = x
    <3>1. buf \in Seq(Octets)
      BY <1>1 DEF Types
    <3> QED BY <1>1, <2>6, <2>8, <3>1, FirstLine
  <2>10. LineMethod = r.method /\ Line[1].version = r.version
    BY <2>5, <2>9 DEF LineMethod
  <2>11. r.method \in {"kGet", "kPost", "kInvalid"} /\ r.version \in {"kHttp10", "kHttp11", "kUnknown"}
         /\ r.length \in Nat \cup {-1} /\ r.close \in BOOLEAN
    BY <2>2 DEF Requests
  <2>12. /\ request' \in Fields /\ LineRead(r, request')
         /\ request'.length = -1 /\ ~request'.close
    BY <1>1, <1>3, <1>6, <2>10, <2>11 DEF Types, Fields, Unread, LineRead
  <2>13. buf' \in Seq(Octets) /\ Dropped(Rest, 2, Rest')
    BY <1>1, <1>6, <2>9, Retrieved
  <2>14. InHeaders(r, 2, request')
    <3>1. request'.close \in BOOLEAN
      BY <2>12 DEF Fields
    <3>2. CASE r.length >= 0
      BY <2>12, <3>2 DEF InHeaders
    <3>3. CASE ~(r.length >= 0) /\ r.close
      <4>1. r.length = -1 /\ 2 = 2 + LengthPart(r)
        BY <2>11, <3>3 DEF LengthPart
      <4> QED BY <2>12, <3>3, <4>1 DEF InHeaders
    <3>4. CASE ~(r.length >= 0) /\ ~r.close
      <4>1. r.length = -1 /\ 2 = HeadPart(r) - 1
        BY <2>11, <3>4 DEF HeadPart, LengthPart, ClosePart
      <4>2. request'.close = r.close
        BY <2>11, <2>12, <3>1, <3>4
      <4> QED BY <2>12, <4>1, <4>2 DEF InHeaders
    <3> QED BY <3>2, <3>3, <3>4
  <2>15. Stage(r, n + 1, c + 2)'
    <3>1. c + 2 = 2
      BY <2>2
    <3>2. Stage(r, n + 1, 2)'
      BY <1>6, <2>12, <2>14 DEF Stage
    <3> QED BY <3>1, <3>2
  <2>16. InFront' /\ NoneInFront'
    BY <1>1, <2>1, <2>13, <2>15, Consumed
  <2>17. Types'
    BY <1>1, <1>6, <2>12, <2>13 DEF Types
  <2> QED BY <1>1, <1>6, <2>16, <2>17, Kept
<1> QED BY <1>4, <1>5, <1>6 DEF RequestLine, Return

-----------------------------------------------------------------------------
(* The headers *)

(* The line in front of the buffer is the one the parser has to read. *)
LengthNext(r, c) ==
    /\ findCRLF = 2 /\ 2 \in 0 .. Len(buf)
    /\ Line[1] = [t |-> "length", n |-> r.length]
    /\ c = 2 /\ r.length >= 0 /\ request.length = -1 /\ ~request.close

CloseNext(r, c) ==
    /\ findCRLF = 2 /\ 2 \in 0 .. Len(buf)
    /\ Line[1] = [t |-> "close"]
    /\ c = 2 + LengthPart(r) /\ r.close /\ request.length = r.length /\ ~request.close

EmptyNext(r, c) ==
    /\ findCRLF = 1 /\ 1 \in 0 .. Len(buf)
    /\ c = HeadPart(r) - 1 /\ request.length = r.length /\ request.close = r.close

LEMMA HeaderInFront ==
    ASSUME Types, NEW n, NEW r, NEW c, NEW cut, Front(n, r, c, cut),
           parser = "kExpectHeaders", findCRLF # 0
    PROVE  LengthNext(r, c) \/ CloseNext(r, c) \/ EmptyNext(r, c)
<1>1. r \in Requests /\ InHeaders(r, c, request)
  BY DEF Front, Stage
<1>2. PICK b : b = Bytes(r, n + 1)
  OBVIOUS
<1>3. /\ BytesAre(b, r, n + 1)
      /\ \A k \in 1 .. Size(r) : k > c => (k - c <= Len(buf) => buf[k - c] = b[k])
  BY <1>2, FrontBuffer
<1>4. buf \in Seq(Octets) /\ Len(buf) \in Nat
  BY DEF Types
<1>5. PICK l \in Nat : l = LengthPart(r)
  BY <1>1, Sizes
<1>6. PICK h \in Nat : h = HeadPart(r)
  BY <1>1, Sizes
<1>7. h >= 3 + l /\ Size(r) \in Nat /\ Size(r) >= h
  BY <1>1, <1>5, <1>6, Sizes
<1>8. CASE c = 2 /\ r.length >= 0 /\ request.length = -1 /\ ~request.close
  <2>1. PICK x : x = [t |-> "length", n |-> r.length]
    OBVIOUS
  <2>2. b[3] = x /\ b[4] = End /\ x # End
    BY <1>3, <1>8, <2>1 DEF BytesAre, End
  <2>3. l = 2
    BY <1>5, <1>8 DEF LengthPart
  <2>4. 3 \in 1 .. Size(r) /\ 4 \in 1 .. Size(r) /\ 3 > c /\ 4 > c /\ 3 - c = 1 /\ 4 - c = 2
    BY <1>7, <1>8, <2>3
  <2>5. (Len(buf) >= 1 => buf[1] = x) /\ (Len(buf) >= 2 => buf[2] = End)
    BY <1>3, <1>4, <2>2, <2>4
  <2>6. findCRLF = 2 /\ 2 \in 0 .. Len(buf) /\ Line[1] = x
    BY <1>4, <2>2, <2>5, FirstLine
  <2>7. LengthNext(r, c)
    BY <1>8, <2>1, <2>6 DEF LengthNext
  <2> QED BY <2>7
<1>9. CASE c = 2 + l /\ r.close /\ request.length = r.length /\ ~request.close
  <2>1. PICK x : x = [t |-> "close"]
    OBVIOUS
  <2>2. b[3 + l] = x /\ b[4 + l] = End /\ x # End
    BY <1>3, <1>5, <1>9, <2>1 DEF BytesAre, End
  <2>3. h = 5 + l
    BY <1>5, <1>6, <1>9 DEF HeadPart, ClosePart
  <2>4. /\ 3 + l \in 1 .. Size(r) /\ 4 + l \in 1 .. Size(r)
        /\ 3 + l > c /\ 4 + l > c /\ (3 + l) - c = 1 /\ (4 + l) - c = 2
    BY <1>7, <1>9, <2>3
  <2>5. (Len(buf) >= 1 => buf[1] = x) /\ (Len(buf) >= 2 => buf[2] = End)
    BY <1>3, <1>4, <2>2, <2>4
  <2>6. findCRLF = 2 /\ 2 \in 0 .. Len(buf) /\ Line[1] = x
    BY <1>4, <2>2, <2>5, FirstLine
  <2>7. CloseNext(r, c)
    BY <1>5, <1>9, <2>1, <2>6 DEF CloseNext
  <2> QED BY <2>7
<1>10. CASE c = h - 1 /\ request.length = r.length /\ request.close = r.close
  <2>1. b[h] = End
    BY <1>3, <1>6 DEF BytesAre
  <2>2. h \in 1 .. Size(r) /\ h > c /\ h - c = 1
    BY <1>7, <1>10
  <2>3. Len(buf) >= 1 => buf[1] = End
    BY <1>3, <1>4, <2>1, <2>2
  <2>4. findCRLF = 1 /\ 1 \in 0 .. Len(buf)
    BY <1>4, <2>3, FirstEmpty
  <2>5. EmptyNext(r, c)
    BY <1>6, <1>10, <2>4 DEF EmptyNext
  <2> QED BY <2>5
<1> QED BY <1>1, <1>5, <1>6, <1>8, <1>9, <1>10 DEF InHeaders

LEMMA HeaderLineStep ==
    ASSUME IInv, HeaderLine
    PROVE  IInv'
<1>1. /\ Types /\ pc = "parsing" /\ parser = "kExpectHeaders"
      /\ findCRLF # 0 /\ findCRLF # 1
      /\ request' = addHeader(Line[1]) /\ retrieveUntil(findCRLF)
      /\ UNCHANGED <<sent, handled, wire, parser, pc>>
  BY DEF IInv, HeaderLine, frame
<1>2. PICK n, r, c, cut : Front(n, r, c, cut)
  BY <1>1, LineInFront, FrontIs
<1>3. /\ r \in Requests /\ LineRead(r, request) /\ request \in Fields
      /\ r.length \in Nat \cup {-1} /\ r.close \in BOOLEAN
  BY <1>1, <1>2 DEF Front, Stage, Types, Requests
<1>4. findCRLF = 2 /\ 2 \in 0 .. Len(buf) /\ (LengthNext(r, c) \/ CloseNext(r, c))
  BY <1>1, <1>2, HeaderInFront DEF LengthNext, CloseNext, EmptyNext
<1>5. buf' \in Seq(Octets) /\ Dropped(Rest, 2, Rest')
  BY <1>1, <1>4, Retrieved
<1>6. request' \in Fields /\ LineRead(r, request') /\ InHeaders(r, c + 2, request')
  <2>1. CASE LengthNext(r, c)
    <3>1. request' = [request EXCEPT !.length = r.length]
      BY <1>1, <2>1 DEF LengthNext, addHeader
    <3>2. c = 2 /\ r.length >= 0 /\ ~request.close
      BY <2>1 DEF LengthNext
    <3>3. request' \in Fields /\ LineRead(r, request')
      BY <1>3, <3>1 DEF Fields, LineRead
    <3>4. request'.length = r.length /\ request'.close = request.close /\ request.close \in BOOLEAN
      BY <1>3, <3>1 DEF Fields
    <3>5. c + 2 = 2 + LengthPart(r)
      BY <3>2 DEF LengthPart
    <3>6. CASE r.close
      BY <3>2, <3>3, <3>4, <3>5, <3>6 DEF InHeaders
    <3>7. CASE ~r.close
      <4>1. c + 2 = HeadPart(r) - 1
        BY <3>2, <3>7 DEF HeadPart, LengthPart, ClosePart
      <4>2. request'.close = r.close
        BY <1>3, <3>2, <3>4, <3>7
      <4> QED BY <3>3, <3>4, <4>1, <4>2 DEF InHeaders
    <3> QED BY <3>6, <3>7
  <2>2. CASE CloseNext(r, c)
    <3>1. request' = [request EXCEPT !.close = TRUE]
      BY <1>1, <2>2 DEF CloseNext, addHeader
    <3>2. c = 2 + LengthPart(r) /\ r.close /\ request.length = r.length
      BY <2>2 DEF CloseNext
    <3>3. request' \in Fields /\ LineRead(r, request')
      BY <1>3, <3>1 DEF Fields, LineRead
    <3>4. request'.length = r.length /\ request'.close = TRUE
      BY <1>3, <3>1, <3>2 DEF Fields
    <3>5. c + 2 = HeadPart(r) - 1
      BY <1>3, <3>2, Sizes DEF ClosePart
    <3>6. request'.close = r.close
      BY <1>3, <3>2, <3>4
    <3> QED BY <3>3, <3>4, <3>5, <3>6 DEF InHeaders
  <2> QED BY <1>4, <2>1, <2>2
<1>7. Stage(r, n + 1, c + 2)'
  <2>1. PICK d : d = c + 2
    OBVIOUS
  <2>2. InHeaders(r, d, request')
    BY <1>6, <2>1
  <2>3. Stage(r, n + 1, d)'
    BY <1>1, <1>6, <2>2 DEF Stage
  <2> QED BY <2>1, <2>3
<1>8. InFront' /\ NoneInFront'
  BY <1>1, <1>2, <1>5, <1>7, Consumed
<1>9. Types'
  BY <1>1, <1>5, <1>6 DEF Types
<1> QED BY <1>1, <1>8, <1>9, Kept

LEMMA EmptyLineStep ==
    ASSUME IInv, EmptyLine
    PROVE  IInv'
<1>1. /\ Types /\ pc = "parsing" /\ parser = "kExpectHeaders"
      /\ findCRLF = 1 /\ retrieveUntil(1)
      /\ UNCHANGED <<sent, handled, wire, request>>
  BY DEF IInv, EmptyLine, frame
<1>2. PICK n, r, c, cut : Front(n, r, c, cut)
  BY <1>1, LineInFront, FrontIs
<1>3. r \in Requests /\ LineRead(r, request) /\ c \in Nat
  BY <1>1, <1>2 DEF Front, Stage
<1>4. EmptyNext(r, c)
  BY <1>1, <1>2, HeaderInFront DEF LengthNext, CloseNext
<1>5. 1 \in 0 .. Len(buf) /\ Len(buf) \in Nat
  BY <1>1, <1>4 DEF EmptyNext, Types
<1>6. buf' \in Seq(Octets) /\ Dropped(Rest, 1, Rest')
  BY <1>1, <1>5, Retrieved
<1>7. c + 1 = HeadPart(r)
  BY <1>3, <1>4, Sizes DEF EmptyNext
<1>8. AllRead(r, request')
  BY <1>1, <1>3, <1>4 DEF EmptyNext, AllRead
<1>9. \/ request.method = "kPost" /\ parser' = "kExpectBody" /\ pc' = pc
      \/ request.method # "kPost" /\ parser' = "kGotAll" /\ pc' = "parsed"
  BY <1>5 DEF EmptyLine, HasBody, Return
<1>10. Stage(r, n + 1, HeadPart(r))'
  <2>1. CASE request.method = "kPost" /\ parser' = "kExpectBody"
    <3>1. r.method = "kPost"
      BY <1>3, <2>1 DEF LineRead
    <3> QED BY <1>8, <2>1, <3>1 DEF Stage
  <2>2. CASE request.method # "kPost" /\ parser' = "kGotAll"
    <3>1. r.method # "kPost"
      BY <1>3, <2>2 DEF LineRead
    <3>2. HeadPart(r) = Size(r)
      BY <1>3, <3>1, Sizes DEF BodyPart
    <3>3. BodyRead(r, n + 1, request')
      BY <3>1 DEF BodyRead
    <3> QED BY <1>8, <2>2, <3>2, <3>3 DEF Stage
  <2> QED BY <1>9, <2>1, <2>2
<1>11. Stage(r, n + 1, c + 1)'
  <2>1. PICK d : d = HeadPart(r)
    OBVIOUS
  <2>2. Stage(r, n + 1, d)'
    BY <1>10, <2>1
  <2> QED BY <1>7, <2>1, <2>2
<1>12. InFront' /\ NoneInFront'
  BY <1>1, <1>2, <1>6, <1>11, Consumed
<1>13. Types'
  BY <1>1, <1>6, <1>9 DEF Types
<1> QED BY <1>1, <1>9, <1>12, <1>13, Kept

-----------------------------------------------------------------------------
(* The body *)

(* Bytes behind the headers are bytes of the body. *)
LEMMA BodyInFront ==
    ASSUME Types, NEW n, NEW r, NEW c, NEW cut, Front(n, r, c, cut), c = HeadPart(r),
           NEW m \in 0 .. Len(buf), m <= BodyPart(r), NEW s, s = SubSeq(buf, 1, m)
    PROVE  /\ s \in Seq(Octets) /\ Prefix(s, Body(r, n + 1))
           /\ m = BodyPart(r) => s = Body(r, n + 1)
<1>1. /\ buf \in Seq(Octets) /\ Len(buf) \in Nat /\ r \in Requests /\ n + 1 \in Nat
      /\ m \in Nat /\ c \in Nat
  BY DEF Front, Types
<1>2. PICK b : b = Bytes(r, n + 1)
  OBVIOUS
<1>3. /\ BytesAre(b, r, n + 1)
      /\ \A k \in 1 .. Size(r) : k > c => (k - c <= Len(buf) => buf[k - c] = b[k])
  BY <1>2, FrontBuffer
<1>4. PICK d : d = Body(r, n + 1)
  OBVIOUS
<1>5. PICK p \in Nat : p = BodyPart(r)
  BY <1>1, Sizes
<1>6. /\ d \in Seq(Octets) /\ Len(d) = p
      /\ \A k \in 1 .. p : d[k] = [t |-> "body", of |-> n + 1]
  BY <1>1, <1>4, <1>5, BodyIs
<1>7. FirstOf(buf, m, s)
  BY <1>1, Firsts
<1>8. s \in Seq(Octets) /\ Len(s) = m /\ \A k \in 1 .. m : s[k] = buf[k]
  BY <1>7 DEF FirstOf
<1>9. ASSUME NEW k \in 1 .. m PROVE s[k] = d[k]
  <2>1. PICK j : j = c + k
    OBVIOUS
  <2>2. Size(r) = c + p
    BY <1>1, <1>5, Sizes
  <2>3. k \in Nat /\ k >= 1 /\ k <= Len(buf) /\ k \in 1 .. p
    BY <1>1, <1>5
  <2>4. j \in 1 .. Size(r) /\ j > c /\ j - c = k
    BY <1>1, <2>1, <2>2, <2>3
  <2>5. buf[k] = b[j]
    BY <1>3, <2>3, <2>4
  <2>6. b[c + k] = [t |-> "body", of |-> n + 1]
    BY <1>3, <1>5, <2>3 DEF BytesAre
  <2> QED BY <1>6, <1>8, <2>1, <2>3, <2>5, <2>6
<1>10. PICK q : q = SubSeq(d, 1, m)
  OBVIOUS
<1>11. FirstOf(d, m, q)
  <2>1. m \in 0 .. Len(d)
    BY <1>1, <1>5, <1>6
  <2> QED BY <1>6, <1>10, <2>1, Firsts
<1>12. q \in Seq(Octets) /\ Len(q) = m /\ \A k \in 1 .. m : q[k] = d[k]
  BY <1>11 DEF FirstOf
<1>13. s = q
  <2>1. Len(s) = Len(q) /\ \A k \in 1 .. Len(s) : s[k] = q[k]
    BY <1>8, <1>9, <1>12
  <2> QED BY <1>8, <1>12, <2>1, SeqEqual
<1>14. Prefix(s, d)
  BY <1>5, <1>6, <1>8, <1>10, <1>13 DEF Prefix
<1>15. m = p => s = d
  <2> SUFFICES ASSUME m = p PROVE s = d
    OBVIOUS
  <2>1. Len(s) = Len(d) /\ \A k \in 1 .. Len(s) : s[k] = d[k]
    BY <1>6, <1>8, <1>9
  <2> QED BY <1>6, <1>8, <2>1, SeqEqual
<1> QED BY <1>4, <1>5, <1>8, <1>14, <1>15

(* A request without a length is the last, and ends with the rest. *)
LEMMA UnboundedInFront ==
    ASSUME IInv, NEW n, NEW r, NEW c, NEW cut, Front(n, r, c, cut), Unbounded(r)
    PROVE  Len(sent) = n + 1
<1>1. /\ sent \in Seq(Requests) /\ Len(sent) \in Nat /\ n \in Nat /\ n < Len(sent)
      /\ r = sent[n + 1]
  BY DEF IInv, Types, Front
<1>2. n + 1 \in 1 .. Len(sent) - 1 => ~Unbounded(sent[n + 1])
  BY DEF IInv, UnboundedLast
<1> QED BY <1>1, <1>2

LEMMA LastInFront ==
    ASSUME Types, NEW n, NEW r, NEW c, NEW cut, Front(n, r, c, cut), Len(sent) = n + 1
    PROVE  Len(Rest) = Size(r) - c
<1>1. n \in Nat /\ c \in Nat /\ cut[n + 1] = -c /\ Placed(Rest, sent, n, cut) /\ r = sent[n + 1]
  BY DEF Front
<1>2. n + 1 \in n + 1 .. Len(sent)
  BY <1>1
<1>3. cut[(n + 1) + 1] = cut[n + 1] + Size(r)
  BY <1>1, <1>2 DEF Placed
<1>4. cut[(n + 1) + 1] = Len(Rest)
  BY <1>1 DEF Placed
<1>5. Size(r) \in Nat
  BY Sizes DEF Front
<1> QED BY <1>1, <1>3, <1>4, <1>5

LEMMA ExpectBodyStep ==
    ASSUME IInv, ExpectBody
    PROVE  IInv'
<1>1. /\ Types /\ pc = "parsing" /\ parser = "kExpectBody"
      /\ UNCHANGED <<sent, handled, wire>>
  BY DEF IInv, ExpectBody, frame
<1>2. Len(handled) < Len(sent)
  <2>1. Len(handled) \in Nat /\ Len(sent) \in Nat
    BY <1>1 DEF Types
  <2>2. Len(handled) # Len(sent) /\ Len(handled) <= Len(sent)
    BY <1>1 DEF IInv, NoneInFront, RequestsAsSent
  <2> QED BY <2>1, <2>2
<1>3. PICK n, r, c, cut : Front(n, r, c, cut)
  BY <1>2, FrontIs
<1>4. /\ r \in Requests /\ c \in Nat /\ c = HeadPart(r) /\ r.method = "kPost"
      /\ AllRead(r, request)
  BY <1>1, <1>3 DEF Front, Stage
<1>5. /\ request \in Fields /\ buf \in Seq(Octets) /\ Len(buf) \in Nat
      /\ r.length \in Nat \cup {-1} /\ request.length = r.length
  BY <1>1, <1>4 DEF Types, Requests, AllRead
<1>6. PICK m : /\ m \in 0 .. Len(buf) /\ m <= BodyPart(r) /\ GotBody(m)
               /\ m = BodyPart(r) \/ Unbounded(r)
  <2>1. CASE request.length >= 0 /\ Len(buf) >= request.length /\ GotBody(request.length)
    <3>1. PICK m : m = r.length
      OBVIOUS
    <3>2. m \in 0 .. Len(buf) /\ GotBody(m)
      BY <1>5, <2>1, <3>1
    <3>3. BodyPart(r) = m
      BY <1>4, <1>5, <2>1, <3>1 DEF BodyPart
    <3>4. m <= BodyPart(r)
      BY <3>2, <3>3
    <3> QED BY <3>2, <3>3, <3>4
  <2>2. CASE request.length < 0 /\ GotBody(Len(buf))
    <3>1. Unbounded(r) /\ BodyPart(r) = 1
      BY <1>4, <1>5, <2>2 DEF Unbounded, BodyPart
    <3>2. Len(Rest) = Size(r) - c
      BY <1>1, <1>3, <3>1, UnboundedInFront, LastInFront
    <3>3. Len(buf) <= 1
      BY <1>1, <1>4, <3>1, <3>2, Sizes, BufferInFront
    <3>4. PICK m : m = Len(buf)
      OBVIOUS
    <3>5. m \in 0 .. Len(buf) /\ m <= BodyPart(r)
      BY <1>5, <3>1, <3>3, <3>4
    <3> QED BY <2>2, <3>1, <3>4, <3>5
  <2> QED BY <2>1, <2>2 DEF ExpectBody
<1>7. PICK s : s = SubSeq(buf, 1, m)
  OBVIOUS
<1>8. /\ s \in Seq(Octets) /\ Prefix(s, Body(r, n + 1))
      /\ m = BodyPart(r) => s = Body(r, n + 1)
  BY <1>1, <1>3, <1>4, <1>6, <1>7, BodyInFront
<1>9. /\ request' = [request EXCEPT !.body = s] /\ retrieveUntil(m)
      /\ parser' = "kGotAll" /\ pc' = "parsed"
  BY <1>6, <1>7 DEF GotBody, Return
<1>10. request' \in Fields /\ AllRead(r, request') /\ request'.body = s
  BY <1>4, <1>5, <1>8, <1>9 DEF Fields, AllRead, LineRead
<1>11. BodyRead(r, n + 1, request')
  BY <1>6, <1>8, <1>10 DEF BodyRead
<1>12. buf' \in Seq(Octets) /\ Dropped(Rest, m, Rest')
  BY <1>1, <1>6, <1>9, Retrieved
<1>13. PICK d : d = c + m
  OBVIOUS
<1>14. d = Size(r) \/ (d = HeadPart(r) /\ Unbounded(r))
  <2>1. CASE m = BodyPart(r)
    BY <1>4, <1>13, <2>1, Sizes
  <2>2. CASE m # BodyPart(r)
    <3>1. Unbounded(r) /\ BodyPart(r) = 1
      BY <1>4, <1>6, <2>2 DEF Unbounded, BodyPart
    <3>2. m = 0
      BY <1>5, <1>6, <2>2, <3>1
    <3> QED BY <1>4, <1>13, <3>1, <3>2
  <2> QED BY <2>1, <2>2
<1>15. Stage(r, n + 1, d)'
  BY <1>9, <1>10, <1>11, <1>14 DEF Stage
<1>16. InFront' /\ NoneInFront'
  BY <1>1, <1>3, <1>12, <1>13, <1>15, Consumed
<1>17. Types'
  BY <1>1, <1>9, <1>10, <1>12 DEF Types
<1> QED BY <1>1, <1>9, <1>16, <1>17, Kept

-----------------------------------------------------------------------------
(* The request is given to the application *)

LEMMA OnRequestStep ==
    ASSUME IInv, OnRequest
    PROVE  IInv'
<1>1. /\ Types /\ pc = "parsed" /\ parser = "kGotAll" /\ handled' = Append(handled, request)
      /\ request' = Reset /\ parser' = "kExpectRequestLine" /\ pc' = "idle"
      /\ UNCHANGED <<sent, wire, buf>>
  BY DEF IInv, OnRequest, Return
<1>2. /\ sent \in Seq(Requests) /\ Len(sent) \in Nat /\ handled \in Seq(Fields)
      /\ request \in Fields
  BY <1>1 DEF Types
<1>3. Len(handled) < Len(sent)
  <2>1. Len(handled) # Len(sent) /\ Len(handled) <= Len(sent)
    BY <1>1 DEF IInv, NoneInFront, RequestsAsSent
  <2> QED BY <1>2, <2>1
<1>4. PICK n, r, c, cut : Front(n, r, c, cut)
  BY <1>3, FrontIs
<1>5. /\ n = Len(handled) /\ n \in Nat /\ n < Len(sent) /\ r = sent[n + 1] /\ r \in Requests
      /\ c \in Nat /\ cut[n + 1] = -c /\ Placed(Rest, sent, n, cut)
      /\ AllRead(r, request) /\ BodyRead(r, n + 1, request)
      /\ c = Size(r) \/ (c = HeadPart(r) /\ Unbounded(r))
  BY <1>1, <1>4 DEF Front, Stage
<1>6. request' \in Fields /\ Unread(request')
  <2>1. request.body \in Seq(Octets)
    BY <1>2 DEF Fields
  <2> QED BY <1>1, <2>1 DEF Reset, swap, NewRequest, Fields, Unread
<1>7. Rest' = Rest
  BY <1>1 DEF Rest
<1>8. handled' \in Seq(Fields) /\ Len(handled') = n + 1
  BY <1>1, <1>2, <1>5
<1>9. Types'
  BY <1>1, <1>6, <1>8 DEF Types
<1>10. RequestsAsSent'
  <2>1. Len(handled') <= Len(sent')
    BY <1>1, <1>2, <1>5, <1>8
  <2>2. ASSUME NEW i \in 1 .. n + 1
        PROVE  AllRead(sent[i], handled'[i]) /\ BodyRead(sent[i], i, handled'[i])
    <3>1. CASE i = n + 1
      <4>1. handled'[i] = request
        BY <1>1, <1>2, <1>5, <3>1
      <4> QED BY <1>5, <3>1, <4>1
    <3>2. CASE i # n + 1
      <4>1. i \in DOMAIN handled /\ handled'[i] = handled[i]
        BY <1>1, <1>2, <1>5, <3>2
      <4>2. /\ handled[i].method = sent[i].method /\ handled[i].version = sent[i].version
            /\ handled[i].length = sent[i].length /\ handled[i].close = sent[i].close
            /\ sent[i].method = "kPost" =>
                  IF Unbounded(sent[i]) THEN Prefix(handled[i].body, Body(sent[i], i))
                                        ELSE handled[i].body = Body(sent[i], i)
        BY <4>1 DEF IInv, RequestsAsSent
      <4> QED BY <4>1, <4>2 DEF AllRead, LineRead, BodyRead
    <3> QED BY <3>1, <3>2
  <2>3. DOMAIN handled' = 1 .. n + 1
    BY <1>8
  <2> QED BY <1>1, <2>1, <2>2, <2>3 DEF RequestsAsSent, AllRead, LineRead, BodyRead
<1>11. UnboundedLast'
  BY <1>1 DEF IInv, UnboundedLast
<1>12. PICK rest : rest = Rest
  OBVIOUS
<1>13. rest \in Seq(Octets) /\ Len(rest) \in Nat /\ Placed(rest, sent, n, cut)
  BY <1>1, <1>5, <1>12, BufferInFront
<1>14. InFront'
  <2> SUFFICES ASSUME n + 1 < Len(sent)
               PROVE  \E cut2 : /\ Placed(rest, sent, n + 1, cut2)
                                /\ Stage(sent[(n + 1) + 1], (n + 1) + 1, -cut2[(n + 1) + 1])'
    BY <1>1, <1>7, <1>8, <1>12 DEF InFront
  <2>1. ~Unbounded(r)
    BY <1>2, <1>4, <1>5, UnboundedInFront
  <2>2. c = Size(r) /\ (n + 1) + 1 = n + 2
    BY <1>5, <2>1
  <2>3. PICK cut2 : Placed(rest, sent, n + 1, cut2) /\ cut2[n + 2] = cut[n + 1] + Size(r)
    BY <1>2, <1>5, <1>13, PlacedHandled
  <2>4. PICK d : d = -cut2[(n + 1) + 1]
    OBVIOUS
  <2>5. d = 0
    BY <1>5, <2>2, <2>3, <2>4
  <2>6. Stage(sent[(n + 1) + 1], (n + 1) + 1, d)'
    BY <1>1, <1>6, <2>5 DEF Stage
  <2> QED BY <2>3, <2>4, <2>6
<1>15. NoneInFront'
  <2> SUFFICES ASSUME n + 1 = Len(sent)
               PROVE  /\ NoEnd(rest)
                      /\ rest = << >> \/ (sent # << >> /\ Unbounded(sent[Len(sent)]))
    BY <1>1, <1>6, <1>7, <1>8, <1>12 DEF NoneInFront
  <2>1. Len(rest) = Size(r) - c
    BY <1>1, <1>4, <1>12, LastInFront
  <2>2. CASE c = Size(r)
    <3>1. Len(rest) = 0
      BY <1>5, <2>1, <2>2
    <3>2. rest = << >>
      BY <1>13, <3>1
    <3> QED BY <3>1, <3>2 DEF NoEnd
  <2>3. CASE c = HeadPart(r) /\ Unbounded(r)
    <3>1. BodyPart(r) = 1 /\ Size(r) = HeadPart(r) + 1 /\ HeadPart(r) \in Nat
      <4>1. BodyPart(r) = 1
        BY <2>3 DEF Unbounded, BodyPart
      <4> QED BY <1>5, <4>1, Sizes
    <3>2. Len(rest) = 1
      BY <1>5, <2>1, <2>3, <3>1
    <3>3. PICK k : k = HeadPart(r) + 1
      OBVIOUS
    <3>4. k \in 1 .. Size(r) /\ k > c /\ k - c = 1
      BY <1>5, <2>3, <3>1, <3>3
    <3>5. rest[1] = Bytes(r, n + 1)[k] /\ BytesAre(Bytes(r, n + 1), r, n + 1)
      BY <1>1, <1>4, <1>12, <3>4, FrontBuffer
    <3>6. rest[1] = [t |-> "body", of |-> n + 1]
      <4>1. 1 \in 1 .. BodyPart(r)
        BY <3>1
      <4> QED BY <3>3, <3>5, <4>1 DEF BytesAre
    <3>7. rest[1] # End
      BY <3>6 DEF End
    <3>8. NoEnd(rest)
      BY <3>2, <3>7 DEF NoEnd
    <3>9. sent # << >> /\ Unbounded(sent[Len(sent)])
      BY <1>2, <1>5, <2>3
    <3> QED BY <3>8, <3>9
  <2> QED BY <1>5, <2>2, <2>3
<1> QED BY <1>1, <1>9, <1>10, <1>11, <1>14, <1>15 DEF IInv

-----------------------------------------------------------------------------
(* The client sends a request *)

LEMMA RequestStep ==
    ASSUME IInv, NEW q \in Kinds, Request(q)
    PROVE  IInv'
<1>1. /\ Types /\ sent' = Append(sent, q) /\ wire' = wire \o Bytes(q, Len(sent'))
      /\ sent # << >> => ~Unbounded(sent[Len(sent)])
      /\ UNCHANGED <<buf, parser, request, pc, handled>>
  BY DEF IInv, Request
<1>2. q \in Requests
  BY KindsAssumption
<1>3. /\ sent \in Seq(Requests) /\ Len(sent) \in Nat /\ Len(handled) \in Nat
      /\ buf \in Seq(Octets) /\ wire \in Seq(Octets) /\ handled \in Seq(Fields)
  BY <1>1 DEF Types
<1>4. /\ sent' \in Seq(Requests) /\ Len(sent') = Len(sent) + 1 /\ sent'[Len(sent) + 1] = q
      /\ \A i \in 1 .. Len(sent) : sent'[i] = sent[i]
  BY <1>1, <1>2, <1>3
<1>5. PICK b : b = Bytes(q, Len(sent) + 1)
  OBVIOUS
<1>6. b \in Seq(Octets)
  <2>1. BytesAre(b, q, Len(sent) + 1)
    BY <1>2, <1>3, <1>5, RequestBytes
  <2> QED BY <2>1 DEF BytesAre
<1>7. wire' = wire \o b /\ wire' \in Seq(Octets)
  BY <1>1, <1>3, <1>4, <1>5, <1>6, ConcatProperties
<1>8. PICK rest : rest = Rest
  OBVIOUS
<1>9. PICK more : more = rest \o b
  OBVIOUS
<1>10. rest \in Seq(Octets) /\ Rest' = more
  <2>1. (buf \o wire) \o b = buf \o (wire \o b)
    BY <1>3, <1>6, ConcatAssociative
  <2> QED BY <1>1, <1>7, <1>8, <1>9, <2>1, BufferInFront DEF Rest
<1>11. Types'
  BY <1>1, <1>4, <1>7 DEF Types
<1>12. Len(handled) <= Len(sent)
  BY DEF IInv, RequestsAsSent
<1>13. RequestsAsSent'
  <2>1. Len(handled') <= Len(sent')
    BY <1>1, <1>3, <1>4, <1>12
  <2>2. \A i \in DOMAIN handled : sent'[i] = sent[i]
    <3>1. DOMAIN handled = 1 .. Len(handled)
      BY <1>3
    <3>2. 1 .. Len(handled) \subseteq 1 .. Len(sent)
      BY <1>3, <1>12
    <3> QED BY <1>4, <3>1, <3>2
  <2> QED BY <1>1, <2>1, <2>2 DEF IInv, RequestsAsSent
<1>14. UnboundedLast'
  <2> SUFFICES ASSUME NEW i \in 1 .. Len(sent') - 1 PROVE ~Unbounded(sent'[i])
    BY DEF UnboundedLast
  <2>1. i \in 1 .. Len(sent) /\ sent'[i] = sent[i]
    BY <1>3, <1>4
  <2>2. CASE i = Len(sent)
    <3>1. sent # << >>
      BY <1>3, <2>1
    <3> QED BY <1>1, <2>1, <2>2, <3>1
  <2>3. CASE i # Len(sent)
    <3>1. i \in 1 .. Len(sent) - 1
      BY <1>3, <2>1, <2>3
    <3> QED BY <2>1, <3>1 DEF IInv, UnboundedLast
  <2> QED BY <2>2, <2>3
<1>15. PICK n : n = Len(handled)
  OBVIOUS
<1>16. PICK cut : /\ Placed(rest, sent, n, cut) /\ cut[n + 1] \in Int
                  /\ Stage(sent'[n + 1], n + 1, -cut[n + 1])
  <2>1. CASE n < Len(sent)
    <3>1. PICK cut : Placed(Rest, sent, n, cut) /\ Stage(sent[n + 1], n + 1, -cut[n + 1])
      BY <1>15, <2>1 DEF IInv, InFront
    <3>2. n + 1 \in n + 1 .. Len(sent) + 1 /\ n + 1 \in 1 .. Len(sent)
      BY <1>3, <1>15, <2>1
    <3>3. cut[n + 1] \in Int
      BY <3>1, <3>2 DEF Placed
    <3>4. sent'[n + 1] = sent[n + 1]
      BY <1>4, <3>2
    <3> QED BY <1>8, <3>1, <3>3, <3>4
  <2>2. CASE n = Len(sent)
    <3>1. parser = "kExpectRequestLine" /\ Unread(request) /\ rest = << >>
      BY <1>1, <1>8, <1>15, <2>2 DEF IInv, NoneInFront
    <3>2. PICK cut : cut = [i \in n + 1 .. Len(sent) + 1 |-> 0]
      OBVIOUS
    <3>3. cut \in [n + 1 .. Len(sent) + 1 -> Int] /\ cut[n + 1] = 0 /\ cut[Len(sent) + 1] = 0
      BY <1>3, <2>2, <3>2
    <3>4. n + 1 .. Len(sent) = {} /\ Len(rest) = 0
      BY <1>3, <2>2, <3>1
    <3>5. Placed(rest, sent, n, cut)
      BY <3>3, <3>4 DEF Placed
    <3>6. Stage(sent'[n + 1], n + 1, 0)
      BY <3>1 DEF Stage
    <3>7. -cut[n + 1] = 0 /\ cut[n + 1] \in Int
      <4>1. PICK z : z = cut[n + 1]
        OBVIOUS
      <4>2. z \in Int /\ z <= 0 /\ z >= 0
        BY <3>3, <4>1
      <4>3. -z = 0
        BY <4>2
      <4> QED BY <4>1, <4>2, <4>3
    <3> QED BY <3>5, <3>6, <3>7
  <2> QED BY <1>3, <1>12, <1>15, <2>1, <2>2
<1>17. InFront'
  <2>1. PICK cut2 : Placed(more, sent', n, cut2) /\ cut2[n + 1] = cut[n + 1]
    <3>1. Added(sent, q, sent')
      BY <1>4 DEF Added
    <3>2. Joint(rest, b, more)
      BY <1>6, <1>9, <1>10, Joined
    <3>3. /\ n \in Nat /\ n <= Len(sent) /\ sent \in Seq(Requests) /\ rest \in Seq(Octets)
          /\ Placed(rest, sent, n, cut) /\ Joint(rest, Bytes(q, Len(sent) + 1), more)
      BY <1>3, <1>5, <1>10, <1>12, <1>15, <1>16, <3>2
    <3> QED BY <1>2, <3>1, <3>3, PlacedSent
  <2>2. PICK f : f = sent'[n + 1]
    OBVIOUS
  <2>3. PICK d : d = -cut2[n + 1]
    OBVIOUS
  <2>4. Stage(f, n + 1, d)
    BY <1>16, <2>1, <2>2, <2>3
  <2>5. Stage(f, n + 1, d)'
    BY <1>1, <2>4 DEF Stage
  <2>6. Len(handled') = n /\ Placed(Rest', sent', n, cut2)
    BY <1>1, <1>10, <1>15, <2>1
  <2> QED BY <2>2, <2>3, <2>5, <2>6 DEF InFront
<1>18. NoneInFront'
  BY <1>1, <1>3, <1>4, <1>12 DEF NoneInFront
<1>19. (parser = "kGotAll" => pc = "parsed")'
  BY <1>1 DEF IInv
<1> QED BY <1>11, <1>13, <1>14, <1>17, <1>18, <1>19 DEF IInv

-----------------------------------------------------------------------------
LEMMA InitIInv == Init => IInv
<1> SUFFICES ASSUME Init PROVE IInv
  OBVIOUS
<1>1. /\ sent = << >> /\ wire = << >> /\ buf = << >> /\ parser = "kExpectRequestLine"
      /\ request = NewRequest /\ pc = "idle" /\ handled = << >>
  BY DEF Init
<1>2. << >> \in Seq(Octets) /\ << >> \in Seq(Requests) /\ << >> \in Seq(Fields)
  OBVIOUS
<1>3. request \in Fields /\ Unread(request)
  BY <1>1, <1>2 DEF NewRequest, Fields, Unread
<1>4. Types
  BY <1>1, <1>2, <1>3 DEF Types
<1>5. RequestsAsSent
  BY <1>1 DEF RequestsAsSent
<1>6. UnboundedLast
  BY <1>1 DEF UnboundedLast
<1>7. InFront
  BY <1>1 DEF InFront
<1>8. Rest = << >>
  BY <1>1, <1>2, ConcatEmptySeq DEF Rest
<1>9. NoneInFront
  BY <1>1, <1>3, <1>8 DEF NoneInFront, NoEnd
<1> QED BY <1>1, <1>4, <1>5, <1>6, <1>7, <1>9 DEF IInv

LEMMA NextIInv == IInv /\ [Next]_vars => IInv'
<1> SUFFICES ASSUME IInv, [Next]_vars PROVE IInv'
  OBVIOUS
<1>1. ASSUME NEW q \in Kinds, Request(q) PROVE IInv'
  BY <1>1, RequestStep
<1>2. ASSUME NEW k \in 1 .. Len(wire), OnMessage(k) PROVE IInv'
  BY <1>2, OnMessageStep
<1>3. CASE NoLine
  BY <1>3, NoLineStep
<1>4. CASE RequestLine
  BY <1>4, RequestLineStep
<1>5. CASE HeaderLine
  BY <1>5, HeaderLineStep
<1>6. CASE EmptyLine
  BY <1>6, EmptyLineStep
<1>7. CASE ExpectBody
  BY <1>7, ExpectBodyStep
<1>8. CASE BadRequest
  BY <1>8, BadRequestStep
<1>9. CASE OnRequest
  BY <1>9, OnRequestStep
<1>10. CASE NeedMore
  BY <1>10, NeedMoreStep
<1>11. CASE UNCHANGED vars
  <2>1. UNCHANGED <<sent, wire, buf, parser, request, pc, handled>>
    BY <1>11 DEF vars
  <2>2. Types'
    BY <2>1 DEF IInv, Types
  <2>3. Rest' = Rest
    BY <2>1 DEF Rest
  <2>4. InFront'
    BY <2>1, <2>3 DEF IInv, InFront, Stage
  <2>5. NoneInFront'
    BY <2>1, <2>3 DEF IInv, NoneInFront
  <2>6. (parser = "kGotAll" => pc = "parsed")'
    BY <2>1 DEF IInv
  <2> QED BY <2>1, <2>2, <2>4, <2>5, <2>6, Kept
<1> QED BY <1>1, <1>2, <1>3, <1>4, <1>5, <1>6, <1>7, <1>8, <1>9, <1>10, <1>11
        DEF Next, Server, Parse

(* Whatever the pieces that the bytes of a connection arrive in, and       *)
(* whatever is pipelined behind them, HttpServer::onMessage() gives the    *)
(* application the requests that were sent, in order and each once, with   *)
(* the method, version, headers and body of each.                          *)
THEOREM ParsedAsSent == Spec => []RequestsAsSent
<1>1. IInv => RequestsAsSent
  BY DEF IInv
<1> QED BY <1>1, InitIInv, NextIInv, PTL DEF Spec
=============================================================================
