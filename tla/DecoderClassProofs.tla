------------------------- MODULE DecoderClassProofs -------------------------
(***************************************************************************)
(* Proofs about DecoderClass: its inductive invariant, and that it           *)
(* implements StreamDecoder.  The operations on the buffer are dealt with    *)
(* one by one: each keeps the bytes to be read, or appends to them, and      *)
(* changes no string but the buffer.                                        *)
(***************************************************************************)
EXTENDS DecoderClass, TLAPS, SequenceTheorems, FiniteSetTheorems

-----------------------------------------------------------------------------
(* Pieces of byte strings.                                                  *)

\* The bytes of a piece of a string.
LEMMA Piece ==
  ASSUME NEW v \in Seq(Byte), NEW o \in Nat, NEW l \in Nat, o <= l, l <= Len(v)
  PROVE  /\ SubSeq(v, o + 1, l) \in Seq(Byte)
         /\ Len(SubSeq(v, o + 1, l)) = l - o
         /\ \A i \in 1..(l - o) : SubSeq(v, o + 1, l)[i] = v[o + i]
<1>1. \A i \in (o + 1)..l : v[i] \in Byte
  BY LenProperties, ElementOfSeq
<1>2. /\ SubSeq(v, o + 1, l) \in Seq(Byte)
      /\ Len(SubSeq(v, o + 1, l)) = IF o + 1 <= l THEN l - (o + 1) + 1 ELSE 0
      /\ \A i \in 1..(l - (o + 1) + 1) : SubSeq(v, o + 1, l)[i] = v[o + 1 + i - 1]
  BY <1>1, SubSeqProperties
<1> QED
  BY <1>2

\* A string given by its bytes.
LEMMA ByteString ==
  ASSUME NEW n \in Nat, NEW f \in [1..n -> Byte]
  PROVE  f \in Seq(Byte) /\ Len(f) = n
<1>1. f \in Seq(Byte)
  BY SeqDef
<1>2. DOMAIN f = 1..n /\ DOMAIN f = 1..Len(f) /\ Len(f) \in Nat
  BY <1>1, LenProperties
<1> QED
  BY <1>1, <1>2

\* Memory that is allocated and not written.
LEMMA JunkType == ASSUME NEW n \in Nat PROVE Junk(n) \in Seq(Byte) /\ Len(Junk(n)) = n
<1>1. Junk(n) \in [1..n -> Byte]
  BY DEF Junk, Byte
<1> QED
  BY <1>1, ByteString

-----------------------------------------------------------------------------
(* The operations on the buffer.                                            *)

MemType == [str : [StrIds -> ZendString], buffer : StrIds, base : Nat, offset : Nat, length : Nat]

MemOK(m) ==
  /\ m \in MemType
  /\ m.offset <= m.length
  /\ m.length <= Len(Val(m))

\* Nothing but the contents of the buffer is different, and m.base + m.offset
\* is the same place of the stream.
InPlace(m, r) ==
  /\ MemOK(r)
  /\ r.buffer = m.buffer
  /\ r.base + r.offset = m.base + m.offset
  /\ \A i \in StrIds : r.str[i].rc = m.str[i].rc /\ r.str[i].interned = m.str[i].interned
  /\ \A i \in StrIds \ {m.buffer} : r.str[i] = m.str[i]

\* The contents of the buffer.
LEMMA ValType == ASSUME NEW m \in MemType PROVE Val(m) \in Seq(Byte) /\ Len(Val(m)) \in Nat
<1>1. Val(m) \in Seq(Byte)
  BY DEF MemType, Val, ZendString
<1> QED
  BY <1>1, LenProperties

\* The bytes to be read
LEMMA UnreadType ==
  ASSUME NEW m, MemOK(m)
  PROVE  /\ Unread(m) \in Seq(Byte)
         /\ Len(Unread(m)) = m.length - m.offset
         /\ \A i \in 1..(m.length - m.offset) : Unread(m)[i] = Val(m)[m.offset + i]
<1> DEFINE v == Val(m)
           o == m.offset
           l == m.length
<1>1. v \in Seq(Byte) /\ o \in Nat /\ l \in Nat /\ o <= l /\ l <= Len(v)
  BY ValType DEF MemOK, MemType
<1> HIDE DEF v, o, l
<1>2. /\ SubSeq(v, o + 1, l) \in Seq(Byte)
      /\ Len(SubSeq(v, o + 1, l)) = l - o
      /\ \A i \in 1..(l - o) : SubSeq(v, o + 1, l)[i] = v[o + i]
  BY <1>1, Piece
<1> QED
  BY <1>2 DEF Unread, v, o, l

\* Two buffers with the same bytes at their offsets have the same to be read.
LEMMA SameUnread ==
  ASSUME NEW m, MemOK(m), NEW r, MemOK(r), r.length - r.offset = m.length - m.offset,
         \A i \in 1..(m.length - m.offset) : Val(r)[r.offset + i] = Val(m)[m.offset + i]
  PROVE  Unread(r) = Unread(m)
<1> DEFINE a == Unread(r)
           b == Unread(m)
           n == m.length - m.offset
<1>1. a \in Seq(Byte) /\ Len(a) = n /\ \A i \in 1..n : a[i] = Val(r)[r.offset + i]
  BY UnreadType
<1>2. b \in Seq(Byte) /\ Len(b) = n /\ \A i \in 1..n : b[i] = Val(m)[m.offset + i]
  BY UnreadType
<1>3. Len(a) = Len(b) /\ \A i \in 1..Len(a) : a[i] = b[i]
  BY <1>1, <1>2
<1> HIDE DEF a, b, n
<1>4. a = b
  BY <1>1, <1>2, <1>3, SeqEqual
<1> QED
  BY <1>4 DEF a, b

\* A change of the contents
LEMMA SetVal ==
  ASSUME NEW m \in MemType, NEW v \in Seq(Byte), NEW b \in Nat, NEW o \in Nat, NEW l \in Nat,
         NEW r, r = Rewrite(m, v, b, o, l),
         o <= l, l <= Len(v), b + o = m.base + m.offset
  PROVE  /\ InPlace(m, r)
         /\ Val(r) = v /\ r.base = b /\ r.offset = o /\ r.length = l
<1>1. /\ r.str = [m.str EXCEPT ![m.buffer] = [@ EXCEPT !.val = v]]
      /\ r.buffer = m.buffer /\ r.base = b /\ r.offset = o /\ r.length = l
      /\ r = [str |-> r.str, buffer |-> r.buffer, base |-> b, offset |-> o, length |-> l]
  BY DEF Rewrite
<1>2. /\ m.str \in [StrIds -> ZendString]
      /\ m.buffer \in StrIds
  BY DEF MemType
<1> DEFINE z == [m.str[m.buffer] EXCEPT !.val = v]
<1>3. z \in ZendString /\ z.val = v /\ z.rc = m.str[m.buffer].rc /\ z.interned = m.str[m.buffer].interned
  BY <1>2 DEF ZendString
<1>a. r.str = [m.str EXCEPT ![m.buffer] = z]
  BY <1>1
<1> HIDE DEF z
<1>b. /\ r.str \in [StrIds -> ZendString]
      /\ r.str[m.buffer] = z
      /\ \A i \in StrIds \ {m.buffer} : r.str[i] = m.str[i]
  BY <1>2, <1>3, <1>a
<1>4. /\ r.str \in [StrIds -> ZendString]
      /\ r.str[m.buffer].val = v
      /\ \A i \in StrIds : r.str[i].rc = m.str[i].rc /\ r.str[i].interned = m.str[i].interned
      /\ \A i \in StrIds \ {m.buffer} : r.str[i] = m.str[i]
  BY <1>3, <1>b
<1>5. r \in MemType
  BY <1>1, <1>2, <1>4 DEF MemType
<1> QED
  BY <1>1, <1>4, <1>5 DEF InPlace, MemOK, Val

\* reset_buffer_offset moves what is to be read and nothing of it is lost.
LEMMA MoveOK ==
  ASSUME NEW m, MemOK(m)
  PROVE  LET r == reset_buffer_offset(m)
         IN  /\ InPlace(m, r)
             /\ Unread(r) = Unread(m)
             /\ r.offset = 0
             /\ r.length = m.length - m.offset
             /\ Len(Val(r)) = Len(Val(m))
<1> DEFINE r == reset_buffer_offset(m)
           n == m.length - m.offset
           v == [i \in DOMAIN Val(m) |-> IF i <= n THEN Val(m)[i + m.offset] ELSE Val(m)[i]]
<1>1. /\ m \in MemType /\ m.offset \in Nat /\ m.length \in Nat /\ m.base \in Nat
      /\ m.offset <= m.length /\ m.length <= Len(Val(m))
      /\ Val(m) \in Seq(Byte) /\ Len(Val(m)) \in Nat
  BY ValType DEF MemOK, MemType
<1>2. CASE m.offset = 0
  <2>1. r = m
    BY <1>2 DEF reset_buffer_offset
  <2> QED
    BY <1>1, <1>2, <2>1 DEF InPlace, MemOK
<1>3. CASE m.offset # 0
  <2>1. DOMAIN Val(m) = 1..Len(Val(m)) /\ \A i \in 1..Len(Val(m)) : Val(m)[i] \in Byte
    BY <1>1, LenProperties, ElementOfSeq
  <2>2. v \in [1..Len(Val(m)) -> Byte]
    <3>1. \A i \in 1..Len(Val(m)) : i <= n => i + m.offset \in 1..Len(Val(m))
      BY <1>1
    <3> QED
      BY <2>1, <3>1
  <2>3. v \in Seq(Byte) /\ Len(v) = Len(Val(m))
    BY <1>1, <2>2, ByteString
  <2>4. r = Rewrite(m, v, m.base + m.offset, 0, n)
    BY <1>3, <1>1 DEF reset_buffer_offset
  <2>5. n \in Nat /\ n <= Len(v) /\ m.base + m.offset \in Nat /\ m.base + m.offset + 0 = m.base + m.offset
    BY <1>1, <2>3
  <2>6. \A i \in 1..n : v[0 + i] = Val(m)[m.offset + i]
    BY <1>1, <2>1
  <2> HIDE DEF v, r
  <2>7. /\ InPlace(m, r)
        /\ Val(r) = v /\ r.offset = 0 /\ r.length = n
    BY <1>1, <2>3, <2>4, <2>5, SetVal
  <2>8. /\ MemOK(r)
        /\ r.length - r.offset = m.length - m.offset
        /\ \A i \in 1..(m.length - m.offset) : Val(r)[r.offset + i] = Val(m)[m.offset + i]
    BY <1>1, <2>6, <2>7 DEF InPlace
  <2>9. Unread(r) = Unread(m)
    BY <2>8, SameUnread
  <2> QED
    BY <2>3, <2>7, <2>9 DEF r, n
<1> QED
  BY <1>2, <1>3

\* zend_string_realloc to a size that holds what is to be read.
LEMMA ReallocOK ==
  ASSUME NEW m, MemOK(m), NEW size \in Nat, m.length <= size
  PROVE  LET r == Realloc(m, size)
         IN  /\ InPlace(m, r)
             /\ Unread(r) = Unread(m)
             /\ r.offset = m.offset
             /\ r.length = m.length
             /\ Len(Val(r)) = size
<1> DEFINE r == Realloc(m, size)
           v == IF size <= Len(Val(m)) THEN SubSeq(Val(m), 1, size)
                ELSE Val(m) \o Junk(size - Len(Val(m)))
<1>1. /\ m \in MemType /\ m.offset \in Nat /\ m.length \in Nat /\ m.base \in Nat
      /\ m.offset <= m.length /\ m.length <= Len(Val(m))
      /\ Val(m) \in Seq(Byte) /\ Len(Val(m)) \in Nat
  BY ValType DEF MemOK, MemType
<1>2. v \in Seq(Byte) /\ Len(v) = size /\ \A i \in 1..m.length : v[i] = Val(m)[i]
  <2>1. CASE size <= Len(Val(m))
    <3>1. /\ SubSeq(Val(m), 0 + 1, size) \in Seq(Byte)
          /\ Len(SubSeq(Val(m), 0 + 1, size)) = size - 0
          /\ \A i \in 1..(size - 0) : SubSeq(Val(m), 0 + 1, size)[i] = Val(m)[0 + i]
      BY <1>1, <2>1, Piece
    <3> QED
      BY <1>1, <2>1, <3>1
  <2>2. CASE ~(size <= Len(Val(m)))
    <3>1. size - Len(Val(m)) \in Nat
      BY <1>1, <2>2
    <3>2. Junk(size - Len(Val(m))) \in Seq(Byte) /\ Len(Junk(size - Len(Val(m)))) = size - Len(Val(m))
      BY <3>1, JunkType
    <3> DEFINE w == Val(m)
               j == Junk(size - Len(w))
    <3>3. w \in Seq(Byte) /\ j \in Seq(Byte) /\ Len(w) \in Nat /\ Len(w) + Len(j) = size /\ m.length <= Len(w)
      BY <1>1, <3>2
    <3>4. v = w \o j
      BY <2>2
    <3> HIDE DEF w, j, v
    <3>5. v \in Seq(Byte) /\ Len(v) = size /\ \A i \in 1..Len(w) : v[i] = w[i]
      BY <3>3, <3>4, ConcatProperties
    <3>6. \A i \in 1..m.length : i \in 1..Len(w)
      BY <1>1, <3>3
    <3> QED
      BY <3>5, <3>6 DEF w
  <2> QED
    BY <2>1, <2>2
<1>3. r = Rewrite(m, v, m.base, m.offset, m.length)
  BY DEF Realloc
<1> HIDE DEF v, r
<1>4. /\ InPlace(m, r)
      /\ Val(r) = v /\ r.offset = m.offset /\ r.length = m.length
  BY <1>1, <1>2, <1>3, SetVal
<1>5. /\ MemOK(r)
      /\ r.length - r.offset = m.length - m.offset
      /\ \A i \in 1..(m.length - m.offset) : Val(r)[r.offset + i] = Val(m)[m.offset + i]
  BY <1>1, <1>2, <1>4 DEF InPlace
<1>6. Unread(r) = Unread(m)
  BY <1>5, SameUnread
<1> QED
  BY <1>2, <1>4, <1>6 DEF r

\* A change in place after another is one.
LEMMA InPlaceTrans ==
  ASSUME NEW m, NEW r, NEW q, m \in MemType, InPlace(m, r), InPlace(r, q)
  PROVE  InPlace(m, q)
BY DEF InPlace, MemOK, MemType

\* There is room behind what is to be read, and that is the same.
LEMMA MakeRoomOK ==
  ASSUME NEW m, MemOK(m), NEW n \in Nat
  PROVE  LET r == MakeRoom(m, n)
         IN  /\ InPlace(m, r)
             /\ Unread(r) = Unread(m)
             /\ r.length + n <= Len(Val(r))
<1> DEFINE moved == reset_buffer_offset(m)
           size == moved.length + n
<1>1. /\ m \in MemType /\ m.offset \in Nat /\ m.length \in Nat
      /\ m.offset <= m.length /\ m.length <= Len(Val(m)) /\ Len(Val(m)) \in Nat
  BY ValType DEF MemOK, MemType
<1>2. /\ InPlace(m, moved) /\ Unread(moved) = Unread(m)
      /\ moved.length = m.length - m.offset /\ Len(Val(moved)) = Len(Val(m))
  BY MoveOK
<1>3. MemOK(moved) /\ size \in Nat /\ moved.length <= size
  BY <1>1, <1>2 DEF InPlace
<1>4. CASE m.length + n <= Len(Val(m))
  BY <1>1, <1>4 DEF MakeRoom, InPlace, MemOK
<1>5. CASE ~(m.length + n <= Len(Val(m))) /\ size > Len(Val(moved))
  <2>1. MakeRoom(m, n) = Realloc(moved, size)
    BY <1>5 DEF MakeRoom
  <2>2. /\ InPlace(moved, Realloc(moved, size))
        /\ Unread(Realloc(moved, size)) = Unread(moved)
        /\ Realloc(moved, size).length = moved.length
        /\ Len(Val(Realloc(moved, size))) = size
    BY <1>3, ReallocOK
  <2>3. InPlace(m, Realloc(moved, size))
    BY <1>1, <1>2, <2>2, InPlaceTrans
  <2> HIDE DEF moved
  <2> QED
    BY <1>2, <1>3, <2>1, <2>2, <2>3
<1>6. CASE ~(m.length + n <= Len(Val(m))) /\ ~(size > Len(Val(moved)))
  <2>1. MakeRoom(m, n) = moved
    BY <1>6 DEF MakeRoom
  <2> HIDE DEF moved
  <2> QED
    BY <1>1, <1>2, <1>3, <1>6, <2>1
<1> QED
  BY <1>4, <1>5, <1>6

\* The bytes are appended to what is to be read.
LEMMA WriteOK ==
  ASSUME NEW m, MemOK(m), NEW src \in Seq(Byte), m.length + Len(src) <= Len(Val(m))
  PROVE  LET r == Write(m, src)
         IN  InPlace(m, r) /\ Unread(r) = Unread(m) \o src
<1> DEFINE r == Write(m, src)
           k == Len(src)
           v == [i \in DOMAIN Val(m) |->
                   IF i \in (m.length + 1)..(m.length + Len(src)) THEN src[i - m.length] ELSE Val(m)[i]]
<1>1. /\ m \in MemType /\ m.offset \in Nat /\ m.length \in Nat /\ m.base \in Nat
      /\ m.offset <= m.length /\ m.length <= Len(Val(m))
      /\ Val(m) \in Seq(Byte) /\ Len(Val(m)) \in Nat
      /\ k \in Nat
  BY ValType, LenProperties DEF MemOK, MemType
<1>2. /\ DOMAIN Val(m) = 1..Len(Val(m)) /\ \A i \in 1..Len(Val(m)) : Val(m)[i] \in Byte
      /\ \A i \in 1..k : src[i] \in Byte
  BY <1>1, LenProperties, ElementOfSeq
<1>3. v \in [1..Len(Val(m)) -> Byte]
  <2>1. \A i \in (m.length + 1)..(m.length + Len(src)) : i - m.length \in 1..k
    BY <1>1
  <2> QED
    BY <1>2, <2>1
<1>4. v \in Seq(Byte) /\ Len(v) = Len(Val(m))
  BY <1>1, <1>3, ByteString
<1>5. r = Rewrite(m, v, m.base, m.offset, m.length + k)
  BY DEF Write
<1>6. /\ \A i \in 1..m.length : v[i] = Val(m)[i]
      /\ \A i \in 1..k : v[m.length + i] = src[i]
  BY <1>1, <1>2, SMTT(40)
<1> HIDE DEF v, r
<1>7. /\ InPlace(m, r)
      /\ Val(r) = v /\ r.offset = m.offset /\ r.length = m.length + k
  BY <1>1, <1>4, <1>5, SetVal
<1> DEFINE a == Unread(r)
           b == Unread(m)
<1>8. /\ a \in Seq(Byte) /\ Len(a) = m.length + k - m.offset
      /\ \A i \in 1..(m.length + k - m.offset) : a[i] = v[m.offset + i]
  <2>1. MemOK(r)
    BY <1>7 DEF InPlace
  <2>2. /\ a \in Seq(Byte) /\ Len(a) = r.length - r.offset
        /\ \A i \in 1..(r.length - r.offset) : a[i] = Val(r)[r.offset + i]
    BY <2>1, UnreadType
  <2> HIDE DEF a
  <2>3. r.length - r.offset = m.length + k - m.offset
    BY <1>1, <1>7
  <2> QED
    BY <1>7, <2>2, <2>3
<1>9. /\ b \in Seq(Byte) /\ Len(b) = m.length - m.offset
      /\ \A i \in 1..(m.length - m.offset) : b[i] = Val(m)[m.offset + i]
  BY UnreadType
<1> HIDE DEF a, b
<1>10. /\ b \o src \in Seq(Byte) /\ Len(b \o src) = Len(b) + k
       /\ \A i \in 1..(Len(b) + k) : (b \o src)[i] = IF i <= Len(b) THEN b[i] ELSE src[i - Len(b)]
  BY <1>9, ConcatProperties
<1> DEFINE n == m.length - m.offset
<1>b. n \in Nat /\ Len(b) = n /\ Len(a) = n + k /\ n + k \in Nat
  BY <1>1, <1>8, <1>9, SMTT(40)
<1>11. ASSUME NEW i \in 1..(n + k) PROVE a[i] = (b \o src)[i]
  <2>1. a[i] = v[m.offset + i] /\ (b \o src)[i] = IF i <= n THEN b[i] ELSE src[i - n]
    <3>1. m.length + k - m.offset = n + k
      BY <1>1
    <3> QED
      BY <1>8, <1>10, <1>b, <3>1
  <2>2. CASE i <= n
    <3>1. m.offset + i \in 1..m.length /\ i \in 1..n
      BY <1>1, <2>2
    <3> QED
      BY <1>6, <1>9, <2>1, <2>2, <3>1
  <2>3. CASE i > n
    <3>1. i - n \in 1..k /\ m.offset + i = m.length + (i - n) /\ ~(i <= n)
      BY <1>1, <2>3
    <3> QED
      BY <1>6, <2>1, <3>1
  <2>4. i <= n \/ i > n
    BY <1>1
  <2> QED
    BY <2>2, <2>3, <2>4, Zenon
<1>12. Len(a) = Len(b \o src)
  BY <1>10, <1>b
<1>13. a = b \o src
  BY <1>8, <1>10, <1>11, <1>12, <1>b, SeqEqual
<1> QED
  BY <1>7, <1>13 DEF a, b, r

\* The end of process() keeps what is to be read, and leaves alone a buffer
\* that somebody else holds.
LEMMA ShrinkOK ==
  ASSUME NEW m, MemOK(m)
  PROVE  LET r == Shrink(m)
         IN  /\ InPlace(m, r)
             /\ Unread(r) = Unread(m)
             /\ IsOwned(m) \/ r = m
<1> DEFINE moved == reset_buffer_offset(m)
<1>1. m \in MemType
  BY DEF MemOK
<1>2. InPlace(m, moved) /\ Unread(moved) = Unread(m) /\ MemOK(moved)
  BY MoveOK DEF InPlace
<1>3. moved.length \in Nat /\ moved.length <= moved.length
  BY <1>2 DEF MemOK, MemType
<1>4. InPlace(moved, Realloc(moved, moved.length)) /\ Unread(Realloc(moved, moved.length)) = Unread(moved)
  BY <1>2, <1>3, ReallocOK
<1>5. InPlace(m, Realloc(moved, moved.length))
  BY <1>1, <1>2, <1>4, InPlaceTrans
<1>6. InPlace(m, m)
  BY DEF InPlace, MemOK
<1>7. CASE m.offset > ShrinkAt /\ IsOwned(m)
  <2>1. Shrink(m) = Realloc(moved, moved.length)
    BY <1>7 DEF Shrink
  <2> HIDE DEF moved
  <2> QED
    BY <1>2, <1>4, <1>5, <1>7, <2>1
<1>8. CASE ~(m.offset > ShrinkAt /\ IsOwned(m))
  BY <1>6, <1>8 DEF Shrink
<1> QED
  BY <1>7, <1>8

\* The first n bytes are used up.
LEMMA AdvanceOK ==
  ASSUME NEW m, MemOK(m), NEW n \in Nat, n <= Len(Unread(m)),
         NEW r \in MemType, r.str = m.str, r.buffer = m.buffer, r.base = m.base,
         r.offset = m.offset + n, r.length = m.length
  PROVE  /\ MemOK(r)
         /\ r.str = m.str /\ r.buffer = m.buffer /\ r.base + r.offset = m.base + m.offset + n
         /\ Unread(r) = SubSeq(Unread(m), n + 1, Len(Unread(m)))
<1> DEFINE u == Unread(m)
           w == Unread(r)
           k == Len(u)
           t == SubSeq(u, n + 1, k)
<1>1. /\ m \in MemType /\ m.offset \in Nat /\ m.length \in Nat /\ m.base \in Nat
      /\ m.offset <= m.length /\ m.length <= Len(Val(m))
  BY DEF MemOK, MemType
<1>2. /\ u \in Seq(Byte) /\ Len(u) = m.length - m.offset
      /\ \A i \in 1..(m.length - m.offset) : u[i] = Val(m)[m.offset + i]
  BY UnreadType
<1>3. /\ r.str = m.str /\ r.buffer = m.buffer /\ r.base = m.base
      /\ r.offset = m.offset + n /\ r.length = m.length
      /\ r \in MemType
  BY <1>1 DEF MemType
<1>4. Val(r) = Val(m)
  BY <1>3 DEF Val
<1>5. MemOK(r)
  BY <1>1, <1>2, <1>3, <1>4 DEF MemOK
<1>6. /\ w \in Seq(Byte) /\ Len(w) = r.length - r.offset
      /\ \A i \in 1..(r.length - r.offset) : w[i] = Val(r)[r.offset + i]
  BY <1>5, UnreadType
<1>7. k \in Nat /\ n <= k
  BY <1>2, LenProperties
<1> HIDE DEF u, w
<1>8. /\ t \in Seq(Byte) /\ Len(t) = k - n
      /\ \A i \in 1..(k - n) : t[i] = u[n + i]
  BY <1>2, <1>7, Piece
<1>a. r.length - r.offset = k - n
  BY <1>1, <1>2, <1>3
<1> HIDE DEF k
<1>9. /\ Len(w) = k - n
      /\ \A i \in 1..(k - n) : w[i] = Val(m)[m.offset + n + i]
  BY <1>3, <1>4, <1>6, <1>a
<1> USE DEF k
<1>10. ASSUME NEW i \in 1..(k - n) PROVE w[i] = t[i]
  <2>1. n + i \in 1..(m.length - m.offset) /\ m.offset + (n + i) = m.offset + n + i
    BY <1>1, <1>2, <1>7
  <2>2. t[i] = Val(m)[m.offset + (n + i)]
    BY <1>2, <1>8, <2>1
  <2> QED
    BY <1>9, <2>1, <2>2
<1> HIDE DEF t
<1>11. w = t
  BY <1>6, <1>8, <1>9, <1>10, SeqEqual
<1>12. r.base + r.offset = m.base + m.offset + n
  BY <1>1, <1>3
<1> QED
  BY <1>3, <1>5, <1>11, <1>12 DEF w, t, u, k

-----------------------------------------------------------------------------
(* Reference counts.                                                        *)

\* zend_string_addref changes the count of one string, if anything.
LEMMA AddRefOK ==
  ASSUME NEW strs \in [StrIds -> ZendString], NEW i \in StrIds
  PROVE  LET q == AddRef(strs, i)
         IN  /\ q \in [StrIds -> ZendString]
             /\ \A j \in StrIds : q[j].val = strs[j].val /\ q[j].interned = strs[j].interned
             /\ \A j \in StrIds \ {i} : q[j] = strs[j]
             /\ ~strs[i].interned => q[i].rc = strs[i].rc + 1
<1>1. CASE strs[i].interned
  BY <1>1 DEF AddRef
<1>2. CASE ~strs[i].interned
  <2> DEFINE z == [strs[i] EXCEPT !.rc = @ + 1]
  <2>1. /\ z \in ZendString /\ z.val = strs[i].val /\ z.interned = strs[i].interned
        /\ z.rc = strs[i].rc + 1
    BY DEF ZendString
  <2>2. AddRef(strs, i) = [strs EXCEPT ![i] = z]
    BY <1>2 DEF AddRef
  <2> HIDE DEF z
  <2> QED
    BY <2>1, <2>2
<1> QED
  BY <1>1, <1>2

\* zend_string_release changes one string, and its contents only if it frees it.
LEMMA ReleaseOK ==
  ASSUME NEW strs \in [StrIds -> ZendString], NEW i \in StrIds,
         strs[i].interned \/ strs[i].rc >= 1
  PROVE  LET q == Release(strs, i)
         IN  /\ q \in [StrIds -> ZendString]
             /\ \A j \in StrIds : q[j].interned = strs[j].interned
             /\ \A j \in StrIds \ {i} : q[j] = strs[j]
             /\ strs[i].interned => q = strs
             /\ ~strs[i].interned => q[i].rc = strs[i].rc - 1
             /\ strs[i].rc > 1 => q[i].val = strs[i].val
<1>1. CASE strs[i].interned
  BY <1>1 DEF Release
<1>2. CASE ~strs[i].interned /\ strs[i].rc = 1
  <2>1. NoString \in ZendString /\ NoString.rc = 0 /\ NoString.interned = FALSE
    BY EmptySeq DEF NoString, ZendString
  <2>2. Release(strs, i) = [strs EXCEPT ![i] = NoString]
    BY <1>2 DEF Release
  <2>3. strs[i].interned = FALSE
    BY <1>2, Zenon DEF ZendString
  <2> DEFINE z == NoString
  <2>a. z \in ZendString /\ z.rc = 0 /\ z.interned = strs[i].interned
    BY <2>1, <2>3, Zenon
  <2>b. strs[i].rc - 1 = 0
    BY <1>2
  <2>4. z \in ZendString /\ z.rc = strs[i].rc - 1 /\ z.interned = strs[i].interned
    BY <2>a, <2>b, Zenon
  <2>5. Release(strs, i) = [strs EXCEPT ![i] = z]
    BY <2>2
  <2> HIDE DEF z
  <2> QED
    BY <1>2, <2>4, <2>5
<1>3. CASE ~strs[i].interned /\ strs[i].rc # 1
  <2> DEFINE z == [strs[i] EXCEPT !.rc = @ - 1]
  <2>1. strs[i] \in ZendString /\ strs[i].rc \in Nat /\ strs[i].rc - 1 \in Nat
    BY <1>3 DEF ZendString
  <2>2. /\ z \in ZendString /\ z.interned = strs[i].interned
        /\ z.rc = strs[i].rc - 1 /\ z.val = strs[i].val
    BY <2>1 DEF ZendString
  <2>3. Release(strs, i) = [strs EXCEPT ![i] = z]
    BY <1>3 DEF Release
  <2> HIDE DEF z
  <2> QED
    BY <1>3, <2>2, <2>3
<1> QED
  BY <1>1, <1>2, <1>3

-----------------------------------------------------------------------------
(* Memory that the decoder may be left with.                                *)

Counted(strs, buf) ==
  \A i \in StrIds : ~strs[i].interned =>
    strs[i].rc = (IF i \in held THEN 1 ELSE 0) + (IF i = buf THEN 1 ELSE 0)

\* The user's strings are as they are.
UserStable(strs) == \A i \in held : strs[i].val = str[i].val

MemInv(m) ==
  /\ MemOK(m)
  /\ Unread(m) \in Seq(DataByte)
  /\ Counted(m.str, m.buffer)
  /\ m.str[EmptyStr].interned
  /\ UserStable(m.str)

\* The fields of Mem are the variables.
LEMMA MemIsMem ==
  /\ Mem.str = str /\ Mem.buffer = buffer /\ Mem.base = base
  /\ Mem.offset = offset /\ Mem.length = length
BY DEF Mem

\* What the invariant says of the memory.
LEMMA MemHasInv == ASSUME IInv PROVE MemInv(Mem) /\ Mem \in MemType
<1>1. Mem \in MemType
  BY DEF IInv, TypeOK, Mem, MemType
<1>2. MemOK(Mem) /\ Unread(Mem) \in Seq(DataByte)
  BY <1>1, MemIsMem DEF MemOK, IInv, BufferValid
<1>3. Counted(Mem.str, Mem.buffer) /\ Mem.str[EmptyStr].interned /\ UserStable(Mem.str)
  BY MemIsMem DEF Counted, UserStable, IInv, RefcountExact, UserInv
<1> QED
  BY <1>1, <1>2, <1>3 DEF MemInv

\* A buffer of the decoder's own may be changed in place.
LEMMA InPlaceInv ==
  ASSUME IInv, NEW m, MemInv(m), NEW r, InPlace(m, r), Unread(r) \in Seq(DataByte),
         IsOwned(m) \/ r = m
  PROVE  MemInv(r)
<1>1. CASE r = m
  BY <1>1
<1>2. CASE IsOwned(m)
  <2>1. m.str \in [StrIds -> ZendString] /\ m.buffer \in StrIds /\ held \subseteq StrIds
    BY DEF MemInv, MemOK, MemType, IInv, TypeOK
  <2>2. m.str[m.buffer].rc = (IF m.buffer \in held THEN 1 ELSE 0) + 1
    BY <1>2, <2>1 DEF MemInv, Counted, IsOwned
  <2>3. m.buffer \notin held
    BY <1>2, <2>2 DEF IsOwned
  <2>4. Counted(r.str, r.buffer)
    BY <2>1 DEF InPlace, MemInv, Counted
  <2>5. UserStable(r.str)
    BY <2>1, <2>3 DEF UserStable, InPlace, MemInv
  <2>6. r.str[EmptyStr].interned
    BY StrAssumption DEF InPlace, MemInv
  <2> QED
    BY <2>4, <2>5, <2>6 DEF MemInv, InPlace
<1> QED
  BY <1>1, <1>2

\* What the decoder leaves is the memory of the next state.
LEMMA NewMem ==
  ASSUME IInv, NEW r, MemInv(r), SetMem(r), UNCHANGED held,
         args' \in DecodeArgs, ctx' \in PartialItem, data' \in DecodedItem, exception' \in Exception
  PROVE  /\ IInv'
         /\ Unread(Mem)' = Unread(r)
         /\ base' + offset' = r.base + r.offset
         /\ UserStable(str')
<1>1. /\ r \in MemType /\ str' = r.str /\ buffer' = r.buffer /\ base' = r.base
      /\ offset' = r.offset /\ length' = r.length
  BY DEF MemInv, MemOK, SetMem
<1>2. /\ Val(Mem)' = Val(r) /\ Unread(Mem)' = Unread(r)
  BY <1>1 DEF Val, Mem, Unread
<1>3. TypeOK'
  BY <1>1 DEF TypeOK, MemType, IInv
<1>4. BufferValid'
  BY <1>1, <1>2 DEF BufferValid, MemInv, MemOK
<1>5. RefcountExact'
  BY <1>1 DEF RefcountExact, MemInv, Counted
<1>6. UserInv'
  BY <1>1 DEF UserInv, IInv, MemInv, UserStable
<1> QED
  BY <1>1, <1>2, <1>3, <1>4, <1>5, <1>6 DEF IInv, MemInv

-----------------------------------------------------------------------------
(* Arguments of add() and the outcome of process().                         *)

\* The bytes that add() appends are those that substr() gives.
LEMMA SubstrArgs ==
  ASSUME NEW s \in Seq(Byte), NEW off \in Int, NEW len \in LengthArg
  PROVE  LET a == AddArgs(Len(s), off, len)
         IN  /\ a.data_off \in Nat /\ a.append_len \in Nat /\ a.data_off + a.append_len <= Len(s)
             /\ a.whole => a.append_len = Len(s) - a.data_off
             /\ a.nothing => Stream!Substr(s, off, len) = << >>
             /\ ~a.nothing =>
                  Stream!Substr(s, off, len) = SubSeq(s, a.data_off + 1, a.data_off + a.append_len)
<1> DEFINE n == Len(s)
           fromEnd == IF off + n < 0 THEN 0 ELSE off + n
           start == IF off < 0 THEN fromEnd ELSE off
           data_off == IF start > n THEN n ELSE start
           end == IF len.n + n < 0 THEN 0 ELSE len.n + n
           data_len == IF len.n >= 0 THEN len.n
                       ELSE IF end < data_off THEN 0 ELSE end - data_off
           whole == len.null \/ (len.n > 0 /\ len.n >= n - data_off)
           append_len == IF whole \/ data_len > n - data_off THEN n - data_off ELSE data_len
           from == Stream!Clamp(IF off < 0 THEN off + n ELSE off, n)
           to == IF len.null THEN n
                 ELSE IF len.n < 0 THEN (IF n + len.n < from THEN from ELSE n + len.n)
                 ELSE Stream!Clamp(from + len.n, n)
<1>1. n \in Nat /\ len.n \in Int
  BY LenProperties DEF LengthArg
<1>2. LET a == AddArgs(n, off, len)
      IN  /\ a.nothing <=> (~len.null /\ len.n = 0) \/ data_off >= n
          /\ a.whole <=> whole
          /\ a.data_off = data_off
          /\ a.append_len = append_len
  BY DEF AddArgs
<1>3. Stream!Substr(s, off, len) = SubSeq(s, from + 1, to)
  BY DEF Stream!Substr
<1> HIDE DEF n
<1>4. data_off \in Nat /\ data_off <= n /\ from = data_off
  BY <1>1 DEF Stream!Clamp
<1> HIDE DEF from, data_off
<1>5. append_len \in Nat /\ data_off + append_len <= n /\ (whole => append_len = n - data_off)
  BY <1>1, <1>4
<1>6. (~len.null /\ len.n = 0) \/ data_off >= n => to \in Int /\ to < from + 1
  BY <1>1, <1>4 DEF Stream!Clamp
<1>7. ~((~len.null /\ len.n = 0) \/ data_off >= n) => to = data_off + append_len
  BY <1>1, <1>4 DEF Stream!Clamp
<1> HIDE DEF to, whole, append_len
<1>8. (~len.null /\ len.n = 0) \/ data_off >= n => SubSeq(s, from + 1, to) = << >>
  BY <1>4, <1>6, SubSeqEmpty
<1> QED
  BY <1>2, <1>3, <1>4, <1>5, <1>7, <1>8 DEF n

\* process() uses up bytes that there are.
LEMMA OutcomeType ==
  ASSUME NEW bytes \in Seq(Byte)
  PROVE  Outcome(bytes).n \in Nat /\ Outcome(bytes).n <= Len(bytes)
<1> DEFINE T == {i \in DOMAIN bytes : \A j \in 1..i : bytes[j] = "tag"}
           tags == Cardinality(T)
<1>1. Len(bytes) \in Nat /\ DOMAIN bytes = 1..Len(bytes)
  BY LenProperties
<1>2. IsFiniteSet(1..Len(bytes)) /\ Cardinality(1..Len(bytes)) = Len(bytes)
  BY <1>1, FS_Interval, SMTT(40)
<1>3. T \subseteq 1..Len(bytes)
  BY <1>1
<1>4. tags \in Nat /\ tags <= Len(bytes)
  BY <1>2, <1>3, FS_Subset, FS_CardinalityType
<1> HIDE DEF T, tags
<1> QED
  BY <1>1, <1>4 DEF Outcome, T, tags

-----------------------------------------------------------------------------
(* What a call of a method comes to: the invariant, the user's strings and   *)
(* the step of the stream.                                                   *)

CallOK == IInv' /\ UserStable(str') /\ Stream!Next

\* The stream is empty when the buffer is used up.
LEMMA StreamView ==
  ASSUME IInv
  PROVE  /\ Unread(Mem) \in Seq(Byte) /\ Len(Unread(Mem)) = length - offset
         /\ length \in Nat /\ offset \in Nat /\ base \in Nat /\ offset <= length
         /\ Unread(Mem) = << >> <=> offset = length
<1>1. MemOK(Mem)
  BY MemHasInv DEF MemInv
<1>2. Unread(Mem) \in Seq(Byte) /\ Len(Unread(Mem)) = length - offset
  BY <1>1, UnreadType, MemIsMem
<1>3. length \in Nat /\ offset \in Nat /\ base \in Nat /\ offset <= length
  BY DEF IInv, TypeOK, BufferValid
<1> DEFINE u == Unread(Mem)
<1> HIDE DEF u
<1>4. u \in Seq(Byte) /\ Len(u) = length - offset
  BY <1>2 DEF u
<1>5. u = << >> <=> offset = length
  BY <1>3, <1>4, EmptySeq
<1> QED
  BY <1>2, <1>3, <1>5 DEF u

\* The strings of the user are made of data.
LEMMA HeldType ==
  ASSUME IInv, NEW i \in held
  PROVE  /\ i \in StrIds /\ str[i].val \in Inputs
         /\ str[i].val \in Seq(DataByte) /\ str[i].val \in Seq(Byte)
         /\ Len(str[i].val) \in Nat
<1>1. i \in StrIds /\ str[i].val \in Inputs
  BY DEF IInv, TypeOK, UserInv
<1>2. str[i].val \in Seq(DataByte)
  BY <1>1, InputsAssumption
<1> QED
  BY <1>1, <1>2, SeqMonotonic, LenProperties DEF Byte

\* The data of a part is data.
LEMMA DataPart ==
  ASSUME NEW s \in Seq(DataByte), NEW o \in Nat, NEW l \in Nat, l <= Len(s)
  PROVE  SubSeq(s, o + 1, l) \in Seq(DataByte)
<1>1. \A i \in (o + 1)..l : s[i] \in DataByte
  BY LenProperties, ElementOfSeq
<1> QED
  BY <1>1, SubSeqProperties

\* add() without anything to add
LEMMA AddNothingOK ==
  ASSUME IInv, NEW i \in StrIds, NEW off \in Offsets, NEW len \in AddLengths, Add(i, off, len),
         AddArgs(Len(str[i].val), off, len).nothing, UNCHANGED memVars
  PROVE  CallOK
<1>1. i \in held /\ off \in Int /\ len \in LengthArg
  BY AddAssumption DEF Add
<1>2. str[i].val \in Inputs /\ str[i].val \in Seq(Byte)
  BY <1>1, HeldType
<1>3. Stream!Substr(str[i].val, off, len) = << >>
  BY <1>1, <1>2, SubstrArgs
<1>4. /\ exception' = NoException
      /\ UNCHANGED <<args, held, ctx, data>>
      /\ str' = str /\ buffer' = buffer /\ base' = base /\ offset' = offset /\ length' = length
  BY DEF Add, memVars
<1>5. Unread(Mem)' = Unread(Mem)
  BY <1>4 DEF Unread, Val, Mem
<1>6. Unread(Mem) \o << >> = Unread(Mem)
  BY StreamView, ConcatEmptySeq
<1>7. Stream!Add(str[i].val, off, len)
  BY <1>3, <1>4, <1>5, <1>6 DEF Stream!Add, Stream!NoException, NoException
<1>8. Stream!Next
  BY <1>2, <1>7 DEF Stream!Next
<1>9. IInv'
  <2>1. exception' \in Exception
    BY <1>4 DEF NoException, Exception
  <2>2. Val(Mem)' = Val(Mem)
    BY <1>4 DEF Val, Mem
  <2> QED
    BY <1>4, <1>5, <2>1, <2>2 DEF IInv, TypeOK, BufferValid, RefcountExact, UserInv
<1> QED
  BY <1>4, <1>8, <1>9 DEF CallOK, UserStable

\* add() that appends to the stream
LEMMA AddStep ==
  ASSUME IInv, NEW i \in StrIds, NEW off \in Offsets, NEW len \in AddLengths, Add(i, off, len),
         NEW r, MemInv(r), SetMem(r), r.base + r.offset = base + offset,
         Unread(r) = Unread(Mem) \o Stream!Substr(str[i].val, off, len)
  PROVE  CallOK
<1>1. str[i].val \in Inputs
  BY HeldType DEF Add
<1>2. exception' = NoException /\ UNCHANGED <<args, held, ctx, data>>
  BY DEF Add
<1>3. args' \in DecodeArgs /\ ctx' \in PartialItem /\ data' \in DecodedItem /\ exception' \in Exception
  BY <1>2 DEF IInv, TypeOK, NoException, Exception
<1>4. IInv' /\ Unread(Mem)' = Unread(r) /\ base' + offset' = r.base + r.offset /\ UserStable(str')
  BY <1>2, <1>3, NewMem
<1>5. Stream!Add(str[i].val, off, len)
  BY <1>2, <1>4 DEF Stream!Add, Stream!NoException, NoException
<1>6. Stream!Next
  BY <1>1, <1>5 DEF Stream!Next
<1> QED
  BY <1>4, <1>6 DEF CallOK

\* add() that takes over the user's string
LEMMA AddSharedOK ==
  ASSUME IInv, NEW i \in StrIds, NEW off \in Offsets, NEW len \in AddLengths, Add(i, off, len),
         AddShared(i, off, len)
  PROVE  CallOK
<1> DEFINE s == str[i].val
           a == AddArgs(Len(s), off, len)
           q == Release(str, buffer)
           r == [ str |-> AddRef(q, i), buffer |-> i,
                  base |-> base + offset, offset |-> 0, length |-> Len(s) ]
<1>1. i \in held /\ off \in Int /\ len \in LengthArg
  BY AddAssumption DEF Add
<1>2. s \in Inputs /\ s \in Seq(DataByte) /\ s \in Seq(Byte) /\ Len(s) \in Nat
  BY <1>1, HeldType
<1>3. ~a.nothing /\ offset = length /\ a.data_off = 0 /\ a.whole /\ SetMem(r)
  BY DEF AddShared
<1>4. Stream!Substr(s, off, len) = s
  <2>1. a.append_len = Len(s) - a.data_off /\ Stream!Substr(s, off, len) = SubSeq(s, a.data_off + 1, a.data_off + a.append_len)
    BY <1>1, <1>2, <1>3, SubstrArgs
  <2>2. a.data_off + 1 = 1 /\ a.data_off + a.append_len = Len(s)
    BY <1>2, <1>3, <2>1
  <2>3. SubSeq(s, 1, Len(s)) = s
    BY <1>2, SubSeqFull
  <2> QED
    BY <2>1, <2>2, <2>3
<1>5. /\ str \in [StrIds -> ZendString] /\ buffer \in StrIds /\ base + offset \in Nat
      /\ held \subseteq StrIds
  BY DEF IInv, TypeOK
<1>6. \A j \in StrIds : ~str[j].interned => str[j].rc = (IF j \in held THEN 1 ELSE 0) + (IF j = buffer THEN 1 ELSE 0)
  BY DEF IInv, RefcountExact
<1>7. str[buffer].interned \/ str[buffer].rc >= 1
  BY <1>5, <1>6
<1>8. /\ q \in [StrIds -> ZendString]
      /\ \A j \in StrIds : q[j].interned = str[j].interned
      /\ \A j \in StrIds \ {buffer} : q[j] = str[j]
      /\ str[buffer].interned => q = str
      /\ ~str[buffer].interned => q[buffer].rc = str[buffer].rc - 1
      /\ str[buffer].rc > 1 => q[buffer].val = str[buffer].val
  BY <1>5, <1>7, ReleaseOK
<1>9. \A j \in held : q[j].val = str[j].val
  <2> SUFFICES ASSUME NEW j \in held PROVE q[j].val = str[j].val
    OBVIOUS
  <2>1. CASE j # buffer
    BY <1>5, <1>8, <2>1
  <2>2. CASE j = buffer /\ str[buffer].interned
    BY <1>8, <2>2
  <2>3. CASE j = buffer /\ ~str[buffer].interned
    <3>1. str[buffer].rc = 2
      BY <1>5, <1>6, <2>3
    <3> QED
      BY <1>8, <2>3, <3>1
  <2> QED
    BY <2>1, <2>2, <2>3
<1> HIDE DEF q
<1> DEFINE t == AddRef(q, i)
<1>10. /\ t \in [StrIds -> ZendString]
       /\ \A j \in StrIds : t[j].val = q[j].val /\ t[j].interned = q[j].interned
       /\ \A j \in StrIds \ {i} : t[j] = q[j]
       /\ ~q[i].interned => t[i].rc = q[i].rc + 1
  BY <1>8, AddRefOK
<1> HIDE DEF t
<1>11. r.str = t /\ r.buffer = i /\ r.base = base + offset /\ r.offset = 0 /\ r.length = Len(s)
  BY DEF t
<1>12. Val(r) = s
  BY <1>1, <1>5, <1>9, <1>10, <1>11 DEF Val
<1>13. MemOK(r)
  <2>1. r \in MemType
    BY <1>2, <1>5, <1>10, <1>11 DEF MemType, t
  <2> QED
    BY <1>2, <1>11, <1>12, <2>1 DEF MemOK
<1>14. Unread(r) = s
  BY <1>2, <1>11, <1>12, SubSeqFull DEF Unread
<1>15. Counted(t, i)
  <2> SUFFICES ASSUME NEW j \in StrIds, ~t[j].interned
               PROVE  t[j].rc = (IF j \in held THEN 1 ELSE 0) + (IF j = i THEN 1 ELSE 0)
    BY DEF Counted
  <2>1. ~q[j].interned /\ ~str[j].interned
    BY <1>8, <1>10
  <2>2. q[j].rc = IF j \in held THEN 1 ELSE 0
    BY <1>5, <1>6, <1>8, <2>1
  <2>3. CASE j = i
    BY <1>10, <2>1, <2>2, <2>3
  <2>4. CASE j # i
    BY <1>10, <2>2, <2>4
  <2> QED
    BY <2>3, <2>4
<1>16. t[EmptyStr].interned
  BY <1>8, <1>10, StrAssumption DEF IInv, UserInv
<1>17. UserStable(t)
  BY <1>5, <1>9, <1>10 DEF UserStable
<1>18. MemInv(r)
  BY <1>2, <1>11, <1>13, <1>14, <1>15, <1>16, <1>17 DEF MemInv
<1>19. Unread(r) = Unread(Mem) \o Stream!Substr(s, off, len)
  <2>1. Unread(Mem) = << >> /\ << >> \o s = s
    BY <1>2, <1>3, StreamView, ConcatEmptySeq
  <2> QED
    BY <1>4, <1>14, <2>1
<1>20. r.base + r.offset = base + offset
  BY <1>5, <1>11
<1> HIDE DEF r
<1> QED
  BY <1>3, <1>18, <1>19, <1>20, AddStep

\* Separation: the decoder has a string of its own, with the same bytes to be
\* read and room for more.
LEMMA SeparateOK ==
  ASSUME IInv, NEW new \in FreeIds, NEW n \in Nat
  PROVE  LET r == Separate(Mem, new, n)
         IN  /\ MemInv(r) /\ IsOwned(r)
             /\ Unread(r) = Unread(Mem)
             /\ r.base + r.offset = base + offset
<1> DEFINE u == Unread(Mem)
           v == u \o Junk(n)
           z == [val |-> v, rc |-> 1, interned |-> FALSE]
           q == Release(str, buffer)
           t == [q EXCEPT ![new] = z]
           r == Separate(Mem, new, n)
<1>1. /\ str \in [StrIds -> ZendString] /\ buffer \in StrIds /\ base + offset \in Nat
      /\ held \subseteq StrIds
      /\ base \in Nat /\ offset \in Nat /\ length \in Nat /\ offset <= length
  BY DEF IInv, TypeOK, BufferValid
<1>2. \A j \in StrIds : ~str[j].interned => str[j].rc = (IF j \in held THEN 1 ELSE 0) + (IF j = buffer THEN 1 ELSE 0)
  BY DEF IInv, RefcountExact
<1>3. new \in StrIds /\ ~str[new].interned /\ str[new].rc = 0
  BY DEF FreeIds
<1>4. new \notin held /\ new # buffer
  BY <1>1, <1>2, <1>3
<1>5. str[buffer].interned \/ str[buffer].rc >= 1
  BY <1>1, <1>2
<1>6. /\ q \in [StrIds -> ZendString]
      /\ \A j \in StrIds : q[j].interned = str[j].interned
      /\ \A j \in StrIds \ {buffer} : q[j] = str[j]
      /\ str[buffer].interned => q = str
      /\ ~str[buffer].interned => q[buffer].rc = str[buffer].rc - 1
      /\ str[buffer].rc > 1 => q[buffer].val = str[buffer].val
  BY <1>1, <1>5, ReleaseOK
<1>7. /\ u \in Seq(Byte) /\ Len(u) = length - offset
      /\ Unread(Mem) \in Seq(DataByte)
  BY StreamView DEF IInv, BufferValid
<1>8. Junk(n) \in Seq(Byte) /\ Len(Junk(n)) = n
  BY JunkType
<1> DEFINE k == length - offset
<1>9. k \in Nat /\ Len(u) = k
  BY <1>1, <1>7
<1>10. /\ v \in Seq(Byte) /\ Len(v) = k + n
       /\ \A i \in 1..k : v[i] = u[i]
  <2> HIDE DEF u, k
  <2>1. /\ u \o Junk(n) \in Seq(Byte) /\ Len(u \o Junk(n)) = Len(u) + Len(Junk(n))
        /\ \A i \in 1..(Len(u) + Len(Junk(n))) :
             (u \o Junk(n))[i] = IF i <= Len(u) THEN u[i] ELSE Junk(n)[i - Len(u)]
    BY <1>7, <1>8, ConcatProperties DEF u
  <2> QED
    BY <1>8, <1>9, <2>1
<1>11. z \in ZendString /\ z.val = v /\ z.rc = 1 /\ ~z.interned
  BY <1>10 DEF ZendString
<1>12. /\ r.str = t /\ r.buffer = new /\ r.base = base + offset /\ r.offset = 0 /\ r.length = k
       /\ r = [str |-> t, buffer |-> new, base |-> base + offset, offset |-> 0, length |-> k]
  BY MemIsMem DEF Separate
<1> HIDE DEF z, q, v
<1>13. /\ t \in [StrIds -> ZendString] /\ t[new] = z
       /\ \A j \in StrIds \ {new} : t[j] = q[j]
  BY <1>3, <1>6, <1>11
<1> HIDE DEF t, u, k, r
<1>14. Val(r) = v
  BY <1>11, <1>12, <1>13 DEF Val
<1>15. r \in MemType
  BY <1>1, <1>3, <1>9, <1>12, <1>13 DEF MemType
<1>16. MemOK(r)
  BY <1>9, <1>10, <1>12, <1>14, <1>15 DEF MemOK
<1>17. Unread(r) = u
  <2>1. /\ Unread(r) \in Seq(Byte)
        /\ Len(Unread(r)) = r.length - r.offset
        /\ \A i \in 1..(r.length - r.offset) : Unread(r)[i] = Val(r)[r.offset + i]
    BY <1>16, UnreadType
  <2>2. r.length - r.offset = k
    BY <1>9, <1>12
  <2>3. Len(Unread(r)) = k /\ \A i \in 1..k : Unread(r)[i] = u[i]
    BY <1>9, <1>10, <1>12, <1>14, <2>1, <2>2
  <2> DEFINE w == Unread(r)
  <2>4. w \in Seq(Byte) /\ Len(w) = Len(u) /\ \A i \in 1..Len(w) : w[i] = u[i]
    BY <1>9, <2>1, <2>3
  <2>5. u \in Seq(Byte)
    BY <1>7 DEF u
  <2> HIDE DEF w
  <2>6. w = u
    BY <2>4, <2>5, SeqEqual
  <2> QED
    BY <2>6 DEF w
<1>18. IsOwned(r)
  BY <1>11, <1>12, <1>13 DEF IsOwned
<1>19. Counted(t, new)
  <2> SUFFICES ASSUME NEW j \in StrIds, ~t[j].interned
               PROVE  t[j].rc = (IF j \in held THEN 1 ELSE 0) + (IF j = new THEN 1 ELSE 0)
    BY DEF Counted
  <2>1. CASE j = new
    BY <1>4, <1>11, <1>13, <2>1
  <2>2. CASE j # new
    <3>1. t[j] = q[j] /\ ~str[j].interned
      BY <1>6, <1>13, <2>2
    <3>2. q[j].rc = IF j \in held THEN 1 ELSE 0
      BY <1>1, <1>2, <1>6, <3>1
    <3> QED
      BY <2>2, <3>1, <3>2
  <2> QED
    BY <2>1, <2>2
<1>20. t[EmptyStr].interned
  <2>1. str[EmptyStr].interned
    BY DEF IInv, UserInv
  <2>2. EmptyStr # new
    BY <1>3, <2>1
  <2> QED
    BY <1>6, <1>13, <2>1, <2>2, StrAssumption
<1>21. UserStable(t)
  <2> SUFFICES ASSUME NEW j \in held PROVE t[j].val = str[j].val
    BY DEF UserStable
  <2>1. t[j] = q[j] /\ j \in StrIds
    BY <1>1, <1>4, <1>13
  <2>2. CASE j # buffer
    BY <1>6, <2>1, <2>2
  <2>3. CASE j = buffer /\ str[buffer].interned
    BY <1>6, <2>1, <2>3
  <2>4. CASE j = buffer /\ ~str[buffer].interned
    <3>1. str[buffer].rc = 2
      BY <1>1, <1>2, <2>4
    <3> QED
      BY <1>6, <2>1, <2>4, <3>1
  <2> QED
    BY <2>2, <2>3, <2>4
<1>22. MemInv(r)
  BY <1>7, <1>12, <1>16, <1>17, <1>19, <1>20, <1>21 DEF MemInv, u
<1>23. r.base + r.offset = base + offset
  BY <1>1, <1>12
<1> QED
  BY <1>17, <1>18, <1>22, <1>23 DEF r, u

\* Appending to a buffer of the decoder's own
LEMMA AppendOK ==
  ASSUME IInv, NEW m, MemInv(m), IsOwned(m), Unread(m) = Unread(Mem), m.base + m.offset = base + offset,
         NEW src \in Seq(DataByte)
  PROVE  LET r == Write(MakeRoom(m, Len(src)), src)
         IN  MemInv(r) /\ Unread(r) = Unread(Mem) \o src /\ r.base + r.offset = base + offset
<1> DEFINE p == MakeRoom(m, Len(src))
           r == Write(p, src)
<1>1. src \in Seq(Byte) /\ Len(src) \in Nat /\ MemOK(m) /\ m \in MemType
  BY SeqMonotonic, LenProperties DEF Byte, MemInv, MemOK
<1>2. InPlace(m, p) /\ Unread(p) = Unread(m) /\ p.length + Len(src) <= Len(Val(p)) /\ MemOK(p)
  BY <1>1, MakeRoomOK DEF InPlace
<1> HIDE DEF p
<1>3. InPlace(p, r) /\ Unread(r) = Unread(p) \o src
  BY <1>1, <1>2, WriteOK
<1>4. InPlace(m, r)
  BY <1>1, <1>2, <1>3, InPlaceTrans
<1>5. Unread(r) = Unread(Mem) \o src
  BY <1>2, <1>3
<1>6. Unread(r) \in Seq(DataByte)
  <2>1. Unread(Mem) \in Seq(DataByte)
    BY DEF IInv, BufferValid
  <2> QED
    BY <1>5, <2>1, ConcatProperties
<1> HIDE DEF r
<1>7. MemInv(r)
  BY <1>4, <1>6, InPlaceInv
<1>8. r.base + r.offset = base + offset
  BY <1>4, SMTT(40) DEF InPlace
<1> QED
  BY <1>5, <1>7, <1>8 DEF r, p

\* add() that copies
LEMMA AddCopiedOK ==
  ASSUME IInv, NEW i \in StrIds, NEW off \in Offsets, NEW len \in AddLengths, Add(i, off, len),
         AddCopied(i, off, len)
  PROVE  CallOK
<1> DEFINE s == str[i].val
           a == AddArgs(Len(s), off, len)
           src == SubSeq(s, a.data_off + 1, a.data_off + a.append_len)
<1>1. i \in held /\ off \in Int /\ len \in LengthArg
  BY AddAssumption DEF Add
<1>2. s \in Seq(DataByte) /\ s \in Seq(Byte) /\ Len(s) \in Nat
  BY <1>1, HeldType
<1>3. ~a.nothing
  BY DEF AddCopied
<1>4. /\ a.data_off \in Nat /\ a.append_len \in Nat /\ a.data_off + a.append_len <= Len(s)
      /\ Stream!Substr(s, off, len) = src
  BY <1>1, <1>2, <1>3, SubstrArgs
<1>5. src \in Seq(DataByte) /\ Len(src) \in Nat
  <2>1. a.data_off + a.append_len \in Nat
    BY <1>4
  <2>2. src \in Seq(DataByte)
    BY <1>2, <1>4, <2>1, DataPart, SMTT(40)
  <2> QED
    BY <2>2, LenProperties
<1>6. PICK m : /\ MemInv(m) /\ IsOwned(m) /\ Unread(m) = Unread(Mem) /\ m.base + m.offset = base + offset
               /\ SetMem(Write(MakeRoom(m, Len(src)), src))
  <2>1. CASE IsOwned(Mem) /\ SetMem(Write(MakeRoom(Mem, Len(src)), src))
    BY <2>1, MemHasInv, MemIsMem, Zenon
  <2>2. CASE \E new \in FreeIds : SetMem(Write(MakeRoom(Separate(Mem, new, Len(src)), Len(src)), src))
    <3>1. PICK new \in FreeIds : SetMem(Write(MakeRoom(Separate(Mem, new, Len(src)), Len(src)), src))
      BY <2>2, Zenon
    <3>2. LET r == Separate(Mem, new, Len(src))
          IN  MemInv(r) /\ IsOwned(r) /\ Unread(r) = Unread(Mem) /\ r.base + r.offset = base + offset
      BY <1>5, SeparateOK
    <3> QED
      BY <3>1, <3>2, Zenon
  <2> QED
    BY <2>1, <2>2 DEF AddCopied
<1> DEFINE r == Write(MakeRoom(m, Len(src)), src)
<1>7. MemInv(r) /\ Unread(r) = Unread(Mem) \o src /\ r.base + r.offset = base + offset
  BY <1>5, <1>6, AppendOK, Zenon
<1> QED
  BY <1>4, <1>6, <1>7, AddStep, Zenon

\* process() on a used-up buffer
LEMMA ProcessNothingOK ==
  ASSUME IInv, Process, offset = length
  PROVE  CallOK
<1> DEFINE r == Shrink(Mem)
<1>1. SetMem(r) /\ data' = NoData /\ exception' = NoException /\ UNCHANGED <<args, held, ctx>>
  BY DEF Process
<1>2. MemInv(Mem) /\ MemOK(Mem)
  BY MemHasInv DEF MemInv
<1>3. InPlace(Mem, r) /\ Unread(r) = Unread(Mem) /\ (IsOwned(Mem) \/ r = Mem)
  BY <1>2, ShrinkOK
<1>4. Unread(Mem) = << >> /\ Unread(Mem) \in Seq(DataByte)
  BY StreamView DEF IInv, BufferValid
<1> HIDE DEF r
<1>5. MemInv(r)
  BY <1>2, <1>3, <1>4, InPlaceInv
<1>6. args' \in DecodeArgs /\ ctx' \in PartialItem /\ data' \in DecodedItem /\ exception' \in Exception
  BY <1>1, EmptySeq DEF IInv, TypeOK, NoData, DecodedItem, NoException, Exception
<1>7. IInv' /\ Unread(Mem)' = Unread(r) /\ base' + offset' = r.base + r.offset /\ UserStable(str')
  BY <1>1, <1>5, <1>6, NewMem
<1>8. r.base + r.offset = base + offset
  BY <1>3, MemIsMem DEF InPlace
<1>9. Stream!Process
  BY <1>1, <1>3, <1>4, <1>7, <1>8
  DEF Stream!Process, Stream!NoData, NoData, Stream!NoException, NoException
<1> QED
  BY <1>7, <1>9 DEF CallOK, Stream!Next

\* The library of the abstract decoder is the same.
LEMMA SameCardinality == ASSUME NEW S PROVE Stream!Cardinality(S) = Cardinality(S)
BY DEF Stream!Cardinality, Cardinality

\* The abstract decoder decodes in the same way.
LEMMA SameOutcome == ASSUME NEW s PROVE Stream!Outcome(s) = Outcome(s)
<1> DEFINE S == {i \in DOMAIN s : \A j \in 1..i : s[j] = "tag"}
           c == Cardinality(S)
<1>1. Stream!Cardinality(S) = c
  BY SameCardinality
<1> QED
  BY <1>1 DEF Stream!Outcome, Outcome

\* process() with bytes to be read: the next item of the stream is decoded, and
\* the shrinking of the buffer afterwards is not to be seen.
LEMMA ProcessDataOK ==
  ASSUME IInv, Process, offset # length
  PROVE  CallOK
<1> DEFINE u == Unread(Mem)
           o == Outcome(u)
           bytes == ctx.bytes \o SubSeq(u, 1, o.n)
           edn == IF ctx.open THEN ctx.edn ELSE args.edn
           isError == o.error \notin {"none", "truncated"}
           m == [Mem EXCEPT !.offset = @ + o.n]
           r == Shrink(m)
<1>1. /\ SetMem(r)
      /\ ctx' = IF o.error = "truncated" THEN [open |-> TRUE, edn |-> edn, bytes |-> bytes] ELSE NoItem
      /\ data' = IF o.error = "none" \/ (isError /\ edn)
                 THEN [ready |-> TRUE, bytes |-> bytes, failed |-> isError]
                 ELSE NoData
      /\ args' = [ edn |-> args.edn,
                   error_offset |-> IF isError /\ ~edn THEN base + offset + o.n ELSE args.error_offset ]
      /\ exception' = IF isError THEN [thrown |-> TRUE, at |-> args'.error_offset] ELSE NoException
      /\ UNCHANGED held
  BY DEF Process
<1>2. MemInv(Mem) /\ MemOK(Mem) /\ Mem \in MemType
  BY MemHasInv DEF MemInv
<1>3. u \in Seq(Byte) /\ u \in Seq(DataByte) /\ u # << >> /\ base \in Nat /\ offset \in Nat
  BY StreamView DEF IInv, BufferValid
<1>4. o.n \in Nat /\ o.n <= Len(u) /\ Len(u) \in Nat
  BY <1>3, OutcomeType, LenProperties
<1> HIDE DEF o
<1>5. /\ MemOK(m)
      /\ m.str = Mem.str /\ m.buffer = Mem.buffer /\ m.base + m.offset = Mem.base + Mem.offset + o.n
      /\ Unread(m) = SubSeq(Unread(Mem), o.n + 1, Len(Unread(Mem)))
  <2> HIDE DEF m
  <2>1. m = [Mem EXCEPT !.offset = @ + o.n]
    BY DEF m
  <2>2. o.n <= Len(Unread(Mem))
    BY <1>4
  <2>3. /\ m \in MemType /\ m.str = Mem.str /\ m.buffer = Mem.buffer /\ m.base = Mem.base
        /\ m.offset = Mem.offset + o.n /\ m.length = Mem.length
    <3> DEFINE k == o.n
    <3>1. k \in Nat /\ m = [Mem EXCEPT !.offset = @ + k]
      BY <1>4, <2>1
    <3> HIDE DEF k
    <3>2. m = [str |-> str, buffer |-> buffer, base |-> base, offset |-> offset + k, length |-> length]
      BY <3>1 DEF Mem
    <3>3. /\ str \in [StrIds -> ZendString] /\ buffer \in StrIds
          /\ base \in Nat /\ offset + k \in Nat /\ length \in Nat
      BY <3>1 DEF IInv, TypeOK
    <3>4. /\ m \in MemType /\ m.str = str /\ m.buffer = buffer /\ m.base = base
          /\ m.offset = offset + k /\ m.length = length
      BY <3>2, <3>3 DEF MemType
    <3> QED
      BY <3>4, MemIsMem DEF k
  <2> QED
    BY <1>2, <1>4, <2>2, <2>3, AdvanceOK
<1>6. Unread(m) \in Seq(DataByte)
  <2>1. Len(u) <= Len(u)
    BY <1>4
  <2>2. SubSeq(u, o.n + 1, Len(u)) \in Seq(DataByte)
    BY <1>3, <1>4, <2>1, DataPart, Zenon
  <2> QED
    BY <1>5, <2>2
<1> HIDE DEF m
<1>7. MemInv(m)
  BY <1>2, <1>5, <1>6 DEF MemInv
<1>8. InPlace(m, r) /\ Unread(r) = Unread(m) /\ (IsOwned(m) \/ r = m)
  BY <1>5, ShrinkOK
<1> HIDE DEF r
<1>9. MemInv(r)
  BY <1>6, <1>7, <1>8, InPlaceInv
<1>10. bytes \in Seq(Byte)
  <2>1. \A i \in 1..o.n : u[i] \in Byte
    BY <1>3, <1>4, LenProperties, ElementOfSeq
  <2>2. SubSeq(u, 1, o.n) \in Seq(Byte)
    BY <1>4, <2>1, SubSeqProperties
  <2>3. ctx.bytes \in Seq(Byte)
    BY DEF IInv, TypeOK, PartialItem
  <2> QED
    BY <2>2, <2>3, ConcatProperties
<1>e. edn \in BOOLEAN /\ args.edn \in BOOLEAN /\ args.error_offset \in Nat
  BY DEF IInv, TypeOK, DecodeArgs, PartialItem
<1> HIDE DEF bytes, u, edn
<1>11. ctx' \in PartialItem
  <2>1. NoItem \in PartialItem
    BY EmptySeq DEF NoItem, PartialItem
  <2>2. [open |-> TRUE, edn |-> edn, bytes |-> bytes] \in PartialItem
    BY <1>10, <1>e DEF PartialItem
  <2> QED
    BY <1>1, <2>1, <2>2
<1>12. data' \in DecodedItem
  <2>1. NoData \in DecodedItem
    BY EmptySeq DEF NoData, DecodedItem
  <2>2. isError = TRUE \/ isError = FALSE
    OBVIOUS
  <2>3. \A b \in BOOLEAN : [ready |-> TRUE, bytes |-> bytes, failed |-> b] \in DecodedItem
    BY <1>10 DEF DecodedItem
  <2> HIDE DEF isError
  <2>4. isError \in BOOLEAN
    BY <2>2
  <2>5. [ready |-> TRUE, bytes |-> bytes, failed |-> isError] \in DecodedItem
    BY <2>3, <2>4
  <2> QED
    BY <1>1, <2>1, <2>5
<1>13. args' \in DecodeArgs /\ exception' \in Exception
  <2> HIDE DEF isError
  <2> DEFINE at == IF isError /\ ~edn THEN base + offset + o.n ELSE args.error_offset
  <2>1. base + offset + o.n \in Nat
    BY <1>3, <1>4
  <2>2. at \in Nat
    BY <1>e, <2>1
  <2>3. args' = [edn |-> args.edn, error_offset |-> at]
    BY <1>1
  <2> HIDE DEF at
  <2>4. args' \in DecodeArgs /\ args'.error_offset \in Nat
    BY <1>e, <2>2, <2>3 DEF DecodeArgs
  <2>5. NoException \in Exception /\ \A n \in Nat : [thrown |-> TRUE, at |-> n] \in Exception
    BY DEF NoException, Exception
  <2> QED
    BY <1>1, <2>4, <2>5
<1>14. IInv' /\ Unread(Mem)' = Unread(r) /\ base' + offset' = r.base + r.offset /\ UserStable(str')
  BY <1>1, <1>9, <1>11, <1>12, <1>13, NewMem
<1>15. r.base + r.offset = base + offset + o.n
  BY <1>5, <1>8, MemIsMem DEF InPlace
<1>16. /\ Unread(Mem)' = SubSeq(u, o.n + 1, Len(u))
       /\ (base + offset)' = base + offset + o.n
  BY <1>5, <1>8, <1>14, <1>15 DEF u
<1>17. Stream!Outcome(u) = o
  BY SameOutcome DEF o
<1>18. /\ Stream!NoItem = NoItem /\ Stream!NoData = NoData /\ Stream!NoException = NoException
  BY DEF Stream!NoItem, NoItem, Stream!NoData, NoData, Stream!NoException, NoException
<1>19. Stream!Process
  BY <1>1, <1>3, <1>16, <1>17, <1>18 DEF Stream!Process, u, bytes, edn
<1> QED
  BY <1>14, <1>19 DEF CallOK, Stream!Next

\* The buffer is released, whoever else holds it, and the stream begins anew.
LEMMA ClearOK ==
  ASSUME IInv, Clear, args' \in DecodeArgs
  PROVE  IInv' /\ UserStable(str') /\ Unread(Mem)' = << >> /\ (base + offset)' = 0
<1> DEFINE q == Release(str, buffer)
           r == [str |-> q, buffer |-> EmptyStr, base |-> 0, offset |-> 0, length |-> 0]
<1>1. SetMem(r) /\ ctx' = NoItem /\ data' = NoData /\ exception' = NoException /\ UNCHANGED held
  BY DEF Clear
<1>2. /\ str \in [StrIds -> ZendString] /\ buffer \in StrIds /\ held \subseteq StrIds
      /\ str[EmptyStr].interned
  BY DEF IInv, TypeOK, UserInv
<1>3. \A j \in StrIds : ~str[j].interned => str[j].rc = (IF j \in held THEN 1 ELSE 0) + (IF j = buffer THEN 1 ELSE 0)
  BY DEF IInv, RefcountExact
<1>4. str[buffer].interned \/ str[buffer].rc >= 1
  BY <1>2, <1>3
<1>5. /\ q \in [StrIds -> ZendString]
      /\ \A j \in StrIds : q[j].interned = str[j].interned
      /\ \A j \in StrIds \ {buffer} : q[j] = str[j]
      /\ str[buffer].interned => q = str
      /\ ~str[buffer].interned => q[buffer].rc = str[buffer].rc - 1
      /\ str[buffer].rc > 1 => q[buffer].val = str[buffer].val
  BY <1>2, <1>4, ReleaseOK
<1> HIDE DEF q
<1>6. r \in MemType /\ r.str = q /\ r.buffer = EmptyStr /\ r.base = 0 /\ r.offset = 0 /\ r.length = 0
  BY <1>5, StrAssumption DEF MemType
<1>7. MemOK(r)
  BY <1>6, ValType DEF MemOK
<1>8. Unread(r) = << >> /\ << >> \in Seq(DataByte)
  BY <1>6, SubSeqEmpty, EmptySeq DEF Unread
<1>9. Counted(q, EmptyStr)
  <2> SUFFICES ASSUME NEW j \in StrIds, ~q[j].interned
               PROVE  q[j].rc = (IF j \in held THEN 1 ELSE 0) + (IF j = EmptyStr THEN 1 ELSE 0)
    BY DEF Counted
  <2>1. ~str[j].interned /\ j # EmptyStr
    BY <1>2, <1>5
  <2> QED
    BY <1>2, <1>3, <1>5, <2>1
<1>10. UserStable(q)
  <2> SUFFICES ASSUME NEW j \in held PROVE q[j].val = str[j].val
    BY DEF UserStable
  <2>1. CASE j # buffer
    BY <1>2, <1>5, <2>1
  <2>2. CASE j = buffer /\ str[buffer].interned
    BY <1>5, <2>2
  <2>3. CASE j = buffer /\ ~str[buffer].interned
    <3>1. str[buffer].rc = 2
      BY <1>2, <1>3, <2>3
    <3> QED
      BY <1>5, <2>3, <3>1
  <2> QED
    BY <2>1, <2>2, <2>3
<1>11. q[EmptyStr].interned
  BY <1>2, <1>5, StrAssumption
<1>12. MemInv(r)
  BY <1>6, <1>7, <1>8, <1>9, <1>10, <1>11 DEF MemInv
<1>13. ctx' \in PartialItem /\ data' \in DecodedItem /\ exception' \in Exception
  BY <1>1, EmptySeq DEF NoItem, PartialItem, NoData, DecodedItem, NoException, Exception
<1> HIDE DEF r
<1>14. IInv' /\ Unread(Mem)' = Unread(r) /\ base' + offset' = r.base + r.offset /\ UserStable(str')
  BY <1>1, <1>12, <1>13, NewMem
<1>15. Unread(Mem)' = << >> /\ (base + offset)' = 0
  BY <1>6, <1>8, <1>14
<1> QED
  BY <1>14, <1>15

\* What the abstract decoder calls nothing is the same.
LEMMA SameNothing ==
  Stream!NoItem = NoItem /\ Stream!NoData = NoData /\ Stream!NoException = NoException
BY DEF Stream!NoItem, NoItem, Stream!NoData, NoData, Stream!NoException, NoException

\* reset()
LEMMA ResetOK == ASSUME IInv, Reset PROVE CallOK
<1>1. Clear /\ args' = args
  BY DEF Reset
<1>2. args' \in DecodeArgs
  BY <1>1 DEF IInv, TypeOK
<1>3. IInv' /\ UserStable(str') /\ Unread(Mem)' = << >> /\ (base + offset)' = 0
  BY <1>1, <1>2, ClearOK
<1>4. Stream!Reset
  BY <1>1, <1>3, SameNothing DEF Clear, Stream!Reset
<1> QED
  BY <1>3, <1>4 DEF CallOK, Stream!Next

\* The object is destroyed and there is another one.
LEMMA NewOK == ASSUME IInv, NEW edn \in EdnModes, New(edn) PROVE CallOK
<1>1. Clear /\ args' = [edn |-> edn, error_offset |-> 0]
  BY DEF New
<1>2. args' \in DecodeArgs
  BY <1>1, EdnModesAssumption DEF DecodeArgs
<1>3. IInv' /\ UserStable(str') /\ Unread(Mem)' = << >> /\ (base + offset)' = 0
  BY <1>1, <1>2, ClearOK
<1>4. Stream!New(edn)
  BY <1>1, <1>3, SameNothing DEF Clear, Stream!New
<1> QED
  BY <1>3, <1>4 DEF CallOK, Stream!Next

\* Where the memory does not change, nothing that is said of it does.
LEMMA SameMem ==
  ASSUME IInv, UNCHANGED <<str, buffer, base, offset, length, held>>,
         args' \in DecodeArgs, ctx' \in PartialItem, data' \in DecodedItem, exception' \in Exception
  PROVE  IInv' /\ Unread(Mem)' = Unread(Mem) /\ UserStable(str')
<1>1. Val(Mem)' = Val(Mem) /\ Unread(Mem)' = Unread(Mem)
  BY DEF Val, Mem, Unread
<1> QED
  BY <1>1 DEF IInv, TypeOK, BufferValid, RefcountExact, UserInv, UserStable

\* getValue()
LEMMA GetValueOK == ASSUME IInv, NEW clear \in BOOLEAN, GetValue(clear) PROVE CallOK
<1>1. /\ data.ready /\ data' = (IF clear THEN NoData ELSE data)
      /\ exception' = NoException
      /\ UNCHANGED <<args, str, buffer, base, offset, length, held, ctx>>
  BY DEF GetValue, memVars
<1>2. args' \in DecodeArgs /\ ctx' \in PartialItem /\ data' \in DecodedItem /\ exception' \in Exception
  BY <1>1, EmptySeq DEF IInv, TypeOK, NoData, DecodedItem, NoException, Exception
<1>3. IInv' /\ Unread(Mem)' = Unread(Mem) /\ UserStable(str')
  BY <1>1, <1>2, SameMem
<1>4. Stream!GetValue(clear)
  BY <1>1, <1>3 DEF Stream!GetValue, Stream!NoData, NoData, Stream!NoException, NoException
<1> QED
  BY <1>3, <1>4 DEF CallOK, Stream!Next

\* __construct() on a decoder in use
LEMMA ConstructOK ==
  ASSUME IInv, NEW edn \in EdnModes, NEW fails \in BOOLEAN, Construct(edn, fails)
  PROVE  CallOK
<1>1. /\ args' = [edn |-> edn, error_offset |-> args.error_offset]
      /\ exception' = IF fails THEN [thrown |-> TRUE, at |-> 0] ELSE NoException
      /\ UNCHANGED <<str, buffer, base, offset, length, held, ctx, data>>
  BY DEF Construct, memVars
<1>2. args' \in DecodeArgs
  BY <1>1, EdnModesAssumption DEF IInv, TypeOK, DecodeArgs
<1>3. ctx' \in PartialItem /\ data' \in DecodedItem /\ exception' \in Exception
  BY <1>1 DEF IInv, TypeOK, NoException, Exception
<1>4. IInv' /\ Unread(Mem)' = Unread(Mem) /\ UserStable(str')
  BY <1>1, <1>2, <1>3, SameMem
<1>5. Stream!Construct(edn, fails)
  BY <1>1, <1>4, SameNothing DEF Stream!Construct
<1> QED
  BY <1>4, <1>5 DEF CallOK, Stream!Next

-----------------------------------------------------------------------------
(* The steps of the user's script: no step of the stream.                    *)

UserOK == IInv' /\ UNCHANGED Stream!vars

\* The script may do what leaves the contents of the buffer and the counts right.
LEMMA UserStep ==
  ASSUME IInv, userUnchanged,
         str' \in [StrIds -> ZendString], held' \subseteq StrIds,
         str'[buffer].val = str[buffer].val,
         RefcountExact',
         str'[EmptyStr].interned,
         \A j \in held' : str'[j].val \in Inputs
  PROVE  UserOK
<1>1. UNCHANGED <<args, buffer, base, offset, length, ctx, data, exception>>
  BY DEF userUnchanged
<1>2. Val(Mem)' = Val(Mem)
  BY <1>1 DEF Val, Mem
<1>3. Unread(Mem)' = Unread(Mem)
  <2>1. Mem'.offset = Mem.offset /\ Mem'.length = Mem.length
    BY <1>1 DEF Mem
  <2> QED
    BY <1>2, <2>1 DEF Unread
<1>4. TypeOK'
  BY <1>1 DEF IInv, TypeOK
<1>5. BufferValid'
  BY <1>1, <1>2, <1>3 DEF IInv, BufferValid
<1>6. UserInv'
  BY DEF UserInv
<1>7. IInv'
  BY <1>4, <1>5, <1>6 DEF IInv
<1> QED
  BY <1>1, <1>3, <1>7 DEF UserOK, Stream!vars

\* Memory that is free is neither the buffer nor the user's.
LEMMA FreeId ==
  ASSUME IInv, NEW i \in FreeIds
  PROVE  i \in StrIds /\ i # buffer /\ i \notin held /\ i # EmptyStr
<1>1. i \in StrIds /\ ~str[i].interned /\ str[i].rc = 0
  BY DEF FreeIds
<1>2. str[i].rc = (IF i \in held THEN 1 ELSE 0) + (IF i = buffer THEN 1 ELSE 0)
  BY <1>1 DEF IInv, RefcountExact
<1>3. i # EmptyStr
  BY <1>1 DEF IInv, UserInv
<1> QED
  BY <1>1, <1>2, <1>3

\* A new string goes to memory that nobody holds.
LEMMA UserNewOK ==
  ASSUME IInv, NEW i \in StrIds, NEW s \in Inputs, NEW literal \in BOOLEAN, UserNew(i, s, literal)
  PROVE  UserOK
<1> DEFINE z == [val |-> s, rc |-> 1, interned |-> literal]
<1>1. /\ i \in FreeIds /\ str' = [str EXCEPT ![i] = z]
      /\ held' = held \cup {i} /\ userUnchanged
  BY DEF UserNew
<1>2. s \in Seq(Byte)
  BY InputsAssumption, SeqMonotonic DEF Byte
<1>3. z \in ZendString /\ z.val = s /\ z.rc = 1 /\ z.interned = literal
  BY <1>2 DEF ZendString
<1> HIDE DEF z
<1>4. i # buffer /\ i \notin held /\ i # EmptyStr
  BY <1>1, FreeId
<1>5. str \in [StrIds -> ZendString] /\ held \subseteq StrIds /\ buffer \in StrIds /\ EmptyStr \in StrIds
  BY StrAssumption DEF IInv, TypeOK
<1>6. /\ str' \in [StrIds -> ZendString] /\ str'[i] = z
      /\ \A j \in StrIds \ {i} : str'[j] = str[j]
  BY <1>1, <1>3, <1>5
<1>7. str'[buffer].val = str[buffer].val
  BY <1>4, <1>5, <1>6
<1>8. buffer' = buffer
  BY <1>1 DEF userUnchanged
<1>9. RefcountExact'
  <2> SUFFICES ASSUME NEW j \in StrIds, ~str'[j].interned
               PROVE  str'[j].rc = (IF j \in held' THEN 1 ELSE 0) + (IF j = buffer THEN 1 ELSE 0)
    BY <1>8 DEF RefcountExact
  <2>1. CASE j = i
    BY <1>1, <1>3, <1>4, <1>6, <2>1
  <2>2. CASE j # i
    <3>1. str'[j] = str[j] /\ (j \in held' <=> j \in held)
      BY <1>1, <1>6, <2>2
    <3> QED
      BY <3>1 DEF IInv, RefcountExact
  <2> QED
    BY <2>1, <2>2
<1>10. str'[EmptyStr].interned
  BY <1>4, <1>5, <1>6 DEF IInv, UserInv
<1>11. \A j \in held' : str'[j].val \in Inputs
  BY <1>1, <1>3, <1>4, <1>5, <1>6 DEF IInv, UserInv
<1>12. held' \subseteq StrIds
  BY <1>1, <1>5
<1> QED
  BY <1>1, <1>6, <1>7, <1>9, <1>10, <1>11, <1>12, UserStep

\* A holder gives a string up: the buffer, if it is this string, keeps it.
LEMMA GiveUp ==
  ASSUME IInv, NEW i \in held
  PROVE  LET q == Release(str, i)
         IN  /\ q \in [StrIds -> ZendString]
             /\ q[buffer].val = str[buffer].val
             /\ q[EmptyStr].interned
             /\ \A j \in StrIds : q[j].interned = str[j].interned
             /\ \A j \in StrIds \ {i} : q[j] = str[j]
             /\ \A j \in StrIds : ~q[j].interned =>
                  q[j].rc = (IF j \in held \ {i} THEN 1 ELSE 0) + (IF j = buffer THEN 1 ELSE 0)
<1> DEFINE q == Release(str, i)
<1>1. /\ str \in [StrIds -> ZendString] /\ i \in StrIds /\ buffer \in StrIds /\ EmptyStr \in StrIds
      /\ str[EmptyStr].interned
  BY StrAssumption DEF IInv, TypeOK, UserInv
<1>2. \A j \in StrIds : ~str[j].interned => str[j].rc = (IF j \in held THEN 1 ELSE 0) + (IF j = buffer THEN 1 ELSE 0)
  BY DEF IInv, RefcountExact
<1>3. str[i].interned \/ str[i].rc >= 1
  BY <1>1, <1>2
<1>4. /\ q \in [StrIds -> ZendString]
      /\ \A j \in StrIds : q[j].interned = str[j].interned
      /\ \A j \in StrIds \ {i} : q[j] = str[j]
      /\ str[i].interned => q = str
      /\ ~str[i].interned => q[i].rc = str[i].rc - 1
      /\ str[i].rc > 1 => q[i].val = str[i].val
  BY <1>1, <1>3, ReleaseOK
<1> HIDE DEF q
<1>5. q[buffer].val = str[buffer].val
  <2>1. CASE i # buffer
    BY <1>1, <1>4, <2>1
  <2>2. CASE i = buffer /\ str[i].interned
    BY <1>4, <2>2
  <2>3. CASE i = buffer /\ ~str[i].interned
    <3>1. str[i].rc = 2
      BY <1>1, <1>2, <2>3
    <3> QED
      BY <1>4, <2>3, <3>1
  <2> QED
    BY <2>1, <2>2, <2>3
<1>6. q[EmptyStr].interned
  BY <1>1, <1>4
<1>7. ASSUME NEW j \in StrIds, ~q[j].interned
      PROVE  q[j].rc = (IF j \in held \ {i} THEN 1 ELSE 0) + (IF j = buffer THEN 1 ELSE 0)
  <2>1. ~str[j].interned
    BY <1>4, <1>7
  <2>2. str[j].rc = (IF j \in held THEN 1 ELSE 0) + (IF j = buffer THEN 1 ELSE 0)
    BY <1>2, <2>1
  <2>3. CASE j = i
    BY <1>4, <2>1, <2>2, <2>3
  <2>4. CASE j # i
    BY <1>4, <2>2, <2>4
  <2> QED
    BY <2>3, <2>4
<1> QED
  BY <1>4, <1>5, <1>6, <1>7 DEF q

\* The user gives up a string the buffer may be.
LEMMA UserReleaseOK ==
  ASSUME IInv, NEW i \in StrIds, UserRelease(i)
  PROVE  UserOK
<1>1. i \in held /\ str' = Release(str, i) /\ held' = held \ {i} /\ userUnchanged
  BY DEF UserRelease
<1>2. /\ str' \in [StrIds -> ZendString]
      /\ str'[buffer].val = str[buffer].val
      /\ str'[EmptyStr].interned
      /\ \A j \in StrIds \ {i} : str'[j] = str[j]
      /\ \A j \in StrIds : ~str'[j].interned =>
           str'[j].rc = (IF j \in held \ {i} THEN 1 ELSE 0) + (IF j = buffer THEN 1 ELSE 0)
  BY <1>1, GiveUp
<1>3. buffer' = buffer
  BY <1>1 DEF userUnchanged
<1>4. RefcountExact'
  BY <1>1, <1>2, <1>3 DEF RefcountExact
<1>5. held' \subseteq StrIds /\ \A j \in held' : str'[j].val \in Inputs
  BY <1>1, <1>2 DEF IInv, TypeOK, UserInv
<1> QED
  BY <1>1, <1>2, <1>4, <1>5, UserStep

\* The user writes to a string: not in place if the buffer is this string.
LEMMA UserWriteOK ==
  ASSUME IInv, NEW i \in StrIds, NEW s \in Inputs, UserWrite(i, s)
  PROVE  UserOK
<1>1. i \in held /\ userUnchanged
  BY DEF UserWrite
<1>2. s \in Seq(Byte)
  BY InputsAssumption, SeqMonotonic DEF Byte
<1>3. /\ str \in [StrIds -> ZendString] /\ held \subseteq StrIds /\ buffer \in StrIds
      /\ EmptyStr \in StrIds /\ str[EmptyStr].interned /\ buffer' = buffer
      /\ \A j \in held : str[j].val \in Inputs
  BY <1>1, StrAssumption DEF IInv, TypeOK, UserInv, userUnchanged
<1>4. ASSUME ~str[i].interned, str[i].rc = 1, str' = [str EXCEPT ![i].val = s], UNCHANGED held
      PROVE  UserOK
  <2> DEFINE z == [str[i] EXCEPT !.val = s]
  <2>1. z \in ZendString /\ z.val = s /\ z.rc = str[i].rc /\ z.interned = str[i].interned
    BY <1>2, <1>3 DEF ZendString
  <2>2. str' = [str EXCEPT ![i] = z]
    BY <1>4
  <2> HIDE DEF z
  <2>3. str' \in [StrIds -> ZendString] /\ str'[i] = z /\ \A j \in StrIds \ {i} : str'[j] = str[j]
    BY <1>3, <2>1, <2>2
  <2>4. i # buffer
    <3>1. str[i].rc = (IF i \in held THEN 1 ELSE 0) + (IF i = buffer THEN 1 ELSE 0)
      BY <1>4 DEF IInv, RefcountExact
    <3> QED
      BY <1>1, <1>4, <3>1
  <2>5. \A j \in StrIds : str'[j].rc = str[j].rc /\ str'[j].interned = str[j].interned
    BY <2>1, <2>3
  <2>6. RefcountExact'
    BY <1>3, <1>4, <2>5 DEF IInv, RefcountExact
  <2>7. str'[buffer].val = str[buffer].val /\ str'[EmptyStr].interned
    BY <1>3, <2>3, <2>4, <2>5
  <2>8. held' \subseteq StrIds /\ \A j \in held' : str'[j].val \in Inputs
    BY <1>3, <1>4, <2>1, <2>3
  <2> QED
    BY <1>1, <2>3, <2>6, <2>7, <2>8, UserStep
<1>5. ASSUME NEW new \in FreeIds,
             str' = [Release(str, i) EXCEPT ![new] = [val |-> s, rc |-> 1, interned |-> FALSE]],
             held' = (held \ {i}) \cup {new}
      PROVE  UserOK
  <2> DEFINE q == Release(str, i)
             z == [val |-> s, rc |-> 1, interned |-> FALSE]
  <2>1. new \in StrIds /\ new # buffer /\ new \notin held /\ new # EmptyStr /\ new # i
    BY <1>1, <1>5, FreeId
  <2>2. /\ q \in [StrIds -> ZendString]
        /\ q[buffer].val = str[buffer].val
        /\ q[EmptyStr].interned
        /\ \A j \in StrIds \ {i} : q[j] = str[j]
        /\ \A j \in StrIds : ~q[j].interned =>
             q[j].rc = (IF j \in held \ {i} THEN 1 ELSE 0) + (IF j = buffer THEN 1 ELSE 0)
    BY <1>1, GiveUp
  <2>3. z \in ZendString /\ z.val = s /\ z.rc = 1
    BY <1>2 DEF ZendString
  <2>4. str' = [q EXCEPT ![new] = z]
    BY <1>5
  <2> HIDE DEF q, z
  <2>5. str' \in [StrIds -> ZendString] /\ str'[new] = z /\ \A j \in StrIds \ {new} : str'[j] = q[j]
    BY <2>1, <2>2, <2>3, <2>4
  <2>6. RefcountExact'
    <3> SUFFICES ASSUME NEW j \in StrIds, ~str'[j].interned
                 PROVE  str'[j].rc = (IF j \in held' THEN 1 ELSE 0) + (IF j = buffer THEN 1 ELSE 0)
      BY <1>3 DEF RefcountExact
    <3>1. CASE j = new
      BY <1>5, <2>1, <2>3, <2>5, <3>1
    <3>2. CASE j # new
      <4>1. str'[j] = q[j] /\ (j \in held' <=> j \in held \ {i})
        BY <1>5, <2>5, <3>2
      <4> QED
        BY <2>2, <4>1
    <3> QED
      BY <3>1, <3>2
  <2>7. str'[buffer].val = str[buffer].val /\ str'[EmptyStr].interned
    BY <1>3, <2>1, <2>2, <2>5
  <2>8. held' \subseteq StrIds
    BY <1>3, <1>5, <2>1
  <2>9. ASSUME NEW j \in held' PROVE str'[j].val \in Inputs
    <3>1. CASE j = new
      BY <2>3, <2>5, <3>1
    <3>2. CASE j # new
      <4>1. j \in held /\ j # i /\ j \in StrIds
        BY <1>3, <1>5, <3>2
      <4> QED
        BY <1>3, <2>2, <2>5, <3>2, <4>1
    <3> QED
      BY <3>1, <3>2
  <2> QED
    BY <1>1, <2>5, <2>6, <2>7, <2>8, <2>9, UserStep
<1> QED
  BY <1>4, <1>5 DEF UserWrite

-----------------------------------------------------------------------------
(* The theorems.                                                            *)

\* decoder_create
LEMMA InitOK == ASSUME Init PROVE IInv /\ Stream!Init
<1> DEFINE z == [NoString EXCEPT !.interned = TRUE]
<1>1. /\ NoString \in ZendString /\ NoString.val = << >> /\ NoString.rc = 0
      /\ z \in ZendString /\ z.val = << >> /\ z.rc = 0 /\ z.interned
  BY EmptySeq DEF NoString, ZendString
<1>2. str = [i \in StrIds |-> IF i = EmptyStr THEN z ELSE NoString]
  BY DEF Init
<1> HIDE DEF z
<1>3. /\ str \in [StrIds -> ZendString] /\ str[EmptyStr].interned
      /\ \A i \in StrIds : str[i].val = << >> /\ str[i].rc = 0
      /\ \A i \in StrIds : ~str[i].interned => i # EmptyStr
  BY <1>1, <1>2, StrAssumption
<1>4. /\ held = {} /\ buffer = EmptyStr /\ base = 0 /\ offset = 0 /\ length = 0
      /\ (\E edn \in EdnModes : args = [edn |-> edn, error_offset |-> 0])
      /\ ctx = NoItem /\ data = NoData /\ exception = NoException
  BY DEF Init
<1>a. args \in DecodeArgs
  BY <1>4, EdnModesAssumption DEF DecodeArgs
<1>5. TypeOK
  BY <1>3, <1>4, <1>a, StrAssumption, EmptySeq
  DEF TypeOK, NoItem, PartialItem, NoData, DecodedItem, NoException, Exception
<1>6. Val(Mem) = << >>
  BY <1>3, <1>4, StrAssumption DEF Val, Mem
<1>7. Unread(Mem) = << >>
  BY <1>4, <1>6, EmptySeq, SubSeqEmpty DEF Unread, Mem
<1>8. BufferValid
  BY <1>4, <1>6, <1>7, EmptySeq DEF BufferValid
<1>9. RefcountExact
  BY <1>3, <1>4 DEF RefcountExact
<1>10. UserInv
  BY <1>3, <1>4 DEF UserInv
<1>11. Stream!Init
  BY <1>4, <1>7 DEF Stream!Init, Stream!NoItem, NoItem, Stream!NoData, NoData, Stream!NoException, NoException
<1> QED
  BY <1>5, <1>8, <1>9, <1>10, <1>11 DEF IInv

\* A step is a call of a method or a step of the script.
LEMMA NextOK == ASSUME IInv, Next PROVE (~User => CallOK) /\ (User => UserOK)
<1>1. ASSUME NEW i \in StrIds, NEW off \in Offsets, NEW len \in AddLengths, Add(i, off, len)
      PROVE  CallOK
  BY <1>1, AddNothingOK, AddSharedOK, AddCopiedOK DEF Add
<1>2. ASSUME Process PROVE CallOK
  BY <1>2, ProcessNothingOK, ProcessDataOK
<1>3. User => UserOK
  BY UserNewOK, UserReleaseOK, UserWriteOK DEF User
<1> QED
  BY <1>1, <1>2, <1>3, ResetOK, GetValueOK, ConstructOK, NewOK DEF Next

\* What changes nothing changes nothing of the stream.
LEMMA StutterOK ==
  ASSUME IInv, UNCHANGED vars
  PROVE  IInv' /\ UNCHANGED Stream!vars
<1>1. UNCHANGED <<args, str, held, buffer, base, offset, length, ctx, data, exception>>
  BY DEF vars, memVars
<1>2. args' \in DecodeArgs /\ ctx' \in PartialItem /\ data' \in DecodedItem /\ exception' \in Exception
  BY <1>1 DEF IInv, TypeOK
<1>3. IInv' /\ Unread(Mem)' = Unread(Mem)
  BY <1>1, <1>2, SameMem
<1> QED
  BY <1>1, <1>3 DEF Stream!vars

\* The invariant of the proofs holds in every state of the decoder and of the
\* script that uses it, for any strings and any number of calls.
THEOREM Invariance == Spec => []IInv
<1>1. Init => IInv
  BY InitOK
<1>2. IInv /\ [Next]_vars => IInv'
  BY NextOK, StutterOK DEF CallOK, UserOK
<1> QED
  BY <1>1, <1>2, PTL DEF Spec

\* The fields of the decoder and the strings are of their types.
THEOREM TypeCorrect == Spec => []TypeOK
<1>1. IInv => TypeOK
  BY DEF IInv
<1> QED
  BY <1>1, Invariance, PTL

\* What process() reads is in the memory of the buffer and was written there.
THEOREM BufferCorrect == Spec => []BufferValid
<1>1. IInv => BufferValid
  BY DEF IInv
<1> QED
  BY <1>1, Invariance, PTL

\* Strings are neither freed while in use nor leaked.
THEOREM RefcountCorrect == Spec => []RefcountExact
<1>1. IInv => RefcountExact
  BY DEF IInv
<1> QED
  BY <1>1, Invariance, PTL

\* The decoder, which writes to its buffer in place, never changes a string
\* that the user holds.
THEOREM UserStringsCorrect == Spec => UserStringsStable
<1>1. IInv /\ [Next]_vars => [~User => \A i \in held : str'[i].val = str[i].val]_vars
  BY NextOK DEF CallOK, UserStable
<1> QED
  BY <1>1, Invariance, PTL DEF Spec, UserStringsStable

\* Cbor\Decoder with its buffers implements the stream of bytes of
\* StreamDecoder.
THEOREM Refinement == Spec => Refines
<1>1. Init => Stream!Init
  BY InitOK
<1>2. IInv /\ [Next]_vars => [Stream!Next]_(Stream!vars)
  BY NextOK, StutterOK DEF CallOK, UserOK
<1> QED
  BY <1>1, <1>2, Invariance, PTL DEF Spec, Refines, Stream!Spec

=============================================================================
