----------------------------- MODULE Sha1Proofs -----------------------------
(***************************************************************************)
(* The SHA1 engine, for blocks, words and pieces of any size: however a    *)
(* message is cut, what the engine was given is the message, and the       *)
(* blocks it ends with are those of the padded message.  What sha1_query   *)
(* gives it can be read back.                                              *)
(***************************************************************************)
EXTENDS Sha1Functions, SequenceTheorems, WellFoundedInduction, TLAPS

-----------------------------------------------------------------------------
(* Quotients and remainders.                                               *)
LEMMA Division ==
  ASSUME NEW a \in Nat, NEW b \in Nat \ {0}
  PROVE  /\ a \div b \in Nat /\ a % b \in 0..b - 1
         /\ a = b * (a \div b) + (a % b)
OBVIOUS

LEMMA Multiples ==
  ASSUME NEW b \in Nat \ {0}, NEW q \in Int, q > 0
  PROVE  b * q \in Int /\ b * q >= b
OBVIOUS

LEMMA SameQuotient ==
  ASSUME NEW b \in Nat \ {0}, NEW q \in Int, NEW d \in Int,
         NEW r \in 0..b - 1, NEW m \in 0..b - 1, b * q + r = b * d + m
  PROVE  q = d /\ r = m
<1>1. b * (q - d) = m - r /\ b * (d - q) = r - m
  OBVIOUS
<1>2. ~(q - d > 0)
  BY <1>1, Multiples
<1>3. ~(d - q > 0)
  BY <1>1, Multiples
<1>4. q = d
  BY <1>2, <1>3
<1>5. b * (q - d) = 0 /\ r \in Int /\ m \in Int
  BY <1>4
<1>6. m - r = 0
  BY <1>1, <1>5
<1>7. r = m
  BY ONLY <1>5, <1>6
<1>. QED  BY <1>4, <1>7

LEMMA Unique ==
  ASSUME NEW b \in Nat \ {0}, NEW q \in Nat, NEW r \in 0..b - 1
  PROVE  (b * q + r) % b = r /\ (b * q + r) \div b = q
<1>1. b * q + r \in Nat
  OBVIOUS
<1>2. PICK a \in Nat : a = b * q + r
  BY <1>1
<1>3. PICK d \in Nat, m \in 0..b - 1 : a = b * d + m /\ d = a \div b /\ m = a % b
  BY Division
<1>4. q = d /\ r = m
  <2>1. b * q + r = b * d + m
    BY <1>2, <1>3, Zenon
  <2>2. q \in Int /\ d \in Int
    OBVIOUS
  <2>. QED  BY <2>1, <2>2, SameQuotient
<1>. QED  BY <1>2, <1>3, <1>4

LEMMA Quotient ==
  ASSUME NEW a \in Nat, NEW b \in Nat \ {0}
  PROVE  \E q \in Nat, r \in 0..b - 1 : a = b * q + r /\ q = a \div b /\ r = a % b
BY Division

\* What is left of a sum does not change when multiples of b go.
LEMMA Remainder ==
  ASSUME NEW b \in Nat \ {0}, NEW a \in Nat, NEW x \in Nat
  PROVE  ((a % b) + x) % b = (a + x) % b
<1>1. PICK q \in Nat, r \in 0..b - 1 : a = b * q + r /\ r = a % b
  BY Quotient
<1>2. PICK y \in Nat : y = r + x
  OBVIOUS
<1>3. PICK p \in Nat, s \in 0..b - 1 : y = b * p + s /\ s = y % b
  BY Quotient
<1>4. PICK t \in Nat : t = p + q
  OBVIOUS
<1>5. PICK u \in Int, v \in Int : u = b * p /\ v = b * q
  OBVIOUS
<1>6. b * t = u + v
  BY <1>4, <1>5
<1>6a. a = v + r /\ y = u + s
  BY <1>1, <1>3, <1>5
<1>6b. a + x = b * t + s
  BY <1>2, <1>6, <1>6a
<1>7. (b * t + s) % b = s
  BY Unique
<1>. QED  BY <1>1, <1>2, <1>3, <1>6b, <1>7

\* The remainder stands when a multiple of b is taken away.
LEMMA SameRemainder ==
  ASSUME NEW b \in Nat \ {0}, NEW x \in Nat, NEW y \in Nat, NEW k \in Nat, y = x + b * k
  PROVE  y % b = x % b
<1>1. PICK q \in Nat, r \in 0..b - 1 : x = b * q + r /\ r = x % b
  BY Quotient
<1>2. q + k \in Nat /\ y = b * (q + k) + r
  BY <1>1
<1>3. (b * (q + k) + r) % b = r
  BY <1>2, Unique
<1>. QED  BY <1>1, <1>2, <1>3

LEMMA Sum ==
  ASSUME NEW m \in Int, NEW u \in Int, NEW n \in Int, NEW len \in Int, m + u = n
  PROVE  m + (u + len) = n + len
OBVIOUS

-----------------------------------------------------------------------------
(* Sequences.                                                              *)
LEMMA Prefix ==
  ASSUME NEW S, NEW s \in Seq(S), NEW t \in Seq(S)
  PROVE  SubSeq(s \o t, 1, Len(s)) = s
<1>1. CASE Len(s) = 0
  BY <1>1, SubSeqEmpty, EmptySeq, LenProperties
<1>2. CASE Len(s) # 0
  <2>1. 1 \in 1..Len(s) /\ Len(s) \in 1..Len(s)
    BY <1>2, LenProperties
  <2>2. SubSeq(s \o t, 1, Len(s)) = SubSeq(s, 1, Len(s))
    BY <2>1, SubSeqOfConcat1
  <2>. QED  BY <2>2, SubSeqFull
<1>. QED  BY <1>1, <1>2

LEMMA Joined ==
  ASSUME NEW S, NEW s \in Seq(S), NEW t \in Seq(S)
  PROVE  /\ s \o t \in Seq(S) /\ Len(s \o t) = Len(s) + Len(t)
         /\ Len(s) \in Nat /\ Len(t) \in Nat
BY ConcatProperties, LenProperties

LEMMA Associative ==
  ASSUME NEW S, NEW x \in Seq(S), NEW y \in Seq(S), NEW z \in Seq(S)
  PROVE  x \o (y \o z) = (x \o y) \o z
BY ConcatAssociative

\* The provers take \o apart: where that is in the way it has a name.
Join(s, t) == s \o t

LEMMA Joins ==
  \A S : \A x, y, z \in Seq(S) :
    Join(x, y) \in Seq(S) /\ Join(Join(x, y), z) = Join(x, Join(y, z))
BY ConcatProperties, ConcatAssociative DEF Join

-----------------------------------------------------------------------------
LEMMA Constants ==
  /\ Word \in Nat \ {0} /\ Block \in Nat \ {0} /\ LenField \in 1..Block - 1
  /\ MaxLen \in Nat /\ MaxBytes \in Nat
BY Sha1Assumption

USE Constants

\* The bytes in the buffer, from the bits counted modulo Word.
LEMMA BitsToBytes ==
  ASSUME NEW n \in Nat
  PROVE  (((8 * n) % Word) \div 8) % Block = n % Block
<1>0. PICK a \in Nat, b \in Nat \ {0} : a = 8 * n /\ b = 8 * Block
  <2>1. 8 * n \in Nat /\ 8 * Block \in Nat \ {0}
    OBVIOUS
  <2>. QED  BY <2>1
<1>1. PICK w \in Nat : Word = (8 * Block) * w
  <2>1. PICK w \in Nat, r \in 0..b - 1 : Word = b * w + r /\ r = Word % b
    BY Quotient
  <2>2. r = 0 /\ b * w \in Nat
    BY <1>0, <2>1, Sha1Assumption
  <2>. QED  BY <1>0, <2>1, <2>2
<1>2. PICK q \in Nat, r \in 0..Word - 1 : 8 * n = Word * q + r /\ r = (8 * n) % Word
  <2>1. \E q \in Nat, r \in 0..Word - 1 : a = Word * q + r /\ r = a % Word
    BY Quotient
  <2>. QED  BY <1>0, <2>1
<1>3. PICK k \in Nat, x \in Nat : x = Block * k /\ Word * q = 8 * x
  <2>1. w * q \in Nat /\ Block * (w * q) \in Nat /\ Word * q = 8 * (Block * (w * q))
    BY <1>1
  <2>. QED  BY <2>1
<1>4. 8 * n = 8 * x + r
  BY <1>2, <1>3, Zenon
<1>5. PICK m \in Nat : n = m + x /\ r = 8 * m
  <2>1. r \in Nat
    OBVIOUS
  <2>2. n - x \in Nat /\ r = 8 * (n - x)
    BY ONLY <1>4, <2>1
  <2>. QED  BY <2>2
<1>6. r \div 8 = m
  BY ONLY <1>5
<1>7. n % Block = m % Block
  <2>1. n = m + Block * k
    BY <1>3, <1>5, Zenon
  <2>. QED  BY <2>1, SameRemainder
<1>. QED  BY <1>2, <1>6, <1>7, Zenon
-----------------------------------------------------------------------------
(* What hash_step does with the bytes it is given.                         *)
Marks == {"0x80", "0x00", "junk", "S", "R", "N", "I", "F", "T", "B", "X", ":", "0"}
Character == Alphabet \cup Marks \cup {Digits[d] : d \in 1..9}
Byte == {<<c>> : c \in Character} \cup {<<"byte", n>> : n \in Nat}
          \cup {<<"length", length, at>> : length \in Nat, at \in Nat}

Count2 == (0..Word - 1) \X (0..Word - 1)

\* A context that was given n bytes.
Well(c, n) ==
  /\ c \in [count : Count2, state : Seq(Byte), buffer : Seq(Byte)]
  /\ c.count[1] = (8 * n) % Word
  /\ Len(c.buffer) = Block /\ Len(c.state) + (n % Block) = n

GivenTo(c) == c.state \o SubSeq(c.buffer, 1, Used(c))

LEMMA UsedIs ==
  ASSUME NEW n \in Nat, NEW c, Well(c, n)
  PROVE  Used(c) = n % Block /\ Used(c) \in 0..Block - 1
<1>1. Used(c) = n % Block
  BY BitsToBytes DEF Well, Used
<1>. QED  BY <1>1, Division

LEMMA Counted ==
  ASSUME NEW n \in Nat, NEW len \in Nat, NEW count \in Count2, count[1] = (8 * n) % Word
  PROVE  /\ NewCount(count, len) \in Count2
         /\ NewCount(count, len)[1] = (8 * (n + len)) % Word
<1>1. PICK a \in Nat, x \in Nat : a = 8 * n /\ x = 8 * len /\ a + x = 8 * (n + len)
  <2>1. 8 * n \in Nat /\ 8 * len \in Nat /\ 8 * n + 8 * len = 8 * (n + len)
    OBVIOUS
  <2>. QED  BY <2>1
<1>2. ((a % Word) + x) % Word = (a + x) % Word
  BY Remainder
<1>3. (count[1] + x) % Word \in 0..Word - 1 /\ x \div Word + 1 \in Nat
  <2>1. PICK y \in Nat : y = count[1] + x
    BY DEF Count2
  <2>2. y % Word \in 0..Word - 1 /\ x \div Word \in Nat
    BY Division
  <2>. QED  BY <2>1, <2>2
<1>4. PICK carry \in Nat :
        NewCount(count, len) = <<(count[1] + x) % Word, (count[2] + carry) % Word>>
  BY <1>1, <1>3 DEF NewCount
<1>5. (count[2] + carry) % Word \in 0..Word - 1
  <2>1. PICK y \in Nat : y = count[2] + carry
    BY DEF Count2
  <2>2. y % Word \in 0..Word - 1
    BY Division
  <2>. QED  BY <2>1, <2>2
<1>. QED  BY <1>1, <1>2, <1>3, <1>4, <1>5 DEF Count2

\* The buffer after memcpy: what was in it, then what is given.
Copied(buffer, u, data) ==
  SubSeq(SubSeq(buffer, 1, u) \o data \o SubSeq(buffer, u + Len(data) + 1, Block), 1, Block)

\* A buffer.
OfBlock(b) == b \in Seq(Byte) /\ Len(b) = Block

LEMMA Copy ==
  ASSUME NEW buffer \in Seq(Byte), Len(buffer) = Block, NEW u \in 0..Block - 1,
         NEW data \in Seq(Byte)
  PROVE  /\ OfBlock(Copied(buffer, u, data))
         /\ Len(data) <= Block - u =>
              SubSeq(Copied(buffer, u, data), 1, u + Len(data)) = SubSeq(buffer, 1, u) \o data
         /\ Len(data) >= Block - u =>
              Copied(buffer, u, data) = SubSeq(buffer, 1, u) \o SubSeq(data, 1, Block - u)
<1> DEFINE len == Len(data)
           old == SubSeq(buffer, 1, u)
           rest == SubSeq(buffer, u + len + 1, Block)
           front == old \o data
           all == front \o rest
           filled == SubSeq(all, 1, Block)
<1>1. /\ len \in Nat /\ u \in Nat /\ Block \in Nat
      /\ \A k \in 1..Block : buffer[k] \in Byte
      /\ \A k \in 1..len : data[k] \in Byte
  BY ElementOfSeq
<1>2. /\ old \in Seq(Byte) /\ Len(old) = u
      /\ \A k \in 1..u : old[k] = buffer[k]
  BY <1>1, SubSeqProperties
<1>3. /\ rest \in Seq(Byte) /\ Len(rest) = IF u + len + 1 <= Block THEN Block - u - len ELSE 0
      /\ \A k \in 1..(Block - u - len) : rest[k] = buffer[u + len + k]
  BY <1>1, SubSeqProperties
<1> HIDE DEF old, rest
<1>4. /\ front \in Seq(Byte) /\ Len(front) = u + len
      /\ \A k \in 1..(u + len) : front[k] = IF k <= u THEN old[k] ELSE data[k - u]
  BY <1>1, <1>2, ConcatProperties
<1> HIDE DEF front
<1>5. /\ all \in Seq(Byte) /\ Len(all) = u + len + Len(rest)
      /\ \A k \in 1..(u + len) : all[k] = front[k]
  <2>1. /\ all \in Seq(Byte) /\ Len(all) = Len(front) + Len(rest)
        /\ \A k \in 1..(Len(front) + Len(rest)) :
             all[k] = IF k <= Len(front) THEN front[k] ELSE rest[k - Len(front)]
    BY <1>3, <1>4, ConcatProperties
  <2> HIDE DEF all
  <2>2. Len(rest) \in Nat
    BY <1>3, LenProperties
  <2>. QED  BY <1>1, <1>4, <2>1, <2>2
<1> HIDE DEF all
<1>6. Len(all) >= Block
  <2>1. /\ Len(all) = u + len + Len(rest) /\ len \in Nat /\ u \in Nat /\ Block \in Nat
        /\ Len(rest) = IF u + len + 1 <= Block THEN Block - u - len ELSE 0
    BY <1>1, <1>3, <1>5
  <2> HIDE DEF len
  <2>2. CASE u + len + 1 <= Block
    BY <2>1, <2>2
  <2>3. CASE ~(u + len + 1 <= Block)
    BY <2>1, <2>3
  <2>. QED  BY <2>2, <2>3
<1>7. /\ filled \in Seq(Byte) /\ Len(filled) = Block
      /\ \A k \in 1..Block : filled[k] = all[k]
  <2>1. \A k \in 1..Block : all[k] \in Byte
    BY <1>1, <1>5, <1>6, ElementOfSeq
  <2>. QED  BY <1>1, <2>1, SubSeqProperties
<1> HIDE DEF filled
<1>8. Copied(buffer, u, data) = filled
  BY DEF Copied, filled, all, front, old, rest
<1>9. ASSUME len <= Block - u
      PROVE  SubSeq(filled, 1, u + len) = front
  <2>1. \A k \in 1..(u + len) : filled[k] \in Byte /\ filled[k] = front[k]
    BY <1>1, <1>4, <1>5, <1>7, <1>9
  <2>2. /\ SubSeq(filled, 1, u + len) \in Seq(Byte) /\ Len(SubSeq(filled, 1, u + len)) = u + len
        /\ \A k \in 1..(u + len) : SubSeq(filled, 1, u + len)[k] = filled[k]
    BY <1>1, <2>1, SubSeqProperties
  <2>. QED  BY <1>4, <2>1, <2>2, SeqEqual
<1>10. ASSUME len >= Block - u
       PROVE  filled = old \o SubSeq(data, 1, Block - u)
  <2> DEFINE head == SubSeq(data, 1, Block - u)
  <2>1. /\ head \in Seq(Byte) /\ Len(head) = Block - u
        /\ \A k \in 1..(Block - u) : head[k] = data[k]
    BY <1>1, <1>10, SubSeqProperties
  <2> HIDE DEF head
  <2>2. /\ old \o head \in Seq(Byte) /\ Len(old \o head) = Block
        /\ \A k \in 1..Block : (old \o head)[k] = IF k <= u THEN old[k] ELSE head[k - u]
    <3>1. /\ old \o head \in Seq(Byte) /\ Len(old \o head) = Len(old) + Len(head)
          /\ \A k \in 1..(Len(old) + Len(head)) :
               (old \o head)[k] = IF k <= Len(old) THEN old[k] ELSE head[k - Len(old)]
      BY <1>2, <2>1, ConcatProperties
    <3>2. Len(old) + Len(head) = Block
      BY <1>1, <1>2, <2>1
    <3>. QED  BY <1>2, <3>1, <3>2
  <2>3. \A k \in 1..Block : filled[k] = (old \o head)[k]
    <3> TAKE k \in 1..Block
    <3>1. k \in 1..(u + len)
      BY <1>1, <1>10
    <3>1a. filled[k] = IF k <= u THEN old[k] ELSE data[k - u]
      BY <1>4, <1>5, <1>7, <3>1
    <3>2. k > u => k - u \in 1..(Block - u)
      BY <1>1
    <3>3. k > u => head[k - u] = data[k - u]
      BY <2>1, <3>2
    <3>4. (old \o head)[k] = IF k <= u THEN old[k] ELSE head[k - u]
      BY <2>2
    <3>5. k <= u \/ k > u
      BY <1>1
    <3>. QED  BY <3>1a, <3>3, <3>4, <3>5
  <2>4. filled = old \o head
    BY <1>7, <2>2, <2>3, SeqEqual
  <2>. QED  BY <2>4 DEF head
<1>. QED  BY <1>7, <1>8, <1>9, <1>10 DEF front, old, OfBlock

LEMMA CopyFull ==
  ASSUME NEW buffer \in Seq(Byte), Len(buffer) = Block, NEW u \in 0..Block - 1,
         NEW data \in Seq(Byte), Len(data) >= Block - u
  PROVE  /\ Copied(buffer, u, data) \in Seq(Byte) /\ Len(Copied(buffer, u, data)) = Block
         /\ Copied(buffer, u, data) = SubSeq(buffer, 1, u) \o SubSeq(data, 1, Block - u)
<1>1. OfBlock(Copied(buffer, u, data))
  BY Copy, Zenon
<1>2. Copied(buffer, u, data) = SubSeq(buffer, 1, u) \o SubSeq(data, 1, Block - u)
  BY Copy, Zenon
<1>. QED  BY <1>1, <1>2, Zenon DEF OfBlock

\* The blocks that are transformed, and what stays in the buffer: i bytes
\* of data were taken.
CutAt(state, buffer, u, data, len, i) ==
  LET filled == Copied(buffer, u, data)
      middle == SubSeq(data, (Block - u) + 1, i)
      kept   == SubSeq(data, i + 1, len) \o SubSeq(filled, len - i + 1, Block)
  IN /\ state \o filled \o middle \in Seq(Byte)
     /\ Len(state \o filled \o middle) = Len(state) + u + i
     /\ OfBlock(kept)
     /\ (state \o filled \o middle) \o SubSeq(kept, 1, len - i)
          = (state \o SubSeq(buffer, 1, u)) \o data

LEMMA Cut ==
  ASSUME NEW state \in Seq(Byte), NEW buffer \in Seq(Byte), Len(buffer) = Block,
         NEW u \in 0..Block - 1, NEW data \in Seq(Byte), NEW len \in Nat, len = Len(data),
         NEW i \in (Block - u)..len, len - i < Block
  PROVE  CutAt(state, buffer, u, data, len, i)
<1> DEFINE old  == SubSeq(buffer, 1, u)
           head == SubSeq(data, 1, Block - u)
           filled == Copied(buffer, u, data)
           middle == SubSeq(data, (Block - u) + 1, i)
           tail == SubSeq(data, i + 1, len)
           junk == SubSeq(filled, len - i + 1, Block)
           kept == tail \o junk
<1>1. filled \in Seq(Byte) /\ Len(filled) = Block /\ filled = old \o head
  <2>1. Len(data) >= Block - u
    OBVIOUS
  <2>2. /\ Copied(buffer, u, data) \in Seq(Byte) /\ Len(Copied(buffer, u, data)) = Block
        /\ Copied(buffer, u, data) = SubSeq(buffer, 1, u) \o SubSeq(data, 1, Block - u)
    BY <2>1, CopyFull, Zenon
  <2>. QED  BY <2>2, Zenon
<1>2. \A k \in 1..len : data[k] \in Byte
  BY ElementOfSeq
<1>3. old \in Seq(Byte)
  <2>1. \A k \in 1..u : buffer[k] \in Byte
    BY ElementOfSeq
  <2>. QED  BY <2>1, SubSeqProperties
<1>4. head \in Seq(Byte)
  BY <1>2, SubSeqProperties
<1>5. middle \in Seq(Byte) /\ Len(middle) = i - (Block - u)
  <2>1. \A k \in ((Block - u) + 1)..i : data[k] \in Byte
    BY <1>2
  <2>2. (Block - u) + 1 \in Int /\ i \in Int
    OBVIOUS
  <2>. QED  BY <2>1, <2>2, SubSeqProperties
<1>6. tail \in Seq(Byte) /\ Len(tail) = len - i
  <2>1. \A k \in (i + 1)..len : data[k] \in Byte
    BY <1>2
  <2>2. i + 1 \in Int /\ len \in Int
    OBVIOUS
  <2>. QED  BY <2>1, <2>2, SubSeqProperties
<1>7. junk \in Seq(Byte) /\ Len(junk) = Block - (len - i)
  <2>1. \A k \in 1..Block : filled[k] \in Byte
    BY <1>1, ElementOfSeq
  <2>2. \A k \in (len - i + 1)..Block : filled[k] \in Byte
    BY <2>1
  <2>3. len - i + 1 \in Int /\ Block \in Int
    OBVIOUS
  <2>. QED  BY <2>2, <2>3, SubSeqProperties
<1>8. head \o middle = SubSeq(data, 1, i) /\ SubSeq(data, 1, i) \o tail = data
  <2>1. /\ 1 \in 1..(Len(data) + 1) /\ Block - u \in 0..Len(data)
        /\ i \in (Block - u)..Len(data)
        /\ i \in 0..Len(data) /\ len \in i..Len(data)
    OBVIOUS
  <2>2. head \o middle = SubSeq(data, 1, i)
    BY <2>1, ConcatAdjacentSubSeq
  <2>3. SubSeq(data, 1, i) \o tail = SubSeq(data, 1, len)
    <3>1. SubSeq(data, 1, i) \o SubSeq(data, i + 1, len) = SubSeq(data, 1, len)
      <4>1. 1 \in 1..Len(data) + 1 /\ i \in 1 - 1..Len(data) /\ len \in i..Len(data)
        OBVIOUS
      <4>. QED  BY ONLY <4>1, ConcatAdjacentSubSeq, data \in Seq(Byte), Zenon
    <3>. QED  BY <3>1, Zenon
  <2>4. SubSeq(data, 1, len) = data
    BY SubSeqFull
  <2>. QED  BY <2>2, <2>3, <2>4
<1> HIDE DEF old, head, filled, middle, tail, junk, kept
<1>9. /\ state \o filled \in Seq(Byte) /\ Len(state \o filled) = Len(state) + Block
      /\ (state \o filled) \o middle \in Seq(Byte)
      /\ Len((state \o filled) \o middle) = Len(state) + u + i
  <2>1. state \o filled \in Seq(Byte) /\ Len(state \o filled) = Len(state) + Len(filled)
    BY <1>1, Joined
  <2>2. /\ (state \o filled) \o middle \in Seq(Byte)
        /\ Len((state \o filled) \o middle) = Len(state \o filled) + Len(middle)
    BY <1>5, <2>1, Joined
  <2>3. PICK k \in Nat : k = Len(state)
    BY LenProperties
  <2>4. Len(state \o filled) = k + Block
    BY <1>1, <2>1, <2>3
  <2>5. k + Block + (i - (Block - u)) = k + u + i
    OBVIOUS
  <2>. QED  BY <1>1, <1>5, <2>1, <2>2, <2>3, <2>4, <2>5
<1>10. kept = tail \o junk
  BY DEF kept
<1>11. /\ kept \in Seq(Byte) /\ Len(kept) = Block
       /\ SubSeq(kept, 1, len - i) = tail
  <2>1. tail \o junk \in Seq(Byte) /\ Len(tail \o junk) = Len(tail) + Len(junk)
    BY <1>6, <1>7, Joined
  <2>2. SubSeq(tail \o junk, 1, Len(tail)) = tail
    BY <1>6, <1>7, Prefix
  <2>3. /\ kept \in Seq(Byte) /\ Len(kept) = Len(tail) + Len(junk)
        /\ SubSeq(kept, 1, Len(tail)) = tail
    BY <1>10, <2>1, <2>2, Zenon
  <2>4. Len(tail) = len - i /\ Len(tail) + Len(junk) = Block
    BY <1>6, <1>7
  <2>. QED  BY <2>3, <2>4, Zenon
<1>12. ((state \o filled) \o middle) \o tail = (state \o old) \o data
  <2>1. Join(Join(Join(state, Join(old, head)), middle), tail)
          = Join(Join(state, old), Join(Join(head, middle), tail))
    BY ONLY <1>3, <1>4, <1>5, <1>6, Joins, state \in Seq(Byte)
  <2>2. ((state \o (old \o head)) \o middle) \o tail
          = (state \o old) \o ((head \o middle) \o tail)
    BY <2>1, Zenon DEF Join
  <2>. QED  BY <1>1, <1>8, <2>2, Zenon
<1>13. (state \o filled \o middle) \o SubSeq(kept, 1, len - i) = (state \o old) \o data
  BY <1>11, <1>12, Zenon
<1>14. OfBlock(kept)
  BY <1>11 DEF OfBlock
<1>. QED  BY <1>9, <1>13, <1>14, Zenon DEF CutAt, kept, junk, tail, middle, filled, old

\* How far the blocks go.
LEMMA Taken ==
  ASSUME NEW n \in Nat, NEW len \in Nat, NEW u \in 0..Block - 1, u = n % Block,
         Block - u <= len
  PROVE  \E i \in (Block - u)..len :
           /\ i = (Block - u) + Block * ((len - (Block - u)) \div Block)
           /\ len - i \in 0..Block - 1 /\ (n + len) % Block = len - i
<1>1. PICK q \in Nat, v \in 0..Block - 1 : n = Block * q + v /\ v = u
  BY Quotient
<1>0. Block - u <= len /\ Block \in Nat
  OBVIOUS
<1>2. PICK a \in Nat : a = len - (Block - u)
  BY ONLY <1>0
<1>3. PICK m \in Nat, rest \in 0..Block - 1 : a = Block * m + rest /\ m = a \div Block
  BY Quotient
<1>4. PICK x \in Nat, y \in Nat : x = Block * q /\ y = Block * m
  BY Multiples
<1>5. PICK i \in Nat : i = (Block - u) + y
  BY <1>4
<1>6. a = y + rest /\ n = x + u
  BY <1>1, <1>3, <1>4, Zenon
<1>7. i \in (Block - u)..len /\ len - i = rest
  BY <1>2, <1>5, <1>6
<1>8. PICK p \in Nat : p = q + 1 + m
  OBVIOUS
<1>9. Block * p = x + Block + y
  BY <1>4, <1>8
<1>10. n + len = Block * p + rest
  BY <1>2, <1>6, <1>9
<1>11. (n + len) % Block = rest
  BY <1>10, Unique
<1>. QED  BY <1>2, <1>3, <1>4, <1>5, <1>7, <1>11

\* A step whose bytes fit the buffer, ...
LEMMA SteppedShort ==
  ASSUME NEW n \in Nat, NEW c, Well(c, n), NEW data \in Seq(Byte), NEW len \in Nat,
         len = Len(data), NEW u \in 0..Block - 1, u = Used(c), u = n % Block,
         len < Block - u
  PROVE  /\ Well(Stepped(c, data), n + len)
         /\ GivenTo(Stepped(c, data)) = GivenTo(c) \o data
<1> DEFINE filled == Copied(c.buffer, u, data)
           old == SubSeq(c.buffer, 1, u)
           d == [c EXCEPT !.count = NewCount(c.count, len), !.buffer = filled]
<1>1. Stepped(c, data) = d
  BY DEF Stepped, Copied
<1>2a. c.count \in Count2 /\ c.count[1] = (8 * n) % Word
  BY DEF Well
<1>2b. Len(c.state) + u = n
  BY Zenon DEF Well
<1>2. /\ c.state \in Seq(Byte) /\ Len(c.state) \in Nat
      /\ c.buffer \in Seq(Byte) /\ Len(c.buffer) = Block
  BY LenProperties DEF Well
<1>3. /\ NewCount(c.count, len) \in Count2
      /\ NewCount(c.count, len)[1] = (8 * (n + len)) % Word
  BY <1>2a, Counted
<1>4. OfBlock(filled) /\ SubSeq(filled, 1, u + len) = old \o data
  <2>1. Len(data) <= Block - u
    OBVIOUS
  <2>2. OfBlock(filled)
    BY <1>2, Copy, Zenon
  <2>3. SubSeq(filled, 1, u + Len(data)) = old \o data
    BY <1>2, <2>1, Copy, Zenon
  <2>. QED  BY <2>2, <2>3, Zenon
<1>5. (n + len) % Block = u + len
  <2>1. PICK q \in Nat, v \in 0..Block - 1 : n = Block * q + v /\ v = u
    BY Quotient
  <2>2. PICK x \in Nat : x = Block * q
    BY Multiples
  <2>3. u + len \in 0..Block - 1
    OBVIOUS
  <2>4. n + len = Block * q + (u + len)
    <3>1. n = x + u
      BY <2>1, <2>2, Zenon
    <3>2. n + len = x + (u + len)
      BY ONLY <3>1, x \in Nat, n \in Nat, len \in Nat, u \in 0..Block - 1, Sha1Assumption
    <3>. QED  BY <2>2, <3>2, Zenon
  <2>5. (Block * q + (u + len)) % Block = u + len
    BY <2>3, Unique, Zenon
  <2>. QED  BY <2>4, <2>5, Zenon
<1> HIDE DEF filled
<1>6. /\ d \in [count : Count2, state : Seq(Byte), buffer : Seq(Byte)]
      /\ d.count = NewCount(c.count, len) /\ d.state = c.state /\ d.buffer = filled
  BY <1>3, <1>4 DEF Well, OfBlock
<1> HIDE DEF d
<1>7. Well(d, n + len)
  <2>1. Len(d.state) + ((n + len) % Block) = n + len
    <3>1. Len(c.state) + (u + len) = n + len
      <4>1. PICK m \in Int, k \in Int : m = Len(c.state) /\ k = u /\ m + k = n
        BY <1>2, <1>2b
      <4>2. m + (k + len) = n + len
        BY <4>1, Sum
      <4>. QED  BY <4>1, <4>2, Zenon
    <3>. QED  BY <1>5, <1>6, <3>1, Zenon
  <2>. QED  BY <1>3, <1>4, <1>6, <2>1, Zenon DEF Well, OfBlock
<1>8. Used(d) = u + len
  BY <1>5, <1>7, UsedIs
<1>9. GivenTo(d) = c.state \o (old \o data)
  BY <1>4, <1>6, <1>8, Zenon DEF GivenTo
<1>10. old \in Seq(Byte)
  <2>1. \A k \in 1..u : c.buffer[k] \in Byte
    BY <1>2, ElementOfSeq
  <2>. QED  BY <2>1, SubSeqProperties
<1>11. GivenTo(c) = c.state \o old
  BY DEF GivenTo
<1> HIDE DEF old
<1>12. c.state \o (old \o data) = (c.state \o old) \o data
  <2>1. PICK x \in Seq(Byte), y \in Seq(Byte) : x = c.state /\ y = old
    BY <1>2, <1>10
  <2>2. Join(Join(x, y), data) = Join(x, Join(y, data))
    BY Joins
  <2>3. x \o (y \o data) = (x \o y) \o data
    BY <2>2, Zenon DEF Join
  <2>. QED  BY <2>1, <2>3, Zenon
<1>. QED  BY <1>1, <1>7, <1>9, <1>11, <1>12, Zenon

\* ... and one that fills it.
LEMMA SteppedBlocks ==
  ASSUME NEW n \in Nat, NEW c, Well(c, n), NEW data \in Seq(Byte), NEW len \in Nat,
         len = Len(data), NEW u \in 0..Block - 1, u = Used(c), u = n % Block,
         Block - u <= len
  PROVE  /\ Well(Stepped(c, data), n + len)
         /\ GivenTo(Stepped(c, data)) = GivenTo(c) \o data
<1>1. PICK i \in (Block - u)..len :
        /\ i = (Block - u) + Block * ((len - (Block - u)) \div Block)
        /\ len - i \in 0..Block - 1 /\ (n + len) % Block = len - i
  BY Taken
<1> DEFINE filled == Copied(c.buffer, u, data)
           middle == SubSeq(data, (Block - u) + 1, i)
           kept == SubSeq(data, i + 1, len) \o SubSeq(filled, len - i + 1, Block)
           d == [count |-> NewCount(c.count, len), state |-> c.state \o filled \o middle,
                 buffer |-> kept]
<1>2. Stepped(c, data) = d
  <2>1. ~(len < Block - u)
    OBVIOUS
  <2>. QED  BY <1>1, <2>1, Zenon DEF Stepped, Copied
<1>3a. c.count \in Count2 /\ c.count[1] = (8 * n) % Word
  BY DEF Well
<1>3b. Len(c.state) + u = n
  BY Zenon DEF Well
<1>3. /\ c.state \in Seq(Byte) /\ Len(c.state) \in Nat
      /\ c.buffer \in Seq(Byte) /\ Len(c.buffer) = Block
  BY LenProperties DEF Well
<1>4. /\ NewCount(c.count, len) \in Count2
      /\ NewCount(c.count, len)[1] = (8 * (n + len)) % Word
  BY <1>3a, Counted
<1>5. /\ c.state \o filled \o middle \in Seq(Byte)
      /\ Len(c.state \o filled \o middle) = Len(c.state) + u + i
      /\ kept \in Seq(Byte) /\ Len(kept) = Block
      /\ (c.state \o filled \o middle) \o SubSeq(kept, 1, len - i)
           = (c.state \o SubSeq(c.buffer, 1, u)) \o data
  <2>1. len - i < Block
    BY <1>1
  <2>2. CutAt(c.state, c.buffer, u, data, len, i)
    BY <1>3, <2>1, Cut, Zenon
  <2>. QED  BY <2>2, Zenon DEF CutAt, OfBlock
<1> HIDE DEF filled, middle, kept
<1>6. /\ d \in [count : Count2, state : Seq(Byte), buffer : Seq(Byte)]
      /\ d.count = NewCount(c.count, len) /\ d.state = c.state \o filled \o middle
      /\ d.buffer = kept
  BY <1>4, <1>5, Zenon
<1> HIDE DEF d
<1>7. Well(d, n + len)
  <2>1. Len(d.state) + ((n + len) % Block) = n + len
    <3>1. (Len(c.state) + u + i) + (len - i) = n + len
      <4>1. PICK m : m \in Int /\ m = Len(c.state) /\ m + u = n
        BY <1>3, <1>3b
      <4>2. u \in Int /\ len \in Int /\ n \in Int /\ i \in Int
        OBVIOUS
      <4>3. (m + u + i) + (len - i) = n + len
        BY ONLY <4>1, <4>2
      <4>. QED  BY <4>1, <4>3, Zenon
    <3>. QED  BY <1>1, <1>5, <1>6, <3>1, Zenon
  <2>. QED  BY <1>4, <1>5, <1>6, <2>1, Zenon DEF Well
<1>8. Used(d) = len - i
  BY <1>1, <1>7, UsedIs
<1>. QED  BY <1>2, <1>5, <1>6, <1>7, <1>8, Zenon DEF GivenTo

\* hash_step takes the bytes it is given, all of them and in their place.
LEMMA Gives ==
  ASSUME NEW n \in Nat, NEW c, Well(c, n), NEW data \in Seq(Byte)
  PROVE  /\ Well(Stepped(c, data), n + Len(data))
         /\ GivenTo(Stepped(c, data)) = GivenTo(c) \o data
<1>1. PICK u \in 0..Block - 1, len \in Nat : u = Used(c) /\ u = n % Block /\ len = Len(data)
  BY UsedIs, LenProperties
<1>2. CASE len < Block - u
  BY <1>1, <1>2, SteppedShort, Zenon
<1>3. CASE Block - u <= len
  BY <1>1, <1>3, SteppedBlocks, Zenon
<1>4. len < Block - u \/ Block - u <= len
  OBVIOUS
<1>. QED  BY <1>2, <1>3, <1>4
-----------------------------------------------------------------------------
(* The padding.                                                            *)
LEMMA ZerosIs ==
  ASSUME NEW n \in Nat
  PROVE  /\ Zeros(n) \in 0..Block - 1
         /\ \A z \in 0..Zeros(n) :
              ((n + 1 + z) % Block = Block - LenField) <=> (z = Zeros(n))
<1>1. PICK m \in Nat : m = n + 1 + LenField /\ m > LenField
  OBVIOUS
<1>2. PICK q \in Nat, r \in 0..Block - 1 : m = Block * q + r /\ r = m % Block
  BY Quotient
<1>3. Zeros(n) = (Block - r) % Block
  BY <1>1, <1>2 DEF Zeros
<1>4. CASE r = 0
  <2>1. Zeros(n) = 0
    <3>1. (Block * 1 + 0) % Block = 0
      <4>1. 1 \in Nat /\ 0 \in 0..Block - 1
        OBVIOUS
      <4>. QED  BY <4>1, Unique, Zenon
    <3>2. Block - r = Block * 1 + 0
      BY <1>4
    <3>. QED  BY <1>3, <3>1, <3>2, Zenon
  <2>2. PICK p \in Nat : q = p + 1
    <3>1. q # 0
      <4>1. Block * 0 = 0
        OBVIOUS
      <4>. QED  BY <1>1, <1>2, <1>4, <4>1
    <3>2. q - 1 \in Nat /\ q = (q - 1) + 1
      BY <3>1
    <3>. QED  BY <3>2
  <2>3. PICK x \in Nat : x = Block * p
    BY Multiples
  <2>4. n + 1 = Block * p + (Block - LenField)
    <3>1. m = x + Block
      BY <1>2, <1>4, <2>2, <2>3
    <3>. QED  BY <1>1, <2>3, <3>1
  <2>5. (Block * p + (Block - LenField)) % Block = Block - LenField
    <3>1. Block - LenField \in 0..Block - 1
      OBVIOUS
    <3>. QED  BY <3>1, Unique, Zenon
  <2>6. (n + 1 + 0) % Block = Block - LenField
    <3>1. n + 1 + 0 = n + 1
      OBVIOUS
    <3>. QED  BY <2>4, <2>5, <3>1, Zenon
  <2>. QED  BY <2>1, <2>6
<1>5. CASE r > 0
  <2>1. Block - r \in 0..Block - 1
    BY <1>5
  <2>2. Zeros(n) = Block - r
    <3>1. (Block * 0 + (Block - r)) % Block = Block - r
      <4>1. 0 \in Nat
        OBVIOUS
      <4>. QED  BY <2>1, <4>1, Unique, Zenon
    <3>2. Block * 0 + (Block - r) = Block - r
      OBVIOUS
    <3>. QED  BY <1>3, <3>1, <3>2, Zenon
  <2>3. PICK x \in Nat : x = Block * q
    BY Multiples
  <2>4. ASSUME NEW z \in 0..Block - r
        PROVE  ((n + 1 + z) % Block = Block - LenField) <=> (z = Block - r)
    <3>1. n + 1 + z = x + (r + z - LenField)
      <4>1. m = x + r
        BY <1>2, <2>3, Zenon
      <4>. QED  BY <1>1, <4>1
    <3>2. CASE r + z >= LenField
      <4>1. PICK k \in 0..Block - 1 : k = r + z - LenField
        BY <3>2
      <4>2. (Block * q + k) % Block = k
        BY Unique
      <4>3. n + 1 + z = Block * q + k
        BY <2>3, <3>1, <4>1
      <4>4. (n + 1 + z) % Block = k
        BY <4>2, <4>3, Zenon
      <4>. QED  BY <4>1, <4>4
    <3>3. CASE r + z < LenField
      <4>1. PICK p \in Nat : q = p + 1
        <5>1. q # 0
          <6>1. q = 0 => x = 0
            BY <2>3
          <6>2. n + 1 + z > 0
            OBVIOUS
          <6>. QED  BY <3>1, <3>3, <6>1, <6>2
        <5>2. q - 1 \in Nat /\ q = (q - 1) + 1
          BY <5>1
        <5>. QED  BY <5>2
      <4>2. PICK y \in Nat : y = Block * p
        BY Multiples
      <4>3. x = y + Block
        BY <2>3, <4>1, <4>2
      <4>4. PICK k \in 0..Block - 1 : k = Block + (r + z - LenField)
        BY <3>3
      <4>5. (Block * p + k) % Block = k
        BY Unique
      <4>6. n + 1 + z = Block * p + k
        BY <3>1, <4>2, <4>3, <4>4
      <4>7. (n + 1 + z) % Block = k
        BY <4>5, <4>6, Zenon
      <4>. QED  BY <1>5, <3>3, <4>4, <4>7
    <3>. QED  BY <3>2, <3>3
  <2>. QED  BY <2>1, <2>2, <2>4
<1>. QED  BY <1>4, <1>5
-----------------------------------------------------------------------------
(* The bits are counted exactly when the message has less than Word * Word *)
(* of them and no piece has Word or more.                                  *)
LEMMA Grows ==
  ASSUME NEW w \in Nat \ {0}, NEW a \in Nat, NEW b \in Nat, a <= b
  PROVE  w * a <= w * b /\ w * a \in Nat /\ w * b \in Nat
<1>1. w * (b - a) \in Nat /\ w * (b - a) = w * b - w * a
  OBVIOUS
<1>. QED  BY <1>1

LEMMA CountsExactly ==
  ASSUME NEW a \in 0..Word - 1, NEW b \in 0..Word - 1, NEW n \in Nat, NEW len \in Nat,
         b * Word + a = 8 * n, 8 * len < Word, 8 * (n + len) < Word * Word
  PROVE  NewCount(<<a, b>>, len)[2] * Word + NewCount(<<a, b>>, len)[1] = 8 * (n + len)
<1>1. PICK x \in Nat, y \in Nat : x = 8 * len /\ y = Word * b
  BY Grows
<1>2. b * Word = y
  BY <1>1
<1>3. 8 * (n + len) = y + a + x /\ x < Word
  BY <1>1, <1>2
<1>4. x \div Word = 0
  <2>1. (Word * 0 + x) \div Word = 0
    <3>1. 0 \in Nat /\ x \in 0..Word - 1
      BY <1>3
    <3>. QED  BY <3>1, Unique, Zenon
  <2>2. Word * 0 + x = x
    OBVIOUS
  <2>. QED  BY <2>1, <2>2, Zenon
<1>5. CASE a + x < Word
  <2>1. (a + x) % Word = a + x
    <3>1. (Word * 0 + (a + x)) % Word = a + x
      <4>1. 0 \in Nat /\ a + x \in 0..Word - 1
        BY <1>5
      <4>. QED  BY <4>1, Unique, Zenon
    <3>2. Word * 0 + (a + x) = a + x
      OBVIOUS
    <3>. QED  BY <3>1, <3>2, Zenon
  <2>2. b % Word = b
    <3>1. (Word * 0 + b) % Word = b
      <4>1. 0 \in Nat
        OBVIOUS
      <4>. QED  BY <4>1, Unique, Zenon
    <3>2. Word * 0 + b = b
      OBVIOUS
    <3>. QED  BY <3>1, <3>2, Zenon
  <2>3. NewCount(<<a, b>>, len) = <<a + x, b>>
    <3>1. ~(a + x < a) /\ b + 0 = b
      OBVIOUS
    <3>. QED  BY <1>1, <2>1, <2>2, <3>1 DEF NewCount
  <2>. QED  BY <1>2, <1>3, <2>3
<1>6. CASE a + x >= Word
  <2>1. PICK low \in 0..Word - 1 : low = a + x - Word /\ low < a
    BY <1>3, <1>6
  <2>2. (a + x) % Word = low
    <3>1. (Word * 1 + low) % Word = low
      <4>1. 1 \in Nat
        OBVIOUS
      <4>. QED  BY <4>1, Unique, Zenon
    <3>2. Word * 1 + low = a + x
      BY <2>1
    <3>. QED  BY <3>1, <3>2, Zenon
  <2>3. b + 1 \in 0..Word - 1
    <3>1. SUFFICES ASSUME Word <= b + 1
                   PROVE  FALSE
      OBVIOUS
    <3>2. Word * Word <= Word * (b + 1)
      BY <3>1, Grows
    <3>3. Word * (b + 1) = y + Word
      BY <1>1
    <3>4. PICK t \in Nat : t = Word * Word
      BY Grows
    <3>5. t <= y + Word /\ y + a + x < t
      BY <1>3, <3>2, <3>3, <3>4, Zenon
    <3>6. Word \in Nat /\ a \in Nat
      OBVIOUS
    <3>. QED  BY ONLY <1>1, <1>6, <3>5, <3>6, <3>4, y \in Nat, x \in Nat, t \in Nat
  <2>4. (b + 1) % Word = b + 1
    <3>1. (Word * 0 + (b + 1)) % Word = b + 1
      <4>1. 0 \in Nat
        OBVIOUS
      <4>. QED  BY <2>3, <4>1, Unique, Zenon
    <3>2. Word * 0 + (b + 1) = b + 1
      OBVIOUS
    <3>. QED  BY <3>1, <3>2, Zenon
  <2>5. NewCount(<<a, b>>, len) = <<low, b + 1>>
    <3>1. 0 + 1 = 1
      OBVIOUS
    <3>. QED  BY <1>1, <1>4, <2>1, <2>2, <2>4, <3>1 DEF NewCount
  <2>6. (b + 1) * Word = y + Word
    BY <1>2
  <2>. QED  BY <1>3, <2>1, <2>5, <2>6
<1>7. a + x < Word \/ a + x >= Word
  OBVIOUS
<1>. QED  BY <1>5, <1>6, <1>7
-----------------------------------------------------------------------------
(* The inductive invariant of the engine: at every point of hash_finish    *)
(* too, what it was given is known, and whole.                             *)
Holds(c, bytes) == bytes \in Seq(Byte) /\ Well(c, Len(bytes)) /\ GivenTo(c) = bytes

Some(z) == [at \in 1..z |-> Zero]
Ended(bytes, z) == bytes \o <<One>> \o Some(z)

EngineInv ==
  /\ pc \in {"input", "zeros", "done"}
  /\ message \in Seq(Byte)
  /\ pc = "input" => Holds(cx, message)
  /\ pc = "zeros" => \E z \in 0..Zeros(Len(message)) : Holds(cx, Ended(message, z))
  /\ pc = "done" => Holds(cx, Ended(message, Zeros(Len(message))) \o finalcount)
  /\ pc # "input" => finalcount \in Seq(Byte) /\ Len(finalcount) = LenField

\* SHA1 is for messages whose length fits its padding.
Fits == 8 * Len(message) < Word * Word

BitsOf(count) == count[2] * Word + count[1]

ExactInv ==
  Fits => /\ pc = "input" => BitsOf(cx.count) = 8 * Len(message)
          /\ pc # "input" => finalcount = LengthField(8 * Len(message))

LEMMA Feeds ==
  ASSUME NEW c, NEW bytes, Holds(c, bytes), NEW data \in Seq(Byte)
  PROVE  Holds(Stepped(c, data), bytes \o data)
<1>1. PICK b \in Seq(Byte), n \in Nat : b = bytes /\ n = Len(b) /\ Well(c, n) /\ GivenTo(c) = b
  BY LenProperties DEF Holds
<1>2. Well(Stepped(c, data), n + Len(data)) /\ GivenTo(Stepped(c, data)) = b \o data
  BY <1>1, Gives, Zenon
<1>3. b \o data \in Seq(Byte) /\ Len(b \o data) = n + Len(data)
  BY <1>1, Joined
<1>. QED  BY <1>1, <1>2, <1>3, Zenon DEF Holds

LEMMA NamedByte == \A c \in Character : <<c>> \in Byte
<1> TAKE c \in Character
<1>1. <<c>> \in {<<d>> : d \in Character}
  OBVIOUS
<1> DEFINE Named == {<<d>> : d \in Character}
<1> HIDE DEF Named
<1>2. Named \subseteq Byte
  BY DEF Named, Byte
<1>. QED  BY <1>1, <1>2 DEF Named

LEMMA SomeZeros ==
  ASSUME NEW bytes \in Seq(Byte), NEW z \in Nat
  PROVE  /\ Ended(bytes, z) \in Seq(Byte) /\ Len(Ended(bytes, z)) = Len(bytes) + 1 + z
         /\ <<One>> \in Seq(Byte) /\ <<Zero>> \in Seq(Byte)
         /\ bytes \o <<One>> = Ended(bytes, 0)
         /\ Ended(bytes, z) \o <<Zero>> = Ended(bytes, z + 1)
<1>1. One \in Byte /\ Zero \in Byte
  <2>1. "0x80" \in Character /\ "0x00" \in Character
    BY DEF Character, Marks
  <2>. QED  BY <2>1, NamedByte, Zenon DEF One, Zero
<1>2. <<One>> \in Seq(Byte) /\ <<Zero>> \in Seq(Byte) /\ Len(<<One>>) = 1
  BY <1>1
<1>3. \A k \in Nat : Some(k) \in Seq(Byte) /\ Len(Some(k)) = k
  BY <1>1 DEF Some
<1>4. PICK head \in Seq(Byte) : head = bytes \o <<One>> /\ Len(head) = Len(bytes) + 1
  BY <1>2, Joined
<1>5. \A k \in Nat : Ended(bytes, k) = head \o Some(k)
  BY <1>4 DEF Ended
<1>6. head \o Some(z) \in Seq(Byte) /\ Len(head \o Some(z)) = Len(head) + z
  BY <1>3, Joined
<1>7. head \o Some(0) = head
  <2>1. Some(0) = <<>>
    BY <1>3, EmptySeq
  <2>. QED  BY <2>1, ConcatEmptySeq
<1>8. Some(z) \o <<Zero>> = Some(z + 1)
  BY <1>1, <1>2 DEF Some
<1>9. (head \o Some(z)) \o <<Zero>> = head \o Some(z + 1)
  <2>1. PICK x \in Seq(Byte), y \in Seq(Byte) : x = Some(z) /\ y = <<Zero>>
    BY <1>2, <1>3
  <2>2. Join(Join(head, x), y) = Join(head, Join(x, y))
    BY Joins
  <2>3. (head \o x) \o y = head \o (x \o y)
    BY <2>2, Zenon DEF Join
  <2>. QED  BY <1>8, <2>1, <2>3, Zenon
<1>10. Len(Ended(bytes, z)) = Len(bytes) + 1 + z
  BY <1>4, <1>5, <1>6, LenProperties
<1>11. 0 \in Nat /\ z + 1 \in Nat
  OBVIOUS
<1>. QED  BY <1>2, <1>4, <1>5, <1>6, <1>7, <1>9, <1>10, <1>11, Zenon

\* hash_init: nothing was given yet, whatever the buffer has.
LEMMA Empty ==
  ASSUME NEW c, c.count = <<0, 0>>, c.state = <<>>,
         c \in [count : Count2, state : Seq(Byte), buffer : Seq(Byte)], Len(c.buffer) = Block
  PROVE  Holds(c, <<>>) /\ BitsOf(c.count) = 0
<1>1. Len(<<>>) = 0 /\ 8 * 0 = 0 /\ c.count[1] = 0 /\ 0 \in Nat
  OBVIOUS
<1>2. 0 % Word = 0 /\ 0 % Block = 0
  <2>1. Word * 0 + 0 = 0 /\ Block * 0 + 0 = 0
    OBVIOUS
  <2>2. 0 \in Nat /\ 0 \in 0..Word - 1 /\ 0 \in 0..Block - 1
    OBVIOUS
  <2>3. (Word * 0 + 0) % Word = 0
    BY <2>2, Unique, Zenon
  <2>4. (Block * 0 + 0) % Block = 0
    BY <2>2, Unique, Zenon
  <2>. QED  BY <2>1, <2>3, <2>4, Zenon
<1>3. Well(c, 0)
  <2>1. 0 + 0 = 0
    OBVIOUS
  <2>. QED  BY <1>1, <1>2, <2>1, Zenon DEF Well
<1>4. Used(c) = 0
  BY <1>1, <1>2, <1>3, UsedIs
<1>5. SubSeq(c.buffer, 1, 0) = <<>>
  BY SubSeqEmpty
<1>6. GivenTo(c) = <<>>
  <2>1. <<>> \o <<>> = <<>>
    OBVIOUS
  <2>. QED  BY <1>4, <1>5, <2>1, Zenon DEF GivenTo
<1>7. <<>> \in Seq(Byte)
  OBVIOUS
<1>8. BitsOf(c.count) = 0
  <2>1. 0 * Word + 0 = 0
    OBVIOUS
  <2>. QED  BY <2>1 DEF BitsOf
<1>. QED  BY <1>1, <1>3, <1>6, <1>7, <1>8, Zenon DEF Holds

LEMMA EngineStarts == EngineInit => EngineInv /\ ExactInv
<1> SUFFICES ASSUME EngineInit PROVE EngineInv /\ ExactInv
  OBVIOUS
<1>1. <<"junk">> \in Byte
  <2>1. "junk" \in Character
    BY DEF Character, Marks
  <2>. QED  BY <2>1, NamedByte, Zenon
<1>2. cx \in [count : Count2, state : Seq(Byte), buffer : Seq(Byte)] /\ Len(cx.buffer) = Block
      /\ cx.count = <<0, 0>> /\ cx.state = <<>>
  BY <1>1 DEF EngineInit, Count2
<1>3. Holds(cx, <<>>) /\ BitsOf(cx.count) = 0
  BY <1>2, Empty
<1>4. message = <<>> /\ pc = "input" /\ <<>> \in Seq(Byte) /\ Len(<<>>) = 0 /\ 8 * 0 = 0
  BY DEF EngineInit
<1>. QED  BY <1>3, <1>4 DEF EngineInv, ExactInv

\* hash_step of any bytes.
LEMMA StepKeeps ==
  ASSUME EngineInv, NEW data \in Seq(Byte), HashStep(data)
  PROVE  EngineInv'
<1>1. Holds(cx, message) /\ cx' = Stepped(cx, data) /\ message' = message \o data
      /\ pc = "input" /\ pc' = "input"
  BY DEF EngineInv, HashStep
<1>2. Holds(cx', message')
  BY <1>1, Feeds, Zenon
<1>3. message' \in Seq(Byte)
  BY <1>2, Zenon DEF Holds
<1>. QED  BY <1>1, <1>2, <1>3, Zenon DEF EngineInv

LEMMA StepCounts ==
  ASSUME EngineInv, ExactInv, NEW data \in Seq(Byte), HashStep(data), 8 * Len(data) < Word
  PROVE  ExactInv'
<1> SUFFICES ASSUME Fits' PROVE ExactInv'
  BY DEF ExactInv
<1>1. pc = "input" /\ pc' = "input" /\ cx.count \in Count2 /\ message \in Seq(Byte)
      /\ cx' = Stepped(cx, data) /\ message' = message \o data
  BY Zenon DEF EngineInv, Holds, Well, HashStep
<1>2. PICK n \in Nat, len \in Nat : n = Len(message) /\ len = Len(data)
                                   /\ Len(message') = n + len
  <2>1. Len(message \o data) = Len(message) + Len(data)
        /\ Len(message) \in Nat /\ Len(data) \in Nat
    BY <1>1, Joined
  <2>. QED  BY <1>1, <2>1, Zenon
<1>3. PICK a \in 0..Word - 1, b \in 0..Word - 1 : cx.count = <<a, b>>
  <2>1. PICK count \in Count2 : count = cx.count
    BY <1>1
  <2>2. count = <<count[1], count[2]>> /\ count[1] \in 0..Word - 1 /\ count[2] \in 0..Word - 1
    BY DEF Count2
  <2>. QED  BY <2>1, <2>2
<1>4. 8 * (n + len) < Word * Word
  BY <1>2 DEF Fits
<1>5. 8 * n < Word * Word
  <2>1. PICK t \in Int : t = Word * Word
    OBVIOUS
  <2>2. 8 * n <= 8 * (n + len)
    OBVIOUS
  <2>. QED  BY <1>4, <2>1, <2>2
<1>6. b * Word + a = 8 * n
  BY <1>1, <1>2, <1>3, <1>5 DEF ExactInv, Fits, BitsOf
<1>7. NewCount(<<a, b>>, len)[2] * Word + NewCount(<<a, b>>, len)[1] = 8 * (n + len)
  <2>1. 8 * len < Word
    BY <1>2
  <2>. QED  BY <1>4, <1>6, <2>1, CountsExactly
<1>8. cx'.count = NewCount(cx.count, len)
  BY <1>1, <1>2 DEF Stepped
<1>9. BitsOf(cx'.count) = 8 * Len(message')
  BY <1>2, <1>3, <1>7, <1>8, Zenon DEF BitsOf
<1>. QED  BY <1>1, <1>9, Zenon DEF ExactInv

\* hash_finish: the first byte of the padding, ...
LEMMA FinishKeeps ==
  ASSUME EngineInv, HashFinish
  PROVE  EngineInv' /\ (ExactInv => ExactInv')
<1>1. /\ pc = "input" /\ pc' = "zeros" /\ message' = message /\ message \in Seq(Byte)
      /\ cx' = Stepped(cx, <<One>>) /\ Holds(cx, message)
  BY DEF HashFinish, EngineInv
<1>2. Holds(cx', Ended(message, 0))
  <2>1. <<One>> \in Seq(Byte) /\ message \o <<One>> = Ended(message, 0)
    <3>1. 0 \in Nat
      OBVIOUS
    <3>. QED  BY <1>1, <3>1, SomeZeros, Zenon
  <2>2. Holds(Stepped(cx, <<One>>), message \o <<One>>)
    BY <1>1, <2>1, Feeds, Zenon
  <2>. QED  BY <1>1, <2>1, <2>2, Zenon
<1>3. 0 \in 0..Zeros(Len(message'))
  <2>1. Len(message) \in Nat
    BY <1>1, LenProperties
  <2>2. Zeros(Len(message)) \in 0..Block - 1
    BY <2>1, ZerosIs, Zenon
  <2>. QED  BY <1>1, <2>2
<1>4. finalcount' \in Seq(Byte) /\ Len(finalcount') = LenField
  <2>1. cx.count \in Count2
    BY <1>1, Zenon DEF Holds, Well
  <2>2. PICK length \in Nat : length = cx.count[2] * Word + cx.count[1]
    <3>1. PICK a \in Nat, b \in Nat : a = cx.count[2] /\ b = cx.count[1]
      BY <2>1 DEF Count2
    <3>2. a * Word + b \in Nat
      OBVIOUS
    <3>. QED  BY <3>1, <3>2
  <2>3. finalcount' = LengthField(length)
    BY <2>2, Zenon DEF HashFinish
  <2>4. \A at \in 1..LenField : <<"length", length, at>> \in Byte
    <3> TAKE at \in 1..LenField
    <3>1. at \in Nat
      OBVIOUS
    <3>. QED  BY <3>1 DEF Byte
  <2>5. LengthField(length) \in Seq(Byte) /\ Len(LengthField(length)) = LenField
    BY <2>4 DEF LengthField
  <2>. QED  BY <2>3, <2>5
<1>5. EngineInv'
  BY <1>1, <1>2, <1>3, <1>4 DEF EngineInv
<1>6. ASSUME ExactInv PROVE ExactInv'
  <2>1. SUFFICES ASSUME Fits PROVE finalcount' = LengthField(8 * Len(message))
    BY <1>1 DEF ExactInv, Fits
  <2>2. BitsOf(cx.count) = 8 * Len(message)
    BY <1>1, <1>6, <2>1 DEF ExactInv
  <2>. QED  BY <2>2, Zenon DEF BitsOf, HashFinish
<1>. QED  BY <1>5, <1>6

\* How much of the buffer counts, in the padding.
LEMMA PaddingUses ==
  ASSUME EngineInv, NEW z \in 0..Zeros(Len(message)), Holds(cx, Ended(message, z))
  PROVE  FitsLength <=> z = Zeros(Len(message))
<1>1. message \in Seq(Byte)
  BY DEF EngineInv
<1>2. PICK n \in Nat : n = Len(message)
  BY <1>1, LenProperties
<1>3. z \in Nat /\ n + 1 + z \in Nat
  <2>1. Zeros(n) \in 0..Block - 1
    BY ZerosIs
  <2>. QED  BY <1>2, <2>1
<1>4. Len(Ended(message, z)) = n + 1 + z
  BY <1>1, <1>2, <1>3, SomeZeros
<1>5. Well(cx, n + 1 + z)
  BY <1>4, Zenon DEF Holds
<1>6. Used(cx) = (n + 1 + z) % Block
  BY <1>3, <1>5, UsedIs
<1>7. ((n + 1 + z) % Block = Block - LenField) <=> (z = Zeros(n))
  BY <1>2, ZerosIs
<1>. QED  BY <1>2, <1>6, <1>7 DEF FitsLength

\* ... the zeros, ...
LEMMA ZeroKeeps ==
  ASSUME EngineInv, PadZero
  PROVE  EngineInv' /\ (ExactInv => ExactInv')
<1>1. /\ pc = "zeros" /\ pc' = "zeros" /\ message' = message /\ message \in Seq(Byte)
      /\ cx' = Stepped(cx, <<Zero>>) /\ finalcount' = finalcount /\ ~FitsLength
  BY DEF PadZero, EngineInv
<1>2. PICK z \in 0..Zeros(Len(message)) : Holds(cx, Ended(message, z))
  BY <1>1 DEF EngineInv
<1>3. PICK n \in Nat : n = Len(message) /\ Zeros(n) \in 0..Block - 1
  BY <1>1, LenProperties, ZerosIs
<1>4. z # Zeros(n)
  BY <1>1, <1>2, <1>3, PaddingUses
<1>5. z \in Nat /\ z + 1 \in 0..Zeros(n)
  BY <1>3, <1>4
<1>6. Holds(cx', Ended(message, z + 1))
  <2>1. <<Zero>> \in Seq(Byte) /\ Ended(message, z) \o <<Zero>> = Ended(message, z + 1)
    BY <1>1, <1>5, SomeZeros, Zenon
  <2>2. Holds(Stepped(cx, <<Zero>>), Ended(message, z) \o <<Zero>>)
    BY <1>2, <2>1, Feeds, Zenon
  <2>. QED  BY <1>1, <2>1, <2>2, Zenon
<1>7. EngineInv'
  BY <1>1, <1>3, <1>5, <1>6 DEF EngineInv
<1>8. ExactInv => ExactInv'
  BY <1>1 DEF ExactInv, Fits
<1>. QED  BY <1>7, <1>8

\* ... and the length.
LEMMA LengthKeeps ==
  ASSUME EngineInv, PadLength
  PROVE  EngineInv' /\ (ExactInv => ExactInv')
<1>1. /\ pc = "zeros" /\ pc' = "done" /\ message' = message /\ message \in Seq(Byte)
      /\ cx' = Stepped(cx, finalcount) /\ finalcount' = finalcount /\ FitsLength
      /\ finalcount \in Seq(Byte) /\ Len(finalcount) = LenField
  BY DEF PadLength, EngineInv
<1>2. PICK z \in 0..Zeros(Len(message)) : Holds(cx, Ended(message, z))
  BY <1>1 DEF EngineInv
<1>3. z = Zeros(Len(message))
  BY <1>1, <1>2, PaddingUses
<1>4. Holds(Stepped(cx, finalcount), Ended(message, z) \o finalcount)
  BY <1>1, <1>2, Feeds, Zenon
<1>5. EngineInv'
  BY <1>1, <1>3, <1>4 DEF EngineInv
<1>6. ExactInv => ExactInv'
  BY <1>1 DEF ExactInv, Fits
<1>. QED  BY <1>5, <1>6

\* hash_init of a context that was used.
LEMMA InitKeeps ==
  ASSUME EngineInv, HashInit
  PROVE  EngineInv' /\ ExactInv'
<1>1. /\ pc = "done" /\ pc' = "input" /\ message' = <<>>
      /\ cx' = [cx EXCEPT !.count = <<0, 0>>, !.state = <<>>]
  BY DEF HashInit
<1>2. cx \in [count : Count2, state : Seq(Byte), buffer : Seq(Byte)] /\ Len(cx.buffer) = Block
  BY <1>1, Zenon DEF EngineInv, Holds, Well
<1>3. /\ cx'.count = <<0, 0>> /\ cx'.state = <<>>
      /\ cx' \in [count : Count2, state : Seq(Byte), buffer : Seq(Byte)]
      /\ Len(cx'.buffer) = Block
  <2>1. <<0, 0>> \in Count2 /\ <<>> \in Seq(Byte)
    BY DEF Count2
  <2>2. PICK d \in [count : Count2, state : Seq(Byte), buffer : Seq(Byte)] :
          d = cx /\ Len(d.buffer) = Block
    BY <1>2
  <2> DEFINE e == [d EXCEPT !.count = <<0, 0>>, !.state = <<>>]
  <2>3. /\ e.count = <<0, 0>> /\ e.state = <<>> /\ e.buffer = d.buffer
        /\ e \in [count : Count2, state : Seq(Byte), buffer : Seq(Byte)]
    BY <2>1
  <2>4. cx' = e
    BY <1>1, <2>2, Zenon
  <2>. QED  BY <2>2, <2>3, <2>4, Zenon
<1>4. Holds(cx', <<>>) /\ BitsOf(cx'.count) = 0
  BY <1>3, Empty
<1>5. <<>> \in Seq(Byte) /\ Len(<<>>) = 0 /\ 8 * 0 = 0
  OBVIOUS
<1>. QED  BY <1>1, <1>4, <1>5 DEF EngineInv, ExactInv

LEMMA PaddingKeeps == EngineInv /\ Padding => EngineInv' /\ (ExactInv => ExactInv')
BY ZeroKeeps, LengthKeeps DEF Padding

LEMMA PieceIs ==
  ASSUME NEW from \in Nat, NEW len \in Nat
  PROVE  Piece(from, len) \in Seq(Byte) /\ Len(Piece(from, len)) = len
<1>1. \A at \in 1..len : <<"byte", from + at>> \in Byte
  <2> TAKE at \in 1..len
  <2>1. from + at \in Nat
    OBVIOUS
  <2>. QED  BY <2>1 DEF Byte
<1>. QED  BY <1>1 DEF Piece

\* A caller of the engine that cuts its messages as it likes.
LEMMA PiecesKeep ==
  ASSUME EngineInv, Pieces
  PROVE  /\ EngineInv'
         /\ ExactInv /\ 8 * MaxLen < Word => ExactInv'
<1>0. Len(message) \in Nat
  BY LenProperties DEF EngineInv
<1>1. ASSUME NEW len \in 0..MaxLen, HashStep(Piece(Len(message), len))
      PROVE  EngineInv' /\ (ExactInv /\ 8 * MaxLen < Word => ExactInv')
  <2>1. PICK data \in Seq(Byte) : data = Piece(Len(message), len) /\ Len(data) = len
    BY <1>0, PieceIs
  <2>2. HashStep(data)
    BY <1>1, <2>1, Zenon
  <2>3. 8 * MaxLen < Word => 8 * Len(data) < Word
    BY <2>1
  <2>. QED  BY <2>2, <2>3, StepKeeps, StepCounts
<1>2. CASE \E len \in 0..MaxLen : HashStep(Piece(Len(message), len))
  BY <1>1, <1>2, Zenon
<1>3. CASE HashFinish
  BY <1>3, FinishKeeps, Zenon
<1>4. CASE HashInit
  BY <1>4, InitKeeps, Zenon
<1>. QED  BY <1>2, <1>3, <1>4, Zenon DEF Pieces
-----------------------------------------------------------------------------
(* What the invariant says of the engine's properties.                     *)
LEMMA HoldsTypes ==
  ASSUME NEW c, NEW bytes, Holds(c, bytes)
  PROVE  c.count \in Count2 /\ Len(c.buffer) = Block /\ Len(c.state) % Block = 0
<1>1. PICK n \in Nat : n = Len(bytes)
  BY LenProperties DEF Holds
<1>2. c.count \in Count2 /\ Len(c.buffer) = Block /\ c.state \in Seq(Byte)
      /\ Len(c.state) + (n % Block) = n
  BY <1>1, Zenon DEF Holds, Well
<1>3. PICK q \in Nat, r \in 0..Block - 1 : n = Block * q + r /\ r = n % Block
  BY Quotient
<1>4. PICK x \in Nat : x = Block * q
  BY Grows
<1>5. Len(c.state) = x
  <2>1. PICK m \in Nat : m = Len(c.state)
    BY <1>2, LenProperties
  <2>2. m + r = n /\ n = x + r
    BY <1>2, <1>3, <1>4, <2>1, Zenon
  <2>. QED  BY <2>1, <2>2
<1>6. (Block * q + 0) % Block = 0
  <2>1. 0 \in 0..Block - 1
    OBVIOUS
  <2>. QED  BY <2>1, Unique, Zenon
<1>7. Block * q + 0 = x
  BY <1>4
<1>. QED  BY <1>2, <1>5, <1>6, <1>7, Zenon

LEMMA EngineTypes == EngineInv => EngineTypeOK
<1> SUFFICES ASSUME EngineInv PROVE EngineTypeOK
  OBVIOUS
<1>1. \E bytes : Holds(cx, bytes)
  BY DEF EngineInv
<1>2. cx.count \in Count2 /\ Len(cx.buffer) = Block /\ Len(cx.state) % Block = 0
  BY <1>1, HoldsTypes, Zenon
<1>. QED  BY <1>2, Zenon DEF EngineTypeOK, EngineInv, Count2

LEMMA InPlace == EngineInv => NothingMisplaced
BY Zenon DEF EngineInv, Holds, NothingMisplaced, Given, GivenTo

LEMMA RightBlocks == EngineInv /\ ExactInv /\ Fits => DigestIsSha1
<1> SUFFICES ASSUME EngineInv, ExactInv, Fits, pc = "done"
             PROVE  cx.state = Padded(message)
  BY DEF DigestIsSha1
<1>1. PICK n \in Nat : n = Len(message) /\ message \in Seq(Byte)
  BY LenProperties DEF EngineInv
<1>2. PICK z \in Nat : z = Zeros(n) /\ z \in 0..Zeros(n)
  BY <1>1, ZerosIs
<1>3. /\ finalcount \in Seq(Byte) /\ Len(finalcount) = LenField
      /\ finalcount = LengthField(8 * n) /\ Holds(cx, Ended(message, z) \o finalcount)
  BY <1>1, <1>2 DEF EngineInv, ExactInv
<1>4. PICK m \in Nat : m = n + 1 + z + LenField
                      /\ m = Len(Ended(message, z) \o finalcount)
  <2>1. Ended(message, z) \in Seq(Byte) /\ Len(Ended(message, z)) = n + 1 + z
    BY <1>1, SomeZeros
  <2>2. Len(Ended(message, z) \o finalcount) = Len(Ended(message, z)) + Len(finalcount)
    BY <1>3, <2>1, Joined
  <2>. QED  BY <1>3, <2>1, <2>2
<1>5. m % Block = 0
  <2>1. (n + 1 + z) % Block = Block - LenField
    BY <1>2, ZerosIs
  <2>2. PICK k \in Nat : k = n + 1 + z
    OBVIOUS
  <2>3. PICK q \in Nat, r \in 0..Block - 1 : k = Block * q + r /\ r = k % Block
    BY Quotient
  <2>4. PICK x \in Nat : x = Block * q
    BY Grows
  <2>5. m = x + Block
    <3>1. r = Block - LenField
      BY <2>1, <2>2, <2>3, Zenon
    <3>2. k = x + r
      BY <2>3, <2>4, Zenon
    <3>. QED  BY <1>4, <2>2, <3>1, <3>2
  <2>6. Block * (q + 1) + 0 = m
    BY <2>4, <2>5
  <2>7. (Block * (q + 1) + 0) % Block = 0
    <3>1. q + 1 \in Nat /\ 0 \in 0..Block - 1
      OBVIOUS
    <3>. QED  BY <3>1, Unique, Zenon
  <2>. QED  BY <2>6, <2>7, Zenon
<1>6. Well(cx, m)
  BY <1>3, <1>4, Zenon DEF Holds
<1>7. Used(cx) = 0
  BY <1>5, <1>6, UsedIs
<1>8. cx.state \in Seq(Byte)
  BY <1>6, Zenon DEF Well
<1>9. GivenTo(cx) = cx.state
  <2>1. SubSeq(cx.buffer, 1, 0) = <<>>
    BY SubSeqEmpty
  <2>2. cx.state \o <<>> = cx.state
    BY <1>8, ConcatEmptySeq
  <2>. QED  BY <1>7, <2>1, <2>2, Zenon DEF GivenTo
<1>10. Padded(message) = Ended(message, z) \o finalcount
  BY <1>1, <1>2, <1>3 DEF Padded, Ended, Some
<1>. QED  BY <1>3, <1>9, <1>10, Zenon DEF Holds

LEMMA EngineUnchanged ==
  ASSUME UNCHANGED engine
  PROVE  (EngineInv => EngineInv') /\ (ExactInv => ExactInv')
BY DEF engine, EngineInv, ExactInv, Holds, Fits
-----------------------------------------------------------------------------
(* The engine itself, whatever the sizes of blocks and words: however a    *)
(* message is cut into pieces, the blocks transformed are those of the     *)
(* padded message.  Two things are asked of the caller: no piece has as    *)
(* many bits as an unsigned int has values (the carry of hash_step, which  *)
(* Sha1LongStep.cfg shows wrong, is for shorter ones), and the message has *)
(* no more bits than the length field of SHA1 can say.                     *)
CallersInv == Len(message) <= MaxBytes

THEOREM AnyCut ==
  ASSUME 8 * MaxLen < Word, 8 * MaxBytes < Word * Word
  PROVE  EngineSpec => [](EngineTypeOK /\ NothingMisplaced /\ DigestIsSha1)
<1> DEFINE I == EngineInv /\ ExactInv /\ CallersInv
<1>1. EngineInit => I
  BY EngineStarts DEF EngineInit, CallersInv
<1>2. I /\ [Pieces \/ Padding]_engine => I'
  <2> SUFFICES ASSUME I, [Pieces \/ Padding]_engine PROVE I'
    OBVIOUS
  <2>1. CASE Pieces
    <3>1. EngineInv' /\ ExactInv'
      BY <2>1, PiecesKeep
    <3>2. CASE \E len \in 0..MaxLen : /\ Len(message) + len <= MaxBytes
                                     /\ HashStep(Piece(Len(message), len))
      <4>1. PICK len \in 0..MaxLen : /\ Len(message) + len <= MaxBytes
                                     /\ HashStep(Piece(Len(message), len))
        BY <3>2
      <4>2. message \in Seq(Byte) /\ Len(message) \in Nat
        BY LenProperties DEF EngineInv
      <4>3. PICK data \in Seq(Byte) : data = Piece(Len(message), len) /\ Len(data) = len
        BY <4>2, PieceIs
      <4>4. message' = message \o data
        BY <4>1, <4>3 DEF HashStep
      <4>5. Len(message \o data) = Len(message) + len
        BY <4>2, <4>3, Joined
      <4>. QED  BY <3>1, <4>1, <4>4, <4>5 DEF CallersInv
    <3>3. CASE HashFinish
      BY <3>1, <3>3 DEF HashFinish, CallersInv
    <3>4. CASE HashInit
      BY <3>1, <3>4 DEF HashInit, CallersInv
    <3>. QED  BY <2>1, <3>2, <3>3, <3>4 DEF Pieces
  <2>2. CASE Padding
    <3>1. EngineInv' /\ ExactInv'
      BY <2>2, PaddingKeeps
    <3>2. message' = message
      BY <2>2 DEF Padding, PadZero, PadLength
    <3>. QED  BY <3>1, <3>2 DEF CallersInv
  <2>3. CASE UNCHANGED engine
    BY <2>3, EngineUnchanged DEF engine, CallersInv
  <2>. QED  BY <2>1, <2>2, <2>3
<1>3. I => EngineTypeOK /\ NothingMisplaced /\ DigestIsSha1
  <2> SUFFICES ASSUME I PROVE EngineTypeOK /\ NothingMisplaced /\ DigestIsSha1
    OBVIOUS
  <2>1. Fits
    <3>1. PICK n \in Nat, t \in Nat : n = Len(message) /\ t = Word * Word
      BY Grows, LenProperties DEF EngineInv
    <3>2. n <= MaxBytes /\ 8 * MaxBytes < t
      BY <3>1 DEF CallersInv
    <3>. QED  BY <3>1, <3>2 DEF Fits
  <2>. QED  BY <2>1, EngineTypes, InPlace, RightBlocks
<1> HIDE DEF I
<1>. QED  BY <1>1, <1>2, <1>3, PTL DEF EngineSpec
-----------------------------------------------------------------------------
(* The encoding of sha1_query: what is hashed are bytes, and not too many. *)
LEMMA Smallest ==
  ASSUME NEW T, T \subseteq Nat, T # {}
  PROVE  \E m \in T : \A n \in T : m <= n
<1>1. PICK m \in T : \A n \in T : ~(<<n, m>> \in OpToRel(<, Nat))
  BY NatLessThanWellFounded, WFMin
<1>2. \A n \in T : ~(n < m)
  BY <1>1 DEF OpToRel
<1>. QED  BY <1>2

LEMMA Induction ==
  ASSUME NEW S, 0 \in S, \A n \in Nat : n \in S => n + 1 \in S
  PROVE  Nat \subseteq S
<1> SUFFICES ASSUME Nat \ S # {} PROVE FALSE
  OBVIOUS
<1>1. PICK m \in Nat \ S : \A n \in Nat \ S : m <= n
  BY Smallest
<1>2. m # 0 /\ m - 1 \in Nat /\ m - 1 \in S
  BY <1>1
<1>. QED  BY <1>1, <1>2

Flat(items) ==
  LET bytes[k \in 0..Len(items)] ==
        IF k = 0 THEN <<>> ELSE bytes[k - 1] \o Encoded(items[k])
  IN bytes[Len(items)]

\* The longest encoding of one item.
Longest == MaxText + 3
Short(chars) == chars \in Seq(Character) /\ Len(chars) <= Longest

\* The encodings of the first items, one after the other.
Flats(f, items, n) == f[0] = <<>> /\ \A k \in 1..n : f[k] = f[k - 1] \o Encoded(items[k])

LEMMA FlatDef ==
  ASSUME NEW items, NEW n \in Nat, n = Len(items)
  PROVE  \E f : Flats(f, items, n) /\ Flat(items) = f[n]
<1> DEFINE At(f, k) == IF k = 0 THEN <<>> ELSE f[k - 1] \o Encoded(items[k])
           S == {m \in Nat : \E f : f = [k \in 0..m |-> At(f, k)]}
           bytes == CHOOSE f : f = [k \in 0..n |-> At(f, k)]
<1>1. 0 \in S
  <2> DEFINE f == [k \in 0..0 |-> <<>>]
  <2>1. \A k \in 0..0 : At(f, k) = <<>>
    OBVIOUS
  <2>2. f = [k \in 0..0 |-> At(f, k)]
    BY <2>1
  <2> HIDE DEF f
  <2>. QED  BY <2>2
<1>2. ASSUME NEW m \in Nat, m \in S
      PROVE  m + 1 \in S
  <2>1. PICK f : f = [k \in 0..m |-> At(f, k)]
    BY <1>2
  <2> DEFINE g == [k \in 0..(m + 1) |-> IF k = m + 1 THEN At(f, k) ELSE f[k]]
  <2>2. \A k \in 0..(m + 1) : g[k] = At(g, k)
    <3> TAKE k \in 0..(m + 1)
    <3>1. k # 0 => k - 1 \in 0..m /\ g[k - 1] = f[k - 1]
      OBVIOUS
    <3>2. k # m + 1 => f[k] = At(f, k)
      BY <2>1
    <3>3. At(f, k) = At(g, k)
      BY <3>1
    <3>4. g[k] = IF k = m + 1 THEN At(f, k) ELSE f[k]
      OBVIOUS
    <3> HIDE DEF At, g
    <3>. QED  BY <3>2, <3>3, <3>4
  <2>3. g = [k \in 0..(m + 1) |-> g[k]]
    OBVIOUS
  <2> HIDE DEF g, At
  <2>4. g = [k \in 0..(m + 1) |-> At(g, k)]
    BY <2>2, <2>3
  <2>5. m + 1 \in Nat /\ \E h : h = [k \in 0..(m + 1) |-> At(h, k)]
    BY <2>4
  <2>. QED  BY <2>5
<1> HIDE DEF S
<1>3. n \in S
  BY <1>1, <1>2, Induction
<1>4. bytes = [k \in 0..n |-> At(bytes, k)]
  BY <1>3 DEF S
<1>5. Flat(items) = bytes[n]
  BY DEF Flat
<1> HIDE DEF bytes
<1>6. Flats(bytes, items, n)
  <2> HIDE DEF At
  <2>1. \A k \in 0..n : bytes[k] = At(bytes, k)
    BY <1>4, Zenon
  <2>2. 0 \in 0..n /\ \A k \in 1..n : k \in 0..n /\ k # 0
    OBVIOUS
  <2>. QED  BY <2>1, <2>2, Zenon DEF At, Flats
<1>. QED  BY <1>5, <1>6

LEMMA FlatsAre ==
  ASSUME NEW items, NEW n \in Nat, \A k \in 1..n : Short(Encoded(items[k])),
         NEW f, Flats(f, items, n)
  PROVE  \A m \in 0..n : f[m] \in Seq(Character) /\ Len(f[m]) <= m * Longest
<1> DEFINE T == {m \in Nat : m <= n => /\ f[m] \in Seq(Character)
                                      /\ Len(f[m]) <= m * Longest}
<1>1. Longest \in Nat
  BY Sha1FunctionsAssumption DEF Longest
<1>2. 0 \in T
  <2>1. <<>> \in Seq(Character) /\ Len(<<>>) = 0 /\ 0 * Longest = 0
    BY <1>1
  <2>2. f[0] \in Seq(Character) /\ Len(f[0]) <= 0 * Longest
    BY <2>1 DEF Flats
  <2>. QED  BY <2>2
<1>3. ASSUME NEW m \in Nat, m \in T
      PROVE  m + 1 \in T
  <2>1. SUFFICES ASSUME m + 1 <= n
                 PROVE  f[m + 1] \in Seq(Character) /\ Len(f[m + 1]) <= (m + 1) * Longest
    OBVIOUS
  <2>2. PICK old \in Seq(Character) : old = f[m] /\ Len(old) <= m * Longest
    BY <1>3, <2>1
  <2>3. PICK more \in Seq(Character) : more = Encoded(items[m + 1]) /\ Len(more) <= Longest
    BY <2>1 DEF Short
  <2>4. f[m + 1] = old \o more
    <3>1. m + 1 \in 1..n /\ (m + 1) - 1 = m
      BY <2>1
    <3>. QED  BY <2>2, <2>3, <3>1, Zenon DEF Flats
  <2>5. old \o more \in Seq(Character) /\ Len(old \o more) = Len(old) + Len(more)
        /\ Len(old) \in Nat /\ Len(more) \in Nat
    BY Joined
  <2>6. PICK x \in Nat : x = m * Longest /\ (m + 1) * Longest = x + Longest
    <3>1. m * Longest \in Nat /\ (m + 1) * Longest = m * Longest + Longest
      BY <1>1
    <3>. QED  BY <3>1
  <2>7. Len(old) + Len(more) <= x + Longest
    <3>1. PICK a \in Nat, b \in Nat, c \in Nat : /\ a = Len(old) /\ b = Len(more)
                                              /\ c = Longest /\ a <= x /\ b <= c
      BY <1>1, <2>2, <2>3, <2>5, <2>6, Zenon
    <3>2. a + b <= x + c
      BY <3>1
    <3>. QED  BY <3>1, <3>2, Zenon
  <2>. QED  BY <2>4, <2>5, <2>6, <2>7
<1> HIDE DEF T
<1>4. Nat \subseteq T
  BY <1>2, <1>3, Induction
<1>. QED  BY <1>4 DEF T

LEMMA FlatIs ==
  ASSUME NEW items, NEW n \in Nat, n = Len(items), \A k \in 1..n : Short(Encoded(items[k]))
  PROVE  Flat(items) \in Seq(Character) /\ Len(Flat(items)) <= n * Longest
<1>1. PICK f : Flats(f, items, n) /\ Flat(items) = f[n]
  BY FlatDef
<1>2. n \in 0..n
  OBVIOUS
<1>. QED  BY <1>1, <1>2, FlatsAre

LEMMA EncodedIsShort ==
  ASSUME NEW mark \in Marks, NEW x \in Seq(Alphabet), Len(x) <= MaxText
  PROVE  Short(Encoded(Item(mark, x)))
<1>1. PICK n \in 0..9 : n = Len(x) /\ n <= MaxText /\ Longest = MaxText + 3 /\ MaxText \in Nat
  <2>1. Len(Digits) = 9
    BY DEF Digits
  <2>2. MaxText \in 1..9
    BY <2>1, Sha1FunctionsAssumption, Zenon
  <2>3. PICK n \in Nat : n = Len(x)
    BY LenProperties
  <2>4. n \in 0..9 /\ n <= MaxText /\ MaxText \in Nat
    <3>1. n <= MaxText /\ n \in Nat
      BY <2>3
    <3>. QED  BY ONLY <2>2, <3>1
  <2>. QED  BY <2>3, <2>4 DEF Longest
<1>2. x \in Seq(Character) /\ mark \in Character
  BY DEF Character
<1>3. "0" \in Character /\ ":" \in Character
  BY DEF Character, Marks
<1>4. CASE mark \notin {"S", "T", "B"}
  <2>1. Encoded(Item(mark, x)) = <<mark>> \o x
    BY <1>4 DEF Encoded, Item
  <2>2. <<mark>> \in Seq(Character) /\ Len(<<mark>>) = 1
    BY <1>2
  <2>3. <<mark>> \o x \in Seq(Character) /\ Len(<<mark>> \o x) = 1 + n
    BY <1>1, <1>2, <2>2, Joined
  <2>. QED  BY <1>1, <2>1, <2>3 DEF Short
<1>5. CASE mark \in {"S", "T", "B"} /\ x = <<>>
  <2>1. Encoded(Item(mark, x)) = <<mark, "0", ":">>
    BY <1>5 DEF Encoded, Item
  <2>2. <<mark, "0", ":">> \in Seq(Character) /\ Len(<<mark, "0", ":">>) = 3
    BY <1>2, <1>3
  <2>. QED  BY <1>1, <2>1, <2>2 DEF Short
<1>6. CASE mark \in {"S", "T", "B"} /\ x # <<>>
  <2>1. Encoded(Item(mark, x)) = <<mark, Digits[Len(x)], ":">> \o x
    BY <1>6 DEF Encoded, Item
  <2>2. PICK d \in Character : d = Digits[Len(x)]
    <3>1. n \in 1..9
      <4>1. n # 0
        BY <1>1, <1>6, EmptySeq
      <4>. QED  BY <4>1
    <3>2. Digits[n] \in {Digits[k] : k \in 1..9}
      BY <3>1
    <3>. QED  BY <1>1, <3>2, Zenon DEF Character
  <2>3. <<mark, d, ":">> \in Seq(Character) /\ Len(<<mark, d, ":">>) = 3
    BY <1>2, <1>3
  <2>4. <<mark, d, ":">> \o x \in Seq(Character) /\ Len(<<mark, d, ":">> \o x) = 3 + n
    BY <1>1, <1>2, <2>3, Joined
  <2>. QED  BY <1>1, <2>1, <2>2, <2>4 DEF Short
<1>. QED  BY <1>4, <1>5, <1>6

LEMMA TextsAre ==
  /\ \A x \in Texts : x \in Seq(Alphabet) /\ Len(x) <= MaxText
  /\ \A x \in Sqls : x \in Seq(Alphabet) /\ Len(x) <= MaxText
BY Sha1FunctionsAssumption DEF Texts, Sqls

LEMMA ItemsAreShort ==
  /\ \A item \in Values : Short(Encoded(item))
  /\ Short(Encoded(Row))
  /\ \A sql \in Sqls : Short(Encoded(Item("S", sql)))
<1>1. <<>> \in Seq(Alphabet) /\ Len(<<>>) <= MaxText
  BY Sha1FunctionsAssumption
<1>2. {"N", "I", "F", "T", "B", "R", "S"} \subseteq Marks
  BY DEF Marks
<1>3. ASSUME NEW item \in Values PROVE Short(Encoded(item))
  <2> DEFINE Number == {Item(t, <<c>>) : t \in {"I", "F"}, c \in Alphabet}
             String == {Item(t, x) : t \in {"T", "B"}, x \in Texts}
  <2>1. CASE item = Item("N", <<>>)
    BY <1>1, <1>2, <2>1, EncodedIsShort
  <2>2. CASE item \in Number
    <3>1. PICK t \in {"I", "F"}, c \in Alphabet : item = Item(t, <<c>>)
      BY <2>2
    <3>2. <<c>> \in Seq(Alphabet) /\ Len(<<c>>) <= MaxText
      BY Sha1FunctionsAssumption
    <3>3. t \in Marks
      BY <1>2
    <3>4. Short(Encoded(Item(t, <<c>>)))
      BY <3>2, <3>3, EncodedIsShort
    <3>. QED  BY <3>1, <3>4, Zenon
  <2>3. CASE item \in String
    <3>1. PICK t \in {"T", "B"}, x \in Texts : item = Item(t, x)
      BY <2>3
    <3>2. x \in Seq(Alphabet) /\ Len(x) <= MaxText
      BY TextsAre
    <3>3. t \in Marks
      BY <1>2
    <3>4. Short(Encoded(Item(t, x)))
      BY <3>2, <3>3, EncodedIsShort
    <3>. QED  BY <3>1, <3>4, Zenon
  <2>4. Values = {Item("N", <<>>)} \cup Number \cup String
    BY DEF Values
  <2> HIDE DEF Number, String
  <2>. QED  BY <2>1, <2>2, <2>3, <2>4, Zenon
<1>4. Short(Encoded(Row))
  BY <1>1, <1>2, EncodedIsShort DEF Row
<1>5. \A sql \in Sqls : Short(Encoded(Item("S", sql)))
  BY <1>2, TextsAre, EncodedIsShort
<1>. QED  BY <1>3, <1>4, <1>5

LEMMA BytesAre ==
  ASSUME NEW chars \in Seq(Character)
  PROVE  Bytes(chars) \in Seq(Byte) /\ Len(Bytes(chars)) = Len(chars)
<1>1. Len(chars) \in Nat /\ \A at \in 1..Len(chars) : chars[at] \in Character
  BY LenProperties, ElementOfSeq
<1>2. \A at \in 1..Len(chars) : <<chars[at]>> \in Byte
  BY <1>1, NamedByte
<1>. QED  BY <1>1, <1>2 DEF Bytes

LEMMA HashKeeps ==
  ASSUME EngineInv, NEW items, NEW n \in Nat, n = Len(items),
         \A k \in 1..n : Short(Encoded(items[k])), Hash(items)
  PROVE  /\ EngineInv'
         /\ ExactInv /\ 8 * (n * Longest) < Word => ExactInv'
<1>1. Flat(items) \in Seq(Character) /\ Len(Flat(items)) <= n * Longest
  BY FlatIs
<1>2. PICK data \in Seq(Byte) : data = Bytes(Flat(items)) /\ Len(data) <= n * Longest
  BY <1>1, BytesAre
<1>3. HashStep(data)
  BY <1>2, Zenon DEF Hash, Flat
<1>4. 8 * (n * Longest) < Word => 8 * Len(data) < Word
  <2>1. PICK m \in Nat, x \in Int : m = Len(data) /\ x = n * Longest /\ m <= x
    <3>1. n * Longest \in Int /\ Len(data) \in Nat
      BY Sha1FunctionsAssumption, LenProperties DEF Longest
    <3>. QED  BY <1>2, <3>1
  <2>2. 8 * x < Word => 8 * m < Word
    BY <2>1
  <2>. QED  BY <2>1, <2>2, Zenon
<1>. QED  BY <1>3, <1>4, StepKeeps, StepCounts, Zenon
-----------------------------------------------------------------------------
(* The SQL functions.  No step is longer than a row, a text or a piece.    *)
StepsFit == 8 * MaxLen < Word /\ 8 * ((1 + MaxColumns) * Longest) < Word

FunctionsInv ==
  /\ registered \subseteq {"sha1", "sha1_query"}
  /\ caller \in {"none", "pieces"} \cup registered
  /\ left \in 0..MaxStatements /\ nCol \in {NoStatement} \cup 0..MaxColumns
  /\ failed \in BOOLEAN /\ result \in {"none", "NULL", "error", "crash"}

EngineKept == EngineInv' /\ (ExactInv /\ StepsFit => ExactInv')

LEMMA Sha1StepKeeps ==
  ASSUME EngineInv, Sha1Step
  PROVE  EngineKept
<1>1. PICK x \in Texts : HashStep(Bytes(x))
  BY Zenon DEF Sha1Step
<1>2. x \in Seq(Character) /\ Len(x) <= MaxText
  <2>1. x \in Seq(Alphabet) /\ Len(x) <= MaxText
    BY TextsAre
  <2>. QED  BY <2>1 DEF Character
<1>3. PICK data \in Seq(Byte) : data = Bytes(x) /\ Len(data) <= MaxText
  BY <1>2, BytesAre
<1>4. HashStep(data)
  BY <1>1, <1>3, Zenon
<1>5. ASSUME StepsFit PROVE 8 * Len(data) < Word
  <2>1. MaxText \in Nat /\ Longest \in Nat /\ Longest = MaxText + 3 /\ MaxColumns \in Nat
    BY Sha1FunctionsAssumption DEF Longest
  <2>2. PICK y \in Nat : y = MaxColumns * Longest /\ (1 + MaxColumns) * Longest = Longest + y
    <3>1. MaxColumns * Longest \in Nat
          /\ (1 + MaxColumns) * Longest = Longest + MaxColumns * Longest
      BY <2>1
    <3>. QED  BY <3>1
  <2>3. PICK m \in Nat : m = Len(data) /\ m <= MaxText
    BY <1>3, LenProperties
  <2>4. 8 * (Longest + y) < Word
    BY <1>5, <2>2, Zenon DEF StepsFit
  <2>. QED  BY <2>1, <2>3, <2>4
<1>. QED  BY <1>4, <1>5, StepKeeps, StepCounts, Zenon DEF EngineKept

LEMMA CompileKeeps ==
  ASSUME EngineInv, Compile
  PROVE  EngineKept
<1>1. PICK sql \in Sqls : Hash(<<Item("S", sql)>>)
  BY Zenon DEF Compile
<1>2. PICK items : items = <<Item("S", sql)>> /\ Len(items) = 1 /\ items[1] = Item("S", sql)
  <2>1. PICK items : items = <<Item("S", sql)>>
    OBVIOUS
  <2>2. Len(items) = 1 /\ items[1] = Item("S", sql)
    BY <2>1
  <2>. QED  BY <2>1, <2>2
<1>3. \A k \in 1..1 : Short(Encoded(items[k]))
  BY <1>2, ItemsAreShort
<1>4. EngineInv' /\ (ExactInv /\ 8 * (1 * Longest) < Word => ExactInv')
  <2>1. 1 \in Nat /\ Hash(items)
    BY <1>1, <1>2, Zenon
  <2>. QED  BY <1>2, <1>3, <2>1, HashKeeps, Zenon
<1>5. ASSUME StepsFit PROVE 8 * (1 * Longest) < Word
  <2>1. Longest \in Nat /\ MaxColumns \in Nat
    BY Sha1FunctionsAssumption DEF Longest
  <2>2. PICK y \in Nat : y = MaxColumns * Longest /\ (1 + MaxColumns) * Longest = Longest + y
    <3>1. MaxColumns * Longest \in Nat
          /\ (1 + MaxColumns) * Longest = Longest + MaxColumns * Longest
      BY <2>1
    <3>. QED  BY <3>1
  <2>3. 8 * (Longest + y) < Word
    BY <1>5, <2>2, Zenon DEF StepsFit
  <2>. QED  BY <2>1, <2>3
<1>. QED  BY <1>4, <1>5, Zenon DEF EngineKept

LEMMA StepRowKeeps ==
  ASSUME EngineInv, FunctionsInv, StepRow
  PROVE  EngineKept
<1>1. PICK n \in 1..MaxColumns : n = nCol
  BY DEF FunctionsInv, StepRow, NoStatement
<1>2. PICK row \in [1..n -> Values] : Hash(<<Row>> \o row)
  BY <1>1 DEF StepRow, Rows
<1>3. PICK items : /\ items = <<Row>> \o row /\ Len(items) = 1 + n
                   /\ \A k \in 1..1 + n : items[k] = Row \/ items[k] \in Values
  <2> DEFINE S == {Row} \cup Values
  <2>1. <<Row>> \in Seq(S) /\ Len(<<Row>>) = 1
    OBVIOUS
  <2>2. row \in Seq(S) /\ Len(row) = n
    OBVIOUS
  <2>3. PICK s \in Seq(S), t \in Seq(S) : s = <<Row>> /\ t = row /\ Len(s) = 1 /\ Len(t) = n
    BY <2>1, <2>2
  <2>4. s \o t \in Seq(S) /\ Len(s \o t) = 1 + n
    BY <2>3, Joined
  <2>5. \A k \in 1..1 + n : (s \o t)[k] \in S
    BY <2>4, ElementOfSeq
  <2>. QED  BY <2>3, <2>4, <2>5
<1>4. \A k \in 1..1 + n : Short(Encoded(items[k]))
  BY <1>3, ItemsAreShort
<1>5. EngineInv' /\ (ExactInv /\ 8 * ((1 + n) * Longest) < Word => ExactInv')
  <2>1. 1 + n \in Nat
    OBVIOUS
  <2>2. Hash(items)
    BY <1>2, <1>3, Zenon
  <2>. QED  BY <1>3, <1>4, <2>1, <2>2, HashKeeps
<1>6. ASSUME StepsFit PROVE 8 * ((1 + n) * Longest) < Word
  <2>1. Longest \in Nat \ {0} /\ MaxColumns \in Nat
    BY Sha1FunctionsAssumption DEF Longest
  <2>2. Longest * (1 + n) <= Longest * (1 + MaxColumns)
    BY <2>1, Grows
  <2>3. PICK x \in Int, y \in Int : x = (1 + n) * Longest /\ y = (1 + MaxColumns) * Longest
                                /\ x <= y
    <3>1. (1 + n) * Longest = Longest * (1 + n)
          /\ (1 + MaxColumns) * Longest = Longest * (1 + MaxColumns)
          /\ (1 + n) * Longest \in Int /\ (1 + MaxColumns) * Longest \in Int
      BY <2>1
    <3>. QED  BY <2>2, <3>1
  <2>4. 8 * y < Word
    BY <1>6, <2>3, Zenon DEF StepsFit
  <2>5. 8 * x < Word
    BY <2>3, <2>4
  <2>. QED  BY <2>3, <2>5, Zenon
<1>. QED  BY <1>5, <1>6, Zenon DEF EngineKept

LEMMA EngineStep == EngineInv /\ FunctionsInv /\ [Next]_vars => EngineKept
<1> SUFFICES ASSUME EngineInv, FunctionsInv, [Next]_vars PROVE EngineKept
  OBVIOUS
<1>1. CASE UNCHANGED engine
  BY <1>1, EngineUnchanged, Zenon DEF EngineKept
<1>2. CASE Sha1Step
  BY <1>2, Sha1StepKeeps
<1>3. CASE Compile
  BY <1>3, CompileKeeps
<1>4. CASE StepRow
  BY <1>4, StepRowKeeps
<1>5. CASE Finish
  BY <1>5, FinishKeeps DEF Finish, EngineKept
<1>6. CASE EngineAlone
  <2>1. CASE Padding
    BY <2>1, PaddingKeeps DEF EngineKept
  <2>2. CASE Pieces
    BY <2>2, PiecesKeep DEF EngineKept, StepsFit
  <2>. QED  BY <1>6, <2>1, <2>2 DEF EngineAlone
<1>7. sqlite3_sha_init \/ (\E f \in registered \cup {"pieces"} : Call(f)) \/ Reject \/ StepEnds
        => UNCHANGED engine
  BY DEF sqlite3_sha_init, Call, Reject, StepEnds
<1>8. UNCHANGED vars => UNCHANGED engine
  BY DEF vars
<1>. QED  BY <1>1, <1>2, <1>3, <1>4, <1>5, <1>6, <1>7, <1>8, Zenon DEF Next

LEMMA FunctionsStart == Init => FunctionsInv
<1>1. 0 \in 0..MaxStatements
  BY Sha1FunctionsAssumption
<1>. QED  BY <1>1, Zenon DEF Init, FunctionsInv

LEMMA FunctionsStep == FunctionsInv /\ [Next]_vars => FunctionsInv'
<1> SUFFICES ASSUME FunctionsInv, [Next]_vars PROVE FunctionsInv'
  OBVIOUS
<1>0. /\ registered \subseteq {"sha1", "sha1_query"}
      /\ caller \in {"none", "pieces"} \cup registered
      /\ left \in 0..MaxStatements /\ nCol \in {NoStatement} \cup 0..MaxColumns
      /\ failed \in BOOLEAN /\ result \in {"none", "NULL", "error", "crash"}
  BY DEF FunctionsInv
<1>a. MaxStatements \in Nat /\ MaxColumns \in Nat
  BY Sha1FunctionsAssumption
<1>1. CASE sqlite3_sha_init
  BY <1>0, <1>1 DEF sqlite3_sha_init, query, FunctionsInv
<1>2. ASSUME NEW f \in registered \cup {"pieces"}, Call(f) PROVE FunctionsInv'
  BY <1>0, <1>a, <1>2 DEF Call, FunctionsInv
<1>3. CASE Sha1Step
  BY <1>0, <1>3 DEF Sha1Step, query, FunctionsInv
<1>4. CASE Compile
  <2>1. left' \in 0..MaxStatements /\ nCol' \in 0..MaxColumns
    BY <1>0, <1>a, <1>4 DEF Compile
  <2>. QED  BY <1>0, <1>4, <2>1 DEF Compile, FunctionsInv
<1>5. CASE Reject
  BY <1>0, <1>5 DEF Reject, query, FunctionsInv
<1>6. CASE StepRow
  BY <1>0, <1>6 DEF StepRow, query, FunctionsInv
<1>7. CASE StepEnds
  <2>1. nCol' = NoStatement
    BY <1>7 DEF StepEnds
  <2>2. failed' \in BOOLEAN
    BY <1>0, <1>7, Zenon DEF StepEnds
  <2>3. UNCHANGED <<registered, caller, left, result>>
    BY <1>7 DEF StepEnds
  <2>. QED  BY <1>0, <2>1, <2>2, <2>3, Zenon DEF FunctionsInv
<1>8. CASE Finish \/ EngineAlone \/ UNCHANGED vars
  <2>1. UNCHANGED <<registered, caller, left, nCol, failed, result>>
    BY <1>8, Zenon DEF Finish, EngineAlone, vars, query
  <2>. QED  BY <1>0, <2>1, Zenon DEF FunctionsInv
<1>. QED  BY <1>1, <1>2, <1>3, <1>4, <1>5, <1>6, <1>7, <1>8 DEF Next

LEMMA FunctionsInvariance == Spec => [](EngineInv /\ FunctionsInv)
<1>1. Init => EngineInv /\ FunctionsInv
  BY EngineStarts, FunctionsStart DEF Init
<1>2. EngineInv /\ FunctionsInv /\ [Next]_vars => EngineInv' /\ FunctionsInv'
  BY EngineStep, FunctionsStep DEF EngineKept
<1>. QED  BY <1>1, <1>2, PTL DEF Spec

(* The types of the engine and of the functions that use it: in particular *)
(* only whole blocks are transformed, and the buffer is never overrun.     *)
THEOREM FunctionTypes == Spec => []TypeOK
<1>1. EngineInv /\ FunctionsInv => TypeOK
  BY EngineTypes DEF FunctionsInv, TypeOK
<1>. QED  BY <1>1, FunctionsInvariance, PTL

(* Nothing that a function or another caller gives to hash_step is lost,   *)
(* doubled or moved, whatever the lengths: not even when the counter of    *)
(* bits wraps, or loses a carry.                                           *)
THEOREM NothingLost == Spec => []NothingMisplaced
<1>1. EngineInv => NothingMisplaced
  BY InPlace
<1>. QED  BY <1>1, FunctionsInvariance, PTL

(* When no step is as long as the carry of hash_step can count, the blocks *)
(* a digest is made of are those of the padded message, for every message  *)
(* whose length SHA1 can say.                                              *)
THEOREM RightDigest ==
  ASSUME StepsFit
  PROVE  Spec => [](Fits => DigestIsSha1)
<1> DEFINE I == EngineInv /\ FunctionsInv /\ ExactInv
<1>1. Init => I
  BY EngineStarts, FunctionsStart DEF Init
<1>2. I /\ [Next]_vars => I'
  BY EngineStep, FunctionsStep DEF EngineKept
<1>3. I => (Fits => DigestIsSha1)
  BY RightBlocks
<1> HIDE DEF I
<1>. QED  BY <1>1, <1>2, <1>3, PTL DEF Spec
-----------------------------------------------------------------------------
(* The encoding of sha1_query can be read back.                            *)
\* What the reader makes of one item of a text.
Reads(chars, at, item, next) ==
  /\ at \in 1..Len(chars) /\ ItemAt(chars, at) = item
  /\ next = at + SizeAt(chars, at) /\ next <= Len(chars) + 1

\* The text is that of the items: it is known where each of them begins.
Spells(chars, items) ==
  /\ chars \in Seq(Character)
  /\ \E place \in [0..Len(items) -> Nat] :
       /\ place[0] = 1 /\ place[Len(items)] = Len(chars) + 1
       /\ \A k \in 1..Len(items) : Reads(chars, place[k - 1], items[k], place[k])

LEMMA DigitsAre ==
  /\ \A d : Length(d) \in 0..9
  /\ \A n \in 1..9 : Length(Digits[n]) = n
  /\ Length("0") = 0
<1>1. Len(Digits) = 9
  BY DEF Digits
<1>2. \A n, m \in 1..9 : Digits[n] = Digits[m] => n = m
  BY DEF Digits
<1>3. \A n \in 1..9 : Digits[n] # "0"
  BY DEF Digits
<1>. QED  BY <1>1, <1>2, <1>3 DEF Length

LEMMA SizesAre ==
  ASSUME NEW chars, NEW at
  PROVE  SizeAt(chars, at) \in 1..12
<1>1. PICK n \in 0..9 : n = LengthAt(chars, at)
  BY DigitsAre DEF LengthAt
<1>. QED  BY <1>1 DEF SizeAt

\* What the reader makes of a text from each position on.
Reader(f, chars) ==
  /\ f[Len(chars) + 1] = <<>>
  /\ \A at \in 1..Len(chars) : f[at] = <<ItemAt(chars, at)>> \o f[at + SizeAt(chars, at)]

LEMMA DecodedDef ==
  ASSUME NEW chars \in Seq(Character)
  PROVE  \E f : Reader(f, chars) /\ Decoded(chars) = f[1]
<1> DEFINE At(f, at) ==
      IF at > Len(chars) THEN <<>>
      ELSE <<ItemAt(chars, at)>> \o f[at + SizeAt(chars, at)]
<1> DEFINE from[at \in 1..Len(chars) + 12] ==
             IF at > Len(chars) THEN <<>>
             ELSE <<ItemAt(chars, at)>> \o from[at + SizeAt(chars, at)]
<1>1. PICK l \in Nat : l = Len(chars)
  BY LenProperties
<1> DEFINE S == {j \in Nat : j <= l + 12 =>
                   \E f : \A at \in 1..l + 12 : at + j > l + 12 => f[at] = At(f, at)}
<1>2. 0 \in S
  OBVIOUS
<1>3. ASSUME NEW j \in Nat, j \in S PROVE j + 1 \in S
  <2>1. SUFFICES ASSUME j + 1 <= l + 12
                 PROVE  \E f : \A at \in 1..l + 12 : at + (j + 1) > l + 12 => f[at] = At(f, at)
    OBVIOUS
  <2>2. PICK f : \A at \in 1..l + 12 : at + j > l + 12 => f[at] = At(f, at)
    <3>1. j <= l + 12
      BY <2>1
    <3> HIDE DEF At
    <3>. QED  BY <1>3, <3>1, Zenon
  <2>3. PICK new \in 1..l + 12 : new + j = l + 12
    <3>1. (l + 12) - j \in 1..l + 12 /\ ((l + 12) - j) + j = l + 12
      BY <2>1
    <3>. QED  BY <3>1
  <2> DEFINE g == [at \in 1..l + 12 |-> IF at = new THEN At(f, at) ELSE f[at]]
  <2>4. \A at \in 1..l + 12 : at + (j + 1) > l + 12 => g[at] = At(g, at)
    <3> TAKE at \in 1..l + 12
    <3>1. HAVE at + (j + 1) > l + 12
    <3>2. at >= new /\ (at # new => at + j > l + 12)
      BY <2>3, <3>1
    <3>3. at <= Len(chars) => /\ at + SizeAt(chars, at) \in 1..l + 12
                              /\ at + SizeAt(chars, at) # new
      <4> HAVE at <= Len(chars)
      <4>1. PICK size \in 1..12 : size = SizeAt(chars, at)
        BY SizesAre
      <4>2. at <= l
        BY <1>1, Zenon
      <4>3. at + size \in 1..l + 12 /\ at + size # new
        BY <3>2, <4>2
      <4>. QED  BY <4>1, <4>3, Zenon
    <3>4. at <= Len(chars) => g[at + SizeAt(chars, at)] = f[at + SizeAt(chars, at)]
      BY <3>3
    <3>5. At(g, at) = At(f, at)
      <4>1. at <= Len(chars) \/ at > Len(chars)
        BY <1>1
      <4>2. CASE at > Len(chars)
        BY <4>2
      <4>3. CASE at <= Len(chars)
        <5> HIDE DEF g
        <5>. QED  BY <3>4, <4>3, Zenon
      <4>. QED  BY <4>1, <4>2, <4>3
    <3>6. g[at] = IF at = new THEN At(f, at) ELSE f[at]
      OBVIOUS
    <3>7. at # new => f[at] = At(f, at)
      BY <2>2, <3>2
    <3> HIDE DEF At, g
    <3>. QED  BY <3>5, <3>6, <3>7, Zenon
  <2> HIDE DEF g, At
  <2>. QED  BY <2>4
<1> HIDE DEF S, At
<1>4. l + 12 \in S
  BY <1>2, <1>3, Induction
<1>5. PICK h : \A at \in 1..l + 12 : h[at] = At(h, at)
  BY <1>4 DEF S
<1> DEFINE k == [at \in 1..l + 12 |-> h[at]]
<1>6. k = [at \in 1..Len(chars) + 12 |-> At(k, at)]
  <2>1. \A at \in 1..l + 12 : At(h, at) = At(k, at)
    <3> TAKE at \in 1..l + 12
    <3>1. at <= Len(chars) => at + SizeAt(chars, at) \in 1..l + 12
      <4>1. PICK size \in 1..12 : size = SizeAt(chars, at)
        BY SizesAre
      <4>. QED  BY <1>1, <4>1
    <3>2. at <= Len(chars) => k[at + SizeAt(chars, at)] = h[at + SizeAt(chars, at)]
      BY <3>1
    <3>3. at <= Len(chars) \/ at > Len(chars)
      BY <1>1
    <3> HIDE DEF k
    <3>4. CASE at > Len(chars)
      BY <3>4, Zenon DEF At
    <3>5. CASE at <= Len(chars)
      <4>1. ~(at > Len(chars))
        BY <1>1, <3>5
      <4>. QED  BY <3>2, <3>5, <4>1, Zenon DEF At
    <3>. QED  BY <3>3, <3>4, <3>5
  <2>2. \A at \in 1..l + 12 : k[at] = h[at]
    OBVIOUS
  <2>3. k = [at \in 1..l + 12 |-> k[at]]
    OBVIOUS
  <2>4. \A at \in 1..l + 12 : k[at] = At(k, at)
    <3> HIDE DEF k
    <3>. QED  BY <1>5, <2>1, <2>2, Zenon
  <2> HIDE DEF k
  <2>5. k = [at \in 1..l + 12 |-> At(k, at)]
    BY <2>3, <2>4
  <2>. QED  BY <1>1, <2>5, Zenon
<1> HIDE DEF k
<1>7. from = [at \in 1..Len(chars) + 12 |-> At(from, at)]
  BY <1>6, Zenon DEF At
<1>8. Decoded(chars) = from[1]
  BY DEF Decoded
<1> HIDE DEF from
<1>9. Reader(from, chars)
  <2>1. \A at \in 1..l + 12 : from[at] = At(from, at)
    BY <1>1, <1>7, Zenon
  <2>2. /\ Len(chars) + 1 \in 1..l + 12 /\ Len(chars) + 1 > Len(chars)
        /\ \A at \in 1..Len(chars) : at \in 1..l + 12 /\ ~(at > Len(chars))
    BY <1>1
  <2>. QED  BY <2>1, <2>2, Zenon DEF At, Reader
<1>. QED  BY <1>8, <1>9

AllItems == Values \cup {Row} \cup {Item("S", sql) : sql \in Sqls}

LEMMA ReadsBack ==
  ASSUME NEW chars, NEW items \in Seq(AllItems), Spells(chars, items)
  PROVE  Decoded(chars) = items
<1>1. PICK n \in Nat, l \in Nat : n = Len(items) /\ l = Len(chars) /\ chars \in Seq(Character)
  BY LenProperties DEF Spells
<1>2. PICK place \in [0..n -> Nat] :
        /\ place[0] = 1 /\ place[n] = l + 1
        /\ \A k \in 1..n : Reads(chars, place[k - 1], items[k], place[k])
  BY <1>1, Zenon DEF Spells
<1>3. PICK f : Reader(f, chars) /\ Decoded(chars) = f[1]
  BY <1>1, DecodedDef
<1> DEFINE S == {j \in Nat : j <= n => f[place[n - j]] = SubSeq(items, (n - j) + 1, n)}
<1>4. 0 \in S
  <2>1. SubSeq(items, n + 1, n) = <<>>
    BY SubSeqEmpty
  <2>2. n - 0 = n
    OBVIOUS
  <2>3. f[l + 1] = <<>>
    BY <1>1, <1>3, Zenon DEF Reader
  <2>4. f[place[n - 0]] = SubSeq(items, (n - 0) + 1, n)
    BY <1>2, <2>1, <2>2, <2>3
  <2>. QED  BY <2>4
<1>5. ASSUME NEW j \in Nat, j \in S PROVE j + 1 \in S
  <2>1. SUFFICES ASSUME j + 1 <= n
                 PROVE  f[place[n - (j + 1)]] = SubSeq(items, (n - (j + 1)) + 1, n)
    OBVIOUS
  <2>2. PICK k \in 1..n : k = n - j
    <3>1. n - j \in 1..n
      BY <2>1
    <3>. QED  BY <3>1
  <2>3. n - (j + 1) = k - 1 /\ (k - 1) + 1 = k /\ j <= n
    BY <2>1, <2>2
  <2>4. f[place[k]] = SubSeq(items, k + 1, n)
    BY <1>5, <2>2, <2>3
  <2>5. Reads(chars, place[k - 1], items[k], place[k])
    BY <1>2
  <2>6. f[place[k - 1]] = <<items[k]>> \o f[place[k]]
    BY <1>3, <2>5, Zenon DEF Reads, Reader
  <2>7. SubSeq(items, k, n) = <<items[k]>> \o SubSeq(items, k + 1, n)
    <3>1. k \in 1..Len(items) /\ n \in k..Len(items)
      BY <1>1
    <3>. QED  BY <3>1, SubSeqRecursiveFirst
  <2>. QED  BY <2>3, <2>4, <2>6, <2>7, Zenon
<1>6. n \in S
  <2> HIDE DEF S
  <2>. QED  BY <1>4, <1>5, Induction
<1>7. f[place[0]] = SubSeq(items, 1, n)
  <2>1. n - n = 0 /\ 0 + 1 = 1 /\ n <= n
    OBVIOUS
  <2>2. f[place[n - n]] = SubSeq(items, (n - n) + 1, n)
    BY <1>6, <2>1
  <2>. QED  BY <2>1, <2>2, Zenon
<1>. QED  BY <1>1, <1>2, <1>3, <1>7, SubSeqFull, Zenon

\* Each element of two sequences in one.
Elements(all, s, t, m, n) ==
  /\ Len(all) = m + n
  /\ \A k \in 1..m : all[k] = s[k]
  /\ \A k \in 1..n : all[m + k] = t[k]

LEMMA ElementsJoined ==
  ASSUME NEW S, NEW s \in Seq(S), NEW t \in Seq(S),
         NEW m \in Nat, NEW n \in Nat, m = Len(s), n = Len(t)
  PROVE  Elements(s \o t, s, t, m, n) /\ s \o t \in Seq(S)
<1>1. s \o t \in Seq(S) /\ Len(s \o t) = m + n
  BY Joined
<1>2. \A k \in 1..m : (s \o t)[k] = s[k]
  <2> TAKE k \in 1..m
  <2>1. k \in 1..m + n /\ k <= m
    OBVIOUS
  <2>. QED  BY <2>1, ConcatProperties
<1>3. \A k \in 1..n : (s \o t)[m + k] = t[k]
  <2> TAKE k \in 1..n
  <2>1. m + k \in 1..m + n /\ ~(m + k <= m) /\ (m + k) - m = k
    OBVIOUS
  <2>. QED  BY <2>1, ConcatProperties
<1>. QED  BY <1>1, <1>2, <1>3, Zenon DEF Elements

\* What is read stays as it is when the text grows.
LEMMA StillReads ==
  ASSUME NEW chars \in Seq(Character), NEW more \in Seq(Character),
         NEW at, NEW item, NEW next, Reads(chars, at, item, next)
  PROVE  Reads(chars \o more, at, item, next)
<1>1. PICK l \in Nat, m \in Nat : l = Len(chars) /\ m = Len(more)
  BY LenProperties
<1>2. PICK all \in Seq(Character) : /\ all = chars \o more /\ Len(all) = l + m
                                    /\ \A k \in 1..l : all[k] = chars[k]
  <2>1. Elements(chars \o more, chars, more, l, m) /\ chars \o more \in Seq(Character)
    BY <1>1, ElementsJoined
  <2>. QED  BY <2>1, Zenon DEF Elements
<1>3. PICK p \in 1..l : p = at
  BY <1>1 DEF Reads
<1>4. PICK size \in 1..12 : size = SizeAt(chars, p) /\ next = p + size /\ next <= l + 1
  BY <1>1, <1>3, SizesAre DEF Reads
<1>5. chars[p] \in {"S", "T", "B"} => p < l /\ LengthAt(all, p) = LengthAt(chars, p)
  <2> HAVE chars[p] \in {"S", "T", "B"}
  <2>1. PICK n \in 0..9 : n = LengthAt(chars, p)
    BY DigitsAre DEF LengthAt
  <2>2. size = 3 + n
    BY <1>4, <2>1 DEF SizeAt
  <2>3. p < l
    BY <1>4, <2>2
  <2>4. p < l + m /\ all[p + 1] = chars[p + 1]
    BY <1>2, <2>3
  <2>. QED  BY <1>1, <1>2, <2>3, <2>4, Zenon DEF LengthAt
<1>6. all[p] = chars[p]
  BY <1>2
<1>7. SizeAt(all, p) = size
  BY <1>4, <1>5, <1>6, Zenon DEF SizeAt
<1>8. \A from \in {p + 1, p + 3} : SubSeq(all, from, p + size - 1) = SubSeq(chars, from, p + size - 1)
  <2> TAKE from \in {p + 1, p + 3}
  <2>1. PICK to \in 1..l : to = p + size - 1
    BY <1>4
  <2>2. CASE from <= to
    <3>1. from \in 1..Len(chars) /\ to \in 1..Len(chars)
      BY <1>1, <2>2
    <3>. QED  BY <1>2, <2>1, <3>1, SubSeqOfConcat1
  <2>3. CASE ~(from <= to)
    <3>1. from \in Int /\ to < from
      BY <2>3
    <3>. QED  BY <2>1, <3>1, SubSeqEmpty
  <2>. QED  BY <2>2, <2>3
<1>9. ItemAt(all, p) = ItemAt(chars, p)
  BY <1>4, <1>6, <1>7, <1>8, Zenon DEF ItemAt
<1>10. Reads(all, p, item, next)
  <2>1. p \in 1..Len(all) /\ next = p + size /\ next <= Len(all) + 1
    BY <1>1, <1>2, <1>4
  <2>2. ItemAt(chars, p) = item
    BY <1>3, Zenon DEF Reads
  <2>. QED  BY <1>7, <1>9, <2>1, <2>2, Zenon DEF Reads
<1>. QED  BY <1>2, <1>3, <1>10, Zenon

\* After l characters of the text come the m of another.
Follow(all, l, more, m) ==
  /\ all \in Seq(Character) /\ Len(all) = l + m
  /\ \A k \in 1..m : all[l + k] = more[k]
  /\ \A from \in 1..m + 1, to \in 0..m : SubSeq(all, l + from, l + to) = SubSeq(more, from, to)

LEMMA Behind ==
  ASSUME NEW chars \in Seq(Character), NEW more \in Seq(Character),
         NEW l \in Nat, NEW m \in Nat, l = Len(chars), m = Len(more)
  PROVE  Follow(chars \o more, l, more, m)
<1>1. chars \o more \in Seq(Character) /\ Len(chars \o more) = l + m
  BY Joined
<1>2. \A k \in 1..m : (chars \o more)[l + k] = more[k]
  <2> TAKE k \in 1..m
  <2>1. l + k \in 1..l + m /\ ~(l + k <= l) /\ (l + k) - l = k
    OBVIOUS
  <2>. QED  BY <2>1, ConcatProperties
<1>3. ASSUME NEW from \in 1..m + 1, NEW to \in 0..m
      PROVE  SubSeq(chars \o more, l + from, l + to) = SubSeq(more, from, to)
  <2>1. CASE from <= to
    <3>1. /\ l + from \in l + 1..l + m /\ l + to \in l + 1..l + m
          /\ (l + from) - l = from /\ (l + to) - l = to
      BY <2>1
    <3>. QED  BY <3>1, SubSeqOfConcat2
  <2>2. CASE ~(from <= to)
    <3>1. SubSeq(more, from, to) = <<>>
      BY <2>2, SubSeqEmpty
    <3>2. l + from \in Int /\ l + to \in Int /\ l + to < l + from
      BY <2>2
    <3>3. SubSeq(chars \o more, l + from, l + to) = <<>>
      BY <3>2, SubSeqEmpty
    <3>. QED  BY <3>1, <3>3
  <2>. QED  BY <2>1, <2>2
<1>. QED  BY <1>1, <1>2, <1>3, Zenon DEF Follow

LEMMA NamedCharacters ==
  /\ {"S", "T", "B", "I", "F", "N", "R", ":", "0"} \subseteq Character
  /\ \A n \in 1..9 : Digits[n] \in Character
  /\ Alphabet \subseteq Character /\ Seq(Alphabet) \subseteq Seq(Character)
BY DEF Character, Marks

\* A new item at the end of a text.
Adds(item) ==
  /\ Encoded(item) \in Seq(Character)
  /\ \A chars \in Seq(Character) :
       Reads(chars \o Encoded(item), Len(chars) + 1, item, Len(chars) + Len(Encoded(item)) + 1)

LEMMA TextAdds ==
  ASSUME NEW mark \in {"S", "T", "B"}, NEW x \in Seq(Alphabet), Len(x) <= MaxText
  PROVE  Adds(Item(mark, x))
<1>1. PICK n \in 0..9 : n = Len(x)
  <2>1. Len(Digits) = 9
    BY DEF Digits
  <2>2. MaxText \in 1..9
    BY <2>1, Sha1FunctionsAssumption
  <2>3. PICK n \in Nat : n = Len(x) /\ n <= MaxText
    BY LenProperties
  <2>4. PICK max \in 1..9 : max = MaxText
    BY <2>2
  <2>5. n <= max
    BY <2>3, <2>4, Zenon
  <2>6. n \in 0..9
    BY <2>5
  <2>. QED  BY <2>3, <2>6, Zenon
<1>2. PICK d \in Character : Length(d) = n /\ Encoded(Item(mark, x)) = <<mark, d, ":">> \o x
  <2>1. CASE n = 0
    <3>1. x = <<>>
      BY <1>1, <2>1, EmptySeq
    <3>2. <<mark, "0", ":">> \in Seq(Character)
      BY NamedCharacters
    <3>3. PICK h \in Seq(Character) : h = <<mark, "0", ":">>
      BY <3>2
    <3>4. h \o <<>> = h
      BY ConcatEmptySeq
    <3>5. Item(mark, x).bytes = <<>> /\ Item(mark, x).mark = mark
      BY <3>1 DEF Item
    <3>6. Encoded(Item(mark, x)) = <<mark, "0", ":">> \o x
      BY <3>1, <3>3, <3>4, <3>5, Zenon DEF Encoded
    <3>. QED  BY <2>1, <3>6, DigitsAre, NamedCharacters
  <2>2. CASE n # 0
    <3>1. n \in 1..9 /\ x # <<>>
      <4>1. n \in 1..9
        BY <2>2
      <4>2. ASSUME x = <<>> PROVE FALSE
        <5>1. Len(x) = 0
          BY <4>2, EmptySeq
        <5>. QED  BY <1>1, <2>2, <5>1
      <4>. QED  BY <4>1, <4>2
    <3>2. Item(mark, x).bytes = x /\ Item(mark, x).mark = mark
      BY DEF Item
    <3>3. Encoded(Item(mark, x)) = <<mark, Digits[n], ":">> \o x
      BY <1>1, <3>1, <3>2, Zenon DEF Encoded
    <3>. QED  BY <3>1, <3>3, DigitsAre, NamedCharacters
  <2>. QED  BY <2>1, <2>2
<1>3. PICK h \in Seq(Character) : /\ h = <<mark, d, ":">> /\ Len(h) = 3
                                  /\ h[1] = mark /\ h[2] = d
  <2>1. mark \in Character /\ ":" \in Character
    BY NamedCharacters
  <2>2. <<mark, d, ":">> \in Seq(Character)
    BY <2>1
  <2>3. Len(<<mark, d, ":">>) = 3 /\ <<mark, d, ":">>[1] = mark /\ <<mark, d, ":">>[2] = d
    OBVIOUS
  <2>. QED  BY <2>2, <2>3
<1>4. PICK e \in Seq(Character) : /\ e = Encoded(Item(mark, x)) /\ Len(e) = 3 + n
                                  /\ e[1] = mark /\ e[2] = d /\ SubSeq(e, 4, 3 + n) = x
  <2>1. PICK y \in Seq(Character) : y = x
    BY NamedCharacters
  <2>2. h \o y \in Seq(Character) /\ Len(h \o y) = 3 + n
    BY <1>1, <1>3, <2>1, Joined
  <2>3. (h \o y)[1] = mark /\ (h \o y)[2] = d
    BY <1>1, <1>3, <2>1, ConcatProperties
  <2>4. SubSeq(h \o y, 3 + 1, 3 + n) = SubSeq(y, 1, n)
    <3>1. 3 \in Nat /\ n \in Nat /\ 1 \in 1..n + 1 /\ n \in 0..n
      OBVIOUS
    <3>2. Follow(h \o y, 3, y, n)
      BY <1>1, <1>3, <2>1, <3>1, Behind
    <3>. QED  BY <3>1, <3>2, Zenon DEF Follow
  <2>5. SubSeq(y, 1, n) = x
    BY <1>1, <2>1, SubSeqFull
  <2>6. 3 + 1 = 4
    OBVIOUS
  <2>. QED  BY <1>2, <1>3, <2>1, <2>2, <2>3, <2>4, <2>5, <2>6, Zenon
<1>5. ASSUME NEW chars \in Seq(Character)
      PROVE  Reads(chars \o e, Len(chars) + 1, Item(mark, x), Len(chars) + Len(e) + 1)
  <2>1. PICK l \in Nat : l = Len(chars)
    BY LenProperties
  <2>2. PICK m \in Nat : m = 3 + n /\ m = Len(e)
    BY <1>4
  <2>3. PICK all : all = chars \o e /\ Follow(all, l, e, m)
    BY <2>1, <2>2, Behind
  <2>4. all[l + 1] = mark /\ all[(l + 1) + 1] = d
    <3>1. 1 \in 1..m /\ 2 \in 1..m /\ (l + 1) + 1 = l + 2
      BY <2>2
    <3>. QED  BY <1>4, <2>3, <3>1, Zenon DEF Follow
  <2>a. SubSeq(all, (l + 1) + 3, (l + 1) + (3 + n) - 1) = x
    <3>1. 4 \in 1..m + 1 /\ m \in 0..m
      BY <2>2
    <3>2. SubSeq(all, l + 4, l + m) = x
      BY <1>4, <2>2, <2>3, <3>1, Zenon DEF Follow
    <3>3. (l + 1) + 3 = l + 4 /\ (l + 1) + (3 + n) - 1 = l + m
      BY <2>2
    <3>. QED  BY <3>2, <3>3, Zenon
  <2>b. Len(all) = l + m
    BY <2>3 DEF Follow
  <2>5. LengthAt(all, l + 1) = n
    <3>1. l + 1 < Len(all)
      BY <2>2, <2>b
    <3>. QED  BY <1>2, <2>4, <3>1, Zenon DEF LengthAt
  <2>6. SizeAt(all, l + 1) = 3 + n
    BY <2>4, <2>5, Zenon DEF SizeAt
  <2>7. ItemAt(all, l + 1) = Item(mark, x)
    BY <2>4, <2>a, <2>6, Zenon DEF ItemAt
  <2>8. /\ l + 1 \in 1..Len(all) /\ l + (3 + n) + 1 = (l + 1) + (3 + n)
        /\ l + (3 + n) + 1 <= Len(all) + 1
    BY <2>2, <2>b
  <2>. QED  BY <1>4, <2>1, <2>3, <2>6, <2>7, <2>8, Zenon DEF Reads
<1>. QED  BY <1>4, <1>5, Zenon DEF Adds

LEMMA Pair ==
  ASSUME NEW S, NEW a \in S, NEW b \in S
  PROVE  <<a>> \o <<b>> = <<a, b>>
<1>1. <<a>> \in Seq(S) /\ <<b>> \in Seq(S) /\ <<a, b>> \in Seq(S)
  OBVIOUS
<1>2. Len(<<a>>) = 1 /\ Len(<<b>>) = 1 /\ Len(<<a, b>>) = 2 /\ <<a>>[1] = a /\ <<b>>[1] = b
      /\ <<a, b>>[1] = a /\ <<a, b>>[2] = b
  OBVIOUS
<1>3. PICK s \in Seq(S), t \in Seq(S), u \in Seq(S) :
        /\ s = <<a>> /\ t = <<b>> /\ u = <<a, b>> /\ Len(s) = 1 /\ Len(t) = 1 /\ Len(u) = 2
        /\ s[1] = a /\ t[1] = b /\ u[1] = a /\ u[2] = b
  BY <1>1, <1>2, Zenon
<1>4. s \o t \in Seq(S) /\ Len(s \o t) = 2
  BY <1>3, Joined
<1>5. (s \o t)[1] = a /\ (s \o t)[2] = b
  BY <1>3, ConcatProperties
<1>6. PICK v \in Seq(S) : v = s \o t /\ Len(v) = 2 /\ v[1] = a /\ v[2] = b
  BY <1>4, <1>5, Zenon
<1>7. v = u
  <2>1. \A k \in 1..Len(v) : v[k] = u[k]
    <3>1. \A k \in 1..2 : k = 1 \/ k = 2
      OBVIOUS
    <3>. QED  BY <1>3, <1>6, <3>1, Zenon
  <2>2. Len(v) = Len(u)
    BY <1>3, <1>6
  <2>. QED  BY <2>1, <2>2, SeqEqual
<1>. QED  BY <1>3, <1>6, <1>7, Zenon

LEMMA NumberAdds ==
  ASSUME NEW mark \in {"I", "F"}, NEW c \in Alphabet
  PROVE  Adds(Item(mark, <<c>>))
<1>1. PICK e \in Seq(Character) : e = Encoded(Item(mark, <<c>>)) /\ e = <<mark, c>>
  <2>1. Item(mark, <<c>>).bytes = <<c>> /\ Item(mark, <<c>>).mark = mark
    BY DEF Item
  <2>2. Encoded(Item(mark, <<c>>)) = <<mark>> \o <<c>>
    BY <2>1, Zenon DEF Encoded
  <2>3. mark \in Character /\ c \in Character
    BY NamedCharacters
  <2>4. <<mark>> \o <<c>> = <<mark, c>>
    BY <2>3, Pair
  <2>5. <<mark, c>> \in Seq(Character)
    BY <2>3
  <2>. QED  BY <2>2, <2>4, <2>5, Zenon
<1>2. /\ Len(e) = 2 /\ e[1] = mark /\ SubSeq(e, 2, 2) = <<c>>
  <2>1. Len(e) = 2 /\ e[1] = mark /\ e[2] = c
    BY <1>1
  <2>2. SubSeq(e, 2, 2) = <<e[2]>> \o SubSeq(e, 3, 2)
    <3>1. 2 \in 1..Len(e) /\ 2 \in 2..Len(e)
      BY <2>1
    <3>2. SubSeq(e, 2, 2) = <<e[2]>> \o SubSeq(e, 2 + 1, 2)
      BY <3>1, SubSeqRecursiveFirst
    <3>. QED  BY <3>2
  <2>3. SubSeq(e, 3, 2) = <<>>
    BY SubSeqEmpty
  <2>4. <<c>> \in Seq(Alphabet)
    OBVIOUS
  <2>5. <<c>> \o <<>> = <<c>>
    BY <2>4, ConcatEmptySeq
  <2>. QED  BY <2>1, <2>2, <2>3, <2>5, Zenon
<1>3. ASSUME NEW chars \in Seq(Character)
      PROVE  Reads(chars \o e, Len(chars) + 1, Item(mark, <<c>>), Len(chars) + Len(e) + 1)
  <2>1. PICK l \in Nat : l = Len(chars)
    BY LenProperties
  <2>2. PICK all : all = chars \o e /\ Follow(all, l, e, 2)
    <3>1. 2 \in Nat
      OBVIOUS
    <3>. QED  BY <1>2, <2>1, <3>1, Behind
  <2>3. all[l + 1] = mark /\ SubSeq(all, l + 2, l + 2) = <<c>> /\ Len(all) = l + 2
    <3>1. 1 \in 1..2 /\ 2 \in 1..2 + 1 /\ 2 \in 0..2
      OBVIOUS
    <3>. QED  BY <1>2, <2>2, <3>1, Zenon DEF Follow
  <2>4. mark \notin {"S", "T", "B"}
    OBVIOUS
  <2>5. SizeAt(all, l + 1) = 2
    BY <2>3, <2>4, Zenon DEF SizeAt
  <2>6. (l + 1) + 1 = l + 2 /\ (l + 1) + 2 - 1 = l + 2
    OBVIOUS
  <2>7. ItemAt(all, l + 1) = Item(mark, <<c>>)
    BY <2>3, <2>4, <2>5, <2>6, Zenon DEF ItemAt
  <2>8. /\ l + 1 \in 1..Len(all) /\ l + 2 + 1 = (l + 1) + 2 /\ l + 2 + 1 <= Len(all) + 1
    BY <2>3
  <2>. QED  BY <1>2, <2>1, <2>2, <2>5, <2>7, <2>8, Zenon DEF Reads
<1>. QED  BY <1>1, <1>3, Zenon DEF Adds

LEMMA BareAdds ==
  ASSUME NEW mark \in {"N", "R"}
  PROVE  Adds(Item(mark, <<>>))
<1>1. PICK e \in Seq(Character) : e = Encoded(Item(mark, <<>>)) /\ e = <<mark>>
  <2>1. Item(mark, <<>>).bytes = <<>> /\ Item(mark, <<>>).mark = mark
    BY DEF Item
  <2>2. Encoded(Item(mark, <<>>)) = <<mark>> \o <<>>
    BY <2>1, Zenon DEF Encoded
  <2>3. mark \in Character
    BY NamedCharacters
  <2>4. <<mark>> \in Seq(Character)
    BY <2>3
  <2>5. <<mark>> \o <<>> = <<mark>>
    BY <2>4, ConcatEmptySeq
  <2>. QED  BY <2>2, <2>4, <2>5, Zenon
<1>2. Len(e) = 1 /\ e[1] = mark
  BY <1>1
<1>3. ASSUME NEW chars \in Seq(Character)
      PROVE  Reads(chars \o e, Len(chars) + 1, Item(mark, <<>>), Len(chars) + Len(e) + 1)
  <2>1. PICK l \in Nat : l = Len(chars)
    BY LenProperties
  <2>2. PICK all : all = chars \o e /\ Follow(all, l, e, 1)
    <3>1. 1 \in Nat
      OBVIOUS
    <3>. QED  BY <1>2, <2>1, <3>1, Behind
  <2>3. all[l + 1] = mark /\ Len(all) = l + 1
    <3>1. 1 \in 1..1
      OBVIOUS
    <3>. QED  BY <1>2, <2>2, <3>1, Zenon DEF Follow
  <2>4. mark \notin {"S", "T", "B"} /\ mark \notin {"I", "F"}
    OBVIOUS
  <2>5. SizeAt(all, l + 1) = 1
    BY <2>3, <2>4, Zenon DEF SizeAt
  <2>6. SubSeq(all, (l + 1) + 1, (l + 1) + 1 - 1) = <<>>
    <3>1. (l + 1) + 1 \in Int /\ (l + 1) + 1 - 1 \in Int /\ (l + 1) + 1 - 1 < (l + 1) + 1
      OBVIOUS
    <3>. QED  BY <3>1, SubSeqEmpty
  <2>7. ItemAt(all, l + 1) = Item(mark, <<>>)
    BY <2>3, <2>4, <2>5, <2>6, Zenon DEF ItemAt
  <2>8. /\ l + 1 \in 1..Len(all) /\ l + 1 + 1 = (l + 1) + 1 /\ l + 1 + 1 <= Len(all) + 1
    BY <2>3
  <2>. QED  BY <1>2, <2>1, <2>2, <2>5, <2>7, <2>8, Zenon DEF Reads
<1>. QED  BY <1>1, <1>3, Zenon DEF Adds

LEMMA EveryItemAdds == \A item \in AllItems : Adds(item)
<1> DEFINE Number == {Item(t, <<c>>) : t \in {"I", "F"}, c \in Alphabet}
           String == {Item(t, x) : t \in {"T", "B"}, x \in Texts}
           Statement == {Item("S", sql) : sql \in Sqls}
<1> SUFFICES ASSUME NEW item \in AllItems PROVE Adds(item)
  OBVIOUS
<1>1. CASE item = Item("N", <<>>) \/ item = Row
  BY <1>1, BareAdds DEF Row
<1>2. CASE item \in Number
  <2>1. PICK t \in {"I", "F"}, c \in Alphabet : item = Item(t, <<c>>)
    BY <1>2
  <2>2. Adds(Item(t, <<c>>))
    BY NumberAdds
  <2>. QED  BY <2>1, <2>2, Zenon
<1>3. CASE item \in String
  <2>1. PICK t \in {"T", "B"}, x \in Texts : item = Item(t, x)
    BY <1>3
  <2>2. x \in Seq(Alphabet) /\ Len(x) <= MaxText
    BY TextsAre
  <2>3. Adds(Item(t, x))
    BY <2>2, TextAdds
  <2>. QED  BY <2>1, <2>3, Zenon
<1>4. CASE item \in Statement
  <2>1. PICK x \in Sqls : item = Item("S", x)
    BY <1>4
  <2>2. x \in Seq(Alphabet) /\ Len(x) <= MaxText
    BY TextsAre
  <2>3. Adds(Item("S", x))
    BY <2>2, TextAdds
  <2>. QED  BY <2>1, <2>3, Zenon
<1>5. AllItems = {Item("N", <<>>)} \cup Number \cup String \cup {Row} \cup Statement
  BY DEF AllItems, Values
<1> HIDE DEF Number, String, Statement
<1>. QED  BY <1>1, <1>2, <1>3, <1>4, <1>5, Zenon

LEMMA SpellsNothing == Spells(<<>>, <<>>)
<1>1. <<>> \in Seq(Character) /\ Len(<<>>) = 0
  BY EmptySeq
<1> DEFINE place == [k \in 0..0 |-> 1]
<1>2. place \in [0..0 -> Nat] /\ place[0] = 1 /\ 0 + 1 = 1 /\ \A k \in 1..0 : FALSE
  OBVIOUS
<1> HIDE DEF place
<1>. QED  BY <1>1, <1>2, Zenon DEF Spells

LEMMA SpellsMore ==
  ASSUME NEW chars, NEW items \in Seq(AllItems), NEW item \in AllItems, Spells(chars, items)
  PROVE  Spells(chars \o Encoded(item), Append(items, item))
<1>1. PICK n \in Nat : n = Len(items)
  BY LenProperties
<1>2. PICK place \in [0..n -> Nat] :
        /\ place[0] = 1 /\ place[n] = Len(chars) + 1
        /\ \A k \in 1..n : Reads(chars, place[k - 1], items[k], place[k])
  BY <1>1, Zenon DEF Spells
<1>3. PICK e \in Seq(Character) :
        /\ e = Encoded(item) /\ chars \in Seq(Character)
        /\ Reads(chars \o e, Len(chars) + 1, item, Len(chars) + Len(e) + 1)
  BY EveryItemAdds, Zenon DEF Adds, Spells
<1>4. PICK l \in Nat, m \in Nat : l = Len(chars) /\ m = Len(e)
  BY <1>3, LenProperties
<1>5. PICK all \in Seq(Character) : all = chars \o e /\ Len(all) = l + m
  BY <1>3, <1>4, Joined
<1>6. PICK more : /\ more = Append(items, item) /\ Len(more) = n + 1
                  /\ \A k \in 1..n : more[k] = items[k]
                  /\ more[n + 1] = item
  <2>1. /\ Len(Append(items, item)) = Len(items) + 1
        /\ \A k \in 1..Len(items) : Append(items, item)[k] = items[k]
        /\ Append(items, item)[Len(items) + 1] = item
    BY AppendProperties
  <2>. QED  BY <1>1, <2>1, Zenon
<1> DEFINE after == [k \in 0..n + 1 |-> IF k = n + 1 THEN l + m + 1 ELSE place[k]]
<1>7. after \in [0..n + 1 -> Nat]
  OBVIOUS
<1>8. /\ \A k \in 0..n : after[k] = place[k]
      /\ after[n + 1] = l + m + 1
  OBVIOUS
<1> HIDE DEF after
<1>9. \A k \in 1..n + 1 : Reads(all, after[k - 1], more[k], after[k])
  <2> TAKE k \in 1..n + 1
  <2>1. CASE k \in 1..n
    <3>1. k - 1 \in 0..n /\ k \in 0..n
      BY <2>1
    <3>2. Reads(chars, place[k - 1], items[k], place[k])
      BY <1>2, <2>1
    <3>3. Reads(chars \o e, place[k - 1], items[k], place[k])
      BY <1>3, <3>2, StillReads
    <3>. QED  BY <1>5, <1>6, <1>8, <2>1, <3>1, <3>3, Zenon
  <2>2. CASE k = n + 1
    <3>1. k - 1 = n /\ n \in 0..n
      BY <2>2
    <3>2. Reads(all, place[n], item, l + m + 1)
      BY <1>2, <1>3, <1>4, <1>5, Zenon
    <3>. QED  BY <1>6, <1>8, <2>2, <3>1, <3>2, Zenon
  <2>. QED  BY <2>1, <2>2
<1>10. after[0] = 1
  <2>1. 0 \in 0..n
    OBVIOUS
  <2>. QED  BY <1>2, <1>8, <2>1, Zenon
<1>11. Spells(all, more)
  BY <1>5, <1>6, <1>7, <1>8, <1>9, <1>10, Zenon DEF Spells
<1>. QED  BY <1>3, <1>5, <1>6, <1>11, Zenon

LEMMA SpellsAll ==
  ASSUME NEW chars, NEW old \in Seq(AllItems), NEW items \in Seq(AllItems), Spells(chars, old)
  PROVE  Spells(chars \o Flat(items), old \o items)
<1>1. PICK n \in Nat : n = Len(items)
  BY LenProperties
<1>2. PICK f : Flats(f, items, n) /\ Flat(items) = f[n]
  BY <1>1, FlatDef
<1> DEFINE S == {k \in Nat : k <= n => /\ f[k] \in Seq(Character)
                                      /\ Spells(chars \o f[k], old \o SubSeq(items, 1, k))}
<1>3. 0 \in S
  <2>1. SubSeq(items, 1, 0) = <<>> /\ old \o <<>> = old
    BY SubSeqEmpty, ConcatEmptySeq
  <2>2. chars \in Seq(Character)
    BY Zenon DEF Spells
  <2>3. chars \o <<>> = chars /\ <<>> \in Seq(Character)
    BY <2>2, ConcatEmptySeq, EmptySeq
  <2>4. f[0] = <<>>
    BY <1>2, Zenon DEF Flats
  <2>5. f[0] \in Seq(Character) /\ Spells(chars \o f[0], old \o SubSeq(items, 1, 0))
    BY <2>1, <2>3, <2>4, Zenon
  <2>. QED  BY <2>5
<1>4. ASSUME NEW k \in Nat, k \in S PROVE k + 1 \in S
  <2>1. SUFFICES ASSUME k + 1 <= n
                 PROVE  /\ f[k + 1] \in Seq(Character)
                        /\ Spells(chars \o f[k + 1], old \o SubSeq(items, 1, k + 1))
    OBVIOUS
  <2>2. k <= n /\ k + 1 \in 1..n /\ (k + 1) - 1 = k
    BY <2>1
  <2>3. f[k] \in Seq(Character) /\ Spells(chars \o f[k], old \o SubSeq(items, 1, k))
    BY <1>4, <2>2, Zenon
  <2>4. PICK item \in AllItems : item = items[k + 1]
    BY <1>1, <2>2, ElementOfSeq
  <2>5. PICK first \in Seq(AllItems) : /\ first = SubSeq(items, 1, k)
                                       /\ SubSeq(items, 1, k + 1) = Append(first, item)
    <3>1. \A i \in 1..k : items[i] \in AllItems
      BY <1>1, <2>1, ElementOfSeq
    <3>2. SubSeq(items, 1, k) \in Seq(AllItems)
      BY <3>1, SubSeqProperties
    <3>3. SubSeq(items, 1, k + 1) = SubSeq(items, 1, (k + 1) - 1) \o <<items[k + 1]>>
      <4>1. 1 \in 1..Len(items) /\ k + 1 \in 1..Len(items)
        BY <1>1, <2>1
      <4>. QED  BY <4>1, SubSeqRecursiveSecond
    <3>4. SubSeq(items, 1, k) \o <<item>> = Append(SubSeq(items, 1, k), item)
      BY <3>2, AppendIsConcat
    <3>. QED  BY <2>2, <2>4, <3>2, <3>3, <3>4, Zenon
  <2>6. PICK e \in Seq(Character) : e = Encoded(item)
    BY EveryItemAdds, Zenon DEF Adds
  <2>7. f[k + 1] = f[k] \o e
    BY <1>2, <2>2, <2>4, <2>6, Zenon DEF Flats
  <2>8. f[k] \o e \in Seq(Character)
    BY <2>3, Joined
  <2>9. chars \o (f[k] \o e) = (chars \o f[k]) \o e
    <3>1. chars \in Seq(Character)
      BY Zenon DEF Spells
    <3>2. PICK x \in Seq(Character) : x = f[k]
      BY <2>3, Zenon
    <3>3. chars \o (x \o e) = (chars \o x) \o e
      BY <3>1, Associative
    <3>. QED  BY <3>2, <3>3, Zenon
  <2>10. old \o first \in Seq(AllItems)
    BY Joined
  <2>11. Append(old \o first, item) = old \o Append(first, item)
    <3>1. <<item>> \in Seq(AllItems)
      OBVIOUS
    <3>2. old \o (first \o <<item>>) = (old \o first) \o <<item>>
      BY <3>1, Associative
    <3>3. Append(first, item) = first \o <<item>>
          /\ Append(old \o first, item) = (old \o first) \o <<item>>
      BY <2>10, AppendIsConcat
    <3>. QED  BY <3>2, <3>3, Zenon
  <2>12. Spells((chars \o f[k]) \o Encoded(item), Append(old \o first, item))
    <3>1. Spells(chars \o f[k], old \o first)
      BY <2>3, <2>5, Zenon
    <3>. QED  BY <2>10, <3>1, SpellsMore
  <2>. QED  BY <2>5, <2>6, <2>7, <2>8, <2>9, <2>11, <2>12, Zenon
<1>5. n \in S
  <2> HIDE DEF S
  <2>. QED  BY <1>3, <1>4, Induction
<1>6. Spells(chars \o f[n], old \o SubSeq(items, 1, n))
  <2>1. n <= n
    OBVIOUS
  <2>. QED  BY <1>5, <2>1
<1>7. SubSeq(items, 1, n) = items
  BY <1>1, SubSeqFull
<1>. QED  BY <1>2, <1>6, <1>7, Zenon

LEMMA CharsAre ==
  ASSUME NEW bytes \in Seq(Byte)
  PROVE  /\ Len(Chars(bytes)) = Len(bytes)
         /\ \A k \in 1..Len(bytes) : Chars(bytes)[k] = bytes[k][1]
<1>1. Len(bytes) \in Nat
  BY LenProperties
<1>. QED  BY <1>1 DEF Chars
\* Characters of bytes that were named by characters.
LEMMA CharsOf ==
  ASSUME NEW bytes \in Seq(Byte), NEW chars \in Seq(Character), Chars(bytes) \in Seq(Character)
  PROVE  Chars(bytes \o Bytes(chars)) = Chars(bytes) \o chars
<1>1. PICK m \in Nat, n \in Nat : m = Len(bytes) /\ n = Len(chars)
  BY LenProperties
<1>2. PICK more \in Seq(Byte) : /\ more = Bytes(chars) /\ Len(more) = n
                                /\ \A k \in 1..n : more[k][1] = chars[k]
  <2>1. \A k \in 1..n : Bytes(chars)[k] = <<chars[k]>>
    BY <1>1 DEF Bytes
  <2>2. \A k \in 1..n : Bytes(chars)[k][1] = chars[k]
    BY <2>1
  <2>. QED  BY <1>1, <2>2, BytesAre, Zenon
<1>3. PICK all \in Seq(Byte) : all = bytes \o more /\ Elements(all, bytes, more, m, n)
  BY <1>1, <1>2, ElementsJoined
<1>4. PICK c \in Seq(Character) : /\ c = Chars(bytes) /\ Len(c) = m
                                  /\ \A k \in 1..m : c[k] = bytes[k][1]
  BY <1>1, CharsAre, Zenon
<1>5. PICK d \in Seq(Character) : d = c \o chars /\ Elements(d, c, chars, m, n)
  BY <1>1, <1>4, ElementsJoined
<1>6. \A k \in 1..m + n : all[k][1] = d[k]
  <2> TAKE k \in 1..m + n
  <2>1. CASE k <= m
    <3>1. k \in 1..m
      BY <2>1
    <3>. QED  BY <1>3, <1>4, <1>5, <3>1, Zenon DEF Elements
  <2>2. CASE ~(k <= m)
    <3>1. k - m \in 1..n /\ m + (k - m) = k
      BY <2>2
    <3>2. all[m + (k - m)] = more[k - m] /\ d[m + (k - m)] = chars[k - m]
      BY <1>3, <1>5, <3>1, Zenon DEF Elements
    <3>. QED  BY <1>2, <3>1, <3>2, Zenon
  <2>. QED  BY <2>1, <2>2
<1>7. Len(all) = m + n /\ Len(d) = m + n
  BY <1>3, <1>5, Zenon DEF Elements
<1>8. Chars(all) = d
  <2>1. Chars(all) = [k \in 1..m + n |-> all[k][1]]
    BY <1>7, Zenon DEF Chars
  <2>2. d = [k \in 1..m + n |-> d[k]]
    BY <1>7, LenProperties
  <2>. QED  BY <1>6, <2>1, <2>2
<1>. QED  BY <1>2, <1>3, <1>4, <1>5, <1>8, Zenon

LEMMA HashSpells ==
  ASSUME EngineInv, hashed \in Seq(AllItems), Spells(Chars(message), hashed),
         NEW items \in Seq(AllItems), Hash(items)
  PROVE  hashed' \in Seq(AllItems) /\ Spells(Chars(message)', hashed')
<1>1. message \in Seq(Byte) /\ Chars(message) \in Seq(Character)
  BY Zenon DEF EngineInv, Spells
<1>2. Flat(items) \in Seq(Character)
  <2>1. PICK n \in Nat : n = Len(items)
    BY LenProperties
  <2>2. \A k \in 1..n : Short(Encoded(items[k]))
    <3>1. \A item \in AllItems : Short(Encoded(item))
      BY ItemsAreShort DEF AllItems
    <3>. QED  BY <2>1, <3>1, ElementOfSeq
  <2>. QED  BY <2>1, <2>2, FlatIs
<1>3. message' = message \o Bytes(Flat(items)) /\ hashed' = hashed \o items
  BY Zenon DEF Hash, HashStep, Flat
<1>4. Chars(message \o Bytes(Flat(items))) = Chars(message) \o Flat(items)
  BY <1>1, <1>2, CharsOf
<1>5. Spells(Chars(message) \o Flat(items), hashed \o items)
  BY SpellsAll
<1>6. hashed \o items \in Seq(AllItems)
  BY Joined
<1>7. Chars(message)' = Chars(message')
  BY DEF Chars
<1>. QED  BY <1>3, <1>4, <1>5, <1>6, <1>7, Zenon

\* What sha1_query hashed can be read back; nobody else hashes before it.
QueryInv ==
  /\ caller = "none" => hashed = <<>> /\ message = <<>>
  /\ caller = "sha1_query" => hashed \in Seq(AllItems) /\ Spells(Chars(message), hashed)

LEMMA QueryStarts == Init => QueryInv
BY DEF Init, EngineInit, QueryInv

LEMMA QueryStep ==
  ASSUME EngineInv, FunctionsInv, QueryInv, [Next]_vars
  PROVE  QueryInv'
<1>1. CASE UNCHANGED <<message, hashed, caller>>
  BY <1>1 DEF QueryInv, Chars
<1>2. CASE \E f \in registered \cup {"pieces"} : Call(f)
  <2>1. PICK f \in registered \cup {"pieces"} : Call(f)
    BY <1>2
  <2>2. hashed' = <<>> /\ message' = <<>> /\ caller' # "none"
    <3>1. caller = "none" /\ caller' = f /\ UNCHANGED <<message, hashed>>
      BY <2>1 DEF Call, engine
    <3>2. f # "none"
      BY DEF FunctionsInv
    <3>. QED  BY <3>1, <3>2 DEF QueryInv
  <2>3. Chars(message)' = <<>>
    <3>1. Len(message') = 0
      BY <2>2
    <3>. QED  BY <3>1 DEF Chars
  <2>4. <<>> \in Seq(AllItems)
    OBVIOUS
  <2>. QED  BY <2>2, <2>3, <2>4, SpellsNothing, Zenon DEF QueryInv
<1>3. CASE Compile
  <2>1. PICK sql \in Sqls : Hash(<<Item("S", sql)>>)
    BY <1>3, Zenon DEF Compile
  <2>2. <<Item("S", sql)>> \in Seq(AllItems)
    BY DEF AllItems
  <2>3. caller = "sha1_query" /\ caller' = caller
    BY <1>3, Zenon DEF Compile, Between, Working
  <2>4. hashed' \in Seq(AllItems) /\ Spells(Chars(message)', hashed')
    BY <2>1, <2>2, <2>3, HashSpells DEF QueryInv
  <2>. QED  BY <2>3, <2>4 DEF QueryInv
<1>4. CASE StepRow
  <2>1. PICK n \in 1..MaxColumns : n = nCol
    BY <1>4 DEF FunctionsInv, StepRow, NoStatement
  <2>2. PICK row \in [1..n -> Values] : Hash(<<Row>> \o row)
    BY <1>4, <2>1 DEF StepRow, Rows
  <2>3. <<Row>> \o row \in Seq(AllItems)
    <3>1. <<Row>> \in Seq(AllItems)
      BY DEF AllItems
    <3>2. row \in Seq(AllItems)
      BY DEF AllItems
    <3>. QED  BY <3>1, <3>2, Joined
  <2>4. caller = "sha1_query" /\ caller' = caller
    BY <1>4, Zenon DEF StepRow, Working
  <2>5. PICK items \in Seq(AllItems) : items = <<Row>> \o row /\ Hash(items)
    BY <2>2, <2>3, Zenon
  <2>6. hashed' \in Seq(AllItems) /\ Spells(Chars(message)', hashed')
    BY <2>4, <2>5, HashSpells DEF QueryInv
  <2>. QED  BY <2>4, <2>6 DEF QueryInv
<1>5. CASE Sha1Step
  <2>1. caller = "sha1" /\ caller' = caller
    BY <1>5 DEF Sha1Step, Working
  <2>. QED  BY <2>1 DEF QueryInv
<1>6. CASE EngineAlone
  <2>1. CASE Padding
    BY <1>1, <1>6, <2>1 DEF EngineAlone, Padding, PadZero, PadLength
  <2>2. CASE caller = "pieces"
    BY <1>6, <2>2 DEF EngineAlone, QueryInv
  <2>. QED  BY <1>6, <2>1, <2>2 DEF EngineAlone
<1>7. CASE Finish \/ Reject \/ StepEnds \/ sqlite3_sha_init \/ UNCHANGED vars
  <2>1. UNCHANGED <<message, hashed, caller>>
    BY <1>7 DEF Finish, HashFinish, Reject, StepEnds, sqlite3_sha_init, vars, engine
  <2>. QED  BY <1>1, <2>1
<1>. QED  BY <1>2, <1>3, <1>4, <1>5, <1>6, <1>7, Zenon DEF Next

(* The bytes sha1_query hashes tell which statements were run and which    *)
(* rows, types and values they gave, whatever the values look like: two    *)
(* results with the same bytes are the same.  No text is longer than a     *)
(* decimal digit says.                                                     *)
THEOREM ReadBack == Spec => []Unambiguous
<1>1. Init => EngineInv /\ FunctionsInv /\ QueryInv
  BY EngineStarts, FunctionsStart, QueryStarts DEF Init
<1>2. EngineInv /\ FunctionsInv /\ QueryInv /\ [Next]_vars
        => EngineInv' /\ FunctionsInv' /\ QueryInv'
  BY EngineStep, FunctionsStep, QueryStep DEF EngineKept
<1>3. QueryInv => Unambiguous
  BY ReadsBack DEF QueryInv, Unambiguous
<1>. QED  BY <1>1, <1>2, <1>3, PTL DEF Spec
=============================================================================
