----------------------------- MODULE WireProofs -----------------------------
(***************************************************************************)
(* For nodes of any depth and lists, texts and bytes of any length that the *)
(* encoder takes: decode gives back what encode wrote, whatever follows it, *)
(* and refuses what lost its end; parseJid gives back what jidToString      *)
(* wrote.  From both, that a request delivered names the chat that was      *)
(* meant.                                                                   *)
(*                                                                         *)
(* The codec is proved from the bottom up.  Reads says of each reader what  *)
(* it returns of data that hold the code of a value, or that end within it. *)
(* Every part of the format has a lemma of this form, ReadsThen puts two of *)
(* them in a row, ManyRead any number, and DepthRead goes by the depth of   *)
(* the node.                                                                *)
(***************************************************************************)
EXTENDS Wire, SequenceTheorems, WellFoundedInduction, TLAPS

----------------------------------------------------------------------------
\* Induction over numbers.

\* The natural numbers are well ordered.
LEMMA LeastElement ==
  ASSUME NEW T \in SUBSET Nat, T # {}
  PROVE  \E x \in T : \A y \in T : x <= y
<1> DEFINE R == OpToRel(<, Nat)
<1>1. \A y \in Nat, x \in Nat : <<y, x>> \in R <=> y < x
  BY DEF OpToRel
<1>2. IsWellFoundedOn(R, Nat)
  BY NatLessThanWellFounded
<1> HIDE DEF R
<1>3. PICK x \in T : \A y \in T : ~ (<<y, x>> \in R)
  BY <1>2, WFMin
<1>4. ASSUME NEW y \in T PROVE x <= y
  <2>1. x \in Nat /\ y \in Nat /\ ~(y < x)
    BY <1>1, <1>3
  <2> QED
    BY <2>1
<1> QED
  BY <1>4

\* A set of natural numbers with 0, and with n + 1 for every n in it, holds them all.
LEMMA SetInduction ==
  ASSUME NEW T, 0 \in T, \A n \in Nat : n \in T => n + 1 \in T
  PROVE  \A n \in Nat : n \in T
<1> SUFFICES ASSUME NEW z \in Nat, z \notin T PROVE FALSE
  OBVIOUS
<1> DEFINE Bad == {n \in Nat : n \notin T}
<1>1. Bad \in SUBSET Nat /\ Bad # {}
  OBVIOUS
<1> HIDE DEF Bad
<1>2. PICK m \in Bad : \A n \in Bad : m <= n
  BY <1>1, LeastElement
<1>3. m \in Nat /\ m \notin T
  BY DEF Bad
<1>4. m - 1 \in Nat /\ m - 1 + 1 = m /\ ~(m <= m - 1)
  BY <1>3
<1>5. m - 1 \in T
  BY <1>2, <1>4 DEF Bad
<1> QED
  BY <1>3, <1>4, <1>5

----------------------------------------------------------------------------
\* Numbers and their bytes.

\* Every tag is a byte.
LEMMA Bases == /\ Base \in Nat /\ Base > 6
               /\ \A n \in 0..6 : n \in Byte
               /\ MaxDepth \in Nat
BY CodecAssumption DEF TOKEN, Byte

\* A number is made up of its quotient and its remainder.
LEMMA Division ==
  ASSUME NEW b \in Nat, b > 0, NEW n \in Nat
  PROVE  n = (n \div b) * b + (n % b) /\ n % b \in 0..(b - 1) /\ n \div b \in Nat
OBVIOUS

\* A quotient of what is below a product of two is below one of them.
LEMMA QuotientBelow ==
  ASSUME NEW b \in Nat, b > 0, NEW c \in Nat, NEW n \in Nat, n < c * b
  PROVE  n \div b < c
<1> DEFINE q == n \div b
<1>1. q \in Nat /\ q * b <= n
  BY Division
<1> HIDE DEF q
<1>2. CASE q >= c
  <2>1. (q - c) * b >= 0
    BY <1>2, <1>1
  <2>2. q * b >= c * b
    BY <2>1, <1>1
  <2> QED
    BY <1>1, <2>2
<1> QED
  BY <1>1, <1>2 DEF q

\* Dividing by a product is dividing by one factor and then by the other.
LEMMA DivideTwice ==
  ASSUME NEW b \in Nat, b > 0, NEW n \in Nat
  PROVE  n \div (b * b) = (n \div b) \div b
<1> DEFINE q == n \div b
           r == n % b
           p == q \div b
           s == q % b
<1>1. n = q * b + r /\ r \in 0..(b - 1) /\ q \in Nat
  BY Division
<1>2. q = p * b + s /\ s \in 0..(b - 1) /\ p \in Nat
  BY <1>1, Division
<1> HIDE DEF q, r, p, s
<1>3. n = p * (b * b) + (s * b + r)
  BY <1>1, <1>2
<1>4. s * b + r \in 0..(b * b - 1)
  <2>1. (b - 1 - s) * b >= 0
    BY <1>2
  <2>2. s * b <= b * b - b /\ s * b \in Nat
    BY <1>2, <2>1
  <2> QED
    BY <1>1, <2>2
<1> DEFINE c == b * b
           t == s * b + r
<1>5. c \in Nat /\ c > 0 /\ t \in 0..(c - 1) /\ n = p * c + t
  BY <1>3, <1>4
<1> HIDE DEF c, t
<1>6. (p * c + t) \div c = p
  BY <1>2, <1>5
<1> QED
  BY <1>5, <1>6 DEF c, p, q

\* A pair is a sequence.
LEMMA Pairs ==
  ASSUME NEW S, NEW x \in S, NEW y \in S
  PROVE  <<x, y>> \in Seq(S) /\ Len(<<x, y>>) = 2 /\ <<x, y>>[1] = x /\ <<x, y>>[2] = y
OBVIOUS

\* The two bytes of a number below Base * Base give it back.
LEMMA TwoBytesBack ==
  ASSUME NEW n \in Nat
  PROVE  /\ TwoBytes(n) \in Seq(Byte) /\ Len(TwoBytes(n)) = 2
         /\ n < Base * Base => TwoBytes(n)[1] * Base + TwoBytes(n)[2] = n
<1> DEFINE q == n \div Base
           x == q % Base
           y == n % Base
<1>1. Base \in Nat /\ Base > 0
  BY Bases
<1>2. n = q * Base + y /\ y \in Byte /\ q \in Nat
  BY <1>1, Division DEF Byte
<1>3. x \in Byte
  BY <1>1, <1>2, Division DEF Byte
<1>4. n < Base * Base => x = q
  <2> SUFFICES ASSUME n < Base * Base PROVE x = q
    OBVIOUS
  <2>1. q < Base
    BY <1>1, QuotientBelow
  <2> QED
    BY <1>1, <1>2, <2>1
<1>5. TwoBytes(n) = <<x, y>>
  BY DEF TwoBytes
<1> HIDE DEF q, x, y
<1> DEFINE t == TwoBytes(n)
<1> HIDE DEF t
<1>6. t \in Seq(Byte) /\ Len(t) = 2 /\ t[1] = x /\ t[2] = y
  <2>1. x \in Byte /\ y \in Byte
    BY <1>2, <1>3
  <2> QED
    BY <1>5, <2>1, Pairs DEF t
<1>7. n < Base * Base => t[1] * Base + t[2] = n
  BY <1>2, <1>4, <1>6
<1> QED
  BY <1>6, <1>7 DEF t

\* The four bytes of a larger number give it back.
LEMMA FourBytesBack ==
  ASSUME NEW n \in Nat, n < Base * Base * Base * Base
  PROVE  LET t == TwoBytes(n \div (Base * Base)) \o TwoBytes(n)
         IN  /\ t \in Seq(Byte) /\ Len(t) = 4
             /\ ((t[1] * Base + t[2]) * Base + t[3]) * Base + t[4] = n
<1> DEFINE B == Base
           q == n \div B
           p == q \div B
           x == q % B
           y == n % B
<1>1. B \in Nat /\ B > 0
  BY Bases
<1>2. n = q * B + y /\ y \in Byte /\ q \in Nat
  BY <1>1, Division DEF Byte
<1>3. q = p * B + x /\ x \in Byte /\ p \in Nat
  BY <1>1, <1>2, Division DEF Byte
<1>4. n \div (B * B) = p
  BY <1>1, DivideTwice
<1>5. p < B * B
  <2>1. B * B * B \in Nat /\ B * B \in Nat
    BY <1>1
  <2>2. q < B * B * B
    BY <1>1, <2>1, QuotientBelow
  <2> QED
    BY <1>1, <1>2, <2>1, <2>2, QuotientBelow
<1>6. TwoBytes(n) = <<x, y>>
  BY DEF TwoBytes
<1> DEFINE h == TwoBytes(p)
<1>7. h \in Seq(Byte) /\ Len(h) = 2 /\ h[1] * B + h[2] = p
  BY <1>3, <1>5, TwoBytesBack
<1> HIDE DEF h, x, y
<1> DEFINE t == TwoBytes(n \div (Base * Base)) \o TwoBytes(n)
<1>8. t = h \o <<x, y>>
  BY <1>4, <1>6 DEF h
<1> HIDE DEF t
<1>9. /\ t \in Seq(Byte) /\ Len(t) = 4
      /\ t[1] = h[1] /\ t[2] = h[2] /\ t[3] = x /\ t[4] = y
  <2> DEFINE l == <<x, y>>
  <2>1. l \in Seq(Byte) /\ Len(l) = 2 /\ l[1] = x /\ l[2] = y
    BY <1>2, <1>3, Pairs
  <2> HIDE DEF l
  <2>2. /\ h \o l \in Seq(Byte) /\ Len(h \o l) = Len(h) + Len(l)
        /\ \A i \in 1..Len(h) + Len(l) : (h \o l)[i] = IF i <= Len(h) THEN h[i] ELSE l[i - Len(h)]
    BY <1>7, <2>1, ConcatProperties
  <2>3. t = h \o l
    BY <1>8 DEF l
  <2> QED
    BY <1>7, <2>1, <2>2, <2>3
<1>10. ((t[1] * B + t[2]) * B + t[3]) * B + t[4] = n
  BY <1>2, <1>3, <1>7, <1>9
<1> QED
  BY <1>9, <1>10 DEF t

----------------------------------------------------------------------------
\* The data holds a code at an offset, or ends within it.

Holds(data, at, code) ==
  /\ at + Len(code) <= Len(data) + 1
  /\ \A k \in 1..Len(code) : data[at + k - 1] = code[k]

EndsIn(data, at, code) ==
  /\ Len(data) + 1 < at + Len(code)
  /\ \A k \in 1..Len(code) : at + k - 1 <= Len(data) => data[at + k - 1] = code[k]

\* A code of two parts: the second one is behind the first one.
LEMMA HoldsParts ==
  ASSUME NEW data \in Seq(Nat), NEW at \in Offsets(data), NEW a \in Seq(Byte), NEW b \in Seq(Byte),
         Holds(data, at, a \o b)
  PROVE  /\ Holds(data, at, a)
         /\ at + Len(a) \in Offsets(data) /\ Holds(data, at + Len(a), b)
<1> DEFINE c == a \o b
<1>1. /\ Len(data) \in Nat /\ Len(a) \in Nat /\ Len(b) \in Nat /\ at \in 1..Len(data) + 1
  BY LenProperties DEF Offsets
<1>2. /\ Len(c) = Len(a) + Len(b)
      /\ \A k \in 1..Len(a) + Len(b) : c[k] = IF k <= Len(a) THEN a[k] ELSE b[k - Len(a)]
  BY ConcatProperties
<1> HIDE DEF c
<1>3. /\ at + Len(c) <= Len(data) + 1
      /\ \A k \in 1..Len(c) : data[at + k - 1] = c[k]
  BY DEF Holds, c
<1>4. Holds(data, at, a)
  <2>1. ASSUME NEW k \in 1..Len(a) PROVE data[at + k - 1] = a[k]
    <3>1. k \in 1..Len(c) /\ k \in 1..Len(a) + Len(b) /\ k <= Len(a)
      BY <1>1, <1>2
    <3>2. data[at + k - 1] = c[k]
      BY <1>3, <3>1
    <3>3. c[k] = a[k]
      BY <1>2, <3>1
    <3> QED
      BY <3>2, <3>3
  <2> QED
    BY <1>1, <1>2, <1>3, <2>1 DEF Holds
<1>5. Holds(data, at + Len(a), b)
  <2>1. ASSUME NEW k \in 1..Len(b) PROVE data[at + Len(a) + k - 1] = b[k]
    <3> DEFINE m == k + Len(a)
    <3>1. /\ m \in 1..Len(c) /\ m \in 1..Len(a) + Len(b) /\ ~(m <= Len(a))
          /\ m - Len(a) = k /\ at + m - 1 = at + Len(a) + k - 1
      BY <1>1, <1>2
    <3> HIDE DEF m
    <3>2. data[at + m - 1] = c[m]
      BY <1>3, <3>1
    <3>3. c[m] = b[k]
      BY <1>2, <3>1
    <3> QED
      BY <3>1, <3>2, <3>3
  <2> QED
    BY <1>1, <1>2, <1>3, <2>1 DEF Holds
<1> QED
  BY <1>1, <1>2, <1>3, <1>4, <1>5 DEF Offsets

\* Data that end within a code of two parts end in the first one, or in the second one
\* behind the whole first one.
LEMMA EndsInParts ==
  ASSUME NEW data \in Seq(Nat), NEW at \in Offsets(data), NEW a \in Seq(Byte), NEW b \in Seq(Byte),
         EndsIn(data, at, a \o b)
  PROVE  \/ EndsIn(data, at, a)
         \/ /\ Holds(data, at, a)
            /\ at + Len(a) \in Offsets(data) /\ EndsIn(data, at + Len(a), b)
<1> DEFINE c == a \o b
<1>1. /\ Len(data) \in Nat /\ Len(a) \in Nat /\ Len(b) \in Nat /\ at \in 1..Len(data) + 1
  BY LenProperties DEF Offsets
<1>2. /\ Len(c) = Len(a) + Len(b)
      /\ \A k \in 1..Len(a) + Len(b) : c[k] = IF k <= Len(a) THEN a[k] ELSE b[k - Len(a)]
  BY ConcatProperties
<1> HIDE DEF c
<1>3. /\ Len(data) + 1 < at + Len(c)
      /\ \A k \in 1..Len(c) : at + k - 1 <= Len(data) => data[at + k - 1] = c[k]
  BY DEF EndsIn, c
<1>4. ASSUME NEW k \in 1..Len(a), at + k - 1 <= Len(data) PROVE data[at + k - 1] = a[k]
  <2>1. k \in 1..Len(c) /\ k \in 1..Len(a) + Len(b) /\ k <= Len(a)
    BY <1>1, <1>2
  <2>2. data[at + k - 1] = c[k]
    BY <1>3, <1>4, <2>1
  <2>3. c[k] = a[k]
    BY <1>2, <2>1
  <2> QED
    BY <2>2, <2>3
<1>5. CASE Len(data) + 1 < at + Len(a)
  BY <1>4, <1>5 DEF EndsIn
<1>6. CASE at + Len(a) <= Len(data) + 1
  <2>1. \A k \in 1..Len(a) : at + k - 1 <= Len(data)
    BY <1>1, <1>6
  <2>2. Holds(data, at, a)
    BY <1>4, <1>6, <2>1 DEF Holds
  <2>3. ASSUME NEW k \in 1..Len(b), at + Len(a) + k - 1 <= Len(data)
        PROVE  data[at + Len(a) + k - 1] = b[k]
    <3> DEFINE m == k + Len(a)
    <3>1. /\ m \in 1..Len(c) /\ m \in 1..Len(a) + Len(b) /\ ~(m <= Len(a))
          /\ m - Len(a) = k /\ at + m - 1 = at + Len(a) + k - 1
      BY <1>1, <1>2
    <3> HIDE DEF m
    <3>2. data[at + m - 1] = c[m]
      BY <1>3, <2>3, <3>1
    <3>3. c[m] = b[k]
      BY <1>2, <3>1
    <3> QED
      BY <3>1, <3>2, <3>3
  <2>4. EndsIn(data, at + Len(a), b)
    BY <1>1, <1>2, <1>3, <2>3 DEF EndsIn
  <2> QED
    BY <1>1, <1>6, <2>2, <2>4 DEF Offsets
<1> QED
  BY <1>1, <1>5, <1>6

\* What a read gives of a code for a value, whole or not; a clip is what may be read of a
\* part of it.
Reads(data, at, code, read, value, clips) ==
  /\ Holds(data, at, code) => read = Value(value, at + Len(code))
  /\ EndsIn(data, at, code) => Thrown(read) \/ \E c \in clips : read = Value(c, Len(data) + 1)

\* A read that does not throw has a place to go on from.
LEMMA ThrowsThrown == Thrown(Throws) /\ \A v, n : n # 0 => ~Thrown(Value(v, n))
BY DEF Thrown, Throws, Value

\* Reading a byte, a number of bytes, and numbers of two and of four bytes.
LEMMA ByteRead ==
  ASSUME NEW data \in Seq(Nat), NEW at \in Offsets(data), NEW x \in Byte
  PROVE  Reads(data, at, <<x>>, ReadByte(data, at), x, {})
<1>1. Len(<<x>>) = 1 /\ <<x>>[1] = x /\ Len(data) \in Nat /\ at \in Nat /\ at + 1 - 1 = at
  BY LenProperties DEF Offsets
<1>2. ASSUME Holds(data, at, <<x>>) PROVE ReadByte(data, at) = Value(x, at + 1)
  <2>1. at + 1 <= Len(data) + 1 /\ data[at] = x
    BY <1>1, <1>2 DEF Holds
  <2> QED
    BY <1>1, <2>1 DEF ReadByte
<1>3. ASSUME EndsIn(data, at, <<x>>) PROVE Thrown(ReadByte(data, at))
  <2>1. Len(data) + 1 < at + 1
    BY <1>1, <1>3 DEF EndsIn
  <2> QED
    BY <1>1, <2>1, ThrowsThrown DEF ReadByte
<1> QED
  BY <1>1, <1>2, <1>3 DEF Reads

LEMMA BytesRead ==
  ASSUME NEW data \in Seq(Nat), NEW at \in Offsets(data), NEW code \in Seq(Byte)
  PROVE  Reads(data, at, code, ReadBytes(data, at, Len(code)), code, {})
<1> DEFINE n == Len(code)
<1>1. /\ Len(data) \in Nat /\ n \in Nat /\ at \in 1..Len(data) + 1
      /\ \A i \in 1..Len(data) : data[i] \in Nat
      /\ \A k \in 1..n : code[k] \in Byte
  BY LenProperties, ElementOfSeq DEF Offsets
<1>2. ASSUME Holds(data, at, code) PROVE ReadBytes(data, at, n) = Value(code, at + n)
  <2> DEFINE s == SubSeq(data, at, at + n - 1)
  <2>1. at + n <= Len(data) + 1 /\ \A k \in 1..n : data[at + k - 1] = code[k]
    BY <1>2 DEF Holds
  <2>2. /\ s \in Seq(Nat) /\ Len(s) = IF at <= at + n - 1 THEN at + n - 1 - at + 1 ELSE 0
        /\ \A i \in 1..at + n - 1 - at + 1 : s[i] = data[at + i - 1]
    <3>1. at \in Int /\ at + n - 1 \in Int /\ \A i \in at..at + n - 1 : data[i] \in Nat
      BY <1>1, <2>1
    <3> QED
      BY <3>1, SubSeqProperties
  <2>3. code \in Seq(Nat)
    BY Bases, SeqMonotonic DEF Byte
  <2> HIDE DEF s
  <2>4. Len(s) = n /\ \A i \in 1..n : s[i] = code[i]
    BY <1>1, <2>1, <2>2
  <2>5. s = code
    BY <2>2, <2>3, <2>4, SeqEqual
  <2>6. ~(at + n - 1 > Len(data))
    BY <1>1, <2>1
  <2> QED
    BY <2>5, <2>6 DEF ReadBytes, s
<1>3. ASSUME EndsIn(data, at, code) PROVE Thrown(ReadBytes(data, at, n))
  <2>1. at + n - 1 > Len(data)
    BY <1>1, <1>3 DEF EndsIn
  <2> QED
    BY <2>1, ThrowsThrown DEF ReadBytes
<1> QED
  BY <1>2, <1>3 DEF Reads

LEMMA TwoRead ==
  ASSUME NEW data \in Seq(Nat), NEW at \in Offsets(data), NEW n \in Nat, n < Base * Base
  PROVE  Reads(data, at, TwoBytes(n), ReadTwo(data, at), n, {})
<1> DEFINE t == TwoBytes(n)
<1>1. t \in Seq(Byte) /\ Len(t) = 2 /\ t[1] * Base + t[2] = n
  BY TwoBytesBack
<1> HIDE DEF t
<1>2. Reads(data, at, t, ReadBytes(data, at, 2), t, {}) /\ at \in Nat
  <2>1. Reads(data, at, t, ReadBytes(data, at, Len(t)), t, {})
    BY <1>1, BytesRead
  <2> QED
    BY <1>1, <2>1 DEF Offsets
<1>3. ASSUME Holds(data, at, t) PROVE ReadTwo(data, at) = Value(n, at + Len(t))
  <2>1. ReadBytes(data, at, 2) = Value(t, at + 2)
    BY <1>1, <1>2, <1>3 DEF Reads
  <2> QED
    BY <1>1, <1>2, <2>1 DEF ReadTwo, Then, Thrown, Value
<1>4. ASSUME EndsIn(data, at, t) PROVE Thrown(ReadTwo(data, at))
  <2>1. Thrown(ReadBytes(data, at, 2))
    BY <1>2, <1>4 DEF Reads
  <2> QED
    BY <2>1, ThrowsThrown DEF ReadTwo, Then
<1> QED
  BY <1>3, <1>4 DEF Reads, t

LEMMA FourRead ==
  ASSUME NEW data \in Seq(Nat), NEW at \in Offsets(data), NEW n \in Nat, n < Base * Base * Base * Base
  PROVE  Reads(data, at, TwoBytes(n \div (Base * Base)) \o TwoBytes(n), ReadFour(data, at), n, {})
<1> DEFINE t == TwoBytes(n \div (Base * Base)) \o TwoBytes(n)
<1>1. t \in Seq(Byte) /\ Len(t) = 4 /\ ((t[1] * Base + t[2]) * Base + t[3]) * Base + t[4] = n
  BY FourBytesBack
<1> HIDE DEF t
<1>2. Reads(data, at, t, ReadBytes(data, at, 4), t, {}) /\ at \in Nat
  <2>1. Reads(data, at, t, ReadBytes(data, at, Len(t)), t, {})
    BY <1>1, BytesRead
  <2> QED
    BY <1>1, <2>1 DEF Offsets
<1>3. ASSUME Holds(data, at, t) PROVE ReadFour(data, at) = Value(n, at + Len(t))
  <2>1. ReadBytes(data, at, 4) = Value(t, at + 4)
    BY <1>1, <1>2, <1>3 DEF Reads
  <2> QED
    BY <1>1, <1>2, <2>1 DEF ReadFour, Then, Thrown, Value
<1>4. ASSUME EndsIn(data, at, t) PROVE Thrown(ReadFour(data, at))
  <2>1. Thrown(ReadBytes(data, at, 4))
    BY <1>2, <1>4 DEF Reads
  <2> QED
    BY <2>1, ThrowsThrown DEF ReadFour, Then
<1> QED
  BY <1>3, <1>4 DEF Reads, t

\* One read after the other: what is read of both parts is read of the second one.
LEMMA ReadsThen ==
  ASSUME NEW data \in Seq(Nat), NEW at \in Offsets(data), NEW a \in Seq(Byte), NEW b \in Seq(Byte),
         NEW first, NEW v, NEW whole, NEW w, NEW clips,
         Reads(data, at, a, first, v, {}),
         Thrown(first) => Thrown(whole),
         at + Len(a) \in Offsets(data) /\ first = Value(v, at + Len(a))
           => Reads(data, at + Len(a), b, whole, w, clips)
  PROVE  Reads(data, at, a \o b, whole, w, clips)
<1>1. at \in Nat /\ Len(a) \in Nat /\ Len(b) \in Nat
  BY LenProperties DEF Offsets
<1>2. Len(a \o b) = Len(a) + Len(b)
  BY ConcatProperties
<1>3. ASSUME Holds(data, at, a \o b) PROVE whole = Value(w, at + Len(a \o b))
  <2>1. Holds(data, at, a) /\ at + Len(a) \in Offsets(data) /\ Holds(data, at + Len(a), b)
    BY <1>3, HoldsParts
  <2>2. whole = Value(w, at + Len(a) + Len(b))
    BY <2>1 DEF Reads
  <2>3. at + Len(a) + Len(b) = at + Len(a \o b)
    BY <1>1, <1>2
  <2> QED
    BY <2>2, <2>3
<1>4. ASSUME EndsIn(data, at, a \o b)
      PROVE  Thrown(whole) \/ \E c \in clips : whole = Value(c, Len(data) + 1)
  <2>1. CASE EndsIn(data, at, a)
    BY <2>1 DEF Reads
  <2>2. CASE Holds(data, at, a) /\ at + Len(a) \in Offsets(data) /\ EndsIn(data, at + Len(a), b)
    BY <2>2 DEF Reads
  <2> QED
    BY <1>4, <2>1, <2>2, EndsInParts
<1> QED
  BY <1>3, <1>4 DEF Reads

\* A read of what another one gave.
LEMMA ReadsMap ==
  ASSUME NEW data, NEW at, NEW code, NEW first, NEW v, NEW whole, NEW w,
         Reads(data, at, code, first, v, {}),
         Thrown(first) => Thrown(whole),
         first = Value(v, at + Len(code)) => whole = Value(w, at + Len(code))
  PROVE  Reads(data, at, code, whole, w, {})
BY DEF Reads

----------------------------------------------------------------------------
\* Sizes of lists and texts.

\* The tags are told apart where the reader has to.
LEMMA Tags ==
  /\ {LIST_EMPTY, LIST_8, LIST_16, BINARY_8, BINARY_32, TEXT, TOKEN} \in SUBSET Byte
  /\ LIST_EMPTY # LIST_8 /\ LIST_EMPTY # LIST_16 /\ LIST_8 # LIST_16
  /\ BINARY_8 # BINARY_32 /\ TEXT # TOKEN
  /\ {BINARY_8, BINARY_32} \cap {LIST_EMPTY, LIST_8, LIST_16} = {}
BY Bases DEF LIST_EMPTY, LIST_8, LIST_16, BINARY_8, BINARY_32, TEXT, TOKEN, Byte

\* A tag in front of a code.
LEMMA TagCode ==
  ASSUME NEW tag \in Byte, NEW rest \in Seq(Byte)
  PROVE  /\ <<tag>> \in Seq(Byte) /\ Len(<<tag>>) = 1
         /\ <<tag>> \o rest \in Seq(Byte) /\ Len(<<tag>> \o rest) = 1 + Len(rest)
<1> DEFINE h == <<tag>>
<1>1. h \in Seq(Byte) /\ Len(h) = 1
  OBVIOUS
<1> HIDE DEF h
<1>2. h \o rest \in Seq(Byte) /\ Len(h \o rest) = Len(h) + Len(rest)
  BY <1>1, ConcatProperties
<1> QED
  BY <1>1, <1>2 DEF h

\* The header of a list, and what readListSize makes of it.
LEMMA HeaderCode ==
  ASSUME NEW n \in Nat, n < Base * Base
  PROVE  ListHeader(n) \in Seq(Byte) /\ Len(ListHeader(n)) > 0
<1>1. n < Base => n \in Byte
  BY Bases DEF Byte
<1>2. TwoBytes(n) \in Seq(Byte) /\ Len(TwoBytes(n)) = 2
  BY TwoBytesBack
<1>3. CASE n = 0
  BY <1>3, Tags DEF ListHeader
<1>4. CASE n # 0 /\ n < Base
  BY <1>1, <1>4, Tags, Pairs DEF ListHeader
<1>5. CASE n # 0 /\ ~(n < Base)
  <2>1. LIST_16 \in Byte
    BY Tags
  <2> QED
    BY <1>2, <1>5, <2>1, TagCode DEF ListHeader
<1> QED
  BY <1>3, <1>4, <1>5

\* A reader that goes by its first byte.
LEMMA TagThen ==
  ASSUME NEW data \in Seq(Nat), NEW at \in Offsets(data), NEW tag \in Byte, NEW rest \in Seq(Byte),
         NEW read, NEW v,
         Thrown(ReadByte(data, at)) => Thrown(read),
         at + 1 \in Offsets(data) /\ ReadByte(data, at) = Value(tag, at + 1)
           => Reads(data, at + 1, rest, read, v, {})
  PROVE  Reads(data, at, <<tag>> \o rest, read, v, {})
<1> DEFINE h == <<tag>>
<1>1. h \in Seq(Byte) /\ Len(h) = 1 /\ Reads(data, at, h, ReadByte(data, at), tag, {})
  BY ByteRead
<1> HIDE DEF h
<1>2. Reads(data, at, h \o rest, read, v, {})
  BY <1>1, ReadsThen
<1> QED
  BY <1>2 DEF h

LEMMA HeaderRead ==
  ASSUME NEW data \in Seq(Nat), NEW at \in Offsets(data), NEW n \in Nat, n < Base * Base
  PROVE  Reads(data, at, ListHeader(n), ReadListSize(data, at), n, {})
<1> DEFINE read == ReadListSize(data, at)
<1>1. at \in Nat /\ at + 1 # 0 /\ (n < Base => n \in Byte)
  BY Bases DEF Byte, Offsets
<1>2. Thrown(ReadByte(data, at)) => Thrown(read)
  BY ThrowsThrown DEF ReadListSize, Then
<1>3. ASSUME NEW tag, ReadByte(data, at) = Value(tag, at + 1)
      PROVE  /\ tag = LIST_EMPTY => read = Value(0, at + 1)
             /\ tag = LIST_8 => read = ReadByte(data, at + 1)
             /\ tag = LIST_16 => read = ReadTwo(data, at + 1)
  BY <1>1, <1>3, Tags DEF ReadListSize, Then, Thrown, Value
<1> HIDE DEF read
<1>4. CASE n = 0
  <2>1. LIST_EMPTY \in Byte /\ Len(<<LIST_EMPTY>>) = 1
    BY Tags
  <2>2. Reads(data, at, <<LIST_EMPTY>>, ReadByte(data, at), LIST_EMPTY, {})
    BY <2>1, ByteRead
  <2>3. Reads(data, at, <<LIST_EMPTY>>, read, n, {})
    BY <1>2, <1>3, <1>4, <2>1, <2>2 DEF Reads
  <2> QED
    BY <1>4, <2>3 DEF ListHeader, read
<1>5. CASE n # 0 /\ n < Base
  <2> DEFINE rest == <<n>>
  <2>1. LIST_8 \in Byte /\ n \in Byte /\ rest \in Seq(Byte)
    BY <1>1, <1>5, Tags
  <2>2. at + 1 \in Offsets(data) => Reads(data, at + 1, rest, ReadByte(data, at + 1), n, {})
    BY <2>1, ByteRead
  <2>3. ListHeader(n) = <<LIST_8>> \o rest
    BY <1>5, <2>1 DEF ListHeader
  <2> HIDE DEF rest
  <2>4. Reads(data, at, <<LIST_8>> \o rest, read, n, {})
    BY <1>2, <1>3, <2>1, <2>2, TagThen
  <2> QED
    BY <2>3, <2>4 DEF read
<1>6. CASE n # 0 /\ ~(n < Base)
  <2> DEFINE rest == TwoBytes(n)
  <2>1. LIST_16 \in Byte /\ rest \in Seq(Byte)
    BY Tags, TwoBytesBack
  <2>2. at + 1 \in Offsets(data) => Reads(data, at + 1, rest, ReadTwo(data, at + 1), n, {})
    BY TwoRead
  <2>3. ListHeader(n) = <<LIST_16>> \o rest
    BY <1>6 DEF ListHeader
  <2> HIDE DEF rest
  <2>4. Reads(data, at, <<LIST_16>> \o rest, read, n, {})
    BY <1>2, <1>3, <2>1, <2>2, TagThen
  <2> QED
    BY <2>3, <2>4 DEF read
<1> QED
  BY <1>4, <1>5, <1>6

\* The words of a text have a byte each, which gives them back.
LEMMA Utf8Code ==
  ASSUME NEW text \in Texts
  PROVE  /\ Len(text) \in Nat
         /\ Utf8(text) \in Seq(Byte) /\ Len(Utf8(text)) = Len(text)
         /\ TextOf(Utf8(text)) = text
<1> DEFINE i(k) == CHOOSE j \in 1..Len(Words) : Words[j] = text[k]
<1>1. Len(text) \in Nat /\ text \in Seq(Range(Words)) /\ Len(Words) \in Nat /\ DOMAIN Words = 1..Len(Words)
  BY CodecAssumption, LenProperties DEF Texts
<1>2. ASSUME NEW k \in 1..Len(text) PROVE i(k) \in 1..Len(Words) /\ Words[i(k)] = text[k]
  <2>1. text[k] \in Range(Words)
    BY <1>1, ElementOfSeq
  <2>2. \E j \in 1..Len(Words) : Words[j] = text[k]
    BY <1>1, <2>1 DEF Range
  <2> QED
    BY <2>2
<1>3. \A k \in 1..Len(text) : i(k) - 1 \in Byte /\ i(k) - 1 + 1 = i(k)
  BY <1>1, <1>2, CodecAssumption DEF Byte
<1>4. Utf8(text) = [k \in 1..Len(text) |-> i(k) - 1]
  BY DEF Utf8
<1> HIDE DEF i
<1> DEFINE code == Utf8(text)
<1> HIDE DEF code
<1>5. code \in [1..Len(text) -> Byte] /\ \A k \in 1..Len(text) : code[k] = i(k) - 1
  BY <1>3, <1>4 DEF code
<1>6. code \in Seq(Byte) /\ Len(code) = Len(text)
  BY <1>1, <1>5
<1>7. TextOf(code) = text
  <2>1. TextOf(code) = [k \in 1..Len(text) |-> Words[code[k] + 1]]
    BY <1>6 DEF TextOf
  <2>2. \A k \in 1..Len(text) : Words[code[k] + 1] = text[k]
    BY <1>2, <1>3, <1>5
  <2>3. TextOf(code) = [k \in 1..Len(text) |-> text[k]]
    BY <2>1, <2>2
  <2>4. text = [k \in 1..Len(text) |-> text[k]]
    BY <1>1, LenProperties
  <2> QED
    BY <2>3, <2>4
<1> QED
  BY <1>1, <1>6, <1>7 DEF code

\* A text is a token, or its length and its bytes; readString reads either.
LEMMA TokenCode ==
  ASSUME NEW text, TokenIndexes(text) # {}
  PROVE  \E i \in Byte : /\ WriteString(text) = <<TOKEN>> \o <<i>>
                         /\ i < Len(Tokens) /\ Tokens[i + 1] = text
<1> DEFINE i == (CHOOSE j \in TokenIndexes(text) : TRUE) - 1
<1>1. i + 1 \in TokenIndexes(text) /\ i + 1 \in 1..Len(Tokens) /\ Tokens[i + 1] = text /\ i \in Int
  <2>1. (CHOOSE j \in TokenIndexes(text) : TRUE) \in TokenIndexes(text)
    OBVIOUS
  <2>2. \A j \in TokenIndexes(text) : j \in 1..Len(Tokens) /\ Tokens[j] = text /\ j - 1 + 1 = j
    BY DEF TokenIndexes
  <2> QED
    BY <2>1, <2>2
<1>2. i \in Byte /\ i < Len(Tokens)
  <2>1. Len(Tokens) \in Nat /\ Len(Tokens) <= Base /\ Base \in Nat
    BY CodecAssumption, LenProperties
  <2> QED
    BY <1>1, <2>1 DEF Byte
<1>3. WriteString(text) = <<TOKEN, i>>
  BY DEF WriteString
<1> HIDE DEF i
<1>4. <<TOKEN, i>> = <<TOKEN>> \o <<i>>
  OBVIOUS
<1> QED
  BY <1>1, <1>2, <1>3, <1>4

LEMMA TextCode ==
  ASSUME NEW text \in ShortText, TokenIndexes(text) = {}
  PROVE  /\ WriteString(text) = <<TEXT>> \o (TwoBytes(Len(text)) \o Utf8(text))
         /\ TwoBytes(Len(text)) \o Utf8(text) \in Seq(Byte)
<1>1. text \in Texts
  BY DEF ShortText, Short, Texts
<1>2. TwoBytes(Len(text)) \in Seq(Byte) /\ Utf8(text) \in Seq(Byte)
  BY <1>1, Utf8Code, TwoBytesBack
<1>3. TwoBytes(Len(text)) \o Utf8(text) \in Seq(Byte)
  BY <1>2, ConcatProperties
<1>4. <<TEXT>> \in Seq(Byte)
  BY Tags
<1>5. WriteString(text) = (<<TEXT>> \o TwoBytes(Len(text))) \o Utf8(text)
  BY DEF WriteString
<1> QED
  BY <1>2, <1>3, <1>4, <1>5, ConcatAssociative

LEMMA StringCode ==
  ASSUME NEW text \in ShortText
  PROVE  WriteString(text) \in Seq(Byte) /\ Len(WriteString(text)) > 0
<1>1. TOKEN \in Byte /\ TEXT \in Byte
  BY Tags
<1>2. CASE TokenIndexes(text) # {}
  <2>1. PICK i \in Byte : WriteString(text) = <<TOKEN>> \o <<i>>
    BY <1>2, TokenCode
  <2>2. <<i>> \in Seq(Byte) /\ Len(<<i>>) = 1
    OBVIOUS
  <2> QED
    BY <1>1, <2>1, <2>2, TagCode
<1>3. CASE TokenIndexes(text) = {}
  <2> DEFINE rest == TwoBytes(Len(text)) \o Utf8(text)
  <2>1. WriteString(text) = <<TEXT>> \o rest /\ rest \in Seq(Byte)
    BY <1>3, TextCode
  <2> HIDE DEF rest
  <2>2. Len(rest) \in Nat
    BY <2>1, LenProperties
  <2> QED
    BY <1>1, <2>1, <2>2, TagCode
<1> QED
  BY <1>2, <1>3

LEMMA StringRead ==
  ASSUME NEW data \in Seq(Nat), NEW at \in Offsets(data), NEW text \in ShortText
  PROVE  Reads(data, at, WriteString(text), ReadString(data, at), text, {})
<1> DEFINE read == ReadString(data, at)
           next == at + 1
           afterToken == Then(ReadByte(data, next), LAMBDA i, rest :
                           IF i < Len(Tokens) THEN Value(Tokens[i + 1], rest) ELSE Throws)
           afterLength(length, start) ==
             Then(ReadBytes(data, start, length), LAMBDA bytes, rest : Value(TextOf(bytes), rest))
           afterText == Then(ReadTwo(data, next), LAMBDA length, start : afterLength(length, start))
<1>1. at \in Nat /\ next \in Nat /\ next # 0
  BY DEF Offsets
<1>2. Thrown(ReadByte(data, at)) => Thrown(read)
  BY ThrowsThrown DEF ReadString, Then
<1>3. ASSUME NEW tag, ReadByte(data, at) = Value(tag, next)
      PROVE  (tag = TOKEN => read = afterToken) /\ (tag = TEXT => read = afterText)
  BY <1>1, <1>3, Tags DEF ReadString, Then, Thrown, Value
<1> HIDE DEF read
<1>4. CASE TokenIndexes(text) # {}
  <2>1. PICK i \in Byte : /\ WriteString(text) = <<TOKEN>> \o <<i>>
                          /\ i < Len(Tokens) /\ Tokens[i + 1] = text
    BY <1>4, TokenCode
  <2> DEFINE rest == <<i>>
  <2>2. TOKEN \in Byte /\ rest \in Seq(Byte) /\ Len(rest) = 1
    BY Tags
  <2>3. ASSUME next \in Offsets(data) PROVE Reads(data, next, rest, afterToken, text, {})
    <3>1. Reads(data, next, rest, ReadByte(data, next), i, {})
      BY <2>3, ByteRead
    <3>2. Thrown(ReadByte(data, next)) => Thrown(afterToken)
      BY ThrowsThrown DEF Then
    <3>3. ReadByte(data, next) = Value(i, next + 1) => afterToken = Value(text, next + 1)
      BY <1>1, <2>1 DEF Then, Thrown, Value
    <3> HIDE DEF rest, afterToken
    <3> QED
      BY <2>2, <3>1, <3>2, <3>3, ReadsMap
  <2> HIDE DEF rest, afterToken
  <2>4. Reads(data, at, <<TOKEN>> \o rest, read, text, {})
    BY <1>2, <1>3, <2>2, <2>3, TagThen
  <2> QED
    BY <2>1, <2>4 DEF rest, read
<1>5. CASE TokenIndexes(text) = {}
  <2> DEFINE n == Len(text)
             two == TwoBytes(n)
             code == Utf8(text)
  <2>1. WriteString(text) = <<TEXT>> \o (two \o code) /\ two \o code \in Seq(Byte)
    BY <1>5, TextCode
  <2>2. /\ text \in Texts /\ n \in Nat /\ n < Base * Base
        /\ code \in Seq(Byte) /\ Len(code) = n /\ TextOf(code) = text
        /\ two \in Seq(Byte) /\ Len(two) = 2
    BY Utf8Code, TwoBytesBack DEF ShortText, Short, Texts
  <2>3. ASSUME next \in Offsets(data) PROVE Reads(data, next, two \o code, afterText, text, {})
    <3>1. Reads(data, next, two, ReadTwo(data, next), n, {})
      BY <2>2, <2>3, TwoRead
    <3>2. Thrown(ReadTwo(data, next)) => Thrown(afterText)
      BY ThrowsThrown DEF Then
    <3>3. ASSUME next + 2 \in Offsets(data), ReadTwo(data, next) = Value(n, next + 2)
          PROVE  Reads(data, next + 2, code, afterText, text, {})
      <4> DEFINE bytes == ReadBytes(data, next + 2, n)
      <4>1. Reads(data, next + 2, code, bytes, code, {})
        BY <2>2, <3>3, BytesRead
      <4>2. afterText = afterLength(n, next + 2)
        BY <1>1, <3>3 DEF Then, Thrown, Value
      <4>3. Thrown(bytes) => Thrown(afterText)
        BY <4>2, ThrowsThrown DEF Then
      <4>4. bytes = Value(code, next + 2 + n) => afterText = Value(text, next + 2 + n)
        BY <1>1, <2>2, <4>2 DEF Then, Thrown, Value
      <4> HIDE DEF bytes, afterText, code, n
      <4> QED
        BY <2>2, <4>1, <4>3, <4>4, ReadsMap
    <3> HIDE DEF afterText, two, code, n
    <3> QED
      BY <2>2, <2>3, <3>1, <3>2, <3>3, ReadsThen
  <2> HIDE DEF afterText, two, code
  <2>4. TEXT \in Byte
    BY Tags
  <2>5. Reads(data, at, <<TEXT>> \o (two \o code), read, text, {})
    BY <1>2, <1>3, <2>1, <2>3, <2>4, TagThen
  <2> QED
    BY <2>1, <2>5 DEF read
<1> QED
  BY <1>4, <1>5

----------------------------------------------------------------------------
\* Lists.  Each recursive function has a solution, which is what it is.

\* The codes of a list, one behind the other.
LEMMA FlattenLaw ==
  ASSUME NEW S, NEW codes \in Seq(Seq(S))
  PROVE  \E f : /\ FlattenSeq(codes) = f[Len(codes)] /\ f[0] = <<>>
                /\ \A k \in 1..Len(codes) : f[k] = f[k - 1] \o codes[k]
                /\ \A k \in 0..Len(codes) : f[k] \in Seq(S)
<1> DEFINE n == Len(codes)
           Join(s, i) == s \o codes[i]
           Step(f, i) == IF i = 1 THEN codes[i] ELSE Join(f[i - 1], i)
           Solves(f, k) == f = [i \in 1..k |-> Step(f, i)]
<1>1. n \in Nat /\ \A k \in 1..n : codes[k] \in Seq(S)
  BY LenProperties, ElementOfSeq
<1> HIDE DEF Join
<1>2. ASSUME NEW k \in Nat PROVE \E f : Solves(f, k)
  <2> DEFINE T == {i \in Nat : \E f : Solves(f, i)}
  <2>1. 0 \in T
    <3>1. Solves([i \in 1..0 |-> <<>>], 0)
      OBVIOUS
    <3> QED
      BY <3>1
  <2>2. ASSUME NEW i \in Nat, i \in T PROVE i + 1 \in T
    <3>1. PICK g : Solves(g, i)
      BY <2>2
    <3> DEFINE h == [j \in 1..i + 1 |-> Step(g, j)]
    <3>2. h = [j \in 1..i + 1 |-> h[j]] /\ \A j \in 1..i + 1 : h[j] = Step(g, j)
      OBVIOUS
    <3> HIDE DEF h
    <3>3. \A j \in 1..i : h[j] = g[j]
      <4>1. \A j \in 1..i : j \in 1..i + 1 /\ g[j] = Step(g, j)
        BY <3>1
      <4> HIDE DEF Step
      <4> QED
        BY <3>2, <4>1
    <3>4. \A j \in 1..i + 1 : j # 1 => j - 1 \in 1..i
      OBVIOUS
    <3>5. \A j \in 1..i + 1 : h[j] = Step(h, j)
      BY <3>2, <3>3, <3>4
    <3>6. Solves(h, i + 1)
      BY <3>2, <3>5
    <3> QED
      BY <3>6
  <2> HIDE DEF T
  <2>3. k \in T
    BY <2>1, <2>2, SetInduction
  <2> QED
    BY <2>3 DEF T
<1> DEFINE g == CHOOSE f : Solves(f, n)
<1>3. Solves(g, n)
  BY <1>1, <1>2
<1>4. FlattenSeq(codes) = IF n = 0 THEN codes ELSE g[n]
  BY DEF FlattenSeq, Join
<1> HIDE DEF g
<1> DEFINE f == [k \in 0..n |-> IF k = 0 THEN <<>> ELSE g[k]]
<1>5. f[0] = <<>> /\ \A k \in 1..n : f[k] = g[k]
  BY <1>1
<1> HIDE DEF f
<1>6. FlattenSeq(codes) = f[n]
  <2>1. CASE n = 0
    <3>1. codes = <<>>
      BY <2>1, EmptySeq
    <3> QED
      BY <1>4, <1>5, <2>1, <3>1
  <2>2. CASE n # 0
    <3>1. n \in 1..n
      BY <1>1, <2>2
    <3> QED
      BY <1>4, <1>5, <2>2, <3>1
  <2> QED
    BY <2>1, <2>2
<1>7. ASSUME NEW k \in 1..n PROVE f[k] = f[k - 1] \o codes[k]
  <2>1. g[k] = Step(g, k) /\ f[k] = g[k]
    BY <1>3, <1>5
  <2>2. CASE k = 1
    <3>1. f[k - 1] = <<>> /\ codes[k] \in Seq(S) /\ f[k] = codes[k]
      BY <1>1, <1>5, <2>1, <2>2
    <3> QED
      BY <3>1, ConcatEmptySeq
  <2>3. CASE k # 1
    <3>1. k - 1 \in 1..n
      BY <1>1, <2>3
    <3> QED
      BY <1>5, <2>1, <2>3, <3>1 DEF Join
  <2> QED
    BY <2>2, <2>3
<1>8. ASSUME NEW k \in 0..n PROVE f[k] \in Seq(S)
  <2> DEFINE T == {i \in Nat : i <= n => f[i] \in Seq(S)}
  <2>1. 0 \in T
    BY <1>5, EmptySeq
  <2>2. ASSUME NEW i \in Nat, i \in T PROVE i + 1 \in T
    <3>1. CASE i + 1 <= n
      <4> DEFINE m == i + 1
      <4>1. i <= n /\ m \in 1..n /\ m - 1 = i
        BY <1>1, <3>1
      <4>2. f[i] \in Seq(S) /\ codes[m] \in Seq(S)
        BY <1>1, <2>2, <4>1
      <4> HIDE DEF m
      <4>3. f[m] = f[i] \o codes[m]
        BY <1>7, <4>1
      <4>4. f[m] \in Seq(S)
        BY <4>2, <4>3, ConcatProperties
      <4> QED
        BY <4>4 DEF m
    <3>2. CASE ~(i + 1 <= n)
      BY <3>2
    <3> QED
      BY <3>1, <3>2
  <2> HIDE DEF T
  <2>3. k \in Nat /\ k <= n
    BY <1>1
  <2>4. k \in T
    BY <2>1, <2>2, <2>3, SetInduction
  <2> QED
    BY <2>3, <2>4 DEF T
<1> QED
  BY <1>5, <1>6, <1>7, <1>8

AppendRead(items, read) == Then(read, LAMBDA item, rest : Value(Append(items, item), rest))
OneRead(read, many) == Then(many, LAMBDA items, next : AppendRead(items, read[next]))

\* One element more: a throw stays a throw.
LEMMA OneReadLaw ==
  ASSUME NEW read
  PROVE  /\ \A m : Thrown(m) => Thrown(OneRead(read, m))
         /\ \A s, p : p # 0 /\ Thrown(read[p]) => Thrown(OneRead(read, Value(s, p)))
         /\ \A s, p, x, q :
              p # 0 /\ q # 0 /\ read[p] = Value(x, q) => OneRead(read, Value(s, p)) = Value(Append(s, x), q)
<1>1. \A s, r : Thrown(r) => Thrown(AppendRead(s, r))
  BY ThrowsThrown DEF AppendRead, Then
<1>2. \A s, x, q : q # 0 => AppendRead(s, Value(x, q)) = Value(Append(s, x), q)
  BY DEF AppendRead, Then, Thrown, Value
<1>3. \A m : Thrown(m) => Thrown(OneRead(read, m))
  BY ThrowsThrown DEF OneRead, Then
<1>4. \A s, p : p # 0 => OneRead(read, Value(s, p)) = AppendRead(s, read[p])
  BY DEF OneRead, Then, Thrown, Value
<1> QED
  BY <1>1, <1>2, <1>3, <1>4

Many(read, at, n) ==
  CHOOSE f : f = [k \in 0..n |-> IF k = 0 THEN Value(<<>>, at) ELSE OneRead(read, f[k - 1])]

\* ReadMany is the last of the reads of no element, one element, and so on.
LEMMA ManyLaw ==
  ASSUME NEW read, NEW at, NEW n \in Nat
  PROVE  /\ ReadMany(read, at, n) = Many(read, at, n)[n]
         /\ Many(read, at, n)[0] = Value(<<>>, at)
         /\ \A k \in 1..n : Many(read, at, n)[k] = OneRead(read, Many(read, at, n)[k - 1])
<1> DEFINE Next(m) == OneRead(read, m)
           Step(f, i) == IF i = 0 THEN Value(<<>>, at) ELSE Next(f[i - 1])
           Solves(f, k) == f = [i \in 0..k |-> Step(f, i)]
<1> HIDE DEF Next
<1>1. ASSUME NEW k \in Nat PROVE \E f : Solves(f, k)
  <2> DEFINE T == {i \in Nat : \E f : Solves(f, i)}
  <2>1. 0 \in T
    <3>1. Solves([i \in 0..0 |-> Step(<<>>, 0)], 0)
      OBVIOUS
    <3> QED
      BY <3>1
  <2>2. ASSUME NEW i \in Nat, i \in T PROVE i + 1 \in T
    <3>1. PICK g : Solves(g, i)
      BY <2>2
    <3> DEFINE h == [j \in 0..i + 1 |-> Step(g, j)]
    <3>2. h = [j \in 0..i + 1 |-> h[j]] /\ \A j \in 0..i + 1 : h[j] = Step(g, j)
      OBVIOUS
    <3> HIDE DEF h
    <3>3. \A j \in 0..i : h[j] = g[j]
      BY <3>1, <3>2
    <3>4. \A j \in 0..i + 1 : j # 0 => j - 1 \in 0..i
      OBVIOUS
    <3>5. \A j \in 0..i + 1 : h[j] = Step(h, j)
      BY <3>2, <3>3, <3>4
    <3>6. Solves(h, i + 1)
      BY <3>2, <3>5
    <3> QED
      BY <3>6
  <2> HIDE DEF T
  <2>3. k \in T
    BY <2>1, <2>2, SetInduction
  <2> QED
    BY <2>3 DEF T
<1> DEFINE g == CHOOSE f : Solves(f, n)
<1>2. Solves(g, n)
  BY <1>1
<1>3. ReadMany(read, at, n) = g[n]
  BY DEF ReadMany, Next, OneRead, AppendRead
<1>4. Many(read, at, n) = g
  BY DEF Many, Next
<1> HIDE DEF g
<1>5. g[0] = Value(<<>>, at) /\ \A k \in 1..n : g[k] = OneRead(read, g[k - 1])
  BY <1>2 DEF Next
<1> QED
  BY <1>3, <1>4, <1>5

\* The first elements of a sequence, one more.
LEMMA OneMore ==
  ASSUME NEW V, NEW s \in Seq(V), NEW k \in Nat, k + 1 <= Len(s)
  PROVE  Append(SubSeq(s, 1, k), s[k + 1]) = SubSeq(s, 1, k + 1)
<1> DEFINE m == k + 1
<1>1. Len(s) \in Nat /\ s \in [1..Len(s) -> V]
  BY LenProperties
<1>2. k \in 0..Len(s) /\ m \in 1..Len(s) /\ m - 1 = k
  BY <1>1
<1> HIDE DEF m
<1>3. SubSeq(s, 1, m) = SubSeq(s, 1, m - 1) \o <<s[m]>>
  BY <1>2, SubSeqRecursiveSecond
<1> DEFINE f == SubSeq(s, 1, k)
           x == s[m]
<1>4. f \in Seq(V)
  <2>1. \A i \in 1..k : s[i] \in V
    BY <1>1, <1>2
  <2> QED
    BY <1>2, <2>1, SubSeqProperties
<1>5. x \in V
  BY <1>1, <1>2
<1>6. SubSeq(s, 1, m) = f \o <<x>>
  BY <1>2, <1>3
<1> HIDE DEF f, x
<1>7. Append(f, x) = f \o <<x>>
  BY <1>4, <1>5, AppendIsConcat
<1> QED
  BY <1>6, <1>7 DEF f, x, m

\* Reading one element more is reading them all and then one.
LEMMA ManyNext ==
  ASSUME NEW read, NEW at, NEW n \in Nat
  PROVE  /\ ReadMany(read, at, 0) = Value(<<>>, at)
         /\ ReadMany(read, at, n + 1) = OneRead(read, ReadMany(read, at, n))
<1> DEFINE m == n + 1
<1>1. m \in Nat /\ m \in 1..m /\ m - 1 = n /\ \A k \in 1..n : k \in 1..m
  OBVIOUS
<1> DEFINE f == Many(read, at, n)
           g == Many(read, at, m)
<1> HIDE DEF m
<1>2. /\ ReadMany(read, at, n) = f[n]
      /\ f[0] = Value(<<>>, at)
      /\ \A k \in 1..n : f[k] = OneRead(read, f[k - 1])
  BY ManyLaw
<1>3. /\ ReadMany(read, at, m) = g[m]
      /\ g[0] = Value(<<>>, at)
      /\ \A k \in 1..m : g[k] = OneRead(read, g[k - 1])
  BY <1>1, ManyLaw
<1> HIDE DEF f, g
<1>4. f[n] = g[n]
  <2> DEFINE T == {k \in Nat : k <= n => f[k] = g[k]}
  <2>1. 0 \in T
    BY <1>2, <1>3
  <2>2. ASSUME NEW k \in Nat, k \in T PROVE k + 1 \in T
    <3>1. CASE k + 1 <= n
      <4> DEFINE l == k + 1
      <4>1. l \in 1..n /\ l \in 1..m /\ l - 1 = k /\ f[k] = g[k]
        BY <1>1, <2>2, <3>1
      <4> HIDE DEF l
      <4>2. f[l] = g[l]
        BY <1>2, <1>3, <4>1
      <4> QED
        BY <4>2 DEF l
    <3>2. CASE ~(k + 1 <= n)
      BY <3>2
    <3> QED
      BY <3>1, <3>2
  <2> HIDE DEF T
  <2>3. n \in T
    BY <2>1, <2>2, SetInduction
  <2> QED
    BY <2>3 DEF T
<1>5. ReadMany(read, at, m) = OneRead(read, ReadMany(read, at, n))
  BY <1>1, <1>2, <1>3, <1>4
<1>6. ReadMany(read, at, 0) = Value(<<>>, at)
  <2>1. 0 \in Nat
    OBVIOUS
  <2> QED
    BY <2>1, ManyLaw
<1> QED
  BY <1>5, <1>6 DEF m

\* Reading codes one after the other: of the last one a part may be enough, and after it
\* nothing is left to read.
LEMMA ManyRead ==
  ASSUME NEW data \in Seq(Nat), NEW at \in Offsets(data), NEW V, NEW items \in Seq(V),
         NEW codes \in Seq(Seq(Byte)), Len(codes) = Len(items), NEW read, NEW clips,
         \A k \in 1..Len(items) : \A p \in Offsets(data) :
           Reads(data, p, codes[k], read[p], items[k], clips[k]),
         Thrown(read[Len(data) + 1])
  PROVE  LET n == Len(items)
         IN  Reads(data, at, FlattenSeq(codes), ReadMany(read, at, n), items,
                   {Append(SubSeq(items, 1, n - 1), c) : c \in clips[n]})
<1> DEFINE n == Len(items)
           end == Len(data) + 1
           many(k) == ReadMany(read, at, k)
<1>1. n \in Nat /\ at \in Nat /\ at # 0 /\ end \in Nat /\ end # 0 /\ \A k \in 1..n : codes[k] \in Seq(Byte)
  BY LenProperties, ElementOfSeq DEF Offsets
<1>2. PICK f : /\ FlattenSeq(codes) = f[n] /\ f[0] = <<>>
               /\ \A k \in 1..n : f[k] = f[k - 1] \o codes[k]
               /\ \A k \in 0..n : f[k] \in Seq(Byte)
  <2> HIDE DEF n
  <2>1. Len(codes) = n
    BY DEF n
  <2>2. \E f : /\ FlattenSeq(codes) = f[Len(codes)] /\ f[0] = <<>>
               /\ \A k \in 1..Len(codes) : f[k] = f[k - 1] \o codes[k]
               /\ \A k \in 0..Len(codes) : f[k] \in Seq(Byte)
    BY FlattenLaw
  <2> QED
    BY <2>1, <2>2, Zenon
<1>3. /\ many(0) = Value(<<>>, at)
      /\ \A k \in Nat : many(k + 1) = OneRead(read, many(k))
  BY ManyNext
<1> HIDE DEF many
<1>4. /\ \A m : Thrown(m) => Thrown(OneRead(read, m))
      /\ \A s, p : p # 0 /\ Thrown(read[p]) => Thrown(OneRead(read, Value(s, p)))
      /\ \A s, p, x, q : p # 0 /\ q # 0 /\ read[p] = Value(x, q) => OneRead(read, Value(s, p)) = Value(Append(s, x), q)
  BY OneReadLaw
<1> DEFINE first(k) == SubSeq(items, 1, k)
           S(k) == Reads(data, at, f[k], many(k), first(k), {Append(first(k - 1), c) : c \in clips[k]})
<1>5. S(0)
  <2>1. first(0) = <<>>
    BY SubSeqEmpty
  <2>2. Len(<<>>) = 0
    OBVIOUS
  <2>3. ~EndsIn(data, at, f[0]) /\ at + Len(f[0]) = at
    BY <1>1, <1>2, <2>2 DEF EndsIn, Offsets
  <2> QED
    BY <1>3, <2>1, <2>3 DEF Reads
<1>6. ASSUME NEW k \in Nat, k + 1 <= n, S(k) PROVE S(k + 1)
  <2> DEFINE m == k + 1
             code == codes[m]
             p == at + Len(f[k])
  <2>1. m \in 1..n /\ m - 1 = k /\ k \in 0..n /\ code \in Seq(Byte) /\ f[k] \in Seq(Byte)
    BY <1>1, <1>2, <1>6
  <2>2. Append(first(k), items[m]) = first(m)
    BY <1>1, <1>6, OneMore
  <2>3. f[m] = f[k] \o code /\ many(m) = OneRead(read, many(k))
    BY <1>2, <1>3, <2>1
  <2> HIDE DEF m
  <2> HIDE DEF code
  <2>4. \A q \in Offsets(data) : Reads(data, q, code, read[q], items[m], clips[m])
    BY <2>1 DEF code
  <2>5. /\ Holds(data, at, f[k]) => many(k) = Value(first(k), p)
        /\ EndsIn(data, at, f[k]) => Thrown(many(k)) \/ \E s : many(k) = Value(s, end)
    BY <1>6 DEF Reads
  <2>6. Len(f[m]) = Len(f[k]) + Len(code) /\ Len(f[k]) \in Nat /\ Len(code) \in Nat
    BY <2>1, <2>3, ConcatProperties, LenProperties
  <2>7. p # 0 /\ p + Len(code) # 0 /\ p + Len(code) = at + Len(f[m])
    BY <1>1, <2>6
  <2> HIDE DEF p, first
  <2>8. ASSUME Holds(data, at, f[m]) PROVE many(m) = Value(first(m), at + Len(f[m]))
    <3>1. Holds(data, at, f[k]) /\ p \in Offsets(data) /\ Holds(data, p, code)
      BY <2>1, <2>3, <2>8, HoldsParts DEF p
    <3>2. read[p] = Value(items[m], p + Len(code))
      BY <2>4, <3>1 DEF Reads
    <3>3. many(m) = Value(Append(first(k), items[m]), p + Len(code))
      BY <1>4, <2>3, <2>5, <2>7, <3>1, <3>2
    <3> QED
      BY <2>2, <2>7, <3>3
  <2>9. ASSUME EndsIn(data, at, f[m])
        PROVE  Thrown(many(m)) \/ \E c \in clips[m] : many(m) = Value(Append(first(k), c), end)
    <3>1. CASE EndsIn(data, at, f[k])
      <4>1. CASE Thrown(many(k))
        BY <1>4, <2>3, <4>1
      <4>2. CASE \E s : many(k) = Value(s, end)
        BY <1>1, <1>4, <2>3, <4>2
      <4> QED
        BY <2>5, <3>1, <4>1, <4>2
    <3>2. CASE Holds(data, at, f[k]) /\ p \in Offsets(data) /\ EndsIn(data, p, code)
      <4>1. many(k) = Value(first(k), p)
        BY <2>5, <3>2
      <4>2. CASE Thrown(read[p])
        BY <1>4, <2>3, <2>7, <4>1, <4>2
      <4>3. CASE \E c \in clips[m] : read[p] = Value(c, end)
        <5>1. PICK c \in clips[m] : read[p] = Value(c, end)
          BY <4>3
        <5>2. many(m) = Value(Append(first(k), c), end)
          BY <1>1, <1>4, <2>3, <2>7, <4>1, <5>1
        <5> QED
          BY <5>2
      <4> QED
        BY <2>4, <3>2, <4>2, <4>3 DEF Reads
    <3> QED
      BY <2>1, <2>3, <2>9, <3>1, <3>2, EndsInParts DEF p
  <2>10. \A c \in clips[m] : \E d \in {Append(first(m - 1), e) : e \in clips[m]} : d = Append(first(k), c)
    BY <2>1
  <2>11. S(m)
    BY <2>8, <2>9, <2>10 DEF Reads
  <2> QED
    BY <2>11 DEF m
<1> HIDE DEF S
<1>7. S(n)
  <2> DEFINE T == {k \in Nat : k <= n => S(k)}
  <2>1. 0 \in T
    BY <1>5
  <2>2. ASSUME NEW k \in Nat, k \in T PROVE k + 1 \in T
    <3>1. CASE k + 1 <= n
      <4>1. S(k)
        BY <1>1, <2>2, <3>1
      <4> QED
        BY <1>6, <3>1, <4>1
    <3>2. CASE ~(k + 1 <= n)
      BY <3>2
    <3> QED
      BY <3>1, <3>2
  <2> HIDE DEF T
  <2>3. n \in T
    BY <1>1, <2>1, <2>2, SetInduction
  <2> QED
    BY <1>1, <2>3 DEF T
<1>8. first(n) = items
  BY SubSeqFull
<1>9. Reads(data, at, f[n], many(n), items, {Append(first(n - 1), c) : c \in clips[n]})
  BY <1>7, <1>8 DEF S
<1> QED
  BY <1>2, <1>9 DEF many

----------------------------------------------------------------------------
\* The parts of a node.

Binaries == {d \in Seq(Byte) : 2 * Len(d) < Base * Base * Base * Base}

\* A tag, a length and the bytes.
LEMMA BinaryCode ==
  ASSUME NEW d \in Binaries
  PROVE  \E tag \in {BINARY_8, BINARY_32}, length \in Seq(Byte) :
           /\ WriteBinary(d) = <<tag>> \o (length \o d)
           /\ tag = BINARY_8 => length = <<Len(d)>> /\ Len(d) \in Byte
           /\ tag = BINARY_32 => length = TwoBytes(Len(d) \div (Base * Base)) \o TwoBytes(Len(d))
<1> DEFINE n == Len(d)
           B == Base * Base
<1>1. d \in Seq(Byte) /\ n \in Nat /\ BINARY_8 \in Byte /\ BINARY_32 \in Byte
  BY Tags, LenProperties DEF Binaries
<1>2. BINARY_8 # BINARY_32
  BY Tags
<1>3. CASE n < Base
  <2> DEFINE l == <<n>>
             t == <<BINARY_8>>
  <2>1. n \in Byte /\ l \in Seq(Byte) /\ t \in Seq(Byte)
    BY <1>1, <1>3, Bases DEF Byte
  <2>2. <<BINARY_8, n>> = t \o l
    BY <1>1, <2>1
  <2>3. WriteBinary(d) = (t \o l) \o d
    BY <1>3, <2>2 DEF WriteBinary
  <2> HIDE DEF l, t
  <2>4. WriteBinary(d) = t \o (l \o d)
    BY <1>1, <2>1, <2>3, ConcatAssociative
  <2> QED
    BY <1>2, <2>1, <2>4 DEF l, t
<1>4. CASE ~(n < Base)
  <2> DEFINE x == TwoBytes(n \div B)
             y == TwoBytes(n)
             t == <<BINARY_32>>
  <2>1. B \in Nat /\ B > 0
    BY Bases
  <2> HIDE DEF B
  <2>2. n \div B \in Nat
    BY <1>1, <2>1, Division
  <2>3. x \in Seq(Byte) /\ y \in Seq(Byte) /\ t \in Seq(Byte)
    BY <1>1, <2>2, TwoBytesBack
  <2>4. WriteBinary(d) = ((t \o x) \o y) \o d
    BY <1>4 DEF WriteBinary, B
  <2> HIDE DEF x, y, t
  <2>5. x \o y \in Seq(Byte)
    BY <2>3, ConcatProperties
  <2>6. (t \o x) \o y = t \o (x \o y)
    BY <2>3, ConcatAssociative
  <2>7. (t \o (x \o y)) \o d = t \o ((x \o y) \o d)
    <3> DEFINE z == x \o y
    <3>1. z \in Seq(Byte) /\ t \in Seq(Byte) /\ d \in Seq(Byte)
      BY <1>1, <2>3, <2>5
    <3> HIDE DEF z
    <3>2. (t \o z) \o d = t \o (z \o d)
      BY <3>1, ConcatAssociative
    <3> QED
      BY <3>2 DEF z
  <2>8. WriteBinary(d) = t \o ((x \o y) \o d)
    BY <2>4, <2>6, <2>7
  <2>9. x \o y = TwoBytes(n \div (Base * Base)) \o TwoBytes(n)
    BY DEF x, y, B
  <2>10. <<BINARY_32>> = t /\ BINARY_32 \in {BINARY_8, BINARY_32}
    BY DEF t
  <2> QED
    BY <1>2, <2>5, <2>8, <2>9, <2>10
<1> QED
  BY <1>3, <1>4

\* Bytes of either kind, none at the end of the data.
LEMMA BinaryRead ==
  ASSUME NEW data \in Seq(Nat), NEW at \in Offsets(data), NEW d \in Binaries
  PROVE  Reads(data, at, WriteBinary(d), IF at > Len(data) THEN Throws ELSE ReadBinary(data, at), Bytes(d), {})
<1> DEFINE n == Len(d)
           next == at + 1
           read == IF at > Len(data) THEN Throws ELSE ReadBinary(data, at)
           atLength == IF data[at] = BINARY_8 THEN ReadByte(data, next) ELSE ReadFour(data, next)
           afterLength(length, start) ==
             Then(ReadBytes(data, start, length), LAMBDA bytes, rest : Value(Bytes(bytes), rest))
<1>1. PICK tag \in {BINARY_8, BINARY_32}, length \in Seq(Byte) :
        /\ WriteBinary(d) = <<tag>> \o (length \o d)
        /\ tag = BINARY_8 => length = <<n>> /\ n \in Byte
        /\ tag = BINARY_32 => length = TwoBytes(n \div (Base * Base)) \o TwoBytes(n)
  BY BinaryCode
<1>2. /\ at \in Nat /\ next \in Nat /\ next # 0 /\ d \in Seq(Byte) /\ n \in Nat /\ n < Base * Base * Base * Base
      /\ tag \in Byte /\ length \o d \in Seq(Byte) /\ Len(length) \in Nat
  <2>1. d \in Seq(Byte) /\ n \in Nat /\ 2 * n < Base * Base * Base * Base /\ Base \in Nat
    BY LenProperties, Bases DEF Binaries
  <2>2. n < Base * Base * Base * Base
    BY <2>1
  <2>3. length \o d \in Seq(Byte) /\ Len(length) \in Nat
    BY <2>1, ConcatProperties, LenProperties
  <2> QED
    BY <2>1, <2>2, <2>3, Tags DEF Offsets
<1>3. Thrown(ReadByte(data, at)) => Thrown(read)
  BY <1>2, ThrowsThrown DEF ReadByte
<1>4. ASSUME ReadByte(data, at) = Value(tag, next)
      PROVE  data[at] = tag /\ read = Then(atLength, LAMBDA l, start : afterLength(l, start))
  <2>1. ~(at > Len(data))
    BY <1>2, <1>4, ThrowsThrown DEF ReadByte, Thrown
  <2>2. data[at] = tag
    BY <1>4, <2>1 DEF ReadByte, Value
  <2> QED
    BY <2>1, <2>2 DEF ReadBinary
<1> DEFINE whole == Then(atLength, LAMBDA l, start : afterLength(l, start))
<1>5. Thrown(atLength) => Thrown(whole)
  BY ThrowsThrown DEF Then
<1>6. ASSUME NEW p, p # 0, atLength = Value(n, p) PROVE whole = afterLength(n, p)
  BY <1>6 DEF Then, Thrown, Value
<1> HIDE DEF read, whole
<1>7. ASSUME next \in Offsets(data), data[at] = tag
      PROVE  Reads(data, next, length, atLength, n, {})
  <2>1. CASE tag = BINARY_8
    <3>1. Reads(data, next, <<n>>, ReadByte(data, next), n, {})
      BY <1>1, <1>7, <2>1, ByteRead
    <3> QED
      BY <1>1, <1>7, <2>1, <3>1
  <2>2. CASE tag = BINARY_32
    <3>1. Reads(data, next, TwoBytes(n \div (Base * Base)) \o TwoBytes(n), ReadFour(data, next), n, {})
      BY <1>2, <1>7, FourRead
    <3>2. BINARY_8 # BINARY_32
      BY Tags
    <3> QED
      BY <1>1, <1>7, <2>2, <3>1, <3>2
  <2> QED
    BY <2>1, <2>2
<1> HIDE DEF atLength
<1>8. ASSUME NEW p \in Offsets(data), atLength = Value(n, p)
      PROVE  Reads(data, p, d, whole, Bytes(d), {})
  <2> DEFINE bytes == ReadBytes(data, p, n)
  <2>1. Reads(data, p, d, bytes, d, {}) /\ p \in Nat /\ p # 0 /\ p + n # 0
    BY <1>2, <1>8, BytesRead DEF Offsets
  <2>2. whole = afterLength(n, p)
    BY <1>6, <1>8, <2>1
  <2>3. Thrown(bytes) => Thrown(whole)
    BY <2>2, ThrowsThrown DEF Then
  <2>4. bytes = Value(d, p + n) => whole = Value(Bytes(d), p + n)
    BY <2>1, <2>2 DEF Then, Thrown, Value
  <2> HIDE DEF bytes
  <2> QED
    BY <2>1, <2>3, <2>4, ReadsMap
<1>9. ASSUME next \in Offsets(data), ReadByte(data, at) = Value(tag, next)
      PROVE  Reads(data, next, length \o d, read, Bytes(d), {})
  <2>1. read = whole /\ data[at] = tag
    BY <1>4, <1>9 DEF whole, atLength
  <2>2. Reads(data, next, length, atLength, n, {})
    BY <1>7, <1>9, <2>1
  <2> QED
    BY <1>2, <1>5, <1>8, <1>9, <2>1, <2>2, ReadsThen
<1>10. Reads(data, at, <<tag>> \o (length \o d), read, Bytes(d), {})
  BY <1>2, <1>3, <1>9, TagThen
<1> QED
  BY <1>1, <1>10 DEF read

\* At the end of the data every read throws.
LEMMA EndThrows ==
  ASSUME NEW data \in Seq(Nat), NEW child
  PROVE  LET end == Len(data) + 1
         IN  /\ Thrown(ReadString(data, end)) /\ Thrown(ReadAttribute(data, end))
             /\ Thrown(ReadNode(data, end, child))
<1> DEFINE end == Len(data) + 1
<1>1. Thrown(ReadByte(data, end))
  <2>1. end > Len(data)
    BY LenProperties
  <2> QED
    BY <2>1, ThrowsThrown DEF ReadByte
<1> HIDE DEF end
<1>2. Thrown(ReadString(data, end))
  BY <1>1, ThrowsThrown DEF ReadString, Then
<1>3. Thrown(ReadAttribute(data, end))
  BY <1>2, ThrowsThrown DEF ReadAttribute, Then
<1>4. Thrown(ReadListSize(data, end))
  BY <1>1, ThrowsThrown DEF ReadListSize, Then
<1>5. Thrown(ReadNode(data, end, child))
  BY <1>4, ThrowsThrown DEF ReadNode, Then
<1> QED
  BY <1>2, <1>3, <1>5 DEF end

\* A key and its value, and all attributes of a node.
LEMMA AttributeRead ==
  ASSUME NEW data \in Seq(Nat), NEW at \in Offsets(data), NEW key \in ShortText, NEW val \in ShortText
  PROVE  /\ WriteString(key) \o WriteString(val) \in Seq(Byte)
         /\ Reads(data, at, WriteString(key) \o WriteString(val), ReadAttribute(data, at), <<key, val>>, {})
<1> DEFINE a == WriteString(key)
           b == WriteString(val)
           p == at + Len(a)
           first == ReadString(data, at)
           second == ReadString(data, p)
           whole == ReadAttribute(data, at)
           Pair(k, read) == Then(read, LAMBDA value, rest : Value(<<k, value>>, rest))
<1>1. a \in Seq(Byte) /\ b \in Seq(Byte) /\ at \in Nat /\ at # 0 /\ Len(a) \in Nat
  BY StringCode, LenProperties DEF Offsets
<1>2. a \o b \in Seq(Byte)
  BY <1>1, ConcatProperties
<1>3. Reads(data, at, a, first, key, {})
  BY StringRead
<1>4. Thrown(first) => Thrown(whole)
  BY ThrowsThrown DEF ReadAttribute, Then
<1>5. p \in Nat /\ p # 0
  BY <1>1
<1> HIDE DEF p
<1>6. ASSUME first = Value(key, p) PROVE whole = Pair(key, second)
  BY <1>5, <1>6 DEF ReadAttribute, Then, Thrown, Value
<1>7. Thrown(second) => Thrown(Pair(key, second))
  BY ThrowsThrown DEF Then
<1>8. \A q : q # 0 /\ second = Value(val, q) => Pair(key, second) = Value(<<key, val>>, q)
  BY DEF Then, Thrown, Value
<1> HIDE DEF first, whole, Pair
<1>9. ASSUME p \in Offsets(data), first = Value(key, p)
      PROVE  Reads(data, p, b, whole, <<key, val>>, {})
  <2>1. Reads(data, p, b, second, val, {}) /\ p + Len(b) # 0
    BY <1>1, <1>5, <1>9, StringRead, LenProperties
  <2> HIDE DEF second, b
  <2>2. Thrown(second) => Thrown(whole)
    BY <1>6, <1>7, <1>9
  <2>3. second = Value(val, p + Len(b)) => whole = Value(<<key, val>>, p + Len(b))
    BY <1>6, <1>8, <1>9, <2>1
  <2> QED
    BY <2>1, <2>2, <2>3, ReadsMap
<1> HIDE DEF a, b
<1>10. Reads(data, at, a \o b, whole, <<key, val>>, {})
  BY <1>1, <1>3, <1>4, <1>9, ReadsThen DEF p
<1> QED
  BY <1>2, <1>10 DEF a, b, whole

LEMMA AttributesRead ==
  ASSUME NEW data \in Seq(Nat), NEW at \in Offsets(data), NEW attrs \in Seq(ShortText \X ShortText)
  PROVE  /\ Attributes(attrs) \in Seq(Byte)
         /\ Reads(data, at, Attributes(attrs),
                  ReadMany([p \in Offsets(data) |-> ReadAttribute(data, p)], at, Len(attrs)), attrs, {})
<1> DEFINE n == Len(attrs)
           code(a) == WriteString(a[1]) \o WriteString(a[2])
           codes == [k \in 1..n |-> code(attrs[k])]
           read == [p \in Offsets(data) |-> ReadAttribute(data, p)]
           clips == [k \in 0..n |-> {}]
           end == Len(data) + 1
<1>1. n \in Nat /\ Len(data) \in Nat /\ end \in Offsets(data)
  BY LenProperties DEF Offsets
<1>2. ASSUME NEW k \in 1..n
      PROVE  /\ code(attrs[k]) \in Seq(Byte)
             /\ \A p \in Offsets(data) : Reads(data, p, code(attrs[k]), ReadAttribute(data, p), attrs[k], {})
  <2> DEFINE a == attrs[k]
  <2>1. a \in ShortText \X ShortText
    BY <1>1, ElementOfSeq
  <2> HIDE DEF a
  <2>2. a[1] \in ShortText /\ a[2] \in ShortText /\ a = <<a[1], a[2]>>
    BY <2>1
  <2>3. code(a) \in Seq(Byte)
    BY <1>1, <2>2, AttributeRead
  <2>4. \A p \in Offsets(data) : Reads(data, p, code(a), ReadAttribute(data, p), a, {})
    <3>1. ASSUME NEW p \in Offsets(data)
          PROVE  Reads(data, p, code(a), ReadAttribute(data, p), <<a[1], a[2]>>, {})
      BY <2>2, AttributeRead
    <3> HIDE DEF code
    <3> QED
      BY <2>2, <3>1
  <2> QED
    BY <2>3, <2>4 DEF a
<1>3. Attributes(attrs) = FlattenSeq(codes)
  BY DEF Attributes
<1> HIDE DEF code
<1>4. codes \in Seq(Seq(Byte)) /\ Len(codes) = n
  <2>1. codes \in [1..n -> Seq(Byte)]
    BY <1>2
  <2> QED
    BY <1>1, <2>1
<1>5. Thrown(read[end])
  <2>1. read[end] = ReadAttribute(data, end)
    BY <1>1
  <2>2. Thrown(ReadAttribute(data, end))
    BY EndThrows
  <2> HIDE DEF read
  <2> QED
    BY <2>1, <2>2
<1>6. \A k \in 1..n : \A p \in Offsets(data) : Reads(data, p, codes[k], read[p], attrs[k], clips[k])
  <2>1. ASSUME NEW k \in 1..n, NEW p \in Offsets(data)
        PROVE  codes[k] = code(attrs[k]) /\ read[p] = ReadAttribute(data, p) /\ clips[k] = {}
    BY <1>1
  <2> HIDE DEF codes, read, clips
  <2> QED
    BY <1>2, <2>1
<1>7. clips[n] = {}
  BY <1>1
<1>8. FlattenSeq(codes) \in Seq(Byte)
  <2> HIDE DEF codes
  <2>1. Len(codes) \in 0..Len(codes)
    BY <1>1, <1>4
  <2> QED
    BY <1>4, <2>1, FlattenLaw
<1> HIDE DEF codes, read, clips
<1>9. Reads(data, at, FlattenSeq(codes), ReadMany(read, at, n), attrs,
            {Append(SubSeq(attrs, 1, n - 1), c) : c \in clips[n]})
  <2> HIDE DEF end
  <2> QED
    BY <1>4, <1>5, <1>6, ManyRead DEF end
<1>10. Reads(data, at, FlattenSeq(codes), ReadMany(read, at, n), attrs, {})
  BY <1>7, <1>9 DEF Reads
<1> QED
  BY <1>3, <1>8, <1>10 DEF read

----------------------------------------------------------------------------
\* What each depth adds.

\* The nodes of a depth, their codes and their clips, each from those of the depth below.
LEMMA EncodableLaw ==
  \A d \in 0..MaxDepth : EncodableNodes[d] = NodesOver(IF d = 0 THEN {} ELSE EncodableNodes[d - 1])
<1> DEFINE Next(d, below) == NodesOver(below)
           Step(f, d) == Next(d, IF d = 0 THEN {} ELSE f[d - 1])
           Solves(f, n) == f = [d \in 0..n |-> Step(f, d)]
<1> HIDE DEF Next
<1>1. ASSUME NEW n \in Nat PROVE \E f : Solves(f, n)
  <2> DEFINE T == {k \in Nat : \E f : Solves(f, k)}
  <2>1. 0 \in T
    <3>1. Solves([d \in 0..0 |-> Step(<<>>, 0)], 0)
      OBVIOUS
    <3> QED
      BY <3>1
  <2>2. ASSUME NEW k \in Nat, k \in T PROVE k + 1 \in T
    <3>1. PICK g : Solves(g, k)
      BY <2>2
    <3> DEFINE h == [d \in 0..k + 1 |-> Step(g, d)]
    <3>2. h = [d \in 0..k + 1 |-> h[d]] /\ \A d \in 0..k + 1 : h[d] = Step(g, d)
      OBVIOUS
    <3> HIDE DEF h
    <3>3. \A d \in 0..k : h[d] = g[d]
      <4>1. \A d \in 0..k : d \in 0..k + 1 /\ g[d] = Step(g, d)
        BY <3>1
      <4> HIDE DEF Step
      <4> QED
        BY <3>2, <4>1
    <3>4. \A d \in 0..k + 1 : d # 0 => d - 1 \in 0..k
      OBVIOUS
    <3>5. \A d \in 0..k + 1 : h[d] = Step(h, d)
      BY <3>2, <3>3, <3>4
    <3>6. Solves(h, k + 1)
      BY <3>2, <3>5
    <3> QED
      BY <3>6
  <2> HIDE DEF T
  <2>3. n \in T
    BY <2>1, <2>2, SetInduction
  <2> QED
    BY <2>3 DEF T
<1> DEFINE g == CHOOSE f : Solves(f, MaxDepth)
<1>2. Solves(g, MaxDepth)
  BY <1>1, Bases
<1>3. EncodableNodes = g
  BY DEF EncodableNodes, Next
<1> HIDE DEF g
<1>4. \A d \in 0..MaxDepth : g[d] = Next(d, IF d = 0 THEN {} ELSE g[d - 1])
  BY <1>2
<1> QED
  BY <1>3, <1>4 DEF Next

LEMMA WriteLaw ==
  \A d \in 0..MaxDepth : WriteNode[d] = [node \in EncodableNodes[d] |->
    NodeCode(node, IF d = 0 THEN <<>> ELSE WriteNode[d - 1])]
<1> DEFINE Next(d, below) == [node \in EncodableNodes[d] |-> NodeCode(node, below)]
           Step(f, d) == Next(d, IF d = 0 THEN <<>> ELSE f[d - 1])
           Solves(f, n) == f = [d \in 0..n |-> Step(f, d)]
<1> HIDE DEF Next
<1>1. ASSUME NEW n \in Nat PROVE \E f : Solves(f, n)
  <2> DEFINE T == {k \in Nat : \E f : Solves(f, k)}
  <2>1. 0 \in T
    <3>1. Solves([d \in 0..0 |-> Step(<<>>, 0)], 0)
      OBVIOUS
    <3> QED
      BY <3>1
  <2>2. ASSUME NEW k \in Nat, k \in T PROVE k + 1 \in T
    <3>1. PICK g : Solves(g, k)
      BY <2>2
    <3> DEFINE h == [d \in 0..k + 1 |-> Step(g, d)]
    <3>2. h = [d \in 0..k + 1 |-> h[d]] /\ \A d \in 0..k + 1 : h[d] = Step(g, d)
      OBVIOUS
    <3> HIDE DEF h
    <3>3. \A d \in 0..k : h[d] = g[d]
      <4>1. \A d \in 0..k : d \in 0..k + 1 /\ g[d] = Step(g, d)
        BY <3>1
      <4> HIDE DEF Step
      <4> QED
        BY <3>2, <4>1
    <3>4. \A d \in 0..k + 1 : d # 0 => d - 1 \in 0..k
      OBVIOUS
    <3>5. \A d \in 0..k + 1 : h[d] = Step(h, d)
      BY <3>2, <3>3, <3>4
    <3>6. Solves(h, k + 1)
      BY <3>2, <3>5
    <3> QED
      BY <3>6
  <2> HIDE DEF T
  <2>3. n \in T
    BY <2>1, <2>2, SetInduction
  <2> QED
    BY <2>3 DEF T
<1> DEFINE g == CHOOSE f : Solves(f, MaxDepth)
<1>2. Solves(g, MaxDepth)
  BY <1>1, Bases
<1>3. WriteNode = g
  BY DEF WriteNode, Next
<1> HIDE DEF g
<1>4. \A d \in 0..MaxDepth : g[d] = Next(d, IF d = 0 THEN <<>> ELSE g[d - 1])
  BY <1>2
<1> QED
  BY <1>3, <1>4 DEF Next

LEMMA ClippedLaw ==
  \A d \in 0..MaxDepth : Clipped[d] = [node \in EncodableNodes[d] |->
    Clips(node, IF d = 0 THEN <<>> ELSE Clipped[d - 1])]
<1> DEFINE Next(d, below) == [node \in EncodableNodes[d] |-> Clips(node, below)]
           Step(f, d) == Next(d, IF d = 0 THEN <<>> ELSE f[d - 1])
           Solves(f, n) == f = [d \in 0..n |-> Step(f, d)]
<1> HIDE DEF Next
<1>1. ASSUME NEW n \in Nat PROVE \E f : Solves(f, n)
  <2> DEFINE T == {k \in Nat : \E f : Solves(f, k)}
  <2>1. 0 \in T
    <3>1. Solves([d \in 0..0 |-> Step(<<>>, 0)], 0)
      OBVIOUS
    <3> QED
      BY <3>1
  <2>2. ASSUME NEW k \in Nat, k \in T PROVE k + 1 \in T
    <3>1. PICK g : Solves(g, k)
      BY <2>2
    <3> DEFINE h == [d \in 0..k + 1 |-> Step(g, d)]
    <3>2. h = [d \in 0..k + 1 |-> h[d]] /\ \A d \in 0..k + 1 : h[d] = Step(g, d)
      OBVIOUS
    <3> HIDE DEF h
    <3>3. \A d \in 0..k : h[d] = g[d]
      <4>1. \A d \in 0..k : d \in 0..k + 1 /\ g[d] = Step(g, d)
        BY <3>1
      <4> HIDE DEF Step
      <4> QED
        BY <3>2, <4>1
    <3>4. \A d \in 0..k + 1 : d # 0 => d - 1 \in 0..k
      OBVIOUS
    <3>5. \A d \in 0..k + 1 : h[d] = Step(h, d)
      BY <3>2, <3>3, <3>4
    <3>6. Solves(h, k + 1)
      BY <3>2, <3>5
    <3> QED
      BY <3>6
  <2> HIDE DEF T
  <2>3. n \in T
    BY <2>1, <2>2, SetInduction
  <2> QED
    BY <2>3 DEF T
<1> DEFINE g == CHOOSE f : Solves(f, MaxDepth)
<1>2. Solves(g, MaxDepth)
  BY <1>1, Bases
<1>3. Clipped = g
  BY DEF Clipped, Next
<1> HIDE DEF g
<1>4. \A d \in 0..MaxDepth : g[d] = Next(d, IF d = 0 THEN <<>> ELSE g[d - 1])
  BY <1>2
<1> QED
  BY <1>3, <1>4 DEF Next

\* What decode reads at each offset, by depth.
NodeReads(data) ==
  CHOOSE f : f = [d \in 0..MaxDepth |-> [at \in Offsets(data) |->
                   ReadNode(data, at, IF d = 0 THEN [p \in Offsets(data) |-> Throws] ELSE f[d - 1])]]

\* decode is the deepest read, at the first byte.
LEMMA ReadLaw ==
  ASSUME NEW data
  PROVE  /\ Decode(data) = NodeReads(data)[MaxDepth][1]
         /\ \A d \in 0..MaxDepth : NodeReads(data)[d] = [at \in Offsets(data) |->
              ReadNode(data, at, IF d = 0 THEN [p \in Offsets(data) |-> Throws] ELSE NodeReads(data)[d - 1])]
<1> DEFINE Next(d, below) == [at \in Offsets(data) |-> ReadNode(data, at, below)]
           Step(f, d) == Next(d, IF d = 0 THEN [p \in Offsets(data) |-> Throws] ELSE f[d - 1])
           Solves(f, n) == f = [d \in 0..n |-> Step(f, d)]
<1> HIDE DEF Next
<1>1. ASSUME NEW n \in Nat PROVE \E f : Solves(f, n)
  <2> DEFINE T == {k \in Nat : \E f : Solves(f, k)}
  <2>1. 0 \in T
    <3>1. Solves([d \in 0..0 |-> Step(<<>>, 0)], 0)
      OBVIOUS
    <3> QED
      BY <3>1
  <2>2. ASSUME NEW k \in Nat, k \in T PROVE k + 1 \in T
    <3>1. PICK g : Solves(g, k)
      BY <2>2
    <3> DEFINE h == [d \in 0..k + 1 |-> Step(g, d)]
    <3>2. h = [d \in 0..k + 1 |-> h[d]] /\ \A d \in 0..k + 1 : h[d] = Step(g, d)
      OBVIOUS
    <3> HIDE DEF h
    <3>3. \A d \in 0..k : h[d] = g[d]
      <4>1. \A d \in 0..k : d \in 0..k + 1 /\ g[d] = Step(g, d)
        BY <3>1
      <4> HIDE DEF Step
      <4> QED
        BY <3>2, <4>1
    <3>4. \A d \in 0..k + 1 : d # 0 => d - 1 \in 0..k
      OBVIOUS
    <3>5. \A d \in 0..k + 1 : h[d] = Step(h, d)
      BY <3>2, <3>3, <3>4
    <3>6. Solves(h, k + 1)
      BY <3>2, <3>5
    <3> QED
      BY <3>6
  <2> HIDE DEF T
  <2>3. n \in T
    BY <2>1, <2>2, SetInduction
  <2> QED
    BY <2>3 DEF T
<1> DEFINE g == CHOOSE f : Solves(f, MaxDepth)
<1>2. Solves(g, MaxDepth)
  BY <1>1, Bases
<1>3. NodeReads(data) = g
  BY DEF NodeReads, Next
<1> HIDE DEF g
<1>4. \A d \in 0..MaxDepth : g[d] = Next(d, IF d = 0 THEN [p \in Offsets(data) |-> Throws] ELSE g[d - 1])
  BY <1>2
<1>5. Decode(data) = NodeReads(data)[MaxDepth][1]
  BY DEF Decode, NodeReads
<1> QED
  BY <1>3, <1>4, <1>5 DEF Next

----------------------------------------------------------------------------
\* Nodes.

Contents(S) ==
  {NoContent} \cup {Bytes(d) : d \in Binaries} \cup {Children(nodes) : nodes \in Short(S)}

\* The parts of a node that the encoder takes.
LEMMA NodeParts ==
  ASSUME NEW S, NEW node \in NodesOver(S)
  PROVE  /\ node.tag \in ShortText
         /\ node.attrs \in Seq(ShortText \X ShortText) /\ NodeSize(node) < Base * Base
         /\ node.content \in Contents(S)
         /\ node = Node(node.tag, node.attrs, node.content)
         /\ \A c : [node EXCEPT !.content = c] = Node(node.tag, node.attrs, c)
<1>1. /\ node.tag \in ShortText
      /\ node.attrs \in Seq(ShortText \X ShortText) /\ NodeSize(node) < Base * Base
      /\ node = Node(node.tag, node.attrs, node.content)
  BY DEF NodesOver, Node
<1>2. \A c : [node EXCEPT !.content = c] = Node(node.tag, node.attrs, c)
  BY DEF NodesOver, Node
<1>3. \/ node.content \in {NoContent}
      \/ node.content \in [kind : {"bytes"}, data : Binaries]
      \/ node.content \in [kind : {"nodes"}, nodes : Short(S)]
  BY DEF NodesOver, Binaries
<1>4. ASSUME NEW c \in [kind : {"bytes"}, data : Binaries] PROVE \E d \in Binaries : c = Bytes(d)
  <2>1. c.data \in Binaries /\ c = Bytes(c.data)
    BY DEF Bytes
  <2> QED
    BY <2>1
<1>5. ASSUME NEW c \in [kind : {"nodes"}, nodes : Short(S)] PROVE \E s \in Short(S) : c = Children(s)
  <2>1. c.nodes \in Short(S) /\ c = Children(c.nodes)
    BY DEF Children
  <2> QED
    BY <2>1
<1>6. node.content \in Contents(S)
  BY <1>3, <1>4, <1>5 DEF Contents
<1> QED
  BY <1>1, <1>2, <1>6

\* The codes of the children, which are in a row.
ChildCodes(nodes, write) == [k \in 1..Len(nodes) |-> write[nodes[k]]]

LEMMA ChildrenCode ==
  ASSUME NEW S, NEW write, \A n \in S : write[n] \in Seq(Byte), NEW nodes \in Short(S)
  PROVE  LET codes == ChildCodes(nodes, write)
         IN  /\ codes \in Seq(Seq(Byte)) /\ Len(codes) = Len(nodes)
             /\ FlattenSeq(codes) \in Seq(Byte)
             /\ Len(nodes) \in Nat /\ Len(nodes) < Base * Base /\ nodes \in Seq(S)
             /\ \A k \in 1..Len(nodes) : nodes[k] \in S
<1> DEFINE n == Len(nodes)
           codes == ChildCodes(nodes, write)
<1>1. nodes \in Seq(S) /\ n \in Nat /\ n < Base * Base /\ \A k \in 1..n : nodes[k] \in S
  BY LenProperties, ElementOfSeq DEF Short
<1>2. codes \in Seq(Seq(Byte)) /\ Len(codes) = n
  <2>1. codes \in [1..n -> Seq(Byte)]
    BY <1>1 DEF ChildCodes
  <2> QED
    BY <1>1, <2>1 DEF ChildCodes
<1> HIDE DEF codes
<1>3. FlattenSeq(codes) \in Seq(Byte)
  <2>1. Len(codes) \in 0..Len(codes)
    BY <1>1, <1>2
  <2> QED
    BY <1>2, <2>1, FlattenLaw
<1> QED
  BY <1>1, <1>2, <1>3 DEF codes

\* The first byte of a binary, and that of a list, which is another one.
LEMMA BinaryTyped ==
  ASSUME NEW d \in Binaries
  PROVE  /\ WriteBinary(d) \in Seq(Byte) /\ Len(WriteBinary(d)) > 0
         /\ WriteBinary(d)[1] \in {BINARY_8, BINARY_32}
<1>1. PICK tag \in {BINARY_8, BINARY_32}, length \in Seq(Byte) : WriteBinary(d) = <<tag>> \o (length \o d)
  BY BinaryCode
<1> DEFINE rest == length \o d
           t == <<tag>>
<1>2. d \in Seq(Byte) /\ tag \in Byte
  BY Tags DEF Binaries
<1>3. rest \in Seq(Byte)
  BY <1>2, ConcatProperties
<1>4. Len(rest) \in Nat
  BY <1>3, LenProperties
<1>5. t \in Seq(Byte) /\ Len(t) = 1 /\ t[1] = tag
  BY <1>2
<1>6. WriteBinary(d) = t \o rest
  BY <1>1
<1> HIDE DEF rest, t
<1>7. /\ t \o rest \in Seq(Byte) /\ Len(t \o rest) = Len(t) + Len(rest)
      /\ \A i \in 1..Len(t) + Len(rest) : (t \o rest)[i] = IF i <= Len(t) THEN t[i] ELSE rest[i - Len(t)]
  BY <1>3, <1>5, ConcatProperties
<1>8. Len(t) + Len(rest) > 0 /\ 1 \in 1..Len(t) + Len(rest) /\ 1 <= Len(t)
  BY <1>4, <1>5
<1> QED
  BY <1>5, <1>6, <1>7, <1>8

LEMMA HeaderTag ==
  ASSUME NEW n \in Nat, n < Base * Base
  PROVE  ListHeader(n)[1] \in {LIST_EMPTY, LIST_8, LIST_16}
<1>1. CASE n = 0
  BY <1>1 DEF ListHeader
<1>2. CASE n # 0 /\ n < Base
  BY <1>2 DEF ListHeader
<1>3. CASE n # 0 /\ ~(n < Base)
  <2> DEFINE t == TwoBytes(n)
             h == <<LIST_16>>
  <2>1. t \in Seq(Byte) /\ Len(t) = 2 /\ h \in Seq(Byte) /\ Len(h) = 1 /\ h[1] = LIST_16
    BY Tags, TwoBytesBack
  <2>2. ListHeader(n) = h \o t
    BY <1>3 DEF ListHeader
  <2> HIDE DEF t, h
  <2>3. \A i \in 1..Len(h) + Len(t) : (h \o t)[i] = IF i <= Len(h) THEN h[i] ELSE t[i - Len(h)]
    BY <2>1, ConcatProperties
  <2>4. (h \o t)[1] = h[1]
    <3>1. 1 \in 1..Len(h) + Len(t) /\ 1 <= Len(h)
      BY <2>1
    <3> QED
      BY <2>3, <3>1
  <2> QED
    BY <2>1, <2>2, <2>4
<1> QED
  BY <1>1, <1>2, <1>3

\* The code of a content that is there has a first byte, which says what it is.
LEMMA ContentTyped ==
  ASSUME NEW S, NEW write, \A n \in S : write[n] \in Seq(Byte), NEW content \in Contents(S)
  PROVE  LET code == ContentCode(content, write)
         IN  /\ code \in Seq(Byte)
             /\ content = NoContent => code = <<>>
             /\ \A d \in Binaries : content = Bytes(d) => code = WriteBinary(d)
             /\ \A nodes \in Short(S) : content = Children(nodes) =>
                  code = ListHeader(Len(nodes)) \o FlattenSeq(ChildCodes(nodes, write))
<1> DEFINE code == ContentCode(content, write)
           flat(nodes) == FlattenSeq(ChildCodes(nodes, write))
<1>1. content = NoContent => code = <<>>
  BY DEF ContentCode, NoContent
<1>2. ASSUME NEW d \in Binaries, content = Bytes(d) PROVE code = WriteBinary(d)
  BY <1>2 DEF ContentCode, Bytes
<1>3. ASSUME NEW nodes \in Short(S), content = Children(nodes)
      PROVE  code = ListHeader(Len(nodes)) \o flat(nodes)
  BY <1>3 DEF ContentCode, Children, ChildCodes
<1>4. code \in Seq(Byte)
  <2> HIDE DEF code, flat
  <2>1. CASE content = NoContent
    <3>1. <<>> \in Seq(Byte)
      BY EmptySeq
    <3> QED
      BY <1>1, <2>1, <3>1
  <2>2. CASE \E d \in Binaries : content = Bytes(d)
    BY <1>2, <2>2, BinaryTyped
  <2>3. CASE \E nodes \in Short(S) : content = Children(nodes)
    <3>1. PICK nodes \in Short(S) : content = Children(nodes)
      BY <2>3
    <3> DEFINE header == ListHeader(Len(nodes))
    <3>2. flat(nodes) \in Seq(Byte) /\ Len(nodes) \in Nat /\ Len(nodes) < Base * Base
      BY ChildrenCode DEF flat
    <3>3. header \in Seq(Byte)
      BY <3>2, HeaderCode
    <3>4. code = header \o flat(nodes)
      BY <1>3, <3>1
    <3> HIDE DEF header
    <3> QED
      BY <3>2, <3>3, <3>4, ConcatProperties
  <2> QED
    BY <2>1, <2>2, <2>3 DEF Contents
<1> QED
  BY <1>1, <1>2, <1>3, <1>4 DEF code

\* A reader that finds nothing at the end of the data reads a code with a first byte, whole
\* or not, as one that goes by that byte does.
LEMMA ContentStarts ==
  ASSUME NEW data \in Seq(Nat), NEW at \in Offsets(data), NEW child,
         NEW code \in Seq(Byte), Len(code) > 0, NEW read, NEW content, NEW clips,
         Reads(data, at, code, read, content, clips), NoContent \in clips,
         at <= Len(data) /\ data[at] = code[1] => ReadContent(data, at, child) = read
  PROVE  Reads(data, at, code, ReadContent(data, at, child), content, clips)
<1> DEFINE whole == ReadContent(data, at, child)
           end == Len(data) + 1
<1>1. Len(data) \in Nat /\ Len(code) \in Nat /\ at \in Nat /\ at <= end /\ at + 1 - 1 = at /\ 1 \in 1..Len(code)
  BY LenProperties DEF Offsets
<1>2. at > Len(data) => at = end /\ whole = Value(NoContent, at)
  BY <1>1 DEF ReadContent
<1> HIDE DEF whole
<1>3. ASSUME Holds(data, at, code) PROVE whole = Value(content, at + Len(code))
  <2>1. at <= Len(data) /\ data[at] = code[1]
    BY <1>1, <1>3 DEF Holds
  <2> QED
    BY <1>3, <2>1 DEF Reads, whole
<1>4. ASSUME EndsIn(data, at, code) PROVE Thrown(whole) \/ \E c \in clips : whole = Value(c, end)
  <2>1. CASE at > Len(data)
    BY <1>2, <2>1
  <2>2. CASE ~(at > Len(data))
    <3>1. at <= Len(data) /\ data[at] = code[1]
      BY <1>1, <1>4, <2>2 DEF EndsIn
    <3> QED
      BY <1>4, <3>1 DEF Reads, whole
  <2> QED
    BY <2>1, <2>2
<1> QED
  BY <1>3, <1>4 DEF Reads, whole

\* More clips than there are.
LEMMA ReadsMore ==
  ASSUME NEW data, NEW at, NEW code, NEW read, NEW v, NEW clips, NEW more, clips \subseteq more,
         Reads(data, at, code, read, v, clips)
  PROVE  Reads(data, at, code, read, v, more)
BY DEF Reads

ListClips(nodes, clipped) ==
  IF nodes = <<>> THEN {} ELSE {Append(Front(nodes), n) : n \in clipped[Last(nodes)]}

\* The children of a node, of the last of which a part may be enough.
LEMMA ChildrenRead ==
  ASSUME NEW data \in Seq(Nat), NEW at \in Offsets(data), NEW S, NEW write, NEW child, NEW clipped,
         \A n \in S : write[n] \in Seq(Byte),
         \A n \in S : \A p \in Offsets(data) : Reads(data, p, write[n], child[p], n, clipped[n]),
         Thrown(child[Len(data) + 1]),
         NEW nodes \in Short(S)
  PROVE  LET codes == ChildCodes(nodes, write)
         IN  Reads(data, at, FlattenSeq(codes), ReadMany(child, at, Len(nodes)), nodes,
                   ListClips(nodes, clipped))
<1> DEFINE n == Len(nodes)
           codes == ChildCodes(nodes, write)
           clips == [k \in 0..n |-> IF k = 0 THEN {} ELSE clipped[nodes[k]]]
           end == Len(data) + 1
<1>1. /\ codes \in Seq(Seq(Byte)) /\ Len(codes) = n
      /\ n \in Nat /\ nodes \in Seq(S) /\ \A k \in 1..n : nodes[k] \in S
  BY ChildrenCode
<1>2. \A k \in 1..n : \A p \in Offsets(data) : Reads(data, p, codes[k], child[p], nodes[k], clips[k])
  <2>1. ASSUME NEW k \in 1..n PROVE codes[k] = write[nodes[k]] /\ clips[k] = clipped[nodes[k]]
    BY <1>1 DEF ChildCodes
  <2> HIDE DEF codes, clips
  <2> QED
    BY <1>1, <2>1
<1>3. clips[n] = IF n = 0 THEN {} ELSE clipped[nodes[n]]
  BY <1>1
<1> HIDE DEF codes, clips
<1>4. Reads(data, at, FlattenSeq(codes), ReadMany(child, at, n), nodes,
            {Append(SubSeq(nodes, 1, n - 1), c) : c \in clips[n]})
  <2>1. codes \in Seq(Seq(Byte)) /\ Len(codes) = Len(nodes) /\ nodes \in Seq(S)
    BY <1>1
  <2>2. Thrown(child[Len(data) + 1])
    OBVIOUS
  <2> QED
    BY <1>2, <2>1, <2>2, ManyRead
<1>5. {Append(SubSeq(nodes, 1, n - 1), c) : c \in clips[n]}
        = IF nodes = <<>> THEN {} ELSE {Append(Front(nodes), c) : c \in clipped[Last(nodes)]}
  <2>1. nodes = <<>> <=> n = 0
    BY <1>1, EmptySeq
  <2>2. Front(nodes) = SubSeq(nodes, 1, n - 1) /\ Last(nodes) = nodes[n]
    BY DEF Front, Last
  <2> QED
    BY <1>3, <2>1, <2>2
<1> QED
  BY <1>4, <1>5 DEF codes, ListClips

\* What the content of a node gives, whole or cut.
LEMMA ContentRead ==
  ASSUME NEW data \in Seq(Nat), NEW at \in Offsets(data), NEW S, NEW write, NEW child, NEW clipped,
         \A n \in S : write[n] \in Seq(Byte),
         \A n \in S : \A p \in Offsets(data) : Reads(data, p, write[n], child[p], n, clipped[n]),
         Thrown(child[Len(data) + 1]),
         NEW content \in Contents(S), content # NoContent
  PROVE  Reads(data, at, ContentCode(content, write), ReadContent(data, at, child), content,
               ContentClips(content, clipped))
<1> DEFINE code == ContentCode(content, write)
           clips == ContentClips(content, clipped)
<1>1. code \in Seq(Byte) /\ NoContent \in clips
  BY ContentTyped DEF ContentClips
<1>2. CASE \E d \in Binaries : content = Bytes(d)
  <2>1. PICK d \in Binaries : content = Bytes(d)
    BY <1>2
  <2> DEFINE read == IF at > Len(data) THEN Throws ELSE ReadBinary(data, at)
  <2>2. code = WriteBinary(d)
    BY <2>1, ContentTyped
  <2>3. Len(code) > 0 /\ code[1] \in {BINARY_8, BINARY_32}
    BY <2>2, BinaryTyped
  <2>4. Reads(data, at, code, read, content, {})
    BY <2>1, <2>2, BinaryRead
  <2>5. at <= Len(data) /\ data[at] = code[1] => ReadContent(data, at, child) = read
    <3>1. at \in Nat /\ Len(data) \in Nat
      BY LenProperties DEF Offsets
    <3> HIDE DEF code
    <3>2. ASSUME at <= Len(data), data[at] = code[1] PROVE ReadContent(data, at, child) = read
      <4>1. /\ ~(at > Len(data)) /\ data[at] \in {BINARY_8, BINARY_32}
            /\ data[at] \notin {LIST_EMPTY, LIST_8, LIST_16}
        <5>1. \A x \in {BINARY_8, BINARY_32} : x \notin {LIST_EMPTY, LIST_8, LIST_16}
          BY DEF BINARY_8, BINARY_32, LIST_EMPTY, LIST_8, LIST_16
        <5>2. ~(at > Len(data))
          BY <3>1, <3>2
        <5> QED
          BY <2>3, <3>2, <5>1, <5>2
      <4>2. ReadContent(data, at, child) = ReadBinary(data, at)
        BY <4>1 DEF ReadContent
      <4> QED
        BY <4>1, <4>2
    <3> QED
      BY <3>2
  <2> HIDE DEF code, read, clips
  <2>6. Reads(data, at, code, read, content, clips)
    BY <2>4, ReadsMore
  <2> QED
    BY <1>1, <2>3, <2>5, <2>6, ContentStarts DEF code, clips
<1>3. CASE \E nodes \in Short(S) : content = Children(nodes)
  <2>1. PICK nodes \in Short(S) : content = Children(nodes)
    BY <1>3
  <2> DEFINE n == Len(nodes)
             header == ListHeader(n)
             list == FlattenSeq(ChildCodes(nodes, write))
             first == ReadListSize(data, at)
             After(m, next) == Then(ReadMany(child, next, m), LAMBDA x, rest : Value(Children(x), rest))
             whole == Then(first, LAMBDA m, next : After(m, next))
             some == ListClips(nodes, clipped)
  <2>2. code = header \o list
    BY <2>1, ContentTyped
  <2>3. list \in Seq(Byte) /\ n \in Nat /\ n < Base * Base
    BY ChildrenCode
  <2>4. header \in Seq(Byte) /\ Len(header) \in Nat /\ Len(header) > 0 /\ header[1] \in {LIST_EMPTY, LIST_8, LIST_16}
    BY <2>3, HeaderCode, HeaderTag, LenProperties
  <2>5. Len(code) > 0 /\ code[1] = header[1]
    <3> HIDE DEF header, list
    <3>1. /\ Len(header \o list) = Len(header) + Len(list) /\ Len(list) \in Nat
          /\ \A i \in 1..Len(header) + Len(list) : (header \o list)[i] = IF i <= Len(header) THEN header[i] ELSE list[i - Len(header)]
      BY <2>3, <2>4, ConcatProperties, LenProperties
    <3>2. 1 \in 1..Len(header) + Len(list) /\ 1 <= Len(header) /\ Len(header) + Len(list) > 0
      BY <2>4, <3>1
    <3> QED
      BY <2>2, <3>1, <3>2
  <2>6. at <= Len(data) /\ data[at] = code[1] => ReadContent(data, at, child) = whole
    <3>1. at \in Nat /\ Len(data) \in Nat
      BY LenProperties DEF Offsets
    <3> HIDE DEF code, header
    <3>2. at <= Len(data) /\ data[at] = code[1] => ~(at > Len(data)) /\ data[at] \in {LIST_EMPTY, LIST_8, LIST_16}
      BY <2>4, <2>5, <3>1
    <3> QED
      BY <3>2 DEF ReadContent
  <2>7. Thrown(first) => Thrown(whole)
    BY ThrowsThrown DEF Then
  <2>8. \A p : p # 0 /\ first = Value(n, p) => whole = After(n, p)
    BY DEF Then, Thrown, Value
  <2>9. Reads(data, at, header, first, n, {})
    BY <2>3, HeaderRead
  <2>10. ASSUME NEW p, Thrown(ReadMany(child, p, n)) PROVE Thrown(After(n, p))
    BY <2>10, ThrowsThrown DEF Then
  <2>11. \A p, x, q : q # 0 /\ ReadMany(child, p, n) = Value(x, q) => After(n, p) = Value(Children(x), q)
    BY DEF Then, Thrown, Value
  <2> HIDE DEF After, first, whole
  <2>12. \A x \in some : Children(x) \in clips
    <3>1. nodes = <<>> => some = {}
      BY DEF ListClips
    <3>2. CASE nodes # <<>>
      <4>1. content.kind # "bytes" /\ content # Children(<<>>) /\ content.nodes = nodes
        BY <2>1, <3>2 DEF Children
      <4>2. clips = {NoContent} \cup {Children(Append(Front(nodes), c)) : c \in clipped[Last(nodes)]}
        BY <4>1 DEF ContentClips
      <4> QED
        BY <3>2, <4>2 DEF ListClips
    <3> QED
      BY <3>1, <3>2
  <2>13. ASSUME NEW p \in Offsets(data), first = Value(n, p)
         PROVE  Reads(data, p, list, whole, content, clips)
    <3> DEFINE many == ReadMany(child, p, n)
    <3>1. Reads(data, p, list, many, nodes, some)
      BY ChildrenRead
    <3>2. /\ p # 0 /\ p + Len(list) # 0 /\ Len(data) + 1 # 0
      BY <2>3, LenProperties DEF Offsets
    <3>3. whole = After(n, p)
      BY <2>8, <2>13, <3>2
    <3> HIDE DEF list, some, clips, many
    <3>4. many = Value(nodes, p + Len(list)) => whole = Value(content, p + Len(list))
      BY <2>1, <2>11, <3>2, <3>3 DEF many
    <3>5. Thrown(many) => Thrown(whole)
      BY <2>10, <3>3 DEF many
    <3>6. \A x \in some : many = Value(x, Len(data) + 1) => whole = Value(Children(x), Len(data) + 1)
      BY <2>11, <3>2, <3>3 DEF many
    <3> QED
      BY <2>12, <3>1, <3>4, <3>5, <3>6 DEF Reads
  <2> HIDE DEF header, list, clips, n
  <2>14. Reads(data, at, header \o list, whole, content, clips)
    BY <2>3, <2>4, <2>7, <2>9, <2>13, ReadsThen
  <2> HIDE DEF code
  <2>15. Reads(data, at, code, whole, content, clips)
    BY <2>2, <2>14
  <2>16. Reads(data, at, code, ReadContent(data, at, child), content, clips)
    BY <1>1, <2>5, <2>6, <2>15, ContentStarts
  <2> QED
    BY <2>16 DEF code, clips
<1> QED
  BY <1>2, <1>3 DEF Contents

\* readNode in its steps: the size, the tag, the attributes, the content.
AfterAttributes(data, child, size, tag, attrs, at) ==
  Then(IF (size - 1) % 2 = 1 THEN ReadContent(data, at, child) ELSE Value(NoContent, at),
       LAMBDA content, next : Value(Node(tag, attrs, content), next))

ReadAttributes(data, at, n) == ReadMany([p \in Offsets(data) |-> ReadAttribute(data, p)], at, n)

AfterTag(data, child, size, tag, at) ==
  Then(ReadAttributes(data, at, (size - 1) \div 2),
       LAMBDA attrs, atContent : AfterAttributes(data, child, size, tag, attrs, atContent))

AfterSize(data, child, size, at) ==
  IF size = 0 THEN Throws
  ELSE Then(ReadString(data, at), LAMBDA tag, atAttrs : AfterTag(data, child, size, tag, atAttrs))

LEMMA NodeSteps ==
  ASSUME NEW data, NEW at, NEW child
  PROVE  /\ Thrown(ReadListSize(data, at)) => Thrown(ReadNode(data, at, child))
         /\ \A size, p : p # 0 /\ ReadListSize(data, at) = Value(size, p)
              => ReadNode(data, at, child) = AfterSize(data, child, size, p)
<1>1. ReadNode(data, at, child) = Then(ReadListSize(data, at), LAMBDA size, p : AfterSize(data, child, size, p))
  BY DEF ReadNode, AfterSize, AfterTag, ReadAttributes, AfterAttributes
<1>2. Thrown(ReadListSize(data, at)) => Then(ReadListSize(data, at), LAMBDA size, p : AfterSize(data, child, size, p)) = Throws
  BY DEF Then
<1>3. ASSUME NEW size, NEW p, p # 0, ReadListSize(data, at) = Value(size, p)
      PROVE  Then(ReadListSize(data, at), LAMBDA s, q : AfterSize(data, child, s, q)) = AfterSize(data, child, size, p)
  BY <1>3 DEF Then, Thrown, Value
<1> QED
  BY <1>1, <1>2, <1>3, ThrowsThrown

LEMMA SizeSteps ==
  ASSUME NEW data, NEW at, NEW child, NEW size, size # 0
  PROVE  /\ Thrown(ReadString(data, at)) => Thrown(AfterSize(data, child, size, at))
         /\ \A tag, p : p # 0 /\ ReadString(data, at) = Value(tag, p)
              => AfterSize(data, child, size, at) = AfterTag(data, child, size, tag, p)
<1>1. Thrown(ReadString(data, at)) => Thrown(AfterSize(data, child, size, at))
  BY ThrowsThrown DEF AfterSize, Then
<1>2. ASSUME NEW tag, NEW p, p # 0, ReadString(data, at) = Value(tag, p)
      PROVE  AfterSize(data, child, size, at) = AfterTag(data, child, size, tag, p)
  BY <1>2 DEF AfterSize, Then, Thrown, Value
<1> QED
  BY <1>1, <1>2

LEMMA TagSteps ==
  ASSUME NEW data, NEW at, NEW child, NEW size, NEW tag
  PROVE  LET read == ReadAttributes(data, at, (size - 1) \div 2)
         IN  /\ Thrown(read) => Thrown(AfterTag(data, child, size, tag, at))
             /\ \A attrs, p : p # 0 /\ read = Value(attrs, p)
                  => AfterTag(data, child, size, tag, at) = AfterAttributes(data, child, size, tag, attrs, p)
<1> DEFINE read == ReadAttributes(data, at, (size - 1) \div 2)
<1>1. Thrown(read) => Thrown(AfterTag(data, child, size, tag, at))
  BY ThrowsThrown DEF AfterTag, Then
<1>2. ASSUME NEW attrs, NEW p, p # 0, read = Value(attrs, p)
      PROVE  AfterTag(data, child, size, tag, at) = AfterAttributes(data, child, size, tag, attrs, p)
  BY <1>2 DEF AfterTag, Then, Thrown, Value
<1> QED
  BY <1>1, <1>2

LEMMA AttributesSteps ==
  ASSUME NEW data, NEW at, NEW child, NEW size, NEW tag, NEW attrs
  PROVE  LET read == IF (size - 1) % 2 = 1 THEN ReadContent(data, at, child) ELSE Value(NoContent, at)
             whole == AfterAttributes(data, child, size, tag, attrs, at)
         IN  /\ Thrown(read) => Thrown(whole)
             /\ \A content, p : p # 0 /\ read = Value(content, p) => whole = Value(Node(tag, attrs, content), p)
<1> DEFINE read == IF (size - 1) % 2 = 1 THEN ReadContent(data, at, child) ELSE Value(NoContent, at)
           whole == AfterAttributes(data, child, size, tag, attrs, at)
<1>1. whole = Then(read, LAMBDA content, next : Value(Node(tag, attrs, content), next))
  BY DEF AfterAttributes
<1> HIDE DEF read
<1>2. Thrown(read) => Thrown(whole)
  BY <1>1, ThrowsThrown DEF Then
<1>3. ASSUME NEW content, NEW p, p # 0, read = Value(content, p) PROVE whole = Value(Node(tag, attrs, content), p)
  BY <1>1, <1>3 DEF Then, Thrown, Value
<1> QED
  BY <1>2, <1>3 DEF read

\* The size of a node tells how many attributes it has and whether it has content.
LEMMA SizeLaw ==
  ASSUME NEW S, NEW node \in NodesOver(S)
  PROVE  LET size == NodeSize(node)
         IN  /\ size \in Nat /\ size < Base * Base /\ size # 0
             /\ (size - 1) \div 2 = Len(node.attrs)
             /\ (size - 1) % 2 = 1 <=> node.content # NoContent
<1> DEFINE n == Len(node.attrs)
           c == IF node.content = NoContent THEN 0 ELSE 1
           B == Base * Base
           size == 1 + 2 * n + c
<1>1. n \in Nat /\ B \in Nat /\ c \in {0, 1} /\ (c = 1 <=> node.content # NoContent)
  <2>1. B \in Nat
    BY Bases
  <2>2. n \in Nat
    BY NodeParts, LenProperties
  <2> QED
    BY <2>1, <2>2
<1>2. NodeSize(node) = size /\ size < B
  BY NodeParts DEF NodeSize
<1> HIDE DEF n, c, B
<1>3. /\ size \in Nat /\ size < B /\ size # 0
      /\ (size - 1) \div 2 = n
      /\ (size - 1) % 2 = c
  BY <1>1, <1>2
<1> QED
  BY <1>1, <1>2, <1>3 DEF n, B

\* The code of a node in its parts.
LEMMA NodeWritten ==
  ASSUME NEW S, NEW node \in NodesOver(S), NEW write, \A n \in S : write[n] \in Seq(Byte)
  PROVE  LET rest == Attributes(node.attrs) \o ContentCode(node.content, write)
         IN  /\ Attributes(node.attrs) \in Seq(Byte) /\ ContentCode(node.content, write) \in Seq(Byte)
             /\ rest \in Seq(Byte) /\ WriteString(node.tag) \o rest \in Seq(Byte)
             /\ NodeCode(node, write) = ListHeader(NodeSize(node)) \o (WriteString(node.tag) \o rest)
             /\ NodeCode(node, write) \in Seq(Byte)
<1> DEFINE h == ListHeader(NodeSize(node))
           t == WriteString(node.tag)
           a == Attributes(node.attrs)
           c == ContentCode(node.content, write)
<1>1. NodeCode(node, write) = ((h \o t) \o a) \o c
  BY DEF NodeCode, NodeSize
<1>2. node.tag \in ShortText /\ node.attrs \in Seq(ShortText \X ShortText) /\ node.content \in Contents(S)
  BY NodeParts
<1>3. h \in Seq(Byte) /\ t \in Seq(Byte)
  BY <1>2, SizeLaw, HeaderCode, StringCode
<1>4. a \in Seq(Byte)
  <2>1. <<>> \in Seq(Nat)
    BY EmptySeq
  <2>2. 1 \in Offsets(<<>>)
    BY DEF Offsets
  <2> QED
    BY <1>2, <2>1, <2>2, AttributesRead
<1>5. c \in Seq(Byte)
  BY <1>2, ContentTyped
<1> HIDE DEF h, t, a, c
<1>6. a \o c \in Seq(Byte)
  BY <1>4, <1>5, ConcatProperties
<1> DEFINE r == a \o c
<1> HIDE DEF r
<1>7. t \o r \in Seq(Byte)
  BY <1>3, <1>6, ConcatProperties DEF r
<1>8. ((h \o t) \o a) \o c = (h \o t) \o r
  <2>1. h \o t \in Seq(Byte)
    BY <1>3, ConcatProperties
  <2> DEFINE x == h \o t
  <2>2. x \in Seq(Byte)
    BY <2>1
  <2> HIDE DEF x
  <2>3. (x \o a) \o c = x \o (a \o c)
    BY <1>4, <1>5, <2>2, ConcatAssociative
  <2> QED
    BY <2>3 DEF x, r
<1>9. (h \o t) \o r = h \o (t \o r)
  <2>1. r \in Seq(Byte)
    BY <1>6 DEF r
  <2> QED
    BY <1>3, <2>1, ConcatAssociative
<1> DEFINE s == t \o r
<1> HIDE DEF s
<1>10. h \o s \in Seq(Byte)
  BY <1>3, <1>7, ConcatProperties DEF s
<1>11. NodeCode(node, write) = h \o s
  BY <1>1, <1>8, <1>9 DEF s
<1>12. h \o s = h \o (t \o (a \o c)) /\ r = a \o c
  BY DEF r, s
<1>13. /\ a \in Seq(Byte) /\ c \in Seq(Byte) /\ a \o c \in Seq(Byte) /\ t \o (a \o c) \in Seq(Byte)
       /\ NodeCode(node, write) = h \o (t \o (a \o c)) /\ NodeCode(node, write) \in Seq(Byte)
  BY <1>4, <1>5, <1>6, <1>7, <1>10, <1>11, <1>12
<1> QED
  BY <1>13 DEF h, t, a, c

\* What a node gives, whole or cut.
LEMMA NodeRead ==
  ASSUME NEW data \in Seq(Nat), NEW at \in Offsets(data), NEW S, NEW write, NEW child, NEW clipped,
         \A n \in S : write[n] \in Seq(Byte),
         \A n \in S : \A p \in Offsets(data) : Reads(data, p, write[n], child[p], n, clipped[n]),
         Thrown(child[Len(data) + 1]),
         NEW node \in NodesOver(S)
  PROVE  Reads(data, at, NodeCode(node, write), ReadNode(data, at, child), node, Clips(node, clipped))
<1> DEFINE size == NodeSize(node)
           tag == node.tag
           attrs == node.attrs
           content == node.content
           header == ListHeader(size)
           tagCode == WriteString(tag)
           attrCode == Attributes(attrs)
           code == ContentCode(content, write)
           rest == attrCode \o code
           whole == ReadNode(data, at, child)
           clips == Clips(node, clipped)
<1>1. /\ tag \in ShortText /\ attrs \in Seq(ShortText \X ShortText) /\ content \in Contents(S)
      /\ node = Node(tag, attrs, content)
  BY NodeParts
<1>2. /\ size \in Nat /\ size < Base * Base /\ size # 0
      /\ (size - 1) \div 2 = Len(attrs)
      /\ (size - 1) % 2 = 1 <=> content # NoContent
  BY SizeLaw
<1>3. /\ attrCode \in Seq(Byte) /\ code \in Seq(Byte) /\ rest \in Seq(Byte) /\ tagCode \o rest \in Seq(Byte)
      /\ NodeCode(node, write) = header \o (tagCode \o rest)
  BY NodeWritten
<1>4. header \in Seq(Byte) /\ tagCode \in Seq(Byte)
  BY <1>1, <1>2, HeaderCode, StringCode
<1>5. \A c \in ContentClips(content, clipped) : Node(tag, attrs, c) \in clips
  <2>1. \A c : [node EXCEPT !.content = c] = Node(tag, attrs, c)
    BY NodeParts
  <2> HIDE DEF tag, attrs
  <2> QED
    BY <2>1 DEF Clips
<1> HIDE DEF size, tag, attrs, content, header, tagCode, attrCode, code, rest, whole, clips
<1>6. ASSUME NEW p \in Offsets(data), whole = AfterAttributes(data, child, size, tag, attrs, p)
      PROVE  Reads(data, p, code, whole, node, clips)
  <2> DEFINE read == IF (size - 1) % 2 = 1 THEN ReadContent(data, p, child) ELSE Value(NoContent, p)
             end == Len(data) + 1
  <2>1. p \in Nat /\ p # 0 /\ p <= end /\ end \in Nat /\ end # 0 /\ Len(code) \in Nat /\ p + Len(code) # 0
    BY <1>3, LenProperties DEF Offsets
  <2>2. /\ Thrown(read) => Thrown(whole)
        /\ \A c, q : q # 0 /\ read = Value(c, q) => whole = Value(Node(tag, attrs, c), q)
    BY <1>6, AttributesSteps
  <2>3. CASE content = NoContent
    <3>1. code = <<>>
      BY <1>1, <2>3, ContentTyped DEF code
    <3>2. Len(code) = 0
      BY <3>1
    <3>3. ~EndsIn(data, p, code) /\ p + Len(code) = p
      BY <2>1, <3>2 DEF EndsIn
    <3>4. read = Value(content, p)
      BY <1>2, <2>3
    <3> HIDE DEF read
    <3>5. whole = Value(node, p)
      BY <1>1, <2>1, <2>2, <3>4
    <3> QED
      BY <3>3, <3>5 DEF Reads
  <2>4. CASE content # NoContent
    <3>1. read = ReadContent(data, p, child)
      BY <1>2, <2>4
    <3>2. Reads(data, p, code, ReadContent(data, p, child), content, ContentClips(content, clipped))
      <4> HIDE DEF read, end
      <4>1. content \in Contents(S) /\ content # NoContent /\ p \in Offsets(data)
        BY <1>1, <2>4
      <4>2. Reads(data, p, ContentCode(content, write), ReadContent(data, p, child), content,
                  ContentClips(content, clipped))
        BY <4>1, ContentRead
      <4> QED
        BY <4>2 DEF code
    <3> HIDE DEF read, end
    <3>3. Reads(data, p, code, read, content, ContentClips(content, clipped))
      BY <3>1, <3>2
    <3>4. Holds(data, p, code) => whole = Value(node, p + Len(code))
      BY <1>1, <2>1, <2>2, <3>3 DEF Reads
    <3>5. ASSUME EndsIn(data, p, code) PROVE Thrown(whole) \/ \E c \in clips : whole = Value(c, end)
      <4>1. CASE Thrown(read)
        BY <2>2, <4>1
      <4>2. CASE \E c \in ContentClips(content, clipped) : read = Value(c, end)
        <5>1. PICK c \in ContentClips(content, clipped) : read = Value(c, end)
          BY <4>2
        <5>2. whole = Value(Node(tag, attrs, c), end)
          BY <2>1, <2>2, <5>1
        <5> QED
          BY <1>5, <5>2
      <4> QED
        BY <3>3, <3>5, <4>1, <4>2 DEF Reads, end
    <3> QED
      BY <3>4, <3>5 DEF Reads, end
  <2> QED
    BY <2>3, <2>4
<1>7. ASSUME NEW p \in Offsets(data), whole = AfterTag(data, child, size, tag, p)
      PROVE  Reads(data, p, rest, whole, node, clips)
  <2> DEFINE first == ReadAttributes(data, p, (size - 1) \div 2)
             next == p + Len(attrCode)
  <2>1. Reads(data, p, attrCode, first, attrs, {})
    <3>1. Reads(data, p, attrCode, ReadAttributes(data, p, Len(attrs)), attrs, {})
      BY <1>1, AttributesRead DEF attrCode, ReadAttributes
    <3> QED
      BY <1>2, <3>1
  <2>2. /\ Thrown(first) => Thrown(whole)
        /\ \A x, q : q # 0 /\ first = Value(x, q) => whole = AfterAttributes(data, child, size, tag, x, q)
    BY <1>7, TagSteps
  <2>3. next # 0
    BY <1>3, LenProperties DEF Offsets
  <2> HIDE DEF first
  <2>4. ASSUME next \in Offsets(data), first = Value(attrs, next) PROVE Reads(data, next, code, whole, node, clips)
    BY <1>6, <2>2, <2>3, <2>4
  <2>5. Reads(data, p, attrCode \o code, whole, node, clips)
    BY <1>3, <2>1, <2>2, <2>4, ReadsThen
  <2> QED
    BY <2>5 DEF rest
<1>8. ASSUME NEW p \in Offsets(data), whole = AfterSize(data, child, size, p)
      PROVE  Reads(data, p, tagCode \o rest, whole, node, clips)
  <2> DEFINE first == ReadString(data, p)
             next == p + Len(tagCode)
  <2>1. Reads(data, p, tagCode, first, tag, {})
    BY <1>1, StringRead DEF tagCode
  <2>2. /\ Thrown(first) => Thrown(whole)
        /\ \A x, q : q # 0 /\ first = Value(x, q) => whole = AfterTag(data, child, size, x, q)
    BY <1>2, <1>8, SizeSteps
  <2>3. next # 0
    BY <1>4, LenProperties DEF Offsets
  <2> HIDE DEF first
  <2>4. ASSUME next \in Offsets(data), first = Value(tag, next) PROVE Reads(data, next, rest, whole, node, clips)
    BY <1>7, <2>2, <2>3, <2>4
  <2> QED
    BY <1>3, <1>4, <2>1, <2>2, <2>4, ReadsThen
<1>9. Reads(data, at, header \o (tagCode \o rest), whole, node, clips)
  <2> DEFINE first == ReadListSize(data, at)
             next == at + Len(header)
             tail == tagCode \o rest
  <2>1. Reads(data, at, header, first, size, {})
    BY <1>2, HeaderRead DEF header
  <2>2. /\ Thrown(first) => Thrown(whole)
        /\ \A x, q : q # 0 /\ first = Value(x, q) => whole = AfterSize(data, child, x, q)
    BY NodeSteps DEF whole
  <2>3. next # 0
    BY <1>4, LenProperties DEF Offsets
  <2> HIDE DEF first
  <2>4. ASSUME next \in Offsets(data), first = Value(size, next) PROVE Reads(data, next, tail, whole, node, clips)
    BY <1>8, <2>2, <2>3, <2>4
  <2>5. tail \in Seq(Byte)
    BY <1>3
  <2> HIDE DEF tail
  <2>6. Reads(data, at, header \o tail, whole, node, clips)
    BY <1>4, <2>1, <2>2, <2>4, <2>5, ReadsThen
  <2> QED
    BY <2>6 DEF tail
<1> QED
  BY <1>3, <1>9 DEF whole, clips

\* What the nodes of each depth give.
LEMMA DepthRead ==
  ASSUME NEW data \in Seq(Nat), NEW d \in 0..MaxDepth
  PROVE  \A node \in EncodableNodes[d] :
           /\ WriteNode[d][node] \in Seq(Byte)
           /\ \A at \in Offsets(data) :
                Reads(data, at, WriteNode[d][node], NodeReads(data)[d][at], node, Clipped[d][node])
<1> DEFINE read == NodeReads(data)
           end == Len(data) + 1
           E(k) == IF k = 0 THEN {} ELSE EncodableNodes[k - 1]
           W(k) == IF k = 0 THEN <<>> ELSE WriteNode[k - 1]
           C(k) == IF k = 0 THEN <<>> ELSE Clipped[k - 1]
           R(k) == IF k = 0 THEN [p \in Offsets(data) |-> Throws] ELSE read[k - 1]
           Good(nodes, write, child, clipped) ==
             \A node \in nodes :
               /\ write[node] \in Seq(Byte)
               /\ \A at \in Offsets(data) : Reads(data, at, write[node], child[at], node, clipped[node])
           P(k) == Good(EncodableNodes[k], WriteNode[k], read[k], Clipped[k])
<1>1. MaxDepth \in Nat /\ end \in Offsets(data)
  BY Bases, LenProperties DEF Offsets
<1>2. ASSUME NEW k \in 0..MaxDepth
      PROVE  /\ EncodableNodes[k] = NodesOver(E(k))
             /\ WriteNode[k] = [node \in EncodableNodes[k] |-> NodeCode(node, W(k))]
             /\ Clipped[k] = [node \in EncodableNodes[k] |-> Clips(node, C(k))]
             /\ read[k] = [at \in Offsets(data) |-> ReadNode(data, at, R(k))]
  BY EncodableLaw, WriteLaw, ClippedLaw, ReadLaw
<1>3. ASSUME NEW k \in 0..MaxDepth PROVE Thrown(R(k)[end])
  <2>1. CASE k = 0
    <3>1. R(k)[end] = Throws
      BY <1>1, <2>1
    <3> QED
      BY <3>1, ThrowsThrown
  <2>2. CASE k # 0
    <3> DEFINE m == k - 1
    <3>1. m \in 0..MaxDepth /\ R(k) = read[m]
      BY <1>1, <2>2
    <3> HIDE DEF m, R, E, W, C, read
    <3>2. read[m] = [at \in Offsets(data) |-> ReadNode(data, at, R(m))]
      BY <1>2, <3>1
    <3>3. R(k)[end] = ReadNode(data, end, R(m))
      BY <1>1, <3>1, <3>2
    <3>4. Thrown(ReadNode(data, end, R(m)))
      BY EndThrows
    <3> QED
      BY <3>3, <3>4
  <2> QED
    BY <2>1, <2>2
<1> HIDE DEF read, R, E, W, C
<1>4. ASSUME NEW k \in 0..MaxDepth, Good(E(k), W(k), R(k), C(k)) PROVE P(k)
  <2> SUFFICES ASSUME NEW node \in EncodableNodes[k]
               PROVE  /\ WriteNode[k][node] \in Seq(Byte)
                      /\ \A at \in Offsets(data) : Reads(data, at, WriteNode[k][node], read[k][at], node, Clipped[k][node])
    OBVIOUS
  <2>1. node \in NodesOver(E(k)) /\ WriteNode[k][node] = NodeCode(node, W(k)) /\ Clipped[k][node] = Clips(node, C(k))
    BY <1>2
  <2>2. Thrown(R(k)[Len(data) + 1])
    BY <1>3
  <2>3. \A n \in E(k) : W(k)[n] \in Seq(Byte)
    BY <1>4
  <2>4. \A n \in E(k) : \A p \in Offsets(data) : Reads(data, p, W(k)[n], R(k)[p], n, C(k)[n])
    BY <1>4
  <2>5. NodeCode(node, W(k)) \in Seq(Byte)
    BY <2>1, <2>3, NodeWritten
  <2>6. ASSUME NEW at \in Offsets(data)
        PROVE  Reads(data, at, WriteNode[k][node], read[k][at], node, Clipped[k][node])
    <3>1. read[k][at] = ReadNode(data, at, R(k))
      BY <1>2
    <3>2. Reads(data, at, NodeCode(node, W(k)), ReadNode(data, at, R(k)), node, Clips(node, C(k)))
      BY <2>1, <2>2, <2>3, <2>4, NodeRead
    <3> QED
      BY <2>1, <3>1, <3>2
  <2> QED
    BY <2>1, <2>5, <2>6
<1> DEFINE T == {k \in Nat : k <= MaxDepth => P(k)}
<1>5. 0 \in T
  <2>1. 0 \in 0..MaxDepth /\ E(0) = {}
    BY <1>1 DEF E
  <2>2. Good(E(0), W(0), R(0), C(0))
    BY <2>1
  <2> HIDE DEF Good
  <2> QED
    BY <1>4, <2>1, <2>2
<1>6. ASSUME NEW k \in Nat, k \in T PROVE k + 1 \in T
  <2>1. CASE k + 1 <= MaxDepth
    <3> DEFINE m == k + 1
    <3>1. m \in 0..MaxDepth /\ m # 0 /\ m - 1 = k /\ m \in Nat
      BY <1>1, <2>1
    <3>2. P(k)
      <4>1. k <= MaxDepth
        BY <1>1, <2>1
      <4> HIDE DEF Good
      <4> QED
        BY <1>6, <4>1
    <3> HIDE DEF m, Good
    <3>3. E(m) = EncodableNodes[k] /\ W(m) = WriteNode[k] /\ R(m) = read[k] /\ C(m) = Clipped[k]
      BY <3>1 DEF E, W, R, C
    <3>4. P(m)
      BY <1>4, <3>1, <3>2, <3>3
    <3> QED
      BY <3>1, <3>4 DEF m
  <2>2. CASE ~(k + 1 <= MaxDepth)
    BY <2>2
  <2> QED
    BY <2>1, <2>2
<1> HIDE DEF T
<1>7. d \in T /\ d <= MaxDepth
  <2>1. d \in Nat /\ d <= MaxDepth
    BY <1>1
  <2> QED
    BY <1>5, <1>6, <2>1, SetInduction
<1>8. P(d)
  <2> HIDE DEF Good
  <2> QED
    BY <1>7 DEF T
<1> QED
  BY <1>8 DEF read

----------------------------------------------------------------------------
\* From the sender to the receiver.

\* What decode gives of the bytes of a node, whole or cut, whatever follows them.
LEMMA CodeRead ==
  ASSUME NEW data \in Seq(Nat), NEW node, Encodable(node)
  PROVE  /\ BytesOf(node) \in Seq(Byte)
         /\ Reads(data, 1, BytesOf(node), Decode(data), node, Clipped[MaxDepth][node])
<1>1. MaxDepth \in 0..MaxDepth /\ 1 \in Offsets(data)
  BY Bases, LenProperties DEF Offsets
<1>2. node \in EncodableNodes[MaxDepth] /\ BytesOf(node) = WriteNode[MaxDepth][node]
  BY DEF Encodable, BytesOf
<1>3. Decode(data) = NodeReads(data)[MaxDepth][1]
  BY ReadLaw
<1>4. /\ WriteNode[MaxDepth][node] \in Seq(Byte)
      /\ Reads(data, 1, WriteNode[MaxDepth][node], NodeReads(data)[MaxDepth][1], node, Clipped[MaxDepth][node])
  BY <1>1, <1>2, DepthRead
<1> QED
  BY <1>2, <1>3, <1>4

\* A code with more behind it is held whole, and one without its end ends in it.
LEMMA CodeSent ==
  ASSUME NEW code \in Seq(Byte)
  PROVE  /\ code \in Seq(Nat) /\ Holds(code, 1, code)
         /\ \A tail \in Seq(Nat) : code \o tail \in Seq(Nat) /\ Holds(code \o tail, 1, code)
         /\ \A n \in 1..Len(code) :
              LET cut == SubSeq(code, 1, Len(code) - n)
              IN  cut \in Seq(Nat) /\ EndsIn(cut, 1, code)
<1> DEFINE l == Len(code)
<1>1. code \in Seq(Nat) /\ l \in Nat
  BY Bases, SeqMonotonic, LenProperties DEF Byte
<1>2. \A k \in 1..l : 1 + k - 1 = k
  OBVIOUS
<1>3. Holds(code, 1, code)
  BY <1>1, <1>2 DEF Holds
<1>4. ASSUME NEW tail \in Seq(Nat) PROVE code \o tail \in Seq(Nat) /\ Holds(code \o tail, 1, code)
  <2> DEFINE data == code \o tail
  <2>1. /\ data \in Seq(Nat) /\ Len(data) = l + Len(tail) /\ Len(tail) \in Nat
        /\ \A i \in 1..l + Len(tail) : data[i] = IF i <= l THEN code[i] ELSE tail[i - l]
    BY <1>1, ConcatProperties, LenProperties
  <2> HIDE DEF data
  <2>2. \A k \in 1..l : data[1 + k - 1] = code[k]
    <3>1. \A k \in 1..l : k \in 1..l + Len(tail) /\ k <= l
      BY <1>1, <2>1
    <3> QED
      BY <1>2, <2>1, <3>1
  <2>3. 1 + l <= Len(data) + 1
    BY <1>1, <2>1
  <2> HIDE DEF l
  <2>4. Holds(data, 1, code)
    BY <2>2, <2>3 DEF Holds, l
  <2> QED
    BY <2>1, <2>4 DEF data
<1>5. ASSUME NEW n \in 1..l
      PROVE  SubSeq(code, 1, l - n) \in Seq(Nat) /\ EndsIn(SubSeq(code, 1, l - n), 1, code)
  <2> DEFINE m == l - n
             cut == SubSeq(code, 1, m)
  <2>1. m \in Nat /\ m < l
    BY <1>1
  <2>2. \A i \in 1..m : code[i] \in Nat
    BY <1>1, <2>1, ElementOfSeq
  <2> HIDE DEF m
  <2>3. /\ cut \in Seq(Nat)
        /\ Len(cut) = IF 1 <= m THEN m - 1 + 1 ELSE 0
        /\ \A i \in 1..m - 1 + 1 : cut[i] = code[1 + i - 1]
    BY <2>1, <2>2, SubSeqProperties
  <2> HIDE DEF cut
  <2>4. Len(cut) = m /\ \A i \in 1..m : cut[i] = code[i]
    BY <2>1, <2>3
  <2>5. Len(cut) + 1 < 1 + l
    BY <1>1, <2>1, <2>4
  <2>6. \A k \in 1..l : 1 + k - 1 <= Len(cut) => cut[1 + k - 1] = code[k]
    BY <1>2, <2>1, <2>4
  <2> HIDE DEF l
  <2>7. EndsIn(cut, 1, code)
    BY <2>5, <2>6 DEF EndsIn, l
  <2> QED
    BY <2>3, <2>7 DEF cut, m
<1> QED
  BY <1>1, <1>3, <1>4, <1>5

\* decode gives back any node that encode took, and stops behind its bytes, whatever follows them.
THEOREM DecodeInvertsEncode ==
  ASSUME NEW node, Encodable(node), NEW tail \in Seq(Nat)
  PROVE  Decode(BytesOf(node) \o tail) = Value(node, 1 + Len(BytesOf(node)))
<1> DEFINE code == BytesOf(node)
           data == code \o tail
<1>1. code \in Seq(Byte)
  <2>1. <<>> \in Seq(Nat)
    BY EmptySeq
  <2> QED
    BY <2>1, CodeRead
<1>2. data \in Seq(Nat) /\ Holds(data, 1, code)
  BY <1>1, CodeSent
<1> HIDE DEF data
<1>3. Reads(data, 1, code, Decode(data), node, Clipped[MaxDepth][node])
  BY <1>2, CodeRead
<1> QED
  BY <1>2, <1>3 DEF Reads, data

\* The inductive invariant: the buffer holds the bytes of the node, or ends within them when
\* it lost some.
InTransit ==
  /\ stage \in {"built", "encoded", "rejected", "sent", "received"}
  /\ request \in Requests
  /\ stage = "built" => lost = 0
  /\ stage = "encoded" => Encodable(request.node) /\ buffer = BytesOf(request.node) /\ lost = 0
  /\ stage \in {"sent", "received"} =>
       /\ Encodable(request.node) /\ buffer \in Seq(Nat) /\ lost \in Nat
       /\ lost = 0 => Holds(buffer, 1, BytesOf(request.node))
       /\ lost > 0 => EndsIn(buffer, 1, BytesOf(request.node))
  /\ stage = "received" => received = Decode(buffer)

\* The invariant holds at the start, is kept by every step, and so holds always.
LEMMA TransitInit == WireInit => InTransit
BY DEF WireInit, InTransit

LEMMA TransitStep == InTransit /\ [WireNext]_wireVars => InTransit'
<1> SUFFICES ASSUME InTransit, [WireNext]_wireVars PROVE InTransit'
  OBVIOUS
<1> DEFINE node == request.node
           code == BytesOf(node)
<1>1. Encodable(node) => code \in Seq(Byte)
  <2>1. <<>> \in Seq(Nat)
    BY EmptySeq
  <2> QED
    BY <2>1, CodeRead
<1>2. CASE Encode
  BY <1>2 DEF InTransit, Encode
<1>3. CASE Cut
  <2>1. PICK n \in 1..Len(buffer) : lost' = n /\ buffer' = SubSeq(buffer, 1, Len(buffer) - n)
    BY <1>3 DEF Cut
  <2>2. /\ stage = "encoded" /\ stage' = "sent" /\ request' = request
        /\ Encodable(node) /\ buffer = code
    BY <1>3 DEF InTransit, Cut
  <2>3. code \in Seq(Byte) /\ n \in 1..Len(code)
    BY <1>1, <2>1, <2>2
  <2>4. n \in Nat /\ n > 0
    BY <2>3, LenProperties
  <2>5. buffer' \in Seq(Nat) /\ EndsIn(buffer', 1, code)
    BY <2>1, <2>2, <2>3, CodeSent
  <2> QED
    BY <2>1, <2>2, <2>4, <2>5 DEF InTransit
<1>4. CASE Extend
  <2>1. PICK n \in 0..MaxExtra : buffer' = buffer \o [k \in 1..n |-> k]
    BY <1>4 DEF Extend
  <2>2. /\ stage = "encoded" /\ stage' = "sent" /\ request' = request /\ lost' = lost /\ lost = 0
        /\ Encodable(node) /\ buffer = code
    BY <1>4 DEF InTransit, Extend
  <2> DEFINE tail == [k \in 1..n |-> k]
  <2>3. tail \in Seq(Nat)
    BY ChannelAssumption
  <2> HIDE DEF tail
  <2>4. buffer' \in Seq(Nat) /\ Holds(buffer', 1, code)
    BY <1>1, <2>1, <2>2, <2>3, CodeSent DEF tail
  <2> QED
    BY <2>2, <2>4 DEF InTransit
<1>5. CASE Receive
  BY <1>5 DEF InTransit, Receive
<1>6. CASE UNCHANGED wireVars
  BY <1>6 DEF InTransit, wireVars
<1> QED
  BY <1>2, <1>3, <1>4, <1>5, <1>6 DEF WireNext

LEMMA TransitAlways == WireSpec => []InTransit
BY TransitInit, TransitStep, PTL DEF WireSpec

\* decode refuses a buffer that lost its end, wherever it was cut and however deep the node is,
\* unless all that is lost is the content of the last node or of one around it.
THEOREM CutsRefusedAlways == WireSpec => []CutsRefused
<1>1. InTransit => CutsRefused
  <2> SUFFICES ASSUME InTransit, stage = "received", lost > 0
               PROVE  Thrown(received) \/ received.value \in Clipped[MaxDepth][request.node]
    BY DEF CutsRefused
  <2> DEFINE node == request.node
             code == BytesOf(node)
  <2>1. /\ Encodable(node) /\ buffer \in Seq(Nat) /\ EndsIn(buffer, 1, code) /\ received = Decode(buffer)
    BY DEF InTransit
  <2>2. Reads(buffer, 1, code, Decode(buffer), node, Clipped[MaxDepth][node])
    BY <2>1, CodeRead
  <2>3. CASE \E c \in Clipped[MaxDepth][node] : received = Value(c, Len(buffer) + 1)
    <3>1. PICK c \in Clipped[MaxDepth][node] : received = Value(c, Len(buffer) + 1)
      BY <2>3
    <3>2. received.value = c
      BY <3>1 DEF Value
    <3> QED
      BY <3>2
  <2> QED
    BY <2>1, <2>2, <2>3 DEF Reads
<1> QED
  BY <1>1, TransitAlways, PTL

----------------------------------------------------------------------------
\* The JID in a node.

\* What split makes of one word more.
OneWord(parts, w, separator) ==
  IF w = separator THEN Append(parts, <<>>)
  ELSE Append(Front(parts), Append(Last(parts), w))

Parts(text, separator) ==
  CHOOSE f : f = [k \in 0..Len(text) |-> IF k = 0 THEN << <<>> >> ELSE OneWord(f[k - 1], text[k], separator)]

\* Split goes through the text, a word at a time.
LEMMA SplitLaw ==
  ASSUME NEW text, Len(text) \in Nat, NEW separator
  PROVE  /\ Split(text, separator) = Parts(text, separator)[Len(text)]
         /\ Parts(text, separator)[0] = << <<>> >>
         /\ \A k \in 1..Len(text) :
              Parts(text, separator)[k] = OneWord(Parts(text, separator)[k - 1], text[k], separator)
<1> DEFINE Next(parts, k) == OneWord(parts, text[k], separator)
           n == Len(text)
           Step(f, k) == IF k = 0 THEN << <<>> >> ELSE Next(f[k - 1], k)
           Solves(f, l) == f = [k \in 0..l |-> Step(f, k)]
<1> HIDE DEF Next
<1>1. ASSUME NEW l \in Nat PROVE \E f : Solves(f, l)
  <2> DEFINE T == {k \in Nat : \E f : Solves(f, k)}
  <2>1. 0 \in T
    <3>1. Solves([k \in 0..0 |-> Step(<<>>, 0)], 0)
      OBVIOUS
    <3> QED
      BY <3>1
  <2>2. ASSUME NEW k \in Nat, k \in T PROVE k + 1 \in T
    <3>1. PICK g : Solves(g, k)
      BY <2>2
    <3> DEFINE h == [i \in 0..k + 1 |-> Step(g, i)]
    <3>2. h = [i \in 0..k + 1 |-> h[i]] /\ \A i \in 0..k + 1 : h[i] = Step(g, i)
      OBVIOUS
    <3> HIDE DEF h
    <3>3. \A i \in 0..k : h[i] = g[i]
      <4>1. \A i \in 0..k : i \in 0..k + 1 /\ g[i] = Step(g, i)
        BY <3>1
      <4> HIDE DEF Step
      <4> QED
        BY <3>2, <4>1
    <3>4. \A i \in 0..k + 1 : i # 0 => i - 1 \in 0..k
      OBVIOUS
    <3>5. \A i \in 0..k + 1 : h[i] = Step(h, i)
      BY <3>2, <3>3, <3>4
    <3>6. Solves(h, k + 1)
      BY <3>2, <3>5
    <3> QED
      BY <3>6
  <2> HIDE DEF T
  <2>3. l \in T
    BY <2>1, <2>2, SetInduction
  <2> QED
    BY <2>3 DEF T
<1> DEFINE g == CHOOSE f : Solves(f, n)
<1>2. Solves(g, n)
  BY <1>1
<1>3. Split(text, separator) = g[n]
  BY DEF Split, Next, OneWord
<1>4. Parts(text, separator) = g
  BY DEF Parts, Next
<1> HIDE DEF g
<1>5. g[0] = << <<>> >> /\ \A k \in 1..n : g[k] = OneWord(g[k - 1], text[k], separator)
  BY <1>2 DEF Next
<1> QED
  BY <1>3, <1>4, <1>5

\* A pair is a sequence of one with one more.
LEMMA AppendOne ==
  ASSUME NEW T, NEW a \in T, NEW x \in T
  PROVE  Append(<<a>>, x) = <<a, x>>
<1> DEFINE s == Append(<<a>>, x)
           t == <<a, x>>
<1>1. s \in Seq(T) /\ Len(s) = 2 /\ s[1] = a /\ s[2] = x
  OBVIOUS
<1>2. t \in Seq(T) /\ Len(t) = 2 /\ t[1] = a /\ t[2] = x
  OBVIOUS
<1> HIDE DEF s, t
<1>3. s = t
  BY <1>1, <1>2, SeqEqual
<1> QED
  BY <1>3 DEF s, t

\* One part stays one part, or becomes two; the second of two grows.
LEMMA FirstPart ==
  ASSUME NEW S, NEW a \in Seq(S), NEW w, NEW separator
  PROVE  /\ w # separator => OneWord(<<a>>, w, separator) = <<Append(a, w)>>
         /\ w = separator => OneWord(<<a>>, w, separator) = <<a, <<>>>>
<1> DEFINE T == Seq(S)
           one == <<a>>
<1>1. a \in T /\ <<>> \in T
  BY EmptySeq
<1> HIDE DEF T
<1>2. Append(one, <<>>) = <<a, <<>>>>
  BY <1>1, AppendOne
<1>3. Append(<<>>, Append(a, w)) = <<Append(a, w)>>
  <2>1. a \in Seq(S \cup {w})
    BY SeqMonotonic
  <2> QED
    BY <2>1, AppendProperties
<1>4. Len(one) = 1 /\ one[1] = a /\ SubSeq(one, 1, 0) = <<>>
  BY SubSeqEmpty
<1>5. Front(one) = <<>> /\ Last(one) = a
  BY <1>4 DEF Front, Last
<1> HIDE DEF one
<1>6. w # separator => OneWord(one, w, separator) = <<Append(a, w)>>
  BY <1>3, <1>5 DEF OneWord
<1>7. w = separator => OneWord(one, w, separator) = <<a, <<>>>>
  BY <1>2 DEF OneWord
<1> QED
  BY <1>6, <1>7 DEF one

LEMMA SecondPart ==
  ASSUME NEW S, NEW a \in Seq(S), NEW b \in Seq(S), NEW w \in S, NEW separator, w # separator
  PROVE  OneWord(<<a, b>>, w, separator) = <<a, Append(b, w)>>
<1> DEFINE T == Seq(S)
           one == <<a>>
           two == <<a, b>>
           y == Append(b, w)
<1>1. a \in T /\ b \in T /\ y \in T
  BY AppendProperties
<1> HIDE DEF T, y
<1>2. Append(one, y) = <<a, y>>
  BY <1>1, AppendOne
<1>3. one \in Seq(T) /\ Len(one) = 1 /\ one[1] = a
  BY <1>1
<1>4. two = <<a, b>>
  OBVIOUS
<1> HIDE DEF one, two
<1>5. two \in Seq(T) /\ Len(two) = 2 /\ two[1] = a /\ two[2] = b
  BY <1>1, <1>4, Pairs
<1>6. SubSeq(two, 1, 1) = one
  <2> DEFINE s == SubSeq(two, 1, 1)
  <2>1. \A i \in 1..1 : two[i] \in T
    BY <1>1, <1>5
  <2>2. s \in Seq(T) /\ Len(s) = 1 /\ s[1] = two[1]
    BY <2>1, SubSeqProperties
  <2> HIDE DEF s
  <2>3. s = one
    BY <1>3, <1>5, <2>2, SeqEqual
  <2> QED
    BY <2>3 DEF s
<1>7. Front(two) = one /\ Last(two) = b
  BY <1>5, <1>6 DEF Front, Last
<1>8. OneWord(two, w, separator) = <<a, y>>
  BY <1>2, <1>7 DEF OneWord, y
<1> QED
  BY <1>4, <1>8 DEF y

\* What comes before the first separator is one part.
LEMMA PartsFirst ==
  ASSUME NEW S, NEW separator, separator \notin S, NEW a \in Seq(S), NEW text, Len(text) \in Nat,
         Len(a) <= Len(text), \A k \in 1..Len(a) : text[k] = a[k]
  PROVE  Parts(text, separator)[Len(a)] = <<a>>
<1> DEFINE n == Len(a)
           P == Parts(text, separator)
           first(k) == SubSeq(a, 1, k)
           T == {k \in Nat : k <= n => P[k] = <<first(k)>>}
<1>1. n \in Nat /\ \A k \in 1..n : a[k] \in S
  BY LenProperties, ElementOfSeq
<1>2. P[0] = << <<>> >> /\ \A k \in 1..n : P[k] = OneWord(P[k - 1], a[k], separator)
  <2>1. \A k \in 1..Len(text) : P[k] = OneWord(P[k - 1], text[k], separator)
    BY SplitLaw
  <2>2. P[0] = << <<>> >>
    BY SplitLaw
  <2>3. \A k \in 1..n : k \in 1..Len(text)
    BY <1>1
  <2> HIDE DEF P
  <2> QED
    BY <2>1, <2>2, <2>3
<1> HIDE DEF P
<1>3. \A k \in 0..n : first(k) \in Seq(S)
  <2>1. ASSUME NEW k \in 0..n PROVE first(k) \in Seq(S)
    <3>1. \A i \in 1..k : a[i] \in S
      BY <1>1
    <3> QED
      BY <1>1, <3>1, SubSeqProperties
  <2> QED
    BY <2>1
<1>4. first(0) = <<>> /\ first(n) = a
  BY SubSeqEmpty, SubSeqFull
<1>5. \A k \in Nat : k + 1 <= n => Append(first(k), a[k + 1]) = first(k + 1)
  BY OneMore
<1> HIDE DEF first
<1>6. 0 \in T
  BY <1>2, <1>4
<1>7. ASSUME NEW k \in Nat, k \in T PROVE k + 1 \in T
  <2>1. CASE k + 1 <= n
    <3> DEFINE m == k + 1
    <3>5. Append(first(k), a[m]) = first(m)
      BY <1>5, <2>1
    <3>1. m \in 1..n /\ m - 1 = k /\ k \in 0..n /\ P[k] = <<first(k)>>
      BY <1>1, <1>7, <2>1
    <3> HIDE DEF m
    <3>2. P[m] = OneWord(<<first(k)>>, a[m], separator)
      BY <1>2, <3>1
    <3>3. first(k) \in Seq(S) /\ a[m] # separator
      BY <1>1, <1>3, <3>1
    <3>4. P[m] = <<first(m)>>
      <4> DEFINE u == first(k)
                 w == a[m]
      <4>1. u \in Seq(S) /\ w # separator
        BY <3>3
      <4> HIDE DEF u, w
      <4>2. OneWord(<<u>>, w, separator) = <<Append(u, w)>>
        BY <4>1, FirstPart
      <4> QED
        BY <3>2, <3>5, <4>2 DEF u, w
    <3> QED
      BY <3>4 DEF m
  <2>2. CASE ~(k + 1 <= n)
    BY <2>2
  <2> QED
    BY <2>1, <2>2
<1> HIDE DEF T
<1>8. n \in T
  BY <1>1, <1>6, <1>7, SetInduction
<1> QED
  BY <1>1, <1>4, <1>8 DEF T, P

\* A text without the separator is one part.
LEMMA SplitNone ==
  ASSUME NEW S, NEW separator, separator \notin S, NEW a \in Seq(S)
  PROVE  Split(a, separator) = <<a>>
<1>1. Len(a) \in Nat
  BY LenProperties
<1>2. Split(a, separator) = Parts(a, separator)[Len(a)]
  BY <1>1, SplitLaw
<1>3. Parts(a, separator)[Len(a)] = <<a>>
  BY <1>1, PartsFirst
<1> QED
  BY <1>2, <1>3

\* A text with one separator is two parts.
LEMMA SplitOnce ==
  ASSUME NEW S, NEW separator, separator \notin S, NEW a \in Seq(S), NEW b \in Seq(S)
  PROVE  Split(a \o (<<separator>> \o b), separator) = <<a, b>>
<1> DEFINE n == Len(a)
           l == Len(b)
           text == a \o (<<separator>> \o b)
           P == Parts(text, separator)
           first(k) == SubSeq(b, 1, k)
           T == {k \in Nat : k <= l => P[n + 1 + k] = <<a, first(k)>>}
<1>1. n \in Nat /\ l \in Nat /\ \A k \in 1..l : b[k] \in S
  BY LenProperties, ElementOfSeq
<1>2. /\ Len(text) = n + 1 + l
      /\ \A k \in 1..n : text[k] = a[k]
      /\ text[n + 1] = separator
      /\ \A k \in 1..l : text[n + 1 + k] = b[k]
  <2> DEFINE V == S \cup {separator}
             h == <<separator>>
             tail == h \o b
  <2>1. a \in Seq(V) /\ b \in Seq(V) /\ h \in Seq(V) /\ Len(h) = 1 /\ h[1] = separator
    BY SeqMonotonic
  <2> HIDE DEF V, h
  <2>2. /\ tail \in Seq(V) /\ Len(tail) = Len(h) + l
        /\ \A i \in 1..Len(h) + l : tail[i] = IF i <= Len(h) THEN h[i] ELSE b[i - Len(h)]
    BY <2>1, ConcatProperties
  <2>3. Len(tail) = 1 + l /\ tail[1] = separator /\ \A k \in 1..l : tail[1 + k] = b[k]
    <3> HIDE DEF tail, n, l
    <3>1. Len(tail) = 1 + l
      BY <2>1, <2>2
    <3>2. 1 \in 1..Len(h) + l /\ 1 <= Len(h)
      BY <1>1, <2>1
    <3>3. tail[1] = separator
      BY <2>1, <2>2, <3>2
    <3>4. ASSUME NEW k \in 1..l PROVE tail[1 + k] = b[k]
      <4> DEFINE m == 1 + k
      <4>1. m \in 1..Len(h) + l /\ ~(m <= Len(h)) /\ m - Len(h) = k
        BY <1>1, <2>1
      <4> HIDE DEF m
      <4>2. tail[m] = b[k]
        BY <2>2, <4>1
      <4> QED
        BY <4>2 DEF m
    <3> QED
      BY <3>1, <3>3, <3>4
  <2> HIDE DEF tail
  <2> DEFINE whole == a \o tail
  <2>4. /\ Len(whole) = n + Len(tail)
        /\ \A i \in 1..n + Len(tail) : whole[i] = IF i <= n THEN a[i] ELSE tail[i - n]
    <3>1. a \in Seq(V) /\ tail \in Seq(V)
      BY <2>1, <2>2
    <3> QED
      BY <3>1, ConcatProperties
  <2> HIDE DEF whole, n, l
  <2>5. Len(whole) = n + 1 + l
    BY <1>1, <2>3, <2>4
  <2>6. \A k \in 1..n : whole[k] = a[k]
    <3>1. \A k \in 1..n : k \in 1..n + Len(tail) /\ k <= n
      BY <1>1, <2>3
    <3> QED
      BY <2>4, <3>1
  <2>7. ASSUME NEW k \in 1..1 + l PROVE whole[n + k] = tail[k]
    <3> DEFINE m == n + k
    <3>1. m \in 1..n + Len(tail) /\ ~(m <= n) /\ m - n = k
      BY <1>1, <2>3
    <3> HIDE DEF m
    <3>2. whole[m] = tail[k]
      BY <2>4, <3>1
    <3> QED
      BY <3>2 DEF m
  <2>8. whole[n + 1] = separator
    <3>1. 1 \in 1..1 + l
      BY <1>1
    <3> QED
      BY <2>3, <2>7, <3>1
  <2>9. ASSUME NEW k \in 1..l PROVE whole[n + 1 + k] = b[k]
    <3> DEFINE m == 1 + k
    <3>1. m \in 1..1 + l /\ n + m = n + 1 + k /\ tail[m] = b[k]
      BY <1>1, <2>3
    <3> HIDE DEF m
    <3>2. whole[n + m] = tail[m]
      BY <2>7, <3>1
    <3> QED
      BY <3>1, <3>2
  <2>10. text = whole
    BY DEF whole, tail, h
  <2> QED
    BY <2>5, <2>6, <2>8, <2>9, <2>10
<1> HIDE DEF text, l
<1>3. Len(text) \in Nat /\ n <= Len(text) /\ n + 1 \in 1..Len(text) /\ n + 1 - 1 = n
  BY <1>1, <1>2
<1>4. P[n] = <<a>>
  BY <1>2, <1>3, PartsFirst
<1>5. /\ Split(text, separator) = P[n + 1 + l]
      /\ \A k \in 1..Len(text) : P[k] = OneWord(P[k - 1], text[k], separator)
  BY <1>2, <1>3, SplitLaw
<1> HIDE DEF P, n
<1>6. \A k \in 0..l : first(k) \in Seq(S)
  <2>1. ASSUME NEW k \in 0..l PROVE first(k) \in Seq(S)
    <3>1. \A i \in 1..k : b[i] \in S
      BY <1>1
    <3> QED
      BY <1>1, <3>1, SubSeqProperties
  <2> QED
    BY <2>1
<1>7. first(0) = <<>> /\ first(l) = b
  BY SubSeqEmpty, SubSeqFull DEF l
<1>8. \A k \in Nat : k + 1 <= l => Append(first(k), b[k + 1]) = first(k + 1)
  BY OneMore DEF l
<1> HIDE DEF first
<1>9. 0 \in T
  <2>1. P[n + 1] = OneWord(P[n], separator, separator)
    <3> DEFINE m == n + 1
    <3>1. m \in 1..Len(text) /\ m - 1 = n /\ text[m] = separator
      <4>1. m \in 1..Len(text) /\ m - 1 = n
        BY <1>1, <1>3
      <4>2. text[m] = separator
        BY <1>2
      <4> QED
        BY <4>1, <4>2
    <3> HIDE DEF m
    <3>2. P[m] = OneWord(P[m - 1], text[m], separator)
      BY <1>5, <3>1
    <3> QED
      BY <3>1, <3>2 DEF m
  <2>2. OneWord(<<a>>, separator, separator) = <<a, <<>>>>
    BY FirstPart
  <2>3. n + 1 + 0 = n + 1
    BY <1>1
  <2> QED
    BY <1>4, <1>7, <2>1, <2>2, <2>3
<1>10. ASSUME NEW k \in Nat, k \in T PROVE k + 1 \in T
  <2>1. CASE k + 1 <= l
    <3> DEFINE m == n + 1 + (k + 1)
               u == first(k)
               w == b[k + 1]
    <3>1. m \in 1..Len(text) /\ m - 1 = n + 1 + k /\ k \in 0..l /\ k <= l /\ k + 1 \in 1..l
      BY <1>1, <1>2, <2>1
    <3>2. P[n + 1 + k] = <<a, u>>
      BY <1>10, <3>1
    <3>3. text[m] = w
      BY <1>2, <3>1
    <3>4. u \in Seq(S) /\ w \in S /\ w # separator
      BY <1>1, <1>6, <3>1
    <3>5. Append(u, w) = first(k + 1)
      BY <1>8, <2>1
    <3> HIDE DEF m, u, w
    <3>6. P[m] = OneWord(P[n + 1 + k], text[m], separator)
      BY <1>5, <3>1
    <3>7. OneWord(<<a, u>>, w, separator) = <<a, Append(u, w)>>
      BY <3>4, SecondPart
    <3>8. P[m] = <<a, first(k + 1)>>
      BY <3>2, <3>3, <3>5, <3>6, <3>7
    <3> QED
      BY <3>8 DEF m
  <2>2. CASE ~(k + 1 <= l)
    BY <2>2
  <2> QED
    BY <2>1, <2>2
<1> HIDE DEF T
<1>11. l \in T
  BY <1>1, <1>9, <1>10, SetInduction
<1>12. P[n + 1 + l] = <<a, b>>
  BY <1>1, <1>7, <1>11 DEF T
<1> QED
  BY <1>5, <1>12 DEF text

All == Range(Words) \cup Numbers \cup Separators
But(separator) == All \ {separator}

\* The part of a user before an agent or a device, and the agent or the device.
LEMMA SuffixBack ==
  ASSUME NEW separator \in Separators, NEW a \in Seq(But(separator)), NEW x \in Numbers \cup {Absent}
  PROVE  LET text == a \o (IF x # Absent THEN <<separator, x>> ELSE <<>>)
         IN  /\ Split(text, separator)[1] = a
             /\ SecondInt(Split(text, separator)) = x
<1> DEFINE S == But(separator)
<1>1. separator \notin S
  BY DEF But
<1> HIDE DEF S
<1>2. CASE x # Absent
  <2> DEFINE b == <<x>>
             h == <<separator>>
             two == <<a, b>>
  <2>1. x \in Numbers /\ x \in But(separator)
    BY <1>2, JidAssumption DEF But, All
  <2>2. b \in Seq(S) /\ Len(b) = 1 /\ b[1] = x
    BY <2>1 DEF S
  <2>3. <<separator, x>> = h \o b
    OBVIOUS
  <2>4. b # <<>>
    OBVIOUS
  <2>5. two = <<a, b>>
    OBVIOUS
  <2> HIDE DEF b
  <2>6. Split(a \o (h \o b), separator) = two
    BY <1>1, <2>2, SplitOnce DEF S
  <2>7. a \in Seq(S) /\ b \in Seq(S)
    BY <2>2 DEF S
  <2> DEFINE T == Seq(S)
  <2> HIDE DEF two
  <2>8. Len(two) = 2 /\ two[1] = a /\ two[2] = b
    <3>1. a \in T /\ b \in T
      BY <2>7
    <3> HIDE DEF T
    <3> QED
      BY <2>5, <3>1, Pairs
  <2>9. ParseInt(b) = x
    BY <2>1, <2>2, <2>4 DEF ParseInt
  <2>10. SecondInt(two) = x
    BY <2>8, <2>9 DEF SecondInt
  <2> HIDE DEF h
  <2> QED
    BY <1>2, <2>3, <2>6, <2>8, <2>10
<1>3. CASE x = Absent
  <2>1. a \o <<>> = a
    BY ConcatEmptySeq
  <2>2. Split(a, separator) = <<a>>
    BY <1>1, SplitNone DEF S
  <2>3. Len(<<a>>) = 1 /\ <<a>>[1] = a
    OBVIOUS
  <2>4. SecondInt(<<a>>) = Absent
    BY <2>3 DEF SecondInt
  <2> QED
    BY <1>3, <2>1, <2>2, <2>3, <2>4
<1> QED
  BY <1>2, <1>3

\* Words of an agent or a device.
LEMMA SuffixWords ==
  ASSUME NEW separator \in Separators, NEW other \in Separators, other # separator, NEW x \in Numbers \cup {Absent}
  PROVE  (IF x # Absent THEN <<separator, x>> ELSE <<>>) \in Seq(But(other))
<1>1. separator \in But(other)
  BY DEF But, All
<1>2. CASE x # Absent
  <2>1. x \in But(other)
    BY <1>2, JidAssumption DEF But, All
  <2> QED
    BY <1>1, <1>2, <2>1
<1>3. CASE x = Absent
  BY <1>3, EmptySeq
<1> QED
  BY <1>2, <1>3

\* parseJid gives back what jidToString wrote, agent and device with it, of a JID whose parts hold
\* no separator.
THEOREM JidBack ==
  ASSUME NEW j \in PlainJids
  PROVE  ParseJid(JidToString(j)) = j
<1> DEFINE agent == IF j.agent # Absent THEN <<"_", j.agent>> ELSE <<>>
           device == IF j.device # Absent THEN <<":", j.device>> ELSE <<>>
           named == j.user \o agent
           full == named \o device
           sign == <<"@">>
           text == full \o (sign \o j.server)
           parts == Split(text, "@")
           byColon == Split(full, ":")
           byUnderscore == Split(named, "_")
<1>1. /\ j.user \in Seq(Range(Words) \ Separators) /\ j.server \in Seq(Range(Words) \ {"@"})
      /\ j.agent \in Numbers \cup {Absent} /\ j.device \in Numbers \cup {Absent}
      /\ j = NewJid(j.user, j.server, j.agent, j.device)
  BY DEF PlainJids, NewJid
<1>2. {"_", ":", "@"} \subseteq Separators /\ "_" # ":" /\ "_" # "@" /\ ":" # "@"
  BY DEF Separators
<1>3. /\ j.user \in Seq(But("_")) /\ j.user \in Seq(But(":")) /\ j.user \in Seq(But("@"))
      /\ j.server \in Seq(But("@"))
  <2>1. \A s \in Separators : Range(Words) \ Separators \subseteq But(s)
    BY DEF But, All
  <2>2. Range(Words) \ {"@"} \subseteq But("@")
    BY DEF But, All
  <2> QED
    BY <1>1, <1>2, <2>1, <2>2, SeqMonotonic
<1>4. agent \in Seq(But(":")) /\ agent \in Seq(But("@")) /\ device \in Seq(But("@"))
  BY <1>1, <1>2, SuffixWords
<1>5. byUnderscore[1] = j.user /\ SecondInt(byUnderscore) = j.agent
  <2> DEFINE user == j.user
             x == j.agent
  <2>1. "_" \in Separators /\ user \in Seq(But("_")) /\ x \in Numbers \cup {Absent}
    BY <1>1, <1>2, <1>3
  <2> HIDE DEF user, x
  <2>2. LET written == user \o (IF x # Absent THEN <<"_", x>> ELSE <<>>)
        IN  Split(written, "_")[1] = user /\ SecondInt(Split(written, "_")) = x
    BY <2>1, SuffixBack
  <2> QED
    BY <2>2 DEF user, x
<1> HIDE DEF agent
<1>6. named \in Seq(But(":")) /\ named \in Seq(But("@"))
  <2>1. named \in Seq(But(":"))
    BY <1>3, <1>4, ConcatProperties
  <2>2. named \in Seq(But("@"))
    BY <1>3, <1>4, ConcatProperties
  <2> QED
    BY <2>1, <2>2
<1> HIDE DEF named, byUnderscore
<1>7. byColon[1] = named /\ SecondInt(byColon) = j.device
  <2> DEFINE x == j.device
  <2>1. ":" \in Separators /\ x \in Numbers \cup {Absent}
    BY <1>1, <1>2
  <2> HIDE DEF x
  <2>2. LET written == named \o (IF x # Absent THEN <<":", x>> ELSE <<>>)
        IN  Split(written, ":")[1] = named /\ SecondInt(Split(written, ":")) = x
    BY <1>6, <2>1, SuffixBack
  <2> QED
    BY <2>2 DEF x
<1> HIDE DEF device
<1>8. full \in Seq(But("@"))
  BY <1>4, <1>6, ConcatProperties
<1> HIDE DEF full, byColon
<1>9. parts = <<full, j.server>>
  <2> DEFINE server == j.server
             S == But("@")
  <2>1. "@" \notin S /\ full \in Seq(S) /\ server \in Seq(S)
    BY <1>3, <1>8 DEF But
  <2> HIDE DEF server, S
  <2>2. Split(full \o (<<"@">> \o server), "@") = <<full, server>>
    BY <2>1, SplitOnce
  <2> QED
    BY <2>2 DEF server
<1>10. JidToString(j) = text
  <2> DEFINE server == j.server
  <2>1. JidToString(j) = (full \o sign) \o server
    BY DEF JidToString, full, named, agent, device
  <2>2. full \in Seq(All) /\ server \in Seq(All) /\ sign \in Seq(All)
    <3>1. But("@") \subseteq All /\ "@" \in All
      BY <1>2 DEF But, All
    <3>2. server \in Seq(But("@"))
      BY <1>3
    <3>3. sign \in Seq(All)
      BY <3>1
    <3> HIDE DEF server, sign
    <3>4. Seq(But("@")) \subseteq Seq(All)
      BY <3>1, SeqMonotonic
    <3> QED
      BY <1>8, <3>2, <3>3, <3>4
  <2> HIDE DEF server, sign
  <2>3. (full \o sign) \o server = full \o (sign \o server)
    BY <2>2, ConcatAssociative
  <2> QED
    BY <2>1, <2>3 DEF server
<1>11. text # <<>>
  <2>1. Split(<<>>, "@") = << <<>> >>
    <3>1. "@" \notin But("@") /\ <<>> \in Seq(But("@"))
      BY EmptySeq DEF But
    <3> QED
      BY <3>1, SplitNone
  <2>2. Len(<<full, j.server>>) = 2 /\ Len(<< <<>> >>) = 1
    OBVIOUS
  <2> HIDE DEF text
  <2> QED
    BY <1>9, <2>1, <2>2
<1>12. Len(parts) = 2 /\ parts[1] = full /\ parts[2] = j.server
  <2> DEFINE s == j.server
  <2>1. Len(<<full, s>>) = 2 /\ <<full, s>>[1] = full /\ <<full, s>>[2] = s
    OBVIOUS
  <2> HIDE DEF parts
  <2> QED
    BY <1>9, <2>1
<1> HIDE DEF text, parts
<1>13. ParseJid(text) = NewJid(byUnderscore[1], j.server, SecondInt(byUnderscore), SecondInt(byColon))
  BY <1>7, <1>11, <1>12 DEF ParseJid, parts, byColon, byUnderscore
<1> QED
  BY <1>1, <1>5, <1>7, <1>10, <1>13

\* The text at the attribute "to" of a request for a chat is that of the JID of the chat.
LEMMA ToIsChat ==
  ASSUME NEW r \in Requests, r.chat # NotAJid
  PROVE  r.chat \in PlainJids /\ To(r.node) = JidToString(r.chat)
<1>1. r.chat \in PlainJids
  BY RequestsAssumption
<1>2. /\ <<"type">> # <<"to">> /\ <<"xmlns">> # <<"to">> /\ <<"id">> # <<"to">>
  OBVIOUS
<1>3. ASSUME NEW arg \in Args, r = MessageTo(arg)
      PROVE  To(r.node) = JidToString(r.chat)
  <2> DEFINE to == JidToString(Recipient(arg))
             first == Attr("id", <<"msgId">>)
             second == Attr("to", to)
             third == Attr("type", <<"text">>)
             attrs == <<first, second, third>>
  <2>1. r.node.attrs = attrs /\ r.chat = Recipient(arg)
    BY <1>3 DEF MessageTo, Request, Leaf, Node
  <2>2. first[1] # <<"to">> /\ third[1] # <<"to">> /\ second[1] = <<"to">> /\ second[2] = to
    BY <1>2 DEF Attr
  <2> HIDE DEF to, first, second, third
  <2>3. Len(attrs) = 3 /\ attrs[1] = first /\ attrs[2] = second /\ attrs[3] = third
    OBVIOUS
  <2> HIDE DEF attrs
  <2>4. (CHOOSE k \in 1..Len(attrs) : attrs[k][1] = <<"to">>) = 2
    BY <2>2, <2>3
  <2> QED
    BY <2>1, <2>2, <2>3, <2>4 DEF To, to
<1>4. ASSUME NEW arg \in Args, NEW type \in {"get", "set"}, NEW child, r = ForGroup(arg, type, child)
      PROVE  To(r.node) = JidToString(r.chat)
  <2> DEFINE jid == ResolveJid(arg)
             to == Address(jid)
             first == Attr("type", <<type>>)
             second == Attr("xmlns", <<"w:g2">>)
             third == Attr("to", to)
             attrs == <<first, second, third>>
  <2>1. r.node.attrs = attrs /\ r.chat = NewJid(jid.user, jid.server, Absent, Absent)
    BY <1>4 DEF ForGroup, Iq, Parent, Request, Node
  <2>2. first[1] # <<"to">> /\ second[1] # <<"to">> /\ third[1] = <<"to">> /\ third[2] = to
    BY <1>2 DEF Attr
  <2>3. to = JidToString(r.chat)
    <3> DEFINE user == jid.user
               server == jid.server
    <3>1. /\ r.chat.user = user /\ r.chat.server = server
          /\ r.chat.agent = Absent /\ r.chat.device = Absent
      BY <2>1 DEF NewJid
    <3>2. user \in Seq(Range(Words) \ Separators)
      BY <1>1, <3>1 DEF PlainJids
    <3> HIDE DEF user, server
    <3>3. user \o <<>> = user
      BY <3>2, ConcatEmptySeq
    <3>4. JidToString(r.chat) = user \o <<>> \o <<>> \o <<"@">> \o server
      BY <3>1 DEF JidToString
    <3> QED
      BY <3>3, <3>4 DEF Address, user, server
  <2> HIDE DEF to, first, second, third
  <2>4. Len(attrs) = 3 /\ attrs[1] = first /\ attrs[2] = second /\ attrs[3] = third
    OBVIOUS
  <2> HIDE DEF attrs
  <2>5. (CHOOSE k \in 1..Len(attrs) : attrs[k][1] = <<"to">>) = 3
    BY <2>2, <2>4
  <2> QED
    BY <2>1, <2>2, <2>3, <2>4, <2>5 DEF To
<1> QED
  BY <1>1, <1>3, <1>4, RequestsAssumption

\* What is decoded from a whole buffer, whatever follows it, is the node that was built, whatever
\* its size and depth, and the JID in it is the one that was meant, to the agent and device.
THEOREM DeliveredAlways == WireSpec => []Delivered
<1>1. InTransit => Delivered
  <2> SUFFICES ASSUME InTransit, stage = "received", lost = 0
               PROVE  /\ received.value = request.node
                      /\ request.chat # NotAJid => ParseJid(To(received.value)) = request.chat
    BY DEF Delivered
  <2> DEFINE node == request.node
             code == BytesOf(node)
  <2>1. /\ request \in Requests
        /\ Encodable(node) /\ buffer \in Seq(Nat) /\ Holds(buffer, 1, code) /\ received = Decode(buffer)
    BY DEF InTransit
  <2>2. Reads(buffer, 1, code, Decode(buffer), node, Clipped[MaxDepth][node])
    BY <2>1, CodeRead
  <2>3. received = Value(node, 1 + Len(code))
    BY <2>1, <2>2 DEF Reads
  <2>4. received.value = node
    BY <2>3 DEF Value
  <2>5. ASSUME request.chat # NotAJid PROVE ParseJid(To(node)) = request.chat
    BY <2>1, <2>5, ToIsChat, JidBack
  <2> QED
    BY <2>4, <2>5
<1> QED
  BY <1>1, TransitAlways, PTL
=============================================================================
