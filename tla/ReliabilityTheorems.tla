------------------------ MODULE ReliabilityTheorems -------------------------
(***************************************************************************)
(* What the reliability layer promises, for any numbers that wrap, any     *)
(* sizes of its buffers and any number of messages.                        *)
(***************************************************************************)
EXTENDS Reliability, SequenceTheorems, WellFoundedInduction, FiniteSetTheorems, TLAPS

-----------------------------------------------------------------------------
(* RangeList::Insert adds the number it is given and loses none, whatever  *)
(* the list and the number, at both ends of the numbers too.               *)

\* Ranges the code keeps: neither empty nor around the end of the numbers.
WellFormed(ranges) ==
  /\ ranges \in Seq(RangeNode)
  /\ \A k \in DOMAIN ranges : ranges[k].min <= ranges[k].max

Ordering == {ss \in Nat \X Nat : ss[1] < ss[2]}

LEMMA OrderingWellFounded == IsWellFoundedOn(Ordering, Nat)
  BY NatLessThanWellFounded, Zenon DEF OpToRel, Ordering

LEMMA LeastNat ==
  ASSUME NEW T \in SUBSET Nat, T # {}
  PROVE  \E x \in T : \A y \in T : x <= y
<1>1. PICK x \in T : \A y \in T : ~(<<y, x>> \in Ordering)
  BY OrderingWellFounded, WFMin
<1>2. \A y \in T : ~(y < x)
  BY <1>1 DEF Ordering
<1> QED
  BY <1>2

\* uint24_t: what is next to a number.
LEMMA ModUnique ==
  ASSUME NEW m \in Nat \ {0}, NEW q \in Int, NEW r \in 0..(m - 1)
  PROVE  (q * m + r) % m = r
OBVIOUS

LEMMA WrapNext ==
  ASSUME NEW x \in DatagramNumber
  PROVE  Wrap(x + 1) = IF x = Modulus - 1 THEN 0 ELSE x + 1
<1>1. x \in Nat /\ x <= Modulus - 1 /\ Modulus \in Nat \ {0}
  BY ModulusAssumption DEF DatagramNumber
<1>2. CASE x = Modulus - 1
  <2>1. x + 1 = 1 * Modulus + 0 /\ 0 \in 0..(Modulus - 1)
    BY <1>1, <1>2
  <2>2. (1 * Modulus + 0) % Modulus = 0
    BY <1>1, <2>1, ModUnique
  <2> QED BY <1>2, <2>1, <2>2 DEF Wrap
<1>3. CASE x # Modulus - 1
  <2>1. x + 1 = 0 * Modulus + (x + 1) /\ x + 1 \in 0..(Modulus - 1)
    BY <1>1, <1>3
  <2>2. (0 * Modulus + (x + 1)) % Modulus = x + 1
    BY <1>1, <2>1, ModUnique
  <2> QED BY <1>3, <2>1, <2>2 DEF Wrap
<1> QED
  BY <1>2, <1>3

LEMMA WrapBack ==
  ASSUME NEW x \in DatagramNumber
  PROVE  Wrap(x - 1) = IF x = 0 THEN Modulus - 1 ELSE x - 1
<1>1. x \in Nat /\ x <= Modulus - 1 /\ Modulus \in Nat \ {0}
  BY ModulusAssumption DEF DatagramNumber
<1>2. CASE x = 0
  <2>1. x - 1 = (-1) * Modulus + (Modulus - 1) /\ Modulus - 1 \in 0..(Modulus - 1)
    BY <1>1, <1>2
  <2>2. ((-1) * Modulus + (Modulus - 1)) % Modulus = Modulus - 1
    BY <1>1, <2>1, ModUnique
  <2> QED BY <1>2, <2>1, <2>2 DEF Wrap
<1>3. CASE x # 0
  <2>1. x - 1 = 0 * Modulus + (x - 1) /\ x - 1 \in 0..(Modulus - 1)
    BY <1>1, <1>3
  <2>2. (0 * Modulus + (x - 1)) % Modulus = x - 1
    BY <1>1, <2>1, ModUnique
  <2> QED BY <1>3, <2>1, <2>2 DEF Wrap
<1> QED
  BY <1>2, <1>3

LEMMA NodeOf ==
  ASSUME NEW ranges \in Seq(RangeNode), NEW k \in 1..Len(ranges)
  PROVE  /\ ranges[k] \in RangeNode
         /\ ranges[k].min \in DatagramNumber /\ ranges[k].max \in DatagramNumber
<1>1. ranges[k] \in RangeNode
  BY ElementOfSeq
<1> QED
  BY <1>1 DEF RangeNode

\* The place GetIndexFromKey returns exists.
LEMMA KeyExists ==
  ASSUME NEW ranges \in Seq(RangeNode), NEW index \in DatagramNumber
  PROVE  LET k == IndexFromKey(ranges, index)
         IN  /\ k \in 1..(Len(ranges) + 1)
             /\ k <= Len(ranges) => index <= ranges[k].min
             /\ \A j \in 1..(k - 1) : ranges[j].min < index
<1> DEFINE P(k) == /\ k <= Len(ranges) => index <= ranges[k].min
                   /\ \A j \in 1..(k - 1) : ranges[j].min < index
           Stop == {k \in 1..(Len(ranges) + 1) :
                      k <= Len(ranges) => index <= ranges[k].min}
<1>1. Len(ranges) \in Nat
  BY LenProperties
<1>2. Len(ranges) + 1 \in Stop
  <2>1. ~(Len(ranges) + 1 <= Len(ranges)) /\ Len(ranges) + 1 \in 1..(Len(ranges) + 1)
    BY <1>1
  <2> QED BY <2>1
<1>3. PICK k \in Stop : \A y \in Stop : k <= y
  <2>1. Stop \in SUBSET Nat
    BY <1>1
  <2> HIDE DEF Stop
  <2> QED BY <1>2, <2>1, LeastNat
<1>4. \A j \in 1..(k - 1) : ranges[j].min < index
  <2> SUFFICES ASSUME NEW j \in 1..(k - 1)
               PROVE  ranges[j].min < index
    OBVIOUS
  <2>1. k \in 1..(Len(ranges) + 1)
    OBVIOUS
  <2>2. j \in 1..Len(ranges) /\ j < k /\ k \in Nat /\ j \in 1..(Len(ranges) + 1)
    BY <2>1, <1>1
  <2>3. j \notin Stop
    BY <1>3, <2>2
  <2>4. ~(index <= ranges[j].min)
    BY <2>2, <2>3
  <2>5. ranges[j].min \in DatagramNumber
    BY <2>2, NodeOf
  <2> QED
    BY <2>4, <2>5, ModulusAssumption DEF DatagramNumber
<1>5. k \in 1..(Len(ranges) + 1) /\ P(k)
  BY <1>3, <1>4
<1>6. \E i \in 1..(Len(ranges) + 1) : P(i)
  BY <1>5
<1> QED
  BY <1>6 DEF IndexFromKey

\* What is in a list, and whether it is well formed, depends on which ranges
\* it has, not on their order.
LEMMA ByRange ==
  ASSUME NEW ranges \in Seq(RangeNode)
  PROVE  /\ Members(ranges) = {x \in DatagramNumber :
              \E r \in Range(ranges) : r.min <= x /\ x <= r.max}
         /\ WellFormed(ranges) <=> \A r \in Range(ranges) : r.min <= r.max
<1>1. Range(ranges) = {ranges[k] : k \in DOMAIN ranges}
  BY DEF Range
<1> QED
  BY <1>1 DEF Members, WellFormed

LEMMA RangeSubSeq ==
  ASSUME NEW S, NEW s \in Seq(S), NEW m \in Int, NEW n \in Int,
         \A i \in m..n : i \in 1..Len(s)
  PROVE  /\ SubSeq(s, m, n) \in Seq(S)
         /\ Range(SubSeq(s, m, n)) = {s[i] : i \in m..n}
<1> DEFINE t == SubSeq(s, m, n)
<1>1. \A i \in m..n : s[i] \in S
  BY ElementOfSeq
<1>2. /\ t \in Seq(S) /\ Len(t) = IF m <= n THEN n - m + 1 ELSE 0
      /\ \A i \in 1..(n - m + 1) : t[i] = s[m + i - 1]
  BY <1>1, SubSeqProperties
<1> HIDE DEF t
<1>3. Range(t) = {t[j] : j \in 1..(n - m + 1)}
  <2>1. DOMAIN t = 1..(n - m + 1)
    BY <1>2, LenProperties
  <2> QED BY <2>1 DEF Range
<1>4. ASSUME NEW j \in 1..(n - m + 1)
      PROVE  \E i \in m..n : t[j] = s[i]
  <2>1. m + j - 1 \in m..n
    OBVIOUS
  <2> QED BY <1>2, <2>1
<1>5. ASSUME NEW i \in m..n
      PROVE  \E j \in 1..(n - m + 1) : t[j] = s[i]
  <2>1. i - m + 1 \in 1..(n - m + 1) /\ m + (i - m + 1) - 1 = i
    OBVIOUS
  <2> QED BY <1>2, <2>1
<1>6. Range(t) = {s[i] : i \in m..n}
  <2>1. Range(t) \subseteq {s[i] : i \in m..n}
    BY <1>3, <1>4
  <2>2. {s[i] : i \in m..n} \subseteq Range(t)
    BY <1>3, <1>5
  <2> QED BY <2>1, <2>2
<1> QED
  BY <1>2, <1>6 DEF t

LEMMA InsertAtRange ==
  ASSUME NEW S, NEW s \in Seq(S), NEW e \in S, NEW k \in 1..(Len(s) + 1)
  PROVE  /\ InsertAt(s, k, e) \in Seq(S)
         /\ Range(InsertAt(s, k, e)) = Range(s) \cup {e}
<1> DEFINE a == SubSeq(s, 1, k - 1)
           b == SubSeq(s, k, Len(s))
<1>0. Len(s) \in Nat /\ k \in Nat /\ DOMAIN s = 1..Len(s)
  BY LenProperties
<1>1. a \in Seq(S) /\ Range(a) = {s[i] : i \in 1..(k - 1)}
  <2>1. \A i \in 1..(k - 1) : i \in 1..Len(s)
    BY <1>0
  <2> QED BY <1>0, <2>1, RangeSubSeq
<1>2. b \in Seq(S) /\ Range(b) = {s[i] : i \in k..Len(s)}
  <2>1. \A i \in k..Len(s) : i \in 1..Len(s)
    BY <1>0
  <2> QED BY <1>0, <2>1, RangeSubSeq
<1>3. <<e>> \in Seq(S) /\ Range(<<e>>) = {e}
  BY DEF Range
<1> HIDE DEF a, b
<1> DEFINE one == <<e>>
           c == a \o one
<1>4. c \in Seq(S) /\ Range(c) = Range(a) \cup {e}
  <2>1. a \in Seq(S) /\ one \in Seq(S) /\ Range(one) = {e}
    BY <1>1, <1>3
  <2> HIDE DEF one
  <2>2. a \o one \in Seq(S)
    BY <2>1, ConcatProperties
  <2>3. Range(a \o one) = Range(a) \cup Range(one)
    BY <2>1, RangeConcatenation
  <2> QED BY <2>1, <2>2, <2>3
<1> HIDE DEF c
<1>5. c \o b \in Seq(S) /\ Range(c \o b) = Range(c) \cup Range(b)
  <2>1. c \in Seq(S) /\ b \in Seq(S)
    BY <1>2, <1>4
  <2> QED BY <2>1, RangeConcatenation, ConcatProperties
<1>6. Range(s) = Range(a) \cup Range(b)
  <2>1. 1..Len(s) = (1..(k - 1)) \cup (k..Len(s))
    BY <1>0
  <2> QED BY <1>0, <1>1, <1>2, <2>1 DEF Range
<1>7. InsertAt(s, k, e) = c \o b
  BY DEF InsertAt, a, b, c
<1> QED
  BY <1>4, <1>5, <1>6, <1>7 DEF c

LEMMA RemoveAtRange ==
  ASSUME NEW S, NEW s \in Seq(S), NEW k \in 1..Len(s)
  PROVE  /\ RemoveAt(s, k) \in Seq(S)
         /\ Range(RemoveAt(s, k)) = {s[i] : i \in (1..Len(s)) \ {k}}
<1> DEFINE a == SubSeq(s, 1, k - 1)
           b == SubSeq(s, k + 1, Len(s))
<1>0. Len(s) \in Nat /\ k \in Nat /\ DOMAIN s = 1..Len(s)
  BY LenProperties
<1>1. a \in Seq(S) /\ Range(a) = {s[i] : i \in 1..(k - 1)}
  <2>1. \A i \in 1..(k - 1) : i \in 1..Len(s)
    BY <1>0
  <2> QED BY <1>0, <2>1, RangeSubSeq
<1>2. b \in Seq(S) /\ Range(b) = {s[i] : i \in (k + 1)..Len(s)}
  <2>1. \A i \in (k + 1)..Len(s) : i \in 1..Len(s)
    BY <1>0
  <2> QED BY <1>0, <2>1, RangeSubSeq
<1> HIDE DEF a, b
<1>3. a \o b \in Seq(S) /\ Range(a \o b) = Range(a) \cup Range(b)
  BY <1>1, <1>2, RangeConcatenation, ConcatProperties
<1>4. (1..Len(s)) \ {k} = (1..(k - 1)) \cup ((k + 1)..Len(s))
  BY <1>0
<1>5. RemoveAt(s, k) = a \o b
  BY DEF RemoveAt, a, b
<1> QED
  BY <1>1, <1>2, <1>3, <1>4, <1>5

\* The cases of Insert: a range for the number alone, a range that grows by
\* the number at one of its ends, and two ranges that grow together.
LEMMA GrownBy ==
  ASSUME NEW ranges, WellFormed(ranges), NEW k \in 1..Len(ranges),
         NEW r \in RangeNode, NEW index \in DatagramNumber,
         \A x \in DatagramNumber :
           r.min <= x /\ x <= r.max <=>
             (ranges[k].min <= x /\ x <= ranges[k].max) \/ x = index,
         NEW t \in Seq(RangeNode), Len(t) = Len(ranges),
         t[k] = r, \A i \in 1..Len(ranges) : i # k => t[i] = ranges[i]
  PROVE  WellFormed(t) /\ Members(t) = Members(ranges) \cup {index}
<1>0. ranges \in Seq(RangeNode) /\ DOMAIN ranges = 1..Len(ranges)
  BY LenProperties DEF WellFormed
<1>1. t \in Seq(RangeNode) /\ DOMAIN t = DOMAIN ranges
  BY <1>0, LenProperties
<1>2. t[k] = r /\ \A i \in DOMAIN ranges \ {k} : t[i] = ranges[i]
  BY <1>0
<1>3. r.min <= r.max
  <2>1. r.min <= index /\ index <= r.max
    OBVIOUS
  <2>2. r.min \in Int /\ r.max \in Int /\ index \in Int
    BY DEF RangeNode, DatagramNumber
  <2>3. QED
    BY <2>1, <2>2
<1>4. WellFormed(t)
  BY <1>0, <1>1, <1>2, <1>3 DEF WellFormed
<1>5. ASSUME NEW x \in DatagramNumber
      PROVE  x \in Members(t) <=> x \in Members(ranges) \/ x = index
  <2> DEFINE In(n) == n.min <= x /\ x <= n.max
  <2>1. In(r) <=> In(ranges[k]) \/ x = index
    OBVIOUS
  <2>2. x \in Members(t) <=> \E i \in DOMAIN ranges : In(t[i])
    BY <1>1 DEF Members
  <2>3. x \in Members(ranges) <=> \E i \in DOMAIN ranges : In(ranges[i])
    BY DEF Members
  <2> HIDE DEF In
  <2> QED BY <1>0, <1>2, <2>1, <2>2, <2>3
<1> QED
  BY <1>4, <1>5 DEF Members

LEMMA InsertedAlone ==
  ASSUME NEW ranges, WellFormed(ranges), NEW index \in DatagramNumber,
         NEW t \in Seq(RangeNode),
         Range(t) = Range(ranges) \cup {[min |-> index, max |-> index]}
  PROVE  WellFormed(t) /\ Members(t) = Members(ranges) \cup {index}
<1> DEFINE one == [min |-> index, max |-> index]
<1>1. ranges \in Seq(RangeNode) /\ \A r \in Range(ranges) : r.min <= r.max
  BY ByRange DEF WellFormed
<1>2. one.min = index /\ one.max = index
  OBVIOUS
<1>3. \A x \in DatagramNumber : one.min <= x /\ x <= one.max <=> x = index
  BY <1>2, ModulusAssumption DEF DatagramNumber
<1>4. one.min <= one.max
  BY <1>2, ModulusAssumption DEF DatagramNumber
<1>5. Range(t) = Range(ranges) \cup {one}
  OBVIOUS
<1> HIDE DEF one
<1>6. WellFormed(t)
  BY <1>1, <1>4, <1>5, ByRange
<1>7. Members(t) = {x \in DatagramNumber :
                      \E r \in Range(ranges) \cup {one} : r.min <= x /\ x <= r.max}
  BY <1>5, ByRange
<1>8. Members(ranges) = {x \in DatagramNumber :
                           \E r \in Range(ranges) : r.min <= x /\ x <= r.max}
  BY <1>1, ByRange
<1> QED
  BY <1>3, <1>6, <1>7, <1>8

LEMMA Joined ==
  ASSUME NEW ranges, WellFormed(ranges), NEW index \in DatagramNumber,
         NEW k \in 2..Len(ranges),
         ranges[k - 1].max + 1 = index, ranges[k].min = index + 1
  PROVE  LET t == RemoveAt([ranges EXCEPT ![k - 1].max = ranges[k].max], k)
         IN  WellFormed(t) /\ Members(t) = Members(ranges) \cup {index}
<1> DEFINE r == [ranges[k - 1] EXCEPT !.max = ranges[k].max]
           s == [ranges EXCEPT ![k - 1] = r]
           t == RemoveAt(s, k)
<1>0. /\ ranges \in Seq(RangeNode) /\ Len(ranges) \in Nat
      /\ DOMAIN ranges = 1..Len(ranges)
      /\ k \in 1..Len(ranges) /\ k - 1 \in 1..Len(ranges)
      /\ (k - 1) # k
  BY LenProperties DEF WellFormed
<1>1. /\ ranges[k].min <= ranges[k].max /\ ranges[k - 1].min <= ranges[k - 1].max
      /\ ranges[k] \in RangeNode /\ ranges[k - 1] \in RangeNode
  BY <1>0, NodeOf DEF WellFormed
<1>2. r \in RangeNode /\ r.min = ranges[k - 1].min /\ r.max = ranges[k].max
  BY <1>1 DEF RangeNode
<1> HIDE DEF r
<1>3. s \in Seq(RangeNode) /\ Len(s) = Len(ranges)
  BY <1>0, <1>2, ExceptSeq
<1>4. s[k - 1] = r /\ \A i \in 1..Len(ranges) : i # k - 1 => s[i] = ranges[i]
  BY <1>0
<1> HIDE DEF s
<1>5. t \in Seq(RangeNode) /\ Range(t) = {s[i] : i \in (1..Len(ranges)) \ {k}}
  BY <1>0, <1>3, RemoveAtRange
<1> HIDE DEF t
<1>6. r.min <= r.max
  BY <1>1, <1>2, ModulusAssumption DEF RangeNode, DatagramNumber
<1>7. WellFormed(t)
  <2>1. \A n \in Range(t) : n.min <= n.max
    BY <1>0, <1>4, <1>5, <1>6 DEF WellFormed
  <2> QED BY <1>5, <2>1, ByRange
<1>8. ASSUME NEW x \in DatagramNumber
      PROVE  x \in Members(t) <=> x \in Members(ranges) \/ x = index
  <2> DEFINE In(n) == n.min <= x /\ x <= n.max
  <2>1. In(r) <=> In(ranges[k - 1]) \/ x = index \/ In(ranges[k])
    BY <1>1, <1>2, ModulusAssumption DEF RangeNode, DatagramNumber
  <2>2. x \in Members(t) <=> \E n \in Range(t) : In(n)
    BY <1>5, ByRange
  <2>3. x \in Members(ranges) <=> \E i \in 1..Len(ranges) : In(ranges[i])
    BY <1>0 DEF Members
  <2> HIDE DEF In
  <2>4. x \in Members(t) <=> \E i \in (1..Len(ranges)) \ {k} : In(s[i])
    BY <1>5, <2>2
  <2>5. ASSUME x \in Members(t)
        PROVE  x \in Members(ranges) \/ x = index
    <3>1. PICK i \in (1..Len(ranges)) \ {k} : In(s[i])
      BY <2>4, <2>5
    <3>2. CASE i = k - 1
      BY <1>0, <1>4, <2>1, <2>3, <3>1, <3>2
    <3>3. CASE i # k - 1
      BY <1>4, <2>3, <3>1, <3>3
    <3> QED BY <3>2, <3>3
  <2>6. ASSUME x \in Members(ranges) \/ x = index
        PROVE  x \in Members(t)
    <3>1. ASSUME In(r) PROVE x \in Members(t)
      BY <1>0, <1>4, <2>4, <3>1
    <3>2. CASE x = index
      BY <2>1, <3>1, <3>2
    <3>3. CASE x \in Members(ranges)
      <4>1. PICK i \in 1..Len(ranges) : In(ranges[i])
        BY <2>3, <3>3
      <4>2. CASE i = k \/ i = k - 1
        BY <2>1, <3>1, <4>1, <4>2
      <4>3. CASE i # k /\ i # k - 1
        BY <1>4, <2>4, <4>1, <4>3
      <4> QED BY <4>2, <4>3
    <3> QED BY <2>6, <3>2, <3>3
  <2> QED BY <2>5, <2>6
<1>9. Members(t) = Members(ranges) \cup {index}
  BY <1>8 DEF Members
<1>10. [ranges EXCEPT ![k - 1].max = ranges[k].max] = s
  BY DEF s, r
<1> QED
  BY <1>7, <1>9, <1>10 DEF t

\* RangeList::Insert: whatever the list and the number, the list stays well
\* formed and stands for one number more; the two sums that wrap, at 0 and at
\* the last number, do no harm.
THEOREM InsertAddsOne ==
  ASSUME NEW ranges, WellFormed(ranges), NEW index \in DatagramNumber
  PROVE  /\ WellFormed(InsertRange(ranges, index))
         /\ Members(InsertRange(ranges, index)) = Members(ranges) \cup {index}
<1> DEFINE n   == Len(ranges)
           k   == IndexFromKey(ranges, index)
           one == [min |-> index, max |-> index]
           t   == InsertRange(ranges, index)
           Good(s) == WellFormed(s) /\ Members(s) = Members(ranges) \cup {index}
<1>0. ranges \in Seq(RangeNode) /\ n \in Nat /\ one \in RangeNode
  BY LenProperties DEF WellFormed, RangeNode
<1>1. /\ k \in 1..(n + 1)
      /\ k <= n => index <= ranges[k].min
      /\ \A j \in 1..(k - 1) : ranges[j].min < index
  BY <1>0, KeyExists
<1>2. \A j \in 1..n : /\ ranges[j] \in RangeNode
                      /\ ranges[j].min \in DatagramNumber
                      /\ ranges[j].max \in DatagramNumber
                      /\ ranges[j].min <= ranges[j].max
  BY <1>0, NodeOf, LenProperties DEF WellFormed
<1>3. ASSUME NEW j \in 1..n, ranges[j].min <= index, index <= ranges[j].max
      PROVE  Good(ranges)
  <2>1. index \in Members(ranges)
    BY <1>0, <1>3, LenProperties DEF Members
  <2> QED BY <2>1
<1>4. CASE n = 0
  <2>1. t = <<one>>
    BY <1>4 DEF InsertRange
  <2>2. ranges = << >>
    BY <1>0, <1>4, EmptySeq
  <2>3. Range(ranges) = {} /\ Range(<<one>>) = {one} /\ <<one>> \in Seq(RangeNode)
    BY <1>0, <2>2 DEF Range
  <2> QED BY <2>1, <2>3, InsertedAlone
<1>5. CASE n > 0 /\ k = n + 1
  <2> DEFINE last == ranges[n]
  <2>1. n \in 1..n /\ last.min < index
    BY <1>0, <1>1, <1>5
  <2>2. /\ last \in RangeNode /\ last.min \in DatagramNumber
        /\ last.max \in DatagramNumber /\ last.min <= last.max
        /\ Wrap(last.max + 1) = IF last.max = Modulus - 1 THEN 0 ELSE last.max + 1
    BY <1>2, <2>1, WrapNext
  <2>3. CASE index = Wrap(last.max + 1)
    <3> DEFINE r == [last EXCEPT !.max = index]
    <3>1. t = [ranges EXCEPT ![n].max = index]
      BY <1>5, <2>3 DEF InsertRange
    <3>2. [ranges EXCEPT ![n].max = index] = [ranges EXCEPT ![n] = r]
      OBVIOUS
    <3>3. r \in RangeNode /\ r.min = last.min /\ r.max = index
      BY <2>2 DEF RangeNode
    <3>4. index = last.max + 1
      BY <2>1, <2>2, <2>3, ModulusAssumption DEF DatagramNumber
    <3> HIDE DEF r
    <3>5. \A x \in DatagramNumber :
            r.min <= x /\ x <= r.max <=> (last.min <= x /\ x <= last.max) \/ x = index
      BY <2>2, <3>3, <3>4, ModulusAssumption DEF DatagramNumber
    <3>6. t = [ranges EXCEPT ![n] = r]
      BY <3>1, <3>2
    <3>7. r \in RangeNode /\ n \in 1..Len(ranges)
      BY <2>1, <3>3
    <3>8. /\ t \in Seq(RangeNode) /\ Len(t) = Len(ranges)
          /\ t[n] = r /\ \A i \in 1..Len(ranges) : i # n => t[i] = ranges[i]
      <4> HIDE DEF t
      <4> QED BY <1>0, <3>6, <3>7, ExceptSeq, LenProperties
    <3> HIDE DEF t
    <3>9. Good(t)
      BY <3>5, <3>7, <3>8, GrownBy
    <3> QED BY <3>9 DEF t
  <2>4. CASE index > Wrap(last.max + 1)
    <3>1. index # Wrap(last.max + 1)
      BY <2>2, <2>4, ModulusAssumption DEF DatagramNumber
    <3>2. t = Append(ranges, one)
      BY <1>5, <2>4, <3>1 DEF InsertRange
    <3>3. Append(ranges, one) = ranges \o <<one>> /\ <<one>> \in Seq(RangeNode)
      BY <1>0, AppendIsConcat
    <3>4. Range(<<one>>) = {one}
      BY DEF Range
    <3> DEFINE single == <<one>>
    <3>5. single \in Seq(RangeNode)
      BY <3>3
    <3> HIDE DEF single
    <3>6. Range(ranges \o single) = Range(ranges) \cup Range(single)
      BY <1>0, <3>5, RangeConcatenation
    <3>7. Append(ranges, one) \in Seq(RangeNode)
      BY <1>0, AppendProperties
    <3>8. t \in Seq(RangeNode) /\ Range(t) = Range(ranges) \cup {one}
      BY <3>2, <3>3, <3>4, <3>6, <3>7 DEF single
    <3> HIDE DEF t
    <3>9. Good(t)
      BY <3>8, InsertedAlone
    <3> QED BY <3>9 DEF t
  <2>5. CASE ~(index = Wrap(last.max + 1)) /\ ~(index > Wrap(last.max + 1))
    <3>1. t = ranges
      BY <1>5, <2>5 DEF InsertRange
    <3>2. index <= last.max
      BY <2>1, <2>2, <2>5, ModulusAssumption DEF DatagramNumber
    <3>3. last.min <= index
      BY <2>1, <2>2, ModulusAssumption DEF DatagramNumber
    <3> QED BY <1>3, <2>1, <3>1, <3>2, <3>3
  <2> QED BY <2>3, <2>4, <2>5
<1>6. CASE n > 0 /\ k <= n
  <2> DEFINE next == ranges[k]
  <2>1. k \in 1..n /\ index <= next.min /\ k # n + 1 /\ k \in 1..(n + 1)
    BY <1>0, <1>1, <1>6
  <2>2. /\ next \in RangeNode /\ next.min \in DatagramNumber
        /\ next.max \in DatagramNumber /\ next.min <= next.max
        /\ Wrap(next.min - 1) = IF next.min = 0 THEN Modulus - 1 ELSE next.min - 1
    BY <1>2, <2>1, WrapBack
  <2>3. CASE index < Wrap(next.min - 1)
    <3>1. t = InsertAt(ranges, k, one)
      BY <1>6, <2>1, <2>3 DEF InsertRange
    <3>2. /\ InsertAt(ranges, k, one) \in Seq(RangeNode)
          /\ Range(InsertAt(ranges, k, one)) = Range(ranges) \cup {one}
      BY <1>0, <2>1, InsertAtRange
    <3> QED BY <3>1, <3>2, InsertedAlone
  <2>4. CASE /\ index = Wrap(next.min - 1)
             /\ k > 1 /\ Wrap(ranges[k - 1].max + 1) = index
    <3> DEFINE before == ranges[k - 1]
    <3>1. ~(index < Wrap(next.min - 1))
      BY <2>4, ModulusAssumption DEF DatagramNumber
    <3>2. t = RemoveAt([ranges EXCEPT ![k - 1].max = next.max], k)
      BY <1>6, <2>1, <2>4, <3>1 DEF InsertRange
    <3>3. k \in 2..n /\ k - 1 \in 1..n /\ k - 1 \in 1..(k - 1)
      BY <1>0, <2>1, <2>4
    <3>4. before.min < index /\ before.min \in DatagramNumber /\ before.max \in DatagramNumber
          /\ Wrap(before.max + 1) = IF before.max = Modulus - 1 THEN 0 ELSE before.max + 1
      BY <1>1, <1>2, <3>3, WrapNext
    <3>5. before.max + 1 = index
      BY <2>4, <3>4, ModulusAssumption DEF DatagramNumber
    <3>6. next.min = index + 1
      BY <2>1, <2>2, <2>4, <3>4, ModulusAssumption DEF DatagramNumber
    <3>7. LET s == RemoveAt([ranges EXCEPT ![k - 1].max = ranges[k].max], k)
          IN  WellFormed(s) /\ Members(s) = Members(ranges) \cup {index}
      <4> HIDE DEF k
      <4>1. /\ k \in 2..Len(ranges) /\ ranges[k - 1].max + 1 = index
            /\ ranges[k].min = index + 1
        BY <3>3, <3>5, <3>6
      <4> QED BY <4>1, Joined
    <3> QED BY <3>2, <3>7
  <2>5. CASE /\ index = Wrap(next.min - 1)
             /\ ~(k > 1 /\ Wrap(ranges[k - 1].max + 1) = index)
    <3> DEFINE r == [next EXCEPT !.min = index]
    <3>1. ~(index < Wrap(next.min - 1))
      BY <2>5, ModulusAssumption DEF DatagramNumber
    <3>2. t = [ranges EXCEPT ![k].min = index]
      BY <1>6, <2>1, <2>5, <3>1 DEF InsertRange
    <3>3. [ranges EXCEPT ![k].min = index] = [ranges EXCEPT ![k] = r]
      OBVIOUS
    <3>4. r \in RangeNode /\ r.max = next.max /\ r.min = index
      BY <2>2 DEF RangeNode
    <3>5. index = next.min - 1 \/ index = next.min
      BY <2>1, <2>2, <2>5, ModulusAssumption DEF DatagramNumber
    <3> HIDE DEF r
    <3>6. \A x \in DatagramNumber :
            r.min <= x /\ x <= r.max <=> (next.min <= x /\ x <= next.max) \/ x = index
      BY <2>2, <3>4, <3>5, ModulusAssumption DEF DatagramNumber
    <3>7. t = [ranges EXCEPT ![k] = r]
      BY <3>2, <3>3
    <3>8. r \in RangeNode /\ k \in 1..Len(ranges)
      BY <2>1, <3>4
    <3>9. /\ t \in Seq(RangeNode) /\ Len(t) = Len(ranges)
          /\ t[k] = r /\ \A i \in 1..Len(ranges) : i # k => t[i] = ranges[i]
      <4> HIDE DEF t, k
      <4> QED BY <1>0, <3>7, <3>8, ExceptSeq, LenProperties
    <3> HIDE DEF t
    <3>10. Good(t)
      BY <3>6, <3>8, <3>9, GrownBy
    <3> QED BY <3>10 DEF t
  <2>6. CASE ~(index < Wrap(next.min - 1)) /\ ~(index = Wrap(next.min - 1))
    <3>1. t = ranges
      BY <1>6, <2>1, <2>6 DEF InsertRange
    <3>2. next.min <= index
      BY <2>1, <2>2, <2>6, ModulusAssumption DEF DatagramNumber
    <3>3. index <= next.max
      BY <2>1, <2>2, ModulusAssumption DEF DatagramNumber
    <3> QED BY <1>3, <2>1, <3>1, <3>2, <3>3
  <2> QED BY <2>3, <2>4, <2>5, <2>6
<1> QED
  BY <1>0, <1>1, <1>4, <1>5, <1>6

-----------------------------------------------------------------------------
(* uint24_t: arithmetic that wraps                                         *)

LEMMA ModulusFacts ==
  /\ Modulus \in Nat \ {0} /\ HalfRange \in Nat
  /\ 2 * HalfRange + 1 <= Modulus /\ Modulus <= 2 * HalfRange + 2
  /\ RESEND_BUFFER_ARRAY_LENGTH \in Nat \ {0}
  /\ RESEND_BUFFER_ARRAY_LENGTH <= HalfRange
  /\ RESEND_BUFFER_ARRAY_LENGTH < Modulus
<1>1. Modulus \in Nat \ {0}
  BY ModulusAssumption
<1>2. /\ (Modulus - 1) \div 2 \in Nat
      /\ 2 * ((Modulus - 1) \div 2) <= Modulus - 1
      /\ Modulus - 1 <= 2 * ((Modulus - 1) \div 2) + 1
  BY <1>1
<1>3. RESEND_BUFFER_ARRAY_LENGTH \in 1..HalfRange
  BY ReliabilityAssumption
<1> QED
  BY <1>1, <1>2, <1>3 DEF HalfRange

LEMMA DivMod ==
  ASSUME NEW m \in Nat \ {0}, NEW a \in Int
  PROVE  \E q \in Int : a = q * m + (a % m)
<1> DEFINE d == a \div m
<1>1. a = m * d + (a % m) /\ d \in Int
  OBVIOUS
<1> HIDE DEF d
<1>2. m * d = d * m
  BY <1>1
<1>3. a = d * m + (a % m)
  BY <1>1, <1>2
<1> QED
  BY <1>1, <1>3

LEMMA ModRange ==
  ASSUME NEW m \in Nat \ {0}, NEW a \in Int
  PROVE  a % m \in 0..(m - 1)
OBVIOUS

LEMMA ModShift ==
  ASSUME NEW m \in Nat \ {0}, NEW a \in Int, NEW q \in Int
  PROVE  (q * m + a) % m = a % m
<1>1. PICK p \in Int : a = p * m + (a % m)
  BY DivMod
<1>2. a % m \in 0..(m - 1)
  BY ModRange
<1> DEFINE r == a % m
<1>3. r \in 0..(m - 1) /\ a = p * m + r
  BY <1>1, <1>2
<1> HIDE DEF r
<1>4. q * m + (p * m + r) = (q + p) * m + r
  BY <1>3
<1>5. q + p \in Int
  OBVIOUS
<1>6. ((q + p) * m + r) % m = r
  BY <1>3, <1>5, ModUnique
<1> QED
  BY <1>3, <1>4, <1>6 DEF r

\* Equal remainders: the numbers are a multiple of the modulus apart.
LEMMA ModEqual ==
  ASSUME NEW m \in Nat \ {0}, NEW a \in Int, NEW b \in Int, a % m = b % m,
         a - b < m, b - a < m
  PROVE  a = b
<1>1. PICK p \in Int : a = p * m + (a % m)
  BY DivMod
<1>2. PICK q \in Int : b = q * m + (b % m)
  BY DivMod
<1> DEFINE r == a % m
<1>3. r \in Int
  BY ModRange
<1>4. a = p * m + r /\ b = q * m + r
  BY <1>1, <1>2
<1> HIDE DEF r
<1>5. a - b = (p - q) * m
  BY <1>3, <1>4
<1>6. CASE p > q
  <2>1. p - q >= 1 /\ p - q \in Int
    BY <1>6
  <2>2. (p - q) * m >= 1 * m
    BY <2>1
  <2> QED BY <1>5, <2>2
<1>7. CASE q > p
  <2>1. q - p >= 1 /\ q - p \in Int
    BY <1>7
  <2>2. (q - p) * m >= 1 * m
    BY <2>1
  <2>3. b - a = (q - p) * m
    BY <1>3, <1>4
  <2> QED BY <2>2, <2>3
<1>8. CASE p = q
  BY <1>4, <1>8
<1> QED
  BY <1>6, <1>7, <1>8

LEMMA WrapType ==
  ASSUME NEW a \in Int
  PROVE  Wrap(a) \in DatagramNumber /\ Wrap(a) \in Nat /\ Wrap(a) < Modulus
<1>1. Wrap(a) \in 0..(Modulus - 1)
  BY ModulusAssumption, ModRange DEF Wrap
<1> QED
  BY <1>1, ModulusAssumption DEF DatagramNumber

LEMMA WrapShift ==
  ASSUME NEW a \in Int, NEW q \in Int
  PROVE  Wrap(q * Modulus + a) = Wrap(a)
BY ModulusAssumption, ModShift DEF Wrap

LEMMA WrapSmall ==
  ASSUME NEW a \in DatagramNumber
  PROVE  Wrap(a) = a
<1>1. a \in 0..(Modulus - 1) /\ Modulus \in Nat \ {0}
  BY ModulusAssumption DEF DatagramNumber
<1>2. (0 * Modulus + a) % Modulus = a /\ 0 * Modulus + a = a
  BY <1>1, ModUnique
<1> QED
  BY <1>2 DEF Wrap

LEMMA WrapBelow ==
  ASSUME NEW a \in Int, a < 0, -Modulus <= a
  PROVE  Wrap(a) = a + Modulus
<1>1. a + Modulus \in 0..(Modulus - 1) /\ Modulus \in Nat \ {0}
  BY ModulusAssumption
<1>2. (-1) * Modulus + (a + Modulus) = a
  BY <1>1
<1>3. ((-1) * Modulus + (a + Modulus)) % Modulus = a + Modulus
  BY <1>1, ModUnique
<1> QED
  BY <1>2, <1>3 DEF Wrap

LEMMA WrapAbove ==
  ASSUME NEW a \in Int, Modulus <= a, a < 2 * Modulus
  PROVE  Wrap(a) = a - Modulus
<1>1. a - Modulus \in 0..(Modulus - 1) /\ Modulus \in Nat \ {0}
  BY ModulusAssumption
<1>2. 1 * Modulus + (a - Modulus) = a
  BY <1>1
<1>3. (1 * Modulus + (a - Modulus)) % Modulus = a - Modulus
  BY <1>1, ModUnique
<1> QED
  BY <1>2, <1>3 DEF Wrap

LEMMA WrapEqual ==
  ASSUME NEW a \in Int, NEW b \in Int, Wrap(a) = Wrap(b),
         a - b < Modulus, b - a < Modulus
  PROVE  a = b
BY ModulusAssumption, ModEqual DEF Wrap

\* What is computed from wrapped numbers is what comes of the numbers.
LEMMA WrapOf ==
  ASSUME NEW a \in Int
  PROVE  \E q \in Int : Wrap(a) = q * Modulus + a
<1>1. PICK p \in Int : a = p * Modulus + (a % Modulus)
  BY ModulusAssumption, DivMod
<1>2. Wrap(a) \in Int /\ Wrap(a) = a % Modulus /\ Modulus \in Int
  BY WrapType, ModulusAssumption DEF Wrap
<1> DEFINE w == Wrap(a)
<1>3. a = p * Modulus + w
  BY <1>1, <1>2
<1> HIDE DEF w
<1>4. w = (-p) * Modulus + a /\ -p \in Int
  BY <1>2, <1>3 DEF w
<1> QED
  BY <1>4 DEF w

LEMMA WrapDifference ==
  ASSUME NEW a \in Int, NEW b \in Int
  PROVE  Wrap(Wrap(a) - Wrap(b)) = Wrap(a - b)
<1>1. PICK p \in Int : Wrap(a) = p * Modulus + a
  BY WrapOf
<1>2. PICK q \in Int : Wrap(b) = q * Modulus + b
  BY WrapOf
<1>3. Wrap(a) - Wrap(b) = (p - q) * Modulus + (a - b) /\ p - q \in Int /\ a - b \in Int
  BY <1>1, <1>2, ModulusAssumption
<1> QED
  BY <1>3, WrapShift

LEMMA WrapSum ==
  ASSUME NEW a \in Int, NEW b \in Int
  PROVE  Wrap(Wrap(a) + b) = Wrap(a + b) /\ Wrap(b - Wrap(a)) = Wrap(b - a)
<1>1. PICK p \in Int : Wrap(a) = p * Modulus + a
  BY WrapOf
<1>2. Wrap(a) + b = p * Modulus + (a + b) /\ a + b \in Int
  BY <1>1, ModulusAssumption
<1>3. b - Wrap(a) = (-p) * Modulus + (b - a) /\ -p \in Int /\ b - a \in Int
  BY <1>1, ModulusAssumption
<1> QED
  BY <1>2, <1>3, WrapShift

-----------------------------------------------------------------------------
(* The inductive invariant                                                 *)

\* The messages of datagram x that its entry in the history still holds; it
\* has none when the history no longer reaches back to x.
Held(x) == IF Offset(x) < Len(history) THEN history[Offset(x) + 1] ELSE {}

\* What the receiver has, without a gap, ends just before base.
NoGapBelowBase == base \notin received /\ \A x \in 1..(base - 1) : x \in received

\* What is not acknowledged is among the last messages sent.
Window == \A j \in resendBuffer : sent - j < RESEND_BUFFER_ARRAY_LENGTH

HistoryBounded == Len(history) <= DATAGRAM_MESSAGE_ID_ARRAY_LENGTH + 1

\* A message in the history has not been sent long ago: its number is its own.
HistoryRecent ==
  \A k \in DOMAIN history : \A i \in history[k] :
    sent - i < RESEND_BUFFER_ARRAY_LENGTH + PerDatagram * (Len(history) - k + 1)

\* A datagram in the network has all that the history says of it, and new
\* messages only.
WireTrue ==
  \A d \in wire : /\ Held(d.number) \subseteq d.messages
                  /\ \A i \in d.messages : sent - i < HalfRange

ParsingRecent == \A i \in parsing : sent - i < HalfRange

\* What is acknowledged, or will be, the receiver has, or is about to.
AcksTrue == \A x \in Members(acks) : Held(x) \subseteq received \cup parsing
AckWireTrue == \A ranges \in ackWire : \A x \in Members(ranges) : Held(x) \subseteq received

LinkInv ==
  /\ ReliabilityTypeOK
  /\ WellFormed(acks)
  /\ NoGapBelowBase
  /\ Window
  /\ NoLoss
  /\ HistoryAligned
  /\ HistoryBounded
  /\ HistoryRecent
  /\ WireTrue
  /\ ParsingRecent
  /\ AcksTrue
  /\ AckWireTrue

-----------------------------------------------------------------------------
(* What the operators compute                                              *)

\* Sizes that the assumptions relate.
LEMMA SizeFacts ==
  /\ DATAGRAM_MESSAGE_ID_ARRAY_LENGTH \in Nat /\ PerDatagram \in Nat \ {0}
  /\ PerDatagram <= RESEND_BUFFER_ARRAY_LENGTH
  /\ DATAGRAM_MESSAGE_ID_ARRAY_LENGTH + 2 < Modulus
  /\ \A n \in 0..(DATAGRAM_MESSAGE_ID_ARRAY_LENGTH + 1) :
       RESEND_BUFFER_ARRAY_LENGTH + PerDatagram * n < Modulus
  /\ OldMessages \in Nat /\ OldDatagrams \in Nat
  /\ HoleLimit \in Nat /\ RESEND_BUFFER_ARRAY_LENGTH <= HoleLimit
<1> DEFINE H == DATAGRAM_MESSAGE_ID_ARRAY_LENGTH + 1
<1>1. /\ H \in Nat /\ H >= 1 /\ PerDatagram \in Nat /\ PerDatagram >= 1
      /\ RESEND_BUFFER_ARRAY_LENGTH \in Nat /\ RESEND_BUFFER_ARRAY_LENGTH >= 1
      /\ RESEND_BUFFER_ARRAY_LENGTH + PerDatagram * H < Modulus
      /\ PerDatagram <= RESEND_BUFFER_ARRAY_LENGTH
  BY ModulusFacts, ReliabilityAssumption
<1> HIDE DEF H
<1>2. PerDatagram * H >= 1 * H /\ 1 * H = H
  BY <1>1
<1>3. H + 1 < Modulus
  BY <1>1, <1>2, ModulusFacts
<1>4. ASSUME NEW n \in 0..H
      PROVE  RESEND_BUFFER_ARRAY_LENGTH + PerDatagram * n < Modulus
  <2>1. n \in Nat /\ n <= H
    BY <1>1
  <2>2. PerDatagram * n <= PerDatagram * H /\ PerDatagram * n \in Nat
    BY <1>1, <2>1
  <2> QED BY <1>1, <2>2, ModulusFacts
<1> QED
  BY <1>1, <1>3, <1>4, ReliabilityAssumption DEF H

LEMMA NumberIs ==
  ASSUME NEW i \in Int
  PROVE  Number(i) \in Int /\ Number(i) = Wrap(OldMessages + i - 1)
BY WrapType, SizeFacts DEF Number

\* A slot is the place in the order of sending, modulo the length of the
\* array: a multiple of it fits into the numbers, so wrapping does not show.
LEMMA SlotIs ==
  ASSUME NEW i \in Int
  PROVE  Slot(i) = (OldMessages + i - 1) % RESEND_BUFFER_ARRAY_LENGTH
<1> DEFINE m == RESEND_BUFFER_ARRAY_LENGTH
           a == OldMessages + i - 1
<1>1. m \in Nat \ {0} /\ Modulus \in Int /\ Modulus % m = 0 /\ a \in Int
  BY ModulusFacts, SizeFacts, ReliabilityAssumption
<1> HIDE DEF m
<1>2. PICK c \in Int : Modulus = c * m + (Modulus % m)
  BY <1>1, DivMod
<1>3. Modulus = c * m
  BY <1>1, <1>2
<1>4. PICK q \in Int : Wrap(a) = q * Modulus + a
  BY <1>1, WrapOf
<1> HIDE DEF a
<1>5. q * (c * m) = (q * c) * m /\ q * c \in Int
  BY <1>1
<1>6. Wrap(a) = (q * c) * m + a
  BY <1>3, <1>4, <1>5
<1>7. ((q * c) * m + a) % m = a % m
  BY <1>1, <1>5, ModShift
<1> QED
  BY <1>6, <1>7 DEF Slot, Number, a, m

LEMMA SlotsDiffer ==
  ASSUME NEW i \in Int, NEW j \in Int, Slot(i) = Slot(j),
         i - j < RESEND_BUFFER_ARRAY_LENGTH, j - i < RESEND_BUFFER_ARRAY_LENGTH
  PROVE  i = j
<1> DEFINE a == OldMessages + i - 1
           b == OldMessages + j - 1
<1>1. a \in Int /\ b \in Int /\ a - b = i - j /\ b - a = j - i
  BY SizeFacts
<1>2. a % RESEND_BUFFER_ARRAY_LENGTH = b % RESEND_BUFFER_ARRAY_LENGTH
  BY SlotIs
<1> HIDE DEF a, b
<1>3. a = b
  BY <1>1, <1>2, ModEqual, ModulusFacts
<1> QED
  BY <1>1, <1>3

LEMMA SlotsRecur ==
  ASSUME NEW j \in Int
  PROVE  Slot(j + RESEND_BUFFER_ARRAY_LENGTH) = Slot(j)
<1> DEFINE m == RESEND_BUFFER_ARRAY_LENGTH
           a == OldMessages + j - 1
<1>1. m \in Nat \ {0} /\ a \in Int /\ OldMessages + (j + m) - 1 = 1 * m + a /\ j + m \in Int
  BY ModulusFacts, SizeFacts
<1>2. Slot(j + m) = (OldMessages + (j + m) - 1) % m /\ Slot(j) = a % m
  BY <1>1, SlotIs
<1> DEFINE q == 1
<1> HIDE DEF m, a, q
<1>3. (q * m + a) % m = a % m
  <2>1. q \in Int
    BY DEF q
  <2> QED BY <1>1, <2>1, ModShift
<1> QED
  BY <1>1, <1>2, <1>3 DEF m, q

LEMMA TypeFacts ==
  ASSUME ReliabilityTypeOK
  PROVE  /\ Len(pushed) \in Nat /\ sent \in Nat /\ sent <= Len(pushed)
         /\ Len(history) \in Nat /\ DOMAIN history = 1..Len(history)
         /\ nextDatagram \in Nat /\ popCount \in Nat
         /\ nextDatagram \in DatagramNumber /\ popCount \in DatagramNumber
         /\ base \in Nat /\ 1 <= base /\ base <= sent + 1
         /\ Len(output) \in Nat /\ DOMAIN output = 1..Len(output)
         /\ Len(acks) \in Nat
<1>1. Len(pushed) \in Nat /\ Len(history) \in Nat /\ Len(output) \in Nat /\ Len(acks) \in Nat
  BY LenProperties DEF ReliabilityTypeOK
<1>2. sent \in 0..Len(pushed) /\ base \in 1..(sent + 1)
  BY DEF ReliabilityTypeOK
<1>3. nextDatagram \in DatagramNumber /\ popCount \in DatagramNumber
  BY DEF ReliabilityTypeOK
<1>4. nextDatagram \in Nat /\ popCount \in Nat
  BY <1>3, ModulusAssumption DEF DatagramNumber
<1>5. DOMAIN history = 1..Len(history) /\ DOMAIN output = 1..Len(output)
  BY LenProperties DEF ReliabilityTypeOK
<1> QED
  BY <1>1, <1>2, <1>3, <1>4, <1>5

\* The receiver's verdict on a message is right, because whatever it lacks is
\* among the last messages sent, and what arrives is not old.
LEMMA HoleCountIs ==
  ASSUME LinkInv, NEW i \in parsing
  PROVE  /\ Accepts(i) <=> i \notin received
         /\ Accepts(i) => base + HoleCount(i) = i
         /\ i \in 1..sent /\ i \in Nat
<1> DEFINE a == OldMessages + i - 1
           b == OldMessages + base - 1
           d == i - base
           R == RESEND_BUFFER_ARRAY_LENGTH
<1>1. ReliabilityTypeOK /\ NoGapBelowBase /\ Window /\ NoLoss /\ ParsingRecent
  BY DEF LinkInv
<1>2. /\ i \in 1..sent /\ i \in Nat /\ i <= sent /\ base \in Nat /\ sent \in Nat
      /\ 1 <= i /\ 1 <= base /\ base <= sent + 1 /\ sent - i < HalfRange
  BY <1>1, TypeFacts DEF ReliabilityTypeOK, ParsingRecent
<1>3. /\ Modulus \in Nat \ {0} /\ HalfRange \in Nat /\ 2 * HalfRange + 1 <= Modulus
      /\ R \in Nat /\ R <= HalfRange /\ R < Modulus /\ HoleLimit \in Nat /\ R <= HoleLimit
      /\ OldMessages \in Nat
  BY ModulusFacts, SizeFacts
<1> HIDE DEF R
<1>4. HoleCount(i) = Wrap(d)
  <2>1. a \in Int /\ b \in Int /\ a - b = d
    BY <1>2, <1>3
  <2>2. Number(i) = Wrap(a) /\ Number(base) = Wrap(b)
    BY <1>2, NumberIs
  <2> HIDE DEF a, b, d
  <2>3. Wrap(Wrap(a) - Wrap(b)) = Wrap(a - b)
    BY <2>1, WrapDifference
  <2> QED BY <2>1, <2>2, <2>3 DEF HoleCount
<1>5. CASE base <= i
  <2>1. base \in (1..sent) \ received
    BY <1>1, <1>2, <1>5 DEF NoGapBelowBase
  <2>2. base \in resendBuffer
    BY <1>1, <2>1 DEF NoLoss
  <2>3. sent - base < R
    BY <1>1, <2>2 DEF Window, R
  <2>4. d \in 0..(R - 1) /\ d \in 0..(Modulus - 1) /\ base + d = i
    BY <1>2, <1>3, <1>5, <2>3
  <2>5. HoleCount(i) = d
    BY <1>4, <2>4, WrapSmall DEF DatagramNumber
  <2>6. ~(HoleCount(i) > HalfRange) /\ HoleCount(i) <= HoleLimit
    BY <1>3, <2>4, <2>5
  <2>7. Accepts(i) <=> i \notin received
    BY <2>4, <2>5, <2>6 DEF Accepts, TooOld
  <2> QED BY <1>2, <2>4, <2>5, <2>7
<1>6. CASE i < base
  <2>1. d < 0 /\ -Modulus <= d /\ d + Modulus > HalfRange /\ d \in Int
    BY <1>2, <1>3, <1>6
  <2>2. HoleCount(i) = d + Modulus
    BY <1>4, <2>1, WrapBelow
  <2>3. ~Accepts(i)
    BY <2>1, <2>2 DEF Accepts, TooOld
  <2>4. i \in 1..(base - 1)
    BY <1>2, <1>6
  <2>5. i \in received
    BY <1>1, <2>4 DEF NoGapBelowBase
  <2> QED BY <1>2, <2>3, <2>5
<1> QED
  BY <1>2, <1>5, <1>6

\* A message the history still knows shares its number with no other message
\* that waits for its acknowledgement.
LEMMA RemovesItself ==
  ASSUME LinkInv, NEW x \in DatagramNumber, NEW i \in Held(x)
  PROVE  RemovedBy(i) \subseteq {i}
<1>1. ReliabilityTypeOK /\ Window /\ HistoryBounded /\ HistoryRecent
  BY DEF LinkInv
<1>2. PICK k \in DOMAIN history : i \in history[k]
  <2>1. popCount \in Int /\ x \in Int /\ Len(history) \in Nat /\ DOMAIN history = 1..Len(history)
    BY <1>1, TypeFacts, ModulusAssumption DEF DatagramNumber
  <2>2. Offset(x) \in Nat
    <3>1. x - popCount \in Int
      BY <2>1
    <3> QED BY <3>1, WrapType DEF Offset
  <2>3. Offset(x) < Len(history) /\ i \in history[Offset(x) + 1]
    BY DEF Held
  <2>4. Offset(x) + 1 \in DOMAIN history
    BY <2>1, <2>2, <2>3
  <2> QED BY <2>3, <2>4
<1>3. /\ Len(history) \in Nat /\ k \in 1..Len(history) /\ sent \in Nat
      /\ Len(history) <= DATAGRAM_MESSAGE_ID_ARRAY_LENGTH + 1
  BY <1>1, TypeFacts DEF HistoryBounded
<1>4. i \in 1..sent
  <2>1. history \in Seq(SUBSET (1..sent))
    BY <1>1 DEF ReliabilityTypeOK
  <2>2. history[k] \in SUBSET (1..sent)
    BY <1>3, <2>1, ElementOfSeq
  <2> QED BY <1>2, <2>2
<1>5. sent - i < Modulus
  <2> DEFINE n == Len(history) - k + 1
  <2>1. n \in 0..(DATAGRAM_MESSAGE_ID_ARRAY_LENGTH + 1)
    BY <1>3, SizeFacts
  <2>2. sent - i < RESEND_BUFFER_ARRAY_LENGTH + PerDatagram * n
    BY <1>1, <1>2 DEF HistoryRecent
  <2> HIDE DEF n
  <2>3. PerDatagram * n \in Int
    BY <2>1, SizeFacts
  <2> QED BY <1>3, <1>4, <2>1, <2>2, <2>3, SizeFacts, ModulusFacts
<1>6. ASSUME NEW j \in resendBuffer, Number(j) = Number(i)
      PROVE  j = i
  <2>1. j \in 1..sent /\ sent - j < RESEND_BUFFER_ARRAY_LENGTH
    BY <1>1 DEF ReliabilityTypeOK, Window
  <2> DEFINE a == OldMessages + i - 1
             b == OldMessages + j - 1
  <2>2. a \in Int /\ b \in Int /\ a - b < Modulus /\ b - a < Modulus /\ a - b = i - j
    BY <1>3, <1>4, <1>5, <2>1, SizeFacts, ModulusFacts
  <2>3. Wrap(a) = Wrap(b)
    BY <1>4, <1>6, <2>1, NumberIs
  <2> HIDE DEF a, b
  <2>4. a = b
    BY <2>2, <2>3, WrapEqual
  <2> QED BY <1>4, <2>1, <2>2, <2>4
<1> QED
  BY <1>6 DEF RemovedBy

\* A datagram leaves: the history holds its messages under its number, and
\* under the other numbers what it held, but for the oldest one.
LEMMA RecordedHistory ==
  ASSUME ReliabilityTypeOK, HistoryBounded, NEW n \in Nat, sent <= n,
         NEW S \in SUBSET (1..n), history' = Recorded(S)
  PROVE  /\ history' \in Seq(SUBSET (1..n))
         /\ Len(history)' \in Nat
         /\ Len(history)' <= DATAGRAM_MESSAGE_ID_ARRAY_LENGTH + 1
         /\ Len(history)' = IF HistoryFull THEN Len(history) ELSE Len(history) + 1
         /\ DOMAIN history' = 1..Len(history)'
         /\ history'[Len(history)'] = S
         /\ \A k \in 1..(Len(history)' - 1) :
              history'[k] = IF HistoryFull THEN history[k + 1] ELSE history[k]
<1> DEFINE T == SUBSET (1..n)
           h == IF HistoryFull THEN Tail(history) ELSE history
<1>1. history \in Seq(T) /\ S \in T
  <2>1. SUBSET (1..sent) \subseteq T
    BY TypeFacts
  <2>2. history \in Seq(SUBSET (1..sent))
    BY DEF ReliabilityTypeOK
  <2> QED BY <2>1, <2>2, SeqMonotonic
<1> HIDE DEF T
<1>2. /\ Len(history) \in Nat /\ DATAGRAM_MESSAGE_ID_ARRAY_LENGTH \in Nat
      /\ Len(history) <= DATAGRAM_MESSAGE_ID_ARRAY_LENGTH + 1
  BY TypeFacts, SizeFacts DEF HistoryBounded
<1>3. /\ h \in Seq(T)
      /\ Len(h) = IF HistoryFull THEN Len(history) - 1 ELSE Len(history)
      /\ Len(h) \in Nat /\ Len(h) <= DATAGRAM_MESSAGE_ID_ARRAY_LENGTH
      /\ \A k \in 1..Len(h) : h[k] = IF HistoryFull THEN history[k + 1] ELSE history[k]
  <2>1. CASE HistoryFull
    <3>1. history # << >>
      BY <1>2, <2>1 DEF HistoryFull
    <3>2. /\ Tail(history) \in Seq(T) /\ Len(Tail(history)) = Len(history) - 1
          /\ \A k \in 1..Len(Tail(history)) : Tail(history)[k] = history[k + 1]
      BY <1>1, <3>1, HeadTailProperties
    <3> QED BY <1>2, <2>1, <3>2 DEF HistoryFull
  <2>2. CASE ~HistoryFull
    BY <1>1, <1>2, <2>2 DEF HistoryFull
  <2> QED BY <2>1, <2>2
<1>4. history' = Append(h, S)
  BY DEF Recorded
<1> HIDE DEF h
<1>5. /\ Append(h, S) \in Seq(T) /\ Len(Append(h, S)) = Len(h) + 1
      /\ \A k \in 1..Len(h) : Append(h, S)[k] = h[k]
      /\ Append(h, S)[Len(h) + 1] = S
  BY <1>1, <1>3, AppendProperties
<1>6. history' \in Seq(T) /\ Len(history') = Len(h) + 1 /\ DOMAIN history' = 1..Len(history')
  BY <1>4, <1>5, LenProperties
<1>7. ASSUME NEW k \in 1..(Len(history') - 1)
      PROVE  history'[k] = IF HistoryFull THEN history[k + 1] ELSE history[k]
  <2>1. k \in 1..Len(h)
    BY <1>3, <1>6
  <2> QED BY <1>3, <1>4, <1>5, <2>1
<1> QED
  BY <1>2, <1>3, <1>4, <1>5, <1>6, <1>7 DEF T

LEMMA HeldAfter ==
  ASSUME ReliabilityTypeOK, HistoryBounded, HistoryAligned, NEW n \in Nat, sent <= n,
         NEW S \in SUBSET (1..n), history' = Recorded(S), popCount' = NextPopCount,
         nextDatagram' = Wrap(nextDatagram + 1)
  PROVE  /\ HistoryAligned'
         /\ \A x \in DatagramNumber :
              IF x = nextDatagram THEN Held(x)' \subseteq S ELSE Held(x)' \subseteq Held(x)
<1> DEFINE L == Len(history)
<1>1. /\ L \in Nat /\ L + 1 < Modulus /\ Modulus \in Nat
      /\ popCount \in Int /\ nextDatagram \in DatagramNumber /\ nextDatagram = Wrap(popCount + L)
  BY TypeFacts, SizeFacts, ModulusFacts DEF HistoryBounded, HistoryAligned
<1>2. /\ Len(history)' = IF HistoryFull THEN L ELSE L + 1
      /\ history'[Len(history)'] = S
      /\ \A k \in 1..(Len(history)' - 1) :
           history'[k] = IF HistoryFull THEN history[k + 1] ELSE history[k]
  BY RecordedHistory
<1>3. HistoryFull => L >= 1
  BY <1>1, SizeFacts DEF HistoryFull
<1> HIDE DEF L
<1>4. Wrap(nextDatagram + 1) = Wrap(popCount + L + 1)
  <2>1. popCount + L \in Int
    BY <1>1
  <2> QED BY <1>1, <2>1, WrapSum
<1>5. HistoryAligned'
  <2>1. CASE HistoryFull
    <3>1. Wrap(Wrap(popCount + 1) + L) = Wrap((popCount + 1) + L)
      BY <1>1, WrapSum
    <3>2. (popCount + 1) + L = popCount + L + 1
      BY <1>1
    <3> QED BY <1>2, <1>4, <2>1, <3>1, <3>2 DEF HistoryAligned, NextPopCount
  <2>2. CASE ~HistoryFull
    <3>1. popCount + (L + 1) = popCount + L + 1
      BY <1>1
    <3> QED BY <1>2, <1>4, <2>2, <3>1 DEF HistoryAligned, NextPopCount
  <2> QED BY <2>1, <2>2
<1>6. ASSUME NEW x \in DatagramNumber
      PROVE  IF x = nextDatagram THEN Held(x)' \subseteq S ELSE Held(x)' \subseteq Held(x)
  <2> DEFINE o == Offset(x)
             p == Wrap(x - popCount')
  <2>1. x \in Int /\ x - popCount \in Int
    BY <1>1, ModulusAssumption DEF DatagramNumber
  <2>2. o \in Nat /\ o < Modulus /\ o \in DatagramNumber /\ o = Wrap(x - popCount)
    BY <2>1, WrapType DEF Offset
  <2>3. x = nextDatagram <=> o = L
    <3>1. Wrap(popCount + o) = x
      <4>1. Wrap(popCount + Wrap(x - popCount)) = Wrap(popCount + (x - popCount))
        <5>1. Wrap(Wrap(x - popCount) + popCount) = Wrap((x - popCount) + popCount)
          BY <1>1, <2>1, WrapSum
        <5>2. Wrap(x - popCount) \in Int
          BY <2>1, WrapType
        <5> QED BY <1>1, <2>1, <5>1, <5>2
      <4>2. popCount + (x - popCount) = x
        BY <1>1, <2>1
      <4> QED BY <2>2, <4>1, <4>2, WrapSmall
    <3>2. ASSUME x = nextDatagram PROVE o = L
      <4>1. Wrap(popCount + o) = Wrap(popCount + L) /\ popCount + o \in Int /\ popCount + L \in Int
        BY <1>1, <2>2, <3>1, <3>2
      <4>2. popCount + o = popCount + L
        BY <1>1, <2>2, <4>1, WrapEqual
      <4> QED BY <1>1, <2>2, <4>2
    <3> QED BY <1>1, <3>1, <3>2
  <2>4. Held(x)' = IF p < Len(history)' THEN history'[p + 1] ELSE {}
    BY DEF Held, Offset
  <2>5. Held(x) = IF o < L THEN history[o + 1] ELSE {}
    BY DEF Held, L
  <2>6. CASE HistoryFull
    <3>1. p = IF o = 0 THEN Modulus - 1 ELSE o - 1
      <4>1. popCount' = Wrap(popCount + 1)
        BY <2>6 DEF NextPopCount
      <4>2. Wrap(x - Wrap(popCount + 1)) = Wrap(x - (popCount + 1))
        BY <1>1, <2>1, WrapSum
      <4>3. Wrap(Wrap(x - popCount) + (-1)) = Wrap((x - popCount) + (-1))
        BY <2>1, WrapSum
      <4>4. x - (popCount + 1) = (x - popCount) + (-1) /\ o + (-1) = o - 1
        BY <1>1, <2>1, <2>2
      <4>5. p = Wrap(o - 1)
        BY <2>2, <4>1, <4>2, <4>3, <4>4
      <4> QED BY <2>2, <4>5, WrapBack
    <3> HIDE DEF p, o
    <3>2. CASE o = 0
      BY <1>1, <1>2, <2>4, <2>6, <3>1, <3>2
    <3>3. CASE o = L
      <4>1. p = L - 1 /\ p < L /\ p + 1 = L
        BY <1>1, <1>3, <2>6, <3>1, <3>3
      <4>2. Held(x)' = S
        BY <1>2, <2>4, <2>6, <4>1
      <4> QED BY <2>3, <3>3, <4>2
    <3>4. CASE o # 0 /\ o # L
      <4>1. p = o - 1
        BY <3>1, <3>4
      <4>2. CASE o < L
        <5>1. p + 1 = o /\ p < L /\ o \in 1..(L - 1)
          BY <1>1, <2>2, <3>4, <4>1, <4>2
        <5>2. Held(x)' = history'[o]
          BY <1>2, <2>4, <2>6, <5>1
        <5>3. history'[o] = history[o + 1]
          BY <1>2, <2>6, <5>1
        <5> QED BY <2>3, <2>5, <3>4, <4>2, <5>2, <5>3
      <4>3. CASE o > L
        <5>1. ~(p < L)
          BY <1>1, <2>2, <4>1, <4>3
        <5> QED BY <1>2, <2>3, <2>4, <2>6, <3>4, <5>1
      <4> QED BY <1>1, <2>2, <3>4, <4>2, <4>3
    <3> QED BY <3>2, <3>3, <3>4
  <2>7. CASE ~HistoryFull
    <3>1. p = o
      BY <2>2, <2>7 DEF NextPopCount
    <3>2. Len(history)' = L + 1
      BY <1>2, <2>7
    <3> HIDE DEF p, o
    <3>3. CASE o < L
      <4>1. o < L + 1 /\ o # L /\ o + 1 \in 1..(Len(history)' - 1)
        BY <1>1, <2>2, <3>2, <3>3
      <4>2. history'[o + 1] = history[o + 1]
        BY <1>2, <2>7, <4>1
      <4> QED BY <2>3, <2>4, <2>5, <3>1, <3>2, <3>3, <4>1, <4>2
    <3>4. CASE o = L
      <4>1. o < L + 1 /\ o + 1 = L + 1
        BY <1>1, <3>4
      <4> QED BY <1>2, <2>3, <2>4, <3>1, <3>2, <3>4, <4>1
    <3>5. CASE o > L
      <4>1. ~(o < L + 1) /\ o # L
        BY <1>1, <2>2, <3>5
      <4> QED BY <2>3, <2>4, <3>1, <3>2, <4>1
    <3> QED BY <1>1, <2>2, <3>3, <3>4, <3>5
  <2> QED BY <2>6, <2>7
<1> QED
  BY <1>5, <1>6

-----------------------------------------------------------------------------
(* Every step keeps the invariant                                          *)

LEMMA EmitKeeps ==
  ASSUME LinkInv, parsing = {},
         NEW n \in Nat, sent <= n, n <= sent + PerDatagram, n <= Len(pushed),
         NEW S \in SUBSET (1..n), \A i \in S : n - i < RESEND_BUFFER_ARRAY_LENGTH,
         Emit(S, n), sent' = n,
         resendBuffer' \in SUBSET (1..n),
         \A j \in resendBuffer' : n - j < RESEND_BUFFER_ARRAY_LENGTH,
         (1..n) \ resendBuffer' \subseteq received
  PROVE  LinkInv'
<1> DEFINE R == RESEND_BUFFER_ARRAY_LENGTH
<1>1. /\ ReliabilityTypeOK /\ WellFormed(acks) /\ NoGapBelowBase /\ Window /\ NoLoss
      /\ HistoryAligned /\ HistoryBounded /\ HistoryRecent /\ WireTrue
      /\ ParsingRecent /\ AcksTrue /\ AckWireTrue
  BY DEF LinkInv
<1>2. /\ nextDatagram \notin Members(acks)
      /\ nextDatagram' = Wrap(nextDatagram + 1)
      /\ history' = Recorded(S) /\ popCount' = NextPopCount
      /\ wire' = {d \in wire : d.number # nextDatagram /\ \A i \in d.messages : Fresh(i, n)}
                   \cup {[number |-> nextDatagram, messages |-> S]}
      /\ ackWire' = {ranges \in ackWire : nextDatagram \notin Members(ranges)}
      /\ pushed' = pushed /\ orderedWriteIndex' = orderedWriteIndex /\ dead' = dead
  BY DEF Emit
<1>3. /\ expected' = expected /\ acks' = acks /\ parsing' = parsing /\ base' = base
      /\ received' = received /\ orderedReadIndex' = orderedReadIndex /\ heap' = heap
      /\ heapOffset' = heapOffset
      /\ output' = output /\ taken' = taken
  BY DEF Emit, receiveVars, orderVars, channelEnd
<1>4. /\ sent \in Nat /\ Len(history) \in Nat /\ Len(pushed) \in Nat
      /\ DOMAIN history = 1..Len(history) /\ popCount \in Nat /\ nextDatagram \in Nat
      /\ nextDatagram \in DatagramNumber /\ R \in Nat /\ R <= HalfRange /\ HalfRange \in Nat
      /\ PerDatagram \in Nat
  BY <1>1, TypeFacts, ModulusFacts, SizeFacts
<1>5. /\ history' \in Seq(SUBSET (1..n)) /\ Len(history)' \in Nat
      /\ Len(history)' <= DATAGRAM_MESSAGE_ID_ARRAY_LENGTH + 1
      /\ Len(history)' = IF HistoryFull THEN Len(history) ELSE Len(history) + 1
      /\ DOMAIN history' = 1..Len(history)'
      /\ history'[Len(history)'] = S
      /\ \A k \in 1..(Len(history)' - 1) :
           history'[k] = IF HistoryFull THEN history[k + 1] ELSE history[k]
  BY <1>1, <1>2, RecordedHistory
<1>6. /\ HistoryAligned'
      /\ \A x \in DatagramNumber :
           IF x = nextDatagram THEN Held(x)' \subseteq S ELSE Held(x)' \subseteq Held(x)
  BY <1>1, <1>2, HeldAfter
<1>7. 1..sent \subseteq 1..n
  BY <1>4
<1>8. ReliabilityTypeOK'
  <2>1. n \in 0..Len(pushed)
    BY <1>4
  <2>2. nextDatagram' \in DatagramNumber /\ popCount' \in DatagramNumber
    BY <1>1, <1>2, <1>4, WrapType DEF NextPopCount, ReliabilityTypeOK
  <2>3. base \in 1..(n + 1)
    BY <1>1, <1>4, TypeFacts
  <2>4. output \in Seq(1..n)
    BY <1>1, <1>7, SeqMonotonic DEF ReliabilityTypeOK
  <2>5. wire' \subseteq [number : DatagramNumber, messages : SUBSET (1..n)]
    <3>1. wire \subseteq [number : DatagramNumber, messages : SUBSET (1..n)]
      BY <1>1, <1>7 DEF ReliabilityTypeOK
    <3>2. [number |-> nextDatagram, messages |-> S]
            \in [number : DatagramNumber, messages : SUBSET (1..n)]
      BY <1>4
    <3> QED BY <1>2, <3>1, <3>2
  <2>6. /\ parsing \subseteq 1..n /\ received \subseteq 1..n
    BY <1>1, <1>7 DEF ReliabilityTypeOK
  <2>7. ackWire' \subseteq Seq(RangeNode)
    BY <1>1, <1>2 DEF ReliabilityTypeOK
  <2>8. /\ pushed' \in Seq([ordered: BOOLEAN, index: Nat])
        /\ orderedWriteIndex' \in Nat /\ dead' \in BOOLEAN /\ expected' \in DatagramNumber
        /\ acks' \in Seq(RangeNode) /\ orderedReadIndex' \in Nat
        /\ heap' \subseteq [index: DatagramNumber, message: received']
        /\ heapOffset' \in DatagramNumber
        /\ taken' \in 0..Len(output')
    BY <1>1, <1>2, <1>3 DEF ReliabilityTypeOK
  <2> QED BY <1>2, <1>3, <1>5, <2>1, <2>2, <2>3, <2>4, <2>5, <2>6, <2>7, <2>8
       DEF ReliabilityTypeOK
<1>9. WellFormed(acks)' /\ NoGapBelowBase' /\ ParsingRecent'
  <2>1. WellFormed(acks') /\ NoGapBelowBase'
    BY <1>1, <1>3 DEF NoGapBelowBase
  <2>2. ParsingRecent'
    BY <1>3 DEF ParsingRecent
  <2> QED BY <2>1, <2>2
<1>10. Window' /\ NoLoss' /\ HistoryBounded'
  BY <1>3, <1>5 DEF Window, NoLoss, HistoryBounded
<1>11. HistoryRecent'
  <2> DEFINE L == Len(history)
             N == Len(history)'
  <2>1. L \in Nat /\ N \in Nat /\ N = IF HistoryFull THEN L ELSE L + 1
    BY <1>4, <1>5
  <2>2. /\ DOMAIN history' = 1..N /\ history'[N] = S
        /\ \A k \in 1..(N - 1) :
             history'[k] = IF HistoryFull THEN history[k + 1] ELSE history[k]
    BY <1>5
  <2> SUFFICES ASSUME NEW k \in 1..N, NEW i \in history'[k]
               PROVE  n - i < R + PerDatagram * (N - k + 1)
    BY <2>2 DEF HistoryRecent
  <2> HIDE DEF N
  <2>3. CASE k = N
    <3>1. n - i < R /\ i \in 1..n
      BY <2>2, <2>3
    <3>2. N - k + 1 = 1
      BY <2>1, <2>3
    <3>3. PerDatagram * 1 = PerDatagram
      BY <1>4
    <3> QED BY <1>4, <3>1, <3>2, <3>3
  <2>4. CASE k # N
    <3> DEFINE p == IF HistoryFull THEN k + 1 ELSE k
               e == L - p + 1
    <3>1. k \in 1..(N - 1)
      BY <2>1, <2>4
    <3>2. p \in 1..L /\ N - k + 1 = e + 1 /\ e \in Nat
      <4>1. CASE HistoryFull
        BY <2>1, <3>1, <4>1
      <4>2. CASE ~HistoryFull
        BY <2>1, <3>1, <4>2
      <4> QED BY <4>1, <4>2
    <3>3. i \in history[p]
      BY <2>2, <3>1
    <3> HIDE DEF p
    <3>4. sent - i < R + PerDatagram * e
      <4>1. p \in DOMAIN history
        BY <1>4, <3>2
      <4> QED BY <1>1, <3>3, <4>1 DEF HistoryRecent
    <3>5. i \in 1..sent
      <4>1. history \in Seq(SUBSET (1..sent)) /\ p \in 1..Len(history)
        BY <1>1, <3>2 DEF ReliabilityTypeOK
      <4>2. history[p] \in SUBSET (1..sent)
        BY <4>1, ElementOfSeq
      <4> QED BY <3>3, <4>2
    <3> HIDE DEF e
    <3>6. PerDatagram * (e + 1) = PerDatagram * e + PerDatagram /\ PerDatagram * e \in Int
      BY <1>4, <3>2
    <3>7. n - i < R + (PerDatagram * e + PerDatagram)
      BY <1>4, <3>4, <3>5, <3>6
    <3> QED BY <3>2, <3>6, <3>7
  <2> QED BY <2>3, <2>4
<1>12. WireTrue'
  <2> SUFFICES ASSUME NEW d \in wire'
               PROVE  /\ Held(d.number)' \subseteq d.messages
                      /\ \A i \in d.messages : n - i < HalfRange
    BY DEF WireTrue
  <2>1. CASE d = [number |-> nextDatagram, messages |-> S]
    <3>1. Held(d.number)' \subseteq S
      <4>1. d.number = nextDatagram
        BY <2>1
      <4> QED BY <1>4, <1>6, <4>1
    <3>2. \A i \in S : n - i < HalfRange
      BY <1>4
    <3> QED BY <2>1, <3>1, <3>2
  <2>2. CASE d \in wire /\ d.number # nextDatagram /\ \A i \in d.messages : Fresh(i, n)
    <3>1. d.number \in DatagramNumber /\ d.messages \subseteq 1..sent
      BY <1>1, <2>2 DEF ReliabilityTypeOK
    <3>2. Held(d.number)' \subseteq Held(d.number)
      BY <1>6, <2>2, <3>1
    <3>3. Held(d.number) \subseteq d.messages
      BY <1>1, <2>2 DEF WireTrue
    <3>4. \A i \in d.messages : n - i < HalfRange
      BY <1>4, <2>2, <3>1 DEF Fresh
    <3> QED BY <3>2, <3>3, <3>4
  <2> QED BY <1>2, <2>1, <2>2
<1>13. AcksTrue'
  <2>1. \A x \in Members(acks) : x \in DatagramNumber /\ x # nextDatagram
    BY <1>2 DEF Members
  <2> QED BY <1>1, <1>3, <1>6, <2>1 DEF AcksTrue
<1>14. AckWireTrue'
  <2> SUFFICES ASSUME NEW ranges \in ackWire', NEW x \in Members(ranges)
               PROVE  Held(x)' \subseteq received'
    BY DEF AckWireTrue
  <2>1. ranges \in ackWire /\ x # nextDatagram /\ x \in DatagramNumber
    BY <1>2 DEF Members
  <2>2. Held(x)' \subseteq Held(x)
    BY <1>6, <2>1
  <2>3. Held(x) \subseteq received
    BY <1>1, <2>1 DEF AckWireTrue
  <2> QED BY <1>3, <2>2, <2>3
<1> QED
  BY <1>6, <1>8, <1>9, <1>10, <1>11, <1>12, <1>13, <1>14 DEF LinkInv

\* Messages leave only when their slots are free: what waits is then still
\* among the last ones.
LEMMA TransmitKeeps ==
  ASSUME LinkInv, parsing = {}, Transmit
  PROVE  LinkInv'
<1> DEFINE R == RESEND_BUFFER_ARRAY_LENGTH
<1>1. PICK k \in 1..PerDatagram :
        /\ sent + k <= Len(pushed)
        /\ \A i \in (sent + 1)..(sent + k) :
             SlotFree(i, resendBuffer \cup ((sent + 1)..(sent + k)))
        /\ sent' = sent + k
        /\ resendBuffer' = resendBuffer \cup ((sent + 1)..(sent + k))
        /\ Emit((sent + 1)..(sent + k), sent + k)
  BY DEF Transmit
<1> DEFINE n == sent + k
           S == (sent + 1)..n
<1>2. ReliabilityTypeOK /\ Window /\ NoLoss
  BY DEF LinkInv
<1>3. /\ sent \in Nat /\ k \in Nat /\ 1 <= k /\ k <= PerDatagram /\ PerDatagram <= R
      /\ PerDatagram \in Nat /\ R \in Nat /\ n \in Nat /\ sent <= n
      /\ Len(pushed) \in Nat /\ n = sent + k
  BY <1>2, TypeFacts, SizeFacts, ModulusFacts
<1>4. /\ n <= Len(pushed) /\ \A i \in S : SlotFree(i, resendBuffer \cup S)
      /\ sent' = n /\ resendBuffer' = resendBuffer \cup S /\ Emit(S, n)
  BY <1>1
<1>5. resendBuffer \subseteq 1..sent /\ \A j \in resendBuffer : sent - j < R
  BY <1>2 DEF ReliabilityTypeOK, Window
<1> HIDE DEF n, R
<1>6. S \subseteq 1..n /\ \A i \in S : n - i < R
  BY <1>3
<1>7. resendBuffer' \subseteq 1..n
  BY <1>3, <1>4, <1>5
<1>8. ASSUME NEW j \in resendBuffer
      PROVE  n - j < R
  <2>1. j \in 1..sent /\ sent - j < R
    BY <1>5
  <2>2. SUFFICES ASSUME ~(n - j < R) PROVE FALSE
    OBVIOUS
  <2>3. j + R \in S /\ j + R # j
    BY <1>3, <2>1, <2>2
  <2>4. Slot(j + R) = Slot(j)
    BY <2>1, SlotsRecur DEF R
  <2> QED BY <1>4, <2>3, <2>4 DEF SlotFree
<1>9. \A j \in resendBuffer' : n - j < R
  BY <1>4, <1>6, <1>8
<1>10. (1..n) \ resendBuffer' \subseteq received
  <2>1. (1..sent) \ resendBuffer \subseteq received
    BY <1>2 DEF NoLoss
  <2> QED BY <1>3, <1>4, <2>1
<1>11. S \in SUBSET (1..n) /\ resendBuffer' \in SUBSET (1..n) /\ n <= sent + PerDatagram
  BY <1>3, <1>6, <1>7
<1> HIDE DEF S
<1> QED
  BY <1>3, <1>4, <1>6, <1>9, <1>10, <1>11, EmitKeeps DEF R

LEMMA ResendKeeps ==
  ASSUME LinkInv, parsing = {}, NEW S \in SUBSET resendBuffer, Resend(S)
  PROVE  LinkInv'
<1>1. ReliabilityTypeOK /\ Window /\ NoLoss
  BY DEF LinkInv
<1>2. /\ sent \in Nat /\ sent <= sent /\ sent <= sent + PerDatagram /\ sent <= Len(pushed)
  BY <1>1, TypeFacts, SizeFacts
<1>3. Emit(S, sent) /\ sent' = sent /\ resendBuffer' = resendBuffer
  BY DEF Resend
<1>4. /\ S \in SUBSET (1..sent) /\ resendBuffer' \in SUBSET (1..sent)
      /\ \A j \in resendBuffer' : sent - j < RESEND_BUFFER_ARRAY_LENGTH
      /\ \A i \in S : sent - i < RESEND_BUFFER_ARRAY_LENGTH
      /\ (1..sent) \ resendBuffer' \subseteq received
  BY <1>1, <1>3 DEF ReliabilityTypeOK, Window, NoLoss
<1> QED
  BY <1>2, <1>3, <1>4, EmitKeeps

\* An acknowledgement, however late, removes only what the receiver has.
LEMMA HandleAckKeeps ==
  ASSUME LinkInv, NEW ranges \in ackWire, HandleAck(ranges)
  PROVE  LinkInv'
<1>1. /\ ReliabilityTypeOK /\ WellFormed(acks) /\ NoGapBelowBase /\ Window /\ NoLoss
      /\ HistoryAligned /\ HistoryBounded /\ HistoryRecent /\ WireTrue
      /\ ParsingRecent /\ AcksTrue /\ AckWireTrue
  BY DEF LinkInv
<1> DEFINE acked == AckedBy(ranges)
<1>2. /\ resendBuffer' = {j \in resendBuffer :
           \A x \in acked : \A i \in Carried(x) : j \notin RemovedBy(i)}
      /\ history' = [k \in DOMAIN history |->
           IF \E x \in acked : Known(x) /\ k = Offset(x) + 1 THEN {} ELSE history[k]]
      /\ pushed' = pushed /\ orderedWriteIndex' = orderedWriteIndex /\ sent' = sent
      /\ nextDatagram' = nextDatagram /\ popCount' = popCount /\ dead' = dead
      /\ wire' = wire /\ ackWire' = ackWire
  BY DEF HandleAck
<1>3. /\ expected' = expected /\ acks' = acks /\ parsing' = parsing /\ base' = base
      /\ received' = received /\ orderedReadIndex' = orderedReadIndex /\ heap' = heap
      /\ heapOffset' = heapOffset
      /\ output' = output /\ taken' = taken
  BY DEF HandleAck, receiveVars, orderVars, channelEnd
<1>4. acked \subseteq Members(ranges)
  BY DEF AckedBy, Members
<1>5. \A x \in Members(ranges) : x \in DatagramNumber /\ Held(x) \subseteq received
  BY <1>1 DEF Members, AckWireTrue
<1>6. \A x : Carried(x) \subseteq Held(x)
  BY DEF Carried, Known, Held
<1> HIDE DEF acked
<1>7. \A j \in resendBuffer : j \notin resendBuffer' => j \in received
  <2> SUFFICES ASSUME NEW j \in resendBuffer, j \notin resendBuffer'
               PROVE  j \in received
    OBVIOUS
  <2>1. PICK x \in acked : \E i \in Carried(x) : j \in RemovedBy(i)
    BY <1>2
  <2>2. PICK i \in Carried(x) : j \in RemovedBy(i)
    BY <2>1
  <2>3. x \in DatagramNumber /\ i \in Held(x) /\ i \in received
    BY <1>4, <1>5, <1>6
  <2>4. j = i
    BY <2>2, <2>3, RemovesItself
  <2> QED BY <2>3, <2>4
<1>8. /\ Len(history) \in Nat /\ DOMAIN history = 1..Len(history)
      /\ \A k \in 1..Len(history) : history[k] \in SUBSET (1..sent)
  BY <1>1, TypeFacts, ElementOfSeq DEF ReliabilityTypeOK
<1>9. /\ \A k \in 1..Len(history) : history'[k] \subseteq history[k]
      /\ DOMAIN history' = 1..Len(history)
      /\ history' \in Seq(SUBSET (1..sent)) /\ Len(history)' = Len(history)
  <2>1. DOMAIN history' = 1..Len(history)
    BY <1>2, <1>8
  <2>2. ASSUME NEW k \in 1..Len(history)
        PROVE  history'[k] \subseteq history[k] /\ history'[k] \in SUBSET (1..sent)
    BY <1>2, <1>8
  <2>3. history' = [k \in 1..Len(history) |-> history'[k]]
    BY <1>2, <1>8, <2>1
  <2>4. [k \in 1..Len(history) |-> history'[k]] \in Seq(SUBSET (1..sent))
    BY <1>8, <2>2, IsASeq
  <2>5. history' \in Seq(SUBSET (1..sent))
    BY <2>3, <2>4
  <2>6. Len(history') \in Nat /\ 1..Len(history') = 1..Len(history)
    BY <2>1, <2>5, LenProperties
  <2>7. Len(history') = Len(history)
    BY <1>8, <2>6
  <2> QED BY <2>1, <2>2, <2>5, <2>7
<1>10. \A x \in DatagramNumber : Held(x)' \subseteq Held(x)
  <2> SUFFICES ASSUME NEW x \in DatagramNumber PROVE Held(x)' \subseteq Held(x)
    OBVIOUS
  <2>1. Offset(x) \in Nat
    <3>1. x \in Int /\ popCount \in Int
      BY <1>1, TypeFacts, ModulusAssumption DEF DatagramNumber
    <3>2. x - popCount \in Int
      BY <3>1
    <3> QED BY <3>2, WrapType DEF Offset
  <2>2. Held(x)' = IF Offset(x) < Len(history) THEN history'[Offset(x) + 1] ELSE {}
    BY <1>2, <1>9 DEF Held, Offset
  <2>3. CASE Offset(x) < Len(history)
    <3>1. Offset(x) + 1 \in 1..Len(history)
      BY <1>8, <2>1, <2>3
    <3> QED BY <1>9, <2>2, <2>3, <3>1 DEF Held
  <2>4. CASE ~(Offset(x) < Len(history))
    BY <2>2, <2>4
  <2> QED BY <2>3, <2>4
<1>11. ReliabilityTypeOK'
  BY <1>1, <1>2, <1>3, <1>9 DEF ReliabilityTypeOK
<1>12. WellFormed(acks)' /\ NoGapBelowBase' /\ ParsingRecent'
  BY <1>1, <1>2, <1>3 DEF NoGapBelowBase, ParsingRecent
<1>13. Window' /\ NoLoss'
  BY <1>1, <1>2, <1>3, <1>7 DEF Window, NoLoss
<1>14. HistoryAligned' /\ HistoryBounded'
  BY <1>1, <1>2, <1>9 DEF HistoryAligned, HistoryBounded
<1>15. HistoryRecent'
  BY <1>1, <1>2, <1>8, <1>9 DEF HistoryRecent
<1>16. WireTrue'
  <2>1. \A d \in wire : d.number \in DatagramNumber
    BY <1>1 DEF ReliabilityTypeOK
  <2> QED BY <1>1, <1>2, <1>10, <2>1 DEF WireTrue
<1>17. AcksTrue' /\ AckWireTrue'
  <2>1. AcksTrue'
    BY <1>1, <1>3, <1>10 DEF AcksTrue, Members
  <2>2. AckWireTrue'
    BY <1>1, <1>2, <1>3, <1>10 DEF AckWireTrue, Members
  <2> QED BY <2>1, <2>2
<1> QED
  BY <1>11, <1>12, <1>13, <1>14, <1>15, <1>16, <1>17 DEF LinkInv

\* A datagram comes in, and its number is to be acknowledged: what it holds is
\* parsed before anything else happens.
LEMMA HandleDatagramKeeps ==
  ASSUME LinkInv, parsing = {}, NEW d \in wire, HandleDatagram(d)
  PROVE  LinkInv'
<1>1. /\ ReliabilityTypeOK /\ WellFormed(acks) /\ NoGapBelowBase /\ Window /\ NoLoss
      /\ HistoryAligned /\ HistoryBounded /\ HistoryRecent /\ WireTrue
      /\ ParsingRecent /\ AcksTrue /\ AckWireTrue
  BY DEF LinkInv
<1>2. /\ pushed' = pushed /\ orderedWriteIndex' = orderedWriteIndex /\ sent' = sent
      /\ resendBuffer' = resendBuffer /\ nextDatagram' = nextDatagram /\ history' = history
      /\ popCount' = popCount /\ dead' = dead /\ base' = base /\ received' = received
      /\ orderedReadIndex' = orderedReadIndex /\ heap' = heap
      /\ heapOffset' = heapOffset /\ output' = output
      /\ taken' = taken /\ wire' = wire /\ ackWire' = ackWire
  BY DEF HandleDatagram, sendVars, orderVars, channelEnd
<1>3. d.number \in DatagramNumber /\ d.messages \subseteq 1..sent
  BY <1>1 DEF ReliabilityTypeOK
<1>4. \A x : Held(x)' = Held(x)
  BY <1>2 DEF Held, Offset
<1>5. expected' \in DatagramNumber
  <2>1. CASE expected' = expected
    BY <1>1, <2>1 DEF ReliabilityTypeOK
  <2>2. CASE expected' = Wrap(d.number + 1)
    <3>1. d.number + 1 \in Int
      BY <1>3, ModulusAssumption DEF DatagramNumber
    <3> QED BY <2>2, <3>1, WrapType
  <2> QED BY <2>1, <2>2 DEF HandleDatagram
<1>6. /\ WellFormed(acks') /\ parsing' \subseteq 1..sent
      /\ \A i \in parsing' : sent - i < HalfRange
      /\ \A x \in Members(acks') : Held(x) \subseteq received \cup parsing'
  <2>1. CASE acks' = acks /\ parsing' = parsing
    BY <1>1, <2>1 DEF ReliabilityTypeOK, ParsingRecent, AcksTrue
  <2>2. CASE acks' = InsertRange(acks, d.number) /\ parsing' = d.messages
    <3>1. WellFormed(acks') /\ Members(acks') = Members(acks) \cup {d.number}
      BY <1>1, <1>3, <2>2, InsertAddsOne
    <3>2. Held(d.number) \subseteq parsing' /\ \A i \in parsing' : sent - i < HalfRange
      BY <1>1, <2>2 DEF WireTrue
    <3>3. \A x \in Members(acks) : Held(x) \subseteq received
      BY <1>1 DEF AcksTrue
    <3> QED BY <1>3, <2>2, <3>1, <3>2, <3>3
  <2> QED BY <2>1, <2>2 DEF HandleDatagram
<1>7. ReliabilityTypeOK'
  <2>1. acks' \in Seq(RangeNode)
    BY <1>6 DEF WellFormed
  <2> QED BY <1>1, <1>2, <1>5, <1>6, <2>1 DEF ReliabilityTypeOK
<1>8. WellFormed(acks)' /\ NoGapBelowBase' /\ Window' /\ NoLoss' /\ HistoryAligned'
  BY <1>1, <1>2, <1>6 DEF NoGapBelowBase, Window, NoLoss, HistoryAligned
<1>9. HistoryBounded' /\ HistoryRecent' /\ WireTrue' /\ ParsingRecent'
  BY <1>1, <1>2, <1>4, <1>6 DEF HistoryBounded, HistoryRecent, WireTrue, ParsingRecent
<1>10. AcksTrue' /\ AckWireTrue'
  BY <1>1, <1>2, <1>4, <1>6 DEF AcksTrue, AckWireTrue
<1> QED
  BY <1>7, <1>8, <1>9, <1>10 DEF LinkInv

LEMMA SendACKsKeeps ==
  ASSUME LinkInv, parsing = {}, SendACKs
  PROVE  LinkInv'
<1>1. /\ ReliabilityTypeOK /\ WellFormed(acks) /\ NoGapBelowBase /\ Window /\ NoLoss
      /\ HistoryAligned /\ HistoryBounded /\ HistoryRecent /\ WireTrue
      /\ ParsingRecent /\ AcksTrue /\ AckWireTrue
  BY DEF LinkInv
<1>2. /\ pushed' = pushed /\ orderedWriteIndex' = orderedWriteIndex /\ sent' = sent
      /\ resendBuffer' = resendBuffer /\ nextDatagram' = nextDatagram /\ history' = history
      /\ popCount' = popCount /\ dead' = dead /\ base' = base /\ received' = received
      /\ orderedReadIndex' = orderedReadIndex /\ heap' = heap
      /\ heapOffset' = heapOffset /\ output' = output
      /\ taken' = taken /\ wire' = wire /\ expected' = expected /\ parsing' = parsing
  BY DEF SendACKs, sendVars, orderVars, channelEnd
<1>3. acks' = << >> /\ ackWire' \subseteq ackWire \cup {acks}
  BY DEF SendACKs
<1>4. \A x : Held(x)' = Held(x)
  BY <1>2 DEF Held, Offset
<1>5. WellFormed(acks') /\ Members(acks') = {}
  BY <1>3 DEF WellFormed, Members
<1>6. ReliabilityTypeOK'
  <2>1. acks' \in Seq(RangeNode) /\ ackWire' \subseteq Seq(RangeNode)
    BY <1>1, <1>3 DEF ReliabilityTypeOK
  <2> QED BY <1>1, <1>2, <2>1 DEF ReliabilityTypeOK
<1>7. WellFormed(acks)' /\ NoGapBelowBase' /\ Window' /\ NoLoss' /\ HistoryAligned'
  BY <1>1, <1>2, <1>5 DEF NoGapBelowBase, Window, NoLoss, HistoryAligned
<1>8. HistoryBounded' /\ HistoryRecent' /\ WireTrue' /\ ParsingRecent'
  BY <1>1, <1>2, <1>4 DEF HistoryBounded, HistoryRecent, WireTrue, ParsingRecent
<1>9. AcksTrue'
  BY <1>5 DEF AcksTrue
<1>10. AckWireTrue'
  <2>1. \A x \in Members(acks) : Held(x) \subseteq received
    BY <1>1 DEF AcksTrue
  <2> QED BY <1>1, <1>2, <1>3, <1>4, <2>1 DEF AckWireTrue
<1> QED
  BY <1>6, <1>7, <1>8, <1>9, <1>10 DEF LinkInv

\* What the ordering channel does with a message it accepts leaves the types
\* alone.
LEMMA OrderingTypes ==
  ASSUME LinkInv, NEW i \in parsing, received \subseteq received',
         i \in received', Unordered(i) \/ Ordered(i)
  PROVE  /\ output' \in Seq(1..sent) /\ Len(output) <= Len(output')
         /\ heap' \subseteq [index: DatagramNumber, message: received']
         /\ heapOffset' \in DatagramNumber /\ orderedReadIndex' \in Nat
<1>1. /\ output \in Seq(1..sent) /\ heap \subseteq [index: DatagramNumber, message: received]
      /\ received \subseteq 1..sent /\ heapOffset \in DatagramNumber
      /\ orderedReadIndex \in Nat /\ i \in 1..sent /\ sent \in Nat
      /\ pushed \in Seq([ordered: BOOLEAN, index: Nat]) /\ sent \in 0..Len(pushed)
  BY TypeFacts DEF LinkInv, ReliabilityTypeOK
<1>2. Len(output) \in Nat /\ Len(pushed) \in Nat /\ i \in 1..Len(pushed)
  BY <1>1, LenProperties
<1>3. CASE Unordered(i)
  <2>1. /\ output' = Append(output, i) /\ heap' = heap /\ heapOffset' = heapOffset
        /\ orderedReadIndex' = orderedReadIndex
    BY <1>3 DEF Unordered
  <2>2. heap' \subseteq [index: DatagramNumber, message: received']
    BY <1>1, <2>1
  <2> QED BY <1>1, <1>2, <2>1, <2>2, AppendProperties
<1>4. CASE Early(i, OrderingIndex(i))
  <2>1. OrderingIndex(i) \in DatagramNumber
    <3>1. pushed[i] \in [ordered: BOOLEAN, index: Nat]
      BY <1>1, <1>2, ElementOfSeq
    <3>2. pushed[i].index \in Int
      BY <3>1
    <3> QED BY <3>2, WrapType DEF OrderingIndex
  <2>2. /\ output' = output /\ orderedReadIndex' = orderedReadIndex
        /\ heap' \subseteq heap \cup {[index |-> OrderingIndex(i), message |-> i]}
        /\ heapOffset' \in {heapOffset, Wrap(orderedReadIndex)}
    BY <1>4 DEF Early
  <2>3. Wrap(orderedReadIndex) \in DatagramNumber
    BY <1>1, WrapType
  <2>4. heap' \subseteq [index: DatagramNumber, message: received']
    <3> DEFINE e == [index |-> OrderingIndex(i), message |-> i]
    <3>1. e \in [index: DatagramNumber, message: received']
      BY <2>1
    <3>2. heap \subseteq [index: DatagramNumber, message: received']
      BY <1>1
    <3>3. heap' \subseteq heap \cup {e}
      BY <2>2
    <3> HIDE DEF e
    <3> QED BY <3>1, <3>2, <3>3
  <2>5. heapOffset' \in DatagramNumber
    BY <1>1, <2>2, <2>3
  <2> QED BY <1>1, <1>2, <2>2, <2>4, <2>5
<1>5. CASE InOrder(i, OrderingIndex(i))
  <2>2. PICK n \in 0..Cardinality(heap) :
          /\ \A k \in 0..(n - 1) : Due(k) # {}
          /\ output' = output \o [k \in 1..(n + 1) |->
               IF k = 1 THEN i ELSE Pick(orderedReadIndex + k - 1).message]
          /\ heap' = Left(n)
          /\ orderedReadIndex' = orderedReadIndex + n + 1
          /\ heapOffset' = heapOffset
    BY <1>5 DEF InOrder
  <2>3. n \in Nat
    OBVIOUS
  <2> DEFINE f == [k \in 1..(n + 1) |->
               IF k = 1 THEN i ELSE Pick(orderedReadIndex + k - 1).message]
  <2>4. ASSUME NEW k \in 1..(n + 1), k # 1
        PROVE  Pick(orderedReadIndex + k - 1).message \in received
    <3>1. /\ k - 2 \in 0..(n - 1) /\ orderedReadIndex + (k - 2) + 1 = orderedReadIndex + k - 1
      BY <1>1, <2>3, <2>4
    <3>2. Due(k - 2) # {}
      BY <2>2, <3>1
    <3>3. Waiting(orderedReadIndex + k - 1) # {}
      BY <3>1, <3>2 DEF Due, Top, Left, Waiting
    <3>4. Pick(orderedReadIndex + k - 1) \in Waiting(orderedReadIndex + k - 1)
      BY <3>3 DEF Pick
    <3>5. Pick(orderedReadIndex + k - 1) \in heap
      BY <3>4 DEF Waiting
    <3> QED BY <1>1, <3>5
  <2>5. f \in Seq(1..sent) /\ Len(f) = n + 1
    <3>1. \A k \in 1..(n + 1) : (IF k = 1 THEN i ELSE Pick(orderedReadIndex + k - 1).message) \in 1..sent
      BY <1>1, <2>4
    <3>2. f \in Seq(1..sent)
      BY <2>3, <3>1, IsASeq
    <3>3. Len(f) \in Nat /\ 1..Len(f) = 1..(n + 1)
      BY <3>2, LenProperties
    <3>4. Len(f) = n + 1
      BY <2>3, <3>3
    <3> QED BY <3>2, <3>4
  <2>6. output' = output \o f
    BY <2>2
  <2> HIDE DEF f
  <2> DEFINE T == 1..sent
  <2>7. output \in Seq(T) /\ f \in Seq(T)
    BY <1>1, <2>5
  <2>8. output' \in Seq(T) /\ Len(output') = Len(output) + Len(f)
    <3> HIDE DEF T
    <3> QED BY <2>6, <2>7, ConcatProperties
  <2>9. Len(output) <= Len(output')
    BY <1>2, <2>3, <2>5, <2>8
  <2>10. heap' \subseteq [index: DatagramNumber, message: received']
    <3>1. heap' \subseteq heap
      BY <2>2 DEF Left
    <3> QED BY <1>1, <3>1
  <2>11. orderedReadIndex' \in Nat
    BY <1>1, <2>2, <2>3
  <2>12. heapOffset' \in DatagramNumber
    BY <1>1, <2>2
  <2>13. output' \in Seq(1..sent)
    BY <2>8
  <2> QED BY <2>9, <2>10, <2>11, <2>12, <2>13
<1> QED
  BY <1>3, <1>4, <1>5 DEF Ordered

LEMMA ParseMessageKeeps ==
  ASSUME LinkInv, NEW i \in parsing, ParseMessage(i)
  PROVE  LinkInv'
<1>1. /\ ReliabilityTypeOK /\ WellFormed(acks) /\ NoGapBelowBase /\ Window /\ NoLoss
      /\ HistoryAligned /\ HistoryBounded /\ HistoryRecent /\ WireTrue
      /\ ParsingRecent /\ AcksTrue /\ AckWireTrue
  BY DEF LinkInv
<1>2. /\ pushed' = pushed /\ orderedWriteIndex' = orderedWriteIndex /\ sent' = sent
      /\ resendBuffer' = resendBuffer /\ nextDatagram' = nextDatagram /\ history' = history
      /\ popCount' = popCount /\ dead' = dead /\ expected' = expected /\ acks' = acks
      /\ taken' = taken /\ wire' = wire /\ ackWire' = ackWire /\ parsing' = parsing \ {i}
  BY DEF ParseMessage, sendVars
<1>3. Accepts(i) <=> i \notin received
  BY HoleCountIs
<1>4. i \in 1..sent /\ sent \in Nat /\ base \in Nat /\ 1 <= base /\ base <= sent + 1
      /\ Len(pushed) \in Nat
  BY <1>1, TypeFacts DEF ReliabilityTypeOK
<1>5. /\ received' = received \cup {i} /\ NoGapBelowBase' /\ base' \in 1..(sent + 1)
      /\ output' \in Seq(1..sent) /\ Len(output) <= Len(output')
      /\ heap' \subseteq [index: DatagramNumber, message: received']
      /\ heapOffset' \in DatagramNumber /\ orderedReadIndex' \in Nat
  <2>1. CASE Ignore(i)
    <3>1. i \in received
      BY <1>3, <2>1 DEF Ignore
    <3>2. /\ base' = base /\ received' = received /\ orderedReadIndex' = orderedReadIndex
          /\ heap' = heap /\ heapOffset' = heapOffset /\ output' = output
      BY <2>1 DEF Ignore, orderVars, channelEnd
    <3>3. received' = received \cup {i}
      BY <3>1, <3>2
    <3>4. Len(output) <= Len(output')
      BY <1>1, <3>2, TypeFacts
    <3> QED BY <1>1, <3>2, <3>3, <3>4 DEF NoGapBelowBase, ReliabilityTypeOK
  <2>2. CASE Unordered(i) \/ Ordered(i)
    <3>1. Accepts(i) /\ MarkReceived(i)
      BY <2>2 DEF Unordered, Ordered
    <3>2. base + HoleCount(i) = i
      BY <3>1, HoleCountIs
    <3>3. received' = received \cup {i}
      BY <3>1, <3>2 DEF MarkReceived
    <3>4. PICK b \in base..(Len(pushed) + 1) :
            base' = b /\ b \notin received' /\ \A x \in base..(b - 1) : x \in received'
      BY <3>1 DEF MarkReceived
    <3>5. b \in Nat /\ base <= b
      BY <1>4
    <3>6. \A x \in 1..(b - 1) : x \in received'
      <4>1. \A x \in 1..(base - 1) : x \in received
        BY <1>1 DEF NoGapBelowBase
      <4>2. \A x \in 1..(b - 1) : x \in 1..(base - 1) \/ x \in base..(b - 1)
        BY <1>4, <3>5
      <4> QED BY <3>3, <3>4, <4>1, <4>2
    <3>7. b \in 1..(sent + 1)
      <4>1. CASE b = base
        BY <1>4, <4>1
      <4>2. CASE b # base
        <5>1. b - 1 \in base..(b - 1)
          BY <1>4, <3>5, <4>2
        <5>2. b - 1 \in received'
          BY <3>4, <5>1
        <5>3. received \subseteq 1..sent
          BY <1>1 DEF ReliabilityTypeOK
        <5>4. b - 1 \in 1..sent
          BY <1>4, <3>3, <5>2, <5>3
        <5> QED BY <1>4, <3>5, <5>4
      <4> QED BY <4>1, <4>2
    <3>8. NoGapBelowBase'
      BY <3>4, <3>6 DEF NoGapBelowBase
    <3>9. /\ output' \in Seq(1..sent) /\ Len(output) <= Len(output')
          /\ heap' \subseteq [index: DatagramNumber, message: received']
      /\ heapOffset' \in DatagramNumber /\ orderedReadIndex' \in Nat
      BY <2>2, <3>3, OrderingTypes
    <3> QED BY <3>3, <3>4, <3>7, <3>8, <3>9
  <2> QED BY <2>1, <2>2 DEF ParseMessage
<1>6. \A x : Held(x)' = Held(x)
  BY <1>2 DEF Held, Offset
<1>7. ReliabilityTypeOK'
  <2>1. taken \in 0..Len(output')
    <3>1. Len(output) \in Nat /\ Len(output') \in Nat /\ taken \in 0..Len(output)
      BY <1>1, <1>5, LenProperties DEF ReliabilityTypeOK
    <3> QED BY <1>5, <3>1
  <2>2. received' \subseteq 1..sent /\ parsing' \subseteq 1..sent
    BY <1>1, <1>2, <1>4, <1>5 DEF ReliabilityTypeOK
  <2> QED BY <1>1, <1>2, <1>5, <2>1, <2>2 DEF ReliabilityTypeOK
<1>8. WellFormed(acks)' /\ Window' /\ NoLoss' /\ HistoryAligned'
  BY <1>1, <1>2, <1>5 DEF Window, NoLoss, HistoryAligned
<1>9. HistoryBounded' /\ HistoryRecent' /\ WireTrue' /\ ParsingRecent'
  BY <1>1, <1>2, <1>6 DEF HistoryBounded, HistoryRecent, WireTrue, ParsingRecent
<1>10. AcksTrue' /\ AckWireTrue'
  <2>1. AcksTrue'
    BY <1>1, <1>2, <1>5, <1>6 DEF AcksTrue
  <2>2. AckWireTrue'
    BY <1>1, <1>2, <1>5, <1>6 DEF AckWireTrue
  <2> QED BY <2>1, <2>2
<1> QED
  BY <1>5, <1>7, <1>8, <1>9, <1>10 DEF LinkInv

\* The steps that neither number nor acknowledge anything.
LEMMA SendKeeps ==
  ASSUME LinkInv, Send
  PROVE  LinkInv'
<1>1. /\ ReliabilityTypeOK /\ WellFormed(acks) /\ NoGapBelowBase /\ Window /\ NoLoss
      /\ HistoryAligned /\ HistoryBounded /\ HistoryRecent /\ WireTrue
      /\ ParsingRecent /\ AcksTrue /\ AckWireTrue
  BY DEF LinkInv
<1>2. /\ sent' = sent
      /\ resendBuffer' = resendBuffer /\ nextDatagram' = nextDatagram /\ history' = history
      /\ popCount' = popCount /\ dead' = dead /\ base' = base /\ received' = received
      /\ orderedReadIndex' = orderedReadIndex /\ heap' = heap
      /\ heapOffset' = heapOffset /\ output' = output
      /\ taken' = taken /\ wire' = wire /\ expected' = expected /\ parsing' = parsing
      /\ acks' = acks /\ ackWire' = ackWire
  BY DEF Send, receiveVars, orderVars, channelEnd
<1>3. /\ pushed' \in Seq([ordered: BOOLEAN, index: Nat]) /\ Len(pushed') = Len(pushed) + 1
      /\ orderedWriteIndex' \in Nat
  <2>1. PICK o \in Kinds :
          /\ pushed' = Append(pushed, [ordered |-> o, index |-> orderedWriteIndex])
          /\ orderedWriteIndex' = orderedWriteIndex + IF o THEN 1 ELSE 0
    BY DEF Send
  <2>2. o \in BOOLEAN
    BY ReliabilityAssumption
  <2>3. /\ pushed \in Seq([ordered: BOOLEAN, index: Nat]) /\ orderedWriteIndex \in Nat
    BY <1>1 DEF ReliabilityTypeOK
  <2> DEFINE T == [ordered: BOOLEAN, index: Nat]
             m == [ordered |-> o, index |-> orderedWriteIndex]
  <2>4. m \in T
    BY <2>2, <2>3
  <2>5. pushed' = Append(pushed, m) /\ pushed \in Seq(T)
    BY <2>1, <2>3
  <2> HIDE DEF T, m
  <2>6. pushed' \in Seq(T) /\ Len(pushed') = Len(pushed) + 1
    BY <2>4, <2>5, AppendProperties
  <2>7. orderedWriteIndex' \in Nat
    BY <2>1, <2>2, <2>3
  <2> QED BY <2>6, <2>7 DEF T
<1>4. \A x : Held(x)' = Held(x)
  BY <1>2 DEF Held, Offset
<1>5. ReliabilityTypeOK'
  <2>1. sent \in 0..Len(pushed')
    BY <1>1, <1>3, TypeFacts
  <2> QED BY <1>1, <1>2, <1>3, <2>1 DEF ReliabilityTypeOK
<1>6. WellFormed(acks)' /\ NoGapBelowBase' /\ Window' /\ NoLoss' /\ HistoryAligned'
  BY <1>1, <1>2 DEF NoGapBelowBase, Window, NoLoss, HistoryAligned
<1>7. HistoryBounded' /\ HistoryRecent' /\ WireTrue' /\ ParsingRecent' /\ AcksTrue' /\ AckWireTrue'
  BY <1>1, <1>2, <1>4
  DEF HistoryBounded, HistoryRecent, WireTrue, ParsingRecent, AcksTrue, AckWireTrue
<1> QED
  BY <1>5, <1>6, <1>7 DEF LinkInv

LEMMA AsideKeeps ==
  ASSUME LinkInv, AckTimeout \/ Receive \/ UNCHANGED reliabilityVars
  PROVE  LinkInv'
<1>1. /\ ReliabilityTypeOK /\ WellFormed(acks) /\ NoGapBelowBase /\ Window /\ NoLoss
      /\ HistoryAligned /\ HistoryBounded /\ HistoryRecent /\ WireTrue
      /\ ParsingRecent /\ AcksTrue /\ AckWireTrue
  BY DEF LinkInv
<1>2. /\ pushed' = pushed /\ orderedWriteIndex' = orderedWriteIndex /\ sent' = sent
      /\ resendBuffer' = resendBuffer /\ nextDatagram' = nextDatagram /\ history' = history
      /\ popCount' = popCount /\ base' = base /\ received' = received
      /\ orderedReadIndex' = orderedReadIndex /\ heap' = heap
      /\ heapOffset' = heapOffset /\ output' = output
      /\ wire' = wire /\ expected' = expected /\ parsing' = parsing
      /\ acks' = acks /\ ackWire' = ackWire
  BY DEF AckTimeout, Receive, reliabilityVars, sendVars, receiveVars, orderVars, channelEnd
<1>3. dead' \in BOOLEAN /\ taken' \in 0..Len(output)
  <2>1. dead \in BOOLEAN /\ taken \in 0..Len(output) /\ Len(output) \in Nat
    BY <1>1, TypeFacts DEF ReliabilityTypeOK
  <2>2. CASE AckTimeout
    BY <2>1, <2>2 DEF AckTimeout, receiveVars
  <2>3. CASE Receive
    BY <2>1, <2>3 DEF Receive, sendVars
  <2>4. CASE UNCHANGED reliabilityVars
    BY <2>1, <2>4 DEF reliabilityVars, sendVars, receiveVars
  <2> QED BY <2>2, <2>3, <2>4
<1>4. \A x : Held(x)' = Held(x)
  BY <1>2 DEF Held, Offset
<1>5. ReliabilityTypeOK'
  BY <1>1, <1>2, <1>3 DEF ReliabilityTypeOK
<1>6. WellFormed(acks)' /\ NoGapBelowBase' /\ Window' /\ NoLoss' /\ HistoryAligned'
  BY <1>1, <1>2 DEF NoGapBelowBase, Window, NoLoss, HistoryAligned
<1>7. HistoryBounded' /\ HistoryRecent' /\ WireTrue' /\ ParsingRecent' /\ AcksTrue' /\ AckWireTrue'
  BY <1>1, <1>2, <1>4
  DEF HistoryBounded, HistoryRecent, WireTrue, ParsingRecent, AcksTrue, AckWireTrue
<1> QED
  BY <1>5, <1>6, <1>7 DEF LinkInv

LEMMA InitKeeps ==
  ASSUME ReliabilityInit
  PROVE  LinkInv
<1>1. /\ pushed = << >> /\ orderedWriteIndex = OldMessages /\ sent = 0 /\ resendBuffer = {}
      /\ nextDatagram = Wrap(OldDatagrams)
      /\ history = [k \in 1..IdleNodes |-> {}]
      /\ popCount = Wrap(OldDatagrams - IdleNodes) /\ dead = FALSE
      /\ expected = Wrap(OldDatagrams) /\ acks = << >> /\ parsing = {}
      /\ base = 1 /\ received = {} /\ orderedReadIndex = OldMessages /\ heap = {} /\ heapOffset = 0
      /\ output = << >>
      /\ taken = 0 /\ wire = {} /\ ackWire = {}
  BY DEF ReliabilityInit
<1>2. /\ OldDatagrams \in Nat /\ DATAGRAM_MESSAGE_ID_ARRAY_LENGTH \in Nat
  BY SizeFacts
<1>3. IdleNodes \in Nat /\ IdleNodes <= DATAGRAM_MESSAGE_ID_ARRAY_LENGTH + 1
  BY <1>2 DEF IdleNodes
<1>4. /\ history \in Seq(SUBSET (1..sent)) /\ Len(history) = IdleNodes
      /\ \A k \in DOMAIN history : history[k] = {}
  <2> DEFINE T == SUBSET (1..sent)
             f == [k \in 1..IdleNodes |-> {}]
  <2>1. \A k \in 1..IdleNodes : {} \in T
    OBVIOUS
  <2>2. f \in Seq(T)
    <3> HIDE DEF T
    <3> QED BY <1>3, <2>1, IsASeq
  <2>3. Len(f) \in Nat /\ 1..Len(f) = 1..IdleNodes
    <3> HIDE DEF T
    <3> QED BY <2>2, LenProperties
  <2>4. Len(f) = IdleNodes
    BY <1>3, <2>3
  <2> QED BY <1>1, <2>2, <2>4
<1>5. nextDatagram \in DatagramNumber /\ popCount \in DatagramNumber /\ expected \in DatagramNumber
  <2>1. OldDatagrams - IdleNodes \in Int /\ OldDatagrams \in Int
    BY <1>2, <1>3
  <2> QED BY <1>1, <2>1, WrapType
<1>6. ReliabilityTypeOK
  <2>1. sent \in 0..Len(pushed) /\ base \in 1..(sent + 1) /\ taken \in 0..Len(output)
    BY <1>1
  <2>2. /\ pushed \in Seq([ordered: BOOLEAN, index: Nat]) /\ acks \in Seq(RangeNode)
        /\ output \in Seq(1..sent)
    BY <1>1
  <2>3. 0 \in DatagramNumber /\ OldMessages \in Nat
    BY ModulusFacts, SizeFacts DEF DatagramNumber
  <2> QED BY <1>1, <1>4, <1>5, <2>1, <2>2, <2>3 DEF ReliabilityTypeOK
<1>7. WellFormed(acks) /\ Members(acks) = {}
  BY <1>1 DEF WellFormed, Members
<1>8. NoGapBelowBase /\ Window /\ NoLoss /\ WireTrue /\ ParsingRecent /\ AckWireTrue
  BY <1>1 DEF NoGapBelowBase, Window, NoLoss, WireTrue, ParsingRecent, AckWireTrue
<1>9. HistoryAligned
  <2>1. OldDatagrams - IdleNodes \in Int /\ (OldDatagrams - IdleNodes) + IdleNodes = OldDatagrams
    BY <1>2, <1>3
  <2>2. Wrap(Wrap(OldDatagrams - IdleNodes) + IdleNodes) = Wrap((OldDatagrams - IdleNodes) + IdleNodes)
    BY <1>3, <2>1, WrapSum
  <2> QED BY <1>1, <1>4, <2>1, <2>2 DEF HistoryAligned
<1>10. HistoryBounded /\ HistoryRecent /\ AcksTrue
  BY <1>3, <1>4, <1>7 DEF HistoryBounded, HistoryRecent, AcksTrue
<1> QED
  BY <1>6, <1>7, <1>8, <1>9, <1>10 DEF LinkInv

LEMMA StepKeeps ==
  ASSUME LinkInv, [ReliabilityNext]_reliabilityVars
  PROVE  LinkInv'
<1>1. CASE UNCHANGED reliabilityVars
  BY <1>1, AsideKeeps
<1>2. CASE BetweenDatagrams
  <2>1. parsing = {}
    BY <1>2 DEF BetweenDatagrams
  <2>2. CASE Send
    BY <2>2, SendKeeps
  <2>3. CASE Transmit
    BY <2>1, <2>3, TransmitKeeps
  <2>4. CASE AckTimeout \/ Receive
    BY <2>4, AsideKeeps
  <2>5. CASE SendACKs
    BY <2>1, <2>5, SendACKsKeeps
  <2>6. CASE \E S \in SUBSET resendBuffer : Resend(S)
    BY <2>1, <2>6, ResendKeeps
  <2>7. CASE \E ranges \in ackWire : HandleAck(ranges)
    BY <2>7, HandleAckKeeps
  <2>8. CASE \E d \in wire : HandleDatagram(d)
    BY <2>1, <2>8, HandleDatagramKeeps
  <2> QED BY <1>2, <2>2, <2>3, <2>4, <2>5, <2>6, <2>7, <2>8 DEF BetweenDatagrams
<1>3. CASE \E i \in parsing : ParseMessage(i)
  BY <1>3, ParseMessageKeeps
<1> QED
  BY <1>1, <1>2, <1>3 DEF ReliabilityNext

\* The invariant holds for every modulus, every size of the buffers and every
\* number of messages: what the loss, delay and repetition of datagrams and
\* acknowledgements can do is in it.
THEOREM LinkCorrect == ReliabilitySpec => []LinkInv
<1>1. ReliabilityInit => LinkInv
  BY InitKeeps
<1>2. LinkInv /\ [ReliabilityNext]_reliabilityVars => LinkInv'
  BY StepKeeps
<1> QED
  BY <1>1, <1>2, PTL DEF ReliabilitySpec

\* Every variable of the reliability layer keeps its type.
THEOREM ReliabilityTypeCorrect == ReliabilitySpec => []ReliabilityTypeOK
<1>1. LinkInv => ReliabilityTypeOK
  BY DEF LinkInv
<1> QED
  BY <1>1, LinkCorrect, PTL

\* A message leaves the resend buffer only when the receiver has it.
THEOREM NothingLost == ReliabilitySpec => []NoLoss
<1>1. LinkInv => NoLoss
  BY DEF LinkInv
<1> QED
  BY <1>1, LinkCorrect, PTL

\* The assertion on the slots of the resend buffer never fails.
THEOREM SlotsNeverClash == ReliabilitySpec => []OneToASlot
<1>1. ASSUME LinkInv PROVE OneToASlot
  <2> SUFFICES ASSUME NEW i \in resendBuffer, NEW j \in resendBuffer, Slot(i) = Slot(j)
               PROVE  i = j
    BY DEF OneToASlot
  <2>1. /\ i \in 1..sent /\ sent - i < RESEND_BUFFER_ARRAY_LENGTH
        /\ j \in 1..sent /\ sent - j < RESEND_BUFFER_ARRAY_LENGTH /\ sent \in Nat
    BY <1>1, TypeFacts DEF LinkInv, ReliabilityTypeOK, Window
  <2>2. /\ i \in Int /\ j \in Int
        /\ i - j < RESEND_BUFFER_ARRAY_LENGTH /\ j - i < RESEND_BUFFER_ARRAY_LENGTH
    BY <2>1, ModulusFacts
  <2> QED BY <2>2, SlotsDiffer
<1> QED
  BY <1>1, LinkCorrect, PTL

\* The assertion that is commented out in AddFirstToDatagramHistory would
\* never fail.
THEOREM HistoryStaysAligned == ReliabilitySpec => []HistoryAligned
<1>1. LinkInv => HistoryAligned
  BY DEF LinkInv
<1> QED
  BY <1>1, LinkCorrect, PTL

\* The receiver tells new from old without fail, however the numbers wrap.
THEOREM VerdictsRight == ReliabilitySpec => []HoleCountExact
<1>1. ASSUME LinkInv PROVE HoleCountExact
  BY <1>1, HoleCountIs DEF HoleCountExact
<1> QED
  BY <1>1, LinkCorrect, PTL
=============================================================================
