----------------------------- MODULE RangeList ------------------------------
(***************************************************************************)
(* DataStructures::RangeList: the list of number ranges in which a peer    *)
(* collects the datagrams it has to acknowledge.  A list is a sequence of  *)
(* records [min, max], sorted by min; numbers are uint24_t.                *)
(***************************************************************************)
EXTENDS Integers, SequencesExt

CONSTANT Modulus   \* how many numbers uint24_t has: 2^24

ASSUME ModulusAssumption == Modulus \in Nat \ {0}

\* uint24_t arithmetic wraps.
Wrap(x) == x % Modulus
DatagramNumber == 0..(Modulus - 1)
RangeNode == [min: DatagramNumber, max: DatagramNumber]

\* The numbers a list stands for.
Members(ranges) ==
  {x \in DatagramNumber :
     \E k \in DOMAIN ranges : ranges[k].min <= x /\ x <= ranges[k].max}

\* OrderedList::GetIndexFromKey, which compares the key with the minimum of
\* each range: the first range whose minimum is not below the key, or the
\* place after the last.
IndexFromKey(ranges, index) ==
  CHOOSE k \in 1..(Len(ranges) + 1) :
    /\ k <= Len(ranges) => index <= ranges[k].min
    /\ \A j \in 1..(k - 1) : ranges[j].min < index

\* RangeList::Insert.  A number above the minimum of one range and below
\* that of the next is compared with the next one only: it gets a range of
\* its own even where the first range holds it already or ends just before.
InsertRange(ranges, index) ==
  LET n   == Len(ranges)
      k   == IndexFromKey(ranges, index)
      one == [min |-> index, max |-> index]
  IN CASE n = 0 -> <<one>>
       [] n > 0 /\ k = n + 1 ->
            IF index = Wrap(ranges[n].max + 1)
            THEN [ranges EXCEPT ![n].max = index]
            ELSE IF index > Wrap(ranges[n].max + 1)
                 THEN Append(ranges, one)
                 ELSE ranges
       [] n > 0 /\ k <= n ->
            IF index < Wrap(ranges[k].min - 1)
            THEN InsertAt(ranges, k, one)
            ELSE IF index = Wrap(ranges[k].min - 1)
                 THEN IF k > 1 /\ Wrap(ranges[k - 1].max + 1) = index
                      THEN RemoveAt([ranges EXCEPT ![k - 1].max = ranges[k].max], k)
                      ELSE [ranges EXCEPT ![k].min = index]
                 ELSE ranges
=============================================================================
