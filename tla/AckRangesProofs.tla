--------------------------- MODULE AckRangesProofs ---------------------------
(***************************************************************************)
(* The theorems about AckRanges: for every list of numbers, in every order *)
(* and with any repetition, what the acknowledgement says is exact and the *)
(* completion checks are right.                                            *)
(***************************************************************************)
EXTENDS AckRanges, FiniteSetTheorems, TLAPS

LEMMA InitTyped == Init => TypeOK
<1> SUFFICES ASSUME Init PROVE TypeOK
  OBVIOUS
<1>1. list \in Seq(Nat \ {0}) /\ last \in Nat \ {0}
  BY ListsAssumption, LastNosAssumption DEF Init
<1>2. sorted \in Seq(Nat \ {0}) /\ ranges \in Seq(RangeType)
  BY DEF Init
<1>3. hash \in [DOMAIN hash -> Nat \ {0}] /\ DOMAIN hash \subseteq Nat \ {0}
  BY DEF Init
<1>4. acked \subseteq Nat \ {0} /\ count \in Nat
  BY DEF Init
<1>5. completed \in BOOLEAN /\ allAcked \in BOOLEAN
  BY Zenon DEF Init
<1>7. start \in Nat \ {0}
  BY DEF Init
<1>6. at \in Loops /\ i \in Nat \ {0} /\ max \in Nat /\ lower = 0 /\ upper = 0
  BY DEF Init, Loops
<1> QED
  BY <1>1, <1>2, <1>3, <1>4, <1>5, <1>6, <1>7 DEF TypeOK

LEMMA RangeInHandTyped ==
  ASSUME TypeOK, lower # 0
  PROVE  Append(ranges, RangeInHand) \in Seq(RangeType)
<1>1. RangeInHand \in RangeType
  BY DEF TypeOK, RangeType, RangeInHand
<1> QED
  BY <1>1 DEF TypeOK

LEMMA ReceiverTyped == TypeOK /\ Receiver => TypeOK'
<1> SUFFICES ASSUME TypeOK, Receiver PROVE TypeOK'
  OBVIOUS
<1> USE DEF TypeOK, Loops, inputs, sender, Round, End
<1>1. CASE FindMax
  BY <1>1 DEF FindMax
<1>2. CASE MaxFound
  BY <1>2 DEF MaxFound
<1>3. CASE Sort
  <2>1. Append(sorted, i) \in Seq(Nat \ {0})
    OBVIOUS
  <2> QED
    BY <1>3, <2>1 DEF Sort
<1>4. CASE Sorted
  BY <1>4 DEF Sorted
<1>5. CASE ExtendRange
  BY <1>5 DEF ExtendRange
<1>6. CASE NewRange
  <2>1. sorted[i] \in Nat \ {0}
    BY <1>6 DEF NewRange
  <2>2. ranges' \in Seq(RangeType)
    BY <1>6, RangeInHandTyped DEF NewRange
  <2> QED
    BY <1>6, <2>1, <2>2 DEF NewRange
<1>7. CASE LastRange
  <2>1. ranges' \in Seq(RangeType)
    BY <1>7, RangeInHandTyped DEF LastRange
  <2> QED
    BY <1>7, <2>1 DEF LastRange
<1> QED
  BY <1>1, <1>2, <1>3, <1>4, <1>5, <1>6, <1>7 DEF Receiver

LEMMA RangeTyped ==
  ASSUME TypeOK, NEW k \in 1 .. Len(ranges)
  PROVE  /\ ranges[k].lower \in Nat \ {0} /\ ranges[k].upper \in Nat \ {0}
         /\ Numbers(ranges[k]) \subseteq Nat \ {0}
         /\ Length(ranges[k]) \in Nat
<1>1. ranges[k] \in RangeType
  BY DEF TypeOK
<1>2. ranges[k].lower \in Nat \ {0} /\ ranges[k].upper \in Nat \ {0}
  BY <1>1 DEF RangeType
<1> QED
  BY <1>2 DEF Numbers, Length

LEMMA SenderTyped == TypeOK /\ Sender => TypeOK'
<1> SUFFICES ASSUME TypeOK, Sender PROVE TypeOK'
  OBVIOUS
<1>0. ASSUME i <= Len(ranges) PROVE i \in 1 .. Len(ranges)
  BY <1>0 DEF TypeOK
<1>1. CASE TakeApart
  <2>1. acked' \subseteq Nat \ {0}
    BY <1>0, <1>1, RangeTyped DEF TakeApart, TypeOK, Round
  <2> QED
    BY <1>1, <2>1 DEF TakeApart, TypeOK, Loops, inputs, sender, Round
<1>2. CASE TakenApart
  BY <1>2 DEF TakenApart, TypeOK, Loops, inputs, sender, Round, End
<1>3. CASE CountAcked
  <2>1. count' \in Nat
    BY <1>0, <1>3, RangeTyped DEF CountAcked, TypeOK, Round
  <2> QED
    BY <1>3, <2>1 DEF CountAcked, TypeOK, Loops, inputs, sender, Round
<1>4. CASE Counted
  BY <1>4 DEF Counted, TypeOK, Loops, inputs, sender, Round, End
<1>5. CASE IndexRange
  <2>1. ranges[i].lower \in Nat \ {0} /\ ranges[i].upper \in Nat \ {0}
    BY <1>0, <1>5, RangeTyped DEF IndexRange, Round
  <2>2. hash' \in [DOMAIN hash' -> Nat \ {0}] /\ DOMAIN hash' \subseteq Nat \ {0}
    BY <1>5, <2>1 DEF IndexRange, TypeOK
  <2> QED
    BY <1>5, <2>2 DEF IndexRange, TypeOK, Loops, inputs, sender, Round, End
<1>6. CASE Indexed
  BY <1>6 DEF Indexed, TypeOK, Loops, inputs, sender, Round, End
<1>7. CASE NextRange
  BY <1>7 DEF NextRange, After, TypeOK, Loops, inputs, sender, Round, End
<1>8. CASE Verified
  BY <1>8 DEF Verified, TypeOK, Loops, inputs, sender, Round, End
<1>9. CASE LookUp
  BY <1>9 DEF LookUp, TypeOK, Loops, inputs, sender, Round, End
<1>10. CASE Missing
  BY <1>10 DEF Missing, TypeOK, Loops, inputs, sender, Round, End
<1>11. CASE AllThere
  BY <1>11 DEF AllThere, TypeOK, Loops, inputs, sender, Round, End
<1> QED
  BY <1>1, <1>2, <1>3, <1>4, <1>5, <1>6, <1>7, <1>8, <1>9, <1>10, <1>11 DEF Sender

LEMMA StutterTyped == TypeOK /\ UNCHANGED vars => TypeOK'
BY DEF TypeOK, vars, inputs, sender

LEMMA NextTyped == TypeOK /\ [Next]_vars => TypeOK'
BY ReceiverTyped, SenderTyped, StutterTyped DEF Next

(***************************************************************************)
(* Every variable keeps its type, whatever list is acknowledged.           *)
(***************************************************************************)
THEOREM AckTypeCorrect == Spec => []TypeOK
<1>1. Init => TypeOK
  BY InitTyped
<1>2. TypeOK /\ [Next]_vars => TypeOK'
  BY NextTyped
<1> QED
  BY <1>1, <1>2, PTL DEF Spec

-----------------------------------------------------------------------------
(***************************************************************************)
(* The sorted list.                                                        *)
(***************************************************************************)
LEMMA AppendElements ==
  ASSUME sorted \in Seq(Nat \ {0}), i \in Nat \ {0}
  PROVE  Elements(Append(sorted, i)) = Elements(sorted) \cup {i}
<1>1. DOMAIN sorted = 1 .. Len(sorted) /\ DOMAIN Append(sorted, i) = 1 .. Len(sorted) + 1 /\ Len(sorted) \in Nat
  OBVIOUS
<1>2. Append(sorted, i)[Len(sorted) + 1] = i
  OBVIOUS
<1>3. \A k \in 1 .. Len(sorted) : Append(sorted, i)[k] = sorted[k]
  OBVIOUS
<1>4. Elements(sorted) \cup {i} \subseteq Elements(Append(sorted, i))
  BY <1>1, <1>2, <1>3 DEF Elements
<1>5. \A k \in 1 .. Len(sorted) + 1 : k \in 1 .. Len(sorted) \/ k = Len(sorted) + 1
  BY <1>1
<1>6. Elements(Append(sorted, i)) \subseteq Elements(sorted) \cup {i}
  BY <1>1, <1>2, <1>3, <1>5 DEF Elements
<1> QED
  BY <1>4, <1>6

LEMMA SortKept == TypeOK /\ SortInv /\ Next => SortInv'
<1> SUFFICES ASSUME TypeOK, SortInv, Next PROVE SortInv'
  OBVIOUS
<1>0. TypeOK'
  BY NextTyped
<1> USE DEF TypeOK, SortInv, Elements, Ascending, Loops, inputs, sender, Round, End
<1>1. CASE FindMax
  BY <1>0, <1>1 DEF FindMax
<1>2. CASE MaxFound
  BY <1>0, <1>2 DEF MaxFound
<1>3. CASE Sort
  <2>1. i \in Elements(list) <=> Contains(i)
    BY DEF Contains
  <2>2. \A k \in DOMAIN sorted : sorted[k] < i
    BY <1>3 DEF Sort
  <2>3. Elements(Append(sorted, i)) = Elements(sorted) \cup {i}
    BY AppendElements
  <2>4. Ascending(Append(sorted, i))
    BY <2>2
  <2>5. Elements(sorted') = {n \in Elements(list) : n < i'}
    <3> HIDE DEF Elements, Ascending
    <3>1. Elements(sorted) = {n \in Elements(list) : n < i} /\ i' = i + 1
      BY <1>3 DEF Sort
    <3>2. Elements(list) \subseteq Nat
      BY DEF Elements
    <3>3. {n \in Elements(list) : n < i + 1}
            = {n \in Elements(list) : n < i} \cup ({i} \cap Elements(list))
      BY <3>2
    <3>4. CASE Contains(i)
      BY <1>3, <2>1, <2>3, <3>1, <3>3, <3>4 DEF Sort
    <3>5. CASE ~Contains(i)
      BY <1>3, <2>1, <3>1, <3>3, <3>5 DEF Sort
    <3> QED
      BY <3>4, <3>5
  <2>6. Ascending(sorted')
    BY <1>3, <2>4 DEF Sort
  <2> QED
    BY <1>0, <1>3, <2>5, <2>6 DEF Sort
<1>4. CASE Sorted
  <2>1. \A n \in Elements(list) : n < i
    BY <1>4 DEF Sorted
  <2>2. Elements(sorted) = Elements(list)
    BY <1>4, <2>1 DEF Sorted
  <2> QED
    BY <1>0, <1>4, <2>2 DEF Sorted
<1>5. CASE ExtendRange \/ NewRange \/ LastRange
  BY <1>0, <1>5 DEF ExtendRange, NewRange, LastRange
<1>6. CASE TakeApart \/ TakenApart \/ CountAcked \/ Counted \/ IndexRange \/ Indexed
  BY <1>0, <1>6 DEF TakeApart, TakenApart, CountAcked, Counted, IndexRange, Indexed
<1>7. CASE NextRange \/ Verified \/ LookUp \/ Missing \/ AllThere
  BY <1>0, <1>7 DEF NextRange, Verified, LookUp, Missing, AllThere
<1> QED
  BY <1>1, <1>2, <1>3, <1>4, <1>5, <1>6, <1>7 DEF Next, Receiver, Sender

-----------------------------------------------------------------------------
(***************************************************************************)
(* The ranges.                                                             *)
(***************************************************************************)
LEMMA AppendRange ==
  ASSUME TypeOK, lower # 0, lower <= upper, Proper(ranges), Apart(ranges),
         \A k \in DOMAIN ranges : ranges[k].upper + 1 < lower,
         NEW s, s = Append(ranges, RangeInHand)
  PROVE  /\ Covered(s) = Covered(ranges) \cup InHand
         /\ Proper(s) /\ Apart(s)
         /\ DOMAIN s = 1 .. Len(ranges) + 1
         /\ s[Len(ranges) + 1].upper = upper
         /\ \A k \in 1 .. Len(ranges) : s[k] = ranges[k]
<1>1. /\ DOMAIN ranges = 1 .. Len(ranges) /\ Len(ranges) \in Nat
      /\ DOMAIN s = 1 .. Len(ranges) + 1
  BY DEF TypeOK
<1>2. s[Len(ranges) + 1] = RangeInHand
  BY DEF TypeOK
<1>3. \A k \in 1 .. Len(ranges) : s[k] = ranges[k]
  BY DEF TypeOK
<1>4. \A k \in 1 .. Len(ranges) + 1 : k \in 1 .. Len(ranges) \/ k = Len(ranges) + 1
  BY <1>1
<1>5. RangeInHand.lower = lower /\ RangeInHand.upper = upper
  BY DEF RangeInHand
<1>6. Covered(s) = Covered(ranges) \cup InHand
  <2>1. Numbers(RangeInHand) = InHand
    BY <1>5 DEF Numbers, InHand
  <2>2. \A x : x \in Covered(s) <=> \E k \in 1 .. Len(ranges) + 1 : x \in Numbers(s[k])
    BY <1>1 DEF Covered
  <2>3. \A x : x \in Covered(ranges) <=> \E k \in 1 .. Len(ranges) : x \in Numbers(ranges[k])
    BY <1>1 DEF Covered
  <2>4. Len(ranges) + 1 \in 1 .. Len(ranges) + 1
        /\ \A k \in 1 .. Len(ranges) : k \in 1 .. Len(ranges) + 1
    BY <1>1
  <2> QED
    BY <1>2, <1>3, <1>4, <2>1, <2>2, <2>3, <2>4
<1>7. Proper(s)
  BY <1>1, <1>2, <1>3, <1>4, <1>5 DEF Proper
<1>8. Apart(s)
  <2> SUFFICES ASSUME NEW k \in 1 .. Len(ranges) + 1, NEW l \in 1 .. Len(ranges) + 1, k < l
               PROVE  s[k].upper + 1 < s[l].lower
    BY <1>1 DEF Apart
  <2>1. k \in 1 .. Len(ranges)
    BY <1>1
  <2>2. CASE l = Len(ranges) + 1
    BY <1>1, <1>2, <1>3, <1>5, <2>1, <2>2
  <2>3. CASE l \in 1 .. Len(ranges)
    BY <1>1, <1>3, <2>1, <2>3 DEF Apart
  <2> QED
    BY <1>4, <2>2, <2>3
<1> QED
  BY <1>1, <1>2, <1>3, <1>5, <1>6, <1>7, <1>8

LEMMA RangeKept == TypeOK /\ SortInv /\ RangeInv /\ Next => RangeInv'
<1> SUFFICES ASSUME TypeOK, SortInv, RangeInv, Next PROVE RangeInv'
  OBVIOUS
<1>0. TypeOK'
  BY NextTyped
<1>t. i \in Nat \ {0} /\ lower \in Nat /\ upper \in Nat /\ Len(sorted) \in Nat
      /\ DOMAIN sorted = 1 .. Len(sorted) /\ DOMAIN ranges = 1 .. Len(ranges)
      /\ Len(ranges) \in Nat
  BY DEF TypeOK
<1>n. \A k \in 1 .. Len(sorted) : sorted[k] \in Nat \ {0}
  BY DEF TypeOK
<1>r. \A k \in 1 .. Len(ranges) : ranges[k].upper \in Nat /\ ranges[k].lower \in Nat
  BY RangeTyped
<1>1. CASE at = "ranges" /\ at' = "ranges"
  <2>0. /\ i <= Len(sorted) /\ i' = i + 1 /\ sorted' = sorted /\ lower' # 0
        /\ upper' = sorted[i]
    BY <1>1, <1>t, <1>n DEF Next, Receiver, Sender, FindMax, MaxFound, Sort, Sorted,
         ExtendRange, NewRange, LastRange, TakeApart, TakenApart, CountAcked, Counted,
         IndexRange, Indexed, NextRange, Verified, LookUp, Missing, AllThere, Round, End
  <2>1. lower # 0 => upper < sorted[i] /\ lower <= upper /\ i - 1 \in 1 .. Len(sorted)
    BY <1>1, <1>t, <1>n, <2>0 DEF SortInv, RangeInv, Ascending
  <2>2. {sorted[k] : k \in 1 .. i} = {sorted[k] : k \in 1 .. i - 1} \cup {sorted[i]}
    <3>1. \A k \in 1 .. i : k \in 1 .. i - 1 \/ k = i
      BY <1>t
    <3>2. i \in 1 .. i /\ \A k \in 1 .. i - 1 : k \in 1 .. i
      BY <1>t
    <3> QED
      BY <3>1, <3>2
  <2>3. sorted[i] \in Nat \ {0}
    BY <1>t, <1>n, <2>0
  <2>i. Covered(ranges) \cup InHand = {sorted[k] : k \in 1 .. i - 1} /\ i' - 1 = i
    BY <1>1, <1>t, <2>0 DEF RangeInv
  <2>4. CASE ExtendRange
    <3>1. lower' = lower /\ ranges' = ranges /\ lower # 0 /\ sorted[i] = upper + 1
      BY <2>4 DEF ExtendRange, Follows
    <3>2. InHand' = InHand \cup {sorted[i]}
      BY <1>t, <2>0, <2>1, <3>1 DEF InHand
    <3>3. Covered(ranges') \cup InHand' = {sorted'[k] : k \in 1 .. i' - 1}
      BY <1>t, <2>0, <2>2, <2>i, <3>1, <3>2
    <3>4. \A k \in DOMAIN ranges' : ranges'[k].upper + 1 < lower'
      BY <1>1, <3>1 DEF RangeInv
    <3>5. /\ i' <= Len(sorted') + 1 /\ lower' # 0 /\ i' # 1
          /\ lower' <= upper' /\ upper' = sorted'[i' - 1]
      BY <1>t, <2>0, <2>1, <2>3, <3>1
    <3>6. Proper(ranges') /\ Apart(ranges')
      BY <3>1 DEF RangeInv
    <3> QED
      BY <1>1, <3>3, <3>4, <3>5, <3>6
         DEF RangeInv, RangesExact, SenderLoops, Loops, Proper, Apart, Covered
  <2>5. CASE NewRange /\ lower = 0
    <3>1. ranges' = <<>> /\ lower' = sorted[i] /\ i = 1
      BY <1>1, <2>5 DEF NewRange, RangeInv
    <3>2. Covered(ranges') = {} /\ InHand' = {sorted[i]}
      BY <2>0, <2>3, <3>1 DEF Covered, InHand
    <3>3. {sorted[k] : k \in 1 .. i} = {sorted[i]}
      BY <3>1
    <3>4. (Covered(ranges) \cup InHand)' = {sorted'[k] : k \in 1 .. i' - 1}
      BY <1>t, <2>0, <3>2, <3>3 DEF Covered
    <3>5. DOMAIN ranges' = {}
      BY <3>1
    <3> QED
      BY <1>1, <1>t, <2>0, <2>3, <3>1, <3>4, <3>5
         DEF RangeInv, RangesExact, SenderLoops, Loops, Proper, Apart
  <2>6. CASE NewRange /\ lower # 0
    <3>1. /\ ranges' = Append(ranges, RangeInHand) /\ lower' = sorted[i]
          /\ sorted[i] > upper + 1
      BY <1>t, <2>1, <2>3, <2>6 DEF NewRange, Follows
    <3>2. /\ Covered(ranges') = Covered(ranges) \cup InHand
          /\ Proper(ranges') /\ Apart(ranges')
          /\ DOMAIN ranges' = 1 .. Len(ranges) + 1
          /\ ranges'[Len(ranges) + 1].upper = upper
          /\ \A k \in 1 .. Len(ranges) : ranges'[k] = ranges[k]
      BY <1>1, <2>1, <2>6, <3>1, AppendRange DEF RangeInv
    <3>3. InHand' = {sorted[i]}
      BY <2>0, <2>3, <3>1 DEF InHand
    <3>4. Covered(ranges') \cup InHand' = {sorted'[k] : k \in 1 .. i' - 1}
      BY <1>t, <2>0, <2>2, <2>i, <3>2, <3>3
    <3>5. \A k \in DOMAIN ranges' : ranges'[k].upper + 1 < lower'
      <4> SUFFICES ASSUME NEW k \in 1 .. Len(ranges) + 1
                   PROVE  ranges'[k].upper + 1 < sorted[i]
        BY <3>1, <3>2
      <4>1. CASE k = Len(ranges) + 1
        BY <1>t, <2>3, <3>1, <3>2, <4>1
      <4>2. CASE k \in 1 .. Len(ranges)
        <5>1. ranges[k].upper + 1 < lower /\ ranges[k].upper \in Nat
          BY <1>1, <1>t, <1>r, <4>2 DEF RangeInv
        <5>2. lower < sorted[i]
          BY <1>t, <2>1, <2>3, <2>6
        <5> QED
          BY <1>t, <2>3, <3>2, <4>2, <5>1, <5>2
      <4> QED
        BY <1>t, <4>1, <4>2
    <3>6. i' <= Len(sorted') + 1 /\ lower' # 0 /\ i' # 1 /\ upper' = sorted'[i' - 1]
      BY <1>t, <2>0, <2>3, <2>i, <3>1
    <3>7. lower' <= upper'
      BY <2>0, <2>3, <3>1
    <3> QED
      BY <1>1, <3>2, <3>4, <3>5, <3>6, <3>7
         DEF RangeInv, RangesExact, SenderLoops, Loops, Proper, Apart, Covered
  <2> QED
    BY <1>1, <2>4, <2>5, <2>6 DEF Next, Receiver, Sender, FindMax, MaxFound, Sort, Sorted,
         ExtendRange, NewRange, LastRange, TakeApart, TakenApart, CountAcked, Counted,
         IndexRange, Indexed, NextRange, Verified, LookUp, Missing, AllThere, Round, End
<1>2. CASE at = "ranges" /\ at' # "ranges"
  <2>0. LastRange
    BY <1>2 DEF Next, Receiver, Sender, FindMax, MaxFound, Sort, Sorted,
         ExtendRange, NewRange, LastRange, TakeApart, TakenApart, CountAcked, Counted,
         IndexRange, Indexed, NextRange, Verified, LookUp, Missing, AllThere, Round, End
  <2>1. i = Len(sorted) + 1 /\ list' = list /\ at' = "acked"
    BY <1>2, <1>t, <2>0 DEF LastRange, End, RangeInv, inputs
  <2>2. Covered(ranges) \cup InHand = Elements(list)
    <3>1. i - 1 = Len(sorted)
      BY <1>t, <2>1
    <3>2. Covered(ranges) \cup InHand = {sorted[k] : k \in 1 .. i - 1}
      BY <1>2 DEF RangeInv
    <3>3. Elements(sorted) = Elements(list)
      BY <1>2 DEF SortInv
    <3> QED
      BY <1>t, <3>1, <3>2, <3>3 DEF Elements
  <2>3. Proper(ranges') /\ Apart(ranges') /\ Covered(ranges') = Covered(ranges) \cup InHand
    <3>1. CASE lower = 0
      BY <2>0, <3>1 DEF LastRange, RangeInv, InHand
    <3>2. CASE lower # 0
      BY <1>2, <2>0, <3>2, AppendRange DEF LastRange, RangeInv
    <3> QED
      BY <3>1, <3>2
  <2> QED
    BY <2>1, <2>2, <2>3 DEF RangeInv, RangesExact, Covered, Elements, Proper, Apart
<1>3. CASE at \in {"max", "sort"}
  <2>0. ranges' = <<>> /\ lower' = 0 /\ at' \in {"max", "sort", "ranges"}
        /\ (at' = "ranges" => i' = 1)
    BY <1>3 DEF RangeInv, Next, Receiver, Sender, FindMax, MaxFound, Sort, Sorted,
         ExtendRange, NewRange, LastRange, TakeApart, TakenApart, CountAcked, Counted,
         IndexRange, Indexed, NextRange, Verified, LookUp, Missing, AllThere, Round, End
  <2>1. DOMAIN ranges' = {} /\ Covered(ranges') = {} /\ InHand' = {}
    BY <2>0 DEF Covered, InHand
  <2>2. {sorted'[k] : k \in 1 .. 0} = {}
    OBVIOUS
  <2>3. Len(sorted') \in Nat
    BY <1>0 DEF TypeOK
  <2> QED
    BY <2>0, <2>1, <2>2, <2>3
       DEF RangeInv, RangesExact, SenderLoops, Loops, Proper, Apart, Covered
<1>4. CASE at \in SenderLoops
  <2>1. ranges' = ranges /\ list' = list /\ at' \in SenderLoops
    BY <1>4 DEF SenderLoops, Loops, Next, Receiver, Sender, FindMax, MaxFound, Sort, Sorted,
         ExtendRange, NewRange, LastRange, TakeApart, TakenApart, CountAcked, Counted,
         IndexRange, Indexed, NextRange, Verified, LookUp, Missing, AllThere, Round, End,
         inputs
  <2> QED
    BY <1>4, <2>1
       DEF RangeInv, RangesExact, SenderLoops, Loops, Proper, Apart, Covered, Elements
<1> QED
  BY <1>1, <1>2, <1>3, <1>4 DEF TypeOK, SenderLoops

-----------------------------------------------------------------------------
(***************************************************************************)
(* The numbers of the first ranges, on which the sending side's loops      *)
(* build.                                                                  *)
(***************************************************************************)
LEMMA UpToFacts ==
  ASSUME TypeOK
  PROVE  /\ UpTo(0) = {}
         /\ UpTo(Len(ranges)) = Covered(ranges)
         /\ i <= Len(ranges) => UpTo(i) = UpTo(i - 1) \cup Numbers(ranges[i])
<1>1. UpTo(0) = {}
  BY DEF UpTo
<1>2. UpTo(Len(ranges)) = Covered(ranges)
  <2>1. DOMAIN ranges = 1 .. Len(ranges)
    BY DEF TypeOK
  <2> QED
    BY <2>1 DEF UpTo, Covered
<1>3. UpTo(i) = UpTo(i - 1) \cup Numbers(ranges[i])
  <2>1. \A l \in 1 .. i : l \in 1 .. i - 1 \/ l = i
    BY DEF TypeOK
  <2>2. i \in 1 .. i /\ \A l \in 1 .. i - 1 : l \in 1 .. i
    BY DEF TypeOK
  <2>3. \A x : x \in UpTo(i) <=> \E l \in 1 .. i : x \in Numbers(ranges[l])
    BY DEF UpTo
  <2>4. \A x : x \in UpTo(i - 1) <=> \E l \in 1 .. i - 1 : x \in Numbers(ranges[l])
    BY DEF UpTo
  <2> QED
    BY <2>1, <2>2, <2>3, <2>4
<1> QED
  BY <1>1, <1>2, <1>3

LEMMA UpToApart ==
  ASSUME TypeOK, Apart(ranges), i <= Len(ranges)
  PROVE  UpTo(i - 1) \cap Numbers(ranges[i]) = {}
<1> SUFFICES ASSUME NEW x \in UpTo(i - 1), x \in Numbers(ranges[i]) PROVE FALSE
  OBVIOUS
<1>1. PICK l \in 1 .. i - 1 : x \in Numbers(ranges[l])
  BY DEF UpTo
<1>2. l \in 1 .. Len(ranges) /\ i \in 1 .. Len(ranges) /\ l < i
  BY DEF TypeOK
<1>3. ranges[l].upper + 1 < ranges[i].lower
  BY <1>2 DEF TypeOK, Apart
<1>4. ranges[l].upper \in Nat /\ ranges[i].lower \in Nat /\ ranges[l].lower \in Nat
      /\ ranges[i].upper \in Nat
  BY <1>2, RangeTyped
<1> QED
  BY <1>1, <1>3, <1>4 DEF Numbers

LEMMA UpToSame == ranges' = ranges => \A k \in Nat : UpTo(k)' = UpTo(k)
BY DEF UpTo

LEMMA AckedKept == TypeOK /\ RangeInv /\ AckedInv /\ Next => AckedInv'
<1> SUFFICES ASSUME TypeOK, RangeInv, AckedInv, Next PROVE AckedInv'
  OBVIOUS
<1>0. TypeOK'
  BY NextTyped
<1>t. i \in Nat \ {0} /\ Len(ranges) \in Nat
  BY DEF TypeOK
<1>1. CASE FindMax \/ MaxFound \/ Sort \/ Sorted \/ ExtendRange \/ NewRange
  BY <1>1 DEF AckedInv, SenderLoops, Loops, inputs, sender, Round, End, FindMax, MaxFound,
              Sort, Sorted, ExtendRange, NewRange
<1>2. CASE LastRange
  <2>1. at' = "acked" /\ i' = 1 /\ acked' = {}
    BY <1>2 DEF LastRange, End, AckedInv, sender
  <2>2. UpTo(i - 1)' = {}
    BY <2>1 DEF UpTo
  <2>3. Len(ranges') \in Nat
    BY <1>0 DEF TypeOK
  <2> QED
    BY <2>1, <2>2, <2>3 DEF AckedInv
<1>3. CASE TakeApart
  <2>1. /\ at' = "acked" /\ i' = i + 1 /\ ranges' = ranges
        /\ acked' = UpTo(i - 1) \cup Numbers(ranges[i]) /\ i <= Len(ranges)
    BY <1>3 DEF TakeApart, Round, AckedInv
  <2>2. acked' = UpTo(i' - 1)
    BY <1>t, <2>1, UpToFacts
  <2>3. acked' = UpTo(i - 1)'
    BY <2>1, <2>2 DEF UpTo
  <2> QED
    BY <1>t, <2>1, <2>3 DEF AckedInv
<1>4. CASE TakenApart
  <2>1. i - 1 = Len(ranges) /\ acked = UpTo(i - 1) /\ at = "acked"
    BY <1>4, <1>t DEF TakenApart, End, AckedInv
  <2>2. acked = Elements(list)
    BY <2>1, UpToFacts DEF RangeInv, RangesExact, SenderLoops, Loops
  <2> QED
    BY <1>4, <1>t, <2>2 DEF TakenApart, End, AckedInv, Elements, inputs, sender
<1>5. CASE CountAcked \/ Counted \/ IndexRange \/ Indexed \/ NextRange \/ Verified
             \/ LookUp \/ Missing \/ AllThere
  BY <1>5, <1>t DEF AckedInv, Elements, SenderLoops, Loops, inputs, sender, Round, End,
         CountAcked, Counted, IndexRange, Indexed, NextRange, Verified, LookUp, Missing,
         AllThere
<1> QED
  BY <1>1, <1>2, <1>3, <1>4, <1>5 DEF Next, Receiver, Sender

-----------------------------------------------------------------------------
(***************************************************************************)
(* The count: the ranges are apart, so their lengths add up.               *)
(***************************************************************************)
LEMMA CountKept == TypeOK /\ RangeInv /\ AckedInv /\ CountInv /\ Next => CountInv'
<1> SUFFICES ASSUME TypeOK, RangeInv, AckedInv, CountInv, Next PROVE CountInv'
  OBVIOUS
<1>t. i \in Nat \ {0} /\ Len(ranges) \in Nat
  BY DEF TypeOK
<1>1. CASE Receiver \/ TakeApart
  BY <1>1 DEF CountInv, CountExact, AfterCount, SenderLoops, Loops, inputs, sender, Round,
              End, Receiver, FindMax, MaxFound, Sort, Sorted, ExtendRange, NewRange,
              LastRange, TakeApart
<1>2. CASE TakenApart
  <2>1. at' = "count" /\ i' = 1 /\ count' = 0
    BY <1>2 DEF TakenApart, End, CountInv, AfterCount, SenderLoops, Loops, sender
  <2>2. UpTo(i - 1)' = {}
    BY <2>1 DEF UpTo
  <2> QED
    BY <2>1, <2>2, FS_EmptySet DEF CountInv, CountExact, AfterCount, SenderLoops, Loops
<1>3. CASE CountAcked
  <2>1. /\ at = "count" /\ at' = "count" /\ i' = i + 1 /\ ranges' = ranges
        /\ count' = count + Length(ranges[i]) /\ i <= Len(ranges)
    BY <1>3 DEF CountAcked, Round
  <2>2. IsFiniteSet(UpTo(i - 1)) /\ count = Cardinality(UpTo(i - 1))
    BY <2>1 DEF CountInv
  <2>3. i \in 1 .. Len(ranges)
    BY <1>t, <2>1
  <2>4. ranges[i].lower \in Nat /\ ranges[i].upper \in Nat
        /\ ranges[i].lower <= ranges[i].upper
    BY <2>3, RangeTyped DEF RangeInv, Proper, TypeOK
  <2>5. IsFiniteSet(Numbers(ranges[i])) /\ Cardinality(Numbers(ranges[i])) = Length(ranges[i])
    <3>1. ranges[i].lower \in Int /\ ranges[i].upper \in Int
      BY <2>4
    <3>2. /\ IsFiniteSet(ranges[i].lower .. ranges[i].upper)
          /\ Cardinality(ranges[i].lower .. ranges[i].upper)
               = IF ranges[i].lower > ranges[i].upper
                   THEN 0 ELSE ranges[i].upper - ranges[i].lower + 1
      BY <3>1, FS_Interval, Zenon
    <3>3. Length(ranges[i]) = ranges[i].upper - ranges[i].lower + 1
          /\ ~(ranges[i].lower > ranges[i].upper)
      BY <2>4 DEF Length
    <3> QED
      BY <3>2, <3>3 DEF Numbers
  <2>6. UpTo(i - 1) \cap Numbers(ranges[i]) = {}
    BY <2>1, UpToApart DEF RangeInv
  <2>7. Cardinality(UpTo(i - 1) \cap Numbers(ranges[i])) = 0
    BY <2>6, FS_EmptySet
  <2>8. Cardinality(UpTo(i - 1)) \in Nat /\ Length(ranges[i]) \in Nat
    BY <2>2, <2>3, <2>5, FS_CardinalityType, RangeTyped
  <2>9. /\ IsFiniteSet(UpTo(i - 1) \cup Numbers(ranges[i]))
        /\ Cardinality(UpTo(i - 1) \cup Numbers(ranges[i]))
              = Cardinality(UpTo(i - 1)) + Cardinality(Numbers(ranges[i]))
                  - Cardinality(UpTo(i - 1) \cap Numbers(ranges[i]))
    BY <2>2, <2>5, FS_Union
  <2>10. UpTo(i' - 1) = UpTo(i - 1) \cup Numbers(ranges[i])
    BY <1>t, <2>1, UpToFacts
  <2>11. UpTo(i - 1)' = UpTo(i - 1) \cup Numbers(ranges[i])
    BY <2>1, <2>10 DEF UpTo
  <2>12. IsFiniteSet(UpTo(i - 1)') /\ count' = Cardinality(UpTo(i - 1)')
    <3>1. Cardinality(UpTo(i - 1) \cup Numbers(ranges[i])) = count + Length(ranges[i])
      <4>1. \A c, d, e \in Nat : e = 0 => c + d - e = c + d
        OBVIOUS
      <4> QED
        BY <2>2, <2>5, <2>7, <2>8, <2>9, <4>1
    <3> QED
      BY <2>1, <2>9, <2>11, <3>1
  <2> QED
    BY <2>1, <2>12 DEF CountInv, CountExact, AfterCount, SenderLoops, Loops
<1>4. CASE Counted
  <2>1. /\ at = "count" /\ at' = "index" /\ i - 1 = Len(ranges)
        /\ count' = count /\ list' = list
    BY <1>4, <1>t DEF Counted, End, AckedInv, inputs, sender
  <2>2. UpTo(i - 1) = Elements(list)
    BY <2>1, UpToFacts DEF RangeInv, RangesExact, SenderLoops, Loops
  <2> QED
    BY <2>1, <2>2 DEF CountInv, CountExact, AfterCount, SenderLoops, Loops, Elements
<1>5. CASE IndexRange \/ Indexed \/ NextRange \/ Verified \/ LookUp \/ Missing \/ AllThere
  BY <1>5 DEF CountInv, CountExact, AfterCount, SenderLoops, Loops, Elements, inputs, sender,
         Round, End, IndexRange, Indexed, NextRange, Verified, LookUp, Missing, AllThere
<1> QED
  BY <1>1, <1>2, <1>3, <1>4, <1>5 DEF Next, Sender

-----------------------------------------------------------------------------
(***************************************************************************)
(* The hash: no two ranges start at the same number, so none hides         *)
(* another.                                                                *)
(***************************************************************************)
LEMMA HashKept == TypeOK /\ RangeInv /\ AckedInv /\ HashInv /\ Next => HashInv'
<1> SUFFICES ASSUME TypeOK, RangeInv, AckedInv, HashInv, Next PROVE HashInv'
  OBVIOUS
<1>t. i \in Nat \ {0} /\ Len(ranges) \in Nat
  BY DEF TypeOK
<1>1. CASE Receiver \/ TakeApart \/ TakenApart \/ CountAcked
  BY <1>1 DEF HashInv, AfterCount, SenderLoops, Loops, inputs, sender, Round, End, Receiver,
              FindMax, MaxFound, Sort, Sorted, ExtendRange, NewRange, LastRange,
              TakeApart, TakenApart, CountAcked
<1>2. CASE Counted
  <2>1. at' = "index" /\ i' = 1 /\ DOMAIN hash' = {}
    BY <1>2 DEF Counted, End, HashInv, AfterCount, SenderLoops, Loops, sender
  <2>2. HashHolds(i - 1)'
    BY <2>1 DEF HashHolds
  <2> QED
    BY <2>1, <2>2 DEF HashInv, AfterCount, SenderLoops, Loops
<1>3. CASE IndexRange
  <2>1. /\ at' = "index" /\ i' = i + 1 /\ ranges' = ranges /\ i \in 1 .. Len(ranges)
        /\ hash' = [l \in DOMAIN hash \cup {ranges[i].lower} |->
                     IF l = ranges[i].lower THEN ranges[i].upper ELSE hash[l]]
    BY <1>3, <1>t DEF IndexRange, Round
  <2>2. HashHolds(i - 1)
    BY <1>3 DEF IndexRange, Round, HashInv
  <2>3. \A l \in 1 .. i : l \in 1 .. i - 1 \/ l = i
    BY <1>t
  <2>4. \A l \in 1 .. i - 1 : ranges[l].lower # ranges[i].lower
    <3> SUFFICES ASSUME NEW l \in 1 .. i - 1 PROVE ranges[l].lower # ranges[i].lower
      OBVIOUS
    <3>1. l \in 1 .. Len(ranges) /\ l < i
      BY <1>t, <2>1
    <3>2. ranges[l].upper + 1 < ranges[i].lower /\ ranges[l].lower <= ranges[l].upper
      BY <2>1, <3>1 DEF RangeInv, Apart, Proper, TypeOK
    <3>3. ranges[l].lower \in Nat /\ ranges[l].upper \in Nat /\ ranges[i].lower \in Nat
      BY <2>1, <3>1, RangeTyped
    <3> QED
      BY <3>2, <3>3
  <2>5. DOMAIN hash' = {ranges[l].lower : l \in 1 .. i}
    <3>1. DOMAIN hash' = {ranges[l].lower : l \in 1 .. i - 1} \cup {ranges[i].lower}
      BY <2>1, <2>2 DEF HashHolds
    <3>2. i \in 1 .. i /\ \A l \in 1 .. i - 1 : l \in 1 .. i
      BY <1>t
    <3> QED
      BY <2>3, <3>1, <3>2
  <2>6. \A l \in 1 .. i : hash'[ranges[l].lower] = ranges[l].upper
    <3> SUFFICES ASSUME NEW l \in 1 .. i PROVE hash'[ranges[l].lower] = ranges[l].upper
      OBVIOUS
    <3>1. CASE l = i
      BY <2>1, <3>1
    <3>2. CASE l \in 1 .. i - 1
      BY <2>1, <2>2, <2>4, <3>2 DEF HashHolds
    <3> QED
      BY <2>3, <3>1, <3>2
  <2>7. HashHolds(i - 1)'
    <3>1. i' - 1 = i
      BY <1>t, <2>1
    <3> QED
      BY <2>1, <2>5, <2>6, <3>1 DEF HashHolds
  <2> QED
    BY <2>1, <2>7 DEF HashInv, AfterCount, SenderLoops, Loops
<1>4. CASE Indexed
  <2>1. at' = "verify" /\ i - 1 = Len(ranges) /\ hash' = hash /\ ranges' = ranges
        /\ at = "index"
    BY <1>4, <1>t DEF Indexed, End, AckedInv, sender
  <2>2. HashHolds(Len(ranges))
    BY <2>1 DEF HashInv
  <2> QED
    BY <2>1, <2>2 DEF HashInv, HashHolds, AfterCount, SenderLoops, Loops
<1>5. CASE NextRange \/ Verified \/ LookUp \/ Missing \/ AllThere
  <2>1. /\ at \in {"verify", "upto"} /\ at' \in {"verify", "upto", "done"}
        /\ hash' = hash /\ ranges' = ranges
    BY <1>5 DEF sender, Round, End, NextRange, Verified, LookUp, Missing, AllThere
  <2>2. HashHolds(Len(ranges))
    BY <2>1 DEF HashInv, AfterCount, SenderLoops, Loops
  <2>3. HashHolds(Len(ranges))'
    BY <2>1, <2>2 DEF HashHolds
  <2> QED
    BY <2>1, <2>3 DEF HashInv, AfterCount, SenderLoops, Loops
<1> QED
  BY <1>1, <1>2, <1>3, <1>4, <1>5 DEF Next, Sender

-----------------------------------------------------------------------------
(***************************************************************************)
(* The two completion checks.                                              *)
(***************************************************************************)
LEMMA NoRangeStarts ==
  ASSUME TypeOK, RangeInv, HashInv, VerifyInv, at = "verify", start \notin DOMAIN hash
  PROVE  start \notin Elements(list)
<1> SUFFICES ASSUME start \in Elements(list) PROVE FALSE
  OBVIOUS
<1>0. DOMAIN ranges = 1 .. Len(ranges) /\ Covered(ranges) = Elements(list)
  BY DEF TypeOK, RangeInv, RangesExact, SenderLoops, Loops
<1>1. PICK m \in 1 .. Len(ranges) : start \in Numbers(ranges[m])
  BY <1>0 DEF Covered
<1>2. ranges[m].lower # start
  BY DEF HashInv, HashHolds, AfterCount, SenderLoops, Loops
<1>3. ranges[m].lower \in Nat \ {0} /\ ranges[m].upper \in Nat /\ start \in Nat
  BY RangeTyped DEF TypeOK
<1>4. ranges[m].lower < start /\ start <= ranges[m].upper
  BY <1>1, <1>2, <1>3 DEF Numbers
<1>5. PICK k \in 1 .. Len(ranges) : ranges[k].upper = start - 1
  BY <1>0, <1>3, <1>4 DEF VerifyInv
<1>6. ranges[k].lower \in Nat \ {0} /\ ranges[k].upper \in Nat
      /\ ranges[k].lower <= ranges[k].upper
  BY <1>0, RangeTyped DEF RangeInv, Proper
<1>7. k < m \/ m < k
  BY <1>3, <1>4, <1>5
<1>8. /\ k < m => ranges[k].upper + 1 < ranges[m].lower
      /\ m < k => ranges[m].upper + 1 < ranges[k].lower
  BY <1>0 DEF RangeInv, Apart
<1> QED
  BY <1>3, <1>4, <1>5, <1>6, <1>7, <1>8

LEMMA RangeStarts ==
  ASSUME TypeOK, RangeInv, HashInv, VerifyInv, at = "verify", start \in DOMAIN hash
  PROVE  /\ \E k \in DOMAIN ranges : ranges[k].upper = hash[start]
         /\ hash[start] \in Nat \ {0}
         /\ 1 .. hash[start] \subseteq Elements(list)
<1>0. DOMAIN ranges = 1 .. Len(ranges) /\ Covered(ranges) = Elements(list)
  BY DEF TypeOK, RangeInv, RangesExact, SenderLoops, Loops
<1>1. PICK k \in 1 .. Len(ranges) : ranges[k].lower = start /\ hash[start] = ranges[k].upper
  BY DEF HashInv, HashHolds, AfterCount, SenderLoops, Loops
<1>2. start .. hash[start] \subseteq Elements(list)
  BY <1>0, <1>1 DEF Covered, Numbers
<1>3. hash[start] \in Nat \ {0} /\ start \in Nat
  BY <1>1, RangeTyped DEF TypeOK
<1>4. 1 .. start - 1 \subseteq Elements(list)
  BY DEF VerifyInv
<1>5. \A x \in 1 .. hash[start] : x \in 1 .. start - 1 \/ x \in start .. hash[start]
  BY <1>3
<1> QED
  BY <1>0, <1>1, <1>2, <1>3, <1>4, <1>5

LEMMA VerifyKept ==
  TypeOK /\ RangeInv /\ AckedInv /\ HashInv /\ VerifyInv /\ Next => VerifyInv'
<1> SUFFICES ASSUME TypeOK, RangeInv, AckedInv, HashInv, VerifyInv, Next PROVE VerifyInv'
  OBVIOUS
<1>t. i \in Nat \ {0} /\ start \in Nat \ {0} /\ last \in Nat \ {0}
  BY DEF TypeOK
<1>1. CASE Receiver \/ TakeApart \/ TakenApart \/ CountAcked \/ Counted \/ IndexRange
  BY <1>1 DEF VerifyInv, AfterCount, SenderLoops, Loops, inputs, sender, Round, End, Receiver,
              FindMax, MaxFound, Sort, Sorted, ExtendRange, NewRange, LastRange,
              TakeApart, TakenApart, CountAcked, Counted, IndexRange
<1>2. CASE Indexed
  <2>1. at' = "verify" /\ start' = 1 /\ last' = last /\ allAcked' = FALSE
    BY <1>2 DEF Indexed, End, VerifyInv, AfterCount, SenderLoops, Loops, inputs, sender
  <2> QED
    BY <1>t, <2>1 DEF VerifyInv, AfterCount, SenderLoops, Loops
<1>3. CASE NextRange
  <2>1. /\ at = "verify" /\ at' = at /\ start \in DOMAIN hash /\ hash[start] < last
        /\ start' = hash[start] + 1 /\ last' = last /\ list' = list /\ ranges' = ranges
        /\ allAcked' = allAcked
    BY <1>3, <1>t, RangeStarts DEF NextRange, Reaches, After, inputs
  <2>2. start' - 1 = hash[start] /\ start' <= last'
    BY <1>t, <2>1, RangeStarts
  <2>3. (1 .. start - 1 \subseteq Elements(list))'
    BY <2>1, <2>2, RangeStarts DEF Elements
  <2> QED
    BY <2>1, <2>2, <2>3, RangeStarts DEF VerifyInv, AfterCount, SenderLoops, Loops
<1>4. CASE Verified
  <2>1. /\ at = "verify" /\ at' = "upto" /\ i' = 1 /\ last' = last /\ list' = list
        /\ acked' = acked /\ allAcked' = FALSE /\ completed' = (start \in DOMAIN hash)
        /\ start \in DOMAIN hash => hash[start] >= last
    BY <1>4 DEF Verified, Reaches, inputs, VerifyInv
  <2>2. completed' = Complete
    <3>1. CASE start \in DOMAIN hash
      <4>1. 1 .. last \subseteq 1 .. hash[start]
        BY <1>t, <2>1, <3>1, RangeStarts
      <4> QED
        BY <2>1, <3>1, <4>1, RangeStarts DEF Complete
    <3>2. CASE start \notin DOMAIN hash
      <4>1. start \in 1 .. last
        BY <1>t, <2>1 DEF VerifyInv
      <4> QED
        BY <2>1, <3>2, <4>1, NoRangeStarts DEF Complete
    <3> QED
      BY <3>1, <3>2
  <2>3. Complete' = Complete
    BY <2>1 DEF Complete, Elements
  <2> QED
    BY <1>t, <2>1, <2>2, <2>3 DEF VerifyInv, AfterCount, SenderLoops, Loops
<1>5. CASE LookUp
  <2>1. /\ at = "upto" /\ at' = at /\ i' = i + 1 /\ i <= last /\ i \in acked
        /\ last' = last /\ list' = list /\ acked' = acked
        /\ allAcked' = allAcked /\ completed' = completed
    BY <1>5 DEF LookUp, Round, inputs, sender
  <2>2. 1 .. i' - 1 \subseteq acked' /\ i' <= last' + 1
    BY <1>t, <2>1 DEF VerifyInv
  <2>3. Complete' = Complete
    BY <2>1 DEF Complete, Elements
  <2> QED
    BY <2>1, <2>2, <2>3 DEF VerifyInv, AfterCount, SenderLoops, Loops
<1>6. CASE Missing
  <2>1. /\ at = "upto" /\ at' = "done" /\ acked = Elements(list)
        /\ last' = last /\ list' = list
        /\ allAcked' = allAcked /\ completed' = completed
    BY <1>6 DEF Missing, inputs, sender, AckedInv, SenderLoops, Loops
  <2>2. ~Complete
    BY <1>6, <1>t, <2>1 DEF Missing, Complete
  <2>3. Complete' = Complete
    BY <2>1 DEF Complete, Elements
  <2>4. completed' = Complete'
    BY <2>1, <2>3 DEF VerifyInv
  <2>5. allAcked' = FALSE /\ Complete' = FALSE
    BY <2>1, <2>2, <2>3 DEF VerifyInv, Complete
  <2> QED
    BY <2>1, <2>4, <2>5 DEF VerifyInv, AfterCount, SenderLoops, Loops
<1>7. CASE AllThere
  <2>1. /\ at = "upto" /\ at' = "done" /\ acked = Elements(list) /\ i > last
        /\ last' = last /\ list' = list /\ allAcked' = TRUE /\ completed' = completed
    BY <1>7 DEF AllThere, End, inputs, AckedInv, SenderLoops, Loops
  <2>2. i - 1 = last /\ 1 .. i - 1 \subseteq acked
    BY <1>t, <2>1 DEF VerifyInv
  <2>3. Complete' = Complete
    BY <2>1 DEF Complete, Elements
  <2> QED
    BY <2>1, <2>2, <2>3 DEF VerifyInv, Complete, AfterCount, SenderLoops, Loops
<1> QED
  BY <1>1, <1>2, <1>3, <1>4, <1>5, <1>6, <1>7 DEF Next, Sender

-----------------------------------------------------------------------------
LEMMA AckInvInit == Init => AckInv
<1> SUFFICES ASSUME Init PROVE AckInv
  OBVIOUS
<1>1. TypeOK
  BY InitTyped
<1>2. SortInv
  BY <1>1 DEF Init, SortInv, Ascending, TypeOK
<1>3. RangeInv
  BY DEF Init, RangeInv, RangesExact, SenderLoops, Loops, Proper, Apart
<1>4. AckedInv
  BY DEF Init, AckedInv, SenderLoops, Loops
<1>5. CountInv /\ HashInv
  BY DEF Init, CountInv, CountExact, HashInv, AfterCount, SenderLoops, Loops
<1>6. VerifyInv
  BY DEF Init, VerifyInv, AfterCount, SenderLoops, Loops
<1> QED
  BY <1>1, <1>2, <1>3, <1>4, <1>5, <1>6 DEF AckInv

LEMMA AckInvStutter == AckInv /\ UNCHANGED vars => AckInv'
<1> SUFFICES ASSUME AckInv, UNCHANGED vars PROVE AckInv'
  OBVIOUS
<1> USE DEF vars, inputs, sender
<1>1. TypeOK' /\ SortInv'
  BY DEF AckInv, TypeOK, SortInv, Elements, Ascending
<1>2. RangeInv'
  BY DEF AckInv, RangeInv, InHand, Covered, Proper, Apart, RangesExact, Elements
<1>5. AckedInv'
  BY DEF AckInv, AckedInv, UpTo, Elements
<1>3. CountInv' /\ HashInv'
  BY DEF AckInv, CountInv, CountExact, UpTo, Elements, HashInv, HashHolds
<1>4. VerifyInv'
  BY DEF AckInv, VerifyInv, Elements, Complete
<1> QED
  BY <1>1, <1>2, <1>3, <1>4, <1>5 DEF AckInv

LEMMA AckInvNext == AckInv /\ [Next]_vars => AckInv'
BY NextTyped, SortKept, RangeKept, AckedKept, CountKept, HashKept, VerifyKept, AckInvStutter
   DEF AckInv

LEMMA AckInvHolds == Spec => []AckInv
BY AckInvInit, AckInvNext, PTL DEF Spec

(***************************************************************************)
(* An acknowledgement names exactly what the receiving side has recorded,  *)
(* for every completed list.                                               *)
(***************************************************************************)
THEOREM AcknowledgementExact == Spec => []RangesExact
<1>1. AckInv => RangesExact
  BY DEF AckInv, RangeInv
<1> QED
  BY <1>1, AckInvHolds, PTL

(***************************************************************************)
(* Its ranges never touch or overlap and ascend.                           *)
(***************************************************************************)
THEOREM AcknowledgementApart == Spec => []RangesApart
<1>1. AckInv => RangesApart
  BY DEF AckInv, RangeInv, RangesApart
<1> QED
  BY <1>1, AckInvHolds, PTL

(***************************************************************************)
(* The sending side counts every acknowledged number once.                 *)
(***************************************************************************)
THEOREM AcknowledgedCounted == Spec => []CountExact
<1>1. AckInv => CountExact
  BY DEF AckInv, CountInv
<1> QED
  BY <1>1, AckInvHolds, PTL

(***************************************************************************)
(* Both completion checks are right, for every list and last number.       *)
(***************************************************************************)
THEOREM CompletionRight == Spec => []CompletionExact
<1>1. AckInv => CompletionExact
  BY DEF AckInv, VerifyInv, CompletionExact
<1> QED
  BY <1>1, AckInvHolds, PTL
==============================================================================
