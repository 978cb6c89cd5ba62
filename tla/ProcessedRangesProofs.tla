------------------------ MODULE ProcessedRangesProofs ------------------------
(***************************************************************************)
(* What ProcessedRanges promises holds for every set of ids and every      *)
(* order of calls: the list stays compact, and it answers "processed" for  *)
(* exactly the ids that were marked.                                       *)
(***************************************************************************)
EXTENDS ProcessedRanges, TLAPS

Lists == Seq(Int \X Int)

(* A range put at the end of a list adds its ids and no others. *)
LEMMA AppendHolds ==
    ASSUME NEW list \in Lists, NEW r \in Int \X Int, NEW id \in Int
    PROVE  /\ Append(list, r) \in Lists
           /\ Holds(Append(list, r), id) <=> Holds(list, id) \/ Covers(r, id)
<1> DEFINE l2 == Append(list, r)
<1>1. /\ l2 \in Lists /\ Len(l2) = Len(list) + 1 /\ l2[Len(list) + 1] = r
      /\ \A k \in 1..Len(list) : l2[k] = list[k]
      /\ Len(list) \in Nat
  BY DEF Lists
<1>2. ASSUME Holds(l2, id) PROVE Holds(list, id) \/ Covers(r, id)
  BY <1>1, <1>2 DEF Holds
<1>3. ASSUME Holds(list, id) \/ Covers(r, id) PROVE Holds(l2, id)
  BY <1>1, <1>3 DEF Holds
<1> QED BY <1>1, <1>2, <1>3

(* A range put after a gap at the end of a compact list leaves it compact. *)
LEMMA AppendCompact ==
    ASSUME NEW list \in Lists, NEW r \in Int \X Int,
           Compact(list), Start(r) <= End(r),
           \A k \in 1..Len(list) : End(list[k]) + 1 < Start(r)
    PROVE  Compact(Append(list, r))
<1> DEFINE l2 == Append(list, r)
<1>1. /\ Len(l2) = Len(list) + 1 /\ l2[Len(list) + 1] = r
      /\ \A k \in 1..Len(list) : l2[k] = list[k]
      /\ Len(list) \in Nat
  BY DEF Lists
<1> HIDE DEF l2
<1>2. \A k \in 1..Len(l2) : Start(l2[k]) <= End(l2[k])
  BY <1>1 DEF Compact
<1>3. \A j, k \in 1..Len(l2) : j < k => End(l2[j]) + 1 < Start(l2[k])
  BY <1>1 DEF Compact
<1> QED BY <1>2, <1>3 DEF Compact, l2

(* contains searches a compact list correctly: neither the look at the last
   range nor the early end of the search misses a range that holds the id. *)
LEMMA ContainsSearches ==
    ASSUME ranges \in Lists, Compact(ranges), NEW id \in Int
    PROVE  Contains(id) <=> Holds(ranges, id)
<1>1. /\ Len(ranges) \in Nat /\ (ranges = <<>> <=> Len(ranges) = 0)
      /\ \A k \in 1..Len(ranges) : Start(ranges[k]) \in Int /\ End(ranges[k]) \in Int
  BY DEF Lists, Start, End
<1>2. ASSUME Contains(id) PROVE Holds(ranges, id)
  BY <1>1, <1>2 DEF Contains, Holds
<1>3. ASSUME Holds(ranges, id) PROVE Contains(id)
  <2>1. PICK k \in 1..Len(ranges) : Covers(ranges[k], id)
    BY <1>3 DEF Holds
  <2>2. \A j \in 1..(k - 1) : id >= Start(ranges[j])
    BY <1>1, <2>1 DEF Compact, Covers
  <2>3. id <= End(ranges[Len(ranges)])
    <3>1. CASE k = Len(ranges)
      BY <3>1, <2>1 DEF Covers
    <3>2. CASE k < Len(ranges)
      <4>1. Len(ranges) \in 1..Len(ranges)
        BY <1>1, <3>2
      <4>2. /\ End(ranges[k]) + 1 < Start(ranges[Len(ranges)])
            /\ Start(ranges[Len(ranges)]) <= End(ranges[Len(ranges)])
        BY <4>1, <3>2 DEF Compact
      <4> QED BY <1>1, <2>1, <4>1, <4>2 DEF Covers
    <3> QED BY <3>1, <3>2, <1>1
  <2> QED BY <1>1, <2>1, <2>2, <2>3 DEF Contains
<1> QED BY <1>2, <1>3

-----------------------------------------------------------------------------
(* What a call does to the invariant in each of its three cases. *)

LEMMA ExtendLastKeeps ==
    ASSUME RangesInv, phase = "idle",
           NEW start \in Ids, NEW end \in Ids, start <= end,
           marked' = marked \cup (start..end), ExtendLast(start, end)
    PROVE  RangesInv'
<1> DEFINE n == Len(ranges)
           last == ranges[n]
           wider == <<Start(last), Larger(End(last), end)>>
<1>1. /\ ranges \in Lists /\ n \in Nat /\ n \in 1..n /\ start \in Int /\ end \in Int
      /\ \A k \in 1..n : Start(ranges[k]) \in Int /\ End(ranges[k]) \in Int
  BY IdsAreIntegers DEF RangesInv, TypeOK, Lists, ExtendLast, Start, End
<1>2. /\ ranges' = [ranges EXCEPT ![n] = wider]
      /\ UNCHANGED <<phase, newStart, newEnd, merged, inserted, next>>
  BY DEF ExtendLast, Loop
<1>3. /\ Start(last) <= start /\ start <= End(last) + 1
      /\ wider \in Int \X Int
      /\ Start(wider) = Start(last) /\ End(wider) = Larger(End(last), end)
  BY <1>1 DEF ExtendLast, TouchesLast, Larger, Start, End
<1>4. /\ ranges' \in Lists /\ Len(ranges') = n /\ ranges'[n] = wider
      /\ \A k \in 1..n : k # n => ranges'[k] = ranges[k]
  BY <1>1, <1>2, <1>3 DEF Lists
<1> HIDE DEF n, last, wider
<1>5. TypeOK'
  <2>1. marked' \subseteq Int
    BY <1>1 DEF RangesInv, TypeOK
  <2> QED BY <1>2, <1>4, <2>1 DEF RangesInv, TypeOK, Lists, n
<1>6. Compact(ranges')
  <2>1. \A k \in 1..n : Start(ranges'[k]) <= End(ranges'[k])
    <3> TAKE k \in 1..n
    <3>1. CASE k = n
      BY <1>1, <1>3, <1>4, <3>1 DEF RangesInv, Compact, Larger, n, last
    <3>2. CASE k # n
      BY <1>4, <3>2 DEF RangesInv, Compact, n
    <3> QED BY <3>1, <3>2
  <2>2. \A j, k \in 1..n : j < k => End(ranges'[j]) + 1 < Start(ranges'[k])
    <3> SUFFICES ASSUME NEW j \in 1..n, NEW k \in 1..n, j < k
                 PROVE  End(ranges'[j]) + 1 < Start(ranges'[k])
      OBVIOUS
    <3>1. /\ j # n /\ ranges'[j] = ranges[j]
          /\ End(ranges[j]) + 1 < Start(ranges[k])
      BY <1>1, <1>4 DEF RangesInv, Compact, n
    <3>2. Start(ranges'[k]) = Start(ranges[k])
      BY <1>3, <1>4 DEF last
    <3> QED BY <3>1, <3>2
  <2> QED BY <1>4, <2>1, <2>2 DEF Compact
<1>7. ASSUME NEW id \in Int
      PROVE  Holds(ranges', id) <=> Holds(ranges, id) \/ id \in start..end
  <2>1. Covers(wider, id) <=> Covers(last, id) \/ id \in start..end
    BY <1>1, <1>3 DEF Covers, Larger, RangesInv, Compact, n, last
  <2> QED BY <1>1, <1>4, <2>1 DEF Holds, n, last
<1>8. IdleInv'
  <2>1. \A id \in Probes : Holds(ranges', id) <=> id \in marked'
    BY <1>7, IdsAreIntegers DEF RangesInv, IdleInv
  <2> QED BY <1>2, <2>1 DEF RangesInv, IdleInv, Holds
<1> QED
  BY <1>2, <1>5, <1>6, <1>8 DEF RangesInv, MergeInv, Compact

LEMMA AppendRangeKeeps ==
    ASSUME RangesInv, phase = "idle",
           NEW start \in Ids, NEW end \in Ids, start <= end,
           marked' = marked \cup (start..end), AppendRange(start, end)
    PROVE  RangesInv'
<1> DEFINE n == Len(ranges)
           new == <<start, end>>
<1>1. /\ ranges \in Lists /\ n \in Nat /\ start \in Int /\ end \in Int
      /\ new \in Int \X Int /\ Start(new) = start /\ End(new) = end
      /\ \A k \in 1..n : Start(ranges[k]) \in Int /\ End(ranges[k]) \in Int
      /\ ranges = <<>> <=> n = 0
  BY IdsAreIntegers DEF RangesInv, TypeOK, Lists, Start, End
<1>2. /\ ranges' = Append(ranges, new)
      /\ UNCHANGED <<phase, newStart, newEnd, merged, inserted, next>>
  BY DEF AppendRange, Loop
<1>3. \A k \in 1..n : End(ranges[k]) + 1 < start
  <2> TAKE k \in 1..n
  <2>1. End(ranges[n]) + 1 < start
    BY <1>1 DEF AppendRange, BeyondLast
  <2>2. CASE k = n
    BY <2>1, <2>2
  <2>3. CASE k < n
    <3>1. /\ End(ranges[k]) + 1 < Start(ranges[n])
          /\ Start(ranges[n]) <= End(ranges[n])
      BY <1>1, <2>3 DEF RangesInv, Compact
    <3> QED BY <1>1, <2>1, <3>1
  <2> QED BY <1>1, <2>2, <2>3
<1> HIDE DEF n, new
<1>4. Compact(ranges')
  BY <1>1, <1>2, <1>3, AppendCompact DEF RangesInv, n
<1>5. TypeOK'
  <2>1. /\ ranges' \in Lists /\ Len(ranges') = n + 1
    BY <1>1, <1>2 DEF Lists, n
  <2>2. marked' \subseteq Int
    BY <1>1 DEF RangesInv, TypeOK
  <2> QED BY <1>1, <1>2, <2>1, <2>2 DEF RangesInv, TypeOK, Lists, n
<1>6. IdleInv'
  <2>1. ASSUME NEW id \in Probes PROVE Holds(ranges', id) <=> id \in marked'
    <3>1. Holds(ranges', id) <=> Holds(ranges, id) \/ Covers(new, id)
      BY <1>1, <1>2, AppendHolds, IdsAreIntegers
    <3>2. Covers(new, id) <=> id \in start..end
      BY <1>1, IdsAreIntegers DEF Covers
    <3> QED BY <3>1, <3>2 DEF RangesInv, IdleInv
  <2> QED BY <1>2, <2>1 DEF RangesInv, IdleInv, Holds
<1> QED
  BY <1>2, <1>4, <1>5, <1>6 DEF RangesInv, MergeInv, Compact

LEMMA BeginMergeKeeps ==
    ASSUME RangesInv, phase = "idle",
           NEW start \in Ids, NEW end \in Ids, start <= end,
           marked' = marked \cup (start..end), BeginMerge(start, end)
    PROVE  RangesInv'
<1>1. /\ start \in Int /\ end \in Int
      /\ phase' = "merge" /\ newStart' = start /\ newEnd' = end
      /\ merged' = <<>> /\ inserted' = FALSE /\ next' = 1 /\ ranges' = ranges
  BY IdsAreIntegers DEF BeginMerge
<1>2. TypeOK'
  <2>1. /\ marked' \subseteq Int /\ merged' \in Lists /\ 1 \in 1..(Len(ranges) + 1)
    BY <1>1 DEF RangesInv, TypeOK, Lists
  <2> QED BY <1>1, <2>1 DEF RangesInv, TypeOK, Lists
<1>3. MergeInv'
  <2>1. Len(merged') = 0
    BY <1>1
  <2>2. Compact(merged')
    BY <2>1 DEF Compact
  <2>3. ASSUME NEW id \in Probes PROVE MergeHolds(id)' <=> id \in marked'
    <3>1. MergeHolds(id)' <=> Holds(ranges, id) \/ (start <= id /\ id <= end)
      BY <1>1, <2>1 DEF MergeHolds, Holds, Covers
    <3> QED BY <3>1, <1>1, IdsAreIntegers DEF RangesInv, IdleInv
  <2> QED BY <1>1, <2>1, <2>2, <2>3 DEF MergeInv, Compact
<1> QED
  BY <1>1, <1>2, <1>3 DEF RangesInv, IdleInv, Compact

-----------------------------------------------------------------------------
(* What an iteration of the loop does, and the end of the loop. *)

(* The common facts of an iteration: the types of what it looks at, and the
   conjuncts of the invariant as they apply to it. *)
LEMMA LoopFacts ==
    ASSUME RangesInv, phase = "merge", next <= Len(ranges)
    PROVE  /\ ranges \in Lists /\ merged \in Lists
           /\ Len(ranges) \in Nat /\ Len(merged) \in Nat
           /\ next \in 1..Len(ranges) /\ next + 1 \in 1..(Len(ranges) + 1)
           /\ ranges[next] \in Int \X Int
           /\ newStart \in Int /\ newEnd \in Int
           /\ \A k \in 1..Len(ranges) : Start(ranges[k]) \in Int /\ End(ranges[k]) \in Int
           /\ \A k \in 1..Len(merged) : Start(merged[k]) \in Int /\ End(merged[k]) \in Int
BY DEF RangesInv, TypeOK, Lists, Start, End

LEMMA LoopInvariant ==
    ASSUME RangesInv, phase = "merge", next <= Len(ranges)
    PROVE  /\ TypeOK /\ Compact(ranges) /\ Compact(merged)
           /\ newStart <= newEnd
           /\ Start(ranges[next]) <= End(ranges[next])
           /\ \A j \in (next + 1)..Len(ranges) : End(ranges[next]) + 1 < Start(ranges[j])
           /\ \A k \in 1..Len(merged) : End(merged[k]) + 1 < Start(ranges[next])
           /\ \A k \in 1..Len(merged), j \in (next + 1)..Len(ranges) :
                 End(merged[k]) + 1 < Start(ranges[j])
           /\ ~inserted => \A k \in 1..Len(merged) : End(merged[k]) + 1 < newStart
           /\ inserted => /\ \E k \in 1..Len(merged) : merged[k] = <<newStart, newEnd>>
                          /\ newEnd + 1 < Start(ranges[next])
                          /\ \A j \in (next + 1)..Len(ranges) : newEnd + 1 < Start(ranges[j])
           /\ \A id \in Probes : MergeHolds(id) <=> id \in marked
<1>1. /\ next \in next..Len(ranges) /\ next \in 1..Len(ranges)
      /\ \A j \in (next + 1)..Len(ranges) :
            j \in next..Len(ranges) /\ j \in 1..Len(ranges) /\ next < j
  BY LoopFacts
<1>2. TypeOK /\ Compact(ranges) /\ MergeInv
  BY DEF RangesInv
<1>3. /\ Start(ranges[next]) <= End(ranges[next])
      /\ \A j \in (next + 1)..Len(ranges) : End(ranges[next]) + 1 < Start(ranges[j])
  BY <1>1, <1>2 DEF Compact
<1> QED BY <1>1, <1>2, <1>3 DEF MergeInv

(* After any iteration, what remains are the ranges beyond the one looked at. *)
LEMMA RemainingRanges ==
    ASSUME RangesInv, phase = "merge", next <= Len(ranges), NEW id \in Int
    PROVE  (\E k \in next..Len(ranges) : Covers(ranges[k], id))
             <=> \/ Covers(ranges[next], id)
                 \/ \E k \in (next + 1)..Len(ranges) : Covers(ranges[k], id)
<1>1. next \in Int /\ Len(ranges) \in Nat /\ next \in next..Len(ranges)
  BY LoopFacts, LoopInvariant
<1>2. \A k : k \in next..Len(ranges) <=> k = next \/ k \in (next + 1)..Len(ranges)
  BY <1>1, LoopFacts, LoopInvariant
<1> QED BY <1>2

LEMMA KeepBeforeKeeps ==
    ASSUME RangesInv, phase = "merge", next <= Len(ranges),
           next' = next + 1, KeepBefore, UNCHANGED <<ranges, phase, marked>>
    PROVE  RangesInv'
<1> DEFINE r == ranges[next]
           m == Len(merged)
<1>1. /\ merged' = Append(merged, r) /\ UNCHANGED <<newStart, newEnd, inserted>>
      /\ End(r) + 1 < newStart
  BY DEF KeepBefore, Before
<1>2. /\ newStart \in Int /\ newEnd \in Int /\ Start(r) \in Int /\ End(r) \in Int
      /\ r \in Int \X Int /\ merged \in Lists /\ m \in Nat
      /\ newStart <= newEnd /\ Start(r) <= End(r)
  BY LoopFacts, LoopInvariant
<1>3. /\ merged' \in Lists /\ Len(merged') = m + 1 /\ merged'[m + 1] = r
      /\ \A k \in 1..m : merged'[k] = merged[k]
  BY <1>1, <1>2 DEF Lists
<1>4. ~inserted
  <2> SUFFICES ASSUME inserted PROVE FALSE
    OBVIOUS
  <2>1. newEnd + 1 < Start(r)
    BY LoopInvariant
  <2> QED BY <1>1, <1>2, <2>1
<1>5. \A k \in 1..m : End(merged[k]) + 1 < newStart /\ End(merged[k]) + 1 < Start(r)
  BY <1>4, LoopInvariant
<1> HIDE DEF r, m
<1>6. TypeOK'
  BY <1>1, <1>3, LoopFacts, LoopInvariant DEF TypeOK, Lists
<1>7. Compact(merged')
  BY <1>1, <1>2, <1>5, AppendCompact, LoopInvariant DEF m
<1>8. \A k \in 1..(m + 1), j \in (next + 1)..Len(ranges) :
         End(merged'[k]) + 1 < Start(ranges[j])
  <2> TAKE k \in 1..(m + 1), j \in (next + 1)..Len(ranges)
  <2>1. CASE k = m + 1
    BY <1>3, <2>1, LoopInvariant DEF r
  <2>2. CASE k # m + 1
    <3>1. k \in 1..m /\ merged'[k] = merged[k]
      BY <1>2, <1>3, <2>2
    <3> QED BY <3>1, LoopInvariant DEF m
  <2> QED BY <2>1, <2>2
<1>9. \A k \in 1..(m + 1) : End(merged'[k]) + 1 < newStart
  BY <1>1, <1>2, <1>3, <1>5
<1>10. ASSUME NEW id \in Probes PROVE MergeHolds(id)' <=> id \in marked'
  <2>1. Holds(merged', id) <=> Holds(merged, id) \/ Covers(r, id)
    BY <1>1, <1>2, AppendHolds, IdsAreIntegers
  <2>2. MergeHolds(id)' <=> MergeHolds(id)
    BY <1>1, <2>1, RemainingRanges, IdsAreIntegers DEF MergeHolds, Holds, r
  <2> QED BY <2>2, LoopInvariant
<1>11. MergeInv'
  BY <1>1, <1>2, <1>3, <1>4, <1>7, <1>8, <1>9, <1>10 DEF MergeInv
<1> QED
  BY <1>6, <1>11, LoopInvariant DEF RangesInv, IdleInv, Compact

LEMMA AbsorbKeeps ==
    ASSUME RangesInv, phase = "merge", next <= Len(ranges),
           next' = next + 1, Absorb, UNCHANGED <<ranges, phase, marked>>
    PROVE  RangesInv'
<1> DEFINE r == ranges[next]
<1>1. /\ newStart' = Smaller(newStart, Start(r)) /\ newEnd' = Larger(newEnd, End(r))
      /\ UNCHANGED <<merged, inserted>>
      /\ ~(End(r) + 1 < newStart) /\ ~(newEnd + 1 < Start(r))
  BY DEF Absorb, Before, After
<1>2. /\ newStart \in Int /\ newEnd \in Int /\ Start(r) \in Int /\ End(r) \in Int
      /\ newStart <= newEnd /\ Start(r) <= End(r)
  BY LoopFacts, LoopInvariant
<1>3. ~inserted
  BY <1>1, LoopInvariant
<1>4. \A k \in 1..Len(merged) : End(merged[k]) + 1 < newStart /\ End(merged[k]) + 1 < Start(r)
  BY <1>3, LoopInvariant
<1> HIDE DEF r
<1>5. newStart' \in Int /\ newEnd' \in Int /\ newStart' <= newEnd'
  BY <1>1, <1>2 DEF Smaller, Larger
<1>6. TypeOK'
  BY <1>1, <1>5, LoopFacts, LoopInvariant DEF TypeOK
<1>7. \A k \in 1..Len(merged) : End(merged[k]) + 1 < newStart'
  BY <1>1, <1>2, <1>4 DEF Smaller
<1>8. ASSUME NEW id \in Probes PROVE MergeHolds(id)' <=> id \in marked'
  <2>1. id \in Int
    BY IdsAreIntegers
  <2>2. (newStart' <= id /\ id <= newEnd')
          <=> ((newStart <= id /\ id <= newEnd) \/ Covers(r, id))
    BY <1>1, <1>2, <2>1 DEF Smaller, Larger, Covers
  <2>3. MergeHolds(id)' <=> MergeHolds(id)
    BY <1>1, <2>1, <2>2, RemainingRanges DEF MergeHolds, Holds, r
  <2> QED BY <2>3, LoopInvariant
<1>9. MergeInv'
  <2>1. Compact(merged')
    BY <1>1, LoopInvariant
  <2>2. \A k \in 1..Len(merged'), j \in next'..Len(ranges') :
           End(merged'[k]) + 1 < Start(ranges'[j])
    BY <1>1, LoopInvariant
  <2> QED BY <1>1, <1>3, <1>5, <1>7, <1>8, <2>1, <2>2 DEF MergeInv
<1> QED
  BY <1>6, <1>9, LoopInvariant DEF RangesInv, IdleInv, Compact

LEMMA KeepAfterKeeps ==
    ASSUME RangesInv, phase = "merge", next <= Len(ranges),
           next' = next + 1, KeepAfter, UNCHANGED <<ranges, phase, marked>>
    PROVE  RangesInv'
<1> DEFINE r == ranges[next]
           new == <<newStart, newEnd>>
           kept == IF inserted THEN merged ELSE Append(merged, new)
           rest == (next + 1)..Len(ranges)
<1>1. /\ newStart \in Int /\ newEnd \in Int /\ Start(r) \in Int /\ End(r) \in Int
      /\ newStart <= newEnd /\ Start(r) <= End(r)
      /\ r \in Int \X Int /\ merged \in Lists /\ Len(merged) \in Nat
      /\ new \in Int \X Int /\ Start(new) = newStart /\ End(new) = newEnd
  BY LoopFacts, LoopInvariant DEF Start, End
<1>2. /\ merged' = Append(kept, r) /\ inserted' = TRUE /\ UNCHANGED <<newStart, newEnd>>
      /\ newEnd + 1 < Start(r)
  <2>1. kept \in Lists
    BY <1>1 DEF Lists
  <2>2. kept \o <<r>> = Append(kept, r)
    BY <1>1, <2>1 DEF Lists
  <2> QED BY <2>2 DEF KeepAfter, After
<1>3. \A j \in rest : End(r) + 1 < Start(ranges[j])
  BY LoopInvariant
<1>4. \A j \in rest : Start(ranges[j]) \in Int /\ newEnd + 1 < Start(ranges[j])
  <2> TAKE j \in rest
  <2>1. j \in 1..Len(ranges)
    BY LoopFacts
  <2>2. Start(ranges[j]) \in Int
    BY <2>1, LoopFacts
  <2>3. End(r) + 1 < Start(ranges[j])
    BY <1>3
  <2> HIDE DEF r, new, kept, rest
  <2> QED BY <1>1, <1>2, <2>2, <2>3
<1>5. /\ kept \in Lists /\ Compact(kept)
      /\ \E k \in 1..Len(kept) : kept[k] = new
      /\ \A k \in 1..Len(kept) : End(kept[k]) + 1 < Start(r)
      /\ \A k \in 1..Len(kept), j \in rest : End(kept[k]) + 1 < Start(ranges[j])
      /\ \A id \in Int : Holds(kept, id) <=> Holds(merged, id) \/ Covers(new, id)
  <2>1. CASE inserted
    <3>1. kept = merged
      BY <2>1
    <3>2. \E k \in 1..Len(merged) : merged[k] = new
      BY <2>1, LoopInvariant
    <3>3. \A id \in Int : Covers(new, id) => Holds(merged, id)
      BY <3>2 DEF Holds
    <3>4. /\ Compact(merged)
          /\ \A k \in 1..Len(merged) : End(merged[k]) + 1 < Start(r)
          /\ \A k \in 1..Len(merged), j \in rest : End(merged[k]) + 1 < Start(ranges[j])
      BY LoopInvariant
    <3> HIDE DEF new, r, kept, rest
    <3> QED BY <1>1, <3>1, <3>2, <3>3, <3>4
  <2>2. CASE ~inserted
    <3>1. kept = Append(merged, new)
      BY <2>2
    <3>2. /\ Compact(merged)
          /\ \A k \in 1..Len(merged) : End(merged[k]) + 1 < newStart
          /\ \A k \in 1..Len(merged) : End(merged[k]) + 1 < Start(r)
          /\ \A k \in 1..Len(merged), j \in rest : End(merged[k]) + 1 < Start(ranges[j])
      BY <2>2, LoopInvariant
    <3> HIDE DEF new, r, kept, rest
    <3>3. kept \in Lists /\ Compact(kept)
      BY <1>1, <3>1, <3>2, AppendHolds, AppendCompact
    <3>4. /\ Len(kept) = Len(merged) + 1 /\ kept[Len(merged) + 1] = new
          /\ \A k \in 1..Len(merged) : kept[k] = merged[k]
          /\ Len(merged) + 1 \in 1..Len(kept)
      BY <1>1, <3>1 DEF Lists
    <3>5. \A k \in 1..Len(kept) : End(kept[k]) + 1 < Start(r)
      <4> TAKE k \in 1..Len(kept)
      <4>1. CASE k = Len(merged) + 1
        BY <1>1, <1>2, <3>4, <4>1
      <4>2. CASE k # Len(merged) + 1
        <5>1. k \in 1..Len(merged) /\ kept[k] = merged[k]
          BY <1>1, <3>4, <4>2
        <5> QED BY <3>2, <5>1
      <4> QED BY <4>1, <4>2
    <3>6. \A k \in 1..Len(kept), j \in rest : End(kept[k]) + 1 < Start(ranges[j])
      <4> TAKE k \in 1..Len(kept), j \in rest
      <4>1. CASE k = Len(merged) + 1
        BY <1>1, <1>4, <3>4, <4>1
      <4>2. CASE k # Len(merged) + 1
        <5>1. k \in 1..Len(merged) /\ kept[k] = merged[k]
          BY <1>1, <3>4, <4>2
        <5> QED BY <3>2, <5>1
      <4> QED BY <4>1, <4>2
    <3>7. \A id \in Int : Holds(kept, id) <=> Holds(merged, id) \/ Covers(new, id)
      BY <1>1, <3>1, AppendHolds
    <3> QED BY <3>3, <3>4, <3>5, <3>6, <3>7
  <2> QED BY <2>1, <2>2
<1> HIDE DEF r, kept, new
<1>6. /\ merged' \in Lists /\ Len(merged') = Len(kept) + 1 /\ merged'[Len(kept) + 1] = r
      /\ \A k \in 1..Len(kept) : merged'[k] = kept[k]
      /\ Len(kept) \in Nat
  <2>1. kept \in Lists /\ r \in Int \X Int /\ merged' = Append(kept, r)
    BY <1>1, <1>2, <1>5
  <2> QED BY <2>1 DEF Lists
<1>7. TypeOK'
  BY <1>2, <1>6, LoopFacts, LoopInvariant DEF TypeOK, Lists
<1>8. Compact(merged')
  BY <1>1, <1>2, <1>5, AppendCompact
<1>9. \A k \in 1..Len(merged'), j \in rest : End(merged'[k]) + 1 < Start(ranges[j])
  BY <1>3, <1>5, <1>6
<1>10. \E k \in 1..Len(merged') : merged'[k] = <<newStart, newEnd>>
  <2>1. \E k \in 1..Len(merged') : merged'[k] = new
    BY <1>5, <1>6
  <2> QED BY <2>1 DEF new
<1>11. ASSUME NEW id \in Probes PROVE MergeHolds(id)' <=> id \in marked'
  <2>1. Holds(merged', id) <=> Holds(merged, id) \/ Covers(new, id) \/ Covers(r, id)
    BY <1>1, <1>2, <1>5, AppendHolds, IdsAreIntegers
  <2>2. Covers(new, id) <=> newStart <= id /\ id <= newEnd
    BY <1>1 DEF Covers
  <2>3. MergeHolds(id)' <=> MergeHolds(id)
    BY <1>2, <2>1, <2>2, RemainingRanges, IdsAreIntegers DEF MergeHolds, Holds, r
  <2> QED BY <2>3, LoopInvariant
<1>12. MergeInv'
  BY <1>1, <1>2, <1>4, <1>8, <1>9, <1>10, <1>11 DEF MergeInv
<1> QED
  BY <1>7, <1>12, LoopInvariant DEF RangesInv, IdleInv, Compact

LEMMA EndMergeKeeps ==
    ASSUME RangesInv, EndMerge
    PROVE  RangesInv'
<1> DEFINE new == <<newStart, newEnd>>
<1>1. /\ phase = "merge" /\ next > Len(ranges)
      /\ ranges' = IF inserted THEN merged ELSE Append(merged, new)
      /\ phase' = "idle" /\ newStart' = 0 /\ newEnd' = 0
      /\ merged' = <<>> /\ inserted' = FALSE /\ next' = 1 /\ marked' = marked
  BY DEF EndMerge
<1>2. /\ TypeOK /\ merged \in Lists /\ Compact(merged)
      /\ newStart \in Int /\ newEnd \in Int /\ newStart <= newEnd
      /\ ~inserted => \A k \in 1..Len(merged) : End(merged[k]) + 1 < newStart
      /\ inserted => \E k \in 1..Len(merged) : merged[k] = new
      /\ \A id \in Probes : MergeHolds(id) <=> id \in marked
  BY <1>1 DEF RangesInv, TypeOK, MergeInv, Lists
<1>3. new \in Int \X Int /\ Start(new) = newStart /\ End(new) = newEnd
  BY <1>2 DEF Start, End
<1>4. ASSUME NEW id \in Probes
      PROVE  MergeHolds(id) <=> Holds(merged, id) \/ Covers(new, id)
  <2>1. ~ \E k \in next..Len(ranges) : Covers(ranges[k], id)
    BY <1>1, <1>2 DEF TypeOK
  <2> QED BY <1>3, <2>1 DEF MergeHolds, Covers
<1> HIDE DEF new
<1>5. /\ ranges' \in Lists /\ Compact(ranges')
      /\ \A id \in Probes : Holds(ranges', id) <=> MergeHolds(id)
  <2>1. CASE inserted
    <3>1. \A id \in Probes : Covers(new, id) => Holds(merged, id)
      BY <1>2, <2>1 DEF Holds
    <3> QED BY <1>1, <1>2, <1>4, <2>1, <3>1
  <2>2. CASE ~inserted
    <3>1. ranges' \in Lists /\ Compact(ranges')
      BY <1>1, <1>2, <1>3, <2>2, AppendCompact, AppendHolds
    <3>2. \A id \in Probes : Holds(ranges', id) <=> Holds(merged, id) \/ Covers(new, id)
      BY <1>1, <1>2, <1>3, <2>2, AppendHolds, IdsAreIntegers
    <3> QED BY <1>4, <3>1, <3>2
  <2> QED BY <2>1, <2>2
<1>6. TypeOK'
  <2>1. merged' \in Lists /\ Len(ranges') \in Nat /\ 0 \in Int
    BY <1>1, <1>5 DEF Lists
  <2>2. 1 \in 1..(Len(ranges') + 1) /\ marked' \subseteq Int
    BY <1>1, <1>2, <2>1 DEF TypeOK
  <2> QED BY <1>1, <1>5, <2>1, <2>2 DEF TypeOK, Lists
<1>7. IdleInv'
  BY <1>1, <1>2, <1>5 DEF IdleInv, Holds
<1> QED
  BY <1>1, <1>5, <1>6, <1>7 DEF RangesInv, MergeInv, Compact

-----------------------------------------------------------------------------

LEMMA InitInv == Init => RangesInv
<1> SUFFICES ASSUME Init PROVE RangesInv
  OBVIOUS
<1>1. ranges = <<>> /\ merged = <<>> /\ Len(ranges) = 0 /\ Len(merged) = 0
  BY DEF Init
<1>2. TypeOK
  <2>1. <<>> \in Seq(Int \X Int) /\ 1 \in 1..(0 + 1) /\ {} \subseteq Int /\ 0 \in Int
    OBVIOUS
  <2> QED BY <1>1, <2>1 DEF Init, TypeOK
<1>3. Compact(ranges) /\ MergeInv /\ IdleInv
  BY <1>1 DEF Init, Compact, MergeInv, IdleInv, Holds
<1> QED BY <1>2, <1>3 DEF RangesInv

LEMMA NextInv == RangesInv /\ [Next]_vars => RangesInv'
<1> SUFFICES ASSUME RangesInv, [Next]_vars PROVE RangesInv'
  OBVIOUS
<1>1. ASSUME NEW start \in Ids, NEW end \in Ids, AddRange(start, end)
      PROVE  RangesInv'
  BY <1>1, ExtendLastKeeps, AppendRangeKeeps, BeginMergeKeeps DEF AddRange
<1>2. CASE MergeNext
  BY <1>2, KeepBeforeKeeps, KeepAfterKeeps, AbsorbKeeps DEF MergeNext
<1>3. CASE EndMerge
  BY <1>3, EndMergeKeeps
<1>4. CASE UNCHANGED vars
  BY <1>4 DEF vars, RangesInv, TypeOK, Compact, MergeInv, MergeHolds, IdleInv, Holds
<1> QED BY <1>1, <1>2, <1>3, <1>4 DEF Next

(* The invariant of the list and of the loop that rebuilds it. *)
THEOREM RangesInductive == Spec => []RangesInv
BY InitInv, NextInv, PTL DEF Spec

(* The list is always sorted, with a gap between each two ranges: ids that meet
   are stored as one range, whatever the order they arrive in. *)
THEOREM AlwaysCompact == Spec => []RangesCompact
<1>1. RangesInv => RangesCompact
  BY DEF RangesInv, RangesCompact
<1> QED BY <1>1, RangesInductive, PTL

(* Between two calls, contains says "processed" of exactly the ids that were
   marked: no id is forgotten and none is invented. *)
THEOREM AlwaysExact == Spec => []ContainsExact
<1>1. RangesInv => ContainsExact
  <2> SUFFICES ASSUME RangesInv, phase = "idle", NEW id \in Probes
               PROVE  Contains(id) <=> id \in marked
    BY DEF ContainsExact
  <2>1. ranges \in Lists /\ Compact(ranges) /\ id \in Int
    BY IdsAreIntegers DEF RangesInv, TypeOK, Lists
  <2>2. Contains(id) <=> Holds(ranges, id)
    BY <2>1, ContainsSearches
  <2> QED BY <2>2 DEF RangesInv, IdleInv
<1> QED BY <1>1, RangesInductive, PTL
=============================================================================
