--------------------------- MODULE ProcessedRanges ---------------------------
(***************************************************************************)
(* common/dedup/ranges.py: the set of processed message ids of a client,   *)
(* kept as a list of closed ranges.  add_range extends or appends at the   *)
(* end of the list, which is where ids that arrive in order go, and        *)
(* otherwise rebuilds the list in a loop.  The loop is modelled one        *)
(* iteration per step, so that its invariant can be checked and proved.    *)
(***************************************************************************)
EXTENDS Integers, Sequences

CONSTANTS
    Ids,        \* the ids that ranges to add are made of
    Probes      \* the ids that contains is asked about

ASSUME IdsAreIntegers == Ids \subseteq Int /\ Probes \subseteq Int

VARIABLES
    ranges,     \* self._ranges
    phase,      \* "idle", or "merge" while add_range is in its loop
    newStart, newEnd, merged, inserted,     \* the locals of that loop
    next,       \* the index of the range the loop looks at next
    marked      \* what the calls so far were asked to remember

vars == <<ranges, phase, newStart, newEnd, merged, inserted, next, marked>>

Start(r) == r[1]
End(r) == r[2]
Smaller(a, b) == IF a <= b THEN a ELSE b
Larger(a, b) == IF a >= b THEN a ELSE b

Covers(r, id) == Start(r) <= id /\ id <= End(r)

(* Whether one of a list's ranges holds id: what a list stands for. *)
Holds(list, id) == \E k \in 1..Len(list) : Covers(list[k], id)

(* contains: the last range is looked at first; the search from the front
   gives up at the first range that starts after the id. *)
Contains(id) ==
    /\ ranges # <<>>
    /\ LET last == ranges[Len(ranges)]
       IN \/ Covers(last, id)
          \/ /\ id <= End(last)
             /\ \E k \in 1..Len(ranges) :
                   /\ Covers(ranges[k], id)
                   /\ \A j \in 1..(k - 1) : id >= Start(ranges[j])

Init ==
    /\ ranges = <<>> /\ marked = {}
    /\ phase = "idle"
    /\ newStart = 0 /\ newEnd = 0 /\ merged = <<>> /\ inserted = FALSE /\ next = 1

-----------------------------------------------------------------------------
(* add_range(start, end), and add(id) when they are equal. *)

TouchesLast(start) ==
    LET last == ranges[Len(ranges)]
    IN Start(last) <= start /\ start <= End(last) + 1

BeyondLast(start) == start > End(ranges[Len(ranges)]) + 1

Loop == <<phase, newStart, newEnd, merged, inserted, next>>

ExtendLast(start, end) ==
    /\ ranges # <<>>
    /\ TouchesLast(start)
    /\ ranges' = [ranges EXCEPT ![Len(ranges)] =
                     <<Start(@), Larger(End(@), end)>>]
    /\ UNCHANGED Loop

AppendRange(start, end) ==
    /\ ranges # <<>> => BeyondLast(start)
    /\ ranges' = Append(ranges, <<start, end>>)
    /\ UNCHANGED Loop

BeginMerge(start, end) ==
    /\ ranges # <<>>
    /\ ~TouchesLast(start) /\ ~BeyondLast(start)
    /\ phase' = "merge"
    /\ newStart' = start /\ newEnd' = end
    /\ merged' = <<>> /\ inserted' = FALSE /\ next' = 1
    /\ UNCHANGED ranges

AddRange(start, end) ==
    /\ phase = "idle"
    /\ start <= end
    /\ marked' = marked \cup (start..end)
    /\ \/ ExtendLast(start, end)
       \/ AppendRange(start, end)
       \/ BeginMerge(start, end)

(* One iteration of the loop, on the range that comes next. *)
BeforeOrAdjacent(r) == End(r) < newStart    \* mutant of Before: off by one

Before(r) == End(r) + 1 < newStart
After(r) == newEnd + 1 < Start(r)

KeepBefore ==
    /\ Before(ranges[next])
    /\ merged' = Append(merged, ranges[next])
    /\ UNCHANGED <<newStart, newEnd, inserted>>

KeepAfter ==
    /\ ~Before(ranges[next]) /\ After(ranges[next])
    /\ merged' = (IF inserted THEN merged ELSE Append(merged, <<newStart, newEnd>>))
                 \o <<ranges[next]>>
    /\ inserted' = TRUE
    /\ UNCHANGED <<newStart, newEnd>>

AbsorbKeepingEnd ==     \* mutant of Absorb: the end is not widened
    /\ ~Before(ranges[next]) /\ ~After(ranges[next])
    /\ newStart' = Smaller(newStart, Start(ranges[next]))
    /\ UNCHANGED <<newEnd, merged, inserted>>

Absorb ==
    /\ ~Before(ranges[next]) /\ ~After(ranges[next])
    /\ newStart' = Smaller(newStart, Start(ranges[next]))
    /\ newEnd' = Larger(newEnd, End(ranges[next]))
    /\ UNCHANGED <<merged, inserted>>

MergeNext ==
    /\ phase = "merge"
    /\ next <= Len(ranges)
    /\ next' = next + 1
    /\ KeepBefore \/ KeepAfter \/ Absorb
    /\ UNCHANGED <<ranges, phase, marked>>

EndMerge ==
    /\ phase = "merge"
    /\ next > Len(ranges)
    /\ ranges' = IF inserted THEN merged ELSE Append(merged, <<newStart, newEnd>>)
    /\ phase' = "idle"
    /\ newStart' = 0 /\ newEnd' = 0 /\ merged' = <<>> /\ inserted' = FALSE /\ next' = 1
    /\ UNCHANGED marked

Next == (\E start, end \in Ids : AddRange(start, end)) \/ MergeNext \/ EndMerge

Spec == Init /\ [][Next]_vars

-----------------------------------------------------------------------------
TypeOK ==
    /\ ranges \in Seq(Int \X Int) /\ merged \in Seq(Int \X Int)
    /\ phase \in {"idle", "merge"}
    /\ newStart \in Int /\ newEnd \in Int
    /\ inserted \in BOOLEAN
    /\ next \in 1..(Len(ranges) + 1)
    /\ marked \subseteq Int

(* A list of non-empty ranges in order, with a gap between each two. *)
Compact(list) ==
    /\ \A k \in 1..Len(list) : Start(list[k]) <= End(list[k])
    /\ \A j, k \in 1..Len(list) : j < k => End(list[j]) + 1 < Start(list[k])

(* The ranges are always sorted, disjoint and not adjacent, whatever the order
   in which the ids came (ranges.py:53-91; test_processed_ranges.py:7-21). *)
RangesCompact == Compact(ranges)

(* Between two calls the list answers "processed" for exactly the ids that were
   marked: none is forgotten, so that no message is processed twice, and none is
   invented, so that no message is thrown away (ranges.py:33-48, 53-91). *)
ContainsExact ==
    phase = "idle" => \A id \in Probes : Contains(id) <=> id \in marked

-----------------------------------------------------------------------------
(* The inductive invariant. *)

(* What the list that is being rebuilt stands for: the part already copied, the
   new range, and the ranges not looked at yet. *)
MergeHolds(id) ==
    \/ Holds(merged, id)
    \/ newStart <= id /\ id <= newEnd
    \/ \E k \in next..Len(ranges) : Covers(ranges[k], id)

MergeInv ==
    phase = "merge" =>
        /\ Compact(merged)
        /\ newStart <= newEnd
        /\ \A k \in 1..Len(merged), j \in next..Len(ranges) :
              End(merged[k]) + 1 < Start(ranges[j])
        /\ ~inserted => \A k \in 1..Len(merged) : End(merged[k]) + 1 < newStart
        /\ inserted => /\ \E k \in 1..Len(merged) : merged[k] = <<newStart, newEnd>>
                       /\ \A j \in next..Len(ranges) : newEnd + 1 < Start(ranges[j])
        /\ \A id \in Probes : MergeHolds(id) <=> id \in marked

IdleInv ==
    phase = "idle" =>
        /\ next = 1
        /\ \A id \in Probes : Holds(ranges, id) <=> id \in marked

RangesInv == TypeOK /\ Compact(ranges) /\ MergeInv /\ IdleInv
=============================================================================
