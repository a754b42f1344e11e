------------------------- MODULE FrameAllocatorProofs -------------------------
(***************************************************************************)
(* For every list of regions, every frame size and every sequence of        *)
(* requests: what the merge builds, and that the blocks handed out are free *)
(* memory, disjoint and frame-aligned.                                      *)
(***************************************************************************)
EXTENDS FrameAllocator, TLAPS

(***************************************************************************)
(* The strengthening.  While merging, the ranges are ascending and separated*)
(* because the last range starts no later than any region still to come;    *)
(* Len(ranges) < i keeps the stack inside its array.  Afterwards the cursor *)
(* (curr inside the skipping loop, current_value elsewhere) is beyond every *)
(* range already passed, and every block ends at or before current_value.   *)
(***************************************************************************)
MergeInv ==
  /\ regions \in RegionLists
  /\ \A j \in 1 .. Len(ranges) : ranges[j].start <= ranges[j].end
  /\ pc = "merge" =>
       /\ i \in 2 .. Len(regions) + 1
       /\ Len(ranges) < i
       /\ \A k \in i .. Len(regions) : ranges[Len(ranges)].start <= regions[k].start
       /\ idx = 0

Merged(n) ==
  /\ \A k \in 1 .. n : \E j \in 1 .. Len(ranges) :
       ranges[j].start <= regions[k].start /\ EndOf(regions[k]) <= ranges[j].end
  /\ \A j \in 1 .. Len(ranges) : \A a \in ranges[j].start .. ranges[j].end - 1 :
       \E k \in 1 .. n : Contains(ToRange(regions[k]), a)

CoverInv ==
  Merged(IF pc = "merge" THEN i - 1 ELSE Len(regions))

Cursor == IF pc = "skip" THEN curr ELSE current_value

CursorInv ==
  /\ pc \in {"merge", "index"} => current_value = Start /\ blocks = {} /\ ~oom
  /\ pc = "skip" => current_value <= curr /\ ranges[idx + 1].start <= curr
  /\ pc # "panicked" => \A j \in 1 .. idx : ranges[j].end <= Cursor
  /\ \E n \in Nat : current_value = Start + Window * n
  /\ \E n \in Nat : pc = "skip" => curr = Start + Window * n

BlockInv ==
  /\ \A b \in blocks :
       /\ b.start + b.size <= current_value
       /\ b.start + b.size <= PhysMemSize
       /\ \E n \in Nat : b.start = Start + Window * n
       /\ \A j \in 1 .. Len(ranges) :
            b.start + b.size <= ranges[j].start \/ ranges[j].end <= b.start
  /\ oom => PhysMemSize < current_value

IInv == TypeOK /\ RangesSeparated /\ MergeInv /\ CoverInv /\ CursorInv
        /\ BlockInv /\ BlocksDisjoint /\ PanicsOnlyWhenFull

-------------------------------------------------------------------------------
Region == [start : Nat, length : Nat]

\* What a region list the bootloader passes looks like.
LEMMA RegionFacts ==
  ASSUME regions \in RegionLists
  PROVE  /\ regions \in Seq(Region)
         /\ Len(regions) \in Nat
         /\ 1 <= Len(regions) /\ Len(regions) <= MaxRangeCount
         /\ \A k \in 1 .. Len(regions) :
              /\ regions[k].start \in Nat /\ regions[k].length \in Nat
              /\ EndOf(regions[k]) \in Nat
              /\ regions[k].start <= EndOf(regions[k])
              /\ ToRange(regions[k]) \in Range
         /\ \A k, l \in 1 .. Len(regions) : k <= l => regions[k].start <= regions[l].start
<1>1. regions \in Seq(Region) /\ Len(regions) \in 1 .. MaxRangeCount
  BY Zenon, RegionListsOK DEF Region
<1>2. \A k \in 1 .. Len(regions) : regions[k] \in Region
  BY <1>1
<1> QED
  BY <1>1, <1>2, RegionListsOK, ConstantsOK, SMTT(60) DEF Region, EndOf, ToRange, Range

\* One iteration of the merge loop of from_memory_regions either pushes the
\* region as a new last range or moves the end of the last range.
LEMMA MergeIntoFacts ==
  ASSUME NEW s \in Seq(Range), Len(s) > 0, NEW r \in Region
  PROVE  /\ MergeInto(s, r) \in Seq(Range)
         /\ \/ /\ s[Len(s)].end < r.start
               /\ Len(MergeInto(s, r)) = Len(s) + 1
               /\ \A j \in 1 .. Len(s) : MergeInto(s, r)[j] = s[j]
               /\ MergeInto(s, r)[Len(s) + 1] = [start |-> r.start, end |-> r.start + r.length]
            \/ /\ r.start <= s[Len(s)].end
               /\ Len(MergeInto(s, r)) = Len(s)
               /\ \A j \in 1 .. Len(s) : j # Len(s) => MergeInto(s, r)[j] = s[j]
               /\ MergeInto(s, r)[Len(s)].start = s[Len(s)].start
               /\ MergeInto(s, r)[Len(s)].end >= s[Len(s)].end
               /\ MergeInto(s, r)[Len(s)].end >= r.start + r.length
               /\ MergeInto(s, r)[Len(s)].end \in {s[Len(s)].end, r.start + r.length}
<1> DEFINE n == Len(s)
<1>1. n \in Nat /\ n >= 1 /\ s[n] \in Range
  OBVIOUS
<1>2. ToRange(r) \in Range /\ r.start \in Nat /\ EndOf(r) \in Nat
  BY DEF ToRange, EndOf, Range, Region
<1>3. CASE StartsBeyond(s[n], r)
  BY <1>1, <1>2, <1>3 DEF MergeInto, StartsBeyond, ToRange, EndOf
<1>4. CASE ~StartsBeyond(s[n], r)
  <2> DEFINE e == MergedEnd(s[n], r)
  <2>1. e \in Nat /\ e >= s[n].end /\ e >= r.start + r.length
        /\ e \in {s[n].end, r.start + r.length}
    BY <1>1, <1>2, SMTT(60) DEF MergedEnd, EndOf, Range, Region
  <2>2. MergeInto(s, r) = [s EXCEPT ![n].end = e]
    BY Zenon, <1>4 DEF MergeInto
  <2> DEFINE top == [start |-> s[n].start, end |-> e]
  <2>3. [s[n] EXCEPT !.end = e] = top
    BY <1>1 DEF Range
  <2>4. top \in Range /\ top.start = s[n].start /\ top.end = e
    BY Zenon, <1>1, <2>1 DEF Range
  <2>5. MergeInto(s, r) = [s EXCEPT ![n] = top]
    BY ZenonT(60), <2>2, <2>3
  <2> HIDE DEF e, top
  <2>6. MergeInto(s, r) \in Seq(Range) /\ Len(MergeInto(s, r)) = n
        /\ \A j \in 1 .. n : j # n => MergeInto(s, r)[j] = s[j]
    BY <1>1, <2>4, <2>5
  <2>9. MergeInto(s, r)[n] = top
    BY <1>1, <2>4, <2>5
  <2>7. r.start <= s[n].end
    BY <1>1, <1>2, <1>4 DEF StartsBeyond, Range
  <2>8. MergeInto(s, r)[n].start = s[n].start /\ MergeInto(s, r)[n].end = e
    BY <2>4, <2>9, Zenon
  <2> QED
    BY Zenon, <1>1, <2>1, <2>6, <2>7, <2>8
<1> QED
  BY Zenon, <1>3, <1>4

\* A request is for a positive number of bytes.
LEMMA RequiredSize ==
  ASSUME count \in Counts
  PROVE  required_size \in Nat /\ required_size > 0
BY ConstantsOK DEF required_size

-------------------------------------------------------------------------------
\* from_memory_regions starts with the first region on the stack.
LEMMA InitInv == Init => IInv
<1> SUFFICES ASSUME Init PROVE IInv
  OBVIOUS
<1> USE DEF Init
<1>0. regions \in RegionLists
  OBVIOUS
<1>1a. /\ regions \in Seq(Region) /\ Len(regions) \in 1 .. MaxRangeCount
       /\ ToRange(regions[1]) \in Range
       /\ \A k \in 1 .. Len(regions) : regions[k].start \in Nat /\ EndOf(regions[k]) \in Nat
       /\ regions[1].start <= EndOf(regions[1])
       /\ \A k \in 1 .. Len(regions) : regions[1].start <= regions[k].start
  BY <1>0, RegionFacts, ConstantsOK, SMTT(60) DEF Region
<1>1b. ToRange(regions[1]).start = regions[1].start /\ ToRange(regions[1]).end = EndOf(regions[1])
  BY Zenon DEF ToRange
<1>1. /\ Len(regions) \in 1 .. MaxRangeCount
      /\ \A k \in 1 .. Len(regions) : regions[k].start \in Nat /\ EndOf(regions[k]) \in Nat
      /\ ToRange(regions[1]).start = regions[1].start
      /\ ToRange(regions[1]).end = EndOf(regions[1])
      /\ regions[1].start <= EndOf(regions[1])
      /\ \A k \in 1 .. Len(regions) : regions[1].start <= regions[k].start
  BY Zenon, <1>1a, <1>1b
<1>2. ranges \in Seq(Range) /\ Len(ranges) = 1 /\ ranges[1] = ToRange(regions[1])
  BY <1>1a
<1>3. TypeOK
  <2>1. idx = 0 /\ count = 0 /\ curr = 0 /\ calls = 0 /\ i = 2 /\ pc = "merge"
        /\ current_value = Start /\ blocks = {} /\ oom = FALSE
    OBVIOUS
  <2>2. oom \in BOOLEAN /\ blocks \subseteq Block
    BY ZenonT(60), <2>1
  <2>3. count \in Counts \cup {0} /\ pc \notin {"skip", "next"} /\ calls \in 0 .. MaxCalls
    BY <2>1, ConstantsOK
  <2> QED
    BY <1>1a, <1>2, <2>1, <2>2, <2>3, ConstantsOK DEF TypeOK, Region
<1>4. RangesSeparated /\ BlocksDisjoint /\ PanicsOnlyWhenFull
  BY <1>2 DEF RangesSeparated, BlocksDisjoint, PanicsOnlyWhenFull
<1>5. MergeInv
  BY <1>1, <1>2 DEF MergeInv
<1>6. CoverInv
  <2>1. Merged(1)
    BY <1>1, <1>2 DEF Merged, Contains
  <2> QED
    BY <2>1 DEF CoverInv
<1>7. CursorInv
  <2>1. Start = Start + Window * 0
    BY ConstantsOK
  <2> QED
    BY <2>1 DEF CursorInv, Cursor
<1>8. BlockInv
  BY Zenon DEF BlockInv
<1> QED
  BY Zenon, <1>3, <1>4, <1>5, <1>6, <1>7, <1>8 DEF IInv

\* The merge loop of from_memory_regions.
LEMMA MergeRegionInv == IInv /\ MergeRegion => IInv'
<1> SUFFICES ASSUME IInv, MergeRegion PROVE IInv'
  OBVIOUS
<1> DEFINE n == Len(ranges)
           r == regions[i]
<1>1. ranges \in Seq(Range) /\ n \in Nat /\ n > 0
  BY DEF IInv, TypeOK
<1>2. pc = "merge" /\ pc' = "merge" /\ regions' = regions
  BY Zenon DEF MergeRegion
<1>3. /\ regions \in RegionLists /\ i \in 2 .. Len(regions) /\ n < i /\ i' = i + 1
      /\ Len(regions) \in Nat
  <2>1. regions \in RegionLists /\ i \in 2 .. Len(regions) + 1 /\ n < i
    BY Zenon, <1>2 DEF IInv, MergeInv
  <2> QED
    BY <2>1, RegionFacts DEF MergeRegion
<1>4. r \in Region
  BY <1>3, RegionFacts
<1>5. r.start \in Nat /\ r.length \in Nat /\ EndOf(r) = r.start + r.length
  BY Zenon, <1>4 DEF Region, EndOf
<1>6. \A j \in 1 .. n : ranges[j].start \in Nat /\ ranges[j].end \in Nat
  <2>1. \A j \in 1 .. n : ranges[j] \in Range
    BY <1>1
  <2> QED
    BY Zenon, <2>1 DEF Range
<1>7. ranges' = MergeInto(ranges, r)
  BY Zenon DEF MergeRegion
<1>8. ranges' \in Seq(Range)
  BY ZenonT(60), <1>1, <1>4, <1>7, MergeIntoFacts
<1> DEFINE Push ==
             /\ ranges[n].end < r.start
             /\ Len(ranges') = n + 1
             /\ \A j \in 1 .. n : ranges'[j] = ranges[j]
             /\ ranges'[n + 1].start = r.start
             /\ ranges'[n + 1].end = r.start + r.length
           Extend ==
             /\ r.start <= ranges[n].end
             /\ Len(ranges') = n
             /\ \A j \in 1 .. n : j # n => ranges'[j] = ranges[j]
             /\ ranges'[n].start = ranges[n].start
             /\ ranges'[n].end >= ranges[n].end
             /\ ranges'[n].end >= r.start + r.length
             /\ ranges'[n].end \in {ranges[n].end, r.start + r.length}
<1>9. Push \/ Extend
  <2>1. \/ /\ ranges[n].end < r.start
           /\ Len(ranges') = n + 1
           /\ \A j \in 1 .. n : ranges'[j] = ranges[j]
           /\ ranges'[n + 1] = [start |-> r.start, end |-> r.start + r.length]
        \/ Extend
    BY Zenon, <1>1, <1>4, <1>7, MergeIntoFacts
  <2>2. ASSUME NEW x, x = [start |-> r.start, end |-> r.start + r.length]
        PROVE  x.start = r.start /\ x.end = r.start + r.length
    BY Zenon, <2>2
  <2> HIDE DEF r, n
  <2> QED
    BY Zenon, <2>1, <2>2
<1>10. /\ \A j, k \in 1 .. n : j < k => ranges[j].end < ranges[k].start
       /\ \A j \in 1 .. n : ranges[j].start <= ranges[j].end
  BY Zenon DEF IInv, RangesSeparated, MergeInv
<1>11. /\ current_value = Start /\ current_value' = Start /\ blocks' = {} /\ oom' = FALSE
       /\ idx' = 0 /\ curr' = curr /\ count' = count /\ calls' = calls
  BY <1>2 DEF IInv, MergeInv, CursorInv, MergeRegion
<1>12. BlockInv' /\ BlocksDisjoint' /\ PanicsOnlyWhenFull'
  BY Zenon, <1>2, <1>11 DEF BlockInv, BlocksDisjoint, PanicsOnlyWhenFull
<1>13. CursorInv'
  <2>1. Start = Start + Window * 0
    BY ConstantsOK
  <2> QED
    BY <1>2, <1>11, <2>1 DEF CursorInv, Cursor
<1>14. TypeOK'
  <2>1. Len(ranges') \in 1 .. MaxRangeCount
    BY <1>1, <1>3, <1>9, RegionFacts, ConstantsOK, SMTT(60)
  <2>2. regions' \in Seq([start : Nat, length : Nat]) /\ curr' \in Nat
        /\ count' \in Counts \cup {0} /\ calls' \in 0 .. MaxCalls
    BY Zenon, <1>2, <1>11 DEF IInv, TypeOK
  <2>3. oom' \in BOOLEAN /\ blocks' \subseteq Block
    BY ZenonT(60), <1>11
  <2>4. pc' \in {"merge", "index", "ready", "next", "skip", "panicked"} /\ pc' \notin {"next", "skip"}
    BY Zenon, <1>2
  <2>5. idx' \in 0 .. Len(ranges') /\ i' \in Nat \ {0}
    BY <1>3, <1>11, <2>1
  <2> QED
    BY Zenon, <1>8, <1>11, <2>1, <2>2, <2>3, <2>4, <2>5, ConstantsOK DEF TypeOK
<1> HIDE DEF n, r
<1>15. RangesSeparated'
  <2> SUFFICES ASSUME NEW j \in 1 .. Len(ranges'), NEW k \in 1 .. Len(ranges'), j < k
               PROVE  ranges'[j].end < ranges'[k].start
    BY Zenon DEF RangesSeparated
  <2>1. CASE Push
    <3>1. CASE k = n + 1
      <4>0. j \in 1 .. n
        BY <1>1, <2>1, <3>1
      <4>1. j \in 1 .. n /\ ranges'[j] = ranges[j]
        BY Zenon, <2>1, <4>0
      <4>2. n \in 1 .. n
        BY <1>1
      <4>3. ranges[j].end <= ranges[n].end
        <5>1. CASE j = n
          BY <1>6, <4>2, <5>1
        <5>2. CASE j # n
          <6>1. j < n
            BY <1>1, <4>0, <5>2
          <6> QED
            BY <1>6, <1>10, <4>1, <4>2, <6>1, SMTT(60)
        <5> QED
          BY Zenon, <5>1, <5>2
      <4> QED
        BY <1>5, <1>6, <2>1, <3>1, <4>1, <4>2, <4>3
    <3>2. CASE k # n + 1
      <4>1. j \in 1 .. n /\ k \in 1 .. n
        BY <1>1, <2>1, <3>2
      <4> QED
        BY Zenon, <1>10, <2>1, <4>1
    <3> QED
      BY Zenon, <3>1, <3>2
  <2>2. CASE Extend
    <3>1. j \in 1 .. n /\ k \in 1 .. n /\ j # n
      BY <1>1, <2>2
    <3>2. ranges'[j] = ranges[j] /\ ranges'[k].start = ranges[k].start
      BY Zenon, <2>2, <3>1
    <3> QED
      BY Zenon, <1>10, <3>1, <3>2
  <2> QED
    BY Zenon, <1>9, <2>1, <2>2
<1>16. MergeInv'
  <2>1. i' \in 2 .. Len(regions') + 1 /\ Len(ranges') < i'
    BY <1>1, <1>2, <1>3, <1>9
  <2>2. \A j \in 1 .. Len(ranges') : ranges'[j].start <= ranges'[j].end
    <3> SUFFICES ASSUME NEW j \in 1 .. Len(ranges') PROVE ranges'[j].start <= ranges'[j].end
      OBVIOUS
    <3>0. n \in 1 .. n
      BY <1>1
    <3>1. CASE Push
      <4>1. j \in 1 .. n \/ j = n + 1
        BY <1>1, <3>1
      <4> QED
        BY <1>5, <1>10, <3>1, <4>1
    <3>2. CASE Extend
      <4>1. CASE j = n
        BY <1>5, <1>6, <1>10, <3>0, <3>2, <4>1
      <4>2. CASE j # n
        BY Zenon, <1>10, <3>2, <4>2
      <4> QED
        BY Zenon, <4>1, <4>2
    <3> QED
      BY Zenon, <1>9, <3>1, <3>2
  <2>3. \A k \in i' .. Len(regions') : ranges'[Len(ranges')].start <= regions'[k].start
    <3> SUFFICES ASSUME NEW k \in i + 1 .. Len(regions)
                 PROVE  ranges'[Len(ranges')].start <= regions[k].start
      BY Zenon, <1>2, <1>3
    <3>1. k \in i .. Len(regions)
      BY <1>3
    <3>2. r.start <= regions[k].start
      <4>1. i \in 1 .. Len(regions) /\ k \in 1 .. Len(regions) /\ i <= k
        BY <1>3, <3>1
      <4>2. \A x, y \in 1 .. Len(regions) : x <= y => regions[x].start <= regions[y].start
        BY Zenon, <1>3, RegionFacts
      <4> QED
        BY Zenon, <4>1, <4>2 DEF r
    <3>3. ranges[n].start <= regions[k].start
      BY Zenon, <1>2, <3>1 DEF IInv, MergeInv, n
    <3> QED
      BY Zenon, <1>9, <3>2, <3>3
  <2> QED
    BY Zenon, <1>2, <1>3, <1>11, <2>1, <2>2, <2>3 DEF MergeInv
<1>17. CoverInv'
  <2>0. /\ \A k \in 1 .. i - 1 : \E j \in 1 .. n :
             ranges[j].start <= regions[k].start /\ EndOf(regions[k]) <= ranges[j].end
        /\ \A j \in 1 .. n : \A a \in ranges[j].start .. ranges[j].end - 1 :
             \E k \in 1 .. i - 1 : Contains(ToRange(regions[k]), a)
    BY Zenon, <1>2 DEF IInv, CoverInv, Merged, n
  <2>1. ASSUME NEW k \in 1 .. i
        PROVE  \E j \in 1 .. Len(ranges') :
                 ranges'[j].start <= regions[k].start /\ EndOf(regions[k]) <= ranges'[j].end
    <3>0. n \in 1 .. n
      BY <1>1
    <3>1. CASE k = i
      <4>0. regions[k] = r
        BY Zenon, <3>1 DEF r
      <4>1. CASE Push
        <5>1. n + 1 \in 1 .. Len(ranges')
          BY <1>1, <4>1
        <5>2. ranges'[n + 1].start <= r.start /\ EndOf(r) <= ranges'[n + 1].end
          BY <1>5, <4>1
        <5> QED
          BY Zenon, <4>0, <5>1, <5>2
      <4>2. CASE Extend
        <5>1. n \in 1 .. Len(ranges')
          BY <1>1, <4>2
        <5>2. ranges[n].start <= r.start
          BY <1>2, <1>3 DEF IInv, MergeInv, n, r
        <5>3. ranges'[n].start <= r.start /\ EndOf(r) <= ranges'[n].end
          BY Zenon, <1>5, <1>6, <3>0, <4>2, <5>2
        <5> QED
          BY Zenon, <4>0, <5>1, <5>3
      <4> QED
        BY Zenon, <1>9, <4>1, <4>2
    <3>2. CASE k # i
      <4>1. PICK j \in 1 .. n : ranges[j].start <= regions[k].start /\ EndOf(regions[k]) <= ranges[j].end
        <5>1. k \in 1 .. i - 1
          BY <1>3, <3>2
        <5> QED
          BY Zenon, <2>0, <5>1
      <4>2. EndOf(regions[k]) \in Nat
        BY <1>3, RegionFacts
      <4>3. j \in 1 .. Len(ranges')
        BY <1>1, <1>9
      <4>4. ranges'[j].start = ranges[j].start
        BY Zenon, <1>9
      <4>5. ranges'[j].end \in Nat /\ ranges'[j].end >= ranges[j].end
        BY <1>5, <1>6, <1>9
      <4>6. EndOf(regions[k]) <= ranges'[j].end
        BY <1>6, <4>1, <4>2, <4>5
      <4> QED
        BY Zenon, <4>1, <4>3, <4>4, <4>6
    <3> QED
      BY Zenon, <3>1, <3>2
  <2>2. ASSUME NEW j \in 1 .. Len(ranges'), NEW a \in ranges'[j].start .. ranges'[j].end - 1
        PROVE  \E k \in 1 .. i : Contains(ToRange(regions[k]), a)
    <3>1. CASE j \in 1 .. n /\ a \in ranges[j].start .. ranges[j].end - 1
      <4>1. PICK k \in 1 .. i - 1 : Contains(ToRange(regions[k]), a)
        BY Zenon, <2>0, <3>1
      <4> QED
        BY <1>3, <4>1
    <3>2. CASE ~(j \in 1 .. n /\ a \in ranges[j].start .. ranges[j].end - 1)
      <4>1. r.start <= a /\ a < r.start + r.length
        <5>1. CASE Push
          <6>1. j = n + 1
            BY <1>1, <3>2, <5>1
          <6> QED
            BY <1>5, <5>1, <6>1
        <5>2. CASE Extend
          <6>1. j \in 1 .. n
            BY Zenon, <5>2
          <6>2. j = n
            BY Zenon, <3>2, <5>2, <6>1
          <6> QED
            BY <1>5, <1>6, <3>2, <5>2, <6>1, <6>2, SMTT(60)
        <5> QED
          BY Zenon, <1>9, <5>1, <5>2
      <4>2. Contains(ToRange(r), a)
        BY Zenon, <1>5, <4>1 DEF Contains, ToRange
      <4> QED
        BY <1>3, <4>2 DEF r
    <3> QED
      BY Zenon, <3>1, <3>2
  <2>3. (IF pc = "merge" THEN i - 1 ELSE Len(regions))' = i
    BY <1>2, <1>3
  <2> QED
    BY Zenon, <1>2, <2>1, <2>2, <2>3 DEF CoverInv, Merged
<1> QED
  BY Zenon, <1>12, <1>13, <1>14, <1>15, <1>16, <1>17 DEF IInv

-------------------------------------------------------------------------------
\* Once merging is over the ranges do not change any more, and neither does
\* what is known about them.
LEMMA RangesKept ==
  ASSUME IInv, regions' = regions, ranges' = ranges, pc # "merge", pc' # "merge"
  PROVE  RangesSeparated' /\ MergeInv' /\ CoverInv'
<1>1. RangesSeparated'
  BY Zenon DEF IInv, RangesSeparated
<1>2. MergeInv'
  BY Zenon DEF IInv, MergeInv
<1>3. CoverInv'
  BY Zenon DEF IInv, CoverInv, Merged
<1> QED
  BY Zenon, <1>1, <1>2, <1>3

\* Number facts about the state, for the steps below.
LEMMA StateFacts ==
  ASSUME IInv
  PROVE  /\ Len(ranges) \in Nat /\ Len(ranges) > 0 /\ idx \in Nat /\ idx <= Len(ranges)
         /\ Len(ranges) <= MaxRangeCount
         /\ current_value \in Nat /\ curr \in Nat /\ i \in Nat /\ i > 0
         /\ \A j \in 1 .. Len(ranges) :
              /\ ranges[j].start \in Nat /\ ranges[j].end \in Nat
              /\ ranges[j].start <= ranges[j].end
         /\ \A j, k \in 1 .. Len(ranges) : j < k => ranges[j].end < ranges[k].start
<1>1. ranges \in Seq(Range) /\ Len(ranges) \in 1 .. MaxRangeCount /\ idx \in 0 .. Len(ranges)
      /\ current_value \in Nat /\ curr \in Nat /\ i \in Nat \ {0}
  BY Zenon DEF IInv, TypeOK
<1>2. \A j \in 1 .. Len(ranges) : ranges[j] \in Range
  BY <1>1
<1>3. \A j \in 1 .. Len(ranges) : ranges[j].start \in Nat /\ ranges[j].end \in Nat
  BY Zenon, <1>2 DEF Range
<1>4. \A j \in 1 .. Len(ranges) : ranges[j].start <= ranges[j].end
  BY Zenon DEF IInv, MergeInv
<1>5. \A j, k \in 1 .. Len(ranges) : j < k => ranges[j].end < ranges[k].start
  BY Zenon DEF IInv, RangesSeparated
<1> QED
  BY <1>1, <1>3, <1>4, <1>5, ConstantsOK

\* When the merge loop ends every region has been folded into a range.
LEMMA MergeDoneInv == IInv /\ MergeDone => IInv'
<1> SUFFICES ASSUME IInv, MergeDone PROVE IInv'
  OBVIOUS
<1>1. pc = "merge" /\ pc' = "index" /\ i > Len(regions) /\ i' = 1
      /\ UNCHANGED <<regions, ranges, idx, current_value, curr, count, blocks, oom, calls>>
  BY Zenon DEF MergeDone
<1>2. idx = 0 /\ i - 1 = Len(regions)
  BY <1>1, RegionFacts DEF IInv, MergeInv
<1>3. TypeOK'
  BY <1>1 DEF IInv, TypeOK
<1>4. RangesSeparated' /\ MergeInv'
  BY Zenon, <1>1 DEF IInv, RangesSeparated, MergeInv
<1>5. CoverInv'
  BY Zenon, <1>1, <1>2 DEF IInv, CoverInv, Merged
<1>6. CursorInv'
  BY Zenon, <1>1, <1>2 DEF IInv, CursorInv, Cursor
<1>7. BlockInv' /\ BlocksDisjoint' /\ PanicsOnlyWhenFull'
  BY Zenon, <1>1 DEF IInv, BlockInv, BlocksDisjoint, PanicsOnlyWhenFull
<1> QED
  BY Zenon, <1>3, <1>4, <1>5, <1>6, <1>7 DEF IInv

\* The loop for initial_index passes only ranges that end at or before Start.
LEMMA InitialIndexInv == IInv /\ InitialIndex => IInv'
<1> SUFFICES ASSUME IInv, InitialIndex PROVE IInv'
  OBVIOUS
<1>1. pc = "index" /\ pc' = pc /\ i <= Len(ranges) /\ i' = i + 1
      /\ idx' = (IF ranges[i].end <= Start THEN i ELSE idx)
      /\ UNCHANGED <<regions, ranges, current_value, curr, count, blocks, oom, calls>>
  BY Zenon DEF InitialIndex
<1>2. idx' \in 0 .. Len(ranges)
  BY <1>1, StateFacts
<1>3. TypeOK'
  BY <1>1, <1>2 DEF IInv, TypeOK
<1>4. RangesSeparated' /\ MergeInv' /\ CoverInv'
  BY Zenon, <1>1, RangesKept
<1>5. CursorInv'
  <2>1. current_value = Start /\ \A j \in 1 .. idx : ranges[j].end <= Start
    BY Zenon, <1>1 DEF IInv, CursorInv, Cursor
  <2>2. \A j \in 1 .. idx' : ranges[j].end <= Start
    <3>1. CASE ranges[i].end <= Start
      <4> SUFFICES ASSUME NEW j \in 1 .. i PROVE ranges[j].end <= Start
        BY Zenon, <1>1, <3>1
      <4>1. j \in 1 .. Len(ranges) /\ i \in 1 .. Len(ranges)
        BY <1>1, StateFacts
      <4>2. CASE j = i
        BY Zenon, <3>1, <4>2
      <4>3. CASE j < i
        <5>1. ranges[j].end < ranges[i].start /\ ranges[i].start <= ranges[i].end
          BY Zenon, <4>1, <4>3, StateFacts
        <5>2. ranges[j].end \in Nat /\ ranges[i].start \in Nat /\ ranges[i].end \in Nat
          BY Zenon, <4>1, StateFacts
        <5> QED
          BY <3>1, <5>1, <5>2, ConstantsOK
      <4> QED
        BY <4>1, <4>2, <4>3
    <3>2. CASE ~(ranges[i].end <= Start)
      BY Zenon, <1>1, <2>1, <3>2
    <3> QED
      BY Zenon, <3>1, <3>2
  <2> QED
    BY Zenon, <1>1, <2>1, <2>2 DEF IInv, CursorInv, Cursor
<1>6. BlockInv' /\ BlocksDisjoint' /\ PanicsOnlyWhenFull'
  BY Zenon, <1>1 DEF IInv, BlockInv, BlocksDisjoint, PanicsOnlyWhenFull
<1> QED
  BY Zenon, <1>3, <1>4, <1>5, <1>6 DEF IInv

\* LinkedRangeIterator::new keeps what the two loops have built.
LEMMA InitDoneInv == IInv /\ InitDone => IInv'
<1> SUFFICES ASSUME IInv, InitDone PROVE IInv'
  OBVIOUS
<1>1. pc = "index" /\ pc' = "ready"
      /\ UNCHANGED <<regions, i, ranges, idx, current_value, curr, count, blocks, oom, calls>>
  BY Zenon DEF InitDone
<1>2. TypeOK'
  BY Zenon, <1>1 DEF IInv, TypeOK
<1>3. RangesSeparated' /\ MergeInv' /\ CoverInv'
  BY Zenon, <1>1, RangesKept
<1>4. CursorInv'
  BY Zenon, <1>1 DEF IInv, CursorInv, Cursor
<1>5. BlockInv' /\ BlocksDisjoint' /\ PanicsOnlyWhenFull'
  BY Zenon, <1>1 DEF IInv, BlockInv, BlocksDisjoint, PanicsOnlyWhenFull
<1> QED
  BY Zenon, <1>2, <1>3, <1>4, <1>5 DEF IInv

\* A request changes nothing but its own argument.
LEMMA RequestInv == ASSUME NEW n \in Counts PROVE IInv /\ Request(n) => IInv'
<1> SUFFICES ASSUME IInv, Request(n) PROVE IInv'
  OBVIOUS
<1>1. pc = "ready" /\ pc' = "next" /\ count' = n /\ calls < MaxCalls /\ calls' = calls + 1
      /\ UNCHANGED <<regions, i, ranges, idx, current_value, curr, blocks, oom>>
  BY Zenon DEF Request, iterVars
<1>2. calls' \in 0 .. MaxCalls
  BY <1>1, ConstantsOK DEF IInv, TypeOK
<1>3. TypeOK'
  BY Zenon, <1>1, <1>2 DEF IInv, TypeOK
<1>4. RangesSeparated' /\ MergeInv' /\ CoverInv'
  BY Zenon, <1>1, RangesKept
<1>5. CursorInv'
  BY Zenon, <1>1 DEF IInv, CursorInv, Cursor
<1>6. BlockInv' /\ BlocksDisjoint' /\ PanicsOnlyWhenFull'
  BY Zenon, <1>1 DEF IInv, BlockInv, BlocksDisjoint, PanicsOnlyWhenFull
<1> QED
  BY Zenon, <1>3, <1>4, <1>5, <1>6 DEF IInv

-------------------------------------------------------------------------------
\* A multiple of the frame size stays one when a whole request is added.
LEMMA Aligned ==
  ASSUME NEW c \in Nat, \E n \in Nat : c = Start + Window * n, count \in Counts
  PROVE  \E n \in Nat : c + required_size = Start + Window * n
<1>1. PICK n \in Nat : c = Start + Window * n
  OBVIOUS
<1>2. count \in Nat /\ Window \in Nat /\ Start \in Nat
  BY Zenon, ConstantsOK
<1>3. n + count \in Nat /\ Window * (n + count) = Window * n + Window * count
  BY <1>2
<1>4. Window * n \in Nat /\ Window * count \in Nat
  BY <1>2
<1>5. c + required_size = Start + Window * (n + count)
  BY <1>1, <1>2, <1>3, <1>4 DEF required_size
<1> QED
  BY Zenon, <1>3, <1>5

\* allocate_frames keeps the invariant whenever next_n returns a current_value
\* whose block meets no range: the two places next_n returns from.
LEMMA AnswerInv ==
  ASSUME IInv, pc = "next", Answer(current_value),
         \A j \in 1 .. Len(ranges) :
           current_value + required_size <= ranges[j].start \/ ranges[j].end <= current_value
  PROVE  IInv'
<1> DEFINE new == [start |-> current_value, size |-> required_size]
<1>1. pc' = "ready" /\ current_value' = current_value + required_size
      /\ UNCHANGED <<regions, i, ranges, idx, curr, count, calls>>
  BY Zenon DEF Answer, Advanced, iterVars
<1>2. \/ current_value + required_size > PhysMemSize /\ oom' = TRUE /\ blocks' = blocks
      \/ ~(current_value + required_size > PhysMemSize)
         /\ blocks' = blocks \cup {new} /\ oom' = oom
  <2>1. current_value \in Nat /\ base_address + current_value = current_value
        /\ phys_mem_right_boundary = PhysMemSize
    BY StateFacts, ConstantsOK DEF base_address, phys_mem_right_boundary
  <2> QED
    BY Zenon, <2>1 DEF Answer, OutOfMemory
<1>3. count \in Counts /\ required_size \in Nat \ {0} /\ current_value \in Nat
      /\ PhysMemSize \in Nat
  BY RequiredSize, ConstantsOK, StateFacts DEF IInv, TypeOK
<1>4. current_value' \in Nat /\ current_value <= current_value'
      /\ current_value' = current_value + required_size
  BY <1>1, <1>3
<1>5. new \in Block /\ new.start = current_value /\ new.size = required_size
  BY Zenon, <1>3 DEF Block
<1> HIDE DEF new
<1>6. blocks \subseteq Block
  BY Zenon DEF IInv, TypeOK
<1>7. blocks' \subseteq Block
  BY Zenon, <1>2, <1>5, <1>6
<1>8. oom' \in BOOLEAN
  BY ZenonT(60), <1>2 DEF IInv, TypeOK
<1>9. TypeOK'
  BY Zenon, <1>1, <1>4, <1>7, <1>8 DEF IInv, TypeOK
<1>10. RangesSeparated' /\ MergeInv' /\ CoverInv'
  BY Zenon, <1>1, RangesKept
<1>11. CursorInv'
  <2>1. \A j \in 1 .. idx : ranges[j].end <= current_value
    BY Zenon DEF IInv, CursorInv, Cursor
  <2>2. \A j \in 1 .. idx : ranges[j].end <= current_value'
    BY <2>1, <1>4, <1>3, StateFacts, SMTT(60)
  <2>3. \E n \in Nat : current_value' = Start + Window * n
    BY Zenon, <1>1, <1>3, Aligned DEF IInv, CursorInv
  <2> QED
    BY Zenon, <1>1, <2>2, <2>3 DEF CursorInv, Cursor
<1>12. BlockInv'
  <2>1. ASSUME NEW b \in blocks
        PROVE  /\ b.start + b.size <= current_value'
               /\ b.start + b.size <= PhysMemSize
               /\ \E n \in Nat : b.start = Start + Window * n
               /\ \A j \in 1 .. Len(ranges) :
                    b.start + b.size <= ranges[j].start \/ ranges[j].end <= b.start
    <3>1. b.start + b.size <= current_value
      BY Zenon, <2>1 DEF IInv, BlockInv
    <3>2. b.start \in Nat /\ b.size \in Nat
      BY Zenon, <1>6, <2>1 DEF Block
    <3>3. b.start + b.size <= current_value'
      BY <3>1, <3>2, <1>3, <1>4
    <3> QED
      BY Zenon, <2>1, <3>3 DEF IInv, BlockInv
  <2>2. ASSUME ~(current_value + required_size > PhysMemSize)
        PROVE  /\ new.start + new.size <= current_value'
               /\ new.start + new.size <= PhysMemSize
               /\ \E n \in Nat : new.start = Start + Window * n
               /\ \A j \in 1 .. Len(ranges) :
                    new.start + new.size <= ranges[j].start \/ ranges[j].end <= new.start
    <3>1. new.start + new.size = current_value + required_size
      BY Zenon, <1>5
    <3>2. new.start + new.size <= current_value' /\ new.start + new.size <= PhysMemSize
      BY <2>2, <3>1, <1>3, <1>4
    <3>3. \E n \in Nat : new.start = Start + Window * n
      BY Zenon, <1>5 DEF IInv, CursorInv
    <3>4. \A j \in 1 .. Len(ranges) :
            new.start + new.size <= ranges[j].start \/ ranges[j].end <= new.start
      BY Zenon, <1>5, <3>1
    <3> QED
      BY Zenon, <3>2, <3>3, <3>4
  <2>3. oom' => PhysMemSize < current_value'
    <3>1. CASE current_value + required_size > PhysMemSize
      BY Zenon, <3>1, <1>3, <1>4
    <3>2. CASE oom' = oom
      <4>1. SUFFICES ASSUME oom PROVE PhysMemSize < current_value'
        BY <3>2, Zenon
      <4>2. PhysMemSize < current_value
        BY Zenon, <4>1 DEF IInv, BlockInv
      <4> QED
        BY <4>2, <1>3, <1>4
    <3> QED
      BY <1>2, <3>1, <3>2, Zenon
  <2>4. \A b \in blocks' :
          /\ b.start + b.size <= current_value'
          /\ b.start + b.size <= PhysMemSize
          /\ \E n \in Nat : b.start = Start + Window * n
          /\ \A j \in 1 .. Len(ranges) :
               b.start + b.size <= ranges[j].start \/ ranges[j].end <= b.start
    <3>1. CASE blocks' = blocks
      BY <2>1, <3>1, Zenon
    <3>2. CASE blocks' = blocks \cup {new} /\ ~(current_value + required_size > PhysMemSize)
      BY <2>1, <2>2, <3>2, Zenon
    <3> QED
      BY Zenon, <1>2, <3>1, <3>2
  <2> QED
    BY Zenon, <1>1, <2>3, <2>4 DEF BlockInv
<1>13. BlocksDisjoint'
  <2>1. \A b \in blocks : b.start + b.size <= new.start
    BY Zenon, <1>5 DEF IInv, BlockInv
  <2> QED
    BY Zenon, <1>2, <2>1 DEF IInv, BlocksDisjoint
<1>14. PanicsOnlyWhenFull'
  BY Zenon, <1>1 DEF PanicsOnlyWhenFull
<1> QED
  BY Zenon, <1>9, <1>10, <1>11, <1>12, <1>13, <1>14 DEF IInv

\* Beyond the last range there is nothing left to meet.
LEMMA ReturnPastLastInv == IInv /\ ReturnPastLast => IInv'
<1> SUFFICES ASSUME IInv, ReturnPastLast PROVE IInv'
  OBVIOUS
<1>1. pc = "next" /\ idx = Len(ranges) /\ Answer(current_value)
  BY Zenon DEF ReturnPastLast
<1>2. \A j \in 1 .. Len(ranges) : ranges[j].end <= current_value
  BY Zenon, <1>1 DEF IInv, CursorInv, Cursor
<1> QED
  BY Zenon, <1>1, <1>2, AnswerInv

\* A block that fits before the next range also fits before the later ones.
LEMMA ReturnBeforeRangeInv == IInv /\ ReturnBeforeRange => IInv'
<1> SUFFICES ASSUME IInv, ReturnBeforeRange PROVE IInv'
  OBVIOUS
<1>1. pc = "next" /\ idx < Len(ranges) /\ Answer(current_value)
      /\ current_value + required_size <= ranges[idx + 1].start
  BY Zenon DEF ReturnBeforeRange, FitsBefore
<1>2. \A j \in 1 .. idx : ranges[j].end <= current_value
  BY Zenon, <1>1 DEF IInv, CursorInv, Cursor
<1>3. required_size \in Nat /\ current_value \in Nat
  BY Zenon, <1>1, RequiredSize, StateFacts DEF IInv, TypeOK
<1>4. ASSUME NEW j \in 1 .. Len(ranges), j > idx
      PROVE  current_value + required_size <= ranges[j].start
  <2>1. idx + 1 \in 1 .. Len(ranges) /\ (j = idx + 1 \/ idx + 1 < j)
    BY <1>1, <1>4, StateFacts
  <2>2. ranges[idx + 1].start \in Nat /\ ranges[idx + 1].end \in Nat /\ ranges[j].start \in Nat
        /\ ranges[idx + 1].start <= ranges[idx + 1].end
    BY Zenon, <2>1, StateFacts
  <2>3. CASE j = idx + 1
    BY Zenon, <1>1, <2>3
  <2>4. CASE idx + 1 < j
    <3>1. ranges[idx + 1].end < ranges[j].start
      BY Zenon, <2>1, <2>4, StateFacts
    <3> QED
      BY <1>1, <1>3, <2>2, <3>1, SMTT(60)
  <2> QED
    BY Zenon, <2>1, <2>3, <2>4
<1>5. \A j \in 1 .. Len(ranges) :
        current_value + required_size <= ranges[j].start \/ ranges[j].end <= current_value
  BY <1>2, <1>4, StateFacts
<1> QED
  BY Zenon, <1>1, <1>5, AnswerInv

\* A cursor that only moves on leaves the facts about the blocks as they are.
LEMMA LaterCursor ==
  ASSUME IInv, UNCHANGED <<ranges, blocks, oom>>,
         current_value' \in Nat, current_value <= current_value'
  PROVE  BlockInv' /\ BlocksDisjoint'
<1>1. blocks \subseteq Block /\ current_value \in Nat /\ PhysMemSize \in Nat
  BY Zenon, ConstantsOK DEF IInv, TypeOK
<1>2. \A b \in blocks : b.start \in Nat /\ b.size \in Nat
  BY Zenon, <1>1 DEF Block
<1>3. \A b \in blocks : b.start + b.size <= current_value
  BY Zenon DEF IInv, BlockInv
<1>4. \A b \in blocks : b.start + b.size <= current_value'
  BY <1>1, <1>2, <1>3
<1>5. oom => PhysMemSize < current_value'
  <2> SUFFICES ASSUME oom PROVE PhysMemSize < current_value'
    OBVIOUS
  <2>1. PhysMemSize < current_value
    BY Zenon DEF IInv, BlockInv
  <2> QED
    BY <2>1, <1>1
<1>6. BlockInv'
  BY Zenon, <1>4, <1>5 DEF IInv, BlockInv
<1>7. BlocksDisjoint'
  BY Zenon DEF IInv, BlocksDisjoint
<1> QED
  BY Zenon, <1>6, <1>7

-------------------------------------------------------------------------------
\* Entering a range: the request does not fit before it, so the advanced cursor
\* is at or behind the start of the range.
LEMMA EnterRangeInv == IInv /\ EnterRange => IInv'
<1> SUFFICES ASSUME IInv, EnterRange PROVE IInv'
  OBVIOUS
<1>1. pc = "next" /\ pc' = "skip" /\ idx < Len(ranges)
      /\ ~(current_value + required_size <= ranges[idx + 1].start)
      /\ current_value' = current_value + required_size
      /\ curr' = current_value + required_size
      /\ UNCHANGED <<regions, i, ranges, idx, count, blocks, oom, calls>>
  BY Zenon DEF EnterRange, FitsBefore, Advanced, iterVars
<1>2. count \in Counts /\ required_size \in Nat \ {0} /\ current_value \in Nat
      /\ PhysMemSize \in Nat
  BY <1>1, RequiredSize, ConstantsOK, StateFacts DEF IInv, TypeOK
<1>3. current_value' \in Nat /\ curr' \in Nat /\ current_value <= current_value'
      /\ curr' = current_value'
  BY <1>1, <1>2
<1>4. TypeOK'
  BY Zenon, <1>1, <1>2, <1>3 DEF IInv, TypeOK
<1>5. RangesSeparated' /\ MergeInv' /\ CoverInv'
  BY Zenon, <1>1, RangesKept
<1>6. CursorInv'
  <2>1. \A j \in 1 .. idx : ranges[j].end <= current_value
    BY Zenon, <1>1 DEF IInv, CursorInv, Cursor
  <2>2. \A j \in 1 .. idx : ranges[j].end <= curr'
    BY <2>1, <1>3, <1>2, StateFacts
  <2>3. \E n \in Nat : current_value' = Start + Window * n
    BY Zenon, <1>1, <1>2, Aligned DEF IInv, CursorInv
  <2>4. ranges[idx + 1].start \in Nat
    BY <1>1, StateFacts
  <2>5. current_value' <= curr' /\ ranges[idx + 1].start <= curr'
    BY <1>1, <1>2, <1>3, <2>4
  <2> QED
    BY Zenon, <1>1, <1>3, <2>2, <2>3, <2>5 DEF CursorInv, Cursor
<1>7. BlockInv' /\ BlocksDisjoint' /\ PanicsOnlyWhenFull'
  BY Zenon, <1>1, <1>2, <1>3, LaterCursor DEF IInv, PanicsOnlyWhenFull
<1> QED
  BY Zenon, <1>4, <1>5, <1>6, <1>7 DEF IInv

\* The skipping loop moves the local cursor on by whole requests.
LEMMA SkipInsideInv == IInv /\ SkipInside => IInv'
<1> SUFFICES ASSUME IInv, SkipInside PROVE IInv'
  OBVIOUS
<1>1. pc = "skip" /\ pc' = pc /\ curr' = curr + required_size
      /\ UNCHANGED <<regions, i, ranges, idx, current_value, count, blocks, oom, calls>>
  BY Zenon DEF SkipInside, iterVars
<1>2. count \in Counts /\ required_size \in Nat \ {0} /\ curr \in Nat /\ curr' \in Nat
      /\ curr <= curr' /\ current_value \in Nat /\ idx < Len(ranges)
  BY <1>1, RequiredSize, StateFacts DEF IInv, TypeOK
<1>3. TypeOK'
  BY Zenon, <1>1, <1>2 DEF IInv, TypeOK
<1>4. RangesSeparated' /\ MergeInv' /\ CoverInv'
  BY Zenon, <1>1, RangesKept
<1>5. CursorInv'
  <2>1. current_value <= curr /\ ranges[idx + 1].start <= curr
        /\ \A j \in 1 .. idx : ranges[j].end <= curr
    BY Zenon, <1>1 DEF IInv, CursorInv, Cursor
  <2>2. \A j \in 1 .. idx : ranges[j].end <= curr'
    BY <2>1, <1>2, StateFacts
  <2>3. ranges[idx + 1].start \in Nat
    BY <1>2, StateFacts
  <2>4. current_value <= curr' /\ ranges[idx + 1].start <= curr'
    BY <2>1, <2>3, <1>2
  <2>5. \E n \in Nat : curr = Start + Window * n
    BY Zenon, <1>1 DEF IInv, CursorInv
  <2>6. \E n \in Nat : curr' = Start + Window * n
    BY Zenon, <1>1, <1>2, <2>5, Aligned
  <2>7. \E n \in Nat : current_value = Start + Window * n
    BY Zenon DEF IInv, CursorInv
  <2> QED
    BY Zenon, <1>1, <2>2, <2>4, <2>6, <2>7 DEF CursorInv, Cursor
<1>6. BlockInv' /\ BlocksDisjoint' /\ PanicsOnlyWhenFull'
  BY <1>1, <1>2, LaterCursor DEF IInv, PanicsOnlyWhenFull
<1> QED
  BY Zenon, <1>3, <1>4, <1>5, <1>6 DEF IInv

\* Leaving a range: the cursor is at or behind its start and not inside it, so
\* it is behind its end.
LEMMA LeaveRangeInv == IInv /\ LeaveRange => IInv'
<1> SUFFICES ASSUME IInv, LeaveRange PROVE IInv'
  OBVIOUS
<1>1. pc = "skip" /\ idx' = idx + 1 /\ ~Contains(ranges[idx + 1], curr)
      /\ UNCHANGED <<regions, i, ranges, curr, count, blocks, oom, calls>>
  BY Zenon DEF LeaveRange, iterVars
<1>2. \/ pc' = "panicked" /\ current_value' = current_value /\ idx + 1 = MaxRangeCount
      \/ pc' = pc /\ current_value' = current_value /\ idx + 1 < Len(ranges)
      \/ pc' = "next" /\ current_value' = curr
  BY Zenon DEF LeaveRange, PastArray, LoopAgain
<1>3. /\ count \in Counts /\ curr \in Nat /\ current_value \in Nat
      /\ idx \in Nat /\ idx < Len(ranges) /\ Len(ranges) \in Nat /\ MaxRangeCount \in Nat
      /\ idx + 1 \in 1 .. Len(ranges)
  BY <1>1, ConstantsOK, StateFacts DEF IInv, TypeOK
<1>4. current_value <= curr /\ ranges[idx + 1].start <= curr
      /\ \A j \in 1 .. idx : ranges[j].end <= curr
  BY Zenon, <1>1 DEF IInv, CursorInv, Cursor
<1>5. ranges[idx + 1].end <= curr
  <2>1. ranges[idx + 1].start \in Nat /\ ranges[idx + 1].end \in Nat
    BY Zenon, <1>3, StateFacts
  <2> QED
    BY <1>1, <1>3, <1>4, <2>1 DEF Contains
<1>6. current_value' \in Nat /\ current_value <= current_value' /\ current_value' <= curr
      /\ idx' \in 0 .. Len(ranges)
  BY <1>1, <1>2, <1>3, <1>4
<1>7. pc' \in {"panicked", "skip", "next"} /\ (pc' = "skip" => idx' < Len(ranges))
  BY Zenon, <1>1, <1>2
<1>8. TypeOK'
  BY Zenon, <1>1, <1>3, <1>6, <1>7 DEF IInv, TypeOK
<1>9. RangesSeparated' /\ MergeInv' /\ CoverInv'
  BY Zenon, <1>1, <1>7, RangesKept
<1>10. CursorInv'
  <2>1. \A j \in 1 .. idx' : ranges[j].end <= curr
    BY <1>1, <1>3, <1>4, <1>5
  <2>2. pc' = "skip" => ranges[idx + 2].start <= curr
    <3> SUFFICES ASSUME pc' = "skip" PROVE ranges[idx + 2].start <= curr
      OBVIOUS
    <3>1. PICK overlapped \in NextOverlaps(idx + 1) : LoopAgain(overlapped, idx + 1)
      BY Zenon, <1>1 DEF LeaveRange
    <3>2. idx + 1 < Len(ranges) /\ overlapped
      BY Zenon, <3>1 DEF LoopAgain
    <3>3. (idx + 1) + 1 = idx + 2
      BY <1>3
    <3>4. overlapped = Contains(ranges[idx + 2], curr)
      BY ZenonT(60), <3>1, <3>2, <3>3 DEF NextOverlaps
    <3> QED
      BY ZenonT(60), <3>2, <3>4 DEF Contains
  <2>3. \E n \in Nat : curr = Start + Window * n
    BY Zenon, <1>1 DEF IInv, CursorInv
  <2>4. \E n \in Nat : current_value' = Start + Window * n
    BY Zenon, <1>2, <2>3 DEF IInv, CursorInv
  <2>5. pc' # "panicked" => \A j \in 1 .. idx' : ranges[j].end <= Cursor'
    BY Zenon, <1>1, <1>2, <2>1 DEF Cursor
  <2>6. pc' = "skip" => current_value' <= curr' /\ ranges'[idx' + 1].start <= curr'
    <3>1. idx' + 1 = idx + 2 /\ ranges' = ranges /\ curr' = curr
      BY <1>1, <1>3
    <3> QED
      BY Zenon, <3>1, <2>2, <1>6
  <2>7. \E n \in Nat : pc' = "skip" => curr' = Start + Window * n
    BY Zenon, <1>1, <2>3
  <2> QED
    BY Zenon, <1>1, <1>7, <2>4, <2>5, <2>6, <2>7 DEF CursorInv
<1>11. PanicsOnlyWhenFull'
  BY <1>1, <1>2, <1>3, <1>7, StateFacts DEF PanicsOnlyWhenFull
<1>12. BlockInv' /\ BlocksDisjoint'
  BY Zenon, <1>1, <1>3, <1>6, LaterCursor
<1> QED
  BY Zenon, <1>8, <1>9, <1>10, <1>11, <1>12 DEF IInv

-------------------------------------------------------------------------------
\* Every step of the allocator keeps the inductive invariant.
LEMMA StepInv == IInv /\ [Next]_vars => IInv'
<1> SUFFICES ASSUME IInv, [Next]_vars PROVE IInv'
  OBVIOUS
<1>1. CASE Boot
  BY Zenon, <1>1, MergeRegionInv, MergeDoneInv, InitialIndexInv, InitDoneInv DEF Boot
<1>2. CASE NextN
  BY Zenon, <1>2, ReturnPastLastInv, ReturnBeforeRangeInv, EnterRangeInv, SkipInsideInv,
     LeaveRangeInv DEF NextN
<1>3. CASE \E n \in Counts : Request(n)
  BY Zenon, <1>3, RequestInv
<1>4. CASE UNCHANGED vars
  <2>1. UNCHANGED <<regions, pc, i, ranges, idx, current_value, curr, count,
                    blocks, oom, calls>>
    BY Zenon, <1>4 DEF vars
  <2>2. TypeOK' /\ RangesSeparated' /\ MergeInv'
    BY Zenon, <2>1 DEF IInv, TypeOK, RangesSeparated, MergeInv
  <2>3. CoverInv'
    BY Zenon, <2>1 DEF IInv, CoverInv, Merged
  <2>4. CursorInv'
    BY Zenon, <2>1 DEF IInv, CursorInv, Cursor
  <2>5. BlockInv' /\ BlocksDisjoint' /\ PanicsOnlyWhenFull'
    BY Zenon, <2>1 DEF IInv, BlockInv, BlocksDisjoint, PanicsOnlyWhenFull
  <2> QED
    BY Zenon, <2>2, <2>3, <2>4, <2>5 DEF IInv
<1> QED
  BY Zenon, <1>1, <1>2, <1>3, <1>4 DEF Next

\* The strengthened invariant holds in every reachable state of the allocator.
THEOREM Inductive == Spec => []IInv
<1>1. Init => IInv
  BY Zenon, InitInv
<1>2. IInv /\ [Next]_vars => IInv'
  BY Zenon, StepInv
<1> QED
  BY <1>1, <1>2, PTL DEF Spec

\* The state of from_memory_regions and next_n keeps its shape, and the inner
\* loop of next_n never runs without a current range.
THEOREM TypeCorrect == Spec => []TypeOK
<1>1. IInv => TypeOK
  BY Zenon DEF IInv
<1> QED
  BY <1>1, Inductive, PTL

\* from_memory_regions builds ascending ranges with gaps between them, and they
\* cover exactly the unavailable memory, for every sorted list of regions.
THEOREM MergeCorrect == Spec => [](RangesSeparated /\ MergeExact)
<1>1. IInv => RangesSeparated
  BY Zenon DEF IInv
<1>2. IInv => MergeExact
  <2>1. IInv /\ pc # "merge" => Merged(Len(regions))
    BY Zenon DEF IInv, CoverInv
  <2> QED
    BY Zenon, <2>1 DEF Merged, MergeExact
<1> QED
  BY <1>1, <1>2, Inductive, PTL

\* The order of addresses is transitive.
LEMMA Transitive ==
  \A x, y, z \in Nat : x <= y /\ y <= z => x <= z
OBVIOUS

\* The invariant gives the client's view of a block.
LEMMA BlockFacts ==
  ASSUME IInv PROVE BlocksAvoidRegions /\ BlocksWithinMemory
<1>1. ASSUME NEW b \in blocks
      PROVE  /\ b.start \in Nat /\ b.size \in Nat /\ b.size > 0
             /\ b.start + b.size <= PhysMemSize
             /\ \E n \in Nat : b.start = Start + Window * n
             /\ \A j \in 1 .. Len(ranges) :
                  b.start + b.size <= ranges[j].start \/ ranges[j].end <= b.start
  <2>1. blocks \subseteq Block
    BY Zenon DEF IInv, TypeOK
  <2>2. b.start \in Nat /\ b.size \in Nat /\ b.size > 0
    BY <1>1, <2>1 DEF Block
  <2> QED
    BY Zenon, <1>1, <2>2 DEF IInv, BlockInv
<1>2. BlocksAvoidRegions
  <2> SUFFICES ASSUME NEW b \in blocks, NEW k \in 1 .. Len(regions)
               PROVE  b.start + b.size <= regions[k].start \/ EndOf(regions[k]) <= b.start
    BY Zenon DEF BlocksAvoidRegions
  <2>1. CASE pc = "merge"
    BY Zenon, <2>1 DEF IInv, CursorInv
  <2>2. CASE pc # "merge"
    <3>1. PICK j \in 1 .. Len(ranges) :
            ranges[j].start <= regions[k].start /\ EndOf(regions[k]) <= ranges[j].end
      BY Zenon, <2>2 DEF IInv, CoverInv, Merged
    <3>2. ranges[j].start \in Nat /\ ranges[j].end \in Nat
      BY Zenon, StateFacts
    <3>3. regions[k].start \in Nat /\ EndOf(regions[k]) \in Nat
      BY Zenon, RegionFacts DEF IInv, MergeInv
    <3>4. b.start \in Nat /\ b.size \in Nat /\ b.start + b.size \in Nat
      BY <1>1
    <3>5. CASE b.start + b.size <= ranges[j].start
      <4>1. b.start + b.size <= regions[k].start
        BY ZenonT(60), Transitive, <3>1, <3>2, <3>3, <3>4, <3>5
      <4> QED
        BY Zenon, <4>1
    <3>6. CASE ranges[j].end <= b.start
      <4>1. EndOf(regions[k]) <= b.start
        BY ZenonT(60), Transitive, <3>1, <3>2, <3>3, <3>4, <3>6
      <4> QED
        BY Zenon, <4>1
    <3>7. b.start + b.size <= ranges[j].start \/ ranges[j].end <= b.start
      BY Zenon, <1>1
    <3> QED
      BY Zenon, <3>5, <3>6, <3>7
  <2> QED
    BY Zenon, <2>1, <2>2
<1>3. BlocksWithinMemory
  <2> SUFFICES ASSUME NEW b \in blocks
               PROVE  /\ Start <= b.start
                      /\ \E n \in 0 .. b.start : b.start = Start + Window * n
                      /\ b.start + b.size <= PhysMemSize
    BY Zenon DEF BlocksWithinMemory
  <2>1. PICK n \in Nat : b.start = Start + Window * n
    BY Zenon, <1>1
  <2>2. Window \in Nat /\ Window >= 1 /\ Start \in Nat
    BY ConstantsOK
  <2>3. Window * n >= n
    BY <2>2
  <2>4. Window * n \in Nat
    BY <2>2
  <2>5. Start <= b.start /\ n \in 0 .. b.start
    BY <2>1, <2>2, <2>3, <2>4
  <2> QED
    BY Zenon, <1>1, <2>1, <2>5
<1> QED
  BY Zenon, <1>2, <1>3

\* A block handed out by allocate_frames is free memory: whole frames inside
\* physical memory that meet no unavailable region.
THEOREM BlocksAreFree == Spec => [](BlocksAvoidRegions /\ BlocksWithinMemory)
<1>1. IInv => BlocksAvoidRegions /\ BlocksWithinMemory
  BY Zenon, BlockFacts
<1> QED
  BY <1>1, Inductive, PTL

\* allocate_frames never hands a byte out twice.
THEOREM BlocksAreDisjoint == Spec => []BlocksDisjoint
<1>1. IInv => BlocksDisjoint
  BY Zenon DEF IInv
<1> QED
  BY <1>1, Inductive, PTL

\* The read of ranges[current_range_index] past the last range panics only when
\* all MAX_RANGE_COUNT slots hold a range.
THEOREM PanicNeedsFullTable == Spec => []PanicsOnlyWhenFull
<1>1. IInv => PanicsOnlyWhenFull
  BY Zenon DEF IInv
<1> QED
  BY <1>1, Inductive, PTL

\* A request that allocate_frames turned down has moved the cursor past the end
\* of memory, so no later request is granted.
THEOREM OutOfMemoryIsFinal == Spec => OomIsPermanent
<1>1. ASSUME IInv, [Next]_vars, oom PROVE blocks' = blocks
  <2>1. PhysMemSize < current_value
    BY Zenon, <1>1 DEF IInv, BlockInv
  <2>2. ASSUME Answer(current_value), pc = "next" PROVE blocks' = blocks
    <3>1. required_size \in Nat /\ current_value \in Nat /\ PhysMemSize \in Nat
      BY Zenon, <1>1, <2>2, RequiredSize, StateFacts, ConstantsOK DEF IInv, TypeOK
    <3>2. OutOfMemory(current_value)
      BY <2>1, <3>1 DEF OutOfMemory, phys_mem_right_boundary, base_address
    <3> QED
      BY Zenon, <2>2, <3>2 DEF Answer
  <2>3. CASE Boot
    BY Zenon, <2>3 DEF Boot, MergeRegion, MergeDone, InitialIndex, InitDone
  <2>4. CASE NextN
    BY Zenon, <2>2, <2>4 DEF NextN, ReturnPastLast, ReturnBeforeRange, EnterRange, SkipInside,
       LeaveRange
  <2>5. CASE \E n \in Counts : Request(n)
    BY Zenon, <2>5 DEF Request
  <2>6. CASE UNCHANGED vars
    BY Zenon, <2>6 DEF vars
  <2> QED
    BY Zenon, <1>1, <2>3, <2>4, <2>5, <2>6 DEF Next
<1>2. IInv /\ [Next]_vars => [oom => blocks' = blocks]_vars
  BY Zenon, <1>1
<1> QED
  BY <1>2, Inductive, PTL DEF Spec, OomIsPermanent

-------------------------------------------------------------------------------
\* The step that answers a request grants a block, or turns the request down.
LEMMA AnswerGrants ==
  ASSUME IInv, IInv', Answer(current_value), pc = "next"
  PROVE  Source!Next \/ UNCHANGED <<blocks, regions>>
<1> DEFINE new == [start |-> current_value, size |-> required_size]
<1>1. regions' = regions
  BY Zenon DEF Answer, iterVars
<1>2. blocks' = blocks \/ blocks' = blocks \cup {new}
  <2>1. base_address + current_value = current_value
    BY StateFacts DEF base_address
  <2> QED
    BY Zenon, <2>1 DEF Answer
<1>3. required_size \in Nat /\ required_size > 0 /\ current_value \in Nat
  BY Zenon, RequiredSize, StateFacts DEF IInv, TypeOK
<1>4. new.start = current_value /\ new.size = required_size
  OBVIOUS
<1> HIDE DEF new
<1>5. CASE blocks' = blocks \cup {new}
  <2>1. new \in blocks'
    BY Zenon, <1>5
  <2>2. \A r \in {regions[k] : k \in 1 .. Len(regions)} :
          ~Source!Overlap(new.start, new.size, r.start, r.length)
    <3> SUFFICES ASSUME NEW k \in 1 .. Len(regions)
                 PROVE  ~Source!Overlap(new.start, new.size, regions[k].start, regions[k].length)
      OBVIOUS
    <3>1. BlocksAvoidRegions'
      BY BlockFacts, PTL
    <3>2. new.start + new.size <= regions[k].start \/ EndOf(regions[k]) <= new.start
      BY Zenon, <1>1, <2>1, <3>1 DEF BlocksAvoidRegions
    <3>3. regions[k].start \in Nat /\ regions[k].length \in Nat
      BY Zenon, RegionFacts DEF IInv, MergeInv
    <3> QED
      BY <1>3, <1>4, <3>2, <3>3 DEF EndOf, Source!Overlap
  <2>3. \A c \in blocks : ~Source!Overlap(new.start, new.size, c.start, c.size)
    <3> SUFFICES ASSUME NEW c \in blocks
                 PROVE  ~Source!Overlap(new.start, new.size, c.start, c.size)
      OBVIOUS
    <3>1. c.start + c.size <= current_value
      BY Zenon DEF IInv, BlockInv
    <3>2. blocks \subseteq Block
      BY Zenon DEF IInv, TypeOK
    <3>3. c.start \in Nat /\ c.size \in Nat
      BY Zenon, <3>2 DEF Block
    <3> QED
      BY <1>3, <1>4, <3>1, <3>3 DEF Source!Overlap
  <2>4. Source!Grant(new)
    BY Zenon, <1>1, <1>5, <2>2, <2>3 DEF Source!Grant
  <2> QED
    BY Zenon, <2>1, <2>4 DEF Source!Next
<1> QED
  BY Zenon, <1>1, <1>2, <1>5

\* LinearIncFrameAllocator implements the abstract source of frames: only the
\* step that answers a request is visible, and it grants a block that is free.
THEOREM Refinement == Spec => ImplementsSource
<1>1. Init => Source!Init
  BY Zenon DEF Init, Source!Init
<1>2. ASSUME IInv, IInv', [Next]_vars
      PROVE  [Source!Next]_<<{regions[k] : k \in 1 .. Len(regions)}, blocks>>
  <2>1. SUFFICES (UNCHANGED <<blocks, regions>>) \/ Source!Next
    OBVIOUS
  <2>2. CASE Boot
    BY Zenon, <2>2 DEF Boot, MergeRegion, MergeDone, InitialIndex, InitDone
  <2>3. CASE NextN
    BY Zenon, <1>2, <2>3, AnswerGrants DEF NextN, ReturnPastLast, ReturnBeforeRange, EnterRange,
       SkipInside, LeaveRange, iterVars
  <2>4. CASE \E n \in Counts : Request(n)
    BY Zenon, <2>4 DEF Request, iterVars
  <2>5. CASE UNCHANGED vars
    BY Zenon, <2>5 DEF vars
  <2> QED
    BY Zenon, <1>2, <2>2, <2>3, <2>4, <2>5 DEF Next
<1> QED
  BY <1>1, <1>2, Inductive, PTL DEF Spec, ImplementsSource, Source!Spec
===============================================================================
