---------------------------- MODULE MCTrackedMapper ----------------------------
(***************************************************************************)
(* A tracker under any sequence of calls.  The bootloader gives no entry    *)
(* back that it has handed out, so a run chooses at its start whether       *)
(* entries are ever freed.                                                  *)
(***************************************************************************)
EXTENDS TrackedMapper

CONSTANT Sizes \* the sizes callers ask for

VARIABLES
  may_free,    \* whether mark_as_unused is called
  tracker,
  answer       \* what the last call answered: [call, some, index, len]

vars == <<may_free, tracker, answer>>

NoAnswer == [call |-> "none", some |-> FALSE, index |-> 0, len |-> 0]

Init == may_free \in BOOLEAN /\ tracker = new /\ answer = NoAnswer

Find(size, reverse) ==
  LET r == find_free_space_and_mark(tracker, size, reverse)
  IN  /\ tracker' = r.tracker
      /\ UNCHANGED may_free
      /\ answer' = [call |-> "find", some |-> r.some, index |-> r.index, len |-> r.len]

MarkRange(lo, hi) ==
  LET r == mark_range_as_used(tracker, lo, hi)
  IN  /\ tracker' = r.tracker
      /\ UNCHANGED may_free
      /\ answer' = [call |-> "mark", some |-> r.some, index |-> lo, len |-> hi - lo + 1]

Unuse(e) ==
  /\ may_free
  /\ UNCHANGED may_free
  /\ tracker' = mark_as_unused(tracker, e)
  /\ answer' = NoAnswer

Next ==
  \/ \E size \in Sizes, reverse \in BOOLEAN : Find(size, reverse)
  \/ \E lo, hi \in Index : lo <= hi /\ MarkRange(lo, hi)
  \/ \E e \in Index : Unuse(e)

Spec == Init /\ [][Next]_vars

-------------------------------------------------------------------------------
\* What find_free_space_and_mark hands out was free until then and is taken from
\* then on, all of it: no two callers get the same entry, even if entries are freed
\* in any order and the cached bounds are stale.
HandsOutFree ==
  [][answer'.call = "find" /\ answer'.some =>
       \A e \in answer'.index .. answer'.index + answer'.len - 1 :
         ~tracker.used[e] /\ tracker'.used[e]]_vars

\* A request that one entry can meet fails only when the table is full, as long as
\* no entry is freed (the fast path of find_free_space_and_mark).
OneFoundWhileFree ==
  [][\A reverse \in BOOLEAN :
       ~may_free /\ Find(1, reverse) /\ ~answer'.some => Free(tracker) = {}]_vars

-------------------------------------------------------------------------------
(***************************************************************************)
(* What the source says and the code does not do.                           *)
(***************************************************************************)
\* "获取可以索引 [size] 大小的 PTE ... 找不到可以用的 PTE 会返回 None" (tracked_mapper.rs:118-121):
\* a search fails only when no run of free entries is long enough.  It does not hold:
\* the window of the search leaves out the end of the table it starts from.
RunFoundWhileFree ==
  [][\A size \in Sizes, reverse \in BOOLEAN :
       Find(size, reverse) /\ ~answer'.some =>
         \A e \in Index : e + RequiredEntries(size) <= Entries =>
           \E f \in e .. e + RequiredEntries(size) - 1 : tracker.used[f]]_vars
===============================================================================
