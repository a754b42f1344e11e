----------------------------- MODULE TrackedMapper -----------------------------
(***************************************************************************)
(* bootloader-efi/src/mem/tracked_mapper.rs: the book-keeping the           *)
(* bootloader puts around the kernel's top-level page table.  `used` says   *)
(* which of the entries are taken; first_available_index and                *)
(* last_available_index are "only for optimizing internal indexing", but    *)
(* find_free_space_and_mark trusts them: an entry outside first .. last is  *)
(* never looked at.  The question is whether the two cached bounds can go   *)
(* stale, so that free entries are lost or used ones handed out again.      *)
(*                                                                          *)
(* A tracker is a record [used, first, last]; the methods are operators on  *)
(* it, so that module BootMemory can use them for the real boot sequence.   *)
(***************************************************************************)
EXTENDS Integers, Sequences, FiniteSets, FiniteSetsExt

CONSTANTS
  Entries,    \* PTE_COUNT_PER_PT, 512
  EntrySize   \* total_available_mem_size: what one entry can map

ASSUME TrackerConstantsOK == Entries \in Nat \ {0} /\ EntrySize \in Nat \ {0}

Index == 0 .. Entries - 1
Tracker == [used : [Index -> BOOLEAN], first : 0 .. Entries, last : Index]

new == [used |-> [e \in Index |-> FALSE], first |-> 0, last |-> Entries - 1]

Free(m) == {e \in Index : ~m.used[e]}

-------------------------------------------------------------------------------
\* Mutants: the upward scan leaves one entry out; a taken entry counts as available.
MutNextFree(used, e) == Min({f \in e + 2 .. Entries - 1 : ~used[f]} \cup {Entries})
MutCanMark(m, e) == TRUE

\* The scans of mark_as_used: upwards they stop at the end of the table,
\* downwards at entry 0, used or not.
NextFree(used, e) == Min({f \in e .. Entries - 1 : ~used[f]} \cup {Entries})
PrevFree(used, e) == Max({f \in 0 .. e : ~used[f]} \cup {0})

CanMark(m, e) == ~m.used[e]

mark_as_used(m, e) ==
  LET used == [m.used EXCEPT ![e] = TRUE]
  IN  IF ~CanMark(m, e) THEN m
      ELSE IF m.first = e THEN [m EXCEPT !.used = used, !.first = NextFree(used, e)]
      ELSE IF m.last = e  THEN [m EXCEPT !.used = used, !.last = PrevFree(used, e)]
      ELSE [m EXCEPT !.used = used]

mark_as_unused(m, e) ==
  LET freed == [m EXCEPT !.used[e] = FALSE]
  IN  IF m.first > e THEN [freed EXCEPT !.first = e]
      ELSE IF m.last < e THEN [freed EXCEPT !.last = e]
      ELSE freed

\* The entries lo .. hi one by one, upwards or downwards; the fold begins with the
\* one that is marked last.
MarkAll(m, lo, hi, reverse) ==
  MapThenFoldSet(LAMBDA e, t : mark_as_used(t, e), m, LAMBDA e : e,
                 LAMBDA es : IF reverse THEN Min(es) ELSE Max(es), lo .. hi)

\* mark_range_as_used(lo ..= hi): entries already taken are skipped; it answers
\* None only when every one of them was.
mark_range_as_used(m, lo, hi) ==
  [some |-> \E e \in lo .. hi : CanMark(m, e), tracker |-> MarkAll(m, lo, hi, FALSE)]

-------------------------------------------------------------------------------
NotFound(m) == [some |-> FALSE, index |-> 0, len |-> 0, tracker |-> m]
Found(m, e, n) == [some |-> TRUE, index |-> e, len |-> n, tracker |-> m]

RequiredEntries(size) == (size + EntrySize - 1) \div EntrySize

\* The slice the search looks at from entry c; backwards it ends before c.
Slice(c, n, reverse) == IF reverse THEN c - n .. c - 1 ELSE c .. c + n - 1

\* The search walks from its cached bound for as long as it stays in this window.
Window(n) == n .. Entries - n - 2
Walked(m, c, reverse) == IF reverse THEN c .. m.last ELSE m.first .. c

Candidates(m, n, reverse) ==
  {c \in Window(n) :
     /\ Walked(m, c, reverse) \subseteq Window(n)
     /\ IF reverse THEN c <= m.last ELSE m.first <= c
     /\ CanMark(m, c)
     /\ \A e \in Slice(c, n, reverse) : CanMark(m, e)}

\* "fast path": one entry, taken from the cached bound without a search.
FindOne(m, reverse) ==
  LET e == IF reverse THEN m.last ELSE m.first
  IN  IF CanMark(m, e) THEN Found(mark_as_used(m, e), e, 1) ELSE NotFound(m)

FindSlice(m, n, reverse) ==
  LET cs == Candidates(m, n, reverse)
      c  == IF reverse THEN Max(cs) ELSE Min(cs)
      lo == IF reverse THEN c - n ELSE c
  IN  IF cs = {} THEN NotFound(m)
      ELSE Found(MarkAll(m, lo, lo + n - 1, reverse), lo, n)

\* find_free_space_and_mark(size, reverse)
find_free_space_and_mark(m, size, reverse) ==
  LET n == RequiredEntries(size)
  IN  IF m.last - m.first + 1 < n THEN NotFound(m)
      ELSE IF n = 1 THEN FindOne(m, reverse)
      ELSE FindSlice(m, n, reverse)
===============================================================================
