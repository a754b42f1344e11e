-------------------------------- MODULE UserElf --------------------------------
(***************************************************************************)
(* elf_copy_to_addrsp, kernel/src/mem/load_elf.rs: a program is copied into *)
(* a user address space at the addresses its file gives.  Every frame goes  *)
(* on the address space's list of tracked frames (push_tracked_frame) and   *)
(* the frame a page leaves is deallocated (raw_unmap), for Drop to give     *)
(* back the frames of the list when the address space dies.                 *)
(*                                                                          *)
(* The file is read through the bootstrap window of the same address space  *)
(* and is frames 0 .. FileFrames - 1 here.  The write lock is held all the  *)
(* time.  The frames of the page tables are left out.                       *)
(***************************************************************************)
EXTENDS ElfFormat

CONSTANTS
  Elfs,       \* programs
  Spares      \* how many frames the allocator has left

VARIABLES
  elf,    \* the file
  i,      \* program header being processed
  r,      \* relocation being processed, 0 outside a dynamic segment
  phase,  \* "headers", "unmark", "loaded", "panic"
  space,  \* page table, frames, tracked and deallocated frames
  tls     \* tls_template

vars == <<elf, i, r, phase, space, tls>>

-------------------------------------------------------------------------------
FileFrames == AlignUp(elf.length) \div PageSize
FileContent(f) ==
  [o \in Offsets |-> IF f * PageSize + o < elf.length THEN File(f * PageSize + o) ELSE Zero]

Init ==
  /\ elf \in Elfs
  /\ i = 1
  /\ r = 0
  /\ phase = "headers"
  /\ \E spare \in Spares :
       space = [table |-> [p \in {} |-> 0], ok |-> TRUE, next |-> FileFrames,
                tracked |-> <<>>, freed |-> {},
                mem |-> [f \in 1 .. FileFrames + spare |->
                           IF f <= FileFrames THEN FileContent(f - 1)
                           ELSE [o \in Offsets |-> Unwritten]]]
  /\ tls = [start |-> 0, mem_size |-> 0, file_size |-> 0]

Header == elf.headers[i]
AtHeader(type) ==
  /\ phase = "headers" /\ r = 0
  /\ i <= Len(elf.headers)
  /\ Header.memsz > 0
  /\ Header.type = type

Result(s, next_i, next_r) ==
  IF s.ok
    THEN space' = s /\ i' = next_i /\ r' = next_r /\ UNCHANGED phase
    ELSE phase' = "panic" /\ UNCHANGED <<space, i, r>>

SkipHeader ==
  /\ phase = "headers" /\ r = 0
  /\ i <= Len(elf.headers)
  /\ Header.memsz = 0 \/ Header.type = "other"
  /\ i' = i + 1
  /\ UNCHANGED <<elf, r, phase, space, tls>>

-------------------------------------------------------------------------------
\* n frames from frame_alloc, put on the list in that order.
push_tracked_frame(s, n) ==
  [s EXCEPT !.next = s.next + n, !.tracked = s.tracked \o [k \in 1 .. n |-> s.next + k - 1]]

\* Mutant: the copy is not put on the list.
MutCopyUntracked(s, page) ==
  IF ~Mapped(s, page) THEN Fail(s)
  ELSE IF s.table[page].bit9 THEN s
  ELSE IF ~HasFrames(s, 1) THEN Fail(s)
  ELSE [s EXCEPT !.mem[s.next + 1] = Content(s, s.table[page].frame),
                 !.freed = s.freed \cup {s.table[page].frame},
                 !.table[page].frame = s.next,
                 !.table[page].bit9 = TRUE,
                 !.next = s.next + 1]

\* copy_page_and_remap: new frame, copy, raw_unmap (which deallocates the frame
\* the page had), raw_map_to.
CopyPage(s, page) ==
  IF ~Mapped(s, page) THEN Fail(s)
  ELSE IF s.table[page].bit9 THEN s
  ELSE IF ~HasFrames(s, 1) THEN Fail(s)
  ELSE [push_tracked_frame(s, 1) EXCEPT
          !.mem[s.next + 1] = Content(s, s.table[page].frame),
          !.freed = s.freed \cup {s.table[page].frame},
          !.table[page].frame = s.next,
          !.table[page].bit9 = TRUE]

\* One new frame with the given contents for each of the pages.
MapCopies(s, content, h) ==
  LET pages == DOMAIN content
      n  == Cardinality(pages)
      s1 == [push_tracked_frame(s, n) EXCEPT
               !.mem = [f \in 1 .. Len(s.mem) |->
                          IF f \in s.next + 1 .. s.next + n THEN content[Min(pages) + f - s.next - 1]
                          ELSE s.mem[f]]]
  IN  IF pages = {} \/ ~s.ok THEN s
      ELSE IF ~HasFrames(s, n) THEN Fail(s)
      ELSE MapPages(s1, [p \in pages |-> s.next + (p - Min(pages))], h)

\* The file part: each frame the bytes lie in is copied whole.
MapFilePart(s, h) ==
  LET first == PageOf(h.vaddr)
      last  == PageOf(h.offset + h.filesz - 1) - PageOf(h.offset)
  IN  MapCopies(s, [p \in first .. first + last |-> Content(s, PageOf(h.offset) + (p - first))], h)

PageTail(end) == {o \in Offsets : o >= end % PageSize}

ClearTail(s, h) ==
  LET end    == h.vaddr + h.filesz
      copied == CopyPage(s, PageOf(end - 1))
      frame  == copied.table[PageOf(end - 1)].frame
  IN  IF end % PageSize = 0 \/ ~s.ok THEN s
      ELSE IF ~copied.ok THEN copied
      ELSE [copied EXCEPT !.mem[frame + 1] =
              [o \in Offsets |-> IF o \in PageTail(end) THEN Zero ELSE @[o]]]

MapBss(s, h) ==
  MapCopies(s, [p \in PageOf(AlignUp(h.vaddr + h.filesz)) .. PageOf(h.vaddr + h.memsz - 1) |->
                 [o \in Offsets |-> Zero]], h)

LoadSegment ==
  /\ AtHeader("load")
  /\ LET s == MapFilePart(space, Header)
     IN  Result(IF Header.memsz <= Header.filesz THEN s ELSE MapBss(ClearTail(s, Header), Header),
                i + 1, 0)
  /\ UNCHANGED <<elf, tls>>

-------------------------------------------------------------------------------
EnterDynamic ==
  /\ AtHeader("dynamic")
  /\ CASE elf.dynamic = "none" -> i' = i + 1 /\ UNCHANGED <<r, phase>>
       [] elf.dynamic = "bad"  -> phase' = "panic" /\ UNCHANGED <<i, r>>
       [] elf.dynamic = "rela" -> r' = 1 /\ UNCHANGED <<i, phase>>
  /\ UNCHANGED <<elf, space, tls>>

WritePart(s, p, addr, value) ==
  LET frame == s.table[p].frame
      base  == p * PageSize
      cells == {o \in Offsets : base + o \in addr .. addr + PtrLen - 1}
  IN  IF ~s.ok THEN s
      ELSE [s EXCEPT !.mem[frame + 1] =
              [o \in Offsets |-> IF o \in cells THEN Ptr(value, base + o - addr) ELSE @[o]]]

CopyAndWrite(s, addr, value) ==
  LET lo == PageOf(addr)
      hi == PageOf(addr + PtrLen - 1)
      s1 == WritePart(CopyPage(s, lo), lo, addr, value)
  IN  IF lo = hi \/ ~s1.ok THEN s1 ELSE WritePart(CopyPage(s1, hi), hi, addr, value)

\* The addresses of the file are the final ones: the addend is the value.
ApplyRela ==
  /\ phase = "headers"
  /\ r \in 1 .. Len(elf.relas)
  /\ LET rela == elf.relas[r]
     IN  Result(IF rela.kind # "relative" THEN Fail(space)
                ELSE CopyAndWrite(space, rela.offset, rela.addend),
                i, r + 1)
  /\ UNCHANGED <<elf, tls>>

LeaveDynamic ==
  /\ phase = "headers"
  /\ r > Len(elf.relas)
  /\ i' = i + 1
  /\ r' = 0
  /\ UNCHANGED <<elf, phase, space, tls>>

-------------------------------------------------------------------------------
SegmentPages(h) == PagesOf(h.vaddr, h.vaddr + h.memsz - 1)

ReadOnly(entry) == [entry EXCEPT !.w = FALSE]

ProtectRelro ==
  /\ AtHeader("relro")
  /\ Result(UpdateFlags(space, [p \in SegmentPages(Header) |-> ReadOnly(space.table[p])]),
            i + 1, 0)
  /\ UNCHANGED <<elf, tls>>

RecordTls ==
  /\ AtHeader("tls")
  /\ tls' = [start |-> Header.vaddr, mem_size |-> Header.memsz, file_size |-> Header.filesz]
  /\ i' = i + 1
  /\ UNCHANGED <<elf, r, phase, space>>

HeadersDone ==
  /\ phase = "headers" /\ r = 0
  /\ i > Len(elf.headers)
  /\ phase' = "unmark"
  /\ UNCHANGED <<elf, i, r, space, tls>>

\* Mutant: flags & !BIT_9 drops WRITABLE with it.
MutClearBit9(entry) == [entry EXCEPT !.bit9 = FALSE, !.w = entry.w /\ ~entry.bit9]

ClearBit9(entry) == [entry EXCEPT !.bit9 = FALSE]

Unmark ==
  /\ phase = "unmark"
  /\ LET pages == UNION {SegmentPages(elf.headers[k]) : k \in Loads(elf)}
         s     == UpdateFlags(space, [p \in pages |-> ClearBit9(space.table[p])])
     IN  IF s.ok THEN space' = s /\ phase' = "loaded"
         ELSE phase' = "panic" /\ UNCHANGED space
  /\ UNCHANGED <<elf, i, r, tls>>

Next ==
  \/ SkipHeader \/ LoadSegment \/ EnterDynamic \/ ApplyRela \/ LeaveDynamic
  \/ ProtectRelro \/ RecordTls \/ HeadersDone \/ Unmark

Spec == Init /\ [][Next]_vars

-------------------------------------------------------------------------------
\* The types of the variables.
TypeOK ==
  /\ phase \in {"headers", "unmark", "loaded", "panic"}
  /\ i \in 1 .. Len(elf.headers) + 1
  /\ r \in 0 .. Len(elf.relas) + 1
  /\ space.next <= Len(space.mem)

\* What the program finds at every address of its image is what its file says, and
\* tls_template is where its initial thread-local data is.
ImageRight ==
  phase = "loaded" =>
    /\ \A v \in Image(elf) : CellAt(space, v) = Expected(elf, 0, v)
    /\ \A h \in TlsHeaders(elf) :
         /\ tls.mem_size = h.memsz /\ tls.file_size = h.filesz
         /\ \A d \in 0 .. h.filesz - 1 : CellAt(space, tls.start + d) = Expected(elf, 0, h.vaddr + d)

\* The program loaded does not write to the file it was loaded from, neither
\* while it is loaded nor later: none of its pages is a frame of the file.
FileApart ==
  /\ \A f \in 0 .. FileFrames - 1 : Content(space, f) = FileContent(f)
  /\ \A p \in DOMAIN space.table : space.table[p].frame >= FileFrames

\* Pages moved to another frame keep the rights of their segment, read-only
\* where GNU_RELRO says so, and lose the mark.
RightsRight ==
  phase = "loaded" => \A v \in Image(elf) :
    LET e == space.table[PageOf(v)]
    IN  /\ e.w = (SegmentAt(elf, v).w /\ ~InRelro(elf, v))
        /\ e.x = SegmentAt(elf, v).x
        /\ ~e.bit9

\* Drop gives back what the program used: every frame taken from the allocator
\* is on the list exactly once, and a frame deallocated early (raw_unmap) is in
\* no page any more.
FramesAccounted ==
  /\ \A f \in FileFrames .. space.next - 1 :
       Cardinality({k \in 1 .. Len(space.tracked) : space.tracked[k] = f}) = 1
  /\ Len(space.tracked) = space.next - FileFrames
  /\ \A p \in DOMAIN space.table : space.table[p].frame \notin space.freed
===============================================================================
