------------------------------- MODULE KernelElf -------------------------------
(***************************************************************************)
(* load_kernel_to_virt_mem, bootloader-efi/src/kernel.rs: the kernel file   *)
(* is mapped where it lies in memory, segment by segment, at the address    *)
(* the bootloader chose.  Frames of the file are shared between segments    *)
(* and with whatever follows in the file, so a page is moved to a frame of  *)
(* its own (marked BIT_9) before the loader writes to it: to clear the      *)
(* tail of a segment's file part, or to relocate a pointer.                 *)
(*                                                                          *)
(* One action per program header, one per relocation, one for the last      *)
(* loop.  The frames of the page tables themselves are left out.            *)
(***************************************************************************)
EXTENDS ElfFormat

CONSTANTS
  Elfs,       \* kernel files
  Spares,     \* how many frames the allocator has left
  Base        \* kernel_start_virt_addr

VARIABLES
  elf,    \* the file
  i,      \* program header being processed
  r,      \* relocation being processed, 0 outside a dynamic segment
  phase,  \* "headers", "unmark", "loaded", "panic"
  space,  \* page table and frames
  tls     \* tls_template

vars == <<elf, i, r, phase, space, tls>>

-------------------------------------------------------------------------------
FileFrames == AlignUp(elf.length) \div PageSize
FileContent(f) ==
  [o \in Offsets |-> IF f * PageSize + o < elf.length THEN File(f * PageSize + o) ELSE Zero]

kernel_defined_start_virt_addr ==
  Min({elf.headers[k].vaddr : k \in {n \in 1 .. Len(elf.headers) : elf.headers[n].type = "load"}})
Shift == Base - kernel_defined_start_virt_addr

Init ==
  /\ elf \in Elfs
  /\ i = 1
  /\ r = 0
  /\ phase = "headers"
  /\ \E spare \in Spares :
       space = [table |-> [p \in {} |-> 0], ok |-> TRUE, next |-> FileFrames,
                mem |-> [f \in 1 .. FileFrames + spare |->
                           IF f <= FileFrames THEN FileContent(f - 1)
                           ELSE [o \in Offsets |-> Unwritten]]]
  /\ tls = [start |-> 0, mem_size |-> 0, file_size |-> 0]

\* Before its type is looked at, the address of every header of some size is taken
\* relative to the image, an unsigned subtraction; the top-level entry of its pages is the
\* one find_free_space_and_mark has marked already.
Header == elf.headers[i]
Below(h) == h.memsz > 0 /\ h.vaddr < kernel_defined_start_virt_addr
AtHeader(type) ==
  /\ phase = "headers" /\ r = 0
  /\ i <= Len(elf.headers)
  /\ Header.memsz > 0 /\ ~Below(Header)
  /\ Header.type = type

\* Every failure is a panic; the space is of no use to anyone then.
Result(s, next_i, next_r) ==
  IF s.ok
    THEN space' = s /\ i' = next_i /\ r' = next_r /\ UNCHANGED phase
    ELSE phase' = "panic" /\ UNCHANGED <<space, i, r>>

\* "if ph.mem_size() <= 0 { continue; }", and the types without an arm.
SkipHeader ==
  /\ phase = "headers" /\ r = 0
  /\ i <= Len(elf.headers)
  /\ Header.memsz = 0 \/ (Header.type = "other" /\ ~Below(Header))
  /\ i' = i + 1
  /\ UNCHANGED <<elf, r, phase, space, tls>>

\* The subtraction overflows: a panic, whatever the type.
HeaderBelow ==
  /\ phase = "headers" /\ r = 0
  /\ i <= Len(elf.headers) /\ Below(Header)
  /\ phase' = "panic"
  /\ UNCHANGED <<elf, i, r, space, tls>>

-------------------------------------------------------------------------------
\* Mutant: the page is written where it is, in the frame of the file.
MutCopyPage(s, page) == IF Mapped(s, page) THEN s ELSE Fail(s)

\* copy_page_and_remap: a page already moved stays where it is.
CopyPage(s, page) ==
  IF ~Mapped(s, page) THEN Fail(s)
  ELSE IF s.table[page].bit9 THEN s
  ELSE IF ~HasFrames(s, 1) THEN Fail(s)
  ELSE [s EXCEPT !.mem[s.next + 1] = Content(s, s.table[page].frame),
                 !.table[page].frame = s.next,
                 !.table[page].bit9 = TRUE,
                 !.next = s.next + 1]

PageTail(end) == {o \in Offsets : o >= end % PageSize}
BssPages(h) ==
  LET start == h.vaddr + Shift
  IN  PageOf(AlignUp(start + h.filesz)) .. PageOf(start + h.memsz - 1)

\* The file part: one page per frame the bytes lie in, mapped in place.
MapFilePart(s, h) ==
  LET first == PageOf(h.vaddr + Shift)
      last  == PageOf(h.offset + h.filesz - 1) - PageOf(h.offset)
  IN  MapPages(s, [p \in first .. first + last |-> PageOf(h.offset) + (p - first)], h)

\* The rest of the page in which the file part ends.
ClearTail(s, h) ==
  LET end    == h.vaddr + Shift + h.filesz
      copied == CopyPage(s, PageOf(end - 1))
      frame  == copied.table[PageOf(end - 1)].frame
  IN  IF end % PageSize = 0 \/ ~s.ok THEN s
      ELSE IF ~copied.ok THEN copied
      ELSE [copied EXCEPT !.mem[frame + 1] =
              [o \in Offsets |-> IF o \in PageTail(end) THEN Zero ELSE @[o]]]

\* The pages after it, on new frames.
MapBss(s, h) ==
  LET pages == BssPages(h)
      zero  == [o \in Offsets |-> Zero]
      n     == Cardinality(pages)
      s1    == [s EXCEPT !.mem = [f \in 1 .. Len(s.mem) |->
                                    IF f \in s.next + 1 .. s.next + n THEN zero ELSE s.mem[f]],
                         !.next = s.next + n]
  IN  IF pages = {} \/ ~s.ok THEN s
      ELSE IF ~HasFrames(s, n) THEN Fail(s)
      ELSE MapPages(s1, [p \in pages |-> s.next + (p - Min(pages))], h)

LoadSegment ==
  /\ AtHeader("load")
  /\ LET s == MapFilePart(space, Header)
     IN  Result(IF Header.memsz <= Header.filesz THEN s ELSE MapBss(ClearTail(s, Header), Header),
                i + 1, 0)
  /\ UNCHANGED <<elf, tls>>

-------------------------------------------------------------------------------
(***************************************************************************)
(* DYNAMIC.  "rela": one table of 24-byte entries was found; "none": there  *)
(* is none; "bad": a tag is missing or given twice, or the size is wrong.   *)
(***************************************************************************)
EnterDynamic ==
  /\ AtHeader("dynamic")
  /\ CASE elf.dynamic = "none" -> i' = i + 1 /\ UNCHANGED <<r, phase>>
       [] elf.dynamic = "bad"  -> phase' = "panic" /\ UNCHANGED <<i, r>>
       [] elf.dynamic = "rela" -> r' = 1 /\ UNCHANGED <<i, phase>>
  /\ UNCHANGED <<elf, space, tls>>

\* Mutant: only the page the pointer begins in is copied and written.
MutPointerPages(addr) == {PageOf(addr)}

\* The pages a pointer at addr lies in, and the value R_X86_64_RELATIVE writes.
PointerPages(addr) == PagesOf(addr, addr + PtrLen - 1)
RelocatedValue(addend) == Base + (addend - kernel_defined_start_virt_addr)

\* The part of a pointer at addr that lies in page p, after p has been copied.
WritePart(s, p, addr, value) ==
  LET frame == s.table[p].frame
      base  == p * PageSize
      cells == {o \in Offsets : base + o \in addr .. addr + PtrLen - 1}
  IN  IF ~s.ok THEN s
      ELSE [s EXCEPT !.mem[frame + 1] =
              [o \in Offsets |-> IF o \in cells THEN Ptr(value, base + o - addr) ELSE @[o]]]

\* copy_pages_and_write: a pointer is no longer than a page, so it lies in one
\* page or in two.
CopyAndWrite(s, addr, value) ==
  LET pages == PointerPages(addr)
      lo    == Min(pages)
      hi    == Max(pages)
      s1    == WritePart(CopyPage(s, lo), lo, addr, value)
  IN  IF lo = hi \/ ~s1.ok THEN s1 ELSE WritePart(CopyPage(s1, hi), hi, addr, value)

ApplyRela ==
  /\ phase = "headers"
  /\ r \in 1 .. Len(elf.relas)
  /\ LET rela == elf.relas[r]
     IN  Result(IF rela.kind # "relative" THEN Fail(space)
                ELSE CopyAndWrite(space, rela.offset + Shift, RelocatedValue(rela.addend)),
                i, r + 1)
  /\ UNCHANGED <<elf, tls>>

LeaveDynamic ==
  /\ phase = "headers"
  /\ r > Len(elf.relas)
  /\ i' = i + 1
  /\ r' = 0
  /\ UNCHANGED <<elf, phase, space, tls>>

-------------------------------------------------------------------------------
SegmentPages(h) == PagesOf(h.vaddr + Shift, h.vaddr + Shift + h.memsz - 1)

ReadOnly(entry) == [entry EXCEPT !.w = FALSE]

ProtectRelro ==
  /\ AtHeader("relro")
  /\ Result(UpdateFlags(space, [p \in SegmentPages(Header) |-> ReadOnly(space.table[p])]),
            i + 1, 0)
  /\ UNCHANGED <<elf, tls>>

RecordTls ==
  /\ AtHeader("tls")
  /\ tls' = [start |-> Header.vaddr + Shift, mem_size |-> Header.memsz,
             file_size |-> Header.filesz]
  /\ i' = i + 1
  /\ UNCHANGED <<elf, r, phase, space>>

HeadersDone ==
  /\ phase = "headers" /\ r = 0
  /\ i > Len(elf.headers)
  /\ phase' = "unmark"
  /\ UNCHANGED <<elf, i, r, space, tls>>

\* "remove PTEFlags:BIT_9", over the pages of every LOAD segment.
ClearBit9(entry) == [entry EXCEPT !.bit9 = FALSE]

Unmark ==
  /\ phase = "unmark"
  /\ LET pages == UNION {SegmentPages(elf.headers[k]) : k \in Loads(elf)}
         s     == UpdateFlags(space, [p \in pages |-> ClearBit9(space.table[p])])
     IN  IF s.ok THEN space' = s /\ phase' = "loaded"
         ELSE phase' = "panic" /\ UNCHANGED space
  /\ UNCHANGED <<elf, i, r, tls>>

Next ==
  \/ SkipHeader \/ HeaderBelow \/ LoadSegment \/ EnterDynamic \/ ApplyRela \/ LeaveDynamic
  \/ ProtectRelro \/ RecordTls \/ HeadersDone \/ Unmark

Spec == Init /\ [][Next]_vars

-------------------------------------------------------------------------------
\* The types of the variables; a page is in a frame that was handed out.
TypeOK ==
  /\ phase \in {"headers", "unmark", "loaded", "panic"}
  /\ i \in 1 .. Len(elf.headers) + 1
  /\ r \in 0 .. Len(elf.relas) + 1
  /\ \A p \in DOMAIN space.table : space.table[p].frame \in 0 .. space.next - 1
  /\ space.next <= Len(space.mem)

\* What the kernel finds at every address of its image is what its ELF file
\* says: file bytes, zeroes where the file part ends (inside a page or not), and
\* every relocated pointer, the ones across two pages included; and tls_template is where
\* the initial thread-local data is.
ImageRight ==
  phase = "loaded" =>
    /\ \A v \in Image(elf) : CellAt(space, v + Shift) = Expected(elf, Shift, v)
    /\ \A h \in TlsHeaders(elf) :
         /\ tls.mem_size = h.memsz /\ tls.file_size = h.filesz
         /\ \A d \in 0 .. h.filesz - 1 :
              CellAt(space, tls.start + d) = Expected(elf, Shift, h.vaddr + d)

\* "这样就不会修改原先的页帧了" (kernel.rs:141-144): clearing and relocating never
\* change the file in memory, whose frames other segments map too.
FileUntouched == \A f \in 0 .. FileFrames - 1 : Content(space, f) = FileContent(f)

\* Each page of the image ends up with the rights of its segment, read-only
\* where GNU_RELRO says so, whatever copies were made in between; no mark stays.
RightsRight ==
  phase = "loaded" => \A v \in Image(elf) :
    LET e == space.table[PageOf(v + Shift)]
    IN  /\ e.w = (SegmentAt(elf, v).w /\ ~InRelro(elf, v))
        /\ e.x = SegmentAt(elf, v).x
        /\ ~e.bit9

\* No two addresses of the image lie in the same cell of memory, although the
\* segments share frames.
NoAlias ==
  phase = "loaded" => \A u, v \in Image(elf) :
    u # v /\ u % PageSize = v % PageSize =>
      space.table[PageOf(u + Shift)].frame # space.table[PageOf(v + Shift)].frame

\* A well-formed file is always loaded, unless it has a header below its first LOAD or the
\* frames run out: one for each page and one more for each page of a relocated pointer are
\* always enough.
LoadsWellFormed ==
  phase = "panic" =>
    \/ elf.dynamic = "bad"
    \/ \E k \in 1 .. Len(elf.headers) : Below(elf.headers[k])
    \/ \E k \in 1 .. Len(elf.relas) : elf.relas[k].kind # "relative"
    \/ Len(space.mem) < FileFrames + Cardinality({PageOf(v) : v \in Image(elf)})
                                   + 2 * Len(elf.relas)
===============================================================================
