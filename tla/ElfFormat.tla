------------------------------- MODULE ElfFormat -------------------------------
(***************************************************************************)
(* What the two ELF loaders of the repository share: the shape of a file as *)
(* xmas_elf presents it, memory as frames of cells, a page table as the     *)
(* x86_64 crate's mapper offers it, and the memory image the ELF format     *)
(* promises, against which the loaders are checked.                         *)
(*                                                                          *)
(* A file is its program headers, its relocations and its length.  Cell n   *)
(* of the file holds the value File(n): the loaders move contents around    *)
(* and never look at them.  Relocations are read from the file at their     *)
(* table's virtual address minus the lowest one, which is where they are    *)
(* in files whose first LOAD segment maps the start of the file, as the     *)
(* linker lays them out; they are given here as the sequence read.          *)
(***************************************************************************)
EXTENDS Integers, Sequences, FiniteSetsExt

CONSTANTS
  PageSize,   \* cells per page and frame
  PtrLen      \* cells a relocated pointer takes, at most PageSize

ASSUME ElfConstantsOK == PageSize \in Nat \ {0} /\ PtrLen \in 1 .. PageSize

\* Contents of a cell.
File(n) == <<"file", n, 0>>
Zero == <<"zero", 0, 0>>
Ptr(value, k) == <<"ptr", value, k>>
Unwritten == <<"unwritten", 0, 0>>

PageOf(addr) == addr \div PageSize
AlignUp(addr) == ((addr + PageSize - 1) \div PageSize) * PageSize
Offsets == 0 .. PageSize - 1

-------------------------------------------------------------------------------
(***************************************************************************)
(* A space: page table and frames.  next is the first frame never used.     *)
(* ok turns FALSE when a call fails; the loaders panic on every failure.    *)
(***************************************************************************)
Fail(s) == [s EXCEPT !.ok = FALSE]
Mapped(s, page) == page \in DOMAIN s.table
HasFrames(s, n) == s.next + n <= Len(s.mem)

\* Frames are numbered from 0, the sequence from 1.
Content(s, frame) == s.mem[frame + 1]
CellAt(s, addr) == Content(s, s.table[PageOf(addr)].frame)[addr % PageSize]

Entry(frame, h) == [frame |-> frame, w |-> h.w, x |-> h.x, bit9 |-> FALSE]

\* map_to for a run of pages, given with their frames; fails when one of them is
\* mapped already.
MapPages(s, frames, h) ==
  IF \E p \in DOMAIN frames : Mapped(s, p) THEN Fail(s)
  ELSE [s EXCEPT !.table =
          [p \in DOMAIN s.table \cup DOMAIN frames |->
             IF p \in DOMAIN frames THEN Entry(frames[p], h) ELSE s.table[p]]]

\* update_flags for the pages, given with their new entries; fails when one of them
\* is not mapped.
UpdateFlags(s, entries) ==
  IF \E p \in DOMAIN entries : ~Mapped(s, p) THEN Fail(s)
  ELSE [s EXCEPT !.table =
          [p \in DOMAIN s.table |->
             IF p \in DOMAIN entries THEN entries[p] ELSE s.table[p]]]

-------------------------------------------------------------------------------
Loads(elf) == {k \in 1 .. Len(elf.headers) :
                 elf.headers[k].type = "load" /\ elf.headers[k].memsz > 0}
Cells(h) == h.vaddr .. h.vaddr + h.memsz - 1
PagesOf(first, last) == PageOf(first) .. PageOf(last)

\* The addresses of the image, and what the format says is there.
Image(elf) == UNION {Cells(elf.headers[k]) : k \in Loads(elf)}
SegmentAt(elf, v) == elf.headers[CHOOSE k \in Loads(elf) : v \in Cells(elf.headers[k])]
RelocatedBy(elf, v) ==
  {k \in 1 .. Len(elf.relas) : v \in elf.relas[k].offset .. elf.relas[k].offset + PtrLen - 1}
InRelro(elf, v) ==
  \E k \in 1 .. Len(elf.headers) : elf.headers[k].type = "relro" /\ v \in Cells(elf.headers[k])

TlsHeaders(elf) ==
  {h \in {elf.headers[k] : k \in 1 .. Len(elf.headers)} : h.type = "tls" /\ h.memsz > 0}

\* shift: where the image is placed, relative to the addresses in the file.
Expected(elf, shift, v) ==
  LET h  == SegmentAt(elf, v)
      rs == RelocatedBy(elf, v)
  IN  IF rs # {} /\ elf.dynamic = "rela"
        THEN LET r == elf.relas[Max(rs)] IN Ptr(r.addend + shift, v - r.offset)
      ELSE IF v - h.vaddr < h.filesz THEN File(h.offset + v - h.vaddr)
      ELSE Zero

\* The segments can be placed without sharing a page, each at the offset inside
\* its page that it has in the file, and relocations stay inside the image.
WellFormed(elf) ==
  /\ \A j, k \in Loads(elf) : j # k =>
       {PageOf(v) : v \in Cells(elf.headers[j])} \cap {PageOf(v) : v \in Cells(elf.headers[k])} = {}
  /\ \A k \in Loads(elf) :
       elf.headers[k].offset % PageSize = elf.headers[k].vaddr % PageSize
  /\ \A k \in 1 .. Len(elf.relas) : \A d \in 0 .. PtrLen - 1 :
       elf.relas[k].offset + d \in Image(elf)
===============================================================================
