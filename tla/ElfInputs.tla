------------------------------- MODULE ElfInputs -------------------------------
(***************************************************************************)
(* Files with a read-only segment and two writable ones, each sharing a     *)
(* frame of the file with its neighbour, in every position against the page *)
(* boundaries: empty file parts, file parts that end on a boundary or       *)
(* inside a page, zeroed parts of up to three pages (in the middle segment, *)
(* as the linker's padding after relro data is), pointers inside a page and *)
(* across two.  The headers of no interest to a loader are one without a    *)
(* size, one inside the image, as PHDR is, and one below it, as GNU_STACK   *)
(* with a size is.                                                          *)
(***************************************************************************)
EXTENDS ElfFormat

CONSTANTS MCText, MCData, MCBss, MCLast, MCStart

H(type, offset, vaddr, filesz, memsz, w, x) ==
  [type |-> type, offset |-> offset, vaddr |-> vaddr, filesz |-> filesz,
   memsz |-> memsz, w |-> w, x |-> x]

DataAddr(text) == MCStart + AlignUp(text) + (text % PageSize)
LastAddr(text, data, bss) ==
  AlignUp(DataAddr(text) + data + bss) + ((text + data) % PageSize)

\* A header below the image is in files without relocations.
MCOthers(table) ==
  {H("other", 0, MCStart, 1, 1, FALSE, FALSE)}
  \cup (IF table[1] = "none" THEN {H("other", 0, 0, 0, 1, TRUE, TRUE)} ELSE {})

MCHeaders(other, text, data, bss, last, relro) ==
  <<other,
    H("load", 0, MCStart, text, text, FALSE, TRUE),
    H("load", text, DataAddr(text), data, data + bss, TRUE, FALSE),
    H("load", text + data, LastAddr(text, data, bss), last, last, TRUE, FALSE),
    H("dynamic", 0, MCStart, 1, 1, FALSE, FALSE),
    H("relro", text, DataAddr(text), 0, relro, FALSE, FALSE),
    H("tls", text, DataAddr(text), data, data, FALSE, FALSE),
    H("other", 0, 0, 0, 0, TRUE, TRUE)>>

MCRela(v, kind) == [offset |-> v, addend |-> MCStart + 1, kind |-> kind]

\* No relocation, one, or two that do not overlap.
MCRelas(text, data, bss) ==
  LET at == MCStart .. DataAddr(text) + data + bss - PtrLen
  IN  {<<>>, <<MCRela(MCStart, "other")>>} \cup {<<MCRela(u, "relative")>> : u \in at}
      \cup {<<MCRela(u, "relative"), MCRela(v, "relative")>> :
              u \in at \cap {DataAddr(text)}, v \in at \cap {DataAddr(text) + PtrLen}}

\* GNU_RELRO covers nothing or the data segment to the end of its first page.
MCRelro(text, data, bss) ==
  LET rest == PageSize - (DataAddr(text) % PageSize)
  IN  {0} \cup (IF data + bss >= rest THEN {rest} ELSE {})

\* A file without a table of relocations has none.
MCTables(text, data, bss) ==
  {<<"none", <<>>>>, <<"bad", <<>>>>} \cup {<<"rela", relas>> : relas \in MCRelas(text, data, bss)}

MCElfs ==
  UNION {{e \in UNION {{[headers |-> MCHeaders(other, text, data, bss, last, relro),
                         relas |-> table[2], dynamic |-> table[1], length |-> text + data + last] :
                          other \in MCOthers(table), relro \in MCRelro(text, data, bss)} :
                       table \in MCTables(text, data, bss)} :
            WellFormed(e)} :
         text \in MCText, data \in MCData, bss \in MCBss, last \in MCLast}
===============================================================================
