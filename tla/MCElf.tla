-------------------------------- MODULE MCElf ---------------------------------
(***************************************************************************)
(* The two loaders on the same files: the bootloader's, which maps the file *)
(* where it lies, and the kernel's, which copies it into an address space.  *)
(* They have the same variables; `loader` says whose run it is.             *)
(***************************************************************************)
EXTENDS ElfInputs

CONSTANTS
  Elfs,           \* the files
  Base,           \* where the bootloader puts the kernel
  KernelSpares,   \* how many frames the bootloader's allocator has left
  UserSpares      \* how many frames the kernel's allocator has left

VARIABLES loader, elf, i, r, phase, space, tls

vars == <<loader, elf, i, r, phase, space, tls>>

Kernel == INSTANCE KernelElf WITH Spares <- KernelSpares
User == INSTANCE UserElf WITH Spares <- UserSpares

Init ==
  \/ loader = "kernel" /\ Kernel!Init
  \/ loader = "user" /\ User!Init

Next ==
  \/ loader = "kernel" /\ Kernel!Next /\ UNCHANGED loader
  \/ loader = "user" /\ User!Next /\ UNCHANGED loader

Spec == Init /\ [][Next]_vars

-------------------------------------------------------------------------------
\* The types of the variables, of either loader.
TypeOK ==
  \/ loader = "kernel" /\ Kernel!TypeOK
  \/ loader = "user" /\ User!TypeOK

\* What kernel and program find at every address of their image is what the ELF
\* file says: file bytes, zeroes where the file part ends (inside a page or not),
\* and every relocated pointer, the ones across two pages included; the TLS template
\* points at the initial data of the file.  The bootloader stops at a well-formed file only
\* for lack of frames or at a header below the first LOAD (kernel.rs:87).
ImageRight ==
  /\ loader = "kernel" => Kernel!ImageRight /\ Kernel!LoadsWellFormed
  /\ loader = "user" => User!ImageRight

\* Pages end up with the rights of their segment, read-only where GNU_RELRO says
\* so, whatever copies were made in between (copy_page_and_remap); no mark stays.
RightsRight ==
  /\ loader = "kernel" => Kernel!RightsRight
  /\ loader = "user" => User!RightsRight

\* "这样就不会修改原先的页帧了" (bootloader-efi/src/kernel.rs:141-144): clearing and
\* relocating never change the file in memory, whose frames other segments map too;
\* and elf_copy_to_addrsp leaves no page of the program in a frame of the file.
FileUntouched ==
  /\ loader = "kernel" => Kernel!FileUntouched
  /\ loader = "user" => User!FileApart

\* Segments of the kernel share frames of its file, and yet no two addresses of the
\* image lie in the same cell of memory.  Every frame elf_copy_to_addrsp takes is on
\* the address space's list once, for Drop to give back, and no page is left in a
\* frame that was deallocated.
FramesAccounted ==
  /\ loader = "kernel" => Kernel!NoAlias
  /\ loader = "user" => User!FramesAccounted
===============================================================================
