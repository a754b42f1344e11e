------------------------------- MODULE Console -------------------------------
(***************************************************************************)
(* The text console: FrameBufferWriter, the logger that guards it with one *)
(* spin mutex, and the panic handler, which logs as well. The CPUs share   *)
(* the writer; a panic does not unwind, so a guard held at that point is   *)
(* never dropped. The macros of the panic handler and of most records read *)
(* the CPU's id through GS, which init_gdt sets up.                        *)
(*                                                                         *)
(* A glyph is the position of its upper left pixel. All glyphs of the font *)
(* have one size. Colours are left out: the kernel always passes RGB.      *)
(***************************************************************************)
EXTENDS Integers, Sequences, FiniteSets

CONSTANTS
  Cpus, NoCpu,
  Framebuffers,                  \* what locate_framebuffer may hand over
  RasterWidth, RasterHeight,     \* of the font
  LINE_SPACING, BORDER_PADDING,
  Chars,                         \* a subset of {"glyph", "newline", "return"}
  MaxText,                       \* bound: characters of a record
  MaxRecords                     \* bound: records of a CPU

\* A screen holds at least one glyph inside its border, a row is not longer than
\* the stride, and the buffer holds all rows of four-byte pixels.
ASSUME ConsoleAssumption ==
  /\ NoCpu \notin Cpus
  /\ RasterWidth \in Nat \ {0} /\ RasterHeight \in Nat \ {0}
  /\ LINE_SPACING \in Nat /\ BORDER_PADDING \in Nat
  /\ Chars \subseteq {"glyph", "newline", "return"}
  /\ MaxText \in Nat /\ MaxRecords \in Nat
  /\ \A f \in Framebuffers :
       /\ f \in [width : Nat, height : Nat, stride : Nat, len : Nat]
       /\ f.width >= BORDER_PADDING + RasterWidth
       /\ f.height >= BORDER_PADDING + RasterHeight
       /\ f.stride >= f.width
       /\ f.len >= 4 * (f.stride * f.height)

VARIABLES
  framebuffer,
  curr_x_pos, curr_y_pos,
  lit,        \* where glyphs were drawn since the screen was cleared
  writer,     \* the CPU that holds FramebufferLogger.writer, or NoCpu
  pcr,        \* the CPUs whose GS base is their ProcessorControlRegion
  pc,         \* per CPU: "kernel", "lock", "write", "halt" or "fault"
  left,       \* per CPU: characters of its record still to come
  panicking,  \* per CPU: inside panic_handler
  records,    \* per CPU: records begun
  shown       \* the records on the screen, in the order of their characters

vars == <<framebuffer, curr_x_pos, curr_y_pos, lit, writer, pcr, pc, left,
          panicking, records, shown>>

-------------------------------------------------------------------------------
(* The writer. *)

carriage_return == BORDER_PADDING

newline(y) == y + RasterHeight + LINE_SPACING

MutWraps(x) == x >= framebuffer.width

\* The next glyph would reach the right border.
Wraps(x) == x + RasterWidth >= framebuffer.width

MutFull(y) == y >= framebuffer.height

\* The next glyph would reach the lower border.
Full(y) == y + RasterHeight + BORDER_PADDING >= framebuffer.height

\* byte_offset + bytes_per_pixel of the last pixel of a glyph at x, y.
ByteEnd(x, y) ==
  4 * ((y + RasterHeight - 1) * framebuffer.stride + (x + RasterWidth - 1)) + 4

\* errorhart! of the panic handler: without a PCR the pointer read through GS is whatever
\* lies there, and the access behind it yields some id or stops the CPU.
panic_handler(cpu) == IF cpu \in pcr THEN {"lock"} ELSE {"lock", "fault"}

\* The glyph is drawn at x, y after `kept`; a pixel behind the slice panics, and
\* the panic handler starts while the guard is still held.
write_rendered_char(cpu, x, y, kept) ==
  /\ lit' = kept \cup {[x |-> x, y |-> y]}
  /\ curr_y_pos' = y
  /\ IF ByteEnd(x, y) <= framebuffer.len
     THEN /\ curr_x_pos' = x + RasterWidth
          /\ left' = [left EXCEPT ![cpu] = @ - 1]
          /\ UNCHANGED <<pc, panicking>>
     ELSE /\ curr_x_pos' = x
          /\ \E to \in panic_handler(cpu) : pc' = [pc EXCEPT ![cpu] = to]
          /\ panicking' = [panicking EXCEPT ![cpu] = TRUE]
          /\ UNCHANGED left

\* Where a glyph goes: behind the last one, on the next line, or at the top of a
\* cleared screen.
write_glyph(cpu) ==
  LET x == IF Wraps(curr_x_pos) THEN carriage_return ELSE curr_x_pos
      y == IF Wraps(curr_x_pos) THEN newline(curr_y_pos) ELSE curr_y_pos
  IN IF Full(y)
     THEN write_rendered_char(cpu, BORDER_PADDING, BORDER_PADDING, {})
     ELSE write_rendered_char(cpu, x, y, lit)

\* '\r' moves the cursor; the line stays until glyphs are drawn over it.
write_return(cpu) ==
  /\ curr_x_pos' = carriage_return
  /\ left' = [left EXCEPT ![cpu] = @ - 1]
  /\ UNCHANGED <<curr_y_pos, lit, pc, panicking>>

write_newline(cpu) ==
  /\ curr_x_pos' = carriage_return
  /\ curr_y_pos' = newline(curr_y_pos)
  /\ left' = [left EXCEPT ![cpu] = @ - 1]
  /\ UNCHANGED <<lit, pc, panicking>>

-------------------------------------------------------------------------------
(* The logger and the panic handler. *)

\* writeln!(fb_writter, ...): the text, and the newline that ends it.
TextOf == 0 .. MaxText

\* init_gdt sets the GS base, and ends with a record.
InitGdt(cpu) ==
  /\ pc[cpu] = "kernel" /\ cpu \notin pcr /\ records[cpu] < MaxRecords
  /\ pcr' = pcr \cup {cpu}
  /\ pc' = [pc EXCEPT ![cpu] = "lock"]
  /\ UNCHANGED <<framebuffer, curr_x_pos, curr_y_pos, lit, writer, left, panicking,
                 records, shown>>

\* The kernel code of a CPU reaches a log macro; before init_gdt it uses only those
\* that do not read the CPU's id.
Log(cpu) ==
  /\ pc[cpu] = "kernel" /\ records[cpu] < MaxRecords
  /\ pc' = [pc EXCEPT ![cpu] = "lock"]
  /\ UNCHANGED <<framebuffer, curr_x_pos, curr_y_pos, lit, writer, pcr, left, panicking,
                 records, shown>>

\* or_panic, unwrap and assert of the kernel code, outside the logger.
Panic(cpu) ==
  /\ pc[cpu] = "kernel"
  /\ \E to \in panic_handler(cpu) : pc' = [pc EXCEPT ![cpu] = to]
  /\ panicking' = [panicking EXCEPT ![cpu] = TRUE]
  /\ UNCHANGED <<framebuffer, curr_x_pos, curr_y_pos, lit, writer, pcr, left, records,
                 shown>>

MutFree == writer \in Cpus \cup {NoCpu}

\* The mutex spins until its flag is clear.
Free == writer = NoCpu

Lock(cpu) ==
  /\ pc[cpu] = "lock" /\ Free
  /\ writer' = cpu
  /\ pc' = [pc EXCEPT ![cpu] = "write"]
  /\ records' = [records EXCEPT ![cpu] = @ + 1]
  /\ \E n \in TextOf : left' = [left EXCEPT ![cpu] = n + 1]
  /\ UNCHANGED <<framebuffer, curr_x_pos, curr_y_pos, lit, pcr, panicking, shown>>

\* Records whose characters follow one another are one entry.
Shows(cpu) ==
  LET id == <<cpu, records[cpu]>>
  IN shown' = IF shown # <<>> /\ shown[Len(shown)] = id THEN shown ELSE Append(shown, id)

write_char(cpu) ==
  /\ pc[cpu] = "write" /\ left[cpu] > 0
  /\ \/ left[cpu] > 1 /\ "glyph" \in Chars /\ write_glyph(cpu)
     \/ left[cpu] > 1 /\ "return" \in Chars /\ write_return(cpu)
     \/ (left[cpu] = 1 \/ "newline" \in Chars) /\ write_newline(cpu)
  /\ Shows(cpu)
  /\ UNCHANGED <<framebuffer, writer, pcr, records>>

\* The guard is dropped.
Release == NoCpu

\* log returns to the kernel code, or to the panic handler's halt loop.
Return(cpu) ==
  /\ pc[cpu] = "write" /\ left[cpu] = 0
  /\ writer' = Release
  /\ pc' = [pc EXCEPT ![cpu] = IF panicking[cpu] THEN "halt" ELSE "kernel"]
  /\ UNCHANGED <<framebuffer, curr_x_pos, curr_y_pos, lit, pcr, left, panicking, records,
                 shown>>

-------------------------------------------------------------------------------
Init ==
  /\ framebuffer \in Framebuffers
  /\ curr_x_pos = BORDER_PADDING /\ curr_y_pos = BORDER_PADDING
  /\ lit = {}
  /\ writer = NoCpu
  /\ pcr = {}
  /\ pc = [cpu \in Cpus |-> "kernel"]
  /\ left = [cpu \in Cpus |-> 0]
  /\ panicking = [cpu \in Cpus |-> FALSE]
  /\ records = [cpu \in Cpus |-> 0]
  /\ shown = <<>>

InLogger(cpu) == Lock(cpu) \/ write_char(cpu) \/ Return(cpu)

Next == \E cpu \in Cpus : InitGdt(cpu) \/ Log(cpu) \/ Panic(cpu) \/ InLogger(cpu)

\* A CPU inside the logger runs on: nothing blocks there but the mutex.
Fairness == \A cpu \in Cpus : WF_vars(InLogger(cpu))

Spec == Init /\ [][Next]_vars /\ Fairness

-------------------------------------------------------------------------------
\* The cursor, the lock and the CPUs' places have their types, and the cursor never
\* leaves the columns in which a glyph has just ended.
TypeOK ==
  /\ framebuffer \in Framebuffers
  /\ curr_x_pos \in BORDER_PADDING .. framebuffer.width
  /\ curr_y_pos \in Nat
  /\ \A g \in lit : g \in [x : Nat, y : Nat]
  /\ writer \in Cpus \cup {NoCpu}
  /\ pcr \subseteq Cpus
  /\ pc \in [Cpus -> {"kernel", "lock", "write", "halt", "fault"}]
  /\ left \in [Cpus -> 0 .. MaxText + 1]
  /\ panicking \in [Cpus -> BOOLEAN]
  /\ records \in [Cpus -> Nat]

\* Every pixel write_rendered_char writes is a pixel of the visible screen, on every
\* screen, after any text: write_char wraps and clears early enough.
InsideScreen ==
  \A g \in lit : /\ g.x + RasterWidth <= framebuffer.width
                 /\ g.y + RasterHeight <= framebuffer.height

\* write_char never draws a glyph partly over another that is still shown: lines and
\* letters stay apart until clear() empties the screen, and what follows '\r' covers
\* the letters of its line one by one.
GlyphsApart ==
  \A g, h \in lit :
    g # h => \/ g.x + RasterWidth <= h.x \/ h.x + RasterWidth <= g.x
             \/ g.y + RasterHeight <= h.y \/ h.y + RasterHeight <= g.y

\* FramebufferLogger::log holds the mutex over the whole record: no record is torn
\* apart by the characters of another CPU's.
RecordsWhole == \A i, j \in 1 .. Len(shown) : shown[i] = shown[j] => i = j

\* The panic handler of a CPU that is past init_gdt gets its message out and halts: it
\* never waits for a mutex that its own CPU, or a CPU that has halted, still holds.
PanicReported ==
  \A cpu \in Cpus : panicking[cpu] /\ cpu \in pcr ~> pc[cpu] = "halt"
===============================================================================
