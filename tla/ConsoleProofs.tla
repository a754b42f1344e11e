---------------------------- MODULE ConsoleProofs ----------------------------
(***************************************************************************)
(* The console is correct on every screen, for every number of CPUs and    *)
(* every text. Neither InsideScreen nor RecordsWhole is inductive: the     *)
(* first needs where the cursor stands, the second that the mutex has one  *)
(* owner, which needs in turn that no glyph reaches past the buffer (a     *)
(* panic under the mutex would break it). That glyphs lie apart needs the  *)
(* columns of the text: '\r' goes back over a line that is still shown.    *)
(***************************************************************************)
EXTENDS Console, TLAPS

\* All glyphs have one width, so they and the cursor are in columns.
Columns == {BORDER_PADDING + k * RasterWidth : k \in Nat}
InColumns == curr_x_pos \in Columns /\ \A g \in lit : g.x \in Columns

\* The drawn glyphs are in the line of the cursor or in lines that end above it.
AboveCursor ==
  \A g \in lit : g.y = curr_y_pos \/ g.y + RasterHeight <= curr_y_pos

\* The CPU that writes holds the mutex, and no other CPU does.
OneWriter ==
  /\ \A cpu \in Cpus : pc[cpu] = "write" => writer = cpu
  /\ writer # NoCpu => pc[writer] = "write"

\* Only the record being written may still get characters, and it is the last one.
ShownInOrder ==
  /\ shown \in Seq(Cpus \X Nat)
  /\ \A i \in 1 .. Len(shown) : shown[i][2] <= records[shown[i][1]]
  /\ \A i \in 1 .. Len(shown) :
       pc[shown[i][1]] = "write" /\ shown[i][2] = records[shown[i][1]] => i = Len(shown)

IInv ==
  /\ TypeOK /\ InColumns /\ AboveCursor /\ OneWriter /\ ShownInOrder
  /\ InsideScreen /\ GlyphsApart /\ RecordsWhole
-------------------------------------------------------------------------------
\* Row a of a picture of h rows, column b of s: the pixel lies inside the picture.
\* write_pixel computes its offset this way.
LEMMA PixelInside ==
  ASSUME NEW a \in Nat, NEW b \in Nat, NEW s \in Nat, NEW h \in Nat, a < h, b < s
  PROVE  4 * (a * s + b) + 4 <= 4 * (s * h)
<1>1. PICK d \in Nat : h = a + 1 + d
  <2>1. h - a - 1 \in Nat
    OBVIOUS
  <2>2. h = a + 1 + (h - a - 1)
    OBVIOUS
  <2> QED
    BY <2>1, <2>2
<1>2. s * h = a * s + s + d * s
  BY <1>1, SMT
<1>3. a * s \in Nat /\ d * s \in Nat
  BY <1>1, SMT
<1> QED
  BY <1>2, <1>3, SMT

\* What ConsoleAssumption says of the framebuffer in use.
LEMMA ScreenFacts ==
  ASSUME TypeOK
  PROVE  /\ framebuffer.width \in Nat /\ framebuffer.height \in Nat
         /\ framebuffer.stride \in Nat /\ framebuffer.len \in Nat
         /\ framebuffer.width >= BORDER_PADDING + RasterWidth
         /\ framebuffer.height >= BORDER_PADDING + RasterHeight
         /\ framebuffer.stride >= framebuffer.width
         /\ framebuffer.len >= 4 * (framebuffer.stride * framebuffer.height)
         /\ RasterWidth \in Nat \ {0} /\ RasterHeight \in Nat \ {0}
         /\ LINE_SPACING \in Nat /\ BORDER_PADDING \in Nat /\ MaxText \in Nat
         /\ NoCpu \notin Cpus
BY ConsoleAssumption DEF TypeOK

\* A glyph on the screen has its last byte inside the slice: write_pixel does not panic.
LEMMA GlyphInSlice ==
  ASSUME TypeOK, NEW x \in Nat, NEW y \in Nat,
         x + RasterWidth <= framebuffer.width, y + RasterHeight <= framebuffer.height
  PROVE  ByteEnd(x, y) <= framebuffer.len
<1> DEFINE a == y + RasterHeight - 1
           b == x + RasterWidth - 1
           s == framebuffer.stride
           h == framebuffer.height
<1>1. a \in Nat /\ b \in Nat /\ s \in Nat /\ h \in Nat /\ a < h /\ b < s
  BY ScreenFacts, SMT
<1>2. ByteEnd(x, y) = 4 * (a * s + b) + 4
  BY DEF ByteEnd
<1> HIDE DEF a, b, s, h
<1>3. 4 * (a * s + b) + 4 <= 4 * (s * h)
  BY <1>1, PixelInside
<1>4. /\ 4 * (s * h) <= framebuffer.len /\ 4 * (s * h) \in Nat /\ framebuffer.len \in Nat
  BY <1>1, ScreenFacts, SMT DEF s, h
<1>5. 4 * (a * s + b) + 4 \in Nat
  BY <1>1, SMT
<1> QED
  BY <1>2, <1>3, <1>4, <1>5, SMT

\* Two columns are the same or at least a glyph apart.
LEMMA ColumnsApart ==
  ASSUME NEW x \in Columns, NEW z \in Columns, x # z
  PROVE  x + RasterWidth <= z \/ z + RasterWidth <= x
<1>0. RasterWidth \in Nat /\ BORDER_PADDING \in Nat
  BY ConsoleAssumption
<1>1. PICK j \in Nat : x = BORDER_PADDING + j * RasterWidth
  BY Zenon DEF Columns
<1>2. PICK k \in Nat : z = BORDER_PADDING + k * RasterWidth
  BY Zenon DEF Columns
<1>3. ASSUME NEW m \in Nat, NEW n \in Nat, m < n
      PROVE  m * RasterWidth + RasterWidth <= n * RasterWidth
  <2>1. PICK d \in Nat : n = m + 1 + d
    <3>1. n - m - 1 \in Nat /\ n = m + 1 + (n - m - 1)
      BY <1>3, SMT
    <3> QED BY <3>1
  <2>2. n * RasterWidth = m * RasterWidth + RasterWidth + d * RasterWidth
    BY <1>0, <2>1, SMT
  <2>3. m * RasterWidth \in Nat /\ d * RasterWidth \in Nat
    BY <1>0, SMT
  <2> QED BY <1>0, <2>2, <2>3, SMT
<1>4. j * RasterWidth \in Nat /\ k * RasterWidth \in Nat
  BY <1>0, SMT
<1>5. j # k
  BY <1>1, <1>2
<1>6. CASE j < k
  <2>1. j * RasterWidth + RasterWidth <= k * RasterWidth
    BY <1>3, <1>6
  <2> QED BY <1>0, <1>1, <1>2, <1>4, <2>1, SMT
<1>7. CASE k < j
  <2>1. k * RasterWidth + RasterWidth <= j * RasterWidth
    BY <1>3, <1>7
  <2> QED BY <1>0, <1>1, <1>2, <1>4, <2>1, SMT
<1> QED BY <1>5, <1>6, <1>7, SMT

\* The border is a column, and behind each column there is another.
LEMMA NextColumn ==
  /\ BORDER_PADDING \in Columns
  /\ \A x \in Columns : x \in Nat /\ x + RasterWidth \in Columns
<1>0. RasterWidth \in Nat /\ BORDER_PADDING \in Nat
  BY ConsoleAssumption
<1>1. BORDER_PADDING \in Columns
  <2>1. BORDER_PADDING = BORDER_PADDING + 0 * RasterWidth
    BY <1>0, SMT
  <2> QED BY <2>1 DEF Columns
<1>2. ASSUME NEW x \in Columns PROVE x \in Nat /\ x + RasterWidth \in Columns
  <2>1. PICK k \in Nat : x = BORDER_PADDING + k * RasterWidth
    BY Zenon DEF Columns
  <2>2. k * RasterWidth \in Nat
    BY <1>0, SMT
  <2>3. x + RasterWidth = BORDER_PADDING + (k + 1) * RasterWidth
    BY <1>0, <2>1, <2>2, SMT
  <2>4. x \in Nat /\ k + 1 \in Nat
    BY <1>0, <2>1, <2>2, SMT
  <2> QED BY <2>3, <2>4, Zenon DEF Columns
<1> QED BY <1>1, <1>2

\* The place write_char chooses for a glyph is on the screen, in a column, and the glyphs
\* it keeps are in the same line or in lines that end above.
LEMMA PlaceFound ==
  ASSUME IInv, NEW cpu \in Cpus, write_glyph(cpu)
  PROVE  \E x, y \in Nat, kept \in SUBSET lit :
           /\ write_rendered_char(cpu, x, y, kept)
           /\ x >= BORDER_PADDING /\ x \in Columns
           /\ x + RasterWidth <= framebuffer.width
           /\ y + RasterHeight <= framebuffer.height
           /\ \A g \in kept : g.y = y \/ g.y + RasterHeight <= y
<1> DEFINE x == IF Wraps(curr_x_pos) THEN carriage_return ELSE curr_x_pos
           y == IF Wraps(curr_x_pos) THEN newline(curr_y_pos) ELSE curr_y_pos
<1>0. curr_x_pos \in Nat /\ curr_x_pos >= BORDER_PADDING /\ curr_y_pos \in Nat
  BY ScreenFacts DEF IInv, TypeOK
<1>1. CASE Full(y)
  <2>1. write_rendered_char(cpu, BORDER_PADDING, BORDER_PADDING, {})
    BY <1>1 DEF write_glyph
  <2>2. BORDER_PADDING \in Nat /\ BORDER_PADDING >= BORDER_PADDING /\ BORDER_PADDING \in Columns
    BY ScreenFacts, NextColumn DEF IInv
  <2>3. /\ BORDER_PADDING + RasterWidth <= framebuffer.width
        /\ BORDER_PADDING + RasterHeight <= framebuffer.height
    BY ScreenFacts DEF IInv
  <2> QED
    BY <2>1, <2>2, <2>3
<1>2. CASE ~Full(y)
  <2>1. write_rendered_char(cpu, x, y, lit)
    BY <1>2 DEF write_glyph
  <2>2. x \in Nat /\ y \in Nat /\ x >= BORDER_PADDING
    BY <1>0, ScreenFacts DEF IInv, carriage_return, newline
  <2>3. x + RasterWidth <= framebuffer.width
    BY <1>0, ScreenFacts DEF IInv, carriage_return, Wraps
  <2>4. y + RasterHeight <= framebuffer.height
    <3> HIDE DEF y
    <3> QED
      BY <1>2, <2>2, ScreenFacts DEF IInv, Full
  <2>5. ASSUME NEW g \in lit
        PROVE  g.y = y \/ g.y + RasterHeight <= y
    <3>1. g.y \in Nat /\ (g.y = curr_y_pos \/ g.y + RasterHeight <= curr_y_pos)
      BY DEF IInv, TypeOK, AboveCursor
    <3>2. CASE Wraps(curr_x_pos)
      <4>1. y = curr_y_pos + RasterHeight + LINE_SPACING
        BY <3>2 DEF newline
      <4> HIDE DEF x, y
      <4> QED
        BY <1>0, <3>1, <4>1, ScreenFacts DEF IInv
    <3>3. CASE ~Wraps(curr_x_pos)
      BY <3>1, <3>3
    <3> QED
      BY <3>2, <3>3
  <2>6. x \in Columns
    BY NextColumn DEF IInv, InColumns, carriage_return
  <2> HIDE DEF x, y
  <2> QED
    BY <2>1, <2>2, <2>3, <2>4, <2>5, <2>6
<1> QED
  BY <1>1, <1>2
-------------------------------------------------------------------------------
\* A character of the record being written extends the last entry or opens the entry
\* of that record; no earlier entry can be of the same record.
LEMMA ShowsKeepsOrder ==
  ASSUME IInv, NEW cpu \in Cpus, pc[cpu] = "write", Shows(cpu),
         UNCHANGED <<pc, records>>
  PROVE  ShownInOrder' /\ RecordsWhole'
<1> DEFINE id == <<cpu, records[cpu]>>
           n  == Len(shown)
<1>0. /\ shown \in Seq(Cpus \X Nat) /\ n \in Nat /\ id \in Cpus \X Nat
      /\ id[1] = cpu /\ id[2] = records[cpu] /\ records[cpu] \in Nat
  BY DEF IInv, ShownInOrder, TypeOK
<1>1. CASE shown # <<>> /\ shown[n] = id
  <2>1. shown' = shown
    BY <1>1 DEF Shows
  <2> QED
    BY <2>1 DEF IInv, ShownInOrder, RecordsWhole
<1>2. CASE ~(shown # <<>> /\ shown[n] = id)
  <2>1. shown' = Append(shown, id)
    BY <1>2 DEF Shows
  <2>2. /\ shown' \in Seq(Cpus \X Nat) /\ Len(shown') = n + 1
        /\ shown'[n + 1] = id
        /\ \A i \in 1 .. n : shown'[i] = shown[i]
    BY <1>0, <2>1
  <2>3. \A i \in 1 .. n : shown[i] # id
    <3> SUFFICES ASSUME NEW i \in 1 .. n, shown[i] = id PROVE FALSE
      OBVIOUS
    <3>1. i = n
      BY <1>0 DEF IInv, ShownInOrder
    <3>2. shown # <<>>
      BY <1>0
    <3> QED
      BY <1>2, <3>1, <3>2
  <2>4. \A i \in 1 .. n : shown[i] \in Cpus \X Nat
    BY <1>0
  <2>5. \A i \in 1 .. n : pc[shown[i][1]] = "write" => shown[i][1] = cpu
    BY <2>4 DEF IInv, OneWriter
  <2>6. \A i \in 1 .. n : ~(pc[shown[i][1]] = "write" /\ shown[i][2] = records[shown[i][1]])
    <3> SUFFICES ASSUME NEW i \in 1 .. n, pc[shown[i][1]] = "write",
                        shown[i][2] = records[shown[i][1]]
                 PROVE  FALSE
      OBVIOUS
    <3>1. shown[i][1] = cpu /\ shown[i][2] = records[cpu]
      BY <2>5
    <3>2. shown[i] = <<shown[i][1], shown[i][2]>>
      BY <2>4
    <3> QED
      BY <2>3, <3>1, <3>2
  <2>7. ASSUME NEW i \in 1 .. Len(shown') PROVE i \in 1 .. n \/ i = n + 1
    BY <1>0, <2>2
  <2>8. \A i \in 1 .. Len(shown') : shown'[i][2] <= records'[shown'[i][1]]
    <3>1. \A i \in 1 .. n : shown'[i][2] <= records'[shown'[i][1]]
      BY <2>2, Zenon DEF IInv, ShownInOrder
    <3>2. shown'[n + 1][2] <= records'[shown'[n + 1][1]]
      BY <1>0, <2>2
    <3> QED
      BY <2>7, <3>1, <3>2
  <2>9. \A i \in 1 .. Len(shown') :
          pc'[shown'[i][1]] = "write" /\ shown'[i][2] = records'[shown'[i][1]]
            => i = Len(shown')
    BY <2>2, <2>6, <2>7, Zenon
  <2>10. RecordsWhole'
    <3> SUFFICES ASSUME NEW i \in 1 .. Len(shown'), NEW j \in 1 .. Len(shown'),
                        shown'[i] = shown'[j]
                 PROVE  i = j
      BY DEF RecordsWhole
    <3> QED
      BY <2>2, <2>3, <2>7, Zenon DEF IInv, RecordsWhole
  <2> QED
    BY <2>2, <2>8, <2>9, <2>10 DEF ShownInOrder
<1> QED
  BY <1>1, <1>2

\* Drawing a glyph keeps the invariant of the screen, and never panics.
LEMMA GlyphStep ==
  ASSUME IInv, NEW cpu \in Cpus, left[cpu] > 1, write_glyph(cpu),
         UNCHANGED <<framebuffer, writer, pcr, records>>
  PROVE  /\ TypeOK' /\ InColumns' /\ AboveCursor' /\ InsideScreen' /\ GlyphsApart'
         /\ UNCHANGED <<pc, panicking>>
<1>1. PICK x \in Nat, y \in Nat, kept \in SUBSET lit :
        /\ write_rendered_char(cpu, x, y, kept)
        /\ x >= BORDER_PADDING /\ x \in Columns
        /\ x + RasterWidth <= framebuffer.width
        /\ y + RasterHeight <= framebuffer.height
        /\ \A g \in kept : g.y = y \/ g.y + RasterHeight <= y
  BY PlaceFound
<1> DEFINE new == [x |-> x, y |-> y]
<1>2. ByteEnd(x, y) <= framebuffer.len
  BY <1>1, GlyphInSlice DEF IInv
<1>3. /\ lit' = kept \cup {new} /\ curr_y_pos' = y /\ curr_x_pos' = x + RasterWidth
      /\ left' = [left EXCEPT ![cpu] = @ - 1]
      /\ UNCHANGED <<pc, panicking>>
  BY <1>1, <1>2 DEF write_rendered_char
<1>4. new \in [x : Nat, y : Nat] /\ new.x = x /\ new.y = y
  OBVIOUS
<1>5. \A g \in kept : g \in lit /\ g \in [x : Nat, y : Nat] /\ g.x \in Nat /\ g.y \in Nat
  BY DEF IInv, TypeOK
<1>10. \A g \in kept : g.x \in Columns /\ g = [x |-> g.x, y |-> g.y]
  BY <1>5 DEF IInv, InColumns
<1>11. \A g \in kept : g.x = x /\ g.y = y => g = new
  BY <1>10
<1> HIDE DEF new
<1>6. TypeOK'
  <2>1. left' \in [Cpus -> 0 .. MaxText + 1]
    BY <1>3, ScreenFacts DEF IInv, TypeOK
  <2>2. curr_x_pos' \in BORDER_PADDING .. framebuffer.width
    BY <1>1, <1>3, ScreenFacts DEF IInv
  <2>3. \A g \in lit' : g \in [x : Nat, y : Nat]
    BY <1>3, <1>4, <1>5
  <2> QED
    BY <1>1, <1>3, <2>1, <2>2, <2>3 DEF IInv, TypeOK
<1>7. AboveCursor' /\ InColumns'
  <2>1. \A g \in lit' : g.y = y \/ g.y + RasterHeight <= y
    BY <1>1, <1>3, <1>4
  <2>2. \A g \in lit' : g.x \in Columns
    BY <1>1, <1>3, <1>4, <1>10
  <2> QED
    BY <1>1, <1>3, <2>1, <2>2, NextColumn DEF AboveCursor, InColumns
<1>8. InsideScreen'
  BY <1>1, <1>3, <1>4, <1>5 DEF IInv, InsideScreen
<1>9. GlyphsApart'
  <2> SUFFICES ASSUME NEW g \in lit', NEW h \in lit', g # h
               PROVE  \/ g.x + RasterWidth <= h.x \/ h.x + RasterWidth <= g.x
                      \/ g.y + RasterHeight <= h.y \/ h.y + RasterHeight <= g.y
    BY DEF GlyphsApart
  <2>1. CASE g \in kept /\ h \in kept
    BY <1>5, <2>1 DEF IInv, GlyphsApart
  <2>2. ASSUME NEW k \in kept, k # new
        PROVE  \/ k.x + RasterWidth <= x \/ x + RasterWidth <= k.x
               \/ k.y + RasterHeight <= y
    <3>1. CASE k.y = y
      BY <1>1, <1>10, <1>11, <2>2, <3>1, ColumnsApart
    <3>2. CASE k.y # y
      BY <1>1, <3>2
    <3> QED
      BY <3>1, <3>2
  <2>3. CASE g = new /\ h \in kept
    BY <1>4, <2>2, <2>3
  <2>4. CASE h = new /\ g \in kept
    BY <1>4, <2>2, <2>4
  <2> QED
    BY <1>3, <2>1, <2>3, <2>4
<1> QED
  BY <1>3, <1>6, <1>7, <1>8, <1>9

\* The two control characters move the cursor to the first column and leave the text.
LEMMA ControlStep ==
  ASSUME IInv, NEW cpu \in Cpus, left[cpu] > 0, write_return(cpu) \/ write_newline(cpu),
         UNCHANGED <<framebuffer, writer, pcr, records>>
  PROVE  /\ TypeOK' /\ InColumns' /\ AboveCursor' /\ InsideScreen' /\ GlyphsApart'
         /\ UNCHANGED <<pc, panicking>>
<1>1. left' = [left EXCEPT ![cpu] = @ - 1] /\ UNCHANGED <<pc, panicking>>
  BY DEF write_return, write_newline
<1>2. left' \in [Cpus -> 0 .. MaxText + 1]
  BY <1>1, ScreenFacts DEF IInv, TypeOK
<1>3. curr_x_pos' = BORDER_PADDING
  BY DEF write_return, write_newline, carriage_return
<1>4. curr_x_pos' \in BORDER_PADDING .. framebuffer.width
  BY <1>3, ScreenFacts DEF IInv
<1>5. lit' = lit
  BY DEF write_return, write_newline
<1>6. curr_y_pos' \in Nat
  BY ScreenFacts DEF write_return, write_newline, newline, IInv, TypeOK
<1>7. TypeOK'
  BY <1>1, <1>2, <1>4, <1>5, <1>6 DEF IInv, TypeOK
<1>8. AboveCursor' /\ InColumns'
  <2>1. ASSUME NEW g \in lit
        PROVE  g.y = curr_y_pos' \/ g.y + RasterHeight <= curr_y_pos'
    <3>1. /\ g.y \in Nat /\ curr_y_pos \in Nat
          /\ g.y = curr_y_pos \/ g.y + RasterHeight <= curr_y_pos
      BY DEF IInv, TypeOK, AboveCursor
    <3>2. CASE write_return(cpu)
      BY <3>1, <3>2 DEF write_return
    <3>3. CASE write_newline(cpu)
      BY <3>1, <3>3, ScreenFacts DEF write_newline, newline, IInv
    <3> QED
      BY <3>2, <3>3
  <2>2. \A g \in lit : g.x \in Columns
    BY DEF IInv, InColumns
  <2> QED
    BY <1>3, <1>5, <2>1, <2>2, NextColumn DEF AboveCursor, InColumns
<1>9. InsideScreen' /\ GlyphsApart'
  BY <1>5 DEF IInv, InsideScreen, GlyphsApart
<1> QED
  BY <1>1, <1>7, <1>8, <1>9

\* A step that leaves the screen alone keeps what the invariant says of it.
LEMMA ScreenAlone ==
  ASSUME IInv, UNCHANGED <<framebuffer, curr_x_pos, curr_y_pos, lit>>
  PROVE  InColumns' /\ AboveCursor' /\ InsideScreen' /\ GlyphsApart'
BY DEF IInv, InColumns, AboveCursor, InsideScreen, GlyphsApart

\* A step that shows nothing keeps the order of the records, if no finished record
\* becomes the one being written.
LEMMA ShownAlone ==
  ASSUME IInv, UNCHANGED shown,
         \A c \in Cpus : records'[c] >= records[c] /\ records'[c] \in Nat,
         \A c \in Cpus : pc'[c] = "write" => pc[c] = "write" \/ records'[c] > records[c],
         \A c \in Cpus : pc'[c] = "write" /\ pc[c] = "write" => records'[c] = records[c]
  PROVE  ShownInOrder' /\ RecordsWhole'
<1>1. \A i \in 1 .. Len(shown) :
        /\ shown[i][1] \in Cpus /\ shown[i][2] \in Nat
        /\ shown[i][2] <= records[shown[i][1]] /\ records[shown[i][1]] \in Nat
  <2>1. shown \in Seq(Cpus \X Nat) /\ records \in [Cpus -> Nat]
    BY Zenon DEF IInv, ShownInOrder, TypeOK
  <2>2. \A i \in 1 .. Len(shown) : shown[i] \in Cpus \X Nat
    BY <2>1
  <2>3. \A i \in 1 .. Len(shown) : shown[i][2] <= records[shown[i][1]]
    BY Zenon DEF IInv, ShownInOrder
  <2> QED BY <2>1, <2>2, <2>3
<1>2. \A i \in 1 .. Len(shown) : shown[i][2] <= records'[shown[i][1]]
  BY <1>1
<1>3. ASSUME NEW i \in 1 .. Len(shown), pc'[shown[i][1]] = "write",
             shown[i][2] = records'[shown[i][1]]
      PROVE  i = Len(shown)
  <2>1. pc[shown[i][1]] = "write" /\ shown[i][2] = records[shown[i][1]]
    BY <1>1, <1>3
  <2> QED
    BY <2>1 DEF IInv, ShownInOrder
<1>4. ShownInOrder'
  BY <1>2, <1>3 DEF IInv, ShownInOrder
<1> QED
  BY <1>4 DEF IInv, RecordsWhole

\* The console init_framebuffer_logger leaves behind satisfies the invariant.
LEMMA InitOk == Init => IInv
<1> SUFFICES ASSUME Init PROVE IInv
  OBVIOUS
<1>1. framebuffer \in Framebuffers /\ BORDER_PADDING \in BORDER_PADDING .. framebuffer.width
  BY ConsoleAssumption DEF Init
<1>2. TypeOK
  BY <1>1, ConsoleAssumption DEF Init, TypeOK
<1>3. shown = <<>> /\ Len(shown) = 0 /\ shown \in Seq(Cpus \X Nat)
  BY DEF Init
<1>4. ShownInOrder /\ RecordsWhole
  BY <1>3 DEF ShownInOrder, RecordsWhole
<1>5. OneWriter
  BY DEF Init, OneWriter
<1> QED
  BY <1>2, <1>4, <1>5, NextColumn
  DEF IInv, Init, InColumns, AboveCursor, InsideScreen, GlyphsApart

\* Every step of a CPU in or outside the logger preserves the invariant.
LEMMA NextOk == IInv /\ [Next]_vars => IInv'
<1> SUFFICES ASSUME IInv, [Next]_vars PROVE IInv'
  OBVIOUS
<1> USE DEF IInv
<1>1. ASSUME NEW cpu \in Cpus, InitGdt(cpu) \/ Log(cpu) \/ Panic(cpu) PROVE IInv'
  <2>0. /\ pc[cpu] = "kernel"
        /\ UNCHANGED <<framebuffer, curr_x_pos, curr_y_pos, lit, writer, left, records, shown>>
    BY <1>1, Zenon DEF InitGdt, Log, Panic
  <2>1. PICK to \in {"lock", "fault"} : pc' = [pc EXCEPT ![cpu] = to]
    BY <1>1, Zenon DEF InitGdt, Log, Panic, panic_handler
  <2>2. panicking' \in [Cpus -> BOOLEAN] /\ pcr' \subseteq Cpus
    BY <1>1, Zenon DEF InitGdt, Log, Panic, TypeOK
  <2>3. TypeOK'
    BY <2>0, <2>1, <2>2, Zenon DEF TypeOK
  <2>4. OneWriter'
    BY <2>0, <2>1 DEF TypeOK, OneWriter
  <2>5. ShownInOrder' /\ RecordsWhole'
    <3>1. \A c \in Cpus : records'[c] >= records[c] /\ records'[c] \in Nat
      BY <2>0, <2>1 DEF TypeOK
    <3>2. \A c \in Cpus : pc'[c] = "write" => pc[c] = "write"
      BY <2>0, <2>1 DEF TypeOK
    <3> QED
      BY <2>0, <2>1, <3>1, <3>2, ShownAlone DEF IInv
  <2> QED
    BY <2>0, <2>1, <2>3, <2>4, <2>5, ScreenAlone, SMTT(60)
<1>2. ASSUME NEW cpu \in Cpus, Lock(cpu) PROVE IInv'
  <2>1. PICK n \in 0 .. MaxText : left' = [left EXCEPT ![cpu] = n + 1]
    BY <1>2, Zenon DEF Lock, TextOf
  <2>2. left' \in [Cpus -> 0 .. MaxText + 1]
    BY <2>1, ScreenFacts DEF TypeOK
  <2>3. TypeOK'
    BY <1>2, <2>2, SMTT(60) DEF Lock, TypeOK
  <2>4. OneWriter'
    BY <1>2, ScreenFacts DEF Lock, Free, TypeOK, OneWriter
  <2>5. ShownInOrder' /\ RecordsWhole'
    <3>1. /\ records' = [records EXCEPT ![cpu] = @ + 1] /\ pc' = [pc EXCEPT ![cpu] = "write"]
          /\ pc[cpu] = "lock" /\ UNCHANGED shown
      BY <1>2 DEF Lock
    <3>2. \A c \in Cpus : records'[c] >= records[c] /\ records'[c] \in Nat
      BY <3>1 DEF TypeOK
    <3>3. \A c \in Cpus : pc'[c] = "write" => pc[c] = "write" \/ records'[c] > records[c]
      BY <3>1 DEF TypeOK
    <3>4. \A c \in Cpus : pc'[c] = "write" /\ pc[c] = "write" => records'[c] = records[c]
      BY <3>1 DEF TypeOK
    <3> QED
      BY <3>1, <3>2, <3>3, <3>4, ShownAlone
  <2> QED
    BY <1>2, <2>3, <2>4, <2>5, ScreenAlone DEF Lock
<1>3. ASSUME NEW cpu \in Cpus, write_char(cpu) PROVE IInv'
  <2>1. /\ pc[cpu] = "write" /\ left[cpu] > 0 /\ Shows(cpu)
        /\ UNCHANGED <<framebuffer, writer, pcr, records>>
        /\ \/ left[cpu] > 1 /\ write_glyph(cpu)
           \/ write_return(cpu) \/ write_newline(cpu)
    BY <1>3, SMTT(60) DEF write_char
  <2>2. /\ TypeOK' /\ InColumns' /\ AboveCursor' /\ InsideScreen' /\ GlyphsApart'
        /\ UNCHANGED <<pc, panicking>>
    BY <2>1, GlyphStep, ControlStep
  <2>3. ShownInOrder' /\ RecordsWhole'
    BY <2>1, <2>2, ShowsKeepsOrder, Zenon
  <2>4. OneWriter'
    BY <2>1, <2>2 DEF OneWriter
  <2> QED
    BY <2>2, <2>3, <2>4
<1>4. ASSUME NEW cpu \in Cpus, Return(cpu) PROVE IInv'
  <2>1. /\ pc[cpu] = "write" /\ writer' = NoCpu
        /\ pc' = [pc EXCEPT ![cpu] = IF panicking[cpu] THEN "halt" ELSE "kernel"]
        /\ UNCHANGED <<framebuffer, curr_x_pos, curr_y_pos, lit, pcr, left, panicking, records,
                       shown>>
    BY <1>4 DEF Return, Release
  <2>2. \A c \in Cpus : pc'[c] = "write" => pc[c] = "write" /\ c # cpu
    BY <2>1 DEF TypeOK
  <2>3. TypeOK'
    BY <2>1, SMTT(60) DEF TypeOK
  <2>4. OneWriter'
    BY <2>1, <2>2 DEF OneWriter
  <2>5. \A c \in Cpus : records'[c] >= records[c] /\ records'[c] \in Nat
    BY <2>1 DEF TypeOK
  <2>6. ShownInOrder' /\ RecordsWhole'
    BY <2>1, <2>2, <2>5, ShownAlone, ZenonT(60)
  <2> QED
    BY <2>1, <2>3, <2>4, <2>6, ScreenAlone
<1>5. CASE UNCHANGED vars
  BY <1>5 DEF vars, TypeOK, InColumns, AboveCursor, OneWriter, ShownInOrder, InsideScreen,
              GlyphsApart, RecordsWhole
<1> QED
  BY <1>1, <1>2, <1>3, <1>4, <1>5 DEF Next, InLogger

\* The strengthened invariant holds in every reachable state.
THEOREM Inductive == Spec => []IInv
BY InitOk, NextOk, PTL DEF Spec

\* On every screen and for every text, carriage returns included, the pixels
\* FrameBufferWriter writes are pixels of the screen, and a glyph is drawn beside the
\* others or exactly where one was, never partly over one.
THEOREM TextOnScreen == Spec => [](InsideScreen /\ GlyphsApart)
<1>1. IInv => InsideScreen /\ GlyphsApart
  BY DEF IInv
<1> QED
  BY <1>1, Inductive, PTL

\* However many CPUs log, FramebufferLogger::log never tears a record apart.
THEOREM RecordsStayWhole == Spec => []RecordsWhole
<1>1. IInv => RecordsWhole
  BY DEF IInv
<1> QED
  BY <1>1, Inductive, PTL

\* The mutex is only ever held by a CPU that is writing: no panic handler waits for a
\* mutex its own CPU holds, and no halted CPU holds it.
THEOREM PanicHoldsNoLock ==
  Spec => [](\A cpu \in Cpus : writer = cpu => pc[cpu] = "write")
<1>1. IInv => \A cpu \in Cpus : writer = cpu => pc[cpu] = "write"
  BY ConsoleAssumption DEF IInv, OneWriter
<1> QED
  BY <1>1, Inductive, PTL
===============================================================================
