------------------------- MODULE InterruptEntryProofs -------------------------
(***************************************************************************)
(* The ways into the kernel keep GS and the registers right however deep    *)
(* handlers interrupt each other.                                           *)
(***************************************************************************)
EXTENDS InterruptEntry, TLAPS

USE DepthAssumption

-------------------------------------------------------------------------------
(***************************************************************************)
(* Sequences whose elements have no common type, which the words of a stack *)
(* and the frames are: a sequence is one over its own elements.             *)
(***************************************************************************)
IsSeq(s) == s \in Seq(Range(s))

\* A sequence over any set is one over its elements, and is the function on its positions.
LEMMA SeqIsSeq ==
  ASSUME NEW S, NEW s \in Seq(S)
  PROVE  IsSeq(s) /\ Len(s) \in Nat /\ DOMAIN s = 1 .. Len(s)
<1>1. Len(s) \in Nat /\ DOMAIN s = 1 .. Len(s) /\ s \in [1 .. Len(s) -> S]
  OBVIOUS
<1>2. s \in [1 .. Len(s) -> Range(s)]
  BY <1>1 DEF Range
<1> QED BY <1>1, <1>2 DEF IsSeq

\* A sequence over a set is one over a larger set.
LEMMA WiderSeq ==
  ASSUME NEW S, NEW T, S \subseteq T, NEW s \in Seq(S)
  PROVE  s \in Seq(T)
<1>1. Len(s) \in Nat /\ s \in [1 .. Len(s) -> T]
  OBVIOUS
<1> QED BY <1>1

\* Two sequences one behind the other, word by word.
Joined(p, s, t) ==
  /\ IsSeq(p)
  /\ Len(p) = Len(s) + Len(t)
  /\ \A i \in 1 .. Len(s) : p[i] = s[i]
  /\ \A i \in 1 .. Len(t) : p[Len(s) + i] = t[i]

\* Pushing words on a stack: the new ones come first, the old ones follow.
LEMMA Concat ==
  ASSUME NEW s, NEW t, IsSeq(s), IsSeq(t)
  PROVE  Joined(s \o t, s, t)
<1> DEFINE S == Range(s) \cup Range(t)
<1>1. s \in Seq(S) /\ t \in Seq(S)
  BY WiderSeq DEF IsSeq
<1> HIDE DEF S
<1>2. Len(s) \in Nat /\ Len(t) \in Nat
  BY <1>1
<1>3. /\ s \o t \in Seq(S)
      /\ Len(s \o t) = Len(s) + Len(t)
      /\ \A i \in 1 .. Len(s) + Len(t) : (s \o t)[i] = IF i <= Len(s) THEN s[i] ELSE t[i - Len(s)]
  BY <1>1
<1>4. IsSeq(s \o t)
  BY <1>3, SeqIsSeq, Zenon
<1>5. \A i \in 1 .. Len(t) : Len(s) + i \in 1 .. Len(s) + Len(t) /\ ~(Len(s) + i <= Len(s)) /\ Len(s) + i - Len(s) = i
  BY <1>2
<1>6. \A i \in 1 .. Len(s) : i \in 1 .. Len(s) + Len(t) /\ i <= Len(s)
  BY <1>2
<1> QED BY <1>3, <1>4, <1>5, <1>6 DEF Joined

\* A part of a sequence.
LEMMA Part ==
  ASSUME NEW s, IsSeq(s), NEW m \in Nat \ {0}, NEW n \in Nat, n <= Len(s), m <= n + 1
  PROVE  /\ IsSeq(SubSeq(s, m, n))
         /\ Len(SubSeq(s, m, n)) = n - m + 1
         /\ \A i \in 1 .. n - m + 1 : SubSeq(s, m, n)[i] = s[m + i - 1]
<1> DEFINE S == Range(s)
<1>1. s \in Seq(S)
  BY DEF IsSeq
<1> HIDE DEF S
<1>2. /\ SubSeq(s, m, n) \in Seq(S)
      /\ Len(SubSeq(s, m, n)) = n - m + 1
      /\ \A i \in 1 .. n - m + 1 : SubSeq(s, m, n)[i] = s[m + i - 1]
  BY <1>1
<1>3. IsSeq(SubSeq(s, m, n))
  BY <1>2, SeqIsSeq, Zenon
<1> QED BY <1>2, <1>3

\* The words above the first n.
LastTwo(s, t, n) == IsSeq(t) /\ Len(t) = 2 /\ t[1] = s[n + 1] /\ t[2] = s[n + 2]

\* What is left when all but the last two words are popped.
LEMMA Rest ==
  ASSUME NEW s, IsSeq(s), NEW n \in Nat, Len(s) = n + 2
  PROVE  LastTwo(s, SubSeq(s, n + 1, Len(s)), n)
<1> DEFINE a == n + 1
           b == n + 2
           t == SubSeq(s, a, b)
<1>1. a \in Nat \ {0} /\ b \in Nat /\ b <= Len(s) /\ a <= b + 1
  OBVIOUS
<1>2. b - a + 1 = 2 /\ a + 1 - 1 = a /\ a + 2 - 1 = b /\ 1 \in 1 .. 2 /\ 2 \in 1 .. 2
  OBVIOUS
<1>3. SubSeq(s, n + 1, Len(s)) = t
  OBVIOUS
<1> HIDE DEF a, b
<1>4. IsSeq(t) /\ Len(t) = b - a + 1 /\ \A i \in 1 .. b - a + 1 : t[i] = s[a + i - 1]
  BY <1>1, Part
<1> HIDE DEF t
<1>5. IsSeq(t) /\ Len(t) = 2 /\ t[1] = s[a] /\ t[2] = s[b]
  BY <1>2, <1>4
<1> QED BY <1>3, <1>5, Zenon DEF LastTwo, a, b

\* Popping one word moves the others up by one.
LEMMA TailSeq ==
  ASSUME NEW S, NEW s \in Seq(S), s # <<>>
  PROVE  /\ Tail(s) \in Seq(S) /\ Len(Tail(s)) = Len(s) - 1
         /\ \A i \in 1 .. Len(s) - 1 : Tail(s)[i] = s[i + 1]
<1>1. Tail(s) \in Seq(S) /\ Len(Tail(s)) = Len(s) - 1
  OBVIOUS
<1>2. \A i \in 1 .. Len(s) - 1 : Tail(s)[i] = s[i + 1]
  OBVIOUS
<1> QED BY <1>1, <1>2

\* A stack of three words is not empty.
LEMMA NotEmpty ==
  ASSUME NEW S, NEW s \in Seq(S), Len(s) = 3
  PROVE  s # <<>>
  BY SMTT(60)

\* A frame with an error code, the code popped, is the IRET frame.
LEMMA TailOfThree ==
  ASSUME NEW s, IsSeq(s), Len(s) = 3
  PROVE  LastTwo(s, Tail(s), 1)
<1> DEFINE S == Range(s)
           t == Tail(s)
<1>1. s \in Seq(S)
  BY DEF IsSeq
<1> HIDE DEF S
<1>2. s # <<>>
  BY <1>1, NotEmpty, Zenon
<1>3. t \in Seq(S) /\ Len(t) = Len(s) - 1 /\ \A i \in 1 .. Len(s) - 1 : t[i] = s[i + 1]
  BY <1>1, <1>2, TailSeq, Zenon
<1> HIDE DEF t
<1>4. IsSeq(t)
  BY <1>3, SeqIsSeq, Zenon
<1>5. Len(t) = 2 /\ t[1] = s[1 + 1] /\ t[2] = s[1 + 2]
  BY <1>3
<1> QED BY <1>4, <1>5, Zenon DEF LastTwo, t

\* A tuple of one is a sequence.
LEMMA One ==
  ASSUME NEW x
  PROVE  IsSeq(<<x>>) /\ Len(<<x>>) = 1 /\ <<x>>[1] = x
<1>1. <<x>> \in Seq({x}) /\ Len(<<x>>) = 1 /\ <<x>>[1] = x
  OBVIOUS
<1> QED BY <1>1, SeqIsSeq, Zenon

\* A function on the first positions is a sequence.
LEMMA FunIsSeq ==
  ASSUME NEW S, NEW m \in Nat, NEW t \in [1 .. m -> S]
  PROVE  t \in Seq(S) /\ Len(t) = m
  OBVIOUS

\* A sequence with one element replaced.
Updated(t, s, n, e) ==
  IsSeq(t) /\ Len(t) = Len(s) /\ \A k \in 1 .. Len(s) : t[k] = IF k = n THEN e ELSE s[k]

\* Storing one word leaves the others alone.
LEMMA ReplacedOne ==
  ASSUME NEW s, IsSeq(s), NEW n \in 1 .. Len(s), NEW e
  PROVE  Updated([s EXCEPT ![n] = e], s, n, e)
<1> DEFINE S == Range(s) \cup {e}
           t == [s EXCEPT ![n] = e]
<1>1. s \in Seq(S) /\ e \in S
  BY WiderSeq DEF IsSeq
<1> HIDE DEF S
<1>2. s \in [1 .. Len(s) -> S] /\ Len(s) \in Nat
  BY <1>1
<1>3. t \in [1 .. Len(s) -> S] /\ \A k \in 1 .. Len(s) : t[k] = IF k = n THEN e ELSE s[k]
  BY <1>1, <1>2
<1> HIDE DEF t
<1>4. t \in Seq(S) /\ Len(t) = Len(s)
  BY <1>2, <1>3, FunIsSeq, Zenon
<1>5. IsSeq(t)
  BY <1>4, SeqIsSeq, Zenon
<1>6. Updated(t, s, n, e)
  BY <1>3, <1>4, <1>5 DEF Updated
<1> QED BY <1>6 DEF t

\* What Set does: the last frame is replaced, the others stay.
LEMMA SetTop ==
  ASSUME IsSeq(frames), Depth \in Nat \ {0}, NEW f, Set(f)
  PROVE  /\ IsSeq(frames') /\ Depth' = Depth /\ Top' = f
         /\ \A i \in 1 .. Depth - 1 : frames'[i] = frames[i]
<1>1. Depth \in 1 .. Len(frames)
  BY DEF Depth
<1>2. Updated([frames EXCEPT ![Depth] = f], frames, Depth, f)
  BY <1>1, ReplacedOne
<1>3. Updated(frames', frames, Depth, f)
  BY <1>2 DEF Set
<1> QED BY <1>3 DEF Top, Depth, Updated

\* What Deliver and Syscall do to the frames, and what the two returns do.
LEMMA AppendFrame ==
  ASSUME IsSeq(frames), Depth \in Nat \ {0}, NEW f, frames' = Append(frames, f)
  PROVE  /\ IsSeq(frames') /\ Depth' = Depth + 1 /\ Top' = f
         /\ \A i \in 1 .. Depth : frames'[i] = frames[i]
<1> DEFINE S == Range(frames) \cup {f}
<1>1. frames \in Seq(S) /\ f \in S
  BY WiderSeq DEF IsSeq
<1> HIDE DEF S
<1>2. frames' \in Seq(S) /\ Len(frames') = Depth + 1 /\ frames'[Depth + 1] = f
      /\ \A i \in 1 .. Depth : frames'[i] = frames[i]
  BY <1>1 DEF Depth
<1>3. IsSeq(frames')
  BY <1>2, SeqIsSeq, Zenon
<1> QED BY <1>2, <1>3 DEF Top, Depth

\* A return takes the running frame off and leaves those below as they are.
LEMMA DropTop ==
  ASSUME IsSeq(frames), Depth \in Nat, Depth >= 2, frames' = SubSeq(frames, 1, Depth - 1)
  PROVE  /\ IsSeq(frames') /\ Depth' = Depth - 1 /\ Top' = frames[Depth - 1]
         /\ \A i \in 1 .. Depth - 1 : frames'[i] = frames[i]
<1>1. 1 \in Nat \ {0} /\ Depth - 1 \in Nat /\ Depth - 1 <= Depth /\ 1 <= Depth - 1 + 1
  OBVIOUS
<1>2. /\ IsSeq(SubSeq(frames, 1, Depth - 1)) /\ Len(SubSeq(frames, 1, Depth - 1)) = Depth - 1 - 1 + 1
      /\ \A i \in 1 .. Depth - 1 - 1 + 1 : SubSeq(frames, 1, Depth - 1)[i] = frames[1 + i - 1]
  BY <1>1, Part DEF Depth
<1>3. /\ Depth - 1 - 1 + 1 = Depth - 1 /\ Depth - 1 \in 1 .. Depth - 1
      /\ \A i \in 1 .. Depth - 1 : 1 + i - 1 = i
  OBVIOUS
<1>4. /\ IsSeq(frames') /\ Len(frames') = Depth - 1
      /\ \A i \in 1 .. Depth - 1 : frames'[i] = frames[i]
  BY <1>2, <1>3 DEF Depth
<1> QED BY <1>3, <1>4 DEF Top, Depth

-------------------------------------------------------------------------------
(***************************************************************************)
(* The pushes and the pops of the macros.                                   *)
(***************************************************************************)
\* The pushes of interrupt!, rax and the scratch registers.
LEMMA ScratchPushes ==
  LET p == <<"rax">> \o Scratch
  IN  IsSeq(p) /\ Len(p) = 9 /\ p[1] = "rax" /\ \A i \in 1 .. 8 : p[1 + i] = Scratch[i]
<1>1. Scratch \in Seq(Range(Scratch)) /\ Len(Scratch) = 8
  BY DEF Scratch, Range
<1>2. IsSeq(<<"rax">>) /\ Len(<<"rax">>) = 1 /\ <<"rax">>[1] = "rax"
  BY One
<1>3. IsSeq(Scratch)
  BY <1>1 DEF IsSeq
<1> DEFINE o == <<"rax">>
           p == o \o Scratch
<1>4. Joined(p, o, Scratch)
  BY <1>2, <1>3, Concat, Zenon
<1> HIDE DEF p, o
<1>5. Len(p) = 9 /\ p[1] = "rax" /\ \A i \in 1 .. 8 : p[1 + i] = Scratch[i]
  <2>1. Len(o) = 1 /\ o[1] = "rax"
    BY DEF o
  <2> QED BY <1>1, <1>4, <2>1 DEF Joined
<1> QED BY <1>4, <1>5, SMTT(60) DEF p, o, Joined

\* The pushes of the others, last one first, are the fields of InterruptStack.
LEMMA AllPushes ==
  LET p == <<"rax">> \o Scratch \o Preserved
  IN  IsSeq(p) /\ Len(p) = 15 /\ Len(Fields) = 15 /\ \A k \in 1 .. 15 : p[15 - k + 1] = Fields[k]
<1> DEFINE q == <<"rax">> \o Scratch
           p == q \o Preserved
<1>1. IsSeq(q) /\ Len(q) = 9 /\ q[1] = "rax" /\ \A i \in 1 .. 8 : q[1 + i] = Scratch[i]
  BY ScratchPushes
<1>2. Preserved \in Seq(Range(Preserved)) /\ Len(Preserved) = 6
  BY DEF Preserved, Range
<1> HIDE DEF q
<1>c. Joined(p, q, Preserved)
  <2>1. IsSeq(Preserved)
    BY <1>2 DEF IsSeq
  <2> QED BY <1>1, <2>1, Concat, Zenon
<1> HIDE DEF p
<1>3. /\ Len(p) = 15
      /\ \A i \in 1 .. 9 : p[i] = q[i]
      /\ \A i \in 1 .. 6 : p[9 + i] = Preserved[i]
  BY <1>1, <1>2, <1>c DEF Joined
<1>4. /\ p[1] = "rax" /\ p[2] = "rcx" /\ p[3] = "rdx" /\ p[4] = "rdi" /\ p[5] = "rsi" /\ p[6] = "r8"
      /\ p[7] = "r9" /\ p[8] = "r10" /\ p[9] = "r11"
  BY <1>1, <1>3 DEF Scratch
<1>5. /\ p[10] = "rbx" /\ p[11] = "rbp" /\ p[12] = "r12" /\ p[13] = "r13" /\ p[14] = "r14"
      /\ p[15] = "r15"
  BY <1>3 DEF Preserved
<1>6. Len(Fields) = 15 /\ \A k \in 1 .. 15 : p[15 - k + 1] = Fields[k]
  BY <1>4, <1>5 DEF Fields
<1> QED BY <1>3, <1>c, <1>6, Zenon DEF p, q, Joined

\* The pops of the others are in the order of the fields.
LEMMA AllPops ==
  PopPreserved \o PopScratch = Fields /\ IsSeq(PopScratch) /\ Len(PopScratch) = 9
<1> DEFINE p == PopPreserved \o PopScratch
<1>1. PopScratch \in Seq(Range(PopScratch)) /\ Len(PopScratch) = 9
  BY DEF PopScratch, Range
<1>2. PopPreserved \in Seq(Range(PopPreserved)) /\ Len(PopPreserved) = 6
  BY DEF PopPreserved, Range
<1>3. Joined(p, PopPreserved, PopScratch)
  <2>1. IsSeq(PopScratch) /\ IsSeq(PopPreserved)
    BY <1>1, <1>2 DEF IsSeq
  <2> QED BY <2>1, Concat, Zenon
<1> HIDE DEF p
<1>4. /\ IsSeq(p) /\ Len(p) = 15
      /\ \A i \in 1 .. 6 : p[i] = PopPreserved[i]
      /\ \A i \in 1 .. 9 : p[6 + i] = PopScratch[i]
  BY <1>1, <1>2, <1>3 DEF Joined
<1>5. \A i \in 1 .. 6 : p[i] = Fields[i]
  BY <1>4 DEF PopPreserved, Fields
<1>6. \A i \in 1 .. 9 : p[6 + i] = Fields[6 + i]
  BY <1>4 DEF PopScratch, Fields
<1>7. \A i \in 1 .. 15 : p[i] = Fields[i]
  <2>1. \A i \in 1 .. 15 : i \in 1 .. 6 \/ (i - 6 \in 1 .. 9 /\ 6 + (i - 6) = i)
    OBVIOUS
  <2> QED BY <1>5, <1>6, <2>1
<1>8. p = [i \in 1 .. 15 |-> p[i]] /\ Fields = [i \in 1 .. 15 |-> Fields[i]]
  <2>1. DOMAIN p = 1 .. 15 /\ p = [i \in DOMAIN p |-> p[i]]
    BY <1>4, SeqIsSeq DEF IsSeq
  <2> QED BY <2>1 DEF Fields
<1>9. p = Fields
  BY <1>7, <1>8
<1> QED BY <1>1, <1>9 DEF p, IsSeq

\* Pushed has the words in the reverse order of the names.
LEMMA PushedWords ==
  ASSUME NEW names, IsSeq(names), NEW n \in Nat, n = Len(names)
  PROVE  /\ IsSeq(Pushed(names)) /\ Len(Pushed(names)) = n
         /\ \A k \in 1 .. n : Pushed(names)[k] = Word(names[n - k + 1], regs[names[n - k + 1]])
<1> DEFINE v == [k \in 1 .. n |-> Word(names[n - k + 1], regs[names[n - k + 1]])]
<1>1. Pushed(names) = v
  BY DEF Pushed
<1>2. v \in Seq(Range(v)) /\ Len(v) = n
  BY DEF Range
<1> QED BY <1>1, <1>2, Zenon DEF IsSeq

\* The words a handler finds at rsp, in the order of the pops.
Words(stack, names, r) ==
  \A k \in 1 .. Len(names) : stack[k] = Word(names[k], r[names[k]])

\* What the macros push is what they pop, in the order of the pops
\* (interrupt_macro.rs:27-67).
LEMMA SavedWords ==
  ASSUME NEW kind
  PROVE  /\ IsSeq(Popped(kind)) /\ Len(Popped(kind)) \in {9, 15}
         /\ IsSeq(Saved(kind)) /\ Len(Saved(kind)) = Len(Popped(kind))
         /\ Words(Saved(kind), Popped(kind), regs)
<1>1. CASE kind = "interrupt"
  <2> DEFINE p == <<"rax">> \o Scratch
  <2>1. IsSeq(p) /\ Len(p) = 9
    BY ScratchPushes
  <2> HIDE DEF p
  <2>2. /\ IsSeq(Pushed(p)) /\ Len(Pushed(p)) = 9
        /\ \A k \in 1 .. 9 : Pushed(p)[k] = Word(p[9 - k + 1], regs[p[9 - k + 1]])
    <3>1. IsSeq(p) /\ 9 \in Nat /\ 9 = Len(p)
      BY <2>1
    <3> QED BY <3>1, PushedWords, Zenon
  <2>3. \A k \in 1 .. 9 : p[9 - k + 1] = PopScratch[k]
    <3>1. p[1] = "rax" /\ \A i \in 1 .. 8 : p[1 + i] = Scratch[i]
      BY ScratchPushes DEF p
    <3>2. /\ p[2] = "rcx" /\ p[3] = "rdx" /\ p[4] = "rdi" /\ p[5] = "rsi" /\ p[6] = "r8"
          /\ p[7] = "r9" /\ p[8] = "r10" /\ p[9] = "r11"
      BY <3>1 DEF Scratch
    <3> QED BY <3>1, <3>2 DEF PopScratch
  <2>4. Saved(kind) = Pushed(p) /\ Popped(kind) = PopScratch
    BY <1>1 DEF Saved, Popped, p
  <2> QED BY <2>2, <2>3, <2>4, AllPops DEF Words
<1>2. CASE kind # "interrupt"
  <2> DEFINE p == <<"rax">> \o Scratch \o Preserved
  <2>1. IsSeq(p) /\ Len(p) = 15 /\ Len(Fields) = 15 /\ \A k \in 1 .. 15 : p[15 - k + 1] = Fields[k]
    BY AllPushes, Zenon
  <2> HIDE DEF p
  <2>2. /\ IsSeq(Pushed(p)) /\ Len(Pushed(p)) = 15
        /\ \A k \in 1 .. 15 : Pushed(p)[k] = Word(p[15 - k + 1], regs[p[15 - k + 1]])
    <3>1. IsSeq(p) /\ 15 \in Nat /\ 15 = Len(p)
      BY <2>1
    <3> QED BY <3>1, PushedWords, Zenon
  <2>3. Saved(kind) = Pushed(p) /\ Popped(kind) = Fields
    BY <1>2, AllPops DEF Saved, Popped, AllPushed, p
  <2>4. Fields \in Seq(Range(Fields))
    BY DEF Fields, Range
  <2> QED BY <2>1, <2>2, <2>3, <2>4, ZenonT(60) DEF Words, IsSeq
<1> QED BY <1>1, <1>2

\* The pops give every register on the stack the value it had when it was pushed.
LEMMA RestoredRegs ==
  ASSUME NEW names, IsSeq(names), NEW stack, NEW r, Words(stack, names, r)
  PROVE  /\ DOMAIN Restored(names, stack) = Registers
         /\ \A x \in Registers :
              Restored(names, stack)[x] = IF x \in Range(names) THEN r[x] ELSE regs[x]
<1>1. DOMAIN names = 1 .. Len(names)
  BY SeqIsSeq DEF IsSeq
<1>2. \A x \in Range(names) : stack[CHOOSE k \in DOMAIN names : names[k] = x].val = r[x]
  <2> TAKE x \in Range(names)
  <2>1. \E k \in DOMAIN names : names[k] = x
    BY DEF Range
  <2> DEFINE k == CHOOSE k \in DOMAIN names : names[k] = x
  <2>2. k \in DOMAIN names /\ names[k] = x
    BY <2>1
  <2> HIDE DEF k
  <2>3. stack[k] = Word(x, r[x])
    BY <1>1, <2>2 DEF Words
  <2>4. stack[k].val = r[x]
    BY <2>3 DEF Word
  <2> QED BY <2>4 DEF k
<1> QED BY <1>2 DEF Restored

\* The registers a C function may overwrite are those that interrupt! saves.
LEMMA SavedByInterrupt ==
  /\ Range(Popped("interrupt")) = Clobbered
  /\ \A kind : kind # "interrupt" => Range(Popped(kind)) = Registers
<1>1. Popped("interrupt") = PopScratch
  BY DEF Popped
<1>2. Range(PopScratch) = Clobbered
  BY DEF PopScratch, Clobbered, Scratch, Range
<1>3. \A kind : kind # "interrupt" => Popped(kind) = Fields
  BY AllPops DEF Popped
<1> QED BY <1>1, <1>2, <1>3 DEF Registers

-------------------------------------------------------------------------------
(***************************************************************************)
(* The invariant.  Every frame, the running one and each interrupted one,   *)
(* is related to the state it has or will have again when it goes on: for   *)
(* an interrupted frame this is what the frame above it has to restore.     *)
(***************************************************************************)
Kernel(s) == s.gs = "pcr" /\ s.kgs = "user"
User(s) == s.gs = "user" /\ s.kgs = "pcr"
IsState(s) ==
  /\ s = [gs |-> s.gs, kgs |-> s.kgs, intr |-> s.intr, regs |-> s.regs]
  /\ Kernel(s) \/ User(s)
  /\ s.intr \in BOOLEAN
  /\ s.regs = [x \in Registers |-> s.regs[x]]

IsFrame(f) == DOMAIN f = {"kind", "ring", "pc", "stack", "old"}

\* The code at the bottom has the base of its privilege level.
BaseOK(f, s) ==
  /\ f.kind = "base" /\ f.pc = "run"
  /\ f.ring \in {0, 3} /\ (f.ring = 3 => User(s)) /\ (f.ring = 0 => Kernel(s))

\* What the CPU pushed is n words up; from cs a handler that is not paranoid can tell
\* the base it was entered with.
IretFrame(f, n) ==
  /\ IsSeq(f.stack) /\ Len(f.stack) = n + 2
  /\ f.stack[n + 1].name = "rip" /\ f.stack[n + 2].name = "cs"
  /\ f.kind \notin Paranoid => IF f.stack[n + 2].val = 0 THEN Kernel(f.old) ELSE User(f.old)

ErrorWords(kind) == IF kind \in HasErrorCode THEN 1 ELSE 0

HandlerLabels(kind) ==
  {"push", "inner", "pop", "iret"} \cup
  (IF kind \in Paranoid THEN {"compare", "swap_paranoid", "back"}
   ELSE {"test", "swap", "test_back", "swap_back"})

\* Where a handler has the kernel's base whatever it interrupted.
Swapped(f) == f.pc \in {"inner", "back"} \/
              (f.kind \notin Paranoid /\ f.pc \in {"push", "pop", "test_back", "swap_back"})

HandlerOK(f, s) ==
  /\ f.kind \in Kinds /\ f.ring = 0 /\ IsState(f.old) /\ s.intr = FALSE
  /\ f.pc \in HandlerLabels(f.kind)
  /\ f.pc \in {"test", "swap", "push"} => IretFrame(f, ErrorWords(f.kind))
  /\ f.pc \in {"compare", "swap_paranoid", "inner", "back", "pop"} =>
       IretFrame(f, Len(Popped(f.kind))) /\ Words(f.stack, Popped(f.kind), f.old.regs)
  /\ f.pc \in {"test_back", "swap_back", "iret"} => IretFrame(f, 0)
  /\ IF Swapped(f) THEN Kernel(s) ELSE s.gs = f.old.gs /\ s.kgs = f.old.kgs
  /\ f.pc \in {"swap", "swap_paranoid", "swap_back"} => User(f.old)
  /\ f.pc \in {"test", "swap", "push", "compare", "test_back", "swap_back", "iret"} =>
       s.regs = f.old.regs
  /\ f.kind \in Paranoid /\ f.pc \in {"swap_paranoid", "inner", "back"} =>
       s.regs["rbx"] = f.old.gs
  /\ f.kind = "interrupt" /\ f.pc \in {"inner", "pop"} =>
       \A x \in Registers \ Clobbered : s.regs[x] = f.old.regs[x]

\* The frame of a system call holds the registers r, but for some.
SysStruct(stack, r, but) ==
  /\ Len(stack) = 18 /\ stack[16].name = "rip" /\ stack[17].name = "cs"
  /\ \A k \in 1 .. 15 : /\ stack[k] = Word(Fields[k], stack[k].val)
                        /\ Fields[k] \in but \/ stack[k].val = r[Fields[k]]

\* A system call is entered from user mode, by a program or by the return of a new context.
SyscallOK(f, s) ==
  /\ f.kind = "syscall" /\ f.ring = 0 /\ IsState(f.old) /\ User(f.old) /\ s.intr = FALSE
  /\ f.pc \in {"sys_swap", "sys_push", "inner", "enter_usermode", "sys_swap_back", "sys_return"}
  /\ IsSeq(f.stack)
  /\ f.pc \in {"sys_swap", "sys_push"} =>
       /\ Len(f.stack) = 1
       /\ \A x \in Registers \ {"rcx", "r11"} : s.regs[x] = f.old.regs[x]
  /\ f.pc = "inner" => SysStruct(f.stack, f.old.regs, {"rcx", "r11"})
  /\ f.pc = "enter_usermode" => SysStruct(f.stack, f.old.regs, {"rcx", "r11", "rax"})
  /\ f.pc \in {"sys_swap_back", "sys_return"} =>
       \A x \in Registers \ {"rax", "rcx", "r11"} : s.regs[x] = f.old.regs[x]
  /\ IF f.pc \in {"sys_swap", "sys_return"} THEN User(s) ELSE Kernel(s)

FrameOK(f, s) == IsFrame(f) /\ IsState(s) /\ (BaseOK(f, s) \/ HandlerOK(f, s) \/ SyscallOK(f, s))

Seen(i) == IF i = Depth THEN State ELSE frames[i + 1].old

EntryInv ==
  /\ IsSeq(frames) /\ Depth \in 1 .. MaxDepth + 1
  /\ nmi_off \in BOOLEAN
  /\ \A i \in 1 .. Depth :
       /\ FrameOK(frames[i], Seen(i))
       /\ (frames[i].kind = "base") <=> (i = 1)
       /\ frames[i].kind = "syscall" => i = 2 /\ frames[1].ring = 3

-------------------------------------------------------------------------------
\* A frame with its label, or its stack and its label, replaced.
Replaces(f, g, label, stack) ==
  /\ IsFrame(g) /\ g.pc = label /\ g.stack = stack
  /\ g.kind = f.kind /\ g.ring = f.ring /\ g.old = f.old

\* Every step but an entry or a return moves on, with the same stack or a new one.
LEMMA ExceptFields ==
  ASSUME NEW f, IsFrame(f), NEW x, NEW y
  PROVE  /\ Replaces(f, [f EXCEPT !.pc = x], x, f.stack)
         /\ Replaces(f, [f EXCEPT !.stack = y, !.pc = x], x, y)
  BY DEF Replaces, IsFrame

\* The step of the running frame: it is enough that the frame fits its own new state.
LEMMA SetKeeps ==
  ASSUME EntryInv, NEW f, Set(f), f.kind = Top.kind, f.ring = Top.ring, f.old = Top.old,
         FrameOK(f, State'), nmi_off' \in BOOLEAN
  PROVE  EntryInv'
<1>1. IsSeq(frames) /\ Depth \in Nat \ {0} /\ Depth \in 1 .. MaxDepth + 1
  BY DEF EntryInv
<1>2. /\ IsSeq(frames') /\ Depth' = Depth /\ Top' = f
      /\ \A i \in 1 .. Depth - 1 : frames'[i] = frames[i]
  BY <1>1, SetTop
<1>3. frames[Depth] = Top /\ frames'[Depth] = f
  BY <1>2 DEF Top, Depth
<1>4. \A i \in 1 .. Depth : i = Depth \/ (i \in 1 .. Depth - 1 /\ i + 1 \in 1 .. Depth)
  BY <1>1
<1>5. \A i \in 1 .. Depth : /\ frames'[i].kind = frames[i].kind
                            /\ frames'[i].ring = frames[i].ring
                            /\ frames'[i].old = frames[i].old
  BY <1>2, <1>3, <1>4
<1>6. \A i \in 1 .. Depth : FrameOK(frames'[i], Seen(i)')
  <2> TAKE i \in 1 .. Depth
  <2>1. CASE i = Depth
    <3>1. Seen(i)' = State'
      BY <1>2, <2>1 DEF Seen
    <3> QED BY <1>3, <2>1, <3>1
  <2>2. CASE i # Depth
    <3>1. Seen(i)' = Seen(i)
      BY <1>2, <1>4, <1>5, <2>2 DEF Seen
    <3>2. frames'[i] = frames[i]
      BY <1>2, <1>4, <2>2
    <3> QED BY <3>1, <3>2 DEF EntryInv
  <2> QED BY <2>1, <2>2
<1>7. 1 \in 1 .. Depth
  BY <1>1
<1>8. \A i \in 1 .. Depth : /\ (frames'[i].kind = "base") <=> (i = 1)
                            /\ frames'[i].kind = "syscall" => i = 2 /\ frames'[1].ring = 3
  BY <1>5, <1>7 DEF EntryInv
<1> QED BY <1>1, <1>2, <1>6, <1>8 DEF EntryInv

\* The running frame fits the state.
LEMMA TopOK ==
  ASSUME EntryInv
  PROVE  /\ FrameOK(Top, State) /\ IsFrame(Top) /\ IsState(State)
         /\ IsSeq(frames) /\ Depth \in 1 .. MaxDepth + 1 /\ Depth \in Nat \ {0}
         /\ gs = State.gs /\ kgs = State.kgs /\ intr = State.intr /\ regs = State.regs
         /\ nmi_off \in BOOLEAN
<1>1. Depth \in 1 .. MaxDepth + 1 /\ Depth \in 1 .. Depth /\ Depth \in Nat \ {0}
  BY DEF EntryInv
<1>2. FrameOK(frames[Depth], Seen(Depth))
  BY <1>1 DEF EntryInv
<1>3. frames[Depth] = Top /\ Seen(Depth) = State
  BY DEF Top, Depth, Seen
<1>4. gs = State.gs /\ kgs = State.kgs /\ intr = State.intr /\ regs = State.regs
  BY DEF State
<1> QED BY <1>1, <1>2, <1>3, <1>4 DEF FrameOK, EntryInv

\* The fields of the state after a step.
LEMMA StateFields ==
  /\ State'.gs = gs' /\ State'.kgs = kgs' /\ State'.intr = intr' /\ State'.regs = regs'
  /\ State' = [gs |-> State'.gs, kgs |-> State'.kgs, intr |-> State'.intr, regs |-> State'.regs]
  BY DEF State

\* It is enough that the running frame, moved on, is a handler or a system call
\* that fits the new state.
LEMMA StepKeeps ==
  ASSUME EntryInv, NEW f, Set(f), NEW label, NEW stack, Replaces(Top, f, label, stack),
         IsState(State'), HandlerOK(f, State') \/ SyscallOK(f, State'), nmi_off' \in BOOLEAN
  PROVE  EntryInv'
  BY SetKeeps DEF Replaces, FrameOK

\* No instruction but a swapgs touches the bases, and one exchanges them.
LEMMA StateKept ==
  ASSUME EntryInv, UNCHANGED <<gs, kgs>> \/ swapgs, intr' \in BOOLEAN,
         regs' = [x \in Registers |-> regs'[x]]
  PROVE  IsState(State')
<1>1. IsState(State) /\ gs = State.gs /\ kgs = State.kgs
  BY TopOK
<1> QED BY <1>1, StateFields DEF IsState, Kernel, User, swapgs

\* The register file holds a value for every register.
LEMMA RegsFun ==
  ASSUME EntryInv
  PROVE  regs = [x \in Registers |-> regs[x]] /\ intr \in BOOLEAN
  BY TopOK DEF IsState

\* The labels tell a handler from a system call, but for inner.
LEMMA InHandler ==
  ASSUME EntryInv, Top.pc \in HandlerLabels("error") \cup HandlerLabels("nmi"),
         Top.pc = "inner" => Top.kind # "syscall"
  PROVE  HandlerOK(Top, State)
<1>1. FrameOK(Top, State)
  BY TopOK
<1>2. Top.pc # "run"
  BY DEF HandlerLabels, Paranoid
<1>3. Top.pc \notin {"sys_swap", "sys_push", "enter_usermode", "sys_swap_back", "sys_return"}
  BY DEF HandlerLabels, Paranoid
<1> QED BY <1>1, <1>2, <1>3 DEF FrameOK, BaseOK, SyscallOK

\* The labels of the SYSCALL path.
LEMMA InSyscall ==
  ASSUME EntryInv, \/ Top.pc \in {"sys_swap", "sys_push", "enter_usermode", "sys_swap_back", "sys_return"}
                   \/ Top.pc = "inner" /\ Top.kind = "syscall"
  PROVE  SyscallOK(Top, State)
<1>1. FrameOK(Top, State)
  BY TopOK
<1> QED BY <1>1 DEF FrameOK, BaseOK, HandlerOK, HandlerLabels, Kinds

-------------------------------------------------------------------------------
\* The test of the saved CS: the slot it reads holds the ring of the interrupted
\* code, so it goes to swap exactly when the bases are those of the user.
LEMMA TestInv ==
  ASSUME EntryInv, Test
  PROVE  EntryInv'
<1> DEFINE l == IF Top.stack[Tested(Top.kind)].val = 0 THEN "push" ELSE "swap"
           g == [Top EXCEPT !.pc = l]
<1>1. IsFrame(Top) /\ Top.pc = "test" /\ Set(g) /\ nmi_off' \in BOOLEAN
  BY TopOK DEF Test, Goto, At
<1>2. Replaces(Top, g, l, Top.stack)
  BY <1>1, ExceptFields, Zenon
<1>3. HandlerOK(Top, State)
  BY <1>1, InHandler DEF HandlerLabels, Paranoid
<1>4. State' = State
  BY DEF Test, State
<1>5. IsState(State')
  BY <1>4, TopOK
<1>6. Tested(Top.kind) = ErrorWords(Top.kind) + 2 /\ Top.kind \notin Paranoid
      /\ IretFrame(Top, ErrorWords(Top.kind))
  BY <1>1, <1>3 DEF HandlerOK, HandlerLabels, Tested, ErrorWords, Paranoid
<1>7. l = "swap" => User(Top.old)
  BY <1>6 DEF IretFrame
<1>8. l = "push" => Kernel(Top.old)
  BY <1>6, ZenonT(60) DEF IretFrame
<1>9. HandlerOK(g, State')
  <2>1. l \in {"push", "swap"}
    OBVIOUS
  <2> HIDE DEF l, g
  <2> QED
  BY <1>1, <1>2, <1>3, <1>4, <1>6, <1>7, <1>8, <2>1, SMTT(60)
     DEF HandlerOK, Replaces, IretFrame, HandlerLabels, Swapped, Kernel, User
<1> QED BY <1>1, <1>2, <1>5, <1>9, StepKeeps

\* swapgs on entry from ring 3.
LEMMA SwapInv ==
  ASSUME EntryInv, Swap
  PROVE  EntryInv'
<1> DEFINE g == [Top EXCEPT !.pc = "push"]
<1>1. IsFrame(Top) /\ Top.pc = "swap" /\ Set(g) /\ nmi_off' \in BOOLEAN
  BY TopOK DEF Swap, Goto, At
<1>2. Replaces(Top, g, "push", Top.stack)
  BY <1>1, ExceptFields, Zenon
<1>3. HandlerOK(Top, State)
  BY <1>1, InHandler DEF HandlerLabels, Paranoid
<1>5. IsState(State')
  BY StateKept, RegsFun DEF Swap
<1>6. State'.gs = State.kgs /\ State'.kgs = State.gs /\ State'.regs = State.regs
      /\ State'.intr = State.intr
  BY StateFields, TopOK, ZenonT(60) DEF Swap, swapgs
<1>9. HandlerOK(g, State')
  <2> HIDE DEF g
  <2> QED BY <1>1, <1>2, <1>3, <1>6
     DEF HandlerOK, Replaces, IretFrame, HandlerLabels, Swapped, Kernel, User
<1> QED BY <1>1, <1>2, <1>5, <1>9, StepKeeps

\* The paranoid entry compares GS with the PCR address, and so knows what the
\* interrupted code had, whatever its ring.
LEMMA CompareInv ==
  ASSUME EntryInv, Compare
  PROVE  EntryInv'
<1> DEFINE l == IF gs = "pcr" THEN "inner" ELSE "swap_paranoid"
           g == [Top EXCEPT !.pc = l]
<1>1. IsFrame(Top) /\ Top.pc = "compare" /\ Set(g) /\ nmi_off' \in BOOLEAN
  BY TopOK DEF Compare, Goto, At
<1>2. Replaces(Top, g, l, Top.stack)
  BY <1>1, ExceptFields, Zenon
<1>3. HandlerOK(Top, State) /\ IsState(State)
  BY <1>1, InHandler, TopOK DEF HandlerLabels, Paranoid
<1>4. regs' = [regs EXCEPT !["rbx"] = gs] /\ UNCHANGED <<gs, kgs, intr>>
  BY DEF Compare
<1>5. IsState(State')
  BY <1>4, StateKept, RegsFun, Zenon
<1>6. State'.gs = State.gs /\ State'.kgs = State.kgs /\ State'.intr = State.intr
  BY <1>4, StateFields, TopOK
<1>7. "rbx" \in Registers
  BY DEF Registers, Fields, Range
<1>8. State'.regs["rbx"] = State.gs
  BY <1>4, <1>7, StateFields, TopOK, RegsFun
<1>9. l = "inner" <=> State.gs = "pcr"
  BY TopOK
<1>10. l \in {"inner", "swap_paranoid"}
  OBVIOUS
<1>11. Top.kind \in Paranoid /\ Top.kind # "interrupt"
  BY <1>1, <1>3, ZenonT(60) DEF HandlerOK, HandlerLabels, Paranoid
<1> HIDE DEF l, g
<1>12. HandlerOK(g, State')
  BY <1>1, <1>2, <1>3, <1>6, <1>8, <1>9, <1>10, <1>11, SMTT(60)
     DEF HandlerOK, Replaces, IretFrame, HandlerLabels, Swapped, Kernel, User, IsState
<1> QED BY <1>1, <1>2, <1>5, <1>12, StepKeeps

\* swapgs of the paranoid entry, taken only when GS was not the PCR.
LEMMA SwapParanoidInv ==
  ASSUME EntryInv, SwapParanoid
  PROVE  EntryInv'
<1> DEFINE g == [Top EXCEPT !.pc = "inner"]
<1>1. IsFrame(Top) /\ Top.pc = "swap_paranoid" /\ Set(g) /\ nmi_off' \in BOOLEAN
  BY TopOK DEF SwapParanoid, Goto, At
<1>2. Replaces(Top, g, "inner", Top.stack)
  BY <1>1, ExceptFields, Zenon
<1>3. HandlerOK(Top, State)
  BY <1>1, InHandler DEF HandlerLabels, Paranoid
<1>5. IsState(State')
  BY StateKept, RegsFun DEF SwapParanoid
<1>6. State'.gs = State.kgs /\ State'.kgs = State.gs /\ State'.regs = State.regs
      /\ State'.intr = State.intr
  BY StateFields, TopOK DEF SwapParanoid, swapgs
<1>7. Top.kind \in Paranoid /\ Top.kind # "interrupt"
  BY <1>1, <1>3, ZenonT(60) DEF HandlerOK, HandlerLabels, Paranoid
<1> HIDE DEF g
<1>9. HandlerOK(g, State')
  BY <1>1, <1>2, <1>3, <1>6, <1>7
     DEF HandlerOK, Replaces, IretFrame, HandlerLabels, Swapped, Kernel, User
<1> QED BY <1>1, <1>2, <1>5, <1>9, StepKeeps

\* The Rust handler keeps the registers the C ABI says it keeps.
LEMMA InnerInv ==
  ASSUME EntryInv, Inner
  PROVE  EntryInv'
<1> DEFINE l == IF Top.kind \in Paranoid THEN "back" ELSE "pop"
           g == [Top EXCEPT !.pc = l]
<1>1. /\ IsFrame(Top) /\ Top.pc = "inner" /\ Top.kind # "syscall" /\ Set(g) /\ nmi_off' \in BOOLEAN
      /\ UNCHANGED <<gs, kgs, intr>>
      /\ regs' = [r \in Registers |-> IF r \in Clobbered THEN "junk" ELSE regs[r]]
  BY TopOK DEF Inner, Goto, At
<1>2. Replaces(Top, g, l, Top.stack)
  BY <1>1, ExceptFields, Zenon
<1>3. HandlerOK(Top, State)
  BY <1>1, InHandler DEF HandlerLabels, Paranoid
<1>5. IsState(State')
  <2>1. regs' = [x \in Registers |-> regs'[x]]
    BY <1>1
  <2> QED BY <1>1, <2>1, StateKept, RegsFun
<1>6. State'.gs = State.gs /\ State'.kgs = State.kgs /\ State'.intr = State.intr
  BY <1>1, StateFields, TopOK
<1>7. \A x \in Registers \ Clobbered : State'.regs[x] = State.regs[x]
  BY <1>1, StateFields, TopOK
<1>8. "rbx" \in Registers /\ "rbx" \notin Clobbered
  BY DEF Registers, Fields, Range, Clobbered, Scratch
<1>9. State'.regs["rbx"] = State.regs["rbx"]
  BY <1>7, <1>8
<1>10. l = IF Top.kind \in Paranoid THEN "back" ELSE "pop"
  OBVIOUS
<1>11. Top.kind \in Paranoid => Top.kind # "interrupt"
  BY ZenonT(60) DEF Paranoid
<1> HIDE DEF l, g
<1>12. HandlerOK(g, State')
  BY <1>1, <1>2, <1>3, <1>6, <1>7, <1>9, <1>10, <1>11
     DEF HandlerOK, Replaces, IretFrame, HandlerLabels, Swapped, Kernel, User
<1> QED BY <1>1, <1>2, <1>5, <1>12, StepKeeps

\* The paranoid exit swaps again exactly when the entry did, as RBX says.
LEMMA BackParanoidInv ==
  ASSUME EntryInv, BackParanoid
  PROVE  EntryInv'
<1> DEFINE g == [Top EXCEPT !.pc = "pop"]
<1>1. IsFrame(Top) /\ Top.pc = "back" /\ Set(g) /\ nmi_off' \in BOOLEAN
  BY TopOK DEF BackParanoid, Goto, At
<1>2. Replaces(Top, g, "pop", Top.stack)
  BY <1>1, ExceptFields, Zenon
<1>3. HandlerOK(Top, State) /\ IsState(State)
  BY <1>1, InHandler, TopOK DEF HandlerLabels, Paranoid
<1>5. IsState(State')
  BY StateKept, RegsFun DEF BackParanoid, Back
<1>6. /\ State'.regs = State.regs /\ State'.intr = State.intr
      /\ IF State.regs["rbx"] = "pcr" THEN State'.gs = State.gs /\ State'.kgs = State.kgs
         ELSE State'.gs = State.kgs /\ State'.kgs = State.gs
  BY StateFields, TopOK DEF BackParanoid, Back, swapgs
<1>7. Top.kind \in Paranoid /\ Top.kind # "interrupt"
  BY <1>1, <1>3 DEF HandlerOK, HandlerLabels, Paranoid
<1>8. State'.gs = Top.old.gs /\ State'.kgs = Top.old.kgs
  BY <1>1, <1>3, <1>6, <1>7, ZenonT(60) DEF HandlerOK, Swapped, IsState, Kernel, User
<1> HIDE DEF g
<1>9. HandlerOK(g, State')
  BY <1>1, <1>2, <1>3, <1>6, <1>7, <1>8
     DEF HandlerOK, Replaces, IretFrame, HandlerLabels, Swapped
<1> QED BY <1>1, <1>2, <1>5, <1>9, StepKeeps

\* The pushes save the registers of the interrupted code, and the exchange of the
\* error code with RAX keeps both.
LEMMA PushInv ==
  ASSUME EntryInv, Push
  PROVE  EntryInv'
<1> DEFINE e == ErrorWords(Top.kind)
           rest == IF Top.kind \in HasErrorCode THEN Tail(Top.stack) ELSE Top.stack
           l == IF Top.kind \in Paranoid THEN "compare" ELSE "inner"
           st == Saved(Top.kind) \o rest
           g == [Top EXCEPT !.stack = st, !.pc = l]
<1>1. /\ IsFrame(Top) /\ Top.pc = "push" /\ Set(g) /\ nmi_off' \in BOOLEAN
      /\ UNCHANGED <<gs, kgs, intr>>
      /\ regs' = IF Top.kind \in HasErrorCode THEN [regs EXCEPT !["rsi"] = "code"] ELSE regs
  BY TopOK DEF Push, At
<1>2. Replaces(Top, g, l, st)
  BY <1>1, ExceptFields, Zenon
<1>3. HandlerOK(Top, State) /\ IsState(State)
  BY <1>1, InHandler, TopOK DEF HandlerLabels, Paranoid
<1>4. IretFrame(Top, e)
  BY <1>1, <1>3 DEF HandlerOK
<1>5. IsSeq(rest) /\ Len(rest) = 2 /\ rest[1] = Top.stack[e + 1] /\ rest[2] = Top.stack[e + 2]
  <2>1. CASE Top.kind \in HasErrorCode
    <3>1. IsSeq(Top.stack) /\ Len(Top.stack) = 3 /\ e = 1
      BY <1>4, <2>1 DEF IretFrame, ErrorWords
    <3>2. rest = Tail(Top.stack)
      BY <2>1
    <3>3. LastTwo(Top.stack, Tail(Top.stack), 1)
      BY <3>1, TailOfThree, SMTT(60)
    <3> HIDE DEF e, rest
    <3> QED BY <3>1, <3>2, <3>3 DEF LastTwo
  <2>2. CASE Top.kind \notin HasErrorCode
    BY <1>4, <2>2 DEF IretFrame, ErrorWords
  <2> QED BY <2>1, <2>2, Zenon
<1> DEFINE n == Len(Popped(Top.kind))
<1>6. /\ IsSeq(Saved(Top.kind)) /\ Len(Saved(Top.kind)) = n /\ n \in {9, 15}
      /\ Words(Saved(Top.kind), Popped(Top.kind), regs)
  BY SavedWords
<1> HIDE DEF rest
<1>7. Joined(st, Saved(Top.kind), rest)
  BY <1>5, <1>6, Concat, Zenon
<1> HIDE DEF st
<1>8. IsSeq(st) /\ Len(st) = n + 2 /\ st[n + 1] = rest[1] /\ st[n + 2] = rest[2]
      /\ \A i \in 1 .. n : st[i] = Saved(Top.kind)[i]
  BY <1>5, <1>6, <1>7, SMTT(60) DEF Joined
<1>9. Words(st, Popped(Top.kind), regs)
  BY <1>6, <1>8 DEF Words
<1>10. regs = Top.old.regs
  BY <1>1, <1>3, TopOK DEF HandlerOK
<1>11. IsState(State')
  BY <1>1, StateKept, RegsFun, Zenon
<1>12. State'.gs = State.gs /\ State'.kgs = State.kgs /\ State'.intr = State.intr
  BY <1>1, StateFields, TopOK
<1>13. Top.kind \notin HasErrorCode => State'.regs = State.regs
  BY <1>1, StateFields, TopOK
<1>14. l = IF Top.kind \in Paranoid THEN "compare" ELSE "inner"
  BY Zenon
<1> HIDE DEF l, g, n, e
<1>15. IretFrame(g, n) /\ Words(g.stack, Popped(g.kind), g.old.regs)
  BY <1>2, <1>4, <1>5, <1>8, <1>9, <1>10 DEF IretFrame, Replaces
<1>16. Top.kind \in HasErrorCode => Top.kind \notin Paranoid /\ Top.kind # "interrupt"
  BY ZenonT(60) DEF HasErrorCode, Paranoid
<1>17. HandlerOK(g, State')
  BY <1>1, <1>2, <1>3, <1>12, <1>13, <1>14, <1>15, <1>16, SMTT(60)
     DEF HandlerOK, Replaces, HandlerLabels, Swapped, Kernel, User, n
<1> QED BY <1>1, <1>2, <1>11, <1>17, StepKeeps

\* The pops load what the pushes saved, the error code skipped.
LEMMA PopInv ==
  ASSUME EntryInv, Pop
  PROVE  EntryInv'
<1> DEFINE names == Popped(Top.kind)
           n == Len(names)
           st == SubSeq(Top.stack, n + 1, Len(Top.stack))
           l == IF Top.kind \in Paranoid THEN "iret" ELSE "test_back"
           g == [Top EXCEPT !.stack = st, !.pc = l]
<1>0. Set(g)
  BY DEF Pop
<1>1. /\ IsFrame(Top) /\ Top.pc = "pop" /\ nmi_off' \in BOOLEAN
      /\ UNCHANGED <<gs, kgs, intr>> /\ regs' = Restored(names, Top.stack)
  BY TopOK DEF Pop, At
<1>2. Replaces(Top, g, l, st)
  BY <1>1, ExceptFields, Zenon
<1>3. HandlerOK(Top, State) /\ IsState(State)
  BY <1>1, InHandler, TopOK, Zenon DEF HandlerLabels, Paranoid
<1>4. IretFrame(Top, n) /\ Words(Top.stack, names, Top.old.regs) /\ IsState(Top.old)
  BY <1>1, <1>3 DEF HandlerOK
<1>5. n \in {9, 15} /\ IsSeq(names)
  BY SavedWords, Zenon
<1>6. /\ IsSeq(Top.stack) /\ Len(Top.stack) = n + 2
      /\ Top.stack[n + 1].name = "rip" /\ Top.stack[n + 2].name = "cs"
  BY <1>4 DEF IretFrame
<1> HIDE DEF names, n
<1>7. IsSeq(st) /\ Len(st) = 2 /\ st[1] = Top.stack[n + 1] /\ st[2] = Top.stack[n + 2]
  <2>1. LastTwo(Top.stack, st, n)
    BY <1>5, <1>6, Rest, Zenon
  <2> QED BY <2>1, Zenon DEF LastTwo
<1>8. regs' = Top.old.regs /\ regs' = [x \in Registers |-> regs'[x]]
  <2>1. /\ DOMAIN Restored(names, Top.stack) = Registers
        /\ \A x \in Registers : Restored(names, Top.stack)[x] =
             IF x \in Range(names) THEN Top.old.regs[x] ELSE regs[x]
    BY <1>4, <1>5, RestoredRegs
  <2>2. \A x \in Registers \ Range(names) : regs[x] = Top.old.regs[x]
    <3>1. CASE Top.kind = "interrupt"
      BY <1>1, <1>3, <3>1, SavedByInterrupt, TopOK, Zenon DEF HandlerOK, names
    <3>2. CASE Top.kind # "interrupt"
      BY <3>2, SavedByInterrupt, Zenon DEF names
    <3> QED BY <3>1, <3>2, Zenon
  <2>3. \A x \in Registers : regs'[x] = Top.old.regs[x]
    BY <1>1, <2>1, <2>2, Zenon
  <2>4. regs' = [x \in Registers |-> regs'[x]]
    BY <1>1 DEF Restored
  <2> QED BY <1>4, <2>3, <2>4, Zenon DEF IsState
<1>9. IsState(State')
  BY <1>1, <1>8, StateKept, RegsFun, Zenon
<1>10. /\ State'.gs = State.gs /\ State'.kgs = State.kgs /\ State'.intr = State.intr
       /\ State'.regs = Top.old.regs
  BY <1>1, <1>8, StateFields, TopOK
<1>11. l = IF Top.kind \in Paranoid THEN "iret" ELSE "test_back"
  BY Zenon
<1> HIDE DEF l, g, st
<1>12. IretFrame(g, 0)
  <2>1. 0 + 1 = 1 /\ 0 + 2 = 2
    BY SMTT(60)
  <2> QED BY <1>2, <1>4, <1>5, <1>7, <2>1, Zenon DEF IretFrame, Replaces
<1>13. HandlerOK(g, State')
  BY <1>1, <1>2, <1>3, <1>10, <1>11, <1>12
     DEF HandlerOK, Replaces, HandlerLabels, Swapped, Kernel
<1> QED BY <1>0, <1>1, <1>2, <1>9, <1>13, StepKeeps

\* The second test of the saved CS, now two words from the top.
LEMMA TestBackInv ==
  ASSUME EntryInv, TestBack
  PROVE  EntryInv'
<1> DEFINE l == IF Top.stack[2].val = 0 THEN "iret" ELSE "swap_back"
           g == [Top EXCEPT !.pc = l]
<1>1. IsFrame(Top) /\ Top.pc = "test_back" /\ Set(g) /\ nmi_off' \in BOOLEAN
  BY TopOK DEF TestBack, Goto, At
<1>2. Replaces(Top, g, l, Top.stack)
  BY <1>1, ExceptFields, Zenon
<1>3. HandlerOK(Top, State)
  BY <1>1, InHandler DEF HandlerLabels, Paranoid
<1>4. State' = State
  BY DEF TestBack, State
<1>5. IsState(State')
  BY <1>4, TopOK
<1>6. Top.kind \notin Paranoid /\ IretFrame(Top, 0)
  BY <1>1, <1>3 DEF HandlerOK, HandlerLabels
<1>7. (l = "swap_back" => User(Top.old)) /\ (l = "iret" => Kernel(Top.old))
  BY <1>6 DEF IretFrame
<1>8. l \in {"iret", "swap_back"}
  BY Zenon
<1> HIDE DEF l, g
<1>9. HandlerOK(g, State')
  <2>1. /\ g.kind = Top.kind /\ g.ring = Top.ring /\ g.old = Top.old /\ g.pc = l
        /\ IretFrame(g, 0) /\ g.pc \in HandlerLabels(g.kind)
    BY <1>2, <1>6, <1>8, Zenon DEF Replaces, IretFrame, HandlerLabels
  <2>2. State'.gs = State.gs /\ State'.kgs = State.kgs /\ State'.regs = State.regs /\ State'.intr = State.intr
    BY <1>4
  <2>3. Swapped(Top) /\ Kernel(State)
    BY <1>1, <1>3, <1>6, Zenon DEF HandlerOK, Swapped
  <2>4. IF Swapped(g) THEN Kernel(State') ELSE State'.gs = g.old.gs /\ State'.kgs = g.old.kgs
    <3>1. CASE l = "swap_back"
      BY <1>6, <2>1, <2>2, <2>3, <3>1, Zenon DEF Swapped, Kernel
    <3>2. CASE l = "iret"
      BY <1>7, <2>1, <2>2, <2>3, <3>2, Zenon DEF Swapped, Kernel
    <3> QED BY <1>8, <3>1, <3>2, Zenon
  <2> QED BY <1>1, <1>3, <1>6, <1>7, <1>8, <2>1, <2>2, <2>4, Zenon DEF HandlerOK
<1> QED BY <1>1, <1>2, <1>5, <1>9, StepKeeps

\* swapgs on the way back to ring 3.
LEMMA SwapBackInv ==
  ASSUME EntryInv, SwapBack
  PROVE  EntryInv'
<1> DEFINE g == [Top EXCEPT !.pc = "iret"]
<1>1. IsFrame(Top) /\ Top.pc = "swap_back" /\ Set(g) /\ nmi_off' \in BOOLEAN
  BY TopOK DEF SwapBack, Goto, At
<1>2. Replaces(Top, g, "iret", Top.stack)
  BY <1>1, ExceptFields, Zenon
<1>3. HandlerOK(Top, State)
  BY <1>1, InHandler DEF HandlerLabels, Paranoid
<1>4. Top.kind \notin Paranoid
  BY <1>1, <1>3 DEF HandlerOK, HandlerLabels
<1>5. IsState(State')
  BY StateKept, RegsFun DEF SwapBack
<1>6. State'.gs = State.kgs /\ State'.kgs = State.gs /\ State'.regs = State.regs
      /\ State'.intr = State.intr
  BY StateFields, TopOK, ZenonT(60) DEF SwapBack, swapgs
<1> HIDE DEF g
<1>9. HandlerOK(g, State')
  BY <1>1, <1>2, <1>3, <1>4, <1>6
     DEF HandlerOK, Replaces, IretFrame, HandlerLabels, Swapped, Kernel, User
<1> QED BY <1>1, <1>2, <1>5, <1>9, StepKeeps

\* The code at the bottom is never left.
LEMMA NotBase ==
  ASSUME EntryInv, Top.pc # "run"
  PROVE  Depth >= 2
<1>1. FrameOK(Top, State) /\ Depth \in Nat \ {0} /\ Depth \in 1 .. Depth
  BY TopOK
<1>2. frames[Depth] = Top
  BY ZenonT(60) DEF Top, Depth
<1>3. Top.kind # "base"
  BY <1>1 DEF FrameOK, BaseOK, HandlerOK, SyscallOK, Kinds
<1>4. Depth # 1
  BY <1>1, <1>2, <1>3, Zenon DEF EntryInv
<1> QED BY <1>1, <1>4

\* Leaving the running frame: the one below has what the frame has restored, or is the
\* user program, which has its registers back as a system call leaves them.
LEMMA ReturnKeeps ==
  ASSUME EntryInv, Top.pc # "run", frames' = SubSeq(frames, 1, Depth - 1), nmi_off' \in BOOLEAN,
         \/ State' = Top.old
         \/ IsState(State') /\ User(State') /\ Top.kind = "syscall"
  PROVE  EntryInv'
<1>1. IsSeq(frames) /\ Depth \in Nat /\ Depth >= 2 /\ Depth \in 1 .. MaxDepth + 1
  BY NotBase, TopOK
<1>2. /\ IsSeq(frames') /\ Depth' = Depth - 1 /\ Top' = frames[Depth - 1]
      /\ \A i \in 1 .. Depth - 1 : frames'[i] = frames[i]
  BY <1>1, DropTop
<1>3. Depth' \in 1 .. MaxDepth + 1 /\ 1 \in 1 .. Depth - 1
  BY <1>1, <1>2
<1>4. frames[Depth] = Top
  BY DEF Top, Depth
<1>5. ASSUME NEW i \in 1 .. Depth - 1
      PROVE  FrameOK(frames'[i], Seen(i)')
  <2>1. FrameOK(frames[i], frames[i + 1].old) /\ frames'[i] = frames[i] /\ i # Depth
    BY <1>1, <1>2 DEF EntryInv, Seen
  <2>2. CASE i # Depth - 1
    <3>1. i + 1 \in 1 .. Depth - 1
      BY <1>1, <2>2
    <3>2. Seen(i)' = frames[i + 1].old
      BY <1>2, <2>2, <3>1 DEF Seen
    <3> QED BY <2>1, <3>2, Zenon
  <2>3. CASE i = Depth - 1
    <3>1. Seen(i)' = State' /\ frames[i + 1] = Top
      BY <1>1, <1>2, <1>4, <2>3 DEF Seen
    <3>2. CASE State' = Top.old
      BY <2>1, <3>1, <3>2, Zenon
    <3>3. CASE IsState(State') /\ User(State') /\ Top.kind = "syscall"
      <4>1. Depth = 2 /\ frames[1].ring = 3 /\ i = 1
        BY <1>1, <1>4, <2>3, <3>3 DEF EntryInv
      <4>2. frames[1].kind = "base"
        <5>1. 1 \in 1 .. Depth
          BY <4>1
        <5> QED BY <5>1, Zenon DEF EntryInv
      <4>3. BaseOK(frames[1], State')
        <5>1. frames[1].ring # 0
          BY <4>1
        <5> QED BY <2>1, <3>3, <4>1, <4>2, <5>1, Zenon DEF FrameOK, BaseOK, HandlerOK, SyscallOK
      <4> QED BY <2>1, <3>1, <3>3, <4>1, <4>3, Zenon DEF FrameOK
    <3> QED BY <3>2, <3>3, Zenon
  <2> QED BY <2>2, <2>3, Zenon
<1>6. ASSUME NEW i \in 1 .. Depth - 1
      PROVE  /\ (frames'[i].kind = "base") <=> (i = 1)
             /\ frames'[i].kind = "syscall" => i = 2 /\ frames'[1].ring = 3
  <2>1. i \in 1 .. Depth /\ frames'[i] = frames[i] /\ frames'[1] = frames[1]
    BY <1>1, <1>2, <1>3
  <2> QED BY <2>1 DEF EntryInv
<1> QED BY <1>2, <1>3, <1>5, <1>6 DEF EntryInv

\* IRETQ: the handler ends in the state that it interrupted.
LEMMA IretInv ==
  ASSUME EntryInv, Iret
  PROVE  EntryInv'
<1>1. Top.pc = "iret" /\ frames' = SubSeq(frames, 1, Depth - 1) /\ nmi_off' \in BOOLEAN
  BY Zenon DEF Iret, At
<1>2. HandlerOK(Top, State)
  BY <1>1, InHandler, Zenon DEF HandlerLabels, Paranoid
<1>3. Top.old.gs = gs /\ Top.old.kgs = kgs /\ Top.old.regs = regs
  BY <1>1, <1>2, TopOK DEF HandlerOK, Swapped
<1>4. State' = [gs |-> gs, kgs |-> kgs, intr |-> Top.old.intr, regs |-> regs]
  BY ZenonT(60) DEF Iret, State
<1>5. Top.old = [gs |-> Top.old.gs, kgs |-> Top.old.kgs, intr |-> Top.old.intr, regs |-> Top.old.regs]
  BY <1>2 DEF HandlerOK, IsState
<1>6. State' = Top.old
  BY <1>3, <1>4, <1>5, Zenon
<1> QED BY <1>1, <1>6, ReturnKeeps

\* Entering a frame: the one that was running is seen through the state it was left with.
LEMMA EnterSeen ==
  ASSUME EntryInv, Depth <= MaxDepth, NEW f, f.old = State, IsSeq(frames'), Depth' = Depth + 1,
         frames'[Depth + 1] = f, \A i \in 1 .. Depth : frames'[i] = frames[i],
         FrameOK(f, State'), f.kind # "base",
         f.kind = "syscall" => Depth = 1 /\ Top.ring = 3, nmi_off' \in BOOLEAN
  PROVE  EntryInv'
<1>1. IsSeq(frames) /\ Depth \in Nat \ {0} /\ Depth \in 1 .. MaxDepth + 1
  BY TopOK, Zenon
<1>3. Depth' \in 1 .. MaxDepth + 1 /\ 1 \in 1 .. Depth
  BY <1>1, SMTT(60)
<1>4. frames[Depth] = Top
  BY DEF Top, Depth
<1>5. ASSUME NEW i \in 1 .. Depth + 1
      PROVE  FrameOK(frames'[i], Seen(i)')
  <2>1. CASE i = Depth + 1
    BY <1>4, <2>1, Zenon DEF Seen
  <2>2. CASE i \in 1 .. Depth
    <3>1. FrameOK(frames[i], Seen(i)) /\ frames'[i] = frames[i] /\ i # Depth + 1
      BY <1>1, <2>2 DEF EntryInv
    <3>2. Seen(i)' = frames'[i + 1].old
      BY <3>1, Zenon DEF Seen
    <3>3. CASE i = Depth
      BY <1>4, <3>1, <3>2, <3>3, Zenon DEF Seen
    <3>4. CASE i # Depth
      <4>1. i + 1 \in 1 .. Depth
        BY <1>1, <2>2, <3>4
      <4> QED BY <3>1, <3>2, <3>4, <4>1, Zenon DEF Seen
    <3> QED BY <3>3, <3>4, Zenon
  <2> QED BY <1>1, <2>1, <2>2
<1>6. ASSUME NEW i \in 1 .. Depth + 1
      PROVE  /\ (frames'[i].kind = "base") <=> (i = 1)
             /\ frames'[i].kind = "syscall" => i = 2 /\ frames'[1].ring = 3
  <2>1. frames'[1] = frames[1]
    BY <1>3, Zenon
  <2>2. CASE i = Depth + 1
    BY <1>1, <1>4, <2>1, <2>2, SMTT(60)
  <2>3. CASE i \in 1 .. Depth
    BY <2>1, <2>3 DEF EntryInv
  <2> QED BY <1>1, <2>2, <2>3
<1> QED BY <1>3, <1>5, <1>6, Zenon DEF EntryInv

\* An entry puts a frame that fits on top of a frame that is not touched.
LEMMA EnterKeeps ==
  ASSUME EntryInv, Depth <= MaxDepth, NEW f, frames' = Append(frames, f), f.old = State,
         FrameOK(f, State'), f.kind # "base",
         f.kind = "syscall" => Depth = 1 /\ Top.ring = 3, nmi_off' \in BOOLEAN
  PROVE  EntryInv'
<1>1. IsSeq(frames) /\ Depth \in Nat \ {0}
  BY TopOK
<1>2. /\ IsSeq(frames') /\ Depth' = Depth + 1 /\ Top' = f
      /\ \A i \in 1 .. Depth : frames'[i] = frames[i]
  BY <1>1, AppendFrame, Zenon
<1>3. frames'[Depth + 1] = f
  BY <1>2, Zenon DEF Top, Depth
<1> QED BY <1>2, <1>3, EnterSeen, Zenon

\* The CPU pushes the IRET frame, with the error code where the vector has one.
LEMMA DeliverInv ==
  ASSUME EntryInv, NEW kind \in Kinds, NEW rip, NEW code, Deliver(kind, rip, code)
  PROVE  EntryInv'
<1> DEFINE iret == <<Word("rip", rip), Word("cs", Top.ring)>>
           st == IF kind \in HasErrorCode THEN <<Word("code", code)>> \o iret ELSE iret
           l == IF kind \in Paranoid THEN "push" ELSE "test"
           f == [kind |-> kind, ring |-> 0, pc |-> l, stack |-> st, old |-> State]
           n == ErrorWords(kind)
<1>1. Depth <= MaxDepth /\ Allowed(kind) /\ frames' = Append(frames, f)
  BY Zenon DEF Deliver
<1>2. intr' = FALSE /\ UNCHANGED <<gs, kgs, regs>> /\ nmi_off' \in BOOLEAN
  BY TopOK DEF Deliver
<1>3. FrameOK(Top, State) /\ IsState(State) /\ intr = State.intr
  BY TopOK
<1>4. IsState(State')
  BY <1>2, StateKept, RegsFun, Zenon
<1>5. /\ State'.intr = FALSE /\ State'.gs = State.gs /\ State'.kgs = State.kgs
      /\ State'.regs = State.regs
  BY <1>2, StateFields, TopOK
<1>6. IsSeq(st) /\ Len(st) = n + 2 /\ st[n + 1] = Word("rip", rip) /\ st[n + 2] = Word("cs", Top.ring)
  <2>1. IsSeq(iret) /\ Len(iret) = 2 /\ iret[1] = Word("rip", rip) /\ iret[2] = Word("cs", Top.ring)
    <3>1. iret \in Seq({Word("rip", rip), Word("cs", Top.ring)})
      OBVIOUS
    <3> QED BY <3>1, SeqIsSeq, Zenon
  <2> HIDE DEF iret
  <2>2. CASE kind \in HasErrorCode
    <3> DEFINE c == <<Word("code", code)>>
    <3>1. IsSeq(c) /\ Len(c) = 1
      BY One
    <3> HIDE DEF c
    <3>2. Joined(c \o iret, c, iret)
      BY <2>1, <3>1, Concat
    <3>3. st = c \o iret /\ n = 1
      BY <2>2 DEF c, ErrorWords
    <3> HIDE DEF st, n
    <3> QED BY <2>1, <3>1, <3>2, <3>3 DEF Joined
  <2>3. CASE kind \notin HasErrorCode
    BY <2>1, <2>3 DEF ErrorWords
  <2> QED BY <2>2, <2>3, Zenon
<1>7. kind \notin Paranoid => IF Top.ring = 0 THEN Kernel(State) ELSE User(State)
  <2>1. ASSUME kind \notin Paranoid
        PROVE  intr = TRUE \/ Top.pc = "run" \/ Top.pc = "inner"
    BY <1>1, <2>1 DEF Allowed, Kinds, Paranoid
  <2>2. CASE BaseOK(Top, State)
    BY <2>2 DEF BaseOK
  <2>3. CASE HandlerOK(Top, State)
    BY <1>3, <2>1, <2>3, Zenon DEF HandlerOK, Swapped, HandlerLabels
  <2>4. CASE SyscallOK(Top, State)
    BY <1>3, <2>1, <2>4, Zenon DEF SyscallOK
  <2> QED BY <1>3, <2>2, <2>3, <2>4 DEF FrameOK
<1>8. IsFrame(f) /\ f.kind = kind /\ f.ring = 0 /\ f.pc = l /\ f.stack = st /\ f.old = State
  BY DEF IsFrame
<1>9. kind # "base" /\ kind # "syscall"
  BY DEF Kinds
<1>10. l = IF kind \in Paranoid THEN "push" ELSE "test"
  BY Zenon
<1> HIDE DEF st, l, f
<1>11. IretFrame(f, n)
  <2>1. /\ Word("rip", rip).name = "rip"
        /\ Word("cs", Top.ring).name = "cs" /\ Word("cs", Top.ring).val = Top.ring
    BY DEF Word
  <2> QED BY <1>6, <1>7, <1>8, <2>1, Zenon DEF IretFrame
<1> HIDE DEF n
<1>12. HandlerOK(f, State')
  BY <1>3, <1>5, <1>8, <1>10, <1>11, Zenon DEF HandlerOK, HandlerLabels, Swapped, n
<1>13. FrameOK(f, State')
  BY <1>4, <1>8, <1>12, Zenon DEF FrameOK
<1> QED BY <1>1, <1>2, <1>8, <1>9, <1>13, EnterKeeps, Zenon

\* SYSCALL comes from ring 3 only, with nothing on the kernel stack.
LEMMA SyscallInv ==
  ASSUME EntryInv, NEW trap \in BOOLEAN, Syscall(trap)
  PROVE  EntryInv'
<1> DEFINE st == <<Word("rflags", trap)>>
           f == [kind |-> "syscall", ring |-> 0, pc |-> "sys_swap", stack |-> st, old |-> State]
<1>1. Depth = 1 /\ Top.ring = 3 /\ frames' = Append(frames, f)
  BY Zenon DEF Syscall
<1>2. /\ intr' = FALSE /\ UNCHANGED <<gs, kgs>> /\ nmi_off' \in BOOLEAN
      /\ regs' = [regs EXCEPT !["rcx"] = "rip", !["r11"] = "rflags"]
  BY TopOK DEF Syscall, Fmask
<1>3. FrameOK(Top, State) /\ IsState(State)
  BY TopOK
<1>4. IsState(State')
  BY <1>2, StateKept, RegsFun, Zenon
<1>5. /\ State'.intr = FALSE /\ State'.gs = State.gs /\ State'.kgs = State.kgs
      /\ \A x \in Registers \ {"rcx", "r11"} : State'.regs[x] = State.regs[x]
  <2>1. \A x \in Registers \ {"rcx", "r11"} : regs'[x] = regs[x]
    BY <1>2, RegsFun
  <2> QED BY <1>2, <2>1, StateFields, TopOK, Zenon
<1>6. IsSeq(st) /\ Len(st) = 1
  BY One, Zenon
<1>7. User(State)
  <2>1. Top.ring # 0
    BY <1>1
  <2> QED BY <1>1, <1>3, <2>1, Zenon DEF FrameOK, BaseOK, HandlerOK, SyscallOK
<1>8. /\ IsFrame(f) /\ f.kind = "syscall" /\ f.ring = 0 /\ f.pc = "sys_swap" /\ f.stack = st
      /\ f.old = State
  BY Zenon DEF IsFrame
<1> HIDE DEF st, f
<1>9. SyscallOK(f, State')
  BY <1>3, <1>5, <1>6, <1>7, <1>8, Zenon DEF SyscallOK, User
<1>10. FrameOK(f, State')
  BY <1>4, <1>8, <1>9 DEF FrameOK
<1>11. Depth <= MaxDepth
  BY <1>1
<1> QED BY <1>1, <1>2, <1>8, <1>10, <1>11, EnterKeeps, Zenon

\* swapgs of the SYSCALL entry.
LEMMA SysSwapInv ==
  ASSUME EntryInv, SysSwap
  PROVE  EntryInv'
<1> DEFINE g == [Top EXCEPT !.pc = "sys_push"]
<1>1. IsFrame(Top) /\ Top.pc = "sys_swap" /\ Set(g) /\ nmi_off' \in BOOLEAN
  BY TopOK DEF SysSwap, Goto, At
<1>2. Replaces(Top, g, "sys_push", Top.stack)
  BY <1>1, ExceptFields, Zenon
<1>3. SyscallOK(Top, State)
  BY <1>1, InSyscall
<1>4. IsState(State')
  BY StateKept, RegsFun DEF SysSwap
<1>5. State'.gs = State.kgs /\ State'.kgs = State.gs /\ State'.regs = State.regs
      /\ State'.intr = State.intr
  BY StateFields, TopOK, ZenonT(60) DEF SysSwap, swapgs
<1> HIDE DEF g
<1>6. SyscallOK(g, State')
  BY <1>1, <1>2, <1>3, <1>5 DEF SyscallOK, Replaces, Kernel, User
<1> QED BY <1>1, <1>2, <1>4, <1>6, StepKeeps

\* swapgs before SYSRETQ.
LEMMA SysSwapBackInv ==
  ASSUME EntryInv, SysSwapBack
  PROVE  EntryInv'
<1> DEFINE g == [Top EXCEPT !.pc = "sys_return"]
<1>1. IsFrame(Top) /\ Top.pc = "sys_swap_back" /\ Set(g) /\ nmi_off' \in BOOLEAN
  BY TopOK DEF SysSwapBack, Goto, At
<1>2. Replaces(Top, g, "sys_return", Top.stack)
  BY <1>1, ExceptFields, Zenon
<1>3. SyscallOK(Top, State)
  BY <1>1, InSyscall
<1>4. IsState(State')
  BY StateKept, RegsFun DEF SysSwapBack
<1>5. State'.gs = State.kgs /\ State'.kgs = State.gs /\ State'.regs = State.regs
      /\ State'.intr = State.intr
  BY StateFields, TopOK, ZenonT(60) DEF SysSwapBack, swapgs
<1> HIDE DEF g
<1>6. SyscallOK(g, State')
  BY <1>1, <1>2, <1>3, <1>5 DEF SyscallOK, Replaces, Kernel, User
<1> QED BY <1>1, <1>2, <1>4, <1>6, StepKeeps

\* SYSRETQ: the system call returns to the program that made it.
LEMMA SysReturnInv ==
  ASSUME EntryInv, SysReturn
  PROVE  EntryInv'
<1>1. /\ Top.pc = "sys_return" /\ frames' = SubSeq(frames, 1, Depth - 1) /\ nmi_off' \in BOOLEAN
      /\ intr' = Top.old.intr /\ UNCHANGED <<gs, kgs>>
  BY DEF SysReturn, At
<1>2. SyscallOK(Top, State)
  BY <1>1, InSyscall
<1>3. regs' = [x \in Registers |-> regs'[x]]
  BY RegsFun, Zenon DEF SysReturn
<1>4. intr' \in BOOLEAN
  BY <1>1, <1>2 DEF SyscallOK, IsState
<1>5. IsState(State')
  BY <1>1, <1>3, <1>4, StateKept
<1>6. User(State')
  <2>1. User(State)
    BY <1>1, <1>2, Zenon DEF SyscallOK
  <2> QED BY <1>1, <2>1, StateFields, TopOK, Zenon DEF User
<1>7. Top.kind = "syscall"
  BY <1>2, Zenon DEF SyscallOK
<1> QED BY <1>1, <1>5, <1>6, <1>7, ReturnKeeps, Zenon

\* The program changes its registers while no frame is on its stack.
LEMMA UserStepInv ==
  ASSUME EntryInv, UserStep
  PROVE  EntryInv'
<1>1. Depth = 1 /\ regs' = OwnRegs /\ UNCHANGED <<gs, kgs, intr, nmi_off, frames>>
  BY DEF UserStep
<1>2. IsSeq(frames) /\ nmi_off \in BOOLEAN /\ FrameOK(Top, State)
  BY TopOK
<1>3. frames[1] = Top /\ Depth' = Depth /\ frames' = frames
  BY <1>1, Zenon DEF Top, Depth
<1>4. Top.kind = "base"
  BY <1>1, <1>3 DEF EntryInv
<1>5. regs' = [x \in Registers |-> regs'[x]]
  BY <1>1 DEF OwnRegs
<1>6. IsState(State')
  BY <1>1, <1>5, StateKept, RegsFun, Zenon
<1>7. State'.gs = State.gs /\ State'.kgs = State.kgs
  BY <1>1, StateFields, TopOK, Zenon
<1>8. BaseOK(Top, State')
  BY <1>2, <1>4, <1>7, Zenon DEF FrameOK, BaseOK, HandlerOK, SyscallOK, Kinds, Kernel, User
<1>9. FrameOK(Top, State')
  BY <1>2, <1>6, <1>8, Zenon DEF FrameOK
<1>10. Seen(1)' = State'
  BY <1>1, <1>3 DEF Seen
<1>11. \A i \in 1 .. Depth : i = 1
  BY <1>1
<1>12. IsSeq(frames') /\ nmi_off' \in BOOLEAN /\ Depth' \in 1 .. MaxDepth + 1
  BY <1>1, <1>2, <1>3
<1> QED BY <1>3, <1>4, <1>9, <1>10, <1>11, <1>12, Zenon DEF EntryInv

\* The frame of a system call: the registers, rip, cs and the word that was there.
SysWords(st, rip, cs) ==
  /\ IsSeq(st) /\ Len(st) = 18 /\ st[16] = rip /\ st[17] = cs
  /\ \A k \in 1 .. 15 : st[k] = Word(Fields[k], regs[Fields[k]])

\* The pushes of the SYSCALL entry, the RCX and CS words and the saved RFLAGS.
LEMMA SysFrame ==
  ASSUME NEW rip, NEW cs, NEW w, IsSeq(w), Len(w) = 1
  PROVE  SysWords(AllPushed \o <<rip, cs>> \o w, rip, cs)
<1> DEFINE i == <<rip, cs>>
           p == AllPushed \o i
           st == p \o w
<1>1. IsSeq(i) /\ Len(i) = 2 /\ i[1] = rip /\ i[2] = cs
  <2>1. i \in Seq({rip, cs})
    OBVIOUS
  <2> QED BY <2>1, SeqIsSeq, Zenon
<1>2. /\ IsSeq(AllPushed) /\ Len(AllPushed) = 15
      /\ \A k \in 1 .. 15 : AllPushed[k] = Word(Fields[k], regs[Fields[k]])
  <2>1. Saved("stack") = AllPushed /\ Popped("stack") = Fields
    BY AllPops DEF Saved, Popped
  <2>2. Len(Fields) = 15
    BY DEF Fields
  <2>3. /\ IsSeq(Saved("stack")) /\ Len(Saved("stack")) = Len(Popped("stack"))
        /\ Words(Saved("stack"), Popped("stack"), regs)
    BY SavedWords, Zenon
  <2> QED BY <2>1, <2>2, <2>3, Zenon DEF Words
<1> HIDE DEF i
<1>3. Joined(p, AllPushed, i)
  BY <1>1, <1>2, Concat, Zenon
<1> HIDE DEF p
<1>4. /\ IsSeq(p) /\ Len(p) = 17 /\ p[16] = rip /\ p[17] = cs
      /\ \A k \in 1 .. 15 : p[k] = AllPushed[k]
  BY <1>1, <1>2, <1>3 DEF Joined
<1>5. Joined(st, p, w)
  BY <1>4, Concat, Zenon
<1> HIDE DEF st
<1>6. IsSeq(st) /\ Len(st) = 18 /\ \A k \in 1 .. 17 : st[k] = p[k]
  BY <1>4, <1>5, SMTT(60) DEF Joined
<1>7. st[16] = rip /\ st[17] = cs /\ \A k \in 1 .. 15 : st[k] = Word(Fields[k], regs[Fields[k]])
  BY <1>2, <1>4, <1>6
<1>8. SysWords(st, rip, cs)
  BY <1>6, <1>7, Zenon DEF SysWords
<1> QED BY <1>8 DEF st, p, i

\* The SYSCALL entry builds the InterruptStack of a software interrupt.
LEMMA SysPushInv ==
  ASSUME EntryInv, SysPush
  PROVE  EntryInv'
<1> DEFINE rip == Word("rip", regs["rcx"])
           cs == Word("cs", 3)
           st == AllPushed \o <<rip, cs>> \o Top.stack
           g == [Top EXCEPT !.stack = st, !.pc = "inner"]
<1>1. IsFrame(Top) /\ Top.pc = "sys_push" /\ nmi_off' \in BOOLEAN
  BY TopOK DEF SysPush, At
<1>2. Set(g)
  BY DEF SysPush
<1>3. Replaces(Top, g, "inner", st)
  BY <1>1, ExceptFields, Zenon
<1>4. SyscallOK(Top, State)
  BY <1>1, InSyscall
<1>5. State' = State
  BY Zenon DEF SysPush, State
<1>6. rip.name = "rip" /\ cs.name = "cs" /\ IsSeq(Top.stack) /\ Len(Top.stack) = 1
  BY <1>1, <1>4, Zenon DEF Word, SyscallOK
<1> HIDE DEF rip, cs
<1>s. SysWords(st, rip, cs)
  BY <1>6, SysFrame, Zenon
<1> HIDE DEF st, g
<1>7. /\ IsSeq(st) /\ Len(st) = 18 /\ st[16] = rip /\ st[17] = cs
      /\ \A k \in 1 .. 15 : st[k] = Word(Fields[k], regs[Fields[k]])
  BY <1>s, Zenon DEF SysWords
<1>8. ASSUME NEW k \in 1 .. 15
      PROVE  /\ st[k] = Word(Fields[k], st[k].val)
             /\ Fields[k] \in {"rcx", "r11"} \/ st[k].val = Top.old.regs[Fields[k]]
  <2>1. st[k].val = regs[Fields[k]]
    BY <1>7 DEF Word
  <2>2. Fields[k] \in Registers
    BY SMTT(30) DEF Registers, Range, Fields
  <2>3. Fields[k] \in {"rcx", "r11"} \/ regs[Fields[k]] = Top.old.regs[Fields[k]]
    BY <1>1, <1>4, <2>2, TopOK, Zenon DEF SyscallOK
  <2> QED BY <1>7, <2>1, <2>3, Zenon
<1>t. SysStruct(st, Top.old.regs, {"rcx", "r11"})
  BY <1>6, <1>7, <1>8, Zenon DEF SysStruct
<1>9. SyscallOK(g, State')
  BY <1>1, <1>3, <1>4, <1>5, <1>7, <1>t, Zenon DEF SyscallOK, Replaces
<1>10. IsState(State')
  BY <1>5, TopOK
<1> QED BY <1>1, <1>2, <1>3, <1>9, <1>10, StepKeeps, Zenon

\* Storing the result in the saved rax changes that word and no other.
LEMMA ResultStored ==
  ASSUME NEW s, IsSeq(s), Len(s) = 18
  PROVE  LET t == [s EXCEPT ![15] = [s[15] EXCEPT !.val = "result"]]
         IN  IsSeq(t) /\ Len(t) = 18 /\ \A k \in 1 .. 18 : k # 15 => t[k] = s[k]
<1> DEFINE e == [s[15] EXCEPT !.val = "result"]
           t == [s EXCEPT ![15] = e]
<1>1. 15 \in 1 .. Len(s)
  OBVIOUS
<1> HIDE DEF e
<1>2. Updated(t, s, 15, e)
  BY <1>1, ReplacedOne, Zenon
<1> HIDE DEF t
<1>3. IsSeq(t) /\ Len(t) = 18 /\ \A k \in 1 .. 18 : k # 15 => t[k] = s[k]
  BY <1>2 DEF Updated
<1> QED BY <1>3 DEF t, e

\* The system call writes its result over the saved RAX and nothing else.
LEMMA SysInnerInv ==
  ASSUME EntryInv, SysInner
  PROVE  EntryInv'
<1> DEFINE st == [Top.stack EXCEPT ![15] = [Top.stack[15] EXCEPT !.val = "result"]]
           g == [Top EXCEPT !.stack = st, !.pc = "enter_usermode"]
<1>0. Len(Fields) = 15 /\ Fields[15] = "rax"
  BY DEF Fields
<1>1. /\ IsFrame(Top) /\ Top.pc = "inner" /\ Top.kind = "syscall" /\ nmi_off' \in BOOLEAN
      /\ UNCHANGED <<gs, kgs, intr>>
      /\ regs' = [r \in Registers |-> IF r \in Clobbered THEN "junk" ELSE regs[r]]
  BY TopOK DEF SysInner, At
<1>2. Set(g)
  BY <1>0 DEF SysInner
<1>3. Replaces(Top, g, "enter_usermode", st)
  BY <1>1, ExceptFields, Zenon
<1>4. SyscallOK(Top, State)
  BY <1>1, InSyscall
<1>5. /\ IsSeq(Top.stack) /\ Len(Top.stack) = 18
      /\ Top.stack[16].name = "rip" /\ Top.stack[17].name = "cs"
      /\ \A k \in 1 .. 15 :
           /\ Top.stack[k] = Word(Fields[k], Top.stack[k].val)
           /\ Fields[k] \in {"rcx", "r11"} \/ Top.stack[k].val = Top.old.regs[Fields[k]]
  BY <1>1, <1>4, ZenonT(60) DEF SyscallOK, SysStruct
<1>6. IsSeq(st) /\ Len(st) = 18 /\ \A k \in 1 .. 18 : k # 15 => st[k] = Top.stack[k]
  BY <1>5, ResultStored
<1>7. st[15] = Word("rax", "result")
  <2>1. 15 \in DOMAIN Top.stack
    <3>1. DOMAIN Top.stack = 1 .. Len(Top.stack)
      BY <1>5, SeqIsSeq, Zenon DEF IsSeq
    <3> QED BY <1>5, <3>1
  <2>2. Top.stack[15] = Word("rax", Top.stack[15].val)
    BY <1>0, <1>5
  <2>3. \A v : [Word("rax", v) EXCEPT !.val = "result"] = Word("rax", "result")
    BY DEF Word
  <2>4. st[15] = [Top.stack[15] EXCEPT !.val = "result"]
    BY <2>1, Zenon
  <2> QED BY <2>2, <2>3, <2>4, ZenonT(60)
<1> HIDE DEF st, g
<1>8. ASSUME NEW k \in 1 .. 15
      PROVE  /\ st[k] = Word(Fields[k], st[k].val)
             /\ \/ Fields[k] \in {"rcx", "r11"} \/ Fields[k] = "rax"
                \/ st[k].val = Top.old.regs[Fields[k]]
  <2>1. CASE k = 15
    <3>0. Word("rax", "result").val = "result"
      BY DEF Word
    <3>1. st[15].val = "result"
      BY <1>7, <3>0, Zenon
    <3> QED BY <1>0, <1>7, <2>1, <3>1, Zenon
  <2>2. CASE k # 15
    <3>1. k \in 1 .. 18
      OBVIOUS
    <3> QED BY <1>5, <1>6, <2>2, <3>1, ZenonT(60)
  <2> QED BY <2>1, <2>2, Zenon
<1>9. State'.gs = State.gs /\ State'.kgs = State.kgs /\ State'.intr = State.intr
  BY <1>1, StateFields, TopOK
<1>10. st[16].name = "rip" /\ st[17].name = "cs"
  BY <1>5, <1>6, SMTT(30)
<1>t. SysStruct(st, Top.old.regs, {"rcx", "r11", "rax"})
  BY <1>6, <1>8, <1>10, Zenon DEF SysStruct
<1>11. SyscallOK(g, State')
  BY <1>1, <1>3, <1>4, <1>6, <1>9, <1>t, Zenon DEF SyscallOK, Replaces, Kernel
<1>12. regs' = [x \in Registers |-> regs'[x]]
  BY <1>1
<1>13. IsState(State')
  BY <1>1, <1>12, StateKept, RegsFun, Zenon
<1> QED BY <1>1, <1>2, <1>3, <1>11, <1>13, StepKeeps, Zenon

\* The pops of the SYSCALL exit, the result in RAX.
LEMMA EnterUsermodeInv ==
  ASSUME EntryInv, EnterUsermode
  PROVE  EntryInv'
<1> DEFINE names == Popped("syscall")
           st == SubSeq(Top.stack, Len(names) + 1, Len(Top.stack))
           g == [Top EXCEPT !.stack = st, !.pc = "sys_swap_back"]
<1>0. Len(Fields) = 15 /\ DOMAIN Fields = 1 .. 15 /\ names = Fields
  BY AllPops DEF Fields, Popped
<1>1. /\ IsFrame(Top) /\ Top.pc = "enter_usermode" /\ nmi_off' \in BOOLEAN
      /\ UNCHANGED <<gs, kgs, intr>> /\ regs' = Restored(Fields, Top.stack)
  BY <1>0, TopOK DEF EnterUsermode, At
<1>2. Set(g)
  BY DEF EnterUsermode
<1>3. Replaces(Top, g, "sys_swap_back", st)
  BY <1>1, ExceptFields, Zenon
<1>4. SyscallOK(Top, State)
  BY <1>1, InSyscall
<1>5. /\ IsSeq(Top.stack) /\ Len(Top.stack) = 18
      /\ \A k \in 1 .. 15 : \/ Fields[k] \in {"rcx", "r11", "rax"}
                            \/ Top.stack[k].val = Top.old.regs[Fields[k]]
  BY <1>1, <1>4, Zenon DEF SyscallOK, SysStruct
<1>6. IsSeq(st)
  <2>1. 16 \in Nat \ {0} /\ 18 \in Nat /\ 18 <= Len(Top.stack) /\ 16 <= 18 + 1
    BY <1>5
  <2>2. IsSeq(SubSeq(Top.stack, 16, 18))
    BY <1>5, <2>1, Part, Zenon
  <2>3. Len(names) + 1 = 16
    <3>1. Len(names) = 15
      BY <1>0, Zenon
    <3> HIDE DEF names
    <3> QED BY <3>1
  <2>4. st = SubSeq(Top.stack, 16, 18)
    BY <1>5, <2>3, Zenon
  <2> QED BY <2>2, <2>4, Zenon
<1>7. ASSUME NEW x \in Registers \ {"rax", "rcx", "r11"}
      PROVE  regs'[x] = Top.old.regs[x]
  <2> DEFINE k == CHOOSE j \in DOMAIN Fields : Fields[j] = x
  <2>1. x \in Range(Fields) /\ \E j \in DOMAIN Fields : Fields[j] = x
    BY DEF Registers, Range
  <2>2. k \in 1 .. 15 /\ Fields[k] = x
    BY <1>0, <2>1, Zenon
  <2>3. regs'[x] = Top.stack[k].val
    BY <1>1, <2>1, Zenon DEF Restored
  <2> HIDE DEF k
  <2> QED BY <1>5, <2>2, <2>3, Zenon
<1>8. regs' = [x \in Registers |-> regs'[x]]
  BY <1>1 DEF Restored
<1>9. IsState(State')
  BY <1>1, <1>8, StateKept, RegsFun
<1>10. /\ State'.gs = State.gs /\ State'.kgs = State.kgs /\ State'.intr = State.intr
       /\ State'.regs = regs'
  BY <1>1, StateFields, TopOK, Zenon
<1> HIDE DEF st, g
<1>11. SyscallOK(g, State')
  BY <1>1, <1>3, <1>4, <1>6, <1>7, <1>10, Zenon DEF SyscallOK, Replaces, Kernel
<1> QED BY <1>1, <1>2, <1>3, <1>9, <1>11, StepKeeps, Zenon

-------------------------------------------------------------------------------
\* A program or kernel code runs with nothing stacked, or a new context is about to
\* be entered through the frame made for it.
LEMMA InitInv ==
  ASSUME Init
  PROVE  EntryInv
<1>1. nmi_off \in BOOLEAN /\ regs = [x \in Registers |-> x]
  BY Zenon DEF Init, OwnRegs
<1>2. IsState(State) <=> (Kernel(State) \/ User(State)) /\ intr \in BOOLEAN
  BY <1>1, Zenon DEF IsState, State
<1>3. State.gs = gs /\ State.kgs = kgs /\ State.intr = intr
  BY Zenon DEF State
<1> DEFINE user == Base("run", 3)
           kernel == Base("run", 0)
<1>4. /\ IsFrame(user) /\ user.kind = "base" /\ user.pc = "run" /\ user.ring = 3
      /\ IsFrame(kernel) /\ kernel.kind = "base" /\ kernel.pc = "run" /\ kernel.ring = 0
  BY Zenon DEF Base, IsFrame
<1> HIDE DEF user, kernel
<1>5. ASSUME NEW f, frames = <<f>>, f.kind = "base", FrameOK(f, State)
      PROVE  EntryInv
  <2>1. IsSeq(frames) /\ Depth = 1 /\ frames[1] = f
    BY <1>5, One DEF Depth
  <2>2. Seen(1) = State /\ \A i \in 1 .. Depth : i = 1
    BY <2>1 DEF Seen
  <2>3. Depth \in 1 .. MaxDepth + 1
    BY <2>1
  <2> QED BY <1>1, <1>5, <2>1, <2>2, <2>3, Zenon DEF EntryInv
<1>6. CASE gs = "user" /\ kgs = "pcr" /\ intr = TRUE /\ frames = <<user>>
  <2>1. FrameOK(user, State)
    BY <1>2, <1>3, <1>4, <1>6 DEF FrameOK, BaseOK, User
  <2> QED BY <1>4, <1>5, <1>6, <2>1, Zenon
<1>7. CASE gs = "pcr" /\ kgs = "user" /\ intr = TRUE /\ frames = <<kernel>>
  <2>1. FrameOK(kernel, State)
    BY <1>2, <1>3, <1>4, <1>7, SMTT(30) DEF FrameOK, BaseOK, Kernel
  <2> QED BY <1>4, <1>5, <1>7, <2>1, Zenon
<1>8. CASE gs = "pcr" /\ kgs = "user" /\ intr = FALSE /\ frames = <<user, NewContext>>
  <2> DEFINE f == NewContext
             o == [gs |-> "user", kgs |-> "pcr", intr |-> TRUE, regs |-> [x \in Registers |-> "zero"]]
             w == [k \in 1 .. 15 |-> Word(Fields[k], "zero")]
             i == <<Word("rip", "zero"), Word("cs", 3), Word("rflags", FALSE)>>
  <2>1. Len(Fields) = 15
    BY Zenon DEF Fields
  <2>2. /\ IsFrame(f) /\ f.kind = "syscall" /\ f.ring = 0 /\ f.pc = "enter_usermode"
        /\ f.stack = w \o i /\ f.old = o
    BY <2>1, Zenon DEF NewContext, IsFrame
  <2>3. IsState(o) /\ User(o) /\ o.regs = [x \in Registers |-> "zero"]
    BY DEF IsState, User
  <2>4. /\ IsSeq(i) /\ Len(i) = 3 /\ i[1].name = "rip" /\ i[2].name = "cs"
    <3>1. i \in Seq({Word("rip", "zero"), Word("cs", 3), Word("rflags", FALSE)})
      OBVIOUS
    <3>2. IsSeq(i)
      BY <3>1, SeqIsSeq, Zenon
    <3> QED BY <3>2 DEF Word
  <2>5. IsSeq(w) /\ Len(w) = 15 /\ \A k \in 1 .. 15 : w[k] = Word(Fields[k], "zero")
    <3>1. w \in Seq({Word(Fields[k], "zero") : k \in 1 .. 15})
      OBVIOUS
    <3>2. IsSeq(w)
      BY <3>1, SeqIsSeq, Zenon
    <3> QED BY <3>2
  <2> HIDE DEF f, o, w, i
  <2>6. Joined(w \o i, w, i)
    BY <2>4, <2>5, Concat
  <2> DEFINE st == w \o i
  <2> HIDE DEF st
  <2>s. Joined(st, w, i)
    BY <2>6, Zenon DEF st
  <2>7. IsSeq(st) /\ Len(st) = 18 /\ st[16] = i[1] /\ st[17] = i[2]
        /\ \A k \in 1 .. 15 : st[k] = Word(Fields[k], "zero")
    BY <2>4, <2>5, <2>s DEF Joined
  <2>8. ASSUME NEW k \in 1 .. 15
        PROVE  st[k] = Word(Fields[k], st[k].val) /\ st[k].val = o.regs[Fields[k]]
    <3>0. Word(Fields[k], "zero").val = "zero"
      BY DEF Word
    <3>1. st[k].val = "zero" /\ Fields[k] \in Registers
      <4>1. Fields[k] \in Registers
        BY SMTT(60) DEF Registers, Range, Fields
      <4> QED BY <2>7, <3>0, <4>1, Zenon
    <3> QED BY <2>3, <2>7, <3>1, Zenon
  <2>9. SysStruct(st, o.regs, {"rcx", "r11", "rax"})
    BY <2>4, <2>7, <2>8 DEF SysStruct
  <2>10. f.stack = st /\ f.old = o
    BY <2>2, Zenon DEF st
  <2>11. SyscallOK(f, State)
    BY <1>3, <1>8, <2>2, <2>3, <2>7, <2>9, <2>10, Zenon DEF SyscallOK, Kernel
  <2>12. IsState(State)
    BY <1>2, <1>3, <1>8, Zenon DEF Kernel
  <2>13. FrameOK(f, State)
    BY <2>2, <2>11, <2>12, Zenon DEF FrameOK
  <2>14. FrameOK(user, o)
    BY <1>4, <2>3 DEF FrameOK, BaseOK
  <2>15. IsSeq(frames) /\ Depth = 2 /\ frames[1] = user /\ frames[2] = f
    <3>1. frames = <<user, f>>
      BY <1>8 DEF f
    <3>2. frames \in Seq({user, f}) /\ Len(frames) = 2 /\ frames[1] = user /\ frames[2] = f
      BY <3>1
    <3> QED BY <3>2, SeqIsSeq DEF Depth
  <2>16. Seen(2) = State /\ Seen(1) = f.old /\ \A k \in 1 .. Depth : k \in {1, 2}
    BY <2>15 DEF Seen
  <2>17. Depth \in 1 .. MaxDepth + 1
    BY <2>15
  <2> QED BY <1>1, <1>4, <2>2, <2>10, <2>13, <2>14, <2>15, <2>16, <2>17, Zenon DEF EntryInv
<1> QED BY <1>6, <1>7, <1>8, Zenon DEF Init, user, kernel

\* Every step keeps the invariant.
LEMMA NextInv ==
  ASSUME EntryInv, [Next]_vars
  PROVE  EntryInv'
<1>1. ASSUME UNCHANGED vars
      PROVE  EntryInv'
  <2>1. frames' = frames /\ nmi_off' = nmi_off /\ State' = State
    BY <1>1 DEF vars, State
  <2>2. Depth' = Depth /\ \A i : Seen(i)' = Seen(i)
    BY <2>1, Zenon DEF Depth, Seen
  <2> QED BY <2>1, <2>2, Zenon DEF EntryInv
<1>2. ASSUME Handler
      PROVE  EntryInv'
  BY <1>2, DeliverInv, TestInv, SwapInv, PushInv, CompareInv, SwapParanoidInv, InnerInv,
     BackParanoidInv, PopInv, TestBackInv, SwapBackInv, IretInv, Zenon DEF Handler
<1>3. ASSUME SystemCall
      PROVE  EntryInv'
  BY <1>3, SyscallInv, SysSwapInv, SysPushInv, SysInnerInv, EnterUsermodeInv,
     SysSwapBackInv, SysReturnInv, Zenon DEF SystemCall
<1> QED BY <1>1, <1>2, <1>3, UserStepInv, Zenon DEF Next

\* The inductive invariant holds of every behaviour.
LEMMA EntryInvariant == Spec => []EntryInv
<1>1. Init => EntryInv
  BY InitInv
<1>2. EntryInv /\ [Next]_vars => EntryInv'
  BY NextInv
<1> QED BY <1>1, <1>2, PTL DEF Spec

\* However deep the handlers are nested, Rust code runs with the kernel's base and user code
\* with its own (interrupt_macro.rs:92-115, syscall.rs:174-231).
THEOREM GsAlwaysRight == Spec => []GsRight
<1>1. EntryInv => GsRight
  <2> SUFFICES ASSUME EntryInv PROVE GsRight
    OBVIOUS
  <2>1. FrameOK(Top, State) /\ gs = State.gs /\ kgs = State.kgs
    BY TopOK
  <2>2. Top.ring = 3 => User(State)
    <3>1. HandlerOK(Top, State) \/ SyscallOK(Top, State) => Top.ring = 0
      BY Zenon DEF HandlerOK, SyscallOK
    <3> QED BY <2>1, <3>1 DEF FrameOK, BaseOK
  <2>3. Top.pc = "inner" => Kernel(State)
    BY <2>1, Zenon DEF FrameOK, BaseOK, HandlerOK, SyscallOK, Swapped
  <2> QED BY <2>1, <2>2, <2>3 DEF GsRight, At, Kernel, User
<1> QED BY <1>1, EntryInvariant, PTL

\* What a handler interrupted goes on with both bases and all registers as they were, and a
\* system call keeps all but rax, rcx and r11 (interrupt_macro.rs:203-208, syscall.rs:191-224).
THEOREM EntriesTransparent == Spec => []Transparent
<1>1. EntryInv => Transparent
  <2> SUFFICES ASSUME EntryInv PROVE Transparent
    OBVIOUS
  <2>1. gs = State.gs /\ kgs = State.kgs /\ regs = State.regs
    BY TopOK, Zenon
  <2>2. Top.pc = "iret" => gs = Top.old.gs /\ kgs = Top.old.kgs /\ regs = Top.old.regs
    BY <2>1, InHandler, Zenon DEF HandlerLabels, HandlerOK, Swapped
  <2>3. Top.pc = "sys_return" =>
          /\ gs = Top.old.gs /\ kgs = Top.old.kgs
          /\ \A x \in Registers \ {"rax", "rcx", "r11"} : regs[x] = Top.old.regs[x]
    BY <2>1, InSyscall, Zenon DEF SyscallOK, User
  <2> QED BY <2>2, <2>3 DEF Transparent, At
<1> QED BY <1>1, EntryInvariant, PTL

\* The words on the stack of a handler or a system call are the fields of the InterruptStack
\* its function is given, with the values of the interrupted code (syscall.rs:22-26).
THEOREM FramesAsStruct == Spec => []FrameAsStruct
<1>0. DOMAIN Fields = 1 .. 15 /\ Len(Fields) = 15
  BY SMTT(30) DEF Fields
<1>p. 15 + 1 = 16 /\ 15 + 2 = 17
  OBVIOUS
<1>1. EntryInv => FrameAsStruct
  <2> SUFFICES ASSUME EntryInv, Top.pc = "inner", Top.kind # "interrupt"
               PROVE  /\ \A k \in 1 .. 15 :
                           /\ Top.stack[k].name = Fields[k]
                           /\ \/ Top.kind = "syscall" /\ Fields[k] \in {"rcx", "r11"}
                              \/ Top.stack[k].val = Top.old.regs[Fields[k]]
                      /\ Top.stack[15 + 1].name = "rip" /\ Top.stack[15 + 2].name = "cs"
    BY <1>0 DEF FrameAsStruct, At
  <2>1. CASE Top.kind = "syscall"
    <3>1. SysStruct(Top.stack, Top.old.regs, {"rcx", "r11"})
      BY <2>1, InSyscall, Zenon DEF SyscallOK
    <3>2. Top.stack[15 + 1].name = "rip" /\ Top.stack[15 + 2].name = "cs"
      BY <1>p, <3>1, Zenon DEF SysStruct
    <3>3. ASSUME NEW k \in 1 .. 15
          PROVE  /\ Top.stack[k].name = Fields[k]
                 /\ Fields[k] \in {"rcx", "r11"} \/ Top.stack[k].val = Top.old.regs[Fields[k]]
      <4>1. Word(Fields[k], Top.stack[k].val).name = Fields[k]
        BY DEF Word
      <4> QED BY <3>1, <4>1, Zenon DEF SysStruct
    <3> QED BY <2>1, <3>2, <3>3, Zenon
  <2>2. CASE Top.kind # "syscall"
    <3>1. HandlerOK(Top, State)
      BY <2>2, InHandler DEF HandlerLabels
    <3>2. Popped(Top.kind) = Fields
      BY AllPops DEF Popped
    <3>3. IretFrame(Top, 15) /\ Words(Top.stack, Fields, Top.old.regs)
      BY <1>0, <3>1, <3>2, ZenonT(60) DEF HandlerOK
    <3>4. \A k \in 1 .. 15 : Top.stack[k] = Word(Fields[k], Top.old.regs[Fields[k]])
      BY <1>0, <3>3 DEF Words
    <3>5. Top.stack[15 + 1].name = "rip" /\ Top.stack[15 + 2].name = "cs"
      BY <3>3, Zenon DEF IretFrame
    <3>6. ASSUME NEW k \in 1 .. 15
          PROVE  Top.stack[k].name = Fields[k] /\ Top.stack[k].val = Top.old.regs[Fields[k]]
      <4> DEFINE w == Word(Fields[k], Top.old.regs[Fields[k]])
      <4>1. w.name = Fields[k] /\ w.val = Top.old.regs[Fields[k]]
        BY DEF Word
      <4> QED BY <3>4, <4>1, Zenon
    <3> QED BY <3>5, <3>6, Zenon
  <2> QED BY <2>1, <2>2, ZenonT(60)
<1> QED BY <1>1, EntryInvariant, PTL

===============================================================================
