---------------------------- MODULE ContextIdsProofs ---------------------------
(***************************************************************************)
(* The id allocator never has the same id with two callers and never loses  *)
(* one, for any number of callers and whether or not they hold the          *)
(* storage's guard.                                                         *)
(***************************************************************************)
EXTENDS ContextIds, TLAPS

USE IdsAssumption

\* Init, list.rs:44-50.
LEMMA InitInv == Init => IdsCore
<1> SUFFICES ASSUME Init PROVE IdsCore
  OBVIOUS
<1>0. recycled = <<>> /\ recycled \in Seq(Nat) /\ Len(recycled) = 0 /\ 1 .. 0 = {}
  BY SMT DEF Init
<1>1. TypeOK
  <2>1. pc \in [Callers -> Labels]
    BY Zenon DEF Init, Labels
  <2>2. tmp \in [Callers -> Nat] /\ id \in [Callers -> Nat] /\ result \in [Callers -> Nat]
    BY SMT DEF Init
  <2>3. lock \in BOOLEAN /\ head \in Nat /\ borrowed \subseteq Callers /\ guard \subseteq Callers
    BY IdsAssumption, Zenon DEF Init
  <2> QED BY <1>0, <2>1, <2>2, <2>3, Zenon DEF TypeOK
<1>2. Exclusive /\ InTransit
  BY SMT DEF Init, Exclusive, InTransit, Inside
<1>3. \A k \in 1 .. Len(recycled) : FALSE
  BY <1>0, SMT
<1>4. Bounded /\ IdsUnique /\ QueueFree
  BY <1>3, SMT DEF Init, Bounded, IdsUnique, QueueFree
<1> QED
  BY <1>1, <1>2, <1>4 DEF IdsCore

\* What is about counter, queue and ids only survives the steps that leave those.
LEMMA KeepIds ==
  ASSUME Bounded, IdsUnique, QueueFree, UNCHANGED <<head, recycled, id>>
  PROVE  Bounded' /\ IdsUnique' /\ QueueFree'
<1>1. head' = head /\ recycled' = recycled /\ id' = id
  OBVIOUS
<1>2. Bounded'
  BY <1>1, Zenon DEF Bounded
<1>3. IdsUnique'
  BY <1>1, Zenon DEF IdsUnique
<1>4. QueueFree'
  BY <1>1, Zenon DEF QueueFree
<1> QED BY <1>2, <1>3, <1>4

\* Taking the lock lets in one caller, and no other is inside.
LEMMA AcquireInv ==
  ASSUME IdsCore, NEW c \in Callers, Acquire(c)
  PROVE  IdsCore'
<1>1. /\ pc[c] \in {"alloc", "dealloc"} /\ ~lock /\ lock' = TRUE
      /\ pc' = [pc EXCEPT ![c] = IF pc[c] = "alloc" THEN "alloc_locked" ELSE "dealloc_locked"]
      /\ UNCHANGED <<head, recycled, borrowed, guard, tmp, id, result>>
  <2>1. CASE pc[c] = "alloc"
    BY <2>1, SMT DEF Acquire, Goto, Locked
  <2>2. CASE pc[c] = "dealloc"
    BY <2>2, SMT DEF Acquire, Goto, Locked
  <2> QED BY <2>1, <2>2, Zenon DEF Acquire
<1>2. TypeOK'
  BY <1>1, SMT DEF IdsCore, TypeOK, Labels
<1>3. Exclusive'
  BY <1>1, SMT DEF IdsCore, TypeOK, Exclusive, Inside
<1>4. InTransit'
  BY <1>1, SMT DEF IdsCore, TypeOK, InTransit
<1> QED
  BY <1>1, <1>2, <1>3, <1>4, KeepIds DEF IdsCore

\* The other steps that leave counter, queue and ids alone.
LEMMA OtherInv ==
  ASSUME IdsCore, NEW c \in Callers,
         alloc(c) \/ dealloc(c) \/ Borrow(c) \/ Unlock(c) \/ Return(c)
  PROVE  IdsCore'
<1>0. TypeOK /\ Exclusive /\ InTransit
  BY DEF IdsCore
<1>1. CASE alloc(c)
  <2>1. /\ pc[c] = "idle" /\ pc' = [pc EXCEPT ![c] = "alloc"] /\ id[c] = 0
        /\ UNCHANGED <<lock, head, recycled, borrowed, tmp, id, result>>
        /\ guard' = guard \cup {c}
    BY <1>1, SMT DEF alloc, Enter, Goto
  <2>2. TypeOK'
    BY <1>0, <2>1, SMT DEF TypeOK, Labels
  <2>3. Exclusive'
    BY <1>0, <2>1, SMT DEF TypeOK, Exclusive, Inside
  <2>4. InTransit'
    BY <1>0, <2>1, SMT DEF TypeOK, InTransit
  <2> QED
    BY <2>1, <2>2, <2>3, <2>4, KeepIds DEF IdsCore
<1>2. CASE dealloc(c)
  <2>1. /\ pc[c] = "idle" /\ pc' = [pc EXCEPT ![c] = "dealloc"]
        /\ UNCHANGED <<lock, head, recycled, borrowed, tmp, id, result>>
        /\ guard' = guard \cup {c}
    BY <1>2, SMT DEF dealloc, Enter, Goto
  <2>2. TypeOK'
    BY <1>0, <2>1, SMT DEF TypeOK, Labels
  <2>3. Exclusive'
    BY <1>0, <2>1, SMT DEF TypeOK, Exclusive, Inside
  <2>4. InTransit'
    BY <1>0, <2>1, SMT DEF TypeOK, InTransit
  <2> QED
    BY <2>1, <2>2, <2>3, <2>4, KeepIds DEF IdsCore
<1>3. CASE Borrow(c)
  <2>1. PICK label \in {"pop", "find", "panic"} :
          /\ pc[c] \in {"alloc_locked", "dealloc_locked"}
          /\ pc' = [pc EXCEPT ![c] = label]
          /\ label = "pop" => pc[c] = "alloc_locked"
    <3>1. CASE borrowed = {}
      BY <1>3, <3>1, SMT DEF Borrow, Borrowed, Goto
    <3>2. CASE borrowed # {}
      BY <1>3, <3>2, SMT DEF Borrow, Goto
    <3> QED BY <3>1, <3>2
  <2>2. /\ UNCHANGED <<lock, head, recycled, guard, tmp, id, result>>
        /\ borrowed' = borrowed \/ borrowed' = {c}
    BY <1>3, SMT DEF Borrow
  <2>3. TypeOK'
    <3>1. pc' \in [Callers -> Labels]
      BY <1>0, <2>1, SMT DEF TypeOK, Labels
    <3>2. borrowed' \subseteq Callers
      BY <1>0, <2>2, Zenon DEF TypeOK
    <3> QED BY <1>0, <2>2, <3>1, <3>2, Zenon DEF TypeOK
  <2>4. Exclusive'
    BY <1>0, <2>1, <2>2, Zenon DEF TypeOK, Exclusive, Inside
  <2>5. InTransit'
    BY <1>0, <2>1, <2>2, SMT DEF TypeOK, InTransit
  <2> QED
    BY <2>2, <2>3, <2>4, <2>5, KeepIds DEF IdsCore
<1>4. CASE Unlock(c)
  <2>1. /\ pc[c] = "unlock" /\ pc' = [pc EXCEPT ![c] = "drop"] /\ lock' = FALSE
        /\ UNCHANGED <<head, recycled, borrowed, guard, tmp, id, result>>
    BY <1>4, SMT DEF Unlock, Goto
  <2>2. TypeOK'
    <3>1. pc' \in [Callers -> Labels]
      BY <1>0, <2>1, SMT DEF TypeOK, Labels
    <3> QED BY <1>0, <2>1, <3>1, Zenon DEF TypeOK
  <2>3. Exclusive'
    BY <1>0, <2>1, SMT DEF TypeOK, Exclusive, Inside
  <2>4. InTransit'
    BY <1>0, <2>1, SMT DEF TypeOK, InTransit
  <2> QED
    BY <2>1, <2>2, <2>3, <2>4, KeepIds DEF IdsCore
<1>5. CASE Return(c)
  <2>1. /\ pc[c] = "drop" /\ pc' = [pc EXCEPT ![c] = "idle"]
        /\ UNCHANGED <<lock, head, recycled, tmp, id, result>>
        /\ guard' = guard \ {c} /\ borrowed' = borrowed \ {c}
    BY <1>5, SMT DEF Return, Goto
  <2>2. TypeOK'
    BY <1>0, <2>1, SMT DEF TypeOK, Labels
  <2>3. Exclusive'
    BY <1>0, <2>1, SMT DEF TypeOK, Exclusive, Inside
  <2>4. InTransit'
    BY <1>0, <2>1, SMT DEF TypeOK, InTransit
  <2> QED
    BY <2>1, <2>2, <2>3, <2>4, KeepIds DEF IdsCore
<1> QED
  BY <1>1, <1>2, <1>3, <1>4, <1>5

\* Bump: the counter read is the counter, so the new id is above all others.
LEMMA BumpInv ==
  ASSUME IdsCore, NEW c \in Callers, Bump(c)
  PROVE  IdsCore'
<1>0. TypeOK /\ Exclusive /\ InTransit /\ Bounded /\ IdsUnique /\ QueueFree
  BY DEF IdsCore
<1>1. /\ pc[c] = "bump" /\ pc' = [pc EXCEPT ![c] = "unlock"]
      /\ id' = [id EXCEPT ![c] = tmp[c] + 1] /\ head' = tmp[c] + 1
      /\ UNCHANGED <<lock, recycled, borrowed, guard, tmp, result>>
  BY SMT DEF Bump, Goto
<1>2. tmp[c] = head /\ head \in Nat /\ FirstId \in Nat /\ head >= FirstId
  BY <1>0, <1>1, IdsAssumption, Zenon DEF InTransit, Bounded, TypeOK
<1>3. /\ head' = head + 1 /\ id' = [id EXCEPT ![c] = head + 1]
      /\ id \in [Callers -> Nat] /\ recycled \in Seq(Nat)
  BY <1>0, <1>1, <1>2, Zenon DEF TypeOK
<1>4. TypeOK'
  <2>1. pc' \in [Callers -> Labels]
    BY <1>0, <1>1, SMT DEF TypeOK, Labels
  <2>2. id' \in [Callers -> Nat] /\ head' \in Nat
    BY <1>2, <1>3, SMT
  <2> QED BY <1>0, <1>1, <2>1, <2>2, Zenon DEF TypeOK
<1>5. Exclusive'
  BY <1>0, <1>1, Zenon DEF TypeOK, Exclusive, Inside
<1>6. InTransit'
  <2>1. \A d \in Callers : pc'[d] # "bump"
    BY <1>0, <1>1, SMT DEF TypeOK, Exclusive, Inside
  <2>2. ASSUME NEW d \in Callers, pc'[d] \in {"alloc", "alloc_locked", "pop", "bump"}
        PROVE  id'[d] = 0
    <3>1. d # c
      BY <1>0, <1>1, <2>2, SMT DEF TypeOK
    <3>2. pc'[d] = pc[d] /\ id'[d] = id[d]
      BY <1>0, <1>1, <1>3, <3>1, SMT DEF TypeOK
    <3> QED BY <1>0, <2>2, <3>2, Zenon DEF InTransit
  <2> QED BY <2>1, <2>2, Zenon DEF InTransit
<1>7. Bounded'
  <2>1. ASSUME NEW d \in Callers, id'[d] # 0 PROVE FirstId < id'[d] /\ id'[d] <= head'
    <3>1. CASE d = c
      BY <1>2, <1>3, <3>1, SMT
    <3>2. CASE d # c
      <4>1. id'[d] = id[d] /\ id[d] \in Nat
        BY <1>3, <3>2, SMT
      <4>2. FirstId < id[d] /\ id[d] <= head
        BY <1>0, <2>1, <4>1, Zenon DEF Bounded
      <4> QED BY <1>2, <1>3, <4>1, <4>2, SMT
    <3> QED BY <3>1, <3>2
  <2>2. ASSUME NEW k \in 1 .. Len(recycled) PROVE FirstId < recycled[k] /\ recycled[k] <= head'
    <3>1. FirstId < recycled[k] /\ recycled[k] <= head
      BY <1>0, Zenon DEF Bounded
    <3>2. recycled[k] \in Nat
      BY <1>3, SMT
    <3> QED BY <1>2, <1>3, <3>1, <3>2, SMT
  <2>3. head' >= FirstId
    BY <1>2, <1>3, SMT
  <2> QED BY <1>1, <2>1, <2>2, <2>3, Zenon DEF Bounded
<1>8. \A d \in Callers : d # c => id'[d] = id[d] /\ id[d] # head + 1
  <2> SUFFICES ASSUME NEW d \in Callers, d # c PROVE id'[d] = id[d] /\ id[d] # head + 1
    OBVIOUS
  <2>1. id'[d] = id[d] /\ id[d] \in Nat
    BY <1>3, SMT
  <2>2. id[d] = 0 \/ id[d] <= head
    BY <1>0, Zenon DEF Bounded
  <2> QED BY <1>2, <2>1, <2>2, SMT
<1>9. id'[c] = head + 1 /\ head + 1 # 0
  BY <1>2, <1>3, SMT
<1>10. IdsUnique'
  <2>1. ASSUME NEW d \in Callers, NEW e \in Callers, d # e, id'[d] # 0 PROVE id'[d] # id'[e]
    <3>1. CASE d = c
      BY <1>8, <1>9, <2>1, <3>1, Zenon
    <3>2. CASE e = c
      BY <1>8, <1>9, <2>1, <3>2, Zenon
    <3>3. CASE d # c /\ e # c
      BY <1>0, <1>8, <2>1, <3>3, Zenon DEF IdsUnique
    <3> QED BY <3>1, <3>2, <3>3
  <2>2. ASSUME NEW d \in Callers, id'[d] # 0 PROVE id'[d] > FirstId
    <3>1. CASE d = c
      BY <1>2, <1>9, <3>1, SMT
    <3>2. CASE d # c
      BY <1>0, <1>8, <2>2, <3>2, Zenon DEF IdsUnique
    <3> QED BY <3>1, <3>2
  <2> QED BY <2>1, <2>2, Zenon DEF IdsUnique
<1>11. QueueFree'
  <2>1. ASSUME NEW k \in 1 .. Len(recycled), NEW d \in Callers PROVE recycled[k] # id'[d]
    <3>1. CASE d = c
      <4>1. recycled[k] <= head /\ recycled[k] \in Nat
        <5>1. recycled[k] <= head
          BY <1>0, Zenon DEF Bounded
        <5>2. recycled[k] \in Nat
          BY <1>3, SMT
        <5> QED BY <5>1, <5>2
      <4> QED BY <1>2, <1>9, <3>1, <4>1, SMT
    <3>2. CASE d # c
      BY <1>0, <1>8, <3>2, Zenon DEF QueueFree
    <3> QED BY <3>1, <3>2
  <2> QED BY <1>0, <1>1, <2>1, ZenonT(40) DEF QueueFree
<1> QED
  BY <1>4, <1>5, <1>6, <1>7, <1>10, <1>11, Zenon DEF IdsCore

\* Pop: the front of the queue, which nobody holds, or the counter is read.
LEMMA PopInv ==
  ASSUME IdsCore, NEW c \in Callers, Pop(c)
  PROVE  IdsCore'
<1>0. TypeOK /\ Exclusive /\ InTransit /\ Bounded /\ IdsUnique /\ QueueFree
  BY DEF IdsCore
<1>1. CASE recycled = <<>>
  <2>1. /\ pc[c] = "pop" /\ pc' = [pc EXCEPT ![c] = "bump"]
        /\ tmp' = [tmp EXCEPT ![c] = head]
        /\ UNCHANGED <<lock, head, recycled, borrowed, guard, id, result>>
    BY <1>1, Zenon DEF Pop, Goto
  <2>2. TypeOK'
    <3>1. pc' \in [Callers -> Labels]
      BY <1>0, <2>1, SMT DEF TypeOK, Labels
    <3>2. tmp' \in [Callers -> Nat]
      BY <1>0, <2>1, SMT DEF TypeOK
    <3> QED BY <1>0, <2>1, <3>1, <3>2, Zenon DEF TypeOK
  <2>3. Exclusive'
    BY <1>0, <2>1, Zenon DEF TypeOK, Exclusive, Inside
  <2>4. InTransit'
    <3>1. ASSUME NEW d \in Callers, pc'[d] = "bump" PROVE tmp'[d] = head
      <4>1. d = c
        BY <1>0, <2>1, <3>1, SMT DEF TypeOK, Exclusive, Inside
      <4> QED BY <1>0, <2>1, <4>1, SMT DEF TypeOK
    <3>2. ASSUME NEW d \in Callers, pc'[d] \in {"alloc", "alloc_locked", "pop", "bump"}
          PROVE  id[d] = 0
      <4>1. CASE d = c
        BY <1>0, <2>1, <4>1, Zenon DEF InTransit
      <4>2. CASE d # c
        <5>1. pc'[d] = pc[d]
          BY <1>0, <2>1, <4>2, SMT DEF TypeOK
        <5> QED BY <1>0, <3>2, <5>1, Zenon DEF InTransit
      <4> QED BY <4>1, <4>2
    <3> QED BY <2>1, <3>1, <3>2, Zenon DEF InTransit
  <2> QED
    BY <1>0, <2>1, <2>2, <2>3, <2>4, KeepIds DEF IdsCore
<1>2. CASE recycled # <<>>
  <2>1. /\ pc[c] = "pop" /\ pc' = [pc EXCEPT ![c] = "unlock"]
        /\ id' = [id EXCEPT ![c] = Head(recycled)]
        /\ recycled' = Tail(recycled)
        /\ UNCHANGED <<lock, head, borrowed, guard, tmp, result>>
    BY <1>2, Zenon DEF Pop, Goto
  <2>2. /\ id \in [Callers -> Nat] /\ recycled \in Seq(Nat)
    BY <1>0, Zenon DEF TypeOK
  <2>3. /\ 1 \in 1 .. Len(recycled) /\ Head(recycled) = recycled[1]
        /\ recycled[1] \in Nat /\ recycled' \in Seq(Nat)
    BY <1>2, <2>1, <2>2, SMT
  <2>4. Len(recycled') = Len(recycled) - 1
    BY <1>2, <2>1, <2>2, SMT
  <2>5. \A k \in 1 .. Len(recycled') :
          recycled'[k] = recycled[k + 1] /\ k + 1 \in 1 .. Len(recycled) /\ k + 1 # 1
    BY <1>2, <2>1, <2>2, SMT
  <2>6. id'[c] = recycled[1] /\ \A d \in Callers : d # c => id'[d] = id[d]
    BY <2>1, <2>2, <2>3, SMT
  <2>7. TypeOK'
    <3>1. pc' \in [Callers -> Labels]
      BY <1>0, <2>1, SMT DEF TypeOK, Labels
    <3>2. id' \in [Callers -> Nat]
      BY <2>1, <2>2, <2>3, SMT
    <3> QED BY <1>0, <2>1, <2>3, <3>1, <3>2, Zenon DEF TypeOK
  <2>8. Exclusive'
    BY <1>0, <2>1, Zenon DEF TypeOK, Exclusive, Inside
  <2>9. InTransit'
    <3>1. ASSUME NEW d \in Callers, pc'[d] \in {"alloc", "alloc_locked", "pop", "bump"}
          PROVE  d # c /\ pc'[d] = pc[d]
      BY <1>0, <2>1, <3>1, SMT DEF TypeOK
    <3>2. ASSUME NEW d \in Callers, pc'[d] = "bump" PROVE tmp'[d] = head'
      BY <1>0, <2>1, <3>1, <3>2, Zenon DEF InTransit
    <3>3. ASSUME NEW d \in Callers, pc'[d] \in {"alloc", "alloc_locked", "pop", "bump"}
          PROVE  id'[d] = 0
      BY <1>0, <2>6, <3>1, <3>3, Zenon DEF InTransit
    <3> QED BY <3>2, <3>3, Zenon DEF InTransit
  <2>10. FirstId < recycled[1] /\ recycled[1] <= head
    BY <1>0, <2>3, Zenon DEF Bounded
  <2>11. Bounded'
    <3>1. ASSUME NEW d \in Callers, id'[d] # 0 PROVE FirstId < id'[d] /\ id'[d] <= head
      BY <1>0, <2>6, <2>10, <3>1, Zenon DEF Bounded
    <3>2. ASSUME NEW k \in 1 .. Len(recycled')
          PROVE  FirstId < recycled'[k] /\ recycled'[k] <= head
      BY <1>0, <2>5, Zenon DEF Bounded
    <3>3. head' = head /\ head >= FirstId
      BY <1>0, <2>1, Zenon DEF Bounded
    <3> QED BY <3>1, <3>2, <3>3, Zenon DEF Bounded
  <2>12. \A d \in Callers : recycled[1] # id[d]
    BY <1>0, <2>3, Zenon DEF QueueFree
  <2>13. IdsUnique'
    <3>1. ASSUME NEW d \in Callers, NEW e \in Callers, d # e, id'[d] # 0 PROVE id'[d] # id'[e]
      <4>1. CASE d = c
        BY <2>6, <2>12, <3>1, <4>1, Zenon
      <4>2. CASE e = c
        BY <2>6, <2>12, <3>1, <4>2, Zenon
      <4>3. CASE d # c /\ e # c
        BY <1>0, <2>6, <3>1, <4>3, Zenon DEF IdsUnique
      <4> QED BY <4>1, <4>2, <4>3
    <3>2. ASSUME NEW d \in Callers, id'[d] # 0 PROVE id'[d] > FirstId
      <4>1. CASE d = c
        <5>1. recycled[1] > FirstId
          BY <2>3, <2>10, IdsAssumption, SMT
        <5> QED BY <2>6, <4>1, <5>1, Zenon
      <4>2. CASE d # c
        BY <1>0, <2>6, <3>2, <4>2, Zenon DEF IdsUnique
      <4> QED BY <4>1, <4>2
    <3> QED BY <3>1, <3>2, Zenon DEF IdsUnique
  <2>14. QueueFree'
    <3>1. ASSUME NEW k \in 1 .. Len(recycled'), NEW d \in Callers PROVE recycled'[k] # id'[d]
      <4>1. CASE d = c
        <5>1. k + 1 \in 1 .. Len(recycled) /\ k + 1 # 1 /\ recycled'[k] = recycled[k + 1]
          BY <2>5, Zenon
        <5>2. recycled[k + 1] # recycled[1]
          BY <1>0, <2>3, <5>1, Zenon DEF QueueFree
        <5> QED BY <2>6, <4>1, <5>1, <5>2, Zenon
      <4>2. CASE d # c
        <5>1. k + 1 \in 1 .. Len(recycled) /\ recycled'[k] = recycled[k + 1]
          BY <2>5, Zenon
        <5>2. recycled[k + 1] # id[d]
          BY <1>0, <5>1, Zenon DEF QueueFree
        <5> QED BY <2>6, <4>2, <5>1, <5>2, Zenon
      <4> QED BY <4>1, <4>2
    <3>2. ASSUME NEW j \in 1 .. Len(recycled'), NEW k \in 1 .. Len(recycled'), j # k
          PROVE  recycled'[j] # recycled'[k]
      <4>1. j + 1 # k + 1
        BY <3>2, SMT
      <4> QED BY <1>0, <2>5, <4>1, ZenonT(40) DEF QueueFree
    <3> QED BY <3>1, <3>2, Zenon DEF QueueFree
  <2> QED
    BY <2>7, <2>8, <2>9, <2>11, <2>13, <2>14, Zenon DEF IdsCore
<1> QED BY <1>1, <1>2

\* Find: an id somebody holds is never in the queue, so dealloc goes on to push it.
LEMMA FindInv ==
  ASSUME IdsCore, NEW c \in Callers, Find(c)
  PROVE  IdsCore'
<1>0. TypeOK /\ Exclusive /\ InTransit /\ Bounded /\ IdsUnique /\ QueueFree
  BY DEF IdsCore
<1>1. ~InQueue(id[c])
  BY <1>0, Zenon DEF QueueFree, InQueue
<1>2. /\ pc[c] = "find" /\ pc' = [pc EXCEPT ![c] = "push"]
      /\ result' = [result EXCEPT ![c] = id[c]]
      /\ UNCHANGED <<lock, head, recycled, borrowed, guard, tmp, id>>
  BY <1>1, Zenon DEF Find, Goto
<1>3. TypeOK'
  <2>1. pc' \in [Callers -> Labels]
    BY <1>0, <1>2, SMT DEF TypeOK, Labels
  <2>2. result' \in [Callers -> Nat]
    BY <1>0, <1>2, SMT DEF TypeOK
  <2> QED BY <1>0, <1>2, <2>1, <2>2, Zenon DEF TypeOK
<1>4. Exclusive'
  BY <1>0, <1>2, SMT DEF TypeOK, Exclusive, Inside
<1>5. InTransit'
  BY <1>0, <1>2, SMT DEF TypeOK, InTransit
<1> QED
  BY <1>0, <1>2, <1>3, <1>4, <1>5, KeepIds DEF IdsCore

\* Push: the id goes from its holder to the end of the queue.
LEMMA PushInv ==
  ASSUME IdsCore, NEW c \in Callers, Push(c), id[c] # 0
  PROVE  IdsCore'
<1>0. TypeOK /\ Exclusive /\ InTransit /\ Bounded /\ IdsUnique /\ QueueFree
  BY DEF IdsCore
<1>1. /\ pc[c] = "push" /\ pc' = [pc EXCEPT ![c] = "unlock"]
      /\ id' = [id EXCEPT ![c] = 0]
      /\ recycled' = Append(recycled, id[c])
      /\ UNCHANGED <<lock, head, borrowed, guard, tmp, result>>
  BY Zenon DEF Push, Goto
<1>2. id \in [Callers -> Nat] /\ recycled \in Seq(Nat)
  BY <1>0, Zenon DEF TypeOK
<1>3. id[c] \in Nat /\ Len(recycled) \in Nat
  BY <1>2, SMT
<1>4. /\ recycled' \in Seq(Nat) /\ Len(recycled') = Len(recycled) + 1
      /\ recycled'[Len(recycled) + 1] = id[c]
  BY <1>1, <1>2, <1>3, SMT
<1>5. \A k \in 1 .. Len(recycled') : k = Len(recycled) + 1 \/ k \in 1 .. Len(recycled)
  BY <1>3, <1>4, SMT
<1>6. \A k \in 1 .. Len(recycled) : recycled'[k] = recycled[k]
  BY <1>1, <1>2, <1>3, SMT
<1>7. id'[c] = 0 /\ \A d \in Callers : d # c => id'[d] = id[d]
  BY <1>1, <1>2, SMT
<1>8. TypeOK'
  <2>1. pc' \in [Callers -> Labels]
    BY <1>0, <1>1, SMT DEF TypeOK, Labels
  <2>2. id' \in [Callers -> Nat]
    BY <1>1, <1>2, SMT
  <2> QED BY <1>0, <1>1, <1>4, <2>1, <2>2, Zenon DEF TypeOK
<1>9. Exclusive'
  BY <1>0, <1>1, Zenon DEF TypeOK, Exclusive, Inside
<1>10. InTransit'
  <2>1. ASSUME NEW d \in Callers, pc'[d] \in {"alloc", "alloc_locked", "pop", "bump"}
        PROVE  d # c /\ pc'[d] = pc[d]
    BY <1>0, <1>1, <2>1, SMT DEF TypeOK
  <2>2. ASSUME NEW d \in Callers, pc'[d] = "bump" PROVE tmp'[d] = head'
    BY <1>0, <1>1, <2>1, <2>2, Zenon DEF InTransit
  <2>3. ASSUME NEW d \in Callers, pc'[d] \in {"alloc", "alloc_locked", "pop", "bump"}
        PROVE  id'[d] = 0
    BY <1>0, <1>7, <2>1, <2>3, Zenon DEF InTransit
  <2> QED BY <2>2, <2>3, Zenon DEF InTransit
<1>11. FirstId < id[c] /\ id[c] <= head /\ head >= FirstId /\ head' = head
  BY <1>0, <1>1, Zenon DEF Bounded
<1>12. Bounded'
  <2>1. ASSUME NEW d \in Callers, id'[d] # 0 PROVE FirstId < id'[d] /\ id'[d] <= head
    BY <1>0, <1>7, <2>1, Zenon DEF Bounded
  <2>2. ASSUME NEW k \in 1 .. Len(recycled')
        PROVE  FirstId < recycled'[k] /\ recycled'[k] <= head
    <3>1. CASE k = Len(recycled) + 1
      BY <1>4, <1>11, <3>1, Zenon
    <3>2. CASE k \in 1 .. Len(recycled)
      BY <1>0, <1>6, <3>2, Zenon DEF Bounded
    <3> QED BY <1>5, <3>1, <3>2
  <2> QED BY <1>11, <2>1, <2>2, Zenon DEF Bounded
<1>13. IdsUnique'
  <2>1. ASSUME NEW d \in Callers, NEW e \in Callers, d # e, id'[d] # 0 PROVE id'[d] # id'[e]
    BY <1>0, <1>7, <2>1, Zenon DEF IdsUnique
  <2>2. ASSUME NEW d \in Callers, id'[d] # 0 PROVE id'[d] > FirstId
    BY <1>0, <1>7, <2>2, Zenon DEF IdsUnique
  <2> QED BY <2>1, <2>2, Zenon DEF IdsUnique
<1>14. QueueFree'
  <2>1. ASSUME NEW k \in 1 .. Len(recycled'), NEW d \in Callers PROVE recycled'[k] # id'[d]
    <3>1. CASE d = c
      <4>1. recycled'[k] \in Nat /\ FirstId < recycled'[k]
        BY <1>4, <1>12, SMT DEF Bounded
      <4> QED BY <1>7, <3>1, <4>1, IdsAssumption, SMT
    <3>2. CASE d # c /\ k = Len(recycled) + 1
      BY <1>0, <1>4, <1>7, <3>2, Zenon DEF IdsUnique
    <3>3. CASE d # c /\ k \in 1 .. Len(recycled)
      <4>1. recycled'[k] = recycled[k] /\ id'[d] = id[d]
        BY <1>6, <1>7, <3>3, Zenon
      <4>2. recycled[k] # id[d]
        BY <1>0, <3>3, Zenon DEF QueueFree
      <4> QED BY <4>1, <4>2, Zenon
    <3> QED BY <1>5, <3>1, <3>2, <3>3
  <2>2. ASSUME NEW j \in 1 .. Len(recycled'), NEW k \in 1 .. Len(recycled'), j # k
        PROVE  recycled'[j] # recycled'[k]
    <3>1. CASE j \in 1 .. Len(recycled) /\ k \in 1 .. Len(recycled)
      BY <1>0, <1>6, <2>2, <3>1, Zenon DEF QueueFree
    <3>2. CASE j = Len(recycled) + 1 /\ k \in 1 .. Len(recycled)
      BY <1>0, <1>4, <1>6, <3>2, Zenon DEF QueueFree
    <3>3. CASE k = Len(recycled) + 1 /\ j \in 1 .. Len(recycled)
      BY <1>0, <1>4, <1>6, <3>3, Zenon DEF QueueFree
    <3>4. j = Len(recycled) + 1 \/ j \in 1 .. Len(recycled)
      BY <1>5
    <3>5. k = Len(recycled) + 1 \/ k \in 1 .. Len(recycled)
      BY <1>5
    <3> QED BY <2>2, <3>1, <3>2, <3>3, <3>4, <3>5, Zenon
  <2> QED BY <2>1, <2>2, Zenon DEF QueueFree
<1> QED
  BY <1>8, <1>9, <1>10, <1>12, <1>13, <1>14, Zenon DEF IdsCore

\* Only a caller with an id begins a dealloc, and it keeps the id until the push.
LEMMA GivesBackInv ==
  ASSUME TypeOK, GivesBack, NEW c \in Callers,
         alloc(c) \/ dealloc(c) \/ Step(c)
  PROVE  GivesBack'
<1>0. pc \in [Callers -> Labels] /\ id \in [Callers -> Nat]
  BY Zenon DEF TypeOK
<1>1. CASE alloc(c)
  <2>1. pc' = [pc EXCEPT ![c] = "alloc"] /\ id' = id
    BY <1>1, Zenon DEF alloc, Enter, Goto
  <2> QED BY <1>0, <2>1, SMT DEF GivesBack
<1>2. CASE dealloc(c)
  <2>1. pc' = [pc EXCEPT ![c] = "dealloc"] /\ id' = id /\ id[c] # 0
    BY <1>2, Zenon DEF dealloc, Enter, Goto
  <2> QED BY <1>0, <2>1, SMT DEF GivesBack
<1>3. CASE Acquire(c)
  <2>1. CASE pc[c] = "alloc"
    <3>1. pc' = [pc EXCEPT ![c] = "alloc_locked"] /\ id' = id
      BY <1>3, <2>1, SMT DEF Acquire, Goto, Locked
    <3> QED BY <1>0, <3>1, SMT DEF GivesBack
  <2>2. CASE pc[c] = "dealloc"
    <3>1. pc' = [pc EXCEPT ![c] = "dealloc_locked"] /\ id' = id
      BY <1>3, <2>2, SMT DEF Acquire, Goto, Locked
    <3> QED BY <1>0, <2>2, <3>1, SMT DEF GivesBack
  <2> QED BY <1>3, <2>1, <2>2, Zenon DEF Acquire
<1>4. CASE Borrow(c)
  <2>1. PICK label \in {"pop", "find", "panic"} :
          /\ pc' = [pc EXCEPT ![c] = label]
          /\ label = "find" => pc[c] = "dealloc_locked"
    <3>1. CASE borrowed = {}
      BY <1>4, <3>1, SMT DEF Borrow, Borrowed, Goto
    <3>2. CASE borrowed # {}
      BY <1>4, <3>2, SMT DEF Borrow, Goto
    <3> QED BY <3>1, <3>2
  <2>2. id' = id
    BY <1>4, Zenon DEF Borrow
  <2> QED BY <1>0, <2>1, <2>2, SMT DEF GivesBack
<1>5. ASSUME NEW n \in Nat, id' = [id EXCEPT ![c] = n], pc' = [pc EXCEPT ![c] = "unlock"]
      PROVE  GivesBack'
  BY <1>0, <1>5, SMT DEF GivesBack
<1>6. CASE Pop(c)
  <2>1. CASE recycled = <<>>
    <3>1. pc' = [pc EXCEPT ![c] = "bump"] /\ id' = id
      BY <1>6, <2>1, Zenon DEF Pop, Goto
    <3> QED BY <1>0, <3>1, SMT DEF GivesBack
  <2>2. CASE recycled # <<>>
    <3>1. Head(recycled) \in Nat
      BY <2>2, SMT DEF TypeOK
    <3> QED BY <1>5, <1>6, <2>2, <3>1, Zenon DEF Pop, Goto
  <2> QED BY <2>1, <2>2
<1>7. CASE Bump(c)
  <2>1. tmp[c] + 1 \in Nat
    BY SMT DEF TypeOK
  <2> QED BY <1>5, <1>7, <2>1, Zenon DEF Bump, Goto
<1>8. CASE Find(c)
  <2>1. CASE InQueue(id[c])
    <3>1. 0 \in Nat
      BY SMT
    <3> QED BY <1>5, <1>8, <2>1, <3>1, Zenon DEF Find, Goto
  <2>2. CASE ~InQueue(id[c])
    <3>1. pc[c] = "find" /\ pc' = [pc EXCEPT ![c] = "push"] /\ id' = id
      BY <1>8, <2>2, Zenon DEF Find, Goto
    <3> QED BY <1>0, <3>1, SMT DEF GivesBack
  <2> QED BY <2>1, <2>2
<1>9. CASE Push(c)
  <2>1. 0 \in Nat
    BY SMT
  <2> QED BY <1>5, <1>9, <2>1, Zenon DEF Push, Goto
<1>10. CASE Unlock(c)
  <2>1. pc' = [pc EXCEPT ![c] = "drop"] /\ id' = id
    BY <1>10, Zenon DEF Unlock, Goto
  <2> QED BY <1>0, <2>1, SMT DEF GivesBack
<1>11. CASE Return(c)
  <2>1. pc' = [pc EXCEPT ![c] = "idle"] /\ id' = id
    BY <1>11, Zenon DEF Return, Goto
  <2> QED BY <1>0, <2>1, SMT DEF GivesBack
<1> QED
  BY <1>1, <1>2, <1>3, <1>4, <1>6, <1>7, <1>8, <1>9, <1>10, <1>11, Zenon DEF Step

\* Every step keeps the invariant.
LEMMA NextInv ==
  ASSUME IdsInv, [Next]_vars
  PROVE  IdsInv'
<1>0. IdsCore /\ GivesBack /\ TypeOK
  BY Zenon DEF IdsInv, IdsCore
<1>1. CASE UNCHANGED vars
  <2>1. /\ lock' = lock /\ head' = head /\ recycled' = recycled /\ borrowed' = borrowed
        /\ guard' = guard /\ pc' = pc /\ tmp' = tmp /\ id' = id /\ result' = result
    BY <1>1, Zenon DEF vars
  <2>2. TypeOK'
    BY <1>0, <2>1, Zenon DEF TypeOK
  <2>3. Exclusive'
    BY <1>0, <2>1, Zenon DEF Exclusive, Inside, IdsCore
  <2>4. InTransit' /\ GivesBack'
    BY <1>0, <2>1, Zenon DEF InTransit, GivesBack, IdsCore
  <2> QED BY <1>0, <2>1, <2>2, <2>3, <2>4, KeepIds DEF IdsInv, IdsCore
<1>2. CASE Next
  <2>1. PICK c \in Callers : alloc(c) \/ dealloc(c) \/ Step(c)
    BY <1>2, Zenon DEF Next
  <2>2. GivesBack'
    BY <1>0, <2>1, GivesBackInv
  <2>3. CASE Push(c)
    <3>1. id[c] # 0
      BY <1>0, <2>3, Zenon DEF Push, GivesBack
    <3> QED BY <1>0, <2>2, <2>3, <3>1, PushInv DEF IdsInv
  <2>4. CASE ~Push(c)
    <3>1. IdsCore'
      BY <1>0, <2>1, <2>4, AcquireInv, OtherInv, PopInv, BumpInv, FindInv, Zenon DEF Step
    <3> QED BY <2>2, <3>1 DEF IdsInv
  <2> QED BY <2>3, <2>4
<1> QED BY <1>1, <1>2

\* list.rs:52-87, for every number of callers and of CPUs: no two contexts ever
\* hold the same id, none holds the id of a CPU's first context, and every id in
\* the queue is free, with the guard of CONTEXT_STORAGE and without it.
THEOREM UniqueIds == Spec => [](IdsUnique /\ QueueFree)
<1>1. Init => IdsInv
  <2>1. Init => GivesBack
    BY SMT DEF Init, GivesBack
  <2> QED BY <2>1, InitInv DEF IdsInv
<1>2. IdsInv /\ [Next]_vars => IdsInv'
  BY NextInv
<1>3. IdsInv => IdsUnique /\ QueueFree
  BY Zenon DEF IdsInv, IdsCore
<1> QED BY <1>1, <1>2, <1>3, PTL DEF Spec

\* Counter, queue and ids together lose no id in a step that leaves them.
LEMMA KeepKept ==
  ASSUME IdsKept, UNCHANGED <<head, recycled, id>>
  PROVE  IdsKept'
<1>1. head' = head /\ recycled' = recycled /\ id' = id
  OBVIOUS
<1> QED BY <1>1, Zenon DEF IdsKept, InQueue

\* Bump: the new id is with the caller, which held none before.
LEMMA BumpKept ==
  ASSUME IdsCore, IdsKept, NEW c \in Callers, Bump(c)
  PROVE  IdsKept'
<1>1. /\ tmp[c] = head /\ id[c] = 0 /\ id \in [Callers -> Nat] /\ head \in Nat
  BY Zenon DEF Bump, IdsCore, InTransit, TypeOK
<1>2. head' = head + 1 /\ id' = [id EXCEPT ![c] = head + 1] /\ recycled' = recycled
  BY <1>1, Zenon DEF Bump
<1>3. id'[c] = head + 1 /\ \A d \in Callers : d # c => id'[d] = id[d]
  BY <1>1, <1>2, SMT
<1>4. SUFFICES ASSUME NEW n \in FirstId + 1 .. head'
      PROVE  InQueue(n)' \/ \E d \in Callers : id'[d] = n
  BY Zenon DEF IdsKept
<1>5. n # 0 /\ (n = head + 1 \/ n \in FirstId + 1 .. head)
  BY <1>1, <1>2, <1>4, IdsAssumption, SMT
<1>6. CASE n = head + 1
  BY <1>3, <1>6, Zenon
<1>7. CASE n \in FirstId + 1 .. head /\ InQueue(n)
  BY <1>2, <1>7, Zenon DEF InQueue
<1>8. CASE n \in FirstId + 1 .. head /\ \E d \in Callers : id[d] = n
  BY <1>1, <1>3, <1>5, <1>8, Zenon
<1> QED BY <1>5, <1>6, <1>7, <1>8, Zenon DEF IdsKept

\* Pop: the front of the queue goes to the caller, the rest moves up.
LEMMA PopKept ==
  ASSUME IdsCore, IdsKept, NEW c \in Callers, Pop(c)
  PROVE  IdsKept'
<1>1. CASE recycled = <<>>
  BY <1>1, KeepKept, Zenon DEF Pop
<1>2. CASE recycled # <<>>
  <2>1. id[c] = 0 /\ id \in [Callers -> Nat] /\ recycled \in Seq(Nat)
    BY Zenon DEF Pop, IdsCore, InTransit, TypeOK
  <2>2. /\ id' = [id EXCEPT ![c] = Head(recycled)] /\ recycled' = Tail(recycled)
        /\ head' = head
    BY <1>2, Zenon DEF Pop
  <2>3. id'[c] = recycled[1] /\ \A d \in Callers : d # c => id'[d] = id[d]
    BY <1>2, <2>1, <2>2, SMT
  <2>4. ASSUME NEW k \in 1 .. Len(recycled), k # 1
        PROVE  k - 1 \in 1 .. Len(recycled') /\ recycled'[k - 1] = recycled[k]
    BY <1>2, <2>1, <2>2, <2>4, SMT
  <2>5. SUFFICES ASSUME NEW n \in FirstId + 1 .. head
        PROVE  InQueue(n)' \/ \E d \in Callers : id'[d] = n
    BY <2>2, Zenon DEF IdsKept
  <2>6. n # 0
    BY <2>5, IdsAssumption, SMT DEF IdsCore, TypeOK
  <2>7. CASE InQueue(n)
    <3>1. PICK k \in 1 .. Len(recycled) : recycled[k] = n
      BY <2>7, Zenon DEF InQueue
    <3>2. CASE k = 1
      BY <2>3, <3>1, <3>2, Zenon
    <3>3. CASE k # 1
      BY <2>4, <3>1, <3>3, Zenon DEF InQueue
    <3> QED BY <3>2, <3>3
  <2>8. CASE \E d \in Callers : id[d] = n
    BY <2>1, <2>3, <2>6, <2>8, Zenon
  <2> QED BY <2>7, <2>8, Zenon DEF IdsKept
<1> QED BY <1>1, <1>2

\* Push: the id is in the queue when its holder lets go of it.
LEMMA PushKept ==
  ASSUME IdsCore, IdsKept, NEW c \in Callers, Push(c)
  PROVE  IdsKept'
<1>1. id \in [Callers -> Nat] /\ recycled \in Seq(Nat)
  BY Zenon DEF IdsCore, TypeOK
<1>2. /\ id' = [id EXCEPT ![c] = 0] /\ recycled' = Append(recycled, id[c])
      /\ head' = head
  BY Zenon DEF Push
<1>3. \A d \in Callers : d # c => id'[d] = id[d]
  BY <1>1, <1>2, SMT
<1>4. /\ Len(recycled) + 1 \in 1 .. Len(recycled')
      /\ recycled'[Len(recycled) + 1] = id[c]
  BY <1>1, <1>2, SMT
<1>5. \A k \in 1 .. Len(recycled) : k \in 1 .. Len(recycled') /\ recycled'[k] = recycled[k]
  BY <1>1, <1>2, SMT
<1>6. SUFFICES ASSUME NEW n \in FirstId + 1 .. head
      PROVE  InQueue(n)' \/ \E d \in Callers : id'[d] = n
  BY <1>2, Zenon DEF IdsKept
<1>7. CASE InQueue(n)
  BY <1>5, <1>7, Zenon DEF InQueue
<1>8. CASE \E d \in Callers : id[d] = n
  <2>1. PICK d \in Callers : id[d] = n
    BY <1>8
  <2>2. CASE d = c
    BY <1>4, <2>1, <2>2, Zenon DEF InQueue
  <2>3. CASE d # c
    BY <1>3, <2>1, <2>3, Zenon
  <2> QED BY <2>2, <2>3
<1> QED BY <1>7, <1>8, Zenon DEF IdsKept

\* Every step keeps the ids together.  Find leaves them, since an id somebody holds is
\* not in the queue.
LEMMA KeptInv ==
  ASSUME IdsInv, IdsKept, [Next]_vars
  PROVE  IdsKept'
<1>0. IdsCore /\ QueueFree
  BY Zenon DEF IdsInv, IdsCore
<1>1. CASE UNCHANGED vars
  BY <1>1, KeepKept, Zenon DEF vars
<1>2. CASE Next
  <2>1. PICK c \in Callers : alloc(c) \/ dealloc(c) \/ Step(c)
    BY <1>2, Zenon DEF Next
  <2>2. CASE Find(c)
    <3>1. ~InQueue(id[c])
      BY <1>0, Zenon DEF QueueFree, InQueue
    <3> QED BY <2>2, <3>1, KeepKept, Zenon DEF Find
  <2>3. CASE alloc(c) \/ dealloc(c) \/ Acquire(c) \/ Borrow(c) \/ Unlock(c) \/ Return(c)
    <3>1. UNCHANGED <<head, recycled, id>>
      BY <2>3, Zenon DEF alloc, dealloc, Acquire, Borrow, Unlock, Return
    <3> QED BY <3>1, KeepKept
  <2> QED BY <1>0, <2>1, <2>2, <2>3, BumpKept, PopKept, PushKept, Zenon DEF Step
<1> QED BY <1>1, <1>2

\* list.rs:52-87, for every number of callers and of CPUs: every id handed out so far is
\* with a caller or in the queue, with the guard of CONTEXT_STORAGE and without it.
THEOREM NoIdLost == Spec => []IdsKept
<1>1. Init => IdsInv /\ IdsKept
  <2>1. Init => GivesBack /\ IdsKept
    BY IdsAssumption, SMT DEF Init, GivesBack, IdsKept
  <2> QED BY <2>1, InitInv DEF IdsInv
<1>2. IdsInv /\ IdsKept /\ [Next]_vars => IdsInv' /\ IdsKept'
  BY NextInv, KeptInv
<1> QED BY <1>1, <1>2, PTL DEF Spec

===============================================================================
