------------------------------ MODULE ContextIds -------------------------------
(***************************************************************************)
(* ContextIdAllocator, kernel/src/context/list.rs: the ids of contexts,     *)
(* from a counter and a queue of ids given back, behind a spin lock.  The   *)
(* queue is in a UPSafeCell (shared/src/uni_processor.rs), a RefCell that   *)
(* panics when it is borrowed twice.  alloc and dealloc keep the borrow     *)
(* until they return, one step after they have released the lock.           *)
(*                                                                          *)
(* A caller is whoever keeps an id: it holds at most one.  The kernel calls *)
(* alloc from new_context only, which needs the write guard of              *)
(* CONTEXT_STORAGE.  guarded says whether callers do so; without the guard  *)
(* the spin lock alone has to keep the ids apart.                           *)
(***************************************************************************)
EXTENDS Naturals, Sequences

CONSTANTS
  Callers,
  FirstId,    \* init_id_exclusive: the number of CPUs
  MaxId       \* bound of the counter in the model

ASSUME IdsAssumption == FirstId \in Nat /\ MaxId \in Nat

VARIABLES
  guarded,   \* whether every caller holds the guard of CONTEXT_STORAGE
  lock,      \* the spin lock
  head,      \* the counter
  recycled,  \* the queue of ids given back
  borrowed,  \* callers with a RefMut of recycled
  guard,     \* callers inside CONTEXT_STORAGE.write()
  pc, tmp,   \* of each caller: where it is, the value of head it read
  id,        \* of each caller: the id it holds or gives back, 0 for none
  result     \* of each caller: what its last dealloc returned

vars == <<guarded, lock, head, recycled, borrowed, guard, pc, tmp, id, result>>

Init ==
  /\ guarded \in BOOLEAN
  /\ lock = FALSE
  /\ head = FirstId
  /\ recycled = <<>>
  /\ borrowed = {} /\ guard = {}
  /\ pc = [c \in Callers |-> "idle"]
  /\ tmp = [c \in Callers |-> 0]
  /\ id = [c \in Callers |-> 0]
  /\ result = [c \in Callers |-> 0]

Goto(c, label) == pc' = [pc EXCEPT ![c] = label]
InQueue(n) == \E k \in 1 .. Len(recycled) : recycled[k] = n

-------------------------------------------------------------------------------
Enter(c, label) ==
  /\ pc[c] = "idle"
  /\ guarded => guard = {}
  /\ guard' = guard \cup {c}
  /\ Goto(c, label)

alloc(c) ==
  /\ id[c] = 0
  /\ head < MaxId
  /\ Enter(c, "alloc")
  /\ UNCHANGED <<lock, head, recycled, borrowed, tmp, id, result>>

\* A caller gives back the id it holds.
dealloc(c) ==
  /\ id[c] # 0
  /\ Enter(c, "dealloc")
  /\ UNCHANGED <<lock, head, recycled, borrowed, tmp, id, result>>

Locked == [alloc |-> "alloc_locked", dealloc |-> "dealloc_locked"]
Borrowed == [alloc_locked |-> "pop", dealloc_locked |-> "find"]

\* compare_exchange_weak succeeds; a failure leaves everything as it is.
Acquire(c) ==
  /\ pc[c] \in {"alloc", "dealloc"}
  /\ ~lock
  /\ lock' = TRUE
  /\ Goto(c, Locked[pc[c]])
  /\ UNCHANGED <<head, recycled, borrowed, guard, tmp, id, result>>

\* inner_exclusive_mut of the queue.
Borrow(c) ==
  /\ pc[c] \in {"alloc_locked", "dealloc_locked"}
  /\ IF borrowed = {}
       THEN borrowed' = {c} /\ Goto(c, Borrowed[pc[c]])
       ELSE Goto(c, "panic") /\ UNCHANGED borrowed
  /\ UNCHANGED <<lock, head, recycled, guard, tmp, id, result>>

\* Mutant: the id is read from the queue and left in it.
MutPop(c) ==
  /\ pc[c] = "pop"
  /\ IF recycled = <<>>
       THEN tmp' = [tmp EXCEPT ![c] = head] /\ Goto(c, "bump") /\ UNCHANGED id
       ELSE id' = [id EXCEPT ![c] = Head(recycled)] /\ Goto(c, "unlock") /\ UNCHANGED tmp
  /\ UNCHANGED <<lock, head, recycled, borrowed, guard, result>>

\* pop_front, or the counter is read.
Pop(c) ==
  /\ pc[c] = "pop"
  /\ IF recycled = <<>>
       THEN /\ tmp' = [tmp EXCEPT ![c] = head]
            /\ Goto(c, "bump")
            /\ UNCHANGED <<recycled, id>>
       ELSE /\ id' = [id EXCEPT ![c] = Head(recycled)]
            /\ recycled' = Tail(recycled)
            /\ Goto(c, "unlock")
            /\ UNCHANGED tmp
  /\ UNCHANGED <<lock, head, borrowed, guard, result>>

\* "*head = *head + 1; *head"
Bump(c) ==
  /\ pc[c] = "bump"
  /\ head' = tmp[c] + 1
  /\ id' = [id EXCEPT ![c] = tmp[c] + 1]
  /\ Goto(c, "unlock")
  /\ UNCHANGED <<lock, recycled, borrowed, guard, tmp, result>>

\* Mutant: the two arms of the match are exchanged.
MutFind(c) ==
  /\ pc[c] = "find"
  /\ IF ~InQueue(id[c])
       THEN /\ result' = [result EXCEPT ![c] = 0]
            /\ id' = [id EXCEPT ![c] = 0]
            /\ Goto(c, "unlock")
       ELSE /\ result' = [result EXCEPT ![c] = id[c]]
            /\ Goto(c, "push")
            /\ UNCHANGED id
  /\ UNCHANGED <<lock, head, recycled, borrowed, guard, tmp>>

\* Whether the id is in the queue already decides the result.
Find(c) ==
  /\ pc[c] = "find"
  /\ IF InQueue(id[c])
       THEN /\ result' = [result EXCEPT ![c] = 0]
            /\ id' = [id EXCEPT ![c] = 0]
            /\ Goto(c, "unlock")
       ELSE /\ result' = [result EXCEPT ![c] = id[c]]
            /\ Goto(c, "push")
            /\ UNCHANGED id
  /\ UNCHANGED <<lock, head, recycled, borrowed, guard, tmp>>

Push(c) ==
  /\ pc[c] = "push"
  /\ recycled' = Append(recycled, id[c])
  /\ id' = [id EXCEPT ![c] = 0]
  /\ Goto(c, "unlock")
  /\ UNCHANGED <<lock, head, borrowed, guard, tmp, result>>

\* Mutant: the lock is not released.
MutUnlock(c) ==
  /\ pc[c] = "unlock"
  /\ Goto(c, "drop")
  /\ UNCHANGED <<lock, head, recycled, borrowed, guard, tmp, id, result>>

Unlock(c) ==
  /\ pc[c] = "unlock"
  /\ lock' = FALSE
  /\ Goto(c, "drop")
  /\ UNCHANGED <<head, recycled, borrowed, guard, tmp, id, result>>

\* The function returns: the RefMut is dropped, then the caller's guard.
Return(c) ==
  /\ pc[c] = "drop"
  /\ borrowed' = borrowed \ {c}
  /\ guard' = guard \ {c}
  /\ Goto(c, "idle")
  /\ UNCHANGED <<lock, head, recycled, tmp, id, result>>

Step(c) ==
  Acquire(c) \/ Borrow(c) \/ Pop(c) \/ Bump(c) \/ Find(c) \/ Push(c) \/ Unlock(c) \/ Return(c)

Next ==
  /\ \E c \in Callers : alloc(c) \/ dealloc(c) \/ Step(c)
  /\ UNCHANGED guarded

Spec == Init /\ [][Next]_vars

\* A CPU goes on with what it has begun; the spin lock itself is not fair.
Fairness == \A c \in Callers :
  WF_vars(/\ Borrow(c) \/ Pop(c) \/ Bump(c) \/ Find(c) \/ Push(c) \/ Unlock(c) \/ Return(c)
          /\ UNCHANGED guarded)
FairSpec == Spec /\ Fairness

-------------------------------------------------------------------------------
Labels == {"idle", "alloc", "dealloc", "alloc_locked", "dealloc_locked", "pop", "bump",
           "find", "push", "unlock", "drop", "panic"}

TypeOK ==
  /\ lock \in BOOLEAN
  /\ head \in Nat
  /\ recycled \in Seq(Nat)
  /\ borrowed \subseteq Callers
  /\ guard \subseteq Callers
  /\ pc \in [Callers -> Labels]
  /\ tmp \in [Callers -> Nat]
  /\ id \in [Callers -> Nat]
  /\ result \in [Callers -> Nat]

\* No two callers hold the same id (list.rs:70-87), whatever the order in which
\* they allocate and give back; the ids up to the number of CPUs, which
\* init_context uses, are never handed out.
IdsUnique ==
  /\ \A c, d \in Callers : c # d /\ id[c] # 0 => id[c] # id[d]
  /\ \A c \in Callers : id[c] # 0 => id[c] > FirstId

\* An id in the queue is held by nobody and is in the queue once, so that the
\* next alloc may hand it out.
QueueFree ==
  /\ \A k \in 1 .. Len(recycled) : \A c \in Callers : recycled[k] # id[c]
  /\ \A j, k \in 1 .. Len(recycled) : j # k => recycled[j] # recycled[k]

\* No id is lost (list.rs:57-64, 75-83): whatever has been handed out is with a caller
\* or in the queue, also while a call is under way, so that the counter counts the
\* contexts that have lived at the same time and not all there ever were.
IdsKept ==
  \A n \in FirstId + 1 .. head : InQueue(n) \/ \E c \in Callers : id[c] = n

\* What makes them inductive: one caller at a time is between taking and
\* releasing the lock (or has panicked there), so that the counter it has read is
\* still the counter when it writes it.
Inside(c) ==
  pc[c] \in {"alloc_locked", "dealloc_locked", "pop", "bump", "find", "push", "unlock", "panic"}
Exclusive ==
  /\ \A c \in Callers : Inside(c) => lock
  /\ \A c, d \in Callers : Inside(c) /\ Inside(d) => c = d
Bounded ==
  /\ head >= FirstId
  /\ \A c \in Callers : id[c] # 0 => FirstId < id[c] /\ id[c] <= head
  /\ \A k \in 1 .. Len(recycled) : FirstId < recycled[k] /\ recycled[k] <= head
InTransit ==
  /\ \A c \in Callers : pc[c] = "bump" => tmp[c] = head
  /\ \A c \in Callers : pc[c] \in {"alloc", "alloc_locked", "pop", "bump"} => id[c] = 0
GivesBack ==
  \A c \in Callers : pc[c] \in {"dealloc", "dealloc_locked", "find", "push"} => id[c] # 0
IdsCore == TypeOK /\ Exclusive /\ Bounded /\ InTransit /\ IdsUnique /\ QueueFree
IdsInv == IdsCore /\ GivesBack

\* A lock taken is released (list.rs:66, 85), by callers that have the guard.
LockReleased == guarded /\ lock ~> ~lock
===============================================================================
