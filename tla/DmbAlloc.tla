-------------------------------- MODULE DmbAlloc --------------------------------
(***************************************************************************)
(* The accounting of memory in src/core/dmballoc.c: g_used_memory, which   *)
(* all threads test and change with atomic additions, and the sizes that   *)
(* are written in front of the blocks.  A block is used by one caller at a *)
(* time.  Every access to g_used_memory and every call of the C library is *)
(* a step.                                                                 *)
(***************************************************************************)
EXTENDS Integers, FiniteSets, DmbDefines

CONSTANTS
  Thread,
  Block,          \* the blocks the C library has
  MaxSize,        \* no caller asks for more (a bound of the model)
  Word,           \* sizeof(long)
  MaxMemory       \* g_max_memory

ASSUME AllocAssumption ==
  /\ IsFiniteSet(Thread) /\ Thread # {} /\ IsFiniteSet(Block)
  /\ {MaxSize, Word} \subseteq Nat \ {0} /\ MaxMemory \in Nat
  /\ NULL \notin Block \cup Nat

VARIABLES
  used,           \* g_used_memory
  size,           \* the size in front of a block, NULL if it is not allocated
  op              \* what a thread is doing: with block b, once it has one, to
                  \* make its size n, which was old

allocVars == <<used, size, op>>

NoOp == [act |-> "none", b |-> NULL, n |-> 0, old |-> 0]

AllocInit ==
  /\ used = 0
  /\ size = [b \in Block |-> NULL]
  /\ op = [t \in Thread |-> NoOp]

-----------------------------------------------------------------------------

(* What UpdateAlignmentSize adds for a size.                               *)
Aligned(n) == IF n % Word = 0 THEN n ELSE n + Word - (n % Word)

Largest == Aligned(MaxSize)

Idle(t) == op[t] = NoOp
Doing(t, act) == op[t].act = act
Owned(b) == size[b] # NULL /\ \A t \in Thread : op[t].b # b

(* Fault: a block of the limit's size still fits.                          *)
CheckAtLimit(t, b, n) ==
  /\ Idle(t)
  /\ used <= MaxMemory
  /\ op' = [op EXCEPT ![t] = [act |-> "passed", b |-> b, n |-> n, old |-> 0]]
  /\ UNCHANGED <<used, size>>

(* The test of dmbMalloc and dmbRealloc, which looks at no size.  A caller *)
(* that is refused is where it was.                                        *)
CheckCurrentMemoryUsage(t, b, n) ==
  /\ Idle(t)
  /\ used < MaxMemory
  /\ op' = [op EXCEPT ![t] = [act |-> "passed", b |-> b, n |-> n, old |-> 0]]
  /\ UNCHANGED <<used, size>>

dmbMalloc(t) == \E n \in 0 .. MaxSize : CheckCurrentMemoryUsage(t, NULL, n)

dmbRealloc(t) ==
  \E b \in Block, n \in 0 .. MaxSize : Owned(b) /\ CheckCurrentMemoryUsage(t, b, n)

(* malloc returns a block, whose size is written.                          *)
Malloc(t, b) ==
  /\ Doing(t, "passed") /\ op[t].b = NULL /\ size[b] = NULL
  /\ size' = [size EXCEPT ![b] = op[t].n]
  /\ op' = [op EXCEPT ![t].act = "add", ![t].b = b]
  /\ UNCHANGED used

(* Fault: what is taken off is the new size, written over the old one.     *)
ReallocForgets(t) ==
  LET b == op[t].b
  IN  /\ Doing(t, "passed") /\ b # NULL
      /\ size' = [size EXCEPT ![b] = op[t].n]
      /\ op' = [op EXCEPT ![t].act = "subtract", ![t].old = op[t].n]
      /\ UNCHANGED used

(* realloc returns the block, where it was or elsewhere.                   *)
Realloc(t) ==
  LET b == op[t].b
  IN  /\ Doing(t, "passed") /\ b # NULL
      /\ size' = [size EXCEPT ![b] = op[t].n]
      /\ op' = [op EXCEPT ![t].act = "subtract", ![t].old = size[b]]
      /\ UNCHANGED used

(* Either may fail; a block that was to be resized is left as it is.       *)
OutOfMemory(t) ==
  /\ Doing(t, "passed")
  /\ op' = [op EXCEPT ![t] = NoOp]
  /\ UNCHANGED <<used, size>>

(* dmbRealloc takes off the old size first ...                             *)
Subtract(t) ==
  /\ Doing(t, "subtract")
  /\ used' = used - Aligned(op[t].old)
  /\ op' = [op EXCEPT ![t].act = "add"]
  /\ UNCHANGED size

(* ... and it and dmbMalloc end with the addition of the new one.          *)
Add(t) ==
  /\ Doing(t, "add")
  /\ used' = used + Aligned(op[t].n)
  /\ op' = [op EXCEPT ![t] = NoOp]
  /\ UNCHANGED size

dmbFree(t, b) ==
  /\ Idle(t) /\ Owned(b)
  /\ used' = used - Aligned(size[b])
  /\ op' = [op EXCEPT ![t] = [NoOp EXCEPT !.act = "free", !.b = b]]
  /\ UNCHANGED size

Free(t) ==
  /\ Doing(t, "free")
  /\ size' = [size EXCEPT ![op[t].b] = NULL]
  /\ op' = [op EXCEPT ![t] = NoOp]
  /\ UNCHANGED used

AllocStep(t) ==
  \/ dmbMalloc(t) \/ dmbRealloc(t)
  \/ \E b \in Block : Malloc(t, b) \/ dmbFree(t, b)
  \/ Realloc(t) \/ OutOfMemory(t) \/ Subtract(t) \/ Add(t) \/ Free(t)

AllocNext == \E t \in Thread : AllocStep(t)

AllocSpec == AllocInit /\ [][AllocNext]_allocVars

-----------------------------------------------------------------------------
(* dmbReallocAligned gets size + alignment bytes at base and hands out an  *)
(* address in them, in front of which it writes base.                      *)

Faked(base, alignment) ==
  LET faked == base + alignment
  IN  faked - (faked % alignment)

-----------------------------------------------------------------------------
(* Properties.                                                             *)

(* What a block contributes: nothing while a thread that does something to *)
(* it has yet to add its size, the old size before it is taken off.        *)
Acting(b) == {t \in Thread : op[t].b = b /\ op[t].act # "passed"}

Counted(b) ==
  IF size[b] = NULL THEN 0
  ELSE IF Acting(b) = {} THEN Aligned(size[b])
  ELSE LET t == CHOOSE u \in Acting(b) : TRUE
       IN  IF op[t].act = "subtract" THEN Aligned(op[t].old) ELSE 0

(* g_used_memory is the sum of the sizes of the blocks, but for those that *)
(* a thread is about to add or has just taken off: whatever the threads    *)
(* do in between, nothing is counted twice or for ever.  It is never below *)
(* zero, where the unsigned counter would wrap around and refuse           *)
(* everything.                                                             *)
UsedExact == used = Sets!MapThenSumSet(Counted, Block)

(* The test of the limit and the addition are separate steps, and the test *)
(* does not ask for how much: each thread may exceed the limit by one      *)
(* allocation, and no more, also when dmbRealloc takes the old size off in *)
(* between and lets others pass.                                           *)
Overshoot == used < MaxMemory + Cardinality(Thread) * Largest

================================================================================
