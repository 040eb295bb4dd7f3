---------------------------- MODULE DmbLibraryProofs ----------------------------
(***************************************************************************)
(* Proofs about the library's components: that g_used_memory is exact, and *)
(* its bound, for any number of threads and blocks and any sizes, and the  *)
(* address dmbReallocAligned hands out; the digits of a number; and that   *)
(* reading a settings file loses no memory, whatever is in it.             *)
(***************************************************************************)
EXTENDS DmbInduction, SequenceTheorems, DmbAlloc, DmbString, DmbProperty

-----------------------------------------------------------------------------
(* DmbAlloc: the memory.                                                   *)

(* The threads that have passed the test and may still add to              *)
(* g_used_memory: each as much as the largest block.                       *)
Busy == {t \in Thread : op[t].act \in {"passed", "subtract", "add"}}

(* How many largest blocks may be added before the bound is reached.       *)
Room == Cardinality(Thread) - Cardinality(Busy)

Types ==
  /\ used \in Int
  /\ size \in [Block -> 0 .. MaxSize \cup {NULL}]
  /\ op \in [Thread -> [act : {"none", "passed", "add", "subtract", "free"},
                        b : Block \cup {NULL}, n : 0 .. MaxSize, old : 0 .. MaxSize]]

(* A block a thread is busy with is allocated, and no other thread is.     *)
Held ==
  \A t \in Thread : op[t].b # NULL => /\ size[op[t].b] # NULL
                                      /\ \A u \in Thread \ {t} : op[u].b # op[t].b

(* That used is below the bound is not inductive: a thread that is about   *)
(* to add must have room below it.                                         *)
AllocInv == Types /\ Held /\ used < MaxMemory + Room * Largest

-----------------------------------------------------------------------------
(* Sizes.                                                                  *)

(* What is counted for a size is its next multiple of the word's, so a     *)
(* larger size counts no less.                                             *)
LEMMA AlignedGrows ==
  ASSUME NEW n \in Nat, NEW m \in Nat, n <= m
  PROVE  /\ Aligned(n) \in Nat /\ Aligned(m) \in Nat
         /\ n <= Aligned(n) /\ Aligned(n) <= Aligned(m)
<1>. Word \in Nat \ {0}
  BY AllocAssumption
<1>1. ASSUME NEW k \in Nat
      PROVE  /\ k % Word \in 0 .. Word - 1 /\ k \div Word \in Nat
             /\ k = (Word * (k \div Word)) + (k % Word)
  BY SMT
<1>2. \A k \in Nat : Aligned(k) \in Nat /\ k <= Aligned(k) /\ Aligned(k) < k + Word
  BY <1>1 DEF Aligned
<1>3. \A k \in Nat : \E q \in Nat : Aligned(k) = Word * q
  <2>. SUFFICES ASSUME NEW k \in Nat PROVE \E q \in Nat : Aligned(k) = Word * q
    OBVIOUS
  <2>1. PICK q \in Nat, r \in 0 .. Word - 1 : q = k \div Word /\ r = k % Word /\ k = (Word * q) + r
    BY <1>1
  <2>2. Word * (q + 1) = Word * q + Word
    BY SMT
  <2>3. Aligned(k) = IF r = 0 THEN Word * q ELSE Word * (q + 1)
    <3>1. Word * q \in Nat
      BY SMT
    <3>. QED  BY <2>1, <2>2, <3>1 DEF Aligned
  <2>. QED  BY <2>3, q + 1 \in Nat
<1>4. PICK p \in Nat, q \in Nat : Aligned(n) = Word * p /\ Aligned(m) = Word * q
  BY <1>3
<1>5. Word * p < Word * q + Word
  BY <1>2, <1>4
<1>6. p <= q
  <2>1. ASSUME p >= q + 1 PROVE FALSE
    <3>1. PICK d \in Nat : p = q + 1 + d
      BY <2>1
    <3>2. Word * p = Word * q + Word + Word * d
      BY <3>1
    <3>3. Word * d \in Nat /\ Word * q \in Nat
      BY SMT
    <3>. QED  BY <1>5, <3>2, <3>3
  <2>. QED  BY <2>1
<1>7. PICK d \in Nat : q = p + d
  BY <1>6
<1>8. Word * q = Word * p + Word * d /\ Word * d \in Nat
  BY <1>7
<1>. QED  BY <1>2, <1>4, <1>8

LEMMA AlignedBounded ==
  ASSUME NEW n \in 0 .. MaxSize
  PROVE  Aligned(n) \in 0 .. Largest /\ Largest \in Nat
BY AlignedGrows, AllocAssumption DEF Largest

LEMMA LargestPositive == Largest \in Nat \ {0} /\ 0 \in 0 .. Largest
<1>1. MaxSize \in Nat \ {0} /\ MaxSize <= MaxSize
  BY AllocAssumption
<1>2. Largest \in Nat /\ MaxSize <= Largest
  BY <1>1, AlignedGrows DEF Largest
<1>. QED  BY <1>1, <1>2

-----------------------------------------------------------------------------
(* How many threads may still add.                                         *)

LEMMA RoomType == Room \in Nat /\ IsFiniteSet(Busy) /\ Cardinality(Busy) \in Nat
<1>1. Busy \in SUBSET Thread
  BY DEF Busy
<1>. QED  BY <1>1, FS_Subset, FS_CardinalityType, AllocAssumption DEF Room

(* A thread that is done leaves one more its room.                         *)
LEMMA RoomAfter ==
  ASSUME NEW t \in Busy, Busy' = Busy \ {t}
  PROVE  Room' = Room + 1
<1>1. Cardinality(Busy') = Cardinality(Busy) - 1
  BY RoomType, FS_RemoveElement
<1>2. Cardinality(Thread) \in Nat
  BY FS_CardinalityType, AllocAssumption
<1>. QED  BY <1>1, <1>2, RoomType DEF Room

LEMMA RoomTimes ==
  ASSUME NEW k \in Nat, NEW m \in Nat
  PROVE  k * m \in Nat /\ (k + 1) * m = k * m + m
BY SMT

-----------------------------------------------------------------------------
(* AllocInv is inductive.                                                  *)

LEMMA AllocInvInit == AllocInit => AllocInv
<1>. SUFFICES ASSUME AllocInit PROVE AllocInv
  OBVIOUS
<1>1. Busy = {}
  BY DEF AllocInit, NoOp, Busy
<1>2. Cardinality(Thread) \in Nat \ {0}
  BY AllocAssumption, FS_EmptySet, FS_CardinalityType
<1>3. PICK k \in Nat : Room = k + 1
  <2>1. Room = Cardinality(Thread)
    BY <1>1, <1>2, FS_EmptySet DEF Room
  <2>2. Cardinality(Thread) - 1 \in Nat
    BY <1>2
  <2>. QED  BY <1>2, <2>1, <2>2
<1>4. 0 < MaxMemory + Room * Largest
  <2>1. k * Largest \in Nat /\ (k + 1) * Largest = k * Largest + Largest
    BY <1>3, LargestPositive, RoomTimes
  <2>. QED  BY <1>3, <2>1, LargestPositive, AllocAssumption
<1>5. Types /\ Held
  BY AllocAssumption DEF AllocInit, NoOp, Types, Held
<1>. QED  BY <1>4, <1>5 DEF AllocInit, AllocInv

(* What a thread does leaves the blocks in order.                          *)
LEMMA BlocksKept ==
  ASSUME Types, Held, NEW t \in Thread, AllocStep(t)
  PROVE  Types' /\ Held'
<1>a. MaxSize \in Nat /\ NULL \notin Block /\ NULL \notin 0 .. MaxSize /\ 0 \in 0 .. MaxSize
  BY AllocAssumption
<1>b. /\ op[t].b \in Block \cup {NULL} /\ op[t].n \in 0 .. MaxSize
      /\ op[t].old \in 0 .. MaxSize
  BY DEF Types
<1>1. ASSUME NEW b \in Block \cup {NULL}, NEW n \in 0 .. MaxSize,
             b = NULL \/ Owned(b), CheckCurrentMemoryUsage(t, b, n)
      PROVE  Types' /\ Held'
  <2>1. Types'
    BY <1>a, <1>1 DEF Types, CheckCurrentMemoryUsage
  <2>2. Held'
    BY <1>1 DEF Types, Held, Owned, CheckCurrentMemoryUsage
  <2>. QED  BY <2>1, <2>2
<1>2. CASE dmbMalloc(t)
  BY <1>1, <1>2 DEF dmbMalloc
<1>3. CASE dmbRealloc(t)
  BY <1>1, <1>3 DEF dmbRealloc
<1>4. ASSUME NEW b \in Block, Malloc(t, b) PROVE Types' /\ Held'
  <2>1. Types'
    BY <1>b, <1>4, ZenonT(60) DEF Types, Malloc
  <2>2. Held'
    BY <1>a, <1>b, <1>4 DEF Types, Held, Malloc
  <2>. QED  BY <2>1, <2>2
<1>5. ASSUME NEW b \in Block, dmbFree(t, b) PROVE Types' /\ Held'
  <2>1. size[b] \in 0 .. MaxSize
    BY <1>5 DEF Types, dmbFree, Owned
  <2>2. used' \in Int
    BY <1>5, <2>1, AlignedBounded DEF Types, dmbFree
  <2>3. Types'
    BY <1>a, <1>5, <2>2 DEF Types, dmbFree, NoOp
  <2>4. Held'
    BY <1>5 DEF Types, Held, dmbFree, Owned, NoOp
  <2>. QED  BY <2>3, <2>4
<1>6. CASE Realloc(t)
  <2>1. op[t].b \in Block /\ size[op[t].b] \in 0 .. MaxSize
    BY <1>b, <1>6 DEF Types, Held, Realloc
  <2>2. Types'
    BY <1>b, <1>6, <2>1, ZenonT(60) DEF Types, Realloc
  <2>3. Held'
    BY <1>a, <1>b, <1>6 DEF Types, Held, Realloc
  <2>. QED  BY <2>2, <2>3
<1>7. CASE OutOfMemory(t)
  BY <1>a, <1>7 DEF OutOfMemory, Types, Held, NoOp
<1>8. CASE Add(t)
  <2>1. used' \in Int
    BY <1>8, <1>b, AlignedBounded DEF Add, Types
  <2>. QED  BY <1>a, <1>8, <2>1 DEF Add, Types, Held, NoOp
<1>9. CASE Subtract(t)
  <2>1. used' \in Int
    BY <1>9, <1>b, AlignedBounded DEF Subtract, Types
  <2>2. Types'
    BY <1>9, <2>1 DEF Subtract, Types
  <2>3. Held'
    BY <1>9 DEF Subtract, Types, Held
  <2>. QED  BY <2>2, <2>3
<1>10. CASE Free(t)
  <2>1. Types'
    BY <1>a, <1>10 DEF Free, Types, NoOp
  <2>2. Held'
    BY <1>10 DEF Free, Types, Held, NoOp
  <2>. QED  BY <2>1, <2>2
<1>. QED  BY <1>2, <1>3, <1>4, <1>5, <1>6, <1>7, <1>8, <1>9, <1>10 DEF AllocStep

LEMMA AllocInvStep == AllocInv /\ [AllocNext]_allocVars => AllocInv'
<1>. SUFFICES ASSUME AllocInv, [AllocNext]_allocVars PROVE AllocInv'
  OBVIOUS
<1>. Types /\ Held /\ used \in Int /\ used < MaxMemory + Room * Largest
  BY DEF AllocInv, Types
<1>a. Largest \in Nat /\ MaxMemory \in Nat /\ 0 \in 0 .. Largest
  BY LargestPositive, AllocAssumption
<1>b. Room \in Nat /\ Room * Largest \in Nat
  BY <1>a, RoomType, RoomTimes
<1>1. CASE UNCHANGED allocVars
  BY <1>1 DEF AllocInv, allocVars, Room, Busy, Types, Held
<1>2. ASSUME NEW t \in Thread, AllocStep(t) PROVE AllocInv'
  <2>a. Types' /\ Held' /\ used' \in Int
    BY <1>2, BlocksKept DEF Types
  <2>b. op[t].n \in 0 .. MaxSize /\ op[t].old \in 0 .. MaxSize
    BY DEF Types
  <2>1. ASSUME NEW b, NEW n, CheckCurrentMemoryUsage(t, b, n) PROVE AllocInv'
    <3>1. Busy' \in SUBSET Thread
      BY DEF Busy
    <3>2. Room' \in Nat
      BY <3>1, FS_Subset, FS_CardinalityType, AllocAssumption DEF Room
    <3>3. Room' * Largest \in Nat
      BY <1>a, <3>2, RoomTimes
    <3>. QED  BY <1>a, <2>a, <2>1, <3>3 DEF AllocInv, CheckCurrentMemoryUsage
  <2>2. ASSUME Busy' = Busy, used' <= used PROVE AllocInv'
    <3>1. Room' = Room
      BY <2>2 DEF Room
    <3>. QED  BY <1>a, <1>b, <2>a, <2>2, <3>1 DEF AllocInv
  <2>3. ASSUME t \in Busy, Busy' = Busy \ {t}, NEW n \in 0 .. Largest, used' = used + n
        PROVE  AllocInv'
    <3>1. Room' * Largest = Room * Largest + Largest
      BY <1>a, <1>b, <2>3, RoomAfter, RoomTimes
    <3>. QED  BY <1>a, <1>b, <2>a, <2>3, <3>1 DEF AllocInv
  <2>4. CASE dmbMalloc(t) \/ dmbRealloc(t)
    BY <2>1, <2>4 DEF dmbMalloc, dmbRealloc
  <2>5. ASSUME NEW b \in Block, Malloc(t, b) PROVE AllocInv'
    <3>1. Busy' = Busy /\ used' = used
      BY <2>5 DEF Types, Malloc, Doing, Busy
    <3>. QED  BY <2>2, <3>1
  <2>6. ASSUME NEW b \in Block, dmbFree(t, b) PROVE AllocInv'
    <3>1. size[b] \in 0 .. MaxSize
      BY <2>6 DEF Types, dmbFree, Owned
    <3>2. Busy' = Busy
      BY <2>6 DEF Types, dmbFree, Idle, NoOp, Busy
    <3>3. used' <= used
      BY <2>6, <3>1, AlignedBounded DEF dmbFree
    <3>. QED  BY <2>2, <3>2, <3>3
  <2>7. CASE Realloc(t)
    <3>1. Busy' = Busy /\ used' = used
      BY <2>7 DEF Types, Realloc, Doing, Busy
    <3>. QED  BY <2>2, <3>1
  <2>8. CASE OutOfMemory(t)
    <3>1. t \in Busy /\ Busy' = Busy \ {t} /\ used' = used + 0
      BY <2>8 DEF Types, OutOfMemory, Doing, NoOp, Busy
    <3>. QED  BY <1>a, <2>3, <3>1
  <2>9. CASE Add(t)
    <3>1. t \in Busy /\ Busy' = Busy \ {t}
      BY <2>9 DEF Types, Add, Doing, NoOp, Busy
    <3>2. Aligned(op[t].n) \in 0 .. Largest
      BY <2>b, AlignedBounded
    <3>. QED  BY <2>3, <2>9, <3>1, <3>2 DEF Add
  <2>10. CASE Subtract(t)
    <3>1. Busy' = Busy
      BY <2>10 DEF Types, Subtract, Doing, Busy
    <3>2. used' <= used
      BY <2>b, <2>10, AlignedBounded DEF Subtract
    <3>. QED  BY <2>2, <3>1, <3>2
  <2>11. CASE Free(t)
    <3>1. Busy' = Busy /\ used' = used
      BY <2>11 DEF Types, Free, Doing, NoOp, Busy
    <3>. QED  BY <2>2, <3>1
  <2>. QED  BY <1>2, <2>4, <2>5, <2>6, <2>7, <2>8, <2>9, <2>10, <2>11 DEF AllocStep
<1>. QED  BY <1>1, <1>2 DEF AllocNext

(* g_used_memory exceeds the limit by less than one largest allocation of  *)
(* each thread, however test, subtraction and addition of dmbMalloc and    *)
(* dmbRealloc are interleaved.                                             *)
THEOREM OvershootBounded == AllocSpec => []Overshoot
<1>1. AllocInv => Overshoot
  <2>. SUFFICES ASSUME AllocInv PROVE Overshoot
    OBVIOUS
  <2>1. PICK k \in Nat : k = Cardinality(Busy)
    BY RoomType
  <2>2. Largest \in Nat /\ MaxMemory \in Nat
    BY AlignedBounded, AllocAssumption
  <2>3. Cardinality(Thread) = Room + k
    BY <2>1, RoomType, FS_CardinalityType, AllocAssumption DEF Room
  <2>4. (Room + k) * Largest = Room * Largest + k * Largest
    BY <2>2, RoomType
  <2>5. Room * Largest \in Nat /\ k * Largest \in Nat
    BY <2>2, RoomType, RoomTimes
  <2>. QED  BY <2>2, <2>3, <2>4, <2>5 DEF AllocInv, Types, Overshoot
<1>. QED  BY <1>1, AllocInvInit, AllocInvStep, PTL DEF AllocSpec

-----------------------------------------------------------------------------
(* That g_used_memory is exact.                                            *)

(* The sizes that are about to be added are those of the blocks, and only  *)
(* who has not begun has no block.                                         *)
Written ==
  \A t \in Thread :
    /\ op[t].act \in {"add", "subtract"} => op[t].b # NULL /\ size[op[t].b] = op[t].n
    /\ op[t].act = "free" => op[t].b # NULL
    /\ op[t].act = "none" => op[t].b = NULL

(* What all blocks contribute, and g_used_memory as their sum in any       *)
(* order.                                                                  *)
Counts == [b \in Block |-> Counted(b)]

Summed == \E h \in Sums(Counts, Block) : used = h[Block]

UsedInv == AllocInv /\ Written /\ Summed

(* UsedExact is the sum in the order of CHOOSE.                            *)
LEMMA SummedExact == Summed => UsedExact
<1>. SUFFICES ASSUME NEW h \in Sums(Counts, Block), used = h[Block] PROVE UsedExact
  BY DEF Summed
<1>. DEFINE Chosen(s) == CHOOSE x \in s : TRUE
            Folds(f) == f = [s \in SUBSET Block |->
                               IF s = {} THEN 0 ELSE Counted(Chosen(s)) + f[s \ {Chosen(s)}]]
            fold == CHOOSE f : Folds(f)
<1>1. \A s \in SUBSET Block : s # {} => Counts[Chosen(s)] = Counted(Chosen(s))
  BY DEF Counts
<1>2. Folds(h)
  <2>1. IsFold(h, Counts, Block)
    BY SumFolds
  <2>. QED  BY <1>1, <2>1 DEF IsFold
<1>3. Folds(fold)
  <2>. HIDE DEF Folds
  <2>. QED  BY <1>2
<1>4. IsFold(fold, Counts, Block)
  <2>. HIDE DEF fold
  <2>. QED  BY <1>1, <1>3 DEF IsFold
<1>5. fold[Block] = h[Block]
  <2>. HIDE DEF fold
  <2>. QED  BY <1>4, FoldSums, AllocAssumption
<1>. QED  BY <1>5 DEF UsedExact, Sets!MapThenSumSet, Sets!MapThenFoldSet

(* What a block contributes that a thread does something to.               *)
CountedBusy ==
  \A t \in Thread : op[t].b # NULL /\ op[t].act # "passed" =>
    Counted(op[t].b) = IF op[t].act = "subtract" THEN Aligned(op[t].old) ELSE 0

LEMMA CountedOf == Types /\ Held => CountedBusy
<1>. SUFFICES ASSUME Types, Held, NEW t \in Thread, op[t].b # NULL, op[t].act # "passed"
              PROVE  Counted(op[t].b) = IF op[t].act = "subtract" THEN Aligned(op[t].old) ELSE 0
  BY DEF CountedBusy
<1>1. Acting(op[t].b) = {t}
  BY DEF Acting, Held
<1>2. (CHOOSE u \in Acting(op[t].b) : TRUE) = t
  BY <1>1
<1>. QED  BY <1>1, <1>2 DEF Counted, Held

(* What a thread does matters only to the block it does it to.             *)
LEMMA CountedOther ==
  ASSUME Types, NEW t \in Thread, \A u \in Thread \ {t} : op'[u] = op[u],
         NEW x \in Block, size'[x] = size[x],
         op[t].b # x \/ op[t].act = "passed", op'[t].b # x \/ op'[t].act = "passed"
  PROVE  Counted(x)' = Counted(x)
<1>1. Acting(x)' = Acting(x) /\ t \notin Acting(x)
  BY DEF Acting
<1>2. Acting(x) \in SUBSET Thread
  BY DEF Acting
<1>3. CASE Acting(x) = {}
  BY <1>1, <1>3 DEF Counted
<1>4. CASE Acting(x) # {}
  <2>1. PICK u : u = CHOOSE v \in Acting(x) : TRUE
    OBVIOUS
  <2>2. u \in Acting(x) /\ op'[u] = op[u]
    BY <1>1, <1>2, <1>4, <2>1
  <2>3. u = (CHOOSE v \in Acting(x) : TRUE)'
    BY <1>1, <2>1
  <2>. QED  BY <1>1, <1>4, <2>1, <2>2, <2>3 DEF Counted
<1>. QED  BY <1>3, <1>4

CountedInt == \A b \in Block : Counted(b) \in Int

LEMMA CountedType == Types => CountedInt
<1>. SUFFICES ASSUME Types, NEW b \in Block PROVE Counted(b) \in Int
  BY DEF CountedInt
<1>1. CASE size[b] = NULL
  BY <1>1 DEF Counted
<1>2. CASE size[b] # NULL /\ Acting(b) = {}
  BY <1>2, AlignedBounded DEF Types, Counted
<1>3. CASE size[b] # NULL /\ Acting(b) # {}
  <2>1. PICK t : t = CHOOSE u \in Acting(b) : TRUE
    OBVIOUS
  <2>2. t \in Thread
    BY <1>3, <2>1 DEF Acting
  <2>3. Aligned(op[t].old) \in Int
    BY <2>2, AlignedBounded DEF Types
  <2>. QED  BY <1>3, <2>1, <2>3 DEF Counted
<1>. QED  BY <1>1, <1>2, <1>3

(* A step that changes what one block contributes, and g_used_memory by as *)
(* much.                                                                   *)
LEMMA SummedAfter ==
  ASSUME Types, Types', Summed, NEW b \in Block,
         \A x \in Block \ {b} : Counted(x)' = Counted(x),
         used' = used + (Counted(b)' - Counted(b))
  PROVE  Summed'
<1>1. /\ \A x \in Block : Counted(x) \in Int /\ Counts[x] = Counted(x)
      /\ \A x \in Block : Counted(x)' \in Int /\ Counts'[x] = Counted(x)'
  <2>1. CountedInt
    BY CountedType
  <2>2. CountedInt'
    BY CountedType, PTL
  <2>. QED  BY <2>1, <2>2 DEF Counts, CountedInt
<1>2. PICK h \in Sums(Counts, Block) : used = h[Block]
  BY DEF Summed
<1>3. PICK l : l \in Sums(Counts', Block)
  BY <1>1, SumsExist, AllocAssumption
<1>4. l[Block] = h[Block] + (Counts'[b] - Counts[b])
  BY <1>1, <1>3, SumChanges, AllocAssumption
<1>. QED  BY <1>1, <1>2, <1>3, <1>4 DEF Summed

LEMMA SummedSame ==
  ASSUME Summed, used' = used, \A x \in Block : Counted(x)' = Counted(x)
  PROVE  Summed'
<1>1. Counts' = Counts
  BY DEF Counts
<1>. QED  BY <1>1 DEF Summed

LEMMA UsedInvInit == AllocInit => UsedInv
<1>. SUFFICES ASSUME AllocInit PROVE UsedInv
  OBVIOUS
<1>1. Written
  BY DEF AllocInit, NoOp, Written
<1>2. Counts = [b \in Block |-> 0]
  BY DEF AllocInit, Counts, Counted
<1>3. [s \in SUBSET Block |-> 0] \in Sums(Counts, Block)
  BY <1>2 DEF Sums
<1>4. [s \in SUBSET Block |-> 0][Block] = 0
  OBVIOUS
<1>. QED  BY <1>1, <1>3, <1>4, AllocInvInit DEF AllocInit, Summed, UsedInv

LEMMA WrittenKept ==
  ASSUME Types, Held, Written, NEW t \in Thread, AllocStep(t)
  PROVE  Written'
<1>1. CASE dmbMalloc(t) \/ dmbRealloc(t)
  BY <1>1 DEF Types, Written, dmbMalloc, dmbRealloc, CheckCurrentMemoryUsage
<1>a. NULL \notin Block
  BY AllocAssumption
<1>2. ASSUME NEW b \in Block, Malloc(t, b) PROVE Written'
  BY <1>a, <1>2 DEF Types, Held, Written, Malloc, Doing
<1>6. ASSUME NEW b \in Block, dmbFree(t, b) PROVE Written'
  BY <1>a, <1>6 DEF Types, Held, Written, dmbFree, Owned, NoOp
<1>3. CASE Realloc(t)
  BY <1>3 DEF Types, Held, Written, Realloc, Doing
<1>4. CASE OutOfMemory(t) \/ Subtract(t) \/ Add(t)
  BY <1>4 DEF Types, Written, OutOfMemory, Subtract, Add, Doing, NoOp
<1>5. CASE Free(t)
  BY <1>5 DEF Types, Held, Written, Free, Doing, NoOp
<1>. QED  BY <1>1, <1>2, <1>3, <1>4, <1>5, <1>6 DEF AllocStep

LEMMA SummedKept ==
  ASSUME Types, Held, Written, Summed, NEW t \in Thread, AllocStep(t)
  PROVE  Summed'
<1>a. /\ op[t].b \in Block \cup {NULL} /\ op[t].n \in 0 .. MaxSize
      /\ op[t].old \in 0 .. MaxSize /\ used \in Int /\ NULL \notin Block
      /\ op \in [Thread -> [act : {"none", "passed", "add", "subtract", "free"},
                            b : Block \cup {NULL}, n : 0 .. MaxSize, old : 0 .. MaxSize]]
  BY AllocAssumption DEF Types
<1>b. Types' /\ Held' /\ CountedBusy /\ CountedBusy'
  <2>1. Types' /\ Held'
    BY BlocksKept
  <2>2. CountedBusy'
    BY <2>1, CountedOf, PTL
  <2>. QED  BY <2>1, <2>2, CountedOf
<1>c. ASSUME NEW b \in Block, NEW x \in Block \ {b}, op[t].b \in {b, NULL}, op'[t].b \in {b, NULL},
             \A u \in Thread \ {t} : op'[u] = op[u], size'[x] = size[x]
      PROVE  Counted(x)' = Counted(x)
  BY <1>a, <1>c, CountedOther
<1>d. \A n \in 0 .. MaxSize : Aligned(n) \in Int
  BY AlignedBounded
<1>1. CASE dmbMalloc(t) \/ dmbRealloc(t)
  <2>1. /\ op[t] = NoOp /\ op'[t].act = "passed" /\ used' = used /\ size' = size
        /\ \A u \in Thread \ {t} : op'[u] = op[u]
    BY <1>a, <1>1 DEF dmbMalloc, dmbRealloc, CheckCurrentMemoryUsage, Idle
  <2>2. \A x \in Block : Counted(x)' = Counted(x)
    BY <1>a, <2>1, CountedOther DEF NoOp
  <2>. QED  BY <2>1, <2>2, SummedSame
<1>2. CASE OutOfMemory(t)
  <2>1. /\ op[t].act = "passed" /\ op'[t] = NoOp /\ used' = used /\ size' = size
        /\ \A u \in Thread \ {t} : op'[u] = op[u]
    BY <1>a, <1>2 DEF OutOfMemory, Doing
  <2>2. \A x \in Block : Counted(x)' = Counted(x)
    BY <1>a, <2>1, CountedOther DEF NoOp
  <2>. QED  BY <2>1, <2>2, SummedSame
<1>3. ASSUME NEW b \in Block, Malloc(t, b) PROVE Summed'
  <2>1. /\ op[t].b = NULL /\ op'[t].b = b /\ op'[t].act = "add" /\ used' = used
        /\ size[b] = NULL /\ \A x \in Block \ {b} : size'[x] = size[x]
        /\ \A u \in Thread \ {t} : op'[u] = op[u]
    BY <1>a, <1>3 DEF Malloc, Types
  <2>2. \A x \in Block \ {b} : Counted(x)' = Counted(x)
    BY <1>c, <2>1
  <2>3. Counted(b) = 0
    BY <2>1 DEF Counted
  <2>4. Counted(b)' = 0
    BY <1>a, <1>b, <2>1 DEF CountedBusy
  <2>. QED  BY <2>1, <2>2, <2>3, <2>4, SummedSame
<1>4. CASE Realloc(t)
  <2>0. PICK b : b = op[t].b
    OBVIOUS
  <2>1. /\ b \in Block /\ op[t].act = "passed" /\ op'[t].b = b /\ op'[t].act = "subtract"
        /\ op'[t].old = size[b] /\ used' = used
        /\ \A x \in Block \ {b} : size'[x] = size[x]
        /\ \A u \in Thread \ {t} : op'[u] = op[u]
    BY <2>0, <1>a, <1>4 DEF Realloc, Types, Doing
  <2>2. \A x \in Block \ {b} : Counted(x)' = Counted(x)
    BY <2>0, <1>c, <2>1
  <2>3. Acting(b) = {} /\ size[b] # NULL
    BY <2>0, <1>a, <2>1 DEF Acting, Held
  <2>4. Counted(b) = Aligned(size[b])
    BY <2>3 DEF Counted
  <2>5. Counted(b)' = Aligned(size[b])
    <3>1. Counted(op[t].b)' = IF (op[t].act = "subtract")' THEN Aligned(op[t].old)' ELSE 0
      BY <2>0, <1>a, <1>b, <2>1 DEF CountedBusy
    <3>. QED  BY <2>1, <3>1 DEF Aligned
  <2>. QED  BY <2>1, <2>2, <2>4, <2>5, SummedSame
<1>5. CASE Subtract(t)
  <2>0. PICK b : b = op[t].b
    OBVIOUS
  <2>1. /\ b \in Block /\ op[t].act = "subtract" /\ op'[t].b = b /\ op'[t].act = "add"
        /\ used' = used - Aligned(op[t].old) /\ size' = size
        /\ \A u \in Thread \ {t} : op'[u] = op[u]
    BY <2>0, <1>a, <1>5 DEF Subtract, Doing, Written
  <2>2. \A x \in Block \ {b} : Counted(x)' = Counted(x)
    BY <2>0, <1>c, <2>1
  <2>3. Counted(b) = Aligned(op[t].old)
    BY <2>0, <1>a, <1>b, <2>1 DEF CountedBusy
  <2>4. Counted(b)' = 0
    BY <2>0, <1>a, <1>b, <2>1 DEF CountedBusy
  <2>5. used' = used + (Counted(b)' - Counted(b))
    BY <2>0, <1>a, <1>d, <2>1, <2>3, <2>4
  <2>. QED  BY <1>b, <2>1, <2>2, <2>5, SummedAfter
<1>6. CASE Add(t)
  <2>0. PICK b : b = op[t].b
    OBVIOUS
  <2>1. /\ b \in Block /\ op[t].act = "add" /\ op'[t] = NoOp /\ size[b] = op[t].n
        /\ used' = used + Aligned(op[t].n) /\ size' = size
        /\ \A u \in Thread \ {t} : op'[u] = op[u]
    BY <2>0, <1>a, <1>6 DEF Add, Doing, Written
  <2>2. \A x \in Block \ {b} : Counted(x)' = Counted(x)
    BY <2>0, <1>a, <1>c, <2>1 DEF NoOp
  <2>3. Counted(b) = 0
    BY <2>0, <1>a, <1>b, <2>1 DEF CountedBusy
  <2>4. Acting(b)' = {} /\ size'[b] # NULL
    BY <2>0, <1>a, <2>1 DEF Acting, Held, NoOp
  <2>5. Counted(b)' = Aligned(op[t].n)
    BY <2>1, <2>4 DEF Counted, Aligned
  <2>6. used' = used + (Counted(b)' - Counted(b))
    BY <2>0, <1>a, <1>d, <2>1, <2>3, <2>5
  <2>. QED  BY <1>b, <2>1, <2>2, <2>6, SummedAfter
<1>7. ASSUME NEW b \in Block, dmbFree(t, b) PROVE Summed'
  <2>1. /\ op[t] = NoOp /\ Owned(b) /\ op'[t].b = b /\ op'[t].act = "free"
        /\ used' = used - Aligned(size[b]) /\ size' = size
        /\ \A u \in Thread \ {t} : op'[u] = op[u]
    BY <1>a, <1>7 DEF dmbFree, Idle, NoOp
  <2>2. \A x \in Block \ {b} : Counted(x)' = Counted(x)
    BY <1>a, <1>c, <2>1 DEF NoOp
  <2>3. Acting(b) = {} /\ size[b] # NULL /\ size[b] \in 0 .. MaxSize
    BY <2>1 DEF Acting, Owned, Types
  <2>4. Counted(b) = Aligned(size[b])
    BY <2>3 DEF Counted
  <2>5. Counted(b)' = 0
    BY <1>a, <1>b, <2>1 DEF CountedBusy
  <2>6. used' = used + (Counted(b)' - Counted(b))
    BY <1>a, <1>d, <2>1, <2>3, <2>4, <2>5
  <2>. QED  BY <1>b, <2>2, <2>6, SummedAfter
<1>8. CASE Free(t)
  <2>0. PICK b : b = op[t].b
    OBVIOUS
  <2>1. /\ b \in Block /\ op[t].act = "free" /\ op'[t] = NoOp /\ used' = used
        /\ size'[b] = NULL /\ \A x \in Block \ {b} : size'[x] = size[x]
        /\ \A u \in Thread \ {t} : op'[u] = op[u]
    BY <2>0, <1>a, <1>8 DEF Free, Doing, Written, Types
  <2>2. \A x \in Block \ {b} : Counted(x)' = Counted(x)
    BY <2>0, <1>a, <1>c, <2>1 DEF NoOp
  <2>3. Counted(b) = 0
    BY <2>0, <1>a, <1>b, <2>1 DEF CountedBusy
  <2>4. Counted(b)' = 0
    BY <2>1 DEF Counted
  <2>. QED  BY <2>1, <2>2, <2>3, <2>4, SummedSame
<1>. QED  BY <1>1, <1>2, <1>3, <1>4, <1>5, <1>6, <1>7, <1>8 DEF AllocStep

LEMMA UsedInvStep == UsedInv /\ [AllocNext]_allocVars => UsedInv'
<1>. SUFFICES ASSUME UsedInv, [AllocNext]_allocVars PROVE UsedInv'
  OBVIOUS
<1>. AllocInv /\ Types /\ Held /\ Written /\ Summed
  BY DEF UsedInv, AllocInv
<1>1. AllocInv'
  BY AllocInvStep
<1>2. CASE UNCHANGED allocVars
  <2>1. \A x \in Block : Counted(x)' = Counted(x)
    BY <1>2 DEF allocVars, Counted, Acting
  <2>2. Summed'
    BY <1>2, <2>1, SummedSame DEF allocVars
  <2>. QED  BY <1>1, <1>2, <2>2 DEF UsedInv, Written, allocVars
<1>3. ASSUME NEW t \in Thread, AllocStep(t) PROVE UsedInv'
  BY <1>1, <1>3, WrittenKept, SummedKept DEF UsedInv
<1>. QED  BY <1>2, <1>3 DEF AllocNext

(* g_used_memory is exactly the sum of the sizes of the blocks, but for    *)
(* what threads are about to add or to free, however the atomic additions  *)
(* of dmbMalloc, dmbRealloc and dmbFree are interleaved.                   *)
THEOREM UsedMemoryExact == AllocSpec => []UsedExact
<1>1. UsedInv => UsedExact
  BY SummedExact DEF UsedInv
<1>. QED  BY <1>1, UsedInvInit, UsedInvStep, PTL DEF AllocSpec

-----------------------------------------------------------------------------
LEMMA MultipleGap ==
  ASSUME NEW w \in Nat, NEW b \in Nat, NEW e \in Nat, w * b < w * e
  PROVE  w * b + w <= w * e
<1>1. ASSUME e <= b PROVE FALSE
  <2>1. PICK d \in Nat : b = e + d
    BY <1>1
  <2>2. w * b = w * e + w * d /\ w * d \in Nat /\ w * e \in Nat
    BY <2>1
  <2>. QED  BY <2>2
<1>2. PICK d \in Nat : e = b + 1 + d
  BY <1>1
<1>3. w * e = w * b + w + w * d /\ w * d \in Nat /\ w * b \in Nat
  BY <1>2
<1>. QED  BY <1>3

(* The address that dmbReallocAligned hands out for a block at base is a   *)
(* multiple of the alignment, and lies so that the pointer in front of it, *)
(* of the size of a word, and the bytes asked for behind it are within the *)
(* n + alignment bytes of the block.                                       *)
THEOREM AlignedFits ==
  ASSUME NEW base \in Nat, NEW alignment \in Nat \ {0}, NEW n \in Nat,
         base % Word = 0, alignment % Word = 0
  PROVE  /\ Faked(base, alignment) % alignment = 0
         /\ base + Word <= Faked(base, alignment)
         /\ Faked(base, alignment) + n <= base + n + alignment
<1>. Word \in Nat \ {0}
  BY AllocAssumption
<1>. DEFINE top == base + alignment
<1>1. PICK r \in 0 .. alignment - 1, q \in Nat : r = top % alignment /\ top = (alignment * q) + r
  <2>1. /\ top % alignment \in 0 .. alignment - 1 /\ top \div alignment \in Nat
        /\ top = (alignment * (top \div alignment)) + (top % alignment)
    BY SMT
  <2>. QED  BY <2>1
<1>2. Faked(base, alignment) = top - r /\ top - r = alignment * q /\ r < alignment
  BY <1>1 DEF Faked
<1>3. (alignment * q) % alignment = 0
  BY SMT
<1>4. Word <= alignment - r
  <2>1. PICK a \in Nat, b \in Nat : alignment = Word * a /\ base = Word * b
    <3>1. ASSUME NEW m \in Nat, m % Word = 0 PROVE m = Word * (m \div Word) /\ m \div Word \in Nat
      BY <3>1, SMT
    <3>. QED  BY <3>1
  <2>2. PICK e \in Nat : e = a * q
    BY <2>1
  <2>3. alignment * q = Word * e
    <3>1. (Word * a) * q = Word * (a * q)
      BY SMT
    <3>. QED  BY <2>1, <2>2, <3>1
  <2>4. Word * b < Word * e
    BY <1>1, <1>2, <2>1, <2>3
  <2>5. Word * b + Word <= Word * e
    BY <2>4, MultipleGap
  <2>. QED  BY <1>2, <2>1, <2>3, <2>5
<1>. QED  BY <1>2, <1>3, <1>4

-----------------------------------------------------------------------------
(* DmbString: numbers.                                                     *)

(* Long2RevStr divides numbers below 65536 by ten with a product and a     *)
(* shift: the quotient is exact, so the digit is one.                      *)
THEOREM FastDivision ==
  ASSUME NEW n \in Nat, n < 65536
  PROVE  /\ Tenth(n) = n \div 10
         /\ n - 10 * Tenth(n) \in 0 .. 9
BY SMTT(40) DEF Tenth

(* Above it numbers lose two digits at a time: the rest is an index of the *)
(* tables of digits.                                                       *)
LEMMA TwoDigits ==
  ASSUME NEW n \in Nat
  PROVE  n - 100 * (n \div 100) \in 0 .. 99
BY SMT

-----------------------------------------------------------------------------
(* DmbProperty: the settings file.                                         *)

(* A list of sequences, put one behind the other, is a sequence.           *)
LEMMA Flattened ==
  ASSUME NEW S, NEW n \in Nat, NEW parts \in [1 .. n -> Seq(S)]
  PROVE  Seqs!FlattenSeq(parts) \in Seq(S)
<1>0. parts \in Seq(Seq(S)) /\ Len(parts) = n /\ DOMAIN parts = 1 .. n
  OBVIOUS
<1>1. CASE n = 0
  <2>1. parts = <<>>
    BY <1>0, <1>1
  <2>. QED  BY <1>0, <1>1, <2>1 DEF Seqs!FlattenSeq
<1>2. CASE n # 0
  <2>. DEFINE step == [m \in Nat |-> [s \in Seq(S) |-> IF m + 2 \in 1 .. n THEN s \o parts[m + 2] ELSE s]]
              IsFlat(f) == f = [i \in 1 .. n |-> IF i = 1 THEN parts[i] ELSE f[i - 1] \o parts[i]]
  <2>1. parts[1] \in Seq(S)
    BY <1>2
  <2>2. step \in [Nat -> [Seq(S) -> Seq(S)]]
    BY ConcatProperties
  <2>3. PICK g \in [Nat -> Seq(S)] : g[0] = parts[1] /\ \A m \in Nat : g[m + 1] = step[m][g[m]]
    <3>. HIDE DEF step
    <3>1. PICK Z : Z = Seq(S)
      OBVIOUS
    <3>2. parts[1] \in Z /\ step \in [Nat -> [Z -> Z]]
      BY <2>1, <2>2, <3>1
    <3>3. \E f : IsRecursive(f, Z, parts[1], step)
      BY <3>2, Recursion
    <3>. QED  BY <3>1, <3>3 DEF IsRecursive
  <2>4. \A m \in Nat : m + 2 <= n => g[m + 1] = g[m] \o parts[m + 2]
    <3>. SUFFICES ASSUME NEW m \in Nat, m + 2 <= n PROVE g[m + 1] = g[m] \o parts[m + 2]
      OBVIOUS
    <3>1. g[m] \in Seq(S) /\ m + 2 \in 1 .. n
      OBVIOUS
    <3>2. step[m][g[m]] = g[m] \o parts[m + 2]
      BY <3>1
    <3>. HIDE DEF step
    <3>. QED  BY <2>3, <3>2
  <2>. HIDE DEF step
  <2>5. \E f : IsFlat(f)
    <3>. DEFINE f == [i \in 1 .. n |-> g[i - 1]]
    <3>1. ASSUME NEW i \in 1 .. n
          PROVE  f[i] = IF i = 1 THEN parts[i] ELSE f[i - 1] \o parts[i]
      <4>1. CASE i = 1
        BY <2>3, <4>1
      <4>2. CASE i # 1
        <5>1. PICK m \in Nat : i = m + 2
          <6>1. i - 2 \in Nat /\ i = (i - 2) + 2
            BY <4>2
          <6>. QED  BY <6>1
        <5>2. f[i] = g[m + 1] /\ f[i - 1] = g[m]
          BY <5>1
        <5>. HIDE DEF f
        <5>4. m + 2 <= n
          BY <5>1
        <5>3. g[m + 1] = g[m] \o parts[m + 2]
          BY <2>4, <5>4
        <5>. HIDE DEF f
        <5>. QED  BY <4>2, <5>1, <5>2, <5>3
      <4>. QED  BY <4>1, <4>2
    <3>2. IsFlat(f)
      BY <3>1
    <3>. QED  BY <3>2
  <2>. DEFINE flat == CHOOSE f : IsFlat(f)
  <2>6. IsFlat(flat)
    <3>. HIDE DEF IsFlat
    <3>. QED  BY <2>5
  <2>. HIDE DEF flat
  <2>7. Seqs!FlattenSeq(parts) = flat[n]
    BY <1>0, <1>2 DEF Seqs!FlattenSeq, flat
  <2>. DEFINE T == {m \in Nat : m + 1 <= n => flat[m + 1] \in Seq(S)}
  <2>8. 0 \in T
    BY <1>2, <2>1, <2>6
  <2>9. ASSUME NEW m \in T PROVE m + 1 \in T
    <3>. SUFFICES ASSUME (m + 1) + 1 <= n PROVE flat[(m + 1) + 1] \in Seq(S)
      OBVIOUS
    <3>0. (m + 1) + 1 \in 1 .. n /\ (m + 1) + 1 # 1
      OBVIOUS
    <3>1. flat[(m + 1) + 1] = flat[((m + 1) + 1) - 1] \o parts[(m + 1) + 1]
      BY <2>6, <3>0
    <3>2. flat[m + 1] \in Seq(S) /\ parts[(m + 1) + 1] \in Seq(S) /\ ((m + 1) + 1) - 1 = m + 1
      OBVIOUS
    <3>. QED  BY <3>1, <3>2, ConcatProperties
  <2>10. T = Nat
    <3>. HIDE DEF T
    <3>1. T \in SUBSET Nat
      BY DEF T
    <3>. QED  BY <2>8, <2>9, <3>1, Induction
  <2>11. n - 1 \in Nat /\ (n - 1) + 1 = n
    BY <1>2
  <2>12. \A m \in Nat : m + 1 <= n => flat[m + 1] \in Seq(S)
    BY <2>10
  <2>13. flat[n] \in Seq(S)
    <3>1. PICK m \in Nat : m = n - 1
      BY <2>11
    <3>2. m + 1 = n /\ m + 1 <= n
      BY <3>1
    <3>. HIDE DEF T
    <3>3. flat[m + 1] \in Seq(S)
      BY <2>12, <3>2
    <3>. QED  BY <3>2, <3>3
  <2>. QED  BY <2>7, <2>13
<1>. QED  BY <1>1, <1>2

Steps == {"create", "open", "line", "key", "value", "insert", "lookup", "failed", "done"}
Tables == [count : Nat, entry : [0 .. Buckets - 1 -> Seq(Entry)]]

PropTypes ==
  /\ file \in Seq(Token) /\ cur \in 1 .. Len(file) + 1 /\ pc \in Steps
  /\ props \in Seq(Entry) /\ dict \in Tables \cup {NULL}
  /\ key \in Token \cup {NULL} /\ value \in Token \cup {NULL}
  /\ live \in Int

(* What the parser and the loader hold, step by step.                      *)
Holding ==
  /\ pc = "create" => dict = NULL
  /\ pc \in {"open", "line", "key", "value", "insert", "lookup"} => dict # NULL
  /\ dict = NULL => props = <<>>
  /\ (key # NULL) = (pc \in {"value", "insert"})
  /\ (value # NULL) = (pc = "insert")

LEMMA FileTyped ==
  ASSUME PropInit
  PROVE  file \in Seq(Token)
<1>1. PICK n \in 0 .. Len(LineValue) : doc \in [1 .. n -> Line]
  BY DEF PropInit
<1>2. n \in Nat /\ Len(doc) = n /\ DOMAIN doc = 1 .. n /\ doc \in Seq(Line)
  BY <1>1, PropertyAssumption
<1>. DEFINE parts == [i \in 1 .. Len(doc) |-> Tokens(doc[i], LineValue[i])]
            text == Seqs!FlattenSeq(parts)
<1>3. ASSUME NEW line \in Line, NEW v \in Token PROVE Tokens(line, v) \in Seq(Token)
  <2>1. line.key \in Token /\ NL \in Token /\ SP \in Token /\ EQ \in Token /\ HASH \in Token
    BY PropertyAssumption DEF Token, Marks
  <2>2. line.kind \in {"blank", "comment", "plain", "spaced", "keyonly", "novalue", "nokey"}
    BY PropertyAssumption
  <2>. QED  BY <2>1, <2>2 DEF Tokens
<1>4. \A i \in 1 .. n : doc[i] \in Line /\ LineValue[i] \in Token
  BY <1>1, PropertyAssumption DEF Token
<1>5. parts \in [1 .. n -> Seq(Seq(Token)) \cup Seq(Token)]
  BY <1>2, <1>3, <1>4
<1>6. parts \in [1 .. n -> Seq(Token)]
  BY <1>2, <1>3, <1>4
<1>7. text \in Seq(Token)
  <2>. HIDE DEF parts
  <2>. QED  BY <1>2, <1>6, Flattened
<1>8. file \in {text, Seqs!Front(text)}
  BY DEF PropInit
<1>. HIDE DEF text
<1>9. Seqs!Front(text) \in Seq(Token)
  <2>1. Len(text) \in Nat /\ \A i \in 1 .. Len(text) - 1 : text[i] \in Token
    BY <1>7
  <2>2. Seqs!Front(text) = SubSeq(text, 1, Len(text) - 1)
    BY DEF Seqs!Front
  <2>. QED  BY <1>7, <2>1, <2>2
<1>. QED  BY <1>7, <1>8, <1>9

(* The parser's two searches stay within the file.                         *)
LEMMA TrimStops ==
  ASSUME file \in Seq(Token), NEW p \in 1 .. Len(file) + 1, NEW marks
  PROVE  trim(p, marks) \in p .. Len(file) + 1
<1>. DEFINE N == Len(file) + 1
            Stop == {q \in p .. N : AtEnd(q) \/ file[q] \notin marks}
            IsFrom(f) == f = [q \in p .. N |-> IF AtEnd(q) \/ file[q] \notin marks
                                               THEN q ELSE f[q + 1]]
            from == CHOOSE f : IsFrom(f)
<1>1. N \in Nat /\ p \in Nat /\ p <= N /\ N \in Stop
  BY DEF AtEnd
<1>2. ASSUME NEW f, NEW g
      PROVE  [q \in p .. N |-> IF AtEnd(q) \/ file[q] \notin marks THEN q ELSE g[q + 1]]
             = [q \in p .. N |-> IF q \in Stop THEN q ELSE g[q + 1]]
  OBVIOUS
<1>3. \A f : IsFrom(f) <=> IsScan(f, p, N, Stop)
  BY <1>2 DEF IsScan
<1>4. trim(p, marks) = from[p]
  BY DEF trim
<1>. HIDE DEF N, Stop, IsFrom
<1>5. \E f : IsFrom(f)
  BY <1>1, <1>3, ScanExists
<1>6. IsFrom(from)
  BY <1>5
<1>. HIDE DEF from
<1>7. from[p] \in p .. N
  BY <1>1, <1>3, <1>6, ScanFinds
<1>. QED  BY <1>4, <1>7 DEF N

LEMMA LineEnds ==
  ASSUME file \in Seq(Token), NEW p \in 1 .. Len(file) + 1
  PROVE  LineEnd(p) \in p .. Len(file) + 1
<1>. DEFINE N == Len(file) + 1
            Stop == {q \in p .. N : AtEnd(q) \/ file[q] = NL}
            IsFrom(f) == f = [q \in p .. N |-> IF AtEnd(q) \/ file[q] = NL THEN q ELSE f[q + 1]]
            from == CHOOSE f : IsFrom(f)
<1>1. N \in Nat /\ p \in Nat /\ p <= N /\ N \in Stop
  BY DEF AtEnd
<1>2. ASSUME NEW f, NEW g
      PROVE  [q \in p .. N |-> IF AtEnd(q) \/ file[q] = NL THEN q ELSE g[q + 1]]
             = [q \in p .. N |-> IF q \in Stop THEN q ELSE g[q + 1]]
  OBVIOUS
<1>3. \A f : IsFrom(f) <=> IsScan(f, p, N, Stop)
  BY <1>2 DEF IsScan
<1>4. LineEnd(p) = from[p]
  BY DEF LineEnd
<1>. HIDE DEF N, Stop, IsFrom
<1>5. \E f : IsFrom(f)
  BY <1>1, <1>3, ScanExists
<1>6. IsFrom(from)
  BY <1>5
<1>. HIDE DEF from
<1>7. from[p] \in p .. N
  BY <1>1, <1>3, <1>6, ScanFinds
<1>. QED  BY <1>4, <1>7 DEF N

(* What the parser and the table hold, as a number of blocks.              *)
Table == IF dict = NULL THEN 0 ELSE 2 + 3 * Len(props)

Blocks ==
  LET buffer == IF pc \in {"line", "key", "value", "insert"} THEN 1 ELSE 0
      held   == IF pc = "insert" THEN 2 ELSE IF pc = "value" THEN 1 ELSE 0
  IN  buffer + held + Table

LEMMA BlocksCounted ==
  ASSUME Holding
  PROVE  BlocksOwned <=> live = Blocks
<1>. DEFINE H == {s \in {"key", "value"} : (IF s = "key" THEN key ELSE value) # NULL}
<1>1. Cardinality({}) = 0 /\ Cardinality({"key"}) = 1 /\ Cardinality({"key", "value"}) = 2
  BY FS_EmptySet, FS_Singleton, FS_AddElement
<1>2. H = IF pc = "insert" THEN {"key", "value"} ELSE IF pc = "value" THEN {"key"} ELSE {}
  BY DEF Holding
<1>3. Cardinality(H) = IF pc = "insert" THEN 2 ELSE IF pc = "value" THEN 1 ELSE 0
  BY <1>1, <1>2
<1>. QED  BY <1>3 DEF BlocksOwned, Blocks, Table

PropInv == PropTypes /\ Holding /\ live = Blocks

LEMMA PropBegins ==
  ASSUME PropInit
  PROVE  PropInv
<1>1. file \in Seq(Token)
  BY FileTyped
<1>2. /\ pc = "create" /\ cur = 1 /\ key = NULL /\ value = NULL
      /\ props = <<>> /\ dict = NULL /\ live = 0
  BY DEF PropInit
<1>3. PropTypes
  BY <1>1, <1>2 DEF PropTypes, Steps
<1>4. Holding /\ Blocks = 0
  BY <1>2 DEF Holding, Blocks, Table
<1>. QED  BY <1>2, <1>3, <1>4 DEF PropInv

LEMMA CreateHolds ==
  ASSUME PropInv, dmbPropertyCreate
  PROVE  PropInv'
<1>0. PropTypes /\ Holding /\ live = Blocks /\ pc = "create"
  BY DEF PropInv, dmbPropertyCreate
<1>1. dmbDictCreate \in Tables
  BY PropertyAssumption, EmptySeq DEF dmbDictCreate, Tables
<1>2. dict = NULL /\ props = <<>> /\ live = 0 /\ key = NULL /\ value = NULL
  BY <1>0 DEF Holding, Blocks, Table
<1>3. \/ pc' = "failed" /\ live' = 0 /\ dict' = NULL
      \/ pc' = "open" /\ live' = 2 /\ dict' \in Tables
  BY <1>1, <1>2 DEF dmbPropertyCreate, Fail
<1>4. file' = file /\ cur' = cur /\ props' = <<>> /\ key' = NULL /\ value' = NULL
  BY <1>2 DEF dmbPropertyCreate
<1>5. NULL \notin Tables /\ Len(<<>>) = 0
  BY PropertyAssumption DEF Tables
<1>6. PropTypes'
  BY <1>0, <1>3, <1>4 DEF PropTypes, Steps
<1>7. Holding'
  BY <1>3, <1>4, <1>5 DEF Holding
<1>8. live' = Blocks'
  BY <1>3, <1>4, <1>5 DEF Blocks, Table
<1>. QED  BY <1>6, <1>7, <1>8 DEF PropInv

LEMMA LoadHolds ==
  ASSUME PropInv, dmbPropertyLoad
  PROVE  PropInv'
<1>0. PropTypes /\ Holding /\ live = Blocks /\ pc = "open"
  BY DEF PropInv, dmbPropertyLoad
<1>1. \/ pc' = "failed" /\ live' = live
      \/ pc' = "line" /\ live' = live + 1
  BY DEF dmbPropertyLoad, Fail
<1>2. /\ file' = file /\ cur' = cur /\ key' = key /\ value' = value
      /\ props' = props /\ dict' = dict
  BY DEF dmbPropertyLoad
<1>3. PropTypes'
  BY <1>0, <1>1, <1>2 DEF PropTypes, Steps
<1>4. Holding'
  BY <1>0, <1>1, <1>2 DEF Holding
<1>5. live' = Blocks'
  <2>1. Table \in Int
    <3>1. Len(props) \in Nat
      BY <1>0 DEF PropTypes
    <3>. QED  BY <3>1 DEF Table
  <2>2. Table' = Table
    BY <1>2 DEF Table
  <2>. QED  BY <1>0, <1>1, <1>2, <2>1, <2>2 DEF Blocks
<1>. QED  BY <1>3, <1>4, <1>5 DEF PropInv

(* A parse that ends has freed the buffer.                                 *)
LEMMA ParseEnds ==
  ASSUME NEW code, EndParse(code)
  PROVE  pc' \in {"lookup", "failed"}
BY DEF EndParse, Fail

LEMMA LineHolds ==
  ASSUME PropInv, ParseLine
  PROVE  PropInv'
<1>0. PropTypes /\ Holding /\ live = Blocks /\ pc = "line"
  BY DEF PropInv, ParseLine
<1>. DEFINE p == trim(cur, {SP, NL})
<1>1. p \in 1 .. Len(file) + 1 /\ Len(file) \in Nat
  <2>1. file \in Seq(Token) /\ cur \in 1 .. Len(file) + 1 /\ Len(file) \in Nat
    BY <1>0 DEF PropTypes
  <2>2. p \in cur .. Len(file) + 1
    BY <2>1, TrimStops
  <2>. QED  BY <2>1, <2>2
<1>2. LineEnd(p) \in p .. Len(file) + 1
  <2>. HIDE DEF p
  <2>1. file \in Seq(Token)
    BY <1>0 DEF PropTypes
  <2>. QED  BY <1>1, <2>1, LineEnds
<1>3. /\ \/ pc' \in {"lookup", "failed"} /\ live' = live - 1
         \/ pc' \in {"line", "key"} /\ live' = live
      /\ cur' \in {cur, p, LineEnd(p)}
  BY <1>0, ParseEnds DEF ParseLine
<1>. HIDE DEF p
<1>4. cur' \in 1 .. Len(file) + 1
  BY <1>0, <1>1, <1>2, <1>3 DEF PropTypes
<1>5. /\ file' = file /\ key' = key /\ value' = value /\ props' = props /\ dict' = dict
  BY DEF ParseLine
<1>6. PropTypes'
  BY <1>0, <1>3, <1>4, <1>5 DEF PropTypes, Steps
<1>7. Holding'
  BY <1>0, <1>3, <1>5 DEF Holding
<1>8. live' = Blocks'
  <2>1. Table \in Int
    <3>1. Len(props) \in Nat
      BY <1>0 DEF PropTypes
    <3>. QED  BY <3>1 DEF Table
  <2>2. Table' = Table
    BY <1>5 DEF Table
  <2>. QED  BY <1>0, <1>3, <1>5, <2>1, <2>2 DEF Blocks
<1>. QED  BY <1>6, <1>7, <1>8 DEF PropInv

LEMMA KeyHolds ==
  ASSUME PropInv, ParseKey
  PROVE  PropInv'
<1>0. PropTypes /\ Holding /\ live = Blocks /\ pc = "key"
  BY DEF PropInv, ParseKey
<1>1. file \in Seq(Token) /\ cur \in 1 .. Len(file) + 1 /\ Len(file) \in Nat /\ key = NULL
  BY <1>0 DEF PropTypes, Holding
<1>2. IsString(cur) => file[cur] \in Token /\ trim(cur + 1, {SP}) \in 1 .. Len(file) + 1
  <2>. SUFFICES ASSUME IsString(cur)
                PROVE  file[cur] \in Token /\ trim(cur + 1, {SP}) \in 1 .. Len(file) + 1
    OBVIOUS
  <2>1. cur < Len(file) /\ cur + 1 \in 1 .. Len(file) + 1
    BY <1>1 DEF IsString
  <2>2. trim(cur + 1, {SP}) \in cur + 1 .. Len(file) + 1
    BY <1>1, <2>1, TrimStops
  <2>. QED  BY <1>1, <2>1, <2>2
<1>3. \/ pc' \in {"lookup", "failed"} /\ live' = live - 1 /\ cur' = cur /\ key' = NULL
      \/ /\ pc' = "value" /\ live' = live + 1 /\ key' \in Token
         /\ cur' \in 1 .. Len(file) + 1
  BY <1>0, <1>1, <1>2, ParseEnds DEF ParseKey
<1>4. /\ file' = file /\ value' = value /\ props' = props /\ dict' = dict
  BY DEF ParseKey
<1>5. NULL \notin Token
  BY PropertyAssumption
<1>6. PropTypes'
  BY <1>0, <1>3, <1>4 DEF PropTypes, Steps
<1>7. Holding'
  BY <1>0, <1>3, <1>4, <1>5 DEF Holding
<1>8. live' = Blocks'
  <2>1. Table \in Int
    <3>1. Len(props) \in Nat
      BY <1>0 DEF PropTypes
    <3>. QED  BY <3>1 DEF Table
  <2>2. Table' = Table
    BY <1>4 DEF Table
  <2>. QED  BY <1>0, <1>3, <1>4, <2>1, <2>2 DEF Blocks
<1>. QED  BY <1>6, <1>7, <1>8 DEF PropInv

LEMMA ValueHolds ==
  ASSUME PropInv, ParseValue
  PROVE  PropInv'
<1>0. PropTypes /\ Holding /\ live = Blocks /\ pc = "value"
  BY DEF PropInv, ParseValue
<1>. DEFINE p == trim(cur, {SP, EQ})
<1>1. file \in Seq(Token) /\ cur \in 1 .. Len(file) + 1 /\ Len(file) \in Nat /\ value = NULL
  BY <1>0 DEF PropTypes, Holding
<1>2. p \in cur .. Len(file) + 1
  BY <1>1, TrimStops
<1>3. \/ pc' \in {"lookup", "failed"} /\ live' = live - 2 /\ cur' = cur /\ value' = value /\ key' = NULL
      \/ /\ pc' = "insert" /\ live' = live + 1 /\ key' = key
         /\ IsString(p) /\ value' = file[p] /\ cur' = p + 1
  BY ParseEnds DEF ParseValue, DropKey
<1>. HIDE DEF p
<1>4. IsString(p) => p + 1 \in 1 .. Len(file) + 1 /\ file[p] \in Token
  BY <1>1, <1>2 DEF IsString
<1>5. /\ file' = file /\ props' = props /\ dict' = dict
  BY DEF ParseValue
<1>6. NULL \notin Token
  BY PropertyAssumption
<1>7. PropTypes'
  BY <1>0, <1>3, <1>4, <1>5 DEF PropTypes, Steps
<1>8. Holding'
  BY <1>0, <1>1, <1>3, <1>4, <1>5, <1>6 DEF Holding
<1>9. live' = Blocks'
  <2>1. Table \in Int
    <3>1. Len(props) \in Nat
      BY <1>0 DEF PropTypes
    <3>. QED  BY <3>1 DEF Table
  <2>2. Table' = Table
    BY <1>5 DEF Table
  <2>. QED  BY <1>0, <1>3, <1>5, <2>1, <2>2 DEF Blocks
<1>. QED  BY <1>7, <1>8, <1>9 DEF PropInv

LEMMA PutTyped ==
  ASSUME NEW d \in Tables, NEW b \in 0 .. Buckets - 1, NEW e \in Entry
  PROVE  dmbDictPut(d, b, e) \in Tables
<1>1. d.count + 1 \in Nat /\ d.entry \in [0 .. Buckets - 1 -> Seq(Entry)]
  BY DEF Tables
<1>2. \A s \in Seq(Entry) : Append(s, e) \in Seq(Entry)
  OBVIOUS
<1>3. [d.entry EXCEPT ![b] = Append(@, e)] \in [0 .. Buckets - 1 -> Seq(Entry)]
  BY <1>1, <1>2
<1>. QED  BY <1>1, <1>3 DEF dmbDictPut, Tables

LEMMA InsertHolds ==
  ASSUME PropInv, Insert
  PROVE  PropInv'
<1>0. PropTypes /\ Holding /\ live = Blocks /\ pc = "insert"
  BY DEF PropInv, Insert
<1>1. key \in Token /\ value \in Token /\ dict \in Tables /\ props \in Seq(Entry)
  BY <1>0 DEF PropTypes, Holding
<1>2. PICK e \in Entry : e = [k |-> key, v |-> value]
  BY <1>1 DEF Entry
<1>3. \/ pc' \in {"lookup", "failed"} /\ live' = live - 3 /\ props' = props /\ dict' = dict
      \/ /\ pc' = "line" /\ live' = live + 1
         /\ props' = Append(props, e)
         /\ \E b \in 0 .. Buckets - 1 : dict' = dmbDictPut(dict, b, e)
  BY <1>2, ParseEnds DEF Insert, dmbPropertyInsert, hashFunc
<1>4. /\ \A b \in 0 .. Buckets - 1 : dmbDictPut(dict, b, e) \in Tables
      /\ Append(props, e) \in Seq(Entry) /\ Len(Append(props, e)) = Len(props) + 1
      /\ Len(props) \in Nat
  BY <1>1, PutTyped
<1>5. file' = file /\ cur' = cur /\ key' = NULL /\ value' = NULL
  BY DEF Insert
<1>6. NULL \notin Tables
  BY PropertyAssumption DEF Tables
<1>7. PropTypes'
  <2>1. pc' \in Steps /\ live' \in Int /\ props' \in Seq(Entry) /\ dict' \in Tables
    BY <1>0, <1>1, <1>3, <1>4, SMTT(40) DEF PropTypes, Steps
  <2>. QED  BY <1>0, <1>5, <2>1 DEF PropTypes
<1>8. Holding'
  BY <1>0, <1>3, <1>4, <1>5, <1>6 DEF Holding
<1>9. dict # NULL /\ dict' # NULL
  BY <1>1, <1>3, <1>4, <1>6
<1>10. live' = Blocks'
  BY <1>0, <1>3, <1>4, <1>9 DEF Blocks, Table
<1>. QED  BY <1>7, <1>8, <1>10 DEF PropInv

LEMMA SettingsHold ==
  ASSUME PropInv, dmbLoadSettings
  PROVE  PropInv'
<1>0. PropTypes /\ Holding /\ live = Blocks /\ pc = "lookup"
  BY DEF PropInv, dmbLoadSettings
<1>1. /\ pc' = "done" /\ live' = live - 3 * Len(props) - 2 /\ props' = <<>> /\ dict' = NULL
      /\ file' = file /\ cur' = cur /\ key' = key /\ value' = value
  BY DEF dmbLoadSettings
<1>2. dict # NULL /\ Len(props) \in Nat
  BY <1>0 DEF Holding, PropTypes
<1>3. live = 2 + 3 * Len(props)
  BY <1>0, <1>2 DEF Blocks, Table
<1>4. live' = 0
  BY <1>1, <1>2, <1>3
<1>5. PropTypes'
  BY <1>0, <1>1, <1>4 DEF PropTypes, Steps
<1>6. Holding'
  BY <1>0, <1>1 DEF Holding
<1>7. Blocks' = 0
  BY <1>1 DEF Blocks, Table
<1>. QED  BY <1>4, <1>5, <1>6, <1>7 DEF PropInv

(* Reading a settings file loses no memory, whatever lines it has, which   *)
(* of the allocations fails and wherever the parse ends: every allocated   *)
(* block has an owner in every state, so at the end only the table of a    *)
(* load that failed is left.                                               *)
THEOREM BlocksNotLost == PropSpec => []BlocksOwned
<1>1. PropInit => PropInv
  BY PropBegins
<1>2. PropInv /\ [PropNext]_propVars => PropInv'
  <2>. SUFFICES ASSUME PropInv, [PropNext]_propVars PROVE PropInv'
    OBVIOUS
  <2>1. CASE UNCHANGED propVars
    BY <2>1 DEF PropInv, PropTypes, Holding, Blocks, Table, propVars
  <2>. QED
    BY <2>1, CreateHolds, LoadHolds, LineHolds, KeyHolds, ValueHolds, InsertHolds, SettingsHold
       DEF PropNext
<1>3. PropInv => BlocksOwned
  BY BlocksCounted DEF PropInv
<1>. QED  BY <1>1, <1>2, <1>3, PTL DEF PropSpec

================================================================================
