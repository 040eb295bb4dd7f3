------------------------------- MODULE DmbDLList -------------------------------
(***************************************************************************)
(* The object list of src/base/dmbdllist.c, a length and an intrusive list *)
(* (DmbList) of entries that each hold a reference to an object; the       *)
(* reference counts of src/base/dmbobject.c; and the accounting of memory  *)
(* of src/core/dmballoc.c.  A list belongs to one thread.  Objects, whose  *)
(* counts are atomic, and g_used_memory are shared by all.                 *)
(*                                                                         *)
(* A call is a step on the caller's list followed by the work it leaves in *)
(* todo, one item after the other and one access to shared memory a step.  *)
(***************************************************************************)
EXTENDS Integers, Sequences, FiniteSets, DmbList

CONSTANTS
  Thread,
  List,         \* the heads of the lists
  Owner,        \* the thread each list belongs to
  Entry,        \* the memory for entries, one unit each
  Obj,          \* the memory for integer objects, one unit each
  MaxMemory,    \* g_max_memory
  MaxHeld       \* bound: references to an object a thread holds by itself

ASSUME DLListAssumption ==
  /\ Owner \in [List -> Thread]
  /\ List \cap Entry = {} /\ NULL \notin List \cup Entry \cup Obj
  /\ IsFiniteSet(Thread) /\ IsFiniteSet(Entry) /\ IsFiniteSet(Obj)
  /\ MaxMemory \in Nat /\ MaxHeld \in Nat

VARIABLES
  heap, len,      \* the lists: pointers and lengths
  free,           \* entries not allocated
  obj,            \* what an entry points to (NULL: nothing that counts)
  live, ref,      \* objects: allocated, and the count
  used,           \* g_used_memory
  held,           \* references a thread holds by itself
  todo            \* the work left to a thread's call

listVars == <<heap, len>>
refVars  == <<obj, live, ref, held>>
vars     == <<listVars, refVars, free, used, todo>>

Heads(value) == [n \in List \cup Entry |-> IF n \in List THEN n ELSE value]

(* dmbDLListInit for every list.                                           *)
Init ==
  /\ heap = [next |-> Heads(NULL), prev |-> Heads(NULL)]
  /\ len = [l \in List |-> 0]
  /\ free = Entry /\ obj = [e \in Entry |-> NULL]
  /\ live = [o \in Obj |-> FALSE] /\ ref = [o \in Obj |-> 0]
  /\ used = 0
  /\ held = [t \in Thread |-> [o \in Obj |-> 0]]
  /\ todo = [t \in Thread |-> <<>>]

-----------------------------------------------------------------------------
(* The loops over a list.                                                  *)

fasterFromEnd(n, uIndex) == uIndex > n \div 2

(* The turn for the index i in the loop of RemoveRange and GetRange.       *)
LoopTurn(s, i, l, uStart, uEnd, removing) ==
  LET iter == dmbListNext(s.h, s.iter)
  IN  IF iter.node = l THEN s
      ELSE IF uStart <= i /\ i <= uEnd
      THEN [h |-> IF removing THEN dmbListRemove(s.h, iter.node) ELSE s.h,
            iter |-> iter, met |-> Append(s.met, iter.node)]
      ELSE [s EXCEPT !.iter = iter]

(* That loop over a list l of length n: the entries with indices from      *)
(* uStart to uEnd, in the order it meets them, and the heap, without them  *)
(* if they are removed.                                                    *)
Loop(h, l, n, uStart, uEnd, removing) ==
  LET fromEnd == fasterFromEnd(n, uStart)
      turns == IF fromEnd THEN n - uStart ELSE uEnd + 1
      s[k \in 0 .. turns] ==
        IF k = 0 THEN [h |-> h, iter |-> dmbListInitIter(h, l, fromEnd), met |-> <<>>]
        ELSE LoopTurn(s[k - 1], IF fromEnd THEN n - k ELSE k - 1, l, uStart, uEnd, removing)
  IN  s[turns]

(* Fault: an index equal to the length is not clipped.                     *)
RangeOfLate(h, l, n, uStart, uEnd) ==
  LET clip(u) == IF u > n THEN n - 1 ELSE u
  IN  IF uStart > uEnd \/ n = 0 THEN <<>>
      ELSE Loop(h, l, n, clip(uStart), clip(uEnd), FALSE).met

(* The entries whose objects GetRange pushes, in its order.  In an empty   *)
(* list n - 1 wraps around, and the loop ends at its first turn.           *)
RangeOf(h, l, n, uStart, uEnd) ==
  LET clip(u) == IF u >= n THEN n - 1 ELSE u
  IN  IF uStart > uEnd \/ n = 0 THEN <<>>
      ELSE Loop(h, l, n, clip(uStart), clip(uEnd), FALSE).met

(* Fault: the element at *uIndex is taken for one met before.              *)
ScanTurnAfter(s, i, h, l, uIndex) ==
  LET iter == dmbListNext(h, s.iter)
  IN  IF s.ended \/ iter.node = l THEN [s EXCEPT !.ended = TRUE]
      ELSE [s EXCEPT !.iter = iter, !.met = IF i > uIndex THEN Append(@, iter.node) ELSE @]

(* The turn for the index i in the loop of Scan.                           *)
ScanTurn(s, i, h, l, uIndex) ==
  LET iter == dmbListNext(h, s.iter)
  IN  IF s.ended \/ iter.node = l THEN [s EXCEPT !.ended = TRUE]
      ELSE [s EXCEPT !.iter = iter, !.met = IF i >= uIndex THEN Append(@, iter.node) ELSE @]

(* The entries whose objects Scan pushes, and the index it returns.        *)
ScanOf(h, l, n, uIndex, uCount) ==
  LET done == uIndex + uCount
      s[k \in 0 .. done] ==
        IF k = 0 THEN [iter |-> dmbListInitIter(h, l, FALSE), met |-> <<>>, ended |-> FALSE]
        ELSE ScanTurn(s[k - 1], k - 1, h, l, uIndex)
  IN  IF uIndex >= n THEN [met |-> <<>>, index |-> 0]
      ELSE [met |-> s[done].met, index |-> IF s[done].ended \/ done >= n - 1 THEN 0 ELSE done]

-----------------------------------------------------------------------------
(* The items of work.                                                      *)

Item(act, l, atBack, e, o) == [act |-> act, l |-> l, atBack |-> atBack, e |-> e, o |-> o]

PushItem(l, atBack, o) == Item("check", l, atBack, NULL, o)
CreateItem             == Item("check", NULL, TRUE, NULL, NULL)
DestroyItem(o)         == Item("destroy", NULL, TRUE, NULL, o)

(* destroyEntry for each of the entries.                                   *)
destroyEntry(es) ==
  [k \in 1 .. 2 * Len(es) |->
     Item(IF k % 2 = 1 THEN "release" ELSE "free", NULL, TRUE, es[(k + 1) \div 2], NULL)]

Pushes(l, es) == [k \in 1 .. Len(es) |-> PushItem(l, TRUE, obj[es[k]])]

Call(t, items) == todo[t] = <<>> /\ todo' = [todo EXCEPT ![t] = items]

(* The current item is done, but for the items it turns into.              *)
Doing(t, act) == todo[t] # <<>> /\ Head(todo[t]).act = act
Done(t, items) == todo' = [todo EXCEPT ![t] = items \o Tail(@)]
Failed(t) == todo' = [todo EXCEPT ![t] = <<>>]

-----------------------------------------------------------------------------
(* The calls on objects.                                                   *)

Walk(h, l, n, forward) ==
  LET step == IF forward THEN h.next ELSE h.prev
      f[k \in 0 .. n] == IF k = 0 THEN l
                         ELSE IF f[k - 1] = NULL THEN NULL ELSE step[f[k - 1]]
  IN  [k \in 1 .. n |-> f[k]]

Order(l)   == Walk(heap, l, len[l], TRUE)
Linked(l)  == LET s == Order(l) IN {s[k] : k \in DOMAIN s}
Content(l) == LET s == Order(l) IN [k \in DOMAIN s |-> obj[s[k]]]

dmbCreateIntObject(t) == Call(t, <<CreateItem>>) /\ UNCHANGED <<listVars, refVars, free, used>>

(* A thread retains what it holds, or what an iterator finds in its lists  *)
(* (dmbDLListGetRef), for itself or for a thread it hands the object to.   *)
dmbObjectRetain(t, u, o) ==
  /\ \/ held[t][o] > 0
     \/ \E l \in List : Owner[l] = t /\ \E e \in Linked(l) : obj[e] = o
  /\ held[u][o] < MaxHeld
  /\ ref' = [ref EXCEPT ![o] = @ + 1]
  /\ held' = [held EXCEPT ![u][o] = @ + 1]
  /\ Call(t, <<>>)
  /\ UNCHANGED <<listVars, obj, live, free, used>>

(* Fault: the object is destroyed while one reference is left.              *)
DestructionEarly(o) == IF ref[o] = 2 THEN <<DestroyItem(o)>> ELSE <<>>

(* Who brings the count to zero destroys the object.                       *)
Release(o) == ref' = [ref EXCEPT ![o] = @ - 1]
Destruction(o) == IF ref[o] = 1 THEN <<DestroyItem(o)>> ELSE <<>>

dmbObjectRelease(t, o) ==
  /\ held[t][o] > 0
  /\ held' = [held EXCEPT ![t][o] = @ - 1]
  /\ Release(o) /\ Call(t, Destruction(o))
  /\ UNCHANGED <<listVars, obj, live, free, used>>

-----------------------------------------------------------------------------
(* The calls on a list l of the thread.                                    *)

dmbDLListPush(t, l, atBack, o) ==
  /\ held[t][o] > 0
  /\ Call(t, <<PushItem(l, atBack, o)>>)
  /\ UNCHANGED <<listVars, refVars, free, used>>

(* Fault: the object returned is the one at the other end.                 *)
PopSwapped(t, l, atBack) ==
  LET e == IF atBack THEN LastNode(heap, l) ELSE FirstNode(heap, l)
      other == IF atBack THEN FirstNode(heap, l) ELSE LastNode(heap, l)
  IN  /\ ~dmbListIsEmpty(heap, l) /\ held[t][obj[other]] < MaxHeld
      /\ heap' = IF atBack THEN dmbListPopBack(heap, l) ELSE dmbListPopFront(heap, l)
      /\ len' = [len EXCEPT ![l] = @ - 1]
      /\ held' = [held EXCEPT ![t][obj[other]] = @ + 1]
      /\ obj' = [obj EXCEPT ![e] = NULL]
      /\ Call(t, <<Item("free", NULL, TRUE, e, NULL)>>)
      /\ UNCHANGED <<live, ref, free, used>>

(* The reference of the entry becomes one of the caller.                   *)
dmbDLListPop(t, l, atBack) ==
  LET e == IF atBack THEN LastNode(heap, l) ELSE FirstNode(heap, l)
  IN  /\ ~dmbListIsEmpty(heap, l) /\ held[t][obj[e]] < MaxHeld
      /\ heap' = IF atBack THEN dmbListPopBack(heap, l) ELSE dmbListPopFront(heap, l)
      /\ len' = [len EXCEPT ![l] = @ - 1]
      /\ held' = [held EXCEPT ![t][obj[e]] = @ + 1]
      /\ obj' = [obj EXCEPT ![e] = NULL]
      /\ Call(t, <<Item("free", NULL, TRUE, e, NULL)>>)
      /\ UNCHANGED <<live, ref, free, used>>

(* Fault: the nodes are removed without the release of their entries.      *)
RemoveRangeKeeping(t, l, uStart, uEnd) ==
  LET r == Loop(heap, l, len[l], uStart, uEnd, TRUE)
  IN  /\ uStart <= uEnd /\ uEnd < len[l]
      /\ heap' = r.h
      /\ len' = [len EXCEPT ![l] = @ - Len(r.met)]
      /\ Call(t, <<>>)
      /\ UNCHANGED <<refVars, free, used>>

(* Other arguments are an error, and nothing is done.                      *)
dmbDLListRemoveRange(t, l, uStart, uEnd) ==
  LET r == Loop(heap, l, len[l], uStart, uEnd, TRUE)
  IN  /\ uStart <= uEnd /\ uEnd < len[l]
      /\ heap' = r.h
      /\ len' = [len EXCEPT ![l] = @ - Len(r.met)]
      /\ Call(t, destroyEntry(r.met))
      /\ UNCHANGED <<refVars, free, used>>

(* The list after as many turns of PopFront as it has entries.             *)
Emptied(h, l, n) ==
  LET popped[k \in 0 .. n] == IF k = 0 THEN h ELSE dmbListPopFront(popped[k - 1], l)
  IN  popped[n]

(* Fault: the length is not reset.                                         *)
ClearKeepingLen(t, l) ==
  /\ heap' = Emptied(heap, l, len[l])
  /\ len' = len
  /\ Call(t, destroyEntry(Order(l)))
  /\ UNCHANGED <<refVars, free, used>>

(* The entries are removed and destroyed one after the other.              *)
dmbDLListClear(t, l) ==
  /\ heap' = Emptied(heap, l, len[l])
  /\ len' = [len EXCEPT ![l] = 0]
  /\ Call(t, destroyEntry(Order(l)))
  /\ UNCHANGED <<refVars, free, used>>

dmbDLListGetRange(t, l, uStart, uEnd, dest) ==
  /\ Call(t, Pushes(dest, RangeOf(heap, l, len[l], uStart, uEnd)))
  /\ UNCHANGED <<listVars, refVars, free, used>>

dmbDLListScan(t, l, uIndex, uCount, dest) ==
  /\ Call(t, Pushes(dest, ScanOf(heap, l, len[l], uIndex, uCount).met))
  /\ UNCHANGED <<listVars, refVars, free, used>>

-----------------------------------------------------------------------------
(* The work.                                                               *)

(* The first half of dmbMalloc.  A push that fails ends the call.          *)
CheckCurrentMemoryUsage(t) ==
  LET item == Head(todo[t])
  IN  /\ Doing(t, "check")
      /\ IF used < MaxMemory THEN Done(t, <<[item EXCEPT !.act = "malloc"]>>)
         ELSE Failed(t)
      /\ UNCHANGED <<listVars, refVars, free, used>>

(* The other half for a new object, which the caller then holds ...        *)
MallocObject(t, o) ==
  /\ Doing(t, "malloc") /\ Head(todo[t]).o = NULL /\ ~live[o]
  /\ used' = used + 1
  /\ live' = [live EXCEPT ![o] = TRUE]
  /\ ref' = [ref EXCEPT ![o] = 1]
  /\ held' = [held EXCEPT ![t][o] = 1]
  /\ Done(t, <<>>)
  /\ UNCHANGED <<listVars, obj, free>>

(* ... and for an entry.                                                   *)
MallocEntry(t, e) ==
  LET item == Head(todo[t])
  IN  /\ Doing(t, "malloc") /\ item.o # NULL /\ e \in free
      /\ used' = used + 1
      /\ free' = free \ {e}
      /\ Done(t, <<[item EXCEPT !.act = "link", !.e = e]>>)
      /\ UNCHANGED <<listVars, refVars>>

(* malloc may fail at any time.                                            *)
MallocFails(t) ==
  /\ Doing(t, "malloc") /\ Failed(t)
  /\ UNCHANGED <<listVars, refVars, free, used>>

(* The rest of a push, after the allocation of its entry.                  *)
Link(t) ==
  LET item == Head(todo[t])
  IN  /\ Doing(t, "link")
      /\ ref' = [ref EXCEPT ![item.o] = @ + 1]
      /\ obj' = [obj EXCEPT ![item.e] = item.o]
      /\ heap' = IF item.atBack THEN dmbListPushBack(heap, item.l, item.e)
                 ELSE dmbListPushFront(heap, item.l, item.e)
      /\ len' = [len EXCEPT ![item.l] = @ + 1]
      /\ Done(t, <<>>)
      /\ UNCHANGED <<live, held, free, used>>

ReleaseEntry(t) ==
  LET e == Head(todo[t]).e
  IN  /\ Doing(t, "release")
      /\ obj' = [obj EXCEPT ![e] = NULL]
      /\ Release(obj[e]) /\ Done(t, Destruction(obj[e]))
      /\ UNCHANGED <<listVars, live, held, free, used>>

(* dmbFree of an entry, whose pointers are of no use then.                 *)
FreeEntry(t) ==
  LET e == Head(todo[t]).e
  IN  /\ Doing(t, "free")
      /\ used' = used - 1
      /\ free' = free \cup {e}
      /\ heap' = dmbNodeInit(heap, e)
      /\ Done(t, <<>>)
      /\ UNCHANGED <<len, refVars>>

dmbDestroyIntObject(t) ==
  /\ Doing(t, "destroy")
  /\ used' = used - 1
  /\ live' = [live EXCEPT ![Head(todo[t]).o] = FALSE]
  /\ Done(t, <<>>)
  /\ UNCHANGED <<listVars, obj, ref, held, free>>

-----------------------------------------------------------------------------

Step(t) ==
  \/ dmbCreateIntObject(t)
  \/ \E o \in Obj : \/ dmbObjectRelease(t, o)
                    \/ \E u \in Thread : dmbObjectRetain(t, u, o)
  \/ \E l \in {m \in List : Owner[m] = t} :
       \/ \E atBack \in BOOLEAN : \/ \E o \in Obj : dmbDLListPush(t, l, atBack, o)
                                  \/ dmbDLListPop(t, l, atBack)
       \/ \E i, j \in 0 .. len[l] :
            \/ dmbDLListRemoveRange(t, l, i, j)
            \/ \E dest \in {m \in List : Owner[m] = t} \ {l} :
                 dmbDLListGetRange(t, l, i, j, dest) \/ dmbDLListScan(t, l, i, j, dest)
       \/ dmbDLListClear(t, l)
  \/ CheckCurrentMemoryUsage(t)
  \/ \E o \in Obj : MallocObject(t, o)
  \/ \E e \in Entry : MallocEntry(t, e)
  \/ MallocFails(t)
  \/ Link(t) \/ ReleaseEntry(t) \/ FreeEntry(t) \/ dmbDestroyIntObject(t)

Next == \E t \in Thread : Step(t)

Spec == Init /\ [][Next]_vars

-----------------------------------------------------------------------------
(* Properties.                                                             *)

(* The list read backwards, the list read forwards and its length agree,   *)
(* both readings end at the head, and no entry is in two lists, in a list  *)
(* and free, or about to be freed while it is in a list: what the callers  *)
(* of dmbListRemove and of the iterators count on.                         *)
ListsAgree ==
  /\ \A l \in List :
       LET n == len[l]
           there == Walk(heap, l, n + 1, TRUE)
           back == Walk(heap, l, n + 1, FALSE)
       IN  /\ there[n + 1] = l /\ back[n + 1] = l
           /\ \A k \in 1 .. n : /\ there[k] = back[n + 1 - k]
                                /\ there[k] \in Entry \ free
                                /\ obj[there[k]] # NULL
  /\ \A l \in List : Cardinality(Linked(l)) = len[l]
  /\ \A l, m \in List : l # m => Linked(l) \cap Linked(m) = {}
  /\ \A t \in Thread, l \in List : \A i \in 1 .. Len(todo[t]) : todo[t][i].e \notin Linked(l)

(* A count is the number of references there are: those of the threads and *)
(* those of the entries, in a list or waiting to be destroyed.  While      *)
(* there is one the object is not destroyed, and when the last is gone     *)
(* exactly one thread destroys it: dmbObjectRelease tests the value that   *)
(* its own decrement returned.                                             *)
ReferencesCounted ==
  \A o \in Obj :
    LET destroyers == {t \in Thread : \E k \in 1 .. Len(todo[t]) :
                                        todo[t][k].act = "destroy" /\ todo[t][k].o = o}
    IN  /\ ref[o] = Cardinality({e \in Entry : obj[e] = o})
                    + Sets!MapThenSumSet(LAMBDA t : held[t][o], Thread)
        /\ IF ref[o] > 0 THEN live[o] /\ destroyers = {}
           ELSE Cardinality(destroyers) = IF live[o] THEN 1 ELSE 0

(* g_used_memory is the memory in use, and no entry is lost: one that is   *)
(* in no list is one that a call will link or free.                        *)
NothingLeaks ==
  LET pending == UNION {{todo[t][k].e : k \in {i \in 1 .. Len(todo[t]) :
                                                 todo[t][i].act \in {"link", "free"}}} :
                        t \in Thread}
      linked == UNION {Linked(l) : l \in List}
  IN  /\ used = Cardinality(Entry \ free) + Cardinality({o \in Obj : live[o]})
      /\ Entry \ free = pending \cup linked

(* GetRange copies the entries of the range, clipped to the list, each     *)
(* once: in the order of the list if it starts in its first half, and else *)
(* in the opposite order.                                                  *)
RangeCopied ==
  \A l \in List : \A j \in 0 .. len[l] + 1 : \A i \in 0 .. j :
    LET n == len[l]
        Clipped(u) == IF u < n THEN u ELSE n - 1
        range == SubSeq(Order(l), Clipped(i) + 1, Clipped(j) + 1)
    IN  n > 0 => RangeOf(heap, l, n, i, j) =
                   IF Clipped(i) > n \div 2 THEN Seqs!Reverse(range) ELSE range

(* Scans that go on from the index the last one returned, until it is 0,   *)
(* meet the entries in order, each once, and all of them but, when it is   *)
(* the only one left, the last.                                            *)
ScanProgress ==
  \A l \in List : \A count \in 1 .. len[l] + 1 :
    LET n == len[l]
        Scanned(i) == ScanOf(heap, l, n, i, count)
        \* everything met by the scans from index i on
        all[i \in 0 .. n] == Scanned(i).met
                             \o IF Scanned(i).index = 0 THEN <<>> ELSE all[Scanned(i).index]
    IN  n > 0 => /\ Seqs!IsPrefix(all[0], Order(l))
                 /\ Len(all[0]) = IF n > 1 /\ (n - 1) % count = 0 THEN n - 1 ELSE n

Promise == INSTANCE DmbDLListSpec WITH lists <- [l \in List |-> Content(l)], held <- held

(* The lists are the sequences that dmbdllist.h promises, a pop returns    *)
(* the object it removes, and no object is made anew while someone has a   *)
(* reference to it.                                                        *)
ListSpec == Promise!Spec

================================================================================
