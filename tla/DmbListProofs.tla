------------------------------ MODULE DmbListProofs ------------------------------
(***************************************************************************)
(* The pointers of dmblist.c, for heaps and lists of any size: insertion,  *)
(* removal and merge keep the lists circular, touch no other list, and     *)
(* leave each node where its index says.                                   *)
(***************************************************************************)
EXTENDS DmbListIndex, DmbInduction, SequenceTheorems, TLAPS

Heap(P) == [next : [P -> P \cup {NULL}], prev : [P -> P \cup {NULL}]]

(* The nodes of S, heads included, form circular lists: S is closed under  *)
(* both pointers, and each undoes the other.                               *)
Ringed(h, S) ==
  \A n \in S : /\ h.next[n] \in S /\ h.prev[n] \in S
               /\ h.prev[h.next[n]] = n /\ h.next[h.prev[n]] = n

(* The nodes of S have the same pointers on both heaps.                    *)
Same(g, h, S) == \A n \in S : g.next[n] = h.next[n] /\ g.prev[n] = h.prev[n]

-----------------------------------------------------------------------------
(* Insertion and removal.                                                  *)

(* insert links a node of no list behind any node of a list, and only the  *)
(* pointers of the three nodes change.                                     *)
LEMMA InsertLinked ==
  ASSUME NEW P, NEW h \in Heap(P), NEW S \in SUBSET P, Ringed(h, S),
         NEW before \in S, NEW new \in P \ S,
         NEW g, g = L!insert(h, new, before, h.next[before])
  PROVE  /\ g \in Heap(P) /\ Ringed(g, S \cup {new})
         /\ g.next[before] = new /\ g.next[new] = h.next[before]
         /\ Same(g, h, P \ (S \cup {new}))
<1> DEFINE after == h.next[before]
<1>1. /\ after \in S /\ before \in P /\ after \in P /\ new \in P /\ S \subseteq P
      /\ h.prev[after] = before /\ new # before /\ new # after
  BY DEF Ringed
<1>2. g.next \in [P -> P \cup {NULL}] /\ g.prev \in [P -> P \cup {NULL}] /\ g \in Heap(P)
  BY <1>1 DEF Heap, L!insert
<1>3. \A n \in P : /\ g.next[n] = IF n = new THEN after ELSE IF n = before THEN new ELSE h.next[n]
                   /\ g.prev[n] = IF n = new THEN before ELSE IF n = after THEN new ELSE h.prev[n]
  BY <1>1 DEF Heap, L!insert
<1>4. Ringed(g, S \cup {new})
  <2>. SUFFICES ASSUME NEW n \in S \cup {new}
                PROVE  /\ g.next[n] \in S \cup {new} /\ g.prev[n] \in S \cup {new}
                       /\ g.prev[g.next[n]] = n /\ g.next[g.prev[n]] = n
    BY DEF Ringed
  <2>1. CASE n = new
    BY <1>1, <1>3, <2>1
  <2>2. CASE n # new
    <3>1. /\ n \in S /\ h.next[n] \in S /\ h.prev[n] \in S
          /\ h.prev[h.next[n]] = n /\ h.next[h.prev[n]] = n
      BY <2>2 DEF Ringed
    <3>. QED  BY <1>1, <1>3, <2>2, <3>1
  <2>. QED  BY <2>1, <2>2
<1>. QED  BY <1>1, <1>2, <1>3, <1>4 DEF Same

(* dmbListRemove takes a node out of its list, wherever it is: the others  *)
(* stay linked, its neighbours to each other, and no other list changes.   *)
THEOREM RemoveLinked ==
  ASSUME NEW P, NEW h \in Heap(P), NEW S \in SUBSET P, Ringed(h, S), NEW node \in S,
         NEW g, g = L!dmbListRemove(h, node)
  PROVE  /\ g \in Heap(P) /\ Ringed(g, S \ {node})
         /\ g.next[h.prev[node]] = h.next[node] /\ Same(g, h, P \ S)
<1> DEFINE before == h.prev[node]
           after == h.next[node]
<1>1. /\ before \in S /\ after \in S /\ before \in P /\ after \in P /\ S \subseteq P
      /\ h.next[before] = node /\ h.prev[after] = node
  BY DEF Ringed
<1>2. [h.prev EXCEPT ![after] = before][node] = before
  BY <1>1 DEF Heap
<1>3. g = [next |-> [h.next EXCEPT ![before] = after], prev |-> [h.prev EXCEPT ![after] = before]]
  BY <1>2 DEF L!dmbListRemove
<1>4. g \in Heap(P)
  BY <1>1, <1>3 DEF Heap
<1>5. \A n \in P : /\ g.next[n] = IF n = before THEN after ELSE h.next[n]
                   /\ g.prev[n] = IF n = after THEN before ELSE h.prev[n]
  BY <1>1, <1>3 DEF Heap
<1>6. ASSUME NEW n \in S \ {node}
      PROVE  /\ g.next[n] \in S \ {node} /\ g.prev[n] \in S \ {node}
             /\ g.prev[g.next[n]] = n /\ g.next[g.prev[n]] = n
  <2>1. /\ n \in S /\ h.next[n] \in S /\ h.prev[n] \in S
        /\ h.prev[h.next[n]] = n /\ h.next[h.prev[n]] = n
    BY DEF Ringed
  <2>. QED  BY <1>1, <1>5, <2>1
<1>. QED  BY <1>1, <1>4, <1>5, <1>6 DEF Ringed, Same

(* An insertion is undone by dmbListRemove: every list is what it was.     *)
(* The node keeps pointers to its former neighbours.                       *)
THEOREM InsertRemove ==
  ASSUME NEW P, NEW h \in Heap(P), NEW S \in SUBSET P, Ringed(h, S),
         NEW before \in S, NEW new \in P \ S,
         NEW g, g = L!dmbListRemove(L!insert(h, new, before, h.next[before]), new)
  PROVE  Same(g, h, P \ {new}) /\ g.next[new] = h.next[before] /\ g.prev[new] = before
<1> DEFINE after == h.next[before]
           k == L!insert(h, new, before, after)
<1>1. /\ after \in S /\ before \in P /\ after \in P /\ new \in P
      /\ h.prev[after] = before /\ new # before /\ new # after
  BY DEF Ringed
<1>2. /\ k.next \in [P -> P \cup {NULL}] /\ k.prev \in [P -> P \cup {NULL}]
      /\ k.next[new] = after /\ k.prev[new] = before
      /\ \A n \in P \ {new} : /\ k.next[n] = IF n = before THEN new ELSE h.next[n]
                              /\ k.prev[n] = IF n = after THEN new ELSE h.prev[n]
  BY <1>1 DEF Heap, L!insert
<1> HIDE DEF k
<1>3. [k.prev EXCEPT ![k.next[new]] = k.prev[new]][new] = before
  BY <1>1, <1>2
<1>4. g = [next |-> [k.next EXCEPT ![before] = after], prev |-> [k.prev EXCEPT ![after] = before]]
  BY <1>2, <1>3 DEF L!dmbListRemove, k
<1>. QED  BY <1>1, <1>2, <1>4 DEF Same

-----------------------------------------------------------------------------
(* Merge.                                                                  *)

(* The pointers after dmbListMerge.  Each assignment is read by the ones   *)
(* behind it; for two lists that share no node none of them disturbs       *)
(* another.                                                                *)
LEMMA MergedPointers ==
  ASSUME NEW P, NEW h \in Heap(P), NEW D \in SUBSET P, NEW S \in SUBSET P,
         Ringed(h, D), Ringed(h, S), D \cap S = {},
         NEW dest \in D, NEW src \in S, h.next[src] # src,
         NEW g, g = Merged(h, dest, src)
  PROVE  /\ g \in Heap(P)
         /\ \A n \in P :
              /\ g.next[n] = IF n = src THEN src ELSE IF n = h.prev[dest] THEN h.next[src]
                             ELSE IF n = h.prev[src] THEN dest ELSE h.next[n]
              /\ g.prev[n] = IF n = src THEN src ELSE IF n = h.next[src] THEN h.prev[dest]
                             ELSE IF n = dest THEN h.prev[src] ELSE h.prev[n]
<1> DEFINE first == h.next[src]
           last == h.prev[src]
           tail == h.prev[dest]
           next1 == [h.next EXCEPT ![tail] = first]
           prev1 == [h.prev EXCEPT ![next1[src]] = tail]
           prev2 == [prev1 EXCEPT ![dest] = prev1[src]]
           next2 == [next1 EXCEPT ![prev2[src]] = dest]
<1>1. /\ first \in S /\ last \in S /\ tail \in D /\ dest \in P /\ src \in P
      /\ first \in P /\ last \in P /\ tail \in P
      /\ src # dest /\ src # tail /\ src # first /\ first # dest /\ last # tail
  BY DEF Ringed
<1>2. h.next \in [P -> P \cup {NULL}] /\ h.prev \in [P -> P \cup {NULL}]
  BY DEF Heap
<1>3. /\ next1 \in [P -> P \cup {NULL}] /\ next1[src] = first
      /\ \A n \in P : next1[n] = IF n = tail THEN first ELSE h.next[n]
  BY <1>1, <1>2
<1>4. /\ prev1 \in [P -> P \cup {NULL}] /\ prev1[src] = last
      /\ \A n \in P : prev1[n] = IF n = first THEN tail ELSE h.prev[n]
  BY <1>1, <1>2, <1>3
<1>5. /\ prev2 \in [P -> P \cup {NULL}] /\ prev2[src] = last
      /\ \A n \in P : prev2[n] = IF n = dest THEN last ELSE IF n = first THEN tail ELSE h.prev[n]
  BY <1>1, <1>4
<1>6. /\ next2 \in [P -> P \cup {NULL}]
      /\ \A n \in P : next2[n] = IF n = last THEN dest ELSE IF n = tail THEN first ELSE h.next[n]
  BY <1>1, <1>3, <1>5
<1>7. g = [next |-> [next2 EXCEPT ![src] = src], prev |-> [prev2 EXCEPT ![src] = src]]
  BY DEF Merged
<1> HIDE DEF next1, prev1, prev2, next2
<1>. QED  BY <1>1, <1>5, <1>6, <1>7 DEF Heap

(* dmbListMerge moves all nodes of a list that is not empty behind those   *)
(* of another: the one list is then linked through all of them, from the   *)
(* last of dest to the first of src and from the last of src to dest, the  *)
(* other one is empty, and no third list changes.                          *)
THEOREM MergeLinked ==
  ASSUME NEW P, NEW h \in Heap(P), NEW D \in SUBSET P, NEW S \in SUBSET P,
         Ringed(h, D), Ringed(h, S), D \cap S = {},
         NEW dest \in D, NEW src \in S, ~L!dmbListIsEmpty(h, src),
         NEW g, g = Merged(h, dest, src)
  PROVE  /\ g \in Heap(P) /\ Ringed(g, D \cup (S \ {src})) /\ L!dmbListIsEmpty(g, src)
         /\ g.next[h.prev[dest]] = h.next[src] /\ g.next[h.prev[src]] = dest
         /\ Same(g, h, P \ (D \cup S))
<1> DEFINE first == h.next[src]
           last == h.prev[src]
           tail == h.prev[dest]
           All == D \cup (S \ {src})
<1>1. h.next[src] # src
  BY DEF L!dmbListIsEmpty
<1>2. /\ first \in S /\ last \in S /\ tail \in D /\ dest \in P /\ src \in P
      /\ first \in P /\ last \in P /\ tail \in P
      /\ src # dest /\ src # tail /\ src # first /\ src # last
      /\ h.prev[first] = src /\ h.next[last] = src /\ h.next[tail] = dest
  BY <1>1 DEF Ringed
<1>3. /\ g \in Heap(P)
      /\ \A n \in P :
           /\ g.next[n] = IF n = src THEN src ELSE IF n = tail THEN first
                          ELSE IF n = last THEN dest ELSE h.next[n]
           /\ g.prev[n] = IF n = src THEN src ELSE IF n = first THEN tail
                          ELSE IF n = dest THEN last ELSE h.prev[n]
  BY <1>1, MergedPointers
<1>4. ASSUME NEW n \in All
      PROVE  /\ g.next[n] \in All /\ g.prev[n] \in All
             /\ g.prev[g.next[n]] = n /\ g.next[g.prev[n]] = n
  <2>1. CASE n \in D
    <3>1. /\ n \in P /\ n # src /\ n # first /\ n # last
          /\ h.next[n] \in D /\ h.prev[n] \in D /\ h.next[n] \in P /\ h.prev[n] \in P
          /\ h.prev[h.next[n]] = n /\ h.next[h.prev[n]] = n
      BY <1>2, <2>1 DEF Ringed
    <3>. QED  BY <1>2, <1>3, <3>1
  <2>2. CASE n \in S \ {src}
    <3>1. /\ n \in P /\ n # src /\ n # dest /\ n # tail
          /\ h.next[n] \in S /\ h.prev[n] \in S /\ h.next[n] \in P /\ h.prev[n] \in P
          /\ h.prev[h.next[n]] = n /\ h.next[h.prev[n]] = n
      BY <1>2, <2>2 DEF Ringed
    <3>. QED  BY <1>2, <1>3, <3>1
  <2>. QED  BY <2>1, <2>2
<1>5. Ringed(g, All)
  BY <1>4 DEF Ringed
<1>6. /\ L!dmbListIsEmpty(g, src) /\ g.next[tail] = first /\ g.next[last] = dest
      /\ Same(g, h, P \ (D \cup S))
  <2>1. last # tail
    BY <1>2
  <2>. QED  BY <1>2, <1>3, <2>1 DEF L!dmbListIsEmpty, Same
<1>. QED  BY <1>3, <1>5, <1>6

-----------------------------------------------------------------------------
(* The order of a list.  At(r, s, k) is the k-th node of the list with the *)
(* head r and the nodes s: the head again behind the last one.             *)
At(r, s, k) == IF k \in 1 .. Len(s) THEN s[k] ELSE r

Members(r, s) == {At(r, s, k) : k \in 0 .. Len(s)}
Distinct(r, s) == \A i, j \in 0 .. Len(s) : At(r, s, i) = At(r, s, j) => i = j

(* Both pointers run along the list.                                       *)
Chain(h, r, s) ==
  \A k \in 0 .. Len(s) : /\ h.next[At(r, s, k)] = At(r, s, k + 1)
                         /\ h.prev[At(r, s, k + 1)] = At(r, s, k)

LEMMA AtEnds ==
  ASSUME NEW N, NEW s \in Seq(N), NEW r
  PROVE  /\ Len(s) \in Nat /\ At(r, s, 0) = r /\ At(r, s, Len(s) + 1) = r
         /\ \A k \in 1 .. Len(s) : At(r, s, k) = s[k] /\ s[k] \in N
BY DEF At

LEMMA MembersAre ==
  ASSUME NEW N, NEW s \in Seq(N), NEW r
  PROVE  /\ Members(r, s) = {r} \cup {s[k] : k \in 1 .. Len(s)}
         /\ \A k \in 0 .. Len(s) + 1 : At(r, s, k) \in Members(r, s)
         /\ \A P : r \in P /\ N \subseteq P => Members(r, s) \subseteq P
<1>1. /\ Len(s) \in Nat /\ At(r, s, 0) = r /\ At(r, s, Len(s) + 1) = r
      /\ \A k \in 1 .. Len(s) : At(r, s, k) = s[k] /\ s[k] \in N
  BY DEF At
<1>2. \A k \in 0 .. Len(s) : k = 0 \/ k \in 1 .. Len(s)
  BY <1>1
<1>3. \A k \in 1 .. Len(s) : k \in 0 .. Len(s)
  BY <1>1
<1>4. 0 \in 0 .. Len(s)
  BY <1>1
<1>5. Members(r, s) = {r} \cup {s[k] : k \in 1 .. Len(s)}
  BY <1>1, <1>2, <1>3, <1>4 DEF Members
<1>6. \A k \in 0 .. Len(s) + 1 : k \in 0 .. Len(s) \/ k = Len(s) + 1
  BY <1>1
<1>7. \A k \in 0 .. Len(s) + 1 : At(r, s, k) \in Members(r, s)
  BY <1>1, <1>4, <1>6 DEF Members
<1>. QED  BY <1>1, <1>5, <1>7

(* A list does not change with pointers of other nodes.                    *)
LEMMA ChainSame ==
  ASSUME NEW N, NEW s \in Seq(N), NEW r, NEW h, NEW g, NEW S,
         Chain(h, r, s), Same(g, h, S), Members(r, s) \subseteq S
  PROVE  Chain(g, r, s)
<1>1. Len(s) \in Nat /\ \A k \in 0 .. Len(s) + 1 : At(r, s, k) \in S
  BY AtEnds, MembersAre
<1>2. ASSUME NEW k \in 0 .. Len(s)
      PROVE  g.next[At(r, s, k)] = At(r, s, k + 1) /\ g.prev[At(r, s, k + 1)] = At(r, s, k)
  <2>1. At(r, s, k) \in S /\ At(r, s, k + 1) \in S
    BY <1>1
  <2>. QED  BY <2>1 DEF Chain, Same
<1>. QED  BY <1>2 DEF Chain

(* Inserted between the nodes k and k + 1.                                 *)
LEMMA Inserted ==
  ASSUME NEW N, NEW s \in Seq(N), NEW e \in N, NEW k \in 0 .. Len(s), NEW r
  PROVE  LET t == Seqs!InsertAt(s, k + 1, e)
         IN  /\ t \in Seq(N) /\ Len(t) = Len(s) + 1
             /\ \A i \in 0 .. Len(s) + 2 :
                  At(r, t, i) = IF i <= k THEN At(r, s, i) ELSE IF i = k + 1 THEN e
                                ELSE At(r, s, i - 1)
<1>. DEFINE t == Seqs!InsertAt(s, k + 1, e)
            a == SubSeq(s, 1, k)
            b == SubSeq(s, k + 1, Len(s))
<1>1. Len(s) \in Nat /\ k \in Nat /\ k <= Len(s) /\ (k + 1) - 1 = k
  OBVIOUS
<1>2. a \in Seq(N) /\ Len(a) = k /\ \A i \in 1 .. k : a[i] = s[i]
  BY <1>1
<1>3. b \in Seq(N) /\ Len(b) = Len(s) - k /\ \A i \in 1 .. Len(s) - k : b[i] = s[k + i]
  BY <1>1, SubSeqProperties
<1>4. t = a \o <<e>> \o b
  BY <1>1 DEF Seqs!InsertAt
<1>. HIDE DEF a, b, t
<1>5. PICK c \in Seq(N) : c = a \o <<e>>
  <2>1. <<e>> \in Seq(N)
    OBVIOUS
  <2>. QED  BY <1>2, <2>1, ConcatProperties
<1>6. Len(c) = k + 1 /\ \A i \in 1 .. k + 1 : c[i] = IF i <= k THEN s[i] ELSE e
  BY <1>1, <1>2, <1>5
<1>7. t \in Seq(N) /\ Len(t) = Len(s) + 1
  BY <1>1, <1>3, <1>4, <1>5, <1>6
<1>8. \A i \in 1 .. Len(s) + 1 : t[i] = IF i <= k + 1 THEN c[i] ELSE b[i - (k + 1)]
  BY <1>1, <1>3, <1>4, <1>5, <1>6
<1>9. \A i \in 1 .. Len(s) + 1 : t[i] = IF i <= k THEN s[i] ELSE IF i = k + 1 THEN e ELSE s[i - 1]
  <2>. SUFFICES ASSUME NEW i \in 1 .. Len(s) + 1
                PROVE  t[i] = IF i <= k THEN s[i] ELSE IF i = k + 1 THEN e ELSE s[i - 1]
    OBVIOUS
  <2>1. CASE i <= k + 1
    BY <1>1, <1>6, <1>8, <2>1
  <2>2. CASE ~(i <= k + 1)
    <3>1. i - (k + 1) \in 1 .. Len(s) - k /\ k + (i - (k + 1)) = i - 1
      BY <1>1, <2>2
    <3>. QED  BY <1>1, <1>3, <1>8, <2>2, <3>1, SMTT(40)
  <2>. QED  BY <2>1, <2>2
<1>10. ASSUME NEW i \in 0 .. Len(s) + 2
       PROVE  At(r, t, i) = IF i <= k THEN At(r, s, i) ELSE IF i = k + 1 THEN e
                            ELSE At(r, s, i - 1)
  BY <1>1, <1>7, <1>9 DEF At
<1>. QED  BY <1>7, <1>10 DEF t

(* insert puts a node of no list between two neighbours of a list.         *)
Inserting(g, h, P, N, r, s, k, new) ==
  LET t == Seqs!InsertAt(s, k + 1, new)
  IN  /\ g \in Heap(P) /\ Chain(g, r, t) /\ Distinct(r, t) /\ t \in Seq(N)
      /\ Members(r, t) = Members(r, s) \cup {new}
      /\ Same(g, h, P \ (Members(r, s) \cup {new}))

LEMMA InsertChain ==
  ASSUME NEW P, NEW h, h \in Heap(P), NEW N, N \subseteq P, NEW s, s \in Seq(N), NEW r, r \in P,
         Chain(h, r, s), Distinct(r, s),
         NEW new, new \in N, new \notin Members(r, s), NEW k, k \in 0 .. Len(s),
         NEW g, g = L!insert(h, new, At(r, s, k), At(r, s, k + 1))
  PROVE  Inserting(g, h, P, N, r, s, k, new)
<1>. DEFINE before == At(r, s, k)
            after == At(r, s, k + 1)
            n == Len(s)
<1>1. PICK t : t = Seqs!InsertAt(s, k + 1, new)
  OBVIOUS
<1>2. /\ t \in Seq(N) /\ Len(t) = n + 1
      /\ \A i \in 0 .. n + 2 : At(r, t, i) = IF i <= k THEN At(r, s, i) ELSE IF i = k + 1 THEN new
                                             ELSE At(r, s, i - 1)
  BY <1>1, Inserted
<1>3. /\ n \in Nat /\ k \in 0 .. n /\ k + 1 \in 0 .. n + 1 /\ At(r, s, n + 1) = r /\ At(r, s, 0) = r
      /\ \A i \in 0 .. n + 1 : At(r, s, i) \in Members(r, s)
      /\ Members(r, s) \subseteq P
  BY AtEnds, MembersAre
<1>4. before \in Members(r, s) /\ after \in Members(r, s) /\ before # new /\ after # new
  BY <1>3
<1>5. /\ g.next \in [P -> P \cup {NULL}] /\ g.prev \in [P -> P \cup {NULL}] /\ g \in Heap(P)
      /\ \A m \in P : g.next[m] = IF m = new THEN after ELSE IF m = before THEN new ELSE h.next[m]
      /\ \A m \in P : g.prev[m] = IF m = new THEN before ELSE IF m = after THEN new ELSE h.prev[m]
  <2>1. new \in P /\ before \in P /\ after \in P
    BY <1>3, <1>4
  <2>. HIDE DEF before, after
  <2>2. g = L!insert(h, new, before, after)
    BY DEF before, after
  <2>. QED  BY <1>4, <2>1, <2>2, SMTT(40) DEF Heap, L!insert
<1>6. \A i, j \in 0 .. n : At(r, s, i) = At(r, s, j) => i = j
  BY DEF Distinct
<1>7. \A i \in 0 .. n : h.next[At(r, s, i)] = At(r, s, i + 1) /\ h.prev[At(r, s, i + 1)] = At(r, s, i)
  BY DEF Chain
<1>8. \A i \in 0 .. n : At(r, s, i) = before => i = k
  BY <1>3, <1>6
<1>9. \A i \in 0 .. n : At(r, s, i + 1) = after => i = k
  <2>. SUFFICES ASSUME NEW i \in 0 .. n, At(r, s, i + 1) = after PROVE i = k
    OBVIOUS
  <2>1. h.prev[after] = At(r, s, i) /\ h.prev[after] = before
    BY <1>3, <1>7
  <2>. QED  BY <1>8, <2>1
<1>. HIDE DEF before, after
<1>10. ASSUME NEW i \in 0 .. n + 1
       PROVE  g.next[At(r, t, i)] = At(r, t, i + 1) /\ g.prev[At(r, t, i + 1)] = At(r, t, i)
  <2>1. CASE i < k
    <3>1. At(r, t, i) = At(r, s, i) /\ At(r, t, i + 1) = At(r, s, i + 1) /\ i \in 0 .. n /\ i # k
          /\ i + 1 \in 0 .. n + 1
      BY <1>2, <1>3, <2>1
    <3>2. /\ At(r, s, i) \in P /\ At(r, s, i + 1) \in P /\ At(r, s, i) # before
          /\ At(r, s, i + 1) # after /\ At(r, s, i) # new /\ At(r, s, i + 1) # new
      BY <1>3, <1>8, <1>9, <3>1
    <3>. QED  BY <1>5, <1>7, <3>1, <3>2
  <2>2. CASE i = k
    <3>1. At(r, t, i) = before /\ At(r, t, i + 1) = new
      BY <1>2, <1>3, <2>2 DEF before
    <3>. QED  BY <1>3, <1>4, <1>5, <3>1
  <2>3. CASE i = k + 1
    <3>1. At(r, t, i) = new /\ At(r, t, i + 1) = after
      BY <1>2, <1>3, <2>3 DEF after
    <3>. QED  BY <1>3, <1>4, <1>5, <3>1
  <2>4. CASE i > k + 1
    <3>1. PICK j \in 0 .. n : i = j + 1 /\ j # k /\ j > k
      <4>1. i - 1 \in 0 .. n /\ i = (i - 1) + 1 /\ i - 1 # k /\ i - 1 > k
        BY <1>3, <2>4
      <4>. QED  BY <4>1
    <3>2. At(r, t, i) = At(r, s, j) /\ At(r, t, i + 1) = At(r, s, j + 1)
      BY <1>2, <1>3, <3>1
    <3>3. /\ At(r, s, j) \in P /\ At(r, s, j + 1) \in P /\ At(r, s, j) # before
          /\ At(r, s, j + 1) # after /\ At(r, s, j) # new /\ At(r, s, j + 1) # new
      BY <1>3, <1>8, <1>9, <3>1
    <3>. QED  BY <1>5, <1>7, <3>2, <3>3
  <2>. QED  BY <1>3, <2>1, <2>2, <2>3, <2>4
<1>11. Chain(g, r, t)
  BY <1>2, <1>10 DEF Chain
<1>12. Distinct(r, t)
  <2>. SUFFICES ASSUME NEW i \in 0 .. n + 1, NEW j \in 0 .. n + 1, At(r, t, i) = At(r, t, j)
                PROVE  i = j
    BY <1>2 DEF Distinct
  <2>. DEFINE back(x) == IF x <= k THEN x ELSE x - 1
  <2>1. \A x \in 0 .. n + 1 : x # k + 1 => back(x) \in 0 .. n /\ At(r, t, x) = At(r, s, back(x))
    BY <1>2, <1>3
  <2>2. \A x \in 0 .. n + 1 : x # k + 1 => At(r, t, x) # new
    <3>. HIDE DEF back
    <3>. QED  BY <1>3, <2>1
  <2>3. At(r, t, k + 1) = new
    BY <1>2, <1>3
  <2>4. CASE i = k + 1 \/ j = k + 1
    BY <2>2, <2>3, <2>4
  <2>5. CASE i # k + 1 /\ j # k + 1
    <3>1. back(i) = back(j)
      <4>. HIDE DEF back
      <4>. QED  BY <1>6, <2>1, <2>5
    <3>. QED  BY <1>3, <2>5, <3>1
  <2>. QED  BY <2>4, <2>5
<1>13. Members(r, t) = Members(r, s) \cup {new}
  <2>1. ASSUME NEW i \in 0 .. n + 1 PROVE At(r, t, i) \in Members(r, s) \cup {new}
    <3>1. i \in 0 .. n + 1 /\ (i > k + 1 => i - 1 \in 0 .. n + 1)
      BY <1>3
    <3>2. At(r, t, i) = IF i <= k THEN At(r, s, i) ELSE IF i = k + 1 THEN new ELSE At(r, s, i - 1)
      BY <1>2, <1>3
    <3>. QED  BY <1>3, <3>1, <3>2
  <2>2. ASSUME NEW i \in 0 .. n PROVE \E j \in 0 .. n + 1 : At(r, s, i) = At(r, t, j)
    <3>1. CASE i <= k
      BY <1>2, <1>3, <3>1
    <3>2. CASE i > k
      <4>1. i + 1 \in 0 .. n + 1 /\ (i + 1) - 1 = i /\ ~(i + 1 <= k) /\ i + 1 # k + 1
        BY <1>3, <3>2
      <4>2. At(r, t, i + 1) = At(r, s, i)
        BY <1>2, <1>3, <4>1
      <4>. QED  BY <4>1, <4>2
    <3>. QED  BY <1>3, <3>1, <3>2
  <2>3. k + 1 \in 0 .. n + 1 /\ At(r, t, k + 1) = new
    BY <1>2, <1>3
  <2>. QED  BY <1>2, <2>1, <2>2, <2>3 DEF Members
<1>14. Same(g, h, P \ (Members(r, s) \cup {new}))
  BY <1>4, <1>5 DEF Same
<1>. QED  BY <1>1, <1>2, <1>5, <1>11, <1>12, <1>13, <1>14 DEF Inserting

(* Without the nodes behind the i-th up to the j-th.                       *)
Cut(s, i, j) == SubSeq(s, 1, i) \o SubSeq(s, j + 1, Len(s))

(* t is s without the d nodes behind the i-th.                             *)
IsCut(t, N, s, i, d) ==
  /\ t \in Seq(N) /\ Len(t) = Len(s) - d
  /\ \A r : \A x \in 0 .. Len(s) - d + 1 : At(r, t, x) = IF x <= i THEN At(r, s, x) ELSE At(r, s, x + d)

LEMMA CutOut ==
  ASSUME NEW N, NEW s, s \in Seq(N), NEW i, i \in Nat, NEW j, j \in Nat, i <= j, j <= Len(s),
         NEW d, d = j - i, NEW t, t = Cut(s, i, j)
  PROVE  IsCut(t, N, s, i, d)
<1>. DEFINE a == SubSeq(s, 1, i)
            b == SubSeq(s, j + 1, Len(s))
            n == Len(s)
<1>1. n \in Nat /\ i \in Nat /\ j \in Nat /\ i <= j /\ j <= n
  OBVIOUS
<1>2. a \in Seq(N) /\ Len(a) = i /\ \A x \in 1 .. i : a[x] = s[x]
  BY <1>1
<1>3. b \in Seq(N) /\ Len(b) = n - j /\ \A x \in 1 .. n - j : b[x] = s[j + x]
  BY <1>1, SubSeqProperties
<1>. HIDE DEF a, b
<1>4. t = a \o b
  BY DEF a, b, Cut
<1>5. d \in Nat /\ d = j - i
  BY <1>1
<1>6. t \in Seq(N) /\ Len(t) = n - d
  <2>1. t \in Seq(N) /\ Len(t) = Len(a) + Len(b)
    BY <1>2, <1>3, <1>4, ConcatProperties
  <2>. QED  BY <1>1, <1>2, <1>3, <1>5, <2>1
<1>7. \A x \in 1 .. n - d : t[x] = IF x <= i THEN a[x] ELSE b[x - i]
  <2>1. Len(a) + Len(b) = n - d /\ Len(a) = i
    BY <1>1, <1>2, <1>3, <1>5
  <2>2. \A x \in 1 .. Len(a) + Len(b) : t[x] = IF x <= Len(a) THEN a[x] ELSE b[x - Len(a)]
    BY <1>2, <1>3, <1>4, ConcatProperties
  <2>. QED  BY <2>1, <2>2
<1>8. ASSUME NEW x \in 1 .. n - d PROVE t[x] = IF x <= i THEN s[x] ELSE s[x + d]
  <2>1. CASE x <= i
    BY <1>1, <1>2, <1>7, <2>1
  <2>2. CASE ~(x <= i)
    <3>1. x - i \in 1 .. n - j /\ j + (x - i) = x + d
      BY <1>1, <1>5, <2>2
    <3>2. b[x - i] = s[x + d]
      BY <1>3, <3>1
    <3>. QED  BY <1>7, <2>2, <3>2
  <2>. QED  BY <2>1, <2>2
<1>9. ASSUME NEW r, NEW x \in 0 .. n - d + 1
      PROVE  At(r, t, x) = IF x <= i THEN At(r, s, x) ELSE At(r, s, x + d)
  <2>1. CASE x = 0
    BY <1>1, <1>5, <1>6, <2>1 DEF At
  <2>2. CASE x \in 1 .. n - d
    <3>1. At(r, t, x) = t[x] /\ x \in 1 .. n /\ At(r, s, x) = s[x]
      BY <1>1, <1>5, <1>6, <2>2 DEF At
    <3>2. ~(x <= i) => x + d \in 1 .. n /\ At(r, s, x + d) = s[x + d]
      BY <1>1, <1>5, <2>2 DEF At
    <3>. QED  BY <1>8, <2>2, <3>1, <3>2
  <2>3. CASE x = n - d + 1
    <3>1. At(r, t, x) = r /\ ~(x <= i) /\ x + d = n + 1
      BY <1>1, <1>5, <1>6, <2>3 DEF At
    <3>. QED  BY <1>1, <3>1 DEF At
  <2>. QED  BY <1>1, <1>5, <2>1, <2>2, <2>3
<1>. QED  BY <1>6, <1>9 DEF IsCut

(* Two nodes of a list linked to each other leave the nodes between them   *)
(* out, and no other list changes.                                         *)
Cutting(g, h, P, N, r, s, i, j) ==
  LET t == Cut(s, i, j)
  IN  /\ g \in Heap(P) /\ Chain(g, r, t) /\ Distinct(r, t) /\ t \in Seq(N)
      /\ Members(r, t) = Members(r, s) \ {At(r, s, x) : x \in i + 1 .. j}
      /\ Same(g, h, P \ Members(r, s))

LEMMA CutChain ==
  ASSUME NEW P, NEW h, h \in Heap(P), NEW N, N \subseteq P, NEW s, s \in Seq(N), NEW r, r \in P,
         Chain(h, r, s), Distinct(r, s), NEW i, i \in Nat, NEW j, j \in Nat, i <= j, j <= Len(s),
         NEW g, g = [next |-> [h.next EXCEPT ![At(r, s, i)] = At(r, s, j + 1)],
                     prev |-> [h.prev EXCEPT ![At(r, s, j + 1)] = At(r, s, i)]]
  PROVE  Cutting(g, h, P, N, r, s, i, j)
<1>. DEFINE before == At(r, s, i)
            after == At(r, s, j + 1)
            n == Len(s)
<1>1. PICK t : t = Cut(s, i, j)
  OBVIOUS
<1>2. PICK d \in Nat : d = j - i
  OBVIOUS
<1>3. /\ t \in Seq(N) /\ Len(t) = n - d
      /\ \A x \in 0 .. n - d + 1 : At(r, t, x) = IF x <= i THEN At(r, s, x) ELSE At(r, s, x + d)
  <2>1. IsCut(t, N, s, i, d)
    BY <1>1, <1>2, CutOut
  <2>. QED  BY <2>1 DEF IsCut
<1>4. /\ n \in Nat /\ i \in 0 .. n /\ j \in i .. n /\ j + 1 \in 0 .. n + 1 /\ d <= n
      /\ At(r, s, n + 1) = r /\ At(r, s, 0) = r
      /\ \A x \in 0 .. n + 1 : At(r, s, x) \in Members(r, s)
      /\ Members(r, s) \subseteq P
  BY <1>2, AtEnds, MembersAre
<1>5. before \in Members(r, s) /\ after \in Members(r, s)
  BY <1>4
<1>6. /\ g \in Heap(P)
      /\ \A m \in P : g.next[m] = IF m = before THEN after ELSE h.next[m]
      /\ \A m \in P : g.prev[m] = IF m = after THEN before ELSE h.prev[m]
  <2>1. before \in P /\ after \in P
    BY <1>4, <1>5
  <2>. HIDE DEF before, after
  <2>2. g = [next |-> [h.next EXCEPT ![before] = after], prev |-> [h.prev EXCEPT ![after] = before]]
    BY DEF before, after
  <2>3. h.next \in [P -> P \cup {NULL}] /\ h.prev \in [P -> P \cup {NULL}]
    BY DEF Heap
  <2>4. /\ g.next = [h.next EXCEPT ![before] = after] /\ g.prev = [h.prev EXCEPT ![after] = before]
        /\ g = [next |-> g.next, prev |-> g.prev]
    BY <2>2, SMTT(40)
  <2>5. g.next \in [P -> P \cup {NULL}] /\ g.prev \in [P -> P \cup {NULL}]
    <3>1. /\ [h.next EXCEPT ![before] = after] \in [P -> P \cup {NULL}]
          /\ [h.prev EXCEPT ![after] = before] \in [P -> P \cup {NULL}]
      BY <2>1, <2>3
    <3>. QED  BY <2>4, <3>1
  <2>. QED  BY <2>1, <2>3, <2>4, <2>5 DEF Heap
<1>7. \A x, y \in 0 .. n : At(r, s, x) = At(r, s, y) => x = y
  BY DEF Distinct
<1>8. \A x \in 0 .. n : h.next[At(r, s, x)] = At(r, s, x + 1) /\ h.prev[At(r, s, x + 1)] = At(r, s, x)
  BY DEF Chain
<1>9. \A x \in 0 .. n : At(r, s, x) = before => x = i
  BY <1>4, <1>7
<1>10. \A x \in 0 .. n : At(r, s, x + 1) = after => x = j
  <2>. SUFFICES ASSUME NEW x \in 0 .. n, At(r, s, x + 1) = after PROVE x = j
    OBVIOUS
  <2>1. h.prev[after] = At(r, s, x) /\ h.prev[after] = At(r, s, j) /\ j \in 0 .. n
    BY <1>4, <1>8
  <2>. QED  BY <1>7, <2>1
<1>. HIDE DEF before, after
<1>11. ASSUME NEW x \in 0 .. n - d
       PROVE  g.next[At(r, t, x)] = At(r, t, x + 1) /\ g.prev[At(r, t, x + 1)] = At(r, t, x)
  <2>1. CASE x < i
    <3>1. At(r, t, x) = At(r, s, x) /\ At(r, t, x + 1) = At(r, s, x + 1) /\ x \in 0 .. n /\ x # i
          /\ x # j /\ x + 1 \in 0 .. n + 1
      BY <1>2, <1>3, <1>4, <2>1
    <3>2. /\ At(r, s, x) \in P /\ At(r, s, x + 1) \in P /\ At(r, s, x) # before
          /\ At(r, s, x + 1) # after
      BY <1>4, <1>9, <1>10, <3>1
    <3>. QED  BY <1>6, <1>8, <3>1, <3>2
  <2>2. CASE x = i
    <3>1. At(r, t, x) = before /\ At(r, t, x + 1) = after
      BY <1>2, <1>3, <1>4, <2>2 DEF before, after
    <3>. QED  BY <1>4, <1>5, <1>6, <3>1
  <2>3. CASE x > i
    <3>1. PICK y \in 0 .. n : y = x + d /\ y # i /\ y # j /\ y + 1 \in 0 .. n + 1
      BY <1>2, <1>4, <2>3
    <3>2. At(r, t, x) = At(r, s, y) /\ At(r, t, x + 1) = At(r, s, y + 1)
      BY <1>2, <1>3, <1>4, <2>3, <3>1
    <3>3. /\ At(r, s, y) \in P /\ At(r, s, y + 1) \in P /\ At(r, s, y) # before
          /\ At(r, s, y + 1) # after
      BY <1>4, <1>9, <1>10, <3>1
    <3>. QED  BY <1>6, <1>8, <3>2, <3>3
  <2>. QED  BY <1>4, <2>1, <2>2, <2>3
<1>12. Chain(g, r, t)
  BY <1>3, <1>11 DEF Chain
<1>. DEFINE back(x) == IF x <= i THEN x ELSE x + d
<1>13. \A x \in 0 .. n - d : /\ back(x) \in 0 .. n /\ back(x) \notin i + 1 .. j
                             /\ At(r, t, x) = At(r, s, back(x))
  BY <1>2, <1>3, <1>4, SMTT(40)
<1>14. \A x \in 0 .. n : x \notin i + 1 .. j => \E y \in 0 .. n - d : x = back(y)
  <2>. SUFFICES ASSUME NEW x \in 0 .. n, x \notin i + 1 .. j PROVE \E y \in 0 .. n - d : x = back(y)
    OBVIOUS
  <2>1. CASE x <= i
    <3>1. x \in 0 .. n - d /\ x = back(x)
      BY <1>2, <1>4, <2>1
    <3>. QED  BY <3>1
  <2>2. CASE x > i
    <3>1. x - d \in 0 .. n - d /\ x = (x - d) + d /\ ~(x - d <= i)
      BY <1>2, <1>4, <2>2
    <3>. QED  BY <3>1
  <2>. QED  BY <1>4, <2>1, <2>2
<1>15. Distinct(r, t)
  <2>. SUFFICES ASSUME NEW x \in 0 .. n - d, NEW y \in 0 .. n - d, At(r, t, x) = At(r, t, y)
                PROVE  x = y
    BY <1>3 DEF Distinct
  <2>1. back(x) = back(y)
    <3>. HIDE DEF back
    <3>. QED  BY <1>7, <1>13
  <2>. QED  BY <1>2, <1>4, <2>1
<1>. HIDE DEF back
<1>16. Members(r, t) = {At(r, s, x) : x \in (0 .. n) \ (i + 1 .. j)}
  <2>1. Members(r, t) = {At(r, t, x) : x \in 0 .. n - d}
    BY <1>3 DEF Members
  <2>2. \A x \in 0 .. n - d : back(x) \in (0 .. n) \ (i + 1 .. j) /\ At(r, t, x) = At(r, s, back(x))
    BY <1>13
  <2>3. \A x \in (0 .. n) \ (i + 1 .. j) : \E y \in 0 .. n - d : At(r, s, x) = At(r, t, y)
    BY <1>13, <1>14
  <2>. QED  BY <2>1, <2>2, <2>3, SMTT(40)
<1>17. Members(r, t) = Members(r, s) \ {At(r, s, x) : x \in i + 1 .. j}
  <2>1. i + 1 .. j \subseteq 0 .. n
    BY <1>4
  <2>. QED  BY <1>7, <1>16, <2>1 DEF Members
<1>18. Same(g, h, P \ Members(r, s))
  BY <1>5, <1>6 DEF Same
<1>. QED  BY <1>1, <1>3, <1>6, <1>12, <1>15, <1>17, <1>18 DEF Cutting

(* A list is closed under both pointers, and each undoes the other.        *)
LEMMA ChainLinked ==
  ASSUME NEW N, NEW s \in Seq(N), NEW r, NEW h, Chain(h, r, s)
  PROVE  /\ Ringed(h, Members(r, s)) /\ r \in Members(r, s)
         /\ h.next[r] = At(r, s, 1) /\ h.prev[r] = At(r, s, Len(s))
<1>1. /\ Len(s) \in Nat /\ At(r, s, Len(s) + 1) = r /\ At(r, s, 0) = r
      /\ \A x \in 0 .. Len(s) + 1 : At(r, s, x) \in Members(r, s)
  BY AtEnds, MembersAre
<1>2. \A x \in 0 .. Len(s) : h.next[At(r, s, x)] = At(r, s, x + 1) /\ h.prev[At(r, s, x + 1)] = At(r, s, x)
  BY DEF Chain
<1>3. 0 \in 0 .. Len(s) /\ Len(s) \in 0 .. Len(s) /\ 0 + 1 = 1
  BY <1>1
<1>4. h.next[r] = At(r, s, 1) /\ h.prev[r] = At(r, s, Len(s)) /\ r \in Members(r, s)
  BY <1>1, <1>2, <1>3
<1>5. ASSUME NEW x \in 0 .. Len(s)
      PROVE  LET m == At(r, s, x)
             IN  /\ h.next[m] \in Members(r, s) /\ h.prev[m] \in Members(r, s)
                 /\ h.prev[h.next[m]] = m /\ h.next[h.prev[m]] = m
  <2>1. h.next[At(r, s, x)] = At(r, s, x + 1) /\ h.prev[At(r, s, x + 1)] = At(r, s, x)
        /\ x + 1 \in 0 .. Len(s) + 1
    BY <1>1, <1>2
  <2>2. PICK y \in 0 .. Len(s) : At(r, s, x) = At(r, s, y + 1)
    <3>1. CASE x = 0
      BY <1>1, <3>1
    <3>2. CASE x # 0
      <4>1. x - 1 \in 0 .. Len(s) /\ (x - 1) + 1 = x
        BY <1>1, <3>2
      <4>. QED  BY <4>1
    <3>. QED  BY <3>1, <3>2
  <2>3. h.prev[At(r, s, x)] = At(r, s, y) /\ h.next[At(r, s, y)] = At(r, s, x) /\ y \in 0 .. Len(s) + 1
    BY <1>1, <1>2, <2>2
  <2>. QED  BY <1>1, <2>1, <2>3
<1>6. Ringed(h, Members(r, s))
  BY <1>5 DEF Ringed, Members
<1>. QED  BY <1>4, <1>6

Joined(s, u, N) ==
  /\ s \o u \in Seq(N) /\ Len(s \o u) = Len(s) + Len(u)
  /\ \A d, r : \A x \in 0 .. Len(s) + Len(u) + 1 :
       At(d, s \o u, x) = IF x <= Len(s) THEN At(d, s, x)
                          ELSE IF x <= Len(s) + Len(u) THEN At(r, u, x - Len(s)) ELSE d

LEMMA Concatenated ==
  ASSUME NEW N, NEW s, s \in Seq(N), NEW u, u \in Seq(N)
  PROVE  Joined(s, u, N)
<1>1. PICK t \in Seq(N) : t = s \o u
  BY ConcatProperties
<1>2. PICK a, b \in Nat : a = Len(s) /\ b = Len(u)
  OBVIOUS
<1>3. Len(t) = a + b /\ \A x \in 1 .. a + b : t[x] = IF x <= a THEN s[x] ELSE u[x - a]
  BY <1>1, <1>2
<1>4. ASSUME NEW d, NEW r, NEW x \in 0 .. a + b + 1
      PROVE  At(d, t, x) = IF x <= a THEN At(d, s, x) ELSE IF x <= a + b THEN At(r, u, x - a) ELSE d
  <2>1. CASE x = 0 \/ x = a + b + 1
    BY <1>2, <1>3, <2>1 DEF At
  <2>2. CASE x \in 1 .. a + b
    <3>1. At(d, t, x) = t[x]
      BY <1>3, <2>2 DEF At
    <3>2. x <= a => At(d, s, x) = s[x]
      BY <1>2, <2>2 DEF At
    <3>3. ~(x <= a) => At(r, u, x - a) = u[x - a]
      <4>1. ~(x <= a) => x - a \in 1 .. b
        BY <1>2, <2>2
      <4>. QED  BY <1>2, <4>1 DEF At
    <3>. QED  BY <1>3, <2>2, <3>1, <3>2, <3>3
  <2>3. x \in 1 .. a + b \/ x = 0 \/ x = a + b + 1
    BY <1>2
  <2>. QED  BY <2>1, <2>2, <2>3
<1>. QED  BY <1>1, <1>2, <1>3, <1>4 DEF Joined

(* dmbListMerge puts the one list behind the other.                        *)
Merging(g, h, P, N, dest, src, s, u) ==
  /\ g \in Heap(P) /\ Chain(g, dest, s \o u) /\ Distinct(dest, s \o u)
  /\ s \o u \in Seq(N) /\ Chain(g, src, <<>>)
  /\ Members(dest, s \o u) = Members(dest, s) \cup (Members(src, u) \ {src})
  /\ Same(g, h, P \ (Members(dest, s) \cup Members(src, u)))

LEMMA MergeChain ==
  ASSUME NEW P, NEW h, h \in Heap(P), NEW N, N \subseteq P, NEW s, s \in Seq(N), NEW u, u \in Seq(N),
         NEW dest, dest \in P, NEW src, src \in P, u # <<>>,
         Chain(h, dest, s), Distinct(dest, s), Chain(h, src, u), Distinct(src, u),
         Members(dest, s) \cap Members(src, u) = {},
         NEW g, g = Merged(h, dest, src)
  PROVE  Merging(g, h, P, N, dest, src, s, u)
<1>1. PICK D, S : D = Members(dest, s) /\ S = Members(src, u)
  OBVIOUS
<1>2. PICK a, b \in Nat : a = Len(s) /\ b = Len(u)
  OBVIOUS
<1>3. b > 0
  BY <1>2, EmptySeq
<1>4. PICK t \in Seq(N) : t = s \o u
  BY ConcatProperties
<1>5. /\ Len(t) = a + b
      /\ \A x \in 0 .. a + b + 1 :
           At(dest, t, x) = IF x <= a THEN At(dest, s, x) ELSE IF x <= a + b THEN At(src, u, x - a)
                            ELSE dest
  <2>1. Joined(s, u, N)
    BY Concatenated
  <2>. QED  BY <1>2, <1>4, <2>1 DEF Joined
<1>6. /\ At(dest, s, 0) = dest /\ At(dest, s, a + 1) = dest
      /\ At(src, u, 0) = src /\ At(src, u, b + 1) = src
  BY <1>2, AtEnds
<1>7. /\ \A x \in 0 .. a + 1 : At(dest, s, x) \in D
      /\ \A x \in 0 .. b + 1 : At(src, u, x) \in S
      /\ D \subseteq P /\ S \subseteq P
  BY <1>1, <1>2, MembersAre
<1>8. PICK first, last, tail : first = At(src, u, 1) /\ last = At(src, u, b) /\ tail = At(dest, s, a)
  OBVIOUS
<1>9. /\ Ringed(h, D) /\ dest \in D /\ h.next[dest] = At(dest, s, 1) /\ h.prev[dest] = tail
      /\ Ringed(h, S) /\ src \in S /\ h.next[src] = first /\ h.prev[src] = last
  BY <1>1, <1>2, <1>8, ChainLinked
<1>10. /\ \A x, y \in 0 .. a : At(dest, s, x) = At(dest, s, y) => x = y
       /\ \A x, y \in 0 .. b : At(src, u, x) = At(src, u, y) => x = y
  BY <1>2 DEF Distinct
<1>11. /\ \A x \in 0 .. a : /\ h.next[At(dest, s, x)] = At(dest, s, x + 1)
                            /\ h.prev[At(dest, s, x + 1)] = At(dest, s, x)
       /\ \A x \in 0 .. b : /\ h.next[At(src, u, x)] = At(src, u, x + 1)
                            /\ h.prev[At(src, u, x + 1)] = At(src, u, x)
  BY <1>2 DEF Chain
<1>12. /\ tail \in D /\ first \in S /\ last \in S /\ D \cap S = {}
       /\ first # src /\ last # src
  <2>1. 1 \in 0 .. b /\ b \in 0 .. b /\ 0 \in 0 .. b /\ 1 \in 0 .. b + 1 /\ b \in 0 .. b + 1
        /\ a \in 0 .. a + 1
    BY <1>2, <1>3
  <2>2. first # src /\ last # src
    BY <1>3, <1>6, <1>8, <1>10, <2>1
  <2>. QED  BY <1>1, <1>7, <1>8, <2>1, <2>2
<1>13. /\ g \in Heap(P)
       /\ \A n \in P : g.next[n] = IF n = src THEN src ELSE IF n = tail THEN first
                                   ELSE IF n = last THEN dest ELSE h.next[n]
       /\ \A n \in P : g.prev[n] = IF n = src THEN src ELSE IF n = first THEN tail
                                   ELSE IF n = dest THEN last ELSE h.prev[n]
  <2>1. D \in SUBSET P /\ S \in SUBSET P /\ h.next[src] # src
    BY <1>7, <1>9, <1>12
  <2>2. /\ g \in Heap(P)
        /\ \A n \in P :
              /\ g.next[n] = IF n = src THEN src ELSE IF n = h.prev[dest] THEN h.next[src]
                             ELSE IF n = h.prev[src] THEN dest ELSE h.next[n]
              /\ g.prev[n] = IF n = src THEN src ELSE IF n = h.next[src] THEN h.prev[dest]
                             ELSE IF n = dest THEN h.prev[src] ELSE h.prev[n]
    BY <1>9, <1>12, <2>1, MergedPointers
  <2>. QED  BY <1>9, <2>2
<1>14. ASSUME NEW x \in 0 .. a + b
       PROVE  g.next[At(dest, t, x)] = At(dest, t, x + 1) /\ g.prev[At(dest, t, x + 1)] = At(dest, t, x)
  <2>1. CASE x < a
    <3>1. /\ At(dest, t, x) = At(dest, s, x) /\ At(dest, t, x + 1) = At(dest, s, x + 1)
          /\ x \in 0 .. a /\ x + 1 \in 0 .. a /\ x # a /\ x + 1 # 0 /\ a \in 0 .. a /\ 0 \in 0 .. a
          /\ x \in 0 .. a + 1 /\ x + 1 \in 0 .. a + 1
      BY <1>2, <1>5, <2>1
    <3>2. At(dest, s, x) # tail /\ At(dest, s, x + 1) # dest
      BY <1>6, <1>8, <1>10, <3>1
    <3>3. At(dest, s, x) \in D /\ At(dest, s, x + 1) \in D
      BY <1>7, <3>1
    <3>4. h.next[At(dest, s, x)] = At(dest, s, x + 1) /\ h.prev[At(dest, s, x + 1)] = At(dest, s, x)
      BY <1>11, <3>1
    <3>. QED  BY <1>7, <1>9, <1>12, <1>13, <3>1, <3>2, <3>3, <3>4
  <2>2. CASE x = a
    <3>1. At(dest, t, x) = tail /\ At(dest, t, x + 1) = first
      BY <1>2, <1>3, <1>5, <1>8, <2>2, SMTT(40)
    <3>. QED  BY <1>7, <1>9, <1>12, <1>13, <3>1
  <2>3. CASE a < x /\ x < a + b
    <3>1. PICK y \in Nat : y = x - a /\ y < b /\ y > 0
      <4>1. x - a \in Nat /\ x - a < b /\ x - a > 0
        BY <1>2, <2>3
      <4>. QED  BY <4>1
    <3>2. At(dest, t, x) = At(src, u, y) /\ At(dest, t, x + 1) = At(src, u, y + 1)
      <4>1. /\ x \in 0 .. a + b + 1 /\ ~(x <= a) /\ x <= a + b
            /\ x + 1 \in 0 .. a + b + 1 /\ ~(x + 1 <= a) /\ x + 1 <= a + b
            /\ (x + 1) - a = y + 1
        BY <1>2, <2>3, <3>1
      <4>. QED  BY <1>5, <3>1, <4>1
    <3>3. /\ y \in 0 .. b /\ y + 1 \in 0 .. b /\ y # b /\ y + 1 # 1 /\ y # 0 /\ y + 1 # 0
          /\ b \in 0 .. b /\ 0 \in 0 .. b /\ 1 \in 0 .. b /\ y \in 0 .. b + 1 /\ y + 1 \in 0 .. b + 1
      BY <1>2, <3>1
    <3>4. /\ At(src, u, y) # last /\ At(src, u, y + 1) # first
          /\ At(src, u, y) # src /\ At(src, u, y + 1) # src
      BY <1>6, <1>8, <1>10, <3>3
    <3>5. At(src, u, y) \in S /\ At(src, u, y + 1) \in S
      BY <1>7, <3>3
    <3>6. h.next[At(src, u, y)] = At(src, u, y + 1) /\ h.prev[At(src, u, y + 1)] = At(src, u, y)
      BY <1>11, <3>3
    <3>. QED  BY <1>7, <1>9, <1>12, <1>13, <3>2, <3>4, <3>5, <3>6
  <2>4. CASE x = a + b
    <3>1. At(dest, t, x) = last /\ At(dest, t, x + 1) = dest
      <4>1. /\ x \in 0 .. a + b + 1 /\ ~(x <= a) /\ x <= a + b /\ x - a = b
            /\ x + 1 \in 0 .. a + b + 1 /\ ~(x + 1 <= a) /\ ~(x + 1 <= a + b)
        BY <1>2, <1>3, <2>4
      <4>. QED  BY <1>5, <1>8, <4>1
    <3>. QED  BY <1>7, <1>9, <1>12, <1>13, <3>1
  <2>. QED  BY <1>2, <2>1, <2>2, <2>3, <2>4, SMTT(40)
<1>15. Chain(g, dest, t)
  BY <1>5, <1>14 DEF Chain
<1>16. Chain(g, src, <<>>)
  <2>1. g.next[src] = src /\ g.prev[src] = src
    BY <1>13
  <2>2. \A x : At(src, <<>>, x) = src
    BY DEF At
  <2>. QED  BY <2>1, <2>2 DEF Chain
<1>17. ASSUME NEW x \in 0 .. a + b
       PROVE  \/ x \in 0 .. a /\ At(dest, t, x) = At(dest, s, x) /\ At(dest, t, x) \in D
              \/ /\ x - a \in 1 .. b /\ At(dest, t, x) = At(src, u, x - a)
                 /\ At(dest, t, x) \in S \ {src}
  <2>1. CASE x <= a
    <3>1. x \in 0 .. a /\ x \in 0 .. a + 1 /\ At(dest, t, x) = At(dest, s, x)
      BY <1>2, <1>5, <2>1
    <3>. QED  BY <1>7, <3>1
  <2>2. CASE ~(x <= a)
    <3>1. x - a \in 1 .. b /\ x - a \in 0 .. b /\ 0 \in 0 .. b /\ x - a # 0 /\ x - a \in 0 .. b + 1
          /\ At(dest, t, x) = At(src, u, x - a)
      BY <1>2, <1>5, <2>2
    <3>2. At(src, u, x - a) # src
      BY <1>6, <1>10, <3>1
    <3>. QED  BY <1>7, <3>1, <3>2
  <2>. QED  BY <2>1, <2>2
<1>18. Distinct(dest, t)
  <2>. SUFFICES ASSUME NEW x \in 0 .. a + b, NEW y \in 0 .. a + b, At(dest, t, x) = At(dest, t, y)
                PROVE  x = y
    BY <1>5 DEF Distinct
  <2>1. CASE x \in 0 .. a /\ y \in 0 .. a /\ At(dest, t, x) = At(dest, s, x)
             /\ At(dest, t, y) = At(dest, s, y)
    BY <1>10, <2>1
  <2>2. CASE /\ x - a \in 1 .. b /\ At(dest, t, x) = At(src, u, x - a)
             /\ y - a \in 1 .. b /\ At(dest, t, y) = At(src, u, y - a)
    <3>1. x - a \in 0 .. b /\ y - a \in 0 .. b
      BY <1>2, <2>2
    <3>2. x - a = y - a
      BY <1>10, <2>2, <3>1
    <3>. QED  BY <1>2, <3>2
  <2>. QED  BY <1>12, <1>17, <2>1, <2>2
<1>19. Members(dest, t) = D \cup (S \ {src})
  <2>1. \A x \in 0 .. a + b : At(dest, t, x) \in D \cup (S \ {src})
    BY <1>17
  <2>2. \A x \in 0 .. a : x \in 0 .. a + b /\ At(dest, t, x) = At(dest, s, x)
    BY <1>2, <1>5
  <2>3. \A x \in 1 .. b : a + x \in 0 .. a + b /\ At(dest, t, a + x) = At(src, u, x)
    <3>. SUFFICES ASSUME NEW x \in 1 .. b
                  PROVE  a + x \in 0 .. a + b /\ At(dest, t, a + x) = At(src, u, x)
      OBVIOUS
    <3>1. a + x \in 0 .. a + b + 1 /\ a + x \in 0 .. a + b /\ ~(a + x <= a) /\ a + x <= a + b
          /\ (a + x) - a = x
      BY <1>2
    <3>. QED  BY <1>5, <3>1
  <2>4. S \ {src} \subseteq {At(src, u, x) : x \in 1 .. b}
    <3>1. S = {At(src, u, x) : x \in 0 .. b}
      BY <1>1, <1>2 DEF Members
    <3>2. \A x \in 0 .. b : x = 0 \/ x \in 1 .. b
      BY <1>2
    <3>. QED  BY <1>6, <3>1, <3>2
  <2>5. D = {At(dest, s, x) : x \in 0 .. a} /\ Members(dest, t) = {At(dest, t, x) : x \in 0 .. a + b}
    BY <1>1, <1>2, <1>5 DEF Members
  <2>. QED  BY <2>1, <2>2, <2>3, <2>4, <2>5
<1>20. Same(g, h, P \ (D \cup S))
  BY <1>9, <1>12, <1>13 DEF Same
<1>. QED  BY <1>1, <1>4, <1>13, <1>15, <1>16, <1>18, <1>19, <1>20 DEF Merging

-----------------------------------------------------------------------------
(* Lists on one heap: os[l] is what the list with the head l holds.        *)
Shape(h, os, R, N) ==
  /\ h \in Heap(R \cup N) /\ os \in [R -> Seq(N)]
  /\ \A l \in R : Chain(h, l, os[l]) /\ Distinct(l, os[l])
  /\ \A l, m \in R : l # m => Members(l, os[l]) \cap Members(m, os[m]) = {}

(* A step that changes one list, to which it may add nodes of none.        *)
LEMMA ShapeChanges ==
  ASSUME NEW R, NEW N, NEW h, NEW os, Shape(h, os, R, N), NEW l, l \in R, NEW s, s \in Seq(N),
         NEW X, \A m \in R : X \cap Members(m, os[m]) = {},
         NEW g, g \in Heap(R \cup N), Chain(g, l, s), Distinct(l, s),
         Members(l, s) \subseteq Members(l, os[l]) \cup X,
         Same(g, h, (R \cup N) \ (Members(l, os[l]) \cup X)),
         NEW os2, os2 = [os EXCEPT ![l] = s]
  PROVE  Shape(g, os2, R, N)
<1>. DEFINE P == R \cup N
<1>0. /\ os \in [R -> Seq(N)]
      /\ \A m \in R : Chain(h, m, os[m]) /\ Distinct(m, os[m])
      /\ \A j, m \in R : j # m => Members(j, os[j]) \cap Members(m, os[m]) = {}
  BY DEF Shape
<1>1. os2 \in [R -> Seq(N)] /\ os2[l] = s
      /\ \A m \in R : m # l => os2[m] = os[m]
  BY <1>0
<1>2. ASSUME NEW m \in R, m # l PROVE Chain(g, m, os[m]) /\ Distinct(m, os[m])
  <2>1. os[m] \in Seq(N) /\ Chain(h, m, os[m]) /\ Distinct(m, os[m])
    BY <1>0
  <2>2. Members(m, os[m]) \subseteq P
    BY <2>1, MembersAre
  <2>3. Members(m, os[m]) \cap Members(l, os[l]) = {}
    BY <1>0, <1>2
  <2>4. Members(m, os[m]) \subseteq P \ (Members(l, os[l]) \cup X)
    BY <2>2, <2>3
  <2>. QED  BY <2>1, <2>4, ChainSame
<1>3. \A m \in R : Chain(g, m, os2[m]) /\ Distinct(m, os2[m])
  BY <1>1, <1>2
<1>4. ASSUME NEW j \in R, NEW m \in R, j # m
      PROVE  Members(j, os2[j]) \cap Members(m, os2[m]) = {}
  <2>1. Members(j, os[j]) \cap Members(m, os[m]) = {}
    BY <1>0, <1>4
  <2>2. Members(l, os2[l]) \subseteq Members(l, os[l]) \cup X
    BY <1>1
  <2>3. \A k \in R : k # l => Members(k, os2[k]) = Members(k, os[k])
    BY <1>1
  <2>4. X \cap Members(j, os[j]) = {} /\ X \cap Members(m, os[m]) = {}
    OBVIOUS
  <2>5. CASE j = l
    BY <1>4, <2>1, <2>2, <2>3, <2>4, <2>5
  <2>6. CASE m = l
    BY <1>4, <2>1, <2>2, <2>3, <2>4, <2>6
  <2>7. CASE j # l /\ m # l
    BY <2>1, <2>3, <2>7
  <2>. QED  BY <2>5, <2>6, <2>7
<1>. QED  BY <1>1, <1>3, <1>4 DEF Shape

-----------------------------------------------------------------------------
(* The walk along a list.                                                  *)

(* A function that goes on as the loop does is what the loop meets.        *)
LEMMA ForeachMeets ==
  ASSUME NEW l, NEW step, NEW k, k \in Nat, NEW w, w[0] = step[l],
         \A i \in 1 .. k : w[i] = IF w[i - 1] = l THEN l ELSE step[w[i - 1]]
  PROVE  dmbListForeach(l, step, k) = w[k]
<1>. DEFINE IsMet(f) == f = [i \in 0 .. k |-> IF i = 0 THEN step[l]
                                             ELSE IF f[i - 1] = l THEN l ELSE step[f[i - 1]]]
            met == CHOOSE f : IsMet(f)
            v == [i \in 0 .. k |-> w[i]]
<1>1. ASSUME NEW i \in 0 .. k
      PROVE  v[i] = IF i = 0 THEN step[l] ELSE IF v[i - 1] = l THEN l ELSE step[v[i - 1]]
  <2>1. CASE i = 0
    BY <2>1
  <2>2. CASE i # 0
    <3>1. i \in 1 .. k /\ i - 1 \in 0 .. k
      BY <2>2
    <3>. QED  BY <2>2, <3>1
  <2>. QED  BY <2>1, <2>2
<1>2. IsMet(v)
  BY <1>1
<1>3. IsMet(met)
  <2>. HIDE DEF IsMet, v
  <2>. QED  BY <1>2
<1>4. dmbListForeach(l, step, k) = met[k]
  BY DEF dmbListForeach
<1>. HIDE DEF met
<1>5. \A i \in 0 .. k : met[i] = IF i = 0 THEN step[l]
                                 ELSE IF met[i - 1] = l THEN l ELSE step[met[i - 1]]
  BY <1>3
<1>. DEFINE T == {i \in Nat : i <= k => met[i] = w[i]}
<1>6. 0 \in T
  BY <1>5
<1>7. ASSUME NEW i \in T PROVE i + 1 \in T
  <2>. SUFFICES ASSUME i + 1 <= k PROVE met[i + 1] = w[i + 1]
    BY <1>7
  <2>1. i + 1 \in 1 .. k /\ i + 1 \in 0 .. k /\ (i + 1) - 1 = i /\ i + 1 # 0 /\ met[i] = w[i]
    BY <1>7
  <2>2. met[i + 1] = IF met[i] = l THEN l ELSE step[met[i]]
    BY <1>5, <2>1
  <2>. QED  BY <2>1, <2>2
<1>8. T = Nat
  <2>. HIDE DEF T
  <2>1. T \in SUBSET Nat
    BY DEF T
  <2>. QED  BY <1>6, <1>7, <2>1, Induction
<1>9. met[k] = w[k]
  BY <1>8
<1>. QED  BY <1>4, <1>9

-----------------------------------------------------------------------------
(* DmbListIndex.                                                           *)

Nodes == Root \cup ListNode

LinkTypes == links \in Heap(Nodes) /\ order \in [Root -> Seq(ListNode)]
Chained   == \A l \in Root : Chain(links, l, order[l]) /\ Distinct(l, order[l])
Apart     == \A l, m \in Root : l # m => Members(l, order[l]) \cap Members(m, order[m]) = {}

LinkInv == LinkTypes /\ Chained /\ Apart

(* The walk meets the nodes of the list in order, and at its end the head. *)
LEMMA Forwards ==
  ASSUME LinkInv, NEW l \in Root, NEW k \in Nat
  PROVE  dmbListForeach(l, links.next, k) = At(l, order[l], k + 1)
<1>1. PICK s : s = order[l]
  OBVIOUS
<1>2. s \in Seq(ListNode) /\ Chain(links, l, s) /\ Distinct(l, s)
  BY <1>1 DEF LinkInv, LinkTypes, Chained
<1>3. PICK n \in Nat : n = Len(s)
  BY <1>2
<1>4. At(l, s, 0) = l /\ \A x \in Int : x \notin 1 .. n => At(l, s, x) = l
  BY <1>3 DEF At
<1>5. \A x \in 1 .. n : At(l, s, x) # l
  <2>1. \A x \in 1 .. n : x \in 0 .. n /\ x # 0 /\ 0 \in 0 .. n
    BY <1>3
  <2>. QED  BY <1>2, <1>3, <1>4, <2>1 DEF Distinct
<1>6. \A x \in 0 .. n : links.next[At(l, s, x)] = At(l, s, x + 1)
  BY <1>2, <1>3 DEF Chain
<1>. DEFINE w == [x \in Int |-> At(l, s, x + 1)]
<1>7. w[0] = links.next[l]
  <2>1. 0 \in 0 .. n
    BY <1>3
  <2>. QED  BY <1>4, <1>6, <2>1
<1>8. ASSUME NEW i \in 1 .. k PROVE w[i] = IF w[i - 1] = l THEN l ELSE links.next[w[i - 1]]
  <2>1. w[i] = At(l, s, i + 1) /\ w[i - 1] = At(l, s, i)
    <3>1. (i - 1) + 1 = i /\ i \in Int /\ i - 1 \in Int
      OBVIOUS
    <3>. QED  BY <3>1, Zenon
  <2>. HIDE DEF w
  <2>2. CASE i \in 1 .. n
    <3>1. i \in 0 .. n
      BY <1>3, <2>2
    <3>. QED  BY <1>5, <1>6, <2>1, <2>2, <3>1
  <2>3. CASE i \notin 1 .. n
    <3>1. i + 1 \notin 1 .. n /\ i + 1 \in Int /\ i \in Int
      BY <1>3, <2>3
    <3>. QED  BY <1>4, <2>1, <2>3, <3>1
  <2>. QED  BY <2>2, <2>3
<1>9. w[k] = At(l, s, k + 1)
  OBVIOUS
<1>. HIDE DEF w
<1>. QED  BY <1>1, <1>7, <1>8, <1>9, ForeachMeets

LEMMA Backwards ==
  ASSUME LinkInv, NEW l \in Root, NEW k \in Nat
  PROVE  dmbListForeach(l, links.prev, k) = At(l, order[l], Len(order[l]) - k)
<1>1. PICK s : s = order[l]
  OBVIOUS
<1>2. s \in Seq(ListNode) /\ Chain(links, l, s) /\ Distinct(l, s)
  BY <1>1 DEF LinkInv, LinkTypes, Chained
<1>3. PICK n \in Nat : n = Len(s)
  BY <1>2
<1>4. At(l, s, 0) = l /\ At(l, s, n + 1) = l /\ \A x \in Int : x \notin 1 .. n => At(l, s, x) = l
  BY <1>3 DEF At
<1>5. \A x \in 1 .. n : At(l, s, x) # l
  <2>1. \A x \in 1 .. n : x \in 0 .. n /\ x # 0 /\ 0 \in 0 .. n
    BY <1>3
  <2>. QED  BY <1>2, <1>3, <1>4, <2>1 DEF Distinct
<1>6. \A x \in 0 .. n : links.prev[At(l, s, x + 1)] = At(l, s, x)
  BY <1>2, <1>3 DEF Chain
<1>. DEFINE w == [x \in Int |-> At(l, s, n - x)]
<1>7. w[0] = links.prev[l]
  <2>1. n \in 0 .. n /\ n - 0 = n
    BY <1>3
  <2>2. links.prev[l] = At(l, s, n)
    BY <1>4, <1>6, <2>1
  <2>. QED  BY <2>1, <2>2
<1>8. ASSUME NEW i \in 1 .. k PROVE w[i] = IF w[i - 1] = l THEN l ELSE links.prev[w[i - 1]]
  <2>0. PICK j \in Int : j = n - i
    OBVIOUS
  <2>1. w[i] = At(l, s, j) /\ w[i - 1] = At(l, s, j + 1)
    <3>1. n - (i - 1) = j + 1 /\ n - i = j /\ i \in Int /\ i - 1 \in Int
      BY <2>0
    <3>. QED  BY <3>1, Zenon
  <2>. HIDE DEF w
  <2>2. CASE j + 1 \in 1 .. n
    <3>1. j \in 0 .. n
      BY <1>3, <2>2
    <3>. QED  BY <1>5, <1>6, <2>1, <2>2, <3>1
  <2>3. CASE j + 1 \notin 1 .. n
    <3>1. j \notin 1 .. n /\ j + 1 \in Int
      BY <1>3, <2>0, <2>3
    <3>. QED  BY <1>4, <2>1, <2>3, <3>1
  <2>. QED  BY <2>2, <2>3
<1>9. w[k] = At(l, s, n - k)
  OBVIOUS
<1>. HIDE DEF w
<1>. QED  BY <1>1, <1>3, <1>7, <1>8, <1>9, ForeachMeets

(* Get finds each node, from either end.                                   *)
LEMMA GetFinds ==
  ASSUME LinkInv, NEW l \in Root, NEW i \in -Len(order[l]) - 1 .. Len(order[l])
  PROVE  CBListGet(l, i) = IF i \in 0 .. Len(order[l]) - 1 THEN order[l][i + 1]
                           ELSE IF i \in -Len(order[l]) .. -1 THEN order[l][Len(order[l]) + i + 1]
                           ELSE NULL
<1>1. PICK s : s = order[l]
  OBVIOUS
<1>2. s \in Seq(ListNode) /\ \A x \in 1 .. Len(s) : s[x] # l
  <2>1. s \in Seq(ListNode)
    BY <1>1 DEF LinkInv, LinkTypes
  <2>. QED  BY <2>1, ListIndexAssumption
<1>3. PICK n \in Nat : n = Len(s)
  BY <1>2
<1>4. CASE i < 0
  <2>1. PICK k \in Nat : k = -i - 1
    BY <1>1, <1>3, <1>4
  <2>2. CBListGet(l, i) = IF At(l, s, n - k) = l THEN NULL ELSE At(l, s, n - k)
    BY <1>1, <1>3, <1>4, <2>1, Backwards DEF CBListGet
  <2>3. n - k = n + i + 1
    <3>1. i \in Int
      BY <1>1, <1>3
    <3>. QED  BY <2>1, <3>1
  <2>4. CASE i \in -n .. -1
    <3>1. n + i + 1 \in 1 .. n /\ i \notin 0 .. n - 1
      BY <1>3, <2>4
    <3>. QED  BY <1>1, <1>2, <1>3, <2>2, <2>3, <2>4, <3>1 DEF At
  <2>5. CASE i \notin -n .. -1
    <3>1. n + i + 1 \notin 1 .. n /\ i \notin 0 .. n - 1
      BY <1>1, <1>3, <1>4, <2>5
    <3>. QED  BY <1>1, <1>2, <1>3, <2>2, <2>3, <2>5, <3>1 DEF At
  <2>. QED  BY <2>4, <2>5
<1>5. CASE ~(i < 0)
  <2>1. i \in Nat /\ i \notin -n .. -1
    BY <1>1, <1>3, <1>5
  <2>2. CBListGet(l, i) = IF At(l, s, i + 1) = l THEN NULL ELSE At(l, s, i + 1)
    BY <1>1, <1>3, <1>5, <2>1, Forwards DEF CBListGet
  <2>3. i \in 0 .. n - 1 <=> i + 1 \in 1 .. n
    BY <1>3, <2>1
  <2>. QED  BY <1>1, <1>2, <1>3, <2>1, <2>2, <2>3 DEF At
<1>. QED  BY <1>4, <1>5

AtEitherEnd(s, e) ==
  Append(s, e) = Seqs!InsertAt(s, Len(s) + 1, e) /\ <<e>> \o s = Seqs!InsertAt(s, 1, e)

LEMMA InsertedAtEnds ==
  ASSUME NEW N, NEW s, s \in Seq(N), NEW e, e \in N
  PROVE  AtEitherEnd(s, e)
<1>1. Len(s) \in Nat /\ <<e>> \in Seq(N) /\ <<>> \in Seq(N)
  OBVIOUS
<1>2. SubSeq(s, 1, Len(s)) = s
  BY SubSeqFull
<1>3. SubSeq(s, Len(s) + 1, Len(s)) = <<>> /\ SubSeq(s, 1, 0) = <<>>
  BY <1>1, SubSeqEmpty
<1>4. (Len(s) + 1) - 1 = Len(s) /\ 1 - 1 = 0
  BY <1>1
<1>5. Seqs!InsertAt(s, Len(s) + 1, e) = s \o <<e>> \o <<>>
  BY <1>2, <1>3, <1>4 DEF Seqs!InsertAt
<1>6. Seqs!InsertAt(s, 1, e) = <<>> \o <<e>> \o s
  BY <1>2, <1>3, <1>4 DEF Seqs!InsertAt
<1>7. s \o <<e>> \in Seq(N) /\ s \o <<e>> = Append(s, e)
  BY <1>1, ConcatProperties, AppendIsConcat
<1>8. (s \o <<e>>) \o <<>> = s \o <<e>>
  BY <1>7, ConcatEmptySeq
<1>9. <<>> \o <<e>> = <<e>>
  BY <1>1, ConcatEmptySeq
<1>. QED  BY <1>5, <1>6, <1>7, <1>8, <1>9 DEF AtEitherEnd

(* A step that changes one list, to which it may add a node of none.       *)
LEMMA OneListChanges ==
  ASSUME LinkInv, NEW l \in Root, NEW s \in Seq(ListNode), NEW X,
         \A m \in Root : X \cap Members(m, order[m]) = {},
         links' \in Heap(Nodes), order' = [order EXCEPT ![l] = s],
         Chain(links', l, s), Distinct(l, s), Members(l, s) \subseteq Members(l, order[l]) \cup X,
         Same(links', links, Nodes \ (Members(l, order[l]) \cup X))
  PROVE  LinkInv'
<1>1. Shape(links, order, Root, ListNode)
  BY DEF LinkInv, LinkTypes, Chained, Apart, Nodes, Shape
<1>2. links' \in Heap(Root \cup ListNode)
      /\ Same(links', links, (Root \cup ListNode) \ (Members(l, order[l]) \cup X))
  BY DEF Nodes
<1>3. Shape(links', order', Root, ListNode)
  BY <1>1, <1>2, ShapeChanges
<1>. QED  BY <1>3 DEF LinkInv, LinkTypes, Chained, Apart, Nodes, Shape

(* A node of no list put between two neighbours of a list.                 *)
LEMMA InsertKeeps ==
  ASSUME LinkInv, NEW l \in Root, NEW node \in Spare, NEW k \in 0 .. Len(order[l]),
         links' = L!insert(links, node, At(l, order[l], k), At(l, order[l], k + 1)),
         order' = [order EXCEPT ![l] = Seqs!InsertAt(order[l], k + 1, node)]
  PROVE  LinkInv'
<1>1. PICK s : s = order[l]
  OBVIOUS
<1>2. /\ s \in Seq(ListNode) /\ Chain(links, l, s) /\ Distinct(l, s) /\ links \in Heap(Nodes)
      /\ l \in Nodes /\ ListNode \subseteq Nodes /\ node \in ListNode
  BY <1>1 DEF LinkInv, LinkTypes, Chained, Nodes, Spare
<1>3. \A m \in Root : node \notin Members(m, order[m])
  <2>. SUFFICES ASSUME NEW m \in Root PROVE node \notin Members(m, order[m])
    OBVIOUS
  <2>1. order[m] \in Seq(ListNode)
    BY DEF LinkInv, LinkTypes
  <2>2. Members(m, order[m]) = {m} \cup {order[m][x] : x \in 1 .. Len(order[m])}
    BY <2>1, MembersAre
  <2>3. ~Seqs!Contains(order[m], node) /\ node # m
    BY <1>2, ListIndexAssumption DEF Spare
  <2>. QED  BY <2>2, <2>3 DEF Seqs!Contains
<1>4. PICK t : t = Seqs!InsertAt(s, k + 1, node)
  OBVIOUS
<1>5. /\ links' \in Heap(Nodes) /\ Chain(links', l, t) /\ Distinct(l, t) /\ t \in Seq(ListNode)
      /\ Members(l, t) = Members(l, s) \cup {node}
      /\ Same(links', links, Nodes \ (Members(l, s) \cup {node}))
  <2>1. node \notin Members(l, s) /\ k \in 0 .. Len(s)
        /\ links' = L!insert(links, node, At(l, s, k), At(l, s, k + 1))
    BY <1>1, <1>3
  <2>2. Inserting(links', links, Nodes, ListNode, l, s, k, node)
    BY <1>2, <2>1, InsertChain
  <2>. QED  BY <1>4, <2>2 DEF Inserting
<1>6. \A m \in Root : {node} \cap Members(m, order[m]) = {}
  BY <1>3
<1>. QED  BY <1>1, <1>4, <1>5, <1>6, OneListChanges

LEMMA EndsOf ==
  ASSUME LinkInv, NEW l \in Root
  PROVE  /\ order[l] \in Seq(ListNode) /\ Len(order[l]) \in Nat
         /\ links.next[l] = At(l, order[l], 1) /\ links.prev[l] = At(l, order[l], Len(order[l]))
         /\ At(l, order[l], 0) = l /\ At(l, order[l], Len(order[l]) + 1) = l
         /\ \A x \in 0 .. Len(order[l]) :
              /\ links.next[At(l, order[l], x)] = At(l, order[l], x + 1)
              /\ links.prev[At(l, order[l], x + 1)] = At(l, order[l], x)
<1>1. order[l] \in Seq(ListNode) /\ Chain(links, l, order[l])
  BY DEF LinkInv, LinkTypes, Chained
<1>. QED  BY <1>1, ChainLinked, AtEnds DEF Chain

LEMMA AppendKeeps ==
  ASSUME LinkInv, NEW l \in Root, NEW node \in Spare, dmbListAppend(l, node)
  PROVE  LinkInv'
<1>1. PICK n \in Nat : n = Len(order[l]) /\ n \in 0 .. Len(order[l])
  BY EndsOf
<1>2. links' = L!insert(links, node, At(l, order[l], n), At(l, order[l], n + 1))
  BY <1>1, EndsOf DEF dmbListAppend
<1>3. order' = [order EXCEPT ![l] = Seqs!InsertAt(order[l], n + 1, node)]
  <2>1. PICK s : s = order[l]
    OBVIOUS
  <2>2. s \in Seq(ListNode) /\ node \in ListNode
    BY <2>1, EndsOf DEF Spare
  <2>3. Append(s, node) = Seqs!InsertAt(s, Len(s) + 1, node) /\ n = Len(s)
    <3>1. AtEitherEnd(s, node)
      BY <2>2, InsertedAtEnds
    <3>. QED  BY <1>1, <2>1, <3>1 DEF AtEitherEnd
  <2>. QED  BY <1>1, <2>1, <2>3 DEF dmbListAppend
<1>. QED  BY <1>1, <1>2, <1>3, InsertKeeps

LEMMA PrependKeeps ==
  ASSUME LinkInv, NEW l \in Root, NEW node \in Spare, dmbListPrepend(l, node)
  PROVE  LinkInv'
<1>1. 0 \in 0 .. Len(order[l]) /\ 0 + 1 = 1
  BY EndsOf
<1>2. links' = L!insert(links, node, At(l, order[l], 0), At(l, order[l], 0 + 1))
  BY <1>1, EndsOf DEF dmbListPrepend
<1>3. order' = [order EXCEPT ![l] = Seqs!InsertAt(order[l], 0 + 1, node)]
  <2>1. PICK s : s = order[l]
    OBVIOUS
  <2>2. s \in Seq(ListNode) /\ node \in ListNode
    BY <2>1, EndsOf DEF Spare
  <2>3. <<node>> \o s = Seqs!InsertAt(s, 0 + 1, node)
    <3>1. AtEitherEnd(s, node)
      BY <2>2, InsertedAtEnds
    <3>. QED  BY <1>1, <2>1, <3>1 DEF AtEitherEnd
  <2>. QED  BY <1>1, <2>1, <2>3 DEF dmbListPrepend
<1>. QED  BY <1>1, <1>2, <1>3, InsertKeeps

LEMMA InsertIndexKeeps ==
  ASSUME LinkInv, NEW l \in Root, NEW node \in Spare,
         NEW i \in -Len(order[l]) - 1 .. Len(order[l]), dmbListInsert(l, node, i)
  PROVE  LinkInv'
<1>1. PICK s \in Seq(ListNode) : s = order[l]
  BY EndsOf
<1>2. PICK n \in Nat : n = Len(s)
  OBVIOUS
<1>3. PICK at : at = CBListGet(l, i)
  OBVIOUS
<1>4. at = IF i \in 0 .. n - 1 THEN s[i + 1] ELSE IF i \in -n .. -1 THEN s[n + i + 1] ELSE NULL
  BY <1>1, <1>2, <1>3, GetFinds
<1>5. /\ links' = IF at = NULL THEN links
                  ELSE IF i < 0 THEN L!insert(links, node, at, links.next[at])
                  ELSE L!insert(links, node, links.prev[at], at)
      /\ order' = [order EXCEPT ![l] = IF i \in 0 .. n - 1 THEN Seqs!InsertAt(s, i + 1, node)
                                       ELSE IF i \in -n .. -1
                                       THEN Seqs!InsertAt(s, n + i + 2, node) ELSE s]
  BY <1>1, <1>2, <1>3 DEF dmbListInsert
<1>6. \A x \in 1 .. n : s[x] # NULL /\ s[x] = At(l, s, x)
  BY <1>1, <1>2, ListIndexAssumption DEF At
<1>7. \A x \in 0 .. n : /\ links.next[At(l, s, x)] = At(l, s, x + 1)
                        /\ links.prev[At(l, s, x + 1)] = At(l, s, x)
  BY <1>1, <1>2, EndsOf
<1>8. CASE i \in 0 .. n - 1
  <2>1. i \in 0 .. n /\ i + 1 \in 1 .. n /\ ~(i < 0)
    BY <1>2, <1>8
  <2>2. at = At(l, s, i + 1) /\ at # NULL /\ links.prev[at] = At(l, s, i)
    BY <1>4, <1>6, <1>7, <1>8, <2>1
  <2>3. /\ links' = L!insert(links, node, At(l, s, i), At(l, s, i + 1))
        /\ order' = [order EXCEPT ![l] = Seqs!InsertAt(s, i + 1, node)]
    BY <1>5, <1>8, <2>1, <2>2
  <2>. QED  BY <1>1, <1>2, <2>1, <2>3, InsertKeeps
<1>9. CASE i \in -n .. -1
  <2>1. PICK k \in Nat : k = n + i + 1
    BY <1>2, <1>9
  <2>2. k \in 0 .. n /\ k \in 1 .. n /\ n + i + 2 = k + 1 /\ i < 0 /\ i \notin 0 .. n - 1
    BY <1>2, <1>9, <2>1
  <2>3. at = At(l, s, k) /\ at # NULL /\ links.next[at] = At(l, s, k + 1)
    BY <1>4, <1>6, <1>7, <1>9, <2>1, <2>2
  <2>4. /\ links' = L!insert(links, node, At(l, s, k), At(l, s, k + 1))
        /\ order' = [order EXCEPT ![l] = Seqs!InsertAt(s, k + 1, node)]
    BY <1>5, <1>9, <2>2, <2>3
  <2>. QED  BY <1>1, <1>2, <2>2, <2>4, InsertKeeps
<1>10. CASE i \notin 0 .. n - 1 /\ i \notin -n .. -1
  <2>1. links' = links /\ order' = order
    <3>1. order' = [order EXCEPT ![l] = order[l]]
      BY <1>1, <1>5, <1>10
    <3>. QED  BY <1>4, <1>5, <1>10, <3>1 DEF LinkInv, LinkTypes
  <2>. QED  BY <2>1 DEF LinkInv, LinkTypes, Chained, Apart
<1>. QED  BY <1>8, <1>9, <1>10

LEMMA LinksKept ==
  ASSUME LinkInv, UNCHANGED linkVars
  PROVE  LinkInv'
BY DEF LinkInv, LinkTypes, Chained, Apart, linkVars

(* The nodes behind the i-th up to the j-th taken out of a list.           *)
LEMMA CutKeeps ==
  ASSUME LinkInv, NEW l \in Root, NEW i \in Nat, NEW j \in Nat, i <= j, j <= Len(order[l]),
         links' = [next |-> [links.next EXCEPT ![At(l, order[l], i)] = At(l, order[l], j + 1)],
                   prev |-> [links.prev EXCEPT ![At(l, order[l], j + 1)] = At(l, order[l], i)]],
         order' = [order EXCEPT ![l] = Cut(order[l], i, j)]
  PROVE  LinkInv'
<1>1. PICK s : s = order[l]
  OBVIOUS
<1>2. /\ s \in Seq(ListNode) /\ Chain(links, l, s) /\ Distinct(l, s) /\ links \in Heap(Nodes)
      /\ l \in Nodes /\ ListNode \subseteq Nodes
  BY <1>1 DEF LinkInv, LinkTypes, Chained, Nodes
<1>3. Cutting(links', links, Nodes, ListNode, l, s, i, j)
  BY <1>1, <1>2, CutChain
<1>4. PICK t : t = Cut(s, i, j)
  OBVIOUS
<1>5. /\ links' \in Heap(Nodes) /\ Chain(links', l, t) /\ Distinct(l, t) /\ t \in Seq(ListNode)
      /\ Members(l, t) \subseteq Members(l, s) \cup {}
      /\ Same(links', links, Nodes \ (Members(l, s) \cup {}))
  BY <1>3, <1>4 DEF Cutting
<1>6. \A m \in Root : {} \cap Members(m, order[m]) = {}
  OBVIOUS
<1>. QED  BY <1>1, <1>4, <1>5, <1>6, OneListChanges

(* Indices from the front.                                                 *)
LEMMA WithoutFront ==
  ASSUME NEW s \in Seq(ListNode), NEW i \in Nat, NEW j \in Nat
  PROVE  Without(s, i, j) = IF i > j THEN s ELSE SubSeq(s, 1, i) \o SubSeq(s, j + 2, Len(s))
<1>1. ~(i < 0) /\ ~(j < 0)
  OBVIOUS
<1>. QED  BY <1>1, Zenon DEF Without

LEMMA RemoveRangeKeeps ==
  ASSUME LinkInv, NEW l \in Root, NEW iStart \in 0 .. Len(order[l]), NEW iEnd \in 0 .. Len(order[l]),
         dmbListRemoveRange(l, iStart, iEnd)
  PROVE  LinkInv'
<1>1. PICK s \in Seq(ListNode) : s = order[l]
  BY EndsOf
<1>2. PICK n \in Nat : n = Len(s)
  OBVIOUS
<1>0. /\ iStart \in Nat /\ iEnd \in Nat
      /\ Without(s, iStart, iEnd) =
           IF iStart > iEnd THEN s ELSE SubSeq(s, 1, iStart) \o SubSeq(s, iEnd + 2, n)
  <2>1. iStart \in Nat /\ iEnd \in Nat
    BY <1>1, <1>2
  <2>. QED  BY <1>2, <2>1, WithoutFront
<1>3. CASE iStart > iEnd
  <2>1. Without(s, iStart, iEnd) = s
    BY <1>0, <1>3
  <2>2. links' = links /\ order' = [order EXCEPT ![l] = s]
    BY <1>1, <1>3, <2>1 DEF dmbListRemoveRange, RangeRemoved
  <2>3. order' = order
    BY <1>1, <2>2 DEF LinkInv, LinkTypes
  <2>. QED  BY <2>2, <2>3, LinksKept DEF linkVars
<1>4. CASE ~(iStart > iEnd) /\ L!dmbListIsEmpty(links, l)
  <2>1. n = 0
    <3>1. links.next[At(l, s, 0)] = At(l, s, 1) /\ At(l, s, 0) = l
      BY <1>1, <1>2, EndsOf DEF At
    <3>. QED  BY <1>2, <1>4, <3>1, ListIndexAssumption DEF L!dmbListIsEmpty, At
  <2>2. Without(s, iStart, iEnd) = s
    <3>1. iStart = 0 /\ iEnd = 0
      BY <1>1, <1>2, <2>1
    <3>2. s = <<>>
      BY <1>2, <2>1, EmptySeq
    <3>3. SubSeq(s, 1, iStart) = <<>> /\ SubSeq(s, iEnd + 2, n) = <<>>
      BY <2>1, <3>1, SubSeqEmpty
    <3>. QED  BY <1>0, <3>1, <3>2, <3>3
  <2>3. links' = links /\ order' = [order EXCEPT ![l] = s]
    BY <1>1, <1>4, <2>2 DEF dmbListRemoveRange, RangeRemoved
  <2>4. order' = order
    BY <1>1, <2>3 DEF LinkInv, LinkTypes
  <2>. QED  BY <2>3, <2>4, LinksKept DEF linkVars
<1>5. CASE ~(iStart > iEnd) /\ ~L!dmbListIsEmpty(links, l)
  <2>1. PICK last : last = dmbListForeach(l, links.next, iEnd)
    OBVIOUS
  <2>2. PICK pStart, pEnd : /\ pStart = links.prev[dmbListForeach(l, links.next, iStart)]
                            /\ pEnd = IF last = l THEN l ELSE links.next[last]
    OBVIOUS
  <2>3. /\ ~(iStart < 0) /\ ~(iEnd < 0) /\ ~(iStart > iEnd)
        /\ dmbListForeach(l, links.next, iStart) # l
        /\ links' = [next |-> [links.next EXCEPT ![pStart] = pEnd],
                     prev |-> [links.prev EXCEPT ![pEnd] = pStart]]
    BY <1>5, <2>1, <2>2 DEF dmbListRemoveRange, RangeRemoved
  <2>4. /\ iStart \in Nat /\ iEnd \in Nat /\ iStart <= iEnd /\ iEnd <= n /\ iStart < n
        /\ order' = [order EXCEPT ![l] = SubSeq(s, 1, iStart) \o SubSeq(s, iEnd + 2, n)]
    <3>1. iStart \in Nat /\ iEnd \in Nat /\ iStart <= iEnd /\ iEnd <= n /\ iStart <= n
      BY <1>1, <1>2, <2>3
    <3>2. dmbListForeach(l, links.next, iStart) = At(l, s, iStart + 1)
      BY <1>1, <1>2, <3>1, Forwards
    <3>3. At(l, s, n + 1) = l
      BY <1>2 DEF At
    <3>4. iStart # n
      BY <2>3, <3>2, <3>3
    <3>5. Without(s, iStart, iEnd) = SubSeq(s, 1, iStart) \o SubSeq(s, iEnd + 2, n)
      BY <1>0, <3>1
    <3>. QED  BY <1>1, <3>1, <3>4, <3>5 DEF dmbListRemoveRange
  <2>5. \A x \in 0 .. n : /\ links.next[At(l, s, x)] = At(l, s, x + 1)
                          /\ links.prev[At(l, s, x + 1)] = At(l, s, x)
    BY <1>1, <1>2, EndsOf
  <2>6. pStart = At(l, s, iStart)
    <3>1. dmbListForeach(l, links.next, iStart) = At(l, s, iStart + 1) /\ iStart \in 0 .. n
      BY <1>1, <2>3, <2>4, Forwards
    <3>. QED  BY <2>2, <2>5, <3>1
  <2>7. last = At(l, s, iEnd + 1)
    BY <1>1, <2>1, <2>4, Forwards
  <2>8. PICK j \in Nat : j = IF iEnd < n THEN iEnd + 1 ELSE n
    BY <2>4
  <2>9. iStart <= j /\ j <= n
    BY <1>2, <2>3, <2>4, <2>8
  <2>10. pEnd = At(l, s, j + 1)
    <3>1. CASE iEnd < n
      <4>1. iEnd + 1 \in 1 .. n /\ iEnd + 1 \in 0 .. n /\ (iEnd + 1) + 1 = j + 1
        BY <1>2, <2>4, <2>8, <3>1
      <4>2. last # l
        BY <1>2, <2>7, <4>1, ListIndexAssumption DEF At
      <4>. QED  BY <2>2, <2>5, <2>7, <4>1, <4>2
    <3>2. CASE ~(iEnd < n)
      <4>1. iEnd + 1 = n + 1 /\ j + 1 = n + 1
        BY <1>2, <2>4, <2>8, <3>2
      <4>2. At(l, s, n + 1) = l
        BY <1>2 DEF At
      <4>. QED  BY <2>2, <2>7, <4>1, <4>2
    <3>. QED  BY <3>1, <3>2
  <2>11. SubSeq(s, 1, iStart) \o SubSeq(s, iEnd + 2, n) = Cut(s, iStart, j)
    <3>1. CASE iEnd < n
      <4>1. iEnd + 2 = j + 1
        BY <2>4, <2>8, <3>1
      <4>. QED  BY <1>2, <4>1 DEF Cut
    <3>2. CASE ~(iEnd < n)
      <4>1. n < iEnd + 2 /\ n < j + 1 /\ iEnd + 2 \in Int /\ j + 1 \in Int /\ n \in Int
        BY <1>2, <2>4, <2>8, <3>2
      <4>2. SubSeq(s, iEnd + 2, n) = <<>> /\ SubSeq(s, j + 1, n) = <<>>
        BY <4>1, SubSeqEmpty
      <4>. QED  BY <1>2, <4>2 DEF Cut
    <3>. QED  BY <3>1, <3>2
  <2>. QED  BY <1>1, <1>2, <2>3, <2>4, <2>6, <2>8, <2>9, <2>10, <2>11, CutKeeps
<1>. QED  BY <1>3, <1>4, <1>5

LEMMA RemoveAllKeeps ==
  ASSUME LinkInv, NEW l \in Root, dmbListRemoveAll(l)
  PROVE  LinkInv'
<1>1. PICK s \in Seq(ListNode) : s = order[l]
  BY EndsOf
<1>2. PICK n \in Nat : n = Len(s)
  OBVIOUS
<1>3. At(l, s, 0) = l /\ At(l, s, n + 1) = l
  BY <1>2 DEF At
<1>4. /\ links' = [next |-> [links.next EXCEPT ![At(l, s, 0)] = At(l, s, n + 1)],
                   prev |-> [links.prev EXCEPT ![At(l, s, n + 1)] = At(l, s, 0)]]
      /\ order' = [order EXCEPT ![l] = <<>>]
  BY <1>3 DEF dmbListRemoveAll
<1>5. Cut(s, 0, n) = <<>>
  <2>1. SubSeq(s, 1, 0) = <<>> /\ SubSeq(s, n + 1, n) = <<>>
    BY <1>2, SubSeqEmpty
  <2>. QED  BY <1>2, <2>1 DEF Cut
<1>6. 0 \in Nat /\ 0 <= n /\ n <= Len(s)
  BY <1>2
<1>7. order' = [order EXCEPT ![l] = Cut(s, 0, n)]
  BY <1>4, <1>5
<1>. QED  BY <1>1, <1>4, <1>6, <1>7, CutKeeps

LEMMA MergeKeeps ==
  ASSUME LinkInv, NEW dest \in Root, NEW src \in Root \ {dest}, dmbListMerge(dest, src)
  PROVE  LinkInv'
<1>1. PICK s \in Seq(ListNode), u \in Seq(ListNode) : s = order[dest] /\ u = order[src]
  BY EndsOf
<1>2. /\ Chain(links, dest, s) /\ Distinct(dest, s) /\ links \in Heap(Nodes)
      /\ Chain(links, src, u) /\ Distinct(src, u) /\ Members(dest, s) \cap Members(src, u) = {}
      /\ dest \in Nodes /\ src \in Nodes /\ ListNode \subseteq Nodes
  BY <1>1 DEF LinkInv, LinkTypes, Chained, Apart, Nodes
<1>3. order' = [order EXCEPT ![dest] = s \o u, ![src] = <<>>]
  BY <1>1 DEF dmbListMerge
<1>4. links.next[src] = At(src, u, 1)
  BY <1>1, EndsOf
<1>5. CASE u = <<>>
  <2>1. links.next[src] = src
    BY <1>4, <1>5 DEF At
  <2>2. links' = links
    BY <2>1 DEF dmbListMerge, L!dmbListIsEmpty
  <2>3. s \o u = s
    BY <1>5, ConcatEmptySeq
  <2>4. order' = order
    <3>1. order \in [Root -> Seq(ListNode)] /\ order[dest] = s /\ order[src] = <<>>
      BY <1>1, <1>5 DEF LinkInv, LinkTypes
    <3>. QED  BY <1>3, <2>3, <3>1
  <2>. QED  BY <2>2, <2>4, LinksKept DEF linkVars
<1>6. CASE u # <<>>
  <2>1. links.next[src] # src
    <3>1. Len(u) \in Nat /\ Len(u) # 0
      BY <1>6, EmptySeq
    <3>2. 1 \in 1 .. Len(u)
      BY <3>1
    <3>. QED  BY <1>4, <3>2, ListIndexAssumption DEF At
  <2>2. links' = Merged(links, dest, src)
    BY <2>1 DEF dmbListMerge, L!dmbListIsEmpty
  <2>3. Merging(links', links, Nodes, ListNode, dest, src, s, u)
    BY <1>2, <1>6, <2>2, MergeChain
  <2>4. /\ links' \in Heap(Nodes) /\ Chain(links', dest, s \o u) /\ Distinct(dest, s \o u)
        /\ s \o u \in Seq(ListNode) /\ Chain(links', src, <<>>)
        /\ Members(dest, s \o u) = Members(dest, s) \cup (Members(src, u) \ {src})
        /\ Same(links', links, Nodes \ (Members(dest, s) \cup Members(src, u)))
    BY <2>3 DEF Merging
  <2>5. /\ order' \in [Root -> Seq(ListNode)] /\ order'[dest] = s \o u /\ order'[src] = <<>>
        /\ \A m \in Root : m # dest /\ m # src => order'[m] = order[m]
    <3>1. order \in [Root -> Seq(ListNode)] /\ <<>> \in Seq(ListNode)
      BY DEF LinkInv, LinkTypes
    <3>. QED  BY <1>3, <2>4, <3>1
  <2>6. Distinct(src, <<>>) /\ Members(src, <<>>) = {src}
    BY DEF Distinct, Members, At
  <2>7. src \in Members(src, u)
    BY <1>1, <1>2, ChainLinked
  <2>8. ASSUME NEW m \in Root, m # dest, m # src
        PROVE  Chain(links', m, order[m]) /\ Distinct(m, order[m])
    <3>1. order[m] \in Seq(ListNode) /\ Chain(links, m, order[m]) /\ Distinct(m, order[m])
      BY DEF LinkInv, LinkTypes, Chained
    <3>2. Members(m, order[m]) \subseteq Nodes
      BY <3>1, MembersAre DEF Nodes
    <3>3. /\ Members(m, order[m]) \cap Members(dest, s) = {}
          /\ Members(m, order[m]) \cap Members(src, u) = {}
      BY <1>1, <2>8 DEF LinkInv, Apart
    <3>4. Members(m, order[m]) \subseteq Nodes \ (Members(dest, s) \cup Members(src, u))
      BY <3>2, <3>3
    <3>. QED  BY <2>4, <3>1, <3>4, ChainSame
  <2>9. Chained'
    BY <2>4, <2>5, <2>6, <2>8 DEF Chained
  <2>10. Apart'
    <3>1. \A m \in Root : Members(m, order'[m]) \subseteq
            IF m = dest THEN Members(dest, s) \cup (Members(src, u) \ {src})
            ELSE IF m = src THEN {src} ELSE Members(m, order[m])
      BY <2>4, <2>5, <2>6
    <3>2. \A j, m \in Root : j # m => Members(j, order[j]) \cap Members(m, order[m]) = {}
      BY DEF LinkInv, Apart
    <3>. SUFFICES ASSUME NEW j \in Root, NEW m \in Root, j # m
                  PROVE  Members(j, order'[j]) \cap Members(m, order'[m]) = {}
      BY DEF Apart
    <3>3. Members(j, order[j]) \cap Members(m, order[m]) = {}
      BY <3>2
    <3>4. \A k \in Root : k # dest => Members(k, order[k]) \cap Members(dest, s) = {}
      BY <1>1, <3>2
    <3>5. \A k \in Root : k # src => Members(k, order[k]) \cap Members(src, u) = {}
      BY <1>1, <3>2
    <3>6. /\ Members(j, order'[j]) \subseteq
               IF j = dest THEN Members(dest, s) \cup (Members(src, u) \ {src})
               ELSE IF j = src THEN {src} ELSE Members(j, order[j])
          /\ Members(m, order'[m]) \subseteq
               IF m = dest THEN Members(dest, s) \cup (Members(src, u) \ {src})
               ELSE IF m = src THEN {src} ELSE Members(m, order[m])
      BY <3>1
    <3>7. CASE j # dest /\ m # dest
      BY <1>1, <2>7, <3>3, <3>6, <3>7
    <3>8. CASE j = dest
      BY <1>1, <1>2, <2>7, <3>4, <3>5, <3>6, <3>8
    <3>9. CASE m = dest
      BY <1>1, <1>2, <2>7, <3>4, <3>5, <3>6, <3>9
    <3>. QED  BY <3>7, <3>8, <3>9
  <2>. QED  BY <2>4, <2>5, <2>9, <2>10 DEF LinkInv, LinkTypes
<1>. QED  BY <1>5, <1>6

LEMMA LinkBegins ==
  ASSUME LinkInit
  PROVE  LinkInv
<1>. DEFINE heads == [n \in Nodes |-> IF n \in Root THEN n ELSE NULL]
<1>1. links = [next |-> heads, prev |-> heads] /\ order = [l \in Root |-> <<>>]
  BY DEF LinkInit, Nodes
<1>2. heads \in [Nodes -> Nodes \cup {NULL}]
  BY DEF Nodes
<1>3. links \in Heap(Nodes)
  <2>. HIDE DEF heads
  <2>. QED  BY <1>1, <1>2 DEF Heap
<1>4. order \in [Root -> Seq(ListNode)]
  BY <1>1
<1>5. \A l \in Root : order[l] = <<>> /\ \A x : At(l, <<>>, x) = l
  BY <1>1 DEF At
<1>6. \A l \in Root : links.next[l] = l /\ links.prev[l] = l
  BY <1>1 DEF Nodes
<1>7. Chained
  BY <1>5, <1>6 DEF Chained, Chain, Distinct
<1>8. \A l \in Root : Members(l, order[l]) = {l}
  BY <1>5 DEF Members
<1>9. Apart
  BY <1>8 DEF Apart
<1>. QED  BY <1>3, <1>4, <1>7, <1>9 DEF LinkInv, LinkTypes

(* Whatever is inserted, removed and merged, by whatever index, in any     *)
(* number of lists and of any length: dmbListGet finds each node by its    *)
(* index, counted from either end, and none beyond.                        *)
THEOREM GetExact == LinkSpec => []IndexExact
<1>1. LinkInit => LinkInv
  BY LinkBegins
<1>2. LinkInv /\ [LinkNext]_linkVars => LinkInv'
  <2>. SUFFICES ASSUME LinkInv, [LinkNext]_linkVars PROVE LinkInv'
    OBVIOUS
  <2>1. CASE UNCHANGED linkVars
    BY <2>1, LinksKept
  <2>2. CASE LinkNext
    <3>1. PICK l \in Root :
            \/ \E node \in Spare : \/ dmbListAppend(l, node) \/ dmbListPrepend(l, node)
                                   \/ \E i \in -Len(order[l]) - 1 .. Len(order[l]) :
                                        dmbListInsert(l, node, i)
            \/ \E i \in 0 .. Len(order[l]) : \/ \E j \in 0 .. Len(order[l]) : dmbListRemoveRange(l, i, j)
                                             \/ dmbListRemoveAt(l, i)
            \/ dmbListRemoveAll(l)
            \/ \E src \in Root \ {l} : dmbListMerge(l, src)
      BY <2>2 DEF LinkNext
    <3>2. CASE \E node \in Spare : \/ dmbListAppend(l, node) \/ dmbListPrepend(l, node)
                                   \/ \E i \in -Len(order[l]) - 1 .. Len(order[l]) :
                                        dmbListInsert(l, node, i)
      BY <3>2, AppendKeeps, PrependKeeps, InsertIndexKeeps
    <3>3. CASE \E i \in 0 .. Len(order[l]) : \/ \E j \in 0 .. Len(order[l]) : dmbListRemoveRange(l, i, j)
                                             \/ dmbListRemoveAt(l, i)
      BY <3>3, RemoveRangeKeeps DEF dmbListRemoveAt
    <3>4. CASE dmbListRemoveAll(l)
      BY <3>4, RemoveAllKeeps
    <3>5. CASE \E src \in Root \ {l} : dmbListMerge(l, src)
      BY <3>5, MergeKeeps
    <3>. QED  BY <3>1, <3>2, <3>3, <3>4, <3>5
  <2>. QED  BY <2>1, <2>2
<1>3. LinkInv => IndexExact
  <2>. SUFFICES ASSUME LinkInv, NEW l \in Root, NEW i \in -Len(order[l]) - 1 .. Len(order[l])
                PROVE  CBListGet(l, i) =
                         IF i \in 0 .. Len(order[l]) - 1 THEN order[l][i + 1]
                         ELSE IF i \in -Len(order[l]) .. -1 THEN order[l][Len(order[l]) + i + 1]
                         ELSE NULL
    BY DEF IndexExact
  <2>. QED  BY GetFinds
<1>. QED  BY <1>1, <1>2, <1>3, PTL DEF LinkSpec

================================================================================
