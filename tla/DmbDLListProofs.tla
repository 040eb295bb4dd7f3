---------------------------- MODULE DmbDLListProofs ----------------------------
(***************************************************************************)
(* Theorems about DmbDLList, for any numbers of threads, lists, entries    *)
(* and objects.                                                            *)
(***************************************************************************)
EXTENDS DmbListProofs, DmbDLList

-----------------------------------------------------------------------------
(* Walks.                                                                  *)

(* A function that goes on as the walk does is what the walk meets.        *)
GoesOn(w, l, n, step) ==
  w[0] = l /\ \A i \in 1 .. n : w[i] = IF w[i - 1] = NULL THEN NULL ELSE step[w[i - 1]]
Meets(h, l, n, forward, w) == Walk(h, l, n, forward) = [k \in 1 .. n |-> w[k]]

(* Two functions that begin alike and go on alike.                         *)
GoAlike(f, w, n) == f[0] = w[0] /\ \A k \in 1 .. n : f[k - 1] = w[k - 1] => f[k] = w[k]
Alike(f, w, n)   == \A k \in 0 .. n : f[k] = w[k]

LEMMA StayAlike ==
  ASSUME NEW n, n \in Nat, NEW f, NEW w, GoAlike(f, w, n)
  PROVE  Alike(f, w, n)
<1>1. f[0] = w[0]
  BY DEF GoAlike
<1>2. \A k \in 1 .. n : f[k - 1] = w[k - 1] => f[k] = w[k]
  BY DEF GoAlike
<1>3. \A k \in 0 .. n : f[k] = w[k]
  BY <1>1, <1>2, Stepwise
<1>. QED  BY <1>3 DEF Alike

LEMMA WalkMeets ==
  ASSUME NEW h, NEW l, NEW n, n \in Nat, NEW forward, NEW step,
         step = (IF forward THEN h.next ELSE h.prev), NEW w, GoesOn(w, l, n, step)
  PROVE  Meets(h, l, n, forward, w)
<1>. DEFINE IsWalk(f) == f = [k \in 0 .. n |-> IF k = 0 THEN l
                                              ELSE IF f[k - 1] = NULL THEN NULL ELSE step[f[k - 1]]]
            met == CHOOSE f : IsWalk(f)
            v == [k \in 0 .. n |-> w[k]]
<1>. w[0] = l /\ \A i \in 1 .. n : w[i] = IF w[i - 1] = NULL THEN NULL ELSE step[w[i - 1]]
  BY DEF GoesOn
<1>1. ASSUME NEW i \in 0 .. n
      PROVE  v[i] = IF i = 0 THEN l ELSE IF v[i - 1] = NULL THEN NULL ELSE step[v[i - 1]]
  <2>1. CASE i = 0
    BY <2>1
  <2>2. CASE i # 0
    <3>1. i \in 1 .. n /\ i - 1 \in 0 .. n
      BY <2>2
    <3>. QED  BY <2>2, <3>1
  <2>. QED  BY <2>1, <2>2
<1>2. IsWalk(v)
  BY <1>1
<1>3. IsWalk(met)
  <2>. HIDE DEF IsWalk, v
  <2>. QED  BY <1>2
<1>4. Walk(h, l, n, forward) = [k \in 1 .. n |-> met[k]]
  BY DEF Walk
<1>. HIDE DEF met
<1>5. \A k \in 0 .. n : met[k] = IF k = 0 THEN l
                                 ELSE IF met[k - 1] = NULL THEN NULL ELSE step[met[k - 1]]
  BY <1>3
<1>6. \A k \in 0 .. n : met[k] = w[k]
  <2>1. met[0] = w[0]
    BY <1>5
  <2>2. \A k \in 1 .. n : met[k - 1] = w[k - 1] => met[k] = w[k]
    BY <1>5
  <2>. QED  BY <2>1, <2>2, Stepwise
<1>. QED  BY <1>4, <1>6 DEF Meets

(* The walks of a list of length n from its head: they meet its nodes, and *)
(* then the head.                                                          *)
Walks(h, l, s, n) ==
  /\ Walk(h, l, n, TRUE) = s
  /\ \A m \in 0 .. n + 1 : /\ Walk(h, l, m, TRUE) = [k \in 1 .. m |-> At(l, s, k)]
                           /\ Walk(h, l, m, FALSE) = [k \in 1 .. m |-> At(l, s, n + 1 - k)]

LEMMA WalksAre ==
  ASSUME NEW h, NEW l, NEW N, NEW s, s \in Seq(N), NULL \notin N, l # NULL, Chain(h, l, s),
         NEW n, n = Len(s)
  PROVE  Walks(h, l, s, n)
<1>1. /\ n \in Nat /\ At(l, s, 0) = l /\ At(l, s, n + 1) = l
      /\ \A k \in 1 .. n : At(l, s, k) = s[k] /\ s[k] \in N
  BY DEF At
<1>2. \A k \in 0 .. n + 1 : At(l, s, k) # NULL
  BY <1>1
<1>3. \A k \in 0 .. n : /\ h.next[At(l, s, k)] = At(l, s, k + 1)
                        /\ h.prev[At(l, s, k + 1)] = At(l, s, k)
  BY DEF Chain
<1>4. ASSUME NEW m \in 0 .. n + 1 PROVE Walk(h, l, m, TRUE) = [k \in 1 .. m |-> At(l, s, k)]
  <2>. DEFINE w == [k \in 0 .. m |-> At(l, s, k)]
  <2>1. ASSUME NEW i \in 1 .. m PROVE w[i] = IF w[i - 1] = NULL THEN NULL ELSE h.next[w[i - 1]]
    <3>1. i - 1 \in 0 .. n /\ i - 1 \in 0 .. n + 1 /\ (i - 1) + 1 = i /\ i \in 0 .. m /\ i - 1 \in 0 .. m
      BY <1>1
    <3>. QED  BY <1>2, <1>3, <3>1
  <2>2. w[0] = l
    BY <1>1
  <2>3. \A k \in 1 .. m : w[k] = At(l, s, k)
    OBVIOUS
  <2>. HIDE DEF w
  <2>4. m \in Nat /\ GoesOn(w, l, m, h.next)
    BY <1>1, <2>1, <2>2 DEF GoesOn
  <2>5. h.next = (IF TRUE THEN h.next ELSE h.prev)
    OBVIOUS
  <2>6. Meets(h, l, m, TRUE, w)
    BY <2>4, <2>5, WalkMeets
  <2>7. Walk(h, l, m, TRUE) = [k \in 1 .. m |-> w[k]]
    BY <2>6 DEF Meets
  <2>. QED  BY <2>3, <2>7
<1>5. ASSUME NEW m \in 0 .. n + 1 PROVE Walk(h, l, m, FALSE) = [k \in 1 .. m |-> At(l, s, n + 1 - k)]
  <2>. DEFINE w == [k \in 0 .. m |-> At(l, s, n + 1 - k)]
  <2>1. ASSUME NEW i \in 1 .. m PROVE w[i] = IF w[i - 1] = NULL THEN NULL ELSE h.prev[w[i - 1]]
    <3>1. PICK j : j = n + 1 - i
      OBVIOUS
    <3>2. j \in 0 .. n /\ j + 1 \in 0 .. n + 1 /\ n + 1 - (i - 1) = j + 1 /\ i \in 0 .. m /\ i - 1 \in 0 .. m
      BY <1>1, <3>1
    <3>3. w[i] = At(l, s, j) /\ w[i - 1] = At(l, s, j + 1)
      BY <3>1, <3>2
    <3>. QED  BY <1>2, <1>3, <3>2, <3>3
  <2>2. w[0] = l
    BY <1>1
  <2>3. \A k \in 1 .. m : w[k] = At(l, s, n + 1 - k)
    OBVIOUS
  <2>. HIDE DEF w
  <2>4. m \in Nat /\ GoesOn(w, l, m, h.prev)
    BY <1>1, <2>1, <2>2 DEF GoesOn
  <2>5. h.prev = (IF FALSE THEN h.next ELSE h.prev)
    OBVIOUS
  <2>6. Meets(h, l, m, FALSE, w)
    BY <2>4, <2>5, WalkMeets
  <2>7. Walk(h, l, m, FALSE) = [k \in 1 .. m |-> w[k]]
    BY <2>6 DEF Meets
  <2>. QED  BY <2>3, <2>7
<1>6. Walk(h, l, n, TRUE) = s
  <2>1. n \in 0 .. n + 1
    BY <1>1
  <2>2. Walk(h, l, n, TRUE) = [k \in 1 .. n |-> s[k]]
    BY <1>1, <1>4, <2>1
  <2>3. s \in [1 .. n -> N]
    OBVIOUS
  <2>. QED  BY <2>2, <2>3
<1>. QED  BY <1>4, <1>5, <1>6 DEF Walks

-----------------------------------------------------------------------------
(* Removals, one after the other.                                          *)

(* The list with the head l holds the nodes of s.                          *)
OnHeap(h, P, N, l, s) ==
  /\ h \in Heap(P) /\ N \subseteq P /\ l \in P /\ s \in Seq(N)
  /\ Chain(h, l, s) /\ Distinct(l, s)

Agree(s, t) == Len(s) = Len(t) /\ \A x \in 1 .. Len(s) : At(NULL, s, x) = At(NULL, t, x)

LEMMA SameAt ==
  ASSUME NEW N, NEW s, s \in Seq(N), NEW t, t \in Seq(N), Agree(s, t)
  PROVE  s = t
<1>1. Len(s) = Len(t) /\ \A x \in 1 .. Len(s) : s[x] = t[x]
  BY DEF At, Agree
<1>. QED  BY <1>1

(* To cut out a range of nodes and then its neighbour is to cut out both.  *)
CutsJoin(s, i, j) ==
  /\ j < Len(s) => Cut(Cut(s, i, j), i, i + 1) = Cut(s, i, j + 1)
  /\ 0 < i => Cut(Cut(s, i, j), i - 1, i) = Cut(s, i - 1, j)

LEMMA CutCut ==
  ASSUME NEW N, NEW s, s \in Seq(N), NEW i, i \in Nat, NEW j, j \in Nat, i <= j, j <= Len(s)
  PROVE  CutsJoin(s, i, j)
<1>1. PICK c, n, d : c = Cut(s, i, j) /\ n = Len(s) /\ d = j - i
  OBVIOUS
<1>2. /\ c \in Seq(N) /\ Len(c) = n - d
      /\ \A r : \A x \in 0 .. n - d + 1 : At(r, c, x) = IF x <= i THEN At(r, s, x) ELSE At(r, s, x + d)
  <2>1. IsCut(c, N, s, i, d)
    BY <1>1, CutOut
  <2>. QED  BY <1>1, <2>1 DEF IsCut
<1>3. n \in Nat /\ d \in Nat /\ d <= n /\ i + d = j
  BY <1>1
<1>4. ASSUME j < n PROVE Cut(c, i, i + 1) = Cut(s, i, j + 1)
  <2>1. PICK u, v : u = Cut(c, i, i + 1) /\ v = Cut(s, i, j + 1)
    OBVIOUS
  <2>2. i <= i + 1 /\ i + 1 \in Nat /\ i + 1 <= n - d /\ (i + 1) - i = 1
    BY <1>3, <1>4
  <2>3. /\ u \in Seq(N) /\ Len(u) = (n - d) - 1
        /\ \A r : \A x \in 0 .. (n - d) - 1 + 1 : At(r, u, x) = IF x <= i THEN At(r, c, x) ELSE At(r, c, x + 1)
    <3>1. IsCut(u, N, c, i, 1)
      BY <1>2, <2>1, <2>2, CutOut
    <3>. QED  BY <1>2, <3>1 DEF IsCut
  <2>4. i <= j + 1 /\ j + 1 \in Nat /\ j + 1 <= n /\ (j + 1) - i = d + 1
    BY <1>3, <1>4
  <2>5. /\ v \in Seq(N) /\ Len(v) = n - (d + 1)
        /\ \A r : \A x \in 0 .. n - (d + 1) + 1 : At(r, v, x) = IF x <= i THEN At(r, s, x) ELSE At(r, s, x + (d + 1))
    <3>1. IsCut(v, N, s, i, d + 1)
      BY <1>1, <2>1, <2>4, CutOut
    <3>. QED  BY <1>1, <3>1 DEF IsCut
  <2>6. Len(u) = Len(v)
    BY <1>3, <2>3, <2>5
  <2>7. ASSUME NEW x \in 1 .. Len(u) PROVE At(NULL, u, x) = At(NULL, v, x)
    <3>1. /\ x \in 0 .. (n - d) - 1 + 1 /\ x \in 0 .. n - (d + 1) + 1
          /\ x \in 0 .. n - d + 1 /\ x + 1 \in 0 .. n - d + 1 /\ (x + 1) + d = x + (d + 1)
      BY <1>3, <2>3
    <3>2. CASE x <= i
      BY <1>2, <2>3, <2>5, <3>1, <3>2
    <3>3. CASE ~(x <= i)
      <4>1. ~(x + 1 <= i)
        BY <3>1, <3>3
      <4>. QED  BY <1>2, <2>3, <2>5, <3>1, <3>3, <4>1
    <3>. QED  BY <3>2, <3>3
  <2>8. Agree(u, v)
    BY <2>6, <2>7 DEF Agree
  <2>9. u = v
    BY <2>3, <2>5, <2>8, SameAt
  <2>. QED  BY <2>1, <2>9
<1>5. ASSUME 0 < i PROVE Cut(c, i - 1, i) = Cut(s, i - 1, j)
  <2>1. PICK u, v : u = Cut(c, i - 1, i) /\ v = Cut(s, i - 1, j)
    OBVIOUS
  <2>2. i - 1 <= i /\ i - 1 \in Nat /\ i <= n - d /\ i - (i - 1) = 1
    BY <1>1, <1>3, <1>5
  <2>3. /\ u \in Seq(N) /\ Len(u) = (n - d) - 1
        /\ \A r : \A x \in 0 .. (n - d) - 1 + 1 : At(r, u, x) = IF x <= i - 1 THEN At(r, c, x) ELSE At(r, c, x + 1)
    <3>1. IsCut(u, N, c, i - 1, 1)
      BY <1>2, <2>1, <2>2, CutOut
    <3>. QED  BY <1>2, <3>1 DEF IsCut
  <2>4. i - 1 <= j /\ j - (i - 1) = d + 1 /\ j <= n
    BY <1>1, <1>3, <1>5
  <2>5. /\ v \in Seq(N) /\ Len(v) = n - (d + 1)
        /\ \A r : \A x \in 0 .. n - (d + 1) + 1 : At(r, v, x) = IF x <= i - 1 THEN At(r, s, x) ELSE At(r, s, x + (d + 1))
    <3>1. IsCut(v, N, s, i - 1, d + 1)
      BY <1>1, <2>1, <2>2, <2>4, CutOut
    <3>. QED  BY <1>1, <3>1 DEF IsCut
  <2>6. Len(u) = Len(v)
    BY <1>3, <2>3, <2>5
  <2>7. ASSUME NEW x \in 1 .. Len(u) PROVE At(NULL, u, x) = At(NULL, v, x)
    <3>1. /\ x \in 0 .. (n - d) - 1 + 1 /\ x \in 0 .. n - (d + 1) + 1
          /\ x \in 0 .. n - d + 1 /\ x + 1 \in 0 .. n - d + 1 /\ (x + 1) + d = x + (d + 1)
      BY <1>3, <2>3
    <3>2. CASE x <= i - 1
      <4>1. x <= i
        BY <3>1, <3>2
      <4>. QED  BY <1>2, <2>3, <2>5, <3>1, <3>2, <4>1
    <3>3. CASE ~(x <= i - 1)
      <4>1. ~(x + 1 <= i)
        BY <3>1, <3>3
      <4>. QED  BY <1>2, <2>3, <2>5, <3>1, <3>3, <4>1
    <3>. QED  BY <3>2, <3>3
  <2>8. Agree(u, v)
    BY <2>6, <2>7 DEF Agree
  <2>9. u = v
    BY <2>3, <2>5, <2>8, SameAt
  <2>. QED  BY <2>1, <2>9
<1>. QED  BY <1>1, <1>4, <1>5 DEF CutsJoin

(* Nothing cut out.                                                        *)
LEMMA CutNothing ==
  ASSUME NEW P, NEW N, NEW l, NEW s, NEW h, OnHeap(h, P, N, l, s), NEW i, i \in Nat, i <= Len(s)
  PROVE  Cutting(h, h, P, N, l, s, i, i)
<1>1. PICK c, n : c = Cut(s, i, i) /\ n = Len(s)
  OBVIOUS
<1>2. s \in Seq(N) /\ n \in Nat /\ h \in Heap(P) /\ Chain(h, l, s) /\ Distinct(l, s)
  BY <1>1 DEF OnHeap
<1>3. i - i = 0 /\ n - 0 = n /\ i <= i /\ i <= n
  BY <1>1, <1>2
<1>4. /\ c \in Seq(N) /\ Len(c) = n - 0
      /\ \A r : \A x \in 0 .. n - 0 + 1 : At(r, c, x) = IF x <= i THEN At(r, s, x) ELSE At(r, s, x + 0)
  <2>1. IsCut(c, N, s, i, 0)
    BY <1>1, <1>2, <1>3, CutOut
  <2>. QED  BY <1>1, <2>1 DEF IsCut
<1>5. c = s
  <2>1. ASSUME NEW x \in 1 .. Len(c) PROVE At(NULL, c, x) = At(NULL, s, x)
    <3>1. x \in 0 .. n - 0 + 1 /\ x + 0 = x
      BY <1>2, <1>4
    <3>. QED  BY <1>4, <3>1
  <2>2. Agree(c, s)
    BY <1>1, <1>3, <1>4, <2>1 DEF Agree
  <2>. QED  BY <1>2, <1>4, <2>2, SameAt
<1>6. {At(l, s, x) : x \in i + 1 .. i} = {}
  OBVIOUS
<1>. QED  BY <1>1, <1>2, <1>5, <1>6 DEF Cutting, Same

(* dmbListRemove cuts out a single node.                                   *)
LEMMA RemoveIsCut ==
  ASSUME NEW P, NEW N, NEW l, NEW s, NEW h, OnHeap(h, P, N, l, s), NEW k, k \in 1 .. Len(s),
         NEW g, g = dmbListRemove(h, At(l, s, k))
  PROVE  Cutting(g, h, P, N, l, s, k - 1, k)
<1>1. PICK n \in Nat : n = Len(s)
  BY DEF OnHeap
<1>2. /\ s \in Seq(N) /\ h \in Heap(P) /\ Chain(h, l, s) /\ Distinct(l, s) /\ N \subseteq P /\ l \in P
  BY DEF OnHeap
<1>3. PICK a, b, c : a = At(l, s, k - 1) /\ b = At(l, s, k) /\ c = At(l, s, k + 1)
  OBVIOUS
<1>4. k - 1 \in 0 .. n /\ k \in 0 .. n /\ (k - 1) + 1 = k /\ k - 1 \in Nat /\ k - 1 <= k /\ k <= n /\ k \in Nat
  BY <1>1
<1>5. h.next[b] = c /\ h.prev[b] = a
  BY <1>1, <1>2, <1>3, <1>4 DEF Chain
<1>6. b # c
  <2>1. CASE k = n
    <3>1. c = l /\ At(l, s, 0) = l /\ 0 \in 0 .. n /\ k # 0
      BY <1>1, <1>3, <1>4, <2>1 DEF At
    <3>. QED  BY <1>1, <1>2, <1>3, <1>4, <3>1 DEF Distinct
  <2>2. CASE k # n
    <3>1. k + 1 \in 0 .. n /\ k + 1 # k
      BY <1>1, <1>4, <2>2
    <3>. QED  BY <1>1, <1>2, <1>3, <1>4, <3>1 DEF Distinct
  <2>. QED  BY <2>1, <2>2
<1>7. [h.prev EXCEPT ![c] = a][b] = a
  <2>1. b \in P
    <3>1. b = s[k] /\ s[k] \in N
      BY <1>1, <1>2, <1>3 DEF At
    <3>. QED  BY <1>2, <3>1
  <2>2. h.prev \in [P -> P \cup {NULL}]
    BY <1>2 DEF Heap
  <2>. QED  BY <1>5, <1>6, <2>1, <2>2
<1>8. g = [next |-> [h.next EXCEPT ![a] = c], prev |-> [h.prev EXCEPT ![c] = a]]
  <2>1. g = dmbListRemove(h, b)
    BY <1>3
  <2>. QED  BY <1>5, <1>7, <2>1 DEF dmbListRemove
<1>. QED  BY <1>1, <1>2, <1>3, <1>4, <1>8, CutChain

(* What was cut out is followed by one node more, behind or in front.      *)
LEMMA CutOneMore ==
  ASSUME NEW P, NEW N, NEW l, NEW s, NEW h, OnHeap(h, P, N, l, s),
         NEW i, i \in Nat, NEW j, j \in Nat, i <= j, j <= Len(s), NEW g, Cutting(g, h, P, N, l, s, i, j),
         NEW k, (k = j + 1 /\ j < Len(s)) \/ (k = i /\ 0 < i), NEW f, f = dmbListRemove(g, At(l, s, k))
  PROVE  Cutting(f, h, P, N, l, s, IF k = i THEN i - 1 ELSE i, IF k = i THEN j ELSE k)
<1>1. PICK n, d, c : n = Len(s) /\ d = j - i /\ c = Cut(s, i, j)
  OBVIOUS
<1>2. /\ s \in Seq(N) /\ h \in Heap(P) /\ N \subseteq P /\ l \in P
  BY DEF OnHeap
<1>3. n \in Nat /\ d \in Nat /\ d <= n /\ i + d = j
  BY <1>1, <1>2
<1>4. /\ g \in Heap(P) /\ Chain(g, l, c) /\ Distinct(l, c) /\ c \in Seq(N)
      /\ Members(l, c) = Members(l, s) \ {At(l, s, x) : x \in i + 1 .. j}
      /\ Same(g, h, P \ Members(l, s))
  BY <1>1 DEF Cutting
<1>5. OnHeap(g, P, N, l, c)
  BY <1>2, <1>4 DEF OnHeap
<1>6. /\ Len(c) = n - d
      /\ \A x \in 0 .. n - d + 1 : At(l, c, x) = IF x <= i THEN At(l, s, x) ELSE At(l, s, x + d)
  <2>1. IsCut(c, N, s, i, d)
    BY <1>1, <1>2, CutOut
  <2>. QED  BY <1>1, <2>1 DEF IsCut
<1>7. CASE k = j + 1 /\ j < n
  <2>1. k # i /\ i + 1 \in 1 .. n - d /\ i + 1 \in 0 .. n - d + 1 /\ ~(i + 1 <= i) /\ (i + 1) + d = k /\ (i + 1) - 1 = i
    BY <1>3, <1>7
  <2>2. At(l, c, i + 1) = At(l, s, k)
    BY <1>6, <2>1
  <2>3. Cutting(f, g, P, N, l, c, i, i + 1)
    <3>1. f = dmbListRemove(g, At(l, c, i + 1)) /\ i + 1 \in 1 .. Len(c)
      BY <1>6, <2>1, <2>2
    <3>2. Cutting(f, g, P, N, l, c, (i + 1) - 1, i + 1)
      BY <1>5, <3>1, RemoveIsCut
    <3>. QED  BY <2>1, <3>2
  <2>4. Cut(c, i, i + 1) = Cut(s, i, k)
    <3>1. CutsJoin(s, i, j)
      BY <1>2, CutCut
    <3>. QED  BY <1>1, <1>7, <3>1 DEF CutsJoin
  <2>5. /\ f \in Heap(P) /\ Chain(f, l, Cut(s, i, k)) /\ Distinct(l, Cut(s, i, k)) /\ Cut(s, i, k) \in Seq(N)
        /\ Members(l, Cut(s, i, k)) = Members(l, c) \ {At(l, c, x) : x \in i + 1 .. i + 1}
        /\ Same(f, g, P \ Members(l, c))
    BY <2>3, <2>4 DEF Cutting
  <2>6. Members(l, Cut(s, i, k)) = Members(l, s) \ {At(l, s, x) : x \in i + 1 .. k}
    <3>1. {At(l, c, x) : x \in i + 1 .. i + 1} = {At(l, s, k)}
      BY <2>1, <2>2
    <3>2. {At(l, s, x) : x \in i + 1 .. k} = {At(l, s, x) : x \in i + 1 .. j} \cup {At(l, s, k)}
      <4>1. \A x : x \in i + 1 .. k <=> x \in i + 1 .. j \/ x = k
        BY <1>7
      <4>. QED  BY <4>1
    <3>. QED  BY <1>4, <2>5, <3>1, <3>2
  <2>7. Same(f, h, P \ Members(l, s))
    BY <1>4, <2>5 DEF Same
  <2>. QED  BY <2>1, <2>5, <2>6, <2>7 DEF Cutting
<1>8. CASE k = i /\ 0 < i
  <2>1. i \in 1 .. n - d /\ i \in 0 .. n - d + 1 /\ i <= i
    BY <1>1, <1>3, <1>8
  <2>2. At(l, c, i) = At(l, s, k)
    BY <1>6, <1>8, <2>1
  <2>3. Cutting(f, g, P, N, l, c, i - 1, i)
    <3>1. f = dmbListRemove(g, At(l, c, i)) /\ i \in 1 .. Len(c)
      BY <1>6, <2>1, <2>2
    <3>. QED  BY <1>5, <3>1, RemoveIsCut
  <2>4. Cut(c, i - 1, i) = Cut(s, i - 1, j)
    <3>1. CutsJoin(s, i, j)
      BY <1>2, CutCut
    <3>. QED  BY <1>1, <1>8, <3>1 DEF CutsJoin
  <2>5. /\ f \in Heap(P) /\ Chain(f, l, Cut(s, i - 1, j)) /\ Distinct(l, Cut(s, i - 1, j)) /\ Cut(s, i - 1, j) \in Seq(N)
        /\ Members(l, Cut(s, i - 1, j)) = Members(l, c) \ {At(l, c, x) : x \in (i - 1) + 1 .. i}
        /\ Same(f, g, P \ Members(l, c))
    BY <2>3, <2>4 DEF Cutting
  <2>6. Members(l, Cut(s, i - 1, j)) = Members(l, s) \ {At(l, s, x) : x \in (i - 1) + 1 .. j}
    <3>1. {At(l, c, x) : x \in (i - 1) + 1 .. i} = {At(l, s, k)}
      <4>1. \A x : x \in (i - 1) + 1 .. i <=> x = i
        BY <1>8
      <4>. QED  BY <2>2, <4>1
    <3>2. {At(l, s, x) : x \in (i - 1) + 1 .. j} = {At(l, s, x) : x \in i + 1 .. j} \cup {At(l, s, k)}
      <4>1. \A x : x \in (i - 1) + 1 .. j <=> x \in i + 1 .. j \/ x = k
        BY <1>8
      <4>. QED  BY <4>1
    <3>. QED  BY <1>4, <2>5, <3>1, <3>2
  <2>7. Same(f, h, P \ Members(l, s))
    BY <1>4, <2>5 DEF Same
  <2>. QED  BY <1>8, <2>5, <2>6, <2>7 DEF Cutting
<1>. QED  BY <1>1, <1>7, <1>8

-----------------------------------------------------------------------------
(* The loop of RemoveRange and GetRange.                                   *)

(* The neighbours, behind or in front of what was cut out, of a node that  *)
(* is still there.                                                         *)
StillNext(g, l, s, i, j) ==
  \A k \in 0 .. Len(s) : k < i \/ i = j \/ k > j => g.next[At(l, s, k)] = At(l, s, k + 1)
StillPrev(g, l, s, i, j) ==
  \A k \in 1 .. Len(s) : k <= i \/ i = j => g.prev[At(l, s, k)] = At(l, s, k - 1)

LEMMA StillThere ==
  ASSUME NEW P, NEW N, NEW l, NEW s, NEW h, OnHeap(h, P, N, l, s),
         NEW i, i \in Nat, NEW j, j \in Nat, i <= j, j <= Len(s), NEW g, Cutting(g, h, P, N, l, s, i, j)
  PROVE  StillNext(g, l, s, i, j) /\ StillPrev(g, l, s, i, j)
<1>1. PICK n, d, c : n = Len(s) /\ d = j - i /\ c = Cut(s, i, j)
  OBVIOUS
<1>2. s \in Seq(N)
  BY DEF OnHeap
<1>3. n \in Nat /\ d \in Nat /\ d <= n /\ i + d = j /\ (i = j => d = 0)
  BY <1>1, <1>2
<1>4. Chain(g, l, c)
  BY <1>1 DEF Cutting
<1>5. /\ Len(c) = n - d
      /\ \A x \in 0 .. n - d + 1 : At(l, c, x) = IF x <= i THEN At(l, s, x) ELSE At(l, s, x + d)
  <2>1. IsCut(c, N, s, i, d)
    BY <1>1, <1>2, CutOut
  <2>. QED  BY <1>1, <2>1 DEF IsCut
<1>6. \A x \in 0 .. n - d : /\ g.next[At(l, c, x)] = At(l, c, x + 1)
                            /\ g.prev[At(l, c, x + 1)] = At(l, c, x)
  BY <1>4, <1>5 DEF Chain
<1>7. ASSUME NEW k \in 0 .. n, k < i \/ i = j \/ k > j PROVE g.next[At(l, s, k)] = At(l, s, k + 1)
  <2>1. CASE k < i
    <3>1. k \in 0 .. n - d /\ k \in 0 .. n - d + 1 /\ k + 1 \in 0 .. n - d + 1 /\ k <= i /\ k + 1 <= i
      BY <1>1, <1>3, <2>1
    <3>. QED  BY <1>5, <1>6, <3>1
  <2>2. CASE i = j
    <3>1. /\ k \in 0 .. n - d /\ k \in 0 .. n - d + 1 /\ k + 1 \in 0 .. n - d + 1
          /\ k + d = k /\ (k + 1) + d = k + 1
      BY <1>3, <2>2
    <3>2. At(l, c, k) = At(l, s, k) /\ At(l, c, k + 1) = At(l, s, k + 1)
      BY <1>5, <3>1
    <3>. QED  BY <1>6, <3>1, <3>2
  <2>3. CASE k > j
    <3>1. PICK x : x = k - d
      OBVIOUS
    <3>2. /\ x \in 0 .. n - d /\ x \in 0 .. n - d + 1 /\ x + 1 \in 0 .. n - d + 1
          /\ ~(x <= i) /\ ~(x + 1 <= i) /\ x + d = k /\ (x + 1) + d = k + 1
      BY <1>3, <2>3, <3>1
    <3>3. At(l, c, x) = At(l, s, k) /\ At(l, c, x + 1) = At(l, s, k + 1)
      BY <1>5, <3>2
    <3>. QED  BY <1>6, <3>2, <3>3
  <2>. QED  BY <1>7, <2>1, <2>2, <2>3
<1>8. ASSUME NEW k \in 1 .. n, k <= i \/ i = j PROVE g.prev[At(l, s, k)] = At(l, s, k - 1)
  <2>1. PICK x : x = k - 1
    OBVIOUS
  <2>2. /\ x \in 0 .. n - d /\ x \in 0 .. n - d + 1 /\ x + 1 \in 0 .. n - d + 1 /\ x + 1 = k
        /\ (x + 1 <= i => x <= i) /\ (i = j => x + d = x /\ (x + 1) + d = x + 1)
    BY <1>1, <1>3, <1>8, <2>1
  <2>3. At(l, c, x) = At(l, s, x) /\ At(l, c, x + 1) = At(l, s, x + 1)
    BY <1>5, <1>8, <2>2
  <2>. QED  BY <1>6, <2>1, <2>2, <2>3
<1>. QED  BY <1>1, <1>7, <1>8 DEF StillNext, StillPrev

(* The nodes behind the i-th up to the j-th, in the order of the loop.     *)
Met(fromEnd, s, i, j) == [y \in 1 .. j - i |-> IF fromEnd THEN s[j + 1 - y] ELSE s[i + y]]

MetGrows(N, s, i, j) ==
  /\ \A fromEnd \in BOOLEAN : Met(fromEnd, s, i, j) \in Seq(N) /\ Len(Met(fromEnd, s, i, j)) = j - i
  /\ j < Len(s) => Append(Met(FALSE, s, i, j), s[j + 1]) = Met(FALSE, s, i, j + 1)
  /\ 0 < i => Append(Met(TRUE, s, i, j), s[i]) = Met(TRUE, s, i - 1, j)

LEMMA MetOneMore ==
  ASSUME NEW N, NEW s, s \in Seq(N), NEW i, i \in Nat, NEW j, j \in Nat, i <= j, j <= Len(s)
  PROVE  MetGrows(N, s, i, j)
<1>1. PICK n, d : n = Len(s) /\ d = j - i
  OBVIOUS
<1>2. n \in Nat /\ d \in Nat /\ i + d = j /\ \A x \in 1 .. n : s[x] \in N
  BY <1>1
<1>3. PICK a, b : a = Met(FALSE, s, i, j) /\ b = Met(TRUE, s, i, j)
  OBVIOUS
<1>4. \A y \in 1 .. d : i + y \in 1 .. n /\ j + 1 - y \in 1 .. n
  BY <1>1, <1>2
<1>5. a = [y \in 1 .. d |-> s[i + y]] /\ b = [y \in 1 .. d |-> s[j + 1 - y]]
  BY <1>1, <1>3 DEF Met
<1>6. a \in [1 .. d -> N] /\ b \in [1 .. d -> N]
  BY <1>2, <1>4, <1>5
<1>7. a \in Seq(N) /\ Len(a) = d /\ b \in Seq(N) /\ Len(b) = d
  BY <1>2, <1>6
<1>8. ASSUME j < n PROVE Append(a, s[j + 1]) = Met(FALSE, s, i, j + 1)
  <2>1. (j + 1) - i = d + 1 /\ i + (d + 1) = j + 1
    BY <1>2
  <2>2. Met(FALSE, s, i, j + 1) = [y \in 1 .. d + 1 |-> s[i + y]]
    BY <2>1 DEF Met
  <2>3. Append(a, s[j + 1]) = [y \in 1 .. d + 1 |-> IF y <= d THEN a[y] ELSE s[j + 1]]
    BY <1>2, <1>7
  <2>4. ASSUME NEW y \in 1 .. d + 1 PROVE (IF y <= d THEN a[y] ELSE s[j + 1]) = s[i + y]
    <3>1. CASE y <= d
      <4>1. y \in 1 .. d
        BY <1>2, <3>1
      <4>. QED  BY <1>5, <3>1, <4>1
    <3>2. CASE ~(y <= d)
      <4>1. y = d + 1
        BY <1>2, <3>2
      <4>. QED  BY <2>1, <3>2, <4>1
    <3>. QED  BY <3>1, <3>2
  <2>. QED  BY <2>2, <2>3, <2>4
<1>9. ASSUME 0 < i PROVE Append(b, s[i]) = Met(TRUE, s, i - 1, j)
  <2>1. j - (i - 1) = d + 1 /\ j + 1 - (d + 1) = i
    BY <1>2
  <2>2. Met(TRUE, s, i - 1, j) = [y \in 1 .. d + 1 |-> s[j + 1 - y]]
    BY <2>1 DEF Met
  <2>3. Append(b, s[i]) = [y \in 1 .. d + 1 |-> IF y <= d THEN b[y] ELSE s[i]]
    BY <1>2, <1>7
  <2>4. ASSUME NEW y \in 1 .. d + 1 PROVE (IF y <= d THEN b[y] ELSE s[i]) = s[j + 1 - y]
    <3>1. CASE y <= d
      <4>1. y \in 1 .. d
        BY <1>2, <3>1
      <4>. QED  BY <1>5, <3>1, <4>1
    <3>2. CASE ~(y <= d)
      <4>1. y = d + 1
        BY <1>2, <3>2
      <4>. QED  BY <2>1, <3>2, <4>1
    <3>. QED  BY <3>1, <3>2
  <2>. QED  BY <2>2, <2>3, <2>4
<1>. QED  BY <1>1, <1>3, <1>7, <1>8, <1>9 DEF MetGrows

IterAt(a, b, c, reverse) == [node |-> a, next |-> b, prev |-> c, reverse |-> reverse]

LEMMA IterNext ==
  ASSUME NEW h, NEW a, NEW b, NEW c, NEW reverse, NEW d, reverse => d = c, ~reverse => d = b
  PROVE  dmbListNext(h, IterAt(a, b, c, reverse)) = IterAt(d, h.next[d], h.prev[d], reverse)
<1>1. PICK iter : iter = IterAt(a, b, c, reverse)
  OBVIOUS
<1>2. iter.reverse = reverse /\ iter.next = b /\ iter.prev = c
  BY <1>1 DEF IterAt
<1>3. d = IF iter.reverse THEN iter.prev ELSE iter.next
  BY <1>2
<1>4. dmbListNext(h, iter) = [iter EXCEPT !.node = d, !.next = h.next[d], !.prev = h.prev[d]]
  BY <1>3 DEF dmbListNext
<1>5. [IterAt(a, b, c, reverse) EXCEPT !.node = d, !.next = h.next[d], !.prev = h.prev[d]]
        = IterAt(d, h.next[d], h.prev[d], reverse)
  <2>1. PICK x, y : x = h.next[d] /\ y = h.prev[d]
    OBVIOUS
  <2>2. [[node |-> a, next |-> b, prev |-> c, reverse |-> reverse] EXCEPT !.node = d]
          = [node |-> d, next |-> b, prev |-> c, reverse |-> reverse]
    OBVIOUS
  <2>3. [[node |-> d, next |-> b, prev |-> c, reverse |-> reverse] EXCEPT !.next = x]
          = [node |-> d, next |-> x, prev |-> c, reverse |-> reverse]
    OBVIOUS
  <2>4. [[node |-> d, next |-> x, prev |-> c, reverse |-> reverse] EXCEPT !.prev = y]
          = [node |-> d, next |-> x, prev |-> y, reverse |-> reverse]
    OBVIOUS
  <2>. QED  BY <2>1, <2>2, <2>3, <2>4 DEF IterAt
<1>. QED  BY <1>1, <1>4, <1>5

LEMMA IterForwards ==
  ASSUME NEW h, NEW a, NEW b, NEW c
  PROVE  dmbListNext(h, IterAt(a, b, c, FALSE)) = IterAt(b, h.next[b], h.prev[b], FALSE)
<1>1. PICK r : r = FALSE
  OBVIOUS
<1>2. (r => b = c) /\ (~r => b = b)
  BY <1>1
<1>3. dmbListNext(h, IterAt(a, b, c, r)) = IterAt(b, h.next[b], h.prev[b], r)
  BY <1>2, IterNext
<1>. QED  BY <1>1, <1>3

(* The loop over the list of s after some turns: the iterator is at its    *)
(* p-th node, and the nodes behind the i-th up to the j-th have been met.  *)
Turned(x, fromEnd, removing, h, P, N, l, s, i, j, p) ==
  \E g, a, b, c :
    /\ x = [h |-> g, iter |-> IterAt(a, b, c, fromEnd), met |-> Met(fromEnd, s, i, j)]
    /\ IF removing THEN Cutting(g, h, P, N, l, s, i, j) ELSE g = h
    /\ IF fromEnd THEN c = At(l, s, p - 1) ELSE b = At(l, s, p + 1)

LEMMA TurnedIs ==
  ASSUME NEW x, NEW fromEnd, NEW removing, NEW h, NEW P, NEW N, NEW l, NEW s, NEW i, NEW j, NEW p,
         NEW g, NEW a, NEW b, NEW c,
         x = [h |-> g, iter |-> IterAt(a, b, c, fromEnd), met |-> Met(fromEnd, s, i, j)],
         IF removing THEN Cutting(g, h, P, N, l, s, i, j) ELSE g = h,
         IF fromEnd THEN c = At(l, s, p - 1) ELSE b = At(l, s, p + 1)
  PROVE  Turned(x, fromEnd, removing, h, P, N, l, s, i, j, p)
BY DEF Turned

(* The neighbours on the heap of the loop.                                 *)
LEMMA LoopNeighbours ==
  ASSUME NEW P, NEW N, NEW l, NEW s, NEW h, OnHeap(h, P, N, l, s),
         NEW i, i \in Nat, NEW j, j \in Nat, i <= j, j <= Len(s),
         NEW removing, NEW g, IF removing THEN Cutting(g, h, P, N, l, s, i, j) ELSE g = h
  PROVE  StillNext(g, l, s, i, j) /\ StillPrev(g, l, s, i, j)
<1>1. CASE removing
  BY <1>1, StillThere
<1>2. CASE ~removing
  <2>1. s \in Seq(N) /\ Chain(h, l, s) /\ g = h /\ Len(s) \in Nat
    BY <1>2 DEF OnHeap
  <2>2. \A k \in 0 .. Len(s) : g.next[At(l, s, k)] = At(l, s, k + 1)
    BY <2>1 DEF Chain
  <2>3. ASSUME NEW k \in 1 .. Len(s) PROVE g.prev[At(l, s, k)] = At(l, s, k - 1)
    <3>1. k - 1 \in 0 .. Len(s) /\ (k - 1) + 1 = k
      BY <2>1
    <3>2. g.prev[At(l, s, (k - 1) + 1)] = At(l, s, k - 1)
      BY <2>1, <3>1 DEF Chain
    <3>. QED  BY <3>1, <3>2
  <2>. QED  BY <2>2, <2>3 DEF StillNext, StillPrev
<1>. QED  BY <1>1, <1>2

LEMMA NotTheHead ==
  ASSUME NEW P, NEW N, NEW l, NEW s, NEW h, OnHeap(h, P, N, l, s), NEW k, k \in 1 .. Len(s)
  PROVE  At(l, s, k) # l /\ At(l, s, k) = s[k] /\ s[k] \in N
<1>1. s \in Seq(N) /\ Distinct(l, s)
  BY DEF OnHeap
<1>2. k \in 0 .. Len(s) /\ 0 \in 0 .. Len(s) /\ k # 0 /\ At(l, s, 0) = l
  BY <1>1 DEF At
<1>3. At(l, s, k) # l
  BY <1>1, <1>2 DEF Distinct
<1>. QED  BY <1>1, <1>3 DEF At

(* A turn from the front.                                                  *)
LEMMA TurnForwards ==
  ASSUME NEW P, NEW N, NEW l, NEW s, NEW h, OnHeap(h, P, N, l, s), NEW removing \in BOOLEAN,
         NEW i, i \in Nat, NEW uEnd, uEnd \in Nat, i <= uEnd, uEnd < Len(s), NEW p, p \in Nat, p <= uEnd,
         NEW x, Turned(x, FALSE, removing, h, P, N, l, s, i, IF p < i THEN i ELSE p, p),
         NEW y, y = LoopTurn(x, p, l, i, uEnd, removing)
  PROVE  Turned(y, FALSE, removing, h, P, N, l, s, i, IF p + 1 < i THEN i ELSE p + 1, p + 1)
<1>1. PICK n \in Nat : n = Len(s)
  BY DEF OnHeap
<1>2. PICK j : j = IF p < i THEN i ELSE p
  OBVIOUS
<1>3. j \in Nat /\ i <= j /\ j < n /\ j <= n
  BY <1>1, <1>2
<1>4. PICK g, a, b, c :
        /\ x = [h |-> g, iter |-> IterAt(a, b, c, FALSE), met |-> Met(FALSE, s, i, j)]
        /\ IF removing THEN Cutting(g, h, P, N, l, s, i, j) ELSE g = h
        /\ b = At(l, s, p + 1)
  BY <1>2 DEF Turned
<1>5. p + 1 \in 1 .. n /\ p + 1 \in 0 .. n
  BY <1>1
<1>6. b # l /\ b = s[p + 1] /\ b \in N
  BY <1>1, <1>4, <1>5, NotTheHead
<1>7. g.next[b] = At(l, s, (p + 1) + 1)
  <2>1. StillNext(g, l, s, i, j)
    BY <1>1, <1>3, <1>4, LoopNeighbours
  <2>2. p + 1 < i \/ i = j \/ p + 1 > j
    BY <1>2
  <2>. QED  BY <1>1, <1>4, <1>5, <2>1, <2>2 DEF StillNext
<1>8. PICK it : it = IterAt(b, g.next[b], g.prev[b], FALSE)
  OBVIOUS
<1>9. x.h = g /\ x.iter = IterAt(a, b, c, FALSE) /\ x.met = Met(FALSE, s, i, j)
  BY <1>4
<1>10. dmbListNext(x.h, x.iter) = it /\ it.node = b
  <2>2. dmbListNext(g, IterAt(a, b, c, FALSE)) = IterAt(b, g.next[b], g.prev[b], FALSE)
    BY IterForwards
  <2>. QED  BY <1>8, <1>9, <2>2 DEF IterAt
<1>11. CASE i <= p
  <2>1. y = [h |-> IF removing THEN dmbListRemove(g, b) ELSE g, iter |-> it,
             met |-> Append(Met(FALSE, s, i, j), b)]
    BY <1>6, <1>9, <1>10, <1>11 DEF LoopTurn
  <2>2. j = p /\ p + 1 = j + 1 /\ (IF p + 1 < i THEN i ELSE p + 1) = j + 1
    BY <1>2, <1>11
  <2>3. Append(Met(FALSE, s, i, j), b) = Met(FALSE, s, i, j + 1)
    <3>1. s \in Seq(N)
      BY DEF OnHeap
    <3>2. MetGrows(N, s, i, j)
      BY <1>1, <1>3, <3>1, MetOneMore
    <3>. QED  BY <1>1, <1>3, <1>6, <2>2, <3>2 DEF MetGrows
  <2>4. PICK f : f = IF removing THEN dmbListRemove(g, b) ELSE g
    OBVIOUS
  <2>5. IF removing THEN Cutting(f, h, P, N, l, s, i, j + 1) ELSE f = h
    <3>1. CASE removing
      <4>1. PICK k : k = j + 1
        OBVIOUS
      <4>2. Cutting(g, h, P, N, l, s, i, j) /\ f = dmbListRemove(g, At(l, s, k))
        BY <1>4, <2>2, <2>4, <3>1, <4>1
      <4>3. (k = j + 1 /\ j < Len(s)) /\ k # i
        BY <1>1, <1>3, <4>1
      <4>4. Cutting(f, h, P, N, l, s, IF k = i THEN i - 1 ELSE i, IF k = i THEN j ELSE k)
        BY <1>1, <1>3, <4>2, <4>3, CutOneMore
      <4>. QED  BY <3>1, <4>1, <4>3, <4>4
    <3>2. CASE ~removing
      BY <1>4, <2>4, <3>2
    <3>. QED  BY <3>1, <3>2
  <2>6. y = [h |-> f, iter |-> IterAt(b, g.next[b], g.prev[b], FALSE), met |-> Met(FALSE, s, i, j + 1)]
    BY <1>8, <2>1, <2>3, <2>4
  <2>7. Turned(y, FALSE, removing, h, P, N, l, s, i, j + 1, p + 1)
    BY <1>7, <2>5, <2>6 DEF Turned
  <2>. QED  BY <2>2, <2>7
<1>12. CASE ~(i <= p)
  <2>1. y = [x EXCEPT !.iter = it]
    BY <1>6, <1>10, <1>12 DEF LoopTurn
  <2>2. j = i /\ (IF p + 1 < i THEN i ELSE p + 1) = j
    BY <1>2, <1>12
  <2>3. y = [h |-> g, iter |-> IterAt(b, g.next[b], g.prev[b], FALSE), met |-> Met(FALSE, s, i, j)]
    BY <1>4, <1>8, <2>1
  <2>4. Turned(y, FALSE, removing, h, P, N, l, s, i, j, p + 1)
    BY <1>4, <1>7, <2>3 DEF Turned
  <2>. QED  BY <2>2, <2>4
<1>. QED  BY <1>11, <1>12

(* A turn from the end.                                                    *)
LEMMA TurnBackwards ==
  ASSUME NEW P, NEW N, NEW l, NEW s, NEW h, OnHeap(h, P, N, l, s), NEW removing \in BOOLEAN,
         NEW j, j \in Nat, j <= Len(s), NEW uStart, uStart \in Nat,
         NEW p, p \in Nat, p <= Len(s) + 1, uStart + 2 <= p,
         NEW x, Turned(x, TRUE, removing, h, P, N, l, s, IF p - 1 < j THEN p - 1 ELSE j, j, p),
         NEW y, y = LoopTurn(x, p - 2, l, uStart, j - 1, removing)
  PROVE  Turned(y, TRUE, removing, h, P, N, l, s, IF p - 2 < j THEN p - 2 ELSE j, j, p - 1)
<1>1. PICK n \in Nat : n = Len(s)
  BY DEF OnHeap
<1>2. PICK i, q : i = (IF p - 1 < j THEN p - 1 ELSE j) /\ q = p - 1
  OBVIOUS
<1>3. i \in Nat /\ i <= j /\ j <= n /\ q \in 1 .. n /\ q \in Nat /\ q - 1 = p - 2 /\ uStart <= q - 1
  BY <1>1, <1>2
<1>4. PICK g, a, b, c :
        /\ x = [h |-> g, iter |-> IterAt(a, b, c, TRUE), met |-> Met(TRUE, s, i, j)]
        /\ IF removing THEN Cutting(g, h, P, N, l, s, i, j) ELSE g = h
        /\ c = At(l, s, q)
  BY <1>2 DEF Turned
<1>6. c # l /\ c = s[q] /\ c \in N
  BY <1>1, <1>3, <1>4, NotTheHead
<1>7. g.prev[c] = At(l, s, q - 1)
  <2>1. StillPrev(g, l, s, i, j)
    BY <1>1, <1>3, <1>4, LoopNeighbours
  <2>2. q <= i \/ i = j
    BY <1>2
  <2>. QED  BY <1>1, <1>3, <1>4, <2>1, <2>2 DEF StillPrev
<1>8. PICK it : it = IterAt(c, g.next[c], g.prev[c], TRUE)
  OBVIOUS
<1>9. x.h = g /\ x.iter = IterAt(a, b, c, TRUE) /\ x.met = Met(TRUE, s, i, j)
  BY <1>4
<1>10. dmbListNext(x.h, x.iter) = it /\ it.node = c
  <2>2. dmbListNext(g, IterAt(a, b, c, TRUE)) = IterAt(c, g.next[c], g.prev[c], TRUE)
    <3>1. PICK r : r = TRUE
      OBVIOUS
    <3>2. (r => c = c) /\ (~r => c = b)
      BY <3>1
    <3>3. dmbListNext(g, IterAt(a, b, c, r)) = IterAt(c, g.next[c], g.prev[c], r)
      BY <3>2, IterNext
    <3>. QED  BY <3>1, <3>3
  <2>. QED  BY <1>8, <1>9, <2>2 DEF IterAt
<1>11. CASE q <= j
  <2>0. uStart <= p - 2 /\ p - 2 <= j - 1 /\ i = q /\ 0 < i
    BY <1>2, <1>3, <1>11
  <2>1. y = [h |-> IF removing THEN dmbListRemove(g, c) ELSE g, iter |-> it,
             met |-> Append(Met(TRUE, s, i, j), c)]
    BY <1>6, <1>9, <1>10, <2>0 DEF LoopTurn
  <2>2. (IF p - 2 < j THEN p - 2 ELSE j) = i - 1
    BY <1>2, <1>3, <1>11
  <2>3. Append(Met(TRUE, s, i, j), c) = Met(TRUE, s, i - 1, j)
    <3>1. s \in Seq(N)
      BY DEF OnHeap
    <3>2. MetGrows(N, s, i, j)
      BY <1>1, <1>3, <3>1, MetOneMore
    <3>. QED  BY <1>6, <2>0, <3>2 DEF MetGrows
  <2>4. PICK f : f = IF removing THEN dmbListRemove(g, c) ELSE g
    OBVIOUS
  <2>5. IF removing THEN Cutting(f, h, P, N, l, s, i - 1, j) ELSE f = h
    <3>1. CASE removing
      <4>1. PICK k : k = i
        OBVIOUS
      <4>2. Cutting(g, h, P, N, l, s, i, j) /\ f = dmbListRemove(g, At(l, s, k))
        BY <1>4, <2>0, <2>4, <3>1, <4>1
      <4>3. k = i /\ 0 < i
        BY <2>0, <4>1
      <4>4. Cutting(f, h, P, N, l, s, IF k = i THEN i - 1 ELSE i, IF k = i THEN j ELSE k)
        BY <1>1, <1>3, <4>2, <4>3, CutOneMore
      <4>. QED  BY <3>1, <4>3, <4>4
    <3>2. CASE ~removing
      BY <1>4, <2>4, <3>2
    <3>. QED  BY <3>1, <3>2
  <2>6. y = [h |-> f, iter |-> IterAt(c, g.next[c], g.prev[c], TRUE), met |-> Met(TRUE, s, i - 1, j)]
    BY <1>8, <2>1, <2>3, <2>4
  <2>7. Turned(y, TRUE, removing, h, P, N, l, s, i - 1, j, q)
    <3>1. PICK r : r = TRUE
      OBVIOUS
    <3>2. y = [h |-> f, iter |-> IterAt(c, g.next[c], g.prev[c], r), met |-> Met(r, s, i - 1, j)]
      BY <1>7, <2>5, <2>6, <3>1
    <3>3. IF r THEN g.prev[c] = At(l, s, q - 1) ELSE g.next[c] = At(l, s, q + 1)
      BY <1>7, <3>1
    <3>4. Turned(y, r, removing, h, P, N, l, s, i - 1, j, q)
      BY <1>7, <2>5, <2>6, <3>2, <3>3, TurnedIs
    <3>. QED  BY <3>1, <3>4
  <2>. QED  BY <1>2, <2>2, <2>7
<1>12. CASE ~(q <= j)
  <2>0. ~(p - 2 <= j - 1)
    BY <1>2, <1>3, <1>12
  <2>1. y = [x EXCEPT !.iter = it]
    BY <1>6, <1>10, <2>0 DEF LoopTurn
  <2>2. i = j /\ (IF p - 2 < j THEN p - 2 ELSE j) = j
    BY <1>2, <1>3, <1>12
  <2>3. y = [h |-> g, iter |-> IterAt(c, g.next[c], g.prev[c], TRUE), met |-> Met(TRUE, s, i, j)]
    BY <1>4, <1>8, <2>1
  <2>4. Turned(y, TRUE, removing, h, P, N, l, s, i, j, q)
    <3>1. PICK r : r = TRUE
      OBVIOUS
    <3>2. y = [h |-> g, iter |-> IterAt(c, g.next[c], g.prev[c], r), met |-> Met(r, s, i, j)]
      BY <1>4, <1>7, <2>3, <3>1
    <3>3. IF r THEN g.prev[c] = At(l, s, q - 1) ELSE g.next[c] = At(l, s, q + 1)
      BY <1>7, <3>1
    <3>4. Turned(y, r, removing, h, P, N, l, s, i, j, q)
      BY <1>4, <1>7, <2>3, <3>2, <3>3, TurnedIs
    <3>. QED  BY <3>1, <3>4
  <2>. QED  BY <1>2, <2>2, <2>4
<1>. QED  BY <1>11, <1>12

(* The recursive function of the loop.                                     *)
Begun(h, l, fromEnd) == [h |-> h, iter |-> dmbListInitIter(h, l, fromEnd), met |-> <<>>]

IsLoop(f, m, h, l, n, uStart, uEnd, fromEnd, removing) ==
  f = [k \in 0 .. m |->
         IF k = 0 THEN Begun(h, l, fromEnd)
         ELSE LoopTurn(f[k - 1], IF fromEnd THEN n - k ELSE k - 1, l, uStart, uEnd, removing)]

LEMMA LoopExists ==
  ASSUME NEW h, NEW l, NEW n, NEW uStart, NEW uEnd, NEW fromEnd, NEW removing, NEW m \in Nat
  PROVE  \E f : IsLoop(f, m, h, l, n, uStart, uEnd, fromEnd, removing)
<1>. DEFINE Turn(x, k) == LoopTurn(x, IF fromEnd THEN n - k ELSE k - 1, l, uStart, uEnd, removing)
            a == Begun(h, l, fromEnd)
            Is(f, k) == f = [q \in 0 .. k |-> IF q = 0 THEN a ELSE Turn(f[q - 1], q)]
            T == {k \in Nat : \E f : Is(f, k)}
<1>. HIDE DEF Turn, a
<1>1. 0 \in T
  <2>1. PICK f : f = [q \in 0 .. 0 |-> a]
    OBVIOUS
  <2>2. \A q \in 0 .. 0 : a = IF q = 0 THEN a ELSE Turn(f[q - 1], q)
    OBVIOUS
  <2>3. f = [q \in 0 .. 0 |-> IF q = 0 THEN a ELSE Turn(f[q - 1], q)]
    BY <2>1, <2>2
  <2>. QED  BY <2>3
<1>2. ASSUME NEW k \in T PROVE k + 1 \in T
  <2>1. PICK f : Is(f, k)
    BY <1>2
  <2>2. k \in Nat /\ \A q \in 0 .. k : f[q] = IF q = 0 THEN a ELSE Turn(f[q - 1], q)
    BY <1>2, <2>1
  <2>3. PICK g : g = [q \in 0 .. k + 1 |-> IF q <= k THEN f[q] ELSE Turn(f[k], k + 1)]
    OBVIOUS
  <2>4. ASSUME NEW q \in 0 .. k + 1
        PROVE  (IF q <= k THEN f[q] ELSE Turn(f[k], k + 1)) = IF q = 0 THEN a ELSE Turn(g[q - 1], q)
    <3>1. CASE q = 0
      BY <2>2, <3>1
    <3>2. CASE q # 0 /\ q <= k
      <4>1. q \in 0 .. k /\ q - 1 \in 0 .. k + 1 /\ q - 1 <= k
        BY <2>2, <3>2
      <4>2. g[q - 1] = f[q - 1]
        BY <2>3, <4>1
      <4>. QED  BY <2>2, <3>2, <4>1, <4>2
    <3>3. CASE ~(q <= k)
      <4>1. q = k + 1 /\ q # 0 /\ q - 1 = k /\ k \in 0 .. k + 1 /\ k <= k
        BY <2>2, <3>3
      <4>2. g[q - 1] = f[k]
        BY <2>3, <4>1
      <4>. QED  BY <3>3, <4>1, <4>2
    <3>. QED  BY <3>1, <3>2, <3>3
  <2>5. Is(g, k + 1)
    BY <2>3, <2>4
  <2>. QED  BY <2>2, <2>5
<1>3. T = Nat
  <2>. HIDE DEF T
  <2>1. T \in SUBSET Nat
    BY DEF T
  <2>. QED  BY <1>1, <1>2, <2>1, Induction
<1>4. \E f : Is(f, m)
  BY <1>3
<1>. QED  BY <1>4 DEF IsLoop, Turn, a

(* What the loop returns: the nodes with the indices from uStart to uEnd,  *)
(* and the heap, from which they may have been removed.                    *)
Looped(r, removing, h, P, N, l, s, uStart, uEnd) ==
  /\ IF removing THEN Cutting(r.h, h, P, N, l, s, uStart, uEnd + 1) ELSE r.h = h
  /\ r.met = Met(fasterFromEnd(Len(s), uStart), s, uStart, uEnd + 1)

LEMMA MetNothing ==
  ASSUME NEW fromEnd, NEW s, NEW i \in Nat
  PROVE  Met(fromEnd, s, i, i) = <<>>
<1>1. i - i = 0
  OBVIOUS
<1>2. Met(fromEnd, s, i, i) = [y \in 1 .. 0 |-> IF fromEnd THEN s[i + 1 - y] ELSE s[i + y]]
  BY <1>1 DEF Met
<1>3. 1 .. 0 = {}
  OBVIOUS
<1>. QED  BY <1>2, <1>3

LEMMA LoopBegins ==
  ASSUME NEW P, NEW N, NEW l, NEW s, NEW h, OnHeap(h, P, N, l, s), NEW removing \in BOOLEAN,
         NEW fromEnd \in BOOLEAN, NEW i, i \in Nat, i <= Len(s)
  PROVE  Turned(Begun(h, l, fromEnd), fromEnd, removing, h, P, N, l, s, i, i,
                IF fromEnd THEN Len(s) + 1 ELSE 0)
<1>1. PICK x, p : x = Begun(h, l, fromEnd) /\ p = IF fromEnd THEN Len(s) + 1 ELSE 0
  OBVIOUS
<1>2. s \in Seq(N) /\ Chain(h, l, s) /\ Len(s) \in Nat
  BY DEF OnHeap
<1>3. h.next[l] = At(l, s, 1) /\ h.prev[l] = At(l, s, Len(s))
  BY <1>2, ChainLinked
<1>4. PICK g, a, b, c : g = h /\ a = l /\ b = h.next[l] /\ c = h.prev[l]
  OBVIOUS
<1>5. x = [h |-> g, iter |-> IterAt(a, b, c, fromEnd), met |-> Met(fromEnd, s, i, i)]
  <2>1. Met(fromEnd, s, i, i) = <<>>
    BY MetNothing
  <2>. QED  BY <1>1, <1>4, <2>1 DEF Begun, dmbListInitIter, IterAt
<1>6. IF removing THEN Cutting(g, h, P, N, l, s, i, i) ELSE g = h
  BY <1>4, CutNothing
<1>7. IF fromEnd THEN c = At(l, s, p - 1) ELSE b = At(l, s, p + 1)
  <2>1. (fromEnd => p - 1 = Len(s)) /\ (~fromEnd => p + 1 = 1)
    BY <1>1, <1>2
  <2>. QED  BY <1>3, <1>4, <2>1
<1>8. Turned(x, fromEnd, removing, h, P, N, l, s, i, i, p)
  BY <1>5, <1>6, <1>7, TurnedIs
<1>. QED  BY <1>1, <1>8

LEMMA LoopIs ==
  ASSUME NEW P, NEW N, NEW l, NEW s, NEW h, OnHeap(h, P, N, l, s), NEW removing \in BOOLEAN,
         NEW n, n = Len(s), NEW uStart, uStart \in Nat, NEW uEnd, uEnd \in Nat, uStart <= uEnd, uEnd < n,
         NEW r, r = Loop(h, l, n, uStart, uEnd, removing)
  PROVE  Looped(r, removing, h, P, N, l, s, uStart, uEnd)
<1>1. PICK fromEnd \in BOOLEAN : fromEnd = fasterFromEnd(n, uStart)
  <2>1. CASE fasterFromEnd(n, uStart)
    <3>1. fasterFromEnd(n, uStart) = TRUE
      BY <2>1 DEF fasterFromEnd
    <3>. QED  BY <3>1
  <2>2. CASE ~fasterFromEnd(n, uStart)
    <3>1. fasterFromEnd(n, uStart) = FALSE
      BY <2>2 DEF fasterFromEnd
    <3>. QED  BY <3>1
  <2>. QED  BY <2>1, <2>2
<1>2. PICK m : m = IF fromEnd THEN n - uStart ELSE uEnd + 1
  OBVIOUS
<1>3. n \in Nat /\ m \in Nat
  <2>1. n \in Nat
    BY DEF OnHeap
  <2>. QED  BY <1>2, <2>1
<1>4. PICK f : f = CHOOSE g : IsLoop(g, m, h, l, n, uStart, uEnd, fromEnd, removing)
  OBVIOUS
<1>5. r = f[m]
  BY <1>1, <1>2, <1>4 DEF Loop, IsLoop, Begun
<1>6. IsLoop(f, m, h, l, n, uStart, uEnd, fromEnd, removing)
  BY <1>3, <1>4, LoopExists
<1>7. /\ f[0] = Begun(h, l, fromEnd)
      /\ \A k \in 1 .. m : f[k] = LoopTurn(f[k - 1], IF fromEnd THEN n - k ELSE k - 1,
                                           l, uStart, uEnd, removing)
  <2>1. 0 \in 0 .. m
    BY <1>3
  <2>2. \A k \in 1 .. m : k \in 0 .. m /\ k # 0
    OBVIOUS
  <2>. QED  BY <1>6, <2>1, <2>2 DEF IsLoop
<1>8. CASE ~fromEnd
  <2>. DEFINE Good(k) == Turned(f[k], FALSE, removing, h, P, N, l, s, uStart,
                                IF k < uStart THEN uStart ELSE k, k)
              T == {k \in Nat : k <= m => Good(k)}
  <2>1. Good(0)
    <3>1. Turned(f[0], FALSE, removing, h, P, N, l, s, uStart, uStart, 0)
      <4>1. uStart <= Len(s) /\ (IF fromEnd THEN Len(s) + 1 ELSE 0) = 0
        BY <1>3, <1>8
      <4>2. Turned(f[0], fromEnd, removing, h, P, N, l, s, uStart, uStart,
                   IF fromEnd THEN Len(s) + 1 ELSE 0)
        BY <1>7, <4>1, LoopBegins
      <4>3. fromEnd = FALSE
        BY <1>8
      <4>. QED  BY <4>1, <4>2, <4>3
    <3>2. (IF 0 < uStart THEN uStart ELSE 0) = uStart
      OBVIOUS
    <3>. QED  BY <3>1, <3>2
  <2>2. ASSUME NEW k \in Nat, k + 1 <= m, Good(k) PROVE Good(k + 1)
    <3>1. k \in Nat /\ k <= uEnd /\ k + 1 \in 1 .. m /\ (k + 1) - 1 = k
      BY <1>2, <1>3, <1>8, <2>2
    <3>2. Turned(f[k], FALSE, removing, h, P, N, l, s, uStart, IF k < uStart THEN uStart ELSE k, k)
      BY <2>2
    <3>3. f[k + 1] = LoopTurn(f[k], k, l, uStart, uEnd, removing)
      BY <1>7, <1>8, <3>1
    <3>. QED  BY <3>1, <3>2, <3>3, TurnForwards
  <2>3. Good(m)
    <3>. HIDE DEF Good
    <3>1. 0 \in T
      BY <2>1
    <3>2. ASSUME NEW k \in T PROVE k + 1 \in T
      <4>1. k \in Nat /\ (k <= m => Good(k))
        BY <3>2
      <4>2. k + 1 <= m => k <= m
        BY <1>3, <4>1
      <4>. QED  BY <2>2, <4>1, <4>2
    <3>3. T = Nat
      <4>. HIDE DEF T
      <4>1. T \in SUBSET Nat
        BY DEF T
      <4>. QED  BY <3>1, <3>2, <4>1, Induction
    <3>. QED  BY <1>3, <3>3
  <2>4. Turned(f[m], FALSE, removing, h, P, N, l, s, uStart, uEnd + 1, uEnd + 1)
    <3>1. m = uEnd + 1 /\ ~(m < uStart)
      BY <1>2, <1>8
    <3>2. Turned(f[m], FALSE, removing, h, P, N, l, s, uStart, IF m < uStart THEN uStart ELSE m, m)
      BY <2>3
    <3>. QED  BY <3>1, <3>2
  <2>5. /\ IF removing THEN Cutting(r.h, h, P, N, l, s, uStart, uEnd + 1) ELSE r.h = h
        /\ r.met = Met(FALSE, s, uStart, uEnd + 1)
    BY <1>5, <2>4 DEF Turned
  <2>6. fasterFromEnd(Len(s), uStart) = FALSE
    BY <1>1, <1>8
  <2>. QED  BY <2>5, <2>6 DEF Looped
<1>9. CASE fromEnd
  <2>0. PICK j : j = uEnd + 1
    OBVIOUS
  <2>00. j \in Nat /\ j <= n /\ j - 1 = uEnd
    BY <1>3, <2>0
  <2>. DEFINE Good(k) == Turned(f[k], TRUE, removing, h, P, N, l, s,
                                IF n - k < j THEN n - k ELSE j, j, n + 1 - k)
              T == {k \in Nat : k <= m => Good(k)}
  <2>1. Good(0)
    <3>1. Turned(f[0], TRUE, removing, h, P, N, l, s, j, j, n + 1)
      <4>1. j <= Len(s) /\ (IF fromEnd THEN Len(s) + 1 ELSE 0) = n + 1
        BY <1>9, <2>00
      <4>2. Turned(f[0], fromEnd, removing, h, P, N, l, s, j, j, IF fromEnd THEN Len(s) + 1 ELSE 0)
        BY <1>7, <2>00, <4>1, LoopBegins
      <4>3. fromEnd = TRUE
        BY <1>9
      <4>. QED  BY <4>1, <4>2, <4>3
    <3>2. (IF n - 0 < j THEN n - 0 ELSE j) = j /\ n + 1 - 0 = n + 1
      BY <1>3, <2>00
    <3>. QED  BY <3>1, <3>2
  <2>2. ASSUME NEW k \in Nat, k + 1 <= m, Good(k) PROVE Good(k + 1)
    <3>0. PICK p : p = n + 1 - k
      OBVIOUS
    <3>1. /\ k \in Nat /\ k + 1 \in 1 .. m /\ (k + 1) - 1 = k /\ m = n - uStart
          /\ p \in Nat /\ p <= Len(s) + 1 /\ uStart + 2 <= p /\ n - (k + 1) = p - 2
          /\ n + 1 - (k + 1) = p - 1 /\ n - k = p - 1
      BY <1>2, <1>3, <1>9, <2>2, <3>0
    <3>2. Turned(f[k], TRUE, removing, h, P, N, l, s, IF p - 1 < j THEN p - 1 ELSE j, j, p)
      <4>1. Turned(f[k], TRUE, removing, h, P, N, l, s, IF n - k < j THEN n - k ELSE j, j, n + 1 - k)
        BY <2>2
      <4>. QED  BY <3>0, <3>1, <4>1
    <3>3. f[k + 1] = LoopTurn(f[k], p - 2, l, uStart, j - 1, removing)
      BY <1>7, <1>9, <2>00, <3>1
    <3>4. Turned(f[k + 1], TRUE, removing, h, P, N, l, s, IF p - 2 < j THEN p - 2 ELSE j, j, p - 1)
      BY <1>3, <2>00, <3>1, <3>2, <3>3, TurnBackwards
    <3>. QED  BY <3>1, <3>4
  <2>3. Good(m)
    <3>. HIDE DEF Good
    <3>1. 0 \in T
      BY <2>1
    <3>2. ASSUME NEW k \in T PROVE k + 1 \in T
      <4>1. k \in Nat /\ (k <= m => Good(k))
        BY <3>2
      <4>2. k + 1 <= m => k <= m
        BY <1>3, <4>1
      <4>. QED  BY <2>2, <4>1, <4>2
    <3>3. T = Nat
      <4>. HIDE DEF T
      <4>1. T \in SUBSET Nat
        BY DEF T
      <4>. QED  BY <3>1, <3>2, <4>1, Induction
    <3>. QED  BY <1>3, <3>3
  <2>4. Turned(f[m], TRUE, removing, h, P, N, l, s, uStart, uEnd + 1, uStart + 1)
    <3>1. n - m = uStart /\ n + 1 - m = uStart + 1 /\ uStart < j
      BY <1>2, <1>3, <1>9, <2>0
    <3>2. Turned(f[m], TRUE, removing, h, P, N, l, s, IF n - m < j THEN n - m ELSE j, j, n + 1 - m)
      BY <2>3
    <3>. QED  BY <2>0, <3>1, <3>2
  <2>5. /\ IF removing THEN Cutting(r.h, h, P, N, l, s, uStart, uEnd + 1) ELSE r.h = h
        /\ r.met = Met(TRUE, s, uStart, uEnd + 1)
    BY <1>5, <2>4 DEF Turned
  <2>6. fasterFromEnd(Len(s), uStart) = TRUE
    BY <1>1, <1>9
  <2>. QED  BY <2>5, <2>6 DEF Looped
<1>. QED  BY <1>8, <1>9

-----------------------------------------------------------------------------
(* The loop of Clear.                                                      *)
IsEmptied(f, m, h, l) == f = [k \in 0 .. m |-> IF k = 0 THEN h ELSE dmbListPopFront(f[k - 1], l)]

LEMMA EmptiedExists ==
  ASSUME NEW h, NEW l, NEW m \in Nat
  PROVE  \E f : IsEmptied(f, m, h, l)
<1>. DEFINE T == {k \in Nat : \E f : IsEmptied(f, k, h, l)}
<1>1. 0 \in T
  <2>1. PICK f : f = [q \in 0 .. 0 |-> h]
    OBVIOUS
  <2>2. \A q \in 0 .. 0 : h = IF q = 0 THEN h ELSE dmbListPopFront(f[q - 1], l)
    OBVIOUS
  <2>3. f = [q \in 0 .. 0 |-> IF q = 0 THEN h ELSE dmbListPopFront(f[q - 1], l)]
    BY <2>1, <2>2
  <2>. QED  BY <2>3 DEF IsEmptied
<1>2. ASSUME NEW k \in T PROVE k + 1 \in T
  <2>1. PICK f : IsEmptied(f, k, h, l)
    BY <1>2
  <2>2. k \in Nat /\ \A q \in 0 .. k : f[q] = IF q = 0 THEN h ELSE dmbListPopFront(f[q - 1], l)
    BY <1>2, <2>1 DEF IsEmptied
  <2>3. PICK g : g = [q \in 0 .. k + 1 |-> IF q <= k THEN f[q] ELSE dmbListPopFront(f[k], l)]
    OBVIOUS
  <2>4. ASSUME NEW q \in 0 .. k + 1
        PROVE  (IF q <= k THEN f[q] ELSE dmbListPopFront(f[k], l))
                 = IF q = 0 THEN h ELSE dmbListPopFront(g[q - 1], l)
    <3>1. CASE q = 0
      BY <2>2, <3>1
    <3>2. CASE q # 0 /\ q <= k
      <4>1. q \in 0 .. k /\ q - 1 \in 0 .. k + 1 /\ q - 1 <= k
        BY <2>2, <3>2
      <4>2. g[q - 1] = f[q - 1]
        BY <2>3, <4>1
      <4>. QED  BY <2>2, <3>2, <4>1, <4>2
    <3>3. CASE ~(q <= k)
      <4>1. q = k + 1 /\ q # 0 /\ q - 1 = k /\ k \in 0 .. k + 1 /\ k <= k
        BY <2>2, <3>3
      <4>2. g[q - 1] = f[k]
        BY <2>3, <4>1
      <4>. QED  BY <3>3, <4>1, <4>2
    <3>. QED  BY <3>1, <3>2, <3>3
  <2>5. IsEmptied(g, k + 1, h, l)
    BY <2>3, <2>4 DEF IsEmptied
  <2>. QED  BY <2>2, <2>5
<1>3. T = Nat
  <2>. HIDE DEF T
  <2>1. T \in SUBSET Nat
    BY DEF T
  <2>. QED  BY <1>1, <1>2, <2>1, Induction
<1>. QED  BY <1>3

(* It cuts out all the nodes.                                              *)
LEMMA EmptiedIs ==
  ASSUME NEW P, NEW N, NEW l, NEW s, NEW h, OnHeap(h, P, N, l, s), NEW n, n = Len(s),
         NEW g, g = Emptied(h, l, n)
  PROVE  Cutting(g, h, P, N, l, s, 0, n)
<1>1. n \in Nat
  BY DEF OnHeap
<1>2. PICK f : f = CHOOSE p : IsEmptied(p, n, h, l)
  OBVIOUS
<1>3. g = f[n]
  BY <1>2 DEF Emptied, IsEmptied
<1>4. IsEmptied(f, n, h, l)
  BY <1>1, <1>2, EmptiedExists
<1>5. f[0] = h /\ \A k \in 1 .. n : f[k] = dmbListPopFront(f[k - 1], l)
  <2>1. 0 \in 0 .. n
    BY <1>1
  <2>2. \A k \in 1 .. n : k \in 0 .. n /\ k # 0
    OBVIOUS
  <2>. QED  BY <1>4, <2>1, <2>2 DEF IsEmptied
<1>. DEFINE Good(k) == Cutting(f[k], h, P, N, l, s, 0, k)
            T == {k \in Nat : k <= n => Good(k)}
<1>6. Good(0)
  <2>1. 0 <= Len(s) /\ 0 \in Nat
    BY <1>1
  <2>. QED  BY <1>5, <2>1, CutNothing
<1>7. ASSUME NEW k \in Nat, k + 1 <= n, Good(k) PROVE Good(k + 1)
  <2>1. 0 <= k /\ k <= Len(s) /\ k < Len(s) /\ k + 1 \in 1 .. n /\ (k + 1) - 1 = k /\ 0 \in Nat
        /\ k - 0 = k /\ Len(s) - k + 1 \in Nat /\ 1 \in 0 .. Len(s) - k + 1 /\ ~(1 <= 0) /\ 1 + k = k + 1
        /\ k + 1 # 0
    BY <1>1, <1>7
  <2>2. PICK u, c : u = f[k] /\ c = Cut(s, 0, k)
    OBVIOUS
  <2>3. s \in Seq(N)
    BY DEF OnHeap
  <2>4. At(l, c, 1) = At(l, s, k + 1)
    <3>1. IsCut(c, N, s, 0, k)
      BY <2>1, <2>2, <2>3, CutOut
    <3>. QED  BY <2>1, <3>1 DEF IsCut
  <2>5. u.next[l] = At(l, s, k + 1)
    <3>1. Chain(u, l, c) /\ c \in Seq(N)
      BY <1>7, <2>2 DEF Cutting
    <3>. QED  BY <2>4, <3>1, ChainLinked
  <2>6. f[k + 1] = dmbListRemove(u, At(l, s, k + 1))
    BY <1>5, <2>1, <2>2, <2>5 DEF dmbListPopFront, FirstNode
  <2>7. PICK i, p : i = 0 /\ p = k + 1
    OBVIOUS
  <2>8. Cutting(f[k + 1], h, P, N, l, s, IF p = i THEN i - 1 ELSE i, IF p = i THEN k ELSE p)
    <3>1. i \in Nat /\ i <= k /\ p = k + 1 /\ k < Len(s) /\ f[k + 1] = dmbListRemove(u, At(l, s, p))
          /\ Cutting(u, h, P, N, l, s, i, k)
      BY <1>7, <2>1, <2>2, <2>6, <2>7
    <3>. QED  BY <2>1, <3>1, CutOneMore
  <2>. QED  BY <2>1, <2>7, <2>8
<1>8. Good(n)
  <2>. HIDE DEF Good
  <2>1. 0 \in T
    BY <1>6
  <2>2. ASSUME NEW k \in T PROVE k + 1 \in T
    <3>1. k \in Nat /\ (k <= n => Good(k))
      BY <2>2
    <3>2. k + 1 <= n => k <= n
      BY <1>1, <3>1
    <3>. QED  BY <1>7, <3>1, <3>2
  <2>3. T = Nat
    <3>. HIDE DEF T
    <3>1. T \in SUBSET Nat
      BY DEF T
    <3>. QED  BY <2>1, <2>2, <3>1, Induction
  <2>. QED  BY <1>1, <2>3
<1>. QED  BY <1>3, <1>8

-----------------------------------------------------------------------------
(* The loop of Scan, after k turns.                                        *)
Least2(i, j) == IF i <= j THEN i ELSE j
Most2(i, j)  == IF i <= j THEN j ELSE i

ScanAt(h, l, s, uIndex, k) ==
  LET c == Least2(k, Len(s))
      a == At(l, s, c)
  IN  [iter |-> IterAt(a, h.next[a], h.prev[a], FALSE),
       met |-> Met(FALSE, s, uIndex, Most2(uIndex, c)), ended |-> k > Len(s)]

LEMMA ScanGoesOn ==
  ASSUME NEW P, NEW N, NEW l, NEW s, NEW h, OnHeap(h, P, N, l, s), NEW uIndex, uIndex \in Nat,
         uIndex < Len(s), NEW k, k \in Nat, NEW x, x = ScanAt(h, l, s, uIndex, k),
         NEW y, y = ScanAt(h, l, s, uIndex, k + 1)
  PROVE  ScanTurn(x, k, h, l, uIndex) = y
<1>1. PICK n \in Nat : n = Len(s)
  BY DEF OnHeap
<1>2. PICK c, d : c = Least2(k, n) /\ d = Most2(uIndex, c)
  OBVIOUS
<1>3. c \in 0 .. n /\ d \in Nat /\ uIndex <= d /\ d <= n
  BY <1>1, <1>2 DEF Least2, Most2
<1>4. PICK a, b, r, m, ended :
        a = At(l, s, c) /\ b = At(l, s, c + 1) /\ r = FALSE /\ m = Met(FALSE, s, uIndex, d) /\ ended = (k > n)
  OBVIOUS
<1>4a. PICK u, w, i : u = h.next[a] /\ w = h.prev[a] /\ i = IterAt(a, u, w, r)
  OBVIOUS
<1>5. x = [iter |-> i, met |-> m, ended |-> ended]
  BY <1>1, <1>2, <1>4, <1>4a DEF ScanAt
<1>6. h.next[a] = b
  <2>1. Chain(h, l, s)
    BY DEF OnHeap
  <2>. QED  BY <1>1, <1>3, <1>4, <2>1 DEF Chain
<1>7. dmbListNext(h, x.iter) = IterAt(b, h.next[b], h.prev[b], FALSE)
  <2>1. u = b
    BY <1>4a, <1>6
  <2>2. dmbListNext(h, IterAt(a, b, w, FALSE)) = IterAt(b, h.next[b], h.prev[b], FALSE)
    BY IterForwards
  <2>3. x.iter = IterAt(a, b, w, FALSE)
    <3>1. x.iter = i
      BY <1>5
    <3>2. r = FALSE
      BY <1>4
    <3>. QED  BY <1>4a, <2>1, <3>1, <3>2
  <2>. QED  BY <2>2, <2>3
<1>8. PICK it : it = dmbListNext(h, x.iter)
  OBVIOUS
<1>9. it.node = b /\ it = IterAt(b, h.next[b], h.prev[b], FALSE)
  BY <1>7, <1>8 DEF IterAt
<1>10. CASE k >= n
  <2>1. c = n /\ Least2(k + 1, n) = n /\ k + 1 > n
    BY <1>1, <1>2, <1>10 DEF Least2
  <2>2. b = l
    <3>1. s \in Seq(N)
      BY DEF OnHeap
    <3>. QED  BY <1>1, <1>4, <2>1, <3>1, AtEnds
  <2>3. PICK yes : yes = TRUE
    OBVIOUS
  <2>4. ScanTurn(x, k, h, l, uIndex) = [x EXCEPT !.ended = yes]
    BY <1>8, <1>9, <2>2, <2>3 DEF ScanTurn
  <2>5. [x EXCEPT !.ended = yes] = [iter |-> i, met |-> m, ended |-> yes]
    BY <1>5
  <2>6. y = [iter |-> i, met |-> m, ended |-> yes]
    <3>1. (k + 1 > n) = TRUE
      BY <2>1
    <3>2. y = [iter |-> i, met |-> m, ended |-> (k + 1 > n)]
      BY <1>1, <1>2, <1>4, <1>4a, <2>1 DEF ScanAt
    <3>. QED  BY <2>3, <3>1, <3>2
  <2>. QED  BY <2>4, <2>5, <2>6
<1>11. CASE ~(k >= n)
  <2>1. c = k /\ Least2(k + 1, n) = k + 1 /\ k + 1 \in 1 .. n /\ ~(k > n) /\ ~(k + 1 > n)
    BY <1>1, <1>2, <1>11 DEF Least2
  <2>2. b # l /\ b = s[k + 1]
    BY <1>1, <1>4, <2>1, NotTheHead
  <2>3. PICK mm : mm = IF k >= uIndex THEN Append(m, b) ELSE m
    OBVIOUS
  <2>4. ScanTurn(x, k, h, l, uIndex) = [x EXCEPT !.iter = it, !.met = mm]
    <3>1. x.met = m /\ x.ended = ended
      BY <1>5
    <3>2. ~ended
      BY <1>4, <2>1
    <3>. QED  BY <1>8, <1>9, <2>2, <2>3, <3>1, <3>2 DEF ScanTurn
  <2>5. [x EXCEPT !.iter = it, !.met = mm] = [iter |-> it, met |-> mm, ended |-> ended]
    <3>3. [x EXCEPT !.iter = it] = [iter |-> it, met |-> m, ended |-> ended]
      BY <1>5
    <3>4. [[iter |-> it, met |-> m, ended |-> ended] EXCEPT !.met = mm]
            = [iter |-> it, met |-> mm, ended |-> ended]
      OBVIOUS
    <3>. QED  BY <3>3, <3>4
  <2>6. mm = Met(FALSE, s, uIndex, Most2(uIndex, k + 1))
    <3>1. CASE k >= uIndex
      <4>1. d = k /\ Most2(uIndex, k + 1) = k + 1 /\ d < Len(s)
        BY <1>1, <1>2, <2>1, <3>1 DEF Most2
      <4>2. s \in Seq(N)
        BY DEF OnHeap
      <4>3. MetGrows(N, s, uIndex, d)
        BY <1>1, <1>3, <4>2, MetOneMore
      <4>. QED  BY <1>4, <2>2, <2>3, <3>1, <4>1, <4>3 DEF MetGrows
    <3>2. CASE ~(k >= uIndex)
      <4>1. d = uIndex /\ Most2(uIndex, k + 1) = uIndex
        BY <1>1, <1>2, <2>1, <3>2 DEF Most2
      <4>. QED  BY <1>4, <2>3, <3>2, <4>1
    <3>. QED  BY <3>1, <3>2
  <2>7. y = [iter |-> it, met |-> mm, ended |-> ended]
    <3>1. (k + 1 > n) = FALSE /\ (k > n) = FALSE
      BY <2>1
    <3>2. y = [iter |-> it, met |-> mm, ended |-> (k + 1 > n)]
      <4>1. At(l, s, k + 1) = b
        BY <1>4, <2>1
      <4>. QED  BY <1>1, <1>9, <2>1, <2>6, <4>1 DEF ScanAt
    <3>. QED  BY <1>4, <3>1, <3>2
  <2>. QED  BY <2>4, <2>5, <2>7
<1>. QED  BY <1>10, <1>11

(* What Scan meets and returns.                                            *)
ScanGives(r, s, uIndex, done) ==
  IF uIndex >= Len(s) THEN r = [met |-> <<>>, index |-> 0]
  ELSE r = [met |-> Met(FALSE, s, uIndex, Least2(done, Len(s))),
            index |-> IF done >= Len(s) - 1 THEN 0 ELSE done]

LEMMA ScanIs ==
  ASSUME NEW P, NEW N, NEW l, NEW s, NEW h, OnHeap(h, P, N, l, s), NEW n, n = Len(s),
         NEW uIndex, uIndex \in Nat, NEW uCount, uCount \in Nat, NEW r, r = ScanOf(h, l, n, uIndex, uCount)
  PROVE  ScanGives(r, s, uIndex, uIndex + uCount)
<1>. DEFINE done == uIndex + uCount
            IsScanned(f) == f = [k \in 0 .. done |->
                                   IF k = 0 THEN [iter |-> dmbListInitIter(h, l, FALSE), met |-> <<>>, ended |-> FALSE]
                                   ELSE ScanTurn(f[k - 1], k - 1, h, l, uIndex)]
            v == [k \in 0 .. done |-> ScanAt(h, l, s, uIndex, k)]
            f == CHOOSE g : IsScanned(g)
<1>1. n \in Nat /\ done \in Nat /\ s \in Seq(N)
  BY DEF OnHeap
<1>2. CASE uIndex >= n
  BY <1>2 DEF ScanOf, ScanGives
<1>3. CASE ~(uIndex >= n)
  <2>1. r = [met |-> f[done].met, index |-> IF f[done].ended \/ done >= n - 1 THEN 0 ELSE done]
    BY <1>3 DEF ScanOf
  <2>2. ScanAt(h, l, s, uIndex, 0) = [iter |-> dmbListInitIter(h, l, FALSE), met |-> <<>>, ended |-> FALSE]
    <3>1. Least2(0, Len(s)) = 0 /\ Most2(uIndex, 0) = uIndex /\ (0 > Len(s)) = FALSE
      BY <1>1 DEF Least2, Most2
    <3>2. At(l, s, 0) = l
      BY <1>1, AtEnds
    <3>3. Met(FALSE, s, uIndex, uIndex) = <<>>
      BY MetNothing
    <3>. QED  BY <3>1, <3>2, <3>3 DEF ScanAt, dmbListInitIter, IterAt
  <2>3. ASSUME NEW k \in 0 .. done
        PROVE  v[k] = IF k = 0 THEN [iter |-> dmbListInitIter(h, l, FALSE), met |-> <<>>, ended |-> FALSE]
                      ELSE ScanTurn(v[k - 1], k - 1, h, l, uIndex)
    <3>1. CASE k = 0
      BY <2>2, <3>1
    <3>2. CASE k # 0
      <4>1. PICK p : p = k - 1
        OBVIOUS
      <4>2. p \in Nat /\ p + 1 = k /\ p \in 0 .. done /\ uIndex < Len(s)
        BY <1>1, <1>3, <3>2, <4>1
      <4>3. PICK x, y : x = ScanAt(h, l, s, uIndex, p) /\ y = ScanAt(h, l, s, uIndex, p + 1)
        OBVIOUS
      <4>4. ScanTurn(x, p, h, l, uIndex) = y
        BY <4>2, <4>3, ScanGoesOn
      <4>5. v[k] = y /\ v[p] = x
        BY <4>2, <4>3
      <4>. QED  BY <3>2, <4>1, <4>4, <4>5
    <3>. QED  BY <3>1, <3>2
  <2>4. IsScanned(v)
    BY <2>3
  <2>5. IsScanned(f)
    <3>. HIDE DEF IsScanned, v
    <3>. QED  BY <2>4
  <2>. HIDE DEF f
  <2>6. /\ f[0] = v[0]
        /\ \A k \in 1 .. done : f[k] = ScanTurn(f[k - 1], k - 1, h, l, uIndex)
    <3>1. 0 \in 0 .. done /\ \A k \in 1 .. done : k \in 0 .. done /\ k # 0
      BY <1>1
    <3>2. f[0] = [iter |-> dmbListInitIter(h, l, FALSE), met |-> <<>>, ended |-> FALSE]
      BY <2>5, <3>1
    <3>. QED  BY <2>2, <2>5, <3>1, <3>2
  <2>7. \A k \in 1 .. done : v[k] = ScanTurn(v[k - 1], k - 1, h, l, uIndex)
    <3>1. \A k \in 1 .. done : k \in 0 .. done /\ k # 0
      BY <1>1
    <3>. HIDE DEF v
    <3>. QED  BY <2>3, <3>1
  <2>8. \A k \in 0 .. done : f[k] = v[k]
    <3>1. PICK u, g, d : u = v /\ g = f /\ d = done
      OBVIOUS
    <3>. HIDE DEF v, done
    <3>2. \A k \in 1 .. d : g[k - 1] = u[k - 1] => g[k] = u[k]
      BY <2>6, <2>7, <3>1
    <3>3. g[0] = u[0] /\ d \in Nat
      BY <1>1, <2>6, <3>1
    <3>4. GoAlike(g, u, d)
      BY <3>2, <3>3 DEF GoAlike
    <3>5. Alike(g, u, d)
      BY <3>3, <3>4, StayAlike
    <3>. QED  BY <3>1, <3>5 DEF Alike
  <2>9. PICK q : q = done
    OBVIOUS
  <2>10. f[q] = ScanAt(h, l, s, uIndex, q) /\ q \in Nat /\ uIndex <= q
    <3>1. q \in 0 .. done
      BY <1>1, <2>9
    <3>. QED  BY <1>1, <2>8, <2>9, <3>1
  <2>11. f[q].met = Met(FALSE, s, uIndex, Most2(uIndex, Least2(q, n))) /\ f[q].ended = (q > n)
    BY <2>10 DEF ScanAt
  <2>12. Most2(uIndex, Least2(q, n)) = Least2(q, n) /\ ((q > n) \/ q >= n - 1 <=> q >= n - 1)
    BY <1>1, <1>3, <2>10 DEF Most2, Least2
  <2>13. r = [met |-> Met(FALSE, s, uIndex, Least2(q, n)), index |-> IF q >= n - 1 THEN 0 ELSE q]
    BY <2>1, <2>9, <2>11, <2>12
  <2>. QED  BY <1>3, <2>9, <2>13 DEF ScanGives
<1>. QED  BY <1>2, <1>3

-----------------------------------------------------------------------------
(* The work left to a thread.                                              *)
PushActs == {"check", "malloc", "link"}

ItemSet == [act : PushActs \cup {"release", "free", "destroy"}, l : List \cup {NULL}, atBack : BOOLEAN,
            e : Entry \cup {NULL}, o : Obj \cup {NULL}]

WellFormed(x) ==
  /\ x \in ItemSet
  /\ x.e = NULL <=> x.act \in {"check", "malloc", "destroy"}
  /\ x.act \in {"link", "destroy"} => x.o # NULL
  /\ x.act \in PushActs /\ x.o # NULL => x.l # NULL

(* An item whose entry is in no list, and not free.                        *)
Takes(x) == x.act \in {"link", "free"}

(* All of the work is pushes, or none of it is.  Only the first item may   *)
(* be other than it was put there.  What is released is freed next, and no *)
(* entry is freed twice.                                                   *)
OneKind(q) == \/ \A k \in 1 .. Len(q) : q[k].act \in PushActs
              \/ \A k \in 1 .. Len(q) : q[k].act \notin PushActs
Later(q)   == \A k \in 2 .. Len(q) : q[k].act \in {"check", "release", "free"}
Paired(q)  == \A k \in 1 .. Len(q) : q[k].act = "release" =>
                k + 1 \in 1 .. Len(q) /\ q[k + 1].act = "free" /\ q[k + 1].e = q[k].e
Once(q)    == \A j, k \in 1 .. Len(q) : Takes(q[j]) /\ Takes(q[k]) /\ q[j].e = q[k].e => j = k

Work(q) ==
  /\ q \in Seq(ItemSet) /\ \A k \in 1 .. Len(q) : WellFormed(q[k])
  /\ OneKind(q) /\ Later(q) /\ Paired(q) /\ Once(q)

(* The entries it will link or free, those it will release before, the     *)
(* objects it will destroy and those it will push.                         *)
Taken(q)     == {e \in Entry : \E k \in 1 .. Len(q) : Takes(q[k]) /\ q[k].e = e}
Releasing(q) == {e \in Entry : \E k \in 1 .. Len(q) : q[k].act = "release" /\ q[k].e = e}
Doomed(q)    == {o \in Obj : \E k \in 1 .. Len(q) : q[k].act = "destroy" /\ q[k].o = o}
Wanted(q)    == {o \in Obj : \E k \in 1 .. Len(q) : q[k].act \in PushActs /\ q[k].o = o}

-----------------------------------------------------------------------------
(* The invariant.                                                          *)

(* The pointers are circular lists with no entry in common, as long as the *)
(* lengths say.                                                            *)
Listed(h, n, os) == Shape(h, os, List, Entry) /\ n \in [List -> Nat] /\ \A l \in List : n[l] = Len(os[l])
ListsInv == \E os : Listed(heap, len, os)

WorkInv == todo \in [Thread -> Seq(ItemSet)] /\ \A t \in Thread : Work(todo[t])

(* Each entry is free, in a list, or in the work of one thread, and it     *)
(* holds an object if it is in a list or to be released.                   *)
Placed == {e \in Entry : \E l \in List : e \in Linked(l)}
EntriesApart ==
  /\ free \subseteq Entry /\ free \cap Placed = {}
  /\ \A t \in Thread : Taken(todo[t]) \cap (free \cup Placed) = {}
  /\ \A t, u \in Thread : t # u => Taken(todo[t]) \cap Taken(todo[u]) = {}
EntriesKept ==
  \A e \in Entry : e \in free \/ e \in Placed \/ \E t \in Thread : e \in Taken(todo[t])
EntriesHold ==
  /\ obj \in [Entry -> Obj \cup {NULL}]
  /\ \A e \in Entry : obj[e] # NULL <=> e \in Placed \/ \E t \in Thread : e \in Releasing(todo[t])

(* The counts.                                                             *)
Pointing(b, o) == {e \in Entry : b[e] = o}
HeldSum(h, o)  == Sets!MapThenSumSet(LAMBDA t : h[t][o], Thread)
CountInv ==
  /\ ref \in [Obj -> Nat] /\ held \in [Thread -> [Obj -> Nat]]
  /\ \A o \in Obj : ref[o] = Cardinality(Pointing(obj, o)) + HeldSum(held, o)

(* An object without references is waiting for the one thread that         *)
(* destroys it.                                                            *)
LiveInv ==
  /\ live \in [Obj -> BOOLEAN]
  /\ \A o \in Obj : ref[o] > 0 => live[o]
  /\ \A t \in Thread : \A o \in Doomed(todo[t]) : live[o] /\ ref[o] = 0
  /\ \A o \in Obj : live[o] /\ ref[o] = 0 => \E t \in Thread : o \in Doomed(todo[t])
  /\ \A t, u \in Thread : t # u => Doomed(todo[t]) \cap Doomed(todo[u]) = {}

UsedInv == used = Cardinality(Entry \ free) + Cardinality({o \in Obj : live[o]})

(* A thread has a reference to what it pushes, by itself or in a list.     *)
Holds(t, o) == \/ held[t][o] > 0
               \/ \E l \in List : Owner[l] = t /\ \E e \in Linked(l) : obj[e] = o
WantedInv == \A t \in Thread : \A o \in Wanted(todo[t]) : Holds(t, o)

DLInv == /\ ListsInv /\ WorkInv /\ EntriesApart /\ EntriesKept /\ EntriesHold
         /\ CountInv /\ LiveInv /\ UsedInv /\ WantedInv

-----------------------------------------------------------------------------
(* Work, item by item.                                                     *)
TakenBy(x)    == {e \in Entry : Takes(x) /\ x.e = e}
ReleasedBy(x) == {e \in Entry : x.act = "release" /\ x.e = e}
DoomedBy(x)   == {o \in Obj : x.act = "destroy" /\ x.o = o}
WantedBy(x)   == {o \in Obj : x.act \in PushActs /\ x.o = o}

IsCons(q, x, p) ==
  Len(q) = Len(p) + 1 /\ q[1] = x /\ \A k \in 1 .. Len(p) : q[k + 1] = p[k]

(* What is behind the first item.                                          *)
Calm(x, p) ==
  /\ \A k \in 1 .. Len(p) : p[k].act \in {"check", "release", "free"}
  /\ IF x.act \in PushActs THEN \A k \in 1 .. Len(p) : p[k].act = "check"
     ELSE \A k \in 1 .. Len(p) : p[k].act # "check"

Consists(q, x, p) ==
  /\ Taken(q) = Taken(p) \cup TakenBy(x)
  /\ Releasing(q) = Releasing(p) \cup ReleasedBy(x)
  /\ Doomed(q) = Doomed(p) \cup DoomedBy(x)
  /\ Wanted(q) = Wanted(p) \cup WantedBy(x)

LEMMA ConsConsists ==
  ASSUME NEW q, NEW x, NEW p, IsCons(q, x, p), Len(p) \in Nat
  PROVE  Consists(q, x, p)
<1>1. PICK n \in Nat : n = Len(p)
  OBVIOUS
<1>2. Len(q) = n + 1 /\ q[1] = x /\ \A k \in 1 .. n : q[k + 1] = p[k]
  BY <1>1 DEF IsCons
<1>3. ASSUME NEW k \in 1 .. n + 1 PROVE q[k] = x \/ \E j \in 1 .. n : q[k] = p[j]
  <2>1. CASE k = 1
    BY <1>2, <2>1
  <2>2. CASE k # 1
    <3>1. k - 1 \in 1 .. n /\ (k - 1) + 1 = k
      BY <1>1, <2>2
    <3>. QED  BY <1>2, <3>1
  <2>. QED  BY <2>1, <2>2
<1>4. \A k \in 1 .. n : \E j \in 1 .. n + 1 : p[k] = q[j]
  <2>1. \A k \in 1 .. n : k + 1 \in 1 .. n + 1
    BY <1>1
  <2>. QED  BY <1>2, <2>1
<1>5. \E j \in 1 .. n + 1 : x = q[j]
  <2>1. 1 \in 1 .. n + 1
    BY <1>1
  <2>. QED  BY <1>2, <2>1
<1>6. Taken(q) = Taken(p) \cup TakenBy(x)
  BY <1>1, <1>2, <1>3, <1>4, <1>5, SMTT(30) DEF Taken, TakenBy, Takes
<1>7. Releasing(q) = Releasing(p) \cup ReleasedBy(x)
  BY <1>1, <1>2, <1>3, <1>4, <1>5, SMTT(30) DEF Releasing, ReleasedBy
<1>8. Doomed(q) = Doomed(p) \cup DoomedBy(x)
  BY <1>1, <1>2, <1>3, <1>4, <1>5, SMTT(30) DEF Doomed, DoomedBy
<1>9. Wanted(q) = Wanted(p) \cup WantedBy(x)
  BY <1>1, <1>2, <1>3, <1>4, <1>5, SMTT(30) DEF Wanted, WantedBy
<1>. QED  BY <1>6, <1>7, <1>8, <1>9 DEF Consists

(* What the first item says of the others.                                 *)
Headed(q, x, p) ==
  /\ IsCons(q, x, p) /\ Work(p) /\ WellFormed(x) /\ Calm(x, p)
  /\ Consists(q, x, p)
  /\ TakenBy(x) \cap Taken(p) = {} /\ ReleasedBy(x) \subseteq Taken(p)

LEMMA HeadOff ==
  ASSUME NEW q, Work(q), q # <<>>, NEW x, x = Head(q), NEW p, p = Tail(q)
  PROVE  Headed(q, x, p)
<1>1. PICK n \in Nat : Len(q) = n + 1
  <2>1. q \in Seq(ItemSet) /\ Len(q) \in Nat /\ Len(q) # 0
    BY DEF Work
  <2>2. Len(q) - 1 \in Nat /\ Len(q) = (Len(q) - 1) + 1
    BY <2>1
  <2>. QED  BY <2>2
<1>2. /\ q \in Seq(ItemSet) /\ \A k \in 1 .. n + 1 : WellFormed(q[k])
      /\ OneKind(q) /\ Later(q) /\ Paired(q) /\ Once(q)
  BY <1>1 DEF Work
<1>3. p \in Seq(ItemSet) /\ Len(p) = n /\ q[1] = x /\ \A k \in 1 .. n : p[k] = q[k + 1]
  BY <1>1, <1>2
<1>4. IsCons(q, x, p)
  BY <1>1, <1>3 DEF IsCons
<1>5. \A k \in 1 .. n : k + 1 \in 1 .. n + 1 /\ k + 1 \in 2 .. n + 1 /\ k + 1 # 1
  BY <1>1
<1>6. 1 \in 1 .. n + 1
  BY <1>1
<1>7. \A k \in 1 .. n : p[k].act \in {"check", "release", "free"} /\ WellFormed(p[k])
  BY <1>1, <1>2, <1>3, <1>5 DEF Later
<1>8. Calm(x, p)
  <2>1. IF x.act \in PushActs THEN \A k \in 1 .. n : p[k].act \in PushActs
        ELSE \A k \in 1 .. n : p[k].act \notin PushActs
    BY <1>1, <1>2, <1>3, <1>5, <1>6 DEF OneKind
  <2>. QED  BY <1>3, <1>7, <2>1 DEF Calm, PushActs
<1>9. Work(p)
  <2>1. OneKind(p)
    BY <1>3, <1>8 DEF Calm, OneKind, PushActs
  <2>2. Later(p)
    <3>1. \A k \in 2 .. n : k \in 1 .. n
      BY <1>1
    <3>. QED  BY <1>3, <1>7, <3>1 DEF Later
  <2>3. Paired(p)
    <3>. SUFFICES ASSUME NEW k \in 1 .. n, p[k].act = "release"
                  PROVE  k + 1 \in 1 .. n /\ p[k + 1].act = "free" /\ p[k + 1].e = p[k].e
      BY <1>3 DEF Paired
    <3>1. PICK j : j = k + 1
      OBVIOUS
    <3>2. j \in 1 .. n + 1 /\ q[j].act = "release" /\ q[j].e = p[k].e
      BY <1>3, <1>5, <3>1
    <3>3. j + 1 \in 1 .. n + 1 /\ q[j + 1].act = "free" /\ q[j + 1].e = p[k].e
      BY <1>1, <1>2, <3>2 DEF Paired
    <3>4. j \in 1 .. n
      BY <1>1, <3>1, <3>3
    <3>. QED  BY <1>3, <3>1, <3>3, <3>4
  <2>4. Once(p)
    <3>. SUFFICES ASSUME NEW j \in 1 .. n, NEW k \in 1 .. n, Takes(p[j]), Takes(p[k]), p[j].e = p[k].e
                  PROVE  j = k
      BY <1>3 DEF Once
    <3>1. j + 1 = k + 1
      BY <1>1, <1>2, <1>3, <1>5 DEF Once
    <3>. QED  BY <3>1
  <2>. QED  BY <1>3, <1>7, <2>1, <2>2, <2>3, <2>4 DEF Work
<1>10. TakenBy(x) \cap Taken(p) = {}
  <2>. SUFFICES ASSUME NEW e \in Entry, Takes(x), x.e = e, NEW k \in 1 .. n, Takes(p[k]), p[k].e = e
                PROVE  FALSE
    BY <1>3 DEF TakenBy, Taken
  <2>1. k + 1 = 1
    BY <1>1, <1>2, <1>3, <1>5, <1>6 DEF Once
  <2>. QED  BY <1>5, <2>1
<1>11. ReleasedBy(x) \subseteq Taken(p)
  <2>. SUFFICES ASSUME NEW e \in Entry, x.act = "release", x.e = e PROVE e \in Taken(p)
    BY DEF ReleasedBy
  <2>1. 1 + 1 \in 1 .. n + 1 /\ q[1 + 1].act = "free" /\ q[1 + 1].e = e
    BY <1>1, <1>2, <1>3, <1>6 DEF Paired
  <2>2. 1 \in 1 .. n
    BY <2>1
  <2>3. p[1] = q[1 + 1]
    BY <1>3, <2>2
  <2>. QED  BY <1>3, <2>1, <2>2, <2>3 DEF Taken, Takes
<1>12. Consists(q, x, p)
  BY <1>3, <1>4, ConsConsists
<1>13. WellFormed(x)
  BY <1>2, <1>3, <1>6
<1>. QED  BY <1>4, <1>8, <1>9, <1>10, <1>11, <1>12, <1>13 DEF Headed

(* An item in front of others.                                             *)
LEMMA HeadOn ==
  ASSUME NEW p, Work(p), NEW x, WellFormed(x), x.act # "release", Calm(x, p),
         TakenBy(x) \cap Taken(p) = {}, NEW q, q = <<x>> \o p
  PROVE  Work(q) /\ Headed(q, x, p)
<1>1. PICK n \in Nat : Len(p) = n
  BY DEF Work
<1>2. /\ p \in Seq(ItemSet) /\ \A k \in 1 .. n : WellFormed(p[k])
      /\ OneKind(p) /\ Later(p) /\ Paired(p) /\ Once(p)
  BY <1>1 DEF Work
<1>3. q \in Seq(ItemSet) /\ Len(q) = n + 1 /\ q[1] = x /\ \A k \in 1 .. n : q[k + 1] = p[k]
  <2>1. <<x>> \in Seq(ItemSet) /\ Len(<<x>>) = 1 /\ <<x>>[1] = x
    BY DEF WellFormed
  <2>2. q \in Seq(ItemSet) /\ Len(q) = 1 + n
    BY <1>1, <1>2, <2>1, ConcatProperties
  <2>3. \A k \in 1 .. 1 + n : q[k] = IF k <= 1 THEN <<x>>[k] ELSE p[k - 1]
    BY <1>1, <1>2, <2>1, ConcatProperties
  <2>4. q[1] = x
    BY <1>1, <2>1, <2>3
  <2>5. ASSUME NEW k \in 1 .. n PROVE q[k + 1] = p[k]
    <3>1. k + 1 \in 1 .. 1 + n /\ ~(k + 1 <= 1) /\ (k + 1) - 1 = k
      BY <1>1
    <3>. QED  BY <2>3, <3>1
  <2>. QED  BY <1>1, <2>2, <2>4, <2>5
<1>4. IsCons(q, x, p)
  BY <1>1, <1>3 DEF IsCons
<1>5. \A k \in 1 .. n + 1 : k = 1 \/ (k - 1 \in 1 .. n /\ (k - 1) + 1 = k /\ q[k] = p[k - 1])
  <2>. SUFFICES ASSUME NEW k \in 1 .. n + 1, k # 1
                PROVE  k - 1 \in 1 .. n /\ (k - 1) + 1 = k /\ q[k] = p[k - 1]
    OBVIOUS
  <2>1. k - 1 \in 1 .. n /\ (k - 1) + 1 = k
    BY <1>1
  <2>. QED  BY <1>3, <2>1
<1>6. \A k \in 1 .. n : p[k].act \in {"check", "release", "free"}
  BY <1>1 DEF Calm
<1>7. OneKind(q)
  <2>1. CASE x.act \in PushActs
    <3>1. \A k \in 1 .. n : p[k].act \in PushActs
      BY <1>1, <2>1 DEF Calm, PushActs
    <3>. QED  BY <1>3, <1>5, <2>1, <3>1 DEF OneKind
  <2>2. CASE x.act \notin PushActs
    <3>1. \A k \in 1 .. n : p[k].act \notin PushActs
      BY <1>1, <1>6, <2>2 DEF Calm, PushActs
    <3>. QED  BY <1>3, <1>5, <2>2, <3>1 DEF OneKind
  <2>. QED  BY <2>1, <2>2
<1>8. Later(q)
  <2>1. \A k \in 2 .. n + 1 : k \in 1 .. n + 1 /\ k # 1
    BY <1>1
  <2>. QED  BY <1>3, <1>5, <1>6, <2>1 DEF Later
<1>9. Paired(q)
  <2>. SUFFICES ASSUME NEW k \in 1 .. n + 1, q[k].act = "release"
                PROVE  k + 1 \in 1 .. n + 1 /\ q[k + 1].act = "free" /\ q[k + 1].e = q[k].e
    BY <1>3 DEF Paired
  <2>1. PICK j : j = k - 1
    OBVIOUS
  <2>2. j \in 1 .. n /\ j + 1 = k /\ q[k] = p[j]
    BY <1>3, <1>5, <2>1
  <2>3. j + 1 \in 1 .. n /\ p[j + 1].act = "free" /\ p[j + 1].e = p[j].e
    BY <1>1, <1>2, <2>2 DEF Paired
  <2>4. k + 1 \in 1 .. n + 1 /\ q[k + 1] = p[k] /\ p[k] = p[j + 1]
    BY <1>1, <1>3, <2>2, <2>3
  <2>. QED  BY <2>2, <2>3, <2>4
<1>10. Once(q)
  <2>1. \A k \in 1 .. n : Takes(p[k]) /\ Takes(x) => p[k].e # x.e
    <3>. SUFFICES ASSUME NEW k \in 1 .. n, Takes(p[k]), Takes(x), p[k].e = x.e PROVE FALSE
      OBVIOUS
    <3>1. x.e \in Entry
      BY DEF Takes, WellFormed, ItemSet
    <3>. QED  BY <1>1, <3>1 DEF TakenBy, Taken
  <2>. SUFFICES ASSUME NEW j \in 1 .. n + 1, NEW k \in 1 .. n + 1, Takes(q[j]), Takes(q[k]), q[j].e = q[k].e
                PROVE  j = k
    BY <1>3 DEF Once
  <2>2. CASE j = 1 \/ k = 1
    BY <1>3, <1>5, <2>1, <2>2
  <2>3. CASE j # 1 /\ k # 1
    <3>1. PICK i, m : i = j - 1 /\ m = k - 1
      OBVIOUS
    <3>2. /\ i \in 1 .. n /\ i + 1 = j /\ q[j] = p[i]
          /\ m \in 1 .. n /\ m + 1 = k /\ q[k] = p[m]
      BY <1>5, <2>3, <3>1
    <3>3. i = m
      BY <1>1, <1>2, <3>2 DEF Once
    <3>. QED  BY <3>2, <3>3
  <2>. QED  BY <2>2, <2>3
<1>11. Work(q)
  <2>1. \A k \in 1 .. n + 1 : WellFormed(q[k])
    BY <1>2, <1>3, <1>5
  <2>. QED  BY <1>3, <1>7, <1>8, <1>9, <1>10, <2>1 DEF Work
<1>12. Consists(q, x, p)
  BY <1>1, <1>4, ConsConsists
<1>13. ReleasedBy(x) \subseteq Taken(p)
  BY DEF ReleasedBy
<1>. QED  BY <1>4, <1>11, <1>12, <1>13 DEF Headed

(* No work.                                                                *)
Nothing(q) == Taken(q) = {} /\ Releasing(q) = {} /\ Doomed(q) = {} /\ Wanted(q) = {}

LEMMA NoWork == Work(<<>>) /\ Nothing(<<>>) /\ \A x : Calm(x, <<>>)
<1>1. Len(<<>>) = 0 /\ <<>> \in Seq(ItemSet)
  OBVIOUS
<1>2. 1 .. 0 = {} /\ 2 .. 0 = {}
  OBVIOUS
<1>3. \A k \in 1 .. Len(<<>>) : FALSE
  BY <1>1, <1>2
<1>4. \A k \in 2 .. Len(<<>>) : FALSE
  BY <1>1, <1>2
<1>5. Work(<<>>)
  BY <1>1, <1>3, <1>4 DEF Work, OneKind, Later, Paired, Once
<1>6. Nothing(<<>>)
  BY <1>3 DEF Nothing, Taken, Releasing, Doomed, Wanted
<1>. QED  BY <1>3, <1>5, <1>6 DEF Calm

(* A single item.                                                          *)
Single(q, x) ==
  /\ Work(q)
  /\ Taken(q) = TakenBy(x) /\ Releasing(q) = {} /\ Doomed(q) = DoomedBy(x) /\ Wanted(q) = WantedBy(x)

LEMMA OneItem ==
  ASSUME NEW x, WellFormed(x), x.act # "release", NEW q, q = <<x>>
  PROVE  Single(q, x)
<1>1. PICK p : p = <<>>
  OBVIOUS
<1>2. Work(p) /\ Nothing(p) /\ Calm(x, p)
  BY <1>1, NoWork
<1>3. q = <<x>> \o p
  <2>1. <<x>> \in Seq(ItemSet)
    BY DEF WellFormed
  <2>2. <<x>> \o <<>> = <<x>>
    BY <2>1, ConcatEmptySeq
  <2>. QED  BY <1>1, <2>2
<1>4. TakenBy(x) \cap Taken(p) = {}
  BY <1>2 DEF Nothing
<1>5. Work(q) /\ Headed(q, x, p)
  BY <1>2, <1>3, <1>4, HeadOn
<1>6. ReleasedBy(x) = {}
  BY DEF ReleasedBy
<1>. QED  BY <1>2, <1>5, <1>6 DEF Headed, Consists, Nothing, Single

(* The work of destroyEntry: Es are the entries of es.                     *)
Among(es, E) == es \in Seq(E) /\ (\A k \in 1 .. Len(es) : es[k] \in E)
                /\ \A e \in E : \E k \in 1 .. Len(es) : es[k] = e
Apartness(es) == \A j, k \in 1 .. Len(es) : es[j] = es[k] => j = k

Destroying(q, E) ==
  Work(q) /\ Taken(q) = E /\ Releasing(q) = E /\ Doomed(q) = {} /\ Wanted(q) = {}

LEMMA DestroyWork ==
  ASSUME NEW E, E \in SUBSET Entry, NEW es, Among(es, E), Apartness(es), NEW q, q = destroyEntry(es)
  PROVE  Destroying(q, E)
<1>1. PICK n \in Nat : n = Len(es)
  BY DEF Among
<1>2. /\ es \in Seq(E) /\ \A k \in 1 .. n : es[k] \in E /\ es[k] \in Entry
      /\ \A e \in E : \E k \in 1 .. n : es[k] = e
  BY <1>1 DEF Among
<1>. DEFINE it(k) == Item(IF k % 2 = 1 THEN "release" ELSE "free", NULL, TRUE, es[(k + 1) \div 2], NULL)
<1>3. PICK m \in Nat : m = 2 * n
  OBVIOUS
<1>4. q = [k \in 1 .. m |-> it(k)]
  BY <1>1, <1>3 DEF destroyEntry
<1>5. \A k \in 1 .. m : (k + 1) \div 2 \in 1 .. n
  BY <1>3
<1>6. ASSUME NEW k \in 1 .. m PROVE WellFormed(it(k)) /\ it(k).e \in E
  <2>1. PICK e : e = es[(k + 1) \div 2]
    OBVIOUS
  <2>2. e \in Entry /\ e \in E /\ e # NULL
    BY <1>2, <1>5, <2>1, DLListAssumption
  <2>3. PICK a : a = IF k % 2 = 1 THEN "release" ELSE "free"
    OBVIOUS
  <2>4. a \in {"release", "free"}
    BY <2>3
  <2>0. PICK yes \in BOOLEAN : yes = TRUE
    OBVIOUS
  <2>5. it(k) = [act |-> a, l |-> NULL, atBack |-> yes, e |-> e, o |-> NULL]
    BY <2>0, <2>1, <2>3 DEF Item
  <2>. HIDE DEF it
  <2>6. it(k) \in ItemSet
    BY <2>2, <2>4, <2>5 DEF ItemSet, PushActs
  <2>7. it(k).act = a /\ it(k).e = e
    BY <2>5
  <2>. QED  BY <2>2, <2>4, <2>6, <2>7 DEF WellFormed, PushActs
<1>7. \A k \in 1 .. m : /\ it(k).act = IF k % 2 = 1 THEN "release" ELSE "free"
                        /\ it(k).e = es[(k + 1) \div 2]
  BY DEF Item
<1>. HIDE DEF it
<1>8. q \in Seq(ItemSet) /\ Len(q) = m /\ \A k \in 1 .. m : q[k] = it(k) /\ WellFormed(q[k])
  <2>1. \A k \in 1 .. m : it(k) \in ItemSet
    BY <1>6 DEF WellFormed
  <2>2. q \in [1 .. m -> ItemSet]
    BY <1>4, <2>1
  <2>3. q \in Seq(ItemSet) /\ Len(q) = m
    BY <2>2
  <2>. QED  BY <1>4, <1>6, <2>3
<1>9. \A k \in 1 .. m : /\ q[k].act = IF k % 2 = 1 THEN "release" ELSE "free"
                        /\ q[k].e = es[(k + 1) \div 2]
  BY <1>7, <1>8
<1>10. OneKind(q) /\ Later(q)
  <2>1. \A k \in 1 .. m : q[k].act \in {"release", "free"}
    BY <1>9
  <2>2. \A k \in 2 .. m : k \in 1 .. m
    BY <1>3
  <2>. QED  BY <1>8, <2>1, <2>2 DEF OneKind, Later, PushActs
<1>11. Paired(q)
  <2>. SUFFICES ASSUME NEW k \in 1 .. m, q[k].act = "release"
                PROVE  k + 1 \in 1 .. m /\ q[k + 1].act = "free" /\ q[k + 1].e = q[k].e
    BY <1>8 DEF Paired
  <2>1. k % 2 = 1
    BY <1>9
  <2>2. k + 1 \in 1 .. m /\ (k + 1) % 2 # 1 /\ ((k + 1) + 1) \div 2 = (k + 1) \div 2
    BY <1>3, <2>1
  <2>. QED  BY <1>9, <2>2
<1>12. Once(q)
  <2>. SUFFICES ASSUME NEW j \in 1 .. m, NEW k \in 1 .. m, Takes(q[j]), Takes(q[k]), q[j].e = q[k].e
                PROVE  j = k
    BY <1>8 DEF Once
  <2>1. j % 2 # 1 /\ k % 2 # 1
    BY <1>9 DEF Takes
  <2>2. (j + 1) \div 2 = (k + 1) \div 2
    <3>1. es[(j + 1) \div 2] = es[(k + 1) \div 2]
      BY <1>9
    <3>. QED  BY <1>1, <1>5, <3>1 DEF Apartness
  <2>. QED  BY <2>1, <2>2
<1>13. Work(q)
  BY <1>8, <1>10, <1>11, <1>12 DEF Work
<1>14. ASSUME NEW e \in E
       PROVE  e \in Taken(q) /\ e \in Releasing(q)
  <2>1. PICK k \in 1 .. n : es[k] = e
    BY <1>2
  <2>2. PICK i, j : i = 2 * k - 1 /\ j = 2 * k
    OBVIOUS
  <2>3. i \in 1 .. m /\ j \in 1 .. m /\ i % 2 = 1 /\ j % 2 # 1 /\ (i + 1) \div 2 = k /\ (j + 1) \div 2 = k
    BY <1>3, <2>2
  <2>4. q[i].act = "release" /\ q[i].e = e /\ q[j].act = "free" /\ q[j].e = e
    BY <1>9, <2>1, <2>3
  <2>. QED  BY <1>8, <2>3, <2>4 DEF Taken, Releasing, Takes
<1>15. \A k \in 1 .. m : q[k].e \in E
  BY <1>2, <1>5, <1>9
<1>16. Taken(q) \subseteq E /\ Releasing(q) \subseteq E
  BY <1>8, <1>15 DEF Taken, Releasing
<1>17. Doomed(q) = {} /\ Wanted(q) = {}
  BY <1>8, <1>9 DEF Doomed, Wanted, PushActs
<1>. QED  BY <1>13, <1>14, <1>16, <1>17 DEF Destroying

(* The work of GetRange and Scan.                                          *)
Pushing(q, es) ==
  /\ Work(q) /\ Taken(q) = {} /\ Releasing(q) = {} /\ Doomed(q) = {}
  /\ \A o \in Wanted(q) : \E k \in 1 .. Len(es) : o = obj[es[k]]

LEMMA PushWork ==
  ASSUME NEW l, l \in List, NEW E, NEW es, es \in Seq(E), \A k \in 1 .. Len(es) : obj[es[k]] \in Obj,
         NEW q, q = Pushes(l, es)
  PROVE  Pushing(q, es)
<1>1. PICK n \in Nat : n = Len(es)
  OBVIOUS
<1>. DEFINE it(k) == PushItem(l, TRUE, obj[es[k]])
<1>2. q = [k \in 1 .. n |-> it(k)]
  BY <1>1 DEF Pushes
<1>3. ASSUME NEW k \in 1 .. n
      PROVE  WellFormed(it(k)) /\ it(k).act = "check" /\ it(k).o = obj[es[k]]
  <2>1. PICK o \in Obj : o = obj[es[k]]
    BY <1>1
  <2>0. PICK yes \in BOOLEAN : yes = TRUE
    OBVIOUS
  <2>2. it(k) = [act |-> "check", l |-> l, atBack |-> yes, e |-> NULL, o |-> o]
    BY <2>0, <2>1 DEF PushItem, Item
  <2>. HIDE DEF it
  <2>3. it(k) \in ItemSet
    BY <2>2 DEF ItemSet, PushActs
  <2>4. it(k).act = "check" /\ it(k).e = NULL /\ it(k).l = l /\ it(k).o = o /\ l # NULL
    BY <2>2, DLListAssumption
  <2>. QED  BY <2>1, <2>3, <2>4 DEF WellFormed, PushActs
<1>. HIDE DEF it
<1>4. q \in Seq(ItemSet) /\ Len(q) = n /\ \A k \in 1 .. n : q[k] = it(k)
  <2>1. \A k \in 1 .. n : it(k) \in ItemSet
    BY <1>3 DEF WellFormed
  <2>2. q \in [1 .. n -> ItemSet]
    BY <1>2, <2>1
  <2>3. q \in Seq(ItemSet) /\ Len(q) = n
    BY <2>2
  <2>. QED  BY <1>2, <2>3
<1>5. \A k \in 1 .. n : WellFormed(q[k]) /\ q[k].act = "check" /\ q[k].o = obj[es[k]]
  BY <1>3, <1>4
<1>6. \A k \in 2 .. n : k \in 1 .. n
  BY <1>1
<1>7. OneKind(q) /\ Later(q) /\ Paired(q) /\ Once(q)
  BY <1>4, <1>5, <1>6 DEF OneKind, Later, Paired, Once, Takes, PushActs
<1>8. Work(q)
  BY <1>4, <1>5, <1>7 DEF Work
<1>9. Taken(q) = {} /\ Releasing(q) = {} /\ Doomed(q) = {}
  BY <1>4, <1>5 DEF Taken, Releasing, Doomed, Takes
<1>10. \A o \in Wanted(q) : \E k \in 1 .. n : o = obj[es[k]]
  BY <1>4, <1>5 DEF Wanted
<1>. QED  BY <1>1, <1>8, <1>9, <1>10 DEF Pushing

-----------------------------------------------------------------------------
(* The lists.                                                              *)
Of(s) == {s[k] : k \in 1 .. Len(s)}

ListAt(h, n, os, l) ==
  /\ OnHeap(h, List \cup Entry, Entry, l, os[l]) /\ n[l] = Len(os[l])
  /\ Walks(h, l, os[l], n[l]) /\ Walk(h, l, n[l], TRUE) = os[l]
  /\ Of(os[l]) \subseteq Entry /\ Members(l, os[l]) = {l} \cup Of(os[l])

LEMMA ListIs ==
  ASSUME NEW h, NEW n, NEW os, Listed(h, n, os), NEW l, l \in List
  PROVE  ListAt(h, n, os, l)
<1>1. PICK s : s = os[l]
  OBVIOUS
<1>2. /\ s \in Seq(Entry) /\ Chain(h, l, s) /\ Distinct(l, s) /\ h \in Heap(List \cup Entry) /\ n[l] = Len(s)
  BY <1>1 DEF Listed, Shape
<1>3. OnHeap(h, List \cup Entry, Entry, l, s)
  BY <1>2 DEF OnHeap
<1>4. NULL \notin Entry /\ l # NULL
  BY DLListAssumption
<1>5. Walks(h, l, s, n[l])
  BY <1>2, <1>4, WalksAre
<1>6. Members(l, s) = {l} \cup Of(s)
  BY <1>2, MembersAre DEF Of
<1>7. Of(s) \subseteq Entry
  BY <1>2 DEF Of
<1>8. Walk(h, l, n[l], TRUE) = s
  BY <1>5 DEF Walks
<1>. QED  BY <1>1, <1>2, <1>3, <1>5, <1>6, <1>7, <1>8 DEF ListAt

(* Lists have no entry in common.                                          *)
LEMMA ListsApart ==
  ASSUME NEW h, NEW n, NEW os, Listed(h, n, os), NEW l, l \in List, NEW m, m \in List, l # m
  PROVE  Of(os[l]) \cap Of(os[m]) = {}
<1>1. Members(l, os[l]) = {l} \cup Of(os[l]) /\ Members(m, os[m]) = {m} \cup Of(os[m])
  <2>1. ListAt(h, n, os, l) /\ ListAt(h, n, os, m)
    BY ListIs
  <2>. QED  BY <2>1 DEF ListAt
<1>2. Members(l, os[l]) \cap Members(m, os[m]) = {}
  BY DEF Listed, Shape
<1>. QED  BY <1>1, <1>2

(* A change of the list l to s.                                            *)
Changed(g, n, os, l, s, E) ==
  s \in Seq(Entry) /\ Listed(g, n, [os EXCEPT ![l] = s]) /\ Of(s) = E

LEMMA ListChanges ==
  ASSUME NEW h, NEW n, NEW os, Listed(h, n, os), NEW l, l \in List, NEW s, s \in Seq(Entry),
         NEW X, X \in SUBSET Entry, \A m \in List : X \cap Of(os[m]) = {},
         NEW g, g \in Heap(List \cup Entry), Chain(g, l, s), Distinct(l, s), NEW E, E \in SUBSET Entry,
         E \subseteq Of(os[l]) \cup X, Members(l, s) = {l} \cup E,
         Same(g, h, (List \cup Entry) \ (Members(l, os[l]) \cup X)),
         NEW n2, n2 = [n EXCEPT ![l] = Len(s)]
  PROVE  Changed(g, n2, os, l, s, E)
<1>1. \A m \in List : Members(m, os[m]) = {m} \cup Of(os[m])
  <2>1. \A m \in List : ListAt(h, n, os, m)
    BY ListIs
  <2>. QED  BY <2>1 DEF ListAt
<1>2. \A m \in List : m \notin Entry
  BY DLListAssumption
<1>3. \A m \in List : X \cap Members(m, os[m]) = {}
  BY <1>1, <1>2
<1>4. Members(l, s) \subseteq Members(l, os[l]) \cup X
  BY <1>1
<1>5. Shape(h, os, List, Entry)
  BY DEF Listed
<1>6. PICK os2 : os2 = [os EXCEPT ![l] = s]
  OBVIOUS
<1>7. Shape(g, os2, List, Entry)
  BY <1>3, <1>4, <1>5, <1>6, ShapeChanges
<1>8. n2 \in [List -> Nat] /\ \A m \in List : n2[m] = Len(os2[m])
  <2>1. os \in [List -> Seq(Entry)] /\ n \in [List -> Nat] /\ \A m \in List : n[m] = Len(os[m])
    BY DEF Listed, Shape
  <2>2. Len(s) \in Nat
    OBVIOUS
  <2>. QED  BY <1>6, <2>1, <2>2
<1>9. Of(s) = E
  <2>1. Members(l, s) = {l} \cup {s[k] : k \in 1 .. Len(s)}
    BY MembersAre
  <2>2. Of(s) \subseteq Entry
    BY DEF Of
  <2>. QED  BY <1>2, <2>1, <2>2 DEF Of
<1>. QED  BY <1>6, <1>7, <1>8, <1>9 DEF Changed, Listed

(* An entry of no list becomes the last or the first of a list.            *)
LEMMA ListPush ==
  ASSUME NEW h, NEW n, NEW os, Listed(h, n, os), NEW l, l \in List, NEW e, e \in Entry,
         \A m \in List : e \notin Of(os[m]), NEW atBack, NEW g,
         g = (IF atBack THEN dmbListPushBack(h, l, e) ELSE dmbListPushFront(h, l, e)),
         NEW n2, n2 = [n EXCEPT ![l] = @ + 1],
         NEW s, s = (IF atBack THEN Append(os[l], e) ELSE <<e>> \o os[l])
  PROVE  Changed(g, n2, os, l, s, Of(os[l]) \cup {e})
<1>1. PICK q, P : q = os[l] /\ P = List \cup Entry
  OBVIOUS
<1>2. /\ q \in Seq(Entry) /\ Chain(h, l, q) /\ Distinct(l, q) /\ h \in Heap(P) /\ n[l] = Len(q)
      /\ Of(q) \subseteq Entry /\ Members(l, q) = {l} \cup Of(q) /\ n \in [List -> Nat]
      /\ Entry \subseteq P /\ l \in P
  <2>1. ListAt(h, n, os, l)
    BY ListIs
  <2>. QED  BY <1>1, <2>1 DEF ListAt, OnHeap, Listed
<1>3. h.next[l] = At(l, q, 1) /\ h.prev[l] = At(l, q, Len(q))
  BY <1>2, ChainLinked
<1>4. Len(q) \in Nat /\ At(l, q, 0) = l /\ At(l, q, Len(q) + 1) = l
  <2>1. q \in Seq(Entry)
    BY <1>2
  <2>. QED  BY <2>1, AtEnds
<1>5. PICK k : k = IF atBack THEN Len(q) ELSE 0
  OBVIOUS
<1>6. k \in 0 .. Len(q)
  BY <1>4, <1>5
<1>7. g = L!insert(h, e, At(l, q, k), At(l, q, k + 1))
  <2>1. CASE atBack
    BY <1>3, <1>4, <1>5, <2>1 DEF dmbListPushBack, insert, L!insert
  <2>2. CASE ~atBack
    <3>1. 0 + 1 = 1
      OBVIOUS
    <3>. QED  BY <1>3, <1>4, <1>5, <2>2, <3>1 DEF dmbListPushFront, insert, L!insert
  <2>. QED  BY <2>1, <2>2
<1>8. e \notin Members(l, q)
  <2>1. e # l
    BY DLListAssumption
  <2>. QED  BY <1>1, <1>2, <2>1
<1>9. Inserting(g, h, P, Entry, l, q, k, e)
  BY <1>2, <1>6, <1>7, <1>8, InsertChain
<1>10. s = Seqs!InsertAt(q, k + 1, e)
  <2>1. AtEitherEnd(q, e)
    BY <1>2, InsertedAtEnds
  <2>2. 0 + 1 = 1
    OBVIOUS
  <2>. QED  BY <1>1, <1>5, <2>1, <2>2 DEF AtEitherEnd
<1>11. /\ g \in Heap(P) /\ Chain(g, l, s) /\ Distinct(l, s) /\ s \in Seq(Entry)
       /\ Members(l, s) = Members(l, q) \cup {e} /\ Same(g, h, P \ (Members(l, q) \cup {e}))
  BY <1>9, <1>10 DEF Inserting
<1>12. Len(s) = Len(q) + 1
  <2>1. CASE atBack
    BY <1>1, <1>2, <2>1
  <2>2. CASE ~atBack
    <3>1. <<e>> \in Seq(Entry) /\ Len(<<e>>) = 1
      OBVIOUS
    <3>2. Len(<<e>> \o q) = 1 + Len(q)
      BY <1>2, <3>1, ConcatProperties
    <3>. QED  BY <1>1, <1>4, <2>2, <3>2
  <2>. QED  BY <2>1, <2>2
<1>13. n2 = [n EXCEPT ![l] = Len(s)]
  BY <1>2, <1>12
<1>14. PICK X, E : X = {e} /\ E = Of(q) \cup {e}
  OBVIOUS
<1>15. /\ X \in SUBSET Entry /\ (\A m \in List : X \cap Of(os[m]) = {}) /\ E \in SUBSET Entry
       /\ E \subseteq Of(os[l]) \cup X /\ Members(l, s) = {l} \cup E
       /\ Same(g, h, (List \cup Entry) \ (Members(l, os[l]) \cup X)) /\ g \in Heap(List \cup Entry)
  BY <1>1, <1>2, <1>11, <1>14
<1>16. Changed(g, n2, os, l, s, E)
  BY <1>11, <1>13, <1>15, ListChanges
<1>. QED  BY <1>1, <1>14, <1>16

(* The nodes with the indices from i to j - 1 leave the list.              *)
Between(s, i, j) == {s[k] : k \in i + 1 .. j}

LEMMA ListCut ==
  ASSUME NEW h, NEW n, NEW os, Listed(h, n, os), NEW l, l \in List,
         NEW i, i \in Nat, NEW j, j \in Nat, i <= j, j <= Len(os[l]),
         NEW g, Cutting(g, h, List \cup Entry, Entry, l, os[l], i, j),
         NEW n2, n2 = [n EXCEPT ![l] = @ - (j - i)], NEW s, s = Cut(os[l], i, j)
  PROVE  Changed(g, n2, os, l, s, Of(os[l]) \ Between(os[l], i, j))
<1>1. PICK q, P : q = os[l] /\ P = List \cup Entry
  OBVIOUS
<1>2. /\ q \in Seq(Entry) /\ n[l] = Len(q) /\ Of(q) \subseteq Entry /\ Members(l, q) = {l} \cup Of(q)
      /\ n \in [List -> Nat]
  <2>1. ListAt(h, n, os, l)
    BY ListIs
  <2>. QED  BY <1>1, <2>1 DEF ListAt, OnHeap, Listed
<1>3. /\ g \in Heap(P) /\ Chain(g, l, s) /\ Distinct(l, s) /\ s \in Seq(Entry)
      /\ Members(l, s) = Members(l, q) \ {At(l, q, x) : x \in i + 1 .. j} /\ Same(g, h, P \ Members(l, q))
  BY <1>1 DEF Cutting
<1>4. {At(l, q, x) : x \in i + 1 .. j} = {q[k] : k \in i + 1 .. j}
  <2>1. \A x \in i + 1 .. j : x \in 1 .. Len(q)
    BY <1>1, <1>2
  <2>2. \A x \in i + 1 .. j : At(l, q, x) = q[x]
    BY <2>1 DEF At
  <2>. QED  BY <2>2
<1>5. Len(s) = Len(q) - (j - i)
  <2>1. PICK d : d = j - i
    OBVIOUS
  <2>2. IsCut(s, Entry, q, i, d)
    BY <1>1, <1>2, <2>1, CutOut
  <2>. QED  BY <2>1, <2>2 DEF IsCut
<1>6. n2 = [n EXCEPT ![l] = Len(s)]
  BY <1>2, <1>5
<1>7. PICK X, E, Y : X = {} /\ Y = {q[k] : k \in i + 1 .. j} /\ E = Of(q) \ Y
  OBVIOUS
<1>8. l \notin Y
  <2>1. \A k \in i + 1 .. j : q[k] \in Entry
    BY <1>1, <1>2
  <2>2. l \notin Entry
    BY DLListAssumption
  <2>. QED  BY <1>7, <2>1, <2>2
<1>9. /\ X \in SUBSET Entry /\ (\A m \in List : X \cap Of(os[m]) = {}) /\ E \in SUBSET Entry
      /\ E \subseteq Of(os[l]) \cup X /\ Members(l, s) = {l} \cup E
      /\ g \in Heap(List \cup Entry)
  BY <1>1, <1>2, <1>3, <1>4, <1>7, <1>8
<1>10. Same(g, h, (List \cup Entry) \ (Members(l, os[l]) \cup X))
  <2>1. Members(l, os[l]) \cup X = Members(l, q)
    BY <1>1, <1>7
  <2>. QED  BY <1>1, <1>3, <2>1
<1>11. Changed(g, n2, os, l, s, E)
  BY <1>3, <1>6, <1>9, <1>10, ListChanges
<1>. QED  BY <1>1, <1>7, <1>11 DEF Between

(* The last or the first entry is popped.                                  *)
Ends(s, atBack) == IF atBack THEN s[Len(s)] ELSE s[1]

Popped(h, g, n2, os, l, atBack, e) ==
  /\ e \in Of(os[l]) /\ e = Ends(os[l], atBack) /\ os[l] # <<>>
  /\ \E s : /\ Changed(g, n2, os, l, s, Of(os[l]) \ {e})
            /\ s = IF atBack THEN Cut(os[l], Len(os[l]) - 1, Len(os[l])) ELSE Cut(os[l], 0, 1)

LEMMA ListPop ==
  ASSUME NEW h, NEW n, NEW os, Listed(h, n, os), NEW l, l \in List, ~dmbListIsEmpty(h, l),
         NEW atBack, NEW g, g = (IF atBack THEN dmbListPopBack(h, l) ELSE dmbListPopFront(h, l)),
         NEW e, e = (IF atBack THEN LastNode(h, l) ELSE FirstNode(h, l)),
         NEW n2, n2 = [n EXCEPT ![l] = @ - 1]
  PROVE  Popped(h, g, n2, os, l, atBack, e)
<1>1. PICK q, P : q = os[l] /\ P = List \cup Entry
  OBVIOUS
<1>2. OnHeap(h, P, Entry, l, q) /\ q \in Seq(Entry) /\ Chain(h, l, q)
  <2>1. ListAt(h, n, os, l)
    BY ListIs
  <2>. QED  BY <1>1, <2>1 DEF ListAt, OnHeap
<1>3. h.next[l] = At(l, q, 1) /\ h.prev[l] = At(l, q, Len(q))
  BY <1>2, ChainLinked
<1>4. q # <<>> /\ Len(q) \in Nat /\ Len(q) > 0
  <2>1. Len(q) \in Nat
    BY <1>2
  <2>2. CASE Len(q) = 0
    <3>1. At(l, q, 1) = l
      BY <2>2 DEF At
    <3>. QED  BY <1>3, <3>1 DEF dmbListIsEmpty
  <2>3. CASE Len(q) > 0
    BY <2>1, <2>3
  <2>. QED  BY <2>1, <2>2, <2>3
<1>5. PICK k : k = IF atBack THEN Len(q) ELSE 1
  OBVIOUS
<1>6. k \in 1 .. Len(q) /\ k - 1 \in Nat /\ k \in Nat /\ k - 1 <= k /\ k <= Len(q) /\ k - (k - 1) = 1
      /\ (k - 1) + 1 = k
  BY <1>4, <1>5
<1>7. e = At(l, q, k) /\ g = dmbListRemove(h, At(l, q, k))
  <2>1. CASE atBack
    BY <1>3, <1>5, <2>1 DEF dmbListPopBack, LastNode
  <2>2. CASE ~atBack
    BY <1>3, <1>5, <2>2 DEF dmbListPopFront, FirstNode
  <2>. QED  BY <2>1, <2>2
<1>8. e = q[k] /\ e \in Of(q) /\ e = Ends(q, atBack)
  <2>1. e = q[k]
    BY <1>6, <1>7 DEF At
  <2>. QED  BY <1>5, <1>6, <2>1 DEF Of, Ends
<1>9. Cutting(g, h, P, Entry, l, q, k - 1, k)
  BY <1>2, <1>6, <1>7, RemoveIsCut
<1>10. PICK i, s : i = k - 1 /\ s = Cut(q, i, k)
  OBVIOUS
<1>11. n2 = [n EXCEPT ![l] = @ - (k - i)]
  BY <1>6, <1>10
<1>12. Changed(g, n2, os, l, s, Of(os[l]) \ Between(os[l], i, k))
  <2>1. i \in Nat /\ k \in Nat /\ i <= k /\ k <= Len(os[l]) /\ s = Cut(os[l], i, k)
        /\ Cutting(g, h, List \cup Entry, Entry, l, os[l], i, k)
    BY <1>1, <1>6, <1>9, <1>10
  <2>. QED  BY <1>11, <2>1, ListCut
<1>13. Between(os[l], i, k) = {e}
  <2>1. \A x : x \in i + 1 .. k <=> x = k
    BY <1>6, <1>10
  <2>. QED  BY <1>1, <1>8, <2>1 DEF Between
<1>14. s = IF atBack THEN Cut(q, Len(q) - 1, Len(q)) ELSE Cut(q, 0, 1)
  <2>1. ~atBack => i = 0
    BY <1>5, <1>10
  <2>. QED  BY <1>5, <1>10, <2>1
<1>. QED  BY <1>1, <1>4, <1>8, <1>12, <1>13, <1>14 DEF Popped

(* The entries that the loop removed, in its order.                        *)
Removal(g, n2, os, l, met, s) ==
  \E E \in SUBSET Of(os[l]) : /\ Among(met, E) /\ Apartness(met)
                              /\ Changed(g, n2, os, l, s, Of(os[l]) \ E)

LEMMA MetAre ==
  ASSUME NEW P, NEW N, NEW l, NEW s, NEW h, OnHeap(h, P, N, l, s), NEW fromEnd \in BOOLEAN,
         NEW i, i \in Nat, NEW j, j \in Nat, i <= j, j <= Len(s), NEW m, m = Met(fromEnd, s, i, j)
  PROVE  Among(m, Between(s, i, j)) /\ Apartness(m)
<1>1. PICK n, d : n = Len(s) /\ d = j - i
  OBVIOUS
<1>2. n \in Nat /\ d \in Nat /\ i + d = j /\ s \in Seq(N) /\ Distinct(l, s)
  BY <1>1 DEF OnHeap
<1>. DEFINE at(y) == IF fromEnd THEN j + 1 - y ELSE i + y
            E == {s[k] : k \in i + 1 .. j}
<1>3. m = [y \in 1 .. d |-> s[at(y)]]
  BY <1>1 DEF Met
<1>4. \A y \in 1 .. d : at(y) \in i + 1 .. j /\ at(y) \in 1 .. n
  BY <1>1, <1>2
<1>5. \A k \in i + 1 .. j : \E y \in 1 .. d : at(y) = k
  <2>. SUFFICES ASSUME NEW k \in i + 1 .. j PROVE \E y \in 1 .. d : at(y) = k
    OBVIOUS
  <2>1. CASE fromEnd
    <3>1. j + 1 - k \in 1 .. d /\ at(j + 1 - k) = k
      BY <1>2, <2>1
    <3>. QED  BY <3>1
  <2>2. CASE ~fromEnd
    <3>1. k - i \in 1 .. d /\ at(k - i) = k
      BY <1>2, <2>2
    <3>. QED  BY <3>1
  <2>. QED  BY <2>1, <2>2
<1>6. \A x, y \in 1 .. d : at(x) = at(y) => x = y
  BY <1>2
<1>7. \A x, y \in 1 .. n : s[x] = s[y] => x = y
  <2>1. \A x \in 1 .. n : x \in 0 .. n /\ At(l, s, x) = s[x]
    BY <1>1, <1>2 DEF At
  <2>. QED  BY <1>1, <1>2, <2>1 DEF Distinct
<1>. HIDE DEF at
<1>8. m \in Seq(E) /\ Len(m) = d
  <2>1. m \in [1 .. d -> E]
    BY <1>3, <1>4
  <2>. HIDE DEF E
  <2>. QED  BY <1>2, <2>1
<1>9. \A y \in 1 .. d : m[y] = s[at(y)]
  BY <1>3
<1>10. \A e \in E : \E y \in 1 .. d : m[y] = e
  BY <1>5, <1>9
<1>11. \A y \in 1 .. d : m[y] \in E
  BY <1>4, <1>9
<1>12. Apartness(m)
  <2>1. \A x, y \in 1 .. d : m[x] = m[y] => x = y
    BY <1>4, <1>6, <1>7, <1>9
  <2>. QED  BY <1>8, <2>1 DEF Apartness
<1>. QED  BY <1>8, <1>10, <1>11, <1>12 DEF Among, Between

LEMMA FasterIs ==
  ASSUME NEW n, NEW uIndex
  PROVE  \E fromEnd \in BOOLEAN : fromEnd = fasterFromEnd(n, uIndex)
<1>1. CASE fasterFromEnd(n, uIndex)
  <2>1. fasterFromEnd(n, uIndex) = TRUE
    BY <1>1 DEF fasterFromEnd
  <2>. QED  BY <2>1
<1>2. CASE ~fasterFromEnd(n, uIndex)
  <2>1. fasterFromEnd(n, uIndex) = FALSE
    BY <1>2 DEF fasterFromEnd
  <2>. QED  BY <2>1
<1>. QED  BY <1>1, <1>2

LEMMA ListRemoveRange ==
  ASSUME NEW h, NEW n, NEW os, Listed(h, n, os), NEW l, l \in List,
         NEW uStart, uStart \in Nat, NEW uEnd, uEnd \in Nat, uStart <= uEnd, uEnd < n[l],
         NEW r, r = Loop(h, l, n[l], uStart, uEnd, TRUE), NEW n2, n2 = [n EXCEPT ![l] = @ - Len(r.met)]
  PROVE  Removal(r.h, n2, os, l, r.met, Cut(os[l], uStart, uEnd + 1))
<1>1. PICK q, P, j, k : q = os[l] /\ P = List \cup Entry /\ j = uEnd + 1 /\ k = n[l]
  OBVIOUS
<1>2. OnHeap(h, P, Entry, l, q) /\ k = Len(q) /\ q \in Seq(Entry)
  <2>1. ListAt(h, n, os, l)
    BY ListIs
  <2>. QED  BY <1>1, <2>1 DEF ListAt, OnHeap
<1>3. k \in Nat /\ j \in Nat /\ uStart <= j /\ j <= Len(q) /\ uEnd < k
  BY <1>1, <1>2
<1>4. PICK yes \in BOOLEAN : yes = TRUE
  OBVIOUS
<1>5. Looped(r, yes, h, P, Entry, l, q, uStart, uEnd)
  <2>1. r = Loop(h, l, k, uStart, uEnd, yes)
    BY <1>1, <1>4
  <2>. QED  BY <1>2, <1>3, <2>1, LoopIs
<1>6. Cutting(r.h, h, P, Entry, l, q, uStart, j) /\ r.met = Met(fasterFromEnd(Len(q), uStart), q, uStart, j)
  BY <1>1, <1>4, <1>5 DEF Looped
<1>7. PICK fromEnd \in BOOLEAN : fromEnd = fasterFromEnd(Len(q), uStart)
  BY FasterIs
<1>8. PICK m : m = Met(fromEnd, q, uStart, j)
  OBVIOUS
<1>9. r.met = m
  BY <1>6, <1>7, <1>8
<1>10. Among(m, Between(q, uStart, j)) /\ Apartness(m)
  BY <1>2, <1>3, <1>8, MetAre
<1>11. Len(m) = j - uStart
  <2>1. MetGrows(Entry, q, uStart, j)
    BY <1>2, <1>3, MetOneMore
  <2>. QED  BY <1>8, <2>1 DEF MetGrows
<1>12. PICK g, s : g = r.h /\ s = Cut(q, uStart, j)
  OBVIOUS
<1>13. Changed(g, n2, os, l, s, Of(os[l]) \ Between(os[l], uStart, j))
  <2>1. n2 = [n EXCEPT ![l] = @ - (j - uStart)]
    BY <1>9, <1>11
  <2>2. j <= Len(os[l]) /\ Cutting(g, h, List \cup Entry, Entry, l, os[l], uStart, j) /\ s = Cut(os[l], uStart, j)
    BY <1>1, <1>3, <1>6, <1>12
  <2>. QED  BY <1>3, <2>1, <2>2, ListCut
<1>14. Between(q, uStart, j) \in SUBSET Of(q)
  <2>1. \A x \in uStart + 1 .. j : x \in 1 .. Len(q)
    BY <1>3
  <2>. QED  BY <2>1 DEF Between, Of
<1>. QED  BY <1>1, <1>9, <1>10, <1>12, <1>13, <1>14 DEF Removal

LEMMA ListClear ==
  ASSUME NEW h, NEW n, NEW os, Listed(h, n, os), NEW l, l \in List,
         NEW g, g = Emptied(h, l, n[l]), NEW n2, n2 = [n EXCEPT ![l] = 0]
  PROVE  Removal(g, n2, os, l, os[l], <<>>)
<1>1. PICK q, P, i, j : q = os[l] /\ P = List \cup Entry /\ i = 0 /\ j = n[l]
  OBVIOUS
<1>2. OnHeap(h, P, Entry, l, q) /\ j = Len(q) /\ q \in Seq(Entry) /\ Distinct(l, q)
  <2>1. ListAt(h, n, os, l)
    BY ListIs
  <2>. QED  BY <1>1, <2>1 DEF ListAt, OnHeap
<1>3. j \in Nat /\ i \in Nat /\ i <= j /\ j <= Len(q) /\ j - i = j
  BY <1>1, <1>2
<1>4. Cutting(g, h, P, Entry, l, q, i, j)
  <2>1. g = Emptied(h, l, j)
    BY <1>1
  <2>2. Cutting(g, h, P, Entry, l, q, 0, j)
    BY <1>2, <2>1, EmptiedIs
  <2>. QED  BY <1>1, <2>2
<1>5. PICK s : s = Cut(q, i, j)
  OBVIOUS
<1>6. Changed(g, n2, os, l, s, Of(os[l]) \ Between(os[l], i, j))
  <2>1. n2 = [n EXCEPT ![l] = @ - (j - i)]
    <3>1. n[l] - (j - i) = 0
      BY <1>1, <1>3
    <3>. QED  BY <3>1
  <2>2. j <= Len(os[l]) /\ Cutting(g, h, List \cup Entry, Entry, l, os[l], i, j) /\ s = Cut(os[l], i, j)
    BY <1>1, <1>3, <1>4, <1>5
  <2>. QED  BY <1>3, <2>1, <2>2, ListCut
<1>7. s = <<>>
  <2>1. IsCut(s, Entry, q, i, j)
    BY <1>2, <1>3, <1>5, CutOut
  <2>2. s \in Seq(Entry) /\ Len(s) = 0
    BY <1>2, <1>3, <2>1 DEF IsCut
  <2>. QED  BY <2>2
<1>8. Between(q, i, j) = Of(q)
  BY <1>1, <1>2 DEF Between, Of
<1>9. Among(q, Of(q))
  <2>1. q \in Seq(Of(q))
    <3>1. \A k \in 1 .. Len(q) : q[k] \in Of(q)
      BY DEF Of
    <3>2. q \in [1 .. Len(q) -> Of(q)]
      BY <1>2, <3>1
    <3>. HIDE DEF Of
    <3>. QED  BY <1>2, <1>3, <3>2
  <2>. QED  BY <2>1 DEF Among, Of
<1>10. Apartness(q)
  <2>1. \A k \in 1 .. Len(q) : k \in 0 .. Len(q) /\ At(l, q, k) = q[k]
    BY <1>2 DEF At
  <2>. QED  BY <1>2, <2>1 DEF Distinct, Apartness
<1>. QED  BY <1>1, <1>6, <1>7, <1>8, <1>9, <1>10 DEF Removal

(* The pointers of an entry of no list are reset.                          *)
LEMMA ListFree ==
  ASSUME NEW h, NEW n, NEW os, Listed(h, n, os), NEW e, e \in Entry, \A m \in List : e \notin Of(os[m]),
         NEW g, g = dmbNodeInit(h, e)
  PROVE  Listed(g, n, os)
<1>1. PICK P : P = List \cup Entry
  OBVIOUS
<1>2. /\ h \in Heap(P) /\ os \in [List -> Seq(Entry)]
      /\ \A l \in List : Chain(h, l, os[l]) /\ Distinct(l, os[l])
      /\ \A l, m \in List : l # m => Members(l, os[l]) \cap Members(m, os[m]) = {}
      /\ n \in [List -> Nat] /\ \A l \in List : n[l] = Len(os[l])
  BY <1>1 DEF Listed, Shape
<1>3. g \in Heap(P)
  BY <1>1, <1>2 DEF Heap, dmbNodeInit
<1>4. PICK S : S = P \ {e}
  OBVIOUS
<1>5. Same(g, h, S)
  BY <1>2, <1>4 DEF Heap, dmbNodeInit, Same
<1>6. ASSUME NEW l \in List PROVE Chain(g, l, os[l])
  <2>1. Members(l, os[l]) = {l} \cup Of(os[l]) /\ Of(os[l]) \subseteq Entry
    <3>1. ListAt(h, n, os, l)
      BY ListIs
    <3>. QED  BY <3>1 DEF ListAt
  <2>2. l # e
    BY DLListAssumption
  <2>3. Members(l, os[l]) \subseteq S
    BY <1>1, <1>4, <2>1, <2>2
  <2>. QED  BY <1>2, <1>5, <2>3, ChainSame
<1>. QED  BY <1>1, <1>2, <1>3, <1>6 DEF Listed, Shape

-----------------------------------------------------------------------------
(* The counts.                                                             *)

(* What the threads hold of an object is a sum.                            *)
Shares(h, o) == [t \in Thread |-> h[t][o]]

LEMMA HeldIs ==
  ASSUME NEW h, NEW o, NEW k \in Sums(Shares(h, o), Thread)
  PROVE  HeldSum(h, o) = k[Thread]
<1>. DEFINE Chosen(s) == CHOOSE x \in s : TRUE
            Folds(f) == f = [s \in SUBSET Thread |->
                               IF s = {} THEN 0 ELSE h[Chosen(s)][o] + f[s \ {Chosen(s)}]]
            fold == CHOOSE f : Folds(f)
<1>1. \A s \in SUBSET Thread : s # {} => Shares(h, o)[Chosen(s)] = h[Chosen(s)][o]
  BY DEF Shares
<1>2. Folds(k)
  <2>1. IsFold(k, Shares(h, o), Thread)
    BY SumFolds
  <2>. QED  BY <1>1, <2>1, SMTT(30) DEF IsFold
<1>3. Folds(fold)
  <2>. HIDE DEF Folds
  <2>. QED  BY <1>2
<1>4. IsFold(fold, Shares(h, o), Thread)
  <2>. HIDE DEF fold
  <2>. QED  BY <1>1, <1>3, SMTT(30) DEF IsFold
<1>5. fold[Thread] = k[Thread]
  <2>. HIDE DEF fold
  <2>. QED  BY <1>4, FoldSums, DLListAssumption
<1>. QED  BY <1>5 DEF HeldSum, Sets!MapThenSumSet, Sets!MapThenFoldSet

LEMMA SharesSum ==
  ASSUME NEW h, h \in [Thread -> [Obj -> Nat]], NEW o, o \in Obj
  PROVE  \E k : k \in Sums(Shares(h, o), Thread)
<1>1. \A t \in Thread : Shares(h, o)[t] \in Int
  BY DEF Shares
<1>. QED  BY <1>1, SumsExist, DLListAssumption

LEMMA HeldAtLeast ==
  ASSUME NEW h, h \in [Thread -> [Obj -> Nat]], NEW o, o \in Obj
  PROVE  HeldSum(h, o) \in Nat /\ \A t \in Thread : h[t][o] <= HeldSum(h, o)
<1>1. PICK k : k \in Sums(Shares(h, o), Thread)
  BY SharesSum
<1>2. HeldSum(h, o) = k[Thread]
  BY <1>1, HeldIs
<1>3. \A t \in Thread : Shares(h, o)[t] \in Nat /\ Shares(h, o)[t] = h[t][o]
  BY DEF Shares
<1>4. PICK g : g = Shares(h, o)
  OBVIOUS
<1>5. k[Thread] \in Nat /\ \A t \in Thread : g[t] <= k[Thread]
  BY <1>1, <1>3, <1>4, SumAtLeast, DLListAssumption
<1>. QED  BY <1>2, <1>3, <1>4, <1>5

(* A thread holds v references instead.                                    *)
HeldMoves(k, h, t, o, v) ==
  /\ k \in [Thread -> [Obj -> Nat]]
  /\ \A p \in Obj : HeldSum(k, p) = IF p = o THEN HeldSum(h, o) + (v - h[t][o]) ELSE HeldSum(h, p)

LEMMA HeldChanges ==
  ASSUME NEW h, h \in [Thread -> [Obj -> Nat]], NEW t, t \in Thread, NEW o, o \in Obj,
         NEW v, v \in Nat, NEW k, k = [h EXCEPT ![t][o] = v]
  PROVE  HeldMoves(k, h, t, o, v)
<1>1. k \in [Thread -> [Obj -> Nat]]
  OBVIOUS
<1>2. \A u \in Thread : \A p \in Obj : k[u][p] = IF u = t /\ p = o THEN v ELSE h[u][p]
  OBVIOUS
<1>3. ASSUME NEW p \in Obj, p # o PROVE HeldSum(k, p) = HeldSum(h, p)
  <2>1. PICK f : f \in Sums(Shares(h, p), Thread)
    BY SharesSum
  <2>2. Shares(k, p) = Shares(h, p)
    BY <1>2, <1>3 DEF Shares
  <2>3. HeldSum(h, p) = f[Thread]
    BY <2>1, HeldIs
  <2>4. f \in Sums(Shares(k, p), Thread)
    BY <2>1, <2>2
  <2>5. HeldSum(k, p) = f[Thread]
    BY <2>4, HeldIs
  <2>. QED  BY <2>3, <2>5
<1>4. HeldSum(k, o) = HeldSum(h, o) + (v - h[t][o])
  <2>1. PICK f : f \in Sums(Shares(h, o), Thread)
    BY SharesSum
  <2>2. PICK g : g \in Sums(Shares(k, o), Thread)
    BY <1>1, SharesSum
  <2>3. HeldSum(h, o) = f[Thread]
    BY <2>1, HeldIs
  <2>4. HeldSum(k, o) = g[Thread]
    BY <2>2, HeldIs
  <2>5. PICK a, b : a = Shares(h, o) /\ b = Shares(k, o)
    OBVIOUS
  <2>6. (\A u \in Thread \ {t} : a[u] = b[u]) /\ a[t] = h[t][o] /\ b[t] = v
    BY <1>2, <2>5 DEF Shares
  <2>7. a[t] \in Int /\ b[t] \in Int
    BY <2>6
  <2>8. f \in Sums(a, Thread) /\ g \in Sums(b, Thread)
    BY <2>1, <2>2, <2>5
  <2>9. g[Thread] = f[Thread] + (b[t] - a[t])
    BY <2>6, <2>7, <2>8, SumChanges, DLListAssumption
  <2>. QED  BY <2>3, <2>4, <2>6, <2>9
<1>. QED  BY <1>1, <1>3, <1>4 DEF HeldMoves

(* An entry points to something else.                                      *)
PointsMove(c, b, e, v) ==
  \A p \in Obj : Cardinality(Pointing(c, p)) = Cardinality(Pointing(b, p))
                   - (IF b[e] = p THEN 1 ELSE 0) + (IF v = p THEN 1 ELSE 0)

LEMMA PointingFinite ==
  ASSUME NEW b, NEW o
  PROVE  IsFiniteSet(Pointing(b, o)) /\ Cardinality(Pointing(b, o)) \in Nat
<1>1. Pointing(b, o) \in SUBSET Entry
  BY DEF Pointing
<1>2. IsFiniteSet(Pointing(b, o))
  BY <1>1, FS_Subset, DLListAssumption
<1>. QED  BY <1>2, FS_CardinalityType

LEMMA PointingChanges ==
  ASSUME NEW b, b \in [Entry -> Obj \cup {NULL}], NEW e, e \in Entry, NEW v, NEW c, c = [b EXCEPT ![e] = v]
  PROVE  PointsMove(c, b, e, v)
<1>. SUFFICES ASSUME NEW p \in Obj
              PROVE  Cardinality(Pointing(c, p)) = Cardinality(Pointing(b, p))
                       - (IF b[e] = p THEN 1 ELSE 0) + (IF v = p THEN 1 ELSE 0)
  BY DEF PointsMove
<1>1. PICK X, Y : X = Pointing(b, p) /\ Y = Pointing(c, p)
  OBVIOUS
<1>2. IsFiniteSet(X) /\ Cardinality(X) \in Nat
  BY <1>1, PointingFinite
<1>3. e \in X <=> b[e] = p
  BY <1>1 DEF Pointing
<1>4. Y = IF v = p THEN X \cup {e} ELSE X \ {e}
  BY <1>1 DEF Pointing
<1>5. CASE v = p
  <2>1. Cardinality(Y) = IF e \in X THEN Cardinality(X) ELSE Cardinality(X) + 1
    BY <1>2, <1>4, <1>5, FS_AddElement
  <2>. QED  BY <1>1, <1>2, <1>3, <1>5, <2>1
<1>6. CASE v # p
  <2>1. Cardinality(Y) = IF e \in X THEN Cardinality(X) - 1 ELSE Cardinality(X)
    BY <1>2, <1>4, <1>6, FS_RemoveElement
  <2>. QED  BY <1>1, <1>2, <1>3, <1>6, <2>1
<1>. QED  BY <1>5, <1>6

(* An object with a reference has a count.                                 *)
Referred(o) == (\E t \in Thread : held[t][o] > 0) \/ \E e \in Entry : obj[e] = o

LEMMA ReferredCounted ==
  ASSUME CountInv, NEW o, o \in Obj
  PROVE  /\ ref[o] \in Nat /\ (Referred(o) => ref[o] > 0)
         /\ \A t \in Thread : held[t][o] \in Nat /\ held[t][o] <= ref[o]
<1>1. /\ ref[o] \in Nat /\ held \in [Thread -> [Obj -> Nat]]
      /\ ref[o] = Cardinality(Pointing(obj, o)) + HeldSum(held, o)
  BY DEF CountInv
<1>2. HeldSum(held, o) \in Nat /\ \A t \in Thread : held[t][o] <= HeldSum(held, o)
  BY <1>1, HeldAtLeast
<1>3. IsFiniteSet(Pointing(obj, o)) /\ Cardinality(Pointing(obj, o)) \in Nat
  BY PointingFinite
<1>4. \A t \in Thread : held[t][o] \in Nat /\ held[t][o] <= ref[o]
  BY <1>1, <1>2, <1>3
<1>5. ASSUME NEW e \in Entry, obj[e] = o PROVE ref[o] > 0
  <2>1. e \in Pointing(obj, o)
    BY <1>5 DEF Pointing
  <2>2. Cardinality(Pointing(obj, o)) # 0
    BY <1>3, <2>1, FS_EmptySet
  <2>. QED  BY <1>1, <1>2, <1>3, <2>2
<1>6. ASSUME NEW t \in Thread, held[t][o] > 0 PROVE ref[o] > 0
  BY <1>1, <1>4, <1>6
<1>. QED  BY <1>1, <1>4, <1>5, <1>6 DEF Referred

-----------------------------------------------------------------------------
(* Steps.                                                                  *)

(* What is released is freed later, and only once.                         *)
LEMMA ReleasedTaken ==
  ASSUME NEW q, Work(q)
  PROVE  Releasing(q) \subseteq Taken(q)
<1>. SUFFICES ASSUME NEW e \in Entry, NEW k \in 1 .. Len(q), q[k].act = "release", q[k].e = e
              PROVE  e \in Taken(q)
  BY DEF Releasing
<1>1. k + 1 \in 1 .. Len(q) /\ q[k + 1].act = "free" /\ q[k + 1].e = e
  BY DEF Work, Paired
<1>. QED  BY <1>1 DEF Taken, Takes

LEMMA ReleasedOnce ==
  ASSUME NEW q, Work(q), q # <<>>, NEW x, x = Head(q), NEW p, p = Tail(q)
  PROVE  ReleasedBy(x) \cap Releasing(p) = {}
<1>1. Headed(q, x, p)
  BY HeadOff
<1>2. IsCons(q, x, p) /\ Work(p)
  BY <1>1 DEF Headed
<1>. SUFFICES ASSUME NEW e \in Entry, x.act = "release", x.e = e,
                     NEW k \in 1 .. Len(p), p[k].act = "release", p[k].e = e
              PROVE  FALSE
  BY DEF ReleasedBy, Releasing
<1>3. PICK n \in Nat : Len(p) = n
  BY <1>2 DEF Work
<1>4. Len(q) = n + 1 /\ q[1] = x /\ \A j \in 1 .. n : q[j + 1] = p[j]
  BY <1>2, <1>3 DEF IsCons
<1>5. 1 \in 1 .. n + 1 /\ k \in 1 .. n
  BY <1>3
<1>6. 1 + 1 \in 1 .. n + 1 /\ q[1 + 1].act = "free" /\ q[1 + 1].e = e
  BY <1>4, <1>5 DEF Work, Paired
<1>7. k + 1 \in 1 .. n /\ p[k + 1].act = "free" /\ p[k + 1].e = e
  BY <1>2, <1>3, <1>5 DEF Work, Paired
<1>8. 1 \in 1 .. n /\ p[1] = q[1 + 1]
  BY <1>3, <1>4, <1>6
<1>9. 1 = k + 1
  BY <1>2, <1>3, <1>6, <1>7, <1>8 DEF Work, Once, Takes
<1>. QED  BY <1>3, <1>5, <1>9

(* The work of t becomes q.                                                *)
Acts(t, q) == todo'[t] = q /\ \A u \in Thread \ {t} : todo'[u] = todo[u]

LEMMA ActsWork ==
  ASSUME WorkInv, NEW t, t \in Thread, NEW q, Work(q), todo' = [todo EXCEPT ![t] = q]
  PROVE  WorkInv' /\ Acts(t, q)
<1>1. todo \in [Thread -> Seq(ItemSet)] /\ \A u \in Thread : Work(todo[u])
  BY DEF WorkInv
<1>2. q \in Seq(ItemSet)
  BY DEF Work
<1>3. Acts(t, q)
  BY <1>1 DEF Acts
<1>4. todo' \in [Thread -> Seq(ItemSet)]
  BY <1>1, <1>2
<1>5. \A u \in Thread : Work(todo'[u])
  BY <1>1, <1>3 DEF Acts
<1>6. WorkInv'
  BY <1>4, <1>5 DEF WorkInv
<1>. QED  BY <1>3, <1>6

(* The first item is done, or becomes another.                             *)
LEMMA DoneWork ==
  ASSUME NEW t, t \in Thread, WorkInv, NEW q, q = todo[t], q # <<>>, NEW x, x = Head(q), NEW p, p = Tail(q),
         NEW w, w = <<>>, Done(t, w)
  PROVE  Headed(q, x, p) /\ WorkInv' /\ Acts(t, p)
<1>1. Work(q) /\ todo \in [Thread -> Seq(ItemSet)]
  BY DEF WorkInv
<1>2. Headed(q, x, p)
  BY <1>1, HeadOff
<1>3. Work(p) /\ p \in Seq(ItemSet)
  BY <1>2 DEF Headed, Work
<1>4. <<>> \o p = p
  BY <1>3, ConcatEmptySeq
<1>5. todo' = [todo EXCEPT ![t] = p]
  <2>1. todo' = [todo EXCEPT ![t] = w \o Tail(todo[t])]
    BY DEF Done
  <2>. QED  BY <1>1, <1>4, <2>1
<1>6. WorkInv' /\ Acts(t, p)
  BY <1>3, <1>5, ActsWork
<1>. QED  BY <1>2, <1>6

LEMMA ChangedWork ==
  ASSUME NEW t, t \in Thread, WorkInv, NEW q, q = todo[t], q # <<>>, NEW x, x = Head(q), NEW p, p = Tail(q),
         NEW y, WellFormed(y), y.act # "release", Calm(y, p), TakenBy(y) \cap Taken(p) = {},
         Done(t, <<y>>), NEW r, r = <<y>> \o p
  PROVE  Headed(r, y, p) /\ WorkInv' /\ Acts(t, r)
<1>1. Work(q) /\ todo \in [Thread -> Seq(ItemSet)]
  BY DEF WorkInv
<1>2. Headed(q, x, p)
  BY <1>1, HeadOff
<1>3. Work(p)
  BY <1>2 DEF Headed
<1>4. Work(r) /\ Headed(r, y, p)
  BY <1>3, HeadOn
<1>5. todo' = [todo EXCEPT ![t] = r]
  <2>1. todo' = [todo EXCEPT ![t] = <<y>> \o Tail(todo[t])]
    BY DEF Done
  <2>. QED  BY <1>1, <2>1
<1>6. WorkInv' /\ Acts(t, r)
  BY <1>4, <1>5, ActsWork
<1>. QED  BY <1>4, <1>6

(* A call begins when nothing is left to do.                               *)
LEMMA CallWork ==
  ASSUME NEW t, t \in Thread, WorkInv, NEW q, Work(q), Call(t, q)
  PROVE  WorkInv' /\ Acts(t, q) /\ Nothing(todo[t])
<1>1. todo[t] = <<>> /\ todo' = [todo EXCEPT ![t] = q]
  BY DEF Call
<1>2. Nothing(todo[t])
  BY <1>1, NoWork
<1>3. WorkInv' /\ Acts(t, q)
  BY <1>1, ActsWork
<1>. QED  BY <1>2, <1>3

-----------------------------------------------------------------------------
(* Entries that move: from where they are to d.                            *)
Moved(t, Z, d, q) ==
  /\ free' = IF d = "free" THEN free \cup Z ELSE free \ Z
  /\ Placed' = IF d = "placed" THEN Placed \cup Z ELSE Placed \ Z
  /\ Taken(q) = IF d = "taken" THEN Taken(todo[t]) \cup Z ELSE Taken(todo[t]) \ Z

LEMMA EntriesMove ==
  ASSUME NEW t, t \in Thread, EntriesApart, EntriesKept, NEW q, Acts(t, q),
         NEW Z, Z \in SUBSET Entry, NEW d, d \in {"free", "placed", "taken"}, Moved(t, Z, d, q),
         \A u \in Thread : u # t => Taken(todo[u]) \cap Z = {}
  PROVE  EntriesApart' /\ EntriesKept'
<1>1. PICK f, f2, P, P2 : f = free /\ f2 = free' /\ P = Placed /\ P2 = Placed'
  OBVIOUS
<1>. DEFINE T(u) == Taken(todo[u])
            T2(u) == Taken(todo'[u])
<1>2. /\ f \subseteq Entry /\ P \subseteq Entry /\ f \cap P = {} /\ \A u \in Thread : T(u) \cap (f \cup P) = {}
      /\ \A u, v \in Thread : u # v => T(u) \cap T(v) = {}
  BY <1>1 DEF EntriesApart, Placed
<1>3. \A e \in Entry : e \in f \/ e \in P \/ \E u \in Thread : e \in T(u)
  BY <1>1 DEF EntriesKept
<1>4. /\ f2 = IF d = "free" THEN f \cup Z ELSE f \ Z
      /\ P2 = IF d = "placed" THEN P \cup Z ELSE P \ Z
  BY <1>1 DEF Moved
<1>5. T2(t) = IF d = "taken" THEN T(t) \cup Z ELSE T(t) \ Z
  BY DEF Moved, Acts
<1>6. \A u \in Thread : u # t => T2(u) = T(u) /\ T(u) \cap Z = {}
  BY DEF Acts
<1>. HIDE DEF T, T2
<1>7. \A u \in Thread : T2(u) \cap (f2 \cup P2) = {}
  <2>. SUFFICES ASSUME NEW u \in Thread PROVE T2(u) \cap (f2 \cup P2) = {}
    OBVIOUS
  <2>1. CASE u = t
    BY <1>2, <1>4, <1>5, <2>1
  <2>2. CASE u # t
    BY <1>2, <1>4, <1>6, <2>2
  <2>. QED  BY <2>1, <2>2
<1>8. ASSUME NEW u \in Thread, NEW v \in Thread, u # v PROVE T2(u) \cap T2(v) = {}
  <2>1. CASE u = t
    BY <1>2, <1>5, <1>6, <1>8, <2>1
  <2>2. CASE v = t
    BY <1>2, <1>5, <1>6, <1>8, <2>2
  <2>3. CASE u # t /\ v # t
    BY <1>2, <1>6, <1>8, <2>3
  <2>. QED  BY <2>1, <2>2, <2>3
<1>9. f2 \subseteq Entry /\ f2 \cap P2 = {}
  BY <1>2, <1>4
<1>10. ASSUME NEW e \in Entry PROVE e \in f2 \/ e \in P2 \/ \E u \in Thread : e \in T2(u)
  <2>1. CASE e \in Z
    BY <1>4, <1>5, <2>1
  <2>2. CASE e \notin Z
    BY <1>3, <1>4, <1>5, <1>6, <2>2
  <2>. QED  BY <2>1, <2>2
<1>11. EntriesApart'
  BY <1>1, <1>7, <1>8, <1>9 DEF EntriesApart, T2
<1>12. EntriesKept'
  BY <1>1, <1>10 DEF EntriesKept, T2
<1>. QED  BY <1>11, <1>12

-----------------------------------------------------------------------------
(* What stays.                                                             *)
LinksTo(h, n, os) ==
  \A l \in List : LET w == Walk(h, l, n[l], TRUE) IN {w[k] : k \in DOMAIN w} = Of(os[l])

LEMMA LinksAre ==
  ASSUME NEW h, NEW n, NEW os, Listed(h, n, os)
  PROVE  LinksTo(h, n, os)
<1>. SUFFICES ASSUME NEW l \in List, NEW w, w = Walk(h, l, n[l], TRUE)
              PROVE  {w[k] : k \in DOMAIN w} = Of(os[l])
  BY DEF LinksTo
<1>1. ListAt(h, n, os, l)
  BY ListIs
<1>2. w = os[l] /\ os[l] \in Seq(Entry)
  BY <1>1 DEF ListAt, OnHeap
<1>3. PICK s \in Seq(Entry) : s = os[l]
  BY <1>2
<1>4. DOMAIN s = 1 .. Len(s)
  OBVIOUS
<1>. QED  BY <1>2, <1>3, <1>4 DEF Of

(* The lists do not change.                                                *)
SameLists == Placed' = Placed /\ \A l \in List : Linked(l)' = Linked(l)

LEMMA ListsFrame ==
  ASSUME ListsInv, UNCHANGED listVars
  PROVE  ListsInv' /\ SameLists
<1>1. heap' = heap /\ len' = len
  BY DEF listVars
<1>2. ListsInv'
  BY <1>1 DEF ListsInv
<1>3. \A l \in List : Linked(l)' = Linked(l)
  BY <1>1 DEF Linked, Order
<1>4. Placed' = Placed
  BY <1>3 DEF Placed
<1>. QED  BY <1>2, <1>3, <1>4 DEF SameLists

(* A list changes by the entries Z, which it gets or loses.                *)
ListMoves(l, Z, gets) ==
  /\ \A m \in List : Linked(m)' = IF m # l THEN Linked(m)
                                  ELSE IF gets THEN Linked(m) \cup Z ELSE Linked(m) \ Z
  /\ Placed' = IF gets THEN Placed \cup Z ELSE Placed \ Z

LEMMA ListsMove ==
  ASSUME NEW os, Listed(heap, len, os), NEW l, l \in List, NEW s, NEW E, Changed(heap', len', os, l, s, E),
         NEW Z, Z \in SUBSET Entry, NEW gets, gets \in BOOLEAN, ~gets => Z \subseteq Of(os[l]),
         E = IF gets THEN Of(os[l]) \cup Z ELSE Of(os[l]) \ Z
  PROVE  ListsInv' /\ ListMoves(l, Z, gets)
<1>1. PICK os2 : os2 = [os EXCEPT ![l] = s]
  OBVIOUS
<1>2. Listed(heap', len', os2) /\ Of(s) = E
  BY <1>1 DEF Changed
<1>3. ListsInv'
  BY <1>2 DEF ListsInv
<1>4. LinksTo(heap, len, os) /\ LinksTo(heap', len', os2)
  BY <1>2, LinksAre
<1>5. \A m \in List : Linked(m) = Of(os[m]) /\ Linked(m)' = Of(os2[m])
  BY <1>4 DEF LinksTo, Linked, Order
<1>6. \A m \in List : os2[m] = IF m = l THEN s ELSE os[m]
  BY <1>1 DEF Listed, Shape
<1>7. \A m \in List : Linked(m)' = IF m # l THEN Linked(m)
                                  ELSE IF gets THEN Linked(m) \cup Z ELSE Linked(m) \ Z
  BY <1>2, <1>5, <1>6
<1>8. \A m \in List : m # l => Of(os[l]) \cap Of(os[m]) = {}
  BY ListsApart
<1>9. Placed' = IF gets THEN Placed \cup Z ELSE Placed \ Z
  <2>1. PICK K, K2 : K = [m \in List |-> Linked(m)] /\ K2 = [m \in List |-> Linked(m)']
    OBVIOUS
  <2>2. Placed = {e \in Entry : \E m \in List : e \in K[m]}
    BY <2>1 DEF Placed
  <2>3. Placed' = {e \in Entry : \E m \in List : e \in K2[m]}
    BY <2>1 DEF Placed
  <2>4. \A m \in List : K2[m] = IF m # l THEN K[m] ELSE IF gets THEN K[m] \cup Z ELSE K[m] \ Z
    BY <1>7, <2>1
  <2>5. ~gets => \A m \in List : m # l => K[m] \cap Z = {}
    BY <1>5, <1>8, <2>1
  <2>6. CASE gets
    BY <2>2, <2>3, <2>4, <2>6
  <2>7. CASE ~gets
    BY <2>2, <2>3, <2>4, <2>5, <2>7
  <2>. QED  BY <2>6, <2>7
<1>. QED  BY <1>3, <1>7, <1>9 DEF ListMoves

(* Where no entry moves.                                                   *)
LEMMA EntriesStay ==
  ASSUME NEW t, t \in Thread, EntriesApart, EntriesKept, NEW q, Acts(t, q), Taken(q) = Taken(todo[t]),
         free' = free, SameLists
  PROVE  EntriesApart' /\ EntriesKept'
<1>1. PICK Z, d : Z = {} /\ d = "free"
  OBVIOUS
<1>2. Moved(t, Z, d, q)
  BY <1>1 DEF Moved, SameLists
<1>. QED  BY <1>1, <1>2, EntriesMove

LEMMA HoldStays ==
  ASSUME NEW t, t \in Thread, EntriesHold, NEW q, Acts(t, q), obj' = obj,
         Placed' \cup Releasing(q) = Placed \cup Releasing(todo[t])
  PROVE  EntriesHold'
<1>1. \A u \in Thread : u # t => todo'[u] = todo[u]
  BY DEF Acts
<1>2. todo'[t] = q
  BY DEF Acts
<1>. DEFINE R(e) == e \in Placed \/ \E u \in Thread : e \in Releasing(todo[u])
            R2(e) == e \in Placed' \/ \E u \in Thread : e \in Releasing(todo'[u])
<1>3. ASSUME NEW e \in Entry PROVE R2(e) <=> R(e)
  BY <1>1, <1>2
<1>4. obj \in [Entry -> Obj \cup {NULL}] /\ \A e \in Entry : obj[e] # NULL <=> R(e)
  BY DEF EntriesHold
<1>. HIDE DEF R, R2
<1>5. \A e \in Entry : obj'[e] # NULL <=> R2(e)
  BY <1>3, <1>4
<1>6. obj' \in [Entry -> Obj \cup {NULL}]
  BY <1>4
<1>. QED  BY <1>5, <1>6 DEF EntriesHold, R2

(* Objects no reference of which comes or goes for good.                   *)
LEMMA LiveStays ==
  ASSUME NEW t, t \in Thread, LiveInv, NEW q, Acts(t, q), Doomed(q) = Doomed(todo[t]), live' = live,
         \A o \in Obj : ref'[o] > 0 <=> ref[o] > 0, \A o \in Obj : ref[o] = 0 <=> ref'[o] = 0
  PROVE  LiveInv'
<1>. DEFINE D(u) == Doomed(todo[u])
            D2(u) == Doomed(todo'[u])
<1>1. \A u \in Thread : D2(u) = D(u)
  BY DEF Acts
<1>2. /\ live \in [Obj -> BOOLEAN]
      /\ \A o \in Obj : ref[o] > 0 => live[o]
      /\ \A u \in Thread : D(u) \subseteq Obj
      /\ \A u \in Thread : \A o \in D(u) : live[o] /\ ref[o] = 0
      /\ \A o \in Obj : live[o] /\ ref[o] = 0 => \E u \in Thread : o \in D(u)
      /\ \A u, v \in Thread : u # v => D(u) \cap D(v) = {}
  BY DEF LiveInv, Doomed
<1>. HIDE DEF D, D2
<1>3. live' \in [Obj -> BOOLEAN]
  BY <1>2
<1>4. \A o \in Obj : ref'[o] > 0 => live'[o]
  BY <1>2
<1>5. \A u \in Thread : \A o \in D2(u) : live'[o] /\ ref'[o] = 0
  BY <1>1, <1>2
<1>6. \A o \in Obj : live'[o] /\ ref'[o] = 0 => \E u \in Thread : o \in D2(u)
  BY <1>1, <1>2
<1>7. \A u, v \in Thread : u # v => D2(u) \cap D2(v) = {}
  BY <1>1, <1>2
<1>. QED  BY <1>3, <1>4, <1>5, <1>6, <1>7 DEF LiveInv, D2

(* What a thread holds it goes on to hold.                                 *)
LEMMA HoldsStays ==
  ASSUME NEW u, NEW o, Holds(u, o), held[u][o] > 0 => held'[u][o] > 0,
         \A l \in List : Owner[l] = u => \A e \in Linked(l) : e \in Linked(l)' /\ obj'[e] = obj[e]
  PROVE  Holds(u, o)'
<1>1. CASE held[u][o] > 0
  BY <1>1 DEF Holds
<1>2. ASSUME NEW l \in List, Owner[l] = u, NEW e \in Linked(l), obj[e] = o PROVE Holds(u, o)'
  BY <1>2 DEF Holds
<1>. QED  BY <1>1, <1>2 DEF Holds

LEMMA WantedStays ==
  ASSUME NEW t, t \in Thread, WantedInv, NEW q, Acts(t, q), \A o \in Wanted(q) : Holds(t, o)',
         \A u \in Thread \ {t} : \A o \in Wanted(todo[u]) : Holds(u, o) => Holds(u, o)'
  PROVE  WantedInv'
<1>. SUFFICES ASSUME NEW u \in Thread, NEW o \in Wanted(todo'[u]) PROVE Holds(u, o)'
  BY DEF WantedInv
<1>1. CASE u = t
  BY <1>1 DEF Acts
<1>2. CASE u # t
  BY <1>2 DEF Acts, WantedInv
<1>. QED  BY <1>1, <1>2

(* A step that only changes what a thread is about to push.                *)
LEMMA Quiet ==
  ASSUME DLInv, NEW t, t \in Thread, NEW q, WorkInv', Acts(t, q),
         Taken(q) = Taken(todo[t]), Releasing(q) = Releasing(todo[t]), Doomed(q) = Doomed(todo[t]),
         \A o \in Wanted(q) : Holds(t, o), UNCHANGED <<listVars, refVars, free, used>>
  PROVE  DLInv'
<1>1. UNCHANGED listVars /\ obj' = obj /\ live' = live /\ ref' = ref /\ held' = held /\ free' = free /\ used' = used
  BY DEF refVars
<1>2. ListsInv' /\ SameLists
  BY <1>1, ListsFrame DEF DLInv
<1>3. EntriesApart' /\ EntriesKept'
  BY <1>1, <1>2, EntriesStay DEF DLInv
<1>4. EntriesHold'
  <2>1. Placed' \cup Releasing(q) = Placed \cup Releasing(todo[t])
    BY <1>2 DEF SameLists
  <2>. QED  BY <1>1, <2>1, HoldStays DEF DLInv
<1>5. CountInv'
  BY <1>1 DEF DLInv, CountInv
<1>6. LiveInv'
  BY <1>1, LiveStays DEF DLInv
<1>7. UsedInv'
  BY <1>1 DEF DLInv, UsedInv
<1>8. ASSUME NEW u \in Thread, NEW o, Holds(u, o) PROVE Holds(u, o)'
  <2>1. held[u][o] > 0 => held'[u][o] > 0
    BY <1>1
  <2>2. \A l \in List : Owner[l] = u => \A e \in Linked(l) : e \in Linked(l)' /\ obj'[e] = obj[e]
    BY <1>1, <1>2 DEF SameLists
  <2>. QED  BY <1>8, <2>1, <2>2, HoldsStays
<1>9. WantedInv'
  BY <1>8, WantedStays DEF DLInv
<1>. QED  BY <1>2, <1>3, <1>4, <1>5, <1>6, <1>7, <1>9 DEF DLInv

-----------------------------------------------------------------------------
(* The calls that begin with nothing but work.                             *)

(* The range of GetRange, clipped, from a to b.                            *)
Clip(n, u) == IF u >= n THEN n - 1 ELSE u

Ranged(es, s, a, b) ==
  /\ a \in Nat /\ b \in Nat /\ a <= b /\ b < Len(s)
  /\ es = Met(fasterFromEnd(Len(s), a), s, a, b + 1)

LEMMA RangeIs ==
  ASSUME NEW h, NEW n, NEW os, Listed(h, n, os), NEW l, l \in List, n[l] > 0,
         NEW i, i \in Nat, NEW j, j \in Nat, i <= j, NEW es, es = RangeOf(h, l, n[l], i, j)
  PROVE  Ranged(es, os[l], Clip(n[l], i), Clip(n[l], j))
<1>1. PICK s, P, k, a, b : s = os[l] /\ P = List \cup Entry /\ k = n[l] /\ a = Clip(k, i) /\ b = Clip(k, j)
  OBVIOUS
<1>2. OnHeap(h, P, Entry, l, s) /\ k = Len(s)
  <2>1. ListAt(h, n, os, l)
    BY ListIs
  <2>. QED  BY <1>1, <2>1 DEF ListAt
<1>3. k \in Nat /\ k > 0
  BY <1>1 DEF Listed
<1>4. a \in Nat /\ b \in Nat /\ a <= b /\ b < k
  BY <1>1, <1>3 DEF Clip
<1>5. PICK no \in BOOLEAN : no = FALSE
  OBVIOUS
<1>6. PICK r : r = Loop(h, l, k, a, b, no)
  OBVIOUS
<1>7. es = r.met
  <2>1. ~(i > j \/ k = 0)
    BY <1>3
  <2>. QED  BY <1>1, <1>5, <1>6, <2>1 DEF RangeOf, Clip
<1>8. Looped(r, no, h, P, Entry, l, s, a, b)
  BY <1>2, <1>4, <1>6, LoopIs
<1>. QED  BY <1>1, <1>2, <1>4, <1>7, <1>8 DEF Looped, Ranged

(* Met entries are entries of the list.                                    *)
LEMMA MetWithin ==
  ASSUME NEW N, NEW s, s \in Seq(N), NEW fromEnd \in BOOLEAN, NEW i, i \in Nat, NEW j, j \in Nat,
         i <= j, j <= Len(s), NEW m, m = Met(fromEnd, s, i, j)
  PROVE  m \in Seq(Of(s))
<1>. DEFINE at(y) == IF fromEnd THEN j + 1 - y ELSE i + y
<1>1. PICK d : d = j - i
  OBVIOUS
<1>2. m = [y \in 1 .. d |-> s[at(y)]]
  BY <1>1 DEF Met
<1>3. d \in Nat /\ \A y \in 1 .. d : at(y) \in 1 .. Len(s)
  BY <1>1
<1>. HIDE DEF at
<1>4. \A y \in 1 .. d : s[at(y)] \in Of(s)
  BY <1>3 DEF Of
<1>5. m \in [1 .. d -> Of(s)]
  BY <1>2, <1>4
<1>. QED  BY <1>3, <1>5

LEMMA RangeWithin ==
  ASSUME NEW h, NEW n, NEW os, Listed(h, n, os), NEW l, l \in List,
         NEW i, i \in Nat, NEW j, j \in Nat, NEW es, es = RangeOf(h, l, n[l], i, j)
  PROVE  es \in Seq(Of(os[l]))
<1>1. CASE i > j \/ n[l] = 0
  <2>1. es = <<>>
    BY <1>1 DEF RangeOf
  <2>. QED  BY <2>1
<1>2. CASE i <= j /\ n[l] > 0
  <2>1. PICK s, a, b : s = os[l] /\ a = Clip(n[l], i) /\ b = Clip(n[l], j)
    OBVIOUS
  <2>2. Ranged(es, s, a, b)
    BY <1>2, <2>1, RangeIs
  <2>3. PICK fromEnd \in BOOLEAN : fromEnd = fasterFromEnd(Len(s), a)
    BY FasterIs
  <2>4. PICK j2 : j2 = b + 1
    OBVIOUS
  <2>5. s \in Seq(Entry)
    BY <2>1 DEF Listed, Shape
  <2>6. /\ a \in Nat /\ j2 \in Nat /\ a <= j2 /\ j2 <= Len(s)
        /\ es = Met(fromEnd, s, a, j2)
    BY <2>2, <2>3, <2>4, <2>5 DEF Ranged
  <2>. QED  BY <2>1, <2>5, <2>6, MetWithin
<1>3. n[l] \in Nat
  BY DEF Listed
<1>. QED  BY <1>1, <1>2, <1>3

LEMMA ScanWithin ==
  ASSUME NEW h, NEW n, NEW os, Listed(h, n, os), NEW l, l \in List,
         NEW i, i \in Nat, NEW c, c \in Nat, NEW r, r = ScanOf(h, l, n[l], i, c)
  PROVE  r.met \in Seq(Of(os[l]))
<1>1. PICK s, P, k : s = os[l] /\ P = List \cup Entry /\ k = n[l]
  OBVIOUS
<1>2. OnHeap(h, P, Entry, l, s) /\ k = Len(s)
  <2>1. ListAt(h, n, os, l)
    BY ListIs
  <2>. QED  BY <1>1, <2>1 DEF ListAt
<1>3. PICK done : done = i + c
  OBVIOUS
<1>4. ScanGives(r, s, i, done)
  <2>1. r = ScanOf(h, l, k, i, c)
    BY <1>1
  <2>2. ScanGives(r, s, i, i + c)
    BY <1>2, <2>1, ScanIs
  <2>. QED  BY <1>3, <2>2
<1>5. CASE i >= Len(s)
  <2>1. r.met = <<>>
    BY <1>4, <1>5 DEF ScanGives
  <2>. QED  BY <2>1
<1>6. CASE i < Len(s)
  <2>1. PICK no \in BOOLEAN : no = FALSE
    OBVIOUS
  <2>2. PICK j : j = Least2(done, Len(s))
    OBVIOUS
  <2>3. s \in Seq(Entry) /\ Len(s) \in Nat
    BY <1>2 DEF OnHeap
  <2>4. j \in Nat /\ i <= j /\ j <= Len(s)
    BY <1>3, <1>6, <2>2, <2>3 DEF Least2
  <2>5. r.met = Met(no, s, i, j)
    <3>1. ~(i >= Len(s))
      BY <1>6, <2>3
    <3>2. r.met = Met(FALSE, s, i, Least2(done, Len(s)))
      <4>1. PICK m, d : m = Met(FALSE, s, i, Least2(done, Len(s))) /\ d = IF done >= Len(s) - 1 THEN 0 ELSE done
        OBVIOUS
      <4>2. r = [met |-> m, index |-> d]
        BY <1>4, <3>1, <4>1 DEF ScanGives
      <4>. QED  BY <4>1, <4>2
    <3>. QED  BY <2>1, <2>2, <3>2
  <2>. QED  BY <1>1, <2>3, <2>4, <2>5, MetWithin
<1>. QED  BY <1>2, <1>5, <1>6 DEF OnHeap

(* Entries in a list hold an object.                                       *)
LEMMA PlacedHold ==
  ASSUME EntriesHold, NEW e, e \in Placed
  PROVE  e \in Entry /\ obj[e] \in Obj
BY DEF EntriesHold, Placed

LEMMA PushesKeeps ==
  ASSUME DLInv, NEW t, t \in Thread, NEW l, l \in List, Owner[l] = t, NEW dest, dest \in List,
         NEW es, es \in Seq(Linked(l)), Linked(l) \subseteq Entry, Call(t, Pushes(dest, es)),
         UNCHANGED <<listVars, refVars, free, used>>
  PROVE  DLInv'
<1>1. PICK q : q = Pushes(dest, es)
  OBVIOUS
<1>2. \A k \in 1 .. Len(es) : es[k] \in Linked(l) /\ es[k] \in Placed
  BY DEF Placed
<1>3. \A k \in 1 .. Len(es) : obj[es[k]] \in Obj
  BY <1>2, PlacedHold DEF DLInv
<1>4. PICK E : E = Linked(l)
  OBVIOUS
<1>5. Pushing(q, es)
  <2>1. es \in Seq(E)
    BY <1>4
  <2>. QED  BY <1>1, <1>3, <2>1, PushWork
<1>6. WorkInv' /\ Acts(t, q) /\ Nothing(todo[t])
  BY <1>1, <1>5, CallWork DEF DLInv, Pushing
<1>7. ASSUME NEW o \in Wanted(q) PROVE Holds(t, o)
  BY <1>2, <1>5 DEF Pushing, Holds
<1>8. Taken(q) = Taken(todo[t]) /\ Releasing(q) = Releasing(todo[t]) /\ Doomed(q) = Doomed(todo[t])
  BY <1>5, <1>6 DEF Pushing, Nothing
<1>. QED  BY <1>6, <1>7, <1>8, Quiet

LEMMA LinkedIs ==
  ASSUME NEW os, Listed(heap, len, os), NEW l, l \in List
  PROVE  Linked(l) = Of(os[l]) /\ Linked(l) \subseteq Entry /\ os[l] \in Seq(Entry)
<1>1. LinksTo(heap, len, os)
  BY LinksAre
<1>2. Linked(l) = Of(os[l])
  BY <1>1 DEF LinksTo, Linked, Order
<1>3. os[l] \in Seq(Entry)
  BY DEF Listed, Shape
<1>. QED  BY <1>2, <1>3 DEF Of

LEMMA GetRangeKeeps ==
  ASSUME DLInv, NEW t, t \in Thread, NEW l, l \in List, Owner[l] = t, NEW dest, dest \in List,
         NEW i, i \in Nat, NEW j, j \in Nat, dmbDLListGetRange(t, l, i, j, dest)
  PROVE  DLInv'
<1>1. PICK os : Listed(heap, len, os)
  BY DEF DLInv, ListsInv
<1>2. PICK es : es = RangeOf(heap, l, len[l], i, j)
  OBVIOUS
<1>3. es \in Seq(Of(os[l]))
  BY <1>1, <1>2, RangeWithin
<1>4. Linked(l) = Of(os[l]) /\ Linked(l) \subseteq Entry
  BY <1>1, LinkedIs
<1>. QED  BY <1>2, <1>3, <1>4, PushesKeeps DEF dmbDLListGetRange

LEMMA ScanKeeps ==
  ASSUME DLInv, NEW t, t \in Thread, NEW l, l \in List, Owner[l] = t, NEW dest, dest \in List,
         NEW i, i \in Nat, NEW c, c \in Nat, dmbDLListScan(t, l, i, c, dest)
  PROVE  DLInv'
<1>1. PICK os : Listed(heap, len, os)
  BY DEF DLInv, ListsInv
<1>2. PICK r : r = ScanOf(heap, l, len[l], i, c)
  OBVIOUS
<1>3. r.met \in Seq(Of(os[l]))
  BY <1>1, <1>2, ScanWithin
<1>4. Linked(l) = Of(os[l]) /\ Linked(l) \subseteq Entry
  BY <1>1, LinkedIs
<1>5. PICK es : es = r.met
  OBVIOUS
<1>. QED  BY <1>2, <1>3, <1>4, <1>5, PushesKeeps DEF dmbDLListScan

(* A single check begins a push or the creation of an object.              *)
LEMMA CheckIs ==
  ASSUME NEW x, NEW l, l \in List \cup {NULL}, NEW atBack, atBack \in BOOLEAN, NEW o, o \in Obj \cup {NULL},
         o # NULL => l # NULL, x = Item("check", l, atBack, NULL, o)
  PROVE  WellFormed(x) /\ x.act = "check" /\ x.o = o
<1>1. x = [act |-> "check", l |-> l, atBack |-> atBack, e |-> NULL, o |-> o]
  BY DEF Item
<1>2. x \in ItemSet
  BY <1>1 DEF ItemSet, PushActs
<1>. QED  BY <1>1, <1>2 DEF WellFormed, PushActs

LEMMA OneCheckKeeps ==
  ASSUME DLInv, NEW t, t \in Thread, NEW x, WellFormed(x), x.act = "check", x.o \in Obj => held[t][x.o] > 0,
         Call(t, <<x>>), UNCHANGED <<listVars, refVars, free, used>>
  PROVE  DLInv'
<1>1. PICK q : q = <<x>>
  OBVIOUS
<1>2. Single(q, x)
  BY <1>1, OneItem
<1>3. WorkInv' /\ Acts(t, q) /\ Nothing(todo[t])
  BY <1>1, <1>2, CallWork DEF DLInv, Single
<1>4. TakenBy(x) = {} /\ DoomedBy(x) = {}
  BY DEF TakenBy, Takes, DoomedBy
<1>5. Taken(q) = Taken(todo[t]) /\ Releasing(q) = Releasing(todo[t]) /\ Doomed(q) = Doomed(todo[t])
  BY <1>2, <1>3, <1>4 DEF Single, Nothing
<1>6. \A o \in Wanted(q) : Holds(t, o)
  BY <1>2 DEF Single, WantedBy, Holds
<1>. QED  BY <1>3, <1>5, <1>6, Quiet

LEMMA CreateKeeps ==
  ASSUME DLInv, NEW t, t \in Thread, dmbCreateIntObject(t)
  PROVE  DLInv'
<1>1. PICK x : x = CreateItem
  OBVIOUS
<1>2. PICK yes \in BOOLEAN : yes = TRUE
  OBVIOUS
<1>3. PICK no \in {NULL} : TRUE
  OBVIOUS
<1>4. x = Item("check", no, yes, NULL, no)
  BY <1>1, <1>2, <1>3 DEF CreateItem
<1>5. no \notin Obj /\ no = NULL
  BY <1>3, DLListAssumption
<1>6. WellFormed(x) /\ x.act = "check" /\ x.o = no
  BY <1>4, <1>5, CheckIs
<1>. QED  BY <1>1, <1>5, <1>6, OneCheckKeeps DEF dmbCreateIntObject

LEMMA PushKeeps ==
  ASSUME DLInv, NEW t, t \in Thread, NEW l, l \in List, NEW atBack, atBack \in BOOLEAN, NEW o, o \in Obj,
         dmbDLListPush(t, l, atBack, o)
  PROVE  DLInv'
<1>1. PICK x : x = PushItem(l, atBack, o)
  OBVIOUS
<1>2. x = Item("check", l, atBack, NULL, o)
  BY <1>1 DEF PushItem
<1>3. l # NULL
  BY DLListAssumption
<1>4. WellFormed(x) /\ x.act = "check" /\ x.o = o
  BY <1>2, <1>3, CheckIs
<1>. QED  BY <1>1, <1>4, OneCheckKeeps DEF dmbDLListPush

-----------------------------------------------------------------------------
(* The steps of a push.                                                    *)

(* Behind an item of a push there are only pushes that have not begun.     *)
LEMMA BehindPush ==
  ASSUME NEW q, Work(q), q # <<>>, NEW x, x = Head(q), NEW p, p = Tail(q), x.act \in PushActs
  PROVE  Headed(q, x, p) /\ Taken(p) = {} /\ Releasing(q) = {} /\ Releasing(p) = {} /\ Doomed(q) = {} /\ Doomed(p) = {}
<1>1. Headed(q, x, p)
  BY HeadOff
<1>2. \A k \in 1 .. Len(p) : p[k].act = "check"
  BY <1>1 DEF Headed, Calm
<1>3. Taken(p) = {} /\ Releasing(p) = {} /\ Doomed(p) = {}
  BY <1>2 DEF Taken, Releasing, Doomed, Takes
<1>4. ReleasedBy(x) = {} /\ DoomedBy(x) = {}
  BY DEF ReleasedBy, DoomedBy, PushActs
<1>. QED  BY <1>1, <1>3, <1>4 DEF Headed, Consists

LEMMA FailKeeps ==
  ASSUME DLInv, NEW t, t \in Thread, todo[t] # <<>>, Head(todo[t]).act \in {"check", "malloc"},
         Failed(t), UNCHANGED <<listVars, refVars, free, used>>
  PROVE  DLInv'
<1>1. PICK q, x, p, r : q = todo[t] /\ x = Head(q) /\ p = Tail(q) /\ r = <<>>
  OBVIOUS
<1>2. Work(q)
  BY <1>1 DEF DLInv, WorkInv
<1>3. x.act \in PushActs /\ x.act \in {"check", "malloc"}
  BY <1>1 DEF PushActs
<1>4. Headed(q, x, p) /\ Taken(p) = {} /\ Releasing(q) = {} /\ Doomed(q) = {}
  BY <1>1, <1>2, <1>3, BehindPush
<1>5. TakenBy(x) = {}
  BY <1>3 DEF TakenBy, Takes
<1>6. Taken(q) = {}
  BY <1>4, <1>5 DEF Headed, Consists
<1>7. Work(r) /\ Nothing(r)
  BY <1>1, NoWork
<1>8. todo' = [todo EXCEPT ![t] = r]
  BY <1>1 DEF Failed
<1>9. WorkInv' /\ Acts(t, r)
  BY <1>7, <1>8, ActsWork DEF DLInv
<1>10. Taken(r) = Taken(todo[t]) /\ Releasing(r) = Releasing(todo[t]) /\ Doomed(r) = Doomed(todo[t])
  BY <1>1, <1>4, <1>6, <1>7 DEF Nothing
<1>11. \A o \in Wanted(r) : Holds(t, o)
  BY <1>7 DEF Nothing
<1>. QED  BY <1>9, <1>10, <1>11, Quiet

LEMMA CheckKeeps ==
  ASSUME DLInv, NEW t, t \in Thread, CheckCurrentMemoryUsage(t)
  PROVE  DLInv'
<1>1. todo[t] # <<>> /\ Head(todo[t]).act = "check" /\ UNCHANGED <<listVars, refVars, free, used>>
  BY DEF CheckCurrentMemoryUsage, Doing
<1>2. CASE Failed(t)
  BY <1>1, <1>2, FailKeeps
<1>3. CASE Done(t, <<[Head(todo[t]) EXCEPT !.act = "malloc"]>>)
  <2>1. PICK q, x, p, y, r : /\ q = todo[t] /\ x = Head(q) /\ p = Tail(q) /\ y = [x EXCEPT !.act = "malloc"]
                             /\ r = <<y>> \o p
    OBVIOUS
  <2>2. Work(q) /\ q # <<>> /\ x.act = "check"
    BY <1>1, <2>1 DEF DLInv, WorkInv
  <2>3. x.act \in PushActs
    BY <2>2 DEF PushActs
  <2>4. Headed(q, x, p) /\ Taken(p) = {} /\ Releasing(q) = {} /\ Releasing(p) = {} /\ Doomed(q) = {} /\ Doomed(p) = {}
    BY <2>1, <2>2, <2>3, BehindPush
  <2>5. WellFormed(x) /\ Calm(x, p)
    BY <2>4 DEF Headed
  <2>6. y.act = "malloc" /\ y.e = x.e /\ y.o = x.o /\ y.l = x.l /\ y \in ItemSet
    BY <2>1, <2>5 DEF WellFormed, ItemSet, PushActs
  <2>7. WellFormed(y) /\ y.act # "release"
    BY <2>2, <2>5, <2>6 DEF WellFormed, PushActs
  <2>8. Calm(y, p)
    BY <2>3, <2>5, <2>6 DEF Calm, PushActs
  <2>9. TakenBy(y) = {} /\ TakenBy(x) = {} /\ ReleasedBy(y) = {} /\ DoomedBy(y) = {} /\ WantedBy(y) = WantedBy(x)
    BY <2>2, <2>6 DEF TakenBy, Takes, ReleasedBy, DoomedBy, WantedBy, PushActs
  <2>10. Headed(r, y, p) /\ WorkInv' /\ Acts(t, r)
    <3>1. Done(t, <<y>>)
      BY <1>3, <2>1
    <3>2. TakenBy(y) \cap Taken(p) = {}
      BY <2>9
    <3>. QED  BY <2>1, <2>2, <2>7, <2>8, <3>1, <3>2, ChangedWork DEF DLInv
  <2>11. Taken(r) = Taken(q) /\ Releasing(r) = Releasing(q) /\ Doomed(r) = Doomed(q) /\ Wanted(r) = Wanted(q)
    BY <2>4, <2>9, <2>10 DEF Headed, Consists
  <2>12. \A o \in Wanted(r) : Holds(t, o)
    BY <2>1, <2>11 DEF DLInv, WantedInv
  <2>. QED  BY <1>1, <2>1, <2>10, <2>11, <2>12, Quiet
<1>. QED  BY <1>2, <1>3 DEF CheckCurrentMemoryUsage

LEMMA MallocFailsKeeps ==
  ASSUME DLInv, NEW t, t \in Thread, MallocFails(t)
  PROVE  DLInv'
BY FailKeeps DEF MallocFails, Doing

LEMMA MallocObjectKeeps ==
  ASSUME DLInv, NEW t, t \in Thread, NEW o, o \in Obj, MallocObject(t, o)
  PROVE  DLInv'
<1>0. PICK yes \in BOOLEAN : yes = TRUE
  OBVIOUS
<1>1. PICK q, x, p : q = todo[t] /\ x = Head(q) /\ p = Tail(q)
  OBVIOUS
<1>2. /\ q # <<>> /\ x.act = "malloc" /\ x.o = NULL /\ ~live[o] /\ used' = used + 1
      /\ live' = [live EXCEPT ![o] = yes] /\ ref' = [ref EXCEPT ![o] = 1]
      /\ held' = [held EXCEPT ![t][o] = 1] /\ Done(t, <<>>) /\ UNCHANGED listVars /\ obj' = obj /\ free' = free
  BY <1>0, <1>1 DEF MallocObject, Doing
<1>3. Work(q)
  BY <1>1 DEF DLInv, WorkInv
<1>4. Headed(q, x, p) /\ WorkInv' /\ Acts(t, p)
  <2>1. PICK w : w = <<>> /\ Done(t, w)
    BY <1>2
  <2>. QED  BY <1>1, <1>2, <2>1, DoneWork DEF DLInv
<1>5. TakenBy(x) = {} /\ ReleasedBy(x) = {} /\ DoomedBy(x) = {} /\ WantedBy(x) = {}
  BY <1>2, DLListAssumption DEF TakenBy, Takes, ReleasedBy, DoomedBy, WantedBy
<1>6. Taken(p) = Taken(q) /\ Releasing(p) = Releasing(q) /\ Doomed(p) = Doomed(q) /\ Wanted(p) = Wanted(q)
  BY <1>4, <1>5 DEF Headed, Consists
<1>7. ListsInv' /\ SameLists
  BY <1>2, ListsFrame DEF DLInv
<1>8. EntriesApart' /\ EntriesKept'
  BY <1>1, <1>2, <1>4, <1>6, <1>7, EntriesStay DEF DLInv
<1>9. EntriesHold'
  <2>1. Placed' \cup Releasing(p) = Placed \cup Releasing(todo[t])
    BY <1>1, <1>6, <1>7 DEF SameLists
  <2>. QED  BY <1>2, <1>4, <2>1, HoldStays DEF DLInv
<1>10. /\ ref \in [Obj -> Nat] /\ held \in [Thread -> [Obj -> Nat]]
       /\ \A r \in Obj : ref[r] = Cardinality(Pointing(obj, r)) + HeldSum(held, r)
  BY DEF DLInv, CountInv
<1>11. live \in [Obj -> BOOLEAN] /\ \A r \in Obj : ref[r] > 0 => live[r]
  BY DEF DLInv, LiveInv
<1>12. ref[o] = 0 /\ held[t][o] = 0
  <2>1. held[t][o] \in Nat /\ held[t][o] <= ref[o] /\ ref[o] \in Nat
    BY ReferredCounted DEF DLInv
  <2>. QED  BY <1>2, <1>11, <2>1
<1>13. CountInv'
  <2>1. PICK v : v = 1
    OBVIOUS
  <2>2. v \in Nat /\ held' = [held EXCEPT ![t][o] = v]
    BY <1>2, <2>1
  <2>3. HeldMoves(held', held, t, o, v)
    BY <1>10, <2>2, HeldChanges
  <2>4. \A r \in Obj : HeldSum(held', r) = IF r = o THEN HeldSum(held, o) + 1 ELSE HeldSum(held, r)
    <3>1. HeldSum(held, o) \in Nat
      BY <1>10, HeldAtLeast
    <3>. QED  BY <1>12, <2>1, <2>3, <3>1 DEF HeldMoves
  <2>5. ref' \in [Obj -> Nat] /\ \A r \in Obj : ref'[r] = IF r = o THEN 1 ELSE ref[r]
    BY <1>2, <1>10
  <2>6. \A r \in Obj : ref'[r] = Cardinality(Pointing(obj', r)) + HeldSum(held', r)
    <3>. SUFFICES ASSUME NEW r \in Obj PROVE ref'[r] = Cardinality(Pointing(obj', r)) + HeldSum(held', r)
      OBVIOUS
    <3>1. Cardinality(Pointing(obj, r)) \in Nat /\ HeldSum(held, r) \in Nat
      BY <1>10, PointingFinite, HeldAtLeast
    <3>2. Pointing(obj', r) = Pointing(obj, r)
      BY <1>2
    <3>. QED  BY <1>10, <1>12, <2>4, <2>5, <3>1, <3>2
  <2>. QED  BY <2>3, <2>5, <2>6 DEF CountInv, HeldMoves
<1>14. LiveInv'
  <2>. DEFINE D(u) == Doomed(todo[u])
              D2(u) == Doomed(todo'[u])
  <2>1. \A u \in Thread : D2(u) = D(u)
    BY <1>1, <1>4, <1>6 DEF Acts
  <2>2. /\ \A r \in Obj : ref[r] > 0 => live[r]
        /\ \A u \in Thread : D(u) \subseteq Obj
        /\ \A u \in Thread : \A r \in D(u) : live[r] /\ ref[r] = 0
        /\ \A r \in Obj : live[r] /\ ref[r] = 0 => \E u \in Thread : r \in D(u)
        /\ \A u, v \in Thread : u # v => D(u) \cap D(v) = {}
    BY DEF DLInv, LiveInv, Doomed
  <2>3. /\ \A r \in Obj : ref'[r] = IF r = o THEN 1 ELSE ref[r]
        /\ live' \in [Obj -> BOOLEAN] /\ live'[o]
        /\ \A r \in Obj \ {o} : live'[r] = live[r]
    BY <1>0, <1>2, <1>10, <1>11
  <2>. HIDE DEF D, D2
  <2>4. \A r \in Obj : ref'[r] > 0 => live'[r]
    BY <2>2, <2>3
  <2>5. \A u \in Thread : \A r \in D2(u) : live'[r] /\ ref'[r] = 0
    BY <1>2, <2>1, <2>2, <2>3
  <2>6. \A r \in Obj : live'[r] /\ ref'[r] = 0 => \E u \in Thread : r \in D2(u)
    BY <2>1, <2>2, <2>3
  <2>7. \A u, v \in Thread : u # v => D2(u) \cap D2(v) = {}
    BY <2>1, <2>2
  <2>. QED  BY <2>3, <2>4, <2>5, <2>6, <2>7 DEF LiveInv, D2
<1>15. UsedInv'
  <2>1. PICK X : X = {r \in Obj : live[r]}
    OBVIOUS
  <2>2. {r \in Obj : live'[r]} = X \cup {o} /\ o \notin X
    BY <1>0, <1>2, <1>11, <2>1
  <2>3. IsFiniteSet(X) /\ Cardinality(X) \in Nat
    BY <2>1, FS_Subset, FS_CardinalityType, DLListAssumption
  <2>4. Cardinality(X \cup {o}) = Cardinality(X) + 1
    BY <2>2, <2>3, FS_AddElement
  <2>5. IsFiniteSet(Entry \ free) /\ Cardinality(Entry \ free) \in Nat
    BY FS_Subset, FS_CardinalityType, DLListAssumption
  <2>6. used = Cardinality(Entry \ free) + Cardinality(X)
    BY <2>1 DEF DLInv, UsedInv
  <2>7. used' = Cardinality(Entry \ free') + Cardinality(X \cup {o})
    BY <1>2, <2>3, <2>4, <2>5, <2>6
  <2>. QED  BY <2>2, <2>7 DEF UsedInv
<1>16. ASSUME NEW u \in Thread, NEW r \in Obj, Holds(u, r) PROVE Holds(u, r)'
  <2>1. held[u][r] > 0 => held'[u][r] > 0
    BY <1>2, <1>10
  <2>2. \A l \in List : Owner[l] = u => \A e \in Linked(l) : e \in Linked(l)' /\ obj'[e] = obj[e]
    BY <1>2, <1>7 DEF SameLists
  <2>. QED  BY <1>16, <2>1, <2>2, HoldsStays
<1>17. WantedInv'
  <2>1. \A u \in Thread : Wanted(todo[u]) \subseteq Obj
    BY DEF Wanted
  <2>2. \A r \in Wanted(p) : Holds(t, r)'
    BY <1>1, <1>6, <1>16, <2>1 DEF DLInv, WantedInv
  <2>3. \A u \in Thread \ {t} : \A r \in Wanted(todo[u]) : Holds(u, r) => Holds(u, r)'
    BY <1>16, <2>1
  <2>. QED  BY <1>4, <2>2, <2>3, WantedStays DEF DLInv
<1>. QED  BY <1>4, <1>7, <1>8, <1>9, <1>13, <1>14, <1>15, <1>17 DEF DLInv

LEMMA MallocEntryKeeps ==
  ASSUME DLInv, NEW t, t \in Thread, NEW e, e \in Entry, MallocEntry(t, e)
  PROVE  DLInv'
<1>1. PICK q, x, p : q = todo[t] /\ x = Head(q) /\ p = Tail(q)
  OBVIOUS
<1>2. PICK y, r : y = [x EXCEPT !.act = "link", !.e = e] /\ r = <<y>> \o p
  OBVIOUS
<1>3. /\ q # <<>> /\ x.act = "malloc" /\ x.o # NULL /\ e \in free /\ used' = used + 1
      /\ free' = free \ {e} /\ Done(t, <<y>>) /\ UNCHANGED <<listVars, refVars>>
  BY <1>1, <1>2 DEF MallocEntry, Doing
<1>4. UNCHANGED listVars /\ obj' = obj /\ live' = live /\ ref' = ref /\ held' = held
  BY <1>3 DEF refVars
<1>5. Work(q) /\ x.act \in PushActs
  BY <1>1, <1>3 DEF DLInv, WorkInv, PushActs
<1>6. Headed(q, x, p) /\ Taken(p) = {} /\ Releasing(q) = {} /\ Releasing(p) = {} /\ Doomed(q) = {} /\ Doomed(p) = {}
  BY <1>1, <1>3, <1>5, BehindPush
<1>7. WellFormed(x) /\ Calm(x, p)
  BY <1>6 DEF Headed
<1>8. y.act = "link" /\ y.e = e /\ y.o = x.o /\ y.l = x.l /\ y \in ItemSet
  <2>1. PICK z : z = [x EXCEPT !.act = "link"]
    OBVIOUS
  <2>2. z \in ItemSet /\ z.act = "link" /\ z.o = x.o /\ z.l = x.l
    BY <1>7, <2>1 DEF WellFormed, ItemSet, PushActs
  <2>3. y = [z EXCEPT !.e = e]
    BY <1>2, <1>7, <2>1 DEF WellFormed, ItemSet
  <2>. QED  BY <2>2, <2>3 DEF ItemSet
<1>9. WellFormed(y) /\ y.act # "release"
  <2>1. e # NULL
    BY DLListAssumption
  <2>. QED  BY <1>3, <1>5, <1>7, <1>8, <2>1 DEF WellFormed, PushActs
<1>10. Calm(y, p)
  BY <1>5, <1>7, <1>8 DEF Calm, PushActs
<1>11. /\ TakenBy(y) = {e} /\ TakenBy(x) = {} /\ ReleasedBy(y) = {} /\ DoomedBy(y) = {}
       /\ WantedBy(y) = WantedBy(x)
  BY <1>3, <1>8 DEF TakenBy, Takes, ReleasedBy, DoomedBy, WantedBy, PushActs
<1>12. Headed(r, y, p) /\ WorkInv' /\ Acts(t, r)
  <2>1. TakenBy(y) \cap Taken(p) = {}
    BY <1>6
  <2>. QED  BY <1>1, <1>2, <1>3, <1>9, <1>10, <2>1, ChangedWork DEF DLInv
<1>13. /\ Taken(q) = {} /\ Taken(r) = {e} /\ Releasing(r) = {} /\ Doomed(r) = {}
       /\ Wanted(r) = Wanted(q)
  BY <1>6, <1>11, <1>12 DEF Headed, Consists
<1>14. ListsInv' /\ SameLists
  BY <1>4, ListsFrame DEF DLInv
<1>15. EntriesApart' /\ EntriesKept'
  <2>1. PICK Z, d : Z = {e} /\ d = "taken"
    OBVIOUS
  <2>2. Moved(t, Z, d, r)
    BY <1>1, <1>3, <1>13, <1>14, <2>1 DEF Moved, SameLists, DLInv, EntriesApart
  <2>3. \A u \in Thread : u # t => Taken(todo[u]) \cap Z = {}
    BY <1>3, <2>1 DEF DLInv, EntriesApart
  <2>. QED  BY <1>12, <2>1, <2>2, <2>3, EntriesMove DEF DLInv
<1>16. EntriesHold'
  <2>1. Placed' \cup Releasing(r) = Placed \cup Releasing(todo[t])
    BY <1>1, <1>6, <1>13, <1>14 DEF SameLists
  <2>. QED  BY <1>4, <1>12, <2>1, HoldStays DEF DLInv
<1>17. CountInv'
  BY <1>4 DEF DLInv, CountInv
<1>18. LiveInv'
  <2>1. Doomed(r) = Doomed(todo[t])
    BY <1>1, <1>6, <1>13
  <2>. QED  BY <1>4, <1>12, <2>1, LiveStays DEF DLInv
<1>19. UsedInv'
  <2>1. PICK X, n : X = Entry \ free /\ n = Cardinality({o \in Obj : live[o]})
    OBVIOUS
  <2>2. Entry \ free' = X \cup {e} /\ e \notin X
    BY <1>3, <2>1
  <2>3. IsFiniteSet(X) /\ Cardinality(X) \in Nat /\ n \in Nat
    BY <2>1, FS_Subset, FS_CardinalityType, DLListAssumption
  <2>4. Cardinality(X \cup {e}) = Cardinality(X) + 1
    BY <2>2, <2>3, FS_AddElement
  <2>5. used = Cardinality(X) + n
    BY <2>1 DEF DLInv, UsedInv
  <2>6. used' = Cardinality(X \cup {e}) + n
    BY <1>3, <2>3, <2>4, <2>5
  <2>. QED  BY <1>4, <2>1, <2>2, <2>6 DEF UsedInv
<1>20. ASSUME NEW u \in Thread, NEW o, Holds(u, o) PROVE Holds(u, o)'
  <2>1. held[u][o] > 0 => held'[u][o] > 0
    BY <1>4
  <2>2. \A l \in List : Owner[l] = u => \A a \in Linked(l) : a \in Linked(l)' /\ obj'[a] = obj[a]
    BY <1>4, <1>14 DEF SameLists
  <2>. QED  BY <1>20, <2>1, <2>2, HoldsStays
<1>21. WantedInv'
  <2>1. \A o \in Wanted(r) : Holds(t, o)'
    BY <1>1, <1>13, <1>20 DEF DLInv, WantedInv
  <2>. QED  BY <1>12, <1>20, <2>1, WantedStays DEF DLInv
<1>. QED  BY <1>12, <1>14, <1>15, <1>16, <1>17, <1>18, <1>19, <1>21 DEF DLInv

LEMMA LinkKeeps ==
  ASSUME DLInv, NEW t, t \in Thread, Link(t)
  PROVE  DLInv'
<1>1. PICK q, x, p, e, o, l : q = todo[t] /\ x = Head(q) /\ p = Tail(q) /\ e = x.e /\ o = x.o /\ l = x.l
  OBVIOUS
<1>2. /\ q # <<>> /\ x.act = "link" /\ ref' = [ref EXCEPT ![o] = @ + 1] /\ obj' = [obj EXCEPT ![e] = o]
      /\ heap' = (IF x.atBack THEN dmbListPushBack(heap, l, e) ELSE dmbListPushFront(heap, l, e))
      /\ len' = [len EXCEPT ![l] = @ + 1]
      /\ Done(t, <<>>) /\ live' = live /\ held' = held /\ free' = free /\ used' = used
  BY <1>1 DEF Link, Doing
<1>3. Work(q) /\ x.act \in PushActs
  BY <1>1, <1>2 DEF DLInv, WorkInv, PushActs
<1>4. Headed(q, x, p) /\ Taken(p) = {} /\ Releasing(q) = {} /\ Releasing(p) = {} /\ Doomed(q) = {} /\ Doomed(p) = {}
  BY <1>1, <1>2, <1>3, BehindPush
<1>5. WorkInv' /\ Acts(t, p)
  <2>1. PICK w : w = <<>> /\ Done(t, w)
    BY <1>2
  <2>. QED  BY <1>1, <1>2, <2>1, DoneWork DEF DLInv
<1>6. e \in Entry /\ o \in Obj /\ l \in List
  <2>1. WellFormed(x)
    BY <1>4 DEF Headed
  <2>2. x.e # NULL /\ x.o # NULL /\ x.l # NULL /\ x \in ItemSet
    BY <1>2, <1>3, <2>1 DEF WellFormed
  <2>. QED  BY <1>1, <2>2 DEF ItemSet
<1>7. TakenBy(x) = {e} /\ WantedBy(x) = {o}
  BY <1>1, <1>2, <1>3, <1>6 DEF TakenBy, Takes, WantedBy
<1>8. Taken(q) = {e} /\ Wanted(q) = Wanted(p) \cup {o}
  BY <1>4, <1>7 DEF Headed, Consists
<1>9. e \notin free /\ e \notin Placed /\ \A u \in Thread : u # t => e \notin Taken(todo[u])
  BY <1>1, <1>8 DEF DLInv, EntriesApart
<1>10. PICK os : Listed(heap, len, os)
  BY DEF DLInv, ListsInv
<1>11. \A m \in List : Linked(m) = Of(os[m]) /\ Linked(m) \subseteq Entry
  BY <1>10, LinkedIs
<1>12. \A m \in List : e \notin Linked(m) /\ e \notin Of(os[m])
  BY <1>6, <1>9, <1>11 DEF Placed
<1>13. ListsInv' /\ ListMoves(l, {e}, TRUE)
  <2>1. PICK Z : Z = {e}
    OBVIOUS
  <2>2. PICK gets \in BOOLEAN : gets = TRUE
    OBVIOUS
  <2>3. PICK s, E : s = (IF x.atBack THEN Append(os[l], e) ELSE <<e>> \o os[l]) /\ E = Of(os[l]) \cup {e}
    OBVIOUS
  <2>4. PICK b, g, n : b = x.atBack /\ g = heap' /\ n = len'
    OBVIOUS
  <2>5. /\ g = (IF b THEN dmbListPushBack(heap, l, e) ELSE dmbListPushFront(heap, l, e))
        /\ n = [len EXCEPT ![l] = @ + 1]
        /\ s = (IF b THEN Append(os[l], e) ELSE <<e>> \o os[l])
    BY <1>2, <2>3, <2>4
  <2>6. \A m \in List : e \notin Of(os[m])
    BY <1>12
  <2>7. Changed(g, n, os, l, s, Of(os[l]) \cup {e})
    BY <1>6, <1>10, <2>5, <2>6, ListPush
  <2>8. Changed(heap', len', os, l, s, E)
    BY <2>3, <2>4, <2>7
  <2>9. E = IF gets THEN Of(os[l]) \cup Z ELSE Of(os[l]) \ Z
    BY <2>1, <2>2, <2>3
  <2>10. ListsInv' /\ ListMoves(l, Z, gets)
    <3>1. Z \in SUBSET Entry /\ gets \in BOOLEAN /\ (~gets => Z \subseteq Of(os[l]))
      BY <1>6, <2>1, <2>2
    <3>. QED  BY <1>6, <1>10, <2>8, <2>9, <3>1, ListsMove
  <2>. QED  BY <2>1, <2>2, <2>10
<1>14. /\ \A m \in List : Linked(m) \subseteq Linked(m)'
       /\ Placed' = Placed \cup {e}
  BY <1>13 DEF ListMoves
<1>15. EntriesApart' /\ EntriesKept'
  <2>1. PICK Z, d : Z = {e} /\ d = "placed"
    OBVIOUS
  <2>2. Moved(t, Z, d, p)
    BY <1>1, <1>2, <1>4, <1>8, <1>9, <1>14, <2>1 DEF Moved
  <2>3. \A u \in Thread : u # t => Taken(todo[u]) \cap Z = {}
    BY <1>9, <2>1
  <2>. QED  BY <1>5, <1>6, <2>1, <2>2, <2>3, EntriesMove DEF DLInv
<1>16. \A u \in Thread : e \notin Releasing(todo[u]) /\ Releasing(todo'[u]) = Releasing(todo[u])
  <2>. SUFFICES ASSUME NEW u \in Thread
                PROVE  e \notin Releasing(todo[u]) /\ Releasing(todo'[u]) = Releasing(todo[u])
    OBVIOUS
  <2>1. CASE u = t
    BY <1>1, <1>4, <1>5, <2>1 DEF Acts
  <2>2. CASE u # t
    <3>1. PICK v : v = todo[u]
      OBVIOUS
    <3>2. Work(v)
      BY <3>1 DEF DLInv, WorkInv
    <3>3. Releasing(v) \subseteq Taken(v)
      BY <3>2, ReleasedTaken
    <3>. QED  BY <1>5, <1>9, <2>2, <3>1, <3>3 DEF Acts
  <2>. QED  BY <2>1, <2>2
<1>17. /\ obj \in [Entry -> Obj \cup {NULL}]
       /\ \A a \in Entry : obj[a] # NULL <=> a \in Placed \/ \E u \in Thread : a \in Releasing(todo[u])
  BY DEF DLInv, EntriesHold
<1>18. obj[e] = NULL /\ o # NULL
  BY <1>6, <1>9, <1>16, <1>17, DLListAssumption
<1>19. EntriesHold'
  <2>1. obj' \in [Entry -> Obj \cup {NULL}] /\ obj'[e] = o /\ \A a \in Entry : a # e => obj'[a] = obj[a]
    BY <1>2, <1>6, <1>17
  <2>2. \A a \in Entry : obj'[a] # NULL <=> a \in Placed' \/ \E u \in Thread : a \in Releasing(todo'[u])
    BY <1>14, <1>16, <1>17, <1>18, <2>1
  <2>. QED  BY <2>1, <2>2 DEF EntriesHold
<1>20. /\ ref \in [Obj -> Nat] /\ held \in [Thread -> [Obj -> Nat]]
       /\ \A r \in Obj : ref[r] = Cardinality(Pointing(obj, r)) + HeldSum(held, r)
  BY DEF DLInv, CountInv
<1>21. ref' \in [Obj -> Nat] /\ \A r \in Obj : ref'[r] = IF r = o THEN ref[r] + 1 ELSE ref[r]
  BY <1>2, <1>6, <1>20
<1>22. CountInv'
  <2>1. PointsMove(obj', obj, e, o)
    BY <1>2, <1>6, <1>17, PointingChanges
  <2>2. ASSUME NEW r \in Obj PROVE ref'[r] = Cardinality(Pointing(obj', r)) + HeldSum(held', r)
    <3>1. Cardinality(Pointing(obj, r)) \in Nat /\ HeldSum(held, r) \in Nat
      BY <1>20, PointingFinite, HeldAtLeast
    <3>2. HeldSum(held', r) = HeldSum(held, r)
      BY <1>2
    <3>3. obj[e] # r
      BY <1>18, DLListAssumption
    <3>4. Cardinality(Pointing(obj', r)) = Cardinality(Pointing(obj, r)) + (IF r = o THEN 1 ELSE 0)
      BY <2>1, <3>1, <3>3 DEF PointsMove
    <3>. QED  BY <1>20, <1>21, <3>1, <3>2, <3>4
  <2>. QED  BY <1>2, <1>20, <1>21, <2>2 DEF CountInv
<1>23. ref[o] \in Nat /\ ref[o] > 0
  <2>1. Holds(t, o)
    BY <1>1, <1>8 DEF DLInv, WantedInv
  <2>2. Referred(o)
    BY <1>11, <2>1 DEF Holds, Referred
  <2>. QED  BY <1>6, <2>2, ReferredCounted DEF DLInv
<1>24. LiveInv'
  <2>1. Doomed(p) = Doomed(todo[t])
    BY <1>1, <1>4
  <2>2. (\A r \in Obj : ref'[r] > 0 <=> ref[r] > 0) /\ \A r \in Obj : ref[r] = 0 <=> ref'[r] = 0
    BY <1>20, <1>21, <1>23
  <2>. QED  BY <1>2, <1>5, <2>1, <2>2, LiveStays DEF DLInv
<1>25. UsedInv'
  BY <1>2 DEF DLInv, UsedInv
<1>26. ASSUME NEW u \in Thread, NEW r, Holds(u, r) PROVE Holds(u, r)'
  <2>1. held[u][r] > 0 => held'[u][r] > 0
    BY <1>2
  <2>2. \A m \in List : Owner[m] = u => \A a \in Linked(m) : a \in Linked(m)' /\ obj'[a] = obj[a]
    BY <1>2, <1>6, <1>11, <1>12, <1>14, <1>17
  <2>. QED  BY <1>26, <2>1, <2>2, HoldsStays
<1>27. WantedInv'
  <2>1. \A r \in Wanted(p) : Holds(t, r)'
    BY <1>1, <1>8, <1>26 DEF DLInv, WantedInv
  <2>. QED  BY <1>5, <1>26, <2>1, WantedStays DEF DLInv
<1>. QED  BY <1>5, <1>13, <1>15, <1>19, <1>22, <1>24, <1>25, <1>27 DEF DLInv

-----------------------------------------------------------------------------
(* References that go.                                                     *)

(* The last reference goes, and the thread is to destroy the object.       *)
LEMMA LiveDrops ==
  ASSUME LiveInv, ref \in [Obj -> Nat], NEW o, o \in Obj, ref[o] > 0, ref' = [ref EXCEPT ![o] = @ - 1],
         live' = live, NEW t, t \in Thread, NEW q, Acts(t, q),
         Doomed(q) = IF ref[o] = 1 THEN Doomed(todo[t]) \cup {o} ELSE Doomed(todo[t])
  PROVE  LiveInv'
<1>. DEFINE D(u) == Doomed(todo[u])
            D2(u) == Doomed(todo'[u])
<1>1. /\ D2(t) = IF ref[o] = 1 THEN D(t) \cup {o} ELSE D(t)
      /\ \A u \in Thread : u # t => D2(u) = D(u)
  BY DEF Acts
<1>2. /\ live \in [Obj -> BOOLEAN]
      /\ \A r \in Obj : ref[r] > 0 => live[r]
      /\ \A u \in Thread : D(u) \subseteq Obj
      /\ \A u \in Thread : \A r \in D(u) : live[r] /\ ref[r] = 0
      /\ \A r \in Obj : live[r] /\ ref[r] = 0 => \E u \in Thread : r \in D(u)
      /\ \A u, v \in Thread : u # v => D(u) \cap D(v) = {}
  BY DEF LiveInv, Doomed
<1>3. \A r \in Obj : ref[r] \in Nat /\ ref'[r] = IF r = o THEN ref[r] - 1 ELSE ref[r]
  OBVIOUS
<1>. HIDE DEF D, D2
<1>4. live'[o] /\ \A u \in Thread : o \notin D(u)
  <2>1. ref[o] # 0
    BY <1>3
  <2>. QED  BY <1>2, <2>1
<1>5. \A r \in Obj : ref'[r] > 0 => live'[r]
  BY <1>2, <1>3
<1>6. \A u \in Thread : \A r \in D2(u) : live'[r] /\ ref'[r] = 0
  <2>. SUFFICES ASSUME NEW u \in Thread, NEW r \in D2(u) PROVE live'[r] /\ ref'[r] = 0
    OBVIOUS
  <2>1. CASE r \in D(u)
    <3>1. r # o /\ r \in Obj
      BY <1>2, <1>4, <2>1
    <3>. QED  BY <1>2, <1>3, <2>1, <3>1
  <2>2. CASE r \notin D(u)
    <3>1. r = o /\ ref[o] = 1
      BY <1>1, <2>2
    <3>. QED  BY <1>3, <1>4, <3>1
  <2>. QED  BY <2>1, <2>2
<1>7. ASSUME NEW r \in Obj, live'[r], ref'[r] = 0 PROVE \E u \in Thread : r \in D2(u)
  <2>1. CASE r = o
    <3>1. ref[o] = 1
      BY <1>3, <1>7, <2>1
    <3>. QED  BY <1>1, <2>1, <3>1
  <2>2. CASE r # o
    <3>1. PICK u \in Thread : r \in D(u)
      BY <1>2, <1>3, <1>7, <2>2
    <3>. QED  BY <1>1, <3>1
  <2>. QED  BY <2>1, <2>2
<1>8. ASSUME NEW u \in Thread, NEW v \in Thread, u # v PROVE D2(u) \cap D2(v) = {}
  BY <1>1, <1>2, <1>4, <1>8
<1>9. live' \in [Obj -> BOOLEAN]
  BY <1>2
<1>. QED  BY <1>5, <1>6, <1>7, <1>8, <1>9 DEF LiveInv, D2

LEMMA DestroyItemIs ==
  ASSUME NEW o, o \in Obj, NEW y, y = DestroyItem(o)
  PROVE  WellFormed(y) /\ y.act = "destroy" /\ y.o = o
<1>1. PICK yes \in BOOLEAN : yes = TRUE
  OBVIOUS
<1>2. y = [act |-> "destroy", l |-> NULL, atBack |-> yes, e |-> NULL, o |-> o]
  BY <1>1 DEF DestroyItem, Item
<1>3. y \in ItemSet
  BY <1>2 DEF ItemSet, PushActs
<1>4. o # NULL
  BY DLListAssumption
<1>. QED  BY <1>2, <1>3, <1>4 DEF WellFormed, PushActs

LEMMA DestroyIs ==
  ASSUME NEW o, o \in Obj, NEW y, y.act = "destroy", y.o = o
  PROVE  TakenBy(y) = {} /\ ReleasedBy(y) = {} /\ DoomedBy(y) = {o} /\ WantedBy(y) = {}
BY DEF TakenBy, Takes, ReleasedBy, DoomedBy, WantedBy, PushActs

LEMMA RetainKeeps ==
  ASSUME DLInv, NEW t, t \in Thread, NEW u, u \in Thread, NEW o, o \in Obj, dmbObjectRetain(t, u, o)
  PROVE  DLInv'
<1>1. /\ ref' = [ref EXCEPT ![o] = @ + 1] /\ held' = [held EXCEPT ![u][o] = @ + 1]
      /\ UNCHANGED listVars /\ obj' = obj /\ live' = live /\ free' = free /\ used' = used
  BY DEF dmbObjectRetain
<1>2. PICK q : q = <<>> /\ Call(t, q)
  BY DEF dmbObjectRetain
<1>3. Work(q) /\ Nothing(q)
  BY <1>2, NoWork
<1>4. WorkInv' /\ Acts(t, q) /\ Nothing(todo[t])
  BY <1>2, <1>3, CallWork DEF DLInv
<1>5. ListsInv' /\ SameLists
  BY <1>1, ListsFrame DEF DLInv
<1>6. EntriesApart' /\ EntriesKept'
  BY <1>1, <1>3, <1>4, <1>5, EntriesStay DEF DLInv, Nothing
<1>7. EntriesHold'
  <2>1. Placed' \cup Releasing(q) = Placed \cup Releasing(todo[t])
    BY <1>3, <1>4, <1>5 DEF SameLists, Nothing
  <2>. QED  BY <1>1, <1>4, <2>1, HoldStays DEF DLInv
<1>8. /\ ref \in [Obj -> Nat] /\ held \in [Thread -> [Obj -> Nat]]
      /\ \A r \in Obj : ref[r] = Cardinality(Pointing(obj, r)) + HeldSum(held, r)
  BY DEF DLInv, CountInv
<1>9. ref' \in [Obj -> Nat] /\ \A r \in Obj : ref'[r] = IF r = o THEN ref[r] + 1 ELSE ref[r]
  BY <1>1, <1>8
<1>10. CountInv'
  <2>1. PICK v : v = held[u][o] + 1
    OBVIOUS
  <2>2. v \in Nat /\ held[u][o] \in Nat /\ held' = [held EXCEPT ![u][o] = v]
    BY <1>1, <1>8, <2>1
  <2>3. HeldMoves(held', held, u, o, v)
    BY <1>8, <2>2, HeldChanges
  <2>4. ASSUME NEW r \in Obj PROVE ref'[r] = Cardinality(Pointing(obj', r)) + HeldSum(held', r)
    <3>1. Cardinality(Pointing(obj, r)) \in Nat /\ HeldSum(held, r) \in Nat /\ HeldSum(held, o) \in Nat
      BY <1>8, PointingFinite, HeldAtLeast
    <3>2. Pointing(obj', r) = Pointing(obj, r)
      BY <1>1
    <3>3. HeldSum(held', r) = IF r = o THEN HeldSum(held, o) + 1 ELSE HeldSum(held, r)
      <4>1. v - held[u][o] = 1
        BY <2>1, <2>2
      <4>. QED  BY <2>3, <3>1, <4>1 DEF HeldMoves
    <3>. QED  BY <1>8, <1>9, <3>1, <3>2, <3>3
  <2>. QED  BY <1>9, <2>3, <2>4 DEF CountInv, HeldMoves
<1>11. ref[o] \in Nat /\ ref[o] > 0
  <2>1. PICK os : Listed(heap, len, os)
    BY DEF DLInv, ListsInv
  <2>2. \A l \in List : Linked(l) \subseteq Entry
    BY <2>1, LinkedIs
  <2>3. Referred(o)
    BY <2>2 DEF dmbObjectRetain, Referred
  <2>. QED  BY <2>3, ReferredCounted DEF DLInv
<1>12. LiveInv'
  <2>1. Doomed(q) = Doomed(todo[t])
    BY <1>3, <1>4 DEF Nothing
  <2>2. (\A r \in Obj : ref'[r] > 0 <=> ref[r] > 0) /\ \A r \in Obj : ref[r] = 0 <=> ref'[r] = 0
    BY <1>8, <1>9, <1>11
  <2>. QED  BY <1>1, <1>4, <2>1, <2>2, LiveStays DEF DLInv
<1>13. UsedInv'
  BY <1>1 DEF DLInv, UsedInv
<1>14. ASSUME NEW v \in Thread, NEW r \in Obj, Holds(v, r) PROVE Holds(v, r)'
  <2>1. held[v][r] > 0 => held'[v][r] > 0
    BY <1>1, <1>8
  <2>2. \A l \in List : Owner[l] = v => \A e \in Linked(l) : e \in Linked(l)' /\ obj'[e] = obj[e]
    BY <1>1, <1>5 DEF SameLists
  <2>. QED  BY <1>14, <2>1, <2>2, HoldsStays
<1>15. WantedInv'
  <2>1. \A v \in Thread \ {t} : \A r \in Wanted(todo[v]) : Holds(v, r) => Holds(v, r)'
    BY <1>14 DEF Wanted
  <2>2. \A r \in Wanted(q) : Holds(t, r)'
    BY <1>3 DEF Nothing
  <2>. QED  BY <1>4, <2>1, <2>2, WantedStays DEF DLInv
<1>. QED  BY <1>4, <1>5, <1>6, <1>7, <1>10, <1>12, <1>13, <1>15 DEF DLInv

LEMMA ReleaseKeeps ==
  ASSUME DLInv, NEW t, t \in Thread, NEW o, o \in Obj, dmbObjectRelease(t, o)
  PROVE  DLInv'
<1>1. /\ held[t][o] > 0 /\ ref' = [ref EXCEPT ![o] = @ - 1] /\ held' = [held EXCEPT ![t][o] = @ - 1]
      /\ UNCHANGED listVars /\ obj' = obj /\ live' = live /\ free' = free /\ used' = used
  BY DEF dmbObjectRelease, Release
<1>2. PICK q, y : q = Destruction(o) /\ y = DestroyItem(o) /\ Call(t, q)
  BY DEF dmbObjectRelease
<1>3. WellFormed(y) /\ y.act = "destroy" /\ y.o = o
  BY <1>2, DestroyItemIs
<1>4. Work(q) /\ Taken(q) = {} /\ Releasing(q) = {} /\ Wanted(q) = {} /\ Doomed(q) = IF ref[o] = 1 THEN {o} ELSE {}
  <2>1. CASE ref[o] = 1
    <3>1. q = <<y>>
      BY <1>2, <2>1 DEF Destruction
    <3>2. Single(q, y)
      BY <1>3, <3>1, OneItem
    <3>3. TakenBy(y) = {} /\ DoomedBy(y) = {o} /\ WantedBy(y) = {}
      BY <1>3, DestroyIs
    <3>. QED  BY <2>1, <3>2, <3>3 DEF Single
  <2>2. CASE ref[o] # 1
    <3>1. q = <<>>
      BY <1>2, <2>2 DEF Destruction
    <3>2. Work(q) /\ Nothing(q)
      BY <3>1, NoWork
    <3>. QED  BY <2>2, <3>2 DEF Nothing
  <2>. QED  BY <2>1, <2>2
<1>5. WorkInv' /\ Acts(t, q) /\ Nothing(todo[t])
  BY <1>2, <1>4, CallWork DEF DLInv
<1>6. ListsInv' /\ SameLists
  BY <1>1, ListsFrame DEF DLInv
<1>7. EntriesApart' /\ EntriesKept'
  BY <1>1, <1>4, <1>5, <1>6, EntriesStay DEF DLInv, Nothing
<1>8. EntriesHold'
  <2>1. Placed' \cup Releasing(q) = Placed \cup Releasing(todo[t])
    BY <1>4, <1>5, <1>6 DEF SameLists, Nothing
  <2>. QED  BY <1>1, <1>5, <2>1, HoldStays DEF DLInv
<1>9. /\ ref \in [Obj -> Nat] /\ held \in [Thread -> [Obj -> Nat]]
      /\ \A r \in Obj : ref[r] = Cardinality(Pointing(obj, r)) + HeldSum(held, r)
  BY DEF DLInv, CountInv
<1>10. ref[o] > 0 /\ ref[o] \in Nat /\ held[t][o] \in Nat
  BY <1>1, ReferredCounted DEF DLInv, Referred
<1>11. ref' \in [Obj -> Nat] /\ \A r \in Obj : ref'[r] = IF r = o THEN ref[r] - 1 ELSE ref[r]
  BY <1>1, <1>9, <1>10
<1>12. CountInv'
  <2>1. PICK v : v = held[t][o] - 1
    OBVIOUS
  <2>2. v \in Nat /\ held' = [held EXCEPT ![t][o] = v]
    BY <1>1, <1>9, <1>10, <2>1
  <2>3. HeldMoves(held', held, t, o, v)
    BY <1>9, <2>2, HeldChanges
  <2>4. ASSUME NEW r \in Obj PROVE ref'[r] = Cardinality(Pointing(obj', r)) + HeldSum(held', r)
    <3>1. Cardinality(Pointing(obj, r)) \in Nat /\ HeldSum(held, r) \in Nat /\ HeldSum(held, o) \in Nat
      BY <1>9, PointingFinite, HeldAtLeast
    <3>2. Pointing(obj', r) = Pointing(obj, r)
      BY <1>1
    <3>3. HeldSum(held', r) = IF r = o THEN HeldSum(held, o) - 1 ELSE HeldSum(held, r)
      BY <1>10, <2>1, <2>3, <3>1 DEF HeldMoves
    <3>. QED  BY <1>9, <1>11, <3>1, <3>2, <3>3
  <2>. QED  BY <1>11, <2>3, <2>4 DEF CountInv, HeldMoves
<1>13. LiveInv'
  <2>1. Doomed(q) = IF ref[o] = 1 THEN Doomed(todo[t]) \cup {o} ELSE Doomed(todo[t])
    BY <1>4, <1>5 DEF Nothing
  <2>. QED  BY <1>1, <1>5, <1>9, <1>10, <2>1, LiveDrops DEF DLInv
<1>14. UsedInv'
  BY <1>1 DEF DLInv, UsedInv
<1>15. WantedInv'
  <2>1. ASSUME NEW u \in Thread \ {t}, NEW r \in Obj, Holds(u, r) PROVE Holds(u, r)'
    <3>1. held[u][r] > 0 => held'[u][r] > 0
      BY <1>1, <1>9
    <3>2. \A l \in List : Owner[l] = u => \A e \in Linked(l) : e \in Linked(l)' /\ obj'[e] = obj[e]
      BY <1>1, <1>6 DEF SameLists
    <3>. QED  BY <2>1, <3>1, <3>2, HoldsStays
  <2>2. \A u \in Thread \ {t} : \A r \in Wanted(todo[u]) : Holds(u, r) => Holds(u, r)'
    BY <2>1 DEF Wanted
  <2>3. \A r \in Wanted(q) : Holds(t, r)'
    BY <1>4
  <2>. QED  BY <1>5, <2>2, <2>3, WantedStays DEF DLInv
<1>. QED  BY <1>5, <1>6, <1>7, <1>8, <1>12, <1>13, <1>14, <1>15 DEF DLInv

(* The first entry of the work of destroyEntry loses its object.           *)
LEMMA ReleaseEntryKeeps ==
  ASSUME DLInv, NEW t, t \in Thread, ReleaseEntry(t)
  PROVE  DLInv'
<1>1. PICK q, x, p, e, o : q = todo[t] /\ x = Head(q) /\ p = Tail(q) /\ e = x.e /\ o = obj[e]
  OBVIOUS
<1>2. PICK y : y = DestroyItem(o)
  OBVIOUS
<1>3. /\ q # <<>> /\ x.act = "release" /\ obj' = [obj EXCEPT ![e] = NULL] /\ ref' = [ref EXCEPT ![o] = @ - 1]
      /\ Done(t, IF ref[o] = 1 THEN <<y>> ELSE <<>>)
      /\ UNCHANGED listVars /\ live' = live /\ held' = held /\ free' = free /\ used' = used
  BY <1>1, <1>2 DEF ReleaseEntry, Doing, Release, Destruction
<1>4. Work(q)
  BY <1>1 DEF DLInv, WorkInv
<1>5. Headed(q, x, p)
  BY <1>1, <1>3, <1>4, HeadOff
<1>6. WellFormed(x) /\ Calm(x, p) /\ Work(p) /\ Consists(q, x, p)
  BY <1>5 DEF Headed
<1>7. e \in Entry
  BY <1>1, <1>3, <1>6 DEF WellFormed, ItemSet
<1>8. TakenBy(x) = {} /\ ReleasedBy(x) = {e} /\ DoomedBy(x) = {} /\ WantedBy(x) = {}
  BY <1>1, <1>3, <1>7 DEF TakenBy, Takes, ReleasedBy, DoomedBy, WantedBy, PushActs
<1>9. e \notin Releasing(p)
  <2>1. ReleasedBy(x) \cap Releasing(p) = {}
    BY <1>1, <1>3, <1>4, ReleasedOnce
  <2>. QED  BY <1>8, <2>1
<1>10. Taken(q) = Taken(p) /\ Releasing(q) = Releasing(p) \cup {e} /\ Doomed(q) = Doomed(p) /\ Wanted(q) = Wanted(p)
  BY <1>6, <1>8 DEF Consists
<1>11. e \in Taken(q)
  <2>1. Releasing(q) \subseteq Taken(q)
    BY <1>4, ReleasedTaken
  <2>. QED  BY <1>10, <2>1
<1>12. e \notin Placed /\ \A u \in Thread : u # t => e \notin Releasing(todo[u])
  <2>1. e \notin Placed /\ \A u \in Thread : u # t => e \notin Taken(todo[u])
    BY <1>1, <1>11 DEF DLInv, EntriesApart
  <2>2. ASSUME NEW u \in Thread PROVE Releasing(todo[u]) \subseteq Taken(todo[u])
    <3>1. PICK v : v = todo[u]
      OBVIOUS
    <3>2. Work(v)
      BY <3>1 DEF DLInv, WorkInv
    <3>3. Releasing(v) \subseteq Taken(v)
      BY <3>2, ReleasedTaken
    <3>. QED  BY <3>1, <3>3
  <2>. QED  BY <2>1, <2>2
<1>13. /\ obj \in [Entry -> Obj \cup {NULL}]
       /\ \A a \in Entry : obj[a] # NULL <=> a \in Placed \/ \E u \in Thread : a \in Releasing(todo[u])
  BY DEF DLInv, EntriesHold
<1>14. o \in Obj /\ o # NULL
  BY <1>1, <1>7, <1>10, <1>13
<1>15. \E r : /\ WorkInv' /\ Acts(t, r) /\ Taken(r) = Taken(p) /\ Releasing(r) = Releasing(p)
              /\ Wanted(r) = Wanted(p) /\ Doomed(r) = IF ref[o] = 1 THEN Doomed(p) \cup {o} ELSE Doomed(p)
  <2>1. CASE ref[o] = 1
    <3>1. WellFormed(y) /\ y.act = "destroy" /\ y.o = o
      BY <1>2, <1>14, DestroyItemIs
    <3>2. TakenBy(y) = {} /\ ReleasedBy(y) = {} /\ DoomedBy(y) = {o} /\ WantedBy(y) = {}
      BY <1>14, <3>1, DestroyIs
    <3>3. Calm(y, p)
      BY <1>3, <1>6, <3>1 DEF Calm, PushActs
    <3>4. PICK r : r = <<y>> \o p
      OBVIOUS
    <3>5. Headed(r, y, p) /\ WorkInv' /\ Acts(t, r)
      <4>1. TakenBy(y) \cap Taken(p) = {} /\ y.act # "release" /\ Done(t, <<y>>)
        BY <1>3, <2>1, <3>1, <3>2
      <4>. QED  BY <1>1, <1>3, <3>1, <3>3, <3>4, <4>1, ChangedWork DEF DLInv
    <3>. QED  BY <2>1, <3>2, <3>5 DEF Headed, Consists
  <2>2. CASE ref[o] # 1
    <3>1. PICK w : w = <<>> /\ Done(t, w)
      BY <1>3, <2>2
    <3>2. WorkInv' /\ Acts(t, p)
      BY <1>1, <1>3, <3>1, DoneWork DEF DLInv
    <3>. QED  BY <2>2, <3>2
  <2>. QED  BY <2>1, <2>2
<1>16. PICK r : /\ WorkInv' /\ Acts(t, r) /\ Taken(r) = Taken(p) /\ Releasing(r) = Releasing(p)
                /\ Wanted(r) = Wanted(p) /\ Doomed(r) = IF ref[o] = 1 THEN Doomed(p) \cup {o} ELSE Doomed(p)
  BY <1>15
<1>17. ListsInv' /\ SameLists
  BY <1>3, ListsFrame DEF DLInv
<1>18. EntriesApart' /\ EntriesKept'
  BY <1>1, <1>3, <1>10, <1>16, <1>17, EntriesStay DEF DLInv
<1>19. EntriesHold'
  <2>1. obj' \in [Entry -> Obj \cup {NULL}] /\ obj'[e] = NULL /\ \A a \in Entry : a # e => obj'[a] = obj[a]
    BY <1>3, <1>7, <1>13
  <2>2. \A u \in Thread : Releasing(todo'[u]) = Releasing(todo[u]) \ {e}
    BY <1>1, <1>9, <1>10, <1>12, <1>16 DEF Acts
  <2>3. \A a \in Entry : obj'[a] # NULL <=> a \in Placed' \/ \E u \in Thread : a \in Releasing(todo'[u])
    BY <1>12, <1>13, <1>17, <2>1, <2>2 DEF SameLists
  <2>. QED  BY <2>1, <2>3 DEF EntriesHold
<1>20. /\ ref \in [Obj -> Nat] /\ held \in [Thread -> [Obj -> Nat]]
       /\ \A a \in Obj : ref[a] = Cardinality(Pointing(obj, a)) + HeldSum(held, a)
  BY DEF DLInv, CountInv
<1>21. ref[o] > 0 /\ ref[o] \in Nat
  <2>1. Referred(o)
    BY <1>1, <1>7 DEF Referred
  <2>. QED  BY <1>14, <2>1, ReferredCounted DEF DLInv
<1>22. ref' \in [Obj -> Nat] /\ \A a \in Obj : ref'[a] = IF a = o THEN ref[a] - 1 ELSE ref[a]
  BY <1>3, <1>14, <1>20, <1>21
<1>23. CountInv'
  <2>1. PICK v : v = NULL
    OBVIOUS
  <2>2. PointsMove(obj', obj, e, v)
    BY <1>3, <1>7, <1>13, <2>1, PointingChanges
  <2>3. ASSUME NEW a \in Obj PROVE ref'[a] = Cardinality(Pointing(obj', a)) + HeldSum(held', a)
    <3>1. Cardinality(Pointing(obj, a)) \in Nat /\ HeldSum(held, a) \in Nat
      BY <1>20, PointingFinite, HeldAtLeast
    <3>2. HeldSum(held', a) = HeldSum(held, a)
      BY <1>3
    <3>3. v # a
      BY <2>1, DLListAssumption
    <3>4. Cardinality(Pointing(obj', a)) = Cardinality(Pointing(obj, a)) - (IF a = o THEN 1 ELSE 0)
      BY <1>1, <2>2, <3>1, <3>3 DEF PointsMove
    <3>. QED  BY <1>20, <1>22, <3>1, <3>2, <3>4
  <2>. QED  BY <1>3, <1>20, <1>22, <2>3 DEF CountInv
<1>24. LiveInv'
  <2>1. Doomed(r) = IF ref[o] = 1 THEN Doomed(todo[t]) \cup {o} ELSE Doomed(todo[t])
    BY <1>1, <1>10, <1>16
  <2>. QED  BY <1>3, <1>14, <1>16, <1>20, <1>21, <2>1, LiveDrops DEF DLInv
<1>25. UsedInv'
  BY <1>3 DEF DLInv, UsedInv
<1>26. ASSUME NEW u \in Thread, NEW a, Holds(u, a) PROVE Holds(u, a)'
  <2>1. held[u][a] > 0 => held'[u][a] > 0
    BY <1>3
  <2>2. PICK os : Listed(heap, len, os)
    BY DEF DLInv, ListsInv
  <2>3. \A m \in List : Linked(m) \subseteq Entry
    BY <2>2, LinkedIs
  <2>4. \A m \in List : e \notin Linked(m)
    BY <1>7, <1>12 DEF Placed
  <2>5. \A m \in List : Owner[m] = u => \A b \in Linked(m) : b \in Linked(m)' /\ obj'[b] = obj[b]
    BY <1>3, <1>7, <1>13, <1>17, <2>3, <2>4 DEF SameLists
  <2>. QED  BY <1>26, <2>1, <2>5, HoldsStays
<1>27. WantedInv'
  <2>1. \A a \in Wanted(r) : Holds(t, a)'
    BY <1>1, <1>10, <1>16, <1>26 DEF DLInv, WantedInv
  <2>. QED  BY <1>16, <1>26, <2>1, WantedStays DEF DLInv
<1>. QED  BY <1>16, <1>17, <1>18, <1>19, <1>23, <1>24, <1>25, <1>27 DEF DLInv

(* The same lists on another heap.                                         *)
LEMMA ListsSame ==
  ASSUME NEW os, Listed(heap, len, os), Listed(heap', len', os)
  PROVE  ListsInv' /\ SameLists
<1>1. ListsInv'
  BY DEF ListsInv
<1>2. LinksTo(heap, len, os) /\ LinksTo(heap', len', os)
  BY LinksAre
<1>3. \A l \in List : Linked(l)' = Linked(l)
  BY <1>2 DEF LinksTo, Linked, Order
<1>4. Placed' = Placed
  BY <1>3 DEF Placed
<1>. QED  BY <1>1, <1>3, <1>4 DEF SameLists

LEMMA FreeEntryKeeps ==
  ASSUME DLInv, NEW t, t \in Thread, FreeEntry(t)
  PROVE  DLInv'
<1>1. PICK q, x, p, e : q = todo[t] /\ x = Head(q) /\ p = Tail(q) /\ e = x.e
  OBVIOUS
<1>2. /\ q # <<>> /\ x.act = "free" /\ used' = used - 1 /\ free' = free \cup {e} /\ heap' = dmbNodeInit(heap, e)
      /\ Done(t, <<>>) /\ len' = len /\ obj' = obj /\ live' = live /\ ref' = ref /\ held' = held
  BY <1>1 DEF FreeEntry, Doing, refVars
<1>3. Headed(q, x, p) /\ WorkInv' /\ Acts(t, p)
  <2>1. PICK w : w = <<>> /\ Done(t, w)
    BY <1>2
  <2>. QED  BY <1>1, <1>2, <2>1, DoneWork DEF DLInv
<1>4. WellFormed(x) /\ Consists(q, x, p) /\ TakenBy(x) \cap Taken(p) = {}
  BY <1>3 DEF Headed
<1>5. e \in Entry
  BY <1>1, <1>2, <1>4 DEF WellFormed, ItemSet
<1>6. TakenBy(x) = {e} /\ ReleasedBy(x) = {} /\ DoomedBy(x) = {} /\ WantedBy(x) = {}
  BY <1>1, <1>2, <1>5 DEF TakenBy, Takes, ReleasedBy, DoomedBy, WantedBy, PushActs
<1>7. /\ Taken(q) = Taken(p) \cup {e} /\ e \notin Taken(p)
      /\ Releasing(p) = Releasing(q) /\ Doomed(p) = Doomed(q) /\ Wanted(p) = Wanted(q)
  BY <1>4, <1>6 DEF Consists
<1>8. e \notin free /\ e \notin Placed /\ \A u \in Thread : u # t => e \notin Taken(todo[u])
  BY <1>1, <1>7 DEF DLInv, EntriesApart
<1>9. PICK os : Listed(heap, len, os)
  BY DEF DLInv, ListsInv
<1>10. ListsInv' /\ SameLists
  <2>1. \A m \in List : e \notin Of(os[m])
    <3>1. \A m \in List : Linked(m) = Of(os[m])
      BY <1>9, LinkedIs
    <3>. QED  BY <1>5, <1>8, <3>1 DEF Placed
  <2>2. PICK g : g = heap'
    OBVIOUS
  <2>3. Listed(g, len, os)
    <3>1. g = dmbNodeInit(heap, e)
      BY <1>2, <2>2
    <3>. QED  BY <1>5, <1>9, <2>1, <3>1, ListFree
  <2>4. Listed(heap', len', os)
    BY <1>2, <2>2, <2>3
  <2>. QED  BY <1>9, <2>4, ListsSame
<1>11. EntriesApart' /\ EntriesKept'
  <2>1. PICK Z, d : Z = {e} /\ d = "free"
    OBVIOUS
  <2>2. Moved(t, Z, d, p)
    BY <1>1, <1>2, <1>7, <1>8, <1>10, <2>1 DEF Moved, SameLists
  <2>3. \A u \in Thread : u # t => Taken(todo[u]) \cap Z = {}
    BY <1>8, <2>1
  <2>. QED  BY <1>3, <1>5, <2>1, <2>2, <2>3, EntriesMove DEF DLInv
<1>12. EntriesHold'
  <2>1. Placed' \cup Releasing(p) = Placed \cup Releasing(todo[t])
    BY <1>1, <1>7, <1>10 DEF SameLists
  <2>. QED  BY <1>2, <1>3, <2>1, HoldStays DEF DLInv
<1>13. CountInv'
  BY <1>2 DEF DLInv, CountInv
<1>14. LiveInv'
  <2>1. Doomed(p) = Doomed(todo[t])
    BY <1>1, <1>7
  <2>. QED  BY <1>2, <1>3, <2>1, LiveStays DEF DLInv
<1>15. UsedInv'
  <2>1. PICK X, n : X = Entry \ free /\ n = Cardinality({o \in Obj : live[o]})
    OBVIOUS
  <2>2. Entry \ free' = X \ {e} /\ e \in X
    BY <1>2, <1>5, <1>8, <2>1
  <2>3. IsFiniteSet(X) /\ Cardinality(X) \in Nat /\ n \in Nat
    BY <2>1, FS_Subset, FS_CardinalityType, DLListAssumption
  <2>4. Cardinality(X \ {e}) = Cardinality(X) - 1
    BY <2>2, <2>3, FS_RemoveElement
  <2>5. used = Cardinality(X) + n
    BY <2>1 DEF DLInv, UsedInv
  <2>6. used' = Cardinality(X \ {e}) + n
    BY <1>2, <2>3, <2>4, <2>5
  <2>. QED  BY <1>2, <2>1, <2>2, <2>6 DEF UsedInv
<1>16. ASSUME NEW u \in Thread, NEW o, Holds(u, o) PROVE Holds(u, o)'
  <2>1. held[u][o] > 0 => held'[u][o] > 0
    BY <1>2
  <2>2. \A l \in List : Owner[l] = u => \A a \in Linked(l) : a \in Linked(l)' /\ obj'[a] = obj[a]
    BY <1>2, <1>10 DEF SameLists
  <2>. QED  BY <1>16, <2>1, <2>2, HoldsStays
<1>17. WantedInv'
  <2>1. \A o \in Wanted(p) : Holds(t, o)'
    BY <1>1, <1>7, <1>16 DEF DLInv, WantedInv
  <2>. QED  BY <1>3, <1>16, <2>1, WantedStays DEF DLInv
<1>. QED  BY <1>3, <1>10, <1>11, <1>12, <1>13, <1>14, <1>15, <1>17 DEF DLInv

LEMMA DestroyKeeps ==
  ASSUME DLInv, NEW t, t \in Thread, dmbDestroyIntObject(t)
  PROVE  DLInv'
<1>0. PICK no \in BOOLEAN : no = FALSE
  OBVIOUS
<1>1. PICK q, x, p, o : q = todo[t] /\ x = Head(q) /\ p = Tail(q) /\ o = x.o
  OBVIOUS
<1>2. /\ q # <<>> /\ x.act = "destroy" /\ used' = used - 1 /\ live' = [live EXCEPT ![o] = no]
      /\ Done(t, <<>>) /\ UNCHANGED listVars /\ obj' = obj /\ ref' = ref /\ held' = held /\ free' = free
  BY <1>0, <1>1 DEF dmbDestroyIntObject, Doing
<1>3. Headed(q, x, p) /\ WorkInv' /\ Acts(t, p)
  <2>1. PICK w : w = <<>> /\ Done(t, w)
    BY <1>2
  <2>. QED  BY <1>1, <1>2, <2>1, DoneWork DEF DLInv
<1>4. WellFormed(x) /\ Consists(q, x, p) /\ Calm(x, p)
  BY <1>3 DEF Headed
<1>5. o \in Obj
  BY <1>1, <1>2, <1>4 DEF WellFormed, ItemSet
<1>6. TakenBy(x) = {} /\ ReleasedBy(x) = {} /\ DoomedBy(x) = {o} /\ WantedBy(x) = {}
  BY <1>1, <1>2, <1>5, DestroyIs
<1>7. Doomed(p) = {}
  BY <1>4 DEF Calm, Doomed
<1>8. Taken(p) = Taken(q) /\ Releasing(p) = Releasing(q) /\ Wanted(p) = Wanted(q) /\ Doomed(q) = {o}
  BY <1>4, <1>6, <1>7 DEF Consists
<1>9. ListsInv' /\ SameLists
  BY <1>2, ListsFrame DEF DLInv
<1>10. EntriesApart' /\ EntriesKept'
  BY <1>1, <1>2, <1>3, <1>8, <1>9, EntriesStay DEF DLInv
<1>11. EntriesHold'
  <2>1. Placed' \cup Releasing(p) = Placed \cup Releasing(todo[t])
    BY <1>1, <1>8, <1>9 DEF SameLists
  <2>. QED  BY <1>2, <1>3, <2>1, HoldStays DEF DLInv
<1>12. CountInv'
  BY <1>2 DEF DLInv, CountInv
<1>. DEFINE D(u) == Doomed(todo[u])
            D2(u) == Doomed(todo'[u])
<1>13. /\ live \in [Obj -> BOOLEAN]
       /\ \A r \in Obj : ref[r] > 0 => live[r]
       /\ \A u \in Thread : D(u) \subseteq Obj
       /\ \A u \in Thread : \A r \in D(u) : live[r] /\ ref[r] = 0
       /\ \A r \in Obj : live[r] /\ ref[r] = 0 => \E u \in Thread : r \in D(u)
       /\ \A u, v \in Thread : u # v => D(u) \cap D(v) = {}
  BY DEF DLInv, LiveInv, Doomed
<1>14. D(t) = {o} /\ D2(t) = {} /\ \A u \in Thread : u # t => D2(u) = D(u)
  BY <1>1, <1>3, <1>7, <1>8 DEF Acts
<1>15. live' \in [Obj -> BOOLEAN] /\ ~live'[o] /\ \A r \in Obj \ {o} : live'[r] = live[r]
  BY <1>0, <1>2, <1>5, <1>13
<1>16. live[o] /\ ref[o] = 0
  BY <1>13, <1>14
<1>17. LiveInv'
  <2>. HIDE DEF D, D2
  <2>1. \A r \in Obj : ref'[r] > 0 => live'[r]
    BY <1>2, <1>13, <1>15, <1>16
  <2>2. \A u \in Thread : \A r \in D2(u) : live'[r] /\ ref'[r] = 0
    BY <1>2, <1>13, <1>14, <1>15
  <2>3. \A r \in Obj : live'[r] /\ ref'[r] = 0 => \E u \in Thread : r \in D2(u)
    <3>. SUFFICES ASSUME NEW r \in Obj, live'[r], ref'[r] = 0 PROVE \E u \in Thread : r \in D2(u)
      OBVIOUS
    <3>1. r # o
      BY <1>15
    <3>2. PICK u \in Thread : r \in D(u)
      BY <1>2, <1>13, <1>15, <3>1
    <3>. QED  BY <1>14, <3>1, <3>2
  <2>4. \A u, v \in Thread : u # v => D2(u) \cap D2(v) = {}
    BY <1>13, <1>14
  <2>. QED  BY <1>15, <2>1, <2>2, <2>3, <2>4 DEF LiveInv, D2
<1>18. UsedInv'
  <2>1. PICK X, n : X = {r \in Obj : live[r]} /\ n = Cardinality(Entry \ free)
    OBVIOUS
  <2>2. {r \in Obj : live'[r]} = X \ {o} /\ o \in X
    BY <1>5, <1>15, <1>16, <2>1
  <2>3. IsFiniteSet(X) /\ Cardinality(X) \in Nat /\ n \in Nat
    BY <2>1, FS_Subset, FS_CardinalityType, DLListAssumption
  <2>4. Cardinality(X \ {o}) = Cardinality(X) - 1
    BY <2>2, <2>3, FS_RemoveElement
  <2>5. used = n + Cardinality(X)
    BY <2>1 DEF DLInv, UsedInv
  <2>6. used' = n + Cardinality(X \ {o})
    BY <1>2, <2>3, <2>4, <2>5
  <2>. QED  BY <1>2, <2>1, <2>2, <2>6 DEF UsedInv
<1>19. ASSUME NEW u \in Thread, NEW r, Holds(u, r) PROVE Holds(u, r)'
  <2>1. held[u][r] > 0 => held'[u][r] > 0
    BY <1>2
  <2>2. \A l \in List : Owner[l] = u => \A a \in Linked(l) : a \in Linked(l)' /\ obj'[a] = obj[a]
    BY <1>2, <1>9 DEF SameLists
  <2>. QED  BY <1>19, <2>1, <2>2, HoldsStays
<1>20. WantedInv'
  <2>1. \A r \in Wanted(p) : Holds(t, r)'
    BY <1>1, <1>8, <1>19 DEF DLInv, WantedInv
  <2>. QED  BY <1>3, <1>19, <2>1, WantedStays DEF DLInv
<1>. QED  BY <1>3, <1>9, <1>10, <1>11, <1>12, <1>17, <1>18, <1>20 DEF DLInv

-----------------------------------------------------------------------------
(* Entries that leave a list.                                              *)

(* Another thread goes on to hold what it does.                            *)
LEMMA OthersHold ==
  ASSUME NEW t, NEW l, Owner[l] = t, NEW Z, ListMoves(l, Z, FALSE), \A m \in List : m # l => Linked(m) \cap Z = {},
         \A m \in List : Linked(m) \subseteq Entry, NEW u, u \in Thread, u # t, NEW o,
         held[u][o] > 0 => held'[u][o] > 0, \A a \in Entry \ Z : obj'[a] = obj[a], Holds(u, o)
  PROVE  Holds(u, o)'
<1>1. \A m \in List : Owner[m] = u => m # l
  OBVIOUS
<1>2. \A m \in List : Owner[m] = u => \A a \in Linked(m) : a \in Linked(m)' /\ obj'[a] = obj[a]
  BY <1>1 DEF ListMoves
<1>. QED  BY <1>2, HoldsStays

LEMMA DropKeeps ==
  ASSUME DLInv, NEW t, t \in Thread, NEW l, l \in List, Owner[l] = t, NEW os, Listed(heap, len, os),
         NEW met, NEW s, Removal(heap', len', os, l, met, s), NEW d, d = destroyEntry(met), Call(t, d),
         UNCHANGED <<refVars, free, used>>
  PROVE  DLInv'
<1>1. PICK Z \in SUBSET Of(os[l]) : Among(met, Z) /\ Apartness(met) /\ Changed(heap', len', os, l, s, Of(os[l]) \ Z)
  BY DEF Removal
<1>2. obj' = obj /\ live' = live /\ ref' = ref /\ held' = held /\ free' = free /\ used' = used
  BY DEF refVars
<1>3. \A m \in List : Linked(m) = Of(os[m]) /\ Linked(m) \subseteq Entry
  BY LinkedIs
<1>4. Z \in SUBSET Entry /\ Z \subseteq Placed
  BY <1>1, <1>3 DEF Placed
<1>5. \A m \in List : m # l => Linked(m) \cap Z = {}
  <2>1. \A m \in List : m # l => Of(os[l]) \cap Of(os[m]) = {}
    BY ListsApart
  <2>. QED  BY <1>1, <1>3, <2>1
<1>6. Destroying(d, Z)
  BY <1>1, <1>4, DestroyWork
<1>7. WorkInv' /\ Acts(t, d) /\ Nothing(todo[t])
  BY <1>6, CallWork DEF DLInv, Destroying
<1>8. ListsInv' /\ ListMoves(l, Z, FALSE)
  <2>1. PICK gets \in BOOLEAN : gets = FALSE
    OBVIOUS
  <2>2. PICK E : E = Of(os[l]) \ Z
    OBVIOUS
  <2>3. E = IF gets THEN Of(os[l]) \cup Z ELSE Of(os[l]) \ Z
    BY <2>1, <2>2
  <2>4. Changed(heap', len', os, l, s, E)
    BY <1>1, <2>2
  <2>5. Z \in SUBSET Entry /\ gets \in BOOLEAN /\ (~gets => Z \subseteq Of(os[l]))
    BY <1>1, <1>4, <2>1
  <2>6. ListsInv' /\ ListMoves(l, Z, gets)
    BY <2>3, <2>4, <2>5, ListsMove
  <2>. QED  BY <2>1, <2>6
<1>9. Placed' = Placed \ Z
  BY <1>8 DEF ListMoves
<1>10. EntriesApart' /\ EntriesKept'
  <2>1. PICK c : c = "taken"
    OBVIOUS
  <2>2. Moved(t, Z, c, d)
    BY <1>2, <1>4, <1>6, <1>7, <1>9, <2>1 DEF Moved, Destroying, Nothing, DLInv, EntriesApart
  <2>3. \A u \in Thread : u # t => Taken(todo[u]) \cap Z = {}
    BY <1>4 DEF DLInv, EntriesApart
  <2>. QED  BY <1>4, <1>7, <2>1, <2>2, <2>3, EntriesMove DEF DLInv
<1>11. EntriesHold'
  <2>1. Placed' \cup Releasing(d) = Placed \cup Releasing(todo[t])
    BY <1>4, <1>6, <1>7, <1>9 DEF Destroying, Nothing
  <2>. QED  BY <1>2, <1>7, <2>1, HoldStays DEF DLInv
<1>12. CountInv'
  BY <1>2 DEF DLInv, CountInv
<1>13. LiveInv'
  <2>1. Doomed(d) = Doomed(todo[t])
    BY <1>6, <1>7 DEF Destroying, Nothing
  <2>. QED  BY <1>2, <1>7, <2>1, LiveStays DEF DLInv
<1>14. UsedInv'
  BY <1>2 DEF DLInv, UsedInv
<1>15. WantedInv'
  <2>1. \A u \in Thread \ {t} : \A o \in Wanted(todo[u]) : Holds(u, o) => Holds(u, o)'
    BY <1>2, <1>3, <1>5, <1>8, OthersHold
  <2>2. \A o \in Wanted(d) : Holds(t, o)'
    BY <1>6 DEF Destroying
  <2>. QED  BY <1>7, <2>1, <2>2, WantedStays DEF DLInv
<1>. QED  BY <1>7, <1>8, <1>10, <1>11, <1>12, <1>13, <1>14, <1>15 DEF DLInv

LEMMA RemoveRangeKeepsIt ==
  ASSUME DLInv, NEW t, t \in Thread, NEW l, l \in List, Owner[l] = t, NEW i, i \in Nat, NEW j, j \in Nat,
         dmbDLListRemoveRange(t, l, i, j)
  PROVE  DLInv'
<1>1. PICK os : Listed(heap, len, os)
  BY DEF DLInv, ListsInv
<1>2. PICK r, met, d : r = Loop(heap, l, len[l], i, j, TRUE) /\ met = r.met /\ d = destroyEntry(met)
  OBVIOUS
<1>3. /\ i <= j /\ j < len[l] /\ heap' = r.h /\ len' = [len EXCEPT ![l] = @ - Len(r.met)] /\ Call(t, d)
      /\ UNCHANGED <<refVars, free, used>>
  BY <1>2 DEF dmbDLListRemoveRange
<1>4. PICK s : s = Cut(os[l], i, j + 1)
  OBVIOUS
<1>5. Removal(r.h, len', os, l, r.met, Cut(os[l], i, j + 1))
  BY <1>1, <1>2, <1>3, ListRemoveRange
<1>6. Removal(heap', len', os, l, met, s)
  BY <1>2, <1>3, <1>4, <1>5
<1>. QED  BY <1>1, <1>2, <1>3, <1>6, DropKeeps

LEMMA ClearKeeps ==
  ASSUME DLInv, NEW t, t \in Thread, NEW l, l \in List, Owner[l] = t, dmbDLListClear(t, l)
  PROVE  DLInv'
<1>1. PICK os : Listed(heap, len, os)
  BY DEF DLInv, ListsInv
<1>2. PICK met, d, s : met = os[l] /\ d = destroyEntry(met) /\ s = <<>>
  OBVIOUS
<1>3. Order(l) = os[l]
  <2>1. ListAt(heap, len, os, l)
    BY <1>1, ListIs
  <2>. QED  BY <2>1 DEF ListAt, Order
<1>4. /\ heap' = Emptied(heap, l, len[l]) /\ len' = [len EXCEPT ![l] = 0] /\ Call(t, d)
      /\ UNCHANGED <<refVars, free, used>>
  BY <1>2, <1>3 DEF dmbDLListClear
<1>5. Removal(heap', len', os, l, os[l], <<>>)
  BY <1>1, <1>4, ListClear
<1>6. Removal(heap', len', os, l, met, s)
  BY <1>2, <1>5
<1>. QED  BY <1>1, <1>2, <1>4, <1>6, DropKeeps

LEMMA FreeItemIs ==
  ASSUME NEW e, e \in Entry, NEW b, b \in BOOLEAN, NEW y, y = Item("free", NULL, b, e, NULL)
  PROVE  WellFormed(y) /\ y.act = "free" /\ y.e = e
<1>2. y = [act |-> "free", l |-> NULL, atBack |-> b, e |-> e, o |-> NULL]
  BY DEF Item
<1>3. y \in ItemSet
  BY <1>2 DEF ItemSet, PushActs
<1>4. e # NULL
  BY DLListAssumption
<1>. QED  BY <1>2, <1>3, <1>4 DEF WellFormed, PushActs

LEMMA PopKeeps ==
  ASSUME DLInv, NEW t, t \in Thread, NEW l, l \in List, Owner[l] = t, NEW atBack, atBack \in BOOLEAN,
         dmbDLListPop(t, l, atBack)
  PROVE  DLInv'
<1>1. PICK e, o, y, q : /\ e = (IF atBack THEN LastNode(heap, l) ELSE FirstNode(heap, l)) /\ o = obj[e]
                        /\ y = Item("free", NULL, TRUE, e, NULL) /\ q = <<y>>
  OBVIOUS
<1>2. /\ ~dmbListIsEmpty(heap, l)
      /\ heap' = (IF atBack THEN dmbListPopBack(heap, l) ELSE dmbListPopFront(heap, l))
      /\ len' = [len EXCEPT ![l] = @ - 1] /\ held' = [held EXCEPT ![t][o] = @ + 1]
      /\ obj' = [obj EXCEPT ![e] = NULL] /\ Call(t, q)
      /\ live' = live /\ ref' = ref /\ free' = free /\ used' = used
  BY <1>1 DEF dmbDLListPop
<1>3. PICK os : Listed(heap, len, os)
  BY DEF DLInv, ListsInv
<1>4. PICK g, n : g = heap' /\ n = len'
  OBVIOUS
<1>5. Popped(heap, g, n, os, l, atBack, e)
  <2>1. g = (IF atBack THEN dmbListPopBack(heap, l) ELSE dmbListPopFront(heap, l)) /\ n = [len EXCEPT ![l] = @ - 1]
    BY <1>2, <1>4
  <2>. QED  BY <1>1, <1>2, <1>3, <2>1, ListPop
<1>6. e \in Of(os[l]) /\ \E s : Changed(heap', len', os, l, s, Of(os[l]) \ {e})
  BY <1>4, <1>5 DEF Popped
<1>7. \A m \in List : Linked(m) = Of(os[m]) /\ Linked(m) \subseteq Entry
  BY <1>3, LinkedIs
<1>8. PICK Z : Z = {e}
  OBVIOUS
<1>9. e \in Entry /\ e \in Placed /\ Z \in SUBSET Entry /\ Z \subseteq Placed
  BY <1>6, <1>7, <1>8 DEF Placed
<1>10. \A m \in List : m # l => Linked(m) \cap Z = {}
  <2>1. \A m \in List : m # l => Of(os[l]) \cap Of(os[m]) = {}
    BY <1>3, ListsApart
  <2>. QED  BY <1>6, <1>7, <1>8, <2>1
<1>11. ListsInv' /\ ListMoves(l, Z, FALSE)
  <2>1. PICK gets \in BOOLEAN : gets = FALSE
    OBVIOUS
  <2>2. PICK s, E : E = Of(os[l]) \ Z /\ Changed(heap', len', os, l, s, E)
    BY <1>6, <1>8
  <2>3. E = IF gets THEN Of(os[l]) \cup Z ELSE Of(os[l]) \ Z
    BY <2>1, <2>2
  <2>5. Z \in SUBSET Entry /\ gets \in BOOLEAN /\ (~gets => Z \subseteq Of(os[l]))
    BY <1>6, <1>8, <1>9, <2>1
  <2>6. ListsInv' /\ ListMoves(l, Z, gets)
    BY <1>3, <2>2, <2>3, <2>5, ListsMove
  <2>. QED  BY <2>1, <2>6
<1>12. Placed' = Placed \ Z
  BY <1>11 DEF ListMoves
<1>13. WellFormed(y) /\ y.act = "free" /\ y.e = e
  <2>1. PICK yes \in BOOLEAN : yes = TRUE
    OBVIOUS
  <2>2. y = Item("free", NULL, yes, e, NULL)
    BY <1>1, <2>1
  <2>. QED  BY <1>9, <2>2, FreeItemIs
<1>14. Single(q, y)
  BY <1>1, <1>13, OneItem
<1>15. TakenBy(y) = Z /\ DoomedBy(y) = {} /\ WantedBy(y) = {}
  BY <1>8, <1>9, <1>13 DEF TakenBy, Takes, DoomedBy, WantedBy, PushActs
<1>16. Taken(q) = Z /\ Releasing(q) = {} /\ Doomed(q) = {} /\ Wanted(q) = {}
  BY <1>14, <1>15 DEF Single
<1>17. WorkInv' /\ Acts(t, q) /\ Nothing(todo[t])
  BY <1>2, <1>14, CallWork DEF DLInv, Single
<1>18. \A u \in Thread : Taken(todo[u]) \cap Z = {}
  BY <1>9 DEF DLInv, EntriesApart
<1>19. EntriesApart' /\ EntriesKept'
  <2>1. PICK c : c = "taken"
    OBVIOUS
  <2>2. Moved(t, Z, c, q)
    BY <1>2, <1>9, <1>12, <1>16, <1>17, <2>1 DEF Moved, Nothing, DLInv, EntriesApart
  <2>. QED  BY <1>9, <1>17, <1>18, <2>1, <2>2, EntriesMove DEF DLInv
<1>20. \A u \in Thread : e \notin Releasing(todo[u]) /\ Releasing(todo'[u]) = Releasing(todo[u])
  <2>. SUFFICES ASSUME NEW u \in Thread
                PROVE  e \notin Releasing(todo[u]) /\ Releasing(todo'[u]) = Releasing(todo[u])
    OBVIOUS
  <2>1. PICK v : v = todo[u]
    OBVIOUS
  <2>2. Work(v)
    BY <2>1 DEF DLInv, WorkInv
  <2>3. Releasing(v) \subseteq Taken(v)
    BY <2>2, ReleasedTaken
  <2>4. e \notin Releasing(todo[u])
    BY <1>8, <1>18, <2>1, <2>3
  <2>5. Releasing(todo'[u]) = Releasing(todo[u])
    BY <1>16, <1>17 DEF Acts, Nothing
  <2>. QED  BY <2>4, <2>5
<1>21. /\ obj \in [Entry -> Obj \cup {NULL}]
       /\ \A a \in Entry : obj[a] # NULL <=> a \in Placed \/ \E u \in Thread : a \in Releasing(todo[u])
  BY DEF DLInv, EntriesHold
<1>22. o \in Obj
  BY <1>1, <1>9, <1>21
<1>23. obj' \in [Entry -> Obj \cup {NULL}] /\ obj'[e] = NULL /\ \A a \in Entry : a # e => obj'[a] = obj[a]
  BY <1>2, <1>9, <1>21
<1>24. EntriesHold'
  <2>1. \A a \in Entry : obj'[a] # NULL <=> a \in Placed' \/ \E u \in Thread : a \in Releasing(todo'[u])
    BY <1>8, <1>12, <1>20, <1>21, <1>23
  <2>. QED  BY <1>23, <2>1 DEF EntriesHold
<1>25. /\ ref \in [Obj -> Nat] /\ held \in [Thread -> [Obj -> Nat]]
       /\ \A r \in Obj : ref[r] = Cardinality(Pointing(obj, r)) + HeldSum(held, r)
  BY DEF DLInv, CountInv
<1>26. CountInv'
  <2>1. PICK v, w : v = held[t][o] + 1 /\ w = NULL
    OBVIOUS
  <2>2. v \in Nat /\ held[t][o] \in Nat /\ held' = [held EXCEPT ![t][o] = v]
    BY <1>2, <1>22, <1>25, <2>1
  <2>3. HeldMoves(held', held, t, o, v)
    BY <1>22, <1>25, <2>2, HeldChanges
  <2>4. v - held[t][o] = 1
    BY <2>1, <2>2
  <2>5. PointsMove(obj', obj, e, w)
    BY <1>2, <1>9, <1>21, <2>1, PointingChanges
  <2>6. ASSUME NEW r \in Obj PROVE ref'[r] = Cardinality(Pointing(obj', r)) + HeldSum(held', r)
    <3>1. Cardinality(Pointing(obj, r)) \in Nat /\ HeldSum(held, r) \in Nat /\ HeldSum(held, o) \in Nat
      BY <1>22, <1>25, PointingFinite, HeldAtLeast
    <3>2. HeldSum(held', r) = IF r = o THEN HeldSum(held, o) + 1 ELSE HeldSum(held, r)
      BY <2>3, <2>4, <3>1 DEF HeldMoves
    <3>3. w # r
      BY <2>1, DLListAssumption
    <3>4. Cardinality(Pointing(obj', r)) = Cardinality(Pointing(obj, r)) - (IF r = o THEN 1 ELSE 0)
      BY <1>1, <2>5, <3>1, <3>3 DEF PointsMove
    <3>. QED  BY <1>2, <1>25, <3>1, <3>2, <3>4
  <2>. QED  BY <1>2, <1>25, <2>3, <2>6 DEF CountInv, HeldMoves
<1>27. LiveInv'
  <2>1. Doomed(q) = Doomed(todo[t])
    BY <1>16, <1>17 DEF Nothing
  <2>. QED  BY <1>2, <1>17, <2>1, LiveStays DEF DLInv
<1>28. UsedInv'
  BY <1>2 DEF DLInv, UsedInv
<1>29. WantedInv'
  <2>1. ASSUME NEW u \in Thread \ {t}, NEW r \in Obj, Holds(u, r) PROVE Holds(u, r)'
    <3>1. held[u][r] > 0 => held'[u][r] > 0
      BY <1>2, <1>25
    <3>2. \A a \in Entry \ Z : obj'[a] = obj[a]
      BY <1>8, <1>23
    <3>. QED  BY <1>7, <1>10, <1>11, <2>1, <3>1, <3>2, OthersHold
  <2>2. \A u \in Thread \ {t} : \A r \in Wanted(todo[u]) : Holds(u, r) => Holds(u, r)'
    BY <2>1 DEF Wanted
  <2>3. \A r \in Wanted(q) : Holds(t, r)'
    BY <1>16
  <2>. QED  BY <1>17, <2>2, <2>3, WantedStays DEF DLInv
<1>. QED  BY <1>11, <1>17, <1>19, <1>24, <1>26, <1>27, <1>28, <1>29 DEF DLInv

-----------------------------------------------------------------------------
(* The invariant holds of every state.                                     *)
LEMMA DLInvStep ==
  ASSUME DLInv, NEW t, t \in Thread, Step(t)
  PROVE  DLInv'
<1>0. \A l \in List : 0 .. len[l] \subseteq Nat
  OBVIOUS
<1>1. CASE dmbCreateIntObject(t)
  BY <1>1, CreateKeeps
<1>2. ASSUME NEW o \in Obj, dmbObjectRelease(t, o) PROVE DLInv'
  BY <1>2, ReleaseKeeps
<1>3. ASSUME NEW o \in Obj, NEW u \in Thread, dmbObjectRetain(t, u, o) PROVE DLInv'
  BY <1>3, RetainKeeps
<1>4. ASSUME NEW l \in List, Owner[l] = t, NEW atBack \in BOOLEAN, NEW o \in Obj, dmbDLListPush(t, l, atBack, o)
      PROVE  DLInv'
  BY <1>4, PushKeeps
<1>5. ASSUME NEW l \in List, Owner[l] = t, NEW atBack \in BOOLEAN, dmbDLListPop(t, l, atBack) PROVE DLInv'
  BY <1>5, PopKeeps
<1>6. ASSUME NEW l \in List, Owner[l] = t, NEW i \in 0 .. len[l], NEW j \in 0 .. len[l],
             dmbDLListRemoveRange(t, l, i, j)
      PROVE  DLInv'
  BY <1>0, <1>6, RemoveRangeKeepsIt
<1>7. ASSUME NEW l \in List, Owner[l] = t, NEW i \in 0 .. len[l], NEW j \in 0 .. len[l], NEW dest \in List,
             dmbDLListGetRange(t, l, i, j, dest)
      PROVE  DLInv'
  BY <1>0, <1>7, GetRangeKeeps
<1>8. ASSUME NEW l \in List, Owner[l] = t, NEW i \in 0 .. len[l], NEW j \in 0 .. len[l], NEW dest \in List,
             dmbDLListScan(t, l, i, j, dest)
      PROVE  DLInv'
  BY <1>0, <1>8, ScanKeeps
<1>9. ASSUME NEW l \in List, Owner[l] = t, dmbDLListClear(t, l) PROVE DLInv'
  BY <1>9, ClearKeeps
<1>10. CASE CheckCurrentMemoryUsage(t)
  BY <1>10, CheckKeeps
<1>11. ASSUME NEW o \in Obj, MallocObject(t, o) PROVE DLInv'
  BY <1>11, MallocObjectKeeps
<1>12. ASSUME NEW e \in Entry, MallocEntry(t, e) PROVE DLInv'
  BY <1>12, MallocEntryKeeps
<1>13. CASE MallocFails(t)
  BY <1>13, MallocFailsKeeps
<1>14. CASE Link(t)
  BY <1>14, LinkKeeps
<1>15. CASE ReleaseEntry(t)
  BY <1>15, ReleaseEntryKeeps
<1>16. CASE FreeEntry(t)
  BY <1>16, FreeEntryKeeps
<1>17. CASE dmbDestroyIntObject(t)
  BY <1>17, DestroyKeeps
<1>. QED  BY <1>1, <1>2, <1>3, <1>4, <1>5, <1>6, <1>7, <1>8, <1>9, <1>10, <1>11, <1>12, <1>13, <1>14, <1>15,
             <1>16, <1>17 DEF Step

LEMMA DLInvStays ==
  ASSUME DLInv, UNCHANGED vars
  PROVE  DLInv'
<1>1. /\ UNCHANGED listVars /\ heap' = heap /\ len' = len /\ obj' = obj /\ live' = live /\ ref' = ref
      /\ held' = held /\ free' = free /\ used' = used /\ todo' = todo
  BY DEF vars, listVars, refVars
<1>2. ListsInv' /\ SameLists
  BY <1>1, ListsFrame DEF DLInv
<1>3. WorkInv' /\ CountInv' /\ LiveInv' /\ UsedInv'
  BY <1>1 DEF DLInv, WorkInv, CountInv, LiveInv, UsedInv
<1>4. EntriesApart' /\ EntriesKept' /\ EntriesHold'
  BY <1>1, <1>2 DEF DLInv, EntriesApart, EntriesKept, EntriesHold, SameLists
<1>5. WantedInv'
  <2>1. \A u \in Thread : \A o : Holds(u, o) => Holds(u, o)'
    BY <1>1, <1>2, HoldsStays DEF SameLists
  <2>. QED  BY <1>1, <2>1 DEF DLInv, WantedInv
<1>. QED  BY <1>2, <1>3, <1>4, <1>5 DEF DLInv

LEMMA NobodyHolds ==
  ASSUME NEW h, h = [t \in Thread |-> [o \in Obj |-> 0]], NEW o, o \in Obj
  PROVE  HeldSum(h, o) = 0
<1>1. PICK k : k = [s \in SUBSET Thread |-> 0]
  OBVIOUS
<1>2. \A t \in Thread : Shares(h, o)[t] = 0
  BY DEF Shares
<1>3. k \in Sums(Shares(h, o), Thread)
  <2>1. k \in [SUBSET Thread -> Int] /\ k[{}] = 0
    BY <1>1
  <2>2. ASSUME NEW s \in SUBSET Thread, NEW t \in s PROVE k[s] = Shares(h, o)[t] + k[s \ {t}]
    <3>1. t \in Thread /\ s \ {t} \in SUBSET Thread
      BY <2>2
    <3>2. k[s] = 0 /\ k[s \ {t}] = 0 /\ Shares(h, o)[t] = 0
      BY <1>1, <1>2, <3>1
    <3>. QED  BY <3>2
  <2>. QED  BY <2>1, <2>2 DEF Sums
<1>4. HeldSum(h, o) = k[Thread]
  BY <1>3, HeldIs
<1>. QED  BY <1>1, <1>4

LEMMA DLInvBegins ==
  ASSUME Init
  PROVE  DLInv
<1>1. PICK os, heads : os = [l \in List |-> <<>>] /\ heads = Heads(NULL)
  OBVIOUS
<1>2. heads \in [List \cup Entry -> List \cup Entry \cup {NULL}] /\ \A l \in List : heads[l] = l
  BY <1>1 DEF Heads
<1>3. heap = [next |-> heads, prev |-> heads]
  BY <1>1 DEF Init
<1>4. \A l \in List : os[l] = <<>>
  BY <1>1
<1>5. os \in [List -> Seq(Entry)]
  BY <1>1
<1>6. heap \in Heap(List \cup Entry) /\ \A l \in List : heap.next[l] = l /\ heap.prev[l] = l
  BY <1>2, <1>3 DEF Heap
<1>7. Len(<<>>) = 0 /\ 0 .. 0 = {0} /\ 1 .. 0 = {}
  OBVIOUS
<1>8. ASSUME NEW l \in List
      PROVE  Chain(heap, l, os[l]) /\ Distinct(l, os[l]) /\ Members(l, os[l]) = {l} /\ Of(os[l]) = {}
  <2>1. PICK s : s = os[l]
    OBVIOUS
  <2>2. s = <<>> /\ Len(s) = 0
    BY <1>4, <2>1
  <2>3. \A x : At(l, s, x) = l
    BY <1>7, <2>2 DEF At
  <2>4. Chain(heap, l, s)
    BY <1>6, <2>2, <2>3 DEF Chain
  <2>5. Distinct(l, s)
    BY <1>7, <2>2 DEF Distinct
  <2>6. Members(l, s) = {l}
    BY <1>7, <2>2, <2>3 DEF Members
  <2>7. Of(s) = {}
    BY <1>7, <2>2 DEF Of
  <2>. QED  BY <2>1, <2>4, <2>5, <2>6, <2>7
<1>9. Shape(heap, os, List, Entry)
  BY <1>5, <1>6, <1>8 DEF Shape
<1>10. len \in [List -> Nat] /\ \A l \in List : len[l] = Len(os[l])
  BY <1>4, <1>7 DEF Init
<1>11. Listed(heap, len, os)
  BY <1>9, <1>10 DEF Listed
<1>12. ListsInv
  BY <1>11 DEF ListsInv
<1>13. Placed = {} /\ \A l \in List : Linked(l) = {}
  <2>1. \A l \in List : Linked(l) = Of(os[l])
    BY <1>11, LinkedIs
  <2>. QED  BY <1>8, <2>1 DEF Placed
<1>14. \A t \in Thread : Work(todo[t]) /\ Nothing(todo[t])
  <2>1. \A t \in Thread : todo[t] = <<>>
    BY DEF Init
  <2>. QED  BY <2>1, NoWork
<1>15. WorkInv
  <2>1. todo \in [Thread -> Seq(ItemSet)]
    BY DEF Init
  <2>. QED  BY <1>14, <2>1 DEF WorkInv
<1>16. \A t \in Thread : /\ Taken(todo[t]) = {} /\ Releasing(todo[t]) = {} /\ Doomed(todo[t]) = {}
                         /\ Wanted(todo[t]) = {}
  BY <1>14 DEF Nothing
<1>17. EntriesApart /\ EntriesKept
  BY <1>13, <1>16 DEF EntriesApart, EntriesKept, Init
<1>18. EntriesHold
  BY <1>13, <1>16 DEF EntriesHold, Init
<1>19. CountInv
  <2>1. ref \in [Obj -> Nat] /\ held \in [Thread -> [Obj -> Nat]] /\ \A o \in Obj : ref[o] = 0
    BY DEF Init
  <2>2. held = [t \in Thread |-> [o \in Obj |-> 0]]
    BY DEF Init
  <2>3. ASSUME NEW o \in Obj PROVE ref[o] = Cardinality(Pointing(obj, o)) + HeldSum(held, o)
    <3>1. HeldSum(held, o) = 0
      BY <2>2, NobodyHolds
    <3>2. Pointing(obj, o) = {}
      BY DLListAssumption DEF Pointing, Init
    <3>3. Cardinality(Pointing(obj, o)) = 0
      BY <3>2, FS_EmptySet
    <3>. QED  BY <2>1, <3>1, <3>3
  <2>. QED  BY <2>1, <2>3 DEF CountInv
<1>20. \A o \in Obj : ~live[o] /\ ref[o] = 0
  BY DEF Init
<1>21. LiveInv
  <2>1. live \in [Obj -> BOOLEAN]
    BY DEF Init
  <2>. QED  BY <1>16, <1>20, <2>1 DEF LiveInv
<1>22. UsedInv
  <2>1. Entry \ free = {} /\ {o \in Obj : live[o]} = {} /\ used = 0
    BY <1>20 DEF Init
  <2>. QED  BY <2>1, FS_EmptySet DEF UsedInv
<1>23. WantedInv
  BY <1>16 DEF WantedInv
<1>. QED  BY <1>12, <1>15, <1>17, <1>18, <1>19, <1>21, <1>22, <1>23 DEF DLInv

LEMMA Always == Spec => []DLInv
<1>1. Init => DLInv
  BY DLInvBegins
<1>2. DLInv /\ [Next]_vars => DLInv'
  BY DLInvStep, DLInvStays DEF Next
<1>. QED  BY <1>1, <1>2, PTL DEF Spec

-----------------------------------------------------------------------------
(* What the invariant says.                                                *)

LEMMA LengthsAgree ==
  ASSUME NEW os, Listed(heap, len, os), NEW l, l \in List
  PROVE  Cardinality(Linked(l)) = len[l]
<1>1. PICK s, n, S : s = os[l] /\ n = len[l] /\ S = Of(s)
  OBVIOUS
<1>2. /\ OnHeap(heap, List \cup Entry, Entry, l, s) /\ n = Len(s) /\ n \in Nat /\ Linked(l) = S
      /\ s \in Seq(Entry) /\ Distinct(l, s)
  <2>1. ListAt(heap, len, os, l)
    BY ListIs
  <2>2. Linked(l) = Of(os[l])
    BY LinkedIs
  <2>. QED  BY <1>1, <2>1, <2>2 DEF ListAt, OnHeap
<1>3. \A i, j \in 1 .. n : s[i] = s[j] => i = j
  <2>1. \A k \in 1 .. n : k \in 0 .. n /\ At(l, s, k) = s[k]
    BY <1>2 DEF At
  <2>. QED  BY <1>2, <2>1 DEF Distinct
<1>4. s \in [1 .. n -> S]
  BY <1>1, <1>2 DEF Of
<1>5. \A e \in S : \E k \in 1 .. n : s[k] = e
  BY <1>1, <1>2 DEF Of
<1>6. s \in Surjection(1 .. n, S)
  BY <1>4, <1>5 DEF Surjection
<1>9. s \in Injection(1 .. n, S)
  BY <1>3, <1>4 DEF Injection, IsInjective
<1>7. IsFiniteSet(1 .. n) /\ Cardinality(1 .. n) = n
  <2>1. 1 \in Int /\ n \in Int /\ n - 1 + 1 = n /\ (1 > n => n = 0)
    BY <1>2
  <2>2. IsFiniteSet(1 .. n) /\ Cardinality(1 .. n) = IF 1 > n THEN 0 ELSE n - 1 + 1
    BY <2>1, FS_Interval
  <2>. QED  BY <2>1, <2>2
<1>8. Cardinality(S) = Cardinality(1 .. n)
  BY <1>6, <1>9, <1>7, FS_Surjection
<1>. QED  BY <1>1, <1>2, <1>7, <1>8

LEMMA InvListsAgree ==
  ASSUME DLInv
  PROVE  ListsAgree
<1>1. PICK os : Listed(heap, len, os)
  BY DEF DLInv, ListsInv
<1>2. \A l \in List : Linked(l) = Of(os[l]) /\ Linked(l) \subseteq Entry
  BY <1>1, LinkedIs
<1>3. ASSUME NEW l \in List
      PROVE  LET n == len[l]
                 there == Walk(heap, l, n + 1, TRUE)
                 back == Walk(heap, l, n + 1, FALSE)
             IN  /\ there[n + 1] = l /\ back[n + 1] = l
                 /\ \A k \in 1 .. n : /\ there[k] = back[n + 1 - k]
                                      /\ there[k] \in Entry \ free
                                      /\ obj[there[k]] # NULL
  <2>. DEFINE n == len[l]
              there == Walk(heap, l, n + 1, TRUE)
              back == Walk(heap, l, n + 1, FALSE)
  <2>13. n = len[l]
    OBVIOUS
  <2>. HIDE DEF n
  <2>12. there = Walk(heap, l, n + 1, TRUE) /\ back = Walk(heap, l, n + 1, FALSE)
    OBVIOUS
  <2>. HIDE DEF there, back
  <2>1. PICK s : s = os[l]
    OBVIOUS
  <2>2. n \in Nat /\ n = Len(s) /\ Walks(heap, l, s, n)
    <3>1. ListAt(heap, len, os, l)
      BY <1>1, ListIs
    <3>. QED  BY <1>1, <2>13, <2>1, <3>1 DEF ListAt, Listed
  <2>3. PICK m : m = n + 1
    OBVIOUS
  <2>4. m \in 0 .. n + 1
    BY <2>2, <2>3
  <2>5. /\ there = [k \in 1 .. m |-> At(l, s, k)]
        /\ back = [k \in 1 .. m |-> At(l, s, n + 1 - k)]
    BY <2>12, <2>2, <2>3, <2>4 DEF Walks
  <2>9. back = [k \in 1 .. m |-> At(l, s, m - k)]
    <3>1. ASSUME NEW k \in 1 .. m PROVE At(l, s, n + 1 - k) = At(l, s, m - k)
      <4>1. n + 1 - k = m - k
        BY <2>2, <2>3
      <4>. QED  BY <4>1
    <3>. QED  BY <2>5, <3>1
  <2>6. \A k \in 1 .. m : there[k] = At(l, s, k) /\ back[k] = At(l, s, m - k)
    BY <2>5, <2>9
  <2>7. there[m] = l /\ back[m] = l
    <3>1. m \in 1 .. m /\ m \notin 1 .. n /\ m - m = 0 /\ 0 \notin 1 .. n
      BY <2>2, <2>3
    <3>. QED  BY <2>2, <2>6, <3>1 DEF At
  <2>8. ASSUME NEW k \in 1 .. n
        PROVE  there[k] = back[m - k] /\ there[k] \in Entry \ free /\ obj[there[k]] # NULL
    <3>1. k \in 1 .. m /\ m - k \in 1 .. m /\ m - (m - k) = k
      BY <2>2, <2>3
    <3>2. there[k] = s[k] /\ back[m - k] = s[k]
      BY <2>2, <2>6, <3>1 DEF At
    <3>3. s[k] \in Linked(l)
      BY <1>2, <2>1, <2>2 DEF Of
    <3>4. s[k] \in Placed
      BY <1>2, <3>3 DEF Placed
    <3>5. obj[s[k]] \in Obj /\ s[k] \in Entry
      BY <3>4, PlacedHold DEF DLInv
    <3>6. s[k] \notin free
      BY <3>4 DEF DLInv, EntriesApart
    <3>. QED  BY <3>2, <3>5, <3>6, DLListAssumption
  <2>10. \A k \in 1 .. n : there[k] = back[n + 1 - k] /\ there[k] \in Entry \ free /\ obj[there[k]] # NULL
    <3>1. ASSUME NEW k \in 1 .. n PROVE there[k] = back[n + 1 - k]
      <4>1. n + 1 - k = m - k
        BY <2>2, <2>3
      <4>. QED  BY <2>8, <4>1
    <3>. QED  BY <2>8, <3>1
  <2>11. there[n + 1] = l /\ back[n + 1] = l
    BY <2>3, <2>7
  <2>. QED  BY <2>10, <2>11, Zenon DEF n, there, back
<1>4. \A l \in List : Cardinality(Linked(l)) = len[l]
  BY <1>1, LengthsAgree
<1>5. \A l, m \in List : l # m => Linked(l) \cap Linked(m) = {}
  BY <1>1, <1>2, ListsApart
<1>6. ASSUME NEW t \in Thread, NEW l \in List, NEW i \in 1 .. Len(todo[t]) PROVE todo[t][i].e \notin Linked(l)
  <2>1. PICK q, x : q = todo[t] /\ x = q[i]
    OBVIOUS
  <2>2. Work(q) /\ WellFormed(x)
    BY <2>1 DEF DLInv, WorkInv, Work
  <2>3. CASE x.e = NULL
    BY <1>2, <2>1, <2>3, DLListAssumption
  <2>4. CASE x.e # NULL
    <3>1. x.act \in {"link", "release", "free"} /\ x.e \in Entry
      BY <2>2, <2>4 DEF WellFormed, ItemSet, PushActs
    <3>2. x.e \in Taken(q) \/ x.e \in Releasing(q)
      BY <2>1, <3>1 DEF Taken, Releasing, Takes
    <3>3. Releasing(q) \subseteq Taken(q)
      BY <2>2, ReleasedTaken
    <3>4. x.e \notin Placed
      BY <2>1, <3>2, <3>3 DEF DLInv, EntriesApart
    <3>. QED  BY <2>1, <3>1, <3>4 DEF Placed
  <2>. QED  BY <2>3, <2>4
<1>. QED  BY <1>3, <1>4, <1>5, <1>6 DEF ListsAgree

(* ListsAgree: the readings of a list and its length agree, and no entry   *)
(* is in two lists, in a list and free, or in a list and in the work of a  *)
(* call.                                                                   *)
THEOREM ListsOfEntries == Spec => []ListsAgree
<1>1. DLInv => ListsAgree
  BY InvListsAgree
<1>. QED  BY <1>1, Always, PTL

LEMMA InvReferencesCounted ==
  ASSUME DLInv
  PROVE  ReferencesCounted
<1>. SUFFICES ASSUME NEW o \in Obj
              PROVE  LET destroyers == {t \in Thread : \E k \in 1 .. Len(todo[t]) :
                                          todo[t][k].act = "destroy" /\ todo[t][k].o = o}
                     IN  /\ ref[o] = Cardinality({e \in Entry : obj[e] = o})
                                     + Sets!MapThenSumSet(LAMBDA t : held[t][o], Thread)
                         /\ IF ref[o] > 0 THEN live[o] /\ destroyers = {}
                            ELSE Cardinality(destroyers) = IF live[o] THEN 1 ELSE 0
  BY DEF ReferencesCounted
<1>. DEFINE destroyers == {t \in Thread : \E k \in 1 .. Len(todo[t]) :
                             todo[t][k].act = "destroy" /\ todo[t][k].o = o}
<1>1. ref[o] = Cardinality({e \in Entry : obj[e] = o})
               + Sets!MapThenSumSet(LAMBDA t : held[t][o], Thread)
  BY DEF DLInv, CountInv, Pointing, HeldSum
<1>2. destroyers = {t \in Thread : o \in Doomed(todo[t])}
  BY DEF Doomed
<1>. HIDE DEF destroyers
<1>3. ref[o] \in Nat /\ live[o] \in BOOLEAN
  BY DEF DLInv, CountInv, LiveInv
<1>4. \A t \in destroyers : t \in Thread /\ o \in Doomed(todo[t]) /\ live[o] /\ ref[o] = 0
  BY <1>2 DEF DLInv, LiveInv
<1>5. CASE ref[o] > 0
  <2>1. live[o] /\ destroyers = {}
    BY <1>4, <1>5 DEF DLInv, LiveInv
  <2>2. IF ref[o] > 0 THEN live[o] /\ destroyers = {} ELSE Cardinality(destroyers) = IF live[o] THEN 1 ELSE 0
    BY <1>5, <2>1
  <2>. QED  BY <1>1, <2>2 DEF destroyers
<1>6. CASE ~(ref[o] > 0)
  <2>1. ref[o] = 0
    BY <1>3, <1>6
  <2>2. Cardinality(destroyers) = IF live[o] THEN 1 ELSE 0
    <3>1. CASE live[o]
      <4>1. PICK t \in Thread : o \in Doomed(todo[t])
        BY <2>1, <3>1 DEF DLInv, LiveInv
      <4>2. \A u \in Thread : o \in Doomed(todo[u]) => u = t
        BY <4>1 DEF DLInv, LiveInv
      <4>3. destroyers = {t}
        BY <1>2, <4>1, <4>2
      <4>. QED  BY <3>1, <4>3, FS_Singleton
    <3>2. CASE ~live[o]
      <4>1. destroyers = {}
        BY <1>4, <3>2
      <4>. QED  BY <3>2, <4>1, FS_EmptySet
    <3>. QED  BY <3>1, <3>2
  <2>3. IF ref[o] > 0 THEN live[o] /\ destroyers = {} ELSE Cardinality(destroyers) = IF live[o] THEN 1 ELSE 0
    BY <1>6, <2>2
  <2>. QED  BY <1>1, <2>3 DEF destroyers
<1>. QED  BY <1>5, <1>6

(* ReferencesCounted: a count is the number of references there are, and   *)
(* exactly one thread destroys an object, when there are none left.        *)
THEOREM CountsAreReferences == Spec => []ReferencesCounted
<1>1. DLInv => ReferencesCounted
  BY InvReferencesCounted
<1>. QED  BY <1>1, Always, PTL

LEMMA InvNothingLeaks ==
  ASSUME DLInv
  PROVE  NothingLeaks
<1>. DEFINE pending == UNION {{todo[t][k].e : k \in {i \in 1 .. Len(todo[t]) :
                                                       todo[t][i].act \in {"link", "free"}}} :
                              t \in Thread}
            linked == UNION {Linked(l) : l \in List}
<1>1. linked = Placed /\ Placed \subseteq Entry
  <2>1. PICK os : Listed(heap, len, os)
    BY DEF DLInv, ListsInv
  <2>2. \A l \in List : Linked(l) \subseteq Entry
    BY <2>1, LinkedIs
  <2>. QED  BY <2>2 DEF Placed
<1>2. ASSUME NEW x PROVE x \in pending <=> x \in Entry /\ \E t \in Thread : x \in Taken(todo[t])
  <2>1. ASSUME x \in pending PROVE x \in Entry /\ \E t \in Thread : x \in Taken(todo[t])
    <3>1. PICK t \in Thread : x \in {todo[t][k].e : k \in {i \in 1 .. Len(todo[t]) :
                                                       todo[t][i].act \in {"link", "free"}}}
      BY <2>1
    <3>2. PICK k \in 1 .. Len(todo[t]) : todo[t][k].act \in {"link", "free"} /\ todo[t][k].e = x
      BY <3>1
    <3>3. WellFormed(todo[t][k])
      BY DEF DLInv, WorkInv, Work
    <3>4. x \in Entry
      BY <3>2, <3>3 DEF WellFormed, ItemSet, PushActs
    <3>. QED  BY <3>2, <3>4 DEF Taken, Takes
  <2>2. ASSUME x \in Entry, NEW t \in Thread, x \in Taken(todo[t]) PROVE x \in pending
    BY <2>2 DEF Taken, Takes
  <2>. QED  BY <2>1, <2>2
<1>. HIDE DEF pending, linked
<1>3. \A e \in Entry \ free : e \in pending \/ e \in linked
  BY <1>1, <1>2 DEF DLInv, EntriesKept
<1>4. \A e \in pending \cup linked : e \in Entry \ free
  BY <1>1, <1>2 DEF DLInv, EntriesApart
<1>5. Entry \ free = pending \cup linked
  BY <1>3, <1>4
<1>6. used = Cardinality(Entry \ free) + Cardinality({o \in Obj : live[o]})
  BY DEF DLInv, UsedInv
<1>. QED  BY <1>5, <1>6 DEF NothingLeaks, pending, linked

(* NothingLeaks: the accounting is exact, and an entry that is neither     *)
(* free nor in a list is in the work of a call that links or frees it.     *)
THEOREM NoEntryLost == Spec => []NothingLeaks
<1>1. DLInv => NothingLeaks
  BY InvNothingLeaks
<1>. QED  BY <1>1, Always, PTL

-----------------------------------------------------------------------------
(* What is met is a part of the list, read in one direction or the other.  *)
LEMMA MetIsPart ==
  ASSUME NEW N, NEW s, s \in Seq(N), NEW a, a \in Nat, NEW b, b \in Nat, a <= b, b < Len(s)
  PROVE  /\ Met(FALSE, s, a, b + 1) = SubSeq(s, a + 1, b + 1)
         /\ Met(TRUE, s, a, b + 1) = Seqs!Reverse(SubSeq(s, a + 1, b + 1))
<1>1. PICK r, d : r = SubSeq(s, a + 1, b + 1) /\ d = b + 1 - a
  OBVIOUS
<1>2. d \in Nat /\ b + 1 - (a + 1) + 1 = d /\ Len(s) \in Nat
  BY <1>1
<1>3. r = [y \in 1 .. d |-> s[a + y]]
  BY <1>1, <1>2
<1>4. Len(r) = d
  BY <1>2, <1>3
<1>5. Met(FALSE, s, a, b + 1) = r
  BY <1>1, <1>3 DEF Met
<1>6. Seqs!Reverse(r) = [y \in 1 .. d |-> r[d - y + 1]]
  BY <1>4 DEF Seqs!Reverse
<1>7. ASSUME NEW y \in 1 .. d PROVE r[d - y + 1] = s[b + 1 + 1 - y]
  <2>1. d - y + 1 \in 1 .. d /\ a + (d - y + 1) = b + 1 + 1 - y
    BY <1>1, <1>2
  <2>. QED  BY <1>3, <2>1
<1>8. Met(TRUE, s, a, b + 1) = [y \in 1 .. d |-> s[b + 1 + 1 - y]]
  BY <1>1 DEF Met
<1>9. Met(TRUE, s, a, b + 1) = Seqs!Reverse(r)
  BY <1>6, <1>7, <1>8
<1>. QED  BY <1>1, <1>5, <1>9

LEMMA InvRangeCopied ==
  ASSUME DLInv
  PROVE  RangeCopied
<1>1. PICK os : Listed(heap, len, os)
  BY DEF DLInv, ListsInv
<1>2. ASSUME NEW l \in List, NEW j \in 0 .. len[l] + 1, NEW i \in 0 .. j, len[l] > 0
      PROVE  LET n == len[l]
                 Clipped(u) == IF u < n THEN u ELSE n - 1
                 range == SubSeq(Order(l), Clipped(i) + 1, Clipped(j) + 1)
             IN  RangeOf(heap, l, n, i, j) = IF Clipped(i) > n \div 2 THEN Seqs!Reverse(range) ELSE range
  <2>. DEFINE n == len[l]
              Clipped(u) == IF u < n THEN u ELSE n - 1
              range == SubSeq(Order(l), Clipped(i) + 1, Clipped(j) + 1)
  <2>1. PICK s, a, b, es : /\ s = os[l] /\ a = Clip(len[l], i) /\ b = Clip(len[l], j)
                           /\ es = RangeOf(heap, l, len[l], i, j)
    OBVIOUS
  <2>2. len[l] \in Nat /\ i \in Nat /\ j \in Nat /\ i <= j /\ s \in Seq(Entry) /\ len[l] = Len(s)
    BY <1>1, <2>1 DEF Listed, Shape
  <2>3. Ranged(es, s, a, b)
    BY <1>1, <1>2, <2>1, <2>2, RangeIs
  <2>4. Clipped(i) = a /\ Clipped(j) = b
    BY <2>1, <2>2 DEF Clip
  <2>5. Order(l) = s
    <3>1. ListAt(heap, len, os, l)
      BY <1>1, ListIs
    <3>. QED  BY <2>1, <3>1 DEF ListAt, Order
  <2>6. range = SubSeq(s, a + 1, b + 1)
    BY <2>4, <2>5
  <2>7. n = Len(s) /\ RangeOf(heap, l, n, i, j) = es
    BY <2>1, <2>2
  <2>. HIDE DEF range, Clipped, n
  <2>8. /\ Met(FALSE, s, a, b + 1) = SubSeq(s, a + 1, b + 1)
        /\ Met(TRUE, s, a, b + 1) = Seqs!Reverse(SubSeq(s, a + 1, b + 1))
    BY <2>2, <2>3, MetIsPart DEF Ranged
  <2>9. es = Met(fasterFromEnd(n, a), s, a, b + 1) /\ fasterFromEnd(n, a) = (a > n \div 2)
    BY <2>3, <2>7 DEF Ranged, fasterFromEnd
  <2>10. es = IF a > n \div 2 THEN Seqs!Reverse(range) ELSE range
    <3>1. CASE a > n \div 2
      <4>1. fasterFromEnd(n, a) = TRUE
        BY <2>9, <3>1
      <4>2. es = Met(TRUE, s, a, b + 1)
        BY <2>9, <4>1
      <4>. QED  BY <2>6, <2>8, <3>1, <4>2
    <3>2. CASE ~(a > n \div 2)
      <4>1. fasterFromEnd(n, a) = FALSE
        BY <3>2 DEF fasterFromEnd
      <4>2. es = Met(FALSE, s, a, b + 1)
        BY <2>9, <4>1
      <4>. QED  BY <2>6, <2>8, <3>2, <4>2
    <3>. QED  BY <3>1, <3>2
  <2>11. RangeOf(heap, l, n, i, j) = IF Clipped(i) > n \div 2 THEN Seqs!Reverse(range) ELSE range
    BY <2>4, <2>7, <2>10
  <2>. QED  BY <2>11 DEF range, Clipped, n
<1>. QED  BY <1>2 DEF RangeCopied

(* RangeCopied: GetRange copies the entries of the range, clipped to the   *)
(* list, each once, forwards or backwards.                                 *)
THEOREM RangesCopied == Spec => []RangeCopied
<1>1. DLInv => RangeCopied
  BY InvRangeCopied
<1>. QED  BY <1>1, Always, PTL

(* Adding the divisor does not change the remainder.                       *)
LEMMA RemainderIs ==
  ASSUME NEW c \in Int, c > 0, NEW a \in Int, NEW m \in 0 .. c - 1, NEW b \in Int, NEW k \in 0 .. c - 1,
         c * a + m = c * b + k
  PROVE  m = k
OBVIOUS

LEMMA RemainderStays ==
  ASSUME NEW c, c \in Nat, c > 0, NEW x, x \in Nat
  PROVE  (x + c) % c = x % c
<1>1. PICK y : y = x + c
  OBVIOUS
<1>2. c \in Int /\ x \in Int /\ y \in Int
  BY <1>1
<1>3. x = (c * (x \div c)) + (x % c) /\ (x \div c) \in Int /\ (x % c) \in 0 .. (c - 1)
  BY <1>2
<1>4. y = (c * (y \div c)) + (y % c) /\ (y \div c) \in Int /\ (y % c) \in 0 .. (c - 1)
  BY <1>2
<1>5. PICK a, b, m, k : a = x \div c /\ b = y \div c /\ m = x % c /\ k = y % c
  OBVIOUS
<1>6. PICK d \in Int : d = a + 1
  BY <1>3, <1>5
<1>7. c * d = c * a + c
  BY <1>2, <1>3, <1>5, <1>6
<1>8. c * d + m = c * b + k /\ b \in Int /\ m \in 0 .. c - 1 /\ k \in 0 .. c - 1
  BY <1>1, <1>2, <1>3, <1>4, <1>5, <1>7
<1>9. m = k
  BY <1>2, <1>6, <1>8, RemainderIs
<1>. QED  BY <1>1, <1>5, <1>9

(* What is met from a on is what is met up to b and what is met after it.  *)
MeetsOn(no, s, a, b, d) == Met(no, s, a, b) \o Met(no, s, b, d) = Met(no, s, a, d)

LEMMA MetJoins ==
  ASSUME NEW N, NEW s, s \in Seq(N), NEW a, a \in Nat, NEW b, b \in Nat, NEW d, d \in Nat,
         a <= b, b <= d, d <= Len(s), NEW no \in BOOLEAN, no = FALSE
  PROVE  MeetsOn(no, s, a, b, d)
<1>1. PICK p, q, x, y, z : p = b - a /\ q = d - b /\ x = Met(no, s, a, b) /\ y = Met(no, s, b, d) /\ z = Met(no, s, a, d)
  OBVIOUS
<1>2. p \in Nat /\ q \in Nat /\ p + q = d - a /\ Len(s) \in Nat
  BY <1>1
<1>3. x = [k \in 1 .. p |-> s[a + k]] /\ y = [k \in 1 .. q |-> s[b + k]] /\ z = [k \in 1 .. p + q |-> s[a + k]]
  BY <1>1, <1>2 DEF Met
<1>4. /\ \A k \in 1 .. p : a + k \in 1 .. Len(s)
      /\ \A k \in 1 .. q : b + k \in 1 .. Len(s)
      /\ \A k \in 1 .. p + q : a + k \in 1 .. Len(s)
  BY <1>1, <1>2
<1>5. x \in Seq(N) /\ Len(x) = p /\ y \in Seq(N) /\ Len(y) = q
  <2>1. x \in [1 .. p -> N] /\ y \in [1 .. q -> N]
    BY <1>3, <1>4
  <2>. QED  BY <1>2, <2>1
<1>6. PICK w : w = x \o y
  OBVIOUS
<1>7. w = [k \in 1 .. p + q |-> IF k <= p THEN x[k] ELSE y[k - p]]
  <2>1. /\ w \in Seq(N) /\ Len(w) = Len(x) + Len(y)
        /\ \A k \in 1 .. Len(x) + Len(y) : w[k] = IF k <= Len(x) THEN x[k] ELSE y[k - Len(x)]
    BY <1>5, <1>6, ConcatProperties
  <2>2. w \in [1 .. p + q -> N]
    BY <1>2, <1>5, <2>1
  <2>3. \A k \in 1 .. p + q : w[k] = IF k <= p THEN x[k] ELSE y[k - p]
    BY <1>5, <2>1
  <2>. QED  BY <2>2, <2>3
<1>8. ASSUME NEW k \in 1 .. p + q PROVE (IF k <= p THEN x[k] ELSE y[k - p]) = s[a + k]
  <2>1. CASE k <= p
    BY <1>2, <1>3, <2>1
  <2>2. CASE ~(k <= p)
    <3>1. k - p \in 1 .. q /\ b + (k - p) = a + k
      BY <1>1, <1>2, <2>2
    <3>2. y[k - p] = s[a + k]
      BY <1>3, <3>1
    <3>. QED  BY <2>2, <3>2
  <2>. QED  BY <2>1, <2>2
<1>9. w = z
  BY <1>3, <1>7, <1>8
<1>. QED  BY <1>1, <1>6, <1>9 DEF MeetsOn

(* What the scans from i on meet: the entries of the list after i, but the *)
(* last if it is the only one left to a scan.                              *)
ScansEnd(n, c, i) == IF i < n - 1 /\ (n - 1 - i) % c = 0 THEN n - 1 ELSE n
ScansMet(s, c, i) == IF i >= Len(s) THEN <<>> ELSE Met(FALSE, s, i, ScansEnd(Len(s), c, i))

OneScan(r, s, c, i) ==
  /\ r.index = 0 \/ (r.index \in Nat /\ i < r.index /\ r.index < Len(s))
  /\ (r.met \o IF r.index = 0 THEN <<>> ELSE ScansMet(s, c, r.index)) = ScansMet(s, c, i)

EndsAt(n, c, i, e) ==
  /\ e \in Nat /\ i <= e /\ e <= n
  /\ i + c < n - 1 => ScansEnd(n, c, i + c) = e
  /\ i + c = n - 1 => e = n - 1
  /\ i + c >= n => e = n

LEMMA ScansEndIs ==
  ASSUME NEW n, n \in Nat, NEW c, c \in Nat, c > 0, NEW i, i \in Nat, i < n
  PROVE  EndsAt(n, c, i, ScansEnd(n, c, i))
<1>1. ScansEnd(n, c, i) \in {n - 1, n} /\ (ScansEnd(n, c, i) = n - 1 => i < n - 1)
  BY DEF ScansEnd
<1>2. ScansEnd(n, c, i) \in Nat /\ i <= ScansEnd(n, c, i) /\ ScansEnd(n, c, i) <= n
  BY <1>1
<1>3. ASSUME i + c < n - 1 PROVE ScansEnd(n, c, i + c) = ScansEnd(n, c, i)
  <2>1. PICK x : x = n - 1 - (i + c)
    OBVIOUS
  <2>2. x \in Nat /\ n - 1 - i = x + c /\ i < n - 1
    BY <1>3, <2>1
  <2>3. (x + c) % c = x % c
    BY <2>2, RemainderStays
  <2>. QED  BY <1>3, <2>1, <2>2, <2>3 DEF ScansEnd
<1>4. ASSUME i + c = n - 1 PROVE ScansEnd(n, c, i) = n - 1
  <2>1. n - 1 - i = c /\ i < n - 1 /\ c % c = 0
    BY <1>4
  <2>. QED  BY <2>1 DEF ScansEnd
<1>5. ASSUME i + c >= n PROVE ScansEnd(n, c, i) = n
  <2>1. CASE i < n - 1
    <3>1. PICK x : x = n - 1 - i
      OBVIOUS
    <3>2. x \in Nat /\ 0 < x /\ x < c
      BY <1>5, <2>1, <3>1
    <3>3. x % c = x
      BY <3>2
    <3>. QED  BY <3>1, <3>2, <3>3 DEF ScansEnd
  <2>2. CASE ~(i < n - 1)
    BY <2>2 DEF ScansEnd
  <2>. QED  BY <2>1, <2>2
<1>. QED  BY <1>2, <1>3, <1>4, <1>5 DEF EndsAt

LEMMA OneScanIs ==
  ASSUME NEW N, NEW s, s \in Seq(N), NEW c, c \in Nat, c > 0, NEW i, i \in Nat,
         NEW r, ScanGives(r, s, i, i + c)
  PROVE  OneScan(r, s, c, i)
<1>1. PICK n \in Nat : n = Len(s)
  OBVIOUS
<1>2. CASE i >= n
  <2>1. r = [met |-> <<>>, index |-> 0]
    BY <1>1, <1>2 DEF ScanGives
  <2>2. r.met = <<>> /\ r.index = 0 /\ ScansMet(s, c, i) = <<>>
    BY <1>1, <1>2, <2>1 DEF ScansMet
  <2>. QED  BY <2>2 DEF OneScan
<1>3. CASE i < n
  <2>1. PICK e : e = ScansEnd(n, c, i)
    OBVIOUS
  <2>2. /\ e \in Nat /\ i <= e /\ e <= n
        /\ i + c < n - 1 => ScansEnd(n, c, i + c) = e
        /\ i + c = n - 1 => e = n - 1
        /\ i + c >= n => e = n
    <3>1. EndsAt(n, c, i, e)
      BY <1>1, <1>3, <2>1, ScansEndIs
    <3>. QED  BY <3>1 DEF EndsAt
  <2>9. ~(i >= Len(s)) /\ i < Len(s)
    BY <1>1, <1>3
  <2>3. ScansMet(s, c, i) = Met(FALSE, s, i, e)
    BY <1>1, <2>9, <2>1, Zenon DEF ScansMet
  <2>4. PICK m, d : m = Met(FALSE, s, i, Least2(i + c, n)) /\ d = IF i + c >= n - 1 THEN 0 ELSE i + c
    OBVIOUS
  <2>5. r = [met |-> m, index |-> d]
    BY <1>1, <2>9, <2>4, Zenon DEF ScanGives
  <2>6. r.met = m /\ r.index = d
    BY <2>5
  <2>7. CASE i + c >= n - 1
    <3>1. Least2(i + c, n) = e /\ d = 0
      BY <2>2, <2>4, <2>7 DEF Least2
    <3>2. m = Met(FALSE, s, i, e)
      BY <2>4, <3>1
    <3>3. PICK no \in BOOLEAN : no = FALSE
      OBVIOUS
    <3>4. m \in Seq(Of(s))
      <4>1. m = Met(no, s, i, e)
        BY <3>2, <3>3
      <4>. QED  BY <1>1, <2>2, <4>1, MetWithin
    <3>5. m \o <<>> = m
      BY <3>4
    <3>. QED  BY <2>3, <2>6, <3>1, <3>2, <3>5 DEF OneScan
  <2>8. CASE i + c < n - 1
    <3>1. Least2(i + c, n) = i + c /\ d = i + c /\ d \in Nat /\ d # 0 /\ i < d /\ d < n
      BY <2>4, <2>8, <1>1 DEF Least2
    <3>2. m = Met(FALSE, s, i, d)
      BY <2>4, <3>1
    <3>3. ScansEnd(n, c, d) = e
      BY <2>2, <2>8, <3>1
    <3>4. ScansMet(s, c, d) = Met(FALSE, s, d, e)
      <4>1. ~(d >= Len(s))
        BY <1>1, <3>1
      <4>. QED  BY <1>1, <4>1, <3>3, Zenon DEF ScansMet
    <3>5. d <= e
      BY <1>1, <2>8, <3>1, <3>3 DEF ScansEnd
    <3>6. Met(FALSE, s, i, d) \o Met(FALSE, s, d, e) = Met(FALSE, s, i, e)
      <4>1. PICK no \in BOOLEAN : no = FALSE
        OBVIOUS
      <4>3. i \in Nat /\ d \in Nat /\ e \in Nat /\ i <= d /\ d <= e /\ e <= Len(s)
        BY <1>1, <2>2, <3>1, <3>5
      <4>2. Met(no, s, i, d) \o Met(no, s, d, e) = Met(no, s, i, e)
        <5>1. MeetsOn(no, s, i, d, e)
          BY <4>1, <4>3, MetJoins
        <5>. QED  BY <5>1 DEF MeetsOn
      <4>. QED  BY <4>1, <4>2
    <3>. QED  BY <1>1, <2>3, <2>6, <3>1, <3>2, <3>4, <3>6 DEF OneScan
  <2>. QED  BY <2>7, <2>8
<1>. QED  BY <1>1, <1>2, <1>3

(* The scans one after the other, each from the index before returned.     *)
EachScan(r, s, c, n) == \A i \in 0 .. n : OneScan(r[i], s, c, i)
IsAllScans(f, r, n) ==
  f = [i \in 0 .. n |-> r[i].met \o IF r[i].index = 0 THEN <<>> ELSE f[r[i].index]]
AllMet(f, s, c, n) == \A i \in 0 .. n : f[i] = ScansMet(s, c, i)

LEMMA AllScansExist ==
  ASSUME NEW N, NEW s, s \in Seq(N), NEW n, n = Len(s), NEW c, c \in Nat, NEW r, EachScan(r, s, c, n)
  PROVE  \E f : IsAllScans(f, r, n)
<1>1. n \in Nat
  OBVIOUS
<1>2. PICK f : f = [i \in 0 .. n |-> ScansMet(s, c, i)]
  OBVIOUS
<1>3. ASSUME NEW i \in 0 .. n
      PROVE  (r[i].met \o IF r[i].index = 0 THEN <<>> ELSE f[r[i].index]) = ScansMet(s, c, i)
  <2>1. OneScan(r[i], s, c, i)
    BY DEF EachScan
  <2>2. r[i].index # 0 => r[i].index \in 0 .. n
    BY <1>1, <2>1 DEF OneScan
  <2>3. r[i].index # 0 => f[r[i].index] = ScansMet(s, c, r[i].index)
    BY <1>2, <2>2
  <2>4. (r[i].met \o IF r[i].index = 0 THEN <<>> ELSE ScansMet(s, c, r[i].index)) = ScansMet(s, c, i)
    BY <2>1 DEF OneScan
  <2>5. CASE r[i].index = 0
    BY <2>4, <2>5
  <2>6. CASE r[i].index # 0
    BY <2>3, <2>4, <2>6
  <2>. QED  BY <2>5, <2>6
<1>4. f = [i \in 0 .. n |-> r[i].met \o IF r[i].index = 0 THEN <<>> ELSE f[r[i].index]]
  BY <1>2, <1>3
<1>. QED  BY <1>4 DEF IsAllScans

LEMMA AllScansAre ==
  ASSUME NEW N, NEW s, s \in Seq(N), NEW n, n = Len(s), NEW c, c \in Nat, NEW r, EachScan(r, s, c, n),
         NEW f, IsAllScans(f, r, n)
  PROVE  AllMet(f, s, c, n)
<1>1. n \in Nat
  OBVIOUS
<1>. DEFINE Q(i) == f[i] = ScansMet(s, c, i)
            T == {k \in Nat : \A i \in 0 .. n : i >= n - k => Q(i)}
<1>2. ASSUME NEW i \in 0 .. n, \A m \in i + 1 .. n : Q(m) PROVE Q(i)
  <2>1. f[i] = r[i].met \o IF r[i].index = 0 THEN <<>> ELSE f[r[i].index]
    BY DEF IsAllScans
  <2>2. OneScan(r[i], s, c, i)
    BY DEF EachScan
  <2>3. r[i].index # 0 => r[i].index \in i + 1 .. n
    BY <1>1, <2>2 DEF OneScan
  <2>4. r[i].index # 0 => f[r[i].index] = ScansMet(s, c, r[i].index)
    BY <1>2, <2>3
  <2>5. (r[i].met \o IF r[i].index = 0 THEN <<>> ELSE ScansMet(s, c, r[i].index)) = ScansMet(s, c, i)
    BY <2>2 DEF OneScan
  <2>6. CASE r[i].index = 0
    BY <2>1, <2>5, <2>6
  <2>7. CASE r[i].index # 0
    BY <2>1, <2>4, <2>5, <2>7
  <2>. QED  BY <2>6, <2>7
<1>. HIDE DEF Q
<1>3. 0 \in T
  <2>1. ASSUME NEW i \in 0 .. n, i >= n - 0 PROVE Q(i)
    <3>1. \A m \in i + 1 .. n : Q(m)
      BY <1>1, <2>1
    <3>. QED  BY <1>2, <3>1
  <2>. QED  BY <2>1
<1>4. ASSUME NEW k \in T PROVE k + 1 \in T
  <2>1. k \in Nat /\ \A i \in 0 .. n : i >= n - k => Q(i)
    BY <1>4
  <2>2. ASSUME NEW i \in 0 .. n, i >= n - (k + 1) PROVE Q(i)
    <3>1. ASSUME NEW m \in i + 1 .. n PROVE Q(m)
      <4>1. m \in 0 .. n /\ m >= n - k
        BY <1>1, <2>1, <2>2
      <4>. QED  BY <2>1, <4>1
    <3>. QED  BY <1>2, <3>1
  <2>3. k + 1 \in Nat
    BY <2>1
  <2>. QED  BY <2>2, <2>3
<1>5. T = Nat
  <2>1. T \in SUBSET Nat
    OBVIOUS
  <2>. HIDE DEF T
  <2>. QED  BY <1>3, <1>4, <2>1, Induction
<1>6. \A i \in 0 .. n : Q(i)
  <2>1. n \in T
    BY <1>1, <1>5
  <2>2. \A i \in 0 .. n : i >= n - n => Q(i)
    BY <2>1
  <2>3. \A i \in 0 .. n : i >= n - n
    BY <1>1
  <2>. QED  BY <2>2, <2>3
<1>. QED  BY <1>6 DEF AllMet, Q

LEMMA FirstScans ==
  ASSUME NEW N, NEW s, s \in Seq(N), NEW n, n = Len(s), n > 0, NEW c, c \in Nat, c > 0,
         NEW x, x = ScansMet(s, c, 0)
  PROVE  Seqs!IsPrefix(x, s) /\ Len(x) = IF n > 1 /\ (n - 1) % c = 0 THEN n - 1 ELSE n
<1>1. n \in Nat
  OBVIOUS
<1>2. PICK e : e = IF n > 1 /\ (n - 1) % c = 0 THEN n - 1 ELSE n
  OBVIOUS
<1>3. e \in Nat /\ 0 < e /\ e <= n
  BY <1>1, <1>2
<1>4. ScansEnd(n, c, 0) = e
  <2>1. (0 < n - 1 <=> n > 1) /\ n - 1 - 0 = n - 1
    BY <1>1
  <2>. QED  BY <1>2, <2>1 DEF ScansEnd
<1>5. ~(0 >= Len(s))
  BY <1>1
<1>6. x = Met(FALSE, s, 0, e)
  BY <1>4, <1>5, Zenon DEF ScansMet
<1>7. PICK b : b = e - 1
  OBVIOUS
<1>8. b \in Nat /\ 0 <= b /\ b < Len(s) /\ 0 \in Nat
  BY <1>1, <1>3, <1>7
<1>9. PICK z : z = 0
  OBVIOUS
<1>10. Met(FALSE, s, z, b + 1) = SubSeq(s, z + 1, b + 1)
  BY <1>8, <1>9, MetIsPart
<1>11. b + 1 = e /\ z + 1 = 1
  BY <1>3, <1>7, <1>9
<1>12. x = SubSeq(s, 1, e)
  BY <1>6, <1>9, <1>10, <1>11
<1>13. x \in Seq(N) /\ Len(x) = e
  <2>1. x = [k \in 1 .. e |-> s[k]]
    BY <1>3, <1>12
  <2>2. x \in [1 .. e -> N]
    BY <1>1, <1>3, <2>1
  <2>. QED  BY <1>3, <2>2
<1>14. SubSeq(x, 1, Len(x)) = x
  BY <1>13, SubSeqFull
<1>. QED  BY <1>1, <1>2, <1>3, <1>12, <1>13, <1>14 DEF Seqs!IsPrefix

LEMMA InvScanProgress ==
  ASSUME DLInv
  PROVE  ScanProgress
<1>1. PICK os : Listed(heap, len, os)
  BY DEF DLInv, ListsInv
<1>2. ASSUME NEW l \in List, NEW count \in 1 .. len[l] + 1
      PROVE  LET n == len[l]
                 Scanned(i) == ScanOf(heap, l, n, i, count)
                 all[i \in 0 .. n] == Scanned(i).met
                                      \o IF Scanned(i).index = 0 THEN <<>> ELSE all[Scanned(i).index]
             IN  n > 0 => /\ Seqs!IsPrefix(all[0], Order(l))
                          /\ Len(all[0]) = IF n > 1 /\ (n - 1) % count = 0 THEN n - 1 ELSE n
  <2>. DEFINE n == len[l]
              scan(i) == ScanOf(heap, l, n, i, count)
              IsAll(f) == f = [i \in 0 .. n |-> scan(i).met
                                               \o IF scan(i).index = 0 THEN <<>> ELSE f[scan(i).index]]
              all == CHOOSE f : IsAll(f)
  <2>1. PICK s, P, r : s = os[l] /\ P = List \cup Entry /\ r = [i \in 0 .. n |-> scan(i)]
    OBVIOUS
  <2>2. n \in Nat /\ n = Len(s) /\ count \in Nat /\ count > 0 /\ s \in Seq(Entry)
    BY <1>1, <2>1 DEF Listed, Shape
  <2>3. OnHeap(heap, P, Entry, l, s) /\ Order(l) = s
    <3>1. ListAt(heap, len, os, l)
      BY <1>1, ListIs
    <3>. QED  BY <2>1, <3>1 DEF ListAt, Order
  <2>. HIDE DEF n
  <2>4. ASSUME NEW i \in 0 .. n PROVE OneScan(r[i], s, count, i)
    <3>1. PICK x : x = r[i]
      OBVIOUS
    <3>2. x = ScanOf(heap, l, n, i, count) /\ i \in Nat
      BY <2>1, <3>1
    <3>3. ScanGives(x, s, i, i + count)
      BY <2>2, <2>3, <3>2, ScanIs
    <3>4. OneScan(x, s, count, i)
      BY <2>2, <3>2, <3>3, OneScanIs
    <3>. QED  BY <3>1, <3>4
  <2>5. EachScan(r, s, count, n)
    BY <2>4 DEF EachScan
  <2>6. \A f : IsAll(f) <=> IsAllScans(f, r, n)
    <3>1. \A i \in 0 .. n : r[i] = scan(i)
      BY <2>1
    <3>. HIDE DEF scan
    <3>2. ASSUME NEW f PROVE [i \in 0 .. n |-> scan(i).met \o IF scan(i).index = 0 THEN <<>> ELSE f[scan(i).index]]
                 = [i \in 0 .. n |-> r[i].met \o IF r[i].index = 0 THEN <<>> ELSE f[r[i].index]]
      BY <3>1
    <3>. QED  BY <3>2 DEF IsAllScans
  <2>7. \E f : IsAllScans(f, r, n)
    BY <2>2, <2>5, AllScansExist
  <2>8. IsAll(all)
    <3>. HIDE DEF IsAll
    <3>. QED  BY <2>6, <2>7
  <2>9. ASSUME n > 0
        PROVE  /\ Seqs!IsPrefix(all[0], Order(l))
               /\ Len(all[0]) = IF n > 1 /\ (n - 1) % count = 0 THEN n - 1 ELSE n
    <3>. HIDE DEF IsAll, all
    <3>1. IsAllScans(all, r, n)
      BY <2>6, <2>8
    <3>2. AllMet(all, s, count, n)
      BY <2>2, <2>5, <3>1, AllScansAre
    <3>3. PICK x : x = all[0]
      OBVIOUS
    <3>4. x = ScansMet(s, count, 0)
      BY <2>2, <3>2, <3>3 DEF AllMet
    <3>5. Seqs!IsPrefix(x, s) /\ Len(x) = IF n > 1 /\ (n - 1) % count = 0 THEN n - 1 ELSE n
      BY <2>2, <2>9, <3>4, FirstScans
    <3>. QED  BY <2>3, <3>3, <3>5
  <2>. QED  BY <2>9, Zenon DEF n, all, scan
<1>. QED  BY <1>2, Zenon DEF ScanProgress

(* ScanProgress: scans that go on where the last one ended meet every      *)
(* entry once, in order, but the last if it is the only one left.          *)
THEOREM ScansProgress == Spec => []ScanProgress
<1>1. DLInv => ScanProgress
  BY InvScanProgress
<1>. QED  BY <1>1, Always, PTL

-----------------------------------------------------------------------------
(* DmbDLList implements DmbDLListSpec.                                     *)

(* What the entries of s point to.                                         *)
Pointed(b, s) == [k \in 1 .. Len(s) |-> b[s[k]]]

IsPointed(x, M, b, s) ==
  /\ x \in Seq(M) /\ Len(x) = Len(s)
  /\ \A k \in 1 .. Len(s) : k \in 1 .. Len(x) /\ x[k] = b[s[k]] /\ x[k] \in M

LEMMA PointedIs ==
  ASSUME NEW N, NEW s, s \in Seq(N), NEW b, NEW M, \A e \in Of(s) : b[e] \in M, NEW x, x = Pointed(b, s)
  PROVE  IsPointed(x, M, b, s)
<1>1. PICK n \in Nat : n = Len(s)
  OBVIOUS
<1>2. \A k \in 1 .. n : s[k] \in Of(s)
  BY <1>1 DEF Of
<1>3. x = [k \in 1 .. n |-> b[s[k]]]
  BY <1>1 DEF Pointed
<1>4. x \in [1 .. n -> M]
  BY <1>2, <1>3
<1>5. x \in Seq(M) /\ Len(x) = n
  BY <1>1, <1>4
<1>. QED  BY <1>1, <1>3, <1>4, <1>5 DEF IsPointed

(* What it points to is all that counts of b.                              *)
LEMMA PointedAlike ==
  ASSUME NEW b, NEW c, NEW s, \A e \in Of(s) : b[e] = c[e]
  PROVE  Pointed(b, s) = Pointed(c, s)
BY DEF Pointed, Of

(* A range that is cut out of the entries is cut out of what they point to. *)
PointsInto(b, s, M) == \A e \in Of(s) : b[e] \in M

CutsPointed(b, s, i, j) == Pointed(b, Cut(s, i, j)) = Cut(Pointed(b, s), i, j)

LEMMA PointedCut ==
  ASSUME NEW N, NEW s, s \in Seq(N), NEW b, NEW M, PointsInto(b, s, M),
         NEW i, i \in Nat, NEW j, j \in Nat, i <= j, j <= Len(s)
  PROVE  CutsPointed(b, s, i, j)
<1>1. PICK x, t, y, d, n : /\ x = Pointed(b, s) /\ t = Cut(s, i, j) /\ y = Cut(x, i, j)
                           /\ d = j - i /\ n = Len(s)
  OBVIOUS
<1>2. PICK r : r = NULL
  OBVIOUS
<1>3. IsPointed(x, M, b, s)
  BY <1>1, PointedIs DEF PointsInto
<1>4. /\ x \in Seq(M) /\ Len(x) = n /\ (\A k \in 1 .. n : x[k] = b[s[k]])
      /\ n \in Nat /\ d \in Nat /\ d <= n /\ i <= n - d /\ n - d \in Nat
  BY <1>1, <1>3 DEF IsPointed
<1>5. IsCut(t, N, s, i, d)
  BY <1>1, CutOut
<1>6. IsCut(y, M, x, i, d)
  <2>1. j <= Len(x)
    BY <1>1, <1>4
  <2>. QED  BY <1>1, <1>4, <2>1, CutOut
<1>7. t \in Seq(N) /\ Len(t) = n - d /\ y \in Seq(M) /\ Len(y) = n - d
  BY <1>1, <1>4, <1>5, <1>6 DEF IsCut
<1>8. ASSUME NEW k \in 1 .. n - d PROVE y[k] = b[t[k]]
  <2>1. PICK m : m = IF k <= i THEN k ELSE k + d
    OBVIOUS
  <2>2. m \in 1 .. n /\ k \in 0 .. n - d + 1
    BY <1>1, <1>4, <2>1
  <2>3. At(r, t, k) = At(r, s, m) /\ At(r, y, k) = At(r, x, m)
    BY <1>1, <1>4, <1>5, <1>6, <2>1, <2>2 DEF IsCut
  <2>4. t[k] = s[m] /\ y[k] = x[m]
    BY <1>1, <1>4, <1>7, <2>2, <2>3 DEF At
  <2>. QED  BY <1>4, <2>2, <2>4
<1>9. y = [k \in 1 .. n - d |-> b[t[k]]]
  <2>1. y \in [1 .. n - d -> M]
    BY <1>7
  <2>. QED  BY <1>8, <2>1
<1>10. Pointed(b, t) = [k \in 1 .. n - d |-> b[t[k]]]
  BY <1>7 DEF Pointed
<1>. QED  BY <1>1, <1>9, <1>10 DEF CutsPointed

PointedMore(b, s, e) ==
  /\ Pointed(b, Append(s, e)) = Append(Pointed(b, s), b[e])
  /\ Pointed(b, <<e>> \o s) = <<b[e]>> \o Pointed(b, s)

LEMMA PointedPush ==
  ASSUME NEW N, NEW s, s \in Seq(N), NEW b, NEW M, \A e \in Of(s) : b[e] \in M, NEW e, e \in N, b[e] \in M
  PROVE  PointedMore(b, s, e)
<1>1. PICK x, o : x = Pointed(b, s) /\ o = b[e]
  OBVIOUS
<1>2. IsPointed(x, M, b, s)
  BY <1>1, PointedIs
<1>3. PICK n \in Nat : n = Len(s)
  OBVIOUS
<1>4. x \in Seq(M) /\ Len(x) = n /\ (\A k \in 1 .. n : x[k] = b[s[k]])
  BY <1>2, <1>3 DEF IsPointed
<1>5. Pointed(b, Append(s, e)) = Append(x, o)
  <2>1. PICK t, y : t = Append(s, e) /\ y = Append(x, o)
    OBVIOUS
  <2>2. /\ Len(t) = n + 1 /\ t[n + 1] = e /\ \A k \in 1 .. n : t[k] = s[k]
    BY <1>3, <2>1
  <2>7. y \in Seq(M) /\ Len(y) = n + 1 /\ y[n + 1] = o /\ \A k \in 1 .. n : y[k] = x[k]
    <3>1. o \in M
      BY <1>1
    <3>. QED  BY <1>3, <1>4, <2>1, <3>1, AppendProperties
  <2>3. y \in [1 .. n + 1 -> M] /\ y[n + 1] = o /\ \A k \in 1 .. n : y[k] = x[k]
    BY <1>3, <2>7
  <2>4. \A k \in 1 .. n + 1 : k \in 1 .. n \/ k = n + 1
    BY <1>3
  <2>5. \A k \in 1 .. n + 1 : y[k] = b[t[k]]
    BY <1>1, <1>4, <2>2, <2>3, <2>4
  <2>6. y = [k \in 1 .. n + 1 |-> b[t[k]]]
    BY <2>3, <2>5
  <2>. QED  BY <2>1, <2>2, <2>6 DEF Pointed
<1>6. Pointed(b, <<e>> \o s) = <<o>> \o x
  <2>1. PICK t, y, u, v : u = <<e>> /\ v = <<o>> /\ t = u \o s /\ y = v \o x
    OBVIOUS
  <2>2. u \in Seq(N) /\ Len(u) = 1 /\ u[1] = e /\ v \in Seq(M) /\ Len(v) = 1 /\ v[1] = o
    BY <1>1, <2>1
  <2>3. /\ t \in Seq(N) /\ Len(t) = Len(u) + Len(s)
        /\ \A k \in 1 .. Len(u) + Len(s) : t[k] = IF k <= Len(u) THEN u[k] ELSE s[k - Len(u)]
    BY <2>1, <2>2, ConcatProperties
  <2>4. /\ y \in Seq(M) /\ Len(y) = Len(v) + Len(x)
        /\ \A k \in 1 .. Len(v) + Len(x) : y[k] = IF k <= Len(v) THEN v[k] ELSE x[k - Len(v)]
    BY <1>4, <2>1, <2>2, ConcatProperties
  <2>5. Len(t) = n + 1 /\ Len(y) = n + 1
    BY <1>3, <1>4, <2>2, <2>3, <2>4
  <2>6. ASSUME NEW k \in 1 .. n + 1 PROVE y[k] = b[t[k]]
    <3>1. CASE k <= 1
      <4>1. k = 1 /\ k \in 1 .. 1 + n
        BY <1>3, <3>1
      <4>2. y[1] = o /\ t[1] = e
        BY <1>3, <1>4, <2>2, <2>3, <2>4, <4>1
      <4>. QED  BY <1>1, <4>1, <4>2
    <3>2. CASE ~(k <= 1)
      <4>1. k - 1 \in 1 .. n /\ k \in 1 .. 1 + n
        BY <1>3, <3>2
      <4>2. y[k] = x[k - 1] /\ t[k] = s[k - 1]
        BY <1>3, <1>4, <2>2, <2>3, <2>4, <3>2, <4>1
      <4>. QED  BY <1>4, <4>1, <4>2
    <3>. QED  BY <3>1, <3>2
  <2>7. y \in [1 .. n + 1 -> M]
    BY <1>3, <2>4, <2>5
  <2>8. y = [k \in 1 .. n + 1 |-> b[t[k]]]
    BY <2>6, <2>7
  <2>9. Pointed(b, t) = [k \in 1 .. n + 1 |-> b[t[k]]]
    BY <2>5 DEF Pointed
  <2>. QED  BY <2>1, <2>8, <2>9
<1>. QED  BY <1>1, <1>5, <1>6 DEF PointedMore

(* The contents of the lists.                                              *)
ContentsAre(h, n, b, os) ==
  \A l \in List : LET w == Walk(h, l, n[l], TRUE) IN [k \in DOMAIN w |-> b[w[k]]] = Pointed(b, os[l])

LEMMA ContentsOf ==
  ASSUME NEW h, NEW n, NEW os, Listed(h, n, os), NEW b
  PROVE  ContentsAre(h, n, b, os)
<1>. SUFFICES ASSUME NEW l \in List, NEW w, w = Walk(h, l, n[l], TRUE)
              PROVE  [k \in DOMAIN w |-> b[w[k]]] = Pointed(b, os[l])
  BY DEF ContentsAre
<1>1. ListAt(h, n, os, l)
  BY ListIs
<1>2. w = os[l] /\ os[l] \in Seq(Entry)
  BY <1>1 DEF ListAt, OnHeap
<1>3. PICK s \in Seq(Entry) : s = os[l]
  BY <1>2
<1>4. DOMAIN s = 1 .. Len(s)
  OBVIOUS
<1>. QED  BY <1>2, <1>3, <1>4 DEF Pointed

Contents == [l \in List |-> Content(l)]

LEMMA ContentsMove ==
  ASSUME NEW os, Listed(heap, len, os), NEW os2, Listed(heap', len', os2)
  PROVE  /\ Contents = [l \in List |-> Pointed(obj, os[l])]
         /\ Contents' = [l \in List |-> Pointed(obj', os2[l])]
<1>1. ContentsAre(heap, len, obj, os)
  BY ContentsOf
<1>2. ContentsAre(heap', len', obj', os2)
  BY ContentsOf
<1>3. \A l \in List : Content(l) = Pointed(obj, os[l])
  BY <1>1 DEF ContentsAre, Content, Order
<1>4. \A l \in List : Content(l)' = Pointed(obj', os2[l])
  BY <1>2 DEF ContentsAre, Content, Order
<1>. QED  BY <1>3, <1>4 DEF Contents

(* A change of the list l to s.                                            *)
LEMMA OneContentMoves ==
  ASSUME NEW os, Listed(heap, len, os), NEW l, l \in List, NEW s, NEW E, Changed(heap', len', os, l, s, E),
         \A m \in List : m # l => \A e \in Of(os[m]) : obj'[e] = obj[e]
  PROVE  /\ Contents = [m \in List |-> Pointed(obj, os[m])]
         /\ Contents' = [Contents EXCEPT ![l] = Pointed(obj', s)]
<1>1. PICK os2 : os2 = [os EXCEPT ![l] = s]
  OBVIOUS
<1>2. Listed(heap', len', os2) /\ os \in [List -> Seq(Entry)]
  BY <1>1 DEF Changed, Listed, Shape
<1>3. /\ Contents = [m \in List |-> Pointed(obj, os[m])]
      /\ Contents' = [m \in List |-> Pointed(obj', os2[m])]
  BY <1>2, ContentsMove
<1>4. ASSUME NEW m \in List, m # l PROVE Pointed(obj', os2[m]) = Pointed(obj, os[m])
  <2>1. PICK q, b, c : q = os[m] /\ b = obj' /\ c = obj
    OBVIOUS
  <2>2. os2[m] = q /\ \A e \in Of(q) : b[e] = c[e]
    BY <1>1, <1>2, <1>4, <2>1
  <2>3. Pointed(b, q) = Pointed(c, q)
    BY <2>2, PointedAlike
  <2>. QED  BY <2>1, <2>2, <2>3
<1>5. os2[l] = s
  BY <1>1, <1>2
<1>. QED  BY <1>3, <1>4, <1>5

(* Entries in no list change.                                              *)
LEMMA ContentsStay ==
  ASSUME NEW os, Listed(heap, len, os), Listed(heap', len', os),
         \A m \in List : \A e \in Of(os[m]) : obj'[e] = obj[e]
  PROVE  Contents' = Contents
<1>1. /\ Contents = [m \in List |-> Pointed(obj, os[m])]
      /\ Contents' = [m \in List |-> Pointed(obj', os[m])]
  BY ContentsMove
<1>2. ASSUME NEW m \in List PROVE Pointed(obj', os[m]) = Pointed(obj, os[m])
  <2>1. PICK q, b, c : q = os[m] /\ b = obj' /\ c = obj
    OBVIOUS
  <2>2. \A e \in Of(q) : b[e] = c[e]
    BY <2>1
  <2>3. Pointed(b, q) = Pointed(c, q)
    BY <2>2, PointedAlike
  <2>. QED  BY <2>1, <2>3
<1>. QED  BY <1>1, <1>2

-----------------------------------------------------------------------------
(* A call works on lists of its thread.                                    *)
Mine(q, t) == \A k \in DOMAIN q : q[k].l # NULL => Owner[q[k].l] = t
OwnInv == \A t \in Thread : Mine(todo[t], t)

LEMMA OwnStays ==
  ASSUME WorkInv, OwnInv, NEW t, t \in Thread, NEW q, todo' = [todo EXCEPT ![t] = q], Mine(q, t)
  PROVE  OwnInv'
<1>1. \A u \in Thread : todo'[u] = IF u = t THEN q ELSE todo[u]
  BY DEF WorkInv
<1>. QED  BY <1>1 DEF OwnInv

(* The work begins with w, and goes on as before or not at all.            *)
LEMMA OwnGoesOn ==
  ASSUME WorkInv, OwnInv, NEW t, t \in Thread, todo[t] # <<>>, NEW w, w \in Seq(ItemSet), Mine(w, t), Done(t, w)
  PROVE  OwnInv'
<1>1. PICK q, p, n : q = todo[t] /\ p = Tail(q) /\ n = w \o p
  OBVIOUS
<1>2. q \in Seq(ItemSet) /\ q # <<>> /\ Mine(q, t) /\ todo' = [todo EXCEPT ![t] = n]
  BY <1>1 DEF WorkInv, OwnInv, Done
<1>3. p \in Seq(ItemSet) /\ Len(p) = Len(q) - 1 /\ \A k \in 1 .. Len(p) : p[k] = q[k + 1]
  BY <1>1, <1>2, HeadTailProperties
<1>4. /\ n \in Seq(ItemSet) /\ Len(n) = Len(w) + Len(p)
      /\ \A k \in 1 .. Len(w) + Len(p) : n[k] = IF k <= Len(w) THEN w[k] ELSE p[k - Len(w)]
  BY <1>1, <1>3, ConcatProperties
<1>5. ASSUME NEW k \in DOMAIN n, n[k].l # NULL PROVE Owner[n[k].l] = t
  <2>1. k \in 1 .. Len(w) + Len(p) /\ Len(w) \in Nat /\ Len(p) \in Nat
    BY <1>3, <1>4
  <2>2. CASE k <= Len(w)
    <3>1. n[k] = w[k] /\ k \in DOMAIN w
      BY <1>4, <2>1, <2>2
    <3>. QED  BY <1>5, <3>1 DEF Mine
  <2>3. CASE ~(k <= Len(w))
    <3>1. k - Len(w) \in 1 .. Len(p) /\ k - Len(w) + 1 \in 1 .. Len(q)
      BY <1>2, <1>3, <2>1, <2>3
    <3>3. n[k] = p[k - Len(w)]
      BY <1>4, <2>1, <2>3
    <3>4. p[k - Len(w)] = q[k - Len(w) + 1]
      BY <1>3, <3>1
    <3>5. k - Len(w) + 1 \in DOMAIN q
      BY <1>2, <3>1
    <3>2. n[k] = q[k - Len(w) + 1] /\ k - Len(w) + 1 \in DOMAIN q
      BY <3>3, <3>4, <3>5
    <3>. QED  BY <1>2, <1>5, <3>2 DEF Mine
  <2>. QED  BY <2>2, <2>3
<1>6. Mine(n, t)
  BY <1>5 DEF Mine
<1>. QED  BY <1>2, <1>6, OwnStays

LEMMA OwnCalls ==
  ASSUME WorkInv, OwnInv, NEW t, t \in Thread, NEW q, Call(t, q), Mine(q, t)
  PROVE  OwnInv'
<1>1. todo' = [todo EXCEPT ![t] = q]
  BY DEF Call
<1>. QED  BY <1>1, OwnStays

LEMMA OwnEnds ==
  ASSUME WorkInv, OwnInv, NEW t, t \in Thread, todo[t] # <<>>, Done(t, <<>>)
  PROVE  OwnInv'
<1>1. PICK w : w = <<>> /\ Done(t, w)
  OBVIOUS
<1>2. w \in Seq(ItemSet) /\ Mine(w, t)
  BY <1>1 DEF Mine
<1>. QED  BY <1>1, <1>2, OwnGoesOn

LEMMA OwnFails ==
  ASSUME WorkInv, OwnInv, NEW t, t \in Thread, Failed(t)
  PROVE  OwnInv'
<1>1. PICK q : q = <<>>
  OBVIOUS
<1>2. todo' = [todo EXCEPT ![t] = q] /\ Mine(q, t)
  BY <1>1 DEF Failed, Mine
<1>. QED  BY <1>2, OwnStays

LEMMA OneMine ==
  ASSUME NEW t, NEW y, y.l # NULL => Owner[y.l] = t, NEW q, q = <<y>>
  PROVE  Mine(q, t)
<1>1. DOMAIN q = {1} /\ q[1] = y
  OBVIOUS
<1>. QED  BY <1>1 DEF Mine

(* Items of no list.                                                       *)
Listless(q) == \A k \in DOMAIN q : q[k].l = NULL

LEMMA OwnNoList ==
  ASSUME NEW t, NEW q, Listless(q)
  PROVE  Mine(q, t)
BY DEF Listless, Mine

LEMMA DestroyListless == \A met : Listless(destroyEntry(met))
BY DEF Listless, destroyEntry, Item

LEMMA DestructionListless ==
  ASSUME NEW o, o \in Obj, NEW w, w = Destruction(o)
  PROVE  Listless(w) /\ w \in Seq(ItemSet)
<1>1. PICK y : y = DestroyItem(o)
  OBVIOUS
<1>2. y = [act |-> "destroy", l |-> NULL, atBack |-> TRUE, e |-> NULL, o |-> o]
  BY <1>1 DEF DestroyItem, Item
<1>3. y.l = NULL /\ y \in ItemSet
  BY <1>2 DEF ItemSet, PushActs
<1>4. CASE ref[o] = 1
  <2>1. w = <<y>>
    BY <1>1, <1>4 DEF Destruction
  <2>. QED  BY <1>3, <2>1 DEF Listless
<1>5. CASE ref[o] # 1
  <2>1. w = <<>>
    BY <1>5 DEF Destruction
  <2>. QED  BY <2>1 DEF Listless
<1>. QED  BY <1>4, <1>5

LEMMA PushesMine ==
  ASSUME NEW t, NEW l, Owner[l] = t, NEW es, NEW q, q = Pushes(l, es)
  PROVE  Mine(q, t)
BY DEF Mine, Pushes, PushItem, Item

LEMMA OwnListCall ==
  ASSUME DLInv, OwnInv, NEW t, t \in Thread, NEW l, l \in List, Owner[l] = t,
         \/ \E atBack \in BOOLEAN : \/ \E o \in Obj : dmbDLListPush(t, l, atBack, o)
                                    \/ dmbDLListPop(t, l, atBack)
         \/ \E i, j \in 0 .. len[l] :
              \/ dmbDLListRemoveRange(t, l, i, j)
              \/ \E dest \in {m \in List : Owner[m] = t} \ {l} :
                   dmbDLListGetRange(t, l, i, j, dest) \/ dmbDLListScan(t, l, i, j, dest)
         \/ dmbDLListClear(t, l)
  PROVE  OwnInv'
<1>. WorkInv
  BY DEF DLInv
<1>1. ASSUME NEW atBack \in BOOLEAN, NEW o \in Obj, dmbDLListPush(t, l, atBack, o) PROVE OwnInv'
  <2>1. PICK y, q : y = PushItem(l, atBack, o) /\ q = <<y>>
    OBVIOUS
  <2>2. Call(t, q) /\ y.l = l
    BY <1>1, <2>1 DEF dmbDLListPush, PushItem, Item
  <2>3. Mine(q, t)
    BY <2>1, <2>2, OneMine
  <2>. QED  BY <2>2, <2>3, OwnCalls
<1>2. ASSUME NEW atBack \in BOOLEAN, dmbDLListPop(t, l, atBack) PROVE OwnInv'
  <2>1. PICK e : Call(t, <<Item("free", NULL, TRUE, e, NULL)>>)
    BY <1>2 DEF dmbDLListPop
  <2>2. PICK y, q : y = Item("free", NULL, TRUE, e, NULL) /\ q = <<y>>
    OBVIOUS
  <2>3. Call(t, q) /\ y.l = NULL
    BY <2>1, <2>2 DEF Item
  <2>4. Mine(q, t)
    BY <2>2, <2>3, OneMine
  <2>. QED  BY <2>3, <2>4, OwnCalls
<1>3. ASSUME NEW met, Call(t, destroyEntry(met)) PROVE OwnInv'
  <2>1. PICK q : q = destroyEntry(met)
    OBVIOUS
  <2>2. Call(t, q) /\ Mine(q, t)
    BY <1>3, <2>1, DestroyListless, OwnNoList
  <2>. QED  BY <2>2, OwnCalls
<1>4. ASSUME NEW i, NEW j, dmbDLListRemoveRange(t, l, i, j) PROVE OwnInv'
  BY <1>3, <1>4 DEF dmbDLListRemoveRange
<1>5. ASSUME dmbDLListClear(t, l) PROVE OwnInv'
  BY <1>3, <1>5 DEF dmbDLListClear
<1>6. ASSUME NEW es, NEW dest, Owner[dest] = t, Call(t, Pushes(dest, es)) PROVE OwnInv'
  <2>1. PICK q : q = Pushes(dest, es)
    OBVIOUS
  <2>2. Call(t, q) /\ Mine(q, t)
    BY <1>6, <2>1, PushesMine
  <2>. QED  BY <2>2, OwnCalls
<1>7. ASSUME NEW i, NEW j, NEW dest \in {m \in List : Owner[m] = t} \ {l},
             dmbDLListGetRange(t, l, i, j, dest) \/ dmbDLListScan(t, l, i, j, dest)
      PROVE  OwnInv'
  BY <1>6, <1>7 DEF dmbDLListGetRange, dmbDLListScan
<1>. QED  BY <1>1, <1>2, <1>4, <1>5, <1>7

LEMMA OwnStep ==
  ASSUME DLInv, OwnInv, NEW t, t \in Thread, Step(t)
  PROVE  OwnInv'
<1>. WorkInv
  BY DEF DLInv
<1>1. ASSUME dmbCreateIntObject(t) PROVE OwnInv'
  <2>1. PICK y, q : y = CreateItem /\ q = <<y>>
    OBVIOUS
  <2>2. Call(t, q) /\ y.l = NULL
    BY <1>1, <2>1 DEF dmbCreateIntObject, CreateItem, Item
  <2>3. Mine(q, t)
    BY <2>1, <2>2, OneMine
  <2>. QED  BY <2>2, <2>3, OwnCalls
<1>2. ASSUME NEW o \in Obj, dmbObjectRelease(t, o) PROVE OwnInv'
  <2>1. PICK q : q = Destruction(o)
    OBVIOUS
  <2>2. Call(t, q) /\ Listless(q)
    BY <1>2, <2>1, DestructionListless DEF dmbObjectRelease
  <2>3. Mine(q, t)
    BY <2>2, OwnNoList
  <2>. QED  BY <2>2, <2>3, OwnCalls
<1>3. ASSUME NEW o \in Obj, NEW u \in Thread, dmbObjectRetain(t, u, o) PROVE OwnInv'
  <2>1. PICK q : q = <<>>
    OBVIOUS
  <2>2. Call(t, q) /\ Mine(q, t)
    BY <1>3, <2>1 DEF dmbObjectRetain, Mine
  <2>. QED  BY <2>2, OwnCalls
<1>4. ASSUME CheckCurrentMemoryUsage(t) PROVE OwnInv'
  <2>1. PICK x, y, w : x = Head(todo[t]) /\ y = [x EXCEPT !.act = "malloc"] /\ w = <<y>>
    OBVIOUS
  <2>2. todo[t] # <<>> /\ (Done(t, w) \/ Failed(t))
    BY <1>4, <2>1 DEF CheckCurrentMemoryUsage, Doing
  <2>3. x \in ItemSet /\ (x.l # NULL => Owner[x.l] = t)
    <3>1. todo[t] \in Seq(ItemSet) /\ Mine(todo[t], t)
      BY DEF WorkInv, OwnInv
    <3>2. 1 \in DOMAIN todo[t] /\ x = todo[t][1] /\ x \in ItemSet
      BY <2>1, <2>2, <3>1
    <3>. QED  BY <3>1, <3>2 DEF Mine
  <2>4. y \in ItemSet /\ y.l = x.l
    BY <2>1, <2>3 DEF ItemSet, PushActs
  <2>5. w \in Seq(ItemSet) /\ Mine(w, t)
    <3>1. y.l # NULL => Owner[y.l] = t
      BY <2>3, <2>4
    <3>2. w \in Seq(ItemSet)
      BY <2>1, <2>4
    <3>. QED  BY <2>1, <3>1, <3>2, OneMine
  <2>6. CASE Done(t, w)
    BY <2>2, <2>5, <2>6, OwnGoesOn
  <2>7. CASE Failed(t)
    BY <2>7, OwnFails
  <2>. QED  BY <2>2, <2>6, <2>7
<1>5. ASSUME NEW o \in Obj, MallocObject(t, o) PROVE OwnInv'
  BY <1>5, OwnEnds DEF MallocObject, Doing
<1>6. ASSUME NEW e \in Entry, MallocEntry(t, e) PROVE OwnInv'
  <2>1. PICK x, y, w : x = Head(todo[t]) /\ y = [x EXCEPT !.act = "link", !.e = e] /\ w = <<y>>
    OBVIOUS
  <2>2. todo[t] # <<>> /\ Done(t, w)
    BY <1>6, <2>1 DEF MallocEntry, Doing
  <2>3. x \in ItemSet /\ (x.l # NULL => Owner[x.l] = t)
    <3>1. todo[t] \in Seq(ItemSet) /\ Mine(todo[t], t)
      BY DEF WorkInv, OwnInv
    <3>2. 1 \in DOMAIN todo[t] /\ x = todo[t][1] /\ x \in ItemSet
      BY <2>1, <2>2, <3>1
    <3>. QED  BY <3>1, <3>2 DEF Mine
  <2>4. y \in ItemSet /\ y.l = x.l
    <3>1. PICK z : z = [x EXCEPT !.act = "link"]
      OBVIOUS
    <3>2. z \in ItemSet /\ z.l = x.l
      BY <2>3, <3>1 DEF ItemSet, PushActs
    <3>3. y = [z EXCEPT !.e = e]
      BY <2>1, <3>1
    <3>. QED  BY <3>2, <3>3 DEF ItemSet
  <2>5. w \in Seq(ItemSet) /\ Mine(w, t)
    <3>1. y.l # NULL => Owner[y.l] = t
      BY <2>3, <2>4
    <3>2. w \in Seq(ItemSet)
      BY <2>1, <2>4
    <3>. QED  BY <2>1, <3>1, <3>2, OneMine
  <2>. QED  BY <2>2, <2>5, OwnGoesOn
<1>7. ASSUME MallocFails(t) PROVE OwnInv'
  BY <1>7, OwnFails DEF MallocFails
<1>8. ASSUME Link(t) PROVE OwnInv'
  BY <1>8, OwnEnds DEF Link, Doing
<1>9. ASSUME ReleaseEntry(t) PROVE OwnInv'
  <2>1. PICK q, x, o, w : q = todo[t] /\ x = Head(q) /\ o = obj[x.e] /\ w = Destruction(o)
    OBVIOUS
  <2>2. q # <<>> /\ x.act = "release" /\ Done(t, w)
    BY <1>9, <2>1 DEF ReleaseEntry, Doing
  <2>3. o \in Obj
    <3>1. Work(q)
      BY <2>1 DEF WorkInv
    <3>2. Headed(q, x, Tail(q))
      BY <2>1, <2>2, <3>1, HeadOff
    <3>3. WellFormed(x) /\ ReleasedBy(x) \subseteq Releasing(q)
      BY <3>2 DEF Headed, Consists
    <3>4. x.e \in Entry /\ x.e \in ReleasedBy(x)
      BY <2>2, <3>3 DEF WellFormed, ItemSet, ReleasedBy
    <3>5. obj[x.e] # NULL /\ obj \in [Entry -> Obj \cup {NULL}]
      BY <2>1, <3>3, <3>4 DEF DLInv, EntriesHold
    <3>. QED  BY <2>1, <3>4, <3>5
  <2>4. w \in Seq(ItemSet) /\ Mine(w, t)
    <3>1. Listless(w) /\ w \in Seq(ItemSet)
      BY <2>1, <2>3, DestructionListless
    <3>. QED  BY <3>1, OwnNoList
  <2>. QED  BY <2>1, <2>2, <2>4, OwnGoesOn
<1>10. ASSUME FreeEntry(t) PROVE OwnInv'
  BY <1>10, OwnEnds DEF FreeEntry, Doing
<1>11. ASSUME dmbDestroyIntObject(t) PROVE OwnInv'
  BY <1>11, OwnEnds DEF dmbDestroyIntObject, Doing
<1>12. ASSUME NEW l \in List, Owner[l] = t,
         \/ \E atBack \in BOOLEAN : \/ \E o \in Obj : dmbDLListPush(t, l, atBack, o)
                                    \/ dmbDLListPop(t, l, atBack)
         \/ \E i, j \in 0 .. len[l] :
              \/ dmbDLListRemoveRange(t, l, i, j)
              \/ \E dest \in {m \in List : Owner[m] = t} \ {l} :
                   dmbDLListGetRange(t, l, i, j, dest) \/ dmbDLListScan(t, l, i, j, dest)
         \/ dmbDLListClear(t, l)
       PROVE  OwnInv'
  BY <1>12, OwnListCall, Zenon
<1>. QED  BY <1>1, <1>2, <1>3, <1>4, <1>5, <1>6, <1>7, <1>8, <1>9, <1>10, <1>11, <1>12, Zenon DEF Step

LEMMA AlwaysOwn == Spec => [](DLInv /\ OwnInv)
<1>1. Init => DLInv /\ OwnInv
  <2>1. ASSUME Init PROVE OwnInv
    <3>1. \A t \in Thread : todo[t] = <<>>
      BY <2>1 DEF Init
    <3>. QED  BY <3>1 DEF OwnInv, Mine
  <2>. QED  BY <2>1, DLInvBegins
<1>2. DLInv /\ OwnInv /\ [Next]_vars => (DLInv /\ OwnInv)'
  <2>1. ASSUME DLInv, OwnInv, NEW t \in Thread, Step(t) PROVE OwnInv'
    BY <2>1, OwnStep
  <2>2. ASSUME OwnInv, UNCHANGED vars PROVE OwnInv'
    BY <2>2 DEF OwnInv, vars
  <2>. QED  BY <2>1, <2>2, DLInvStep, DLInvStays DEF Next
<1>. QED  BY <1>1, <1>2, PTL DEF Spec

-----------------------------------------------------------------------------
(* Step by step.                                                           *)
LEMMA KnownIs ==
  ASSUME NEW t, NEW o, o \in Obj
  PROVE  o \in Promise!Known(t) <=> Holds(t, o)
<1>1. ASSUME NEW l \in List PROVE o \in Promise!Elements(l) <=> \E e \in Linked(l) : obj[e] = o
  <2>1. PICK s, x : s = Order(l) /\ x = [k \in DOMAIN s |-> obj[s[k]]]
    OBVIOUS
  <2>2. Linked(l) = {s[k] : k \in DOMAIN s} /\ Content(l) = x
    BY <2>1 DEF Linked, Content
  <2>3. Promise!Elements(l) = {x[k] : k \in DOMAIN x}
    BY <2>2 DEF Promise!Elements
  <2>4. DOMAIN x = DOMAIN s /\ \A k \in DOMAIN s : x[k] = obj[s[k]]
    BY <2>1
  <2>. QED  BY <2>2, <2>3, <2>4
<1>. QED  BY <1>1 DEF Promise!Known, Holds

LEMMA StutterStays ==
  ASSUME UNCHANGED <<listVars, obj>>
  PROVE  Contents' = Contents
<1>1. heap' = heap /\ len' = len /\ obj' = obj
  BY DEF listVars
<1>2. \A l \in List : Content(l)' = Content(l)
  BY <1>1 DEF Content, Order
<1>. QED  BY <1>2 DEF Contents

(* The lists, and what their entries hold.                                 *)
AllHold(os) == \A l \in List : os[l] \in Seq(Entry) /\ \A e \in Of(os[l]) : e \in Entry /\ e \in Placed /\ obj[e] \in Obj

LEMMA ListedHold ==
  ASSUME DLInv, NEW os, Listed(heap, len, os)
  PROVE  AllHold(os)
<1>. SUFFICES ASSUME NEW l \in List
              PROVE  os[l] \in Seq(Entry) /\ \A e \in Of(os[l]) : e \in Entry /\ e \in Placed /\ obj[e] \in Obj
  BY DEF AllHold
<1>1. Linked(l) = Of(os[l]) /\ Linked(l) \subseteq Entry /\ os[l] \in Seq(Entry)
  BY LinkedIs
<1>2. \A e \in Of(os[l]) : e \in Entry /\ e \in Placed
  BY <1>1 DEF Placed
<1>3. \A e \in Of(os[l]) : obj[e] \in Obj
  BY <1>2, PlacedHold DEF DLInv
<1>. QED  BY <1>1, <1>2, <1>3

LEMMA LinkPushes ==
  ASSUME DLInv, OwnInv, NEW t, t \in Thread, Link(t)
  PROVE  \E l \in {m \in List : Owner[m] = t} : \E o \in Obj : Promise!Push(t, l, o)
<1>1. PICK q, x, p, e, o, l : q = todo[t] /\ x = Head(q) /\ p = Tail(q) /\ e = x.e /\ o = x.o /\ l = x.l
  OBVIOUS
<1>2. /\ q # <<>> /\ x.act = "link" /\ obj' = [obj EXCEPT ![e] = o]
      /\ heap' = (IF x.atBack THEN dmbListPushBack(heap, l, e) ELSE dmbListPushFront(heap, l, e))
      /\ len' = [len EXCEPT ![l] = @ + 1] /\ held' = held
  BY <1>1 DEF Link, Doing
<1>3. Work(q)
  BY <1>1 DEF DLInv, WorkInv
<1>4. Headed(q, x, p)
  BY <1>1, <1>2, <1>3, HeadOff
<1>5. e \in Entry /\ o \in Obj /\ l \in List /\ x.l # NULL
  <2>1. WellFormed(x)
    BY <1>4 DEF Headed
  <2>2. x.e # NULL /\ x.o # NULL /\ x.l # NULL /\ x \in ItemSet
    BY <1>2, <2>1 DEF WellFormed, PushActs
  <2>. QED  BY <1>1, <2>2 DEF ItemSet
<1>6. e \in Taken(q) /\ o \in Wanted(q)
  <2>1. e \in TakenBy(x) /\ o \in WantedBy(x)
    BY <1>1, <1>2, <1>5 DEF TakenBy, Takes, WantedBy, PushActs
  <2>. QED  BY <1>4, <2>1 DEF Headed, Consists
<1>7. e \notin Placed
  BY <1>1, <1>6 DEF DLInv, EntriesApart
<1>8. Owner[l] = t
  <2>1. q \in Seq(ItemSet) /\ Mine(q, t)
    BY <1>1 DEF DLInv, WorkInv, OwnInv
  <2>2. 1 \in DOMAIN q /\ x = q[1]
    BY <1>1, <1>2, <2>1
  <2>. QED  BY <1>1, <1>5, <2>1, <2>2 DEF Mine
<1>9. PICK os : Listed(heap, len, os)
  BY DEF DLInv, ListsInv
<1>10. \A m \in List : os[m] \in Seq(Entry) /\ \A a \in Of(os[m]) : a \in Entry /\ a # e /\ obj[a] \in Obj
  BY <1>7, <1>9, ListedHold DEF AllHold
<1>11. PICK s : s = (IF x.atBack THEN Append(os[l], e) ELSE <<e>> \o os[l])
  OBVIOUS
<1>12. Changed(heap', len', os, l, s, Of(os[l]) \cup {e})
  <2>1. PICK b, g, n : b = x.atBack /\ g = heap' /\ n = len'
    OBVIOUS
  <2>2. /\ g = (IF b THEN dmbListPushBack(heap, l, e) ELSE dmbListPushFront(heap, l, e))
        /\ n = [len EXCEPT ![l] = @ + 1]
        /\ s = (IF b THEN Append(os[l], e) ELSE <<e>> \o os[l])
    BY <1>2, <1>11, <2>1
  <2>3. \A m \in List : e \notin Of(os[m])
    BY <1>10
  <2>4. Changed(g, n, os, l, s, Of(os[l]) \cup {e})
    BY <1>5, <1>9, <2>2, <2>3, ListPush
  <2>. QED  BY <2>1, <2>4
<1>13. obj \in [Entry -> Obj \cup {NULL}]
  BY DEF DLInv, EntriesHold
<1>14. obj'[e] = o /\ \A a \in Entry : a # e => obj'[a] = obj[a]
  BY <1>2, <1>5, <1>13
<1>15. /\ Contents = [m \in List |-> Pointed(obj, os[m])]
       /\ Contents' = [Contents EXCEPT ![l] = Pointed(obj', s)]
  <2>1. \A m \in List : m # l => \A a \in Of(os[m]) : obj'[a] = obj[a]
    BY <1>10, <1>14
  <2>2. PICK E : E = Of(os[l]) \cup {e}
    OBVIOUS
  <2>. QED  BY <1>5, <1>9, <1>12, <2>1, <2>2, OneContentMoves
<1>16. PICK y : y = Pointed(obj, os[l])
  OBVIOUS
<1>17. Pointed(obj', s) = IF x.atBack THEN Append(y, o) ELSE <<o>> \o y
  <2>1. PICK b, r : b = obj' /\ r = os[l]
    OBVIOUS
  <2>2. r \in Seq(Entry) /\ (\A a \in Of(r) : b[a] \in Obj) /\ b[e] \in Obj /\ b[e] = o
    BY <1>5, <1>10, <1>14, <2>1
  <2>3. /\ Pointed(b, Append(r, e)) = Append(Pointed(b, r), b[e])
        /\ Pointed(b, <<e>> \o r) = <<b[e]>> \o Pointed(b, r)
    <3>1. PointedMore(b, r, e)
      BY <1>5, <2>2, PointedPush
    <3>. QED  BY <3>1 DEF PointedMore
  <2>4. Pointed(b, r) = y
    <3>1. PICK c : c = obj
      OBVIOUS
    <3>2. \A a \in Of(r) : b[a] = c[a]
      BY <1>5, <1>10, <1>14, <2>1, <3>1
    <3>3. Pointed(b, r) = Pointed(c, r)
      BY <3>2, PointedAlike
    <3>. QED  BY <1>16, <2>1, <3>1, <3>3
  <2>. QED  BY <1>11, <2>1, <2>2, <2>3, <2>4
<1>18. Contents[l] = y /\ (Contents' = [Contents EXCEPT ![l] = Append(y, o)] \/ Contents' = [Contents EXCEPT ![l] = <<o>> \o y])
  BY <1>5, <1>15, <1>16, <1>17
<1>19. \/ Contents' = [Contents EXCEPT ![l] = Append(@, o)]
       \/ Contents' = [Contents EXCEPT ![l] = <<o>> \o @]
  BY <1>18
<1>20. o \in Promise!Known(t)
  <2>1. Holds(t, o)
    BY <1>1, <1>6 DEF DLInv, WantedInv
  <2>. QED  BY <1>5, <2>1, KnownIs
<1>21. Promise!Push(t, l, o)
  BY <1>2, <1>19, <1>20, Zenon DEF Promise!Push, Contents
<1>. QED  BY <1>5, <1>8, <1>21

LEMMA CutEnds ==
  ASSUME NEW M, NEW x, x \in Seq(M), NEW n, n = Len(x), n > 0
  PROVE  Cut(x, n - 1, n) = SubSeq(x, 1, n - 1) /\ Cut(x, 0, 1) = Tail(x) /\ Cut(x, 0, n) = <<>>
<1>1. n \in Nat /\ n + 1 > n
  OBVIOUS
<1>2. SubSeq(x, n + 1, n) = <<>> /\ SubSeq(x, 1, 0) = <<>>
  BY <1>1, SubSeqEmpty
<1>3. SubSeq(x, 1, n - 1) \in Seq(M) /\ Tail(x) \in Seq(M) /\ Tail(x) = SubSeq(x, 2, n)
  <2>1. \A i \in 1 .. n - 1 : x[i] \in M
    BY <1>1
  <2>2. SubSeq(x, 1, n - 1) \in Seq(M)
    BY <1>1, <2>1, SubSeqProperties
  <2>3. x # <<>>
    BY <1>1
  <2>. QED  BY <2>2, <2>3, HeadTailProperties, TailIsSubSeq
<1>4. SubSeq(x, 1, n - 1) \o <<>> = SubSeq(x, 1, n - 1) /\ <<>> \o Tail(x) = Tail(x) /\ <<>> \o <<>> = <<>>
  BY <1>3, ConcatEmptySeq
<1>5. 1 + 1 = 2
  OBVIOUS
<1>6. Cut(x, n - 1, n) = SubSeq(x, 1, n - 1)
  BY <1>2, <1>4 DEF Cut
<1>7. Cut(x, 0, 1) = Tail(x)
  BY <1>2, <1>3, <1>4, <1>5 DEF Cut
<1>8. Cut(x, 0, n) = <<>>
  BY <1>2, <1>4 DEF Cut
<1>. QED  BY <1>6, <1>7, <1>8

LEMMA PopPops ==
  ASSUME DLInv, NEW t, t \in Thread, NEW l, l \in List, Owner[l] = t, NEW atBack, atBack \in BOOLEAN,
         dmbDLListPop(t, l, atBack)
  PROVE  Promise!Pop(t, l)
<1>1. PICK e, o : e = (IF atBack THEN LastNode(heap, l) ELSE FirstNode(heap, l)) /\ o = obj[e]
  OBVIOUS
<1>2. /\ ~dmbListIsEmpty(heap, l)
      /\ heap' = (IF atBack THEN dmbListPopBack(heap, l) ELSE dmbListPopFront(heap, l))
      /\ len' = [len EXCEPT ![l] = @ - 1] /\ held' = [held EXCEPT ![t][o] = @ + 1]
      /\ obj' = [obj EXCEPT ![e] = NULL]
  BY <1>1 DEF dmbDLListPop
<1>3. PICK os : Listed(heap, len, os)
  BY DEF DLInv, ListsInv
<1>4. PICK g, n : g = heap' /\ n = len'
  OBVIOUS
<1>5. Popped(heap, g, n, os, l, atBack, e)
  <2>1. g = (IF atBack THEN dmbListPopBack(heap, l) ELSE dmbListPopFront(heap, l)) /\ n = [len EXCEPT ![l] = @ - 1]
    BY <1>2, <1>4
  <2>. QED  BY <1>1, <1>2, <1>3, <2>1, ListPop
<1>6. /\ e \in Of(os[l]) /\ e = Ends(os[l], atBack) /\ os[l] # <<>>
      /\ \E s : /\ Changed(heap', len', os, l, s, Of(os[l]) \ {e})
                /\ s = IF atBack THEN Cut(os[l], Len(os[l]) - 1, Len(os[l])) ELSE Cut(os[l], 0, 1)
  BY <1>4, <1>5 DEF Popped
<1>7. PICK r, k : r = os[l] /\ k = Len(r)
  OBVIOUS
<1>8. PICK s : /\ Changed(heap', len', os, l, s, Of(r) \ {e})
               /\ s = IF atBack THEN Cut(r, k - 1, k) ELSE Cut(r, 0, 1)
  BY <1>6, <1>7
<1>9. \A m \in List : os[m] \in Seq(Entry) /\ \A a \in Of(os[m]) : a \in Entry /\ obj[a] \in Obj
  BY <1>3, ListedHold DEF AllHold
<1>10. r \in Seq(Entry) /\ k \in Nat /\ k > 0 /\ e = (IF atBack THEN r[k] ELSE r[1])
  BY <1>6, <1>7, <1>9 DEF Ends
<1>11. obj \in [Entry -> Obj \cup {NULL}]
  BY DEF DLInv, EntriesHold
<1>12. e \in Entry /\ \A a \in Entry : a # e => obj'[a] = obj[a]
  BY <1>2, <1>6, <1>9, <1>11
<1>13. /\ Contents = [m \in List |-> Pointed(obj, os[m])]
       /\ Contents' = [Contents EXCEPT ![l] = Pointed(obj', s)]
  <2>1. \A m \in List : m # l => Of(os[l]) \cap Of(os[m]) = {}
    BY <1>3, ListsApart
  <2>2. \A m \in List : m # l => \A a \in Of(os[m]) : obj'[a] = obj[a]
    BY <1>6, <1>9, <1>12, <2>1
  <2>3. PICK E : E = Of(r) \ {e} /\ Changed(heap', len', os, l, s, E)
    BY <1>8
  <2>. QED  BY <1>3, <2>2, <2>3, OneContentMoves
<1>14. PICK x : x = Pointed(obj, r)
  OBVIOUS
<1>15. IsPointed(x, Obj, obj, r)
  <2>1. \A a \in Of(r) : obj[a] \in Obj
    BY <1>7, <1>9
  <2>. QED  BY <1>10, <1>14, <2>1, PointedIs
<1>16. x \in Seq(Obj) /\ Len(x) = k /\ o = IF atBack THEN x[k] ELSE x[1]
  BY <1>1, <1>7, <1>10, <1>15 DEF IsPointed
<1>17. Pointed(obj', s) = Pointed(obj, s)
  <2>1. PICK b, c : b = obj' /\ c = obj
    OBVIOUS
  <2>2. \A a \in Of(s) : a \in Of(r) /\ a # e
    BY <1>8 DEF Changed
  <2>3. \A a \in Of(s) : b[a] = c[a]
    BY <1>7, <1>9, <1>12, <2>1, <2>2
  <2>4. Pointed(b, s) = Pointed(c, s)
    BY <2>3, PointedAlike
  <2>. QED  BY <2>1, <2>4
<1>18. Pointed(obj, s) = IF atBack THEN SubSeq(x, 1, k - 1) ELSE Tail(x)
  <2>1. PointsInto(obj, r, Obj)
    BY <1>7, <1>9 DEF PointsInto
  <2>2. k - 1 \in Nat /\ k - 1 <= k /\ k <= Len(r) /\ 0 \in Nat /\ 1 \in Nat /\ 0 <= 1 /\ 1 <= Len(r)
    BY <1>7, <1>10
  <2>3. PICK z, y, i : z = 0 /\ y = 1 /\ i = k - 1
    OBVIOUS
  <2>7. i \in Nat /\ k \in Nat /\ i <= k /\ k <= Len(r) /\ z \in Nat /\ y \in Nat /\ z <= y /\ y <= Len(r)
    BY <1>10, <2>2, <2>3
  <2>4. Pointed(obj, Cut(r, i, k)) = Cut(Pointed(obj, r), i, k) /\ Pointed(obj, Cut(r, z, y)) = Cut(Pointed(obj, r), z, y)
    <3>1. PICK c, M, N : c = obj /\ M = Obj /\ N = Entry
      OBVIOUS
    <3>2. r \in Seq(N) /\ PointsInto(c, r, M)
      BY <1>10, <2>1, <3>1
    <3>3. CutsPointed(c, r, i, k) /\ CutsPointed(c, r, z, y)
      BY <2>7, <3>2, PointedCut
    <3>. QED  BY <3>1, <3>3 DEF CutsPointed
  <2>6. Cut(x, k - 1, k) = SubSeq(x, 1, k - 1) /\ Cut(x, 0, 1) = Tail(x)
    BY <1>10, <1>16, CutEnds
  <2>. QED  BY <1>8, <1>14, <2>3, <2>4, <2>6
<1>19. Contents[l] = x
  BY <1>7, <1>13, <1>14
<1>20. CASE atBack
  <2>1. Contents' = [Contents EXCEPT ![l] = SubSeq(@, 1, k - 1)] /\ o = x[k]
    BY <1>13, <1>16, <1>17, <1>18, <1>19, <1>20
  <2>2. k = Len(Contents[l]) /\ k > 0 /\ held' = [held EXCEPT ![t][Contents[l][k]] = @ + 1]
    BY <1>2, <1>10, <1>16, <1>19, <2>1
  <2>. QED  BY <2>1, <2>2, Zenon DEF Promise!Pop, Contents
<1>21. CASE ~atBack
  <2>1. Contents' = [Contents EXCEPT ![l] = Tail(@)] /\ o = x[1]
    BY <1>13, <1>16, <1>17, <1>18, <1>19, <1>21
  <2>2. Len(Contents[l]) > 0 /\ held' = [held EXCEPT ![t][Contents[l][1]] = @ + 1]
    BY <1>2, <1>10, <1>16, <1>19, <2>1
  <2>. QED  BY <2>1, <2>2, Zenon DEF Promise!Pop, Contents
<1>. QED  BY <1>20, <1>21

LEMMA RangeGoes ==
  ASSUME DLInv, NEW l, l \in List, NEW os, Listed(heap, len, os), NEW i, i \in Nat, NEW j, j \in Nat,
         i <= j, j < len[l], NEW s, s = Cut(os[l], i, j + 1), NEW met, Removal(heap', len', os, l, met, s),
         obj' = obj, held' = held
  PROVE  Promise!RemoveRange(l, i, j) /\ Len(Contents[l]) = len[l]
<1>1. PICK Z : Changed(heap', len', os, l, s, Of(os[l]) \ Z)
  BY DEF Removal
<1>2. PICK r, k, x, m : r = os[l] /\ k = Len(r) /\ x = Pointed(obj, r) /\ m = j + 1
  OBVIOUS
<1>3. r \in Seq(Entry) /\ k \in Nat /\ k = len[l] /\ \A a \in Of(r) : obj[a] \in Obj
  <2>1. len[l] = Len(os[l])
    BY DEF Listed
  <2>. QED  BY <1>2, <2>1, ListedHold DEF AllHold
<1>4. /\ Contents = [n \in List |-> Pointed(obj, os[n])]
      /\ Contents' = [Contents EXCEPT ![l] = Pointed(obj', s)]
  <2>1. PICK E : E = Of(os[l]) \ Z /\ Changed(heap', len', os, l, s, E)
    BY <1>1
  <2>. QED  BY <2>1, OneContentMoves
<1>5. Contents[l] = x
  BY <1>2, <1>4
<1>6. IsPointed(x, Obj, obj, r)
  BY <1>2, <1>3, PointedIs
<1>7. Len(x) = k
  BY <1>2, <1>6 DEF IsPointed
<1>8. Pointed(obj, s) = Cut(x, i, m)
  <2>1. PICK c, M, N : c = obj /\ M = Obj /\ N = Entry
    OBVIOUS
  <2>2. r \in Seq(N) /\ PointsInto(c, r, M) /\ m \in Nat /\ i <= m /\ m <= Len(r)
    BY <1>2, <1>3, <2>1 DEF PointsInto
  <2>3. CutsPointed(c, r, i, m)
    BY <2>2, PointedCut
  <2>. QED  BY <1>2, <2>1, <2>3 DEF CutsPointed
<1>9. Cut(x, i, m) = SubSeq(x, 1, i) \o SubSeq(x, j + 2, Len(x))
  <2>1. m + 1 = j + 2
    BY <1>2
  <2>. QED  BY <2>1 DEF Cut
<1>10. Contents' = [Contents EXCEPT ![l] = SubSeq(@, 1, i) \o SubSeq(@, j + 2, Len(@))]
  BY <1>4, <1>5, <1>8, <1>9
<1>11. i <= j /\ j < Len(Contents[l])
  BY <1>3, <1>5, <1>7
<1>12. Promise!RemoveRange(l, i, j)
  BY <1>10, <1>11, Zenon DEF Promise!RemoveRange, Contents
<1>. QED  BY <1>3, <1>5, <1>7, <1>12

(* A step that keeps a promise of DmbDLListSpec, and one that changes      *)
(* nothing it speaks of.                                                   *)
Unseen  == Contents' = Contents /\ held' = held
Promised(t) ==
  \/ \E o \in Obj : \/ Promise!Create(t, o)
                    \/ Promise!Release(t, o)
                    \/ \E u \in Thread : Promise!Retain(t, u, o)
  \/ \E l \in {m \in List : Owner[m] = t} :
       \/ \E o \in Obj : Promise!Push(t, l, o)
       \/ Promise!Pop(t, l)
       \/ \E j \in 0 .. Len(Contents[l]) : \E i \in 0 .. j : Promise!RemoveRange(l, i, j)

LEMMA RemoveRangePromised ==
  ASSUME DLInv, NEW t, t \in Thread, NEW l, l \in List, Owner[l] = t, NEW i, i \in Nat, NEW j, j \in Nat,
         dmbDLListRemoveRange(t, l, i, j)
  PROVE  Promised(t)
<1>1. PICK os : Listed(heap, len, os)
  BY DEF DLInv, ListsInv
<1>2. PICK r, s, met : r = Loop(heap, l, len[l], i, j, TRUE) /\ s = Cut(os[l], i, j + 1) /\ met = r.met
  OBVIOUS
<1>3. /\ i <= j /\ j < len[l] /\ heap' = r.h /\ len' = [len EXCEPT ![l] = @ - Len(r.met)]
      /\ obj' = obj /\ held' = held
  BY <1>2 DEF dmbDLListRemoveRange, refVars
<1>4. Removal(r.h, len', os, l, r.met, Cut(os[l], i, j + 1))
  BY <1>1, <1>2, <1>3, ListRemoveRange
<1>5. Removal(heap', len', os, l, met, s)
  BY <1>2, <1>3, <1>4
<1>6. Promise!RemoveRange(l, i, j) /\ Len(Contents[l]) = len[l]
  BY <1>1, <1>2, <1>3, <1>5, RangeGoes
<1>7. j \in 0 .. Len(Contents[l]) /\ i \in 0 .. j
  <2>1. len[l] \in Nat
    BY <1>1 DEF Listed
  <2>. QED  BY <1>3, <1>6, <2>1
<1>. QED  BY <1>6, <1>7, Zenon DEF Promised

LEMMA ClearPromised ==
  ASSUME DLInv, NEW t, t \in Thread, NEW l, l \in List, Owner[l] = t, dmbDLListClear(t, l)
  PROVE  Promised(t) \/ Unseen
<1>1. PICK os : Listed(heap, len, os)
  BY DEF DLInv, ListsInv
<1>2. /\ heap' = Emptied(heap, l, len[l]) /\ len' = [len EXCEPT ![l] = 0]
      /\ obj' = obj /\ held' = held
  BY DEF dmbDLListClear, refVars
<1>3. Removal(heap', len', os, l, os[l], <<>>)
  BY <1>1, <1>2, ListClear
<1>4. PICK n : n = len[l]
  OBVIOUS
<1>5. n \in Nat /\ os \in [List -> Seq(Entry)] /\ n = Len(os[l])
  BY <1>1, <1>4 DEF Listed, Shape
<1>6. CASE n = 0
  <2>1. os[l] = <<>>
    <3>1. PICK x : x = os[l]
      OBVIOUS
    <3>2. x \in Seq(Entry) /\ Len(x) = 0
      BY <1>5, <1>6, <3>1
    <3>3. x = <<>>
      BY <3>2, EmptySeq
    <3>. QED  BY <3>1, <3>3
  <2>2. PICK Z : Changed(heap', len', os, l, <<>>, Of(os[l]) \ Z)
    BY <1>3 DEF Removal
  <2>3. Listed(heap', len', [os EXCEPT ![l] = <<>>])
    BY <2>2 DEF Changed
  <2>4. [os EXCEPT ![l] = <<>>] = os
    BY <1>5, <2>1
  <2>5. Listed(heap', len', os)
    BY <2>3, <2>4
  <2>6. Contents' = Contents
    BY <1>1, <1>2, <2>5, ContentsStay
  <2>. QED  BY <1>2, <2>6 DEF Unseen
<1>7. CASE n > 0
  <2>1. PICK i, j, s, met : i = 0 /\ j = n - 1 /\ s = Cut(os[l], i, j + 1) /\ met = os[l]
    OBVIOUS
  <2>2. i \in Nat /\ j \in Nat /\ i <= j /\ j < len[l] /\ j + 1 = n /\ i \in 0 .. j /\ j \in 0 .. n
    BY <1>4, <1>5, <1>7, <2>1
  <2>3. s = <<>>
    <3>1. PICK x : x = os[l]
      OBVIOUS
    <3>2. x \in Seq(Entry) /\ n = Len(x)
      BY <1>5, <3>1
    <3>3. Cut(x, 0, n) = <<>>
      BY <1>7, <3>2, CutEnds
    <3>. QED  BY <2>1, <2>2, <3>1, <3>3
  <2>4. Removal(heap', len', os, l, met, s)
    BY <1>3, <2>1, <2>3
  <2>5. Promise!RemoveRange(l, i, j) /\ Len(Contents[l]) = len[l]
    BY <1>1, <1>2, <2>1, <2>2, <2>4, RangeGoes
  <2>6. j \in 0 .. Len(Contents[l])
    BY <1>4, <2>2, <2>5
  <2>7. Promised(t)
    BY <2>2, <2>5, <2>6, Zenon DEF Promised
  <2>. QED  BY <2>7
<1>. QED  BY <1>5, <1>6, <1>7

LEMMA ReleasedUnseen ==
  ASSUME DLInv, NEW t, t \in Thread, ReleaseEntry(t)
  PROVE  Unseen
<1>1. PICK q, x, e : q = todo[t] /\ x = Head(q) /\ e = x.e
  OBVIOUS
<1>2. /\ q # <<>> /\ x.act = "release" /\ obj' = [obj EXCEPT ![e] = NULL]
      /\ heap' = heap /\ len' = len /\ held' = held
  BY <1>1 DEF ReleaseEntry, Doing, listVars
<1>3. Work(q)
  BY <1>1 DEF DLInv, WorkInv
<1>4. Headed(q, x, Tail(q)) /\ Releasing(q) \subseteq Taken(q)
  BY <1>1, <1>2, <1>3, HeadOff, ReleasedTaken
<1>5. e \in Entry /\ e \in Releasing(q)
  <2>1. WellFormed(x) /\ ReleasedBy(x) \subseteq Releasing(q)
    BY <1>4 DEF Headed, Consists
  <2>. QED  BY <1>1, <1>2, <2>1 DEF WellFormed, ItemSet, ReleasedBy
<1>6. e \notin Placed
  BY <1>1, <1>4, <1>5 DEF DLInv, EntriesApart
<1>7. PICK os : Listed(heap, len, os)
  BY DEF DLInv, ListsInv
<1>8. \A m \in List : \A a \in Of(os[m]) : a \in Entry /\ a # e
  BY <1>6, <1>7, ListedHold DEF AllHold
<1>9. obj \in [Entry -> Obj \cup {NULL}]
  BY DEF DLInv, EntriesHold
<1>10. \A m \in List : \A a \in Of(os[m]) : obj'[a] = obj[a]
  BY <1>2, <1>5, <1>8, <1>9
<1>11. Listed(heap', len', os)
  BY <1>2, <1>7
<1>12. Contents' = Contents
  BY <1>7, <1>10, <1>11, ContentsStay
<1>. QED  BY <1>2, <1>12 DEF Unseen

LEMMA FreedUnseen ==
  ASSUME DLInv, NEW t, t \in Thread, FreeEntry(t)
  PROVE  Unseen
<1>1. PICK q, x, e : q = todo[t] /\ x = Head(q) /\ e = x.e
  OBVIOUS
<1>2. /\ q # <<>> /\ x.act = "free" /\ heap' = dmbNodeInit(heap, e) /\ len' = len /\ obj' = obj /\ held' = held
  BY <1>1 DEF FreeEntry, Doing, refVars
<1>3. Work(q)
  BY <1>1 DEF DLInv, WorkInv
<1>4. Headed(q, x, Tail(q))
  BY <1>1, <1>2, <1>3, HeadOff
<1>5. e \in Entry /\ e \in Taken(q)
  <2>1. WellFormed(x) /\ TakenBy(x) \subseteq Taken(q)
    BY <1>4 DEF Headed, Consists
  <2>. QED  BY <1>1, <1>2, <2>1 DEF WellFormed, ItemSet, TakenBy, Takes
<1>6. e \notin Placed
  BY <1>1, <1>5 DEF DLInv, EntriesApart
<1>7. PICK os : Listed(heap, len, os)
  BY DEF DLInv, ListsInv
<1>8. \A m \in List : e \notin Of(os[m])
  BY <1>6, <1>7, ListedHold DEF AllHold
<1>9. PICK g : g = dmbNodeInit(heap, e)
  OBVIOUS
<1>10. Listed(g, len, os)
  BY <1>5, <1>7, <1>8, <1>9, ListFree
<1>11. Listed(heap', len', os)
  BY <1>2, <1>9, <1>10
<1>12. Contents' = Contents
  BY <1>2, <1>7, <1>11, ContentsStay
<1>. QED  BY <1>2, <1>12 DEF Unseen

LEMMA MallocCreates ==
  ASSUME DLInv, NEW t, t \in Thread, NEW o, o \in Obj, MallocObject(t, o)
  PROVE  Promise!Create(t, o)
<1>1. ~live[o] /\ held' = [held EXCEPT ![t][o] = 1] /\ UNCHANGED <<listVars, obj>>
  BY DEF MallocObject
<1>2. Contents' = Contents
  BY <1>1, StutterStays
<1>3. ref[o] \in Nat /\ (Referred(o) => ref[o] > 0) /\ (ref[o] > 0 => live[o])
  BY ReferredCounted DEF DLInv, LiveInv
<1>4. ~Referred(o)
  BY <1>1, <1>3
<1>5. PICK os : Listed(heap, len, os)
  BY DEF DLInv, ListsInv
<1>6. \A l \in List : Linked(l) \subseteq Entry
  BY <1>5, LinkedIs
<1>7. ASSUME NEW u \in Thread PROVE o \notin Promise!Known(u)
  <2>1. ~Holds(u, o)
    BY <1>4, <1>6 DEF Holds, Referred
  <2>. QED  BY <2>1, KnownIs
<1>. QED  BY <1>1, <1>2, <1>7, Zenon DEF Promise!Create, Contents

LEMMA RetainPromised ==
  ASSUME NEW t, t \in Thread, NEW u, u \in Thread, NEW o, o \in Obj, dmbObjectRetain(t, u, o)
  PROVE  Promise!Retain(t, u, o)
<1>1. Holds(t, o) /\ held' = [held EXCEPT ![u][o] = @ + 1] /\ UNCHANGED <<listVars, obj>>
  BY DEF dmbObjectRetain, Holds
<1>2. Contents' = Contents
  BY <1>1, StutterStays
<1>3. o \in Promise!Known(t)
  BY <1>1, KnownIs
<1>. QED  BY <1>1, <1>2, <1>3, Zenon DEF Promise!Retain, Contents

LEMMA ReleasePromised ==
  ASSUME NEW t, t \in Thread, NEW o, o \in Obj, dmbObjectRelease(t, o)
  PROVE  Promise!Release(t, o)
<1>1. held[t][o] > 0 /\ held' = [held EXCEPT ![t][o] = @ - 1] /\ UNCHANGED <<listVars, obj>>
  BY DEF dmbObjectRelease
<1>2. Contents' = Contents
  BY <1>1, StutterStays
<1>. QED  BY <1>1, <1>2, Zenon DEF Promise!Release, Contents

LEMMA NothingSeen ==
  ASSUME UNCHANGED <<listVars, refVars>>
  PROVE  Unseen
<1>1. UNCHANGED <<listVars, obj>> /\ held' = held
  BY DEF refVars
<1>. QED  BY <1>1, StutterStays DEF Unseen

LEMMA StepPromised ==
  ASSUME DLInv, OwnInv, NEW t, t \in Thread, Step(t)
  PROVE  Promised(t) \/ Unseen
<1>1. ASSUME dmbCreateIntObject(t) PROVE Unseen
  BY <1>1, NothingSeen DEF dmbCreateIntObject
<1>2. ASSUME NEW o \in Obj, dmbObjectRelease(t, o) PROVE Promised(t)
  BY <1>2, ReleasePromised DEF Promised
<1>3. ASSUME NEW o \in Obj, NEW u \in Thread, dmbObjectRetain(t, u, o) PROVE Promised(t)
  BY <1>3, RetainPromised DEF Promised
<1>4. ASSUME NEW l \in List, Owner[l] = t, NEW atBack \in BOOLEAN, NEW o \in Obj, dmbDLListPush(t, l, atBack, o)
      PROVE  Unseen
  BY <1>4, NothingSeen DEF dmbDLListPush
<1>5. ASSUME NEW l \in List, Owner[l] = t, NEW atBack \in BOOLEAN, dmbDLListPop(t, l, atBack) PROVE Promised(t)
  <2>1. Promise!Pop(t, l)
    BY <1>5, PopPops
  <2>. QED  BY <1>5, <2>1 DEF Promised
<1>6. ASSUME NEW l \in List, Owner[l] = t, NEW i \in 0 .. len[l], NEW j \in 0 .. len[l],
             dmbDLListRemoveRange(t, l, i, j)
      PROVE  Promised(t)
  <2>1. i \in Nat /\ j \in Nat
    OBVIOUS
  <2>. QED  BY <1>6, <2>1, RemoveRangePromised
<1>7. ASSUME NEW l \in List, NEW i, NEW j, NEW dest,
             dmbDLListGetRange(t, l, i, j, dest) \/ dmbDLListScan(t, l, i, j, dest)
      PROVE  Unseen
  BY <1>7, NothingSeen DEF dmbDLListGetRange, dmbDLListScan
<1>8. ASSUME NEW l \in List, Owner[l] = t, dmbDLListClear(t, l) PROVE Promised(t) \/ Unseen
  BY <1>8, ClearPromised
<1>9. ASSUME CheckCurrentMemoryUsage(t) PROVE Unseen
  BY <1>9, NothingSeen DEF CheckCurrentMemoryUsage
<1>10. ASSUME NEW o \in Obj, MallocObject(t, o) PROVE Promised(t)
  BY <1>10, MallocCreates DEF Promised
<1>11. ASSUME NEW e \in Entry, MallocEntry(t, e) PROVE Unseen
  BY <1>11, NothingSeen DEF MallocEntry
<1>12. ASSUME MallocFails(t) PROVE Unseen
  BY <1>12, NothingSeen DEF MallocFails
<1>13. ASSUME Link(t) PROVE Promised(t)
  BY <1>13, LinkPushes DEF Promised
<1>14. ASSUME ReleaseEntry(t) PROVE Unseen
  BY <1>14, ReleasedUnseen
<1>15. ASSUME FreeEntry(t) PROVE Unseen
  BY <1>15, FreedUnseen
<1>16. ASSUME dmbDestroyIntObject(t) PROVE Unseen
  <2>1. UNCHANGED <<listVars, obj>> /\ held' = held
    BY <1>16 DEF dmbDestroyIntObject
  <2>. QED  BY <2>1, StutterStays DEF Unseen
<1>. QED  BY <1>1, <1>2, <1>3, <1>4, <1>5, <1>6, <1>7, <1>8, <1>9, <1>10, <1>11, <1>12, <1>13, <1>14, <1>15, <1>16, Zenon DEF Step

(* The lists are the sequences of objects that dmbdllist.h promises: the   *)
(* initial states are its initial states, and each step is one of its      *)
(* steps or changes nothing it speaks of.                                  *)
THEOREM ImplementsListSpec == Spec => ListSpec
<1>1. Init => Promise!Init
  <2>. SUFFICES ASSUME Init PROVE Promise!Init
    OBVIOUS
  <2>1. held = [t \in Thread |-> [o \in Obj |-> 0]]
    BY DEF Init
  <2>2. ASSUME NEW l \in List PROVE Content(l) = <<>>
    <3>1. DLInv
      BY DLInvBegins
    <3>2. PICK os : Listed(heap, len, os)
      BY <3>1 DEF DLInv, ListsInv
    <3>3. ContentsAre(heap, len, obj, os)
      BY <3>2, ContentsOf
    <3>4. Content(l) = Pointed(obj, os[l]) /\ Len(os[l]) = 0
      BY <3>2, <3>3 DEF ContentsAre, Content, Order, Listed, Init
    <3>. QED  BY <3>4 DEF Pointed
  <2>. QED  BY <2>1, <2>2 DEF Promise!Init
<1>2. DLInv /\ OwnInv /\ [Next]_vars => [Promise!Next]_<<Contents, held>>
  <2>1. ASSUME NEW t \in Thread, Promised(t) PROVE Promise!Next
    BY <2>1, Zenon DEF Promised, Promise!Next, Contents
  <2>2. ASSUME DLInv, OwnInv, Next PROVE [Promise!Next]_<<Contents, held>>
    <3>1. PICK t \in Thread : Step(t)
      BY <2>2 DEF Next
    <3>2. Promised(t) \/ Unseen
      BY <2>2, <3>1, StepPromised
    <3>. QED  BY <2>1, <3>2 DEF Unseen
  <2>3. ASSUME UNCHANGED vars PROVE [Promise!Next]_<<Contents, held>>
    <3>1. UNCHANGED <<listVars, refVars>>
      BY <2>3 DEF vars
    <3>2. Unseen
      BY <3>1, NothingSeen
    <3>. QED  BY <3>2 DEF Unseen
  <2>. QED  BY <2>2, <2>3
<1>. QED  BY <1>1, <1>2, AlwaysOwn, PTL DEF Spec, ListSpec, Promise!Spec, Contents

================================================================================
