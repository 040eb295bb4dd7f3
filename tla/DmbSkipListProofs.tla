--------------------------- MODULE DmbSkipListProofs ---------------------------
(***************************************************************************)
(* Theorems about DmbSkipList, for any nodes, scores, values and heights.  *)
(***************************************************************************)
EXTENDS DmbSkipList, DmbInduction, SequenceTheorems

-----------------------------------------------------------------------------
(* Recursion that follows pointers.                                        *)

(* A function on D that goes on at nx[m] from the places m in G, and stops *)
(* elsewhere.                                                              *)
IsDescent(f, D, S, G, nx, go, stop) ==
  f \in [D -> S] /\ \A m \in D : f[m] = IF m \in G THEN go[m][f[nx[m]]] ELSE stop[m]

(* The pointers lead down.                                                 *)
Down(D, G, nx, rk) ==
  rk \in [D -> Nat] /\ \A m \in G : m \in D /\ nx[m] \in D /\ rk[nx[m]] < rk[m]

(* Then it exists.                                                         *)
LEMMA Descends ==
  ASSUME NEW D, NEW S, NEW G, NEW nx, NEW rk, Down(D, G, nx, rk),
         NEW go, go \in [D -> [S -> S]], NEW stop, stop \in [D -> S]
  PROVE  \E f : IsDescent(f, D, S, G, nx, go, stop)
<1>. DEFINE Turn(g) == [m \in D |-> IF m \in G THEN go[m][g[nx[m]]] ELSE stop[m]]
            step == [k \in Nat |-> [g \in [D -> S] |-> Turn(g)]]
<1>. rk \in [D -> Nat] /\ \A m \in G : m \in D /\ nx[m] \in D /\ rk[nx[m]] < rk[m]
  BY DEF Down
<1>1. \A g \in [D -> S] : Turn(g) \in [D -> S]
  OBVIOUS
<1>2. step \in [Nat -> [[D -> S] -> [D -> S]]]
  BY <1>1
<1>3. PICK h : IsRecursive(h, [D -> S], stop, step)
  <2>. HIDE DEF step
  <2>. QED  BY <1>2, Recursion
<1>4. h \in [Nat -> [D -> S]] /\ \A k \in Nat : h[k + 1] = Turn(h[k])
  <2>1. h \in [Nat -> [D -> S]] /\ \A k \in Nat : h[k + 1] = step[k][h[k]]
    BY <1>3 DEF IsRecursive
  <2>2. \A k \in Nat : h[k] \in [D -> S]
    BY <2>1
  <2>. QED  BY <2>1, <2>2
<1>. HIDE DEF step
<1>5. \A k \in Nat : \A m \in D : h[k + 1][m] = IF m \in G THEN go[m][h[k][nx[m]]] ELSE stop[m]
  BY <1>4
<1>. HIDE DEF Turn
<1>. DEFINE T == {k \in Nat : \A m \in D : rk[m] < k => h[k + 1][m] = h[k][m]}
<1>6. T = Nat
  <2>1. 0 \in T
    OBVIOUS
  <2>2. ASSUME NEW k \in T PROVE k + 1 \in T
    <3>. SUFFICES ASSUME NEW m \in D, rk[m] < k + 1 PROVE h[(k + 1) + 1][m] = h[k + 1][m]
      BY DEF T
    <3>1. CASE m \in G
      <4>1. nx[m] \in D /\ rk[nx[m]] < k
        <5>1. nx[m] \in D /\ rk[nx[m]] < rk[m] /\ rk[m] \in Nat /\ rk[nx[m]] \in Nat /\ k \in Nat
          BY <3>1
        <5>. QED  BY <5>1
      <4>2. h[k + 1][nx[m]] = h[k][nx[m]]
        BY <4>1 DEF T
      <4>. QED  BY <1>5, <3>1, <4>2
    <3>2. CASE m \notin G
      BY <1>5, <3>2
    <3>. QED  BY <3>1, <3>2
  <2>3. T \in SUBSET Nat
    OBVIOUS
  <2>. HIDE DEF T
  <2>. QED  BY <2>1, <2>2, <2>3, Induction
<1>. DEFINE f == [m \in D |-> h[rk[m] + 1][m]]
<1>7. ASSUME NEW m \in D PROVE \A k \in Nat : k > rk[m] => h[k][m] = f[m]
  <2>. DEFINE U == {k \in Nat : k > rk[m] => h[k][m] = f[m]}
  <2>1. 0 \in U
    OBVIOUS
  <2>2. ASSUME NEW k \in U PROVE k + 1 \in U
    <3>. SUFFICES ASSUME k + 1 > rk[m] PROVE h[k + 1][m] = f[m]
      OBVIOUS
    <3>1. CASE k = rk[m]
      BY <3>1
    <3>2. CASE k > rk[m]
      <4>1. h[k + 1][m] = h[k][m]
        BY <1>6, <3>2
      <4>. QED  BY <3>2, <4>1
    <3>. QED  BY <3>1, <3>2
  <2>3. U \in SUBSET Nat
    OBVIOUS
  <2>4. U = Nat
    <3>. HIDE DEF U
    <3>. QED  BY <2>1, <2>2, <2>3, Induction
  <2>. QED  BY <2>4
<1>8. f \in [D -> S]
  BY <1>4
<1>9. ASSUME NEW m \in D PROVE f[m] = IF m \in G THEN go[m][f[nx[m]]] ELSE stop[m]
  <2>1. f[m] = IF m \in G THEN go[m][h[rk[m]][nx[m]]] ELSE stop[m]
    BY <1>5
  <2>2. m \in G => h[rk[m]][nx[m]] = f[nx[m]]
    <3>1. ASSUME m \in G PROVE h[rk[m]][nx[m]] = f[nx[m]]
      <4>1. nx[m] \in D /\ rk[m] \in Nat /\ rk[m] > rk[nx[m]]
        BY <3>1
      <4>. HIDE DEF f
      <4>. QED  BY <1>7, <4>1
    <3>. QED  BY <3>1
  <2>. QED  BY <2>1, <2>2
<1>. QED  BY <1>8, <1>9 DEF IsDescent

-----------------------------------------------------------------------------
(* What the pointers stand for: a sequence q of nodes, each with a height. *)

Nodes == Node \cup {Header}

(* Place 0 is the header's, and behind the last place is NULL.             *)
Place(q, a) == IF a = 0 THEN Header ELSE IF a \in 1 .. Len(q) THEN q[a] ELSE NULL

(* What is at place a reaches up to level i.                               *)
Reaches(q, ht, i, a) == a = 0 \/ ht[q[a]] > i

(* On level i, b is the next place after a; and x the last one up to p.    *)
NextOn(q, ht, i, a, b) ==
  /\ b \in a + 1 .. Len(q) + 1
  /\ b <= Len(q) => Reaches(q, ht, i, b)
  /\ \A c \in a + 1 .. b - 1 : ~Reaches(q, ht, i, c)
LastOn(q, ht, i, p, x) ==
  /\ x \in 0 .. p
  /\ Reaches(q, ht, i, x)
  /\ \A c \in x + 1 .. p : ~Reaches(q, ht, i, c)

(* How far it is from a to b, or to the last place.                        *)
Far(q, a, b) == (IF b > Len(q) THEN Len(q) ELSE b) - a

Joined(r, q, i, a, b) ==
  /\ r.next[Place(q, a)][i] = Place(q, b)
  /\ i < r.level => r.step[Place(q, a)][i] = Far(q, a, b)

Injective(q) == \A a, b \in 1 .. Len(q) : q[a] = q[b] => a = b

(* A node has a height if it is in the sequence.                           *)
HeightsOf(q, ht, level) ==
  /\ ht \in [Node -> 0 .. level]
  /\ \A n \in Node : ht[n] # 0 <=> \E a \in 1 .. Len(q) : q[a] = n

Lists == [level : 0 .. MaxLevel, len : Nat,
          next : [Nodes -> [Levels -> Node \cup {NULL}]],
          step : [Nodes -> [Levels -> Int]],
          prev : [Node -> Node \cup {NULL}]]

(* On every level each node that reaches it leads to the next that does,   *)
(* and the others nowhere.                                                 *)
Leads(r, q, ht) ==
  \A i \in Levels, a \in 0 .. Len(q) :
    Reaches(q, ht, i, a) => \E b : NextOn(q, ht, i, a, b) /\ Joined(r, q, i, a, b)
LeadsNowhere(r, ht) == \A n \in Node, i \in Levels : ht[n] <= i => r.next[n][i] = NULL
LeadsBack(r, q) == \A a \in 1 .. Len(q) : r.prev[q[a]] = IF a = 1 THEN NULL ELSE q[a - 1]

Ordered(r, q) == r \in Lists /\ q \in Seq(Node) /\ Injective(q) /\ r.len = Len(q)

Built(r, q, ht) ==
  /\ Ordered(r, q) /\ HeightsOf(q, ht, r.level)
  /\ Leads(r, q, ht) /\ LeadsNowhere(r, ht) /\ LeadsBack(r, q)

LEMMA PlaceIs ==
  ASSUME NEW q, q \in Seq(Node)
  PROVE  /\ Len(q) \in Nat
         /\ \A a \in 1 .. Len(q) : Place(q, a) = q[a] /\ q[a] \in Node /\ q[a] # Header /\ q[a] # NULL
         /\ Place(q, 0) = Header /\ Place(q, Len(q) + 1) = NULL
         /\ \A a \in 0 .. Len(q) : Place(q, a) \in Nodes /\ Place(q, a) # NULL
BY SkipListAssumption DEF Place, Nodes

(* The places in the sequence are different ones.                          *)
LEMMA PlacesDiffer ==
  ASSUME NEW q, q \in Seq(Node), Injective(q)
  PROVE  \A a, b \in 0 .. Len(q) + 1 : Place(q, a) = Place(q, b) => a = b
<1>1. /\ Len(q) \in Nat
      /\ \A a \in 1 .. Len(q) : Place(q, a) = q[a] /\ q[a] \in Node /\ q[a] # Header /\ q[a] # NULL
      /\ Place(q, 0) = Header /\ Place(q, Len(q) + 1) = NULL
  BY PlaceIs
<1>. SUFFICES ASSUME NEW a \in 0 .. Len(q) + 1, NEW b \in 0 .. Len(q) + 1, Place(q, a) = Place(q, b)
              PROVE  a = b
  OBVIOUS
<1>2. a \in 1 .. Len(q) \/ a = 0 \/ a = Len(q) + 1
  BY <1>1
<1>3. b \in 1 .. Len(q) \/ b = 0 \/ b = Len(q) + 1
  BY <1>1
<1>. QED  BY <1>1, <1>2, <1>3, SkipListAssumption DEF Injective

LEMMA LastExists ==
  ASSUME NEW q, NEW ht, NEW i, NEW p, p \in Nat
  PROVE  \E x : LastOn(q, ht, i, p, x)
<1>. DEFINE T == {d \in 0 .. p : Reaches(q, ht, i, p - d)}
<1>1. p \in T
  BY DEF Reaches
<1>2. PICK d \in T : \A m \in T : d <= m
  <2>1. T \in SUBSET Nat
    BY DEF T
  <2>. HIDE DEF T
  <2>. QED  BY <1>1, <2>1, Least
<1>3. PICK x : x = p - d
  OBVIOUS
<1>4. x \in 0 .. p /\ Reaches(q, ht, i, x) /\ d = p - x /\ d \in 0 .. p
  BY <1>2, <1>3
<1>5. ASSUME NEW c \in x + 1 .. p, Reaches(q, ht, i, c) PROVE FALSE
  <2>1. p - c \in 0 .. p /\ p - (p - c) = c /\ p - c < d
    BY <1>4
  <2>2. p - c \in T
    BY <1>5, <2>1
  <2>. QED  BY <1>2, <1>4, <2>1, <2>2
<1>. QED  BY <1>4, <1>5 DEF LastOn

(* A node has one next and one last one.                                   *)
LEMMA NextUnique ==
  ASSUME NEW q, q \in Seq(Node), NEW ht, NEW i, NEW a, a \in Nat, NEW b, NextOn(q, ht, i, a, b),
         NEW d, NextOn(q, ht, i, a, d)
  PROVE  b = d
<1>1. Len(q) \in Nat
  OBVIOUS
<1>2. /\ b \in a + 1 .. Len(q) + 1 /\ (b <= Len(q) => Reaches(q, ht, i, b))
      /\ \A c \in a + 1 .. b - 1 : ~Reaches(q, ht, i, c)
  BY DEF NextOn
<1>3. /\ d \in a + 1 .. Len(q) + 1 /\ (d <= Len(q) => Reaches(q, ht, i, d))
      /\ \A c \in a + 1 .. d - 1 : ~Reaches(q, ht, i, c)
  BY DEF NextOn
<1>4. ~(b < d)
  BY <1>1, <1>2, <1>3
<1>5. ~(d < b)
  BY <1>1, <1>2, <1>3
<1>. QED  BY <1>1, <1>2, <1>3, <1>4, <1>5

LEMMA LastUnique ==
  ASSUME NEW q, NEW ht, NEW i, NEW p, p \in Nat, NEW x, LastOn(q, ht, i, p, x),
         NEW y, LastOn(q, ht, i, p, y)
  PROVE  x = y
<1>1. x \in 0 .. p /\ Reaches(q, ht, i, x) /\ \A c \in x + 1 .. p : ~Reaches(q, ht, i, c)
  BY DEF LastOn
<1>2. y \in 0 .. p /\ Reaches(q, ht, i, y) /\ \A c \in y + 1 .. p : ~Reaches(q, ht, i, c)
  BY DEF LastOn
<1>3. ~(x < y) /\ ~(y < x)
  BY <1>1, <1>2
<1>. QED  BY <1>1, <1>2, <1>3

-----------------------------------------------------------------------------
(* The search.                                                             *)

(* The nodes passed are those of the first p places.                       *)
Splits(q, passed, p) ==
  p \in 0 .. Len(q) /\ NULL \notin passed /\ \A a \in 1 .. Len(q) : q[a] \in passed <=> a <= p

(* A step leads on, to a place further behind.                             *)
Goes(r, q, ht, i, a, b) == NextOn(q, ht, i, a, b) /\ Joined(r, q, i, a, b)

(* A number that becomes smaller along the pointers of every level.        *)
Rank(q) == [n \in Nodes \cup {NULL} |->
              IF n = NULL THEN 0 ELSE IF n = Header THEN Len(q) + 1
              ELSE IF \E a \in 1 .. Len(q) : q[a] = n
              THEN Len(q) + 1 - (CHOOSE a \in 1 .. Len(q) : q[a] = n) ELSE 1]

LEMMA RankIs ==
  ASSUME NEW r, NEW q, NEW ht, Built(r, q, ht)
  PROVE  /\ Rank(q) \in [Nodes \cup {NULL} -> Nat]
         /\ \A a \in 0 .. Len(q) + 1 : Rank(q)[Place(q, a)] = Len(q) + 1 - a
         /\ \A n \in Nodes, i \in Levels :
              r.next[n][i] \in Node \cup {NULL} /\ Rank(q)[r.next[n][i]] < Rank(q)[n]
<1>1. q \in Seq(Node) /\ Injective(q) /\ Len(q) \in Nat /\ r \in Lists
  BY DEF Built, Ordered
<1>2. PICK k : k = Rank(q)
  OBVIOUS
<1>3. /\ k[NULL] = 0 /\ k[Header] = Len(q) + 1
      /\ \A n \in Node : k[n] = IF \E a \in 1 .. Len(q) : q[a] = n
                                THEN Len(q) + 1 - (CHOOSE a \in 1 .. Len(q) : q[a] = n) ELSE 1
  BY <1>2, SkipListAssumption DEF Rank, Nodes
<1>4. ASSUME NEW a \in 1 .. Len(q) PROVE k[q[a]] = Len(q) + 1 - a
  <2>1. q[a] \in Node
    BY <1>1
  <2>2. (CHOOSE c \in 1 .. Len(q) : q[c] = q[a]) = a
    BY <1>1 DEF Injective
  <2>. QED  BY <1>3, <2>1, <2>2
<1>5. \A n \in Node : (~\E a \in 1 .. Len(q) : q[a] = n) => k[n] = 1
  BY <1>3
<1>6. \A n \in Node : k[n] \in Nat \ {0}
  <2>. SUFFICES ASSUME NEW n \in Node PROVE k[n] \in Nat \ {0}
    OBVIOUS
  <2>1. CASE \E a \in 1 .. Len(q) : q[a] = n
    <3>1. PICK a \in 1 .. Len(q) : q[a] = n
      BY <2>1
    <3>. QED  BY <1>1, <1>4, <3>1
  <2>. QED  BY <1>5, <2>1
<1>7. k \in [Nodes \cup {NULL} -> Nat]
  <2>1. \A n \in Nodes \cup {NULL} : k[n] \in Nat
    BY <1>1, <1>3, <1>6 DEF Nodes
  <2>2. k = [n \in Nodes \cup {NULL} |-> k[n]]
    BY <1>2, Zenon DEF Rank
  <2>. QED  BY <2>1, <2>2
<1>8. \A a \in 0 .. Len(q) + 1 : k[Place(q, a)] = Len(q) + 1 - a
  <2>. SUFFICES ASSUME NEW a \in 0 .. Len(q) + 1 PROVE k[Place(q, a)] = Len(q) + 1 - a
    OBVIOUS
  <2>1. a \in 1 .. Len(q) \/ a = 0 \/ a = Len(q) + 1
    BY <1>1
  <2>. QED  BY <1>1, <1>3, <1>4, <2>1, PlaceIs
<1>9. ASSUME NEW n \in Nodes, NEW i \in Levels
      PROVE  r.next[n][i] \in Node \cup {NULL} /\ k[r.next[n][i]] < k[n]
  <2>1. r.next[n][i] \in Node \cup {NULL}
    BY <1>1 DEF Lists
  <2>2. ASSUME NEW a \in 0 .. Len(q), n = Place(q, a), Reaches(q, ht, i, a)
        PROVE  k[r.next[n][i]] < k[n]
    <3>1. PICK b : NextOn(q, ht, i, a, b) /\ Joined(r, q, i, a, b)
      BY <2>2 DEF Built, Leads
    <3>2. b \in a + 1 .. Len(q) + 1 /\ r.next[n][i] = Place(q, b)
      BY <2>2, <3>1 DEF NextOn, Joined
    <3>3. b \in 0 .. Len(q) + 1 /\ a \in 0 .. Len(q) + 1 /\ a < b
      BY <1>1, <3>2
    <3>. QED  BY <1>1, <1>8, <2>2, <3>2, <3>3
  <2>3. CASE n = Header
    <3>1. 0 \in 0 .. Len(q) /\ n = Place(q, 0) /\ Reaches(q, ht, i, 0)
      BY <1>1, <2>3 DEF Place, Reaches
    <3>. QED  BY <2>1, <2>2, <3>1
  <2>4. CASE n \in Node /\ ht[n] <= i
    <3>1. r.next[n][i] = NULL
      BY <2>4 DEF Built, LeadsNowhere
    <3>. QED  BY <1>3, <1>6, <2>4, <3>1
  <2>5. CASE n \in Node /\ ~(ht[n] <= i)
    <3>1. i \in Nat /\ ht[n] \in Nat /\ ht[n] > i /\ ht[n] # 0
      BY <1>1, <2>5, SkipListAssumption DEF Built, HeightsOf, Levels, Lists
    <3>2. PICK a \in 1 .. Len(q) : q[a] = n
      BY <2>5, <3>1 DEF Built, HeightsOf
    <3>3. a \in 0 .. Len(q) /\ n = Place(q, a) /\ Reaches(q, ht, i, a)
      BY <1>1, <3>1, <3>2 DEF Place, Reaches
    <3>. QED  BY <2>1, <2>2, <3>3
  <2>. QED  BY <2>3, <2>4, <2>5 DEF Nodes
<1>. QED  BY <1>2, <1>7, <1>8, <1>9

(* A function that goes on along pointers that lead down has its values in *)
(* S if it has them where it stops and keeps them where it goes on.        *)
Kept(v, D, S, G, nx) ==
  (\A m \in D \ G : v[m] \in S) /\ \A m \in G : v[nx[m]] \in S => v[m] \in S
Within(v, D, S) == \A m \in D : v[m] \in S

LEMMA DescentWithin ==
  ASSUME NEW D, NEW S, NEW G, NEW nx, NEW rk, Down(D, G, nx, rk), NEW v, Kept(v, D, S, G, nx)
  PROVE  Within(v, D, S)
<1>. rk \in [D -> Nat] /\ \A m \in G : m \in D /\ nx[m] \in D /\ rk[nx[m]] < rk[m]
  BY DEF Down
<1>. (\A m \in D \ G : v[m] \in S) /\ \A m \in G : v[nx[m]] \in S => v[m] \in S
  BY DEF Kept
<1>. DEFINE T == {k \in Nat : \A m \in D : rk[m] < k => v[m] \in S}
<1>1. 0 \in T
  OBVIOUS
<1>2. ASSUME NEW k \in T PROVE k + 1 \in T
  <2>. SUFFICES ASSUME NEW m \in D, rk[m] < k + 1 PROVE v[m] \in S
    BY DEF T
  <2>1. CASE m \in G
    <3>1. nx[m] \in D /\ rk[nx[m]] < rk[m] /\ rk[m] \in Nat /\ rk[nx[m]] \in Nat /\ k \in Nat
      BY <2>1
    <3>2. v[nx[m]] \in S
      BY <1>2, <3>1
    <3>. QED  BY <2>1, <3>2
  <2>2. CASE m \notin G
    BY <2>2
  <2>. QED  BY <2>1, <2>2
<1>3. T = Nat
  <2>1. T \in SUBSET Nat
    OBVIOUS
  <2>. HIDE DEF T
  <2>. QED  BY <1>1, <1>2, <2>1, Induction
<1>4. ASSUME NEW m \in D PROVE v[m] \in S
  <2>1. rk[m] + 1 \in T /\ rk[m] < rk[m] + 1
    BY <1>3
  <2>. QED  BY <2>1
<1>. QED  BY <1>4 DEF Within

(* What the recursive definition of SearchLevel defines, and where it ends.*)
Place2 == [node : Nodes, rank : Int]
IsSearchLevel(w, passed, i) ==
  /\ w \in [Nodes -> Place2]
  /\ \A n \in Nodes : w[n] = IF sl.next[n][i] \in passed
                             THEN [w[sl.next[n][i]] EXCEPT !.rank = @ + sl.step[n][i]]
                             ELSE [node |-> n, rank |-> 0]

LEMMA SearchLevelRecurs ==
  ASSUME NEW q, NEW ht, Built(sl, q, ht), NEW passed, NULL \notin passed, NEW i, i \in Levels
  PROVE  IsSearchLevel(SearchLevel(passed, i), passed, i)
<1>. DEFINE F(w) == w = [n \in Nodes |->
                      IF sl.next[n][i] \in passed
                      THEN [w[sl.next[n][i]] EXCEPT !.rank = @ + sl.step[n][i]]
                      ELSE [node |-> n, rank |-> 0]]
<1>1. PICK G, nx, go, stop : /\ G = {n \in Nodes : sl.next[n][i] \in passed}
                             /\ nx = [n \in Nodes |-> sl.next[n][i]]
                             /\ go = [n \in Nodes |-> [v \in Place2 |-> [v EXCEPT !.rank = @ + sl.step[n][i]]]]
                             /\ stop = [n \in Nodes |-> [node |-> n, rank |-> 0]]
  OBVIOUS
<1>2. sl \in Lists
  BY DEF Built, Ordered
<1>3. stop \in [Nodes -> Place2]
  BY <1>1 DEF Place2
<1>4. go \in [Nodes -> [Place2 -> Place2]]
  <2>1. \A n \in Nodes : sl.step[n][i] \in Int
    BY <1>2 DEF Lists
  <2>2. \A n \in Nodes, v \in Place2 : [v EXCEPT !.rank = @ + sl.step[n][i]] \in Place2
    BY <2>1 DEF Place2
  <2>. QED  BY <1>1, <2>2
<1>5. PICK rk : rk = [n \in Nodes |-> Rank(q)[n]]
  OBVIOUS
<1>6. Down(Nodes, G, nx, rk)
  <2>1. \A n \in Nodes : Rank(q)[n] \in Nat
    BY RankIs
  <2>2. \A n \in Nodes : sl.next[n][i] \in Node \cup {NULL} /\ Rank(q)[sl.next[n][i]] < Rank(q)[n]
    BY RankIs
  <2>3. \A n \in G : n \in Nodes /\ nx[n] \in Node
    BY <1>1, <2>2
  <2>4. rk \in [Nodes -> Nat] /\ \A n \in G : n \in Nodes /\ nx[n] \in Nodes /\ rk[nx[n]] < rk[n]
    BY <1>1, <1>5, <2>1, <2>2, <2>3 DEF Nodes
  <2>. QED  BY <2>4 DEF Down
<1>7. PICK w : IsDescent(w, Nodes, Place2, G, nx, go, stop)
  BY <1>3, <1>4, <1>6, Descends
<1>8. /\ w \in [Nodes -> Place2]
      /\ \A n \in Nodes : w[n] = IF n \in G THEN go[n][w[nx[n]]] ELSE stop[n]
  BY <1>7 DEF IsDescent
<1>9. \A n \in Nodes : w[n] = IF sl.next[n][i] \in passed
                              THEN [w[sl.next[n][i]] EXCEPT !.rank = @ + sl.step[n][i]]
                              ELSE [node |-> n, rank |-> 0]
  <2>. SUFFICES ASSUME NEW n \in Nodes
                PROVE  w[n] = IF sl.next[n][i] \in passed
                              THEN [w[sl.next[n][i]] EXCEPT !.rank = @ + sl.step[n][i]]
                              ELSE [node |-> n, rank |-> 0]
    OBVIOUS
  <2>1. CASE n \in G
    <3>1. nx[n] = sl.next[n][i] /\ nx[n] \in Nodes /\ w[nx[n]] \in Place2
      BY <1>1, <1>6, <1>8, <2>1 DEF Down
    <3>2. go[n][w[nx[n]]] = [w[nx[n]] EXCEPT !.rank = @ + sl.step[n][i]]
      BY <1>1, <3>1
    <3>. QED  BY <1>1, <1>8, <2>1, <3>1, <3>2
  <2>2. CASE n \notin G
    BY <1>1, <1>8, <2>2
  <2>. QED  BY <2>1, <2>2
<1>10. F(w)
  <2>1. w = [n \in Nodes |-> w[n]]
    BY <1>8
  <2>. QED  BY <1>9, <2>1
<1>11. PICK v : v = CHOOSE f : F(f)
  OBVIOUS
<1>12. F(v)
  <2>. HIDE DEF F
  <2>. QED  BY <1>10, <1>11
<1>13. SearchLevel(passed, i) = v
  BY <1>11, Zenon DEF SearchLevel, Nodes
<1>14. \A n \in Nodes : v[n] = IF sl.next[n][i] \in passed
                              THEN [v[sl.next[n][i]] EXCEPT !.rank = @ + sl.step[n][i]]
                              ELSE [node |-> n, rank |-> 0]
  BY <1>12
<1>15. v \in [Nodes -> Place2]
  <2>1. \A n \in Nodes \ G : v[n] \in Place2
    <3>. SUFFICES ASSUME NEW n \in Nodes, n \notin G PROVE v[n] \in Place2
      OBVIOUS
    <3>1. v[n] = [node |-> n, rank |-> 0]
      BY <1>1, <1>14
    <3>. QED  BY <3>1 DEF Place2
  <2>2. ASSUME NEW n \in G, v[nx[n]] \in Place2 PROVE v[n] \in Place2
    <3>1. n \in Nodes /\ nx[n] = sl.next[n][i] /\ sl.next[n][i] \in passed
      BY <1>1
    <3>2. v[n] = [v[nx[n]] EXCEPT !.rank = @ + sl.step[n][i]] /\ sl.step[n][i] \in Int
      BY <1>2, <1>14, <3>1 DEF Lists
    <3>. QED  BY <2>2, <3>2 DEF Place2
  <2>3. Kept(v, Nodes, Place2, G, nx)
    BY <2>1, <2>2 DEF Kept
  <2>4. \A n \in Nodes : v[n] \in Place2
    BY <1>6, <2>3, DescentWithin DEF Within
  <2>. QED  BY <1>12, <2>4
<1>. QED  BY <1>13, <1>14, <1>15 DEF IsSearchLevel

(* From a place it passes it ends at the last one it passes.               *)
LEMMA SearchLevelEnds ==
  ASSUME NEW q, NEW ht, Built(sl, q, ht), NEW passed, NEW p, Splits(q, passed, p),
         NEW i, i \in 0 .. sl.level - 1, NEW x, LastOn(q, ht, i, p, x),
         NEW y, y \in 0 .. p, Reaches(q, ht, i, y)
  PROVE  SearchLevel(passed, i)[Place(q, y)] = [node |-> Place(q, x), rank |-> x - y]
<1>1. q \in Seq(Node) /\ Len(q) \in Nat /\ sl \in Lists /\ i \in Levels /\ i < sl.level /\ p \in 0 .. Len(q)
  BY SkipListAssumption DEF Built, Ordered, Splits, Lists, Levels
<1>2. PICK w : w = SearchLevel(passed, i)
  OBVIOUS
<1>3. /\ w \in [Nodes -> Place2]
      /\ \A n \in Nodes : w[n] = IF sl.next[n][i] \in passed
                                 THEN [w[sl.next[n][i]] EXCEPT !.rank = @ + sl.step[n][i]]
                                 ELSE [node |-> n, rank |-> 0]
  <2>1. IsSearchLevel(w, passed, i)
    BY <1>1, <1>2, SearchLevelRecurs DEF Splits
  <2>. QED  BY <2>1 DEF IsSearchLevel
<1>4. x \in 0 .. p /\ Reaches(q, ht, i, x) /\ \A c \in x + 1 .. p : ~Reaches(q, ht, i, c)
  BY DEF LastOn
<1>. DEFINE T == {d \in Nat : \A c \in 0 .. x : Reaches(q, ht, i, c) /\ x - c <= d =>
                    w[Place(q, c)] = [node |-> Place(q, x), rank |-> x - c]}
<1>5. ASSUME NEW c \in 0 .. x, Reaches(q, ht, i, c),
             \A a \in c + 1 .. x : Reaches(q, ht, i, a) =>
               w[Place(q, a)] = [node |-> Place(q, x), rank |-> x - a]
      PROVE  w[Place(q, c)] = [node |-> Place(q, x), rank |-> x - c]
  <2>1. c \in 0 .. Len(q) /\ Place(q, c) \in Nodes
    BY <1>1, <1>4, PlaceIs
  <2>2. PICK b : NextOn(q, ht, i, c, b) /\ Joined(sl, q, i, c, b)
    BY <1>1, <1>5, <2>1 DEF Built, Leads
  <2>3. /\ b \in c + 1 .. Len(q) + 1 /\ (b <= Len(q) => Reaches(q, ht, i, b))
        /\ \A a \in c + 1 .. b - 1 : ~Reaches(q, ht, i, a)
        /\ sl.next[Place(q, c)][i] = Place(q, b) /\ sl.step[Place(q, c)][i] = Far(q, c, b)
    BY <1>1, <2>2 DEF NextOn, Joined
  <2>4. CASE c = x
    <3>1. b > p
      <4>1. ASSUME b <= p PROVE FALSE
        <5>1. b \in x + 1 .. p /\ b <= Len(q)
          BY <1>1, <1>4, <2>3, <2>4, <4>1
        <5>. QED  BY <1>4, <2>3, <5>1
      <4>. QED  BY <1>1, <2>3, <4>1
    <3>2. Place(q, b) \notin passed
      <4>1. CASE b = Len(q) + 1
        BY <1>1, <4>1, PlaceIs DEF Splits
      <4>2. CASE b # Len(q) + 1
        <5>1. b \in 1 .. Len(q)
          BY <1>1, <2>1, <2>3, <4>2
        <5>. QED  BY <1>1, <3>1, <5>1, PlaceIs DEF Splits
      <4>. QED  BY <4>1, <4>2
    <3>3. w[Place(q, c)] = [node |-> Place(q, c), rank |-> 0]
      BY <1>3, <2>1, <2>3, <3>2
    <3>. QED  BY <1>1, <1>4, <2>4, <3>3
  <2>5. CASE c < x
    <3>1. b <= x
      <4>1. ASSUME b > x PROVE FALSE
        <5>1. x \in c + 1 .. b - 1
          BY <1>1, <1>4, <2>1, <2>3, <2>5, <4>1
        <5>. QED  BY <1>4, <2>3, <5>1
      <4>. QED  BY <1>1, <1>4, <2>3, <4>1
    <3>2. b \in c + 1 .. x /\ b \in 1 .. Len(q) /\ b <= p /\ b \in Nat /\ c \in Nat /\ x \in Nat
      BY <1>1, <1>4, <2>1, <2>3, <3>1
    <3>3. Place(q, b) \in passed
      BY <1>1, <3>2, PlaceIs DEF Splits
    <3>4. w[Place(q, b)] = [node |-> Place(q, x), rank |-> x - b]
      BY <1>5, <2>3, <3>2
    <3>5. Far(q, c, b) = b - c
      BY <1>1, <3>2 DEF Far
    <3>6. w[Place(q, c)] = [w[Place(q, b)] EXCEPT !.rank = @ + (b - c)]
      BY <1>3, <2>1, <2>3, <3>3, <3>5
    <3>7. (x - b) + (b - c) = x - c
      BY <3>2
    <3>. QED  BY <3>4, <3>6, <3>7
  <2>. QED  BY <1>1, <1>4, <2>4, <2>5
<1>6. 0 \in T
  <2>. SUFFICES ASSUME NEW c \in 0 .. x, Reaches(q, ht, i, c), x - c <= 0
                PROVE  w[Place(q, c)] = [node |-> Place(q, x), rank |-> x - c]
    OBVIOUS
  <2>1. \A a \in c + 1 .. x : FALSE
    BY <1>1, <1>4
  <2>. QED  BY <1>5, <2>1
<1>7. ASSUME NEW d \in T PROVE d + 1 \in T
  <2>. SUFFICES ASSUME NEW c \in 0 .. x, Reaches(q, ht, i, c), x - c <= d + 1
                PROVE  w[Place(q, c)] = [node |-> Place(q, x), rank |-> x - c]
    BY DEF T
  <2>1. \A a \in c + 1 .. x : a \in 0 .. x /\ x - a <= d
    BY <1>1, <1>4
  <2>2. \A a \in c + 1 .. x : Reaches(q, ht, i, a) =>
          w[Place(q, a)] = [node |-> Place(q, x), rank |-> x - a]
    BY <1>7, <2>1
  <2>. QED  BY <1>5, <2>2
<1>8. T = Nat
  <2>1. T \in SUBSET Nat
    OBVIOUS
  <2>. HIDE DEF T
  <2>. QED  BY <1>6, <1>7, <2>1, Induction
<1>9. y \in 0 .. x
  <2>1. ASSUME y > x PROVE FALSE
    <3>1. y \in x + 1 .. p
      BY <1>1, <1>4, <2>1
    <3>. QED  BY <1>4, <3>1
  <2>. QED  BY <1>1, <1>4, <2>1
<1>10. x - y \in T /\ x - y <= x - y
  BY <1>1, <1>4, <1>8, <1>9
<1>. QED  BY <1>2, <1>9, <1>10

(* A level is left at the last node there that is passed.                  *)
Ends(v, q, ht, i, p) == \E x : LastOn(q, ht, i, p, x) /\ v = [node |-> Place(q, x), rank |-> x]
Guides(path, q, ht, p, level) == \A i \in 0 .. level : Ends(path[i], q, ht, i, p)

LEMMA SearchRecurs ==
  ASSUME NEW q, NEW ht, Built(sl, q, ht), NEW passed, NULL \notin passed, NEW path, path = Search(passed)
  PROVE  \A i \in 0 .. sl.level :
           path[i] = IF i = sl.level THEN [node |-> Header, rank |-> 0]
                     ELSE [SearchLevel(passed, i)[path[i + 1].node] EXCEPT !.rank = @ + path[i + 1].rank]
<1>. DEFINE D == 0 .. sl.level
            F(f) == f = [i \in D |->
                      IF i = sl.level THEN [node |-> Header, rank |-> 0]
                      ELSE [SearchLevel(passed, i)[f[i + 1].node] EXCEPT !.rank = @ + f[i + 1].rank]]
<1>1. sl.level \in Nat /\ \A i \in 0 .. sl.level - 1 : i \in Levels
  BY SkipListAssumption DEF Built, Ordered, Lists, Levels
<1>2. PICK G, nx, rk, go, stop : /\ G = 0 .. sl.level - 1
                                 /\ nx = [i \in D |-> i + 1]
                                 /\ rk = [i \in D |-> sl.level - i]
                                 /\ go = [i \in D |-> [v \in Place2 |->
                                       IF i = sl.level THEN v
                                       ELSE [SearchLevel(passed, i)[v.node] EXCEPT !.rank = @ + v.rank]]]
                                 /\ stop = [i \in D |-> [node |-> Header, rank |-> 0]]
  OBVIOUS
<1>3. Down(D, G, nx, rk)
  BY <1>1, <1>2 DEF Down
<1>4. stop \in [D -> Place2]
  BY <1>2 DEF Place2, Nodes
<1>5. go \in [D -> [Place2 -> Place2]]
  <2>1. ASSUME NEW i \in D, i # sl.level, NEW v \in Place2
        PROVE  [SearchLevel(passed, i)[v.node] EXCEPT !.rank = @ + v.rank] \in Place2
    <3>1. PICK w : w = SearchLevel(passed, i)
      OBVIOUS
    <3>2. i \in Levels
      BY <1>1, <2>1
    <3>3. IsSearchLevel(w, passed, i)
      BY <3>1, <3>2, SearchLevelRecurs
    <3>4. w[v.node] \in Place2 /\ v.rank \in Int
      BY <3>3 DEF IsSearchLevel, Place2
    <3>5. [w[v.node] EXCEPT !.rank = @ + v.rank] \in Place2
      BY <3>4 DEF Place2
    <3>. QED  BY <3>1, <3>5
  <2>2. \A i \in D, v \in Place2 :
          (IF i = sl.level THEN v
           ELSE [SearchLevel(passed, i)[v.node] EXCEPT !.rank = @ + v.rank]) \in Place2
    BY <2>1
  <2>. QED  BY <1>2, <2>2
<1>6. PICK f : IsDescent(f, D, Place2, G, nx, go, stop)
  <2>. HIDE DEF D
  <2>. QED  BY <1>3, <1>4, <1>5, Descends
<1>7. ASSUME NEW i \in D
      PROVE  f[i] = IF i = sl.level THEN [node |-> Header, rank |-> 0]
                    ELSE [SearchLevel(passed, i)[f[i + 1].node] EXCEPT !.rank = @ + f[i + 1].rank]
  <2>1. f \in [D -> Place2] /\ f[i] = IF i \in G THEN go[i][f[nx[i]]] ELSE stop[i]
    BY <1>6 DEF IsDescent
  <2>2. CASE i = sl.level
    <3>1. i \notin G
      BY <1>1, <1>2, <2>2
    <3>. QED  BY <1>2, <2>1, <2>2, <3>1
  <2>3. CASE i # sl.level
    <3>1. i \in G /\ nx[i] = i + 1 /\ i + 1 \in D
      BY <1>1, <1>2, <2>3
    <3>2. PICK v : v = f[i + 1]
      OBVIOUS
    <3>3. v \in Place2 /\ f[i] = go[i][v]
      BY <2>1, <3>1, <3>2
    <3>4. go[i][v] = [SearchLevel(passed, i)[v.node] EXCEPT !.rank = @ + v.rank]
      BY <1>2, <2>3, <3>3
    <3>. QED  BY <2>3, <3>2, <3>3, <3>4
  <2>. QED  BY <2>2, <2>3
<1>8. F(f)
  <2>1. f = [i \in D |-> f[i]]
    BY <1>6 DEF IsDescent
  <2>. QED  BY <1>7, <2>1, Zenon
<1>9. PICK c : c = CHOOSE g : F(g)
  OBVIOUS
<1>10. F(c)
  <2>. HIDE DEF F
  <2>. QED  BY <1>8, <1>9
<1>11. path = c
  BY <1>9, Zenon DEF Search
<1>. QED  BY <1>10, <1>11

LEMMA SearchEnds ==
  ASSUME NEW q, NEW ht, Built(sl, q, ht), NEW passed, NEW p, Splits(q, passed, p),
         NEW path, path = Search(passed)
  PROVE  Guides(path, q, ht, p, sl.level)
<1>1. /\ sl.level \in Nat /\ p \in 0 .. Len(q) /\ Len(q) \in Nat /\ NULL \notin passed
      /\ q \in Seq(Node) /\ ht \in [Node -> 0 .. sl.level]
  BY SkipListAssumption DEF Built, Ordered, Lists, Splits, HeightsOf
<1>2. \A i \in 0 .. sl.level :
        path[i] = IF i = sl.level THEN [node |-> Header, rank |-> 0]
                  ELSE [SearchLevel(passed, i)[path[i + 1].node] EXCEPT !.rank = @ + path[i + 1].rank]
  BY <1>1, SearchRecurs
<1>. DEFINE T == {d \in Nat : d <= sl.level => Ends(path[sl.level - d], q, ht, sl.level - d, p)}
<1>3. 0 \in T
  <2>1. sl.level - 0 = sl.level
    BY <1>1
  <2>2. path[sl.level] = [node |-> Header, rank |-> 0]
    <3>1. PICK i : i = sl.level
      OBVIOUS
    <3>2. i \in 0 .. sl.level
      BY <1>1, <3>1
    <3>3. path[i] = [node |-> Header, rank |-> 0]
      BY <1>2, <3>1, <3>2
    <3>. QED  BY <3>1, <3>3
  <2>3. LastOn(q, ht, sl.level, p, 0)
    <3>1. \A c \in 1 .. p : q[c] \in Node /\ ~(ht[q[c]] > sl.level) /\ c # 0
      <4>. SUFFICES ASSUME NEW c \in 1 .. p PROVE q[c] \in Node /\ ~(ht[q[c]] > sl.level) /\ c # 0
        OBVIOUS
      <4>1. c \in 1 .. Len(q)
        BY <1>1
      <4>2. q[c] \in Node
        BY <1>1, <4>1
      <4>3. ht[q[c]] \in 0 .. sl.level
        BY <1>1, <4>2
      <4>. QED  BY <1>1, <4>2, <4>3
    <3>. QED  BY <1>1, <3>1 DEF LastOn, Reaches
  <2>4. Place(q, 0) = Header
    BY DEF Place
  <2>. QED  BY <2>1, <2>2, <2>3, <2>4 DEF Ends
<1>4. ASSUME NEW d \in T PROVE d + 1 \in T
  <2>. SUFFICES ASSUME d + 1 <= sl.level
                PROVE  Ends(path[sl.level - (d + 1)], q, ht, sl.level - (d + 1), p)
    BY DEF T
  <2>1. PICK i : i = sl.level - (d + 1)
    OBVIOUS
  <2>2. i \in 0 .. sl.level - 1 /\ i + 1 = sl.level - d /\ i \in Nat /\ i # sl.level /\ d <= sl.level
    BY <1>1, <2>1
  <2>3. Ends(path[i + 1], q, ht, i + 1, p)
    BY <1>4, <2>2
  <2>4. PICK y : LastOn(q, ht, i + 1, p, y) /\ path[i + 1] = [node |-> Place(q, y), rank |-> y]
    BY <2>3 DEF Ends
  <2>5. y \in 0 .. p /\ Reaches(q, ht, i, y)
    <3>1. y \in 0 .. p /\ Reaches(q, ht, i + 1, y)
      BY <2>4 DEF LastOn
    <3>2. CASE y = 0
      BY <3>1, <3>2 DEF Reaches
    <3>3. CASE y # 0
      <4>1. y \in 1 .. Len(q) /\ ht[q[y]] > i + 1
        BY <1>1, <3>1, <3>3 DEF Reaches
      <4>2. q[y] \in Node
        BY <1>1, <4>1
      <4>3. ht[q[y]] \in Nat
        BY <1>1, <4>2
      <4>4. ht[q[y]] > i
        BY <2>2, <4>1, <4>3
      <4>. QED  BY <3>1, <4>4 DEF Reaches
    <3>. QED  BY <3>2, <3>3
  <2>6. PICK x : LastOn(q, ht, i, p, x)
    <3>1. p \in Nat
      BY <1>1
    <3>. QED  BY <3>1, LastExists
  <2>7. SearchLevel(passed, i)[Place(q, y)] = [node |-> Place(q, x), rank |-> x - y]
    BY <2>2, <2>5, <2>6, SearchLevelEnds
  <2>8. path[i] = [SearchLevel(passed, i)[path[i + 1].node] EXCEPT !.rank = @ + path[i + 1].rank]
    <3>1. i \in 0 .. sl.level /\ i # sl.level
      BY <1>1, <2>2
    <3>. QED  BY <1>2, <3>1, Zenon
  <2>9. path[i] = [node |-> Place(q, x), rank |-> (x - y) + y]
    BY <2>4, <2>7, <2>8
  <2>10. (x - y) + y = x
    <3>1. x \in 0 .. p
      BY <2>6 DEF LastOn
    <3>. QED  BY <1>1, <2>5, <3>1
  <2>11. Ends(path[i], q, ht, i, p)
    BY <2>6, <2>9, <2>10 DEF Ends
  <2>. QED  BY <2>1, <2>11
<1>5. T = Nat
  <2>1. T \in SUBSET Nat
    OBVIOUS
  <2>. HIDE DEF T
  <2>. QED  BY <1>3, <1>4, <2>1, Induction
<1>6. ASSUME NEW i \in 0 .. sl.level PROVE Ends(path[i], q, ht, i, p)
  <2>1. sl.level - i \in T /\ sl.level - i <= sl.level /\ sl.level - (sl.level - i) = i
    BY <1>1, <1>5
  <2>. QED  BY <2>1
<1>. QED  BY <1>6 DEF Guides

-----------------------------------------------------------------------------
(* Insertion.                                                              *)

(* The sequence with n behind place p, and where its places are then.      *)
InsertAt(q, p, n) == [a \in 1 .. Len(q) + 1 |-> IF a <= p THEN q[a] ELSE IF a = p + 1 THEN n ELSE q[a - 1]]
Moved(p, a) == IF a <= p THEN a ELSE a + 1
InsertsAt(s, q, p, n) ==
  /\ s \in Seq(Node) /\ Len(s) = Len(q) + 1 /\ Injective(s)
  /\ Place(s, p + 1) = n
  /\ \A a \in 0 .. Len(q) + 1 : Place(s, Moved(p, a)) = Place(q, a)

LEMMA InsertAtIs ==
  ASSUME NEW q, q \in Seq(Node), Injective(q), NEW p, p \in 0 .. Len(q), NEW n, n \in Node,
         \A a \in 1 .. Len(q) : q[a] # n, NEW s, s = InsertAt(q, p, n)
  PROVE  InsertsAt(s, q, p, n)
<1>1. Len(q) \in Nat
  OBVIOUS
<1>2. PICK l : l = Len(q)
  OBVIOUS
<1>3. l \in Nat /\ p \in 0 .. l /\ \A a \in 1 .. l : q[a] \in Node
  BY <1>1, <1>2
<1>4. s = [a \in 1 .. l + 1 |-> IF a <= p THEN q[a] ELSE IF a = p + 1 THEN n ELSE q[a - 1]]
  BY <1>2 DEF InsertAt
<1>5. \A a \in 1 .. l + 1 : s[a] \in Node
  <2>. SUFFICES ASSUME NEW a \in 1 .. l + 1 PROVE s[a] \in Node
    OBVIOUS
  <2>1. a <= p => a \in 1 .. l
    BY <1>3
  <2>2. a > p + 1 => a - 1 \in 1 .. l
    BY <1>3
  <2>3. a <= p \/ a = p + 1 \/ a > p + 1
    BY <1>3
  <2>. QED  BY <1>3, <1>4, <2>1, <2>2, <2>3
<1>6. s \in Seq(Node) /\ Len(s) = l + 1
  <2>1. s \in [1 .. l + 1 -> Node]
    BY <1>4, <1>5
  <2>. QED  BY <1>3, <2>1
<1>7. \A a \in 1 .. l : s[Moved(p, a)] = q[a] /\ Moved(p, a) \in 1 .. l + 1 /\ Moved(p, a) # p + 1
  BY <1>3, <1>4 DEF Moved
<1>8. s[p + 1] = n /\ p + 1 \in 1 .. l + 1
  BY <1>3, <1>4
<1>9. \A a \in 1 .. l + 1 : a = p + 1 \/ \E c \in 1 .. l : a = Moved(p, c)
  <2>. SUFFICES ASSUME NEW a \in 1 .. l + 1, a # p + 1 PROVE \E c \in 1 .. l : a = Moved(p, c)
    OBVIOUS
  <2>1. CASE a <= p
    BY <1>3, <2>1 DEF Moved
  <2>2. CASE a > p + 1
    <3>1. a - 1 \in 1 .. l /\ Moved(p, a - 1) = a
      BY <1>3, <2>2 DEF Moved
    <3>. QED  BY <3>1
  <2>. QED  BY <1>3, <2>1, <2>2
<1>10. Injective(s)
  <2>. SUFFICES ASSUME NEW a \in 1 .. l + 1, NEW b \in 1 .. l + 1, s[a] = s[b] PROVE a = b
    BY <1>6 DEF Injective
  <2>1. CASE a = p + 1 /\ b = p + 1
    BY <2>1
  <2>2. CASE a = p + 1 /\ b # p + 1
    <3>1. PICK c \in 1 .. l : b = Moved(p, c)
      BY <1>9, <2>2
    <3>. QED  BY <1>2, <1>7, <1>8, <2>2, <3>1
  <2>3. CASE a # p + 1 /\ b = p + 1
    <3>1. PICK c \in 1 .. l : a = Moved(p, c)
      BY <1>9, <2>3
    <3>. QED  BY <1>2, <1>7, <1>8, <2>3, <3>1
  <2>4. CASE a # p + 1 /\ b # p + 1
    <3>1. PICK c \in 1 .. l : a = Moved(p, c)
      BY <1>9, <2>4
    <3>2. PICK d \in 1 .. l : b = Moved(p, d)
      BY <1>9, <2>4
    <3>3. q[c] = q[d]
      BY <1>7, <3>1, <3>2
    <3>4. c = d
      BY <1>2, <3>3 DEF Injective
    <3>. QED  BY <3>1, <3>2, <3>4
  <2>. QED  BY <2>1, <2>2, <2>3, <2>4
<1>11. ASSUME NEW a \in 0 .. l + 1 PROVE Place(s, Moved(p, a)) = Place(q, a)
  <2>1. CASE a = 0
    <3>1. Moved(p, a) = 0
      BY <1>3, <2>1 DEF Moved
    <3>. QED  BY <2>1, <3>1 DEF Place
  <2>2. CASE a \in 1 .. l
    <3>1. Moved(p, a) \in 1 .. Len(s) /\ Moved(p, a) # 0 /\ a # 0
      BY <1>6, <1>7, <2>2
    <3>. QED  BY <1>2, <1>7, <2>2, <3>1 DEF Place
  <2>3. CASE a = l + 1
    <3>1. Moved(p, a) = l + 2
      BY <1>3, <2>3 DEF Moved
    <3>2. l + 2 # 0 /\ l + 2 \notin 1 .. l + 1 /\ l + 1 # 0 /\ l + 1 \notin 1 .. l
      BY <1>3
    <3>. QED  BY <1>2, <1>6, <2>3, <3>1, <3>2 DEF Place
  <2>. QED  BY <1>3, <2>1, <2>2, <2>3
<1>12. Place(s, p + 1) = n
  <2>1. p + 1 # 0 /\ p + 1 \in 1 .. Len(s)
    BY <1>3, <1>6
  <2>. QED  BY <1>8, <2>1 DEF Place
<1>. QED  BY <1>2, <1>6, <1>10, <1>11, <1>12 DEF InsertsAt

(* What reaches up to a level still does, and n does up to its height.     *)
LEMMA InsertReaches ==
  ASSUME NEW q, q \in Seq(Node), NEW level, NEW ht, ht \in [Node -> 0 .. level], level \in Nat,
         NEW p, p \in 0 .. Len(q), NEW n, n \in Node,
         \A a \in 1 .. Len(q) : q[a] # n, NEW height, NEW s, InsertsAt(s, q, p, n),
         NEW gt, gt = [ht EXCEPT ![n] = height]
  PROVE  \A i : /\ Reaches(s, gt, i, p + 1) <=> height > i
                /\ \A a \in 0 .. Len(q) : Reaches(s, gt, i, Moved(p, a)) <=> Reaches(q, ht, i, a)
<1>. SUFFICES ASSUME NEW i
              PROVE  /\ Reaches(s, gt, i, p + 1) <=> height > i
                     /\ \A a \in 0 .. Len(q) : Reaches(s, gt, i, Moved(p, a)) <=> Reaches(q, ht, i, a)
  OBVIOUS
<1>1. Len(q) \in Nat /\ Len(s) = Len(q) + 1 /\ gt[n] = height
  BY DEF InsertsAt
<1>2. s[p + 1] = n /\ p + 1 # 0
  <2>1. p + 1 \in 1 .. Len(s) /\ p + 1 # 0
    BY <1>1
  <2>. QED  BY <2>1 DEF InsertsAt, Place
<1>3. ASSUME NEW a \in 1 .. Len(q) PROVE Reaches(s, gt, i, Moved(p, a)) <=> Reaches(q, ht, i, a)
  <2>1. Moved(p, a) \in 1 .. Len(s) /\ Moved(p, a) # 0 /\ a # 0 /\ a \in 0 .. Len(q) + 1
    BY <1>1 DEF Moved
  <2>2. s[Moved(p, a)] = q[a]
    BY <2>1 DEF InsertsAt, Place
  <2>3. q[a] \in Node /\ q[a] # n
    OBVIOUS
  <2>4. gt[q[a]] = ht[q[a]]
    BY <2>3
  <2>. QED  BY <2>1, <2>2, <2>4 DEF Reaches
<1>4. Reaches(s, gt, i, Moved(p, 0)) /\ Reaches(q, ht, i, 0)
  BY DEF Reaches, Moved
<1>. QED  BY <1>1, <1>2, <1>3, <1>4 DEF Reaches

ReachesSo(s, gt, q, ht, i, p, higher) ==
  /\ Reaches(s, gt, i, p + 1) <=> higher
  /\ \A a \in 0 .. Len(q) : Reaches(s, gt, i, Moved(p, a)) <=> Reaches(q, ht, i, a)

(* The next place is the next one still, but for n: the last place before  *)
(* it leads to n if n reaches the level, and n to where that one led.      *)
InsertsNext(s, gt, q, ht, i, p, higher, a, b) ==
  /\ ~(a <= p /\ p < b /\ higher) =>
       /\ NextOn(s, gt, i, Moved(p, a), Moved(p, b))
       /\ Far(s, Moved(p, a), Moved(p, b)) = Far(q, a, b) + IF a <= p /\ p < b THEN 1 ELSE 0
  /\ a <= p /\ p < b /\ higher =>
       /\ NextOn(s, gt, i, a, p + 1) /\ Far(s, a, p + 1) = p + 1 - a
       /\ NextOn(s, gt, i, p + 1, Moved(p, b)) /\ Far(s, p + 1, Moved(p, b)) = Far(q, a, b) - (p - a)

LEMMA InsertNext ==
  ASSUME NEW q, q \in Seq(Node), NEW ht, NEW p, p \in 0 .. Len(q), NEW s, s \in Seq(Node), Len(s) = Len(q) + 1,
         NEW gt, NEW i, NEW higher \in BOOLEAN, ReachesSo(s, gt, q, ht, i, p, higher),
         NEW a, a \in 0 .. Len(q), NEW b, NextOn(q, ht, i, a, b)
  PROVE  InsertsNext(s, gt, q, ht, i, p, higher, a, b)
<1>1. PICK l : l = Len(q)
  OBVIOUS
<1>2. l \in Nat /\ p \in 0 .. l /\ a \in 0 .. l /\ Len(s) = l + 1
  BY <1>1
<1>3. b \in a + 1 .. l + 1 /\ (b <= l => Reaches(q, ht, i, b)) /\ \A c \in a + 1 .. b - 1 : ~Reaches(q, ht, i, c)
  BY <1>1 DEF NextOn
<1>4. /\ Reaches(s, gt, i, p + 1) <=> higher
      /\ \A c \in 0 .. l : Reaches(s, gt, i, Moved(p, c)) <=> Reaches(q, ht, i, c)
  BY <1>1 DEF ReachesSo
<1>5. ASSUME NEW c \in a + 1 .. b - 1 PROVE ~Reaches(s, gt, i, Moved(p, c))
  <2>1. c \in 0 .. l
    BY <1>2, <1>3
  <2>. QED  BY <1>3, <1>4, <2>1
<1>6. b <= l => Reaches(s, gt, i, Moved(p, b))
  <2>1. b <= l => b \in 0 .. l
    BY <1>2, <1>3
  <2>. QED  BY <1>3, <1>4, <2>1
<1>7. CASE ~(a <= p /\ p < b /\ higher)
  <2>1. Moved(p, b) \in Moved(p, a) + 1 .. Len(s) + 1 /\ (Moved(p, b) <= Len(s) => b <= l)
    BY <1>2, <1>3 DEF Moved
  <2>2. ASSUME NEW c \in Moved(p, a) + 1 .. Moved(p, b) - 1 PROVE ~Reaches(s, gt, i, c)
    <3>1. CASE c = p + 1
      <4>1. a <= p /\ p < b
        BY <1>2, <1>3, <3>1 DEF Moved
      <4>. QED  BY <1>4, <1>7, <3>1, <4>1
    <3>2. CASE c # p + 1
      <4>1. PICK d : d = IF c <= p THEN c ELSE c - 1
        OBVIOUS
      <4>2. d \in a + 1 .. b - 1 /\ Moved(p, d) = c
        BY <1>2, <1>3, <3>2, <4>1 DEF Moved
      <4>. QED  BY <1>5, <4>2
    <3>. QED  BY <3>1, <3>2
  <2>3. NextOn(s, gt, i, Moved(p, a), Moved(p, b))
    BY <1>6, <2>1, <2>2 DEF NextOn
  <2>4. Far(s, Moved(p, a), Moved(p, b)) = Far(q, a, b) + IF a <= p /\ p < b THEN 1 ELSE 0
    <3>1. a \in Nat /\ b \in Nat /\ p \in Nat /\ a < b /\ b <= l + 1 /\ p <= l
      BY <1>2, <1>3
    <3>2. CASE b <= p
      <4>1. Moved(p, a) = a /\ Moved(p, b) = b /\ ~(b > l) /\ ~(b > Len(s))
        BY <1>2, <3>1, <3>2 DEF Moved
      <4>. QED  BY <1>1, <1>2, <3>1, <3>2, <4>1 DEF Far
    <3>3. CASE p < b
      <4>1. Moved(p, b) = b + 1 /\ (b + 1 > Len(s) <=> b > l)
        BY <1>2, <3>1, <3>3 DEF Moved
      <4>2. Far(s, Moved(p, a), Moved(p, b)) = (IF b > l THEN l + 1 ELSE b + 1) - Moved(p, a)
        BY <1>2, <4>1 DEF Far
      <4>3. Far(q, a, b) = (IF b > l THEN l ELSE b) - a
        BY <1>1 DEF Far
      <4>4. Moved(p, a) = IF a <= p THEN a ELSE a + 1
        BY DEF Moved
      <4>. QED  BY <1>2, <3>1, <3>3, <4>2, <4>3, <4>4
    <3>. QED  BY <3>1, <3>2, <3>3
  <2>. QED  BY <1>7, <2>3, <2>4 DEF InsertsNext
<1>8. CASE a <= p /\ p < b /\ higher
  <2>1. NextOn(s, gt, i, a, p + 1)
    <3>1. p + 1 \in a + 1 .. Len(s) + 1
      BY <1>2, <1>8
    <3>2. ASSUME NEW c \in a + 1 .. (p + 1) - 1 PROVE ~Reaches(s, gt, i, c)
      <4>1. c \in a + 1 .. b - 1 /\ Moved(p, c) = c
        BY <1>2, <1>3, <1>8 DEF Moved
      <4>. QED  BY <1>5, <4>1
    <3>. QED  BY <1>4, <1>8, <3>1, <3>2 DEF NextOn
  <2>2. NextOn(s, gt, i, p + 1, Moved(p, b))
    <3>1. Moved(p, b) = b + 1 /\ Moved(p, b) \in (p + 1) + 1 .. Len(s) + 1 /\ (Moved(p, b) <= Len(s) => b <= l)
      BY <1>2, <1>3, <1>8 DEF Moved
    <3>2. ASSUME NEW c \in (p + 1) + 1 .. Moved(p, b) - 1 PROVE ~Reaches(s, gt, i, c)
      <4>1. c - 1 \in a + 1 .. b - 1 /\ Moved(p, c - 1) = c
        BY <1>2, <1>3, <1>8, <3>1 DEF Moved
      <4>. QED  BY <1>5, <4>1
    <3>. QED  BY <1>6, <3>1, <3>2 DEF NextOn
  <2>3. Far(s, a, p + 1) = p + 1 - a /\ Far(s, p + 1, Moved(p, b)) = Far(q, a, b) - (p - a)
    BY <1>1, <1>2, <1>3, <1>8 DEF Far, Moved
  <2>. QED  BY <1>8, <2>1, <2>2, <2>3 DEF InsertsNext
<1>. QED  BY <1>7, <1>8

(* The last place up to p is the one that leads on beyond p.               *)
LEMMA LastLeadsOn ==
  ASSUME NEW q, q \in Seq(Node), NEW ht, NEW i, NEW p, p \in 0 .. Len(q), NEW x, LastOn(q, ht, i, p, x),
         NEW a, a \in 0 .. Len(q), Reaches(q, ht, i, a), NEW b, NextOn(q, ht, i, a, b)
  PROVE  a = x <=> a <= p /\ p < b
<1>1. PICK l : l = Len(q)
  OBVIOUS
<1>2. l \in Nat /\ p \in 0 .. l /\ a \in 0 .. l
  BY <1>1
<1>3. b \in a + 1 .. l + 1 /\ (b <= l => Reaches(q, ht, i, b)) /\ \A c \in a + 1 .. b - 1 : ~Reaches(q, ht, i, c)
  BY <1>1 DEF NextOn
<1>4. x \in 0 .. p /\ Reaches(q, ht, i, x) /\ \A c \in x + 1 .. p : ~Reaches(q, ht, i, c)
  BY DEF LastOn
<1>5. ASSUME a = x PROVE p < b
  <2>1. ASSUME b <= p PROVE FALSE
    <3>1. b \in x + 1 .. p /\ b <= l
      BY <1>2, <1>3, <1>4, <1>5, <2>1
    <3>. QED  BY <1>3, <1>4, <3>1
  <2>. QED  BY <1>2, <1>3, <2>1
<1>6. ASSUME a <= p, p < b, a < x PROVE FALSE
  <2>1. x \in a + 1 .. b - 1
    BY <1>2, <1>3, <1>4, <1>6
  <2>. QED  BY <1>3, <1>4, <2>1
<1>7. ASSUME a <= p, x < a PROVE FALSE
  <2>1. a \in x + 1 .. p
    BY <1>2, <1>4, <1>7
  <2>. QED  BY <1>4, <2>1
<1>. QED  BY <1>2, <1>4, <1>5, <1>6, <1>7

(* All nodes reach level 0.                                                *)
LEMMA LowestIs ==
  ASSUME NEW r, NEW q, NEW ht, Built(r, q, ht)
  PROVE  /\ \A a \in 0 .. Len(q) : Reaches(q, ht, 0, a) /\ NextOn(q, ht, 0, a, a + 1)
         /\ \A a \in 0 .. Len(q) : r.next[Place(q, a)][0] = Place(q, a + 1)
         /\ \A p \in 0 .. Len(q) : LastOn(q, ht, 0, p, p)
<1>1. /\ q \in Seq(Node) /\ Len(q) \in Nat /\ r.level \in Nat /\ 0 \in Levels
      /\ ht \in [Node -> 0 .. r.level]
  BY SkipListAssumption DEF Built, Ordered, Lists, HeightsOf, Levels
<1>2. \A a \in 1 .. Len(q) : Reaches(q, ht, 0, a)
  <2>. SUFFICES ASSUME NEW a \in 1 .. Len(q) PROVE ht[q[a]] > 0
    BY DEF Reaches
  <2>1. q[a] \in Node
    BY <1>1
  <2>2. ht[q[a]] # 0
    BY <2>1 DEF Built, HeightsOf
  <2>3. ht[q[a]] \in 0 .. r.level
    BY <1>1, <2>1
  <2>. QED  BY <1>1, <2>2, <2>3
<1>3. \A a \in 0 .. Len(q) : Reaches(q, ht, 0, a)
  <2>1. Reaches(q, ht, 0, 0)
    BY DEF Reaches
  <2>. QED  BY <1>1, <1>2, <2>1
<1>4. ASSUME NEW a \in 0 .. Len(q) PROVE NextOn(q, ht, 0, a, a + 1)
  <2>1. a + 1 \in a + 1 .. Len(q) + 1 /\ \A c \in a + 1 .. (a + 1) - 1 : FALSE
    BY <1>1
  <2>2. a + 1 <= Len(q) => a + 1 \in 1 .. Len(q)
    BY <1>1
  <2>. QED  BY <1>2, <2>1, <2>2 DEF NextOn
<1>5. ASSUME NEW a \in 0 .. Len(q) PROVE r.next[Place(q, a)][0] = Place(q, a + 1)
  <2>1. PICK b : NextOn(q, ht, 0, a, b) /\ Joined(r, q, 0, a, b)
    BY <1>1, <1>3 DEF Built, Leads
  <2>2. a \in Nat /\ NextOn(q, ht, 0, a, a + 1)
    BY <1>1, <1>4
  <2>3. b = a + 1
    BY <1>1, <2>1, <2>2, NextUnique
  <2>. QED  BY <2>1, <2>3 DEF Joined
<1>6. ASSUME NEW p \in 0 .. Len(q) PROVE LastOn(q, ht, 0, p, p)
  <2>1. p \in 0 .. p /\ \A c \in p + 1 .. p : FALSE
    BY <1>1
  <2>. QED  BY <1>3, <2>1 DEF LastOn
<1>. QED  BY <1>3, <1>4, <1>5, <1>6

(* What dmbSkipListInsert makes of the list r, with what the search found. *)
InsertSets(t, r, n, height, u) ==
  /\ t \in Lists /\ t.level = r.level /\ t.len = r.len + 1
  /\ \A m \in Nodes, i \in Levels :
       t.next[m][i] = IF i >= height THEN r.next[m][i]
                      ELSE IF m = n THEN r.next[u[i].node][i]
                      ELSE IF m = u[i].node THEN n ELSE r.next[m][i]
  /\ \A m \in Nodes, i \in Levels :
       t.step[m][i] = IF i >= height
                      THEN IF i < r.level /\ m = u[i].node THEN r.step[m][i] + 1 ELSE r.step[m][i]
                      ELSE IF m = n THEN r.step[u[i].node][i] - (u[0].rank - u[i].rank)
                      ELSE IF m = u[i].node THEN (u[0].rank - u[i].rank) + 1 ELSE r.step[m][i]
  /\ \A m \in Node :
       t.prev[m] = IF m = n THEN IF u[0].node = Header THEN NULL ELSE u[0].node
                   ELSE IF m = r.next[u[0].node][0] THEN n ELSE r.prev[m]
Found(u, q, ht, p) == \A i \in Levels : Ends(u[i], q, ht, i, p)

LEMMA InsertLeads ==
  ASSUME NEW r, NEW q, NEW ht, Built(r, q, ht), NEW p, p \in 0 .. Len(q), NEW n, n \in Node, ht[n] = 0,
         NEW height, height \in 1 .. r.level, NEW u, Found(u, q, ht, p),
         NEW t, InsertSets(t, r, n, height, u), NEW s, InsertsAt(s, q, p, n),
         NEW gt, gt = [ht EXCEPT ![n] = height]
  PROVE  Leads(t, s, gt)
<1>1. /\ q \in Seq(Node) /\ Injective(q) /\ Len(q) \in Nat /\ r.level \in Nat /\ r.level <= MaxLevel
      /\ ht \in [Node -> 0 .. r.level] /\ r \in Lists /\ MaxLevel \in Nat /\ 0 \in Levels
  BY SkipListAssumption DEF Built, Ordered, Lists, HeightsOf, Levels
<1>2. \A a \in 1 .. Len(q) : q[a] # n
  <2>1. ~\E a \in 1 .. Len(q) : q[a] = n
    BY DEF Built, HeightsOf
  <2>. QED  BY <2>1
<1>3. /\ s \in Seq(Node) /\ Len(s) = Len(q) + 1 /\ Place(s, p + 1) = n
      /\ \A a \in 0 .. Len(q) + 1 : Place(s, Moved(p, a)) = Place(q, a)
  BY DEF InsertsAt
<1>4. ASSUME NEW i \in Levels PROVE ReachesSo(s, gt, q, ht, i, p, height > i)
  <2>1. PICK level : level = r.level
    OBVIOUS
  <2>2. ht \in [Node -> 0 .. level] /\ level \in Nat
    BY <1>1, <2>1
  <2>. QED  BY <1>1, <1>2, <2>2, InsertReaches DEF ReachesSo
<1>5. u[0].rank = p /\ u[0].node = Place(q, p)
  <2>1. PICK x : LastOn(q, ht, 0, p, x) /\ u[0] = [node |-> Place(q, x), rank |-> x]
    BY <1>1 DEF Found, Ends
  <2>2. LastOn(q, ht, 0, p, p) /\ p \in Nat
    BY <1>1, LowestIs
  <2>3. x = p
    BY <2>1, <2>2, LastUnique
  <2>. QED  BY <2>1, <2>3
<1>. SUFFICES ASSUME NEW i \in Levels, NEW c \in 0 .. Len(s), Reaches(s, gt, i, c)
              PROVE  \E d : NextOn(s, gt, i, c, d) /\ Joined(t, s, i, c, d)
  BY DEF Leads
<1>6. PICK x : LastOn(q, ht, i, p, x) /\ u[i] = [node |-> Place(q, x), rank |-> x]
  BY DEF Found, Ends
<1>7. x \in 0 .. p /\ x \in 0 .. Len(q) /\ Reaches(q, ht, i, x) /\ i \in Nat /\ height \in Nat /\ p \in Nat
  BY <1>1, <1>6 DEF LastOn, Levels
<1>8. PICK e : NextOn(q, ht, i, x, e) /\ Joined(r, q, i, x, e)
  BY <1>7 DEF Built, Leads
<1>9. x <= p /\ p < e /\ e \in 0 .. Len(q) + 1
  <2>1. p < e
    BY <1>1, <1>6, <1>7, <1>8, LastLeadsOn
  <2>. QED  BY <1>1, <1>7, <1>8, <2>1 DEF NextOn
<1>10. PICK higher \in BOOLEAN : higher <=> height > i
  <2>1. CASE height > i
    BY <2>1
  <2>2. CASE ~(height > i)
    BY <2>2
  <2>. QED  BY <2>1, <2>2
<1>11. ReachesSo(s, gt, q, ht, i, p, higher)
  BY <1>4, <1>10 DEF ReachesSo
<1>12. CASE c = p + 1
  <2>1. higher
    BY <1>11, <1>12 DEF ReachesSo
  <2>2. InsertsNext(s, gt, q, ht, i, p, higher, x, e)
    BY <1>1, <1>3, <1>7, <1>8, <1>11, InsertNext
  <2>3. PICK d : d = Moved(p, e)
    OBVIOUS
  <2>4. NextOn(s, gt, i, c, d) /\ Far(s, c, d) = Far(q, x, e) - (p - x)
    BY <1>9, <1>12, <2>1, <2>2, <2>3 DEF InsertsNext
  <2>5. n \in Nodes /\ ~(i >= height) /\ Place(s, c) = n /\ Place(s, d) = Place(q, e)
    BY <1>3, <1>7, <1>9, <1>10, <1>12, <2>1, <2>3 DEF Nodes
  <2>6. t.next[n][i] = r.next[Place(q, x)][i] /\ t.step[n][i] = r.step[Place(q, x)][i] - (p - x)
    BY <1>5, <1>6, <2>5 DEF InsertSets
  <2>7. i < r.level /\ t.level = r.level
    BY <1>1, <1>7, <2>5 DEF InsertSets
  <2>8. r.next[Place(q, x)][i] = Place(q, e) /\ r.step[Place(q, x)][i] = Far(q, x, e)
    BY <1>8, <2>7 DEF Joined
  <2>9. Joined(t, s, i, c, d)
    BY <2>4, <2>5, <2>6, <2>8 DEF Joined
  <2>. QED  BY <2>4, <2>9
<1>13. CASE c # p + 1
  <2>1. PICK a : a = IF c <= p THEN c ELSE c - 1
    OBVIOUS
  <2>2. a \in 0 .. Len(q) /\ c = Moved(p, a)
    BY <1>1, <1>3, <1>13, <2>1 DEF Moved
  <2>3. Reaches(q, ht, i, a)
    BY <1>11, <2>2 DEF ReachesSo
  <2>4. PICK b : NextOn(q, ht, i, a, b) /\ Joined(r, q, i, a, b)
    BY <2>2, <2>3 DEF Built, Leads
  <2>5. b \in 0 .. Len(q) + 1
    BY <1>1, <2>2, <2>4 DEF NextOn
  <2>6. a = x <=> a <= p /\ p < b
    BY <1>1, <1>6, <2>2, <2>3, <2>4, LastLeadsOn
  <2>7. InsertsNext(s, gt, q, ht, i, p, higher, a, b)
    BY <1>1, <1>3, <1>11, <2>2, <2>4, InsertNext
  <2>8. PICK m : m = Place(q, a)
    OBVIOUS
  <2>9. Place(s, c) = m /\ m \in Nodes /\ m # n
    <3>1. Place(s, c) = m /\ m \in Nodes
      BY <1>1, <1>3, <2>2, <2>8, PlaceIs
    <3>2. m # n
      BY <1>1, <1>2, <2>2, <2>8, SkipListAssumption DEF Place
    <3>. QED  BY <3>1, <3>2
  <2>10. m = u[i].node <=> a = x
    <3>1. a \in 0 .. Len(q) + 1 /\ x \in 0 .. Len(q) + 1
      BY <1>1, <1>7, <2>2
    <3>2. u[i].node = Place(q, x)
      BY <1>6
    <3>. QED  BY <1>1, <2>8, <3>1, <3>2, PlacesDiffer
  <2>11. r.next[m][i] = Place(q, b) /\ (i < r.level => r.step[m][i] = Far(q, a, b)) /\ t.level = r.level
    BY <2>4, <2>8 DEF Joined, InsertSets
  <2>12. CASE a = x /\ higher
    <3>1. NextOn(s, gt, i, a, p + 1) /\ Far(s, a, p + 1) = p + 1 - a
      BY <2>6, <2>7, <2>12 DEF InsertsNext
    <3>2. c = a
      BY <1>9, <2>2, <2>12 DEF Moved
    <3>3. ~(i >= height)
      BY <1>7, <1>10, <2>12
    <3>4. t.next[m][i] = n /\ t.step[m][i] = (p - x) + 1
      BY <1>5, <1>6, <2>9, <2>10, <2>12, <3>3 DEF InsertSets
    <3>5. (p - x) + 1 = p + 1 - a
      BY <1>7, <2>12
    <3>6. Joined(t, s, i, c, p + 1)
      BY <1>3, <2>9, <3>1, <3>2, <3>4, <3>5 DEF Joined
    <3>. QED  BY <3>1, <3>2, <3>6
  <2>13. CASE a # x
    <3>1. ~(a <= p /\ p < b)
      BY <2>6, <2>13
    <3>2. PICK d : d = Moved(p, b)
      OBVIOUS
    <3>3. Far(q, a, b) \in Int
      BY <1>1, <2>2, <2>5 DEF Far
    <3>4. NextOn(s, gt, i, c, d) /\ Far(s, c, d) = Far(q, a, b)
      BY <2>2, <2>7, <3>1, <3>2, <3>3 DEF InsertsNext
    <3>5. t.next[m][i] = r.next[m][i] /\ t.step[m][i] = r.step[m][i]
      BY <2>9, <2>10, <2>13 DEF InsertSets
    <3>6. Joined(t, s, i, c, d)
      BY <1>3, <2>5, <2>9, <2>11, <3>2, <3>4, <3>5 DEF Joined
    <3>. QED  BY <3>4, <3>6
  <2>14. CASE a = x /\ ~higher
    <3>1. a <= p /\ p < b
      BY <2>6, <2>14
    <3>2. PICK d : d = Moved(p, b)
      OBVIOUS
    <3>3. NextOn(s, gt, i, c, d) /\ Far(s, c, d) = Far(q, a, b) + 1
      BY <2>2, <2>7, <2>14, <3>1, <3>2 DEF InsertsNext
    <3>4. i >= height
      BY <1>7, <1>10, <2>14
    <3>5. t.next[m][i] = r.next[m][i] /\ (i < r.level => t.step[m][i] = r.step[m][i] + 1)
      BY <2>9, <2>10, <2>14, <3>4 DEF InsertSets
    <3>6. Joined(t, s, i, c, d)
      BY <1>3, <2>5, <2>9, <2>11, <3>2, <3>3, <3>5 DEF Joined
    <3>. QED  BY <3>3, <3>6
  <2>. QED  BY <2>12, <2>13, <2>14
<1>. QED  BY <1>12, <1>13

LEMMA NoneReaches ==
  ASSUME NEW q, q \in Seq(Node), NEW level, NEW ht, ht \in [Node -> 0 .. level], level \in Nat,
         NEW i, i \in Nat, i >= level
  PROVE  \A a \in 0 .. Len(q) : Reaches(q, ht, i, a) <=> a = 0
<1>. SUFFICES ASSUME NEW a \in 0 .. Len(q) PROVE Reaches(q, ht, i, a) <=> a = 0
  OBVIOUS
<1>1. CASE a = 0
  BY <1>1 DEF Reaches
<1>2. CASE a # 0
  <2>1. a \in 1 .. Len(q)
    BY <1>2
  <2>2. q[a] \in Node
    BY <2>1
  <2>3. ht[q[a]] \in 0 .. level
    BY <2>2
  <2>. QED  BY <1>2, <2>3 DEF Reaches
<1>. QED  BY <1>1, <1>2

(* A level that a list is raised to has its header only.                   *)
LEMMA RaisedBuilt ==
  ASSUME NEW q, NEW ht, Built(sl, q, ht), NEW height, height \in 1 .. MaxLevel,
         NEW r, r = Raised(height)
  PROVE  /\ Built(r, q, ht)
         /\ r.level = (IF height > sl.level THEN height ELSE sl.level)
<1>1. /\ q \in Seq(Node) /\ Injective(q) /\ Len(q) \in Nat /\ sl.level \in 0 .. MaxLevel
      /\ ht \in [Node -> 0 .. sl.level] /\ sl \in Lists /\ MaxLevel \in Nat /\ sl.len = Len(q)
  BY SkipListAssumption DEF Built, Ordered, Lists, HeightsOf
<1>2. /\ DOMAIN sl.step = Nodes /\ sl.step \in [Nodes -> [Levels -> Int]] /\ Header \in Nodes
      /\ DOMAIN sl = {"level", "len", "next", "step", "prev"}
  BY <1>1 DEF Lists, Nodes
<1>3. PICK level : level = (IF height > sl.level THEN height ELSE sl.level)
  OBVIOUS
<1>4. PICK first : first = [i \in Levels |-> IF sl.level <= i /\ i < height THEN sl.len ELSE sl.step[Header][i]]
  OBVIOUS
<1>5. r = [sl EXCEPT !.level = level, !.step[Header] = first]
  BY <1>3, <1>4 DEF Raised
<1>6. /\ r.level = level /\ r.len = sl.len /\ r.next = sl.next /\ r.prev = sl.prev
      /\ r.step = [sl.step EXCEPT ![Header] = first]
  BY <1>1, <1>5 DEF Lists
<1>7. level \in 0 .. MaxLevel /\ level >= sl.level
  BY <1>1, <1>3
<1>8. first \in [Levels -> Int]
  <2>1. \A i \in Levels : sl.step[Header][i] \in Int
    BY <1>2
  <2>. QED  BY <1>1, <1>4, <2>1
<1>9. r.step \in [Nodes -> [Levels -> Int]]
  BY <1>2, <1>6, <1>8
<1>10. r \in Lists
  <2>1. r = [level |-> r.level, len |-> r.len, next |-> r.next, step |-> r.step, prev |-> r.prev]
    BY <1>1, <1>5 DEF Lists
  <2>2. sl.len \in Nat /\ sl.next \in [Nodes -> [Levels -> Node \cup {NULL}]] /\ sl.prev \in [Node -> Node \cup {NULL}]
    BY <1>1 DEF Lists
  <2>3. /\ r.level \in 0 .. MaxLevel /\ r.len \in Nat /\ r.next \in [Nodes -> [Levels -> Node \cup {NULL}]]
        /\ r.prev \in [Node -> Node \cup {NULL}]
    BY <1>6, <1>7, <2>2
  <2>. QED  BY <1>9, <2>1, <2>3 DEF Lists
<1>11. Ordered(r, q)
  BY <1>1, <1>6, <1>10 DEF Ordered
<1>12. HeightsOf(q, ht, r.level)
  <2>1. ht \in [Node -> 0 .. r.level]
    BY <1>1, <1>6, <1>7
  <2>. QED  BY <2>1 DEF Built, HeightsOf
<1>13. LeadsNowhere(r, ht) /\ LeadsBack(r, q)
  BY <1>6 DEF Built, LeadsNowhere, LeadsBack
<1>14. ASSUME NEW i \in Levels, NEW a \in 0 .. Len(q), Reaches(q, ht, i, a)
       PROVE  \E b : NextOn(q, ht, i, a, b) /\ Joined(r, q, i, a, b)
  <2>1. PICK b : NextOn(q, ht, i, a, b) /\ Joined(sl, q, i, a, b)
    BY <1>14 DEF Built, Leads
  <2>2. PICK m : m = Place(q, a)
    OBVIOUS
  <2>3. m \in Nodes
    BY <1>1, <2>2, PlaceIs
  <2>4. sl.next[m][i] = Place(q, b) /\ (i < sl.level => sl.step[m][i] = Far(q, a, b))
    BY <2>1, <2>2 DEF Joined
  <2>5. i \in Nat
    BY <1>1 DEF Levels
  <2>6. CASE i < sl.level
    <3>1. m = Header => r.step[m][i] = sl.step[m][i]
      BY <1>1, <1>2, <1>4, <1>6, <2>5, <2>6
    <3>2. m # Header => r.step[m][i] = sl.step[m][i]
      BY <1>2, <1>6, <2>3
    <3>3. Joined(r, q, i, a, b)
      BY <1>6, <2>2, <2>4, <2>6, <3>1, <3>2 DEF Joined
    <3>. QED  BY <2>1, <3>3
  <2>7. CASE ~(i < sl.level)
    <3>1. PICK l : l = sl.level
      OBVIOUS
    <3>2. ht \in [Node -> 0 .. l] /\ l \in Nat /\ i >= l
      BY <1>1, <2>5, <2>7, <3>1
    <3>3. \A c \in 0 .. Len(q) : Reaches(q, ht, i, c) <=> c = 0
      BY <1>1, <2>5, <3>2, NoneReaches
    <3>4. a = 0
      BY <1>14, <3>3
    <3>5. b = Len(q) + 1
      <4>1. b \in a + 1 .. Len(q) + 1 /\ (b <= Len(q) => Reaches(q, ht, i, b))
        BY <2>1 DEF NextOn
      <4>2. b <= Len(q) => b \in 0 .. Len(q)
        BY <1>1, <4>1
      <4>. QED  BY <1>1, <3>3, <3>4, <4>1, <4>2
    <3>6. Far(q, a, b) = Len(q)
      BY <1>1, <3>4, <3>5 DEF Far
    <3>7. m = Header
      BY <2>2, <3>4 DEF Place
    <3>8. i < r.level => r.step[m][i] = sl.len
      <4>1. ASSUME i < r.level PROVE r.step[m][i] = sl.len
        <5>1. sl.level <= i /\ i < height
          BY <1>1, <1>3, <1>6, <2>5, <2>7, <4>1
        <5>2. first[i] = sl.len
          BY <1>4, <5>1
        <5>. QED  BY <1>2, <1>6, <3>7, <5>2
      <4>. QED  BY <4>1
    <3>9. Joined(r, q, i, a, b)
      BY <1>1, <1>6, <2>2, <2>4, <3>6, <3>8 DEF Joined
    <3>. QED  BY <2>1, <3>9
  <2>. QED  BY <2>6, <2>7
<1>15. Leads(r, q, ht)
  BY <1>14 DEF Leads
<1>. QED  BY <1>3, <1>6, <1>11, <1>12, <1>13, <1>15 DEF Built

(* The levels the search did not go over are left at the header.           *)
LEMMA FoundAbove ==
  ASSUME NEW q, NEW ht, Built(sl, q, ht), NEW p, p \in 0 .. Len(q), NEW path, Guides(path, q, ht, p, sl.level),
         NEW u, u = [i \in Levels |-> IF i < sl.level THEN path[i] ELSE [node |-> Header, rank |-> 0]]
  PROVE  Found(u, q, ht, p)
<1>1. /\ q \in Seq(Node) /\ Len(q) \in Nat /\ sl.level \in Nat /\ ht \in [Node -> 0 .. sl.level]
      /\ MaxLevel \in Nat
  BY SkipListAssumption DEF Built, Ordered, Lists, HeightsOf
<1>. SUFFICES ASSUME NEW i \in Levels PROVE Ends(u[i], q, ht, i, p)
  BY DEF Found
<1>2. i \in Nat
  BY <1>1 DEF Levels
<1>3. CASE i < sl.level
  <2>1. i \in 0 .. sl.level /\ u[i] = path[i]
    BY <1>1, <1>2, <1>3
  <2>. QED  BY <2>1 DEF Guides
<1>4. CASE ~(i < sl.level)
  <2>1. PICK l : l = sl.level
    OBVIOUS
  <2>2. ht \in [Node -> 0 .. l] /\ l \in Nat /\ i >= l
    BY <1>1, <1>2, <1>4, <2>1
  <2>3. \A c \in 0 .. Len(q) : Reaches(q, ht, i, c) <=> c = 0
    BY <1>1, <1>2, <2>2, NoneReaches
  <2>4. 0 \in 0 .. p /\ Reaches(q, ht, i, 0) /\ \A c \in 0 + 1 .. p : c \in 0 .. Len(q) /\ c # 0
    BY <1>1 DEF Reaches
  <2>5. LastOn(q, ht, i, p, 0)
    BY <2>3, <2>4 DEF LastOn
  <2>6. u[i] = [node |-> Place(q, 0), rank |-> 0]
    BY <1>4 DEF Place
  <2>. QED  BY <2>5, <2>6 DEF Ends
<1>. QED  BY <1>3, <1>4

LEMMA InsertBuilds ==
  ASSUME NEW r, NEW q, NEW ht, Built(r, q, ht), NEW p, p \in 0 .. Len(q), NEW n, n \in Node, ht[n] = 0,
         NEW height, height \in 1 .. r.level, NEW u, Found(u, q, ht, p),
         NEW t, InsertSets(t, r, n, height, u), NEW s, s = InsertAt(q, p, n),
         NEW gt, gt = [ht EXCEPT ![n] = height]
  PROVE  Built(t, s, gt)
<1>1. /\ q \in Seq(Node) /\ Injective(q) /\ Len(q) \in Nat /\ r.level \in Nat /\ r.level <= MaxLevel
      /\ ht \in [Node -> 0 .. r.level] /\ r \in Lists /\ MaxLevel \in Nat /\ 0 \in Levels /\ r.len = Len(q)
  BY SkipListAssumption DEF Built, Ordered, Lists, HeightsOf, Levels
<1>2. \A a \in 1 .. Len(q) : q[a] # n
  <2>1. ~\E a \in 1 .. Len(q) : q[a] = n
    BY DEF Built, HeightsOf
  <2>. QED  BY <2>1
<1>3. InsertsAt(s, q, p, n)
  BY <1>1, <1>2, InsertAtIs
<1>4. /\ s \in Seq(Node) /\ Len(s) = Len(q) + 1 /\ Injective(s) /\ Place(s, p + 1) = n
      /\ \A a \in 0 .. Len(q) + 1 : Place(s, Moved(p, a)) = Place(q, a)
  BY <1>3 DEF InsertsAt
<1>5. \A a \in 1 .. Len(s) : Place(s, a) = s[a]
  BY <1>4, PlaceIs
<1>6. \A a \in 1 .. Len(q) : Place(q, a) = q[a] /\ Place(q, a) \in Node
  BY <1>1, PlaceIs
<1>7. \A a \in 1 .. Len(s) : a = p + 1 \/ \E c \in 1 .. Len(q) : a = Moved(p, c)
  <2>. SUFFICES ASSUME NEW a \in 1 .. Len(s), a # p + 1 PROVE \E c \in 1 .. Len(q) : a = Moved(p, c)
    OBVIOUS
  <2>1. CASE a <= p
    BY <1>1, <2>1 DEF Moved
  <2>2. CASE a > p + 1
    <3>1. a - 1 \in 1 .. Len(q) /\ Moved(p, a - 1) = a
      BY <1>1, <1>4, <2>2 DEF Moved
    <3>. QED  BY <3>1
  <2>. QED  BY <1>1, <1>4, <2>1, <2>2
<1>8. Leads(t, s, gt)
  BY <1>3, InsertLeads
<1>9. t \in Lists /\ t.level = r.level /\ t.len = r.len + 1
  BY DEF InsertSets
<1>10. Ordered(t, s)
  BY <1>1, <1>4, <1>9 DEF Ordered
<1>11. HeightsOf(s, gt, t.level)
  <2>1. gt \in [Node -> 0 .. t.level]
    BY <1>1, <1>9
  <2>2. ASSUME NEW m \in Node PROVE gt[m] # 0 <=> \E a \in 1 .. Len(s) : s[a] = m
    <3>1. CASE m = n
      <4>1. gt[m] # 0
        BY <1>1, <3>1
      <4>2. p + 1 \in 1 .. Len(s) /\ s[p + 1] = m
        BY <1>1, <1>4, <1>5, <3>1
      <4>. QED  BY <4>1, <4>2
    <3>2. CASE m # n
      <4>1. gt[m] = ht[m]
        BY <1>1, <3>2
      <4>2. gt[m] # 0 <=> \E a \in 1 .. Len(q) : q[a] = m
        BY <4>1 DEF Built, HeightsOf
      <4>3. ASSUME NEW a \in 1 .. Len(q), q[a] = m PROVE \E c \in 1 .. Len(s) : s[c] = m
        <5>1. Moved(p, a) \in 1 .. Len(s) /\ a \in 0 .. Len(q) + 1
          <6>1. a \in Nat /\ 1 <= a /\ a <= Len(q) /\ Len(q) \in Nat /\ Len(s) = Len(q) + 1
            BY <1>1, <1>4
          <6>2. Moved(p, a) = a \/ Moved(p, a) = a + 1
            BY DEF Moved
          <6>. QED  BY <6>1, <6>2
        <5>. QED  BY <1>4, <1>5, <1>6, <4>3, <5>1
      <4>4. ASSUME NEW a \in 1 .. Len(s), s[a] = m PROVE \E c \in 1 .. Len(q) : q[c] = m
        <5>1. a # p + 1
          BY <1>4, <1>5, <3>2, <4>4
        <5>2. PICK c \in 1 .. Len(q) : a = Moved(p, c)
          BY <1>7, <5>1
        <5>3. c \in 0 .. Len(q) + 1
          OBVIOUS
        <5>. QED  BY <1>4, <1>5, <1>6, <4>4, <5>2, <5>3
      <4>. QED  BY <4>2, <4>3, <4>4
    <3>. QED  BY <3>1, <3>2
  <2>. QED  BY <2>1, <2>2 DEF HeightsOf
<1>12. LeadsNowhere(t, gt)
  <2>. SUFFICES ASSUME NEW m \in Node, NEW i \in Levels, gt[m] <= i PROVE t.next[m][i] = NULL
    BY DEF LeadsNowhere
  <2>0. m \in Nodes /\ i \in Nat /\ height \in Nat
    BY <1>1 DEF Nodes, Levels
  <2>1. t.next[m][i] = IF i >= height THEN r.next[m][i]
                       ELSE IF m = n THEN r.next[u[i].node][i]
                       ELSE IF m = u[i].node THEN n ELSE r.next[m][i]
    <3>1. \A l \in Nodes, j \in Levels :
            t.next[l][j] = IF j >= height THEN r.next[l][j]
                           ELSE IF l = n THEN r.next[u[j].node][j]
                           ELSE IF l = u[j].node THEN n ELSE r.next[l][j]
      BY DEF InsertSets
    <3>. QED  BY <2>0, <3>1
  <2>2. ht[m] <= i
    BY <1>1, <2>0
  <2>3. r.next[m][i] = NULL
    BY <2>2 DEF Built, LeadsNowhere
  <2>4. ASSUME m = n PROVE i >= height
    BY <1>1, <2>0, <2>4
  <2>5. m # u[i].node
    <3>1. PICK x : LastOn(q, ht, i, p, x) /\ u[i] = [node |-> Place(q, x), rank |-> x]
      BY DEF Found, Ends
    <3>2. x \in 0 .. Len(q) /\ Reaches(q, ht, i, x) /\ u[i].node = Place(q, x)
      BY <1>1, <3>1 DEF LastOn
    <3>3. CASE x = 0
      BY <3>2, <3>3, SkipListAssumption DEF Place
    <3>4. CASE x # 0
      <4>1. x \in 1 .. Len(q)
        BY <3>2, <3>4
      <4>2. Place(q, x) = q[x] /\ q[x] \in Node /\ ht[q[x]] > i
        BY <1>6, <3>2, <3>4, <4>1 DEF Reaches
      <4>3. ht[q[x]] \in Nat /\ ht[m] \in Nat
        BY <1>1, <4>2
      <4>. QED  BY <2>0, <2>2, <3>2, <4>2, <4>3
    <3>. QED  BY <3>3, <3>4
  <2>. QED  BY <2>1, <2>3, <2>4, <2>5
<1>13. LeadsBack(t, s)
  <2>. SUFFICES ASSUME NEW a \in 1 .. Len(s) PROVE t.prev[s[a]] = IF a = 1 THEN NULL ELSE s[a - 1]
    BY DEF LeadsBack
  <2>1. \A m \in Node :
          t.prev[m] = IF m = n THEN IF u[0].node = Header THEN NULL ELSE u[0].node
                      ELSE IF m = r.next[u[0].node][0] THEN n ELSE r.prev[m]
    BY DEF InsertSets
  <2>2. u[0].node = Place(q, p)
    <3>1. PICK x : LastOn(q, ht, 0, p, x) /\ u[0] = [node |-> Place(q, x), rank |-> x]
      BY <1>1 DEF Found, Ends
    <3>2. LastOn(q, ht, 0, p, p) /\ p \in Nat
      BY <1>1, LowestIs
    <3>3. x = p
      BY <3>1, <3>2, LastUnique
    <3>. QED  BY <3>1, <3>3
  <2>3. r.next[u[0].node][0] = Place(q, p + 1)
    BY <2>2, LowestIs
  <2>4. CASE a = p + 1
    <3>1. s[a] = n
      BY <1>4, <1>5, <2>4
    <3>2. t.prev[s[a]] = IF Place(q, p) = Header THEN NULL ELSE Place(q, p)
      BY <2>1, <2>2, <3>1
    <3>3. CASE p = 0
      BY <2>4, <3>2, <3>3 DEF Place
    <3>4. CASE p # 0
      <4>1. p \in 1 .. Len(q) /\ p \in 1 .. Len(s) /\ p \in 0 .. Len(q) + 1 /\ Moved(p, p) = p /\ a # 1 /\ a - 1 = p
        BY <1>1, <1>4, <2>4, <3>4 DEF Moved
      <4>2. Place(q, p) # Header /\ s[p] = Place(q, p)
        BY <1>4, <1>5, <1>6, <4>1, SkipListAssumption
      <4>. QED  BY <3>2, <4>1, <4>2
    <3>. QED  BY <3>3, <3>4
  <2>5. CASE a # p + 1
    <3>1. PICK c \in 1 .. Len(q) : a = Moved(p, c)
      BY <1>7, <2>5
    <3>2. c \in 0 .. Len(q) + 1 /\ c - 1 \in 0 .. Len(q) + 1
      BY <1>1
    <3>3. s[a] = q[c] /\ q[c] \in Node /\ q[c] # n /\ q[c] = Place(q, c)
      BY <1>2, <1>4, <1>5, <1>6, <3>1, <3>2
    <3>4. CASE c = p + 1
      <4>1. a = p + 2 /\ a # 1 /\ a - 1 = p + 1 /\ p + 1 \in 1 .. Len(s)
        BY <1>1, <1>4, <3>1, <3>4 DEF Moved
      <4>2. t.prev[s[a]] = n
        BY <2>1, <2>3, <3>3, <3>4
      <4>. QED  BY <1>4, <1>5, <4>1, <4>2
    <3>5. CASE c # p + 1
      <4>1. q[c] # Place(q, p + 1)
        <5>1. p + 1 \in 0 .. Len(q) + 1
          BY <1>1
        <5>. QED  BY <1>1, <3>2, <3>3, <3>5, <5>1, PlacesDiffer
      <4>2. t.prev[s[a]] = r.prev[q[c]]
        BY <2>1, <2>3, <3>3, <4>1
      <4>3. r.prev[q[c]] = IF c = 1 THEN NULL ELSE q[c - 1]
        BY DEF Built, LeadsBack
      <4>4. CASE c = 1
        <5>1. a = 1
          BY <1>1, <3>1, <3>5, <4>4 DEF Moved
        <5>. QED  BY <4>2, <4>3, <4>4, <5>1
      <4>5. CASE c # 1
        <5>1. a # 1 /\ a - 1 = Moved(p, c - 1) /\ a - 1 \in 1 .. Len(s) /\ c - 1 \in 1 .. Len(q)
          <6>1. p \in Nat /\ c \in Nat /\ c - 1 \in 1 .. Len(q) /\ Len(q) \in Nat /\ Len(s) = Len(q) + 1
            BY <1>1, <1>4, <4>5
          <6>2. CASE c <= p
            <7>1. a = c /\ Moved(p, c - 1) = c - 1
              BY <3>1, <6>1, <6>2 DEF Moved
            <7>. QED  BY <4>5, <6>1, <7>1
          <6>3. CASE c > p + 1
            <7>1. a = c + 1 /\ Moved(p, c - 1) = (c - 1) + 1
              BY <3>1, <6>1, <6>3 DEF Moved
            <7>. QED  BY <6>1, <7>1
          <6>. QED  BY <3>5, <6>1, <6>2, <6>3
        <5>2. s[a - 1] = q[c - 1]
          BY <1>4, <1>5, <1>6, <3>2, <5>1
        <5>. QED  BY <4>2, <4>3, <4>5, <5>1, <5>2
      <4>. QED  BY <4>4, <4>5
    <3>. QED  BY <3>4, <3>5
  <2>. QED  BY <2>4, <2>5
<1>. QED  BY <1>8, <1>10, <1>11, <1>12, <1>13 DEF Built

(* Where a search that passes the first p places puts a new node.          *)
LEMMA InsertDoes ==
  ASSUME NEW q, NEW ht, Built(sl, q, ht), NEW score, NEW value, NEW height, height \in 1 .. MaxLevel,
         NEW n, n \in Node, ht[n] = 0, NEW p, Splits(q, LessElem(score, value), p),
         dmbSkipListInsert(score, value, height, n)
  PROVE  Built(sl', InsertAt(q, p, n), [ht EXCEPT ![n] = height])
<1>. DEFINE Update(path, i) == IF i < sl.level THEN path[i] ELSE [node |-> Header, rank |-> 0]
            F(path, r) ==
         [r EXCEPT
           !.next = [m \in Node \cup {Header} |-> [i \in Levels |->
             IF i >= height THEN @[m][i]
             ELSE IF m = n THEN r.next[Update(path, i).node][i]
             ELSE IF m = Update(path, i).node THEN n ELSE @[m][i]]],
           !.step = [m \in Node \cup {Header} |-> [i \in Levels |->
             IF i >= height
             THEN IF i < r.level /\ m = Update(path, i).node THEN @[m][i] + 1 ELSE @[m][i]
             ELSE IF m = n THEN r.step[Update(path, i).node][i] - (Update(path, 0).rank - Update(path, i).rank)
             ELSE IF m = Update(path, i).node
             THEN (Update(path, 0).rank - Update(path, i).rank) + 1 ELSE @[m][i]]],
           !.prev = [m \in Node |->
             IF m = n THEN IF Update(path, 0).node = Header THEN NULL ELSE Update(path, 0).node
             ELSE IF m = r.next[Update(path, 0).node][0] THEN n ELSE @[m]],
           !.len = @ + 1]
<1>0. sl' = F(Search(LessElem(score, value)), Raised(height))
  BY Zenon DEF dmbSkipListInsert
<1>1. PICK path, r, t : path = Search(LessElem(score, value)) /\ r = Raised(height) /\ t = sl' /\ t = F(path, r)
  <2>. HIDE DEF F
  <2>. QED  BY <1>0, Zenon
<1>2. Guides(path, q, ht, p, sl.level)
  BY <1>1, SearchEnds
<1>3. PICK u : u = [i \in Levels |-> IF i < sl.level THEN path[i] ELSE [node |-> Header, rank |-> 0]]
  OBVIOUS
<1>4. p \in 0 .. Len(q)
  BY DEF Splits
<1>5. Found(u, q, ht, p)
  BY <1>2, <1>3, <1>4, FoundAbove
<1>7. Built(r, q, ht) /\ r.level = (IF height > sl.level THEN height ELSE sl.level)
  BY <1>1, RaisedBuilt
<1>8. sl.level \in Nat /\ MaxLevel \in Nat /\ r \in Lists /\ 0 \in Levels /\ q \in Seq(Node) /\ Len(q) \in Nat
  BY <1>7, SkipListAssumption DEF Built, Ordered, Lists, Levels
<1>9. height \in 1 .. r.level
  BY <1>7, <1>8
<1>10. ASSUME NEW i \in Levels PROVE u[i].node \in Nodes /\ u[i].rank \in Int
  <2>1. PICK x : LastOn(q, ht, i, p, x) /\ u[i] = [node |-> Place(q, x), rank |-> x]
    BY <1>5 DEF Found, Ends
  <2>2. x \in 0 .. Len(q) /\ x \in Int
    BY <1>4, <1>8, <2>1 DEF LastOn
  <2>. QED  BY <1>8, <2>1, <2>2, PlaceIs
<1>. DEFINE next == [m \in Nodes |-> [i \in Levels |->
               IF i >= height THEN r.next[m][i]
               ELSE IF m = n THEN r.next[Update(path, i).node][i]
               ELSE IF m = Update(path, i).node THEN n ELSE r.next[m][i]]]
            step == [m \in Nodes |-> [i \in Levels |->
               IF i >= height
               THEN IF i < r.level /\ m = Update(path, i).node THEN r.step[m][i] + 1 ELSE r.step[m][i]
               ELSE IF m = n THEN r.step[Update(path, i).node][i] - (Update(path, 0).rank - Update(path, i).rank)
               ELSE IF m = Update(path, i).node THEN (Update(path, 0).rank - Update(path, i).rank) + 1 ELSE r.step[m][i]]]
            prev == [m \in Node |->
               IF m = n THEN IF Update(path, 0).node = Header THEN NULL ELSE Update(path, 0).node
               ELSE IF m = r.next[Update(path, 0).node][0] THEN n ELSE r.prev[m]]
<1>11. \A i \in Levels : Update(path, i) = u[i]
  BY <1>3
<1>13. t = [r EXCEPT !.next = next, !.step = step, !.prev = prev, !.len = @ + 1]
  BY <1>1, Zenon DEF Nodes
<1>. HIDE DEF Update, F, next, step, prev
<1>14. t.level = r.level /\ t.len = r.len + 1 /\ t.next = next /\ t.step = step /\ t.prev = prev
  BY <1>8, <1>13 DEF Lists
<1>15. \A m \in Nodes, i \in Levels :
         next[m][i] = IF i >= height THEN r.next[m][i]
                      ELSE IF m = n THEN r.next[u[i].node][i]
                      ELSE IF m = u[i].node THEN n ELSE r.next[m][i]
  BY <1>11 DEF next
<1>16. \A m \in Nodes, i \in Levels :
         step[m][i] = IF i >= height
                      THEN IF i < r.level /\ m = u[i].node THEN r.step[m][i] + 1 ELSE r.step[m][i]
                      ELSE IF m = n THEN r.step[u[i].node][i] - (u[0].rank - u[i].rank)
                      ELSE IF m = u[i].node THEN (u[0].rank - u[i].rank) + 1 ELSE r.step[m][i]
  BY <1>8, <1>11 DEF step
<1>17. \A m \in Node :
         prev[m] = IF m = n THEN IF u[0].node = Header THEN NULL ELSE u[0].node
                   ELSE IF m = r.next[u[0].node][0] THEN n ELSE r.prev[m]
  BY <1>8, <1>11 DEF prev
<1>18. \A m \in Nodes, i \in Levels : r.next[m][i] \in Node \cup {NULL} /\ r.step[m][i] \in Int
  BY <1>8 DEF Lists
<1>19. next \in [Nodes -> [Levels -> Node \cup {NULL}]]
  <2>1. \A m \in Nodes, i \in Levels : next[m][i] \in Node \cup {NULL}
    BY <1>10, <1>15, <1>18
  <2>2. next = [m \in Nodes |-> [i \in Levels |-> next[m][i]]]
    BY DEF next
  <2>. QED  BY <2>1, <2>2
<1>20. step \in [Nodes -> [Levels -> Int]]
  <2>1. \A m \in Nodes, i \in Levels : step[m][i] \in Int
    <3>. SUFFICES ASSUME NEW m \in Nodes, NEW i \in Levels PROVE step[m][i] \in Int
      OBVIOUS
    <3>1. u[i].rank \in Int /\ u[0].rank \in Int /\ u[i].node \in Nodes
      BY <1>8, <1>10
    <3>2. r.step[m][i] \in Int /\ r.step[u[i].node][i] \in Int
      BY <1>18, <3>1
    <3>. QED  BY <1>16, <3>1, <3>2
  <2>2. step = [m \in Nodes |-> [i \in Levels |-> step[m][i]]]
    BY DEF step
  <2>. QED  BY <2>1, <2>2
<1>21. prev \in [Node -> Node \cup {NULL}]
  <2>1. \A m \in Node : r.prev[m] \in Node \cup {NULL}
    BY <1>8 DEF Lists
  <2>2. \A m \in Node : prev[m] \in Node \cup {NULL}
    BY <1>8, <1>10, <1>17, <2>1 DEF Nodes
  <2>3. prev = [m \in Node |-> prev[m]]
    BY DEF prev
  <2>. QED  BY <2>2, <2>3
<1>22. t \in Lists
  <2>1. r.len + 1 \in Nat /\ r.level \in 0 .. MaxLevel
    BY <1>8 DEF Lists
  <2>2. t = [level |-> t.level, len |-> t.len, next |-> t.next, step |-> t.step, prev |-> t.prev]
    BY <1>8, <1>13 DEF Lists
  <2>. QED  BY <1>14, <1>19, <1>20, <1>21, <2>1, <2>2 DEF Lists
<1>23. InsertSets(t, r, n, height, u)
  BY <1>14, <1>15, <1>16, <1>17, <1>22 DEF InsertSets
<1>24. PICK s, gt : s = InsertAt(q, p, n) /\ gt = [ht EXCEPT ![n] = height]
  OBVIOUS
<1>25. Built(t, s, gt)
  BY <1>4, <1>5, <1>7, <1>9, <1>23, <1>24, InsertBuilds
<1>. QED  BY <1>1, <1>24, <1>25

-----------------------------------------------------------------------------
(* Removal.                                                                *)

LEMMA NextExists ==
  ASSUME NEW q, q \in Seq(Node), NEW ht, NEW i, NEW a, a \in 0 .. Len(q)
  PROVE  \E b : NextOn(q, ht, i, a, b)
<1>1. Len(q) \in Nat
  OBVIOUS
<1>. DEFINE T == {b \in a + 1 .. Len(q) + 1 : b <= Len(q) => Reaches(q, ht, i, b)}
<1>2. Len(q) + 1 \in T
  BY <1>1
<1>3. PICK b \in T : \A m \in T : b <= m
  <2>1. T \in SUBSET Nat
    OBVIOUS
  <2>. HIDE DEF T
  <2>. QED  BY <1>2, <2>1, Least
<1>4. ASSUME NEW c \in a + 1 .. b - 1, Reaches(q, ht, i, c) PROVE FALSE
  <2>1. c \in T /\ c < b
    BY <1>1, <1>3, <1>4
  <2>. QED  BY <1>1, <1>3, <2>1
<1>. QED  BY <1>3, <1>4 DEF NextOn

(* The sequence without what is behind place p.                            *)
RemoveAt(q, p) == [a \in 1 .. Len(q) - 1 |-> IF a <= p THEN q[a] ELSE q[a + 1]]

RemovesAt(s, q, p, n) ==
  /\ s \in Seq(Node) /\ Len(q) = Len(s) + 1 /\ Injective(s) /\ p \in 0 .. Len(s)
  /\ InsertsAt(q, s, p, n) /\ n \in Node
  /\ \A a \in 1 .. Len(s) : s[a] # n

LEMMA RemoveAtIs ==
  ASSUME NEW q, q \in Seq(Node), Injective(q), NEW p, p \in 0 .. Len(q) - 1, NEW s, s = RemoveAt(q, p),
         NEW n, Place(q, p + 1) = n
  PROVE  RemovesAt(s, q, p, n)
<1>1. PICK l : l = Len(q) - 1
  OBVIOUS
<1>2. l \in Nat /\ Len(q) = l + 1 /\ p \in 0 .. l /\ p + 1 \in 1 .. l + 1 /\ q[p + 1] \in Node
  BY <1>1
<1>3. s = [a \in 1 .. l |-> IF a <= p THEN q[a] ELSE q[a + 1]]
  BY <1>1 DEF RemoveAt
<1>4. \A a \in 1 .. l : s[a] = q[Moved(p, a)] /\ Moved(p, a) \in 1 .. l + 1 /\ Moved(p, a) # p + 1 /\ s[a] \in Node
  <2>. SUFFICES ASSUME NEW a \in 1 .. l
                PROVE  s[a] = q[Moved(p, a)] /\ Moved(p, a) \in 1 .. l + 1 /\ Moved(p, a) # p + 1 /\ s[a] \in Node
    OBVIOUS
  <2>1. Moved(p, a) \in 1 .. l + 1 /\ Moved(p, a) # p + 1
    BY <1>2 DEF Moved
  <2>2. s[a] = q[Moved(p, a)]
    BY <1>3 DEF Moved
  <2>3. q[Moved(p, a)] \in Node
    BY <1>2, <2>1
  <2>. QED  BY <2>1, <2>2, <2>3
<1>5. s \in Seq(Node) /\ Len(s) = l
  <2>1. s \in [1 .. l -> Node]
    BY <1>3, <1>4
  <2>. QED  BY <1>2, <2>1
<1>6. Injective(s)
  <2>. SUFFICES ASSUME NEW a \in 1 .. l, NEW b \in 1 .. l, s[a] = s[b] PROVE a = b
    BY <1>5 DEF Injective
  <2>1. Moved(p, a) = Moved(p, b)
    BY <1>2, <1>4 DEF Injective
  <2>. QED  BY <1>2, <2>1 DEF Moved
<1>7. \A a \in 1 .. l : s[a] # q[p + 1]
  BY <1>2, <1>4 DEF Injective
<1>8. \A a \in 0 .. l + 1 : Place(q, Moved(p, a)) = Place(s, a)
  <2>. SUFFICES ASSUME NEW a \in 0 .. l + 1 PROVE Place(q, Moved(p, a)) = Place(s, a)
    OBVIOUS
  <2>1. CASE a = 0
    <3>1. Moved(p, a) = 0
      BY <1>2, <2>1 DEF Moved
    <3>. QED  BY <2>1, <3>1 DEF Place
  <2>2. CASE a \in 1 .. l
    <3>1. Moved(p, a) \in 1 .. Len(q) /\ Moved(p, a) # 0 /\ a # 0
      BY <1>2, <1>4, <2>2
    <3>. QED  BY <1>4, <1>5, <2>2, <3>1 DEF Place
  <2>3. CASE a = l + 1
    <3>1. Moved(p, a) = l + 2
      BY <1>2, <2>3 DEF Moved
    <3>2. l + 2 # 0 /\ l + 2 \notin 1 .. l + 1 /\ l + 1 # 0 /\ l + 1 \notin 1 .. l
      BY <1>2
    <3>. QED  BY <1>2, <1>5, <2>3, <3>1, <3>2 DEF Place
  <2>. QED  BY <1>2, <2>1, <2>2, <2>3
<1>9. Place(q, p + 1) = q[p + 1]
  <2>1. p + 1 # 0 /\ p + 1 \in 1 .. Len(q)
    BY <1>2
  <2>. QED  BY <2>1 DEF Place
<1>10. n = q[p + 1]
  BY <1>9
<1>. QED  BY <1>2, <1>5, <1>6, <1>7, <1>8, <1>10 DEF InsertsAt, RemovesAt

(* What removeNode and dmbFree make of the list r, with what the search    *)
(* found: the last places before n.                                        *)
RemoveSets(t, r, n, path) ==
  /\ t \in Lists /\ t.level <= r.level /\ t.len = r.len - 1
  /\ \A i \in 0 .. r.level - 1 : t.next[Header][i] # NULL => i < t.level
  /\ \A m \in Nodes \ {n}, i \in Levels :
       t.next[m][i] = IF i < r.level /\ m = path[i].node /\ r.next[m][i] = n
                      THEN r.next[n][i] ELSE r.next[m][i]
  /\ \A m \in Nodes \ {n}, i \in Levels :
       t.step[m][i] = IF i < r.level /\ m = path[i].node
                      THEN IF r.next[m][i] = n THEN r.step[m][i] + r.step[n][i] - 1 ELSE r.step[m][i] - 1
                      ELSE r.step[m][i]
  /\ \A m \in Node \ {n} : t.prev[m] = IF m = r.next[n][0] THEN r.prev[n] ELSE r.prev[m]
  /\ \A i \in Levels : t.next[n][i] = NULL

LEMMA RemoveLeads ==
  ASSUME NEW r, NEW q, NEW ht, Built(r, q, ht), NEW p, p \in 0 .. Len(q) - 1, NEW n, Place(q, p + 1) = n,
         NEW path, Guides(path, q, ht, p, r.level), NEW t, RemoveSets(t, r, n, path),
         NEW s, s = RemoveAt(q, p), NEW gt, gt = [ht EXCEPT ![n] = 0]
  PROVE  Leads(t, s, gt)
<1>1. /\ q \in Seq(Node) /\ Injective(q) /\ Len(q) \in Nat /\ r.level \in Nat /\ r.level <= MaxLevel
      /\ ht \in [Node -> 0 .. r.level] /\ r \in Lists /\ MaxLevel \in Nat /\ 0 \in Levels
  BY SkipListAssumption DEF Built, Ordered, Lists, HeightsOf, Levels
<1>2. /\ s \in Seq(Node) /\ Len(q) = Len(s) + 1 /\ Injective(s) /\ p \in 0 .. Len(s)
      /\ InsertsAt(q, s, p, n) /\ n \in Node /\ \A a \in 1 .. Len(s) : s[a] # n
  <2>1. RemovesAt(s, q, p, n)
    BY <1>1, RemoveAtIs
  <2>. QED  BY <2>1 DEF RemovesAt
<1>3. Place(q, p + 1) = n /\ \A a \in 0 .. Len(s) + 1 : Place(q, Moved(p, a)) = Place(s, a)
  BY <1>2 DEF InsertsAt
<1>4. n \in Node /\ Len(s) \in Nat
  BY <1>1, <1>2
<1>5. ASSUME NEW i \in Levels PROVE ReachesSo(q, ht, s, gt, i, p, ht[n] > i)
  <2>1. Reaches(q, ht, i, p + 1) <=> ht[n] > i
    <3>1. p + 1 # 0 /\ p + 1 \in 1 .. Len(q)
      BY <1>1
    <3>2. q[p + 1] = n
      BY <1>3, <3>1 DEF Place
    <3>. QED  BY <3>1, <3>2 DEF Reaches
  <2>2. ASSUME NEW a \in 0 .. Len(s) PROVE Reaches(q, ht, i, Moved(p, a)) <=> Reaches(s, gt, i, a)
    <3>1. CASE a = 0
      <4>1. Moved(p, a) = 0
        BY <1>2, <3>1 DEF Moved
      <4>. QED  BY <3>1, <4>1 DEF Reaches
    <3>2. CASE a # 0
      <4>1. a \in 1 .. Len(s) /\ Moved(p, a) \in 1 .. Len(q) /\ Moved(p, a) # 0 /\ a \in 0 .. Len(s) + 1
        BY <1>2, <1>4, <3>2 DEF Moved
      <4>2. q[Moved(p, a)] = s[a]
        BY <1>3, <3>2, <4>1 DEF Place
      <4>3. s[a] \in Node /\ s[a] # n
        BY <1>2, <4>1
      <4>4. gt[s[a]] = ht[s[a]]
        BY <1>1, <4>3
      <4>. QED  BY <3>2, <4>1, <4>2, <4>4 DEF Reaches
    <3>. QED  BY <3>1, <3>2
  <2>. QED  BY <2>1, <2>2 DEF ReachesSo
<1>. SUFFICES ASSUME NEW i \in Levels, NEW a \in 0 .. Len(s), Reaches(s, gt, i, a)
              PROVE  \E b : NextOn(s, gt, i, a, b) /\ Joined(t, s, i, a, b)
  BY DEF Leads
<1>6. PICK higher \in BOOLEAN : higher <=> ht[n] > i
  <2>1. CASE ht[n] > i
    BY <2>1
  <2>2. CASE ~(ht[n] > i)
    BY <2>2
  <2>. QED  BY <2>1, <2>2
<1>7. ReachesSo(q, ht, s, gt, i, p, higher)
  BY <1>5, <1>6 DEF ReachesSo
<1>8. PICK b : NextOn(s, gt, i, a, b)
  BY <1>2, NextExists
<1>9. InsertsNext(q, ht, s, gt, i, p, higher, a, b)
  BY <1>1, <1>2, <1>7, <1>8, InsertNext
<1>10. /\ b \in 0 .. Len(s) + 1 /\ a \in Nat /\ b \in Nat /\ p \in Nat /\ i \in Nat /\ a < b
       /\ Moved(p, a) \in 0 .. Len(q) /\ Moved(p, a) \in Nat
  BY <1>1, <1>2, <1>4, <1>8 DEF NextOn, Moved, Levels
<1>11. PICK m : m = Place(s, a)
  OBVIOUS
<1>12. m = Place(q, Moved(p, a)) /\ m \in Nodes /\ m # n /\ n \in Nodes /\ m \in Nodes \ {n}
  <2>1. m = Place(q, Moved(p, a)) /\ m \in Nodes /\ n \in Nodes
    BY <1>2, <1>3, <1>4, <1>11, PlaceIs DEF Nodes
  <2>2. m # n
    BY <1>2, <1>4, <1>11, SkipListAssumption DEF Place
  <2>. QED  BY <2>1, <2>2
<1>13. /\ t.next[m][i] = IF i < r.level /\ m = path[i].node /\ r.next[m][i] = n
                         THEN r.next[n][i] ELSE r.next[m][i]
       /\ t.step[m][i] = IF i < r.level /\ m = path[i].node
                         THEN IF r.next[m][i] = n THEN r.step[m][i] + r.step[n][i] - 1 ELSE r.step[m][i] - 1
                         ELSE r.step[m][i]
       /\ t.level <= r.level /\ t.level \in Nat
  <2>1. \A l \in Nodes \ {n}, j \in Levels :
          t.next[l][j] = IF j < r.level /\ l = path[j].node /\ r.next[l][j] = n
                         THEN r.next[n][j] ELSE r.next[l][j]
    BY DEF RemoveSets
  <2>2. \A l \in Nodes \ {n}, j \in Levels :
          t.step[l][j] = IF j < r.level /\ l = path[j].node
                         THEN IF r.next[l][j] = n THEN r.step[l][j] + r.step[n][j] - 1 ELSE r.step[l][j] - 1
                         ELSE r.step[l][j]
    BY DEF RemoveSets
  <2>3. t.level <= r.level /\ t.level \in Nat
    BY DEF RemoveSets, Lists
  <2>. QED  BY <1>12, <2>1, <2>2, <2>3
<1>14. Reaches(q, ht, i, Moved(p, a))
  BY <1>7 DEF ReachesSo
<1>15. PICK e : NextOn(q, ht, i, Moved(p, a), e) /\ Joined(r, q, i, Moved(p, a), e)
  BY <1>10, <1>14 DEF Built, Leads
<1>16. r.next[m][i] = Place(q, e) /\ (i < r.level => r.step[m][i] = Far(q, Moved(p, a), e))
  BY <1>12, <1>15 DEF Joined
<1>17. i < r.level => (m = path[i].node <=> a <= p /\ p < b)
  <2>1. ASSUME i < r.level PROVE m = path[i].node <=> a <= p /\ p < b
    <3>1. PICK x : LastOn(q, ht, i, p, x) /\ path[i] = [node |-> Place(q, x), rank |-> x]
      <4>1. i \in 0 .. r.level
        BY <1>1, <1>10, <2>1
      <4>. QED  BY <4>1 DEF Guides, Ends
    <3>2. x \in 0 .. p /\ Reaches(q, ht, i, x) /\ \A c \in x + 1 .. p : ~Reaches(q, ht, i, c)
      BY <3>1 DEF LastOn
    <3>3. LastOn(s, gt, i, p, x)
      <4>1. \A c \in 0 .. p : c \in 0 .. Len(s) /\ Moved(p, c) = c
        BY <1>2, <1>4 DEF Moved
      <4>2. \A c \in 0 .. p : Reaches(q, ht, i, c) <=> Reaches(s, gt, i, c)
        BY <1>7, <4>1 DEF ReachesSo
      <4>3. \A c \in x + 1 .. p : c \in 0 .. p
        BY <1>10, <3>2
      <4>. QED  BY <3>2, <4>2, <4>3 DEF LastOn
    <3>4. a = x <=> a <= p /\ p < b
      BY <1>2, <1>8, <3>3, LastLeadsOn
    <3>5. x \in 0 .. Len(s) + 1 /\ a \in 0 .. Len(s) + 1 /\ Moved(p, x) = x
      BY <1>2, <1>4, <3>2 DEF Moved
    <3>6. path[i].node = Place(s, x)
      BY <1>3, <3>1, <3>5
    <3>7. m = path[i].node <=> a = x
      BY <1>2, <1>11, <3>5, <3>6, PlacesDiffer
    <3>. QED  BY <3>4, <3>7
  <2>. QED  BY <2>1
<1>18. CASE a <= p /\ p < b /\ higher
  <2>1. /\ NextOn(q, ht, i, a, p + 1) /\ Far(q, a, p + 1) = p + 1 - a
        /\ NextOn(q, ht, i, p + 1, Moved(p, b)) /\ Far(q, p + 1, Moved(p, b)) = Far(s, a, b) - (p - a)
    BY <1>9, <1>18 DEF InsertsNext
  <2>2. Moved(p, a) = a
    BY <1>18 DEF Moved
  <2>3. e = p + 1
    <3>1. NextOn(q, ht, i, a, e)
      BY <1>15, <2>2
    <3>. QED  BY <1>1, <1>10, <2>1, <3>1, NextUnique
  <2>4. r.next[m][i] = n /\ (i < r.level => r.step[m][i] = p + 1 - a)
    BY <1>3, <1>16, <2>1, <2>2, <2>3
  <2>5. p + 1 \in 0 .. Len(q) /\ p + 1 \in Nat /\ Reaches(q, ht, i, p + 1)
    BY <1>1, <1>2, <1>7, <1>10, <1>18 DEF ReachesSo
  <2>6. PICK f : NextOn(q, ht, i, p + 1, f) /\ Joined(r, q, i, p + 1, f)
    BY <2>5 DEF Built, Leads
  <2>7. f = Moved(p, b)
    BY <1>1, <2>1, <2>5, <2>6, NextUnique
  <2>8. r.next[n][i] = Place(s, b) /\ (i < r.level => r.step[n][i] = Far(s, a, b) - (p - a))
    BY <1>3, <1>10, <2>1, <2>6, <2>7 DEF Joined
  <2>9. i < r.level /\ m = path[i].node
    <3>1. ht[n] \in 0 .. r.level /\ ht[n] > i
      BY <1>1, <1>4, <1>6, <1>18
    <3>2. i < r.level
      <4>1. PICK h, l : h = ht[n] /\ l = r.level /\ l \in Nat /\ h \in 0 .. l /\ h > i
        BY <1>1, <3>1
      <4>2. i \in Nat
        BY <1>10
      <4>3. i < l
        BY <4>1, <4>2
      <4>. QED  BY <4>1, <4>3
    <3>. QED  BY <1>17, <1>18, <3>2
  <2>10. Far(s, a, b) \in Int
    BY <1>4, <1>10 DEF Far
  <2>11. t.next[m][i] = Place(s, b) /\ t.step[m][i] = Far(s, a, b)
    <3>1. t.step[m][i] = (p + 1 - a) + (Far(s, a, b) - (p - a)) - 1
      BY <1>13, <2>4, <2>8, <2>9
    <3>. QED  BY <1>10, <1>13, <2>4, <2>8, <2>9, <2>10, <3>1
  <2>. QED  BY <1>8, <1>11, <2>11 DEF Joined
<1>19. CASE ~(a <= p /\ p < b /\ higher)
  <2>1. /\ NextOn(q, ht, i, Moved(p, a), Moved(p, b))
        /\ Far(q, Moved(p, a), Moved(p, b)) = Far(s, a, b) + IF a <= p /\ p < b THEN 1 ELSE 0
    BY <1>9, <1>19 DEF InsertsNext
  <2>2. e = Moved(p, b)
    BY <1>1, <1>10, <1>15, <2>1, NextUnique
  <2>3. r.next[m][i] = Place(s, b)
    BY <1>3, <1>10, <1>16, <2>2
  <2>4. Place(s, b) # n
    <3>1. p + 1 \in 0 .. Len(q) + 1 /\ Moved(p, b) \in 0 .. Len(q) + 1 /\ Moved(p, b) # p + 1
      BY <1>2, <1>4, <1>10 DEF Moved
    <3>. QED  BY <1>1, <1>3, <1>10, <3>1, PlacesDiffer
  <2>5. t.next[m][i] = Place(s, b)
    BY <1>13, <2>3, <2>4
  <2>6. Far(s, a, b) \in Int
    BY <1>4, <1>10 DEF Far
  <2>7. i < t.level => t.step[m][i] = Far(s, a, b)
    <3>. SUFFICES ASSUME i < t.level PROVE t.step[m][i] = Far(s, a, b)
      OBVIOUS
    <3>1. i < r.level
      <4>1. PICK l, k : l = r.level /\ k = t.level /\ l \in Nat /\ k \in Nat /\ k <= l /\ i < k
        BY <1>1, <1>13
      <4>2. i < l
        BY <1>10, <4>1
      <4>. QED  BY <4>1, <4>2
    <3>2. r.step[m][i] = Far(s, a, b) + IF a <= p /\ p < b THEN 1 ELSE 0
      BY <1>16, <2>1, <2>2, <3>1
    <3>3. CASE a <= p /\ p < b
      BY <1>13, <1>17, <2>3, <2>4, <2>6, <3>1, <3>2, <3>3
    <3>4. CASE ~(a <= p /\ p < b)
      BY <1>13, <1>17, <2>6, <3>1, <3>2, <3>4
    <3>. QED  BY <3>3, <3>4
  <2>. QED  BY <1>8, <1>11, <2>5, <2>7 DEF Joined
<1>. QED  BY <1>18, <1>19

LEMMA RemoveBuilds ==
  ASSUME NEW r, NEW q, NEW ht, Built(r, q, ht), NEW p, p \in 0 .. Len(q) - 1, NEW n, Place(q, p + 1) = n,
         NEW path, Guides(path, q, ht, p, r.level), NEW t, RemoveSets(t, r, n, path),
         NEW s, s = RemoveAt(q, p), NEW gt, gt = [ht EXCEPT ![n] = 0]
  PROVE  Built(t, s, gt)
<1>1. /\ q \in Seq(Node) /\ Injective(q) /\ Len(q) \in Nat /\ r.level \in Nat /\ r.level <= MaxLevel
      /\ ht \in [Node -> 0 .. r.level] /\ r \in Lists /\ MaxLevel \in Nat /\ 0 \in Levels /\ r.len = Len(q)
  BY SkipListAssumption DEF Built, Ordered, Lists, HeightsOf, Levels
<1>2. /\ s \in Seq(Node) /\ Len(q) = Len(s) + 1 /\ Injective(s) /\ p \in 0 .. Len(s)
      /\ InsertsAt(q, s, p, n) /\ n \in Node /\ \A a \in 1 .. Len(s) : s[a] # n
  <2>1. RemovesAt(s, q, p, n)
    BY <1>1, RemoveAtIs
  <2>. QED  BY <2>1 DEF RemovesAt
<1>3. Place(q, p + 1) = n /\ \A a \in 0 .. Len(s) + 1 : Place(q, Moved(p, a)) = Place(s, a)
  BY <1>2 DEF InsertsAt
<1>4. Len(s) \in Nat /\ p \in Nat
  BY <1>2
<1>5. \A a \in 1 .. Len(s) : Moved(p, a) \in 1 .. Len(q) /\ Moved(p, a) # p + 1 /\ q[Moved(p, a)] = s[a] /\ s[a] \in Node
  <2>. SUFFICES ASSUME NEW a \in 1 .. Len(s)
                PROVE  Moved(p, a) \in 1 .. Len(q) /\ Moved(p, a) # p + 1 /\ q[Moved(p, a)] = s[a] /\ s[a] \in Node
    OBVIOUS
  <2>1. /\ a \in 1 .. Len(s) /\ a # 0 /\ Moved(p, a) \in 1 .. Len(q) /\ Moved(p, a) # 0 /\ a \in 0 .. Len(s) + 1
        /\ Moved(p, a) # p + 1
    BY <1>2, <1>4 DEF Moved
  <2>2. q[Moved(p, a)] = s[a]
    BY <1>3, <2>1 DEF Place
  <2>. QED  BY <1>2, <2>1, <2>2
<1>6. q[p + 1] = n
  <2>1. p + 1 # 0 /\ p + 1 \in 1 .. Len(q)
    BY <1>1
  <2>. QED  BY <1>3, <2>1 DEF Place
<1>7. \A a \in 1 .. Len(q) : a = p + 1 \/ \E c \in 1 .. Len(s) : a = Moved(p, c)
  <2>. SUFFICES ASSUME NEW a \in 1 .. Len(q), a # p + 1 PROVE \E c \in 1 .. Len(s) : a = Moved(p, c)
    OBVIOUS
  <2>1. CASE a <= p
    BY <1>2, <1>4, <2>1 DEF Moved
  <2>2. CASE a > p + 1
    <3>1. a - 1 \in 1 .. Len(s) /\ Moved(p, a - 1) = a
      BY <1>2, <1>4, <2>2 DEF Moved
    <3>. QED  BY <3>1
  <2>. QED  BY <1>2, <1>4, <2>1, <2>2
<1>8. Leads(t, s, gt)
  BY RemoveLeads
<1>9. t \in Lists /\ t.level <= r.level /\ t.len = r.len - 1 /\ t.level \in 0 .. MaxLevel
  BY DEF RemoveSets, Lists
<1>10. Ordered(t, s)
  BY <1>1, <1>2, <1>4, <1>9 DEF Ordered
<1>11. /\ gt[n] = 0 /\ \A m \in Node \ {n} : gt[m] = ht[m]
       /\ \A m \in Node : ht[m] \in 0 .. r.level
  BY <1>1, <1>2
<1>12. ASSUME NEW a \in 1 .. Len(s) PROVE gt[s[a]] # 0 /\ gt[s[a]] \in 0 .. t.level
  <2>1. s[a] \in Node \ {n} /\ q[Moved(p, a)] = s[a] /\ Moved(p, a) \in 1 .. Len(q)
    BY <1>2, <1>5
  <2>2. gt[s[a]] # 0
    BY <1>11, <2>1 DEF Built, HeightsOf
  <2>3. gt[s[a]] \in 0 .. r.level
    BY <1>11, <2>1
  <2>4. PICK i : i = gt[s[a]] - 1
    OBVIOUS
  <2>5. i \in 0 .. r.level - 1 /\ gt[s[a]] = i + 1 /\ gt[s[a]] > i /\ i \in Levels /\ i \in Nat
    <3>1. PICK h : h = gt[s[a]]
      OBVIOUS
    <3>2. h \in Nat /\ 1 <= h /\ h <= r.level /\ i = h - 1
      BY <1>1, <2>2, <2>3, <2>4, <3>1
    <3>3. i \in 0 .. r.level - 1 /\ h = i + 1 /\ h > i /\ i \in 0 .. MaxLevel - 1
      BY <1>1, <3>2
    <3>. QED  BY <3>1, <3>3 DEF Levels
  <2>6. 0 \in 0 .. Len(s) /\ Reaches(s, gt, i, 0) /\ a # 0 /\ Reaches(s, gt, i, a)
    BY <1>4, <2>5 DEF Reaches
  <2>7. PICK b : NextOn(s, gt, i, 0, b) /\ Joined(t, s, i, 0, b)
    BY <1>8, <2>5, <2>6 DEF Leads
  <2>8. b \in 1 .. Len(s) + 1 /\ \A c \in 0 + 1 .. b - 1 : ~Reaches(s, gt, i, c)
    <3>1. 0 + 1 = 1
      OBVIOUS
    <3>. QED  BY <2>7, <3>1, Zenon DEF NextOn
  <2>9. b <= a
    <3>1. ASSUME b > a PROVE FALSE
      <4>1. a \in 0 + 1 .. b - 1
        BY <1>4, <2>8, <3>1
      <4>. QED  BY <2>6, <2>8, <4>1
    <3>. QED  BY <1>4, <2>8, <3>1
  <2>10. b \in 0 .. Len(s)
    BY <1>4, <2>8, <2>9
  <2>11. t.next[Header][i] # NULL
    <3>1. t.next[Header][i] = Place(s, b)
      BY <2>7 DEF Joined, Place
    <3>. QED  BY <1>2, <2>10, <3>1, PlaceIs
  <2>12. i < t.level
    BY <2>5, <2>11 DEF RemoveSets
  <2>. QED  BY <1>9, <2>2, <2>5, <2>12
<1>13. HeightsOf(s, gt, t.level)
  <2>1. ASSUME NEW m \in Node PROVE gt[m] # 0 <=> \E a \in 1 .. Len(s) : s[a] = m
    <3>1. ASSUME gt[m] # 0 PROVE \E a \in 1 .. Len(s) : s[a] = m
      <4>1. m # n /\ ht[m] # 0
        BY <1>11, <3>1
      <4>2. PICK a \in 1 .. Len(q) : q[a] = m
        BY <4>1 DEF Built, HeightsOf
      <4>3. a # p + 1
        BY <1>6, <4>1, <4>2
      <4>4. PICK c \in 1 .. Len(s) : a = Moved(p, c)
        BY <1>7, <4>3
      <4>. QED  BY <1>5, <4>2, <4>4
    <3>2. ASSUME NEW a \in 1 .. Len(s), s[a] = m PROVE gt[m] # 0
      BY <1>12, <3>2
    <3>. QED  BY <3>1, <3>2
  <2>2. \A m \in Node : gt[m] \in 0 .. t.level
    <3>. SUFFICES ASSUME NEW m \in Node PROVE gt[m] \in 0 .. t.level
      OBVIOUS
    <3>1. CASE gt[m] = 0
      BY <1>9, <3>1
    <3>2. CASE gt[m] # 0
      <4>1. PICK a \in 1 .. Len(s) : s[a] = m
        BY <2>1, <3>2
      <4>. QED  BY <1>12, <4>1
    <3>. QED  BY <3>1, <3>2
  <2>3. gt \in [Node -> 0 .. t.level]
    <3>1. gt = [m \in Node |-> gt[m]]
      BY <1>1
    <3>. QED  BY <2>2, <3>1
  <2>. QED  BY <2>1, <2>3 DEF HeightsOf
<1>14. LeadsNowhere(t, gt)
  <2>. SUFFICES ASSUME NEW m \in Node, NEW i \in Levels, gt[m] <= i PROVE t.next[m][i] = NULL
    BY DEF LeadsNowhere
  <2>1. CASE m = n
    BY <2>1 DEF RemoveSets
  <2>2. CASE m # n
    <3>1. m \in Nodes \ {n}
      BY <2>2 DEF Nodes
    <3>2. \A l \in Nodes \ {n}, j \in Levels :
            t.next[l][j] = IF j < r.level /\ l = path[j].node /\ r.next[l][j] = n
                           THEN r.next[n][j] ELSE r.next[l][j]
      BY DEF RemoveSets
    <3>3. r.next[m][i] = NULL
      BY <1>11, <2>2 DEF Built, LeadsNowhere
    <3>. QED  BY <1>2, <3>1, <3>2, <3>3, SkipListAssumption
  <2>. QED  BY <2>1, <2>2
<1>15. LeadsBack(t, s)
  <2>. SUFFICES ASSUME NEW a \in 1 .. Len(s) PROVE t.prev[s[a]] = IF a = 1 THEN NULL ELSE s[a - 1]
    BY DEF LeadsBack
  <2>1. r.next[n][0] = Place(q, (p + 1) + 1)
    <3>1. p + 1 \in 0 .. Len(q)
      BY <1>1
    <3>. QED  BY <1>3, <3>1, LowestIs
  <2>2. \A m \in Node \ {n} : t.prev[m] = IF m = r.next[n][0] THEN r.prev[n] ELSE r.prev[m]
    BY DEF RemoveSets
  <2>3. s[a] \in Node \ {n} /\ q[Moved(p, a)] = s[a] /\ Moved(p, a) \in 1 .. Len(q) /\ Moved(p, a) # p + 1
    BY <1>2, <1>5
  <2>4. \A c \in 1 .. Len(q) : r.prev[q[c]] = IF c = 1 THEN NULL ELSE q[c - 1]
    BY DEF Built, LeadsBack
  <2>5. \A c \in 1 .. Len(q) : Place(q, c) = q[c]
    BY <1>1, PlaceIs
  <2>6. CASE a = p + 1
    <3>1. Moved(p, a) = (p + 1) + 1
      BY <1>4, <2>6 DEF Moved
    <3>2. t.prev[s[a]] = r.prev[n]
      BY <2>1, <2>2, <2>3, <2>5, <3>1
    <3>3. r.prev[n] = IF p + 1 = 1 THEN NULL ELSE q[(p + 1) - 1]
      <4>1. p + 1 \in 1 .. Len(q)
        BY <1>1
      <4>. QED  BY <1>6, <2>4, <4>1
    <3>4. CASE p = 0
      BY <2>6, <3>2, <3>3, <3>4
    <3>5. CASE p # 0
      <4>1. a # 1 /\ a - 1 \in 1 .. Len(s) /\ Moved(p, a - 1) = a - 1 /\ (p + 1) - 1 = a - 1
        BY <1>2, <1>4, <2>6, <3>5 DEF Moved
      <4>2. q[a - 1] = s[a - 1]
        BY <1>5, <4>1
      <4>. QED  BY <1>4, <2>6, <3>2, <3>3, <3>5, <4>1, <4>2
    <3>. QED  BY <3>4, <3>5
  <2>7. CASE a # p + 1
    <3>1. Moved(p, a) # (p + 1) + 1
      BY <1>4, <2>7 DEF Moved
    <3>2. s[a] # r.next[n][0]
      <4>1. Moved(p, a) \in 0 .. Len(q) + 1 /\ (p + 1) + 1 \in 0 .. Len(q) + 1
        <5>1. PICK l, c : l = Len(q) /\ l \in Nat /\ c = Moved(p, a) /\ c \in 1 .. l
          BY <1>1, <2>3
        <5>2. p \in 0 .. l - 1
          BY <5>1
        <5>3. c \in 0 .. l + 1 /\ (p + 1) + 1 \in 0 .. l + 1
          BY <5>1, <5>2
        <5>. QED  BY <5>1, <5>3
      <4>. QED  BY <1>1, <2>1, <2>3, <2>5, <3>1, <4>1, PlacesDiffer
    <3>3. t.prev[s[a]] = IF Moved(p, a) = 1 THEN NULL ELSE q[Moved(p, a) - 1]
      BY <2>2, <2>3, <2>4, <3>2
    <3>4. CASE a = 1
      <4>1. Moved(p, a) = 1
        BY <1>4, <2>7, <3>4 DEF Moved
      <4>. QED  BY <3>3, <3>4, <4>1
    <3>5. CASE a # 1
      <4>1. Moved(p, a) # 1 /\ Moved(p, a) - 1 = Moved(p, a - 1) /\ a - 1 \in 1 .. Len(s)
        <5>1. a \in Nat /\ a - 1 \in 1 .. Len(s)
          BY <1>4, <3>5
        <5>2. CASE a <= p
          <6>1. Moved(p, a) = a /\ Moved(p, a - 1) = a - 1
            BY <1>4, <5>1, <5>2 DEF Moved
          <6>. QED  BY <3>5, <5>1, <6>1
        <5>3. CASE a > p + 1
          <6>1. Moved(p, a) = a + 1 /\ Moved(p, a - 1) = (a - 1) + 1
            BY <1>4, <5>1, <5>3 DEF Moved
          <6>. QED  BY <3>5, <5>1, <6>1
        <5>. QED  BY <1>4, <2>7, <5>1, <5>2, <5>3
      <4>2. q[Moved(p, a) - 1] = s[a - 1]
        BY <1>5, <4>1
      <4>. QED  BY <3>3, <3>5, <4>1, <4>2
    <3>. QED  BY <3>4, <3>5
  <2>. QED  BY <2>6, <2>7
<1>. QED  BY <1>8, <1>10, <1>13, <1>14, <1>15 DEF Built

LEMMA MaxIs ==
  ASSUME NEW T, T \in SUBSET Nat, T # {}, NEW k, k \in Nat, \A x \in T : x <= k
  PROVE  Sets!Max(T) \in T /\ \A y \in T : y <= Sets!Max(T)
<1>. DEFINE U == {d \in 0 .. k : k - d \in T}
<1>1. PICK d \in U : \A m \in U : d <= m
  <2>1. PICK x \in T : TRUE
    OBVIOUS
  <2>2. k - x \in 0 .. k /\ k - (k - x) = x
    BY <2>1
  <2>3. k - x \in U /\ U \in SUBSET Nat
    BY <2>1, <2>2
  <2>. HIDE DEF U
  <2>. QED  BY <2>3, Least
<1>2. PICK x : x = k - d
  OBVIOUS
<1>3. x \in T
  BY <1>1, <1>2
<1>4. ASSUME NEW y \in T PROVE x >= y
  <2>1. y \in Nat /\ y <= k
    OBVIOUS
  <2>2. k - y \in 0 .. k /\ k - (k - y) = y
    BY <2>1
  <2>3. k - y \in U
    BY <2>2
  <2>4. d <= k - y
    BY <1>1, <2>3
  <2>. QED  BY <1>1, <1>2, <2>1, <2>4
<1>5. Sets!Max(T) \in T /\ \A y \in T : Sets!Max(T) >= y
  BY <1>3, <1>4, Zenon DEF Sets!Max
<1>. QED  BY <1>5

LEMMA RemoveDoes ==
  ASSUME NEW r, NEW q, NEW ht, Built(r, q, ht), NEW p, p \in 0 .. Len(q) - 1, NEW n, Place(q, p + 1) = n,
         NEW path, Guides(path, q, ht, p, r.level), NEW t, t = Freed(removeNode(r, n, path), n)
  PROVE  RemoveSets(t, r, n, path)
<1>1. /\ q \in Seq(Node) /\ Len(q) \in Nat /\ r.level \in Nat /\ r.level <= MaxLevel /\ Injective(q)
      /\ ht \in [Node -> 0 .. r.level] /\ r \in Lists /\ MaxLevel \in Nat /\ 0 \in Levels /\ r.len = Len(q)
  BY SkipListAssumption DEF Built, Ordered, Lists, HeightsOf, Levels
<1>2. n \in Node
  <2>1. PICK s : s = RemoveAt(q, p)
    OBVIOUS
  <2>2. RemovesAt(s, q, p, n)
    BY <1>1, <2>1, RemoveAtIs
  <2>. QED  BY <2>2 DEF RemovesAt
<1>3. r.level >= 1
  <2>1. p + 1 \in 1 .. Len(q) /\ p + 1 # 0
    BY <1>1
  <2>2. q[p + 1] = n
    BY <2>1 DEF Place
  <2>3. ht[n] # 0
    BY <1>2, <2>1, <2>2 DEF Built, HeightsOf
  <2>4. ht[n] \in 0 .. r.level
    BY <1>1, <1>2
  <2>. QED  BY <1>1, <2>3, <2>4
<1>4. PICK next : next = [m \in Nodes |-> [i \in Levels |->
                IF i < r.level /\ m = path[i].node /\ r.next[m][i] = n
                THEN r.next[n][i] ELSE r.next[m][i]]]
  OBVIOUS
<1>5. PICK T : T = {1} \cup {i + 1 : i \in {j \in 0 .. r.level - 1 : next[Header][j] # NULL}}
  OBVIOUS
<1>6. PICK highest : highest = Sets!Max(T)
  OBVIOUS
<1>7. /\ highest \in 1 .. r.level
      /\ \A i \in 0 .. r.level - 1 : next[Header][i] # NULL => i < highest
  <2>1. \A x \in T : x \in Nat /\ 1 <= x /\ x <= r.level
    BY <1>1, <1>3, <1>5
  <2>2. T \in SUBSET Nat /\ T # {} /\ \A x \in T : x <= r.level
    BY <1>5, <2>1
  <2>3. highest \in T /\ \A y \in T : y <= highest
    BY <1>1, <1>6, <2>2, MaxIs
  <2>4. ASSUME NEW i \in 0 .. r.level - 1, next[Header][i] # NULL PROVE i < highest
    <3>1. i + 1 \in T
      BY <1>5, <2>4
    <3>2. i + 1 <= highest /\ highest \in Nat
      BY <2>1, <2>3, <3>1
    <3>. QED  BY <1>1, <3>2
  <2>. QED  BY <1>1, <2>1, <2>3, <2>4
<1>8. PICK step : step = [m \in Nodes |-> [i \in Levels |->
          IF i < r.level /\ m = path[i].node
          THEN IF r.next[m][i] = n THEN r.step[m][i] + r.step[n][i] - 1 ELSE r.step[m][i] - 1
          ELSE r.step[m][i]]]
  OBVIOUS
<1>9. PICK prev : prev = [m \in Node |-> IF m = r.next[n][0] THEN r.prev[n] ELSE r.prev[m]]
  OBVIOUS
<1>10. removeNode(r, n, path) = [r EXCEPT !.next = next, !.step = step, !.prev = prev,
                                          !.level = highest, !.len = @ - 1]
  <2>. DEFINE G(nx, st, pr, hi) == [r EXCEPT !.next = nx, !.step = st, !.prev = pr, !.level = hi, !.len = @ - 1]
              nx == [m \in Node \cup {Header} |-> [i \in Levels |->
                IF i < r.level /\ m = path[i].node /\ r.next[m][i] = n
                THEN r.next[n][i] ELSE r.next[m][i]]]
              hi(x) == Sets!Max({1} \cup {i + 1 : i \in {j \in 0 .. r.level - 1 : x[Header][j] # NULL}})
              st == [m \in Node \cup {Header} |-> [i \in Levels |->
                IF i < r.level /\ m = path[i].node
                THEN IF r.next[m][i] = n THEN r.step[m][i] + r.step[n][i] - 1 ELSE r.step[m][i] - 1
                ELSE r.step[m][i]]]
              pr == [m \in Node |-> IF m = r.next[n][0] THEN r.prev[n] ELSE r.prev[m]]
  <2>1. removeNode(r, n, path) = G(nx, st, pr, hi(nx))
    BY Zenon DEF removeNode
  <2>2. next = nx /\ step = st /\ prev = pr
    BY <1>4, <1>8, <1>9, Zenon DEF Nodes
  <2>3. highest = hi(next)
    BY <1>5, <1>6, Zenon
  <2>. HIDE DEF G, nx, st, pr
  <2>4. removeNode(r, n, path) = G(next, step, prev, highest)
    <3>. HIDE DEF hi
    <3>. QED  BY <2>1, <2>2, <2>3
  <2>. QED  BY <2>4 DEF G
<1>11. t = [r EXCEPT !.next = [next EXCEPT ![n] = Cleared(NULL)], !.step = [step EXCEPT ![n] = Cleared(0)],
                     !.prev = [prev EXCEPT ![n] = NULL], !.level = highest, !.len = @ - 1]
  <2>1. PICK d : d = removeNode(r, n, path)
    OBVIOUS
  <2>2. t = [d EXCEPT !.next[n] = Cleared(NULL), !.step[n] = Cleared(0), !.prev[n] = NULL]
    BY <2>1 DEF Freed
  <2>3. d = [r EXCEPT !.next = next, !.step = step, !.prev = prev, !.level = highest, !.len = @ - 1]
    BY <1>10, <2>1
  <2>4. DOMAIN r = {"level", "len", "next", "step", "prev"}
    BY <1>1 DEF Lists
  <2>. QED  BY <2>2, <2>3, <2>4
<1>12. /\ t.level = highest /\ t.len = r.len - 1 /\ t.next = [next EXCEPT ![n] = Cleared(NULL)]
       /\ t.step = [step EXCEPT ![n] = Cleared(0)] /\ t.prev = [prev EXCEPT ![n] = NULL]
  BY <1>1, <1>11 DEF Lists
<1>13. \A m \in Nodes, i \in Levels : r.next[m][i] \in Node \cup {NULL} /\ r.step[m][i] \in Int
  BY <1>1 DEF Lists
<1>14. n \in Nodes /\ Header \in Nodes /\ n # Header
  BY <1>2, SkipListAssumption DEF Nodes
<1>15. next \in [Nodes -> [Levels -> Node \cup {NULL}]]
  BY <1>4, <1>13, <1>14
<1>16. step \in [Nodes -> [Levels -> Int]]
  <2>1. \A m \in Nodes, i \in Levels : r.step[m][i] + r.step[n][i] - 1 \in Int /\ r.step[m][i] - 1 \in Int
    BY <1>13, <1>14
  <2>. QED  BY <1>8, <1>13, <2>1
<1>17. prev \in [Node -> Node \cup {NULL}]
  <2>1. \A m \in Node : r.prev[m] \in Node \cup {NULL}
    BY <1>1 DEF Lists
  <2>. QED  BY <1>2, <1>9, <2>1
<1>18. t \in Lists
  <2>1. t.next \in [Nodes -> [Levels -> Node \cup {NULL}]]
    <3>1. Cleared(NULL) \in [Levels -> Node \cup {NULL}]
      BY DEF Cleared
    <3>. QED  BY <1>12, <1>14, <1>15, <3>1
  <2>2. t.step \in [Nodes -> [Levels -> Int]]
    <3>1. Cleared(0) \in [Levels -> Int]
      BY DEF Cleared
    <3>. QED  BY <1>12, <1>14, <1>16, <3>1
  <2>3. t.prev \in [Node -> Node \cup {NULL}]
    BY <1>2, <1>12, <1>17
  <2>4. t.level \in 0 .. MaxLevel /\ t.len \in Nat
    BY <1>1, <1>7, <1>12
  <2>5. t = [level |-> t.level, len |-> t.len, next |-> t.next, step |-> t.step, prev |-> t.prev]
    BY <1>1, <1>11 DEF Lists
  <2>. QED  BY <2>1, <2>2, <2>3, <2>4, <2>5 DEF Lists
<1>19. t.level <= r.level
  BY <1>1, <1>7, <1>12
<1>20. \A i \in 0 .. r.level - 1 : t.next[Header][i] # NULL => i < t.level
  BY <1>7, <1>12, <1>14, <1>15
<1>21. \A m \in Nodes \ {n}, i \in Levels :
         t.next[m][i] = IF i < r.level /\ m = path[i].node /\ r.next[m][i] = n
                        THEN r.next[n][i] ELSE r.next[m][i]
  <2>1. \A m \in Nodes \ {n} : t.next[m] = next[m]
    BY <1>12, <1>15
  <2>. QED  BY <1>4, <2>1
<1>22. \A m \in Nodes \ {n}, i \in Levels :
         t.step[m][i] = IF i < r.level /\ m = path[i].node
                        THEN IF r.next[m][i] = n THEN r.step[m][i] + r.step[n][i] - 1 ELSE r.step[m][i] - 1
                        ELSE r.step[m][i]
  <2>1. \A m \in Nodes \ {n} : t.step[m] = step[m]
    BY <1>12, <1>16
  <2>. QED  BY <1>8, <2>1
<1>23. \A m \in Node \ {n} : t.prev[m] = IF m = r.next[n][0] THEN r.prev[n] ELSE r.prev[m]
  BY <1>9, <1>12
<1>24. \A i \in Levels : t.next[n][i] = NULL
  BY <1>12, <1>14, <1>15 DEF Cleared
<1>. QED  BY <1>12, <1>18, <1>19, <1>20, <1>21, <1>22, <1>23, <1>24 DEF RemoveSets

-----------------------------------------------------------------------------
(* The elements.                                                           *)

Records == [score : Score, value : Value, height : 1 .. MaxLevel]
Heights(d) == [n \in Node |-> IF d[n] = NULL THEN 0 ELSE d[n].height]

NotAfter(x, y) == x.score < y.score \/ (x.score = y.score /\ x.value <= y.value)
Sorted(q, d) == \A a, b \in 1 .. Len(q) : a < b => NotAfter(d[q[a]], d[q[b]])

(* What q holds is what the list stands for.                               *)
Holds(r, d, q) ==
  d \in [Node -> Records \cup {NULL}] /\ Built(r, q, Heights(d)) /\ Sorted(q, d)

LEMMA RecordIs ==
  ASSUME NEW x, x \in Records
  PROVE  /\ x.score \in Score /\ x.value \in Value /\ x.height \in 1 .. MaxLevel /\ x # NULL
         /\ x.score \in Int /\ x.value \in Int
<1>1. x.score \in Score /\ x.value \in Value /\ x.height \in 1 .. MaxLevel
  BY DEF Records
<1>2. Score \subseteq Int /\ Value \subseteq Int /\ NULL \notin Records
  BY SkipListAssumption DEF Records
<1>. QED  BY <1>1, <1>2

(* The nodes in use are those in the sequence.                             *)
LEMMA UsedIs ==
  ASSUME NEW q, Holds(sl, data, q)
  PROVE  /\ q \in Seq(Node) /\ Len(q) \in Nat /\ sl.len = Len(q)
         /\ Used \subseteq Node /\ NULL \notin Used /\ Header \notin Used
         /\ \A n \in Node : n \in Used <=> \E a \in 1 .. Len(q) : q[a] = n
         /\ \A n \in Node : n \in Used <=> Heights(data)[n] # 0
         /\ \A n \in Used : data[n] \in Records
         /\ \A a \in 1 .. Len(q) : q[a] \in Used /\ q[a] \in Node /\ data[q[a]] \in Records
<1>1. q \in Seq(Node) /\ Len(q) \in Nat /\ sl.len = Len(q)
  BY DEF Holds, Built, Ordered
<1>2. Used \subseteq Node /\ NULL \notin Used /\ Header \notin Used
  BY SkipListAssumption DEF Used
<1>3. \A n \in Node : n \in Used <=> Heights(data)[n] # 0
  <2>. SUFFICES ASSUME NEW n \in Node PROVE n \in Used <=> Heights(data)[n] # 0
    OBVIOUS
  <2>1. CASE data[n] = NULL
    BY <2>1 DEF Used, Heights
  <2>2. CASE data[n] # NULL
    <3>1. data[n] \in Records
      BY <2>2 DEF Holds
    <3>2. data[n].height \in 1 .. MaxLevel
      BY <3>1, RecordIs
    <3>3. Heights(data)[n] = data[n].height
      BY <2>2 DEF Heights
    <3>. QED  BY <2>2, <3>2, <3>3, SkipListAssumption DEF Used
  <2>. QED  BY <2>1, <2>2
<1>4. \A n \in Node : Heights(data)[n] # 0 <=> \E a \in 1 .. Len(q) : q[a] = n
  BY DEF Holds, Built, HeightsOf
<1>5. \A n \in Used : data[n] \in Records
  BY DEF Holds, Used
<1>6. \A a \in 1 .. Len(q) : q[a] \in Used /\ q[a] \in Node /\ data[q[a]] \in Records
  <2>. SUFFICES ASSUME NEW a \in 1 .. Len(q) PROVE q[a] \in Used /\ q[a] \in Node /\ data[q[a]] \in Records
    OBVIOUS
  <2>1. q[a] \in Node
    BY <1>1
  <2>. QED  BY <1>3, <1>4, <1>5, <2>1
<1>. QED  BY <1>1, <1>2, <1>3, <1>4, <1>5, <1>6

(* A set that has, with each element of a sequence, all before it is that  *)
(* of a search.                                                            *)
LEMMA SplitExists ==
  ASSUME NEW q, q \in Seq(Node), NEW passed, NULL \notin passed,
         \A a, b \in 1 .. Len(q) : a < b /\ q[b] \in passed => q[a] \in passed
  PROVE  \E p : Splits(q, passed, p)
<1>1. Len(q) \in Nat
  OBVIOUS
<1>. DEFINE T == {c \in 1 .. Len(q) + 1 : c = Len(q) + 1 \/ q[c] \notin passed}
<1>2. PICK c \in T : \A m \in T : c <= m
  <2>1. Len(q) + 1 \in T /\ T \in SUBSET Nat
    BY <1>1
  <2>. HIDE DEF T
  <2>. QED  BY <2>1, Least
<1>3. ASSUME NEW a \in 1 .. Len(q) PROVE q[a] \in passed <=> a <= c - 1
  <2>1. CASE a < c
    <3>1. a \notin T
      BY <1>1, <1>2, <2>1
    <3>. QED  BY <1>1, <1>2, <2>1, <3>1
  <2>2. CASE ~(a < c)
    <3>1. c \in 1 .. Len(q) /\ q[c] \notin passed
      BY <1>1, <1>2, <2>2
    <3>2. a = c \/ c < a
      BY <1>1, <2>2, <3>1
    <3>. QED  BY <1>1, <2>2, <3>1, <3>2
  <2>. QED  BY <2>1, <2>2
<1>4. c - 1 \in 0 .. Len(q)
  BY <1>1, <1>2
<1>. QED  BY <1>3, <1>4 DEF Splits

LEMMA LessScoreSplits ==
  ASSUME NEW q, Holds(sl, data, q), NEW s, s \in Score
  PROVE  \E p : Splits(q, LessScore(s), p)
<1>1. q \in Seq(Node) /\ \A a \in 1 .. Len(q) : q[a] \in Used /\ data[q[a]] \in Records
  BY UsedIs
<1>2. NULL \notin LessScore(s)
  BY UsedIs DEF LessScore
<1>3. ASSUME NEW a \in 1 .. Len(q), NEW b \in 1 .. Len(q), a < b, q[b] \in LessScore(s)
      PROVE  q[a] \in LessScore(s)
  <2>1. NotAfter(data[q[a]], data[q[b]])
    BY <1>3 DEF Holds, Sorted
  <2>2. data[q[a]].score \in Int /\ data[q[b]].score \in Int /\ s \in Int
    BY <1>1, RecordIs, SkipListAssumption
  <2>. QED  BY <1>1, <1>3, <2>1, <2>2 DEF NotAfter, LessScore
<1>. QED  BY <1>1, <1>2, <1>3, SplitExists

LEMMA NotAboveSplits ==
  ASSUME NEW q, Holds(sl, data, q), NEW s, s \in Score
  PROVE  \E p : Splits(q, NotAbove(s), p)
<1>1. q \in Seq(Node) /\ \A a \in 1 .. Len(q) : q[a] \in Used /\ data[q[a]] \in Records
  BY UsedIs
<1>2. NULL \notin NotAbove(s)
  BY UsedIs DEF NotAbove
<1>3. ASSUME NEW a \in 1 .. Len(q), NEW b \in 1 .. Len(q), a < b, q[b] \in NotAbove(s)
      PROVE  q[a] \in NotAbove(s)
  <2>1. NotAfter(data[q[a]], data[q[b]])
    BY <1>3 DEF Holds, Sorted
  <2>2. data[q[a]].score \in Int /\ data[q[b]].score \in Int /\ s \in Int
    BY <1>1, RecordIs, SkipListAssumption
  <2>. QED  BY <1>1, <1>3, <2>1, <2>2 DEF NotAfter, NotAbove
<1>. QED  BY <1>1, <1>2, <1>3, SplitExists

LEMMA LessElemSplits ==
  ASSUME NEW q, Holds(sl, data, q), NEW s, s \in Score, NEW v, v \in Value
  PROVE  \E p : Splits(q, LessElem(s, v), p)
<1>1. q \in Seq(Node) /\ \A a \in 1 .. Len(q) : q[a] \in Used /\ data[q[a]] \in Records
  BY UsedIs
<1>2. NULL \notin LessElem(s, v)
  BY UsedIs DEF LessElem
<1>3. ASSUME NEW a \in 1 .. Len(q), NEW b \in 1 .. Len(q), a < b, q[b] \in LessElem(s, v)
      PROVE  q[a] \in LessElem(s, v)
  <2>1. NotAfter(data[q[a]], data[q[b]])
    BY <1>3 DEF Holds, Sorted
  <2>2. /\ data[q[a]].score \in Int /\ data[q[b]].score \in Int /\ s \in Int
        /\ data[q[a]].value \in Int /\ data[q[b]].value \in Int /\ v \in Int
    BY <1>1, RecordIs, SkipListAssumption
  <2>. QED  BY <1>1, <1>3, <2>1, <2>2 DEF NotAfter, LessElem
<1>. QED  BY <1>1, <1>2, <1>3, SplitExists

LEMMA NotAboveElemSplits ==
  ASSUME NEW q, Holds(sl, data, q), NEW s, s \in Score, NEW v, v \in Value
  PROVE  \E p : Splits(q, NotAboveElem(s, v), p)
<1>1. q \in Seq(Node) /\ \A a \in 1 .. Len(q) : q[a] \in Used /\ data[q[a]] \in Records
  BY UsedIs
<1>2. NULL \notin NotAboveElem(s, v)
  BY UsedIs DEF NotAboveElem
<1>3. ASSUME NEW a \in 1 .. Len(q), NEW b \in 1 .. Len(q), a < b, q[b] \in NotAboveElem(s, v)
      PROVE  q[a] \in NotAboveElem(s, v)
  <2>1. NotAfter(data[q[a]], data[q[b]])
    BY <1>3 DEF Holds, Sorted
  <2>2. /\ data[q[a]].score \in Int /\ data[q[b]].score \in Int /\ s \in Int
        /\ data[q[a]].value \in Int /\ data[q[b]].value \in Int /\ v \in Int
    BY <1>1, RecordIs, SkipListAssumption
  <2>. QED  BY <1>1, <1>3, <2>1, <2>2 DEF NotAfter, NotAboveElem
<1>. QED  BY <1>1, <1>2, <1>3, SplitExists

LEMMA InsertHolds ==
  ASSUME NEW q, Holds(sl, data, q), NEW s, s \in Score, NEW v, v \in Value,
         NEW height, height \in 1 .. MaxLevel, NEW n, n \in Node, NEW p, Splits(q, LessElem(s, v), p),
         dmbSkipListInsert(s, v, height, n)
  PROVE  Holds(sl', data', InsertAt(q, p, n)) /\ n \notin Used
<1>1. n \notin Used /\ data' = [data EXCEPT ![n] = [score |-> s, value |-> v, height |-> height]]
  BY DEF dmbSkipListInsert
<1>2. /\ q \in Seq(Node) /\ Len(q) \in Nat /\ Injective(q)
      /\ \A a \in 1 .. Len(q) : q[a] \in Used /\ q[a] \in Node /\ q[a] # n /\ data[q[a]] \in Records
  <2>1. Injective(q)
    BY DEF Holds, Built, Ordered
  <2>. QED  BY <1>1, <2>1, UsedIs
<1>3. PICK ht : ht = Heights(data)
  OBVIOUS
<1>4. ht[n] = 0 /\ Built(sl, q, ht)
  <2>1. Heights(data)[n] = 0
    BY <1>1, UsedIs
  <2>. QED  BY <1>3, <2>1 DEF Holds
<1>5. Built(sl', InsertAt(q, p, n), [ht EXCEPT ![n] = height])
  BY <1>4, InsertDoes
<1>6. PICK e, new : e = data' /\ new = [score |-> s, value |-> v, height |-> height]
  OBVIOUS
<1>7. new \in Records /\ new.score = s /\ new.value = v /\ new.height = height /\ new # NULL
  <2>1. new \in Records /\ new.score = s /\ new.value = v /\ new.height = height
    BY <1>6 DEF Records
  <2>. QED  BY <2>1, RecordIs
<1>8. e = [data EXCEPT ![n] = new]
  BY <1>1, <1>6
<1>9. data \in [Node -> Records \cup {NULL}]
  BY DEF Holds
<1>10. e \in [Node -> Records \cup {NULL}] /\ e[n] = new /\ \A m \in Node : m # n => e[m] = data[m]
  BY <1>7, <1>8, <1>9
<1>11. Heights(e) = [ht EXCEPT ![n] = height]
  <2>1. PICK gt : gt = [ht EXCEPT ![n] = height]
    OBVIOUS
  <2>2. ht = [m \in Node |-> ht[m]] /\ \A m \in Node : ht[m] = IF data[m] = NULL THEN 0 ELSE data[m].height
    BY <1>3 DEF Heights
  <2>3. \A m \in Node : gt[m] = IF e[m] = NULL THEN 0 ELSE e[m].height
    BY <1>7, <1>10, <2>1, <2>2
  <2>4. gt = [m \in Node |-> gt[m]]
    BY <2>1, <2>2
  <2>5. gt = [m \in Node |-> IF e[m] = NULL THEN 0 ELSE e[m].height]
    BY <2>3, <2>4
  <2>. QED  BY <2>1, <2>5 DEF Heights
<1>12. PICK t : t = InsertAt(q, p, n)
  OBVIOUS
<1>13. InsertsAt(t, q, p, n) /\ p \in 0 .. Len(q)
  <2>1. p \in 0 .. Len(q)
    BY DEF Splits
  <2>. QED  BY <1>2, <1>12, <2>1, InsertAtIs
<1>14. /\ Len(t) = Len(q) + 1 /\ t = [a \in 1 .. Len(q) + 1 |-> IF a <= p THEN q[a] ELSE IF a = p + 1 THEN n ELSE q[a - 1]]
  BY <1>12, <1>13 DEF InsertsAt, InsertAt
<1>15. \A a \in 1 .. Len(q) : a <= p <=> q[a] \in LessElem(s, v)
  BY DEF Splits
<1>16. ASSUME NEW a \in 1 .. Len(q), a <= p PROVE NotAfter(data[q[a]], new)
  <2>1. q[a] \in LessElem(s, v)
    BY <1>15, <1>16
  <2>2. data[q[a]].score \in Int /\ data[q[a]].value \in Int /\ s \in Int /\ v \in Int
    BY <1>2, RecordIs, SkipListAssumption
  <2>. QED  BY <1>7, <2>1, <2>2 DEF LessElem, NotAfter
<1>17. ASSUME NEW a \in 1 .. Len(q), ~(a <= p) PROVE NotAfter(new, data[q[a]])
  <2>1. q[a] \notin LessElem(s, v) /\ q[a] \in Used
    BY <1>2, <1>15, <1>17
  <2>2. data[q[a]].score \in Int /\ data[q[a]].value \in Int /\ s \in Int /\ v \in Int
    BY <1>2, RecordIs, SkipListAssumption
  <2>. QED  BY <1>7, <2>1, <2>2 DEF LessElem, NotAfter
<1>18. Sorted(t, e)
  <2>. SUFFICES ASSUME NEW a \in 1 .. Len(q) + 1, NEW b \in 1 .. Len(q) + 1, a < b
                PROVE  NotAfter(e[t[a]], e[t[b]])
    BY <1>14 DEF Sorted
  <2>1. \A c, d \in 1 .. Len(q) : c < d => NotAfter(data[q[c]], data[q[d]])
    BY DEF Holds, Sorted
  <2>2. a \in Nat /\ b \in Nat /\ p \in Nat /\ p <= Len(q)
    BY <1>2, <1>13
  <2>3. \A c \in 1 .. Len(q) : e[q[c]] = data[q[c]]
    BY <1>2, <1>10
  <2>4. CASE a <= p
    <3>1. a \in 1 .. Len(q) /\ t[a] = q[a]
      BY <1>2, <1>14, <2>2, <2>4
    <3>2. CASE b <= p
      <4>1. b \in 1 .. Len(q) /\ t[b] = q[b]
        BY <1>2, <1>14, <2>2, <3>2
      <4>. QED  BY <2>1, <2>3, <3>1, <4>1
    <3>3. CASE b = p + 1
      <4>1. t[b] = n
        BY <1>14, <2>2, <3>3
      <4>. QED  BY <1>10, <1>16, <2>3, <2>4, <3>1, <4>1
    <3>4. CASE b > p + 1
      <4>1. b - 1 \in 1 .. Len(q) /\ t[b] = q[b - 1] /\ a < b - 1
        BY <1>2, <1>14, <2>2, <2>4, <3>4
      <4>. QED  BY <2>1, <2>3, <3>1, <4>1
    <3>. QED  BY <2>2, <3>2, <3>3, <3>4
  <2>5. CASE a = p + 1
    <3>1. t[a] = n /\ b - 1 \in 1 .. Len(q) /\ t[b] = q[b - 1] /\ ~(b - 1 <= p)
      BY <1>2, <1>14, <2>2, <2>5
    <3>. QED  BY <1>10, <1>17, <2>3, <3>1
  <2>6. CASE a > p + 1
    <3>1. a - 1 \in 1 .. Len(q) /\ t[a] = q[a - 1] /\ b - 1 \in 1 .. Len(q) /\ t[b] = q[b - 1] /\ a - 1 < b - 1
      BY <1>2, <1>14, <2>2, <2>6
    <3>. QED  BY <2>1, <2>3, <3>1
  <2>. QED  BY <2>2, <2>4, <2>5, <2>6
<1>19. Built(sl', t, Heights(e))
  BY <1>5, <1>11, <1>12
<1>20. Holds(sl', e, t)
  BY <1>10, <1>18, <1>19 DEF Holds
<1>. QED  BY <1>1, <1>6, <1>12, <1>20

LEMMA RemoveHolds ==
  ASSUME NEW r, NEW d, NEW q, Holds(r, d, q), NEW p, p \in 0 .. Len(q) - 1, NEW n, Place(q, p + 1) = n,
         NEW path, Guides(path, q, Heights(d), p, r.level), NEW t, t = Freed(removeNode(r, n, path), n)
  PROVE  Holds(t, [d EXCEPT ![n] = NULL], RemoveAt(q, p))
<1>1. PICK ht : ht = Heights(d)
  OBVIOUS
<1>2. Built(r, q, ht) /\ Guides(path, q, ht, p, r.level)
  BY <1>1 DEF Holds
<1>3. q \in Seq(Node) /\ Len(q) \in Nat /\ Injective(q)
  BY <1>2 DEF Built, Ordered
<1>4. RemoveSets(t, r, n, path)
  BY <1>2, RemoveDoes
<1>5. PICK s, gt : s = RemoveAt(q, p) /\ gt = [ht EXCEPT ![n] = 0]
  OBVIOUS
<1>6. Built(t, s, gt)
  BY <1>2, <1>4, <1>5, RemoveBuilds
<1>7. RemovesAt(s, q, p, n)
  BY <1>3, <1>5, RemoveAtIs
<1>8. n \in Node /\ s \in Seq(Node) /\ Len(q) = Len(s) + 1 /\ \A a \in 1 .. Len(s) : s[a] # n
  BY <1>7 DEF RemovesAt
<1>9. PICK e : e = [d EXCEPT ![n] = NULL]
  OBVIOUS
<1>10. d \in [Node -> Records \cup {NULL}]
  BY DEF Holds
<1>11. e \in [Node -> Records \cup {NULL}] /\ e[n] = NULL /\ \A m \in Node : m # n => e[m] = d[m]
  BY <1>8, <1>9, <1>10
<1>12. Heights(e) = gt
  <2>1. ht = [m \in Node |-> ht[m]] /\ \A m \in Node : ht[m] = IF d[m] = NULL THEN 0 ELSE d[m].height
    BY <1>1 DEF Heights
  <2>2. \A m \in Node : gt[m] = IF e[m] = NULL THEN 0 ELSE e[m].height
    BY <1>5, <1>11, <2>1
  <2>3. gt = [m \in Node |-> gt[m]]
    BY <1>5, <2>1
  <2>4. gt = [m \in Node |-> IF e[m] = NULL THEN 0 ELSE e[m].height]
    BY <2>2, <2>3
  <2>. QED  BY <2>4 DEF Heights
<1>13. Sorted(s, e)
  <2>. SUFFICES ASSUME NEW a \in 1 .. Len(s), NEW b \in 1 .. Len(s), a < b PROVE NotAfter(e[s[a]], e[s[b]])
    BY DEF Sorted
  <2>1. s = [c \in 1 .. Len(q) - 1 |-> IF c <= p THEN q[c] ELSE q[c + 1]] /\ Len(s) \in Nat
    <3>1. s = [c \in 1 .. Len(q) - 1 |-> IF c <= p THEN q[c] ELSE q[c + 1]]
      BY <1>5, Zenon DEF RemoveAt
    <3>2. Len(s) \in Nat
      BY <1>8
    <3>. QED  BY <3>1, <3>2
  <2>2. \A c \in 1 .. Len(s) : s[c] = q[Moved(p, c)] /\ Moved(p, c) \in 1 .. Len(q)
    BY <1>3, <1>8, <2>1 DEF Moved
  <2>3. Moved(p, a) < Moved(p, b)
    <3>1. a \in Nat /\ b \in Nat /\ p \in Nat
      BY <1>3, <2>1
    <3>. QED  BY <3>1 DEF Moved
  <2>4. NotAfter(d[s[a]], d[s[b]])
    BY <2>2, <2>3 DEF Holds, Sorted
  <2>5. e[s[a]] = d[s[a]] /\ e[s[b]] = d[s[b]]
    <3>1. s[a] \in Node /\ s[b] \in Node /\ s[a] # n /\ s[b] # n
      BY <1>8
    <3>. QED  BY <1>11, <3>1
  <2>. QED  BY <2>4, <2>5
<1>14. Holds(t, e, s)
  BY <1>6, <1>11, <1>12, <1>13 DEF Holds
<1>. QED  BY <1>5, <1>9, <1>14

LEMMA FollowingIs ==
  ASSUME NEW q, NEW ht, Built(sl, q, ht), NEW passed, NEW p, Splits(q, passed, p),
         NEW path, path = Search(passed)
  PROVE  Following(path) = Place(q, p + 1) /\ path[0].node = Place(q, p)
<1>1. Guides(path, q, ht, p, sl.level)
  BY SearchEnds
<1>2. q \in Seq(Node) /\ Len(q) \in Nat /\ p \in 0 .. Len(q) /\ sl.level \in Nat /\ p \in Nat
  BY SkipListAssumption DEF Built, Ordered, Splits, Lists
<1>3. 0 \in 0 .. sl.level
  BY <1>2
<1>4. PICK x : LastOn(q, ht, 0, p, x) /\ path[0] = [node |-> Place(q, x), rank |-> x]
  BY <1>1, <1>3 DEF Guides, Ends
<1>5. LastOn(q, ht, 0, p, p)
  BY <1>2, LowestIs
<1>6. x = p
  BY <1>2, <1>4, <1>5, LastUnique
<1>7. path[0].node = Place(q, p)
  BY <1>4, <1>6
<1>8. sl.next[Place(q, p)][0] = Place(q, p + 1)
  BY <1>2, LowestIs
<1>. QED  BY <1>7, <1>8 DEF Following

-----------------------------------------------------------------------------
(* The nodes along level 0, from any place on.                             *)

IsSlice(c, q, p, l) == c \in Seq(Node) /\ Len(c) = l /\ \A k \in 1 .. l : c[k] = q[p + k]
IsBackSlice(c, q, p, l) == c \in Seq(Node) /\ Len(c) = l /\ \A k \in 1 .. l : c[k] = q[p + 1 - k]
Over(a, b) == IF a > b THEN a - b ELSE 0

(* What the recursive definitions of Chain and ChainBack define.           *)
IsChain(f, taken, nx) ==
  \A m \in Node \cup {NULL} : f[m] = IF m \in taken THEN <<m>> \o f[nx[m]] ELSE <<>>

Chains(f, D, taken, nx) == f = [m \in D |-> IF m \in taken THEN <<m>> \o f[nx[m]] ELSE <<>>]

LEMMA ChainExists ==
  ASSUME NEW D, D = Node \cup {NULL}, NEW taken, taken \subseteq Node, NEW nx, NEW rk, Down(D, taken, nx, rk)
  PROVE  \E f : Chains(f, D, taken, nx)
<1>1. PICK go, stop : /\ go = [m \in D |-> [c \in Seq(Node) |-> IF m = NULL THEN c ELSE <<m>> \o c]]
                      /\ stop = [m \in D |-> <<>>]
  OBVIOUS
<1>2. stop \in [D -> Seq(Node)]
  BY <1>1
<1>3. \A m \in Node, c \in Seq(Node) : <<m>> \o c \in Seq(Node)
  <2>. SUFFICES ASSUME NEW m \in Node, NEW c \in Seq(Node) PROVE <<m>> \o c \in Seq(Node)
    OBVIOUS
  <2>1. <<m>> \in Seq(Node)
    OBVIOUS
  <2>. QED  BY <2>1
<1>4. go \in [D -> [Seq(Node) -> Seq(Node)]]
  BY <1>1, <1>3
<1>5. PICK f : IsDescent(f, D, Seq(Node), taken, nx, go, stop)
  BY <1>2, <1>4, Descends
<1>6. f \in [D -> Seq(Node)] /\ \A m \in D : f[m] = IF m \in taken THEN go[m][f[nx[m]]] ELSE stop[m]
  BY <1>5 DEF IsDescent
<1>7. ASSUME NEW m \in D PROVE f[m] = IF m \in taken THEN <<m>> \o f[nx[m]] ELSE <<>>
  <2>1. CASE m \in taken
    <3>1. nx[m] \in D /\ m # NULL
      BY <2>1, SkipListAssumption DEF Down
    <3>2. PICK c \in Seq(Node) : c = f[nx[m]]
      BY <1>6, <3>1
    <3>3. go[m][c] = <<m>> \o c
      BY <1>1, <3>1
    <3>. QED  BY <1>6, <2>1, <3>2, <3>3
  <2>2. CASE m \notin taken
    BY <1>1, <1>6, <2>2
  <2>. QED  BY <2>1, <2>2
<1>8. f = [m \in D |-> f[m]]
  BY <1>6
<1>9. f = [m \in D |-> IF m \in taken THEN <<m>> \o f[nx[m]] ELSE <<>>]
  BY <1>7, <1>8, Zenon
<1>. QED  BY <1>9, Zenon DEF Chains

(* Going on along the places of q, while they are taken.                   *)
LEMMA ChainGoesOn ==
  ASSUME NEW q, q \in Seq(Node), NEW taken, NEW p, Splits(q, taken, p), NEW f, NEW nx, IsChain(f, taken, nx),
         \A a \in 1 .. Len(q) : nx[q[a]] = Place(q, a + 1)
  PROVE  \A a \in 0 .. Len(q) : IsSlice(f[Place(q, a + 1)], q, a, Over(p, a))
<1>1. Len(q) \in Nat /\ p \in 0 .. Len(q) /\ p \in Nat
  BY DEF Splits
<1>2. \A m \in Node \cup {NULL} : f[m] = IF m \in taken THEN <<m>> \o f[nx[m]] ELSE <<>>
  BY DEF IsChain
<1>. DEFINE T == {d \in Nat : \A a \in 0 .. Len(q) : p - a <= d => IsSlice(f[Place(q, a + 1)], q, a, Over(p, a))}
<1>3. ASSUME NEW a \in 0 .. Len(q), p <= a PROVE IsSlice(f[Place(q, a + 1)], q, a, Over(p, a))
  <2>1. Place(q, a + 1) \in Node \cup {NULL} /\ Place(q, a + 1) \notin taken
    <3>1. CASE a = Len(q)
      BY <3>1, PlaceIs DEF Splits
    <3>2. CASE a # Len(q)
      <4>1. a + 1 \in 1 .. Len(q) /\ ~(a + 1 <= p)
        BY <1>1, <1>3, <3>2
      <4>. QED  BY <4>1, PlaceIs DEF Splits
    <3>. QED  BY <3>1, <3>2
  <2>2. f[Place(q, a + 1)] = <<>>
    BY <1>2, <2>1
  <2>3. Over(p, a) = 0
    BY <1>1, <1>3 DEF Over
  <2>4. <<>> \in Seq(Node) /\ Len(<<>>) = 0 /\ \A k \in 1 .. 0 : FALSE
    OBVIOUS
  <2>. QED  BY <2>2, <2>3, <2>4 DEF IsSlice
<1>4. 0 \in T
  <2>1. \A a \in 0 .. Len(q) : p - a <= 0 => p <= a
    BY <1>1
  <2>. QED  BY <1>3, <2>1
<1>5. ASSUME NEW d \in T PROVE d + 1 \in T
  <2>. SUFFICES ASSUME NEW a \in 0 .. Len(q), p - a <= d + 1
                PROVE  IsSlice(f[Place(q, a + 1)], q, a, Over(p, a))
    BY DEF T
  <2>1. CASE p <= a
    BY <1>3, <2>1
  <2>2. CASE ~(p <= a)
    <3>1. a + 1 \in 1 .. Len(q) /\ a + 1 <= p /\ a + 1 \in 0 .. Len(q) /\ p - (a + 1) <= d /\ a \in Nat
      BY <1>1, <2>2
    <3>2. PICK m, c : m = q[a + 1] /\ c = f[Place(q, (a + 1) + 1)]
      OBVIOUS
    <3>3. m \in Node /\ m \in taken /\ Place(q, a + 1) = m /\ nx[m] = Place(q, (a + 1) + 1)
      BY <3>1, <3>2, PlaceIs DEF Splits
    <3>4. f[Place(q, a + 1)] = <<m>> \o c
      BY <1>2, <3>2, <3>3
    <3>5. IsSlice(c, q, a + 1, Over(p, a + 1))
      BY <1>5, <3>1, <3>2
    <3>6. Over(p, a + 1) = p - (a + 1) /\ Over(p, a) = (p - (a + 1)) + 1 /\ p - (a + 1) \in Nat
      BY <1>1, <2>2, <3>1 DEF Over
    <3>7. PICK l : l = p - (a + 1)
      OBVIOUS
    <3>8. c \in Seq(Node) /\ Len(c) = l /\ l \in Nat /\ \A k \in 1 .. l : c[k] = q[(a + 1) + k]
      BY <3>5, <3>6, <3>7 DEF IsSlice
    <3>9. PICK e : e = <<m>> \o c
      OBVIOUS
    <3>10. <<m>> \in Seq(Node) /\ Len(<<m>>) = 1 /\ <<m>>[1] = m
      BY <3>3
    <3>11. e \in Seq(Node) /\ Len(e) = l + 1
      BY <3>8, <3>9, <3>10
    <3>12. e[1] = m
      BY <3>8, <3>9, <3>10
    <3>13. \A k \in 1 .. l : e[k + 1] = c[k]
      BY <3>8, <3>9, <3>10
    <3>14. ASSUME NEW k \in 1 .. l + 1 PROVE e[k] = q[a + k]
      <4>1. CASE k = 1
        BY <3>2, <3>12, <4>1
      <4>2. CASE k # 1
        <5>1. k - 1 \in 1 .. l /\ (k - 1) + 1 = k /\ (a + 1) + (k - 1) = a + k
          BY <3>1, <3>8, <4>2
        <5>2. e[(k - 1) + 1] = c[k - 1] /\ c[k - 1] = q[(a + 1) + (k - 1)]
          BY <3>8, <3>13, <5>1
        <5>. QED  BY <5>1, <5>2
      <4>. QED  BY <4>1, <4>2
    <3>15. IsSlice(e, q, a, l + 1)
      BY <3>11, <3>14 DEF IsSlice
    <3>. QED  BY <3>4, <3>6, <3>7, <3>9, <3>15
  <2>. QED  BY <2>1, <2>2
<1>6. T = Nat
  <2>1. T \in SUBSET Nat
    OBVIOUS
  <2>. HIDE DEF T
  <2>. QED  BY <1>4, <1>5, <2>1, Induction
<1>. SUFFICES ASSUME NEW a \in 0 .. Len(q) PROVE IsSlice(f[Place(q, a + 1)], q, a, Over(p, a))
  OBVIOUS
<1>7. CASE p <= a
  BY <1>3, <1>7
<1>8. CASE ~(p <= a)
  <2>1. p - a \in T /\ p - a <= p - a
    BY <1>1, <1>6, <1>8
  <2>. QED  BY <2>1
<1>. QED  BY <1>7, <1>8

LEMMA ChainIs ==
  ASSUME NEW q, NEW ht, Built(sl, q, ht), NEW taken, taken \subseteq Node, NEW p, Splits(q, taken, p),
         NEW a, a \in 0 .. Len(q)
  PROVE  IsSlice(Chain(Place(q, a + 1), taken), q, a, Over(p, a))
<1>. DEFINE F(f) == f = [m \in Node \cup {NULL} |-> IF m \in taken THEN <<m>> \o f[sl.next[m][0]] ELSE <<>>]
<1>1. q \in Seq(Node) /\ sl \in Lists /\ 0 \in Levels /\ Len(q) \in Nat
  BY SkipListAssumption DEF Built, Ordered, Levels
<1>2. PICK D, nx, rk : /\ D = Node \cup {NULL}
                       /\ nx = [m \in D |-> IF m \in Node THEN sl.next[m][0] ELSE NULL]
                       /\ rk = [m \in D |-> Rank(q)[m]]
  OBVIOUS
<1>3. \A m \in Node : sl.next[m][0] \in Node \cup {NULL} /\ nx[m] = sl.next[m][0]
  BY <1>1, <1>2 DEF Lists, Nodes
<1>4. Down(D, taken, nx, rk)
  <2>1. \A m \in D : Rank(q)[m] \in Nat
    BY <1>2, RankIs DEF Nodes
  <2>2. \A m \in Node : Rank(q)[sl.next[m][0]] < Rank(q)[m]
    BY <1>1, RankIs DEF Nodes
  <2>3. rk \in [D -> Nat]
    BY <1>2, <2>1
  <2>4. \A m \in taken : m \in D /\ nx[m] \in D /\ rk[nx[m]] < rk[m]
    BY <1>2, <1>3, <2>2
  <2>. QED  BY <2>3, <2>4 DEF Down
<1>5. PICK g : Chains(g, D, taken, nx)
  BY <1>2, <1>4, ChainExists
<1>6. F(g)
  <2>1. \A m \in D : g[m] = IF m \in taken THEN <<m>> \o g[nx[m]] ELSE <<>>
    BY <1>5 DEF Chains
  <2>2. \A m \in D : g[m] = IF m \in taken THEN <<m>> \o g[sl.next[m][0]] ELSE <<>>
    BY <1>3, <2>1
  <2>3. g = [m \in D |-> g[m]]
    BY <1>5 DEF Chains
  <2>. QED  BY <1>2, <2>2, <2>3
<1>7. PICK f : f = CHOOSE h : F(h)
  OBVIOUS
<1>8. F(f)
  <2>. HIDE DEF F
  <2>. QED  BY <1>6, <1>7
<1>9. Chain(Place(q, a + 1), taken) = f[Place(q, a + 1)]
  BY <1>7, Zenon DEF Chain
<1>10. IsChain(f, taken, nx)
  <2>1. \A m \in Node \cup {NULL} : f[m] = IF m \in taken THEN <<m>> \o f[sl.next[m][0]] ELSE <<>>
    BY <1>8
  <2>2. \A m \in Node \cup {NULL} : f[m] = IF m \in taken THEN <<m>> \o f[nx[m]] ELSE <<>>
    BY <1>3, <2>1
  <2>. QED  BY <2>2 DEF IsChain
<1>11. \A b \in 1 .. Len(q) : nx[q[b]] = Place(q, b + 1)
  <2>. SUFFICES ASSUME NEW b \in 1 .. Len(q) PROVE nx[q[b]] = Place(q, b + 1)
    OBVIOUS
  <2>1. Place(q, b) = q[b] /\ q[b] \in Node
    BY <1>1, PlaceIs
  <2>2. b \in 0 .. Len(q)
    OBVIOUS
  <2>3. sl.next[Place(q, b)][0] = Place(q, b + 1)
    BY <2>2, LowestIs
  <2>. QED  BY <1>3, <2>1, <2>3
<1>12. \A b \in 0 .. Len(q) : IsSlice(f[Place(q, b + 1)], q, b, Over(p, b))
  BY <1>1, <1>10, <1>11, ChainGoesOn
<1>. QED  BY <1>9, <1>12

(* The sequence backwards.                                                 *)
Back(q) == [a \in 1 .. Len(q) |-> q[Len(q) + 1 - a]]

LEMMA ChainBackIs ==
  ASSUME NEW q, NEW ht, Built(sl, q, ht), NEW taken, taken \subseteq Node,
         \A m \in taken : \E b \in 1 .. Len(q) : q[b] = m,
         NEW p, p \in 0 .. Len(q), \A b \in 1 .. Len(q) : q[b] \in taken <=> b > p,
         NEW a, a \in 0 .. Len(q), NEW n, n = IF a = 0 THEN NULL ELSE q[a]
  PROVE  IsBackSlice(ChainBack(n, taken), q, a, Over(a, p))
<1>. DEFINE F(f) == f = [m \in Node \cup {NULL} |-> IF m \in taken THEN <<m>> \o f[sl.prev[m]] ELSE <<>>]
<1>1. q \in Seq(Node) /\ sl \in Lists /\ Len(q) \in Nat /\ Injective(q)
  BY DEF Built, Ordered
<1>2. \A b \in 1 .. Len(q) : sl.prev[q[b]] = (IF b = 1 THEN NULL ELSE q[b - 1]) /\ q[b] \in Node
  BY <1>1 DEF Built, LeadsBack
<1>3. PICK D, nx, rk : /\ D = Node \cup {NULL}
                       /\ nx = [m \in D |-> IF m \in Node THEN sl.prev[m] ELSE NULL]
                       /\ rk = [m \in D |-> IF m \in taken THEN CHOOSE b \in 1 .. Len(q) : q[b] = m ELSE 0]
  OBVIOUS
<1>4. \A m \in Node : sl.prev[m] \in Node \cup {NULL} /\ nx[m] = sl.prev[m]
  BY <1>1, <1>3 DEF Lists
<1>5. \A b \in 1 .. Len(q) : rk[q[b]] = IF q[b] \in taken THEN b ELSE 0
  <2>. SUFFICES ASSUME NEW b \in 1 .. Len(q) PROVE rk[q[b]] = IF q[b] \in taken THEN b ELSE 0
    OBVIOUS
  <2>1. (CHOOSE c \in 1 .. Len(q) : q[c] = q[b]) = b
    BY <1>1 DEF Injective
  <2>2. q[b] \in D
    BY <1>2, <1>3
  <2>. QED  BY <1>3, <2>1, <2>2
<1>6. Down(D, taken, nx, rk)
  <2>1. \A m \in D : rk[m] \in Nat
    <3>. SUFFICES ASSUME NEW m \in D PROVE rk[m] \in Nat
      OBVIOUS
    <3>1. CASE m \in taken
      <4>1. PICK b \in 1 .. Len(q) : q[b] = m
        BY <3>1
      <4>2. rk[m] = b
        BY <1>5, <3>1, <4>1
      <4>. QED  BY <4>2
    <3>2. CASE m \notin taken
      BY <1>3, <3>2
    <3>. QED  BY <3>1, <3>2
  <2>2. rk \in [D -> Nat]
    <3>1. rk = [m \in D |-> rk[m]]
      BY <1>3
    <3>. QED  BY <2>1, <3>1
  <2>3. ASSUME NEW m \in taken PROVE m \in D /\ nx[m] \in D /\ rk[nx[m]] < rk[m]
    <3>1. PICK b \in 1 .. Len(q) : q[b] = m
      OBVIOUS
    <3>2. m \in Node /\ nx[m] = (IF b = 1 THEN NULL ELSE q[b - 1]) /\ rk[m] = b
      BY <1>2, <1>4, <1>5, <3>1
    <3>3. CASE b = 1
      <4>1. NULL \notin taken
        BY SkipListAssumption
      <4>2. rk[NULL] = 0
        BY <1>3, <4>1
      <4>3. nx[m] = NULL /\ rk[m] = 1 /\ m \in D /\ NULL \in D
        BY <1>3, <3>2, <3>3
      <4>4. rk[nx[m]] = 0
        BY <4>2, <4>3
      <4>. QED  BY <4>3, <4>4
    <3>4. CASE b # 1
      <4>1. b - 1 \in 1 .. Len(q)
        BY <1>1, <3>4
      <4>2. nx[m] = q[b - 1] /\ q[b - 1] \in Node
        BY <1>2, <3>2, <3>4, <4>1
      <4>3. rk[q[b - 1]] = IF q[b - 1] \in taken THEN b - 1 ELSE 0
        BY <1>5, <4>1
      <4>4. rk[nx[m]] = b - 1 \/ rk[nx[m]] = 0
        BY <4>2, <4>3
      <4>5. rk[nx[m]] < rk[m]
        BY <3>2, <4>1, <4>4
      <4>. QED  BY <1>3, <3>2, <4>2, <4>5
    <3>. QED  BY <3>3, <3>4
  <2>. QED  BY <2>2, <2>3 DEF Down
<1>7. PICK g : Chains(g, D, taken, nx)
  BY <1>3, <1>6, ChainExists
<1>8. F(g)
  <2>1. \A m \in D : g[m] = IF m \in taken THEN <<m>> \o g[nx[m]] ELSE <<>>
    BY <1>7 DEF Chains
  <2>2. \A m \in D : g[m] = IF m \in taken THEN <<m>> \o g[sl.prev[m]] ELSE <<>>
    BY <1>4, <2>1
  <2>3. g = [m \in D |-> g[m]]
    BY <1>7 DEF Chains
  <2>. QED  BY <1>3, <2>2, <2>3
<1>9. PICK f : f = CHOOSE h : F(h)
  OBVIOUS
<1>10. F(f)
  <2>. HIDE DEF F
  <2>. QED  BY <1>8, <1>9
<1>11. ChainBack(n, taken) = f[n]
  BY <1>9, Zenon DEF ChainBack
<1>12. IsChain(f, taken, nx)
  <2>1. \A m \in Node \cup {NULL} : f[m] = IF m \in taken THEN <<m>> \o f[sl.prev[m]] ELSE <<>>
    BY <1>10
  <2>2. \A m \in Node \cup {NULL} : f[m] = IF m \in taken THEN <<m>> \o f[nx[m]] ELSE <<>>
    BY <1>4, <2>1
  <2>. QED  BY <2>2 DEF IsChain
<1>13. PICK w : w = Back(q)
  OBVIOUS
<1>14. w \in Seq(Node) /\ Len(w) = Len(q) /\ \A b \in 1 .. Len(q) : w[b] = q[Len(q) + 1 - b] /\ Len(q) + 1 - b \in 1 .. Len(q)
  <2>1. \A b \in 1 .. Len(q) : Len(q) + 1 - b \in 1 .. Len(q)
    BY <1>1
  <2>2. w \in [1 .. Len(q) -> Node] /\ \A b \in 1 .. Len(q) : w[b] = q[Len(q) + 1 - b]
    BY <1>1, <1>13, <2>1 DEF Back
  <2>. QED  BY <1>1, <2>1, <2>2
<1>15. Splits(w, taken, Len(q) - p)
  <2>1. \A b \in 1 .. Len(w) : w[b] \in taken <=> b <= Len(q) - p
    <3>. SUFFICES ASSUME NEW b \in 1 .. Len(q) PROVE w[b] \in taken <=> b <= Len(q) - p
      BY <1>14
    <3>1. w[b] \in taken <=> Len(q) + 1 - b > p
      BY <1>14
    <3>. QED  BY <1>1, <3>1
  <2>2. NULL \notin taken /\ Len(q) - p \in 0 .. Len(w)
    BY <1>1, <1>14, SkipListAssumption
  <2>. QED  BY <2>1, <2>2 DEF Splits
<1>16. \A b \in 1 .. Len(w) : nx[w[b]] = Place(w, b + 1)
  <2>. SUFFICES ASSUME NEW b \in 1 .. Len(q) PROVE nx[w[b]] = Place(w, b + 1)
    BY <1>14
  <2>1. PICK c : c = Len(q) + 1 - b
    OBVIOUS
  <2>2. c \in 1 .. Len(q) /\ w[b] = q[c] /\ q[c] \in Node
    BY <1>2, <1>14, <2>1
  <2>3. nx[w[b]] = IF c = 1 THEN NULL ELSE q[c - 1]
    BY <1>2, <1>4, <2>2
  <2>4. CASE c = 1
    <3>1. b + 1 # 0 /\ b + 1 \notin 1 .. Len(w)
      BY <1>1, <1>14, <2>1, <2>4
    <3>. QED  BY <2>3, <2>4, <3>1 DEF Place
  <2>5. CASE c # 1
    <3>1. b + 1 # 0 /\ b + 1 \in 1 .. Len(w) /\ Len(q) + 1 - (b + 1) = c - 1
      BY <1>1, <1>14, <2>1, <2>2, <2>5
    <3>2. Place(w, b + 1) = w[b + 1]
      BY <3>1 DEF Place
    <3>3. w[b + 1] = q[c - 1]
      BY <1>14, <3>1
    <3>. QED  BY <2>3, <2>5, <3>2, <3>3
  <2>. QED  BY <2>4, <2>5
<1>17. PICK z, y : z = Len(q) - a /\ y = Len(q) - p
  OBVIOUS
<1>18. \A b \in 0 .. Len(w) : IsSlice(f[Place(w, b + 1)], w, b, Over(y, b))
  <2>1. Splits(w, taken, y)
    BY <1>15, <1>17
  <2>. QED  BY <1>12, <1>14, <1>16, <2>1, ChainGoesOn
<1>19. z \in 0 .. Len(w) /\ z \in Nat
  BY <1>1, <1>14, <1>17
<1>20. IsSlice(f[Place(w, z + 1)], w, z, Over(y, z))
  BY <1>18, <1>19
<1>21. Place(w, z + 1) = n
  <2>1. CASE a = 0
    <3>1. z + 1 # 0 /\ z + 1 \notin 1 .. Len(w)
      BY <1>1, <1>14, <1>17, <2>1
    <3>. QED  BY <2>1, <3>1 DEF Place
  <2>2. CASE a # 0
    <3>1. z + 1 # 0 /\ z + 1 \in 1 .. Len(w) /\ Len(q) + 1 - (z + 1) = a
      BY <1>1, <1>14, <1>17, <2>2
    <3>2. Place(w, z + 1) = w[z + 1]
      BY <3>1 DEF Place
    <3>3. w[z + 1] = q[a]
      BY <1>14, <3>1
    <3>. QED  BY <2>2, <3>2, <3>3
  <2>. QED  BY <2>1, <2>2
<1>22. Over(y, z) = Over(a, p) /\ Over(a, p) \in 0 .. a
  BY <1>1, <1>17 DEF Over
<1>23. PICK c, l : c = f[n] /\ l = Over(a, p)
  OBVIOUS
<1>24. c \in Seq(Node) /\ Len(c) = l /\ \A k \in 1 .. l : c[k] = w[z + k]
  BY <1>20, <1>21, <1>22, <1>23 DEF IsSlice
<1>25. ASSUME NEW k \in 1 .. l PROVE c[k] = q[a + 1 - k]
  <2>1. z + k \in 1 .. Len(q) /\ Len(q) + 1 - (z + k) = a + 1 - k
    <3>1. l \in Nat /\ l <= a /\ a \in Nat /\ a <= Len(q) /\ z = Len(q) - a /\ k \in Nat /\ 1 <= k /\ k <= l
      BY <1>1, <1>17, <1>22, <1>23
    <3>. QED  BY <1>1, <3>1
  <2>2. c[k] = w[z + k] /\ w[z + k] = q[Len(q) + 1 - (z + k)]
    BY <1>14, <1>24, <2>1
  <2>. QED  BY <2>1, <2>2
<1>26. IsBackSlice(c, q, a, l)
  BY <1>24, <1>25 DEF IsBackSlice
<1>. QED  BY <1>11, <1>23, <1>26

-----------------------------------------------------------------------------
(* The removal of a range.                                                 *)

(* The sequence, and the data, without the k nodes behind place p.         *)
Cut(q, p, k) == [a \in 1 .. Len(q) - k |-> IF a <= p THEN q[a] ELSE q[a + k]]
Emptied(d, q, p, k) == [m \in Node |-> IF \E a \in p + 1 .. p + k : q[a] = m THEN NULL ELSE d[m]]

IsCut(s, q, p, k) ==
  /\ s \in Seq(Node) /\ Len(s) = Len(q) - k /\ Len(s) \in Nat
  /\ \A a \in 1 .. Len(s) : s[a] = (IF a <= p THEN q[a] ELSE q[a + k]) /\ s[a] \in Node

LEMMA CutIs ==
  ASSUME NEW q, q \in Seq(Node), NEW p, p \in Nat, NEW k, k \in Nat, p + k <= Len(q), NEW s, s = Cut(q, p, k)
  PROVE  IsCut(s, q, p, k)
<1>1. PICK l, m : l = Len(q) /\ m = l - k
  OBVIOUS
<1>2. l \in Nat /\ m \in Nat /\ p <= m
  BY <1>1
<1>3. s = [a \in 1 .. m |-> IF a <= p THEN q[a] ELSE q[a + k]]
  BY <1>1 DEF Cut
<1>4. \A a \in 1 .. m : s[a] = (IF a <= p THEN q[a] ELSE q[a + k]) /\ s[a] \in Node
  <2>. SUFFICES ASSUME NEW a \in 1 .. m PROVE s[a] = (IF a <= p THEN q[a] ELSE q[a + k]) /\ s[a] \in Node
    OBVIOUS
  <2>1. s[a] = IF a <= p THEN q[a] ELSE q[a + k]
    BY <1>3
  <2>2. a \in 1 .. l /\ a + k \in 1 .. l
    BY <1>1, <1>2
  <2>3. q[a] \in Node /\ q[a + k] \in Node
    BY <1>1, <2>2
  <2>. QED  BY <2>1, <2>3
<1>5. s \in Seq(Node) /\ Len(s) = m
  <2>1. s \in [1 .. m -> Node]
    BY <1>3, <1>4
  <2>. QED  BY <1>2, <2>1
<1>. QED  BY <1>1, <1>2, <1>4, <1>5 DEF IsCut

CutsMore(s, q, p, k, n) ==
  s \in Seq(Node) /\ p \in 0 .. Len(s) - 1 /\ Place(s, p + 1) = n /\ RemoveAt(s, p) = Cut(q, p, k + 1)

LEMMA CutMore ==
  ASSUME NEW q, q \in Seq(Node), NEW p, p \in Nat, NEW k, k \in Nat, p + k < Len(q), NEW s, s = Cut(q, p, k),
         NEW n, n = q[p + (k + 1)]
  PROVE  CutsMore(s, q, p, k, n)
<1>1. Len(q) \in Nat /\ p + k <= Len(q)
  OBVIOUS
<1>2. /\ s \in Seq(Node) /\ Len(s) = Len(q) - k /\ Len(s) \in Nat
      /\ \A a \in 1 .. Len(s) : s[a] = IF a <= p THEN q[a] ELSE q[a + k]
  <2>1. IsCut(s, q, p, k)
    BY <1>1, CutIs
  <2>. QED  BY <2>1 DEF IsCut
<1>3. p \in 0 .. Len(s) - 1
  BY <1>1, <1>2
<1>4. Place(s, p + 1) = q[p + (k + 1)]
  <2>1. p + 1 # 0 /\ p + 1 \in 1 .. Len(s) /\ ~(p + 1 <= p) /\ (p + 1) + k = p + (k + 1)
    BY <1>1, <1>2
  <2>2. s[p + 1] = q[(p + 1) + k]
    BY <1>2, <2>1
  <2>. QED  BY <2>1, <2>2 DEF Place
<1>5. RemoveAt(s, p) = Cut(q, p, k + 1)
  <2>1. PICK x, y : x = RemoveAt(s, p) /\ y = Cut(q, p, k + 1)
    OBVIOUS
  <2>2. PICK m : m = Len(s) - 1
    OBVIOUS
  <2>3. m = Len(q) - (k + 1) /\ m \in Nat
    BY <1>1, <1>2, <2>2
  <2>4. x = [a \in 1 .. m |-> IF a <= p THEN s[a] ELSE s[a + 1]]
    BY <2>1, <2>2 DEF RemoveAt
  <2>5. y = [a \in 1 .. m |-> IF a <= p THEN q[a] ELSE q[a + (k + 1)]]
    BY <2>1, <2>3 DEF Cut
  <2>6. ASSUME NEW a \in 1 .. m PROVE x[a] = y[a]
    <3>1. a \in 1 .. Len(s) /\ a + 1 \in 1 .. Len(s) /\ (a + 1) + k = a + (k + 1)
      BY <1>2, <2>2
    <3>2. CASE a <= p
      BY <1>2, <2>4, <2>5, <3>1, <3>2
    <3>3. CASE ~(a <= p)
      <4>1. ~(a + 1 <= p)
        BY <3>3
      <4>2. s[a + 1] = q[(a + 1) + k]
        BY <1>2, <3>1, <4>1
      <4>3. x[a] = s[a + 1] /\ y[a] = q[a + (k + 1)]
        BY <2>4, <2>5, <3>3
      <4>. QED  BY <3>1, <4>2, <4>3
    <3>. QED  BY <3>2, <3>3
  <2>7. x = y
    <3>1. x = [a \in 1 .. m |-> x[a]] /\ y = [a \in 1 .. m |-> y[a]]
      BY <2>4, <2>5
    <3>. QED  BY <2>6, <3>1
  <2>. QED  BY <2>1, <2>7
<1>. QED  BY <1>2, <1>3, <1>4, <1>5 DEF CutsMore

(* What the search found is still before the range.                        *)
LEMMA GuidesStay ==
  ASSUME NEW d, NEW q, q \in Seq(Node), Injective(q), NEW p, p \in Nat, NEW k, k \in Nat, p + k <= Len(q),
         NEW path, NEW high, high \in Nat, Guides(path, q, Heights(d), p, high), NEW low, low \in Nat, low <= high,
         NEW s, s = Cut(q, p, k), NEW e, e = Emptied(d, q, p, k)
  PROVE  Guides(path, s, Heights(e), p, low)
<1>1. Len(q) \in Nat
  OBVIOUS
<1>2. /\ s \in Seq(Node) /\ Len(s) = Len(q) - k /\ Len(s) \in Nat
      /\ \A a \in 1 .. Len(s) : s[a] = IF a <= p THEN q[a] ELSE q[a + k]
  <2>1. IsCut(s, q, p, k)
    BY CutIs
  <2>. QED  BY <2>1 DEF IsCut
<1>3. \A a \in 1 .. p : a \in 1 .. Len(q) /\ a \in 1 .. Len(s) /\ s[a] = q[a] /\ q[a] \in Node
  <2>. SUFFICES ASSUME NEW a \in 1 .. p
                PROVE  a \in 1 .. Len(q) /\ a \in 1 .. Len(s) /\ s[a] = q[a] /\ q[a] \in Node
    OBVIOUS
  <2>1. a \in 1 .. Len(q) /\ a \in 1 .. Len(s) /\ a <= p
    BY <1>1, <1>2
  <2>2. q[a] \in Node
    BY <2>1
  <2>. QED  BY <1>2, <2>1, <2>2
<1>4. \A a \in 1 .. p : Heights(e)[q[a]] = Heights(d)[q[a]]
  <2>. SUFFICES ASSUME NEW a \in 1 .. p PROVE Heights(e)[q[a]] = Heights(d)[q[a]]
    OBVIOUS
  <2>1. ASSUME NEW b \in p + 1 .. p + k, q[b] = q[a] PROVE FALSE
    <3>1. b \in 1 .. Len(q) /\ a \in 1 .. Len(q) /\ a # b
      BY <1>1
    <3>. QED  BY <2>1, <3>1 DEF Injective
  <2>2. q[a] \in Node /\ e[q[a]] = d[q[a]]
    BY <1>3, <2>1 DEF Emptied
  <2>. QED  BY <2>2 DEF Heights
<1>5. \A i : \A a \in 0 .. p : Reaches(s, Heights(e), i, a) <=> Reaches(q, Heights(d), i, a)
  <2>. SUFFICES ASSUME NEW i, NEW a \in 0 .. p
                PROVE  Reaches(s, Heights(e), i, a) <=> Reaches(q, Heights(d), i, a)
    OBVIOUS
  <2>1. CASE a = 0
    BY <2>1 DEF Reaches
  <2>2. CASE a # 0
    <3>1. a \in 1 .. p
      BY <2>2
    <3>. QED  BY <1>3, <1>4, <2>2, <3>1 DEF Reaches
  <2>. QED  BY <2>1, <2>2
<1>. SUFFICES ASSUME NEW i \in 0 .. low PROVE Ends(path[i], s, Heights(e), i, p)
  BY DEF Guides
<1>6. i \in 0 .. high
  OBVIOUS
<1>7. PICK x : LastOn(q, Heights(d), i, p, x) /\ path[i] = [node |-> Place(q, x), rank |-> x]
  BY <1>6 DEF Guides, Ends
<1>8. x \in 0 .. p /\ Reaches(q, Heights(d), i, x) /\ \A c \in x + 1 .. p : ~Reaches(q, Heights(d), i, c)
  BY <1>7 DEF LastOn
<1>9. LastOn(s, Heights(e), i, p, x)
  <2>1. \A c \in x + 1 .. p : c \in 0 .. p
    BY <1>8
  <2>. QED  BY <1>5, <1>8, <2>1 DEF LastOn
<1>10. Place(s, x) = Place(q, x)
  <2>1. CASE x = 0
    BY <2>1 DEF Place
  <2>2. CASE x # 0
    <3>1. x \in 1 .. p
      BY <1>8, <2>2
    <3>. QED  BY <1>3, <2>2, <3>1 DEF Place
  <2>. QED  BY <2>1, <2>2
<1>. QED  BY <1>7, <1>9, <1>10 DEF Ends

(* The turns of the loop of dmbSkipListRemoveByScore.                      *)
Turns(turn, ns, path, l) ==
  /\ turn[0] = sl
  /\ \A k \in 1 .. l : turn[k] = Freed(removeNode(turn[k - 1], ns[k], path), ns[k])

LEMMA TurnsHold ==
  ASSUME NEW q, Holds(sl, data, q), NEW p, p \in Nat, NEW l, l \in Nat, p + l <= Len(q), NEW ns, IsSlice(ns, q, p, l),
         NEW path, Guides(path, q, Heights(data), p, sl.level), NEW turn, Turns(turn, ns, path, l)
  PROVE  Holds(turn[l], Emptied(data, q, p, l), Cut(q, p, l))
<1>1. q \in Seq(Node) /\ Len(q) \in Nat /\ Injective(q) /\ sl.level \in Nat /\ sl \in Lists
  BY SkipListAssumption DEF Holds, Built, Ordered, Lists
<1>2. \A k \in 1 .. l : ns[k] = q[p + k]
  BY DEF IsSlice
<1>. DEFINE Inv(k) == Holds(turn[k], Emptied(data, q, p, k), Cut(q, p, k)) /\ turn[k].level <= sl.level
            T == {k \in Nat : k <= l => Inv(k)}
<1>3. 0 \in T
  <2>1. PICK s, e : s = Cut(q, p, 0) /\ e = Emptied(data, q, p, 0)
    OBVIOUS
  <2>2. s = q
    <3>1. s = [a \in 1 .. Len(q) |-> q[a]]
      <4>1. s = [a \in 1 .. Len(q) - 0 |-> IF a <= p THEN q[a] ELSE q[a + 0]]
        BY <2>1 DEF Cut
      <4>2. Len(q) - 0 = Len(q) /\ \A a \in 1 .. Len(q) : a + 0 = a
        BY <1>1
      <4>. QED  BY <4>1, <4>2
    <3>2. q = [a \in 1 .. Len(q) |-> q[a]]
      BY <1>1
    <3>. QED  BY <3>1, <3>2
  <2>3. e = data
    <3>1. data = [m \in Node |-> data[m]]
      BY DEF Holds
    <3>2. \A a \in p + 1 .. p + 0 : FALSE
      OBVIOUS
    <3>3. e = [m \in Node |-> data[m]]
      BY <2>1, <3>2 DEF Emptied
    <3>. QED  BY <3>1, <3>3
  <2>4. turn[0] = sl
    BY DEF Turns
  <2>5. Inv(0)
    BY <1>1, <2>1, <2>2, <2>3, <2>4
  <2>. QED  BY <2>5
<1>4. ASSUME NEW k \in T PROVE k + 1 \in T
  <2>. SUFFICES ASSUME k + 1 <= l PROVE Inv(k + 1)
    OBVIOUS
  <2>1. k \in Nat /\ k <= l /\ p + k < Len(q) /\ p + k <= Len(q) /\ k + 1 \in 1 .. l /\ (k + 1) - 1 = k
    BY <1>1
  <2>2. PICK r, t, n, d, s : /\ r = turn[k] /\ t = turn[k + 1] /\ n = ns[k + 1] /\ d = Emptied(data, q, p, k)
                             /\ s = Cut(q, p, k)
    OBVIOUS
  <2>3. Holds(r, d, s) /\ r.level <= sl.level
    BY <1>4, <2>1, <2>2
  <2>4. r.level \in Nat
    BY <2>3, SkipListAssumption DEF Holds, Built, Ordered, Lists
  <2>5. t = Freed(removeNode(r, n, path), n)
    <3>1. turn[k + 1] = Freed(removeNode(turn[(k + 1) - 1], ns[k + 1], path), ns[k + 1])
      BY <2>1 DEF Turns
    <3>. QED  BY <2>1, <2>2, <3>1
  <2>6. n = q[p + (k + 1)]
    BY <1>2, <2>1, <2>2
  <2>7. /\ s \in Seq(Node) /\ p \in 0 .. Len(s) - 1
        /\ Place(s, p + 1) = n /\ RemoveAt(s, p) = Cut(q, p, k + 1)
    <3>1. CutsMore(s, q, p, k, n)
      BY <1>1, <2>1, <2>2, <2>6, CutMore
    <3>. QED  BY <3>1 DEF CutsMore
  <2>8. Guides(path, s, Heights(d), p, r.level)
    <3>1. PICK low, high : low = r.level /\ high = sl.level
      OBVIOUS
    <3>2. Guides(path, q, Heights(data), p, high) /\ low \in Nat /\ high \in Nat /\ low <= high
      BY <1>1, <2>3, <2>4, <3>1
    <3>3. Guides(path, s, Heights(d), p, low)
      BY <1>1, <2>1, <2>2, <3>2, GuidesStay
    <3>. QED  BY <3>1, <3>3
  <2>9. Holds(t, [d EXCEPT ![n] = NULL], RemoveAt(s, p))
    BY <2>3, <2>5, <2>7, <2>8, RemoveHolds
  <2>10. [d EXCEPT ![n] = NULL] = Emptied(data, q, p, k + 1)
    <3>1. PICK e, f : e = [d EXCEPT ![n] = NULL] /\ f = Emptied(data, q, p, k + 1)
      OBVIOUS
    <3>2. \A m \in Node : d[m] = IF \E a \in p + 1 .. p + k : q[a] = m THEN NULL ELSE data[m]
      BY <2>2 DEF Emptied
    <3>3. \A m \in Node : f[m] = IF \E a \in p + 1 .. p + (k + 1) : q[a] = m THEN NULL ELSE data[m]
      BY <3>1 DEF Emptied
    <3>4. d = [m \in Node |-> d[m]] /\ f = [m \in Node |-> f[m]]
      BY <2>2, <3>1 DEF Emptied
    <3>5. e = [m \in Node |-> e[m]] /\ \A m \in Node : e[m] = IF m = n THEN NULL ELSE d[m]
      BY <3>1, <3>4
    <3>6. ASSUME NEW m \in Node PROVE e[m] = f[m]
      <4>1. (\E a \in p + 1 .. p + (k + 1) : q[a] = m) <=> m = n \/ \E a \in p + 1 .. p + k : q[a] = m
        <5>1. p + (k + 1) \in p + 1 .. p + (k + 1) /\ \A a \in p + 1 .. p + k : a \in p + 1 .. p + (k + 1)
          BY <2>1
        <5>2. \A a \in p + 1 .. p + (k + 1) : a = p + (k + 1) \/ a \in p + 1 .. p + k
          BY <2>1
        <5>. QED  BY <2>6, <5>1, <5>2
      <4>. QED  BY <3>2, <3>3, <3>5, <4>1
    <3>7. e = f
      BY <3>4, <3>5, <3>6
    <3>. QED  BY <3>1, <3>7
  <2>11. t.level <= sl.level
    <3>1. RemoveSets(t, r, n, path)
      <4>1. PICK ht : ht = Heights(d)
        OBVIOUS
      <4>2. Built(r, s, ht) /\ Guides(path, s, ht, p, r.level)
        BY <2>3, <2>8, <4>1 DEF Holds
      <4>. QED  BY <2>5, <2>7, <4>2, RemoveDoes
    <3>2. t.level <= r.level /\ t.level \in Nat
      BY <3>1, SkipListAssumption DEF RemoveSets, Lists
    <3>. QED  BY <1>1, <2>3, <2>4, <3>2
  <2>12. Holds(t, Emptied(data, q, p, k + 1), Cut(q, p, k + 1))
    BY <2>7, <2>9, <2>10
  <2>. QED  BY <2>2, <2>11, <2>12
<1>5. T = Nat
  <2>1. T \in SUBSET Nat
    OBVIOUS
  <2>. HIDE DEF T
  <2>. QED  BY <1>3, <1>4, <2>1, Induction
<1>6. l \in T /\ l <= l
  BY <1>5
<1>. QED  BY <1>6

(* What the recursive definition of these turns defines.                   *)
TurnsAre(f, ns, path, l) ==
  f = [k \in 0 .. l |-> IF k = 0 THEN sl ELSE Freed(removeNode(f[k - 1], ns[k], path), ns[k])]

LEMMA TurnsExist ==
  ASSUME NEW ns, NEW path, NEW l, l \in Nat
  PROVE  \E f : TurnsAre(f, ns, path, l)
<1>. DEFINE Turn(r, k) == Freed(removeNode(r, ns[k], path), ns[k])
            F(f, m) == f = [k \in 0 .. m |-> IF k = 0 THEN sl ELSE Turn(f[k - 1], k)]
            T == {m \in Nat : \E f : F(f, m)}
<1>. HIDE DEF Turn
<1>1. 0 \in T
  <2>1. PICK f : f = [k \in 0 .. 0 |-> sl]
    OBVIOUS
  <2>2. \A k \in 0 .. 0 : k = 0
    OBVIOUS
  <2>3. F(f, 0)
    BY <2>1, <2>2
  <2>. QED  BY <2>3
<1>2. ASSUME NEW m \in T PROVE m + 1 \in T
  <2>1. PICK f : F(f, m)
    OBVIOUS
  <2>2. PICK g : g = [k \in 0 .. m + 1 |-> IF k = m + 1 THEN Turn(f[m], m + 1) ELSE f[k]]
    OBVIOUS
  <2>3. ASSUME NEW k \in 0 .. m + 1 PROVE g[k] = IF k = 0 THEN sl ELSE Turn(g[k - 1], k)
    <3>1. CASE k = m + 1
      <4>1. k # 0 /\ k - 1 = m /\ m \in 0 .. m + 1 /\ m # m + 1
        BY <3>1
      <4>2. g[m] = f[m]
        BY <2>2, <4>1
      <4>. QED  BY <2>2, <3>1, <4>1, <4>2
    <3>2. CASE k # m + 1
      <4>1. k \in 0 .. m
        BY <3>2
      <4>2. g[k] = f[k]
        BY <2>2, <3>2
      <4>3. f[k] = IF k = 0 THEN sl ELSE Turn(f[k - 1], k)
        BY <2>1, <4>1
      <4>4. k # 0 => g[k - 1] = f[k - 1]
        <5>1. k # 0 => k - 1 \in 0 .. m + 1 /\ k - 1 # m + 1
          BY <4>1
        <5>. QED  BY <2>2, <5>1
      <4>. QED  BY <4>2, <4>3, <4>4
    <3>. QED  BY <3>1, <3>2
  <2>4. g = [k \in 0 .. m + 1 |-> g[k]]
    BY <2>2
  <2>5. F(g, m + 1)
    BY <2>3, <2>4, Zenon
  <2>. QED  BY <2>5
<1>3. T = Nat
  <2>1. T \in SUBSET Nat
    OBVIOUS
  <2>. HIDE DEF T
  <2>. QED  BY <1>1, <1>2, <2>1, Induction
<1>4. PICK f : F(f, l)
  BY <1>3
<1>5. TurnsAre(f, ns, path, l)
  BY <1>4, Zenon DEF TurnsAre, Turn
<1>. QED  BY <1>5

LEMMA RemoveByScoreDoes ==
  ASSUME NEW q, Holds(sl, data, q), NEW start, start \in Score, NEW end, end \in Score,
         dmbSkipListRemoveByScore(start, end), NEW p, Splits(q, LessScore(start), p),
         NEW u, Splits(q, NotAbove(end), u)
  PROVE  /\ Holds(sl', data', Cut(q, p, Over(u, p))) /\ data' = Emptied(data, q, p, Over(u, p))
         /\ last' = [op |-> "remove range", args |-> <<start, end>>, ret |-> Over(u, p)]
<1>1. PICK ht : ht = Heights(data)
  OBVIOUS
<1>2. Built(sl, q, ht) /\ q \in Seq(Node) /\ Len(q) \in Nat /\ p \in 0 .. Len(q) /\ u \in 0 .. Len(q) /\ p \in Nat
  BY <1>1 DEF Holds, Built, Ordered, Splits
<1>. DEFINE F(f, path, ns) == f = [k \in 0 .. Len(ns) |->
                                IF k = 0 THEN sl ELSE Freed(removeNode(f[k - 1], ns[k], path), ns[k])]
            E(ns) == [n \in Node |-> IF n \in Seqs!ToSet(ns) THEN NULL ELSE data[n]]
            The(path, ns) == CHOOSE f : F(f, path, ns)
            C(path) == Chain(Following(path), NotAbove(end))
            R(ns) == [op |-> "remove range", args |-> <<start, end>>, ret |-> Len(ns)]
            S == Search(LessScore(start))
<1>3. sl' = The(S, C(S))[Len(C(S))] /\ data' = E(C(S)) /\ last' = R(C(S))
  BY Zenon DEF dmbSkipListRemoveByScore, Returned
<1>4. PICK path, ns, turn : /\ path = S /\ ns = C(path) /\ turn = The(path, ns)
                            /\ sl' = turn[Len(ns)] /\ data' = E(ns) /\ last' = R(ns)
  <2>. HIDE DEF S, C, The, E, R
  <2>. QED  BY <1>3, Zenon
<1>5. PICK l : l = Over(u, p)
  OBVIOUS
<1>6. l \in Nat /\ p + l <= Len(q)
  BY <1>2, <1>5 DEF Over
<1>7. path = Search(LessScore(start))
  BY <1>4
<1>8. Guides(path, q, ht, p, sl.level)
  BY <1>2, <1>7, SearchEnds
<1>9. Following(path) = Place(q, p + 1)
  BY <1>2, <1>7, FollowingIs
<1>10. IsSlice(ns, q, p, l)
  <2>1. PICK taken : taken = NotAbove(end)
    OBVIOUS
  <2>2. taken \subseteq Node /\ Splits(q, taken, u)
    BY <2>1 DEF NotAbove, Used
  <2>3. ns = Chain(Place(q, p + 1), taken)
    BY <1>4, <1>9, <2>1
  <2>. QED  BY <1>2, <1>5, <2>2, <2>3, ChainIs
<1>11. ns \in Seq(Node) /\ Len(ns) = l /\ \A k \in 1 .. l : ns[k] = q[p + k]
  BY <1>10 DEF IsSlice
<1>12. Turns(turn, ns, path, l)
  <2>1. PICK f : TurnsAre(f, ns, path, l)
    BY <1>6, TurnsExist
  <2>2. F(f, path, ns)
    BY <1>11, <2>1, Zenon DEF TurnsAre
  <2>3. F(turn, path, ns)
    <3>. HIDE DEF F
    <3>. QED  BY <1>4, <2>2
  <2>4. \A k \in 0 .. l : turn[k] = IF k = 0 THEN sl ELSE Freed(removeNode(turn[k - 1], ns[k], path), ns[k])
    BY <1>11, <2>3
  <2>5. 0 \in 0 .. l /\ \A k \in 1 .. l : k \in 0 .. l /\ k # 0
    BY <1>6
  <2>6. turn[0] = sl
    BY <2>4, <2>5
  <2>7. \A k \in 1 .. l : turn[k] = Freed(removeNode(turn[k - 1], ns[k], path), ns[k])
    BY <2>4, <2>5
  <2>. QED  BY <2>6, <2>7 DEF Turns
<1>13. Holds(turn[l], Emptied(data, q, p, l), Cut(q, p, l))
  <2>1. Guides(path, q, Heights(data), p, sl.level)
    BY <1>1, <1>8
  <2>. QED  BY <1>2, <1>6, <1>10, <1>12, <2>1, TurnsHold
<1>14. E(ns) = Emptied(data, q, p, l)
  <2>1. ASSUME NEW n \in Node PROVE n \in Seqs!ToSet(ns) <=> \E a \in p + 1 .. p + l : q[a] = n
    <3>1. n \in Seqs!ToSet(ns) <=> \E k \in 1 .. l : ns[k] = n
      <4>1. DOMAIN ns = 1 .. l
        BY <1>11
      <4>2. Seqs!ToSet(ns) = {ns[k] : k \in 1 .. l}
        BY <4>1 DEF Seqs!ToSet
      <4>. QED  BY <4>2
    <3>2. \A k \in 1 .. l : p + k \in p + 1 .. p + l
      BY <1>2, <1>6
    <3>3. \A a \in p + 1 .. p + l : a - p \in 1 .. l /\ p + (a - p) = a
      BY <1>2, <1>6
    <3>4. ASSUME NEW a \in p + 1 .. p + l, q[a] = n PROVE \E k \in 1 .. l : ns[k] = n
      <4>1. a - p \in 1 .. l /\ ns[a - p] = q[p + (a - p)]
        BY <1>11, <3>3
      <4>. QED  BY <3>3, <3>4, <4>1
    <3>. QED  BY <1>11, <3>1, <3>2, <3>4
  <2>. QED  BY <2>1 DEF Emptied
<1>15. sl' = turn[l] /\ data' = Emptied(data, q, p, l) /\ last' = [op |-> "remove range", args |-> <<start, end>>, ret |-> l]
  BY <1>4, <1>11, <1>14
<1>. QED  BY <1>5, <1>13, <1>15

LEMMA EmptyHolds ==
  ASSUME NEW r, NEW d, r \in Lists, r.len = 0, \A i \in Levels : r.next[Header][i] = NULL /\ r.step[Header][i] = 0,
         \A n \in Node, i \in Levels : r.next[n][i] = NULL, d = [n \in Node |-> NULL]
  PROVE  Holds(r, d, <<>>)
<1>1. PICK q, ht : q = <<>> /\ ht = Heights(d)
  OBVIOUS
<1>2. q \in Seq(Node) /\ Len(q) = 0 /\ \A a \in 1 .. Len(q) : FALSE
  BY <1>1
<1>3. \A n \in Node : ht[n] = 0
  BY <1>1 DEF Heights
<1>4. ht = [n \in Node |-> ht[n]] /\ r.level \in Nat
  BY <1>1, SkipListAssumption DEF Heights, Lists
<1>5. Ordered(r, q)
  BY <1>2 DEF Ordered, Injective
<1>6. HeightsOf(q, ht, r.level)
  <2>1. ht \in [Node -> 0 .. r.level]
    BY <1>3, <1>4
  <2>. QED  BY <1>2, <1>3, <2>1 DEF HeightsOf
<1>7. Leads(r, q, ht)
  <2>. SUFFICES ASSUME NEW i \in Levels, NEW a \in 0 .. Len(q)
                PROVE  \E b : NextOn(q, ht, i, a, b) /\ Joined(r, q, i, a, b)
    BY DEF Leads
  <2>1. a = 0 /\ Place(q, a) = Header /\ Place(q, 1) = NULL /\ Far(q, a, 1) = 0
    <3>0. PICK l : l = Len(q)
      OBVIOUS
    <3>a. l = 0
      BY <1>2, <3>0
    <3>b. a \in 0 .. 0
      BY <3>a, <3>0
    <3>c. a = 0 /\ 1 # 0 /\ 1 \notin 1 .. 0 /\ 1 > 0 /\ 0 - 0 = 0
      BY <3>b
    <3>1. a = 0 /\ 1 # 0 /\ 1 \notin 1 .. Len(q) /\ 1 > Len(q) /\ Len(q) - a = 0
      BY <3>0, <3>a, <3>c, Zenon
    <3>2. Place(q, a) = Header /\ Place(q, 1) = NULL
      BY <3>1, Zenon DEF Place
    <3>. QED  BY <3>1, <3>2 DEF Far
  <2>2. NextOn(q, ht, i, a, 1)
    BY <1>2, <2>1 DEF NextOn
  <2>3. Joined(r, q, i, a, 1)
    BY <2>1 DEF Joined
  <2>. QED  BY <2>2, <2>3
<1>8. LeadsNowhere(r, ht) /\ LeadsBack(r, q) /\ Sorted(q, d)
  BY <1>2 DEF LeadsNowhere, LeadsBack, Sorted
<1>9. d \in [Node -> Records \cup {NULL}]
  OBVIOUS
<1>10. Holds(r, d, q)
  BY <1>1, <1>5, <1>6, <1>7, <1>8, <1>9 DEF Holds, Built
<1>. QED  BY <1>1, <1>10

(* What dmbSkipListRemoveOne removes: the first node that is not before    *)
(* the element, if it has that score and value.                            *)
Finds(d, q, p, s, v) == p < Len(q) /\ d[q[p + 1]].score = s /\ d[q[p + 1]].value = v

LEMMA RemoveOneDoes ==
  ASSUME NEW q, Holds(sl, data, q), NEW s, s \in Score, NEW v, v \in Value, dmbSkipListRemoveOne(s, v),
         NEW p, Splits(q, LessElem(s, v), p)
  PROVE  /\ last' = [op |-> "remove", args |-> <<s, v>>, ret |-> Finds(data, q, p, s, v)]
         /\ Finds(data, q, p, s, v) =>
              Holds(sl', data', RemoveAt(q, p)) /\ data' = [data EXCEPT ![q[p + 1]] = NULL]
         /\ ~Finds(data, q, p, s, v) => sl' = sl /\ data' = data
<1>1. PICK ht : ht = Heights(data)
  OBVIOUS
<1>2. Built(sl, q, ht) /\ q \in Seq(Node) /\ Len(q) \in Nat /\ p \in 0 .. Len(q)
  BY <1>1 DEF Holds, Built, Ordered, Splits
<1>. DEFINE S == Search(LessElem(s, v))
            N(path) == Following(path)
            Hit(n) == n # NULL /\ data[n].score = s /\ data[n].value = v
            L(n, path) == Freed(removeNode(sl, n, path), n)
<1>3. /\ IF Hit(N(S)) THEN sl' = L(N(S), S) /\ data' = [data EXCEPT ![N(S)] = NULL]
         ELSE UNCHANGED <<sl, data>>
      /\ last' = [op |-> "remove", args |-> <<s, v>>, ret |-> Hit(N(S))]
  BY Zenon DEF dmbSkipListRemoveOne, Returned
<1>4. PICK path, n : /\ path = S /\ n = N(path)
                     /\ IF Hit(n) THEN sl' = L(n, path) /\ data' = [data EXCEPT ![n] = NULL]
                        ELSE UNCHANGED <<sl, data>>
                     /\ last' = [op |-> "remove", args |-> <<s, v>>, ret |-> Hit(n)]
  <2>. HIDE DEF S, N, Hit, L
  <2>. QED  BY <1>3, Zenon
<1>5. path = Search(LessElem(s, v))
  BY <1>4
<1>6. Guides(path, q, ht, p, sl.level)
  BY <1>2, <1>5, SearchEnds
<1>7. n = Place(q, p + 1)
  <2>1. Following(path) = Place(q, p + 1)
    BY <1>2, <1>5, FollowingIs
  <2>. QED  BY <1>4, <2>1
<1>8. p < Len(q) => n = q[p + 1] /\ n # NULL /\ p \in 0 .. Len(q) - 1
  <2>1. ASSUME p < Len(q) PROVE n = q[p + 1] /\ n # NULL /\ p \in 0 .. Len(q) - 1
    <3>1. p + 1 \in 1 .. Len(q) /\ p \in 0 .. Len(q) - 1
      BY <1>2, <2>1
    <3>2. Place(q, p + 1) = q[p + 1] /\ q[p + 1] # NULL
      BY <1>2, <3>1, PlaceIs
    <3>. QED  BY <1>7, <3>1, <3>2
  <2>. QED  BY <2>1
<1>9. ~(p < Len(q)) => n = NULL
  <2>1. ASSUME ~(p < Len(q)) PROVE n = NULL
    <3>1. p = Len(q)
      BY <1>2, <2>1
    <3>. QED  BY <1>2, <1>7, <3>1, PlaceIs
  <2>. QED  BY <2>1
<1>10. Hit(n) <=> Finds(data, q, p, s, v)
  BY <1>8, <1>9 DEF Finds
<1>11. Hit(n) = Finds(data, q, p, s, v)
  <2>1. Hit(n) \in BOOLEAN /\ Finds(data, q, p, s, v) \in BOOLEAN
    BY DEF Finds
  <2>. QED  BY <1>10, <2>1
<1>12. last' = [op |-> "remove", args |-> <<s, v>>, ret |-> Finds(data, q, p, s, v)]
  <2>. HIDE DEF Hit
  <2>. QED  BY <1>4, <1>11
<1>13. ASSUME Finds(data, q, p, s, v)
       PROVE  Holds(sl', data', RemoveAt(q, p)) /\ data' = [data EXCEPT ![q[p + 1]] = NULL]
  <2>1. Hit(n) /\ p < Len(q)
    BY <1>10, <1>13 DEF Finds
  <2>2. PICK t : t = sl'
    OBVIOUS
  <2>3. t = Freed(removeNode(sl, n, path), n) /\ data' = [data EXCEPT ![n] = NULL]
    BY <1>4, <2>1, <2>2
  <2>4. Guides(path, q, Heights(data), p, sl.level)
    BY <1>1, <1>6
  <2>5. Place(q, p + 1) = n /\ p \in 0 .. Len(q) - 1
    BY <1>7, <1>8, <2>1
  <2>6. Holds(t, [data EXCEPT ![n] = NULL], RemoveAt(q, p))
    <3>1. PICK r, d : r = sl /\ d = data
      OBVIOUS
    <3>2. Holds(r, d, q) /\ Guides(path, q, Heights(d), p, r.level) /\ t = Freed(removeNode(r, n, path), n)
      BY <2>3, <2>4, <3>1
    <3>3. Holds(t, [d EXCEPT ![n] = NULL], RemoveAt(q, p))
      BY <2>5, <3>2, RemoveHolds
    <3>. QED  BY <3>1, <3>3
  <2>. QED  BY <1>8, <2>1, <2>2, <2>3, <2>6
<1>14. ~Finds(data, q, p, s, v) => sl' = sl /\ data' = data
  BY <1>4, <1>10
<1>. QED  BY <1>12, <1>13, <1>14

LEMMA InsertFailsHolds ==
  ASSUME NEW q, Holds(sl, data, q), NEW s, NEW v, NEW height, height \in 1 .. MaxLevel, InsertFails(s, v, height)
  PROVE  Holds(sl', data', q)
<1>1. PICK r, ht : r = Raised(height) /\ ht = Heights(data)
  OBVIOUS
<1>2. sl' = r /\ data' = data
  BY <1>1 DEF InsertFails
<1>3. Built(sl, q, ht)
  BY <1>1 DEF Holds
<1>4. Built(r, q, ht)
  BY <1>1, <1>3, RaisedBuilt
<1>5. Holds(r, data, q)
  BY <1>1, <1>4 DEF Holds
<1>. QED  BY <1>2, <1>5

LEMMA RemoveAllHolds ==
  ASSUME NEW q, Holds(sl, data, q), dmbSkipListRemoveAll
  PROVE  Holds(sl', data', <<>>)
<1>1. PICK t, d : t = sl' /\ d = data'
  OBVIOUS
<1>2. d = [n \in Node |-> NULL]
  BY <1>1 DEF dmbSkipListRemoveAll
<1>3. t = [sl EXCEPT !.len = 0, !.next = [m \in Nodes |-> Cleared(NULL)],
                     !.step = [m \in Nodes |-> Cleared(0)], !.prev = [m \in Node |-> NULL]]
  BY <1>1, Zenon DEF dmbSkipListRemoveAll, Nodes
<1>4. sl \in Lists
  BY DEF Holds, Built, Ordered
<1>5. /\ t.len = 0 /\ t.level = sl.level /\ t.next = [m \in Nodes |-> Cleared(NULL)]
      /\ t.step = [m \in Nodes |-> Cleared(0)] /\ t.prev = [m \in Node |-> NULL]
  BY <1>3, <1>4 DEF Lists
<1>6. t \in Lists
  <2>1. Cleared(NULL) \in [Levels -> Node \cup {NULL}] /\ Cleared(0) \in [Levels -> Int]
    BY DEF Cleared
  <2>2. t = [level |-> t.level, len |-> t.len, next |-> t.next, step |-> t.step, prev |-> t.prev]
    BY <1>3, <1>4 DEF Lists
  <2>3. t.level \in 0 .. MaxLevel
    BY <1>4, <1>5 DEF Lists
  <2>. QED  BY <1>5, <2>1, <2>2, <2>3 DEF Lists
<1>7. \A i \in Levels : t.next[Header][i] = NULL /\ t.step[Header][i] = 0
  BY <1>5 DEF Cleared, Nodes
<1>8. \A n \in Node, i \in Levels : t.next[n][i] = NULL
  BY <1>5 DEF Cleared, Nodes
<1>9. Holds(t, d, <<>>)
  BY <1>2, <1>5, <1>6, <1>7, <1>8, EmptyHolds
<1>. QED  BY <1>1, <1>9

LEMMA InitHolds ==
  ASSUME SkipInit
  PROVE  Holds(sl, data, <<>>)
<1>1. PICK t, d : t = sl /\ d = data
  OBVIOUS
<1>2. d = [n \in Node |-> NULL]
  BY <1>1 DEF SkipInit
<1>3. t = [level |-> 0, len |-> 0, next |-> [m \in Nodes |-> Cleared(NULL)],
           step |-> [m \in Nodes |-> Cleared(0)], prev |-> [m \in Node |-> NULL]]
  BY <1>1, Zenon DEF SkipInit, Nodes
<1>4. t \in Lists
  <2>1. Cleared(NULL) \in [Levels -> Node \cup {NULL}] /\ Cleared(0) \in [Levels -> Int]
    BY DEF Cleared
  <2>2. 0 \in 0 .. MaxLevel
    BY SkipListAssumption
  <2>. QED  BY <1>3, <2>1, <2>2 DEF Lists
<1>5. \A i \in Levels : t.next[Header][i] = NULL /\ t.step[Header][i] = 0
  BY <1>3 DEF Cleared, Nodes
<1>6. \A n \in Node, i \in Levels : t.next[n][i] = NULL
  BY <1>3 DEF Cleared, Nodes
<1>7. t.len = 0
  BY <1>3
<1>8. Holds(t, d, <<>>)
  BY <1>2, <1>4, <1>5, <1>6, <1>7, EmptyHolds
<1>. QED  BY <1>1, <1>8

(* There is a sequence of nodes that the list stands for.                  *)
SkipInv == \E q : Holds(sl, data, q)

(* The levels, steps and prev of dmbskiplist.c stand for one sorted        *)
(* sequence, whatever is inserted and removed, and in which order.         *)
THEOREM SequenceHeld == SkipSpec => []SkipInv
<1>1. SkipInit => SkipInv
  BY InitHolds DEF SkipInv
<1>2. SkipInv /\ [SkipNext]_skipVars => SkipInv'
  <2>. SUFFICES ASSUME SkipInv, [SkipNext]_skipVars PROVE SkipInv'
    OBVIOUS
  <2>1. PICK q : Holds(sl, data, q)
    BY DEF SkipInv
  <2>2. ASSUME NEW s \in Score, NEW v \in Value, NEW height \in 1 .. MaxLevel, NEW n \in Node,
               dmbSkipListInsert(s, v, height, n)
        PROVE  SkipInv'
    <3>1. PICK p : Splits(q, LessElem(s, v), p)
      BY <2>1, LessElemSplits
    <3>2. Holds(sl', data', InsertAt(q, p, n))
      BY <2>1, <2>2, <3>1, InsertHolds
    <3>. QED  BY <3>2 DEF SkipInv
  <2>3. ASSUME NEW s \in Score, NEW v \in Value, NEW height \in 1 .. MaxLevel, InsertFails(s, v, height)
        PROVE  SkipInv'
    <3>1. Holds(sl', data', q)
      BY <2>1, <2>3, InsertFailsHolds
    <3>. QED  BY <3>1 DEF SkipInv
  <2>4. ASSUME NEW s \in Score, NEW v \in Value, dmbSkipListRemoveOne(s, v) PROVE SkipInv'
    <3>1. PICK p : Splits(q, LessElem(s, v), p)
      BY <2>1, LessElemSplits
    <3>2. CASE Finds(data, q, p, s, v)
      <4>1. Holds(sl', data', RemoveAt(q, p))
        BY <2>1, <2>4, <3>1, <3>2, RemoveOneDoes
      <4>. QED  BY <4>1 DEF SkipInv
    <3>3. CASE ~Finds(data, q, p, s, v)
      <4>1. sl' = sl /\ data' = data
        BY <2>1, <2>4, <3>1, <3>3, RemoveOneDoes
      <4>2. Holds(sl', data', q)
        BY <2>1, <4>1
      <4>. QED  BY <4>2 DEF SkipInv
    <3>. QED  BY <3>2, <3>3
  <2>5. ASSUME NEW start \in Score, NEW end \in Score, dmbSkipListRemoveByScore(start, end) PROVE SkipInv'
    <3>1. PICK p : Splits(q, LessScore(start), p)
      BY <2>1, LessScoreSplits
    <3>2. PICK u : Splits(q, NotAbove(end), u)
      BY <2>1, NotAboveSplits
    <3>3. Holds(sl', data', Cut(q, p, Over(u, p)))
      BY <2>1, <2>5, <3>1, <3>2, RemoveByScoreDoes
    <3>. QED  BY <3>3 DEF SkipInv
  <2>6. ASSUME dmbSkipListRemoveAll PROVE SkipInv'
    <3>1. Holds(sl', data', <<>>)
      BY <2>1, <2>6, RemoveAllHolds
    <3>. QED  BY <3>1 DEF SkipInv
  <2>7. CASE UNCHANGED skipVars
    BY <2>7 DEF SkipInv, skipVars
  <2>. QED  BY <2>2, <2>3, <2>4, <2>5, <2>6, <2>7 DEF SkipNext
<1>. QED  BY <1>1, <1>2, PTL DEF SkipSpec

-----------------------------------------------------------------------------
(* The properties.                                                         *)

(* A slice is the sequence itself if it goes from its first place to its   *)
(* last one, and two slices from and to the same places are one sequence.  *)
LEMMA SliceUnique ==
  ASSUME NEW c, NEW e, NEW q, NEW p, NEW l, l \in Nat, IsSlice(c, q, p, l), IsSlice(e, q, p, l)
  PROVE  c = e
<1>1. /\ c \in Seq(Node) /\ e \in Seq(Node) /\ Len(c) = l /\ Len(e) = l
      /\ \A k \in 1 .. l : c[k] = q[p + k] /\ e[k] = q[p + k]
  BY DEF IsSlice
<1>2. Len(c) = Len(e) /\ \A k \in 1 .. Len(c) : c[k] = e[k]
  BY <1>1
<1>. QED  BY <1>1, <1>2, SeqEqual

LEMMA BackSliceUnique ==
  ASSUME NEW c, NEW e, NEW q, NEW p, NEW l, l \in Nat, IsBackSlice(c, q, p, l), IsBackSlice(e, q, p, l)
  PROVE  c = e
<1>1. /\ c \in Seq(Node) /\ e \in Seq(Node) /\ Len(c) = l /\ Len(e) = l
      /\ \A k \in 1 .. l : c[k] = q[p + 1 - k] /\ e[k] = q[p + 1 - k]
  BY DEF IsBackSlice
<1>2. Len(c) = Len(e) /\ \A k \in 1 .. Len(c) : c[k] = e[k]
  BY <1>1
<1>. QED  BY <1>1, <1>2, SeqEqual

LEMMA WholeSlice ==
  ASSUME NEW q, q \in Seq(Node)
  PROVE  IsSlice(q, q, 0, Len(q))
<1>1. Len(q) \in Nat /\ \A k \in 1 .. Len(q) : q[k] = q[0 + k]
  OBVIOUS
<1>. QED  BY <1>1 DEF IsSlice

LEMMA UsedSplits ==
  ASSUME NEW q, Holds(sl, data, q)
  PROVE  Splits(q, Used, Len(q))
<1>1. Len(q) \in Nat /\ NULL \notin Used /\ \A a \in 1 .. Len(q) : q[a] \in Used
  BY UsedIs
<1>. QED  BY <1>1 DEF Splits

OrderedAs(q) == Order = q

(* The nodes from the first one on are the sequence.                       *)
LEMMA OrderIs ==
  ASSUME NEW q, Holds(sl, data, q)
  PROVE  OrderedAs(q)
<1>1. PICK ht : ht = Heights(data)
  OBVIOUS
<1>2. Built(sl, q, ht) /\ q \in Seq(Node) /\ Len(q) \in Nat /\ 0 \in 0 .. Len(q)
  BY <1>1, UsedIs DEF Holds
<1>3. sl.next[Header][0] = Place(q, 0 + 1)
  <2>1. Place(q, 0) = Header
    BY DEF Place
  <2>. QED  BY <1>2, <2>1, LowestIs
<1>4. PICK c, l : c = Chain(sl.next[Header][0], Used) /\ l = Len(q)
  OBVIOUS
<1>5. Used \subseteq Node /\ Splits(q, Used, Len(q))
  BY UsedIs, UsedSplits
<1>6. IsSlice(Chain(Place(q, 0 + 1), Used), q, 0, Over(Len(q), 0))
  BY <1>2, <1>5, ChainIs
<1>7. IsSlice(c, q, 0, l)
  <2>1. Over(Len(q), 0) = l
    BY <1>2, <1>4 DEF Over
  <2>. QED  BY <1>3, <1>4, <1>6, <2>1, Zenon
<1>8. IsSlice(q, q, 0, l)
  BY <1>2, <1>4, WholeSlice
<1>9. c = q
  BY <1>2, <1>4, <1>7, <1>8, SliceUnique
<1>. QED  BY <1>4, <1>9 DEF Order, OrderedAs

(* The place of a node is one, and the only one.                           *)
LEMMA PlaceFound ==
  ASSUME NEW q, q \in Seq(Node), Injective(q), NEW a, a \in 1 .. Len(q)
  PROVE  (CHOOSE k \in DOMAIN q : q[k] = q[a]) = a
<1>1. DOMAIN q = 1 .. Len(q)
  OBVIOUS
<1>2. \A k \in DOMAIN q : q[k] = q[a] => k = a
  BY <1>1 DEF Injective
<1>. QED  BY <1>1, <1>2

(* The ranks that StepsExact names are the places.                         *)
RankIn(q) == [n \in Node \cup {Header} |-> IF n \in Seqs!ToSet(q)
                                           THEN CHOOSE k \in DOMAIN q : q[k] = n ELSE 0]
RanksIn(rank, q) == \A a \in 0 .. Len(q) : rank[Place(q, a)] = a

LEMMA RankInIs ==
  ASSUME NEW q, q \in Seq(Node), Injective(q), NEW rank, rank = RankIn(q)
  PROVE  RanksIn(rank, q)
<1>. SUFFICES ASSUME NEW a \in 0 .. Len(q) PROVE rank[Place(q, a)] = a
  BY DEF RanksIn
<1>1. Len(q) \in Nat /\ DOMAIN q = 1 .. Len(q)
  OBVIOUS
<1>2. CASE a = 0
  <2>1. Place(q, a) = Header /\ Header \notin Node
    BY <1>2, SkipListAssumption DEF Place
  <2>2. Header \notin Seqs!ToSet(q)
    BY <2>1, <1>1 DEF Seqs!ToSet
  <2>. QED  BY <1>2, <2>1, <2>2 DEF RankIn
<1>3. CASE a # 0
  <2>1. a \in 1 .. Len(q) /\ Place(q, a) = q[a] /\ q[a] \in Node
    BY <1>1, <1>3, PlaceIs
  <2>2. q[a] \in Seqs!ToSet(q)
    BY <1>1, <2>1 DEF Seqs!ToSet
  <2>3. (CHOOSE k \in DOMAIN q : q[k] = q[a]) = a
    BY <2>1, PlaceFound
  <2>4. rank[q[a]] = CHOOSE k \in DOMAIN q : q[k] = q[a]
    BY <2>1, <2>2 DEF RankIn
  <2>. QED  BY <2>1, <2>3, <2>4
<1>. QED  BY <1>2, <1>3

LEMMA HoldsSteps ==
  ASSUME NEW q, Holds(sl, data, q)
  PROVE  StepsExact
<1>1. PICK ht : ht = Heights(data)
  OBVIOUS
<1>2. /\ Built(sl, q, ht) /\ q \in Seq(Node) /\ Len(q) \in Nat /\ sl.len = Len(q) /\ Injective(q)
      /\ sl.level \in 0 .. MaxLevel /\ Leads(sl, q, ht)
  BY <1>1, UsedIs DEF Holds, Built, Ordered, Lists
<1>3. Order = q
  BY OrderIs DEF OrderedAs
<1>4. PICK rank : rank = RankIn(q)
  OBVIOUS
<1>5. RanksIn(rank, q)
  BY <1>2, <1>4, RankInIs
<1>6. ASSUME NEW i \in 0 .. sl.level - 1, NEW n \in Used \cup {Header}, n = Header \/ data[n].height > i
      PROVE  sl.step[n][i] = (IF sl.next[n][i] = NULL THEN sl.len ELSE rank[sl.next[n][i]]) - rank[n]
  <2>1. PICK a \in 0 .. Len(q) : n = Place(q, a) /\ (a # 0 => a \in 1 .. Len(q) /\ n = q[a] /\ n \in Node)
    <3>1. CASE n = Header
      BY <1>2, <3>1, PlaceIs
    <3>2. CASE n \in Used
      <4>1. PICK a \in 1 .. Len(q) : q[a] = n
        BY <3>2, UsedIs
      <4>2. Place(q, a) = q[a] /\ n \in Node
        BY <1>2, <4>1, PlaceIs
      <4>3. a \in 0 .. Len(q)
        BY <1>2, <4>1
      <4>. QED  BY <4>1, <4>2, <4>3
    <3>. QED  BY <3>1, <3>2
  <2>2. i \in Levels /\ i < sl.level
    BY <1>2, SkipListAssumption DEF Levels
  <2>3. Reaches(q, ht, i, a)
    <3>1. ASSUME a # 0 PROVE ht[q[a]] > i
      <4>1. n = q[a] /\ n \in Used /\ n \in Node
        BY <2>1, <3>1, <1>2, SkipListAssumption, UsedIs
      <4>2. ht[n] = data[n].height /\ n # Header
        BY <1>1, <4>1, SkipListAssumption DEF Heights, Used
      <4>. QED  BY <1>6, <4>1, <4>2
    <3>. QED  BY <3>1 DEF Reaches
  <2>4. PICK b : NextOn(q, ht, i, a, b) /\ Joined(sl, q, i, a, b)
    BY <1>2, <2>2, <2>3 DEF Leads
  <2>5. b \in a + 1 .. Len(q) + 1 /\ sl.next[n][i] = Place(q, b) /\ sl.step[n][i] = Far(q, a, b)
    BY <2>1, <2>2, <2>4 DEF NextOn, Joined
  <2>6. rank[n] = a
    BY <1>5, <2>1 DEF RanksIn
  <2>7. CASE b \in 1 .. Len(q)
    <3>1. Place(q, b) # NULL /\ b \in 0 .. Len(q)
      BY <1>2, <2>7, PlaceIs
    <3>2. rank[Place(q, b)] = b
      BY <1>5, <3>1 DEF RanksIn
    <3>3. Far(q, a, b) = b - a
      BY <1>2, <2>7 DEF Far
    <3>. QED  BY <2>5, <2>6, <3>1, <3>2, <3>3
  <2>8. CASE b = Len(q) + 1
    <3>1. Place(q, b) = NULL
      BY <1>2, <2>8, PlaceIs
    <3>3. Far(q, a, b) = Len(q) - a
      BY <1>2, <2>8 DEF Far
    <3>. QED  BY <1>2, <2>5, <2>6, <3>1, <3>3
  <2>9. b \in 1 .. Len(q) \/ b = Len(q) + 1
    BY <1>2, <2>5
  <2>. QED  BY <2>7, <2>8, <2>9
<1>7. \A i \in 0 .. sl.level - 1 : \A n \in Used \cup {Header} :
        (n = Header \/ data[n].height > i) =>
          sl.step[n][i] = (IF sl.next[n][i] = NULL THEN sl.len ELSE rank[sl.next[n][i]]) - rank[n]
  BY <1>6
<1>8. rank = RankIn(Order)
  BY <1>3, <1>4
<1>. QED  BY <1>7, <1>8, ZenonT(60) DEF StepsExact, RankIn

(* Every step is the distance it stands for, on every level of the list.   *)
THEOREM StepsAreDistances == SkipSpec => []StepsExact
<1>1. SkipInv => StepsExact
  BY HoldsSteps DEF SkipInv
<1>. QED  BY <1>1, SequenceHeld, PTL

(* What the recursive definition of Select defines.                        *)
Selecting(u, s, set) ==
  u[0] = <<>> /\ \A n \in 1 .. Len(s) : u[n] = IF s[n] \in set THEN Append(u[n - 1], s[n]) ELSE u[n - 1]
SelectsSo(u, s, set, S) ==
  Selecting(u, s, set) /\ Select(s, set) = u[Len(s)] /\ \A n \in 0 .. Len(s) : u[n] \in Seq(S)

LEMMA SelectRecurs ==
  ASSUME NEW S, NEW s, s \in Seq(S), NEW set
  PROVE  \E u : SelectsSo(u, s, set, S)
<1>. DEFINE F(f) == f = [n \in 0 .. Len(s) |->
                           IF n = 0 THEN <<>>
                           ELSE IF s[n] \in set THEN Append(f[n - 1], s[n]) ELSE f[n - 1]]
<1>1. Len(s) \in Nat /\ <<>> \in Seq(S) /\ \A n \in 1 .. Len(s) : s[n] \in S
  OBVIOUS
<1>2. PICK step : step = [n \in Nat |-> [c \in Seq(S) |->
                            IF n + 1 \in 1 .. Len(s) /\ s[n + 1] \in set THEN Append(c, s[n + 1]) ELSE c]]
  OBVIOUS
<1>3. step \in [Nat -> [Seq(S) -> Seq(S)]]
  <2>1. ASSUME NEW n \in Nat, NEW c \in Seq(S), n + 1 \in 1 .. Len(s) PROVE Append(c, s[n + 1]) \in Seq(S)
    BY <1>1, <2>1
  <2>. QED  BY <1>2, <2>1
<1>4. PICK a : a = <<>> /\ a \in Seq(S)
  BY <1>1
<1>5. PICK g : IsRecursive(g, Seq(S), a, step)
  BY <1>3, <1>4, Recursion
<1>6. g[0] = <<>> /\ \A n \in Nat : g[n] \in Seq(S) /\ g[n + 1] = step[n][g[n]]
  BY <1>4, <1>5 DEF IsRecursive
<1>7. ASSUME NEW n \in 1 .. Len(s) PROVE g[n] = IF s[n] \in set THEN Append(g[n - 1], s[n]) ELSE g[n - 1]
  <2>1. PICK m \in Nat : n = m + 1 /\ n - 1 = m
    <3>1. n - 1 \in Nat /\ n = (n - 1) + 1
      OBVIOUS
    <3>. QED  BY <3>1
  <2>2. g[n] = step[m][g[m]] /\ g[m] \in Seq(S)
    BY <1>6, <2>1
  <2>3. n \in 1 .. Len(s)
    OBVIOUS
  <2>. QED  BY <1>2, <2>1, <2>2, <2>3
<1>8. PICK h : h = [n \in 0 .. Len(s) |-> g[n]]
  OBVIOUS
<1>9. F(h)
  <2>1. ASSUME NEW n \in 0 .. Len(s)
        PROVE  h[n] = IF n = 0 THEN <<>> ELSE IF s[n] \in set THEN Append(h[n - 1], s[n]) ELSE h[n - 1]
    <3>1. n # 0 => n \in 1 .. Len(s) /\ n - 1 \in 0 .. Len(s)
      BY <1>1
    <3>2. h[n] = g[n] /\ (n # 0 => h[n - 1] = g[n - 1])
      BY <1>8, <3>1
    <3>. QED  BY <1>6, <1>7, <3>1, <3>2
  <2>2. h = [n \in 0 .. Len(s) |-> h[n]]
    BY <1>8
  <2>. QED  BY <2>1, <2>2, Zenon
<1>10. PICK u : u = CHOOSE f : F(f)
  OBVIOUS
<1>11. F(u)
  <2>. HIDE DEF F
  <2>. QED  BY <1>9, <1>10
<1>12. Select(s, set) = u[Len(s)]
  BY <1>10, Zenon DEF Select
<1>13. Selecting(u, s, set)
  <2>1. 0 \in 0 .. Len(s) /\ \A n \in 1 .. Len(s) : n \in 0 .. Len(s) /\ n # 0
    BY <1>1
  <2>2. \A n \in 0 .. Len(s) : u[n] = IF n = 0 THEN <<>>
                                      ELSE IF s[n] \in set THEN Append(u[n - 1], s[n]) ELSE u[n - 1]
    BY <1>11
  <2>3. u[0] = <<>>
    BY <2>1, <2>2
  <2>4. \A n \in 1 .. Len(s) : u[n] = IF s[n] \in set THEN Append(u[n - 1], s[n]) ELSE u[n - 1]
    BY <2>1, <2>2
  <2>. QED  BY <2>3, <2>4 DEF Selecting
<1>14. \A n \in 0 .. Len(s) : u[n] \in Seq(S)
  <2>1. u[0] = g[0]
    BY <1>6, <1>13 DEF Selecting
  <2>2. ASSUME NEW n \in 1 .. Len(s), u[n - 1] = g[n - 1] PROVE u[n] = g[n]
    BY <1>7, <1>13, <2>2 DEF Selecting
  <2>3. \A n \in 0 .. Len(s) : u[n] = g[n]
    BY <1>1, <2>1, <2>2, Stepwise
  <2>4. 0 .. Len(s) \subseteq Nat
    BY <1>1
  <2>5. ASSUME NEW n \in 0 .. Len(s) PROVE u[n] \in Seq(S)
    <3>1. n \in Nat
      BY <2>4
    <3>2. g[n] \in Seq(S) /\ u[n] = g[n]
      BY <1>6, <2>3, <3>1
    <3>. QED  BY <3>2, Zenon
  <2>. QED  BY <2>5
<1>. QED  BY <1>12, <1>13, <1>14 DEF SelectsSo

(* While nothing is in the set, nothing is selected.                       *)
LEMMA SelectsNone ==
  ASSUME NEW S, NEW s, s \in Seq(S), NEW set, NEW u, SelectsSo(u, s, set, S),
         NEW a, a \in 0 .. Len(s), NEW b, b \in a .. Len(s), \A c \in a + 1 .. b : s[c] \notin set
  PROVE  u[b] = u[a]
<1>. DEFINE T == {k \in Nat : a + k <= b => u[a + k] = u[a]}
<1>1. Len(s) \in Nat /\ a \in Nat /\ b \in Nat
  OBVIOUS
<1>2. 0 \in T
  <2>1. a + 0 = a
    BY <1>1
  <2>. QED  BY <2>1
<1>3. ASSUME NEW k \in T PROVE k + 1 \in T
  <2>. SUFFICES ASSUME a + (k + 1) <= b PROVE u[a + (k + 1)] = u[a]
    BY <1>3
  <2>1. PICK n : n = a + (k + 1)
    OBVIOUS
  <2>2. n \in 1 .. Len(s) /\ n \in a + 1 .. b /\ n - 1 = a + k /\ a + k <= b
    BY <1>1, <2>1
  <2>3. u[n] = u[n - 1]
    BY <2>2 DEF SelectsSo, Selecting
  <2>4. u[a + k] = u[a]
    BY <1>3, <2>2
  <2>. QED  BY <2>1, <2>2, <2>3, <2>4
<1>4. T = Nat
  <2>1. T \in SUBSET Nat
    OBVIOUS
  <2>. HIDE DEF T
  <2>. QED  BY <1>2, <1>3, <2>1, Induction
<1>5. PICK k \in Nat : k = b - a /\ a + k = b
  <2>1. b - a \in Nat /\ a + (b - a) = b
    BY <1>1
  <2>. QED  BY <2>1
<1>6. k \in T
  BY <1>4
<1>. QED  BY <1>1, <1>5, <1>6

(* Going on along the nodes of a level, from a place of the sequence.      *)
IsLevel(f, nx, q, ht, i) ==
  /\ f \in [Node \cup {NULL} -> Seq(Node)] /\ f[NULL] = <<>>
  /\ \A m \in Node : f[m] = <<m>> \o f[nx[m]]
  /\ \A a \in 0 .. Len(q) : Reaches(q, ht, i, a) =>
       \E b : NextOn(q, ht, i, a, b) /\ nx[Place(q, a)] = Place(q, b)
Rest(f, nx, q, ht, i, u, a) == Reaches(q, ht, i, a) => u[a] \o f[nx[Place(q, a)]] = u[Len(q)]

(* It meets the nodes that reach up to the level, in their order.          *)
LEMMA LevelSelects ==
  ASSUME NEW q, q \in Seq(Node), NEW ht, NEW i, NEW set,
         \A a \in 1 .. Len(q) : q[a] \in set <=> Reaches(q, ht, i, a),
         NEW f, NEW nx, IsLevel(f, nx, q, ht, i), NEW u, SelectsSo(u, q, set, Node)
  PROVE  \A a \in 0 .. Len(q) : Rest(f, nx, q, ht, i, u, a)
<1>1. Len(q) \in Nat
  OBVIOUS
<1>. DEFINE T == {d \in Nat : \A a \in 0 .. Len(q) : Len(q) - a <= d => Rest(f, nx, q, ht, i, u, a)}
<1>2. ASSUME NEW a \in 0 .. Len(q), Reaches(q, ht, i, a),
             \A c \in a + 1 .. Len(q) : Rest(f, nx, q, ht, i, u, c)
      PROVE  u[a] \o f[nx[Place(q, a)]] = u[Len(q)]
  <2>1. PICK b : NextOn(q, ht, i, a, b) /\ nx[Place(q, a)] = Place(q, b)
    BY <1>2 DEF IsLevel
  <2>2. b \in a + 1 .. Len(q) + 1 /\ \A c \in a + 1 .. b - 1 : ~Reaches(q, ht, i, c)
    BY <2>1 DEF NextOn
  <2>3. /\ b - 1 \in a .. Len(q) /\ b \in Int
        /\ \A c \in a + 1 .. b - 1 : c \in 1 .. Len(q)
    BY <1>1, <2>2
  <2>4. \A c \in a + 1 .. b - 1 : q[c] \notin set
    BY <2>2, <2>3
  <2>5. u[b - 1] = u[a]
    <3>1. PICK z : z = b - 1
      OBVIOUS
    <3>2. z \in a .. Len(q) /\ \A c \in a + 1 .. z : q[c] \notin set
      BY <2>3, <2>4, <3>1
    <3>3. u[z] = u[a]
      BY <3>2, SelectsNone
    <3>. QED  BY <3>1, <3>3
  <2>6. u[a] \in Seq(Node) /\ u[b - 1] \in Seq(Node)
    BY <1>2, <2>3, <2>5 DEF SelectsSo
  <2>7. CASE b = Len(q) + 1
    <3>1. Place(q, b) = NULL /\ b - 1 = Len(q)
      BY <1>1, <2>7, PlaceIs
    <3>2. f[nx[Place(q, a)]] = <<>>
      BY <2>1, <3>1 DEF IsLevel
    <3>. QED  BY <2>5, <2>6, <3>1, <3>2
  <2>8. CASE b # Len(q) + 1
    <3>1. b \in 1 .. Len(q) /\ b \in a + 1 .. Len(q) /\ b \in 0 .. Len(q) /\ b <= Len(q)
      BY <1>1, <2>2, <2>8
    <3>2. Reaches(q, ht, i, b) /\ q[b] \in set
      BY <2>1, <3>1 DEF NextOn
    <3>3. Place(q, b) = q[b] /\ q[b] \in Node
      BY <3>1, PlaceIs
    <3>4. PICK m, g, v : m = q[b] /\ g = f[nx[q[b]]] /\ v = u[a]
      OBVIOUS
    <3>5. g \in Seq(Node)
      <4>1. PICK c : NextOn(q, ht, i, b, c) /\ nx[Place(q, b)] = Place(q, c)
        BY <3>1, <3>2 DEF IsLevel
      <4>2. c \in b + 1 .. Len(q) + 1
        BY <4>1 DEF NextOn
      <4>3. Place(q, c) \in Node \cup {NULL}
        <5>1. CASE c = Len(q) + 1
          BY <5>1, PlaceIs
        <5>2. CASE c # Len(q) + 1
          <6>1. c \in 1 .. Len(q)
            BY <1>1, <3>1, <4>2, <5>2
          <6>. QED  BY <6>1, PlaceIs
        <5>. QED  BY <5>1, <5>2
      <4>4. nx[q[b]] \in Node \cup {NULL}
        BY <3>3, <4>1, <4>3
      <4>. QED  BY <3>4, <4>4 DEF IsLevel
    <3>6. u[b] = Append(v, m)
      <4>1. u[b] = Append(u[b - 1], q[b])
        BY <3>1, <3>2 DEF SelectsSo, Selecting
      <4>. QED  BY <2>5, <3>4, <4>1
    <3>7. u[b] \o g = u[Len(q)]
      BY <1>2, <3>1, <3>2, <3>3, <3>4 DEF Rest
    <3>8. f[nx[Place(q, a)]] = <<m>> \o g
      BY <2>1, <3>3, <3>4 DEF IsLevel
    <3>9. v \in Seq(Node) /\ m \in Node
      BY <2>6, <3>3, <3>4
    <3>10. v \o (<<m>> \o g) = Append(v, m) \o g
      <4>1. <<m>> \in Seq(Node) /\ Append(v, m) = v \o <<m>>
        BY <3>9, AppendIsConcat
      <4>2. (v \o <<m>>) \o g = v \o (<<m>> \o g)
        BY <3>5, <3>9, <4>1, ConcatAssociative
      <4>. QED  BY <4>1, <4>2
    <3>. QED  BY <3>4, <3>6, <3>7, <3>8, <3>10
  <2>. QED  BY <2>7, <2>8
<1>3. 0 \in T
  <2>1. \A a \in 0 .. Len(q) : Len(q) - a <= 0 => \A c \in a + 1 .. Len(q) : FALSE
    BY <1>1
  <2>. QED  BY <1>2, <2>1 DEF Rest
<1>4. ASSUME NEW d \in T PROVE d + 1 \in T
  <2>1. ASSUME NEW a \in 0 .. Len(q), Len(q) - a <= d + 1 PROVE Rest(f, nx, q, ht, i, u, a)
    <3>1. \A c \in a + 1 .. Len(q) : c \in 0 .. Len(q) /\ Len(q) - c <= d
      BY <1>1, <1>4, <2>1
    <3>2. \A c \in a + 1 .. Len(q) : Rest(f, nx, q, ht, i, u, c)
      BY <1>4, <3>1
    <3>. QED  BY <1>2, <3>2 DEF Rest
  <2>. QED  BY <1>4, <2>1
<1>5. T = Nat
  <2>1. T \in SUBSET Nat
    OBVIOUS
  <2>. HIDE DEF T
  <2>. QED  BY <1>3, <1>4, <2>1, Induction
<1>. SUFFICES ASSUME NEW a \in 0 .. Len(q) PROVE Rest(f, nx, q, ht, i, u, a)
  OBVIOUS
<1>6. Len(q) - a \in Nat /\ Len(q) - a <= Len(q) - a
  BY <1>1
<1>7. Len(q) - a \in T
  BY <1>5, <1>6
<1>. QED  BY <1>6, <1>7

(* What LevelsNested says of a level.                                      *)
LevelOf(i) ==
  LET from[n \in Node \cup {NULL}] ==
        IF n = NULL THEN <<>> ELSE <<n>> \o from[sl.next[n][i]]
  IN  from[sl.next[Header][i]]

LEMMA LevelOfIs ==
  ASSUME NEW q, Holds(sl, data, q), NEW i, i \in Levels
  PROVE  LevelOf(i) = Select(q, {n \in Used : data[n].height > i})
<1>. DEFINE F(f) == f = [n \in Node \cup {NULL} |-> IF n = NULL THEN <<>> ELSE <<n>> \o f[sl.next[n][i]]]
<1>1. PICK ht : ht = Heights(data)
  OBVIOUS
<1>2. /\ Built(sl, q, ht) /\ q \in Seq(Node) /\ sl \in Lists /\ Len(q) \in Nat /\ Leads(sl, q, ht)
      /\ NULL \notin Node /\ Header \notin Node
  BY <1>1, UsedIs, SkipListAssumption DEF Holds, Built, Ordered
<1>3. PICK D, nx, rk : /\ D = Node \cup {NULL}
                       /\ nx = [m \in Nodes |-> sl.next[m][i]]
                       /\ rk = [m \in D |-> Rank(q)[m]]
  OBVIOUS
<1>4. \A m \in Nodes : sl.next[m][i] \in Node \cup {NULL} /\ nx[m] = sl.next[m][i]
  BY <1>2, <1>3 DEF Lists
<1>5. Node \subseteq Nodes /\ Header \in Nodes
  BY DEF Nodes
<1>6. Down(D, Node, nx, rk)
  <2>1. \A m \in D : Rank(q)[m] \in Nat
    BY <1>2, <1>3, RankIs DEF Nodes
  <2>2. \A m \in Node : Rank(q)[sl.next[m][i]] < Rank(q)[m]
    BY <1>2, <1>5, RankIs
  <2>3. rk \in [D -> Nat]
    BY <1>3, <2>1
  <2>4. \A m \in Node : m \in D /\ nx[m] \in D /\ rk[nx[m]] < rk[m]
    BY <1>3, <1>4, <1>5, <2>2
  <2>. QED  BY <2>3, <2>4 DEF Down
<1>7. PICK g : Chains(g, D, Node, nx)
  BY <1>3, <1>6, ChainExists
<1>8. F(g)
  <2>1. \A m \in D : g[m] = IF m \in Node THEN <<m>> \o g[nx[m]] ELSE <<>>
    BY <1>7 DEF Chains
  <2>2. ASSUME NEW m \in D PROVE g[m] = IF m = NULL THEN <<>> ELSE <<m>> \o g[sl.next[m][i]]
    <3>1. CASE m = NULL
      BY <1>2, <2>1, <3>1
    <3>2. CASE m # NULL
      <4>1. m \in Node /\ nx[m] = sl.next[m][i]
        BY <1>3, <1>4, <1>5, <3>2
      <4>. QED  BY <2>1, <3>2, <4>1
    <3>. QED  BY <3>1, <3>2
  <2>3. g = [m \in D |-> g[m]]
    BY <1>7 DEF Chains
  <2>. QED  BY <1>3, <2>2, <2>3, Zenon
<1>9. PICK f : f = CHOOSE h : F(h)
  OBVIOUS
<1>10. F(f)
  <2>. HIDE DEF F
  <2>. QED  BY <1>8, <1>9
<1>11. LevelOf(i) = f[sl.next[Header][i]]
  BY <1>9, Zenon DEF LevelOf
<1>12. f[NULL] = <<>> /\ \A m \in Node : f[m] = <<m>> \o f[nx[m]]
  <2>1. \A m \in Node \cup {NULL} : f[m] = IF m = NULL THEN <<>> ELSE <<m>> \o f[sl.next[m][i]]
    BY <1>10
  <2>2. f[NULL] = <<>>
    BY <2>1
  <2>3. ASSUME NEW m \in Node PROVE f[m] = <<m>> \o f[nx[m]]
    <3>1. m # NULL /\ nx[m] = sl.next[m][i]
      BY <1>2, <1>4, <1>5
    <3>. QED  BY <2>1, <3>1
  <2>. QED  BY <2>2, <2>3
<1>13. f \in [D -> Seq(Node)]
  <2>1. Kept(f, D, Seq(Node), Node, nx)
    <3>1. \A m \in D \ Node : f[m] \in Seq(Node)
      <4>1. \A m \in D \ Node : m = NULL
        BY <1>3
      <4>2. <<>> \in Seq(Node)
        OBVIOUS
      <4>. QED  BY <1>12, <4>1, <4>2
    <3>2. ASSUME NEW m \in Node, f[nx[m]] \in Seq(Node) PROVE f[m] \in Seq(Node)
      <4>1. PICK c \in Seq(Node) : c = f[nx[m]]
        BY <3>2
      <4>2. <<m>> \in Seq(Node)
        OBVIOUS
      <4>3. <<m>> \o c \in Seq(Node)
        BY <4>2
      <4>. QED  BY <1>12, <4>1, <4>3
    <3>. QED  BY <3>1, <3>2 DEF Kept
  <2>2. Within(f, D, Seq(Node))
    BY <1>6, <2>1, DescentWithin
  <2>3. f = [m \in D |-> f[m]]
    BY <1>3, <1>10
  <2>. QED  BY <2>2, <2>3 DEF Within
<1>14. PICK set : set = {n \in Used : data[n].height > i}
  OBVIOUS
<1>15. \A a \in 1 .. Len(q) : q[a] \in set <=> Reaches(q, ht, i, a)
  <2>. SUFFICES ASSUME NEW a \in 1 .. Len(q) PROVE q[a] \in set <=> Reaches(q, ht, i, a)
    OBVIOUS
  <2>1. q[a] \in Used /\ q[a] \in Node /\ a # 0
    BY UsedIs
  <2>2. ht[q[a]] = data[q[a]].height
    BY <1>1, <2>1 DEF Heights, Used
  <2>. QED  BY <1>14, <2>1, <2>2 DEF Reaches
<1>16. IsLevel(f, nx, q, ht, i)
  <2>1. ASSUME NEW a \in 0 .. Len(q), Reaches(q, ht, i, a)
        PROVE  \E b : NextOn(q, ht, i, a, b) /\ nx[Place(q, a)] = Place(q, b)
    <3>1. PICK b : NextOn(q, ht, i, a, b) /\ Joined(sl, q, i, a, b)
      BY <1>2, <2>1 DEF Leads
    <3>2. Place(q, a) \in Nodes
      BY <1>2, PlaceIs
    <3>3. sl.next[Place(q, a)][i] = Place(q, b)
      BY <3>1 DEF Joined
    <3>4. nx[Place(q, a)] = Place(q, b)
      BY <1>4, <3>2, <3>3
    <3>. QED  BY <3>1, <3>4
  <2>. QED  BY <1>3, <1>12, <1>13, <2>1 DEF IsLevel
<1>17. PICK u : SelectsSo(u, q, set, Node)
  BY <1>2, SelectRecurs
<1>18. Rest(f, nx, q, ht, i, u, 0)
  <2>1. \A a \in 0 .. Len(q) : Rest(f, nx, q, ht, i, u, a)
    BY <1>2, <1>15, <1>16, <1>17, LevelSelects
  <2>2. 0 \in 0 .. Len(q)
    BY <1>2
  <2>. QED  BY <2>1, <2>2
<1>19. u[0] \o f[sl.next[Header][i]] = Select(q, set)
  <2>1. Reaches(q, ht, i, 0) /\ Place(q, 0) = Header
    BY DEF Reaches, Place
  <2>. QED  BY <1>4, <1>5, <1>17, <1>18, <2>1 DEF Rest, SelectsSo
<1>20. u[0] = <<>> /\ f[sl.next[Header][i]] \in Seq(Node)
  BY <1>3, <1>4, <1>5, <1>13, <1>17 DEF SelectsSo, Selecting
<1>21. <<>> \o f[sl.next[Header][i]] = f[sl.next[Header][i]]
  BY <1>20
<1>. QED  BY <1>11, <1>14, <1>19, <1>20, <1>21

LEMMA HoldsLevels ==
  ASSUME NEW q, Holds(sl, data, q)
  PROVE  LevelsNested
<1>1. PICK ht : ht = Heights(data)
  OBVIOUS
<1>2. /\ Built(sl, q, ht) /\ q \in Seq(Node) /\ Len(q) \in Nat /\ sl.len = Len(q) /\ Injective(q)
      /\ sl.level \in 0 .. MaxLevel /\ Leads(sl, q, ht) /\ LeadsBack(sl, q) /\ HeightsOf(q, ht, sl.level)
  BY <1>1, UsedIs DEF Holds, Built, Ordered, Lists
<1>3. Order = q
  BY OrderIs DEF OrderedAs
<1>4. Seqs!ToSet(q) = Used
  <2>1. Seqs!ToSet(q) = {q[a] : a \in 1 .. Len(q)}
    <3>1. DOMAIN q = 1 .. Len(q)
      BY <1>2
    <3>. QED  BY <3>1 DEF Seqs!ToSet
  <2>2. \A a \in 1 .. Len(q) : q[a] \in Used
    BY UsedIs
  <2>3. \A n \in Used : \E a \in 1 .. Len(q) : q[a] = n
    BY UsedIs
  <2>. QED  BY <2>1, <2>2, <2>3
<1>5. ASSUME NEW i \in Levels, i >= sl.level PROVE sl.next[Header][i] = NULL
  <2>1. 0 \in 0 .. Len(q) /\ Place(q, 0) = Header /\ Reaches(q, ht, i, 0)
    BY <1>2 DEF Place, Reaches
  <2>2. PICK b : NextOn(q, ht, i, 0, b) /\ Joined(sl, q, i, 0, b)
    BY <1>2, <2>1 DEF Leads
  <2>3. b \in 0 + 1 .. Len(q) + 1 /\ (b <= Len(q) => Reaches(q, ht, i, b))
    BY <2>2 DEF NextOn
  <2>4. ht \in [Node -> 0 .. sl.level] /\ sl.level \in Nat /\ i \in Nat
    BY <1>2, SkipListAssumption DEF HeightsOf, Levels
  <2>5. \A a \in 0 .. Len(q) : Reaches(q, ht, i, a) <=> a = 0
    BY <1>2, <1>5, <2>4, NoneReaches
  <2>6. b = Len(q) + 1
    BY <1>2, <2>3, <2>5
  <2>7. Place(q, b) = NULL
    BY <1>2, <2>6, PlaceIs
  <2>. QED  BY <2>1, <2>2, <2>7 DEF Joined
<1>6. ASSUME NEW k \in 1 .. sl.len PROVE sl.prev[q[k]] = IF k = 1 THEN NULL ELSE q[k - 1]
  BY <1>2 DEF LeadsBack
<1>7. ASSUME NEW i \in Levels
      PROVE  LET from[n \in Node \cup {NULL}] ==
                   IF n = NULL THEN <<>> ELSE <<n>> \o from[sl.next[n][i]]
             IN  /\ from[sl.next[Header][i]] = Select(Order, {n \in Used : data[n].height > i})
                 /\ i >= sl.level => sl.next[Header][i] = NULL
  <2>1. LevelOf(i) = Select(Order, {n \in Used : data[n].height > i})
    BY <1>3, LevelOfIs
  <2>. QED  BY <1>5, <2>1, Zenon DEF LevelOf
<1>. QED  BY <1>2, <1>3, <1>4, <1>6, <1>7, Zenon DEF LevelsNested

(* The list on each level is the list of level 0 without the nodes that do *)
(* not reach up to it, and prev leads back.                                *)
THEOREM LevelsAreNested == SkipSpec => []LevelsNested
<1>1. SkipInv => LevelsNested
  BY HoldsLevels DEF SkipInv
<1>. QED  BY <1>1, SequenceHeld, PTL

(* Selecting what lies from one place to another gives the slice there.    *)
IsPart(c, S, q, p, l) == c \in Seq(S) /\ Len(c) = l /\ \A k \in 1 .. l : c[k] = q[p + k]

LEMMA SelectPart ==
  ASSUME NEW S, NEW q, q \in Seq(S), NEW set, NEW p, p \in 0 .. Len(q), NEW u, u \in 0 .. Len(q),
         \A a \in 1 .. Len(q) : q[a] \in set <=> p < a /\ a <= u
  PROVE  IsPart(Select(q, set), S, q, p, Over(u, p))
<1>. DEFINE Upto(n) == IF n <= u THEN Over(n, p) ELSE Over(u, p)
<1>1. Len(q) \in Nat /\ p \in Nat /\ u \in Nat
  OBVIOUS
<1>2. PICK w : SelectsSo(w, q, set, S)
  BY SelectRecurs
<1>. DEFINE T == {n \in Nat : n <= Len(q) => IsPart(w[n], S, q, p, Upto(n))}
<1>3. 0 \in T
  <2>1. Upto(0) = 0
    BY <1>1 DEF Over
  <2>2. w[0] = <<>> /\ <<>> \in Seq(S) /\ Len(<<>>) = 0 /\ \A k \in 1 .. 0 : FALSE
    BY <1>2 DEF SelectsSo, Selecting
  <2>3. IsPart(w[0], S, q, p, 0)
    BY <2>2 DEF IsPart
  <2>. QED  BY <2>1, <2>3
<1>4. ASSUME NEW n \in T PROVE n + 1 \in T
  <2>. SUFFICES ASSUME n + 1 <= Len(q) PROVE IsPart(w[n + 1], S, q, p, Upto(n + 1))
    BY <1>4
  <2>1. PICK m, c, l : m = n + 1 /\ c = w[n] /\ l = Upto(n)
    OBVIOUS
  <2>2. m \in 1 .. Len(q) /\ m - 1 = n /\ n \in Nat /\ n <= Len(q)
    BY <1>1, <2>1
  <2>3. c \in Seq(S) /\ Len(c) = l /\ \A k \in 1 .. l : c[k] = q[p + k]
    BY <1>4, <2>1, <2>2 DEF IsPart
  <2>4. w[m] = IF q[m] \in set THEN Append(w[m - 1], q[m]) ELSE w[m - 1]
    BY <1>2, <2>2 DEF SelectsSo, Selecting
  <2>5. CASE p < m /\ m <= u
    <3>1. w[m] = Append(c, q[m]) /\ q[m] \in S
      BY <2>1, <2>2, <2>4, <2>5
    <3>2. l = m - 1 - p /\ l \in Nat /\ Upto(m) = l + 1 /\ p + (l + 1) = m
      BY <1>1, <2>1, <2>2, <2>5 DEF Over
    <3>3. PICK e, x : e = Append(c, x) /\ x = q[m] /\ x \in S
      BY <3>1
    <3>4. e \in Seq(S) /\ Len(e) = l + 1 /\ (\A k \in 1 .. l : e[k] = c[k]) /\ e[l + 1] = x
      BY <2>3, <3>3, AppendProperties
    <3>5. \A k \in 1 .. l + 1 : e[k] = q[p + k]
      <4>. SUFFICES ASSUME NEW k \in 1 .. l + 1 PROVE e[k] = q[p + k]
        OBVIOUS
      <4>1. CASE k = l + 1
        <5>1. q[p + k] = x
          BY <3>2, <3>3, <4>1
        <5>. QED  BY <3>4, <4>1, <5>1
      <4>2. CASE k # l + 1
        <5>1. k \in 1 .. l
          BY <3>2, <4>2
        <5>. QED  BY <2>3, <3>4, <5>1
      <4>. QED  BY <4>1, <4>2
    <3>6. IsPart(e, S, q, p, l + 1)
      BY <3>4, <3>5 DEF IsPart
    <3>. QED  BY <2>1, <3>1, <3>2, <3>3, <3>6
  <2>6. CASE ~(p < m /\ m <= u)
    <3>1. w[m] = c
      BY <2>1, <2>2, <2>4, <2>6
    <3>2. Upto(m) = l
      BY <1>1, <2>1, <2>2, <2>6 DEF Over
    <3>3. IsPart(c, S, q, p, l)
      BY <2>3 DEF IsPart
    <3>. QED  BY <2>1, <3>1, <3>2, <3>3
  <2>. QED  BY <2>5, <2>6
<1>5. T = Nat
  <2>1. T \in SUBSET Nat
    OBVIOUS
  <2>. HIDE DEF T
  <2>. QED  BY <1>3, <1>4, <2>1, Induction
<1>6. Len(q) \in T
  BY <1>1, <1>5
<1>7. Upto(Len(q)) = Over(u, p)
  BY <1>1 DEF Over
<1>8. w[Len(q)] = Select(q, set)
  BY <1>2 DEF SelectsSo
<1>9. IsPart(w[Len(q)], S, q, p, Upto(Len(q)))
  <2>1. Len(q) <= Len(q)
    BY <1>1
  <2>. HIDE DEF Upto
  <2>. QED  BY <1>6, <2>1
<1>. QED  BY <1>7, <1>8, <1>9, Zenon

LEMMA SelectSlice ==
  ASSUME NEW q, q \in Seq(Node), NEW set, NEW p, p \in 0 .. Len(q), NEW u, u \in 0 .. Len(q),
         \A a \in 1 .. Len(q) : q[a] \in set <=> p < a /\ a <= u
  PROVE  IsSlice(Select(q, set), q, p, Over(u, p))
<1>1. IsPart(Select(q, set), Node, q, p, Over(u, p))
  BY SelectPart
<1>. QED  BY <1>1 DEF IsPart, IsSlice

(* A slice in reverse is the slice backwards.                              *)
LEMMA ReverseSlice ==
  ASSUME NEW q, NEW p, p \in Nat, NEW u, u \in Nat, NEW l, l = Over(u, p), NEW c, IsSlice(c, q, p, l)
  PROVE  IsBackSlice(Seqs!Reverse(c), q, u, l)
<1>1. c \in Seq(Node) /\ Len(c) = l /\ l \in Nat /\ \A k \in 1 .. l : c[k] = q[p + k]
  BY DEF IsSlice
<1>2. PICK e : e = [k \in 1 .. l |-> c[(l - k) + 1]]
  OBVIOUS
<1>3. Seqs!Reverse(c) = e
  BY <1>1, <1>2 DEF Seqs!Reverse
<1>4. \A k \in 1 .. l : (l - k) + 1 \in 1 .. l /\ c[(l - k) + 1] \in Node
  BY <1>1
<1>5. e \in Seq(Node) /\ Len(e) = l
  <2>1. e \in [1 .. l -> Node]
    BY <1>2, <1>4
  <2>. QED  BY <1>1, <2>1
<1>6. ASSUME NEW k \in 1 .. l PROVE e[k] = q[u + 1 - k]
  <2>1. p + ((l - k) + 1) = u + 1 - k
    BY <1>1 DEF Over
  <2>. QED  BY <1>1, <1>2, <1>4, <2>1
<1>. QED  BY <1>3, <1>5, <1>6 DEF IsBackSlice

(* The nodes between two scores, where those of the searches end.          *)
Between(start, end) == {n \in Used : start <= data[n].score /\ data[n].score <= end}

LEMMA BetweenIs ==
  ASSUME NEW q, Holds(sl, data, q), NEW start, start \in Score, NEW end, end \in Score,
         NEW p, Splits(q, LessScore(start), p), NEW u, Splits(q, NotAbove(end), u)
  PROVE  \A a \in 1 .. Len(q) : /\ q[a] \in Between(start, end) <=> p < a /\ a <= u
                                /\ q[a] \in Used \ LessScore(start) <=> a > p
<1>. SUFFICES ASSUME NEW a \in 1 .. Len(q)
              PROVE  /\ q[a] \in Between(start, end) <=> p < a /\ a <= u
                     /\ q[a] \in Used \ LessScore(start) <=> a > p
  OBVIOUS
<1>1. /\ q[a] \in Used /\ p \in Nat /\ u \in Nat /\ a \in Nat
      /\ q[a] \in LessScore(start) <=> a <= p
      /\ q[a] \in NotAbove(end) <=> a <= u
  BY UsedIs DEF Splits
<1>2. data[q[a]].score \in Int /\ start \in Int /\ end \in Int
  BY <1>1, UsedIs, RecordIs, SkipListAssumption
<1>3. q[a] \in LessScore(start) <=> start > data[q[a]].score
  BY <1>1 DEF LessScore
<1>4. q[a] \in NotAbove(end) <=> end >= data[q[a]].score
  BY <1>1 DEF NotAbove
<1>5. q[a] \in Between(start, end) <=> start <= data[q[a]].score /\ data[q[a]].score <= end
  BY <1>1 DEF Between
<1>6. q[a] \in Used \ LessScore(start) <=> ~(q[a] \in LessScore(start))
  BY <1>1
<1>. QED  BY <1>1, <1>2, <1>3, <1>4, <1>5, <1>6

(* What the queries by score meet.                                         *)
LEMMA ScoresMet ==
  ASSUME NEW q, Holds(sl, data, q), NEW start, start \in Score, NEW end, end \in Score,
         NEW p, Splits(q, LessScore(start), p), NEW u, Splits(q, NotAbove(end), u)
  PROVE  /\ IsSlice(Chain(Following(Search(LessScore(start))), NotAbove(end)), q, p, Over(u, p))
         /\ IsBackSlice(ChainBack(GetLastByScore(end), Used \ LessScore(start)), q, u, Over(u, p))
         /\ IsSlice(Select(q, Between(start, end)), q, p, Over(u, p))
<1>1. PICK ht : ht = Heights(data)
  OBVIOUS
<1>2. Built(sl, q, ht) /\ q \in Seq(Node) /\ Len(q) \in Nat /\ p \in 0 .. Len(q) /\ u \in 0 .. Len(q)
  BY <1>1, UsedIs DEF Holds, Splits
<1>3. IsSlice(Chain(Following(Search(LessScore(start))), NotAbove(end)), q, p, Over(u, p))
  <2>1. PICK taken, path : taken = NotAbove(end) /\ path = Search(LessScore(start))
    OBVIOUS
  <2>2. taken \subseteq Node /\ Splits(q, taken, u)
    BY <2>1 DEF NotAbove, Used
  <2>3. Following(path) = Place(q, p + 1)
    BY <1>2, <2>1, FollowingIs
  <2>4. IsSlice(Chain(Place(q, p + 1), taken), q, p, Over(u, p))
    BY <1>2, <2>2, ChainIs
  <2>. QED  BY <2>1, <2>3, <2>4
<1>4. IsBackSlice(ChainBack(GetLastByScore(end), Used \ LessScore(start)), q, u, Over(u, p))
  <2>1. PICK taken, path, n : /\ taken = Used \ LessScore(start) /\ path = Search(NotAbove(end))
                              /\ n = IF u = 0 THEN NULL ELSE q[u]
    OBVIOUS
  <2>2. /\ taken \subseteq Node /\ \A m \in taken : \E b \in 1 .. Len(q) : q[b] = m
        /\ \A b \in 1 .. Len(q) : q[b] \in taken <=> b > p
    <3>1. taken \subseteq Node /\ \A m \in taken : \E b \in 1 .. Len(q) : q[b] = m
      BY <2>1, UsedIs
    <3>2. \A b \in 1 .. Len(q) : q[b] \in taken <=> b > p
      BY <2>1, BetweenIs
    <3>. QED  BY <3>1, <3>2
  <2>3. path[0].node = Place(q, u)
    BY <1>2, <2>1, FollowingIs
  <2>4. GetLastByScore(end) = n
    <3>1. GetLastByScore(end) = IF path[0].node = Header THEN NULL ELSE path[0].node
      BY <2>1, Zenon DEF GetLastByScore
    <3>2. CASE u = 0
      BY <2>1, <2>3, <3>1, <3>2 DEF Place
    <3>3. CASE u # 0
      <4>1. u \in 1 .. Len(q)
        BY <1>2, <3>3
      <4>2. Place(q, u) = q[u] /\ q[u] # Header
        BY <1>2, <4>1, PlaceIs
      <4>. QED  BY <2>1, <2>3, <3>1, <3>3, <4>2
    <3>. QED  BY <3>2, <3>3
  <2>5. IsBackSlice(ChainBack(n, taken), q, u, Over(u, p))
    BY <1>2, <2>1, <2>2, ChainBackIs
  <2>. QED  BY <2>1, <2>4, <2>5
<1>5. IsSlice(Select(q, Between(start, end)), q, p, Over(u, p))
  <2>1. PICK set : set = Between(start, end)
    OBVIOUS
  <2>2. \A a \in 1 .. Len(q) : q[a] \in set <=> p < a /\ a <= u
    BY <2>1, BetweenIs
  <2>3. IsSlice(Select(q, set), q, p, Over(u, p))
    BY <1>2, <2>2, SelectSlice
  <2>. QED  BY <2>1, <2>3
<1>. QED  BY <1>3, <1>4, <1>5

LEMMA HoldsScores ==
  ASSUME NEW q, Holds(sl, data, q)
  PROVE  ScoresExact
<1>1. Order = q
  BY OrderIs DEF OrderedAs
<1>2. ASSUME NEW start \in Score, NEW end \in Score
      PROVE  /\ dmbSkipListGetRangByScore(start, end, FALSE) = Select(q, Between(start, end))
             /\ dmbSkipListGetRangByScore(start, end, TRUE) = Seqs!Reverse(Select(q, Between(start, end)))
             /\ dmbSkipListGetRangeCount(start, end) = Len(Select(q, Between(start, end)))
  <2>1. PICK p : Splits(q, LessScore(start), p)
    BY LessScoreSplits
  <2>2. PICK u : Splits(q, NotAbove(end), u)
    BY NotAboveSplits
  <2>3. p \in Nat /\ u \in Nat
    BY <2>1, <2>2, UsedIs DEF Splits
  <2>4. PICK c, e, s, l : /\ c = Chain(Following(Search(LessScore(start))), NotAbove(end))
                          /\ e = ChainBack(GetLastByScore(end), Used \ LessScore(start))
                          /\ s = Select(q, Between(start, end)) /\ l = Over(u, p)
    OBVIOUS
  <2>5. IsSlice(c, q, p, l) /\ IsBackSlice(e, q, u, l) /\ IsSlice(s, q, p, l) /\ l \in Nat
    <3>1. /\ IsSlice(Chain(Following(Search(LessScore(start))), NotAbove(end)), q, p, Over(u, p))
          /\ IsBackSlice(ChainBack(GetLastByScore(end), Used \ LessScore(start)), q, u, Over(u, p))
          /\ IsSlice(Select(q, Between(start, end)), q, p, Over(u, p))
      BY <2>1, <2>2, ScoresMet
    <3>2. l \in Nat
      BY <2>3, <2>4 DEF Over
    <3>. QED  BY <2>4, <3>1, <3>2, Zenon
  <2>6. c = s
    BY <2>5, SliceUnique
  <2>7. e = Seqs!Reverse(s)
    <3>1. IsBackSlice(Seqs!Reverse(s), q, u, l)
      BY <2>3, <2>4, <2>5, ReverseSlice
    <3>. QED  BY <2>5, <3>1, BackSliceUnique
  <2>8. dmbSkipListGetRangByScore(start, end, FALSE) = c /\ dmbSkipListGetRangByScore(start, end, TRUE) = e
    BY <2>4, Zenon DEF dmbSkipListGetRangByScore, GetFirstByScore
  <2>9. dmbSkipListGetRangeCount(start, end) = Len(c)
    BY <2>4, Zenon DEF dmbSkipListGetRangeCount
  <2>. QED  BY <2>4, <2>6, <2>7, <2>8, <2>9
<1>. QED  BY <1>1, <1>2, Zenon DEF ScoresExact, Between

(* Ranges by score hold what is between the scores, in either order.       *)
THEOREM ScoresAreExact == SkipSpec => []ScoresExact
<1>1. SkipInv => ScoresExact
  BY HoldsScores DEF SkipInv
<1>. QED  BY <1>1, SequenceHeld, PTL

(* Of an element the only one with its value is what the search for it     *)
(* passes last.                                                            *)
ValueAt(q, v) == {k \in 1 .. Len(q) : data[q[k]].value = v}

LEMMA OnlyPassedLast ==
  ASSUME NEW q, Holds(sl, data, q), NEW s, s \in Score, NEW v, v \in Value, NEW p, Splits(q, NotAboveElem(s, v), p),
         NEW k, ValueAt(q, v) = {k}, data[q[k]].score = s
  PROVE  k \in 1 .. Len(q) /\ p = k
<1>1. q \in Seq(Node) /\ Len(q) \in Nat /\ p \in 0 .. Len(q) /\ Sorted(q, data)
  BY UsedIs DEF Holds, Splits
<1>2. k \in 1 .. Len(q) /\ data[q[k]].value = v
  BY DEF ValueAt
<1>3. \A a \in 1 .. Len(q) : /\ data[q[a]].score \in Int /\ data[q[a]].value \in Int
                             /\ q[a] \in NotAboveElem(s, v) <=>
                                  s > data[q[a]].score \/ (s = data[q[a]].score /\ v >= data[q[a]].value)
                             /\ q[a] \in NotAboveElem(s, v) <=> a <= p
  <2>1. ASSUME NEW a \in 1 .. Len(q) PROVE data[q[a]] \in Records /\ q[a] \in Used
    BY UsedIs
  <2>2. ASSUME NEW a \in 1 .. Len(q) PROVE data[q[a]].score \in Int /\ data[q[a]].value \in Int
    BY <2>1, RecordIs
  <2>. QED  BY <2>1, <2>2 DEF NotAboveElem, Splits
<1>4. k <= p
  <2>1. v \in Int
    BY <1>2, <1>3
  <2>. QED  BY <1>2, <1>3, <2>1
<1>5. ASSUME k < p PROVE FALSE
  <2>1. p \in 1 .. Len(q)
    BY <1>1, <1>2, <1>5
  <2>2. NotAfter(data[q[k]], data[q[p]])
    BY <1>1, <1>2, <1>5, <2>1 DEF Sorted
  <2>3. s > data[q[p]].score \/ (s = data[q[p]].score /\ v >= data[q[p]].value)
    BY <1>1, <1>3, <2>1
  <2>4. s < data[q[p]].score \/ (s = data[q[p]].score /\ v <= data[q[p]].value)
    BY <1>2, <2>2 DEF NotAfter
  <2>5. s \in Int /\ v \in Int /\ data[q[p]].score \in Int /\ data[q[p]].value \in Int
    BY <1>2, <1>3, <2>1
  <2>6. data[q[p]].value = v
    BY <2>3, <2>4, <2>5
  <2>7. p \in ValueAt(q, v)
    BY <2>1, <2>6 DEF ValueAt
  <2>. QED  BY <1>1, <1>2, <1>5, <2>7
<1>. QED  BY <1>1, <1>2, <1>4, <1>5

RankGiven(q, s, v) ==
  /\ \A k : ValueAt(q, v) = {k} /\ data[q[k]].score = s => dmbSkipListGetRank(s, v) = k
  /\ ValueAt(q, v) = {} => dmbSkipListGetRank(s, v) = 0

LEMMA RankGivenIs ==
  ASSUME NEW q, Holds(sl, data, q), NEW s, s \in Score, NEW v, v \in Value
  PROVE  RankGiven(q, s, v)
<1>1. PICK ht : ht = Heights(data)
  OBVIOUS
<1>2. /\ Built(sl, q, ht) /\ q \in Seq(Node) /\ Len(q) \in Nat /\ sl.level \in Nat
      /\ HeightsOf(q, ht, sl.level)
  BY <1>1, UsedIs, SkipListAssumption DEF Holds, Built, Ordered, Lists
<1>3. PICK p : Splits(q, NotAboveElem(s, v), p)
  BY NotAboveElemSplits
<1>. DEFINE S == Search(NotAboveElem(s, v))
            Hits(path) == {i \in 0 .. sl.level - 1 : path[i].node # Header /\ data[path[i].node].value = v}
<1>4. dmbSkipListGetRank(s, v) = IF Hits(S) = {} THEN 0 ELSE S[Sets!Max(Hits(S))].rank
  BY Zenon DEF dmbSkipListGetRank
<1>5. PICK path, hits : /\ path = S /\ hits = Hits(path)
                        /\ dmbSkipListGetRank(s, v) = IF hits = {} THEN 0 ELSE path[Sets!Max(hits)].rank
  <2>. HIDE DEF S, Hits
  <2>. QED  BY <1>4, Zenon
<1>6. Guides(path, q, ht, p, sl.level)
  <2>1. path = Search(NotAboveElem(s, v))
    BY <1>5
  <2>. QED  BY <1>2, <1>3, <2>1, SearchEnds
<1>7. ASSUME NEW i \in 0 .. sl.level - 1
      PROVE  \E x \in 0 .. Len(q) : /\ path[i] = [node |-> Place(q, x), rank |-> x]
                                    /\ i \in hits => x \in ValueAt(q, v)
                                    /\ i = 0 => x = p
  <2>1. PICK x : LastOn(q, ht, i, p, x) /\ path[i] = [node |-> Place(q, x), rank |-> x]
    <3>1. i \in 0 .. sl.level
      BY <1>2
    <3>. QED  BY <1>6, <3>1 DEF Guides, Ends
  <2>2. x \in 0 .. Len(q)
    BY <1>2, <1>3, <2>1 DEF LastOn, Splits
  <2>3. ASSUME i \in hits PROVE x \in ValueAt(q, v)
    <3>1. path[i].node # Header /\ data[path[i].node].value = v
      BY <1>5, <2>3
    <3>2. Place(q, x) # Header /\ data[Place(q, x)].value = v
      BY <2>1, <3>1
    <3>3. x # 0
      BY <3>2 DEF Place
    <3>4. x \in 1 .. Len(q)
      BY <1>2, <2>2, <3>3
    <3>5. Place(q, x) = q[x]
      BY <1>2, <3>4, PlaceIs
    <3>. QED  BY <3>2, <3>4, <3>5 DEF ValueAt
  <2>4. ASSUME i = 0 PROVE x = p
    <3>1. LastOn(q, ht, 0, p, p) /\ p \in Nat
      BY <1>2, <1>3, LowestIs DEF Splits
    <3>2. LastOn(q, ht, 0, p, x)
      BY <2>1, <2>4
    <3>. QED  BY <3>1, <3>2, LastUnique
  <2>. QED  BY <2>1, <2>2, <2>3, <2>4
<1>8. ASSUME hits # {} PROVE \E x \in ValueAt(q, v) : dmbSkipListGetRank(s, v) = x
  <2>1. hits \in SUBSET Nat /\ \A x \in hits : x <= sl.level
    BY <1>2, <1>5
  <2>2. Sets!Max(hits) \in hits
    BY <1>2, <1>8, <2>1, MaxIs
  <2>3. PICK i : i = Sets!Max(hits) /\ i \in hits
    BY <2>2
  <2>4. i \in 0 .. sl.level - 1
    BY <1>5, <2>3
  <2>5. PICK x \in 0 .. Len(q) : path[i] = [node |-> Place(q, x), rank |-> x] /\ x \in ValueAt(q, v)
    BY <1>7, <2>3, <2>4
  <2>6. path[i].rank = x
    BY <2>5
  <2>. QED  BY <1>5, <1>8, <2>3, <2>5, <2>6
<1>9. ASSUME NEW k, ValueAt(q, v) = {k}, data[q[k]].score = s PROVE dmbSkipListGetRank(s, v) = k
  <2>1. k \in 1 .. Len(q) /\ p = k
    BY <1>3, <1>9, OnlyPassedLast
  <2>2. 0 \in 0 .. sl.level - 1
    <3>1. q[k] \in Node /\ ht[q[k]] \in 0 .. sl.level /\ ht[q[k]] # 0
      BY <1>2, <2>1 DEF HeightsOf
    <3>. QED  BY <1>2, <3>1
  <2>3. path[0].node = q[k]
    <3>1. PICK x \in 0 .. Len(q) : path[0] = [node |-> Place(q, x), rank |-> x] /\ x = p
      BY <1>7, <2>2
    <3>2. Place(q, k) = q[k]
      BY <1>2, <2>1, PlaceIs
    <3>. QED  BY <2>1, <3>1, <3>2
  <2>4. q[k] # Header /\ data[q[k]].value = v
    <3>1. q[k] # Header
      BY <1>2, <2>1, PlaceIs
    <3>2. k \in ValueAt(q, v)
      BY <1>9
    <3>. QED  BY <3>1, <3>2 DEF ValueAt
  <2>5. 0 \in hits
    BY <1>5, <2>2, <2>3, <2>4
  <2>. QED  BY <1>8, <1>9, <2>5
<1>10. ASSUME ValueAt(q, v) = {} PROVE dmbSkipListGetRank(s, v) = 0
  <2>1. hits = {}
    BY <1>8, <1>10
  <2>. QED  BY <1>5, <2>1
<1>. QED  BY <1>9, <1>10 DEF RankGiven

LEMMA HoldsRanks ==
  ASSUME NEW q, Holds(sl, data, q)
  PROVE  RankExact
<1>1. Order = q /\ q \in Seq(Node) /\ DOMAIN q = 1 .. Len(q)
  BY OrderIs, UsedIs DEF OrderedAs
<1>2. PICK es : es = Elements(q)
  OBVIOUS
<1>3. DOMAIN es = 1 .. Len(q) /\ \A k \in 1 .. Len(q) : es[k].score = data[q[k]].score /\ es[k].value = data[q[k]].value
  BY <1>1, <1>2 DEF Elements
<1>4. ASSUME NEW s \in Score, NEW v \in Value, NEW same, same = {k \in DOMAIN es : es[k].value = v}
      PROVE  /\ \A k \in same : same = {k} /\ es[k].score = s => dmbSkipListGetRank(s, v) = k
             /\ same = {} => dmbSkipListGetRank(s, v) = 0
  <2>1. same = ValueAt(q, v)
    BY <1>3, <1>4 DEF ValueAt
  <2>2. RankGiven(q, s, v)
    BY RankGivenIs
  <2>3. ASSUME NEW k \in same, same = {k}, es[k].score = s PROVE dmbSkipListGetRank(s, v) = k
    <3>1. data[q[k]].score = s
      BY <1>3, <1>4, <2>3
    <3>. QED  BY <2>1, <2>2, <2>3, <3>1 DEF RankGiven
  <2>4. same = {} => dmbSkipListGetRank(s, v) = 0
    BY <2>1, <2>2 DEF RankGiven
  <2>. QED  BY <2>3, <2>4
<1>5. es = Elements(Order)
  BY <1>1, <1>2
<1>. DEFINE Same(e, v) == {k \in DOMAIN e : e[k].value = v}
            G(e) == \A s \in Score, v \in Value :
                      /\ \A k \in Same(e, v) : Same(e, v) = {k} /\ e[k].score = s => dmbSkipListGetRank(s, v) = k
                      /\ Same(e, v) = {} => dmbSkipListGetRank(s, v) = 0
<1>6. G(es)
  BY <1>4
<1>7. G(Elements(Order))
  <2>. HIDE DEF G
  <2>. QED  BY <1>5, <1>6
<1>. QED  BY <1>7, Zenon DEF RankExact

(* The rank of an element that alone has its value is its place.           *)
THEOREM RanksAreExact == SkipSpec => []RankExact
<1>1. SkipInv => RankExact
  BY HoldsRanks DEF SkipInv
<1>. QED  BY <1>1, SequenceHeld, PTL

(* The search by rank.                                                     *)
At == [node : Nodes, rank : Nat]
IsRankLevel(w, rank, i) ==
  \A at \in At : w[at] = IF sl.next[at.node][i] # NULL /\ at.rank + sl.step[at.node][i] <= rank
                         THEN w[[node |-> sl.next[at.node][i], rank |-> at.rank + sl.step[at.node][i]]]
                         ELSE at

(* No step on a level of the list leads back.                              *)
LEMMA StepsLead ==
  ASSUME NEW q, NEW ht, Built(sl, q, ht), NEW i, i \in 0 .. sl.level - 1, NEW n, n \in Nodes
  PROVE  sl.next[n][i] # NULL => sl.next[n][i] \in Node /\ sl.step[n][i] \in Nat
<1>. SUFFICES ASSUME sl.next[n][i] # NULL PROVE sl.next[n][i] \in Node /\ sl.step[n][i] \in Nat
  OBVIOUS
<1>1. q \in Seq(Node) /\ Len(q) \in Nat /\ sl \in Lists /\ i \in Levels /\ i < sl.level /\ i \in Nat
  BY SkipListAssumption DEF Built, Ordered, Lists, Levels
<1>2. \E a \in 0 .. Len(q) : n = Place(q, a) /\ Reaches(q, ht, i, a)
  <2>1. CASE n = Header
    <3>1. 0 \in 0 .. Len(q) /\ n = Place(q, 0) /\ Reaches(q, ht, i, 0)
      BY <1>1, <2>1 DEF Place, Reaches
    <3>. QED  BY <3>1
  <2>2. CASE n # Header
    <3>1. n \in Node /\ ht[n] \in 0 .. sl.level /\ sl.level \in Nat
      BY <2>2 DEF Nodes, Built, HeightsOf, Ordered, Lists
    <3>2. ht[n] > i
      BY <1>1, <3>1 DEF Built, LeadsNowhere
    <3>3. ht[n] # 0
      BY <1>1, <3>1, <3>2
    <3>4. PICK a \in 1 .. Len(q) : q[a] = n
      BY <3>1, <3>3 DEF Built, HeightsOf
    <3>5. a \in 0 .. Len(q) /\ n = Place(q, a) /\ Reaches(q, ht, i, a)
      BY <1>1, <3>2, <3>4, PlaceIs DEF Reaches
    <3>. QED  BY <3>5
  <2>. QED  BY <2>1, <2>2
<1>3. PICK a \in 0 .. Len(q) : n = Place(q, a) /\ Reaches(q, ht, i, a)
  BY <1>2
<1>4. PICK b : NextOn(q, ht, i, a, b) /\ Joined(sl, q, i, a, b)
  BY <1>1, <1>3 DEF Built, Leads
<1>5. b \in a + 1 .. Len(q) + 1 /\ sl.next[n][i] = Place(q, b) /\ sl.step[n][i] = Far(q, a, b)
  BY <1>1, <1>3, <1>4 DEF NextOn, Joined
<1>6. b # Len(q) + 1
  BY <1>1, <1>5, PlaceIs
<1>7. b \in 1 .. Len(q) /\ b - a \in Nat
  BY <1>1, <1>5, <1>6
<1>8. Far(q, a, b) = b - a /\ Place(q, b) \in Node
  BY <1>1, <1>7, PlaceIs DEF Far
<1>. QED  BY <1>5, <1>7, <1>8

LEMMA RankLevelRecurs ==
  ASSUME NEW q, NEW ht, Built(sl, q, ht), NEW rank, rank \in Nat, NEW i, i \in 0 .. sl.level - 1
  PROVE  IsRankLevel(RankLevel(rank, i), rank, i)
<1>. DEFINE Going(at) == sl.next[at.node][i] # NULL /\ at.rank + sl.step[at.node][i] <= rank
            On(at) == [node |-> sl.next[at.node][i], rank |-> at.rank + sl.step[at.node][i]]
            F(w) == w = [at \in At |-> IF Going(at) THEN w[On(at)] ELSE at]
<1>1. PICK G, nx, rk, go, stop : /\ G = {at \in At : Going(at)} /\ nx = [at \in At |-> On(at)]
                                 /\ rk = [at \in At |-> Rank(q)[at.node]]
                                 /\ go = [at \in At |-> [v \in At |-> v]] /\ stop = [at \in At |-> at]
  OBVIOUS
<1>2. ASSUME NEW at \in At PROVE at.node \in Nodes /\ at.rank \in Nat
  BY DEF At
<1>3. ASSUME NEW at \in At, Going(at) PROVE On(at) \in At /\ Rank(q)[On(at).node] < Rank(q)[at.node]
  <2>1. at.node \in Nodes /\ at.rank \in Nat /\ sl.next[at.node][i] # NULL
    BY <1>2, <1>3
  <2>2. sl.next[at.node][i] \in Node /\ sl.step[at.node][i] \in Nat
    BY <2>1, StepsLead
  <2>3. i \in Levels
    BY SkipListAssumption DEF Built, Ordered, Lists, Levels
  <2>4. Rank(q)[sl.next[at.node][i]] < Rank(q)[at.node]
    BY <2>1, <2>3, RankIs
  <2>. QED  BY <2>1, <2>2, <2>4 DEF At, Nodes
<1>4. Down(At, G, nx, rk)
  <2>1. \A n \in Nodes : Rank(q)[n] \in Nat
    BY RankIs
  <2>2. rk \in [At -> Nat]
    BY <1>1, <1>2, <2>1
  <2>3. ASSUME NEW at \in G PROVE at \in At /\ nx[at] \in At /\ rk[nx[at]] < rk[at]
    <3>. HIDE DEF Going, On
    <3>1. at \in At /\ Going(at)
      BY <1>1
    <3>2. nx[at] = On(at) /\ On(at) \in At /\ rk[at] = Rank(q)[at.node]
      BY <1>1, <1>3, <3>1
    <3>3. rk[On(at)] = Rank(q)[On(at).node]
      BY <1>1, <3>2
    <3>. QED  BY <1>3, <3>1, <3>2, <3>3
  <2>. QED  BY <2>2, <2>3 DEF Down
<1>5. stop \in [At -> At] /\ go \in [At -> [At -> At]]
  BY <1>1
<1>6. PICK w : IsDescent(w, At, At, G, nx, go, stop)
  BY <1>4, <1>5, Descends
<1>7. w \in [At -> At] /\ \A at \in At : w[at] = IF at \in G THEN go[at][w[nx[at]]] ELSE stop[at]
  BY <1>6 DEF IsDescent
<1>8. ASSUME NEW at \in At PROVE w[at] = IF Going(at) THEN w[On(at)] ELSE at
  <2>. HIDE DEF Going, On
  <2>1. CASE Going(at)
    <3>1. at \in G /\ nx[at] = On(at) /\ On(at) \in At
      BY <1>1, <1>3, <2>1
    <3>2. w[On(at)] \in At
      BY <1>7, <3>1
    <3>3. go[at][w[On(at)]] = w[On(at)]
      BY <1>1, <3>2
    <3>. QED  BY <1>7, <2>1, <3>1, <3>3
  <2>2. CASE ~Going(at)
    <3>1. at \notin G
      BY <1>1, <2>2
    <3>. QED  BY <1>1, <1>7, <2>2, <3>1
  <2>. QED  BY <2>1, <2>2
<1>9. F(w)
  <2>. HIDE DEF Going, On
  <2>1. w = [at \in At |-> w[at]]
    BY <1>7
  <2>. QED  BY <1>8, <2>1, Zenon
<1>10. PICK v : v = CHOOSE f : F(f)
  OBVIOUS
<1>11. F(v)
  <2>. HIDE DEF F
  <2>. QED  BY <1>9, <1>10
<1>12. RankLevel(rank, i) = v
  BY <1>10, Zenon DEF RankLevel, At, Nodes
<1>13. \A at \in At : v[at] = IF Going(at) THEN v[On(at)] ELSE at
  <2>. HIDE DEF Going, On
  <2>. QED  BY <1>11
<1>. QED  BY <1>12, <1>13, Zenon DEF IsRankLevel

(* From a place up to the rank it ends at the last one up to the rank.     *)
LEMMA RankLevelEnds ==
  ASSUME NEW q, NEW ht, Built(sl, q, ht), NEW p, p \in 0 .. Len(q),
         NEW i, i \in 0 .. sl.level - 1, NEW x, LastOn(q, ht, i, p, x),
         NEW y, y \in 0 .. p, Reaches(q, ht, i, y)
  PROVE  RankLevel(p, i)[[node |-> Place(q, y), rank |-> y]] = [node |-> Place(q, x), rank |-> x]
<1>1. q \in Seq(Node) /\ Len(q) \in Nat /\ sl \in Lists /\ i \in Levels /\ i < sl.level /\ p \in Nat
  BY SkipListAssumption DEF Built, Ordered, Lists, Levels
<1>2. PICK w : w = RankLevel(p, i)
  OBVIOUS
<1>3. \A at \in At : w[at] = IF sl.next[at.node][i] # NULL /\ at.rank + sl.step[at.node][i] <= p
                             THEN w[[node |-> sl.next[at.node][i], rank |-> at.rank + sl.step[at.node][i]]]
                             ELSE at
  <2>1. IsRankLevel(w, p, i)
    BY <1>1, <1>2, RankLevelRecurs
  <2>. QED  BY <2>1 DEF IsRankLevel
<1>4. x \in 0 .. p /\ Reaches(q, ht, i, x) /\ \A c \in x + 1 .. p : ~Reaches(q, ht, i, c)
  BY DEF LastOn
<1>. DEFINE There(c) == [node |-> Place(q, c), rank |-> c]
            T == {d \in Nat : \A c \in 0 .. x : Reaches(q, ht, i, c) /\ x - c <= d => w[There(c)] = There(x)}
<1>5. ASSUME NEW c \in 0 .. x, Reaches(q, ht, i, c),
             \A a \in c + 1 .. x : Reaches(q, ht, i, a) => w[There(a)] = There(x)
      PROVE  w[There(c)] = There(x)
  <2>1. c \in 0 .. Len(q) /\ Place(q, c) \in Nodes /\ c \in Nat
    BY <1>1, <1>4, PlaceIs
  <2>2. PICK b : NextOn(q, ht, i, c, b) /\ Joined(sl, q, i, c, b)
    BY <1>1, <1>5, <2>1 DEF Built, Leads
  <2>3. /\ b \in c + 1 .. Len(q) + 1 /\ (b <= Len(q) => Reaches(q, ht, i, b))
        /\ \A a \in c + 1 .. b - 1 : ~Reaches(q, ht, i, a)
        /\ sl.next[Place(q, c)][i] = Place(q, b) /\ sl.step[Place(q, c)][i] = Far(q, c, b)
    BY <1>1, <2>2 DEF NextOn, Joined
  <2>a. There(c) \in At /\ There(c).node = Place(q, c) /\ There(c).rank = c
    BY <2>1 DEF At
  <2>b. w[There(c)] = IF Place(q, b) # NULL /\ c + Far(q, c, b) <= p
                      THEN w[[node |-> Place(q, b), rank |-> c + Far(q, c, b)]] ELSE There(c)
    <3>. HIDE DEF There
    <3>. QED  BY <1>3, <2>3, <2>a
  <2>4. CASE c = x
    <3>1. b > p
      <4>1. ASSUME b <= p PROVE FALSE
        <5>1. b \in x + 1 .. p /\ b <= Len(q)
          BY <1>1, <1>4, <2>3, <2>4, <4>1
        <5>. QED  BY <1>4, <2>3, <5>1
      <4>. QED  BY <1>1, <2>3, <4>1
    <3>2. ~(Place(q, b) # NULL /\ c + Far(q, c, b) <= p)
      <4>1. CASE b = Len(q) + 1
        BY <1>1, <4>1, PlaceIs
      <4>2. CASE b # Len(q) + 1
        <5>1. b \in 1 .. Len(q)
          BY <1>1, <2>1, <2>3, <4>2
        <5>2. Far(q, c, b) = b - c
          BY <1>1, <5>1 DEF Far
        <5>. QED  BY <1>1, <2>1, <3>1, <5>1, <5>2
      <4>. QED  BY <4>1, <4>2
    <3>. QED  BY <2>4, <2>b, <3>2, Zenon
  <2>5. CASE c < x
    <3>1. b <= x
      <4>1. ASSUME b > x PROVE FALSE
        <5>1. x \in c + 1 .. b - 1
          BY <1>1, <1>4, <2>1, <2>3, <2>5, <4>1
        <5>. QED  BY <1>4, <2>3, <5>1
      <4>. QED  BY <1>1, <1>4, <2>3, <4>1
    <3>2. b \in c + 1 .. x /\ b \in 1 .. Len(q) /\ b <= p /\ b \in Nat /\ x \in Nat
      BY <1>1, <1>4, <2>1, <2>3, <3>1
    <3>3. Place(q, b) # NULL
      BY <1>1, <3>2, PlaceIs
    <3>4. w[There(b)] = There(x)
      BY <1>5, <2>3, <3>2
    <3>5. Far(q, c, b) = b - c /\ c + (b - c) = b
      BY <1>1, <2>1, <3>2 DEF Far
    <3>6. c + Far(q, c, b) = b
      BY <3>5
    <3>7. w[There(c)] = w[There(b)]
      BY <2>b, <3>2, <3>3, <3>6
    <3>. QED  BY <3>4, <3>7
  <2>. QED  BY <1>1, <1>4, <2>4, <2>5
<1>. HIDE DEF There
<1>6. 0 \in T
  <2>. SUFFICES ASSUME NEW c \in 0 .. x, Reaches(q, ht, i, c), x - c <= 0 PROVE w[There(c)] = There(x)
    OBVIOUS
  <2>1. \A a \in c + 1 .. x : FALSE
    BY <1>1, <1>4
  <2>. QED  BY <1>5, <2>1
<1>7. ASSUME NEW d \in T PROVE d + 1 \in T
  <2>. SUFFICES ASSUME NEW c \in 0 .. x, Reaches(q, ht, i, c), x - c <= d + 1 PROVE w[There(c)] = There(x)
    BY DEF T
  <2>1. \A a \in c + 1 .. x : a \in 0 .. x /\ x - a <= d
    BY <1>1, <1>4
  <2>2. \A a \in c + 1 .. x : Reaches(q, ht, i, a) => w[There(a)] = There(x)
    BY <1>7, <2>1
  <2>. QED  BY <1>5, <2>2
<1>8. T = Nat
  <2>1. T \in SUBSET Nat
    OBVIOUS
  <2>. HIDE DEF T
  <2>. QED  BY <1>6, <1>7, <2>1, Induction
<1>9. y \in 0 .. x
  <2>1. ASSUME y > x PROVE FALSE
    <3>1. y \in x + 1 .. p
      BY <1>1, <1>4, <2>1
    <3>. QED  BY <1>4, <3>1
  <2>. QED  BY <1>1, <1>4, <2>1
<1>10. x - y \in T /\ x - y <= x - y
  BY <1>1, <1>4, <1>8, <1>9
<1>11. w[There(y)] = There(x)
  BY <1>9, <1>10
<1>. QED  BY <1>2, <1>11 DEF There

(* What the recursive definition of SearchRank defines: it goes on from    *)
(* level to level.                                                         *)
RankPath(path, rank) ==
  \A i \in 0 .. sl.level :
    path[i] = IF i = sl.level THEN [node |-> Header, rank |-> 0]
              ELSE IF path[i + 1].rank = rank THEN path[i + 1] ELSE RankLevel(rank, i)[path[i + 1]]

LEMMA SearchRankRecurs ==
  ASSUME NEW q, NEW ht, Built(sl, q, ht), NEW rank, rank \in Nat
  PROVE  \E path : RankPath(path, rank) /\ SearchRank(rank) = path[0]
<1>. DEFINE Go(i, v) == IF v.rank = rank THEN v ELSE RankLevel(rank, i)[v]
            Begin == [node |-> Header, rank |-> 0]
            F(f) == f = [i \in 0 .. sl.level |-> IF i = sl.level THEN Begin ELSE Go(i, f[i + 1])]
            H(f, k) == f = [i \in k .. sl.level |-> IF i = sl.level THEN Begin ELSE Go(i, f[i + 1])]
            T == {d \in Nat : \E f : H(f, sl.level - d)}
<1>1. sl.level \in Nat
  BY DEF Built, Ordered, Lists
<1>. HIDE DEF Go, Begin
<1>2. 0 \in T
  <2>1. PICK k : k = sl.level - 0
    OBVIOUS
  <2>2. PICK f : f = [i \in k .. sl.level |-> Begin]
    OBVIOUS
  <2>3. \A i \in k .. sl.level : i = sl.level
    BY <1>1, <2>1
  <2>4. H(f, k)
    BY <2>2, <2>3
  <2>. QED  BY <2>1, <2>4
<1>3. ASSUME NEW d \in T PROVE d + 1 \in T
  <2>1. PICK k : k = sl.level - (d + 1)
    OBVIOUS
  <2>2. k \in Int /\ k + 1 = sl.level - d /\ k # sl.level /\ k \notin k + 1 .. sl.level
        /\ \A i \in k .. sl.level : i \in Int /\ (i # k => i \in k + 1 .. sl.level)
    BY <1>1, <2>1
  <2>3. PICK f : H(f, k + 1)
    BY <2>2
  <2>4. PICK g : g = [i \in k .. sl.level |-> IF i = k THEN Go(k, f[k + 1]) ELSE f[i]]
    OBVIOUS
  <2>5. ASSUME NEW i \in k .. sl.level PROVE g[i] = IF i = sl.level THEN Begin ELSE Go(i, g[i + 1])
    <3>1. CASE i = k
      <4>1. k + 1 \in k .. sl.level /\ k + 1 # k
        BY <1>1, <2>1, <2>2
      <4>2. g[k + 1] = f[k + 1]
        BY <2>4, <4>1
      <4>. QED  BY <2>2, <2>4, <3>1, <4>2
    <3>2. CASE i # k
      <4>1. i \in k + 1 .. sl.level
        BY <2>2, <3>2
      <4>2. g[i] = f[i]
        BY <2>4, <3>2
      <4>3. f[i] = IF i = sl.level THEN Begin ELSE Go(i, f[i + 1])
        BY <2>3, <4>1
      <4>4. i # sl.level => g[i + 1] = f[i + 1]
        <5>1. i # sl.level => i + 1 \in k .. sl.level /\ i + 1 # k
          BY <1>1, <2>2, <4>1
        <5>. QED  BY <2>4, <5>1
      <4>. QED  BY <4>2, <4>3, <4>4
    <3>. QED  BY <3>1, <3>2
  <2>6. g = [i \in k .. sl.level |-> g[i]]
    BY <2>4
  <2>7. H(g, k)
    BY <2>5, <2>6, Zenon
  <2>8. \E e : H(e, sl.level - (d + 1))
    <3>. HIDE DEF H
    <3>. QED  BY <2>1, <2>7
  <2>9. d + 1 \in Nat
    BY <1>3
  <2>. QED  BY <2>8, <2>9
<1>4. T = Nat
  <2>1. T \in SUBSET Nat
    OBVIOUS
  <2>. HIDE DEF T
  <2>. QED  BY <1>2, <1>3, <2>1, Induction
<1>5. PICK f : F(f)
  <2>1. sl.level \in T /\ sl.level - sl.level = 0
    BY <1>1, <1>4
  <2>2. \E f : H(f, sl.level - sl.level)
    BY <2>1
  <2>. QED  BY <2>1, <2>2
<1>6. PICK path : path = CHOOSE g : F(g)
  OBVIOUS
<1>7. F(path)
  <2>. HIDE DEF F
  <2>. QED  BY <1>5, <1>6
<1>8. SearchRank(rank) = path[0]
  BY <1>6, Zenon DEF SearchRank, Go, Begin
<1>9. \A i \in 0 .. sl.level : path[i] = IF i = sl.level THEN Begin ELSE Go(i, path[i + 1])
  BY <1>7
<1>10. RankPath(path, rank)
  BY <1>9, Zenon DEF RankPath, Go, Begin
<1>. QED  BY <1>8, <1>10

(* It ends at the rank.                                                    *)
SearchesRank(q, p) == SearchRank(p) = [node |-> Place(q, p), rank |-> p]

LEMMA SearchRankEnds ==
  ASSUME NEW q, NEW ht, Built(sl, q, ht), NEW p, p \in 0 .. Len(q)
  PROVE  SearchesRank(q, p)
<1>1. /\ sl.level \in Nat /\ p \in Nat /\ Len(q) \in Nat /\ q \in Seq(Node) /\ ht \in [Node -> 0 .. sl.level]
  BY SkipListAssumption DEF Built, Ordered, Lists, HeightsOf
<1>2. PICK path : RankPath(path, p) /\ SearchRank(p) = path[0]
  BY <1>1, SearchRankRecurs
<1>3. \A i \in 0 .. sl.level :
        path[i] = IF i = sl.level THEN [node |-> Header, rank |-> 0]
                  ELSE IF path[i + 1].rank = p THEN path[i + 1] ELSE RankLevel(p, i)[path[i + 1]]
  BY <1>2 DEF RankPath
<1>. DEFINE T == {d \in Nat : d <= sl.level => Ends(path[sl.level - d], q, ht, sl.level - d, p)}
<1>4. 0 \in T
  <2>1. PICK i : i = sl.level - 0
    OBVIOUS
  <2>2. i = sl.level /\ i \in 0 .. sl.level /\ i \in Nat
    BY <1>1, <2>1
  <2>3. path[i] = [node |-> Header, rank |-> 0]
    BY <1>3, <2>2
  <2>4. \A a \in 0 .. Len(q) : Reaches(q, ht, i, a) <=> a = 0
    BY <1>1, <2>2, NoneReaches
  <2>5. LastOn(q, ht, i, p, 0)
    <3>1. 0 \in 0 .. p /\ 0 \in 0 .. Len(q) /\ \A c \in 0 + 1 .. p : c \in 0 .. Len(q) /\ c # 0
      BY <1>1
    <3>. QED  BY <2>4, <3>1 DEF LastOn
  <2>6. Place(q, 0) = Header
    BY DEF Place
  <2>. QED  BY <2>1, <2>3, <2>5, <2>6 DEF Ends
<1>5. ASSUME NEW d \in T PROVE d + 1 \in T
  <2>. SUFFICES ASSUME d + 1 <= sl.level
                PROVE  Ends(path[sl.level - (d + 1)], q, ht, sl.level - (d + 1), p)
    BY DEF T
  <2>1. PICK i : i = sl.level - (d + 1)
    OBVIOUS
  <2>2. /\ i \in 0 .. sl.level - 1 /\ i \in 0 .. sl.level /\ i + 1 = sl.level - d /\ i \in Nat
        /\ i # sl.level /\ d <= sl.level
    BY <1>1, <2>1
  <2>3. Ends(path[i + 1], q, ht, i + 1, p)
    BY <1>5, <2>2
  <2>4. PICK y : LastOn(q, ht, i + 1, p, y) /\ path[i + 1] = [node |-> Place(q, y), rank |-> y]
    BY <2>3 DEF Ends
  <2>5. y \in 0 .. p /\ Reaches(q, ht, i, y)
    <3>1. y \in 0 .. p /\ Reaches(q, ht, i + 1, y)
      BY <2>4 DEF LastOn
    <3>2. CASE y = 0
      BY <3>1, <3>2 DEF Reaches
    <3>3. CASE y # 0
      <4>1. y \in 1 .. Len(q) /\ ht[q[y]] > i + 1
        BY <1>1, <3>1, <3>3 DEF Reaches
      <4>2. q[y] \in Node
        BY <1>1, <4>1
      <4>3. ht[q[y]] \in Nat
        BY <1>1, <4>2
      <4>4. ht[q[y]] > i
        BY <2>2, <4>1, <4>3
      <4>. QED  BY <3>1, <4>4 DEF Reaches
    <3>. QED  BY <3>2, <3>3
  <2>6. path[i] = IF y = p THEN path[i + 1] ELSE RankLevel(p, i)[path[i + 1]]
    BY <1>3, <2>2, <2>4
  <2>7. CASE y = p
    <3>1. LastOn(q, ht, i, p, y)
      <4>1. \A c \in y + 1 .. p : FALSE
        BY <1>1, <2>7
      <4>. QED  BY <2>5, <4>1 DEF LastOn
    <3>. QED  BY <2>1, <2>4, <2>6, <2>7, <3>1 DEF Ends
  <2>8. CASE y # p
    <3>1. PICK x : LastOn(q, ht, i, p, x)
      BY <1>1, LastExists
    <3>2. RankLevel(p, i)[[node |-> Place(q, y), rank |-> y]] = [node |-> Place(q, x), rank |-> x]
      BY <2>2, <2>5, <3>1, RankLevelEnds
    <3>3. path[i] = [node |-> Place(q, x), rank |-> x]
      BY <2>4, <2>6, <2>8, <3>2
    <3>. QED  BY <2>1, <3>1, <3>3 DEF Ends
  <2>. QED  BY <2>7, <2>8
<1>6. T = Nat
  <2>1. T \in SUBSET Nat
    OBVIOUS
  <2>. HIDE DEF T
  <2>. QED  BY <1>4, <1>5, <2>1, Induction
<1>7. Ends(path[0], q, ht, 0, p)
  <2>1. sl.level \in T /\ sl.level - sl.level = 0 /\ sl.level <= sl.level
    BY <1>1, <1>6
  <2>. QED  BY <2>1
<1>8. PICK x : LastOn(q, ht, 0, p, x) /\ path[0] = [node |-> Place(q, x), rank |-> x]
  BY <1>7 DEF Ends
<1>9. LastOn(q, ht, 0, p, p)
  BY LowestIs
<1>10. x = p
  BY <1>1, <1>8, <1>9, LastUnique
<1>. QED  BY <1>2, <1>8, <1>10 DEF SearchesRank

(* The scans.                                                              *)
LEMMA MinMaxOfTwo ==
  ASSUME NEW a \in Int, NEW b \in Int
  PROVE  /\ Sets!Min({a, b}) = IF a <= b THEN a ELSE b
         /\ Sets!Max({a, b}) = IF a <= b THEN b ELSE a
<1>1. PICK m, n : m = (IF a <= b THEN a ELSE b) /\ n = (IF a <= b THEN b ELSE a)
  OBVIOUS
<1>2. /\ m \in {a, b} /\ (\A y \in {a, b} : m <= y)
      /\ n \in {a, b} /\ (\A y \in {a, b} : n >= y)
  BY <1>1
<1>3. Sets!Min({a, b}) = m
  <2>1. \A x \in {a, b} : (\A y \in {a, b} : x <= y) => x = m
    BY <1>2
  <2>. QED  BY <1>2, <2>1 DEF Sets!Min
<1>4. Sets!Max({a, b}) = n
  <2>1. \A x \in {a, b} : (\A y \in {a, b} : x >= y) => x = n
    BY <1>2
  <2>. QED  BY <1>2, <2>1 DEF Sets!Max
<1>. QED  BY <1>1, <1>3, <1>4

LEMMA SubSeqPart ==
  ASSUME NEW S, NEW q, q \in Seq(S), NEW p, p \in Nat, NEW u, u \in 0 .. Len(q)
  PROVE  IsPart(SubSeq(q, p + 1, u), S, q, p, Over(u, p))
<1>1. PICK m, c, l : m = p + 1 /\ c = SubSeq(q, m, u) /\ l = Over(u, p)
  OBVIOUS
<1>2. m \in Int /\ u \in Int /\ Len(q) \in Nat /\ m >= 1 /\ \A i \in m .. u : i \in 1 .. Len(q)
  BY <1>1
<1>3. \A i \in m .. u : q[i] \in S
  BY <1>2
<1>4. /\ c \in Seq(S) /\ Len(c) = (IF m <= u THEN u - m + 1 ELSE 0)
      /\ \A i \in 1 .. u - m + 1 : c[i] = q[m + i - 1]
  BY <1>1, <1>2, <1>3, SubSeqProperties
<1>5. Len(c) = l /\ l \in Nat
  BY <1>1, <1>2, <1>4 DEF Over
<1>6. ASSUME NEW k \in 1 .. l PROVE c[k] = q[p + k]
  <2>1. k \in 1 .. u - m + 1 /\ m + k - 1 = p + k
    BY <1>1, <1>2 DEF Over
  <2>. QED  BY <1>4, <2>1
<1>. QED  BY <1>1, <1>4, <1>5, <1>6 DEF IsPart

LEMMA SubSeqSlice ==
  ASSUME NEW q, q \in Seq(Node), NEW p, p \in Nat, NEW u, u \in 0 .. Len(q)
  PROVE  IsSlice(SubSeq(q, p + 1, u), q, p, Over(u, p))
<1>1. IsPart(SubSeq(q, p + 1, u), Node, q, p, Over(u, p))
  BY SubSeqPart
<1>. QED  BY <1>1 DEF IsPart, IsSlice

(* The beginning of a slice is a slice, and so it is backwards.            *)
LEMMA SlicePrefix ==
  ASSUME NEW q, NEW p, NEW l, l \in Nat, NEW n, n \in 0 .. l
  PROVE  /\ \A c : IsSlice(c, q, p, l) => IsSlice(SubSeq(c, 1, n), q, p, n)
         /\ \A c : IsBackSlice(c, q, p, l) => IsBackSlice(SubSeq(c, 1, n), q, p, n)
<1>1. ASSUME NEW c, c \in Seq(Node), Len(c) = l
      PROVE  SubSeq(c, 1, n) \in Seq(Node) /\ Len(SubSeq(c, 1, n)) = n /\ \A k \in 1 .. n : SubSeq(c, 1, n)[k] = c[k]
  <2>1. /\ 1 \in Int /\ n \in Int /\ n - 1 + 1 = n /\ (IF 1 <= n THEN n - 1 + 1 ELSE 0) = n
        /\ \A k \in 1 .. n : k \in 1 .. Len(c) /\ 1 + k - 1 = k
    BY <1>1
  <2>2. \A k \in 1 .. n : c[k] \in Node
    BY <1>1, <2>1
  <2>3. /\ SubSeq(c, 1, n) \in Seq(Node) /\ Len(SubSeq(c, 1, n)) = (IF 1 <= n THEN n - 1 + 1 ELSE 0)
        /\ \A k \in 1 .. n - 1 + 1 : SubSeq(c, 1, n)[k] = c[1 + k - 1]
    BY <2>1, <2>2, SubSeqProperties
  <2>. QED  BY <2>1, <2>3
<1>2. 1 .. n \subseteq 1 .. l
  OBVIOUS
<1>3. ASSUME NEW c, IsSlice(c, q, p, l) PROVE IsSlice(SubSeq(c, 1, n), q, p, n)
  <2>1. c \in Seq(Node) /\ Len(c) = l /\ \A k \in 1 .. l : c[k] = q[p + k]
    BY <1>3 DEF IsSlice
  <2>. QED  BY <1>1, <1>2, <2>1 DEF IsSlice
<1>4. ASSUME NEW c, IsBackSlice(c, q, p, l) PROVE IsBackSlice(SubSeq(c, 1, n), q, p, n)
  <2>1. c \in Seq(Node) /\ Len(c) = l /\ \A k \in 1 .. l : c[k] = q[p + 1 - k]
    BY <1>4 DEF IsBackSlice
  <2>. QED  BY <1>1, <1>2, <2>1 DEF IsBackSlice
<1>. QED  BY <1>3, <1>4

(* What dmbSkipListScan meets, from place f on up to place t.              *)
ScanMeets(r, q, f, t) == r = [met |-> SubSeq(q, f + 1, t), next |-> t]

LEMMA ScanIs ==
  ASSUME NEW q, Holds(sl, data, q), NEW i, NEW j, NEW f, f = FromEnd(i), f \in 0 .. Len(q) - 1,
         NEW t, t = Clipped(j) + 1, t \in 1 .. Len(q)
  PROVE  ScanMeets(dmbSkipListScan(i, j), q, f, t)
<1>1. q \in Seq(Node) /\ Len(q) \in Nat /\ sl.len = Len(q)
  BY UsedIs
<1>2. Chain(sl.next[Header][0], Used) = q
  BY OrderIs DEF OrderedAs, Order
<1>3. PICK seen : seen = SubSeq(q, 1, t)
  OBVIOUS
<1>4. IsSlice(seen, q, 0, t)
  <2>1. IsSlice(q, q, 0, Len(q))
    BY <1>1, WholeSlice
  <2>2. t \in 0 .. Len(q)
    BY <1>1
  <2>. QED  BY <1>1, <1>3, <2>1, <2>2, SlicePrefix
<1>5. seen \in Seq(Node) /\ Len(seen) = t /\ \A k \in 1 .. t : seen[k] = q[0 + k]
  BY <1>4 DEF IsSlice
<1>6. Sets!Min({Len(q), t}) = t
  BY <1>1, MinMaxOfTwo
<1>. DEFINE S(all) == SubSeq(all, 1, Sets!Min({Len(all), Clipped(j) + 1}))
            R(first, sn) == IF first \notin 0 .. sl.len - 1 THEN [met |-> <<>>, next |-> 0]
                            ELSE [met |-> SubSeq(sn, first + 1, Len(sn)), next |-> Len(sn)]
<1>7. dmbSkipListScan(i, j) = R(FromEnd(i), S(Chain(sl.next[Header][0], Used)))
  BY Zenon DEF dmbSkipListScan
<1>8. S(Chain(sl.next[Header][0], Used)) = seen
  <2>1. S(q) = seen
    BY <1>3, <1>6
  <2>. HIDE DEF S
  <2>. QED  BY <1>2, <2>1
<1>9. dmbSkipListScan(i, j) = R(f, seen)
  <2>. HIDE DEF S, R
  <2>. QED  BY <1>7, <1>8
<1>10. R(f, seen) = [met |-> SubSeq(seen, f + 1, t), next |-> t]
  BY <1>1, <1>5
<1>11. SubSeq(seen, f + 1, t) = SubSeq(q, f + 1, t)
  <2>1. PICK c, e, l : c = SubSeq(seen, f + 1, t) /\ e = SubSeq(q, f + 1, t) /\ l = Over(t, f)
    OBVIOUS
  <2>2. f \in Nat /\ t \in 0 .. Len(q) /\ t \in 0 .. Len(seen) /\ l \in Nat
        /\ \A k \in 1 .. l : f + k \in 1 .. t /\ 0 + (f + k) = f + k
    BY <1>1, <1>5, <2>1 DEF Over
  <2>3. IsSlice(c, seen, f, l)
    BY <1>5, <2>1, <2>2, SubSeqSlice
  <2>4. IsSlice(e, q, f, l)
    BY <1>1, <2>1, <2>2, SubSeqSlice
  <2>5. IsSlice(c, q, f, l)
    <3>1. c \in Seq(Node) /\ Len(c) = l /\ \A k \in 1 .. l : c[k] = seen[f + k]
      BY <2>3 DEF IsSlice
    <3>2. \A k \in 1 .. l : c[k] = q[f + k]
      BY <1>5, <2>2, <3>1
    <3>. QED  BY <3>1, <3>2 DEF IsSlice
  <2>6. c = e
    BY <2>2, <2>4, <2>5, SliceUnique
  <2>. QED  BY <2>1, <2>6
<1>. QED  BY <1>9, <1>10, <1>11 DEF ScanMeets

LEMMA SmallRemainders ==
  ASSUME NEW b, b \in Nat \ {0}
  PROVE  b % b = 0 /\ (0 - 1) % b = b - 1 /\ \A a \in 0 .. b - 1 : a % b = a
OBVIOUS

(* What dmbSkipListScanByRank meets, from place f on up to place t, and in *)
(* reverse.                                                                *)
Many(t, f, n) == n = Over(t, f) /\ n \in Nat
RankScanMeets(r, q, f, t) ==
  \E n : /\ Many(t, f, n) /\ IsSlice(r.met, q, f, n)
         /\ r.next = IF n > 0 /\ t + 1 <= Len(q) THEN t % UIntSize ELSE 0
RankScanMeetsBack(r, q, f, t) ==
  \E n : /\ Many(t, f, n) /\ IsBackSlice(r.met, q, t, n)
         /\ r.next = IF n > 0 THEN (f - 1) % UIntSize ELSE 0

LEMMA RankScanIs ==
  ASSUME NEW q, Holds(sl, data, q), NEW i, NEW j, NEW f, f = FromEnd(i), f \in 0 .. Len(q) - 1,
         NEW t, t = Clipped(j) + 1, t \in 1 .. Len(q)
  PROVE  /\ RankScanMeets(dmbSkipListScanByRank(i, j, FALSE), q, f, t)
         /\ RankScanMeetsBack(dmbSkipListScanByRank(i, j, TRUE), q, f, t)
<1>1. PICK ht : ht = Heights(data)
  OBVIOUS
<1>2. /\ Built(sl, q, ht) /\ q \in Seq(Node) /\ Len(q) \in Nat /\ sl.len = Len(q)
      /\ f \in Nat /\ t \in Nat /\ f + 1 \in 1 .. Len(q)
  BY <1>1, UsedIs DEF Holds
<1>3. Used \subseteq Node /\ Splits(q, Used, Len(q))
  BY UsedIs, UsedSplits
<1>. DEFINE A(rev, first, bound) == SearchRank(IF rev THEN bound ELSE first)
            C(rev, at) == IF rev THEN ChainBack(at.node, Used) ELSE Chain(at.node, Used)
            N(rev, first, bound, at, chain) ==
              Sets!Max({0, Sets!Min({Len(chain), IF rev THEN at.rank - first + 1 ELSE bound - at.rank + 1})})
            Cur(rev, at, count) == IF rev THEN at.rank - count ELSE at.rank + count
            R(rev, first, at, chain, count) ==
              IF first \notin 1 .. sl.len THEN [met |-> <<>>, next |-> 0]
              ELSE [met |-> SubSeq(chain, 1, count),
                    next |-> IF count > 0 /\ Cur(rev, at, count) <= sl.len
                             THEN (Cur(rev, at, count) - 1) % UIntSize ELSE 0]
            D(rev) == dmbSkipListScanByRank(i, j, rev)
<1>4. ASSUME NEW rev \in BOOLEAN
      PROVE  \E at, chain, count : /\ at = A(rev, f + 1, t) /\ chain = C(rev, at)
                                   /\ count = N(rev, f + 1, t, at, chain) /\ D(rev) = R(rev, f + 1, at, chain, count)
  <2>. DEFINE a0 == A(rev, FromEnd(i) + 1, Clipped(j) + 1)
              c0 == C(rev, a0)
              n0 == N(rev, FromEnd(i) + 1, Clipped(j) + 1, a0, c0)
  <2>1. D(rev) = R(rev, FromEnd(i) + 1, a0, c0, n0)
    BY Zenon DEF dmbSkipListScanByRank
  <2>. HIDE DEF A, C, N, R, D
  <2>2. PICK at : at = a0
    OBVIOUS
  <2>3. PICK chain : chain = c0
    OBVIOUS
  <2>4. PICK count : count = n0
    OBVIOUS
  <2>5. at = A(rev, f + 1, t) /\ chain = C(rev, at) /\ count = N(rev, f + 1, t, at, chain)
    BY <2>2, <2>3, <2>4
  <2>6. D(rev) = R(rev, f + 1, at, chain, count)
    BY <2>1, <2>2, <2>3, <2>4
  <2>. QED  BY <2>5, <2>6
<1>5. PICK n : n = Over(t, f)
  OBVIOUS
<1>6. n \in Nat /\ Many(t, f, n) /\ n <= t /\ n <= Len(q) - f /\ f + 1 \in 1 .. sl.len
  BY <1>2, <1>5 DEF Over, Many
<1>7. RankScanMeets(D(FALSE), q, f, t)
  <2>1. PICK at, chain, count : /\ at = A(FALSE, f + 1, t) /\ chain = C(FALSE, at)
                                /\ count = N(FALSE, f + 1, t, at, chain) /\ D(FALSE) = R(FALSE, f + 1, at, chain, count)
    BY <1>4
  <2>2. at = [node |-> Place(q, f + 1), rank |-> f + 1]
    <3>1. f + 1 \in 0 .. Len(q)
      BY <1>2
    <3>2. SearchesRank(q, f + 1)
      BY <1>2, <3>1, SearchRankEnds
    <3>. QED  BY <2>1, <3>2 DEF SearchesRank
  <2>3. at.node = Place(q, f + 1) /\ at.rank = f + 1
    BY <2>2
  <2>4. IsSlice(chain, q, f, Len(q) - f)
    <3>1. chain = Chain(Place(q, f + 1), Used)
      BY <2>1, <2>3
    <3>2. f \in 0 .. Len(q) /\ Over(Len(q), f) = Len(q) - f
      BY <1>2 DEF Over
    <3>3. IsSlice(Chain(Place(q, f + 1), Used), q, f, Over(Len(q), f))
      BY <1>2, <1>3, <3>2, ChainIs
    <3>. QED  BY <3>1, <3>2, <3>3
  <2>5. count = n
    <3>1. Len(chain) = Len(q) - f /\ t - at.rank + 1 = t - f
      BY <1>2, <2>3, <2>4 DEF IsSlice
    <3>2. Sets!Min({Len(q) - f, t - f}) = t - f
      BY <1>2, MinMaxOfTwo
    <3>3. Sets!Max({0, t - f}) = n
      <4>1. PICK o, z : o = 0 /\ z = t - f
        OBVIOUS
      <4>2. o \in Int /\ z \in Int
        BY <1>2, <4>1
      <4>3. Sets!Max({o, z}) = IF o <= z THEN z ELSE o
        BY <4>2, MinMaxOfTwo
      <4>4. (IF o <= z THEN z ELSE o) = n
        BY <1>2, <1>5, <4>1 DEF Over
      <4>. QED  BY <4>1, <4>3, <4>4
    <3>. QED  BY <2>1, <3>1, <3>2, <3>3
  <2>a. D(FALSE) = [met |-> SubSeq(chain, 1, count),
                   next |-> IF count > 0 /\ at.rank + count <= sl.len THEN ((at.rank + count) - 1) % UIntSize ELSE 0]
    <3>1. Cur(FALSE, at, count) = at.rank + count
      OBVIOUS
    <3>. HIDE DEF Cur
    <3>. QED  BY <1>6, <2>1, <3>1, Zenon
  <2>b. PICK x, y : /\ D(FALSE) = [met |-> x, next |-> y] /\ x = SubSeq(chain, 1, count)
                    /\ y = IF count > 0 /\ at.rank + count <= sl.len THEN ((at.rank + count) - 1) % UIntSize ELSE 0
    <3>. HIDE DEF D
    <3>. QED  BY <2>a, Zenon
  <2>c. D(FALSE).met = x /\ D(FALSE).next = y
    <3>. HIDE DEF D
    <3>1. \A r : r = [met |-> x, next |-> y] => r.met = x /\ r.next = y
      OBVIOUS
    <3>. QED  BY <2>b, <3>1, Zenon
  <2>6. D(FALSE).met = SubSeq(chain, 1, n)
    BY <2>b, <2>c, <2>5, Zenon
  <2>7. D(FALSE).next = IF n > 0 /\ t + 1 <= Len(q) THEN t % UIntSize ELSE 0
    <3>1. D(FALSE).next = IF count > 0 /\ at.rank + count <= sl.len THEN ((at.rank + count) - 1) % UIntSize ELSE 0
      BY <2>b, <2>c, Zenon
    <3>2. n > 0 => at.rank + count = t + 1 /\ (at.rank + count) - 1 = t
      <4>1. n > 0 => n = t - f
        BY <1>2, <1>5 DEF Over
      <4>2. PICK k, r : k = count /\ r = at.rank
        OBVIOUS
      <4>3. k = n /\ r = f + 1
        BY <2>3, <2>5, <4>2
      <4>4. n > 0 => r + k = t + 1 /\ (r + k) - 1 = t
        <5>1. (f + 1) + (t - f) = t + 1 /\ ((f + 1) + (t - f)) - 1 = t
          BY <1>2
        <5>. QED  BY <4>1, <4>3, <5>1, Zenon
      <4>. QED  BY <4>2, <4>4
    <3>. QED  BY <1>2, <2>5, <3>1, <3>2
  <2>8. IsSlice(SubSeq(chain, 1, n), q, f, n)
    <3>1. n \in 0 .. Len(q) - f /\ Len(q) - f \in Nat
      BY <1>2, <1>6
    <3>. QED  BY <2>4, <3>1, SlicePrefix
  <2>. HIDE DEF D
  <2>. QED  BY <1>6, <2>6, <2>7, <2>8 DEF RankScanMeets
<1>8. RankScanMeetsBack(D(TRUE), q, f, t)
  <2>1. PICK at, chain, count : /\ at = A(TRUE, f + 1, t) /\ chain = C(TRUE, at)
                                /\ count = N(TRUE, f + 1, t, at, chain) /\ D(TRUE) = R(TRUE, f + 1, at, chain, count)
    BY <1>4
  <2>2. at = [node |-> Place(q, t), rank |-> t]
    <3>1. t \in 0 .. Len(q)
      BY <1>2
    <3>2. SearchesRank(q, t)
      BY <1>2, <3>1, SearchRankEnds
    <3>. QED  BY <2>1, <3>2 DEF SearchesRank
  <2>3. at.node = q[t] /\ at.rank = t
    BY <1>2, <2>2, PlaceIs
  <2>4. IsBackSlice(chain, q, t, t)
    <3>1. PICK m, taken : m = q[t] /\ taken = Used
      OBVIOUS
    <3>2. chain = ChainBack(m, taken)
      BY <2>1, <2>3, <3>1
    <3>3. /\ t \in 0 .. Len(q) /\ 0 \in 0 .. Len(q) /\ Over(t, 0) = t /\ m = (IF t = 0 THEN NULL ELSE q[t])
          /\ taken \subseteq Node /\ \A k \in taken : \E b \in 1 .. Len(q) : q[b] = k
      <4>1. t \in 0 .. Len(q) /\ 0 \in 0 .. Len(q) /\ t # 0
        BY <1>2
      <4>2. Over(t, 0) = t
        BY <1>2 DEF Over
      <4>3. Used \subseteq Node /\ \A k \in Used : \E b \in 1 .. Len(q) : q[b] = k
        BY UsedIs
      <4>. QED  BY <3>1, <4>1, <4>2, <4>3
    <3>4. \A b \in 1 .. Len(q) : q[b] \in taken <=> b > 0
      BY <3>1, UsedIs
    <3>5. IsBackSlice(ChainBack(m, taken), q, t, Over(t, 0))
      BY <1>2, <3>3, <3>4, ChainBackIs
    <3>. QED  BY <3>2, <3>3, <3>5
  <2>5. count = n
    <3>1. Len(chain) = t /\ at.rank - (f + 1) + 1 = t - f
      BY <1>2, <2>3, <2>4 DEF IsBackSlice
    <3>2. Sets!Min({t, t - f}) = t - f
      BY <1>2, MinMaxOfTwo
    <3>3. Sets!Max({0, t - f}) = n
      <4>1. PICK o, z : o = 0 /\ z = t - f
        OBVIOUS
      <4>2. o \in Int /\ z \in Int
        BY <1>2, <4>1
      <4>3. Sets!Max({o, z}) = IF o <= z THEN z ELSE o
        BY <4>2, MinMaxOfTwo
      <4>4. (IF o <= z THEN z ELSE o) = n
        BY <1>2, <1>5, <4>1 DEF Over
      <4>. QED  BY <4>1, <4>3, <4>4
    <3>. QED  BY <2>1, <3>1, <3>2, <3>3
  <2>a. D(TRUE) = [met |-> SubSeq(chain, 1, count),
                   next |-> IF count > 0 /\ at.rank - count <= sl.len THEN (at.rank - count - 1) % UIntSize ELSE 0]
    <3>1. Cur(TRUE, at, count) = at.rank - count
      OBVIOUS
    <3>. HIDE DEF Cur
    <3>. QED  BY <1>6, <2>1, <3>1, Zenon
  <2>b. PICK x, y : /\ D(TRUE) = [met |-> x, next |-> y] /\ x = SubSeq(chain, 1, count)
                    /\ y = IF count > 0 /\ at.rank - count <= sl.len THEN (at.rank - count - 1) % UIntSize ELSE 0
    <3>. HIDE DEF D
    <3>. QED  BY <2>a, Zenon
  <2>c. D(TRUE).met = x /\ D(TRUE).next = y
    <3>. HIDE DEF D
    <3>1. \A r : r = [met |-> x, next |-> y] => r.met = x /\ r.next = y
      OBVIOUS
    <3>. QED  BY <2>b, <3>1, Zenon
  <2>6. D(TRUE).met = SubSeq(chain, 1, n)
    BY <2>b, <2>c, <2>5, Zenon
  <2>7. D(TRUE).next = IF n > 0 THEN (f - 1) % UIntSize ELSE 0
    <3>1. D(TRUE).next = IF count > 0 /\ at.rank - count <= sl.len THEN (at.rank - count - 1) % UIntSize ELSE 0
      BY <2>b, <2>c, Zenon
    <3>2. n > 0 => at.rank - count = f /\ f <= sl.len
      BY <1>2, <1>5, <2>3, <2>5 DEF Over
    <3>. QED  BY <1>2, <2>5, <3>1, <3>2
  <2>8. IsBackSlice(SubSeq(chain, 1, n), q, t, n)
    <3>1. n \in 0 .. t
      BY <1>2, <1>6
    <3>. QED  BY <1>2, <2>4, <3>1, SlicePrefix
  <2>. HIDE DEF D
  <2>. QED  BY <1>6, <2>6, <2>7, <2>8 DEF RankScanMeetsBack
<1>. QED  BY <1>7, <1>8, Zenon

(* What ScansExact says of two indices.                                    *)
Scanned(n, i, j, from, to, range, there, back) ==
  /\ dmbSkipListScan(i, j) = [met |-> range, next |-> to + 1]
  /\ there.met = range /\ back.met = Seqs!Reverse(range)
  /\ range # <<>> => /\ there.next = (to + 1) % n
                     /\ back.next = IF from = 0 THEN UIntSize - 1 ELSE from - 1

LEMMA ScansGo ==
  ASSUME NEW q, Holds(sl, data, q), sl.len < UIntSize, NEW i, NEW from, from = FromEnd(i), from \in 0 .. Len(q) - 1,
         NEW j, NEW to, to = Clipped(j), to \in 0 .. Len(q) - 1,
         NEW range, range = SubSeq(q, from + 1, to + 1),
         NEW there, there = dmbSkipListScanByRank(i, j, FALSE), NEW back, back = dmbSkipListScanByRank(i, j, TRUE)
  PROVE  Scanned(Len(q), i, j, from, to, range, there, back)
<1>1. q \in Seq(Node) /\ Len(q) \in Nat /\ sl.len = Len(q) /\ UIntSize \in Nat \ {0}
  BY UsedIs, SkipListAssumption
<1>2. PICK t : t = Clipped(j) + 1 /\ t = to + 1
  OBVIOUS
<1>3. t \in 1 .. Len(q) /\ t \in 0 .. Len(q) /\ t \in Nat /\ from \in Nat /\ Len(q) \in Nat \ {0}
  <2>1. \A l \in Nat : \A f, g : f \in 0 .. l - 1 /\ g \in 0 .. l - 1
          => g + 1 \in 1 .. l /\ g + 1 \in 0 .. l /\ g + 1 \in Nat /\ f \in Nat /\ l \in Nat \ {0}
    OBVIOUS
  <2>2. Len(q) \in Nat /\ from \in 0 .. Len(q) - 1 /\ to \in 0 .. Len(q) - 1
    BY <1>1, Zenon
  <2>3. /\ to + 1 \in 1 .. Len(q) /\ to + 1 \in 0 .. Len(q) /\ to + 1 \in Nat
        /\ from \in Nat /\ Len(q) \in Nat \ {0}
    BY <2>1, <2>2, Zenon
  <2>. QED  BY <1>2, <2>3, Zenon
<1>4. dmbSkipListScan(i, j) = [met |-> range, next |-> to + 1]
  <2>1. ScanMeets(dmbSkipListScan(i, j), q, from, t)
    BY <1>2, <1>3, ScanIs
  <2>. QED  BY <1>2, <2>1 DEF ScanMeets
<1>5. RankScanMeets(there, q, from, t) /\ RankScanMeetsBack(back, q, from, t)
  <2>1. /\ RankScanMeets(dmbSkipListScanByRank(i, j, FALSE), q, from, t)
        /\ RankScanMeetsBack(dmbSkipListScanByRank(i, j, TRUE), q, from, t)
    BY <1>2, <1>3, RankScanIs
  <2>. QED  BY <2>1, Zenon
<1>6. PICK n : /\ Many(t, from, n) /\ IsSlice(there.met, q, from, n)
               /\ there.next = IF n > 0 /\ t + 1 <= Len(q) THEN t % UIntSize ELSE 0
  BY <1>5 DEF RankScanMeets
<1>7. PICK m : /\ Many(t, from, m) /\ IsBackSlice(back.met, q, t, m)
               /\ back.next = IF m > 0 THEN (from - 1) % UIntSize ELSE 0
  BY <1>5 DEF RankScanMeetsBack
<1>8. n = Over(t, from) /\ n \in Nat /\ m = n
  BY <1>6, <1>7 DEF Many
<1>9. IsSlice(range, q, from, n)
  <2>1. IsSlice(SubSeq(q, from + 1, t), q, from, Over(t, from))
    BY <1>1, <1>3, SubSeqSlice
  <2>. QED  BY <1>2, <1>8, <2>1
<1>10. there.met = range
  BY <1>6, <1>8, <1>9, SliceUnique
<1>11. back.met = Seqs!Reverse(range)
  <2>1. IsBackSlice(Seqs!Reverse(range), q, t, n)
    BY <1>3, <1>8, <1>9, ReverseSlice
  <2>2. IsBackSlice(back.met, q, t, n)
    BY <1>7, <1>8
  <2>. QED  BY <1>8, <2>1, <2>2, BackSliceUnique
<1>12. ASSUME range # <<>>
       PROVE  there.next = (to + 1) % Len(q) /\ back.next = IF from = 0 THEN UIntSize - 1 ELSE from - 1
  <2>1. n > 0
    <3>1. range \in Seq(Node) /\ Len(range) = n
      BY <1>9 DEF IsSlice
    <3>2. Len(range) \in Nat \ {0}
      BY <1>12, <3>1, EmptySeq
    <3>3. n \in Nat \ {0}
      BY <3>1, <3>2, Zenon
    <3>. QED  BY <3>3
  <2>2. there.next = t % Len(q)
    <3>1. CASE t = Len(q)
      <4>1. ~(t + 1 <= Len(q)) /\ t % Len(q) = 0
        <5>1. Len(q) % Len(q) = 0
          BY <1>3, SmallRemainders
        <5>. QED  BY <1>1, <3>1, <5>1
      <4>. QED  BY <1>6, <4>1
    <3>2. CASE t # Len(q)
      <4>1. t + 1 <= Len(q) /\ t \in 0 .. Len(q) - 1 /\ t \in 0 .. UIntSize - 1
        BY <1>1, <1>3, <3>2
      <4>2. t % Len(q) = t
        BY <1>3, <4>1, SmallRemainders
      <4>3. t % UIntSize = t
        BY <1>1, <4>1, SmallRemainders
      <4>. QED  BY <1>6, <2>1, <4>1, <4>2, <4>3
    <3>. QED  BY <3>1, <3>2
  <2>3. back.next = IF from = 0 THEN UIntSize - 1 ELSE from - 1
    <3>1. back.next = (from - 1) % UIntSize
      BY <1>7, <1>8, <2>1
    <3>2. CASE from = 0
      <4>1. (0 - 1) % UIntSize = UIntSize - 1
        BY <1>1, SmallRemainders
      <4>. QED  BY <3>1, <3>2, <4>1
    <3>3. CASE from # 0
      <4>1. from - 1 \in 0 .. UIntSize - 1
        <5>1. \A f, l, u \in Nat : f # 0 /\ f < l /\ l < u => f - 1 \in 0 .. u - 1
          OBVIOUS
        <5>2. PICK u : u = UIntSize /\ u \in Nat
          BY <1>1
        <5>3. PICK l : l = Len(q) /\ l \in Nat
          BY <1>1
        <5>4. sl.len = l /\ l < u
          BY <1>1, <5>2, <5>3
        <5>5. from < l
          BY <1>3, <5>3
        <5>. QED  BY <1>3, <3>3, <5>1, <5>2, <5>3, <5>4, <5>5
      <4>2. (from - 1) % UIntSize = from - 1
        BY <1>1, <4>1, SmallRemainders
      <4>. QED  BY <3>1, <3>3, <4>2
    <3>. QED  BY <3>2, <3>3
  <2>. QED  BY <1>2, <2>2, <2>3
<1>. QED  BY <1>4, <1>10, <1>11, <1>12 DEF Scanned

LEMMA HoldsScans ==
  ASSUME NEW q, Holds(sl, data, q), sl.len < UIntSize
  PROVE  ScansExact
<1>1. q \in Seq(Node) /\ Len(q) \in Nat /\ sl.len = Len(q) /\ Order = q
  BY UsedIs, OrderIs DEF OrderedAs
<1>. DEFINE Goes2(n, i, j, from, to, range, there, back) ==
              from \in 0 .. n - 1 => Scanned(n, i, j, from, to, range, there, back)
            G(ord, n) == \A i, j \in -(n + 1) .. n + 1 :
                           Goes2(n, i, j, IF i < 0 THEN n + i ELSE i,
                                 LET u == IF j < 0 THEN n + j ELSE j IN IF u \in 0 .. n - 1 THEN u ELSE n - 1,
                                 SubSeq(ord, (IF i < 0 THEN n + i ELSE i) + 1,
                                        (LET u == IF j < 0 THEN n + j ELSE j
                                         IN  IF u \in 0 .. n - 1 THEN u ELSE n - 1) + 1),
                                 dmbSkipListScanByRank(i, j, FALSE), dmbSkipListScanByRank(i, j, TRUE))
<1>2. G(q, Len(q))
  <2>. SUFFICES ASSUME NEW i \in -(Len(q) + 1) .. Len(q) + 1, NEW j \in -(Len(q) + 1) .. Len(q) + 1,
                       NEW from, from = (IF i < 0 THEN Len(q) + i ELSE i),
                       NEW to, to = (LET u == IF j < 0 THEN Len(q) + j ELSE j
                                     IN  IF u \in 0 .. Len(q) - 1 THEN u ELSE Len(q) - 1)
                PROVE  Goes2(Len(q), i, j, from, to, SubSeq(q, from + 1, to + 1),
                             dmbSkipListScanByRank(i, j, FALSE), dmbSkipListScanByRank(i, j, TRUE))
    <3>. HIDE DEF Goes2
    <3>. QED  BY Zenon
  <2>1. from = FromEnd(i) /\ to = Clipped(j)
    BY <1>1 DEF FromEnd, Clipped
  <2>2. from \in 0 .. Len(q) - 1 => to \in 0 .. Len(q) - 1
    BY <1>1
  <2>3. PICK range, there, back : /\ range = SubSeq(q, from + 1, to + 1)
                                  /\ there = dmbSkipListScanByRank(i, j, FALSE)
                                  /\ back = dmbSkipListScanByRank(i, j, TRUE)
    OBVIOUS
  <2>4. Goes2(Len(q), i, j, from, to, range, there, back)
    <3>1. ASSUME from \in 0 .. Len(q) - 1 PROVE Scanned(Len(q), i, j, from, to, range, there, back)
      <4>1. from = FromEnd(i) /\ to = Clipped(j) /\ to \in 0 .. Len(q) - 1
        BY <2>1, <2>2, <3>1
      <4>. QED  BY <2>3, <3>1, <4>1, ScansGo
    <3>. QED  BY <3>1
  <2>. HIDE DEF Goes2
  <2>. QED  BY <2>3, <2>4, Zenon
<1>3. G(Order, sl.len)
  <2>. HIDE DEF G
  <2>. QED  BY <1>1, <1>2
<1>. QED  BY <1>3, Zenon DEF ScansExact, Scanned

(* Both scans meet the elements from one index to the other and say where  *)
(* to go on, while the length is one that a dmbUINT can count.             *)
THEOREM ScansAreExact == SkipSpec => [](sl.len < UIntSize => ScansExact)
<1>1. SkipInv => (sl.len < UIntSize => ScansExact)
  BY HoldsScans DEF SkipInv
<1>. QED  BY <1>1, SequenceHeld, PTL

(* Selecting what does not lie from one place to another cuts that out.    *)
Leaves(c, S, q, p, l) ==
  c \in Seq(S) /\ Len(c) = Len(q) - l /\ \A k \in 1 .. Len(c) : c[k] = IF k <= p THEN q[k] ELSE q[k + l]

LEMMA SelectRest ==
  ASSUME NEW S, NEW q, q \in Seq(S), NEW set, NEW p, p \in 0 .. Len(q), NEW u, u \in 0 .. Len(q),
         \A a \in 1 .. Len(q) : q[a] \in set <=> ~(p < a /\ a <= u)
  PROVE  Leaves(Select(q, set), S, q, p, Over(u, p))
<1>1. Len(q) \in Nat /\ p \in Nat /\ u \in Nat
  OBVIOUS
<1>2. PICK w : SelectsSo(w, q, set, S)
  BY SelectRecurs
<1>. DEFINE Gone(n) == IF n <= u THEN Over(n, p) ELSE Over(u, p)
            Left(c, n) == c \in Seq(S) /\ Len(c) = n - Gone(n)
                          /\ \A k \in 1 .. Len(c) : c[k] = IF k <= p THEN q[k] ELSE q[k + Over(u, p)]
            T == {n \in Nat : n <= Len(q) => Left(w[n], n)}
<1>3. 0 \in T
  <2>1. 0 - Gone(0) = 0
    <3>1. Gone(0) = 0
      <4>1. 0 <= u
        BY <1>1
      <4>2. Over(0, p) = 0
        BY <1>1 DEF Over
      <4>. QED  BY <4>1, <4>2
    <3>. HIDE DEF Gone
    <3>. QED  BY <3>1
  <2>2. w[0] = <<>> /\ <<>> \in Seq(S) /\ Len(<<>>) = 0 /\ \A k \in 1 .. 0 : FALSE
    BY <1>2 DEF SelectsSo, Selecting
  <2>. QED  BY <2>1, <2>2
<1>4. ASSUME NEW n \in T PROVE n + 1 \in T
  <2>. SUFFICES ASSUME n + 1 <= Len(q) PROVE Left(w[n + 1], n + 1)
    BY <1>4
  <2>1. PICK m, c, l, g : m = n + 1 /\ c = w[n] /\ l = Len(c) /\ g = Over(u, p)
    OBVIOUS
  <2>2. m \in 1 .. Len(q) /\ m - 1 = n /\ n \in Nat /\ n <= Len(q)
    BY <1>1, <2>1
  <2>3. /\ c \in Seq(S) /\ l = n - Gone(n) /\ l \in Nat
        /\ \A k \in 1 .. l : c[k] = IF k <= p THEN q[k] ELSE q[k + g]
    <3>1. Left(c, n)
      BY <1>4, <2>1, <2>2
    <3>. QED  BY <2>1, <3>1
  <2>4. w[m] = IF q[m] \in set THEN Append(w[m - 1], q[m]) ELSE w[m - 1]
    BY <1>2, <2>2 DEF SelectsSo, Selecting
  <2>5. CASE ~(p < m /\ m <= u)
    <3>1. w[m] = Append(c, q[m]) /\ q[m] \in S
      BY <2>1, <2>2, <2>4, <2>5
    <3>2. m - Gone(m) = l + 1 /\ (IF l + 1 <= p THEN l + 1 ELSE (l + 1) + g) = m
      BY <1>1, <2>1, <2>2, <2>3, <2>5 DEF Over
    <3>3. PICK e, x : e = Append(c, x) /\ x = q[m] /\ x \in S
      BY <3>1
    <3>4. e \in Seq(S) /\ Len(e) = l + 1 /\ (\A k \in 1 .. l : e[k] = c[k]) /\ e[l + 1] = x
      BY <2>1, <2>3, <3>3, AppendProperties
    <3>5. ASSUME NEW k \in 1 .. l + 1 PROVE e[k] = IF k <= p THEN q[k] ELSE q[k + g]
      <4>1. CASE k = l + 1
        <5>1. (IF k <= p THEN q[k] ELSE q[k + g]) = q[IF k <= p THEN k ELSE k + g]
          OBVIOUS
        <5>2. (IF k <= p THEN k ELSE k + g) = m
          BY <3>2, <4>1
        <5>. QED  BY <3>3, <3>4, <4>1, <5>1, <5>2
      <4>2. CASE k # l + 1
        <5>1. k \in 1 .. l
          BY <2>3, <4>2
        <5>. QED  BY <2>3, <3>4, <5>1
      <4>. QED  BY <4>1, <4>2
    <3>6. w[m] = e
      BY <3>1, <3>3
    <3>7. Len(w[m]) = l + 1
      BY <3>4, <3>6
    <3>8. Left(w[m], m)
      BY <2>1, <3>2, <3>4, <3>5, <3>6, <3>7
    <3>. QED  BY <2>1, <3>8
  <2>6. CASE p < m /\ m <= u
    <3>1. w[m] = c
      BY <2>1, <2>2, <2>4, <2>6
    <3>2. m - Gone(m) = l
      BY <1>1, <2>1, <2>2, <2>3, <2>6 DEF Over
    <3>3. Left(w[m], m)
      BY <2>1, <2>3, <3>1, <3>2
    <3>. QED  BY <2>1, <3>3
  <2>. QED  BY <2>5, <2>6
<1>5. T = Nat
  <2>1. T \in SUBSET Nat
    OBVIOUS
  <2>. HIDE DEF T
  <2>. QED  BY <1>3, <1>4, <2>1, Induction
<1>6. Left(w[Len(q)], Len(q))
  <2>1. Len(q) \in T /\ Len(q) <= Len(q)
    BY <1>1, <1>5
  <2>. HIDE DEF Left
  <2>. QED  BY <2>1
<1>7. Gone(Len(q)) = Over(u, p)
  BY <1>1 DEF Over
<1>8. w[Len(q)] = Select(q, set)
  BY <1>2 DEF SelectsSo
<1>. QED  BY <1>6, <1>7, <1>8, Zenon DEF Leaves

-----------------------------------------------------------------------------
(* The refinement: the elements of the sequence are those of the promise.  *)

Elem == [score : Score, value : Value]
Es(d, q) == [k \in 1 .. Len(q) |-> [score |-> d[q[k]].score, value |-> d[q[k]].value]]

IsElements(e, d, q) ==
  /\ e \in Seq(Elem) /\ Len(e) = Len(q)
  /\ \A k \in 1 .. Len(q) : /\ e[k] \in Elem /\ e[k].score = d[q[k]].score /\ e[k].value = d[q[k]].value
                            /\ e[k] = [score |-> d[q[k]].score, value |-> d[q[k]].value]

Recorded(d, q) == q \in Seq(Node) /\ Len(q) \in Nat /\ \A a \in 1 .. Len(q) : q[a] \in Node /\ d[q[a]] \in Records

LEMMA EsAre ==
  ASSUME NEW d, NEW q, Recorded(d, q)
  PROVE  IsElements(Es(d, q), d, q)
<1>1. PICK l, e : l = Len(q) /\ l \in Nat /\ e = Es(d, q)
  BY DEF Recorded
<1>2. \A k \in 1 .. l : d[q[k]].score \in Score /\ d[q[k]].value \in Value
  BY <1>1, RecordIs DEF Recorded
<1>3. \A k \in 1 .. l : [score |-> d[q[k]].score, value |-> d[q[k]].value] \in Elem
  BY <1>2 DEF Elem
<1>4. e \in [1 .. l -> Elem] /\ \A k \in 1 .. l : e[k] = [score |-> d[q[k]].score, value |-> d[q[k]].value]
  <2>. DEFINE F(k) == [score |-> d[q[k]].score, value |-> d[q[k]].value]
  <2>1. \A k \in 1 .. l : F(k) \in Elem
    BY <1>3
  <2>2. e = [k \in 1 .. l |-> F(k)]
    BY <1>1, Zenon DEF Es
  <2>3. \A k \in 1 .. l : F(k) = [score |-> d[q[k]].score, value |-> d[q[k]].value]
    OBVIOUS
  <2>. HIDE DEF F
  <2>. QED  BY <2>1, <2>2, <2>3
<1>5. e \in Seq(Elem) /\ Len(e) = l
  BY <1>1, <1>4
<1>6. \A k \in 1 .. l : e[k] \in Elem /\ e[k].score = d[q[k]].score /\ e[k].value = d[q[k]].value
  BY <1>3, <1>4
<1>. QED  BY <1>1, <1>4, <1>5, <1>6 DEF IsElements

LEMMA HoldsRecorded ==
  ASSUME NEW q, Holds(sl, data, q)
  PROVE  Recorded(data, q)
BY UsedIs DEF Recorded

LEMMA ElementsAre ==
  ASSUME NEW q, Holds(sl, data, q)
  PROVE  Elements(Order) = Es(data, q)
<1>1. Order = q /\ q \in Seq(Node)
  BY OrderIs, UsedIs DEF OrderedAs
<1>2. PICK o : o = Order
  OBVIOUS
<1>3. DOMAIN o = 1 .. Len(q) /\ o = q
  BY <1>1, <1>2
<1>4. Elements(o) = [k \in DOMAIN o |-> [score |-> data[o[k]].score, value |-> data[o[k]].value]]
  BY Zenon DEF Elements
<1>5. Elements(o) = Es(data, q)
  BY <1>3, <1>4, Zenon DEF Es
<1>. QED  BY <1>2, <1>5

(* Where an element is inserted.                                           *)
Lower(x, s, v) == x.score < s \/ (x.score = s /\ x.value < v)

Inserted(e, f, s, v) ==
  LET new == [score |-> s, value |-> v]
      less == {x \in Elem : x.score < new.score \/ (x.score = new.score /\ x.value < new.value)}
  IN  f = Select(e, less) \o <<new>> \o Select(e, Elem \ less)

Concats(c, a, b, S) ==
  /\ c \in Seq(S) /\ Len(c) = Len(a) + Len(b)
  /\ \A k \in 1 .. Len(a) + Len(b) : c[k] = IF k <= Len(a) THEN a[k] ELSE b[k - Len(a)]

LEMMA ConcatIs ==
  ASSUME NEW S, NEW a, a \in Seq(S), NEW b, b \in Seq(S)
  PROVE  Concats(a \o b, a, b, S)
BY ConcatProperties DEF Concats

JoinsAt(e, f, p, new, less) ==
  /\ e \in Seq(Elem) /\ p \in 0 .. Len(e) /\ new \in Elem /\ f \in Seq(Elem) /\ Len(f) = Len(e) + 1
  /\ \A a \in 1 .. Len(e) : e[a] \in less <=> a <= p
  /\ \A k \in 1 .. Len(e) + 1 : f[k] = IF k <= p THEN e[k] ELSE IF k = p + 1 THEN new ELSE e[k - 1]
JoinsSo(e, f, new, less) == f = Select(e, less) \o <<new>> \o Select(e, Elem \ less)

LEMMA InsertJoins ==
  ASSUME NEW e, NEW f, NEW p, NEW new, NEW less, JoinsAt(e, f, p, new, less)
  PROVE  JoinsSo(e, f, new, less)
<1>. /\ e \in Seq(Elem) /\ p \in 0 .. Len(e) /\ new \in Elem /\ f \in Seq(Elem) /\ Len(f) = Len(e) + 1
     /\ \A a \in 1 .. Len(e) : e[a] \in less <=> a <= p
     /\ \A k \in 1 .. Len(e) + 1 : f[k] = IF k <= p THEN e[k] ELSE IF k = p + 1 THEN new ELSE e[k - 1]
  BY DEF JoinsAt
<1>1. Len(e) \in Nat /\ p \in Nat /\ p <= Len(e) /\ \A a \in 1 .. Len(e) : e[a] \in Elem
  OBVIOUS
<1>2. PICK x, y : x = Select(e, less) /\ y = Select(e, Elem \ less)
  OBVIOUS
<1>3. x \in Seq(Elem) /\ Len(x) = p /\ \A k \in 1 .. p : x[k] = e[k]
  <2>1. \A a \in 1 .. Len(e) : e[a] \in less <=> 0 < a /\ a <= p
    BY <1>1
  <2>2. 0 \in 0 .. Len(e)
    BY <1>1
  <2>3. IsPart(Select(e, less), Elem, e, 0, Over(p, 0))
    BY <2>1, <2>2, SelectPart
  <2>4. Over(p, 0) = p /\ \A k \in 1 .. p : 0 + k = k
    BY <1>1 DEF Over
  <2>. QED  BY <1>2, <2>3, <2>4 DEF IsPart
<1>4. y \in Seq(Elem) /\ Len(y) = Len(e) - p /\ \A k \in 1 .. Len(e) - p : y[k] = e[p + k]
  <2>1. \A a \in 1 .. Len(e) : e[a] \in Elem \ less <=> p < a /\ a <= Len(e)
    BY <1>1
  <2>2. Len(e) \in 0 .. Len(e)
    BY <1>1
  <2>3. IsPart(Select(e, Elem \ less), Elem, e, p, Over(Len(e), p))
    BY <2>1, <2>2, SelectPart
  <2>4. Over(Len(e), p) = Len(e) - p
    BY <1>1 DEF Over
  <2>. QED  BY <1>2, <2>3, <2>4 DEF IsPart
<1>5. PICK z : z = <<new>> /\ z \in Seq(Elem) /\ Len(z) = 1 /\ z[1] = new
  <2>1. Len(<<new>>) = 1 /\ <<new>>[1] = new
    OBVIOUS
  <2>2. <<new>> \in Seq(Elem)
    OBVIOUS
  <2>. QED  BY <2>1, <2>2, Zenon
<1>6. PICK w : w = x \o z /\ w \in Seq(Elem) /\ Len(w) = p + 1
               /\ \A k \in 1 .. p + 1 : w[k] = IF k <= p THEN e[k] ELSE new
  <2>c. Concats(x \o z, x, z, Elem)
    BY <1>3, <1>5, ConcatIs
  <2>1. x \o z \in Seq(Elem) /\ Len(x \o z) = p + 1
    BY <1>3, <1>5, <2>c DEF Concats
  <2>2. \A k \in 1 .. Len(x) + Len(z) : (x \o z)[k] = IF k <= Len(x) THEN x[k] ELSE z[k - Len(x)]
    BY <2>c, Zenon DEF Concats
  <2>3. \A k \in 1 .. p + 1 : (x \o z)[k] = IF k <= p THEN e[k] ELSE new
    <3>. SUFFICES ASSUME NEW k \in 1 .. p + 1 PROVE (x \o z)[k] = IF k <= p THEN e[k] ELSE new
      OBVIOUS
    <3>1. CASE k <= p
      <4>1. k \in 1 .. Len(x) + Len(z) /\ k <= Len(x) /\ k \in 1 .. p
        BY <1>1, <1>3, <1>5, <3>1
      <4>. QED  BY <1>3, <2>2, <3>1, <4>1
    <3>2. CASE ~(k <= p)
      <4>1. k \in 1 .. Len(x) + Len(z) /\ ~(k <= Len(x)) /\ k - Len(x) = 1
        BY <1>1, <1>3, <1>5, <3>2
      <4>. QED  BY <1>5, <2>2, <3>2, <4>1
    <3>. QED  BY <3>1, <3>2
  <2>. QED  BY <2>1, <2>3
<1>7. PICK g : g = w \o y
  OBVIOUS
<1>c. Concats(g, w, y, Elem)
  BY <1>4, <1>6, <1>7, ConcatIs
<1>8. g \in Seq(Elem) /\ Len(g) = Len(e) + 1
  <2>1. w \o y \in Seq(Elem) /\ Len(w \o y) = Len(w) + Len(y)
    BY <1>7, <1>c, Zenon DEF Concats
  <2>2. \A a, b \in Nat : a <= b => (a + 1) + (b - a) = b + 1
    OBVIOUS
  <2>. QED  BY <1>1, <1>4, <1>6, <1>7, <2>1, <2>2
<1>9. \A k \in 1 .. Len(w) + Len(y) : g[k] = IF k <= Len(w) THEN w[k] ELSE y[k - Len(w)]
  BY <1>c, Zenon DEF Concats
<1>10. \A k \in 1 .. Len(f) : f[k] = g[k]
  <2>. SUFFICES ASSUME NEW k \in 1 .. Len(e) + 1 PROVE f[k] = g[k]
    OBVIOUS
  <2>1. k \in 1 .. Len(w) + Len(y)
    BY <1>1, <1>4, <1>6
  <2>2. CASE k <= p + 1
    <3>1. k <= Len(w) /\ k \in 1 .. p + 1
      BY <1>1, <1>6, <2>2
    <3>2. f[k] = IF k <= p THEN e[k] ELSE new
      BY <1>1, <3>1
    <3>. QED  BY <1>6, <1>9, <2>1, <3>1, <3>2
  <2>3. CASE ~(k <= p + 1)
    <3>1. ~(k <= Len(w)) /\ k - Len(w) = k - (p + 1) /\ k - (p + 1) \in 1 .. Len(e) - p /\ p + (k - (p + 1)) = k - 1
      BY <1>1, <1>6, <2>3
    <3>2. f[k] = e[k - 1]
      BY <1>1, <2>3
    <3>3. PICK j : j = k - (p + 1) /\ j \in 1 .. Len(e) - p /\ p + j = k - 1
      BY <3>1
    <3>4. g[k] = y[j]
      BY <1>9, <2>1, <3>1, <3>3
    <3>5. y[j] = e[p + j]
      BY <1>4, <3>3
    <3>. QED  BY <3>2, <3>3, <3>4, <3>5
  <2>. QED  BY <2>2, <2>3
<1>11. f = g
  BY <1>8, <1>10, SeqEqual
<1>. QED  BY <1>2, <1>5, <1>6, <1>7, <1>11, Zenon DEF JoinsSo

LEMMA InsertElements ==
  ASSUME NEW q, Holds(sl, data, q), NEW s, s \in Score, NEW v, v \in Value,
         NEW height, height \in 1 .. MaxLevel, NEW n, n \in Node, NEW p, Splits(q, LessElem(s, v), p),
         dmbSkipListInsert(s, v, height, n)
  PROVE  Inserted(Es(data, q), Es(data', InsertAt(q, p, n)), s, v)
<1>1. Recorded(data, q) /\ \A a \in 1 .. Len(q) : q[a] \in Used
  BY HoldsRecorded, UsedIs
<1>2. n \notin Used
  BY InsertHolds
<1>3. PICK d, d2 : /\ d = data /\ d2 = data'
                   /\ d2 = [d EXCEPT ![n] = [score |-> s, value |-> v, height |-> height]]
  BY DEF dmbSkipListInsert
<1>4. d \in [Node -> Records \cup {NULL}]
  BY <1>3 DEF Holds
<1>5. PICK l, t : l = Len(q) /\ t = InsertAt(q, p, n)
  OBVIOUS
<1>6. p \in 0 .. l /\ l \in Nat /\ \A a \in 1 .. l : q[a] \in Node /\ d[q[a]] \in Records /\ q[a] # n
  BY <1>1, <1>2, <1>3, <1>5 DEF Recorded, Splits
<1>7. /\ t \in Seq(Node) /\ Len(t) = l + 1
      /\ \A a \in 1 .. l + 1 : t[a] = IF a <= p THEN q[a] ELSE IF a = p + 1 THEN n ELSE q[a - 1]
  <2>1. t = [a \in 1 .. l + 1 |-> IF a <= p THEN q[a] ELSE IF a = p + 1 THEN n ELSE q[a - 1]]
    BY <1>5, Zenon DEF InsertAt
  <2>2. \A a \in 1 .. l + 1 : (IF a <= p THEN q[a] ELSE IF a = p + 1 THEN n ELSE q[a - 1]) \in Node
    <3>. SUFFICES ASSUME NEW a \in 1 .. l + 1
                  PROVE  (IF a <= p THEN q[a] ELSE IF a = p + 1 THEN n ELSE q[a - 1]) \in Node
      OBVIOUS
    <3>1. CASE a <= p
      BY <1>6, <3>1
    <3>2. CASE a > p + 1
      <4>1. a - 1 \in 1 .. l /\ ~(a <= p) /\ a # p + 1
        BY <1>6, <3>2
      <4>. QED  BY <1>6, <4>1
    <3>3. CASE a = p + 1
      BY <1>6, <3>3
    <3>. QED  BY <1>6, <3>1, <3>2, <3>3
  <2>. QED  BY <1>6, <2>1, <2>2
<1>8. PICK rec : rec = [score |-> s, value |-> v, height |-> height]
  OBVIOUS
<1>9. rec \in Records /\ rec.score = s /\ rec.value = v
  BY <1>8 DEF Records
<1>10. d2[n] = rec /\ \A m \in Node \ {n} : d2[m] = d[m]
  BY <1>3, <1>4, <1>8
<1>11. Recorded(d2, t)
  <2>1. \A a \in 1 .. l + 1 : t[a] \in Node /\ d2[t[a]] \in Records
    <3>. SUFFICES ASSUME NEW a \in 1 .. l + 1 PROVE t[a] \in Node /\ d2[t[a]] \in Records
      OBVIOUS
    <3>1. CASE a <= p
      <4>1. a \in 1 .. l /\ t[a] = q[a]
        BY <1>6, <1>7, <3>1
      <4>. QED  BY <1>6, <1>10, <4>1
    <3>2. CASE a > p + 1
      <4>1. a - 1 \in 1 .. l /\ t[a] = q[a - 1]
        BY <1>6, <1>7, <3>2
      <4>. QED  BY <1>6, <1>10, <4>1
    <3>3. CASE a = p + 1
      <4>1. t[a] = n
        BY <1>6, <1>7, <3>3
      <4>. QED  BY <1>9, <1>10, <4>1
    <3>. QED  BY <1>6, <3>1, <3>2, <3>3
  <2>. QED  BY <1>6, <1>7, <2>1 DEF Recorded
<1>12. PICK e, f : e = Es(d, q) /\ f = Es(d2, t)
  OBVIOUS
<1>13. IsElements(e, d, q) /\ IsElements(f, d2, t)
  BY <1>1, <1>3, <1>11, <1>12, EsAre
<1>14. /\ e \in Seq(Elem) /\ Len(e) = l /\ f \in Seq(Elem) /\ Len(f) = Len(e) + 1
       /\ \A a \in 1 .. l : e[a] \in Elem /\ e[a].score = d[q[a]].score /\ e[a].value = d[q[a]].value
  BY <1>5, <1>7, <1>13 DEF IsElements
<1>15. PICK new : new = [score |-> s, value |-> v]
  OBVIOUS
<1>16. new \in Elem /\ new.score = s /\ new.value = v
  BY <1>15 DEF Elem
<1>17. PICK less : less = {x \in Elem : x.score < new.score \/ (x.score = new.score /\ x.value < new.value)}
  OBVIOUS
<1>18. \A a \in 1 .. Len(e) : e[a] \in less <=> a <= p
  <2>. SUFFICES ASSUME NEW a \in 1 .. l PROVE e[a] \in less <=> a <= p
    BY <1>14
  <2>1. q[a] \in LessElem(s, v) <=> a <= p
    BY <1>5 DEF Splits
  <2>2. q[a] \in LessElem(s, v) <=> s > d[q[a]].score \/ (s = d[q[a]].score /\ v > d[q[a]].value)
    BY <1>1, <1>3, <1>5 DEF LessElem
  <2>3. PICK y : y = d[q[a]] /\ y \in Records
    BY <1>6
  <2>4. y.score \in Int /\ y.value \in Int /\ s \in Int /\ v \in Int
    BY <2>3, RecordIs, SkipListAssumption
  <2>5. PICK x : x = e[a] /\ x \in Elem /\ x.score = y.score /\ x.value = y.value
    BY <1>14, <2>3
  <2>6. x \in less <=> x.score < s \/ (x.score = s /\ x.value < v)
    BY <1>16, <1>17, <2>5
  <2>. QED  BY <2>1, <2>2, <2>3, <2>4, <2>5, <2>6
<1>19. \A k \in 1 .. Len(e) + 1 : f[k] = IF k <= p THEN e[k] ELSE IF k = p + 1 THEN new ELSE e[k - 1]
  <2>. SUFFICES ASSUME NEW k \in 1 .. l + 1
                PROVE  f[k] = IF k <= p THEN e[k] ELSE IF k = p + 1 THEN new ELSE e[k - 1]
    BY <1>14
  <2>1. f[k] = [score |-> d2[t[k]].score, value |-> d2[t[k]].value]
    BY <1>7, <1>13 DEF IsElements
  <2>2. \A a \in 1 .. l : e[a] = [score |-> d[q[a]].score, value |-> d[q[a]].value]
    BY <1>5, <1>13 DEF IsElements
  <2>3. CASE k <= p
    <3>1. k \in 1 .. l /\ t[k] = q[k]
      BY <1>6, <1>7, <2>3
    <3>2. d2[t[k]] = d[q[k]]
      BY <1>6, <1>10, <3>1
    <3>3. f[k] = e[k]
      BY <2>1, <2>2, <3>1, <3>2
    <3>. QED  BY <2>3, <3>3
  <2>4. CASE k > p + 1
    <3>1. k - 1 \in 1 .. l /\ t[k] = q[k - 1] /\ ~(k <= p) /\ k # p + 1
      BY <1>6, <1>7, <2>4
    <3>2. d2[t[k]] = d[q[k - 1]]
      BY <1>6, <1>10, <3>1
    <3>3. f[k] = e[k - 1]
      BY <2>1, <2>2, <3>1, <3>2
    <3>. QED  BY <3>1, <3>3
  <2>5. CASE k = p + 1
    <3>1. t[k] = n /\ ~(k <= p)
      BY <1>6, <1>7, <2>5
    <3>2. f[k] = [score |-> s, value |-> v]
      BY <1>9, <1>10, <2>1, <3>1
    <3>. QED  BY <1>15, <2>5, <3>1, <3>2
  <2>. QED  BY <1>6, <2>3, <2>4, <2>5
<1>20. f = Select(e, less) \o <<new>> \o Select(e, Elem \ less)
  <2>1. p \in 0 .. Len(e)
    BY <1>6, <1>14
  <2>2. JoinsAt(e, f, p, new, less)
    BY <1>14, <1>16, <1>18, <1>19, <2>1 DEF JoinsAt
  <2>3. JoinsSo(e, f, new, less)
    BY <2>2, InsertJoins
  <2>. QED  BY <2>3, Zenon DEF JoinsSo
<1>21. Inserted(e, f, s, v)
  BY <1>15, <1>17, <1>20, Zenon DEF Inserted
<1>. QED  BY <1>3, <1>5, <1>12, <1>21

(* What is left of the elements when nodes are cut out of the sequence.    *)
StaysIn(d2, d, q, p, k) == \A a \in 1 .. Len(q) : a <= p \/ a > p + k => d2[q[a]] = d[q[a]]

LEMMA CutElements ==
  ASSUME NEW d, NEW q, Recorded(d, q), NEW p, p \in Nat, NEW k, k \in Nat, p + k <= Len(q),
         NEW d2, StaysIn(d2, d, q, p, k)
  PROVE  Leaves(Es(d2, Cut(q, p, k)), Elem, Es(d, q), p, k)
<1>1. PICK t, l : t = Cut(q, p, k) /\ l = Len(q) /\ l \in Nat
  BY DEF Recorded
<1>2. q \in Seq(Node) /\ \A a \in 1 .. l : q[a] \in Node /\ d[q[a]] \in Records
  BY <1>1 DEF Recorded
<1>3. t \in Seq(Node) /\ Len(t) = l - k /\ \A a \in 1 .. l - k : t[a] = IF a <= p THEN q[a] ELSE q[a + k]
  <2>1. IsCut(t, q, p, k)
    BY <1>1, <1>2, CutIs
  <2>2. t \in Seq(Node) /\ Len(t) = l - k
    BY <1>1, <2>1 DEF IsCut
  <2>3. \A a \in 1 .. Len(t) : t[a] = IF a <= p THEN q[a] ELSE q[a + k]
    BY <2>1 DEF IsCut
  <2>. QED  BY <2>2, <2>3
<1>4. l - k \in Nat /\ p + k <= l
  BY <1>1
<1>5. \A a \in 1 .. l - k : LET b == IF a <= p THEN a ELSE a + k IN b \in 1 .. l /\ (b <= p \/ b > p + k)
  BY <1>1, <1>4
<1>6. \A a \in 1 .. l - k : LET b == IF a <= p THEN a ELSE a + k
                            IN  t[a] = q[b] /\ d2[t[a]] = d[q[b]] /\ b \in 1 .. l
  <2>. SUFFICES ASSUME NEW a \in 1 .. l - k, NEW b, b = IF a <= p THEN a ELSE a + k
                PROVE  t[a] = q[b] /\ d2[t[a]] = d[q[b]] /\ b \in 1 .. l
    OBVIOUS
  <2>1. b \in 1 .. l /\ (b <= p \/ b > p + k)
    BY <1>5
  <2>2. t[a] = q[b]
    BY <1>3
  <2>3. d2[q[b]] = d[q[b]]
    BY <1>1, <2>1 DEF StaysIn
  <2>. QED  BY <2>1, <2>2, <2>3
<1>7. Recorded(d2, t)
  <2>1. \A a \in 1 .. l - k : t[a] \in Node /\ d2[t[a]] \in Records
    BY <1>2, <1>6
  <2>. QED  BY <1>3, <1>4, <2>1 DEF Recorded
<1>8. PICK e, f : e = Es(d, q) /\ f = Es(d2, t)
  OBVIOUS
<1>9. IsElements(e, d, q) /\ IsElements(f, d2, t)
  BY <1>7, <1>8, EsAre
<1>10. f \in Seq(Elem) /\ Len(f) = Len(e) - k /\ Len(f) = l - k
  BY <1>1, <1>3, <1>9 DEF IsElements
<1>11. \A a \in 1 .. l - k : f[a] = IF a <= p THEN e[a] ELSE e[a + k]
  <2>. SUFFICES ASSUME NEW a \in 1 .. l - k, NEW b, b = IF a <= p THEN a ELSE a + k PROVE f[a] = e[b]
    OBVIOUS
  <2>1. t[a] = q[b] /\ d2[t[a]] = d[q[b]] /\ b \in 1 .. l
    BY <1>6
  <2>2. f[a] = [score |-> d2[t[a]].score, value |-> d2[t[a]].value]
    BY <1>3, <1>9 DEF IsElements
  <2>3. e[b] = [score |-> d[q[b]].score, value |-> d[q[b]].value]
    BY <1>1, <1>9, <2>1 DEF IsElements
  <2>. QED  BY <2>1, <2>2, <2>3
<1>12. Leaves(f, Elem, e, p, k)
  BY <1>10, <1>11 DEF Leaves
<1>. QED  BY <1>1, <1>8, <1>12

LEMMA LeavesUnique ==
  ASSUME NEW S, NEW e, NEW p, NEW l, NEW c, Leaves(c, S, e, p, l), NEW f, Leaves(f, S, e, p, l)
  PROVE  c = f
<1>1. /\ c \in Seq(S) /\ f \in Seq(S) /\ Len(c) = Len(f)
      /\ \A k \in 1 .. Len(c) : c[k] = f[k]
  BY DEF Leaves
<1>. QED  BY <1>1, SeqEqual

LEMMA SubSeqLeaves ==
  ASSUME NEW S, NEW e, e \in Seq(S), NEW i, i \in 1 .. Len(e)
  PROVE  Leaves(SubSeq(e, 1, i - 1) \o SubSeq(e, i + 1, Len(e)), S, e, i - 1, 1)
<1>1. PICK l, p : l = Len(e) /\ l \in Nat /\ p = i - 1 /\ p \in Nat /\ i = p + 1 /\ i + 1 = p + 2 /\ p < l
  OBVIOUS
<1>2. PICK x, y : x = SubSeq(e, 1, p) /\ y = SubSeq(e, p + 2, l)
  OBVIOUS
<1>3. l \in 0 .. Len(e) /\ p \in 0 .. Len(e) /\ 0 + 1 = 1 /\ (p + 1) + 1 = p + 2 /\ p + 1 \in Nat
  BY <1>1
<1>4. x \in Seq(S) /\ Len(x) = p /\ \A k \in 1 .. p : x[k] = e[k]
  <2>1. IsPart(SubSeq(e, 0 + 1, p), S, e, 0, Over(p, 0))
    BY <1>3, SubSeqPart
  <2>2. Over(p, 0) = p /\ \A k \in 1 .. p : 0 + k = k
    BY <1>1 DEF Over
  <2>3. IsPart(x, S, e, 0, p)
    BY <1>2, <1>3, <2>1, <2>2
  <2>. QED  BY <2>2, <2>3 DEF IsPart
<1>5. y \in Seq(S) /\ Len(y) = l - (p + 1) /\ \A k \in 1 .. l - (p + 1) : y[k] = e[p + 1 + k]
  <2>1. IsPart(SubSeq(e, (p + 1) + 1, l), S, e, p + 1, Over(l, p + 1))
    BY <1>3, SubSeqPart
  <2>2. Over(l, p + 1) = l - (p + 1)
    BY <1>1 DEF Over
  <2>3. IsPart(y, S, e, p + 1, l - (p + 1))
    BY <1>2, <1>3, <2>1, <2>2
  <2>. QED  BY <2>3 DEF IsPart
<1>6. PICK g : g = x \o y
  OBVIOUS
<1>c. Concats(g, x, y, S)
  BY <1>4, <1>5, <1>6, ConcatIs
<1>7. g \in Seq(S) /\ Len(g) = l - 1
  <2>1. x \o y \in Seq(S) /\ Len(x \o y) = Len(x) + Len(y)
    BY <1>6, <1>c, Zenon DEF Concats
  <2>2. p + (l - (p + 1)) = l - 1
    BY <1>1
  <2>. QED  BY <1>4, <1>5, <1>6, <2>1, <2>2
<1>8. \A k \in 1 .. Len(x) + Len(y) : g[k] = IF k <= Len(x) THEN x[k] ELSE y[k - Len(x)]
  BY <1>c, Zenon DEF Concats
<1>9. \A k \in 1 .. l - 1 : g[k] = IF k <= p THEN e[k] ELSE e[k + 1]
  <2>. SUFFICES ASSUME NEW k \in 1 .. l - 1 PROVE g[k] = IF k <= p THEN e[k] ELSE e[k + 1]
    OBVIOUS
  <2>1. k \in 1 .. Len(x) + Len(y)
    BY <1>1, <1>4, <1>5
  <2>2. CASE k <= p
    <3>1. k <= Len(x) /\ k \in 1 .. p
      <4>1. Len(x) = p
        BY <1>4
      <4>. QED  BY <1>1, <2>2, <4>1
    <3>. QED  BY <1>4, <1>8, <2>1, <2>2, <3>1
  <2>3. CASE ~(k <= p)
    <3>1. ~(k <= Len(x)) /\ k - Len(x) = k - p /\ k - p \in 1 .. l - (p + 1) /\ p + 1 + (k - p) = k + 1
      BY <1>1, <1>4, <2>3
    <3>2. PICK j : j = k - p /\ j \in 1 .. l - (p + 1) /\ p + 1 + j = k + 1
      BY <3>1
    <3>3. g[k] = y[j]
      BY <1>8, <2>1, <3>1, <3>2
    <3>4. y[j] = e[p + 1 + j]
      BY <1>5, <3>2
    <3>. QED  BY <2>3, <3>2, <3>3, <3>4
  <2>. QED  BY <2>2, <2>3
<1>10. Leaves(g, S, e, p, 1)
  BY <1>1, <1>7, <1>9 DEF Leaves
<1>. QED  BY <1>1, <1>2, <1>6, <1>10

(* What is removed, when one element is.                                   *)
RemovesOne(e, f, s, v, ret) ==
  \E found : /\ found = {i \in DOMAIN e : e[i] = [score |-> s, value |-> v]}
             /\ ret = (found # {})
             /\ found = {} => f = e
             /\ found # {} => \E i \in found : f = SubSeq(e, 1, i - 1) \o SubSeq(e, i + 1, Len(e))

LEMMA RemoveOneElements ==
  ASSUME NEW q, Holds(sl, data, q), NEW s, s \in Score, NEW v, v \in Value, dmbSkipListRemoveOne(s, v),
         NEW p, Splits(q, LessElem(s, v), p), NEW t, t = IF Finds(data, q, p, s, v) THEN RemoveAt(q, p) ELSE q
  PROVE  RemovesOne(Es(data, q), Es(data', t), s, v, Finds(data, q, p, s, v))
<1>1. Recorded(data, q) /\ \A a \in 1 .. Len(q) : q[a] \in Used
  BY HoldsRecorded, UsedIs
<1>2. PICK d, d2, l : d = data /\ d2 = data' /\ l = Len(q) /\ l \in Nat
  BY <1>1 DEF Recorded
<1>3. q \in Seq(Node) /\ \A a \in 1 .. l : q[a] \in Node /\ d[q[a]] \in Records
  BY <1>1, <1>2 DEF Recorded
<1>4. Injective(q) /\ Sorted(q, d) /\ p \in 0 .. l /\ d \in [Node -> Records \cup {NULL}]
  BY <1>2 DEF Holds, Built, Ordered, Splits
<1>5. PICK e, f : e = Es(d, q) /\ f = Es(d2, t)
  OBVIOUS
<1>6. IsElements(e, d, q)
  BY <1>1, <1>2, <1>5, EsAre
<1>7. e \in Seq(Elem) /\ Len(e) = l /\ DOMAIN e = 1 .. l
  BY <1>2, <1>6 DEF IsElements
<1>8. \A a \in 1 .. l : e[a] = [score |-> d[q[a]].score, value |-> d[q[a]].value]
  BY <1>2, <1>6 DEF IsElements
<1>9. PICK found : found = {i \in DOMAIN e : e[i] = [score |-> s, value |-> v]}
  OBVIOUS
<1>10. \A a \in 1 .. l : a \in found <=> d[q[a]].score = s /\ d[q[a]].value = v
  BY <1>7, <1>8, <1>9
<1>11. CASE Finds(data, q, p, s, v)
  <2>1. p + 1 \in 1 .. l /\ d[q[p + 1]].score = s /\ d[q[p + 1]].value = v /\ p + 1 <= l /\ p \in Nat
    BY <1>2, <1>4, <1>11 DEF Finds
  <2>2. p + 1 \in found
    BY <1>10, <2>1
  <2>3. PICK n : n = q[p + 1] /\ n \in Node
    BY <1>3, <2>1
  <2>4. d2 = [d EXCEPT ![n] = NULL]
    BY <1>2, <1>11, <2>3, RemoveOneDoes
  <2>5. StaysIn(d2, d, q, p, 1)
    <3>1. \A a \in 1 .. l : a <= p \/ a > p + 1 => q[a] # n
      <4>. SUFFICES ASSUME NEW a \in 1 .. l, a <= p \/ a > p + 1 PROVE q[a] # n
        OBVIOUS
      <4>1. a # p + 1
        BY <1>2, <2>1
      <4>. QED  BY <1>2, <1>4, <2>1, <2>3, <4>1 DEF Injective
    <3>. QED  BY <1>2, <1>3, <1>4, <2>4, <3>1 DEF StaysIn
  <2>6. t = Cut(q, p, 1)
    <3>1. t = RemoveAt(q, p)
      BY <1>11
    <3>. QED  BY <3>1, Zenon DEF RemoveAt, Cut
  <2>7. Leaves(f, Elem, e, p, 1)
    <3>1. 1 \in Nat /\ p + 1 <= Len(q) /\ Recorded(d, q)
      BY <1>1, <1>2, <2>1
    <3>2. Leaves(Es(d2, Cut(q, p, 1)), Elem, Es(d, q), p, 1)
      BY <2>1, <2>5, <3>1, CutElements
    <3>. QED  BY <1>5, <2>6, <3>2
  <2>8. Leaves(SubSeq(e, 1, (p + 1) - 1) \o SubSeq(e, (p + 1) + 1, Len(e)), Elem, e, p, 1)
    <3>1. PICK i : i = p + 1 /\ i \in 1 .. Len(e) /\ i - 1 = p
      BY <1>7, <2>1
    <3>2. Leaves(SubSeq(e, 1, i - 1) \o SubSeq(e, i + 1, Len(e)), Elem, e, i - 1, 1)
      BY <1>7, <3>1, SubSeqLeaves
    <3>. QED  BY <3>1, <3>2
  <2>9. f = SubSeq(e, 1, (p + 1) - 1) \o SubSeq(e, (p + 1) + 1, Len(e))
    BY <2>7, <2>8, LeavesUnique
  <2>10. Finds(data, q, p, s, v) = (found # {})
    BY <1>11, <2>2
  <2>11. found # {} /\ \E i \in found : f = SubSeq(e, 1, i - 1) \o SubSeq(e, i + 1, Len(e))
    BY <2>2, <2>9
  <2>12. RemovesOne(e, f, s, v, Finds(data, q, p, s, v))
    BY <1>9, <2>10, <2>11, Zenon DEF RemovesOne
  <2>. QED  BY <1>2, <1>5, <2>12
<1>12. CASE ~Finds(data, q, p, s, v)
  <2>1. found = {}
    <3>. SUFFICES ASSUME NEW i \in found PROVE FALSE
      OBVIOUS
    <3>1. i \in 1 .. l /\ d[q[i]].score = s /\ d[q[i]].value = v
      BY <1>7, <1>8, <1>9, <1>10
    <3>2. \A a \in 1 .. l : ~(a <= p) => ~(s > d[q[a]].score \/ (s = d[q[a]].score /\ v > d[q[a]].value))
      BY <1>1, <1>2 DEF Splits, LessElem
    <3>3. s \in Int /\ v \in Int
      BY SkipListAssumption
    <3>4. ~(i <= p)
      <4>1. q[i] \in LessElem(s, v) <=> i <= p
        BY <1>2, <3>1 DEF Splits
      <4>2. q[i] \in LessElem(s, v) => s > d[q[i]].score \/ (s = d[q[i]].score /\ v > d[q[i]].value)
        BY <1>2 DEF LessElem
      <4>. QED  BY <3>1, <3>3, <4>1, <4>2
    <3>5. p + 1 \in 1 .. l /\ p < l /\ ~(p + 1 <= p)
      BY <1>2, <1>4, <3>1, <3>4
    <3>6. PICK x : x = d[q[p + 1]] /\ x.score \in Int /\ x.value \in Int
      BY <1>3, <3>5, RecordIs
    <3>7. ~(x.score = s /\ x.value = v)
      BY <1>2, <1>12, <3>5, <3>6 DEF Finds
    <3>8. ~(s > x.score \/ (s = x.score /\ v > x.value))
      BY <3>2, <3>5, <3>6
    <3>9. CASE i = p + 1
      BY <3>1, <3>6, <3>7, <3>9
    <3>10. CASE i # p + 1
      <4>1. p + 1 < i
        BY <1>2, <1>4, <3>1, <3>4, <3>10
      <4>2. NotAfter(d[q[p + 1]], d[q[i]])
        BY <1>2, <1>4, <3>1, <3>5, <4>1 DEF Sorted
      <4>3. x.score < s \/ (x.score = s /\ x.value <= v)
        BY <3>1, <3>6, <4>2 DEF NotAfter
      <4>. QED  BY <3>3, <3>6, <3>7, <3>8, <4>3
    <3>. QED  BY <3>9, <3>10
  <2>2. d2 = d /\ t = q
    BY <1>2, <1>12, RemoveOneDoes
  <2>3. f = e
    BY <1>5, <2>2
  <2>4. Finds(data, q, p, s, v) = (found # {})
    <3>1. Finds(data, q, p, s, v) \in BOOLEAN
      BY DEF Finds
    <3>2. PICK b : b = Finds(data, q, p, s, v) /\ b \in BOOLEAN
      BY <3>1
    <3>. QED  BY <1>12, <2>1, <3>2
  <2>5. RemovesOne(e, f, s, v, Finds(data, q, p, s, v))
    BY <1>9, <2>1, <2>3, <2>4, Zenon DEF RemovesOne
  <2>. QED  BY <1>2, <1>5, <2>5
<1>. QED  BY <1>11, <1>12

(* What is removed, when a range is.                                       *)
RemovesRange(e, f, start, end, ret) ==
  LET outside == {x \in Elem : x.score < start \/ x.score > end}
  IN  f = Select(e, outside) /\ ret = Len(e) - Len(f)

LEMMA RemoveRangeElements ==
  ASSUME NEW q, Holds(sl, data, q), NEW start, start \in Score, NEW end, end \in Score,
         dmbSkipListRemoveByScore(start, end), NEW p, Splits(q, LessScore(start), p),
         NEW u, Splits(q, NotAbove(end), u)
  PROVE  RemovesRange(Es(data, q), Es(data', Cut(q, p, Over(u, p))), start, end, Over(u, p))
<1>1. Recorded(data, q) /\ \A a \in 1 .. Len(q) : q[a] \in Used
  BY HoldsRecorded, UsedIs
<1>2. PICK d, d2, l, k : d = data /\ d2 = data' /\ l = Len(q) /\ l \in Nat /\ k = Over(u, p)
  BY <1>1 DEF Recorded
<1>3. q \in Seq(Node) /\ \A a \in 1 .. l : q[a] \in Node /\ d[q[a]] \in Records
  BY <1>1, <1>2 DEF Recorded
<1>4. Injective(q) /\ p \in 0 .. l /\ u \in 0 .. l
  BY <1>2 DEF Holds, Built, Ordered, Splits
<1>5. k \in Nat /\ p + k <= l /\ \A a \in 1 .. l : (p < a /\ a <= u) <=> (p < a /\ a <= p + k)
  BY <1>2, <1>4 DEF Over
<1>6. d2 = Emptied(d, q, p, k)
  BY <1>2, RemoveByScoreDoes
<1>7. StaysIn(d2, d, q, p, k)
  <2>. SUFFICES ASSUME NEW a \in 1 .. l, a <= p \/ a > p + k PROVE d2[q[a]] = d[q[a]]
    BY <1>2 DEF StaysIn
  <2>1. \A b \in p + 1 .. p + k : b \in 1 .. l /\ b # a
    BY <1>2, <1>4, <1>5
  <2>2. \A b \in p + 1 .. p + k : q[b] # q[a]
    BY <1>2, <1>4, <2>1 DEF Injective
  <2>. QED  BY <1>3, <1>6, <2>2 DEF Emptied
<1>8. PICK e, f : e = Es(d, q) /\ f = Es(d2, Cut(q, p, k))
  OBVIOUS
<1>9. Leaves(f, Elem, e, p, k)
  <2>1. p \in Nat /\ p + k <= Len(q) /\ Recorded(d, q)
    BY <1>1, <1>2, <1>4, <1>5
  <2>. QED  BY <1>5, <1>7, <1>8, <2>1, CutElements
<1>10. IsElements(e, d, q)
  BY <1>1, <1>2, <1>8, EsAre
<1>11. /\ e \in Seq(Elem) /\ Len(e) = l
       /\ \A a \in 1 .. l : e[a] \in Elem /\ e[a].score = d[q[a]].score
  BY <1>2, <1>10 DEF IsElements
<1>12. PICK outside : outside = {x \in Elem : x.score < start \/ x.score > end}
  OBVIOUS
<1>13. \A a \in 1 .. Len(e) : e[a] \in outside <=> ~(p < a /\ a <= u)
  <2>. SUFFICES ASSUME NEW a \in 1 .. l PROVE e[a] \in outside <=> ~(p < a /\ a <= u)
    BY <1>11
  <2>1. PICK c : c = d[q[a]].score /\ c \in Int
    BY <1>3, RecordIs
  <2>2. start \in Int /\ end \in Int
    BY SkipListAssumption
  <2>3. a <= p <=> start > c
    <3>1. q[a] \in LessScore(start) <=> a <= p
      BY <1>2 DEF Splits
    <3>2. q[a] \in LessScore(start) <=> start > d[q[a]].score
      BY <1>1, <1>2 DEF LessScore
    <3>. QED  BY <2>1, <3>1, <3>2
  <2>4. a <= u <=> end >= c
    <3>1. q[a] \in NotAbove(end) <=> a <= u
      BY <1>2 DEF Splits
    <3>2. q[a] \in NotAbove(end) <=> end >= d[q[a]].score
      BY <1>1, <1>2 DEF NotAbove
    <3>. QED  BY <2>1, <3>1, <3>2
  <2>5. e[a] \in outside <=> c < start \/ c > end
    BY <1>11, <1>12, <2>1
  <2>. QED  BY <1>2, <1>4, <2>1, <2>2, <2>3, <2>4, <2>5
<1>14. Leaves(Select(e, outside), Elem, e, p, k)
  <2>1. p \in 0 .. Len(e) /\ u \in 0 .. Len(e)
    BY <1>4, <1>11
  <2>2. Leaves(Select(e, outside), Elem, e, p, Over(u, p))
    BY <1>11, <1>13, <2>1, SelectRest
  <2>. QED  BY <1>2, <2>2
<1>15. f = Select(e, outside)
  BY <1>9, <1>14, LeavesUnique
<1>16. k = Len(e) - Len(f)
  <2>1. Len(f) = Len(e) - k
    BY <1>9 DEF Leaves
  <2>. QED  BY <1>2, <1>5, <1>11, <2>1
<1>17. RemovesRange(e, f, start, end, k)
  BY <1>12, <1>15, <1>16, Zenon DEF RemovesRange
<1>. QED  BY <1>2, <1>8, <1>17

ElementsHeld == \A q : Holds(sl, data, q) => Elements(Order) = Es(data, q)

LEMMA AlwaysElements == ElementsHeld
BY ElementsAre DEF ElementsHeld

LEMMA ElementsHeldNext == ElementsHeld'
BY AlwaysElements, PTL

LEMMA ElementsBecome ==
  ASSUME NEW q, Holds(sl', data', q)
  PROVE  Elements(Order)' = Es(data', q)
BY ElementsHeldNext DEF ElementsHeld

LEMMA SelectsAlike == \A c, set : Promise!Select(c, set) = Select(c, set)
BY Zenon DEF Select, Promise!Select

(* Each call does what is promised of it.                                  *)
LEMMA InsertPromised ==
  ASSUME NEW q, Holds(sl, data, q), NEW s, s \in Score, NEW v, v \in Value,
         NEW height, height \in 1 .. MaxLevel, NEW n, n \in Node, dmbSkipListInsert(s, v, height, n)
  PROVE  Promise!Insert(s, v)
<1>1. PICK p : Splits(q, LessElem(s, v), p)
  BY LessElemSplits
<1>2. Holds(sl', data', InsertAt(q, p, n))
  BY <1>1, InsertHolds
<1>3. PICK e, f : e = Es(data, q) /\ f = Es(data', InsertAt(q, p, n))
  OBVIOUS
<1>4. Elements(Order) = e /\ Elements(Order)' = f
  BY <1>2, <1>3, ElementsAre, ElementsBecome
<1>5. Inserted(e, f, s, v)
  BY <1>1, <1>3, InsertElements
<1>6. last' = [op |-> "insert", args |-> <<s, v>>, ret |-> "ok"]
  BY DEF dmbSkipListInsert, Returned
<1>7. Inserted(Elements(Order), Elements(Order)', s, v)
  BY <1>4, <1>5, Zenon
<1>8. PICK new : new = [score |-> s, value |-> v]
  OBVIOUS
<1>9. Promise!Elem = Elem
  BY Zenon DEF Elem, Promise!Elem
<1>10. PICK less : less = {x \in Elem : x.score < new.score \/ (x.score = new.score /\ x.value < new.value)}
  OBVIOUS
<1>11. less = {x \in Promise!Elem : Promise!Before(x, new)}
  BY <1>9, <1>10, Zenon DEF Promise!Before
<1>12. Elements(Order)' = Select(Elements(Order), less) \o <<new>> \o Select(Elements(Order), Elem \ less)
  BY <1>7, <1>8, <1>10, Zenon DEF Inserted
<1>13. Elements(Order)' = Promise!Select(Elements(Order), {x \in Promise!Elem : Promise!Before(x, [score |-> s, value |-> v])})
                          \o <<[score |-> s, value |-> v]>>
                          \o Promise!Select(Elements(Order), Promise!Elem \ {x \in Promise!Elem :
                                                       Promise!Before(x, [score |-> s, value |-> v])})
  BY <1>8, <1>9, <1>11, <1>12, SelectsAlike, Zenon
<1>14. last'.op = "insert"
  BY <1>6
<1>. QED  BY <1>6, <1>13, <1>14, Zenon DEF Promise!Insert, Promise!Returned

LEMMA InsertFailsPromised ==
  ASSUME NEW q, Holds(sl, data, q), NEW s, NEW v, NEW height, height \in 1 .. MaxLevel, InsertFails(s, v, height)
  PROVE  Promise!Insert(s, v)
<1>1. Holds(sl', data', q)
  BY InsertFailsHolds
<1>2. data' = data /\ last' = [op |-> "insert", args |-> <<s, v>>, ret |-> "failed"]
  BY DEF InsertFails, Returned
<1>3. Elements(Order) = Es(data, q) /\ Elements(Order)' = Es(data', q)
  BY <1>1, ElementsAre, ElementsBecome
<1>4. Elements(Order)' = Elements(Order)
  BY <1>2, <1>3
<1>5. last'.op = "insert"
  BY <1>2
<1>. QED  BY <1>2, <1>4, <1>5, Zenon DEF Promise!Insert, Promise!Returned

LEMMA RemoveOnePromised ==
  ASSUME NEW q, Holds(sl, data, q), NEW s, s \in Score, NEW v, v \in Value, dmbSkipListRemoveOne(s, v)
  PROVE  Promise!RemoveOne(s, v)
<1>1. PICK p : Splits(q, LessElem(s, v), p)
  BY LessElemSplits
<1>2. PICK t, ret : t = (IF Finds(data, q, p, s, v) THEN RemoveAt(q, p) ELSE q) /\ ret = Finds(data, q, p, s, v)
  OBVIOUS
<1>3. Holds(sl', data', t)
  <2>1. CASE Finds(data, q, p, s, v)
    BY <1>1, <1>2, <2>1, RemoveOneDoes
  <2>2. CASE ~Finds(data, q, p, s, v)
    <3>1. sl' = sl /\ data' = data
      BY <1>1, <2>2, RemoveOneDoes
    <3>. QED  BY <1>2, <2>2, <3>1
  <2>. QED  BY <2>1, <2>2
<1>4. PICK e, f : e = Es(data, q) /\ f = Es(data', t)
  OBVIOUS
<1>5. Elements(Order) = e /\ Elements(Order)' = f
  BY <1>3, <1>4, ElementsAre, ElementsBecome
<1>6. RemovesOne(e, f, s, v, ret)
  BY <1>1, <1>2, <1>4, RemoveOneElements
<1>7. last' = [op |-> "remove", args |-> <<s, v>>, ret |-> ret]
  BY <1>1, <1>2, RemoveOneDoes
<1>8. RemovesOne(Elements(Order), Elements(Order)', s, v, ret)
  BY <1>5, <1>6, Zenon
<1>9. PICK found : /\ found = {i \in DOMAIN Elements(Order) : Elements(Order)[i] = [score |-> s, value |-> v]}
                   /\ ret = (found # {})
                   /\ found = {} => Elements(Order)' = Elements(Order)
                   /\ found # {} => \E i \in found :
                        Elements(Order)' = SubSeq(Elements(Order), 1, i - 1)
                                           \o SubSeq(Elements(Order), i + 1, Len(Elements(Order)))
  BY <1>8, Zenon DEF RemovesOne
<1>10. last' = [op |-> "remove", args |-> <<s, v>>, ret |-> found # {}]
  BY <1>7, <1>9, Zenon
<1>11. IF found = {} THEN Elements(Order)' = Elements(Order)
       ELSE \E i \in found : Elements(Order)' = SubSeq(Elements(Order), 1, i - 1)
                                                \o SubSeq(Elements(Order), i + 1, Len(Elements(Order)))
  BY <1>9, Zenon
<1>12. last'.op = "remove"
  BY <1>10
<1>. QED  BY <1>9, <1>10, <1>11, <1>12, Zenon DEF Promise!RemoveOne, Promise!Returned

LEMMA RemoveRangePromised ==
  ASSUME NEW q, Holds(sl, data, q), NEW start, start \in Score, NEW end, end \in Score,
         dmbSkipListRemoveByScore(start, end)
  PROVE  Promise!RemoveByScore(start, end)
<1>1. PICK p : Splits(q, LessScore(start), p)
  BY LessScoreSplits
<1>2. PICK u : Splits(q, NotAbove(end), u)
  BY NotAboveSplits
<1>3. PICK t, k : t = Cut(q, p, Over(u, p)) /\ k = Over(u, p)
  OBVIOUS
<1>4. Holds(sl', data', t) /\ last' = [op |-> "remove range", args |-> <<start, end>>, ret |-> k]
  BY <1>1, <1>2, <1>3, RemoveByScoreDoes
<1>5. PICK e, f : e = Es(data, q) /\ f = Es(data', t)
  OBVIOUS
<1>6. Elements(Order) = e /\ Elements(Order)' = f
  BY <1>4, <1>5, ElementsAre, ElementsBecome
<1>7. RemovesRange(e, f, start, end, k)
  BY <1>1, <1>2, <1>3, <1>5, RemoveRangeElements
<1>8. RemovesRange(Elements(Order), Elements(Order)', start, end, k)
  BY <1>6, <1>7, Zenon
<1>9. Promise!Elem = Elem
  BY Zenon DEF Elem, Promise!Elem
<1>10. PICK outside : outside = {x \in Elem : x.score < start \/ x.score > end}
  OBVIOUS
<1>11. Elements(Order)' = Select(Elements(Order), outside) /\ k = Len(Elements(Order)) - Len(Elements(Order)')
  BY <1>8, <1>10, Zenon DEF RemovesRange
<1>12. Elements(Order)' = Promise!Select(Elements(Order), {x \in Promise!Elem : x.score < start \/ x.score > end})
  BY <1>9, <1>10, <1>11, SelectsAlike, Zenon
<1>13. last' = [op |-> "remove range", args |-> <<start, end>>, ret |-> Len(Elements(Order)) - Len(Elements(Order)')]
  BY <1>4, <1>11, Zenon
<1>14. last'.op = "remove range"
  BY <1>13
<1>. QED  BY <1>12, <1>13, <1>14, Zenon DEF Promise!RemoveByScore, Promise!Returned

LEMMA EmptyElements == \A d : Es(d, <<>>) = <<>>
BY DEF Es

LEMMA RemoveAllPromised ==
  ASSUME NEW q, Holds(sl, data, q), dmbSkipListRemoveAll
  PROVE  Promise!RemoveAll
<1>1. Holds(sl', data', <<>>)
  BY RemoveAllHolds
<1>2. Elements(Order)' = <<>>
  <2>1. Elements(Order)' = Es(data', <<>>)
    BY <1>1, ElementsBecome
  <2>. QED  BY <2>1, EmptyElements
<1>3. last' = [op |-> "remove all", args |-> <<>>, ret |-> "ok"]
  BY DEF dmbSkipListRemoveAll, Returned
<1>4. last'.op = "remove all"
  BY <1>3
<1>. QED  BY <1>2, <1>3, <1>4, Zenon DEF Promise!RemoveAll, Promise!Returned

(* The list is the sequence of elements, sorted by score and then by       *)
(* value, that dmbskiplist.h promises: it begins as one, and each call     *)
(* does to it, and returns, what is promised.                              *)
THEOREM SortsAsPromised == SkipSpec => SortedSpec
<1>1. SkipInit => Promise!Init
  <2>. SUFFICES ASSUME SkipInit PROVE Promise!Init
    OBVIOUS
  <2>1. Holds(sl, data, <<>>)
    BY InitHolds
  <2>2. Elements(Order) = <<>>
    <3>1. Elements(Order) = Es(data, <<>>)
      BY <2>1, ElementsAre
    <3>. QED  BY <3>1, EmptyElements
  <2>3. last = [op |-> "create", args |-> <<>>, ret |-> "ok"]
    BY DEF SkipInit
  <2>. QED  BY <2>2, <2>3, Zenon DEF Promise!Init
<1>2. SkipInv /\ [SkipNext]_skipVars => [Promise!Next]_<<Elements(Order), last>>
  <2>. SUFFICES ASSUME SkipInv, [SkipNext]_skipVars PROVE [Promise!Next]_<<Elements(Order), last>>
    OBVIOUS
  <2>1. PICK q : Holds(sl, data, q)
    BY DEF SkipInv
  <2>2. ASSUME NEW s \in Score, NEW v \in Value, NEW height \in 1 .. MaxLevel, NEW n \in Node,
               dmbSkipListInsert(s, v, height, n)
        PROVE  Promise!Next
    <3>1. Promise!Insert(s, v)
      BY <2>1, <2>2, InsertPromised
    <3>. QED  BY <3>1, Zenon DEF Promise!Next
  <2>3. ASSUME NEW s \in Score, NEW v \in Value, NEW height \in 1 .. MaxLevel, InsertFails(s, v, height)
        PROVE  Promise!Next
    <3>1. Promise!Insert(s, v)
      BY <2>1, <2>3, InsertFailsPromised
    <3>. QED  BY <3>1, Zenon DEF Promise!Next
  <2>4. ASSUME NEW s \in Score, NEW v \in Value, dmbSkipListRemoveOne(s, v) PROVE Promise!Next
    <3>1. Promise!RemoveOne(s, v)
      BY <2>1, <2>4, RemoveOnePromised
    <3>. QED  BY <3>1, Zenon DEF Promise!Next
  <2>5. ASSUME NEW start \in Score, NEW end \in Score, dmbSkipListRemoveByScore(start, end) PROVE Promise!Next
    <3>1. Promise!RemoveByScore(start, end)
      BY <2>1, <2>5, RemoveRangePromised
    <3>. QED  BY <3>1, Zenon DEF Promise!Next
  <2>6. ASSUME dmbSkipListRemoveAll PROVE Promise!Next
    <3>1. Promise!RemoveAll
      BY <2>1, <2>6, RemoveAllPromised
    <3>. QED  BY <3>1, Zenon DEF Promise!Next
  <2>7. ASSUME UNCHANGED skipVars PROVE UNCHANGED <<Elements(Order), last>>
    <3>1. sl' = sl /\ data' = data /\ last' = last
      BY <2>7 DEF skipVars
    <3>2. Holds(sl', data', q)
      BY <2>1, <3>1
    <3>3. Elements(Order)' = Es(data', q) /\ Elements(Order) = Es(data, q)
      BY <2>1, <3>2, ElementsAre, ElementsBecome
    <3>4. Elements(Order)' = Elements(Order)
      BY <3>1, <3>3
    <3>. QED  BY <3>1, <3>4
  <2>8. SkipNext => Promise!Next
    BY <2>2, <2>3, <2>4, <2>5, <2>6, Zenon DEF SkipNext
  <2>. QED  BY <2>7, <2>8, Zenon
<1>. QED  BY <1>1, <1>2, SequenceHeld, PTL DEF SkipSpec, SortedSpec, Promise!Spec

================================================================================
