------------------------------ MODULE DmbSkipList ------------------------------
(***************************************************************************)
(* The skip list of src/core/dmbskiplist.c.  Elements are sorted by score  *)
(* and then by value; on every level of a node is the next node there and  *)
(* the step to it, the number of elements it goes on by (to the end of the *)
(* list if there is no next node).  A list belongs to one caller.          *)
(***************************************************************************)
EXTENDS Integers, DmbSequences, DmbDefines

CONSTANTS
  Node, Header,
  Score, Value,      \* numbers, compared as such by the list's meta
  MaxLevel,          \* CB_SKIPLIST_MAX_LEVEL
  UIntSize           \* how many values a dmbUINT has

ASSUME SkipListAssumption ==
  /\ {Header, NULL} \cap Node = {} /\ Header # NULL
  /\ Score \subseteq Int /\ Value \subseteq Int
  /\ NULL \notin [score : Score, value : Value, height : 1 .. MaxLevel]
  /\ MaxLevel \in Nat \ {0} /\ UIntSize \in Nat \ {0}

VARIABLES
  sl,             \* the list: level, len, and the nodes' next, step, prev
  data,           \* of each node: its score, value and height, or NULL if it is free
  last            \* the last call, with its arguments, and what it returned

skipVars == <<sl, data, last>>

Levels == 0 .. MaxLevel - 1
Cleared(value) == [i \in Levels |-> value]

(* dmbSkipListCreate, which clears everything.                             *)
SkipInit ==
  /\ sl = [level |-> 0, len |-> 0,
           next |-> [n \in Node \cup {Header} |-> Cleared(NULL)],
           step |-> [n \in Node \cup {Header} |-> Cleared(0)],
           prev |-> [n \in Node |-> NULL]]
  /\ data = [n \in Node |-> NULL]
  /\ last = [op |-> "create", args |-> <<>>, ret |-> "ok"]

-----------------------------------------------------------------------------
(* The search that all functions begin with.                               *)

Used == {n \in Node : data[n] # NULL}
LessScore(s)   == {n \in Used : s > data[n].score}
LessElem(s, v) == {n \in Used : s > data[n].score \/ (s = data[n].score /\ v > data[n].value)}

(* Fault: a score equal to the bound is left out.                          *)
NotAboveOpen(s) == {n \in Used : s > data[n].score}

NotAbove(s) == {n \in Used : s >= data[n].score}

(* Fault: the search of GetRank stops before the element itself.           *)
NotAboveElemOpen(s, v) == LessElem(s, v)

NotAboveElem(s, v) ==
  {n \in Used : s > data[n].score \/ (s = data[n].score /\ v >= data[n].value)}

(* Where the loop over the levels, from the highest down, leaves each of   *)
(* them (updateArr, rankArr) when it goes on as long as the next node is   *)
(* in passed.                                                              *)
SearchLevel(passed, i) ==
  LET walk[n \in Node \cup {Header}] ==
        IF sl.next[n][i] \in passed
        THEN [walk[sl.next[n][i]] EXCEPT !.rank = @ + sl.step[n][i]]
        ELSE [node |-> n, rank |-> 0]
  IN  walk

Search(passed) ==
  LET path[i \in 0 .. sl.level] ==
        IF i = sl.level THEN [node |-> Header, rank |-> 0]
        ELSE [SearchLevel(passed, i)[path[i + 1].node] EXCEPT !.rank = @ + path[i + 1].rank]
  IN  path

Following(path) == sl.next[path[0].node][0]

-----------------------------------------------------------------------------
(* The changes.                                                            *)

Returned(op, args, ret) == last' = [op |-> op, args |-> args, ret |-> ret]

(* A new level begins at the header, with a step over the whole list.      *)
Raised(height) ==
  [sl EXCEPT !.level = IF height > @ THEN height ELSE @,
             !.step[Header] = [i \in Levels |-> IF sl.level <= i /\ i < height
                                                THEN sl.len ELSE @[i]]]

dmbSkipListInsert(s, v, height, n) ==
  LET path == Search(LessElem(s, v))
      r == Raised(height)
      update(i) == IF i < sl.level THEN path[i] ELSE [node |-> Header, rank |-> 0]
      rank0 == update(0).rank
      over(i) == rank0 - update(i).rank
      after == r.next[update(0).node][0]
  IN  /\ n \notin Used
      /\ data' = [data EXCEPT ![n] = [score |-> s, value |-> v, height |-> height]]
      /\ sl' = [r EXCEPT
           !.next = [m \in Node \cup {Header} |-> [i \in Levels |->
             IF i >= height THEN @[m][i]
             ELSE IF m = n THEN r.next[update(i).node][i]
             ELSE IF m = update(i).node THEN n ELSE @[m][i]]],
           !.step = [m \in Node \cup {Header} |-> [i \in Levels |->
             IF i >= height
             THEN IF i < r.level /\ m = update(i).node THEN @[m][i] + 1 ELSE @[m][i]
             ELSE IF m = n THEN r.step[update(i).node][i] - over(i)
             ELSE IF m = update(i).node THEN over(i) + 1 ELSE @[m][i]]],
           !.prev = [m \in Node |->
             IF m = n THEN IF update(0).node = Header THEN NULL ELSE update(0).node
             ELSE IF m = after THEN n ELSE @[m]],
           !.len = @ + 1]
      /\ Returned("insert", <<s, v>>, "ok")

(* CreateNode, InitScore or InitValue fails.                               *)
InsertFails(s, v, height) ==
  /\ sl' = Raised(height)
  /\ Returned("insert", <<s, v>>, "failed")
  /\ UNCHANGED data

(* Fault: steps over the node, on levels it does not reach, stay.          *)
removeNodeBelow(r, n, path) ==
  LET next == [m \in Node \cup {Header} |-> [i \in Levels |->
                IF i < r.level /\ m = path[i].node /\ r.next[m][i] = n
                THEN r.next[n][i] ELSE r.next[m][i]]]
      highest == Sets!Max({1} \cup {i + 1 : i \in {j \in 0 .. r.level - 1 : next[Header][j] # NULL}})
  IN  [r EXCEPT
        !.next = next,
        !.step = [m \in Node \cup {Header} |-> [i \in Levels |->
          IF i < r.level /\ m = path[i].node
          THEN IF r.next[m][i] = n THEN @[m][i] + r.step[n][i] - 1 ELSE @[m][i]
          ELSE @[m][i]]],
        !.prev = [m \in Node |-> IF m = r.next[n][0] THEN @[n] ELSE @[m]],
        !.level = highest,
        !.len = @ - 1]

(* The list r without the node n, which is after the nodes of the path.    *)
removeNode(r, n, path) ==
  LET next == [m \in Node \cup {Header} |-> [i \in Levels |->
                IF i < r.level /\ m = path[i].node /\ r.next[m][i] = n
                THEN r.next[n][i] ELSE r.next[m][i]]]
      highest == Sets!Max({1} \cup {i + 1 : i \in {j \in 0 .. r.level - 1 : next[Header][j] # NULL}})
  IN  [r EXCEPT
        !.next = next,
        !.step = [m \in Node \cup {Header} |-> [i \in Levels |->
          IF i < r.level /\ m = path[i].node
          THEN IF r.next[m][i] = n THEN @[m][i] + r.step[n][i] - 1 ELSE @[m][i] - 1
          ELSE @[m][i]]],
        !.prev = [m \in Node |-> IF m = r.next[n][0] THEN @[n] ELSE @[m]],
        !.level = highest,
        !.len = @ - 1]

(* dmbFree of a node, whose fields are of no use then.                     *)
Freed(r, n) == [r EXCEPT !.next[n] = Cleared(NULL), !.step[n] = Cleared(0), !.prev[n] = NULL]

(* Fault: the value is not compared.                                       *)
RemoveFirstOfScore(s, v) ==
  LET path == Search(LessElem(s, v))
      n == Following(path)
      found == n # NULL /\ data[n].score = s
  IN  /\ IF found THEN /\ sl' = Freed(removeNode(sl, n, path), n)
                       /\ data' = [data EXCEPT ![n] = NULL]
         ELSE UNCHANGED <<sl, data>>
      /\ Returned("remove", <<s, v>>, found)

dmbSkipListRemoveOne(s, v) ==
  LET path == Search(LessElem(s, v))
      n == Following(path)
      found == n # NULL /\ data[n].score = s /\ data[n].value = v
  IN  /\ IF found THEN /\ sl' = Freed(removeNode(sl, n, path), n)
                       /\ data' = [data EXCEPT ![n] = NULL]
         ELSE UNCHANGED <<sl, data>>
      /\ Returned("remove", <<s, v>>, found)

(* The nodes from n on, along level 0, as long as they are in taken.       *)
Chain(n, taken) ==
  LET from[m \in Node \cup {NULL}] ==
        IF m \in taken THEN <<m>> \o from[sl.next[m][0]] ELSE <<>>
  IN  from[n]

dmbSkipListRemoveByScore(start, end) ==
  LET path == Search(LessScore(start))
      ns == Chain(Following(path), NotAbove(end))
      turn[k \in 0 .. Len(ns)] ==
        IF k = 0 THEN sl ELSE Freed(removeNode(turn[k - 1], ns[k], path), ns[k])
  IN  /\ sl' = turn[Len(ns)]
      /\ data' = [n \in Node |-> IF n \in Seqs!ToSet(ns) THEN NULL ELSE data[n]]
      /\ Returned("remove range", <<start, end>>, Len(ns))

(* Fault: only the lowest entry of the header is cleared.                  *)
RemoveAllLowest ==
  /\ sl' = [sl EXCEPT !.len = 0,
                      !.next = [m \in Node \cup {Header} |->
                                 IF m = Header THEN [@[m] EXCEPT ![0] = NULL] ELSE Cleared(NULL)],
                      !.step = [m \in Node \cup {Header} |-> Cleared(0)],
                      !.prev = [m \in Node |-> NULL]]
  /\ data' = [n \in Node |-> NULL]
  /\ Returned("remove all", <<>>, "ok")

(* The level stays.                                                        *)
dmbSkipListRemoveAll ==
  /\ sl' = [sl EXCEPT !.len = 0,
                      !.next = [m \in Node \cup {Header} |-> Cleared(NULL)],
                      !.step = [m \in Node \cup {Header} |-> Cleared(0)],
                      !.prev = [m \in Node |-> NULL]]
  /\ data' = [n \in Node |-> NULL]
  /\ Returned("remove all", <<>>, "ok")

-----------------------------------------------------------------------------
(* The queries.                                                            *)

GetFirstByScore(s) == Following(Search(LessScore(s)))
GetLastByScore(s) ==
  LET n == Search(NotAbove(s))[0].node IN IF n = Header THEN NULL ELSE n

(* The nodes from n on, backwards, as long as they are in taken.           *)
ChainBack(n, taken) ==
  LET from[m \in Node \cup {NULL}] ==
        IF m \in taken THEN <<m>> \o from[sl.prev[m]] ELSE <<>>
  IN  from[n]

(* The nodes OnScan is called for.                                         *)
dmbSkipListGetRangByScore(start, end, reverse) ==
  IF reverse THEN ChainBack(GetLastByScore(end), Used \ LessScore(start))
  ELSE Chain(GetFirstByScore(start), NotAbove(end))

dmbSkipListGetRangeCount(start, end) == Len(Chain(Following(Search(LessScore(start))), NotAbove(end)))

(* Each level, from the highest down, is left at the last node not above   *)
(* the element; the first one left at an equal value ends the search.      *)
dmbSkipListGetRank(s, v) ==
  LET path == Search(NotAboveElem(s, v))
      equal == {i \in 0 .. sl.level - 1 : path[i].node # Header /\ data[path[i].node].value = v}
  IN  IF equal = {} THEN 0 ELSE path[Sets!Max(equal)].rank

(* Fault: the last element is -0.                                          *)
FromEndAfter(u) == IF u < 0 THEN sl.len + u + 1 ELSE u

(* Where an index counts from the end if it is negative, and what is too   *)
(* large or too small becomes the last one.                                *)
FromEnd(u) == IF u < 0 THEN sl.len + u ELSE u
Clipped(u) == IF FromEnd(u) \in 0 .. sl.len - 1 THEN FromEnd(u) ELSE sl.len - 1

(* Both scans: the nodes OnScan is called for, and where to go on.         *)
dmbSkipListScan(start, end) ==
  LET first == FromEnd(start)
      all == Chain(sl.next[Header][0], Used)
      seen == SubSeq(all, 1, Sets!Min({Len(all), Clipped(end) + 1}))
  IN  IF first \notin 0 .. sl.len - 1 THEN [met |-> <<>>, next |-> 0]
      ELSE [met |-> SubSeq(seen, first + 1, Len(seen)), next |-> Len(seen)]

(* The search goes on as long as it does not go past the rank.             *)
RankLevel(rank, i) ==
  LET walk[at \in [node : Node \cup {Header}, rank : Nat]] ==
        IF sl.next[at.node][i] # NULL /\ at.rank + sl.step[at.node][i] <= rank
        THEN walk[[node |-> sl.next[at.node][i], rank |-> at.rank + sl.step[at.node][i]]]
        ELSE at
  IN  walk

SearchRank(rank) ==
  LET path[i \in 0 .. sl.level] ==
        IF i = sl.level THEN [node |-> Header, rank |-> 0]
        ELSE IF path[i + 1].rank = rank THEN path[i + 1]
        ELSE RankLevel(rank, i)[path[i + 1]]
  IN  path[0]

(* cur is a dmbUINT, from which 1 is subtracted when it may be 0.          *)
dmbSkipListScanByRank(startRank, endRank, reverse) ==
  LET first == FromEnd(startRank) + 1
      bound == Clipped(endRank) + 1
      at == SearchRank(IF reverse THEN bound ELSE first)
      chain == IF reverse THEN ChainBack(at.node, Used) ELSE Chain(at.node, Used)
      count == Sets!Max({0, Sets!Min({Len(chain), IF reverse THEN at.rank - first + 1
                                        ELSE bound - at.rank + 1})})
      cur == IF reverse THEN at.rank - count ELSE at.rank + count
  IN  IF first \notin 1 .. sl.len THEN [met |-> <<>>, next |-> 0]
      ELSE [met |-> SubSeq(chain, 1, count),
            next |-> IF count > 0 /\ cur <= sl.len THEN (cur - 1) % UIntSize ELSE 0]

SkipNext ==
  \/ \E s \in Score, v \in Value :
       \/ \E height \in 1 .. MaxLevel :
            \/ \E n \in Node : dmbSkipListInsert(s, v, height, n)
            \/ InsertFails(s, v, height)
       \/ dmbSkipListRemoveOne(s, v)
  \/ \E start, end \in Score : dmbSkipListRemoveByScore(start, end)
  \/ dmbSkipListRemoveAll

SkipSpec == SkipInit /\ [][SkipNext]_skipVars

-----------------------------------------------------------------------------
(* Properties.                                                             *)

Order == Chain(sl.next[Header][0], Used)
Elements(ns) == [k \in DOMAIN ns |-> [score |-> data[ns[k]].score, value |-> data[ns[k]].value]]

(* The list on each level is the list of level 0 without the nodes that do *)
(* not reach up to it: no search reads an entry a node does not have, and  *)
(* none misses a node.  Level 0 has all nodes, and prev leads back.        *)
LevelsNested ==
  /\ Seqs!ToSet(Order) = Used /\ Len(Order) = sl.len
  /\ \A i \in Levels :
       LET from[n \in Node \cup {NULL}] ==
             IF n = NULL THEN <<>> ELSE <<n>> \o from[sl.next[n][i]]
       IN  /\ from[sl.next[Header][i]] = Select(Order, {n \in Used : data[n].height > i})
           /\ i >= sl.level => sl.next[Header][i] = NULL
  /\ \A k \in 1 .. sl.len : sl.prev[Order[k]] = IF k = 1 THEN NULL ELSE Order[k - 1]

(* Every step is the distance it stands for: from a node to the next one   *)
(* on the level, or to the end of the list.  A new level begins with the   *)
(* whole list, after a failed insertion too, and a level that is given up  *)
(* and taken again does so once more.                                      *)
StepsExact ==
  LET ord == Order
      rank == [n \in Node \cup {Header} |-> IF n \in Seqs!ToSet(ord)
                                           THEN CHOOSE k \in DOMAIN ord : ord[k] = n ELSE 0]
  IN  \A i \in 0 .. sl.level - 1 : \A n \in Used \cup {Header} :
        (n = Header \/ data[n].height > i) =>
          sl.step[n][i] = (IF sl.next[n][i] = NULL THEN sl.len ELSE rank[sl.next[n][i]]) - rank[n]

(* GetRank of an element is its place in the list if no other one has its  *)
(* value; and 0 for a value that is in no element.                         *)
RankExact ==
  LET es == Elements(Order)
  IN  \A s \in Score, v \in Value :
        LET same == {k \in DOMAIN es : es[k].value = v}
        IN  /\ \A k \in same : same = {k} /\ es[k].score = s => dmbSkipListGetRank(s, v) = k
            /\ same = {} => dmbSkipListGetRank(s, v) = 0

(* Ranges by score hold the elements between the scores, bounds included,  *)
(* in either order, and are as long as their count says.                   *)
ScoresExact ==
  LET ord == Order
  IN  \A start, end \in Score :
        LET range == Select(ord, {n \in Used : start <= data[n].score /\ data[n].score <= end})
        IN  /\ dmbSkipListGetRangByScore(start, end, FALSE) = range
            /\ dmbSkipListGetRangByScore(start, end, TRUE) = Seqs!Reverse(range)
            /\ dmbSkipListGetRangeCount(start, end) = Len(range)

(* Both scans meet the elements from one index to the other, counted from  *)
(* 0 or, if negative, from the end.  The index to go on from is the next   *)
(* one; after the last element it is the length for Scan and 0 for         *)
(* ScanByRank, and after the first one in reverse the largest dmbUINT.     *)
ScansExact ==
  LET ord == Order
      n == sl.len
  IN  \A i, j \in -(n + 1) .. n + 1 :
        LET from == IF i < 0 THEN n + i ELSE i
            to == LET u == IF j < 0 THEN n + j ELSE j IN IF u \in 0 .. n - 1 THEN u ELSE n - 1
            range == SubSeq(ord, from + 1, to + 1)
            there == dmbSkipListScanByRank(i, j, FALSE)
            back == dmbSkipListScanByRank(i, j, TRUE)
        IN  from \in 0 .. n - 1 =>
              /\ dmbSkipListScan(i, j) = [met |-> range, next |-> to + 1]
              /\ there.met = range /\ back.met = Seqs!Reverse(range)
              /\ range # <<>> => /\ there.next = (to + 1) % n
                                 /\ back.next = IF from = 0 THEN UIntSize - 1 ELSE from - 1

Promise == INSTANCE DmbSkipListSpec WITH elems <- Elements(Order), last <- last

(* The list is the sorted sequence that its functions promise, and every   *)
(* call returns what it has done, whatever heights the nodes have.         *)
SortedSpec == Promise!Spec

================================================================================
