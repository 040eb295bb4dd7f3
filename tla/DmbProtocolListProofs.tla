------------------------- MODULE DmbProtocolListProofs -------------------------
(***************************************************************************)
(* The two lists of a worker, for any number of records: every connection  *)
(* is on the timeout list, which is exactly what its nodes say, no input   *)
(* that a connection has received is left behind, and epoll has forgotten  *)
(* no connection that was not refused.                                     *)
(***************************************************************************)
EXTENDS DmbProtocolProofs, DmbInduction

(* A connection has a timeout.                                             *)
Timed(s) == s.live => s.timeout

(* What the kernel has for an open connection will be read.                *)
Heard(s, edge) == s.registered /\ s.rx > 0 => s.canRead \/ edge

(* t is s, as far as timeouts and input are concerned.                     *)
Heeds(s, t) ==
  t.registered = s.registered /\ t.rx = s.rx /\ t.canRead = s.canRead /\ (s.timeout => t.timeout)

-----------------------------------------------------------------------------
(* What readData, processData and writeData make of a record.              *)

(* A read takes everything, or could be repeated.                          *)
LEMMA ReadHeard ==
  ASSUME NEW s, Busy(s), NEW r \in ReadData(s)
  PROVE  /\ Timed(s) => Timed(r.s)
         /\ r.s.live => r.s.registered = s.registered
         /\ r.s.live /\ r.s.rx > 0 => s.rx > 0 /\ r.s.canRead = s.canRead
         /\ r.s.live /\ r.code = "AGAIN" => r.s.rx = 0 \/ ~s.canRead
<1>. s \in Record
  BY DEF Busy
<1>0. PICK k : k = Lesser(s.rx, ReadBuf - s.readLength)
  OBVIOUS
<1>1. CASE ~s.canRead
  BY <1>1 DEF ReadData, Result
<1>2. CASE s.canRead /\ ReadBuf <= s.readLength
  <2>1. PICK t : t = [s EXCEPT !.timeout = TRUE]
    OBVIOUS
  <2>2. r.s = t /\ r.code = "OK"
    BY <1>2, <2>1 DEF ReadData, Watched
  <2>3. t.timeout /\ t.registered = s.registered /\ t.rx = s.rx /\ t.canRead = s.canRead
    BY <2>1 DEF Record
  <2>. QED  BY <2>2, <2>3 DEF Timed
<1>3. CASE r = Result(CloseConnect(s), "ERROR")
  BY <1>3, CloseRest DEF Result, Timed
<1>4. CASE /\ s.canRead /\ ~(ReadBuf <= s.readLength) /\ s.live
           /\ r # Result(CloseConnect(s), "ERROR")
  <2>1. k \in Nat /\ k <= s.rx /\ s.rx \in Nat /\ s.readLength \in Nat
        /\ (k = s.rx \/ k = ReadBuf - s.readLength)
    <3>1. s.rx \in Nat /\ ReadBuf - s.readLength \in Nat /\ s.readLength \in Nat
      BY <1>4, BufferAssumption DEF Record
    <3>. QED  BY <1>0, <3>1, LesserFacts DEF Lesser
  <2>2. PICK g : g = Received(s, k)
    OBVIOUS
  <2>3. /\ g.live = s.live /\ g.timeout = s.timeout /\ g.registered = s.registered
        /\ g.canRead = s.canRead /\ g.rx = s.rx - k /\ g.readLength = s.readLength + k
        /\ Busy(g)
    BY <1>4, <2>1, <2>2, ReceivedBusy DEF Received, Record
  <2>4. CASE k > 0 /\ g.readLength >= Hdr
    <3>1. r = Result(g, "OK")
      BY <1>0, <1>4, <2>2, <2>4 DEF ReadData, Received
    <3>. QED  BY <2>1, <2>3, <3>1 DEF Result, Timed
  <2>5. CASE ~(k > 0 /\ g.readLength >= Hdr)
    <3>1. r = ReadNothing(g)
      BY <1>0, <1>4, <2>2, <2>5 DEF ReadData, Received
    <3>2. g.rx = 0
      <4>1. k = 0 \/ s.readLength + k < Hdr
        BY <2>1, <2>3, <2>5, BufferAssumption
      <4>2. k = ReadBuf - s.readLength => k > 0 /\ s.readLength + k >= Hdr
        BY <1>4, <2>1, BufferAssumption
      <4>. QED  BY <2>1, <2>3, <4>1, <4>2, BufferAssumption
    <3>3. CASE r = Result(CloseConnect(g), "CLOSED")
      <4>1. ~r.s.live
        BY <2>3, <3>3, CloseRest DEF Result
      <4>. QED  BY <4>1 DEF Timed
    <3>4. CASE r = Watched([g EXCEPT !.canRead = FALSE], "AGAIN")
      <4>1. r.s = [g EXCEPT !.canRead = FALSE, !.timeout = TRUE]
        BY <3>4 DEF Watched
      <4>2. PICK t : t = r.s
        OBVIOUS
      <4>3. g \in Record /\ t = [g EXCEPT !.canRead = FALSE, !.timeout = TRUE]
        BY <2>3, <4>1, <4>2 DEF Busy
      <4>4. t.registered = g.registered /\ t.rx = g.rx /\ t.timeout
        BY <4>3 DEF Record
      <4>. QED  BY <2>3, <3>2, <4>2, <4>4 DEF Timed
    <3>. QED  BY <3>1, <3>3, <3>4 DEF ReadNothing
  <2>. QED  BY <2>4, <2>5
<1>. QED  BY <1>1, <1>2, <1>3, <1>4 DEF ReadData

LEMMA ProcessHeard ==
  ASSUME NEW s, Busy(s), ~s.isblocked
  PROVE  Heeds(s, ProcessData(s).s)
<1>. s \in Record
  BY DEF Busy
<1>1. CASE s.readLength < Hdr
  BY <1>1 DEF ProcessData, Result, Heeds
<1>2. CASE ~(s.readLength < Hdr)
  <2>1. s.readLength >= Hdr
    BY <1>2, BufferAssumption DEF Record
  <2>2. PICK p : p = ParsePkgHeader(s).s
    OBVIOUS
  <2>3. p \in Record /\ Heeds(s, p)
    <3>1. PICK x, y, z \in BOOLEAN : p = [s EXCEPT !.magic = x, !.version = y, !.length = z]
      BY <2>1, <2>2, ParseBusy
    <3>. QED  BY <3>1, ZenonT(60) DEF Heeds, Record
  <2>4. PICK e : e = MakeErrorResponse(p)
    OBVIOUS
  <2>5. Heeds(p, e)
    BY <2>3, <2>4 DEF MakeErrorResponse, Heeds, Record
  <2>6. ASSUME NEW code PROVE Heeds(p, MakeResponseWithData(p, code))
    BY <2>3 DEF MakeResponseWithData, Heeds, Record
  <2>7. PICK h : h = MakeResponseWithData(p, "OK")
    OBVIOUS
  <2>8. PICK t : t = [h EXCEPT !.readLength = @ - ReqSize, !.reqs = Tail(@),
                               !.magic = FALSE, !.version = FALSE, !.length = FALSE]
    OBVIOUS
  <2>9. Heeds(p, t)
    BY <2>3, <2>7, <2>8 DEF MakeResponseWithData, Heeds, Record
  <2>10. ProcessData(s).s \in {p, e, MakeResponseWithData(p, "OUT_OF_READBUF"), t}
    BY <1>2, <2>2, <2>4, <2>7, <2>8 DEF ProcessData, Result
  <2>. QED  BY <2>3, <2>5, <2>6, <2>9, <2>10 DEF Heeds
<1>. QED  BY <1>1, <1>2

LEMMA WriteHeard ==
  ASSUME NEW s, Busy(s), NEW t \in WriteData(s)
  PROVE  ~t.s.live \/ (Heeds(s, t.s) /\ (t.s.live => s.live))
<1>. s \in Record
  BY DEF Busy
<1>1. CASE t.s = s
  BY <1>1 DEF Heeds
<1>2. CASE t = Result(CloseConnect(s), "ERROR")
  BY <1>2, CloseRest DEF Result
<1>3. CASE t.s # s /\ t # Result(CloseConnect(s), "ERROR")
  <2>1. PICK k : k = Lesser(s.space, s.writeLength)
    OBVIOUS
  <2>2. PICK g : g = [s EXCEPT !.space = @ - k, !.writeIndex = @ + k, !.writeLength = @ - k]
    OBVIOUS
  <2>3. /\ g.registered = s.registered /\ g.rx = s.rx /\ g.canRead = s.canRead
        /\ g.timeout = s.timeout
    BY <2>2 DEF Record
  <2>4. /\ DOMAIN g = DOMAIN s
        /\ {"registered", "rx", "canRead", "timeout", "isblocked", "writeIndex", "canWrite"}
             \subseteq DOMAIN g
    BY <2>2 DEF Record
  <2>5. \/ t = Result([g EXCEPT !.isblocked = FALSE, !.writeIndex = 0], "OK")
        \/ t = Watched([g EXCEPT !.canWrite = FALSE, !.isblocked = TRUE], "AGAIN")
    BY <1>3, <2>1, <2>2 DEF WriteData, Result
  <2>6. CASE t = Result([g EXCEPT !.isblocked = FALSE, !.writeIndex = 0], "OK")
    <3>1. t.s = [g EXCEPT !.isblocked = FALSE, !.writeIndex = 0]
      BY <2>6 DEF Result
    <3>2. PICK u : u = t.s
      OBVIOUS
    <3>3. u = [g EXCEPT !.isblocked = FALSE, !.writeIndex = 0]
      BY <3>1, <3>2
    <3>4. /\ u.registered = g.registered /\ u.rx = g.rx /\ u.canRead = g.canRead
          /\ u.timeout = g.timeout
      BY <2>4, <3>3
    <3>. QED  BY <2>3, <3>2, <3>4, WriteRest DEF Heeds
  <2>7. CASE t = Watched([g EXCEPT !.canWrite = FALSE, !.isblocked = TRUE], "AGAIN")
    <3>1. t.s = [g EXCEPT !.canWrite = FALSE, !.isblocked = TRUE, !.timeout = TRUE]
      BY <2>7 DEF Watched
    <3>2. PICK u : u = t.s
      OBVIOUS
    <3>3. u = [g EXCEPT !.canWrite = FALSE, !.isblocked = TRUE, !.timeout = TRUE]
      BY <3>1, <3>2
    <3>4. u.registered = g.registered /\ u.rx = g.rx /\ u.canRead = g.canRead /\ u.timeout
      BY <2>4, <3>3
    <3>. QED  BY <2>3, <3>2, <3>4, WriteRest DEF Heeds
  <2>. QED  BY <2>5, <2>6, <2>7
<1>. QED  BY <1>1, <1>2, <1>3

(* dmbProcessEvent leaves a connection with a timeout.  If it does not     *)
(* push the record, the input is read, or epoll tells of more.             *)
LEMMA HandlerHeard ==
  ASSUME NEW c, NEW s, NEW list, NEW edge, Busy(s), Timed(s), Heard(s, edge),
         ProcessEvent(c, s, list)
  PROVE  \E e, w : /\ Rest(e) /\ Update(c, e, w) /\ Timed(e) /\ (e.live => s.live)
                   /\ Heard(e, edge) /\ (e.registered => s.registered)
                   /\ \/ roundRobinList' = dmbListPushBack(list, Anchor, c)
                      \/ roundRobinList' = list /\ (e.registered /\ e.rx > 0 => edge)
<1>. s \in Record
  BY DEF Busy
<1>1. PICK r \in ReadData(s) :
        IF r.code \in {"ERROR", "CLOSED"}
        THEN Update(c, r.s, r.watch) /\ roundRobinList' = list
        ELSE \E d \in IF r.s.isblocked THEN {Result(r.s, x) : x \in Garbage}
                      ELSE {ProcessData(r.s)} :
             \E t \in WriteData(d.s) :
               IF t.s.needClose /\ t.s.writeLength = 0
               THEN /\ Update(c, [t.s EXCEPT !.registered = FALSE], r.watch \/ t.watch)
                    /\ roundRobinList' = list
               ELSE /\ Update(c, t.s, r.watch \/ t.watch)
                    /\ roundRobinList' =
                         IF AllDone(r.code, d.code, t.code) THEN list
                         ELSE dmbListPushBack(list, Anchor, c)
  BY DEF ProcessEvent
<1>2. /\ Busy(r.s) /\ (r.s.live => s.live) /\ Timed(r.s)
      /\ r.s.live => r.s.registered = s.registered
      /\ r.s.live /\ r.s.rx > 0 => s.rx > 0 /\ r.s.canRead = s.canRead
      /\ r.s.live /\ r.code = "AGAIN" => r.s.rx = 0 \/ ~s.canRead
  BY ReadBusy, ReadHeard
<1>3. CASE r.code \in {"ERROR", "CLOSED"}
  <2>1. Rest(r.s) /\ ~r.s.live
    BY <1>3, ReadBusy
  <2>2. ~r.s.registered
    BY <2>1 DEF Rest, Busy, Blank
  <2>. QED  BY <1>1, <1>2, <1>3, <2>1, <2>2 DEF Heard
<1>4. CASE r.code \notin {"ERROR", "CLOSED"}
  <2>1. PICK d \in IF r.s.isblocked THEN {Result(r.s, x) : x \in Garbage}
                   ELSE {ProcessData(r.s)} :
             \E t \in WriteData(d.s) :
               IF t.s.needClose /\ t.s.writeLength = 0
               THEN /\ Update(c, [t.s EXCEPT !.registered = FALSE], r.watch \/ t.watch)
                    /\ roundRobinList' = list
               ELSE /\ Update(c, t.s, r.watch \/ t.watch)
                    /\ roundRobinList' =
                         IF AllDone(r.code, d.code, t.code) THEN list
                         ELSE dmbListPushBack(list, Anchor, c)
    BY <1>1, <1>4
  <2>2. Busy(d.s) /\ (d.s.live => r.s.live) /\ Heeds(r.s, d.s)
    <3>1. CASE r.s.isblocked
      BY <1>2, <2>1, <3>1 DEF Result, Heeds
    <3>2. CASE ~r.s.isblocked
      BY <1>2, <2>1, <3>2, ProcessBusy, ProcessHeard
    <3>. QED  BY <3>1, <3>2
  <2>3. PICK t \in WriteData(d.s) :
               IF t.s.needClose /\ t.s.writeLength = 0
               THEN /\ Update(c, [t.s EXCEPT !.registered = FALSE], r.watch \/ t.watch)
                    /\ roundRobinList' = list
               ELSE /\ Update(c, t.s, r.watch \/ t.watch)
                    /\ roundRobinList' =
                         IF AllDone(r.code, d.code, t.code) THEN list
                         ELSE dmbListPushBack(list, Anchor, c)
    BY <2>1
  <2>4. Rest(t.s) /\ (t.s.live => d.s.live) /\ (t.s.live => Heeds(d.s, t.s))
    BY <2>2, WriteRest, WriteHeard
  <2>5. ~t.s.live => ~t.s.registered
    BY <2>4 DEF Rest, Busy, Blank
  <2>6. /\ Timed(t.s) /\ (t.s.live => s.live) /\ Heard(t.s, edge)
        /\ t.s.registered => s.registered
        /\ r.code = "AGAIN" => (t.s.registered /\ t.s.rx > 0 => edge)
    <3>1. CASE ~t.s.live
      BY <2>5, <3>1 DEF Timed, Heard
    <3>2. CASE t.s.live
      <4>1. /\ r.s.live /\ s.live /\ t.s.registered = s.registered /\ t.s.rx = r.s.rx
            /\ t.s.canRead = r.s.canRead /\ t.s.timeout
        BY <1>2, <2>2, <2>4, <3>2 DEF Heeds, Timed
      <4>. QED  BY <1>2, <3>2, <4>1 DEF Timed, Heard
    <3>. QED  BY <3>1, <3>2
  <2>7. CASE t.s.needClose /\ t.s.writeLength = 0
    <3>1. PICK u : u = [t.s EXCEPT !.registered = FALSE]
      OBVIOUS
    <3>2. Rest(u) /\ u.live = t.s.live
      BY <2>4, <3>1, ForgetRest
    <3>3. t.s \in Record
      BY <2>4 DEF Rest, Busy
    <3>4. ~u.registered /\ u.timeout = t.s.timeout
      BY <3>1, <3>3 DEF Record
    <3>. QED  BY <2>3, <2>6, <2>7, <3>1, <3>2, <3>4 DEF Timed, Heard
  <2>8. CASE ~(t.s.needClose /\ t.s.writeLength = 0)
    <3>1. Update(c, t.s, r.watch \/ t.watch)
      BY <2>3, <2>8
    <3>2. CASE AllDone(r.code, d.code, t.code)
      <4>1. r.code = "AGAIN" /\ roundRobinList' = list
        BY <2>3, <2>8, <3>2 DEF AllDone
      <4>. QED  BY <2>4, <2>6, <3>1, <4>1
    <3>3. CASE ~AllDone(r.code, d.code, t.code)
      BY <2>3, <2>4, <2>6, <2>8, <3>1, <3>3
    <3>. QED  BY <3>2, <3>3
  <2>. QED  BY <2>7, <2>8
<1>. QED  BY <1>3, <1>4

-----------------------------------------------------------------------------
(* The nodes from Anchor back to Anchor along next, each of them once.  n  *)
(* of them are records.                                                    *)
Path(h, n, p) ==
  /\ p \in [0 .. n + 1 -> Node] /\ p[0] = Anchor /\ p[n + 1] = Anchor
  /\ \A i, j \in 0 .. n : p[i] = p[j] => i = j
  /\ \A i \in 0 .. n : h.next[p[i]] = p[i + 1]
  /\ h.prev[Anchor] = p[n]

LEMMA PathFacts ==
  ASSUME NEW h, NEW n \in Nat, NEW p, Path(h, n, p)
  PROVE  /\ \A i \in 1 .. n : p[i] \in Conn
         /\ n <= Cardinality(Conn) /\ Cardinality(Conn) \in Nat
<1>1. \A i \in 1 .. n : p[i] \in Conn
  BY DEF Path, Node
<1>2. PICK f : f = [i \in 1 .. n |-> p[i]]
  OBVIOUS
<1>3. f \in Injection(1 .. n, Conn)
  <2>1. f \in [1 .. n -> Conn]
    BY <1>1, <1>2
  <2>2. \A i, j \in 1 .. n : f[i] = f[j] => i = j
    BY <1>2 DEF Path
  <2>. QED  BY <2>1, <2>2 DEF Injection, IsInjective
<1>4. Cardinality(1 .. n) <= Cardinality(Conn)
  BY <1>3, FS_Injection, NodeAssumption
<1>5. Cardinality(1 .. n) = n
  BY FS_Interval
<1>. QED  BY <1>1, <1>4, <1>5, FS_CardinalityType, NodeAssumption

(* A traversal meets the records of the path.                              *)
LEMMA PathMembers ==
  ASSUME NEW h, NEW n \in Nat, NEW p, Path(h, n, p)
  PROVE  Members(h) = {p[i] : i \in 1 .. n}
<1>. DEFINE C == Cardinality(Conn)
            Walk(f) == f = [k \in 0 .. C |->
                              IF k = 0 THEN FirstNode(h, Anchor)
                              ELSE IF f[k - 1] = Anchor THEN Anchor ELSE h.next[f[k - 1]]]
            walk == CHOOSE f : Walk(f)
            met == [k \in 0 .. C |-> IF k < n THEN p[k + 1] ELSE Anchor]
<1>0. /\ C \in Nat /\ n <= C /\ \A i \in 1 .. n : p[i] \in Conn /\ p[i] # Anchor
  BY PathFacts, NodeAssumption
<1>. HIDE DEF C
<1>1. \A k \in 0 .. C : met[k] = IF k < n THEN p[k + 1] ELSE Anchor
  OBVIOUS
<1>2. ASSUME NEW k \in 0 .. C
      PROVE  met[k] = IF k = 0 THEN FirstNode(h, Anchor)
                      ELSE IF met[k - 1] = Anchor THEN Anchor ELSE h.next[met[k - 1]]
  <2>1. CASE k = 0
    <3>1. FirstNode(h, Anchor) = p[1]
      BY DEF Path, FirstNode
    <3>2. met[0] = IF 0 < n THEN p[1] ELSE Anchor
      BY <1>0, <1>1
    <3>. QED  BY <2>1, <3>1, <3>2 DEF Path
  <2>2. CASE k # 0
    <3>1. k - 1 \in 0 .. C /\ (k - 1) + 1 = k
      BY <1>0, <2>2
    <3>2. met[k - 1] = (IF k - 1 < n THEN p[k] ELSE Anchor)
          /\ met[k] = (IF k < n THEN p[k + 1] ELSE Anchor)
      BY <1>1, <3>1
    <3>3. CASE k - 1 < n
      <4>1. k \in 1 .. n /\ p[k] # Anchor /\ h.next[p[k]] = p[k + 1]
        BY <1>0, <2>2, <3>3 DEF Path
      <4>2. k < n \/ k = n
        BY <3>3
      <4>. QED  BY <2>2, <3>2, <3>3, <4>1, <4>2 DEF Path
    <3>4. CASE ~(k - 1 < n)
      BY <2>2, <3>2, <3>4
    <3>. QED  BY <3>3, <3>4
  <2>. QED  BY <2>1, <2>2
<1>. HIDE DEF met
<1>3. Walk(met)
  BY <1>2 DEF met
<1>4. Walk(walk)
  <2>. HIDE DEF Walk
  <2>. QED  BY <1>3
<1>. HIDE DEF walk
<1>5. \A k \in 0 .. C : walk[k] = met[k]
  <2>. DEFINE T == {k \in Nat : k \in 0 .. C => walk[k] = met[k]}
  <2>1. 0 \in T
    BY <1>0, <1>3, <1>4
  <2>2. ASSUME NEW k \in T PROVE k + 1 \in T
    <3>1. SUFFICES ASSUME k + 1 \in 0 .. C PROVE walk[k + 1] = met[k + 1]
      OBVIOUS
    <3>2. k \in 0 .. C /\ walk[k] = met[k] /\ (k + 1) - 1 = k /\ k + 1 # 0
      BY <1>0, <3>1
    <3>. QED  BY <1>3, <1>4, <3>1, <3>2
  <2>3. T = Nat
    <3>. HIDE DEF T
    <3>1. T \in SUBSET Nat
      BY DEF T
    <3>. QED  BY <2>1, <2>2, <3>1, Induction
  <2>. QED  BY <1>0, <2>3
<1>6. {walk[k] : k \in 0 .. C} \ {Anchor} = {p[i] : i \in 1 .. n}
  <2>1. ASSUME NEW k \in 0 .. C, walk[k] # Anchor PROVE walk[k] \in {p[i] : i \in 1 .. n}
    <3>1. k < n /\ walk[k] = p[k + 1] /\ k + 1 \in 1 .. n
      BY <1>0, <1>1, <1>5, <2>1
    <3>. QED  BY <3>1
  <2>2. ASSUME NEW i \in 1 .. n PROVE p[i] \in {walk[k] : k \in 0 .. C} /\ p[i] # Anchor
    <3>1. i - 1 \in 0 .. C /\ i - 1 < n /\ (i - 1) + 1 = i
      BY <1>0
    <3>2. walk[i - 1] = p[i]
      BY <1>1, <1>5, <3>1
    <3>. QED  BY <1>0, <3>1, <3>2
  <2>. QED  BY <2>1, <2>2
<1>7. Members(h) = {walk[k] : k \in 0 .. C} \ {Anchor}
  BY DEF Members, walk, C
<1>. QED  BY <1>6, <1>7

-----------------------------------------------------------------------------
(* The timeout list.                                                       *)

(* A path that prev goes back, of all the nodes in use.                    *)
Ring(h, n, p) ==
  /\ Path(h, n, p)
  /\ \A i \in 0 .. n : h.prev[p[i + 1]] = p[i]
  /\ \A m \in Node : h.next[m] # NULL <=> \E i \in 0 .. n : m = p[i]

IsRing(h) == \E n \in Nat : \E p : Ring(h, n, p)

LEMMA RingPush ==
  ASSUME NEW h \in Heap, IsRing(h), NEW c \in Conn, NEW g, g = WatchTimeout(h, c)
  PROVE  IsRing(g) /\ g.next[c] # NULL
<1>1. CASE h.next[c] # NULL
  BY <1>1 DEF WatchTimeout, dmbNodeIsUsed
<1>2. CASE h.next[c] = NULL
  <2>. c \in Node /\ Anchor \in Node /\ c # Anchor /\ NULL \notin Node
    BY NodeAssumption DEF Node
  <2>0. PICK n \in Nat : \E p : Ring(h, n, p)
    BY DEF IsRing
  <2>1. PICK p : Ring(h, n, p)
    BY <2>0
  <2>2. /\ p \in [0 .. n + 1 -> Node] /\ p[0] = Anchor /\ p[n + 1] = Anchor
        /\ \A i, j \in 0 .. n : p[i] = p[j] => i = j
        /\ \A i \in 0 .. n : h.next[p[i]] = p[i + 1] /\ h.prev[p[i + 1]] = p[i]
        /\ h.prev[Anchor] = p[n] /\ p[n] \in Node
        /\ \A m \in Node : h.next[m] # NULL <=> \E i \in 0 .. n : m = p[i]
    BY <2>1 DEF Ring, Path
  <2>3. \A i \in 0 .. n + 1 : p[i] # c
    <3>1. \A i \in 0 .. n : p[i] # c
      BY <1>2, <2>2
    <3>. QED  BY <2>2, <3>1
  <2>4. /\ g.next = [h.next EXCEPT ![p[n]] = c, ![c] = Anchor]
        /\ g.prev = [h.prev EXCEPT ![Anchor] = c, ![c] = p[n]]
    BY <1>2, <2>2, PushType, SMTT(40) DEF WatchTimeout, dmbNodeIsUsed
  <2>5. h.next \in [Node -> Node \cup {NULL}] /\ h.prev \in [Node -> Node \cup {NULL}]
    BY DEF Heap
  <2>6. /\ \A m \in Node : g.next[m] = IF m = c THEN Anchor ELSE IF m = p[n] THEN c ELSE h.next[m]
        /\ \A m \in Node : g.prev[m] = IF m = c THEN p[n] ELSE IF m = Anchor THEN c ELSE h.prev[m]
    BY <2>4, <2>5
  <2>7. PICK q : q = [i \in 0 .. n + 2 |-> IF i <= n THEN p[i] ELSE IF i = n + 1 THEN c ELSE Anchor]
    OBVIOUS
  <2>8. \A i \in 0 .. n + 2 : q[i] = IF i <= n THEN p[i] ELSE IF i = n + 1 THEN c ELSE Anchor
    BY <2>7
  <2>9. q \in [0 .. (n + 1) + 1 -> Node]
    BY <2>2, <2>7
  <2>10. \A i, j \in 0 .. n + 1 : q[i] = q[j] => i = j
    BY <2>2, <2>3, <2>8
  <2>11. ASSUME NEW i \in 0 .. n + 1
         PROVE  g.next[q[i]] = q[i + 1] /\ g.prev[q[i + 1]] = q[i]
    <3>1. CASE i < n
      <4>1. q[i] = p[i] /\ q[i + 1] = p[i + 1] /\ i \in 0 .. n /\ i + 1 \in 0 .. n /\ 0 \in 0 .. n
        BY <2>8, <3>1
      <4>2. p[i] # p[n] /\ p[i + 1] # p[0]
        BY <2>2, <3>1, <4>1
      <4>. QED  BY <2>2, <2>3, <2>6, <4>1, <4>2, SMTT(40)
    <3>2. CASE i = n
      <4>1. q[i] = p[n] /\ q[i + 1] = c
        BY <2>8, <3>2
      <4>. QED  BY <2>2, <2>3, <2>6, <4>1
    <3>3. CASE i = n + 1
      <4>1. q[i] = c /\ q[i + 1] = Anchor
        BY <2>8, <3>3
      <4>. QED  BY <2>2, <2>3, <2>6, <4>1
    <3>. QED  BY <3>1, <3>2, <3>3
  <2>12. ASSUME NEW m \in Node
         PROVE  g.next[m] # NULL <=> \E i \in 0 .. n + 1 : m = q[i]
    <3>1. g.next[m] # NULL <=> h.next[m] # NULL \/ m = c
      <4>1. n \in 0 .. n
        OBVIOUS
      <4>. QED  BY <2>2, <2>6, <4>1
    <3>2. (\E i \in 0 .. n + 1 : m = q[i]) <=> (\E i \in 0 .. n : m = p[i]) \/ m = c
      <4>1. ASSUME NEW i \in 0 .. n + 1, m = q[i] PROVE (\E j \in 0 .. n : m = p[j]) \/ m = c
        BY <2>8, <4>1
      <4>2. ASSUME NEW i \in 0 .. n, m = p[i] PROVE \E j \in 0 .. n + 1 : m = q[j]
        <5>1. i \in 0 .. n + 1 /\ q[i] = p[i]
          BY <2>8
        <5>. QED  BY <4>2, <5>1
      <4>3. n + 1 \in 0 .. n + 1 /\ q[n + 1] = c
        BY <2>8
      <4>. QED  BY <4>1, <4>2, <4>3
    <3>. QED  BY <2>2, <3>1, <3>2
  <2>13. q[0] = Anchor /\ q[(n + 1) + 1] = Anchor /\ g.prev[Anchor] = q[n + 1]
    BY <2>2, <2>6, <2>8
  <2>14. Ring(g, n + 1, q) /\ n + 1 \in Nat
    BY <2>9, <2>10, <2>11, <2>12, <2>13 DEF Ring, Path
  <2>. QED  BY <2>6, <2>14 DEF IsRing
<1>. QED  BY <1>1, <1>2

LEMMA RingUnwatch ==
  ASSUME NEW h \in Heap, IsRing(h), NEW c \in Conn, h.next[c] # NULL,
         NEW g, g = dmbNodeInit(dmbListRemove(h, c), c)
  PROVE  IsRing(g) /\ \A m \in Node : h.next[m] # NULL /\ m # c => g.next[m] # NULL
<1>. c \in Node /\ Anchor \in Node /\ c # Anchor /\ NULL \notin Node
  BY NodeAssumption DEF Node
<1>0. PICK n \in Nat : \E p : Ring(h, n, p)
  BY DEF IsRing
<1>1. PICK p : Ring(h, n, p)
  BY <1>0
<1>2. /\ p \in [0 .. n + 1 -> Node] /\ p[0] = Anchor /\ p[n + 1] = Anchor
      /\ \A i, j \in 0 .. n : p[i] = p[j] => i = j
      /\ \A i \in 0 .. n : h.next[p[i]] = p[i + 1] /\ h.prev[p[i + 1]] = p[i]
      /\ \A m \in Node : h.next[m] # NULL <=> \E i \in 0 .. n : m = p[i]
  BY <1>1 DEF Ring, Path
<1>3. PICK k \in 1 .. n : c = p[k]
  <2>1. PICK i \in 0 .. n : c = p[i]
    BY <1>2
  <2>2. i # 0
    BY <1>2, <2>1
  <2>. QED  BY <2>1, <2>2
<1>4. /\ k - 1 \in 0 .. n /\ k \in 0 .. n /\ k + 1 \in 0 .. n + 1 /\ (k - 1) + 1 = k
      /\ h.next[c] = p[k + 1] /\ h.prev[c] = p[k - 1]
      /\ p[k - 1] \in Node /\ p[k + 1] \in Node /\ p[k - 1] # c /\ p[k + 1] # c
  <2>1. k - 1 \in 0 .. n /\ k \in 0 .. n /\ k + 1 \in 0 .. n + 1 /\ (k - 1) + 1 = k /\ k - 1 # k
    OBVIOUS
  <2>2. p[k - 1] # c
    BY <1>2, <1>3, <2>1
  <2>3. p[k + 1] # c
    <3>1. CASE k = n
      BY <1>2, <3>1
    <3>2. CASE k # n
      <4>1. k + 1 \in 0 .. n /\ k + 1 # k
        BY <2>1, <3>2
      <4>. QED  BY <1>2, <1>3, <2>1, <4>1
    <3>. QED  BY <3>1, <3>2
  <2>. QED  BY <1>2, <1>3, <2>1, <2>2, <2>3
<1>a. PICK a \in Node, b \in Node : a = p[k - 1] /\ b = p[k + 1]
  BY <1>4
<1>5. h.next \in [Node -> Node \cup {NULL}] /\ h.prev \in [Node -> Node \cup {NULL}]
  BY DEF Heap
<1>6. PICK r : r = dmbListRemove(h, c)
  OBVIOUS
<1>7. PICK v : v = [h.prev EXCEPT ![h.next[c]] = h.prev[c]]
  OBVIOUS
<1>8. v[c] = a /\ v = [h.prev EXCEPT ![b] = a] /\ a # c /\ b # c
  BY <1>4, <1>a, <1>5, <1>7
<1>9. r.prev = v /\ r.next = [h.next EXCEPT ![a] = b]
  <2>1. r.prev = v /\ r.next = [h.next EXCEPT ![v[c]] = h.next[c]]
    BY <1>6, <1>7 DEF dmbListRemove
  <2>. QED  BY <1>4, <1>a, <1>8, <2>1
<1>10. \A m \in Node :
         /\ g.next[m] = IF m = c THEN NULL ELSE IF m = a THEN b ELSE h.next[m]
         /\ g.prev[m] = IF m = c THEN NULL ELSE IF m = b THEN a ELSE h.prev[m]
  <2>1. g.next = [[h.next EXCEPT ![a] = b] EXCEPT ![c] = NULL]
        /\ g.prev = [[h.prev EXCEPT ![b] = a] EXCEPT ![c] = NULL]
    <3>1. g.next = [r.next EXCEPT ![c] = NULL] /\ g.prev = [r.prev EXCEPT ![c] = NULL]
      BY <1>6 DEF dmbNodeInit
    <3>. QED  BY <1>8, <1>9, <3>1
  <2>. QED  BY <1>5, <1>8, <2>1
<1>11. PICK q : q = [i \in 0 .. n |-> IF i < k THEN p[i] ELSE p[i + 1]]
  OBVIOUS
<1>12. \A i \in 0 .. n : q[i] = IF i < k THEN p[i] ELSE p[i + 1]
  BY <1>11
<1>13. q \in [0 .. (n - 1) + 1 -> Node]
  <2>1. \A i \in 0 .. n : p[i] \in Node /\ p[i + 1] \in Node
    BY <1>2
  <2>2. (n - 1) + 1 = n
    OBVIOUS
  <2>3. q \in [0 .. n -> Node]
    BY <1>11, <2>1
  <2>. QED  BY <2>2, <2>3
<1>14. \A i, j \in 0 .. n - 1 : q[i] = q[j] => i = j
  <2>1. \A i \in 0 .. n - 1 : i \in 0 .. n /\ i + 1 \in 0 .. n
    OBVIOUS
  <2>. QED  BY <1>2, <1>3, <1>12, <2>1
<1>15. ASSUME NEW i \in 0 .. n - 1
       PROVE  g.next[q[i]] = q[i + 1] /\ g.prev[q[i + 1]] = q[i]
  <2>1. i \in 0 .. n /\ i + 1 \in 0 .. n /\ i + 2 \in 0 .. n + 1 /\ (i + 1) + 1 = i + 2
    OBVIOUS
  <2>2. p[i] \in Node /\ p[i + 1] \in Node /\ p[i + 2] \in Node
    BY <1>2, <2>1
  <2>3. CASE i + 1 < k
    <3>1. q[i] = p[i] /\ q[i + 1] = p[i + 1]
      BY <1>12, <2>1, <2>3
    <3>2. p[i] # c /\ p[i] # p[k - 1] /\ p[i + 1] # c
      BY <1>2, <1>3, <1>4, <2>1, <2>3
    <3>3. p[i + 1] # p[k + 1]
      <4>1. CASE k = n
        <5>1. 0 \in 0 .. n /\ i + 1 # 0
          OBVIOUS
        <5>. QED  BY <1>2, <2>1, <4>1, <5>1
      <4>2. CASE k # n
        <5>1. k + 1 \in 0 .. n /\ i + 1 # k + 1
          BY <1>3, <2>3, <4>2
        <5>. QED  BY <1>2, <2>1, <5>1
      <4>. QED  BY <4>1, <4>2
    <3>4. g.next[q[i]] = h.next[q[i]] /\ g.prev[q[i + 1]] = h.prev[q[i + 1]]
      BY <1>10, <1>a, <2>2, <3>1, <3>2, <3>3
    <3>. QED  BY <1>2, <2>1, <3>1, <3>4
  <2>4. CASE i + 1 = k
    <3>1. q[i] = p[k - 1] /\ q[i + 1] = p[k + 1]
      BY <1>12, <2>1, <2>4
    <3>. QED  BY <1>4, <1>8, <1>10, <1>a, <3>1
  <2>5. CASE i >= k
    <3>1. q[i] = p[i + 1] /\ q[i + 1] = p[i + 2]
      BY <1>12, <2>1, <2>5
    <3>2. p[i + 1] # c /\ p[i + 1] # p[k - 1]
      BY <1>2, <1>3, <1>4, <2>1, <2>5, SMTT(40)
    <3>3. p[i + 2] # c /\ p[i + 2] # p[k + 1]
      <4>1. k + 1 \in 0 .. n /\ k + 1 # 0 /\ k # 0 /\ i + 2 # k + 1 /\ i + 2 # k /\ 0 \in 0 .. n
        BY <2>5
      <4>2. CASE i + 2 = n + 1
        <5>1. p[i + 2] = Anchor
          BY <1>2, <4>2
        <5>. QED  BY <1>2, <4>1, <5>1
      <4>3. CASE i + 2 # n + 1
        <5>1. i + 2 \in 0 .. n
          BY <2>1, <4>3
        <5>. QED  BY <1>2, <1>3, <1>4, <4>1, <5>1
      <4>. QED  BY <4>2, <4>3
    <3>4. g.next[q[i]] = h.next[q[i]] /\ g.prev[q[i + 1]] = h.prev[q[i + 1]]
      BY <1>10, <1>a, <2>2, <3>1, <3>2, <3>3
    <3>. QED  BY <1>2, <2>1, <3>1, <3>4
  <2>. QED  BY <1>3, <2>3, <2>4, <2>5
<1>16. q[0] = Anchor /\ q[(n - 1) + 1] = Anchor /\ g.prev[Anchor] = q[n - 1]
  <2>1. 0 \in 0 .. n /\ n \in 0 .. n /\ 0 < k /\ ~(n < k) /\ (n - 1) + 1 = n /\ n - 1 \in 0 .. n - 1
    OBVIOUS
  <2>2. q[0] = Anchor /\ q[n] = Anchor
    BY <1>2, <1>12, <2>1
  <2>. QED  BY <1>15, <2>1, <2>2
<1>17. ASSUME NEW m \in Node
       PROVE  g.next[m] # NULL <=> \E i \in 0 .. n - 1 : m = q[i]
  <2>1. g.next[m] # NULL <=> h.next[m] # NULL /\ m # c
    <3>1. h.next[p[k - 1]] # NULL
      BY <1>2, <1>4
    <3>. QED  BY <1>4, <1>8, <1>10, <1>a, <3>1
  <2>2. ASSUME NEW i \in 0 .. n - 1, m = q[i] PROVE m # c /\ \E j \in 0 .. n : m = p[j]
    <3>1. i \in 0 .. n /\ i + 1 \in 0 .. n
      OBVIOUS
    <3>. QED  BY <1>2, <1>3, <1>4, <1>12, <2>2, <3>1
  <2>3. ASSUME NEW j \in 0 .. n, m = p[j], m # c PROVE \E i \in 0 .. n - 1 : m = q[i]
    <3>1. CASE j < k
      <4>1. j \in 0 .. n - 1 /\ q[j] = p[j]
        BY <1>12, <3>1
      <4>. QED  BY <2>3, <4>1
    <3>2. CASE j > k
      <4>1. j - 1 \in 0 .. n - 1 /\ j - 1 \in 0 .. n /\ ~(j - 1 < k) /\ (j - 1) + 1 = j
        BY <3>2
      <4>2. q[j - 1] = p[j]
        BY <1>12, <4>1
      <4>. QED  BY <2>3, <4>1, <4>2
    <3>. QED  BY <1>3, <2>3, <3>1, <3>2
  <2>. QED  BY <1>2, <2>1, <2>2, <2>3
<1>18. n - 1 \in Nat
  BY <1>3
<1>19. Path(g, n - 1, q)
  BY <1>13, <1>14, <1>15, <1>16 DEF Path
<1>20. IsRing(g)
  BY <1>15, <1>17, <1>18, <1>19 DEF Ring, IsRing
<1>21. \A m \in Node : h.next[m] # NULL /\ m # c => g.next[m] # NULL
  BY <1>10
<1>. QED  BY <1>20, <1>21

-----------------------------------------------------------------------------
(* The round robin list.                                                   *)

(* A node that was pushed while it was on the list hides those behind it,  *)
(* and if it was the first it stays there for ever: it cannot be removed.  *)
Stuck(h) ==
  h.next[Anchor] \in Conn /\ h.prev[h.next[Anchor]] \in Conn /\ h.prev[Anchor] \in Conn

(* Pushing at the end.  What was on the list may be cut off, if it is      *)
(* behind the node pushed, but nothing else comes on it.                   *)
Pushed(g, h, n, p, c) ==
  \E m \in Nat : \E q :
    /\ Path(g, m, q) /\ m > 0 /\ c \in {q[i] : i \in 1 .. m}
    /\ {q[i] : i \in 1 .. m} \subseteq {p[i] : i \in 1 .. n} \cup {c}
    /\ (\A i \in 1 .. n : p[i] # c) => {p[i] : i \in 1 .. n} \subseteq {q[i] : i \in 1 .. m}
    /\ (\A i \in 1 .. n : p[i] # c) /\ h.prev[p[1]] = Anchor => g.prev[q[1]] = Anchor

LEMMA PathPush ==
  ASSUME NEW h \in Heap, NEW n \in Nat, NEW p, Path(h, n, p), NEW c \in Conn,
         NEW g, g = dmbListPushBack(h, Anchor, c)
  PROVE  Pushed(g, h, n, p, c)
<1>. c \in Node /\ Anchor \in Node /\ c # Anchor
  BY NodeAssumption DEF Node
<1>1. /\ p \in [0 .. n + 1 -> Node] /\ p[0] = Anchor /\ p[n + 1] = Anchor
      /\ \A i, j \in 0 .. n : p[i] = p[j] => i = j
      /\ \A i \in 0 .. n : h.next[p[i]] = p[i + 1]
      /\ h.prev[Anchor] = p[n]
  BY DEF Path
<1>2. PICK t \in Node : t = p[n]
  BY <1>1
<1>3. h.next \in [Node -> Node \cup {NULL}] /\ h.prev \in [Node -> Node \cup {NULL}]
  BY DEF Heap
<1>4. /\ g.next = [h.next EXCEPT ![t] = c, ![c] = Anchor]
      /\ g.prev = [h.prev EXCEPT ![Anchor] = c, ![c] = t]
  BY <1>1, <1>2 DEF dmbListPushBack, insert
<1>5. /\ \A m \in Node : g.next[m] = IF m = c THEN Anchor ELSE IF m = t THEN c ELSE h.next[m]
      /\ \A m \in Node : g.prev[m] = IF m = c THEN t ELSE IF m = Anchor THEN c ELSE h.prev[m]
  BY <1>3, <1>4
<1>6. CASE \A i \in 1 .. n : p[i] # c
  <2>1. PICK q : q = [i \in 0 .. (n + 1) + 1 |->
                       IF i <= n THEN p[i] ELSE IF i = n + 1 THEN c ELSE Anchor]
    OBVIOUS
  <2>2. \A i \in 0 .. (n + 1) + 1 : q[i] = IF i <= n THEN p[i] ELSE IF i = n + 1 THEN c ELSE Anchor
    BY <2>1
  <2>3. q \in [0 .. (n + 1) + 1 -> Node]
    BY <1>1, <2>1
  <2>4. \A i \in 0 .. n : p[i] # c
    BY <1>1, <1>6
  <2>5. \A i, j \in 0 .. n + 1 : q[i] = q[j] => i = j
    BY <1>1, <2>2, <2>4
  <2>6. ASSUME NEW i \in 0 .. n + 1 PROVE g.next[q[i]] = q[i + 1]
    <3>1. CASE i < n
      <4>1. q[i] = p[i] /\ q[i + 1] = p[i + 1] /\ i \in 0 .. n /\ n \in 0 .. n
        BY <2>2, <3>1
      <4>2. p[i] # t /\ p[i] # c
        BY <1>1, <1>2, <2>4, <3>1, <4>1
      <4>. QED  BY <1>1, <1>5, <4>1, <4>2
    <3>2. CASE i = n
      <4>1. q[i] = t /\ q[i + 1] = c
        BY <1>2, <2>2, <3>2
      <4>2. t # c
        BY <1>2, <2>4
      <4>. QED  BY <1>5, <4>1, <4>2
    <3>3. CASE i = n + 1
      <4>1. q[i] = c /\ q[i + 1] = Anchor
        BY <2>2, <3>3
      <4>. QED  BY <1>5, <4>1
    <3>. QED  BY <3>1, <3>2, <3>3
  <2>7. q[0] = Anchor /\ q[(n + 1) + 1] = Anchor /\ g.prev[Anchor] = q[n + 1]
    BY <1>1, <1>5, <2>2
  <2>8. Path(g, n + 1, q)
    BY <2>3, <2>5, <2>6, <2>7 DEF Path
  <2>9. q[n + 1] = c /\ n + 1 \in 1 .. n + 1 /\ n + 1 > 0 /\ n + 1 \in Nat
    BY <2>2
  <2>10. {q[i] : i \in 1 .. n + 1} \subseteq {p[i] : i \in 1 .. n} \cup {c}
    BY <2>2
  <2>11. h.prev[p[1]] = Anchor => g.prev[q[1]] = Anchor
    <3>1. CASE n = 0
      <4>1. q[1] = c /\ t = Anchor
        BY <1>1, <1>2, <2>2, <3>1
      <4>. QED  BY <1>5, <4>1
    <3>2. CASE n # 0
      <4>1. q[1] = p[1] /\ p[1] # c /\ p[1] # p[0] /\ p[1] \in Node
        <5>1. 0 \in 0 .. n /\ 1 \in 0 .. n /\ 1 \in 0 .. (n + 1) + 1 /\ 1 <= n
          BY <3>2
        <5>. QED  BY <1>1, <2>2, <2>4, <5>1
      <4>. QED  BY <1>1, <1>5, <4>1
    <3>. QED  BY <3>1, <3>2
  <2>12. {p[i] : i \in 1 .. n} \subseteq {q[i] : i \in 1 .. n + 1}
    BY <2>2
  <2>13. \E m \in Nat : \E r :
           /\ Path(g, m, r) /\ m > 0 /\ c \in {r[i] : i \in 1 .. m}
           /\ {r[i] : i \in 1 .. m} \subseteq {p[i] : i \in 1 .. n} \cup {c}
           /\ (\A i \in 1 .. n : p[i] # c) => {p[i] : i \in 1 .. n} \subseteq {r[i] : i \in 1 .. m}
           /\ (\A i \in 1 .. n : p[i] # c) /\ h.prev[p[1]] = Anchor => g.prev[r[1]] = Anchor
    BY <2>8, <2>9, <2>10, <2>11, <2>12
  <2>. QED  BY <2>13 DEF Pushed
<1>7. ASSUME NEW k \in 1 .. n, p[k] = c
      PROVE  \E m \in Nat : \E q :
               /\ Path(g, m, q) /\ m > 0 /\ c \in {q[i] : i \in 1 .. m}
               /\ {q[i] : i \in 1 .. m} \subseteq {p[i] : i \in 1 .. n} \cup {c}
  <2>1. PICK q : q = [i \in 0 .. k + 1 |-> IF i <= k THEN p[i] ELSE Anchor]
    OBVIOUS
  <2>2. \A i \in 0 .. k + 1 : q[i] = IF i <= k THEN p[i] ELSE Anchor
    BY <2>1
  <2>3. q \in [0 .. k + 1 -> Node]
    BY <1>1, <2>1
  <2>4. \A i, j \in 0 .. k : q[i] = q[j] => i = j
    BY <1>1, <2>2, SMTT(40)
  <2>5. ASSUME NEW i \in 0 .. k PROVE g.next[q[i]] = q[i + 1]
    <3>1. CASE i < k
      <4>1. q[i] = p[i] /\ q[i + 1] = p[i + 1] /\ i \in 0 .. n /\ k \in 0 .. n /\ n \in 0 .. n
        BY <2>2, <3>1
      <4>2. p[i] # t /\ p[i] # c
        BY <1>1, <1>2, <1>7, <3>1, <4>1
      <4>. QED  BY <1>1, <1>5, <4>1, <4>2
    <3>2. CASE i = k
      <4>1. q[i] = c /\ q[i + 1] = Anchor
        BY <1>7, <2>2, <3>2
      <4>. QED  BY <1>5, <4>1
    <3>. QED  BY <3>1, <3>2
  <2>6. q[0] = Anchor /\ q[k + 1] = Anchor /\ q[k] = c /\ g.prev[Anchor] = q[k]
    BY <1>1, <1>5, <1>7, <2>2
  <2>7. Path(g, k, q)
    BY <2>3, <2>4, <2>5, <2>6 DEF Path
  <2>8. k \in 1 .. k /\ k > 0 /\ k \in Nat
    OBVIOUS
  <2>9. {q[i] : i \in 1 .. k} \subseteq {p[i] : i \in 1 .. n} \cup {c}
    BY <2>2
  <2>. QED  BY <2>6, <2>7, <2>8, <2>9
<1>. QED  BY <1>6, <1>7 DEF Pushed

(* Taking the first node, when it has not been pushed twice.               *)
Popped(g, n, p) ==
  \E q : /\ Path(g, n - 1, q) /\ g.prev[q[1]] = Anchor
         /\ \A i \in 1 .. n - 1 : q[i] = p[i + 1] /\ q[i] # p[1]

LEMMA PathPop ==
  ASSUME NEW h \in Heap, NEW n \in Nat, n > 0, NEW p, Path(h, n, p), h.prev[p[1]] = Anchor,
         NEW g, g = dmbListPopFront(h, Anchor)
  PROVE  Popped(g, n, p)
<1>. Anchor \in Node
  BY DEF Node
<1>1. /\ p \in [0 .. n + 1 -> Node] /\ p[0] = Anchor /\ p[n + 1] = Anchor
      /\ \A i, j \in 0 .. n : p[i] = p[j] => i = j
      /\ \A i \in 0 .. n : h.next[p[i]] = p[i + 1]
      /\ h.prev[Anchor] = p[n]
  BY DEF Path
<1>2. PICK c \in Node, d \in Node : c = p[1] /\ d = p[2]
  BY <1>1
<1>3. 0 \in 0 .. n /\ 1 \in 0 .. n /\ c # Anchor /\ h.next[Anchor] = c /\ h.next[c] = d
      /\ h.prev[c] = Anchor
  BY <1>1, <1>2
<1>4. d # c
  <2>1. CASE n = 1
    BY <1>1, <1>2, <1>3, <2>1
  <2>2. CASE n # 1
    BY <1>1, <1>2, <2>2
  <2>. QED  BY <2>1, <2>2
<1>5. h.next \in [Node -> Node \cup {NULL}] /\ h.prev \in [Node -> Node \cup {NULL}]
  BY DEF Heap
<1>6. g.prev = [h.prev EXCEPT ![d] = Anchor] /\ g.next = [h.next EXCEPT ![Anchor] = d]
  <2>1. PICK v : v = [h.prev EXCEPT ![d] = Anchor]
    OBVIOUS
  <2>2. v[c] = Anchor
    BY <1>3, <1>4, <1>5, <2>1
  <2>3. g.prev = [h.prev EXCEPT ![h.next[c]] = h.prev[c]]
        /\ g.next = [h.next EXCEPT ![[h.prev EXCEPT ![h.next[c]] = h.prev[c]][c]] = h.next[c]]
    BY <1>3 DEF dmbListPopFront, FirstNode, dmbListRemove
  <2>. QED  BY <1>3, <2>1, <2>2, <2>3
<1>7. /\ \A m \in Node : g.next[m] = IF m = Anchor THEN d ELSE h.next[m]
      /\ \A m \in Node : g.prev[m] = IF m = d THEN Anchor ELSE h.prev[m]
  BY <1>5, <1>6
<1>8. PICK q : q = [i \in 0 .. n |-> IF i = 0 THEN Anchor ELSE p[i + 1]]
  OBVIOUS
<1>9. \A i \in 0 .. n : q[i] = IF i = 0 THEN Anchor ELSE p[i + 1]
  BY <1>8
<1>10. q \in [0 .. (n - 1) + 1 -> Node]
  <2>1. q \in [0 .. n -> Node]
    BY <1>1, <1>8
  <2>2. (n - 1) + 1 = n
    OBVIOUS
  <2>. QED  BY <2>1, <2>2
<1>11. \A i \in 1 .. n - 1 : q[i] = p[i + 1] /\ q[i] # p[1] /\ q[i] # Anchor
  <2>. SUFFICES ASSUME NEW i \in 1 .. n - 1
                PROVE  q[i] = p[i + 1] /\ q[i] # p[1] /\ q[i] # Anchor
    OBVIOUS
  <2>1. i \in 0 .. n /\ i + 1 \in 0 .. n /\ i + 1 # 1 /\ i + 1 # 0 /\ i # 0
    OBVIOUS
  <2>. QED  BY <1>1, <1>3, <1>9, <2>1
<1>12. \A i, j \in 0 .. n - 1 : q[i] = q[j] => i = j
  <2>. SUFFICES ASSUME NEW i \in 0 .. n - 1, NEW j \in 0 .. n - 1, q[i] = q[j] PROVE i = j
    OBVIOUS
  <2>1. i \in 0 .. n /\ j \in 0 .. n /\ i + 1 \in 0 .. n /\ j + 1 \in 0 .. n
    OBVIOUS
  <2>2. i = 0 <=> j = 0
    BY <1>9, <1>11, <2>1
  <2>. QED  BY <1>1, <1>9, <2>1, <2>2
<1>13. ASSUME NEW i \in 0 .. n - 1 PROVE g.next[q[i]] = q[i + 1]
  <2>1. i \in 0 .. n /\ i + 1 \in 0 .. n /\ i + 1 # 0 /\ (i + 1) + 1 = i + 2
    OBVIOUS
  <2>2. q[i + 1] = p[i + 2]
    BY <1>9, <2>1
  <2>3. CASE i = 0
    <3>1. q[i] = Anchor /\ q[i + 1] = d
      BY <1>2, <1>9, <2>1, <2>2, <2>3
    <3>. QED  BY <1>7, <3>1
  <2>4. CASE i # 0
    <3>1. q[i] = p[i + 1] /\ q[i] # Anchor /\ q[i] \in Node
      BY <1>1, <1>11, <2>1, <2>4
    <3>. QED  BY <1>1, <1>7, <2>1, <2>2, <3>1
  <2>. QED  BY <2>3, <2>4
<1>14. q[0] = Anchor /\ q[n] = Anchor /\ q[1] = d /\ g.prev[Anchor] = q[n - 1]
  <2>1. q[0] = Anchor /\ q[n] = Anchor /\ q[1] = d
    BY <1>1, <1>2, <1>9
  <2>2. CASE n = 1
    BY <1>1, <1>2, <1>7, <2>1, <2>2
  <2>3. CASE n # 1
    <3>1. 2 \in 0 .. n /\ n - 1 \in 0 .. n /\ n - 1 # 0 /\ (n - 1) + 1 = n
      BY <2>3
    <3>2. d # Anchor /\ q[n - 1] = p[n]
      BY <1>1, <1>2, <1>3, <1>9, <3>1
    <3>3. g.prev[Anchor] = h.prev[Anchor]
      BY <1>7, <3>2
    <3>. QED  BY <1>1, <2>1, <3>2, <3>3
  <2>. QED  BY <2>1, <2>2, <2>3
<1>15. Path(g, n - 1, q)
  <2>1. (n - 1) + 1 = n
    OBVIOUS
  <2>. QED  BY <1>10, <1>12, <1>13, <1>14, <2>1 DEF Path
<1>16. g.prev[q[1]] = Anchor
  BY <1>7, <1>14
<1>. QED  BY <1>11, <1>15, <1>16 DEF Popped

(* A list that is stuck stays so.                                          *)
LEMMA StuckStays ==
  ASSUME NEW h \in Heap, Stuck(h), NEW c, c = h.next[Anchor], h.next[c] \in Node,
         NEW g, g = dmbListPopFront(h, Anchor), NEW k, k = dmbListPushBack(g, Anchor, c)
  PROVE  Stuck(g) /\ g.next[Anchor] = c /\ Stuck(k) /\ k.next[Anchor] = c
<1>. Anchor \in Node /\ Conn \subseteq Node /\ Anchor \notin Conn
  BY NodeAssumption DEF Node
<1>1. PICK b \in Conn, d \in Node, t \in Conn :
        b = h.prev[c] /\ d = h.next[c] /\ t = h.prev[Anchor]
  BY DEF Stuck
<1>2. c \in Conn
  BY DEF Stuck
<1>3. h.next \in [Node -> Node \cup {NULL}] /\ h.prev \in [Node -> Node \cup {NULL}]
  BY DEF Heap
<1>4. PICK v : v = [h.prev EXCEPT ![d] = b]
  OBVIOUS
<1>5. v[c] = b
  BY <1>1, <1>2, <1>3, <1>4
<1>6. g.prev = v /\ g.next = [h.next EXCEPT ![b] = d]
  <2>1. g.prev = v /\ g.next = [h.next EXCEPT ![v[c]] = d]
    BY <1>1, <1>4 DEF dmbListPopFront, FirstNode, dmbListRemove
  <2>. QED  BY <1>5, <2>1
<1>7. /\ g.next[Anchor] = c /\ g.prev[c] = b /\ g.prev[Anchor] \in Conn
      /\ g.next \in [Node -> Node \cup {NULL}] /\ g.prev \in [Node -> Node \cup {NULL}]
  <2>1. b # Anchor
    OBVIOUS
  <2>. QED  BY <1>1, <1>2, <1>3, <1>4, <1>5, <1>6, <2>1
<1>8. PICK u \in Conn : u = g.prev[Anchor]
  BY <1>7
<1>9. k.next = [g.next EXCEPT ![u] = c, ![c] = Anchor]
      /\ k.prev = [g.prev EXCEPT ![Anchor] = c, ![c] = u]
  BY <1>8 DEF dmbListPushBack, insert
<1>10. k.next[Anchor] = c /\ k.prev[c] = u /\ k.prev[Anchor] = c
  BY <1>2, <1>7, <1>9
<1>. QED  BY <1>2, <1>7, <1>10 DEF Stuck

(* The first node is met by every traversal.                               *)
LEMMA FirstMember ==
  ASSUME NEW h, h.next[Anchor] \in Conn
  PROVE  h.next[Anchor] \in Members(h)
<1>. DEFINE C == Cardinality(Conn)
            Step(f, k) == IF k = 0 THEN FirstNode(h, Anchor)
                          ELSE IF f[k - 1] = Anchor THEN Anchor ELSE h.next[f[k - 1]]
            Walk(f) == f = [k \in 0 .. C |-> Step(f, k)]
            walk == CHOOSE f : Walk(f)
            T == {n \in Nat : \E f : f = [k \in 0 .. n |-> Step(f, k)]}
<1>1. 0 \in T
  <2>1. PICK f : f = [k \in 0 .. 0 |-> FirstNode(h, Anchor)]
    OBVIOUS
  <2>2. \A k \in 0 .. 0 : Step(f, k) = FirstNode(h, Anchor)
    OBVIOUS
  <2>. HIDE DEF Step
  <2>3. f = [k \in 0 .. 0 |-> Step(f, k)]
    BY <2>1, <2>2
  <2>. QED  BY <2>3
<1>2. ASSUME NEW n \in T PROVE n + 1 \in T
  <2>0. n \in Nat
    OBVIOUS
  <2>1. PICK f : f = [k \in 0 .. n |-> Step(f, k)]
    OBVIOUS
  <2>2. PICK g : g = [k \in 0 .. n + 1 |-> IF k <= n THEN f[k] ELSE Step(f, n + 1)]
    OBVIOUS
  <2>3. \A k \in 0 .. n + 1 : g[k] = IF k <= n THEN f[k] ELSE Step(f, n + 1)
    <3>. HIDE DEF Step
    <3>. QED  BY <2>2
  <2>4. \A k \in 0 .. n : f[k] = Step(f, k)
    <3>. HIDE DEF Step
    <3>. QED  BY <2>1
  <2>5. ASSUME NEW k \in 0 .. n + 1 PROVE Step(g, k) = Step(f, k)
    <3>1. CASE k = 0
      BY <3>1
    <3>2. CASE k # 0
      <4>1. k - 1 \in 0 .. n + 1 /\ k - 1 <= n
        BY <2>0, <3>2
      <4>2. g[k - 1] = f[k - 1]
        <5>. HIDE DEF Step
        <5>. QED  BY <2>3, <4>1
      <4>. QED  BY <3>2, <4>2
    <3>. QED  BY <3>1, <3>2
  <2>6. ASSUME NEW k \in 0 .. n + 1 PROVE g[k] = Step(g, k)
    <3>1. k <= n => k \in 0 .. n
      BY <2>0
    <3>2. ~(k <= n) => k = n + 1
      BY <2>0
    <3>. HIDE DEF Step
    <3>. QED  BY <2>3, <2>4, <2>5, <3>1, <3>2
  <2>7. g = [k \in 0 .. n + 1 |-> Step(g, k)]
    <3>. HIDE DEF Step
    <3>. QED  BY <2>2, <2>6
  <2>8. n + 1 \in Nat
    BY <2>0
  <2>. HIDE DEF Step
  <2>. QED  BY <2>7, <2>8
<1>3. T = Nat
  <2>. HIDE DEF T
  <2>1. T \in SUBSET Nat
    BY DEF T
  <2>. QED  BY <1>1, <1>2, <2>1, Induction
<1>4. C \in Nat
  BY FS_CardinalityType, NodeAssumption
<1>. HIDE DEF C
<1>5. Walk(walk)
  <2>. HIDE DEF Step
  <2>1. \E f : Walk(f)
    BY <1>3, <1>4
  <2>. HIDE DEF Walk
  <2>. QED  BY <2>1
<1>. HIDE DEF walk
<1>6. walk[0] = h.next[Anchor] /\ 0 \in 0 .. C
  <2>1. 0 \in 0 .. C
    BY <1>4
  <2>2. walk[0] = Step(walk, 0)
    <3>. HIDE DEF Step
    <3>. QED  BY <1>5, <2>1
  <2>. QED  BY <2>1, <2>2 DEF FirstNode
<1>7. Members(h) = {walk[k] : k \in 0 .. C} \ {Anchor}
  BY DEF Members, walk, C
<1>. QED  BY <1>6, <1>7, NodeAssumption

-----------------------------------------------------------------------------
(* The invariants.                                                         *)

(* Every connection has a timeout and is in use on the timeout list.       *)
WatchInv ==
  /\ \A c \in Conn : Timed(cn[c]) /\ (cn[c].live => timeoutConnList.next[c] # NULL)
  /\ IsRing(timeoutConnList)

(* What is on the list can be read, or epoll will tell of it.              *)
Rolled(n, p) ==
  /\ Path(roundRobinList, n, p)
  /\ phase \in {"poll", "sweep"} => n = 0
  /\ phase = "rr" => roundRobinList.prev[p[1]] = Anchor
  /\ \A c \in Conn : c \in {p[i] : i \in 1 .. n} => Heard(cn[c], c \in ready)

RoundInv ==
  \/ \E n \in Nat : \E p : Rolled(n, p)
  \/ phase = "rr" /\ Stuck(roundRobinList)
     /\ \A c \in Conn : c = roundRobinList.next[Anchor] => Heard(cn[c], c \in ready)

(* An event says what has been received, unless another one is to come.    *)
EventsHeard ==
  \A k \in DOMAIN events : \A c \in Conn :
    k >= index /\ events[k].ptr = c => Heard(cn[c], c \in ready \/ events[k].in)

ListsInv == WatchInv /\ RoundInv /\ EventsHeard

LEMMA InitLists == Init => ListsInv
<1>. SUFFICES ASSUME Init PROVE ListsInv
  OBVIOUS
<1>. Anchor \in Node /\ NULL # Anchor
  BY NodeAssumption DEF Node
<1>1. \A c \in Conn : cn[c] = Closed
  BY DEF Init
<1>2. /\ EmptyList.next[Anchor] = Anchor /\ EmptyList.prev[Anchor] = Anchor
      /\ \A m \in Node : EmptyList.next[m] # NULL <=> m = Anchor
  BY DEF EmptyList
<1>3. PICK p : p = [i \in 0 .. 0 + 1 |-> Anchor]
  OBVIOUS
<1>4. p[0] = Anchor /\ p[0 + 1] = Anchor /\ p \in [0 .. 0 + 1 -> Node]
  BY <1>3
<1>5. \A i \in 0 .. 0 : i = 0
  OBVIOUS
<1>6. Path(EmptyList, 0, p)
  BY <1>2, <1>4, <1>5 DEF Path
<1>7. Ring(EmptyList, 0, p)
  BY <1>2, <1>4, <1>5, <1>6 DEF Ring
<1>8. WatchInv
  BY <1>1, <1>7 DEF Init, WatchInv, IsRing, Closed, Timed
<1>9. Rolled(0, p)
  <2>1. {p[i] : i \in 1 .. 0} = {}
    OBVIOUS
  <2>. QED  BY <1>6, <2>1 DEF Init, Rolled
<1>10. DOMAIN events = {}
  BY DEF Init
<1>11. RoundInv /\ EventsHeard
  BY <1>9, <1>10 DEF RoundInv, EventsHeard
<1>. QED  BY <1>8, <1>11 DEF ListsInv

(* No connection loses its timeout, and none is opened.                    *)
Watching ==
  /\ \A c \in Conn : /\ Timed(cn[c]) => Timed(cn'[c])
                     /\ cn'[c].live => cn[c].live
  /\ \/ timeoutConnList' = timeoutConnList
     \/ \E c \in Conn : timeoutConnList' = WatchTimeout(timeoutConnList, c)

LEMMA WatchKept == WorkerInv /\ WatchInv /\ Watching => WatchInv'
<1>. SUFFICES ASSUME WorkerInv, WatchInv, Watching PROVE WatchInv'
  OBVIOUS
<1>. timeoutConnList \in Heap /\ Linked(timeoutConnList) /\ Conn \subseteq Node
  BY DEF WorkerInv, TypeOK, ListInv, Node
<1>1. IsRing(timeoutConnList')
      /\ \A c \in Conn : timeoutConnList.next[c] # NULL => timeoutConnList'.next[c] # NULL
  <2>1. CASE timeoutConnList' = timeoutConnList
    BY <2>1 DEF WatchInv
  <2>2. ASSUME NEW c \in Conn, timeoutConnList' = WatchTimeout(timeoutConnList, c)
        PROVE  /\ IsRing(timeoutConnList')
               /\ \A d \in Conn : timeoutConnList.next[d] # NULL => timeoutConnList'.next[d] # NULL
    <3>1. PICK g : g = WatchTimeout(timeoutConnList, c)
      OBVIOUS
    <3>2. IsRing(g)
      BY <3>1, RingPush DEF WatchInv
    <3>3. \A n \in Node : timeoutConnList.next[n] # NULL => g.next[n] # NULL
      BY <3>1, WatchLinked
    <3>. QED  BY <2>2, <3>1, <3>2, <3>3
  <2>. QED  BY <2>1, <2>2 DEF Watching
<1>2. \A c \in Conn : Timed(cn'[c]) /\ (cn'[c].live => timeoutConnList'.next[c] # NULL)
  BY <1>1 DEF WatchInv, Watching
<1>. QED  BY <1>1, <1>2 DEF WatchInv

(* No step but the call of epoll and the handling of an event lets a       *)
(* connection with input out of sight.                                     *)
Hearing ==
  \A c \in Conn : \A x \in BOOLEAN : Heard(cn[c], c \in ready \/ x) => Heard(cn'[c], c \in ready' \/ x)

LEMMA EventsKept ==
  ASSUME WorkerInv, EventsHeard, Hearing, UNCHANGED events, index' \in Nat, index' >= index
  PROVE  EventsHeard'
<1>. DEFINE Event == [ptr : Conn \cup {NULL}, in : BOOLEAN, out : BOOLEAN, bad : BOOLEAN]
<1>1. index \in Nat /\ events \in Seq(Event)
  BY DEF WorkerInv, TypeOK
<1>. SUFFICES ASSUME NEW k \in DOMAIN events, NEW c \in Conn, k >= index', events[k].ptr = c
              PROVE  Heard(cn'[c], c \in ready' \/ events[k].in)
  BY DEF EventsHeard
<1>2. k \in 1 .. Len(events) /\ Len(events) \in Nat /\ k >= index
  <2>. HIDE DEF Event
  <2>1. DOMAIN events = 1 .. Len(events) /\ Len(events) \in Nat
    BY <1>1, LenProperties
  <2>. QED  BY <1>1, <2>1
<1>3. events[k] \in Event
  <2>. HIDE DEF Event
  <2>. QED  BY <1>1, <1>2, ElementOfSeq
<1>4. Heard(cn[c], c \in ready \/ events[k].in) /\ events[k].in \in BOOLEAN
  BY <1>2, <1>3 DEF EventsHeard
<1>. QED  BY <1>4 DEF Hearing

LEMMA RoundKept ==
  ASSUME RoundInv, Hearing, UNCHANGED <<roundRobinList, phase>>
  PROVE  RoundInv'
<1>1. \A c \in Conn : Heard(cn[c], c \in ready) => Heard(cn'[c], c \in ready')
  <2>. SUFFICES ASSUME NEW c \in Conn, Heard(cn[c], c \in ready) PROVE Heard(cn'[c], c \in ready')
    OBVIOUS
  <2>1. FALSE \in BOOLEAN /\ Heard(cn[c], c \in ready \/ FALSE)
    BY DEF Heard
  <2>2. Heard(cn'[c], c \in ready' \/ FALSE)
    BY <2>1 DEF Hearing
  <2>. QED  BY <2>2 DEF Heard
<1>2. ASSUME NEW n \in Nat, NEW p, Rolled(n, p) PROVE Rolled(n, p)'
  BY <1>1, <1>2 DEF Rolled
<1>3. CASE \E n \in Nat : \E p : Rolled(n, p)
  <2>1. PICK n \in Nat : \E p : Rolled(n, p)
    BY <1>3
  <2>2. PICK p : Rolled(n, p)
    BY <2>1
  <2>3. Rolled(n, p)'
    BY <1>2, <2>2
  <2>. QED  BY <2>3 DEF RoundInv
<1>4. CASE ~\E n \in Nat : \E p : Rolled(n, p)
  BY <1>1, <1>4 DEF RoundInv
<1>. QED  BY <1>3, <1>4

-----------------------------------------------------------------------------
(* The steps.                                                              *)

LEMMA QuietLists ==
  ASSUME WorkerInv, ListsInv, Watching, Hearing, UNCHANGED <<roundRobinList, phase, events>>,
         index' \in Nat, index' >= index
  PROVE  ListsInv'
BY WatchKept, EventsKept, RoundKept DEF ListsInv

(* What a client's step does to its connection.                            *)
LEMMA ClientStep ==
  ASSUME WorkerInv, NEW c \in Conn, (\E kind \in Kinds : Send(c, kind)) \/ SendRest(c)
                                    \/ ClientRead(c) \/ HangUp(c)
  PROVE  \E s : /\ Client(c, s) /\ s.live = cn[c].live /\ s.timeout = cn[c].timeout
                /\ s.registered = cn[c].registered /\ s.canRead = cn[c].canRead
                /\ Edge(c) \/ (UNCHANGED ready /\ s.rx = cn[c].rx)
<1>0. cn[c] \in Record
  BY DEF WorkerInv, TypeOK
<1>1. ASSUME NEW kind \in Kinds, Send(c, kind)
      PROVE  \E s : /\ Client(c, s) /\ s.live = cn[c].live /\ s.timeout = cn[c].timeout
                    /\ s.registered = cn[c].registered /\ s.canRead = cn[c].canRead
                    /\ Edge(c)
  <2>1. PICK part \in BOOLEAN :
          Client(c, [cn[c] EXCEPT !.quota = @ - 1, !.reqs = Append(@, kind),
                           !.rx = @ + (IF part THEN Hdr ELSE ReqSize),
                           !.rest = part, !.odd = @ \/ kind \in HostKinds])
    BY <1>1 DEF Send
  <2>2. PICK s : s = [cn[c] EXCEPT !.quota = @ - 1, !.reqs = Append(@, kind),
                           !.rx = @ + (IF part THEN Hdr ELSE ReqSize),
                           !.rest = part, !.odd = @ \/ kind \in HostKinds]
    OBVIOUS
  <2>3. /\ s.live = cn[c].live /\ s.timeout = cn[c].timeout
        /\ s.registered = cn[c].registered /\ s.canRead = cn[c].canRead
    BY <1>0, <2>2 DEF Record
  <2>. QED  BY <1>1, <2>1, <2>2, <2>3 DEF Send
<1>2. CASE SendRest(c)
  <2>1. PICK s : s = [cn[c] EXCEPT !.rx = @ + Body, !.rest = FALSE]
    OBVIOUS
  <2>2. /\ s.live = cn[c].live /\ s.timeout = cn[c].timeout
        /\ s.registered = cn[c].registered /\ s.canRead = cn[c].canRead
    BY <1>0, <2>1 DEF Record
  <2>. QED  BY <1>2, <2>1, <2>2 DEF SendRest
<1>3. CASE ClientRead(c)
  <2>1. PICK s : s = [cn[c] EXCEPT !.space = SendCap]
    OBVIOUS
  <2>2. /\ s.live = cn[c].live /\ s.timeout = cn[c].timeout /\ s.rx = cn[c].rx
        /\ s.registered = cn[c].registered /\ s.canRead = cn[c].canRead
    BY <1>0, <2>1 DEF Record
  <2>. QED  BY <1>3, <2>1, <2>2 DEF ClientRead
<1>4. CASE HangUp(c)
  <2>1. PICK s : s = [cn[c] EXCEPT !.hangup = TRUE]
    OBVIOUS
  <2>2. /\ s.live = cn[c].live /\ s.timeout = cn[c].timeout
        /\ s.registered = cn[c].registered /\ s.canRead = cn[c].canRead
    BY <1>0, <2>1 DEF Record
  <2>. QED  BY <1>4, <2>1, <2>2 DEF HangUp
<1>. QED  BY <1>1, <1>2, <1>3, <1>4

LEMMA ClientLists == WorkerInv /\ ListsInv /\ Clients => ListsInv'
<1>. SUFFICES ASSUME WorkerInv, ListsInv, Clients PROVE ListsInv'
  OBVIOUS
<1>1. index \in Nat
  BY DEF WorkerInv, TypeOK
<1>2. CASE HandOver
  <2>1. Watching /\ Hearing
    BY <1>2 DEF HandOver, Watching, Hearing, Heard
  <2>. QED  BY <1>1, <1>2, <2>1, QuietLists DEF HandOver
<1>3. ASSUME NEW c \in Conn, (\E kind \in Kinds : Send(c, kind)) \/ SendRest(c)
                             \/ ClientRead(c) \/ HangUp(c)
      PROVE  ListsInv'
  <2>1. PICK s : /\ Client(c, s) /\ s.live = cn[c].live /\ s.timeout = cn[c].timeout
                 /\ s.registered = cn[c].registered /\ s.canRead = cn[c].canRead
                 /\ Edge(c) \/ (UNCHANGED ready /\ s.rx = cn[c].rx)
    BY <1>3, ClientStep
  <2>2. cn' = [cn EXCEPT ![c] = s] /\ cn \in [Conn -> Record]
        /\ UNCHANGED <<timeoutConnList, roundRobinList, phase, events, index>>
    BY <2>1 DEF Client, WorkerInv, TypeOK
  <2>3. Watching
    BY <2>1, <2>2 DEF Watching, Timed
  <2>4. Hearing
    BY <2>1, <2>2 DEF Hearing, Heard, Edge
  <2>. QED  BY <1>1, <2>2, <2>3, <2>4, QuietLists
<1>. QED  BY <1>2, <1>3 DEF Clients

LEMMA PollLists == WorkerInv /\ ListsInv /\ Poll => ListsInv'
<1>. SUFFICES ASSUME WorkerInv, ListsInv, Poll PROVE ListsInv'
  OBVIOUS
<1>1. WatchInv'
  BY WatchKept DEF ListsInv, Watching, Poll
<1>2. PICK p : Rolled(0, p)
  <2>1. PICK n \in Nat : \E p : Rolled(n, p)
    BY DEF ListsInv, RoundInv, Poll
  <2>2. n = 0
    BY <2>1 DEF Rolled, Poll
  <2>. QED  BY <2>1, <2>2
<1>3. Rolled(0, p)'
  BY <1>2 DEF Rolled, Poll
<1>4. PICK b \in Orders(IF pending = 0 THEN ready \ {NULL} ELSE ready) :
        events' = [k \in DOMAIN b |-> EventOf(b[k])]
  BY DEF Poll
<1>5. EventsHeard'
  <2>. SUFFICES ASSUME NEW k \in DOMAIN events', NEW c \in Conn, events'[k].ptr = c
                PROVE  Heard(cn[c], events'[k].in)
    BY DEF EventsHeard, Poll, Heard
  <2>1. k \in DOMAIN b /\ events'[k] = EventOf(b[k])
    BY <1>4
  <2>2. b[k] # NULL
    <3>1. b[k] = NULL => events'[k].ptr = NULL
      BY <2>1 DEF EventOf
    <3>. QED  BY <3>1, NodeAssumption
  <2>3. events'[k].ptr = b[k] /\ events'[k].in = (cn[b[k]].rx > 0)
    BY <2>1, <2>2 DEF EventOf
  <2>. QED  BY <2>3 DEF Heard
<1>. QED  BY <1>1, <1>3, <1>5 DEF ListsInv, RoundInv

LEMMA NewConnectLists == WorkerInv /\ ListsInv /\ NewConnect => ListsInv'
<1>. SUFFICES ASSUME WorkerInv, ListsInv, NewConnect PROVE ListsInv'
  OBVIOUS
<1>1. PICK c \in Conn : c = Head(idleConnList)
  <2>1. idleConnList \in Seq(Conn) /\ Distinct(idleConnList)
    BY DEF WorkerInv, TypeOK, IdleInv
  <2>2. idleConnList # <<>>
    <3>1. pending \in Nat /\ taken \in Nat /\ taken > 0 /\ pending + taken <= Len(idleConnList)
      BY DEF WorkerInv, TypeOK, IdleInv, NewConnect
    <3>2. Len(idleConnList) \in Nat /\ Len(idleConnList) # 0
      BY <2>1, <3>1, LenProperties
    <3>. QED  BY <2>1, <3>2, EmptySeq
  <2>. QED  BY <2>1, <2>2, TailFacts
<1>2. PICK s : s = Opened(cn[c])
  OBVIOUS
<1>3. s.live /\ s.timeout
  <2>1. cn[c] \in Record
    BY DEF WorkerInv, TypeOK
  <2>. QED  BY <1>2, <2>1 DEF Opened, Record
<1>4. /\ cn' = [cn EXCEPT ![c] = s] /\ cn \in [Conn -> Record]
      /\ timeoutConnList' = WatchTimeout(timeoutConnList, c) /\ ready' = ready \cup {c}
      /\ UNCHANGED <<roundRobinList, phase, events>>
      /\ index' = (IF taken = 1 THEN index + 1 ELSE index) /\ index \in Nat
  BY <1>1, <1>2 DEF NewConnect, WorkerInv, TypeOK
<1>5. WatchInv'
  <2>1. timeoutConnList \in Heap /\ Linked(timeoutConnList) /\ IsRing(timeoutConnList)
    BY DEF WorkerInv, TypeOK, ListInv, ListsInv, WatchInv
  <2>2. PICK g : g = WatchTimeout(timeoutConnList, c)
    OBVIOUS
  <2>3. IsRing(g) /\ g.next[c] # NULL
    BY <2>1, <2>2, RingPush
  <2>4. \A n \in Node : timeoutConnList.next[n] # NULL => g.next[n] # NULL
    BY <2>1, <2>2, WatchLinked
  <2>5. \A d \in Conn : Timed(cn'[d]) /\ (cn'[d].live => g.next[d] # NULL)
    BY <1>3, <1>4, <2>3, <2>4 DEF ListsInv, WatchInv, Timed, Node
  <2>. QED  BY <1>4, <2>2, <2>3, <2>5 DEF WatchInv
<1>6. Hearing
  BY <1>4 DEF Hearing, Heard
<1>7. index' \in Nat /\ index' >= index
  BY <1>4
<1>. QED  BY <1>4, <1>5, <1>6, <1>7, EventsKept, RoundKept DEF ListsInv

(* A connection is closed.                                                 *)
LEMMA ClosedUnheard ==
  ASSUME NEW s, Rest(s), ~s.live
  PROVE  Timed(s) /\ \A x \in BOOLEAN : Heard(s, x)
BY DEF Timed, Heard, Rest, Busy, Blank

LEMMA BadConnectLists == WorkerInv /\ ListsInv /\ BadConnect => ListsInv'
<1>. SUFFICES ASSUME WorkerInv, ListsInv, BadConnect PROVE ListsInv'
  OBVIOUS
<1>1. PICK c \in Conn : c = Current.ptr
  BY CurrentType DEF BadConnect, WorkerInv
<1>2. index \in Nat /\ index' = index + 1
  BY DEF BadConnect, WorkerInv, TypeOK
<1>3. PICK s : s = CloseConnect(cn[c])
  OBVIOUS
<1>4. Rest(s) /\ ~s.live
  BY <1>3, CloseRest DEF WorkerInv, RecordInv, Rest
<1>5. /\ cn' = [cn EXCEPT ![c] = s] /\ cn \in [Conn -> Record]
      /\ \A d \in Conn : d # c /\ d \in ready => d \in ready'
      /\ UNCHANGED <<timeoutConnList, roundRobinList, phase, events>>
  BY <1>1, <1>3 DEF BadConnect, Update, WorkerInv, TypeOK
<1>6. Timed(s) /\ \A x \in BOOLEAN : Heard(s, x)
  BY <1>4, ClosedUnheard
<1>7. Watching
  BY <1>4, <1>5, <1>6 DEF Watching
<1>8. Hearing
  <2>. SUFFICES ASSUME NEW d \in Conn, NEW x \in BOOLEAN, Heard(cn[d], d \in ready \/ x)
                PROVE  Heard(cn'[d], d \in ready' \/ x)
    BY DEF Hearing
  <2>1. CASE d = c
    <3>1. cn'[d] = s /\ (d \in ready' \/ x) \in BOOLEAN
      BY <1>5, <2>1
    <3>. QED  BY <1>6, <3>1
  <2>2. CASE d # c
    BY <1>5, <2>2 DEF Heard
  <2>. QED  BY <2>1, <2>2
<1>. QED  BY <1>2, <1>5, <1>7, <1>8, QuietLists

(* The end of dmbProcessEvent: no other record is affected.                *)
LEMMA HandlerLists ==
  ASSUME WorkerInv, WatchInv, NEW c \in Conn, NEW s, Busy(s), Timed(s), s.live => cn[c].live,
         Heard(s, c \in ready), NEW list, ProcessEvent(c, s, list)
  PROVE  /\ Watching
         /\ \A d \in Conn : d # c =>
              /\ cn'[d] = cn[d] /\ (d \in ready => d \in ready')
         /\ Heard(cn'[c], c \in ready')
         /\ \/ roundRobinList' = dmbListPushBack(list, Anchor, c)
            \/ /\ roundRobinList' = list
               /\ cn'[c].registered /\ cn'[c].rx > 0 => c \in ready'
<1>1. PICK edge \in BOOLEAN : edge <=> c \in ready
  OBVIOUS
<1>2. PICK e, w : /\ Rest(e) /\ Update(c, e, w) /\ Timed(e) /\ (e.live => s.live)
                  /\ Heard(e, edge) /\ (e.registered => s.registered)
                  /\ \/ roundRobinList' = dmbListPushBack(list, Anchor, c)
                     \/ roundRobinList' = list /\ (e.registered /\ e.rx > 0 => edge)
  BY <1>1, HandlerHeard
<1>3. cn' = [cn EXCEPT ![c] = e] /\ cn \in [Conn -> Record]
  BY <1>2 DEF Update, WorkerInv, TypeOK
<1>4. cn'[c] = e /\ \A d \in Conn : d # c => cn'[d] = cn[d]
  BY <1>3
<1>5. ready' = IF e.registered THEN ready ELSE ready \ {c}
  BY <1>2 DEF Update
<1>6. Watching
  <2>1. timeoutConnList' \in {timeoutConnList, WatchTimeout(timeoutConnList, c)}
    BY <1>2 DEF Update
  <2>2. \A d \in Conn : (Timed(cn[d]) => Timed(cn'[d])) /\ (cn'[d].live => cn[d].live)
    BY <1>2, <1>4
  <2>. QED  BY <2>1, <2>2 DEF Watching
<1>7. Heard(cn'[c], c \in ready')
  BY <1>1, <1>2, <1>4, <1>5 DEF Heard
<1>8. cn'[c].registered /\ c \in ready => c \in ready'
  BY <1>4, <1>5
<1>. QED  BY <1>1, <1>2, <1>4, <1>5, <1>6, <1>7, <1>8

(* The event the loop is at, and the record it is about.                   *)
LEMMA EventSeen ==
  ASSUME WorkerInv, EventsHeard, ConnEvent, NEW c \in Conn, c = Current.ptr
  PROVE  Heard(cn[c], c \in ready \/ Current.in)
<1>1. PICK k \in DOMAIN events : k >= index /\ Current = events[k]
  <2>1. index \in Nat /\ index < Len(events) /\ Len(events) \in Nat
        /\ DOMAIN events = 1 .. Len(events)
    BY CurrentType, LenProperties DEF WorkerInv, TypeOK, MoreEvents, ConnEvent
  <2>2. (IF index = 0 THEN 1 ELSE index) \in DOMAIN events
        /\ (IF index = 0 THEN 1 ELSE index) >= index
    BY <2>1
  <2>. QED  BY <2>2 DEF Current
<1>. QED  BY <1>1 DEF EventsHeard

(* What ConnEvent does, whatever the list is.                              *)
LEMMA ConnEventHeard ==
  ASSUME WorkerInv, ListsInv, ConnEvent, NEW c \in Conn, c = Current.ptr
  PROVE  /\ Watching
         /\ \A d \in Conn : d # c => cn'[d] = cn[d] /\ (d \in ready => d \in ready')
         /\ Heard(cn'[c], c \in ready')
         /\ \/ roundRobinList' = dmbListPushBack(roundRobinList, Anchor, c)
            \/ /\ roundRobinList' = roundRobinList
               /\ cn'[c].registered /\ cn'[c].rx > 0 => c \in ready'
<1>1. PICK r \in Record : r = cn[c] /\ Rest(r) /\ Timed(r)
  BY DEF WorkerInv, RecordInv, TypeOK, ListsInv, WatchInv
<1>2. PICK a \in BOOLEAN : a = (r.canRead \/ Current.in)
  OBVIOUS
<1>3. PICK b \in BOOLEAN : b = (r.canWrite \/ Current.out)
  OBVIOUS
<1>4. PICK e \in BOOLEAN : e = (r.early /\ (r.writeLength > 0 \/ r.needClose \/ ~r.registered))
  OBVIOUS
<1>5. PICK s : s = [r EXCEPT !.canRead = a, !.canWrite = b, !.early = e]
  OBVIOUS
<1>6. /\ s \in Record /\ s.canRead = a /\ s.canWrite = b /\ s.early = e
      /\ s.live = r.live /\ s.timeout = r.timeout /\ s.registered = r.registered /\ s.rx = r.rx
  BY <1>5, ZenonT(60) DEF Record
<1>7. Busy(s)
  <2>1. s = [r EXCEPT !.canRead = s.canRead, !.canWrite = s.canWrite, !.early = s.early]
        /\ (s.early => r.early)
    BY <1>4, <1>5, <1>6
  <2>. QED  BY <1>1, <1>6, <2>1, EventBusy
<1>8. Timed(s) /\ (s.live => cn[c].live)
  BY <1>1, <1>6 DEF Timed
<1>9. Heard(s, c \in ready)
  BY <1>1, <1>2, <1>6, EventSeen DEF Heard, ListsInv
<1>10. ProcessEvent(c, s, roundRobinList)
  BY <1>1, <1>2, <1>3, <1>4, <1>5 DEF ConnEvent
<1>. QED  BY <1>7, <1>8, <1>9, <1>10, HandlerLists DEF ListsInv

LEMMA ConnEventLists == WorkerInv /\ ListsInv /\ ConnEvent => ListsInv'
<1>. SUFFICES ASSUME WorkerInv, ListsInv, ConnEvent PROVE ListsInv'
  OBVIOUS
<1>1. PICK c \in Conn : c = Current.ptr
  BY CurrentType DEF ConnEvent, WorkerInv
<1>2. /\ Watching
      /\ \A d \in Conn : d # c => cn'[d] = cn[d] /\ (d \in ready => d \in ready')
      /\ Heard(cn'[c], c \in ready')
      /\ \/ roundRobinList' = dmbListPushBack(roundRobinList, Anchor, c)
         \/ roundRobinList' = roundRobinList
  BY <1>1, ConnEventHeard
<1>3. phase = "foreach" /\ phase' = phase /\ UNCHANGED events /\ index \in Nat /\ index' = index + 1
  BY DEF ConnEvent, MoreEvents, WorkerInv, TypeOK
<1>4. WatchInv'
  BY <1>2, WatchKept DEF ListsInv
<1>5. Hearing
  <2>. SUFFICES ASSUME NEW d \in Conn, NEW x \in BOOLEAN, Heard(cn[d], d \in ready \/ x)
                PROVE  Heard(cn'[d], d \in ready' \/ x)
    BY DEF Hearing
  <2>. QED  BY <1>2 DEF Heard
<1>6. EventsHeard'
  BY <1>3, <1>5, EventsKept DEF ListsInv
<1>7. RoundInv'
  <2>1. PICK n \in Nat : \E p : Rolled(n, p)
    BY <1>3 DEF ListsInv, RoundInv
  <2>2. PICK p : Rolled(n, p)
    BY <2>1
  <2>3. PICK g : g = dmbListPushBack(roundRobinList, Anchor, c)
    OBVIOUS
  <2>4. roundRobinList \in Heap
    BY DEF WorkerInv, TypeOK
  <2>5. \A d \in Conn : Heard(cn[d], d \in ready) => Heard(cn'[d], d \in ready')
    BY <1>2 DEF Heard
  <2>6. CASE roundRobinList' = roundRobinList
    <3>1. Rolled(n, p)'
      BY <1>3, <2>2, <2>5, <2>6 DEF Rolled
    <3>. QED  BY <3>1 DEF RoundInv
  <2>7. CASE roundRobinList' = g
    <3>0. Path(roundRobinList, n, p)
      BY <2>2 DEF Rolled
    <3>a. \E m \in Nat : \E q :
            /\ Path(g, m, q) /\ m > 0 /\ c \in {q[i] : i \in 1 .. m}
            /\ {q[i] : i \in 1 .. m} \subseteq {p[i] : i \in 1 .. n} \cup {c}
            /\ (\A i \in 1 .. n : p[i] # c) /\ roundRobinList.prev[p[1]] = Anchor => g.prev[q[1]] = Anchor
      <4>1. Pushed(g, roundRobinList, n, p, c)
        BY <2>3, <2>4, <3>0, PathPush
      <4>. QED  BY <4>1 DEF Pushed
    <3>1. PICK m \in Nat : \E q : Path(g, m, q) /\ {q[i] : i \in 1 .. m} \subseteq {p[i] : i \in 1 .. n} \cup {c}
      BY <3>a
    <3>2. PICK q : Path(g, m, q) /\ {q[i] : i \in 1 .. m} \subseteq {p[i] : i \in 1 .. n} \cup {c}
      BY <3>1
    <3>3. \A d \in Conn : d \in {q[i] : i \in 1 .. m} => Heard(cn'[d], d \in ready')
      BY <1>2, <2>2, <2>5, <3>2 DEF Rolled
    <3>4. Rolled(m, q)'
      BY <1>3, <2>7, <3>2, <3>3 DEF Rolled
    <3>. QED  BY <3>4 DEF RoundInv
  <2>. QED  BY <1>2, <2>3, <2>6, <2>7
<1>. QED  BY <1>4, <1>6, <1>7 DEF ListsInv

(* What RoundRobin does, whatever the list is.                             *)
LEMMA RoundRobinHeard ==
  ASSUME WorkerInv, ListsInv, RoundRobin, NEW c \in Conn, c = FirstNode(roundRobinList, Anchor),
         NEW h, h = dmbListPopFront(roundRobinList, Anchor)
  PROVE  /\ Heard(cn[c], c \in ready)
         /\ Watching
         /\ \A d \in Conn : d # c => cn'[d] = cn[d] /\ (d \in ready => d \in ready')
         /\ Heard(cn'[c], c \in ready')
         /\ \/ roundRobinList' = dmbListPushBack(h, Anchor, c)
            \/ /\ roundRobinList' = h
               /\ cn'[c].registered /\ cn'[c].rx > 0 => c \in ready'
<1>1. Busy(cn[c]) /\ Timed(cn[c])
  BY DEF WorkerInv, RecordInv, Rest, ListsInv, WatchInv
<1>2. ProcessEvent(c, cn[c], h)
  BY DEF RoundRobin
<1>3. Heard(cn[c], c \in ready)
  <2>1. CASE \E n \in Nat : \E p : Rolled(n, p)
    <3>1. PICK n \in Nat : \E p : Rolled(n, p)
      BY <2>1
    <3>2. PICK p : Rolled(n, p)
      BY <3>1
    <3>3. c = p[1] /\ n # 0
      <4>1. 0 \in 0 .. n /\ 0 + 1 = 1
        OBVIOUS
      <4>2. c = p[1]
        BY <3>2, <4>1 DEF Rolled, Path, FirstNode
      <4>3. n = 0 => p[1] = Anchor
        BY <3>2 DEF Rolled, Path
      <4>. QED  BY <4>2, <4>3, NodeAssumption
    <3>4. c \in {p[i] : i \in 1 .. n}
      BY <3>3
    <3>. QED  BY <3>2, <3>4 DEF Rolled
  <2>2. CASE ~\E n \in Nat : \E p : Rolled(n, p)
    BY <2>2 DEF ListsInv, RoundInv, FirstNode
  <2>. QED  BY <2>1, <2>2
<1>. QED  BY <1>1, <1>2, <1>3, HandlerLists DEF ListsInv

LEMMA RoundRobinLists == WorkerInv /\ RespInv /\ ListsInv /\ RoundRobin => ListsInv'
<1>. SUFFICES ASSUME WorkerInv, RespInv, ListsInv, RoundRobin PROVE ListsInv'
  OBVIOUS
<1>1. PICK M : roundRobinList \in Heap /\ Around(roundRobinList, M)
  BY DEF WorkerInv, TypeOK, ListInv
<1>2. PICK h : h = dmbListPopFront(roundRobinList, Anchor)
  OBVIOUS
<1>3. FirstNode(roundRobinList, Anchor) \in M /\ h \in Heap
  BY <1>1, <1>2, PopAround
<1>4. FirstNode(roundRobinList, Anchor) # Anchor
  BY DEF RoundRobin, FirstNode, dmbListIsEmpty
<1>5. PICK c \in Conn : c = FirstNode(roundRobinList, Anchor)
  BY <1>1, <1>3, <1>4 DEF Around, Node
<1>6. /\ Heard(cn[c], c \in ready)
      /\ Watching
      /\ \A d \in Conn : d # c => cn'[d] = cn[d] /\ (d \in ready => d \in ready')
      /\ Heard(cn'[c], c \in ready')
      /\ \/ roundRobinList' = dmbListPushBack(h, Anchor, c)
         \/ roundRobinList' = h
  BY <1>2, <1>5, RoundRobinHeard
<1>7. phase = "rr" /\ phase' = phase /\ UNCHANGED events
  BY DEF RoundRobin
<1>8. WatchInv'
  BY <1>6, WatchKept DEF ListsInv
<1>9. EventsHeard'
  <2>1. DOMAIN events' = {}
    BY <1>7 DEF RespInv, EventsInv
  <2>. QED  BY <2>1 DEF EventsHeard
<1>10. \A d \in Conn : Heard(cn[d], d \in ready) => Heard(cn'[d], d \in ready')
  BY <1>6 DEF Heard
<1>11. RoundInv'
  <2>1. CASE \E n \in Nat : \E p : Rolled(n, p)
    <3>1. PICK n \in Nat : \E p : Rolled(n, p)
      BY <2>1
    <3>2. PICK p : Rolled(n, p)
      BY <3>1
    <3>3. Path(roundRobinList, n, p) /\ roundRobinList.prev[p[1]] = Anchor /\ c = p[1] /\ n > 0
      <4>1. 0 \in 0 .. n /\ 0 + 1 = 1
        OBVIOUS
      <4>2. c = p[1]
        BY <1>5, <3>2, <4>1 DEF Rolled, Path, FirstNode
      <4>3. n = 0 => p[1] = Anchor
        BY <3>2 DEF Rolled, Path
      <4>. QED  BY <1>7, <3>2, <4>2, <4>3, NodeAssumption DEF Rolled
    <3>4. PICK q : /\ Path(h, n - 1, q) /\ h.prev[q[1]] = Anchor
                   /\ \A i \in 1 .. n - 1 : q[i] = p[i + 1] /\ q[i] # p[1]
      <4>1. Popped(h, n, p)
        BY <1>1, <1>2, <3>3, PathPop
      <4>. QED  BY <4>1 DEF Popped
    <3>5. n - 1 \in Nat
      BY <3>3
    <3>6. {q[i] : i \in 1 .. n - 1} \subseteq {p[i] : i \in 1 .. n} /\ \A i \in 1 .. n - 1 : q[i] # c
      <4>1. \A i \in 1 .. n - 1 : i + 1 \in 1 .. n
        OBVIOUS
      <4>. QED  BY <3>3, <3>4, <4>1
    <3>7. CASE roundRobinList' = h
      <4>1. Rolled(n - 1, q)'
        <5>1. \A d \in Conn : d \in {q[i] : i \in 1 .. n - 1} => Heard(cn'[d], d \in ready')
          BY <1>10, <3>2, <3>6 DEF Rolled
        <5>. QED  BY <1>7, <3>4, <3>7, <5>1 DEF Rolled
      <4>. QED  BY <3>5, <4>1 DEF RoundInv
    <3>8. CASE roundRobinList' = dmbListPushBack(h, Anchor, c)
      <4>1. PICK g : g = dmbListPushBack(h, Anchor, c)
        OBVIOUS
      <4>2. PICK m \in Nat : \E r : /\ Path(g, m, r) /\ g.prev[r[1]] = Anchor
                                    /\ {r[i] : i \in 1 .. m} \subseteq {q[i] : i \in 1 .. n - 1} \cup {c}
        <5>1. Pushed(g, h, n - 1, q, c)
          BY <1>3, <3>4, <3>5, <4>1, PathPush
        <5>2. \A i \in 1 .. n - 1 : q[i] # c
          BY <3>6
        <5>3. h.prev[q[1]] = Anchor
          BY <3>4
        <5>4. PICK m \in Nat : \E r :
                /\ Path(g, m, r)
                /\ {r[i] : i \in 1 .. m} \subseteq {q[i] : i \in 1 .. n - 1} \cup {c}
                /\ (\A i \in 1 .. n - 1 : q[i] # c) /\ h.prev[q[1]] = Anchor => g.prev[r[1]] = Anchor
          BY <5>1 DEF Pushed
        <5>5. PICK r :
                /\ Path(g, m, r)
                /\ {r[i] : i \in 1 .. m} \subseteq {q[i] : i \in 1 .. n - 1} \cup {c}
                /\ (\A i \in 1 .. n - 1 : q[i] # c) /\ h.prev[q[1]] = Anchor => g.prev[r[1]] = Anchor
          BY <5>4
        <5>. QED  BY <5>2, <5>3, <5>5
      <4>3. PICK r : /\ Path(g, m, r) /\ g.prev[r[1]] = Anchor
                     /\ {r[i] : i \in 1 .. m} \subseteq {q[i] : i \in 1 .. n - 1} \cup {c}
        BY <4>2
      <4>4. \A d \in Conn : d \in {r[i] : i \in 1 .. m} => Heard(cn'[d], d \in ready')
        BY <1>6, <1>10, <3>2, <3>6, <4>3 DEF Rolled
      <4>5. Rolled(m, r)'
        BY <1>7, <3>8, <4>1, <4>3, <4>4 DEF Rolled
      <4>. QED  BY <4>5 DEF RoundInv
    <3>. QED  BY <1>6, <3>7, <3>8
  <2>2. CASE Stuck(roundRobinList)
    <3>1. roundRobinList.next[c] \in Node /\ c = roundRobinList.next[Anchor]
      BY <1>1, <1>3, <1>5 DEF Around, FirstNode
    <3>2. PICK k : k = dmbListPushBack(h, Anchor, c)
      OBVIOUS
    <3>3. Stuck(h) /\ h.next[Anchor] = c /\ Stuck(k) /\ k.next[Anchor] = c
      BY <1>1, <1>2, <2>2, <3>1, <3>2, StuckStays
    <3>. QED  BY <1>6, <1>7, <3>2, <3>3 DEF RoundInv
  <2>. QED  BY <2>1, <2>2 DEF ListsInv, RoundInv
<1>. QED  BY <1>8, <1>9, <1>11 DEF ListsInv

LEMMA EventsDoneLists == WorkerInv /\ ListsInv /\ EventsDone => ListsInv'
<1>. SUFFICES ASSUME WorkerInv, ListsInv, EventsDone PROVE ListsInv'
  OBVIOUS
<1>. USE DEF EventsDone
<1>1. WatchInv'
  BY WatchKept DEF ListsInv, Watching
<1>2. EventsHeard'
  <2>1. DOMAIN events' = {}
    OBVIOUS
  <2>. QED  BY <2>1 DEF EventsHeard
<1>3. PICK n \in Nat : \E p : Rolled(n, p)
  BY DEF ListsInv, RoundInv
<1>4. PICK p : Rolled(n, p)
  BY <1>3
<1>5. CASE roundRobinList.prev[p[1]] = Anchor
  <2>1. Rolled(n, p)'
    BY <1>4, <1>5 DEF Rolled
  <2>. QED  BY <1>1, <1>2, <2>1 DEF ListsInv, RoundInv
<1>6. CASE roundRobinList.prev[p[1]] # Anchor
  <2>1. PICK M : Around(roundRobinList, M)
    BY DEF WorkerInv, ListInv
  <2>2. /\ p[0] = Anchor /\ p[n + 1] = Anchor /\ roundRobinList.next[p[0]] = p[1]
        /\ roundRobinList.prev[Anchor] = p[n] /\ p[n] \in Node
        /\ \A i, j \in 0 .. n : p[i] = p[j] => i = j
    <3>1. 0 \in 0 .. n /\ 0 + 1 = 1 /\ n \in 0 .. n
      OBVIOUS
    <3>. QED  BY <1>4, <3>1 DEF Rolled, Path
  <2>3. n # 0
    BY <1>6, <2>2
  <2>4. p[n] # Anchor /\ p[1] # Anchor
    <3>1. 0 \in 0 .. n /\ 1 \in 0 .. n /\ n \in 0 .. n
      BY <2>3
    <3>. QED  BY <2>2, <2>3, <3>1
  <2>5. p[1] \in M /\ roundRobinList.prev[p[1]] \in M /\ M \subseteq Node
    BY <2>1, <2>2 DEF Around
  <2>6. Stuck(roundRobinList)
    BY <1>6, <2>2, <2>4, <2>5 DEF Stuck, Node
  <2>7. roundRobinList.next[Anchor] \in {p[i] : i \in 1 .. n}
    BY <2>2, <2>3
  <2>8. \A c \in Conn : c = roundRobinList.next[Anchor] => Heard(cn[c], c \in ready)
    BY <1>4, <2>7 DEF Rolled
  <2>9. RoundInv'
    BY <2>6, <2>8 DEF RoundInv
  <2>. QED  BY <1>1, <1>2, <2>9 DEF ListsInv
<1>. QED  BY <1>5, <1>6

(* The list is empty when processRoundRobin is done.                       *)
LEMMA RoundRobinDoneLists ==
  WorkerInv /\ RespInv /\ ListsInv /\ (RoundRobinDone \/ SweepDone) => ListsInv'
<1>. SUFFICES ASSUME WorkerInv, RespInv, ListsInv, RoundRobinDone \/ SweepDone PROVE ListsInv'
  OBVIOUS
<1>. USE DEF RoundRobinDone, SweepDone
<1>1. WatchInv'
  BY WatchKept DEF ListsInv, Watching
<1>2. EventsHeard'
  <2>1. DOMAIN events' = {}
    BY DEF RespInv, EventsInv
  <2>. QED  BY <2>1 DEF EventsHeard
<1>3. PICK n \in Nat : \E p : Rolled(n, p)
  BY NodeAssumption DEF ListsInv, RoundInv, Stuck, dmbListIsEmpty
<1>4. PICK p : Rolled(n, p)
  BY <1>3
<1>5. n = 0
  <2>1. CASE RoundRobinDone
    <3>1. 0 \in 0 .. n /\ 0 + 1 = 1
      OBVIOUS
    <3>2. p[1] = Anchor /\ p[0] = Anchor /\ \A i, j \in 0 .. n : p[i] = p[j] => i = j
      BY <1>4, <2>1, <3>1 DEF Rolled, Path, dmbListIsEmpty
    <3>3. n # 0 => 1 \in 0 .. n
      OBVIOUS
    <3>. QED  BY <3>1, <3>2, <3>3
  <2>2. CASE SweepDone
    BY <1>4, <2>2 DEF Rolled
  <2>. QED  BY <2>1, <2>2
<1>6. roundRobinList' = roundRobinList /\ phase' \in {"sweep", "poll"} /\ UNCHANGED <<cn, ready>>
  OBVIOUS
<1>7. Rolled(n, p)'
  BY <1>4, <1>5, <1>6 DEF Rolled
<1>. QED  BY <1>1, <1>2, <1>7 DEF ListsInv, RoundInv

LEMMA ReadPipeLists == WorkerInv /\ ListsInv /\ ReadPipe => ListsInv'
<1>. SUFFICES ASSUME WorkerInv, ListsInv, ReadPipe PROVE ListsInv'
  OBVIOUS
<1>1. Watching /\ Hearing
  BY DEF ReadPipe, Watching, Hearing
<1>2. index \in Nat /\ index' = index /\ UNCHANGED <<roundRobinList, phase, events>>
  BY DEF ReadPipe, WorkerInv, TypeOK
<1>. QED  BY <1>1, <1>2, QuietLists

(* What the sweep takes from the list has no connection any more, and what *)
(* has one stays.                                                          *)
LEMMA SweepLists == WorkerInv /\ ListsInv /\ (Sweep \/ SweepExpired) => ListsInv'
<1>. SUFFICES ASSUME WorkerInv, ListsInv, Sweep \/ SweepExpired PROVE ListsInv'
  OBVIOUS
<1>1. /\ phase = "sweep" /\ iter # Anchor /\ iter \in Conn
      /\ timeoutConnList \in Heap /\ IsRing(timeoutConnList) /\ timeoutConnList.next[iter] # NULL
      /\ index \in Nat /\ UNCHANGED <<roundRobinList, phase, events, index>>
  BY DEF Sweep, SweepExpired, WorkerInv, TypeOK, ListInv, ListsInv, WatchInv, Node
<1>2. PICK s : s = CloseConnect(cn[iter])
  OBVIOUS
<1>3. Rest(s) /\ ~s.live
  BY <1>1, <1>2, CloseRest DEF WorkerInv, RecordInv, Rest
<1>4. Timed(s) /\ \A x \in BOOLEAN : Heard(s, x)
  BY <1>3, ClosedUnheard
<1>5. PICK g : g = Unwatch(iter)
  OBVIOUS
<1>6. IsRing(g) /\ \A m \in Node : timeoutConnList.next[m] # NULL /\ m # iter => g.next[m] # NULL
  BY <1>1, <1>5, RingUnwatch DEF Unwatch
<1>7. cn \in [Conn -> Record] /\ Conn \subseteq Node
  BY DEF WorkerInv, TypeOK, Node
<1>8. WatchInv'
  <2>1. CASE Sweep /\ timeoutConnList' = timeoutConnList
    BY <2>1 DEF Sweep, ListsInv, WatchInv
  <2>2. CASE Sweep /\ timeoutConnList' # timeoutConnList
    <3>1. ~cn[iter].timeout /\ timeoutConnList' = g /\ cn' = cn
      BY <1>5, <2>2 DEF Sweep
    <3>2. ~cn[iter].live
      BY <1>1, <3>1 DEF ListsInv, WatchInv, Timed
    <3>3. \A c \in Conn : Timed(cn[c]) /\ (cn[c].live => g.next[c] # NULL)
      BY <1>6, <1>7, <3>2 DEF ListsInv, WatchInv
    <3>. QED  BY <1>6, <3>1, <3>3 DEF WatchInv
  <2>3. CASE SweepExpired
    <3>1. timeoutConnList' = g /\ cn' = [cn EXCEPT ![iter] = s]
      BY <1>2, <1>5, <2>3 DEF SweepExpired
    <3>2. \A c \in Conn : Timed(cn'[c]) /\ (cn'[c].live => g.next[c] # NULL)
      BY <1>3, <1>4, <1>6, <1>7, <3>1 DEF ListsInv, WatchInv
    <3>. QED  BY <1>6, <3>1, <3>2 DEF WatchInv
  <2>. QED  BY <2>1, <2>2, <2>3
<1>9. Hearing
  <2>. SUFFICES ASSUME NEW d \in Conn, NEW x \in BOOLEAN, Heard(cn[d], d \in ready \/ x)
                PROVE  Heard(cn'[d], d \in ready' \/ x)
    BY DEF Hearing
  <2>1. CASE Sweep
    BY <2>1 DEF Sweep
  <2>2. CASE SweepExpired /\ d = iter
    <3>1. cn'[d] = s /\ (d \in ready' \/ x) \in BOOLEAN
      BY <1>2, <1>7, <2>2 DEF SweepExpired
    <3>. QED  BY <1>4, <3>1
  <2>3. CASE SweepExpired /\ d # iter
    <3>1. cn'[d] = cn[d] /\ (d \in ready => d \in ready')
      BY <1>7, <2>3 DEF SweepExpired
    <3>. QED  BY <3>1 DEF Heard
  <2>. QED  BY <2>1, <2>2, <2>3
<1>10. index' \in Nat /\ index' >= index
  BY <1>1
<1>. QED  BY <1>1, <1>8, <1>9, <1>10, EventsKept, RoundKept DEF ListsInv

LEMMA NextLists == WorkerInv /\ RespInv /\ ListsInv /\ [Next]_vars => ListsInv'
<1>. SUFFICES ASSUME WorkerInv, RespInv, ListsInv, [Next]_vars PROVE ListsInv'
  OBVIOUS
<1>1. CASE Clients
  BY <1>1, ClientLists
<1>2. CASE WorkThread
  BY <1>2, PollLists, ReadPipeLists, NewConnectLists, BadConnectLists, ConnEventLists,
     EventsDoneLists, RoundRobinLists, RoundRobinDoneLists, SweepLists DEF WorkThread
<1>3. CASE UNCHANGED vars
  <2>1. Watching /\ Hearing
    BY <1>3 DEF vars, Watching, Hearing
  <2>2. index \in Nat /\ index' = index /\ UNCHANGED <<roundRobinList, phase, events>>
    BY <1>3 DEF vars, WorkerInv, TypeOK
  <2>. QED  BY <2>1, <2>2, QuietLists
<1>. QED  BY <1>1, <1>2, <1>3 DEF Next

Listed == WorkerInv /\ RespInv /\ ListsInv

LEMMA ListsCorrect == Spec => []Listed
<1>1. Init => Listed
  BY InitWorker, InitResponse, InitLists DEF Listed
<1>2. Listed /\ [Next]_vars => Listed'
  BY NextWorker, NextResponse, NextLists DEF Listed
<1>. QED  BY <1>1, <1>2, PTL DEF Spec

(* Every connection has a timeout and is on the timeout list, and a record *)
(* is on that list exactly when its node says so: the list is a ring       *)
(* through the nodes that are in use.                                      *)
THEOREM TimeoutsWatched == Spec => []AllWatched
<1>1. Listed => AllWatched
  <2>. SUFFICES ASSUME Listed, NEW c \in Conn
                PROVE  /\ cn[c].live => cn[c].timeout /\ c \in Members(timeoutConnList)
                       /\ dmbNodeIsUsed(timeoutConnList, c) <=> c \in Members(timeoutConnList)
    BY DEF AllWatched
  <2>1. PICK n \in Nat : \E p : Ring(timeoutConnList, n, p)
    BY DEF Listed, ListsInv, WatchInv, IsRing
  <2>2. PICK p : Ring(timeoutConnList, n, p)
    BY <2>1
  <2>3. Members(timeoutConnList) = {p[i] : i \in 1 .. n}
    BY <2>2, PathMembers DEF Ring
  <2>4. timeoutConnList.next[c] # NULL <=> \E i \in 1 .. n : c = p[i]
    <3>1. timeoutConnList.next[c] # NULL <=> \E i \in 0 .. n : c = p[i]
      BY <2>2 DEF Ring, Node
    <3>2. p[0] # c
      BY <2>2, NodeAssumption DEF Ring, Path
    <3>. QED  BY <3>1, <3>2
  <2>5. dmbNodeIsUsed(timeoutConnList, c) <=> c \in Members(timeoutConnList)
    BY <2>3, <2>4 DEF dmbNodeIsUsed
  <2>. QED  BY <2>5 DEF Listed, ListsInv, WatchInv, Timed, dmbNodeIsUsed
<1>. QED  BY <1>1, ListsCorrect, PTL

(* Pushing at the end of a list that can be traversed from Anchor puts the *)
(* connection on it.                                                       *)
LEMMA LastMember ==
  ASSUME NEW h \in Heap, NEW n \in Nat, NEW p, Path(h, n, p), NEW c \in Conn
  PROVE  c \in Members(dmbListPushBack(h, Anchor, c))
<1>0. PICK g : g = dmbListPushBack(h, Anchor, c)
  OBVIOUS
<1>1. \E m \in Nat : \E q :
        /\ Path(g, m, q) /\ m > 0 /\ c \in {q[i] : i \in 1 .. m}
        /\ {q[i] : i \in 1 .. m} \subseteq {p[i] : i \in 1 .. n} \cup {c}
        /\ (\A i \in 1 .. n : p[i] # c) /\ h.prev[p[1]] = Anchor => g.prev[q[1]] = Anchor
  <2>1. Pushed(g, h, n, p, c)
    BY <1>0, PathPush
  <2>. QED  BY <2>1 DEF Pushed
<1>2. PICK m \in Nat : \E q : Path(g, m, q) /\ c \in {q[i] : i \in 1 .. m}
  BY <1>1
<1>3. PICK q : Path(g, m, q) /\ c \in {q[i] : i \in 1 .. m}
  BY <1>2
<1>4. Members(g) = {q[i] : i \in 1 .. m}
  BY <1>3, PathMembers
<1>. QED  BY <1>0, <1>3, <1>4

(* What dmbProcessEvent leaves unread of the connection it handles.        *)
LEMMA HandledDrained ==
  ASSUME Listed, [Next]_vars, NEW c \in Conn, Handled(c), vars' # vars
  PROVE  \/ cn'[c].rx = 0 \/ ~cn'[c].registered
         \/ c \in ready' \cup Members(roundRobinList')
<1>0. cn'[c].rx > 0 \/ cn'[c].rx = 0
  <2>1. WorkerInv'
    BY NextWorker DEF Listed
  <2>2. cn'[c].rx \in Nat
    BY <2>1 DEF WorkerInv, TypeOK, Record
  <2>. QED  BY <2>2
<1>1. roundRobinList \in Heap /\ c # NULL
  BY NodeAssumption DEF Listed, WorkerInv, TypeOK
<1>2. CASE MoreEvents /\ index' # index /\ Current.ptr = c
  <2>1. phase = "foreach" /\ ~Clients
    BY <1>2 DEF MoreEvents, Listed, WorkerInv, TypeOK, Clients, HandOver, Send, SendRest,
       ClientRead, HangUp, Client
  <2>2. BadConnect \/ ConnEvent
    BY <1>1, <1>2, <2>1 DEF Next, WorkThread, Poll, ReadPipe, NewConnect, EventsDone,
       RoundRobin, RoundRobinDone, Sweep, SweepExpired, SweepDone, vars
  <2>3. CASE BadConnect
    <3>1. cn'[c] = CloseConnect(cn[c])
      BY <1>2, <2>3 DEF BadConnect, Update, Listed, WorkerInv, TypeOK
    <3>2. ~cn'[c].registered
      BY <3>1, CloseRest DEF Listed, WorkerInv, RecordInv, Rest, Busy, Blank
    <3>. QED  BY <3>2
  <2>4. CASE ConnEvent
    <3>1. \/ roundRobinList' = dmbListPushBack(roundRobinList, Anchor, c)
          \/ cn'[c].registered /\ cn'[c].rx > 0 => c \in ready'
      BY <1>2, <2>4, ConnEventHeard DEF Listed
    <3>2. PICK n \in Nat : \E p : Rolled(n, p)
      BY <2>1 DEF Listed, ListsInv, RoundInv
    <3>3. PICK p : Rolled(n, p)
      BY <3>2
    <3>4. roundRobinList' = dmbListPushBack(roundRobinList, Anchor, c) => c \in Members(roundRobinList')
      BY <1>1, <3>3, LastMember DEF Rolled
    <3>. QED  BY <1>0, <3>1, <3>4
  <2>. QED  BY <2>2, <2>3, <2>4
<1>3. CASE phase = "rr" /\ FirstNode(roundRobinList, Anchor) = c
  <2>1. CASE roundRobinList' = roundRobinList
    <3>1. c \in Members(roundRobinList)
      BY <1>3, FirstMember DEF FirstNode
    <3>. QED  BY <2>1, <3>1
  <2>2. CASE roundRobinList' # roundRobinList
    <3>1. RoundRobin
      BY <1>3, <2>2 DEF Next, WorkThread, Clients, Poll, ReadPipe, NewConnect, BadConnect,
         ConnEvent, EventsDone, RoundRobinDone, Sweep, SweepExpired, SweepDone, vars, HandOver,
         Send, SendRest, ClientRead, HangUp, Client, MoreEvents
    <3>2. PICK h : h = dmbListPopFront(roundRobinList, Anchor)
      OBVIOUS
    <3>3. \/ roundRobinList' = dmbListPushBack(h, Anchor, c)
          \/ cn'[c].registered /\ cn'[c].rx > 0 => c \in ready'
      BY <1>3, <3>1, <3>2, RoundRobinHeard DEF Listed
    <3>4. PICK M : Around(roundRobinList, M)
      BY DEF Listed, WorkerInv, ListInv
    <3>5. h \in Heap
      BY <1>1, <3>2, <3>4, PopAround
    <3>6. c \in Members(dmbListPushBack(h, Anchor, c))
      <4>1. CASE \E n \in Nat : \E p : Rolled(n, p)
        <5>1. PICK n \in Nat : \E p : Rolled(n, p)
          BY <4>1
        <5>2. PICK p : Rolled(n, p)
          BY <5>1
        <5>3. Path(roundRobinList, n, p) /\ roundRobinList.prev[p[1]] = Anchor /\ n > 0
          <6>1. 0 \in 0 .. n /\ 0 + 1 = 1
            OBVIOUS
          <6>2. c = p[1]
            BY <1>3, <5>2, <6>1 DEF Rolled, Path, FirstNode
          <6>3. n = 0 => p[1] = Anchor
            BY <5>2 DEF Rolled, Path
          <6>. QED  BY <1>3, <5>2, <6>2, <6>3, NodeAssumption DEF Rolled
        <5>4. PICK q : Path(h, n - 1, q)
          <6>1. Popped(h, n, p)
            BY <1>1, <3>2, <5>3, PathPop
          <6>. QED  BY <6>1 DEF Popped
        <5>5. n - 1 \in Nat
          BY <5>3
        <5>. QED  BY <3>5, <5>4, <5>5, LastMember
      <4>2. CASE Stuck(roundRobinList)
        <5>1. PICK k : k = dmbListPushBack(h, Anchor, c)
          OBVIOUS
        <5>2. roundRobinList.next[c] \in Node /\ c = roundRobinList.next[Anchor]
          BY <1>3, <3>4 DEF Around, FirstNode
        <5>3. k.next[Anchor] = c
          BY <1>1, <3>2, <4>2, <5>1, <5>2, StuckStays
        <5>. QED  BY <5>1, <5>3, FirstMember
      <4>. QED  BY <4>1, <4>2 DEF Listed, ListsInv, RoundInv
    <3>. QED  BY <1>0, <3>3, <3>6
  <2>. QED  BY <2>1, <2>2
<1>. QED  BY <1>2, <1>3 DEF Handled
(* Pushing at the end brings no other record on the list.                  *)
LEMMA PushMembers ==
  ASSUME NEW h \in Heap, NEW n \in Nat, NEW p, Path(h, n, p), NEW c \in Conn
  PROVE  Members(dmbListPushBack(h, Anchor, c)) \subseteq Members(h) \cup {c}
<1>0. PICK g : g = dmbListPushBack(h, Anchor, c)
  OBVIOUS
<1>1. \E m \in Nat : \E q :
        /\ Path(g, m, q) /\ m > 0 /\ c \in {q[i] : i \in 1 .. m}
        /\ {q[i] : i \in 1 .. m} \subseteq {p[i] : i \in 1 .. n} \cup {c}
        /\ (\A i \in 1 .. n : p[i] # c) /\ h.prev[p[1]] = Anchor => g.prev[q[1]] = Anchor
  <2>1. Pushed(g, h, n, p, c)
    BY <1>0, PathPush
  <2>. QED  BY <2>1 DEF Pushed
<1>2. PICK m \in Nat : \E q : /\ Path(g, m, q)
                              /\ {q[i] : i \in 1 .. m} \subseteq {p[i] : i \in 1 .. n} \cup {c}
  BY <1>1
<1>3. PICK q : Path(g, m, q) /\ {q[i] : i \in 1 .. m} \subseteq {p[i] : i \in 1 .. n} \cup {c}
  BY <1>2
<1>4. Members(g) = {q[i] : i \in 1 .. m} /\ Members(h) = {p[i] : i \in 1 .. n}
  BY <1>3, PathMembers
<1>. QED  BY <1>0, <1>3, <1>4

(* The list holds connections whose event in the batch has been handled.   *)
VisitedInv ==
  phase = "foreach" =>
    \A c \in Conn : c \in Members(roundRobinList) =>
      \E k \in DOMAIN events : events[k].ptr = c /\ k <= index /\ (k < index \/ k = 1)

(* The loop is at an event of the batch, and at no event twice but at the  *)
(* first.                                                                  *)
LEMMA EventAt ==
  ASSUME WorkerInv, MoreEvents
  PROVE  /\ (IF index = 0 THEN 1 ELSE index) \in DOMAIN events
         /\ Current = events[IF index = 0 THEN 1 ELSE index]
         /\ DOMAIN events \subseteq Nat \ {0} /\ index \in Nat
<1>1. /\ index \in Nat /\ index < Len(events) /\ Len(events) \in Nat
      /\ DOMAIN events = 1 .. Len(events)
  BY CurrentType, LenProperties DEF WorkerInv, TypeOK, MoreEvents
<1>2. (IF index = 0 THEN 1 ELSE index) \in DOMAIN events
  BY <1>1
<1>. QED  BY <1>1, <1>2 DEF Current

LEMMA VisitedKept ==
  ASSUME WorkerInv, VisitedInv, UNCHANGED <<roundRobinList, events, phase>>,
         index \in Nat, index' \in Nat, index' >= index
  PROVE  VisitedInv'
<1>. SUFFICES ASSUME phase = "foreach", NEW c \in Conn, c \in Members(roundRobinList)
              PROVE  \E k \in DOMAIN events :
                       events[k].ptr = c /\ k <= index' /\ (k < index' \/ k = 1)
  BY DEF VisitedInv
<1>1. PICK k \in DOMAIN events : events[k].ptr = c /\ k <= index /\ (k < index \/ k = 1)
  BY DEF VisitedInv
<1>2. k \in Nat
  <2>1. DOMAIN events = 1 .. Len(events) /\ Len(events) \in Nat
    BY LenProperties DEF WorkerInv, TypeOK
  <2>. QED  BY <2>1
<1>. QED  BY <1>1, <1>2

(* Outside the loop over events, which begins with an empty list, there is *)
(* nothing to show.                                                        *)
LEMMA NextVisited ==
  ASSUME Listed, VisitedInv, [Next]_vars
  PROVE  VisitedInv'
<1>0. WorkerInv /\ index \in Nat
  BY DEF Listed, WorkerInv, TypeOK
<1>1. CASE Clients \/ UNCHANGED vars
  <2>1. UNCHANGED <<roundRobinList, events, phase, index>>
    BY <1>1 DEF Clients, HandOver, Send, SendRest, ClientRead, HangUp, Client, vars
  <2>. QED  BY <1>0, <2>1, VisitedKept
<1>2. CASE ReadPipe \/ NewConnect \/ BadConnect \/ Sweep \/ SweepExpired
  <2>1. UNCHANGED <<roundRobinList, events, phase>> /\ index' \in {index, index + 1}
    BY <1>2 DEF ReadPipe, NewConnect, BadConnect, Sweep, SweepExpired
  <2>. QED  BY <1>0, <2>1, VisitedKept
<1>3. CASE Poll
  <2>1. PICK n \in Nat : \E p : Rolled(n, p)
    BY <1>3 DEF Poll, Listed, ListsInv, RoundInv
  <2>2. PICK p : Rolled(n, p)
    BY <2>1
  <2>3. n = 0 /\ Members(roundRobinList) = {p[i] : i \in 1 .. n}
    BY <1>3, <2>2, PathMembers DEF Poll, Rolled
  <2>4. Members(roundRobinList') = {}
    BY <1>3, <2>3 DEF Poll
  <2>. QED  BY <2>4 DEF VisitedInv
<1>4. CASE ConnEvent
  <2>1. PICK c \in Conn : c = Current.ptr
    BY <1>0, <1>4, CurrentType DEF ConnEvent, WorkerInv
  <2>2. roundRobinList' \in {roundRobinList, dmbListPushBack(roundRobinList, Anchor, c)}
    BY <1>4, <2>1, ConnEventHeard DEF Listed
  <2>3. MoreEvents /\ phase = "foreach" /\ index' = index + 1 /\ UNCHANGED <<events, phase>>
    BY <1>4 DEF ConnEvent, MoreEvents
  <2>4. Members(roundRobinList') \subseteq Members(roundRobinList) \cup {c}
    <3>1. PICK n \in Nat : \E p : Rolled(n, p)
      BY <2>3 DEF Listed, ListsInv, RoundInv
    <3>2. PICK p : Path(roundRobinList, n, p)
      BY <3>1 DEF Rolled
    <3>3. roundRobinList \in Heap
      BY <1>0 DEF WorkerInv, TypeOK
    <3>. QED  BY <2>2, <3>2, <3>3, PushMembers
  <2>. SUFFICES ASSUME NEW d \in Conn, d \in Members(roundRobinList')
                PROVE  \E k \in DOMAIN events :
                         events[k].ptr = d /\ k <= index + 1 /\ (k < index + 1 \/ k = 1)
    BY <2>3 DEF VisitedInv
  <2>5. PICK at \in DOMAIN events : at = (IF index = 0 THEN 1 ELSE index) /\ Current = events[at]
    BY <1>0, <2>3, EventAt
  <2>6. CASE d = c
    BY <1>0, <2>1, <2>5, <2>6
  <2>7. CASE d # c
    <3>1. PICK k \in DOMAIN events : events[k].ptr = d /\ k <= index /\ (k < index \/ k = 1)
      BY <2>3, <2>4, <2>7 DEF VisitedInv
    <3>2. k \in Nat
      BY <1>0, <2>3, <3>1, EventAt
    <3>. QED  BY <1>0, <3>1, <3>2
  <2>. QED  BY <2>6, <2>7
<1>5. CASE EventsDone \/ RoundRobin \/ RoundRobinDone \/ SweepDone
  BY <1>5 DEF EventsDone, RoundRobin, RoundRobinDone, SweepDone, VisitedInv
<1>. QED  BY <1>1, <1>2, <1>3, <1>4, <1>5 DEF Next, WorkThread

(* A node that is not on the list, or the only one on it, hides none.      *)
LEMMA PushKeeps ==
  ASSUME NEW h \in Heap, NEW n \in Nat, NEW p, Path(h, n, p), NEW c \in Conn,
         c \notin Members(h) \/ Members(h) \subseteq {c}
  PROVE  Members(h) \subseteq Members(dmbListPushBack(h, Anchor, c))
<1>1. CASE Members(h) \subseteq {c}
  BY <1>1, LastMember
<1>2. CASE c \notin Members(h)
  <2>0. PICK g : g = dmbListPushBack(h, Anchor, c)
    OBVIOUS
  <2>1. \A i \in 1 .. n : p[i] # c
    BY <1>2, PathMembers
  <2>2. \E m \in Nat : \E q : /\ Path(g, m, q)
                              /\ {p[i] : i \in 1 .. n} \subseteq {q[i] : i \in 1 .. m}
    <3>1. Pushed(g, h, n, p, c)
      BY <2>0, PathPush
    <3>. QED  BY <2>1, <3>1 DEF Pushed
  <2>3. PICK m \in Nat : \E q : /\ Path(g, m, q)
                                /\ {p[i] : i \in 1 .. n} \subseteq {q[i] : i \in 1 .. m}
    BY <2>2
  <2>4. PICK q : Path(g, m, q) /\ {p[i] : i \in 1 .. n} \subseteq {q[i] : i \in 1 .. m}
    BY <2>3
  <2>5. Members(g) = {q[i] : i \in 1 .. m} /\ Members(h) = {p[i] : i \in 1 .. n}
    BY <2>4, PathMembers
  <2>. QED  BY <2>0, <2>4, <2>5
<1>. QED  BY <1>1, <1>2

-----------------------------------------------------------------------------
(* What a step leaves unread.                                              *)

(* An event that is not handled now is to be handled.                      *)
LEMMA UnhandledNext ==
  ASSUME WorkerInv, MoreEvents, NEW c \in Conn, Unhandled(c), Current.ptr # c,
         UNCHANGED events, index' \in {index, index + 1}
  PROVE  Unhandled(c)'
<1>1. PICK k \in DOMAIN events : events[k].ptr = c /\ k >= index /\ (k = 1 => index = 0)
  BY DEF Unhandled
<1>2. k # (IF index = 0 THEN 1 ELSE index)
  BY <1>1, EventAt
<1>3. k \in Nat \ {0} /\ index \in Nat
  BY <1>1, EventAt
<1>4. k >= index' /\ (k = 1 => index' = 0)
  BY <1>1, <1>2, <1>3
<1>. QED  BY <1>1, <1>4 DEF Unhandled

LEMMA ClientsRemember ==
  ASSUME WorkerInv, Clients, NEW d \in Conn, Forgotten(d)'
  PROVE  Forgotten(d)
<1>. UNCHANGED <<roundRobinList, events, index>>
  BY DEF Clients, HandOver, Send, SendRest, ClientRead, HangUp, Client
<1>1. CASE HandOver
  BY <1>1 DEF HandOver, Forgotten, Unhandled
<1>2. ASSUME NEW c \in Conn, (\E kind \in Kinds : Send(c, kind)) \/ SendRest(c)
                             \/ ClientRead(c) \/ HangUp(c)
      PROVE  Forgotten(d)
  <2>1. PICK s : /\ Client(c, s) /\ s.registered = cn[c].registered
                 /\ Edge(c) \/ (UNCHANGED ready /\ s.rx = cn[c].rx)
    BY <1>2, ClientStep
  <2>2. cn' = [cn EXCEPT ![c] = s] /\ cn \in [Conn -> Record]
    BY <2>1 DEF Client, WorkerInv, TypeOK
  <2>3. CASE d = c
    BY <2>1, <2>2, <2>3 DEF Forgotten, Unhandled, Edge
  <2>4. CASE d # c
    BY <2>1, <2>2, <2>4 DEF Forgotten, Unhandled, Edge
  <2>. QED  BY <2>3, <2>4
<1>. QED  BY <1>1, <1>2 DEF Clients

(* An order of a finite set has all its members.                           *)
LEMMA OrderHas ==
  ASSUME NEW S, IsFiniteSet(S), NEW b \in Orders(S), NEW x \in S
  PROVE  \E k \in DOMAIN b : b[k] = x
<1>1. b \in Injection(1 .. Cardinality(S), S)
  BY DEF Orders, Injection, IsInjective
<1>2. Cardinality(1 .. Cardinality(S)) = Cardinality(S)
  BY FS_CardinalityType, FS_Interval
<1>3. b \in Surjection(1 .. Cardinality(S), S)
  BY <1>1, <1>2, FS_Injection
<1>. QED  BY <1>3 DEF Surjection, Orders

(* A batch has all the edges there were.                                   *)
LEMMA PollRemembers ==
  ASSUME Listed, Poll, NEW d \in Conn, Forgotten(d)'
  PROVE  Forgotten(d)
<1>1. PICK b \in Orders(IF pending = 0 THEN ready \ {NULL} ELSE ready) :
        events' = [k \in DOMAIN b |-> EventOf(b[k])]
  BY DEF Poll
<1>2. phase = "poll" /\ UNCHANGED <<cn, roundRobinList, index>> /\ index = 0 /\ events = <<>>
  BY DEF Poll, Listed, WorkerInv, IdleInv, RespInv, EventsInv
<1>3. d \notin ready
  <2>1. SUFFICES ASSUME d \in ready PROVE Unhandled(d)'
    BY DEF Forgotten
  <2>2. PICK S : S = IF pending = 0 THEN ready \ {NULL} ELSE ready
    OBVIOUS
  <2>3. d \in S /\ IsFiniteSet(S)
    <3>1. S \subseteq Conn \cup {NULL}
      BY <2>2 DEF Listed, WorkerInv, TypeOK
    <3>2. IsFiniteSet(Conn \cup {NULL})
      BY NodeAssumption, FS_AddElement
    <3>. QED  BY <2>1, <2>2, <3>1, <3>2, NodeAssumption, FS_Subset
  <2>4. \E k \in DOMAIN b : b[k] = d
    <3>1. b \in Orders(S)
      BY <1>1, <2>2
    <3>. QED  BY <2>3, <3>1, OrderHas
  <2>5. PICK k \in DOMAIN b : b[k] = d
    BY <2>4
  <2>6. k \in DOMAIN events' /\ events'[k].ptr = d
    BY <1>1, <2>5, NodeAssumption DEF EventOf
  <2>7. k \in Nat \ {0}
    <3>1. DOMAIN b = 1 .. Cardinality(S) /\ Cardinality(S) \in Nat
      BY <1>1, <2>2, <2>3, FS_CardinalityType DEF Orders
    <3>. QED  BY <2>5, <3>1
  <2>. QED  BY <1>2, <2>6, <2>7 DEF Unhandled
<1>4. ~Unhandled(d)
  BY <1>2 DEF Unhandled
<1>. QED  BY <1>2, <1>3, <1>4 DEF Forgotten

LEMMA NewConnectRemembers ==
  ASSUME WorkerInv, NewConnect, NEW d \in Conn, Forgotten(d)'
  PROVE  Forgotten(d)
<1>1. PICK c \in Conn : c = Head(idleConnList) /\ ~cn[c].live
  <2>1. /\ idleConnList \in Seq(Conn) /\ taken \in Nat /\ taken > 0 /\ pending \in Nat
        /\ pending + taken <= Len(idleConnList)
        /\ \A e \in Conn : Contains(idleConnList, e) => ~cn[e].live
    BY DEF WorkerInv, TypeOK, IdleInv, NewConnect
  <2>2. Len(idleConnList) \in Nat /\ Len(idleConnList) > 0
    BY <2>1, LenProperties
  <2>3. idleConnList # <<>>
    BY <2>1, <2>2, EmptySeq
  <2>4. Head(idleConnList) \in Conn /\ Contains(idleConnList, Head(idleConnList))
    BY <2>1, <2>2, <2>3, TailFacts, HeadTailProperties DEF Contains
  <2>. QED  BY <2>1, <2>4
<1>2. /\ cn' = [cn EXCEPT ![c] = Opened(cn[c])] /\ cn \in [Conn -> Record]
      /\ ready' = ready \cup {c} /\ UNCHANGED <<roundRobinList, events>>
      /\ index' \in {index, index + 1} /\ MoreEvents /\ Current.ptr = NULL
  BY <1>1 DEF NewConnect, WorkerInv, TypeOK
<1>3. d # c /\ cn'[d] = cn[d]
  BY <1>2 DEF Forgotten
<1>4. d # NULL
  BY NodeAssumption
<1>5. Unhandled(d) => Unhandled(d)'
  BY <1>2, <1>4, UnhandledNext
<1>. QED  BY <1>2, <1>3, <1>5 DEF Forgotten

(* A connection is closed, and its node stays where it is.                 *)
LEMMA CloseRemembers ==
  ASSUME WorkerInv, BadConnect \/ SweepExpired, NEW d \in Conn, Forgotten(d)'
  PROVE  Forgotten(d)
<1>1. CASE BadConnect
  <2>1. PICK c \in Conn : c = Current.ptr
    BY <1>1, CurrentType DEF BadConnect, WorkerInv
  <2>2. /\ cn' = [cn EXCEPT ![c] = CloseConnect(cn[c])] /\ cn \in [Conn -> Record]
        /\ MoreEvents /\ index' = index + 1 /\ UNCHANGED <<roundRobinList, events>>
        /\ ready \subseteq ready' \cup {c}
    BY <1>1, <2>1 DEF BadConnect, Update, WorkerInv, TypeOK
  <2>3. ~CloseConnect(cn[c]).registered
    BY CloseRest DEF WorkerInv, RecordInv, Rest, Busy, Blank
  <2>4. d # c /\ cn'[d] = cn[d]
    BY <2>2, <2>3 DEF Forgotten
  <2>5. Unhandled(d) => Unhandled(d)'
    BY <2>1, <2>2, <2>4, UnhandledNext
  <2>. QED  BY <2>2, <2>4, <2>5 DEF Forgotten
<1>2. CASE SweepExpired
  <2>1. PICK c \in Conn : c = iter
    BY <1>2 DEF SweepExpired, WorkerInv, TypeOK, Node
  <2>2. /\ cn' = [cn EXCEPT ![c] = CloseConnect(cn[c])] /\ cn \in [Conn -> Record]
        /\ UNCHANGED <<roundRobinList, events, index>> /\ ready' = ready \ {c}
    BY <1>2, <2>1 DEF SweepExpired, WorkerInv, TypeOK
  <2>3. ~CloseConnect(cn[c]).registered
    BY CloseRest DEF WorkerInv, RecordInv, Rest, Busy, Blank
  <2>4. d # c /\ cn'[d] = cn[d]
    BY <2>2, <2>3 DEF Forgotten
  <2>. QED  BY <2>2, <2>4 DEF Forgotten, Unhandled
<1>. QED  BY <1>1, <1>2

(* The connection whose event it is has been handled, and the list is not  *)
(* cut: that connection was not on it, or was alone on it.                 *)
LEMMA ConnEventRemembers ==
  ASSUME Listed, VisitedInv, ConnEvent, NEW d \in Conn, Forgotten(d)'
  PROVE  Forgotten(d)
<1>0. WorkerInv /\ ListsInv /\ RespInv /\ MoreEvents /\ phase = "foreach"
      /\ index' = index + 1 /\ UNCHANGED events /\ roundRobinList \in Heap
  BY DEF Listed, ConnEvent, MoreEvents, WorkerInv, TypeOK
<1>1. PICK c \in Conn : c = Current.ptr
  BY <1>0, CurrentType DEF ConnEvent, WorkerInv
<1>2. /\ \A e \in Conn : e # c => cn'[e] = cn[e] /\ (e \in ready => e \in ready')
      /\ \/ roundRobinList' = dmbListPushBack(roundRobinList, Anchor, c)
         \/ /\ roundRobinList' = roundRobinList
            /\ cn'[c].registered /\ cn'[c].rx > 0 => c \in ready'
  BY <1>0, <1>1, ConnEventHeard
<1>3. PICK n \in Nat : \E p : Rolled(n, p)
  BY <1>0 DEF ListsInv, RoundInv
<1>4. PICK p : Path(roundRobinList, n, p)
  BY <1>3 DEF Rolled
<1>5. d # c
  <2>1. c \in Members(dmbListPushBack(roundRobinList, Anchor, c))
    BY <1>0, <1>4, LastMember
  <2>. QED  BY <1>2, <2>1 DEF Forgotten
<1>6. Unhandled(d) => Unhandled(d)'
  BY <1>0, <1>1, <1>5, UnhandledNext
<1>7. c \notin Members(roundRobinList) \/ Members(roundRobinList) \subseteq {c}
  <2>. SUFFICES ASSUME c \in Members(roundRobinList), NEW e \in Members(roundRobinList)
                PROVE  e = c
    OBVIOUS
  <2>1. e \in Conn
    BY <1>4, PathMembers, PathFacts
  <2>2. PICK j \in DOMAIN events : events[j].ptr = c /\ j <= index /\ (j < index \/ j = 1)
    BY <1>0 DEF VisitedInv
  <2>3. PICK k \in DOMAIN events : events[k].ptr = e /\ k <= index /\ (k < index \/ k = 1)
    BY <1>0, <2>1 DEF VisitedInv
  <2>4. PICK at \in DOMAIN events :
          at = (IF index = 0 THEN 1 ELSE index) /\ events[at].ptr = c
    BY <1>0, <1>1, EventAt
  <2>5. j = at
    BY <1>0, <2>2, <2>4 DEF RespInv, EventsInv
  <2>6. j \in Nat \ {0} /\ k \in Nat \ {0} /\ index \in Nat
    BY <1>0, <2>2, <2>3, EventAt
  <2>7. k = 1 /\ j = 1
    BY <2>2, <2>3, <2>4, <2>5, <2>6
  <2>. QED  BY <2>2, <2>3, <2>7
<1>8. Members(roundRobinList) \subseteq Members(roundRobinList')
  BY <1>0, <1>2, <1>4, <1>7, PushKeeps
<1>. QED  BY <1>2, <1>5, <1>6, <1>8 DEF Forgotten

(* Only the last of several events has not been handled in the end.        *)
LEMMA EventsDoneRemembers ==
  ASSUME Listed, EventsDone, NEW d \in Conn, Forgotten(d)'
  PROVE  Forgotten(d) \/ Dropped(d)
<1>1. /\ index \in 0 .. Len(events) /\ Len(events) \in Nat /\ DOMAIN events = 1 .. Len(events)
      /\ ~(index < Len(events)) /\ phase = "foreach" /\ phase' # phase
      /\ UNCHANGED <<cn, ready, roundRobinList>>
  BY LenProperties DEF Listed, WorkerInv, TypeOK, EventsDone, MoreEvents
<1>2. ASSUME Unhandled(d) PROVE Dropped(d)
  <2>1. PICK k \in DOMAIN events : events[k].ptr = d /\ k >= index /\ (k = 1 => index = 0)
    BY <1>2 DEF Unhandled
  <2>2. k = Len(events) /\ Len(events) > 1
    BY <1>1, <2>1
  <2>. QED  BY <1>1, <2>1, <2>2 DEF Dropped
<1>. QED  BY <1>1, <1>2 DEF Forgotten

(* The front is popped and perhaps pushed again, and the others stay.      *)
LEMMA RoundRobinRemembers ==
  ASSUME Listed, RoundRobin, NEW d \in Conn, Forgotten(d)', PopRemoves
  PROVE  Forgotten(d)
<1>0. /\ WorkerInv /\ ListsInv /\ phase = "rr" /\ roundRobinList \in Heap
      /\ UNCHANGED <<events, index>> /\ events = <<>>
  BY DEF Listed, RoundRobin, WorkerInv, TypeOK, RespInv, EventsInv
<1>1. PICK M : Around(roundRobinList, M)
  BY <1>0 DEF WorkerInv, ListInv
<1>2. PICK h : h = dmbListPopFront(roundRobinList, Anchor)
  OBVIOUS
<1>3. FirstNode(roundRobinList, Anchor) \in M /\ h \in Heap
  BY <1>0, <1>1, <1>2, PopAround
<1>4. PICK c \in Conn : c = FirstNode(roundRobinList, Anchor)
  <2>1. FirstNode(roundRobinList, Anchor) # Anchor
    BY DEF RoundRobin, FirstNode, dmbListIsEmpty
  <2>. QED  BY <1>1, <1>3, <2>1 DEF Around, Node
<1>5. /\ \A e \in Conn : e # c => cn'[e] = cn[e] /\ (e \in ready => e \in ready')
      /\ \/ roundRobinList' = dmbListPushBack(h, Anchor, c)
         \/ /\ roundRobinList' = h
            /\ cn'[c].registered /\ cn'[c].rx > 0 => c \in ready'
  BY <1>0, <1>2, <1>4, RoundRobinHeard
<1>6. ~Stuck(roundRobinList)
  <2>. SUFFICES ASSUME Stuck(roundRobinList) PROVE FALSE
    OBVIOUS
  <2>1. roundRobinList.next[c] \in Node /\ c = roundRobinList.next[Anchor]
    BY <1>1, <1>3, <1>4 DEF Around, FirstNode
  <2>2. PICK k : k = dmbListPushBack(h, Anchor, c)
    OBVIOUS
  <2>3. h.next[Anchor] = c
    BY <1>0, <1>2, <2>1, <2>2, StuckStays
  <2>4. c \in Members(h)
    BY <2>3, FirstMember
  <2>. QED  BY <1>2, <2>1, <2>4, NodeAssumption DEF PopRemoves, FirstNode
<1>7. PICK n \in Nat : \E p : Rolled(n, p)
  BY <1>0, <1>6 DEF ListsInv, RoundInv
<1>8. PICK p : Rolled(n, p)
  BY <1>7
<1>9. Path(roundRobinList, n, p) /\ roundRobinList.prev[p[1]] = Anchor /\ c = p[1] /\ n > 0
  <2>1. 0 \in 0 .. n /\ 0 + 1 = 1
    OBVIOUS
  <2>2. c = p[1]
    BY <1>4, <1>8, <2>1 DEF Rolled, Path, FirstNode
  <2>3. n = 0 => p[1] = Anchor
    BY <1>8 DEF Rolled, Path
  <2>. QED  BY <1>0, <1>8, <2>2, <2>3, NodeAssumption DEF Rolled
<1>10. PICK q : Path(h, n - 1, q) /\ \A i \in 1 .. n - 1 : q[i] = p[i + 1] /\ q[i] # p[1]
  <2>1. Popped(h, n, p)
    BY <1>0, <1>2, <1>9, PathPop
  <2>. QED  BY <2>1 DEF Popped
<1>11. n - 1 \in Nat
  BY <1>9
<1>12. c \notin Members(h) /\ Members(roundRobinList) \subseteq Members(h) \cup {c}
  <2>1. Members(h) = {q[i] : i \in 1 .. n - 1} /\ Members(roundRobinList) = {p[i] : i \in 1 .. n}
    BY <1>9, <1>10, <1>11, PathMembers
  <2>2. \A i \in 1 .. n : i = 1 \/ (i - 1 \in 1 .. n - 1 /\ (i - 1) + 1 = i)
    OBVIOUS
  <2>3. \A i \in 1 .. n : p[i] = c \/ p[i] \in {q[j] : j \in 1 .. n - 1}
    BY <1>9, <1>10, <2>2
  <2>. QED  BY <1>9, <1>10, <2>1, <2>3
<1>13. Members(h) \subseteq Members(dmbListPushBack(h, Anchor, c))
  BY <1>3, <1>10, <1>11, <1>12, PushKeeps
<1>14. d # c
  <2>1. c \in Members(dmbListPushBack(h, Anchor, c))
    BY <1>3, <1>10, <1>11, LastMember
  <2>. QED  BY <1>5, <2>1 DEF Forgotten
<1>15. d \in Members(roundRobinList) => d \in Members(roundRobinList')
  BY <1>5, <1>12, <1>13, <1>14
<1>16. ~Unhandled(d)
  BY <1>0 DEF Unhandled
<1>. QED  BY <1>5, <1>14, <1>15, <1>16 DEF Forgotten

LEMMA NextRemembers ==
  ASSUME Listed, VisitedInv, [Next]_vars, NEW d \in Conn, Forgotten(d)'
  PROVE  Forgotten(d) \/ Dropped(d) \/ ~PopRemoves
<1>0. WorkerInv
  BY DEF Listed
<1>1. CASE Clients
  BY <1>0, <1>1, ClientsRemember
<1>2. CASE Poll
  BY <1>2, PollRemembers
<1>3. CASE NewConnect
  BY <1>0, <1>3, NewConnectRemembers
<1>4. CASE BadConnect \/ SweepExpired
  BY <1>0, <1>4, CloseRemembers
<1>5. CASE ConnEvent
  BY <1>5, ConnEventRemembers
<1>6. CASE EventsDone
  BY <1>6, EventsDoneRemembers
<1>7. CASE RoundRobin
  BY <1>7, RoundRobinRemembers
<1>8. CASE ReadPipe \/ RoundRobinDone \/ Sweep \/ SweepDone \/ UNCHANGED vars
  <2>1. UNCHANGED <<cn, ready, roundRobinList, events, index>>
    BY <1>8 DEF ReadPipe, RoundRobinDone, Sweep, SweepDone, vars
  <2>. QED  BY <2>1 DEF Forgotten, Unhandled
<1>. QED  BY <1>1, <1>2, <1>3, <1>4, <1>5, <1>6, <1>7, <1>8 DEF Next, WorkThread

Drains ==
  \A c \in Conn :
    /\ Handled(c) => \/ cn'[c].rx = 0 \/ ~cn'[c].registered
                     \/ c \in ready' \cup Members(roundRobinList')
    /\ Forgotten(c)' => Forgotten(c) \/ Dropped(c) \/ ~PopRemoves

(* When dmbProcessEvent is done with a connection, everything that has     *)
(* been received is read, or the connection is on the round robin list     *)
(* where processRoundRobin meets it, or epoll will tell of the rest: also  *)
(* when the list has been cut or doubled by pushing a node twice.  And     *)
(* from the edge to the handling no step forgets a connection that has     *)
(* input, but the end of a batch of several events, the last of which is   *)
(* not visited, and a list whose front cannot be removed.                  *)
THEOREM InputNotForgotten == Spec => InputDrained
<1>1. Init => VisitedInv
  BY DEF Init, VisitedInv
<1>2. Listed /\ VisitedInv /\ [Next]_vars => VisitedInv'
  BY NextVisited
<1>3. Listed /\ VisitedInv /\ [Next]_vars => [Drains]_vars
  BY HandledDrained, NextRemembers DEF Drains
<1>4. Spec => [][Drains]_vars
  BY <1>1, <1>2, <1>3, ListsCorrect, PTL DEF Spec
<1>. QED  BY <1>4 DEF InputDrained, Drains

-----------------------------------------------------------------------------
(* Refused connections.                                                    *)

(* The fields of the header are all in network order, or all in host       *)
(* order: parsing it would succeed, or begin with a magic turned back.     *)
Level(s) == s.magic = s.version /\ s.version = s.length

(* Neither the request nor the size of writeBuf lets it be answered OK.    *)
Hopeless(s) == ReqSize > WriteBuf \/ (s.reqs # <<>> /\ s.reqs[1] # "good")

(* The header has been refused once since it was level, or twice: parsing  *)
(* it the next time cannot succeed.                                        *)
Refused(s)      == Hopeless(s) \/ (~s.magic /\ s.version /\ s.length)
RefusedTwice(s) == Refused(s) \/ (s.magic /\ ~s.version /\ s.length)

(* Its client has sent every field in network order.                       *)
NetOrder(s) == ~s.odd /\ s.reqs \in Seq(Kinds \ HostKinds)

(* t is s, as far as refusals are concerned.                               *)
Same(s, t) ==
  /\ t.magic = s.magic /\ t.version = s.version /\ t.length = s.length
  /\ t.needClose = s.needClose /\ t.reqs = s.reqs
  /\ t.early = s.early /\ t.odd = s.odd

(* How a refusal lasts when processData makes t of s.                      *)
RefusalLasts(s, t) ==
  /\ s.needClose \/ Level(s) => t.needClose \/ Level(t)
  /\ ~s.needClose /\ Level(s) /\ t.needClose => Refused(t)
  /\ s.needClose /\ Refused(s) => t.needClose /\ RefusedTwice(t)
  /\ s.needClose /\ RefusedTwice(s) => t.needClose

Lasts(s, t) ==
  /\ t.early = s.early /\ t.odd = s.odd
  /\ NetOrder(s) => NetOrder(t) /\ RefusalLasts(s, t)

LEMMA ReadSame ==
  ASSUME NEW s, Busy(s), NEW r \in ReadData(s), r.s.live
  PROVE  Same(s, r.s) /\ r.s.isblocked = s.isblocked
<1>. s \in Record
  BY DEF Busy
<1>0. PICK k : k = Lesser(s.rx, ReadBuf - s.readLength)
  OBVIOUS
<1>1. CASE ~s.canRead
  BY <1>1 DEF ReadData, Result, Same
<1>2. CASE s.canRead /\ ReadBuf <= s.readLength
  <2>1. PICK t : t = [s EXCEPT !.timeout = TRUE]
    OBVIOUS
  <2>2. r.s = t
    BY <1>2, <2>1 DEF ReadData, Watched
  <2>3. Same(s, t) /\ t.isblocked = s.isblocked
    BY <2>1, ZenonT(30) DEF Record, Same
  <2>. QED  BY <2>2, <2>3
<1>3. r # Result(CloseConnect(s), "ERROR")
  BY CloseRest DEF Result
<1>4. CASE s.canRead /\ ~(ReadBuf <= s.readLength)
  <2>1. PICK g : g = Received(s, k)
    OBVIOUS
  <2>2. r = Result(g, "OK") \/ r = ReadNothing(g)
    BY <1>0, <1>3, <1>4, <2>1 DEF ReadData, Received
  <2>3. /\ DOMAIN g = DOMAIN s /\ Same(s, g) /\ g.isblocked = s.isblocked
        /\ g.live = s.live
    <3>1. PICK a, b : a = s.rx - k /\ b = s.readLength + k
      OBVIOUS
    <3>2. g = [s EXCEPT !.rx = a, !.readLength = b]
      BY <2>1, <3>1 DEF Received
    <3>. QED  BY <3>2, ZenonT(30) DEF Record, Same
  <2>4. CASE r = Result(g, "OK")
    BY <2>3, <2>4 DEF Result
  <2>5. CASE r = Watched([g EXCEPT !.canRead = FALSE], "AGAIN")
    <3>1. PICK t : t = [g EXCEPT !.canRead = FALSE, !.timeout = TRUE]
      OBVIOUS
    <3>2. r.s = t
      BY <2>5, <3>1 DEF Watched
    <3>3. {"magic", "version", "length", "needClose", "reqs", "early", "odd", "isblocked"} \subseteq DOMAIN g
      BY <2>3 DEF Record
    <3>4. Same(g, t) /\ t.isblocked = g.isblocked
      BY <3>1, <3>3 DEF Same
    <3>. QED  BY <2>3, <3>2, <3>4 DEF Same
  <2>6. CASE r = Result(CloseConnect(g), "CLOSED")
    BY <2>6 DEF Result, CloseConnect, Closed
  <2>. QED  BY <2>2, <2>4, <2>5, <2>6 DEF ReadNothing
<1>. QED  BY <1>1, <1>2, <1>4

LEMMA WriteSame ==
  ASSUME NEW s, Busy(s), NEW t \in WriteData(s), t.s.live
  PROVE  Same(s, t.s)
<1>. s \in Record
  BY DEF Busy
<1>1. CASE t.s = s
  BY <1>1 DEF Same
<1>2. t # Result(CloseConnect(s), "ERROR")
  BY CloseRest DEF Result
<1>3. CASE t.s # s
  <2>1. PICK k : k = Lesser(s.space, s.writeLength)
    OBVIOUS
  <2>2. PICK g : g = [s EXCEPT !.space = @ - k, !.writeIndex = @ + k, !.writeLength = @ - k]
    OBVIOUS
  <2>3. Same(s, g)
    BY <2>2 DEF Record, Same
  <2>4. {"magic", "version", "length", "needClose", "reqs", "early", "odd"} \subseteq DOMAIN g
    BY <2>2 DEF Record
  <2>5. \/ t = Result([g EXCEPT !.isblocked = FALSE, !.writeIndex = 0], "OK")
        \/ t = Watched([g EXCEPT !.canWrite = FALSE, !.isblocked = TRUE], "AGAIN")
    BY <1>2, <1>3, <2>1, <2>2 DEF WriteData, Result
  <2>6. CASE t = Result([g EXCEPT !.isblocked = FALSE, !.writeIndex = 0], "OK")
    <3>1. PICK u : u = [g EXCEPT !.isblocked = FALSE, !.writeIndex = 0]
      OBVIOUS
    <3>2. t.s = u
      BY <2>6, <3>1 DEF Result
    <3>3. Same(g, u)
      BY <2>4, <3>1 DEF Same
    <3>. QED  BY <2>3, <3>2, <3>3 DEF Same
  <2>7. CASE t = Watched([g EXCEPT !.canWrite = FALSE, !.isblocked = TRUE], "AGAIN")
    <3>1. PICK u : u = [g EXCEPT !.canWrite = FALSE, !.isblocked = TRUE, !.timeout = TRUE]
      OBVIOUS
    <3>2. t.s = u
      BY <2>7, <3>1 DEF Watched
    <3>3. Same(g, u)
      BY <2>4, <3>1 DEF Same
    <3>. QED  BY <2>3, <3>2, <3>3 DEF Same
  <2>. QED  BY <2>5, <2>6, <2>7
<1>. QED  BY <1>1, <1>3

(* What parsing makes of the fields, and when it succeeds.                 *)
LEMMA ParseFields ==
  ASSUME NEW s \in Record, NEW p, p = ParsePkgHeader(s).s, NEW code, code = ParsePkgHeader(s).code
  PROVE  /\ p.needClose = s.needClose /\ p.reqs = s.reqs
         /\ p.early = s.early /\ p.odd = s.odd /\ p \in Record
         /\ s.reqs[1] \notin HostKinds =>
            /\ p.magic = ~s.magic
            /\ LengthRight(p) <=> s.reqs[1] # "tooLong" /\ p.length
            /\ code = "OK" => /\ ~s.magic /\ ~s.version
                              /\ p.version /\ p.length = ~s.length
                              /\ s.reqs[1] # "badMagic" /\ s.reqs[1] # "badVersion"
            /\ code # "OK" => /\ p.length = s.length
                              /\ s.reqs[1] = "badMagic" \/ s.magic => p.version = s.version
                              /\ s.reqs[1] # "badMagic" /\ ~s.magic =>
                                   p.version = ~s.version /\ (s.reqs[1] = "badVersion" \/ s.version)
<1>1. PICK m : m = [s EXCEPT !.magic = ~@]
  OBVIOUS
<1>2. PICK v : v = [m EXCEPT !.version = ~@]
  OBVIOUS
<1>3. PICK l : l = [v EXCEPT !.length = ~@]
  OBVIOUS
<1>4. /\ m \in Record /\ m.magic = ~s.magic /\ m.version = s.version /\ m.length = s.length
      /\ m.needClose = s.needClose /\ m.reqs = s.reqs /\ m.early = s.early /\ m.odd = s.odd
  BY <1>1 DEF Record
<1>5. /\ v \in Record /\ v.magic = ~s.magic /\ v.version = ~s.version /\ v.length = s.length
      /\ v.needClose = s.needClose /\ v.reqs = s.reqs /\ v.early = s.early /\ v.odd = s.odd
  BY <1>2, <1>4, SMTT(40) DEF Record
<1>6. /\ l \in Record /\ l.magic = ~s.magic /\ l.version = ~s.version /\ l.length = ~s.length
      /\ l.needClose = s.needClose /\ l.reqs = s.reqs /\ l.early = s.early /\ l.odd = s.odd
  BY <1>3, <1>5, ZenonT(60) DEF Record
<1>7. s.magic \in BOOLEAN /\ s.version \in BOOLEAN /\ s.length \in BOOLEAN
  BY DEF Record
<1>8. ParsePkgHeader(s) =
        IF ~MagicRight(m) THEN Result(m, "PROTOCOL_ERROR")
        ELSE IF ~VersionRight(v) THEN Result(v, "VERSION_ERROR")
        ELSE Result(l, "OK")
  BY <1>1, <1>2, <1>3 DEF ParsePkgHeader
<1>9. s.reqs[1] \notin HostKinds =>
        /\ MagicRight(m) <=> s.reqs[1] # "badMagic" /\ ~s.magic
        /\ VersionRight(v) <=> s.reqs[1] # "badVersion" /\ ~s.version
        /\ p.reqs = s.reqs /\ p.length \in BOOLEAN =>
             (LengthRight(p) <=> s.reqs[1] # "tooLong" /\ p.length)
  BY <1>4, <1>5, <1>7 DEF HostKinds, MagicRight, VersionRight, LengthRight
<1>10. p \in Record => p.length \in BOOLEAN
  BY DEF Record
<1>11. CASE ~MagicRight(m)
  <2>1. p = m /\ code = "PROTOCOL_ERROR"
    BY <1>8, <1>11 DEF Result
  <2>. QED  BY <1>4, <1>7, <1>9, <1>10, <1>11, <2>1
<1>12. CASE MagicRight(m) /\ ~VersionRight(v)
  <2>1. p = v /\ code = "VERSION_ERROR"
    BY <1>8, <1>12 DEF Result
  <2>. QED  BY <1>5, <1>7, <1>9, <1>10, <1>12, <2>1
<1>13. CASE MagicRight(m) /\ VersionRight(v)
  <2>1. p = l /\ code = "OK"
    BY <1>8, <1>13 DEF Result
  <2>. QED  BY <1>6, <1>7, <1>9, <1>10, <1>13, <2>1
<1>. QED  BY <1>11, <1>12, <1>13

(* Consuming a request leaves a sequence of the same kinds.                *)
LEMMA TailKinds ==
  ASSUME NEW S, NEW q \in Seq(S), q # <<>>
  PROVE  Tail(q) \in Seq(S)
OBVIOUS

(* A level header is answered or refused, and a refused one refused again. *)
LEMMA ProcessLasts ==
  ASSUME NEW s, Busy(s), ~s.isblocked
  PROVE  Lasts(s, ProcessData(s).s) /\ ProcessData(s).s.registered = s.registered
<1>. s \in Record
  BY DEF Busy
<1>0. ProcessData(s).s.registered = s.registered
  BY ProcessHeard DEF Heeds
<1>1. CASE s.readLength < Hdr
  BY <1>1 DEF ProcessData, Result, Lasts, RefusalLasts, RefusedTwice
<1>2. CASE ~(s.readLength < Hdr)
  <2>1. s.readLength >= Hdr
    BY <1>2, BufferAssumption DEF Record
  <2>2. PICK p : p = ParsePkgHeader(s).s
    OBVIOUS
  <2>3. PICK code : code = ParsePkgHeader(s).code
    OBVIOUS
  <2>4. /\ p.needClose = s.needClose /\ p.reqs = s.reqs
        /\ p.early = s.early /\ p.odd = s.odd /\ p \in Record
        /\ s.reqs[1] \notin HostKinds =>
           /\ p.magic = ~s.magic
           /\ LengthRight(p) <=> s.reqs[1] # "tooLong" /\ p.length
           /\ code = "OK" => /\ ~s.magic /\ ~s.version
                             /\ p.version /\ p.length = ~s.length
                             /\ s.reqs[1] # "badMagic" /\ s.reqs[1] # "badVersion"
           /\ code # "OK" => /\ p.length = s.length
                             /\ s.reqs[1] = "badMagic" \/ s.magic => p.version = s.version
                             /\ s.reqs[1] # "badMagic" /\ ~s.magic =>
                                  p.version = ~s.version /\ (s.reqs[1] = "badVersion" \/ s.version)
    BY <2>2, <2>3, ParseFields
  <2>5. /\ s.reqs # <<>> /\ s.reqs \in Seq(Kinds)
        /\ NetOrder(s) => s.reqs[1] \in {"good", "badMagic", "badVersion", "tooLong", "wrapping"} \ HostKinds
    <3>1. Len(s.reqs) > 0 /\ s.reqs \in Seq(Kinds)
      BY <2>1, ParseBusy DEF Record
    <3>2. s.reqs # <<>> /\ (NetOrder(s) => s.reqs[1] \in Kinds \ HostKinds)
      BY <3>1 DEF NetOrder
    <3>. QED  BY <3>1, <3>2, BufferAssumption
  <2>6. s.magic \in BOOLEAN /\ s.version \in BOOLEAN /\ s.length \in BOOLEAN /\ s.needClose \in BOOLEAN
    BY DEF Record
  <2>7. CASE code # "OK"
    <3>1. PICK t : t = ProcessData(s).s
      OBVIOUS
    <3>2. t = MakeErrorResponse(p)
      BY <1>2, <2>2, <2>3, <2>7, <3>1 DEF ProcessData, Result
    <3>3. /\ t.needClose /\ t.magic = p.magic /\ t.version = p.version /\ t.length = p.length
          /\ t.reqs = s.reqs /\ t.early = s.early /\ t.odd = s.odd
      BY <2>4, <3>2 DEF MakeErrorResponse, Record
    <3>4. NetOrder(s) => RefusalLasts(s, t)
      BY <2>4, <2>5, <2>6, <2>7, <3>3 DEF RefusalLasts, Level, Refused, RefusedTwice, Hopeless
    <3>. QED  BY <1>0, <3>1, <3>3, <3>4 DEF Lasts, NetOrder
  <2>8. CASE code = "OK" /\ ~LengthRight(p)
    <3>1. PICK t : t = ProcessData(s).s
      OBVIOUS
    <3>2. t = MakeResponseWithData(p, "OUT_OF_READBUF")
      BY <1>2, <2>2, <2>3, <2>8, <3>1 DEF ProcessData, Result
    <3>3. /\ t.needClose /\ t.magic = p.magic /\ t.version = p.version /\ t.length = p.length
          /\ t.reqs = s.reqs /\ t.early = s.early /\ t.odd = s.odd
      BY <2>4, <3>2 DEF MakeResponseWithData, Record
    <3>4. NetOrder(s) => RefusalLasts(s, t)
      BY <2>4, <2>5, <2>6, <2>8, <3>3 DEF RefusalLasts, Level, Refused, RefusedTwice, Hopeless
    <3>. QED  BY <1>0, <3>1, <3>3, <3>4 DEF Lasts, NetOrder
  <2>9. CASE code = "OK" /\ LengthRight(p) /\ s.reqs[1] # "wrapping" /\ ReqSize <= s.readLength
    <3>1. PICK h : h = MakeResponseWithData(p, "OK")
      OBVIOUS
    <3>2. (h.needClose <=> ReqSize > WriteBuf) /\ h.early = s.early /\ h.odd = s.odd /\ h.reqs = s.reqs
      <4>1. CASE ReqSize > WriteBuf
        BY <2>4, <3>1, <4>1 DEF MakeResponseWithData, Record
      <4>2. CASE ~(ReqSize > WriteBuf)
        BY <2>4, <3>1, <4>2 DEF MakeResponseWithData, Record
      <4>. QED  BY <4>1, <4>2
    <3>3. {"magic", "version", "length", "needClose", "reqs", "readLength", "early", "odd"} \subseteq DOMAIN h
      BY <2>4, <3>1 DEF MakeResponseWithData, Record
    <3>4. PICK t : t = [h EXCEPT !.readLength = @ - ReqSize, !.reqs = Tail(@),
                                 !.magic = FALSE, !.version = FALSE, !.length = FALSE]
      OBVIOUS
    <3>5. ProcessData(s).s = t
      BY <1>2, <2>2, <2>3, <2>9, <3>1, <3>4 DEF ProcessData, Result
    <3>6. /\ t.magic = FALSE /\ t.version = FALSE /\ t.length = FALSE
          /\ t.needClose = h.needClose /\ t.early = h.early /\ t.odd = h.odd
          /\ t.reqs = Tail(h.reqs)
      BY <3>3, <3>4
    <3>7. ASSUME NetOrder(s) PROVE RefusalLasts(s, t)
      <4>1. Hopeless(s) => ReqSize > WriteBuf
        BY <2>4, <2>5, <2>9, <3>7 DEF Hopeless
      <4>2. ~s.magic /\ ~s.version /\ ~s.length
        BY <2>4, <2>5, <2>6, <2>9, <3>7
      <4>3. Level(t) /\ (t.needClose <=> ReqSize > WriteBuf)
        BY <3>2, <3>6 DEF Level
      <4>4. ReqSize > WriteBuf => Refused(t)
        BY DEF Refused, Hopeless
      <4>5. RefusedTwice(s) => ReqSize > WriteBuf
        BY <4>1, <4>2, Zenon DEF Refused, RefusedTwice
      <4>. QED  BY <4>3, <4>4, <4>5 DEF RefusalLasts, RefusedTwice
    <3>8. NetOrder(s) => NetOrder(t)
      BY <2>5, <3>2, <3>6, TailKinds DEF NetOrder
    <3>9. Lasts(s, t)
      BY <3>2, <3>6, <3>7, <3>8 DEF Lasts
    <3>. QED  BY <1>0, <3>5, <3>9
  <2>10. CASE code = "OK" /\ LengthRight(p) /\ ~(s.reqs[1] # "wrapping" /\ ReqSize <= s.readLength)
    <3>1. ProcessData(s).s = p
      BY <1>2, <2>2, <2>3, <2>10 DEF ProcessData, Result
    <3>2. NetOrder(s) => RefusalLasts(s, p)
      BY <2>4, <2>5, <2>6, <2>10 DEF RefusalLasts, Level, Refused, RefusedTwice, Hopeless
    <3>. QED  BY <1>0, <2>4, <3>1, <3>2 DEF Lasts, NetOrder
  <2>. QED  BY <2>7, <2>8, <2>9, <2>10
<1>. QED  BY <1>1, <1>2

(* dmbProcessEvent: a refusal lasts, and a refused connection is either    *)
(* forgotten by epoll or waits for the client to read.                     *)
LEMMA HandlerLasts ==
  ASSUME NEW c, NEW s, NEW list, Busy(s), Sound(s), ProcessEvent(c, s, list)
  PROVE  \E e, w :
           /\ Update(c, e, w)
           /\ e.live => /\ s.live /\ Lasts(s, e)
                        /\ s.isblocked => e.needClose = s.needClose /\ (Refused(s) => Refused(e))
                        /\ e.registered = s.registered \/ (~e.registered /\ e.needClose)
                        /\ ~s.early /\ e.needClose /\ e.registered => e.isblocked
                        /\ \/ roundRobinList' = list
                           \/ /\ roundRobinList' = dmbListPushBack(list, Anchor, c)
                              /\ ~s.early /\ e.needClose => e.isblocked
<1>. s \in Record
  BY DEF Busy
<1>1. PICK r \in ReadData(s) :
        IF r.code \in {"ERROR", "CLOSED"}
        THEN Update(c, r.s, r.watch) /\ roundRobinList' = list
        ELSE \E d \in IF r.s.isblocked THEN {Result(r.s, x) : x \in Garbage}
                      ELSE {ProcessData(r.s)} :
             \E t \in WriteData(d.s) :
               IF t.s.needClose /\ t.s.writeLength = 0
               THEN /\ Update(c, [t.s EXCEPT !.registered = FALSE], r.watch \/ t.watch)
                    /\ roundRobinList' = list
               ELSE /\ Update(c, t.s, r.watch \/ t.watch)
                    /\ roundRobinList' =
                         IF AllDone(r.code, d.code, t.code) THEN list
                         ELSE dmbListPushBack(list, Anchor, c)
  BY DEF ProcessEvent
<1>2. Busy(r.s) /\ Sound(r.s)
  BY ReadBusy, ReadSound
<1>3. CASE r.code \in {"ERROR", "CLOSED"}
  <2>1. ~r.s.live
    BY <1>3, ReadBusy
  <2>. QED  BY <1>1, <1>3, <2>1
<1>4. CASE r.code \notin {"ERROR", "CLOSED"}
  <2>1. PICK d \in IF r.s.isblocked THEN {Result(r.s, x) : x \in Garbage}
                   ELSE {ProcessData(r.s)} :
             \E t \in WriteData(d.s) :
               IF t.s.needClose /\ t.s.writeLength = 0
               THEN /\ Update(c, [t.s EXCEPT !.registered = FALSE], r.watch \/ t.watch)
                    /\ roundRobinList' = list
               ELSE /\ Update(c, t.s, r.watch \/ t.watch)
                    /\ roundRobinList' =
                         IF AllDone(r.code, d.code, t.code) THEN list
                         ELSE dmbListPushBack(list, Anchor, c)
    BY <1>1, <1>4
  <2>2. /\ Busy(d.s) /\ Served(d.s) /\ (d.s.live => r.s.live) /\ Lasts(r.s, d.s)
        /\ d.s.registered = r.s.registered /\ (r.s.isblocked => d.s = r.s)
    <3>1. CASE r.s.isblocked
      BY <1>2, <2>1, <3>1 DEF Result, Sound, Served, Lasts, RefusalLasts, RefusedTwice
    <3>2. CASE ~r.s.isblocked
      <4>1. d = ProcessData(r.s)
        BY <2>1, <3>2
      <4>2. Busy(d.s) /\ Served(d.s) /\ d.s.live = r.s.live
        BY <1>2, <3>2, <4>1, ProcessBusy, ProcessSound
      <4>3. Lasts(r.s, d.s) /\ d.s.registered = r.s.registered
        BY <1>2, <3>2, <4>1, ProcessLasts
      <4>. QED  BY <3>2, <4>2, <4>3
    <3>. QED  BY <3>1, <3>2
  <2>3. PICK t \in WriteData(d.s) :
               IF t.s.needClose /\ t.s.writeLength = 0
               THEN /\ Update(c, [t.s EXCEPT !.registered = FALSE], r.watch \/ t.watch)
                    /\ roundRobinList' = list
               ELSE /\ Update(c, t.s, r.watch \/ t.watch)
                    /\ roundRobinList' =
                         IF AllDone(r.code, d.code, t.code) THEN list
                         ELSE dmbListPushBack(list, Anchor, c)
    BY <2>1
  <2>4. /\ Rest(t.s) /\ Sound(t.s) /\ (t.s.live => d.s.live)
        /\ t.s.live => Same(d.s, t.s) /\ t.s.registered = d.s.registered
    <3>1. Rest(t.s) /\ Sound(t.s) /\ (t.s.live => d.s.live)
      BY <2>2, WriteRest, WriteSound
    <3>2. t.s.live => Same(d.s, t.s) /\ t.s.registered = d.s.registered
      BY <2>2, WriteSame, WriteHeard DEF Heeds
    <3>. QED  BY <3>1, <3>2
  <2>5. PICK v \in Record : v = t.s
    BY <2>4 DEF Rest, Busy
  <2>6. ASSUME v.live
        PROVE  /\ s.live /\ Lasts(s, v) /\ v.early = s.early /\ v.registered = s.registered
               /\ s.isblocked => v.needClose = s.needClose /\ (Refused(s) => Refused(v))
               /\ ~s.early /\ v.writeLength # 0 => v.isblocked
    <3>1. Same(s, r.s) /\ r.s.isblocked = s.isblocked /\ r.s.registered = s.registered
      BY <2>2, <2>4, <2>5, <2>6, ReadSame, ReadHeard
    <3>2. Same(d.s, v) /\ v.registered = d.s.registered
      BY <2>4, <2>5, <2>6
    <3>3. v.early = s.early /\ v.registered = s.registered
      BY <2>2, <3>1, <3>2 DEF Same, Lasts
    <3>4. Lasts(s, v)
      BY <2>2, <3>1, <3>2 DEF Same, Lasts, RefusalLasts, NetOrder, Level, Refused, RefusedTwice, Hopeless
    <3>5. s.isblocked => v.needClose = s.needClose /\ (Refused(s) => Refused(v))
      BY <2>2, <3>1, <3>2 DEF Same, Refused, Hopeless
    <3>6. ~s.early /\ v.writeLength # 0 => v.isblocked
      BY <2>4, <2>5, <3>3 DEF Sound
    <3>7. s.live
      BY <2>2, <2>4, <2>5, <2>6, ReadBusy
    <3>. QED  BY <3>3, <3>4, <3>5, <3>6, <3>7
  <2>7. CASE v.needClose /\ v.writeLength = 0
    <3>1. PICK u : u = [v EXCEPT !.registered = FALSE]
      OBVIOUS
    <3>2. Update(c, u, r.watch \/ t.watch) /\ roundRobinList' = list
      BY <2>3, <2>5, <2>7, <3>1
    <3>3. ~u.registered /\ u.live = v.live /\ Same(v, u)
      BY <3>1, ZenonT(30) DEF Record, Same
    <3>4. u.live => /\ s.live /\ Lasts(s, u) /\ u.needClose
                    /\ s.isblocked => u.needClose = s.needClose /\ (Refused(s) => Refused(u))
      BY <2>6, <2>7, <3>3 DEF Same, Lasts, RefusalLasts, NetOrder, Level, Refused, RefusedTwice, Hopeless
    <3>. QED  BY <3>2, <3>3, <3>4
  <2>8. CASE ~(v.needClose /\ v.writeLength = 0)
    <3>1. Update(c, v, r.watch \/ t.watch)
      BY <2>3, <2>5, <2>8
    <3>2. roundRobinList' = list \/ roundRobinList' = dmbListPushBack(list, Anchor, c)
      BY <2>3, <2>5, <2>8
    <3>3. v.live /\ ~s.early /\ v.needClose => v.isblocked
      BY <2>6, <2>8
    <3>4. v.live => v.registered = s.registered
      BY <2>6
    <3>. QED  BY <2>6, <3>1, <3>2, <3>3, <3>4
  <2>. QED  BY <2>7, <2>8
<1>. QED  BY <1>3, <1>4

(* What is known of a connection, and of record c, which has not been      *)
(* forgotten unless it was refused: on the round robin list it is refused  *)
(* once more, and its event may be the first one, handled a second time.   *)
Patience(c, s) ==
  s.live /\ ~s.odd =>
    /\ NetOrder(s)
    /\ s.needClose \/ Level(s)
    /\ ~s.early =>
       /\ s.registered \/ s.needClose
       /\ s.registered /\ s.needClose => s.isblocked /\ Refused(s)
       /\ ~s.registered /\ c \in Members(roundRobinList) /\ ~s.isblocked => RefusedTwice(s)
       /\ \A k \in DOMAIN events :
            k >= index /\ events[k].ptr = c /\ ~s.registered => k = 1 /\ index = 1 /\ Refused(s)

(* A list that is stuck is never left.                                     *)
Patient ==
  (phase = "rr" /\ Stuck(roundRobinList)) \/ \A c \in Conn : Patience(c, cn[c])

(* t is s, as far as patience is concerned.                                *)
Likewise(s, t) ==
  ~t.odd =>
    /\ ~s.odd /\ (NetOrder(s) => NetOrder(t))
    /\ Level(s) => Level(t)
    /\ Refused(s) => Refused(t)
    /\ RefusedTwice(s) => RefusedTwice(t)
    /\ s.live /\ t.needClose = s.needClose /\ t.registered = s.registered
    /\ t.isblocked = s.isblocked /\ t.early = s.early

LEMMA PatientKept ==
  ASSUME WorkerInv, Patient, \A c \in Conn : ~cn'[c].live \/ Likewise(cn[c], cn'[c]),
         UNCHANGED <<roundRobinList, phase, events>>, index' \in Nat, index' >= index
  PROVE  Patient'
<1>1. CASE phase = "rr" /\ Stuck(roundRobinList)
  BY <1>1 DEF Patient
<1>2. CASE \A c \in Conn : Patience(c, cn[c])
  <2>. SUFFICES ASSUME NEW c \in Conn PROVE Patience(c, cn[c])'
    BY DEF Patient
  <2>1. CASE ~cn'[c].live \/ cn'[c].odd
    BY <2>1 DEF Patience
  <2>2. CASE Likewise(cn[c], cn'[c])
    <3>1. Members(roundRobinList') = Members(roundRobinList)
      OBVIOUS
    <3>2. ASSUME NEW k \in DOMAIN events, k >= index', events[k].ptr = c, ~cn'[c].registered,
                 cn'[c].live, ~cn'[c].odd, ~cn'[c].early
          PROVE  k = 1 /\ index' = 1 /\ Refused(cn'[c])
      <4>1. index \in Nat /\ k \in Nat
        <5>1. DOMAIN events = 1 .. Len(events) /\ Len(events) \in Nat
          BY LenProperties DEF WorkerInv, TypeOK
        <5>. QED  BY <5>1 DEF WorkerInv, TypeOK
      <4>2. k >= index
        BY <3>2, <4>1
      <4>3. k = 1 /\ index = 1 /\ Refused(cn[c])
        BY <1>2, <2>2, <3>2, <4>2 DEF Likewise, Patience
      <4>. QED  BY <2>2, <3>2, <4>3 DEF Likewise
    <3>. QED  BY <1>2, <2>2, <3>1, <3>2 DEF Likewise, Patience
  <2>. QED  BY <2>1, <2>2
<1>. QED  BY <1>1, <1>2 DEF Patient

LEMMA InitPatient == Init => Patient
<1>. SUFFICES ASSUME Init PROVE Patient
  OBVIOUS
<1>1. \A c \in Conn : ~cn[c].live
  BY DEF Init, Closed
<1>. QED  BY <1>1 DEF Patient, Patience

LEMMA ClientsPatient == WorkerInv /\ Patient /\ Clients => Patient'
<1>. SUFFICES ASSUME WorkerInv, Patient, Clients PROVE Patient'
  OBVIOUS
<1>0. index \in Nat /\ cn \in [Conn -> Record]
  BY DEF WorkerInv, TypeOK
<1>1. CASE HandOver
  <2>1. \A c \in Conn : ~cn'[c].live \/ Likewise(cn[c], cn'[c])
    BY <1>1 DEF HandOver, Likewise
  <2>. QED  BY <1>0, <1>1, <2>1, PatientKept DEF HandOver
<1>2. ASSUME NEW c \in Conn, (\E kind \in Kinds : Send(c, kind)) \/ SendRest(c)
                             \/ ClientRead(c) \/ HangUp(c)
      PROVE  Patient'
  <2>1. PICK t \in Record : t = cn[c]
    BY <1>0
  <2>2. t.live
    BY <1>2, <2>1 DEF Send, SendRest, ClientRead, HangUp, CanSend
  <2>3. PICK s : Client(c, s) /\ Likewise(t, s)
    <3>1. ASSUME NEW s, s.reqs = t.reqs, s.magic = t.magic, s.version = t.version,
                 s.length = t.length, s.needClose = t.needClose, s.early = t.early,
                 s.registered = t.registered, s.isblocked = t.isblocked, s.odd = t.odd
          PROVE  Likewise(t, s)
      BY <2>2, <3>1 DEF Likewise, NetOrder, Level, Refused, RefusedTwice, Hopeless
    <3>2. ASSUME NEW kind \in Kinds, Send(c, kind) PROVE \E s : Client(c, s) /\ Likewise(t, s)
      <4>1. PICK part \in BOOLEAN :
              Client(c, [t EXCEPT !.quota = @ - 1, !.reqs = Append(@, kind),
                               !.rx = @ + (IF part THEN Hdr ELSE ReqSize),
                               !.rest = part, !.odd = @ \/ kind \in HostKinds])
        BY <2>1, <3>2 DEF Send
      <4>2. PICK s : s = [t EXCEPT !.quota = @ - 1, !.reqs = Append(@, kind),
                               !.rx = @ + (IF part THEN Hdr ELSE ReqSize),
                               !.rest = part, !.odd = @ \/ kind \in HostKinds]
        OBVIOUS
      <4>3. /\ s.reqs = Append(t.reqs, kind) /\ s.magic = t.magic /\ s.version = t.version
            /\ s.length = t.length /\ s.needClose = t.needClose /\ s.early = t.early
            /\ s.registered = t.registered /\ s.isblocked = t.isblocked
            /\ s.odd = (t.odd \/ kind \in HostKinds) /\ t.odd \in BOOLEAN
        BY <4>2 DEF Record
      <4>4. t.reqs # <<>> => s.reqs # <<>> /\ s.reqs[1] = t.reqs[1]
        <5>1. t.reqs \in Seq(Kinds)
          BY DEF Record
        <5>2. t.reqs # <<>> => Len(t.reqs) # 0 /\ Len(t.reqs) \in Nat
          BY <5>1, EmptySeq, LenProperties
        <5>. QED  BY <4>3, <5>1, <5>2, AppendProperties
      <4>5. Hopeless(t) => Hopeless(s)
        BY <4>4 DEF Hopeless
      <4>6. ASSUME NetOrder(t), ~s.odd PROVE NetOrder(s)
        <5>1. kind \in Kinds \ HostKinds /\ t.reqs \in Seq(Kinds \ HostKinds)
          BY <3>2, <4>3, <4>6 DEF NetOrder
        <5>2. Append(t.reqs, kind) \in Seq(Kinds \ HostKinds)
          BY <5>1
        <5>. QED  BY <4>3, <4>6, <5>2 DEF NetOrder
      <4>7. Likewise(t, s)
        BY <2>2, <4>3, <4>5, <4>6 DEF Likewise, Level, Refused, RefusedTwice
      <4>. QED  BY <4>1, <4>2, <4>7
    <3>3. ASSUME SendRest(c) PROVE \E s : Client(c, s) /\ Likewise(t, s)
      <4>1. PICK s : s = [t EXCEPT !.rx = @ + Body, !.rest = FALSE]
        OBVIOUS
      <4>a. /\ s.reqs = t.reqs /\ s.magic = t.magic /\ s.version = t.version
            /\ s.length = t.length /\ s.needClose = t.needClose /\ s.early = t.early
            /\ s.registered = t.registered /\ s.isblocked = t.isblocked /\ s.odd = t.odd
        BY <4>1 DEF Record
      <4>2. Likewise(t, s)
        BY <3>1, <4>a
      <4>. QED  BY <2>1, <3>3, <4>1, <4>2 DEF SendRest
    <3>4. ASSUME ClientRead(c) PROVE \E s : Client(c, s) /\ Likewise(t, s)
      <4>1. PICK s : s = [t EXCEPT !.space = SendCap]
        OBVIOUS
      <4>a. /\ s.reqs = t.reqs /\ s.magic = t.magic /\ s.version = t.version
            /\ s.length = t.length /\ s.needClose = t.needClose /\ s.early = t.early
            /\ s.registered = t.registered /\ s.isblocked = t.isblocked /\ s.odd = t.odd
        BY <4>1 DEF Record
      <4>2. Likewise(t, s)
        BY <3>1, <4>a
      <4>. QED  BY <2>1, <3>4, <4>1, <4>2 DEF ClientRead
    <3>5. ASSUME HangUp(c) PROVE \E s : Client(c, s) /\ Likewise(t, s)
      <4>1. PICK s : s = [t EXCEPT !.hangup = TRUE]
        OBVIOUS
      <4>a. /\ s.reqs = t.reqs /\ s.magic = t.magic /\ s.version = t.version
            /\ s.length = t.length /\ s.needClose = t.needClose /\ s.early = t.early
            /\ s.registered = t.registered /\ s.isblocked = t.isblocked /\ s.odd = t.odd
        BY <4>1 DEF Record
      <4>2. Likewise(t, s)
        BY <3>1, <4>a
      <4>. QED  BY <2>1, <3>5, <4>1, <4>2 DEF HangUp
    <3>. QED  BY <1>2, <3>2, <3>3, <3>4, <3>5
  <2>4. cn' = [cn EXCEPT ![c] = s] /\ UNCHANGED <<roundRobinList, phase, events, index>>
    BY <2>3 DEF Client
  <2>5. \A d \in Conn : ~cn'[d].live \/ Likewise(cn[d], cn'[d])
    <3>. SUFFICES ASSUME NEW d \in Conn, cn'[d].live PROVE Likewise(cn[d], cn'[d])
      OBVIOUS
    <3>1. CASE d = c
      BY <1>0, <2>1, <2>3, <2>4, <3>1
    <3>2. CASE d # c
      <4>1. cn'[d] = cn[d]
        BY <1>0, <2>4, <3>2
      <4>. QED  BY <4>1 DEF Likewise
    <3>. QED  BY <3>1, <3>2
  <2>. QED  BY <1>0, <2>4, <2>5, PatientKept
<1>. QED  BY <1>1, <1>2 DEF Clients

(* A connection is closed, or none is affected.                            *)
LEMMA ClosePatient ==
  ASSUME WorkerInv, Patient, \A c \in Conn : ~cn'[c].live \/ cn'[c] = cn[c],
         UNCHANGED <<roundRobinList, phase, events>>, index' \in Nat, index' >= index
  PROVE  Patient'
<1>1. \A c \in Conn : ~cn'[c].live \/ Likewise(cn[c], cn'[c])
  BY DEF Likewise
<1>. QED  BY <1>1, PatientKept

LEMMA QuietPatient ==
  WorkerInv /\ Patient /\ (ReadPipe \/ BadConnect \/ Sweep \/ SweepExpired \/ UNCHANGED vars)
    => Patient'
<1>. SUFFICES ASSUME WorkerInv, Patient,
                     ReadPipe \/ BadConnect \/ Sweep \/ SweepExpired \/ UNCHANGED vars
              PROVE  Patient'
  OBVIOUS
<1>1. index \in Nat /\ cn \in [Conn -> Record] /\ \A c \in Conn : Busy(cn[c])
  BY DEF WorkerInv, TypeOK, RecordInv, Rest
<1>2. ASSUME NEW c \in Conn PROVE ~CloseConnect(cn[c]).live
  BY <1>1, CloseRest
<1>3. CASE ReadPipe \/ Sweep \/ UNCHANGED vars
  <2>1. UNCHANGED <<cn, roundRobinList, phase, events, index>>
    BY <1>3 DEF ReadPipe, Sweep, vars
  <2>. QED  BY <1>1, <2>1, ClosePatient
<1>4. CASE BadConnect
  <2>1. PICK c \in Conn : c = Current.ptr
    BY <1>4, CurrentType DEF BadConnect, WorkerInv
  <2>2. /\ cn' = [cn EXCEPT ![c] = CloseConnect(cn[c])] /\ index' = index + 1
        /\ UNCHANGED <<roundRobinList, phase, events>>
    BY <1>4, <2>1 DEF BadConnect, Update, MoreEvents
  <2>3. \A d \in Conn : ~cn'[d].live \/ cn'[d] = cn[d]
    BY <1>1, <1>2, <2>2
  <2>. QED  BY <1>1, <2>2, <2>3, ClosePatient
<1>5. CASE SweepExpired
  <2>1. iter \in Conn
    BY <1>5 DEF SweepExpired, WorkerInv, TypeOK, Node
  <2>2. /\ cn' = [cn EXCEPT ![iter] = CloseConnect(cn[iter])]
        /\ UNCHANGED <<roundRobinList, phase, events, index>>
    BY <1>5 DEF SweepExpired
  <2>3. \A d \in Conn : ~cn'[d].live \/ cn'[d] = cn[d]
    BY <1>1, <1>2, <2>1, <2>2
  <2>. QED  BY <1>1, <2>2, <2>3, ClosePatient
<1>. QED  BY <1>3, <1>4, <1>5

(* The worker goes on to its next phase.                                   *)
LEMMA PhasePatient ==
  WorkerInv /\ RespInv /\ Patient /\ (Poll \/ EventsDone \/ RoundRobinDone \/ SweepDone) => Patient'
<1>. SUFFICES ASSUME WorkerInv, RespInv, Patient,
                     Poll \/ EventsDone \/ RoundRobinDone \/ SweepDone
              PROVE  Patient'
  OBVIOUS
<1>1. UNCHANGED <<cn, roundRobinList>>
  BY DEF Poll, EventsDone, RoundRobinDone, SweepDone
<1>2. ~(phase = "rr" /\ Stuck(roundRobinList))
  BY NodeAssumption DEF Poll, EventsDone, RoundRobinDone, SweepDone, MoreEvents, Stuck,
     dmbListIsEmpty
<1>3. ASSUME NEW k \in DOMAIN events', NEW c \in Conn, events'[k].ptr = c, ~cn[c].registered,
             k >= index'
      PROVE  k = 1 /\ index' = 1 /\ (k \in DOMAIN events /\ events[k].ptr = c /\ k >= index)
  <2>1. CASE Poll
    <3>1. PICK b \in Orders(IF pending = 0 THEN ready \ {NULL} ELSE ready) :
            events' = [j \in DOMAIN b |-> EventOf(b[j])]
      BY <2>1 DEF Poll
    <3>2. k \in DOMAIN b /\ events'[k] = EventOf(b[k]) /\ b[k] \in ready
      <4>1. k \in DOMAIN b /\ events'[k] = EventOf(b[k])
        BY <1>3, <3>1
      <4>2. b[k] \in (IF pending = 0 THEN ready \ {NULL} ELSE ready)
        BY <3>1, <4>1 DEF Orders
      <4>. QED  BY <4>1, <4>2
    <3>3. b[k] = c
      BY <1>3, <3>2, NodeAssumption DEF EventOf
    <3>. QED  BY <1>3, <3>2, <3>3 DEF RespInv, EventsInv
  <2>2. CASE ~Poll
    <3>1. DOMAIN events' = {}
      BY <2>2 DEF EventsDone, RoundRobinDone, SweepDone, RespInv, EventsInv
    <3>. QED  BY <1>3, <3>1
  <2>. QED  BY <2>1, <2>2
<1>4. \A c \in Conn : Patience(c, cn[c])
  BY <1>2 DEF Patient
<1>5. ASSUME NEW c \in Conn PROVE Patience(c, cn[c])'
  <2>1. Members(roundRobinList') = Members(roundRobinList) /\ cn'[c] = cn[c]
    BY <1>1
  <2>2. ASSUME NEW k \in DOMAIN events', k >= index', events'[k].ptr = c, ~cn'[c].registered,
               cn'[c].live, ~cn'[c].odd, ~cn'[c].early
        PROVE  k = 1 /\ index' = 1 /\ Refused(cn'[c])
    BY <1>3, <1>4, <2>1, <2>2 DEF Patience
  <2>. QED  BY <1>4, <2>1, <2>2 DEF Patience
<1>. QED  BY <1>5 DEF Patient

LEMMA NewConnectPatient == WorkerInv /\ Patient /\ NewConnect => Patient'
<1>. SUFFICES ASSUME WorkerInv, Patient, NewConnect PROVE Patient'
  OBVIOUS
<1>1. /\ idleConnList \in Seq(Conn) /\ taken \in Nat /\ taken > 0
      /\ pending \in Nat /\ pending + taken <= Len(idleConnList)
      /\ \A d \in Conn : Contains(idleConnList, d) => ~cn[d].live
      /\ cn \in [Conn -> Record] /\ index \in Nat
  BY DEF WorkerInv, TypeOK, IdleInv, NewConnect
<1>2. Len(idleConnList) \in Nat /\ Len(idleConnList) > 0
  BY <1>1, LenProperties
<1>3. idleConnList # <<>>
  BY <1>1, <1>2, EmptySeq
<1>4. PICK c \in Conn : c = Head(idleConnList)
  BY <1>1, <1>3, TailFacts
<1>5. Contains(idleConnList, c)
  BY <1>1, <1>2, <1>3, <1>4, HeadTailProperties DEF Contains
<1>6. PICK t \in Record : t = cn[c] /\ ~t.live /\ Blank(t)
  BY <1>1, <1>5 DEF WorkerInv, RecordInv, Rest, Busy
<1>7. PICK s : s = Opened(t)
  OBVIOUS
<1>8. s.registered /\ ~s.needClose /\ s.magic = FALSE /\ s.version = FALSE /\ s.length = FALSE
      /\ ~s.odd /\ s.reqs = <<>>
  BY <1>6, <1>7 DEF Opened, Blank, Record
<1>9. /\ cn' = [cn EXCEPT ![c] = s] /\ index' = (IF taken = 1 THEN index + 1 ELSE index)
      /\ UNCHANGED <<roundRobinList, phase, events>> /\ phase = "foreach"
  BY <1>4, <1>6, <1>7 DEF NewConnect, MoreEvents
<1>10. \A d \in Conn : Patience(d, cn[d])
  BY <1>9 DEF Patient
<1>11. ASSUME NEW d \in Conn PROVE Patience(d, cn[d])'
  <2>1. CASE d = c
    <3>1. cn'[d] = s
      BY <1>1, <1>9, <2>1
    <3>2. NetOrder(s)
      BY <1>8, EmptySeq DEF NetOrder
    <3>. QED  BY <1>8, <3>1, <3>2 DEF Patience, Level
  <2>2. CASE d # c
    <3>1. cn'[d] = cn[d] /\ Members(roundRobinList') = Members(roundRobinList)
      BY <1>1, <1>9, <2>2
    <3>2. ASSUME NEW k \in DOMAIN events, k >= index', events[k].ptr = d, ~cn[d].registered,
                 cn[d].live, ~cn[d].odd, ~cn[d].early
          PROVE  k = 1 /\ index' = 1 /\ Refused(cn[d])
      <4>1. k \in Nat /\ k >= index
        <5>1. DOMAIN events = 1 .. Len(events) /\ Len(events) \in Nat
          BY LenProperties DEF WorkerInv, TypeOK
        <5>. QED  BY <1>1, <1>9, <3>2, <5>1
      <4>2. k = 1 /\ index = 1 /\ Refused(cn[d])
        BY <1>10, <3>2, <4>1 DEF Patience
      <4>. QED  BY <1>9, <3>2, <4>2
    <3>. QED  BY <1>9, <1>10, <3>1, <3>2 DEF Patience
  <2>. QED  BY <2>1, <2>2
<1>. QED  BY <1>11 DEF Patient

(* What a handler leaves of a connection that was waited for patiently, or *)
(* whose last refusal is at most two parsings ago.                         *)
LEMMA HandlerPatient ==
  ASSUME WorkerInv, NEW c \in Conn, NEW s, NEW list, Busy(s), Sound(s), ProcessEvent(c, s, list),
         s.live /\ ~s.odd => NetOrder(s) /\ (s.needClose \/ Level(s)),
         s.live /\ ~s.odd /\ ~s.early =>
                     /\ s.registered \/ (s.needClose /\ (s.isblocked \/ RefusedTwice(s)))
                     /\ s.registered /\ s.needClose => s.isblocked /\ Refused(s)
  PROVE  \E e : /\ cn' = [cn EXCEPT ![c] = e]
                /\ e.live => e.odd = s.odd
                /\ e.live /\ ~e.odd =>
                   /\ NetOrder(e)
                   /\ e.needClose \/ Level(e)
                   /\ e.early = s.early
                   /\ ~s.early =>
                      /\ e.registered \/ e.needClose
                      /\ e.registered /\ e.needClose => e.isblocked /\ Refused(e)
                      /\ s.registered /\ e.needClose => Refused(e)
                      /\ ~s.registered => ~e.registered
                      /\ s.needClose /\ Refused(s) => RefusedTwice(e)
                      /\ \/ roundRobinList' = list
                         \/ /\ roundRobinList' = dmbListPushBack(list, Anchor, c)
                            /\ e.needClose => e.isblocked
<1>1. PICK e, w :
        /\ Update(c, e, w)
        /\ e.live => /\ s.live /\ Lasts(s, e)
                     /\ s.isblocked => e.needClose = s.needClose /\ (Refused(s) => Refused(e))
                     /\ e.registered = s.registered \/ (~e.registered /\ e.needClose)
                     /\ ~s.early /\ e.needClose /\ e.registered => e.isblocked
                     /\ \/ roundRobinList' = list
                        \/ /\ roundRobinList' = dmbListPushBack(list, Anchor, c)
                           /\ ~s.early /\ e.needClose => e.isblocked
  BY HandlerLasts
<1>2. cn' = [cn EXCEPT ![c] = e]
  BY <1>1 DEF Update
<1>3. CASE ~e.live
  BY <1>2, <1>3
<1>4. CASE e.live /\ e.odd
  BY <1>1, <1>2, <1>4 DEF Lasts
<1>5. CASE e.live /\ ~e.odd
  <2>0. s.live /\ ~s.odd /\ e.odd = s.odd /\ NetOrder(e) /\ RefusalLasts(s, e)
    BY <1>1, <1>5 DEF Lasts
  <2>1. e.needClose \/ Level(e)
    BY <1>5, <2>0 DEF RefusalLasts
  <2>2. e.early = s.early
    BY <1>1, <1>5 DEF Lasts
  <2>3. ASSUME ~s.early PROVE e.registered \/ e.needClose
    BY <1>1, <1>5, <2>0, <2>3 DEF RefusalLasts
  <2>4. ASSUME ~s.early, s.registered, e.needClose PROVE Refused(e)
    <3>1. CASE s.needClose
      BY <1>1, <1>5, <2>0, <2>4, <3>1
    <3>2. CASE ~s.needClose
      BY <1>1, <1>5, <2>0, <2>4, <3>2 DEF RefusalLasts
    <3>. QED  BY <3>1, <3>2
  <2>5. ASSUME ~s.early, e.registered, e.needClose PROVE e.isblocked /\ Refused(e)
    BY <1>1, <1>5, <2>4, <2>5
  <2>6. s.needClose /\ Refused(s) => RefusedTwice(e)
    BY <2>0 DEF RefusalLasts
  <2>. QED  BY <1>1, <1>2, <1>5, <2>0, <2>1, <2>2, <2>3, <2>4, <2>5, <2>6
<1>. QED  BY <1>3, <1>4, <1>5

LEMMA ConnEventPatient == WorkerInv /\ RespInv /\ ListsInv /\ Patient /\ ConnEvent => Patient'
<1>. SUFFICES ASSUME WorkerInv, RespInv, ListsInv, Patient, ConnEvent PROVE Patient'
  OBVIOUS
<1>1. PICK c \in Conn : c = Current.ptr
  BY CurrentType DEF ConnEvent, WorkerInv
<1>2. PICK s : /\ Busy(s) /\ Sound(s) /\ ProcessEvent(c, s, roundRobinList)
               /\ s.live = cn[c].live /\ s.magic = cn[c].magic /\ s.version = cn[c].version
               /\ s.length = cn[c].length /\ s.needClose = cn[c].needClose
               /\ s.reqs = cn[c].reqs /\ s.registered = cn[c].registered
               /\ s.isblocked = cn[c].isblocked /\ s.odd = cn[c].odd
               /\ s.early = (cn[c].early /\ (\/ cn[c].writeLength > 0 \/ cn[c].needClose
                                             \/ ~cn[c].registered))
  BY <1>1, EventSound
<1>3. /\ phase = "foreach" /\ UNCHANGED <<phase, events>> /\ index' = index + 1
      /\ index \in Nat /\ index < Len(events) /\ Len(events) \in Nat
      /\ DOMAIN events = 1 .. Len(events) /\ cn \in [Conn -> Record] /\ roundRobinList \in Heap
  BY CurrentType, LenProperties DEF ConnEvent, MoreEvents, WorkerInv, TypeOK
<1>4. PICK at \in DOMAIN events : at = (IF index = 0 THEN 1 ELSE index) /\ events[at].ptr = c
  <2>1. (IF index = 0 THEN 1 ELSE index) \in DOMAIN events
    BY <1>3
  <2>. QED  BY <1>1, <2>1 DEF Current
<1>5. \A k \in DOMAIN events : events[k].ptr = c => k = at
  BY <1>4 DEF RespInv, EventsInv
<1>6. \A d \in Conn : Patience(d, cn[d])
  BY <1>3 DEF Patient
<1>7. ~s.early /\ s.live /\ ~s.odd =>
        /\ s.registered \/ (s.needClose /\ Refused(s) /\ index = 1)
        /\ s.registered /\ s.needClose => s.isblocked /\ Refused(s)
  <2>1. CASE ~cn[c].early
    <3>1. at >= index
      BY <1>3, <1>4
    <3>2. Patience(c, cn[c])
      BY <1>6
    <3>3. cn[c].live /\ ~cn[c].odd =>
          /\ cn[c].registered \/ (cn[c].needClose /\ Refused(cn[c]) /\ index = 1)
          /\ cn[c].registered /\ cn[c].needClose => cn[c].isblocked /\ Refused(cn[c])
      BY <1>4, <2>1, <3>1, <3>2 DEF Patience
    <3>4. Refused(cn[c]) => Refused(s)
      BY <1>2 DEF Refused, Hopeless
    <3>. QED  BY <1>2, <3>3, <3>4
  <2>2. CASE cn[c].early
    BY <1>2, <2>2
  <2>. QED  BY <2>1, <2>2
<1>8. s.live /\ ~s.odd => NetOrder(s) /\ (s.needClose \/ Level(s))
  BY <1>2, <1>6 DEF Patience, NetOrder, Level
<1>9. PICK e :
        /\ cn' = [cn EXCEPT ![c] = e]
        /\ e.live => e.odd = s.odd
        /\ e.live /\ ~e.odd =>
           /\ NetOrder(e)
           /\ e.needClose \/ Level(e)
           /\ e.early = s.early
           /\ ~s.early =>
              /\ e.registered \/ e.needClose
              /\ e.registered /\ e.needClose => e.isblocked /\ Refused(e)
              /\ s.registered /\ e.needClose => Refused(e)
              /\ ~s.registered => ~e.registered
              /\ s.needClose /\ Refused(s) => RefusedTwice(e)
              /\ \/ roundRobinList' = roundRobinList
                 \/ /\ roundRobinList' = dmbListPushBack(roundRobinList, Anchor, c)
                    /\ e.needClose => e.isblocked
  <2>1. s.live /\ ~s.odd /\ ~s.early =>
          /\ s.registered \/ (s.needClose /\ (s.isblocked \/ RefusedTwice(s)))
          /\ s.registered /\ s.needClose => s.isblocked /\ Refused(s)
    BY <1>7 DEF RefusedTwice
  <2>. QED  BY <1>2, <1>8, <2>1, HandlerPatient
<1>10. Members(roundRobinList') \subseteq Members(roundRobinList) \cup {c}
  <2>1. roundRobinList' \in {roundRobinList, dmbListPushBack(roundRobinList, Anchor, c)}
    BY <1>2, EventRest
  <2>2. PICK n \in Nat : \E p : Rolled(n, p)
    BY <1>3 DEF ListsInv, RoundInv
  <2>3. PICK p : Path(roundRobinList, n, p)
    BY <2>2 DEF Rolled
  <2>4. Members(dmbListPushBack(roundRobinList, Anchor, c)) \subseteq Members(roundRobinList) \cup {c}
    BY <1>3, <2>3, PushMembers
  <2>. QED  BY <2>1, <2>4
<1>11. ASSUME NEW d \in Conn PROVE Patience(d, cn[d])'
  <2>1. CASE d = c
    <3>1. cn'[d] = e
      BY <1>3, <1>9, <2>1
    <3>2. ASSUME e.live, ~e.odd, ~e.early, ~e.registered PROVE RefusedTwice(e)
      <4>1. CASE s.registered
        <5>1. Refused(e)
          BY <1>9, <3>2, <4>1
        <5>. QED  BY <5>1 DEF RefusedTwice
      <4>2. CASE ~s.registered
        <5>1. s.live
          <6>1. PICK f, w : Update(c, f, w) /\ (f.live => s.live)
            BY <1>2, EventRest
          <6>2. cn'[c] = f
            BY <1>3, <6>1 DEF Update
          <6>. QED  BY <2>1, <3>1, <3>2, <6>1, <6>2
        <5>2. s.needClose /\ Refused(s)
          BY <1>7, <1>9, <3>2, <4>2, <5>1
        <5>. QED  BY <1>9, <3>2, <5>2
      <4>. QED  BY <4>1, <4>2
    <3>3. ASSUME e.live, ~e.odd, ~e.early, ~e.registered,
                 NEW k \in DOMAIN events, k >= index', events[k].ptr = c
          PROVE  k = 1 /\ index' = 1 /\ Refused(e)
      <4>1. k = at
        BY <1>5, <3>3
      <4>2. index = 0 /\ k = 1
        BY <1>3, <1>4, <3>3, <4>1
      <4>3. s.live
        <5>1. PICK f, w : Update(c, f, w) /\ (f.live => s.live)
          BY <1>2, EventRest
        <5>2. cn'[c] = f
          BY <1>3, <5>1 DEF Update
        <5>. QED  BY <2>1, <3>1, <3>3, <5>1, <5>2
      <4>4. s.registered
        BY <1>7, <1>9, <3>3, <4>2, <4>3
      <4>5. Refused(e)
        BY <1>9, <3>3, <4>4
      <4>. QED  BY <1>3, <4>2, <4>5
    <3>. QED  BY <1>3, <1>9, <2>1, <3>1, <3>2, <3>3 DEF Patience
  <2>2. CASE d # c
    <3>1. cn'[d] = cn[d] /\ (d \in Members(roundRobinList') => d \in Members(roundRobinList))
      BY <1>3, <1>9, <1>10, <2>2
    <3>2. ASSUME NEW k \in DOMAIN events, k >= index', events[k].ptr = d, ~cn[d].registered,
                 cn[d].live, ~cn[d].odd, ~cn[d].early
          PROVE  k = 1 /\ index' = 1 /\ Refused(cn[d])
      <4>1. k \in Nat /\ k >= index /\ k >= index + 1
        BY <1>3, <3>2
      <4>2. k = 1 /\ index = 1
        BY <1>6, <3>2, <4>1 DEF Patience
      <4>. QED  BY <4>1, <4>2
    <3>. QED  BY <1>3, <1>6, <3>1, <3>2 DEF Patience
  <2>. QED  BY <2>1, <2>2
<1>. QED  BY <1>11 DEF Patient

LEMMA RoundRobinPatient ==
  WorkerInv /\ RespInv /\ ListsInv /\ Patient /\ RoundRobin => Patient'
<1>. SUFFICES ASSUME WorkerInv, RespInv, ListsInv, Patient, RoundRobin PROVE Patient'
  OBVIOUS
<1>1. PICK M : roundRobinList \in Heap /\ Around(roundRobinList, M) /\ cn \in [Conn -> Record]
  BY DEF WorkerInv, TypeOK, ListInv
<1>2. PICK h : h = dmbListPopFront(roundRobinList, Anchor)
  OBVIOUS
<1>3. FirstNode(roundRobinList, Anchor) \in M /\ h \in Heap
  BY <1>1, <1>2, PopAround
<1>4. PICK c \in Conn : c = FirstNode(roundRobinList, Anchor)
  <2>1. FirstNode(roundRobinList, Anchor) # Anchor
    BY DEF RoundRobin, FirstNode, dmbListIsEmpty
  <2>. QED  BY <1>1, <1>3, <2>1 DEF Around, Node
<1>5. phase = "rr" /\ phase' = phase /\ UNCHANGED <<events, index>> /\ DOMAIN events = {}
  <2>1. phase = "rr" /\ UNCHANGED <<events, index, phase>>
    BY DEF RoundRobin
  <2>. QED  BY <2>1 DEF RespInv, EventsInv
<1>6. Busy(cn[c]) /\ Sound(cn[c])
  BY DEF WorkerInv, RecordInv, Rest, RespInv, SoundInv
<1>7. ProcessEvent(c, cn[c], h)
  BY <1>2, <1>4 DEF RoundRobin
<1>8. roundRobinList' \in {h, dmbListPushBack(h, Anchor, c)}
  BY <1>6, <1>7, EventRest
<1>9. CASE Stuck(roundRobinList)
  <2>1. roundRobinList.next[c] \in Node /\ c = roundRobinList.next[Anchor]
    BY <1>1, <1>3, <1>4 DEF Around, FirstNode
  <2>2. PICK k : k = dmbListPushBack(h, Anchor, c)
    OBVIOUS
  <2>3. Stuck(h) /\ Stuck(k)
    BY <1>1, <1>2, <1>9, <2>1, <2>2, StuckStays
  <2>. QED  BY <1>5, <1>8, <2>2, <2>3 DEF Patient
<1>10. CASE ~Stuck(roundRobinList)
  <2>1. \A d \in Conn : Patience(d, cn[d])
    BY <1>10 DEF Patient
  <2>2. PICK n \in Nat : \E p : Rolled(n, p)
    BY <1>10 DEF ListsInv, RoundInv
  <2>3. PICK p : Rolled(n, p)
    BY <2>2
  <2>4. Path(roundRobinList, n, p) /\ roundRobinList.prev[p[1]] = Anchor /\ c = p[1] /\ n > 0
    <3>1. 0 \in 0 .. n /\ 0 + 1 = 1
      OBVIOUS
    <3>2. c = p[1]
      BY <1>4, <2>3, <3>1 DEF Rolled, Path, FirstNode
    <3>3. n = 0 => p[1] = Anchor
      BY <2>3 DEF Rolled, Path
    <3>. QED  BY <1>5, <2>3, <3>2, <3>3, NodeAssumption DEF Rolled
  <2>5. PICK q : /\ Path(h, n - 1, q) /\ h.prev[q[1]] = Anchor
                 /\ \A i \in 1 .. n - 1 : q[i] = p[i + 1] /\ q[i] # p[1]
    <3>1. roundRobinList \in Heap
      BY <1>1
    <3>2. Popped(h, n, p)
      BY <1>2, <2>4, <3>1, PathPop
    <3>. QED  BY <3>2 DEF Popped
  <2>6. n - 1 \in Nat
    BY <2>4
  <2>7. Members(h) \subseteq Members(roundRobinList) \ {c}
    <3>1. Members(h) = {q[i] : i \in 1 .. n - 1} /\ Members(roundRobinList) = {p[i] : i \in 1 .. n}
      BY <2>4, <2>5, <2>6, PathMembers
    <3>2. \A i \in 1 .. n - 1 : i + 1 \in 1 .. n
      OBVIOUS
    <3>. QED  BY <2>4, <2>5, <3>1, <3>2
  <2>8. Members(dmbListPushBack(h, Anchor, c)) \subseteq Members(h) \cup {c}
    BY <1>3, <2>5, <2>6, PushMembers
  <2>9. c \in Members(roundRobinList)
    BY <1>4, FirstMember DEF FirstNode
  <2>10. Patience(c, cn[c])
    BY <2>1
  <2>11. cn[c].live /\ ~cn[c].odd => NetOrder(cn[c]) /\ (cn[c].needClose \/ Level(cn[c]))
    BY <2>10 DEF Patience
  <2>12. cn[c].live /\ ~cn[c].odd /\ ~cn[c].early =>
           /\ \/ cn[c].registered
              \/ cn[c].needClose /\ (cn[c].isblocked \/ RefusedTwice(cn[c]))
           /\ cn[c].registered /\ cn[c].needClose => cn[c].isblocked /\ Refused(cn[c])
    BY <2>9, <2>10 DEF Patience
  <2>13. PICK e :
           /\ cn' = [cn EXCEPT ![c] = e]
           /\ e.live => e.odd = cn[c].odd
           /\ e.live /\ ~e.odd =>
              /\ NetOrder(e)
              /\ e.needClose \/ Level(e)
              /\ e.early = cn[c].early
              /\ ~cn[c].early =>
                 /\ e.registered \/ e.needClose
                 /\ e.registered /\ e.needClose => e.isblocked /\ Refused(e)
                 /\ cn[c].registered /\ e.needClose => Refused(e)
                 /\ ~cn[c].registered => ~e.registered
                 /\ cn[c].needClose /\ Refused(cn[c]) => RefusedTwice(e)
                 /\ \/ roundRobinList' = h
                    \/ /\ roundRobinList' = dmbListPushBack(h, Anchor, c)
                       /\ e.needClose => e.isblocked
    BY <1>6, <1>7, <2>11, <2>12, HandlerPatient
  <2>14. ASSUME NEW d \in Conn PROVE Patience(d, cn[d])'
    <3>1. CASE d = c
      <4>1. cn'[d] = e
        BY <1>1, <2>13, <3>1
      <4>2. e.live /\ ~e.odd /\ ~e.early /\ ~e.registered /\ ~e.isblocked => d \notin Members(roundRobinList')
        BY <2>7, <2>13, <3>1
      <4>. QED  BY <1>5, <2>13, <4>1, <4>2 DEF Patience
    <3>2. CASE d # c
      <4>1. cn'[d] = cn[d] /\ (d \in Members(roundRobinList') => d \in Members(roundRobinList))
        BY <1>1, <1>8, <2>7, <2>8, <2>13, <3>2
      <4>. QED  BY <1>5, <2>1, <4>1 DEF Patience
    <3>. QED  BY <3>1, <3>2
  <2>. QED  BY <2>14 DEF Patient
<1>. QED  BY <1>9, <1>10

(* A worker that waits for events waits for every connection that was not  *)
(* refused, unless its record was opened early or its client has sent a    *)
(* field in host byte order; and one that could not be written waits for   *)
(* the edge it will get.  A refused connection that is handled again       *)
(* before the worker waits is parsed at most twice.  When its client sends *)
(* network order, each parsing finds a field of its header turned the      *)
(* wrong way, and it stays refused; a field sent in host order would be    *)
(* right the second time.                                                  *)
THEOREM ForgottenRefused == Spec => []BlockedWaits
<1>1. Init => Patient
  BY InitPatient
<1>2. Listed /\ Patient /\ [Next]_vars => Patient'
  BY ClientsPatient, QuietPatient, PhasePatient, NewConnectPatient, ConnEventPatient,
     RoundRobinPatient DEF Listed, Next, WorkThread
<1>3. Listed /\ Patient => BlockedWaits
  BY DEF Listed, WorkerInv, RecordInv, Rest, Patient, Patience, BlockedWaits
<1>. QED  BY <1>1, <1>2, <1>3, ListsCorrect, PTL DEF Spec

================================================================================
