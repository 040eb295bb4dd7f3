--------------------------- MODULE DmbProtocolProofs ---------------------------
(***************************************************************************)
(* Theorems about a worker's connections, for any number of records, any   *)
(* buffer sizes and any requests: every variable has its type, and an idle *)
(* record is blank.  And a worker never has more than one response in a    *)
(* writeBuf, except in the records that are opened early.                  *)
(***************************************************************************)
EXTENDS DmbProtocol, FiniteSetTheorems, SequenceTheorems, TLAPS

(* What is left in a record whose connection is closed: nothing but        *)
(* canRead and canWrite, which a late event may have set.                  *)
Blank(s) ==
  /\ ~s.isblocked /\ ~s.magic /\ ~s.version /\ ~s.length /\ ~s.needClose /\ ~s.timeout
  /\ ~s.early /\ ~s.odd /\ ~s.registered /\ ~s.hangup /\ ~s.rest
  /\ s.readLength = 0 /\ s.writeIndex = 0 /\ s.writeLength = 0 /\ s.rx = 0
  /\ s.space = SendCap /\ s.reqs = <<>> /\ s.quota = 0

(* The bytes on their way to processData are those of whole requests.      *)
Account(s) ==
  s.readLength + s.rx + (IF s.rest THEN Body ELSE 0) = ReqSize * Len(s.reqs)

(* What holds of a record also while dmbProcessEvent is at work on it, and *)
(* what holds of it before and after.                                      *)
Busy(s) ==
  /\ s \in Record
  /\ Account(s)
  /\ s.isblocked => s.writeLength > 0
  /\ ~s.live => Blank(s)

Rest(s) == Busy(s) /\ (s.isblocked => ~s.canWrite)

Contains(s, x) == \E k \in DOMAIN s : s[k] = x
Distinct(s)    == \A j, k \in DOMAIN s : s[j] = s[k] => j = k

(* The idle records are closed, and there are enough of them.  Only the    *)
(* loop over events has an index.                                          *)
IdleInv ==
  /\ Distinct(idleConnList)
  /\ \A c \in Conn : Contains(idleConnList, c) => ~cn[c].live
  /\ pending + taken <= Len(idleConnList)
  /\ phase # "foreach" => index = 0

(* The timeout list is a doubly linked ring through Anchor: pos numbers    *)
(* its nodes in their order.                                               *)
Ordered(h, pos) ==
  /\ pos[Anchor] = 0 /\ h.next[Anchor] # NULL
  /\ \A n \in Node : h.next[n] # NULL =>
       /\ h.next[n] \in Node /\ h.next[h.next[n]] # NULL /\ h.prev[h.next[n]] = n
       /\ h.prev[n] \in Node /\ h.next[h.prev[n]] = n
       /\ h.next[n] # Anchor => pos[n] < pos[h.next[n]]

Linked(h) == \E pos \in [Node -> Nat] : Ordered(h, pos)

(* A set of nodes that following pointers does not leave.                  *)
Around(h, M) ==
  /\ M \subseteq Node /\ Anchor \in M
  /\ \A n \in M : h.next[n] \in M /\ h.prev[n] \in M

ListInv ==
  /\ Linked(timeoutConnList)
  /\ phase = "sweep" => timeoutConnList.next[iter] # NULL
  /\ \E M : Around(roundRobinList, M)

RecordInv == \A c \in Conn : Rest(cn[c])

WorkerInv == TypeOK /\ RecordInv /\ IdleInv /\ ListInv

-----------------------------------------------------------------------------
(* What readData, processData and writeData make of a record.              *)

LEMMA SizeFacts ==
  /\ ReqSize \in Nat /\ ReqSize > 0 /\ ReqSize <= ReadBuf
  /\ \A n \in Nat : ReqSize * (n + 1) = ReqSize * n + ReqSize
  /\ ReqSize * 0 = 0
BY BufferAssumption, SMT DEF ReqSize

LEMMA ClosedRest == Closed \in Record /\ Rest(Closed)
<1>1. Closed \in Record
  BY BufferAssumption DEF Closed, Record
<1>2. Blank(Closed) /\ ~Closed.live /\ ~Closed.isblocked
  BY DEF Closed, Blank
<1>3. Account(Closed)
  BY SizeFacts DEF Closed, Account
<1>. QED  BY <1>1, <1>2, <1>3 DEF Rest, Busy

LEMMA CloseRest ==
  ASSUME NEW s, Busy(s)
  PROVE  Rest(CloseConnect(s)) /\ ~CloseConnect(s).live
<1>1. CASE s.live
  <2>1. CloseConnect(s) = Closed
    BY <1>1 DEF CloseConnect
  <2>. QED  BY <2>1, ClosedRest DEF Closed
<1>2. CASE ~s.live
  BY <1>2 DEF CloseConnect, Rest, Busy, Blank
<1>. QED  BY <1>1, <1>2

LEMMA LesserFacts ==
  ASSUME NEW a \in Nat, NEW b \in Nat
  PROVE  Lesser(a, b) \in Nat /\ Lesser(a, b) <= a /\ Lesser(a, b) <= b
BY DEF Lesser

(* k units move from the kernel to readBuf.                                *)
Received(s, k) == [s EXCEPT !.rx = @ - k, !.readLength = @ + k]

LEMMA ReceivedBusy ==
  ASSUME NEW s, Busy(s), s.live, NEW k \in Nat, k <= s.rx
  PROVE  Busy(Received(s, k)) /\ Received(s, k).live
<1>. s \in Record
  BY DEF Busy
<1>1. Received(s, k) \in Record
  <2>1. PICK a \in Nat, b \in Nat : a = s.rx - k /\ b = s.readLength + k
    BY DEF Record
  <2>2. Received(s, k) = [s EXCEPT !.rx = a, !.readLength = b]
    BY <2>1 DEF Received
  <2>. QED  BY <2>2 DEF Record
<1>2. Account(Received(s, k))
  BY DEF Busy, Account, Record, Received
<1>3. /\ Received(s, k).isblocked = s.isblocked /\ Received(s, k).writeLength = s.writeLength
      /\ Received(s, k).live = s.live /\ Received(s, k).registered = s.registered
      /\ Received(s, k).needClose = s.needClose
  BY DEF Received, Record
<1>. QED  BY <1>1, <1>2, <1>3 DEF Busy

LEMMA FlagsBusy ==
  ASSUME NEW s, Busy(s), s.live, NEW x \in BOOLEAN, NEW y \in BOOLEAN
  PROVE  LET t == [s EXCEPT !.canRead = x, !.timeout = y]
         IN  Busy(t) /\ t.live
<1>. DEFINE t == [s EXCEPT !.canRead = x, !.timeout = y]
<1>. s \in Record
  BY DEF Busy
<1>1. t \in Record
  BY DEF Record
<1>2. Account(t)
  BY DEF Busy, Account, Record
<1>3. t.isblocked = s.isblocked /\ t.writeLength = s.writeLength /\ t.live = s.live
      /\ t.registered = s.registered /\ t.needClose = s.needClose
  BY DEF Record
<1>. QED  BY <1>1, <1>2, <1>3 DEF Busy

(* A read leaves the record as it should be, or closed.                    *)
LEMMA ReadBusy ==
  ASSUME NEW s, Busy(s), NEW r \in ReadData(s)
  PROVE  /\ Busy(r.s) /\ (r.s.live => s.live)
         /\ r.code \in {"ERROR", "CLOSED"} => Rest(r.s) /\ ~r.s.live
<1>. s \in Record
  BY DEF Busy
<1>0. PICK k : k = Lesser(s.rx, ReadBuf - s.readLength)
  OBVIOUS
<1>1. CASE ~s.canRead
  BY <1>1 DEF ReadData, Result
<1>2. CASE s.canRead /\ ReadBuf <= s.readLength
  <2>1. r = Watched(s, "OK")
    BY <1>2 DEF ReadData
  <2>2. s.readLength # 0
    BY <1>2, BufferAssumption DEF Record
  <2>3. s.live
    BY <2>2 DEF Busy, Blank
  <2>4. [s EXCEPT !.timeout = TRUE] = [s EXCEPT !.canRead = s.canRead, !.timeout = TRUE]
    BY DEF Record
  <2>5. Busy([s EXCEPT !.timeout = TRUE])
    BY <2>3, <2>4, FlagsBusy, ZenonT(40) DEF Record
  <2>. QED  BY <2>1, <2>3, <2>5 DEF Watched
<1>3. CASE r = Result(CloseConnect(s), "ERROR")
  BY <1>3, CloseRest DEF Result, Rest
<1>4. CASE /\ s.canRead /\ ~(ReadBuf <= s.readLength) /\ s.live
           /\ r # Result(CloseConnect(s), "ERROR")
  <2>1. k \in Nat /\ k <= s.rx
    <3>1. s.rx \in Nat /\ ReadBuf - s.readLength \in Nat
      BY <1>4, BufferAssumption DEF Record
    <3>. QED  BY <1>0, <3>1, LesserFacts
  <2>2. PICK g : g = Received(s, k)
    OBVIOUS
  <2>3. Busy(g) /\ g.live
    BY <1>4, <2>1, <2>2, ReceivedBusy
  <2>4. r = Result(g, "OK") \/ r = ReadNothing(g)
    BY <1>0, <1>4, <2>2 DEF ReadData, Received
  <2>5. CASE r = Result(g, "OK")
    BY <1>4, <2>3, <2>5 DEF Result
  <2>6. CASE r = Result(CloseConnect(g), "CLOSED")
    BY <2>3, <2>6, CloseRest DEF Result, Rest
  <2>7. CASE r = Watched([g EXCEPT !.canRead = FALSE], "AGAIN")
    <3>1. r.s = [g EXCEPT !.canRead = FALSE, !.timeout = TRUE] /\ r.code = "AGAIN"
      BY <2>7 DEF Watched
    <3>. QED  BY <1>4, <2>3, <3>1, FlagsBusy
  <2>. QED  BY <2>4, <2>5, <2>6, <2>7 DEF ReadNothing
<1>. QED  BY <1>1, <1>2, <1>3, <1>4 DEF ReadData

(* Parsing changes nothing but what the header's fields look like, and     *)
(* there is a request to parse.                                            *)
LEMMA ParseBusy ==
  ASSUME NEW s, Busy(s), s.readLength >= Hdr
  PROVE  /\ s.live /\ Len(s.reqs) > 0
         /\ Busy(ParsePkgHeader(s).s)
         /\ \E x, y, z \in BOOLEAN :
              ParsePkgHeader(s).s = [s EXCEPT !.magic = x, !.version = y, !.length = z]
<1>. s \in Record
  BY DEF Busy
<1>1. s.readLength > 0
  BY BufferAssumption DEF Record
<1>2. s.live
  BY <1>1 DEF Busy, Blank
<1>3. Len(s.reqs) > 0
  <2>1. Len(s.reqs) \in Nat
    BY LenProperties DEF Record
  <2>2. Len(s.reqs) # 0
    BY <1>1, SizeFacts, BufferAssumption DEF Busy, Account, Record
  <2>. QED  BY <2>1, <2>2
<1>4. \E x, y, z \in BOOLEAN :
        ParsePkgHeader(s).s = [s EXCEPT !.magic = x, !.version = y, !.length = z]
  <2>. DEFINE m == [s EXCEPT !.magic = ~@]
              v == [m EXCEPT !.version = ~@]
              l == [v EXCEPT !.length = ~@]
  <2>1. m = [s EXCEPT !.magic = ~s.magic, !.version = s.version, !.length = s.length]
    BY DEF Record
  <2>2. v = [s EXCEPT !.magic = ~s.magic, !.version = ~s.version, !.length = s.length]
    BY DEF Record
  <2>3. l = [s EXCEPT !.magic = ~s.magic, !.version = ~s.version, !.length = ~s.length]
    BY DEF Record
  <2>4. ParsePkgHeader(s).s \in {m, v, l}
    BY DEF ParsePkgHeader, Result
  <2>5. s.magic \in BOOLEAN /\ s.version \in BOOLEAN /\ s.length \in BOOLEAN
    BY DEF Record
  <2>. HIDE DEF m, v, l
  <2>. QED  BY <2>1, <2>2, <2>3, <2>4, <2>5
<1>5. ASSUME NEW x \in BOOLEAN, NEW y \in BOOLEAN, NEW z \in BOOLEAN
      PROVE  Busy([s EXCEPT !.magic = x, !.version = y, !.length = z])
  <2>. DEFINE p == [s EXCEPT !.magic = x, !.version = y, !.length = z]
  <2>1. p \in Record
    BY DEF Record
  <2>2. /\ p.live = s.live /\ p.isblocked = s.isblocked /\ p.writeLength = s.writeLength
        /\ p.readLength = s.readLength /\ p.rx = s.rx /\ p.rest = s.rest /\ p.reqs = s.reqs
    BY DEF Record
  <2>. HIDE DEF p
  <2>3. Account(p) /\ (p.isblocked => p.writeLength > 0) /\ p.live
    BY <1>2, <2>2 DEF Busy, Account
  <2>4. Busy(p)
    BY <2>1, <2>3 DEF Busy
  <2>. QED  BY <2>4 DEF p
<1>. QED  BY <1>2, <1>3, <1>4, <1>5

(* A response is put into writeBuf.                                        *)
LEMMA ResponseBusy ==
  ASSUME NEW s, Busy(s), s.live, ~s.isblocked, NEW x \in BOOLEAN,
         NEW a \in Nat, NEW b \in Nat, NEW t,
         t = [s EXCEPT !.needClose = x, !.writeIndex = a, !.writeLength = b]
  PROVE  Busy(t) /\ t.live /\ ~t.isblocked
BY DEF Busy, Account, Record

LEMMA MakeBusy ==
  ASSUME NEW s, Busy(s), s.live, ~s.isblocked, NEW code
  PROVE  /\ Busy(MakeErrorResponse(s)) /\ ~MakeErrorResponse(s).isblocked
         /\ MakeErrorResponse(s).live
         /\ Busy(MakeResponseWithData(s, code)) /\ MakeResponseWithData(s, code).live
         /\ ~MakeResponseWithData(s, code).isblocked
         /\ MakeResponseWithData(s, code).readLength = s.readLength
         /\ MakeResponseWithData(s, code).reqs = s.reqs
<1>. s \in Record
  BY DEF Busy
<1>1. PICK a \in Nat, b \in Nat : a = s.writeLength + Hdr /\ b = s.writeLength + ReqSize
  BY BufferAssumption, SizeFacts DEF Record
<1>2. MakeErrorResponse(s) = [s EXCEPT !.needClose = TRUE, !.writeIndex = 0, !.writeLength = a]
  BY <1>1 DEF MakeErrorResponse
<1>3. MakeResponseWithData(s, code) \in
        {[s EXCEPT !.needClose = TRUE, !.writeIndex = 0, !.writeLength = a],
         [s EXCEPT !.needClose = (code # "OK"), !.writeIndex = s.writeIndex, !.writeLength = b]}
  BY <1>1 DEF MakeResponseWithData, Record
<1>4. s.writeIndex \in Nat
  BY DEF Record
<1>5. Busy(MakeErrorResponse(s)) /\ ~MakeErrorResponse(s).isblocked /\ MakeErrorResponse(s).live
  <2>1. 0 \in Nat
    OBVIOUS
  <2>2. PICK t : t = MakeErrorResponse(s)
    OBVIOUS
  <2>3. Busy(t) /\ t.live /\ ~t.isblocked
    BY <1>2, <2>1, <2>2, ResponseBusy
  <2>. QED  BY <2>2, <2>3
<1>6. /\ Busy(MakeResponseWithData(s, code)) /\ MakeResponseWithData(s, code).live
      /\ ~MakeResponseWithData(s, code).isblocked
  <2>1. 0 \in Nat /\ (code # "OK") \in BOOLEAN
    OBVIOUS
  <2>2. PICK t : t = MakeResponseWithData(s, code)
    OBVIOUS
  <2>3. CASE t = [s EXCEPT !.needClose = TRUE, !.writeIndex = 0, !.writeLength = a]
    BY <2>1, <2>2, <2>3, ResponseBusy
  <2>4. CASE t = [s EXCEPT !.needClose = (code # "OK"), !.writeIndex = s.writeIndex,
                           !.writeLength = b]
    <3>1. PICK x \in BOOLEAN : x = (code # "OK")
      OBVIOUS
    <3>2. t = [s EXCEPT !.needClose = x, !.writeIndex = s.writeIndex, !.writeLength = b]
      BY <2>4, <3>1
    <3>3. Busy(t) /\ t.live /\ ~t.isblocked
      BY <1>4, <3>2, ResponseBusy
    <3>. QED  BY <2>2, <3>3
  <2>. QED  BY <1>3, <2>2, <2>3, <2>4
<1>7. /\ MakeResponseWithData(s, code).readLength = s.readLength
      /\ MakeResponseWithData(s, code).reqs = s.reqs
  BY <1>3 DEF Record
<1>. QED  BY <1>5, <1>6, <1>7

(* The request is taken from readBuf.                                      *)
LEMMA ConsumeBusy ==
  ASSUME NEW s, Busy(s), s.live, ~s.isblocked, ReqSize <= s.readLength, Len(s.reqs) > 0
  PROVE  LET t == [s EXCEPT !.readLength = @ - ReqSize, !.reqs = Tail(@),
                            !.magic = FALSE, !.version = FALSE, !.length = FALSE]
         IN  Busy(t) /\ t.live /\ ~t.isblocked
<1>. s \in Record
  BY DEF Busy
<1>a. s.readLength - ReqSize \in Nat
  BY SizeFacts DEF Record
<1>b. s.reqs \in Seq(Kinds) /\ s.reqs # <<>>
  BY EmptySeq DEF Record
<1>c. Tail(s.reqs) \in Seq(Kinds) /\ Len(Tail(s.reqs)) = Len(s.reqs) - 1
  BY <1>b, HeadTailProperties
<1>1. PICK n \in Nat, q \in Seq(Kinds) : n = s.readLength - ReqSize /\ q = Tail(s.reqs)
  BY <1>a, <1>c
<1>2. PICK t : t = [s EXCEPT !.readLength = n, !.reqs = q, !.magic = FALSE,
                             !.version = FALSE, !.length = FALSE]
  OBVIOUS
<1>3. t \in Record
  BY <1>2 DEF Record
<1>4. /\ t.live = s.live /\ t.isblocked = s.isblocked /\ t.rx = s.rx /\ t.rest = s.rest
      /\ t.readLength = n /\ t.reqs = q
  BY <1>2 DEF Record
<1>5. Account(t)
  <2>1. PICK m \in Nat : Len(q) = m /\ Len(s.reqs) = m + 1
    <3>1. Len(q) \in Nat /\ Len(s.reqs) \in Nat
      BY <1>b, LenProperties
    <3>2. Len(q) = Len(s.reqs) - 1
      BY <1>1, <1>c
    <3>3. Len(s.reqs) = Len(q) + 1
      BY <3>1, <3>2
    <3>. QED  BY <3>1, <3>3
  <2>2. ReqSize * Len(s.reqs) = ReqSize * Len(q) + ReqSize
    BY <2>1, SizeFacts
  <2>3. ReqSize * Len(s.reqs) \in Int /\ ReqSize * Len(q) \in Int
    BY <2>1, SizeFacts
  <2>4. /\ s.readLength \in Nat /\ s.rx \in Nat /\ Body \in Nat /\ ReqSize \in Nat
        /\ s.readLength + s.rx + (IF s.rest THEN Body ELSE 0) = ReqSize * Len(s.reqs)
    BY SizeFacts, BufferAssumption DEF Busy, Account, Record
  <2>5. PICK u \in Int, v \in Int : u = ReqSize * Len(s.reqs) /\ v = ReqSize * Len(q)
    BY <2>3
  <2>6. PICK w \in Nat : w = IF s.rest THEN Body ELSE 0
    BY <2>4
  <2>7. u = v + ReqSize /\ s.readLength + s.rx + w = u
    BY <2>2, <2>4, <2>5, <2>6
  <2>8. n + s.rx + w = v
    <3>1. PICK a \in Int, b \in Int, e \in Int : a = s.readLength /\ b = s.rx /\ e = ReqSize
      BY <2>4
    <3>2. n = a - e /\ a + b + w = v + e
      BY <1>1, <2>7, <3>1
    <3>3. n + b + w = v
      BY <3>2
    <3>. QED  BY <3>1, <3>3
  <2>. QED  BY <1>4, <2>5, <2>6, <2>8 DEF Account
<1>. QED  BY <1>1, <1>2, <1>3, <1>4, <1>5 DEF Busy

LEMMA ProcessBusy ==
  ASSUME NEW s, Busy(s), ~s.isblocked
  PROVE  LET d == ProcessData(s)
         IN  Busy(d.s) /\ ~d.s.isblocked /\ d.s.live = s.live
<1>. s \in Record
  BY DEF Busy
<1>1. CASE s.readLength < Hdr
  BY <1>1 DEF ProcessData, Result
<1>2. CASE ~(s.readLength < Hdr)
  <2>1. s.readLength >= Hdr
    BY <1>2, BufferAssumption DEF Record
  <2>2. PICK p : p = ParsePkgHeader(s)
    OBVIOUS
  <2>3. /\ s.live /\ Len(s.reqs) > 0 /\ Busy(p.s)
        /\ \E x, y, z \in BOOLEAN :
             p.s = [s EXCEPT !.magic = x, !.version = y, !.length = z]
    BY <2>1, <2>2, ParseBusy
  <2>4. /\ p.s.live = s.live /\ p.s.isblocked = s.isblocked
        /\ p.s.readLength = s.readLength /\ p.s.reqs = s.reqs
    <3>1. PICK x, y, z \in BOOLEAN :
            p.s = [s EXCEPT !.magic = x, !.version = y, !.length = z]
      BY <2>3
    <3>. QED  BY <3>1 DEF Record
  <2>5. PICK e : e = MakeErrorResponse(p.s)
    OBVIOUS
  <2>6. PICK g : g = MakeResponseWithData(p.s, "OUT_OF_READBUF")
    OBVIOUS
  <2>7. PICK h : h = MakeResponseWithData(p.s, "OK")
    OBVIOUS
  <2>8. Busy(e) /\ ~e.isblocked /\ e.live /\ Busy(g) /\ ~g.isblocked /\ g.live
    BY <2>3, <2>4, <2>5, <2>6, MakeBusy
  <2>9. Busy(h) /\ ~h.isblocked /\ h.live /\ h.readLength = s.readLength /\ h.reqs = s.reqs
    BY <2>3, <2>4, <2>7, MakeBusy, ZenonT(40)
  <2>10. PICK t : t = [h EXCEPT !.readLength = @ - ReqSize, !.reqs = Tail(@),
                                !.magic = FALSE, !.version = FALSE, !.length = FALSE]
    OBVIOUS
  <2>11. ReqSize <= s.readLength => Busy(t) /\ t.live /\ ~t.isblocked
    BY <2>3, <2>9, <2>10, ConsumeBusy
  <2>12. \/ ProcessData(s).s \in {e, g, p.s}
         \/ ReqSize <= s.readLength /\ ProcessData(s).s = t
    BY <1>2, <2>2, <2>5, <2>6, <2>7, <2>10 DEF ProcessData, Result
  <2>13. s.live \in BOOLEAN /\ e.live \in BOOLEAN /\ g.live \in BOOLEAN
    BY <2>8 DEF Busy, Record
  <2>14. ReqSize <= s.readLength => t.live \in BOOLEAN
    BY <2>11 DEF Busy, Record
  <2>. QED  BY <2>3, <2>4, <2>8, <2>11, <2>12, <2>13, <2>14
<1>. QED  BY <1>1, <1>2

(* Forgetting a record's descriptor.                                       *)
LEMMA ForgetRest ==
  ASSUME NEW s, Rest(s)
  PROVE  LET t == [s EXCEPT !.registered = FALSE]
         IN  Rest(t) /\ t.live = s.live
<1>. s \in Record
  BY DEF Rest, Busy
<1>1. PICK t : t = [s EXCEPT !.registered = FALSE]
  OBVIOUS
<1>2. t \in Record
  BY <1>1 DEF Record
<1>3. Account(t)
  BY <1>1 DEF Rest, Busy, Account, Record
<1>4. t.live = s.live /\ t.isblocked = s.isblocked /\ t.writeLength = s.writeLength
      /\ t.canWrite = s.canWrite
  BY <1>1 DEF Record
<1>5. Blank(s) => Blank(t)
  BY <1>1 DEF Blank, Record
<1>. QED  BY <1>1, <1>2, <1>3, <1>4, <1>5 DEF Rest, Busy

(* A write leaves nothing to write, or waits for an edge.                  *)
LEMMA WriteRest ==
  ASSUME NEW s, Busy(s), NEW t \in WriteData(s)
  PROVE  Rest(t.s) /\ (t.s.live => s.live)
<1>. s \in Record
  BY DEF Busy
<1>1. CASE s.writeLength = 0
  <2>1. t.s = s /\ ~s.isblocked
    BY <1>1 DEF WriteData, Result, Busy
  <2>. QED  BY <2>1 DEF Rest
<1>2. CASE s.writeLength # 0 /\ ~s.canWrite
  <2>1. t.s = s
    BY <1>2 DEF WriteData, Result
  <2>. QED  BY <1>2, <2>1 DEF Rest
<1>3. CASE t = Result(CloseConnect(s), "ERROR")
  BY <1>3, CloseRest DEF Result
<1>4. CASE s.writeLength # 0 /\ s.canWrite /\ t # Result(CloseConnect(s), "ERROR")
  <2>1. PICK k : k = Lesser(s.space, s.writeLength)
    OBVIOUS
  <2>2. k \in Nat /\ k <= s.space /\ k <= s.writeLength
    BY <2>1, LesserFacts DEF Record
  <2>3. PICK a \in Nat, i \in Nat, b \in Nat :
          a = s.space - k /\ i = s.writeIndex + k /\ b = s.writeLength - k
    BY <2>2 DEF Record
  <2>4. PICK g : g = [s EXCEPT !.space = a, !.writeIndex = i, !.writeLength = b]
    OBVIOUS
  <2>5. g = [s EXCEPT !.space = @ - k, !.writeIndex = @ + k, !.writeLength = @ - k]
    BY <2>3, <2>4
  <2>6. t = IF g.writeLength = 0
            THEN Result([g EXCEPT !.isblocked = FALSE, !.writeIndex = 0], "OK")
            ELSE Watched([g EXCEPT !.canWrite = FALSE, !.isblocked = TRUE], "AGAIN")
    BY <1>4, <2>1, <2>5 DEF WriteData
  <2>7. g.writeLength = b
    BY <2>4 DEF Record
  <2>8. s.live
    BY <1>4 DEF Busy, Blank
  <2>9. CASE b = 0
    <3>1. t.s = [g EXCEPT !.isblocked = FALSE, !.writeIndex = 0]
      BY <2>6, <2>7, <2>9 DEF Result
    <3>2. t.s = [s EXCEPT !.space = a, !.writeIndex = 0, !.writeLength = b, !.isblocked = FALSE]
      BY <2>4, <3>1 DEF Record
    <3>3. PICK e : e = t.s
      OBVIOUS
    <3>4. e = [s EXCEPT !.space = a, !.writeIndex = 0, !.writeLength = b, !.isblocked = FALSE]
      BY <3>2, <3>3
    <3>5. e \in Record
      BY <3>4 DEF Record
    <3>6. ~e.isblocked /\ e.live = s.live /\ e.readLength = s.readLength
          /\ e.rx = s.rx /\ e.rest = s.rest /\ e.reqs = s.reqs
      BY <3>4 DEF Record
    <3>7. Account(e)
      BY <3>6 DEF Busy, Account
    <3>. QED  BY <2>8, <3>3, <3>5, <3>6, <3>7 DEF Rest, Busy
  <2>10. CASE b # 0
    <3>1. t.s = [[g EXCEPT !.canWrite = FALSE, !.isblocked = TRUE] EXCEPT !.timeout = TRUE]
      BY <2>6, <2>7, <2>10 DEF Watched
    <3>2. t.s = [s EXCEPT !.space = a, !.writeIndex = i, !.writeLength = b,
                          !.canWrite = FALSE, !.isblocked = TRUE, !.timeout = TRUE]
      BY <2>4, <3>1 DEF Record
    <3>3. PICK e : e = t.s
      OBVIOUS
    <3>4. e = [s EXCEPT !.space = a, !.writeIndex = i, !.writeLength = b,
                        !.canWrite = FALSE, !.isblocked = TRUE, !.timeout = TRUE]
      BY <3>2, <3>3
    <3>5. e \in Record
      BY <3>4 DEF Record
    <3>6. ~e.canWrite /\ e.writeLength = b /\ e.live = s.live /\ e.readLength = s.readLength
          /\ e.rx = s.rx /\ e.rest = s.rest /\ e.reqs = s.reqs
      BY <3>4 DEF Record
    <3>7. Account(e)
      BY <3>6 DEF Busy, Account
    <3>. QED  BY <2>8, <2>10, <3>3, <3>5, <3>6, <3>7 DEF Rest, Busy
  <2>. QED  BY <2>9, <2>10
<1>. QED  BY <1>1, <1>2, <1>3, <1>4

(* dmbProcessEvent turns a record that is as it should be, whatever the    *)
(* event says, into one that is, and pushes it to the round robin list or  *)
(* not.                                                                    *)
LEMMA EventRest ==
  ASSUME NEW c, NEW s, NEW list, Busy(s), ProcessEvent(c, s, list)
  PROVE  \E e, w : /\ Rest(e) /\ (e.live => s.live) /\ Update(c, e, w)
                   /\ roundRobinList' \in {list, dmbListPushBack(list, Anchor, c)}
<1>1. PICK r \in ReadData(s) :
        IF r.code \in {"ERROR", "CLOSED"}
        THEN Update(c, r.s, r.watch) /\ roundRobinList' = list
        ELSE \E d \in IF r.s.isblocked THEN {Result(r.s, x) : x \in Garbage}
                      ELSE {ProcessData(r.s)} :
             \E t \in WriteData(d.s) :
               IF t.s.needClose /\ t.s.writeLength = 0
               THEN /\ Update(c, [t.s EXCEPT !.registered = FALSE], r.watch \/ t.watch)
                    /\ roundRobinList' = list
               ELSE /\ Update(c, t.s, r.watch \/ t.watch)
                    /\ roundRobinList' =
                         IF AllDone(r.code, d.code, t.code) THEN list
                         ELSE dmbListPushBack(list, Anchor, c)
  BY DEF ProcessEvent
<1>2. CASE r.code \in {"ERROR", "CLOSED"}
  <2>1. Rest(r.s) /\ (r.s.live => s.live)
    BY <1>2, ReadBusy
  <2>. QED  BY <1>1, <1>2, <2>1
<1>3. CASE r.code \notin {"ERROR", "CLOSED"}
  <2>1. PICK d \in IF r.s.isblocked THEN {Result(r.s, x) : x \in Garbage}
                   ELSE {ProcessData(r.s)} :
             \E t \in WriteData(d.s) :
               IF t.s.needClose /\ t.s.writeLength = 0
               THEN /\ Update(c, [t.s EXCEPT !.registered = FALSE], r.watch \/ t.watch)
                    /\ roundRobinList' = list
               ELSE /\ Update(c, t.s, r.watch \/ t.watch)
                    /\ roundRobinList' =
                         IF AllDone(r.code, d.code, t.code) THEN list
                         ELSE dmbListPushBack(list, Anchor, c)
    BY <1>1, <1>3
  <2>2. Busy(d.s) /\ (d.s.live => s.live)
    <3>1. CASE r.s.isblocked
      BY <2>1, <3>1, ReadBusy DEF Result
    <3>2. CASE ~r.s.isblocked
      BY <2>1, <3>2, ReadBusy, ProcessBusy
    <3>. QED  BY <3>1, <3>2
  <2>3. PICK t \in WriteData(d.s) :
               IF t.s.needClose /\ t.s.writeLength = 0
               THEN /\ Update(c, [t.s EXCEPT !.registered = FALSE], r.watch \/ t.watch)
                    /\ roundRobinList' = list
               ELSE /\ Update(c, t.s, r.watch \/ t.watch)
                    /\ roundRobinList' =
                         IF AllDone(r.code, d.code, t.code) THEN list
                         ELSE dmbListPushBack(list, Anchor, c)
    BY <2>1
  <2>4. Rest(t.s) /\ (t.s.live => s.live)
    BY <2>2, WriteRest
  <2>5. PICK u : u = [t.s EXCEPT !.registered = FALSE]
    OBVIOUS
  <2>6. Rest(u) /\ (u.live => s.live)
    BY <2>4, <2>5, ForgetRest
  <2>. QED  BY <2>3, <2>4, <2>5, <2>6
<1>. QED  BY <1>2, <1>3

-----------------------------------------------------------------------------
(* What the operations on the two lists preserve.                          *)

LEMMA PushType ==
  ASSUME NEW h \in Heap, NEW c \in Conn, h.prev[Anchor] \in Node
  PROVE  LET g == dmbListPushBack(h, Anchor, c)
         IN  /\ g \in Heap
             /\ g.next = [h.next EXCEPT ![h.prev[Anchor]] = c, ![c] = Anchor]
             /\ g.prev = [h.prev EXCEPT ![Anchor] = c, ![c] = h.prev[Anchor]]
<1>. DEFINE g == dmbListPushBack(h, Anchor, c)
<1>. h.next \in [Node -> Node \cup {NULL}] /\ h.prev \in [Node -> Node \cup {NULL}]
  BY DEF Heap
<1>. c \in Node /\ Anchor \in Node
  BY DEF Node
<1>1. g = [next |-> [h.next EXCEPT ![h.prev[Anchor]] = c, ![c] = Anchor],
           prev |-> [h.prev EXCEPT ![Anchor] = c, ![c] = h.prev[Anchor]]]
  BY DEF dmbListPushBack, insert
<1>2. /\ [h.next EXCEPT ![h.prev[Anchor]] = c, ![c] = Anchor] \in [Node -> Node \cup {NULL}]
      /\ [h.prev EXCEPT ![Anchor] = c, ![c] = h.prev[Anchor]] \in [Node -> Node \cup {NULL}]
  OBVIOUS
<1>. QED  BY <1>1, <1>2 DEF Heap

LEMMA RemoveType ==
  ASSUME NEW h \in Heap, NEW c \in Node, h.next[c] \in Node, h.prev[c] \in Node,
         NEW p, p = [h.prev EXCEPT ![h.next[c]] = h.prev[c]]
  PROVE  LET g == dmbListRemove(h, c)
         IN  /\ g \in Heap /\ g.prev = p /\ p[c] \in Node
             /\ g.next = [h.next EXCEPT ![p[c]] = h.next[c]]
<1>. h.next \in [Node -> Node \cup {NULL}] /\ h.prev \in [Node -> Node \cup {NULL}]
  BY DEF Heap
<1>1. p \in [Node -> Node \cup {NULL}] /\ p[c] \in Node
  OBVIOUS
<1>2. dmbListRemove(h, c) = [next |-> [h.next EXCEPT ![p[c]] = h.next[c]], prev |-> p]
  BY DEF dmbListRemove
<1>3. [h.next EXCEPT ![p[c]] = h.next[c]] \in [Node -> Node \cup {NULL}]
  OBVIOUS
<1>. QED  BY <1>1, <1>2, <1>3 DEF Heap

(* The timeout list stays a ring when an unused node is pushed.            *)
LEMMA PushLinked ==
  ASSUME NEW h \in Heap, Linked(h), NEW c \in Conn, h.next[c] = NULL,
         NEW g, g = dmbListPushBack(h, Anchor, c)
  PROVE  /\ g \in Heap /\ Linked(g)
         /\ \A n \in Node : g.next[n] # NULL <=> h.next[n] # NULL \/ n = c
<1>. h.next \in [Node -> Node \cup {NULL}] /\ h.prev \in [Node -> Node \cup {NULL}]
  BY DEF Heap
<1>. c \in Node /\ Anchor \in Node /\ c # Anchor /\ NULL \notin Node
  BY NodeAssumption DEF Node
<1>1. PICK pos \in [Node -> Nat] : Ordered(h, pos)
  BY DEF Linked
<1>2. PICK t \in Node : t = h.prev[Anchor] /\ h.next[t] = Anchor
  BY <1>1 DEF Ordered
<1>3. t # c
  BY <1>2
<1>4. g \in Heap /\ g.next = [h.next EXCEPT ![t] = c, ![c] = Anchor]
      /\ g.prev = [h.prev EXCEPT ![Anchor] = c, ![c] = t]
  BY <1>2, PushType
<1>5. /\ g.next[t] = c /\ g.next[c] = Anchor /\ g.prev[Anchor] = c /\ g.prev[c] = t
      /\ \A n \in Node : n # t /\ n # c => g.next[n] = h.next[n]
      /\ \A n \in Node : n # Anchor /\ n # c => g.prev[n] = h.prev[n]
  BY <1>3, <1>4
<1>6. \A n \in Node : g.next[n] # NULL <=> h.next[n] # NULL \/ n = c
  BY <1>2, <1>5
<1>7. PICK q \in [Node -> Nat] : q = [pos EXCEPT ![c] = pos[t] + 1]
  <2>1. PICK z \in Nat : z = pos[t] + 1
    OBVIOUS
  <2>2. [pos EXCEPT ![c] = z] \in [Node -> Nat]
    OBVIOUS
  <2>. QED  BY <2>1, <2>2
<1>8. q[c] = pos[t] + 1 /\ \A n \in Node : n # c => q[n] = pos[n]
  BY <1>7
<1>9. ASSUME NEW n \in Node, g.next[n] # NULL
      PROVE  /\ g.next[n] \in Node /\ g.next[g.next[n]] # NULL /\ g.prev[g.next[n]] = n
             /\ g.prev[n] \in Node /\ g.next[g.prev[n]] = n
             /\ g.next[n] # Anchor => q[n] < q[g.next[n]]
  <2>1. CASE n = c
    <3>1. g.next[Anchor] # NULL
      BY <1>1, <1>6 DEF Ordered
    <3>. QED  BY <1>2, <1>3, <1>5, <2>1, <3>1
  <2>2. CASE n # c
    <3>1. h.next[n] # NULL
      BY <1>6, <1>9, <2>2
    <3>2. /\ h.next[n] \in Node /\ h.next[h.next[n]] # NULL /\ h.prev[h.next[n]] = n
          /\ h.prev[n] \in Node /\ h.next[h.prev[n]] = n
          /\ h.next[n] # Anchor => pos[n] < pos[h.next[n]]
      BY <1>1, <3>1 DEF Ordered
    <3>3. g.prev[n] \in Node /\ g.next[g.prev[n]] = n
      <4>1. CASE n = Anchor
        BY <1>5, <4>1
      <4>2. CASE n # Anchor
        <5>1. g.prev[n] = h.prev[n] /\ h.prev[n] # t /\ h.prev[n] # c
          BY <1>2, <1>5, <2>2, <3>2, <4>2
        <5>. QED  BY <1>5, <3>2, <5>1
      <4>. QED  BY <4>1, <4>2
    <3>4. CASE n = t
      <4>1. q[n] < q[c]
        BY <1>3, <1>8, <3>4
      <4>. QED  BY <1>5, <3>3, <3>4, <4>1
    <3>5. CASE n # t
      <4>1. g.next[n] = h.next[n] /\ h.next[n] # c /\ h.next[n] # Anchor
        BY <1>2, <1>5, <2>2, <3>2, <3>5
      <4>2. g.prev[g.next[n]] = n /\ g.next[g.next[n]] # NULL
        BY <1>5, <1>6, <3>2, <4>1
      <4>3. q[n] < q[g.next[n]]
        BY <1>8, <2>2, <3>2, <4>1
      <4>. QED  BY <3>2, <3>3, <4>1, <4>2, <4>3
    <3>. QED  BY <3>4, <3>5
  <2>. QED  BY <2>1, <2>2
<1>10. Ordered(g, q)
  <2>1. q[Anchor] = 0 /\ g.next[Anchor] # NULL
    BY <1>1, <1>6, <1>8 DEF Ordered
  <2>. QED  BY <1>9, <2>1 DEF Ordered
<1>. QED  BY <1>4, <1>6, <1>10 DEF Linked

(* And when a node is taken out, as the sweep does.                        *)
LEMMA UnwatchLinked ==
  ASSUME NEW h \in Heap, Linked(h), NEW c \in Conn, h.next[c] # NULL,
         NEW g, g = dmbNodeInit(dmbListRemove(h, c), c)
  PROVE  /\ g \in Heap /\ Linked(g) /\ h.next[c] # c
         /\ \A n \in Node : g.next[n] # NULL <=> h.next[n] # NULL /\ n # c
<1>. h.next \in [Node -> Node \cup {NULL}] /\ h.prev \in [Node -> Node \cup {NULL}]
  BY DEF Heap
<1>. c \in Node /\ Anchor \in Node /\ c # Anchor /\ NULL \notin Node
  BY NodeAssumption DEF Node
<1>1. PICK pos \in [Node -> Nat] : Ordered(h, pos)
  BY DEF Linked
<1>2. PICK a \in Node, b \in Node : a = h.next[c] /\ b = h.prev[c]
  BY <1>1 DEF Ordered
<1>3. h.next[b] = c /\ h.prev[a] = c /\ h.next[a] # NULL /\ (a # Anchor => pos[c] < pos[a])
      /\ pos[b] < pos[c]
  BY <1>1, <1>2 DEF Ordered
<1>4. a # c /\ b # c
  BY <1>2, <1>3
<1>5. PICK p : p = [h.prev EXCEPT ![a] = b]
  OBVIOUS
<1>6. p[c] = b
  BY <1>2, <1>4, <1>5
<1>7. PICK r : r = dmbListRemove(h, c)
  OBVIOUS
<1>8. r \in Heap /\ r.prev = p /\ r.next = [h.next EXCEPT ![b] = a]
  BY <1>2, <1>5, <1>6, <1>7, RemoveType
<1>9. g = [next |-> [r.next EXCEPT ![c] = NULL], prev |-> [r.prev EXCEPT ![c] = NULL]]
  BY <1>7 DEF dmbNodeInit
<1>10. g \in Heap
  BY <1>8, <1>9 DEF Heap
<1>11. /\ g.next[b] = a /\ g.next[c] = NULL /\ g.prev[a] = b
       /\ \A n \in Node : n # b /\ n # c => g.next[n] = h.next[n]
       /\ \A n \in Node : n # a /\ n # c => g.prev[n] = h.prev[n]
  BY <1>4, <1>5, <1>8, <1>9
<1>12. \A n \in Node : g.next[n] # NULL <=> h.next[n] # NULL /\ n # c
  BY <1>3, <1>11
<1>13. ASSUME NEW n \in Node, g.next[n] # NULL
       PROVE  /\ g.next[n] \in Node /\ g.next[g.next[n]] # NULL /\ g.prev[g.next[n]] = n
              /\ g.prev[n] \in Node /\ g.next[g.prev[n]] = n
              /\ g.next[n] # Anchor => pos[n] < pos[g.next[n]]
  <2>1. n # c /\ h.next[n] # NULL
    BY <1>12, <1>13
  <2>2. /\ h.next[n] \in Node /\ h.next[h.next[n]] # NULL /\ h.prev[h.next[n]] = n
        /\ h.prev[n] \in Node /\ h.next[h.prev[n]] = n
        /\ h.next[n] # Anchor => pos[n] < pos[h.next[n]]
    BY <1>1, <2>1 DEF Ordered
  <2>3. g.prev[n] \in Node /\ g.next[g.prev[n]] = n
    <3>1. CASE n = a
      BY <1>11, <3>1
    <3>2. CASE n # a
      <4>1. g.prev[n] = h.prev[n] /\ h.prev[n] # b /\ h.prev[n] # c
        BY <1>2, <1>3, <1>11, <2>1, <2>2, <3>2
      <4>. QED  BY <1>11, <2>2, <4>1
    <3>. QED  BY <3>1, <3>2
  <2>4. CASE n = b
    <3>1. a # Anchor => pos[b] < pos[a]
      BY <1>3
    <3>2. g.next[a] # NULL
      BY <1>3, <1>4, <1>12
    <3>. QED  BY <1>11, <2>3, <2>4, <3>1, <3>2
  <2>5. CASE n # b
    <3>1. g.next[n] = h.next[n] /\ h.next[n] # c /\ h.next[n] # a
      BY <1>2, <1>3, <1>11, <2>1, <2>2, <2>5
    <3>2. g.prev[g.next[n]] = n /\ g.next[g.next[n]] # NULL
      BY <1>11, <1>12, <2>2, <3>1
    <3>. QED  BY <2>2, <2>3, <3>1, <3>2
  <2>. QED  BY <2>4, <2>5
<1>14. Ordered(g, pos)
  <2>1. pos[Anchor] = 0 /\ g.next[Anchor] # NULL
    BY <1>1, <1>12 DEF Ordered
  <2>. QED  BY <1>13, <2>1 DEF Ordered
<1>. QED  BY <1>2, <1>4, <1>10, <1>12, <1>14 DEF Linked

(* The round robin list, whatever is pushed, twice or once.                *)
LEMMA PushAround ==
  ASSUME NEW h \in Heap, NEW M, Around(h, M), NEW c \in Conn,
         NEW g, g = dmbListPushBack(h, Anchor, c)
  PROVE  g \in Heap /\ Around(g, M \cup {c})
<1>. h.next \in [Node -> Node \cup {NULL}] /\ h.prev \in [Node -> Node \cup {NULL}]
  BY DEF Heap
<1>. c \in Node /\ Anchor \in Node
  BY DEF Node
<1>1. PICK t \in M : t = h.prev[Anchor] /\ t \in Node /\ M \subseteq Node
  BY DEF Around
<1>2. g \in Heap /\ g.next = [h.next EXCEPT ![t] = c, ![c] = Anchor]
      /\ g.prev = [h.prev EXCEPT ![Anchor] = c, ![c] = t]
  BY <1>1, PushType
<1>3. ASSUME NEW n \in M \cup {c}
      PROVE  g.next[n] \in M \cup {c} /\ g.prev[n] \in M \cup {c}
  BY <1>1, <1>2 DEF Around
<1>. QED  BY <1>1, <1>2, <1>3 DEF Around

LEMMA PopAround ==
  ASSUME NEW h \in Heap, NEW M, Around(h, M), NEW g, g = dmbListPopFront(h, Anchor)
  PROVE  FirstNode(h, Anchor) \in M /\ g \in Heap /\ Around(g, M)
<1>. h.next \in [Node -> Node \cup {NULL}] /\ h.prev \in [Node -> Node \cup {NULL}]
  BY DEF Heap
<1>1. M \subseteq Node
  BY DEF Around
<1>2. PICK c \in M : c = FirstNode(h, Anchor)
  BY DEF Around, FirstNode
<1>3. h.next[c] \in M /\ h.prev[c] \in M
  BY <1>2 DEF Around
<1>4. PICK p : p = [h.prev EXCEPT ![h.next[c]] = h.prev[c]]
  OBVIOUS
<1>5. /\ g \in Heap /\ g.prev = p /\ p[c] \in Node
      /\ g.next = [h.next EXCEPT ![p[c]] = h.next[c]]
  BY <1>1, <1>2, <1>3, <1>4, RemoveType DEF dmbListPopFront
<1>6. ASSUME NEW n \in M PROVE g.next[n] \in M /\ g.prev[n] \in M
  BY <1>1, <1>3, <1>4, <1>5 DEF Around
<1>. QED  BY <1>1, <1>2, <1>5, <1>6 DEF Around

-----------------------------------------------------------------------------
(* The idle list when its first record is taken and when one comes back.   *)

LEMMA TailFacts ==
  ASSUME NEW S, NEW s \in Seq(S), s # <<>>, Distinct(s)
  PROVE  /\ Tail(s) \in Seq(S) /\ Len(Tail(s)) = Len(s) - 1 /\ Distinct(Tail(s))
         /\ Head(s) \in S
         /\ \A x : Contains(Tail(s), x) => Contains(s, x) /\ x # Head(s)
<1>1. /\ Tail(s) \in Seq(S) /\ Len(Tail(s)) = Len(s) - 1 /\ Head(s) \in S
      /\ Head(s) = s[1] /\ \A k \in 1 .. Len(s) - 1 : Tail(s)[k] = s[k + 1]
  BY HeadTailProperties
<1>2. Len(s) \in Nat /\ Len(s) > 0
  BY EmptySeq
<1>3. DOMAIN s = 1 .. Len(s) /\ DOMAIN Tail(s) = 1 .. Len(s) - 1
  BY <1>1
<1>4. Distinct(Tail(s))
  <2>. SUFFICES ASSUME NEW j \in 1 .. Len(s) - 1, NEW k \in 1 .. Len(s) - 1,
                       Tail(s)[j] = Tail(s)[k]
                PROVE  j = k
    BY <1>3 DEF Distinct
  <2>1. s[j + 1] = s[k + 1] /\ j + 1 \in 1 .. Len(s) /\ k + 1 \in 1 .. Len(s)
    BY <1>1, <1>2
  <2>2. j + 1 = k + 1
    BY <1>3, <2>1 DEF Distinct
  <2>. QED  BY <2>2
<1>5. ASSUME NEW x, Contains(Tail(s), x) PROVE Contains(s, x) /\ x # Head(s)
  <2>1. PICK k \in 1 .. Len(s) - 1 : Tail(s)[k] = x
    BY <1>3, <1>5 DEF Contains
  <2>2. s[k + 1] = x /\ k + 1 \in 1 .. Len(s) /\ 1 \in 1 .. Len(s) /\ k + 1 # 1
    BY <1>1, <1>2, <2>1
  <2>. QED  BY <1>1, <1>3, <2>2 DEF Contains, Distinct
<1>. QED  BY <1>1, <1>4, <1>5

LEMMA AppendFacts ==
  ASSUME NEW S, NEW s \in Seq(S), NEW y \in S, Distinct(s), ~Contains(s, y)
  PROVE  /\ Append(s, y) \in Seq(S) /\ Len(Append(s, y)) = Len(s) + 1
         /\ Distinct(Append(s, y))
         /\ \A x : Contains(Append(s, y), x) => Contains(s, x) \/ x = y
<1>1. /\ Append(s, y) \in Seq(S) /\ Len(Append(s, y)) = Len(s) + 1
      /\ \A k \in 1 .. Len(s) : Append(s, y)[k] = s[k]
      /\ Append(s, y)[Len(s) + 1] = y
  BY AppendProperties
<1>2. Len(s) \in Nat /\ DOMAIN s = 1 .. Len(s) /\ DOMAIN Append(s, y) = 1 .. Len(s) + 1
  BY <1>1
<1>3. \A k \in 1 .. Len(s) + 1 : k \in 1 .. Len(s) \/ k = Len(s) + 1
  BY <1>2
<1>4. \A k \in 1 .. Len(s) : k \in 1 .. Len(s) + 1 /\ s[k] # y
  BY <1>2 DEF Contains
<1>5. Distinct(Append(s, y))
  BY <1>1, <1>2, <1>3, <1>4 DEF Distinct
<1>6. ASSUME NEW x, Contains(Append(s, y), x) PROVE Contains(s, x) \/ x = y
  BY <1>1, <1>2, <1>3, <1>6 DEF Contains
<1>. QED  BY <1>1, <1>5, <1>6

(* Edges and records are delivered in some order.                          *)
LEMMA OrdersType ==
  ASSUME NEW S, IsFiniteSet(S), NEW b \in Orders(S)
  PROVE  b \in Seq(S) /\ DOMAIN b = 1 .. Len(b) /\ Distinct(b)
<1>1. Cardinality(S) \in Nat
  BY FS_CardinalityType
<1>2. b \in Seq(S) /\ Len(b) = Cardinality(S)
  BY <1>1 DEF Orders
<1>. QED  BY <1>1, <1>2 DEF Orders, Distinct

-----------------------------------------------------------------------------
(* The steps.                                                              *)

LEMMA InitWorker == Init => WorkerInv
<1>. SUFFICES ASSUME Init PROVE WorkerInv
  OBVIOUS
<1>. Anchor \in Node /\ Conn \subseteq Node /\ NULL \notin Node /\ Anchor \notin Conn
  BY NodeAssumption DEF Node
<1>1. idleConnList \in Seq(Conn) /\ Distinct(idleConnList)
  BY OrdersType, NodeAssumption DEF Init
<1>2. EmptyList \in Heap
  BY DEF EmptyList, Heap
<1>3. /\ EmptyList.next[Anchor] = Anchor /\ EmptyList.prev[Anchor] = Anchor
      /\ \A n \in Node : n # Anchor => EmptyList.next[n] = NULL
  BY DEF EmptyList
<1>4. Ordered(EmptyList, [n \in Node |-> 0])
  BY <1>3 DEF Ordered
<1>5. Linked(EmptyList) /\ Around(EmptyList, {Anchor})
  BY <1>3, <1>4 DEF Linked, Around
<1>6. cn \in [Conn -> Record] /\ \A c \in Conn : Rest(cn[c]) /\ ~cn[c].live
  BY ClosedRest DEF Init, Closed
<1>7. TypeOK
  BY <1>1, <1>2, <1>6 DEF Init, TypeOK
<1>8. IdleInv
  <2>1. Len(idleConnList) \in Nat
    BY <1>1, LenProperties
  <2>. QED  BY <1>1, <1>6, <2>1 DEF IdleInv, Init
<1>9. ListInv
  BY <1>5 DEF ListInv, Init
<1>. QED  BY <1>6, <1>7, <1>8, <1>9 DEF WorkerInv, RecordInv

(* A client's step changes its record, but opens or closes none.           *)
LEMMA ClientInv ==
  ASSUME WorkerInv, NEW c \in Conn, NEW s, Client(c, s), Rest(s), s.live = cn[c].live,
         ready' \subseteq ready \cup {c}
  PROVE  WorkerInv'
<1>1. cn' = [cn EXCEPT ![c] = s] /\ s \in Record /\ cn \in [Conn -> Record]
  BY DEF Client, WorkerInv, TypeOK, Rest, Busy
<1>2. /\ UNCHANGED <<idleConnList, timeoutConnList, roundRobinList, pending, taken>>
      /\ UNCHANGED <<phase, events, index, iter>>
  BY DEF Client
<1>3. cn' \in [Conn -> Record] /\ RecordInv'
  BY <1>1 DEF RecordInv, WorkerInv
<1>4. TypeOK'
  BY <1>2, <1>3 DEF WorkerInv, TypeOK
<1>5. \A d \in Conn : cn'[d].live = cn[d].live
  BY <1>1
<1>6. IdleInv' /\ ListInv'
  BY <1>2, <1>5 DEF WorkerInv, IdleInv, ListInv
<1>. QED  BY <1>3, <1>4, <1>6 DEF WorkerInv

LEMMA SendRequestRest ==
  ASSUME NEW s, Rest(s), s.live, ~s.rest, s.quota > 0, NEW kind \in Kinds,
         NEW part \in BOOLEAN, NEW t,
         t = [s EXCEPT !.quota = @ - 1, !.reqs = Append(@, kind),
                       !.rx = @ + (IF part THEN Hdr ELSE ReqSize), !.rest = part,
                       !.odd = @ \/ kind \in HostKinds]
  PROVE  Rest(t) /\ t.live
<1>. s \in Record
  BY DEF Rest, Busy
<1>1. PICK n \in Nat : n = IF part THEN Hdr ELSE ReqSize
  BY BufferAssumption, SizeFacts
<1>2. s.reqs \in Seq(Kinds) /\ s.rx \in Nat /\ s.quota \in Nat /\ Len(s.reqs) \in Nat
  BY LenProperties DEF Record
<1>3. PICK q \in Nat, r \in Nat, z \in Seq(Kinds) :
        q = s.quota - 1 /\ r = s.rx + n /\ z = Append(s.reqs, kind)
  <2>1. s.quota - 1 \in Nat /\ s.rx + n \in Nat
    BY <1>2
  <2>2. Append(s.reqs, kind) \in Seq(Kinds)
    BY <1>2, AppendProperties
  <2>. QED  BY <2>1, <2>2
<1>o. PICK o \in BOOLEAN : o = (s.odd \/ kind \in HostKinds)
  OBVIOUS
<1>4. t = [s EXCEPT !.quota = q, !.reqs = z, !.rx = r, !.rest = part, !.odd = o]
  BY <1>1, <1>3, <1>o
<1>5. t \in Record
  BY <1>4, ZenonT(60) DEF Record
<1>6. /\ t.live = s.live /\ t.isblocked = s.isblocked /\ t.writeLength = s.writeLength
      /\ t.canWrite = s.canWrite /\ t.readLength = s.readLength
      /\ t.rx = r /\ t.rest = part /\ t.reqs = z
  BY <1>4 DEF Record
<1>7. Account(t)
  <2>1. Len(z) = Len(s.reqs) + 1
    BY <1>2, <1>3, AppendProperties
  <2>2. PICK u \in Int, v \in Int, e \in Int, w \in Int, a \in Int :
          u = ReqSize * Len(s.reqs) /\ v = ReqSize * Len(z) /\ e = ReqSize
          /\ w = (IF part THEN Body ELSE 0) /\ a = s.readLength
    <3>1. ReqSize * Len(s.reqs) \in Int /\ ReqSize * Len(z) \in Int /\ ReqSize \in Int
      <4>1. Len(s.reqs) \in Nat /\ Len(z) \in Nat
        BY <1>2, <2>1
      <4>2. \A m \in Nat : m \in Int
        OBVIOUS
      <4>3. \A m \in Nat : ReqSize * m \in Int
        BY SizeFacts
      <4>. QED  BY <4>1, <4>2, <4>3, SizeFacts
    <3>2. (IF part THEN Body ELSE 0) \in Int /\ s.readLength \in Int
      BY BufferAssumption DEF Record
    <3>. QED  BY <3>1, <3>2
  <2>3. v = u + e
    BY <1>2, <2>1, <2>2, SizeFacts
  <2>4. a + s.rx + 0 = u
    BY <2>2 DEF Rest, Busy, Account
  <2>5. n + w = e
    BY <1>1, <2>2, BufferAssumption DEF ReqSize
  <2>6. PICK x \in Int : x = s.rx
    BY <1>2
  <2>7. r = x + n
    BY <1>3, <2>6
  <2>8. a + r + w = v
    <3>1. a + x + 0 = u
      BY <2>4, <2>6
    <3>. QED  BY <2>3, <2>5, <2>7, <3>1
  <2>. QED  BY <1>6, <2>2, <2>8 DEF Account
<1>. QED  BY <1>5, <1>6, <1>7 DEF Rest, Busy

LEMMA SendDataRest ==
  ASSUME NEW s, Rest(s), s.live, s.rest, NEW t, t = [s EXCEPT !.rx = @ + Body, !.rest = FALSE]
  PROVE  Rest(t) /\ t.live
<1>. s \in Record
  BY DEF Rest, Busy
<1>1. PICK r \in Nat : r = s.rx + Body
  BY BufferAssumption DEF Record
<1>2. t = [s EXCEPT !.rx = r, !.rest = FALSE]
  BY <1>1
<1>3. t \in Record
  BY <1>2, ZenonT(40) DEF Record
<1>4. /\ t.live = s.live /\ t.isblocked = s.isblocked /\ t.writeLength = s.writeLength
      /\ t.canWrite = s.canWrite /\ t.readLength = s.readLength
      /\ t.rx = r /\ ~t.rest /\ t.reqs = s.reqs
  BY <1>2 DEF Record
<1>5. Account(t)
  <2>1. s.readLength \in Nat /\ s.rx \in Nat /\ Body \in Nat
    BY BufferAssumption DEF Record
  <2>2. s.readLength + s.rx + Body = ReqSize * Len(s.reqs)
    BY DEF Rest, Busy, Account
  <2>3. PICK u : u = ReqSize * Len(s.reqs)
    OBVIOUS
  <2>4. s.readLength + r + 0 = u
    BY <1>1, <2>1, <2>2, <2>3
  <2>. QED  BY <1>4, <2>3, <2>4 DEF Account
<1>. QED  BY <1>3, <1>4, <1>5 DEF Rest, Busy

LEMMA KernelRest ==
  ASSUME NEW s, Rest(s), s.live, NEW a \in Nat, NEW x \in BOOLEAN,
         NEW t, t = [s EXCEPT !.space = a, !.hangup = x]
  PROVE  Rest(t) /\ t.live
<1>. s \in Record
  BY DEF Rest, Busy
<1>1. t \in Record
  BY DEF Record
<1>2. /\ t.live = s.live /\ t.isblocked = s.isblocked /\ t.writeLength = s.writeLength
      /\ t.canWrite = s.canWrite /\ t.readLength = s.readLength
      /\ t.rx = s.rx /\ t.rest = s.rest /\ t.reqs = s.reqs
  BY DEF Record
<1>3. Account(t)
  BY <1>2 DEF Rest, Busy, Account
<1>. QED  BY <1>1, <1>2, <1>3 DEF Rest, Busy

LEMMA HandOverInv == WorkerInv /\ HandOver => WorkerInv'
<1>. SUFFICES ASSUME WorkerInv, HandOver PROVE WorkerInv'
  OBVIOUS
<1>. USE DEF HandOver
<1>1. pending \in Nat /\ taken \in Nat /\ Len(idleConnList) \in Nat
  BY LenProperties DEF WorkerInv, TypeOK
<1>2. pending' \in Nat /\ pending' + taken' <= Len(idleConnList')
  BY <1>1
<1>3. TypeOK' /\ RecordInv'
  BY <1>2 DEF WorkerInv, TypeOK, RecordInv
<1>4. IdleInv' /\ ListInv'
  BY <1>2 DEF WorkerInv, IdleInv, ListInv
<1>. QED  BY <1>3, <1>4 DEF WorkerInv

LEMMA ClientsInv == WorkerInv /\ Clients => WorkerInv'
<1>. SUFFICES ASSUME WorkerInv, Clients PROVE WorkerInv'
  OBVIOUS
<1>1. CASE HandOver
  BY <1>1, HandOverInv
<1>2. ASSUME NEW c \in Conn, (\E kind \in Kinds : Send(c, kind)) \/ SendRest(c)
                             \/ ClientRead(c) \/ HangUp(c)
      PROVE  WorkerInv'
  <2>1. Rest(cn[c]) /\ cn[c].live /\ cn[c] \in Record
    BY <1>2 DEF WorkerInv, RecordInv, Rest, Busy, Send, SendRest, ClientRead, HangUp, CanSend
  <2>2. ready' \subseteq ready \cup {c}
    BY <1>2 DEF Send, SendRest, ClientRead, HangUp, Edge
  <2>3. PICK s : Client(c, s) /\ Rest(s) /\ s.live
    <3>1. ASSUME NEW kind \in Kinds, Send(c, kind)
          PROVE  \E s : Client(c, s) /\ Rest(s) /\ s.live
      <4>1. PICK part \in BOOLEAN :
              Client(c, [cn[c] EXCEPT !.quota = @ - 1, !.reqs = Append(@, kind),
                               !.rx = @ + (IF part THEN Hdr ELSE ReqSize),
                               !.rest = part, !.odd = @ \/ kind \in HostKinds])
        BY <3>1 DEF Send
      <4>2. ~cn[c].rest /\ cn[c].quota > 0
        BY <3>1 DEF Send
      <4>3. PICK t : t = [cn[c] EXCEPT !.quota = @ - 1, !.reqs = Append(@, kind),
                               !.rx = @ + (IF part THEN Hdr ELSE ReqSize),
                               !.rest = part, !.odd = @ \/ kind \in HostKinds]
        OBVIOUS
      <4>4. Rest(t) /\ t.live
        BY <2>1, <4>2, <4>3, SendRequestRest
      <4>. QED  BY <4>1, <4>3, <4>4
    <3>2. ASSUME SendRest(c) PROVE \E s : Client(c, s) /\ Rest(s) /\ s.live
      BY <2>1, <3>2, SendDataRest DEF SendRest
    <3>3. ASSUME ClientRead(c) PROVE \E s : Client(c, s) /\ Rest(s) /\ s.live
      <4>1. PICK t : t = [cn[c] EXCEPT !.space = SendCap]
        OBVIOUS
      <4>2. t = [cn[c] EXCEPT !.space = SendCap, !.hangup = cn[c].hangup]
        BY <2>1, <4>1 DEF Record
      <4>3. cn[c].hangup \in BOOLEAN /\ SendCap \in Nat
        BY <2>1, BufferAssumption DEF Record
      <4>4. Rest(t) /\ t.live
        BY <2>1, <4>2, <4>3, KernelRest
      <4>. QED  BY <3>3, <4>1, <4>4 DEF ClientRead
    <3>4. ASSUME HangUp(c) PROVE \E s : Client(c, s) /\ Rest(s) /\ s.live
      <4>1. PICK t : t = [cn[c] EXCEPT !.hangup = TRUE]
        OBVIOUS
      <4>2. t = [cn[c] EXCEPT !.space = cn[c].space, !.hangup = TRUE]
        BY <2>1, <4>1 DEF Record
      <4>3. cn[c].space \in Nat
        BY <2>1 DEF Record
      <4>4. Rest(t) /\ t.live
        BY <2>1, <4>2, <4>3, KernelRest
      <4>. QED  BY <3>4, <4>1, <4>4 DEF HangUp
    <3>. QED  BY <1>2, <3>1, <3>2, <3>3, <3>4
  <2>4. s.live = cn[c].live
    BY <2>1, <2>3 DEF Rest, Busy, Record
  <2>. QED  BY <2>2, <2>3, <2>4, ClientInv
<1>. QED  BY <1>1, <1>2 DEF Clients

(* A handler's end: record c becomes s.                                    *)
LEMMA UpdateInv ==
  ASSUME WorkerInv, NEW c \in Conn, NEW s, NEW watch, Update(c, s, watch),
         Rest(s), s.live => cn[c].live,
         roundRobinList' \in Heap, \E M : Around(roundRobinList', M),
         UNCHANGED <<pending, taken, phase, events, iter>>,
         index' \in 0 .. Len(events), phase = "foreach" \/ (phase = "rr" /\ index' = index)
  PROVE  WorkerInv'
<1>. s \in Record
  BY DEF Rest, Busy
<1>1. cn' = [cn EXCEPT ![c] = s] /\ cn \in [Conn -> Record]
  BY DEF Update, WorkerInv, TypeOK
<1>2. cn' \in [Conn -> Record] /\ RecordInv'
  BY <1>1 DEF RecordInv, WorkerInv
<1>3. /\ timeoutConnList' \in Heap /\ Linked(timeoutConnList')
  <2>1. timeoutConnList \in Heap /\ Linked(timeoutConnList)
    BY DEF WorkerInv, TypeOK, ListInv
  <2>2. CASE timeoutConnList' = timeoutConnList
    BY <2>1, <2>2
  <2>3. CASE timeoutConnList' # timeoutConnList
    <3>1. /\ timeoutConnList' = dmbListPushBack(timeoutConnList, Anchor, c)
          /\ timeoutConnList.next[c] = NULL
      BY <2>3 DEF Update, WatchTimeout, dmbNodeIsUsed
    <3>2. PICK g : g = timeoutConnList'
      OBVIOUS
    <3>3. g \in Heap /\ Linked(g)
      BY <2>1, <3>1, <3>2, PushLinked
    <3>. QED  BY <3>2, <3>3
  <2>. QED  BY <2>2, <2>3
<1>4. /\ idleConnList' \in Seq(Conn) /\ Distinct(idleConnList')
      /\ Len(idleConnList) <= Len(idleConnList')
      /\ \A d \in Conn : Contains(idleConnList', d) => ~cn'[d].live
  <2>1. /\ idleConnList \in Seq(Conn) /\ Distinct(idleConnList)
        /\ \A d \in Conn : Contains(idleConnList, d) => ~cn[d].live
    BY DEF WorkerInv, TypeOK, IdleInv
  <2>2. Len(idleConnList) \in Nat
    BY <2>1, LenProperties
  <2>3. CASE cn[c].live /\ ~s.live
    <3>1. idleConnList' = Append(idleConnList, c)
      BY <2>3 DEF Update
    <3>2. ~Contains(idleConnList, c)
      BY <2>1, <2>3
    <3>3. PICK l : l = Append(idleConnList, c)
      OBVIOUS
    <3>4. /\ l \in Seq(Conn) /\ Len(l) = Len(idleConnList) + 1 /\ Distinct(l)
          /\ \A x : Contains(l, x) => Contains(idleConnList, x) \/ x = c
      BY <2>1, <3>2, <3>3, AppendFacts
    <3>5. \A d \in Conn : Contains(idleConnList', d) => ~cn'[d].live
      BY <1>1, <2>1, <2>3, <3>1, <3>3, <3>4
    <3>. QED  BY <2>2, <3>1, <3>3, <3>4, <3>5
  <2>4. CASE ~(cn[c].live /\ ~s.live)
    <3>1. idleConnList' = idleConnList
      BY <2>4 DEF Update
    <3>2. \A d \in Conn : cn'[d].live => cn[d].live
      BY <1>1
    <3>. QED  BY <2>1, <2>2, <3>1, <3>2
  <2>. QED  BY <2>3, <2>4
<1>5. ready' \subseteq Conn \cup {NULL}
  BY DEF Update, WorkerInv, TypeOK
<1>6. TypeOK'
  BY <1>2, <1>3, <1>4, <1>5 DEF WorkerInv, TypeOK
<1>7. IdleInv'
  <2>1. pending' + taken' <= Len(idleConnList')
    <3>1. pending \in Nat /\ taken \in Nat /\ pending + taken <= Len(idleConnList)
      BY DEF WorkerInv, TypeOK, IdleInv
    <3>2. Len(idleConnList) \in Nat /\ Len(idleConnList') \in Nat
      BY <1>4, LenProperties DEF WorkerInv, TypeOK
    <3>. QED  BY <1>4, <3>1, <3>2
  <2>. QED  BY <1>4, <2>1 DEF WorkerInv, IdleInv
<1>8. ListInv'
  BY <1>3 DEF WorkerInv, ListInv
<1>. QED  BY <1>2, <1>6, <1>7, <1>8 DEF WorkerInv

LEMMA PollInv == WorkerInv /\ Poll => WorkerInv'
<1>. SUFFICES ASSUME WorkerInv, Poll PROVE WorkerInv'
  OBVIOUS
<1>. DEFINE Event == [ptr : Conn \cup {NULL}, in : BOOLEAN, out : BOOLEAN, bad : BOOLEAN]
<1>1. PICK b \in Orders(IF pending = 0 THEN ready \ {NULL} ELSE ready) :
        events' = [k \in DOMAIN b |-> EventOf(b[k])]
  BY DEF Poll
<1>2. PICK S : S = (IF pending = 0 THEN ready \ {NULL} ELSE ready) /\ S \subseteq Conn \cup {NULL}
  BY DEF WorkerInv, TypeOK
<1>3. IsFiniteSet(S)
  <2>1. IsFiniteSet(Conn \cup {NULL})
    BY NodeAssumption, FS_AddElement
  <2>. QED  BY <1>2, <2>1, FS_Subset
<1>4. b \in Seq(S) /\ DOMAIN b = 1 .. Len(b) /\ Len(b) \in Nat
  BY <1>1, <1>2, <1>3, OrdersType, LenProperties
<1>5. ASSUME NEW c \in Conn \cup {NULL} PROVE EventOf(c) \in Event
  <2>1. c # NULL => cn[c] \in Record
    BY DEF WorkerInv, TypeOK
  <2>. QED  BY <2>1 DEF EventOf, Record
<1>6. \A k \in 1 .. Len(b) : b[k] \in Conn \cup {NULL}
  BY <1>2, <1>4, ElementOfSeq
<1>7. events' \in Seq(Event)
  <2>1. events' = [k \in 1 .. Len(b) |-> EventOf(b[k])]
    BY <1>1, <1>4
  <2>2. \A k \in 1 .. Len(b) : EventOf(b[k]) \in Event
    BY <1>5, <1>6
  <2>. HIDE DEF Event
  <2>. QED  BY <1>4, <2>1, <2>2
<1>8. index' \in 0 .. Len(events')
  <2>1. index = 0
    BY DEF Poll, WorkerInv, IdleInv
  <2>2. Len(events') \in Nat
    BY <1>7, LenProperties
  <2>. QED  BY <2>1, <2>2 DEF Poll
<1>9. TypeOK' /\ RecordInv'
  BY <1>7, <1>8 DEF Poll, WorkerInv, TypeOK, RecordInv
<1>10. IdleInv' /\ ListInv'
  BY DEF Poll, WorkerInv, IdleInv, ListInv
<1>. QED  BY <1>9, <1>10 DEF WorkerInv

(* The event the loop is at.                                               *)
LEMMA CurrentType ==
  ASSUME TypeOK, MoreEvents
  PROVE  /\ Current \in [ptr : Conn \cup {NULL}, in : BOOLEAN, out : BOOLEAN, bad : BOOLEAN]
         /\ index \in Nat /\ index + 1 \in 0 .. Len(events)
<1>. DEFINE Event == [ptr : Conn \cup {NULL}, in : BOOLEAN, out : BOOLEAN, bad : BOOLEAN]
<1>1. events \in Seq(Event) /\ index \in 0 .. Len(events) /\ index < Len(events)
  BY DEF TypeOK, MoreEvents
<1>. HIDE DEF Event
<1>2. Len(events) \in Nat
  BY <1>1, LenProperties
<1>3. (IF index = 0 THEN 1 ELSE index) \in 1 .. Len(events)
  BY <1>1, <1>2
<1>4. Current \in Event
  BY <1>1, <1>3, ElementOfSeq DEF Current
<1>. QED  BY <1>1, <1>2, <1>4 DEF Event

LEMMA ReadPipeInv == WorkerInv /\ ReadPipe => WorkerInv'
<1>. SUFFICES ASSUME WorkerInv, ReadPipe PROVE WorkerInv'
  OBVIOUS
<1>1. pending' + taken' = pending + taken /\ pending' \in Nat /\ taken' \in Nat
  BY DEF ReadPipe, WorkerInv, TypeOK
<1>2. TypeOK' /\ RecordInv'
  BY <1>1 DEF ReadPipe, WorkerInv, TypeOK, RecordInv
<1>3. IdleInv' /\ ListInv'
  BY <1>1 DEF ReadPipe, WorkerInv, IdleInv, ListInv
<1>. QED  BY <1>2, <1>3 DEF WorkerInv

LEMMA OpenedRest ==
  ASSUME NEW s, Rest(s), ~s.live
  PROVE  Rest(Opened(s)) /\ Opened(s).live
<1>. s \in Record
  BY DEF Rest, Busy
<1>1. PICK t : t = Opened(s)
  OBVIOUS
<1>2. t \in Record
  BY <1>1, BufferAssumption DEF Opened, Record
<1>3. /\ t.live /\ t.isblocked = s.isblocked /\ t.readLength = s.readLength
      /\ t.rx = s.rx /\ t.rest = s.rest /\ t.reqs = s.reqs
  BY <1>1 DEF Opened, Record
<1>4. Account(t)
  BY <1>3 DEF Rest, Busy, Account
<1>5. ~s.isblocked
  BY DEF Rest, Busy, Blank
<1>. QED  BY <1>1, <1>2, <1>3, <1>4, <1>5 DEF Rest, Busy

(* Pushing to the timeout list what may be there already.                  *)
LEMMA WatchLinked ==
  ASSUME NEW h \in Heap, Linked(h), NEW c \in Conn, NEW g, g = WatchTimeout(h, c)
  PROVE  g \in Heap /\ Linked(g) /\ \A n \in Node : h.next[n] # NULL => g.next[n] # NULL
<1>1. CASE h.next[c] # NULL
  BY <1>1 DEF WatchTimeout, dmbNodeIsUsed
<1>2. CASE h.next[c] = NULL
  BY <1>2, PushLinked DEF WatchTimeout, dmbNodeIsUsed
<1>. QED  BY <1>1, <1>2

LEMMA NewConnectInv == WorkerInv /\ NewConnect => WorkerInv'
<1>. SUFFICES ASSUME WorkerInv, NewConnect PROVE WorkerInv'
  OBVIOUS
<1>1. /\ idleConnList \in Seq(Conn) /\ Distinct(idleConnList)
      /\ \A d \in Conn : Contains(idleConnList, d) => ~cn[d].live
      /\ pending \in Nat /\ taken \in Nat /\ pending + taken <= Len(idleConnList)
      /\ cn \in [Conn -> Record] /\ \A d \in Conn : Rest(cn[d])
      /\ timeoutConnList \in Heap /\ Linked(timeoutConnList) /\ phase = "foreach"
  BY DEF WorkerInv, TypeOK, RecordInv, IdleInv, ListInv, NewConnect, MoreEvents
<1>2. taken > 0 /\ Len(idleConnList) \in Nat /\ Len(idleConnList) > 0
  BY <1>1, LenProperties DEF NewConnect
<1>3. idleConnList # <<>>
  BY <1>1, <1>2, EmptySeq
<1>4. PICK c \in Conn : c = Head(idleConnList)
  BY <1>1, <1>3, TailFacts
<1>5. PICK l : l = Tail(idleConnList)
  OBVIOUS
<1>6. /\ l \in Seq(Conn) /\ Len(l) = Len(idleConnList) - 1 /\ Distinct(l)
      /\ \A x : Contains(l, x) => Contains(idleConnList, x) /\ x # c
  BY <1>1, <1>3, <1>4, <1>5, TailFacts
<1>7. Contains(idleConnList, c)
  BY <1>1, <1>2, <1>3, <1>4, HeadTailProperties DEF Contains
<1>8. PICK s : s = Opened(cn[c])
  OBVIOUS
<1>9. Rest(s) /\ s \in Record
  <2>1. Rest(s)
    BY <1>1, <1>7, <1>8, OpenedRest
  <2>. QED  BY <2>1 DEF Rest, Busy
<1>10. /\ cn' = [cn EXCEPT ![c] = s] /\ idleConnList' = l /\ taken' = taken - 1
       /\ timeoutConnList' = WatchTimeout(timeoutConnList, c) /\ ready' = ready \cup {c}
       /\ index' = (IF taken = 1 THEN index + 1 ELSE index)
       /\ UNCHANGED <<roundRobinList, pending, phase, events, iter>>
  BY <1>4, <1>5, <1>8 DEF NewConnect
<1>11. cn' \in [Conn -> Record] /\ RecordInv'
  BY <1>1, <1>9, <1>10 DEF RecordInv
<1>12. timeoutConnList' \in Heap /\ Linked(timeoutConnList')
  <2>1. PICK g : g = WatchTimeout(timeoutConnList, c)
    OBVIOUS
  <2>2. g \in Heap /\ Linked(g)
    BY <1>1, <2>1, WatchLinked
  <2>. QED  BY <1>10, <2>1, <2>2
<1>13. index' \in 0 .. Len(events')
  <2>1. index \in 0 .. Len(events) /\ index + 1 \in 0 .. Len(events)
    BY CurrentType DEF WorkerInv, TypeOK, NewConnect
  <2>. QED  BY <1>10, <2>1
<1>14. taken' \in Nat /\ pending' + taken' <= Len(idleConnList')
  BY <1>1, <1>2, <1>6, <1>10
<1>15. TypeOK'
  BY <1>6, <1>10, <1>11, <1>12, <1>13, <1>14 DEF WorkerInv, TypeOK
<1>16. \A d \in Conn : Contains(idleConnList', d) => ~cn'[d].live
  BY <1>1, <1>6, <1>10
<1>17. IdleInv'
  BY <1>1, <1>6, <1>10, <1>14, <1>16 DEF IdleInv
<1>18. ListInv'
  BY <1>1, <1>10, <1>12 DEF WorkerInv, ListInv
<1>. QED  BY <1>11, <1>15, <1>17, <1>18 DEF WorkerInv

LEMMA BadConnectInv == WorkerInv /\ BadConnect => WorkerInv'
<1>. SUFFICES ASSUME WorkerInv, BadConnect PROVE WorkerInv'
  OBVIOUS
<1>1. PICK c \in Conn : c = Current.ptr
  BY CurrentType DEF BadConnect, WorkerInv
<1>2. index' \in 0 .. Len(events) /\ phase = "foreach"
  BY CurrentType DEF BadConnect, WorkerInv, MoreEvents
<1>3. PICK s : s = CloseConnect(cn[c])
  OBVIOUS
<1>4. Rest(s) /\ ~s.live
  BY <1>3, CloseRest DEF WorkerInv, RecordInv, Rest
<1>5. roundRobinList' \in Heap /\ \E M : Around(roundRobinList', M)
  BY DEF BadConnect, WorkerInv, TypeOK, ListInv
<1>6. Update(c, s, FALSE) /\ UNCHANGED <<pending, taken, phase, events, iter>>
  BY <1>1, <1>3 DEF BadConnect
<1>. QED  BY <1>2, <1>4, <1>5, <1>6, UpdateInv

(* The record an event is about, with the flags the event sets.            *)
LEMMA EventBusy ==
  ASSUME NEW s, Rest(s), NEW t, t \in Record, t.early => s.early,
         t = [s EXCEPT !.canRead = t.canRead, !.canWrite = t.canWrite, !.early = t.early]
  PROVE  Busy(t) /\ t.live = s.live
<1>. s \in Record
  BY DEF Rest, Busy
<1>1. /\ t.live = s.live /\ t.isblocked = s.isblocked /\ t.readLength = s.readLength
      /\ t.rx = s.rx /\ t.rest = s.rest /\ t.reqs = s.reqs /\ t.writeLength = s.writeLength
  BY DEF Record
<1>2. Account(t)
  BY <1>1 DEF Rest, Busy, Account
<1>3. Blank(s) => Blank(t)
  BY ZenonT(40) DEF Blank, Record
<1>. QED  BY <1>1, <1>2, <1>3 DEF Rest, Busy

(* dmbProcessEvent, called with a round robin list that is as it should be.*)
LEMMA HandlerInv ==
  ASSUME WorkerInv, NEW c \in Conn, NEW s, Busy(s), s.live = cn[c].live,
         NEW h \in Heap, NEW M, Around(h, M), ProcessEvent(c, s, h),
         UNCHANGED <<pending, taken, phase, events, iter>>,
         index' \in 0 .. Len(events), phase = "foreach" \/ (phase = "rr" /\ index' = index)
  PROVE  WorkerInv'
<1>1. PICK e, w : /\ Rest(e) /\ (e.live => s.live) /\ Update(c, e, w)
                  /\ roundRobinList' \in {h, dmbListPushBack(h, Anchor, c)}
  BY EventRest
<1>2. PICK g : g = dmbListPushBack(h, Anchor, c)
  OBVIOUS
<1>3. g \in Heap /\ Around(g, M \cup {c})
  BY <1>2, PushAround
<1>4. roundRobinList' \in Heap /\ \E N : Around(roundRobinList', N)
  BY <1>1, <1>2, <1>3
<1>. QED  BY <1>1, <1>4, UpdateInv

LEMMA ConnEventInv == WorkerInv /\ ConnEvent => WorkerInv'
<1>. SUFFICES ASSUME WorkerInv, ConnEvent PROVE WorkerInv'
  OBVIOUS
<1>1. PICK c \in Conn : c = Current.ptr
  BY CurrentType DEF ConnEvent, WorkerInv
<1>2. index' \in 0 .. Len(events) /\ phase = "foreach"
  BY CurrentType DEF ConnEvent, WorkerInv, MoreEvents
<1>3. PICK a \in BOOLEAN, b \in BOOLEAN, e \in BOOLEAN :
        /\ a = (cn[c].canRead \/ Current.in) /\ b = (cn[c].canWrite \/ Current.out)
        /\ e = (cn[c].early /\ (cn[c].writeLength > 0 \/ cn[c].needClose \/ ~cn[c].registered))
  OBVIOUS
<1>4. PICK s : s = [cn[c] EXCEPT !.canRead = a, !.canWrite = b, !.early = e]
  OBVIOUS
<1>5. Busy(s) /\ s.live = cn[c].live
  <2>1. Rest(cn[c])
    BY DEF WorkerInv, RecordInv
  <2>2. cn[c] \in Record
    BY <2>1 DEF Rest, Busy
  <2>3. /\ s \in Record /\ (s.early => cn[c].early)
        /\ s = [cn[c] EXCEPT !.canRead = s.canRead, !.canWrite = s.canWrite, !.early = s.early]
    <3>1. PICK r : r = cn[c]
      OBVIOUS
    <3>2. r \in Record /\ s = [r EXCEPT !.canRead = a, !.canWrite = b, !.early = e]
      BY <1>4, <2>2, <3>1
    <3>3. s \in Record /\ s.canRead = a /\ s.canWrite = b /\ s.early = e
      BY <3>2, ZenonT(60) DEF Record
    <3>. QED  BY <1>3, <3>1, <3>2, <3>3
  <2>. QED  BY <2>1, <2>3, EventBusy
<1>6. PICK M : roundRobinList \in Heap /\ Around(roundRobinList, M)
  BY DEF WorkerInv, TypeOK, ListInv
<1>7. ProcessEvent(c, s, roundRobinList) /\ UNCHANGED <<pending, taken, phase, events, iter>>
  BY <1>1, <1>3, <1>4 DEF ConnEvent
<1>. QED  BY <1>2, <1>5, <1>6, <1>7, HandlerInv

LEMMA RoundRobinInv == WorkerInv /\ RoundRobin => WorkerInv'
<1>. SUFFICES ASSUME WorkerInv, RoundRobin PROVE WorkerInv'
  OBVIOUS
<1>1. PICK M : roundRobinList \in Heap /\ Around(roundRobinList, M)
  BY DEF WorkerInv, TypeOK, ListInv
<1>2. PICK h : h = dmbListPopFront(roundRobinList, Anchor)
  OBVIOUS
<1>3. FirstNode(roundRobinList, Anchor) \in M /\ h \in Heap /\ Around(h, M)
  BY <1>1, <1>2, PopAround
<1>4. FirstNode(roundRobinList, Anchor) # Anchor
  BY DEF RoundRobin, FirstNode, dmbListIsEmpty
<1>5. PICK c \in Conn : c = FirstNode(roundRobinList, Anchor)
  BY <1>1, <1>3, <1>4 DEF Around, Node
<1>6. Busy(cn[c])
  BY DEF WorkerInv, RecordInv, Rest
<1>7. /\ ProcessEvent(c, cn[c], h) /\ UNCHANGED <<pending, taken, phase, events, iter>>
      /\ phase = "rr" /\ index' = index
  BY <1>2, <1>5 DEF RoundRobin
<1>8. index' \in 0 .. Len(events)
  BY <1>7 DEF WorkerInv, TypeOK
<1>. QED  BY <1>3, <1>6, <1>7, <1>8, HandlerInv

LEMMA LoopsInv == WorkerInv /\ (EventsDone \/ RoundRobinDone \/ SweepDone) => WorkerInv'
<1>. SUFFICES ASSUME WorkerInv, EventsDone \/ RoundRobinDone \/ SweepDone
              PROVE  WorkerInv'
  OBVIOUS
<1>1. CASE EventsDone
  <2>1. events' \in Seq([ptr : Conn \cup {NULL}, in : BOOLEAN, out : BOOLEAN, bad : BOOLEAN])
        /\ index' \in 0 .. Len(events')
    BY <1>1, EmptySeq DEF EventsDone
  <2>2. TypeOK' /\ RecordInv'
    BY <1>1, <2>1 DEF EventsDone, WorkerInv, TypeOK, RecordInv
  <2>3. IdleInv' /\ ListInv'
    BY <1>1 DEF EventsDone, WorkerInv, IdleInv, ListInv
  <2>. QED  BY <2>2, <2>3 DEF WorkerInv
<1>2. CASE RoundRobinDone
  <2>1. iter' \in Node /\ timeoutConnList.next[iter'] # NULL
    <3>1. PICK pos : Ordered(timeoutConnList, pos)
      BY DEF WorkerInv, ListInv, Linked
    <3>2. iter' = timeoutConnList.next[Anchor] /\ Anchor \in Node
      BY <1>2 DEF RoundRobinDone, FirstNode, Node
    <3>. QED  BY <3>1, <3>2 DEF Ordered
  <2>2. TypeOK' /\ RecordInv'
    BY <1>2, <2>1 DEF RoundRobinDone, WorkerInv, TypeOK, RecordInv
  <2>3. IdleInv' /\ ListInv'
    BY <1>2, <2>1 DEF RoundRobinDone, WorkerInv, IdleInv, ListInv
  <2>. QED  BY <2>2, <2>3 DEF WorkerInv
<1>3. CASE SweepDone
  <2>1. TypeOK' /\ RecordInv'
    BY <1>3 DEF SweepDone, WorkerInv, TypeOK, RecordInv
  <2>2. IdleInv' /\ ListInv'
    BY <1>3 DEF SweepDone, WorkerInv, IdleInv, ListInv
  <2>. QED  BY <2>1, <2>2 DEF WorkerInv
<1>. QED  BY <1>1, <1>2, <1>3

(* The sweep's next node is known before its node is taken out, and stays  *)
(* on the list.                                                            *)
LEMMA NextIter ==
  ASSUME WorkerInv, phase = "sweep", iter # Anchor, iter' = timeoutConnList.next[iter],
         timeoutConnList' \in {timeoutConnList, Unwatch(iter)}
  PROVE  /\ iter \in Conn /\ iter' \in Node /\ timeoutConnList'.next[iter'] # NULL
         /\ timeoutConnList' \in Heap /\ Linked(timeoutConnList')
<1>1. /\ timeoutConnList \in Heap /\ Linked(timeoutConnList)
      /\ iter \in Conn /\ iter \in Node /\ timeoutConnList.next[iter] # NULL
  BY DEF WorkerInv, TypeOK, ListInv, Node
<1>2. iter' \in Node /\ timeoutConnList.next[iter'] # NULL
  BY <1>1 DEF Linked, Ordered
<1>3. PICK g : g = Unwatch(iter)
  OBVIOUS
<1>4. /\ g \in Heap /\ Linked(g) /\ iter' # iter
      /\ \A n \in Node : g.next[n] # NULL <=> timeoutConnList.next[n] # NULL /\ n # iter
  BY <1>1, <1>3, UnwatchLinked DEF Unwatch
<1>. QED  BY <1>1, <1>2, <1>3, <1>4

LEMMA SweepInv == WorkerInv /\ Sweep => WorkerInv'
<1>. SUFFICES ASSUME WorkerInv, Sweep PROVE WorkerInv'
  OBVIOUS
<1>1. /\ iter' \in Node /\ timeoutConnList'.next[iter'] # NULL
      /\ timeoutConnList' \in Heap /\ Linked(timeoutConnList')
  BY NextIter DEF Sweep
<1>2. UNCHANGED <<cn, idleConnList, ready, roundRobinList, pending, taken, phase, events, index>>
  BY DEF Sweep
<1>3. TypeOK' /\ RecordInv'
  BY <1>1, <1>2 DEF WorkerInv, TypeOK, RecordInv
<1>4. IdleInv' /\ ListInv'
  BY <1>1, <1>2 DEF WorkerInv, IdleInv, ListInv
<1>. QED  BY <1>3, <1>4 DEF WorkerInv

LEMMA SweepExpiredInv == WorkerInv /\ SweepExpired => WorkerInv'
<1>. SUFFICES ASSUME WorkerInv, SweepExpired PROVE WorkerInv'
  OBVIOUS
<1>1. /\ iter \in Conn /\ iter' \in Node /\ timeoutConnList'.next[iter'] # NULL
      /\ timeoutConnList' \in Heap /\ Linked(timeoutConnList')
  BY NextIter DEF SweepExpired
<1>2. PICK s : s = CloseConnect(cn[iter])
  OBVIOUS
<1>3. Rest(s) /\ ~s.live /\ s \in Record
  <2>1. Rest(s) /\ ~s.live
    BY <1>1, <1>2, CloseRest DEF WorkerInv, RecordInv, Rest
  <2>. QED  BY <2>1 DEF Rest, Busy
<1>4. /\ cn' = [cn EXCEPT ![iter] = s] /\ cn \in [Conn -> Record] /\ ready' = ready \ {iter}
      /\ idleConnList' = (IF cn[iter].live THEN Append(idleConnList, iter) ELSE idleConnList)
      /\ UNCHANGED <<roundRobinList, pending, taken, phase, events, index>>
  BY <1>2 DEF SweepExpired, WorkerInv, TypeOK
<1>5. cn' \in [Conn -> Record] /\ RecordInv'
  BY <1>1, <1>3, <1>4 DEF RecordInv, WorkerInv
<1>6. /\ idleConnList \in Seq(Conn) /\ Distinct(idleConnList) /\ Len(idleConnList) \in Nat
      /\ \A d \in Conn : Contains(idleConnList, d) => ~cn[d].live
  BY LenProperties DEF WorkerInv, TypeOK, IdleInv
<1>7. /\ idleConnList' \in Seq(Conn) /\ Distinct(idleConnList')
      /\ Len(idleConnList) <= Len(idleConnList') /\ Len(idleConnList') \in Nat
      /\ \A d \in Conn : Contains(idleConnList', d) => ~cn'[d].live
  <2>1. CASE cn[iter].live
    <3>1. ~Contains(idleConnList, iter)
      BY <1>1, <1>6, <2>1
    <3>2. PICK l : l = Append(idleConnList, iter)
      OBVIOUS
    <3>3. /\ l \in Seq(Conn) /\ Len(l) = Len(idleConnList) + 1 /\ Distinct(l)
          /\ \A x : Contains(l, x) => Contains(idleConnList, x) \/ x = iter
      BY <1>1, <1>6, <3>1, <3>2, AppendFacts
    <3>4. idleConnList' = l
      BY <1>4, <2>1, <3>2
    <3>5. \A d \in Conn : Contains(l, d) => ~cn'[d].live
      BY <1>1, <1>3, <1>4, <1>6, <3>3
    <3>. QED  BY <1>6, <3>3, <3>4, <3>5
  <2>2. CASE ~cn[iter].live
    <3>1. idleConnList' = idleConnList
      BY <1>4, <2>2
    <3>2. \A d \in Conn : cn'[d].live => cn[d].live
      BY <1>1, <1>3, <1>4
    <3>. QED  BY <1>6, <3>1, <3>2
  <2>. QED  BY <2>1, <2>2
<1>8. TypeOK'
  BY <1>1, <1>4, <1>5, <1>7 DEF WorkerInv, TypeOK
<1>9. IdleInv'
  <2>1. pending' + taken' <= Len(idleConnList')
    BY <1>4, <1>6, <1>7 DEF WorkerInv, TypeOK, IdleInv
  <2>. QED  BY <1>4, <1>7, <2>1 DEF WorkerInv, IdleInv
<1>10. ListInv'
  BY <1>1, <1>4 DEF WorkerInv, ListInv
<1>. QED  BY <1>5, <1>8, <1>9, <1>10 DEF WorkerInv

LEMMA NextWorker == WorkerInv /\ [Next]_vars => WorkerInv'
<1>. SUFFICES ASSUME WorkerInv, [Next]_vars PROVE WorkerInv'
  OBVIOUS
<1>1. CASE Clients
  BY <1>1, ClientsInv
<1>2. CASE WorkThread
  BY <1>2, PollInv, ReadPipeInv, NewConnectInv, BadConnectInv, ConnEventInv, LoopsInv,
     RoundRobinInv, SweepInv, SweepExpiredInv DEF WorkThread
<1>3. CASE UNCHANGED vars
  <2>1. TypeOK' /\ RecordInv'
    BY <1>3 DEF vars, WorkerInv, TypeOK, RecordInv
  <2>2. IdleInv' /\ ListInv'
    BY <1>3 DEF vars, WorkerInv, IdleInv, ListInv
  <2>. QED  BY <2>1, <2>2 DEF WorkerInv
<1>. QED  BY <1>1, <1>2, <1>3 DEF Next

-----------------------------------------------------------------------------
LEMMA WorkerCorrect == Spec => []WorkerInv
BY InitWorker, NextWorker, PTL DEF Spec

(* Every variable has its type in every reachable state: no count of bytes *)
(* becomes negative, a header is parsed only where a request is, and       *)
(* following the pointers of either list never leads out of its nodes,     *)
(* although nodes are pushed twice and taken out while they are visited.   *)
THEOREM TypesHold == Spec => []TypeOK
<1>1. WorkerInv => TypeOK
  BY DEF WorkerInv
<1>. QED  BY <1>1, WorkerCorrect, PTL

(* A record whose connection is closed holds nothing of it, however it was *)
(* closed and whatever event comes late: dmbNetworkCloseConnect resets all *)
(* that the next client of the record could see or suffer from.            *)
THEOREM RecordsBlank == Spec => []IdleIsBlank
<1>1. WorkerInv => IdleIsBlank
  <2>. SUFFICES ASSUME WorkerInv, NEW c \in Conn, ~cn[c].live
                PROVE  [cn[c] EXCEPT !.canRead = FALSE, !.canWrite = FALSE] = Closed
    BY DEF IdleIsBlank
  <2>1. cn[c] \in Record /\ Blank(cn[c])
    BY DEF WorkerInv, RecordInv, Rest, Busy
  <2>2. PICK s \in Record : s = cn[c] /\ ~s.live /\ Blank(s)
    BY <2>1
  <2>3. PICK t \in Record : t = [s EXCEPT !.canRead = FALSE, !.canWrite = FALSE]
    BY DEF Record
  <2>4. t = [live |-> t.live, canRead |-> t.canRead, canWrite |-> t.canWrite,
             isblocked |-> t.isblocked, readLength |-> t.readLength, magic |-> t.magic,
             version |-> t.version, length |-> t.length, writeIndex |-> t.writeIndex,
             writeLength |-> t.writeLength, needClose |-> t.needClose,
             timeout |-> t.timeout, early |-> t.early, odd |-> t.odd,
             registered |-> t.registered, hangup |-> t.hangup, rx |-> t.rx, space |-> t.space, reqs |-> t.reqs, rest |-> t.rest,
             quota |-> t.quota]
    BY DEF Record
  <2>5. /\ t.live = FALSE /\ t.canRead = FALSE /\ t.canWrite = FALSE /\ t.isblocked = FALSE
        /\ t.readLength = 0 /\ t.magic = FALSE /\ t.version = FALSE /\ t.length = FALSE
        /\ t.writeIndex = 0 /\ t.writeLength = 0 /\ t.needClose = FALSE
        /\ t.timeout = FALSE /\ t.early = FALSE /\ t.odd = FALSE
        /\ t.registered = FALSE /\ t.hangup = FALSE /\ t.rx = 0 /\ t.space = SendCap /\ t.reqs = <<>> /\ t.rest = FALSE /\ t.quota = 0
    BY <2>2, <2>3 DEF Record, Blank
  <2>6. t = Closed
    BY <2>4, <2>5, Zenon DEF Closed
  <2>. QED  BY <2>2, <2>3, <2>6
<1>. QED  BY <1>1, WorkerCorrect, PTL

-----------------------------------------------------------------------------
(* Responses.                                                              *)

(* Nothing was sent on the connection, and nothing is to be answered.      *)
Fresh(s) == s.space = SendCap /\ (s.early \/ (~s.canRead /\ s.readLength = 0))

(* A response goes to the kernel, or one is waiting for an edge.           *)
Writable(s) == ~s.live \/ s.canWrite \/ s.isblocked

(* What holds of a record all the time.                                    *)
Framed(s) ==
  /\ s.writeLength = 0 => s.writeIndex = 0
  /\ s.early \/ s.writeIndex + s.writeLength <= WriteBuf
  /\ Writable(s) \/ Fresh(s)

(* What processData leaves, and what writeData leaves.                     *)
Served(s) == Framed(s) /\ (s.early \/ s.writeLength = 0 \/ s.isblocked \/ s.canWrite)
Sound(s)  == Framed(s) /\ (s.early \/ s.writeLength = 0 \/ s.isblocked)

SoundInv == \A c \in Conn : Sound(cn[c])

(* The events not handled yet are about different connections.  They are   *)
(* open, unless the first event, which is handled twice, has closed its    *)
(* own, and the first event of a connection says that it can be written.   *)
EventsInv ==
  /\ phase # "foreach" => events = <<>>
  /\ \A c \in Conn : c \in ready => cn[c].registered
  /\ \A j, k \in DOMAIN events : events[j].ptr = events[k].ptr => j = k
  /\ \A k \in DOMAIN events : \A c \in Conn :
       k >= index /\ events[k].ptr = c =>
         /\ Writable(cn[c]) \/ events[k].out
         /\ cn[c].live \/ (k = 1 /\ index = 1)

-----------------------------------------------------------------------------
(* What readData, processData and writeData make of a record.              *)

LEMMA ClosedSound ==
  ASSUME NEW s, Busy(s), ~s.live
  PROVE  Sound(s) /\ Writable(s)
<1>1. s.writeLength = 0 /\ s.writeIndex = 0
  BY DEF Busy, Blank
<1>2. s.writeIndex + s.writeLength <= WriteBuf
  BY <1>1, BufferAssumption
<1>. QED  BY <1>1, <1>2 DEF Sound, Framed, Writable

(* Only these fields matter.                                               *)
LEMMA SameSound ==
  ASSUME NEW s, NEW t,
         t.live = s.live, t.canWrite = s.canWrite, t.isblocked = s.isblocked,
         t.space = s.space, t.early = s.early, t.writeIndex = s.writeIndex,
         t.writeLength = s.writeLength, Writable(s) \/ s.early \/ ~Fresh(s)
  PROVE  (Sound(s) => Sound(t)) /\ (Writable(s) => Writable(t))
BY DEF Sound, Framed, Writable, Fresh

LEMMA ReadSound ==
  ASSUME NEW s, Busy(s), Sound(s), NEW r \in ReadData(s)
  PROVE  Sound(r.s) /\ (Writable(s) => Writable(r.s))
<1>. s \in Record
  BY DEF Busy
<1>0. Busy(r.s)
  BY ReadBusy
<1>1. CASE ~s.canRead
  BY <1>1 DEF ReadData, Result
<1>2. CASE ~r.s.live
  BY <1>0, <1>2, ClosedSound
<1>3. CASE s.canRead /\ r.s.live
  <2>1. PICK k : k = Lesser(s.rx, ReadBuf - s.readLength)
    OBVIOUS
  <2>2. PICK g : g = [s EXCEPT !.rx = @ - k, !.readLength = @ + k]
    OBVIOUS
  <2>3. PICK u : u = [s EXCEPT !.timeout = TRUE]
    OBVIOUS
  <2>4. PICK v : v = [[g EXCEPT !.canRead = FALSE] EXCEPT !.timeout = TRUE]
    OBVIOUS
  <2>5. r.s \in {u, g, v} \/ r.s = CloseConnect(s) \/ r.s = CloseConnect(g)
    BY <1>3, <2>1, <2>2, <2>3, <2>4 DEF ReadData, ReadNothing, Result, Watched
  <2>6. /\ g.live = s.live /\ g.canWrite = s.canWrite /\ g.isblocked = s.isblocked
        /\ g.space = s.space /\ g.early = s.early /\ g.writeIndex = s.writeIndex
        /\ g.writeLength = s.writeLength
    BY <2>2 DEF Record
  <2>7. /\ u.live = s.live /\ u.canWrite = s.canWrite /\ u.isblocked = s.isblocked
        /\ u.space = s.space /\ u.early = s.early /\ u.writeIndex = s.writeIndex
        /\ u.writeLength = s.writeLength
    BY <2>3 DEF Record
  <2>8. v = [s EXCEPT !.rx = @ - k, !.readLength = @ + k, !.canRead = FALSE, !.timeout = TRUE]
    BY <2>2, <2>4 DEF Record
  <2>9. /\ v.live = s.live /\ v.canWrite = s.canWrite /\ v.isblocked = s.isblocked
        /\ v.space = s.space /\ v.early = s.early /\ v.writeIndex = s.writeIndex
        /\ v.writeLength = s.writeLength
    BY <2>8 DEF Record
  <2>10. ~CloseConnect(s).live /\ (CloseConnect(g).live => FALSE)
    BY DEF CloseConnect, Closed
  <2>11. s.early \/ ~Fresh(s)
    BY <1>3 DEF Fresh
  <2>12. /\ Sound(u) /\ (Writable(s) => Writable(u))
         /\ Sound(g) /\ (Writable(s) => Writable(g))
         /\ Sound(v) /\ (Writable(s) => Writable(v))
    BY <2>6, <2>7, <2>9, <2>11, SameSound
  <2>. QED  BY <1>3, <2>5, <2>10, <2>12
<1>4. r.s.live \in BOOLEAN /\ s.canRead \in BOOLEAN
  BY <1>0 DEF Busy, Record
<1>. QED  BY <1>1, <1>2, <1>3, <1>4

(* A response starts where the one before it ended, which is the start of  *)
(* writeBuf, and fits.                                                     *)
LEMMA MakeSound ==
  ASSUME NEW s, s \in Record, Sound(s), s.live, ~s.isblocked, Writable(s) \/ s.early,
         NEW p, p \in Record, NEW i \in Nat, NEW n \in Nat, n > 0, n <= WriteBuf,
         i \in {0, s.writeIndex},
         p.live = s.live, p.canWrite = s.canWrite, p.isblocked = s.isblocked,
         p.space = s.space, p.early = s.early, p.writeIndex = i,
         p.writeLength = s.writeLength + n
  PROVE  Served(p) /\ (Writable(s) => Writable(p))
<1>1. s.writeLength \in Nat /\ s.writeIndex \in Nat /\ p.writeLength # 0
  BY DEF Record
<1>2. s.early \/ (s.writeLength = 0 /\ s.writeIndex = 0)
  BY DEF Sound, Framed
<1>3. s.early \/ p.writeIndex + p.writeLength <= WriteBuf
  BY <1>1, <1>2, BufferAssumption
<1>4. (Writable(s) => Writable(p)) /\ (Writable(p) \/ Fresh(p))
  BY DEF Sound, Framed, Writable, Fresh
<1>5. p.early \/ p.canWrite
  BY DEF Writable
<1>. QED  BY <1>1, <1>3, <1>4, <1>5 DEF Served, Framed

LEMMA ProcessSound ==
  ASSUME NEW s, Busy(s), Sound(s), ~s.isblocked
  PROVE  Served(ProcessData(s).s) /\ (Writable(s) => Writable(ProcessData(s).s))
<1>. s \in Record
  BY DEF Busy
<1>1. CASE s.readLength < Hdr
  BY <1>1 DEF ProcessData, Result, Sound, Served
<1>2. CASE ~(s.readLength < Hdr)
  <2>1. s.readLength >= Hdr /\ s.readLength # 0
    BY <1>2, BufferAssumption DEF Record
  <2>2. PICK p : p = ParsePkgHeader(s).s
    OBVIOUS
  <2>3. /\ s.live /\ Busy(p)
        /\ \E x, y, z \in BOOLEAN : p = [s EXCEPT !.magic = x, !.version = y, !.length = z]
    BY <2>1, <2>2, ParseBusy
  <2>4. p \in Record /\ p.live /\ ~p.isblocked
    <3>1. PICK x, y, z \in BOOLEAN : p = [s EXCEPT !.magic = x, !.version = y, !.length = z]
      BY <2>3
    <3>2. p.live = s.live /\ p.isblocked = s.isblocked
      BY <3>1 DEF Record
    <3>. QED  BY <2>3, <3>2 DEF Busy
  <2>5. /\ p.live = s.live /\ p.canWrite = s.canWrite /\ p.isblocked = s.isblocked
        /\ p.space = s.space /\ p.early = s.early /\ p.writeIndex = s.writeIndex
        /\ p.writeLength = s.writeLength /\ p.readLength = s.readLength
    <3>1. PICK x, y, z \in BOOLEAN : p = [s EXCEPT !.magic = x, !.version = y, !.length = z]
      BY <2>3
    <3>. QED  BY <3>1 DEF Record
  <2>6. Writable(s) \/ s.early
    BY <2>1 DEF Sound, Framed, Fresh
  <2>7. Sound(p) /\ (Writable(s) => Writable(p)) /\ (Writable(p) \/ p.early)
    BY <2>5, <2>6, SameSound DEF Writable
  <2>8. Served(p)
    BY <2>7 DEF Sound, Served
  <2>9. /\ p.writeIndex \in Nat /\ p.writeLength \in Nat /\ Hdr \in Nat /\ ReqSize \in Nat
        /\ Hdr > 0 /\ ReqSize > 0 /\ Hdr <= WriteBuf
    BY <2>4, SizeFacts, BufferAssumption DEF Record
  <2>10. PICK e : e = MakeErrorResponse(p)
    OBVIOUS
  <2>11. Served(e) /\ (Writable(p) => Writable(e))
    <3>1. PICK a \in Nat : a = p.writeLength + Hdr
      BY <2>9
    <3>2. e = [p EXCEPT !.needClose = TRUE, !.writeIndex = 0, !.writeLength = a]
      BY <2>10, <3>1 DEF MakeErrorResponse
    <3>3. e \in Record
      BY <2>4, <3>2 DEF Record
    <3>4. /\ e.live = p.live /\ e.canWrite = p.canWrite /\ e.isblocked = p.isblocked
          /\ e.space = p.space /\ e.early = p.early /\ e.writeIndex = 0
          /\ e.writeLength = a
      BY <2>4, <3>2 DEF Record
    <3>5. 0 \in Nat /\ 0 \in {0, p.writeIndex} /\ e.writeLength = p.writeLength + Hdr
      BY <3>1, <3>4
    <3>. QED  BY <2>4, <2>7, <2>9, <3>3, <3>4, <3>5, MakeSound
  <2>12. ASSUME NEW code, NEW g, g = MakeResponseWithData(p, code)
         PROVE  g \in Record /\ Served(g) /\ (Writable(p) => Writable(g))
    <3>1. CASE ReqSize > WriteBuf
      <4>1. PICK a \in Nat : a = p.writeLength + Hdr
        BY <2>9
      <4>2. g = [p EXCEPT !.needClose = TRUE, !.writeIndex = 0, !.writeLength = a]
        BY <2>12, <3>1, <4>1 DEF MakeResponseWithData
      <4>3. g \in Record
        BY <2>4, <4>2 DEF Record
      <4>4. /\ g.live = p.live /\ g.canWrite = p.canWrite /\ g.isblocked = p.isblocked
            /\ g.space = p.space /\ g.early = p.early /\ g.writeIndex = 0
            /\ g.writeLength = a
        BY <2>4, <4>2 DEF Record
      <4>5. 0 \in Nat /\ 0 \in {0, p.writeIndex} /\ g.writeLength = p.writeLength + Hdr
        BY <4>1, <4>4
      <4>. QED  BY <2>4, <2>7, <2>9, <4>3, <4>4, <4>5, MakeSound
    <3>2. CASE ~(ReqSize > WriteBuf)
      <4>1. PICK a \in Nat : a = p.writeLength + ReqSize
        BY <2>9
      <4>0. PICK x \in BOOLEAN : x = (code # "OK")
        OBVIOUS
      <4>2. g = [p EXCEPT !.needClose = x, !.writeLength = a]
        BY <2>12, <3>2, <4>0, <4>1 DEF MakeResponseWithData
      <4>3. g \in Record
        BY <2>4, <4>2, ZenonT(40) DEF Record
      <4>4. /\ g.live = p.live /\ g.canWrite = p.canWrite /\ g.isblocked = p.isblocked
            /\ g.space = p.space /\ g.early = p.early /\ g.writeIndex = p.writeIndex
            /\ g.writeLength = a
        BY <2>4, <4>2 DEF Record
      <4>5. ReqSize <= WriteBuf /\ g.writeLength = p.writeLength + ReqSize
        BY <2>9, <3>2, <4>1, <4>4, BufferAssumption
      <4>. QED  BY <2>4, <2>7, <2>9, <4>1, <4>3, <4>4, <4>5, MakeSound
    <3>. QED  BY <3>1, <3>2
  <2>13. PICK g : g = MakeResponseWithData(p, "OUT_OF_READBUF")
    OBVIOUS
  <2>14. PICK h : h = MakeResponseWithData(p, "OK")
    OBVIOUS
  <2>15. /\ Served(g) /\ (Writable(p) => Writable(g))
         /\ h \in Record /\ Served(h) /\ (Writable(p) => Writable(h))
    BY <2>12, <2>13, <2>14
  <2>16. PICK t : t = [h EXCEPT !.readLength = @ - ReqSize, !.reqs = Tail(@),
                                !.magic = FALSE, !.version = FALSE, !.length = FALSE]
    OBVIOUS
  <2>17. Served(t) /\ (Writable(h) => Writable(t))
    <3>1. /\ t.live = h.live /\ t.canWrite = h.canWrite /\ t.isblocked = h.isblocked
          /\ t.space = h.space /\ t.early = h.early /\ t.writeIndex = h.writeIndex
          /\ t.writeLength = h.writeLength
      BY <2>15, <2>16 DEF Record
    <3>2. Writable(h) \/ h.early
      <4>1. h.early = p.early
        BY <2>4, <2>14 DEF MakeResponseWithData, Record
      <4>. QED  BY <2>7, <2>15, <4>1
    <3>. QED  BY <2>15, <3>1, <3>2 DEF Served, Framed, Writable, Fresh
  <2>18. ProcessData(s).s \in {e, g, p, t}
    BY <1>2, <2>2, <2>10, <2>13, <2>14, <2>16 DEF ProcessData, Result
  <2>. QED  BY <2>7, <2>8, <2>11, <2>15, <2>17, <2>18
<1>. QED  BY <1>1, <1>2
(* writeData writes all, or is blocked, or has nothing to do.              *)
LEMMA WriteSound ==
  ASSUME NEW s, Busy(s), Served(s), NEW t \in WriteData(s)
  PROVE  Sound(t.s) /\ (Writable(s) => Writable(t.s))
<1>. s \in Record
  BY DEF Busy
<1>1. CASE s.writeLength = 0 \/ ~s.canWrite
  <2>1. t.s = s
    BY <1>1 DEF WriteData, Result
  <2>. QED  BY <1>1, <2>1 DEF Served, Sound
<1>2. CASE t = Result(CloseConnect(s), "ERROR")
  <2>1. Busy(t.s) /\ ~t.s.live
    BY <1>2, CloseRest DEF Result, Rest
  <2>. QED  BY <2>1, ClosedSound
<1>3. CASE s.writeLength # 0 /\ s.canWrite /\ t # Result(CloseConnect(s), "ERROR")
  <2>1. PICK k : k = Lesser(s.space, s.writeLength)
    OBVIOUS
  <2>2. k \in Nat /\ k <= s.space /\ k <= s.writeLength
    BY <2>1, LesserFacts DEF Record
  <2>3. PICK a \in Nat, i \in Nat, b \in Nat :
          a = s.space - k /\ i = s.writeIndex + k /\ b = s.writeLength - k
    BY <2>2 DEF Record
  <2>4. PICK g : g = [s EXCEPT !.space = a, !.writeIndex = i, !.writeLength = b]
    OBVIOUS
  <2>5. g = [s EXCEPT !.space = @ - k, !.writeIndex = @ + k, !.writeLength = @ - k]
    BY <2>3, <2>4
  <2>6. t = IF g.writeLength = 0
            THEN Result([g EXCEPT !.isblocked = FALSE, !.writeIndex = 0], "OK")
            ELSE Watched([g EXCEPT !.canWrite = FALSE, !.isblocked = TRUE], "AGAIN")
    BY <1>3, <2>1, <2>5 DEF WriteData
  <2>7. g.writeLength = b
    BY <2>4 DEF Record
  <2>8. CASE b = 0
    <3>1. PICK e : e = t.s
      OBVIOUS
    <3>2. e = [g EXCEPT !.isblocked = FALSE, !.writeIndex = 0]
      BY <2>6, <2>7, <2>8, <3>1 DEF Result
    <3>3. /\ e.canWrite = s.canWrite /\ e.writeIndex = 0 /\ e.writeLength = 0
      BY <2>4, <2>8, <3>2 DEF Record
    <3>4. e.writeIndex + e.writeLength <= WriteBuf
      BY <3>3, BufferAssumption
    <3>. QED  BY <1>3, <3>1, <3>3, <3>4 DEF Sound, Framed, Writable
  <2>9. CASE b # 0
    <3>1. PICK e : e = t.s
      OBVIOUS
    <3>2. e = [s EXCEPT !.space = a, !.writeIndex = i, !.writeLength = b,
                        !.canWrite = FALSE, !.isblocked = TRUE, !.timeout = TRUE]
      BY <2>4, <2>6, <2>7, <2>9, <3>1 DEF Watched, Record
    <3>3. /\ e.isblocked = TRUE /\ e.writeIndex = i /\ e.writeLength = b
          /\ e.early = s.early
      BY <3>2 DEF Record
    <3>4. i + b = s.writeIndex + s.writeLength
      <4>1. s.writeIndex \in Nat /\ s.writeLength \in Nat
        BY DEF Record
      <4>. QED  BY <2>2, <2>3, <4>1
    <3>5. e.early \/ e.writeIndex + e.writeLength <= WriteBuf
      BY <3>3, <3>4 DEF Served, Framed
    <3>. QED  BY <2>9, <3>1, <3>3, <3>5 DEF Sound, Framed, Writable
  <2>. QED  BY <2>8, <2>9
<1>. QED  BY <1>1, <1>2, <1>3

(* dmbProcessEvent leaves the record sound.                                *)
LEMMA HandlerSound ==
  ASSUME NEW c, NEW s, NEW list, Busy(s), Sound(s), ProcessEvent(c, s, list)
  PROVE  \E e, w : Sound(e) /\ (Writable(s) => Writable(e)) /\ Update(c, e, w)
<1>1. PICK r \in ReadData(s) :
        IF r.code \in {"ERROR", "CLOSED"}
        THEN Update(c, r.s, r.watch) /\ roundRobinList' = list
        ELSE \E d \in IF r.s.isblocked THEN {Result(r.s, x) : x \in Garbage}
                      ELSE {ProcessData(r.s)} :
             \E t \in WriteData(d.s) :
               IF t.s.needClose /\ t.s.writeLength = 0
               THEN /\ Update(c, [t.s EXCEPT !.registered = FALSE], r.watch \/ t.watch)
                    /\ roundRobinList' = list
               ELSE /\ Update(c, t.s, r.watch \/ t.watch)
                    /\ roundRobinList' =
                         IF AllDone(r.code, d.code, t.code) THEN list
                         ELSE dmbListPushBack(list, Anchor, c)
  BY DEF ProcessEvent
<1>2. Busy(r.s) /\ Sound(r.s) /\ (Writable(s) => Writable(r.s))
  BY ReadBusy, ReadSound
<1>3. CASE r.code \in {"ERROR", "CLOSED"}
  BY <1>1, <1>2, <1>3
<1>4. CASE r.code \notin {"ERROR", "CLOSED"}
  <2>1. PICK d \in IF r.s.isblocked THEN {Result(r.s, x) : x \in Garbage}
                   ELSE {ProcessData(r.s)} :
          \E t \in WriteData(d.s) : \E w :
            \/ Update(c, [t.s EXCEPT !.registered = FALSE], w)
            \/ Update(c, t.s, w)
    BY <1>1, <1>4
  <2>2. Busy(d.s) /\ Served(d.s) /\ (Writable(r.s) => Writable(d.s))
    <3>1. CASE r.s.isblocked
      BY <1>2, <2>1, <3>1 DEF Result, Sound, Served
    <3>2. CASE ~r.s.isblocked
      BY <1>2, <2>1, <3>2, ProcessBusy, ProcessSound
    <3>. QED  BY <3>1, <3>2
  <2>3. PICK t \in WriteData(d.s) : \E w :
            \/ Update(c, [t.s EXCEPT !.registered = FALSE], w)
            \/ Update(c, t.s, w)
    BY <2>1
  <2>4. Rest(t.s) /\ Sound(t.s) /\ (Writable(d.s) => Writable(t.s))
    BY <2>2, WriteRest, WriteSound
  <2>5. PICK u : u = [t.s EXCEPT !.registered = FALSE]
    OBVIOUS
  <2>6. Sound(u) /\ (Writable(t.s) => Writable(u))
    <3>1. t.s \in Record
      BY <2>4 DEF Rest, Busy
    <3>2. PICK v : v = t.s
      OBVIOUS
    <3>3. v \in Record /\ u = [v EXCEPT !.registered = FALSE] /\ Sound(v)
      BY <2>4, <2>5, <3>1, <3>2
    <3>4. /\ u.live = v.live /\ u.canWrite = v.canWrite /\ u.isblocked = v.isblocked
          /\ u.space = v.space /\ u.early = v.early /\ u.writeIndex = v.writeIndex
          /\ u.writeLength = v.writeLength /\ u.canRead = v.canRead
          /\ u.readLength = v.readLength
      BY <3>3 DEF Record
    <3>. QED  BY <3>2, <3>3, <3>4 DEF Sound, Framed, Writable, Fresh
  <2>. QED  BY <1>2, <2>2, <2>3, <2>4, <2>5, <2>6
<1>. QED  BY <1>3, <1>4

-----------------------------------------------------------------------------
(* The steps.  RespInv is what they preserve besides WorkerInv.            *)

RespInv == SoundInv /\ EventsInv

LEMMA InitResponse == Init => RespInv
<1>. SUFFICES ASSUME Init PROVE RespInv
  OBVIOUS
<1>1. \A c \in Conn : cn[c] = Closed
  BY DEF Init
<1>2. SoundInv
  BY <1>1, ClosedRest, ClosedSound DEF SoundInv, Rest, Closed
<1>3. EventsInv
  BY DEF Init, EventsInv
<1>. QED  BY <1>2, <1>3 DEF RespInv

(* What a client cannot change, and the room in the kernel's buffer.       *)
Alike(s, t) ==
  /\ s.live = t.live /\ s.canWrite = t.canWrite /\ s.isblocked = t.isblocked
  /\ s.early = t.early /\ s.writeIndex = t.writeIndex
  /\ s.writeLength = t.writeLength /\ s.canRead = t.canRead
  /\ s.readLength = t.readLength /\ s.registered = t.registered
  /\ s.space \in {t.space, SendCap}

(* A client's step changes nothing of this but the room in the kernel.     *)
LEMMA ClientResponse ==
  ASSUME WorkerInv, RespInv, NEW c \in Conn, NEW s, s \in Record, Client(c, s),
         Alike(s, cn[c]), Edge(c) \/ ready' = ready
  PROVE  RespInv'
<1>1. /\ cn' = [cn EXCEPT ![c] = s] /\ cn \in [Conn -> Record]
      /\ UNCHANGED <<phase, events, index>>
  BY DEF Client, WorkerInv, TypeOK
<1>2. Sound(cn[c])
  BY DEF RespInv, SoundInv
<1>3. Sound(s) /\ (Writable(cn[c]) => Writable(s))
  <2>1. Fresh(cn[c]) => Fresh(s)
    BY DEF Fresh, Alike
  <2>2. Writable(cn[c]) <=> Writable(s)
    BY DEF Writable, Alike
  <2>. QED  BY <1>2, <2>1, <2>2 DEF Sound, Framed, Alike
<1>4. SoundInv'
  BY <1>1, <1>3 DEF RespInv, SoundInv
<1>5. /\ \A d \in Conn : /\ cn'[d].live = cn[d].live /\ cn'[d].registered = cn[d].registered
                         /\ Writable(cn[d]) => Writable(cn'[d])
  BY <1>1, <1>3 DEF Alike
<1>6. \A d \in Conn : d \in ready' => cn'[d].registered
  BY <1>5 DEF Edge, RespInv, EventsInv
<1>7. EventsInv'
  BY <1>1, <1>5, <1>6 DEF RespInv, EventsInv
<1>. QED  BY <1>4, <1>7 DEF RespInv

LEMMA ClientsResponse == WorkerInv /\ RespInv /\ Clients => RespInv'
<1>. SUFFICES ASSUME WorkerInv, RespInv, Clients PROVE RespInv'
  OBVIOUS
<1>1. CASE HandOver
  <2>1. /\ UNCHANGED <<cn, phase, events, index>> /\ ready' = ready \cup {NULL}
    BY <1>1 DEF HandOver
  <2>2. \A c \in Conn : c \in ready' => c \in ready
    BY <2>1, NodeAssumption
  <2>3. EventsInv'
    BY <2>1, <2>2 DEF RespInv, EventsInv
  <2>. QED  BY <2>1, <2>3 DEF RespInv, SoundInv
<1>2. ASSUME NEW c \in Conn, (\E kind \in Kinds : Send(c, kind)) \/ SendRest(c)
                             \/ ClientRead(c) \/ HangUp(c)
      PROVE  RespInv'
  <2>1. cn[c] \in Record
    BY DEF WorkerInv, TypeOK
  <2>2. WorkerInv'
    BY ClientsInv
  <2>3. PICK s : Client(c, s) /\ Alike(s, cn[c])
    <3>1. PICK t \in Record : t = cn[c]
      BY <2>1
    <3>2. ASSUME NEW kind \in Kinds, Send(c, kind) PROVE \E s : Client(c, s) /\ Alike(s, t)
      <4>1. PICK part \in BOOLEAN :
              Client(c, [t EXCEPT !.quota = @ - 1, !.reqs = Append(@, kind),
                               !.rx = @ + (IF part THEN Hdr ELSE ReqSize),
                               !.rest = part, !.odd = @ \/ kind \in HostKinds])
        BY <3>1, <3>2 DEF Send
      <4>2. PICK s : s = [t EXCEPT !.quota = @ - 1, !.reqs = Append(@, kind),
                               !.rx = @ + (IF part THEN Hdr ELSE ReqSize),
                               !.rest = part, !.odd = @ \/ kind \in HostKinds]
        OBVIOUS
      <4>3. Alike(s, t)
        BY <4>2 DEF Record, Alike
      <4>. QED  BY <4>1, <4>2, <4>3
    <3>3. ASSUME SendRest(c) PROVE \E s : Client(c, s) /\ Alike(s, t)
      <4>1. PICK s : s = [t EXCEPT !.rx = @ + Body, !.rest = FALSE]
        OBVIOUS
      <4>2. Alike(s, t)
        BY <4>1 DEF Record, Alike
      <4>. QED  BY <3>1, <3>3, <4>1, <4>2 DEF SendRest
    <3>4. ASSUME ClientRead(c) PROVE \E s : Client(c, s) /\ Alike(s, t)
      <4>1. PICK s : s = [t EXCEPT !.space = SendCap]
        OBVIOUS
      <4>2. Alike(s, t)
        BY <4>1 DEF Record, Alike
      <4>. QED  BY <3>1, <3>4, <4>1, <4>2 DEF ClientRead
    <3>5. ASSUME HangUp(c) PROVE \E s : Client(c, s) /\ Alike(s, t)
      <4>1. PICK s : s = [t EXCEPT !.hangup = TRUE]
        OBVIOUS
      <4>2. Alike(s, t)
        BY <4>1 DEF Record, Alike
      <4>. QED  BY <3>1, <3>5, <4>1, <4>2 DEF HangUp
    <3>. QED  BY <1>2, <3>1, <3>2, <3>3, <3>4, <3>5
  <2>4. s \in Record
    <3>1. cn' = [cn EXCEPT ![c] = s] /\ cn' \in [Conn -> Record] /\ cn \in [Conn -> Record]
      BY <2>2, <2>3 DEF Client, WorkerInv, TypeOK
    <3>2. cn'[c] = s
      BY <3>1
    <3>. QED  BY <3>1, <3>2
  <2>7. Edge(c) \/ ready' = ready
    BY <1>2 DEF Send, SendRest, ClientRead, HangUp
  <2>. QED  BY <2>3, <2>4, <2>7, ClientResponse
<1>. QED  BY <1>1, <1>2 DEF Clients

(* The end of a handler, or of a close, for the record of the event the    *)
(* loop is at, or of the node from the round robin list.                   *)
LEMMA UpdateResponse ==
  ASSUME WorkerInv, RespInv, NEW c \in Conn, NEW s, Rest(s), Sound(s),
         cn' = [cn EXCEPT ![c] = s], UNCHANGED <<phase, events>>,
         \A d \in Conn : d \in ready' => d \in ready /\ (d = c => s.registered),
         \/ phase # "foreach"
         \/ MoreEvents /\ Current.ptr = c /\ index' = index + 1 /\ Writable(s)
  PROVE  RespInv'
<1>1. cn \in [Conn -> Record] /\ s \in Record
  BY DEF WorkerInv, TypeOK, Rest, Busy
<1>2. SoundInv'
  BY <1>1 DEF RespInv, SoundInv
<1>3. \A d \in Conn : d \in ready' => cn'[d].registered
  BY <1>1 DEF RespInv, EventsInv
<1>4. CASE phase # "foreach"
  <2>1. events = <<>>
    BY <1>4 DEF RespInv, EventsInv
  <2>2. DOMAIN events' = {}
    BY <2>1
  <2>3. EventsInv'
    BY <1>3, <1>4, <2>1, <2>2 DEF EventsInv
  <2>. QED  BY <1>2, <2>3 DEF RespInv
<1>5. CASE MoreEvents /\ Current.ptr = c /\ index' = index + 1 /\ Writable(s)
  <2>1. index \in Nat /\ index < Len(events) /\ Len(events) \in Nat
        /\ DOMAIN events = 1 .. Len(events) /\ phase = "foreach"
    BY <1>5, CurrentType, LenProperties DEF WorkerInv, TypeOK, MoreEvents
  <2>2. PICK p \in DOMAIN events : p = (IF index = 0 THEN 1 ELSE index) /\ events[p].ptr = c
    BY <1>5, <2>1 DEF Current
  <2>3. \A j, k \in DOMAIN events' : events'[j].ptr = events'[k].ptr => j = k
    BY DEF RespInv, EventsInv
  <2>4. ASSUME NEW k \in DOMAIN events, NEW d \in Conn, k >= index', events[k].ptr = d
        PROVE  /\ Writable(cn'[d]) \/ events[k].out
               /\ cn'[d].live \/ (k = 1 /\ index' = 1)
    <3>1. CASE d = c
      <4>1. k = p
        BY <2>2, <2>4, <3>1 DEF RespInv, EventsInv
      <4>2. k = 1 /\ index' = 1
        BY <1>5, <2>1, <2>2, <2>4, <4>1
      <4>3. cn'[d] = s
        BY <1>1, <3>1
      <4>. QED  BY <1>5, <4>2, <4>3
    <3>2. CASE d # c
      <4>1. cn'[d] = cn[d]
        BY <1>1, <3>2
      <4>2. k \in Nat /\ k >= index /\ ~(k = 1 /\ index = 1)
        BY <1>5, <2>1, <2>4
      <4>3. Writable(cn[d]) \/ events[k].out
        BY <2>4, <4>2 DEF RespInv, EventsInv
      <4>4. cn[d].live
        BY <2>4, <4>2 DEF RespInv, EventsInv
      <4>. QED  BY <4>1, <4>3, <4>4
    <3>. QED  BY <3>1, <3>2
  <2>5. EventsInv'
    BY <1>3, <2>1, <2>3, <2>4 DEF EventsInv
  <2>. QED  BY <1>2, <2>5 DEF RespInv
<1>. QED  BY <1>4, <1>5

(* epoll's edges: it reports that a connection can be written as long as   *)
(* nothing was sent on it.                                                 *)
LEMMA PollResponse == WorkerInv /\ RespInv /\ Poll => RespInv'
<1>. SUFFICES ASSUME WorkerInv, RespInv, Poll PROVE RespInv'
  OBVIOUS
<1>1. PICK b \in Orders(IF pending = 0 THEN ready \ {NULL} ELSE ready) :
        events' = [k \in DOMAIN b |-> EventOf(b[k])]
  BY DEF Poll
<1>2. PICK S : S = (IF pending = 0 THEN ready \ {NULL} ELSE ready) /\ S \subseteq Conn \cup {NULL}
  BY DEF WorkerInv, TypeOK
<1>3. IsFiniteSet(S)
  <2>1. IsFiniteSet(Conn \cup {NULL})
    BY NodeAssumption, FS_AddElement
  <2>. QED  BY <1>2, <2>1, FS_Subset
<1>4. b \in Seq(S) /\ DOMAIN b = 1 .. Len(b) /\ Distinct(b)
  BY <1>1, <1>2, <1>3, OrdersType
<1>5. \A k \in DOMAIN b : b[k] \in S
  BY <1>4, ElementOfSeq
<1>6. /\ UNCHANGED <<cn, index>> /\ ready' = {} /\ phase' = "foreach" /\ phase = "poll"
      /\ DOMAIN events' = DOMAIN b
  BY <1>1 DEF Poll
<1>7. \A x : EventOf(x).ptr = x
  BY DEF EventOf
<1>8. \A k \in DOMAIN b : events'[k] = EventOf(b[k]) /\ events'[k].ptr = b[k]
  BY <1>1, <1>7
<1>9. \A j, k \in DOMAIN events' : events'[j].ptr = events'[k].ptr => j = k
  BY <1>4, <1>6, <1>8 DEF Distinct
<1>10. ASSUME NEW k \in DOMAIN b, NEW c \in Conn, events'[k].ptr = c
       PROVE  (Writable(cn[c]) \/ events'[k].out) /\ cn[c].live
  <2>1. c \in ready /\ b[k] = c /\ c # NULL
    BY <1>2, <1>5, <1>8, <1>10, NodeAssumption
  <2>2. cn[c].registered /\ Busy(cn[c]) /\ Sound(cn[c])
    BY <2>1 DEF RespInv, EventsInv, SoundInv, WorkerInv, RecordInv, Rest
  <2>3. cn[c].live
    BY <2>2 DEF Busy, Blank
  <2>4. Fresh(cn[c]) => cn[c].space > 0
    BY BufferAssumption DEF Fresh
  <2>5. cn[c].space > 0 => events'[k].out
    <3>1. events'[k] = EventOf(c)
      BY <1>8, <2>1
    <3>2. EventOf(c).out = (cn[c].space > 0)
      BY <2>1 DEF EventOf
    <3>. QED  BY <3>1, <3>2
  <2>. QED  BY <2>2, <2>3, <2>4, <2>5 DEF Sound, Framed
<1>11. EventsInv'
  BY <1>6, <1>9, <1>10 DEF EventsInv
<1>12. SoundInv'
  BY <1>6 DEF RespInv, SoundInv
<1>. QED  BY <1>11, <1>12 DEF RespInv

(* The record of a new connection has no event in the batch that is being  *)
(* handled: only the first one can be of a record that is closed.          *)
LEMMA NewConnectResponse == WorkerInv /\ RespInv /\ NewConnect => RespInv'
<1>. SUFFICES ASSUME WorkerInv, RespInv, NewConnect PROVE RespInv'
  OBVIOUS
<1>1. /\ idleConnList \in Seq(Conn) /\ taken \in Nat /\ taken > 0
      /\ pending \in Nat /\ pending + taken <= Len(idleConnList)
      /\ \A d \in Conn : Contains(idleConnList, d) => ~cn[d].live
      /\ cn \in [Conn -> Record]
  BY DEF WorkerInv, TypeOK, IdleInv, NewConnect
<1>2. Len(idleConnList) \in Nat /\ Len(idleConnList) > 0
  BY <1>1, LenProperties
<1>3. idleConnList # <<>>
  BY <1>1, <1>2, EmptySeq
<1>4. PICK c \in Conn : c = Head(idleConnList)
  BY <1>1, <1>3, TailFacts
<1>5. Contains(idleConnList, c)
  BY <1>1, <1>2, <1>3, <1>4, HeadTailProperties DEF Contains
<1>6. PICK t \in Record : t = cn[c] /\ ~t.live /\ Blank(t)
  BY <1>1, <1>5 DEF WorkerInv, RecordInv, Rest, Busy
<1>7. PICK s : s = Opened(t)
  OBVIOUS
<1>8. /\ s.live /\ s.registered /\ s.early = (t.canRead /\ ~t.canWrite)
      /\ s.canRead = t.canRead /\ s.canWrite = t.canWrite /\ s.space = SendCap
      /\ s.readLength = 0 /\ s.writeLength = 0 /\ s.writeIndex = 0
  BY <1>6, <1>7 DEF Opened, Blank, Record
<1>9. Sound(s)
  <2>1. s.writeIndex + s.writeLength <= WriteBuf
    BY <1>8, BufferAssumption
  <2>. QED  BY <1>8, <2>1 DEF Sound, Framed, Writable, Fresh
<1>10. /\ cn' = [cn EXCEPT ![c] = s] /\ ready' = ready \cup {c}
       /\ index' = (IF taken = 1 THEN index + 1 ELSE index)
       /\ UNCHANGED <<phase, events>> /\ phase = "foreach"
       /\ MoreEvents /\ Current.ptr = NULL
  BY <1>4, <1>6, <1>7 DEF NewConnect, MoreEvents
<1>11. SoundInv'
  BY <1>1, <1>9, <1>10 DEF RespInv, SoundInv
<1>12. \A d \in Conn : d \in ready' => cn'[d].registered
  BY <1>1, <1>8, <1>10 DEF RespInv, EventsInv
<1>13. index \in Nat /\ index < Len(events) /\ Len(events) \in Nat
       /\ DOMAIN events = 1 .. Len(events)
  BY <1>10, CurrentType, LenProperties DEF WorkerInv, TypeOK, MoreEvents
<1>14. ASSUME NEW k \in DOMAIN events, NEW d \in Conn, k >= index', events[k].ptr = d
       PROVE  /\ Writable(cn'[d]) \/ events[k].out
              /\ cn'[d].live \/ (k = 1 /\ index' = 1)
  <2>1. k >= index /\ k \in Nat /\ k >= 1
    BY <1>10, <1>13, <1>14
  <2>2. ~(k = 1 /\ index = 1)
    <3>1. index = 1 => Current = events[1]
      BY DEF Current
    <3>. QED  BY <1>10, <1>14, <3>1, NodeAssumption
  <2>3. cn[d].live /\ (Writable(cn[d]) \/ events[k].out)
    BY <1>14, <2>1, <2>2 DEF RespInv, EventsInv
  <2>4. d # c
    BY <1>6, <2>3
  <2>5. cn'[d] = cn[d]
    BY <1>1, <1>10, <2>4
  <2>. QED  BY <2>3, <2>5
<1>15. EventsInv'
  BY <1>10, <1>12, <1>14 DEF RespInv, EventsInv
<1>. QED  BY <1>11, <1>15 DEF RespInv

LEMMA BadConnectResponse == WorkerInv /\ RespInv /\ BadConnect => RespInv'
<1>. SUFFICES ASSUME WorkerInv, RespInv, BadConnect PROVE RespInv'
  OBVIOUS
<1>1. PICK c \in Conn : c = Current.ptr
  BY CurrentType DEF BadConnect, WorkerInv
<1>2. PICK s : s = CloseConnect(cn[c])
  OBVIOUS
<1>3. Rest(s) /\ ~s.live
  BY <1>2, CloseRest DEF WorkerInv, RecordInv, Rest
<1>4. Sound(s) /\ Writable(s)
  BY <1>3, ClosedSound DEF Rest
<1>5. /\ cn' = [cn EXCEPT ![c] = s] /\ UNCHANGED <<phase, events>>
      /\ ready' = (IF s.registered THEN ready ELSE ready \ {c})
      /\ MoreEvents /\ index' = index + 1
  BY <1>1, <1>2 DEF BadConnect, Update
<1>6. \A d \in Conn : d \in ready' => d \in ready /\ (d = c => s.registered)
  BY <1>5
<1>. QED  BY <1>1, <1>3, <1>4, <1>5, <1>6, UpdateResponse

(* dmbProcessEvent's record after the step.                                *)
LEMMA ProcessResponse ==
  ASSUME WorkerInv, NEW c \in Conn, NEW s, NEW list, Busy(s), Sound(s),
         ProcessEvent(c, s, list)
  PROVE  \E e : /\ Rest(e) /\ Sound(e) /\ (Writable(s) => Writable(e))
                /\ cn' = [cn EXCEPT ![c] = e]
                /\ \A d \in Conn : d \in ready' => d \in ready /\ (d = c => e.registered)
<1>1. PICK e, w : Rest(e) /\ Update(c, e, w)
  BY EventRest
<1>2. PICK f, x : Sound(f) /\ (Writable(s) => Writable(f)) /\ Update(c, f, x)
  BY HandlerSound
<1>3. cn' = [cn EXCEPT ![c] = e] /\ cn' = [cn EXCEPT ![c] = f] /\ cn \in [Conn -> Record]
  BY <1>1, <1>2 DEF Update, WorkerInv, TypeOK
<1>4. e = f
  <2>1. cn'[c] = e /\ cn'[c] = f
    BY <1>3
  <2>. QED  BY <2>1
<1>5. \A d \in Conn : d \in ready' => d \in ready /\ (d = c => e.registered)
  BY <1>1 DEF Update
<1>. QED  BY <1>1, <1>2, <1>3, <1>4, <1>5

(* The record that an event is handled with.                               *)
LEMMA EventSound ==
  ASSUME WorkerInv, RespInv, ConnEvent, NEW c \in Conn, c = Current.ptr
  PROVE  \E s : /\ Busy(s) /\ Sound(s) /\ Writable(s) /\ ProcessEvent(c, s, roundRobinList)
               /\ s.live = cn[c].live /\ s.magic = cn[c].magic /\ s.version = cn[c].version
               /\ s.length = cn[c].length /\ s.needClose = cn[c].needClose
               /\ s.reqs = cn[c].reqs /\ s.registered = cn[c].registered
               /\ s.isblocked = cn[c].isblocked /\ s.odd = cn[c].odd
               /\ s.early = (cn[c].early /\ (\/ cn[c].writeLength > 0 \/ cn[c].needClose
                                             \/ ~cn[c].registered))
<1>1. c = Current.ptr
  OBVIOUS
<1>2. PICK r \in Record : r = cn[c] /\ Rest(r) /\ Sound(r)
  BY DEF WorkerInv, RecordInv, TypeOK, RespInv, SoundInv
<1>3. PICK a \in BOOLEAN : a = (r.canRead \/ Current.in)
  OBVIOUS
<1>4. PICK b \in BOOLEAN : b = (r.canWrite \/ Current.out)
  OBVIOUS
<1>5. PICK e \in BOOLEAN : e = (r.early /\ (r.writeLength > 0 \/ r.needClose \/ ~r.registered))
  OBVIOUS
<1>6. PICK s : s = [r EXCEPT !.canRead = a, !.canWrite = b, !.early = e]
  OBVIOUS
<1>7. /\ s \in Record /\ s.canRead = a /\ s.canWrite = b /\ s.early = e
      /\ s.live = r.live /\ s.isblocked = r.isblocked /\ s.space = r.space
      /\ s.writeIndex = r.writeIndex /\ s.writeLength = r.writeLength
      /\ s.magic = r.magic /\ s.version = r.version /\ s.length = r.length
      /\ s.needClose = r.needClose /\ s.reqs = r.reqs /\ s.registered = r.registered
      /\ s.odd = r.odd
  BY <1>6, ZenonT(60) DEF Record
<1>8. Busy(s)
  <2>1. s = [r EXCEPT !.canRead = s.canRead, !.canWrite = s.canWrite, !.early = s.early]
        /\ (s.early => r.early)
    BY <1>5, <1>6, <1>7
  <2>. QED  BY <1>2, <1>7, <2>1, EventBusy
<1>9. Writable(s)
  <2>1. PICK p \in DOMAIN events : p >= index /\ Current = events[p]
    <3>1. index \in Nat /\ index < Len(events) /\ Len(events) \in Nat
          /\ DOMAIN events = 1 .. Len(events)
      BY CurrentType, LenProperties DEF WorkerInv, TypeOK, MoreEvents, ConnEvent
    <3>2. (IF index = 0 THEN 1 ELSE index) \in DOMAIN events
          /\ (IF index = 0 THEN 1 ELSE index) >= index
      BY <3>1
    <3>. QED  BY <3>2 DEF Current
  <2>2. Writable(r) \/ Current.out
    BY <1>1, <1>2, <2>1 DEF RespInv, EventsInv
  <2>. QED  BY <1>4, <1>7, <2>2 DEF Writable
<1>10. Sound(s)
  <2>1. r.writeIndex \in Nat /\ r.writeLength \in Nat
    BY DEF Record
  <2>2. r.writeLength = 0 => r.writeIndex + r.writeLength <= WriteBuf
    BY <1>2, <2>1, BufferAssumption DEF Sound, Framed
  <2>3. s.early \/ (/\ s.writeIndex + s.writeLength <= WriteBuf
                    /\ s.writeLength = 0 \/ s.isblocked)
    <3>1. CASE s.early
      BY <3>1
    <3>2. CASE ~s.early /\ r.writeLength = 0
      BY <1>7, <2>2, <3>2
    <3>3. CASE ~s.early /\ r.writeLength # 0
      <4>1. ~r.early
        <5>1. r.writeLength > 0
          BY <2>1, <3>3
        <5>2. ~(r.early /\ (r.writeLength > 0 \/ r.needClose \/ ~r.registered))
          BY <1>5, <1>7, <3>3
        <5>. QED  BY <5>1, <5>2
      <4>2. r.isblocked /\ r.writeIndex + r.writeLength <= WriteBuf
        BY <1>2, <3>3, <4>1 DEF Sound, Framed
      <4>. QED  BY <1>7, <4>2
    <3>. QED  BY <3>1, <3>2, <3>3
  <2>5. s.writeLength = 0 => s.writeIndex = 0
    BY <1>2, <1>7 DEF Sound, Framed
  <2>. QED  BY <1>9, <2>3, <2>5 DEF Sound, Framed
<1>11. ProcessEvent(c, s, roundRobinList)
  BY <1>1, <1>2, <1>3, <1>4, <1>5, <1>6 DEF ConnEvent
<1>. QED  BY <1>2, <1>5, <1>7, <1>8, <1>9, <1>10, <1>11

LEMMA ConnEventResponse == WorkerInv /\ RespInv /\ ConnEvent => RespInv'
<1>. SUFFICES ASSUME WorkerInv, RespInv, ConnEvent PROVE RespInv'
  OBVIOUS
<1>1. PICK c \in Conn : c = Current.ptr
  BY CurrentType DEF ConnEvent, WorkerInv
<1>2. PICK s : Busy(s) /\ Sound(s) /\ Writable(s) /\ ProcessEvent(c, s, roundRobinList)
  BY <1>1, EventSound
<1>3. UNCHANGED <<phase, events>> /\ MoreEvents /\ index' = index + 1
  BY DEF ConnEvent, MoreEvents
<1>4. PICK f : /\ Rest(f) /\ Sound(f) /\ (Writable(s) => Writable(f))
                /\ cn' = [cn EXCEPT ![c] = f]
                /\ \A d \in Conn : d \in ready' => d \in ready /\ (d = c => f.registered)
  BY <1>2, ProcessResponse
<1>. QED  BY <1>1, <1>2, <1>3, <1>4, UpdateResponse

LEMMA RoundRobinResponse == WorkerInv /\ RespInv /\ RoundRobin => RespInv'
<1>. SUFFICES ASSUME WorkerInv, RespInv, RoundRobin PROVE RespInv'
  OBVIOUS
<1>1. PICK M : roundRobinList \in Heap /\ Around(roundRobinList, M)
  BY DEF WorkerInv, TypeOK, ListInv
<1>2. PICK h : h = dmbListPopFront(roundRobinList, Anchor)
  OBVIOUS
<1>3. FirstNode(roundRobinList, Anchor) \in M
  BY <1>1, <1>2, PopAround
<1>4. FirstNode(roundRobinList, Anchor) # Anchor
  BY DEF RoundRobin, FirstNode, dmbListIsEmpty
<1>5. PICK c \in Conn : c = FirstNode(roundRobinList, Anchor)
  BY <1>1, <1>3, <1>4 DEF Around, Node
<1>6. Busy(cn[c]) /\ Sound(cn[c])
  BY DEF WorkerInv, RecordInv, Rest, RespInv, SoundInv
<1>7. ProcessEvent(c, cn[c], h) /\ phase # "foreach" /\ UNCHANGED <<phase, events>>
  BY <1>2, <1>5 DEF RoundRobin
<1>8. PICK f : /\ Rest(f) /\ Sound(f) /\ cn' = [cn EXCEPT ![c] = f]
               /\ \A d \in Conn : d \in ready' => d \in ready /\ (d = c => f.registered)
  BY <1>6, <1>7, ProcessResponse
<1>. QED  BY <1>7, <1>8, UpdateResponse

LEMMA SweepExpiredResponse == WorkerInv /\ RespInv /\ SweepExpired => RespInv'
<1>. SUFFICES ASSUME WorkerInv, RespInv, SweepExpired PROVE RespInv'
  OBVIOUS
<1>1. iter \in Conn
  BY DEF SweepExpired, WorkerInv, TypeOK, Node
<1>2. PICK s : s = CloseConnect(cn[iter])
  OBVIOUS
<1>3. Rest(s) /\ ~s.live
  BY <1>1, <1>2, CloseRest DEF WorkerInv, RecordInv, Rest
<1>4. Sound(s)
  BY <1>3, ClosedSound DEF Rest
<1>5. /\ cn' = [cn EXCEPT ![iter] = s] /\ ready' = ready \ {iter}
      /\ UNCHANGED <<phase, events>> /\ phase # "foreach"
  BY <1>2 DEF SweepExpired
<1>6. \A d \in Conn : d \in ready' => d \in ready /\ (d = iter => s.registered)
  BY <1>5
<1>. QED  BY <1>1, <1>3, <1>4, <1>5, <1>6, UpdateResponse

(* The steps that change no record.                                        *)
LEMMA OtherResponse ==
  RespInv /\ (ReadPipe \/ EventsDone \/ RoundRobinDone \/ Sweep \/ SweepDone) => RespInv'
<1>. SUFFICES ASSUME RespInv,
                     ReadPipe \/ EventsDone \/ RoundRobinDone \/ Sweep \/ SweepDone
              PROVE  RespInv'
  OBVIOUS
<1>1. UNCHANGED <<cn, ready>>
  BY DEF ReadPipe, EventsDone, RoundRobinDone, Sweep, SweepDone
<1>2. SoundInv'
  BY <1>1 DEF RespInv, SoundInv
<1>3. EventsInv'
  <2>1. CASE ReadPipe
    BY <2>1 DEF ReadPipe, RespInv, EventsInv
  <2>2. CASE EventsDone \/ RoundRobinDone \/ Sweep \/ SweepDone
    <3>1. events' = <<>>
      BY <2>2 DEF EventsDone, RoundRobinDone, Sweep, SweepDone, RespInv, EventsInv
    <3>2. DOMAIN events' = {}
      BY <3>1
    <3>. QED  BY <1>1, <3>1, <3>2 DEF RespInv, EventsInv
  <2>. QED  BY <2>1, <2>2
<1>. QED  BY <1>2, <1>3 DEF RespInv

LEMMA NextResponse == WorkerInv /\ RespInv /\ [Next]_vars => RespInv'
<1>. SUFFICES ASSUME WorkerInv, RespInv, [Next]_vars PROVE RespInv'
  OBVIOUS
<1>1. CASE Clients
  BY <1>1, ClientsResponse
<1>2. CASE WorkThread
  BY <1>2, PollResponse, NewConnectResponse, BadConnectResponse, ConnEventResponse,
     RoundRobinResponse, SweepExpiredResponse, OtherResponse DEF WorkThread
<1>3. CASE UNCHANGED vars
  <2>1. UNCHANGED <<cn, ready, phase, events, index>>
    BY <1>3 DEF vars
  <2>. QED  BY <2>1 DEF RespInv, SoundInv, EventsInv
<1>. QED  BY <1>1, <1>2, <1>3 DEF Next

-----------------------------------------------------------------------------
(* A worker makes a response only when the one before it has been written: *)
(* no response overwrites another one or runs past the end of writeBuf,    *)
(* however many requests a client sends at once, however its connection    *)
(* blocks, and though records are closed and reused while events for them  *)
(* are being handled.  Early records are the exception.                    *)
THEOREM ResponsesKept == Spec => []OneResponse
<1>1. WorkerInv /\ RespInv => OneResponse
  <2>. SUFFICES ASSUME WorkerInv, RespInv, NEW c \in Conn, ~cn[c].early
                PROVE  /\ cn[c].isblocked <=> cn[c].writeLength > 0
                       /\ cn[c].writeLength = 0 => cn[c].writeIndex = 0
                       /\ cn[c].writeIndex + cn[c].writeLength <= WriteBuf
    BY DEF OneResponse
  <2>1. cn[c] \in Record /\ Rest(cn[c]) /\ Sound(cn[c])
    BY DEF WorkerInv, TypeOK, RecordInv, RespInv, SoundInv
  <2>2. cn[c].isblocked => cn[c].writeLength > 0
    BY <2>1 DEF Rest, Busy
  <2>3. cn[c].writeLength > 0 => cn[c].isblocked
    BY <2>1 DEF Record, Sound
  <2>4. cn[c].isblocked \in BOOLEAN
    BY <2>1 DEF Record
  <2>. QED  BY <2>1, <2>2, <2>3, <2>4 DEF Sound, Framed
<1>. QED  BY <1>1, WorkerCorrect, InitResponse, NextResponse, PTL DEF Spec

================================================================================
