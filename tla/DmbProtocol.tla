------------------------------ MODULE DmbProtocol ------------------------------
(***************************************************************************)
(* What one worker thread does with its connections: the poll loop of      *)
(* src/network/dmbservercore.c, the request protocol of                    *)
(* src/network/dmbprotocol.c and the connection records, the timeout list  *)
(* and the round robin list of src/network/dmbnetwork.c.                   *)
(*                                                                         *)
(* A connection's byte stream is abstracted to the requests it consists of *)
(* and to counts of units: Hdr units make a header (of a request or of a   *)
(* response), Body units a request's data and its echo.  DmbServerCore     *)
(* shows what is assumed of the accept thread here: it hands over no more  *)
(* connections than there are idle records.                                *)
(***************************************************************************)
EXTENDS Integers, Sequences, FiniteSets, DmbList

CONSTANTS
  Conn,          \* the connection records of the worker
  Anchor,        \* the head of either list
  Hdr, Body,     \* units of a header and of the data of a request
  ReadBuf,       \* net_read_bufsize, in units
  WriteBuf,      \* net_write_bufsize, in units
  SendCap,       \* units the kernel's send buffer takes
  Quota,         \* requests a client sends in one connection
  Garbage,       \* results of processData an uninitialised dataCode may hold
  Kinds,         \* the kinds of requests clients send
  Split          \* TRUE: header and data of a request may arrive separately

(* Requests with their magic, their version, their length or all three in  *)
(* host byte order, as a client that forgets htons sends them.             *)
HostMagic   == {"hostMagic", "hostOrder"}
HostVersion == {"hostVersion", "hostOrder"}
HostLength  == {"hostLength", "hostOrder"}
HostKinds   == HostMagic \cup HostVersion \cup HostLength

ASSUME BufferAssumption ==
  /\ Hdr \in Nat \ {0} /\ Body \in Nat \ {0} /\ SendCap \in Nat \ {0}
  /\ ReadBuf \in Nat /\ Hdr + Body <= ReadBuf
  /\ WriteBuf \in Nat /\ Hdr <= WriteBuf
  /\ Quota \in Nat /\ Split \in BOOLEAN
  /\ Garbage \subseteq {"AGAIN", "OK"} /\ Garbage # {}
  /\ Kinds \subseteq {"good", "badMagic", "badVersion", "tooLong", "wrapping"} \cup HostKinds

ASSUME NodeAssumption ==
  IsFiniteSet(Conn) /\ Anchor \notin Conn /\ NULL \notin Conn \cup {Anchor}

VARIABLES
  cn,            \* the records dmbConnect, with the kernel's side of each
  idleConnList,  \* a sequence of records (DmbServerCore checks this list)
  timeoutConnList, roundRobinList,     \* two heaps, of timeoutNode and roundNode
  pending,       \* descriptors waiting in the worker's pipe
  taken,         \* descriptors in cliSoDataArr
  ready,         \* edges epoll has not delivered (NULL: the pipe's)
  phase, events, index, iter

vars == <<cn, idleConnList, timeoutConnList, roundRobinList, pending, taken,
          ready, phase, events, index, iter>>

ReqSize == Hdr + Body
Lesser(a, b) == IF a < b THEN a ELSE b

(* A record after dmbNetworkCloseConnect.  magic, version and length tell  *)
(* whether these fields of the header at the start of readBuf are in host  *)
(* byte order.  reqs are the requests sent whose data is not consumed.     *)
(* early and odd are no fields of the program.  early marks a record that  *)
(* was opened with the canRead of its predecessor, until it has an event   *)
(* when nothing is to be written and no request was refused; odd marks one *)
(* whose client has sent a field in host byte order.                       *)
Closed ==
  [live |-> FALSE, canRead |-> FALSE, canWrite |-> FALSE, isblocked |-> FALSE,
   readLength |-> 0, magic |-> FALSE, version |-> FALSE, length |-> FALSE,
   writeIndex |-> 0, writeLength |-> 0, needClose |-> FALSE, timeout |-> FALSE,
   early |-> FALSE, odd |-> FALSE,
   \* the kernel and the client
   registered |-> FALSE, hangup |-> FALSE, rx |-> 0, space |-> SendCap,
   reqs |-> <<>>, rest |-> FALSE, quota |-> 0]

(* Fault: readLength is not reset.                                         *)
CloseConnectUnread(s) ==
  IF s.live THEN [Closed EXCEPT !.readLength = s.readLength] ELSE s

(* dmbNetworkCloseConnect does nothing to a closed record.                 *)
CloseConnect(s) == IF s.live THEN Closed ELSE s

Node == Conn \cup {Anchor}

EmptyList == [next |-> [n \in Node |-> IF n = Anchor THEN Anchor ELSE NULL],
              prev |-> [n \in Node |-> IF n = Anchor THEN Anchor ELSE NULL]]

Orders(S) ==
  {b \in [1 .. Cardinality(S) -> S] :
     \A j, k \in 1 .. Cardinality(S) : b[j] = b[k] => j = k}

Init ==
  /\ cn = [c \in Conn |-> Closed]
  /\ idleConnList \in Orders(Conn)
  /\ timeoutConnList = EmptyList /\ roundRobinList = EmptyList
  /\ pending = 0 /\ taken = 0 /\ ready = {}
  /\ phase = "poll" /\ events = <<>> /\ index = 0 /\ iter = Anchor

-----------------------------------------------------------------------------
(* The clients and the kernel.                                             *)

Edge(c) == ready' = IF cn[c].registered THEN ready \cup {c} ELSE ready

Client(c, s) ==
  /\ cn' = [cn EXCEPT ![c] = s]
  /\ UNCHANGED <<idleConnList, timeoutConnList, roundRobinList, pending, taken,
                 phase, events, index, iter>>

(* The accept thread writes a descriptor to the pipe.                      *)
HandOver ==
  /\ pending + taken < Len(idleConnList)
  /\ pending' = pending + 1
  /\ ready' = ready \cup {NULL}
  /\ UNCHANGED <<cn, idleConnList, timeoutConnList, roundRobinList, taken, phase,
                 events, index, iter>>

CanSend(c) == cn[c].live /\ ~cn[c].hangup

Send(c, kind) ==
  /\ CanSend(c) /\ cn[c].quota > 0 /\ ~cn[c].rest
  /\ \E part \in IF Split THEN {TRUE, FALSE} ELSE {FALSE} :
       Client(c, [cn[c] EXCEPT !.quota = @ - 1, !.reqs = Append(@, kind),
                               !.rx = @ + (IF part THEN Hdr ELSE ReqSize),
                               !.rest = part, !.odd = @ \/ kind \in HostKinds])
  /\ Edge(c)

SendRest(c) ==
  /\ CanSend(c) /\ cn[c].rest
  /\ Client(c, [cn[c] EXCEPT !.rx = @ + Body, !.rest = FALSE])
  /\ Edge(c)

(* The client reads what was sent; the edge comes if writing had blocked.  *)
ClientRead(c) ==
  /\ cn[c].live /\ cn[c].space < SendCap
  /\ Client(c, [cn[c] EXCEPT !.space = SendCap])
  /\ IF cn[c].space = 0 THEN Edge(c) ELSE UNCHANGED ready

HangUp(c) ==
  /\ CanSend(c)
  /\ Client(c, [cn[c] EXCEPT !.hangup = TRUE])
  /\ Edge(c)

-----------------------------------------------------------------------------
(* readData, processData and writeData on a record s.  A result is a       *)
(* record of the new s, the code returned, and whether                     *)
(* dmbNetworkWatchTimeout was called.                                      *)

Result(s, code) == [s |-> s, code |-> code, watch |-> FALSE]
Watched(s, code) == [s |-> [s EXCEPT !.timeout = TRUE], code |-> code, watch |-> TRUE]

(* dmbReadAvailable finds nothing (any more).                              *)
ReadNothing(s) ==
  IF s.hangup THEN Result(CloseConnect(s), "CLOSED")
  ELSE Watched([s EXCEPT !.canRead = FALSE], "AGAIN")

(* A read may fail at any time, and on a closed record it always does.     *)
ReadData(s) ==
  LET k   == Lesser(s.rx, ReadBuf - s.readLength)
      got == [s EXCEPT !.rx = @ - k, !.readLength = @ + k]
  IN  IF ~s.canRead THEN {Result(s, "AGAIN")}
      ELSE IF ReadBuf <= s.readLength THEN {Watched(s, "OK")}
      ELSE {Result(CloseConnect(s), "ERROR")} \cup
           IF ~s.live THEN {}
           ELSE IF k > 0 /\ got.readLength >= Hdr THEN {Result(got, "OK")}
           ELSE {ReadNothing(got)}

(* A field is what is expected of it if it was sent in network order and   *)
(* has been converted, or if it was sent in host order and has not, or has *)
(* been converted back.                                                    *)
MagicRight(s)   == s.reqs[1] # "badMagic" /\ s.magic = (s.reqs[1] \notin HostMagic)
VersionRight(s) == s.reqs[1] # "badVersion" /\ s.version = (s.reqs[1] \notin HostVersion)

(* A length in the wrong order, taken for a number, is far larger than any *)
(* buffer.                                                                 *)
LengthRight(s)  == s.reqs[1] # "tooLong" /\ s.length = (s.reqs[1] \notin HostLength)

(* parsePkgHeader converts each field where it stands, magic first, and    *)
(* stops at the first that is not what is expected.  Converting a field a  *)
(* second time brings it back to the order it was sent in.                 *)
ParsePkgHeader(s) ==
  LET m == [s EXCEPT !.magic = ~@]
      v == [m EXCEPT !.version = ~@]
  IN  IF ~MagicRight(m) THEN Result(m, "PROTOCOL_ERROR")
      ELSE IF ~VersionRight(v) THEN Result(v, "VERSION_ERROR")
      ELSE Result([v EXCEPT !.length = ~@], "OK")

(* Every code passed is one of those needDisconnect closes for.  The data  *)
(* of a response, the echo or the four bytes of net_read_bufsize, is Body  *)
(* units.                                                                  *)
MakeErrorResponse(s) ==
  [s EXCEPT !.needClose = TRUE, !.writeIndex = 0, !.writeLength = @ + Hdr]

MakeResponseWithData(s, code) ==
  IF ReqSize > WriteBuf
  THEN [s EXCEPT !.needClose = TRUE, !.writeIndex = 0, !.writeLength = @ + Hdr]
  ELSE [s EXCEPT !.needClose = (code # "OK"), !.writeLength = @ + ReqSize]

(* Fault: the length of the header is forgotten.                           *)
ProcessDataShort(s) ==
  LET p == ParsePkgHeader(s)
  IN  IF s.readLength < Hdr THEN Result(s, "AGAIN")
      ELSE IF p.code # "OK" THEN Result(MakeErrorResponse(p.s), p.code)
      ELSE IF ~LengthRight(p.s)
      THEN Result(MakeResponseWithData(p.s, "OUT_OF_READBUF"), "OUT_OF_READBUF")
      ELSE IF s.reqs[1] # "wrapping" /\ Body <= s.readLength
      THEN Result([MakeResponseWithData(p.s, "OK")
                     EXCEPT !.readLength = @ - ReqSize, !.reqs = Tail(@),
                            !.magic = FALSE, !.version = FALSE, !.length = FALSE],
                  "OK")
      ELSE Result(p.s, "AGAIN")

(* One request.  It is answered by its own data.  The test of the length   *)
(* adds the size of the header in 32 bits, so that one of the last numbers *)
(* of this width passes ("wrapping"); its data is then waited for.  A      *)
(* request whose length is 0 is like any other: the zero written in front  *)
(* of its data replaces the last byte of the length, which is zero.        *)
ProcessData(s) ==
  LET p == ParsePkgHeader(s)
  IN  IF s.readLength < Hdr THEN Result(s, "AGAIN")
      ELSE IF p.code # "OK" THEN Result(MakeErrorResponse(p.s), p.code)
      ELSE IF ~LengthRight(p.s)
      THEN Result(MakeResponseWithData(p.s, "OUT_OF_READBUF"), "OUT_OF_READBUF")
      ELSE IF s.reqs[1] # "wrapping" /\ ReqSize <= s.readLength
      THEN Result([MakeResponseWithData(p.s, "OK")
                     EXCEPT !.readLength = @ - ReqSize, !.reqs = Tail(@),
                            !.magic = FALSE, !.version = FALSE, !.length = FALSE],
                  "OK")
      ELSE Result(p.s, "AGAIN")

(* Fault: isblocked is not set.                                            *)
WriteDataUnblocked(s) ==
  LET k    == Lesser(s.space, s.writeLength)
      sent == [s EXCEPT !.space = @ - k, !.writeIndex = @ + k, !.writeLength = @ - k]
  IN  IF s.writeLength = 0 THEN {Result(s, "OK")}
      ELSE IF ~s.canWrite THEN {Result(s, "AGAIN")}
      ELSE {Result(CloseConnect(s), "ERROR"),
            IF sent.writeLength = 0
            THEN Result([sent EXCEPT !.isblocked = FALSE, !.writeIndex = 0], "OK")
            ELSE Watched([sent EXCEPT !.canWrite = FALSE], "AGAIN")}

(* Fault: canWrite is not withdrawn.                                       *)
WriteDataStillCan(s) ==
  LET k    == Lesser(s.space, s.writeLength)
      sent == [s EXCEPT !.space = @ - k, !.writeIndex = @ + k, !.writeLength = @ - k]
  IN  IF s.writeLength = 0 THEN {Result(s, "OK")}
      ELSE IF ~s.canWrite THEN {Result(s, "AGAIN")}
      ELSE {Result(CloseConnect(s), "ERROR"),
            IF sent.writeLength = 0
            THEN Result([sent EXCEPT !.isblocked = FALSE, !.writeIndex = 0], "OK")
            ELSE Watched([sent EXCEPT !.isblocked = TRUE], "AGAIN")}

WriteData(s) ==
  LET k    == Lesser(s.space, s.writeLength)
      sent == [s EXCEPT !.space = @ - k, !.writeIndex = @ + k, !.writeLength = @ - k]
  IN  IF s.writeLength = 0 THEN {Result(s, "OK")}
      ELSE IF ~s.canWrite THEN {Result(s, "AGAIN")}
      ELSE {Result(CloseConnect(s), "ERROR"),
            IF sent.writeLength = 0
            THEN Result([sent EXCEPT !.isblocked = FALSE, !.writeIndex = 0], "OK")
            ELSE Watched([sent EXCEPT !.canWrite = FALSE, !.isblocked = TRUE], "AGAIN")}

-----------------------------------------------------------------------------
(* How the end of a handler changes the worker: record c becomes s.        *)

(* dmbNetworkWatchTimeout with a timeout greater than 0: it does nothing   *)
(* otherwise (dmbnetwork.c:561), so that with net_rw_timeout 0 nothing     *)
(* would be watched.  dmb.conf sets it, and it is assumed to be positive.  *)
WatchTimeout(list, c) ==
  IF dmbNodeIsUsed(list, c) THEN list ELSE dmbListPushBack(list, Anchor, c)

Update(c, s, watch) ==
  /\ cn' = [cn EXCEPT ![c] = s]
  /\ idleConnList' = IF cn[c].live /\ ~s.live THEN Append(idleConnList, c)
                     ELSE idleConnList
  /\ timeoutConnList' = IF watch THEN WatchTimeout(timeoutConnList, c) ELSE timeoutConnList
  /\ ready' = IF s.registered THEN ready ELSE ready \ {c}

(* Fault: the result of reading is not considered.                         *)
AllDoneUnread(readCode, dataCode, writeCode) == "AGAIN" \in {writeCode, dataCode}

(* Fault: a connection is done only when its write has blocked, too.       *)
AllDoneBlocked(readCode, dataCode, writeCode) ==
  readCode = "AGAIN" /\ dataCode = "AGAIN" /\ writeCode = "AGAIN"

AllDone(readCode, dataCode, writeCode) ==
  readCode = "AGAIN" /\ "AGAIN" \in {writeCode, dataCode}

(* dmbProcessEvent on record c, of which the event handler made s0.  When  *)
(* processData is skipped dataCode is not initialised: it may hold any     *)
(* value of Garbage, of which only DMB_ERRCODE_NETWORK_AGAIN matters.      *)
ProcessEvent(c, s0, list) ==
  \E r \in ReadData(s0) :
    IF r.code \in {"ERROR", "CLOSED"}
    THEN Update(c, r.s, r.watch) /\ roundRobinList' = list
    ELSE \E d \in IF r.s.isblocked THEN {Result(r.s, x) : x \in Garbage}
                  ELSE {ProcessData(r.s)} :
         \E t \in WriteData(d.s) :
           IF t.s.needClose /\ t.s.writeLength = 0
           THEN /\ Update(c, [t.s EXCEPT !.registered = FALSE], r.watch \/ t.watch)
                /\ roundRobinList' = list
           ELSE /\ Update(c, t.s, r.watch \/ t.watch)
                /\ roundRobinList' =
                     IF AllDone(r.code, d.code, t.code) THEN list
                     ELSE dmbListPushBack(list, Anchor, c)

-----------------------------------------------------------------------------
(* The poll loop: workThreadImpl.                                          *)

EventOf(c) ==
  IF c = NULL THEN [ptr |-> NULL, in |-> TRUE, out |-> FALSE, bad |-> FALSE]
  ELSE [ptr |-> c, in |-> cn[c].rx > 0, out |-> cn[c].space > 0, bad |-> cn[c].hangup]

Poll ==
  /\ phase = "poll"
  /\ \E b \in Orders(IF pending = 0 THEN ready \ {NULL} ELSE ready) :
       events' = [k \in DOMAIN b |-> EventOf(b[k])]
  /\ ready' = {}
  /\ phase' = "foreach"
  /\ UNCHANGED <<cn, idleConnList, timeoutConnList, roundRobinList, pending, taken,
                 index, iter>>

(* dmbNetworkEventForeach visits e1, e1, e2, ..., e(n-1).                  *)
MoreEvents == phase = "foreach" /\ index < Len(events)
Current    == events[IF index = 0 THEN 1 ELSE index]

(* The record of a new connection: it keeps the canRead and canWrite it    *)
(* has, which may be those of an event handled after it was closed.  It is *)
(* early if it may be read, but not written, before it has an event.       *)
Opened(s) ==
  [s EXCEPT !.live = TRUE, !.registered = TRUE, !.timeout = TRUE, !.quota = Quota,
            !.early = s.canRead /\ ~s.canWrite]

(* processNewConnect takes all descriptors out of the pipe, for which an   *)
(* empty pipe is waited for, and gives them idle records one by one.       *)
ReadPipe ==
  /\ MoreEvents /\ Current.ptr = NULL
  /\ taken = 0 /\ pending > 0
  /\ taken' = pending /\ pending' = 0
  /\ UNCHANGED <<cn, idleConnList, timeoutConnList, roundRobinList, ready, phase,
                 events, index, iter>>

NewConnect ==
  /\ MoreEvents /\ Current.ptr = NULL
  /\ taken > 0
  /\ taken' = taken - 1
  /\ index' = IF taken = 1 THEN index + 1 ELSE index
  /\ LET c == Head(idleConnList)
     IN  /\ cn' = [cn EXCEPT ![c] = Opened(@)]
         /\ timeoutConnList' = WatchTimeout(timeoutConnList, c)
         /\ ready' = ready \cup {c}
  /\ idleConnList' = Tail(idleConnList)
  /\ UNCHANGED <<roundRobinList, pending, phase, events, iter>>

(* EPOLLRDHUP, EPOLLHUP, EPOLLPRI or EPOLLERR.                             *)
BadConnect ==
  /\ MoreEvents /\ Current.ptr # NULL
  /\ Current.bad
  /\ index' = index + 1
  /\ Update(Current.ptr, CloseConnect(cn[Current.ptr]), FALSE)
  /\ UNCHANGED <<roundRobinList, pending, taken, phase, events, iter>>

ConnEvent ==
  /\ MoreEvents /\ Current.ptr # NULL
  /\ ~Current.bad
  /\ index' = index + 1
  /\ LET c == Current.ptr
     IN  ProcessEvent(c, [cn[c] EXCEPT !.canRead = @ \/ Current.in,
                                       !.canWrite = @ \/ Current.out,
                                       !.early = @ /\ (\/ cn[c].writeLength > 0 \/ cn[c].needClose
                                                        \/ ~cn[c].registered)],
                      roundRobinList)
  /\ UNCHANGED <<pending, taken, phase, events, iter>>

EventsDone ==
  /\ phase = "foreach" /\ ~MoreEvents
  /\ phase' = "rr"
  /\ events' = <<>> /\ index' = 0
  /\ UNCHANGED <<cn, idleConnList, timeoutConnList, roundRobinList, pending, taken,
                 ready, iter>>

(* One turn of processRoundRobin's loop.                                   *)
RoundRobin ==
  /\ phase = "rr"
  /\ ~dmbListIsEmpty(roundRobinList, Anchor)
  /\ LET c == FirstNode(roundRobinList, Anchor)
     IN  ProcessEvent(c, cn[c], dmbListPopFront(roundRobinList, Anchor))
  /\ UNCHANGED <<pending, taken, phase, events, index, iter>>

RoundRobinDone ==
  /\ phase = "rr"
  /\ dmbListIsEmpty(roundRobinList, Anchor)
  /\ phase' = "sweep"
  /\ iter' = FirstNode(timeoutConnList, Anchor)
  /\ UNCHANGED <<cn, idleConnList, timeoutConnList, roundRobinList, pending, taken,
                 ready, events, index>>

(* Fault: the node is removed but not initialised.                         *)
UnwatchKeepsNode(c) == dmbListRemove(timeoutConnList, c)

Unwatch(c) == dmbNodeInit(dmbListRemove(timeoutConnList, c), c)

(* dmbNetworkCloseTimeoutConnect visits iter: the next node is already     *)
(* known when this one is removed.  A timeout that is set may have expired *)
(* or not, the clock decides.                                              *)
Sweep ==
  /\ phase = "sweep" /\ iter # Anchor
  /\ iter' = timeoutConnList.next[iter]
  /\ \/ /\ ~cn[iter].timeout
        /\ timeoutConnList' = Unwatch(iter)
        /\ UNCHANGED <<cn, idleConnList, ready>>
     \/ /\ cn[iter].timeout
        /\ UNCHANGED <<cn, idleConnList, timeoutConnList, ready>>
  /\ UNCHANGED <<roundRobinList, pending, taken, phase, events, index>>

SweepExpired ==
  /\ phase = "sweep" /\ iter # Anchor
  /\ cn[iter].timeout
  /\ iter' = timeoutConnList.next[iter]
  /\ timeoutConnList' = Unwatch(iter)
  /\ cn' = [cn EXCEPT ![iter] = CloseConnect(@)]
  /\ idleConnList' = IF cn[iter].live THEN Append(idleConnList, iter) ELSE idleConnList
  /\ ready' = ready \ {iter}
  /\ UNCHANGED <<roundRobinList, pending, taken, phase, events, index>>

SweepDone ==
  /\ phase = "sweep" /\ iter = Anchor
  /\ phase' = "poll"
  /\ UNCHANGED <<cn, idleConnList, timeoutConnList, roundRobinList, pending, taken,
                 ready, events, index, iter>>

-----------------------------------------------------------------------------
Clients ==
  \/ HandOver
  \/ \E c \in Conn : \/ \E kind \in Kinds : Send(c, kind)
                     \/ SendRest(c) \/ ClientRead(c) \/ HangUp(c)

WorkThread ==
  \/ Poll \/ ReadPipe \/ NewConnect \/ BadConnect \/ ConnEvent \/ EventsDone
  \/ RoundRobin \/ RoundRobinDone \/ Sweep \/ SweepExpired \/ SweepDone

Next == Clients \/ WorkThread

Spec == Init /\ [][Next]_vars

(* The worker runs, and in FairSpec clients read what is sent to them.     *)
StalledSpec == Spec /\ WF_vars(WorkThread)
FairSpec    == StalledSpec /\ \A c \in Conn : WF_vars(ClientRead(c))

(* A connection falls silent after Quota requests, so that its timeout has *)
(* expired in one of the sweeps that find it set.                          *)
Expires(c) == SweepExpired /\ iter = c
Expiry     == \A c \in Conn : SF_vars(Expires(c))

-----------------------------------------------------------------------------
Record ==
  [live : BOOLEAN, canRead : BOOLEAN, canWrite : BOOLEAN, isblocked : BOOLEAN,
   readLength : Nat, magic : BOOLEAN, version : BOOLEAN, length : BOOLEAN,
   writeIndex : Nat, writeLength : Nat, needClose : BOOLEAN, timeout : BOOLEAN,
   early : BOOLEAN, odd : BOOLEAN, registered : BOOLEAN, hangup : BOOLEAN, rx : Nat, space : Nat,
   reqs : Seq(Kinds), rest : BOOLEAN, quota : Nat]

Heap == [next : [Node -> Node \cup {NULL}], prev : [Node -> Node \cup {NULL}]]

(* Every variable has its type.                                            *)
TypeOK ==
  /\ cn \in [Conn -> Record]
  /\ idleConnList \in Seq(Conn)
  /\ timeoutConnList \in Heap /\ roundRobinList \in Heap
  /\ pending \in Nat /\ taken \in Nat
  /\ ready \subseteq Conn \cup {NULL}
  /\ phase \in {"poll", "foreach", "rr", "sweep"}
  /\ events \in Seq([ptr : Conn \cup {NULL}, in : BOOLEAN, out : BOOLEAN, bad : BOOLEAN])
  /\ index \in 0 .. Len(events)
  /\ iter \in Node

(* A response is made only when the one before it is completely written:   *)
(* responses never overwrite each other in writeBuf, never run past its    *)
(* end, and always start at its start.  The exception is an early record,  *)
(* which writeData leaves unblocked with a response it cannot write.       *)
OneResponse ==
  \A c \in Conn :
    ~cn[c].early =>
      /\ cn[c].isblocked <=> cn[c].writeLength > 0
      /\ cn[c].writeLength = 0 => cn[c].writeIndex = 0
      /\ cn[c].writeIndex + cn[c].writeLength <= WriteBuf

(* A connection that waits for the client to read waits for an edge it     *)
(* gets: canWrite has been withdrawn, so that the next EPOLLOUT resumes    *)
(* it, and epoll has forgotten no connection but those to be closed.  The  *)
(* exceptions are early records and those whose client sends fields in     *)
(* host byte order: a refused header is parsed again, until its fields are *)
(* what they should be and needClose is withdrawn.                         *)
BlockedWaits ==
  phase = "poll" =>
    \A c \in Conn :
      /\ cn[c].isblocked => ~cn[c].canWrite
      /\ cn[c].live => \/ cn[c].registered \/ cn[c].needClose
                       \/ cn[c].early \/ cn[c].odd

(* The nodes that a traversal of a list meets.                             *)
Members(list) ==
  LET node[k \in 0 .. Cardinality(Conn)] ==
        IF k = 0 THEN FirstNode(list, Anchor)
        ELSE IF node[k - 1] = Anchor THEN Anchor ELSE list.next[node[k - 1]]
  IN  {node[k] : k \in 0 .. Cardinality(Conn)} \ {Anchor}

(* Every connection has a timeout and is on the timeout list, although its *)
(* record may have been closed and reused while its node was still there:  *)
(* no silent client keeps its place for ever (net_rw_timeout is positive,  *)
(* see WatchTimeout).  And a record is on the list exactly when its node   *)
(* says so.                                                                *)
AllWatched ==
  \A c \in Conn :
    /\ cn[c].live => cn[c].timeout /\ c \in Members(timeoutConnList)
    /\ dmbNodeIsUsed(timeoutConnList, c) <=> c \in Members(timeoutConnList)

(* An idle record has nothing left of its last connection that the next    *)
(* client could see or suffer from: no bytes of a request or a response,   *)
(* no pending close.                                                       *)
IdleIsBlank ==
  \A c \in Conn :
    ~cn[c].live => [cn[c] EXCEPT !.canRead = FALSE, !.canWrite = FALSE] = Closed

(* The step is the call of dmbProcessEvent, or the closing, for c.         *)
Handled(c) ==
  \/ MoreEvents /\ index' # index /\ Current.ptr = c
  \/ phase = "rr" /\ FirstNode(roundRobinList, Anchor) = c

(* The worker has not yet handled an event of c.                           *)
Unhandled(c) ==
  \E k \in DOMAIN events : events[k].ptr = c /\ k >= index /\ (k = 1 => index = 0)

(* Nothing will make the worker read what the kernel has received for c.   *)
Forgotten(c) ==
  /\ cn[c].registered /\ cn[c].rx > 0
  /\ ~Unhandled(c) /\ c \notin ready \cup Members(roundRobinList)

(* The step ends the loop over a batch, of which c has the last event.     *)
Dropped(c) ==
  /\ phase = "foreach" /\ phase' # phase
  /\ Len(events) > 1 /\ events[Len(events)].ptr = c

(* "The node is removed from the list" (dmblist.h:85): what processRound-  *)
(* Robin pops from the front is not the front any more.                    *)
PopRemoves ==
  roundRobinList.next[Anchor] # Anchor =>
    LET c == FirstNode(roundRobinList, Anchor)
    IN  c \notin Members(dmbListPopFront(roundRobinList, Anchor))

(* Edge-triggered input is not forgotten.  When dmbProcessEvent is done    *)
(* with a connection, everything the kernel has received is in readBuf, or *)
(* the connection is on the round robin list, or its edge is still to      *)
(* come, or it has been closed or refused.  And what is to be read for a   *)
(* connection that waits for its turn is forgotten in two ways only: its   *)
(* event is the last of a batch of several, which dmbNetworkEventForeach   *)
(* does not visit, or the list is cut by a front that is not removed.      *)
InputDrained ==
  [][\A c \in Conn :
       /\ Handled(c) => \/ cn'[c].rx = 0 \/ ~cn'[c].registered
                        \/ c \in ready' \cup Members(roundRobinList')
       /\ Forgotten(c)' => Forgotten(c) \/ Dropped(c) \/ ~PopRemoves]_vars

(* Only a request that deserves it is refused: when a connection is to be  *)
(* closed, the request at the start of readBuf is a bad one.               *)
RefusedIfBad ==
  \A c \in Conn : cn[c].needClose => cn[c].reqs # <<>> /\ cn[c].reqs[1] # "good"

(* The worker leaves to epoll a connection that has nothing to write and a *)
(* request in readBuf.                                                     *)
Left(c) ==
  phase = "poll" /\ cn[c].registered /\ ~cn[c].isblocked /\ cn[c].readLength >= ReqSize

(* "ALL DONE" (dmbprotocol.c:115): a connection that the worker leaves to  *)
(* epoll, with nothing to write, has no complete request in readBuf.       *)
NothingBuffered == \A c \in Conn : ~Left(c)

(* Its client has filled readBuf and reads nothing: processRoundRobin can  *)
(* neither read from nor write to the connection and keeps pushing it back.*)
Jammed(c) == cn[c].isblocked /\ cn[c].readLength = ReadBuf

(* processRoundRobin comes to an end unless a connection is jammed: the    *)
(* worker returns to epoll_wait, where all its other connections and its   *)
(* quit test are.                                                          *)
WorkerReturns == phase = "rr" ~> phase = "poll" \/ \E c \in Conn : Jammed(c)

Waiting(c) ==
  /\ cn[c].live /\ cn[c].reqs # <<>> /\ cn[c].reqs[1] # "wrapping"
  /\ cn[c].readLength + cn[c].rx >= ReqSize

(* A client that has sent a complete request is served until it has none   *)
(* left, refused or disconnected, without the help of the timeout.  Only   *)
(* these keep it waiting: a jammed connection, and one left to epoll       *)
(* because of the dataCode that was not initialised (run buffered_ignored).*)
(* It is about batches of one event: the last of a larger one is dropped.  *)
Answered ==
  [](Len(events) <= 1) =>
    \A c \in Conn :
      Waiting(c) ~> ~Waiting(c) \/ cn[c].needClose \/ Jammed(c) \/ Left(c)

(* needDisconnect: a client whose request was refused, and which epoll has *)
(* forgotten once the response is written, is disconnected in the end.     *)
Disconnected ==
  Expiry => \A c \in Conn : cn[c].needClose ~> ~cn[c].needClose \/ Jammed(c)

(* net_rw_timeout (dmb.conf:20): a connection whose client neither sends   *)
(* nor reads any more is closed.                                           *)
TimeoutCloses ==
  Expiry => \A c \in Conn : cn[c].isblocked ~> ~cn[c].isblocked

================================================================================
