-------------------------- MODULE DmbServerCoreProofs --------------------------
(***************************************************************************)
(* Theorems about DmbServerCore, for any numbers of threads, connections   *)
(* and clients: types and counts; the idle list is exact, the pipe never   *)
(* fills up and is not read after it was closed, and descriptors are       *)
(* neither leaked nor shared.                                              *)
(***************************************************************************)
EXTENDS DmbServerCore, FiniteSetTheorems, SequenceTheorems, TLAPS

(* Where the accept and main threads stand determines what their loop      *)
(* variables hold: a worker that exists, a descriptor that exists.         *)
ThreadInv ==
  /\ aPc \in {"find", "undo", "write"} => client \in Socket
  /\ aPc \in {"undo", "write"} => iCur \in Worker /\ i < ThreadSize
  /\ mPc = "purge" => mWorker \in Worker

TypeInv == TypeOK /\ ThreadInv

(* Edges are delivered as a sequence of the events that were raised.       *)
LEMMA OrdersType ==
  ASSUME NEW S \in SUBSET Event, NEW b \in Orders(S)
  PROVE  b \in Seq(Event)
<1>1. IsFiniteSet(Event)
  <2>1. IsFiniteSet(Conn)
    BY SizeAssumption, FS_Interval DEF Conn
  <2>. QED  BY <2>1, FS_AddElement DEF Event
<1>2. IsFiniteSet(S)
  BY <1>1, FS_Subset
<1>3. Cardinality(S) \in Nat
  BY <1>2, FS_CardinalityType
<1>. QED  BY <1>3 DEF Orders

LEMMA InitTypeInv == Init => TypeInv
<1>. SUFFICES ASSUME Init PROVE TypeInv
  OBVIOUS
<1>1. [k \in 1 .. ConnectSize |-> k - 1] \in Seq(Conn)
  BY SizeAssumption DEF Conn
<1>. QED
  BY <1>1, SizeAssumption, FdAssumption
  DEF Init, TypeInv, TypeOK, ThreadInv, Worker, Conn, Event

(* Closing a connection preserves the types of what it changes.            *)
LEMMA CloseConnectType ==
  ASSUME TypeInv, NEW w \in Worker, NEW c \in Conn, CloseConnect(w, c)
  PROVE  /\ sock' \in [Socket -> {"free", "backlog", "open"}]
         /\ cliFd' \in [Worker -> [Conn -> Socket \cup {InvalidFd}]]
         /\ idleConnList' \in [Worker -> Seq(Conn)]
         /\ connCount' \in [Worker -> Int]
         /\ ready' \in [Worker -> SUBSET Event]
<1>. USE DEF TypeInv, TypeOK, CloseConnect
<1>1. sock' \in [Socket -> {"free", "backlog", "open"}]
  OBVIOUS
<1>2. cliFd' \in [Worker -> [Conn -> Socket \cup {InvalidFd}]]
  OBVIOUS
<1>3. idleConnList' \in [Worker -> Seq(Conn)]
  OBVIOUS
<1>4. connCount' \in [Worker -> Int]
  OBVIOUS
<1>5. ready' \in [Worker -> SUBSET Event]
  OBVIOUS
<1>. QED  BY <1>1, <1>2, <1>3, <1>4, <1>5

(* A connection's event names a connection, and the purge's loop variables *)
(* name a worker and a connection.                                         *)
LEMMA CurrentConn ==
  ASSUME TypeInv, NEW w \in Worker, MoreEvents(w), Current(w) # Null
  PROVE  Current(w) \in Conn
<1>1. events[w] \in Seq(Event) /\ index[w] \in Nat /\ index[w] < Len(events[w])
  BY DEF TypeInv, TypeOK, MoreEvents
<1>2. (IF index[w] = 0 THEN 1 ELSE index[w]) \in 1 .. Len(events[w])
  BY <1>1
<1>3. Current(w) \in Event
  BY <1>1, <1>2 DEF Current, ForeachEvent
<1>. QED  BY <1>3 DEF Event

LEMMA PurgeIndex ==
  ASSUME TypeInv, PurgeConn
  PROVE  mWorker \in Worker /\ mConn \in Conn
BY SizeAssumption DEF PurgeConn, Conn, TypeInv, TypeOK, ThreadInv

LEMMA NextTypeInv == TypeInv /\ [Next]_vars => TypeInv'
<1>. SUFFICES ASSUME TypeInv, [Next]_vars PROVE TypeInv'
  OBVIOUS
<1>. USE SizeAssumption, FdAssumption
<1>a. ASSUME Environment PROVE TypeInv'
  <2>1. ASSUME NEW f \in Socket, Connect(f) PROVE TypeInv'
    BY <2>1 DEF TypeInv, TypeOK, ThreadInv, Connect, acceptVars, batchVars,
                poolVars, mainVars
  <2>2. ASSUME NEW w \in Worker, NEW c \in Conn, PeerActivity(w, c) PROVE TypeInv'
    BY <2>2 DEF TypeInv, TypeOK, ThreadInv, PeerActivity, acceptVars, batchVars,
                poolVars, mainVars, Event
  <2>. QED  BY <1>a, <2>1, <2>2 DEF Environment
<1>b. ASSUME AcceptThread PROVE TypeInv'
  <2>. USE DEF TypeInv, TypeOK, ThreadInv, acceptVars, batchVars, poolVars, mainVars
  <2>1. CASE AcceptLoop  BY <2>1 DEF AcceptLoop
  <2>2. CASE SelectNothing  BY <2>2 DEF SelectNothing
  <2>3. CASE Reserve
    <3>1. iCur % ThreadSize \in Worker
      BY DEF Worker
    <3>2. iCur' \in Worker /\ iCur' \in 0 .. ThreadSize
      BY <2>3, <3>1 DEF Reserve, Worker
    <3>3. connCount' \in [Worker -> Int]
      BY <2>3, <3>1 DEF Reserve
    <3>4. aPc' \in {"undo", "write"} /\ i < ThreadSize /\ client \in Socket
      BY <2>3 DEF Reserve
    <3>. QED  BY <2>3, <3>2, <3>3, <3>4 DEF Reserve
  <2>4. CASE Undo
    <3>1. iCur' \in 0 .. ThreadSize /\ i' \in 0 .. ThreadSize
      BY <2>4 DEF Undo, Worker
    <3>2. connCount' \in [Worker -> Int]
      BY <2>4 DEF Undo
    <3>. QED  BY <2>4, <3>1, <3>2 DEF Undo
  <2>5. CASE Refuse  BY <2>5 DEF Refuse
  <2>6. CASE HandOver
    <3>1. iCur \in Worker /\ client \in Socket
      BY <2>6 DEF HandOver
    <3>2. pipe' \in [Worker -> Seq(Socket)]
      BY <2>6, <3>1 DEF HandOver
    <3>3. ready' \in [Worker -> SUBSET Event]
      BY <2>6, <3>1 DEF HandOver, Event
    <3>. QED  BY <2>6, <3>2, <3>3 DEF HandOver
  <2>7. ASSUME NEW f \in Socket, Accept(f) PROVE TypeInv'
    <3>1. sock' \in [Socket -> {"free", "backlog", "open"}]
      BY <2>7 DEF Accept
    <3>2. aPc' \in {"loop", "find"} /\ (aPc' = "find" => client' \in Socket)
      BY <2>7 DEF Accept
    <3>3. client' \in Socket \cup {InvalidFd} /\ i' \in 0 .. ThreadSize
      BY <2>7 DEF Accept
    <3>. QED  BY <2>7, <3>1, <3>2, <3>3 DEF Accept
  <2>. QED  BY <1>b, <2>1, <2>2, <2>3, <2>4, <2>5, <2>6, <2>7 DEF AcceptThread
<1>c. ASSUME NEW w \in Worker, WorkThread(w) PROVE TypeInv'
  <2>. USE DEF TypeInv, TypeOK, ThreadInv, acceptVars, batchVars, poolVars, mainVars
  <2>1. CASE WorkLoop(w)  BY <2>1 DEF WorkLoop
  <2>2. CASE PollFails(w)  BY <2>2 DEF PollFails
  <2>3. CASE Poll(w)
    <3>1. PICK S \in SUBSET Event : \E b \in Orders(S) :
            events' = [events EXCEPT ![w] = b]
      BY <2>3 DEF Poll
    <3>2. events' \in [Worker -> Seq(Event)]
      BY <3>1, OrdersType
    <3>3. ready' \in [Worker -> SUBSET Event]
      BY <2>3 DEF Poll
    <3>. QED  BY <2>3, <3>2, <3>3 DEF Poll
  <2>4. CASE PipeEvent(w)  BY <2>4 DEF PipeEvent, MoreEvents
  <2>5. CASE ReadPipe(w)  BY <2>5 DEF ReadPipe
  <2>6. CASE ConnEvent(w)
    <3>1. Current(w) \in Conn
      BY <2>6, CurrentConn DEF ConnEvent
    <3>2. CASE CloseConnect(w, Current(w))
      BY <2>6, <3>1, <3>2, CloseConnectType, SMTT(30) DEF ConnEvent
    <3>3. CASE UNCHANGED <<sock, poolVars, connCount, ready>>
      BY <2>6, <3>3, SMTT(30) DEF ConnEvent
    <3>. QED  BY <2>6, <3>2, <3>3 DEF ConnEvent
  <2>7. CASE EventsDone(w)  BY <2>7 DEF EventsDone
  <2>8. CASE NewConnect(w)
    <3>1. arr' \in [Worker -> Seq(Socket)] /\ Head(arr[w]) \in Socket
      BY <2>8 DEF NewConnect, NextDescriptor
    <3>2. /\ idleConnList' \in [Worker -> Seq(Conn)]
          /\ cliFd' \in [Worker -> [Conn -> Socket \cup {InvalidFd}]]
          /\ ready' \in [Worker -> SUBSET Event]
      <4>1. CASE idleConnList[w] = <<>>
        BY <2>8, <4>1 DEF NewConnect
      <4>2. CASE idleConnList[w] # <<>>
        <5>1. Head(idleConnList[w]) \in Conn /\ Tail(idleConnList[w]) \in Seq(Conn)
          BY <4>2, HeadTailProperties
        <5>2. idleConnList' \in [Worker -> Seq(Conn)]
          BY <2>8, <4>2, <5>1 DEF NewConnect
        <5>. DEFINE c == Head(idleConnList[w])
        <5>3. /\ cliFd' = [cliFd EXCEPT ![w] = [@ EXCEPT ![c] = Head(arr[w])]]
              /\ ready' = [ready EXCEPT ![w] = @ \cup {c}]
          BY <2>8, <4>2 DEF NewConnect
        <5>. HIDE DEF c
        <5>4. ready[w] \cup {c} \in SUBSET Event
          BY <5>1 DEF Event, c
        <5>5. [cliFd[w] EXCEPT ![c] = Head(arr[w])] \in [Conn -> Socket \cup {InvalidFd}]
          BY <3>1, <5>1 DEF c
        <5>6. cliFd' \in [Worker -> [Conn -> Socket \cup {InvalidFd}]]
          BY <5>3, <5>5
        <5>7. ready' \in [Worker -> SUBSET Event]
          BY <5>3, <5>4
        <5>. QED  BY <5>2, <5>6, <5>7
      <4>. QED  BY <4>1, <4>2
    <3>3. wPc' \in [Worker -> {"loop", "poll", "foreach", "read", "newconn",
                              "tail", "exited"}]
      BY <2>8 DEF NewConnect, NextDescriptor
    <3>. QED  BY <2>8, <3>1, <3>2, <3>3 DEF NewConnect, NextDescriptor
  <2>9. CASE NewConnectFails(w)  BY <2>9, SMTT(40) DEF NewConnectFails, NextDescriptor
  <2>10. CASE TailDone(w)  BY <2>10 DEF TailDone
  <2>11. ASSUME NEW c \in Conn, TailClose(w, c) PROVE TypeInv'
    BY <2>11, CloseConnectType, ZenonT(40) DEF TailClose
  <2>. QED  BY <1>c, <2>1, <2>2, <2>3, <2>4, <2>5, <2>6, <2>7, <2>8, <2>9,
               <2>10, <2>11 DEF WorkThread
<1>d. CASE Stop
  BY <1>d DEF Stop, TypeInv, TypeOK, ThreadInv, acceptVars, batchVars, poolVars
<1>e. ASSUME MainThread PROVE TypeInv'
  <2>. USE DEF TypeInv, TypeOK, ThreadInv, acceptVars, batchVars, poolVars, mainVars
  <2>1. CASE QuitAccept
    <3>1. sock' \in [Socket -> {"free", "backlog", "open"}]
      BY <2>1 DEF QuitAccept
    <3>. QED  BY <2>1, <3>1 DEF QuitAccept
  <2>2. CASE JoinWorker
    <3>1. mWorker \in Worker
      BY <2>2 DEF JoinWorker, Worker
    <3>. QED  BY <2>2, <3>1, SMTT(30) DEF JoinWorker
  <2>3. CASE PurgeConn
    <3>1. mWorker \in Worker /\ mConn \in Conn /\ mConn' \in 0 .. ConnectSize
      BY <2>3 DEF PurgeConn, Conn
    <3>2. CASE CloseConnect(mWorker, mConn)
      BY <2>3, <3>1, <3>2, CloseConnectType DEF PurgeConn
    <3>3. CASE UNCHANGED <<sock, poolVars, connCount, ready>>
      BY <2>3, <3>1, <3>3 DEF PurgeConn
    <3>. QED  BY <2>3, <3>2, <3>3 DEF PurgeConn
  <2>4. CASE PurgeDone  BY <2>4 DEF PurgeDone, Worker
  <2>5. CASE QuitDone  BY <2>5 DEF QuitDone
  <2>. QED  BY <1>e, <2>1, <2>2, <2>3, <2>4, <2>5 DEF MainThread
<1>f. CASE UNCHANGED vars
  BY <1>f DEF vars, TypeInv, TypeOK, ThreadInv, acceptVars, batchVars, poolVars,
              mainVars
<1>. QED  BY <1>a, <1>b, <1>c, <1>d, <1>e, <1>f DEF Next

(* In every behaviour every variable keeps its type: descriptors in the    *)
(* pipe are real ones, iCur and the main thread's index stay in range.     *)
THEOREM TypeCorrect == Spec => []TypeOK
<1>1. TypeInv => TypeOK
  BY DEF TypeInv
<1>. QED  BY InitTypeInv, NextTypeInv, <1>1, PTL DEF Spec

-----------------------------------------------------------------------------
(* The reservations.  CountExact is not inductive: it needs that a worker  *)

-----------------------------------------------------------------------------
(* The reservations.  CountExact is not inductive: it needs that a worker  *)
(* that is about to read its pipe has no descriptor left in cliSoDataArr,  *)
(* and that connCount exceeds ConnectSize only while the accept thread is  *)
(* about to undo the increment, so that NewConnect finds an idle record.   *)
Over(w) == IF aPc = "undo" /\ iCur = w THEN 1 ELSE 0

(* What is left of connCount[w] when everything it counts is subtracted.   *)
Balance(w) == connCount[w] + Len(idleConnList[w]) - Len(pipe[w]) - Len(arr[w]) - Held(w)

WorkerInv(w) ==
  /\ Balance(w) = ConnectSize
  /\ connCount[w] <= ConnectSize + Over(w)
  /\ wPc[w] # "newconn" => arr[w] = <<>>

CountInv == \A w \in Worker : WorkerInv(w)

(* What the arithmetic of the proofs below needs to know of worker w.      *)
LEMMA Numbers ==
  ASSUME TypeOK, NEW w \in Worker
  PROVE  /\ connCount[w] \in Int
         /\ Len(pipe[w]) \in Int /\ Len(arr[w]) \in Int
         /\ Len(idleConnList[w]) \in Int
         /\ Held(w) \in Int /\ Over(w) \in Int
         /\ ConnectSize \in Int
<1>1. /\ connCount[w] \in Int
      /\ Len(pipe[w]) \in Int /\ Len(arr[w]) \in Int
      /\ Len(idleConnList[w]) \in Int
  BY DEF TypeOK
<1>2. Held(w) \in Int /\ Over(w) \in Int
  BY DEF Held, Over
<1>. QED  BY <1>1, <1>2, SizeAssumption

LEMMA InitCountInv == Init => CountInv
<1>. SUFFICES ASSUME Init, NEW w \in Worker PROVE WorkerInv(w)
  BY DEF CountInv
<1>1. [k \in 1 .. ConnectSize |-> k - 1] \in Seq(Conn)
  BY SizeAssumption DEF Conn
<1>2. Len(idleConnList[w]) = ConnectSize
  BY <1>1, SizeAssumption, LenProperties DEF Init
<1>3. /\ Len(pipe[w]) = 0 /\ Len(arr[w]) = 0 /\ arr[w] = <<>>
      /\ connCount[w] = 0
  BY DEF Init
<1>4. Held(w) = 0 /\ Over(w) = 0
  BY DEF Init, Held, Over
<1>. QED  BY <1>2, <1>3, <1>4, SizeAssumption DEF WorkerInv, Balance

LEMMA CountInvExact == TypeOK /\ CountInv => CountExact
<1>. SUFFICES ASSUME TypeOK, CountInv, NEW w \in Worker
              PROVE  connCount[w] = (ConnectSize - Len(idleConnList[w]))
                                    + Len(pipe[w]) + Len(arr[w]) + Held(w)
  BY DEF CountExact
<1>1. Balance(w) = ConnectSize
  BY DEF CountInv, WorkerInv
<1>. DEFINE n == connCount[w]
            d == Len(idleConnList[w])
            p == Len(pipe[w])
            a == Len(arr[w])
            h == Held(w)
<1>2. n + d - p - a - h = ConnectSize
  BY <1>1 DEF Balance
<1>3. /\ n \in Int /\ d \in Int /\ p \in Int /\ a \in Int /\ h \in Int
      /\ ConnectSize \in Int
  BY Numbers
<1>. HIDE DEF n, d, p, a, h
<1>4. n = (ConnectSize - d) + p + a + h
  BY <1>2, <1>3
<1>. QED  BY <1>4 DEF n, d, p, a, h

(* An idle record is left for every descriptor on its way to a worker.     *)
LEMMA WorkerRoom ==
  ASSUME TypeOK, CountInv, NEW w \in Worker
  PROVE  Len(pipe[w]) + Len(arr[w]) + (Held(w) - Over(w)) <= Len(idleConnList[w])
<1>1. Balance(w) = ConnectSize /\ connCount[w] <= ConnectSize + Over(w)
  BY DEF CountInv, WorkerInv
<1>2. /\ connCount[w] \in Int /\ Len(idleConnList[w]) \in Int
      /\ Len(pipe[w]) \in Int /\ Len(arr[w]) \in Int
      /\ Held(w) \in Int /\ Over(w) \in Int /\ ConnectSize \in Int
  BY Numbers
<1>. DEFINE n == connCount[w]
            d == Len(idleConnList[w])
            p == Len(pipe[w])
            a == Len(arr[w])
            h == Held(w)
            o == Over(w)
<1>3. n + d - p - a - h = ConnectSize /\ n <= ConnectSize + o
  BY <1>1 DEF Balance
<1>4. /\ n \in Int /\ d \in Int /\ p \in Int /\ a \in Int /\ h \in Int
      /\ o \in Int /\ ConnectSize \in Int
  BY <1>2
<1>. HIDE DEF n, d, p, a, h, o
<1>5. p + a + (h - o) <= d
  BY <1>3, <1>4
<1>. QED  BY <1>5 DEF p, a, h, o, d

LEMMA CountInvRoom == TypeOK /\ CountInv => RoomReserved
<1>. SUFFICES ASSUME TypeOK, CountInv, NEW w \in Worker
              PROVE  Len(pipe[w]) + Len(arr[w]) + (IF aPc = "write" THEN Held(w) ELSE 0)
                       <= Len(idleConnList[w])
  BY DEF RoomReserved
<1>1. Held(w) - Over(w) = IF aPc = "write" THEN Held(w) ELSE 0
  BY DEF Over, Held
<1>. QED  BY <1>1, WorkerRoom, Zenon

(* A step moves units between the terms of the balance of worker w: dn to  *)
(* connCount, dd to the idle list, dp to the pipe, da to cliSoDataArr and  *)
(* dh to the accept thread's place.                                        *)
LEMMA Moves ==
  ASSUME TypeOK, CountInv, NEW w \in Worker,
         NEW dn \in Int, NEW dd \in Int, NEW dp \in Int, NEW da \in Int,
         NEW dh \in Int,
         connCount'[w] = connCount[w] + dn,
         Len(idleConnList'[w]) = Len(idleConnList[w]) + dd,
         Len(pipe'[w]) = Len(pipe[w]) + dp,
         Len(arr'[w]) = Len(arr[w]) + da,
         Held(w)' = Held(w) + dh,
         dn + dd - dp - da - dh = 0
  PROVE  Balance(w)' = ConnectSize
<1>1. Balance(w) = ConnectSize
  BY DEF CountInv, WorkerInv
<1>. DEFINE n == connCount[w]
            d == Len(idleConnList[w])
            p == Len(pipe[w])
            a == Len(arr[w])
            h == Held(w)
<1>2. n + d - p - a - h = ConnectSize
  BY <1>1 DEF Balance
<1>3. /\ n \in Int /\ d \in Int /\ p \in Int /\ a \in Int /\ h \in Int
      /\ ConnectSize \in Int
  BY Numbers
<1>4. Balance(w)' = (n + dn) + (d + dd) - (p + dp) - (a + da) - (h + dh)
  BY DEF Balance
<1>. HIDE DEF n, d, p, a, h
<1>5. (n + dn) + (d + dd) - (p + dp) - (a + da) - (h + dh) = ConnectSize
  BY <1>2, <1>3
<1>. QED  BY <1>4, <1>5

(* The moves the actions make: each cancels.                               *)
LEMMA Deltas ==
  /\ 0 \in Int /\ 1 \in Int /\ -1 \in Int
  /\ 1 + 0 - 0 - 0 - 1 = 0          \* Reserve
  /\ -1 + 0 - 0 - 0 - (-1) = 0      \* Undo
  /\ 0 + 0 - 1 - 0 - (-1) = 0       \* HandOver
  /\ 0 + (-1) - 0 - (-1) - 0 = 0    \* NewConnect
  /\ -1 + 0 - 0 - (-1) - 0 = 0      \* NewConnectFails
  /\ -1 + 1 - 0 - 0 - 0 = 0         \* CloseConnect
OBVIOUS

(* A worker none of whose terms changes keeps its part of the invariant.   *)
LEMMA Elsewhere ==
  ASSUME CountInv, NEW v \in Worker,
         connCount'[v] = connCount[v], idleConnList'[v] = idleConnList[v],
         pipe'[v] = pipe[v], arr'[v] = arr[v],
         Held(v)' = Held(v), Over(v)' = Over(v),
         wPc'[v] # "newconn" => arr[v] = <<>>
  PROVE  WorkerInv(v)'
<1>1. WorkerInv(v)
  BY DEF CountInv
<1>2. Balance(v)' = Balance(v)
  BY DEF Balance
<1>. QED  BY <1>1, <1>2 DEF WorkerInv

(* Closing a connection moves one unit from connCount to the idle list.    *)
LEMMA CloseConnectCount ==
  ASSUME TypeOK, CountInv, NEW w \in Worker, NEW c \in Conn, CloseConnect(w, c),
         UNCHANGED <<pipe, arr, wPc, aPc, iCur>>
  PROVE  CountInv'
<1>. SUFFICES ASSUME NEW v \in Worker PROVE WorkerInv(v)'
  BY DEF CountInv
<1>1. Held(v)' = Held(v) /\ Over(v)' = Over(v)
  BY DEF Held, Over
<1>2. WorkerInv(v)
  BY DEF CountInv
<1>3. CASE v # w
  BY <1>1, <1>2, <1>3, Elsewhere DEF CloseConnect, TypeOK, WorkerInv
<1>4. CASE v = w
  <2>1. connCount'[v] = connCount[v] + (-1)
    BY <1>4, Numbers DEF CloseConnect, TypeOK
  <2>2. idleConnList[v] \in Seq(Conn) /\ idleConnList'[v] = Append(idleConnList[v], c)
    BY <1>4 DEF CloseConnect, TypeOK
  <2>3. Len(idleConnList'[v]) = Len(idleConnList[v]) + 1
    BY <2>2
  <2>4. Len(pipe'[v]) = Len(pipe[v]) + 0 /\ Len(arr'[v]) = Len(arr[v]) + 0
        /\ Held(v)' = Held(v) + 0
    BY <1>1, Numbers
  <2>5. Balance(v)' = ConnectSize
    BY <2>1, <2>3, <2>4, Deltas, Moves, Zenon
  <2>6. connCount'[v] <= ConnectSize + Over(v)'
    BY <1>1, <1>2, <2>1, Numbers DEF WorkerInv
  <2>. QED  BY <1>2, <2>5, <2>6 DEF WorkerInv
<1>. QED  BY <1>3, <1>4

(* A step that leaves the counters, the queues and the accept thread's     *)
(* place alone preserves the accounting.                                   *)
LEMMA CountInvUnchanged ==
  ASSUME CountInv,
         UNCHANGED <<connCount, pipe, arr, idleConnList, iCur>>,
         aPc' \in {"undo", "write"} <=> aPc \in {"undo", "write"},
         aPc' = "undo" <=> aPc = "undo",
         \A w \in Worker : wPc'[w] # "newconn" => arr[w] = <<>>
  PROVE  CountInv'
<1>. SUFFICES ASSUME NEW v \in Worker PROVE WorkerInv(v)'
  BY DEF CountInv
<1>1. Held(v)' = Held(v) /\ Over(v)' = Over(v)
  BY DEF Held, Over
<1>. QED  BY <1>1, Elsewhere

(* The accept thread reserves a place, and gives it back or hands it over. *)
LEMMA ReserveCount ==
  ASSUME TypeInv, TypeInv', CountInv, Reserve
  PROVE  CountInv'
<1>. DEFINE w == iCur'
<1>1. w \in Worker /\ connCount' = [connCount EXCEPT ![w] = @ + 1]
  BY DEF Reserve, TypeInv, ThreadInv
<1>2. aPc = "find" /\ aPc' = IF connCount[w] + 1 > ConnectSize THEN "undo" ELSE "write"
  BY DEF Reserve
<1>3. UNCHANGED <<pipe, arr, idleConnList, wPc>>
  BY DEF Reserve, poolVars
<1>4. iCur' = w
  OBVIOUS
<1>. HIDE DEF w
<1>. SUFFICES ASSUME NEW v \in Worker PROVE WorkerInv(v)'
  BY DEF CountInv
<1>5. Held(v) = 0 /\ Over(v) = 0
  BY <1>2 DEF Held, Over
<1>6. WorkerInv(v)
  BY DEF CountInv
<1>7. CASE v # w
  <2>1. Held(v)' = 0 /\ Over(v)' = 0
    BY <1>4, <1>7 DEF Held, Over
  <2>2. connCount'[v] = connCount[v]
    BY <1>1, <1>7 DEF TypeInv, TypeOK
  <2>. QED  BY <1>3, <1>5, <1>6, <2>1, <2>2, Elsewhere DEF WorkerInv
<1>8. CASE v = w
  <2>1. Held(v)' = 1
    BY <1>2, <1>4, <1>8 DEF Held
  <2>2. connCount'[v] = connCount[v] + 1 /\ connCount[v] \in Int
    BY <1>1, <1>8 DEF TypeInv, TypeOK
  <2>3. /\ Len(idleConnList'[v]) = Len(idleConnList[v]) + 0
        /\ Len(pipe'[v]) = Len(pipe[v]) + 0 /\ Len(arr'[v]) = Len(arr[v]) + 0
        /\ Held(v)' = Held(v) + 1
    BY <1>3, <1>5, <2>1, Numbers DEF TypeInv
  <2>4. Balance(v)' = ConnectSize
    BY <2>2, <2>3, Deltas, Moves, Zenon DEF TypeInv
  <2>5. connCount'[v] <= ConnectSize + Over(v)'
    <3>1. CASE connCount[v] + 1 > ConnectSize
      <4>1. Over(v)' = 1
        BY <1>2, <1>4, <1>8, <3>1 DEF Over
      <4>2. connCount[v] <= ConnectSize
        BY <1>5, <1>6, SizeAssumption DEF WorkerInv
      <4>. QED  BY <2>2, <4>1, <4>2, SizeAssumption
    <3>2. CASE ~(connCount[v] + 1 > ConnectSize)
      <4>1. Over(v)' = 0
        BY <1>2, <1>4, <1>8, <3>2 DEF Over
      <4>. QED  BY <2>2, <3>2, <4>1, SizeAssumption
    <3>. QED  BY <3>1, <3>2
  <2>. QED  BY <1>3, <1>6, <2>4, <2>5 DEF WorkerInv
<1>. QED  BY <1>7, <1>8

LEMMA UndoCount ==
  ASSUME TypeInv, CountInv, Undo
  PROVE  CountInv'
<1>1. iCur \in Worker /\ aPc = "undo" /\ aPc' = "find"
  BY DEF Undo, TypeInv, ThreadInv
<1>2. UNCHANGED <<pipe, arr, idleConnList, wPc>>
  BY DEF Undo, poolVars
<1>. SUFFICES ASSUME NEW v \in Worker PROVE WorkerInv(v)'
  BY DEF CountInv
<1>3. Held(v)' = 0 /\ Over(v)' = 0
  BY <1>1 DEF Held, Over
<1>4. WorkerInv(v)
  BY DEF CountInv
<1>5. CASE v # iCur
  <2>1. Held(v) = 0 /\ Over(v) = 0
    BY <1>5 DEF Held, Over
  <2>2. connCount'[v] = connCount[v]
    BY <1>1, <1>5 DEF Undo, TypeInv, TypeOK
  <2>. QED  BY <1>2, <1>3, <1>4, <2>1, <2>2, Elsewhere DEF WorkerInv
<1>6. CASE v = iCur
  <2>1. Held(v) = 1 /\ Over(v) = 1
    BY <1>1, <1>6 DEF Held, Over
  <2>2. connCount'[v] = connCount[v] + (-1) /\ connCount[v] \in Int
    BY <1>1, <1>6 DEF Undo, TypeInv, TypeOK
  <2>3. /\ Len(idleConnList'[v]) = Len(idleConnList[v]) + 0
        /\ Len(pipe'[v]) = Len(pipe[v]) + 0 /\ Len(arr'[v]) = Len(arr[v]) + 0
        /\ Held(v)' = Held(v) + (-1)
    BY <1>2, <1>3, <2>1, Numbers DEF TypeInv
  <2>4. Balance(v)' = ConnectSize
    BY <2>2, <2>3, Deltas, Moves, Zenon DEF TypeInv
  <2>5. connCount'[v] <= ConnectSize + Over(v)'
    BY <1>3, <1>4, <2>1, <2>2, SizeAssumption DEF WorkerInv
  <2>. QED  BY <1>2, <1>4, <2>4, <2>5 DEF WorkerInv
<1>. QED  BY <1>5, <1>6

LEMMA HandOverCount ==
  ASSUME TypeInv, CountInv, HandOver
  PROVE  CountInv'
<1>1. iCur \in Worker /\ client \in Socket /\ aPc = "write" /\ aPc' = "loop"
  BY DEF HandOver, TypeInv, ThreadInv
<1>2. UNCHANGED <<connCount, arr, idleConnList, wPc>>
  BY DEF HandOver, poolVars
<1>. SUFFICES ASSUME NEW v \in Worker PROVE WorkerInv(v)'
  BY DEF CountInv
<1>3. Held(v)' = 0 /\ Over(v)' = 0 /\ Over(v) = 0
  BY <1>1 DEF Held, Over
<1>4. WorkerInv(v)
  BY DEF CountInv
<1>5. CASE v # iCur
  <2>1. Held(v) = 0
    BY <1>5 DEF Held
  <2>2. pipe'[v] = pipe[v]
    BY <1>1, <1>5 DEF HandOver, TypeInv, TypeOK
  <2>. QED  BY <1>2, <1>3, <1>4, <2>1, <2>2, Elsewhere DEF WorkerInv
<1>6. CASE v = iCur
  <2>1. Held(v) = 1
    BY <1>1, <1>6 DEF Held
  <2>2. pipe[v] \in Seq(Socket) /\ pipe'[v] = Append(pipe[v], client)
    BY <1>1, <1>6 DEF HandOver, TypeInv, TypeOK
  <2>3. Len(pipe'[v]) = Len(pipe[v]) + 1
    BY <1>1, <2>2
  <2>4. /\ connCount'[v] = connCount[v] + 0
        /\ Len(idleConnList'[v]) = Len(idleConnList[v]) + 0
        /\ Len(arr'[v]) = Len(arr[v]) + 0
        /\ Held(v)' = Held(v) + (-1)
    BY <1>2, <1>3, <2>1, Numbers DEF TypeInv
  <2>5. Balance(v)' = ConnectSize
    BY <2>3, <2>4, Deltas, Moves, Zenon DEF TypeInv
  <2>. QED  BY <1>2, <1>3, <1>4, <2>5 DEF WorkerInv
<1>. QED  BY <1>5, <1>6

(* A worker takes the contents of its pipe.                                *)
LEMMA ReadPipeCount ==
  ASSUME TypeInv, CountInv, NEW w \in Worker, ReadPipe(w)
  PROVE  CountInv'
<1>1. UNCHANGED <<connCount, idleConnList, aPc, iCur>>
  BY DEF ReadPipe, poolVars, acceptVars
<1>. SUFFICES ASSUME NEW v \in Worker PROVE WorkerInv(v)'
  BY DEF CountInv
<1>2. Held(v)' = Held(v) /\ Over(v)' = Over(v)
  BY <1>1 DEF Held, Over
<1>3. WorkerInv(v)
  BY DEF CountInv
<1>4. CASE v # w
  <2>1. pipe'[v] = pipe[v] /\ arr'[v] = arr[v] /\ wPc'[v] = wPc[v]
    BY <1>4 DEF ReadPipe, TypeInv, TypeOK
  <2>. QED  BY <1>1, <1>2, <1>3, <2>1, Elsewhere DEF WorkerInv
<1>5. CASE v = w
  <2>1. arr[v] = <<>>
    BY <1>3, <1>5 DEF WorkerInv, ReadPipe
  <2>2. pipe'[v] = <<>> /\ arr'[v] = pipe[v] /\ wPc'[v] = "newconn"
    BY <1>5 DEF ReadPipe, TypeInv, TypeOK
  <2>. DEFINE p == Len(pipe[v])
  <2>3. p \in Int /\ Len(arr'[v]) = p
    BY <2>2, Numbers DEF TypeInv
  <2>4. Len(arr[v]) = 0 /\ Len(pipe'[v]) = 0 /\ Len(pipe[v]) = p
    BY <2>1, <2>2
  <2>. HIDE DEF p
  <2>5. Len(pipe'[v]) = Len(pipe[v]) + (-p) /\ Len(arr'[v]) = Len(arr[v]) + p
    BY <2>3, <2>4
  <2>6. /\ connCount'[v] = connCount[v] + 0
        /\ Len(idleConnList'[v]) = Len(idleConnList[v]) + 0
        /\ Held(v)' = Held(v) + 0
    BY <1>1, <1>2, Numbers DEF TypeInv
  <2>7. -p \in Int /\ 0 \in Int /\ 0 + 0 - (-p) - p - 0 = 0
    BY <2>3
  <2>8. Balance(v)' = ConnectSize
    BY <2>3, <2>5, <2>6, <2>7, Moves, Zenon DEF TypeInv
  <2>. QED  BY <1>1, <1>2, <1>3, <2>2, <2>8 DEF WorkerInv
<1>. QED  BY <1>4, <1>5

(* While there is a descriptor left to process there is an idle record.    *)
LEMMA IdleLeft ==
  ASSUME TypeInv, CountInv, NEW w \in Worker, NextDescriptor(w)
  PROVE  idleConnList[w] # <<>>
<1>1. arr[w] \in Seq(Socket) /\ arr[w] # <<>>
  BY DEF NextDescriptor, TypeInv, TypeOK
<1>2. Len(arr[w]) > 0
  BY <1>1, EmptySeq
<1>3. Held(w) \in {0, 1} /\ Over(w) \in {0, 1} /\ Over(w) <= Held(w)
  BY DEF Held, Over
<1>4. Len(pipe[w]) \in Nat /\ Len(arr[w]) \in Nat /\ Len(idleConnList[w]) \in Nat
  BY DEF TypeInv, TypeOK
<1>5. Len(pipe[w]) + Len(arr[w]) + (Held(w) - Over(w)) <= Len(idleConnList[w])
  BY WorkerRoom DEF TypeInv
<1>. DEFINE p == Len(pipe[w])
            a == Len(arr[w])
            d == Len(idleConnList[w])
            h == Held(w)
            o == Over(w)
<1>6. p + a + (h - o) <= d /\ a > 0 /\ o <= h
  BY <1>2, <1>3, <1>5
<1>7. p \in Nat /\ a \in Int /\ d \in Int /\ h \in Int /\ o \in Int
  BY <1>3, <1>4
<1>. HIDE DEF p, a, d, h, o
<1>8. d > 0
  BY <1>6, <1>7
<1>. QED  BY <1>8 DEF d

(* A turn of processNewConnect's loop: dn and dd are what it adds to       *)
(* connCount and to the length of the idle list.                           *)
LEMMA DescriptorCount ==
  ASSUME TypeInv, CountInv, NEW w \in Worker, NextDescriptor(w),
         UNCHANGED <<pipe, aPc, iCur>>,
         \A v \in Worker \ {w} : connCount'[v] = connCount[v]
                                 /\ idleConnList'[v] = idleConnList[v],
         NEW dn \in Int, NEW dd \in Int,
         connCount'[w] = connCount[w] + dn,
         Len(idleConnList'[w]) = Len(idleConnList[w]) + dd,
         dn + dd - 0 - (-1) - 0 = 0,
         connCount'[w] <= connCount[w]
  PROVE  CountInv'
<1>. SUFFICES ASSUME NEW v \in Worker PROVE WorkerInv(v)'
  BY DEF CountInv
<1>1. Held(v)' = Held(v) /\ Over(v)' = Over(v)
  BY DEF Held, Over
<1>2. WorkerInv(v)
  BY DEF CountInv
<1>3. CASE v # w
  <2>1. arr'[v] = arr[v] /\ wPc'[v] = wPc[v]
    BY <1>3 DEF NextDescriptor, TypeInv, TypeOK
  <2>. QED  BY <1>1, <1>2, <1>3, <2>1, Elsewhere DEF WorkerInv
<1>4. CASE v = w
  <2>1. arr[v] \in Seq(Socket) /\ arr[v] # <<>> /\ arr'[v] = Tail(arr[v])
    BY <1>4 DEF NextDescriptor, TypeInv, TypeOK
  <2>2. Len(arr'[v]) = Len(arr[v]) + (-1) /\ arr'[v] \in Seq(Socket)
    BY <2>1, HeadTailProperties
  <2>3. wPc'[v] = IF Len(arr[v]) = 1 THEN "foreach" ELSE "newconn"
    BY <1>4 DEF NextDescriptor, TypeInv, TypeOK
  <2>4. wPc'[v] # "newconn" => arr'[v] = <<>>
    <3>1. CASE Len(arr[v]) = 1
      <4>1. Len(arr'[v]) = 0
        BY <2>2, <3>1
      <4>. QED  BY <2>2, <4>1, EmptySeq
    <3>2. CASE Len(arr[v]) # 1
      BY <2>3, <3>2
    <3>. QED  BY <3>1, <3>2
  <2>5. Len(pipe'[v]) = Len(pipe[v]) + 0 /\ Held(v)' = Held(v) + 0
    BY <1>1, Numbers DEF TypeInv
  <2>6. Balance(v)' = ConnectSize
    BY <1>4, <2>2, <2>5, Deltas, Moves, ZenonT(30) DEF TypeInv
  <2>7. connCount'[v] <= ConnectSize + Over(v)'
    <3>. DEFINE n == connCount[v]
                o == Over(v)
    <3>1. n <= ConnectSize + o /\ connCount'[v] <= n /\ connCount'[v] = n + dn
      BY <1>2, <1>4 DEF WorkerInv
    <3>2. n \in Int /\ o \in Int /\ ConnectSize \in Int
      BY Numbers DEF TypeInv
    <3>. HIDE DEF n, o
    <3>3. connCount'[v] <= ConnectSize + o
      BY <3>1, <3>2
    <3>. QED  BY <1>1, <3>3 DEF o
  <2>. QED  BY <2>4, <2>6, <2>7 DEF WorkerInv
<1>. QED  BY <1>3, <1>4

LEMMA NewConnectCount ==
  ASSUME TypeInv, CountInv, NEW w \in Worker, NewConnect(w)
  PROVE  CountInv'
<1>1. NextDescriptor(w) /\ idleConnList[w] # <<>> /\ connCount' = connCount
  BY IdleLeft DEF NewConnect
<1>2. UNCHANGED <<pipe, aPc, iCur>>
  BY DEF NewConnect, NextDescriptor, acceptVars
<1>3. idleConnList' = [idleConnList EXCEPT ![w] = Tail(@)]
  BY <1>1 DEF NewConnect
<1>4. \A v \in Worker \ {w} : idleConnList'[v] = idleConnList[v]
  BY <1>3 DEF TypeInv, TypeOK
<1>5. idleConnList[w] \in Seq(Conn) /\ idleConnList'[w] = Tail(idleConnList[w])
  BY <1>3 DEF TypeInv, TypeOK
<1>6. Len(idleConnList'[w]) = Len(idleConnList[w]) + (-1)
  BY <1>1, <1>5, HeadTailProperties
<1>7. connCount'[w] = connCount[w] + 0 /\ connCount'[w] <= connCount[w]
  BY <1>1, Numbers DEF TypeInv
<1>. QED
  BY <1>1, <1>2, <1>4, <1>6, <1>7, Deltas, DescriptorCount, Zenon

LEMMA NewConnectFailsCount ==
  ASSUME TypeInv, CountInv, NEW w \in Worker, NewConnectFails(w)
  PROVE  CountInv'
<1>1. NextDescriptor(w) /\ idleConnList[w] # <<>>
  BY DEF NewConnectFails
<1>2. UNCHANGED <<pipe, aPc, iCur>>
  BY DEF NewConnectFails, NextDescriptor, acceptVars
<1>3. /\ idleConnList' = [idleConnList EXCEPT ![w] = Append(Tail(@), Head(@))]
      /\ connCount' = [connCount EXCEPT ![w] = @ - 1]
  BY DEF NewConnectFails
<1>4. \A v \in Worker \ {w} : /\ connCount'[v] = connCount[v]
                              /\ idleConnList'[v] = idleConnList[v]
  BY <1>3 DEF TypeInv, TypeOK
<1>5. /\ idleConnList[w] \in Seq(Conn)
      /\ idleConnList'[w] = Append(Tail(idleConnList[w]), Head(idleConnList[w]))
      /\ connCount[w] \in Int /\ connCount'[w] = connCount[w] - 1
  BY <1>3 DEF TypeInv, TypeOK
<1>6. /\ Tail(idleConnList[w]) \in Seq(Conn) /\ Head(idleConnList[w]) \in Conn
      /\ Len(Tail(idleConnList[w])) = Len(idleConnList[w]) - 1
  BY <1>1, <1>5, HeadTailProperties
<1>7. Len(idleConnList'[w]) = Len(idleConnList[w]) + 0
  BY <1>5, <1>6
<1>8. connCount'[w] = connCount[w] + (-1) /\ connCount'[w] <= connCount[w]
  BY <1>5
<1>. QED
  BY <1>1, <1>2, <1>4, <1>7, <1>8, Deltas, DescriptorCount, Zenon

LEMMA NextCountInv == TypeInv /\ TypeInv' /\ CountInv /\ [Next]_vars => CountInv'
<1>. SUFFICES ASSUME TypeInv, TypeInv', CountInv, [Next]_vars PROVE CountInv'
  OBVIOUS
<1>. USE DEF acceptVars, batchVars, poolVars, mainVars
<1>1. \A w \in Worker : wPc[w] # "newconn" => arr[w] = <<>>
  BY DEF CountInv, WorkerInv
<1>2. TypeOK
  BY DEF TypeInv
<1>3. wPc \in [Worker -> {"loop", "poll", "foreach", "read", "newconn", "tail",
                          "exited"}]
  BY DEF TypeInv, TypeOK
<1>a. ASSUME Environment PROVE CountInv'
  BY <1>a, <1>1, CountInvUnchanged DEF Environment, Connect, PeerActivity
<1>b. ASSUME AcceptThread PROVE CountInv'
  <2>1. CASE AcceptLoop
    BY <2>1, <1>1, CountInvUnchanged DEF AcceptLoop
  <2>2. CASE SelectNothing
    BY <2>2, <1>1, CountInvUnchanged DEF SelectNothing
  <2>3. CASE Reserve  BY <2>3, ReserveCount
  <2>4. CASE Undo     BY <2>4, UndoCount
  <2>5. CASE Refuse
    BY <2>5, <1>1, CountInvUnchanged DEF Refuse
  <2>6. CASE HandOver  BY <2>6, HandOverCount
  <2>7. ASSUME NEW f \in Socket, Accept(f) PROVE CountInv'
    BY <2>7, <1>1, CountInvUnchanged DEF Accept
  <2>. QED  BY <1>b, <2>1, <2>2, <2>3, <2>4, <2>5, <2>6, <2>7 DEF AcceptThread
<1>c. ASSUME NEW w \in Worker, WorkThread(w) PROVE CountInv'
  <2>1. CASE WorkLoop(w)
    BY <2>1, <1>1, <1>3, CountInvUnchanged DEF WorkLoop
  <2>2. CASE PollFails(w)
    BY <2>2, <1>1, <1>3, CountInvUnchanged DEF PollFails
  <2>3. CASE Poll(w)
    BY <2>3, <1>1, <1>3, CountInvUnchanged DEF Poll
  <2>4. CASE PipeEvent(w)
    BY <2>4, <1>1, <1>3, CountInvUnchanged DEF PipeEvent, MoreEvents
  <2>5. CASE ReadPipe(w)  BY <2>5, ReadPipeCount
  <2>6. CASE ConnEvent(w)
    <3>1. Current(w) \in Conn
      BY <2>6, CurrentConn DEF ConnEvent
    <3>2. CASE CloseConnect(w, Current(w))
      BY <2>6, <3>1, <3>2, <1>2, CloseConnectCount DEF ConnEvent
    <3>3. CASE UNCHANGED <<sock, poolVars, connCount, ready>>
      BY <2>6, <3>3, <1>1, CountInvUnchanged DEF ConnEvent
    <3>. QED  BY <2>6, <3>2, <3>3 DEF ConnEvent
  <2>7. CASE EventsDone(w)
    BY <2>7, <1>1, <1>3, CountInvUnchanged DEF EventsDone
  <2>8. CASE NewConnect(w)  BY <2>8, NewConnectCount
  <2>9. CASE NewConnectFails(w)  BY <2>9, NewConnectFailsCount
  <2>10. CASE TailDone(w)
    BY <2>10, <1>1, <1>3, CountInvUnchanged DEF TailDone
  <2>11. ASSUME NEW c \in Conn, TailClose(w, c) PROVE CountInv'
    BY <2>11, <1>2, CloseConnectCount DEF TailClose
  <2>. QED  BY <1>c, <2>1, <2>2, <2>3, <2>4, <2>5, <2>6, <2>7, <2>8, <2>9,
               <2>10, <2>11 DEF WorkThread
<1>d. CASE Stop
  BY <1>d, <1>1, CountInvUnchanged DEF Stop
<1>e. ASSUME MainThread PROVE CountInv'
  <2>1. CASE QuitAccept
    BY <2>1, <1>1, CountInvUnchanged DEF QuitAccept
  <2>2. CASE JoinWorker
    BY <2>2, <1>1, CountInvUnchanged DEF JoinWorker
  <2>3. CASE PurgeConn
    <3>1. mWorker \in Worker /\ mConn \in Conn
      BY <2>3, PurgeIndex
    <3>2. CASE CloseConnect(mWorker, mConn)
      BY <2>3, <3>1, <3>2, <1>2, CloseConnectCount DEF PurgeConn
    <3>3. CASE UNCHANGED <<sock, poolVars, connCount, ready>>
      BY <2>3, <3>3, <1>1, CountInvUnchanged DEF PurgeConn
    <3>. QED  BY <2>3, <3>2, <3>3 DEF PurgeConn
  <2>4. CASE PurgeDone
    BY <2>4, <1>1, CountInvUnchanged DEF PurgeDone
  <2>5. CASE QuitDone
    BY <2>5, <1>1, CountInvUnchanged DEF QuitDone
  <2>. QED  BY <1>e, <2>1, <2>2, <2>3, <2>4, <2>5 DEF MainThread
<1>f. CASE UNCHANGED vars
  BY <1>f, <1>1, CountInvUnchanged DEF vars
<1>. QED  BY <1>a, <1>b, <1>c, <1>d, <1>e, <1>f DEF Next

LEMMA Accounting == Spec => [](TypeInv /\ CountInv)
<1>1. Init => TypeInv /\ CountInv
  BY InitTypeInv, InitCountInv
<1>2. TypeInv /\ CountInv /\ [Next]_vars => (TypeInv /\ CountInv)'
  BY NextTypeInv, NextCountInv
<1>. QED  BY <1>1, <1>2, PTL DEF Spec

(* connCount, changed by two threads, is exact in every reachable state.   *)
THEOREM ConnCountExact == Spec => []CountExact
<1>1. TypeInv /\ CountInv => CountExact
  BY CountInvExact DEF TypeInv
<1>. QED  BY Accounting, <1>1, PTL

(* A worker never runs out of idle records while descriptors are on their  *)
(* way to it, whatever the sizes of the pools.                             *)
THEOREM PoolNeverDry == Spec => []RoomReserved
<1>1. TypeInv /\ CountInv => RoomReserved
  BY CountInvRoom DEF TypeInv
<1>. QED  BY Accounting, <1>1, PTL

-----------------------------------------------------------------------------
(* A worker's records and pipe.                                            *)


Distinct(s) == \A j, k \in DOMAIN s : s[j] = s[k] => j = k

-----------------------------------------------------------------------------
(* What is in a sequence when its head is taken or an element is put at    *)
(* its end.                                                                *)

LEMMA TailContains ==
  ASSUME NEW S, NEW s \in Seq(S), s # <<>>, Distinct(s)
  PROVE  /\ Distinct(Tail(s))
         /\ \A x : Contains(Tail(s), x) <=> Contains(s, x) /\ x # Head(s)
<1>1. /\ Tail(s) \in Seq(S) /\ Len(Tail(s)) = Len(s) - 1
      /\ Head(s) = s[1] /\ \A k \in 1 .. Len(s) - 1 : Tail(s)[k] = s[k + 1]
  BY HeadTailProperties
<1>2. Len(s) \in Nat /\ Len(s) > 0
  BY EmptySeq
<1>3. DOMAIN s = 1 .. Len(s) /\ DOMAIN Tail(s) = 1 .. Len(s) - 1
  BY <1>1
<1>4. Distinct(Tail(s))
  <2>. SUFFICES ASSUME NEW j \in 1 .. Len(s) - 1, NEW k \in 1 .. Len(s) - 1,
                       Tail(s)[j] = Tail(s)[k]
                PROVE  j = k
    BY <1>3 DEF Distinct
  <2>1. s[j + 1] = s[k + 1] /\ j + 1 \in 1 .. Len(s) /\ k + 1 \in 1 .. Len(s)
    BY <1>1, <1>2
  <2>2. j + 1 = k + 1
    BY <1>3, <2>1 DEF Distinct
  <2>. QED  BY <2>2
<1>5. ASSUME NEW x, Contains(Tail(s), x) PROVE Contains(s, x) /\ x # Head(s)
  <2>1. PICK k \in 1 .. Len(s) - 1 : Tail(s)[k] = x
    BY <1>3, <1>5 DEF Contains
  <2>2. s[k + 1] = x /\ k + 1 \in 1 .. Len(s) /\ 1 \in 1 .. Len(s) /\ k + 1 # 1
    BY <1>1, <1>2, <2>1
  <2>. QED  BY <1>1, <1>3, <2>2 DEF Contains, Distinct
<1>6. ASSUME NEW x, Contains(s, x), x # Head(s) PROVE Contains(Tail(s), x)
  <2>1. PICK k \in 1 .. Len(s) : s[k] = x
    BY <1>3, <1>6 DEF Contains
  <2>2. k - 1 \in 1 .. Len(s) - 1 /\ (k - 1) + 1 = k
    BY <1>1, <1>2, <1>6, <2>1
  <2>3. Tail(s)[k - 1] = x
    BY <1>1, <2>1, <2>2
  <2>. QED  BY <1>3, <2>2, <2>3 DEF Contains
<1>. QED  BY <1>4, <1>5, <1>6

LEMMA AppendContains ==
  ASSUME NEW S, NEW s \in Seq(S), NEW y \in S, Distinct(s), ~Contains(s, y)
  PROVE  /\ Distinct(Append(s, y))
         /\ \A x : Contains(Append(s, y), x) <=> Contains(s, x) \/ x = y
<1>1. /\ Append(s, y) \in Seq(S) /\ Len(Append(s, y)) = Len(s) + 1
      /\ \A k \in 1 .. Len(s) : Append(s, y)[k] = s[k]
      /\ Append(s, y)[Len(s) + 1] = y
  BY AppendProperties
<1>2. Len(s) \in Nat /\ DOMAIN s = 1 .. Len(s) /\ DOMAIN Append(s, y) = 1 .. Len(s) + 1
  BY <1>1
<1>3. \A k \in 1 .. Len(s) + 1 : k \in 1 .. Len(s) \/ k = Len(s) + 1
  BY <1>2
<1>4. \A k \in 1 .. Len(s) : k \in 1 .. Len(s) + 1 /\ s[k] # y
  BY <1>2 DEF Contains
<1>5. Distinct(Append(s, y))
  BY <1>1, <1>2, <1>3, <1>4 DEF Distinct
<1>6. Len(s) + 1 \in 1 .. Len(s) + 1
  BY <1>2
<1>7. ASSUME NEW x PROVE Contains(Append(s, y), x) <=> Contains(s, x) \/ x = y
  BY <1>1, <1>2, <1>3, <1>4, <1>6 DEF Contains
<1>. QED  BY <1>5, <1>7

-----------------------------------------------------------------------------
(* The idle list.  IdleExact is inductive.                                 *)

IdleInv(w) ==
  /\ \A c \in Conn : ~Live(w, c) <=> Contains(idleConnList[w], c)
  /\ Distinct(idleConnList[w])

LEMMA IdleExactInv == IdleExact <=> \A w \in Worker : IdleInv(w)
BY DEF IdleExact, IdleInv, Distinct

LEMMA IdleExactNext == IdleExact' <=> \A w \in Worker : IdleInv(w)'
BY DEF IdleExact, IdleInv, Distinct

LEMMA InitIdle == Init => IdleExact
<1>. SUFFICES ASSUME Init, NEW w \in Worker PROVE IdleInv(w)
  BY IdleExactInv
<1>. DEFINE s == [k \in 1 .. ConnectSize |-> k - 1]
<1>1. idleConnList[w] = s /\ \A c \in Conn : ~Live(w, c)
  BY DEF Init, Live
<1>2. Distinct(s)
  BY SizeAssumption DEF Distinct
<1>3. ASSUME NEW c \in Conn PROVE Contains(s, c)
  <2>1. c + 1 \in 1 .. ConnectSize /\ s[c + 1] = c
    BY SizeAssumption DEF Conn
  <2>. QED  BY <2>1 DEF Contains
<1>. HIDE DEF s
<1>. QED  BY <1>1, <1>2, <1>3 DEF IdleInv

(* Nothing of another worker changes.                                      *)
LEMMA IdleElsewhere ==
  ASSUME IdleExact, NEW v \in Worker,
         cliFd'[v] = cliFd[v], idleConnList'[v] = idleConnList[v]
  PROVE  IdleInv(v)'
BY IdleExactInv DEF IdleInv, Live

LEMMA CloseIdle ==
  ASSUME TypeOK, IdleExact, NEW w \in Worker, NEW c \in Conn, CloseConnect(w, c)
  PROVE  IdleExact'
<1>. SUFFICES ASSUME NEW v \in Worker PROVE IdleInv(v)'
  BY IdleExactNext
<1>1. /\ cliFd \in [Worker -> [Conn -> Socket \cup {InvalidFd}]]
      /\ idleConnList \in [Worker -> Seq(Conn)]
  BY DEF TypeOK
<1>2. /\ cliFd' = [cliFd EXCEPT ![w] = [@ EXCEPT ![c] = InvalidFd]]
      /\ idleConnList' = [idleConnList EXCEPT ![w] = Append(@, c)]
      /\ Live(w, c)
  BY DEF CloseConnect
<1>3. CASE v # w
  BY <1>1, <1>2, <1>3, IdleElsewhere
<1>4. CASE v = w
  <2>1. idleConnList'[v] = Append(idleConnList[v], c) /\ idleConnList[v] \in Seq(Conn)
    BY <1>1, <1>2, <1>4
  <2>2. IdleInv(v)
    BY IdleExactInv
  <2>3. ~Contains(idleConnList[v], c)
    BY <1>2, <1>4, <2>2 DEF IdleInv
  <2>4. /\ Distinct(idleConnList'[v])
        /\ \A x : Contains(idleConnList'[v], x) <=> Contains(idleConnList[v], x) \/ x = c
    BY <2>1, <2>2, <2>3, AppendContains DEF IdleInv
  <2>5. \A d \in Conn : Live(v, d)' <=> Live(v, d) /\ d # c
    BY <1>1, <1>2, <1>4 DEF Live
  <2>6. \A d \in Conn : ~Live(v, d)' <=> Contains(idleConnList'[v], d)
    BY <2>2, <2>4, <2>5 DEF IdleInv
  <2>. QED  BY <2>4, <2>6 DEF IdleInv
<1>. QED  BY <1>3, <1>4

(* The record at the front of the idle list gets a descriptor.             *)
LEMMA NewConnectIdle ==
  ASSUME TypeInv, CountInv, IdleExact, NEW w \in Worker, NewConnect(w)
  PROVE  IdleExact'
<1>. SUFFICES ASSUME NEW v \in Worker PROVE IdleInv(v)'
  BY IdleExactNext
<1>. DEFINE c == Head(idleConnList[w])
<1>1. /\ cliFd \in [Worker -> [Conn -> Socket \cup {InvalidFd}]]
      /\ idleConnList \in [Worker -> Seq(Conn)] /\ arr[w] \in Seq(Socket)
  BY DEF TypeInv, TypeOK
<1>2. idleConnList[w] # <<>> /\ arr[w] # <<>>
  BY IdleLeft DEF NewConnect, NextDescriptor
<1>3. /\ cliFd' = [cliFd EXCEPT ![w] = [@ EXCEPT ![c] = Head(arr[w])]]
      /\ idleConnList' = [idleConnList EXCEPT ![w] = Tail(@)]
  BY <1>2 DEF NewConnect
<1>4. c \in Conn /\ Head(arr[w]) # InvalidFd
  BY <1>1, <1>2, HeadTailProperties, FdAssumption
<1>. HIDE DEF c
<1>5. CASE v # w
  BY <1>1, <1>3, <1>5, IdleElsewhere
<1>6. CASE v = w
  <2>1. idleConnList'[v] = Tail(idleConnList[v]) /\ idleConnList[v] \in Seq(Conn)
    BY <1>1, <1>3, <1>6
  <2>2. IdleInv(v)
    BY IdleExactInv
  <2>3. /\ Distinct(idleConnList'[v])
        /\ \A x : Contains(idleConnList'[v], x) <=> Contains(idleConnList[v], x) /\ x # c
    BY <1>2, <1>6, <2>1, <2>2, TailContains DEF IdleInv, c
  <2>4. \A d \in Conn : Live(v, d)' <=> Live(v, d) \/ d = c
    BY <1>1, <1>3, <1>4, <1>6 DEF Live
  <2>5. \A d \in Conn : ~Live(v, d)' <=> Contains(idleConnList'[v], d)
    BY <2>2, <2>3, <2>4 DEF IdleInv
  <2>. QED  BY <2>3, <2>5 DEF IdleInv
<1>. QED  BY <1>5, <1>6

(* It could not be added to epoll, and goes to the end of the list.        *)
LEMMA NewConnectFailsIdle ==
  ASSUME TypeOK, IdleExact, NEW w \in Worker, NewConnectFails(w)
  PROVE  IdleExact'
<1>. SUFFICES ASSUME NEW v \in Worker PROVE IdleInv(v)'
  BY IdleExactNext
<1>. DEFINE c == Head(idleConnList[w])
<1>1. /\ idleConnList \in [Worker -> Seq(Conn)] /\ cliFd' = cliFd
      /\ idleConnList' = [idleConnList EXCEPT ![w] = Append(Tail(@), Head(@))]
      /\ idleConnList[w] # <<>>
  BY DEF TypeOK, NewConnectFails
<1>2. c \in Conn /\ Tail(idleConnList[w]) \in Seq(Conn)
  BY <1>1, HeadTailProperties
<1>3. CASE v # w
  BY <1>1, <1>3, IdleElsewhere
<1>4. CASE v = w
  <2>1. /\ idleConnList'[v] = Append(Tail(idleConnList[v]), c)
        /\ idleConnList[v] \in Seq(Conn) /\ idleConnList[v] # <<>>
    BY <1>1, <1>4
  <2>2. IdleInv(v) /\ Contains(idleConnList[v], c)
    <3>1. 1 \in DOMAIN idleConnList[v] /\ idleConnList[v][1] = c
      BY <1>4, <2>1, EmptySeq
    <3>. QED  BY <3>1, IdleExactInv DEF Contains
  <2>. HIDE DEF c
  <2>3. /\ Distinct(Tail(idleConnList[v]))
        /\ \A x : Contains(Tail(idleConnList[v]), x)
                    <=> Contains(idleConnList[v], x) /\ x # c
    BY <1>4, <2>1, <2>2, TailContains DEF IdleInv, c
  <2>4. /\ Distinct(idleConnList'[v])
        /\ \A x : Contains(idleConnList'[v], x)
                    <=> Contains(Tail(idleConnList[v]), x) \/ x = c
    <3>. DEFINE t == Tail(idleConnList[v])
    <3>1. t \in Seq(Conn) /\ Distinct(t) /\ ~Contains(t, c)
      BY <1>2, <1>4, <2>3
    <3>2. idleConnList'[v] = Append(t, c)
      BY <2>1
    <3>. HIDE DEF t
    <3>3. /\ Distinct(Append(t, c))
          /\ \A x : Contains(Append(t, c), x) <=> Contains(t, x) \/ x = c
      BY <1>2, <3>1, AppendContains
    <3>. QED  BY <3>2, <3>3 DEF t
  <2>5. \A d \in Conn : Live(v, d)' <=> Live(v, d)
    BY <1>1 DEF Live
  <2>6. \A x : Contains(idleConnList'[v], x) <=> Contains(idleConnList[v], x)
    BY <2>2, <2>3, <2>4
  <2>. QED  BY <2>2, <2>4, <2>5, <2>6 DEF IdleInv
<1>. QED  BY <1>3, <1>4

LEMMA NextIdle == TypeInv /\ CountInv /\ IdleExact /\ [Next]_vars => IdleExact'
<1>. SUFFICES ASSUME TypeInv, CountInv, IdleExact, [Next]_vars PROVE IdleExact'
  OBVIOUS
<1>1. TypeOK
  BY DEF TypeInv
<1>2. ASSUME UNCHANGED poolVars PROVE IdleExact'
  BY <1>2, IdleElsewhere, IdleExactNext DEF poolVars
<1>a. CASE Environment
  BY <1>a, <1>2 DEF Environment, Connect, PeerActivity
<1>b. CASE AcceptThread
  BY <1>b, <1>2 DEF AcceptThread, AcceptLoop, SelectNothing, Reserve, Undo, Refuse,
                    HandOver, Accept
<1>c. ASSUME NEW w \in Worker, WorkThread(w) PROVE IdleExact'
  <2>1. CASE WorkLoop(w) \/ PollFails(w) \/ Poll(w) \/ PipeEvent(w) \/ ReadPipe(w)
             \/ EventsDone(w) \/ TailDone(w)
    BY <2>1, <1>2 DEF WorkLoop, PollFails, Poll, PipeEvent, ReadPipe, EventsDone, TailDone
  <2>2. CASE ConnEvent(w)
    <3>1. Current(w) \in Conn
      BY <2>2, CurrentConn DEF ConnEvent
    <3>. QED  BY <2>2, <3>1, <1>1, <1>2, CloseIdle DEF ConnEvent
  <2>3. CASE NewConnect(w)       BY <2>3, NewConnectIdle
  <2>4. CASE NewConnectFails(w)  BY <2>4, <1>1, NewConnectFailsIdle
  <2>5. ASSUME NEW c \in Conn, TailClose(w, c) PROVE IdleExact'
    BY <2>5, <1>1, CloseIdle DEF TailClose
  <2>. QED  BY <1>c, <2>1, <2>2, <2>3, <2>4, <2>5 DEF WorkThread
<1>d. CASE Stop
  BY <1>d, <1>2 DEF Stop
<1>e. CASE MainThread
  <2>1. CASE PurgeConn
    BY <2>1, PurgeIndex, <1>1, <1>2, CloseIdle DEF PurgeConn
  <2>2. CASE QuitAccept \/ JoinWorker \/ PurgeDone \/ QuitDone
    BY <2>2, <1>2 DEF QuitAccept, JoinWorker, PurgeDone, QuitDone
  <2>. QED  BY <1>e, <2>1, <2>2 DEF MainThread
<1>f. CASE UNCHANGED vars
  BY <1>f, <1>2 DEF vars
<1>. QED  BY <1>a, <1>b, <1>c, <1>d, <1>e, <1>f DEF Next

(* In every reachable state the idle list of each worker holds exactly the *)
(* records without a descriptor, each once, however often records were     *)
(* taken, closed and given back.                                           *)
THEOREM IdleListExact == Spec => []IdleExact
<1>1. TypeInv /\ CountInv /\ IdleExact /\ [Next]_vars => IdleExact'
  BY NextIdle
<1>. QED  BY InitIdle, Accounting, <1>1, PTL DEF Spec

-----------------------------------------------------------------------------
(* The pipe is never full: a worker has as many idle records as it has     *)
(* places that are promised, and never more than ConnectSize of them.      *)

LEMMA DistinctLength ==
  ASSUME NEW s \in Seq(Conn), Distinct(s)
  PROVE  Len(s) <= ConnectSize
<1>1. /\ IsFiniteSet(Conn) /\ Cardinality(Conn) = ConnectSize
      /\ ConnectSize \in Int
  <2>1. /\ 0 \in Int /\ ConnectSize - 1 \in Int /\ ConnectSize \in Int
        /\ ~(0 > ConnectSize - 1) /\ (ConnectSize - 1) - 0 + 1 = ConnectSize
    BY SizeAssumption
  <2>. QED  BY <2>1, FS_Interval DEF Conn
<1>2. /\ Len(s) \in Nat /\ IsFiniteSet(1 .. Len(s)) /\ Cardinality(1 .. Len(s)) = Len(s)
  <2>1. /\ Len(s) \in Nat /\ 1 \in Int /\ Len(s) \in Int
        /\ 1 > Len(s) => Len(s) = 0
        /\ Len(s) - 1 + 1 = Len(s)
    OBVIOUS
  <2>. QED  BY <2>1, FS_Interval
<1>3. s \in [1 .. Len(s) -> Conn]
  OBVIOUS
<1>4. ~(Cardinality(Conn) < Cardinality(1 .. Len(s)))
  <2>. SUFFICES ASSUME Cardinality(Conn) < Cardinality(1 .. Len(s)) PROVE FALSE
    OBVIOUS
  <2>1. \E x, y \in 1 .. Len(s) : x # y /\ s[x] = s[y]
    BY <1>1, <1>2, <1>3, FS_PigeonHole
  <2>. QED  BY <1>3, <2>1 DEF Distinct
<1>. QED  BY <1>1, <1>2, <1>4

(* However many clients connect and however slowly the workers read, the   *)
(* accept thread never waits in dmbSafeWrite, provided that a pipe holds   *)
(* as many descriptors as a worker has records.                            *)
THEOREM HandOverNeverWaits ==
  ASSUME ConnectSize <= PipeCap
  PROVE  Spec => []PipeNeverFull
<1>1. TypeInv /\ CountInv /\ IdleExact => PipeNeverFull
  <2>. SUFFICES ASSUME TypeInv, CountInv, IdleExact, aPc = "write"
                PROVE  Len(pipe[iCur]) < PipeCap
    BY DEF PipeNeverFull
  <2>. DEFINE p == Len(pipe[iCur])  a == Len(arr[iCur])  d == Len(idleConnList[iCur])
  <2>1. TypeOK /\ iCur \in Worker
    BY DEF TypeInv, ThreadInv
  <2>2. p \in Int /\ d \in Int /\ a \in Nat
    BY <2>1 DEF TypeOK
  <2>3. p + a + 1 <= d
    <3>1. Held(iCur) = 1
      BY DEF Held
    <3>2. RoomReserved
      BY <2>1, CountInvRoom
    <3>. QED  BY <2>1, <3>1, <3>2 DEF RoomReserved
  <2>4. d <= ConnectSize
    <3>1. idleConnList[iCur] \in Seq(Conn)
      BY <2>1 DEF TypeOK
    <3>2. Distinct(idleConnList[iCur])
      BY <2>1, IdleExactInv DEF IdleInv
    <3>. QED  BY <3>1, <3>2, DistinctLength
  <2>5. ConnectSize \in Int /\ PipeCap \in Int
    BY SizeAssumption
  <2>. HIDE DEF p, a, d
  <2>6. p < PipeCap
    BY <2>2, <2>3, <2>4, <2>5
  <2>. QED  BY <2>6 DEF p
<1>2. TypeInv /\ CountInv /\ IdleExact /\ [Next]_vars => IdleExact'
  BY NextIdle
<1>. QED  BY InitIdle, Accounting, <1>1, <1>2, PTL DEF Spec

-----------------------------------------------------------------------------
(* The pipe is closed after the worker has ended, and an ended worker does *)
(* nothing any more.                                                       *)

JoinInv == \A w \in Worker : pipeOpen[w] \/ wPc[w] = "exited"

LEMMA NextJoin == TypeInv /\ JoinInv /\ [Next]_vars => JoinInv'
<1>. SUFFICES ASSUME TypeInv, JoinInv, [Next]_vars PROVE JoinInv'
  OBVIOUS
<1>1. ASSUME UNCHANGED <<pipeOpen, wPc>> PROVE JoinInv'
  BY <1>1 DEF JoinInv
<1>2. ASSUME NEW w \in Worker, wPc[w] # "exited", UNCHANGED pipeOpen,
             \A v \in Worker \ {w} : wPc'[v] = wPc[v]
      PROVE  JoinInv'
  BY <1>2 DEF JoinInv
<1>3. wPc \in [Worker -> {"loop", "poll", "foreach", "read", "newconn", "tail", "exited"}]
      /\ pipeOpen \in [Worker -> BOOLEAN]
  BY DEF TypeInv, TypeOK
<1>a. CASE Environment
  BY <1>a, <1>1 DEF Environment, Connect, PeerActivity
<1>b. CASE AcceptThread
  BY <1>b, <1>1 DEF AcceptThread, AcceptLoop, SelectNothing, Reserve, Undo, Refuse,
                    HandOver, Accept
<1>c. ASSUME NEW w \in Worker, WorkThread(w) PROVE JoinInv'
  <2>1. CASE WorkLoop(w) \/ PollFails(w) \/ Poll(w) \/ EventsDone(w) \/ TailDone(w)
    BY <2>1, <1>2, <1>3 DEF WorkLoop, PollFails, Poll, EventsDone, TailDone
  <2>2. CASE PipeEvent(w) \/ ReadPipe(w)
    BY <2>2, <1>2, <1>3 DEF PipeEvent, ReadPipe, MoreEvents
  <2>3. CASE NewConnect(w) \/ NewConnectFails(w)
    BY <2>3, <1>2, <1>3 DEF NewConnect, NewConnectFails, NextDescriptor
  <2>4. CASE ConnEvent(w) \/ \E c \in Conn : TailClose(w, c)
    BY <2>4, <1>1 DEF ConnEvent, TailClose
  <2>. QED  BY <1>c, <2>1, <2>2, <2>3, <2>4 DEF WorkThread
<1>d. CASE Stop
  BY <1>d, <1>1 DEF Stop
<1>e. CASE MainThread
  <2>1. CASE JoinWorker
    BY <2>1, <1>3 DEF JoinWorker, JoinInv
  <2>2. CASE QuitAccept \/ PurgeConn \/ PurgeDone \/ QuitDone
    BY <2>2, <1>1 DEF QuitAccept, PurgeConn, PurgeDone, QuitDone
  <2>. QED  BY <1>e, <2>1, <2>2 DEF MainThread
<1>f. CASE UNCHANGED vars
  BY <1>f, <1>1 DEF vars
<1>. QED  BY <1>a, <1>b, <1>c, <1>d, <1>e, <1>f DEF Next

(* dmbQuitWorkThreads closes no pipe that its worker may still read, so    *)
(* the read behind DMB_ASSERT(iReadLen > 0) never finds a closed pipe.     *)
THEOREM PipeReadOpen == Spec => []ReadLenAssert
<1>1. Init => JoinInv
  BY DEF Init, JoinInv
<1>2. JoinInv => ReadLenAssert
  BY DEF JoinInv, ReadLenAssert
<1>3. TypeInv /\ JoinInv /\ [Next]_vars => JoinInv'
  BY NextJoin
<1>. QED  BY <1>1, <1>2, <1>3, Accounting, PTL DEF Spec

-----------------------------------------------------------------------------
(* Descriptors are neither leaked nor shared: an open descriptor is in     *)
(* exactly one place, from accept() to close().                            *)

(* Descriptor f is at place p.  Where in a pipe or an array it is does not *)
(* matter; that it is there only once is a part of HolderInv.              *)
Hand       == <<"accept", 0, 0>>
Pipe(w)    == <<"pipe", w, 0>>
Array(w)   == <<"arr", w, 0>>
Rec(w, c)  == <<"conn", w, c>>

AtHand(p, f)  == p = Hand /\ InHand(f)
AtPipe(p, f)  == \E w \in Worker : p = Pipe(w) /\ Contains(pipe[w], f)
AtArray(p, f) == \E w \in Worker : p = Array(w) /\ Contains(arr[w], f)
AtRec(p, f)   == \E w \in Worker, c \in Conn : p = Rec(w, c) /\ cliFd[w][c] = f

At(p, f) == AtHand(p, f) \/ AtPipe(p, f) \/ AtArray(p, f) \/ AtRec(p, f)

PlaceInv(f) ==
  /\ sock[f] = "open" <=> \E p : At(p, f)
  /\ \A p, q : At(p, f) /\ At(q, f) => p = q

OnceInv(w) == Distinct(pipe[w]) /\ Distinct(arr[w])

HolderInv ==
  /\ \A f \in Socket : PlaceInv(f)
  /\ \A w \in Worker : OnceInv(w)

-----------------------------------------------------------------------------
(* Three ways in which a step can change where descriptors are.            *)

(* Places of different kinds, workers or records are different.            *)
LEMMA PlacesDiffer ==
  ASSUME NEW w, NEW v, NEW c, NEW d
  PROVE  /\ Hand # Pipe(w) /\ Hand # Array(w) /\ Hand # Rec(w, c)
         /\ Pipe(w) # Array(v) /\ Pipe(w) # Rec(v, c) /\ Array(w) # Rec(v, c)
         /\ Pipe(w) = Pipe(v) => w = v
         /\ Array(w) = Array(v) => w = v
         /\ Rec(w, c) = Rec(v, d) => w = v /\ c = d
BY DEF Hand, Pipe, Array, Rec

LEMMA StayPlaces ==
  ASSUME \A f \in Socket : PlaceInv(f),
         \A p : \A f \in Socket : At(p, f)' <=> At(p, f),
         \A f \in Socket : sock'[f] = "open" <=> sock[f] = "open"
  PROVE  \A f \in Socket : PlaceInv(f)'
BY DEF PlaceInv

LEMMA MovePlaces ==
  ASSUME \A f \in Socket : PlaceInv(f), NEW g \in Socket, NEW r,
         \A p : \A f \in Socket : At(p, f)' <=> (f = g /\ p = r) \/ (f # g /\ At(p, f)),
         \A f \in Socket : sock'[f] = "open" <=> f = g \/ sock[f] = "open"
  PROVE  \A f \in Socket : PlaceInv(f)'
BY DEF PlaceInv

LEMMA LeavePlaces ==
  ASSUME \A f \in Socket : PlaceInv(f), NEW g \in Socket,
         \A p : \A f \in Socket : At(p, f)' <=> f # g /\ At(p, f),
         \A f \in Socket : sock'[f] = "open" <=> f # g /\ sock[f] = "open"
  PROVE  \A f \in Socket : PlaceInv(f)'
BY DEF PlaceInv

(* A step that touches none of the places.                                 *)
LEMMA SamePlaces ==
  ASSUME HolderInv, UNCHANGED <<pipe, arr, cliFd>>,
         \A f \in Socket : InHand(f)' <=> InHand(f),
         \A f \in Socket : sock'[f] = "open" <=> sock[f] = "open"
  PROVE  HolderInv'
<1>1. ASSUME NEW p, NEW f \in Socket PROVE At(p, f)' <=> At(p, f)
  <2>1. AtHand(p, f)' <=> AtHand(p, f)
    BY DEF AtHand
  <2>2. /\ AtPipe(p, f)' <=> AtPipe(p, f)
        /\ AtArray(p, f)' <=> AtArray(p, f)
        /\ AtRec(p, f)' <=> AtRec(p, f)
    BY DEF AtPipe, AtArray, AtRec
  <2>. QED  BY <2>1, <2>2 DEF At
<1>2. \A f \in Socket : PlaceInv(f)'
  BY <1>1, StayPlaces DEF HolderInv
<1>3. \A w \in Worker : OnceInv(w)'
  BY DEF HolderInv, OnceInv
<1>. QED  BY <1>2, <1>3 DEF HolderInv

-----------------------------------------------------------------------------
LEMMA InitHolder == Init => HolderInv
<1>. SUFFICES ASSUME Init PROVE HolderInv
  OBVIOUS
<1>1. \A p : \A f \in Socket : ~At(p, f)
  BY FdAssumption DEF Init, At, AtHand, AtPipe, AtArray, AtRec, InHand, Contains
<1>2. \A f \in Socket : sock[f] # "open"
  BY DEF Init
<1>3. \A w \in Worker : OnceInv(w)
  BY DEF Init, OnceInv, Distinct
<1>. QED  BY <1>1, <1>2, <1>3 DEF HolderInv, PlaceInv

(* The accept thread.                                                      *)

LEMMA AcceptHolder ==
  ASSUME TypeInv, HolderInv, NEW g \in Socket, Accept(g)
  PROVE  HolderInv'
<1>1. /\ aPc = "select" /\ sock[g] = "backlog"
      /\ UNCHANGED <<pipe, arr, cliFd>>
      /\ sock \in [Socket -> {"free", "backlog", "open"}]
  BY DEF Accept, TypeInv, TypeOK, poolVars
<1>2. \A f \in Socket : ~InHand(f)
  BY <1>1 DEF InHand
<1>3. CASE sock' = [sock EXCEPT ![g] = "free"] /\ aPc' = "loop"
  <2>1. \A f \in Socket : ~InHand(f)'
    BY <1>3 DEF InHand
  <2>2. \A f \in Socket : sock'[f] = "open" <=> sock[f] = "open"
    BY <1>1, <1>3
  <2>. QED  BY <1>1, <1>2, <2>1, <2>2, SamePlaces
<1>4. CASE sock' = [sock EXCEPT ![g] = "open"] /\ aPc' = "find" /\ client' = g
  <2>1. \A f \in Socket : InHand(f)' <=> f = g
    BY <1>4 DEF InHand
  <2>2. \A f \in Socket : sock'[f] = "open" <=> f = g \/ sock[f] = "open"
    BY <1>1, <1>4
  <2>3. \A p : ~At(p, g)
    BY <1>1 DEF HolderInv, PlaceInv
  <2>4. ASSUME NEW p, NEW f \in Socket
        PROVE  At(p, f)' <=> (f = g /\ p = Hand) \/ (f # g /\ At(p, f))
    <3>1. AtHand(p, f)' <=> p = Hand /\ f = g
      BY <2>1 DEF AtHand
    <3>2. ~AtHand(p, f)
      BY <1>2 DEF AtHand
    <3>3. /\ AtPipe(p, f)' <=> AtPipe(p, f)
          /\ AtArray(p, f)' <=> AtArray(p, f)
          /\ AtRec(p, f)' <=> AtRec(p, f)
      BY <1>1 DEF AtPipe, AtArray, AtRec
    <3>4. f = g => ~At(p, f)
      BY <2>3
    <3>. QED  BY <3>1, <3>2, <3>3, <3>4 DEF At
  <2>5. \A f \in Socket : PlaceInv(f)'
    BY <2>2, <2>4, MovePlaces DEF HolderInv
  <2>6. \A w \in Worker : OnceInv(w)'
    BY <1>1 DEF HolderInv, OnceInv
  <2>. QED  BY <2>5, <2>6 DEF HolderInv
<1>. QED  BY <1>3, <1>4 DEF Accept

LEMMA RefuseHolder ==
  ASSUME TypeInv, HolderInv, Refuse
  PROVE  HolderInv'
<1>1. /\ client \in Socket /\ InHand(client)
      /\ UNCHANGED <<pipe, arr, cliFd>>
      /\ sock' = [sock EXCEPT ![client] = "free"]
      /\ sock \in [Socket -> {"free", "backlog", "open"}]
      /\ aPc' = "loop"
  BY DEF Refuse, TypeInv, TypeOK, ThreadInv, InHand, poolVars
<1>2. \A f \in Socket : ~InHand(f)'
  BY <1>1 DEF InHand
<1>3. \A f \in Socket : InHand(f) <=> f = client
  BY <1>1 DEF InHand
<1>4. \A p : At(p, client) => p = Hand
  <2>1. At(Hand, client)
    BY <1>1 DEF At, AtHand
  <2>. QED  BY <1>1, <2>1 DEF HolderInv, PlaceInv
<1>5. ASSUME NEW p, NEW f \in Socket PROVE At(p, f)' <=> f # client /\ At(p, f)
  <2>1. ~AtHand(p, f)' /\ (AtHand(p, f) <=> p = Hand /\ f = client)
    BY <1>2, <1>3 DEF AtHand
  <2>2. /\ AtPipe(p, f)' <=> AtPipe(p, f)
        /\ AtArray(p, f)' <=> AtArray(p, f)
        /\ AtRec(p, f)' <=> AtRec(p, f)
    BY <1>1 DEF AtPipe, AtArray, AtRec
  <2>3. f = client => ~AtPipe(p, f) /\ ~AtArray(p, f) /\ ~AtRec(p, f)
    BY <1>4, PlacesDiffer DEF At, AtPipe, AtArray, AtRec
  <2>. QED  BY <2>1, <2>2, <2>3 DEF At
<1>6. \A f \in Socket : sock'[f] = "open" <=> f # client /\ sock[f] = "open"
  BY <1>1
<1>7. \A f \in Socket : PlaceInv(f)'
  BY <1>1, <1>5, <1>6, LeavePlaces DEF HolderInv
<1>8. \A w \in Worker : OnceInv(w)'
  BY <1>1 DEF HolderInv, OnceInv
<1>. QED  BY <1>7, <1>8 DEF HolderInv

LEMMA HandOverHolder ==
  ASSUME TypeInv, HolderInv, HandOver
  PROVE  HolderInv'
<1>1. /\ client \in Socket /\ InHand(client) /\ iCur \in Worker
      /\ UNCHANGED <<sock, arr, cliFd>>
      /\ pipe' = [pipe EXCEPT ![iCur] = Append(@, client)]
      /\ pipe \in [Worker -> Seq(Socket)]
      /\ aPc' = "loop"
  BY DEF HandOver, TypeInv, TypeOK, ThreadInv, InHand, poolVars
<1>2. /\ \A f \in Socket : ~InHand(f)'
      /\ \A f \in Socket : InHand(f) <=> f = client
  BY <1>1 DEF InHand
<1>3. At(Hand, client) /\ \A p : At(p, client) => p = Hand
  <2>1. At(Hand, client)
    BY <1>1 DEF At, AtHand
  <2>. QED  BY <1>1, <2>1 DEF HolderInv, PlaceInv
<1>4. \A p : ~AtPipe(p, client) /\ ~AtArray(p, client) /\ ~AtRec(p, client)
  BY <1>3, PlacesDiffer DEF At, AtPipe, AtArray, AtRec
<1>5. /\ Distinct(pipe'[iCur])
      /\ \A x : Contains(pipe'[iCur], x) <=> Contains(pipe[iCur], x) \/ x = client
  <2>1. pipe[iCur] \in Seq(Socket) /\ Distinct(pipe[iCur])
    BY <1>1 DEF HolderInv, OnceInv
  <2>2. ~Contains(pipe[iCur], client)
    BY <1>1, <1>4 DEF AtPipe
  <2>3. pipe'[iCur] = Append(pipe[iCur], client)
    BY <1>1
  <2>. QED  BY <1>1, <2>1, <2>2, <2>3, AppendContains
<1>6. \A w \in Worker : w # iCur => pipe'[w] = pipe[w]
  BY <1>1
<1>7. ASSUME NEW p, NEW f \in Socket
      PROVE  At(p, f)' <=> (f = client /\ p = Pipe(iCur)) \/ (f # client /\ At(p, f))
  <2>1. ~AtHand(p, f)' /\ (f # client => ~AtHand(p, f))
    BY <1>2 DEF AtHand
  <2>2. /\ AtArray(p, f)' <=> AtArray(p, f)
        /\ AtRec(p, f)' <=> AtRec(p, f)
    BY <1>1 DEF AtArray, AtRec
  <2>3. AtPipe(p, f)' <=> AtPipe(p, f) \/ (p = Pipe(iCur) /\ f = client)
    BY <1>1, <1>5, <1>6 DEF AtPipe
  <2>. QED  BY <1>4, <2>1, <2>2, <2>3 DEF At
<1>8. \A f \in Socket : sock'[f] = "open" <=> f = client \/ sock[f] = "open"
  BY <1>1, <1>3 DEF HolderInv, PlaceInv
<1>9. \A f \in Socket : PlaceInv(f)'
  <2>a. PICK g \in Socket : g = client
    BY <1>1
  <2>b. PICK r : r = Pipe(iCur)
    OBVIOUS
  <2>2. \A p : \A f \in Socket : At(p, f)' <=> (f = g /\ p = r) \/ (f # g /\ At(p, f))
    BY <1>7, <2>a, <2>b
  <2>3. \A f \in Socket : sock'[f] = "open" <=> f = g \/ sock[f] = "open"
    BY <1>8, <2>a
  <2>4. \A f \in Socket : PlaceInv(f)
    BY DEF HolderInv
  <2>. QED  BY <2>2, <2>3, <2>4, MovePlaces
<1>10. \A w \in Worker : OnceInv(w)'
  BY <1>1, <1>5, <1>6 DEF HolderInv, OnceInv
<1>. QED  BY <1>9, <1>10 DEF HolderInv

-----------------------------------------------------------------------------
(* A worker.                                                               *)

(* All that the pipe holds moves to the array, which was empty.            *)
LEMMA ReadPipeHolder ==
  ASSUME TypeInv, CountInv, HolderInv, NEW w \in Worker, ReadPipe(w)
  PROVE  HolderInv'
<1>1. /\ pipe \in [Worker -> Seq(Socket)] /\ arr \in [Worker -> Seq(Socket)]
      /\ pipe' = [pipe EXCEPT ![w] = <<>>] /\ arr' = [arr EXCEPT ![w] = pipe[w]]
      /\ UNCHANGED <<sock, aPc, client, cliFd>>
  BY DEF ReadPipe, TypeInv, TypeOK, poolVars, acceptVars
<1>2. arr[w] = <<>>
  BY DEF ReadPipe, CountInv, WorkerInv
<1>3. /\ \A v \in Worker : v # w => pipe'[v] = pipe[v] /\ arr'[v] = arr[v]
      /\ pipe'[w] = <<>> /\ arr'[w] = pipe[w]
  BY <1>1
<1>4. \A x : ~Contains(<<>>, x)
  BY DEF Contains
<1>5. ASSUME NEW f \in Socket PROVE PlaceInv(f)'
  <2>1. ASSUME NEW p
        PROVE  /\ AtHand(p, f)' <=> AtHand(p, f)
               /\ AtRec(p, f)' <=> AtRec(p, f)
    BY <1>1 DEF AtHand, InHand, AtRec
  <2>2. CASE ~Contains(pipe[w], f)
    <3>1. ASSUME NEW p
          PROVE  /\ AtPipe(p, f)' <=> AtPipe(p, f)
                 /\ AtArray(p, f)' <=> AtArray(p, f)
      BY <1>2, <1>3, <1>4, <2>2 DEF AtPipe, AtArray
    <3>2. \A p : At(p, f)' <=> At(p, f)
      BY <2>1, <3>1 DEF At
    <3>. QED  BY <1>1, <3>2 DEF HolderInv, PlaceInv
  <2>3. CASE Contains(pipe[w], f)
    <3>1. At(Pipe(w), f)
      BY <2>3 DEF At, AtPipe
    <3>2. \A p : At(p, f) => p = Pipe(w)
      BY <3>1 DEF HolderInv, PlaceInv
    <3>3. \A p : ~AtHand(p, f) /\ ~AtArray(p, f) /\ ~AtRec(p, f)
      BY <3>2, PlacesDiffer DEF At, AtHand, AtArray, AtRec
    <3>4. \A v \in Worker : Contains(pipe[v], f) => v = w
      BY <3>2, PlacesDiffer DEF At, AtPipe
    <3>5. ASSUME NEW p PROVE At(p, f)' <=> p = Array(w)
      <4>1. ~AtPipe(p, f)'
        BY <1>3, <1>4, <3>4 DEF AtPipe
      <4>2. \A v \in Worker : Contains(arr'[v], f) <=> v = w
        BY <1>3, <2>3, <3>3 DEF AtArray
      <4>3. AtArray(p, f)' <=> p = Array(w)
        BY <4>2 DEF AtArray
      <4>. QED  BY <2>1, <3>3, <4>1, <4>3 DEF At
    <3>6. sock'[f] = "open"
      BY <1>1, <3>1 DEF HolderInv, PlaceInv
    <3>. QED  BY <3>5, <3>6 DEF PlaceInv
  <2>. QED  BY <2>2, <2>3
<1>6. \A v \in Worker : OnceInv(v)'
  <2>1. Distinct(<<>>)
    BY DEF Distinct
  <2>. QED  BY <1>3, <2>1 DEF HolderInv, OnceInv
<1>. QED  BY <1>5, <1>6 DEF HolderInv

(* The first descriptor of the array is taken out.                         *)
LEMMA TakeDescriptor ==
  ASSUME TypeInv, HolderInv, NEW w \in Worker, NextDescriptor(w),
         NEW g, g = Head(arr[w])
  PROVE  /\ g \in Socket /\ sock[g] = "open"
         /\ \A p : At(p, g) => p = Array(w)
         /\ \A p : \A f \in Socket :
              /\ AtHand(p, f)' <=> AtHand(p, f)
              /\ AtPipe(p, f)' <=> AtPipe(p, f)
              /\ AtArray(p, f)' <=> AtArray(p, f) /\ f # g
         /\ \A v \in Worker : OnceInv(v)'
<1>1. /\ arr \in [Worker -> Seq(Socket)] /\ arr[w] # <<>>
      /\ arr' = [arr EXCEPT ![w] = Tail(@)]
      /\ UNCHANGED <<aPc, client, pipe>>
  BY DEF NextDescriptor, TypeInv, TypeOK, acceptVars
<1>2. arr[w] \in Seq(Socket)
  BY <1>1
<1>3. g \in Socket /\ Contains(arr[w], g)
  <2>1. 1 \in DOMAIN arr[w] /\ arr[w][1] = g
    BY <1>1, <1>2, EmptySeq
  <2>. QED  BY <1>1, <1>2, <2>1, HeadTailProperties DEF Contains
<1>4. At(Array(w), g)
  BY <1>3 DEF At, AtArray
<1>5. sock[g] = "open" /\ \A p : At(p, g) => p = Array(w)
  BY <1>3, <1>4 DEF HolderInv, PlaceInv
<1>6. /\ Distinct(Tail(arr[w]))
      /\ \A x : Contains(Tail(arr[w]), x) <=> Contains(arr[w], x) /\ x # g
  BY <1>1, <1>2, TailContains DEF HolderInv, OnceInv
<1>7. /\ arr'[w] = Tail(arr[w])
      /\ \A v \in Worker : v # w => arr'[v] = arr[v]
  BY <1>1
<1>8. \A v \in Worker : ~(v # w /\ Contains(arr[v], g))
  <2>. SUFFICES ASSUME NEW v \in Worker, v # w, Contains(arr[v], g) PROVE FALSE
    OBVIOUS
  <2>1. At(Array(v), g)
    BY DEF At, AtArray
  <2>. QED  BY <1>5, <2>1, PlacesDiffer
<1>9. ASSUME NEW p, NEW f \in Socket
      PROVE  /\ AtHand(p, f)' <=> AtHand(p, f)
             /\ AtPipe(p, f)' <=> AtPipe(p, f)
             /\ AtArray(p, f)' <=> AtArray(p, f) /\ f # g
  <2>1. /\ AtHand(p, f)' <=> AtHand(p, f)
        /\ AtPipe(p, f)' <=> AtPipe(p, f)
    BY <1>1 DEF AtHand, InHand, AtPipe
  <2>2. \A v \in Worker : Contains(arr'[v], f) <=> Contains(arr[v], f) /\ f # g
    BY <1>6, <1>7, <1>8
  <2>3. AtArray(p, f)' <=> AtArray(p, f) /\ f # g
    BY <2>2 DEF AtArray
  <2>. QED  BY <2>1, <2>3
<1>10. \A v \in Worker : OnceInv(v)'
  BY <1>1, <1>6, <1>7 DEF HolderInv, OnceInv
<1>. QED  BY <1>3, <1>5, <1>9, <1>10

LEMMA NewConnectHolder ==
  ASSUME TypeInv, CountInv, IdleExact, HolderInv, NEW w \in Worker, NewConnect(w)
  PROVE  HolderInv'
<1>1. NextDescriptor(w) /\ idleConnList[w] # <<>> /\ idleConnList[w] \in Seq(Conn)
  BY IdleLeft DEF NewConnect, TypeInv, TypeOK
<1>2. PICK g, c : g = Head(arr[w]) /\ c = Head(idleConnList[w])
  OBVIOUS
<1>3. /\ g \in Socket /\ sock[g] = "open"
      /\ \A p : At(p, g) => p = Array(w)
      /\ \A p : \A f \in Socket :
           /\ AtHand(p, f)' <=> AtHand(p, f)
           /\ AtPipe(p, f)' <=> AtPipe(p, f)
           /\ AtArray(p, f)' <=> AtArray(p, f) /\ f # g
      /\ \A v \in Worker : OnceInv(v)'
  BY <1>1, <1>2, TakeDescriptor
<1>4. c \in Conn /\ ~Live(w, c)
  <2>1. 1 \in DOMAIN idleConnList[w] /\ idleConnList[w][1] = c
    BY <1>1, <1>2, EmptySeq
  <2>2. c \in Conn /\ Contains(idleConnList[w], c)
    BY <1>1, <1>2, <2>1, HeadTailProperties DEF Contains
  <2>. QED  BY <2>2, IdleExactInv DEF IdleInv
<1>5. /\ cliFd \in [Worker -> [Conn -> Socket \cup {InvalidFd}]]
      /\ cliFd' = [cliFd EXCEPT ![w] = [@ EXCEPT ![c] = g]]
      /\ cliFd[w][c] = InvalidFd /\ sock' = sock
  BY <1>1, <1>2, <1>4 DEF NewConnect, TypeInv, TypeOK, Live
<1>6. ASSUME NEW v \in Worker, NEW d \in Conn, NEW f \in Socket
      PROVE  cliFd'[v][d] = f <=> (v = w /\ d = c /\ f = g) \/ cliFd[v][d] = f
  BY <1>4, <1>5, FdAssumption
<1>7. ASSUME NEW p, NEW f \in Socket
      PROVE  At(p, f)' <=> (f = g /\ p = Rec(w, c)) \/ (f # g /\ At(p, f))
  <2>1. AtRec(p, f)' <=> (f = g /\ p = Rec(w, c)) \/ AtRec(p, f)
    BY <1>4, <1>6 DEF AtRec
  <2>2. f = g => ~AtHand(p, f) /\ ~AtPipe(p, f) /\ ~AtRec(p, f)
    <3>1. \A q : At(q, g) => q = Array(w)
      BY <1>3
    <3>. QED  BY <3>1, PlacesDiffer DEF At, AtHand, AtPipe, AtRec
  <2>. QED  BY <1>3, <2>1, <2>2 DEF At
<1>8. \A f \in Socket : sock'[f] = "open" <=> f = g \/ sock[f] = "open"
  BY <1>3, <1>5
<1>9. \A f \in Socket : PlaceInv(f)'
  <2>1. \A f \in Socket : PlaceInv(f)
    BY DEF HolderInv
  <2>2. PICK r : r = Rec(w, c)
    OBVIOUS
  <2>3. \A p : \A f \in Socket : At(p, f)' <=> (f = g /\ p = r) \/ (f # g /\ At(p, f))
    BY <1>7, <2>2
  <2>. QED  BY <1>3, <1>8, <2>1, <2>3, MovePlaces
<1>. QED  BY <1>3, <1>9 DEF HolderInv

LEMMA NewConnectFailsHolder ==
  ASSUME TypeInv, HolderInv, NEW w \in Worker, NewConnectFails(w)
  PROVE  HolderInv'
<1>1. PICK g : g = Head(arr[w])
  OBVIOUS
<1>2. /\ g \in Socket /\ sock[g] = "open"
      /\ \A p : At(p, g) => p = Array(w)
      /\ \A p : \A f \in Socket :
           /\ AtHand(p, f)' <=> AtHand(p, f)
           /\ AtPipe(p, f)' <=> AtPipe(p, f)
           /\ AtArray(p, f)' <=> AtArray(p, f) /\ f # g
      /\ \A v \in Worker : OnceInv(v)'
  BY <1>1, TakeDescriptor DEF NewConnectFails
<1>3. /\ sock \in [Socket -> {"free", "backlog", "open"}]
      /\ sock' = [sock EXCEPT ![g] = "free"] /\ cliFd' = cliFd
  BY <1>1 DEF NewConnectFails, TypeInv, TypeOK
<1>4. ASSUME NEW p, NEW f \in Socket PROVE At(p, f)' <=> f # g /\ At(p, f)
  <2>1. AtRec(p, f)' <=> AtRec(p, f)
    BY <1>3 DEF AtRec
  <2>2. f = g => ~AtHand(p, f) /\ ~AtPipe(p, f) /\ ~AtRec(p, f)
    BY <1>2, PlacesDiffer DEF At, AtHand, AtPipe, AtRec
  <2>. QED  BY <1>2, <2>1, <2>2 DEF At
<1>5. \A f \in Socket : sock'[f] = "open" <=> f # g /\ sock[f] = "open"
  BY <1>2, <1>3
<1>6. \A f \in Socket : PlaceInv(f)
  BY DEF HolderInv
<1>7. \A f \in Socket : PlaceInv(f)'
  BY <1>2, <1>4, <1>5, <1>6, LeavePlaces
<1>. QED  BY <1>2, <1>7 DEF HolderInv

LEMMA CloseHolder ==
  ASSUME TypeInv, HolderInv, NEW w \in Worker, NEW c \in Conn, CloseConnect(w, c),
         UNCHANGED <<pipe, arr, aPc, client>>
  PROVE  HolderInv'
<1>1. /\ cliFd \in [Worker -> [Conn -> Socket \cup {InvalidFd}]]
      /\ sock \in [Socket -> {"free", "backlog", "open"}]
      /\ cliFd' = [cliFd EXCEPT ![w] = [@ EXCEPT ![c] = InvalidFd]]
      /\ cliFd[w][c] # InvalidFd
  BY DEF CloseConnect, TypeInv, TypeOK, Live
<1>2. PICK g \in Socket : g = cliFd[w][c] /\ sock' = [sock EXCEPT ![g] = "free"]
  <2>1. cliFd[w][c] \in Socket
    BY <1>1
  <2>. QED  BY <2>1 DEF CloseConnect
<1>3. \A p : At(p, g) => p = Rec(w, c)
  <2>1. At(Rec(w, c), g)
    BY <1>2 DEF At, AtRec
  <2>. QED  BY <2>1 DEF HolderInv, PlaceInv
<1>4. ASSUME NEW v \in Worker, NEW d \in Conn, NEW f \in Socket
      PROVE  cliFd'[v][d] = f <=> cliFd[v][d] = f /\ ~(v = w /\ d = c)
  BY <1>1, FdAssumption
<1>5. ASSUME NEW p, NEW f \in Socket PROVE At(p, f)' <=> f # g /\ At(p, f)
  <2>1. /\ AtHand(p, f)' <=> AtHand(p, f)
        /\ AtPipe(p, f)' <=> AtPipe(p, f)
        /\ AtArray(p, f)' <=> AtArray(p, f)
    BY DEF AtHand, InHand, AtPipe, AtArray
  <2>2. f = g => ~AtHand(p, f) /\ ~AtPipe(p, f) /\ ~AtArray(p, f)
    BY <1>3, PlacesDiffer DEF At, AtHand, AtPipe, AtArray
  <2>3. AtRec(p, f)' <=> f # g /\ AtRec(p, f)
    <3>1. f = g => \A v \in Worker, d \in Conn : cliFd[v][d] = f => v = w /\ d = c
      BY <1>3, PlacesDiffer DEF At, AtRec
    <3>2. \A v \in Worker, d \in Conn : cliFd'[v][d] = f <=> f # g /\ cliFd[v][d] = f
      BY <1>2, <1>4, <3>1
    <3>. QED  BY <3>2 DEF AtRec
  <2>. QED  BY <2>1, <2>2, <2>3 DEF At
<1>6. \A f \in Socket : sock'[f] = "open" <=> f # g /\ sock[f] = "open"
  BY <1>1, <1>2
<1>7. \A f \in Socket : PlaceInv(f)
  BY DEF HolderInv
<1>8. \A f \in Socket : PlaceInv(f)'
  BY <1>5, <1>6, <1>7, LeavePlaces
<1>9. \A v \in Worker : OnceInv(v)'
  BY DEF HolderInv, OnceInv
<1>. QED  BY <1>8, <1>9 DEF HolderInv

-----------------------------------------------------------------------------
LEMMA NextHolder ==
  TypeInv /\ CountInv /\ IdleExact /\ HolderInv /\ [Next]_vars => HolderInv'
<1>. SUFFICES ASSUME TypeInv, CountInv, IdleExact, HolderInv, [Next]_vars
              PROVE  HolderInv'
  OBVIOUS
<1>. USE DEF acceptVars, poolVars, mainVars, batchVars
<1>1. ASSUME UNCHANGED <<sock, aPc, client, pipe, arr, cliFd>> PROVE HolderInv'
  BY <1>1, SamePlaces DEF InHand
<1>2. sock \in [Socket -> {"free", "backlog", "open"}]
  BY DEF TypeInv, TypeOK
<1>a. CASE Environment
  <2>1. ASSUME NEW f \in Socket, Connect(f) PROVE HolderInv'
    <3>1. UNCHANGED <<aPc, client, pipe, arr, cliFd>>
      BY <2>1 DEF Connect
    <3>2. \A g \in Socket : sock'[g] = "open" <=> sock[g] = "open"
      BY <1>2, <2>1 DEF Connect
    <3>. QED  BY <3>1, <3>2, SamePlaces DEF InHand
  <2>2. ASSUME NEW w \in Worker, NEW c \in Conn, PeerActivity(w, c) PROVE HolderInv'
    BY <2>2, <1>1 DEF PeerActivity
  <2>. QED  BY <1>a, <2>1, <2>2 DEF Environment
<1>b. CASE AcceptThread
  <2>1. CASE AcceptLoop \/ SelectNothing
    <3>1. \A f \in Socket : ~InHand(f) /\ ~InHand(f)'
      BY <2>1 DEF AcceptLoop, SelectNothing, InHand
    <3>2. UNCHANGED <<sock, pipe, arr, cliFd>>
      BY <2>1 DEF AcceptLoop, SelectNothing
    <3>. QED  BY <3>1, <3>2, SamePlaces
  <2>2. CASE Reserve \/ Undo
    <3>1. UNCHANGED <<sock, client, pipe, arr, cliFd>>
      BY <2>2 DEF Reserve, Undo
    <3>2. aPc \in {"find", "undo", "write"} /\ aPc' \in {"find", "undo", "write"}
      BY <2>2 DEF Reserve, Undo
    <3>. QED  BY <3>1, <3>2, SamePlaces DEF InHand
  <2>3. CASE Refuse    BY <2>3, RefuseHolder
  <2>4. CASE HandOver  BY <2>4, HandOverHolder
  <2>5. ASSUME NEW f \in Socket, Accept(f) PROVE HolderInv'
    BY <2>5, AcceptHolder
  <2>. QED  BY <1>b, <2>1, <2>2, <2>3, <2>4, <2>5 DEF AcceptThread
<1>c. ASSUME NEW w \in Worker, WorkThread(w) PROVE HolderInv'
  <2>1. CASE WorkLoop(w) \/ PollFails(w) \/ Poll(w) \/ PipeEvent(w) \/ EventsDone(w)
             \/ TailDone(w)
    BY <2>1, <1>1 DEF WorkLoop, PollFails, Poll, PipeEvent, EventsDone, TailDone
  <2>2. CASE ReadPipe(w)         BY <2>2, ReadPipeHolder
  <2>3. CASE NewConnect(w)       BY <2>3, NewConnectHolder
  <2>4. CASE NewConnectFails(w)  BY <2>4, NewConnectFailsHolder
  <2>5. CASE ConnEvent(w)
    <3>1. Current(w) \in Conn
      BY <2>5, CurrentConn DEF ConnEvent
    <3>2. UNCHANGED <<pipe, arr, aPc, client>>
      BY <2>5 DEF ConnEvent
    <3>. QED  BY <2>5, <3>1, <3>2, <1>1, CloseHolder DEF ConnEvent
  <2>6. ASSUME NEW c \in Conn, TailClose(w, c) PROVE HolderInv'
    BY <2>6, CloseHolder DEF TailClose
  <2>. QED  BY <1>c, <2>1, <2>2, <2>3, <2>4, <2>5, <2>6 DEF WorkThread
<1>d. CASE Stop
  BY <1>d, <1>1 DEF Stop
<1>e. CASE MainThread
  <2>1. CASE QuitAccept
    <3>1. UNCHANGED <<aPc, client, pipe, arr, cliFd>>
      BY <2>1 DEF QuitAccept
    <3>2. \A f \in Socket : sock'[f] = "open" <=> sock[f] = "open"
      BY <1>2, <2>1 DEF QuitAccept
    <3>. QED  BY <3>1, <3>2, SamePlaces DEF InHand
  <2>2. CASE PurgeConn
    <3>1. UNCHANGED <<pipe, arr, aPc, client>>
      BY <2>2 DEF PurgeConn
    <3>. QED  BY <2>2, <3>1, PurgeIndex, <1>1, CloseHolder DEF PurgeConn
  <2>3. CASE JoinWorker \/ PurgeDone \/ QuitDone
    BY <2>3, <1>1 DEF JoinWorker, PurgeDone, QuitDone
  <2>. QED  BY <1>e, <2>1, <2>2, <2>3 DEF MainThread
<1>f. CASE UNCHANGED vars
  BY <1>f, <1>1 DEF vars
<1>. QED  BY <1>a, <1>b, <1>c, <1>d, <1>e, <1>f DEF Next

-----------------------------------------------------------------------------
(* From places to the holders of OneHolder, which also say where in a pipe *)
(* or in an array a descriptor is.                                         *)

LEMMA HoldersMembers ==
  ASSUME NEW f, NEW h
  PROVE  h \in Holders(f) <=>
           \/ h = Hand /\ InHand(f)
           \/ \E w \in Worker : \E k \in DOMAIN pipe[w] :
                h = <<"pipe", w, k>> /\ pipe[w][k] = f
           \/ \E w \in Worker : \E k \in DOMAIN arr[w] :
                h = <<"arr", w, k>> /\ arr[w][k] = f
           \/ \E w \in Worker : \E c \in Conn :
                h = <<"conn", w, c>> /\ cliFd[w][c] = f
<1>. DEFINE H == {<<"accept", 0, 0>> : x \in {a \in {aPc} : a \in {"find", "undo", "write"}
                                                           /\ client = f}}
            P == UNION {{<<"pipe", w, k>> : k \in {n \in DOMAIN pipe[w] : pipe[w][n] = f}}
                        : w \in Worker}
            A == UNION {{<<"arr", w, k>> : k \in {n \in DOMAIN arr[w] : arr[w][n] = f}}
                        : w \in Worker}
            R == UNION {{<<"conn", w, c>> : c \in {d \in Conn : cliFd[w][d] = f}}
                        : w \in Worker}
<1>1. h \in H <=> h = Hand /\ InHand(f)
  BY DEF InHand, Hand
<1>2. h \in P <=> \E w \in Worker : \E k \in DOMAIN pipe[w] :
                   h = <<"pipe", w, k>> /\ pipe[w][k] = f
  OBVIOUS
<1>3. h \in A <=> \E w \in Worker : \E k \in DOMAIN arr[w] :
                   h = <<"arr", w, k>> /\ arr[w][k] = f
  OBVIOUS
<1>4. h \in R <=> \E w \in Worker : \E c \in Conn :
                   h = <<"conn", w, c>> /\ cliFd[w][c] = f
  OBVIOUS
<1>5. h \in Holders(f) <=> h \in H \/ h \in P \/ h \in A \/ h \in R
  BY DEF Holders
<1>. HIDE DEF H, P, A, R
<1>. QED  BY <1>1, <1>2, <1>3, <1>4, <1>5

LEMMA HolderExact == HolderInv => OneHolder
<1>. SUFFICES ASSUME HolderInv, NEW f \in Socket
              PROVE  Cardinality(Holders(f)) = IF sock[f] = "open" THEN 1 ELSE 0
  BY DEF OneHolder
<1>1. CASE sock[f] # "open"
  <2>1. \A p : ~At(p, f)
    BY <1>1 DEF HolderInv, PlaceInv
  <2>2. ~InHand(f)
    BY <2>1 DEF At, AtHand
  <2>3. \A w \in Worker : ~Contains(pipe[w], f) /\ ~Contains(arr[w], f)
    BY <2>1 DEF At, AtPipe, AtArray
  <2>4. \A w \in Worker, c \in Conn : cliFd[w][c] # f
    BY <2>1 DEF At, AtRec
  <2>5. Holders(f) = {}
    BY <2>2, <2>3, <2>4, HoldersMembers DEF Contains
  <2>. QED  BY <1>1, <2>5, FS_EmptySet
<1>2. CASE sock[f] = "open"
  <2>1. PICK p : At(p, f) /\ \A q : At(q, f) => q = p
    BY <1>2 DEF HolderInv, PlaceInv
  <2>2. /\ InHand(f) => p = Hand
        /\ \A w \in Worker : Contains(pipe[w], f) => p = Pipe(w)
        /\ \A w \in Worker : Contains(arr[w], f) => p = Array(w)
        /\ \A w \in Worker, c \in Conn : cliFd[w][c] = f => p = Rec(w, c)
    <3>1. InHand(f) => At(Hand, f)
      BY DEF At, AtHand
    <3>2. \A w \in Worker : Contains(pipe[w], f) => At(Pipe(w), f)
      BY DEF At, AtPipe
    <3>3. \A w \in Worker : Contains(arr[w], f) => At(Array(w), f)
      BY DEF At, AtArray
    <3>4. \A w \in Worker, c \in Conn : cliFd[w][c] = f => At(Rec(w, c), f)
      BY DEF At, AtRec
    <3>. QED  BY <2>1, <3>1, <3>2, <3>3, <3>4
  <2>3. \A h : Holders(f) = {h} => Cardinality(Holders(f)) = 1
    BY FS_Singleton
  <2>4. CASE AtHand(p, f)
    <3>1. InHand(f) /\ p = Hand
      BY <2>4 DEF AtHand
    <3>2. /\ \A w \in Worker : ~Contains(pipe[w], f) /\ ~Contains(arr[w], f)
          /\ \A w \in Worker, c \in Conn : cliFd[w][c] # f
      BY <2>2, <3>1, PlacesDiffer
    <3>3. \A x : x \in Holders(f) <=> x = Hand
      BY <3>1, <3>2, HoldersMembers DEF Contains
    <3>4. Holders(f) = {Hand}
      BY <3>3
    <3>. QED  BY <1>2, <2>3, <3>4
  <2>5. CASE AtPipe(p, f)
    <3>1. PICK w \in Worker : p = Pipe(w) /\ Contains(pipe[w], f)
      BY <2>5 DEF AtPipe
    <3>2. PICK k \in DOMAIN pipe[w] : pipe[w][k] = f
      BY <3>1 DEF Contains
    <3>3. \A j \in DOMAIN pipe[w] : pipe[w][j] = f => j = k
      BY <3>2 DEF HolderInv, OnceInv, Distinct
    <3>4. /\ ~InHand(f)
          /\ \A v \in Worker : Contains(pipe[v], f) => v = w
          /\ \A v \in Worker : ~Contains(arr[v], f)
          /\ \A v \in Worker, c \in Conn : cliFd[v][c] # f
      <4>1. ~InHand(f)
        BY <2>2, <3>1, PlacesDiffer
      <4>2. \A v \in Worker : Contains(pipe[v], f) => v = w
        BY <2>2, <3>1, PlacesDiffer
      <4>3. \A v \in Worker : ~Contains(arr[v], f)
        BY <2>2, <3>1, PlacesDiffer
      <4>4. \A v \in Worker, c \in Conn : cliFd[v][c] # f
        BY <2>2, <3>1, PlacesDiffer
      <4>. QED  BY <4>1, <4>2, <4>3, <4>4
    <3>5. \A x : x \in Holders(f) <=> x = <<"pipe", w, k>>
      BY <3>2, <3>3, <3>4, HoldersMembers DEF Contains
    <3>6. Holders(f) = {<<"pipe", w, k>>}
      BY <3>5
    <3>. QED  BY <1>2, <2>3, <3>6
  <2>6. CASE AtArray(p, f)
    <3>1. PICK w \in Worker : p = Array(w) /\ Contains(arr[w], f)
      BY <2>6 DEF AtArray
    <3>2. PICK k \in DOMAIN arr[w] : arr[w][k] = f
      BY <3>1 DEF Contains
    <3>3. \A j \in DOMAIN arr[w] : arr[w][j] = f => j = k
      BY <3>2 DEF HolderInv, OnceInv, Distinct
    <3>4. /\ ~InHand(f)
          /\ \A v \in Worker : ~Contains(pipe[v], f)
          /\ \A v \in Worker : Contains(arr[v], f) => v = w
          /\ \A v \in Worker, c \in Conn : cliFd[v][c] # f
      <4>1. ~InHand(f)
        BY <2>2, <3>1, PlacesDiffer
      <4>2. \A v \in Worker : ~Contains(pipe[v], f)
        BY <2>2, <3>1, PlacesDiffer
      <4>3. \A v \in Worker : Contains(arr[v], f) => v = w
        BY <2>2, <3>1, PlacesDiffer
      <4>4. \A v \in Worker, c \in Conn : cliFd[v][c] # f
        BY <2>2, <3>1, PlacesDiffer
      <4>. QED  BY <4>1, <4>2, <4>3, <4>4
    <3>5. \A x : x \in Holders(f) <=> x = <<"arr", w, k>>
      BY <3>2, <3>3, <3>4, HoldersMembers DEF Contains
    <3>6. Holders(f) = {<<"arr", w, k>>}
      BY <3>5
    <3>. QED  BY <1>2, <2>3, <3>6
  <2>7. CASE AtRec(p, f)
    <3>1. PICK w \in Worker, c \in Conn : p = Rec(w, c) /\ cliFd[w][c] = f
      BY <2>7 DEF AtRec
    <3>2. /\ ~InHand(f)
          /\ \A v \in Worker : ~Contains(pipe[v], f) /\ ~Contains(arr[v], f)
          /\ \A v \in Worker, d \in Conn : cliFd[v][d] = f => v = w /\ d = c
      <4>1. ~InHand(f)
        BY <2>2, <3>1, PlacesDiffer
      <4>2. \A v \in Worker : ~Contains(pipe[v], f)
        <5>. SUFFICES ASSUME NEW v \in Worker, Contains(pipe[v], f)
                      PROVE  FALSE
          OBVIOUS
        <5>1. Pipe(v) = Rec(w, c)
          BY <2>2, <3>1
        <5>. QED  BY <5>1, PlacesDiffer
      <4>4. \A v \in Worker : ~Contains(arr[v], f)
        <5>. SUFFICES ASSUME NEW v \in Worker, Contains(arr[v], f)
                      PROVE  FALSE
          OBVIOUS
        <5>1. Array(v) = Rec(w, c)
          BY <2>2, <3>1
        <5>. QED  BY <5>1, PlacesDiffer
      <4>3. \A v \in Worker, d \in Conn : cliFd[v][d] = f => v = w /\ d = c
        <5>. SUFFICES ASSUME NEW v \in Worker, NEW d \in Conn, cliFd[v][d] = f
                      PROVE  v = w /\ d = c
          OBVIOUS
        <5>1. Rec(v, d) = Rec(w, c)
          BY <2>2, <3>1
        <5>. QED  BY <5>1, PlacesDiffer
      <4>. QED  BY <4>1, <4>2, <4>3, <4>4
    <3>3. \A x : x \in Holders(f) <=> x = <<"conn", w, c>>
      BY <3>1, <3>2, HoldersMembers DEF Contains
    <3>4. Holders(f) = {<<"conn", w, c>>}
      BY <3>3
    <3>. QED  BY <1>2, <2>3, <3>4
  <2>. QED  BY <2>1, <2>4, <2>5, <2>6, <2>7 DEF At
<1>. QED  BY <1>1, <1>2

(* In every reachable state an open descriptor is in exactly one place and *)
(* a closed one in none: from accept() through the pipe to the record and  *)
(* to close() no descriptor is leaked, closed twice or given to two        *)
(* connections, although three kinds of threads pass it on.                *)
THEOREM DescriptorsOwned == Spec => []OneHolder
<1>1. TypeInv /\ CountInv /\ IdleExact /\ [Next]_vars => IdleExact'
  BY NextIdle
<1>2. TypeInv /\ CountInv /\ IdleExact /\ HolderInv /\ [Next]_vars => HolderInv'
  BY NextHolder
<1>3. HolderInv => OneHolder
  BY HolderExact
<1>. QED  BY InitIdle, InitHolder, Accounting, <1>1, <1>2, <1>3, PTL DEF Spec

================================================================================
