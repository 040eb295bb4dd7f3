----------------------------- MODULE DmbServerCore -----------------------------
(***************************************************************************)
(* The threads of the dmb server (src/network/dmbservercore.c with the     *)
(* connection pool of src/network/dmbnetwork.c): one accept thread, which  *)
(* reserves a place in a worker by incrementing its connCount and hands    *)
(* the accepted descriptor over through the worker's pipe; ThreadSize      *)
(* worker threads, each with an epoll instance and a pool of ConnectSize   *)
(* dmbConnect records; and the main thread, which stops the application    *)
(* and then joins the threads and purges their pools.                      *)
(*                                                                         *)
(* What a connection reads and writes is the subject of DmbProtocol.  Here *)
(* handling an event either keeps the connection or closes it.             *)
(***************************************************************************)
EXTENDS Integers, Sequences, FiniteSets

CONSTANTS
  ThreadSize,    \* g_settings.thread_size
  ConnectSize,   \* g_settings.connect_size_per_thread
  PipeCap,       \* descriptors the kernel buffers in one pipe
  Socket,        \* the client connections (stand for descriptor numbers)
  InvalidFd      \* DMB_INVALID_FD

ASSUME SizeAssumption ==
  /\ ThreadSize \in Nat \ {0}
  /\ ConnectSize \in Nat \ {0}
  /\ PipeCap \in Nat

ASSUME FdAssumption == InvalidFd \notin Socket

Worker == 0 .. ThreadSize - 1
Conn   == 0 .. ConnectSize - 1   \* indices into ctx.connects
Null   == -1                     \* data.ptr of the pipe's event
Event  == Conn \cup {Null}

VARIABLES
  g_app_run,     \* main.c: the flag every thread polls
  sock,          \* per descriptor: "free", "backlog" (in listen's queue), "open"
  \* the accept thread
  aPc, client, iCur, i,
  \* shared between the accept thread and a worker
  connCount,     \* workThreadArr[w].connCount, changed by atomic adds only
  pipe,          \* descriptors inside pipeArr, oldest first
  pipeOpen,      \* both ends of pipeArr are open
  ready,         \* edges epoll has not delivered yet (it merges equal ones)
  \* a worker
  wPc,
  events,        \* netData->events[0 .. iNum-1] of the batch being handled
  index,         \* iterations of dmbNetworkEventForeach done in the batch
  arr,           \* cliSoDataArr: descriptors read from the pipe
  cliFd,         \* connects[c].cliFd
  idleConnList,  \* ctx.idleConnList, front first
  \* the main thread
  mPc, mWorker, mConn

acceptVars == <<aPc, client, iCur, i>>
poolVars   == <<cliFd, idleConnList>>
batchVars  == <<events, index>>
mainVars   == <<mPc, mWorker, mConn>>

vars == <<g_app_run, sock, acceptVars, connCount, pipe, pipeOpen, ready, wPc,
          batchVars, arr, poolVars, mainVars>>

Live(w, c) == cliFd[w][c] # InvalidFd

-----------------------------------------------------------------------------
(* The state after a successful start-up: dmbInitServerContext,            *)
(* dmbInitWorkThreads with its pools and pipes, dmbInitAcceptThread.       *)
Init ==
  /\ g_app_run = TRUE
  /\ sock = [f \in Socket |-> "free"]
  /\ aPc = "loop" /\ client = InvalidFd /\ iCur = 0 /\ i = 0
  /\ connCount = [w \in Worker |-> 0]
  /\ pipe = [w \in Worker |-> <<>>]
  /\ pipeOpen = [w \in Worker |-> TRUE]
  /\ ready = [w \in Worker |-> {}]
  /\ wPc = [w \in Worker |-> "loop"]
  /\ events = [w \in Worker |-> <<>>]
  /\ index = [w \in Worker |-> 0]
  /\ arr = [w \in Worker |-> <<>>]
  /\ cliFd = [w \in Worker |-> [c \in Conn |-> InvalidFd]]
  /\ idleConnList = [w \in Worker |-> [k \in 1 .. ConnectSize |-> k - 1]]
  /\ mPc = "serve" /\ mWorker = 0 /\ mConn = 0

-----------------------------------------------------------------------------
(* The kernel and the clients.                                             *)

(* The orders in which edges of S can have arrived.                        *)
Orders(S) ==
  {b \in [1 .. Cardinality(S) -> S] :
     \A j, k \in 1 .. Cardinality(S) : b[j] = b[k] => j = k}

Contains(s, x) == \E k \in DOMAIN s : s[k] = x

(* A client connects: its connection waits in the listen queue.            *)
Connect(f) ==
  /\ sock[f] = "free"
  /\ mPc \in {"serve", "quitAccept"}      \* the listening socket is open
  /\ sock' = [sock EXCEPT ![f] = "backlog"]
  /\ UNCHANGED <<g_app_run, acceptVars, connCount, pipe, pipeOpen, ready, wPc,
                 batchVars, arr, poolVars, mainVars>>

(* Data, buffer space or a hang-up of a client raises an edge.             *)
PeerActivity(w, c) ==
  /\ Live(w, c)
  /\ c \notin ready[w]
  /\ ready' = [ready EXCEPT ![w] = @ \cup {c}]
  /\ UNCHANGED <<g_app_run, sock, acceptVars, connCount, pipe, pipeOpen, wPc,
                 batchVars, arr, poolVars, mainVars>>

-----------------------------------------------------------------------------
(* The accept thread: acceptThreadImpl and findIdleThread.                 *)

AcceptLoop ==
  /\ aPc = "loop"
  /\ aPc' = IF g_app_run THEN "select" ELSE "exited"
  /\ UNCHANGED <<g_app_run, sock, client, iCur, i, connCount, pipe, pipeOpen,
                 ready, wPc, batchVars, arr, poolVars, mainVars>>

(* select() times out or fails, or accept() reports an error.              *)
SelectNothing ==
  /\ aPc = "select"
  /\ aPc' = "loop"
  /\ UNCHANGED <<g_app_run, sock, client, iCur, i, connCount, pipe, pipeOpen,
                 ready, wPc, batchVars, arr, poolVars, mainVars>>

(* accept() succeeds; dmbNetworkInitNewConnect fails and the client is     *)
(* closed, or succeeds and a worker is searched for.                       *)
Accept(f) ==
  /\ aPc = "select"
  /\ sock[f] = "backlog"
  /\ \/ /\ sock' = [sock EXCEPT ![f] = "free"]
        /\ aPc' = "loop"
        /\ UNCHANGED <<client, i>>
     \/ /\ sock' = [sock EXCEPT ![f] = "open"]
        /\ aPc' = "find"
        /\ client' = f
        /\ i' = 0
  /\ UNCHANGED <<g_app_run, iCur, connCount, pipe, pipeOpen, ready, wPc,
                 batchVars, arr, poolVars, mainVars>>

(* Fault: the value before the increment is compared with the limit.       *)
ReserveOldCount ==
  /\ aPc = "find"
  /\ i < ThreadSize
  /\ LET w == iCur % ThreadSize
     IN  /\ iCur' = w
         /\ connCount' = [connCount EXCEPT ![w] = @ + 1]
         /\ aPc' = IF connCount[w] > ConnectSize THEN "undo" ELSE "write"
  /\ UNCHANGED <<g_app_run, sock, client, i, pipe, pipeOpen, ready, wPc,
                 batchVars, arr, poolVars, mainVars>>

(* One turn of findIdleThread's loop: reserve a place with an atomic       *)
(* increment.  A worker that is found leaves *pCur where it is.            *)
Reserve ==
  /\ aPc = "find"
  /\ i < ThreadSize
  /\ LET w == iCur % ThreadSize
     IN  /\ iCur' = w
         /\ connCount' = [connCount EXCEPT ![w] = @ + 1]
         /\ aPc' = IF connCount[w] + 1 > ConnectSize THEN "undo" ELSE "write"
  /\ UNCHANGED <<g_app_run, sock, client, i, pipe, pipeOpen, ready, wPc,
                 batchVars, arr, poolVars, mainVars>>

(* Fault: the place is not given back.                                     *)
UndoKeepsPlace ==
  /\ aPc = "undo"
  /\ iCur' = iCur + 1
  /\ i' = i + 1
  /\ aPc' = "find"
  /\ UNCHANGED <<g_app_run, sock, client, connCount, pipe, pipeOpen, ready, wPc,
                 batchVars, arr, poolVars, mainVars>>

(* Fault: continue skips the increment of i.                               *)
UndoKeepsIndex ==
  /\ aPc = "undo"
  /\ connCount' = [connCount EXCEPT ![iCur] = @ - 1]
  /\ iCur' = iCur + 1
  /\ aPc' = "find"
  /\ UNCHANGED <<g_app_run, sock, client, i, pipe, pipeOpen, ready, wPc,
                 batchVars, arr, poolVars, mainVars>>

(* The worker is full: give the place back and go on with the next one.    *)
Undo ==
  /\ aPc = "undo"
  /\ connCount' = [connCount EXCEPT ![iCur] = @ - 1]
  /\ iCur' = iCur + 1
  /\ i' = i + 1
  /\ aPc' = "find"
  /\ UNCHANGED <<g_app_run, sock, client, pipe, pipeOpen, ready, wPc,
                 batchVars, arr, poolVars, mainVars>>

(* findIdleThread returns NULL: the client is closed.                      *)
Refuse ==
  /\ aPc = "find"
  /\ i = ThreadSize
  /\ sock' = [sock EXCEPT ![client] = "free"]
  /\ client' = InvalidFd
  /\ aPc' = "loop"
  /\ UNCHANGED <<g_app_run, iCur, i, connCount, pipe, pipeOpen, ready, wPc,
                 batchVars, arr, poolVars, mainVars>>

(* Fault: client is cleared before it is written.                          *)
HandOverCleared ==
  /\ aPc = "write"
  /\ Len(pipe[iCur]) < PipeCap
  /\ pipe' = [pipe EXCEPT ![iCur] = Append(@, InvalidFd)]
  /\ ready' = [ready EXCEPT ![iCur] = @ \cup {Null}]
  /\ client' = InvalidFd
  /\ aPc' = "loop"
  /\ UNCHANGED <<g_app_run, sock, iCur, i, connCount, pipeOpen, wPc,
                 batchVars, arr, poolVars, mainVars>>

(* dmbSafeWrite on the worker's blocking pipe.                             *)
HandOver ==
  /\ aPc = "write"
  /\ Len(pipe[iCur]) < PipeCap
  /\ pipe' = [pipe EXCEPT ![iCur] = Append(@, client)]
  /\ ready' = [ready EXCEPT ![iCur] = @ \cup {Null}]
  /\ client' = InvalidFd
  /\ aPc' = "loop"
  /\ UNCHANGED <<g_app_run, sock, iCur, i, connCount, pipeOpen, wPc,
                 batchVars, arr, poolVars, mainVars>>

-----------------------------------------------------------------------------
(* A worker: workThreadImpl.                                               *)

WorkLoop(w) ==
  /\ wPc[w] = "loop"
  /\ wPc' = [wPc EXCEPT ![w] = IF g_app_run THEN "poll" ELSE "exited"]
  /\ UNCHANGED <<g_app_run, sock, acceptVars, connCount, pipe, pipeOpen, ready,
                 batchVars, arr, poolVars, mainVars>>

(* epoll_wait fails: continue.                                             *)
PollFails(w) ==
  /\ wPc[w] = "poll"
  /\ wPc' = [wPc EXCEPT ![w] = "loop"]
  /\ UNCHANGED <<g_app_run, sock, acceptVars, connCount, pipe, pipeOpen, ready,
                 batchVars, arr, poolVars, mainVars>>

(* epoll_wait delivers the edges, without those whose descriptor is not    *)
(* ready any more (an emptied pipe); after 5 seconds it delivers none.     *)
Poll(w) ==
  /\ wPc[w] = "poll"
  /\ \E b \in Orders(IF pipe[w] = <<>> THEN ready[w] \ {Null} ELSE ready[w]) :
       events' = [events EXCEPT ![w] = b]
  /\ ready' = [ready EXCEPT ![w] = {}]
  /\ wPc' = [wPc EXCEPT ![w] = "foreach"]
  /\ UNCHANGED <<g_app_run, sock, acceptVars, connCount, pipe, pipeOpen, index,
                 arr, poolVars, mainVars>>

(* The event dmbNetworkEventForeach passes to iteration n = 0, 1, ...: the *)
(* macro loads EVENT_PTR from INDEX before it increments INDEX, so the     *)
(* batch <<e1, ..., ek>> is visited as e1, e1, e2, ..., e(k-1).            *)
ForeachEvent(batch, n) == batch[IF n = 0 THEN 1 ELSE n]

(* Fault: the first iteration is numbered 1.                               *)
MoreEventsFromOne(w) == wPc[w] = "foreach" /\ index[w] + 1 < Len(events[w])

MoreEvents(w) == wPc[w] = "foreach" /\ index[w] < Len(events[w])
Current(w)    == ForeachEvent(events[w], index[w])

(* The pipe's event: processNewConnect is entered.                         *)
PipeEvent(w) ==
  /\ MoreEvents(w)
  /\ Current(w) = Null
  /\ index' = [index EXCEPT ![w] = @ + 1]
  /\ wPc' = [wPc EXCEPT ![w] = "read"]
  /\ UNCHANGED <<g_app_run, sock, acceptVars, connCount, pipe, pipeOpen, ready,
                 events, arr, poolVars, mainVars>>

(* dmbReadAvailable on the pipe, a blocking descriptor: it waits until the *)
(* pipe holds something and takes all of it (cliSoDataArr is larger than   *)
(* a pipe's buffer and writes of one descriptor are never split).          *)
ReadPipe(w) ==
  /\ wPc[w] = "read"
  /\ pipe[w] # <<>>
  /\ arr' = [arr EXCEPT ![w] = pipe[w]]
  /\ pipe' = [pipe EXCEPT ![w] = <<>>]
  /\ wPc' = [wPc EXCEPT ![w] = "newconn"]
  /\ UNCHANGED <<g_app_run, sock, acceptVars, connCount, pipeOpen, ready,
                 batchVars, poolVars, mainVars>>

(* The turn of processNewConnect's loop for the first descriptor left in   *)
(* arr: afterwards the loop goes on or the function returns.               *)
NextDescriptor(w) ==
  /\ wPc[w] = "newconn"
  /\ arr[w] # <<>>
  /\ arr' = [arr EXCEPT ![w] = Tail(@)]
  /\ wPc' = [wPc EXCEPT ![w] = IF Len(arr[w]) = 1 THEN "foreach" ELSE "newconn"]
  /\ UNCHANGED <<g_app_run, acceptVars, pipe, pipeOpen, batchVars, mainVars>>

(* dmbNetworkProcessNewConnect: GetIdleConn takes the front of the idle    *)
(* list and EPOLL_CTL_ADD raises the first edge (a new socket is writable).*)
(* With no idle record an error is returned: the descriptor stays open and *)
(* connCount stays incremented.                                            *)
NewConnect(w) ==
  /\ NextDescriptor(w)
  /\ IF idleConnList[w] = <<>>
     THEN UNCHANGED <<cliFd, idleConnList, ready>>
     ELSE LET c == Head(idleConnList[w])
          IN  /\ cliFd' = [cliFd EXCEPT ![w] = [@ EXCEPT ![c] = Head(arr[w])]]
              /\ idleConnList' = [idleConnList EXCEPT ![w] = Tail(@)]
              /\ ready' = [ready EXCEPT ![w] = @ \cup {c}]
  /\ UNCHANGED <<sock, connCount>>

(* Fault: the descriptor is not closed when it cannot be added to epoll.   *)
NewConnectFailsOpen(w) ==
  /\ NextDescriptor(w)
  /\ idleConnList[w] # <<>>
  /\ idleConnList' = [idleConnList EXCEPT ![w] = Append(Tail(@), Head(@))]
  /\ connCount' = [connCount EXCEPT ![w] = @ - 1]
  /\ UNCHANGED <<sock, cliFd, ready>>

(* dmbNetworkAddEvent fails: dmbNetworkCloseConnect closes the descriptor, *)
(* the record goes to the back of the idle list, onClosed counts down.     *)
NewConnectFails(w) ==
  /\ NextDescriptor(w)
  /\ idleConnList[w] # <<>>
  /\ sock' = [sock EXCEPT ![Head(arr[w])] = "free"]
  /\ idleConnList' = [idleConnList EXCEPT ![w] = Append(Tail(@), Head(@))]
  /\ connCount' = [connCount EXCEPT ![w] = @ - 1]
  /\ UNCHANGED <<cliFd, ready>>

(* Fault: no test of cliFd, so that a record can be closed twice.          *)
CloseConnectTwice(w, c) ==
  /\ sock' = [f \in Socket |-> IF f = cliFd[w][c] THEN "free" ELSE sock[f]]
  /\ cliFd' = [cliFd EXCEPT ![w] = [@ EXCEPT ![c] = InvalidFd]]
  /\ idleConnList' = [idleConnList EXCEPT ![w] = Append(@, c)]
  /\ connCount' = [connCount EXCEPT ![w] = @ - 1]
  /\ ready' = [ready EXCEPT ![w] = @ \ {c}]

(* dmbNetworkCloseConnect on an open connection.                           *)
CloseConnect(w, c) ==
  /\ Live(w, c)
  /\ sock' = [sock EXCEPT ![cliFd[w][c]] = "free"]
  /\ cliFd' = [cliFd EXCEPT ![w] = [@ EXCEPT ![c] = InvalidFd]]
  /\ idleConnList' = [idleConnList EXCEPT ![w] = Append(@, c)]
  /\ connCount' = [connCount EXCEPT ![w] = @ - 1]
  /\ ready' = [ready EXCEPT ![w] = @ \ {c}]    \* close() leaves the epoll set

(* A connection's event: a bad one, and a read or write error or end of    *)
(* file, close the connection; on a closed record nothing happens.         *)
ConnEvent(w) ==
  /\ MoreEvents(w)
  /\ Current(w) # Null
  /\ index' = [index EXCEPT ![w] = @ + 1]
  /\ \/ CloseConnect(w, Current(w))
     \/ UNCHANGED <<sock, poolVars, connCount, ready>>
  /\ UNCHANGED <<g_app_run, acceptVars, pipe, pipeOpen, wPc, events, arr,
                 mainVars>>

EventsDone(w) ==
  /\ wPc[w] = "foreach"
  /\ ~MoreEvents(w)
  /\ wPc' = [wPc EXCEPT ![w] = "tail"]
  /\ events' = [events EXCEPT ![w] = <<>>]    \* dead until the next batch
  /\ index' = [index EXCEPT ![w] = 0]
  /\ UNCHANGED <<g_app_run, sock, acceptVars, connCount, pipe, pipeOpen, ready,
                 arr, poolVars, mainVars>>

(* processRoundRobin and dmbNetworkCloseTimeoutConnect close any of the    *)
(* open connections, one at a time, and then the loop starts over.         *)
TailClose(w, c) ==
  /\ wPc[w] = "tail"
  /\ CloseConnect(w, c)
  /\ UNCHANGED <<g_app_run, acceptVars, pipe, pipeOpen, wPc, batchVars, arr,
                 mainVars>>

TailDone(w) ==
  /\ wPc[w] = "tail"
  /\ wPc' = [wPc EXCEPT ![w] = "loop"]
  /\ UNCHANGED <<g_app_run, sock, acceptVars, connCount, pipe, pipeOpen, ready,
                 batchVars, arr, poolVars, mainVars>>

-----------------------------------------------------------------------------
(* The main thread: dmbStopApp, dmbQuitAcceptThread, dmbQuitWorkThreads.   *)

Stop ==
  /\ mPc = "serve"
  /\ g_app_run' = FALSE
  /\ mPc' = "quitAccept"
  /\ UNCHANGED <<sock, acceptVars, connCount, pipe, pipeOpen, ready, wPc,
                 batchVars, arr, poolVars, mWorker, mConn>>

(* Join the accept thread, then close the listening socket.                *)
QuitAccept ==
  /\ mPc = "quitAccept"
  /\ aPc = "exited"
  /\ sock' = [f \in Socket |-> IF sock[f] = "backlog" THEN "free" ELSE sock[f]]
  /\ mPc' = "quitWork"
  /\ UNCHANGED <<g_app_run, acceptVars, connCount, pipe, pipeOpen, ready, wPc,
                 batchVars, arr, poolVars, mWorker, mConn>>

(* Fault: the pipe is closed without joining the worker.                   *)
CloseWithoutJoin ==
  /\ mPc = "quitWork"
  /\ mWorker < ThreadSize
  /\ pipeOpen' = [pipeOpen EXCEPT ![mWorker] = FALSE]
  /\ mPc' = "purge"
  /\ mConn' = 0
  /\ UNCHANGED <<g_app_run, sock, acceptVars, connCount, pipe, ready, wPc,
                 batchVars, arr, poolVars, mWorker>>

(* Join a worker and close its pipe.  What the pipe still holds is lost:   *)
(* the descriptors in it stay open.                                        *)
JoinWorker ==
  /\ mPc = "quitWork"
  /\ mWorker < ThreadSize
  /\ wPc[mWorker] = "exited"
  /\ pipeOpen' = [pipeOpen EXCEPT ![mWorker] = FALSE]
  /\ mPc' = "purge"
  /\ mConn' = 0
  /\ UNCHANGED <<g_app_run, sock, acceptVars, connCount, pipe, ready, wPc,
                 batchVars, arr, poolVars, mWorker>>

(* One turn of dmbNetworkPurgeConnectPool's loop.                          *)
PurgeConn ==
  /\ mPc = "purge"
  /\ mConn < ConnectSize
  /\ mConn' = mConn + 1
  /\ \/ CloseConnect(mWorker, mConn)
     \/ ~Live(mWorker, mConn) /\ UNCHANGED <<sock, poolVars, connCount, ready>>
  /\ UNCHANGED <<g_app_run, acceptVars, pipe, pipeOpen, wPc, batchVars, arr,
                 mPc, mWorker>>

PurgeDone ==
  /\ mPc = "purge"
  /\ mConn = ConnectSize
  /\ mWorker' = mWorker + 1
  /\ mPc' = "quitWork"
  /\ UNCHANGED <<g_app_run, sock, acceptVars, connCount, pipe, pipeOpen, ready,
                 wPc, batchVars, arr, poolVars, mConn>>

QuitDone ==
  /\ mPc = "quitWork"
  /\ mWorker = ThreadSize
  /\ mPc' = "done"
  /\ UNCHANGED <<g_app_run, sock, acceptVars, connCount, pipe, pipeOpen, ready,
                 wPc, batchVars, arr, poolVars, mWorker, mConn>>

-----------------------------------------------------------------------------
Environment ==
  \/ \E f \in Socket : Connect(f)
  \/ \E w \in Worker, c \in Conn : PeerActivity(w, c)

AcceptThread ==
  \/ AcceptLoop \/ SelectNothing \/ Reserve \/ Undo \/ Refuse \/ HandOver
  \/ \E f \in Socket : Accept(f)

WorkThread(w) ==
  \/ WorkLoop(w) \/ PollFails(w) \/ Poll(w)
  \/ PipeEvent(w) \/ ReadPipe(w) \/ ConnEvent(w) \/ EventsDone(w)
  \/ NewConnect(w) \/ NewConnectFails(w)
  \/ TailDone(w) \/ \E c \in Conn : TailClose(w, c)

MainThread ==
  QuitAccept \/ JoinWorker \/ PurgeConn \/ PurgeDone \/ QuitDone

Next ==
  \/ Environment
  \/ AcceptThread
  \/ \E w \in Worker : WorkThread(w)
  \/ Stop
  \/ MainThread

Spec == Init /\ [][Next]_vars

(* What a worker does outside processRoundRobin and the timeout sweep.     *)
Handling(w) ==
  \/ WorkLoop(w) \/ PollFails(w) \/ Poll(w)
  \/ PipeEvent(w) \/ ReadPipe(w) \/ ConnEvent(w) \/ EventsDone(w)
  \/ NewConnect(w) \/ NewConnectFails(w)

(* The operating system runs every runnable thread; epoll_wait does not    *)
(* fail for ever.  Nothing is assumed of the clients, of Stop, and of the  *)
(* end of processRoundRobin, whose loop need not end (dmbservercore.c:268).*)
Fairness ==
  /\ WF_vars(AcceptThread)
  /\ \A w \in Worker : WF_vars(Handling(w)) /\ SF_vars(Poll(w))
  /\ WF_vars(MainThread)

FairSpec == Spec /\ Fairness

-----------------------------------------------------------------------------
(* Every variable has its type; in particular descriptors in the pipe and  *)
(* in cliSoDataArr are real ones and iCur never runs past the last worker. *)
TypeOK ==
  /\ g_app_run \in BOOLEAN
  /\ sock \in [Socket -> {"free", "backlog", "open"}]
  /\ aPc \in {"loop", "select", "find", "undo", "write", "exited"}
  /\ client \in Socket \cup {InvalidFd}
  /\ iCur \in 0 .. ThreadSize
  /\ i \in 0 .. ThreadSize
  /\ connCount \in [Worker -> Int]
  /\ pipe \in [Worker -> Seq(Socket)]
  /\ pipeOpen \in [Worker -> BOOLEAN]
  /\ ready \in [Worker -> SUBSET Event]
  /\ wPc \in [Worker -> {"loop", "poll", "foreach", "read", "newconn", "tail",
                         "exited"}]
  /\ events \in [Worker -> Seq(Event)]
  /\ index \in [Worker -> Nat]
  /\ arr \in [Worker -> Seq(Socket)]
  /\ cliFd \in [Worker -> [Conn -> Socket \cup {InvalidFd}]]
  /\ idleConnList \in [Worker -> Seq(Conn)]
  /\ mPc \in {"serve", "quitAccept", "quitWork", "purge", "done"}
  /\ mWorker \in 0 .. ThreadSize
  /\ mConn \in 0 .. ConnectSize

(* The place the accept thread holds in worker w, between the increment in *)
(* findIdleThread and the write to the pipe or the decrement.              *)
Held(w) == IF aPc \in {"undo", "write"} /\ iCur = w THEN 1 ELSE 0

(* connCount, which two threads change at different moments, always counts *)
(* the records in use, the descriptors on their way to the worker and the  *)
(* place the accept thread holds: no reservation is lost or kept twice.    *)
CountExact ==
  \A w \in Worker :
    connCount[w] = (ConnectSize - Len(idleConnList[w]))
                   + Len(pipe[w]) + Len(arr[w]) + Held(w)

(* A place handed over is a place there is: for every descriptor in the    *)
(* hand of the accept thread, in the pipe or in cliSoDataArr an idle       *)
(* record is left, so GetIdleConn never returns NULL in                    *)
(* dmbNetworkProcessNewConnect, which would leak the descriptor.           *)
RoomReserved ==
  \A w \in Worker :
    Len(pipe[w]) + Len(arr[w]) + (IF aPc = "write" THEN Held(w) ELSE 0)
      <= Len(idleConnList[w])

(* The accept thread never waits for space in a worker's pipe (a blocked   *)
(* accept thread would keep dmbQuitAcceptThread from joining it).          *)
PipeNeverFull == aPc = "write" => Len(pipe[iCur]) < PipeCap

(* The idle list holds exactly the records without a descriptor, each once.*)
IdleExact ==
  \A w \in Worker :
    /\ \A c \in Conn : ~Live(w, c) <=> Contains(idleConnList[w], c)
    /\ \A j, k \in DOMAIN idleConnList[w] :
         idleConnList[w][j] = idleConnList[w][k] => j = k

(* The places that hold descriptor f.                                      *)
Holders(f) ==
  {<<"accept", 0, 0>> : x \in {a \in {aPc} : a \in {"find", "undo", "write"}
                                            /\ client = f}}
  \cup (UNION {{<<"pipe", w, k>> : k \in {n \in DOMAIN pipe[w] : pipe[w][n] = f}}
                : w \in Worker})
  \cup (UNION {{<<"arr", w, k>> : k \in {n \in DOMAIN arr[w] : arr[w][n] = f}}
                : w \in Worker})
  \cup (UNION {{<<"conn", w, c>> : c \in {d \in Conn : cliFd[w][d] = f}}
                : w \in Worker})

(* An open descriptor is in exactly one place and a closed one in none: it *)
(* is neither leaked, nor closed twice, nor used by two connections after  *)
(* its number is reused.  (At shutdown the place may be a closed pipe.)    *)
OneHolder ==
  \A f \in Socket :
    Cardinality(Holders(f)) = IF sock[f] = "open" THEN 1 ELSE 0

(* DMB_ASSERT(iReadLen > 0) in processNewConnect: while a worker is about  *)
(* to read its pipe nobody has closed the pipe, whose read would return 0  *)
(* or fail.                                                                *)
ReadLenAssert == \A w \in Worker : wPc[w] = "read" => pipeOpen[w]

InHand(f) == aPc \in {"find", "undo", "write"} /\ client = f
IsConn(f) == \E w \in Worker, c \in Conn : cliFd[w][c] = f

(* The loop of processRoundRobin ends: a premise, not a fact of this code. *)
(* DmbProtocol has the loop itself, where it holds for what is not jammed  *)
(* (WorkerReturns) and fails for what is (run stalled_stays).              *)
RoundRobinEnds == \A w \in Worker : wPc[w] = "tail" ~> wPc[w] # "tail"

(* The event that is last in a batch of several is not visited; here it is *)
(* the pipe's, for good once the visits are over.                          *)
PipeEventDropped(w) ==
  /\ wPc[w] = "foreach" /\ ~MoreEvents(w)
  /\ Len(events[w]) > 1
  /\ events[w][Len(events[w])] = Null

(* A descriptor accept() returned becomes a connection of a worker or is   *)
(* closed, unless the application stops first, as long as the round robin  *)
(* loops end.  The one exception is what dmbNetworkEventForeach does: a    *)
(* pipe's event that is last in its batch is dropped, and the descriptor   *)
(* stays in the pipe until another one is handed over.                     *)
Served ==
  RoundRobinEnds =>
    \A f \in Socket :
      InHand(f) ~> \/ IsConn(f) \/ sock[f] # "open" \/ ~g_app_run
                  \/ \E w \in Worker : PipeEventDropped(w) /\ Contains(pipe[w], f)

(* dmbStopApp is followed by the end of dmbQuitAcceptThread and of         *)
(* dmbQuitWorkThreads: every thread comes back to its g_app_run test.      *)
QuitCompletes == RoundRobinEnds => (~g_app_run ~> mPc = "done")

(* The worker visits its pipe's event, the first of a batch, for the       *)
(* second time, finds the pipe empty and waits in dmbReadAvailable.        *)
ReadTwice(w) == wPc[w] = "read" /\ pipe[w] = <<>> /\ index[w] = 2

(* Nothing but that second visit, and round robin loops that do not end,   *)
(* keeps the server from stopping: the accept thread always comes to its   *)
(* end, and so does every worker that is not left reading an empty pipe.   *)
QuitUnlessReadTwice ==
  RoundRobinEnds =>
    (~g_app_run ~>
       mPc = "done" \/ (aPc = "exited" /\ \E w \in Worker : ReadTwice(w)))

================================================================================
