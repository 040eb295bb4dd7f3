# A TLA+ development for dmb

dmb is a multi-threaded in-memory data store in C: an epoll server (`src/src/network`), a
library of data structures (`src/src/core`, `src/src/base`) and helpers (`src/src/utils`,
`src/src/thread`). These modules model the parts whose correctness depends on the order of
steps or on boundaries, check them with TLC on small instances, and prove the central
invariants of the server for every size with TLAPS.

Paths below are relative to the repository (`src/` is its root, `src/src/` its sources).

## 1. Inventory

| Part | State | Operations | What is hard | What makes it correct |
|---|---|---|---|---|
| Server core `network/dmbservercore.c` | `g_app_run`; per worker `connCount`, `pipeArr`, `cliSoDataArr`; accept thread's `client`, `iCur`, `i` | accept loop, `findIdleThread`, hand-over through the pipe, worker loop, `dmbQuitAcceptThread`, `dmbQuitWorkThreads` | accept thread and workers change `connCount` concurrently; blocking pipes; shutdown overtakes work in progress | places are neither lost nor granted twice; a granted place has a record; descriptors are neither leaked nor closed twice; shutdown ends |
| Connection pool `network/dmbnetwork.c` | `connects[]`, `idleConnList`, `timeoutConnList`, `roundRobinList`, the epoll set | poll, foreach, new connection, close, watch and sweep timeouts | events for records closed or reused in the same batch; edge-triggered events come once; nodes stay on a list after the record is closed | a record is idle or open, never both; every open connection has a timeout; an idle record is blank |
| Protocol `network/dmbprotocol.c` | `readBuf`, `writeBuf` with indices, `canRead`, `canWrite`, `isblocked`, `needClose` | `readData`, `processData`, `writeData`, `dmbProcessEvent`, round robin | partial reads and writes, pipelined requests, headers parsed in place, starvation by the round robin | one response at a time; no input forgotten; every complete request is answered; the worker comes back to `epoll_wait` |
| Intrusive lists `core/dmblist.c` | `pNext`, `pPrev` | push, pop, remove, ranges, merge, iteration | aliasing of neighbours, removal during iteration | the pointers always represent a sequence |
| Objects `base/dmbobject.c` | atomic `ref` | retain, release | two threads release | destroyed exactly once, never used afterwards |
| Object list `base/dmbdllist.c` | list of nodes with references, `len` | push, pop, ranges from the nearer end, scan cursor | boundaries, empty lists, cursors over changing lists | equals a sequence; a scan goes through it in order |
| Memory accounting `core/dmballoc.c` | `g_used_memory`, a size in front of each block | alloc, free, realloc | test and addition are separate steps; realloc takes the old size off first | the sum of what is allocated, within a bound of the limit |
| Skip list `core/dmbskiplist.c` | levels, forward pointers, spans | insert, delete, rank, range, scan | spans on every level | sorted; spans add up to ranks |
| Dictionary `core/dmbdict.c` | buckets of chains | put, get, pop, iterate | duplicates, keys in one bucket | finds the first entry put for a key |
| Binary list `core/dmbbinlist.c` | bytes: header, entries with a head that tells type and length, end code | push in part or whole, merge of lists and entries, clear | partial allocations, boundaries of the lengths, joined entries | equals a sequence of values |
| Strings `core/dmbstring.c` | length, capacity, one block | append, prepend, erase, case, searches, numbers | growth, a block that moves, ends | equals a sequence of characters |
| Settings and properties `base/dmbsettings.c`, `utils/dmbproperty.c` | the table: a list that owns the entries, a dictionary that finds them | load, parse, look up, destroy | the end of the file, allocations that fail half-way | the table has what the file says; no block is lost |
| Commands, logging, time, files | text and clocks | stubs, output | none of order | out of scope, see section 8 |

How they interact: the main thread starts the workers and the accept thread and later
clears `g_app_run` and joins them. The accept thread reserves a place in a worker with an
atomic increment of `connCount` and writes the descriptor to the worker's pipe. The worker
finds the pipe readable among its epoll events, takes a record from its idle list for each
descriptor and adds it to its epoll set; afterwards only this worker touches the record,
until `dmbNetworkCloseConnect` puts it back and calls `onClosed`, which decrements
`connCount` - the only variable besides the pipe that the accept thread and a worker share.
The atomic operations come from `thread/dmbatomic.h`, which is not in the repository; they
are taken to be atomic, as their callers need them to be. The settings are loaded before any
thread is started; everything in the library allocates through `dmballoc.c`, whose counter
is the only state the threads share there, besides the reference counts of objects.

The hazards of this code, with their lines and the properties aimed at them, are listed in
`PROJECT.json`.

## 2. Modules

| Module | Models |
|---|---|
| `DmbServerCore` | the accept thread, `ThreadSize` workers, the main thread; connections only as descriptors |
| `DmbServerCoreProofs` | theorems about it: types and counts; idle records, pipes and descriptors |
| `DmbList` | the intrusive lists as operators on a heap of pointers |
| `DmbListIndex` | the functions on lists that take an index or a whole list (uses `DmbList`) |
| `DmbListProofs` | theorems about both |
| `DmbProtocol` | one worker in detail: poll loop, protocol, timeout and round robin lists (uses `DmbList`) |
| `DmbProtocolProofs`, `DmbProtocolListProofs` | theorems about it: types, blank records and responses; the timeout and round robin lists, input and refusals |
| `DmbDLList` | the object list, the reference counts of objects and the accounting of memory, used by several threads (uses `DmbList`) |
| `DmbDLListSpec` | what the object list promises: sequences, and who has references to what |
| `DmbDLListProofs` | theorems about both: the lists, the counts, the calls of `GetRange` and `Scan`, the refinement |
| `DmbSkipList` | the skip list: nodes with heights, links and steps |
| `DmbSkipListSpec` | what it promises: a sorted sequence, and what each call returns |
| `DmbSkipListProofs` | theorems about both: levels, steps, ranks, ranges and scans, the refinement |
| `DmbSequences` | the elements of a sequence that are in a set, as a recursive function |
| `DmbAlloc` | the accounting of memory, by threads that allocate, resize and free |
| `DmbDefines` | `NULL`, and the community modules' operators on sets and sequences |
| `DmbDict` | the dictionary, as operators |
| `DmbProperty` | the load of the settings: parser, table, lookups (uses `DmbDict`) |
| `DmbBinList` | binary lists in a fixed buffer and on the heap |
| `DmbString` | a string, and the text of numbers |
| `DmbLibraryProofs` | theorems about `DmbAlloc`, `DmbProperty` and the text of numbers |
| `DmbInduction` | induction over numbers and finite sets: recursive functions, sums, searches |
| `MCServerCore`, `MCProtocol`, `MCDLList` | symmetry sets and the owners of lists for TLC |
| `MCLibrary` | `DmbBinList`, `DmbProperty`, `DmbString`, `DmbAlloc`, `DmbListIndex` and `DmbSkipList`, one in each behaviour |

`DmbServerCore` and `DmbProtocol` cut the server along the interface between them. The
first abstracts the handling of a connection's event to "keeps it or closes it", and shows
that a worker is never handed more connections than it has idle records; the second assumes
exactly that (`HandOver` requires `pending + taken < Len(idleConnList)`) and refines the
handling.

### DmbServerCore

One variable per shared or thread-local object of the code, under its name; `aPc`, `wPc`
and `mPc` say where each thread is. A step of a thread ends where another thread can notice
the difference: `findIdleThread` is split into `Reserve` (increment and test) and `Undo`
(decrement and next worker), because the place is visible to nobody but the counter in
between; `HandOver` blocks while the pipe is full; `ReadPipe` blocks while it is empty, as
`dmbReadAvailable` does on a blocking descriptor; `PurgeConn` is one turn of
`dmbNetworkPurgeConnectPool`. `ForeachEvent` is the macro `dmbNetworkEventForeach` as it is
written: it visits a batch `e1 .. en` as `e1, e1, e2, .., e(n-1)`. `TailClose` and
`TailDone` are the connections that the round robin and the timeout sweep close and the end
of both; `Handling` is the rest of a worker, and only that is assumed to go on (section 4).
`dmbNetworkCloseConnect` is one step: of its effects only the freed descriptor and the
decremented counter are seen by another thread, and neither is used to find the other.
Errors of `select`, `accept`, `epoll_wait`, `epoll_ctl` and of the socket options are taken
nondeterministically. `Init` is the state after a successful start-up.

### DmbProtocol

`cn[c]` is the record `dmbConnect` with the kernel's and the client's side of the
connection. Bytes are counted in units: `Hdr` for a header, `Body` for a request's data and
its echo, so `readLength`, `writeIndex` and `writeLength` are those of the code and partial
reads and writes happen at every size that matters. `requestIndex` is always 0 and
`readIndex` always equals `readLength`, so neither is a field. The three booleans `magic`,
`version` and `length` tell which fields of the header at the start of `readBuf` are in host
order: `parsePkgHeader` converts them in place, so that a field is right or wrong by turns.
Requests are good, have a magic, version or length that is wrong in either order
(`badMagic`, `badVersion`, `tooLong`), or have one of these fields or all three in host order
(`HostKinds`): such a field is wrong when it is first parsed and right when it is parsed again.
The length of a `wrapping` request is one of the last of 32 bits, so that the sum with the
size of the header passes the test of the length (`dmbprotocol.c:215`). A request of length 0
is like any other: the zero that `dmbProcessPackage` writes in front of its (empty) data
replaces the last byte of the length, which is zero. The value of a timeout is abstracted to
whether it is set; the clock decides in the sweep whether it has expired. `net_rw_timeout` is
assumed to be positive, as it is in `dmb.conf`: with 0, `dmbNetworkWatchTimeout` watches
nothing (`dmbnetwork.c:561`). `dataCode`, which
`dmbProcessEvent` leaves uninitialised when a connection is blocked, takes any value of the
constant `Garbage`. `ProcessEvent` is the whole handler: reading, processing, writing, the
test of `needClose` and the push to the round robin list. `processNewConnect` is `ReadPipe`,
which takes all descriptors out of the pipe (and waits for one if there is none), and then
one `NewConnect` for each. Failures of `epoll_ctl` and the end of the loop are in
`DmbServerCore`.

A record may be opened with a `canRead` or `canWrite` that is none of its own connection's:
`dmbNetworkCloseConnect` resets both (`dmbnetwork.c:171-172`), but an event of the batch that
is for the record already closed sets them again (`dmbservercore.c:306-310`), and
`dmbNetworkProcessNewConnect`, which takes the record from the idle list, does not reset
them. The history field `odd` marks a record whose client has sent a field in host order.
The history field `early` marks a record that was
opened with `canRead` but without `canWrite`, until an event of its own finds it with nothing
to write and not to be closed: see section 5.

Lists are heaps of pointers (`DmbList`) and not sequences because their pointers get into
states no sequence represents (`popped_stays`).

### DmbDLList

Each list belongs to a thread and is changed by nobody else, as the code, which has no lock
there, requires; objects and `g_used_memory` are shared. So a call is one step on the
caller's list and then the work it leaves in `todo`, one access to shared memory a step: the
test of the limit (`CheckCurrentMemoryUsage`), the allocation and the addition
(`MallocObject`, `MallocEntry`), the atomic increment with the link that follows it
(`Link`), the atomic decrement (`ReleaseEntry`), and the two frees. A failed allocation ends
the call and leaves what it has done so far. `Loop` is the loop of
`dmbDLListRemoveRange` and `dmbDLListGetRange`, with the iterators of `DmbList` and from the
end the code takes; `ScanOf` is that of `dmbDLListScan`. A caller releases what it holds and
pushes only what it holds. Memory is counted in units, one for each entry or object;
`dmbDLListCreate` is not modelled.

That the counter itself stays right and within its bound is `DmbAlloc`'s part.

The refinement of `DmbDLListSpec` maps a list to the objects of its entries, and `held` to
itself. In the abstract specification a removed element is given up at once, and an object
may be created only when nobody has a reference to it: that the memory of an object is not
used again too early is part of what the refinement says.

### DmbSkipList

`sl` is the list with the entries of its nodes, `data` what a node holds; a node that is not
allocated holds nothing. The list is used by one thread, so a call is one step. All
functions search in the same way, down the levels and along each as long as the next node
has some property: `Search(passed)` is that loop, for the set of nodes to pass, with the
node and the rank it leaves each level at (`updateArr`, `rankArr`). The height of a new node
is any number of levels, and an insertion may fail after the level was raised. `last` is
what the last call was and returned, for the refinement of `DmbSkipListSpec`. The queries
are operators, compared in every state with what they are to return, for all arguments.

`SearchLevel` is the inner loop of the search. `RankLevel` is that of `dmbSkipListScanByRank`,
which walks by steps and not by elements, so it takes the place it has come to along with
the node. `UIntSize` is the number of values of a `dmbUINT`, of which only one calculation
makes use: the next rank of a scan in reverse.

### DmbListIndex

The same heap of pointers, with `order`, a history variable: the nodes each list should have.
`dmbListForeach` is the loop of the two macros, along the one pointer or the other; `CBListGet`,
through which all functions with an index find their node, stops at the list and then returns
`NULL`. `dmbListMerge` assigns its pointers in the order of the code (`Merged`). `RangeRemoved`
is what `dmbListRemoveRange` makes of the pointers and returns, `NULL` if it writes through a
null pointer, and `Without` what its header says is left of a list; the two differ
(`remove_documented`, section 5). `LinkNext` has the callers that remove by indices from the
front, for which they agree.

### DmbAlloc

`used` is `g_used_memory`, `size` what is written in front of a block, and `op` what a
thread is doing. `dmbMalloc` is the test of the limit (`CheckCurrentMemoryUsage`), the call
of the C library (`Malloc`, or `OutOfMemory`) and the addition (`Add`); `dmbRealloc` is the
test, `Realloc`, `Subtract` and `Add`; `dmbFree` the subtraction and `Free`. A block has one
user at a time. `Aligned` is what `UpdateAlignmentSize` counts for a size, `Faked` the
address that `dmbReallocAligned` computes.

### DmbBinList

The bytes of a block without its header, whose three fields are fields of a record. The
system is that of `tests/dmbbinlist_test.c`: a writer packs strings and numbers into a list
in a fixed buffer and, when an entry does not fit, pushes the part of it that does; the list
is then merged into one that grows on the heap, the two parts being joined, and cleared.
`fixmem_realloc` may give less than was asked for (`ALLOC_PART`), `default_realloc` may
fail, and both change the caller's state before the caller knows whether it can use what it
got. `spoiled` is set by the two calls that break the chain of entries (section 5); nothing
is done or said after it.

### DmbDict and DmbProperty

A dictionary is a record of a count and a chain for each bucket. `dumpHashFunc`, by which a
key's bytes are looked up, is any function, chosen in the initial state, since no caller may
depend on it. `hashFunc`, by which `dmbDictPut` finds the bucket of an entry, may give any
bucket: `dmbStringHashFunc` lets 32 of the 64 bits of the length be written
(`core/dmbdictmetas.h:59`) and hashes as many bytes as all 64 say. (With other bits set that is
more than 4 GB; a process that survives reading them has some hash.) `DmbProperty` follows
`dmbLoadSettings`: one action for the creation of the table, the opening of the file, each
line, key, value and insertion, every one of which may run out of memory, and the lookups
with the destruction of the table. A file is a sequence of tokens (a word of any length is
one), because the parser distinguishes only words, blanks, ends of lines, `=` and `#`.

### DmbString

A string is `len`, `capacity` and the characters of its block; `moved` says that `dmbRealloc`
has moved the block while the caller still has the old pointer; what happens to the string from
then on is not defined, and it is left alone. `dmbStringCompare` returns a `dmbBOOL` of eight
bits, so a difference of lengths is seen modulo `BoolSize`, which stands for 256. The searches
and the comparison are operators evaluated in every state. The text of numbers (`dmbLong2Str`,
`dmbGetStrLenWithLong`) is a pure function, with the code's product and shift in place of the
division.

## 3. Runs

| Run | Shows | Bounds |
|---|---|---|
| `server_safety` | `TypeOK`, `CountExact`, `RoomReserved`, `PipeNeverFull`, `IdleExact`, `OneHolder`, `ReadLenAssert` | see `ServerSafety.cfg` |
| `server_live` | `Served`, `QuitUnlessReadTwice` | 1 worker, 2 records, 3 clients |
| `server_quit_hangs` | *violated*: `QuitCompletes` | 1 worker, 2 records |
| `protocol_safety` | `OneResponse`, `BlockedWaits`, `AllWatched`, `IdleIsBlank`, `InputDrained` | 2 connections, 2 requests each, good ones or with the magic in host order |
| `protocol_live` | `TypeOK`, `WorkerReturns`, `Answered`, `Disconnected` | 1 connection, 3 requests of six kinds, whole or in parts, both values of `dataCode` |
| `dllist_safety` | `ListsAgree`, `ReferencesCounted`, `NothingLeaks`, `RangeCopied`, `ScanProgress`, `ListSpec` | 2 threads, 3 lists, 4 entries, 2 objects |
| `library` | `WalkExact`, `TransferExact`, `RefusalExact` of binary lists; `ParseExact`, `LookupExact`, `BlocksOwned` of settings; `StringExact`; `UsedExact`, `Overshoot` of memory; `IndexExact` of lists; `LevelsNested`, `StepsExact`, `RankExact`, `ScoresExact`, `ScansExact`, `SortedSpec` of skip lists | see below; 275,885 states |
| `split_refused` | *violated*: `RefusedIfBad` | 1 connection, 1 request |
| `popped_stays` | *violated*: `PopRemoves` | 2 connections |
| `buffered_ignored` | *violated*: `NothingBuffered` | 1 connection, 2 requests |
| `stalled_stays` | *violated*: `TimeoutCloses` | 1 connection, 3 requests |
| `remove_documented` | *violated*: `RemovesAsDocumented` | 1 list, 1 node |

Why the bounds are enough. In `server_safety` there are more clients than one worker has
records, so a worker fills up and the search moves on, batches hold several events, records
are closed and reused while events for them are pending, and shutdown may start in every
state. All workers are full, so that a client is refused, in `server_live`, where batches
hold the pipe's event and those of two connections in any order: the first may be visited
twice and the last not at all. In
`protocol_safety` the read buffer holds a request and a half and the send buffer less than a
response, so reads stop in the middle of a request, writes block, and batches hold the
events of two connections and of the pipe. In `protocol_live` the read buffer is smaller
than what the client may send, so that `Jammed` happens, and the header and the data of a
request may arrive apart; the six kinds of requests meet every error path of `processData`,
those in host order the ones that turn a refused header into a good one. It has one
connection: with two, a batch can hold several events and the worker may not come back at all
(`popped_stays`). `Answered` says so itself: it is about behaviours whose batches hold one
event.

In `dllist_safety` the memory for entries and objects is two units more than the limit, so
that the limit is met, and exceeded by two threads at once; four entries are enough for ranges
that start in the second half, in the middle, and for scans in steps of one to five; the
thread with two lists copies from one to the other and hands objects to the other thread.

In `library` the constants of the code are scaled down so that every case of the code is met
with few bytes: short strings have fewer than 7 characters and middle ones fewer than 40
(`TINYSTR_LENMAX`, `NORMALSTR_LENMAX`), a byte of a length has 8 values, a list counts to 3
before its sixteen bits wrap, and the fixed buffer has 20 bytes, so that the lengths 1, 3, 5, 8,
36 and 40 give short, middle and long strings which fit, fit in part, do not fit and are refused
for their length, next to numbers; three entries fill the buffer, are merged, joined, and wrap
the count. A settings file has up to three lines of seven kinds, the last with its end or not,
and two keys in the same bucket or in two, and every entry goes to either. A string has up to 8
characters and grows by `Step`, by doubling below `Page` and by doubling from it; none comes
near `UINT_MAX`. `BoolSize` is 3, so that strings that are three characters longer than a piece
compare equal with it. Two threads allocate three blocks of up to 3 bytes with a limit of 4, so
both pass the test at the limit. Two lists share three nodes, and every index from below the
first to beyond the last is tried (by removals, from the first). `NumbersAssumption` compares the text of numbers around all
boundaries; a product of 52429 with 40960 to 65535 is too large for TLC's integers, and that
case is the theorem `FastDivision`.

The three nodes of the skip list take every height from one to three, with elements that differ
in score, in value, in both or not at all: a level is raised by two at once, given up while a
range is removed, and left without nodes by a failed insertion. `UIntSize` stands for 2^32.

Deadlock is not checked in runs in which the main thread finishes or the clients have
nothing more to send.

## 4. Fairness

* `DmbServerCore!FairSpec`: weak fairness of the accept thread and the main thread (the
  operating system runs runnable threads), of what a worker does outside the round robin and the
  sweep (`Handling`), and strong fairness of `Poll`: `epoll_wait` may fail, but not for ever.
  Nothing is assumed of clients, of `select`, of the call of `dmbStopApp`, and of the end of
  `processRoundRobin`, whose loop need not end (`stalled_stays`, `popped_stays`). That it does
  is a premise of the properties of `server_live` and `server_quit_hangs`, `RoundRobinEnds`;
  `WorkerReturns` says when it is true. `Served` excepts a descriptor whose pipe's event was
  dropped as the last of a batch, and `QuitUnlessReadTwice` a worker that reads its empty pipe
  because the pipe's event was visited twice; `QuitCompletes`, which does not, is violated
  (`server_quit_hangs`).
* `DmbProtocol!StalledSpec`: weak fairness of the worker. `FairSpec` adds that clients read
  what has been sent to them. `Answered` and `WorkerReturns` need no more. `Answered` names what
  keeps a request waiting in spite of it: a jammed connection, and one that is left to epoll
  because of the uninitialised `dataCode` (`Left`).
* `Expiry` is a premise of `Disconnected` and `TimeoutCloses`: a client sends at most `Quota`
  requests, after which nothing renews its timeout, so real time makes it expire; a sweep
  that comes often enough finds it expired.

## 5. What the runs found

1. `dmbNetworkEventForeach` (`network/dmbnetwork.h:132`) assigns the event before it
   increments the index. The first event is handled twice and the last never. If the first
   is the pipe's, the worker blocks in its second read, and `dmbQuitWorkThreads` waits for
   it (`server_quit_hangs`).
2. `parsePkgHeader` converts in place; a request whose data is late is parsed twice and
   refused (`split_refused`).
3. A connection handled twice is pushed twice to the round robin list. The only node of the
   list becomes its own predecessor and popping does not remove it (`popped_stays`):
   `processRoundRobin` then never ends.
4. `dataCode` is uninitialised when `processData` is skipped (`buffered_ignored`).
5. A full `readBuf` together with a blocked write keeps `processRoundRobin` running without
   progress; timeouts are not looked at again (`stalled_stays`).
6. `dmblist.h:114-115` and `:124` say that negative indices of a removal count from the end;
   the code removes nothing then. With an `iStart` beyond the end `dmbListRemoveRange` writes
   through a null pointer, and with an `iEnd` beyond it it returns more than it has removed,
   where `:116` promises the number of elements removed (`remove_documented`).

The last event of a batch of several is the other half of the first finding. If it is the
pipe's, a descriptor waits in the pipe until the next one is handed over (`PipeEventDropped`
in `Served`); if it is a connection's, what epoll has announced is not read until the client
sends more (`Dropped` in `InputDrained`). No step but that, and a front of the round robin
list that cannot be removed, forgets input that was waiting for its turn; the second needs
three connections, so that only the theorem `InputNotForgotten` meets it.

No document says what the following should do; the properties state what the code does.
`dmbDLListScan` (`base/dmbdllist.c:302`) returns the index 0, the end of the scan in
`tests/dmbdllist_test.c:47-52`, when exactly the last element is left (`ScanProgress`), and
`dmbDLListGetRange` copies in the opposite order when the range starts in the second half of
the list (`RangeCopied`). `dmbSkipListScanByRank` returns 2^32 - 1 as the next rank after a
reverse scan that has reached the first element (`core/dmbskiplist.c:401`), where the forward
scan returns 0; `dmbSkipListScan` returns the length (`ScansExact`).
`dmbSkipListGetRank` compares only values, so its answer is stated for values that occur once.

`OneResponse` does not hold of records that are `early`. A batch begins with an event of
`c1`, whose first handling closes the connection; the second handling, of the closed record,
sets `canRead` again and puts its node on the round robin list. The pipe's event, next in the
batch, opens `c1` for another client, whose request is there at once: `processRoundRobin`
reads and answers it before epoll has said that the connection can be written. `writeData`
then writes nothing and does not set `isblocked`, and a second request puts its response
behind the first, past the end of `writeBuf` if that is full. It needs three records: one for
the descriptor that is in the pipe while `c1` is open, and one whose event is the last of the
batch, which is not handled. With three records there are too many states for everything
else `protocol_safety` checks, and two never meet the case. The exception in `OneResponse` is
this one and no other, for any number of records, by the theorem `ResponsesKept`.

`BlockedWaits` makes the same exception, and one more. A refused request is taken from the set
of epoll and closed by the next event, or by `processRoundRobin` when it is parsed again:
parsing turns the three fields of a header one after the other and stops at the first that is
wrong, so the header of a good request is wrong at least twice more, and the record is closed
before. An early record whose response `writeData` did not write stays on the round robin list
meanwhile: the fields are turned like the digits of a counter, the request is found good after
all, `needClose` is withdrawn, and epoll has forgotten the connection. It then waits for its
timeout. Proving `BlockedWaits` found this; without the exception it is not inductive.

The other exception of `BlockedWaits`, `odd`, needs no reopened record: a client that sends
the magic, the version or the length in host byte order. Its header is refused at the first
parse and the connection taken from the set of epoll; if it is handled again before it is
closed - its event is the first of the batch, or it is on the round robin list - the fields
are turned a second time and right. The request is answered, `needClose` withdrawn, and the
connection waits for its timeout, with nothing of what it sends noticed. `odd` marks the
connections whose client has sent such a field, and only those.

Of the library (the properties state what the code does, and these are the exceptions they
make):

* Binary lists. `DMB_BINCODE` takes four bits for the type where a length uses six, so strings
  of 16 to 62 bytes and of 4096 to 16382 cannot be pushed (`ENTRY_IS_EMPTY`,
  `core/dmbbinlist.c:253`), although `dmbbinlist.h:28-29` admits them: `LengthTold`, a part of
  `TransferExact`, says that these are the only ones. `dmbBinEntryMerge` writes the size of the
  whole list as the length of the entry (`:357`). A piece of a short string without content has
  the end code for its head (`:195`). After a push that was refused behind its realloc the fixed
  buffer's offset stays beyond the list (`:625`). `default_realloc` without memory overwrites
  the caller's pointer (`:515`): `TransferExact` says that the call then tells of it, and that
  what was not in that list is still where it was. The number of entries wraps in a merge, which
  does not test it. A merge with `mergeLast` joins two strings that are each whole, as the test
  of the repository shows; the caller must know.
* Settings. Values are stored without a terminating zero and read as C strings
  (`base/dmbsettings.c:47`): a setting with a value may be wrong or not set, and `LookupExact`
  says only that no other name's value is in it. An entry whose hash read bits that were not
  initialised is not found by its name (`core/dmbdictmetas.h:74`). A comment that ends the file
  without an end of line makes the load fail or not, depending on the byte behind the buffer
  (`utils/dmbproperty.c:183`); a value that ends the file makes it fail. The table is leaked by
  a load that failed (`base/dmbsettings.c:144`).
* Strings. `dmbStringAppend` and `dmbStringPrepend` go on with the old pointer after the block
  has moved, and the caller never learns the new one (`core/dmbstring.c:377`;
  `tests/dmbstring_test.c:40-46` uses the pointer after growing). `StringExact` claims nothing
  of such a string. `dmbStringCompare` takes strings for equal if they differ in length only, by
  a multiple of 256 (`:191-206`); `StringExact` is about lengths that differ by less.
  `dmbStringLastIndexOf` does not look at the last character again. `dmbLong2Str` negates the
  least integer, and so does `CBListGet` with an index.
* Memory. `dmbRealloc` is refused at the limit also when it would shrink the block.
  `dmbReallocAligned` hands out another address in the new block but does not move the
  content when the base has another residue; nothing calls it.

Smaller hazards that no property covers: `select` changes its `timeval`, which the accept
loop does not set again (`network/dmbservercore.c:203`); a start-up that fails half-way is
followed by a join of threads that do not exist (`:146`); descriptors left in a pipe at
shutdown are lost with it (`:149`); `dmbSkipListScan` reads `*nextIndex` without a test and
leaves it unset when the callback stops the scan (`core/dmbskiplist.c:296`).

## 6. What is proved

Every theorem is for all values of the constants that the named assumptions of its module
admit.

**Server core** (any `ThreadSize`, `ConnectSize`, `PipeCap` and set of clients; assumptions
`SizeAssumption`, `FdAssumption`).

* `TypeCorrect`: `Spec => []TypeOK`. `TypeOK` is not inductive: that `iCur` stays an index
  of a worker depends on where the accept thread is, and so on. `TypeInv` adds `ThreadInv`,
  which ties each program counter to the variables it makes meaningful.
* `ConnCountExact`: `Spec => []CountExact`, and `PoolNeverDry`: `Spec => []RoomReserved`.
  Both follow from `CountInv`: for each worker, records in use plus idle ones balance, the
  counter is the sum of what it stands for, and it exceeds `ConnectSize` only by a place the
  accept thread is about to give back. `RoomReserved` alone is not inductive: it depends on
  the counter being exact, and the counter being exact does not imply that it is bounded.
  `RoomReserved` is why the error path of `dmbNetworkProcessNewConnect` that leaks a
  descriptor (`dmbnetwork.c:537`) cannot be reached.
* `IdleListExact`: `Spec => []IdleExact`, from `IdleInv`, which adds that no record is twice
  in the idle list - without it closing one of two entries would break the other.
* `HandOverNeverWaits`: a pipe that holds `ConnectSize` descriptors is never full, from
  `CountInv` alone. `PipeReadOpen`: `Spec => []ReadLenAssert`, from `JoinInv`: a pipe is
  closed only after its worker was joined.
* `DescriptorsOwned`: `Spec => []OneHolder`, from `HolderInv`: a descriptor is open if and
  only if it is at some place (`PlaceInv`), it is at no two places, and in no pipe or array
  twice. The lemmas `StayPlaces`, `MovePlaces` and `LeavePlaces` are the three ways a step
  changes this; each action is shown to be one of them.

**Protocol** (any finite set of records, any sizes, requests and garbage; `BufferAssumption`,
`NodeAssumption`).

* `TypesHold`: `Spec => []TypeOK`, and `RecordsBlank`: `Spec => []IdleIsBlank`, from
  `WorkerInv`. That counts do not become negative needs `Account`: the bytes in `readBuf`, in
  the kernel and still to come are those of whole requests, so `processData` never takes
  more than there is. `Busy` is what holds of a record while `dmbProcessEvent` is at work,
  `Rest` adds that a blocked record has no `canWrite`. That the pointers followed are never
  `NULL` needs the shape of the lists: the timeout list is a ring in which positions grow
  (`Linked`); the round robin list, which double pushes deform, is only closed under its
  pointers (`Around`).
* `ResponsesKept`: `Spec => []OneResponse`, from `RespInv`. A response is written into an
  empty `writeBuf` because a record with something to write is blocked (`Sound`), which holds
  because a record that reads can be written, or is `early`. That follows from the order
  of events, so `EventsInv` says what the events still in the batch are: about different
  connections, open ones but for the first, and with `EPOLLOUT` if the connection could not
  be written before.
* `TimeoutsWatched`: `Spec => []AllWatched`, `InputNotForgotten`: `Spec => InputDrained`,
  and `ForgottenRefused`: `Spec => []BlockedWaits` (`DmbProtocolListProofs`), from `Listed`,
  which adds `ListsInv` to the invariants above. `WatchInv` says that the timeout list is a
  ring (`Ring`): a path from the anchor back to it, through exactly the nodes in use, that
  `pPrev` goes back. Closing a record leaves its node there, opening one finds it there, and
  the sweep takes nodes out; the lemmas `RingPush` and the like say that the ring is one
  again. `RoundInv` allows what double pushes do to the round robin list: it is a path whose
  nodes are all heard of (`Rolled`), or its first node can never be removed again (`Stuck`),
  and then the worker never waits again.

  `InputNotForgotten` says two things. When `dmbProcessEvent` is done with a connection, what
  the kernel had of it is in `readBuf`, or the connection is on the round robin list, or its
  edge is to come, or it was closed or refused: `Heard` shows it, because a handler that
  leaves a connection to epoll has read until nothing was left. And input of a connection
  that waits for its turn - an edge, an event of the batch, a place on the round robin list -
  is forgotten by two steps only: by the end of a batch, of the connection whose event is its
  last (`VisitedInv` says which events were visited), and by a pop that does not remove the
  front.

  For `BlockedWaits`, `Patient` counts how often a refused header has been parsed
  (`Refused`, `RefusedTwice`) and shows that a record is closed before it is parsed once too
  often. It claims this of records that are neither `early` nor `odd`: the two exceptions
  above.

**Library.**

* `OvershootBounded` (`DmbLibraryProofs`): `AllocSpec => []Overshoot` for any finite set of
  threads, any blocks, sizes and limit. `AllocInv` says more: each thread that has not passed
  the test leaves room for one largest block below the bound, so that one that passes may
  take it. `AlignedFits`: the address of `dmbReallocAligned` is aligned, leaves room for the
  pointer in front and `size` behind.
* `UsedMemoryExact`: `AllocSpec => []UsedExact`. The sum over all blocks, from `UsedInv`: the
  size written in front of a block is the one that was added for it, unless a thread is
  between its two accesses, and no two threads work on a block.
* `BlocksNotLost`: `PropSpec => []BlocksOwned`, from `PropInv`: what the loader holds at each
  of its steps, and that there are as many blocks as that and the table account for
  (`PropertyAssumption`: the kinds of lines are those of the module, keys and marks differ
  from `NULL`).
* `RemoveLinked`, `InsertRemove` and `MergeLinked` (`DmbListProofs`), for heaps and lists of
  any size: removal, insertion and merge keep `pNext` and `pPrev` inverse on the nodes of
  their lists, link what should be neighbours, and change no pointer of another list;
  removal undoes insertion. They are about single calls on well-formed lists.
* `GetExact` (`DmbListProofs`): `LinkSpec => []IndexExact`, where a removal is by indices
  from the front (for the others see `remove_documented`). `LinkInv` says that both pointers
  run along each list (`Chain`), no node is on it twice and none on two. The lemmas on single
  calls say what sequence a list is afterwards (`InsertChain`, `CutChain`, `MergeChain`), and
  `ForeachMeets` that the loop of `dmbListForeach` meets it in order, by induction over its
  turns (`ListIndexAssumption`: heads, nodes and `NULL` are different).
* `FastDivision` (`DmbLibraryProofs`): the product and shift of `dmbLong2Str` divide by ten.

**Object list** (`DmbDLListProofs`; any finite sets of threads, entries and objects, any
lists and owners, any limit; `DLListAssumption` - the sets are finite, so that references can
be counted).

* `ListsOfEntries`, `CountsAreReferences` and `NoEntryLost`: `ListsAgree`, `ReferencesCounted`
  and `NothingLeaks` in every state, from `DLInv`. None of the three is inductive. `ListsInv`
  says that there are sequences the pointers of all lists run along in both directions
  (`Listed`); the lemmas `ListPush`, `ListPop`, `ListRemoveRange` and `ListClear` say which ones
  they are after a call. `WorkInv` says what the rest of a call can look like: an entry is
  linked, released or freed by one item only, and what is released is freed next. Each entry is
  free, in a list, or in the work of one thread (`EntriesApart`, `EntriesKept`), and holds an
  object if and only if somebody will release it (`EntriesHold`). `CountInv` is the sum of
  references, `LiveInv` says who destroys an object that has none left, and `WantedInv` that
  whoever is about to push an object has a reference to it - otherwise the increment of `Link`
  could revive an object that another thread is destroying.
* `RangesCopied` and `ScansProgress`: `RangeCopied` and `ScanProgress` for lists of any
  length. `LoopIs` says what the loops of ranges meet, by induction over their turns; scans
  are followed from the last one back (`ScansEnd`, `RemainderIs`).
* `ImplementsListSpec`: `Spec => ListSpec`. The elements of a list are the objects of the
  sequence of `Listed`; `StepPromised` maps each action to one of `DmbDLListSpec` or to a
  stutter. It needs `OwnInv` besides `DLInv`: the work of a call is on a list of its own
  thread, so the push that `Link` completes is one by the owner.

**Skip list** (`DmbSkipListProofs`; any sets of nodes, scores, values and any number of
levels; `SkipListAssumption`: header, nodes, `NULL` and records are different, scores and
values are integers).

* `SequenceHeld`: `SkipSpec => []SkipInv`: there is a sequence of nodes that the list stands for
  (`Holds`). It is sorted (`Sorted`) and has each node once; on every level each node that
  reaches it leads to the next one in the sequence that does (`NextOn`), by a step that is
  their distance (`Leads`), and `prev` leads to the one before (`LeadsBack`). None of the
  properties below is inductive, because a search depends on all of them: it is cut short by
  order, led by the levels, and its rank is a sum of steps. `SearchEnds` says where it leaves
  each level, at the last node passed that reaches it, by induction over the levels and, on
  each, along the pointers. `InsertBuilds` and `RemoveBuilds` say that the list stands for
  the sequence with an element more or less; `TurnsHold` that the loop of
  `dmbSkipListRemoveByScore` may go on with the path of its one search after each removal.
* `StepsAreDistances`, `LevelsAreNested`: `StepsExact` and `LevelsNested` in every state.
  `ScoresAreExact`, `RanksAreExact`: `ScoresExact` and `RankExact` of every state and all
  arguments.
* `ScansAreExact`: `ScansExact` in every state whose length a `dmbUINT` can count,
  `sl.len < UIntSize`. The model's length does not wrap, and a sequence longer than that has
  no indices of this type.
* `SortsAsPromised`: `SkipSpec => SortedSpec`. The elements are those of the sequence (`Es`);
  each call has a lemma (`InsertPromised` and so on) that says which step of `DmbSkipListSpec`
  it is.

`DmbInduction` has what these proofs need of induction. The library's theorems take an
operator as a parameter, which the provers cannot use; with a set of numbers in its place
(`Induction`, `SubsetInduction`, both from the well-foundedness of `<`) they can. So do the
lemmas that recursive functions exist (`Recursion`), that sums over finite sets change as
their terms do (`SumChanges`, `SumFolds`), and that a search finds the first hit
(`ScanFinds`).

**Only model-checked.** All liveness, which is out of TLAPS's reach. The walks and transfers
of binary lists (`WalkExact`, `TransferExact`, `RefusalExact`), the parser and the lookups of
settings (`ParseExact`, `LookupExact`), and the searches in strings (`StringExact`).

## 7. Plan

Done: all of the first plan, and the theorems about the worker's lists, the sum of all
memory, the blocks of the settings, lists by index, the object list and the skip list. Left:

1. Failures half-way through the start-up in `DmbServerCore` (`dmbservercore.c:146`), which
   need the threads that were not started as states of their own.
2. Requests of several packages in `DmbProtocol`, once something sets the `merge` callback.
3. Theorems: the lookups of settings and the walks of binary lists.

## 8. Not modelled

* Commands (`base/dmbcommand.c`, `base/dmbserver.c`): stubs, no command is dispatched yet.
* Logging, time, files and system helpers: pure I/O; the clock is the expiry of a timeout.
* Of the server: socket options and listening, `dmbNetworkOnLoop` (a test loop that nothing
  calls), failures half-way through the start-up, the accept loop's use of the processor, the
  release of all memory at the end, requests of several packages.
* Of the library: string objects (as integer objects, with a second piece of memory), the
  creation of object lists on the heap, `dmbSkipListDestroy` and callbacks that stop a skip
  list's scan; the void allocator of binary lists, which only counts, and merging whole
  strings with `mergeLast`; the parsing of numbers (`strtol`) and the units of settings;
  `dmbSetMaxMemSize` after the start, and the aligned allocations beyond their address.
* The hash function: the buckets of keys are any.
