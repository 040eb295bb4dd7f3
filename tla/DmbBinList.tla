------------------------------ MODULE DmbBinList ------------------------------
(***************************************************************************)
(* The binary list of src/core/dmbbinlist.c: entries one after the other   *)
(* in one block of memory, each with a head that says its type and length, *)
(* and after them an end code.  The system is that of the merge test: a    *)
(* writer packs strings and numbers into a list in a fixed buffer, in part *)
(* if need be; a full list is merged into one that grows with malloc, and  *)
(* cleared.  Offsets are counted from 0, as in the code; the three fields  *)
(* at the front of the block are fields of a record here.                  *)
(***************************************************************************)
EXTENDS Integers, Sequences, DmbDefines

CONSTANTS
  TINYSTR_LENMAX, NORMALSTR_LENMAX,
  Low,               \* the values of the bits of a head that DMB_BINCODE masks out
  Byte,              \* how many values a byte of a length has
  USHRT_MAX,         \* the largest number of entries
  FixSize,           \* the size of the fixed buffer
  Lengths,           \* of the strings that are written
  MaxItems           \* how many entries are written

HEAD_SIZE == 10
TAIL_SIZE == 1
ENDCODE   == 0

TINYSTR  == 0
STR      == 64
LARGESTR == 128
I16      == 192

ASSUME BinListAssumption ==
  /\ {TINYSTR_LENMAX, NORMALSTR_LENMAX, Low, Byte, USHRT_MAX, MaxItems} \subseteq Nat \ {0}
  /\ FixSize \in Nat /\ FixSize >= HEAD_SIZE + TAIL_SIZE
  /\ Lengths \subseteq Nat

VARIABLES
  fix, offset,    \* the list in the fixed buffer, and how much of the buffer is given out
  dst,            \* the list that grows, NULL when it is lost
  item,           \* what is left to write, or NULL; part: a piece of it is in a list
  cont,           \* the first entry of fix continues the last one of dst
  cleared,        \* FALSE between a merge and the clearing of fix
  code,           \* what the last call returned
  sent,           \* the data that was accepted (history)
  spoiled         \* a call has broken the chain of entries (history)

binVars == <<fix, offset, dst, item, cont, cleared, code, sent, spoiled>>

-----------------------------------------------------------------------------
(* Heads and lengths.                                                      *)

DMB_BINCODE(byte) == byte - (byte % Low)
IsStr(byte) == byte < 192

Write(mem, at, bytes) ==
  [i \in 1 .. Len(mem) |-> IF i \in at + 1 .. at + Len(bytes) THEN bytes[i - at] ELSE mem[i]]

(* The lengths of the entry without and with its head.  The code is taken  *)
(* from the upper four bits, but a length may use the lower six: an entry  *)
(* that does is of no known code.  I32 and I64 are like I16.               *)
dmbBinEntryLen(mem, at) ==
  LET byte(i) == mem[at + 1 + i]
      Sized(len, head) == [len |-> len, all |-> len + head]
  IN  CASE byte(0) = ENDCODE -> Sized(0, 0)
        [] DMB_BINCODE(byte(0)) = I16 -> Sized(2, 1)
        [] DMB_BINCODE(byte(0)) = TINYSTR -> Sized(byte(0) % 64, 1)
        [] DMB_BINCODE(byte(0)) = STR -> Sized(((byte(0) % 64) * Byte) + byte(1), 2)
        [] DMB_BINCODE(byte(0)) = LARGESTR ->
             Sized(((byte(1) * Byte + byte(2)) * Byte + byte(3)) * Byte + byte(4), 5)
        [] OTHER -> Sized(0, 0)

StrHead(c, n) ==
  CASE c = TINYSTR -> <<TINYSTR + n>>
    [] c = STR -> <<STR + (n \div Byte), n % Byte>>
    [] c = LARGESTR -> <<LARGESTR, (n \div (Byte * Byte * Byte)) % Byte,
                         (n \div (Byte * Byte)) % Byte, (n \div Byte) % Byte, n % Byte>>

CanSetLen(byte, n) ==
  \/ DMB_BINCODE(byte) = TINYSTR /\ n < TINYSTR_LENMAX
  \/ DMB_BINCODE(byte) = STR /\ n < NORMALSTR_LENMAX
  \/ DMB_BINCODE(byte) = LARGESTR

setStrLen(mem, at, n) == Write(mem, at, StrHead(DMB_BINCODE(mem[at + 1]), n))

dmbBinItemStr(data) ==
  [head |-> StrHead(IF Len(data) < TINYSTR_LENMAX THEN TINYSTR
                    ELSE IF Len(data) < NORMALSTR_LENMAX THEN STR ELSE LARGESTR, Len(data)),
   data |-> data, part |-> FALSE]

DMB_BINITEM_I16(data) == [head |-> <<I16>>, data |-> data, part |-> FALSE]

-----------------------------------------------------------------------------
(* The functions of the list, given what the allocator's realloc returned. *)

NewList(mem) == [size |-> HEAD_SIZE + TAIL_SIZE, last |-> HEAD_SIZE, len |-> 0,
                 mem |-> Write(mem, HEAD_SIZE, <<ENDCODE>>)]

Refused(l, it, c) == [list |-> l, item |-> it, code |-> c]

(* dmbBinlistPushBack from the realloc on; put bytes of the entry's data   *)
(* are inserted.  Of a string there may be fewer than it has, even none,   *)
(* and the item is left with the others.  setStrLen cannot fail here, both *)
(* parts being shorter than the whole.                                     *)
PushBackInto(l, it, got, bPart) ==
  LET new   == dmbBinEntryLen(it.head, 0)
      isStr == IsStr(it.head[1])
      room  == got.len - l.size
      put   == IF isStr THEN room - (new.all - new.len) ELSE new.len
      at    == l.last + dmbBinEntryLen(l.mem, l.last).all
      Sized(n) == IF isStr THEN setStrLen(it.head, 0, n) ELSE it.head
  IN  CASE got.code = "ALLOC_PART" /\ ~bPart -> Refused(l, it, "ALLOC_FAILED")
        [] got.code # "ALLOC_PART" \/ bPart ->
             IF room = 0 \/ room < (IF isStr THEN new.all - new.len ELSE new.all)
             THEN Refused(l, it, "NO_ENOUGH_SPACE")
             ELSE [list |-> [size |-> got.len, last |-> at, len |-> l.len + 1,
                             mem  |-> Write(Write(got.mem, at, Sized(put) \o SubSeq(it.data, 1, put)),
                                            got.len - TAIL_SIZE, <<ENDCODE>>)],
                   item |-> [head |-> Sized(new.len - put), part |-> TRUE,
                             data |-> SubSeq(it.data, put + 1, Len(it.data))],
                   code |-> IF put < new.len THEN "INSERT_PART" ELSE "OK"]

(* Fault: nobody looks at how many entries there are.                      *)
PushRefusalUnbounded(l, it) ==
  IF dmbBinEntryLen(it.head, 0).len = 0 THEN "ENTRY_IS_EMPTY" ELSE "OK"

(* Before it: the list is full, or the entry has no length.                *)
PushRefusal(l, it) ==
  IF l.len = USHRT_MAX THEN "ENTRY_OOR"
  ELSE IF dmbBinEntryLen(it.head, 0).len = 0 THEN "ENTRY_IS_EMPTY" ELSE "OK"

Joins(d, mergeLast) == mergeLast /\ dmbBinEntryLen(d.mem, d.last).len # 0

MergeRefusal(d, s, mergeLast) ==
  LET total == dmbBinEntryLen(d.mem, d.last).len + dmbBinEntryLen(s.mem, HEAD_SIZE).len
  IN  IF ~IsStr(d.mem[d.last + 1]) \/ ~IsStr(s.mem[HEAD_SIZE + 1]) THEN "MERGE_ERROR_TYPE"
      ELSE IF Joins(d, mergeLast) /\ ~CanSetLen(d.mem[d.last + 1], total)
      THEN "SET_STRLEN_FAILED" ELSE "OK"

(* Fault: the head of the joined entry is copied with it.                  *)
CopyFromFirst(d, s, mergeLast) == HEAD_SIZE

(* How much of the source is copied: all its entries, without the head of  *)
(* the first if that is joined to the last entry of the destination.       *)
CopyFrom(d, s, mergeLast) ==
  LET first == dmbBinEntryLen(s.mem, HEAD_SIZE)
  IN  HEAD_SIZE + IF Joins(d, mergeLast) THEN first.all - first.len ELSE 0

MergedSize(d, s, mergeLast) == d.size + s.size - TAIL_SIZE - CopyFrom(d, s, mergeLast)

(* The rest of dmbBinListMerge, mem being the reallocated block.           *)
dmbBinListMerge(d, s, mergeLast, mem) ==
  LET from == CopyFrom(d, s, mergeLast)
      copy == SubSeq(s.mem, from + 1, s.size - TAIL_SIZE)
      end  == dmbBinEntryLen(d.mem, d.last)
      join == Joins(d, mergeLast)
      head == IF join THEN setStrLen(mem, d.last, end.len + dmbBinEntryLen(s.mem, HEAD_SIZE).len)
              ELSE mem
  IN  [size |-> Len(mem),
       last |-> IF join /\ s.len <= 1 THEN d.last
                ELSE d.last + end.all + Len(copy) - (s.size - s.last - TAIL_SIZE),
       len  |-> (d.len + s.len - (IF join THEN 1 ELSE 0)) % (USHRT_MAX + 1),
       mem  |-> Write(Write(head, d.size - TAIL_SIZE, copy), Len(mem) - TAIL_SIZE, <<ENDCODE>>)]

-----------------------------------------------------------------------------
(* The allocators.                                                         *)

(* Fault: the buffer is taken for one byte shorter than it is.             *)
FixLeftShort == IF offset < FixSize THEN FixSize - offset - 1 ELSE 0

FixLeft == FixSize - offset

(* The list grows by no more than the buffer has left; all that was given  *)
(* counts as used, whether or not the caller then uses it.                 *)
fixmem_realloc(size) ==
  LET need == size - fix.size
  IN  [len  |-> IF need > FixLeft THEN fix.size + FixLeft ELSE size,
       mem  |-> fix.mem,
       code |-> IF need > FixLeft THEN "ALLOC_PART" ELSE "OK"]

(* New memory has any content.  The test for sizes above UINT_MAX is made  *)
(* in 32 bits and never refuses.                                           *)
default_realloc(size) ==
  [len  |-> size, code |-> "OK",
   mem  |-> [i \in 1 .. size |-> IF i <= Len(dst.mem) THEN dst.mem[i] ELSE 255]]

(* dmbBinlistCreate on both; the buffer is zeroed by its owner.            *)
BinInit ==
  /\ fix = NewList([i \in 1 .. FixSize |-> 0]) /\ offset = HEAD_SIZE + TAIL_SIZE
  /\ dst = NewList([i \in 1 .. HEAD_SIZE + TAIL_SIZE |-> 255])
  /\ item = NULL /\ cont = FALSE /\ cleared = TRUE
  /\ code = "OK" /\ sent = <<>> /\ spoiled = FALSE

-----------------------------------------------------------------------------
(* The writer.                                                             *)

Ready == cleared /\ dst # NULL /\ ~spoiled

(* The next entry: a string of length n, or a number.                      *)
NextItem(n) ==
  /\ Ready /\ item = NULL /\ Len(sent) < MaxItems
  /\ LET data(len) == [i \in 1 .. len |-> Len(sent) + 1]
     IN  \/ item' = dmbBinItemStr(data(n)) /\ sent' = Append(sent, data(n))
         \/ item' = DMB_BINITEM_I16(data(2)) /\ sent' = Append(sent, data(2))
  /\ UNCHANGED <<fix, offset, dst, cont, cleared, code, spoiled>>

(* What the caller does with the result of a push: an item that is in is   *)
(* done with; one that cannot be pushed at all is given up.                *)
Settle(result) ==
  /\ code' = result.code
  /\ item' = IF result.code \in {"OK", "ENTRY_IS_EMPTY"} THEN NULL ELSE result.item
  /\ sent' = IF result.code = "ENTRY_IS_EMPTY" THEN Seqs!Front(sent) ELSE sent
  /\ UNCHANGED <<cont, cleared>>

(* An empty piece of a short string has the end code for its head.         *)
IsHole(l) == l.mem[l.last + 1] = ENDCODE

(* The rest of a string that was cut waits until the list has been merged. *)
PushBackFix(bPart) ==
  /\ Ready /\ item # NULL /\ (item.part => fix.len = 0)
  /\ LET refusal == PushRefusal(fix, item)
         got == fixmem_realloc(fix.size + dmbBinEntryLen(item.head, 0).all)
         result == PushBackInto(fix, item, got, bPart)
     IN  IF refusal # "OK"
         THEN Settle(Refused(fix, item, refusal)) /\ UNCHANGED <<fix, offset, spoiled>>
         ELSE /\ Settle(result)
              /\ fix' = result.list /\ offset' = got.len
              /\ spoiled' = (result.code = "INSERT_PART" /\ IsHole(fix'))
  /\ UNCHANGED dst

(* The other list takes an entry too, when the fixed one is empty.  If     *)
(* there is no memory default_realloc has set the caller's pointer to      *)
(* NULL: the list is lost, and its block never freed.                      *)
PushBackDst ==
  /\ Ready /\ item # NULL /\ ~item.part /\ fix.len = 0
  /\ LET refusal == PushRefusal(dst, item)
         got == default_realloc(dst.size + dmbBinEntryLen(item.head, 0).all)
         result == PushBackInto(dst, item, got, FALSE)
     IN  IF refusal # "OK"
         THEN Settle(Refused(dst, item, refusal)) /\ UNCHANGED dst
         ELSE \/ Settle(result) /\ dst' = result.list
              \/ Settle(Refused(dst, item, "ALLOC_FAILED")) /\ dst' = NULL
  /\ UNCHANGED <<fix, offset, spoiled>>

(* A merge, after an entry was cut, or when the writer wants it.  The list *)
(* that grows may be lost here, too.                                       *)
Merge ==
  /\ Ready /\ fix.len > 0
  /\ LET refusal == MergeRefusal(dst, fix, cont)
         got == default_realloc(MergedSize(dst, fix, cont))
     IN  \/ refusal # "OK" /\ code' = refusal /\ UNCHANGED <<dst, cleared>>
         \/ /\ refusal = "OK" /\ code' = "OK" /\ cleared' = FALSE
            /\ dst' = dmbBinListMerge(dst, fix, cont, got.mem)
         \/ refusal = "OK" /\ code' = "ALLOC_FAILED" /\ dst' = NULL /\ UNCHANGED cleared
  /\ UNCHANGED <<fix, offset, item, cont, sent, spoiled>>

(* Then the fixed list is cleared, or destroyed and created again.  The    *)
(* caller knows whether the next entry continues the last one.             *)
dmbBinlistClear ==
  /\ ~cleared
  /\ fix' = NewList(fix.mem) /\ offset' = HEAD_SIZE + TAIL_SIZE
  /\ cleared' = TRUE /\ code' = "OK"
  /\ cont' = (item # NULL /\ item.part)
  /\ UNCHANGED <<dst, item, sent, spoiled>>

(* The entries of a list, as dmbBinlistFirst and dmbBinlistNext find them: *)
(* their offsets.                                                          *)
Walk(l) ==
  LET from[at \in HEAD_SIZE .. Len(l.mem)] ==
        LET all == dmbBinEntryLen(l.mem, at).all
        IN  IF l.mem[at + 1] = ENDCODE THEN <<>>
            ELSE IF all = 0 \/ at + all >= Len(l.mem) THEN <<at>>
            ELSE <<at>> \o from[at + all]
  IN  from[HEAD_SIZE]

(* dmbBinEntryGet on each.                                                 *)
Contents(l) ==
  LET walk == Walk(l)
  IN  [i \in 1 .. Len(walk) |->
         LET entry == dmbBinEntryLen(l.mem, walk[i])
         IN  SubSeq(l.mem, walk[i] + entry.all - entry.len + 1, walk[i] + entry.all)]

(* The data of an entry of dst is to be added to an entry of fix.  It is   *)
(* not given its own new length but that of the whole list, and what comes *)
(* after it is written over: no entry can be found after that.             *)
dmbBinEntryMerge(bPart) ==
  /\ Ready /\ item = NULL
  /\ \E dest \in Seqs!ToSet(Walk(fix)), src \in Seqs!ToSet(Walk(dst)) :
       LET add  == dmbBinEntryLen(dst.mem, src)
           got  == fixmem_realloc(fix.size + add.len)
           room == got.len - fix.size
           end  == dest + dmbBinEntryLen(fix.mem, dest).all
           data == SubSeq(dst.mem, src + add.all - add.len + 1, src + add.all - add.len + room)
           asked == IsStr(dst.mem[src + 1]) /\ add.len # 0
           set  == asked /\ (got.code = "OK" \/ bPart) /\ room # 0
                   /\ CanSetLen(fix.mem[dest + 1], got.len)
       IN  /\ offset' = IF asked THEN got.len ELSE offset
           /\ spoiled' = set
           /\ code' = IF ~IsStr(dst.mem[src + 1]) THEN "MERGE_ERROR_TYPE"
                      ELSE IF add.len = 0 THEN "ENTRY_IS_EMPTY"
                      ELSE IF got.code # "OK" /\ ~bPart THEN "ALLOC_FAILED"
                      ELSE IF room = 0 THEN "NO_ENOUGH_SPACE"
                      ELSE IF ~set THEN "SET_STRLEN_FAILED" ELSE got.code
           /\ fix' = IF ~set THEN fix
                     ELSE [size |-> got.len, len |-> fix.len,
                           last |-> IF dest = fix.last THEN fix.last ELSE fix.last + room,
                           mem  |-> Write(Write(setStrLen(fix.mem, dest, got.len), end, data),
                                          got.len - TAIL_SIZE, <<ENDCODE>>)]
  /\ UNCHANGED <<dst, item, cont, cleared, sent>>

BinNext ==
  \/ \E n \in Lengths : NextItem(n)
  \/ \E bPart \in BOOLEAN : PushBackFix(bPart) \/ dmbBinEntryMerge(bPart)
  \/ PushBackDst
  \/ Merge
  \/ dmbBinlistClear

-----------------------------------------------------------------------------
(* Properties.                                                             *)

(* Both lists can be read: from the first entry on, each is found at the   *)
(* end of the one before, the number of entries is the one in the header   *)
(* (modulo what sixteen bits can count), the header's last entry is the    *)
(* last, and behind it is the end code.  Until a call has broken the       *)
(* chain: a merge into an entry, or a piece of a short string that has no  *)
(* content.                                                                *)
WalkExact ==
  \A l \in {fix, dst} \ {NULL} :
    ~spoiled => LET walk == Walk(l)
                    end  == l.last + dmbBinEntryLen(l.mem, l.last).all
                IN  /\ Len(walk) % (USHRT_MAX + 1) = l.len
                    /\ l.last = IF walk = <<>> THEN HEAD_SIZE ELSE Seqs!Last(walk)
                    /\ end = l.size - TAIL_SIZE /\ l.mem[end + 1] = ENDCODE

(* The head of a string that is to be written tells its length.  The       *)
(* exception is no small one: of the tiny strings (63 bytes at most, says  *)
(* dmbbinlist.h:28) those from 16 bytes on, and of the normal ones those   *)
(* from 4096 bytes on, have a head of no known code.                       *)
LengthTold ==
  LET n == Len(item.data)
      unknown == /\ IsStr(item.head[1]) /\ ~item.part
                 /\ \/ n \in Low .. TINYSTR_LENMAX - 1
                    \/ n \in TINYSTR_LENMAX .. NORMALSTR_LENMAX - 1 /\ n >= Low * Byte
  IN  item # NULL => dmbBinEntryLen(item.head, 0).len = IF unknown THEN 0 ELSE n

Glue(a, b, joined) ==
  IF joined /\ a # <<>> /\ b # <<>> THEN Seqs!Front(a) \o <<Seqs!Last(a) \o Head(b)>> \o Tail(b)
  ELSE a \o b

(* What the writer packs arrives.  A string is refused as empty only if it *)
(* is, or if its head does not tell its length.  Of the entries that were  *)
(* not refused nothing is lost, repeated or moved: those of the grown      *)
(* list, those still in the fixed one and what is left of the item are,    *)
(* put together, what was written, entry by entry; only entries without    *)
(* content may lie between.  If there is no memory for the grown list it   *)
(* is lost, and with it all that it held: this is told by the last call,   *)
(* and the rest of what was written is where it was.  Nothing is claimed   *)
(* after a call has broken the chain of entries (spoiled).                 *)
TransferExact ==
  LET held == IF cleared THEN Contents(fix) ELSE <<>>
      left == IF item = NULL THEN <<>> ELSE <<item.data>>
      All(grown) == Glue(Glue(grown, held, cont), left, item # NULL /\ item.part)
  IN  /\ LengthTold
      /\ ~spoiled /\ dst # NULL => SelectSeq(All(Contents(dst)), LAMBDA data : data # <<>>) = sent
      /\ dst = NULL => /\ code = "ALLOC_FAILED"
                       /\ Seqs!IsSuffix(Seqs!FlattenSeq(All(<<>>)), Seqs!FlattenSeq(sent))

PushRefused ==
  /\ item # NULL /\ UNCHANGED <<fix, dst, sent>>
  /\ code' \in {"NO_ENOUGH_SPACE", "ALLOC_FAILED"}

(* A push is told there is no room only if the entry does not fit or the   *)
(* buffer's mark is not at the end of the list; and the mark only goes     *)
(* astray when a call is refused after its realloc (the buffer then looks  *)
(* fuller than it is), never with a call that succeeds.                    *)
RefusalExact ==
  [][ /\ PushRefused =>
           \/ fix.size + dmbBinEntryLen(item.head, 0).all > FixSize
           \/ offset # fix.size
      /\ offset = fix.size /\ offset' # fix'.size =>
           code' \in {"NO_ENOUGH_SPACE", "ALLOC_FAILED", "SET_STRLEN_FAILED"}
      /\ fix' # fix => offset' = fix'.size ]_binVars

================================================================================
