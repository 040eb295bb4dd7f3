------------------------------ MODULE DmbProperty ------------------------------
(***************************************************************************)
(* The settings file: dmbLoadSettings of src/base/dmbsettings.c makes a    *)
(* property table (src/utils/dmbproperty.c), loads the file into it, looks *)
(* its settings up and destroys the table.  The table keeps its entries in *)
(* a list, which owns them, and in a dictionary, which finds them; keys    *)
(* and values are strings (src/core/dmbstring.c), each a block of memory.  *)
(* Every allocation may fail.  A file is a sequence of tokens: a word of   *)
(* any length is one.                                                      *)
(***************************************************************************)
EXTENDS Integers, Sequences, FiniteSets, DmbDict

CONSTANTS
  Key,               \* the keys that are looked up, all of them settings
  Line,              \* the lines in the files: records of a kind and a key
  LineValue              \* the value that each line gives, a sequence

NL == "nl"
SP == "sp"
EQ == "eq"
HASH == "hash"
Marks == {NL, SP, EQ}

(* A line that gives value v, if it gives one.                             *)
Tokens(line, v) ==
  CASE line.kind = "blank"   -> <<SP, NL>>
    [] line.kind = "comment" -> <<HASH, line.key, EQ, NL>>
    [] line.kind = "plain"   -> <<line.key, EQ, v, NL>>
    [] line.kind = "spaced"  -> <<SP, line.key, SP, EQ, SP, v, SP, HASH, SP, NL>>
    [] line.kind = "keyonly" -> <<line.key, SP, NL>>
    [] line.kind = "novalue" -> <<line.key, EQ, NL>>
    [] line.kind = "nokey"   -> <<EQ, v, NL>>

(* What a file is made of.                                                 *)
Token == Marks \cup {HASH} \cup Key \cup {LineValue[i] : i \in DOMAIN LineValue}
Entry == [k : Token, v : Token]

ASSUME PropertyAssumption ==
  /\ Buckets \in Nat \ {0}
  /\ \A line \in Line :
       /\ line.kind \in {"blank", "comment", "plain", "spaced", "keyonly", "novalue", "nokey"}
       /\ line.key \in Key
  /\ Len(LineValue) \in Nat /\ DOMAIN LineValue = 1 .. Len(LineValue)
  /\ NULL \notin Token \cup [count : Nat, entry : [0 .. Buckets - 1 -> Seq(Entry)]]

VARIABLES
  doc, whole,      \* the lines of the file, and whether the last one has its end
  file,            \* its tokens
  hash,            \* the bucket of the bytes of each key
  pc, cur,         \* what is done next, and where the parser is
  key, value,      \* the strings the parser holds, or NULL
  props, dict,     \* the table's list and dictionary
  live,            \* how many blocks of memory are allocated
  ret,             \* what dmbLoadSettings returns
  settings         \* the settings the file has changed

propVars == <<doc, whole, file, hash, pc, cur, key, value, props, dict, live, ret, settings>>

(* g_settings begins with the defaults.                                    *)
PropInit ==
  /\ \E n \in 0 .. Len(LineValue) : doc \in [1 .. n -> Line]
  /\ whole \in BOOLEAN
  /\ LET text == Seqs!FlattenSeq([i \in 1 .. Len(doc) |-> Tokens(doc[i], LineValue[i])])
     IN  file = IF whole \/ doc = <<>> THEN text ELSE Seqs!Front(text)
  /\ hash \in [Key -> 0 .. Buckets - 1]
  /\ pc = "create" /\ cur = 1 /\ key = NULL /\ value = NULL
  /\ props = <<>> /\ dict = NULL /\ live = 0
  /\ ret = "none" /\ settings = [k \in Key |-> "default"]

-----------------------------------------------------------------------------
(* The table, and the file's memory.                                       *)

Fail(code) == pc' = "failed" /\ ret' = code

(* The table and its dictionary are two blocks; the first is freed if      *)
(* there is no second one.                                                 *)
dmbPropertyCreate ==
  /\ pc = "create"
  /\ \/ Fail("ALLOC_FAILED") /\ UNCHANGED <<live, dict>>
     \/ pc' = "open" /\ live' = live + 2 /\ dict' = dmbDictCreate /\ UNCHANGED ret
  /\ UNCHANGED <<doc, whole, file, hash, cur, key, value, props, settings>>

(* The file may not open, be empty, find no memory or not be readable.     *)
dmbPropertyLoad ==
  /\ pc = "open"
  /\ \/ \E code \in {"FILE_OPEN_FAIL", "FILE_READ_ERROR", "ALLOC_FAILED"} : Fail(code)
        /\ UNCHANGED live
     \/ file # <<>> /\ pc' = "line" /\ live' = live + 1 /\ UNCHANGED ret
  /\ UNCHANGED <<doc, whole, file, hash, cur, key, value, props, dict, settings>>

(* However the parse ends, dmbPropertyLoad frees the buffer.               *)
EndParse(code) ==
  IF code = "OK" THEN pc' = "lookup" /\ UNCHANGED ret ELSE Fail(code)

(* The list owns the entry, the dictionary finds it.                       *)
dmbPropertyInsert(k, v) ==
  /\ props' = Append(props, [k |-> k, v |-> v])
  /\ \E b \in hashFunc(hash, k) : dict' = dmbDictPut(dict, b, [k |-> k, v |-> v])

-----------------------------------------------------------------------------
(* The parser.                                                             *)

AtEnd(p) == p > Len(file)

(* The first place from p on where none of the marks is.                   *)
trim(p, marks) ==
  LET from[q \in p .. Len(file) + 1] ==
        IF AtEnd(q) \/ file[q] \notin marks THEN q ELSE from[q + 1]
  IN  from[p]

LineEnd(p) ==
  LET from[q \in p .. Len(file) + 1] == IF AtEnd(q) \/ file[q] = NL THEN q ELSE from[q + 1]
  IN  from[p]

(* Fault: a string may end with the file.                                  *)
IsStringEof(p) == ~AtEnd(p) /\ file[p] \notin Marks

(* parseString finds a word with a mark behind it; # is none of the marks.  *)
IsString(p) == p < Len(file) /\ file[p] \notin Marks

(* Parse and parseAnnotation.  In a comment without an end the byte behind *)
(* the buffer is read too, and may be an end of line or not.               *)
ParseLine ==
  /\ pc = "line"
  /\ LET p == trim(cur, {SP, NL})
     IN  \/ AtEnd(p) /\ cur' = p /\ EndParse("OK") /\ live' = live - 1
         \/ /\ ~AtEnd(p) /\ file[p] = HASH
            /\ \/ cur' = LineEnd(p) /\ UNCHANGED <<pc, ret, live>>
               \/ AtEnd(LineEnd(p)) /\ EndParse("ERROR") /\ live' = live - 1 /\ UNCHANGED cur
         \/ ~AtEnd(p) /\ file[p] # HASH /\ cur' = p /\ pc' = "key" /\ UNCHANGED <<ret, live>>
  /\ UNCHANGED <<doc, whole, file, hash, key, value, props, dict, settings>>

(* parsePerperty, up to the key.                                           *)
ParseKey ==
  /\ pc = "key"
  /\ \/ /\ ~IsString(cur) /\ EndParse("ERROR") /\ live' = live - 1
        /\ UNCHANGED <<cur, key>>
     \/ /\ IsString(cur) /\ EndParse("ALLOC_FAILED") /\ live' = live - 1
        /\ UNCHANGED <<cur, key>>
     \/ /\ IsString(cur) /\ key' = file[cur] /\ live' = live + 1
        /\ cur' = trim(cur + 1, {SP}) /\ pc' = "value" /\ UNCHANGED ret
  /\ UNCHANGED <<doc, whole, file, hash, value, props, dict, settings>>

(* Fault: the key is forgotten when there is no value.                     *)
DropKeyKept == key' = NULL /\ live' = live - 1

(* The key and the buffer are freed.                                       *)
DropKey == key' = NULL /\ live' = live - 2

(* Between the key and the value any number of = and blanks may stand, an  *)
(* = first.                                                                *)
ParseValue ==
  /\ pc = "value"
  /\ LET p == trim(cur, {SP, EQ})
         found == ~AtEnd(cur) /\ file[cur] = EQ /\ IsString(p)
     IN  \/ ~found /\ EndParse("ERROR") /\ DropKey /\ UNCHANGED <<cur, value>>
         \/ found /\ EndParse("ALLOC_FAILED") /\ DropKey /\ UNCHANGED <<cur, value>>
         \/ /\ found /\ value' = file[p] /\ live' = live + 1
            /\ cur' = p + 1 /\ pc' = "insert" /\ UNCHANGED <<key, ret>>
  /\ UNCHANGED <<doc, whole, file, hash, props, dict, settings>>

(* With an entry the table owns both strings; without one they are freed.  *)
Insert ==
  /\ pc = "insert"
  /\ \/ /\ EndParse("ALLOC_FAILED") /\ live' = live - 3 /\ UNCHANGED <<props, dict>>
     \/ /\ dmbPropertyInsert(key, value) /\ live' = live + 1
        /\ pc' = "line" /\ UNCHANGED ret
  /\ key' = NULL /\ value' = NULL
  /\ UNCHANGED <<doc, whole, file, hash, cur, settings>>

-----------------------------------------------------------------------------
(* The settings, found by the bytes of their names.                        *)

dmbPropertyGetString(k) ==
  LET b == CHOOSE b \in dumpHashFunc(hash, k) : TRUE
      e == dmbDictGet(dict, b, k)
  IN  IF e = NULL THEN NULL ELSE e.v

(* PARSE_INT, PARSE_INTSTRING and PARSE_STRING read the value as a C       *)
(* string, which it is only if the byte behind its block is zero: if not,  *)
(* more of the memory is read with it.  Then a setting is wrong, or, if it *)
(* is a number and does not look like one any more, not set.               *)
Parsed(v) == IF v = NULL THEN {"default"} ELSE {v, "garbled", "default"}

(* All of dmbLoadSettings after the load, with dmbPropertyDestroy.  After  *)
(* a load that failed the table is not destroyed.                          *)
dmbLoadSettings ==
  /\ pc = "lookup"
  /\ settings' \in {s \in [Key -> UNION {Parsed(dmbPropertyGetString(k)) : k \in Key}] :
                      \A k \in Key : s[k] \in Parsed(dmbPropertyGetString(k))}
  /\ props' = <<>> /\ dict' = NULL
  /\ live' = live - 3 * Len(props) - 2
  /\ pc' = "done" /\ ret' = "OK"
  /\ UNCHANGED <<doc, whole, file, hash, cur, key, value>>

PropNext ==
  \/ dmbPropertyCreate \/ dmbPropertyLoad
  \/ ParseLine \/ ParseKey \/ ParseValue \/ Insert
  \/ dmbLoadSettings

PropSpec == PropInit /\ [][PropNext]_propVars

-----------------------------------------------------------------------------
(* Properties.                                                             *)

GivesValue(i) == doc[i].kind \in {"plain", "spaced"}
CutShort(i)   == i = Len(doc) /\ ~whole

(* A line is wrong without a key, = or value, or if the file ends with the *)
(* value.                                                                  *)
Wrong(i) ==
  \/ doc[i].kind \in {"keyonly", "novalue", "nokey"}
  \/ doc[i].kind = "plain" /\ CutShort(i)

(* The entries of a file: those of its lines before the first wrong one.   *)
Before == {i \in 1 .. Len(doc) : \A j \in 1 .. i : ~Wrong(j)}
Entries ==
  LET n == Cardinality(Before)
      entry(i) == IF GivesValue(i) THEN <<[k |-> doc[i].key, v |-> LineValue[i]]>> ELSE <<>>
  IN  Seqs!FlattenSeq([i \in 1 .. n |-> entry(i)])

(* The parser finds what was written, whatever blanks and comments stand   *)
(* around it: the table has, in the order of the file, the entries of the  *)
(* lines before the first wrong one; the load succeeds only if there is    *)
(* none, and an error is reported only if there is, or if the file ends    *)
(* within a comment.                                                       *)
ParseExact ==
  /\ pc # "done" => Seqs!IsPrefix(props, Entries)
  /\ pc = "lookup" => props = Entries /\ \A i \in 1 .. Len(doc) : ~Wrong(i)
  /\ ret = "ERROR" =>
       /\ props = Entries
       /\ \E i \in 1 .. Len(doc) :
            \/ Wrong(i)
            \/ CutShort(i) /\ doc[i].kind \in {"comment", "spaced"}

(* The dictionary holds the entries of the list, each once, and finds in   *)
(* any bucket the first entry with a key that was put there; once that is  *)
(* popped, the second.  An entry that its hash led astray is not found by  *)
(* name and is in nobody's way: a setting has its default, or what a line  *)
(* with its own name gives, never what another name's line does.           *)
First(k, entries) ==
  LET of == SelectSeq(entries, LAMBDA e : e.k = k) IN IF of = <<>> THEN NULL ELSE Head(of)

LookupExact ==
  /\ dict # NULL =>
       /\ dict.count = Len(props)
       /\ Seqs!ToSet(dmbDictNext(dict)) = Seqs!ToSet(props) /\ Len(dmbDictNext(dict)) = Len(props)
       /\ \A k \in Key, b \in 0 .. Buckets - 1 :
            LET there  == SelectSeq(props, LAMBDA e : Seqs!Contains(dict.entry[b], e))
                others == SelectSeq(there, LAMBDA e : e # First(k, there))
                popped == dmbDictPop(dict, b, k)
            IN  /\ dmbDictGet(dict, b, k) = First(k, there)
                /\ dmbDictGet(popped, b, k) = First(k, others)
                /\ popped.count = Len(props) - (Len(there) - Len(others))
  /\ pc = "done" =>
       \A k \in Key : \/ settings[k] = "default"
                      \/ \E i \in 1 .. Len(Entries) : /\ Entries[i].k = k
                                                      /\ settings[k] \in Parsed(Entries[i].v)

(* Every block of memory has an owner: the file's buffer while it is being *)
(* parsed, the strings the parser holds, the table with its dictionary and *)
(* three blocks for each entry.  After a failed load the table is all that *)
(* is left (it stays for good); after a good one, nothing.                 *)
BlocksOwned ==
  LET buffer == IF pc \in {"line", "key", "value", "insert"} THEN 1 ELSE 0
      held   == Cardinality({s \in {"key", "value"} : (IF s = "key" THEN key ELSE value) # NULL})
      table  == IF dict = NULL THEN 0 ELSE 2 + 3 * Len(props)
  IN  live = buffer + held + table

================================================================================
