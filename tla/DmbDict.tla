-------------------------------- MODULE DmbDict --------------------------------
(***************************************************************************)
(* The dictionaries of src/core/dmbdict.c with string keys, as operators   *)
(* on a record: the number of entries and, for each bucket, the chain of   *)
(* its entries.  An entry is a record with a key k; the same key may be    *)
(* put more than once.  Where the code compares beyond the end of a        *)
(* shorter key the lengths then differ, so keys are just equal or not.     *)
(***************************************************************************)
EXTENDS Integers, Sequences, DmbDefines

CONSTANT
  Buckets          \* how many buckets a dictionary has

dmbDictCreate == [count |-> 0, entry |-> [b \in 0 .. Buckets - 1 |-> <<>>]]

(* The bucket of a key.  dumpHashFunc hashes as many bytes as it is told   *)
(* to.  hashFunc asks the key itself, which writes its length in one half  *)
(* of a dmbSIZE only: what is in the other half is not initialised, and if *)
(* it is not zero more than the key is hashed.                             *)
dumpHashFunc(hash, key) == {hash[key]}
hashFunc(hash, key)     == 0 .. Buckets - 1

(* Fault: an entry is put in front of its chain.                           *)
dmbDictPutFront(d, b, e) == [d EXCEPT !.count = @ + 1, !.entry[b] = <<e>> \o @]

(* At the end of the chain, whether or not the key is there already.       *)
dmbDictPut(d, b, e) ==
  [count |-> d.count + 1, entry |-> [d.entry EXCEPT ![b] = Append(@, e)]]

(* Where the loop over a chain finds the key, or 0.                        *)
Position(chain, key) ==
  LET at == {i \in 1 .. Len(chain) : chain[i].k = key}
  IN  IF at = {} THEN 0 ELSE Sets!Min(at)

(* dmbDictGet and dmbDictGetByData, in the bucket of a key object or of    *)
(* the bytes of one.                                                       *)
dmbDictGet(d, b, key) ==
  LET i == Position(d.entry[b], key) IN IF i = 0 THEN NULL ELSE d.entry[b][i]

dmbDictPop(d, b, key) ==
  LET i == Position(d.entry[b], key)
  IN  IF i = 0 THEN d ELSE [d EXCEPT !.count = @ - 1, !.entry[b] = Seqs!RemoveAt(@, i)]

(* What an iterator visits: bucket after bucket, each chain to its end.    *)
dmbDictNext(d) ==
  LET from[b \in 0 .. Buckets] == IF b = Buckets THEN <<>> ELSE d.entry[b] \o from[b + 1]
  IN  from[0]

================================================================================
