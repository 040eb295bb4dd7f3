------------------------------- MODULE DmbString -------------------------------
(***************************************************************************)
(* The strings of src/core/dmbstring.c: a length, a capacity and that many *)
(* characters in one block.  A string belongs to one caller, who keeps the *)
(* pointer to the block: dmbStringAppend and dmbStringPrepend do not       *)
(* return another one, so a block that realloc has moved is lost to him.   *)
(* Positions are counted from 0, as in the code.                           *)
(***************************************************************************)
EXTENDS Integers, Sequences, DmbDefines

CONSTANTS
  Zero,                \* the character 0
  Piece,               \* the strings that are inserted and searched for
  upper, lower,        \* toupper and tolower, functions on the characters
  SizeMax,             \* no string is made longer (a bound of the model)
  Step, Small, Page,   \* 1 << 4, 1 << 8 and 1 << 12 of allocMore
  UINT_MAX,
  BoolSize             \* a dmbBOOL has 1 << 8 values

ASSUME StringAssumption ==
  /\ {SizeMax, Step, Small, Page, UINT_MAX, BoolSize} \subseteq Nat \ {0}
  /\ Small < UINT_MAX \div 2 /\ SizeMax < UINT_MAX \div 2

VARIABLES
  len, capacity, chars,   \* the string, at the pointer the caller has
  moved,                 \* realloc has freed the block the caller's pointer is to
  content                \* what the calls should have made of it (history)

strVars == <<len, capacity, chars, moved, content>>

(* memset, memcpy and memmove in a block.                                  *)
Zeros(n) == [i \in 1 .. n |-> Zero]
Copy(mem, to, from) ==
  [i \in 1 .. Len(mem) |-> IF i \in to + 1 .. to + Len(from) THEN from[i - to] ELSE mem[i]]
Move(mem, to, from, n) == Copy(mem, to, SubSeq(mem, from + 1, from + n))

(* dmbStringCreate, and dmbStringCreateWithBuffer with a piece: then there *)
(* is no room for a zero behind it.                                        *)
StrInit ==
  /\ content \in {<<>>} \cup Piece
  /\ chars \in IF content = <<>> THEN {Zeros(n) : n \in 0 .. Step} ELSE {content}
  /\ len = Len(content) /\ capacity = Len(chars) /\ moved = FALSE

-----------------------------------------------------------------------------
(* Changing a string.                                                      *)

(* How much is allocated for a size: up to Small the next multiple of Step *)
(* above it, then a power of two, which may be just the size.              *)
allocMore(size) ==
  LET doubled[n \in 1 .. UINT_MAX] == IF n >= size THEN n ELSE doubled[2 * n]
  IN  IF size < Small THEN Step + (size \div Step) * Step
      ELSE IF size >= UINT_MAX \div 2 THEN UINT_MAX
      ELSE doubled[IF size < Page THEN Step ELSE Page]

(* insert.  Without memory nothing happens; a block that is moved changes  *)
(* no string the caller has; one that grows in place is cleared at its end.*)
insert(at, piece) ==
  LET need  == len + Len(piece)
      size  == IF capacity < need THEN allocMore(need) ELSE capacity
      block == chars \o Zeros(size - capacity)
  IN  /\ ~moved /\ piece # <<>> /\ need <= SizeMax
      /\ \/ capacity < need /\ moved' \in BOOLEAN /\ UNCHANGED <<len, capacity, chars, content>>
         \/ /\ chars' = Copy(Move(block, at + Len(piece), at, len - at), at, piece)
            /\ len' = need /\ capacity' = size /\ UNCHANGED moved
            /\ content' = SubSeq(content, 1, at) \o piece \o SubSeq(content, at + 1, len)

(* Fault: the end of the string is not cleared.                            *)
dmbStringEraseDirty(at, n) ==
  /\ ~moved /\ at + n <= len
  /\ chars' = Move(chars, at, at + n, len - n - at)
  /\ len' = len - n
  /\ content' = SubSeq(content, 1, at) \o SubSeq(content, at + n + 1, len)
  /\ UNCHANGED <<capacity, moved>>

(* dmbStringErase, and dmbStringClear of everything.  The caller asks for  *)
(* no more than there is: the code does not look.                          *)
dmbStringErase(at, n) ==
  /\ ~moved /\ n > 0 /\ at + n <= len
  /\ chars' = Copy(Move(chars, at, at + n, len - n - at), len - n, Zeros(n))
  /\ len' = len - n
  /\ content' = SubSeq(content, 1, at) \o SubSeq(content, at + n + 1, len)
  /\ UNCHANGED <<capacity, moved>>

(* dmbStringUpper and dmbStringLower.                                      *)
ChangeCase(to) ==
  /\ ~moved
  /\ chars' = [i \in 1 .. capacity |-> IF i <= len THEN to[chars[i]] ELSE chars[i]]
  /\ content' = [i \in 1 .. len |-> to[content[i]]]
  /\ UNCHANGED <<len, capacity, moved>>

StrNext ==
  \/ \E piece \in Piece : insert(len, piece) \/ insert(0, piece)
  \/ \E at \in 0 .. len, n \in 1 .. len : dmbStringErase(at, n)
  \/ ChangeCase(upper) \/ ChangeCase(lower)

-----------------------------------------------------------------------------
(* Numbers.  The digits are made from the last on, two at a time from a    *)
(* table while the number is large, then one at a time, with a product and *)
(* a shift in place of the division.  -LONG_MIN would overflow.            *)

Tenth(n) == (n * 52429) \div 524288

Digits(number) ==
  LET reversed[n \in 0 .. number] ==
        IF n >= 65536
        THEN LET r == n - 100 * (n \div 100) IN <<r % 10, r \div 10>> \o reversed[n \div 100]
        ELSE <<n - 10 * Tenth(n)>> \o IF Tenth(n) = 0 THEN <<>> ELSE reversed[Tenth(n)]
      digits == reversed[number]
  IN  [i \in 1 .. Len(digits) |-> digits[Len(digits) + 1 - i]]

(* The text of a number, if it has room.                                   *)
dmbLong2Str(number, size) ==
  LET text == IF number < 0 THEN <<"-">> \o Digits(-number) ELSE Digits(number)
  IN  IF size < Len(text) THEN <<>> ELSE text

dmbGetDigit10(number) ==
  LET count[n \in 0 .. number] == IF n = 0 THEN 0 ELSE 1 + count[n \div 10]
  IN  IF number = 0 THEN 1 ELSE count[number]

dmbGetStrLenWithLong(number) ==
  IF number < 0 THEN dmbGetDigit10(-number) + 1 ELSE dmbGetDigit10(number)

-----------------------------------------------------------------------------
(* Looking.  strstr searches up to the first zero.                         *)

Matches(piece, from) ==
  {i \in from .. capacity - Len(piece) :
     /\ SubSeq(chars, i + 1, i + Len(piece)) = piece
     /\ \A j \in from + 1 .. i : chars[j] # Zero}

dmbStringIndexOf(piece) ==
  IF len = 0 \/ Matches(piece, 0) = {} THEN -1 ELSE Sets!Min(Matches(piece, 0))

(* The search goes on behind what was found, but not at the last character.*)
dmbStringLastIndexOf(piece) ==
  LET search[from \in 0 .. capacity, found \in -1 .. capacity] ==
        LET at == Sets!Min(Matches(piece, from))
        IN  IF Matches(piece, from) = {} THEN found
            ELSE IF at + Len(piece) < len - 1 THEN search[at + Len(piece), at] ELSE at
  IN  IF len = 0 THEN -1 ELSE search[0, -1]

(* Whether the result is 0.  As many bytes are compared as the string has, *)
(* of a shorter piece some that are not its own, and then the lengths,     *)
(* whose difference is returned as a dmbBOOL.                              *)
dmbStringCompare(piece, behind) ==
  /\ SubSeq(piece \o behind, 1, len) = SubSeq(chars, 1, len)
  /\ (len - Len(piece)) % BoolSize = 0

(* What is written of a number reads as that number and just fits in the   *)
(* room that was calculated for it before.                                 *)
NumbersExact(numbers) ==
  \A n \in numbers :
    LET text   == dmbLong2Str(n, dmbGetStrLenWithLong(n))
        digits == IF n < 0 THEN Tail(text) ELSE text
        read[i \in 0 .. Len(digits)] == IF i = 0 THEN 0 ELSE 10 * read[i - 1] + digits[i]
    IN  /\ n = IF n < 0 THEN -read[Len(digits)] ELSE read[Len(digits)]
        /\ Len(text) = dmbGetStrLenWithLong(n)

(* Until realloc first moves its block (from then on the caller's pointer  *)
(* is to memory that was freed, and nothing is claimed of it), a string's  *)
(* characters are those the calls should have left, behind them are only   *)
(* zeros (so that, if there is one, the C functions stop where the string  *)
(* does), it is found in its block, and it compares equal with those       *)
(* strings only that it is equal to, of all whose length differs from its  *)
(* own by less than BoolSize.  A search finds the first match, or the last *)
(* one: that of a single character may miss the very last, and that of a   *)
(* piece that overlaps itself the one that does.                           *)
StringExact ==
  LET At(piece) == {i \in 0 .. len - Len(piece) : SubSeq(content, i + 1, i + Len(piece)) = piece}
      Overlaps(piece) == \E n \in 1 .. Len(piece) - 1 :
                           SubSeq(piece, 1, n) = SubSeq(piece, Len(piece) - n + 1, Len(piece))
  IN  ~moved =>
        /\ len <= capacity /\ Len(chars) = capacity
        /\ chars = content \o Zeros(capacity - len)
        /\ \A piece \in Piece :
             /\ \A behind \in {Zeros(SizeMax)} \cup Piece :
                  len <= Len(piece \o behind) /\ len - Len(piece) \in 1 - BoolSize .. BoolSize - 1 =>
                    (dmbStringCompare(piece, behind) <=> content = piece)
             /\ len < capacity =>
                  LET first == dmbStringIndexOf(piece)
                      last  == dmbStringLastIndexOf(piece)
                  IN  IF At(piece) = {} THEN first = -1 /\ last = -1
                      ELSE /\ first = Sets!Min(At(piece)) /\ last \in At(piece)
                           /\ Len(piece) > 1 /\ ~Overlaps(piece) => last = Sets!Max(At(piece))

================================================================================
