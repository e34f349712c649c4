------------------------------- MODULE PlcLibs -------------------------------
(* The recompiled libraries of the PLC: the binaries it loads, the          *)
(* interpreter's stack and the leaves that read and write values as text.   *)
EXTENDS Integers, Sequences, SequencesExt

------------------------------------------------------------------------------
(* The parser of PLC binary modules (libplcbin): one handle on a file, a   *)
(* reader that hands the code section out in chunks, and two readers of    *)
(* the token table.  They all share the position of one FILE.  A byte of   *)
(* the file is represented by its offset, an integer of the file by its    *)
(* value; the byte order is left to Swap_d.                        *)

CONSTANTS
    PbFiles,       \* the files PLCBin_Open may be given
    PbSizes,       \* the sizes a caller of PLCBin_ReadBinCode asks for
    Closed,        \* no file
    Word,          \* 2^32 of the code
    MaxPbCalls     \* bound on the calls made on a handle

ASSUME BinaryAssumption ==
    /\ PbSizes \subseteq Nat
    /\ \A f \in PbFiles : f.length \in Nat /\ f.codeOff \in Nat /\ f.codeSize \in Nat

VARIABLES
    pbFile,        \* the file the handle is on, or Closed
    pbErr,         \* what PLCBin_Open put in *err
    version, binOff, binSize, binPos,
    at,            \* the position of the FILE
    codeRead,      \* the bytes handed out since the reader was at its start
    moved,         \* another reader has moved the FILE since then
    info,          \* the last table read, and how
    pbCalls        \* the calls made on the handle

hvars == <<version, binOff, binSize, binPos>>
pbvars == <<pbFile, pbErr, hvars, at, codeRead, moved, info, pbCalls>>

\* The 40 bytes of MAGIC_V2 and MAGIC_V1, by the version they announce.
Versions == {100, 200}

\* fread and getlong: whether n bytes are there to be read at offset o.
Has(file, o, n) == o + n <= file.length

\* Mutant of InfoWord: the remanent ranges start one word too early.
InfoWordEarly(sel) ==
    IF sel \in 19 .. 23 THEN sel + 1 ELSE IF sel \in 1 .. 9 THEN sel + 11 ELSE sel

\* The words of TokenList in the order of the selectors 0 .. 28: the index of
\* the info word that apply_info stores the value in.
InfoWord(sel) ==
    IF sel = 0 THEN 0
    ELSE IF sel \in 1 .. 9 THEN sel + 11
    ELSE IF sel \in 10 .. 18 THEN sel - 7
    ELSE IF sel \in 19 .. 23 THEN sel + 2
    ELSE CASE sel = 24 -> 2 [] sel = 25 -> 27 [] sel = 26 -> 26
           [] sel = 27 -> 28 [] sel = 28 -> 29

TokenList == 0 .. 28

\* SPLCTokenList, and the word of each token; 16 is listed and not applied.
SPLCTokenList == {0, 24, 1, 4, 5, 6, 8, 10, 13, 14, 15, 16, 17, 33, 34, 35, 36}

SPLCWord(sel) ==
    CASE sel = 0 -> 0 [] sel = 1 -> 12
      [] sel \in 4 .. 6 -> sel + 9 [] sel = 8 -> 16
      [] sel = 10 -> 3 [] sel \in 13 .. 15 -> sel - 9 [] sel = 17 -> 7
      [] sel = 24 -> 2 [] sel \in 33 .. 36 -> sel - 16 [] OTHER -> -1

apply_info(p, t) == [p EXCEPT ![InfoWord(t.sel)] = t.val]

apply_splc(p, t) ==
    IF SPLCWord(t.sel) = -1 THEN p
    ELSE [p EXCEPT ![SPLCWord(t.sel)] = IF t.sel = 1 THEN t.val \div 4 ELSE t.val]

----------------------------------------------------------------------------

\* ReadBinCodeInfo: the offset and the size of the code, once; it leaves the
\* FILE after them.  With the header missing the handle keeps its zeros.
InfoKnown == binOff # 0 \/ Has(pbFile, 40, 8)

Off == IF binOff = 0 THEN pbFile.codeOff ELSE binOff
Size == IF binOff = 0 THEN pbFile.codeSize ELSE binSize

\* The records the walk of the token table visits: pos = 0, 22, .. < tbl_len.
Records(file) == SubSeq(file.records, 1, (file.tblLen + 21) \div 22)

\* A record that ends the walk with -3: it is not there or its word is not 0.
Broken(file) ==
    \/ Len(Records(file)) < (file.tblLen + 21) \div 22
    \/ \E i \in DOMAIN Records(file) : Records(file)[i].zero # 0

\* parse_tokens over a whole table: the applied records from left to right.
ParseTokens(file, words, toks, Apply(_, _)) ==
    FoldLeft(LAMBDA p, t : IF t.sel \in toks THEN Apply(p, t) ELSE p,
             [i \in 0 .. words - 1 |-> IF i = 1 THEN Size ELSE 0],
             Records(file))

\* The last lines of PLCBin_ReadSPLCInfo, in words of 32 bits.
Derived(p) ==
    LET u == (p[3] + p[12] * 4 - p[20] * 4) % Word
        v == (p[13] + p[4] - p[19]) % Word
    IN  [p EXCEPT ![11] = u, ![9] = (u - p[18] * 4) % Word,
                  ![10] = v, ![8] = (v - p[17]) % Word]

----------------------------------------------------------------------------

PbOpen(file) ==
    /\ pbFile = Closed
    /\ LET ok == file.exists /\ Has(file, 0, 40) /\ file.magic \in Versions IN
       /\ pbFile' = IF ok THEN file ELSE Closed
       /\ pbErr' = IF ~file.exists THEN 2 ELSE IF ok THEN pbErr ELSE 3
       /\ version' = IF ok THEN file.magic ELSE 0
       /\ at' = IF ok THEN 40 ELSE 0
    /\ binOff' = 0 /\ binSize' = 0 /\ binPos' = 0
    /\ codeRead' = <<>>
    /\ moved' = FALSE
    /\ info' = [rc |-> 0, splc |-> FALSE, p |-> <<>>]
    /\ pbCalls' = 0

PbClose ==
    /\ pbFile # Closed
    /\ pbFile' = Closed
    /\ UNCHANGED <<pbErr, hvars, at, codeRead, moved, info, pbCalls>>

\* PLCBin_ReadBinCode: the FILE is put at the code only before the first chunk.
ReadBinCode(n) ==
    /\ pbFile # Closed
    /\ pbCalls < MaxPbCalls
    /\ pbCalls' = pbCalls + 1
    /\ InfoKnown
    /\ LET left == Size - binPos
           want == IF n < left THEN n ELSE left
           from == IF binPos = 0 THEN Off ELSE at
           got == IF Has(pbFile, from, want) THEN want
                  ELSE IF from < pbFile.length THEN pbFile.length - from ELSE 0
       IN  IF want # 0
           THEN /\ binOff' = Off /\ binSize' = Size
                /\ binPos' = binPos + want
                /\ at' = from + got
                /\ codeRead' = (IF binPos = 0 THEN <<>> ELSE codeRead)
                             \o [i \in 1 .. got |-> from + i - 1]
                /\ moved' = (binPos # 0 /\ moved)
           ELSE /\ binOff' = 0 /\ binSize' = 0 /\ binPos' = 0
                /\ at' = from
                /\ UNCHANGED <<codeRead, moved>>
    /\ UNCHANGED <<pbFile, pbErr, version, info>>

\* PLCBin_ReadInfo and PLCBin_ReadSPLCInfo: wherever the walk of the table
\* ends, it has left the FILE there.
ReadTable(splc, p, rc, end) ==
    /\ pbFile # Closed
    /\ pbCalls < MaxPbCalls
    /\ pbCalls' = pbCalls + 1
    /\ binOff' = IF InfoKnown THEN Off ELSE 0
    /\ binSize' = IF InfoKnown THEN Size ELSE 0
    /\ info' = [rc |-> rc, splc |-> splc, p |-> p]
    /\ at' = end
    /\ moved' = TRUE
    /\ UNCHANGED <<pbFile, pbErr, version, binPos, codeRead>>

TableRc ==
    IF ~InfoKnown THEN -2
    ELSE IF ~Has(pbFile, 72, 8) \/ Broken(pbFile) THEN -3 ELSE 0

TableEnd ==
    IF TableRc = 0 THEN pbFile.tblOff + 22 * Len(Records(pbFile))
    ELSE pbFile.length

ReadInfo ==
    /\ pbFile # Closed
    /\ ReadTable(FALSE,
          IF TableRc = 0 THEN ParseTokens(pbFile, 30, TokenList, apply_info)
          ELSE <<>>, TableRc, TableEnd)

ReadSPLCInfo ==
    /\ pbFile # Closed
    /\ ReadTable(TRUE,
          IF TableRc = 0
          THEN Derived(ParseTokens(pbFile, 21, SPLCTokenList, apply_splc))
          ELSE <<>>, TableRc, TableEnd)

PbInit ==
    /\ pbFile = Closed
    /\ pbErr = 0
    /\ version = 0 /\ binOff = 0 /\ binSize = 0 /\ binPos = 0
    /\ at = 0
    /\ codeRead = <<>>
    /\ moved = FALSE
    /\ info = [rc |-> 0, splc |-> FALSE, p |-> <<>>]
    /\ pbCalls = 0

PbStep ==
    \/ \E file \in PbFiles : PbOpen(file)
    \/ PbClose
    \/ \E n \in PbSizes : ReadBinCode(n)
    \/ ReadInfo
    \/ ReadSPLCInfo

PbSpec == PbInit /\ [][PbStep]_pbvars

----------------------------------------------------------------------------

(* The chunks put together are the code section from its first byte on, as *)
(* long as nothing else moved the FILE between two chunks, whatever sizes  *)
(* the caller asks for and however often it reads the section again.  The  *)
(* reader seeks before the first chunk only: it is the callers that may    *)
(* not read a table in the middle.                                         *)
CodeExact ==
    pbFile # Closed /\ ~moved =>
       /\ \A i \in DOMAIN codeRead : codeRead[i] = pbFile.codeOff + i - 1
       /\ Len(codeRead) <= pbFile.codeSize

(* A table that was read holds, for every token of the file, the value of  *)
(* its last record in the word of that token and of no other, and the size *)
(* of the code in word 1.                                                  *)
InfoExact ==
    pbFile # Closed /\ info.rc = 0 /\ info.p # <<>> /\ ~info.splc =>
       /\ info.p[1] = pbFile.codeSize
       /\ \A i \in DOMAIN pbFile.records :
             LET t == pbFile.records[i] IN
             (/\ t.sel \in TokenList
              /\ 22 * (i - 1) < pbFile.tblLen
              /\ \A j \in DOMAIN pbFile.records :
                    j > i => pbFile.records[j].sel # t.sel)
             => info.p[InfoWord(t.sel)] = t.val
       /\ \A s1, s2 \in TokenList :
             InfoWord(s1) = InfoWord(s2) => s1 = s2

------------------------------------------------------------------------------
(* The fixed stack of plccond, in the buffer of its caller, against the    *)
(* sequence it stands for.                                                 *)

CONSTANTS
    StackSize,     \* 512 of the code: the first top that takes no push
    Values         \* what is pushed

ASSUME StackAssumption == StackSize \in Nat

VARIABLES
    top,           \* the index of the last value, -1 when the stack is empty
    data,          \* the values, as long as the buffer
    pushed,        \* the sequence the stack stands for
    popped         \* what the last pop returned, and what it should have

stkvars == <<top, data, pushed, popped>>

IsStackEmpty == top < 0

PeekStack == IF top < 0 THEN 1 ELSE data[top]

\* Mutant of PushStack: the value is stored where the top was.
PushStackLate(v) ==
    /\ top < StackSize
    /\ top' = top + 1
    /\ data' = [data EXCEPT ![IF top < 0 THEN 0 ELSE top] = v]
    /\ pushed' = Append(pushed, v)
    /\ UNCHANGED popped

\* A push at the limit is refused and leaves everything as it was.
PushStack(v) ==
    /\ top < StackSize
    /\ top' = top + 1
    /\ data' = [data EXCEPT ![top + 1] = v]
    /\ pushed' = Append(pushed, v)
    /\ UNCHANGED popped

PopStack ==
    /\ popped' = IF top < 0 THEN <<0, 0>> ELSE <<data[top], pushed[Len(pushed)]>>
    /\ top' = IF top < 0 THEN top ELSE top - 1
    /\ pushed' = IF top < 0 THEN pushed ELSE SubSeq(pushed, 1, Len(pushed) - 1)
    /\ UNCHANGED data

StkInit ==
    /\ top = -1
    /\ data = [i \in 0 .. StackSize |-> 0]
    /\ pushed = <<>>
    /\ popped = <<0, 0>>

StkStep == (\E v \in Values : PushStack(v)) \/ PopStack

StkSpec == StkInit /\ [][StkStep]_stkvars

----------------------------------------------------------------------------

(* A value that was pushed comes back once, last in first out, up to the   *)
(* one more than StackSize values the buffer takes, and an empty stack is  *)
(* told from one with a value.                                             *)
StackIsLifo ==
    /\ popped[1] = popped[2]
    /\ IsStackEmpty <=> pushed = <<>>
    /\ Len(pushed) <= StackSize + 1
    /\ pushed # <<>> => PeekStack = pushed[Len(pushed)]

------------------------------------------------------------------------------
(* The text and number leaves of the PLC libraries (plccond, plcmap,       *)
(* cfxutil, file, spurgen) against what they are for, on bounded inputs.   *)
(* A string is the sequence of its bytes before the NUL; integers have the *)
(* width given.                                                            *)

CONSTANTS
    Texts,         \* the arguments tried: a string s, a character c of
                   \* 0 .. 255 and an integer v of -HalfWord .. HalfWord - 1
    HalfWord,      \* 2^31 of the code
    Base,          \* 2^8 of the code: one byte of a word of four
    Ticks          \* the bits tried of a bit field, from 0 on

VARIABLE text      \* the arguments the leaves are tried on

----------------------------------------------------------------------------
\* plccond: characters and operands.

toupper_ASCII(c) == IF (c + 159) % 256 < 26 THEN c - 32 ELSE c
tolower_ASCII(c) == IF (c + 191) % 256 < 26 THEN c + 32 ELSE c
IsPathSep(c) == c \in {92, 47}

\* The scan stops at the NUL or at the first character that is not '0'.
isNull(s) == \A i \in DOMAIN s : s[i] = 48

\* plcmap: byte orders, 64-bit comparison, the width of a number.
Swap_d(v) ==
    v \div Base ^ 3 + ((v \div Base ^ 2) % Base) * Base
        + ((v \div Base) % Base) * Base ^ 2 + (v % Base) * Base ^ 3

Swap_w(v) == (v % Base) * Base + v \div Base

UQuadCompare(ah, al, bh, bl) ==
    IF ah # bh THEN (IF ah > bh THEN 1 ELSE -1)
    ELSE IF al # bl THEN (IF al > bl THEN 1 ELSE -1)
    ELSE 0

\* The digits counted by the loop: one more for every division by ten that
\* starts above 9; the least integer, whose magnitude is negative, has one.
NumberOfCharacters(v) ==
    LET a == IF v < 0 THEN -v ELSE v
        digits[n \in Nat] == IF n > 9 THEN 1 + digits[n \div 10] ELSE 1
    IN  (IF a = HalfWord THEN 1 ELSE digits[a]) + (IF v < 0 THEN 1 ELSE 0)

\* cfxutil: '%' (37) may come first; then only '0' (48) and '1' (49).
Unprefixed(s) == IF s # <<>> /\ s[1] = 37 THEN Tail(s) ELSE s

IsBinNumber(s) ==
    /\ Unprefixed(s) # <<>>
    /\ \A i \in DOMAIN Unprefixed(s) : Unprefixed(s)[i] \in {48, 49}

\* Spaces (32) are passed over; any other character ends the number.
BinAtol(s) ==
    LET u == Unprefixed(s)
        ends == {i \in DOMAIN u : u[i] \notin {32, 48, 49}}
        n == IF ends = {} THEN Len(u) ELSE Min(ends) - 1
    IN  FoldLeft(LAMBDA c, b : IF b = 32 THEN c ELSE (c * 2 + b - 48) % (2 * HalfWord),
                 0, SubSeq(u, 1, n))

IsUtf8(s) == Len(s) > 2 /\ SubSeq(s, 1, 3) = <<239, 187, 191>>

\* file: a bit of a field of bytes, and the classes of file types.
BitFieldTst(s, bit) ==
    LET b == s[(bit \div 8) + 1] IN ((b \div 2 ^ (bit % 8)) % 2) * 2 ^ (bit % 8)

IsNcFile(t) == t \in {4, 5, 38, 39}
IsAscFile(t) == t \in {9, 10, 12} \cup (17 .. 21) \cup {35, 40, 42, 43}

\* Mutant of SwapNP: the middle pair of an even number of bytes is missed.
SwapNPShort(s, n) ==
    [i \in DOMAIN s |->
        IF n > 1 /\ i <= n /\ i # (n + 1) \div 2 /\ n + 1 - i # (n + 1) \div 2
        THEN s[n + 1 - i] ELSE s[i]]

\* spurgen: two pointers swap until the left one has done n / 2 bytes; n = 1
\* leaves all as it is.
SwapNP(s, n) ==
    [i \in DOMAIN s |->
        IF n > 1 /\ i <= n \div 2 THEN s[n + 1 - i]
        ELSE IF n > 1 /\ i <= n /\ n + 1 - i <= n \div 2 THEN s[n + 1 - i]
        ELSE s[i]]

TextInit == text \in Texts

----------------------------------------------------------------------------

(* The leaves do what their callers take them for: folding is undone by    *)
(* folding back, swapping bytes twice is the identity and orders words as  *)
(* their bytes read backwards, a number has as many characters as its      *)
(* decimal form but for the least integer, a binary number reads as its    *)
(* value, a field's bits are those of its bytes, and SwapNP reverses.      *)
LeavesAgree ==
    LET s == text.s  c == text.c  v == text.v  w == v % (Base ^ 4) IN
    /\ toupper_ASCII(tolower_ASCII(c)) = toupper_ASCII(c)
    /\ (toupper_ASCII(c) # c) <=> (c \in 97 .. 122)
    /\ (tolower_ASCII(c) # c) <=> (c \in 65 .. 90)
    /\ IsPathSep(c) => toupper_ASCII(c) = c /\ tolower_ASCII(c) = c
    /\ Swap_d(Swap_d(w)) = w
    /\ Swap_w(Swap_w(w % Base ^ 2)) = w % Base ^ 2
    /\ Swap_d(w) = Swap_w(w % Base ^ 2) * Base ^ 2 + Swap_w(w \div Base ^ 2)
    /\ UQuadCompare(w \div Base, w % Base, c \div Base, c % Base)
          = IF w > c THEN 1 ELSE IF w < c THEN -1 ELSE 0
    /\ v # -HalfWord =>
          \A n \in 1 .. 6 :
             n >= NumberOfCharacters(v) <=>
                -(10 ^ (n - 1)) < v /\ v < 10 ^ n /\ (v < 0 => n > 1)
    /\ IsBinNumber(s) =>
          BinAtol(s) = FoldLeft(LAMBDA a, b : 2 * a + b - 48, 0, Unprefixed(s))
                          % (2 * HalfWord)
    /\ isNull(s) /\ s # <<>> => IsBinNumber(s) /\ BinAtol(s) = 0
    /\ \A bit \in Ticks :
          bit < 8 * Len(s) =>
             (BitFieldTst(s, bit) # 0) = (bit \in {8 * (i - 1) + k : i \in DOMAIN s, k \in 0 .. 7}
                /\ (s[(bit \div 8) + 1] \div 2 ^ (bit % 8)) % 2 = 1)
    /\ ~(IsNcFile(c) /\ IsAscFile(c))
    /\ IsUtf8(s) => ~IsBinNumber(s) /\ ~isNull(s)
    /\ \A n \in DOMAIN s :
          SwapNP(s, n) = Reverse(SubSeq(s, 1, n)) \o SubSeq(s, n + 1, Len(s))
==============================================================================
