------------------------------- MODULE TermText --------------------------------
(***************************************************************************)
(* Text of std.term in a compiled program, src/src/backend/stdlib/term.c:  *)
(* the width of a code point, the width of a string, decoding a string     *)
(* code point by code point, and the encoder that writes a code.  The      *)
(* string's width and the decoder are two separate loops in the code, and  *)
(* two separate definitions here.  A string is the sequence of its bytes.  *)
(***************************************************************************)
EXTENDS Integers, Sequences, SequencesExt

CONSTANTS
    Codes,       \* code points the program writes
    TextLength,  \* bound: codes of a string
    OddBytes,    \* bytes of the strings that nobody encoded
    OddLength,   \* bound: length of those strings
    WcWidth      \* the C library's wcwidth where it knows the code

ASSUME TextAssumption ==
    /\ \A c \in Codes : c \in Nat \ {0} /\ c <= 1114111
    /\ TextLength \in Nat
    /\ OddBytes \subseteq 1 .. 255 /\ OddLength \in Nat

ASSUME WidthsAssumption == \A c \in DOMAIN WcWidth : WcWidth[c] \in 0 .. 2

VARIABLES
    text,      \* the string
    meant,     \* the codes it was written from; <<>> for an odd string
    offset,    \* where the program's walk is
    walked,    \* the codes it saw
    columns    \* the sum of their widths

textVars == <<text, meant, offset, walked, columns>>

---------------------------------------------------------------------------
(* The width of a code point. *)

WideRanges == { <<4352, 4607>>, <<9001, 9002>>, <<11904, 42191>>, <<44032, 55203>>,
                <<63744, 64255>>, <<65040, 65131>>, <<65281, 65374>>, <<65504, 65510>>,
                <<127744, 129791>>, <<131072, 262141>> }

cn_term_is_known_wide(code) == \E r \in WideRanges : code \in r[1] .. r[2]

\* wcwidth is asked first; where it does not know the code, the table.
cn_term_codepoint_width(code) ==
    IF code < 32 \/ code \in 127 .. 159 THEN 0
    ELSE IF code \in DOMAIN WcWidth THEN WcWidth[code]
    ELSE IF cn_term_is_known_wide(code) THEN 2 ELSE 1

---------------------------------------------------------------------------
(* cn_term_string_width: its own loop over the bytes. *)

Continues(b) == b \in 128 .. 191

\* The bytes behind a first byte, if they are all there and well formed.
Follow(value, i, n) ==
    /\ i + n <= Len(value)
    /\ \A k \in 1 .. n : Continues(value[i + k])

Low6(b) == b % 64

\* The code points of two, three and four bytes.
TwoBytes(a, b) == (a % 32) * 64 + Low6(b)
ThreeBytes(a, b, c) == (a % 16) * 4096 + Low6(b) * 64 + Low6(c)
FourBytes(a, b, c, d) == (a % 8) * 262144 + Low6(b) * 4096 + Low6(c) * 64 + Low6(d)

WidthStep(value, i) ==
    LET first == value[i] IN
    CASE first < 128 -> [code |-> first, step |-> 1]
      [] first \in 194 .. 223 /\ Follow(value, i, 1) ->
           [code |-> TwoBytes(first, value[i + 1]), step |-> 2]
      [] first \in 224 .. 239 /\ Follow(value, i, 2) ->
           [code |-> ThreeBytes(first, value[i + 1], value[i + 2]), step |-> 3]
      [] first \in 240 .. 244 /\ Follow(value, i, 3) ->
           [code |-> FourBytes(first, value[i + 1], value[i + 2], value[i + 3]), step |-> 4]
      [] OTHER -> [code |-> 63, step |-> 1]

cn_term_string_width(value) ==
    LET width[i \in 1 .. Len(value) + 4] ==
          IF i > Len(value) THEN 0
          ELSE LET s == WidthStep(value, i)
               IN cn_term_codepoint_width(s.code) + width[i + s.step]
    IN width[1]

---------------------------------------------------------------------------
(* cn_term_string_decode_at, with offsets from 0 as the program sees them. *)

\* How many bytes the first byte announces, and the bits it carries.
Announced(first) ==
    CASE first \in 194 .. 223 -> 2 [] first \in 224 .. 239 -> 3
      [] first \in 240 .. 244 -> 4 [] OTHER -> 1
HeadBits(first) ==
    CASE first \in 194 .. 223 -> first % 32 [] first \in 224 .. 239 -> first % 16
      [] first \in 240 .. 244 -> first % 8 [] OTHER -> 63

NoCode == [ok |-> FALSE, code |-> 0, next |-> 0]

\* Reads a sequence as soon as its last byte is inside the string and zero
\* terminator included.
decode_at_off_by_one(value, index) ==
    IF index >= Len(value) THEN NoCode
    ELSE LET first == value[index + 1]
             n == Announced(first)
             all == SubSeq(Append(value, 0), index + 2, index + n)
         IN CASE first < 128 -> [ok |-> TRUE, code |-> first, next |-> index + 1]
              [] first >= 128 /\ n > 1 /\ Len(all) = n - 1 ->
                   [ok |-> TRUE, next |-> index + n,
                    code |-> FoldLeft(LAMBDA acc, b : acc * 64 + Low6(b), HeadBits(first), all)]
              [] OTHER -> [ok |-> TRUE, code |-> 63, next |-> index + 1]

cn_term_string_decode_at(value, index) ==
    IF index >= Len(value) THEN NoCode
    ELSE LET first == value[index + 1]
             n == Announced(first)
             tail == SubSeq(value, index + 2, index + n)
         IN CASE first < 128 -> [ok |-> TRUE, code |-> first, next |-> index + 1]
              [] first >= 128 /\ n > 1 /\ index + n <= Len(value)
                   /\ \A k \in DOMAIN tail : Continues(tail[k]) ->
                   [ok |-> TRUE, next |-> index + n,
                    code |-> FoldLeft(LAMBDA acc, b : acc * 64 + Low6(b), HeadBits(first), tail)]
              [] OTHER -> [ok |-> TRUE, code |-> 63, next |-> index + 1]

cn_term_decode_codepoint(value, index) == cn_term_string_decode_at(value, index).code
cn_term_next_codepoint_offset(value, index) == cn_term_string_decode_at(value, index).next

---------------------------------------------------------------------------
\* cn_term_write_code: the bytes written for a code.
cn_term_write_code(code) ==
    LET six(shift) == 128 + ((code \div shift) % 64)
    IN CASE code < 0 \/ code > 1114111 -> <<63>>
         [] code >= 0 /\ code <= 127 -> <<code>>
         [] code > 127 /\ code <= 2047 -> <<192 + (code \div 64), six(1)>>
         [] code > 2047 /\ code <= 65535 -> <<224 + (code \div 4096), six(64), six(1)>>
         [] code > 65535 /\ code <= 1114111 ->
                <<240 + (code \div 262144), six(4096), six(64), six(1)>>

Encoded(codes) == FlattenSeq([i \in DOMAIN codes |-> cn_term_write_code(codes[i])])

---------------------------------------------------------------------------
TextInit ==
    /\ meant \in BoundedSeq(Codes, TextLength)
    /\ text \in IF meant # <<>> THEN {Encoded(meant)} ELSE BoundedSeq(OddBytes, OddLength)
    /\ offset = 0 /\ walked = <<>> /\ columns = 0

\* The loop a program writes: decode at the offset, go to the next one, until
\* the call fails.
Walk ==
    /\ cn_term_string_decode_at(text, offset).ok
    /\ LET code == cn_term_decode_codepoint(text, offset)
       IN walked' = Append(walked, code) /\ columns' = columns + cn_term_codepoint_width(code)
    /\ offset' = cn_term_next_codepoint_offset(text, offset)
    /\ UNCHANGED <<text, meant>>

---------------------------------------------------------------------------
\* A walk over any string, well formed or not, stays inside it, and has seen
\* exactly string_width columns when it ends; over text written by write_code
\* it sees the codes that were written, each one once.
WalkAgrees ==
    /\ offset <= Len(text)
    /\ offset = Len(text) => columns = cn_term_string_width(text)
    /\ meant # <<>> => IsPrefix(walked, meant)
================================================================================
