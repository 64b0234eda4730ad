--------------------------- MODULE RuntimeBuffers ---------------------------
(***************************************************************************)
(* The growable buffers of the runtime prelude over its heap: std.bytes    *)
(* and std.text, which is the same buffer plus build (bytes.c, text.c),    *)
(* and std.lines, whose buffer owns a copy of each line (lines.c).  Any    *)
(* allocation may fail, and realloc may move the data.                     *)
(***************************************************************************)
EXTENDS RuntimeHeap

CONSTANTS
  Bytes,      \* byte values
  BytesMin,   \* the smallest capacity of a byte buffer: 16 in the code
  LinesMin,   \* the smallest capacity of a line buffer: 8 in the code
  MaxLen      \* bound: bytes or lines in a buffer

ASSUME BuffersAssumption ==
  BytesMin \in Nat \ {0} /\ LinesMin \in Nat \ {0} /\ MaxLen \in Nat /\ Texts \subseteq Seq(Bytes)

NoBuffer == [data |-> Null, length |-> 0, capacity |-> 0]

VARIABLES
  bytes, bytesOpen,   \* the byte buffer and whether there is one
  want,               \* the bytes the calls that succeeded put there
  slice,              \* length of the program's slice of the data, 0 when it is stale
  lines, linesOpen,   \* the line buffer and whether there is one
  wantLines,          \* the lines the calls that succeeded put there
  misread             \* append read a slice that its own growth had moved

bufferVars == <<bytes, bytesOpen, want, slice, lines, linesOpen, wantLines, misread>>

BuffersInit ==
  /\ bytes = NoBuffer /\ bytesOpen = FALSE /\ want = <<>>
  /\ slice = 0
  /\ lines = NoBuffer /\ linesOpen = FALSE /\ wantLines = <<>>
  /\ misread = FALSE

restOfHeap == <<zones, var, mine, told, untracked, handed, misfreed>>
bytesVars == <<bytes, bytesOpen, want, slice, misread>>
linesVars == <<lines, linesOpen, wantLines>>

-----------------------------------------------------------------------------
(* Growth, the same in both buffers *)

\* What realloc may return for this data: failure, the same place, or a new one.
Realloc(h, data) == Malloc(h) \cup {data}

Reallocated(h, data, r) ==
  IF r = data THEN h
  ELSE LET kept == IF data = Null THEN <<>> ELSE h.mem[data]
       IN  Alloc(IF data = Null THEN h ELSE Free(h, data), r, "array", kept)

NewCapacity(capacity, needed, least) ==
  LET base == IF capacity > 0 THEN 2 * capacity ELSE least
  IN  IF base >= needed THEN base ELSE needed

\* A failed growth leaves the buffer as it was.
buffer_ensure(h, b, needed, least, r) ==
  IF b.capacity >= needed THEN [ok |-> TRUE, h |-> h, b |-> b]
  ELSE IF r = Null THEN [ok |-> FALSE, h |-> h, b |-> b]
  ELSE [ok |-> TRUE, h |-> Reallocated(h, b.data, r),
        b |-> [b EXCEPT !.data = r, !.capacity = NewCapacity(b.capacity, needed, least)]]

\* r is looked at only when the buffer grows; one choice stands for all
\* when it does not.
GrowthChoice(h, b, needed, r) ==
  /\ r \in Realloc(h, b.data)
  /\ b.capacity >= needed => r = b.data

normalize_capacity(requested, least) == IF requested >= least THEN requested ELSE least

\* Mutant: the record is not released when the data cannot be allocated.
with_capacity_leaks(requested, least, header, r) ==
  IF ~header THEN [ok |-> FALSE, h |-> heap, b |-> NoBuffer]
  ELSE buffer_ensure(AddNodes(heap, 1), NoBuffer, normalize_capacity(requested, least), least, r)

\* header: whether the buffer record could be allocated.  When the data
\* cannot be, the record is released again.
with_capacity(requested, least, header, r) ==
  IF ~header THEN [ok |-> FALSE, h |-> heap, b |-> NoBuffer]
  ELSE LET e == buffer_ensure(AddNodes(heap, 1), NoBuffer, normalize_capacity(requested, least), least, r)
       IN  IF e.ok THEN e ELSE [e EXCEPT !.h = FreeNodes(e.h, 1)]

\* values written over the contents from position `at` on.
Written(contents, at, values) ==
  SubSeq(contents, 1, at) \o values
    \o SubSeq(contents, at + Len(values) + 1, Len(contents))

-----------------------------------------------------------------------------
(* std.bytes and std.text *)

cn_bytes_with_capacity(requested, header, r) ==
  /\ ~bytesOpen
  /\ r \in Malloc(heap) /\ (~header => r = Null)
  /\ LET n == with_capacity(requested, BytesMin, header, r)
     IN  heap' = n.h /\ bytes' = n.b /\ bytesOpen' = n.ok
  /\ want' = <<>> /\ slice' = 0
  /\ UNCHANGED <<restOfHeap, linesVars, misread>>

cn_bytes_free ==
  /\ bytesOpen
  /\ heap' = FreeNodes(IF bytes.data = Null THEN heap ELSE Free(heap, bytes.data), 1)
  /\ bytesOpen' = FALSE /\ bytes' = NoBuffer
  /\ want' = <<>> /\ slice' = 0
  /\ UNCHANGED <<restOfHeap, linesVars, misread>>

cn_bytes_clear ==
  /\ bytesOpen
  /\ bytes' = [bytes EXCEPT !.length = 0] /\ want' = <<>>
  /\ UNCHANGED <<heap, restOfHeap, bytesOpen, slice, linesVars, misread>>

\* A view of the data: a pointer and a length, not a copy.
cn_bytes_slice ==
  /\ bytesOpen
  /\ slice' = bytes.length
  /\ UNCHANGED <<heap, restOfHeap, bytes, bytesOpen, want, linesVars, misread>>

Store(h, b, at, values) == [h EXCEPT !.mem[b.data] = Written(@, at, values)]

\* Growth that moves the data leaves the program's slice dangling.
SliceAfter == slice' = IF bytes'.data = bytes.data THEN slice ELSE 0

cn_bytes_push(value, r) ==
  /\ bytesOpen /\ bytes.length < MaxLen
  /\ GrowthChoice(heap, bytes, bytes.length + 1, r)
  /\ LET e == buffer_ensure(heap, bytes, bytes.length + 1, BytesMin, r)
     IN  IF e.ok
         THEN /\ heap' = Store(e.h, e.b, e.b.length, <<value>>)
              /\ bytes' = [e.b EXCEPT !.length = @ + 1]
              /\ want' = Append(want, value)
         ELSE heap' = e.h /\ bytes' = e.b /\ UNCHANGED want
  /\ SliceAfter
  /\ UNCHANGED <<restOfHeap, bytesOpen, linesVars, misread>>

\* Bytes from elsewhere: a literal, a string, a formatted number.
cn_bytes_append(values, r) ==
  /\ bytesOpen /\ values # <<>> /\ bytes.length + Len(values) <= MaxLen
  /\ GrowthChoice(heap, bytes, bytes.length + Len(values), r)
  /\ LET e == buffer_ensure(heap, bytes, bytes.length + Len(values), BytesMin, r)
     IN  IF e.ok
         THEN /\ heap' = Store(e.h, e.b, e.b.length, values)
              /\ bytes' = [e.b EXCEPT !.length = @ + Len(values)]
              /\ want' = want \o values
         ELSE heap' = e.h /\ bytes' = e.b /\ UNCHANGED want
  /\ SliceAfter
  /\ UNCHANGED <<restOfHeap, bytesOpen, linesVars, misread>>

\* The buffer's own slice, still valid when the call begins.  The source
\* pointer was taken before the growth: if realloc moves the data, what is
\* copied is what the released block happens to hold.
AppendOwnSlice(r, garbage) ==
  LET n == slice
  IN  /\ bytesOpen /\ n \in 1..bytes.length /\ bytes.length + n <= MaxLen
      /\ GrowthChoice(heap, bytes, bytes.length + n, r)
      /\ Len(garbage) = n
      /\ LET e == buffer_ensure(heap, bytes, bytes.length + n, BytesMin, r)
             values == SubSeq(heap.mem[bytes.data], 1, n)
             moved == e.b.data # bytes.data
         IN  /\ ~moved => garbage = values
             /\ IF e.ok
                THEN /\ heap' = Store(e.h, e.b, e.b.length, garbage)
                     /\ bytes' = [e.b EXCEPT !.length = @ + n]
                     /\ want' = want \o values
                ELSE heap' = e.h /\ bytes' = e.b /\ UNCHANGED want
             /\ misread' = (misread \/ moved)
      /\ SliceAfter
      /\ UNCHANGED <<restOfHeap, bytesOpen, linesVars>>

cn_bytes_set(index, value) ==
  /\ bytesOpen /\ index \in 0..(bytes.length - 1)
  /\ heap' = Store(heap, bytes, index, <<value>>)
  /\ want' = [want EXCEPT ![index + 1] = value]
  /\ UNCHANGED <<restOfHeap, bytes, bytesOpen, slice, linesVars, misread>>

\* build copies the bytes into an owned string.
cn_text_build(v, a, node) ==
  /\ bytesOpen /\ Spare(v)
  /\ a \in Malloc(heap) /\ (a = Null => node)
  /\ cn_dup_range(v, SubSeq(heap.mem[bytes.data], 1, bytes.length), a, node)
  /\ UNCHANGED <<zones, handed, misfreed, bufferVars>>

-----------------------------------------------------------------------------
(* std.lines *)

cn_lines_with_capacity(requested, header, r) ==
  /\ ~linesOpen
  /\ r \in Malloc(heap) /\ (~header => r = Null)
  /\ LET n == with_capacity(requested, LinesMin, header, r)
     IN  heap' = n.h /\ lines' = n.b /\ linesOpen' = n.ok
  /\ wantLines' = <<>>
  /\ UNCHANGED <<restOfHeap, bytesVars>>

\* The line copies a buffer owns.
Items == SubSeq(heap.mem[lines.data], 1, lines.length)

cn_lines_free ==
  /\ linesOpen
  /\ heap' = FreeNodes(Free(FreeAll(heap, Items), lines.data), 1)
  /\ linesOpen' = FALSE /\ lines' = NoBuffer /\ wantLines' = <<>>
  /\ UNCHANGED <<restOfHeap, bytesVars>>

cn_lines_clear ==
  /\ linesOpen
  /\ heap' = FreeAll(heap, Items)
  /\ lines' = [lines EXCEPT !.length = 0] /\ wantLines' = <<>>
  /\ UNCHANGED <<restOfHeap, linesOpen, bytesVars>>

\* get lends the buffer's own copy to a variable.
cn_lines_get(v, index) ==
  /\ linesOpen /\ Spare(v) /\ index \in 0..(lines.length - 1)
  /\ var' = [var EXCEPT ![v] = Items[index + 1]]
  /\ told' = [told EXCEPT ![v] = wantLines[index + 1]]
  /\ UNCHANGED <<heap, zones, mine, untracked, handed, misfreed, bufferVars>>

\* A line given as text, or held by a variable: an owned string or a line
\* lent by get, of this very buffer too.
Sources == {[at |-> Null, text |-> t] : t \in Texts}
             \cup {[at |-> var[v], text |-> told[v]] : v \in {w \in Var : var[w] # Null}}
Readable(src) ==
  src.at # Null => heap.block[src.at] \in {"str", "line"} /\ heap.mem[src.at] = src.text

cn_lines_dup(h, src, c) ==
  Alloc(h, c, "line", IF src.at = Null THEN src.text ELSE h.mem[src.at])

\* Mutant: the old line is released before the value is copied.
ReplaceLine_frees_first(h, index, src, c) ==
  LET old == Items[index + 1]
  IN  [cn_lines_dup(Free(h, old), src, c) EXCEPT !.mem[lines.data][index + 1] = c]

\* The copy is made first: the value may be the line that is replaced.
ReplaceLine(h, index, src, c) ==
  LET old == Items[index + 1]
  IN  [Free(cn_lines_dup(h, src, c), old) EXCEPT !.mem[lines.data][index + 1] = c]

cn_lines_set(index, src, c) ==
  /\ linesOpen /\ index \in 0..(lines.length - 1)
  /\ Readable(src)
  /\ c \in Malloc(heap)
  /\ IF c = Null THEN UNCHANGED <<heap, wantLines>>
     ELSE /\ heap' = ReplaceLine(heap, index, src, c)
          /\ wantLines' = [wantLines EXCEPT ![index + 1] = src.text]
  /\ UNCHANGED <<restOfHeap, lines, linesOpen, bytesVars>>

\* push inserts at the end.
cn_lines_insert(index, src, c, r) ==
  /\ linesOpen /\ index \in 0..lines.length /\ lines.length < MaxLen
  /\ Readable(src)
  /\ c \in Malloc(heap)
  /\ IF c = Null
     THEN r = Null /\ UNCHANGED <<heap, lines, wantLines>>
     ELSE LET h1 == cn_lines_dup(heap, src, c)
              e  == buffer_ensure(h1, lines, lines.length + 1, LinesMin, r)
          IN  /\ GrowthChoice(h1, lines, lines.length + 1, r)
              /\ IF e.ok
                 THEN /\ heap' = [e.h EXCEPT !.mem[e.b.data] =
                                    SubSeq(@, 1, index) \o <<c>>
                                      \o SubSeq(@, index + 1, lines.length)]
                      /\ lines' = [e.b EXCEPT !.length = @ + 1]
                      /\ wantLines' = InsertAt(wantLines, index + 1, src.text)
                 ELSE heap' = Free(e.h, c) /\ lines' = e.b /\ UNCHANGED wantLines
  /\ UNCHANGED <<restOfHeap, linesOpen, bytesVars>>

cn_lines_remove(index) ==
  /\ linesOpen /\ index \in 0..(lines.length - 1)
  /\ heap' = [Free(heap, Items[index + 1]) EXCEPT
                !.mem[lines.data] = Append(RemoveAt(Items, index + 1), Null)]
  /\ lines' = [lines EXCEPT !.length = @ - 1]
  /\ wantLines' = RemoveAt(wantLines, index + 1)
  /\ UNCHANGED <<restOfHeap, linesOpen, bytesVars>>

-----------------------------------------------------------------------------
Place == Addr \cup {Null}

BytesNext(vs) ==
  \/ \E n \in {0, BytesMin + 1}, header \in BOOLEAN, r \in Place : cn_bytes_with_capacity(n, header, r)
  \/ cn_bytes_free
  \/ cn_bytes_clear
  \/ cn_bytes_slice
  \/ \E b \in Bytes, r \in Place : cn_bytes_push(b, r)
  \/ \E t \in Texts, r \in Place : cn_bytes_append(t, r)
  \/ \E r \in Place, garbage \in SeqOf(Bytes, MaxLen) : AppendOwnSlice(r, garbage)
  \/ \E i \in 0..MaxLen, b \in Bytes : cn_bytes_set(i, b)
  \/ \E v \in vs, a \in Place, node \in BOOLEAN : cn_text_build(v, a, node)

LinesNext(vs) ==
  \/ \E n \in {0, LinesMin + 1}, header \in BOOLEAN, r \in Place : cn_lines_with_capacity(n, header, r)
  \/ cn_lines_free
  \/ cn_lines_clear
  \/ \E v \in vs, i \in 0..MaxLen : cn_lines_get(v, i)
  \/ \E i \in 0..MaxLen, src \in Sources, c \in Place : cn_lines_set(i, src, c)
  \/ \E i \in 0..MaxLen, src \in Sources, c \in Place, r \in Place : cn_lines_insert(i, src, c, r)
  \/ \E i \in 0..MaxLen : cn_lines_remove(i)

-----------------------------------------------------------------------------
BuffersTypeOK ==
  /\ \A b \in {bytes, lines} :
       b.data \in Place /\ b.length \in 0..MaxLen /\ b.capacity \in Nat
  /\ bytesOpen \in BOOLEAN /\ linesOpen \in BOOLEAN
  /\ want \in Seq(Bytes)

\* The records of the open buffers.
Headers == (IF bytesOpen THEN 1 ELSE 0) + (IF linesOpen THEN 1 ELSE 0)

\* The data of the open buffers and the copies of their lines, each once.
BuffersOwned ==
  /\ Live("array") = {bytes.data, lines.data} \ {Null}
  /\ bytes.data = lines.data => bytes.data = Null
  /\ linesOpen => IsInjective(Items)
  /\ Live("line") = IF linesOpen THEN Range(Items) ELSE {}

\* A buffer holds what the calls that reported success put there, in order,
\* and a call that failed changed nothing: bytes.c, text.c, lines.c.  Not
\* so after a buffer's own slice was appended to it and the growth moved the
\* data (bytes.c, cn_bytes_append).
BuffersAgree ==
  /\ misread \/ (bytesOpen =>
       /\ bytes.length <= bytes.capacity
       /\ SubSeq(heap.mem[bytes.data], 1, bytes.length) = want)
  /\ linesOpen =>
       /\ lines.length <= lines.capacity
       /\ [i \in DOMAIN Items |-> heap.mem[Items[i]]] = wantLines

-----------------------------------------------------------------------------
(* Why the buffers keep their contents *)

Buffers == [data : Place, length : 0..MaxLen, capacity : Nat]

BufferTypes ==
  /\ bytes \in Buffers /\ lines \in Buffers
  /\ bytesOpen \in BOOLEAN /\ linesOpen \in BOOLEAN /\ misread \in BOOLEAN
  /\ want \in Seq(Bytes) /\ slice \in Nat
  /\ wantLines = [i \in 1..Len(wantLines) |-> wantLines[i]] /\ Len(wantLines) \in Nat

\* The data of an open buffer is a block at least as long as its contents,
\* even when what was read to append to it had moved.
BytesHeld ==
  IF ~bytesOpen THEN bytes = NoBuffer
  ELSE /\ bytes.data # Null /\ bytes.length <= bytes.capacity
       /\ heap.mem[bytes.data] \in Seq(Bytes) /\ bytes.length <= Len(heap.mem[bytes.data])
       /\ misread \/ SubSeq(heap.mem[bytes.data], 1, bytes.length) = want

LinesHeld ==
  IF ~linesOpen THEN lines = NoBuffer
  ELSE /\ lines.data # Null /\ lines.length <= lines.capacity
       /\ heap.mem[lines.data] \in Seq(Place) /\ lines.length <= Len(heap.mem[lines.data])
       /\ lines.length = Len(wantLines)
       /\ \A i \in 1..lines.length : heap.mem[Items[i]] = wantLines[i]
=============================================================================
