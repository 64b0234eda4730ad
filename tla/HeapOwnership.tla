---------------------------- MODULE HeapOwnership ----------------------------
(* The heap of the runtime: the blocks of strings, zones, handles and buffers  *)
(* keep one owner each, and strings and buffers their contents.                *)
EXTENDS RuntimeProofs

-----------------------------------------------------------------------------
(* The heap.  What malloc, free and the counters do to its fields, and which  *)
(* kinds of blocks they leave alone.                                          *)

\* A heap in which nothing has been released twice.
GoodHeap(h) == HeapRecord(h) /\ ~h.bad

\* Blocks of this kind are the same in both heaps, contents included.
Keeps(h, g, kind) ==
  \A a \in Addr : /\ h.block[a] = kind <=> g.block[a] = kind
                  /\ h.block[a] = kind => g.mem[a] = h.mem[a]

\* The heaps differ in what is at the address a only.
Changes(h, g, a, kind, contents) ==
  /\ g.block[a] = kind /\ g.mem[a] = contents
  /\ \A b \in Addr \ {a} : g.block[b] = h.block[b] /\ g.mem[b] = h.mem[b]

\* The blocks in the sequence as are free, and the others as they were.
Releases(h, g, as) ==
  \A b \in Addr : IF b \in Range(as) THEN g.block[b] = "free"
                   ELSE g.block[b] = h.block[b] /\ g.mem[b] = h.mem[b]

\* Two heaps with the same blocks.
SameBlocks(h, g) == g.block = h.block /\ g.mem = h.mem

\* The fields of a heap given by its fields.
LEMMA HeapFields ==
  ASSUME NEW g, NEW b \in [Addr -> Kinds], NEW m, m = [a \in Addr |-> m[a]], NEW n \in Nat,
         NEW s \in Seq(Addr), NEW x,
         g = [block |-> b, mem |-> m, nodes |-> n, str_head |-> s, bad |-> x]
  PROVE  /\ HeapRecord(g)
         /\ g.block = b /\ g.mem = m /\ g.nodes = n /\ g.str_head = s /\ g.bad = x
  BY DEF HeapRecord

\* The types of the fields of a heap.
LEMMA GoodHeapTypes ==
  ASSUME NEW h, GoodHeap(h)
  PROVE  /\ h.block \in [Addr -> Kinds]
         /\ h.mem = [a \in Addr |-> h.mem[a]]
         /\ h.nodes \in Nat
         /\ h.str_head \in Seq(Addr) /\ Len(h.str_head) \in Nat
  BY DEF GoodHeap, HeapRecord

\* malloc returns no block, or one that was free.
LEMMA MallocFacts ==
  ASSUME NEW h, NEW a \in Malloc(h)
  PROVE  a \in Place /\ (a # Null => a \in Addr /\ h.block[a] = "free")
  <1> DEFINE other == FreeAddrs(h) \ (FreeAddrs(h) \cap Range(var))
  <1>1. other # {} => Min(other) \in other
    <2>1. other \in SUBSET Nat
      BY AddrAssumption DEF FreeAddrs
    <2> HIDE DEF other
    <2> QED BY <2>1, LeastNat DEF Min
  <1>2. a = Null \/ a \in FreeAddrs(h)
    BY <1>1 DEF Malloc
  <1> QED BY <1>2 DEF FreeAddrs, Place

\* The null pointer is not the address of a block.
LEMMA NullIsNoAddress == Null \notin Addr
  BY AddrAssumption DEF Null

\* malloc changes one block.
LEMMA AllocFacts ==
  ASSUME NEW h, GoodHeap(h), NEW a \in Addr, NEW kind \in Kinds, NEW contents,
         NEW g, g = Alloc(h, a, kind, contents)
  PROVE  /\ GoodHeap(g) /\ Changes(h, g, a, kind, contents)
         /\ g.nodes = h.nodes /\ g.str_head = h.str_head
  <1> DEFINE block == [h.block EXCEPT ![a] = kind]
             mem == [h.mem EXCEPT ![a] = contents]
             k == [h EXCEPT !.block = block]
  <1>0. HeapRecord(h) /\ ~h.bad
    BY Zenon DEF GoodHeap
  <1>1. g = [h EXCEPT !.block = block, !.mem = mem]
    BY DEF Alloc
  <1>2. block \in [Addr -> Kinds] /\ mem = [b \in Addr |-> mem[b]]
    BY <1>0 DEF HeapRecord
  <1> HIDE DEF block, mem
  <1>3. [h EXCEPT !.block = block, !.mem = mem] = [k EXCEPT !.mem = mem]
    BY Zenon
  <1>4. k = [block |-> block, mem |-> h.mem, nodes |-> h.nodes, str_head |-> h.str_head, bad |-> h.bad]
    BY <1>0 DEF HeapRecord
  <1> HIDE DEF k
  <1>5. [k EXCEPT !.mem = mem] =
          [block |-> block, mem |-> mem, nodes |-> h.nodes, str_head |-> h.str_head, bad |-> h.bad]
    BY <1>4
  <1>6. HeapRecord(g) /\ g.block = block /\ g.mem = mem /\ g.nodes = h.nodes
        /\ g.str_head = h.str_head /\ g.bad = h.bad
    BY <1>0, <1>1, <1>2, <1>3, <1>5 DEF HeapRecord
  <1>7. GoodHeap(g)
    BY <1>0, <1>6, Zenon DEF GoodHeap
  <1>8. Changes(h, g, a, kind, contents)
    BY <1>6, GoodHeapTypes DEF Changes, block, mem
  <1> QED BY <1>6, <1>7, <1>8

\* free of a live block changes that block and does no harm.
LEMMA FreeFacts ==
  ASSUME NEW h, GoodHeap(h), NEW a \in Addr, h.block[a] # "free", NEW g, g = Free(h, a)
  PROVE  /\ GoodHeap(g) /\ Changes(h, g, a, "free", <<>>)
         /\ g.nodes = h.nodes /\ g.str_head = h.str_head
  <1> DEFINE bad == h.bad \/ h.block[a] = "free"
  <1>0. HeapRecord(h) /\ ~h.bad
    BY Zenon DEF GoodHeap
  <1>1. g = [h EXCEPT !.block[a] = "free", !.mem[a] = <<>>, !.bad = bad]
    BY Zenon DEF Free
  <1>2. ~bad
    BY <1>0
  <1> HIDE DEF bad
  <1>3. g = [block |-> [h.block EXCEPT ![a] = "free"], mem |-> [h.mem EXCEPT ![a] = <<>>],
             nodes |-> h.nodes, str_head |-> h.str_head, bad |-> bad]
    BY <1>0, <1>1 DEF HeapRecord
  <1> DEFINE block == [h.block EXCEPT ![a] = "free"]
             mem == [h.mem EXCEPT ![a] = <<>>]
  <1>4. block \in [Addr -> Kinds] /\ mem = [b \in Addr |-> mem[b]]
    BY GoodHeapTypes DEF Kinds
  <1>5. g = [block |-> block, mem |-> mem, nodes |-> h.nodes, str_head |-> h.str_head, bad |-> bad]
    BY <1>3
  <1> HIDE DEF block, mem
  <1>6. HeapRecord(g) /\ g.block = block /\ g.mem = mem
        /\ g.nodes = h.nodes /\ g.str_head = h.str_head /\ g.bad = bad
    BY <1>0, <1>4, <1>5 DEF HeapRecord
  <1>7. GoodHeap(g)
    BY <1>2, <1>6, Zenon DEF GoodHeap
  <1>8. Changes(h, g, a, "free", <<>>)
    BY <1>6, GoodHeapTypes DEF Changes, block, mem
  <1> QED BY <1>6, <1>7, <1>8

\* So does free of several of them, each once.
LEMMA FreeAllFacts ==
  ASSUME NEW h, GoodHeap(h), NEW as, IsInjective(as), \A a \in Range(as) : h.block[a] # "free",
         NEW g, g = FreeAll(h, as)
  PROVE  /\ GoodHeap(g) /\ Releases(h, g, as)
         /\ g.nodes = h.nodes /\ g.str_head = h.str_head
  <1> DEFINE bad == h.bad \/ ~IsInjective(as) \/ \E a \in Range(as) : h.block[a] = "free"
             block == [a \in Addr |-> IF a \in Range(as) THEN "free" ELSE h.block[a]]
             mem == [a \in Addr |-> IF a \in Range(as) THEN <<>> ELSE h.mem[a]]
  <1>0. HeapRecord(h) /\ ~h.bad
    BY Zenon DEF GoodHeap
  <1>1. g = [h EXCEPT !.block = block, !.mem = mem, !.bad = bad]
    BY Zenon DEF FreeAll
  <1>2. ~bad
    BY <1>0
  <1>3. block \in [Addr -> Kinds] /\ mem = [a \in Addr |-> mem[a]]
    BY <1>0 DEF HeapRecord, Kinds
  <1> HIDE DEF bad, block, mem
  <1>4. g = [block |-> block, mem |-> mem, nodes |-> h.nodes, str_head |-> h.str_head, bad |-> bad]
    BY <1>0, <1>1 DEF HeapRecord
  <1>5. HeapRecord(g) /\ g.block = block /\ g.mem = mem /\ g.bad = bad
        /\ g.nodes = h.nodes /\ g.str_head = h.str_head
    BY <1>0, <1>3, <1>4 DEF HeapRecord
  <1>6. GoodHeap(g)
    BY <1>2, <1>5, Zenon DEF GoodHeap
  <1>7. Releases(h, g, as)
    BY <1>5 DEF Releases, block, mem
  <1> QED BY <1>5, <1>6, <1>7

\* Cells that are only counted: malloc of some.
LEMMA AddNodesFacts ==
  ASSUME NEW h, GoodHeap(h), NEW n \in Nat, NEW g, g = AddNodes(h, n)
  PROVE  /\ GoodHeap(g)
         /\ SameBlocks(h, g) /\ g.str_head = h.str_head
         /\ g.nodes = h.nodes + n
  <1>0. HeapRecord(h) /\ ~h.bad
    BY Zenon DEF GoodHeap
  <1>1. HeapRecord(g) /\ g.block = h.block /\ g.mem = h.mem /\ g.str_head = h.str_head
        /\ g.nodes = h.nodes + n /\ g.bad = h.bad
    BY <1>0 DEF AddNodes, HeapRecord
  <1> QED BY <1>0, <1>1, Zenon DEF GoodHeap, SameBlocks

\* Cells that are only counted: free of some.
LEMMA FreeNodesFacts ==
  ASSUME NEW h, GoodHeap(h), NEW n \in Nat, n <= h.nodes, NEW g, g = FreeNodes(h, n)
  PROVE  /\ GoodHeap(g)
         /\ SameBlocks(h, g) /\ g.str_head = h.str_head
         /\ g.nodes = h.nodes - n
  <1> DEFINE bad == h.bad \/ n > h.nodes
             m == IF n <= h.nodes THEN h.nodes - n ELSE 0
  <1>0. HeapRecord(h) /\ ~h.bad
    BY Zenon DEF GoodHeap
  <1>1. g = [h EXCEPT !.nodes = m, !.bad = bad]
    BY Zenon DEF FreeNodes
  <1>2. ~bad
    <2>1. ~(n > h.nodes)
      BY <1>0 DEF HeapRecord
    <2> QED BY <1>0, <2>1, Zenon
  <1>3. m = h.nodes - n /\ m \in Nat
    BY <1>0 DEF HeapRecord
  <1> HIDE DEF bad, m
  <1>4. g = [block |-> h.block, mem |-> h.mem, nodes |-> m, str_head |-> h.str_head, bad |-> bad]
    BY <1>0, <1>1 DEF HeapRecord
  <1>5. HeapRecord(g) /\ g.block = h.block /\ g.mem = h.mem /\ g.str_head = h.str_head
        /\ g.nodes = m /\ g.bad = bad
    BY <1>0, <1>3, <1>4 DEF HeapRecord
  <1> QED BY <1>2, <1>3, <1>5, Zenon DEF GoodHeap, SameBlocks

\* The list of strings alone changes.
LEMMA LinkFacts ==
  ASSUME NEW h, GoodHeap(h), NEW s \in Seq(Addr), NEW g, g = [h EXCEPT !.str_head = s]
  PROVE  /\ GoodHeap(g)
         /\ SameBlocks(h, g) /\ g.nodes = h.nodes
         /\ g.str_head = s
  <1>0. HeapRecord(h) /\ ~h.bad
    BY Zenon DEF GoodHeap
  <1>1. g = [block |-> h.block, mem |-> h.mem, nodes |-> h.nodes, str_head |-> s, bad |-> h.bad]
    BY <1>0 DEF HeapRecord
  <1>2. HeapRecord(g) /\ g.block = h.block /\ g.mem = h.mem /\ g.nodes = h.nodes /\ g.str_head = s
        /\ g.bad = h.bad
    BY <1>0, <1>1 DEF HeapRecord
  <1> QED BY <1>0, <1>2, Zenon DEF GoodHeap, SameBlocks

\* The contents of one block change.
LEMMA StoreFacts ==
  ASSUME NEW h, GoodHeap(h), NEW a \in Addr, NEW contents, NEW g, g = [h EXCEPT !.mem[a] = contents]
  PROVE  /\ GoodHeap(g)
         /\ Changes(h, g, a, h.block[a], contents)
         /\ g.block = h.block /\ g.nodes = h.nodes /\ g.str_head = h.str_head
  <1> DEFINE mem == [h.mem EXCEPT ![a] = contents]
  <1>0. HeapRecord(h) /\ ~h.bad
    BY Zenon DEF GoodHeap
  <1>1. g = [h EXCEPT !.mem = mem]
    OBVIOUS
  <1>2. mem = [b \in Addr |-> mem[b]]
    BY <1>0 DEF HeapRecord
  <1> HIDE DEF mem
  <1>3. g = [block |-> h.block, mem |-> mem, nodes |-> h.nodes, str_head |-> h.str_head, bad |-> h.bad]
    BY <1>0, <1>1 DEF HeapRecord
  <1>4. HeapRecord(g) /\ g.block = h.block /\ g.mem = mem /\ g.nodes = h.nodes
        /\ g.str_head = h.str_head /\ g.bad = h.bad
    <2>1. g.block = h.block /\ g.mem = mem /\ g.nodes = h.nodes /\ g.str_head = h.str_head
          /\ g.bad = h.bad
      BY <1>3
    <2>2. g = [block |-> g.block, mem |-> g.mem, nodes |-> g.nodes, str_head |-> g.str_head, bad |-> g.bad]
      BY <1>3, <2>1, Zenon
    <2> QED BY <1>0, <1>2, <2>1, <2>2 DEF HeapRecord
  <1>5. GoodHeap(g)
    BY <1>0, <1>4, Zenon DEF GoodHeap
  <1>6. Changes(h, g, a, h.block[a], contents)
    <2>1. h.mem = [b \in Addr |-> h.mem[b]]
      BY GoodHeapTypes
    <2>2. mem[a] = contents /\ \A b \in Addr \ {a} : mem[b] = h.mem[b]
      BY <2>1 DEF mem
    <2> QED BY <1>4, <2>2 DEF Changes
  <1> QED BY <1>4, <1>5, <1>6

\* cn_track_str (core.c) puts the string at the head of the list, if it has a node.
LEMMA TrackFacts ==
  ASSUME NEW h, GoodHeap(h), NEW a \in Addr, NEW node \in BOOLEAN, NEW g, g = cn_track_str(h, a, node)
  PROVE  /\ GoodHeap(g)
         /\ SameBlocks(h, g)
         /\ g.str_head = (IF node THEN <<a>> \o h.str_head ELSE h.str_head)
         /\ g.nodes = (IF node THEN h.nodes + 1 ELSE h.nodes)
  <1> DEFINE s == <<a>> \o h.str_head
             k == [h EXCEPT !.str_head = s]
  <1>1. s \in Seq(Addr)
    <2>1. h.str_head \in Seq(Addr)
      BY GoodHeapTypes
    <2> QED BY <2>1
  <1>2. g = IF node THEN AddNodes(k, 1) ELSE h
    BY DEF cn_track_str
  <1> HIDE DEF s
  <1>3. GoodHeap(k) /\ SameBlocks(h, k) /\ k.nodes = h.nodes /\ k.str_head = s
    BY <1>1, LinkFacts
  <1> HIDE DEF k
  <1>4. CASE node
    <2>1. g = AddNodes(k, 1)
      BY <1>2, <1>4
    <2>2. GoodHeap(g) /\ SameBlocks(k, g) /\ g.str_head = k.str_head
          /\ g.nodes = k.nodes + 1
      BY <1>3, <2>1, AddNodesFacts
    <2> QED BY <1>3, <1>4, <2>2 DEF s, SameBlocks
  <1>5. CASE ~node
    BY <1>2, <1>5 DEF SameBlocks
  <1> QED BY <1>4, <1>5

\* A change of one block keeps the blocks of every kind it is not about.
LEMMA ChangesKeep ==
  ASSUME NEW h, NEW g, NEW a, NEW kind, NEW contents, Changes(h, g, a, kind, contents),
         NEW other, other # h.block[a], other # kind
  PROVE  Keeps(h, g, other)
  BY DEF Keeps, Changes

\* A release keeps the blocks of every kind it is not about.
LEMMA ReleasesKeep ==
  ASSUME NEW h, NEW g, NEW as, Releases(h, g, as), NEW other, other # "free",
         \A a \in Range(as) : h.block[a] # other
  PROVE  Keeps(h, g, other)
  <1> SUFFICES ASSUME NEW a \in Addr
               PROVE  /\ h.block[a] = other <=> g.block[a] = other
                      /\ h.block[a] = other => g.mem[a] = h.mem[a]
    BY DEF Keeps
  <1>1. CASE a \in Range(as)
    BY <1>1 DEF Releases
  <1>2. CASE a \notin Range(as)
    BY <1>2 DEF Releases
  <1> QED BY <1>1, <1>2

\* A heap with the same blocks keeps them.
LEMMA SameKeeps ==
  ASSUME NEW h, NEW g, SameBlocks(h, g), NEW kind
  PROVE  Keeps(h, g, kind)
  BY Zenon DEF Keeps, SameBlocks

\* What two steps keep, both keep.
LEMMA KeepsTransitive ==
  ASSUME NEW h, NEW g, NEW f, NEW kind, Keeps(h, g, kind), Keeps(g, f, kind)
  PROVE  Keeps(h, f, kind)
  BY DEF Keeps

-----------------------------------------------------------------------------
(* OInv in the parts an operation changes and leaves alone.                   *)

\* What OInv says of strings.
StringSide == ProgramTypes /\ StringsOwned /\ StringsKept
\* What OInv says of zones.
ZoneSide == ZonesOwned /\ IsFiniteSet(ZonePlaces)
\* What OInv says of the buffers.
BufferSide == BufferTypes /\ BuffersOwned /\ BytesHeld /\ LinesHeld
\* What OInv says of calls and handles.
CallSide == CallSpare /\ IsFiniteSet({k \in Kid : HasHandle(k)})
\* The cells are those of the links, the buffers and the handles.
Counted == heap.nodes = LinkNodes + Headers + HandleNodes

\* OInv is the conjunction of its parts.
LEMMA OInvParts ==
  OInv <=> /\ GoodHeap(heap)
           /\ StringSide /\ ZoneSide /\ BufferSide /\ CallSide /\ Counted
  BY Zenon DEF GoodHeap, OInv, EveryBlockHasAnOwner, StringSide, ZoneSide, BufferSide, CallSide, Counted

\* A step that keeps the strings and what the program knows of them.
LEMMA StringsFrame ==
  ASSUME StringSide, Keeps(heap, heap', "str"), heap'.str_head = heap.str_head,
         UNCHANGED <<zones, var, mine, told, untracked, handed, misfreed>>
  PROVE  StringSide'
  <1>1. Live("str")' = Live("str")
    BY DEF Live, Keeps
  <1>2. StringsOwned'
    BY <1>1 DEF StringSide, StringsOwned
  <1>3. ProgramTypes'
    BY DEF StringSide, ProgramTypes
  <1>4. StringsKept'
    BY DEF StringSide, StringsKept, Keeps
  <1> QED BY <1>2, <1>3, <1>4 DEF StringSide

\* A step that keeps the blocks of the zones.
LEMMA ZonesFrame ==
  ASSUME ZoneSide, Keeps(heap, heap', "payload"), UNCHANGED zones
  PROVE  ZoneSide'
  <1>1. Live("payload")' = Live("payload")
    BY DEF Live, Keeps
  <1>2. ZonePlaces' = ZonePlaces
    BY DEF ZonePlaces
  <1>3. \A p : BlockAt(p)' = BlockAt(p)
    BY DEF BlockAt
  <1> QED BY <1>1, <1>2, <1>3 DEF ZoneSide, ZonesOwned

\* The line buffer is left alone by all that leaves its data and its lines alone.
LEMMA ItemsFacts ==
  ASSUME BufferSide, linesOpen
  PROVE  /\ lines.data \in Addr /\ heap.block[lines.data] = "array"
         /\ lines.length \in Nat
         /\ Items \in Seq(Place) /\ Len(Items) = lines.length
         /\ DOMAIN Items = 1..lines.length
         /\ \A i \in 1..lines.length : /\ Items[i] = heap.mem[lines.data][i]
                                       /\ Items[i] \in Addr /\ heap.block[Items[i]] = "line"
         /\ \A i, j \in 1..lines.length : Items[i] = Items[j] => i = j
  <1>1. lines.data \in Addr /\ heap.block[lines.data] = "array"
    <2>1. lines.data # Null /\ lines.data \in Live("array")
      BY DEF BufferSide, LinesHeld, BuffersOwned
    <2> QED BY <2>1 DEF Live
  <1>2. lines.length \in Nat /\ heap.mem[lines.data] \in Seq(Place)
        /\ lines.length <= Len(heap.mem[lines.data])
    BY DEF BufferSide, LinesHeld, BufferTypes, Buffers
  <1>3. Items \in Seq(Place) /\ Len(Items) = lines.length
        /\ \A i \in 1..lines.length : Items[i] = heap.mem[lines.data][i]
    <2>1. \A i \in 1..lines.length : heap.mem[lines.data][i] \in Place
      BY <1>2, ElementOfSeq
    <2> QED BY <1>2, <2>1, SubSeqProperties DEF Items
  <1>4. DOMAIN Items = 1..lines.length
    BY <1>3, LenProperties
  <1>5. ASSUME NEW i \in 1..lines.length PROVE Items[i] \in Addr /\ heap.block[Items[i]] = "line"
    <2>1. Items[i] \in Live("line")
      BY <1>4 DEF BufferSide, BuffersOwned, Range
    <2> QED BY <2>1 DEF Live
  <1>6. IsInjective(Items)
    BY DEF BufferSide, BuffersOwned
  <1> QED BY <1>1, <1>2, <1>3, <1>4, <1>5, <1>6 DEF IsInjective

\* The block of an open byte buffer.
LEMMA BytesFacts ==
  ASSUME BufferSide, bytesOpen
  PROVE  /\ bytes.data \in Addr /\ heap.block[bytes.data] = "array"
         /\ bytes.length \in Nat /\ bytes.capacity \in Nat /\ bytes.length <= bytes.capacity
         /\ bytes.length <= MaxLen
         /\ heap.mem[bytes.data] \in Seq(Bytes)
         /\ bytes.length <= Len(heap.mem[bytes.data])
         /\ bytes.data # lines.data
  <1>1. bytes.data # Null /\ bytes.data \in Live("array") /\ bytes.data # lines.data
    BY DEF BufferSide, BytesHeld, BuffersOwned
  <1> QED BY <1>1, BuffersAssumption DEF Live, BufferSide, BytesHeld, BufferTypes, Buffers

\* A step that keeps the lines and the array that lists them.
LEMMA LinesFrame ==
  ASSUME BufferSide, Keeps(heap, heap', "line"),
         linesOpen => heap'.mem[lines.data] = heap.mem[lines.data],
         UNCHANGED linesVars
  PROVE  /\ LinesHeld'
         /\ linesOpen => Items' = Items
         /\ (linesOpen => IsInjective(Items))'
         /\ (Live("line") = IF linesOpen THEN Range(Items) ELSE {})'
  <1>1. linesOpen => Items' = Items
    BY DEF Items, linesVars
  <1>2. Live("line")' = Live("line")
    BY DEF Live, Keeps
  <1>3. LinesHeld'
    <2>1. CASE linesOpen
      <3>1. \A i \in 1..lines.length : Items[i] \in Addr /\ heap.block[Items[i]] = "line"
        BY <2>1, ItemsFacts
      <3>2. \A i \in 1..lines.length : heap'.mem[Items[i]] = heap.mem[Items[i]]
        BY <3>1 DEF Keeps
      <3> QED BY <1>1, <2>1, <3>2 DEF BufferSide, LinesHeld, linesVars
    <2>2. CASE ~linesOpen
      BY <2>2 DEF BufferSide, LinesHeld, linesVars
    <2> QED BY <2>1, <2>2
  <1> QED BY <1>1, <1>2, <1>3 DEF BufferSide, BuffersOwned, linesVars

\* A step that keeps the blocks of the buffers.
LEMMA BuffersFrame ==
  ASSUME BufferSide, Keeps(heap, heap', "array"), Keeps(heap, heap', "line"), UNCHANGED bufferVars
  PROVE  BufferSide'
  <1>1. BufferTypes'
    BY DEF BufferSide, BufferTypes, bufferVars
  <1>2. Live("array")' = Live("array")
    BY DEF Live, Keeps
  <1>3. linesOpen => heap'.mem[lines.data] = heap.mem[lines.data]
    BY ItemsFacts DEF Keeps
  <1>4. bytesOpen => heap'.mem[bytes.data] = heap.mem[bytes.data]
    BY BytesFacts DEF Keeps
  <1>5. UNCHANGED linesVars
    BY DEF bufferVars, linesVars
  <1>6. BytesHeld'
    BY <1>4 DEF BufferSide, BytesHeld, bufferVars
  <1>7. BuffersOwned' /\ LinesHeld'
    BY <1>2, <1>3, <1>5, LinesFrame DEF BufferSide, BuffersOwned, bufferVars
  <1> QED BY <1>1, <1>6, <1>7 DEF BufferSide

-----------------------------------------------------------------------------
(* Cells the runtime only counts.                                             *)

\* The counts are natural numbers.
LEMMA CountTypes ==
  ASSUME GoodHeap(heap), ProgramTypes, IsFiniteSet(ZonePlaces), BufferTypes,
         IsFiniteSet({k \in Kid : HasHandle(k)})
  PROVE  /\ Len(heap.str_head) \in Nat
         /\ IsFiniteSet(ZoneHeaders) /\ Cardinality(ZoneHeaders) \in Nat
         /\ Cardinality(ZonePlaces) \in Nat
         /\ LinkNodes \in Nat /\ Headers \in Nat /\ HandleNodes \in Nat
  <1>1. Len(heap.str_head) \in Nat
    BY GoodHeapTypes
  <1>2. IsFiniteSet(ZoneHeaders)
    <2>1. DOMAIN zones = 1..Len(zones) /\ Len(zones) \in Nat
      BY LenProperties DEF ProgramTypes
    <2>2. IsFiniteSet(1..Len(zones))
      BY <2>1, FS_Interval
    <2> QED BY <2>1, <2>2, FS_Subset DEF ZoneHeaders
  <1>3. Cardinality(ZoneHeaders) \in Nat /\ Cardinality(ZonePlaces) \in Nat
    BY <1>2, FS_CardinalityType
  <1>4. Cardinality({k \in Kid : HasHandle(k)}) \in Nat
    BY FS_CardinalityType
  <1>5. Headers \in Nat
    BY DEF Headers
  <1>6. LinkNodes \in Nat
    BY <1>1, <1>3 DEF LinkNodes
  <1>7. HandleNodes \in Nat
    BY <1>4 DEF HandleNodes
  <1> QED BY <1>1, <1>2, <1>3, <1>5, <1>6, <1>7

\* The counts, under OInv.
LEMMA OInvCounts ==
  ASSUME OInv
  PROVE  /\ GoodHeap(heap) /\ heap.nodes = LinkNodes + Headers + HandleNodes
         /\ Len(heap.str_head) \in Nat
         /\ Cardinality(ZoneHeaders) \in Nat /\ Cardinality(ZonePlaces) \in Nat
         /\ LinkNodes \in Nat /\ Headers \in Nat /\ HandleNodes \in Nat
         /\ LinkNodes = Len(heap.str_head) + Cardinality(ZoneHeaders) + Cardinality(ZonePlaces)
  BY OInvParts, CountTypes DEF StringSide, ZoneSide, BufferSide, CallSide, Counted, LinkNodes

\* No call in progress wants a variable.
LEMMA CallFrame ==
  ASSUME CallSide, call' = Idle, UNCHANGED handle
  PROVE  CallSide'
  <1>1. Idle.op = "none"
    BY DEF Idle
  <1>2. CallSpare'
    BY <1>1 DEF CallSpare
  <1>3. {k \in Kid : HasHandle(k)}' = {k \in Kid : HasHandle(k)}
    BY DEF HasHandle
  <1> QED BY <1>2, <1>3 DEF CallSide

\* The same handles have the same records.
LEMMA SameHandles ==
  ASSUME UNCHANGED handle
  PROVE  HandleNodes' = HandleNodes
  BY DEF HandleNodes, HasHandle

\* The same zones have the same cells.
LEMMA SameZones ==
  ASSUME UNCHANGED zones
  PROVE  ZoneHeaders' = ZoneHeaders /\ ZonePlaces' = ZonePlaces
  BY DEF ZoneHeaders, ZonePlaces

\* The same open buffers have the same records.
LEMMA SameHeaders ==
  ASSUME UNCHANGED <<bytesOpen, linesOpen>>
  PROVE  Headers' = Headers
  BY DEF Headers

-----------------------------------------------------------------------------
(* Sequences.                                                                 *)

\* What RemoveAt leaves and where.
LEMMA RemoveAtFacts ==
  ASSUME NEW S, NEW s \in Seq(S), NEW n \in 1..Len(s)
  PROVE  /\ RemoveAt(s, n) \in Seq(S)
         /\ Len(RemoveAt(s, n)) = Len(s) - 1
         /\ \A i \in 1..(Len(s) - 1) : RemoveAt(s, n)[i] = s[IF i < n THEN i ELSE i + 1]
  <1> DEFINE a == SubSeq(s, 1, n - 1)
             b == SubSeq(s, n + 1, Len(s))
  <1>0. Len(s) \in Nat /\ \A i \in 1..Len(s) : s[i] \in S
    BY LenProperties, ElementOfSeq
  <1>1. a \in Seq(S) /\ Len(a) = n - 1 /\ \A i \in 1..(n - 1) : a[i] = s[i]
    <2>1. \A i \in 1..(n - 1) : s[i] \in S
      BY <1>0
    <2> QED BY <1>0, <2>1, SubSeqProperties
  <1>2. b \in Seq(S) /\ Len(b) = Len(s) - n /\ \A i \in 1..(Len(s) - n) : b[i] = s[n + i]
    <2>1. \A i \in (n + 1)..Len(s) : s[i] \in S
      BY <1>0
    <2>2. b \in Seq(S) /\ Len(b) = (IF n + 1 <= Len(s) THEN Len(s) - (n + 1) + 1 ELSE 0)
          /\ \A i \in 1..(Len(s) - (n + 1) + 1) : b[i] = s[(n + 1) + i - 1]
      BY <1>0, <2>1, SubSeqProperties
    <2> QED BY <1>0, <2>2
  <1>3. RemoveAt(s, n) = a \o b
    BY DEF RemoveAt
  <1> HIDE DEF a, b
  <1>4. /\ a \o b \in Seq(S)
        /\ Len(a \o b) = Len(a) + Len(b)
        /\ \A i \in 1..(Len(a) + Len(b)) : (a \o b)[i] = IF i <= Len(a) THEN a[i] ELSE b[i - Len(a)]
    BY <1>1, <1>2, ConcatProperties
  <1>5. ASSUME NEW i \in 1..(Len(s) - 1) PROVE (a \o b)[i] = s[IF i < n THEN i ELSE i + 1]
    <2>1. CASE i < n
      BY <1>0, <1>1, <1>2, <1>4, <2>1
    <2>2. CASE ~(i < n)
      <3>1. (a \o b)[i] = b[i - (n - 1)]
        BY <1>0, <1>1, <1>2, <1>4, <2>2
      <3>2. i - (n - 1) \in 1..(Len(s) - n)
        BY <1>0, <2>2
      <3>3. b[i - (n - 1)] = s[n + (i - (n - 1))]
        BY <1>2, <3>2
      <3>4. n + (i - (n - 1)) = i + 1
        BY <1>0
      <3> QED BY <2>2, <3>1, <3>3, <3>4
    <2> QED BY <2>1, <2>2
  <1> QED BY <1>0, <1>1, <1>2, <1>3, <1>4, <1>5

\* Removing one element of a list without duplicates.
LEMMA RemovedFromList ==
  ASSUME NEW S, NEW s \in Seq(S), NEW n \in 1..Len(s), IsInjective(s)
  PROVE  IsInjective(RemoveAt(s, n)) /\ Range(RemoveAt(s, n)) = Range(s) \ {s[n]}
  <1> DEFINE t == RemoveAt(s, n)
             at == [i \in 1..(Len(s) - 1) |-> IF i < n THEN i ELSE i + 1]
  <1>1. t \in Seq(S) /\ Len(t) = Len(s) - 1
        /\ \A i \in 1..(Len(s) - 1) : t[i] = s[IF i < n THEN i ELSE i + 1]
    BY RemoveAtFacts
  <1>2. DOMAIN t = 1..(Len(s) - 1) /\ DOMAIN s = 1..Len(s) /\ Len(s) \in Nat
    BY <1>1, LenProperties
  <1> HIDE DEF t
  <1>3. \A i \in DOMAIN t : t[i] = s[at[i]] /\ at[i] \in DOMAIN s \ {n}
    BY <1>1, <1>2
  <1>4. \A i, j \in DOMAIN t : at[i] = at[j] => i = j
    BY <1>2
  <1>5. \A j \in DOMAIN s \ {n} : \E i \in DOMAIN t : at[i] = j
    <2> TAKE j \in DOMAIN s \ {n}
    <2>1. CASE j < n
      <3>1. j \in DOMAIN t /\ at[j] = j
        BY <1>2, <2>1
      <3> QED BY <3>1
    <2>2. CASE j > n
      <3>1. j - 1 \in DOMAIN t /\ at[j - 1] = j
        BY <1>2, <2>2
      <3> QED BY <3>1
    <2> QED BY <1>2, <2>1, <2>2
  <1> HIDE DEF at
  <1>6. \A i, j \in DOMAIN s : s[i] = s[j] => i = j
    BY DEF IsInjective
  <1>7. IsInjective(t)
    BY <1>3, <1>4, <1>6 DEF IsInjective
  <1>8. n \in DOMAIN s
    BY <1>2
  <1>9. Range(t) \subseteq Range(s) \ {s[n]}
    BY <1>3, <1>6, <1>8 DEF Range
  <1>10. Range(s) \ {s[n]} \subseteq Range(t)
    BY <1>3, <1>5, <1>8 DEF Range
  <1> QED BY <1>7, <1>9, <1>10 DEF t

\* Adding an element in front of a list.
LEMMA AddedToList ==
  ASSUME NEW S, NEW s \in Seq(S), NEW a \in S
  PROVE  /\ <<a>> \o s \in Seq(S) /\ Len(<<a>> \o s) = Len(s) + 1
         /\ DOMAIN (<<a>> \o s) = 1..(Len(s) + 1)
         /\ (<<a>> \o s)[1] = a /\ \A i \in 1..Len(s) : (<<a>> \o s)[i + 1] = s[i]
         /\ Range(<<a>> \o s) = Range(s) \cup {a}
         /\ IsInjective(s) /\ a \notin Range(s) => IsInjective(<<a>> \o s)
  <1> DEFINE t == <<a>> \o s
  <1>1. /\ t \in Seq(S) /\ Len(t) = Len(s) + 1 /\ Len(s) \in Nat
        /\ t[1] = a /\ \A i \in 1..Len(s) : t[i + 1] = s[i]
    OBVIOUS
  <1>2. DOMAIN t = 1..(Len(s) + 1) /\ DOMAIN s = 1..Len(s)
    BY <1>1, LenProperties
  <1> HIDE DEF t
  <1>3. \A i \in DOMAIN t : i = 1 \/ (i - 1 \in DOMAIN s /\ t[i] = s[i - 1])
    <2> TAKE i \in DOMAIN t
    <2>1. CASE i # 1
      <3>1. i - 1 \in 1..Len(s) /\ (i - 1) + 1 = i
        BY <1>1, <1>2, <2>1
      <3> QED BY <1>1, <1>2, <3>1
    <2> QED BY <2>1
  <1>4. \A i \in DOMAIN s : i + 1 \in DOMAIN t /\ t[i + 1] = s[i]
    BY <1>1, <1>2
  <1>5. 1 \in DOMAIN t
    BY <1>1, <1>2
  <1>6. Range(t) = Range(s) \cup {a}
    <2>1. Range(s) \cup {a} \subseteq Range(t)
      BY <1>1, <1>4, <1>5 DEF Range
    <2>2. ASSUME NEW i \in DOMAIN t PROVE t[i] \in Range(s) \cup {a}
      BY <1>1, <1>3 DEF Range
    <2>3. Range(t) \subseteq Range(s) \cup {a}
      BY <2>2 DEF Range
    <2> QED BY <2>1, <2>3
  <1>7. ASSUME IsInjective(s), a \notin Range(s) PROVE IsInjective(t)
    <2>1. SUFFICES ASSUME NEW i \in DOMAIN t, NEW j \in DOMAIN t, t[i] = t[j] PROVE i = j
      BY DEF IsInjective
    <2>2. CASE i = 1 \/ j = 1
      BY <1>1, <1>3, <1>7, <2>1, <2>2 DEF Range
    <2>3. CASE i # 1 /\ j # 1
      <3>1. i - 1 \in DOMAIN s /\ j - 1 \in DOMAIN s /\ s[i - 1] = s[j - 1]
        BY <1>3, <2>1, <2>3
      <3>2. i - 1 = j - 1
        BY <1>7, <3>1 DEF IsInjective
      <3> QED BY <1>2, <3>2
    <2> QED BY <2>2, <2>3
  <1> QED BY <1>1, <1>2, <1>6, <1>7 DEF t

\* The parts, after a step.
LEMMA OInvIntro ==
  ASSUME GoodHeap(heap'), StringSide', ZoneSide', BufferSide', CallSide', Counted'
  PROVE  OInv'
  BY Zenon DEF GoodHeap, OInv, EveryBlockHasAnOwner, StringSide, ZoneSide, BufferSide, CallSide, Counted

\* As many cells more as the list of strings has grown by.
LEMMA StringsCounted ==
  ASSUME OInv, UNCHANGED <<zones, bytesOpen, linesOpen, handle>>, NEW d \in Int,
         heap'.nodes = heap.nodes + d, Len(heap'.str_head) = Len(heap.str_head) + d
  PROVE  Counted'
  <1>1. ZoneHeaders' = ZoneHeaders /\ ZonePlaces' = ZonePlaces
    BY SameZones
  <1>2. Headers' = Headers /\ HandleNodes' = HandleNodes
    BY SameHeaders, SameHandles
  <1> DEFINE l == Len(heap.str_head)
             z == Cardinality(ZoneHeaders)
             p == Cardinality(ZonePlaces)
  <1>3. heap.nodes = LinkNodes + Headers + HandleNodes /\ LinkNodes = l + z + p
    BY OInvCounts, Zenon
  <1>4. l \in Nat /\ z \in Nat /\ p \in Nat /\ Headers \in Nat /\ HandleNodes \in Nat
    BY OInvCounts, Zenon
  <1>5. LinkNodes' = Len(heap'.str_head) + z + p
    BY <1>1, Zenon DEF LinkNodes
  <1> HIDE DEF l, z, p
  <1>6. ((l + z + p) + Headers + HandleNodes) + d = ((l + d) + z + p) + Headers + HandleNodes
    BY <1>4
  <1>7. heap'.nodes = LinkNodes' + Headers' + HandleNodes'
    BY <1>2, <1>3, <1>5, <1>6, Zenon DEF l
  <1> QED BY <1>7, Zenon DEF Counted

\* New strings: for each variable of V, at an address that was free.
LEMMA StringsAdded ==
  ASSUME GoodHeap(heap), GoodHeap(heap'), StringSide, NEW V \in SUBSET (Var \ mine),
         var' \in [Var -> Addr \cup {Null}], \A w \in Var \ V : var'[w] = var[w],
         told' = [w \in Var |-> told'[w]], \A w \in Var \ V : told'[w] = told[w],
         mine' = mine \cup V,
         \A v \in V : /\ var'[v] \in Addr /\ heap.block[var'[v]] = "free"
                      /\ heap'.block[var'[v]] = "str" /\ heap'.mem[var'[v]] = told'[v]
                      /\ var'[v] \in Range(heap'.str_head) \cup untracked' \cup handed',
         \A x \in Addr : (\A v \in V : var'[v] # x) =>
                           heap'.block[x] = heap.block[x] /\ heap'.mem[x] = heap.mem[x],
         IsInjective(heap'.str_head),
         Range(heap.str_head) \subseteq Range(heap'.str_head),
         Range(heap'.str_head) \subseteq Range(heap.str_head) \cup {var'[v] : v \in V},
         untracked \subseteq untracked', untracked' \subseteq Addr,
         handed \subseteq handed', handed' \subseteq Addr,
         UNCHANGED <<zones, misfreed>>
  PROVE  StringSide'
  <1>1. ProgramTypes'
    BY DEF StringSide, ProgramTypes
  <1> DEFINE N == {var'[v] : v \in V}
  <1>2. N \subseteq Addr /\ \A x \in N : heap.block[x] = "free" /\ heap'.block[x] = "str"
    OBVIOUS
  <1>3. \A x \in Addr \ N : heap'.block[x] = heap.block[x] /\ heap'.mem[x] = heap.mem[x]
    OBVIOUS
  <1>4. Live("str")' = Live("str") \cup N
    <2> HIDE DEF N
    <2> QED BY <1>2, <1>3 DEF Live
  <1>5. StringsOwned'
    <2>1. Range(heap'.str_head) \subseteq {var'[v] : v \in mine'}
      <3>1. \A v \in mine : var'[v] = var[v] /\ v \in mine'
        BY DEF StringSide, ProgramTypes
      <3>2. Range(heap.str_head) \subseteq {var'[v] : v \in mine'}
        BY <3>1 DEF StringSide, StringsOwned
      <3>3. N \subseteq {var'[v] : v \in mine'}
        OBVIOUS
      <3> QED BY <3>2, <3>3
    <2>2. N \subseteq Range(heap'.str_head) \cup untracked' \cup handed'
      OBVIOUS
    <2>3. Range(heap'.str_head) \subseteq Range(heap.str_head) \cup N
      OBVIOUS
    <2> HIDE DEF N
    <2>4. Live("str") = Range(heap.str_head) \cup ((untracked \cup handed) \cap Live("str"))
      BY DEF StringSide, StringsOwned
    <2>5. Live("str")' = Range(heap'.str_head) \cup ((untracked' \cup handed') \cap Live("str")')
      BY <1>4, <2>2, <2>3, <2>4
    <2> QED BY <2>1, <2>5 DEF StringsOwned
  <1>6. StringsKept'
    <2>1. SUFFICES ASSUME ~misfreed, NEW v \in mine'
                   PROVE  var'[v] \in Addr /\ heap'.block[var'[v]] = "str" /\ heap'.mem[var'[v]] = told'[v]
      BY DEF StringsKept
    <2>2. CASE v \in V
      BY <2>2
    <2>3. CASE v \notin V
      <3>1. v \in mine /\ v \in Var /\ var'[v] = var[v] /\ told'[v] = told[v]
        BY <2>1, <2>3 DEF StringSide, ProgramTypes
      <3>2. var[v] \in Addr /\ heap.block[var[v]] = "str" /\ heap.mem[var[v]] = told[v]
        BY <2>1, <3>1 DEF StringSide, StringsKept
      <3>3. var[v] \notin N
        BY <1>2, <3>2
      <3> HIDE DEF N
      <3> QED BY <1>3, <3>1, <3>2, <3>3
    <2> QED BY <2>2, <2>3
  <1> QED BY <1>1, <1>5, <1>6 DEF StringSide

\* A variable whose string was freed gets the address of something it does
\* not own: nothing, or a line lent by a buffer.
LEMMA SpareChanged ==
  ASSUME StringSide, UNCHANGED <<heap, zones, mine, untracked, handed, misfreed>>,
         NEW v \in Var \ mine, NEW x \in Addr \cup {Null}, NEW text,
         var' = [var EXCEPT ![v] = x], told' = [told EXCEPT ![v] = text]
  PROVE  StringSide'
  <1>1. \A w \in mine : w \in Var /\ var'[w] = var[w] /\ told'[w] = told[w]
    BY DEF StringSide, ProgramTypes
  <1>2. ProgramTypes'
    BY DEF StringSide, ProgramTypes
  <1>3. StringsKept'
    BY <1>1 DEF StringSide, StringsKept
  <1>4. {var'[w] : w \in mine'} = {var[w] : w \in mine}
    BY <1>1
  <1>5. StringsOwned'
    BY <1>4 DEF StringSide, StringsOwned, Live
  <1> QED BY <1>2, <1>3, <1>5 DEF StringSide

\* An address a new string may have, and the heap after a tracked allocation.
Unlisted(h, a) ==
  GoodHeap(h) /\ h.block[a] = "free" /\ IsInjective(h.str_head) /\ a \notin Range(h.str_head)

\* The heap g is h with one more string, listed or not.
Gained(h, g, a, text, node) ==
  /\ GoodHeap(g) /\ Changes(h, g, a, "str", text)
  /\ IsInjective(g.str_head)
  /\ Range(g.str_head) = IF node THEN Range(h.str_head) \cup {a} ELSE Range(h.str_head)
  /\ \E d \in Int : g.nodes = h.nodes + d /\ Len(g.str_head) = Len(h.str_head) + d

\* A string allocated and tracked is gained.
LEMMA TrackedFacts ==
  ASSUME NEW h, NEW a \in Addr, Unlisted(h, a), NEW text, NEW node \in BOOLEAN,
         NEW g, g = cn_track_str(Alloc(h, a, "str", text), a, node)
  PROVE  Gained(h, g, a, text, node)
  <1> SUFFICES /\ GoodHeap(g) /\ Changes(h, g, a, "str", text)
               /\ IsInjective(g.str_head)
               /\ Range(g.str_head) = IF node THEN Range(h.str_head) \cup {a} ELSE Range(h.str_head)
               /\ \E d \in Int : g.nodes = h.nodes + d /\ Len(g.str_head) = Len(h.str_head) + d
    BY Zenon DEF Gained
  <1>0. GoodHeap(h) /\ h.block[a] = "free" /\ IsInjective(h.str_head) /\ a \notin Range(h.str_head)
    BY DEF Unlisted
  <1> DEFINE m == Alloc(h, a, "str", text)
  <1>1. GoodHeap(m) /\ Changes(h, m, a, "str", text) /\ m.nodes = h.nodes /\ m.str_head = h.str_head
    <2>1. "str" \in Kinds
      BY DEF Kinds
    <2> QED BY <1>0, <2>1, AllocFacts
  <1>2. g = cn_track_str(m, a, node)
    OBVIOUS
  <1> HIDE DEF m
  <1>3. /\ GoodHeap(g) /\ SameBlocks(m, g)
        /\ g.str_head = (IF node THEN <<a>> \o m.str_head ELSE m.str_head)
        /\ g.nodes = (IF node THEN m.nodes + 1 ELSE m.nodes)
    BY <1>1, <1>2, TrackFacts
  <1>4. Changes(h, g, a, "str", text)
    BY <1>1, <1>3 DEF Changes, SameBlocks
  <1>5. h.str_head \in Seq(Addr) /\ Len(h.str_head) \in Nat /\ h.nodes \in Nat
    BY <1>0, GoodHeapTypes
  <1>6. CASE node
    <2>1. g.str_head = <<a>> \o h.str_head /\ g.nodes = h.nodes + 1
      BY <1>1, <1>3, <1>6
    <2>2. /\ Len(g.str_head) = Len(h.str_head) + 1 /\ IsInjective(g.str_head)
          /\ Range(g.str_head) = Range(h.str_head) \cup {a}
      <3> DEFINE s == h.str_head
      <3>1. s \in Seq(Addr) /\ g.str_head = <<a>> \o s /\ IsInjective(s) /\ a \notin Range(s)
        BY <1>0, <1>5, <2>1
      <3> HIDE DEF s
      <3>2. Len(<<a>> \o s) = Len(s) + 1 /\ Range(<<a>> \o s) = Range(s) \cup {a}
            /\ IsInjective(<<a>> \o s)
        BY <3>1, AddedToList
      <3> QED BY <3>1, <3>2 DEF s
    <2>3. \E d \in Int : g.nodes = h.nodes + d /\ Len(g.str_head) = Len(h.str_head) + d
      BY <2>1, <2>2
    <2> QED BY <1>3, <1>4, <1>6, <2>2, <2>3
  <1>7. CASE ~node
    <2>1. g.str_head = h.str_head /\ g.nodes = h.nodes + 0 /\ Len(g.str_head) = Len(h.str_head) + 0
      BY <1>1, <1>3, <1>5, <1>7
    <2>2. \E d \in Int : g.nodes = h.nodes + d /\ Len(g.str_head) = Len(h.str_head) + d
      BY <2>1
    <2> QED BY <1>0, <1>3, <1>4, <1>7, <2>1, <2>2
  <1> QED BY <1>6, <1>7

\* A free address is on no list.
LEMMA FreeIsUnlisted ==
  ASSUME StringSide, NEW a, heap.block[a] = "free"
  PROVE  a \notin Range(heap.str_head)
  <1>1. Range(heap.str_head) \subseteq Live("str")
    BY DEF StringSide, StringsOwned
  <1> QED BY <1>1 DEF Live

\* A string operation that succeeds: copy, concatenation, formatting, recv.
LEMMA GainOwned ==
  ASSUME OInv, NEW v \in Var, Spare(v), NEW a \in Addr, heap.block[a] = "free", NEW text,
         NEW node \in BOOLEAN,
         heap' = cn_track_str(Alloc(heap, a, "str", text), a, node), Receive(v, a, text, node),
         UNCHANGED <<zones, handed, misfreed, bufferVars, handle>>, call' = Idle
  PROVE  OInv'
  <1>1. GoodHeap(heap) /\ StringSide /\ ZoneSide /\ BufferSide /\ CallSide
    BY OInvParts
  <1>2. IsInjective(heap.str_head) /\ a \notin Range(heap.str_head)
    BY <1>1, FreeIsUnlisted DEF StringSide, StringsOwned
  <1>3. /\ GoodHeap(heap')
        /\ Changes(heap, heap', a, "str", text)
        /\ IsInjective(heap'.str_head)
        /\ Range(heap'.str_head) = IF node THEN Range(heap.str_head) \cup {a} ELSE Range(heap.str_head)
        /\ \E d \in Int : heap'.nodes = heap.nodes + d /\ Len(heap'.str_head) = Len(heap.str_head) + d
    <2>1. Unlisted(heap, a)
      BY <1>1, <1>2 DEF Unlisted
    <2>2. Gained(heap, heap', a, text, node)
      BY <2>1, TrackedFacts
    <2> QED BY <2>2, Zenon DEF Gained
  <1>4. StringSide'
    <2> DEFINE V == {v}
    <2>1. V \in SUBSET (Var \ mine)
      BY DEF Spare
    <2>2. /\ var' \in [Var -> Addr \cup {Null}] /\ var'[v] = a /\ told'[v] = text
          /\ told' = [w \in Var |-> told'[w]]
          /\ \A w \in Var \ V : var'[w] = var[w] /\ told'[w] = told[w]
          /\ mine' = mine \cup V
      BY <1>1 DEF Receive, StringSide, ProgramTypes
    <2>3. untracked \subseteq untracked' /\ untracked' \subseteq Addr /\ handed' \subseteq Addr
          /\ (~node => a \in untracked')
      BY <1>1 DEF Receive, StringSide, ProgramTypes
    <2>4. /\ heap'.block[a] = "str" /\ heap'.mem[a] = text
          /\ \A x \in Addr \ {a} : heap'.block[x] = heap.block[x] /\ heap'.mem[x] = heap.mem[x]
      BY <1>3 DEF Changes
    <2>5. {var'[w] : w \in V} = {a}
      BY <2>2
    <2>6. a \in Range(heap'.str_head) \cup untracked' \cup handed'
      BY <1>3, <2>3
    <2>7. \A w \in V : /\ var'[w] \in Addr /\ heap.block[var'[w]] = "free"
                       /\ heap'.block[var'[w]] = "str" /\ heap'.mem[var'[w]] = told'[w]
                       /\ var'[w] \in Range(heap'.str_head) \cup untracked' \cup handed'
      BY <2>2, <2>4, <2>6
    <2>8. \A x \in Addr : (\A w \in V : var'[w] # x) =>
                            heap'.block[x] = heap.block[x] /\ heap'.mem[x] = heap.mem[x]
      BY <2>2, <2>4
    <2>9. Range(heap.str_head) \subseteq Range(heap'.str_head)
          /\ Range(heap'.str_head) \subseteq Range(heap.str_head) \cup {var'[w] : w \in V}
      BY <1>3, <2>5
    <2> HIDE DEF V
    <2>10. \A w \in Var \ V : var'[w] = var[w]
      BY <2>2
    <2>11. \A w \in Var \ V : told'[w] = told[w]
      BY <2>2
    <2>12. handed \subseteq handed' /\ UNCHANGED <<zones, misfreed>>
      OBVIOUS
    <2> QED BY <1>1, <1>3, <2>1, <2>2, <2>3, <2>7, <2>8, <2>9, <2>10, <2>11, <2>12, StringsAdded, Zenon
  <1>5. UNCHANGED <<bytesOpen, linesOpen>>
    BY DEF bufferVars
  <1>6. Counted'
    BY <1>3, <1>5, StringsCounted
  <1>7. ZoneSide' /\ BufferSide' /\ CallSide'
    <2>1. Keeps(heap, heap', "payload") /\ Keeps(heap, heap', "array") /\ Keeps(heap, heap', "line")
      BY <1>3, ChangesKeep
    <2> QED BY <1>1, <2>1, ZonesFrame, BuffersFrame, CallFrame
  <1> QED BY <1>3, <1>4, <1>6, <1>7, OInvIntro

-----------------------------------------------------------------------------
(* Steps that concern strings only.                                           *)

\* What such a step has to show.
LEMMA StringStep ==
  ASSUME OInv, GoodHeap(heap'), StringSide', CallSide',
         Keeps(heap, heap', "payload"), Keeps(heap, heap', "array"), Keeps(heap, heap', "line"),
         \E d \in Int : heap'.nodes = heap.nodes + d /\ Len(heap'.str_head) = Len(heap.str_head) + d,
         UNCHANGED <<zones, bufferVars, handle>>
  PROVE  OInv'
  <1>1. ZoneSide /\ BufferSide
    BY OInvParts
  <1>2. ZoneSide' /\ BufferSide'
    BY <1>1, ZonesFrame, BuffersFrame
  <1>3. UNCHANGED <<bytesOpen, linesOpen>>
    BY DEF bufferVars
  <1>4. Counted'
    BY <1>3, StringsCounted
  <1> QED BY <1>2, <1>4, OInvIntro

\* A step that leaves the cells and the list alone.
LEMMA NoCellMoved ==
  ASSUME GoodHeap(heap), heap'.nodes = heap.nodes, heap'.str_head = heap.str_head
  PROVE  \E d \in Int : heap'.nodes = heap.nodes + d /\ Len(heap'.str_head) = Len(heap.str_head) + d
  <1> DEFINE l == Len(heap.str_head)
  <1>1. heap.nodes \in Nat /\ l \in Nat /\ Len(heap'.str_head) = l
    BY GoodHeapTypes
  <1> HIDE DEF l
  <1>2. heap'.nodes = heap.nodes + 0 /\ Len(heap'.str_head) = l + 0
    BY <1>1
  <1> QED BY <1>2 DEF l

\* A step that leaves the heap and its users alone keeps OInv.
LEMMA HeapUntouched ==
  ASSUME OInv, UNCHANGED <<heapVars, bufferVars, handle>>, CallSide'
  PROVE  OInv'
  <1>1. GoodHeap(heap) /\ StringSide
    BY OInvParts
  <1>2. heap' = heap /\ UNCHANGED <<zones, var, mine, told, untracked, handed, misfreed>>
    BY DEF heapVars
  <1>3. \A kind : Keeps(heap, heap', kind)
    BY <1>2, SameKeeps DEF SameBlocks
  <1>4. GoodHeap(heap')
    BY <1>1, <1>2
  <1>5. StringSide'
    BY <1>1, <1>2, <1>3, StringsFrame
  <1>7. \E d \in Int : heap'.nodes = heap.nodes + d /\ Len(heap'.str_head) = Len(heap.str_head) + d
    BY <1>1, <1>2, NoCellMoved
  <1> QED BY <1>2, <1>3, <1>4, <1>5, <1>7, StringStep

\* A variable is given the empty string or a line lent by a buffer.
LEMMA SpareStep ==
  ASSUME OInv, UNCHANGED <<heap, zones, mine, untracked, handed, misfreed>>,
         NEW v \in Var \ mine, NEW x \in Addr \cup {Null}, NEW text,
         var' = [var EXCEPT ![v] = x], told' = [told EXCEPT ![v] = text],
         UNCHANGED <<bufferVars, handle>>, CallSide'
  PROVE  OInv'
  <1>1. GoodHeap(heap) /\ StringSide
    BY OInvParts
  <1>2. StringSide'
    BY <1>1, SpareChanged
  <1>3. \A kind : Keeps(heap, heap', kind)
    BY SameKeeps DEF SameBlocks
  <1>5. \E d \in Int : heap'.nodes = heap.nodes + d /\ Len(heap'.str_head) = Len(heap.str_head) + d
    BY <1>1, NoCellMoved
  <1>6. GoodHeap(heap')
    BY <1>1
  <1> QED BY <1>2, <1>3, <1>5, <1>6, StringStep

\* The form every copying operation has.
LEMMA DupStep ==
  ASSUME OInv, NEW v \in Var, Spare(v), NEW a \in Malloc(heap), NEW text, NEW node \in BOOLEAN,
         cn_dup_range(v, text, a, node),
         UNCHANGED <<zones, handed, misfreed, bufferVars, handle>>, call' = Idle
  PROVE  OInv'
  <1>1. a \in Place /\ (a # Null => a \in Addr /\ heap.block[a] = "free")
    BY MallocFacts
  <1>2. CASE a = Null
    <2>1. CallSide'
      BY OInvParts, CallFrame
    <2>2. v \in Var \ mine /\ Null \in Addr \cup {Null}
      BY DEF Spare
    <2>3. UNCHANGED <<heap, mine, untracked>> /\ var' = [var EXCEPT ![v] = Null]
          /\ told' = [told EXCEPT ![v] = <<>>]
      BY <1>2 DEF cn_dup_range, ReceiveEmpty
    <2> QED BY <2>1, <2>2, <2>3, SpareStep
  <1>3. CASE a # Null
    <2>1. heap' = cn_track_str(Alloc(heap, a, "str", text), a, node) /\ Receive(v, a, text, node)
      BY <1>3 DEF cn_dup_range
    <2> QED BY <1>1, <1>3, <2>1, GainOwned
  <1> QED BY <1>2, <1>3

\* cn_dup_cstr and the other makers of strings (core.c).
LEMMA NewStringStep ==
  ASSUME OInv, NEW v \in Var, NEW text, NEW a, NEW node \in BOOLEAN, NewString(v, text, a, node), Between
  PROVE  OInv'
  <1>1. UNCHANGED <<zones, handed, misfreed, bufferVars, handle>> /\ call' = Idle
    BY DEF NewString, Between, notHeap, ipcVars
  <1>2. Spare(v) /\ a \in Malloc(heap) /\ cn_dup_range(v, text, a, node)
    BY DEF NewString
  <1> QED BY <1>1, <1>2, DupStep

-----------------------------------------------------------------------------
(* Release of a string.                                                       *)

\* The heap without one of its listed strings.
Dropped(h, g, a) ==
  /\ GoodHeap(g) /\ Changes(h, g, a, "free", <<>>)
  /\ IsInjective(g.str_head) /\ Range(g.str_head) = Range(h.str_head) \ {a}
  /\ g.nodes = h.nodes - 1 /\ Len(g.str_head) = Len(h.str_head) - 1

\* cn_free_str of a string on the list drops that one string.
LEMMA FreeStrFacts ==
  ASSUME NEW h, GoodHeap(h), IsInjective(h.str_head), NEW a \in Range(h.str_head),
         a \in Addr, h.block[a] # "free", 1 <= h.nodes, NEW g, g = cn_free_str(h, a)
  PROVE  Dropped(h, g, a)
  <1> DEFINE s == h.str_head
             hits == {i \in DOMAIN s : s[i] = a}
             n == Min(hits)
             t == RemoveAt(s, n)
             h1 == [h EXCEPT !.str_head = t]
             h2 == Free(h1, a)
  <1>1. s \in Seq(Addr) /\ DOMAIN s = 1..Len(s) /\ Len(s) \in Nat
    BY GoodHeapTypes, LenProperties
  <1>2. n \in 1..Len(s) /\ s[n] = a /\ hits # {}
    <2>1. hits # {} /\ hits \in SUBSET Nat
      BY <1>1 DEF Range
    <2>2. n \in hits
      <3> HIDE DEF hits
      <3> QED BY <2>1, LeastNat DEF Min
    <2> QED BY <1>1, <2>1, <2>2
  <1>3. g = FreeNodes(h2, 1)
    BY <1>2 DEF cn_free_str
  <1>4. t \in Seq(Addr) /\ Len(t) = Len(s) - 1 /\ IsInjective(t) /\ Range(t) = Range(s) \ {a}
    <2> HIDE DEF s, n
    <2> SUFFICES IsInjective(s)
      BY <1>1, <1>2, RemoveAtFacts, RemovedFromList
    <2> QED BY DEF s
  <1> HIDE DEF t, hits, n
  <1>5. GoodHeap(h1) /\ SameBlocks(h, h1) /\ h1.nodes = h.nodes /\ h1.str_head = t
    BY <1>4, LinkFacts
  <1> HIDE DEF h1
  <1>6. h1.block[a] # "free"
    BY <1>5 DEF SameBlocks
  <1>7. GoodHeap(h2) /\ Changes(h1, h2, a, "free", <<>>) /\ h2.nodes = h1.nodes
        /\ h2.str_head = h1.str_head
    BY <1>5, <1>6, FreeFacts
  <1> HIDE DEF h2
  <1>8. 1 \in Nat /\ 1 <= h2.nodes
    BY <1>5, <1>7
  <1>9. GoodHeap(g) /\ SameBlocks(h2, g) /\ g.str_head = h2.str_head /\ g.nodes = h2.nodes - 1
    BY <1>3, <1>7, <1>8, FreeNodesFacts
  <1>10. Changes(h, g, a, "free", <<>>)
    BY <1>5, <1>7, <1>9 DEF Changes, SameBlocks
  <1>11. g.str_head = t /\ g.nodes = h.nodes - 1
    BY <1>5, <1>7, <1>9
  <1> QED BY <1>4, <1>9, <1>10, <1>11 DEF Dropped, s

\* The program frees a string, its own or one that is no longer its own.
LEMMA FreeStringStep ==
  ASSUME OInv, NEW v \in Var, FreeString(v), Between
  PROVE  OInv'
  <1>1. UNCHANGED <<zones, var, untracked, handed, bufferVars, handle>> /\ call' = Idle
    BY DEF FreeString, Between, notHeap, ipcVars
  <1>2. GoodHeap(heap) /\ StringSide /\ CallSide
    BY OInvParts
  <1>3. CallSide'
    BY <1>1, <1>2, CallFrame
  <1>4. mine' = mine \ {v} /\ told' = [told EXCEPT ![v] = <<>>]
        /\ heap' = cn_free_str(heap, var[v])
    BY DEF FreeString
  <1>5. misfreed' \in BOOLEAN
    BY DEF FreeString
  <1>6. ProgramTypes'
    BY <1>1, <1>2, <1>4, <1>5 DEF StringSide, ProgramTypes
  <1>7. \A w \in mine' : w \in mine /\ w \in Var /\ w # v /\ told'[w] = told[w]
    BY <1>2, <1>4 DEF StringSide, ProgramTypes
  <1>8. CASE var[v] \notin Range(heap.str_head)
    <2>1. heap' = heap
      <3>1. {i \in DOMAIN heap.str_head : heap.str_head[i] = var[v]} = {}
        BY <1>8 DEF Range
      <3> QED BY <1>4, <3>1 DEF cn_free_str
    <2>2. Live("str")' = Live("str")
      BY <2>1 DEF Live
    <2>3. Range(heap.str_head) \subseteq {var[w] : w \in mine'}
      BY <1>2, <1>4, <1>8 DEF StringSide, StringsOwned
    <2>4. StringsOwned'
      BY <1>1, <1>2, <2>1, <2>2, <2>3 DEF StringSide, StringsOwned
    <2>5. misfreed => misfreed'
      BY DEF FreeString
    <2>6. StringsKept'
      BY <1>1, <1>2, <1>7, <2>1, <2>5 DEF StringSide, StringsKept
    <2>7. StringSide'
      BY <1>6, <2>4, <2>6 DEF StringSide
    <2>8. \A kind : Keeps(heap, heap', kind)
      BY <2>1, SameKeeps DEF SameBlocks
    <2>9. GoodHeap(heap')
      BY <1>2, <2>1
    <2>11. \E d \in Int : heap'.nodes = heap.nodes + d /\ Len(heap'.str_head) = Len(heap.str_head) + d
      BY <1>2, <2>1, NoCellMoved
    <2> QED BY <1>1, <1>3, <2>7, <2>8, <2>9, <2>11, StringStep
  <1>9. CASE var[v] \in Range(heap.str_head)
    <2> DEFINE a == var[v]
    <2>1. a \in Live("str") /\ a \in Addr /\ heap.block[a] = "str" /\ IsInjective(heap.str_head)
      BY <1>2, <1>9 DEF StringSide, StringsOwned, Live
    <2>2. 1 <= heap.nodes
      <3> DEFINE l == Len(heap.str_head)
                 z == Cardinality(ZoneHeaders)
                 p == Cardinality(ZonePlaces)
      <3>1. heap.nodes = (l + z + p) + Headers + HandleNodes
            /\ l \in Nat /\ z \in Nat /\ p \in Nat /\ Headers \in Nat /\ HandleNodes \in Nat
        BY OInvCounts, Zenon
      <3>2. l # 0
        <4>1. heap.str_head \in Seq(Addr) /\ DOMAIN heap.str_head = 1..l
          BY <1>2, GoodHeapTypes, LenProperties
        <4> HIDE DEF l
        <4>2. DOMAIN heap.str_head # {}
          BY <1>9 DEF Range
        <4> QED BY <4>1, <4>2
      <3> HIDE DEF l, z, p
      <3> QED BY <3>1, <3>2
    <2>3. Dropped(heap, heap', a)
      <3>1. heap.block[a] # "free" /\ a \in Range(heap.str_head)
        BY <1>9, <2>1
      <3> HIDE DEF a
      <3>2. heap' = cn_free_str(heap, a)
        BY <1>4 DEF a
      <3> QED BY <1>2, <2>1, <2>2, <3>1, <3>2, FreeStrFacts
    <2>4. GoodHeap(heap') /\ Changes(heap, heap', a, "free", <<>>)
          /\ IsInjective(heap'.str_head) /\ Range(heap'.str_head) = Range(heap.str_head) \ {a}
          /\ heap'.nodes = heap.nodes - 1 /\ Len(heap'.str_head) = Len(heap.str_head) - 1
      BY <2>3, Zenon DEF Dropped
    <2>5. Live("str")' = Live("str") \ {a}
      BY <2>1, <2>4 DEF Live, Changes
    <2>6. StringsOwned'
      <3>1. Range(heap'.str_head) \subseteq {var'[w] : w \in mine'}
        BY <1>1, <1>2, <1>4, <2>4 DEF StringSide, StringsOwned
      <3>2. Live("str")' = Range(heap'.str_head) \cup ((untracked' \cup handed') \cap Live("str")')
        <4>1. Live("str") = Range(heap.str_head) \cup ((untracked \cup handed) \cap Live("str"))
          BY <1>2 DEF StringSide, StringsOwned
        <4> HIDE DEF a
        <4> QED BY <1>1, <2>4, <2>5, <4>1
      <3> QED BY <2>4, <3>1, <3>2 DEF StringsOwned
    <2>7. StringsKept'
      <3>1. SUFFICES ASSUME ~misfreed', NEW w \in mine'
                     PROVE  var'[w] \in Addr /\ heap'.block[var'[w]] = "str" /\ heap'.mem[var'[w]] = told'[w]
        BY DEF StringsKept
      <3>2. ~misfreed /\ var[w] # a
        BY <1>4, <1>7, <1>9, <3>1 DEF FreeString
      <3>3. var[w] \in Addr /\ heap.block[var[w]] = "str" /\ heap.mem[var[w]] = told[w]
        BY <1>2, <1>7, <3>2 DEF StringSide, StringsKept
      <3> HIDE DEF a
      <3> QED BY <1>1, <1>7, <2>4, <3>2, <3>3 DEF Changes
    <2>8. StringSide'
      BY <1>6, <2>6, <2>7 DEF StringSide
    <2>9. Keeps(heap, heap', "payload") /\ Keeps(heap, heap', "array") /\ Keeps(heap, heap', "line")
      <3> HIDE DEF a
      <3> QED BY <2>1, <2>4, ChangesKeep
    <2>10. \E d \in Int : heap'.nodes = heap.nodes + d /\ Len(heap'.str_head) = Len(heap.str_head) + d
      <3> DEFINE l == Len(heap.str_head)
      <3>1. heap.nodes \in Nat /\ l \in Nat
        BY <1>2, GoodHeapTypes
      <3>2. heap'.nodes = heap.nodes - 1 /\ Len(heap'.str_head) = l - 1
        BY <2>4
      <3> HIDE DEF l
      <3>3. heap'.nodes = heap.nodes + (-1) /\ Len(heap'.str_head) = l + (-1) /\ -1 \in Int
        BY <3>1, <3>2
      <3> QED BY <3>3 DEF l
    <2> QED BY <1>1, <1>3, <2>4, <2>8, <2>9, <2>10, StringStep
  <1> QED BY <1>8, <1>9

-----------------------------------------------------------------------------
(* Strings that arrive from a socket or from a child.                         *)

\* A block that is allocated and released again leaves no trace.
LEMMA AllocFreeFacts ==
  ASSUME NEW h, GoodHeap(h), NEW a \in Addr, h.block[a] = "free", NEW text,
         NEW g, g = Free(Alloc(h, a, "str", text), a)
  PROVE  GoodHeap(g) /\ Changes(h, g, a, "free", <<>>) /\ g.nodes = h.nodes /\ g.str_head = h.str_head
  <1> DEFINE m == Alloc(h, a, "str", text)
  <1>1. GoodHeap(m) /\ Changes(h, m, a, "str", text) /\ m.nodes = h.nodes /\ m.str_head = h.str_head
    <2>1. "str" \in Kinds
      BY DEF Kinds
    <2> QED BY <2>1, AllocFacts
  <1>2. g = Free(m, a)
    OBVIOUS
  <1> HIDE DEF m
  <1>3. m.block[a] # "free"
    BY <1>1 DEF Changes
  <1>4. GoodHeap(g) /\ Changes(m, g, a, "free", <<>>) /\ g.nodes = m.nodes /\ g.str_head = m.str_head
    BY <1>1, <1>2, <1>3, FreeFacts
  <1> QED BY <1>1, <1>4 DEF Changes

\* A block allocated and freed again on a failing path.
LEMMA NothingGained ==
  ASSUME OInv, NEW a \in Addr, heap.block[a] = "free", NEW text,
         heap' = Free(Alloc(heap, a, "str", text), a),
         UNCHANGED <<zones, var, mine, told, untracked, handed, misfreed, bufferVars, handle>>, CallSide'
  PROVE  OInv'
  <1>1. GoodHeap(heap) /\ StringSide
    BY OInvParts
  <1>2. GoodHeap(heap') /\ Changes(heap, heap', a, "free", <<>>) /\ heap'.nodes = heap.nodes
        /\ heap'.str_head = heap.str_head
    BY <1>1, AllocFreeFacts
  <1>3. \A kind : kind # "free" => Keeps(heap, heap', kind)
    BY <1>2, ChangesKeep
  <1>4. Keeps(heap, heap', "str") /\ Keeps(heap, heap', "payload") /\ Keeps(heap, heap', "array")
        /\ Keeps(heap, heap', "line")
    BY <1>3
  <1>5. StringSide'
    BY <1>1, <1>2, <1>4, StringsFrame
  <1>6. \E d \in Int : heap'.nodes = heap.nodes + d /\ Len(heap'.str_head) = Len(heap.str_head) + d
    BY <1>1, <1>2, NoCellMoved
  <1> QED BY <1>2, <1>4, <1>5, <1>6, StringStep

\* cn_net_recv_chunk hands out what was received as a tracked string.
LEMMA RecvStep ==
  ASSUME OInv, NEW i, NEW v \in Var, NEW text, NEW a, NEW node \in BOOLEAN,
         cn_net_recv_chunk(i, v, text, a, node), UNCHANGED bufferVars
  PROVE  OInv'
  <1>1. a \in Addr /\ heap.block[a] = "free"
    BY MallocFacts DEF cn_net_recv_chunk
  <1>2. /\ Spare(v) /\ Receive(v, a, text, node)
        /\ heap' = cn_track_str(Alloc(heap, a, "str", text), a, node)
        /\ UNCHANGED <<zones, handed, misfreed, handle>> /\ call' = Idle
    BY DEF cn_net_recv_chunk, ipcVars
  <1> QED BY <1>1, <1>2, GainOwned

\* recv fails: the block for the answer is freed.
LEMMA RecvFailsStep ==
  ASSUME OInv, NEW i, NEW a, cn_net_recv_fails(i, a), UNCHANGED bufferVars
  PROVE  OInv'
  <1>1. a \in Addr /\ heap.block[a] = "free"
    BY MallocFacts DEF cn_net_recv_fails
  <1>2. /\ heap' = Free(Alloc(heap, a, "str", <<>>), a)
        /\ UNCHANGED <<zones, var, mine, told, untracked, handed, misfreed, handle>> /\ call' = Idle
    BY DEF cn_net_recv_fails, ipcVars
  <1>3. CallSide'
    BY <1>2, OInvParts, CallFrame
  <1> QED BY <1>1, <1>2, <1>3, NothingGained

\* A string on the list, or not if there is no node for it.
Listed(h, g, a, node) ==
  /\ GoodHeap(g) /\ SameBlocks(h, g) /\ IsInjective(g.str_head)
  /\ Range(g.str_head) = Range(h.str_head) \cup (IF node THEN {a} ELSE {})
  /\ \E d \in Int : g.nodes = h.nodes + d /\ Len(g.str_head) = Len(h.str_head) + d

\* Tracking a string that is not on the list.
LEMMA ListedFacts ==
  ASSUME NEW h, GoodHeap(h), NEW a \in Addr, IsInjective(h.str_head), a \notin Range(h.str_head),
         NEW node \in BOOLEAN, NEW g, g = cn_track_str(h, a, node)
  PROVE  Listed(h, g, a, node)
  <1> DEFINE s == h.str_head
             l == Len(s)
  <1>1. /\ GoodHeap(g) /\ SameBlocks(h, g)
        /\ g.str_head = (IF node THEN <<a>> \o s ELSE s)
        /\ g.nodes = (IF node THEN h.nodes + 1 ELSE h.nodes)
    BY TrackFacts
  <1>2. s \in Seq(Addr) /\ l \in Nat /\ h.nodes \in Nat /\ IsInjective(s) /\ a \notin Range(s)
    BY GoodHeapTypes
  <1> HIDE DEF s
  <1>3. Len(<<a>> \o s) = l + 1 /\ Range(<<a>> \o s) = Range(s) \cup {a} /\ IsInjective(<<a>> \o s)
    BY <1>2, AddedToList
  <1>4. IsInjective(g.str_head) /\ Range(g.str_head) = Range(s) \cup (IF node THEN {a} ELSE {})
    BY <1>1, <1>2, <1>3
  <1>5. \E d \in Int : g.nodes = h.nodes + d /\ Len(g.str_head) = l + d
    <2>1. CASE node
      <3>1. g.nodes = h.nodes + 1 /\ Len(g.str_head) = l + 1
        BY <1>1, <1>3, <2>1
      <3> QED BY <3>1
    <2>2. CASE ~node
      <3>1. g.nodes = h.nodes /\ Len(g.str_head) = l
        BY <1>1, <2>2
      <3> HIDE DEF l
      <3>2. g.nodes = h.nodes + 0 /\ Len(g.str_head) = l + 0
        BY <1>2, <3>1
      <3> QED BY <3>2
    <2> QED BY <2>1, <2>2
  <1> QED BY <1>1, <1>4, <1>5, Zenon DEF Listed, s, l

\* Two strings at once.
GainedTwo(h, g, a, b, text, listed) ==
  /\ GoodHeap(g)
  /\ \A x \in {a, b} : g.block[x] = "str" /\ g.mem[x] = text
  /\ \A x \in Addr \ {a, b} : g.block[x] = h.block[x] /\ g.mem[x] = h.mem[x]
  /\ IsInjective(g.str_head) /\ Range(g.str_head) = Range(h.str_head) \cup listed
  /\ \E d \in Int : g.nodes = h.nodes + d /\ Len(g.str_head) = Len(h.str_head) + d

\* The two strings of a packet, its data and its sender, and which are on the list.
LEMMA PacketFacts ==
  ASSUME NEW h, NEW a \in Addr, NEW b \in Addr, a # b, Unlisted(h, a), Unlisted(h, b), NEW text,
         NEW nodeA \in BOOLEAN, NEW nodeB \in BOOLEAN,
         NEW g, g = Packet(h, a, b, text, nodeA, nodeB)
  PROVE  GainedTwo(h, g, a, b, text, (IF nodeA THEN {a} ELSE {}) \cup (IF nodeB THEN {b} ELSE {}))
  <1> DEFINE h1 == Alloc(h, a, "str", text)
             h2 == Alloc(h1, b, "str", text)
             h3 == cn_track_str(h2, a, nodeA)
  <1>0. /\ GoodHeap(h) /\ IsInjective(h.str_head) /\ a \notin Range(h.str_head)
        /\ b \notin Range(h.str_head) /\ "str" \in Kinds /\ b # Null
    BY NullIsNoAddress DEF Unlisted, Kinds
  <1>1. g = cn_track_str(h3, b, nodeB)
    BY <1>0 DEF Packet
  <1>2. GoodHeap(h1) /\ Changes(h, h1, a, "str", text) /\ h1.nodes = h.nodes /\ h1.str_head = h.str_head
    BY <1>0, AllocFacts
  <1> HIDE DEF h1
  <1>3. GoodHeap(h2) /\ Changes(h1, h2, b, "str", text) /\ h2.nodes = h1.nodes
        /\ h2.str_head = h1.str_head
    BY <1>0, <1>2, AllocFacts
  <1> HIDE DEF h2
  <1>4. Listed(h2, h3, a, nodeA)
    <2>1. IsInjective(h2.str_head) /\ a \notin Range(h2.str_head)
      BY <1>0, <1>2, <1>3
    <2> QED BY <1>3, <2>1, ListedFacts
  <1> HIDE DEF h3
  <1>5. /\ GoodHeap(h3) /\ SameBlocks(h2, h3) /\ IsInjective(h3.str_head)
        /\ Range(h3.str_head) = Range(h.str_head) \cup (IF nodeA THEN {a} ELSE {})
        /\ \E d \in Int : h3.nodes = h2.nodes + d /\ Len(h3.str_head) = Len(h2.str_head) + d
    <2>1. h2.str_head = h.str_head
      BY <1>2, <1>3
    <2> QED BY <1>4, <2>1, Zenon DEF Listed
  <1>6. Listed(h3, g, b, nodeB)
    <2>1. b \notin Range(h3.str_head)
      BY <1>0, <1>5
    <2> QED BY <1>1, <1>5, <2>1, ListedFacts
  <1>7. /\ GoodHeap(g) /\ SameBlocks(h3, g) /\ IsInjective(g.str_head)
        /\ Range(g.str_head) = Range(h3.str_head) \cup (IF nodeB THEN {b} ELSE {})
        /\ \E d \in Int : g.nodes = h3.nodes + d /\ Len(g.str_head) = Len(h3.str_head) + d
    BY <1>6, Zenon DEF Listed
  <1>8. \A x \in {a, b} : g.block[x] = "str" /\ g.mem[x] = text
    BY <1>2, <1>3, <1>5, <1>7 DEF Changes, SameBlocks
  <1>9. \A x \in Addr \ {a, b} : g.block[x] = h.block[x] /\ g.mem[x] = h.mem[x]
    BY <1>2, <1>3, <1>5, <1>7 DEF Changes, SameBlocks
  <1>10. \E d \in Int : g.nodes = h.nodes + d /\ Len(g.str_head) = Len(h.str_head) + d
    <2> DEFINE l == Len(h.str_head)
               m == Len(h3.str_head)
    <2>1. h2.nodes = h.nodes /\ Len(h2.str_head) = l /\ h.nodes \in Nat /\ l \in Nat
      BY <1>0, <1>2, <1>3, GoodHeapTypes
    <2>2. PICK d \in Int : h3.nodes = h.nodes + d /\ m = l + d
      BY <1>5, <2>1
    <2>3. PICK e \in Int : g.nodes = h3.nodes + e /\ Len(g.str_head) = m + e
      BY <1>7
    <2> HIDE DEF l, m
    <2>4. d + e \in Int /\ g.nodes = h.nodes + (d + e) /\ Len(g.str_head) = l + (d + e)
      BY <2>1, <2>2, <2>3
    <2> QED BY <2>4 DEF l
  <1>11. Range(g.str_head) = Range(h.str_head)
            \cup ((IF nodeA THEN {a} ELSE {}) \cup (IF nodeB THEN {b} ELSE {}))
    BY <1>5, <1>7
  <1> QED BY <1>7, <1>8, <1>9, <1>10, <1>11, Zenon DEF GainedTwo

\* cn_net_udp_recv_from: both strings have an owner, or neither is left.
LEMMA PacketStep ==
  ASSUME OInv, NEW i, NEW v \in Var, NEW w \in Var, NEW text, NEW a, NEW b,
         NEW nodeA \in BOOLEAN, NEW nodeB \in BOOLEAN,
         cn_net_udp_recv_from(i, v, w, text, a, b, nodeA, nodeB), UNCHANGED bufferVars
  PROVE  OInv'
  <1>1. /\ Spare(v) /\ Spare(w) /\ v # w
        /\ heap' = Packet(heap, a, b, text, nodeA, nodeB)
        /\ UNCHANGED <<zones, handed, misfreed, handle>> /\ call' = Idle
    BY DEF cn_net_udp_recv_from, ipcVars
  <1>2. GoodHeap(heap) /\ StringSide /\ CallSide
    BY OInvParts
  <1>3. CallSide'
    BY <1>1, <1>2, CallFrame
  <1>4. a \in Addr /\ heap.block[a] = "free"
    BY MallocFacts DEF cn_net_udp_recv_from
  <1>5. CASE b = Null
    <2>1. heap' = Free(Alloc(heap, a, "str", text), a)
      BY <1>1, <1>5 DEF Packet
    <2>2. UNCHANGED <<var, mine, told, untracked>>
      BY <1>5 DEF cn_net_udp_recv_from
    <2> QED BY <1>1, <1>3, <1>4, <2>1, <2>2, NothingGained
  <1>6. CASE b # Null
    <2> DEFINE h1 == Alloc(heap, a, "str", text)
    <2>1. b \in Addr /\ b # a /\ heap.block[b] = "free"
      <3>1. b \in Malloc(h1)
        BY DEF cn_net_udp_recv_from
      <3>2. Changes(heap, h1, a, "str", text)
        <4>1. "str" \in Kinds
          BY DEF Kinds
        <4> QED BY <1>2, <1>4, <4>1, AllocFacts
      <3> HIDE DEF h1
      <3>3. b \in Addr /\ h1.block[b] = "free"
        BY <1>6, <3>1, MallocFacts
      <3> QED BY <3>2, <3>3 DEF Changes
    <2> DEFINE listed == (IF nodeA THEN {a} ELSE {}) \cup (IF nodeB THEN {b} ELSE {})
               V == {v, w}
    <2>2. IsInjective(heap.str_head) /\ a \notin Range(heap.str_head) /\ b \notin Range(heap.str_head)
      BY <1>2, <1>4, <2>1, FreeIsUnlisted DEF StringSide, StringsOwned
    <2>3. GainedTwo(heap, heap', a, b, text, listed)
      <3>1. Unlisted(heap, a) /\ Unlisted(heap, b)
        BY <1>2, <1>4, <2>1, <2>2 DEF Unlisted
      <3> QED BY <1>1, <1>4, <2>1, <3>1, PacketFacts
    <2>4. /\ GoodHeap(heap')
          /\ \A x \in {a, b} : heap'.block[x] = "str" /\ heap'.mem[x] = text
          /\ \A x \in Addr \ {a, b} : heap'.block[x] = heap.block[x] /\ heap'.mem[x] = heap.mem[x]
          /\ IsInjective(heap'.str_head) /\ Range(heap'.str_head) = Range(heap.str_head) \cup listed
          /\ \E d \in Int : heap'.nodes = heap.nodes + d /\ Len(heap'.str_head) = Len(heap.str_head) + d
      BY <2>3, Zenon DEF GainedTwo
    <2>5. /\ var' = [var EXCEPT ![v] = a, ![w] = b]
          /\ told' = [told EXCEPT ![v] = text, ![w] = text]
          /\ mine' = mine \cup V
          /\ untracked' = untracked \cup {x \in {a, b} : ~(IF x = a THEN nodeA ELSE nodeB)}
      BY <1>6 DEF cn_net_udp_recv_from
    <2>6. V \in SUBSET (Var \ mine)
      BY <1>1 DEF Spare
    <2>7. /\ var' \in [Var -> Addr \cup {Null}] /\ var'[v] = a /\ var'[w] = b
          /\ \A x \in Var \ V : var'[x] = var[x]
      BY <1>1, <1>2, <1>4, <2>1, <2>5 DEF StringSide, ProgramTypes
    <2>8. /\ told' = [x \in Var |-> told'[x]] /\ told'[v] = text /\ told'[w] = text
          /\ \A x \in Var \ V : told'[x] = told[x]
      BY <1>1, <1>2, <2>5 DEF StringSide, ProgramTypes
    <2>9. untracked \subseteq untracked' /\ untracked' \subseteq Addr /\ handed' \subseteq Addr
          /\ {a, b} \subseteq listed \cup untracked'
      BY <1>1, <1>2, <1>4, <2>1, <2>5 DEF StringSide, ProgramTypes
    <2>10. listed \subseteq {a, b}
      OBVIOUS
    <2> HIDE DEF listed, h1
    <2>11. {var'[x] : x \in V} = {a, b}
      BY <2>7
    <2>12. \A x \in V : /\ var'[x] \in Addr /\ heap.block[var'[x]] = "free"
                        /\ heap'.block[var'[x]] = "str" /\ heap'.mem[var'[x]] = told'[x]
                        /\ var'[x] \in Range(heap'.str_head) \cup untracked' \cup handed'
      BY <1>4, <2>1, <2>4, <2>7, <2>8, <2>9
    <2>13. \A x \in Addr : (\A y \in V : var'[y] # x) =>
                             heap'.block[x] = heap.block[x] /\ heap'.mem[x] = heap.mem[x]
      BY <2>4, <2>7
    <2>14. Range(heap.str_head) \subseteq Range(heap'.str_head)
           /\ Range(heap'.str_head) \subseteq Range(heap.str_head) \cup {var'[x] : x \in V}
      BY <2>4, <2>10, <2>11
    <2> HIDE DEF V
    <2>15. \A x \in Var \ V : var'[x] = var[x]
      BY <2>7
    <2>16. \A x \in Var \ V : told'[x] = told[x]
      BY <2>8
    <2>17. handed \subseteq handed' /\ UNCHANGED <<zones, misfreed>>
      BY <1>1
    <2>18. StringSide'
      BY <1>2, <2>4, <2>5, <2>6, <2>7, <2>8, <2>9, <2>12, <2>13, <2>14, <2>15, <2>16, <2>17,
         StringsAdded, Zenon
    <2>19. ASSUME NEW kind, kind # "free", kind # "str" PROVE Keeps(heap, heap', kind)
      <3> SUFFICES ASSUME NEW x \in Addr
                   PROVE  /\ heap.block[x] = kind <=> heap'.block[x] = kind
                          /\ heap.block[x] = kind => heap'.mem[x] = heap.mem[x]
        BY DEF Keeps
      <3>1. CASE x \in {a, b}
        BY <1>4, <2>1, <2>4, <2>19, <3>1
      <3>2. CASE x \notin {a, b}
        BY <2>4, <3>2
      <3> QED BY <3>1, <3>2
    <2>20. Keeps(heap, heap', "payload") /\ Keeps(heap, heap', "array") /\ Keeps(heap, heap', "line")
      BY <2>19
    <2>21. UNCHANGED <<zones, bufferVars, handle>>
      BY <1>1
    <2> QED BY <1>3, <2>4, <2>18, <2>20, <2>21, StringStep
  <1> QED BY <1>5, <1>6

-----------------------------------------------------------------------------
(* Blocks and cells under the calls on children.                              *)

\* A buffer read from a child becomes a string nobody tracks.
LEMMA GiveStringStep ==
  ASSUME OInv, call.v \in Var, Spare(call.v), NEW a, NEW text, GiveString(a, text),
         UNCHANGED <<bufferVars, handle>>, call' = Idle
  PROVE  OInv'
  <1> DEFINE v == call.v
             V == {v}
  <1>1. GoodHeap(heap) /\ StringSide /\ ZoneSide /\ BufferSide /\ CallSide
    BY OInvParts
  <1>2. a \in Addr /\ heap.block[a] = "free"
    BY MallocFacts DEF GiveString
  <1>3. heap' = Alloc(heap, a, "str", text) /\ "str" \in Kinds
    BY DEF GiveString, Kinds
  <1>4. GoodHeap(heap') /\ Changes(heap, heap', a, "str", text)
        /\ heap'.nodes = heap.nodes /\ heap'.str_head = heap.str_head
    BY <1>1, <1>2, <1>3, AllocFacts
  <1>5. StringSide'
    <2>1. V \in SUBSET (Var \ mine)
      BY DEF Spare
    <2>2. /\ var' = [var EXCEPT ![v] = a] /\ told' = [told EXCEPT ![v] = text]
          /\ mine' = mine \cup V /\ handed' = handed \cup {a}
          /\ UNCHANGED <<zones, untracked, misfreed>>
      BY DEF GiveString
    <2>a. v \in Var
      OBVIOUS
    <2> HIDE DEF v
    <2>3. /\ var' \in [Var -> Addr \cup {Null}] /\ var'[v] = a /\ told'[v] = text
          /\ told' = [w \in Var |-> told'[w]]
          /\ \A w \in Var \ V : var'[w] = var[w] /\ told'[w] = told[w]
      BY <1>1, <1>2, <2>2, <2>a DEF StringSide, ProgramTypes
    <2>4. untracked \subseteq untracked' /\ untracked' \subseteq Addr /\ handed' \subseteq Addr
          /\ a \in handed' /\ handed \subseteq handed'
      BY <1>1, <1>2, <2>2 DEF StringSide, ProgramTypes
    <2>5. /\ heap'.block[a] = "str" /\ heap'.mem[a] = text
          /\ \A x \in Addr \ {a} : heap'.block[x] = heap.block[x] /\ heap'.mem[x] = heap.mem[x]
      BY <1>4 DEF Changes
    <2>6. \A w \in V : /\ var'[w] \in Addr /\ heap.block[var'[w]] = "free"
                       /\ heap'.block[var'[w]] = "str" /\ heap'.mem[var'[w]] = told'[w]
                       /\ var'[w] \in Range(heap'.str_head) \cup untracked' \cup handed'
      BY <1>2, <2>3, <2>4, <2>5
    <2>7. \A x \in Addr : (\A w \in V : var'[w] # x) =>
                            heap'.block[x] = heap.block[x] /\ heap'.mem[x] = heap.mem[x]
      BY <2>3, <2>5
    <2>8. /\ Range(heap.str_head) \subseteq Range(heap'.str_head)
          /\ Range(heap'.str_head) \subseteq Range(heap.str_head) \cup {var'[w] : w \in V}
          /\ IsInjective(heap'.str_head)
      BY <1>1, <1>4 DEF StringSide, StringsOwned
    <2> HIDE DEF V
    <2>9. \A w \in Var \ V : var'[w] = var[w]
      BY <2>3
    <2>10. \A w \in Var \ V : told'[w] = told[w]
      BY <2>3
    <2> QED BY <1>1, <1>4, <2>1, <2>2, <2>3, <2>4, <2>6, <2>7, <2>8, <2>9, <2>10, StringsAdded, Zenon
  <1>6. Keeps(heap, heap', "payload") /\ Keeps(heap, heap', "array") /\ Keeps(heap, heap', "line")
    BY <1>2, <1>4, ChangesKeep
  <1>7. \E d \in Int : heap'.nodes = heap.nodes + d /\ Len(heap'.str_head) = Len(heap.str_head) + d
    BY <1>1, <1>4, NoCellMoved
  <1>8. UNCHANGED zones /\ CallSide'
    BY <1>1, CallFrame DEF GiveString
  <1> QED BY <1>4, <1>5, <1>6, <1>7, <1>8, StringStep

\* The call goes on: it still has its variable.
LEMMA CallStays ==
  ASSUME CallSide, call'.op = call.op, call'.v = call.v, UNCHANGED <<mine, handle>>
  PROVE  CallSide'
  <1>1. CallSpare'
    BY DEF CallSide, CallSpare, Spare
  <1>2. {k \in Kid : HasHandle(k)}' = {k \in Kid : HasHandle(k)}
    BY DEF HasHandle
  <1> QED BY <1>1, <1>2 DEF CallSide

\* Steps of a call, and of the children, that leave the heap alone.
LEMMA CallLeavesHeap ==
  ASSUME OInv, CInv,
         \/ WriteValue \/ WriteInterrupted \/ WriteNewline \/ TakeByte
         \/ BrokenPipe \/ ReadNoMemory,
         UNCHANGED notIpc
  PROVE  OInv'
  <1>1. UNCHANGED <<heapVars, bufferVars, handle>> /\ UNCHANGED mine
    BY DEF WriteValue, WriteInterrupted, WriteNewline, TakeByte, BrokenPipe, ReadNoMemory, notIpc, heapVars
  <1>2. call # Idle /\ call.phase # "exit"
    BY DEF WriteValue, WriteInterrupted, WriteNewline, TakeByte, BrokenPipe, ReadNoMemory
  <1>3. call \in Talking /\ CallSide
    BY <1>2, IsTalking, OInvParts DEF CInv
  <1>4. call' = Idle \/ (call'.op = call.op /\ call'.v = call.v)
    <2> DEFINE Same(c) == c.op = call.op /\ c.v = call.v
    <2>1. ASSUME NEW n, call' = [call EXCEPT !.sent = n] PROVE Same(call')
      BY <1>3, <2>1 DEF Talking
    <2>2. ASSUME NEW n, call' = [call EXCEPT !.sent = n, !.phase = "newline"] PROVE Same(call')
      BY <1>3, <2>2 DEF Talking
    <2>3. ASSUME call' = [call EXCEPT !.phase = "read", !.s = "out"] PROVE Same(call')
      BY <1>3, <2>3 DEF Talking
    <2>4. ASSUME NEW n, call' = [call EXCEPT !.got = n] PROVE Same(call')
      BY <1>3, <2>4 DEF Talking
    <2> HIDE DEF Same
    <2>5. call' = Idle \/ Same(call')
      <3>1. CASE WriteValue
        BY <2>1, <2>2, <3>1, Zenon DEF WriteValue, AfterValue, Return
      <3>2. CASE WriteInterrupted
        BY <2>2, <3>2, Zenon DEF WriteInterrupted, AfterValue, Return
      <3>3. CASE WriteNewline
        BY <2>3, <3>3, Zenon DEF WriteNewline, Return
      <3>4. CASE TakeByte
        BY <2>4, <3>4, Zenon DEF TakeByte
      <3>5. CASE BrokenPipe \/ ReadNoMemory
        BY <3>5 DEF BrokenPipe, ReadNoMemory, Return
      <3> QED BY <3>1, <3>2, <3>3, <3>4, <3>5
    <2> QED BY <2>5 DEF Same
  <1>5. CallSide'
    BY <1>1, <1>3, <1>4, CallFrame, CallStays
  <1> QED BY <1>1, <1>5, HeapUntouched

\* The string of an answer goes to the variable that was kept for it.
LEMMA ReadSteps ==
  ASSUME OInv, CInv, NEW a, ReadChunk(a) \/ LineDone(a), UNCHANGED notIpc
  PROVE  OInv'
  <1>1. /\ call # Idle /\ call.phase = "read" /\ call' = Idle /\ UNCHANGED <<bufferVars, handle>>
        /\ UNCHANGED heapVars \/ \E text : GiveString(a, text)
    BY DEF ReadChunk, LineDone, Return, notIpc
  <1>2. CASE UNCHANGED heapVars
    BY <1>1, <1>2, HeapUntouched, OInvParts, CallFrame
  <1>3. ASSUME NEW text, GiveString(a, text) PROVE OInv'
    <2>1. TalksWell(call) /\ call.v \in Var /\ call.op \in Writes \cup {"chunk", "line"}
      BY <1>1, CallIsWell, TalkingFields DEF CInv, TalksWell
    <2>2. call.op \in {"request", "chunk", "line"}
      BY <1>1, <2>1 DEF TalksWell, Writes
    <2>3. Spare(call.v)
      BY <2>2, OInvParts DEF CallSide, CallSpare
    <2> QED BY <1>1, <1>3, <2>1, <2>3, GiveStringStep
  <1> QED BY <1>1, <1>2, <1>3

\* A call that starts reserves its variable and leaves the heap alone.
LEMMA BeginSteps ==
  ASSUME OInv, NEW k, NEW op, NEW s, NEW n, NEW max, NEW v, Begin(k, op, s, n, max, v),
         op \in {"request", "chunk", "line"} => Spare(v), UNCHANGED notIpc
  PROVE  OInv'
  <1>1. call'.op = op /\ call'.v = v /\ UNCHANGED <<heapVars, bufferVars, handle>> /\ UNCHANGED mine
    BY DEF Begin, notIpc, heapVars
  <1>2. CallSpare'
    BY <1>1 DEF CallSpare, Spare
  <1>3. {j \in Kid : HasHandle(j)}' = {j \in Kid : HasHandle(j)}
    BY <1>1 DEF HasHandle
  <1>4. CallSide'
    BY <1>2, <1>3, OInvParts DEF CallSide
  <1> QED BY <1>1, <1>4, HeapUntouched

\* Operations that talk to a child keep OInv.
LEMMA TalkOwned ==
  ASSUME OInv, CInv, TalkNext(Kid, Var), UNCHANGED notIpc
  PROVE  OInv'
  <1>1. ASSUME NEW k \in Kid, NEW n \in Lengths,
               \/ cn_ipc_native_stdin_write(k, n)
               \/ cn_ipc_native_stdin_write_line(k, n)
               \/ \E max \in Limits, v \in Var : cn_ipc_request_line(k, n, max, v)
        PROVE  OInv'
    BY <1>1, BeginSteps DEF cn_ipc_native_stdin_write, cn_ipc_native_stdin_write_line, cn_ipc_request_line
  <1>2. ASSUME NEW k \in Kid, NEW s \in {"out", "err"}, NEW max \in Limits, NEW v \in Var,
               cn_ipc_read(k, s, max, v) \/ cn_ipc_read_line(k, s, max, v)
        PROVE  OInv'
    BY <1>2, BeginSteps DEF cn_ipc_read, cn_ipc_read_line
  <1>3. CASE WriteInterrupted \/ ReadNoMemory
    BY <1>3, CallLeavesHeap
  <1> QED BY <1>1, <1>2, <1>3, Zenon DEF TalkNext

-----------------------------------------------------------------------------
(* The records of handles.                                                    *)

\* A step that only adds or drops handles, and their records with them.
LEMMA HandlesStep ==
  ASSUME OInv, GoodHeap(heap'), SameBlocks(heap, heap'), heap'.str_head = heap.str_head,
         UNCHANGED <<zones, var, mine, told, untracked, handed, misfreed, bufferVars>>,
         CallSide', heap'.nodes = LinkNodes + Headers + HandleNodes'
  PROVE  OInv'
  <1>1. StringSide /\ ZoneSide /\ BufferSide
    BY OInvParts
  <1>2. \A kind : Keeps(heap, heap', kind)
    BY SameKeeps
  <1>3. StringSide' /\ ZoneSide' /\ BufferSide'
    BY <1>1, <1>2, StringsFrame, ZonesFrame, BuffersFrame
  <1>4. LinkNodes' = LinkNodes
    BY SameZones DEF LinkNodes
  <1>5. Headers' = Headers
    BY SameHeaders DEF bufferVars
  <1>6. Counted'
    BY <1>4, <1>5 DEF Counted
  <1> QED BY <1>3, <1>6, OInvIntro

\* The same children have handles.
LEMMA SameHolders ==
  ASSUME OInv, \A j \in Kid : HasHandle(j)' <=> HasHandle(j), call' = Idle,
         UNCHANGED heapVars, UNCHANGED notIpc
  PROVE  OInv'
  <1> DEFINE S == {k \in Kid : HasHandle(k)}
  <1>1. S' = S
    OBVIOUS
  <1>2. HandleNodes' = HandleNodes
    BY <1>1 DEF HandleNodes
  <1>3. CallSide'
    <2>1. Idle.op = "none"
      BY DEF Idle
    <2>2. CallSpare'
      BY <2>1 DEF CallSpare
    <2> QED BY <1>1, <2>2, OInvParts DEF CallSide
  <1>4. GoodHeap(heap) /\ heap.nodes = LinkNodes + Headers + HandleNodes
    BY OInvCounts
  <1>5. heap' = heap /\ UNCHANGED <<zones, var, mine, told, untracked, handed, misfreed, bufferVars>>
    BY DEF heapVars, notIpc
  <1>6. GoodHeap(heap') /\ SameBlocks(heap, heap') /\ heap'.str_head = heap.str_head
    BY <1>4, <1>5 DEF SameBlocks
  <1> QED BY <1>2, <1>3, <1>4, <1>5, <1>6, HandlesStep

\* spawn: the two records of a handle are left by a spawn that succeeds only.
LEMMA SpawnOwned ==
  ASSUME OInv, HInv, CInv, NEW k \in Kid, NEW pid \in Pid, NEW outcome,
         cn_ipc_native_spawn(k, pid, outcome), UNCHANGED notIpc
  PROVE  OInv'
  <1>1. call' = Idle /\ UNCHANGED <<zones, var, mine, told, untracked, handed, misfreed, bufferVars>>
    BY DEF cn_ipc_native_spawn, notIpc
  <1>2. CASE UNCHANGED <<heap, handle>>
    <2>1. UNCHANGED heapVars /\ CallSide'
      BY <1>1, <1>2, OInvParts, CallFrame DEF heapVars
    <2> QED BY <1>1, <1>2, <2>1, HeapUntouched
  <1>3. CASE /\ heap' = AddNodes(heap, 2) /\ ~HasHandle(k)
             /\ \A j \in Kid : HasHandle(j)' <=> HasHandle(j) \/ j = k
    <2> DEFINE S == {j \in Kid : HasHandle(j)}
    <2>1. S' = S \cup {k} /\ k \notin S
      BY <1>3
    <2>2. IsFiniteSet(S) /\ GoodHeap(heap) /\ heap.nodes = LinkNodes + Headers + HandleNodes
          /\ LinkNodes \in Nat /\ Headers \in Nat
      BY OInvParts, OInvCounts DEF CallSide
    <2>3. HandleNodes' = 2 * Cardinality(S') /\ HandleNodes = 2 * Cardinality(S)
      BY DEF HandleNodes
    <2> HIDE DEF S
    <2>4. IsFiniteSet(S') /\ Cardinality(S') = Cardinality(S) + 1 /\ Cardinality(S) \in Nat
      BY <2>1, <2>2, FS_AddElement, FS_CardinalityType
    <2>5. HandleNodes' = HandleNodes + 2 /\ HandleNodes \in Nat
      BY <2>3, <2>4
    <2>6. GoodHeap(heap') /\ SameBlocks(heap, heap') /\ heap'.str_head = heap.str_head
          /\ heap'.nodes = heap.nodes + 2
      BY <1>3, <2>2, AddNodesFacts
    <2>7. heap'.nodes = LinkNodes + Headers + HandleNodes'
      BY <2>2, <2>5, <2>6
    <2>8. CallSide'
      <3>1. Idle.op = "none"
        BY DEF Idle
      <3>2. CallSpare'
        BY <1>1, <3>1 DEF CallSpare
      <3> QED BY <2>4, <3>2 DEF CallSide, S
    <2> QED BY <1>1, <2>6, <2>7, <2>8, HandlesStep
  <1> QED BY <1>2, <1>3, SpawnCall

\* release frees the two records of the handle.
LEMMA ReleaseOwned ==
  ASSUME OInv, HInv, CInv, NEW k \in Kid, cn_ipc_native_release(k), UNCHANGED notIpc
  PROVE  OInv'
  <1> DEFINE S == {j \in Kid : HasHandle(j)}
  <1>1. /\ call' = Idle /\ heap' = FreeNodes(heap, 2)
        /\ UNCHANGED <<zones, var, mine, told, untracked, handed, misfreed, bufferVars>>
    BY DEF cn_ipc_native_release, notIpc
  <1>2. HasHandle(k) /\ \A j \in Kid : HasHandle(j)' <=> HasHandle(j) /\ j # k
    BY ReleaseCall
  <1>3. S' = S \ {k} /\ k \in S
    BY <1>2
  <1>4. IsFiniteSet(S) /\ GoodHeap(heap) /\ heap.nodes = LinkNodes + Headers + HandleNodes
        /\ LinkNodes \in Nat /\ Headers \in Nat
    BY OInvParts, OInvCounts DEF CallSide
  <1>5. HandleNodes' = 2 * Cardinality(S') /\ HandleNodes = 2 * Cardinality(S)
    BY DEF HandleNodes
  <1> HIDE DEF S
  <1>6. IsFiniteSet(S') /\ Cardinality(S') = Cardinality(S) - 1 /\ Cardinality(S) \in Nat
        /\ Cardinality(S') \in Nat
    BY <1>3, <1>4, FS_RemoveElement, FS_CardinalityType
  <1>7. HandleNodes = HandleNodes' + 2 /\ HandleNodes' \in Nat
    BY <1>5, <1>6
  <1>8. 2 <= heap.nodes
    <2> DEFINE x == HandleNodes'
               y == HandleNodes
    <2>1. y = x + 2 /\ x \in Nat /\ heap.nodes = LinkNodes + Headers + y
      BY <1>4, <1>7
    <2> HIDE DEF x, y
    <2> QED BY <1>4, <2>1
  <1>9. GoodHeap(heap') /\ SameBlocks(heap, heap') /\ heap'.str_head = heap.str_head
        /\ heap'.nodes = heap.nodes - 2
    BY <1>1, <1>4, <1>8, FreeNodesFacts
  <1>10. heap'.nodes = LinkNodes + Headers + HandleNodes'
    BY <1>4, <1>7, <1>9
  <1>11. CallSide'
    <2>1. Idle.op = "none"
      BY DEF Idle
    <2>2. CallSpare'
      BY <1>1, <2>1 DEF CallSpare
    <2> QED BY <1>6, <2>2 DEF CallSide, S
  <1> QED BY <1>1, <1>9, <1>10, <1>11, HandlesStep

\* The life of a child keeps OInv.
LEMMA LifeOwned ==
  ASSUME OInv, HInv, CInv, LifeNext(Kid), UNCHANGED notIpc
  PROVE  OInv'
  <1>1. ASSUME NEW k \in Kid, cn_ipc_native_wait(k) PROVE OInv'
    <2>1. UNCHANGED <<heapVars, bufferVars, handle>> /\ call'.op = "wait"
      BY <1>1 DEF cn_ipc_native_wait, notIpc
    <2>2. CallSide'
      <3>1. CallSpare'
        BY <2>1 DEF CallSpare
      <3>2. {j \in Kid : HasHandle(j)}' = {j \in Kid : HasHandle(j)}
        BY <2>1 DEF HasHandle
      <3> QED BY <3>1, <3>2, OInvParts DEF CallSide
    <2> QED BY <2>1, <2>2, HeapUntouched
  <1>2. ASSUME NEW k \in Kid, cn_ipc_native_kill(k) PROVE OInv'
    <2>1. UNCHANGED <<heapVars, bufferVars, handle>> /\ call' = Idle
      BY <1>2 DEF cn_ipc_native_kill, notIpc, ours
    <2> QED BY <2>1, HeapUntouched, CallFrame, OInvParts
  <1>3. ASSUME NEW k \in Kid, cn_ipc_native_stdin_close(k) PROVE OInv'
    <2>1. UNCHANGED heapVars /\ call' = Idle
      BY <1>3 DEF cn_ipc_native_stdin_close
    <2> QED BY <1>3, <2>1, StdinCloseCall, SameHolders
  <1> QED BY <1>1, <1>2, <1>3, SpawnOwned, ReleaseOwned, Zenon DEF LifeNext

\* The system calls of a call in progress keep OInv.
LEMMA StepOwned ==
  ASSUME OInv, HInv, CInv, CallStep, UNCHANGED notIpc
  PROVE  OInv'
  <1>1. CASE WaitDone
    <2>1. UNCHANGED heapVars /\ call' = Idle
      BY <1>1 DEF WaitDone, Return
    <2> QED BY <1>1, <2>1, WaitDoneCall, SameHolders
  <1> QED BY <1>1, CallLeavesHeap, ReadSteps, Zenon DEF CallStep

\* What a child does is not on this heap.
LEMMA KidOwned ==
  ASSUME OInv, NEW k \in Kid, KidNext(k) \/ KidStops(k), UNCHANGED notIpc
  PROVE  OInv'
  <1>1. UNCHANGED <<heapVars, bufferVars, handle>> /\ UNCHANGED <<call, mine>>
    BY DEF KidNext, KidRead, KidWrite, KidEnds, KidStops, theirs, ours, notIpc, heapVars
  <1>2. CallSide'
    BY <1>1, OInvParts, CallStays
  <1> QED BY <1>1, <1>2, HeapUntouched

-----------------------------------------------------------------------------
(* Zones.                                                                     *)

\* An open zone.
Zone == [null : BOOLEAN, blocks : Seq(Addr)]

\* Arithmetic of the cells: links, zone headers, zone blocks, buffers and handles.
LEMMA CountMoves ==
  \A l, p, q, x, y, h, k \in Nat : \A d \in Int :
    x + y = p + q + d => ((l + p + q) + h + k) + d = (l + x + y) + h + k
  OBVIOUS

\* A step of the zones alone keeps OInv if the cells move with them.
LEMMA ZonesStep ==
  ASSUME OInv, Between, GoodHeap(heap'), heap'.str_head = heap.str_head,
         Keeps(heap, heap', "str"), Keeps(heap, heap', "array"), Keeps(heap, heap', "line"),
         zones' \in Seq(Zone), \A i \in DOMAIN zones' : zones'[i].null => zones'[i].blocks = <<>>,
         ZoneSide', UNCHANGED <<var, mine, told, untracked, handed, misfreed>>, NEW d \in Int,
         heap'.nodes = heap.nodes + d,
         Cardinality(ZoneHeaders)' + Cardinality(ZonePlaces)'
           = Cardinality(ZoneHeaders) + Cardinality(ZonePlaces) + d
  PROVE  OInv'
  <1>1. GoodHeap(heap) /\ StringSide /\ ZoneSide /\ BufferSide /\ CallSide
    BY OInvParts
  <1>2. UNCHANGED <<bufferVars, handle>> /\ call' = Idle /\ UNCHANGED <<bytesOpen, linesOpen>>
    BY DEF Between, notHeap, ipcVars, bufferVars
  <1>3. StringSide'
    <2>1. Live("str")' = Live("str")
      BY DEF Live, Keeps
    <2>2. StringsOwned'
      BY <1>1, <2>1 DEF StringSide, StringsOwned
    <2>3. ProgramTypes'
      BY <1>1 DEF StringSide, ProgramTypes, Zone
    <2>4. StringsKept'
      BY <1>1 DEF StringSide, StringsKept, Keeps
    <2> QED BY <2>2, <2>3, <2>4 DEF StringSide
  <1>4. BufferSide' /\ CallSide'
    BY <1>1, <1>2, BuffersFrame, CallFrame
  <1>5. Counted'
    <2> DEFINE x == Cardinality(ZoneHeaders)'
               y == Cardinality(ZonePlaces)'
               l == Len(heap.str_head)
    <2>1. HandleNodes' = HandleNodes /\ Headers' = Headers
      BY <1>2, SameHandles, SameHeaders
    <2>2. LinkNodes' = l + x + y
      BY DEF LinkNodes
    <2>3. /\ heap.nodes = LinkNodes + Headers + HandleNodes
          /\ LinkNodes = l + Cardinality(ZoneHeaders) + Cardinality(ZonePlaces)
          /\ l \in Nat /\ Headers \in Nat /\ HandleNodes \in Nat
          /\ Cardinality(ZoneHeaders) \in Nat /\ Cardinality(ZonePlaces) \in Nat
      BY OInvCounts
    <2>4. x \in Nat /\ y \in Nat
      <3>1. IsFiniteSet(ZonePlaces')
        BY DEF ZoneSide
      <3>2. DOMAIN zones' = 1..Len(zones') /\ Len(zones') \in Nat
        BY LenProperties
      <3>3. IsFiniteSet(1..Len(zones'))
        BY <3>2, FS_Interval
      <3>4. IsFiniteSet(ZoneHeaders')
        BY <3>2, <3>3, FS_Subset DEF ZoneHeaders
      <3> QED BY <3>1, <3>4, FS_CardinalityType
    <2>5. x + y = Cardinality(ZoneHeaders) + Cardinality(ZonePlaces) + d
      OBVIOUS
    <2> DEFINE link == LinkNodes'
               p == Cardinality(ZoneHeaders)
               q == Cardinality(ZonePlaces)
               nodes == heap'.nodes
    <2>a. nodes = ((l + p + q) + Headers + HandleNodes) + d /\ link = l + x + y /\ x + y = p + q + d
      BY <2>2, <2>3, <2>5
    <2>b. p \in Nat /\ q \in Nat /\ l \in Nat /\ Headers \in Nat /\ HandleNodes \in Nat
          /\ x \in Nat /\ y \in Nat /\ d \in Int
      BY <2>3, <2>4
    <2> HIDE DEF x, y, l, p, q, link, nodes
    <2>c. ((l + p + q) + Headers + HandleNodes) + d = (l + x + y) + Headers + HandleNodes
      BY <2>a, <2>b, CountMoves
    <2>d. nodes = link + Headers + HandleNodes
      BY <2>a, <2>c, Zenon
    <2>6. heap'.nodes = LinkNodes' + Headers + HandleNodes
      BY <2>d DEF link, nodes
    <2> QED BY <2>1, <2>6 DEF Counted
  <1> QED BY <1>3, <1>4, <1>5, OInvIntro

\* The zones and their blocks are sequences.
LEMMA ZoneTypes ==
  ASSUME ProgramTypes
  PROVE  /\ zones \in Seq(Zone) /\ DOMAIN zones = 1..Len(zones) /\ Len(zones) \in Nat
         /\ \A i \in 1..Len(zones) :
              /\ zones[i] \in Zone /\ zones[i].blocks \in Seq(Addr)
              /\ DOMAIN zones[i].blocks = 1..Len(zones[i].blocks) /\ Len(zones[i].blocks) \in Nat
              /\ zones[i].null => zones[i].blocks = <<>>
  <1>1. zones \in Seq(Zone) /\ DOMAIN zones = 1..Len(zones) /\ Len(zones) \in Nat
    BY LenProperties DEF ProgramTypes, Zone
  <1>2. \A i \in 1..Len(zones) : zones[i] \in Zone
    BY <1>1, ElementOfSeq
  <1>3. \A i \in 1..Len(zones) : zones[i].blocks \in Seq(Addr)
    BY <1>2 DEF Zone
  <1>4. \A i \in 1..Len(zones) : DOMAIN zones[i].blocks = 1..Len(zones[i].blocks)
                                 /\ Len(zones[i].blocks) \in Nat
    BY <1>3, LenProperties
  <1> QED BY <1>1, <1>2, <1>3, <1>4 DEF ProgramTypes

\* cn_zone_enter: one more zone, with a header unless it could not be allocated.
LEMMA ZoneEnterStep ==
  ASSUME OInv, NEW ok \in BOOLEAN, cn_zone_enter(ok), Between
  PROVE  OInv'
  <1> DEFINE z == [null |-> ~ok, blocks |-> <<>>]
             n == Len(zones)
             d == IF ok THEN 1 ELSE 0
  <1>1. zones' = Append(zones, z) /\ heap' = AddNodes(heap, d)
        /\ UNCHANGED <<var, mine, told, untracked, handed, misfreed>>
    BY DEF cn_zone_enter
  <1>2. GoodHeap(heap) /\ ZoneSide /\ ProgramTypes
    BY OInvParts DEF StringSide
  <1>3. z \in Zone /\ z.null = ~ok /\ z.blocks = <<>>
    <2>1. <<>> \in Seq(Addr)
      OBVIOUS
    <2> QED BY <2>1 DEF Zone
  <1>4. d \in Nat /\ d \in Int
    OBVIOUS
  <1>5. n \in Nat /\ zones \in Seq(Zone) /\ DOMAIN zones = 1..n
        /\ \A i \in 1..n : zones[i].null => zones[i].blocks = <<>>
    BY <1>2, ZoneTypes
  <1> HIDE DEF z
  <1>6. /\ zones' \in Seq(Zone) /\ DOMAIN zones' = 1..(n + 1)
        /\ \A i \in 1..n : zones'[i] = zones[i]
        /\ zones'[n + 1] = z
    BY <1>1, <1>3, <1>5, AppendProperties, LenProperties
  <1> HIDE DEF n
  <1>7. \A i \in DOMAIN zones' : i \in 1..n \/ i = n + 1
    BY <1>5, <1>6
  <1>8. \A i \in DOMAIN zones' : zones'[i].null => zones'[i].blocks = <<>>
    BY <1>3, <1>5, <1>6, <1>7
  <1>9. ZonePlaces' = ZonePlaces
    <2>1. DOMAIN <<>> = {}
      OBVIOUS
    <2>2. \A i \in 1..n : i \in 1..(n + 1)
      BY <1>5
    <2>3. n + 1 \in 1..(n + 1)
      BY <1>5
    <2> QED BY <1>3, <1>5, <1>6, <1>7, <2>1, <2>2, <2>3 DEF ZonePlaces
  <1>10. \A p \in ZonePlaces : BlockAt(p)' = BlockAt(p)
    BY <1>5, <1>6 DEF ZonePlaces, BlockAt
  <1> DEFINE H == ZoneHeaders
  <1>11. H' = IF ok THEN H \cup {n + 1} ELSE H
    <2>1. \A i \in 1..n : i \in 1..(n + 1)
      BY <1>5
    <2>2. n + 1 \in 1..(n + 1)
      BY <1>5
    <2> QED BY <1>3, <1>5, <1>6, <1>7, <2>1, <2>2 DEF ZoneHeaders
  <1>12. n + 1 \notin H
    BY <1>5 DEF ZoneHeaders
  <1>13. IsFiniteSet(H) /\ Cardinality(H) \in Nat /\ Cardinality(ZonePlaces) \in Nat
    <2>1. IsFiniteSet(1..n)
      BY <1>5, FS_Interval
    <2>2. IsFiniteSet(H)
      BY <1>5, <2>1, FS_Subset DEF ZoneHeaders
    <2> QED BY <1>2, <2>2, FS_CardinalityType DEF ZoneSide
  <1> HIDE DEF H
  <1>14. Cardinality(H') = Cardinality(H) + d
    BY <1>11, <1>12, <1>13, FS_AddElement
  <1>15. GoodHeap(heap') /\ SameBlocks(heap, heap') /\ heap'.str_head = heap.str_head
         /\ heap'.nodes = heap.nodes + d
    BY <1>1, <1>2, <1>4, AddNodesFacts
  <1>16. \A kind : Keeps(heap, heap', kind)
    BY <1>15, SameKeeps
  <1>17. ZoneSide'
    <2>1. Live("payload")' = Live("payload")
      BY <1>15 DEF Live, SameBlocks
    <2> QED BY <1>2, <1>9, <1>10, <2>1 DEF ZoneSide, ZonesOwned
  <1> HIDE DEF d
  <1>18. Cardinality(H') + Cardinality(ZonePlaces)'
           = Cardinality(H) + Cardinality(ZonePlaces) + d
    BY <1>4, <1>9, <1>13, <1>14
  <1> QED BY <1>1, <1>4, <1>6, <1>8, <1>15, <1>16, <1>17, <1>18, ZonesStep DEF H

\* A place is a zone and a position in it.
LEMMA PlaceFacts ==
  ASSUME ProgramTypes
  PROVE  \A p : p \in ZonePlaces <=>
           \E i \in 1..Len(zones) : \E m \in 1..Len(zones[i].blocks) : p = <<i, m>>
  BY ZoneTypes DEF ZonePlaces

\* The block at a place.
LEMMA BlockAtFacts == \A i, m : BlockAt(<<i, m>>) = zones[i].blocks[m]
  BY DEF BlockAt

\* A block is put at the head of the innermost zone.
LEMMA ZoneGains ==
  ASSUME OInv, NEW a \in Addr, heap.block[a] = "free", zones # <<>>, ~Last(zones).null,
         zones' = [zones EXCEPT ![Len(zones)].blocks = <<a>> \o @],
         GoodHeap(heap'), Changes(heap, heap', a, "payload", <<>>),
         heap'.nodes = heap.nodes + 1, heap'.str_head = heap.str_head,
         UNCHANGED <<var, mine, told, untracked, handed, misfreed>>, Between
  PROVE  OInv'
  <1> DEFINE n == Len(zones)
             old == zones[n].blocks
             new == <<a>> \o old
             m == Len(old)
             H == ZoneHeaders
             P == ZonePlaces
             Now(p) == zones'[p[1]].blocks[p[2]]
  <1>1. GoodHeap(heap) /\ ZoneSide /\ ProgramTypes
    BY OInvParts DEF StringSide
  <1>2. /\ zones \in Seq(Zone) /\ DOMAIN zones = 1..n /\ n \in Nat
        /\ \A i \in 1..n : zones[i] \in Zone
        /\ \A i \in 1..n : zones[i].null => zones[i].blocks = <<>>
    BY <1>1, ZoneTypes
  <1>3. n \in 1..n /\ ~zones[n].null
    <2>1. n # 0
      BY <1>2, EmptySeq
    <2> HIDE DEF n
    <2>2. n \in 1..n
      BY <1>2, <2>1
    <2> QED BY <2>2 DEF Last, n
  <1>4. old \in Seq(Addr) /\ DOMAIN old = 1..m /\ m \in Nat
    BY <1>1, <1>3, ZoneTypes
  <1>5. /\ new \in Seq(Addr) /\ Len(new) = m + 1 /\ new[1] = a
        /\ \A i \in 1..m : new[i + 1] = old[i]
        /\ DOMAIN new = 1..(m + 1)
    BY <1>4, AddedToList
  <1>6. /\ zones' \in Seq(Zone) /\ DOMAIN zones' = 1..n /\ Len(zones') = n
        /\ \A i \in 1..n : i # n => zones'[i] = zones[i]
        /\ zones'[n].blocks = new /\ zones'[n].null = zones[n].null
    <2> HIDE DEF n, new
    <2>1. zones' = [zones EXCEPT ![n].blocks = new]
      BY DEF n, new
    <2>2. DOMAIN zones' = 1..n /\ \A i \in 1..n : i # n => zones'[i] = zones[i]
      BY <1>2, <2>1
    <2>3. zones'[n] = [zones[n] EXCEPT !.blocks = new]
      BY <1>2, <1>3, <2>1
    <2>4. zones'[n] \in Zone /\ zones'[n].blocks = new /\ zones'[n].null = zones[n].null
      BY <1>2, <1>3, <1>5, <2>3 DEF Zone
    <2>5. zones' = [i \in 1..n |-> zones'[i]] /\ \A i \in 1..n : zones'[i] \in Zone
      BY <1>2, <2>1, <2>2, <2>4
    <2>6. zones' \in [1..n -> Zone]
      BY <2>5
    <2>7. zones' \in Seq(Zone)
      BY <1>2, <2>6, SeqDef
    <2> DEFINE l == Len(zones')
    <2>8. l \in Nat /\ 1..l = 1..n
      BY <2>2, <2>7, LenProperties
    <2> HIDE DEF l
    <2>9. l = n
      BY <1>2, <2>8
    <2> QED BY <2>2, <2>4, <2>7, <2>9 DEF l
  <1>7. \A i \in DOMAIN zones' : zones'[i].null => zones'[i].blocks = <<>>
    BY <1>2, <1>3, <1>6
  <1>8. ProgramTypes'
    BY <1>1, <1>6, <1>7 DEF ProgramTypes, Zone
  <1>9. \A p : p \in P <=> \E i \in 1..n : \E j \in 1..Len(zones[i].blocks) : p = <<i, j>>
    BY <1>1, PlaceFacts
  <1>10. \A p : p \in P' <=> \E i \in 1..n : \E j \in 1..Len(zones'[i].blocks) : p = <<i, j>>
    <2>1. \A i \in 1..n : zones'[i].blocks \in Seq(Addr)
      <3>1. \A i \in 1..n : zones'[i] \in Zone
        BY <1>6, ElementOfSeq
      <3> QED BY <3>1 DEF Zone
    <2>2. \A i \in 1..n : DOMAIN zones'[i].blocks = 1..Len(zones'[i].blocks)
      BY <2>1, LenProperties
    <2> QED BY <1>6, <2>2 DEF ZonePlaces
  <1>11. /\ \A i \in 1..n : i # n => zones'[i].blocks = zones[i].blocks
         /\ Len(zones'[n].blocks) = m + 1 /\ Len(zones[n].blocks) = m
    BY <1>5, <1>6
  <1>12. /\ \A i, j : BlockAt(<<i, j>>) = zones[i].blocks[j]
         /\ \A i, j : Now(<<i, j>>) = zones'[i].blocks[j]
    BY DEF BlockAt
  <1>13. /\ Now(<<n, 1>>) = a
         /\ \A j \in 1..m : Now(<<n, j + 1>>) = BlockAt(<<n, j>>)
         /\ \A i \in 1..n : i # n => \A j : Now(<<i, j>>) = BlockAt(<<i, j>>)
    BY <1>5, <1>6, <1>11, <1>12
  <1> HIDE DEF n, m, old, new, P, H, Now
  <1>14. P' = P \cup {<<n, m + 1>>} /\ <<n, m + 1>> \notin P
    <2>1. \A j : j \in 1..(m + 1) <=> j \in 1..m \/ j = m + 1
      BY <1>4
    <2>2. m + 1 \notin 1..m
      BY <1>4
    <2>3. ASSUME NEW p PROVE p \in P' <=> p \in P \/ p = <<n, m + 1>>
      BY <1>3, <1>9, <1>10, <1>11, <2>1
    <2>4. <<n, m + 1>> \notin P
      BY <1>9, <1>11, <2>2
    <2> QED BY <2>3, <2>4
  <1>15. IsFiniteSet(P) /\ IsFiniteSet(P') /\ Cardinality(P') = Cardinality(P) + 1
         /\ Cardinality(P) \in Nat
    BY <1>1, <1>14, FS_AddElement, FS_CardinalityType DEF ZoneSide, P
  <1>16. H' = H
    BY <1>2, <1>6 DEF ZoneHeaders, H
  <1>17. \A p \in P' : \/ p = <<n, 1>> /\ Now(p) = a
                       \/ \E q \in P : /\ Now(p) = BlockAt(q)
                                       /\ \/ p[1] # n /\ q = p
                                          \/ p[1] = n /\ q[1] = n /\ p[2] = q[2] + 1 /\ q[2] \in Nat
                                             /\ p = <<n, p[2]>> /\ q = <<n, q[2]>>
    <2> SUFFICES ASSUME NEW i \in 1..n, NEW j \in 1..Len(zones'[i].blocks), NEW p, p = <<i, j>>
                 PROVE  \/ p = <<n, 1>> /\ Now(p) = a
                        \/ \E q \in P : /\ Now(p) = BlockAt(q)
                                       /\ \/ p[1] # n /\ q = p
                                          \/ p[1] = n /\ q[1] = n /\ p[2] = q[2] + 1 /\ q[2] \in Nat
                                             /\ p = <<n, p[2]>> /\ q = <<n, q[2]>>
      BY <1>10
    <2>1. CASE i # n
      <3>1. p \in P /\ p[1] # n /\ Now(p) = BlockAt(p)
        BY <1>9, <1>11, <1>13, <2>1
      <3> QED BY <3>1
    <2>2. CASE i = n /\ j = 1
      BY <1>13, <2>2
    <2>3. CASE i = n /\ j # 1
      <3> DEFINE k == j - 1
      <3>1. j \in 1..(m + 1)
        BY <1>11, <2>3
      <3>2. k \in 1..m /\ k + 1 = j /\ k \in Nat
        BY <1>4, <2>3, <3>1
      <3> HIDE DEF k
      <3>3. <<n, k>> \in P
        BY <1>3, <1>9, <1>11, <3>2
      <3>4. Now(p) = BlockAt(<<n, k>>)
        BY <1>13, <2>3, <3>2
      <3>5. p[1] = n /\ <<n, k>>[1] = n /\ p[2] = <<n, k>>[2] + 1 /\ <<n, k>>[2] = k
            /\ p = <<n, p[2]>> /\ <<n, k>> = <<n, <<n, k>>[2]>>
        BY <2>3, <3>2
      <3> QED BY <3>2, <3>3, <3>4, <3>5
    <2> QED BY <2>1, <2>2, <2>3
  <1>18. \A q \in P : \E p \in P' : Now(p) = BlockAt(q)
    <2> SUFFICES ASSUME NEW i \in 1..n, NEW j \in 1..Len(zones[i].blocks)
                 PROVE  \E p \in P' : Now(p) = BlockAt(<<i, j>>)
      BY <1>9
    <2>1. CASE i # n
      BY <1>10, <1>11, <1>13, <2>1
    <2>2. CASE i = n
      <3>1. j \in 1..m /\ j + 1 \in 1..(m + 1)
        BY <1>4, <1>11, <2>2
      <3>2. <<n, j + 1>> \in P'
        BY <1>3, <1>10, <1>11, <3>1
      <3> QED BY <1>13, <2>2, <3>1, <3>2
    <2> QED BY <2>1, <2>2
  <1>19. <<n, 1>> \in P'
    <2>1. 1 \in 1..(m + 1)
      BY <1>4
    <2> QED BY <1>3, <1>10, <1>11, <2>1
  <1>20. \A q \in P : BlockAt(q) # a
    <2>1. \A q \in P : heap.block[BlockAt(q)] = "payload"
      BY <1>1 DEF ZoneSide, ZonesOwned, Live, P
    <2> QED BY <2>1
  <1>21. ASSUME NEW p \in P', NEW q \in P', Now(p) = Now(q) PROVE p = q
    <2>1. \A x, y \in P : BlockAt(x) = BlockAt(y) => x = y
      BY <1>1 DEF ZoneSide, ZonesOwned, P
    <2>2. CASE p = <<n, 1>> /\ Now(p) = a
      BY <1>17, <1>20, <1>21, <2>2
    <2>3. CASE q = <<n, 1>> /\ Now(q) = a
      BY <1>17, <1>20, <1>21, <2>3
    <2>4. CASE /\ \E x \in P : /\ Now(p) = BlockAt(x)
                               /\ \/ p[1] # n /\ x = p
                                  \/ p[1] = n /\ x[1] = n /\ p[2] = x[2] + 1 /\ x[2] \in Nat
                                     /\ p = <<n, p[2]>> /\ x = <<n, x[2]>>
               /\ \E y \in P : /\ Now(q) = BlockAt(y)
                               /\ \/ q[1] # n /\ y = q
                                  \/ q[1] = n /\ y[1] = n /\ q[2] = y[2] + 1 /\ y[2] \in Nat
                                     /\ q = <<n, q[2]>> /\ y = <<n, y[2]>>
      BY <1>21, <2>1, <2>4
    <2> QED BY <1>17, <2>2, <2>3, <2>4
  <1>22. ZoneSide'
    <2>1. Live("payload")' = Live("payload") \cup {a}
      BY DEF Live, Changes
    <2>2. Live("payload") = {BlockAt(p) : p \in P}
      BY <1>1 DEF ZoneSide, ZonesOwned, P
    <2>3. {Now(p) : p \in P'} = {BlockAt(p) : p \in P} \cup {a}
      BY <1>13, <1>17, <1>18, <1>19
    <2>4. Live("payload")' = {Now(p) : p \in P'}
      BY <2>1, <2>2, <2>3
    <2> QED BY <1>15, <1>21, <2>4 DEF ZoneSide, ZonesOwned, P, Now, BlockAt
  <1>23. Keeps(heap, heap', "str") /\ Keeps(heap, heap', "array") /\ Keeps(heap, heap', "line")
    BY ChangesKeep
  <1>24. Cardinality(H') + Cardinality(P') = Cardinality(H) + Cardinality(P) + 1
    <2>1. Cardinality(H) \in Nat
      BY OInvCounts DEF H
    <2> QED BY <1>15, <1>16, <2>1
  <1>25. Cardinality(ZoneHeaders)' + Cardinality(ZonePlaces)'
           = Cardinality(ZoneHeaders) + Cardinality(ZonePlaces) + 1
    BY <1>24 DEF H, P
  <1>26. 1 \in Int
    OBVIOUS
  <1> QED BY <1>6, <1>7, <1>22, <1>23, <1>25, <1>26, ZonesStep

\* cn_zone_alloc: the block goes to the innermost zone, or is freed without a node.
LEMMA ZoneAllocStep ==
  ASSUME OInv, NEW a, NEW node \in BOOLEAN, cn_zone_alloc(a, node), Between
  PROVE  OInv'
  <1>1. a \in Malloc(heap) /\ zones # <<>> /\ ~Last(zones).null
        /\ UNCHANGED <<var, mine, told, untracked, handed, misfreed>>
    BY DEF cn_zone_alloc
  <1>2. a # Null => a \in Addr /\ heap.block[a] = "free"
    BY <1>1, MallocFacts
  <1>3. CASE a # Null /\ node
    <2> DEFINE g == Alloc(heap, a, "payload", <<>>)
    <2>1. /\ heap' = AddNodes(g, 1)
          /\ zones' = [zones EXCEPT ![Len(zones)].blocks = <<a>> \o @]
      BY <1>3 DEF cn_zone_alloc, ZoneBlock
    <2>2. GoodHeap(heap) /\ "payload" \in Kinds
      BY OInvParts DEF Kinds
    <2>3. GoodHeap(g) /\ Changes(heap, g, a, "payload", <<>>)
          /\ g.nodes = heap.nodes /\ g.str_head = heap.str_head
      BY <1>2, <1>3, <2>2, AllocFacts
    <2> HIDE DEF g
    <2>4. GoodHeap(heap') /\ SameBlocks(g, heap') /\ heap'.str_head = g.str_head
          /\ heap'.nodes = g.nodes + 1
      BY <2>1, <2>3, AddNodesFacts
    <2>5. Changes(heap, heap', a, "payload", <<>>)
      BY <2>3, <2>4 DEF Changes, SameBlocks
    <2>6. heap'.nodes = heap.nodes + 1 /\ heap'.str_head = heap.str_head
      BY <2>3, <2>4
    <2> QED BY <1>1, <1>2, <1>3, <2>1, <2>4, <2>5, <2>6, ZoneGains
  <1>4. CASE ~(a # Null /\ node)
    <2>1. UNCHANGED <<heap, zones>>
      BY <1>4 DEF cn_zone_alloc, ZoneBlock
    <2>2. UNCHANGED <<heapVars, bufferVars, handle>> /\ call' = Idle
      BY <1>1, <2>1 DEF heapVars, Between, notHeap, ipcVars
    <2> QED BY <2>2, HeapUntouched, OInvParts, CallFrame
  <1> QED BY <1>3, <1>4

\* A row has as many places as it has blocks.
LEMMA RowCount ==
  ASSUME NEW n, NEW m \in Nat
  PROVE  LET row == {<<n, j>> : j \in 1..m}
         IN  IsFiniteSet(row) /\ Cardinality(row) = m
  <1> DEFINE row == {<<n, j>> : j \in 1..m}
             f == [j \in 1..m |-> <<n, j>>]
  <1>1. IsFiniteSet(1..m) /\ Cardinality(1..m) = m
    BY FS_Interval
  <1>2. f \in Bijection(1..m, row)
    BY DEF Bijection, Injection, Surjection, IsInjective
  <1>3. ExistsBijection(1..m, row)
    BY <1>2 DEF ExistsBijection
  <1> QED BY <1>1, <1>3, FS_Bijection

\* What the innermost zone leaves behind.
LEMMA ZoneLeaves ==
  ASSUME ProgramTypes, IsFiniteSet(ZonePlaces), zones # <<>>, zones' = Front(zones)
  PROVE  LET n == Len(zones)
             row == {<<n, j>> : j \in 1..Len(zones[n].blocks)}
         IN  /\ n \in 1..Len(zones)
             /\ zones' \in Seq(Zone)
             /\ \A i \in DOMAIN zones' : zones'[i].null => zones'[i].blocks = <<>>
             /\ ZonePlaces' = ZonePlaces \ row /\ row \subseteq ZonePlaces
             /\ IsFiniteSet(ZonePlaces')
             /\ Cardinality(ZonePlaces') = Cardinality(ZonePlaces) - Len(zones[n].blocks)
             /\ Cardinality(ZonePlaces') \in Nat
             /\ ZoneHeaders' = ZoneHeaders \ {n}
             /\ \A p \in ZonePlaces' : zones'[p[1]].blocks[p[2]] = BlockAt(p)
  <1> DEFINE n == Len(zones)
             m == Len(zones[n].blocks)
             row == {<<n, j>> : j \in 1..m}
             P == ZonePlaces
  <1>1. /\ zones \in Seq(Zone) /\ DOMAIN zones = 1..n /\ n \in Nat
        /\ \A i \in 1..n : zones[i].null => zones[i].blocks = <<>>
        /\ \A i \in 1..n : zones[i] \in Zone /\ DOMAIN zones[i].blocks = 1..Len(zones[i].blocks)
    BY ZoneTypes
  <1>2. n # 0
    BY <1>1, EmptySeq
  <1>3. \A p : p \in P <=> \E i \in 1..n : \E j \in 1..Len(zones[i].blocks) : p = <<i, j>>
    BY PlaceFacts
  <1>4. m \in Nat /\ n \in 1..n
    <2> HIDE DEF n
    <2>1. n \in 1..n
      BY <1>1, <1>2
    <2> QED BY <2>1, ZoneTypes DEF n
  <1>5. zones' = SubSeq(zones, 1, n - 1)
    BY DEF Front
  <1>6. /\ zones' \in Seq(Zone) /\ DOMAIN zones' = 1..(n - 1)
        /\ \A i \in 1..(n - 1) : zones'[i] = zones[i]
    <2> HIDE DEF n
    <2>1. \A i \in 1..(n - 1) : zones[i] \in Zone
      BY <1>1
    <2>2. 1 \in Int /\ n - 1 \in Int
      BY <1>1
    <2>3. /\ zones' \in Seq(Zone)
          /\ Len(zones') = IF 1 <= n - 1 THEN n - 1 - 1 + 1 ELSE 0
          /\ \A i \in 1..(n - 1 - 1 + 1) : zones'[i] = zones[1 + i - 1]
      BY <1>5, <2>1, <2>2, SubSeqProperties
    <2>4. Len(zones') = n - 1
      BY <1>1, <1>2, <2>3
    <2>5. DOMAIN zones' = 1..(n - 1)
      BY <2>3, <2>4, LenProperties
    <2>6. \A i \in 1..(n - 1) : i \in 1..(n - 1 - 1 + 1) /\ 1 + i - 1 = i
      BY <1>1
    <2> QED BY <2>3, <2>5, <2>6
  <1> HIDE DEF n, m, P
  <1>7. \A i : i \in 1..(n - 1) <=> i \in 1..n /\ i # n
    BY <1>1
  <1>8. \A i \in DOMAIN zones' : zones'[i].null => zones'[i].blocks = <<>>
    BY <1>1, <1>6, <1>7
  <1>9. P' = P \ row /\ row \subseteq P
    <2>1. \A p : p \in P' <=> \E i \in 1..(n - 1) : \E j \in 1..Len(zones[i].blocks) : p = <<i, j>>
      <3>1. \A i \in 1..(n - 1) : DOMAIN zones'[i].blocks = 1..Len(zones[i].blocks)
        BY <1>1, <1>6, <1>7
      <3> QED BY <1>6, <3>1 DEF ZonePlaces, P
    <2>2. m = Len(zones[n].blocks)
      BY DEF m, n
    <2>3. row \subseteq P
      BY <1>3, <1>4, <2>2
    <2>4. ASSUME NEW p PROVE p \in P' <=> p \in P /\ p \notin row
      BY <1>3, <1>7, <2>1, <2>2
    <2> QED BY <2>3, <2>4
  <1>10. IsFiniteSet(row) /\ Cardinality(row) = m
    BY <1>4, RowCount
  <1>11. IsFiniteSet(P') /\ Cardinality(P') = Cardinality(P) - m /\ Cardinality(P') \in Nat
    <2>1. IsFiniteSet(P)
      BY DEF P
    <2>2. IsFiniteSet(P') /\ Cardinality(P') = Cardinality(P) - Cardinality(P \cap row)
      BY <1>9, <2>1, FS_Difference
    <2>3. P \cap row = row
      BY <1>9
    <2> QED BY <1>10, <2>2, <2>3, FS_CardinalityType
  <1>12. ZoneHeaders' = ZoneHeaders \ {n}
    BY <1>1, <1>6, <1>7 DEF ZoneHeaders
  <1>13. \A p \in P' : zones'[p[1]].blocks[p[2]] = BlockAt(p)
    <2>1. \A p \in P' : p[1] \in 1..(n - 1)
      BY <1>6 DEF ZonePlaces, P
    <2> QED BY <1>6, <2>1 DEF BlockAt
  <1> QED BY <1>4, <1>6, <1>8, <1>9, <1>11, <1>12, <1>13 DEF n, m, P

\* cn_zone_release: the blocks of the innermost zone are freed, each once.
LEMMA ZoneReleaseStep ==
  ASSUME OInv, cn_zone_release, Between
  PROVE  OInv'
  <1> DEFINE n == Len(zones)
             bs == zones[n].blocks
             m == Len(bs)
             row == {<<n, j>> : j \in 1..m}
             P == ZonePlaces
             H == ZoneHeaders
             g == FreeAll(heap, bs)
  <1>1. /\ zones # <<>> /\ zones' = Front(zones)
        /\ heap' = IF zones[n].null THEN heap ELSE FreeNodes(g, m + 1)
        /\ UNCHANGED <<var, mine, told, untracked, handed, misfreed>>
    BY DEF cn_zone_release, Last
  <1>2. GoodHeap(heap) /\ ZoneSide /\ ProgramTypes /\ IsFiniteSet(P)
    BY OInvParts DEF StringSide, ZoneSide
  <1>3. /\ n \in 1..n
        /\ zones' \in Seq(Zone)
        /\ \A i \in DOMAIN zones' : zones'[i].null => zones'[i].blocks = <<>>
        /\ P' = P \ row /\ row \subseteq P
        /\ IsFiniteSet(P') /\ Cardinality(P') = Cardinality(P) - m /\ Cardinality(P') \in Nat
        /\ H' = H \ {n}
        /\ \A p \in P' : zones'[p[1]].blocks[p[2]] = BlockAt(p)
    BY <1>1, <1>2, ZoneLeaves
  <1>4. /\ bs \in Seq(Addr) /\ DOMAIN bs = 1..m /\ m \in Nat
        /\ zones[n].null => bs = <<>>
        /\ DOMAIN zones = 1..n
    BY <1>2, <1>3, ZoneTypes
  <1>5. /\ Cardinality(H) \in Nat /\ Cardinality(P) \in Nat /\ IsFiniteSet(H)
        /\ n \in H => Cardinality(H') = Cardinality(H) - 1 /\ Cardinality(H') \in Nat
        /\ n \notin H => H' = H
    <2>1. IsFiniteSet(H)
      <3>1. DOMAIN zones = 1..n /\ n \in Int /\ 1 \in Int
        BY <1>2, ZoneTypes
      <3>2. IsFiniteSet(1..n)
        BY <3>1, FS_Interval
      <3> QED BY <3>1, <3>2, FS_Subset DEF ZoneHeaders
    <2>2. IsFiniteSet(H')
      BY <1>3, <2>1, FS_RemoveElement
    <2> QED BY <1>2, <1>3, <2>1, <2>2, FS_RemoveElement, FS_CardinalityType
  <1>6. n \in H <=> ~zones[n].null
    BY <1>3, <1>4 DEF ZoneHeaders
  <1>7. \A j \in 1..m : BlockAt(<<n, j>>) = bs[j]
    BY DEF BlockAt
  <1>8. Range(bs) = {BlockAt(p) : p \in row}
    BY <1>4, <1>7 DEF Range
  <1>9. \A p, q \in P : BlockAt(p) = BlockAt(q) => p = q
    BY <1>2 DEF ZoneSide, ZonesOwned
  <1>10. Live("payload") = {BlockAt(p) : p \in P}
    BY <1>2 DEF ZoneSide, ZonesOwned
  <1>11. IsInjective(bs)
    <2>1. \A i, j \in 1..m : <<n, i>> \in row /\ <<n, j>> \in row
      OBVIOUS
    <2>a. \A i \in 1..m : <<n, i>> \in P
      BY <1>3, <2>1
    <2> HIDE DEF bs, n, m, P
    <2>2. \A i, j \in 1..m : bs[i] = bs[j] => <<n, i>> = <<n, j>>
      BY <1>7, <1>9, <2>a
    <2> QED BY <1>4, <2>2 DEF IsInjective
  <1>12. \A a \in Range(bs) : heap.block[a] = "payload"
    BY <1>3, <1>8, <1>10 DEF Live
  <1>13. Range(bs) \subseteq Addr
    BY <1>4, ElementOfSeq DEF Range
  <1> HIDE DEF n, bs, m, row, P, H
  <1>14. Between /\ (\A p, q \in P' : zones'[p[1]].blocks[p[2]] = zones'[q[1]].blocks[q[2]] => p = q)
         /\ {zones'[p[1]].blocks[p[2]] : p \in P'} = {BlockAt(p) : p \in P} \ Range(bs)
    <2>1. \A p, q \in P' : zones'[p[1]].blocks[p[2]] = zones'[q[1]].blocks[q[2]] => p = q
      BY <1>3, <1>9
    <2>2. {zones'[p[1]].blocks[p[2]] : p \in P'} = {BlockAt(p) : p \in P'}
      BY <1>3
    <2>3. {BlockAt(p) : p \in P \ row} = {BlockAt(p) : p \in P} \ {BlockAt(p) : p \in row}
      BY <1>3, <1>9
    <2> QED BY <1>3, <1>8, <2>1, <2>2, <2>3
  <1>15. ASSUME Live("payload")' = Live("payload") \ Range(bs) PROVE ZoneSide'
    BY <1>3, <1>10, <1>14, <1>15 DEF ZoneSide, ZonesOwned, BlockAt, P
  <1>16. CASE zones[n].null
    <2>1. heap' = heap /\ bs = <<>>
      BY <1>1, <1>4, <1>16
    <2>2. Range(bs) = {}
      BY <2>1 DEF Range
    <2>3. m = 0 /\ H' = H
      BY <1>5, <1>6, <1>16, <2>1 DEF m
    <2>4. ZoneSide'
      BY <1>15, <2>1, <2>2 DEF Live
    <2>5. \A kind : Keeps(heap, heap', kind)
      BY <2>1, SameKeeps DEF SameBlocks
    <2>6. Cardinality(P') = Cardinality(P)
      BY <1>3, <1>5, <2>3
    <2>7. Cardinality(ZoneHeaders)' + Cardinality(ZonePlaces)'
           = Cardinality(ZoneHeaders) + Cardinality(ZonePlaces) + 0
      BY <1>5, <2>3, <2>6 DEF H, P
    <2>8. 0 \in Int /\ heap'.nodes = heap.nodes + 0 /\ GoodHeap(heap') /\ heap'.str_head = heap.str_head
      <3>1. heap.nodes \in Nat
        BY <1>2, GoodHeapTypes
      <3>2. heap.nodes = heap.nodes + 0 /\ 0 \in Int
        BY <3>1
      <3> QED BY <1>2, <2>1, <3>2
    <2> QED BY <1>1, <1>3, <2>4, <2>5, <2>7, <2>8, ZonesStep
  <1>17. CASE ~zones[n].null
    <2>1. heap' = FreeNodes(g, m + 1)
      BY <1>1, <1>17
    <2>2. GoodHeap(g) /\ Releases(heap, g, bs) /\ g.nodes = heap.nodes /\ g.str_head = heap.str_head
      BY <1>2, <1>11, <1>12, FreeAllFacts
    <2> HIDE DEF g
    <2>3. n \in H /\ Cardinality(H') = Cardinality(H) - 1 /\ Cardinality(H') \in Nat
      BY <1>5, <1>6, <1>17
    <2>4. m + 1 <= g.nodes
      <3> DEFINE p == Cardinality(P)
                 h == Cardinality(H)
                 p1 == Cardinality(P')
                 h1 == Cardinality(H')
                 l == Len(heap.str_head)
      <3>1. /\ heap.nodes = (l + h + p) + Headers + HandleNodes
            /\ l \in Nat /\ h \in Nat /\ p \in Nat /\ Headers \in Nat /\ HandleNodes \in Nat
        BY OInvCounts DEF H, P
      <3>2. p1 \in Nat /\ p1 = p - m /\ h1 \in Nat /\ h1 = h - 1
        BY <1>3, <2>3
      <3> HIDE DEF p, h, p1, h1, l
      <3>3. m + 1 <= (l + h + p) + Headers + HandleNodes
        BY <1>4, <3>1, <3>2
      <3> QED BY <2>2, <3>1, <3>3
    <2>5. m + 1 \in Nat
      BY <1>4
    <2>6. GoodHeap(heap') /\ SameBlocks(g, heap') /\ heap'.str_head = g.str_head
          /\ heap'.nodes = g.nodes - (m + 1)
      BY <2>1, <2>2, <2>4, <2>5, FreeNodesFacts
    <2>7. Releases(heap, heap', bs)
      BY <2>2, <2>6 DEF Releases, SameBlocks
    <2>8. Keeps(heap, heap', "str") /\ Keeps(heap, heap', "array") /\ Keeps(heap, heap', "line")
      BY <1>12, <2>7, ReleasesKeep
    <2>9. ZoneSide'
      <3>1. Live("payload")' = Live("payload") \ Range(bs)
        BY <2>7 DEF Live, Releases
      <3> QED BY <1>15, <3>1
    <2> DEFINE d == -(m + 1)
    <2>10. d \in Int /\ heap'.nodes = heap.nodes + d /\ heap'.str_head = heap.str_head
      <3> DEFINE x == heap.nodes
                 y == heap'.nodes
      <3>1. x \in Nat /\ y = x - (m + 1) /\ heap'.str_head = heap.str_head
        BY <1>2, <2>2, <2>6, GoodHeapTypes
      <3> HIDE DEF x, y
      <3>2. d \in Int /\ y = x + d
        BY <1>4, <3>1
      <3> QED BY <3>1, <3>2 DEF x, y
    <2>11. Cardinality(ZoneHeaders)' + Cardinality(ZonePlaces)'
           = Cardinality(ZoneHeaders) + Cardinality(ZonePlaces) + d
      <3> DEFINE p == Cardinality(P)
                 h == Cardinality(H)
                 p1 == Cardinality(P')
                 h1 == Cardinality(H')
      <3>1. p1 = p - m /\ h1 = h - 1 /\ p \in Nat /\ h \in Nat
        BY <1>3, <1>5, <2>3
      <3> HIDE DEF p, h, p1, h1
      <3>2. h1 + p1 = h + p + d
        BY <1>4, <3>1
      <3> QED BY <3>2 DEF p, h, p1, h1, P, H
    <2> HIDE DEF d
    <2> QED BY <1>1, <1>3, <2>6, <2>8, <2>9, <2>10, <2>11, ZonesStep
  <1> QED BY <1>16, <1>17

\* Every operation on strings and zones keeps OInv.
LEMMA StringsOwnedNext ==
  ASSUME OInv, StringNext(Var) \/ ZoneNext, Between
  PROVE  OInv'
  BY NewStringStep, FreeStringStep, ZoneEnterStep, ZoneAllocStep, ZoneReleaseStep, Zenon
     DEF StringNext, ZoneNext

-----------------------------------------------------------------------------
(* Buffers: growth.                                                           *)

\* A buffer step moves neither strings nor zones, and its cells are headers.
LEMMA BufferStep ==
  ASSUME OInv, call = Idle, UNCHANGED notBuffers, UNCHANGED restOfHeap,
         GoodHeap(heap'), heap'.str_head = heap.str_head,
         Keeps(heap, heap', "str"), Keeps(heap, heap', "payload"), BufferSide',
         NEW d \in Int, heap'.nodes = heap.nodes + d, Headers' = Headers + d
  PROVE  OInv'
  <1>1. GoodHeap(heap) /\ StringSide /\ ZoneSide /\ CallSide
    BY OInvParts
  <1>2. UNCHANGED <<zones, var, mine, told, untracked, handed, misfreed, handle>> /\ call' = Idle
    BY DEF restOfHeap, notBuffers, ipcVars
  <1>3. StringSide' /\ ZoneSide' /\ CallSide'
    BY <1>1, <1>2, StringsFrame, ZonesFrame, CallFrame
  <1>4. LinkNodes' = LinkNodes
    BY <1>2, SameZones DEF LinkNodes
  <1>5. HandleNodes' = HandleNodes
    BY <1>2, SameHandles
  <1>6. Counted'
    <2> DEFINE h == Headers
               h1 == Headers'
               l == LinkNodes
               k == HandleNodes
               n == heap.nodes
               n1 == heap'.nodes
    <2>1. n = l + h + k /\ l \in Nat /\ h \in Nat /\ k \in Nat
      BY OInvCounts
    <2>2. n1 = n + d /\ h1 = h + d
      OBVIOUS
    <2> HIDE DEF h, h1, l, k, n, n1
    <2>3. n1 = l + h1 + k
      BY <2>1, <2>2
    <2> QED BY <1>4, <1>5, <2>3 DEF h1, l, k, n1, Counted
  <1> QED BY <1>3, <1>6, OInvIntro

\* What a buffer that grew has kept: g and c are the heap and the buffer after.
Grown(h, b, g, c, needed) ==
  /\ GoodHeap(g) /\ g.nodes = h.nodes /\ g.str_head = h.str_head
  /\ c \in [data : Place, length : {b.length}, capacity : Nat]
  /\ c.data \in Addr /\ c.length = b.length /\ c.capacity \in Nat /\ c.capacity >= needed
  /\ g.block[c.data] = "array"
  /\ g.mem[c.data] = IF b.data = Null THEN <<>> ELSE h.mem[b.data]
  /\ c.data = b.data \/ h.block[c.data] = "free"
  /\ c.data # b.data /\ b.data # Null => g.block[b.data] = "free"
  /\ \A x \in Addr \ {b.data, c.data} : g.block[x] = h.block[x] /\ g.mem[x] = h.mem[x]

\* The capacity that doubling finds (bytes.c, lines.c) is enough.
LEMMA CapacityFacts ==
  ASSUME NEW capacity \in Nat, NEW needed \in Nat, NEW least \in Nat
  PROVE  NewCapacity(capacity, needed, least) \in Nat /\ NewCapacity(capacity, needed, least) >= needed
  BY DEF NewCapacity

\* realloc: in place or moved, the contents stay and the old block is gone.
LEMMA ReallocatedFacts ==
  ASSUME NEW h, GoodHeap(h), NEW data \in Place, data # Null => h.block[data] = "array",
         NEW r \in Addr, r = data \/ h.block[r] = "free", NEW g, g = Reallocated(h, data, r)
  PROVE  /\ GoodHeap(g) /\ g.nodes = h.nodes /\ g.str_head = h.str_head
         /\ g.block[r] = "array" /\ g.mem[r] = IF data = Null THEN <<>> ELSE h.mem[data]
         /\ r # data /\ data # Null => g.block[data] = "free"
         /\ \A x \in Addr \ {data, r} : g.block[x] = h.block[x] /\ g.mem[x] = h.mem[x]
  <1>0. data # Null => data \in Addr
    BY DEF Place
  <1>1. CASE r = data
    <2>1. r # Null
      BY NullIsNoAddress
    <2> QED BY <1>1, <2>1 DEF Reallocated
  <1>2. CASE r # data /\ data = Null
    <2>1. g = Alloc(h, r, "array", <<>>) /\ "array" \in Kinds
      BY <1>2 DEF Reallocated, Kinds
    <2>2. GoodHeap(g) /\ Changes(h, g, r, "array", <<>>) /\ g.nodes = h.nodes /\ g.str_head = h.str_head
      BY <2>1, AllocFacts
    <2> QED BY <1>2, <2>2 DEF Changes
  <1>3. CASE r # data /\ data # Null
    <2> DEFINE f == Free(h, data)
    <2>1. g = Alloc(f, r, "array", h.mem[data]) /\ "array" \in Kinds
      BY <1>3 DEF Reallocated, Kinds
    <2>2. GoodHeap(f) /\ Changes(h, f, data, "free", <<>>) /\ f.nodes = h.nodes /\ f.str_head = h.str_head
      BY <1>0, <1>3, FreeFacts
    <2> HIDE DEF f
    <2>3. GoodHeap(g) /\ Changes(f, g, r, "array", h.mem[data]) /\ g.nodes = f.nodes
          /\ g.str_head = f.str_head
      BY <2>1, <2>2, AllocFacts
    <2>4. g.block[r] = "array" /\ g.mem[r] = h.mem[data]
      BY <2>3 DEF Changes
    <2>5. g.block[data] = "free"
      BY <1>0, <1>3, <2>2, <2>3 DEF Changes
    <2>6. \A x \in Addr \ {data, r} : g.block[x] = h.block[x] /\ g.mem[x] = h.mem[x]
      BY <2>2, <2>3 DEF Changes
    <2> QED BY <1>3, <2>2, <2>3, <2>4, <2>5, <2>6
  <1> QED BY <1>1, <1>2, <1>3

\* A record with two fields replaced.
LEMMA BufferFields ==
  ASSUME NEW b, NEW l \in Nat, b \in [data : Place, length : {l}, capacity : Nat],
         NEW r \in Place, NEW n \in Nat, NEW c, c = [b EXCEPT !.data = r, !.capacity = n]
  PROVE  c \in [data : Place, length : {l}, capacity : Nat] /\ c.data = r /\ c.capacity = n /\ c.length = b.length
  OBVIOUS

\* buffer_ensure grows the buffer or leaves everything as it was.
LEMMA EnsureFacts ==
  ASSUME NEW h, GoodHeap(h), NEW b \in Buffers, NEW needed \in Nat, NEW least \in Nat, needed > 0,
         b.data # Null => h.block[b.data] = "array", b.data = Null => b.capacity = 0,
         NEW r, r = b.data \/ r = Null \/ (r \in Addr /\ h.block[r] = "free"),
         NEW e, e = buffer_ensure(h, b, needed, least, r)
  PROVE  \/ e.ok /\ Grown(h, b, e.h, e.b, needed)
         \/ ~e.ok /\ e.h = h /\ e.b = b
  <1>1. b.data \in Place /\ b.length \in Nat /\ b.capacity \in Nat
        /\ b \in [data : Place, length : {b.length}, capacity : Nat]
        /\ (b.data # Null => b.data \in Addr)
    BY BuffersAssumption DEF Buffers, Place
  <1>2. CASE b.capacity >= needed
    <2>1. e.ok /\ e.h = h /\ e.b = b
      BY <1>2 DEF buffer_ensure
    <2>2. b.data # Null
      BY <1>1, <1>2
    <2> QED BY <1>1, <1>2, <2>1, <2>2 DEF Grown
  <1>3. CASE ~(b.capacity >= needed) /\ r = Null
    BY <1>3 DEF buffer_ensure
  <1>4. CASE ~(b.capacity >= needed) /\ r # Null
    <2> DEFINE n == NewCapacity(b.capacity, needed, least)
               c == [b EXCEPT !.data = r, !.capacity = n]
               g == Reallocated(h, b.data, r)
    <2>1. e.ok /\ e.h = g /\ e.b = c
      BY <1>4 DEF buffer_ensure
    <2>2. n \in Nat /\ n >= needed
      BY <1>1, CapacityFacts
    <2>3. r \in Addr /\ (r = b.data \/ h.block[r] = "free") /\ r \in Place
      BY <1>1, <1>4 DEF Place
    <2> HIDE DEF n
    <2>4. c \in [data : Place, length : {b.length}, capacity : Nat] /\ c.data = r /\ c.capacity = n
          /\ c.length = b.length
      BY <1>1, <2>2, <2>3, BufferFields
    <2>5. /\ GoodHeap(g) /\ g.nodes = h.nodes /\ g.str_head = h.str_head
          /\ g.block[r] = "array" /\ g.mem[r] = IF b.data = Null THEN <<>> ELSE h.mem[b.data]
          /\ r # b.data /\ b.data # Null => g.block[b.data] = "free"
          /\ \A x \in Addr \ {b.data, r} : g.block[x] = h.block[x] /\ g.mem[x] = h.mem[x]
      BY <1>1, <2>3, ReallocatedFacts
    <2> HIDE DEF c, g
    <2>6. Grown(h, b, g, c, needed)
      BY <2>2, <2>3, <2>4, <2>5 DEF Grown
    <2> QED BY <2>1, <2>6
  <1> QED BY <1>2, <1>3, <1>4

\* What a new buffer starts with.
Begun(h, g, b) ==
  /\ GoodHeap(g) /\ g.nodes = h.nodes + 1 /\ g.str_head = h.str_head
  /\ b \in Buffers /\ b.data \in Addr /\ b.length = 0 /\ h.block[b.data] = "free"
  /\ Changes(h, g, b.data, "array", <<>>)

\* The buffer was made, or nothing was.
Opened(h, n) ==
  \/ n.ok = TRUE /\ Begun(h, n.h, n.b)
  \/ /\ n.ok = FALSE /\ n.b = NoBuffer
     /\ GoodHeap(n.h) /\ SameBlocks(h, n.h) /\ n.h.nodes = h.nodes
     /\ n.h.str_head = h.str_head

\* A new buffer has its record and its array, or neither.
LEMMA WithCapacityFacts ==
  ASSUME GoodHeap(heap), NEW requested \in Nat, NEW least \in Nat \ {0}, NEW header \in BOOLEAN,
         NEW r \in Malloc(heap), NEW n, n = with_capacity(requested, least, header, r)
  PROVE  Opened(heap, n)
  <1> USE DEF Opened
  <1>1. r = Null \/ (r \in Addr /\ heap.block[r] = "free")
    BY MallocFacts
  <1>2. CASE ~header
    <2>1. n.ok = FALSE /\ n.h = heap /\ n.b = NoBuffer
      BY <1>2 DEF with_capacity
    <2> QED BY <2>1 DEF SameBlocks
  <1>3. CASE header
    <2> DEFINE h == AddNodes(heap, 1)
               needed == normalize_capacity(requested, least)
               e == buffer_ensure(h, NoBuffer, needed, least, r)
    <2>1. n = IF e.ok THEN e ELSE [e EXCEPT !.h = FreeNodes(e.h, 1)]
      BY <1>3 DEF with_capacity
    <2>2. needed \in Nat /\ needed > 0
      BY DEF normalize_capacity
    <2>3. GoodHeap(h) /\ SameBlocks(heap, h) /\ h.str_head = heap.str_head /\ h.nodes = heap.nodes + 1
      BY AddNodesFacts
    <2>4. NoBuffer \in Buffers /\ NoBuffer.data = Null /\ NoBuffer.capacity = 0 /\ NoBuffer.length = 0
      BY BuffersAssumption DEF NoBuffer, Buffers, Place
    <2> HIDE DEF h, needed
    <2>5. CASE r = Null
      <3>1. e = [ok |-> FALSE, h |-> h, b |-> NoBuffer]
        BY <2>2, <2>4, <2>5 DEF buffer_ensure
      <3>2. n.ok = FALSE /\ n.b = NoBuffer /\ n.h = FreeNodes(h, 1)
        BY <2>1, <3>1
      <3>3. heap.nodes \in Nat
        BY GoodHeapTypes
      <3>4. 1 <= h.nodes /\ 1 \in Nat
        BY <2>3, <3>3
      <3>5. GoodHeap(n.h) /\ SameBlocks(h, n.h) /\ n.h.str_head = h.str_head /\ n.h.nodes = h.nodes - 1
        BY <2>3, <3>2, <3>4, FreeNodesFacts
      <3>6. n.h.nodes = heap.nodes
        BY <2>3, <3>3, <3>5
      <3>7. SameBlocks(heap, n.h)
        BY <2>3, <3>5 DEF SameBlocks
      <3> QED BY <2>3, <3>2, <3>5, <3>6, <3>7
    <2>6. CASE r # Null
      <3> DEFINE cap == NewCapacity(0, needed, least)
                 g == Reallocated(h, Null, r)
                 b == [NoBuffer EXCEPT !.data = r, !.capacity = cap]
      <3>1. e = [ok |-> TRUE, h |-> g, b |-> b]
        BY <2>2, <2>4, <2>6 DEF buffer_ensure
      <3>2. n.ok = TRUE /\ n.b = b /\ n.h = g
        BY <2>1, <3>1
      <3>3. cap \in Nat
        BY <2>2, CapacityFacts
      <3>4. r \in Addr /\ r \in Place /\ heap.block[r] = "free"
        BY <1>1, <2>6 DEF Place
      <3> HIDE DEF cap
      <3>5. b \in Buffers /\ b.data = r /\ b.length = 0
        BY <2>4, <3>3, <3>4 DEF NoBuffer, Buffers
      <3>6. "array" \in Kinds /\ g = Alloc(h, r, "array", <<>>)
        BY <2>6 DEF Reallocated, Kinds
      <3> HIDE DEF g
      <3>7. GoodHeap(g) /\ Changes(h, g, r, "array", <<>>) /\ g.nodes = h.nodes /\ g.str_head = h.str_head
        BY <2>3, <3>4, <3>6, AllocFacts
      <3>8. Changes(heap, g, r, "array", <<>>)
        BY <2>3, <3>7 DEF Changes, SameBlocks
      <3> HIDE DEF b
      <3>9. Begun(heap, g, b)
        BY <2>3, <3>4, <3>5, <3>7, <3>8 DEF Begun
      <3> QED BY <3>2, <3>9
    <2> QED BY <2>5, <2>6
  <1> QED BY <1>2, <1>3

-----------------------------------------------------------------------------
(* Buffers: contents.                                                         *)

\* A prefix of a sequence.
LEMMA PrefixFacts ==
  ASSUME NEW S, NEW c \in Seq(S), NEW n \in Nat, n <= Len(c)
  PROVE  /\ SubSeq(c, 1, n) \in Seq(S) /\ Len(SubSeq(c, 1, n)) = n
         /\ \A i \in 1..n : SubSeq(c, 1, n)[i] = c[i]
  <1> DEFINE l == Len(c)
  <1>1. l \in Nat /\ \A i \in 1..l : c[i] \in S
    BY LenProperties, ElementOfSeq
  <1>2. n <= l
    OBVIOUS
  <1> HIDE DEF l
  <1>3. \A i \in 1..n : c[i] \in S
    BY <1>1, <1>2
  <1>4. /\ SubSeq(c, 1, n) \in Seq(S) /\ Len(SubSeq(c, 1, n)) = IF 1 <= n THEN n - 1 + 1 ELSE 0
        /\ \A i \in 1..(n - 1 + 1) : SubSeq(c, 1, n)[i] = c[1 + i - 1]
    BY <1>3, SubSeqProperties
  <1>5. \A i \in 1..n : i \in 1..(n - 1 + 1) /\ 1 + i - 1 = i
    OBVIOUS
  <1>6. (IF 1 <= n THEN n - 1 + 1 ELSE 0) = n
    OBVIOUS
  <1> QED BY <1>4, <1>5, <1>6

\* The first n elements of c are w.
LEMMA PrefixIs ==
  ASSUME NEW S, NEW c \in Seq(S), NEW n \in Nat, n <= Len(c), NEW w \in Seq(S),
         Len(w) = n, \A i \in 1..n : c[i] = w[i]
  PROVE  SubSeq(c, 1, n) = w
  BY PrefixFacts, SeqEqual

\* A suffix of a sequence.
LEMMA SuffixFacts ==
  ASSUME NEW S, NEW c \in Seq(S), NEW n \in Nat
  PROVE  LET t == SubSeq(c, n + 1, Len(c))
         IN  /\ t \in Seq(S)
             /\ Len(t) = IF n <= Len(c) THEN Len(c) - n ELSE 0
             /\ \A i \in 1..(Len(c) - n) : t[i] = c[n + i]
  <1> DEFINE l == Len(c)
             t == SubSeq(c, n + 1, l)
  <1>1. l \in Nat /\ \A i \in 1..l : c[i] \in S
    BY LenProperties, ElementOfSeq
  <1> HIDE DEF l
  <1>2. \A i \in (n + 1)..l : c[i] \in S
    BY <1>1
  <1>3. n + 1 \in Int /\ l \in Int
    BY <1>1
  <1>4. /\ t \in Seq(S) /\ Len(t) = IF n + 1 <= l THEN l - (n + 1) + 1 ELSE 0
        /\ \A i \in 1..(l - (n + 1) + 1) : t[i] = c[(n + 1) + i - 1]
    BY <1>2, <1>3, SubSeqProperties
  <1>5. \A i \in 1..(l - n) : i \in 1..(l - (n + 1) + 1) /\ (n + 1) + i - 1 = n + i
    BY <1>1
  <1>6. (IF n + 1 <= l THEN l - (n + 1) + 1 ELSE 0) = IF n <= l THEN l - n ELSE 0
    BY <1>1
  <1> QED BY <1>4, <1>5, <1>6 DEF l

\* Two sequences, element by element.
Joined(S, s, t, m, n) ==
  /\ s \o t \in Seq(S) /\ Len(s \o t) = m + n
  /\ \A i \in 1..m : (s \o t)[i] = s[i]
  /\ \A i \in 1..n : (s \o t)[m + i] = t[i]

\* Two sequences one after the other.
LEMMA ConcatFacts ==
  ASSUME NEW S, NEW s \in Seq(S), NEW t \in Seq(S), NEW m \in Nat, NEW n \in Nat,
         Len(s) = m, Len(t) = n
  PROVE  Joined(S, s, t, m, n)
  <1>1. /\ s \o t \in Seq(S) /\ Len(s \o t) = m + n
        /\ \A i \in 1..(m + n) : (s \o t)[i] = IF i <= m THEN s[i] ELSE t[i - m]
    BY ConcatProperties
  <1>2. ASSUME NEW i \in 1..m PROVE (s \o t)[i] = s[i]
    <2>1. i \in 1..(m + n) /\ i <= m
      OBVIOUS
    <2> QED BY <1>1, <2>1
  <1>3. ASSUME NEW i \in 1..n PROVE (s \o t)[m + i] = t[i]
    <2>1. m + i \in 1..(m + n) /\ ~(m + i <= m) /\ (m + i) - m = i
      OBVIOUS
    <2> QED BY <1>1, <2>1
  <1> QED BY <1>1, <1>2, <1>3 DEF Joined

\* w is c with the values in it after the first `at` elements.
Overwritten(S, c, at, values, w) ==
  /\ w \in Seq(S) /\ Len(w) \in Nat /\ at + Len(values) <= Len(w) /\ Len(c) <= Len(w)
  /\ \A i \in 1..at : w[i] = c[i]
  /\ \A i \in 1..Len(values) : w[at + i] = values[i]
  /\ \A i \in 1..Len(c) : i > at + Len(values) => w[i] = c[i]

\* Writing values into a block from a position on.
LEMMA WrittenFacts ==
  ASSUME NEW S, NEW c \in Seq(S), NEW at \in Nat, at <= Len(c), NEW values \in Seq(S)
  PROVE  Overwritten(S, c, at, values, Written(c, at, values))
  <1> DEFINE w == Written(c, at, values)
             k == Len(values)
             l == Len(c)
             s == SubSeq(c, 1, at)
             t == SubSeq(c, (at + k) + 1, l)
             j == IF at + k <= l THEN l - (at + k) ELSE 0
  <1>1. k \in Nat /\ l \in Nat /\ at <= l
    BY LenProperties
  <1>2. s \in Seq(S) /\ Len(s) = at /\ \A i \in 1..at : s[i] = c[i]
    BY PrefixFacts
  <1>3. at + k \in Nat
    BY <1>1
  <1>4. t \in Seq(S) /\ Len(t) = j /\ \A i \in 1..(l - (at + k)) : t[i] = c[(at + k) + i]
    BY <1>3, SuffixFacts
  <1>5. w = (s \o values) \o t
    BY DEF Written
  <1> HIDE DEF w, s, t
  <1>6. Len(values) = k
    OBVIOUS
  <1> HIDE DEF k, l
  <1>7. j \in Nat /\ (at + k) + j >= l
    BY <1>1
  <1>8. /\ s \o values \in Seq(S) /\ Len(s \o values) = at + k
        /\ \A i \in 1..at : (s \o values)[i] = s[i]
        /\ \A i \in 1..k : (s \o values)[at + i] = values[i]
    <2>1. Joined(S, s, values, at, k)
      BY <1>1, <1>2, <1>6, ConcatFacts
    <2> QED BY <2>1 DEF Joined
  <1> HIDE DEF j
  <1>9. /\ w \in Seq(S) /\ Len(w) = (at + k) + j
        /\ \A i \in 1..(at + k) : w[i] = (s \o values)[i]
        /\ \A i \in 1..j : w[(at + k) + i] = t[i]
    <2> DEFINE u == s \o values
               n == at + k
    <2>1. u \in Seq(S) /\ Len(u) = n /\ n \in Nat
      BY <1>3, <1>8
    <2> HIDE DEF u, n
    <2>2. Joined(S, u, t, n, j)
      BY <1>4, <1>7, <2>1, ConcatFacts
    <2> QED BY <1>5, <2>2 DEF Joined, u, n
  <1>10. Len(w) \in Nat /\ at + k <= Len(w) /\ l <= Len(w)
    BY <1>1, <1>7, <1>9
  <1>11. \A i \in 1..at : w[i] = c[i]
    <2>1. \A i \in 1..at : i \in 1..(at + k)
      BY <1>1
    <2> QED BY <1>2, <1>8, <1>9, <2>1
  <1>12. \A i \in 1..k : w[at + i] = values[i]
    <2>1. \A i \in 1..k : at + i \in 1..(at + k)
      BY <1>1
    <2> QED BY <1>8, <1>9, <2>1
  <1>13. ASSUME NEW i \in 1..l, i > at + k PROVE w[i] = c[i]
    <2> DEFINE x == i - (at + k)
    <2>1. x \in 1..(l - (at + k)) /\ (at + k) + x = i
      BY <1>1, <1>13
    <2>2. x \in 1..j
      BY <1>1, <1>13 DEF j
    <2> QED BY <1>4, <1>9, <2>1, <2>2
  <1> QED BY <1>9, <1>10, <1>11, <1>12, <1>13 DEF k, l, w, Overwritten

-----------------------------------------------------------------------------
(* std.bytes.                                                                 *)

\* The lines and everything that belongs to them are untouched by a step of
\* the byte buffer.
LEMMA BytesStep ==
  ASSUME OInv, call = Idle, UNCHANGED notBuffers, UNCHANGED restOfHeap, UNCHANGED linesVars,
         GoodHeap(heap'), heap'.str_head = heap.str_head,
         Keeps(heap, heap', "str"), Keeps(heap, heap', "payload"), Keeps(heap, heap', "line"),
         linesOpen => heap'.mem[lines.data] = heap.mem[lines.data],
         Live("array")' = {bytes'.data, lines.data} \ {Null}, bytes'.data = lines.data => bytes'.data = Null,
         bytes' \in Buffers, bytesOpen' \in BOOLEAN, misread' \in BOOLEAN, want' \in Seq(Bytes), slice' \in Nat,
         BytesHeld',
         NEW d \in Int, heap'.nodes = heap.nodes + d, Headers' = Headers + d
  PROVE  OInv'
  <1>1. BufferSide
    BY OInvParts
  <1>2. /\ LinesHeld'
        /\ (linesOpen => IsInjective(Items))'
        /\ (Live("line") = IF linesOpen THEN Range(Items) ELSE {})'
    BY <1>1, LinesFrame
  <1>3. UNCHANGED <<lines, linesOpen, wantLines>>
    BY DEF linesVars
  <1>4. BufferTypes'
    BY <1>1, <1>3 DEF BufferSide, BufferTypes
  <1>5. BuffersOwned'
    BY <1>2, <1>3 DEF BuffersOwned
  <1>6. BufferSide'
    BY <1>2, <1>4, <1>5 DEF BufferSide
  <1> QED BY <1>6, BufferStep

\* Where the data of the buffers is.
LEMMA DataFacts ==
  ASSUME OInv
  PROVE  /\ GoodHeap(heap) /\ BufferSide
         /\ bytes \in Buffers /\ lines \in Buffers
         /\ Live("array") = {bytes.data, lines.data} \ {Null}
         /\ bytes.data = lines.data => bytes.data = Null
         /\ bytes.data \in Place /\ lines.data \in Place
         /\ bytes.data # Null => bytes.data \in Addr /\ heap.block[bytes.data] = "array"
         /\ lines.data # Null => lines.data \in Addr /\ heap.block[lines.data] = "array"
         /\ bytesOpen <=> bytes.data # Null
         /\ linesOpen <=> lines.data # Null
  <1>1. GoodHeap(heap) /\ BufferSide
    BY OInvParts
  <1>2. BufferTypes /\ BuffersOwned /\ BytesHeld /\ LinesHeld
    BY <1>1 DEF BufferSide
  <1>3. bytes \in Buffers /\ lines \in Buffers /\ bytes.data \in Place /\ lines.data \in Place
    BY <1>2 DEF BufferTypes, Buffers
  <1>4. NoBuffer.data = Null
    BY DEF NoBuffer
  <1>5. (bytesOpen <=> bytes.data # Null) /\ (linesOpen <=> lines.data # Null)
    BY <1>2, <1>4 DEF BytesHeld, LinesHeld
  <1> QED BY <1>1, <1>2, <1>3, <1>5 DEF BuffersOwned, Live

\* A buffer grew, and contents were stored in it.
Moved(h, b, g, c, w) ==
  /\ GoodHeap(g) /\ g.nodes = h.nodes /\ g.str_head = h.str_head
  /\ c.data \in Addr /\ g.block[c.data] = "array" /\ g.mem[c.data] = w
  /\ c.data = b.data \/ h.block[c.data] = "free"
  /\ c.data # b.data /\ b.data # Null => g.block[b.data] = "free"
  /\ \A x \in Addr \ {b.data, c.data} : g.block[x] = h.block[x] /\ g.mem[x] = h.mem[x]

\* A buffer that grew, with other contents.
LEMMA StoredFacts ==
  ASSUME NEW h, NEW b, NEW g, NEW c, NEW needed, Grown(h, b, g, c, needed), NEW w,
         NEW f, f = [g EXCEPT !.mem[c.data] = w]
  PROVE  Moved(h, b, f, c, w)
  <1>1. GoodHeap(g) /\ c.data \in Addr /\ g.block[c.data] = "array"
    BY DEF Grown
  <1>2. GoodHeap(f) /\ Changes(g, f, c.data, "array", w) /\ f.nodes = g.nodes /\ f.str_head = g.str_head
        /\ f.block = g.block
    BY <1>1, StoreFacts
  <1> QED BY <1>1, <1>2 DEF Moved, Grown, Changes

\* The arrays are the data of the two buffers.
ArraysAre(h, data, o) ==
  {a \in Addr : h.block[a] = "array"} = {data, o} \ {Null} /\ (data = o => data = Null)

\* The other buffer, whose data is at o, and blocks of other kinds stay.
OthersKept(h, g, data, o) ==
  /\ ArraysAre(g, data, o)
  /\ data # o
  /\ o # Null => g.mem[o] = h.mem[o]
  /\ Keeps(h, g, "str") /\ Keeps(h, g, "payload") /\ Keeps(h, g, "line")

\* A buffer that moved leaves the other buffer's array alone.
LEMMA MovedData ==
  ASSUME NEW h, NEW b, NEW g, NEW c, NEW w, Moved(h, b, g, c, w), b.data \in Place, NEW o \in Place, ArraysAre(h, b.data, o)
  PROVE  OthersKept(h, g, c.data, o)
  <1>1. (b.data # Null => b.data \in Addr /\ h.block[b.data] = "array")
        /\ (o # Null => o \in Addr /\ h.block[o] = "array")
        /\ (b.data = o => b.data = Null)
    BY DEF Place, ArraysAre
  <1>2. c.data \in Addr /\ c.data # Null /\ c.data # o
    BY <1>1, NullIsNoAddress DEF Moved
  <1>3. o # Null => o \in Addr \ {b.data, c.data}
    BY <1>1, <1>2
  <1>4. Keeps(h, g, "str") /\ Keeps(h, g, "payload") /\ Keeps(h, g, "line")
    <2> SUFFICES ASSUME NEW kind, kind # "free", kind # "array" PROVE Keeps(h, g, kind)
      OBVIOUS
    <2> SUFFICES ASSUME NEW x \in Addr
                 PROVE  /\ h.block[x] = kind <=> g.block[x] = kind
                        /\ h.block[x] = kind => g.mem[x] = h.mem[x]
      BY DEF Keeps
    <2>1. CASE x \in {b.data, c.data}
      BY <1>1, <1>2, <2>1, NullIsNoAddress DEF Moved
    <2>2. CASE x \notin {b.data, c.data}
      BY <2>2 DEF Moved
    <2> QED BY <2>1, <2>2
  <1>5. ASSUME NEW x \in Addr PROVE g.block[x] = "array" <=> x \in {c.data, o} \ {Null}
    <2>1. CASE x \in {b.data, c.data}
      BY <1>1, <1>2, <1>3, <2>1, NullIsNoAddress DEF Moved
    <2>2. CASE x \notin {b.data, c.data}
      BY <1>1, <2>2, NullIsNoAddress DEF Moved, ArraysAre
    <2> QED BY <2>1, <2>2
  <1>6. {c.data, o} \ {Null} \subseteq Addr
    BY <1>1, <1>2
  <1>7. {a \in Addr : g.block[a] = "array"} = {c.data, o} \ {Null}
    BY <1>5, <1>6
  <1> QED BY <1>2, <1>3, <1>4, <1>7 DEF Moved, ArraysAre, OthersKept

\* What realloc may return.
LEMMA ChoiceFacts ==
  ASSUME NEW h, NEW b, NEW needed, NEW r, GrowthChoice(h, b, needed, r)
  PROVE  r = b.data \/ r = Null \/ (r \in Addr /\ h.block[r] = "free")
  BY MallocFacts DEF GrowthChoice, Realloc

\* The byte buffer grew to make room for n more, and they were stored.
LEMMA StoredBytes ==
  ASSUME OInv, bytesOpen, NEW n \in Nat, n > 0, bytes.length + n <= MaxLen,
         NEW values \in Seq(Bytes), Len(values) = n, NEW added \in Seq(Bytes), Len(added) = n,
         NEW h, NEW c, Grown(heap, bytes, h, c, bytes.length + n),
         heap' = Store(h, c, c.length, values), bytes' = [c EXCEPT !.length = @ + n],
         want' = want \o added,
         misread' \in BOOLEAN, misread => misread', misread' \/ added = values,
         slice' \in Nat, UNCHANGED <<restOfHeap, bytesOpen, linesVars>>, call = Idle, UNCHANGED notBuffers
  PROVE  OInv'
  <1> DEFINE m == heap.mem[bytes.data]
             l == bytes.length
             w == Written(m, l, values)
  <1>1. /\ GoodHeap(heap) /\ BufferSide /\ Live("array") = {bytes.data, lines.data} \ {Null}
        /\ (bytes.data = lines.data => bytes.data = Null)
        /\ bytes.data \in Place /\ lines.data \in Place
        /\ (linesOpen <=> lines.data # Null)
    BY DataFacts
  <1>2. /\ bytes.data \in Addr /\ l \in Nat /\ m \in Seq(Bytes) /\ l <= Len(m)
        /\ bytes.data # Null
    BY <1>1, BytesFacts, NullIsNoAddress
  <1>3. c.data \in Addr /\ c.length = l /\ c.capacity \in Nat /\ c.capacity >= l + n
        /\ c \in [data : Place, length : {l}, capacity : Nat] /\ h.mem[c.data] = m
    BY <1>2 DEF Grown
  <1>4. heap' = [h EXCEPT !.mem[c.data] = w]
    BY <1>3 DEF Store
  <1>5. w \in Seq(Bytes) /\ Len(w) \in Nat /\ l + n <= Len(w)
        /\ (\A i \in 1..l : w[i] = m[i]) /\ \A i \in 1..n : w[l + i] = values[i]
    <2>1. Overwritten(Bytes, m, l, values, w)
      BY <1>2, WrittenFacts
    <2> HIDE DEF w
    <2> QED BY <2>1 DEF Overwritten
  <1> HIDE DEF w
  <1>6. Moved(heap, bytes, heap', c, w)
    BY <1>4, StoredFacts
  <1>7. bytes' \in Buffers /\ bytes'.data = c.data /\ bytes'.length = l + n /\ bytes'.capacity = c.capacity
    <2>1. l + n \in 0..MaxLen
      BY <1>2, BuffersAssumption
    <2> HIDE DEF l
    <2> QED BY <1>2, <1>3, <2>1 DEF Buffers
  <1>8. /\ {a \in Addr : heap'.block[a] = "array"} = {c.data, lines.data} \ {Null}
        /\ c.data # lines.data
        /\ (lines.data # Null => heap'.mem[lines.data] = heap.mem[lines.data])
        /\ Keeps(heap, heap', "str") /\ Keeps(heap, heap', "payload") /\ Keeps(heap, heap', "line")
    <2> DEFINE o == lines.data
    <2>1. ArraysAre(heap, bytes.data, o) /\ o \in Place
      BY <1>1 DEF Live, ArraysAre
    <2> HIDE DEF o
    <2>2. OthersKept(heap, heap', c.data, o)
      BY <1>1, <1>6, <2>1, MovedData
    <2> QED BY <2>2 DEF OthersKept, ArraysAre, o
  <1>9. GoodHeap(heap') /\ heap'.nodes = heap.nodes /\ heap'.str_head = heap.str_head
        /\ heap'.mem[c.data] = w
    BY <1>6 DEF Moved
  <1>10. want \in Seq(Bytes) /\ want' \in Seq(Bytes)
    BY <1>1 DEF BufferSide, BufferTypes
  <1>11. misread' \/ SubSeq(w, 1, l + n) = want'
    <2> SUFFICES ASSUME ~misread' PROVE SubSeq(w, 1, l + n) = want'
      OBVIOUS
    <2>1. added = values /\ SubSeq(m, 1, l) = want
      BY <1>1 DEF BufferSide, BytesHeld
    <2>2. Len(want) = l /\ \A i \in 1..l : want[i] = m[i]
      BY <1>2, <2>1, PrefixFacts
    <2> HIDE DEF l, m
    <2>3. Joined(Bytes, want, values, l, n)
      BY <1>2, <1>10, <2>2, ConcatFacts
    <2>4. want' = want \o values
      BY <2>1
    <2>5. want' \in Seq(Bytes) /\ Len(want') = l + n
      BY <2>3, <2>4 DEF Joined
    <2>6. ASSUME NEW i \in 1..(l + n) PROVE w[i] = want'[i]
      <3>1. CASE i <= l
        <4>1. i \in 1..l
          BY <1>2, <3>1
        <4> QED BY <1>5, <2>2, <2>3, <2>4, <4>1 DEF Joined
      <3>2. CASE ~(i <= l)
        <4>1. i - l \in 1..n /\ l + (i - l) = i
          BY <1>2, <3>2
        <4>2. w[l + (i - l)] = values[i - l] /\ want'[l + (i - l)] = values[i - l]
          BY <1>5, <2>3, <2>4, <4>1 DEF Joined
        <4> QED BY <4>1, <4>2
      <3> QED BY <3>1, <3>2
    <2> DEFINE k == l + n
               t == want'
    <2>7. k \in Nat /\ k <= Len(w) /\ t \in Seq(Bytes) /\ Len(t) = k /\ \A i \in 1..k : w[i] = t[i]
      BY <1>2, <1>5, <2>5, <2>6
    <2> HIDE DEF k, t
    <2>8. SubSeq(w, 1, k) = t
      BY <1>5, <2>7, PrefixIs
    <2> QED BY <2>8 DEF k, t
  <1>12. bytesOpen' /\ c.data # Null
    BY <1>3, NullIsNoAddress
  <1>13. BytesHeld'
    <2> HIDE DEF l, m
    <2> QED BY <1>3, <1>5, <1>7, <1>9, <1>11, <1>12 DEF BytesHeld
  <1>14. Live("array")' = {bytes'.data, lines.data} \ {Null} /\ bytes'.data # lines.data
    BY <1>7, <1>8 DEF Live
  <1>15. Headers' = Headers + 0 /\ heap'.nodes = heap.nodes + 0 /\ 0 \in Int
    <2>1. Headers' = Headers
      BY SameHeaders DEF linesVars
    <2>2. Headers \in Nat /\ heap.nodes \in Nat
      BY <1>1, OInvCounts, GoodHeapTypes
    <2> QED BY <1>9, <2>1, <2>2
  <1>16. bytesOpen' \in BOOLEAN
    BY <1>12
  <1>17. linesOpen => heap'.mem[lines.data] = heap.mem[lines.data]
    BY <1>1, <1>8
  <1> QED
    BY <1>7, <1>8, <1>9, <1>10, <1>13, <1>14, <1>15, <1>16, <1>17, BytesStep

\* A step of the byte buffer that leaves heap and buffer record alone.
LEMMA BytesUntouched ==
  ASSUME OInv, UNCHANGED <<heap, bytes, bytesOpen, want>>, slice' \in Nat,
         misread' \in BOOLEAN, misread => misread',
         UNCHANGED <<restOfHeap, linesVars>>, call = Idle, UNCHANGED notBuffers
  PROVE  OInv'
  <1>1. /\ GoodHeap(heap) /\ BufferSide /\ Live("array") = {bytes.data, lines.data} \ {Null}
        /\ (bytes.data = lines.data => bytes.data = Null)
        /\ bytes \in Buffers
    BY DataFacts
  <1>2. GoodHeap(heap') /\ SameBlocks(heap, heap')
    BY <1>1 DEF SameBlocks
  <1>3. Keeps(heap, heap', "str") /\ Keeps(heap, heap', "payload") /\ Keeps(heap, heap', "line")
    BY <1>2, SameKeeps
  <1>4. Live("array")' = {bytes'.data, lines.data} \ {Null}
    BY <1>1 DEF Live
  <1>5. want' \in Seq(Bytes) /\ bytesOpen' \in BOOLEAN
    BY <1>1 DEF BufferSide, BufferTypes
  <1>6. BytesHeld'
    BY <1>1 DEF BufferSide, BytesHeld
  <1>7. Headers' = Headers + 0 /\ heap'.nodes = heap.nodes + 0 /\ 0 \in Int
    <2>1. Headers' = Headers
      BY SameHeaders DEF linesVars
    <2>2. Headers \in Nat /\ heap.nodes \in Nat
      BY <1>1, OInvCounts, GoodHeapTypes
    <2> QED BY <2>1, <2>2
  <1>8. heap'.str_head = heap.str_head /\ (linesOpen => heap'.mem[lines.data] = heap.mem[lines.data])
        /\ bytes' \in Buffers /\ (bytes'.data = lines.data => bytes'.data = Null)
    BY <1>1
  <1> QED BY <1>2, <1>3, <1>4, <1>5, <1>6, <1>7, <1>8, BytesStep

\* Values stored behind the contents: the buffer has them, or nothing changed.
LEMMA AppendedStep ==
  ASSUME OInv, bytesOpen, NEW n \in Nat, n > 0, bytes.length + n <= MaxLen,
         NEW values \in Seq(Bytes), Len(values) = n, NEW added \in Seq(Bytes), Len(added) = n,
         NEW r, GrowthChoice(heap, bytes, bytes.length + n, r),
         NEW e, e = buffer_ensure(heap, bytes, bytes.length + n, BytesMin, r),
         IF e.ok
         THEN /\ heap' = Store(e.h, e.b, e.b.length, values)
              /\ bytes' = [e.b EXCEPT !.length = @ + n]
              /\ want' = want \o added
         ELSE heap' = e.h /\ bytes' = e.b /\ UNCHANGED want,
         misread' \in BOOLEAN, misread => misread', misread' \/ added = values,
         SliceAfter, UNCHANGED <<restOfHeap, bytesOpen, linesVars>>, call = Idle, UNCHANGED notBuffers
  PROVE  OInv'
  <1>1. GoodHeap(heap) /\ BufferSide /\ bytes \in Buffers /\ (bytes.data # Null => heap.block[bytes.data] = "array")
        /\ bytes.data # Null
    BY DataFacts
  <1>2. r = bytes.data \/ r = Null \/ (r \in Addr /\ heap.block[r] = "free")
    BY ChoiceFacts
  <1>3. slice' \in Nat
    BY <1>1 DEF SliceAfter, BufferSide, BufferTypes
  <1>4. bytes.length + n \in Nat /\ bytes.length + n > 0
    BY <1>1, BuffersAssumption DEF Buffers
  <1>5. BytesMin \in Nat
    BY BuffersAssumption
  <1> DEFINE needed == bytes.length + n
  <1> HIDE DEF needed
  <1>6. \/ e.ok /\ Grown(heap, bytes, e.h, e.b, needed)
        \/ ~e.ok /\ e.h = heap /\ e.b = bytes
    <2>1. e = buffer_ensure(heap, bytes, needed, BytesMin, r) /\ needed \in Nat /\ needed > 0
      BY <1>4 DEF needed
    <2> QED BY <1>1, <1>2, <1>5, <2>1, EnsureFacts
  <1>7. CASE e.ok
    <2> DEFINE h == e.h
               c == e.b
    <2>1. Grown(heap, bytes, h, c, bytes.length + n)
      BY <1>6, <1>7 DEF needed
    <2>2. heap' = Store(h, c, c.length, values) /\ bytes' = [c EXCEPT !.length = @ + n]
          /\ want' = want \o added
      BY <1>7
    <2> HIDE DEF h, c
    <2> QED BY <1>3, <2>1, <2>2, StoredBytes
  <1>8. CASE ~e.ok
    BY <1>3, <1>6, <1>8, BytesUntouched
  <1> QED BY <1>7, <1>8

\* cn_bytes_push.
LEMMA PushStep ==
  ASSUME OInv, NEW value \in Bytes, NEW r, cn_bytes_push(value, r), call = Idle, UNCHANGED notBuffers
  PROVE  OInv'
  <1> DEFINE values == <<value>>
             e == buffer_ensure(heap, bytes, bytes.length + 1, BytesMin, r)
  <1>1. GoodHeap(heap) /\ BufferSide /\ bytes \in Buffers
    BY DataFacts
  <1>2. want \in Seq(Bytes) /\ misread \in BOOLEAN
    BY <1>1 DEF BufferSide, BufferTypes
  <1>3. values \in Seq(Bytes) /\ Len(values) = 1 /\ 1 \in Nat /\ 1 > 0
    OBVIOUS
  <1>4. Append(want, value) = want \o values
    BY <1>2, AppendIsConcat
  <1>5. bytesOpen /\ bytes.length + 1 <= MaxLen
    BY <1>1, BuffersAssumption DEF cn_bytes_push, Buffers
  <1>6. GrowthChoice(heap, bytes, bytes.length + 1, r) /\ SliceAfter
        /\ UNCHANGED <<restOfHeap, bytesOpen, linesVars, misread>>
    BY DEF cn_bytes_push
  <1>7. IF e.ok
        THEN /\ heap' = Store(e.h, e.b, e.b.length, values)
             /\ bytes' = [e.b EXCEPT !.length = @ + 1]
             /\ want' = want \o values
        ELSE heap' = e.h /\ bytes' = e.b /\ UNCHANGED want
    BY <1>4, Zenon DEF cn_bytes_push
  <1>8. e = buffer_ensure(heap, bytes, bytes.length + 1, BytesMin, r)
    OBVIOUS
  <1> HIDE DEF e, values
  <1>9. misread' \in BOOLEAN /\ (misread => misread') /\ (misread' \/ values = values)
    BY <1>2, <1>6
  <1> QED BY <1>3, <1>5, <1>6, <1>7, <1>8, <1>9, AppendedStep

\* cn_bytes_append.
LEMMA AppendStep ==
  ASSUME OInv, NEW values \in Seq(Bytes), NEW r, cn_bytes_append(values, r), call = Idle, UNCHANGED notBuffers
  PROVE  OInv'
  <1> DEFINE n == Len(values)
             e == buffer_ensure(heap, bytes, bytes.length + n, BytesMin, r)
  <1>1. GoodHeap(heap) /\ BufferSide
    BY DataFacts
  <1>2. misread \in BOOLEAN
    BY <1>1 DEF BufferSide, BufferTypes
  <1>3. n \in Nat /\ n > 0
    <2>1. values # <<>>
      BY DEF cn_bytes_append
    <2> QED BY <2>1
  <1>5. bytesOpen /\ bytes.length + n <= MaxLen
    BY DEF cn_bytes_append
  <1>6. GrowthChoice(heap, bytes, bytes.length + n, r) /\ SliceAfter
        /\ UNCHANGED <<restOfHeap, bytesOpen, linesVars, misread>>
    BY DEF cn_bytes_append
  <1>7. IF e.ok
        THEN /\ heap' = Store(e.h, e.b, e.b.length, values)
             /\ bytes' = [e.b EXCEPT !.length = @ + n]
             /\ want' = want \o values
        ELSE heap' = e.h /\ bytes' = e.b /\ UNCHANGED want
    BY Zenon DEF cn_bytes_append
  <1>8. e = buffer_ensure(heap, bytes, bytes.length + n, BytesMin, r) /\ Len(values) = n
    OBVIOUS
  <1> HIDE DEF e, n
  <1>9. misread' \in BOOLEAN /\ (misread => misread') /\ (misread' \/ values = values)
    BY <1>2, <1>6
  <1> QED BY <1>3, <1>5, <1>6, <1>7, <1>8, <1>9, AppendedStep

\* cn_bytes_append of a slice of the buffer itself: what is read may have moved.
LEMMA OwnSliceStep ==
  ASSUME OInv, NEW r, NEW garbage \in Seq(Bytes), AppendOwnSlice(r, garbage), call = Idle, UNCHANGED notBuffers
  PROVE  OInv'
  <1> DEFINE n == slice
             e == buffer_ensure(heap, bytes, bytes.length + n, BytesMin, r)
             values == SubSeq(heap.mem[bytes.data], 1, n)
             moved == e.b.data # bytes.data
  <1>1. GoodHeap(heap) /\ BufferSide
    BY DataFacts
  <1>2. misread \in BOOLEAN
    BY <1>1 DEF BufferSide, BufferTypes
  <1>5. bytesOpen /\ bytes.length + n <= MaxLen /\ n \in 1..bytes.length /\ Len(garbage) = n
    BY DEF AppendOwnSlice
  <1>3. n \in Nat /\ n > 0 /\ n <= Len(heap.mem[bytes.data]) /\ heap.mem[bytes.data] \in Seq(Bytes)
    <2> DEFINE l == Len(heap.mem[bytes.data])
    <2>1. bytes.length \in Nat /\ bytes.length <= l /\ heap.mem[bytes.data] \in Seq(Bytes)
      BY <1>1, <1>5, BytesFacts
    <2>2. l \in Nat
      BY <2>1, LenProperties
    <2> HIDE DEF l
    <2>3. n \in Nat /\ n > 0 /\ n <= l
      BY <1>5, <2>1, <2>2
    <2> QED BY <2>1, <2>3 DEF l
  <1>4. values \in Seq(Bytes) /\ Len(values) = n
    BY <1>3, PrefixFacts
  <1>6. GrowthChoice(heap, bytes, bytes.length + n, r) /\ SliceAfter
        /\ UNCHANGED <<restOfHeap, bytesOpen, linesVars>>
        /\ (~moved => garbage = values) /\ misread' = (misread \/ moved)
    BY Zenon DEF AppendOwnSlice
  <1>7. IF e.ok
        THEN /\ heap' = Store(e.h, e.b, e.b.length, garbage)
             /\ bytes' = [e.b EXCEPT !.length = @ + n]
             /\ want' = want \o values
        ELSE heap' = e.h /\ bytes' = e.b /\ UNCHANGED want
    BY Zenon DEF AppendOwnSlice
  <1>8. e = buffer_ensure(heap, bytes, bytes.length + n, BytesMin, r)
    OBVIOUS
  <1> HIDE DEF e, moved, values, n
  <1>9. misread' \in BOOLEAN /\ (misread => misread') /\ (misread' \/ values = garbage)
    BY <1>2, <1>6 DEF moved
  <1> QED BY <1>3, <1>4, <1>5, <1>6, <1>7, <1>8, <1>9, AppendedStep

\* The prefix of length zero.
LEMMA EmptyPrefix ==
  ASSUME NEW S, NEW c \in Seq(S)
  PROVE  SubSeq(c, 1, 0) = <<>> /\ <<>> \in Seq(S)
  <1>1. 0 \in Nat /\ 0 <= Len(c) /\ <<>> \in Seq(S) /\ Len(<<>>) = 0 /\ \A i \in 1..0 : c[i] = <<>>[i]
    OBVIOUS
  <1> QED BY <1>1, PrefixIs

\* The sequence t is s with x at n.
Replaced(S, s, n, x, t) ==
  /\ t \in Seq(S) /\ Len(t) = Len(s)
  /\ \A i \in 1..Len(s) : t[i] = IF i = n THEN x ELSE s[i]

\* Replacing one element of a sequence.
LEMMA ReplacedAt ==
  ASSUME NEW S, NEW s \in Seq(S), NEW n, NEW x \in S, NEW t, t = [s EXCEPT ![n] = x]
  PROVE  Replaced(S, s, n, x, t)
  <1> DEFINE l == Len(s)
  <1>1. l \in Nat /\ s \in [1..l -> S]
    BY LenProperties
  <1> HIDE DEF l
  <1>2. t \in [1..l -> S] /\ \A i \in 1..l : t[i] = IF i = n THEN x ELSE s[i]
    BY <1>1
  <1>3. t \in Seq(S)
    BY <1>1, <1>2, SeqDef
  <1>4. DOMAIN t = 1..l
    BY <1>2
  <1>5. Len(t) = l
    BY <1>1, <1>3, <1>4, LenProperties
  <1> QED BY <1>2, <1>3, <1>5 DEF l, Replaced

\* cn_bytes_set.
LEMMA SetStep ==
  ASSUME OInv, NEW index, NEW value \in Bytes, cn_bytes_set(index, value), call = Idle, UNCHANGED notBuffers
  PROVE  OInv'
  <1> DEFINE m == heap.mem[bytes.data]
             l == bytes.length
             values == <<value>>
             w == Written(m, index, values)
  <1>0. /\ bytesOpen /\ index \in 0..(l - 1) /\ heap' = Store(heap, bytes, index, values)
        /\ want' = [want EXCEPT ![index + 1] = value]
        /\ UNCHANGED <<restOfHeap, bytes, bytesOpen, slice, linesVars, misread>>
    BY DEF cn_bytes_set
  <1>1. /\ GoodHeap(heap) /\ BufferSide /\ bytes \in Buffers
        /\ Live("array") = {bytes.data, lines.data} \ {Null}
        /\ (bytes.data = lines.data => bytes.data = Null)
        /\ bytes.data \in Place /\ lines.data \in Place
        /\ (linesOpen <=> lines.data # Null)
    BY DataFacts
  <1>2. /\ bytes.data \in Addr /\ l \in Nat /\ m \in Seq(Bytes) /\ l <= Len(m)
        /\ bytes.data # Null /\ heap.block[bytes.data] = "array"
        /\ bytes.capacity \in Nat /\ l <= bytes.capacity
    BY <1>0, <1>1, BytesFacts, NullIsNoAddress
  <1>3. index \in Nat /\ index + 1 \in 1..l /\ index <= Len(m) /\ Len(m) \in Nat
    <2> DEFINE k == Len(m)
    <2>1. k \in Nat /\ l <= k
      BY <1>2, LenProperties
    <2> HIDE DEF k, m, l
    <2>2. index \in Nat /\ index + 1 \in 1..l /\ index <= k
      BY <1>0, <1>2, <2>1
    <2> QED BY <2>1, <2>2 DEF k
  <1>4. heap' = [heap EXCEPT !.mem[bytes.data] = w]
    BY <1>0 DEF Store
  <1>5. /\ w \in Seq(Bytes) /\ Len(w) \in Nat /\ Len(m) <= Len(w)
        /\ (\A i \in 1..index : w[i] = m[i]) /\ w[index + 1] = value
        /\ (\A i \in 1..Len(m) : i > index + 1 => w[i] = m[i])
    <2>1. values \in Seq(Bytes) /\ Len(values) = 1 /\ 1 \in 1..1 /\ values[1] = value
      OBVIOUS
    <2>2. m \in Seq(Bytes) /\ w = Written(m, index, values)
      BY <1>2
    <2> HIDE DEF values, m, w
    <2>3. Overwritten(Bytes, m, index, values, w)
      BY <1>3, <2>1, <2>2, WrittenFacts
    <2> QED BY <2>1, <2>3 DEF Overwritten
  <1> HIDE DEF w
  <1>6. Moved(heap, bytes, heap', bytes, w)
    <2>1. Grown(heap, bytes, heap, bytes, l)
      BY <1>1, <1>2 DEF Grown, Buffers
    <2> QED BY <1>4, <2>1, StoredFacts
  <1>8. /\ {a \in Addr : heap'.block[a] = "array"} = {bytes.data, lines.data} \ {Null}
        /\ (lines.data # Null => heap'.mem[lines.data] = heap.mem[lines.data])
        /\ Keeps(heap, heap', "str") /\ Keeps(heap, heap', "payload") /\ Keeps(heap, heap', "line")
    <2> DEFINE o == lines.data
    <2>1. ArraysAre(heap, bytes.data, o) /\ o \in Place
      BY <1>1 DEF Live, ArraysAre
    <2> HIDE DEF o
    <2>2. OthersKept(heap, heap', bytes.data, o)
      BY <1>1, <1>6, <2>1, MovedData
    <2> QED BY <2>2 DEF OthersKept, ArraysAre, o
  <1>9. GoodHeap(heap') /\ heap'.nodes = heap.nodes /\ heap'.str_head = heap.str_head
        /\ heap'.mem[bytes.data] = w
    BY <1>6 DEF Moved
  <1>10. want \in Seq(Bytes) /\ misread \in BOOLEAN /\ slice \in Nat
    BY <1>1 DEF BufferSide, BufferTypes
  <1>11. want' \in Seq(Bytes) /\ Len(want') = Len(want)
         /\ \A i \in 1..Len(want) : want'[i] = IF i = index + 1 THEN value ELSE want[i]
    <2> DEFINE t == want'
               s == want
               n == index + 1
    <2>1. t = [s EXCEPT ![n] = value] /\ s \in Seq(Bytes)
      BY <1>0, <1>10
    <2> HIDE DEF t, s, n
    <2>2. Replaced(Bytes, s, n, value, t)
      BY <2>1, ReplacedAt
    <2> QED BY <2>2 DEF t, s, n, Replaced
  <1>12. misread \/ SubSeq(w, 1, l) = want'
    <2> SUFFICES ASSUME ~misread PROVE SubSeq(w, 1, l) = want'
      OBVIOUS
    <2>1. SubSeq(m, 1, l) = want
      BY <1>0, <1>1 DEF BufferSide, BytesHeld
    <2>2. Len(want) = l /\ \A i \in 1..l : want[i] = m[i]
      BY <1>2, <2>1, PrefixFacts
    <2> DEFINE t == want'
               k == Len(m)
               j == Len(w)
    <2>3. k \in Nat /\ l <= k /\ j \in Nat /\ k <= j /\ t \in Seq(Bytes) /\ Len(t) = l
          /\ \A i \in 1..l : t[i] = IF i = index + 1 THEN value ELSE m[i]
      BY <1>2, <1>3, <1>5, <1>11, <2>2
    <2>4. \A i \in 1..k : i > index + 1 => w[i] = m[i]
      BY <1>5
    <2>5. Len(w) = j
      OBVIOUS
    <2> HIDE DEF t, k, j, l, m
    <2>6. ASSUME NEW i \in 1..l PROVE w[i] = t[i]
      <3>1. CASE i = index + 1
        BY <1>5, <2>3, <3>1
      <3>2. CASE i < index + 1
        <4>1. i \in 1..index /\ i # index + 1
          BY <1>2, <1>3, <3>2
        <4> QED BY <1>5, <2>3, <4>1
      <3>3. CASE i > index + 1
        <4>1. i \in 1..k /\ i # index + 1
          BY <1>2, <1>3, <2>3, <3>3
        <4> QED BY <2>3, <2>4, <3>3, <4>1
      <3> QED BY <1>2, <1>3, <3>1, <3>2, <3>3
    <2>7. l <= Len(w)
      BY <1>2, <2>3, <2>5
    <2>8. SubSeq(w, 1, l) = t
      BY <1>2, <1>5, <2>3, <2>6, <2>7, PrefixIs
    <2> QED BY <2>8 DEF t
  <1>13. BytesHeld'
    <2>1. l <= Len(w)
      <3> DEFINE k == Len(m)
                 j == Len(w)
      <3>1. k \in Nat /\ l <= k /\ j \in Nat /\ k <= j
        BY <1>2, <1>3, <1>5
      <3> HIDE DEF k, j, l
      <3>2. l <= j
        BY <1>2, <3>1
      <3> QED BY <3>2 DEF j
    <2> QED BY <1>0, <1>2, <1>5, <1>9, <1>12, <2>1 DEF BytesHeld
  <1>14. Live("array")' = {bytes'.data, lines.data} \ {Null} /\ bytes'.data # lines.data
    BY <1>0, <1>1, <1>2, <1>8 DEF Live
  <1>15. Headers' = Headers + 0 /\ heap'.nodes = heap.nodes + 0 /\ 0 \in Int
    <2>1. Headers' = Headers
      BY <1>0, SameHeaders DEF linesVars
    <2>2. Headers \in Nat /\ heap.nodes \in Nat
      BY <1>1, OInvCounts, GoodHeapTypes
    <2> QED BY <1>9, <2>1, <2>2
  <1>16. bytesOpen' \in BOOLEAN /\ misread' \in BOOLEAN /\ slice' \in Nat /\ bytes' \in Buffers
    BY <1>0, <1>1, <1>10
  <1>17. linesOpen => heap'.mem[lines.data] = heap.mem[lines.data]
    BY <1>1, <1>8
  <1> QED
    BY <1>0, <1>8, <1>9, <1>11, <1>13, <1>14, <1>15, <1>16, <1>17, BytesStep

\* cn_bytes_clear.
LEMMA ClearStep ==
  ASSUME OInv, cn_bytes_clear, call = Idle, UNCHANGED notBuffers
  PROVE  OInv'
  <1>0. /\ bytesOpen /\ bytes' = [bytes EXCEPT !.length = 0] /\ want' = <<>>
        /\ UNCHANGED <<heap, restOfHeap, bytesOpen, slice, linesVars, misread>>
    BY DEF cn_bytes_clear
  <1>1. /\ GoodHeap(heap) /\ BufferSide /\ bytes \in Buffers
        /\ Live("array") = {bytes.data, lines.data} \ {Null}
        /\ (bytes.data = lines.data => bytes.data = Null)
    BY DataFacts
  <1>2. /\ bytes.data \in Addr /\ heap.mem[bytes.data] \in Seq(Bytes) /\ bytes.data # Null
        /\ bytes.capacity \in Nat
    BY <1>0, <1>1, BytesFacts, NullIsNoAddress
  <1>3. bytes' \in Buffers /\ bytes'.data = bytes.data /\ bytes'.length = 0 /\ bytes'.capacity = bytes.capacity
    BY <1>0, <1>1, BuffersAssumption DEF Buffers
  <1>4. GoodHeap(heap') /\ SameBlocks(heap, heap')
    BY <1>0, <1>1 DEF SameBlocks
  <1>5. Keeps(heap, heap', "str") /\ Keeps(heap, heap', "payload") /\ Keeps(heap, heap', "line")
    BY <1>4, SameKeeps
  <1>6. Live("array")' = {bytes'.data, lines.data} \ {Null}
    BY <1>0, <1>1, <1>3 DEF Live
  <1>7. want' \in Seq(Bytes) /\ bytesOpen' \in BOOLEAN /\ misread' \in BOOLEAN /\ slice' \in Nat
    BY <1>0, <1>1 DEF BufferSide, BufferTypes
  <1>8. BytesHeld'
    <2> DEFINE m == heap.mem[bytes.data]
               l == Len(m)
    <2>1. SubSeq(m, 1, 0) = <<>>
      BY <1>2, EmptyPrefix
    <2>2. l \in Nat
      BY <1>2, LenProperties
    <2> HIDE DEF l
    <2>3. 0 <= l /\ 0 <= bytes.capacity
      BY <1>2, <2>2
    <2> QED BY <1>0, <1>2, <1>3, <2>1, <2>3 DEF BytesHeld, l
  <1>9. Headers' = Headers + 0 /\ heap'.nodes = heap.nodes + 0 /\ 0 \in Int
    <2>1. Headers' = Headers
      BY <1>0, SameHeaders DEF linesVars
    <2>2. Headers \in Nat /\ heap.nodes \in Nat
      BY <1>1, OInvCounts, GoodHeapTypes
    <2> QED BY <1>0, <2>1, <2>2
  <1>10. heap'.str_head = heap.str_head /\ (linesOpen => heap'.mem[lines.data] = heap.mem[lines.data])
        /\ (bytes'.data = lines.data => bytes'.data = Null)
    BY <1>0, <1>1, <1>3
  <1> QED BY <1>0, <1>3, <1>4, <1>5, <1>6, <1>7, <1>8, <1>9, <1>10, BytesStep

\* cn_bytes_free frees the array and the record.
LEMMA FreeBytesStep ==
  ASSUME OInv, cn_bytes_free, call = Idle, UNCHANGED notBuffers
  PROVE  OInv'
  <1>0. /\ bytesOpen /\ bytes' = NoBuffer /\ want' = <<>> /\ slice' = 0 /\ bytesOpen' = FALSE
        /\ heap' = FreeNodes(IF bytes.data = Null THEN heap ELSE Free(heap, bytes.data), 1)
        /\ UNCHANGED <<restOfHeap, linesVars, misread>>
    BY DEF cn_bytes_free
  <1>1. /\ GoodHeap(heap) /\ BufferSide /\ bytes \in Buffers
        /\ Live("array") = {bytes.data, lines.data} \ {Null}
        /\ (bytes.data = lines.data => bytes.data = Null)
        /\ (lines.data # Null => lines.data \in Addr /\ heap.block[lines.data] = "array")
        /\ (linesOpen <=> lines.data # Null)
    BY DataFacts
  <1>2. bytes.data \in Addr /\ heap.block[bytes.data] = "array" /\ bytes.data # Null
        /\ bytes.data # lines.data
    BY <1>0, <1>1, BytesFacts, NullIsNoAddress
  <1> DEFINE d == bytes.data
             f == Free(heap, d)
  <1>3. GoodHeap(f) /\ Changes(heap, f, d, "free", <<>>) /\ f.nodes = heap.nodes /\ f.str_head = heap.str_head
    BY <1>1, <1>2, FreeFacts
  <1>4. heap' = FreeNodes(f, 1)
    BY <1>0, <1>2
  <1> HIDE DEF f
  <1>5. linesOpen' = linesOpen /\ bytesOpen' = FALSE /\ misread' \in BOOLEAN
    BY <1>0, <1>1 DEF linesVars, BufferSide, BufferTypes
  <1>6. heap.nodes \in Nat /\ 1 <= heap.nodes /\ Headers' = Headers - 1 /\ Headers \in Nat
    <2>1. heap.nodes \in Nat
      BY <1>1, GoodHeapTypes
    <2>2. Headers' = Headers - 1 /\ Headers >= 1 /\ Headers \in Nat
      BY <1>0, <1>5 DEF Headers
    <2> DEFINE h == Headers
               l == LinkNodes
               k == HandleNodes
               n == heap.nodes
    <2>3. n = l + h + k /\ l \in Nat /\ h \in Nat /\ k \in Nat /\ h >= 1
      BY <2>2, OInvCounts
    <2> HIDE DEF h, l, k, n
    <2>4. 1 <= n
      BY <2>3
    <2> QED BY <2>1, <2>2, <2>4 DEF n
  <1>7. GoodHeap(heap') /\ SameBlocks(f, heap') /\ heap'.str_head = f.str_head /\ heap'.nodes = f.nodes - 1
    <2>1. 1 <= f.nodes /\ 1 \in Nat
      BY <1>3, <1>6
    <2> QED BY <1>3, <1>4, <2>1, FreeNodesFacts
  <1>8. Changes(heap, heap', d, "free", <<>>)
    BY <1>3, <1>7 DEF Changes, SameBlocks
  <1>9. Keeps(heap, heap', "str") /\ Keeps(heap, heap', "payload") /\ Keeps(heap, heap', "line")
    BY <1>2, <1>8, ChangesKeep
  <1>10. bytes' \in Buffers /\ bytes'.data = Null
    BY <1>0, BuffersAssumption DEF Buffers, NoBuffer, Place
  <1>11. Live("array")' = {bytes'.data, lines.data} \ {Null}
    BY <1>1, <1>2, <1>8, <1>10 DEF Live, Changes
  <1>12. BytesHeld' /\ want' \in Seq(Bytes) /\ slice' \in Nat
    BY <1>0 DEF BytesHeld
  <1>13. linesOpen => heap'.mem[lines.data] = heap.mem[lines.data]
    BY <1>1, <1>2, <1>8 DEF Changes
  <1>14. -1 \in Int /\ heap'.nodes = heap.nodes + (-1) /\ Headers' = Headers + (-1)
    BY <1>3, <1>6, <1>7
  <1>15. heap'.str_head = heap.str_head /\ (bytes'.data = lines.data => bytes'.data = Null)
         /\ bytesOpen' \in BOOLEAN /\ UNCHANGED <<restOfHeap, linesVars>>
    BY <1>0, <1>3, <1>5, <1>7, <1>10
  <1> QED BY <1>5, <1>7, <1>9, <1>10, <1>11, <1>12, <1>13, <1>14, <1>15, BytesStep

\* cn_bytes_with_capacity.
LEMMA BytesCapacityStep ==
  ASSUME OInv, NEW requested \in Nat, NEW header \in BOOLEAN, NEW r,
         cn_bytes_with_capacity(requested, header, r), call = Idle, UNCHANGED notBuffers
  PROVE  OInv'
  <1> DEFINE n == with_capacity(requested, BytesMin, header, r)
  <1>0. /\ ~bytesOpen /\ r \in Malloc(heap) /\ want' = <<>> /\ slice' = 0
        /\ UNCHANGED <<restOfHeap, linesVars, misread>>
    BY DEF cn_bytes_with_capacity
  <1>1. heap' = n.h /\ bytes' = n.b /\ bytesOpen' = n.ok
    BY Zenon DEF cn_bytes_with_capacity
  <1>2. /\ GoodHeap(heap) /\ BufferSide /\ bytes \in Buffers
        /\ Live("array") = {bytes.data, lines.data} \ {Null}
        /\ (lines.data # Null => lines.data \in Addr /\ heap.block[lines.data] = "array")
        /\ (linesOpen <=> lines.data # Null) /\ bytes.data = Null
    BY <1>0, DataFacts
  <1>3. \/ n.ok = TRUE /\ Begun(heap, n.h, n.b)
        \/ /\ n.ok = FALSE /\ n.b = NoBuffer
           /\ GoodHeap(n.h) /\ SameBlocks(heap, n.h) /\ n.h.nodes = heap.nodes
           /\ n.h.str_head = heap.str_head
    <2>1. BytesMin \in Nat \ {0}
      BY BuffersAssumption
    <2>2. n = with_capacity(requested, BytesMin, header, r) /\ r \in Malloc(heap) /\ GoodHeap(heap)
      BY <1>0, <1>2
    <2> HIDE DEF n
    <2>3. Opened(heap, n)
      BY <2>1, <2>2, WithCapacityFacts
    <2> QED BY <2>3 DEF Opened
  <1> HIDE DEF n
  <1>4. misread' \in BOOLEAN /\ linesOpen' = linesOpen /\ want' \in Seq(Bytes) /\ slice' \in Nat
    BY <1>0, <1>2 DEF BufferSide, BufferTypes, linesVars
  <1>5. Headers \in Nat /\ heap.nodes \in Nat
    BY <1>2, OInvCounts, GoodHeapTypes
  <1>6. CASE n.ok = TRUE /\ Begun(heap, n.h, n.b)
    <2>1. /\ GoodHeap(heap') /\ heap'.nodes = heap.nodes + 1 /\ heap'.str_head = heap.str_head
          /\ bytes' \in Buffers /\ bytes'.data \in Addr /\ bytes'.length = 0 /\ heap.block[bytes'.data] = "free"
          /\ Changes(heap, heap', bytes'.data, "array", <<>>) /\ bytesOpen' = TRUE
      BY <1>1, <1>6 DEF Begun
    <2>2. Keeps(heap, heap', "str") /\ Keeps(heap, heap', "payload") /\ Keeps(heap, heap', "line")
      BY <2>1, ChangesKeep
    <2>3. bytes'.data # Null /\ bytes'.data # lines.data
      BY <1>2, <2>1, NullIsNoAddress
    <2>4. Live("array")' = {bytes'.data, lines.data} \ {Null}
      BY <1>2, <2>1, <2>3 DEF Live, Changes
    <2>5. linesOpen => heap'.mem[lines.data] = heap.mem[lines.data]
      BY <1>2, <2>1, <2>3 DEF Changes
    <2>6. heap'.mem[bytes'.data] = <<>>
      BY <2>1 DEF Changes
    <2>7. BytesHeld'
      <3>1. SubSeq(<<>>, 1, 0) = <<>> /\ <<>> \in Seq(Bytes) /\ Len(<<>>) = 0
        BY EmptyPrefix
      <3>2. 0 <= bytes'.capacity
        BY <2>1 DEF Buffers
      <3> QED BY <1>0, <2>1, <2>3, <2>6, <3>1, <3>2 DEF BytesHeld
    <2>8. Headers' = Headers + 1 /\ 1 \in Int
      BY <1>0, <1>4, <2>1 DEF Headers
    <2>9. bytesOpen' \in BOOLEAN
      BY <2>1
    <2> QED BY <1>0, <1>4, <2>1, <2>2, <2>3, <2>4, <2>5, <2>7, <2>8, <2>9, BytesStep
  <1>7. CASE /\ n.ok = FALSE /\ n.b = NoBuffer
             /\ GoodHeap(n.h) /\ SameBlocks(heap, n.h) /\ n.h.nodes = heap.nodes
             /\ n.h.str_head = heap.str_head
    <2>1. /\ GoodHeap(heap') /\ heap'.nodes = heap.nodes + 0 /\ heap'.str_head = heap.str_head
          /\ SameBlocks(heap, heap') /\ bytesOpen' = FALSE /\ bytes' = NoBuffer
      BY <1>1, <1>5, <1>7
    <2>2. Keeps(heap, heap', "str") /\ Keeps(heap, heap', "payload") /\ Keeps(heap, heap', "line")
      BY <2>1, SameKeeps
    <2>3. bytes' \in Buffers /\ bytes'.data = Null
      BY <2>1, BuffersAssumption DEF Buffers, NoBuffer, Place
    <2>4. Live("array")' = {bytes'.data, lines.data} \ {Null}
      BY <1>2, <2>1, <2>3 DEF Live, SameBlocks
    <2>5. linesOpen => heap'.mem[lines.data] = heap.mem[lines.data]
      BY <2>1 DEF SameBlocks
    <2>6. BytesHeld'
      BY <2>1 DEF BytesHeld
    <2>7. Headers' = Headers + 0 /\ 0 \in Int
      BY <1>0, <1>4, <1>5, <2>1 DEF Headers
    <2>8. bytesOpen' \in BOOLEAN /\ (bytes'.data = lines.data => bytes'.data = Null)
      BY <2>1, <2>3
    <2> QED BY <1>0, <1>4, <2>1, <2>2, <2>3, <2>4, <2>5, <2>6, <2>7, <2>8, BytesStep
  <1> QED BY <1>3, <1>6, <1>7

\* cn_text_build: the text of a buffer as a tracked string, and the buffer kept.
LEMMA BuildStep ==
  ASSUME OInv, NEW v \in Var, NEW a, NEW node \in BOOLEAN, cn_text_build(v, a, node), call = Idle,
         UNCHANGED notBuffers
  PROVE  OInv'
  <1> DEFINE text == SubSeq(heap.mem[bytes.data], 1, bytes.length)
  <1>1. Spare(v) /\ a \in Malloc(heap) /\ cn_dup_range(v, text, a, node)
        /\ UNCHANGED <<zones, handed, misfreed, bufferVars>>
    BY DEF cn_text_build
  <1>2. UNCHANGED handle /\ call' = Idle
    BY DEF notBuffers, ipcVars
  <1> HIDE DEF text
  <1> QED BY <1>1, <1>2, DupStep

\* Every operation of std.bytes and std.text keeps OInv.
LEMMA BytesOwned ==
  ASSUME OInv, BytesNext(Var), call = Idle, UNCHANGED notBuffers
  PROVE  OInv'
  <1>1. CASE \E n \in {0, BytesMin + 1}, header \in BOOLEAN, r \in Place : cn_bytes_with_capacity(n, header, r)
    <2>1. PICK n \in {0, BytesMin + 1}, header \in BOOLEAN, r \in Place : cn_bytes_with_capacity(n, header, r)
      BY <1>1
    <2>2. n \in Nat
      BY BuffersAssumption
    <2> QED BY <2>1, <2>2, BytesCapacityStep
  <1>2. CASE cn_bytes_free
    BY <1>2, FreeBytesStep
  <1>3. CASE cn_bytes_clear
    BY <1>3, ClearStep
  <1>4. CASE cn_bytes_slice
    <2>1. bytes \in Buffers /\ BufferSide
      BY DataFacts
    <2>2. slice' \in Nat /\ misread' \in BOOLEAN /\ (misread => misread')
      BY <1>4, <2>1, BuffersAssumption DEF cn_bytes_slice, Buffers, BufferSide, BufferTypes
    <2> QED BY <1>4, <2>2, BytesUntouched DEF cn_bytes_slice
  <1>5. CASE \E b \in Bytes, r \in Place : cn_bytes_push(b, r)
    BY <1>5, PushStep
  <1>6. CASE \E t \in Texts, r \in Place : cn_bytes_append(t, r)
    <2>1. PICK t \in Texts, r \in Place : cn_bytes_append(t, r)
      BY <1>6
    <2>2. t \in Seq(Bytes)
      BY BuffersAssumption
    <2> QED BY <2>1, <2>2, AppendStep
  <1>7. CASE \E r \in Place, garbage \in SeqOf(Bytes, MaxLen) : AppendOwnSlice(r, garbage)
    <2>1. PICK r \in Place, garbage \in SeqOf(Bytes, MaxLen) : AppendOwnSlice(r, garbage)
      BY <1>7
    <2>2. PICK m \in 0..MaxLen : garbage \in [1..m -> Bytes]
      BY DEF SeqOf
    <2>3. garbage \in Seq(Bytes)
      BY <2>2, SeqDef, BuffersAssumption
    <2> QED BY <2>1, <2>3, OwnSliceStep
  <1>8. CASE \E i \in 0..MaxLen, b \in Bytes : cn_bytes_set(i, b)
    BY <1>8, SetStep
  <1>9. CASE \E v \in Var, a \in Place, node \in BOOLEAN : cn_text_build(v, a, node)
    BY <1>9, BuildStep
  <1> QED BY <1>1, <1>2, <1>3, <1>4, <1>5, <1>6, <1>7, <1>8, <1>9 DEF BytesNext

-----------------------------------------------------------------------------
(* std.lines.                                                                 *)

\* The byte buffer is untouched by a step of the line buffer.
LEMMA LinesStep ==
  ASSUME OInv, call = Idle, UNCHANGED notBuffers, UNCHANGED restOfHeap, UNCHANGED bytesVars,
         GoodHeap(heap'), heap'.str_head = heap.str_head,
         Keeps(heap, heap', "str"), Keeps(heap, heap', "payload"),
         bytesOpen => heap'.mem[bytes.data] = heap.mem[bytes.data],
         Live("array")' = {bytes.data, lines'.data} \ {Null}, bytes.data = lines'.data => bytes.data = Null,
         lines' \in Buffers, linesOpen' \in BOOLEAN,
         wantLines' = [i \in 1..Len(wantLines') |-> wantLines'[i]], Len(wantLines') \in Nat,
         LinesHeld', (linesOpen => IsInjective(Items))',
         (Live("line") = IF linesOpen THEN Range(Items) ELSE {})',
         NEW d \in Int, heap'.nodes = heap.nodes + d, Headers' = Headers + d
  PROVE  OInv'
  <1>1. BufferSide
    BY OInvParts
  <1>2. UNCHANGED <<bytes, bytesOpen, want, slice, misread>>
    BY DEF bytesVars
  <1>3. BytesHeld'
    BY <1>1, <1>2 DEF BufferSide, BytesHeld
  <1>4. BufferTypes'
    BY <1>1, <1>2 DEF BufferSide, BufferTypes
  <1>5. BuffersOwned'
    BY <1>2 DEF BuffersOwned
  <1>6. BufferSide'
    BY <1>3, <1>4, <1>5 DEF BufferSide
  <1> QED BY <1>6, BufferStep

\* The first n entries of the data m are the lines.
Lists(h, m, n, texts) ==
  /\ n \in Nat /\ m \in Seq(Place) /\ n <= Len(m)
  /\ \A i, j \in 1..n : m[i] = m[j] => i = j
  /\ {a \in Addr : h.block[a] = "line"} = {m[i] : i \in 1..n}
  /\ Len(texts) = n
  /\ \A i \in 1..n : h.mem[m[i]] = texts[i]

\* The lines a buffer holds when its array lists them.
LEMMA HoldsLines ==
  ASSUME linesOpen', NEW m, heap'.mem[lines'.data] = m, NEW n, lines'.length = n,
         Lists(heap', m, n, wantLines'), lines'.data # Null, n <= lines'.capacity
  PROVE  /\ LinesHeld' /\ (linesOpen => IsInjective(Items))'
         /\ (Live("line") = IF linesOpen THEN Range(Items) ELSE {})'
  <1> DEFINE t == SubSeq(m, 1, n)
  <1>1. n \in Nat /\ m \in Seq(Place) /\ n <= Len(m)
    BY DEF Lists
  <1>2. t \in Seq(Place) /\ Len(t) = n /\ \A i \in 1..n : t[i] = m[i]
    BY <1>1, PrefixFacts
  <1>3. DOMAIN t = 1..n
    BY <1>2, LenProperties
  <1>4. Items' = t
    BY DEF Items
  <1> HIDE DEF t
  <1>5. IsInjective(t)
    BY <1>2, <1>3 DEF IsInjective, Lists
  <1>6. Range(t) = {m[i] : i \in 1..n}
    BY <1>2, <1>3 DEF Range
  <1>7. Live("line")' = Range(t)
    BY <1>6 DEF Live, Lists
  <1>8. \A i \in 1..n : heap'.mem[t[i]] = wantLines'[i]
    BY <1>2 DEF Lists
  <1>9. LinesHeld'
    BY <1>1, <1>4, <1>8 DEF LinesHeld, Lists
  <1> QED BY <1>4, <1>5, <1>7, <1>9

\* The blocks of an open buffer of lines.
LEMMA LinesFacts ==
  ASSUME OInv, linesOpen
  PROVE  /\ lines.data \in Addr /\ lines.data # Null /\ heap.block[lines.data] = "array"
         /\ lines.data # bytes.data /\ lines.length \in 0..MaxLen /\ lines.capacity \in Nat
         /\ lines.length <= lines.capacity
         /\ Lists(heap, heap.mem[lines.data], lines.length, wantLines)
  <1>1. BufferSide /\ lines \in Buffers /\ (bytes.data = lines.data => bytes.data = Null)
    BY DataFacts
  <1>2. /\ lines.data \in Addr /\ heap.block[lines.data] = "array"
        /\ DOMAIN Items = 1..lines.length
        /\ \A i \in 1..lines.length : /\ Items[i] = heap.mem[lines.data][i]
                                      /\ Items[i] \in Addr /\ heap.block[Items[i]] = "line"
        /\ \A i, j \in 1..lines.length : Items[i] = Items[j] => i = j
    BY <1>1, ItemsFacts
  <1>3. lines.data # Null /\ lines.length \in 0..MaxLen /\ lines.capacity \in Nat
    BY <1>1, <1>2, NullIsNoAddress DEF Buffers
  <1> DEFINE m == heap.mem[lines.data]
             n == lines.length
  <1>4. /\ lines.length <= lines.capacity /\ m \in Seq(Place) /\ n <= Len(m) /\ n = Len(wantLines)
        /\ \A i \in 1..n : heap.mem[Items[i]] = wantLines[i]
    BY <1>1 DEF BufferSide, LinesHeld
  <1>5. Live("line") = Range(Items)
    BY <1>1 DEF BufferSide, BuffersOwned
  <1>6. Range(Items) = {m[i] : i \in 1..n}
    BY <1>2 DEF Range
  <1>7. {a \in Addr : heap.block[a] = "line"} = {m[i] : i \in 1..n}
    BY <1>5, <1>6 DEF Live
  <1>8. n \in Nat
    BY <1>3, BuffersAssumption
  <1>9. /\ \A i, j \in 1..n : m[i] = m[j] => i = j
        /\ \A i \in 1..n : heap.mem[m[i]] = wantLines[i]
    BY <1>2, <1>4
  <1> HIDE DEF m, n
  <1>10. Lists(heap, m, n, wantLines)
    BY <1>4, <1>7, <1>8, <1>9 DEF Lists
  <1> QED BY <1>1, <1>2, <1>3, <1>4, <1>10 DEF m, n

\* The empty sequence.
LEMMA NoTexts == ASSUME NEW s, s = <<>> PROVE s = [i \in 1..Len(s) |-> s[i]] /\ Len(s) \in Nat /\ Len(s) = 0
  OBVIOUS

\* An empty buffer lists nothing.
LEMMA NothingListed ==
  ASSUME NEW h, NEW m \in Seq(Place), {a \in Addr : h.block[a] = "line"} = {}
  PROVE  Lists(h, m, 0, <<>>)
  <1> DEFINE l == Len(m)
  <1>1. l \in Nat
    BY LenProperties
  <1> HIDE DEF l
  <1>2. 0 <= l
    BY <1>1
  <1>3. 1..0 = {} /\ Len(<<>>) = 0
    OBVIOUS
  <1> QED BY <1>2, <1>3 DEF Lists, l

\* cn_lines_with_capacity.
LEMMA LinesCapacityStep ==
  ASSUME OInv, NEW requested \in Nat, NEW header \in BOOLEAN, NEW r,
         cn_lines_with_capacity(requested, header, r), call = Idle, UNCHANGED notBuffers
  PROVE  OInv'
  <1> DEFINE n == with_capacity(requested, LinesMin, header, r)
  <1>0. /\ ~linesOpen /\ r \in Malloc(heap) /\ wantLines' = <<>>
        /\ UNCHANGED <<restOfHeap, bytesVars>>
    BY DEF cn_lines_with_capacity
  <1>1. heap' = n.h /\ lines' = n.b /\ linesOpen' = n.ok
    BY Zenon DEF cn_lines_with_capacity
  <1>2. /\ GoodHeap(heap) /\ BufferSide
        /\ Live("array") = {bytes.data, lines.data} \ {Null}
        /\ (bytes.data # Null => bytes.data \in Addr /\ heap.block[bytes.data] = "array")
        /\ (bytesOpen <=> bytes.data # Null) /\ lines.data = Null
    BY <1>0, DataFacts
  <1>3. Opened(heap, n)
    <2>1. LinesMin \in Nat \ {0}
      BY BuffersAssumption
    <2>2. n = with_capacity(requested, LinesMin, header, r) /\ r \in Malloc(heap) /\ GoodHeap(heap)
      BY <1>0, <1>2
    <2> HIDE DEF n
    <2> QED BY <2>1, <2>2, WithCapacityFacts
  <1> HIDE DEF n
  <1>4. wantLines' = [i \in 1..Len(wantLines') |-> wantLines'[i]] /\ Len(wantLines') \in Nat
    BY <1>0, NoTexts
  <1>5. Headers \in Nat /\ heap.nodes \in Nat /\ bytesOpen' = bytesOpen
    BY <1>0, <1>2, OInvCounts, GoodHeapTypes DEF bytesVars
  <1>6. Live("line") = {}
    BY <1>0, <1>2 DEF BufferSide, BuffersOwned
  <1>7. CASE n.ok = TRUE /\ Begun(heap, n.h, n.b)
    <2>1. /\ GoodHeap(heap') /\ heap'.nodes = heap.nodes + 1 /\ heap'.str_head = heap.str_head
          /\ lines' \in Buffers /\ lines'.data \in Addr /\ lines'.length = 0 /\ heap.block[lines'.data] = "free"
          /\ Changes(heap, heap', lines'.data, "array", <<>>) /\ linesOpen' = TRUE
      BY <1>1, <1>7 DEF Begun
    <2>2. Keeps(heap, heap', "str") /\ Keeps(heap, heap', "payload") /\ Keeps(heap, heap', "line")
      BY <2>1, ChangesKeep
    <2>3. lines'.data # Null /\ bytes.data # lines'.data
      BY <1>2, <2>1, NullIsNoAddress
    <2>4. Live("array")' = {bytes.data, lines'.data} \ {Null}
      BY <1>2, <2>1, <2>3 DEF Live, Changes
    <2>5. bytesOpen => heap'.mem[bytes.data] = heap.mem[bytes.data]
      BY <1>2, <2>1, <2>3 DEF Changes
    <2>6. heap'.mem[lines'.data] = <<>> /\ <<>> \in Seq(Place)
      BY <2>1 DEF Changes
    <2>7. {a \in Addr : heap'.block[a] = "line"} = {}
      BY <1>6, <2>2 DEF Live, Keeps
    <2>8. Lists(heap', <<>>, 0, <<>>)
      BY <2>6, <2>7, NothingListed
    <2>9. 0 <= lines'.capacity
      BY <2>1 DEF Buffers
    <2>10. /\ LinesHeld' /\ (linesOpen => IsInjective(Items))'
           /\ (Live("line") = IF linesOpen THEN Range(Items) ELSE {})'
      BY <1>0, <2>1, <2>3, <2>6, <2>8, <2>9, HoldsLines
    <2>11. Headers' = Headers + 1 /\ 1 \in Int
      BY <1>0, <1>5, <2>1 DEF Headers
    <2>12. linesOpen' \in BOOLEAN
      BY <2>1
    <2> QED BY <1>0, <1>4, <2>1, <2>2, <2>3, <2>4, <2>5, <2>10, <2>11, <2>12, LinesStep
  <1>8. CASE /\ n.ok = FALSE /\ n.b = NoBuffer
             /\ GoodHeap(n.h) /\ SameBlocks(heap, n.h) /\ n.h.nodes = heap.nodes
             /\ n.h.str_head = heap.str_head
    <2>1. /\ GoodHeap(heap') /\ heap'.nodes = heap.nodes + 0 /\ heap'.str_head = heap.str_head
          /\ SameBlocks(heap, heap') /\ linesOpen' = FALSE /\ lines' = NoBuffer
      BY <1>1, <1>5, <1>8
    <2>2. Keeps(heap, heap', "str") /\ Keeps(heap, heap', "payload")
      BY <2>1, SameKeeps
    <2>3. lines' \in Buffers /\ lines'.data = Null
      BY <2>1, BuffersAssumption DEF Buffers, NoBuffer, Place
    <2>4. Live("array")' = {bytes.data, lines'.data} \ {Null}
      BY <1>2, <2>1, <2>3 DEF Live, SameBlocks
    <2>5. bytesOpen => heap'.mem[bytes.data] = heap.mem[bytes.data]
      BY <2>1 DEF SameBlocks
    <2>6. LinesHeld' /\ Live("line")' = {}
      BY <1>6, <2>1 DEF LinesHeld, Live, SameBlocks
    <2>7. Headers' = Headers + 0 /\ 0 \in Int
      BY <1>0, <1>5, <2>1 DEF Headers
    <2>8. linesOpen' \in BOOLEAN /\ (bytes.data = lines'.data => bytes.data = Null)
          /\ (linesOpen => IsInjective(Items))'
          /\ (Live("line") = IF linesOpen THEN Range(Items) ELSE {})'
      BY <2>1, <2>3, <2>6
    <2> QED BY <1>0, <1>4, <2>1, <2>2, <2>3, <2>4, <2>5, <2>6, <2>7, <2>8, LinesStep
  <1> QED BY <1>3, <1>7, <1>8 DEF Opened

\* What is there after all lines have been released.
LEMMA LinesReleased ==
  ASSUME OInv, linesOpen, NEW f, f = FreeAll(heap, Items)
  PROVE  /\ GoodHeap(f) /\ f.nodes = heap.nodes /\ f.str_head = heap.str_head
         /\ Keeps(heap, f, "str") /\ Keeps(heap, f, "payload") /\ Keeps(heap, f, "array")
         /\ {a \in Addr : f.block[a] = "line"} = {}
  <1>1. GoodHeap(heap) /\ BufferSide
    BY DataFacts
  <1>2. IsInjective(Items) /\ Live("line") = Range(Items)
    BY <1>1 DEF BufferSide, BuffersOwned
  <1>3. \A a \in Range(Items) : a \in Addr /\ heap.block[a] = "line"
    BY <1>2 DEF Live
  <1>4. GoodHeap(f) /\ Releases(heap, f, Items) /\ f.nodes = heap.nodes /\ f.str_head = heap.str_head
    BY <1>1, <1>2, <1>3, FreeAllFacts
  <1>5. Keeps(heap, f, "str") /\ Keeps(heap, f, "payload") /\ Keeps(heap, f, "array")
    BY <1>3, <1>4, ReleasesKeep
  <1>6. ASSUME NEW a \in Addr PROVE f.block[a] # "line"
    <2>1. CASE a \in Range(Items)
      BY <1>4, <2>1 DEF Releases
    <2>2. CASE a \notin Range(Items)
      BY <1>2, <1>4, <2>2 DEF Releases, Live
    <2> QED BY <2>1, <2>2
  <1> QED BY <1>4, <1>5, <1>6

\* cn_lines_free frees each copy once, the array and the record.
LEMMA FreeLinesStep ==
  ASSUME OInv, cn_lines_free, call = Idle, UNCHANGED notBuffers
  PROVE  OInv'
  <1> DEFINE f == FreeAll(heap, Items)
             d == lines.data
             g == Free(f, d)
  <1>0. /\ linesOpen /\ lines' = NoBuffer /\ wantLines' = <<>> /\ linesOpen' = FALSE
        /\ heap' = FreeNodes(g, 1) /\ UNCHANGED <<restOfHeap, bytesVars>>
    BY DEF cn_lines_free
  <1>1. /\ GoodHeap(heap) /\ BufferSide
        /\ Live("array") = {bytes.data, lines.data} \ {Null}
        /\ (bytes.data # Null => bytes.data \in Addr /\ heap.block[bytes.data] = "array")
        /\ (bytesOpen <=> bytes.data # Null)
    BY DataFacts
  <1>2. d \in Addr /\ d # Null /\ heap.block[d] = "array" /\ d # bytes.data
    BY <1>0, LinesFacts
  <1>3. /\ GoodHeap(f) /\ f.nodes = heap.nodes /\ f.str_head = heap.str_head
        /\ Keeps(heap, f, "str") /\ Keeps(heap, f, "payload") /\ Keeps(heap, f, "array")
        /\ {a \in Addr : f.block[a] = "line"} = {}
    BY <1>0, LinesReleased
  <1> HIDE DEF f
  <1>4. f.block[d] = "array"
    BY <1>2, <1>3 DEF Keeps
  <1>5. GoodHeap(g) /\ Changes(f, g, d, "free", <<>>) /\ g.nodes = f.nodes /\ g.str_head = f.str_head
    BY <1>2, <1>3, <1>4, FreeFacts
  <1> HIDE DEF g
  <1>6. heap.nodes \in Nat /\ 1 <= heap.nodes /\ Headers' = Headers - 1 /\ Headers \in Nat
    <2>1. heap.nodes \in Nat
      BY <1>1, GoodHeapTypes
    <2>2. Headers' = Headers - 1 /\ Headers >= 1 /\ Headers \in Nat
      <3>1. bytesOpen' = bytesOpen
        BY <1>0 DEF bytesVars
      <3> QED BY <1>0, <3>1 DEF Headers
    <2> DEFINE h == Headers
               l == LinkNodes
               k == HandleNodes
               n == heap.nodes
    <2>3. n = l + h + k /\ l \in Nat /\ h \in Nat /\ k \in Nat /\ h >= 1
      BY <2>2, OInvCounts
    <2> HIDE DEF h, l, k, n
    <2>4. 1 <= n
      BY <2>3
    <2> QED BY <2>1, <2>2, <2>4 DEF n
  <1>7. GoodHeap(heap') /\ SameBlocks(g, heap') /\ heap'.str_head = g.str_head /\ heap'.nodes = g.nodes - 1
    <2>1. 1 <= g.nodes /\ 1 \in Nat
      BY <1>3, <1>5, <1>6
    <2> QED BY <1>0, <1>5, <2>1, FreeNodesFacts
  <1>8. Changes(f, heap', d, "free", <<>>)
    BY <1>5, <1>7 DEF Changes, SameBlocks
  <1>9. Keeps(heap, heap', "str") /\ Keeps(heap, heap', "payload")
    <2>1. Keeps(f, heap', "str") /\ Keeps(f, heap', "payload")
      BY <1>4, <1>8, ChangesKeep
    <2> QED BY <1>3, <2>1, KeepsTransitive
  <1>10. lines' \in Buffers /\ lines'.data = Null
    BY <1>0, BuffersAssumption DEF Buffers, NoBuffer, Place
  <1>11. Live("array")' = {bytes.data, lines'.data} \ {Null}
    <2>1. ASSUME NEW a \in Addr PROVE heap'.block[a] = "array" <=> heap.block[a] = "array" /\ a # d
      BY <1>3, <1>8 DEF Changes, Keeps
    <2>2. Live("array")' = Live("array") \ {d}
      BY <2>1 DEF Live
    <2> QED BY <1>1, <1>2, <1>10, <2>2
  <1>12. Live("line")' = {}
    BY <1>3, <1>8 DEF Live, Changes
  <1>13. bytesOpen => heap'.mem[bytes.data] = heap.mem[bytes.data]
    BY <1>1, <1>2, <1>3, <1>8 DEF Changes, Keeps
  <1>14. -1 \in Int /\ heap'.nodes = heap.nodes + (-1) /\ Headers' = Headers + (-1)
    BY <1>3, <1>5, <1>6, <1>7
  <1>15. heap'.str_head = heap.str_head /\ (bytes.data = lines'.data => bytes.data = Null)
         /\ linesOpen' \in BOOLEAN
    BY <1>0, <1>3, <1>5, <1>7, <1>10
  <1>16. wantLines' = [i \in 1..Len(wantLines') |-> wantLines'[i]] /\ Len(wantLines') \in Nat
    BY <1>0, NoTexts
  <1>17. LinesHeld' /\ (linesOpen => IsInjective(Items))'
          /\ (Live("line") = IF linesOpen THEN Range(Items) ELSE {})'
    BY <1>0, <1>12 DEF LinesHeld
  <1> QED BY <1>0, <1>7, <1>9, <1>10, <1>11, <1>13, <1>14, <1>15, <1>16, <1>17, LinesStep

\* cn_lines_clear frees the copies and keeps the array.
LEMMA ClearLinesStep ==
  ASSUME OInv, cn_lines_clear, call = Idle, UNCHANGED notBuffers
  PROVE  OInv'
  <1> DEFINE d == lines.data
             m == heap.mem[d]
  <1>0. /\ linesOpen /\ lines' = [lines EXCEPT !.length = 0] /\ wantLines' = <<>> /\ linesOpen' = linesOpen
        /\ heap' = FreeAll(heap, Items) /\ UNCHANGED <<restOfHeap, bytesVars>>
    BY DEF cn_lines_clear
  <1>1. /\ GoodHeap(heap) /\ BufferSide /\ lines \in Buffers
        /\ Live("array") = {bytes.data, lines.data} \ {Null}
        /\ (bytes.data # Null => bytes.data \in Addr /\ heap.block[bytes.data] = "array")
        /\ (bytesOpen <=> bytes.data # Null)
    BY DataFacts
  <1>2. d \in Addr /\ d # Null /\ heap.block[d] = "array" /\ d # bytes.data /\ lines.capacity \in Nat
        /\ Lists(heap, m, lines.length, wantLines)
    BY <1>0, LinesFacts
  <1>3. /\ GoodHeap(heap') /\ heap'.nodes = heap.nodes /\ heap'.str_head = heap.str_head
        /\ Keeps(heap, heap', "str") /\ Keeps(heap, heap', "payload") /\ Keeps(heap, heap', "array")
        /\ {a \in Addr : heap'.block[a] = "line"} = {}
    BY <1>0, LinesReleased
  <1>4. lines' \in Buffers /\ lines'.data = d /\ lines'.length = 0 /\ lines'.capacity = lines.capacity
    BY <1>0, <1>1, BuffersAssumption DEF Buffers
  <1>5. Live("array")' = {bytes.data, lines'.data} \ {Null}
    <2>1. Live("array")' = Live("array")
      BY <1>3 DEF Live, Keeps
    <2> QED BY <1>1, <1>4, <2>1
  <1>6. heap'.mem[d] = m /\ (bytesOpen => heap'.mem[bytes.data] = heap.mem[bytes.data])
    BY <1>1, <1>2, <1>3 DEF Keeps
  <1>7. Lists(heap', m, 0, <<>>)
    BY <1>2, <1>3, NothingListed DEF Lists
  <1>8. 0 <= lines'.capacity
    BY <1>2, <1>4
  <1>9. /\ LinesHeld' /\ (linesOpen => IsInjective(Items))'
        /\ (Live("line") = IF linesOpen THEN Range(Items) ELSE {})'
    <2> HIDE DEF m, d
    <2> QED BY <1>0, <1>2, <1>4, <1>6, <1>7, <1>8, HoldsLines
  <1>10. Headers' = Headers + 0 /\ heap'.nodes = heap.nodes + 0 /\ 0 \in Int
    <2>1. Headers' = Headers
      BY <1>0, SameHeaders DEF bytesVars
    <2>2. Headers \in Nat /\ heap.nodes \in Nat
      BY <1>1, OInvCounts, GoodHeapTypes
    <2> QED BY <1>3, <2>1, <2>2
  <1>11. wantLines' = [i \in 1..Len(wantLines') |-> wantLines'[i]] /\ Len(wantLines') \in Nat
    BY <1>0, NoTexts
  <1>12. linesOpen' \in BOOLEAN /\ (bytes.data = lines'.data => bytes.data = Null)
    BY <1>0, <1>2, <1>4
  <1> QED BY <1>0, <1>3, <1>4, <1>5, <1>6, <1>9, <1>10, <1>11, <1>12, LinesStep

\* cn_lines_get hands out a line that the buffer still owns.
LEMMA GetStep ==
  ASSUME OInv, NEW v, NEW index, cn_lines_get(v, index), call = Idle, UNCHANGED notBuffers
  PROVE  OInv'
  <1> DEFINE x == Items[index + 1]
             text == wantLines[index + 1]
  <1>1. /\ linesOpen /\ v \in Var \ mine /\ index \in 0..(lines.length - 1)
        /\ var' = [var EXCEPT ![v] = x] /\ told' = [told EXCEPT ![v] = text]
        /\ UNCHANGED <<heap, zones, mine, untracked, handed, misfreed, bufferVars>>
    BY DEF cn_lines_get, Spare
  <1>2. GoodHeap(heap) /\ BufferSide /\ CallSide
    BY OInvParts
  <1>3. lines.length \in Nat /\ \A i \in 1..lines.length : Items[i] \in Addr
    BY <1>1, <1>2, ItemsFacts
  <1>4. index + 1 \in 1..lines.length
    BY <1>1, <1>3
  <1>5. x \in Addr \cup {Null}
    BY <1>3, <1>4
  <1>6. UNCHANGED handle /\ call' = Idle
    BY DEF notBuffers, ipcVars
  <1>7. CallSide'
    BY <1>2, <1>6, CallFrame
  <1> HIDE DEF x, text
  <1> QED BY <1>1, <1>5, <1>6, <1>7, SpareStep

\* A sequence is the function of its elements.
LEMMA SeqIsTexts ==
  ASSUME NEW S, NEW s \in Seq(S)
  PROVE  s = [i \in 1..Len(s) |-> s[i]] /\ Len(s) \in Nat
  BY LenProperties

\* A function on 1..n is a sequence, of any set with its elements in it.
LEMMA TextsAreSeq ==
  ASSUME NEW s, s = [i \in 1..Len(s) |-> s[i]], Len(s) \in Nat, NEW x
  PROVE  s \in Seq({s[i] : i \in 1..Len(s)} \cup {x})
  <1> DEFINE S == {s[i] : i \in 1..Len(s)} \cup {x}
             l == Len(s)
  <1>1. \A i \in 1..l : s[i] \in S
    OBVIOUS
  <1>2. l \in Nat /\ s = [i \in 1..l |-> s[i]]
    OBVIOUS
  <1> HIDE DEF S, l
  <1>3. s \in [1..l -> S]
    BY <1>1, <1>2
  <1> QED BY <1>2, <1>3, SeqDef DEF S

\* A step of an open line buffer that leaves it open.
LEMMA LinesDone ==
  ASSUME OInv, linesOpen, linesOpen', call = Idle, UNCHANGED notBuffers, UNCHANGED restOfHeap,
         UNCHANGED bytesVars, GoodHeap(heap'), heap'.nodes = heap.nodes, heap'.str_head = heap.str_head,
         Keeps(heap, heap', "str"), Keeps(heap, heap', "payload"),
         ArraysAre(heap', lines'.data, bytes.data),
         bytes.data # Null => heap'.mem[bytes.data] = heap.mem[bytes.data],
         lines' \in Buffers, lines'.data # Null, lines'.length <= lines'.capacity,
         NEW S, wantLines' \in Seq(S),
         Lists(heap', heap'.mem[lines'.data], lines'.length, wantLines')
  PROVE  OInv'
  <1>1. GoodHeap(heap) /\ (bytesOpen <=> bytes.data # Null) /\ linesOpen \in BOOLEAN
    BY DataFacts DEF BufferSide, BufferTypes
  <1>2. wantLines' = [i \in 1..Len(wantLines') |-> wantLines'[i]] /\ Len(wantLines') \in Nat
    <2> DEFINE w == wantLines'
    <2>1. w \in Seq(S)
      OBVIOUS
    <2> HIDE DEF w
    <2>2. w = [i \in 1..Len(w) |-> w[i]] /\ Len(w) \in Nat
      BY <2>1, SeqIsTexts
    <2> QED BY <2>2 DEF w
  <1>3. /\ LinesHeld' /\ (linesOpen => IsInjective(Items))'
        /\ (Live("line") = IF linesOpen THEN Range(Items) ELSE {})'
    <2> DEFINE m == heap'.mem[lines'.data]
               n == lines'.length
    <2>1. heap'.mem[lines'.data] = m /\ lines'.length = n /\ Lists(heap', m, n, wantLines')
          /\ n <= lines'.capacity
      OBVIOUS
    <2> HIDE DEF m, n
    <2> QED BY <2>1, HoldsLines
  <1>4. Live("array")' = {bytes.data, lines'.data} \ {Null} /\ (bytes.data = lines'.data => bytes.data = Null)
    <2>1. UNCHANGED bytes
      BY DEF bytesVars
    <2> QED BY <2>1 DEF Live, ArraysAre
  <1>5. Headers' = Headers + 0 /\ heap'.nodes = heap.nodes + 0 /\ 0 \in Int
    <2>1. bytesOpen' = bytesOpen
      BY DEF bytesVars
    <2>2. Headers \in Nat /\ heap.nodes \in Nat
      BY <1>1, OInvCounts, GoodHeapTypes
    <2>3. Headers' = Headers
      BY <2>1 DEF Headers
    <2> QED BY <2>2, <2>3
  <1>6. linesOpen' \in BOOLEAN
    <2>1. TRUE
      OBVIOUS
    <2> QED BY <1>1
  <1> QED BY <1>1, <1>2, <1>3, <1>4, <1>5, <1>6, LinesStep

\* What the array of a buffer must be like to list the lines t.
LEMMA ListsIntro ==
  ASSUME NEW h, NEW m \in Seq(Place), NEW t \in Seq(Place), IsInjective(t), NEW n \in Nat, Len(t) = n,
         n <= Len(m), \A i \in 1..n : m[i] = t[i], {a \in Addr : h.block[a] = "line"} = Range(t),
         NEW texts, Len(texts) = n, \A i \in 1..n : h.mem[t[i]] = texts[i]
  PROVE  Lists(h, m, n, texts)
  <1>1. DOMAIN t = 1..n
    BY LenProperties
  <1>2. Range(t) = {m[i] : i \in 1..n}
    BY <1>1 DEF Range
  <1>3. \A i, j \in 1..n : m[i] = m[j] => i = j
    BY <1>1 DEF IsInjective
  <1> QED BY <1>2, <1>3 DEF Lists

\* Appending an element.
LEMMA AppendFacts ==
  ASSUME NEW S, NEW s \in Seq(S), NEW x \in S, NEW n \in Nat, Len(s) = n
  PROVE  /\ Append(s, x) \in Seq(S) /\ Len(Append(s, x)) = n + 1
         /\ \A i \in 1..n : Append(s, x)[i] = s[i]
  OBVIOUS

\* cn_lines_remove frees one copy and closes the gap.
LEMMA RemoveLineStep ==
  ASSUME OInv, NEW index, cn_lines_remove(index), call = Idle, UNCHANGED notBuffers
  PROVE  OInv'
  <1> DEFINE p == index + 1
             d == lines.data
             n == lines.length
             old == Items[p]
             f == Free(heap, old)
             t == RemoveAt(Items, p)
             q == Append(t, Null)
             texts == RemoveAt(wantLines, p)
  <1>0. /\ linesOpen /\ index \in 0..(n - 1) /\ heap' = [f EXCEPT !.mem[d] = q]
        /\ lines' = [lines EXCEPT !.length = @ - 1] /\ wantLines' = texts
        /\ linesOpen' = linesOpen /\ UNCHANGED <<restOfHeap, bytesVars>>
    BY DEF cn_lines_remove
  <1>1. /\ GoodHeap(heap) /\ BufferSide /\ lines \in Buffers
        /\ Live("array") = {bytes.data, lines.data} \ {Null}
        /\ (bytes.data # Null => bytes.data \in Addr /\ heap.block[bytes.data] = "array")
    BY DataFacts
  <1>2. d \in Addr /\ d # Null /\ heap.block[d] = "array" /\ d # bytes.data
        /\ n \in 0..MaxLen /\ lines.capacity \in Nat /\ n <= lines.capacity
    BY <1>0, LinesFacts
  <1>3. n \in Nat /\ p \in 1..n /\ n - 1 \in Nat
    BY <1>0, <1>2, BuffersAssumption
  <1>4. /\ Items \in Seq(Place) /\ Len(Items) = n /\ IsInjective(Items)
        /\ \A i \in 1..n : Items[i] \in Addr /\ heap.block[Items[i]] = "line"
        /\ \A i, j \in 1..n : Items[i] = Items[j] => i = j
    BY <1>0, <1>1, ItemsFacts DEF BufferSide, BuffersOwned
  <1>5. old \in Addr /\ heap.block[old] = "line" /\ old # d /\ old # bytes.data
    BY <1>1, <1>2, <1>3, <1>4, NullIsNoAddress
  <1>6. GoodHeap(f) /\ Changes(heap, f, old, "free", <<>>) /\ f.nodes = heap.nodes /\ f.str_head = heap.str_head
    BY <1>1, <1>5, FreeFacts
  <1>7. t \in Seq(Place) /\ Len(t) = n - 1 /\ IsInjective(t) /\ Range(t) = Range(Items) \ {old}
        /\ \A i \in 1..(n - 1) : t[i] = Items[IF i < p THEN i ELSE i + 1]
    <2> DEFINE s == Items
    <2>1. s \in Seq(Place) /\ Len(s) = n /\ IsInjective(s) /\ p \in 1..Len(s)
      BY <1>3, <1>4
    <2> HIDE DEF s, p
    <2>2. /\ RemoveAt(s, p) \in Seq(Place) /\ Len(RemoveAt(s, p)) = Len(s) - 1
          /\ \A i \in 1..(Len(s) - 1) : RemoveAt(s, p)[i] = s[IF i < p THEN i ELSE i + 1]
      BY <2>1, RemoveAtFacts
    <2>3. IsInjective(RemoveAt(s, p)) /\ Range(RemoveAt(s, p)) = Range(s) \ {s[p]}
      BY <2>1, RemovedFromList
    <2> QED BY <2>1, <2>2, <2>3 DEF s
  <1>8. q \in Seq(Place) /\ Len(q) = n /\ \A i \in 1..(n - 1) : q[i] = t[i]
    <2>1. Null \in Place
      BY DEF Place
    <2> DEFINE k == n - 1
    <2>2. k \in Nat /\ Len(t) = k /\ k + 1 = n
      BY <1>3, <1>7
    <2> HIDE DEF t, k
    <2>3. q \in Seq(Place) /\ Len(q) = k + 1 /\ \A i \in 1..k : q[i] = t[i]
      BY <1>7, <2>1, <2>2, AppendFacts
    <2> QED BY <2>2, <2>3 DEF k
  <1> HIDE DEF f, q, t
  <1>9. /\ GoodHeap(heap') /\ Changes(f, heap', d, f.block[d], q) /\ heap'.block = f.block
        /\ heap'.nodes = f.nodes /\ heap'.str_head = f.str_head
    <2> DEFINE g == heap'
    <2>1. g = [f EXCEPT !.mem[d] = q] /\ d \in Addr /\ GoodHeap(f)
      BY <1>0, <1>2, <1>6
    <2> HIDE DEF g, d
    <2>2. /\ GoodHeap(g) /\ Changes(f, g, d, f.block[d], q) /\ g.block = f.block
          /\ g.nodes = f.nodes /\ g.str_head = f.str_head
      BY <2>1, StoreFacts
    <2> QED BY <2>2 DEF g
  <1>10. /\ lines' \in Buffers /\ lines'.data = d /\ lines'.length = n - 1 /\ lines'.capacity = lines.capacity
         /\ lines'.length <= lines'.capacity
    <2> DEFINE k == lines.capacity
    <2>0. n \in 0..MaxLen /\ k \in Nat /\ n <= k /\ MaxLen \in Nat /\ n - 1 \in Nat
      BY <1>2, <1>3, BuffersAssumption
    <2> HIDE DEF n, k
    <2>1. n - 1 \in 0..MaxLen /\ n - 1 <= k
      BY <2>0
    <2> USE DEF n, k
    <2> QED BY <1>0, <1>1, <1>2, <2>1 DEF Buffers
  <1>11. \A a \in Addr : heap'.block[a] = IF a = old THEN "free" ELSE heap.block[a]
    BY <1>6, <1>9 DEF Changes
  <1>12. \A a \in Addr \ {old, d} : heap'.mem[a] = heap.mem[a]
    BY <1>6, <1>9 DEF Changes
  <1>13. heap'.mem[d] = q
    BY <1>9 DEF Changes
  <1>14. Keeps(heap, heap', "str") /\ Keeps(heap, heap', "payload")
    BY <1>2, <1>5, <1>11, <1>12 DEF Keeps
  <1>15. ArraysAre(heap', d, bytes.data)
    <2>1. {a \in Addr : heap'.block[a] = "array"} = Live("array")
      BY <1>5, <1>11 DEF Live
    <2> QED BY <1>1, <1>2, <2>1 DEF ArraysAre
  <1>16. bytes.data # Null => heap'.mem[bytes.data] = heap.mem[bytes.data]
    BY <1>1, <1>2, <1>5, <1>12
  <1>17. /\ wantLines = [i \in 1..Len(wantLines) |-> wantLines[i]] /\ Len(wantLines) = n
         /\ \A i \in 1..n : heap.mem[Items[i]] = wantLines[i]
    BY <1>0, <1>1 DEF BufferSide, BufferTypes, LinesHeld
  <1> DEFINE S == {wantLines[i] : i \in 1..Len(wantLines)} \cup {Null}
  <1>18. wantLines \in Seq(S)
    BY <1>3, <1>17, TextsAreSeq
  <1>19. texts \in Seq(S) /\ Len(texts) = n - 1
         /\ \A i \in 1..(n - 1) : texts[i] = wantLines[IF i < p THEN i ELSE i + 1]
    <2> HIDE DEF S, p
    <2>1. p \in 1..Len(wantLines)
      BY <1>3, <1>17
    <2> QED BY <1>17, <1>18, <2>1, RemoveAtFacts
  <1>20. Range(Items) = Live("line")
    BY <1>0, <1>1 DEF BufferSide, BuffersOwned
  <1>21. {a \in Addr : heap'.block[a] = "line"} = Range(t)
    BY <1>5, <1>7, <1>11, <1>20 DEF Live
  <1>22. ASSUME NEW i \in 1..(n - 1) PROVE heap'.mem[t[i]] = texts[i]
    <2> DEFINE j == IF i < p THEN i ELSE i + 1
    <2>1. j \in 1..n /\ j # p
      BY <1>3, <1>22
    <2>2. t[i] = Items[j] /\ texts[i] = wantLines[j]
      BY <1>7, <1>19, <1>22
    <2> HIDE DEF j
    <2>3. Items[j] \in Addr /\ heap.block[Items[j]] = "line" /\ Items[j] # old
      BY <1>3, <1>4, <2>1
    <2>4. Items[j] # d
      BY <1>2, <2>3
    <2> QED BY <1>12, <1>17, <2>1, <2>2, <2>3, <2>4
  <1>23. Lists(heap', q, n - 1, texts)
    <2> DEFINE k == n - 1
    <2>1. k \in Nat /\ k <= Len(q) /\ Len(t) = k /\ Len(texts) = k
      BY <1>3, <1>7, <1>8, <1>19
    <2>2. (\A i \in 1..k : q[i] = t[i]) /\ \A i \in 1..k : heap'.mem[t[i]] = texts[i]
      BY <1>8, <1>22
    <2> HIDE DEF k, texts
    <2>3. Lists(heap', q, k, texts)
      BY <1>7, <1>8, <1>21, <2>1, <2>2, ListsIntro
    <2> QED BY <2>3 DEF k
  <1>24. linesOpen'
    BY <1>0
  <1> HIDE DEF S, texts, d, n
  <1> QED
    BY <1>0, <1>2, <1>6, <1>9, <1>10, <1>13, <1>14, <1>15, <1>16, <1>19, <1>23, <1>24, LinesDone

\* The copy of a line: what the source holds, in a block of its own.
LEMMA DupFacts ==
  ASSUME OInv, NEW src, Readable(src), NEW c \in Malloc(heap), c # Null, NEW g, g = cn_lines_dup(heap, src, c)
  PROVE  /\ c \in Addr /\ heap.block[c] = "free"
         /\ GoodHeap(g) /\ Changes(heap, g, c, "line", src.text)
         /\ g.nodes = heap.nodes /\ g.str_head = heap.str_head
  <1>1. GoodHeap(heap)
    BY DataFacts
  <1>2. c \in Addr /\ heap.block[c] = "free"
    BY MallocFacts
  <1>3. g = Alloc(heap, c, "line", src.text)
    BY DEF cn_lines_dup, Readable
  <1>4. "line" \in Kinds
    BY DEF Kinds
  <1> QED BY <1>1, <1>2, <1>3, <1>4, AllocFacts

\* A line at c in the place of the one at old.
Swapped(h, g, c, old, text) ==
  /\ h.block[c] = "free" /\ g.mem[c] = text
  /\ \A a \in Addr : g.block[a] = IF a = c THEN "line" ELSE IF a = old THEN "free" ELSE h.block[a]
  /\ \A a \in Addr : h.block[a] = "line" /\ a # old => g.mem[a] = h.mem[a]

\* One line replaced in the list.
LEMMA ReplacedLine ==
  ASSUME NEW h, NEW g, NEW m, NEW n, NEW texts, Lists(h, m, n, texts), NEW p \in 1..n, NEW c \in Addr,
         NEW q, Replaced(Place, m, p, c, q), NEW S, texts \in Seq(S), NEW text \in S,
         NEW texts1, Replaced(S, texts, p, text, texts1),
         Swapped(h, g, c, m[p], text)
  PROVE  Lists(g, q, n, texts1)
  <1>0. /\ h.block[c] = "free" /\ g.mem[c] = text
        /\ \A a \in Addr : g.block[a] = IF a = c THEN "line" ELSE IF a = m[p] THEN "free" ELSE h.block[a]
        /\ \A a \in Addr : h.block[a] = "line" /\ a # m[p] => g.mem[a] = h.mem[a]
    BY DEF Swapped
  <1>1. /\ n \in Nat /\ m \in Seq(Place) /\ n <= Len(m)
        /\ \A i, j \in 1..n : m[i] = m[j] => i = j
        /\ {a \in Addr : h.block[a] = "line"} = {m[i] : i \in 1..n}
        /\ Len(texts) = n
        /\ \A i \in 1..n : h.mem[m[i]] = texts[i]
    BY DEF Lists
  <1>2. q \in Seq(Place) /\ n <= Len(q) /\ Len(texts1) = n
    BY <1>1 DEF Replaced
  <1>3. \A i \in 1..n : i \in 1..Len(m)
    <2> DEFINE l == Len(m)
    <2>1. l \in Nat /\ n \in Nat /\ n <= l
      BY <1>1, LenProperties
    <2> HIDE DEF l
    <2>2. \A i \in 1..n : i \in 1..l
      BY <2>1
    <2> QED BY <2>2 DEF l
  <1>4. \A i \in 1..n : q[i] = IF i = p THEN c ELSE m[i]
    BY <1>3 DEF Replaced
  <1>5. \A i \in 1..n : texts1[i] = IF i = p THEN text ELSE texts[i]
    BY <1>1 DEF Replaced
  <1>6. \A i \in 1..n : m[i] \in Addr /\ h.block[m[i]] = "line" /\ m[i] # c
    BY <1>0, <1>1
  <1>7. \A i, j \in 1..n : q[i] = q[j] => i = j
    BY <1>1, <1>4, <1>6
  <1>8. ASSUME NEW a \in Addr PROVE g.block[a] = "line" <=> \E i \in 1..n : a = q[i]
    <2>1. CASE a = c
      BY <1>0, <1>4, <2>1
    <2>2. CASE a = m[p] /\ a # c
      BY <1>0, <1>1, <1>4, <2>2
    <2>3. CASE a # c /\ a # m[p]
      <3>1. g.block[a] = "line" <=> \E i \in 1..n : a = m[i]
        BY <1>0, <1>1, <2>3
      <3>2. (\E i \in 1..n : a = m[i]) <=> \E i \in 1..n : a = q[i]
        BY <1>4, <2>3
      <3> QED BY <3>1, <3>2
    <2> QED BY <2>1, <2>2, <2>3
  <1>9. \A i \in 1..n : q[i] \in Addr
    BY <1>4, <1>6
  <1>10. {a \in Addr : g.block[a] = "line"} = {q[i] : i \in 1..n}
    BY <1>8, <1>9
  <1>11. ASSUME NEW i \in 1..n PROVE g.mem[q[i]] = texts1[i]
    <2>1. CASE i = p
      BY <1>0, <1>4, <1>5, <2>1
    <2>2. CASE i # p
      <3>1. m[i] # m[p]
        BY <1>1, <2>2
      <3> QED BY <1>0, <1>1, <1>4, <1>5, <1>6, <2>2, <3>1
    <2> QED BY <2>1, <2>2
  <1> QED BY <1>1, <1>2, <1>7, <1>10, <1>11 DEF Lists

\* cn_lines_set frees the old copy once the new one is there.
LEMMA SetLineStep ==
  ASSUME OInv, NEW index, NEW src, NEW c, cn_lines_set(index, src, c), call = Idle, UNCHANGED notBuffers
  PROVE  OInv'
  <1> DEFINE p == index + 1
             d == lines.data
             n == lines.length
             m == heap.mem[d]
             old == Items[p]
             h1 == cn_lines_dup(heap, src, c)
             h2 == Free(h1, old)
             q == [m EXCEPT ![p] = c]
             texts == [wantLines EXCEPT ![p] = src.text]
             S == {wantLines[i] : i \in 1..Len(wantLines)} \cup {src.text}
  <1>0. /\ linesOpen /\ index \in 0..(n - 1) /\ Readable(src) /\ c \in Malloc(heap)
        /\ UNCHANGED <<restOfHeap, lines, linesOpen, bytesVars>>
    BY DEF cn_lines_set
  <1>1. /\ GoodHeap(heap) /\ BufferSide /\ lines \in Buffers
        /\ Live("array") = {bytes.data, lines.data} \ {Null}
        /\ (bytes.data # Null => bytes.data \in Addr /\ heap.block[bytes.data] = "array")
    BY DataFacts
  <1>2. d \in Addr /\ d # Null /\ heap.block[d] = "array" /\ d # bytes.data
        /\ n \in 0..MaxLen /\ n <= lines.capacity /\ Lists(heap, m, n, wantLines)
    BY <1>0, LinesFacts
  <1>3. n \in Nat /\ p \in 1..n
    BY <1>0, <1>2, BuffersAssumption
  <1>4. wantLines \in Seq(S)
    <2>1. wantLines = [i \in 1..Len(wantLines) |-> wantLines[i]] /\ Len(wantLines) \in Nat
      BY <1>1 DEF BufferSide, BufferTypes
    <2> QED BY <2>1, TextsAreSeq
  <1>5. CASE c = Null
    <2>1. UNCHANGED <<heap, wantLines>>
      BY <1>5 DEF cn_lines_set
    <2>2. UNCHANGED <<bytes, bytesOpen, want, slice, misread>>
      BY <1>0 DEF bytesVars
    <2>3. slice' \in Nat /\ misread' \in BOOLEAN /\ (misread => misread')
      BY <1>1, <2>2 DEF BufferSide, BufferTypes
    <2>4. UNCHANGED <<restOfHeap, linesVars>>
      BY <1>0, <2>1 DEF linesVars
    <2> QED BY <2>1, <2>2, <2>3, <2>4, BytesUntouched
  <1>6. CASE c # Null
    <2>1. heap' = [h2 EXCEPT !.mem[d][p] = c] /\ wantLines' = texts
      BY <1>6 DEF cn_lines_set, ReplaceLine
    <2>2. /\ c \in Addr /\ heap.block[c] = "free"
          /\ GoodHeap(h1) /\ Changes(heap, h1, c, "line", src.text)
          /\ h1.nodes = heap.nodes /\ h1.str_head = heap.str_head
      BY <1>0, <1>6, DupFacts
    <2>3. old = m[p] /\ old \in Addr /\ heap.block[old] = "line"
      BY <1>0, <1>1, <1>3, ItemsFacts
    <2> HIDE DEF h1, old
    <2>4. old # d /\ old # bytes.data /\ old # c /\ c # d /\ c # bytes.data /\ h1.block[old] = "line"
      BY <1>1, <1>2, <2>2, <2>3, NullIsNoAddress DEF Changes
    <2>5. GoodHeap(h2) /\ Changes(h1, h2, old, "free", <<>>) /\ h2.nodes = h1.nodes /\ h2.str_head = h1.str_head
      BY <2>2, <2>3, <2>4, FreeFacts
    <2> HIDE DEF h2
    <2>6. h2.mem[d] = m
      BY <1>2, <2>2, <2>4, <2>5 DEF Changes
    <2>7. heap' = [h2 EXCEPT !.mem[d] = q]
      BY <2>1, <2>6
    <2>8. /\ GoodHeap(heap') /\ Changes(h2, heap', d, h2.block[d], q) /\ heap'.block = h2.block
          /\ heap'.nodes = h2.nodes /\ heap'.str_head = h2.str_head
      <3> DEFINE g == heap'
      <3>1. g = [h2 EXCEPT !.mem[d] = q] /\ d \in Addr /\ GoodHeap(h2)
        BY <1>2, <2>5, <2>7
      <3> HIDE DEF g, d, q
      <3>2. /\ GoodHeap(g) /\ Changes(h2, g, d, h2.block[d], q) /\ g.block = h2.block
            /\ g.nodes = h2.nodes /\ g.str_head = h2.str_head
        BY <3>1, StoreFacts
      <3> QED BY <3>2 DEF g
    <2>9. \A a \in Addr : heap'.block[a] = IF a = c THEN "line" ELSE IF a = old THEN "free" ELSE heap.block[a]
      BY <2>2, <2>4, <2>5, <2>8 DEF Changes
    <2>10. \A a \in Addr \ {old, d, c} : heap'.mem[a] = heap.mem[a]
      BY <2>2, <2>5, <2>8 DEF Changes
    <2>11. heap'.mem[d] = q
      BY <2>8 DEF Changes
    <2>12. heap'.mem[c] = src.text
      BY <2>2, <2>4, <2>5, <2>8 DEF Changes
    <2>13. Keeps(heap, heap', "str") /\ Keeps(heap, heap', "payload")
      BY <1>2, <2>2, <2>3, <2>9, <2>10 DEF Keeps
    <2>14. ArraysAre(heap', d, bytes.data)
      <3>1. {a \in Addr : heap'.block[a] = "array"} = Live("array")
        BY <2>2, <2>3, <2>9 DEF Live
      <3> QED BY <1>1, <1>2, <3>1 DEF ArraysAre
    <2>15. bytes.data # Null => heap'.mem[bytes.data] = heap.mem[bytes.data]
      BY <1>1, <1>2, <2>4, <2>10
    <2>16. m \in Seq(Place) /\ c \in Place /\ src.text \in S
      BY <1>2, <2>2 DEF Lists, Place
    <2> HIDE DEF m, S, d, n, p
    <2>17. Replaced(Place, m, p, c, q)
      BY <2>16, ReplacedAt
    <2>18. Replaced(S, wantLines, p, src.text, texts)
      BY <1>4, <2>16, ReplacedAt
    <2> HIDE DEF q, texts
    <2>19. \A a \in Addr : heap.block[a] = "line" /\ a # m[p] => heap'.mem[a] = heap.mem[a]
      BY <1>2, <2>2, <2>3, <2>10
    <2>20. \A a \in Addr : heap'.block[a] = IF a = c THEN "line" ELSE IF a = m[p] THEN "free" ELSE heap.block[a]
      BY <2>3, <2>9
    <2>21. Lists(heap', q, n, texts)
      <3>1. Swapped(heap, heap', c, m[p], src.text)
        BY <2>2, <2>12, <2>19, <2>20 DEF Swapped
      <3> DEFINE g == heap'
                 text == src.text
      <3> HIDE DEF g, text
      <3>2. Swapped(heap, g, c, m[p], text) /\ Replaced(S, wantLines, p, text, texts) /\ text \in S
        BY <2>16, <2>18, <3>1 DEF g, text
      <3>3. Lists(g, q, n, texts)
        BY <1>2, <1>3, <1>4, <2>2, <2>17, <3>2, ReplacedLine
      <3> QED BY <3>3 DEF g
    <2>22. texts \in Seq(S)
      BY <2>18 DEF Replaced
    <2>23. lines'.data = d /\ lines'.length = n /\ lines' \in Buffers /\ lines'.capacity = lines.capacity
           /\ linesOpen'
      BY <1>0, <1>1 DEF d, n
    <2>24. heap'.nodes = heap.nodes /\ heap'.str_head = heap.str_head
      BY <2>2, <2>5, <2>8
    <2> QED BY <1>0, <1>2, <2>1, <2>8, <2>11, <2>13, <2>14, <2>15, <2>21, <2>22, <2>23, <2>24, LinesDone
  <1> QED BY <1>5, <1>6

\* t is the first n elements of s, with x after the first k.
Inserted(S, s, n, k, x, t) ==
  /\ t \in Seq(S) /\ Len(t) = n + 1
  /\ \A j \in 1..(n + 1) :
       \/ j <= k /\ j \in 1..n /\ t[j] = s[j]
       \/ j = k + 1 /\ t[j] = x
       \/ j > k + 1 /\ j - 1 \in 1..n /\ t[j] = s[j - 1]

\* Where the elements are after an insertion.
LEMMA InsertFacts ==
  ASSUME NEW S, NEW s \in Seq(S), NEW n \in Nat, n <= Len(s), NEW k \in 0..n, NEW x \in S,
         NEW t, t = SubSeq(s, 1, k) \o <<x>> \o SubSeq(s, k + 1, n)
  PROVE  Inserted(S, s, n, k, x, t)
  <1> DEFINE l == Len(s)
             a == SubSeq(s, 1, k)
             b == SubSeq(s, k + 1, n)
             u == a \o <<x>>
             y == <<x>>
  <1>1. l \in Nat /\ n <= l /\ k \in Nat /\ k <= n /\ \A i \in 1..l : s[i] \in S
    BY LenProperties, ElementOfSeq
  <1>2. a \in Seq(S) /\ Len(a) = k /\ \A i \in 1..k : a[i] = s[i]
    <2>1. k <= Len(s)
      <3> HIDE DEF l
      <3>1. k <= l
        BY <1>1
      <3> QED BY <3>1 DEF l
    <2> QED BY <1>1, <2>1, PrefixFacts
  <1>3. b \in Seq(S) /\ Len(b) = n - k /\ \A i \in 1..(n - k) : b[i] = s[k + i]
    <2> HIDE DEF l
    <2>1. \A i \in (k + 1)..n : s[i] \in S
      BY <1>1
    <2>2. k + 1 \in Int /\ n \in Int
      BY <1>1
    <2>3. /\ b \in Seq(S) /\ Len(b) = IF k + 1 <= n THEN n - (k + 1) + 1 ELSE 0
          /\ \A i \in 1..(n - (k + 1) + 1) : b[i] = s[(k + 1) + i - 1]
      BY <2>1, <2>2, SubSeqProperties
    <2>4. \A i \in 1..(n - k) : i \in 1..(n - (k + 1) + 1) /\ (k + 1) + i - 1 = k + i
      BY <1>1
    <2>5. (IF k + 1 <= n THEN n - (k + 1) + 1 ELSE 0) = n - k
      BY <1>1
    <2> QED BY <2>3, <2>4, <2>5
  <1>4. y \in Seq(S) /\ Len(y) = 1 /\ y[1] = x /\ 1 \in 1..1 /\ 1 \in Nat
    OBVIOUS
  <1>5. t = u \o b /\ u = a \o y
    OBVIOUS
  <1> HIDE DEF a, b, u, y, l
  <1>6. Joined(S, a, y, k, 1)
    BY <1>1, <1>2, <1>4, ConcatFacts
  <1>7. u \in Seq(S) /\ Len(u) = k + 1 /\ (\A i \in 1..k : u[i] = a[i]) /\ u[k + 1] = x
    BY <1>4, <1>5, <1>6 DEF Joined
  <1> DEFINE v == k + 1
             w == n - k
  <1>8. v \in Nat /\ w \in Nat /\ Len(u) = v /\ Len(b) = w
    BY <1>1, <1>3, <1>7
  <1> HIDE DEF v, w
  <1>9. Joined(S, u, b, v, w)
    BY <1>3, <1>7, <1>8, ConcatFacts
  <1>10. t \in Seq(S) /\ Len(t) = n + 1 /\ (\A i \in 1..v : t[i] = u[i]) /\ \A i \in 1..w : t[v + i] = b[i]
    <2>1. v + w = n + 1
      BY <1>1 DEF v, w
    <2> QED BY <1>5, <1>9, <2>1 DEF Joined
  <1>11. ASSUME NEW j \in 1..(n + 1)
         PROVE  \/ j <= k /\ j \in 1..n /\ t[j] = s[j]
                \/ j = k + 1 /\ t[j] = x
                \/ j > k + 1 /\ j - 1 \in 1..n /\ t[j] = s[j - 1]
    <2>1. CASE j <= k
      <3>1. j \in 1..k /\ j \in 1..v /\ j \in 1..n
        BY <1>1, <2>1 DEF v
      <3> QED BY <1>2, <1>7, <1>10, <2>1, <3>1
    <2>2. CASE j = k + 1
      <3>1. j \in 1..v
        BY <1>1, <2>2 DEF v
      <3> QED BY <1>7, <1>10, <2>2, <3>1
    <2>3. CASE j > k + 1
      <3> DEFINE i == j - v
      <3>1. i \in 1..w /\ v + i = j /\ k + i = j - 1 /\ j - 1 \in 1..n /\ i \in 1..(n - k)
        BY <1>1, <2>3 DEF v, w
      <3> HIDE DEF i
      <3>2. t[v + i] = b[i] /\ b[i] = s[k + i]
        BY <1>3, <1>10, <3>1
      <3> QED BY <2>3, <3>1, <3>2
    <2> QED BY <1>1, <2>1, <2>2, <2>3
  <1> QED BY <1>10, <1>11 DEF Inserted

\* One more line, at c.
Added(h, g, c, text) ==
  /\ h.block[c] = "free" /\ g.mem[c] = text
  /\ \A a \in Addr : g.block[a] = "line" <=> a = c \/ h.block[a] = "line"
  /\ \A a \in Addr : h.block[a] = "line" => g.mem[a] = h.mem[a]

\* A line inserted into the list.
LEMMA InsertedLine ==
  ASSUME NEW h, NEW g, NEW m, NEW n, NEW texts, Lists(h, m, n, texts), NEW k \in 0..n, NEW c \in Addr,
         NEW q, Inserted(Place, m, n, k, c, q), NEW S, NEW text \in S,
         NEW texts1, Inserted(S, texts, n, k, text, texts1), Added(h, g, c, text)
  PROVE  Lists(g, q, n + 1, texts1)
  <1>0. /\ h.block[c] = "free" /\ g.mem[c] = text
        /\ \A a \in Addr : g.block[a] = "line" <=> a = c \/ h.block[a] = "line"
        /\ \A a \in Addr : h.block[a] = "line" => g.mem[a] = h.mem[a]
    BY DEF Added
  <1>1. /\ n \in Nat /\ m \in Seq(Place)
        /\ \A i, j \in 1..n : m[i] = m[j] => i = j
        /\ {a \in Addr : h.block[a] = "line"} = {m[i] : i \in 1..n}
        /\ \A i \in 1..n : h.mem[m[i]] = texts[i]
    BY DEF Lists
  <1>2. q \in Seq(Place) /\ Len(q) = n + 1 /\ Len(texts1) = n + 1 /\ n + 1 \in Nat
    BY <1>1 DEF Inserted
  <1>3. \A j \in 1..(n + 1) :
          \/ j <= k /\ j \in 1..n /\ q[j] = m[j] /\ texts1[j] = texts[j]
          \/ j = k + 1 /\ q[j] = c /\ texts1[j] = text
          \/ j > k + 1 /\ j - 1 \in 1..n /\ q[j] = m[j - 1] /\ texts1[j] = texts[j - 1]
    <2> TAKE j \in 1..(n + 1)
    <2>1. \/ j <= k /\ j \in 1..n /\ q[j] = m[j]
          \/ j = k + 1 /\ q[j] = c
          \/ j > k + 1 /\ j - 1 \in 1..n /\ q[j] = m[j - 1]
      BY DEF Inserted
    <2>2. \/ j <= k /\ j \in 1..n /\ texts1[j] = texts[j]
          \/ j = k + 1 /\ texts1[j] = text
          \/ j > k + 1 /\ j - 1 \in 1..n /\ texts1[j] = texts[j - 1]
      BY DEF Inserted
    <2> QED BY <1>1, <2>1, <2>2
  <1>6. \A i \in 1..n : m[i] \in Addr /\ h.block[m[i]] = "line" /\ m[i] # c
    BY <1>0, <1>1
  <1>7. ASSUME NEW i \in 1..(n + 1), NEW j \in 1..(n + 1), q[i] = q[j] PROVE i = j
    <2>1. CASE i <= k
      BY <1>1, <1>3, <1>6, <1>7, <2>1
    <2>2. CASE i = k + 1
      BY <1>1, <1>3, <1>6, <1>7, <2>2
    <2>3. CASE i > k + 1
      BY <1>1, <1>3, <1>6, <1>7, <2>3
    <2> QED BY <1>1, <2>1, <2>2, <2>3
  <1>8. \A j \in 1..(n + 1) : q[j] \in Addr /\ g.block[q[j]] = "line"
    BY <1>0, <1>3, <1>6
  <1>9. ASSUME NEW a \in Addr, g.block[a] = "line" PROVE \E j \in 1..(n + 1) : a = q[j]
    <2>1. CASE a = c
      <3>1. k + 1 \in 1..(n + 1) /\ ~(k + 1 <= k) /\ ~(k + 1 > k + 1)
        BY <1>1
      <3>2. q[k + 1] = c
        BY <1>3, <3>1
      <3> QED BY <2>1, <3>1, <3>2
    <2>2. CASE a # c
      <3>1. PICK i \in 1..n : a = m[i]
        BY <1>0, <1>1, <1>9, <2>2
      <3>2. CASE i <= k
        <4>1. i \in 1..(n + 1) /\ i # k + 1 /\ ~(i > k + 1)
          BY <1>1, <3>2
        <4> QED BY <1>3, <3>1, <4>1
      <3>3. CASE ~(i <= k)
        <4>1. i + 1 \in 1..(n + 1) /\ i + 1 # k + 1 /\ ~(i + 1 <= k) /\ (i + 1) - 1 = i
          BY <1>1, <3>3
        <4>2. q[i + 1] = m[(i + 1) - 1]
          BY <1>3, <4>1
        <4> QED BY <3>1, <4>1, <4>2
      <3> QED BY <3>2, <3>3
    <2> QED BY <2>1, <2>2
  <1>10. {a \in Addr : g.block[a] = "line"} = {q[j] : j \in 1..(n + 1)}
    BY <1>8, <1>9
  <1>11. \A j \in 1..(n + 1) : g.mem[q[j]] = texts1[j]
    BY <1>0, <1>1, <1>3, <1>6
  <1>12. n + 1 <= Len(q)
    BY <1>2
  <1> QED BY <1>2, <1>7, <1>10, <1>11, <1>12 DEF Lists

\* An operation that fails and changes nothing.
LEMMA NothingChanged ==
  ASSUME OInv, UNCHANGED <<heap, bufferVars, restOfHeap>>, call = Idle, UNCHANGED notBuffers
  PROVE  OInv'
  <1>1. CallSide
    BY OInvParts
  <1>2. UNCHANGED handle /\ call' = Idle
    BY DEF notBuffers, ipcVars
  <1>3. CallSide'
    BY <1>1, <1>2, CallFrame
  <1>4. UNCHANGED heapVars
    BY DEF heapVars, restOfHeap
  <1> QED BY <1>2, <1>3, <1>4, HeapUntouched

\* The copy is released again: the buffer could not grow.
LEMMA CopyReleased ==
  ASSUME OInv, NEW c \in Addr, heap.block[c] = "free", NEW h1, NEW text, Changes(heap, h1, c, "line", text),
         GoodHeap(h1), h1.nodes = heap.nodes, h1.str_head = heap.str_head,
         heap' = Free(h1, c), UNCHANGED <<bufferVars, restOfHeap>>, call = Idle, UNCHANGED notBuffers
  PROVE  OInv'
  <1>1. GoodHeap(heap) /\ BufferSide
    BY DataFacts
  <1>2. h1.block[c] # "free"
    BY DEF Changes
  <1>3. GoodHeap(heap') /\ Changes(h1, heap', c, "free", <<>>) /\ heap'.nodes = h1.nodes /\ heap'.str_head = h1.str_head
    BY <1>2, FreeFacts
  <1>4. Changes(heap, heap', c, "free", <<>>)
    BY <1>3 DEF Changes
  <1>5. Keeps(heap, heap', "str") /\ Keeps(heap, heap', "payload") /\ Keeps(heap, heap', "array")
        /\ Keeps(heap, heap', "line")
    BY <1>4, ChangesKeep
  <1>6. BufferSide'
    BY <1>1, <1>5, BuffersFrame
  <1>7. Headers' = Headers + 0 /\ heap'.nodes = heap.nodes + 0 /\ 0 \in Int
    <2>1. Headers' = Headers
      BY SameHeaders DEF bufferVars
    <2>2. Headers \in Nat /\ heap.nodes \in Nat
      BY <1>1, OInvCounts, GoodHeapTypes
    <2> QED BY <1>3, <2>1, <2>2
  <1> QED BY <1>3, <1>5, <1>6, <1>7, BufferStep

\* The copy of a line stored in a buffer that has room for it.
LEMMA StoredLine ==
  ASSUME OInv, linesOpen, lines.length + 1 <= MaxLen, NEW index \in 0..lines.length,
         NEW c \in Addr, heap.block[c] = "free", NEW text, NEW h1, Changes(heap, h1, c, "line", text),
         GoodHeap(h1), h1.nodes = heap.nodes, h1.str_head = heap.str_head,
         NEW h, NEW b, Grown(h1, lines, h, b, lines.length + 1),
         heap' = [h EXCEPT !.mem[b.data] = SubSeq(@, 1, index) \o <<c>> \o SubSeq(@, index + 1, lines.length)],
         lines' = [b EXCEPT !.length = @ + 1], wantLines' = InsertAt(wantLines, index + 1, text),
         UNCHANGED <<restOfHeap, linesOpen, bytesVars>>, call = Idle, UNCHANGED notBuffers
  PROVE  OInv'
  <1> DEFINE d == lines.data
             n == lines.length
             m == heap.mem[d]
             q == SubSeq(m, 1, index) \o <<c>> \o SubSeq(m, index + 1, n)
             o == bytes.data
             S == {wantLines[i] : i \in 1..Len(wantLines)} \cup {text}
  <1>1. /\ GoodHeap(heap) /\ BufferSide /\ lines \in Buffers
        /\ Live("array") = {bytes.data, lines.data} \ {Null}
        /\ (bytes.data = lines.data => bytes.data = Null)
        /\ (bytes.data # Null => bytes.data \in Addr /\ heap.block[bytes.data] = "array")
        /\ o \in Place /\ d \in Place
    BY DataFacts
  <1>2. d \in Addr /\ d # Null /\ heap.block[d] = "array" /\ d # o
        /\ n \in 0..MaxLen /\ n <= lines.capacity /\ Lists(heap, m, n, wantLines)
    BY LinesFacts
  <1>3. n \in Nat /\ n + 1 \in 0..MaxLen /\ index \in Nat
    BY <1>2, BuffersAssumption
  <1>4. c # d /\ c # o
    BY <1>1, <1>2, NullIsNoAddress
  <1>5. h1.mem[d] = m /\ (o # Null => h1.mem[o] = heap.mem[o])
    BY <1>1, <1>2, <1>4 DEF Changes
  <1>6. ArraysAre(h1, d, o)
    <2>1. {a \in Addr : h1.block[a] = "array"} = Live("array")
      BY DEF Live, Changes
    <2> QED BY <1>1, <1>2, <2>1 DEF ArraysAre
  <1>7. /\ h.mem[b.data] = m /\ b.data \in Addr /\ b.length = n /\ b.capacity \in Nat /\ b.capacity >= n + 1
        /\ b \in [data : Place, length : {n}, capacity : Nat]
    BY <1>2, <1>5 DEF Grown
  <1>8. heap' = [h EXCEPT !.mem[b.data] = q]
    BY <1>7
  <1>9. wantLines \in Seq(S) /\ text \in S /\ Len(wantLines) = n
    <2>1. wantLines = [i \in 1..Len(wantLines) |-> wantLines[i]] /\ Len(wantLines) \in Nat
      BY <1>1 DEF BufferSide, BufferTypes
    <2> QED BY <1>2, <2>1, TextsAreSeq DEF Lists
  <1>10. m \in Seq(Place) /\ n <= Len(m) /\ c \in Place
    BY <1>2 DEF Lists, Place
  <1>11. wantLines' = SubSeq(wantLines, 1, index) \o <<text>> \o SubSeq(wantLines, index + 1, n)
    <2>1. (index + 1) - 1 = index
      BY <1>3
    <2> QED BY <1>9, <2>1 DEF InsertAt
  <1> HIDE DEF m, S, d, n, o
  <1>12. index \in 0..n
    BY DEF n
  <1>13. Inserted(Place, m, n, index, c, q)
    BY <1>3, <1>10, <1>12, InsertFacts
  <1>14. Inserted(S, wantLines, n, index, text, wantLines')
    <2> DEFINE s == wantLines
               t == wantLines'
    <2>1. s \in Seq(S) /\ n <= Len(s) /\ t = SubSeq(s, 1, index) \o <<text>> \o SubSeq(s, index + 1, n)
      <3>1. n <= n
        BY <1>3
      <3> QED BY <1>9, <1>11, <3>1, Zenon
    <2> HIDE DEF s, t
    <2>2. Inserted(S, s, n, index, text, t)
      BY <1>3, <1>9, <1>12, <2>1, InsertFacts
    <2> QED BY <2>2 DEF s, t
  <1> HIDE DEF q
  <1>15. Moved(h1, lines, heap', b, q)
    BY <1>8, StoredFacts
  <1>16. OthersKept(h1, heap', b.data, o)
    <2>1. ArraysAre(h1, lines.data, o) /\ lines.data \in Place /\ o \in Place
      BY <1>1, <1>6 DEF d
    <2> QED BY <1>15, <2>1, MovedData
  <1>17. Keeps(heap, heap', "str") /\ Keeps(heap, heap', "payload")
    <2>1. Keeps(heap, h1, "str") /\ Keeps(heap, h1, "payload")
      BY ChangesKeep
    <2>2. Keeps(h1, heap', "str") /\ Keeps(h1, heap', "payload")
      BY <1>16 DEF OthersKept
    <2> QED BY <2>1, <2>2, KeepsTransitive
  <1>18. ArraysAre(heap', b.data, bytes.data)
    BY <1>16 DEF OthersKept, o
  <1>19. bytes.data # Null => heap'.mem[bytes.data] = heap.mem[bytes.data]
    BY <1>5, <1>16 DEF OthersKept, o
  <1>20. Added(heap, heap', c, text)
    <2>1. h1.block[c] = "line" /\ h1.mem[c] = text
          /\ \A a \in Addr \ {c} : h1.block[a] = heap.block[a] /\ h1.mem[a] = heap.mem[a]
      BY DEF Changes
    <2>2. \A a \in Addr : /\ h1.block[a] = "line" <=> heap'.block[a] = "line"
                          /\ h1.block[a] = "line" => heap'.mem[a] = h1.mem[a]
      BY <1>16 DEF OthersKept, Keeps
    <2>3. \A a \in Addr : heap'.block[a] = "line" <=> a = c \/ heap.block[a] = "line"
      BY <2>1, <2>2
    <2>4. heap'.mem[c] = text
      BY <2>1, <2>2
    <2>5. \A a \in Addr : heap.block[a] = "line" => heap'.mem[a] = heap.mem[a]
      BY <2>1, <2>2
    <2> QED BY <2>3, <2>4, <2>5 DEF Added
  <1>21. Lists(heap', q, n + 1, wantLines')
    <2> DEFINE g == heap'
               t == wantLines'
               s == wantLines
    <2>1. Added(heap, g, c, text) /\ Inserted(S, s, n, index, text, t) /\ Lists(heap, m, n, s)
      BY <1>2, <1>14, <1>20
    <2> HIDE DEF g, t, s
    <2>2. Lists(g, q, n + 1, t)
      BY <1>9, <1>12, <1>13, <2>1, InsertedLine
    <2> QED BY <2>2 DEF g, t
  <1>22. wantLines' \in Seq(S)
    BY <1>14 DEF Inserted
  <1>23. lines' \in Buffers /\ lines'.data = b.data /\ lines'.length = n + 1 /\ lines'.capacity = b.capacity
    BY <1>3, <1>7 DEF Buffers
  <1>24. heap'.mem[b.data] = q /\ GoodHeap(heap') /\ heap'.nodes = heap.nodes /\ heap'.str_head = heap.str_head
    BY <1>15 DEF Moved
  <1>25. lines'.data # Null /\ lines'.length <= lines'.capacity
    BY <1>3, <1>7, <1>23, NullIsNoAddress
  <1>26. linesOpen'
    OBVIOUS
  <1>27. ArraysAre(heap', lines'.data, bytes.data)
         /\ Lists(heap', heap'.mem[lines'.data], lines'.length, wantLines')
    BY <1>18, <1>21, <1>23, <1>24
  <1> QED BY <1>17, <1>19, <1>22, <1>23, <1>24, <1>25, <1>26, <1>27, LinesDone

\* cn_lines_insert: the copy is in the list, or freed when the array cannot grow.
LEMMA InsertStep ==
  ASSUME OInv, NEW index, NEW src, NEW c, NEW r, cn_lines_insert(index, src, c, r), call = Idle,
         UNCHANGED notBuffers
  PROVE  OInv'
  <1> DEFINE h1 == cn_lines_dup(heap, src, c)
             e == buffer_ensure(h1, lines, lines.length + 1, LinesMin, r)
             text == src.text
  <1>0. /\ linesOpen /\ index \in 0..lines.length /\ lines.length < MaxLen /\ Readable(src) /\ c \in Malloc(heap)
        /\ UNCHANGED <<restOfHeap, linesOpen, bytesVars>>
    BY DEF cn_lines_insert
  <1>1. CASE c = Null
    <2>1. UNCHANGED <<heap, lines, wantLines>>
      BY <1>1 DEF cn_lines_insert
    <2>2. UNCHANGED bufferVars
      BY <1>0, <2>1 DEF bufferVars, bytesVars
    <2> QED BY <1>0, <2>1, <2>2, NothingChanged
  <1>2. CASE c # Null
    <2>1. /\ c \in Addr /\ heap.block[c] = "free"
          /\ GoodHeap(h1) /\ Changes(heap, h1, c, "line", text)
          /\ h1.nodes = heap.nodes /\ h1.str_head = heap.str_head
      BY <1>0, <1>2, DupFacts
    <2>2. lines \in Buffers /\ lines.data # Null /\ lines.data \in Addr /\ heap.block[lines.data] = "array"
      BY <1>0, DataFacts
    <2>3. GrowthChoice(h1, lines, lines.length + 1, r)
      BY <1>2 DEF cn_lines_insert
    <2>4. IF e.ok
          THEN /\ heap' = [e.h EXCEPT !.mem[e.b.data] =
                             SubSeq(@, 1, index) \o <<c>> \o SubSeq(@, index + 1, lines.length)]
               /\ lines' = [e.b EXCEPT !.length = @ + 1]
               /\ wantLines' = InsertAt(wantLines, index + 1, text)
          ELSE heap' = Free(e.h, c) /\ lines' = e.b /\ UNCHANGED wantLines
      BY <1>2, Zenon DEF cn_lines_insert
    <2> HIDE DEF h1
    <2>5. h1.block[lines.data] = "array"
      BY <2>1, <2>2 DEF Changes
    <2>6. r = lines.data \/ r = Null \/ (r \in Addr /\ h1.block[r] = "free")
      BY <2>3, ChoiceFacts
    <2>7. lines.length + 1 \in Nat /\ lines.length + 1 > 0 /\ lines.length + 1 <= MaxLen /\ LinesMin \in Nat
      BY <1>0, <2>2, BuffersAssumption DEF Buffers
    <2>8. \/ e.ok /\ Grown(h1, lines, e.h, e.b, lines.length + 1)
          \/ ~e.ok /\ e.h = h1 /\ e.b = lines
      <3> DEFINE needed == lines.length + 1
                 f == e
      <3>1. f = buffer_ensure(h1, lines, needed, LinesMin, r) /\ needed \in Nat /\ needed > 0
        BY <2>7
      <3> HIDE DEF needed, f
      <3>2. \/ f.ok /\ Grown(h1, lines, f.h, f.b, needed)
            \/ ~f.ok /\ f.h = h1 /\ f.b = lines
        BY <2>1, <2>2, <2>5, <2>6, <2>7, <3>1, EnsureFacts
      <3> QED BY <3>2 DEF needed, f
    <2> HIDE DEF e, text
    <2>9. CASE e.ok
      <3> DEFINE h == e.h
                 b == e.b
      <3>1. Grown(h1, lines, h, b, lines.length + 1)
        BY <2>8, <2>9
      <3>2. /\ heap' = [h EXCEPT !.mem[b.data] =
                          SubSeq(@, 1, index) \o <<c>> \o SubSeq(@, index + 1, lines.length)]
            /\ lines' = [b EXCEPT !.length = @ + 1]
            /\ wantLines' = InsertAt(wantLines, index + 1, text)
        BY <2>4, <2>9
      <3> HIDE DEF h, b
      <3> QED BY <1>0, <2>1, <2>7, <3>1, <3>2, StoredLine
    <2>10. CASE ~e.ok
      <3>1. heap' = Free(h1, c) /\ UNCHANGED <<lines, wantLines>>
        BY <2>4, <2>8, <2>10
      <3>2. UNCHANGED bufferVars
        BY <1>0, <3>1 DEF bufferVars, bytesVars
      <3> QED BY <1>0, <2>1, <3>1, <3>2, CopyReleased
    <2> QED BY <2>9, <2>10
  <1> QED BY <1>1, <1>2

\* Every operation of std.lines keeps OInv.
LEMMA LinesOwned ==
  ASSUME OInv, LinesNext(Var), call = Idle, UNCHANGED notBuffers
  PROVE  OInv'
  <1>1. CASE \E n \in {0, LinesMin + 1}, header \in BOOLEAN, r \in Place : cn_lines_with_capacity(n, header, r)
    <2>1. PICK n \in {0, LinesMin + 1}, header \in BOOLEAN, r \in Place : cn_lines_with_capacity(n, header, r)
      BY <1>1
    <2>2. n \in Nat
      BY BuffersAssumption
    <2> QED BY <2>1, <2>2, LinesCapacityStep
  <1>2. CASE cn_lines_free
    BY <1>2, FreeLinesStep
  <1>3. CASE cn_lines_clear
    BY <1>3, ClearLinesStep
  <1>4. CASE \E v \in Var, i \in 0..MaxLen : cn_lines_get(v, i)
    BY <1>4, GetStep
  <1>5. CASE \E i \in 0..MaxLen, src \in Sources, c \in Place : cn_lines_set(i, src, c)
    BY <1>5, SetLineStep
  <1>6. CASE \E i \in 0..MaxLen, src \in Sources, c \in Place, r \in Place : cn_lines_insert(i, src, c, r)
    BY <1>6, InsertStep
  <1>7. CASE \E i \in 0..MaxLen : cn_lines_remove(i)
    BY <1>7, RemoveLineStep
  <1> QED BY <1>1, <1>2, <1>3, <1>4, <1>5, <1>6, <1>7 DEF LinesNext

-----------------------------------------------------------------------------
(* The whole.                                                                 *)

\* The heap is empty when the program starts.
LEMMA InitOwned == Init => OInv
  <1> SUFFICES ASSUME Init PROVE OInv
    OBVIOUS
  <1>1. /\ heap = EmptyHeap /\ zones = <<>> /\ var = [v \in Var |-> Null] /\ mine = {}
        /\ told = [v \in Var |-> <<>>] /\ untracked = {} /\ handed = {} /\ misfreed = FALSE
    BY DEF Init, HeapInit
  <1>2. /\ bytes = NoBuffer /\ bytesOpen = FALSE /\ want = <<>> /\ slice = 0
        /\ lines = NoBuffer /\ linesOpen = FALSE /\ wantLines = <<>> /\ misread = FALSE
    BY DEF Init, BuffersInit
  <1>3. handle = [k \in Kid |-> NoHandle] /\ call = Idle
    BY DEF Init, IpcInit
  <1>4. /\ heap.block = [a \in Addr |-> "free"] /\ heap.nodes = 0 /\ heap.str_head = <<>>
        /\ GoodHeap(heap)
    <2> DEFINE b == [a \in Addr |-> "free"]
               m == [a \in Addr |-> <<>>]
    <2>1. heap = [block |-> b, mem |-> m, nodes |-> 0, str_head |-> <<>>, bad |-> FALSE]
      BY <1>1 DEF EmptyHeap
    <2>2. b \in [Addr -> Kinds] /\ m = [a \in Addr |-> m[a]] /\ <<>> \in Seq(Addr) /\ 0 \in Nat
      BY DEF Kinds
    <2> HIDE DEF b, m
    <2>3. HeapRecord(heap) /\ heap.block = b /\ heap.nodes = 0 /\ heap.str_head = <<>> /\ heap.bad = FALSE
      BY <2>1, <2>2, HeapFields
    <2> QED BY <2>3, Zenon DEF GoodHeap, b
  <1>5. Live("str") = {} /\ Live("payload") = {} /\ Live("array") = {} /\ Live("line") = {}
    BY <1>4 DEF Live
  <1>6. DOMAIN zones = {} /\ DOMAIN heap.str_head = {}
    BY <1>1, <1>4
  <1>7. Range(heap.str_head) = {} /\ IsInjective(heap.str_head)
    BY <1>6 DEF Range, IsInjective
  <1>8. ZonePlaces = {} /\ ZoneHeaders = {}
    BY <1>6 DEF ZonePlaces, ZoneHeaders
  <1>9. {k \in Kid : HasHandle(k)} = {}
    BY <1>3 DEF HasHandle
  <1>10. IsFiniteSet({}) /\ Cardinality({}) = 0
    BY FS_EmptySet
  <1>11. StringSide
    <2>1. ProgramTypes
      <3>1. zones \in Seq([null : BOOLEAN, blocks : Seq(Addr)])
        BY <1>1, EmptySeq
      <3>2. \A i \in DOMAIN zones : zones[i].null => zones[i].blocks = <<>>
        BY <1>6
      <3>3. var \in [Var -> Addr \cup {Null}] /\ told = [v \in Var |-> told[v]]
        BY <1>1
      <3>4. mine \subseteq Var /\ untracked \subseteq Addr /\ handed \subseteq Addr
        BY <1>1
      <3>5. misfreed \in BOOLEAN
        BY <1>1, Zenon
      <3> QED BY <3>1, <3>2, <3>3, <3>4, <3>5, Zenon DEF ProgramTypes
    <2>2. StringsOwned
      BY <1>5, <1>7 DEF StringsOwned
    <2>3. StringsKept
      BY <1>1 DEF StringsKept
    <2> QED BY <2>1, <2>2, <2>3 DEF StringSide
  <1>12. ZoneSide
    BY <1>5, <1>8, <1>10 DEF ZoneSide, ZonesOwned
  <1>13. BufferSide
    <2>1. NoBuffer \in Buffers /\ NoBuffer.data = Null
      BY BuffersAssumption DEF NoBuffer, Buffers, Place
    <2>2. wantLines = [i \in 1..Len(wantLines) |-> wantLines[i]] /\ Len(wantLines) \in Nat
      BY <1>2, NoTexts
    <2>3. BufferTypes
      <3>1. bytesOpen \in BOOLEAN /\ linesOpen \in BOOLEAN /\ misread \in BOOLEAN
        BY <1>2, Zenon
      <3>2. want \in Seq(Bytes) /\ slice \in Nat
        BY <1>2, EmptySeq
      <3>3. bytes \in Buffers /\ lines \in Buffers
        BY <1>2, <2>1, Zenon
      <3> QED BY <2>2, <3>1, <3>2, <3>3, Zenon DEF BufferTypes
    <2>4. BuffersOwned /\ BytesHeld /\ LinesHeld
      BY <1>2, <1>5, <2>1 DEF BuffersOwned, BytesHeld, LinesHeld
    <2> QED BY <2>3, <2>4 DEF BufferSide
  <1>14. CallSide
    <2>1. Idle.op = "none"
      BY DEF Idle
    <2> QED BY <1>3, <1>9, <1>10, <2>1 DEF CallSide, CallSpare
  <1>15. Counted
    <2>1. LinkNodes = 0
      BY <1>4, <1>8, <1>10 DEF LinkNodes
    <2>2. HandleNodes = 0
      <3>1. HandleNodes = 2 * Cardinality({})
        BY <1>9, Zenon DEF HandleNodes
      <3> QED BY <3>1, <1>10
    <2>3. Headers = 0
      BY <1>2 DEF Headers
    <2> QED BY <1>4, <2>1, <2>2, <2>3 DEF Counted
  <1> QED BY <1>4, <1>11, <1>12, <1>13, <1>14, <1>15, OInvParts

\* Every operation on sockets keeps OInv.
LEMMA NetOwned ==
  ASSUME OInv, NetNext(Var), UNCHANGED bufferVars
  PROVE  OInv'
  <1>1. ASSUME UNCHANGED notFds PROVE OInv'
    <2>1. CallSide /\ UNCHANGED <<heapVars, handle, call, mine>>
      BY <1>1, OInvParts DEF notFds, heapVars
    <2>2. CallSide'
      BY <2>1 DEF CallSide, CallSpare, Spare, HasHandle
    <2> QED BY <2>1, <2>2, HeapUntouched
  <1>2. ASSUME NEW i, NEW kind, NEW host, NEW port, NEW fails, OpenSocket(i, kind, host, port, fails)
        PROVE  OInv'
    BY <1>1, <1>2 DEF OpenSocket
  <1>3. ASSUME NEW l, NEW i, cn_net_accept(l, i) PROVE OInv'
    BY <1>1, <1>3 DEF cn_net_accept
  <1>4. ASSUME NEW i, cn_net_close(i) PROVE OInv'
    BY <1>1, <1>4 DEF cn_net_close
  <1>5. CASE \E i \in Sock, v \in Var, text \in Texts \cup {<<>>}, a \in Addr, node \in BOOLEAN :
               cn_net_recv_chunk(i, v, text, a, node)
    BY <1>5, RecvStep
  <1>6. CASE \E i \in Sock, a \in Addr : cn_net_recv_fails(i, a)
    BY <1>6, RecvFailsStep
  <1>7. CASE \E i \in Sock, v, w \in Var, text \in Texts, a \in Addr, b \in Addr \cup {Null},
                nodeA, nodeB \in BOOLEAN :
               cn_net_udp_recv_from(i, v, w, text, a, b, nodeA, nodeB)
    BY <1>7, PacketStep
  <1> QED BY <1>2, <1>3, <1>4, <1>5, <1>6, <1>7, Zenon
          DEF NetNext, cn_net_tcp_connect, cn_net_tcp_listen, cn_net_udp_bind

\* Every step keeps OInv.
LEMMA NextOwned == ASSUME OInv, HInv, CInv, [WholeNext]_vars PROVE OInv'
  <1>1. CASE UNCHANGED vars
    <2>1. CallSide /\ UNCHANGED <<heapVars, bufferVars, handle, call, mine>>
      BY <1>1, OInvParts DEF vars, heapVars, ipcVars
    <2>2. CallSide'
      BY <2>1 DEF CallSide, CallSpare, Spare, HasHandle
    <2> QED BY <2>1, <2>2, HeapUntouched
  <1>2. CASE (StringNext(Var) \/ ZoneNext) /\ Between
    BY <1>2, StringsOwnedNext
  <1>3. CASE (BytesNext(Var) \/ LinesNext(Var)) /\ call = Idle /\ UNCHANGED notBuffers
    BY <1>3, BytesOwned, LinesOwned
  <1>4. CASE (TalkNext(Kid, Var) \/ LifeNext(Kid) \/ CallStep) /\ UNCHANGED notIpc
    BY <1>4, TalkOwned, LifeOwned, StepOwned
  <1>5. CASE (\E k \in Kid : KidNext(k) \/ KidStops(k)) /\ UNCHANGED notIpc
    BY <1>5, KidOwned
  <1>6. CASE NetNext(Var) /\ UNCHANGED <<bufferVars, part>>
    BY <1>6, NetOwned
  <1> QED BY <1>1, <1>2, <1>3, <1>4, <1>5, <1>6, Zenon DEF WholeNext

\* Each block of the heap has the owner that releases it and the contents the program
\* was told of, whichever operations of strings, zones, buffers, children and sockets
\* follow each other and whichever allocations fail (core.c, bytes.c, text.c, lines.c,
\* net.c, native_runtime.c).
THEOREM OwnershipInvariance == WholeSpec => []OInv
  <1>1. OInv /\ HInv /\ CInv /\ [WholeNext]_vars => OInv'
    BY NextOwned
  <1> QED BY <1>1, InitOwned, TableInvariance, CallInvariance, PTL DEF WholeSpec

\* No operation of the runtime leaks a block or frees one twice, for any heap: every
\* block is on the list of strings, in one open zone, in one buffer or part of a handle.
THEOREM BlocksHaveOwners == Spec => []EveryBlockHasAnOwner
  <1>1. [Next]_vars => [WholeNext]_vars
    BY NextIsPartOfWhole
  <1>2. OInv => EveryBlockHasAnOwner
    BY DEF OInv
  <1> QED BY <1>1, <1>2, OwnershipInvariance, PTL DEF Spec, WholeSpec

\* A string the program owns stays allocated and keeps its text until the program
\* frees it, whatever the runtime does with the list of strings (cn_free_str in core.c).
THEOREM StringsStayLive == Spec => []OwnedStringsLive
  <1>1. [Next]_vars => [WholeNext]_vars
    BY NextIsPartOfWhole
  <1>2. OInv => OwnedStringsLive
    BY DEF OInv, StringsKept, OwnedStringsLive
  <1> QED BY <1>1, <1>2, OwnershipInvariance, PTL DEF Spec, WholeSpec

\* What OInv says of the buffers is what BuffersAgree asks for.
LEMMA HeldAgree == OInv => BuffersAgree
  <1> SUFFICES ASSUME OInv PROVE BuffersAgree
    OBVIOUS
  <1>1. BufferSide
    BY OInvParts
  <1>2. misread \/ (bytesOpen =>
          /\ bytes.length <= bytes.capacity
          /\ SubSeq(heap.mem[bytes.data], 1, bytes.length) = want)
    BY <1>1 DEF BufferSide, BytesHeld
  <1>3. ASSUME linesOpen
        PROVE  /\ lines.length <= lines.capacity
               /\ [i \in DOMAIN Items |-> heap.mem[Items[i]]] = wantLines
    <2>1. DOMAIN Items = 1..lines.length
      BY <1>1, <1>3, ItemsFacts
    <2>2. /\ lines.length <= lines.capacity /\ lines.length = Len(wantLines)
          /\ \A i \in 1..lines.length : heap.mem[Items[i]] = wantLines[i]
      BY <1>1, <1>3 DEF BufferSide, LinesHeld
    <2>3. wantLines = [i \in 1..Len(wantLines) |-> wantLines[i]]
      BY <1>1 DEF BufferSide, BufferTypes
    <2>4. [i \in 1..lines.length |-> heap.mem[Items[i]]] = [i \in 1..lines.length |-> wantLines[i]]
      BY <2>2
    <2> QED BY <2>1, <2>2, <2>3, <2>4
  <1> QED BY <1>2, <1>3 DEF BuffersAgree

\* The byte and line buffers hold what was stored in them through every growth, move,
\* insertion and removal, for every capacity (bytes.c, lines.c).
THEOREM BuffersKeepContents == Spec => []BuffersAgree
  <1>1. [Next]_vars => [WholeNext]_vars
    BY NextIsPartOfWhole
  <1> QED BY <1>1, HeldAgree, OwnershipInvariance, PTL DEF Spec, WholeSpec

\* The three invariants give the types.
LEMMA TypesFollow == HInv /\ CInv /\ OInv => TypeOK
  <1> SUFFICES ASSUME HInv, CInv, OInv PROVE TypeOK
    OBVIOUS
  <1>1. HeapTypeOK
    <2>1. GoodHeap(heap) /\ ProgramTypes
      BY OInvParts DEF StringSide
    <2>2. heap.block \in [Addr -> Kinds] /\ heap.nodes \in Nat /\ heap.str_head \in Seq(Addr)
      BY <2>1, GoodHeapTypes
    <2>3. \A i \in DOMAIN zones : zones[i].null \in BOOLEAN /\ zones[i].blocks \in Seq(Addr)
      <3>1. \A i \in DOMAIN zones : zones[i] \in Zone
        BY <2>1, ZoneTypes
      <3> QED BY <3>1 DEF Zone
    <2> QED BY <2>1, <2>2, <2>3 DEF HeapTypeOK, ProgramTypes
  <1>2. BuffersTypeOK
    BY OInvParts DEF BufferSide, BufferTypes, Buffers, BuffersTypeOK
  <1>3. IpcTypeOK
    <2>1. \A k \in Kid : kids[k].st \in {"none", "run", "zombie", "reaped"}
      BY DEF CInv, KidTypes
    <2>2. \A p \in Kid \X Streams : Len(pipe[p]) <= PipeCap
      BY DEF CInv, PipeTypes
    <2>3. \A k \in Kid, s \in Streams : handle[k][s] \in Fd \cup {-1}
      BY DEF HInv, TableTypes, Handles, FdOrNone, Streams
    <2>4. calls \in 0..MaxCalls
      BY DEF CInv, CallTypes
    <2>5. call # Idle => (call.phase = "read" => Len(call.got) <= call.max)
      <3>1. call \in Waiting => call.phase = "exit"
        BY DEF Waiting
      <3> QED BY <3>1 DEF CInv, CallTypes
    <2> QED BY <2>1, <2>2, <2>3, <2>4, <2>5 DEF IpcTypeOK
  <1>4. NetTypeOK
    BY DEF HInv, TableTypes, FdOrNone, NetTypeOK
  <1> QED BY <1>1, <1>2, <1>3, <1>4 DEF TypeOK

\* The state of the runtime is well typed: descriptors in handles and sockets, blocks
\* in the lists, contents of buffers and pipes within their limits.
THEOREM RuntimeTypes == Spec => []TypeOK
  <1>1. [Next]_vars => [WholeNext]_vars
    BY NextIsPartOfWhole
  <1> QED BY <1>1, TypesFollow, TableInvariance, CallInvariance, OwnershipInvariance, PTL DEF Spec, WholeSpec
=============================================================================
