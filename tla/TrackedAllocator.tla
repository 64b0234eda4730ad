--------------------------- MODULE TrackedAllocator ---------------------------
(***************************************************************************)
(* The tracking allocator every stage of the compiler allocates from       *)
(* (src/src/support/memory.c).  Each block is surrounded by guard bytes    *)
(* and described by a record; live records are on a list and in a hash     *)
(* table keyed by the payload pointer, released ones stay poisoned in a    *)
(* bounded quarantine with a table of its own.  A misuse found by any call *)
(* reports a code and calls abort().                                       *)
(*                                                                         *)
(* Abstractions.  The heap is the addresses 1..HeapSize and malloc() is    *)
(* any placement that overlaps no chunk the C library has handed out.  The *)
(* bytes of a block are reduced to three facts: the head guard is intact,  *)
(* the tail guard is intact, the payload still holds the freed poison.     *)
(* The live list and the bucket chains are sets (only membership is ever   *)
(* asked of them); the quarantine list keeps its order, oldest first.      *)
(* abort() ends the process, so an aborting call leaves the rest of the    *)
(* state as it found it.                                                   *)
(***************************************************************************)
EXTENDS Integers, Sequences, FiniteSets, FiniteSetsExt

(* Definitions named after a slip (ForgetsStorage, OverLimitWhenFull, ...) are *)
(* the mutants the properties are tried against; no action uses them.          *)

CONSTANTS
  Record,       \* the cn_mem_record objects the C library can provide
  HeapSize,     \* addresses are 1..HeapSize; 0 is NULL
  Prefix,       \* cn_memory_prefix_size()
  TailSize,     \* cn_memory_tail_size()
  SizeMax,      \* SIZE_MAX
  BlockLimit,   \* CN_MEM_QUARANTINE_BLOCK_LIMIT
  ByteLimit,    \* CN_MEM_QUARANTINE_BYTE_LIMIT
  InitCapacity, \* the 16 buckets a table starts with
  Hash(_),      \* cn_ptr_hash
  Sizes,        \* the sizes and counts callers ask for
  MaxReleases   \* bound: releases between two destroys

VARIABLES
  rec,                     \* the contents of the records
  head,                    \* the live list, as a set
  freed,                   \* freed_tail .. freed_head: oldest release first
  buckets, bucket_capacity,
  freed_buckets, freed_bucket_capacity,
  live_blocks, live_bytes, peak_bytes,
  quarantine_blocks, quarantine_bytes,
  held,                    \* chunks the C library has handed out
  pc,                      \* "ready", "evict" inside free(), or an abort code
  history                  \* history variable: block sizes in the order of release

tables   == <<buckets, bucket_capacity, freed_buckets, freed_bucket_capacity>>
counters == <<live_blocks, live_bytes, peak_bytes,
              quarantine_blocks, quarantine_bytes>>
vars     == <<rec, head, freed, tables, counters, held, pc, history>>

NULL == 0
Addr == 1..HeapSize

\* What a code reports (docs/error-messages.md, R4xxx).
AbortCode == {"R4001", "R4002", "R4003", "R4006", "R4008", "R4009",
              "R4010", "R4011", "R4013", "R4016", "R4017"}

\* Each block costs its guards as well as its payload.
Total(size) == Prefix + size + TailSize

Block == [base : Nat, size : Nat,
          head_ok : BOOLEAN, tail_ok : BOOLEAN, poisoned : BOOLEAN]
Blank == [base |-> 0, size |-> 0,
          head_ok |-> TRUE, tail_ok |-> TRUE, poisoned |-> FALSE]

FreedRecords == {freed[i] : i \in DOMAIN freed}
Tracked == head \cup FreedRecords

Ptr(r)   == rec[r].base + Prefix
Chunk(r) == [base |-> rec[r].base, len |-> Total(rec[r].size)]

GuardsOK(r) == rec[r].head_ok /\ rec[r].tail_ok
Damaged(r)  == ~GuardsOK(r) \/ (r \in FreedRecords /\ ~rec[r].poisoned)

-------------------------------------------------------------------------------
(* The two hash tables.                                                       *)

NoTable == [i \in {} |-> {}]

\* 16 doubled until the table is at most half full.
cn_bucket_capacity_for(required) ==
  LET grown == {InitCapacity * 2^k : k \in 0..required}
  IN  CHOOSE c \in grown :
        c >= 2 * required /\ \A d \in grown : d >= 2 * required => c <= d

cn_bucket_index_for(capacity, ptr) == Hash(ptr) % capacity

CapacityRecomputed(capacity, required) == cn_bucket_capacity_for(required)

CapacityAfter(capacity, required) ==
  IF capacity >= 2 * required /\ capacity # 0
  THEN capacity
  ELSE cn_bucket_capacity_for(required)

RehashDropsRecords(list, table, capacity, required) ==
  IF capacity >= 2 * required /\ capacity # 0
  THEN table
  ELSE [i \in 0..CapacityAfter(capacity, required) - 1 |-> {}]

\* The table is rebuilt from the list when it has to grow.
cn_rehash_records(list, table, capacity, required) ==
  LET after == CapacityAfter(capacity, required)
  IN  IF capacity >= 2 * required /\ capacity # 0
      THEN table
      ELSE [i \in 0..after - 1 |->
              {r \in list : cn_bucket_index_for(after, Ptr(r)) = i}]

cn_find_record_in_buckets(table, capacity, ptr) ==
  IF capacity = 0 THEN {}
  ELSE {r \in table[cn_bucket_index_for(capacity, ptr)] : Ptr(r) = ptr}

ContainsOnePastEnd(list, ptr) ==
  {r \in list : Ptr(r) < ptr /\ ptr <= Ptr(r) + rec[r].size}

cn_find_containing_record_in_list(list, ptr) ==
  {r \in list : Ptr(r) < ptr /\ ptr < Ptr(r) + rec[r].size}

cn_bucket_remove_record(table, capacity, r, ptr) ==
  [table EXCEPT ![cn_bucket_index_for(capacity, ptr)] = @ \ {r}]

cn_bucket_insert_record(table, capacity, r, ptr) ==
  [table EXCEPT ![cn_bucket_index_for(capacity, ptr)] = @ \cup {r}]

\* The constants are sizes; a hash is a number; doubling reaches a capacity for
\* as many blocks as there can be records.
ASSUME SizesAssumption ==
  /\ HeapSize \in Nat /\ Prefix \in Nat /\ TailSize \in Nat /\ SizeMax \in Nat
  /\ BlockLimit \in Nat /\ ByteLimit \in Nat /\ MaxReleases \in Nat
  /\ Sizes \subseteq Nat

ASSUME HashAssumption == \A p \in Addr : Hash(p) \in Nat

ASSUME RecordAssumption ==
  /\ IsFiniteSet(Record)
  /\ \A n \in 1..Cardinality(Record) : cn_bucket_capacity_for(n) \in Nat \ {0}

-------------------------------------------------------------------------------
(* The C library's heap.                                                      *)

Apart(base, len, chunks) ==
  \A c \in chunks : base + len <= c.base \/ c.base + c.len <= base

malloc(len) ==
  {b \in Addr : b + len <= HeapSize + 1 /\ Apart(b, len, held)}

\* realloc() keeps the chunk where it is or moves it elsewhere.
realloc(old, len) ==
  {b \in Addr : /\ b + len <= HeapSize + 1
                /\ Apart(b, len, held \ {old})
                /\ b = old.base \/ Apart(b, len, {old})}

-------------------------------------------------------------------------------
(* Guard checks.                                                              *)

cn_memory_fail_code(code) ==
  /\ pc' = code
  /\ UNCHANGED <<rec, head, freed, tables, counters, held, history>>

\* The head guard is compared first.
cn_record_verify_guards(r) ==
  IF ~rec[r].head_ok THEN "R4017" ELSE IF ~rec[r].tail_ok THEN "R4016" ELSE "ok"

cn_record_verify_quarantine(r) ==
  IF GuardsOK(r) /\ ~rec[r].poisoned THEN "R4013" ELSE cn_record_verify_guards(r)

Peak(bytes) == IF bytes > peak_bytes THEN bytes ELSE peak_bytes

-------------------------------------------------------------------------------
(* Allocation.                                                                *)

cn_record_create(r, base, size) ==
  rec' = [rec EXCEPT ![r] =
            [base |-> base, size |-> size,
             head_ok |-> TRUE, tail_ok |-> TRUE, poisoned |-> FALSE]]

\* A request of no bytes still gets a block of one.
ActualSize(size) == IF size = 0 THEN 1 ELSE size

AllocRecord(r, base, n) ==
  LET required == live_blocks + 1
      capacity == CapacityAfter(bucket_capacity, required)
      table    == cn_rehash_records(head, buckets, bucket_capacity, required)
  IN  /\ cn_record_create(r, base, n)
      /\ head' = head \cup {r}
      /\ bucket_capacity' = capacity
      /\ buckets' = cn_bucket_insert_record(table, capacity, r, base + Prefix)
      /\ live_blocks' = required
      /\ live_bytes' = live_bytes + n
      /\ peak_bytes' = Peak(live_bytes + n)
      /\ held' = held \cup {[base |-> base, len |-> Total(n)]}
      /\ UNCHANGED <<freed, freed_buckets, freed_bucket_capacity,
                     quarantine_blocks, quarantine_bytes, pc, history>>

cn_alloc_impl(size) ==
  LET n == ActualSize(size)
  IN  \/ /\ Total(n) > SizeMax
         /\ cn_memory_fail_code("R4006")
      \/ /\ Total(n) <= SizeMax
         /\ \/ cn_memory_fail_code("R4001")
            \/ \E base \in malloc(Total(n)), r \in Record \ Tracked :
                 AllocRecord(r, base, n)

\* The memset() of count * size bytes stays inside the payload just poisoned.
cn_calloc_impl(count, size) ==
  IF count * size > SizeMax
  THEN cn_memory_fail_code("R4006")
  ELSE cn_alloc_impl(count * size)

\* length + 1 is computed in a size_t.
cn_strndup_impl(length) == cn_alloc_impl((length + 1) % (SizeMax + 1))

-------------------------------------------------------------------------------
(* Reallocation: the record keeps its identity and changes its pointer.       *)

\* The record of a block that the C library resized, and maybe moved.
ReallocRecord(r, ptr, n) ==
  \E base \in realloc(Chunk(r), Total(n)) :
    LET without == cn_bucket_remove_record(buckets, bucket_capacity, r, ptr)
        bytes   == live_bytes - rec[r].size + n
    IN  /\ cn_record_create(r, base, n)
        /\ buckets' = cn_bucket_insert_record(without, bucket_capacity, r, base + Prefix)
        /\ live_bytes' = bytes
        /\ peak_bytes' = Peak(bytes)
        /\ held' = (held \ {Chunk(r)}) \cup {[base |-> base, len |-> Total(n)]}
        /\ UNCHANGED <<head, freed, bucket_capacity, freed_buckets,
                       freed_bucket_capacity, live_blocks, quarantine_blocks,
                       quarantine_bytes, pc, history>>

cn_realloc_impl(ptr, size) ==
  LET n      == ActualSize(size)
      found  == cn_find_record_in_buckets(buckets, bucket_capacity, ptr)
      lapsed == cn_find_record_in_buckets(freed_buckets, freed_bucket_capacity, ptr)
  IN  \/ /\ ptr = NULL
         /\ cn_alloc_impl(size)
      \/ /\ ptr # NULL
         /\ found = {}
         /\ cn_memory_fail_code(IF lapsed # {} THEN "R4013" ELSE "R4002")
      \/ /\ ptr # NULL
         /\ \E r \in found :
              \/ /\ ~GuardsOK(r)
                 /\ cn_memory_fail_code(cn_record_verify_guards(r))
              \/ /\ GuardsOK(r)
                 /\ Total(n) > SizeMax
                 /\ cn_memory_fail_code("R4009")
              \/ /\ GuardsOK(r)
                 /\ Total(n) <= SizeMax
                 /\ cn_memory_fail_code("R4008")
              \/ /\ GuardsOK(r)
                 /\ Total(n) <= SizeMax
                 /\ ReallocRecord(r, ptr, n)

cn_realloc_mul_impl(ptr, left, right) ==
  IF left * right > SizeMax
  THEN cn_memory_fail_code("R4009")
  ELSE cn_realloc_impl(ptr, left * right)

-------------------------------------------------------------------------------
(* Release and quarantine.                                                    *)

OverLimitWhenFull(blocks, bytes) == blocks >= BlockLimit \/ bytes > ByteLimit

\* The eviction loop goes on while either limit is exceeded.
OverLimit(blocks, bytes) == blocks > BlockLimit \/ bytes > ByteLimit

\* Both the release and each eviction end by testing the loop's condition.
LoopTest ==
  pc' = IF OverLimit(quarantine_blocks', quarantine_bytes') /\ freed' # <<>>
        THEN "evict" ELSE "ready"

cn_allocator_move_to_quarantine(r) ==
  LET required == quarantine_blocks + 1
      capacity == CapacityAfter(freed_bucket_capacity, required)
      table    == cn_rehash_records(FreedRecords, freed_buckets,
                                    freed_bucket_capacity, required)
  IN  /\ rec' = [rec EXCEPT ![r].poisoned = TRUE]
      /\ freed' = Append(freed, r)
      /\ freed_bucket_capacity' = capacity
      /\ freed_buckets' = cn_bucket_insert_record(table, capacity, r, Ptr(r))
      /\ quarantine_blocks' = required
      /\ quarantine_bytes' = quarantine_bytes + rec[r].size
      /\ LoopTest

FreeKeepsLiveBytes(r, ptr) ==
  /\ Len(history) < MaxReleases
  /\ head' = head \ {r}
  /\ buckets' = cn_bucket_remove_record(buckets, bucket_capacity, r, ptr)
  /\ live_blocks' = live_blocks - 1
  /\ cn_allocator_move_to_quarantine(r)
  /\ history' = Append(history, rec[r].size)
  /\ UNCHANGED <<bucket_capacity, live_bytes, peak_bytes, held>>

FreeRecord(r, ptr) ==
  /\ Len(history) < MaxReleases
  /\ head' = head \ {r}
  /\ buckets' = cn_bucket_remove_record(buckets, bucket_capacity, r, ptr)
  /\ live_blocks' = live_blocks - 1
  /\ live_bytes' = live_bytes - rec[r].size
  /\ cn_allocator_move_to_quarantine(r)
  /\ history' = Append(history, rec[r].size)
  /\ UNCHANGED <<bucket_capacity, peak_bytes, held>>

\* free(NULL) returns at once and is left out.
cn_free_impl(ptr) ==
  LET found    == cn_find_record_in_buckets(buckets, bucket_capacity, ptr)
      lapsed   == cn_find_record_in_buckets(freed_buckets, freed_bucket_capacity, ptr)
      interior == cn_find_containing_record_in_list(Tracked, ptr)
  IN  \/ /\ found = {}
         /\ cn_memory_fail_code(CASE lapsed # {}   -> "R4010"
                                  [] lapsed = {} /\ interior # {} -> "R4011"
                                  [] OTHER         -> "R4003")
      \/ \E r \in found :
           \/ /\ ~GuardsOK(r)
              /\ cn_memory_fail_code(cn_record_verify_guards(r))
           \/ /\ GuardsOK(r) \* no memory for a larger table of released blocks
              /\ CapacityAfter(freed_bucket_capacity, quarantine_blocks + 1)
                   # freed_bucket_capacity
              /\ cn_memory_fail_code("R4001")
           \/ /\ GuardsOK(r)
              /\ FreeRecord(r, ptr)

\* The record and its storage go back to the C library together.
ForgetsStorage(r) ==
  /\ held' = held
  /\ rec' = [rec EXCEPT ![r] = Blank]

cn_record_release_storage(r) ==
  /\ held' = held \ {Chunk(r)}
  /\ rec' = [rec EXCEPT ![r] = Blank]

EvictRecord(r) ==
  /\ freed_buckets' = cn_bucket_remove_record(freed_buckets,
                         freed_bucket_capacity, r, Ptr(r))
  /\ freed' = Tail(freed)
  /\ quarantine_blocks' = quarantine_blocks - 1
  /\ quarantine_bytes' = quarantine_bytes - rec[r].size
  /\ cn_record_release_storage(r)
  /\ LoopTest
  /\ UNCHANGED <<head, buckets, bucket_capacity, freed_bucket_capacity,
                 live_blocks, live_bytes, peak_bytes, history>>

EvictUnverified == EvictRecord(Head(freed))

\* One turn of the loop of cn_allocator_evict_quarantine: verify, then release.
cn_allocator_evict_quarantine ==
  LET r == Head(freed)
  IN  \/ /\ Damaged(r)
         /\ cn_memory_fail_code(cn_record_verify_quarantine(r))
      \/ /\ ~Damaged(r)
         /\ EvictRecord(r)

-------------------------------------------------------------------------------
(* The end of an allocator's life.                                            *)

\* The live blocks are verified before the quarantined ones.
cn_allocator_destroy ==
  \/ \E r \in head : /\ ~GuardsOK(r)
                     /\ cn_memory_fail_code(cn_record_verify_guards(r))
  \/ /\ \A r \in head : GuardsOK(r)
     /\ \E r \in FreedRecords :
          /\ Damaged(r)
          /\ cn_memory_fail_code(cn_record_verify_quarantine(r))
  \/ /\ \A r \in Tracked : ~Damaged(r)
     /\ held' = held \ {Chunk(r) : r \in Tracked}
     /\ rec' = [r \in Record |-> Blank]
     /\ head' = {}
     /\ freed' = <<>>
     /\ buckets' = NoTable
     /\ freed_buckets' = NoTable
     /\ bucket_capacity' = 0
     /\ freed_bucket_capacity' = 0
     /\ live_blocks' = 0
     /\ live_bytes' = 0
     /\ quarantine_blocks' = 0
     /\ quarantine_bytes' = 0
     /\ history' = <<>>
     /\ UNCHANGED <<peak_bytes, pc>>

\* A leak report verifies the guards of what it lists.
cn_allocator_dump_leaks ==
  /\ live_blocks # 0
  /\ \E r \in head : /\ ~GuardsOK(r)
                     /\ cn_memory_fail_code(cn_record_verify_guards(r))

-------------------------------------------------------------------------------
(* The client: a store through some pointer that changes the byte it hits.    *)

Hit(r, a) ==
  LET b == rec[r]
  IN  [b EXCEPT
        !.head_ok  = @ /\ ~(b.base <= a /\ a < Ptr(r)),
        !.tail_ok  = @ /\ ~(Ptr(r) + b.size <= a /\ a < b.base + Total(b.size)),
        !.poisoned = @ /\ ~(Ptr(r) <= a /\ a < Ptr(r) + b.size)]

ClientStore(a) ==
  /\ rec' = [r \in Record |-> IF r \in Tracked THEN Hit(r, a) ELSE rec[r]]
  /\ UNCHANGED <<head, freed, tables, counters, held, pc, history>>

-------------------------------------------------------------------------------

cn_allocator_init ==
  /\ rec = [r \in Record |-> Blank]
  /\ head = {}
  /\ freed = <<>>
  /\ buckets = NoTable
  /\ freed_buckets = NoTable
  /\ bucket_capacity = 0
  /\ freed_bucket_capacity = 0
  /\ live_blocks = 0
  /\ live_bytes = 0
  /\ peak_bytes = 0
  /\ quarantine_blocks = 0
  /\ quarantine_bytes = 0
  /\ held = {}
  /\ pc = "ready"
  /\ history = <<>>

Call ==
  \/ \E n \in Sizes : cn_alloc_impl(n)
  \/ \E c, n \in Sizes : cn_calloc_impl(c, n)
  \/ \E n \in Sizes \ {SizeMax} : cn_strndup_impl(n) \* no text has SIZE_MAX bytes
  \/ \E p \in Addr \cup {NULL}, l, n \in Sizes : cn_realloc_mul_impl(p, l, n)
  \/ \E p \in Addr : cn_free_impl(p)
  \/ \E a \in Addr : ClientStore(a)
  \/ cn_allocator_dump_leaks
  \/ cn_allocator_destroy

Next ==
  \/ pc = "ready" /\ Call
  \/ pc = "evict" /\ cn_allocator_evict_quarantine

Spec == cn_allocator_init /\ [][Next]_vars

-------------------------------------------------------------------------------
(* Properties.                                                                *)

Bytes(S) == MapThenSumSet(LAMBDA r : rec[r].size, S)

\* Type correctness of the allocator's fields.
TypeOK ==
  /\ rec \in [Record -> Block]
  /\ head \subseteq Record
  /\ freed \in Seq(Record)
  /\ bucket_capacity \in Nat
  /\ buckets \in [0..bucket_capacity - 1 -> SUBSET Record]
  /\ freed_bucket_capacity \in Nat
  /\ freed_buckets \in [0..freed_bucket_capacity - 1 -> SUBSET Record]
  /\ live_blocks \in Nat /\ live_bytes \in Int /\ peak_bytes \in Int
  /\ quarantine_blocks \in Nat /\ quarantine_bytes \in Int
  /\ held \subseteq [base : Nat, len : Nat]
  /\ pc \in {"ready", "evict"} \cup AbortCode
  /\ history \in Seq(Nat)

\* Looking a pointer up in a table gives the record of the matching list with
\* that pointer, through every growth of the table and every move by realloc.
LookupExact ==
  \A p \in Addr :
    /\ cn_find_record_in_buckets(buckets, bucket_capacity, p)
         = {r \in head : Ptr(r) = p}
    /\ cn_find_record_in_buckets(freed_buckets, freed_bucket_capacity, p)
         = {r \in FreedRecords : Ptr(r) = p}

\* The storage the allocator holds is exactly that of its records, one chunk
\* each: nothing quarantined has gone back to the C library, nothing evicted
\* is kept, and no two blocks share a byte.
StorageMatchesRecords ==
  /\ held = {Chunk(r) : r \in Tracked}
  /\ head \cap FreedRecords = {}
  /\ \A i, j \in DOMAIN freed : freed[i] = freed[j] => i = j
  /\ \A r, s \in Tracked :
       r # s => Apart(rec[r].base, Total(rec[r].size), {Chunk(s)})

\* The counters that the leak report prints and the eviction loop tests agree
\* with the lists.
Accounting ==
  /\ live_blocks = Cardinality(head)
  /\ live_bytes = Bytes(head)
  /\ live_bytes <= peak_bytes
  /\ quarantine_blocks = Len(freed)
  /\ quarantine_bytes = Bytes(FreedRecords)

\* Between calls the quarantine is the longest run of most recent releases
\* that fits both limits: a double free or a late store of any of those is
\* still recognised, however the two limits interacted on the way.
SuffixBytes(k) ==
  MapThenSumSet(LAMBDA i : history[i], Len(history) - k + 1 .. Len(history))

QuarantineWindow ==
  pc = "ready" =>
    LET fits == {k \in 0..Len(history) : k <= BlockLimit /\ SuffixBytes(k) <= ByteLimit}
    IN  /\ Len(freed) = Max(fits)
        /\ \A i \in DOMAIN freed :
             rec[freed[i]].size = history[Len(history) - Len(freed) + i]

\* Damage to a block (a guard overwritten, or a store into a quarantined
\* payload) is never forgotten: the block stays tracked and damaged until a
\* call aborts on it or on something else.
DamageNeverForgotten ==
  [][\A r \in Record :
       (r \in Tracked /\ Damaged(r)) =>
         \/ pc' \in AbortCode
         \/ r \in Tracked' /\ Damaged(r)']_vars

\* Why the above is preserved: blocks lie inside the heap and hold a byte,
\* each record is in the one bucket its current pointer hashes to, the block
\* counters count, and the eviction loop has something to evict.
Placed ==
  \A r \in Tracked : /\ rec[r].base \in Addr
                     /\ rec[r].size >= 1
                     /\ rec[r].base + Total(rec[r].size) <= HeapSize + 1

InItsBucket(table, capacity, list) ==
  /\ capacity = 0 => list = {}
  /\ \A i \in 0..capacity - 1, r \in Record :
       r \in table[i] <=>
         r \in list /\ cn_bucket_index_for(capacity, Ptr(r)) = i

IInv ==
  /\ TypeOK
  /\ Placed
  /\ StorageMatchesRecords
  /\ InItsBucket(buckets, bucket_capacity, head)
  /\ InItsBucket(freed_buckets, freed_bucket_capacity, FreedRecords)
  /\ live_blocks = Cardinality(head)
  /\ quarantine_blocks = Len(freed)
  /\ pc = "evict" => freed # <<>>

\* The byte counters count as well, the quarantine is the end of the history of
\* releases, no longer end of it fits the limits, and the loop that evicts is
\* entered and left on the limits.
OldestFirst ==
  /\ Len(freed) <= Len(history)
  /\ \A i \in DOMAIN freed :
       rec[freed[i]].size = history[Len(history) - Len(freed) + i]
  /\ quarantine_bytes = SuffixBytes(Len(freed))

NoneLongerFits ==
  \A k \in 0..Len(history) :
    k > Len(freed) => k > BlockLimit \/ SuffixBytes(k) > ByteLimit

AInv ==
  /\ IInv
  /\ Accounting
  /\ OldestFirst
  /\ NoneLongerFits
  /\ pc = "evict" => OverLimit(quarantine_blocks, quarantine_bytes)
  /\ pc = "ready" => ~OverLimit(quarantine_blocks, quarantine_bytes)

\* The allocator seen as plain blocks.
BlockOf(r) == [ptr |-> Ptr(r), size |-> rec[r].size]

Heap == INSTANCE CheckedHeap WITH
          live   <- {BlockOf(r) : r \in head},
          window <- [i \in DOMAIN freed |-> BlockOf(freed[i])],
          status <- pc

\* Records, tables, guards and counters implement the promise of CheckedHeap:
\* blocks never overlap a live or quarantined one, and the verdict on a
\* pointer handed back depends only on where it points.
ImplementsCheckedHeap == Heap!HeapSpec

====
