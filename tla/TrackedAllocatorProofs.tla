------------------------ MODULE TrackedAllocatorProofs ------------------------
(* Proofs about TrackedAllocator.                                            *)
EXTENDS TrackedAllocator, SetSums, SequenceTheorems

-------------------------------------------------------------------------------
(* Sequences used as queues.                                                  *)

\* Appending adds one element to what a sequence holds, at its end.
LEMMA AppendFacts ==
  ASSUME NEW S, NEW s \in Seq(S), NEW e \in S
  PROVE  /\ Append(s, e) \in Seq(S)
         /\ Len(Append(s, e)) = Len(s) + 1
         /\ DOMAIN Append(s, e) = 1..Len(s) + 1
         /\ \A i \in 1..Len(s) : Append(s, e)[i] = s[i]
         /\ Append(s, e)[Len(s) + 1] = e
  OBVIOUS

\* Taking the tail drops the first element and shifts the others.
LEMMA TailFacts ==
  ASSUME NEW S, NEW s \in Seq(S), s # <<>>
  PROVE  /\ Tail(s) \in Seq(S)
         /\ Len(Tail(s)) = Len(s) - 1
         /\ Len(s) \in Nat \ {0}
         /\ DOMAIN Tail(s) = 1..Len(s) - 1
         /\ \A i \in 1..Len(s) - 1 : Tail(s)[i] = s[i + 1]
         /\ Head(s) = s[1]
         /\ Head(s) \in S
  OBVIOUS

-------------------------------------------------------------------------------
(* The hash tables.                                                           *)

\* Every pointer hashes to a bucket of the table.
LEMMA IndexInTable ==
  ASSUME NEW capacity \in Nat \ {0}, NEW p \in Addr
  PROVE  cn_bucket_index_for(capacity, p) \in 0..capacity - 1
  BY HashAssumption DEF cn_bucket_index_for

\* Growing a table, or leaving it alone, keeps every record of the list in the
\* bucket its pointer hashes to.
LEMMA RehashKeeps ==
  ASSUME TypeOK, NEW list \in SUBSET Record, NEW capacity \in Nat,
         NEW table \in [0..capacity - 1 -> SUBSET Record],
         InItsBucket(table, capacity, list),
         NEW required \in 1..Cardinality(Record)
  PROVE  LET after == CapacityAfter(capacity, required)
             t     == cn_rehash_records(list, table, capacity, required)
         IN  /\ after \in Nat \ {0}
             /\ t \in [0..after - 1 -> SUBSET Record]
             /\ InItsBucket(t, after, list)
  <1> DEFINE after == CapacityAfter(capacity, required)
             t     == cn_rehash_records(list, table, capacity, required)
  <1>1. CASE capacity >= 2 * required /\ capacity # 0
    <2>1. after = capacity /\ t = table
      BY <1>1 DEF CapacityAfter, cn_rehash_records
    <2> QED
      BY <1>1, <2>1
  <1>2. CASE ~(capacity >= 2 * required /\ capacity # 0)
    <2>1. after = cn_bucket_capacity_for(required)
      BY <1>2 DEF CapacityAfter
    <2>2. after \in Nat \ {0}
      BY <2>1, RecordAssumption
    <2>3. t = [i \in 0..after - 1 |->
                 {r \in list : cn_bucket_index_for(after, Ptr(r)) = i}]
      BY <1>2 DEF cn_rehash_records
    <2> HIDE DEF after, t
    <2>4. t \in [0..after - 1 -> SUBSET Record]
      BY <2>3
    <2>5. InItsBucket(t, after, list)
      BY <2>2, <2>3 DEF InItsBucket
    <2> QED
      BY <2>2, <2>4, <2>5 DEF after, t
  <1> QED
    BY <1>1, <1>2

\* A list with room for one more record.
LEMMA RoomForOne ==
  ASSUME NEW S \in SUBSET Record, NEW r \in Record \ S
  PROVE  /\ Cardinality(S) \in Nat
         /\ Cardinality(S \cup {r}) = Cardinality(S) + 1
         /\ Cardinality(S) + 1 \in 1..Cardinality(Record)
  <1>1. IsFiniteSet(S) /\ IsFiniteSet(S \cup {r}) /\ Cardinality(S) \in Nat
    BY RecordAssumption, FS_Subset, FS_CardinalityType, FS_AddElement
  <1>2. Cardinality(S \cup {r}) = Cardinality(S) + 1
    BY <1>1, FS_AddElement
  <1>3. Cardinality(S \cup {r}) <= Cardinality(Record)
    BY RecordAssumption, FS_Subset
  <1>4. Cardinality(Record) \in Nat
    BY RecordAssumption, FS_CardinalityType
  <1> QED
    BY <1>1, <1>2, <1>3, <1>4

-------------------------------------------------------------------------------
(* The inductive invariant, one lemma per kind of step.                       *)

\* What the invariant says of a tracked record, in one place.
LEMMA RecordFacts ==
  ASSUME IInv
  PROVE  /\ FreedRecords \in SUBSET Record
         /\ Tracked \in SUBSET Record
         /\ \A r \in Tracked : /\ rec[r].base \in Addr
                                /\ rec[r].size \in Nat
                                /\ Ptr(r) \in Addr
  <1>1. FreedRecords \in SUBSET Record
    BY DEF IInv, TypeOK, FreedRecords
  <1>2. Tracked \in SUBSET Record
    BY <1>1 DEF IInv, TypeOK, Tracked
  <1>3. ASSUME NEW r \in Tracked
        PROVE  rec[r].base \in Addr /\ rec[r].size \in Nat /\ Ptr(r) \in Addr
    <2>1. rec[r] \in Block
      BY <1>2 DEF IInv, TypeOK
    <2> QED
      BY <2>1, SizesAssumption DEF IInv, Placed, Block, Total, Ptr, Addr
  <1> QED
    BY <1>1, <1>2, <1>3

\* An abort changes nothing but the control state.
LEMMA FailStep ==
  ASSUME IInv, NEW code \in AbortCode, cn_memory_fail_code(code)
  PROVE  IInv'
  <1> USE DEF cn_memory_fail_code, tables, counters
  <1>1. TypeOK'
    BY DEF IInv, TypeOK
  <1>2. Placed'
    BY DEF IInv, Placed, Tracked, FreedRecords
  <1>3. StorageMatchesRecords'
    BY DEF IInv, StorageMatchesRecords, Tracked, FreedRecords, Chunk, Apart
  <1>4. InItsBucket(buckets, bucket_capacity, head)'
    BY DEF IInv, InItsBucket, Ptr
  <1>5. InItsBucket(freed_buckets, freed_bucket_capacity, FreedRecords)'
    BY DEF IInv, InItsBucket, Ptr, FreedRecords
  <1>6. pc' # "evict"
    BY DEF AbortCode
  <1> QED
    BY <1>1, <1>2, <1>3, <1>4, <1>5, <1>6 DEF IInv

\* A store through a client's pointer disturbs guards and poison only.
LEMMA StoreStep ==
  ASSUME IInv, NEW a \in Addr, ClientStore(a)
  PROVE  IInv'
  <1> USE DEF ClientStore, tables, counters
  <1>1. ASSUME NEW r \in Record
        PROVE  /\ rec'[r] \in Block
               /\ rec'[r].base = rec[r].base
               /\ rec'[r].size = rec[r].size
    <2>1. rec[r] \in Block
      BY DEF IInv, TypeOK
    <2>2. Hit(r, a) \in Block /\ Hit(r, a).base = rec[r].base /\ Hit(r, a).size = rec[r].size
      BY <2>1 DEF Hit, Block
    <2>3. rec'[r] = Hit(r, a) \/ rec'[r] = rec[r]
      OBVIOUS
    <2> QED
      BY <2>1, <2>2, <2>3
  <1>2. Tracked' = Tracked /\ FreedRecords' = FreedRecords
    BY DEF Tracked, FreedRecords
  <1>3. Tracked \in SUBSET Record /\ FreedRecords \in SUBSET Record /\ head \in SUBSET Record
    BY RecordFacts DEF IInv, TypeOK
  <1>4. \A r \in Record : Ptr(r)' = Ptr(r) /\ Chunk(r)' = Chunk(r)
    BY <1>1 DEF Ptr, Chunk
  <1>5. TypeOK'
    <2>1. rec' \in [Record -> Block]
      BY <1>1
    <2> QED
      BY <2>1 DEF IInv, TypeOK
  <1>6. Placed'
    BY <1>1, <1>2, <1>3 DEF IInv, Placed
  <1>7. StorageMatchesRecords'
    <2>1. {Chunk(r)' : r \in Tracked} = {Chunk(r) : r \in Tracked}
      BY <1>3, <1>4
    <2> QED
      BY <1>1, <1>2, <1>3, <1>4, <2>1 DEF IInv, StorageMatchesRecords, Apart
  <1>8. InItsBucket(buckets, bucket_capacity, head)'
    BY <1>3, <1>4 DEF IInv, InItsBucket
  <1>9. InItsBucket(freed_buckets, freed_bucket_capacity, FreedRecords)'
    BY <1>2, <1>3, <1>4 DEF IInv, InItsBucket
  <1> QED
    BY <1>5, <1>6, <1>7, <1>8, <1>9 DEF IInv

\* A new block: the record is fresh, the chunk is apart from all others.
LEMMA AllocStep ==
  ASSUME IInv, NEW n \in Nat, n >= 1, NEW base \in malloc(Total(n)),
         NEW r \in Record \ Tracked, AllocRecord(r, base, n)
  PROVE  IInv'
  <1> DEFINE required == live_blocks + 1
             capacity == CapacityAfter(bucket_capacity, required)
             table    == cn_rehash_records(head, buckets, bucket_capacity, required)
             new      == [base |-> base, size |-> n,
                          head_ok |-> TRUE, tail_ok |-> TRUE, poisoned |-> FALSE]
  <1>1. /\ base \in Addr /\ base + Total(n) <= HeapSize + 1
        /\ Apart(base, Total(n), held)
    BY DEF malloc
  <1>2. base + Prefix \in Addr /\ Total(n) \in Nat
    BY <1>1, SizesAssumption DEF Addr, Total
  <1>3. /\ rec' = [rec EXCEPT ![r] = new]
        /\ head' = head \cup {r} /\ freed' = freed
        /\ held' = held \cup {[base |-> base, len |-> Total(n)]}
        /\ bucket_capacity' = capacity /\ live_blocks' = required
        /\ buckets' = cn_bucket_insert_record(table, capacity, r, base + Prefix)
        /\ freed_buckets' = freed_buckets
        /\ freed_bucket_capacity' = freed_bucket_capacity
        /\ quarantine_blocks' = quarantine_blocks /\ pc' = pc
        /\ UNCHANGED <<quarantine_bytes, history>>
        /\ live_bytes' = live_bytes + n /\ peak_bytes' = Peak(live_bytes + n)
    BY DEF AllocRecord, cn_record_create
  <1>4. head \in SUBSET Record /\ r \notin head /\ r \notin FreedRecords
    BY DEF IInv, TypeOK, Tracked
  <1>5. required \in 1..Cardinality(Record) /\ required = Cardinality(head \cup {r})
    BY <1>4, RoomForOne DEF IInv
  <1>6. /\ capacity \in Nat \ {0}
        /\ table \in [0..capacity - 1 -> SUBSET Record]
        /\ InItsBucket(table, capacity, head)
    <2> HIDE DEF required
    <2> QED
      BY <1>4, <1>5, RehashKeeps DEF IInv, TypeOK
  <1> HIDE DEF capacity, table
  <1>7. FreedRecords' = FreedRecords /\ Tracked' = Tracked \cup {r}
    BY <1>3 DEF FreedRecords, Tracked
  <1>8. /\ rec' \in [Record -> Block]
        /\ rec'[r] = new
        /\ \A s \in Record \ {r} : rec'[s] = rec[s]
    BY <1>1, <1>3 DEF IInv, TypeOK, Block, Addr
  <1>9. /\ Ptr(r)' = base + Prefix
        /\ Chunk(r)' = [base |-> base, len |-> Total(n)]
        /\ \A s \in Record \ {r} : Ptr(s)' = Ptr(s) /\ Chunk(s)' = Chunk(s)
    BY <1>8 DEF Ptr, Chunk
  <1>10. Tracked \in SUBSET Record /\ FreedRecords \in SUBSET Record
    BY RecordFacts
  <1>11. TypeOK'
    <2>1. cn_bucket_index_for(capacity, base + Prefix) \in 0..capacity - 1
      BY <1>2, <1>6, IndexInTable
    <2>2. buckets' \in [0..bucket_capacity' - 1 -> SUBSET Record]
      BY <1>3, <1>6, <2>1 DEF cn_bucket_insert_record
    <2>3. held' \in SUBSET [base : Nat, len : Nat]
      BY <1>1, <1>2, <1>3 DEF IInv, TypeOK, Addr
    <2>4. peak_bytes' \in Int /\ live_bytes' \in Int
      BY <1>3 DEF IInv, TypeOK, Peak
    <2>5. live_blocks' \in Nat /\ bucket_capacity' \in Nat
      BY <1>3, <1>5, <1>6
    <2> QED
      BY <1>3, <1>4, <1>8, <2>2, <2>3, <2>4, <2>5 DEF IInv, TypeOK
  <1>12. Placed'
    BY <1>1, <1>2, <1>7, <1>8, <1>10 DEF IInv, Placed
  <1>13. StorageMatchesRecords'
    <2>1. held = {Chunk(s) : s \in Tracked}
      BY DEF IInv, StorageMatchesRecords
    <2>2. held' = {Chunk(s)' : s \in Tracked \cup {r}}
      BY <1>3, <1>9, <1>10, <2>1
    <2>3. head' \cap FreedRecords' = {}
      BY <1>3, <1>4, <1>7 DEF IInv, StorageMatchesRecords
    <2>4. ASSUME NEW s \in Tracked'
          PROVE  s # r => /\ Apart(rec[s].base, Total(rec[s].size), {Chunk(r)})'
                          /\ Apart(rec[r].base, Total(rec[r].size), {Chunk(s)})'
      <3>1. CASE s = r
        BY <3>1
      <3>2. CASE s # r
        <4>1. s \in Tracked /\ Chunk(s) \in held /\ s \in Record
          BY <1>7, <1>10, <2>1, <3>2
        <4>2. base + Total(n) <= Chunk(s).base \/ Chunk(s).base + Chunk(s).len <= base
          BY <1>1, <4>1 DEF Apart
        <4> QED
          BY <1>8, <1>9, <4>1, <4>2, <3>2 DEF Apart, Chunk
      <3> QED
        BY <3>1, <3>2
    <2>5. ASSUME NEW s \in Tracked', NEW t \in Tracked', s # t
          PROVE  Apart(rec[s].base, Total(rec[s].size), {Chunk(t)})'
      <3>1. CASE s = r \/ t = r
        BY <2>4, <2>5, <3>1
      <3>2. CASE s # r /\ t # r
        BY <1>7, <1>8, <1>9, <1>10, <2>5, <3>2 DEF IInv, StorageMatchesRecords, Apart
      <3> QED
        BY <3>1, <3>2
    <2> QED
      BY <1>3, <1>7, <2>2, <2>3, <2>5 DEF IInv, StorageMatchesRecords
  <1>14. InItsBucket(buckets, bucket_capacity, head)'
    <2>1. cn_bucket_index_for(capacity, base + Prefix) \in 0..capacity - 1
      BY <1>2, <1>6, IndexInTable
    <2> QED
      BY <1>3, <1>4, <1>6, <1>9, <2>1 DEF InItsBucket, cn_bucket_insert_record
  <1>15. InItsBucket(freed_buckets, freed_bucket_capacity, FreedRecords)'
    BY <1>3, <1>4, <1>7, <1>9, <1>10 DEF IInv, InItsBucket
  <1>16. live_blocks' = Cardinality(head')
    BY <1>3, <1>5
  <1> QED
    BY <1>3, <1>11, <1>12, <1>13, <1>14, <1>15, <1>16 DEF IInv

\* A resized block: same record, new pointer, new bucket.
LEMMA ReallocStep ==
  ASSUME IInv, NEW n \in Nat, n >= 1, NEW p \in Addr, NEW r \in head, Ptr(r) = p,
         ReallocRecord(r, p, n)
  PROVE  IInv'
  <1> DEFINE old == Chunk(r)
             without == cn_bucket_remove_record(buckets, bucket_capacity, r, p)
  <1>1. PICK base \in realloc(old, Total(n)) :
          /\ rec' = [rec EXCEPT ![r] =
                [base |-> base, size |-> n,
                 head_ok |-> TRUE, tail_ok |-> TRUE, poisoned |-> FALSE]]
          /\ buckets' = cn_bucket_insert_record(without, bucket_capacity, r, base + Prefix)
          /\ live_bytes' = live_bytes - rec[r].size + n
          /\ peak_bytes' = Peak(live_bytes - rec[r].size + n)
          /\ held' = (held \ {old}) \cup {[base |-> base, len |-> Total(n)]}
          /\ UNCHANGED <<head, freed, bucket_capacity, freed_buckets,
                         freed_bucket_capacity, live_blocks, quarantine_blocks,
                         quarantine_bytes, pc, history>>
    BY DEF ReallocRecord, cn_record_create
  <1>2. /\ base \in Addr /\ base + Total(n) <= HeapSize + 1
        /\ Apart(base, Total(n), held \ {old})
    BY DEF realloc
  <1>3. base + Prefix \in Addr /\ Total(n) \in Nat
    BY <1>2, SizesAssumption DEF Addr, Total
  <1>4. /\ head \in SUBSET Record /\ r \in Record /\ r \in Tracked
        /\ Tracked \in SUBSET Record /\ FreedRecords \in SUBSET Record
        /\ r \notin FreedRecords
    BY RecordFacts DEF IInv, TypeOK, Tracked, StorageMatchesRecords
  <1>5. FreedRecords' = FreedRecords /\ Tracked' = Tracked
    BY <1>1 DEF FreedRecords, Tracked
  <1>6. /\ rec' \in [Record -> Block]
        /\ rec'[r].base = base /\ rec'[r].size = n
        /\ \A s \in Record \ {r} : rec'[s] = rec[s]
    BY <1>1, <1>2, <1>4 DEF IInv, TypeOK, Block, Addr
  <1>7. /\ Ptr(r)' = base + Prefix
        /\ Chunk(r)' = [base |-> base, len |-> Total(n)]
        /\ \A s \in Record \ {r} : Ptr(s)' = Ptr(s) /\ Chunk(s)' = Chunk(s)
    BY <1>6 DEF Ptr, Chunk
  <1>8. bucket_capacity \in Nat \ {0}
    BY DEF IInv, TypeOK, InItsBucket
  <1>9. /\ cn_bucket_index_for(bucket_capacity, p) \in 0..bucket_capacity - 1
        /\ cn_bucket_index_for(bucket_capacity, base + Prefix) \in 0..bucket_capacity - 1
    BY <1>3, <1>8, IndexInTable
  <1>10. TypeOK'
    <2>1. without \in [0..bucket_capacity - 1 -> SUBSET Record]
      BY <1>9 DEF IInv, TypeOK, cn_bucket_remove_record
    <2>2. buckets' \in [0..bucket_capacity' - 1 -> SUBSET Record]
      BY <1>1, <1>4, <1>9, <2>1 DEF cn_bucket_insert_record
    <2>3. held' \in SUBSET [base : Nat, len : Nat]
      BY <1>1, <1>2, <1>3 DEF IInv, TypeOK, Addr
    <2>4. rec[r].size \in Nat
      BY <1>4, RecordFacts
    <2>5. live_bytes' \in Int /\ peak_bytes' \in Int
      BY <1>1, <2>4 DEF IInv, TypeOK, Peak
    <2> QED
      BY <1>1, <1>6, <2>2, <2>3, <2>5 DEF IInv, TypeOK
  <1>11. Placed'
    BY <1>2, <1>5, <1>6, <1>4 DEF IInv, Placed
  <1>12. StorageMatchesRecords'
    <2>1. held = {Chunk(s) : s \in Tracked}
      BY DEF IInv, StorageMatchesRecords
    <2>2. \A s \in Tracked : s # r => Chunk(s) # old
      <3> SUFFICES ASSUME NEW s \in Tracked, s # r, Chunk(s) = Chunk(r)
                   PROVE  FALSE
        OBVIOUS
      <3>1. rec[s].base = rec[r].base /\ Total(rec[s].size) = Total(rec[r].size)
        BY DEF Chunk
      <3>2. Apart(rec[s].base, Total(rec[s].size), {Chunk(r)})
        BY <1>4 DEF IInv, StorageMatchesRecords
      <3>3. rec[r].size >= 1 /\ rec[r].size \in Nat /\ rec[r].base \in Nat
        BY <1>4, RecordFacts DEF IInv, Placed, Addr
      <3> QED
        BY <3>1, <3>2, <3>3, SizesAssumption DEF Apart, Chunk, Total
    <2>3. held' = {Chunk(s)' : s \in Tracked'}
      BY <1>1, <1>4, <1>5, <1>7, <2>1, <2>2
    <2>4. ASSUME NEW s \in Tracked, s # r
          PROVE  /\ Apart(rec[s].base, Total(rec[s].size), {Chunk(r)})'
                 /\ Apart(rec[r].base, Total(rec[r].size), {Chunk(s)})'
      <3>1. Chunk(s) \in held \ {old}
        BY <2>1, <2>2, <2>4
      <3>2. base + Total(n) <= Chunk(s).base \/ Chunk(s).base + Chunk(s).len <= base
        BY <1>2, <3>1 DEF Apart
      <3> QED
        BY <1>4, <1>6, <1>7, <2>4, <3>2 DEF Apart, Chunk
    <2>5. ASSUME NEW s \in Tracked', NEW t \in Tracked', s # t
          PROVE  Apart(rec[s].base, Total(rec[s].size), {Chunk(t)})'
      <3>1. CASE s = r \/ t = r
        BY <1>5, <2>4, <2>5, <3>1
      <3>2. CASE s # r /\ t # r
        BY <1>4, <1>5, <1>6, <1>7, <2>5, <3>2 DEF IInv, StorageMatchesRecords, Apart
      <3> QED
        BY <3>1, <3>2
    <2> QED
      BY <1>1, <1>5, <2>3, <2>5 DEF IInv, StorageMatchesRecords
  <1>13. InItsBucket(buckets, bucket_capacity, head)'
    <2>1. \A i \in 0..bucket_capacity - 1, s \in Record :
            s \in without[i] <=> s \in buckets[i] /\ s # r
      <3>1. \A i \in 0..bucket_capacity - 1 :
              r \in buckets[i] => i = cn_bucket_index_for(bucket_capacity, p)
        BY <1>4 DEF IInv, InItsBucket
      <3> QED
        BY <1>9, <3>1 DEF IInv, TypeOK, cn_bucket_remove_record
    <2>2. without \in [0..bucket_capacity - 1 -> SUBSET Record]
      BY <1>9 DEF IInv, TypeOK, cn_bucket_remove_record
    <2> HIDE DEF without
    <2> QED
      BY <1>1, <1>4, <1>7, <1>8, <1>9, <2>1, <2>2 DEF IInv, InItsBucket, cn_bucket_insert_record
  <1>14. InItsBucket(freed_buckets, freed_bucket_capacity, FreedRecords)'
    BY <1>1, <1>4, <1>5, <1>7 DEF IInv, InItsBucket
  <1> QED
    BY <1>1, <1>10, <1>11, <1>12, <1>13, <1>14 DEF IInv

\* A release: the record leaves one list and table for the other.
LEMMA FreeStep ==
  ASSUME IInv, NEW p \in Addr, NEW r \in head, Ptr(r) = p, FreeRecord(r, p)
  PROVE  IInv'
  <1> DEFINE required == quarantine_blocks + 1
             capacity == CapacityAfter(freed_bucket_capacity, required)
             table    == cn_rehash_records(FreedRecords, freed_buckets,
                                           freed_bucket_capacity, required)
  <1>1. /\ head' = head \ {r}
        /\ buckets' = cn_bucket_remove_record(buckets, bucket_capacity, r, p)
        /\ live_blocks' = live_blocks - 1
        /\ live_bytes' = live_bytes - rec[r].size
        /\ history' = Append(history, rec[r].size)
        /\ UNCHANGED <<bucket_capacity, peak_bytes, held>>
        /\ rec' = [rec EXCEPT ![r].poisoned = TRUE]
        /\ freed' = Append(freed, r)
        /\ freed_bucket_capacity' = capacity
        /\ freed_buckets' = cn_bucket_insert_record(table, capacity, r, p)
        /\ quarantine_blocks' = required
        /\ quarantine_bytes' = quarantine_bytes + rec[r].size
        /\ LoopTest
    BY DEF FreeRecord, cn_allocator_move_to_quarantine
  <1>2. /\ head \in SUBSET Record /\ r \in Record /\ r \in Tracked
        /\ Tracked \in SUBSET Record /\ FreedRecords \in SUBSET Record
        /\ r \notin FreedRecords /\ freed \in Seq(Record)
        /\ rec[r].size \in Nat
    BY RecordFacts DEF IInv, TypeOK, Tracked, StorageMatchesRecords
  <1>3. /\ freed' \in Seq(Record) /\ Len(freed') = Len(freed) + 1
        /\ DOMAIN freed' = 1..Len(freed) + 1
        /\ \A i \in 1..Len(freed) : freed'[i] = freed[i]
        /\ freed'[Len(freed) + 1] = r
        /\ DOMAIN freed = 1..Len(freed) /\ Len(freed) \in Nat
    BY <1>1, <1>2, AppendFacts
  <1>4. FreedRecords' = FreedRecords \cup {r}
    BY <1>3 DEF FreedRecords
  <1>5. Tracked' = Tracked
    BY <1>1, <1>2, <1>4 DEF Tracked
  <1>6. /\ rec' \in [Record -> Block]
        /\ \A s \in Record : rec'[s].base = rec[s].base /\ rec'[s].size = rec[s].size
    BY <1>1, <1>2 DEF IInv, TypeOK, Block
  <1>7. \A s \in Record : Ptr(s)' = Ptr(s) /\ Chunk(s)' = Chunk(s)
    BY <1>6 DEF Ptr, Chunk
  <1>8. bucket_capacity \in Nat \ {0}
    BY DEF IInv, TypeOK, InItsBucket
  <1>9. cn_bucket_index_for(bucket_capacity, p) \in 0..bucket_capacity - 1
    BY <1>8, IndexInTable
  <1>10. required \in 1..Cardinality(Record)
    <2>1. \A i, j \in 1..Len(freed) : freed[i] = freed[j] => i = j
      BY <1>3 DEF IInv, StorageMatchesRecords
    <2>2. Cardinality(FreedRecords) = Len(freed)
      <3>1. freed \in Bijection(1..Len(freed), FreedRecords)
        BY <1>2, <1>3, <2>1 DEF Bijection, Injection, Surjection, IsInjective, FreedRecords
      <3>2. ExistsBijection(1..Len(freed), FreedRecords)
        BY <3>1 DEF ExistsBijection
      <3> QED
        BY <1>3, <3>2, FS_CountingElements
    <2> QED
      BY <1>2, <2>2, RoomForOne DEF IInv
  <1>11. /\ capacity \in Nat \ {0}
         /\ table \in [0..capacity - 1 -> SUBSET Record]
         /\ InItsBucket(table, capacity, FreedRecords)
    <2> HIDE DEF required
    <2> QED
      BY <1>2, <1>10, RehashKeeps DEF IInv, TypeOK
  <1> HIDE DEF capacity, table
  <1>12. cn_bucket_index_for(capacity, p) \in 0..capacity - 1
    BY <1>11, IndexInTable
  <1>13. Cardinality(head') = Cardinality(head) - 1 /\ Cardinality(head) \in Nat \ {0}
    <2>1. IsFiniteSet(head)
      BY <1>2, RecordAssumption, FS_Subset
    <2> QED
      BY <1>1, <2>1, FS_RemoveElement, FS_CardinalityType, FS_EmptySet
  <1>14. pc' \in {"ready", "evict"} /\ (pc' = "evict" => freed' # <<>>)
    BY <1>1 DEF LoopTest
  <1>15. TypeOK'
    <2>1. buckets' \in [0..bucket_capacity' - 1 -> SUBSET Record]
      BY <1>1, <1>9 DEF IInv, TypeOK, cn_bucket_remove_record
    <2>2. freed_buckets' \in [0..freed_bucket_capacity' - 1 -> SUBSET Record]
      BY <1>1, <1>2, <1>11, <1>12 DEF cn_bucket_insert_record
    <2>3. history' \in Seq(Nat)
      BY <1>1, <1>2, AppendFacts DEF IInv, TypeOK
    <2>4. live_blocks' \in Nat
      BY <1>1, <1>13 DEF IInv
    <2>5. quarantine_blocks' \in Nat /\ freed_bucket_capacity' \in Nat
      BY <1>1, <1>10, <1>11
    <2>6. live_bytes' \in Int /\ quarantine_bytes' \in Int
      BY <1>1, <1>2 DEF IInv, TypeOK
    <2> QED
      BY <1>1, <1>2, <1>3, <1>6, <1>14, <2>1, <2>2, <2>3, <2>4, <2>5, <2>6 DEF IInv, TypeOK
  <1>16. Placed'
    BY <1>2, <1>5, <1>6 DEF IInv, Placed
  <1>17. StorageMatchesRecords'
    <2>1. held' = {Chunk(s)' : s \in Tracked'}
      <3>1. held = {Chunk(s) : s \in Tracked}
        BY DEF IInv, StorageMatchesRecords
      <3> QED
        BY <1>1, <1>2, <1>5, <1>7, <3>1
    <2>2. head' \cap FreedRecords' = {}
      BY <1>1, <1>4 DEF IInv, StorageMatchesRecords
    <2>3. ASSUME NEW i \in DOMAIN freed', NEW j \in DOMAIN freed', freed'[i] = freed'[j]
          PROVE  i = j
      <3>1. \A k \in 1..Len(freed) : freed[k] \in FreedRecords
        BY <1>3 DEF FreedRecords
      <3>2. \A k, l \in 1..Len(freed) : freed[k] = freed[l] => k = l
        BY <1>3 DEF IInv, StorageMatchesRecords
      <3> QED
        BY <1>2, <1>3, <2>3, <3>1, <3>2
    <2>4. \A s, t \in Tracked' :
            s # t => Apart(rec[s].base, Total(rec[s].size), {Chunk(t)})'
      BY <1>2, <1>5, <1>6, <1>7 DEF IInv, StorageMatchesRecords, Apart
    <2> QED
      BY <2>1, <2>2, <2>3, <2>4 DEF StorageMatchesRecords
  <1>18. InItsBucket(buckets, bucket_capacity, head)'
    BY <1>1, <1>2, <1>7, <1>8, <1>9 DEF IInv, TypeOK, InItsBucket, cn_bucket_remove_record
  <1>19. InItsBucket(freed_buckets, freed_bucket_capacity, FreedRecords)'
    BY <1>1, <1>2, <1>4, <1>7, <1>11, <1>12 DEF InItsBucket, cn_bucket_insert_record
  <1>20. live_blocks' = Cardinality(head') /\ quarantine_blocks' = Len(freed')
    BY <1>1, <1>3, <1>13 DEF IInv
  <1> QED
    BY <1>14, <1>15, <1>16, <1>17, <1>18, <1>19, <1>20 DEF IInv

\* The undamaged half of one turn of the eviction loop.
EvictOldest == ~Damaged(Head(freed)) /\ EvictRecord(Head(freed))

\* An eviction: the oldest record and its storage go together.
LEMMA EvictStep ==
  ASSUME IInv, pc = "evict", EvictOldest
  PROVE  IInv'
  <1> DEFINE r == Head(freed)
  <1>1. /\ freed_buckets' = cn_bucket_remove_record(freed_buckets,
                                freed_bucket_capacity, r, Ptr(r))
        /\ freed' = Tail(freed)
        /\ quarantine_blocks' = quarantine_blocks - 1
        /\ quarantine_bytes' = quarantine_bytes - rec[r].size
        /\ held' = held \ {Chunk(r)}
        /\ rec' = [rec EXCEPT ![r] = Blank]
        /\ LoopTest
        /\ UNCHANGED <<head, buckets, bucket_capacity, freed_bucket_capacity,
                       live_blocks, live_bytes, peak_bytes, history>>
    BY DEF EvictOldest, EvictRecord, cn_record_release_storage
  <1>2. /\ freed \in Seq(Record) /\ freed # <<>>
        /\ head \in SUBSET Record
        /\ Tracked \in SUBSET Record /\ FreedRecords \in SUBSET Record
    BY RecordFacts DEF IInv, TypeOK
  <1>3. /\ freed' \in Seq(Record) /\ Len(freed') = Len(freed) - 1
        /\ Len(freed) \in Nat \ {0} /\ DOMAIN freed' = 1..Len(freed) - 1
        /\ \A i \in 1..Len(freed) - 1 : freed'[i] = freed[i + 1]
        /\ r = freed[1] /\ r \in Record /\ DOMAIN freed = 1..Len(freed)
    BY <1>1, <1>2, TailFacts
  <1> HIDE DEF r
  <1>4. r \in FreedRecords /\ r \in Tracked /\ r \notin head
    BY <1>3 DEF IInv, StorageMatchesRecords, FreedRecords, Tracked
  <1>5. \A i, j \in 1..Len(freed) : freed[i] = freed[j] => i = j
    BY <1>3 DEF IInv, StorageMatchesRecords
  <1>6. FreedRecords' = FreedRecords \ {r}
    <2>1. ASSUME NEW i \in 1..Len(freed) - 1 PROVE freed'[i] \in FreedRecords \ {r}
      <3>1. i + 1 \in 1..Len(freed) /\ i + 1 # 1 /\ 1 \in 1..Len(freed)
        BY <1>3
      <3>2. freed[i + 1] # r
        BY <1>3, <1>5, <3>1
      <3> QED
        BY <1>3, <3>1, <3>2 DEF FreedRecords
    <2>2. ASSUME NEW i \in 1..Len(freed), freed[i] # r
          PROVE  \E j \in 1..Len(freed) - 1 : freed'[j] = freed[i]
      <3>1. i - 1 \in 1..Len(freed) - 1 /\ (i - 1) + 1 = i
        BY <1>3, <2>2
      <3> QED
        BY <1>3, <3>1
    <2>3. FreedRecords' \subseteq FreedRecords \ {r}
      BY <1>3, <2>1 DEF FreedRecords
    <2>4. ASSUME NEW s \in FreedRecords \ {r} PROVE s \in FreedRecords'
      <3>1. PICK i \in 1..Len(freed) : s = freed[i]
        BY <1>3 DEF FreedRecords
      <3>2. PICK j \in 1..Len(freed) - 1 : freed'[j] = s
        BY <2>2, <3>1
      <3> QED
        BY <1>3, <3>2 DEF FreedRecords
    <2> QED
      BY <2>3, <2>4
  <1>7. Tracked' = Tracked \ {r}
    BY <1>1, <1>4, <1>6 DEF Tracked
  <1>8. /\ rec' \in [Record -> Block]
        /\ \A s \in Record \ {r} : rec'[s] = rec[s]
    BY <1>1, <1>3 DEF IInv, TypeOK, Block, Blank
  <1>9. \A s \in Record \ {r} : Ptr(s)' = Ptr(s) /\ Chunk(s)' = Chunk(s)
    BY <1>8 DEF Ptr, Chunk
  <1>10. Ptr(r) \in Addr /\ rec[r].size \in Nat
    BY <1>4, RecordFacts
  <1>11. freed_bucket_capacity \in Nat \ {0}
    BY <1>4 DEF IInv, TypeOK, InItsBucket
  <1>12. cn_bucket_index_for(freed_bucket_capacity, Ptr(r)) \in 0..freed_bucket_capacity - 1
    BY <1>10, <1>11, IndexInTable
  <1>13. pc' \in {"ready", "evict"} /\ (pc' = "evict" => freed' # <<>>)
    BY <1>1 DEF LoopTest
  <1>14. TypeOK'
    <2>1. freed_buckets' \in [0..freed_bucket_capacity' - 1 -> SUBSET Record]
      BY <1>1, <1>12 DEF IInv, TypeOK, cn_bucket_remove_record
    <2>2. quarantine_blocks' \in Nat
      BY <1>1, <1>3 DEF IInv
    <2>3. quarantine_bytes' \in Int
      BY <1>1, <1>10 DEF IInv, TypeOK
    <2> QED
      BY <1>1, <1>3, <1>8, <1>13, <2>1, <2>2, <2>3 DEF IInv, TypeOK
  <1>15. Placed'
    BY <1>2, <1>7, <1>8 DEF IInv, Placed
  <1>16. StorageMatchesRecords'
    <2>1. \A s \in Tracked : s # r => Chunk(s) # Chunk(r)
      <3> SUFFICES ASSUME NEW s \in Tracked, s # r, Chunk(s) = Chunk(r)
                   PROVE  FALSE
        OBVIOUS
      <3>1. rec[s].base = rec[r].base /\ Total(rec[s].size) = Total(rec[r].size)
        BY DEF Chunk
      <3>2. Apart(rec[s].base, Total(rec[s].size), {Chunk(r)})
        BY <1>4 DEF IInv, StorageMatchesRecords
      <3>3. rec[r].size >= 1 /\ rec[r].size \in Nat /\ rec[r].base \in Nat
        BY <1>4, RecordFacts DEF IInv, Placed, Addr
      <3> QED
        BY <3>1, <3>2, <3>3, SizesAssumption DEF Apart, Chunk, Total
    <2>2. held' = {Chunk(s)' : s \in Tracked'}
      <3>1. held = {Chunk(s) : s \in Tracked}
        BY DEF IInv, StorageMatchesRecords
      <3> QED
        BY <1>1, <1>2, <1>7, <1>9, <2>1, <3>1
    <2>3. head' \cap FreedRecords' = {}
      BY <1>1, <1>6 DEF IInv, StorageMatchesRecords
    <2>4. \A i, j \in DOMAIN freed' : freed'[i] = freed'[j] => i = j
      <3> SUFFICES ASSUME NEW i \in 1..Len(freed) - 1, NEW j \in 1..Len(freed) - 1,
                          freed'[i] = freed'[j]
                   PROVE  i = j
        BY <1>3
      <3>1. i + 1 \in 1..Len(freed) /\ j + 1 \in 1..Len(freed) /\ freed[i + 1] = freed[j + 1]
        BY <1>3
      <3>2. i + 1 = j + 1
        BY <1>5, <3>1
      <3> QED
        BY <3>2
    <2>5. \A s, t \in Tracked' :
            s # t => Apart(rec[s].base, Total(rec[s].size), {Chunk(t)})'
      BY <1>2, <1>7, <1>8, <1>9 DEF IInv, StorageMatchesRecords, Apart
    <2> QED
      BY <2>2, <2>3, <2>4, <2>5 DEF StorageMatchesRecords
  <1>17. InItsBucket(buckets, bucket_capacity, head)'
    <2>1. InItsBucket(buckets, bucket_capacity, head)
      BY DEF IInv
    <2>2. ASSUME NEW i \in 0..bucket_capacity - 1, NEW s \in Record
          PROVE  s \in buckets[i] <=>
                   s \in head /\ cn_bucket_index_for(bucket_capacity, Ptr(s)') = i
      BY <1>2, <1>4, <1>9, <2>1 DEF InItsBucket
    <2>3. UNCHANGED <<buckets, bucket_capacity, head>>
      BY <1>1
    <2> QED
      BY <2>1, <2>2, <2>3 DEF InItsBucket, cn_bucket_index_for
  <1>18. InItsBucket(freed_buckets, freed_bucket_capacity, FreedRecords)'
    BY <1>1, <1>2, <1>4, <1>6, <1>9, <1>11, <1>12
       DEF IInv, TypeOK, InItsBucket, cn_bucket_remove_record
  <1>19. live_blocks' = Cardinality(head') /\ quarantine_blocks' = Len(freed')
    BY <1>1, <1>3 DEF IInv
  <1> QED
    BY <1>13, <1>14, <1>15, <1>16, <1>17, <1>18, <1>19 DEF IInv

\* The half of a destroy that finds every guard and all poison intact.
DestroyClean == (\A r \in Tracked : ~Damaged(r)) /\ cn_allocator_destroy

\* A destroy that finds no damage leaves an empty allocator.
LEMMA DestroyStep ==
  ASSUME IInv, pc = "ready", DestroyClean
  PROVE  IInv'
  <1>1. /\ held' = held \ {Chunk(r) : r \in Tracked}
        /\ rec' = [r \in Record |-> Blank]
        /\ head' = {} /\ freed' = <<>>
        /\ buckets' = NoTable /\ freed_buckets' = NoTable
        /\ bucket_capacity' = 0 /\ freed_bucket_capacity' = 0
        /\ live_blocks' = 0 /\ live_bytes' = 0
        /\ quarantine_blocks' = 0 /\ quarantine_bytes' = 0
        /\ history' = <<>>
        /\ UNCHANGED <<peak_bytes, pc>>
    BY DEF DestroyClean, cn_allocator_destroy, Damaged, Tracked
  <1>2. held' = {}
    BY <1>1 DEF IInv, StorageMatchesRecords
  <1>3. FreedRecords' = {} /\ Tracked' = {}
    BY <1>1 DEF FreedRecords, Tracked
  <1>4. TypeOK'
    <2>1. rec' \in [Record -> Block]
      BY <1>1 DEF Block, Blank
    <2>2. NoTable \in [0..0 - 1 -> SUBSET Record]
      BY DEF NoTable
    <2> QED
      BY <1>1, <1>2, <2>1, <2>2 DEF IInv, TypeOK
  <1>5. Placed' /\ StorageMatchesRecords'
    BY <1>1, <1>2, <1>3 DEF Placed, StorageMatchesRecords
  <1>6. /\ InItsBucket(buckets, bucket_capacity, head)'
        /\ InItsBucket(freed_buckets, freed_bucket_capacity, FreedRecords)'
    BY <1>1, <1>3 DEF InItsBucket
  <1>7. live_blocks' = Cardinality(head') /\ quarantine_blocks' = Len(freed')
    BY <1>1, FS_EmptySet
  <1>8. pc' # "evict"
    BY <1>1
  <1> QED
    BY <1>4, <1>5, <1>6, <1>7, <1>8 DEF IInv

-------------------------------------------------------------------------------
(* Theorems.                                                                  *)

\* In a table whose records are in their buckets a lookup is exact.
LEMMA LookupFacts ==
  ASSUME IInv
  PROVE  LookupExact
  <1>1. ASSUME NEW p \in Addr, NEW capacity \in Nat, NEW list \in SUBSET Record,
               NEW table \in [0..capacity - 1 -> SUBSET Record],
               InItsBucket(table, capacity, list)
        PROVE  cn_find_record_in_buckets(table, capacity, p) = {r \in list : Ptr(r) = p}
    <2>1. CASE capacity = 0
      BY <1>1, <2>1 DEF cn_find_record_in_buckets, InItsBucket
    <2>2. CASE capacity # 0
      <3>1. cn_bucket_index_for(capacity, p) \in 0..capacity - 1
        BY <2>2, IndexInTable
      <3> QED
        BY <1>1, <2>2, <3>1 DEF cn_find_record_in_buckets, InItsBucket
    <2> QED
      BY <2>1, <2>2
  <1>2. ASSUME NEW p \in Addr
        PROVE  cn_find_record_in_buckets(buckets, bucket_capacity, p)
                 = {r \in head : Ptr(r) = p}
    BY <1>1 DEF IInv, TypeOK
  <1>3. ASSUME NEW p \in Addr
        PROVE  cn_find_record_in_buckets(freed_buckets, freed_bucket_capacity, p)
                 = {r \in FreedRecords : Ptr(r) = p}
    <2>1. FreedRecords \in SUBSET Record
      BY RecordFacts
    <2> QED
      BY <1>1, <2>1 DEF IInv, TypeOK
  <1> QED
    BY <1>2, <1>3 DEF LookupExact

\* A failing guard check names one of the two guard codes.
LEMMA GuardCodes ==
  ASSUME NEW r, ~GuardsOK(r)
  PROVE  cn_record_verify_guards(r) \in AbortCode
  BY DEF GuardsOK, cn_record_verify_guards, AbortCode

\* A failing quarantine check names a guard code or use after free.
LEMMA QuarantineCodes ==
  ASSUME NEW r, ~GuardsOK(r) \/ ~rec[r].poisoned
  PROVE  cn_record_verify_quarantine(r) \in AbortCode
  BY GuardCodes DEF GuardsOK, cn_record_verify_quarantine, AbortCode

\* Every step of a call is an abort or one of the steps above.
StepKind ==
  \/ \E code \in AbortCode : cn_memory_fail_code(code)
  \/ \E n \in Nat : n >= 1 /\ \E base \in malloc(Total(n)), r \in Record \ Tracked :
       AllocRecord(r, base, n)
  \/ \E n \in Nat, p \in Addr, r \in head :
       n >= 1 /\ Ptr(r) = p /\ GuardsOK(r) /\ ReallocRecord(r, p, n)
  \/ \E p \in Addr, r \in head : Ptr(r) = p /\ GuardsOK(r) /\ FreeRecord(r, p)
  \/ \E a \in Addr : ClientStore(a)
  \/ pc = "ready" /\ DestroyClean
  \/ pc = "evict" /\ EvictOldest

\* An allocation of any requested size aborts or takes a fresh chunk.
LEMMA AllocKind ==
  ASSUME NEW size \in Nat, cn_alloc_impl(size)
  PROVE  StepKind
  <1>1. ActualSize(size) \in Nat /\ ActualSize(size) >= 1
    BY DEF ActualSize
  <1>2. "R4006" \in AbortCode /\ "R4001" \in AbortCode
    BY DEF AbortCode
  <1> QED
    BY <1>1, <1>2 DEF cn_alloc_impl, StepKind

\* A reallocation aborts, allocates, or resizes a block that passed its check.
LEMMA ReallocKind ==
  ASSUME IInv, NEW p \in Addr \cup {NULL}, NEW size \in Nat, cn_realloc_impl(p, size)
  PROVE  StepKind
  <1>1. ActualSize(size) \in Nat /\ ActualSize(size) >= 1
    BY DEF ActualSize
  <1>2. \A code \in {"R4002", "R4008", "R4009", "R4013"} : code \in AbortCode
    BY DEF AbortCode
  <1>3. CASE p = NULL /\ cn_alloc_impl(size)
    BY <1>3, AllocKind
  <1>4. CASE p # NULL /\ cn_find_record_in_buckets(buckets, bucket_capacity, p) = {}
    BY <1>2, <1>4, SizesAssumption DEF cn_realloc_impl, StepKind
  <1>5. ASSUME p # NULL,
               NEW r \in cn_find_record_in_buckets(buckets, bucket_capacity, p),
               \/ ~GuardsOK(r) /\ cn_memory_fail_code(cn_record_verify_guards(r))
               \/ cn_memory_fail_code("R4009")
               \/ cn_memory_fail_code("R4008")
               \/ GuardsOK(r) /\ ReallocRecord(r, p, ActualSize(size))
        PROVE  StepKind
    <2>1. p \in Addr /\ r \in head /\ Ptr(r) = p
      BY <1>5, LookupFacts DEF LookupExact
    <2> QED
      BY <1>1, <1>2, <1>5, <2>1, GuardCodes DEF StepKind
  <1> QED
    BY <1>3, <1>4, <1>5 DEF cn_realloc_impl

\* A release aborts or quarantines a block that passed its check.
LEMMA FreeKind ==
  ASSUME IInv, NEW p \in Addr, cn_free_impl(p)
  PROVE  StepKind
  <1>1. \A code \in {"R4001", "R4003", "R4010", "R4011"} : code \in AbortCode
    BY DEF AbortCode
  <1>2. CASE cn_find_record_in_buckets(buckets, bucket_capacity, p) = {}
    <2>1. PICK code \in {"R4003", "R4010", "R4011"} : cn_memory_fail_code(code)
      BY <1>2 DEF cn_free_impl
    <2> QED
      BY <1>1, <2>1 DEF StepKind
  <1>3. ASSUME NEW r \in cn_find_record_in_buckets(buckets, bucket_capacity, p),
               \/ ~GuardsOK(r) /\ cn_memory_fail_code(cn_record_verify_guards(r))
               \/ cn_memory_fail_code("R4001")
               \/ GuardsOK(r) /\ FreeRecord(r, p)
        PROVE  StepKind
    <2>1. r \in head /\ Ptr(r) = p
      BY LookupFacts DEF LookupExact
    <2> QED
      BY <1>1, <1>3, <2>1, GuardCodes DEF StepKind
  <1> QED
    BY <1>2, <1>3 DEF cn_free_impl

\* Every step of the specification is of one of these kinds.
LEMMA NextKind ==
  ASSUME IInv, Next
  PROVE  StepKind
  <1>1. ASSUME NEW c \in Sizes, NEW n \in Sizes
        PROVE  c * n \in Nat /\ n \in Nat /\ (n + 1) % (SizeMax + 1) \in Nat
    BY SizesAssumption
  <1>2. \A code \in {"R4006", "R4009"} : code \in AbortCode
    BY DEF AbortCode
  <1>3. ASSUME NEW n \in Sizes, cn_alloc_impl(n) \/ cn_strndup_impl(n)
        PROVE  StepKind
    BY <1>1, <1>3, AllocKind DEF cn_strndup_impl
  <1>4. ASSUME NEW c \in Sizes, NEW n \in Sizes, cn_calloc_impl(c, n)
        PROVE  StepKind
    <2>1. CASE cn_memory_fail_code("R4006")
      BY <1>2, <2>1 DEF StepKind
    <2>2. CASE cn_alloc_impl(c * n)
      BY <1>1, <2>2, AllocKind
    <2> QED
      BY <1>4, <2>1, <2>2 DEF cn_calloc_impl
  <1>5. ASSUME NEW p \in Addr \cup {NULL}, NEW l \in Sizes, NEW n \in Sizes,
               cn_realloc_mul_impl(p, l, n)
        PROVE  StepKind
    <2>1. CASE cn_memory_fail_code("R4009")
      BY <1>2, <2>1 DEF StepKind
    <2>2. CASE cn_realloc_impl(p, l * n)
      BY <1>1, <2>2, ReallocKind
    <2> QED
      BY <1>5, <2>1, <2>2 DEF cn_realloc_mul_impl
  <1>6. ASSUME NEW p \in Addr, cn_free_impl(p)
        PROVE  StepKind
    BY <1>6, FreeKind
  <1>7. ASSUME NEW a \in Addr, ClientStore(a)
        PROVE  StepKind
    BY <1>7 DEF StepKind
  <1>8. CASE cn_allocator_dump_leaks
    BY <1>8, GuardCodes DEF cn_allocator_dump_leaks, StepKind
  <1>9. CASE pc = "ready" /\ cn_allocator_destroy
    <2>1. CASE \E r \in head : /\ ~GuardsOK(r)
                               /\ cn_memory_fail_code(cn_record_verify_guards(r))
      BY <2>1, GuardCodes DEF StepKind
    <2>2. CASE \E r \in FreedRecords :
                 /\ Damaged(r)
                 /\ cn_memory_fail_code(cn_record_verify_quarantine(r))
      BY <2>2, QuarantineCodes DEF StepKind, Damaged
    <2>3. CASE \A r \in Tracked : ~Damaged(r)
      BY <1>9, <2>3 DEF StepKind, DestroyClean
    <2> QED
      BY <1>9, <2>1, <2>2, <2>3 DEF cn_allocator_destroy
  <1>10. CASE pc = "evict" /\ cn_allocator_evict_quarantine
    <2>1. CASE Damaged(Head(freed))
      BY <1>10, <2>1, QuarantineCodes DEF cn_allocator_evict_quarantine, StepKind, Damaged
    <2>2. CASE ~Damaged(Head(freed))
      BY <1>10, <2>2 DEF StepKind, EvictOldest, cn_allocator_evict_quarantine
    <2> QED
      BY <2>1, <2>2
  <1> QED
    BY <1>3, <1>4, <1>5, <1>6, <1>7, <1>8, <1>9, <1>10 DEF Next, Call

\* The inductive invariant holds in every reachable state.
THEOREM Invariance == Spec => []IInv
  <1>1. cn_allocator_init => IInv
    <2> SUFFICES ASSUME cn_allocator_init PROVE IInv
      OBVIOUS
    <2> USE DEF cn_allocator_init
    <2>1. FreedRecords = {} /\ Tracked = {}
      BY DEF FreedRecords, Tracked
    <2>2. TypeOK
      <3>1. NoTable \in [0..0 - 1 -> SUBSET Record] /\ Blank \in Block
        BY DEF NoTable, Block, Blank
      <3> QED
        BY <3>1 DEF TypeOK
    <2>3. Placed /\ StorageMatchesRecords
      BY <2>1 DEF Placed, StorageMatchesRecords
    <2>4. /\ InItsBucket(buckets, bucket_capacity, head)
          /\ InItsBucket(freed_buckets, freed_bucket_capacity, FreedRecords)
      BY <2>1 DEF InItsBucket
    <2> QED
      BY <2>2, <2>3, <2>4, FS_EmptySet DEF IInv
  <1>2. IInv /\ [Next]_vars => IInv'
    <2> SUFFICES ASSUME IInv, [Next]_vars PROVE IInv'
      OBVIOUS
    <2>1. CASE Next
      <3>1. StepKind
        BY <2>1, NextKind
      <3> QED
        BY <3>1, FailStep, AllocStep, ReallocStep, FreeStep, StoreStep, DestroyStep, EvictStep
           DEF StepKind
    <2>2. CASE UNCHANGED vars
      BY <2>2 DEF vars, tables, counters, IInv, TypeOK, Placed, StorageMatchesRecords,
                  InItsBucket, Tracked, FreedRecords, Chunk, Ptr, Apart
    <2> QED
      BY <2>1, <2>2
  <1> QED
    BY <1>1, <1>2, PTL DEF Spec

\* The fields of the allocator keep their types.
THEOREM TypeCorrect == Spec => []TypeOK
  <1>1. IInv => TypeOK
    BY DEF IInv
  <1> QED
    BY <1>1, Invariance, PTL

\* Lookups in both tables are exact, whatever the sequence of growths, moves,
\* releases and evictions.
THEOREM LookupsAreExact == Spec => []LookupExact
  <1>1. IInv => LookupExact
    BY LookupFacts
  <1> QED
    BY <1>1, Invariance, PTL

\* The allocator holds exactly the storage of its records, and no two blocks
\* overlap.
THEOREM StorageIsTracked == Spec => []StorageMatchesRecords
  <1>1. IInv => StorageMatchesRecords
    BY DEF IInv
  <1> QED
    BY <1>1, Invariance, PTL

\* Damage to a block is never forgotten: until some call aborts, a damaged
\* block stays tracked and damaged.
THEOREM DamageIsKept == Spec => DamageNeverForgotten
  <1> DEFINE Kept(r) == (r \in Tracked /\ Damaged(r)) =>
                          \/ pc' \in AbortCode
                          \/ r \in Tracked' /\ Damaged(r)'
  <1>1. IInv /\ [Next]_vars => [\A r \in Record : Kept(r)]_vars
    <2> SUFFICES ASSUME IInv, Next, NEW r \in Record, r \in Tracked, Damaged(r),
                        pc' \notin AbortCode
                 PROVE  r \in Tracked' /\ Damaged(r)'
      OBVIOUS
    <2>1. StepKind
      BY NextKind
    <2>2. ASSUME NEW code \in AbortCode, cn_memory_fail_code(code)
          PROVE  FALSE
      BY <2>2 DEF cn_memory_fail_code
    <2>3. ASSUME NEW n \in Nat, NEW base, NEW s \in Record \ Tracked, AllocRecord(s, base, n)
          PROVE  r \in Tracked' /\ Damaged(r)'
      <3>1. rec'[r] = rec[r] /\ FreedRecords' = FreedRecords /\ head' = head \cup {s}
        BY <2>3 DEF AllocRecord, cn_record_create, IInv, TypeOK, FreedRecords
      <3> QED
        BY <3>1 DEF Tracked, Damaged, GuardsOK
    <2>4. ASSUME NEW n \in Nat, NEW p, NEW s \in head, GuardsOK(s), ReallocRecord(s, p, n)
          PROVE  r \in Tracked' /\ Damaged(r)'
      <3>1. r # s
        BY <2>4 DEF Damaged, IInv, StorageMatchesRecords
      <3>2. rec'[r] = rec[r] /\ FreedRecords' = FreedRecords /\ head' = head
        BY <2>4, <3>1 DEF ReallocRecord, cn_record_create, IInv, TypeOK, FreedRecords
      <3> QED
        BY <3>2 DEF Tracked, Damaged, GuardsOK
    <2>5. ASSUME NEW p, NEW s \in head, GuardsOK(s), FreeRecord(s, p)
          PROVE  r \in Tracked' /\ Damaged(r)'
      <3>1. r # s
        BY <2>5 DEF Damaged, IInv, StorageMatchesRecords
      <3>2. rec'[r] = rec[r] /\ head' = head \ {s} /\ freed' = Append(freed, s)
        BY <2>5, <3>1 DEF FreeRecord, cn_allocator_move_to_quarantine, IInv, TypeOK
      <3>3. freed \in Seq(Record) /\ s \in Record
        BY DEF IInv, TypeOK
      <3>4. FreedRecords' = FreedRecords \cup {s}
        BY <3>2, <3>3, AppendFacts DEF FreedRecords
      <3> QED
        BY <3>1, <3>2, <3>4 DEF Tracked, Damaged, GuardsOK
    <2>6. ASSUME NEW a \in Addr, ClientStore(a)
          PROVE  r \in Tracked' /\ Damaged(r)'
      <3>1. rec'[r] = Hit(r, a) /\ FreedRecords' = FreedRecords /\ Tracked' = Tracked
        BY <2>6 DEF ClientStore, FreedRecords, Tracked
      <3>2. rec[r] \in Block
        BY DEF IInv, TypeOK
      <3>3. /\ Hit(r, a).head_ok => rec[r].head_ok
            /\ Hit(r, a).tail_ok => rec[r].tail_ok
            /\ Hit(r, a).poisoned => rec[r].poisoned
        BY <3>2 DEF Hit, Block
      <3> QED
        BY <3>1, <3>3 DEF Damaged, GuardsOK
    <2>7. CASE DestroyClean
      BY <2>7 DEF DestroyClean
    <2>8. CASE pc = "evict" /\ EvictOldest
      <3>1. r # Head(freed)
        BY <2>8 DEF EvictOldest
      <3>2. /\ rec' = [rec EXCEPT ![Head(freed)] = Blank]
            /\ freed' = Tail(freed) /\ head' = head
        BY <2>8 DEF EvictOldest, EvictRecord, cn_record_release_storage
      <3>3. freed \in Seq(Record) /\ freed # <<>>
        BY <2>8 DEF IInv, TypeOK
      <3>4. rec'[r] = rec[r]
        BY <3>1, <3>2 DEF IInv, TypeOK
      <3>5. r \in FreedRecords => r \in FreedRecords'
        <4> SUFFICES ASSUME NEW i \in DOMAIN freed, r = freed[i]
                     PROVE  \E j \in DOMAIN freed' : freed'[j] = r
          BY DEF FreedRecords
        <4>1. i - 1 \in DOMAIN freed' /\ freed'[i - 1] = freed[i]
          BY <3>1, <3>2, <3>3, TailFacts
        <4> QED
          BY <4>1
      <3> QED
        BY <3>2, <3>4, <3>5 DEF Tracked, Damaged, GuardsOK
    <2> QED
      BY <2>1, <2>2, <2>3, <2>4, <2>5, <2>6, <2>7, <2>8 DEF StepKind
  <1> QED
    BY <1>1, Invariance, PTL DEF Spec, DamageNeverForgotten

-------------------------------------------------------------------------------
(* Bytes as sums.                                                              *)

\* The sizes in the contents f of the records, as weights.
SizesIn(f) == [r \in Record |-> f[r].size]

\* The recursive function behind Bytes.
BytesFcn(f, S) ==
  CHOOSE g : g = [s \in SUBSET S |->
                    IF s = {} THEN 0 ELSE f[Pick(s)].size + g[s \ {Pick(s)}]]

\* The bytes of a set of records are the sum of their sizes.
LEMMA BytesAreSums ==
  ASSUME NEW f, NEW S \in SUBSET Record
  PROVE  BytesFcn(f, S)[S] = Sum(SizesIn(f), S)
  <1> DEFINE A(g, s) == IF s = {} THEN 0 ELSE f[Pick(s)].size + g[s \ {Pick(s)}]
  <1>1. BytesFcn(f, S) = CHOOSE g : g = [s \in SUBSET S |-> A(g, s)]
    BY DEF BytesFcn
  <1>2. ASSUME NEW g
        PROVE  [s \in SUBSET S |-> A(g, s)] = [s \in SUBSET S |-> Unfold(g, SizesIn(f), s)]
    <2>1. ASSUME NEW s \in SUBSET S, s # {}
          PROVE  SizesIn(f)[Pick(s)] = f[Pick(s)].size
      BY <2>1 DEF SizesIn, Pick
    <2> QED
      BY <2>1 DEF Unfold
  <1> HIDE DEF A
  <1>3. \A g : g = [s \in SUBSET S |-> A(g, s)] <=> SumEq(g, SizesIn(f), SUBSET S)
    BY <1>2 DEF SumEq
  <1>4. (CHOOSE g : g = [s \in SUBSET S |-> A(g, s)]) = SumFcn(SizesIn(f), S)
    BY <1>3, Zenon DEF SumFcn
  <1> QED
    BY <1>1, <1>4, SumIsRecursive

\* What is typed before and after a step that keeps the invariant, and the
\* bytes of both lists as sums.
LEMMA BytesNowAndNext ==
  ASSUME IInv, IInv'
  PROVE  /\ rec \in [Record -> Block] /\ rec' \in [Record -> Block]
         /\ head \in SUBSET Record /\ head' \in SUBSET Record
         /\ FreedRecords \in SUBSET Record /\ FreedRecords' \in SUBSET Record
         /\ Bytes(head) = Sum(SizesIn(rec), head)
         /\ Bytes(FreedRecords) = Sum(SizesIn(rec), FreedRecords)
         /\ Bytes(head)' = Sum(SizesIn(rec'), head')
         /\ Bytes(FreedRecords)' = Sum(SizesIn(rec'), FreedRecords')
  <1>1. /\ rec \in [Record -> Block] /\ rec' \in [Record -> Block]
        /\ head \in SUBSET Record /\ head' \in SUBSET Record
        /\ FreedRecords \in SUBSET Record /\ FreedRecords' \in SUBSET Record
    <2>1. TypeOK /\ TypeOK'
      BY DEF IInv
    <2>2. freed \in Seq(Record) /\ freed' \in Seq(Record)
      BY <2>1 DEF TypeOK
    <2>3. FreedRecords \in SUBSET Record /\ FreedRecords' \in SUBSET Record
      BY <2>2 DEF FreedRecords
    <2> QED
      BY <2>1, <2>3 DEF TypeOK
  <1>2. /\ Bytes(head) = BytesFcn(rec, head)[head]
        /\ Bytes(head)' = BytesFcn(rec', head')[head']
    BY DEF Bytes, BytesFcn, MapThenSumSet, MapThenFoldSet, Pick
  <1>3. /\ Bytes(FreedRecords) = BytesFcn(rec, FreedRecords)[FreedRecords]
        /\ Bytes(FreedRecords)' = BytesFcn(rec', FreedRecords')[FreedRecords']
    BY DEF Bytes, BytesFcn, MapThenSumSet, MapThenFoldSet, Pick
  <1> QED
    BY <1>1, <1>2, <1>3, BytesAreSums

\* Sets of records are finite, and their sums are integers.
LEMMA RecordSums ==
  ASSUME NEW f \in [Record -> Block], NEW S \in SUBSET Record
  PROVE  /\ IsFiniteSet(S)
         /\ \A r \in Record : SizesIn(f)[r] = f[r].size /\ f[r].size \in Nat
         /\ Sum(SizesIn(f), S) \in Int
  <1>1. IsFiniteSet(S)
    BY RecordAssumption, FS_Subset
  <1>2. \A r \in Record : SizesIn(f)[r] = f[r].size /\ f[r].size \in Nat
    BY DEF SizesIn, Block
  <1>3. Sum(SizesIn(f), S) \in Int
    BY <1>1, <1>2, SumType
  <1> QED
    BY <1>1, <1>2, <1>3

\* Contents that give the records of S the same sizes give S the same bytes.
LEMMA SameBytes ==
  ASSUME NEW f \in [Record -> Block], NEW g \in [Record -> Block], NEW S \in SUBSET Record,
         \A r \in S : f[r].size = g[r].size
  PROVE  Sum(SizesIn(f), S) = Sum(SizesIn(g), S)
  <1>1. \A r \in S : SizesIn(f)[r] = SizesIn(g)[r]
    BY DEF SizesIn
  <1> QED
    BY <1>1, RecordSums, SumSame

\* A record more, a record less.
LEMMA BytesPlus ==
  ASSUME NEW f \in [Record -> Block], NEW S \in SUBSET Record, NEW r \in Record \ S
  PROVE  Sum(SizesIn(f), S \cup {r}) = Sum(SizesIn(f), S) + f[r].size
  <1>1. Sum(SizesIn(f), S \cup {r}) = SizesIn(f)[r] + Sum(SizesIn(f), S)
    BY RecordSums, SumAdd
  <1> QED
    BY <1>1, RecordSums

LEMMA BytesMinus ==
  ASSUME NEW f \in [Record -> Block], NEW S \in SUBSET Record, NEW r \in S
  PROVE  Sum(SizesIn(f), S \ {r}) = Sum(SizesIn(f), S) - f[r].size
  <1>1. Sum(SizesIn(f), S) = SizesIn(f)[r] + Sum(SizesIn(f), S \ {r})
    BY RecordSums, SumRemove
  <1>2. Sum(SizesIn(f), S \ {r}) \in Int
    BY RecordSums
  <1> QED
    BY <1>1, <1>2, RecordSums

-------------------------------------------------------------------------------
(* Ends of the history.                                                        *)

\* The sizes of the last k of a sequence of releases, and of one release more.
Suffix(h, k) == Sum(h, Len(h) - k + 1 .. Len(h))

LEMMA SuffixType ==
  ASSUME NEW h \in Seq(Nat), NEW k \in 0..Len(h)
  PROVE  Suffix(h, k) \in Int /\ Suffix(h, 0) = 0
  <1>1. IsFiniteSet(Len(h) - k + 1 .. Len(h))
    BY FS_Interval
  <1>2. \A i \in Len(h) - k + 1 .. Len(h) : h[i] \in Int
    OBVIOUS
  <1>3. Len(h) - 0 + 1 .. Len(h) = {}
    OBVIOUS
  <1> QED
    BY <1>1, <1>2, <1>3, SumType, SumEmpty DEF Suffix

\* One more release lengthens every end by its size.
LEMMA SuffixAppend ==
  ASSUME NEW h \in Seq(Nat), NEW n \in Nat, NEW k \in 0..Len(h)
  PROVE  Suffix(Append(h, n), k + 1) = Suffix(h, k) + n
  <1> DEFINE g == Append(h, n)
             I == Len(h) - k + 1 .. Len(h)
             e == Len(h) + 1
  <1>1. /\ g \in Seq(Nat) /\ Len(g) = e /\ g[e] = n /\ e \notin I
        /\ \A i \in 1..Len(h) : g[i] = h[i]
    BY AppendFacts
  <1>2. IsFiniteSet(I)
    BY FS_Interval
  <1>3. \A i \in I : g[i] = h[i] /\ h[i] \in Nat
    BY <1>1
  <1>4. (Len(g) - (k + 1) + 1 .. Len(g)) = I \cup {e}
    <2>1. (e - (k + 1) + 1 .. e) = I \cup {e}
      OBVIOUS
    <2> HIDE DEF g, I, e
    <2> QED
      BY <1>1, <2>1
  <1> HIDE DEF g, I, e
  <1>5. \A i \in I \cup {e} : g[i] \in Int
    BY <1>1, <1>3
  <1>6. Sum(g, I \cup {e}) = g[e] + Sum(g, I)
    BY <1>1, <1>2, <1>5, SumAdd
  <1>7. Sum(g, I) = Sum(h, I)
    BY <1>2, <1>3, SumSame
  <1>8. Sum(h, I) \in Int
    BY <1>2, <1>3, SumType
  <1>9. Suffix(g, k + 1) = n + Sum(h, I)
    BY <1>1, <1>4, <1>7, <1>6 DEF Suffix
  <1> QED
    BY <1>8, <1>9 DEF Suffix, g, I

\* Leaving out the oldest of the last k shortens the end by its size.
LEMMA SuffixDrop ==
  ASSUME NEW h \in Seq(Nat), NEW k \in 1..Len(h)
  PROVE  Suffix(h, k - 1) = Suffix(h, k) - h[Len(h) - k + 1]
  <1> DEFINE I == Len(h) - k + 1 .. Len(h)
             e == Len(h) - k + 1
  <1>1. e \in I /\ (Len(h) - (k - 1) + 1 .. Len(h)) = I \ {e} /\ e \in 1..Len(h)
    OBVIOUS
  <1>2. IsFiniteSet(I) /\ IsFiniteSet(I \ {e})
    <2>1. IsFiniteSet(I)
      BY FS_Interval
    <2> HIDE DEF I
    <2> QED
      BY <2>1, FS_Subset
  <1>3. \A i \in I : h[i] \in Int
    OBVIOUS
  <1> HIDE DEF I, e
  <1>4. Sum(h, I) = h[e] + Sum(h, I \ {e})
    BY <1>1, <1>2, <1>3, SumRemove
  <1>5. Sum(h, I \ {e}) \in Int /\ h[e] \in Int
    BY <1>1, <1>2, <1>3, SumType
  <1>6. Sum(h, I \ {e}) = Sum(h, I) - h[e]
    BY <1>4, <1>5
  <1> QED
    BY <1>1, <1>6 DEF Suffix, I, e

\* The largest number of a set is its Max.
LEMMA MaxIs ==
  ASSUME NEW S \in SUBSET Int, NEW m \in S, \A k \in S : m >= k
  PROVE  Max(S) = m
  <1>1. Max(S) \in S /\ \A k \in S : Max(S) >= k
    BY DEF Max
  <1> DEFINE x == Max(S)
  <1>2. x \in Int /\ m \in Int /\ x >= m /\ m >= x
    BY <1>1
  <1> HIDE DEF x
  <1>3. x = m
    BY <1>2
  <1> QED
    BY <1>3 DEF x

\* The end of the history before and after a step.
LEMMA SuffixNowAndNext ==
  ASSUME NEW k
  PROVE  SuffixBytes(k) = Suffix(history, k) /\ SuffixBytes(k)' = Suffix(history', k)
  BY DEF SuffixBytes, Suffix, Sum, MapThenSumSet, MapThenFoldSet

-------------------------------------------------------------------------------
(* One lemma per kind of step.                                                 *)

\* A step that keeps both lists, the sizes of their records, the history and
\* the byte counters keeps the accounts.
LEMMA QuietStep ==
  ASSUME AInv, IInv', head' = head, freed' = freed, history' = history,
         \A r \in Tracked : rec'[r].size = rec[r].size,
         UNCHANGED <<live_bytes, peak_bytes, quarantine_blocks, quarantine_bytes>>,
         pc' = pc \/ pc' \in AbortCode
  PROVE  AInv'
  <1>1. IInv /\ FreedRecords' = FreedRecords
    BY DEF AInv, FreedRecords
  <1>2. Bytes(head)' = Bytes(head) /\ Bytes(FreedRecords)' = Bytes(FreedRecords)
    BY <1>1, BytesNowAndNext, SameBytes DEF Tracked
  <1>3. Accounting'
    BY <1>1, <1>2 DEF AInv, Accounting, IInv
  <1>4. OldestFirst' /\ NoneLongerFits'
    BY <1>1, SuffixNowAndNext DEF AInv, OldestFirst, NoneLongerFits, Tracked, FreedRecords
  <1>5. /\ pc' = "evict" => OverLimit(quarantine_blocks, quarantine_bytes)'
        /\ pc' = "ready" => ~OverLimit(quarantine_blocks, quarantine_bytes)'
    BY DEF AInv, AbortCode, OverLimit
  <1> QED
    BY <1>3, <1>4, <1>5 DEF AInv

\* A new block adds its size to the live bytes.
LEMMA AllocAccounts ==
  ASSUME AInv, IInv', NEW n \in Nat, NEW base, NEW r \in Record \ Tracked,
         AllocRecord(r, base, n)
  PROVE  AInv'
  <1>1. /\ rec'[r].size = n /\ \A s \in Tracked : rec'[s] = rec[s]
        /\ head' = head \cup {r} /\ freed' = freed /\ history' = history /\ pc' = pc
        /\ live_bytes' = live_bytes + n /\ peak_bytes' = Peak(live_bytes + n)
        /\ UNCHANGED <<quarantine_blocks, quarantine_bytes>>
    BY DEF AllocRecord, cn_record_create, AInv, IInv, TypeOK, Tracked
  <1>2. IInv /\ FreedRecords' = FreedRecords
    BY <1>1 DEF AInv, FreedRecords
  <1>3. Bytes(head)' = Bytes(head) + n
    <2>1. Sum(SizesIn(rec'), head \cup {r}) = Sum(SizesIn(rec'), head) + n
      BY <1>1, <1>2, BytesNowAndNext, BytesPlus DEF Tracked
    <2>2. Sum(SizesIn(rec'), head) = Sum(SizesIn(rec), head)
      BY <1>1, <1>2, BytesNowAndNext, SameBytes DEF Tracked
    <2> QED
      BY <1>1, <1>2, <2>1, <2>2, BytesNowAndNext
  <1>4. Bytes(FreedRecords)' = Bytes(FreedRecords)
    BY <1>1, <1>2, BytesNowAndNext, SameBytes DEF Tracked
  <1>5. Accounting'
    <2>1. live_bytes \in Int /\ peak_bytes \in Int
      BY <1>2 DEF IInv, TypeOK
    <2>2. live_bytes' <= peak_bytes'
      BY <1>1, <2>1 DEF Peak
    <2> QED
      BY <1>1, <1>2, <1>3, <1>4, <2>2 DEF AInv, Accounting, IInv
  <1>6. OldestFirst' /\ NoneLongerFits'
    BY <1>1, <1>2, SuffixNowAndNext DEF AInv, OldestFirst, NoneLongerFits, Tracked, FreedRecords
  <1>7. /\ pc' = "evict" => OverLimit(quarantine_blocks, quarantine_bytes)'
        /\ pc' = "ready" => ~OverLimit(quarantine_blocks, quarantine_bytes)'
    BY <1>1 DEF AInv, OverLimit
  <1> QED
    BY <1>5, <1>6, <1>7 DEF AInv

\* A resized block exchanges its size in the live bytes.
LEMMA ReallocAccounts ==
  ASSUME AInv, IInv', NEW n \in Nat, NEW p, NEW r \in head, ReallocRecord(r, p, n)
  PROVE  AInv'
  <1>1. IInv /\ r \in Record /\ r \notin FreedRecords
    BY DEF AInv, IInv, TypeOK, StorageMatchesRecords
  <1>2. /\ rec'[r].size = n /\ \A s \in Record : s # r => rec'[s] = rec[s]
        /\ head' = head /\ freed' = freed /\ history' = history /\ pc' = pc
        /\ live_bytes' = live_bytes - rec[r].size + n
        /\ peak_bytes' = Peak(live_bytes - rec[r].size + n)
        /\ UNCHANGED <<quarantine_blocks, quarantine_bytes>>
    BY <1>1 DEF ReallocRecord, cn_record_create, IInv, TypeOK
  <1>3. FreedRecords' = FreedRecords /\ rec[r].size \in Nat
    BY <1>1, <1>2, BytesNowAndNext DEF FreedRecords, Block
  <1>4. Bytes(head)' = Bytes(head) - rec[r].size + n
    <2> DEFINE S == head \ {r}
    <2>1. S \in SUBSET Record /\ head = S \cup {r} /\ r \in Record \ S
      BY <1>1, BytesNowAndNext
    <2>2. Sum(SizesIn(rec'), S) = Sum(SizesIn(rec), S)
      BY <1>1, <1>2, <2>1, BytesNowAndNext, SameBytes
    <2> HIDE DEF S
    <2>3. /\ Sum(SizesIn(rec'), S \cup {r}) = Sum(SizesIn(rec'), S) + n
          /\ Sum(SizesIn(rec), S \cup {r}) = Sum(SizesIn(rec), S) + rec[r].size
      BY <1>1, <1>2, <2>1, BytesNowAndNext, BytesPlus
    <2>4. Sum(SizesIn(rec), S) \in Int
      BY <1>1, <2>1, BytesNowAndNext, RecordSums
    <2>5. /\ Bytes(head) = Sum(SizesIn(rec), S \cup {r})
          /\ Bytes(head)' = Sum(SizesIn(rec'), S \cup {r})
      BY <1>1, <1>2, <2>1, BytesNowAndNext
    <2> QED
      BY <1>3, <2>2, <2>3, <2>4, <2>5
  <1>5. Bytes(FreedRecords)' = Bytes(FreedRecords)
    <2>1. \A s \in FreedRecords : rec'[s].size = rec[s].size
      BY <1>1, <1>2, BytesNowAndNext
    <2> QED
      BY <1>1, <1>3, <2>1, BytesNowAndNext, SameBytes
  <1>6. Accounting'
    <2>1. live_bytes \in Int /\ peak_bytes \in Int
      BY <1>1 DEF IInv, TypeOK
    <2>2. live_bytes' <= peak_bytes'
      BY <1>2, <1>3, <2>1 DEF Peak
    <2> QED
      BY <1>2, <1>4, <1>5, <2>2 DEF AInv, Accounting, IInv
  <1>7. OldestFirst' /\ NoneLongerFits'
    <2>1. \A i \in DOMAIN freed : rec'[freed[i]].size = rec[freed[i]].size
      <3>1. \A i \in DOMAIN freed : freed[i] \in Record /\ freed[i] # r
        BY <1>1, BytesNowAndNext DEF FreedRecords
      <3> QED
        BY <1>2, <3>1
    <2> QED
      BY <1>2, <2>1, SuffixNowAndNext DEF AInv, OldestFirst, NoneLongerFits
  <1>8. /\ pc' = "evict" => OverLimit(quarantine_blocks, quarantine_bytes)'
        /\ pc' = "ready" => ~OverLimit(quarantine_blocks, quarantine_bytes)'
    BY <1>2 DEF AInv, OverLimit
  <1> QED
    BY <1>6, <1>7, <1>8 DEF AInv

\* A release moves the size of its block from the live to the quarantined
\* bytes, and lengthens the history and the quarantine together.
LEMMA FreeAccounts ==
  ASSUME AInv, IInv', NEW p, NEW r \in head, FreeRecord(r, p)
  PROVE  AInv'
  <1> DEFINE n == rec[r].size
  <1>1. IInv /\ r \in Record /\ r \notin FreedRecords /\ n \in Nat
        /\ freed \in Seq(Record) /\ history \in Seq(Nat)
    BY RecordFacts DEF AInv, IInv, TypeOK, StorageMatchesRecords, Tracked
  <1>2. /\ rec' = [rec EXCEPT ![r].poisoned = TRUE]
        /\ head' = head \ {r} /\ freed' = Append(freed, r)
        /\ history' = Append(history, n)
        /\ live_bytes' = live_bytes - n /\ peak_bytes' = peak_bytes
        /\ quarantine_blocks' = quarantine_blocks + 1
        /\ quarantine_bytes' = quarantine_bytes + n
        /\ LoopTest
    BY DEF FreeRecord, cn_allocator_move_to_quarantine
  <1>3. \A s \in Record : rec'[s].size = rec[s].size
    BY <1>1, <1>2 DEF IInv, TypeOK, Block
  <1>4. FreedRecords' = FreedRecords \cup {r}
    <2> HIDE DEF n
    <2>1. /\ DOMAIN freed = 1..Len(freed) /\ DOMAIN freed' = 1..Len(freed) + 1
          /\ \A i \in 1..Len(freed) : freed'[i] = freed[i]
          /\ freed'[Len(freed) + 1] = r /\ Len(freed) \in Nat
      BY <1>1, <1>2, AppendFacts
    <2> QED
      BY <2>1 DEF FreedRecords
  <1>5. \A S \in SUBSET Record : Sum(SizesIn(rec'), S) = Sum(SizesIn(rec), S)
    BY <1>1, <1>3, BytesNowAndNext, SameBytes
  <1>6. Bytes(head)' = Bytes(head) - n
    <2>1. Sum(SizesIn(rec), head \ {r}) = Sum(SizesIn(rec), head) - n
      BY <1>1, BytesNowAndNext, BytesMinus
    <2>2. head \ {r} \in SUBSET Record
      BY <1>1, BytesNowAndNext
    <2>3. Sum(SizesIn(rec'), head \ {r}) = Sum(SizesIn(rec), head \ {r})
      BY <1>5, <2>2
    <2> HIDE DEF n
    <2> QED
      BY <1>1, <1>2, <2>1, <2>3, BytesNowAndNext
  <1>7. Bytes(FreedRecords)' = Bytes(FreedRecords) + n
    BY <1>1, <1>4, <1>5, BytesNowAndNext, BytesPlus
  <1> HIDE DEF n
  <1>8. Accounting'
    <2>1. live_bytes \in Int /\ peak_bytes \in Int
      BY <1>1 DEF IInv, TypeOK
    <2>2. live_bytes' <= peak_bytes'
      BY <1>1, <1>2, <2>1 DEF AInv, Accounting
    <2> QED
      BY <1>2, <1>6, <1>7, <2>2 DEF AInv, Accounting, IInv
  <1>9. /\ Len(freed) \in Nat /\ Len(history) \in Nat /\ Len(freed) <= Len(history)
        /\ Len(freed') = Len(freed) + 1 /\ Len(history') = Len(history) + 1
        /\ DOMAIN freed' = 1..Len(freed) + 1
        /\ \A i \in 1..Len(freed) : freed'[i] = freed[i]
        /\ \A i \in 1..Len(history) : history'[i] = history[i]
        /\ freed'[Len(freed) + 1] = r /\ history'[Len(history) + 1] = n
    BY <1>1, <1>2, AppendFacts DEF AInv, OldestFirst
  <1>10. OldestFirst'
    <2>1. ASSUME NEW i \in DOMAIN freed'
          PROVE  rec'[freed'[i]].size = history'[Len(history') - Len(freed') + i]
      <3>1. CASE i = Len(freed) + 1
        BY <1>1, <1>3, <1>9, <3>1 DEF n
      <3>2. CASE i \in 1..Len(freed)
        <4>1. /\ freed[i] \in Record
              /\ rec[freed[i]].size = history[Len(history) - Len(freed) + i]
          BY <1>1, <3>2 DEF AInv, OldestFirst
        <4> QED
          BY <1>3, <1>9, <3>2, <4>1
      <3> QED
        BY <1>9, <3>1, <3>2
    <2>2. quarantine_bytes' = Suffix(history', Len(freed'))
      <3>1. Suffix(Append(history, n), Len(freed) + 1) = Suffix(history, Len(freed)) + n
        BY <1>1, <1>9, SuffixAppend
      <3>2. quarantine_bytes = Suffix(history, Len(freed))
        BY SuffixNowAndNext DEF AInv, OldestFirst
      <3> QED
        BY <1>2, <1>9, <3>1, <3>2
    <2> QED
      BY <1>9, <2>1, <2>2, SuffixNowAndNext DEF OldestFirst
  <1>11. NoneLongerFits'
    <2> SUFFICES ASSUME NEW k \in 0..Len(history'), k > Len(freed')
                 PROVE  k > BlockLimit \/ Suffix(history', k) > ByteLimit
      BY SuffixNowAndNext DEF NoneLongerFits
    <2>1. k - 1 \in 0..Len(history) /\ k - 1 > Len(freed)
      BY <1>9
    <2>2. k - 1 > BlockLimit \/ Suffix(history, k - 1) > ByteLimit
      BY <2>1, SuffixNowAndNext DEF AInv, NoneLongerFits
    <2>3. Suffix(history', (k - 1) + 1) = Suffix(history, k - 1) + n
      BY <1>1, <1>2, <2>1, SuffixAppend
    <2>4. Suffix(history, k - 1) \in Int
      BY <1>1, <2>1, SuffixType
    <2> QED
      BY <1>1, <2>1, <2>2, <2>3, <2>4, SizesAssumption
  <1>12. freed' # <<>>
    BY <1>1, <1>2
  <1>13. /\ pc' = "evict" => OverLimit(quarantine_blocks, quarantine_bytes)'
         /\ pc' = "ready" => ~OverLimit(quarantine_blocks, quarantine_bytes)'
    BY <1>2, <1>12 DEF LoopTest, OverLimit
  <1> QED
    BY <1>8, <1>10, <1>11, <1>13 DEF AInv

\* An eviction takes the size of the oldest block out of the quarantined bytes;
\* the block goes because the quarantine did not fit with it.
LEMMA EvictAccounts ==
  ASSUME AInv, IInv', pc = "evict", EvictOldest
  PROVE  AInv'
  <1> DEFINE r == Head(freed)
             n == rec[r].size
  <1>1. /\ rec' = [rec EXCEPT ![r] = Blank]
        /\ head' = head /\ freed' = Tail(freed) /\ history' = history
        /\ live_bytes' = live_bytes /\ peak_bytes' = peak_bytes
        /\ quarantine_blocks' = quarantine_blocks - 1
        /\ quarantine_bytes' = quarantine_bytes - n
        /\ LoopTest
    BY DEF EvictOldest, EvictRecord, cn_record_release_storage
  <1>2. IInv /\ freed \in Seq(Record) /\ freed # <<>> /\ history \in Seq(Nat)
    BY DEF AInv, IInv, TypeOK
  <1>3. /\ Len(freed) \in Nat \ {0} /\ DOMAIN freed = 1..Len(freed) /\ r = freed[1]
        /\ Len(freed') = Len(freed) - 1 /\ DOMAIN freed' = 1..Len(freed) - 1
        /\ \A i \in 1..Len(freed) - 1 : freed'[i] = freed[i + 1]
        /\ Len(history) \in Nat /\ Len(freed) <= Len(history)
    BY <1>1, <1>2, TailFacts DEF AInv, OldestFirst
  <1>4. /\ r \in FreedRecords /\ r \notin head /\ r \in Record
        /\ \A i \in 2..Len(freed) : freed[i] # r
    <2> HIDE DEF r
    <2>1. /\ \A i, j \in 1..Len(freed) : freed[i] = freed[j] => i = j
          /\ head \cap FreedRecords = {}
      BY <1>2, <1>3 DEF IInv, StorageMatchesRecords
    <2>2. 1 \in 1..Len(freed) /\ \A i \in 2..Len(freed) : i \in 1..Len(freed) /\ i # 1
      BY <1>3
    <2>3. r \in FreedRecords /\ r \in Record
      BY <1>2, <1>3, <2>2 DEF FreedRecords
    <2> QED
      BY <1>3, <2>1, <2>2, <2>3
  <1>5. FreedRecords' = FreedRecords \ {r}
    <2>1. ASSUME NEW i \in DOMAIN freed'
          PROVE  freed'[i] \in FreedRecords \ {r}
      BY <1>3, <1>4 DEF FreedRecords
    <2>2. ASSUME NEW i \in DOMAIN freed, freed[i] # r
          PROVE  freed[i] \in FreedRecords'
      <3>1. i - 1 \in DOMAIN freed' /\ freed'[i - 1] = freed[i]
        BY <1>3, <2>2
      <3> QED
        BY <3>1 DEF FreedRecords
    <2> QED
      BY <2>1, <2>2 DEF FreedRecords
  <1>6. n \in Nat /\ \A s \in Record : s # r => rec'[s] = rec[s]
    BY <1>1, <1>2, <1>4, RecordFacts DEF Tracked, IInv, TypeOK
  <1>7. Bytes(head)' = Bytes(head)
    <2>1. \A s \in head : rec'[s].size = rec[s].size
      BY <1>2, <1>4, <1>6, BytesNowAndNext
    <2> QED
      BY <1>1, <1>2, <2>1, BytesNowAndNext, SameBytes
  <1>8. Bytes(FreedRecords)' = Bytes(FreedRecords) - n
    <2>1. \A s \in FreedRecords \ {r} : rec'[s].size = rec[s].size
      BY <1>2, <1>6, BytesNowAndNext
    <2>2. FreedRecords \ {r} \in SUBSET Record
      BY <1>2, BytesNowAndNext
    <2>3. Sum(SizesIn(rec'), FreedRecords \ {r}) = Sum(SizesIn(rec), FreedRecords \ {r})
      BY <1>2, <2>1, <2>2, BytesNowAndNext, SameBytes
    <2> QED
      BY <1>2, <1>4, <1>5, <2>3, BytesNowAndNext, BytesMinus
  <1> HIDE DEF r
  <1>9. Accounting'
    BY <1>1, <1>7, <1>8 DEF AInv, Accounting, IInv
  <1>10. quarantine_bytes = Suffix(history, Len(freed)) /\ n = history[Len(history) - Len(freed) + 1]
    BY <1>3, SuffixNowAndNext DEF AInv, OldestFirst
  <1>11. OldestFirst'
    <2>1. ASSUME NEW i \in DOMAIN freed'
          PROVE  rec'[freed'[i]].size = history'[Len(history') - Len(freed') + i]
      <3>1. i + 1 \in 2..Len(freed) /\ freed'[i] = freed[i + 1] /\ freed[i + 1] \in Record
        BY <1>2, <1>3
      <3>2. rec'[freed'[i]].size = rec[freed[i + 1]].size
        BY <1>4, <1>6, <3>1
      <3>3. rec[freed[i + 1]].size = history[Len(history) - Len(freed) + (i + 1)]
        BY <1>3, <3>1 DEF AInv, OldestFirst
      <3>4. Len(history) - Len(freed) + (i + 1) = Len(history') - Len(freed') + i
        BY <1>1, <1>3
      <3> QED
        BY <1>1, <3>2, <3>3, <3>4
    <2>2. Suffix(history, Len(freed) - 1) = Suffix(history, Len(freed)) - n
      BY <1>2, <1>3, <1>10, SuffixDrop
    <2>3. Len(freed') <= Len(history')
      BY <1>1, <1>3
    <2> QED
      BY <1>1, <1>3, <1>10, <2>1, <2>2, <2>3, SuffixNowAndNext DEF OldestFirst
  <1>12. NoneLongerFits'
    <2> SUFFICES ASSUME NEW k \in 0..Len(history), k > Len(freed) - 1
                 PROVE  k > BlockLimit \/ Suffix(history, k) > ByteLimit
      BY <1>1, <1>3, SuffixNowAndNext DEF NoneLongerFits
    <2>1. CASE k > Len(freed)
      BY <2>1, SuffixNowAndNext DEF AInv, NoneLongerFits
    <2>2. CASE k = Len(freed)
      <3>1. OverLimit(quarantine_blocks, quarantine_bytes) /\ quarantine_blocks = Len(freed)
        BY DEF AInv, IInv
      <3> QED
        BY <1>10, <2>2, <3>1 DEF OverLimit
    <2>3. k \in Int /\ Len(freed) \in Int
      BY <1>3
    <2>4. \A i, j \in Int : i > j - 1 => i > j \/ i = j
      OBVIOUS
    <2> QED
      BY <2>1, <2>2, <2>3, <2>4
  <1>13. /\ pc' = "evict" => OverLimit(quarantine_blocks, quarantine_bytes)'
         /\ pc' = "ready" => ~OverLimit(quarantine_blocks, quarantine_bytes)'
    <2>1. CASE freed' # <<>>
      BY <1>1, <2>1 DEF LoopTest, OverLimit
    <2>2. CASE freed' = <<>>
      <3>1. quarantine_blocks' = 0 /\ quarantine_bytes' = Suffix(history, 0)
        BY <1>1, <1>11, <2>2, SuffixNowAndNext DEF IInv, OldestFirst
      <3>2. quarantine_bytes' = 0
        BY <1>2, <1>3, <3>1, SuffixType
      <3> QED
        BY <1>1, <2>2, <3>1, <3>2, SizesAssumption DEF LoopTest, OverLimit
    <2> QED
      BY <2>1, <2>2
  <1> QED
    BY <1>9, <1>11, <1>12, <1>13 DEF AInv

\* A destroy that finds no damage empties the accounts too.
LEMMA DestroyAccounts ==
  ASSUME AInv, IInv', pc = "ready", DestroyClean
  PROVE  AInv'
  <1>1. /\ head' = {} /\ freed' = <<>> /\ history' = <<>> /\ live_bytes' = 0
        /\ peak_bytes' = peak_bytes /\ quarantine_blocks' = 0 /\ quarantine_bytes' = 0
        /\ pc' = "ready"
    BY DEF DestroyClean, cn_allocator_destroy, Damaged, Tracked
  <1>2. IInv /\ FreedRecords' = {}
    BY <1>1 DEF AInv, FreedRecords
  <1>3. Bytes(head)' = 0 /\ Bytes(FreedRecords)' = 0
    BY <1>1, <1>2, BytesNowAndNext, SumEmpty
  <1>4. 0 <= peak_bytes
    <2>1. Sum(SizesIn(rec), head) \in Nat
      <3>1. IsFiniteSet(head) /\ \A r \in head : SizesIn(rec)[r] \in Nat
        BY <1>2, BytesNowAndNext, RecordSums
      <3> QED
        BY <3>1, SumNat
    <2>2. live_bytes = Sum(SizesIn(rec), head) /\ live_bytes <= peak_bytes /\ peak_bytes \in Int
      BY <1>2, BytesNowAndNext DEF AInv, Accounting, IInv, TypeOK
    <2> QED
      BY <2>1, <2>2
  <1>5. Accounting'
    BY <1>1, <1>2, <1>3, <1>4 DEF Accounting, IInv
  <1>6. SuffixBytes(0)' = 0
    <2>1. SuffixBytes(0)' = Suffix(history', 0)
      BY SuffixNowAndNext
    <2>2. history' \in Seq(Nat) /\ 0 \in 0..Len(history')
      BY <1>1
    <2> QED
      BY <2>1, <2>2, SuffixType
  <1>7. OldestFirst' /\ NoneLongerFits'
    BY <1>1, <1>6 DEF OldestFirst, NoneLongerFits
  <1> QED
    BY <1>1, <1>5, <1>7, SizesAssumption DEF AInv, OverLimit

\* An empty allocator has empty accounts.
LEMMA EmptyAccounts ==
  ASSUME IInv, head = {}, freed = <<>>, history = <<>>, live_bytes = 0,
         0 <= peak_bytes, quarantine_blocks = 0, quarantine_bytes = 0, pc = "ready"
  PROVE  AInv
  <1>1. FreedRecords = {}
    BY DEF FreedRecords
  <1>2. BytesFcn(rec, {})[{}] = 0
    BY BytesAreSums, SumEmpty
  <1>3. Bytes({}) = BytesFcn(rec, {})[{}]
    BY DEF Bytes, BytesFcn, MapThenSumSet, MapThenFoldSet, Pick
  <1>4. SuffixBytes(0) = 0
    <2>1. SuffixBytes(0) = Suffix(history, 0)
      BY SuffixNowAndNext
    <2>2. history \in Seq(Nat) /\ 0 \in 0..Len(history)
      OBVIOUS
    <2> QED
      BY <2>1, <2>2, SuffixType
  <1>5. Accounting
    BY <1>1, <1>2, <1>3 DEF Accounting, IInv
  <1>6. OldestFirst /\ NoneLongerFits
    BY <1>4 DEF OldestFirst, NoneLongerFits
  <1> QED
    BY <1>5, <1>6, SizesAssumption DEF AInv, OverLimit

-------------------------------------------------------------------------------
(* Theorems.                                                                   *)

\* The accounts hold in every reachable state.
THEOREM AccountsInvariance == Spec => []AInv
  <1>1. cn_allocator_init /\ IInv => AInv
    BY EmptyAccounts DEF cn_allocator_init
  <1>2. AInv /\ IInv' /\ [Next]_vars => AInv'
    <2> SUFFICES ASSUME AInv, IInv', [Next]_vars PROVE AInv'
      OBVIOUS
    <2>1. IInv
      BY DEF AInv
    <2>2. ASSUME NEW code \in AbortCode, cn_memory_fail_code(code)
          PROVE  AInv'
      BY <2>2, QuietStep DEF cn_memory_fail_code, counters
    <2>3. ASSUME NEW a \in Addr, ClientStore(a)
          PROVE  AInv'
      <3>1. \A r \in Tracked : rec'[r].size = rec[r].size
        BY <2>1, <2>3, RecordFacts DEF ClientStore, Hit, IInv, TypeOK, Block
      <3> QED
        BY <2>3, <3>1, QuietStep DEF ClientStore, counters
    <2>4. CASE Next
      <3>1. StepKind
        BY <2>1, <2>4, NextKind
      <3> QED
        BY <2>2, <2>3, <3>1, AllocAccounts, ReallocAccounts, FreeAccounts, EvictAccounts,
           DestroyAccounts DEF StepKind
    <2>5. CASE UNCHANGED vars
      BY <2>5, QuietStep DEF vars, counters
    <2> QED
      BY <2>4, <2>5
  <1> QED
    BY <1>1, <1>2, Invariance, PTL DEF Spec

\* The block and byte counters that the leak report prints and the eviction
\* loop tests agree with the lists at every step of every call.
THEOREM CountersAgree == Spec => []Accounting
  <1>1. AInv => Accounting
    BY DEF AInv
  <1> QED
    BY <1>1, AccountsInvariance, PTL

\* Between calls the quarantine is the longest run of most recent releases that
\* fits both limits, whatever the limits and however releases of different
\* sizes pushed each other out.
THEOREM QuarantineIsLongest == Spec => []QuarantineWindow
  <1>1. AInv => QuarantineWindow
    <2> SUFFICES ASSUME AInv, pc = "ready" PROVE QuarantineWindow
      BY DEF QuarantineWindow
    <2> DEFINE fits == {k \in 0..Len(history) : k <= BlockLimit /\ SuffixBytes(k) <= ByteLimit}
               m    == Len(freed)
    <2>1. /\ m \in 0..Len(history) /\ quarantine_blocks = m
          /\ quarantine_bytes = SuffixBytes(m) /\ history \in Seq(Nat)
      BY DEF AInv, IInv, TypeOK, OldestFirst
    <2>2. \A k \in 0..Len(history) : SuffixBytes(k) \in Int
      BY <2>1, SuffixNowAndNext, SuffixType
    <2>3. m <= BlockLimit /\ SuffixBytes(m) <= ByteLimit
      BY <2>1, <2>2, SizesAssumption DEF AInv, OverLimit
    <2>4. m \in fits /\ \A k \in fits : m >= k
      <3>1. ASSUME NEW k \in fits, ~(m >= k)
            PROVE  FALSE
        BY <2>1, <2>2, <3>1, SizesAssumption DEF AInv, NoneLongerFits
      <3> QED
        BY <2>1, <2>3, <3>1
    <2>5. fits \in SUBSET Int
      BY <2>1
    <2> HIDE DEF fits, m
    <2>6. Max(fits) = m
      BY <2>4, <2>5, MaxIs
    <2> QED
      BY <2>6 DEF QuarantineWindow, AInv, OldestFirst, fits, m
  <1> QED
    BY <1>1, AccountsInvariance, PTL

-------------------------------------------------------------------------------
(* Queues given by their elements.                                             *)

\* A sequence with one more element than another is that one appended to.
LEMMA IsAppend ==
  ASSUME NEW S, NEW s \in Seq(S), NEW e \in S, NEW t,
         t = [i \in 1..Len(s) + 1 |-> IF i = Len(s) + 1 THEN e ELSE s[i]]
  PROVE  t = Append(s, e)
  <1>1. Len(s) \in Nat
    OBVIOUS
  <1>2. t \in Seq(S) /\ Len(t) = Len(s) + 1
    <2>1. t \in [1..Len(s) + 1 -> S]
      BY <1>1
    <2> QED
      BY <1>1, <2>1, SeqDef
  <1>3. \A i \in 1..Len(t) : t[i] = Append(s, e)[i]
    BY <1>1, <1>2, AppendFacts
  <1>4. Append(s, e) \in Seq(S) /\ Len(Append(s, e)) = Len(s) + 1
    BY AppendFacts
  <1> QED
    BY <1>2, <1>3, <1>4, SeqEqual

\* A sequence shifted by one is the tail.
LEMMA IsTail ==
  ASSUME NEW S, NEW s \in Seq(S), s # <<>>, NEW t,
         t = [i \in 1..Len(s) - 1 |-> s[i + 1]]
  PROVE  t = Tail(s)
  <1>1. Len(s) \in Nat \ {0}
    BY EmptySeq
  <1>2. t \in Seq(S) /\ Len(t) = Len(s) - 1
    <2>1. t \in [1..Len(s) - 1 -> S] /\ Len(s) - 1 \in Nat
      BY <1>1
    <2> QED
      BY <1>1, <2>1, SeqDef
  <1>3. \A i \in 1..Len(t) : t[i] = Tail(s)[i]
    BY <1>1, <1>2, TailFacts
  <1> QED
    BY <1>1, <1>2, <1>3, TailFacts, SeqEqual

-------------------------------------------------------------------------------
(* The mapping.                                                                *)

\* The blocks a set of records stands for.
Blocks(S) == {BlockOf(r) : r \in S}

\* The quarantine seen as blocks has the length and the contents of the list of
\* released records.
LEMMA WindowFacts ==
  ASSUME IInv
  PROVE  /\ Heap!InWindow = Blocks(FreedRecords)
         /\ Blocks(head) \cup Heap!InWindow = Blocks(Tracked)
  <1>1. freed \in Seq(Record)
    BY DEF IInv, TypeOK
  <1>2. Heap!InWindow = Blocks(FreedRecords)
    BY <1>1 DEF Heap!InWindow, Blocks, FreedRecords
  <1>3. Blocks(head) \cup Blocks(FreedRecords) = Blocks(Tracked)
    BY DEF Blocks, Tracked
  <1> QED
    BY <1>2, <1>3

\* No two records stand for the same block, because no two chunks overlap.
LEMMA BlocksDiffer ==
  ASSUME IInv, NEW r \in Tracked, NEW s \in Tracked, BlockOf(r) = BlockOf(s)
  PROVE  r = s
  <1>1. /\ rec[r].base \in Addr /\ rec[s].base \in Addr
        /\ rec[r].size \in Nat /\ rec[s].size \in Nat
        /\ rec[r].size >= 1 /\ rec[s].size >= 1
    BY RecordFacts DEF IInv, Placed
  <1>2. rec[r].base = rec[s].base
    BY <1>1, SizesAssumption DEF BlockOf, Ptr, Addr
  <1>3. r # s => Apart(rec[r].base, Total(rec[r].size), {Chunk(s)})
    BY DEF IInv, StorageMatchesRecords
  <1> QED
    BY <1>1, <1>2, <1>3, SizesAssumption DEF Apart, Chunk, Total, Addr

\* A payload inside a chunk that is apart from some held chunks is separate
\* from their payloads.
LEMMA ApartSeparates ==
  ASSUME IInv, NEW base \in Addr, NEW n \in Nat, NEW S \in SUBSET Tracked,
         Apart(base, Total(n), {Chunk(s) : s \in S})
  PROVE  Heap!Separate([ptr |-> base + Prefix, size |-> n], Blocks(S))
  <1> SUFFICES ASSUME NEW s \in S
               PROVE  \/ base + Prefix + n <= Ptr(s)
                      \/ Ptr(s) + rec[s].size <= base + Prefix
    BY DEF Heap!Separate, Blocks, BlockOf
  <1>1. rec[s].base \in Addr /\ rec[s].size \in Nat
    BY RecordFacts
  <1>2. base + Total(n) <= Chunk(s).base \/ Chunk(s).base + Chunk(s).len <= base
    <2>1. Chunk(s) \in {Chunk(t) : t \in S}
      OBVIOUS
    <2> QED
      BY <2>1 DEF Apart
  <1> QED
    BY <1>1, <1>2, SizesAssumption DEF Ptr, Chunk, Total, Addr

\* A step that keeps the pointer and size of every tracked record, and both
\* lists, keeps the mapped state.
LEMMA SameBlocks ==
  ASSUME head' = head, freed' = freed,
         \A r \in Tracked : BlockOf(r)' = BlockOf(r)
  PROVE  /\ Blocks(head)' = Blocks(head)
         /\ [i \in DOMAIN freed |-> BlockOf(freed[i])]'
              = [i \in DOMAIN freed |-> BlockOf(freed[i])]
  BY DEF Blocks, Tracked, FreedRecords

-------------------------------------------------------------------------------
(* Aborts.                                                                     *)

\* An abort leaves the blocks as they are.
LEMMA AbortKeepsBlocks ==
  ASSUME NEW code, cn_memory_fail_code(code)
  PROVE  /\ pc' = code
         /\ UNCHANGED <<{BlockOf(r) : r \in head},
                       [i \in DOMAIN freed |-> BlockOf(freed[i])]>>
  BY DEF cn_memory_fail_code, BlockOf, Ptr

\* Exhausted memory, overflowing sizes and damage found are faults.
LEMMA FaultRefines ==
  ASSUME pc \in {"ready", "evict"}, NEW code \in Heap!FaultCode, cn_memory_fail_code(code)
  PROVE  Heap!HeapNext
  BY AbortKeepsBlocks DEF Heap!Fault, Heap!HeapNext

\* A check that fails on a live block names a fault.
LEMMA GuardFault ==
  ASSUME NEW r, ~GuardsOK(r)
  PROVE  cn_record_verify_guards(r) \in Heap!FaultCode
  BY DEF GuardsOK, cn_record_verify_guards, Heap!FaultCode

\* A check that fails on a quarantined block names a fault.
LEMMA QuarantineFault ==
  ASSUME NEW r, ~GuardsOK(r) \/ ~rec[r].poisoned
  PROVE  cn_record_verify_quarantine(r) \in Heap!FaultCode
  BY GuardFault DEF GuardsOK, cn_record_verify_quarantine, Heap!FaultCode

\* Whether a pointer starts a block, or points into one, can be asked of the
\* records or of the blocks.
LEMMA BlockQuestions ==
  ASSUME NEW S, NEW p
  PROVE  /\ (\E b \in Blocks(S) : b.ptr = p) <=> \E r \in S : Ptr(r) = p
         /\ (\E b \in Blocks(S) : b.ptr < p /\ p < b.ptr + b.size)
              <=> cn_find_containing_record_in_list(S, p) # {}
  <1>1. \A r : BlockOf(r).ptr = Ptr(r) /\ BlockOf(r).size = rec[r].size
    BY DEF BlockOf
  <1>2. (\E b \in Blocks(S) : b.ptr = p) <=> \E r \in S : BlockOf(r).ptr = p
    BY Zenon DEF Blocks
  <1>3. (\E b \in Blocks(S) : b.ptr < p /\ p < b.ptr + b.size)
          <=> \E r \in S : BlockOf(r).ptr < p /\ p < BlockOf(r).ptr + BlockOf(r).size
    BY Zenon DEF Blocks
  <1>4. (\E r \in S : BlockOf(r).ptr = p) <=> \E r \in S : Ptr(r) = p
    BY <1>1
  <1>5. (\E r \in S : BlockOf(r).ptr < p /\ p < BlockOf(r).ptr + BlockOf(r).size)
          <=> cn_find_containing_record_in_list(S, p) # {}
    BY <1>1 DEF cn_find_containing_record_in_list
  <1> QED
    BY <1>2, <1>3, <1>4, <1>5

\* A lookup finds something exactly when some block starts there.
LEMMA LookupBlocks ==
  ASSUME IInv, NEW p \in Addr
  PROVE  /\ cn_find_record_in_buckets(buckets, bucket_capacity, p) # {}
              <=> \E b \in Blocks(head) : b.ptr = p
         /\ cn_find_record_in_buckets(freed_buckets, freed_bucket_capacity, p) # {}
              <=> \E b \in Blocks(FreedRecords) : b.ptr = p
  <1>1. /\ cn_find_record_in_buckets(buckets, bucket_capacity, p)
             = {r \in head : Ptr(r) = p}
        /\ cn_find_record_in_buckets(freed_buckets, freed_bucket_capacity, p)
             = {r \in FreedRecords : Ptr(r) = p}
    BY LookupFacts DEF LookupExact
  <1>2. /\ (\E b \in Blocks(head) : b.ptr = p) <=> \E r \in head : Ptr(r) = p
        /\ (\E b \in Blocks(FreedRecords) : b.ptr = p)
             <=> \E r \in FreedRecords : Ptr(r) = p
    BY BlockQuestions
  <1> QED
    BY <1>1, <1>2, Zenon

\* The verdict on a pointer to release that starts no live block is the one
\* that the blocks alone determine.
LEMMA BadFreeRefines ==
  ASSUME IInv, pc = "ready", NEW p \in Addr,
         cn_find_record_in_buckets(buckets, bucket_capacity, p) = {},
         cn_free_impl(p)
  PROVE  Heap!HeapNext
  <1> DEFINE lapsed   == cn_find_record_in_buckets(freed_buckets, freed_bucket_capacity, p)
             interior == cn_find_containing_record_in_list(Tracked, p)
             code     == CASE lapsed # {} -> "R4010"
                           [] lapsed = {} /\ interior # {} -> "R4011"
                           [] OTHER -> "R4003"
  <1>1. cn_memory_fail_code(code)
    BY DEF cn_free_impl
  <1>2. \A b \in Blocks(head) : b.ptr # p
    BY LookupBlocks
  <1>3. lapsed # {} <=> \E b \in Blocks(FreedRecords) : b.ptr = p
    BY LookupBlocks
  <1>4. interior # {} <=> \E b \in Blocks(Tracked) : b.ptr < p /\ p < b.ptr + b.size
    BY BlockQuestions
  <1> HIDE DEF lapsed, interior
  <1>5. code = IF lapsed # {} THEN "R4010" ELSE IF interior # {} THEN "R4011" ELSE "R4003"
    OBVIOUS
  <1> HIDE DEF code
  <1>6. code = IF \E b \in Heap!InWindow : b.ptr = p THEN "R4010"
               ELSE IF \E b \in Blocks(head) \cup Heap!InWindow :
                         b.ptr < p /\ p < b.ptr + b.size
               THEN "R4011" ELSE "R4003"
    BY <1>3, <1>4, <1>5, WindowFacts
  <1>7. Heap!BadFree
    BY <1>1, <1>2, <1>6, AbortKeepsBlocks DEF Heap!BadFree, Blocks
  <1> QED
    BY <1>7 DEF Heap!HeapNext

\* The same for a pointer to resize.
LEMMA BadReallocRefines ==
  ASSUME IInv, pc = "ready", NEW p \in Addr,
         cn_find_record_in_buckets(buckets, bucket_capacity, p) = {},
         NEW size, cn_realloc_impl(p, size)
  PROVE  Heap!HeapNext
  <1> DEFINE lapsed == cn_find_record_in_buckets(freed_buckets, freed_bucket_capacity, p)
             code   == IF lapsed # {} THEN "R4013" ELSE "R4002"
  <1>1. cn_memory_fail_code(code)
    BY SizesAssumption DEF cn_realloc_impl, Addr, NULL
  <1>2. \A b \in Blocks(head) : b.ptr # p
    BY LookupBlocks
  <1>3. lapsed # {} <=> \E b \in Blocks(FreedRecords) : b.ptr = p
    BY LookupBlocks
  <1> HIDE DEF lapsed
  <1>4. code = IF \E b \in Heap!InWindow : b.ptr = p THEN "R4013" ELSE "R4002"
    BY <1>3, WindowFacts
  <1> HIDE DEF code
  <1>5. Heap!BadRealloc
    BY <1>1, <1>2, <1>4, AbortKeepsBlocks DEF Heap!BadRealloc, Blocks
  <1> QED
    BY <1>5 DEF Heap!HeapNext

-------------------------------------------------------------------------------
(* Steps that change the blocks.                                               *)

\* A new block is separate from every live and every quarantined one.
LEMMA AllocRefines ==
  ASSUME IInv, pc = "ready", NEW n \in Nat, n >= 1, NEW base \in malloc(Total(n)),
         NEW r \in Record \ Tracked, AllocRecord(r, base, n)
  PROVE  Heap!HeapNext
  <1> DEFINE b == [ptr |-> base + Prefix, size |-> n]
  <1>1. /\ base \in Addr /\ base + Total(n) <= HeapSize + 1
        /\ Apart(base, Total(n), held)
    BY DEF malloc
  <1>2. /\ head' = head \cup {r} /\ freed' = freed /\ pc' = pc
        /\ \A s \in Tracked : rec'[s] = rec[s]
        /\ rec'[r].base = base /\ rec'[r].size = n
    BY DEF AllocRecord, cn_record_create, IInv, TypeOK, Tracked
  <1>3. b.ptr \in Addr /\ b.size \in Nat /\ b.size > 0
    BY <1>1, SizesAssumption DEF Addr, Total
  <1>4. Heap!Separate(b, Blocks(head) \cup Heap!InWindow)
    BY <1>1, ApartSeparates, WindowFacts DEF IInv, StorageMatchesRecords
  <1>5. BlockOf(r)' = b /\ \A s \in Tracked : BlockOf(s)' = BlockOf(s)
    BY <1>2 DEF BlockOf, Ptr
  <1> HIDE DEF b
  <1>6. Blocks(head)' = Blocks(head) \cup {b}
    BY <1>2, <1>5 DEF Blocks, Tracked
  <1>7. [i \in DOMAIN freed |-> BlockOf(freed[i])]'
          = [i \in DOMAIN freed |-> BlockOf(freed[i])]
    BY <1>2, <1>5 DEF Tracked, FreedRecords
  <1>8. Heap!Alloc
    <2>1. b \in Blocks(head)'
      BY <1>6
    <2> QED
      BY <1>2, <1>3, <1>4, <1>6, <1>7, <2>1 DEF Heap!Alloc, Blocks
  <1> QED
    BY <1>8 DEF Heap!HeapNext

\* A resized block is separate from all blocks but the one it replaces.
LEMMA ReallocRefines ==
  ASSUME IInv, pc = "ready", NEW n \in Nat, n >= 1, NEW p \in Addr, NEW r \in head,
         Ptr(r) = p, ReallocRecord(r, p, n)
  PROVE  Heap!HeapNext
  <1>1. PICK base \in realloc(Chunk(r), Total(n)) :
          /\ rec' = [rec EXCEPT ![r] =
                [base |-> base, size |-> n,
                 head_ok |-> TRUE, tail_ok |-> TRUE, poisoned |-> FALSE]]
          /\ head' = head /\ freed' = freed /\ pc' = pc
    BY DEF ReallocRecord, cn_record_create
  <1> DEFINE b   == [ptr |-> base + Prefix, size |-> n]
             old == BlockOf(r)
             S   == Tracked \ {r}
  <1>2. /\ base \in Addr /\ base + Total(n) <= HeapSize + 1
        /\ Apart(base, Total(n), held \ {Chunk(r)})
    BY DEF realloc
  <1>3. r \in Record /\ r \in Tracked /\ r \notin FreedRecords /\ Tracked \in SUBSET Record
    BY RecordFacts DEF IInv, TypeOK, Tracked, StorageMatchesRecords
  <1>4. b.ptr \in Addr /\ b.size \in Nat /\ b.size > 0
    BY <1>2, SizesAssumption DEF Addr, Total
  <1>5. \A s \in S : Chunk(s) \in held \ {Chunk(r)}
    <2> SUFFICES ASSUME NEW s \in Tracked, s # r PROVE Chunk(s) # Chunk(r) /\ Chunk(s) \in held
      OBVIOUS
    <2>1. BlockOf(s) # BlockOf(r)
      BY <1>3, BlocksDiffer
    <2>2. Chunk(s) # Chunk(r)
      <3>1. /\ rec[r].base \in Addr /\ rec[s].base \in Addr
            /\ rec[r].size \in Nat /\ rec[s].size \in Nat
        BY <1>3, RecordFacts
      <3> QED
        BY <2>1, <3>1, SizesAssumption DEF BlockOf, Chunk, Ptr, Total, Addr
    <2> QED
      BY <2>2 DEF IInv, StorageMatchesRecords
  <1>6. Heap!Separate(b, Blocks(S))
    <2>1. Apart(base, Total(n), {Chunk(s) : s \in S})
      BY <1>2, <1>5 DEF Apart
    <2> QED
      BY <1>2, <2>1, ApartSeparates
  <1>7. (Blocks(head) \ {old}) \cup Heap!InWindow = Blocks(S)
    <2>1. \A s \in Tracked : BlockOf(s) = old => s = r
      BY <1>3, BlocksDiffer
    <2>2. Blocks(head) \ {old} = Blocks(head \ {r})
      BY <2>1, Zenon DEF Blocks, Tracked
    <2>3. Blocks(head \ {r}) \cup Blocks(FreedRecords) = Blocks(S)
      BY <1>3 DEF Blocks, Tracked
    <2> QED
      BY <2>2, <2>3, WindowFacts
  <1>8. BlockOf(r)' = b /\ \A s \in S : BlockOf(s)' = BlockOf(s)
    BY <1>1, <1>3 DEF BlockOf, Ptr, IInv, TypeOK
  <1>9. Blocks(head)' = (Blocks(head) \ {old}) \cup {b}
    <2>1. \A s \in Tracked : BlockOf(s) = old => s = r
      BY <1>3, BlocksDiffer
    <2> HIDE DEF b
    <2> QED
      BY <1>1, <1>8, <2>1 DEF Blocks, Tracked
  <1>10. [i \in DOMAIN freed |-> BlockOf(freed[i])]'
          = [i \in DOMAIN freed |-> BlockOf(freed[i])]
    BY <1>1, <1>3, <1>8 DEF Tracked, FreedRecords
  <1> HIDE DEF b, S
  <1>11. Heap!Realloc
    <2>1. b \in Blocks(head)' /\ old \in Blocks(head)
      BY <1>9 DEF Blocks
    <2>2. Heap!Separate(b, (Blocks(head) \ {old}) \cup Heap!InWindow)
      BY <1>6, <1>7
    <2> HIDE DEF old
    <2> QED
      BY <1>1, <1>4, <1>9, <1>10, <2>1, <2>2 DEF Heap!Realloc, Blocks
  <1> QED
    BY <1>11 DEF Heap!HeapNext

\* The loop test ends a release or an eviction within the block limit.
LEMMA LoopTestSettles ==
  ASSUME IInv', LoopTest
  PROVE  Heap!Settle
  <1>1. /\ freed' \in Seq(Record) /\ quarantine_blocks' = Len(freed')
    BY DEF IInv, TypeOK
  <1>2. Len([i \in DOMAIN freed |-> BlockOf(freed[i])]') = Len(freed')
    BY <1>1
  <1>3. pc' \in {"ready", "evict"}
    BY DEF LoopTest
  <1>4. pc' = "ready" => Len(freed') <= BlockLimit
    <2>1. CASE freed' = <<>>
      BY <2>1, SizesAssumption
    <2>2. CASE freed' # <<>>
      BY <1>1, <2>2, SizesAssumption DEF LoopTest, OverLimit
    <2> QED
      BY <2>1, <2>2
  <1> QED
    BY <1>2, <1>3, <1>4 DEF Heap!Settle

\* A released block moves from the live ones to the end of the quarantine.
LEMMA FreeRefines ==
  ASSUME IInv, pc = "ready", NEW p \in Addr, NEW r \in head, Ptr(r) = p, FreeRecord(r, p)
  PROVE  Heap!HeapNext
  <1>1. /\ head' = head \ {r} /\ freed' = Append(freed, r)
        /\ rec' = [rec EXCEPT ![r].poisoned = TRUE]
        /\ LoopTest
    BY DEF FreeRecord, cn_allocator_move_to_quarantine
  <1>2. IInv'
    BY FreeStep
  <1>3. freed \in Seq(Record) /\ r \in Record /\ r \in Tracked /\ Tracked \in SUBSET Record
    BY RecordFacts DEF IInv, TypeOK, Tracked
  <1>4. \A s \in Record : BlockOf(s)' = BlockOf(s)
    BY <1>1, <1>3 DEF BlockOf, Ptr, IInv, TypeOK, Block
  <1>5. Blocks(head)' = Blocks(head) \ {BlockOf(r)}
    <2>1. \A s \in Tracked : BlockOf(s) = BlockOf(r) => s = r
      BY <1>3, BlocksDiffer
    <2>2. head \in SUBSET Record /\ head \in SUBSET Tracked
      BY DEF IInv, TypeOK, Tracked
    <2> QED
      BY <1>1, <1>4, <2>1, <2>2 DEF Blocks
  <1> DEFINE w == [i \in DOMAIN freed |-> BlockOf(freed[i])]
  <1>6. w' = Append(w, BlockOf(r))
    <2>1. /\ DOMAIN freed = 1..Len(freed) /\ Len(freed) \in Nat
          /\ \A i \in 1..Len(freed) : freed[i] \in Record
      BY <1>3
    <2>2. w \in Seq(Blocks(Record)) /\ Len(w) = Len(freed)
      BY <1>3, <2>1 DEF Blocks
    <2>3. BlockOf(r) \in Blocks(Record)
      BY <1>3 DEF Blocks
    <2>4. /\ DOMAIN freed' = 1..Len(freed) + 1
          /\ \A i \in 1..Len(freed) : freed'[i] = freed[i]
          /\ freed'[Len(freed) + 1] = r
      BY <1>1, <1>3, AppendFacts
    <2>5. w' = [i \in 1..Len(freed) + 1 |->
                  IF i = Len(freed) + 1 THEN BlockOf(r) ELSE w[i]]
      BY <1>3, <1>4, <2>1, <2>4
    <2> HIDE DEF w
    <2> QED
      BY <2>2, <2>3, <2>5, IsAppend
  <1> HIDE DEF w
  <1>7. Heap!Settle
    BY <1>1, <1>2, LoopTestSettles
  <1>8. Heap!Free
    <2>1. BlockOf(r) \in Blocks(head)
      BY DEF Blocks
    <2> QED
      BY <1>5, <1>6, <1>7, <2>1 DEF Heap!Free, Blocks, w
  <1> QED
    BY <1>8 DEF Heap!HeapNext

\* An eviction drops the oldest block of the quarantine.
LEMMA EvictRefines ==
  ASSUME IInv, pc = "evict", EvictOldest
  PROVE  Heap!HeapNext
  <1> DEFINE r == Head(freed)
             w == [i \in DOMAIN freed |-> BlockOf(freed[i])]
  <1>1. /\ head' = head /\ freed' = Tail(freed)
        /\ rec' = [rec EXCEPT ![r] = Blank]
        /\ LoopTest
    BY DEF EvictOldest, EvictRecord, cn_record_release_storage
  <1>2. IInv'
    BY EvictStep
  <1>3. freed \in Seq(Record) /\ freed # <<>> /\ Tracked \in SUBSET Record
    BY RecordFacts DEF IInv, TypeOK
  <1>4. /\ Len(freed) \in Nat \ {0} /\ DOMAIN freed = 1..Len(freed) /\ r = freed[1]
        /\ DOMAIN freed' = 1..Len(freed) - 1
        /\ \A i \in 1..Len(freed) - 1 : freed'[i] = freed[i + 1]
    BY <1>1, <1>3, TailFacts
  <1>5. r \in FreedRecords /\ r \notin head /\ r \in Record
    BY <1>3, <1>4 DEF FreedRecords, IInv, StorageMatchesRecords
  <1>6. \A i \in 1..Len(freed) - 1 : freed'[i] # r /\ freed'[i] \in Record
    BY <1>3, <1>4 DEF IInv, StorageMatchesRecords
  <1>7. \A s \in Record : s # r => BlockOf(s)' = BlockOf(s)
    BY <1>1 DEF BlockOf, Ptr, IInv, TypeOK
  <1> HIDE DEF r
  <1>8. Blocks(head)' = Blocks(head)
    BY <1>1, <1>5, <1>7 DEF Blocks, IInv, TypeOK
  <1>9. w' = Tail(w) /\ w # <<>>
    <2>1. w \in Seq(Blocks(Record)) /\ Len(w) = Len(freed)
      BY <1>3, <1>4 DEF Blocks
    <2>2. w' = [i \in 1..Len(freed) - 1 |-> w[i + 1]]
      BY <1>3, <1>4, <1>6, <1>7
    <2> HIDE DEF w
    <2>3. w # <<>>
      BY <1>4, <2>1, EmptySeq
    <2> QED
      BY <2>1, <2>2, <2>3, IsTail
  <1> HIDE DEF w
  <1>10. Heap!Settle
    BY <1>1, <1>2, LoopTestSettles
  <1>11. Heap!Evict
    BY <1>8, <1>9, <1>10 DEF Heap!Evict, Blocks, w
  <1> QED
    BY <1>11 DEF Heap!HeapNext

\* A destroy that finds no damage drops every block.
LEMMA DestroyRefines ==
  ASSUME IInv, pc = "ready", DestroyClean
  PROVE  Heap!HeapNext
  <1>1. head' = {} /\ freed' = <<>> /\ pc' = pc
    BY DEF DestroyClean, cn_allocator_destroy, Damaged, Tracked
  <1>2. Heap!Destroy
    BY <1>1 DEF Heap!Destroy
  <1> QED
    BY <1>2 DEF Heap!HeapNext

\* A client's store moves and resizes nothing.
LEMMA StoreRefines ==
  ASSUME IInv, NEW a \in Addr, ClientStore(a)
  PROVE  UNCHANGED Heap!hvars
  <1>1. head' = head /\ freed' = freed /\ pc' = pc
    BY DEF ClientStore
  <1>2. ASSUME NEW r \in Tracked
        PROVE  BlockOf(r)' = BlockOf(r)
    <2>1. r \in Record /\ rec[r] \in Block
      BY RecordFacts DEF IInv, TypeOK
    <2>2. rec'[r] = Hit(r, a)
      BY <2>1 DEF ClientStore
    <2>3. Hit(r, a).base = rec[r].base /\ Hit(r, a).size = rec[r].size
      BY <2>1 DEF Hit, Block
    <2> QED
      BY <2>2, <2>3 DEF BlockOf, Ptr
  <1> QED
    BY <1>1, <1>2, SameBlocks DEF Heap!hvars, Blocks

-------------------------------------------------------------------------------
(* The calls.                                                                  *)

\* An allocation is a fault or a new block.
LEMMA AllocCallRefines ==
  ASSUME IInv, pc = "ready", NEW size \in Nat, cn_alloc_impl(size)
  PROVE  Heap!HeapNext
  <1>1. ActualSize(size) \in Nat /\ ActualSize(size) >= 1
    BY DEF ActualSize
  <1>2. "R4006" \in Heap!FaultCode /\ "R4001" \in Heap!FaultCode
    BY DEF Heap!FaultCode
  <1>3. CASE cn_memory_fail_code("R4006") \/ cn_memory_fail_code("R4001")
    BY <1>2, <1>3, FaultRefines
  <1>4. CASE \E base \in malloc(Total(ActualSize(size))), r \in Record \ Tracked :
               AllocRecord(r, base, ActualSize(size))
    BY <1>1, <1>4, AllocRefines
  <1> QED
    BY <1>3, <1>4 DEF cn_alloc_impl

\* A reallocation is an allocation, a verdict, a fault or a resized block.
LEMMA ReallocCallRefines ==
  ASSUME IInv, pc = "ready", NEW p \in Addr \cup {NULL}, NEW size \in Nat,
         cn_realloc_impl(p, size)
  PROVE  Heap!HeapNext
  <1>1. ActualSize(size) \in Nat /\ ActualSize(size) >= 1
    BY DEF ActualSize
  <1>2. "R4008" \in Heap!FaultCode /\ "R4009" \in Heap!FaultCode
    BY DEF Heap!FaultCode
  <1>3. CASE p = NULL /\ cn_alloc_impl(size)
    BY <1>3, AllocCallRefines
  <1>4. CASE p # NULL /\ cn_find_record_in_buckets(buckets, bucket_capacity, p) = {}
    BY <1>4, BadReallocRefines
  <1>5. ASSUME p # NULL,
               NEW r \in cn_find_record_in_buckets(buckets, bucket_capacity, p),
               \/ ~GuardsOK(r) /\ cn_memory_fail_code(cn_record_verify_guards(r))
               \/ cn_memory_fail_code("R4009")
               \/ cn_memory_fail_code("R4008")
               \/ ReallocRecord(r, p, ActualSize(size))
        PROVE  Heap!HeapNext
    <2>1. p \in Addr /\ r \in head /\ Ptr(r) = p
      BY <1>5, LookupFacts DEF LookupExact
    <2>2. CASE ~GuardsOK(r) /\ cn_memory_fail_code(cn_record_verify_guards(r))
      BY <2>2, GuardFault, FaultRefines
    <2>3. CASE cn_memory_fail_code("R4009") \/ cn_memory_fail_code("R4008")
      BY <1>2, <2>3, FaultRefines
    <2>4. CASE ReallocRecord(r, p, ActualSize(size))
      BY <1>1, <2>1, <2>4, ReallocRefines
    <2> QED
      BY <1>5, <2>2, <2>3, <2>4
  <1> QED
    BY <1>3, <1>4, <1>5 DEF cn_realloc_impl

\* A release is a verdict, a fault or a block that enters the quarantine.
LEMMA FreeCallRefines ==
  ASSUME IInv, pc = "ready", NEW p \in Addr, cn_free_impl(p)
  PROVE  Heap!HeapNext
  <1>1. "R4001" \in Heap!FaultCode
    BY DEF Heap!FaultCode
  <1>2. CASE cn_find_record_in_buckets(buckets, bucket_capacity, p) = {}
    BY <1>2, BadFreeRefines
  <1>3. ASSUME NEW r \in cn_find_record_in_buckets(buckets, bucket_capacity, p),
               \/ ~GuardsOK(r) /\ cn_memory_fail_code(cn_record_verify_guards(r))
               \/ cn_memory_fail_code("R4001")
               \/ FreeRecord(r, p)
        PROVE  Heap!HeapNext
    <2>1. r \in head /\ Ptr(r) = p
      BY LookupFacts DEF LookupExact
    <2>2. CASE ~GuardsOK(r) /\ cn_memory_fail_code(cn_record_verify_guards(r))
      BY <2>2, GuardFault, FaultRefines
    <2>3. CASE cn_memory_fail_code("R4001")
      BY <1>1, <2>3, FaultRefines
    <2>4. CASE FreeRecord(r, p)
      BY <2>1, <2>4, FreeRefines
    <2> QED
      BY <1>3, <2>2, <2>3, <2>4
  <1> QED
    BY <1>2, <1>3 DEF cn_free_impl

\* Every step of the allocator is a step of CheckedHeap or changes no block.
LEMMA NextRefines ==
  ASSUME IInv, Next
  PROVE  Heap!HeapNext \/ UNCHANGED Heap!hvars
  <1>1. ASSUME NEW c \in Sizes, NEW n \in Sizes
        PROVE  c * n \in Nat /\ n \in Nat /\ (n + 1) % (SizeMax + 1) \in Nat
    BY SizesAssumption
  <1>2. "R4006" \in Heap!FaultCode /\ "R4009" \in Heap!FaultCode
    BY DEF Heap!FaultCode
  <1>3. ASSUME pc = "ready", NEW n \in Sizes, cn_alloc_impl(n) \/ cn_strndup_impl(n)
        PROVE  Heap!HeapNext
    BY <1>1, <1>3, AllocCallRefines DEF cn_strndup_impl
  <1>4. ASSUME pc = "ready", NEW c \in Sizes, NEW n \in Sizes, cn_calloc_impl(c, n)
        PROVE  Heap!HeapNext
    <2>1. CASE cn_memory_fail_code("R4006")
      BY <1>2, <1>4, <2>1, FaultRefines
    <2>2. CASE cn_alloc_impl(c * n)
      BY <1>1, <1>4, <2>2, AllocCallRefines
    <2> QED
      BY <1>4, <2>1, <2>2 DEF cn_calloc_impl
  <1>5. ASSUME pc = "ready", NEW p \in Addr \cup {NULL}, NEW l \in Sizes, NEW n \in Sizes,
               cn_realloc_mul_impl(p, l, n)
        PROVE  Heap!HeapNext
    <2>1. CASE cn_memory_fail_code("R4009")
      BY <1>2, <1>5, <2>1, FaultRefines
    <2>2. CASE cn_realloc_impl(p, l * n)
      BY <1>1, <1>5, <2>2, ReallocCallRefines
    <2> QED
      BY <1>5, <2>1, <2>2 DEF cn_realloc_mul_impl
  <1>6. ASSUME pc = "ready", NEW p \in Addr, cn_free_impl(p)
        PROVE  Heap!HeapNext
    BY <1>6, FreeCallRefines
  <1>7. ASSUME NEW a \in Addr, ClientStore(a)
        PROVE  UNCHANGED Heap!hvars
    BY <1>7, StoreRefines
  <1>8. CASE pc = "ready" /\ cn_allocator_dump_leaks
    BY <1>8, GuardFault, FaultRefines DEF cn_allocator_dump_leaks
  <1>9. CASE pc = "ready" /\ cn_allocator_destroy
    <2>1. CASE \E r \in head : /\ ~GuardsOK(r)
                               /\ cn_memory_fail_code(cn_record_verify_guards(r))
      BY <1>9, <2>1, GuardFault, FaultRefines
    <2>2. CASE \E r \in FreedRecords :
                 /\ Damaged(r)
                 /\ cn_memory_fail_code(cn_record_verify_quarantine(r))
      BY <1>9, <2>2, QuarantineFault, FaultRefines DEF Damaged
    <2>3. CASE \A r \in Tracked : ~Damaged(r)
      BY <1>9, <2>3, DestroyRefines DEF DestroyClean
    <2> QED
      BY <1>9, <2>1, <2>2, <2>3 DEF cn_allocator_destroy
  <1>10. CASE pc = "evict" /\ cn_allocator_evict_quarantine
    <2>1. CASE Damaged(Head(freed))
      BY <1>10, <2>1, QuarantineFault, FaultRefines DEF cn_allocator_evict_quarantine, Damaged
    <2>2. CASE ~Damaged(Head(freed))
      BY <1>10, <2>2, EvictRefines DEF EvictOldest, cn_allocator_evict_quarantine
    <2> QED
      BY <2>1, <2>2
  <1> QED
    BY <1>3, <1>4, <1>5, <1>6, <1>7, <1>8, <1>9, <1>10 DEF Next, Call

\* The tracking allocator implements the checked heap: the promise its callers
\* rely on (blocks apart from every live and quarantined one, verdicts that
\* depend only on where a pointer points, a quarantine within its block limit
\* between calls) holds for every heap size, hash function, guard size, limit
\* and sequence of calls.
THEOREM AllocatorImplementsHeap == Spec => ImplementsCheckedHeap
  <1>1. cn_allocator_init => Heap!HeapInit
    BY DEF cn_allocator_init, Heap!HeapInit
  <1>2. IInv /\ [Next]_vars => [Heap!HeapNext]_Heap!hvars
    <2>1. UNCHANGED vars => UNCHANGED Heap!hvars
      BY DEF vars, Heap!hvars, BlockOf, Ptr
    <2> QED
      BY <2>1, NextRefines
  <1> QED
    BY <1>1, <1>2, Invariance, PTL DEF Spec, ImplementsCheckedHeap, Heap!HeapSpec
===============================================================================
