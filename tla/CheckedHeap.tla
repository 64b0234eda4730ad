------------------------------ MODULE CheckedHeap ------------------------------
(***************************************************************************)
(* What the tracking allocator promises its callers, without records,      *)
(* tables, guards or counters: blocks that never overlap a live or a       *)
(* recently released one, and a verdict on every pointer handed back that  *)
(* depends only on the blocks (docs/error-messages.md, R4002 .. R4013).    *)
(***************************************************************************)
EXTENDS Integers, Sequences

CONSTANTS Addr,      \* addresses of payload bytes
          BlockLimit \* the most blocks the quarantine keeps between calls

VARIABLES live,   \* the live blocks: [ptr, size]
          window, \* the quarantined blocks, oldest release first
          status  \* "ready", "evict", or the code of the abort

hvars == <<live, window, status>>

\* Codes for faults that are no verdict on a pointer: memory exhausted, sizes
\* that overflow, and damage found in some block.
FaultCode == {"R4001", "R4006", "R4008", "R4009", "R4013", "R4016", "R4017"}

InWindow == {window[i] : i \in DOMAIN window}

Separate(b, S) ==
  \A c \in S : b.ptr + b.size <= c.ptr \/ c.ptr + c.size <= b.ptr

Alloc ==
  /\ status = "ready"
  /\ \E b \in live' :
       /\ b.ptr \in Addr /\ b.size \in Nat /\ b.size > 0
       /\ Separate(b, live \cup InWindow)
       /\ live' = live \cup {b}
  /\ UNCHANGED <<window, status>>

Realloc ==
  /\ status = "ready"
  /\ \E old \in live, b \in live' :
       /\ b.ptr \in Addr /\ b.size \in Nat /\ b.size > 0
       /\ Separate(b, (live \ {old}) \cup InWindow)
       /\ live' = (live \ {old}) \cup {b}
  /\ UNCHANGED <<window, status>>

\* The loop that empties the quarantine is left only within its block limit.
Settle ==
  /\ status' \in {"ready", "evict"}
  /\ status' = "ready" => Len(window') <= BlockLimit

Free ==
  /\ status = "ready"
  /\ \E b \in live :
       /\ live' = live \ {b}
       /\ window' = Append(window, b)
  /\ Settle

Evict ==
  /\ status = "evict"
  /\ window # <<>>
  /\ window' = Tail(window)
  /\ Settle
  /\ UNCHANGED live

\* A pointer that starts no live block is told apart by where it points.
BadFree ==
  /\ status = "ready"
  /\ \E p \in Addr :
       /\ \A b \in live : b.ptr # p
       /\ status' = IF \E b \in InWindow : b.ptr = p THEN "R4010"
                    ELSE IF \E b \in live \cup InWindow :
                              b.ptr < p /\ p < b.ptr + b.size
                    THEN "R4011" ELSE "R4003"
  /\ UNCHANGED <<live, window>>

BadRealloc ==
  /\ status = "ready"
  /\ \E p \in Addr :
       /\ \A b \in live : b.ptr # p
       /\ status' = IF \E b \in InWindow : b.ptr = p THEN "R4013" ELSE "R4002"
  /\ UNCHANGED <<live, window>>

Fault ==
  /\ status \in {"ready", "evict"}
  /\ status' \in FaultCode
  /\ UNCHANGED <<live, window>>

Destroy ==
  /\ status = "ready"
  /\ live' = {}
  /\ window' = <<>>
  /\ UNCHANGED status

HeapInit == live = {} /\ window = <<>> /\ status = "ready"

HeapNext ==
  \/ Alloc \/ Realloc \/ Free \/ Evict
  \/ BadFree \/ BadRealloc \/ Fault \/ Destroy

HeapSpec == HeapInit /\ [][HeapNext]_hvars
====
