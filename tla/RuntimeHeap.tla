---------------------------- MODULE RuntimeHeap ----------------------------
(***************************************************************************)
(* The heap of a compiled program as the runtime prelude uses it: owned    *)
(* strings kept on the list @.cn.str_head so that `free` can tell them     *)
(* from literals (backend/stdlib/core.c, strings.c), and zones, the        *)
(* regions whose blocks are released together when the scope ends.         *)
(*                                                                         *)
(* Blocks whose address a program can hold or compare have an address of   *)
(* Addr; the cells the runtime links them with (list nodes, zone headers   *)
(* and nodes, buffer headers) are only counted.  malloc may fail at every  *)
(* call and may hand out any address that is free, one just released       *)
(* included.                                                               *)
(***************************************************************************)
EXTENDS Naturals, FiniteSets, FiniteSetsExt, SequencesExt

CONSTANTS
  Addr,       \* addresses malloc hands out, positive numbers
  Texts,      \* the contents a program gives its strings
  Var,        \* the program's variables of type str
  MaxZones    \* bound: zones open at once

Null == 0
ASSUME AddrAssumption == Addr \subseteq Nat \ {Null} /\ IsFiniteSet(Addr)

VARIABLES
  heap,       \* [block, mem, nodes, str_head, bad]: what malloc and free keep
  zones,      \* the open zones, innermost last
  var,        \* the address in each str variable, Null for a literal
  mine,       \* variables whose string the program has not freed
  told,       \* the text the program was given with each variable
  untracked,  \* strings cn_track_str found no node for
  handed,     \* strings a runtime call returned without tracking them
  misfreed    \* a stale variable released the string of another one

heapVars == <<heap, zones, var, mine, told, untracked, handed, misfreed>>

EmptyHeap ==
  [block |-> [a \in Addr |-> "free"], mem |-> [a \in Addr |-> <<>>],
   nodes |-> 0, str_head |-> <<>>, bad |-> FALSE]

HeapInit ==
  /\ heap = EmptyHeap
  /\ zones = <<>>
  /\ var = [v \in Var |-> Null]
  /\ mine = {}
  /\ told = [v \in Var |-> <<>>]
  /\ untracked = {}
  /\ handed = {}
  /\ misfreed = FALSE

-----------------------------------------------------------------------------
(* malloc, realloc and free *)

FreeAddrs(h) == {a \in Addr : h.block[a] = "free"}

\* What a call of malloc may return; Null is failure.  The free addresses no
\* variable remembers differ in nothing, so the lowest stands for them all.
Malloc(h) ==
  LET known == FreeAddrs(h) \cap Range(var)
      other == FreeAddrs(h) \ known
  IN  {Null} \cup known \cup (IF other = {} THEN {} ELSE {Min(other)})

Alloc(h, a, kind, contents) ==
  [h EXCEPT !.block[a] = kind, !.mem[a] = contents]

Free(h, a) ==
  [h EXCEPT !.block[a] = "free", !.mem[a] = <<>>,
            !.bad = @ \/ h.block[a] = "free"]

\* free of each of them in turn.
FreeAll(h, as) ==
  [h EXCEPT !.block = [a \in Addr |-> IF a \in Range(as) THEN "free" ELSE h.block[a]],
            !.mem = [a \in Addr |-> IF a \in Range(as) THEN <<>> ELSE h.mem[a]],
            !.bad = @ \/ ~IsInjective(as) \/ \E a \in Range(as) : h.block[a] = "free"]

AddNodes(h, n) == [h EXCEPT !.nodes = @ + n]
FreeNodes(h, n) ==
  [h EXCEPT !.nodes = IF n <= @ THEN @ - n ELSE 0, !.bad = @ \/ n > h.nodes]

-----------------------------------------------------------------------------
(* Owned strings *)

\* node tells whether the list node could be allocated; without one the
\* string is handed out all the same.
cn_track_str(h, a, node) ==
  IF node THEN AddNodes([h EXCEPT !.str_head = <<a>> \o @], 1) ELSE h

\* Mutant: the string at the head of the list is released in its place.
cn_free_str_head(h, a) ==
  LET hits == {i \in DOMAIN h.str_head : h.str_head[i] = a}
  IN  IF hits = {} THEN h
      ELSE FreeNodes(Free([h EXCEPT !.str_head = RemoveAt(@, Min(hits))], Head(h.str_head)), 1)

\* A pointer that is not on the list, a literal for one, is left alone.
cn_free_str(h, a) ==
  LET hits == {i \in DOMAIN h.str_head : h.str_head[i] = a}
  IN  IF hits = {} THEN h
      ELSE FreeNodes(Free([h EXCEPT !.str_head = RemoveAt(@, Min(hits))], a), 1)

\* A variable receives a new tracked string.
Receive(v, a, text, node) ==
  /\ var' = [var EXCEPT ![v] = a]
  /\ told' = [told EXCEPT ![v] = text]
  /\ mine' = mine \cup {v}
  /\ untracked' = IF node THEN untracked ELSE untracked \cup {a}

\* The fallback of every string operation: the constant empty string.
ReceiveEmpty(v) ==
  /\ var' = [var EXCEPT ![v] = Null]
  /\ told' = [told EXCEPT ![v] = <<>>]
  /\ UNCHANGED <<mine, untracked>>

\* A variable may be given a new value once its string has been freed.
Spare(v) == v \in Var \ mine

\* copy, concatenation, number formatting and the readers of io, env, path
\* and process end in a copy of this form.
cn_dup_range(v, text, a, node) ==
  IF a = Null
  THEN ReceiveEmpty(v) /\ UNCHANGED heap
  ELSE /\ heap' = cn_track_str(Alloc(heap, a, "str", text), a, node)
       /\ Receive(v, a, text, node)

NewString(v, text, a, node) ==
  /\ Spare(v)
  /\ a \in Malloc(heap)
  /\ a = Null => node
  /\ cn_dup_range(v, text, a, node)
  /\ UNCHANGED <<zones, handed, misfreed>>

\* `free s;`, also of a literal or of a string that was freed before.
FreeString(v) ==
  /\ heap' = cn_free_str(heap, var[v])
  /\ mine' = mine \ {v}
  /\ told' = [told EXCEPT ![v] = <<>>]
  /\ misfreed' = (misfreed \/ \E w \in mine \ {v} :
                    var[w] = var[v] /\ var[v] \in Range(heap.str_head))
  /\ UNCHANGED <<zones, var, untracked, handed>>

-----------------------------------------------------------------------------
(* Zones *)

\* An open zone: its blocks, newest first, or "null" when malloc failed.
cn_zone_enter(ok) ==
  /\ Len(zones) < MaxZones
  /\ zones' = Append(zones, [null |-> ~ok, blocks |-> <<>>])
  /\ heap' = AddNodes(heap, IF ok THEN 1 ELSE 0)
  /\ UNCHANGED <<var, mine, told, untracked, handed, misfreed>>

\* Node and block are both asked for; when one is missing the other is
\* released again and the caller gets null.
ZoneBlock(h, a, node) ==
  IF a # Null /\ node THEN AddNodes(Alloc(h, a, "payload", <<>>), 1) ELSE h

cn_zone_alloc(a, node) ==
  /\ zones # <<>>
  /\ ~Last(zones).null
  /\ a \in Malloc(heap)
  /\ heap' = ZoneBlock(heap, a, node)
  /\ zones' = IF a # Null /\ node
              THEN [zones EXCEPT ![Len(zones)].blocks = <<a>> \o @]
              ELSE zones
  /\ UNCHANGED <<var, mine, told, untracked, handed, misfreed>>

cn_zone_release ==
  /\ zones # <<>>
  /\ LET z == Last(zones)
     IN  heap' = IF z.null THEN heap
                 ELSE FreeNodes(FreeAll(heap, z.blocks), Len(z.blocks) + 1)
  /\ zones' = Front(zones)
  /\ UNCHANGED <<var, mine, told, untracked, handed, misfreed>>

-----------------------------------------------------------------------------
StringNext(vs) ==
  \E v \in vs :
    \/ \E text \in Texts, a \in Addr \cup {Null}, node \in BOOLEAN : NewString(v, text, a, node)
    \/ FreeString(v)

ZoneNext ==
  \/ \E ok \in BOOLEAN : cn_zone_enter(ok)
  \/ \E a \in Addr \cup {Null}, node \in BOOLEAN : cn_zone_alloc(a, node)
  \/ cn_zone_release

-----------------------------------------------------------------------------
Kinds == {"free", "str", "payload", "array", "line"}

HeapTypeOK ==
  /\ heap.block \in [Addr -> Kinds]
  /\ heap.nodes \in Nat
  /\ heap.str_head \in Seq(Addr)
  /\ \A i \in DOMAIN zones : zones[i].null \in BOOLEAN /\ zones[i].blocks \in Seq(Addr)
  /\ var \in [Var -> Addr \cup {Null}]
  /\ mine \subseteq Var
  /\ untracked \subseteq Addr /\ handed \subseteq Addr

Live(kind) == {a \in Addr : heap.block[a] = kind}

\* The places of the blocks in the open zones: which zone, and where in it.
ZonePlaces == UNION {{<<i, n>> : n \in DOMAIN zones[i].blocks} : i \in DOMAIN zones}
BlockAt(p) == zones[p[1]].blocks[p[2]]

\* The cells strings and zones are linked with.
ZoneHeaders == {i \in DOMAIN zones : ~zones[i].null}
LinkNodes == Len(heap.str_head) + Cardinality(ZoneHeaders) + Cardinality(ZonePlaces)

\* core.c: every string block is on the list once, unless no node could be
\* had for it or it was handed out untracked, and the list holds only strings
\* of variables not freed yet.
StringsOwned ==
  /\ IsInjective(heap.str_head)
  /\ Live("str") = Range(heap.str_head) \cup ((untracked \cup handed) \cap Live("str"))
  /\ Range(heap.str_head) \subseteq {var[v] : v \in mine}

\* core.c: every zone block is in exactly one open zone.
ZonesOwned ==
  /\ \A p, q \in ZonePlaces : BlockAt(p) = BlockAt(q) => p = q
  /\ Live("payload") = {BlockAt(p) : p \in ZonePlaces}

\* A string the program has not freed is still there with its text, whatever
\* was freed, failed or was handed out again in between.  The exception is a
\* program that frees one variable twice after its address has gone to
\* another string: cn_free_str knows strings by address alone (core.c:140).
OwnedStringsLive ==
  misfreed \/ \A v \in mine :
    /\ heap.block[var[v]] = "str"
    /\ heap.mem[var[v]] = told[v]

\* docs/spec.md:673: "`free some_string;` releases tracked owned strings
\* created by ... successful `std.ipc.stdout_read(...)` ...".  A string block
\* that is still allocated belongs to a variable not freed yet, unless
\* cn_track_str ran out of memory for it.
FreeReleases ==
  misfreed \/ Live("str") \subseteq {var[v] : v \in mine} \cup untracked

-----------------------------------------------------------------------------
(* Why strings and zones stay owned *)

HeapRecord(h) ==
  /\ h = [block |-> h.block, mem |-> h.mem, nodes |-> h.nodes, str_head |-> h.str_head, bad |-> h.bad]
  /\ h.block \in [Addr -> Kinds]
  /\ h.mem = [a \in Addr |-> h.mem[a]]
  /\ h.nodes \in Nat
  /\ h.str_head \in Seq(Addr)

\* A zone that could not be allocated has no blocks.
ProgramTypes ==
  /\ zones \in Seq([null : BOOLEAN, blocks : Seq(Addr)])
  /\ \A i \in DOMAIN zones : zones[i].null => zones[i].blocks = <<>>
  /\ var \in [Var -> Addr \cup {Null}]
  /\ mine \subseteq Var
  /\ told = [v \in Var |-> told[v]]
  /\ untracked \subseteq Addr /\ handed \subseteq Addr
  /\ misfreed \in BOOLEAN

StringsKept ==
  misfreed \/ \A v \in mine :
    var[v] \in Addr /\ heap.block[var[v]] = "str" /\ heap.mem[var[v]] = told[v]
=============================================================================
