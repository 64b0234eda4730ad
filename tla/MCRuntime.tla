----------------------------- MODULE MCRuntime -----------------------------
(***************************************************************************)
(* The runtime prelude of a compiled program: strings, zones and buffers   *)
(* over one heap, children and sockets over one descriptor table, strings  *)
(* from both on the one list.  Each behaviour exercises one part of it.    *)
(***************************************************************************)
EXTENDS RuntimeBuffers, Net

CONSTANTS v1, v2, Parts

ASSUME PartsAssumption == v1 \in Var /\ "k1" \in Kid /\ "s1" \in Sock /\ 0 \in Ports

VARIABLE part

vars == <<heapVars, bufferVars, ipcVars, netVars, part>>

MCTexts == {<<1>>, <<2>>}
MCAddr == 1..4
MCFd == 3..11

Init ==
  /\ HeapInit /\ BuffersInit /\ IpcInit /\ NetInit
  /\ part \in Parts
  \* Only two children and a socket come near the limit of descriptors.
  /\ part # "family" => Inherited \notin Range(fds)

notHeap == <<bufferVars, ipcVars, netVars, part>>
notIpc == <<bufferVars, netVars, part>>
notBuffers == <<ipcVars, netVars, part>>

\* A program that freed or closed what was no longer its own, or read a
\* slice that had moved, is not followed any further.
Defined == ~misfreed /\ ~misread /\ ~strayClosed

FreeStrings(vs) == \E v \in vs : FreeString(v)

\* The program has one thread: while a call is in progress it does nothing else.
Between == call = Idle /\ UNCHANGED notHeap

\* One socket among the pipes of two children.
OneSocket ==
  \/ cn_net_tcp_connect("s1", "localhost", 0, "none")
  \/ cn_net_close("s1")

Next ==
  /\ Defined
  /\ part # "strings" => untracked' = {}
  /\ \/ part = "strings" /\ StringNext(Var) /\ Between
     \/ part = "strings" /\ ZoneNext /\ Between
     \/ part = "bytes" /\ BytesNext({v1}) /\ call = Idle /\ UNCHANGED notBuffers
     \/ part = "lines" /\ LinesNext({v1}) /\ call = Idle /\ UNCHANGED notBuffers
     \/ part = "lines" /\ StringNext({v1}) /\ Between
     \/ part \in {"bytes", "child"} /\ ~killed /\ FreeStrings({v1}) /\ Between
     \/ part = "child" /\ ~killed /\ TalkNext({"k1"}, {v1}) /\ UNCHANGED notIpc
     \/ part = "child" /\ ~killed /\ LifeNext({"k1"}) /\ UNCHANGED notIpc
     \/ part = "family" /\ LifeNext(Kid) /\ UNCHANGED notIpc
     \/ part = "family" /\ OneSocket /\ UNCHANGED <<bufferVars, part>>
     \/ part = "net" /\ NetNext(Var) /\ UNCHANGED <<bufferVars, part>>
     \/ part = "net" /\ FreeStrings(Var) /\ Between
     \/ CallStep /\ UNCHANGED notIpc
     \/ \E k \in Kid : KidNext(k) /\ UNCHANGED notIpc
     \/ \E k \in Kid : KidStops(k) /\ UNCHANGED notIpc

\* A system call that can return does, and the children run.
Fairness ==
  /\ WF_vars(CallStep /\ UNCHANGED notIpc)
  /\ \A k \in Kid : WF_vars(KidNext(k) /\ UNCHANGED notIpc)

Spec == Init /\ [][Next]_vars /\ Fairness

TypeOK == HeapTypeOK /\ BuffersTypeOK /\ IpcTypeOK /\ NetTypeOK

\* The records of the handles of children.
HandleNodes == 2 * Cardinality({k \in Kid : HasHandle(k)})

\* Every block the runtime has allocated has exactly one owner that will
\* release it: the list of strings, an open zone, a buffer for its data and
\* the copies of its lines, or the handle of a child; and nothing is released
\* twice.  Allocations that fail half way through an operation leave no block
\* behind: core.c, bytes.c, text.c, lines.c, net.c, native_runtime.c.
EveryBlockHasAnOwner ==
  /\ ~heap.bad
  /\ StringsOwned
  /\ ZonesOwned
  /\ BuffersOwned
  /\ heap.nodes = LinkNodes + Headers + HandleNodes

\* The inductive form: the heap has its shape, each block its owner, and the
\* contents are those the program was told of.
OInv ==
  /\ HeapRecord(heap) /\ ProgramTypes /\ BufferTypes /\ CallSpare
  /\ EveryBlockHasAnOwner
  /\ IsFiniteSet({k \in Kid : HasHandle(k)}) /\ IsFiniteSet(ZonePlaces)
  /\ StringsKept /\ BytesHeld /\ LinesHeld
=============================================================================
