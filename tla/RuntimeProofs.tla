---------------------------- MODULE RuntimeProofs ----------------------------
(***************************************************************************)
(* The runtime prelude for any number of children, sockets, descriptors,   *)
(* addresses and variables.  The model checker follows one part of the     *)
(* runtime at a time; here every operation of every part may follow every  *)
(* other one.                                                              *)
(***************************************************************************)
EXTENDS MCRuntime, SetSums, SequenceTheorems

\* A single-threaded program that uses all of the runtime, and its children.
WholeNext ==
  \/ (StringNext(Var) \/ ZoneNext) /\ Between
  \/ (BytesNext(Var) \/ LinesNext(Var)) /\ call = Idle /\ UNCHANGED notBuffers
  \/ (TalkNext(Kid, Var) \/ LifeNext(Kid) \/ CallStep) /\ UNCHANGED notIpc
  \/ (\E k \in Kid : KidNext(k) \/ KidStops(k)) /\ UNCHANGED notIpc
  \/ NetNext(Var) /\ UNCHANGED <<bufferVars, part>>

WholeSpec == Init /\ [][WholeNext]_vars

\* What the model checker follows is part of what the whole program may do.
LEMMA NextIsPartOfWhole == [Next]_vars => [WholeNext]_vars
  <1> SUFFICES ASSUME Next PROVE WholeNext
    OBVIOUS
  <1> USE PartsAssumption
  <1>1. ASSUME NEW vs \in SUBSET Var, FreeStrings(vs) PROVE StringNext(Var)
    BY <1>1 DEF FreeStrings, StringNext
  <1>2. StringNext({v1}) => StringNext(Var)
    BY DEF StringNext
  <1>3. BytesNext({v1}) => BytesNext(Var)
    BY Zenon DEF BytesNext
  <1>4. LinesNext({v1}) => LinesNext(Var)
    BY Zenon DEF LinesNext
  <1>5. TalkNext({"k1"}, {v1}) => TalkNext(Kid, Var)
    BY Zenon DEF TalkNext
  <1>6. LifeNext({"k1"}) => LifeNext(Kid)
    BY Zenon DEF LifeNext
  <1>7. OneSocket => NetNext(Var)
    BY Zenon DEF OneSocket, NetNext, Hosts
  <1>8. {v1} \subseteq Var /\ Var \subseteq Var
    OBVIOUS
  <1> QED BY <1>1, <1>2, <1>3, <1>4, <1>5, <1>6, <1>7, <1>8, Zenon DEF Next, WholeNext

-----------------------------------------------------------------------------
(* The descriptor table.                                                      *)

\* The ends of the pipes, the sockets and the free entries of the table differ.
LEMMA Descriptors ==
  /\ Closed # Inherited
  /\ \A k, s, e : End(k, s, e) # Closed /\ End(k, s, e) # Inherited
  /\ \A i : SockObj(i) # Closed /\ SockObj(i) # Inherited
  /\ \A k, s, e, i : End(k, s, e) # SockObj(i)
  /\ \A k, s, e, j, t, d : End(k, s, e) = End(j, t, d) => k = j /\ s = t /\ e = d
  /\ \A i, j : SockObj(i) = SockObj(j) => i = j
  <1>1. \A k, s, e, i : /\ Len(End(k, s, e)) = 3 /\ Len(SockObj(i)) = 2
                        /\ Len(Closed) = 0 /\ Len(Inherited) = 1
    BY DEF End, SockObj, Closed, Inherited
  <1>2. \A k, s, e, j, t, d : End(k, s, e) = End(j, t, d) => k = j /\ s = t /\ e = d
    BY DEF End
  <1>3. \A i, j : SockObj(i) = SockObj(j) => i = j
    BY DEF SockObj
  <1> QED BY <1>1, <1>2, <1>3

\* The program's ends of two pipes are the same only if the pipes are.
LEMMA OurEnds ==
  /\ \A k, s : OurEnd(k, s) \notin {Closed, Inherited}
  /\ \A k, s, i : OurEnd(k, s) # SockObj(i)
  /\ \A j, k : \A s, t \in Streams : OurEnd(k, s) = OurEnd(j, t) => k = j /\ s = t
  BY Descriptors DEF OurEnd

\* The lowest free descriptor is a free descriptor.
LEMMA LowestFree ==
  ASSUME NEW t, FreeFds(t) # {}
  PROVE  Min(FreeFds(t)) \in FreeFds(t)
  <1>1. FreeFds(t) \in SUBSET Nat
    BY IpcAssumption DEF FreeFds
  <1>2. \E n \in FreeFds(t) : \A m \in FreeFds(t) : n <= m
    BY <1>1, LeastNat
  <1> QED BY <1>2 DEF Min

\* A new descriptor is a free entry of the table, and the only one that changes.
LEMMA OpenFacts ==
  ASSUME NEW t, NEW what
  PROVE  LET o == Open(t, what)
         IN  \/ FreeFds(t) = {} /\ o.fd = -1 /\ o.t = t
             \/ o.fd \in FreeFds(t) /\ o.t = [t EXCEPT ![o.fd] = what]
  BY LowestFree DEF Open

\* pipe() takes two free descriptors, or leaves the table alone.
LEMMA PipeFacts ==
  ASSUME NEW t, t = [f \in Fd |-> t[f]], NEW k, NEW s
  PROVE  LET p == Pipe(t, k, s)
         IN  \/ ~p.ok /\ p.t = t
             \/ /\ p.ok
                /\ p.r \in FreeFds(t) /\ p.w \in FreeFds(t) /\ p.r # p.w
                /\ p.t = [f \in Fd |-> IF f = p.r THEN End(k, s, "r")
                                       ELSE IF f = p.w THEN End(k, s, "w") ELSE t[f]]
  <1> DEFINE o == Open(t, End(k, s, "r"))
             q == Open(o.t, End(k, s, "w"))
  <1>1. CASE Cardinality(FreeFds(t)) < 2
    BY <1>1 DEF Pipe
  <1>2. CASE ~(Cardinality(FreeFds(t)) < 2)
    <2>1. Pipe(t, k, s) = [ok |-> TRUE, t |-> q.t, r |-> o.fd, w |-> q.fd]
      BY <1>2 DEF Pipe
    <2>2. IsFiniteSet(FreeFds(t))
      BY IpcAssumption, FS_Subset DEF FreeFds
    <2>3. FreeFds(t) # {}
      BY <1>2, FS_EmptySet
    <2>4. o.fd \in FreeFds(t) /\ o.t = [t EXCEPT ![o.fd] = End(k, s, "r")]
      BY <2>3, OpenFacts
    <2>5. FreeFds(o.t) = FreeFds(t) \ {o.fd}
      <3> HIDE DEF o
      <3> QED BY <2>4, Descriptors DEF FreeFds
    <2>6. FreeFds(o.t) # {}
      <3>1. Cardinality(FreeFds(t) \ {o.fd}) = Cardinality(FreeFds(t)) - 1
        BY <2>2, <2>4, FS_RemoveElement
      <3>2. Cardinality(FreeFds(t)) \in Nat /\ Cardinality({}) = 0
        BY <2>2, FS_CardinalityType, FS_EmptySet
      <3>3. ASSUME FreeFds(t) \ {o.fd} = {} PROVE FALSE
        <4>1. Cardinality(FreeFds(t) \ {o.fd}) = 0
          BY <3>2, <3>3, Zenon
        <4> QED BY <1>2, <3>1, <3>2, <4>1
      <3> QED BY <2>5, <3>3, Zenon
    <2>7. q.fd \in FreeFds(o.t) /\ q.t = [o.t EXCEPT ![q.fd] = End(k, s, "w")]
      BY <2>6, OpenFacts
    <2> HIDE DEF o, q
    <2>8. o.fd \in Fd /\ q.fd \in Fd /\ q.fd # o.fd /\ q.fd \in FreeFds(t)
      BY <2>4, <2>5, <2>7 DEF FreeFds
    <2>9. q.t = [f \in Fd |-> IF f = o.fd THEN End(k, s, "r")
                              ELSE IF f = q.fd THEN End(k, s, "w") ELSE t[f]]
      BY <2>4, <2>7, <2>8
    <2> QED BY <2>1, <2>4, <2>8, <2>9
  <1> QED BY <1>1, <1>2

\* The three pipes of a spawn: all six descriptors were free, and closing the
\* ones a failing path closes brings back the table as it was.
LEMMA PipesFacts ==
  ASSUME fds = [f \in Fd |-> fds[f]], NEW k
  PROVE  LET p == Pipes(k)
             t == CloseAll(p.t, {p.in.r, p.out.w, p.err.w})
         IN  \/ ~p.ok /\ p.t = fds
             \/ /\ p.ok
                /\ CloseAll(t, {p.in.w, p.out.r, p.err.r}) = fds
                /\ {p.in.w, p.out.r, p.err.r} \subseteq FreeFds(fds)
                /\ p.in.w # p.out.r /\ p.in.w # p.err.r /\ p.out.r # p.err.r
                /\ t = [f \in Fd |-> IF f = p.in.w THEN OurEnd(k, "in")
                                     ELSE IF f = p.out.r THEN OurEnd(k, "out")
                                     ELSE IF f = p.err.r THEN OurEnd(k, "err") ELSE fds[f]]
  <1> DEFINE i == Pipe(fds, k, "in")
             o == Pipe(i.t, k, "out")
             e == Pipe(o.t, k, "err")
  <1>1. \/ ~i.ok /\ i.t = fds
        \/ /\ i.ok
           /\ i.r \in FreeFds(fds) /\ i.w \in FreeFds(fds) /\ i.r # i.w
           /\ i.t = [f \in Fd |-> IF f = i.r THEN End(k, "in", "r")
                                  ELSE IF f = i.w THEN End(k, "in", "w") ELSE fds[f]]
    BY PipeFacts
  <1>2. i.t = [f \in Fd |-> i.t[f]]
    <2> HIDE DEF i
    <2> QED BY <1>1
  <1>3. \/ ~o.ok /\ o.t = i.t
        \/ /\ o.ok
           /\ o.r \in FreeFds(i.t) /\ o.w \in FreeFds(i.t) /\ o.r # o.w
           /\ o.t = [f \in Fd |-> IF f = o.r THEN End(k, "out", "r")
                                  ELSE IF f = o.w THEN End(k, "out", "w") ELSE i.t[f]]
    <2> HIDE DEF i
    <2> QED BY <1>2, PipeFacts
  <1>4. o.t = [f \in Fd |-> o.t[f]]
    <2> HIDE DEF i, o
    <2> QED BY <1>2, <1>3
  <1>5. \/ ~e.ok /\ e.t = o.t
        \/ /\ e.ok
           /\ e.r \in FreeFds(o.t) /\ e.w \in FreeFds(o.t) /\ e.r # e.w
           /\ e.t = [f \in Fd |-> IF f = e.r THEN End(k, "err", "r")
                                  ELSE IF f = e.w THEN End(k, "err", "w") ELSE o.t[f]]
    <2> HIDE DEF i, o
    <2> QED BY <1>4, PipeFacts
  <1>6. CASE ~i.ok
    <2>1. Pipes(k) = [ok |-> FALSE, t |-> i.t]
      BY <1>6 DEF Pipes
    <2> HIDE DEF i
    <2> QED BY <1>1, <1>6, <2>1
  <1>7. CASE i.ok /\ ~o.ok
    <2>1. Pipes(k) = [ok |-> FALSE, t |-> CloseAll(o.t, {i.r, i.w})]
      BY <1>7 DEF Pipes
    <2> HIDE DEF i, o
    <2>2. CloseAll(o.t, {i.r, i.w}) = fds
      BY <1>1, <1>3, <1>7 DEF CloseAll, FreeFds
    <2> QED BY <2>1, <2>2
  <1>8. CASE i.ok /\ o.ok
    <2> HIDE DEF i, o, e
    <2>1. /\ {i.r, i.w, o.r, o.w} \subseteq FreeFds(fds)
          /\ o.r \notin {i.r, i.w} /\ o.w \notin {i.r, i.w}
      BY <1>1, <1>3, <1>8, Descriptors DEF FreeFds
    <2>2. o.t = [f \in Fd |-> CASE f = i.r -> End(k, "in", "r") [] f = i.w -> End(k, "in", "w")
                                [] f = o.r -> End(k, "out", "r") [] f = o.w -> End(k, "out", "w")
                                [] OTHER -> fds[f]]
      BY <1>1, <1>3, <1>8, <2>1
    <2>3. CASE ~e.ok
      <3>1. Pipes(k) = [ok |-> FALSE, t |-> CloseAll(e.t, {i.r, i.w, o.r, o.w})]
        BY <1>8, <2>3 DEF Pipes, i, o, e
      <3>2. CloseAll(e.t, {i.r, i.w, o.r, o.w}) = fds
        BY <1>5, <2>1, <2>2, <2>3 DEF CloseAll, FreeFds
      <3> QED BY <3>1, <3>2
    <2>4. CASE e.ok
      <3>1. Pipes(k) = [ok |-> TRUE, t |-> e.t, in |-> i, out |-> o, err |-> e]
        BY <1>8, <2>4 DEF Pipes, i, o, e
      <3>2. /\ {e.r, e.w} \subseteq FreeFds(fds)
            /\ e.r \notin {i.r, i.w, o.r, o.w} /\ e.w \notin {i.r, i.w, o.r, o.w}
        BY <1>5, <2>1, <2>2, <2>4, Descriptors DEF FreeFds
      <3>3. e.t = [f \in Fd |-> CASE f = i.r -> End(k, "in", "r") [] f = i.w -> End(k, "in", "w")
                                  [] f = o.r -> End(k, "out", "r") [] f = o.w -> End(k, "out", "w")
                                  [] f = e.r -> End(k, "err", "r") [] f = e.w -> End(k, "err", "w")
                                  [] OTHER -> fds[f]]
        BY <1>5, <2>1, <2>2, <2>4, <3>2
      <3> DEFINE t == CloseAll(e.t, {i.r, o.w, e.w})
      <3>4. t = [f \in Fd |-> IF f = i.w THEN OurEnd(k, "in")
                             ELSE IF f = o.r THEN OurEnd(k, "out")
                             ELSE IF f = e.r THEN OurEnd(k, "err") ELSE fds[f]]
        BY <1>1, <1>3, <1>5, <1>8, <2>1, <2>4, <3>2, <3>3 DEF CloseAll, FreeFds, OurEnd
      <3>5. CloseAll(t, {i.w, o.r, e.r}) = fds
        <4> HIDE DEF t
        <4> QED BY <2>1, <3>2, <3>4 DEF CloseAll, FreeFds
      <3> HIDE DEF t
      <3>6. t = CloseAll(e.t, {i.r, o.w, e.w})
        BY DEF t
      <3> QED BY <2>1, <3>1, <3>2, <3>4, <3>5, <3>6
    <2> QED BY <2>3, <2>4
  <1> QED BY <1>6, <1>7, <1>8

\* What a handle has for a stream is a descriptor, or says that it is closed.
LEMMA HandleStreams ==
  ASSUME NEW h \in Handles, NEW s \in Streams
  PROVE  h[s] \in FdOrNone /\ (h[s] >= 0 => h[s] \in Fd)
  <1>1. h["in"] \in FdOrNone /\ h["out"] \in FdOrNone /\ h["err"] \in FdOrNone
    BY DEF Handles
  <1> QED BY <1>1 DEF Streams, FdOrNone

\* Noting that a child was waited for leaves its descriptors alone.
LEMMA WaitedHandle ==
  ASSUME NEW h \in Handles
  PROVE  LET w == [h EXCEPT !.waited = TRUE]
         IN  w \in Handles /\ w.waited /\ \A s \in Streams : w[s] = h[s]
  BY DEF Handles, Streams

\* At the start the table holds only what the program was started with.
LEMMA InitTable == Init => HInv
  <1> SUFFICES ASSUME Init PROVE HInv
    OBVIOUS
  <1> USE DEF Init, IpcInit, NetInit
  <1>1. fds \in [Fd -> Descriptions] /\ \A f \in Fd : fds[f] \in {Closed, Inherited}
    BY DEF Descriptions
  <1>2. TableTypes
    BY <1>1, Zenon DEF TableTypes, Handles, NoHandle, NoSock, FdOrNone
  <1>3. HandlesAccounted
    BY <1>1 DEF HandlesAccounted, HasHandle, Usable, NoHandle, NoSock, Streams
  <1>4. \A k \in Kid : ~HasHandle(k)
    BY DEF HasHandle
  <1> QED BY <1>2, <1>3, <1>4 DEF HInv

\* Steps that open and close nothing: a child that runs on, or stops, is still
\* the child its handle names.
LEMMA SameTable ==
  ASSUME HInv, UNCHANGED <<fds, handle, socks, strayClosed>>,
         kids' = [k \in Kid |-> kids'[k]],
         \A k \in Kid : /\ DOMAIN kids'[k] = {"st", "pid", "holds", "line", "todo"}
                        /\ kids'[k].pid = kids[k].pid
                        /\ kids[k].st # "none" => kids'[k].st # "none"
                        /\ Alive(k) => kids'[k].st \in {"run", "zombie"}
  PROVE  HInv'
  <1>1. TableTypes'
    BY DEF HInv, TableTypes
  <1>2. (\A k \in Kid : HasHandle(k) => kids[k].st # "none")'
    BY DEF HInv, HasHandle
  <1>3. HandlesAccounted'
    BY DEF HInv, HandlesAccounted, HasHandle, Usable, Alive
  <1> QED BY <1>1, <1>2, <1>3 DEF HInv

\* A step that leaves the table, the handles and the sockets alone keeps HInv.
LEMMA TableUntouched ==
  ASSUME HInv, UNCHANGED <<fds, handle, socks, strayClosed, kids>>
  PROVE  HInv'
  BY SameTable DEF HInv, TableTypes, Alive

\* A child that exits leaves the program's table alone.
LEMMA ExitTable ==
  ASSUME HInv, NEW j \in Kid, kids[j].st = "run", kids' = [kids EXCEPT ![j] = Exited(@)],
         UNCHANGED <<fds, handle, socks, strayClosed>>
  PROVE  HInv'
  <1>1. kids = [k \in Kid |-> kids[k]]
        /\ \A k \in Kid : DOMAIN kids[k] = {"st", "pid", "holds", "line", "todo"}
    BY DEF HInv, TableTypes
  <1>2. \A k \in Kid : kids'[k] = IF k = j THEN Exited(kids[k]) ELSE kids[k]
    BY <1>1
  <1>3. kids' = [k \in Kid |-> kids'[k]]
    BY <1>1
  <1>4. DOMAIN Exited(kids[j]) = {"st", "pid", "holds", "line", "todo"}
        /\ Exited(kids[j]).pid = kids[j].pid /\ Exited(kids[j]).st = "zombie"
    BY <1>1 DEF Exited
  <1> QED BY <1>1, <1>2, <1>3, <1>4, SameTable DEF Alive

\* Nothing a child does changes the program's table.
LEMMA KidTable ==
  ASSUME HInv, UNCHANGED <<socks, strayClosed>>, NEW k \in Kid, KidNext(k) \/ KidStops(k)
  PROVE  HInv'
  <1>1. UNCHANGED <<fds, handle>> /\ kids[k].st = "run"
    BY DEF KidNext, KidRead, KidWrite, KidEnds, KidStops, Runs, theirs, ours
  <1>2. CASE kids' = [kids EXCEPT ![k] = Exited(@)]
    BY <1>1, <1>2, ExitTable
  <1>3. ASSUME NEW line, NEW todo,
               kids' = [kids EXCEPT ![k].line = line, ![k].todo = todo]
        PROVE  HInv'
    BY <1>1, <1>3, SameTable DEF HInv, TableTypes, Alive
  <1>4. ASSUME NEW line, kids' = [kids EXCEPT ![k].line = line] PROVE HInv'
    BY <1>1, <1>4, SameTable DEF HInv, TableTypes, Alive
  <1>5. ASSUME NEW todo, kids' = [kids EXCEPT ![k].todo = todo] PROVE HInv'
    BY <1>1, <1>5, SameTable DEF HInv, TableTypes, Alive
  <1>6. CASE KidRead(k)
    <2> DEFINE item == Head(pipe[<<k, "in">>])
               todo(c, cr) == c \o [i \in 1..(Len(kids[k].line) + Len(cr) + 1) |->
                                     <<"out", (kids[k].line \o cr \o <<Nl>>)[i]>>]
    <2>1. \/ kids' = [kids EXCEPT ![k].line = Append(@, item)]
          \/ \E c \in {<<>>, << <<"err", Nl>> >>}, cr \in {<<>>, <<Cr>>} :
               kids' = [kids EXCEPT ![k].line = <<>>, ![k].todo = todo(c, cr)]
      BY <1>6, Zenon DEF KidRead
    <2> HIDE DEF item, todo
    <2> QED BY <1>3, <1>4, <2>1
  <1>7. CASE KidWrite(k)
    <2>1. \/ kids' = [kids EXCEPT ![k].todo = Tail(@)]
          \/ kids' = [kids EXCEPT ![k] = Exited(@)]
      BY <1>7 DEF KidWrite
    <2> QED BY <1>2, <1>5, <2>1
  <1>8. CASE KidEnds(k) \/ KidStops(k)
    BY <1>2, <1>8 DEF KidEnds, KidStops
  <1> QED BY <1>6, <1>7, <1>8 DEF KidNext

\* The program's end of a pipe is something a descriptor may stand for.
LEMMA EndsDescribed ==
  ASSUME NEW k \in Kid, NEW s \in Streams PROVE OurEnd(k, s) \in Descriptions
  <1>1. ASSUME NEW e \in {"r", "w"} PROVE End(k, s, e) \in Descriptions
    <2>1. <<k, s, e>> \in Kid \X Streams \X {"r", "w"}
      OBVIOUS
    <2>2. <<k, s, e>>[1] = k /\ <<k, s, e>>[2] = s /\ <<k, s, e>>[3] = e
      OBVIOUS
    <2> QED BY <2>1, <2>2 DEF Descriptions
  <1> QED BY <1>1 DEF OurEnd

\* spawn: the handle has the program's ends of the three pipes, or the table is as before.
LEMMA SpawnTable ==
  ASSUME HInv, UNCHANGED <<socks, strayClosed>>,
         NEW k \in Kid, NEW pid \in Pid, NEW outcome, cn_ipc_native_spawn(k, pid, outcome)
  PROVE  HInv'
  <1> DEFINE p == Pipes(k)
             t == CloseAll(p.t, {p.in.r, p.out.w, p.err.w})
             new == [pid |-> pid, in |-> p.in.w, out |-> p.out.r, err |-> p.err.r, waited |-> FALSE]
  <1>1. TableTypes /\ fds = [f \in Fd |-> fds[f]] /\ kids[k].st = "none" /\ ~HasHandle(k)
    BY DEF HInv, TableTypes, cn_ipc_native_spawn
  <1>2. \/ ~p.ok /\ p.t = fds
        \/ /\ p.ok
           /\ CloseAll(t, {p.in.w, p.out.r, p.err.r}) = fds
           /\ {p.in.w, p.out.r, p.err.r} \subseteq FreeFds(fds)
           /\ p.in.w # p.out.r /\ p.in.w # p.err.r /\ p.out.r # p.err.r
           /\ t = [f \in Fd |-> IF f = p.in.w THEN OurEnd(k, "in")
                                ELSE IF f = p.out.r THEN OurEnd(k, "out")
                                ELSE IF f = p.err.r THEN OurEnd(k, "err") ELSE fds[f]]
    BY <1>1, PipesFacts
  <1>3. \/ /\ ~p.ok \/ outcome = "no process"
           /\ fds' = IF p.ok THEN CloseAll(t, {p.in.w, p.out.r, p.err.r}) ELSE p.t
           /\ UNCHANGED <<kids, handle>>
        \/ /\ p.ok
           /\ kids' = [kids EXCEPT ![k] = [@ EXCEPT !.st = "run", !.pid = pid, !.holds = ChildHolds(p.t, k)]]
           /\ \/ fds' = CloseAll(t, {p.in.w, p.out.r, p.err.r}) /\ UNCHANGED handle
              \/ fds' = t /\ handle' = [handle EXCEPT ![k] = new]
    BY DEF cn_ipc_native_spawn
  <1> HIDE DEF p, t
  <1>4. CASE UNCHANGED <<kids, handle>> /\ fds' = fds
    BY <1>4, TableUntouched
  <1>5. ASSUME p.ok,
               kids' = [kids EXCEPT ![k] = [@ EXCEPT !.st = "run", !.pid = pid, !.holds = ChildHolds(p.t, k)]]
        PROVE  /\ kids' = [j \in Kid |-> kids'[j]]
               /\ \A j \in Kid : DOMAIN kids'[j] = {"st", "pid", "holds", "line", "todo"}
               /\ \A j \in Kid : j # k => kids'[j] = kids[j]
               /\ kids'[k].st = "run" /\ kids'[k].pid = pid
    BY <1>1, <1>5 DEF TableTypes
  <1>6. CASE /\ p.ok
             /\ kids' = [kids EXCEPT ![k] = [@ EXCEPT !.st = "run", !.pid = pid, !.holds = ChildHolds(p.t, k)]]
             /\ fds' = fds /\ handle' = handle
    <2>1. TableTypes'
      BY <1>1, <1>5, <1>6 DEF TableTypes
    <2>2. HandlesAccounted'
      BY <1>1, <1>5, <1>6 DEF HInv, HandlesAccounted, HasHandle, Usable, Alive
    <2>3. (\A j \in Kid : HasHandle(j) => kids[j].st # "none")'
      BY <1>5, <1>6 DEF HInv, HasHandle
    <2> QED BY <2>1, <2>2, <2>3 DEF HInv
  <1>7. CASE /\ p.ok
             /\ kids' = [kids EXCEPT ![k] = [@ EXCEPT !.st = "run", !.pid = pid, !.holds = ChildHolds(p.t, k)]]
             /\ fds' = t /\ handle' = [handle EXCEPT ![k] = new]
    <2> DEFINE a == p.in.w
               b == p.out.r
               c == p.err.r
    <2>1. /\ a \in Fd /\ b \in Fd /\ c \in Fd /\ a # b /\ a # c /\ b # c
          /\ fds[a] = Closed /\ fds[b] = Closed /\ fds[c] = Closed
      BY <1>2, <1>7 DEF FreeFds
    <2>2. fds' = [f \in Fd |-> IF f = a THEN OurEnd(k, "in") ELSE IF f = b THEN OurEnd(k, "out")
                              ELSE IF f = c THEN OurEnd(k, "err") ELSE fds[f]]
      BY <1>2, <1>7
    <2>3. /\ \A j \in Kid : j # k => handle'[j] = handle[j]
          /\ handle'[k] = [pid |-> pid, in |-> a, out |-> b, err |-> c, waited |-> FALSE]
      BY <1>1, <1>7 DEF TableTypes
    <2> HIDE DEF a, b, c
    <2>4. TableTypes'
      <3>1. \A s \in Streams : OurEnd(k, s) \in Descriptions
        BY EndsDescribed
      <3>2. fds' \in [Fd -> Descriptions]
        BY <1>1, <2>2, <3>1 DEF TableTypes, Streams
      <3>3. handle' \in [Kid -> Handles]
        BY <1>1, <1>7, <2>1, <2>3 DEF TableTypes, Handles, FdOrNone
      <3> QED BY <1>1, <1>5, <1>7, <3>2, <3>3 DEF TableTypes
    <2>5. (\A j \in Kid : HasHandle(j) => kids[j].st # "none")'
      BY <1>5, <1>7, <2>3 DEF HInv, HasHandle
    <2>6. ASSUME ~strayClosed' PROVE HandlesAccounted'
      <3>1. ~strayClosed /\ HandlesAccounted
        BY <2>6 DEF HInv
      <3>2. \A s \in Streams : handle'[k][s] \in Fd /\ fds'[handle'[k][s]] = OurEnd(k, s)
        BY <2>1, <2>2, <2>3 DEF Streams
      <3>3. ASSUME NEW f \in Fd, fds[f] # Closed PROVE fds'[f] = fds[f]
        BY <2>1, <2>2, <3>3
      <3>4. ASSUME NEW j \in Kid, NEW s \in Streams, handle'[j][s] >= 0
            PROVE  fds'[handle'[j][s]] = OurEnd(j, s)
        <4>1. CASE j # k
          <5>1. handle[j][s] >= 0 /\ handle[j][s] \in Fd
            BY <1>1, <2>3, <3>4, <4>1, HandleStreams DEF TableTypes
          <5>2. fds[handle[j][s]] = OurEnd(j, s)
            BY <3>1, <5>1 DEF HandlesAccounted
          <5> QED BY <2>3, <3>3, <4>1, <5>1, <5>2, OurEnds
        <4> QED BY <3>2, <4>1
      <3>5. ASSUME NEW i \in Sock, Usable(i)' PROVE fds'[socks'[i].fd] = SockObj(i)
        <4>1. Usable(i) /\ fds[socks[i].fd] = SockObj(i) /\ socks[i].fd \in Fd
          BY <1>1, <3>1, <3>5 DEF HandlesAccounted, Usable, TableTypes
        <4> QED BY <3>3, <4>1, Descriptors
      <3>6. ASSUME NEW f \in Fd, fds'[f] \notin {Closed, Inherited}
            PROVE  \/ \E j \in Kid, s \in Streams : handle'[j][s] = f
                   \/ \E i \in Sock : Usable(i)' /\ socks'[i].fd = f
        <4>1. CASE f \in {a, b, c}
          BY <2>3, <4>1 DEF Streams
        <4>2. CASE f \notin {a, b, c}
          <5>1. fds'[f] = fds[f]
            BY <2>2, <4>2
          <5>2. CASE \E j \in Kid, s \in Streams : handle[j][s] = f
            <6>1. PICK j \in Kid, s \in Streams : handle[j][s] = f
              BY <5>2
            <6>2. j # k
              BY <1>1, <6>1, IpcAssumption DEF HasHandle, NoHandle, Streams
            <6> QED BY <2>3, <6>1, <6>2
          <5>3. CASE \E i \in Sock : Usable(i) /\ socks[i].fd = f
            BY <5>3 DEF Usable
          <5> QED BY <3>1, <3>6, <5>1, <5>2, <5>3, <2>6 DEF HandlesAccounted
        <4> QED BY <4>1, <4>2
      <3>7. ASSUME NEW j \in Kid, HasHandle(j)', ~handle'[j].waited
            PROVE  Alive(j)' /\ kids'[j].pid = handle'[j].pid
        <4>1. CASE j = k
          BY <1>5, <1>7, <2>3, <4>1 DEF Alive
        <4>2. CASE j # k
          BY <1>5, <1>7, <2>3, <2>6, <3>1, <3>7, <4>2 DEF HandlesAccounted, HasHandle, Alive
        <4> QED BY <4>1, <4>2
      <3> QED BY <3>4, <3>5, <3>6, <3>7 DEF HandlesAccounted, Usable
    <2>7. HandlesAccounted'
      BY <2>6 DEF HandlesAccounted
    <2> QED BY <2>4, <2>5, <2>7 DEF HInv
  <1> QED BY <1>2, <1>3, <1>4, <1>6, <1>7

\* Closing descriptors of a handle or a socket that still owns them.  What the
\* handles and the sockets keep is what the table keeps.
LEMMA StdinCloseTable ==
  ASSUME HInv, UNCHANGED <<socks, strayClosed>>, NEW k \in Kid, cn_ipc_native_stdin_close(k)
  PROVE  HInv'
  <1> DEFINE f == handle[k].in
  <1>1. TableTypes
    BY DEF HInv
  <1>2. /\ f >= 0 /\ fds' = close_fd(fds, f) /\ handle' = [handle EXCEPT ![k].in = -1]
        /\ UNCHANGED kids /\ HasHandle(k)
    BY DEF cn_ipc_native_stdin_close
  <1>3. f \in Fd
    BY <1>1, <1>2 DEF TableTypes, Handles, FdOrNone
  <1>4. fds' = [fds EXCEPT ![f] = Closed]
    BY <1>2 DEF close_fd
  <1>5. /\ \A j \in Kid : j # k => handle'[j] = handle[j]
        /\ handle'[k] = [handle[k] EXCEPT !.in = -1]
    BY <1>1, <1>2 DEF TableTypes
  <1>6. handle'[k].in = -1 /\ handle'[k].out = handle[k].out /\ handle'[k].err = handle[k].err
        /\ handle'[k].waited = handle[k].waited /\ handle'[k].pid = handle[k].pid
    BY <1>1, <1>5 DEF TableTypes, Handles
  <1> HIDE DEF f
  <1>7. TableTypes'
    <2>1. fds' \in [Fd -> Descriptions]
      BY <1>1, <1>4 DEF TableTypes, Descriptions
    <2>2. handle'[k] \in Handles
      BY <1>1, <1>5 DEF TableTypes, Handles, FdOrNone
    <2>3. handle' \in [Kid -> Handles]
      BY <1>1, <1>2, <1>5, <2>2 DEF TableTypes
    <2> QED BY <1>1, <1>2, <2>1, <2>3 DEF TableTypes
  <1>8. (\A j \in Kid : HasHandle(j) => kids[j].st # "none")'
    BY <1>2, <1>5 DEF HInv, HasHandle
  <1>9. ASSUME ~strayClosed' PROVE HandlesAccounted'
    <2>1. ~strayClosed /\ HandlesAccounted /\ fds[f] = OurEnd(k, "in")
      BY <1>2, <1>9 DEF HInv, HandlesAccounted, Streams, f
    <2>2. ASSUME NEW g \in Fd, fds[g] # OurEnd(k, "in") PROVE fds'[g] = fds[g]
      BY <1>1, <1>4, <2>1, <2>2 DEF TableTypes
    <2>3. ASSUME NEW j \in Kid, NEW s \in Streams, handle'[j][s] >= 0
          PROVE  fds'[handle'[j][s]] = OurEnd(j, s)
      <3>1. handle'[j][s] = handle[j][s] /\ (j # k \/ s # "in") /\ handle[j][s] \in Fd
        BY <1>1, <1>5, <1>6, <2>3 DEF TableTypes, Handles, FdOrNone, Streams
      <3>2. fds[handle[j][s]] = OurEnd(j, s)
        BY <1>9, <2>1, <2>3, <3>1 DEF HandlesAccounted
      <3>3. OurEnd(j, s) # OurEnd(k, "in")
        BY <3>1, OurEnds DEF Streams
      <3> QED BY <2>2, <3>1, <3>2, <3>3
    <2>4. ASSUME NEW i \in Sock, Usable(i)' PROVE fds'[socks'[i].fd] = SockObj(i)
      <3>1. Usable(i) /\ fds[socks[i].fd] = SockObj(i) /\ socks[i].fd \in Fd
        BY <1>1, <1>9, <2>1, <2>4 DEF HandlesAccounted, Usable, TableTypes
      <3> QED BY <2>2, <3>1, OurEnds
    <2>5. ASSUME NEW g \in Fd, fds'[g] \notin {Closed, Inherited}
          PROVE  \/ \E j \in Kid, s \in Streams : handle'[j][s] = g
                 \/ \E i \in Sock : Usable(i)' /\ socks'[i].fd = g
      <3>1. g # f /\ fds[g] = fds'[g]
        BY <1>1, <1>4, <2>5 DEF TableTypes
      <3>2. CASE \E j \in Kid, s \in Streams : handle[j][s] = g
        <4>1. PICK j \in Kid, s \in Streams : handle[j][s] = g
          BY <3>2
        <4>2. handle'[j][s] = g
          BY <1>5, <1>6, <3>1, <4>1 DEF Streams, f
        <4> QED BY <4>2
      <3>3. CASE \E i \in Sock : Usable(i) /\ socks[i].fd = g
        BY <3>3 DEF Usable
      <3> QED BY <1>9, <2>1, <2>5, <3>1, <3>2, <3>3 DEF HandlesAccounted
    <2>6. ASSUME NEW j \in Kid, HasHandle(j)', ~handle'[j].waited
          PROVE  Alive(j)' /\ kids'[j].pid = handle'[j].pid
      BY <1>2, <1>5, <1>6, <1>9, <2>1, <2>6 DEF HandlesAccounted, HasHandle, Alive
    <2> QED BY <2>3, <2>4, <2>5, <2>6 DEF HandlesAccounted, Usable
  <1>10. HandlesAccounted'
    BY <1>9 DEF HandlesAccounted
  <1> QED BY <1>7, <1>8, <1>10 DEF HInv

\* release closes what is left of the handle, and nothing else.
LEMMA ReleaseTable ==
  ASSUME HInv, UNCHANGED <<socks, strayClosed>>, NEW k \in Kid, cn_ipc_native_release(k)
  PROVE  HInv'
  <1> DEFINE gone == {handle[k].in, handle[k].out, handle[k].err}
  <1>1. TableTypes
    BY DEF HInv
  <1>2. /\ fds' = [f \in Fd |-> IF f \in gone THEN Closed ELSE fds[f]]
        /\ kids' \in {[kids EXCEPT ![k].st = "reaped"], kids}
        /\ handle' = [handle EXCEPT ![k] = NoHandle]
    BY DEF cn_ipc_native_release, CloseAll
  <1>3. /\ \A j \in Kid : j # k => handle'[j] = handle[j] /\ kids'[j] = kids[j]
        /\ handle'[k] = NoHandle
    BY <1>1, <1>2 DEF TableTypes
  <1>4. \A s \in Streams : NoHandle[s] = -1
    BY DEF NoHandle, Streams
  <1>5. \A s \in Streams : handle[k][s] \in gone
    BY DEF Streams
  <1>6. \A g \in gone : \E s \in Streams : g = handle[k][s]
    BY DEF Streams
  <1> HIDE DEF gone
  <1>7. TableTypes'
    <2>1. fds' \in [Fd -> Descriptions]
      BY <1>1, <1>2 DEF TableTypes, Descriptions
    <2>2. handle' \in [Kid -> Handles]
      BY <1>1, <1>2 DEF TableTypes, Handles, FdOrNone, NoHandle
    <2>3. /\ kids' = [j \in Kid |-> kids'[j]]
          /\ \A j \in Kid : DOMAIN kids'[j] = {"st", "pid", "holds", "line", "todo"}
      BY <1>1, <1>2 DEF TableTypes
    <2> QED BY <1>1, <2>1, <2>2, <2>3 DEF TableTypes
  <1>8. (\A j \in Kid : HasHandle(j) => kids[j].st # "none")'
    BY <1>3 DEF HInv, HasHandle
  <1>9. ASSUME ~strayClosed' PROVE HandlesAccounted'
    <2>1. ~strayClosed /\ HandlesAccounted
      BY <1>9 DEF HInv
    <2>2. ASSUME NEW g \in Fd, \A s \in Streams : fds[g] # OurEnd(k, s) PROVE fds'[g] = fds[g]
      <3>1. g \notin gone
        <4>1. ASSUME NEW s \in Streams PROVE g # handle[k][s]
          BY <1>9, <2>1, <2>2, <4>1, IpcAssumption DEF HandlesAccounted
        <4> QED BY <1>6, <4>1
      <3> QED BY <1>2, <3>1
    <2>3. ASSUME NEW j \in Kid, NEW s \in Streams, handle'[j][s] >= 0
          PROVE  fds'[handle'[j][s]] = OurEnd(j, s)
      <3>1. j # k /\ handle'[j][s] = handle[j][s]
        BY <1>3, <1>4, <2>3
      <3>2. handle[j][s] \in Fd
        BY <1>1, <2>3, <3>1 DEF TableTypes, Handles, FdOrNone, Streams
      <3>3. fds[handle[j][s]] = OurEnd(j, s)
        BY <1>9, <2>1, <2>3, <3>1 DEF HandlesAccounted
      <3> QED BY <2>2, <3>1, <3>2, <3>3, OurEnds
    <2>4. ASSUME NEW i \in Sock, Usable(i)' PROVE fds'[socks'[i].fd] = SockObj(i)
      <3>1. Usable(i) /\ fds[socks[i].fd] = SockObj(i) /\ socks[i].fd \in Fd
        BY <1>1, <1>9, <2>1, <2>4 DEF HandlesAccounted, Usable, TableTypes
      <3> QED BY <2>2, <3>1, OurEnds
    <2>5. ASSUME NEW g \in Fd, fds'[g] \notin {Closed, Inherited}
          PROVE  \/ \E j \in Kid, s \in Streams : handle'[j][s] = g
                 \/ \E i \in Sock : Usable(i)' /\ socks'[i].fd = g
      <3>1. g \notin gone /\ fds[g] = fds'[g]
        BY <1>2, <2>5
      <3>2. CASE \E j \in Kid, s \in Streams : handle[j][s] = g
        BY <1>3, <1>5, <3>1, <3>2
      <3>3. CASE \E i \in Sock : Usable(i) /\ socks[i].fd = g
        BY <3>3 DEF Usable
      <3> QED BY <1>9, <2>1, <2>5, <3>1, <3>2, <3>3 DEF HandlesAccounted
    <2>6. ASSUME NEW j \in Kid, HasHandle(j)', ~handle'[j].waited
          PROVE  Alive(j)' /\ kids'[j].pid = handle'[j].pid
      BY <1>3, <1>9, <2>1, <2>6 DEF HandlesAccounted, HasHandle, Alive
    <2> QED BY <2>3, <2>4, <2>5, <2>6 DEF HandlesAccounted, Usable
  <1>10. HandlesAccounted'
    BY <1>9 DEF HandlesAccounted
  <1> QED BY <1>7, <1>8, <1>10 DEF HInv

\* wait leaves the table alone.
LEMMA WaitTable ==
  ASSUME HInv, UNCHANGED <<socks, strayClosed>>, WaitDone
  PROVE  HInv'
  <1> DEFINE c == call.kid
  <1>1. TableTypes
    BY DEF HInv
  <1>2. /\ kids' = [kids EXCEPT ![c].st = "reaped"] /\ UNCHANGED fds
        /\ handle' = [handle EXCEPT ![c].waited = TRUE]
    BY DEF WaitDone
  <1> HIDE DEF c
  <1>3. /\ kids' = [j \in Kid |-> IF j = c THEN [kids[j] EXCEPT !.st = "reaped"] ELSE kids[j]]
        /\ handle' = [j \in Kid |-> IF j = c THEN [handle[j] EXCEPT !.waited = TRUE] ELSE handle[j]]
    BY <1>1, <1>2 DEF TableTypes
  <1>4. /\ kids' = [j \in Kid |-> kids'[j]]
        /\ \A j \in Kid : DOMAIN kids'[j] = {"st", "pid", "holds", "line", "todo"}
        /\ \A j \in Kid : kids[j].st # "none" => kids'[j].st # "none"
        /\ \A j \in Kid : j # c => kids'[j] = kids[j] /\ handle'[j] = handle[j]
    BY <1>1, <1>3 DEF TableTypes
  <1>5. ASSUME NEW j \in Kid
        PROVE  /\ handle'[j] \in Handles
               /\ \A s \in Streams : handle'[j][s] = handle[j][s]
               /\ j = c => handle'[j].waited
    <2>1. handle[j] \in Handles
      BY <1>1 DEF TableTypes
    <2>2. handle'[j] = IF j = c THEN [handle[j] EXCEPT !.waited = TRUE] ELSE handle[j]
      BY <1>3
    <2> QED BY <2>1, <2>2, WaitedHandle
  <1>6. TableTypes'
    BY <1>1, <1>2, <1>3, <1>4, <1>5 DEF TableTypes
  <1>7. (\A j \in Kid : HasHandle(j) => kids[j].st # "none")'
    <2>1. c \in Kid => kids'[c].st = "reaped"
      BY <1>1, <1>3 DEF TableTypes
    <2> QED BY <1>4, <2>1 DEF HInv, HasHandle
  <1>8. ASSUME ~strayClosed' PROVE HandlesAccounted'
    <2>1. HandlesAccounted /\ ~strayClosed
      BY <1>8 DEF HInv
    <2>2. (\A k \in Kid : HasHandle(k) /\ ~handle[k].waited =>
             Alive(k) /\ kids[k].pid = handle[k].pid)'
      BY <1>4, <1>5, <1>8, <2>1 DEF HandlesAccounted, HasHandle, Alive
    <2>3. ASSUME NEW k \in Kid, NEW s \in Streams, handle'[k][s] >= 0
          PROVE  fds'[handle'[k][s]] = OurEnd(k, s)
      <3>1. handle'[k][s] = handle[k][s]
        BY <1>5
      <3> QED BY <1>2, <2>1, <2>3, <3>1 DEF HandlesAccounted
    <2>4. ASSUME NEW f \in Fd, fds'[f] \notin {Closed, Inherited}
          PROVE  \/ \E k \in Kid, s \in Streams : handle'[k][s] = f
                 \/ \E i \in Sock : Usable(i)' /\ socks'[i].fd = f
      <3>1. CASE \E k \in Kid, s \in Streams : handle[k][s] = f
        <4>1. PICK k \in Kid, s \in Streams : handle[k][s] = f
          BY <3>1
        <4>2. handle'[k][s] = f
          BY <1>5, <4>1
        <4> QED BY <4>2
      <3>2. CASE \E i \in Sock : Usable(i) /\ socks[i].fd = f
        BY <3>2 DEF Usable
      <3> QED BY <1>2, <2>1, <2>4, <3>1, <3>2 DEF HandlesAccounted
    <2>5. (\A i \in Sock : Usable(i) => fds[socks[i].fd] = SockObj(i))'
      BY <1>2, <2>1 DEF HandlesAccounted, Usable
    <2> QED BY <2>2, <2>3, <2>4, <2>5 DEF HandlesAccounted, Usable
  <1>9. HandlesAccounted'
    BY <1>8 DEF HandlesAccounted
  <1> QED BY <1>6, <1>7, <1>9 DEF HInv

\* A socket that was opened is the program's.
LEMMA NewSocketTable ==
  ASSUME HInv, UNCHANGED <<handle, kids, strayClosed>>, NEW i \in Sock, socks[i] = NoSock,
         NEW f \in FreeFds(fds), NEW kind \in {"stream", "listener", "dgram"},
         fds' = [fds EXCEPT ![f] = SockObj(i)],
         socks' = [socks EXCEPT ![i] = [kind |-> kind, fd |-> f, shut |-> FALSE]]
  PROVE  HInv'
  <1>1. TableTypes /\ f \in Fd /\ fds[f] = Closed /\ ~Usable(i)
    BY DEF HInv, FreeFds, Usable, NoSock
  <1>2. /\ fds' = [g \in Fd |-> IF g = f THEN SockObj(i) ELSE fds[g]]
        /\ socks' = [j \in Sock |-> IF j = i THEN [kind |-> kind, fd |-> f, shut |-> FALSE]
                                    ELSE socks[j]]
    BY <1>1 DEF TableTypes
  <1>3. TableTypes'
    <2>1. fds' \in [Fd -> Descriptions]
      BY <1>1, <1>2 DEF TableTypes, Descriptions
    <2> QED BY <1>1, <1>2, <2>1 DEF TableTypes, FdOrNone
  <1>4. \A g \in Fd : fds[g] # Closed => fds'[g] = fds[g]
    BY <1>1, <1>2
  <1>5. ASSUME ~strayClosed' PROVE HandlesAccounted'
    <2>1. HandlesAccounted /\ ~strayClosed
      BY <1>5 DEF HInv
    <2>2. ASSUME NEW k \in Kid, NEW s \in Streams, handle'[k][s] >= 0
          PROVE  fds'[handle'[k][s]] = OurEnd(k, s)
      <3>1. handle[k][s] \in Fd /\ fds[handle[k][s]] = OurEnd(k, s)
        BY <1>1, <2>1, <2>2, HandleStreams DEF HandlesAccounted, TableTypes
      <3> QED BY <1>4, <3>1, OurEnds
    <2>3. ASSUME NEW j \in Sock, Usable(j)' PROVE fds'[socks'[j].fd] = SockObj(j)
      <3>1. CASE j = i
        BY <1>1, <1>2, <3>1
      <3>2. CASE j # i
        <4>1. socks'[j] = socks[j] /\ Usable(j)
          BY <1>2, <2>3, <3>2 DEF Usable
        <4>2. fds[socks[j].fd] = SockObj(j) /\ socks[j].fd \in Fd
          BY <1>1, <2>1, <4>1 DEF HandlesAccounted, Usable, TableTypes
        <4> QED BY <1>4, <4>1, <4>2, Descriptors
      <3> QED BY <3>1, <3>2
    <2>4. ASSUME NEW g \in Fd, fds'[g] \notin {Closed, Inherited}
          PROVE  \/ \E k \in Kid, s \in Streams : handle'[k][s] = g
                 \/ \E j \in Sock : Usable(j)' /\ socks'[j].fd = g
      <3>1. CASE g = f
        <4>1. Usable(i)' /\ socks'[i].fd = f
          BY <1>2 DEF Usable
        <4> QED BY <3>1, <4>1
      <3>2. CASE g # f
        <4>1. fds'[g] = fds[g]
          BY <1>2, <3>2
        <4>2. \A j \in Sock : Usable(j) => j # i /\ socks'[j] = socks[j] /\ Usable(j)'
          BY <1>1, <1>2 DEF Usable
        <4> QED BY <2>1, <2>4, <4>1, <4>2 DEF HandlesAccounted
      <3> QED BY <3>1, <3>2
    <2>5. (\A k \in Kid : HasHandle(k) /\ ~handle[k].waited =>
             Alive(k) /\ kids[k].pid = handle[k].pid)'
      BY <2>1 DEF HandlesAccounted, HasHandle, Alive
    <2> QED BY <2>2, <2>3, <2>4, <2>5 DEF HandlesAccounted, Usable
  <1>6. HandlesAccounted'
    BY <1>5 DEF HandlesAccounted
  <1> QED BY <1>3, <1>6 DEF HInv, HasHandle

\* connect, listen and bind leave a socket in the table, or the table as it was.
LEMMA OpenSocketTable ==
  ASSUME HInv, NEW i \in Sock, NEW kind \in {"stream", "listener", "dgram"},
         NEW host, NEW port, NEW fails, OpenSocket(i, kind, host, port, fails)
  PROVE  HInv'
  <1> DEFINE o == Open(fds, SockObj(i))
  <1>1. TableTypes /\ UNCHANGED <<handle, kids, strayClosed>> /\ socks[i] = NoSock
    BY DEF HInv, OpenSocket, notFds
  <1>2. \/ FreeFds(fds) = {} /\ o.fd = -1 /\ o.t = fds
        \/ o.fd \in FreeFds(fds) /\ o.t = [fds EXCEPT ![o.fd] = SockObj(i)]
    BY OpenFacts
  <1>3. \/ fds' = close_fd(o.t, o.fd) /\ UNCHANGED socks
        \/ /\ o.fd # -1 /\ fds' = o.t
           /\ socks' = [socks EXCEPT ![i] = [kind |-> kind, fd |-> o.fd, shut |-> FALSE]]
    BY DEF OpenSocket
  <1> HIDE DEF o
  <1>4. close_fd(o.t, o.fd) = fds
    <2>1. CASE o.fd = -1 /\ o.t = fds
      BY <2>1 DEF close_fd
    <2>2. CASE o.fd \in FreeFds(fds) /\ o.t = [fds EXCEPT ![o.fd] = SockObj(i)]
      <3>1. o.fd \in Fd /\ o.fd >= 0 /\ fds[o.fd] = Closed
        BY <2>2, IpcAssumption DEF FreeFds
      <3> QED BY <1>1, <2>2, <3>1 DEF close_fd, TableTypes
    <2> QED BY <1>2, <2>1, <2>2
  <1>5. CASE fds' = close_fd(o.t, o.fd) /\ UNCHANGED socks
    BY <1>1, <1>4, <1>5, TableUntouched
  <1>6. CASE /\ o.fd # -1 /\ fds' = o.t
             /\ socks' = [socks EXCEPT ![i] = [kind |-> kind, fd |-> o.fd, shut |-> FALSE]]
    BY <1>1, <1>2, <1>6, NewSocketTable
  <1> QED BY <1>3, <1>5, <1>6

\* accept puts one socket more into the table.
LEMMA AcceptTable ==
  ASSUME HInv, NEW l \in Sock, NEW i \in Sock, cn_net_accept(l, i)
  PROVE  HInv'
  <1> DEFINE o == Open(fds, SockObj(i))
  <1>1. /\ o.fd # -1 /\ fds' = o.t /\ socks[i] = NoSock
        /\ socks' = [socks EXCEPT ![i] = [kind |-> "stream", fd |-> o.fd, shut |-> FALSE]]
        /\ UNCHANGED <<handle, kids, strayClosed>>
    BY DEF cn_net_accept, notFds
  <1>2. o.fd \in FreeFds(fds) /\ o.t = [fds EXCEPT ![o.fd] = SockObj(i)]
    BY <1>1, OpenFacts
  <1> HIDE DEF o
  <1> QED BY <1>1, <1>2, NewSocketTable

\* A close that hits no other one's descriptor.
LEMMA CloseSocketTable ==
  ASSUME HInv, NEW i \in Sock, cn_net_close(i)
  PROVE  HInv'
  <1> DEFINE f == socks[i].fd
  <1>1. /\ socks[i].kind # "none" /\ fds' = close_fd(fds, f)
        /\ socks' = [socks EXCEPT ![i].shut = TRUE]
        /\ strayClosed' = (strayClosed \/ (fds[f] # Closed /\ fds[f] # SockObj(i)))
        /\ UNCHANGED <<handle, kids>>
    BY DEF cn_net_close, notFds
  <1>2. TableTypes /\ f \in Fd
    BY <1>1 DEF HInv, TableTypes
  <1> HIDE DEF f
  <1>3. /\ fds' = [g \in Fd |-> IF g = f THEN Closed ELSE fds[g]]
        /\ socks' = [j \in Sock |-> IF j = i THEN [socks[j] EXCEPT !.shut = TRUE] ELSE socks[j]]
    <2>1. f >= 0
      BY <1>2, IpcAssumption
    <2>2. fds' = [fds EXCEPT ![f] = Closed]
      BY <1>1, <2>1 DEF close_fd
    <2> QED BY <1>1, <1>2, <2>2 DEF TableTypes
  <1>4. /\ [socks[i] EXCEPT !.shut = TRUE] \in
             [kind : {"none", "stream", "listener", "dgram"}, fd : FdOrNone, shut : BOOLEAN]
        /\ [socks[i] EXCEPT !.shut = TRUE].fd = socks[i].fd
        /\ [socks[i] EXCEPT !.shut = TRUE].kind = socks[i].kind
        /\ [socks[i] EXCEPT !.shut = TRUE].shut
    BY <1>2 DEF TableTypes
  <1>5. TableTypes'
    <2>1. fds' \in [Fd -> Descriptions]
      BY <1>2, <1>3 DEF TableTypes, Descriptions
    <2>2. socks' \in [Sock -> [kind : {"none", "stream", "listener", "dgram"}, fd : FdOrNone,
                              shut : BOOLEAN]]
      BY <1>2, <1>3, <1>4 DEF TableTypes
    <2>3. \A j \in Sock : socks'[j].kind # "none" => socks'[j].fd \in Fd
      BY <1>2, <1>3, <1>4 DEF TableTypes
    <2>4. strayClosed' \in BOOLEAN
      BY <1>1
    <2> QED BY <1>1, <1>2, <2>1, <2>2, <2>3, <2>4 DEF TableTypes
  <1>6. ASSUME ~strayClosed' PROVE HandlesAccounted'
    <2>1. HandlesAccounted /\ ~strayClosed /\ fds[f] \in {Closed, SockObj(i)}
      BY <1>1, <1>6 DEF HInv
    <2>2. \A g \in Fd : fds[g] \notin {Closed, SockObj(i)} => fds'[g] = fds[g]
      BY <1>3, <2>1
    <2>3. ASSUME NEW k \in Kid, NEW s \in Streams, handle'[k][s] >= 0
          PROVE  fds'[handle'[k][s]] = OurEnd(k, s)
      <3>1. handle[k][s] \in Fd /\ fds[handle[k][s]] = OurEnd(k, s)
        BY <1>1, <1>2, <2>1, <2>3, HandleStreams DEF HandlesAccounted, TableTypes
      <3> QED BY <1>1, <2>2, <3>1, OurEnds
    <2>4. \A j \in Sock : Usable(j)' => j # i /\ Usable(j) /\ socks'[j] = socks[j]
      BY <1>3, <1>4 DEF Usable
    <2>5. ASSUME NEW j \in Sock, Usable(j)' PROVE fds'[socks'[j].fd] = SockObj(j)
      <3>1. j # i /\ socks'[j] = socks[j] /\ fds[socks[j].fd] = SockObj(j) /\ socks[j].fd \in Fd
        BY <1>2, <2>1, <2>4, <2>5 DEF HandlesAccounted, Usable, TableTypes
      <3> QED BY <2>2, <3>1, Descriptors
    <2>6. ASSUME NEW g \in Fd, fds'[g] \notin {Closed, Inherited}
          PROVE  \/ \E k \in Kid, s \in Streams : handle'[k][s] = g
                 \/ \E j \in Sock : Usable(j)' /\ socks'[j].fd = g
      <3>1. g # f /\ fds'[g] = fds[g]
        BY <1>3, <2>6
      <3>2. CASE \E j \in Sock : Usable(j) /\ socks[j].fd = g
        <4>1. PICK j \in Sock : Usable(j) /\ socks[j].fd = g
          BY <3>2
        <4>2. j # i
          BY <3>1, <4>1 DEF f
        <4> QED BY <1>3, <4>1, <4>2 DEF Usable
      <3> QED BY <1>1, <2>1, <2>6, <3>1, <3>2 DEF HandlesAccounted
    <2>7. (\A k \in Kid : HasHandle(k) /\ ~handle[k].waited =>
             Alive(k) /\ kids[k].pid = handle[k].pid)'
      BY <1>1, <2>1 DEF HandlesAccounted, HasHandle, Alive
    <2> QED BY <2>3, <2>5, <2>6, <2>7 DEF HandlesAccounted, Usable
  <1>7. HandlesAccounted'
    BY <1>6 DEF HandlesAccounted
  <1> QED BY <1>1, <1>5, <1>7 DEF HInv, HasHandle

\* Every step keeps every descriptor with its one owner.
LEMMA NextTable == ASSUME HInv, [WholeNext]_vars PROVE HInv'
  <1>1. CASE UNCHANGED <<fds, handle, kids, socks, strayClosed>>
    BY <1>1, TableUntouched
  <1>2. CASE UNCHANGED vars \/ ((StringNext(Var) \/ ZoneNext) /\ Between)
             \/ ((BytesNext(Var) \/ LinesNext(Var)) /\ UNCHANGED notBuffers)
    BY <1>1, <1>2 DEF vars, Between, notHeap, notBuffers, ipcVars, netVars
  <1>3. CASE (TalkNext(Kid, Var) \/ LifeNext(Kid) \/ CallStep) /\ UNCHANGED notIpc
    <2>1. UNCHANGED <<socks, strayClosed>>
      BY <1>3 DEF notIpc, netVars
    <2>2. CASE TalkNext(Kid, Var)
      <3>1. UNCHANGED <<fds, handle, kids>>
        BY <2>2, Zenon DEF TalkNext, cn_ipc_native_stdin_write, cn_ipc_native_stdin_write_line,
                    cn_ipc_request_line, cn_ipc_read, cn_ipc_read_line, Begin,
                    WriteInterrupted, ReadNoMemory
      <3> QED BY <1>1, <2>1, <3>1
    <2>3. CASE LifeNext(Kid)
      <3>1. PICK k \in Kid :
              \/ \E pid \in Pid, outcome \in {"no process", "no memory", "child"} :
                   cn_ipc_native_spawn(k, pid, outcome)
              \/ cn_ipc_native_wait(k)
              \/ cn_ipc_native_stdin_close(k)
              \/ cn_ipc_native_kill(k)
              \/ cn_ipc_native_release(k)
        BY <2>3, Zenon DEF LifeNext
      <3>2. CASE cn_ipc_native_wait(k)
        BY <1>1, <2>1, <3>2 DEF cn_ipc_native_wait
      <3>3. CASE cn_ipc_native_kill(k)
        <4>1. UNCHANGED <<fds, handle>>
              /\ \E j \in Kid : kids[j].st = "run" /\ kids' = [kids EXCEPT ![j] = Exited(@)]
          BY <3>3 DEF cn_ipc_native_kill, ours
        <4> QED BY <2>1, <4>1, ExitTable
      <3> QED BY <2>1, <3>1, <3>2, <3>3, SpawnTable, StdinCloseTable, ReleaseTable
    <2>4. CASE CallStep
      <3>1. CASE WaitDone
        BY <2>1, <3>1, WaitTable
      <3>2. CASE ~WaitDone
        <4>1. UNCHANGED <<fds, handle, kids>>
          BY <2>4, <3>2, Zenon DEF CallStep, WriteValue, WriteNewline, BrokenPipe, ReadChunk,
                            LineDone, TakeByte
        <4> QED BY <1>1, <2>1, <4>1
      <3> QED BY <3>1, <3>2
    <2> QED BY <1>3, <2>2, <2>3, <2>4
  <1>4. CASE (\E k \in Kid : KidNext(k) \/ KidStops(k)) /\ UNCHANGED notIpc
    BY <1>4, KidTable DEF notIpc, netVars
  <1>5. CASE NetNext(Var)
    <2>1. CASE \E i \in Sock, host \in Hosts, port \in Ports,
                 fails \in {"none", "connect", "reuseaddr", "bind", "listen"} :
                 \/ cn_net_tcp_connect(i, host, port, fails)
                 \/ cn_net_tcp_listen(i, host, port, fails)
                 \/ cn_net_udp_bind(i, host, port, fails)
      BY <2>1, OpenSocketTable DEF cn_net_tcp_connect, cn_net_tcp_listen, cn_net_udp_bind
    <2>2. CASE \E l, i \in Sock : cn_net_accept(l, i)
      BY <2>2, AcceptTable
    <2>3. CASE \E i \in Sock : cn_net_close(i)
      BY <2>3, CloseSocketTable
    <2>4. CASE \/ \E i \in Sock, v \in Var, text \in Texts \cup {<<>>}, a \in Addr, node \in BOOLEAN :
                    cn_net_recv_chunk(i, v, text, a, node)
               \/ \E i \in Sock, a \in Addr : cn_net_recv_fails(i, a)
               \/ \E i \in Sock, v, w \in Var, text \in Texts, a \in Addr, b \in Addr \cup {Null},
                     nodeA, nodeB \in BOOLEAN :
                    cn_net_udp_recv_from(i, v, w, text, a, b, nodeA, nodeB)
      <3>1. UNCHANGED <<ipcVars, netVars>>
        <4>1. ASSUME NEW i, NEW v, NEW text, NEW a, NEW node, cn_net_recv_chunk(i, v, text, a, node)
              PROVE  UNCHANGED <<ipcVars, netVars>>
          BY <4>1 DEF cn_net_recv_chunk
        <4>2. ASSUME NEW i, NEW a, cn_net_recv_fails(i, a) PROVE UNCHANGED <<ipcVars, netVars>>
          BY <4>2 DEF cn_net_recv_fails
        <4>3. ASSUME NEW i, NEW v, NEW w, NEW text, NEW a, NEW b, NEW nodeA, NEW nodeB,
                     cn_net_udp_recv_from(i, v, w, text, a, b, nodeA, nodeB)
              PROVE  UNCHANGED <<ipcVars, netVars>>
          BY <4>3 DEF cn_net_udp_recv_from
        <4> QED BY <2>4, <4>1, <4>2, <4>3
      <3> QED BY <1>1, <3>1 DEF ipcVars, netVars
    <2> QED BY <1>5, <2>1, <2>2, <2>3, <2>4, Zenon DEF NetNext
  <1> QED BY <1>2, <1>3, <1>4, <1>5, Zenon DEF WholeNext

\* The table of descriptors, the handles and the sockets agree, whatever else
\* the program does and whichever calls of spawn, connect, listen, bind and
\* accept fail on the way (native_runtime.c, net.c).
THEOREM TableInvariance == WholeSpec => []HInv
  <1>1. HInv /\ [WholeNext]_vars => HInv'
    BY NextTable
  <1> QED BY <1>1, InitTable, PTL DEF WholeSpec

\* Every descriptor the runtime opened has one owner that can close it, and a
\* handle names its own child, for any number of children, sockets and
\* descriptors: no failing path of spawn, connect, listen or bind leaks one.
THEOREM DescriptorsHaveOwners == Spec => []HandlesAccounted
  <1>1. [Next]_vars => [WholeNext]_vars
    BY NextIsPartOfWhole
  <1>2. HInv => HandlesAccounted
    BY DEF HInv
  <1> QED BY <1>1, <1>2, TableInvariance, PTL DEF Spec, WholeSpec

-----------------------------------------------------------------------------
(* The call in progress.                                                      *)

\* Idle is not a call that talks.
LEMMA IdleIsSilent == Idle \notin Talking
  <1>1. "none" \notin Writes \cup {"chunk", "line"} /\ Idle.op = "none"
    BY DEF Writes, Idle
  <1> QED BY <1>1 DEF Talking

\* A call in progress with another count of items sent.
LEMMA SentChanged ==
  ASSUME NEW c \in Talking, NEW n \in Nat, NEW d, d = [c EXCEPT !.sent = n]
  PROVE  /\ d \in Talking /\ d.sent = n
         /\ d.op = c.op /\ d.kid = c.kid /\ d.s = c.s /\ d.max = c.max /\ d.v = c.v /\ d.text = c.text
         /\ d.got = c.got /\ d.phase = c.phase /\ d.trusted = c.trusted
  BY DEF Talking

\* A call in progress in another phase.
LEMMA PhaseChanged ==
  ASSUME NEW c \in Talking, NEW p \in {"value", "newline", "read"}, NEW d, d = [c EXCEPT !.phase = p]
  PROVE  /\ d \in Talking /\ d.phase = p
         /\ d.op = c.op /\ d.kid = c.kid /\ d.s = c.s /\ d.max = c.max /\ d.v = c.v /\ d.text = c.text
         /\ d.got = c.got /\ d.sent = c.sent /\ d.trusted = c.trusted
  BY DEF Talking

\* A call in progress on another stream.
LEMMA StreamChanged ==
  ASSUME NEW c \in Talking, NEW s \in Streams, NEW d, d = [c EXCEPT !.s = s]
  PROVE  /\ d \in Talking /\ d.s = s
         /\ d.op = c.op /\ d.kid = c.kid /\ d.max = c.max /\ d.v = c.v /\ d.text = c.text
         /\ d.got = c.got /\ d.sent = c.sent /\ d.phase = c.phase /\ d.trusted = c.trusted
  BY DEF Talking

\* A call in progress that has read something else.
LEMMA GotChanged ==
  ASSUME NEW c \in Talking, NEW g \in Seq(Item), NEW d, d = [c EXCEPT !.got = g]
  PROVE  /\ d \in Talking /\ d.got = g
         /\ d.op = c.op /\ d.kid = c.kid /\ d.s = c.s /\ d.max = c.max /\ d.v = c.v /\ d.text = c.text
         /\ d.sent = c.sent /\ d.phase = c.phase /\ d.trusted = c.trusted
  BY DEF Talking

\* A call that does not wait for an exit talks over the pipes.
LEMMA IsTalking ==
  ASSUME CallTypes, call # Idle, call.phase # "exit"
  PROVE  call \in Talking
  BY DEF CallTypes, Waiting

\* The types of the fields of a call that talks.
LEMMA TalkingFields ==
  ASSUME call \in Talking
  PROVE  /\ call # Idle
         /\ call.op \in Writes \cup {"chunk", "line"} /\ call.kid \in Kid /\ call.s \in Streams
         /\ call.max \in Nat /\ call.v \in Var /\ call.text \in Seq(Item) /\ call.sent \in Nat
         /\ call.got \in Seq(Item) /\ call.phase \in {"value", "newline", "read"}
         /\ call.trusted \in BOOLEAN
  <1>1. call.op \in Writes \cup {"chunk", "line"}
    BY DEF Talking
  <1>2. "none" \notin Writes \cup {"chunk", "line"}
    BY DEF Writes
  <1>3. Idle.op = "none"
    BY DEF Idle
  <1> QED BY <1>1, <1>2, <1>3 DEF Talking

\* What is said of a call that talks.
TalksWell(c) ==
  /\ c \in Talking
  /\ c.op \in {"write", "write_line"} => c.phase # "read"
  /\ c.op \in {"chunk", "line"} => c.phase = "read"
  /\ c.phase = "value" => c.sent < Len(c.text)
  /\ c.phase = "read" => Len(c.got) <= c.max
  /\ c.phase # "read" => c.got = <<>>

\* The call in progress talks well and is about a child the program holds.
LEMMA CallIsWell ==
  ASSUME CallTypes, call # Idle, call.phase # "exit"
  PROVE  TalksWell(call) /\ HasHandle(call.kid) /\ call.kid \in Kid
  BY IsTalking, TalkingFields DEF CallTypes, TalksWell

\* A step of a call leaves the children's handles alone and ends well.
LEMMA CallGoesOn ==
  ASSUME CInv, UNCHANGED <<kids, handle>>, PipeTypes', calls' \in 0..MaxCalls,
         killed' \in BOOLEAN, mismatched' \in BOOLEAN,
         call' = Idle \/ (TalksWell(call') /\ HasHandle(call'.kid))
  PROVE  CInv'
  <1>1. KidTypes'
    BY DEF CInv, KidTypes
  <1>2. (\A k \in Kid : HasHandle(k) => handle[k].out >= 0)'
    BY DEF CInv, HasHandle
  <1>3. CASE call' = Idle
    <2>1. CallTypes'
      BY <1>3, IdleIsSilent DEF CallTypes
    <2> QED BY <1>1, <1>2, <2>1 DEF CInv
  <1>4. CASE TalksWell(call') /\ HasHandle(call'.kid)
    <2>1. CallTypes'
      BY <1>4 DEF CallTypes, TalksWell, HasHandle
    <2> QED BY <1>1, <1>2, <2>1 DEF CInv
  <1> QED BY <1>3, <1>4

\* An item is put into, or taken from, one pipe.
LEMMA ItemPut ==
  ASSUME PipeTypes, NEW p \in Kid \X Streams, NEW item \in Item, Len(pipe[p]) < PipeCap,
         pipe' = [pipe EXCEPT ![p] = Append(@, item)]
  PROVE  PipeTypes'
  <1>1. pipe[p] \in Seq(Item)
    BY DEF PipeTypes
  <1>2. Append(pipe[p], item) \in Seq(Item) /\ Len(Append(pipe[p], item)) = Len(pipe[p]) + 1
        /\ Len(pipe[p]) \in Nat
    BY <1>1, AppendProperties, LenProperties
  <1>3. Len(Append(pipe[p], item)) <= PipeCap
    BY <1>2, IpcAssumption
  <1> QED BY <1>2, <1>3 DEF PipeTypes

\* Reading takes an item out of a pipe.
LEMMA ItemTaken ==
  ASSUME PipeTypes, NEW p \in Kid \X Streams, pipe[p] # <<>>, pipe' = [pipe EXCEPT ![p] = Tail(@)]
  PROVE  PipeTypes' /\ Head(pipe[p]) \in Item
  <1>1. pipe[p] \in Seq(Item) /\ Len(pipe[p]) <= PipeCap
    BY DEF PipeTypes
  <1>2. Tail(pipe[p]) \in Seq(Item) /\ Len(Tail(pipe[p])) = Len(pipe[p]) - 1 /\ Head(pipe[p]) \in Item
        /\ Len(pipe[p]) \in Nat
    BY <1>1, HeadTailProperties, LenProperties
  <1>3. Len(Tail(pipe[p])) <= PipeCap
    BY <1>1, <1>2, IpcAssumption
  <1> QED BY <1>2, <1>3 DEF PipeTypes

\* A step that leaves the pipes alone leaves their types alone.
LEMMA SamePipes == ASSUME PipeTypes, UNCHANGED pipe PROVE PipeTypes'
  BY DEF PipeTypes

\* Newline and carriage return are items and differ from text.
LEMMA SpecialItems == Nl \in Item /\ Cr \in Item /\ Nl # Cr /\ \A n \in Nat : <<n>> \in Item /\ <<n>> # Nl
  BY DEF Nl, Cr, Item

\* The text of a call: as many items as asked for, all marked with its number.
LEMMA TextFacts ==
  ASSUME calls \in Nat, NEW n \in Nat
  PROVE  Text(n) \in Seq(Item) /\ Len(Text(n)) = n /\ \A i \in 1..n : Text(n)[i] = <<calls + 1>>
  <1>1. <<calls + 1>> \in Item
    BY SpecialItems
  <1>2. \A i \in 1..n : Text(n)[i] = <<calls + 1>>
    BY DEF Text
  <1>3. Text(n) \in [1..n -> Item]
    BY <1>1 DEF Text
  <1> DEFINE l == Len(Text(n))
  <1>4. Text(n) \in Seq(Item)
    BY <1>3, SeqDef
  <1>5. l \in Nat /\ 1..l = 1..n
    BY <1>3, <1>4, LenProperties
  <1> HIDE DEF l
  <1>6. l = n
    BY <1>5
  <1> QED BY <1>2, <1>4, <1>6 DEF l

\* Starting to write, request or read (native_runtime.c) makes a call that talks well.
LEMMA BeginCall ==
  ASSUME CInv, NEW k \in Kid, NEW op \in Writes \cup {"chunk", "line"}, NEW s \in Streams,
         NEW n \in Nat, NEW max \in Nat, NEW v \in Var, op = "write" => n > 0, Begin(k, op, s, n, max, v)
  PROVE  CInv'
  <1> DEFINE phase == IF op \notin Writes THEN "read" ELSE IF n > 0 THEN "value" ELSE "newline"
             trusted == (op = "request" /\ k \in inStep)
             text == Text(n)
  <1>1. call' = [op |-> op, kid |-> k, s |-> s, max |-> max, v |-> v, text |-> text, sent |-> 0,
                 got |-> <<>>, phase |-> phase, trusted |-> trusted]
    BY DEF Begin
  <1>2. HasHandle(k) /\ calls < MaxCalls /\ calls' = calls + 1
        /\ UNCHANGED <<kids, handle, pipe, killed, mismatched>>
    BY DEF Begin
  <1>3. calls \in Nat /\ calls' \in 0..MaxCalls
    BY <1>2, IpcAssumption DEF CInv, CallTypes
  <1>4. text \in Seq(Item) /\ Len(text) = n
    BY <1>3, TextFacts
  <1>5. phase \in {"value", "newline", "read"} /\ trusted \in BOOLEAN
        /\ (phase = "value" => 0 < n) /\ (phase = "read" <=> op \notin Writes)
    OBVIOUS
  <1> HIDE DEF phase, trusted, text
  <1>6. <<>> \in Seq(Item) /\ Len(<<>>) = 0
    OBVIOUS
  <1>7. call' \in Talking
    BY <1>1, <1>4, <1>5, <1>6 DEF Talking
  <1>8. call'.op = op /\ call'.kid = k /\ call'.phase = phase /\ call'.sent = 0 /\ call'.text = text
        /\ call'.got = <<>> /\ call'.max = max
    BY <1>1
  <1>9. TalksWell(call')
    BY <1>4, <1>5, <1>6, <1>7, <1>8 DEF TalksWell, Writes
  <1>10. PipeTypes' /\ killed' \in BOOLEAN /\ mismatched' \in BOOLEAN
    BY <1>2, SamePipes DEF CInv, CallTypes
  <1> QED BY <1>2, <1>3, <1>8, <1>9, <1>10, CallGoesOn

\* After the text comes the newline, the answer or the return.
LEMMA AfterValueWell ==
  ASSUME CInv, call # Idle, call.phase = "value", NEW n \in Nat, AfterValue(n)
  PROVE  call' = Idle \/ (TalksWell(call') /\ HasHandle(call'.kid))
  <1>1. CASE call' = Idle
    BY <1>1
  <1>2. CASE call.op # "write" /\ call' = [call EXCEPT !.sent = n, !.phase = "newline"]
    <2> DEFINE c == [call EXCEPT !.sent = n]
    <2>1. TalksWell(call) /\ HasHandle(call.kid)
      BY CallIsWell DEF CInv
    <2>2. call' = [c EXCEPT !.phase = "newline"]
      BY <1>2, Zenon
    <2>3. c \in Talking /\ c.op = call.op /\ c.kid = call.kid /\ c.got = call.got
      BY <2>1, SentChanged DEF TalksWell
    <2> HIDE DEF c
    <2>4. call' \in Talking /\ call'.phase = "newline" /\ call'.op = c.op /\ call'.kid = c.kid
          /\ call'.got = c.got
      BY <2>2, <2>3, PhaseChanged
    <2> QED BY <2>1, <2>3, <2>4 DEF TalksWell
  <1> QED BY <1>1, <1>2 DEF AfterValue, Return

\* write of the text of a call.
LEMMA WriteValueCall ==
  ASSUME CInv, WriteValue
  PROVE  CInv'
  <1>1. /\ call # Idle /\ call.phase = "value" /\ CanPut /\ PutItem(call.text[call.sent + 1])
        /\ UNCHANGED <<kids, handle, calls, killed, mismatched>>
    BY DEF WriteValue
  <1>2. TalksWell(call) /\ HasHandle(call.kid) /\ call.kid \in Kid
    BY <1>1, CallIsWell DEF CInv
  <1>3. call \in Talking /\ call.sent \in Nat /\ call.text \in Seq(Item) /\ call.sent < Len(call.text)
    BY <1>1, <1>2, TalkingFields DEF TalksWell
  <1>4. PipeTypes'
    <2>1. call.text[call.sent + 1] \in Item
      <3>1. call.sent + 1 \in 1..Len(call.text)
        BY <1>3, LenProperties
      <3> QED BY <1>3, <3>1, ElementOfSeq
    <2>2. <<call.kid, "in">> \in Kid \X Streams
      BY <1>2 DEF Streams
    <2> QED BY <1>1, <2>1, <2>2, ItemPut DEF CInv, CanPut, PutItem
  <1>5. call' = Idle \/ (TalksWell(call') /\ HasHandle(call'.kid))
    <2>1. CASE call.sent + 1 = Len(call.text)
      <3>1. call.sent + 1 \in Nat /\ AfterValue(call.sent + 1)
        BY <1>3, <2>1 DEF WriteValue
      <3> QED BY <1>1, <3>1, AfterValueWell
    <2>2. CASE call.sent + 1 # Len(call.text)
      <3> DEFINE n == call.sent + 1
                 l == Len(call.text)
      <3>1. call' = [call EXCEPT !.sent = n]
        BY <2>2 DEF WriteValue
      <3>2. n \in Nat /\ l \in Nat /\ n < l
        <4>1. l \in Nat /\ call.sent < l /\ call.sent + 1 # l
          BY <1>3, <2>2, LenProperties
        <4> HIDE DEF l
        <4> QED BY <1>3, <4>1
      <3> HIDE DEF n
      <3>3. call' \in Talking /\ call'.sent = n /\ call'.op = call.op /\ call'.kid = call.kid
            /\ call'.text = call.text /\ call'.phase = call.phase /\ call'.got = call.got
        BY <1>3, <3>1, <3>2, SentChanged
      <3> QED BY <1>1, <1>2, <3>2, <3>3 DEF TalksWell
    <2> QED BY <2>1, <2>2
  <1>6. calls' \in 0..MaxCalls /\ killed' \in BOOLEAN /\ mismatched' \in BOOLEAN
    BY <1>1 DEF CInv, CallTypes
  <1> QED BY <1>1, <1>4, <1>5, <1>6, CallGoesOn

\* write that EINTR interrupts and that is tried again.
LEMMA InterruptedCall ==
  ASSUME CInv, WriteInterrupted
  PROVE  CInv'
  <1>1. /\ call # Idle /\ call.phase = "value" /\ AfterValue(call.sent)
        /\ UNCHANGED <<pipe, kids, handle, calls, killed, mismatched>>
    BY DEF WriteInterrupted
  <1>2. call.sent \in Nat
    BY <1>1, CallIsWell, TalkingFields DEF CInv, TalksWell
  <1>3. call' = Idle \/ (TalksWell(call') /\ HasHandle(call'.kid))
    BY <1>1, <1>2, AfterValueWell
  <1>4. PipeTypes' /\ calls' \in 0..MaxCalls /\ killed' \in BOOLEAN /\ mismatched' \in BOOLEAN
    BY <1>1, SamePipes DEF CInv, CallTypes
  <1> QED BY <1>1, <1>3, <1>4, CallGoesOn

\* write of the newline after the text.
LEMMA NewlineCall ==
  ASSUME CInv, WriteNewline
  PROVE  CInv'
  <1>1. /\ call # Idle /\ call.phase = "newline" /\ CanPut /\ PutItem(Nl)
        /\ UNCHANGED <<kids, handle, calls, killed, mismatched>>
    BY DEF WriteNewline
  <1>2. TalksWell(call) /\ HasHandle(call.kid) /\ call.kid \in Kid
    BY <1>1, CallIsWell DEF CInv
  <1>3. PipeTypes'
    <2>1. <<call.kid, "in">> \in Kid \X Streams
      BY <1>2 DEF Streams
    <2> QED BY <1>1, <2>1, ItemPut, SpecialItems DEF CInv, CanPut, PutItem
  <1>4. call' = Idle \/ (TalksWell(call') /\ HasHandle(call'.kid))
    <2>1. CASE call' = Idle
      BY <2>1
    <2>2. CASE call.op = "request" /\ call' = [call EXCEPT !.phase = "read", !.s = "out"]
      <3> DEFINE c == [call EXCEPT !.phase = "read"]
      <3>1. call' = [c EXCEPT !.s = "out"]
        BY <2>2, Zenon
      <3>2. c \in Talking /\ c.op = call.op /\ c.kid = call.kid /\ c.got = call.got /\ c.phase = "read"
            /\ c.max = call.max
        BY <1>2, PhaseChanged DEF TalksWell
      <3> HIDE DEF c
      <3>3. "out" \in Streams
        BY DEF Streams
      <3>4. call' \in Talking /\ call'.phase = c.phase /\ call'.op = c.op /\ call'.kid = c.kid
            /\ call'.got = c.got /\ call'.max = c.max
        BY <3>1, <3>2, <3>3, StreamChanged
      <3>5. call'.got = <<>> /\ call'.phase = "read" /\ call'.op = "request" /\ call'.max \in Nat
        BY <1>1, <1>2, <2>2, <3>2, <3>4, TalkingFields DEF TalksWell
      <3>6. Len(<<>>) = 0
        OBVIOUS
      <3> QED BY <1>2, <3>2, <3>4, <3>5, <3>6 DEF TalksWell
    <2> QED BY <2>1, <2>2 DEF WriteNewline, Return
  <1>5. calls' \in 0..MaxCalls /\ killed' \in BOOLEAN /\ mismatched' \in BOOLEAN
    BY <1>1 DEF CInv, CallTypes
  <1> QED BY <1>1, <1>3, <1>4, <1>5, CallGoesOn

\* Steps that end the call and leave the pipes alone.
LEMMA CallEnds ==
  ASSUME CInv, call' = Idle, UNCHANGED <<kids, handle, calls>>, PipeTypes',
         killed' \in BOOLEAN, mismatched' \in BOOLEAN
  PROVE  CInv'
  <1>1. calls' \in 0..MaxCalls
    BY DEF CInv, CallTypes
  <1> QED BY <1>1, CallGoesOn

\* read of one byte of a line: what was read stays within the limit.
LEMMA TakeByteCall ==
  ASSUME CInv, TakeByte
  PROVE  CInv'
  <1>1. /\ call # Idle /\ call.phase = "read" /\ LineGoesOn /\ pipe[Source] # <<>>
        /\ call' = [call EXCEPT !.got = Append(@, Head(pipe[Source]))]
        /\ pipe' = [pipe EXCEPT ![Source] = Tail(@)]
        /\ UNCHANGED <<kids, handle, calls, killed, mismatched>>
    BY DEF TakeByte
  <1>2. TalksWell(call) /\ HasHandle(call.kid) /\ call.kid \in Kid
    BY <1>1, CallIsWell DEF CInv
  <1>3. call \in Talking /\ call.got \in Seq(Item) /\ call.max \in Nat /\ Source \in Kid \X Streams
    BY <1>2, TalkingFields DEF TalksWell, Source
  <1>4. PipeTypes' /\ Head(pipe[Source]) \in Item
    BY <1>1, <1>3, ItemTaken DEF CInv
  <1> DEFINE got == Append(call.got, Head(pipe[Source]))
             l == Len(call.got)
  <1>5. call' = [call EXCEPT !.got = got]
    BY <1>1
  <1>6. got \in Seq(Item) /\ Len(got) = l + 1 /\ l \in Nat /\ l < call.max
    BY <1>1, <1>3, <1>4, AppendProperties, LenProperties DEF LineGoesOn
  <1> HIDE DEF got, l
  <1>7. call' \in Talking /\ call'.got = got /\ call'.op = call.op /\ call'.kid = call.kid
        /\ call'.phase = call.phase /\ call'.max = call.max
    BY <1>3, <1>5, <1>6, GotChanged
  <1>8. Len(got) <= call.max
    BY <1>3, <1>6
  <1>9. TalksWell(call') /\ HasHandle(call'.kid)
    BY <1>1, <1>2, <1>7, <1>8 DEF TalksWell
  <1>10. calls' \in 0..MaxCalls /\ killed' \in BOOLEAN /\ mismatched' \in BOOLEAN
    BY <1>1 DEF CInv, CallTypes
  <1> QED BY <1>1, <1>4, <1>9, <1>10, CallGoesOn

\* read of a chunk, which ends the call.
LEMMA ReadChunkCall ==
  ASSUME CInv, NEW a, ReadChunk(a)
  PROVE  CInv'
  <1>1. /\ call # Idle /\ call.phase = "read" /\ call' = Idle
        /\ UNCHANGED <<kids, handle, calls, killed, mismatched>>
    BY DEF ReadChunk, Return
  <1>2. call \in Talking /\ call.max \in Nat /\ Source \in Kid \X Streams
    BY <1>1, CallIsWell, TalkingFields DEF CInv, TalksWell, Source
  <1>3. PipeTypes'
    <2>1. CASE AtEnd
      BY <2>1, SamePipes DEF ReadChunk, CInv
    <2>2. CASE ~AtEnd
      <3> DEFINE s == pipe[Source]
                 n == Min({call.max, Len(s)})
                 t == SubSeq(s, n + 1, Len(s))
      <3>1. n > 0 /\ pipe' = [pipe EXCEPT ![Source] = t]
        BY <2>2 DEF ReadChunk
      <3>2. s \in Seq(Item) /\ Len(s) \in Nat /\ Len(s) <= PipeCap
        BY <1>2, LenProperties DEF CInv, PipeTypes
      <3>3. n \in Nat
        <4>1. {call.max, Len(s)} \in SUBSET Nat /\ {call.max, Len(s)} # {}
          BY <1>2, <3>2
        <4> QED BY <4>1, LeastNat DEF Min
      <3> HIDE DEF n, s
      <3>4. t \in Seq(Item) /\ Len(t) <= Len(s) /\ Len(t) \in Nat
        <4>1. \A i \in (n + 1)..Len(s) : s[i] \in Item
          BY <3>2, <3>3, ElementOfSeq
        <4>2. t \in Seq(Item) /\ Len(t) = IF n + 1 <= Len(s) THEN Len(s) - (n + 1) + 1 ELSE 0
          BY <3>2, <3>3, <4>1, SubSeqProperties
        <4> DEFINE l == Len(s)
        <4>3. l \in Nat /\ Len(t) = IF n + 1 <= l THEN l - (n + 1) + 1 ELSE 0
          BY <3>2, <4>2
        <4> HIDE DEF l
        <4>4. Len(t) <= l /\ Len(t) \in Nat
          BY <3>1, <3>3, <4>3
        <4> QED BY <4>2, <4>4 DEF l
      <3> HIDE DEF t
      <3>5. Len(t) <= PipeCap
        BY <3>2, <3>4, IpcAssumption
      <3> QED BY <1>2, <3>1, <3>4, <3>5 DEF CInv, PipeTypes
    <2> QED BY <2>1, <2>2
  <1>4. killed' \in BOOLEAN /\ mismatched' \in BOOLEAN
    BY <1>1 DEF CInv, CallTypes
  <1> QED BY <1>1, <1>3, <1>4, CallEnds

\* The end of a line, which ends the call.
LEMMA LineDoneCall ==
  ASSUME CInv, NEW a, LineDone(a)
  PROVE  CInv'
  <1> DEFINE newline == LineGoesOn /\ pipe[Source] # <<>> /\ Head(pipe[Source]) = Nl
  <1>1. /\ call # Idle /\ call.phase = "read" /\ call' = Idle
        /\ UNCHANGED <<kids, handle, calls, killed>>
        /\ pipe' = IF newline THEN [pipe EXCEPT ![Source] = Tail(@)] ELSE pipe
        /\ Answered(newline)
    BY DEF LineDone, Return
  <1>2. Source \in Kid \X Streams
    BY <1>1, CallIsWell, TalkingFields DEF CInv, TalksWell, Source
  <1>3. PipeTypes'
    BY <1>1, <1>2, ItemTaken, SamePipes DEF CInv
  <1>4. killed' \in BOOLEAN /\ mismatched' \in BOOLEAN
    BY <1>1 DEF CInv, CallTypes, Answered
  <1> QED BY <1>1, <1>3, <1>4, CallEnds

\* What the children do.
LEMMA KidsChanged ==
  ASSUME CInv, PipeTypes', KidTypes', UNCHANGED <<handle, call, calls, killed, mismatched>>
  PROVE  CInv'
  BY DEF CInv, CallTypes, HasHandle

\* A child that stops has nothing left to read or to write.
LEMMA ExitKid ==
  ASSUME HInv, KidTypes, NEW j \in Kid, kids' = [kids EXCEPT ![j] = Exited(@)]
  PROVE  KidTypes'
  <1>1. kids = [k \in Kid |-> kids[k]]
        /\ \A k \in Kid : DOMAIN kids[k] = {"st", "pid", "holds", "line", "todo"}
    BY DEF HInv, TableTypes
  <1>2. \A k \in Kid : kids'[k] = IF k = j THEN Exited(kids[k]) ELSE kids[k]
    BY <1>1
  <1>3. Exited(kids[j]).st = "zombie" /\ Exited(kids[j]).line = <<>> /\ Exited(kids[j]).todo = <<>>
    BY <1>1 DEF Exited
  <1>4. <<>> \in Seq(Item) /\ <<>> \in Seq({"out", "err"} \X Item)
    OBVIOUS
  <1> DEFINE T(kid) == /\ kid.st \in {"none", "run", "zombie", "reaped"}
                       /\ kid.line \in Seq(Item) /\ kid.todo \in Seq({"out", "err"} \X Item)
  <1>5. T(Exited(kids[j]))
    BY <1>3, <1>4
  <1>6. \A k \in Kid : T(kids[k])
    BY DEF KidTypes
  <1>7. ASSUME NEW k \in Kid PROVE T(kids[k])'
    <2>1. CASE k = j
      <3>1. kids'[k] = Exited(kids[j])
        BY <1>2, <2>1
      <3> QED BY <1>5, <3>1
    <2>2. CASE k # j
      <3>1. kids'[k] = kids[k]
        BY <1>2, <2>2
      <3> QED BY <1>6, <3>1
    <2> QED BY <2>1, <2>2
  <1> QED BY <1>7 DEF KidTypes

\* A child with another line read and other items to write.
LEMMA KidSet ==
  ASSUME HInv, KidTypes, NEW k \in Kid, NEW line \in Seq(Item), NEW todo \in Seq({"out", "err"} \X Item),
         kids' = [kids EXCEPT ![k].line = line, ![k].todo = todo]
  PROVE  KidTypes'
  <1>1. kids = [j \in Kid |-> kids[j]]
        /\ \A j \in Kid : DOMAIN kids[j] = {"st", "pid", "holds", "line", "todo"}
    BY DEF HInv, TableTypes
  <1>2. kids' = [j \in Kid |-> kids'[j]] /\ \A j \in Kid \ {k} : kids'[j] = kids[j]
    BY <1>1
  <1>3. kids'[k].line = line /\ kids'[k].todo = todo /\ kids'[k].st = kids[k].st
    BY <1>1
  <1> QED BY <1>2, <1>3 DEF KidTypes

\* A child with another line read.
LEMMA KidLine ==
  ASSUME HInv, KidTypes, NEW k \in Kid, NEW line \in Seq(Item), kids' = [kids EXCEPT ![k].line = line]
  PROVE  KidTypes'
  <1>1. kids = [j \in Kid |-> kids[j]]
        /\ \A j \in Kid : DOMAIN kids[j] = {"st", "pid", "holds", "line", "todo"}
    BY DEF HInv, TableTypes
  <1>2. kids' = [j \in Kid |-> kids'[j]] /\ \A j \in Kid \ {k} : kids'[j] = kids[j]
    BY <1>1
  <1>3. kids'[k].line = line /\ kids'[k].todo = kids[k].todo /\ kids'[k].st = kids[k].st
    BY <1>1
  <1> QED BY <1>2, <1>3 DEF KidTypes

\* A child with other items to write.
LEMMA KidTodo ==
  ASSUME HInv, KidTypes, NEW k \in Kid, NEW todo \in Seq({"out", "err"} \X Item),
         kids' = [kids EXCEPT ![k].todo = todo]
  PROVE  KidTypes'
  <1>1. kids = [j \in Kid |-> kids[j]]
        /\ \A j \in Kid : DOMAIN kids[j] = {"st", "pid", "holds", "line", "todo"}
    BY DEF HInv, TableTypes
  <1>2. kids' = [j \in Kid |-> kids'[j]] /\ \A j \in Kid \ {k} : kids'[j] = kids[j]
    BY <1>1
  <1>3. kids'[k].line = kids[k].line /\ kids'[k].todo = todo /\ kids'[k].st = kids[k].st
    BY <1>1
  <1> QED BY <1>2, <1>3 DEF KidTypes

\* The answer to a line: a complaint perhaps, then the line itself.
AnswerTo(line, complaint, cr) ==
  complaint \o [i \in 1..(Len(line) + Len(cr) + 1) |-> <<"out", (line \o cr \o <<Nl>>)[i]>>]

\* The items a child writes for a line: a complaint, if any, and the line back.
LEMMA AnswerFacts ==
  ASSUME NEW line \in Seq(Item), NEW complaint \in {<<>>, << <<"err", Nl>> >>}, NEW cr \in {<<>>, <<Cr>>}
  PROVE  /\ AnswerTo(line, complaint, cr) \in Seq({"out", "err"} \X Item)
         /\ Len(AnswerTo(line, complaint, cr)) = Len(complaint) + Len(line) + Len(cr) + 1
         /\ \A i \in 1..(Len(line) + Len(cr) + 1) :
              AnswerTo(line, complaint, cr)[Len(complaint) + i] = <<"out", (line \o cr \o <<Nl>>)[i]>>
         /\ complaint # <<>> => AnswerTo(line, complaint, cr)[1] = <<"err", Nl>>
  <1> DEFINE T == {"out", "err"} \X Item
             all == line \o cr \o <<Nl>>
             n == Len(line) + Len(cr) + 1
             outs == [i \in 1..n |-> <<"out", all[i]>>]
  <1>1. cr \in Seq(Item) /\ <<Nl>> \in Seq(Item) /\ Len(<<Nl>>) = 1
    <2>1. <<>> \in Seq(Item)
      OBVIOUS
    <2>2. <<Cr>> \in Seq(Item) /\ <<Nl>> \in Seq(Item) /\ Len(<<Nl>>) = 1
      BY SpecialItems
    <2>3. cr = <<>> \/ cr = <<Cr>>
      OBVIOUS
    <2> QED BY <2>1, <2>2, <2>3, Zenon
  <1>2. all \in Seq(Item) /\ Len(all) = n /\ n \in Nat
    <2>1. line \o cr \in Seq(Item) /\ Len(line \o cr) = Len(line) + Len(cr)
          /\ Len(line) \in Nat /\ Len(cr) \in Nat
      BY <1>1, ConcatProperties, LenProperties
    <2>2. all \in Seq(Item) /\ Len(all) = Len(line \o cr) + Len(<<Nl>>)
      BY <1>1, <2>1, ConcatProperties
    <2> QED BY <1>1, <2>1, <2>2
  <1> HIDE DEF all, n
  <1>3. \A i \in 1..n : <<"out", all[i]>> \in T
    BY <1>2, ElementOfSeq
  <1>4. outs \in [1..n -> T]
    BY <1>3
  <1>5. outs \in Seq(T)
    BY <1>2, <1>4, SeqDef
  <1>6. Len(outs) = n
    <2> DEFINE l == Len(outs)
    <2>1. l \in Nat /\ 1..l = 1..n
      BY <1>4, <1>5, LenProperties
    <2> HIDE DEF l
    <2>2. l = n
      BY <1>2, <2>1
    <2> QED BY <2>2 DEF l
  <1>7. \A i \in 1..n : outs[i] = <<"out", all[i]>>
    OBVIOUS
  <1> HIDE DEF outs
  <1>8. <<"err", Nl>> \in T
    BY SpecialItems
  <1>9. complaint \in Seq(T) /\ Len(complaint) \in Nat
        /\ (complaint # <<>> => Len(complaint) = 1 /\ complaint[1] = <<"err", Nl>>)
    <2> DEFINE e == <<"err", Nl>>
    <2> HIDE DEF e, T
    <2>1. e \in T
      BY <1>8 DEF e
    <2>2. complaint = <<>> \/ complaint = <<e>>
      BY DEF e
    <2>3. <<>> \in Seq(T) /\ Len(<<>>) = 0
      OBVIOUS
    <2>4. <<e>> \in Seq(T) /\ Len(<<e>>) = 1 /\ <<e>>[1] = e
      BY <2>1
    <2>5. complaint \in Seq(T) /\ (complaint # <<>> => Len(complaint) = 1 /\ complaint[1] = e)
      BY <2>2, <2>3, <2>4, Zenon
    <2>6. Len(complaint) \in Nat
      BY <2>5, LenProperties
    <2> QED BY <2>5, <2>6 DEF e
  <1>10. /\ complaint \o outs \in Seq(T)
         /\ Len(complaint \o outs) = Len(complaint) + Len(outs)
         /\ \A i \in 1..(Len(complaint) + Len(outs)) :
              (complaint \o outs)[i] = IF i <= Len(complaint) THEN complaint[i]
                                       ELSE outs[i - Len(complaint)]
    BY <1>5, <1>9, ConcatProperties
  <1>11. AnswerTo(line, complaint, cr) = complaint \o outs
    BY DEF AnswerTo, outs, n, all
  <1>12. \A i \in 1..n : (complaint \o outs)[Len(complaint) + i] = <<"out", all[i]>>
    <2> TAKE i \in 1..n
    <2> DEFINE c == Len(complaint)
    <2>1. c \in Nat
      BY <1>9
    <2>2. \A j \in 1..(c + n) : (complaint \o outs)[j] = IF j <= c THEN complaint[j] ELSE outs[j - c]
      BY <1>6, <1>10
    <2> HIDE DEF c
    <2>3. c + i \in 1..(c + n) /\ ~(c + i <= c) /\ (c + i) - c = i
      BY <1>2, <2>1
    <2>4. (complaint \o outs)[c + i] = outs[i]
      BY <2>2, <2>3
    <2> QED BY <1>7, <2>4 DEF c
  <1>13. complaint # <<>> => (complaint \o outs)[1] = <<"err", Nl>>
    BY <1>2, <1>6, <1>9, <1>10
  <1>14. Len(complaint \o outs) = Len(complaint) + Len(line) + Len(cr) + 1
    BY <1>1, <1>6, <1>9, <1>10, LenProperties DEF n
  <1> QED BY <1>10, <1>11, <1>12, <1>13, <1>14 DEF n, all

\* A child reads from its stdin.
LEMMA KidReadCall ==
  ASSUME HInv, CInv, NEW k \in Kid, KidRead(k)
  PROVE  CInv'
  <1> DEFINE p == <<k, "in">>
             line == kids[k].line
  <1>1. /\ pipe[p] # <<>> /\ pipe' = [pipe EXCEPT ![p] = Tail(@)]
        /\ UNCHANGED <<handle, call, calls, killed, mismatched>>
    BY DEF KidRead, theirs, ours
  <1>2. p \in Kid \X Streams
    BY DEF Streams
  <1>3. PipeTypes' /\ Head(pipe[p]) \in Item
    BY <1>1, <1>2, ItemTaken DEF CInv
  <1>4. KidTypes /\ line \in Seq(Item)
    BY DEF CInv, KidTypes
  <1>5. \/ kids' = [kids EXCEPT ![k].line = Append(line, Head(pipe[p]))]
        \/ \E complaint \in {<<>>, << <<"err", Nl>> >>}, cr \in {<<>>, <<Cr>>} :
             kids' = [kids EXCEPT ![k].line = <<>>, ![k].todo = AnswerTo(line, complaint, cr)]
    BY Zenon DEF KidRead, AnswerTo
  <1>6. Append(line, Head(pipe[p])) \in Seq(Item)
    BY <1>3, <1>4, AppendProperties
  <1>7. CASE kids' = [kids EXCEPT ![k].line = Append(line, Head(pipe[p]))]
    BY <1>1, <1>3, <1>4, <1>6, <1>7, KidLine, KidsChanged
  <1>8. ASSUME NEW complaint \in {<<>>, << <<"err", Nl>> >>}, NEW cr \in {<<>>, <<Cr>>},
               kids' = [kids EXCEPT ![k].line = <<>>, ![k].todo = AnswerTo(line, complaint, cr)]
        PROVE  CInv'
    <2>0. line \in Seq(Item)
      BY <1>4
    <2> HIDE DEF line
    <2>a. AnswerTo(line, complaint, cr) \in Seq({"out", "err"} \X Item)
      BY <2>0, AnswerFacts
    <2>b. <<>> \in Seq(Item)
      OBVIOUS
    <2>1. AnswerTo(line, complaint, cr) \in Seq({"out", "err"} \X Item) /\ <<>> \in Seq(Item)
      BY <2>a, <2>b
    <2>2. KidTypes'
      BY <1>4, <1>8, <2>1, KidSet
    <2> QED BY <1>1, <1>3, <2>2, KidsChanged
  <1> QED BY <1>5, <1>7, <1>8

\* A child writes to its stdout or stderr.
LEMMA KidWriteCall ==
  ASSUME HInv, CInv, NEW k \in Kid, KidWrite(k)
  PROVE  CInv'
  <1> DEFINE todo == kids[k].todo
             T == {"out", "err"} \X Item
  <1>1. todo # <<>> /\ UNCHANGED <<handle, call, calls, killed, mismatched>>
    BY DEF KidWrite, theirs, ours
  <1>2. todo \in Seq(T) /\ KidTypes /\ PipeTypes
    BY DEF CInv, KidTypes
  <1>3. Head(todo) \in T /\ Tail(todo) \in Seq(T)
    BY <1>1, <1>2, HeadTailProperties
  <1> DEFINE s == Head(todo)[1]
  <1>4. s \in Streams /\ Head(todo)[2] \in Item
    BY <1>3 DEF Streams
  <1>5. CASE Held(OurEnd(k, s))
    <2>1. /\ Len(pipe[<<k, s>>]) < PipeCap
          /\ pipe' = [pipe EXCEPT ![<<k, s>>] = Append(@, Head(todo)[2])]
          /\ kids' = [kids EXCEPT ![k].todo = Tail(todo)]
      BY <1>5 DEF KidWrite
    <2>2. PipeTypes'
      BY <1>2, <1>4, <2>1, ItemPut
    <2>3. KidTypes'
      BY <1>2, <1>3, <2>1, KidTodo
    <2> QED BY <1>1, <2>2, <2>3, KidsChanged
  <1>6. CASE ~Held(OurEnd(k, s))
    <2>1. kids' = [kids EXCEPT ![k] = Exited(@)] /\ UNCHANGED pipe
      BY <1>6 DEF KidWrite
    <2> QED BY <1>1, <1>2, <2>1, ExitKid, SamePipes, KidsChanged
  <1> QED BY <1>5, <1>6

\* Whatever a child does, the pipes and the calls keep their types.
LEMMA KidCall ==
  ASSUME HInv, CInv, NEW k \in Kid, KidNext(k) \/ KidStops(k)
  PROVE  CInv'
  <1>1. CASE KidEnds(k) \/ KidStops(k)
    <2>1. kids' = [kids EXCEPT ![k] = Exited(@)] /\ UNCHANGED <<pipe, handle, call, calls, killed, mismatched>>
      BY <1>1 DEF KidEnds, KidStops, theirs, ours
    <2> QED BY <2>1, ExitKid, SamePipes, KidsChanged DEF CInv
  <1> QED BY <1>1, KidReadCall, KidWriteCall DEF KidNext

-----------------------------------------------------------------------------
(* Handles.                                                                   *)

\* A step of the program between calls that changes the handles and the
\* states of the children.
LEMMA HandlesChanged ==
  ASSUME CInv, call' = Idle, UNCHANGED <<pipe, calls, killed, mismatched>>, KidTypes',
         (\A k \in Kid : HasHandle(k) => handle[k].out >= 0)'
  PROVE  CInv'
  <1>1. CallTypes'
    BY IdleIsSilent DEF CInv, CallTypes
  <1>2. PipeTypes'
    BY SamePipes DEF CInv
  <1> QED BY <1>1, <1>2 DEF CInv

\* A child in another state.
LEMMA KidState ==
  ASSUME HInv, KidTypes, NEW k \in Kid, NEW st \in {"none", "run", "zombie", "reaped"},
         kids' = [kids EXCEPT ![k].st = st]
  PROVE  KidTypes'
  <1>1. kids = [j \in Kid |-> kids[j]]
        /\ \A j \in Kid : DOMAIN kids[j] = {"st", "pid", "holds", "line", "todo"}
    BY DEF HInv, TableTypes
  <1>2. kids' = [j \in Kid |-> kids'[j]] /\ \A j \in Kid \ {k} : kids'[j] = kids[j]
    BY <1>1
  <1>3. kids'[k].line = kids[k].line /\ kids'[k].todo = kids[k].todo /\ kids'[k].st = st
    BY <1>1
  <1> QED BY <1>2, <1>3 DEF KidTypes

\* Which children have a handle after a step that changes one.
LEMMA HandleFields ==
  ASSUME HInv
  PROVE  /\ handle \in [Kid -> Handles]
         /\ NoHandle.out = -1 /\ NoHandle.waited = FALSE
         /\ \A k \in Kid : handle[k].out \in Int
  <1>1. handle \in [Kid -> Handles]
    BY DEF HInv, TableTypes
  <1>2. \A k \in Kid : handle[k].out \in FdOrNone
    BY <1>1 DEF Handles
  <1>3. FdOrNone \subseteq Int
    BY IpcAssumption DEF FdOrNone
  <1> QED BY <1>1, <1>2, <1>3 DEF NoHandle

\* Closing a child's stdin keeps its handle.
LEMMA StdinCloseCall ==
  ASSUME HInv, CInv, NEW k \in Kid, cn_ipc_native_stdin_close(k)
  PROVE  CInv' /\ \A j \in Kid : HasHandle(j)' <=> HasHandle(j)
  <1>1. /\ HasHandle(k) /\ handle' = [handle EXCEPT ![k].in = -1] /\ call' = Idle
        /\ UNCHANGED <<pipe, kids, calls, killed, mismatched>>
    BY DEF cn_ipc_native_stdin_close
  <1>2. /\ handle'[k].out = handle[k].out /\ \A j \in Kid \ {k} : handle'[j] = handle[j]
    BY <1>1, HandleFields DEF Handles
  <1>3. handle[k].out >= 0
    BY <1>1 DEF CInv
  <1>a. ASSUME NEW h, h.out >= 0, NoHandle.out = -1 PROVE h # NoHandle
    BY <1>a
  <1>b. HasHandle(k)'
    BY <1>2, <1>3, <1>a, HandleFields DEF HasHandle
  <1>4. \A j \in Kid : HasHandle(j)' <=> HasHandle(j)
    BY <1>1, <1>2, <1>b DEF HasHandle
  <1>5. (\A j \in Kid : HasHandle(j) => handle[j].out >= 0)'
    BY <1>2, <1>3, <1>4 DEF CInv
  <1>6. KidTypes'
    BY <1>1 DEF CInv, KidTypes
  <1> QED BY <1>1, <1>4, <1>5, <1>6, HandlesChanged

\* waitpid returns: the handle stays until it is released.
LEMMA WaitDoneCall ==
  ASSUME HInv, CInv, WaitDone
  PROVE  CInv' /\ \A j \in Kid : HasHandle(j)' <=> HasHandle(j)
  <1> DEFINE k == call.kid
  <1>1. /\ call # Idle /\ call.phase = "exit" /\ call' = Idle
        /\ handle' = [handle EXCEPT ![k].waited = TRUE] /\ kids' = [kids EXCEPT ![k].st = "reaped"]
        /\ UNCHANGED <<pipe, calls, killed, mismatched>>
    BY DEF WaitDone, Return
  <1>2. k \in Kid /\ HasHandle(k)
    <2>1. call \in Waiting \cup Talking
      BY <1>1 DEF CInv, CallTypes
    <2>2. k \in Kid
      BY <2>1 DEF Waiting, Talking
    <2> QED BY <1>1, <2>2 DEF CInv, CallTypes
  <1> HIDE DEF k
  <1>3. /\ handle'[k].out = handle[k].out /\ \A j \in Kid \ {k} : handle'[j] = handle[j]
    BY <1>1, <1>2, HandleFields DEF Handles
  <1>4. handle[k].out >= 0
    BY <1>2 DEF CInv
  <1>5. \A j \in Kid : HasHandle(j)' <=> HasHandle(j)
    BY <1>2, <1>3, <1>4, HandleFields DEF HasHandle
  <1>6. (\A j \in Kid : HasHandle(j) => handle[j].out >= 0)'
    BY <1>3, <1>4, <1>5 DEF CInv
  <1>7. KidTypes'
    BY <1>1, <1>2, KidState DEF CInv
  <1> QED BY <1>1, <1>5, <1>6, <1>7, HandlesChanged

\* Releasing a child drops its handle and no other.
LEMMA ReleaseCall ==
  ASSUME HInv, CInv, NEW k \in Kid, cn_ipc_native_release(k)
  PROVE  CInv' /\ HasHandle(k) /\ \A j \in Kid : HasHandle(j)' <=> HasHandle(j) /\ j # k
  <1>1. /\ HasHandle(k) /\ handle' = [handle EXCEPT ![k] = NoHandle] /\ call' = Idle
        /\ \/ kids' = [kids EXCEPT ![k].st = "reaped"]
           \/ UNCHANGED kids
        /\ UNCHANGED <<pipe, calls, killed, mismatched>>
    BY DEF cn_ipc_native_release
  <1>2. handle'[k] = NoHandle /\ \A j \in Kid \ {k} : handle'[j] = handle[j]
    BY <1>1, HandleFields
  <1>3. \A j \in Kid : HasHandle(j)' <=> HasHandle(j) /\ j # k
    BY <1>2 DEF HasHandle
  <1>4. (\A j \in Kid : HasHandle(j) => handle[j].out >= 0)'
    BY <1>2, <1>3 DEF CInv
  <1>5. KidTypes'
    <2>1. CASE UNCHANGED kids
      BY <2>1 DEF CInv, KidTypes
    <2> QED BY <1>1, <2>1, KidState DEF CInv
  <1> QED BY <1>1, <1>3, <1>4, <1>5, HandlesChanged

\* A child that was spawned has a handle, with a descriptor to read from, or
\* none.
LEMMA SpawnCall ==
  ASSUME HInv, CInv, NEW k \in Kid, NEW pid \in Pid, NEW outcome, cn_ipc_native_spawn(k, pid, outcome)
  PROVE  /\ CInv'
         /\ \/ UNCHANGED <<heap, handle>>
            \/ /\ heap' = AddNodes(heap, 2) /\ ~HasHandle(k)
               /\ \A j \in Kid : HasHandle(j)' <=> HasHandle(j) \/ j = k
  <1> DEFINE p == Pipes(k)
  <1>1. /\ kids[k].st = "none" /\ call' = Idle
        /\ UNCHANGED <<pipe, calls, killed, mismatched>>
    BY DEF cn_ipc_native_spawn
  <1>2. ~HasHandle(k)
    BY <1>1 DEF HInv
  <1>3. KidTypes'
    <2>1. CASE UNCHANGED kids
      BY <2>1 DEF CInv, KidTypes
    <2>2. ASSUME NEW holds,
                 kids' = [kids EXCEPT ![k] = [@ EXCEPT !.st = "run", !.pid = pid, !.holds = holds]]
          PROVE  KidTypes'
      <3>1. kids = [j \in Kid |-> kids[j]]
            /\ \A j \in Kid : DOMAIN kids[j] = {"st", "pid", "holds", "line", "todo"}
        BY DEF HInv, TableTypes
      <3>2. kids' = [j \in Kid |-> kids'[j]] /\ \A j \in Kid \ {k} : kids'[j] = kids[j]
        BY <2>2, <3>1
      <3>3. kids'[k].line = kids[k].line /\ kids'[k].todo = kids[k].todo /\ kids'[k].st = "run"
        BY <2>2, <3>1
      <3> QED BY <3>2, <3>3 DEF CInv, KidTypes
    <2>3. \/ UNCHANGED kids
          \/ kids' = [kids EXCEPT ![k] = [@ EXCEPT !.st = "run", !.pid = pid, !.holds = ChildHolds(p.t, k)]]
      BY Zenon DEF cn_ipc_native_spawn
    <2> QED BY <2>1, <2>2, <2>3
  <1>4. CASE UNCHANGED <<heap, handle>>
    <2>1. (\A j \in Kid : HasHandle(j) => handle[j].out >= 0)'
      BY <1>4 DEF CInv, HasHandle
    <2> QED BY <1>1, <1>3, <1>4, <2>1, HandlesChanged
  <1>5. CASE /\ p.ok /\ heap' = AddNodes(heap, 2)
             /\ handle' = [handle EXCEPT ![k] = [pid |-> pid, in |-> p.in.w, out |-> p.out.r,
                                                err |-> p.err.r, waited |-> FALSE]]
    <2>1. p.out.r \in Fd
      <3>1. fds = [f \in Fd |-> fds[f]]
        BY DEF HInv, TableTypes
      <3>2. {p.in.w, p.out.r, p.err.r} \subseteq FreeFds(fds)
        BY <1>5, <3>1, PipesFacts, Zenon
      <3> QED BY <3>2 DEF FreeFds
    <2>2. p.out.r >= 0 /\ p.out.r # -1 /\ p.out.r \in Int
      <3>1. \A f \in Fd : f >= 0 /\ f # -1 /\ f \in Int
        BY IpcAssumption
      <3> HIDE DEF p
      <3> QED BY <2>1, <3>1
    <2> HIDE DEF p
    <2>3. handle'[k].out = p.out.r /\ \A j \in Kid \ {k} : handle'[j] = handle[j]
      BY <1>5, HandleFields
    <2>4. \A j \in Kid : HasHandle(j)' <=> HasHandle(j) \/ j = k
      BY <2>2, <2>3, HandleFields DEF HasHandle
    <2>5. (\A j \in Kid : HasHandle(j) => handle[j].out >= 0)'
      BY <2>2, <2>3, <2>4 DEF CInv
    <2> QED BY <1>1, <1>2, <1>3, <1>5, <2>4, <2>5, HandlesChanged
  <1> QED BY <1>4, <1>5, Zenon DEF cn_ipc_native_spawn

\* Waiting for a child starts a call, or returns the status it had.
LEMMA WaitCall ==
  ASSUME CInv, NEW k \in Kid, cn_ipc_native_wait(k)
  PROVE  CInv'
  <1>1. /\ HasHandle(k) /\ calls < MaxCalls /\ calls' = calls + 1
        /\ call' = [op |-> "wait", kid |-> k, s |-> "none", phase |-> "exit"]
        /\ UNCHANGED <<kids, pipe, handle, killed, mismatched>>
    BY DEF cn_ipc_native_wait
  <1>2. calls' \in 0..MaxCalls
    BY <1>1, IpcAssumption DEF CInv, CallTypes
  <1>3. call' \in Waiting /\ call'.kid = k /\ call'.op = "wait"
    BY <1>1 DEF Waiting
  <1>4. call' \notin Talking
    <2>1. "wait" \notin Writes \cup {"chunk", "line"}
      BY DEF Writes
    <2> QED BY <1>3, <2>1 DEF Talking
  <1>5. CallTypes'
    BY <1>1, <1>2, <1>3, <1>4 DEF CInv, CallTypes, HasHandle
  <1>6. PipeTypes' /\ KidTypes'
    BY <1>1, SamePipes DEF CInv, KidTypes
  <1> QED BY <1>1, <1>5, <1>6 DEF CInv, HasHandle

\* Killing a child leaves the pipes and calls typed.
LEMMA KillCall ==
  ASSUME HInv, CInv, NEW k \in Kid, cn_ipc_native_kill(k)
  PROVE  CInv'
  <1>1. UNCHANGED <<pipe, handle, call, calls, killed, mismatched>>
        /\ \E j \in Kid : kids' = [kids EXCEPT ![j] = Exited(@)]
    BY DEF cn_ipc_native_kill, ours
  <1> QED BY <1>1, ExitKid, SamePipes, KidsChanged DEF CInv

\* A step that leaves pipes, children, handles and calls alone keeps CInv.
LEMMA CallUntouched ==
  ASSUME CInv, UNCHANGED <<pipe, kids, handle, call, calls, killed, mismatched>>
  PROVE  CInv'
  BY SamePipes, KidsChanged DEF CInv, KidTypes

\* No call is in progress when the program starts.
LEMMA InitCalls == Init => CInv
  <1> SUFFICES ASSUME Init PROVE CInv
    OBVIOUS
  <1>1. /\ kids = [k \in Kid |-> [st |-> "none", pid |-> 0, holds |-> {}, line |-> <<>>, todo |-> <<>>]]
        /\ pipe = [p \in Kid \X Streams |-> <<>>]
        /\ handle = [k \in Kid |-> NoHandle]
        /\ call = Idle /\ calls = 0 /\ killed = FALSE /\ mismatched = FALSE
    BY DEF Init, IpcInit
  <1>2. <<>> \in Seq(Item) /\ <<>> \in Seq({"out", "err"} \X Item) /\ Len(<<>>) = 0
    OBVIOUS
  <1>3. PipeTypes
    BY <1>1, <1>2, IpcAssumption DEF PipeTypes
  <1>4. KidTypes
    BY <1>1, <1>2 DEF KidTypes
  <1>5. CallTypes
    <2>1. 0 \in 0..MaxCalls
      BY IpcAssumption
    <2> QED BY <1>1, <2>1, IdleIsSilent, Zenon DEF CallTypes
  <1>6. \A k \in Kid : ~HasHandle(k)
    BY <1>1 DEF HasHandle
  <1> QED BY <1>3, <1>4, <1>5, <1>6 DEF CInv

\* Every operation that starts talking to a child keeps CInv.
LEMMA TalkCalls ==
  ASSUME CInv, TalkNext(Kid, Var)
  PROVE  CInv'
  <1> DEFINE any == CHOOSE v \in Var : TRUE
  <1>0. any \in Var
    BY PartsAssumption
  <1> HIDE DEF any
  <1>1. ASSUME NEW k \in Kid, NEW n \in Lengths,
               \/ cn_ipc_native_stdin_write(k, n)
               \/ cn_ipc_native_stdin_write_line(k, n)
               \/ \E max \in Limits, v \in Var : cn_ipc_request_line(k, n, max, v)
        PROVE  CInv'
    <2>1. n \in Nat /\ Limits \subseteq Nat /\ 0 \in Nat /\ "in" \in Streams
          /\ "write" \in Writes /\ "write_line" \in Writes /\ "request" \in Writes
          /\ "write_line" # "write" /\ "request" # "write"
      BY IpcAssumption DEF Streams, Writes
    <2>2. CASE cn_ipc_native_stdin_write(k, n)
      BY <1>0, <2>1, <2>2, BeginCall DEF cn_ipc_native_stdin_write, any
    <2>3. CASE cn_ipc_native_stdin_write_line(k, n)
      BY <1>0, <2>1, <2>3, BeginCall DEF cn_ipc_native_stdin_write_line, any
    <2>4. ASSUME NEW max \in Limits, NEW v \in Var, cn_ipc_request_line(k, n, max, v)
          PROVE  CInv'
      BY <2>1, <2>4, BeginCall DEF cn_ipc_request_line
    <2> QED BY <1>1, <2>2, <2>3, <2>4
  <1>2. ASSUME NEW k \in Kid, NEW s \in {"out", "err"}, NEW max \in Limits, NEW v \in Var,
               cn_ipc_read(k, s, max, v) \/ cn_ipc_read_line(k, s, max, v)
        PROVE  CInv'
    <2>1. s \in Streams /\ max \in Nat /\ 0 \in Nat /\ "chunk" # "write" /\ "line" # "write"
      BY IpcAssumption DEF Streams
    <2> QED BY <1>2, <2>1, BeginCall DEF cn_ipc_read, cn_ipc_read_line
  <1>3. CASE ReadNoMemory
    <2>1. call' = Idle /\ UNCHANGED <<pipe, kids, handle, calls, killed, mismatched>>
      BY <1>3 DEF ReadNoMemory, Return
    <2>2. PipeTypes' /\ killed' \in BOOLEAN /\ mismatched' \in BOOLEAN
      BY <2>1, SamePipes DEF CInv, CallTypes
    <2> QED BY <2>1, <2>2, CallEnds
  <1> QED BY <1>1, <1>2, <1>3, InterruptedCall, Zenon DEF TalkNext

\* Every system call of a call in progress keeps CInv.
LEMMA StepCalls ==
  ASSUME HInv, CInv, CallStep
  PROVE  CInv'
  <1>1. CASE BrokenPipe
    <2>1. call' = Idle /\ killed' = TRUE /\ UNCHANGED <<pipe, kids, handle, calls, mismatched>>
      BY <1>1 DEF BrokenPipe, Return
    <2>2. PipeTypes' /\ killed' \in BOOLEAN /\ mismatched' \in BOOLEAN
      BY <2>1, SamePipes DEF CInv, CallTypes
    <2> QED BY <2>1, <2>2, CallEnds
  <1> QED BY <1>1, WriteValueCall, NewlineCall, ReadChunkCall, LineDoneCall, TakeByteCall,
             WaitDoneCall, Zenon DEF CallStep

\* spawn, wait, kill, stdin_close and release keep CInv.
LEMMA LifeCalls ==
  ASSUME HInv, CInv, LifeNext(Kid)
  PROVE  CInv'
  BY SpawnCall, WaitCall, StdinCloseCall, KillCall, ReleaseCall, Zenon DEF LifeNext

\* The network keeps to its sockets.
LEMMA NetKeepsToSockets ==
  ASSUME NetNext(Var)
  PROVE  UNCHANGED <<kids, pipe, handle, call, calls, killed, inStep, mismatched>>
  <1>1. ASSUME NEW i, NEW kind, NEW host, NEW port, NEW fails, OpenSocket(i, kind, host, port, fails)
        PROVE  UNCHANGED <<kids, pipe, handle, call, calls, killed, inStep, mismatched>>
    BY <1>1 DEF OpenSocket, notFds
  <1>2. ASSUME NEW l, NEW i, cn_net_accept(l, i)
        PROVE  UNCHANGED <<kids, pipe, handle, call, calls, killed, inStep, mismatched>>
    BY <1>2 DEF cn_net_accept, notFds
  <1>3. ASSUME NEW i, cn_net_close(i)
        PROVE  UNCHANGED <<kids, pipe, handle, call, calls, killed, inStep, mismatched>>
    BY <1>3 DEF cn_net_close, notFds
  <1>4. ASSUME NEW i, NEW v, NEW text, NEW a, NEW node, cn_net_recv_chunk(i, v, text, a, node)
        PROVE  UNCHANGED <<kids, pipe, handle, call, calls, killed, inStep, mismatched>>
    BY <1>4 DEF cn_net_recv_chunk, ipcVars
  <1>5. ASSUME NEW i, NEW a, cn_net_recv_fails(i, a)
        PROVE  UNCHANGED <<kids, pipe, handle, call, calls, killed, inStep, mismatched>>
    BY <1>5 DEF cn_net_recv_fails, ipcVars
  <1>6. ASSUME NEW i, NEW v, NEW w, NEW text, NEW a, NEW b, NEW nodeA, NEW nodeB,
               cn_net_udp_recv_from(i, v, w, text, a, b, nodeA, nodeB)
        PROVE  UNCHANGED <<kids, pipe, handle, call, calls, killed, inStep, mismatched>>
    BY <1>6 DEF cn_net_udp_recv_from, ipcVars
  <1> QED BY <1>1, <1>2, <1>3, <1>4, <1>5, <1>6, Zenon
          DEF NetNext, cn_net_tcp_connect, cn_net_tcp_listen, cn_net_udp_bind

\* The calls are left alone by the network.
LEMMA NetCalls ==
  ASSUME CInv, NetNext(Var)
  PROVE  CInv'
  BY NetKeepsToSockets, CallUntouched

\* Every step keeps CInv.
LEMMA NextCalls == ASSUME HInv, CInv, [WholeNext]_vars PROVE CInv'
  <1>1. CASE UNCHANGED vars \/ ((StringNext(Var) \/ ZoneNext) /\ Between)
             \/ ((BytesNext(Var) \/ LinesNext(Var)) /\ UNCHANGED notBuffers)
    BY <1>1, CallUntouched DEF vars, Between, notHeap, notBuffers, ipcVars
  <1>2. CASE TalkNext(Kid, Var) \/ LifeNext(Kid) \/ CallStep
    BY <1>2, TalkCalls, LifeCalls, StepCalls
  <1>3. CASE \E k \in Kid : KidNext(k) \/ KidStops(k)
    BY <1>3, KidCall
  <1>4. CASE NetNext(Var)
    BY <1>4, NetCalls
  <1> QED BY <1>1, <1>2, <1>3, <1>4, Zenon DEF WholeNext

\* A call in progress is about a child whose handle the program holds, has text left
\* while it writes text and never reads more than it was asked for, the pipes hold no
\* more than they can, and a handle has the descriptor of its stdout, whatever the
\* program and its children do (native_runtime.c: write_all, read, read_line, request).
THEOREM CallInvariance == WholeSpec => []CInv
  <1>1. HInv /\ CInv /\ [WholeNext]_vars => CInv'
    BY NextCalls
  <1> QED BY <1>1, InitCalls, TableInvariance, PTL DEF WholeSpec

-----------------------------------------------------------------------------
(* Requests and their answers.                                                *)

\* Nothing is part of everything.
LEMMA EmptyPart ==
  ASSUME NEW S, NEW f \in Seq(S), NEW at \in Nat, at <= Len(f)
  PROVE  Part(f, at, <<>>)
  <1>1. Len(<<>>) = 0
    OBVIOUS
  <1> QED BY <1>1, LenProperties DEF Part

\* An item more of the same.
LEMMA LongerPart ==
  ASSUME NEW S, NEW f \in Seq(S), NEW at \in Nat, NEW s \in Seq(S), Part(f, at, s),
         at + Len(s) < Len(f), NEW x, x = f[at + Len(s) + 1]
  PROVE  Part(f, at, Append(s, x)) /\ Append(s, x) \in Seq(S) /\ Len(Append(s, x)) = Len(s) + 1
  <1> DEFINE n == Len(s)
             l == Len(f)
             t == Append(s, x)
  <1>1. n \in Nat /\ l \in Nat /\ at + n < l /\ x = f[at + n + 1] /\ \A i \in 1..n : s[i] = f[at + i]
    BY LenProperties DEF Part
  <1>2. x \in S
    <2>1. at + n + 1 \in 1..l
      <3> HIDE DEF n, l
      <3> QED BY <1>1
    <2> QED BY <1>1, <2>1, ElementOfSeq
  <1>3. t \in Seq(S) /\ Len(t) = n + 1 /\ (\A i \in 1..n : t[i] = s[i]) /\ t[n + 1] = x
    BY <1>2, AppendProperties
  <1> HIDE DEF n, l, t
  <1>4. ASSUME NEW i \in 1..(n + 1) PROVE t[i] = f[at + i]
    <2>1. CASE i \in 1..n
      BY <1>1, <1>3, <2>1
    <2>2. CASE i = n + 1
      <3>1. at + i = at + n + 1
        BY <1>1, <2>2
      <3> QED BY <1>1, <1>3, <2>2, <3>1
    <2> QED BY <1>1, <2>1, <2>2
  <1>5. at + (n + 1) <= l
    BY <1>1
  <1> QED BY <1>3, <1>4, <1>5 DEF Part, t, n, l

\* The first item, and the others.
LEMMA ShorterPart ==
  ASSUME NEW S, NEW f \in Seq(S), NEW at \in Nat, NEW s \in Seq(S), Part(f, at, s), s # <<>>
  PROVE  /\ Head(s) = f[at + 1] /\ at + 1 <= Len(f) /\ Part(f, at + 1, Tail(s))
         /\ Tail(s) \in Seq(S) /\ Len(Tail(s)) = Len(s) - 1
  <1> DEFINE n == Len(s)
             l == Len(f)
             t == Tail(s)
  <1>1. n \in Nat /\ l \in Nat /\ at + n <= l /\ \A i \in 1..n : s[i] = f[at + i]
    BY LenProperties DEF Part
  <1>2. t \in Seq(S) /\ Len(t) = n - 1 /\ (\A i \in 1..(n - 1) : t[i] = s[i + 1]) /\ Head(s) = s[1] /\ n > 0
    BY HeadTailProperties, EmptySeq, LenProperties
  <1> HIDE DEF n, l, t
  <1>3. ASSUME NEW i \in 1..(n - 1) PROVE t[i] = f[(at + 1) + i]
    <2>1. i + 1 \in 1..n /\ (at + 1) + i = at + (i + 1)
      BY <1>1, <1>2
    <2> QED BY <1>1, <1>2, <2>1
  <1>4. (at + 1) + (n - 1) <= l /\ at + 1 <= l /\ 1 \in 1..n
    BY <1>1, <1>2
  <1>5. Head(s) = f[at + 1]
    BY <1>1, <1>2, <1>4
  <1> QED BY <1>2, <1>3, <1>4, <1>5 DEF Part, t, n, l

\* Text is without newlines and carriage returns.
Plain(text) == \A i \in 1..Len(text) : text[i] \notin {Nl, Cr}

\* A request as it is written: its text and a newline, which is only at the end.
LEMMA LineFacts ==
  ASSUME NEW text \in Seq(Item), Plain(text)
  PROVE  /\ LineFor(text) \in Seq(Item) /\ Len(LineFor(text)) = Len(text) + 1
         /\ \A i \in 1..Len(text) : LineFor(text)[i] = text[i] /\ LineFor(text)[i] # Nl
         /\ LineFor(text)[Len(text) + 1] = Nl
  BY SpecialItems, AppendProperties DEF LineFor, Plain

\* An answer as it is written: the text, perhaps a carriage return, and a newline.
LEMMA ReplyFacts ==
  ASSUME NEW text \in Seq(Item), Plain(text), NEW cr \in {<<>>, <<Cr>>}
  PROVE  /\ ReplyTo(text, cr) \in Seq(Item) /\ Len(ReplyTo(text, cr)) = Len(text) + Len(cr) + 1
         /\ Len(cr) \in {0, 1} /\ (Len(cr) = 0 <=> cr = <<>>)
         /\ \A i \in 1..Len(text) : ReplyTo(text, cr)[i] = text[i]
         /\ \A i \in 1..(Len(text) + Len(cr)) : ReplyTo(text, cr)[i] # Nl
         /\ Len(cr) = 1 => ReplyTo(text, cr)[Len(text) + 1] = Cr
         /\ ReplyTo(text, cr)[Len(text) + Len(cr) + 1] = Nl
  <1> DEFINE n == Len(text)
             r == ReplyTo(text, cr)
  <1>1. n \in Nat /\ \A i \in 1..n : text[i] # Nl
    BY LenProperties DEF Plain
  <1>2. CASE cr = <<>>
    <2>1. Len(cr) = 0
      BY <1>2
    <2>2. r = Append(text, Nl)
      <3>1. text \o <<>> = text
        OBVIOUS
      <3>2. r = (text \o <<>>) \o <<Nl>>
        BY <1>2 DEF ReplyTo
      <3>3. r = text \o <<Nl>>
        BY <3>1, <3>2, Zenon
      <3> QED BY <3>3, SpecialItems, AppendIsConcat
    <2>3. r \in Seq(Item) /\ Len(r) = n + 1 /\ (\A i \in 1..n : r[i] = text[i]) /\ r[n + 1] = Nl
      BY <2>2, SpecialItems, AppendProperties
    <2> HIDE DEF n, r
    <2>4. \A i \in 1..(n + 0) : r[i] # Nl
      BY <1>1, <2>3
    <2> QED BY <1>1, <1>2, <2>1, <2>3, <2>4 DEF n, r
  <1>3. CASE cr = <<Cr>>
    <2>1. Len(cr) = 1 /\ <<Cr>> # <<>>
      BY <1>3
    <2> DEFINE t == Append(text, Cr)
    <2>2. r = Append(t, Nl)
      <3>1. text \o <<Cr>> = t
        BY SpecialItems, AppendIsConcat
      <3>2. r = (text \o <<Cr>>) \o <<Nl>>
        BY <1>3 DEF ReplyTo
      <3>3. r = t \o <<Nl>> /\ t \in Seq(Item)
        BY <3>1, <3>2, SpecialItems, AppendProperties
      <3> HIDE DEF t
      <3> QED BY <3>3, SpecialItems, AppendIsConcat
    <2>3. t \in Seq(Item) /\ Len(t) = n + 1 /\ (\A i \in 1..n : t[i] = text[i]) /\ t[n + 1] = Cr
      BY SpecialItems, AppendProperties
    <2> HIDE DEF t
    <2>4. r \in Seq(Item) /\ Len(r) = Len(t) + 1 /\ (\A i \in 1..Len(t) : r[i] = t[i]) /\ r[Len(t) + 1] = Nl
      BY <2>2, <2>3, SpecialItems, AppendProperties
    <2> HIDE DEF n, r
    <2>5. Len(r) = n + 1 + 1 /\ r[n + 1 + 1] = Nl /\ r[n + 1] = Cr
      BY <1>1, <2>3, <2>4
    <2>6. \A i \in 1..n : r[i] = text[i]
      BY <1>1, <2>3, <2>4
    <2>7. \A i \in 1..(n + 1) : r[i] # Nl
      <3>1. Cr # Nl
        BY SpecialItems
      <3> QED BY <1>1, <2>5, <2>6, <3>1
    <2> DEFINE c == Len(cr)
    <2>8. c = 1 /\ cr # <<>>
      BY <1>3, <2>1
    <2> HIDE DEF c
    <2>9. /\ Len(r) = n + c + 1 /\ c \in {0, 1} /\ (c = 0 <=> cr = <<>>)
          /\ \A i \in 1..(n + c) : r[i] # Nl
          /\ c = 1 => r[n + 1] = Cr
          /\ r[n + c + 1] = Nl
      BY <1>1, <2>5, <2>7, <2>8
    <2> QED BY <2>4, <2>6, <2>9 DEF n, r, c
  <1> QED BY <1>2, <1>3

\* A reply up to its newline is the text once the carriage return is off.
LEMMA WholeReply ==
  ASSUME NEW text \in Seq(Item), Plain(text), NEW cr \in {<<>>, <<Cr>>}, NEW got \in Seq(Item),
         Part(ReplyTo(text, cr), 0, got), Len(got) + 1 = Len(ReplyTo(text, cr))
  PROVE  StripCr(got) = text
  <1> DEFINE n == Len(text)
             m == Len(cr)
             g == Len(got)
             r == ReplyTo(text, cr)
  <1>1. /\ n \in Nat /\ g \in Nat /\ m \in {0, 1}
        /\ g + 1 = n + m + 1 /\ (\A i \in 1..n : r[i] = text[i]) /\ (m = 1 => r[n + 1] = Cr)
        /\ \A i \in 1..n : text[i] # Cr
    BY ReplyFacts, LenProperties DEF Plain
  <1>2. \A i \in 1..g : got[i] = r[0 + i]
    BY DEF Part
  <1>a. (g > 0 <=> got # <<>>) /\ Last(got) = got[g] /\ Front(got) = SubSeq(got, 1, g - 1)
    BY EmptySeq, LenProperties DEF Last, Front
  <1> HIDE DEF n, m, g, r
  <1>3. \A i \in 1..g : got[i] = r[i]
    BY <1>1, <1>2
  <1>4. CASE m = 0
    <2>1. g = n /\ \A i \in 1..n : got[i] = text[i]
      BY <1>1, <1>3, <1>4
    <2>2. got = text
      BY <2>1, SeqEqual DEF g, n
    <2>3. g > 0 => got[g] # Cr
      <3>1. g > 0 => g \in 1..n
        BY <1>1, <2>1
      <3> QED BY <1>1, <2>1, <3>1
    <2> QED BY <1>a, <2>2, <2>3 DEF StripCr
  <1>5. CASE m = 1
    <2>1. g = n + 1 /\ n + 1 \in 1..g /\ g > 0 /\ g - 1 = n
      BY <1>1, <1>5
    <2>2. got[g] = Cr
      BY <1>1, <1>3, <1>5, <2>1
    <2> DEFINE f == SubSeq(got, 1, n)
    <2>3. f \in Seq(Item) /\ Len(f) = n /\ \A i \in 1..n : f[i] = got[i]
      <3>1. \A i \in 1..n : got[i] \in Item
        <4>1. \A i \in 1..n : i \in 1..g
          BY <1>1, <2>1
        <4> QED BY <4>1, ElementOfSeq DEF g
      <3>2. f \in Seq(Item) /\ Len(f) = (IF 1 <= n THEN n - 1 + 1 ELSE 0) /\ \A i \in 1..(n - 1 + 1) : f[i] = got[1 + i - 1]
        BY <1>1, <3>1, SubSeqProperties
      <3>3. (IF 1 <= n THEN n - 1 + 1 ELSE 0) = n /\ n - 1 + 1 = n /\ \A i \in 1..n : 1 + i - 1 = i
        BY <1>1
      <3> HIDE DEF f
      <3> QED BY <3>2, <3>3
    <2> HIDE DEF f
    <2>4. \A i \in 1..n : f[i] = text[i]
      <3>1. \A i \in 1..n : i \in 1..g
        BY <1>1, <2>1
      <3> QED BY <1>1, <1>3, <2>3, <3>1
    <2>5. f = text
      BY <2>3, <2>4, SeqEqual DEF n
    <2>6. Front(got) = f
      BY <1>a, <2>1 DEF f
    <2> QED BY <1>a, <2>1, <2>2, <2>5, <2>6 DEF StripCr
  <1> QED BY <1>1, <1>4, <1>5

\* Nothing has arrived yet.
LEMMA NothingArrived ==
  ASSUME NEW text \in Seq(Item), Plain(text), NEW cr \in {<<>>, <<Cr>>}
  PROVE  Arrived(<<>>, ReplyTo(text, cr), <<>>)
  <1>1. ReplyTo(text, cr) \in Seq(Item) /\ Len(<<>>) = 0 /\ 0 <= Len(ReplyTo(text, cr))
    BY ReplyFacts, LenProperties
  <1>2. Part(ReplyTo(text, cr), 0, <<>>)
    BY <1>1, EmptyPart
  <1> QED BY <1>1, <1>2 DEF Arrived

\* A child that ended before it answered has cut its answer short.
LEMMA NothingCutShort ==
  ASSUME NEW text \in Seq(Item), Plain(text), NEW kid, Ended(kid), NEW out, out = <<>>
  PROVE  CutShort(kid, out, text, <<>>)
  <1>1. <<>> \in {<<>>, <<Cr>>} /\ Arrived(<<>>, ReplyTo(text, <<>>), <<>>)
    BY NothingArrived
  <1> QED BY <1>1, Zenon DEF CutShort

\* A request to a child to and from which nothing is on the way.
LEMMA WayBegins ==
  ASSUME NEW c, c.op = "request", c.text \in Seq(Item), Plain(c.text), c.sent = 0, c.phase # "read",
         NEW kid, kid.st # "none", NEW in, NEW out, Quiet(kid, in, out)
  PROVE  OnTheWay(c, kid, in, out)
  <1>1. CASE Ended(kid)
    <2>1. CutShort(kid, out, c.text, <<>>)
      BY <1>1, NothingCutShort DEF Quiet
    <2> QED BY <2>1, LenProperties DEF OnTheWay, Plain
  <1>2. CASE in = <<>>
    <2>1. Len(<<>>) = 0 /\ Part(LineFor(c.text), 0, <<>>)
      <3>1. LineFor(c.text) \in Seq(Item) /\ 0 <= Len(LineFor(c.text)) /\ 0 \in Nat
        BY LineFacts, LenProperties
      <3> QED BY <3>1, EmptyPart
    <2>2. Asking(kid, in, out, c.text, 0)
      BY <1>2, <2>1 DEF Asking, Quiet
    <2> QED BY <2>2, LenProperties DEF OnTheWay, Plain
  <1> QED BY <1>1, <1>2 DEF Quiet

\* The next item of the line goes into the pipe.
LEMMA AskedMore ==
  ASSUME NEW text \in Seq(Item), Plain(text), NEW kid, kid.line \in Seq(Item), NEW in \in Seq(Item),
         NEW out, NEW sent \in Nat, sent <= Len(text), Asking(kid, in, out, text, sent),
         NEW x, x = LineFor(text)[sent + 1]
  PROVE  Asking(kid, Append(in, x), out, text, sent + 1)
  <1> DEFINE f == LineFor(text)
             at == Len(kid.line)
             n == Len(in)
             l == Len(text)
  <1>1. /\ f \in Seq(Item) /\ Len(f) = l + 1 /\ at \in Nat /\ n \in Nat /\ l \in Nat
        /\ Part(f, at, in) /\ at + n = sent /\ sent <= l
    BY LineFacts, LenProperties DEF Asking
  <1> HIDE DEF f, at, n, l
  <1>2. at + n < Len(f) /\ at + n + 1 = sent + 1 /\ at + (n + 1) = sent + 1
    BY <1>1
  <1>3. Part(f, at, Append(in, x)) /\ Len(Append(in, x)) = n + 1
    <2>1. at + Len(in) < Len(f) /\ x = f[at + Len(in) + 1]
      BY <1>2 DEF n, f
    <2>2. Part(f, at, Append(in, x)) /\ Len(Append(in, x)) = Len(in) + 1
      <3>1. f \in Seq(Item) /\ at \in Nat /\ in \in Seq(Item) /\ Part(f, at, in)
        BY <1>1
      <3> QED BY ONLY <2>1, <3>1, LongerPart
    <2> QED BY <2>2 DEF n
  <1> QED BY <1>2, <1>3 DEF Asking, f, at, n

\* The next item of the text goes into the pipe.
LEMMA WaySends ==
  ASSUME NEW c \in Talking, c.phase = "value", c.sent < Len(c.text), NEW kid, kid.line \in Seq(Item),
         NEW in \in Seq(Item), NEW out, OnTheWay(c, kid, in, out),
         NEW d, d.op = c.op, d.text = c.text, d.sent = c.sent + 1, d.phase \in {"value", "newline"},
         NEW more, more = Append(in, c.text[c.sent + 1])
  PROVE  OnTheWay(d, kid, more, out)
  <1>1. c.text \in Seq(Item) /\ c.sent \in Nat /\ Len(c.text) \in Nat
    BY LenProperties DEF Talking
  <1>2. Plain(c.text)
    BY DEF OnTheWay, Plain
  <1>3. d.sent <= Len(c.text) /\ c.sent + 1 \in 1..Len(c.text) /\ c.sent <= Len(c.text)
    <2> DEFINE l == Len(c.text)
    <2>1. l \in Nat /\ c.sent < l
      BY <1>1
    <2> HIDE DEF l
    <2>2. c.sent + 1 <= l /\ c.sent + 1 \in 1..l /\ c.sent <= l
      BY <1>1, <2>1
    <2> QED BY <2>2 DEF l
  <1>4. CASE CutShort(kid, out, c.text, <<>>)
    BY <1>3, <1>4 DEF OnTheWay
  <1>5. CASE Asking(kid, in, out, c.text, c.sent)
    <2>1. c.text[c.sent + 1] = LineFor(c.text)[c.sent + 1]
      BY <1>1, <1>2, <1>3, LineFacts
    <2>2. Asking(kid, more, out, c.text, c.sent + 1)
      BY <1>1, <1>2, <1>3, <1>5, <2>1, AskedMore
    <2> QED BY <1>3, <2>2 DEF OnTheWay
  <1> QED BY <1>4, <1>5 DEF OnTheWay

\* The newline follows the text, and the program turns to reading.
LEMMA WayEndsLine ==
  ASSUME NEW c \in Talking, c.phase = "newline", c.sent = Len(c.text), c.got = <<>>,
         NEW kid, kid.line \in Seq(Item), NEW in \in Seq(Item), NEW out, OnTheWay(c, kid, in, out),
         NEW d, d.op = c.op, d.text = c.text, d.sent = c.sent, d.phase = "read", d.s = "out", d.got = c.got,
         NEW more, more = Append(in, Nl)
  PROVE  OnTheWay(d, kid, more, out)
  <1>1. c.text \in Seq(Item) /\ c.sent \in Nat /\ Len(c.text) \in Nat /\ c.sent <= Len(c.text)
    BY LenProperties DEF Talking, OnTheWay
  <1>2. Plain(c.text)
    BY DEF OnTheWay, Plain
  <1>3. CASE CutShort(kid, out, c.text, <<>>)
    BY <1>1, <1>3 DEF OnTheWay
  <1>4. CASE Asking(kid, in, out, c.text, c.sent)
    <2>1. Nl = LineFor(c.text)[c.sent + 1]
      BY <1>1, <1>2, LineFacts
    <2>2. Asking(kid, more, out, c.text, c.sent + 1)
      BY <1>1, <1>2, <1>4, <2>1, AskedMore
    <2> QED BY <1>1, <2>2 DEF OnTheWay
  <1> QED BY <1>3, <1>4 DEF OnTheWay

\* What has arrived, when the program takes the first item from the pipe.
LEMMA ArrivedTaken ==
  ASSUME NEW r \in Seq(Item), NEW got \in Seq(Item), NEW out \in Seq(Item), Arrived(out, r, got), out # <<>>
  PROVE  /\ Arrived(Tail(out), r, Append(got, Head(out)))
         /\ Head(out) = r[Len(got) + 1] /\ Len(got) + Len(out) <= Len(r)
         /\ Len(Append(got, Head(out))) + Len(Tail(out)) = Len(got) + Len(out)
  <1> DEFINE g == Len(got)
             o == Len(out)
             l == Len(r)
             x == Head(out)
             t == Tail(out)
  <1>1. g \in Nat /\ o \in Nat /\ l \in Nat /\ Part(r, 0, got) /\ Part(r, g, out) /\ g + o <= l
    BY LenProperties DEF Arrived, Part
  <1>2. x = r[g + 1] /\ g + 1 <= l /\ Part(r, g + 1, t) /\ Len(t) = o - 1
    BY <1>1, ShorterPart
  <1> HIDE DEF g, l, o, t, x
  <1>3. 0 + g < l /\ 0 + g + 1 = g + 1
    BY <1>1, <1>2
  <1>4. Part(r, 0, Append(got, x)) /\ Len(Append(got, x)) = g + 1
    <2>1. 0 + Len(got) < Len(r) /\ x = r[0 + Len(got) + 1]
      BY <1>2, <1>3 DEF g, l
    <2>2. Part(r, 0, Append(got, x)) /\ Len(Append(got, x)) = Len(got) + 1
      BY <1>1, <2>1, LongerPart
    <2> QED BY <2>2 DEF g
  <1>5. (g + 1) + (o - 1) = g + o
    BY <1>1
  <1>6. Arrived(t, r, Append(got, x))
    BY <1>2, <1>4 DEF Arrived
  <1> QED BY <1>1, <1>2, <1>4, <1>5, <1>6 DEF g, o, l, x, t

\* The program takes an item of the answer.
LEMMA WayTakes ==
  ASSUME NEW c \in Talking, c.phase = "read", NEW kid, NEW in, NEW out \in Seq(Item), out # <<>>,
         OnTheWay(c, kid, in, out),
         NEW d, d.op = c.op, d.text = c.text, d.sent = c.sent, d.phase = "read", d.s = c.s,
         d.got = Append(c.got, Head(out)), NEW rest, rest = Tail(out)
  PROVE  OnTheWay(d, kid, in, rest)
  <1>1. c.text \in Seq(Item) /\ c.got \in Seq(Item)
    BY DEF Talking
  <1>2. Plain(c.text)
    BY DEF OnTheWay, Plain
  <1>3. ASSUME NEW cr \in {<<>>, <<Cr>>}, Arrived(out, ReplyTo(c.text, cr), c.got)
        PROVE  /\ Arrived(rest, ReplyTo(c.text, cr), d.got)
               /\ Len(d.got) + Len(rest) = Len(c.got) + Len(out)
    <2>1. ReplyTo(c.text, cr) \in Seq(Item)
      BY <1>1, <1>2, ReplyFacts
    <2> QED BY <1>1, <1>3, <2>1, ArrivedTaken
  <1>4. CASE Replying(kid, in, out, c.text, c.got)
    <2>1. PICK cr \in {<<>>, <<Cr>>} :
            /\ Arrived(out, ReplyTo(c.text, cr), c.got)
            /\ Pending(kid.todo, ReplyTo(c.text, cr), Len(c.got) + Len(out))
      BY <1>4, Zenon DEF Replying
    <2>2. Arrived(rest, ReplyTo(c.text, cr), d.got) /\ Len(d.got) + Len(rest) = Len(c.got) + Len(out)
      BY <1>3, <2>1
    <2>3. Pending(kid.todo, ReplyTo(c.text, cr), Len(d.got) + Len(rest))
      BY <2>1, <2>2, Zenon
    <2>4. Replying(kid, in, rest, d.text, d.got)
      BY <1>4, <2>2, <2>3, Zenon DEF Replying
    <2> QED BY <2>4 DEF OnTheWay
  <1>5. CASE CutShort(kid, out, c.text, c.got)
    <2>1. CutShort(kid, rest, d.text, d.got)
      BY <1>3, <1>5, Zenon DEF CutShort
    <2> QED BY <2>1 DEF OnTheWay
  <1> QED BY <1>4, <1>5 DEF OnTheWay, Asking

\* A reply ended by its newline is whole, it is the text, and nothing is left on
\* the way.
LEMMA ArrivedWhole ==
  ASSUME NEW text \in Seq(Item), Plain(text), NEW cr \in {<<>>, <<Cr>>}, NEW got \in Seq(Item),
         NEW out \in Seq(Item), Arrived(out, ReplyTo(text, cr), got), out # <<>>, Head(out) = Nl
  PROVE  /\ StripCr(got) = text /\ Tail(out) = <<>>
         /\ Len(got) + Len(out) = Len(ReplyTo(text, cr))
  <1> DEFINE r == ReplyTo(text, cr)
             g == Len(got)
             o == Len(out)
             n == Len(text) + Len(cr)
  <1>1. r \in Seq(Item) /\ Len(r) = n + 1 /\ n \in Nat /\ \A i \in 1..n : r[i] # Nl
    <2> DEFINE t == Len(text)
               e == Len(cr)
    <2>1. r \in Seq(Item) /\ Len(r) = t + e + 1 /\ e \in {0, 1} /\ \A i \in 1..(t + e) : r[i] # Nl
      BY ReplyFacts
    <2>2. t \in Nat
      BY LenProperties
    <2> HIDE DEF t, e
    <2>3. t + e \in Nat
      BY <2>1, <2>2
    <2> QED BY <2>1, <2>3 DEF t, e
  <1>2. r[g + 1] = Nl /\ g + o <= n + 1 /\ g \in Nat /\ o \in Nat \ {0}
    <2>1. Head(out) = r[Len(got) + 1] /\ Len(got) + Len(out) <= Len(r)
      BY <1>1, ArrivedTaken
    <2> QED BY <1>1, <2>1, LenProperties, EmptySeq
  <1>3. Part(r, 0, got)
    BY DEF Arrived
  <1> HIDE DEF r, g, o, n
  <1>4. g + 1 \notin 1..n
    BY <1>1, <1>2
  <1>5. g = n /\ o = 1
    BY <1>1, <1>2, <1>4
  <1>6. StripCr(got) = text
    <2>1. Len(got) + 1 = Len(ReplyTo(text, cr))
      BY <1>1, <1>5 DEF g, r
    <2> QED BY <1>3, <2>1, WholeReply DEF r
  <1>7. Tail(out) = <<>>
    <2>1. Tail(out) \in Seq(Item) /\ Len(Tail(out)) = Len(out) - 1
      BY HeadTailProperties
    <2>2. Len(out) = 1
      BY <1>5 DEF o
    <2>3. Len(Tail(out)) = 0
      BY <2>1, <2>2
    <2> QED BY <2>1, <2>3, EmptySeq
  <1> QED BY <1>1, <1>5, <1>6, <1>7 DEF r, g, o

\* The newline of an answer is its last item: the program has its text, and
\* nothing is left on the way.
LEMMA WayEnds ==
  ASSUME NEW c \in Talking, c.phase = "read", NEW kid, kid.todo \in Seq({"out", "err"} \X Item),
         NEW in, NEW out \in Seq(Item), out # <<>>, Head(out) = Nl, OnTheWay(c, kid, in, out)
  PROVE  StripCr(c.got) = c.text /\ Quiet(kid, in, Tail(out))
  <1>1. c.text \in Seq(Item) /\ c.got \in Seq(Item)
    BY DEF Talking
  <1>2. Plain(c.text)
    BY DEF OnTheWay, Plain
  <1>3. CASE Replying(kid, in, out, c.text, c.got)
    <2>1. PICK cr \in {<<>>, <<Cr>>} :
            /\ Arrived(out, ReplyTo(c.text, cr), c.got)
            /\ Pending(kid.todo, ReplyTo(c.text, cr), Len(c.got) + Len(out))
      BY <1>3, Zenon DEF Replying
    <2> DEFINE l == Len(ReplyTo(c.text, cr))
               n == Len(c.got) + Len(out)
    <2>2. StripCr(c.got) = c.text /\ Tail(out) = <<>> /\ n = l
      <3>1. Len(c.got) + Len(out) = Len(ReplyTo(c.text, cr)) /\ StripCr(c.got) = c.text /\ Tail(out) = <<>>
        <4> DEFINE t == c.text
                   g == c.got
        <4>1. /\ t \in Seq(Item) /\ Plain(t) /\ cr \in {<<>>, <<Cr>>} /\ g \in Seq(Item)
              /\ out \in Seq(Item) /\ Arrived(out, ReplyTo(t, cr), g) /\ out # <<>> /\ Head(out) = Nl
          BY <1>1, <1>2, <2>1
        <4> HIDE DEF t, g
        <4>2. Len(g) + Len(out) = Len(ReplyTo(t, cr)) /\ StripCr(g) = t /\ Tail(out) = <<>>
          BY ONLY <4>1, ArrivedWhole
        <4> QED BY <4>2 DEF t, g
      <3> QED BY <3>1
    <2>3. l \in Nat /\ n # 0
      <3>1. l \in Nat /\ Len(c.got) \in Nat /\ Len(out) \in Nat \ {0}
        <4>1. ReplyTo(c.text, cr) \in Seq(Item)
          BY <1>1, <1>2, ReplyFacts
        <4> QED BY <1>1, <4>1, LenProperties, EmptySeq
      <3> DEFINE g == Len(c.got)
                 o == Len(out)
      <3>2. g \in Nat /\ o \in Nat \ {0}
        BY <3>1
      <3> HIDE DEF g, o
      <3>3. g + o # 0
        BY <3>2
      <3> QED BY <3>1, <3>3 DEF g, o
    <2>4. Len(kid.todo) = 0
      <3>1. PICK e \in {0, 1} : Len(kid.todo) = e + l - n /\ (e = 1 => n = 0)
        BY <2>1 DEF Pending
      <3> HIDE DEF l, n
      <3> QED BY <2>2, <2>3, <3>1
    <2>5. kid.todo = <<>>
      BY <2>4, EmptySeq
    <2> QED BY <1>3, <2>2, <2>5 DEF Replying, Quiet
  <1>4. CASE CutShort(kid, out, c.text, c.got)
    <2>1. PICK cr \in {<<>>, <<Cr>>} : Arrived(out, ReplyTo(c.text, cr), c.got)
      BY <1>4, Zenon DEF CutShort
    <2>2. StripCr(c.got) = c.text /\ Tail(out) = <<>>
      BY <1>1, <1>2, <2>1, ArrivedWhole
    <2> QED BY <1>4, <2>2 DEF CutShort, Ended, Quiet
  <1> QED BY <1>3, <1>4 DEF OnTheWay, Asking

\* A child that ends takes with it what it had read and not written.
LEMMA WayCutShort ==
  ASSUME NEW c \in Talking, NEW kid, NEW in, NEW out, OnTheWay(c, kid, in, out), c.phase # "read" => c.got = <<>>,
         NEW dead, Ended(dead)
  PROVE  OnTheWay(c, dead, in, out)
  <1>1. c.text \in Seq(Item) /\ Plain(c.text) /\ dead.st # "none"
    BY DEF Talking, OnTheWay, Plain, Ended
  <1>2. ASSUME NEW s, Asking(kid, in, out, c.text, s) PROVE CutShort(dead, out, c.text, <<>>)
    BY <1>1, <1>2, NothingCutShort DEF Asking
  <1>3. ASSUME NEW got, CutShort(kid, out, c.text, got) \/ Replying(kid, in, out, c.text, got)
        PROVE  CutShort(dead, out, c.text, got)
    BY <1>3, Zenon DEF CutShort, Replying
  <1>4. CASE c.phase # "read"
    BY <1>1, <1>2, <1>3, <1>4 DEF OnTheWay
  <1>5. CASE c.phase = "read"
    <2>1. CutShort(dead, out, c.text, c.got)
      BY <1>2, <1>3, <1>5 DEF OnTheWay
    <2> QED BY <1>1, <1>5, <2>1 DEF OnTheWay
  <1> QED BY <1>4, <1>5

\* The child reads an item of the line: it has more of it, or the whole.
LEMMA AskedRead ==
  ASSUME NEW text \in Seq(Item), Plain(text), NEW kid, kid.line \in Seq(Item), NEW in \in Seq(Item),
         NEW out, NEW sent, Asking(kid, in, out, text, sent), in # <<>>
  PROVE  /\ Head(in) # Nl =>
              \A new : new.line = Append(kid.line, Head(in)) /\ new.todo = kid.todo =>
                         Asking(new, Tail(in), out, text, sent)
         /\ Head(in) = Nl => kid.line = text /\ Tail(in) = <<>> /\ sent = Len(text) + 1
  <1> DEFINE f == LineFor(text)
             line == kid.line
             at == Len(line)
             n == Len(in)
             l == Len(text)
             x == Head(in)
             t == Tail(in)
  <1>1. /\ f \in Seq(Item) /\ Len(f) = l + 1 /\ at \in Nat /\ n \in Nat /\ l \in Nat /\ line \in Seq(Item)
        /\ in \in Seq(Item)
    BY LineFacts, LenProperties
  <1>2. Part(f, 0, line) /\ Part(f, at, in) /\ at + n = sent /\ out = <<>> /\ kid.todo = <<>>
    BY DEF Asking
  <1>3. (\A i \in 1..l : f[i] = text[i] /\ f[i] # Nl) /\ in # <<>>
    BY LineFacts
  <1> HIDE DEF f, line, at, l, x, t, n
  <1>4. x = f[at + 1] /\ at + 1 <= l + 1 /\ Part(f, at + 1, t) /\ t \in Seq(Item) /\ Len(t) = n - 1
    <2>1. x = f[at + 1] /\ at + 1 <= Len(f) /\ Part(f, at + 1, t) /\ t \in Seq(Item) /\ Len(t) = Len(in) - 1
      BY ONLY <1>1, <1>2, <1>3, ShorterPart DEF x, t
    <2> QED BY <1>1, <2>1 DEF n
  <1>5. ASSUME x # Nl, NEW new, new.line = Append(line, x), new.todo = kid.todo
        PROVE  Asking(new, t, out, text, sent)
    <2>1. at < l + 1 /\ 0 + at < l + 1 /\ 0 + at + 1 = at + 1 /\ (at + 1) + (n - 1) = sent
      BY <1>1, <1>2, <1>4
    <2>2. 0 + Len(line) < Len(f) /\ x = f[0 + Len(line) + 1] /\ 0 \in Nat
      BY <1>1, <1>4, <2>1 DEF at
    <2>3. Part(f, 0, Append(line, x)) /\ Len(Append(line, x)) = Len(line) + 1
      <3>1. f \in Seq(Item) /\ line \in Seq(Item) /\ Part(f, 0, line)
        BY <1>1, <1>2
      <3> QED BY ONLY <2>2, <3>1, LongerPart
    <2>4. Len(new.line) = at + 1 /\ Len(new.line) + Len(t) = sent
      BY <1>4, <1>5, <2>1, <2>3 DEF at
    <2> QED BY <1>2, <1>4, <1>5, <2>3, <2>4 DEF Asking, f
  <1>6. ASSUME x = Nl
        PROVE  line = text /\ t = <<>> /\ sent = l + 1
    <2>1. at + 1 \notin 1..l
      BY <1>3, <1>4, <1>6
    <2>2. at = l
      BY <1>1, <1>4, <2>1
    <2>3. line = text
      <3>1. Len(line) = Len(text)
        BY <2>2 DEF at, l
      <3>2. \A i \in 1..Len(line) : line[i] = f[0 + i]
        BY <1>2 DEF Part
      <3>3. \A i \in 1..l : line[i] = text[i]
        <4>1. \A i \in 1..l : line[i] = f[0 + i]
          BY <3>1, <3>2 DEF l
        <4>2. \A i \in 1..l : 0 + i = i
          BY <1>1
        <4> QED BY <1>3, <4>1, <4>2
      <3> QED BY <1>1, <3>1, <3>3, SeqEqual DEF l
    <2>4. at + n <= l + 1
      <3>1. at + Len(in) <= Len(f)
        BY <1>2 DEF Part
      <3> QED BY <1>1, <3>1 DEF n
    <2>5. n # 0
      BY <1>1, <1>3, EmptySeq DEF n
    <2>6. n = 1 /\ sent = l + 1 /\ n - 1 = 0
      BY <1>1, <1>2, <2>2, <2>4, <2>5
    <2>7. t = <<>>
      BY <1>4, <2>6, EmptySeq
    <2> QED BY <2>3, <2>6, <2>7
  <1> QED BY <1>5, <1>6 DEF line, x, t, l

\* The answer is pending when the child has read the line.
LEMMA AnswerPending ==
  ASSUME NEW text \in Seq(Item), Plain(text), NEW complaint \in {<<>>, << <<"err", Nl>> >>},
         NEW cr \in {<<>>, <<Cr>>}
  PROVE  Pending(AnswerTo(text, complaint, cr), ReplyTo(text, cr), 0)
  <1> DEFINE todo == AnswerTo(text, complaint, cr)
             r == ReplyTo(text, cr)
             n == Len(text) + Len(cr) + 1
             e == Len(complaint)
  <1>1. Len(r) = n /\ Len(text) \in Nat /\ Len(cr) \in {0, 1}
    BY ReplyFacts, LenProperties
  <1>2. n \in Nat
    <2> DEFINE a == Len(text)
               b == Len(cr)
    <2>1. a \in Nat /\ b \in {0, 1}
      BY <1>1
    <2> HIDE DEF a, b
    <2>2. a + b + 1 \in Nat
      BY <2>1
    <2> QED BY <2>2 DEF a, b
  <1>3. e \in {0, 1} /\ (e = 1 => complaint # <<>>)
    <2>1. Len(<<>>) = 0
      OBVIOUS
    <2>2. ASSUME NEW y PROVE Len(<<y>>) = 1 /\ <<y>> # <<>>
      OBVIOUS
    <2>3. complaint = <<>> \/ complaint = << <<"err", Nl>> >>
      OBVIOUS
    <2> QED BY <2>1, <2>2, <2>3
  <1>4. /\ \A i \in 1..n : todo[e + i] = <<"out", r[i]>>
        /\ complaint # <<>> => todo[1] = <<"err", Nl>>
    BY AnswerFacts DEF ReplyTo
  <1>5. Len(todo) = e + Len(text) + Len(cr) + 1
    BY AnswerFacts
  <1>6. Len(todo) = e + n
    <2> DEFINE a == Len(text)
               b == Len(cr)
               lt == Len(todo)
    <2>1. a \in Nat /\ b \in {0, 1} /\ lt = e + a + b + 1 /\ e \in {0, 1}
      BY <1>1, <1>3, <1>5
    <2> HIDE DEF a, b, lt, e
    <2>2. lt = e + (a + b + 1)
      BY <2>1
    <2> QED BY <2>2 DEF a, b, lt, e
  <1> HIDE DEF todo, r, n, e
  <1>7. Len(todo) = e + Len(r) - 0
    BY <1>1, <1>2, <1>3, <1>6
  <1>8. \A i \in 1..(Len(r) - 0) : todo[e + i] = <<"out", r[0 + i]>>
    <2>1. Len(r) - 0 = n /\ \A i \in 1..n : 0 + i = i
      BY <1>1, <1>2
    <2> QED BY <1>4, <2>1
  <1> QED BY <1>3, <1>4, <1>7, <1>8 DEF Pending, todo, r

\* The child is replying if what arrived and what is pending make up one answer.
LEMMA ReplyingWith ==
  ASSUME NEW kid, NEW in, in = <<>>, kid.line = <<>>, NEW out, NEW text, NEW got, NEW cr \in {<<>>, <<Cr>>},
         Arrived(out, ReplyTo(text, cr), got), Pending(kid.todo, ReplyTo(text, cr), Len(got) + Len(out))
  PROVE  Replying(kid, in, out, text, got)
  <1>1. \E e \in {<<>>, <<Cr>>} :
          /\ Arrived(out, ReplyTo(text, e), got)
          /\ Pending(kid.todo, ReplyTo(text, e), Len(got) + Len(out))
    <2> WITNESS cr \in {<<>>, <<Cr>>}
    <2> QED OBVIOUS
  <1> QED BY <1>1, Zenon DEF Replying

\* The child reads an item of the request; with the newline it turns to the answer.
LEMMA WayKidReads ==
  ASSUME NEW c \in Talking, NEW kid, kid.st = "run", kid.line \in Seq(Item), NEW in \in Seq(Item), in # <<>>,
         NEW out, OnTheWay(c, kid, in, out), NEW new, new.st = kid.st,
         IF Head(in) # Nl
         THEN new.line = Append(kid.line, Head(in)) /\ new.todo = kid.todo
         ELSE /\ new.line = <<>>
              /\ \E complaint \in {<<>>, << <<"err", Nl>> >>}, cr \in {<<>>, <<Cr>>} :
                   new.todo = AnswerTo(kid.line, complaint, cr)
  PROVE  OnTheWay(c, new, Tail(in), out)
  <1>1. c.text \in Seq(Item) /\ Plain(c.text) /\ Len(c.text) \in Nat /\ c.sent \in Nat /\ c.sent <= Len(c.text)
    BY LenProperties DEF Talking, OnTheWay, Plain
  <1>2. /\ c.phase # "read" => Asking(kid, in, out, c.text, c.sent)
        /\ c.phase = "read" => c.s = "out" /\ c.got = <<>> /\ Asking(kid, in, out, c.text, Len(c.text) + 1)
    BY DEF OnTheWay, CutShort, Ended, Replying
  <1>3. PICK sent : Asking(kid, in, out, c.text, sent)
                    /\ sent = (IF c.phase = "read" THEN Len(c.text) + 1 ELSE c.sent)
    BY <1>2
  <1>4. CASE Head(in) # Nl
    <2>1. Asking(new, Tail(in), out, c.text, sent)
      BY <1>1, <1>3, <1>4, AskedRead
    <2> QED BY <1>2, <1>3, <2>1 DEF OnTheWay
  <1>5. CASE Head(in) = Nl
    <2>1. kid.line = c.text /\ Tail(in) = <<>> /\ sent = Len(c.text) + 1
      BY <1>1, <1>3, <1>5, AskedRead
    <2>2. c.phase = "read"
      <3> DEFINE l == Len(c.text)
      <3>1. l \in Nat /\ c.sent <= l /\ sent = l + 1 /\ (c.phase # "read" => sent = c.sent)
        BY <1>1, <1>3, <2>1
      <3> HIDE DEF l
      <3> QED BY <1>1, <3>1
    <2>3. PICK complaint \in {<<>>, << <<"err", Nl>> >>}, cr \in {<<>>, <<Cr>>} :
            new.todo = AnswerTo(c.text, complaint, cr)
      BY <1>5, <2>1
    <2>4. Pending(new.todo, ReplyTo(c.text, cr), 0)
      BY <1>1, <2>3, AnswerPending
    <2>5. out = <<>> /\ c.got = <<>> /\ new.line = <<>> /\ Len(<<>>) + Len(<<>>) = 0
      BY <1>2, <1>5, <2>2 DEF Asking
    <2>6. Arrived(<<>>, ReplyTo(c.text, cr), <<>>)
      BY <1>1, NothingArrived
    <2>7. Replying(new, Tail(in), out, c.text, c.got)
      <3>1. Len(c.got) + Len(out) = 0
        BY <2>5
      <3>2. Pending(new.todo, ReplyTo(c.text, cr), Len(c.got) + Len(out))
        BY <2>4, <3>1, Zenon
      <3>3. Arrived(out, ReplyTo(c.text, cr), c.got)
        BY <2>5, <2>6, Zenon
      <3>4. Tail(in) = <<>> /\ new.line = <<>> /\ cr \in {<<>>, <<Cr>>}
        BY <2>1, <2>5
      <3> QED BY ONLY <3>2, <3>3, <3>4, ReplyingWith
    <2> QED BY <1>2, <2>2, <2>7 DEF OnTheWay
  <1> QED BY <1>4, <1>5

\* Only the rest of the answer is pending, without a complaint.
LEMMA PendingWithout ==
  ASSUME NEW todo, NEW r, NEW n, Len(todo) = 0 + Len(r) - n,
         \A i \in 1..(Len(r) - n) : todo[0 + i] = <<"out", r[n + i]>>
  PROVE  Pending(todo, r, n)
  <1>1. \E c \in {0, 1} :
          /\ Len(todo) = c + Len(r) - n
          /\ \A i \in 1..(Len(r) - n) : todo[c + i] = <<"out", r[n + i]>>
          /\ c = 1 => todo[1] = <<"err", Nl>> /\ n = 0
    <2> WITNESS 0 \in {0, 1}
    <2> QED OBVIOUS
  <1> QED BY <1>1, Zenon DEF Pending

\* The first of the items a child has yet to write, and what is left then.
LEMMA PendingWritten ==
  ASSUME NEW r \in Seq(Item), NEW n \in Nat, n <= Len(r), NEW todo \in Seq({"out", "err"} \X Item),
         Pending(todo, r, n), todo # <<>>
  PROVE  \/ Head(todo) = <<"err", Nl>> /\ Pending(Tail(todo), r, n)
         \/ n < Len(r) /\ Head(todo) = <<"out", r[n + 1]>> /\ Pending(Tail(todo), r, n + 1)
  <1> DEFINE l == Len(r)
             m == Len(todo)
             t == Tail(todo)
  <1>1. l \in Nat /\ m \in Nat \ {0} /\ n <= l
    BY LenProperties, EmptySeq
  <1>2. Len(t) = m - 1 /\ Head(todo) = todo[1] /\ \A i \in 1..(m - 1) : t[i] = todo[i + 1]
    BY HeadTailProperties, LenProperties
  <1>3. PICK c \in {0, 1} : /\ m = c + l - n
                            /\ \A i \in 1..(l - n) : todo[c + i] = <<"out", r[n + i]>>
                            /\ c = 1 => todo[1] = <<"err", Nl>> /\ n = 0
    BY DEF Pending
  <1> HIDE DEF l, m, t
  <1>4. CASE c = 1
    <2>1. n = 0 /\ todo[1] = <<"err", Nl>> /\ m - 1 = l /\ l - n = l
      BY <1>1, <1>3, <1>4
    <2>2. \A i \in 1..(l - n) : t[0 + i] = <<"out", r[n + i]>>
      <3> TAKE i \in 1..(l - n)
      <3>1. i \in 1..(m - 1) /\ 0 + i = i /\ 1 + i = i + 1
        BY <1>1, <2>1
      <3>2. t[i] = todo[i + 1] /\ todo[1 + i] = <<"out", r[n + i]>>
        BY <1>2, <1>3, <1>4, <3>1
      <3> QED BY <3>1, <3>2
    <2>3. Len(t) = 0 + l - n
      BY <1>1, <1>2, <2>1
    <2>4. Pending(t, r, n)
      BY ONLY <2>2, <2>3, PendingWithout DEF l
    <2> QED BY <1>2, <2>1, <2>4 DEF t
  <1>5. CASE c = 0
    <2>1. m = l - n /\ n < l /\ 1 \in 1..(l - n) /\ 0 + 1 = 1
      BY <1>1, <1>3, <1>5
    <2>2. todo[1] = <<"out", r[n + 1]>>
      BY <1>3, <1>5, <2>1
    <2>3. \A i \in 1..(l - (n + 1)) : t[0 + i] = <<"out", r[(n + 1) + i]>>
      <3> TAKE i \in 1..(l - (n + 1))
      <3>1. i \in 1..(m - 1) /\ 0 + i = i /\ 0 + (i + 1) = i + 1 /\ i + 1 \in 1..(l - n) /\ n + (i + 1) = (n + 1) + i
        BY <1>1, <2>1
      <3>2. t[i] = todo[i + 1] /\ todo[0 + (i + 1)] = <<"out", r[n + (i + 1)]>>
        BY <1>2, <1>3, <1>5, <3>1
      <3> QED BY <3>1, <3>2
    <2>4. Len(t) = 0 + l - (n + 1)
      BY <1>1, <1>2, <2>1
    <2>5. Pending(t, r, n + 1)
      BY ONLY <2>3, <2>4, PendingWithout DEF l
    <2> QED BY <1>2, <2>1, <2>2, <2>5 DEF t, l
  <1> QED BY <1>4, <1>5

\* Writing what is pending makes it arrive.
LEMMA WayKidWrites ==
  ASSUME NEW c \in Talking, NEW kid, kid.st = "run", NEW in, NEW out \in Seq(Item),
         kid.todo \in Seq({"out", "err"} \X Item), kid.todo # <<>>, OnTheWay(c, kid, in, out),
         NEW new, new.st = kid.st, new.line = kid.line, new.todo = Tail(kid.todo),
         NEW more, more = IF Head(kid.todo)[1] = "out" THEN Append(out, Head(kid.todo)[2]) ELSE out
  PROVE  OnTheWay(c, new, in, more)
  <1>1. c.text \in Seq(Item) /\ Plain(c.text) /\ c.got \in Seq(Item)
    BY DEF Talking, OnTheWay, Plain
  <1>2. c.phase = "read" /\ c.s = "out" /\ Replying(kid, in, out, c.text, c.got)
    BY DEF OnTheWay, Asking, CutShort, Ended
  <1>3. PICK cr \in {<<>>, <<Cr>>} :
          /\ Arrived(out, ReplyTo(c.text, cr), c.got)
          /\ Pending(kid.todo, ReplyTo(c.text, cr), Len(c.got) + Len(out))
    BY <1>2, Zenon DEF Replying
  <1> DEFINE r == ReplyTo(c.text, cr)
             g == Len(c.got)
             o == Len(out)
             todo == kid.todo
  <1>4. r \in Seq(Item)
    BY <1>1, ReplyFacts
  <1>5. g \in Nat /\ o \in Nat /\ Part(r, 0, c.got) /\ Part(r, g, out)
    BY <1>1, <1>3, LenProperties DEF Arrived
  <1>6. g + Len(out) <= Len(r) /\ g + o \in Nat /\ g + o <= Len(r)
    <2>1. g + Len(out) <= Len(r)
      BY <1>5 DEF Part
    <2>2. g + o <= Len(r)
      BY <2>1
    <2> HIDE DEF g, o
    <2>3. g + o \in Nat
      BY <1>5
    <2> QED BY <2>1, <2>2, <2>3
  <1>7. Pending(todo, r, g + o) /\ todo \in Seq({"out", "err"} \X Item) /\ todo # <<>>
    BY <1>3
  <1> HIDE DEF r, g, o, todo
  <1>8. \/ Head(todo) = <<"err", Nl>> /\ Pending(Tail(todo), r, g + o)
        \/ /\ g + o < Len(r) /\ Head(todo) = <<"out", r[g + o + 1]>>
           /\ Pending(Tail(todo), r, g + o + 1)
    BY ONLY <1>4, <1>6, <1>7, PendingWritten
  <1>9. /\ new.todo = Tail(todo) /\ more = IF Head(todo)[1] = "out" THEN Append(out, Head(todo)[2]) ELSE out
    BY DEF todo
  <1>10. ASSUME Part(r, g, more), Pending(new.todo, r, g + Len(more)) PROVE OnTheWay(c, new, in, more)
    <2>1. Arrived(more, ReplyTo(c.text, cr), c.got)
      BY <1>5, <1>10, Zenon DEF Arrived, r, g
    <2>2. Pending(new.todo, ReplyTo(c.text, cr), Len(c.got) + Len(more))
      BY <1>10, Zenon DEF r, g
    <2>3. in = <<>> /\ new.line = <<>>
      BY <1>2 DEF Replying
    <2>4. Replying(new, in, more, c.text, c.got)
      BY <2>1, <2>2, <2>3, Zenon DEF Replying
    <2> QED BY <1>2, <2>4 DEF OnTheWay
  <1>11. CASE Head(todo) = <<"err", Nl>> /\ Pending(Tail(todo), r, g + o)
    <2>1. more = out
      BY <1>9, <1>11
    <2> QED BY <1>5, <1>9, <1>10, <1>11, <2>1 DEF o
  <1>12. CASE g + o < Len(r) /\ Head(todo) = <<"out", r[g + o + 1]>> /\ Pending(Tail(todo), r, g + o + 1)
    <2> DEFINE x == r[g + o + 1]
    <2>1. more = Append(out, x)
      BY <1>9, <1>12
    <2>2. g + Len(out) < Len(r) /\ x = r[g + Len(out) + 1]
      BY <1>12 DEF o
    <2> HIDE DEF x
    <2>3. Part(r, g, more) /\ Len(more) = Len(out) + 1
      <3>1. r \in Seq(Item) /\ g \in Nat /\ out \in Seq(Item) /\ Part(r, g, out)
        BY <1>4, <1>5
      <3> QED BY ONLY <2>1, <2>2, <3>1, LongerPart
    <2>4. g + Len(more) = g + o + 1
      <3> DEFINE e == Len(more)
      <3>1. e = o + 1
        BY <2>3 DEF o
      <3> HIDE DEF e
      <3>2. g + e = g + o + 1
        BY <1>5, <3>1
      <3> QED BY <3>2 DEF e
    <2>5. Pending(new.todo, r, g + Len(more))
      BY <1>9, <1>12, <2>4, Zenon
    <2> QED BY <1>10, <2>3, <2>5
  <1> QED BY <1>8, <1>11, <1>12

\* Steps that touch neither the children nor their pipes nor the call.
LEMMA RepliesUntouched ==
  ASSUME RInv, UNCHANGED <<kids, pipe, call, inStep, mismatched>>
  PROVE  RInv'
  BY DEF RInv, RepliesMatch, QuietKids, QuietKid, Talks, KidOnTheWay

\* Steps that end a call, or begin to wait, and touch nothing else.
LEMMA RepliesSilent ==
  ASSUME RInv, call' \notin Talking, UNCHANGED <<kids, pipe, inStep, mismatched>>
  PROVE  RInv'
  BY DEF RInv, RepliesMatch, QuietKids, QuietKid

\* A call that does not start from step keeps the other children quiet.
LEMMA PipeQuiet ==
  ASSUME CInv, QuietKids, NEW k \in Kid, NEW s \in Streams, s # "err" => k \notin inStep /\ kids[k].st # "none",
         NEW items, pipe' = [pipe EXCEPT ![<<k, s>>] = items],
         UNCHANGED <<kids, inStep>>
  PROVE  QuietKids'
  <1>1. ASSUME NEW j \in Kid, kids[j].st = "none" \/ j \in inStep
        PROVE  pipe'[<<j, "in">>] = pipe[<<j, "in">>] /\ pipe'[<<j, "out">>] = pipe[<<j, "out">>]
    <2>1. s = "err" \/ j # k
      BY <1>1
    <2>2. <<j, "in">> # <<k, s>> /\ <<j, "out">> # <<k, s>> /\ <<j, "in">> \in Kid \X Streams
          /\ <<j, "out">> \in Kid \X Streams /\ pipe = [p \in Kid \X Streams |-> pipe[p]]
      BY <2>1 DEF Streams, CInv, PipeTypes
    <2> QED BY <2>2
  <1> QED BY <1>1 DEF QuietKids, QuietKid

\* Steps of one child.
LEMMA RepliesKid ==
  ASSUME HInv, CInv, RInv, NEW k \in Kid, NEW new, kids' = [kids EXCEPT ![k] = new],
         \A j \in Kid \ {k} : pipe'[<<j, "in">>] = pipe[<<j, "in">>] /\ pipe'[<<j, "out">>] = pipe[<<j, "out">>],
         UNCHANGED <<call, inStep, mismatched>>,
         new.st = "none" \/ k \in inStep => Quiet(new, pipe'[<<k, "in">>], pipe'[<<k, "out">>]),
         call \in Talking /\ call.kid = k /\ KidOnTheWay(call)
           => OnTheWay(call, new, pipe'[<<k, "in">>], pipe'[<<k, "out">>])
  PROVE  RInv'
  <1>1. kids'[k] = new /\ \A j \in Kid \ {k} : kids'[j] = kids[j]
    BY DEF HInv, TableTypes
  <1>2. QuietKids'
    <2>1. ASSUME NEW j \in Kid, kids'[j].st = "none" \/ j \in inStep PROVE QuietKid(j)'
      <3>1. CASE j = k
        BY <1>1, <2>1, <3>1 DEF QuietKid
      <3>2. CASE j # k
        BY <1>1, <2>1, <3>2 DEF RInv, QuietKids, QuietKid
      <3> QED BY <3>1, <3>2
    <2> QED BY <2>1 DEF QuietKids
  <1>3. ASSUME call \in Talking PROVE Talks(call)'
    <2>1. Talks(call) /\ call.kid \in Kid
      BY <1>3, TalkingFields DEF RInv
    <2>2. ASSUME KidOnTheWay(call) PROVE KidOnTheWay(call)'
      <3>1. CASE call.kid = k
        BY <1>1, <1>3, <2>2, <3>1 DEF KidOnTheWay
      <3>2. CASE call.kid # k
        BY <1>1, <2>1, <2>2, <3>2 DEF KidOnTheWay
      <3> QED BY <3>1, <3>2
    <2> QED BY <2>1, <2>2 DEF Talks
  <1> QED BY <1>2, <1>3 DEF RInv, RepliesMatch

\* Starting to talk to a child.
LEMMA BeginReplies ==
  ASSUME HInv, CInv, RInv, NEW k \in Kid, NEW op \in Writes \cup {"chunk", "line"}, NEW s \in Streams,
         NEW n \in Nat, NEW max, NEW v, op \in Writes => s = "in", Begin(k, op, s, n, max, v)
  PROVE  RInv'
  <1> DEFINE phase == IF op \notin Writes THEN "read" ELSE IF n > 0 THEN "value" ELSE "newline"
             text == Text(n)
             trusted == (op = "request" /\ k \in inStep)
  <1>1. /\ call' = [op |-> op, kid |-> k, s |-> s, max |-> max, v |-> v, text |-> text, sent |-> 0,
                    got |-> <<>>, phase |-> phase, trusted |-> trusted]
        /\ inStep' = IF s # "err" THEN inStep \ {k} ELSE inStep
        /\ HasHandle(k) /\ UNCHANGED <<kids, pipe, mismatched>>
    BY DEF Begin
  <1>2. phase # "read" => op \in Writes
    OBVIOUS
  <1>3. op = "request" => phase # "read"
    BY DEF Writes
  <1>4. text \in Seq(Item) /\ Plain(text)
    <2>1. calls \in Nat
      BY IpcAssumption DEF CInv, CallTypes
    <2>2. text \in Seq(Item) /\ Len(text) = n /\ \A i \in 1..n : text[i] = <<calls + 1>>
      BY <2>1, TextFacts
    <2>3. <<calls + 1>> # Nl /\ <<calls + 1>> # Cr
      BY <2>1 DEF Nl, Cr
    <2> HIDE DEF text
    <2> QED BY <2>2, <2>3 DEF Plain
  <1> HIDE DEF phase, text, trusted
  <1>5. /\ call'.op = op /\ call'.kid = k /\ call'.s = s /\ call'.text = text /\ call'.sent = 0
        /\ call'.phase = phase /\ call'.trusted = trusted
    BY <1>1
  <1>6. QuietKids' /\ inStep' \subseteq Kid
    BY <1>1 DEF RInv, QuietKids, QuietKid
  <1>7. ASSUME trusted PROVE KidOnTheWay(call)'
    <2>1. k \in inStep /\ op = "request"
      BY <1>7 DEF trusted
    <2>2. QuietKid(k) /\ kids[k].st # "none"
      BY <1>1, <2>1 DEF RInv, QuietKids, HInv
    <2>3. OnTheWay(call', kids[k], pipe[<<k, "in">>], pipe[<<k, "out">>])
      <3>1. call'.op = "request" /\ call'.text \in Seq(Item) /\ Plain(call'.text) /\ call'.sent = 0 /\ call'.phase # "read"
        BY <1>3, <1>4, <1>5, <2>1
      <3>2. Quiet(kids[k], pipe[<<k, "in">>], pipe[<<k, "out">>])
        BY <2>2 DEF QuietKid
      <3> QED BY <2>2, <3>1, <3>2, WayBegins
    <2> QED BY <1>1, <1>5, <2>3 DEF KidOnTheWay
  <1>8. Talks(call)'
    <2>1. call'.phase # "read" => call'.s = "in"
      BY <1>2, <1>5
    <2>2. call'.s # "err" => call'.kid \notin inStep'
      BY <1>1, <1>5
    <2> QED BY <1>5, <1>7, <2>1, <2>2, Zenon DEF Talks
  <1> QED BY <1>1, <1>6, <1>8 DEF RInv, RepliesMatch

\* A call that talks, and what is known of its child.
LEMMA TalkingChild ==
  ASSUME HInv, CInv, RInv, call # Idle, call.phase # "exit"
  PROVE  /\ call \in Talking /\ TalksWell(call) /\ Talks(call) /\ call.kid \in Kid /\ call.s \in Streams
         /\ kids[call.kid].st # "none" /\ kids[call.kid].line \in Seq(Item)
         /\ kids[call.kid].todo \in Seq({"out", "err"} \X Item)
         /\ pipe[<<call.kid, "in">>] \in Seq(Item) /\ pipe[<<call.kid, "out">>] \in Seq(Item)
  <1>1. TalksWell(call) /\ HasHandle(call.kid) /\ call.kid \in Kid
    BY CallIsWell DEF CInv
  <1>2. call \in Talking /\ call.s \in Streams
    BY <1>1, TalkingFields DEF TalksWell
  <1>3. <<call.kid, "in">> \in Kid \X Streams /\ <<call.kid, "out">> \in Kid \X Streams
    BY <1>1 DEF Streams
  <1>4. pipe[<<call.kid, "in">>] \in Seq(Item) /\ pipe[<<call.kid, "out">>] \in Seq(Item)
    BY <1>3 DEF CInv, PipeTypes
  <1> QED BY <1>1, <1>2, <1>4 DEF RInv, HInv, CInv, KidTypes

\* A step of a call that talks leaves its child to the call.
LEMMA RepliesCall ==
  ASSUME HInv, CInv, RInv, call # Idle, call.phase # "exit", NEW s \in Streams,
         call.s # "err" \/ s = "err", NEW items, pipe' = [pipe EXCEPT ![<<call.kid, s>>] = items],
         UNCHANGED <<kids, inStep, mismatched>>,
         call' \in Talking =>
           /\ call'.kid = call.kid /\ call'.trusted = call.trusted
           /\ call'.phase # "read" => call'.s = "in"
           /\ call'.s # "err" => call.s # "err"
           /\ KidOnTheWay(call) => KidOnTheWay(call)'
  PROVE  RInv'
  <1>1. call \in Talking /\ Talks(call) /\ call.kid \in Kid /\ kids[call.kid].st # "none"
    BY TalkingChild
  <1>2. QuietKids'
    <2>1. s # "err" => call.kid \notin inStep /\ kids[call.kid].st # "none"
      BY <1>1 DEF Talks
    <2> QED BY <1>1, <2>1, PipeQuiet DEF RInv
  <1>3. ASSUME call' \in Talking PROVE Talks(call)'
    <2>1. call'.s # "err" => call'.kid \notin inStep'
      BY <1>1, <1>3 DEF Talks
    <2>2. call'.trusted => KidOnTheWay(call)'
      BY <1>1, <1>3, Zenon DEF Talks
    <2>3. call'.phase # "read" => call'.s = "in"
      BY <1>3
    <2> QED BY <2>1, <2>2, <2>3, Zenon DEF Talks
  <1> QED BY <1>2, <1>3 DEF RInv, RepliesMatch

\* The call after AfterValue.
LEMMA AfterValueThen ==
  ASSUME call \in Talking, NEW n \in Nat, AfterValue(n), call' \in Talking
  PROVE  /\ call'.kid = call.kid /\ call'.trusted = call.trusted /\ call'.s = call.s
         /\ call'.op = call.op /\ call'.text = call.text /\ call'.sent = n /\ call'.phase = "newline"
  <1> DEFINE c == [call EXCEPT !.sent = n]
  <1>1. call' # Idle
    BY IdleIsSilent
  <1>2. call' = [c EXCEPT !.phase = "newline"]
    BY <1>1, Zenon DEF AfterValue, Return
  <1>3. c \in Talking /\ c.sent = n /\ c.op = call.op /\ c.kid = call.kid /\ c.s = call.s /\ c.text = call.text
        /\ c.trusted = call.trusted
    BY SentChanged
  <1> HIDE DEF c
  <1> QED BY <1>2, <1>3, PhaseChanged

\* write of an item of the text.
LEMMA WriteValueReplies ==
  ASSUME HInv, CInv, RInv, WriteValue
  PROVE  RInv'
  <1> DEFINE k == call.kid
             n == call.sent + 1
             in == pipe[<<k, "in">>]
             out == pipe[<<k, "out">>]
             more == Append(in, call.text[n])
  <1>1. /\ call # Idle /\ call.phase = "value"
        /\ pipe' = [pipe EXCEPT ![<<k, "in">>] = more]
        /\ IF n = Len(call.text) THEN AfterValue(n) ELSE call' = [call EXCEPT !.sent = n]
        /\ UNCHANGED <<kids, inStep, mismatched>>
    BY DEF WriteValue, PutItem
  <1>2. /\ call \in Talking /\ TalksWell(call) /\ Talks(call) /\ k \in Kid /\ kids[k].line \in Seq(Item)
        /\ in \in Seq(Item)
    BY <1>1, TalkingChild
  <1>3. call.s = "in" /\ call.sent \in Nat /\ n \in Nat /\ call.sent < Len(call.text)
    BY <1>1, <1>2, TalkingFields DEF Talks, TalksWell
  <1>4. "in" \in Streams /\ "out" \in Streams /\ "in" # "out" /\ "in" # "err"
    BY DEF Streams
  <1> HIDE DEF k, in, out, more
  <1>5. pipe'[<<k, "in">>] = more /\ pipe'[<<k, "out">>] = out
    <2>1. CInv /\ k \in Kid /\ "in" \in Streams /\ "out" \in Streams \ {"in"}
          /\ pipe' = [pipe EXCEPT ![<<k, "in">>] = more]
      BY <1>1, <1>2, <1>4
    <2>2. pipe \in [Kid \X Streams -> Seq(Item)]
      BY <2>1 DEF CInv, PipeTypes
    <2> QED BY <2>1, <2>2 DEF out
  <1>6. ASSUME call' \in Talking
        PROVE  /\ call'.kid = call.kid /\ call'.trusted = call.trusted /\ call'.s = call.s
               /\ call'.op = call.op /\ call'.text = call.text /\ call'.sent = n /\ call'.phase \in {"value", "newline"}
    <2>1. CASE n = Len(call.text)
      BY <1>1, <1>2, <1>3, <1>6, <2>1, AfterValueThen
    <2>2. CASE n # Len(call.text)
      <3>1. call' = [call EXCEPT !.sent = n]
        BY <1>1, <2>2
      <3> HIDE DEF n
      <3> QED BY <1>1, <1>2, <1>3, <3>1, SentChanged
    <2> QED BY <2>1, <2>2
  <1>7. ASSUME call' \in Talking, KidOnTheWay(call) PROVE KidOnTheWay(call)'
    <2>1. OnTheWay(call, kids[k], in, out)
      BY <1>7 DEF KidOnTheWay, k, in, out
    <2>2. OnTheWay(call', kids[k], more, out)
      BY <1>1, <1>2, <1>3, <1>6, <1>7, <2>1, WaySends DEF more
    <2> QED BY <1>1, <1>5, <1>6, <1>7, <2>2 DEF KidOnTheWay, k
  <1>8. call.phase # "exit" /\ call.s # "err"
    BY <1>1, <1>3
  <1>9. call' \in Talking =>
           /\ call'.kid = call.kid /\ call'.trusted = call.trusted
           /\ call'.phase # "read" => call'.s = "in"
           /\ call'.s # "err" => call.s # "err"
           /\ KidOnTheWay(call) => KidOnTheWay(call)'
    BY <1>3, <1>6, <1>7, <1>8, Zenon
  <1> QED BY <1>1, <1>4, <1>8, <1>9, RepliesCall DEF k

\* A write that is interrupted.
LEMMA InterruptedReplies ==
  ASSUME HInv, CInv, RInv, WriteInterrupted
  PROVE  RInv'
  <1>1. /\ call # Idle /\ call.phase = "value" /\ AfterValue(call.sent)
        /\ UNCHANGED <<kids, pipe, inStep, mismatched>>
    BY DEF WriteInterrupted
  <1>2. call \in Talking /\ Talks(call) /\ call.kid \in Kid /\ call.sent \in Nat
    BY <1>1, TalkingChild, TalkingFields
  <1>3. CASE call' \notin Talking
    BY <1>1, <1>3, RepliesSilent
  <1>4. CASE call' \in Talking
    <2>1. /\ call'.kid = call.kid /\ call'.trusted = call.trusted /\ call'.s = call.s
          /\ call'.op = call.op /\ call'.text = call.text /\ call'.sent = call.sent /\ call'.phase = "newline"
      BY <1>1, <1>2, <1>4, AfterValueThen
    <2>2. KidOnTheWay(call) => KidOnTheWay(call)'
      BY <1>1, <2>1 DEF KidOnTheWay, OnTheWay
    <2>3. QuietKids'
      BY <1>1 DEF RInv, QuietKids, QuietKid
    <2>4. (call'.phase # "read" => call'.s = "in") /\ (call'.s # "err" => call'.kid \notin inStep')
      BY <1>1, <1>2, <2>1 DEF Talks
    <2>5. call'.trusted => KidOnTheWay(call)'
      BY <1>2, <2>1, <2>2, Zenon DEF Talks
    <2>6. Talks(call)'
      BY <2>4, <2>5, Zenon DEF Talks
    <2> QED BY <1>1, <2>3, <2>6 DEF RInv, RepliesMatch
  <1> QED BY <1>3, <1>4

\* write of the newline.
LEMMA NewlineReplies ==
  ASSUME HInv, CInv, RInv, WriteNewline
  PROVE  RInv'
  <1> DEFINE k == call.kid
             in == pipe[<<k, "in">>]
             out == pipe[<<k, "out">>]
             more == Append(in, Nl)
             c == [call EXCEPT !.phase = "read"]
  <1>1. /\ call # Idle /\ call.phase = "newline"
        /\ pipe' = [pipe EXCEPT ![<<k, "in">>] = more]
        /\ UNCHANGED <<kids, inStep, mismatched>>
    BY DEF WriteNewline, PutItem
  <1>2. /\ call \in Talking /\ TalksWell(call) /\ Talks(call) /\ k \in Kid /\ kids[k].line \in Seq(Item)
        /\ in \in Seq(Item)
    BY <1>1, TalkingChild
  <1>3. call.s = "in" /\ call.got = <<>>
    BY <1>1, <1>2 DEF Talks, TalksWell
  <1>4. "in" \in Streams /\ "out" \in Streams /\ "in" # "out" /\ "in" # "err" /\ "out" # "err"
    BY DEF Streams
  <1>5. ASSUME call' \in Talking
        PROVE  /\ call'.kid = call.kid /\ call'.trusted = call.trusted /\ call'.s = "out"
               /\ call'.op = call.op /\ call'.text = call.text /\ call'.sent = call.sent /\ call'.phase = "read"
               /\ call'.got = call.got /\ call.sent = Len(call.text)
    <2>1. call' # Idle
      BY <1>5, IdleIsSilent
    <2>2. call' = [c EXCEPT !.s = "out"] /\ call.sent = Len(call.text)
      BY <2>1, Zenon DEF WriteNewline, Return, WholeLineSent
    <2>3. /\ c \in Talking /\ c.phase = "read" /\ c.op = call.op /\ c.kid = call.kid /\ c.text = call.text
          /\ c.got = call.got /\ c.sent = call.sent /\ c.trusted = call.trusted
      BY <1>2, PhaseChanged
    <2> HIDE DEF c
    <2> QED BY <1>4, <2>2, <2>3, StreamChanged
  <1> HIDE DEF k, in, out, more, c
  <1>6. pipe'[<<k, "in">>] = more /\ pipe'[<<k, "out">>] = out
    <2>1. CInv /\ k \in Kid /\ "in" \in Streams /\ "out" \in Streams \ {"in"}
          /\ pipe' = [pipe EXCEPT ![<<k, "in">>] = more]
      BY <1>1, <1>2, <1>4
    <2>2. pipe \in [Kid \X Streams -> Seq(Item)]
      BY <2>1 DEF CInv, PipeTypes
    <2> QED BY <2>1, <2>2 DEF out
  <1>7. ASSUME call' \in Talking, KidOnTheWay(call) PROVE KidOnTheWay(call)'
    <2>1. OnTheWay(call, kids[k], in, out)
      BY <1>7 DEF KidOnTheWay, k, in, out
    <2>2. OnTheWay(call', kids[k], more, out)
      BY <1>1, <1>2, <1>3, <1>5, <1>7, <2>1, WayEndsLine DEF more
    <2> QED BY <1>1, <1>5, <1>6, <1>7, <2>2 DEF KidOnTheWay, k
  <1>8. call.phase # "exit" /\ call.s # "err"
    BY <1>1, <1>3
  <1>9. call' \in Talking =>
           /\ call'.kid = call.kid /\ call'.trusted = call.trusted
           /\ call'.phase # "read" => call'.s = "in"
           /\ call'.s # "err" => call.s # "err"
           /\ KidOnTheWay(call) => KidOnTheWay(call)'
    BY <1>5, <1>7, <1>8, Zenon
  <1> QED BY <1>1, <1>4, <1>8, <1>9, RepliesCall DEF k

\* read of a chunk.
LEMMA ReadChunkReplies ==
  ASSUME HInv, CInv, RInv, NEW a, ReadChunk(a)
  PROVE  RInv'
  <1>1. /\ call # Idle /\ call.phase = "read" /\ call' = Idle
        /\ UNCHANGED <<kids, inStep, mismatched>>
        /\ \/ UNCHANGED pipe
           \/ \E items : pipe' = [pipe EXCEPT ![Source] = items]
    BY DEF ReadChunk, Return
  <1>2. call' \notin Talking
    BY <1>1, IdleIsSilent
  <1>3. ASSUME NEW items, pipe' = [pipe EXCEPT ![Source] = items] PROVE RInv'
    <2>1. call.s \in Streams /\ call.phase # "exit" /\ (call.s # "err" \/ call.s = "err")
      BY <1>1, TalkingChild
    <2>2. pipe' = [pipe EXCEPT ![<<call.kid, call.s>>] = items]
      BY <1>3 DEF Source
    <2> QED BY <1>1, <1>2, <2>1, <2>2, RepliesCall
  <1> QED BY <1>1, <1>2, <1>3, RepliesSilent

\* read of a byte of a line.
LEMMA TakeByteReplies ==
  ASSUME HInv, CInv, RInv, TakeByte
  PROVE  RInv'
  <1> DEFINE k == call.kid
             s == call.s
             in == pipe[<<k, "in">>]
             out == pipe[<<k, "out">>]
             from == pipe[<<k, s>>]
             got == Append(call.got, Head(from))
  <1>1. /\ call # Idle /\ call.phase = "read" /\ from # <<>>
        /\ call' = [call EXCEPT !.got = got]
        /\ pipe' = [pipe EXCEPT ![<<k, s>>] = Tail(from)]
        /\ UNCHANGED <<kids, inStep, mismatched>>
    BY DEF TakeByte, Source
  <1>2. call \in Talking /\ Talks(call) /\ k \in Kid /\ s \in Streams /\ out \in Seq(Item)
    BY <1>1, TalkingChild
  <1>3. got \in Seq(Item)
    <2>1. pipe \in [Kid \X Streams -> Seq(Item)] /\ <<k, s>> \in Kid \X Streams
      BY <1>2 DEF CInv, PipeTypes
    <2>2. from \in Seq(Item)
      BY <2>1
    <2>3. Head(from) \in Item /\ call.got \in Seq(Item)
      BY <1>1, <1>2, <2>2, TalkingFields, HeadTailProperties
    <2> QED BY <2>3, AppendProperties
  <1> HIDE DEF k, s, in, out, from, got
  <1>4. /\ call'.kid = call.kid /\ call'.trusted = call.trusted /\ call'.s = call.s /\ call'.op = call.op
        /\ call'.text = call.text /\ call'.sent = call.sent /\ call'.phase = "read" /\ call'.got = got
    BY <1>1, <1>2, <1>3, GotChanged
  <1>5. ASSUME KidOnTheWay(call) PROVE KidOnTheWay(call)'
    <2>1. OnTheWay(call, kids[k], in, out)
      BY <1>5 DEF KidOnTheWay, k, in, out
    <2>2. s = "out" /\ from = out
      BY <1>1, <2>1 DEF OnTheWay, s, from, out
    <2>3. pipe'[<<k, "in">>] = in /\ pipe'[<<k, "out">>] = Tail(out)
      <3>1. pipe \in [Kid \X Streams -> Seq(Item)] /\ "in" \in Streams /\ "out" \in Streams
        BY DEF CInv, PipeTypes, Streams
      <3> QED BY <1>1, <1>2, <2>2, <3>1 DEF in
    <2>4. got = Append(call.got, Head(out)) /\ out # <<>>
      BY <1>1, <2>2 DEF got
    <2>5. OnTheWay(call', kids[k], in, Tail(out))
      BY <1>1, <1>2, <1>4, <2>1, <2>4, WayTakes DEF s
    <2> QED BY <1>1, <1>4, <2>3, <2>5 DEF KidOnTheWay, k
  <1>6. /\ call.phase # "exit" /\ s \in Streams /\ (call.s # "err" \/ s = "err")
        /\ pipe' = [pipe EXCEPT ![<<call.kid, s>>] = Tail(from)]
    BY <1>1, <1>2 DEF k, s
  <1>7. call' \in Talking =>
           /\ call'.kid = call.kid /\ call'.trusted = call.trusted
           /\ call'.phase # "read" => call'.s = "in"
           /\ call'.s # "err" => call.s # "err"
           /\ KidOnTheWay(call) => KidOnTheWay(call)'
    BY <1>4, <1>5, Zenon
  <1> QED BY <1>1, <1>6, <1>7, RepliesCall

\* The end of a line: a trusted request has its own answer, and the child is
\* in step again.
LEMMA LineDoneReplies ==
  ASSUME HInv, CInv, RInv, NEW a, LineDone(a)
  PROVE  RInv'
  <1> DEFINE k == call.kid
             s == call.s
             from == pipe[<<k, s>>]
             newline == LineGoesOn /\ from # <<>> /\ Head(from) = Nl
  <1>1. /\ call # Idle /\ call.phase = "read" /\ call' = Idle
        /\ pipe' = IF newline THEN [pipe EXCEPT ![<<k, s>>] = Tail(from)] ELSE pipe
        /\ Answered(newline)
        /\ UNCHANGED kids
    BY DEF LineDone, Return, Source
  <1>2. /\ call \in Talking /\ Talks(call) /\ k \in Kid /\ s \in Streams /\ pipe[<<k, "out">>] \in Seq(Item)
        /\ kids[k].todo \in Seq({"out", "err"} \X Item) /\ kids[k].st # "none"
    BY <1>1, TalkingChild
  <1>3. call' \notin Talking
    BY <1>1, IdleIsSilent
  <1>4. CASE ~(call.trusted /\ newline)
    <2>1. UNCHANGED <<inStep, mismatched>>
      <3>1. mismatched = FALSE
        BY DEF RInv, RepliesMatch, CInv, CallTypes
      <3>2. inStep' = inStep
        BY <1>1, <1>4, Zenon DEF Answered
      <3>3. mismatched' = FALSE
        BY <1>1, <1>4, <3>1, Zenon DEF Answered
      <3> QED BY <3>1, <3>2, <3>3
    <2>2. CASE newline
      <3>1. pipe' = [pipe EXCEPT ![<<call.kid, s>>] = Tail(from)] /\ call.phase # "exit" /\ (call.s # "err" \/ s = "err")
        BY <1>1, <2>2
      <3> HIDE DEF k, s, from, newline
      <3> QED BY <1>1, <1>2, <1>3, <2>1, <3>1, RepliesCall
    <2>3. CASE ~newline
      <3>1. UNCHANGED pipe
        BY <1>1, <2>3
      <3> QED BY <1>1, <1>3, <2>1, <3>1, RepliesSilent
    <2> QED BY <2>2, <2>3
  <1>5. CASE call.trusted /\ newline
    <2> DEFINE in == pipe[<<k, "in">>]
               out == pipe[<<k, "out">>]
    <2>1. OnTheWay(call, kids[k], in, out)
      BY <1>2, <1>5 DEF Talks, KidOnTheWay
    <2>2. s = "out" /\ out # <<>> /\ Head(out) = Nl
      BY <1>1, <1>5, <2>1 DEF OnTheWay
    <2>3. pipe' = [pipe EXCEPT ![<<k, "out">>] = Tail(out)]
      BY <1>1, <1>5, <2>2
    <2>4. newline \in BOOLEAN /\ newline = TRUE
      BY <1>5
    <2>5. inStep' = inStep \cup {k} /\ mismatched' = (mismatched \/ StripCr(call.got) # call.text)
      BY <1>1, <1>5, <2>4, Zenon DEF Answered
    <2> HIDE DEF k, s, from, newline, in, out
    <2>6. StripCr(call.got) = call.text /\ Quiet(kids[k], in, Tail(out))
      <3>1. out \in Seq(Item) /\ kids[k].todo \in Seq({"out", "err"} \X Item)
        BY <1>2 DEF out
      <3> QED BY <1>1, <1>2, <2>1, <2>2, <3>1, WayEnds
    <2>7. ~mismatched'
      BY <2>5, <2>6, Zenon DEF RInv, RepliesMatch
    <2>8. pipe \in [Kid \X Streams -> Seq(Item)] /\ "in" \in Streams /\ "out" \in Streams
      BY DEF CInv, PipeTypes, Streams
    <2>9. pipe'[<<k, "in">>] = in /\ pipe'[<<k, "out">>] = Tail(out)
      BY <1>2, <2>3, <2>8 DEF in
    <2>10. \A j \in Kid \ {k} : pipe'[<<j, "in">>] = pipe[<<j, "in">>] /\ pipe'[<<j, "out">>] = pipe[<<j, "out">>]
      BY <2>3, <2>8
    <2>11. QuietKids'
      <3>1. ASSUME NEW j \in Kid, j = k PROVE QuietKid(j)'
        BY <1>1, <2>6, <2>9, <3>1 DEF QuietKid
      <3>2. ASSUME NEW j \in Kid \ {k}, kids[j].st = "none" \/ j \in inStep PROVE QuietKid(j)'
        BY <1>1, <2>10, <3>2 DEF RInv, QuietKids, QuietKid
      <3>3. ASSUME NEW j \in Kid, kids'[j].st = "none" \/ j \in inStep' PROVE QuietKid(j)'
        BY <1>1, <2>5, <3>1, <3>2, <3>3
      <3> QED BY <3>3 DEF QuietKids
    <2>12. inStep' \subseteq Kid
      BY <1>2, <2>5 DEF RInv
    <2> QED BY <1>3, <2>7, <2>11, <2>12 DEF RInv, RepliesMatch
  <1> QED BY <1>4, <1>5

\* A child that exits sends nothing more.
LEMMA ExitReplies ==
  ASSUME HInv, CInv, RInv, NEW k \in Kid, kids' = [kids EXCEPT ![k] = Exited(@)],
         UNCHANGED <<pipe, call, inStep, mismatched>>
  PROVE  RInv'
  <1> DEFINE new == Exited(kids[k])
  <1>1. DOMAIN kids[k] = {"st", "pid", "holds", "line", "todo"}
    BY DEF HInv, TableTypes
  <1>2. new.st = "zombie" /\ new.line = <<>> /\ new.todo = <<>>
    BY <1>1 DEF Exited
  <1>3. kids' = [kids EXCEPT ![k] = new]
    OBVIOUS
  <1> HIDE DEF new
  <1>4. Ended(new) /\ new.st # "none"
    BY <1>2 DEF Ended
  <1>5. k \in inStep => Quiet(new, pipe'[<<k, "in">>], pipe'[<<k, "out">>])
    BY <1>2, <1>4 DEF RInv, QuietKids, QuietKid, Quiet
  <1>6. ASSUME call \in Talking, call.kid = k, KidOnTheWay(call)
        PROVE  OnTheWay(call, new, pipe'[<<k, "in">>], pipe'[<<k, "out">>])
    <2>1. OnTheWay(call, kids[k], pipe[<<k, "in">>], pipe[<<k, "out">>])
      BY <1>6 DEF KidOnTheWay
    <2>2. call.phase # "read" => call.got = <<>>
      BY <1>6 DEF CInv, CallTypes
    <2>3. OnTheWay(call, new, pipe[<<k, "in">>], pipe[<<k, "out">>])
      BY <1>4, <1>6, <2>1, <2>2, WayCutShort
    <2> QED BY <2>3
  <1> QED BY <1>3, <1>4, <1>5, <1>6, RepliesKid

\* The child reads.
LEMMA KidReadReplies ==
  ASSUME HInv, CInv, RInv, NEW k \in Kid, KidRead(k)
  PROVE  RInv'
  <1> DEFINE in == pipe[<<k, "in">>]
             out == pipe[<<k, "out">>]
             new == kids'[k]
  <1>1. /\ kids[k].st = "run" /\ in # <<>> /\ pipe' = [pipe EXCEPT ![<<k, "in">>] = Tail(in)]
        /\ UNCHANGED <<call, inStep, mismatched>>
    BY DEF KidRead, Runs, theirs, ours
  <1>2. /\ \A j \in Kid : DOMAIN kids[j] = {"st", "pid", "holds", "line", "todo"}
        /\ kids = [j \in Kid |-> kids[j]]
    BY DEF HInv, TableTypes
  <1>3. pipe \in [Kid \X Streams -> Seq(Item)] /\ "in" \in Streams /\ "out" \in Streams
    BY DEF CInv, PipeTypes, Streams
  <1>4. /\ new.st = kids[k].st
        /\ IF Head(in) # Nl
           THEN new.line = Append(kids[k].line, Head(in)) /\ new.todo = kids[k].todo
           ELSE /\ new.line = <<>>
                /\ \E complaint \in {<<>>, << <<"err", Nl>> >>}, cr \in {<<>>, <<Cr>>} :
                     new.todo = AnswerTo(kids[k].line, complaint, cr)
    <2>1. CASE Head(in) # Nl
      <3>1. kids' = [kids EXCEPT ![k].line = Append(kids[k].line, Head(in))]
        BY <2>1 DEF KidRead
      <3> QED BY <1>2, <2>1, <3>1
    <2>2. CASE Head(in) = Nl
      <3>1. PICK complaint \in {<<>>, << <<"err", Nl>> >>}, cr \in {<<>>, <<Cr>>} :
              kids' = [kids EXCEPT ![k].line = <<>>, ![k].todo = AnswerTo(kids[k].line, complaint, cr)]
        BY <2>2, Zenon DEF KidRead, AnswerTo
      <3>2. new.st = kids[k].st /\ new.line = <<>> /\ new.todo = AnswerTo(kids[k].line, complaint, cr)
        BY <1>2, <3>1
      <3> HIDE DEF new
      <3> QED BY <2>2, <3>2
    <2> QED BY <2>1, <2>2
  <1>5. kids' = [kids EXCEPT ![k] = new]
    <2>1. CASE Head(in) # Nl
      <3>1. kids' = [kids EXCEPT ![k].line = Append(kids[k].line, Head(in))]
        BY <2>1 DEF KidRead
      <3> QED BY <1>2, <3>1
    <2>2. CASE Head(in) = Nl
      <3>1. PICK complaint \in {<<>>, << <<"err", Nl>> >>}, cr \in {<<>>, <<Cr>>} :
              kids' = [kids EXCEPT ![k].line = <<>>, ![k].todo = AnswerTo(kids[k].line, complaint, cr)]
        BY <2>2, Zenon DEF KidRead, AnswerTo
      <3> QED BY <1>2, <3>1
    <2> QED BY <2>1, <2>2
  <1>6. kids[k].line \in Seq(Item) /\ in \in Seq(Item)
    BY <1>3 DEF CInv, KidTypes
  <1>7. /\ pipe'[<<k, "in">>] = Tail(in) /\ pipe'[<<k, "out">>] = out
        /\ \A j \in Kid \ {k} : pipe'[<<j, "in">>] = pipe[<<j, "in">>] /\ pipe'[<<j, "out">>] = pipe[<<j, "out">>]
    BY <1>1, <1>3
  <1> HIDE DEF in, out, new
  <1>8. new.st # "none" /\ k \notin inStep
    BY <1>1, <1>4 DEF RInv, QuietKids, QuietKid, Quiet, Ended, in
  <1>9. ASSUME call \in Talking, call.kid = k, KidOnTheWay(call)
        PROVE  OnTheWay(call, new, pipe'[<<k, "in">>], pipe'[<<k, "out">>])
    <2>1. OnTheWay(call, kids[k], in, out)
      BY <1>9 DEF KidOnTheWay, in, out
    <2>2. OnTheWay(call, new, Tail(in), out)
      BY <1>1, <1>4, <1>6, <1>9, <2>1, WayKidReads
    <2> QED BY <1>7, <2>2
  <1> QED BY <1>1, <1>5, <1>7, <1>8, <1>9, RepliesKid

\* The child writes.
LEMMA KidWriteReplies ==
  ASSUME HInv, CInv, RInv, NEW k \in Kid, KidWrite(k)
  PROVE  RInv'
  <1> DEFINE todo == kids[k].todo
             s == Head(todo)[1]
             x == Head(todo)[2]
             in == pipe[<<k, "in">>]
             out == pipe[<<k, "out">>]
             new == kids'[k]
             more == IF s = "out" THEN Append(out, x) ELSE out
  <1>1. kids[k].st = "run" /\ todo # <<>> /\ UNCHANGED <<call, inStep, mismatched>>
    BY DEF KidWrite, Runs, theirs, ours
  <1>2. CASE ~Held(OurEnd(k, s))
    <2>1. kids' = [kids EXCEPT ![k] = Exited(@)] /\ UNCHANGED pipe
      BY <1>2 DEF KidWrite
    <2> QED BY <1>1, <2>1, ExitReplies
  <1>3. CASE Held(OurEnd(k, s))
    <2>1. pipe' = [pipe EXCEPT ![<<k, s>>] = Append(@, x)] /\ kids' = [kids EXCEPT ![k].todo = Tail(todo)]
      BY <1>3 DEF KidWrite
    <2>2. /\ \A j \in Kid : DOMAIN kids[j] = {"st", "pid", "holds", "line", "todo"}
          /\ kids = [j \in Kid |-> kids[j]]
      BY DEF HInv, TableTypes
    <2>3. pipe \in [Kid \X Streams -> Seq(Item)] /\ "in" \in Streams /\ "out" \in Streams /\ "err" \in Streams
      BY DEF CInv, PipeTypes, Streams
    <2>4. todo \in Seq({"out", "err"} \X Item) /\ out \in Seq(Item)
      BY <2>3 DEF CInv, KidTypes
    <2>5. s \in {"out", "err"}
      <3>1. Head(todo) \in {"out", "err"} \X Item
        BY <1>1, <2>4, HeadTailProperties
      <3> QED BY <3>1
    <2>6. new.st = kids[k].st /\ new.line = kids[k].line /\ new.todo = Tail(todo)
      BY <2>1, <2>2
    <2>7. kids' = [kids EXCEPT ![k] = new]
      BY <2>1, <2>2
    <2> HIDE DEF s, x
    <2>8. /\ pipe'[<<k, "in">>] = in /\ pipe'[<<k, "out">>] = more
          /\ \A j \in Kid \ {k} : pipe'[<<j, "in">>] = pipe[<<j, "in">>] /\ pipe'[<<j, "out">>] = pipe[<<j, "out">>]
      BY <2>1, <2>3, <2>5
    <2>9. more = IF Head(todo)[1] = "out" THEN Append(out, Head(todo)[2]) ELSE out
      BY DEF s, x
    <2> HIDE DEF in, out, new, more
    <2>10. new.st # "none" /\ k \notin inStep
      BY <1>1, <2>6 DEF RInv, QuietKids, QuietKid, Quiet
    <2>11. ASSUME call \in Talking, call.kid = k, KidOnTheWay(call)
          PROVE  OnTheWay(call, new, pipe'[<<k, "in">>], pipe'[<<k, "out">>])
      <3>1. OnTheWay(call, kids[k], in, out)
        BY <2>11 DEF KidOnTheWay, in, out
      <3>2. OnTheWay(call, new, in, more)
        BY <1>1, <2>4, <2>6, <2>9, <2>11, <3>1, WayKidWrites
      <3> QED BY <2>8, <3>2
    <2> QED BY <1>1, <2>7, <2>8, <2>10, <2>11, RepliesKid
  <1> QED BY <1>2, <1>3

\* Whatever a child does.
LEMMA KidReplies ==
  ASSUME HInv, CInv, RInv, NEW k \in Kid, KidNext(k) \/ KidStops(k)
  PROVE  RInv'
  <1>1. CASE KidEnds(k) \/ KidStops(k)
    <2>1. kids' = [kids EXCEPT ![k] = Exited(@)] /\ UNCHANGED <<pipe, call, inStep, mismatched>>
      BY <1>1 DEF KidEnds, KidStops, theirs, ours
    <2> QED BY <2>1, ExitReplies
  <1> QED BY <1>1, KidReadReplies, KidWriteReplies DEF KidNext

\* spawn starts a child to and from which nothing is on the way.
LEMMA SpawnReplies ==
  ASSUME HInv, CInv, RInv, NEW k \in Kid, NEW pid \in Pid, NEW outcome, cn_ipc_native_spawn(k, pid, outcome)
  PROVE  RInv'
  <1>1. /\ kids[k].st = "none" /\ call = Idle /\ UNCHANGED <<pipe, call, inStep, mismatched>>
    BY DEF cn_ipc_native_spawn
  <1>2. PICK holds : \/ UNCHANGED kids
                     \/ kids' = [kids EXCEPT ![k] = [@ EXCEPT !.st = "run", !.pid = pid, !.holds = holds]]
    BY Zenon DEF cn_ipc_native_spawn
  <1>3. CASE UNCHANGED kids
    BY <1>1, <1>3, RepliesUntouched
  <1>4. CASE kids' = [kids EXCEPT ![k] = [@ EXCEPT !.st = "run", !.pid = pid, !.holds = holds]]
    <2> DEFINE new == [kids[k] EXCEPT !.st = "run", !.pid = pid, !.holds = holds]
    <2>1. DOMAIN kids[k] = {"st", "pid", "holds", "line", "todo"}
      BY DEF HInv, TableTypes
    <2>2. new.st = "run" /\ new.line = kids[k].line /\ new.todo = kids[k].todo
      BY <2>1
    <2>3. kids' = [kids EXCEPT ![k] = new]
      BY <1>4
    <2> HIDE DEF new
    <2>4. QuietKid(k)
      BY <1>1 DEF RInv, QuietKids
    <2>5. Quiet(new, pipe'[<<k, "in">>], pipe'[<<k, "out">>])
      BY <1>1, <2>2, <2>4 DEF QuietKid, Quiet, Ended
    <2>6. call \notin Talking
      BY <1>1, IdleIsSilent
    <2> QED BY <1>1, <2>3, <2>5, <2>6, RepliesKid
  <1> QED BY <1>2, <1>3, <1>4

\* A child that is waited for had ended.
LEMMA ReapedReplies ==
  ASSUME HInv, CInv, RInv, NEW k \in Kid, kids[k].st = "zombie", kids' = [kids EXCEPT ![k].st = "reaped"],
         call' = Idle, UNCHANGED <<pipe, inStep, mismatched>>
  PROVE  RInv'
  <1>1. /\ \A j \in Kid : DOMAIN kids[j] = {"st", "pid", "holds", "line", "todo"}
        /\ kids = [j \in Kid |-> kids[j]]
    BY DEF HInv, TableTypes
  <1>2. /\ kids'[k].st = "reaped" /\ kids'[k].line = kids[k].line /\ kids'[k].todo = kids[k].todo
        /\ \A j \in Kid \ {k} : kids'[j] = kids[j]
    BY <1>1
  <1>3. ASSUME NEW j \in Kid, kids'[j].st = "none" \/ j \in inStep PROVE QuietKid(j)'
    <2>1. CASE j = k
      BY <1>2, <1>3, <2>1 DEF RInv, QuietKids, QuietKid, Quiet, Ended
    <2>2. CASE j # k
      BY <1>2, <1>3, <2>2 DEF RInv, QuietKids, QuietKid
    <2> QED BY <2>1, <2>2
  <1> QED BY <1>3, IdleIsSilent DEF RInv, RepliesMatch, QuietKids

\* waitpid returns.
LEMMA WaitDoneReplies ==
  ASSUME HInv, CInv, RInv, WaitDone
  PROVE  RInv'
  <1>1. /\ call # Idle /\ call.phase = "exit" /\ call' = Idle /\ kids[call.kid].st = "zombie"
        /\ kids' = [kids EXCEPT ![call.kid].st = "reaped"] /\ UNCHANGED <<pipe, inStep, mismatched>>
    BY DEF WaitDone, Return
  <1>2. call.kid \in Kid
    <2>1. call \in Waiting \cup Talking
      BY <1>1 DEF CInv, CallTypes
    <2> QED BY <2>1 DEF Waiting, Talking
  <1> QED BY <1>1, <1>2, ReapedReplies

\* release.
LEMMA ReleaseReplies ==
  ASSUME HInv, CInv, RInv, NEW k \in Kid, cn_ipc_native_release(k)
  PROVE  RInv'
  <1>1. /\ call = Idle /\ call' = Idle /\ UNCHANGED <<pipe, inStep, mismatched>>
        /\ \/ UNCHANGED kids
           \/ kids[k].st = "zombie" /\ kids' = [kids EXCEPT ![k].st = "reaped"]
    BY DEF cn_ipc_native_release
  <1> QED BY <1>1, ReapedReplies, RepliesUntouched

\* spawn, wait, stdin_close, kill and release.
LEMMA LifeReplies ==
  ASSUME HInv, CInv, RInv, LifeNext(Kid)
  PROVE  RInv'
  <1>1. ASSUME NEW k \in Kid, cn_ipc_native_wait(k) PROVE RInv'
    <2>1. call'.op = "wait" /\ UNCHANGED <<kids, pipe, inStep, mismatched>>
      BY <1>1 DEF cn_ipc_native_wait
    <2>2. "wait" \notin Writes \cup {"chunk", "line"}
      BY DEF Writes
    <2>3. call' \notin Talking
      BY <2>1, <2>2 DEF Talking
    <2> QED BY <2>1, <2>3, RepliesSilent
  <1>2. ASSUME NEW k \in Kid, cn_ipc_native_stdin_close(k) PROVE RInv'
    BY <1>2, RepliesUntouched DEF cn_ipc_native_stdin_close
  <1>3. ASSUME NEW k \in Kid, cn_ipc_native_kill(k) PROVE RInv'
    BY <1>3, ExitReplies DEF cn_ipc_native_kill, ours
  <1> QED BY <1>1, <1>2, <1>3, SpawnReplies, ReleaseReplies, Zenon DEF LifeNext

\* The operations that start talking to a child.
LEMMA TalkReplies ==
  ASSUME HInv, CInv, RInv, TalkNext(Kid, Var)
  PROVE  RInv'
  <1> DEFINE any == CHOOSE v \in Var : TRUE
  <1> HIDE DEF any
  <1>1. ASSUME NEW k \in Kid, NEW n \in Lengths,
               \/ cn_ipc_native_stdin_write(k, n)
               \/ cn_ipc_native_stdin_write_line(k, n)
               \/ \E max \in Limits, v \in Var : cn_ipc_request_line(k, n, max, v)
        PROVE  RInv'
    <2>1. n \in Nat /\ "in" \in Streams /\ "write" \in Writes /\ "write_line" \in Writes /\ "request" \in Writes
      BY IpcAssumption DEF Streams, Writes
    <2>2. CASE cn_ipc_native_stdin_write(k, n)
      BY <2>1, <2>2, BeginReplies DEF cn_ipc_native_stdin_write, any
    <2>3. CASE cn_ipc_native_stdin_write_line(k, n)
      BY <2>1, <2>3, BeginReplies DEF cn_ipc_native_stdin_write_line, any
    <2>4. ASSUME NEW max \in Limits, NEW v \in Var, cn_ipc_request_line(k, n, max, v)
          PROVE  RInv'
      BY <2>1, <2>4, BeginReplies DEF cn_ipc_request_line
    <2> QED BY <1>1, <2>2, <2>3, <2>4
  <1>2. ASSUME NEW k \in Kid, NEW s \in {"out", "err"}, NEW max \in Limits, NEW v \in Var,
               cn_ipc_read(k, s, max, v) \/ cn_ipc_read_line(k, s, max, v)
        PROVE  RInv'
    <2>1. s \in Streams /\ 0 \in Nat /\ "chunk" \notin Writes /\ "line" \notin Writes
      BY DEF Streams, Writes
    <2> QED BY <1>2, <2>1, BeginReplies DEF cn_ipc_read, cn_ipc_read_line
  <1>3. CASE ReadNoMemory
    BY <1>3, RepliesSilent, IdleIsSilent DEF ReadNoMemory, Return
  <1> QED BY <1>1, <1>2, <1>3, InterruptedReplies, Zenon DEF TalkNext

\* Every system call of a call in progress.
LEMMA StepReplies ==
  ASSUME HInv, CInv, RInv, CallStep
  PROVE  RInv'
  <1>1. CASE BrokenPipe
    BY <1>1, RepliesSilent, IdleIsSilent DEF BrokenPipe, Return
  <1> QED BY <1>1, WriteValueReplies, NewlineReplies, ReadChunkReplies, LineDoneReplies, TakeByteReplies,
             WaitDoneReplies, Zenon DEF CallStep

\* The network leaves the children alone.
LEMMA NetReplies ==
  ASSUME RInv, NetNext(Var)
  PROVE  RInv'
  BY NetKeepsToSockets, RepliesUntouched

\* Nothing is on the way when the program starts.
LEMMA InitReplies == Init => RInv
  <1> SUFFICES ASSUME Init PROVE RInv
    OBVIOUS
  <1>1. /\ kids = [k \in Kid |-> [st |-> "none", pid |-> 0, holds |-> {}, line |-> <<>>, todo |-> <<>>]]
        /\ pipe = [p \in Kid \X Streams |-> <<>>]
        /\ call = Idle /\ mismatched = FALSE /\ inStep = Kid
    BY DEF Init, IpcInit
  <1>2. \A k \in Kid : QuietKid(k)
    <2>1. "in" \in Streams /\ "out" \in Streams
      BY DEF Streams
    <2> QED BY <1>1, <2>1 DEF QuietKid, Quiet
  <1> QED BY <1>1, <1>2, IdleIsSilent DEF RInv, RepliesMatch, QuietKids

\* Every step keeps requests and answers together.
LEMMA NextReplies == ASSUME HInv, CInv, RInv, [WholeNext]_vars PROVE RInv'
  <1>1. CASE UNCHANGED vars \/ ((StringNext(Var) \/ ZoneNext) /\ Between)
             \/ ((BytesNext(Var) \/ LinesNext(Var)) /\ UNCHANGED notBuffers)
    BY <1>1, RepliesUntouched DEF vars, Between, notHeap, notBuffers, ipcVars
  <1>2. CASE TalkNext(Kid, Var) \/ LifeNext(Kid) \/ CallStep
    BY <1>2, TalkReplies, LifeReplies, StepReplies
  <1>3. CASE \E k \in Kid : KidNext(k) \/ KidStops(k)
    BY <1>3, KidReplies
  <1>4. CASE NetNext(Var)
    BY <1>4, NetReplies
  <1> QED BY <1>1, <1>2, <1>3, <1>4, Zenon DEF WholeNext

\* Whatever the program and its children do, the request that is in progress with a
\* child in step, the pipes between them and what the child has read and has yet to
\* write are together one line and its answer, and nothing is on the way to or from a
\* child in step otherwise (ipc.c, cn_ipc_request_line; native_runtime.c,
\* cn_ipc_native_stdin_write_line, cn_ipc_read_line_fd).
THEOREM RepliesInvariance == WholeSpec => []RInv
  <1>1. HInv /\ CInv /\ RInv /\ [WholeNext]_vars => RInv'
    BY NextReplies
  <1> QED BY <1>1, InitReplies, TableInvariance, CallInvariance, PTL DEF WholeSpec

\* A request to a child in step that gets a line ended by a newline gets the answer to
\* its own text, for any number of children and calls, pipes of any size, and texts and
\* limits of any length (ipc.c, cn_ipc_request_line).
THEOREM RequestsGetTheirAnswers == Spec => []RepliesMatch
  <1>1. [Next]_vars => [WholeNext]_vars
    BY NextIsPartOfWhole
  <1>2. RInv => RepliesMatch
    BY DEF RInv
  <1> QED BY <1>1, <1>2, RepliesInvariance, PTL DEF Spec, WholeSpec
=============================================================================
