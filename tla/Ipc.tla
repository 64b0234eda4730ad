-------------------------------- MODULE Ipc --------------------------------
(***************************************************************************)
(* std.ipc on POSIX systems: a child process with a pipe to each of its    *)
(* three standard streams (backend/native_runtime.c, the part for systems  *)
(* other than Windows, and the wrappers of backend/stdlib/ipc.c).          *)
(*                                                                         *)
(* The program runs one call at a time; a call that reads, writes or waits *)
(* is a sequence of system calls, between which the children run.  A child *)
(* here is a line server: it answers each line with a line, may write to   *)
(* stderr first, leaves at the end of its input, and may stop at any time. *)
(* Descriptors 0 to 2 are open from the start, and a new descriptor is     *)
(* always the lowest one that is free.                                     *)
(***************************************************************************)
EXTENDS RuntimeHeap, Integers

CONSTANTS
  Kid,        \* children, each spawned at most once
  Pid,        \* process ids, which the system uses again
  Fd,         \* the descriptors from 3 up to the limit of the process
  Started,    \* how many of them the program may be started with
  PipeCap,    \* items a pipe holds
  Lengths,    \* lengths of the texts written
  Limits,     \* values of max_bytes
  MaxCalls    \* bound: calls that write, read or wait

ASSUME IpcAssumption ==
  /\ Fd \subseteq Nat /\ IsFiniteSet(Fd)
  /\ Started \subseteq 0..Cardinality(Fd)
  /\ PipeCap \in Nat \ {0}
  /\ Lengths \subseteq Nat /\ Limits \subseteq Nat \ {0} /\ MaxCalls \in Nat

VARIABLES
  fds,        \* the descriptor table of the program
  kids,       \* the children: state, process id, descriptors, program
  pipe,       \* the contents of the three pipes of each child
  handle,     \* the cn_ipc_state of each child, NoHandle when there is none
  call,       \* the call in progress, or Idle
  calls,      \* calls begun
  killed,     \* the program died of SIGPIPE
  inStep,     \* children whose answers are in step with the requests
  mismatched  \* a request got an answer that is not its own

ipcVars == <<fds, kids, pipe, handle, call, calls, killed, inStep, mismatched>>

Streams == {"in", "out", "err"}
Closed == <<>>
Inherited == <<"inherited">>
NoHandle == [pid |-> 0, in |-> -1, out |-> -1, err |-> -1, waited |-> FALSE]
Idle == [op |-> "none"]
HasHandle(k) == handle[k] # NoHandle

\* Pipe ends: "r" and "w".  The program keeps the writing end of stdin and
\* the reading ends of the others.
End(k, s, e) == <<k, s, e>>
OurEnd(k, s) == End(k, s, IF s = "in" THEN "w" ELSE "r")
KidEnd(k, s) == End(k, s, IF s = "in" THEN "r" ELSE "w")

IpcInit ==
  /\ \E n \in Started : fds = [f \in Fd |-> IF f < Min(Fd) + n THEN Inherited ELSE Closed]
  /\ kids = [k \in Kid |-> [st |-> "none", pid |-> 0, holds |-> {}, line |-> <<>>, todo |-> <<>>]]
  /\ pipe = [p \in Kid \X Streams |-> <<>>]
  /\ handle = [k \in Kid |-> NoHandle]
  /\ call = Idle /\ calls = 0 /\ killed = FALSE
  /\ inStep = Kid /\ mismatched = FALSE

ours == <<handle, call, calls, killed, inStep, mismatched>>

-----------------------------------------------------------------------------
(* The descriptor table *)

FreeFds(t) == {f \in Fd : t[f] = Closed}

Open(t, what) ==
  IF FreeFds(t) = {} THEN [t |-> t, fd |-> -1]
  ELSE [t |-> [t EXCEPT ![Min(FreeFds(t))] = what], fd |-> Min(FreeFds(t))]

\* pipe() takes two descriptors or none; without one both ends stay -1.
Pipe(t, k, s) ==
  IF Cardinality(FreeFds(t)) < 2 THEN [ok |-> FALSE, t |-> t, r |-> -1, w |-> -1]
  ELSE LET r == Open(t, End(k, s, "r"))
           w == Open(r.t, End(k, s, "w"))
       IN  [ok |-> TRUE, t |-> w.t, r |-> r.fd, w |-> w.fd]

close_fd(t, f) == IF f >= 0 THEN [t EXCEPT ![f] = Closed] ELSE t
CloseAll(t, fs) == [f \in Fd |-> IF f \in fs THEN Closed ELSE t[f]]

HeldByUs(end) == \E f \in Fd : fds[f] = end
HeldByKid(end) == \E j \in Kid : kids[j].st = "run" /\ end \in kids[j].holds
Held(end) == HeldByUs(end) \/ HeldByKid(end)

-----------------------------------------------------------------------------
(* spawn *)

Alive(k) == kids[k].st \in {"run", "zombie"}

\* Mutant: the child does not close the program's end of its own stdin.
ChildHolds_own_stdin(t, k) ==
  {KidEnd(k, s) : s \in Streams} \cup {OurEnd(k, "in")}
    \cup {t[f] : f \in {g \in Fd : t[g] # Closed /\ \A s \in Streams : t[g] \notin {OurEnd(k, s), KidEnd(k, s)}}}

\* What a child has open once it runs its program: its ends of its own pipes
\* as streams 0 to 2, and every other descriptor the program had open when
\* it forked; only the six of this spawn are closed.
ChildHolds(t, k) ==
  {KidEnd(k, s) : s \in Streams}
    \cup {t[f] : f \in {g \in Fd : t[g] # Closed /\ \A s \in Streams : t[g] \notin {OurEnd(k, s), KidEnd(k, s)}}}

\* The three pipes, or the table as it was.
Pipes(k) ==
  LET i == Pipe(fds, k, "in")
      o == Pipe(i.t, k, "out")
      e == Pipe(o.t, k, "err")
  IN  IF ~i.ok THEN [ok |-> FALSE, t |-> i.t]
      ELSE IF ~o.ok THEN [ok |-> FALSE, t |-> CloseAll(o.t, {i.r, i.w})]
      ELSE IF ~e.ok THEN [ok |-> FALSE, t |-> CloseAll(e.t, {i.r, i.w, o.r, o.w})]
      ELSE [ok |-> TRUE, t |-> e.t, in |-> i, out |-> o, err |-> e]

\* outcome: what becomes of fork and of the two records of the handle.
\* Without the records the descriptors are closed and the child is left to
\* itself.
cn_ipc_native_spawn(k, pid, outcome) ==
  /\ call = Idle /\ kids[k].st = "none"
  /\ \A j \in Kid : Alive(j) => kids[j].pid # pid
  /\ LET p == Pipes(k)
         t == CloseAll(p.t, {p.in.r, p.out.w, p.err.w})
     IN  IF ~p.ok \/ outcome = "no process"
         THEN /\ fds' = IF p.ok THEN CloseAll(t, {p.in.w, p.out.r, p.err.r}) ELSE p.t
              /\ UNCHANGED <<heap, kids, handle>>
         ELSE /\ kids' = [kids EXCEPT ![k] = [@ EXCEPT !.st = "run", !.pid = pid, !.holds = ChildHolds(p.t, k)]]
              /\ IF outcome = "no memory"
                 THEN /\ fds' = CloseAll(t, {p.in.w, p.out.r, p.err.r})
                      /\ UNCHANGED <<heap, handle>>
                 ELSE /\ fds' = t
                      /\ heap' = AddNodes(heap, 2)
                      /\ handle' = [handle EXCEPT ![k] = [pid |-> pid, in |-> p.in.w, out |-> p.out.r,
                                                         err |-> p.err.r, waited |-> FALSE]]
  /\ UNCHANGED <<zones, var, mine, told, untracked, handed, misfreed>>
  /\ UNCHANGED <<pipe, call, calls, killed, inStep, mismatched>>

-----------------------------------------------------------------------------
(* Calls that may block *)

Writes == {"write", "write_line", "request"}

\* Items in a pipe: a newline, a carriage return, or text, which is told
\* from the text of all other calls by the number of its call.
Nl == <<>>
Cr == <<0>>
Text(n) == [i \in 1..n |-> <<calls + 1>>]

Begin(k, op, s, n, max, v) ==
  /\ call = Idle /\ HasHandle(k) /\ handle[k][s] >= 0 /\ calls < MaxCalls
  /\ calls' = calls + 1
  /\ call' = [op |-> op, kid |-> k, s |-> s, max |-> max, v |-> v, text |-> Text(n), sent |-> 0, got |-> <<>>,
              phase |-> IF op \notin Writes THEN "read" ELSE IF n > 0 THEN "value" ELSE "newline",
              trusted |-> op = "request" /\ k \in inStep]
  /\ inStep' = IF s # "err" THEN inStep \ {k} ELSE inStep
  /\ UNCHANGED <<heapVars, fds, kids, pipe, handle, killed, mismatched>>

cn_ipc_native_stdin_write(k, n) == n > 0 /\ Begin(k, "write", "in", n, 0, CHOOSE v \in Var : TRUE)
cn_ipc_native_stdin_write_line(k, n) == Begin(k, "write_line", "in", n, 0, CHOOSE v \in Var : TRUE)
cn_ipc_request_line(k, n, max, v) == Spare(v) /\ Begin(k, "request", "in", n, max, v)
cn_ipc_read(k, s, max, v) == Spare(v) /\ Begin(k, "chunk", s, 0, max, v)
cn_ipc_read_line(k, s, max, v) == Spare(v) /\ Begin(k, "line", s, 0, max, v)

cn_ipc_native_wait(k) ==
  /\ call = Idle /\ HasHandle(k) /\ ~handle[k].waited /\ calls < MaxCalls
  /\ calls' = calls + 1
  /\ call' = [op |-> "wait", kid |-> k, s |-> "none", phase |-> "exit"]
  /\ UNCHANGED <<heapVars, fds, kids, pipe, handle, killed, inStep, mismatched>>

Return == call' = Idle

\* What follows the write of the text: the newline, in a write of its own,
\* whether or not all of the text was taken.
AfterValue(sent) ==
  IF call.op = "write" THEN Return
  ELSE call' = [call EXCEPT !.sent = sent, !.phase = "newline"]

\* One step of a write: the pipe takes an item.  A write to a pipe nobody
\* reads raises SIGPIPE, which nothing in the program handles.
PutItem(item) == pipe' = [pipe EXCEPT ![<<call.kid, "in">>] = Append(@, item)]
CanPut == Held(KidEnd(call.kid, "in")) /\ Len(pipe[<<call.kid, "in">>]) < PipeCap

WriteValue ==
  /\ call # Idle /\ call.phase = "value"
  /\ CanPut
  /\ PutItem(call.text[call.sent + 1])
  /\ IF call.sent + 1 = Len(call.text) THEN AfterValue(call.sent + 1)
     ELSE call' = [call EXCEPT !.sent = @ + 1]
  /\ UNCHANGED <<heapVars, fds, kids, handle, calls, killed, inStep, mismatched>>

\* A signal handled while the write waits for room: the write returns what
\* it has written so far.
WriteInterrupted ==
  /\ call # Idle /\ call.phase = "value" /\ call.sent > 0
  /\ AfterValue(call.sent)
  /\ UNCHANGED <<heapVars, fds, kids, pipe, handle, calls, killed, inStep, mismatched>>

\* Mutant: the result of the writes is not looked at.
WholeLineSent_unchecked == TRUE
\* request_line goes on to read only if text and newline were written whole.
WholeLineSent == call.sent = Len(call.text)

WriteNewline ==
  /\ call # Idle /\ call.phase = "newline"
  /\ CanPut
  /\ PutItem(Nl)
  /\ IF call.op = "request" /\ WholeLineSent
     THEN call' = [call EXCEPT !.phase = "read", !.s = "out"]
     ELSE Return
  /\ UNCHANGED <<heapVars, fds, kids, handle, calls, killed, inStep, mismatched>>

BrokenPipe ==
  /\ call # Idle /\ call.phase \in {"value", "newline"}
  /\ ~Held(KidEnd(call.kid, "in"))
  /\ killed' = TRUE /\ Return
  /\ UNCHANGED <<heapVars, fds, kids, pipe, handle, calls, inStep, mismatched>>

-----------------------------------------------------------------------------
(* Reading *)

Source == <<call.kid, call.s>>
AtEnd == pipe[Source] = <<>> /\ ~Held(KidEnd(call.kid, call.s))

\* The buffer becomes the program's string.  It is not put on the list of
\* owned strings.
GiveString(a, text) ==
  /\ a \in Malloc(heap) \ {Null}
  /\ heap' = Alloc(heap, a, "str", text)
  /\ var' = [var EXCEPT ![call.v] = a]
  /\ told' = [told EXCEPT ![call.v] = text]
  /\ mine' = mine \cup {call.v}
  /\ handed' = handed \cup {a}
  /\ UNCHANGED <<zones, untracked, misfreed>>

\* No memory for the buffer: nothing is read.
ReadNoMemory ==
  /\ call # Idle /\ call.phase = "read" /\ call.got = <<>>
  /\ Return
  /\ UNCHANGED <<heapVars, fds, kids, pipe, handle, calls, killed, inStep, mismatched>>

\* One read() of at most max items; the end of the stream is an error.
ReadChunk(a) ==
  /\ call # Idle /\ call.phase = "read" /\ call.op = "chunk"
  /\ IF AtEnd THEN a = Null /\ UNCHANGED <<heapVars, pipe>>
     ELSE LET n == Min({call.max, Len(pipe[Source])})
          IN  /\ n > 0
              /\ GiveString(a, SubSeq(pipe[Source], 1, n))
              /\ pipe' = [pipe EXCEPT ![Source] = SubSeq(@, n + 1, Len(@))]
  /\ Return
  /\ UNCHANGED <<fds, kids, handle, calls, killed, inStep, mismatched>>

\* Mutant: one byte more than the buffer was allocated for.
LineGoesOn_late == Len(call.got) <= call.max
\* A line is read byte by byte until a newline, max bytes or the end.
LineGoesOn == Len(call.got) < call.max

TakeByte ==
  /\ call # Idle /\ call.phase = "read" /\ call.op # "chunk"
  /\ LineGoesOn /\ pipe[Source] # <<>> /\ Head(pipe[Source]) # Nl
  /\ call' = [call EXCEPT !.got = Append(@, Head(pipe[Source]))]
  /\ pipe' = [pipe EXCEPT ![Source] = Tail(@)]
  /\ UNCHANGED <<heapVars, fds, kids, handle, calls, killed, inStep, mismatched>>

StripCr(line) == IF line # <<>> /\ Last(line) = Cr THEN Front(line) ELSE line

\* An answer is checked when its request found the child in step and a
\* newline ended it; the child is then in step again.
Answered(newline) ==
  /\ mismatched' = (mismatched \/ (call.trusted /\ newline /\ StripCr(call.got) # call.text))
  /\ inStep' = IF call.trusted /\ newline THEN inStep \cup {call.kid} ELSE inStep

LineDone(a) ==
  /\ call # Idle /\ call.phase = "read" /\ call.op # "chunk"
  /\ LET newline == LineGoesOn /\ pipe[Source] # <<>> /\ Head(pipe[Source]) = Nl
         end == LineGoesOn /\ AtEnd
     IN  /\ TRUE \in {newline, end, ~LineGoesOn}
         /\ IF end /\ call.got = <<>> THEN a = Null /\ UNCHANGED heapVars
            ELSE GiveString(a, StripCr(call.got))
         /\ pipe' = IF newline THEN [pipe EXCEPT ![Source] = Tail(@)] ELSE pipe
         /\ Answered(newline)
  /\ Return
  /\ UNCHANGED <<fds, kids, handle, calls, killed>>

-----------------------------------------------------------------------------
(* The end of a child *)

WaitDone ==
  /\ call # Idle /\ call.phase = "exit"
  /\ kids[call.kid].st = "zombie"
  /\ kids' = [kids EXCEPT ![call.kid].st = "reaped"]
  /\ handle' = [handle EXCEPT ![call.kid].waited = TRUE]
  /\ Return
  /\ UNCHANGED <<heapVars, fds, pipe, calls, killed, inStep, mismatched>>

\* Mutant: stdin is closed and its number kept, for release to close again.
cn_ipc_native_stdin_close_keeps(k) ==
  /\ call = Idle /\ HasHandle(k) /\ handle[k].in >= 0
  /\ fds' = close_fd(fds, handle[k].in)
  /\ UNCHANGED <<heapVars, handle, kids, pipe, call, calls, killed, inStep, mismatched>>

cn_ipc_native_stdin_close(k) ==
  /\ call = Idle /\ HasHandle(k) /\ handle[k].in >= 0
  /\ fds' = close_fd(fds, handle[k].in)
  /\ handle' = [handle EXCEPT ![k].in = -1]
  /\ UNCHANGED <<heapVars, kids, pipe, call, calls, killed, inStep, mismatched>>

Exited(kid) == [kid EXCEPT !.st = "zombie", !.holds = {}, !.line = <<>>, !.todo = <<>>]

\* kill knows the child by its number only, which may be in use again once
\* the child has been waited for.
cn_ipc_native_kill(k) ==
  /\ call = Idle /\ HasHandle(k)
  /\ \E j \in Kid :
       /\ kids[j].st = "run" /\ kids[j].pid = handle[k].pid
       /\ kids' = [kids EXCEPT ![j] = Exited(@)]
  /\ UNCHANGED <<heapVars, fds, pipe, ours>>

\* A child that still runs is left without anybody to wait for it.
cn_ipc_native_release(k) ==
  /\ call = Idle /\ HasHandle(k)
  /\ fds' = CloseAll(fds, {handle[k].in, handle[k].out, handle[k].err})
  /\ kids' = IF ~handle[k].waited /\ kids[k].st = "zombie"
             THEN [kids EXCEPT ![k].st = "reaped"] ELSE kids
  /\ handle' = [handle EXCEPT ![k] = NoHandle]
  /\ heap' = FreeNodes(heap, 2)
  /\ UNCHANGED <<zones, var, mine, told, untracked, handed, misfreed>>
  /\ UNCHANGED <<pipe, call, calls, killed, inStep, mismatched>>

-----------------------------------------------------------------------------
(* The children *)

theirs == <<heapVars, fds, ours>>
Runs(k) == kids[k].st = "run"

KidRead(k) ==
  /\ Runs(k) /\ kids[k].todo = <<>> /\ pipe[<<k, "in">>] # <<>>
  /\ LET item == Head(pipe[<<k, "in">>])
     IN  IF item # Nl
         THEN kids' = [kids EXCEPT ![k].line = Append(@, item)]
         ELSE \E complaint \in {<<>>, << <<"err", Nl>> >>}, cr \in {<<>>, <<Cr>>} :
                kids' = [kids EXCEPT ![k].line = <<>>,
                           ![k].todo = complaint \o [i \in 1..(Len(kids[k].line) + Len(cr) + 1) |->
                                          <<"out", (kids[k].line \o cr \o <<Nl>>)[i]>>]]
  /\ pipe' = [pipe EXCEPT ![<<k, "in">>] = Tail(@)]
  /\ UNCHANGED theirs

KidWrite(k) ==
  /\ Runs(k) /\ kids[k].todo # <<>>
  /\ LET s == Head(kids[k].todo)[1]
     IN  IF Held(OurEnd(k, s))
         THEN /\ Len(pipe[<<k, s>>]) < PipeCap
              /\ pipe' = [pipe EXCEPT ![<<k, s>>] = Append(@, Head(kids[k].todo)[2])]
              /\ kids' = [kids EXCEPT ![k].todo = Tail(@)]
         ELSE kids' = [kids EXCEPT ![k] = Exited(@)] /\ UNCHANGED pipe
  /\ UNCHANGED theirs

KidEnds(k) ==
  /\ Runs(k) /\ kids[k].todo = <<>>
  /\ pipe[<<k, "in">>] = <<>> /\ ~Held(OurEnd(k, "in"))
  /\ kids' = [kids EXCEPT ![k] = Exited(@)]
  /\ UNCHANGED <<pipe, theirs>>

KidStops(k) ==
  /\ Runs(k)
  /\ kids' = [kids EXCEPT ![k] = Exited(@)]
  /\ UNCHANGED <<pipe, theirs>>

-----------------------------------------------------------------------------
CallStep ==
  \/ WriteValue \/ WriteNewline \/ BrokenPipe
  \/ \E a \in Addr \cup {Null} : ReadChunk(a) \/ LineDone(a)
  \/ TakeByte
  \/ WaitDone

\* What the program does with the children ks besides talking to them.
LifeNext(ks) ==
  \E k \in ks :
    \/ \E pid \in Pid, outcome \in {"no process", "no memory", "child"} :
         cn_ipc_native_spawn(k, pid, outcome)
    \/ cn_ipc_native_wait(k)
    \/ cn_ipc_native_stdin_close(k)
    \/ cn_ipc_native_kill(k)
    \/ cn_ipc_native_release(k)

\* Talking to them, and receiving strings in the variables vs.
TalkNext(ks, vs) ==
  \/ \E k \in ks, n \in Lengths :
       \/ cn_ipc_native_stdin_write(k, n)
       \/ cn_ipc_native_stdin_write_line(k, n)
       \/ \E max \in Limits, v \in vs : cn_ipc_request_line(k, n, max, v)
  \/ \E k \in ks, s \in {"out", "err"}, max \in Limits, v \in vs :
       \/ cn_ipc_read(k, s, max, v)
       \/ cn_ipc_read_line(k, s, max, v)
  \/ WriteInterrupted
  \/ ReadNoMemory

KidNext(k) == KidRead(k) \/ KidWrite(k) \/ KidEnds(k)

-----------------------------------------------------------------------------
IpcTypeOK ==
  /\ \A k \in Kid : kids[k].st \in {"none", "run", "zombie", "reaped"}
  /\ \A p \in Kid \X Streams : Len(pipe[p]) <= PipeCap
  /\ \A k \in Kid, s \in Streams : handle[k][s] \in Fd \cup {-1}
  /\ calls \in 0..MaxCalls
  /\ call # Idle => (call.phase = "read" => Len(call.got) <= call.max)

\* A request that found the child in step and got a line ended by a newline
\* got the answer to its own text, whole: partial writes, lines cut at
\* max_bytes and a child that stops half way do not hand one request the
\* answer of another (ipc.c, cn_ipc_request_line; cn_ipc_read_line_fd).
RepliesMatch == ~mismatched

\* The child can do nothing more before the program reads a pipe it is not
\* reading: native_runtime.c:669 blocks one way while the child blocks the other.
KidBlocked(k) ==
  /\ Runs(k) /\ kids[k].todo # <<>>
  /\ LET s == Head(kids[k].todo)[1]
     IN  Len(pipe[<<k, s>>]) = PipeCap /\ (call.phase = "read" => call.s # s)

\* The program reads, or waits for, a child that waits for input somebody
\* other than the child can still send.
KidStarved(k) ==
  /\ call.op \in {"chunk", "line", "wait"}
  /\ Runs(k) /\ kids[k].todo = <<>> /\ pipe[<<k, "in">>] = <<>>
  /\ \/ HeldByUs(OurEnd(k, "in"))
     \/ \E j \in Kid \ {k} : Runs(j) /\ OurEnd(k, "in") \in kids[j].holds

\* A call on a child returns: the answer to a request arrives, the end of a
\* child is noticed, a child whose input has ended is waited for.  Only a
\* child blocked on a full pipe, or one still waiting for input, keeps the
\* call from returning.
CallsReturn ==
  (call # Idle) ~> (call = Idle \/ KidBlocked(call.kid) \/ KidStarved(call.kid))

-----------------------------------------------------------------------------
(* Why the calls keep to their own strings and pipes *)

Item == Seq(Nat)
Waiting == [op : {"wait"}, kid : Kid, s : {"none"}, phase : {"exit"}]
Talking ==
  [op : Writes \cup {"chunk", "line"}, kid : Kid, s : Streams, max : Nat, v : Var, text : Seq(Item),
   sent : Nat, got : Seq(Item), phase : {"value", "newline", "read"}, trusted : BOOLEAN]

PipeTypes ==
  pipe \in [Kid \X Streams -> Seq(Item)] /\ \A p \in Kid \X Streams : Len(pipe[p]) <= PipeCap

KidTypes ==
  \A k \in Kid : /\ kids[k].st \in {"none", "run", "zombie", "reaped"}
                 /\ kids[k].line \in Seq(Item) /\ kids[k].todo \in Seq({"out", "err"} \X Item)

\* A call is about a child the program has a handle of, does not read more
\* than it was asked for, and has text left while it writes text.
CallTypes ==
  /\ call \in {Idle} \cup Waiting \cup Talking
  /\ calls \in 0..MaxCalls /\ killed \in BOOLEAN /\ mismatched \in BOOLEAN
  /\ call # Idle => HasHandle(call.kid)
  /\ call \in Talking =>
       /\ call.op \in {"write", "write_line"} => call.phase # "read"
       /\ call.op \in {"chunk", "line"} => call.phase = "read"
       /\ call.phase = "value" => call.sent < Len(call.text)
       /\ call.phase = "read" => Len(call.got) <= call.max
       /\ call.phase # "read" => call.got = <<>>

CInv ==
  /\ PipeTypes /\ KidTypes /\ CallTypes
  /\ \A k \in Kid : HasHandle(k) => handle[k].out >= 0

\* A call that will return a string has a variable to put it in.
CallSpare == call.op \in {"request", "chunk", "line"} => Spare(call.v)

-----------------------------------------------------------------------------
(* Why a request gets its own answer *)

\* The items s are those of f from the place after at on.
Part(f, at, s) == at + Len(s) <= Len(f) /\ \A i \in 1..Len(s) : s[i] = f[at + i]

LineFor(text) == Append(text, Nl)
ReplyTo(text, cr) == text \o cr \o <<Nl>>

\* The line is on the way to the child, as far as it was sent: the child has
\* read some of it, and the rest is in the pipe.
Asking(kid, in, out, text, sent) ==
  /\ out = <<>> /\ kid.todo = <<>>
  /\ Part(LineFor(text), 0, kid.line) /\ Part(LineFor(text), Len(kid.line), in)
  /\ Len(kid.line) + Len(in) = sent

\* What has come back of the reply: read by the program, or still in the pipe.
Arrived(out, reply, got) == Part(reply, 0, got) /\ Part(reply, Len(got), out)

\* What the child has yet to write after n items of its reply: the rest of it,
\* and its complaint before that.
Pending(todo, reply, n) ==
  \E c \in {0, 1} :
    /\ Len(todo) = c + Len(reply) - n
    /\ \A i \in 1..(Len(reply) - n) : todo[c + i] = <<"out", reply[n + i]>>
    /\ c = 1 => todo[1] = <<"err", Nl>> /\ n = 0

Replying(kid, in, out, text, got) ==
  /\ in = <<>> /\ kid.line = <<>>
  /\ \E cr \in {<<>>, <<Cr>>} :
       /\ Arrived(out, ReplyTo(text, cr), got)
       /\ Pending(kid.todo, ReplyTo(text, cr), Len(got) + Len(out))

\* The child has ended: nothing more will arrive.
Ended(kid) == kid.st \in {"zombie", "reaped"} /\ kid.line = <<>> /\ kid.todo = <<>>
CutShort(kid, out, text, got) ==
  Ended(kid) /\ \E cr \in {<<>>, <<Cr>>} : Arrived(out, ReplyTo(text, cr), got)

\* Nothing is on the way in either direction.
Quiet(kid, in, out) ==
  /\ out = <<>> /\ kid.line = <<>> /\ kid.todo = <<>>
  /\ in = <<>> \/ Ended(kid)

\* Where the trusted request c is.
OnTheWay(c, kid, in, out) ==
  /\ c.op = "request" /\ kid.st # "none"
  /\ \A i \in 1..Len(c.text) : c.text[i] \notin {Nl, Cr}
  /\ c.sent <= Len(c.text)
  /\ c.phase # "read" => Asking(kid, in, out, c.text, c.sent) \/ CutShort(kid, out, c.text, <<>>)
  /\ c.phase = "read" =>
       /\ c.s = "out"
       /\ \/ c.got = <<>> /\ Asking(kid, in, out, c.text, Len(c.text) + 1)
          \/ Replying(kid, in, out, c.text, c.got)
          \/ CutShort(kid, out, c.text, c.got)

QuietKid(k) == Quiet(kids[k], pipe[<<k, "in">>], pipe[<<k, "out">>])
KidOnTheWay(c) == OnTheWay(c, kids[c.kid], pipe[<<c.kid, "in">>], pipe[<<c.kid, "out">>])

\* Nothing is on the way of children not yet spawned, and of those in step.
QuietKids == \A k \in Kid : kids[k].st = "none" \/ k \in inStep => QuietKid(k)

\* A child a call talks with is out of step until the answer is there.
Talks(c) ==
  /\ c.phase # "read" => c.s = "in"
  /\ c.s # "err" => c.kid \notin inStep
  /\ c.trusted => KidOnTheWay(c)

RInv ==
  /\ RepliesMatch /\ inStep \subseteq Kid
  /\ QuietKids
  /\ call \in Talking => Talks(call)
=============================================================================
