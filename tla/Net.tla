-------------------------------- MODULE Net --------------------------------
(***************************************************************************)
(* std.net on POSIX systems: blocking IPv4 sockets, known to the program   *)
(* by their raw descriptor (backend/stdlib/net.c).  Sockets come out of    *)
(* the same descriptor table as the pipes of std.ipc, and the strings that *)
(* arrive go to the list of owned strings.                                 *)
(***************************************************************************)
EXTENDS Ipc

CONSTANTS
  Sock,       \* sockets, each opened at most once
  Ports       \* the ports programs ask for

VARIABLES
  socks,      \* each socket: its kind, and the number the program has for it
  strayClosed \* the program closed a number that was no longer its socket

netVars == <<socks, strayClosed>>

NoSock == [kind |-> "none", fd |-> -1, shut |-> FALSE]
SockObj(i) == <<"sock", i>>

NetInit ==
  /\ socks = [i \in Sock |-> NoSock]
  /\ strayClosed = FALSE

notFds == <<heapVars, kids, pipe, handle, call, calls, killed, inStep, mismatched>>

-----------------------------------------------------------------------------
(* Addresses *)

resolve_port(port) == port >= 0 /\ port <= 65535

\* A host is empty, "localhost", a dotted address or some other name; only
\* calls that bind take the empty one.
Hosts == {"", "localhost", "ipv4", "name"}
resolve_host(host, allow_any) ==
  IF host = "" THEN allow_any ELSE host \in {"localhost", "ipv4"}

-----------------------------------------------------------------------------
(* Opening: each failure behind socket() closes the new descriptor *)

\* What the call does after socket(), in order, for each kind of socket.
After == [stream |-> <<"connect">>, listener |-> <<"reuseaddr", "bind", "listen">>, dgram |-> <<"bind">>]

\* fails: the step that fails, "none" when all succeed.
OpenSocket(i, kind, host, port, fails) ==
  LET o == Open(fds, SockObj(i))
  IN  /\ call = Idle /\ socks[i] = NoSock
      /\ resolve_port(port) /\ resolve_host(host, kind # "stream")
      /\ fails \in {"none"} \cup Range(After[kind])
      /\ IF o.fd = -1 \/ fails # "none"
         THEN fds' = close_fd(o.t, o.fd) /\ UNCHANGED socks
         ELSE fds' = o.t /\ socks' = [socks EXCEPT ![i] = [kind |-> kind, fd |-> o.fd, shut |-> FALSE]]
      /\ UNCHANGED <<notFds, strayClosed>>

cn_net_tcp_connect(i, host, port, fails) == OpenSocket(i, "stream", host, port, fails)
cn_net_tcp_listen(i, host, port, fails) == OpenSocket(i, "listener", host, port, fails)
cn_net_udp_bind(i, host, port, fails) == OpenSocket(i, "dgram", host, port, fails)

Usable(i) == socks[i].kind # "none" /\ ~socks[i].shut

cn_net_accept(l, i) ==
  LET o == Open(fds, SockObj(i))
  IN  /\ call = Idle /\ Usable(l) /\ socks[l].kind = "listener" /\ socks[i] = NoSock
      /\ o.fd # -1
      /\ fds' = o.t
      /\ socks' = [socks EXCEPT ![i] = [kind |-> "stream", fd |-> o.fd, shut |-> FALSE]]
      /\ UNCHANGED <<notFds, strayClosed>>

\* close takes any number; one the program closed before may by now be
\* another socket, or the pipe of a child.
cn_net_close(i) ==
  LET f == socks[i].fd
  IN  /\ call = Idle /\ socks[i].kind # "none"
      /\ fds' = close_fd(fds, f)
      /\ socks' = [socks EXCEPT ![i].shut = TRUE]
      /\ strayClosed' = (strayClosed \/ (fds[f] # Closed /\ fds[f] # SockObj(i)))
      /\ UNCHANGED notFds

-----------------------------------------------------------------------------
(* Receiving *)

\* recv: the buffer is released when nothing could be received; what was
\* received, nothing when the peer has closed, becomes an owned string.
cn_net_recv_chunk(i, v, text, a, node) ==
  /\ call = Idle /\ Usable(i) /\ socks[i].kind = "stream" /\ Spare(v)
  /\ a \in Malloc(heap) \ {Null}
  /\ heap' = cn_track_str(Alloc(heap, a, "str", text), a, node)
  /\ Receive(v, a, text, node)
  /\ UNCHANGED <<zones, handed, misfreed, ipcVars, netVars>>

cn_net_recv_fails(i, a) ==
  /\ call = Idle /\ Usable(i) /\ a \in Malloc(heap) \ {Null}
  /\ heap' = Free(Alloc(heap, a, "str", <<>>), a)
  /\ UNCHANGED <<zones, var, mine, told, untracked, handed, misfreed, ipcVars, netVars>>

\* A datagram is two strings, the sender's address and the data.  The data
\* is in its buffer when the memory for the address is asked for; if there
\* is none (b = Null) the datagram is gone and its buffer released.
Packet(h, a, b, text, nodeA, nodeB) ==
  LET h1 == Alloc(h, a, "str", text)
  IN  IF b = Null THEN Free(h1, a)
      ELSE cn_track_str(cn_track_str(Alloc(h1, b, "str", text), a, nodeA), b, nodeB)

cn_net_udp_recv_from(i, v, w, text, a, b, nodeA, nodeB) ==
  /\ call = Idle /\ Usable(i) /\ socks[i].kind = "dgram" /\ Spare(v) /\ Spare(w) /\ v # w
  /\ a \in Malloc(heap) \ {Null}
  /\ b \in Malloc(Alloc(heap, a, "str", text))
  /\ heap' = Packet(heap, a, b, text, nodeA, nodeB)
  /\ IF b = Null THEN UNCHANGED <<var, mine, told, untracked>>
     ELSE /\ var' = [var EXCEPT ![v] = a, ![w] = b]
          /\ told' = [told EXCEPT ![v] = text, ![w] = text]
          /\ mine' = mine \cup {v, w}
          /\ untracked' = untracked \cup {x \in {a, b} : ~(IF x = a THEN nodeA ELSE nodeB)}
  /\ UNCHANGED <<zones, handed, misfreed, ipcVars, netVars>>

-----------------------------------------------------------------------------
NetNext(vs) ==
  \/ \E i \in Sock, host \in Hosts, port \in Ports, fails \in {"none", "connect", "reuseaddr", "bind", "listen"} :
       \/ cn_net_tcp_connect(i, host, port, fails)
       \/ cn_net_tcp_listen(i, host, port, fails)
       \/ cn_net_udp_bind(i, host, port, fails)
  \/ \E l, i \in Sock : cn_net_accept(l, i)
  \/ \E i \in Sock : cn_net_close(i)
  \/ \E i \in Sock, v \in vs, text \in Texts \cup {<<>>}, a \in Addr, node \in BOOLEAN :
       cn_net_recv_chunk(i, v, text, a, node)
  \/ \E i \in Sock, a \in Addr : cn_net_recv_fails(i, a)
  \/ \E i \in Sock, v, w \in vs, text \in Texts, a \in Addr, b \in Addr \cup {Null}, nodeA, nodeB \in BOOLEAN :
       cn_net_udp_recv_from(i, v, w, text, a, b, nodeA, nodeB)

-----------------------------------------------------------------------------
NetTypeOK ==
  /\ \A i \in Sock : socks[i].fd \in Fd \cup {-1}
  /\ strayClosed \in BOOLEAN

\* Every descriptor the runtime opened is in the hands of somebody who can
\* close it, once: a stream of one child's handle or a socket of the program;
\* spawn, connect, listen and bind leave none behind on any of their failing
\* paths, and a handle never names a descriptor that now is something else.
\* A handle not waited for still names its own child, so kill reaches that
\* one.  A program that closes one raw socket number twice may break this.
HandlesAccounted ==
  strayClosed \/
    /\ \A k \in Kid, s \in Streams :
         handle[k][s] >= 0 => fds[handle[k][s]] = OurEnd(k, s)
    /\ \A i \in Sock : Usable(i) => fds[socks[i].fd] = SockObj(i)
    /\ \A f \in Fd : fds[f] \notin {Closed, Inherited} =>
         \/ \E k \in Kid, s \in Streams : handle[k][s] = f
         \/ \E i \in Sock : Usable(i) /\ socks[i].fd = f
    /\ \A k \in Kid : HasHandle(k) /\ ~handle[k].waited =>
         Alive(k) /\ kids[k].pid = handle[k].pid

-----------------------------------------------------------------------------
(* Why HandlesAccounted is preserved *)

Descriptions ==
  {Closed, Inherited} \cup {End(p[1], p[2], p[3]) : p \in Kid \X Streams \X {"r", "w"}}
    \cup {SockObj(i) : i \in Sock}

FdOrNone == Fd \cup {-1}

Handles ==
  [pid : Pid \cup {0}, in : FdOrNone, out : FdOrNone, err : FdOrNone, waited : BOOLEAN]

TableTypes ==
  /\ fds \in [Fd -> Descriptions]
  /\ handle \in [Kid -> Handles]
  /\ kids = [k \in Kid |-> kids[k]]
  /\ \A k \in Kid : DOMAIN kids[k] = {"st", "pid", "holds", "line", "todo"}
  /\ socks \in [Sock -> [kind : {"none", "stream", "listener", "dgram"}, fd : FdOrNone,
                         shut : BOOLEAN]]
  /\ \A i \in Sock : socks[i].kind # "none" => socks[i].fd \in Fd
  /\ strayClosed \in BOOLEAN

\* A child is spawned once, so spawn never overwrites a handle.
HInv ==
  /\ TableTypes
  /\ \A k \in Kid : HasHandle(k) => kids[k].st # "none"
  /\ HandlesAccounted
=============================================================================
