--------------------------- MODULE SocketFactory ---------------------------
(***************************************************************************)
(* BasicPacketSocketFactory of talk/p2p/base/basicpacketsocketfactory.cc. *)
(*                                                                         *)
(* The factory is used on one thread, so each Create* call is one atomic  *)
(* action; what the operating system and the socket classes answer (the  *)
(* socket is created, a port is free, StartSSL and Connect succeed) is a  *)
(* nondeterministic choice inside it.                                     *)
(*                                                                         *)
(* heap holds every object a call allocates: the AsyncSocket of the       *)
(* socket server, the wrappers put around it (proxy, SSL adapter,          *)
(* pseudo-SSL) and the packet socket returned.  Each wrapper is given the *)
(* object it wraps as `inner` and owns it: deleting a wrapper deletes the *)
(* chain below it, as the destructors of the rtc socket adapters and      *)
(* packet sockets do.  returned is the set of objects handed to callers.  *)
(***************************************************************************)
EXTENDS Integers, Sequences, FiniteSets, FiniteSetsExt

CONSTANTS
    PortPool,      \* the ports other processes may hold, and ranges span
    Ephemeral,     \* the port the OS picks when asked to bind port 0
    Ranges,        \* <<min_port, max_port>> arguments of the UDP / server calls
    Proxies,       \* proxy_info.type values
    SslAvailable,  \* whether SSLAdapter::Create returns an adapter in this build
    MaxCalls,      \* bound on the number of Create* calls
    CurrentThread, \* Thread::Current() on the thread that builds and uses the factory
    ThreadArgs,    \* Thread* values given to BasicPacketSocketFactory(Thread*)
    FactoryArgs    \* SocketFactory* values given to BasicPacketSocketFactory(SocketFactory*)

Options == {"TLS", "SSLTCP", "STUN"}
Null == 0
NoPort == -1
\* Pointers other than NULL: the rtc::Thread the factory is used on, a
\* SocketFactory passed in, and that thread's socket server.
OwnerThread == 1
GivenFactory == 2
SocketServer == 3

ASSUME /\ PortPool \subseteq Nat \ {0} /\ Ephemeral \in Nat \ PortPool
       /\ Ranges \subseteq Int \X Int
       /\ Proxies \subseteq {"none", "socks5", "https"}
       /\ SslAvailable \in BOOLEAN /\ MaxCalls \in Nat
       /\ CurrentThread \in {OwnerThread, Null}
       /\ ThreadArgs \subseteq {OwnerThread, Null}
       /\ FactoryArgs \subseteq {GivenFactory, Null}

VARIABLES
    heap,      \* Seq([kind, inner, port, live])
    returned,  \* ids of objects the callers own
    os_busy,   \* ports held by other processes
    calls,     \* Create* calls made
    thread_, socket_factory_,  \* the members the constructor sets
    crashed    \* a Create* call dereferenced a NULL socket factory

vars == <<heap, returned, os_busy, calls, thread_, socket_factory_, crashed>>

\* socket_factory(): the socket server of thread_ if there is one, else
\* socket_factory_.  thread_ is the thread the calls are made on, so the
\* ASSERT(thread_ == Thread::Current()) holds.
socket_factory == IF thread_ # Null THEN SocketServer ELSE socket_factory_

\* A Create* call that reaches socket_factory()->CreateAsyncSocket.
CanCreate == calls < MaxCalls /\ ~crashed /\ socket_factory # Null

LiveIds == {i \in DOMAIN heap : heap[i].live}

\* Ports bound by the factory's live sockets, and by anyone on the host.
HeldPorts == {heap[i].port : i \in LiveIds} \ {NoPort, Ephemeral}
InUse == os_busy \cup HeldPorts

\* new <kind>(inner): a wrapper that takes ownership of heap[inner].
New(h, kind, inner) ==
    Append(h, [kind |-> kind, inner |-> inner, port |-> NoPort, live |-> TRUE])

\* delete h[i]: the object and the chain it owns.
RECURSIVE Delete(_, _)
Delete(h, i) ==
    IF i = Null THEN h ELSE Delete([h EXCEPT ![i].live = FALSE], h[i].inner)

-----------------------------------------------------------------------------
(* BindSocket *)

\* socket->Bind(address with `port`): the results the OS can give.  Port 0
\* is bound to a port of the OS's choice; a named port only when free.
Bind(port, inuse) ==
    IF port = 0 THEN {Ephemeral, NoPort}
    ELSE IF port \in inuse THEN {NoPort} ELSE {port}

\* for (port = min_port; ret < 0 && port <= max_port; ++port) ret = Bind(port)
\* Mutant: the loop stops before max_port.
RECURSIVE BindLoop_StopBeforeMax(_, _, _)
BindLoop_StopBeforeMax(port, max_port, inuse) ==
    IF port >= max_port THEN {NoPort}
    ELSE UNION {IF r # NoPort THEN {r}
                ELSE BindLoop_StopBeforeMax(port + 1, max_port, inuse) :
                   r \in Bind(port, inuse)}

RECURSIVE BindLoop(_, _, _)
BindLoop(port, max_port, inuse) ==
    IF port > max_port THEN {NoPort}
    ELSE UNION {IF r # NoPort THEN {r} ELSE BindLoop(port + 1, max_port, inuse) :
                   r \in Bind(port, inuse)}

\* The port the socket ends up bound to, or NoPort (BindSocket returns < 0).
BindSocket(range, inuse) ==
    IF range = <<0, 0>> THEN Bind(0, inuse)
    ELSE BindLoop(range[1], range[2], inuse)

-----------------------------------------------------------------------------
(* The Create* calls.  Return(h, r): the call ends with heap h and returns *)
(* r (Null or an object the caller now owns).                             *)

Return(h, r) ==
    /\ heap' = h
    /\ returned' = IF r = Null THEN returned ELSE returned \cup {r}
    /\ calls' = calls + 1
    /\ UNCHANGED <<os_busy, thread_, socket_factory_, crashed>>

\* socket_factory()->CreateAsyncSocket's socket, bound to `port` by BindSocket.
RawSocket(port) ==
    Append(heap, [kind |-> "async_socket", inner |-> Null, port |-> port, live |-> TRUE])

\* Mutant: a failed bind returns NULL without deleting the socket.
CreateUdpSocket_NoDelete(range) ==
    /\ CanCreate
    /\ \E port \in BindSocket(range, InUse) :
          IF port = NoPort THEN Return(RawSocket(port), Null)
          ELSE Return(New(RawSocket(port), "udp", Len(heap) + 1), Len(heap) + 2)

\* CreateAsyncSocket may return NULL; a failed bind deletes the socket.
CreateUdpSocket(range) ==
    /\ CanCreate
    /\ \/ Return(heap, Null)
       \/ \E port \in BindSocket(range, InUse) :
             IF port = NoPort THEN Return(Delete(RawSocket(port), Len(heap) + 1), Null)
             ELSE Return(New(RawSocket(port), "udp", Len(heap) + 1), Len(heap) + 2)

\* The packet socket that wraps the (possibly wrapped) stream socket s.
WrapTcp(h, s, opts) == New(h, IF "STUN" \in opts THEN "stun_tcp" ELSE "tcp", s)

ServerWrap(h, s, opts) ==
    LET h2 == IF "SSLTCP" \in opts THEN New(h, "pseudo_ssl", s) ELSE h
    IN  Return(WrapTcp(h2, Len(h2), opts), Len(h2) + 1)

CreateServerTcpSocket(range, opts) ==
    /\ CanCreate
    /\ \/ Return(heap, Null)    \* OPT_TLS, or CreateAsyncSocket returned NULL
       \/ /\ "TLS" \notin opts
          /\ \E port \in BindSocket(range, InUse) :
                IF port = NoPort THEN Return(Delete(RawSocket(port), Len(heap) + 1), Null)
                ELSE ServerWrap(RawSocket(port), Len(heap) + 1, opts)

\* Mutant: after deleting the socket that failed to connect, the dangling
\* pointer is returned instead of NULL.
Connect_ReturnDeleted(h, opts) ==
    \/ Return(Delete(h, Len(h)), Len(h))
    \/ Return(WrapTcp(h, Len(h), opts), Len(h) + 1)

\* socket->Connect; on failure the outermost socket (and its chain) is
\* deleted, else it is wrapped in the packet socket.
Connect(h, opts) ==
    \/ Return(Delete(h, Len(h)), Null)
    \/ Return(WrapTcp(h, Len(h), opts), Len(h) + 1)

\* TLS: SSLAdapter::Create, then StartSSL (failure deletes the adapter).
\* Otherwise SSLTCP wraps in a pseudo-SSL socket.  SSLAdapter::Create is
\* outside src/; it takes ownership of the socket, and the build without
\* an SSL library deletes it before returning NULL, so the NULL return
\* leaves nothing allocated.
Secure(h, opts) ==
    IF "TLS" \in opts
    THEN IF ~SslAvailable THEN Return(Delete(h, Len(h)), Null)
         ELSE LET h2 == New(h, "ssl_adapter", Len(h))
              IN  \/ Return(Delete(h2, Len(h2)), Null)
                  \/ Connect(h2, opts)
    ELSE Connect(IF "SSLTCP" \in opts THEN New(h, "pseudo_ssl", Len(h)) ELSE h, opts)

ClientWrap(h, s, proxy, opts) ==
    Secure(IF proxy = "none" THEN h ELSE New(h, proxy, s), opts)

CreateClientTcpSocket(proxy, opts) ==
    /\ CanCreate
    /\ \/ Return(heap, Null)
       \/ \E port \in BindSocket(<<0, 0>>, InUse) :
             IF port = NoPort THEN Return(Delete(RawSocket(port), Len(heap) + 1), Null)
             ELSE ClientWrap(RawSocket(port), Len(heap) + 1, proxy, opts)

CreateAsyncResolver ==
    /\ calls < MaxCalls /\ ~crashed
    /\ Return(New(heap, "resolver", Null), Len(heap) + 1)

\* CreateUdpSocket, CreateServerTcpSocket or CreateClientTcpSocket on a
\* factory with neither a thread nor a socket factory: socket_factory()
\* returns NULL and ->CreateAsyncSocket dereferences it.  The process ends.
DerefNullFactory ==
    /\ calls < MaxCalls /\ ~crashed
    /\ socket_factory = Null
    /\ crashed' = TRUE
    /\ UNCHANGED <<heap, returned, os_busy, calls, thread_, socket_factory_>>

-----------------------------------------------------------------------------
(* Environment *)

\* The caller deletes an object the factory gave it.
Close(r) ==
    /\ ~crashed /\ r \in returned
    /\ heap' = Delete(heap, r)
    /\ returned' = returned \ {r}
    /\ UNCHANGED <<os_busy, calls, thread_, socket_factory_, crashed>>

\* Another process binds or releases a port the factory's sockets do not
\* hold; other processes go on after this one has crashed.
OtherProcess(p) ==
    /\ p \notin HeldPorts
    /\ os_busy' = SymDiff(os_busy, {p})
    /\ UNCHANGED <<heap, returned, calls, thread_, socket_factory_, crashed>>

Init ==
    /\ heap = <<>>
    /\ returned = {}
    /\ os_busy \in SUBSET PortPool
    /\ calls = 0
    /\ crashed = FALSE
    \* BasicPacketSocketFactory(): thread_ = Thread::Current(), which is NULL
    \* on a thread rtc does not wrap; (Thread*); (SocketFactory*).
    /\ \/ thread_ = CurrentThread /\ socket_factory_ = Null
       \/ thread_ \in ThreadArgs /\ socket_factory_ = Null
       \/ thread_ = Null /\ socket_factory_ \in FactoryArgs

Next ==
    \/ \E r \in Ranges : CreateUdpSocket(r)
    \/ \E r \in Ranges, o \in SUBSET Options : CreateServerTcpSocket(r, o)
    \/ \E x \in Proxies, o \in SUBSET Options : CreateClientTcpSocket(x, o)
    \/ CreateAsyncResolver
    \/ DerefNullFactory
    \/ \E r \in returned : Close(r)
    \/ \E p \in PortPool : OtherProcess(p)

Spec == Init /\ [][Next]_vars


-----------------------------------------------------------------------------
(* Properties *)

Kinds == {"async_socket", "udp", "tcp", "stun_tcp", "pseudo_ssl", "ssl_adapter",
          "socks5", "https", "resolver"}

TypeOK ==
    /\ heap \in Seq([kind : Kinds, inner : {Null} \cup DOMAIN heap,
                     port : {NoPort, Ephemeral} \cup PortPool, live : BOOLEAN])
    /\ returned \subseteq LiveIds
    /\ os_busy \subseteq PortPool
    /\ calls \in 0..MaxCalls
    /\ thread_ \in {OwnerThread, Null} /\ socket_factory_ \in {GivenFactory, Null}
    /\ crashed \in BOOLEAN

\* The objects heap[i] owns, itself included.
RECURSIVE Chain(_)
Chain(i) == IF i = Null THEN {} ELSE {i} \cup Chain(heap[i].inner)

\* Every live object belongs to exactly the chain of something a caller
\* owns, and every object a caller owns is whole: each Create* path that
\* returns NULL (bind, StartSSL or Connect failing) deletes what it
\* allocated, the wrappers take ownership, and nothing a caller holds is
\* deleted under it.
NoLeak == LiveIds = UNION {Chain(r) : r \in returned}

\* BindSocket against the definition its comment gives: given a range, the
\* socket is bound to the first port of the range that is free, and the
\* call fails when none is.  Checked in every reachable state, against the
\* ports held there by other processes and by the factory's own sockets.
FirstFree(range, inuse) ==
    LET free == {p \in range[1]..range[2] : p # 0 /\ p \notin inuse}
    IN  IF free = {} THEN NoPort ELSE Min(free)

BindSocketFindsFirstFree ==
    \A range \in Ranges \ {<<0, 0>>} :
        BindSocket(range, InUse) = {FirstFree(range, InUse)}

=============================================================================
