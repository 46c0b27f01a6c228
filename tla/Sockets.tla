------------------------------ MODULE Sockets ------------------------------
(***************************************************************************)
(* kernel/net/tcpip.c: sockets with their TCP state, the segments and      *)
(* datagrams that reach them, and the routing table.  Calls run to         *)
(* completion one after the other.  Received bytes are numbered in the     *)
(* order in which a socket accepts them, so that the contents of its       *)
(* buffer tell whether one was lost or moved.                              *)
(*                                                                         *)
(* ip_rx frees what has not version 4, a whole header and its checksum,    *)
(* and tests no other length.  The length of a segment is the uint32_t     *)
(* that tcp_rx and udp_rx compute: a header length beyond the end of the   *)
(* packet, or a length field below 8, makes it a number just below 2^32.   *)
(* A datagram may say more than it carries: the bytes behind it are taken  *)
(* for its data.  A copy that runs over the buffer is the end of the       *)
(* behaviour: nothing is known of the memory behind it.                    *)
(*                                                                         *)
(* Windows, sequence numbers and the SOCKET_STATE are written and never    *)
(* read, and are left out, as are descriptors, statistics and checksums.   *)
(* So is udp_sendto, which changes nothing but the buffers it allocates    *)
(* and frees itself.                                                       *)
(***************************************************************************)
EXTENDS Integers, Sequences, FiniteSets, SeqFilter

CONSTANTS SockIds,          \* the socket_t that kmalloc may return
          Binds, Peers,     \* bound: the addresses and ports of socket_bind and socket_connect
          Segments,         \* bound: the TCP segments and UDP datagrams that arrive
          RCV_BUF_SIZE, SND_BUF_SIZE,
          LenWords,         \* the number of values of a length, 2^32
          Lengths,          \* bound: the lengths of calls
          AddrBits,         \* the bit positions of an IP address
          Nets,             \* bound: the networks of routes, as sets of bits
          Masks,            \* bound: their masks
          MAX_ROUTES,
          NoRoute

ASSUME SocketsAssumption ==
    /\ Binds \subseteq Nat \X Nat /\ Peers \subseteq Nat \X Nat
    /\ {RCV_BUF_SIZE, SND_BUF_SIZE, MAX_ROUTES} \subseteq Nat \ {0}
    /\ LenWords \in Nat /\ RCV_BUF_SIZE < LenWords /\ SND_BUF_SIZE < LenWords
    /\ Segments \subseteq [proto : {"TCP", "UDP"}, dport : Nat, sport : Nat,
                           flags : SUBSET {"RST", "SYN", "ACK", "PSH", "FIN"}, len : 0 .. LenWords - 1]
    /\ Lengths \subseteq 0 .. (LenWords - SND_BUF_SIZE - 1)   \* callers have the bytes they name
    /\ IsFiniteSet(AddrBits)
    /\ Nets \subseteq SUBSET AddrBits /\ Masks \subseteq SUBSET AddrBits

VARIABLES sock,     \* the sockets
          sockets,  \* the list, from its head
          routes,   \* the table
          overrun,  \* a copy ran over a receive buffer
          sin, sout \* history: bytes accepted and delivered, by socket

SockVars == <<sock, sockets, routes, overrun, sin, sout>>

\* Numbers of bytes are counted modulo more than a buffer holds.
ByteNo == RCV_BUF_SIZE + 1

NewSock(type) ==
    [type |-> type, tcp |-> "CLOSED", lport |-> 0, laddr |-> 0, rport |-> 0, raddr |-> 0,
     recv |-> <<>>, send_len |-> 0, accept_queue |-> <<>>, refcount |-> 1]
FreeSock == [NewSock("none") EXCEPT !.refcount = 0]

\* The route of the loopback address, which stands for all bits set.
ip_init == routes = <<[net |-> AddrBits, mask |-> AddrBits]>>

socket_init ==
    /\ sock = [s \in SockIds |-> FreeSock]
    /\ sockets = <<>>
    /\ ip_init
    /\ overrun = FALSE
    /\ sin = [s \in SockIds |-> 0] /\ sout = [s \in SockIds |-> 0]

Live(s) == sock[s].refcount > 0

\* socket_create, also behind tcp_socket and udp_socket.
socket_create(type) ==
    LET s == CHOOSE x \in SockIds : ~Live(x) IN
    /\ \E x \in SockIds : ~Live(x)
    /\ sock' = [sock EXCEPT ![s] = NewSock(type)]
    /\ sockets' = <<s>> \o sockets
    /\ sin' = [sin EXCEPT ![s] = 0] /\ sout' = [sout EXCEPT ![s] = 0]
    /\ UNCHANGED routes

socket_bind(s, addr, port) ==
    /\ Live(s)
    /\ sock' = [sock EXCEPT ![s].laddr = addr, ![s].lport = port]
    /\ UNCHANGED <<sockets, routes, sin, sout>>

tcp_listen(s) ==
    /\ Live(s)
    /\ sock' = [sock EXCEPT ![s].tcp = "LISTEN", ![s].accept_queue = <<>>]
    /\ UNCHANGED <<sockets, routes, sin, sout>>

\* The first connection of the queue; without one, the call returns NULL at once.
\* At this commit nothing puts a connection into the queue.
tcp_accept(s) ==
    /\ Live(s) /\ sock[s].tcp = "LISTEN"
    /\ IF sock[s].accept_queue = <<>> THEN UNCHANGED sock
       ELSE LET new == Head(sock[s].accept_queue)
            IN  sock' = [sock EXCEPT ![s].accept_queue = Tail(@), ![new].tcp = "ESTABLISHED"]
    /\ UNCHANGED <<sockets, routes, sin, sout>>

tcp_connect(s, addr, port) ==
    sock' = [sock EXCEPT ![s].raddr = addr, ![s].rport = port, ![s].tcp = "SYN_SENT"]

socket_connect(s, addr, port) ==
    /\ Live(s)
    /\ IF sock[s].type = "STREAM" THEN tcp_connect(s, addr, port)
       ELSE sock' = [sock EXCEPT ![s].raddr = addr, ![s].rport = port]
    /\ UNCHANGED <<sockets, routes, sin, sout>>

\* What fits is appended; nothing empties the send buffer.
tcp_send(s, len) ==
    LET n == IF sock[s].send_len + len > SND_BUF_SIZE THEN SND_BUF_SIZE - sock[s].send_len ELSE len IN
    /\ Live(s) /\ sock[s].type = "STREAM" /\ sock[s].tcp \in {"ESTABLISHED", "CLOSE_WAIT"}
    /\ n # 0
    /\ sock' = [sock EXCEPT ![s].send_len = @ + n]
    /\ UNCHANGED <<sockets, routes, sin, sout>>

\* The first bytes go out, and the rest moves to the front.
Deliver(s, len) ==
    LET old == sock[s].recv
        n   == IF len > Len(old) THEN Len(old) ELSE len IN
    /\ Live(s) /\ old # <<>>
    /\ sock' = [sock EXCEPT ![s].recv = [k \in 1 .. (Len(old) - n) |-> old[n + k]]]
    /\ sout' = [sout EXCEPT ![s] = (@ + n) % ByteNo]
    /\ UNCHANGED <<sockets, routes, sin>>

tcp_recv(s, len) == sock[s].type = "STREAM" /\ Deliver(s, len)
udp_recvfrom(s, len) == sock[s].type = "DGRAM" /\ Deliver(s, len)

socket_recv(s, len) == tcp_recv(s, len) \/ udp_recvfrom(s, len)

\* refcount is 1 in every live socket: a close is the last one.
socket_close(s) ==
    /\ Live(s)
    /\ sock' = [sock EXCEPT ![s] = FreeSock]
    /\ sockets' = Without(sockets, s)
    /\ UNCHANGED <<routes, sin, sout>>

\* tcp_close sets the state that a closing socket would have, and then closes it.
tcp_close(s) == sock[s].type = "STREAM" /\ socket_close(s)
-----------------------------------------------------------------------------
\* socket_lookup as tcp_rx and udp_rx call it, with zero addresses: the first match.
socket_lookup(dport, sport) ==
    LET match(s) == /\ sock[s].lport = dport /\ sock[s].laddr = 0
                    /\ sport = 0 \/ (sock[s].rport = sport /\ sock[s].raddr = 0)
    IN  Keep(sockets, {i \in DOMAIN sockets : match(sockets[i])})

\* The test for room, in the width of the code.
Fits(s, n) == (Len(sock[s].recv) + n) % LenWords <= RCV_BUF_SIZE

\* The test passes and the copy does not fit.
RunsOver(s, n) == Fits(s, n) /\ Len(sock[s].recv) + n > RCV_BUF_SIZE

\* Mutant: a segment that does not fit is put in as far as it fits, and counted whole.
Accepted_cut(s, n) ==
    LET fits == IF Fits(s, n) THEN n ELSE RCV_BUF_SIZE - Len(sock[s].recv)
    IN  [recv |-> sock[s].recv \o [k \in 1 .. fits |-> (sin[s] + k - 1) % ByteNo], n |-> n]

\* The data of a segment, all of it or, when the test fails, none.
Accepted(s, n) ==
    IF Fits(s, n)
    THEN [recv |-> sock[s].recv \o [k \in 1 .. n |-> (sin[s] + k - 1) % ByteNo], n |-> n]
    ELSE [recv |-> sock[s].recv, n |-> 0]

\* The state after the flags, in the order in which tcp_rx looks at them.
TcpState(state, flags) ==
    CASE "RST" \in flags -> "CLOSED"
      [] "RST" \notin flags /\ "FIN" \in flags -> "CLOSE_WAIT"
      [] "RST" \notin flags /\ "FIN" \notin flags /\ "SYN" \in flags -> "SYN_RECEIVED"
      [] OTHER -> state

\* Socket s takes n bytes into its buffer, unless they run over it, and goes to state.
Take(s, n, state) ==
    LET got == Accepted(s, n) IN
    \/ /\ ~RunsOver(s, n)
       /\ sock' = [sock EXCEPT ![s].tcp = state, ![s].recv = got.recv]
       /\ sin' = [sin EXCEPT ![s] = (@ + got.n) % ByteNo]
       /\ UNCHANGED <<sockets, routes, sout, overrun>>
    \/ /\ RunsOver(s, n)
       /\ overrun' = TRUE
       /\ UNCHANGED <<sock, sockets, routes, sin, sout>>

\* Data comes with PSH, and a reset is looked at before it.
tcp_rx(seg) ==
    LET found == socket_lookup(seg.dport, seg.sport)
        s == Head(found)
        n == IF "PSH" \in seg.flags /\ "RST" \notin seg.flags THEN seg.len ELSE 0
    IN  /\ seg.proto = "TCP" /\ found # <<>>
        /\ Take(s, n, TcpState(sock[s].tcp, seg.flags))

udp_rx(seg) ==
    LET found == socket_lookup(seg.dport, seg.sport)
        s == Head(found)
    IN  /\ seg.proto = "UDP" /\ found # <<>>
        /\ Take(s, seg.len, sock[s].tcp)

ip_rx(seg) == tcp_rx(seg) \/ udp_rx(seg)
-----------------------------------------------------------------------------
route_add(net, mask) ==
    /\ Len(routes) < MAX_ROUTES
    /\ routes' = Append(routes, [net |-> net, mask |-> mask])
    /\ UNCHANGED <<sock, sockets, sin, sout>>

\* The first route of the network goes, and those behind it move up.
route_del(net, mask) ==
    LET at == {i \in DOMAIN routes : routes[i].net = net /\ routes[i].mask = mask}
        i  == CHOOSE k \in at : \A j \in at : k <= j IN
    /\ at # {}
    /\ routes' = [k \in 1 .. (Len(routes) - 1) |-> IF k < i THEN routes[k] ELSE routes[k + 1]]
    /\ UNCHANGED <<sock, sockets, sin, sout>>

Matches(r, addr) == addr \cap r.mask = r.net

\* Mutant: the search starts with length 0, and a default route never wins.
route_lookup_zero(addr) ==
    LET best[i \in 0 .. Len(routes)] ==
            IF i = 0 THEN [route |-> NoRoute, len |-> 0]
            ELSE LET r == routes[i]
                     n == Cardinality(r.mask)
                 IN  IF Matches(r, addr) /\ n > best[i - 1].len THEN [route |-> r, len |-> n] ELSE best[i - 1]
    IN  best[Len(routes)].route

\* The loop over the table, with the bits of the mask as the prefix length.
route_lookup(addr) ==
    LET best[i \in 0 .. Len(routes)] ==
            IF i = 0 THEN [route |-> NoRoute, len |-> -1]
            ELSE LET r == routes[i]
                     n == Cardinality(r.mask)
                 IN  IF Matches(r, addr) /\ n > best[i - 1].len THEN [route |-> r, len |-> n] ELSE best[i - 1]
    IN  best[Len(routes)].route

\* The calls that tasks make.
SockCall ==
    \/ \E type \in {"STREAM", "DGRAM"} : socket_create(type)
    \/ \E s \in SockIds :
          \/ \E to \in Binds : socket_bind(s, to[1], to[2])
          \/ \E to \in Peers : socket_connect(s, to[1], to[2])
          \/ tcp_listen(s) \/ tcp_accept(s) \/ socket_close(s) \/ tcp_close(s)
          \/ \E len \in Lengths : tcp_send(s, len) \/ socket_recv(s, len)

SockNext ==
    /\ ~overrun
    /\ (SockCall /\ UNCHANGED overrun) \/ \E seg \in Segments : ip_rx(seg)

RouteNext ==
    /\ ~overrun /\ UNCHANGED overrun
    /\ \E net \in Nets, mask \in Masks : route_add(net, mask) \/ route_del(net, mask)
-----------------------------------------------------------------------------
\* Segments of every length, those that the code computes wrongly too, and reads in any
\* order: until a copy runs over its buffer, a socket's buffer holds exactly the bytes
\* that it accepted and did not deliver yet, in the order of their arrival, and no more
\* than fit; a segment is put in whole or not at all.
StreamInOrder ==
    ~overrun => \A s \in SockIds : Live(s) =>
        /\ Len(sock[s].recv) = (sin[s] - sout[s]) % ByteNo
        /\ \A k \in DOMAIN sock[s].recv : sock[s].recv[k] = (sout[s] + k - 1) % ByteNo

\* For every address and every table that additions and removals can leave, the
\* route found matches, and no matching route is longer; none is found only when
\* none matches.
RouteIsLongest ==
    \A addr \in SUBSET AddrBits :
        LET match == {routes[i] : i \in {j \in DOMAIN routes : Matches(routes[j], addr)}}
            r     == route_lookup(addr)
        IN  IF match = {} THEN r = NoRoute
            ELSE r \in match /\ \A o \in match : Cardinality(o.mask) <= Cardinality(r.mask)
=============================================================================
