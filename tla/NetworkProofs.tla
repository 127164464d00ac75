--------------------------- MODULE NetworkProofs ---------------------------
(***************************************************************************)
(* The safety properties of module Network for every number of hosts,      *)
(* cache entries, sockets and ports, and whatever the peers send.          *)
(***************************************************************************)
EXTENDS Network, NaturalsInduction, WellFoundedInduction, TLAPS

Addr == Hosts \cup {None}
Slots == 1 .. ARP_CACHE_SIZE

\* socket_t and the network's data with no limit on the tokens of a semaphore: between
\* the steps of a handler only the guard of the action bounds them.
Socket == [type : {"DGRAM", "STREAM"}, in_use : BOOLEAN, local : Nat, remote : Addr,
           state : {"CLOSED", "SYN_SENT", "ESTABLISHED"}, rx : BOOLEAN, rx_sem : Nat]
Packet == [kind : {"echo_req", "syn"}, mac : Addr, ip : Addr, id : Nat]
NetData == [arp : [Slots -> arp_entry_t], now : 0 .. MaxTick, sent : SUBSET Packet,
            heard : SUBSET (Hosts \X Nat), answers : [Socks -> SUBSET (Hosts \X Nat)],
            ping_id : Nat, reply : BOOLEAN, ping_sem : Nat,
            eph : EPHEMERAL[1] .. EPHEMERAL[2], sockets : [Socks -> Socket]]

\* What a step leaves of n in r, field by field.
SameArp(n, r) == r.arp = n.arp /\ r.now = n.now
SameSent(n, r) == r.sent = n.sent /\ r.heard = n.heard /\ r.answers = n.answers
SamePing(n, r) == r.ping_id = n.ping_id /\ r.reply = n.reply /\ r.ping_sem = n.ping_sem
SameSockets(n, r) == r.eph = n.eph /\ r.sockets = n.sockets

---------------------------------------------------------------------------
\* Lemmas about the operators.

\* The least element of a nonempty set of natural numbers is one of its elements.
LEMMA MinIn == ASSUME NEW S \in SUBSET Nat, S # {} PROVE Min(S) \in S
<1>1. PICK p \in S : \A q \in S : ~(<<q, p>> \in OpToRel(<, Nat))
  BY NatLessThanWellFounded, WFMin
<1>2. ASSUME NEW q \in S PROVE p <= q
  <2>1. p \in Nat /\ q \in Nat /\ ~(q < p)
    BY <1>1, ZenonT(60) DEF OpToRel
  <2> QED BY <2>1
<1> QED BY <1>1, <1>2 DEF Min

\* One field of the data replaced.
LEMMA SetFields ==
  ASSUME NEW n \in NetData
  PROVE  /\ \A x \in [Slots -> arp_entry_t] : [n EXCEPT !.arp = x] \in NetData
         /\ \A x \in SUBSET Packet : [n EXCEPT !.sent = x] \in NetData
         /\ \A x \in SUBSET (Hosts \X Nat) : [n EXCEPT !.heard = x] \in NetData
         /\ \A x \in [Socks -> SUBSET (Hosts \X Nat)] : [n EXCEPT !.answers = x] \in NetData
         /\ \A x \in [Socks -> Socket] : [n EXCEPT !.sockets = x] \in NetData
BY Zenon DEF NetData

LEMMA FieldTypes ==
  ASSUME NEW n \in NetData
  PROVE  /\ n.arp \in [Slots -> arp_entry_t] /\ n.now \in 0 .. MaxTick
         /\ n.sent \in SUBSET Packet /\ n.heard \in SUBSET (Hosts \X Nat)
         /\ n.answers \in [Socks -> SUBSET (Hosts \X Nat)]
         /\ n.ping_id \in Nat /\ n.reply \in BOOLEAN /\ n.ping_sem \in Nat
         /\ n.eph \in EPHEMERAL[1] .. EPHEMERAL[2] /\ n.sockets \in [Socks -> Socket]
BY DEF NetData

LEMMA SockTypes ==
  ASSUME NEW s \in Socket
  PROVE  /\ s.type \in {"DGRAM", "STREAM"} /\ s.in_use \in BOOLEAN /\ s.local \in Nat
         /\ s.remote \in Addr /\ s.state \in {"CLOSED", "SYN_SENT", "ESTABLISHED"}
         /\ s.rx \in BOOLEAN /\ s.rx_sem \in Nat
BY DEF Socket

\* The valid entries of the cache map a host to itself.
CacheOK(n) == \A i \in Slots : n.arp[i].valid => n.arp[i].mac = n.arp[i].ip

\* A hit is the owner of the address.
LEMMA LookupOwner ==
  ASSUME NEW n \in NetData, CacheOK(n), NEW ip \in Addr
  PROVE  arp_cache_lookup(n, ip) \in {None, ip}
<1> DEFINE hits == {i \in 1 .. ARP_CACHE_SIZE : n.arp[i].valid /\ n.arp[i].ip = ip}
<1>1. CASE hits = {}
  BY <1>1 DEF arp_cache_lookup
<1>2. CASE hits # {}
  <2>1. hits \in SUBSET Nat
    BY NetworkAssumption
  <2>2. Min(hits) \in hits
    BY <1>2, <2>1, MinIn
  <2> QED BY <1>2, <2>2, ZenonT(60) DEF arp_cache_lookup, CacheOK, Slots
<1> QED BY <1>1, <1>2

\* net_ethernet_send_ip: nothing but sent changes, and what is added to it is
\* addressed to its owner.
LEMMA SendIp ==
  ASSUME NEW n \in NetData, CacheOK(n), NEW ip \in Addr, NEW kind, NEW id \in Nat
  PROVE  LET r == net_ethernet_send_ip(n, ip, kind, id).n
             f == [kind |-> kind, mac |-> ip, ip |-> ip, id |-> id]
         IN  /\ r \in NetData
             /\ SameArp(n, r) /\ SamePing(n, r) /\ SameSockets(n, r)
             /\ r.heard = n.heard /\ r.answers = n.answers
             /\ \/ r = n
                \/ kind \in {"echo_req", "syn"} /\ r.sent = n.sent \cup {f}
<1> DEFINE mac == arp_cache_lookup(n, ip)
           f == [kind |-> kind, mac |-> mac, ip |-> ip, id |-> id]
           r == net_ethernet_send_ip(n, ip, kind, id).n
<1> USE DEF SameArp, SamePing, SameSockets
<1>1. mac \in {None, ip}
  BY LookupOwner
<1>2. CASE mac = None
  BY <1>2 DEF net_ethernet_send_ip, arp_send_request, net_driver_send
<1>3. CASE mac # None /\ kind \notin {"echo_req", "syn"}
  BY <1>3 DEF net_ethernet_send_ip, net_driver_send
<1>4. CASE mac # None /\ kind \in {"echo_req", "syn"}
  <2>1. mac = ip
    BY <1>1, <1>4
  <2>2. r = [n EXCEPT !.sent = n.sent \cup {f}]
    BY <1>4 DEF net_ethernet_send_ip, net_driver_send
  <2>3. f \in Packet
    BY <1>4, <2>1 DEF Packet
  <2>4. n.sent \cup {f} \in SUBSET Packet
    BY <2>3, FieldTypes
  <2>5. r \in NetData
    BY <2>2, <2>4, SetFields
  <2> QED BY <1>4, <2>1, <2>2, <2>5 DEF NetData
<1> QED BY <1>2, <1>3, <1>4

---------------------------------------------------------------------------
\* The frame handler.

Frame == [kind : {"arp_req", "arp_rep", "echo_req", "echo_rep", "udp", "synack", "psh"},
          src : Hosts, mac : Hosts \cup {Us, Bcast}, ip : Hosts \cup {Us}, id : Nat]

\* A socket s that takes frame f becomes t.
Delivered(s, t, f) ==
    /\ s.in_use /\ s.local = f.id
    /\ t.type = s.type /\ t.in_use = s.in_use /\ t.local = s.local
    /\ t.rx_sem = s.rx_sem + 1
    /\ \/ /\ f.kind = "udp" /\ s.type = "DGRAM"
          /\ t.state = s.state /\ t.remote = f.src /\ t.rx = TRUE
       \/ /\ f.kind \in {"synack", "psh"} /\ s.type = "STREAM" /\ s.remote = f.src
          /\ t.remote = s.remote /\ t.state = "ESTABLISHED"
          /\ \/ s.state = "SYN_SENT" /\ t.rx = s.rx
             \/ s.state = "ESTABLISHED" /\ t.rx = TRUE

\* All that the handler of frame f may do to n.
Effect(n, r, f) ==
    /\ r \in NetData
    /\ r.now = n.now /\ r.eph = n.eph /\ r.ping_id = n.ping_id
    /\ SameSent(n, r)
    /\ \/ r.arp = n.arp
       \/ \E i \in Slots : r.arp = [n.arp EXCEPT ![i] =
            [ip |-> f.src, mac |-> f.src, timestamp |-> n.now, valid |-> TRUE]]
    /\ \/ r.reply = n.reply
       \/ f.kind = "echo_rep" /\ f.id = n.ping_id /\ r.reply = TRUE
    /\ \/ r.sockets = n.sockets
       \/ \E i \in Socks :
            /\ Delivered(n.sockets[i], r.sockets[i], f)
            /\ \A j \in Socks \ {i} : r.sockets[j] = n.sockets[j]

LEMMA NoEffect == ASSUME NEW n \in NetData, NEW f PROVE Effect(n, n, f)
BY DEF Effect, SameSent

LEMMA ArpEffect ==
  ASSUME NEW n \in NetData, NEW f \in Frame PROVE Effect(n, arp_input(n, f), f)
<1> DEFINE slots == 1 .. ARP_CACHE_SIZE
           empty == {i \in slots : ~n.arp[i].valid}
           old   == {i \in slots : \A j \in slots : n.arp[i].timestamp <= n.arp[j].timestamp}
           at    == IF empty # {} THEN Min(empty) ELSE Min(old)
           e     == [ip |-> f.src, mac |-> f.src, timestamp |-> n.now, valid |-> TRUE]
           r     == [n EXCEPT !.arp = [n.arp EXCEPT ![at] = e]]
<1>1. arp_input(n, f) = r
  BY DEF arp_input, arp_cache_add, arp_send_reply, net_driver_send
<1>2. e \in arp_entry_t
  BY FieldTypes DEF arp_entry_t, Frame
<1>3. [n.arp EXCEPT ![at] = e] \in [Slots -> arp_entry_t]
  BY <1>2, FieldTypes, ZenonT(60)
<1>4. r \in NetData
  BY <1>3, SetFields, ZenonT(60)
<1>5. at \in Slots \/ [n.arp EXCEPT ![at] = e] = n.arp
  BY FieldTypes
<1> HIDE DEF at, e
<1>6. /\ r.now = n.now /\ r.eph = n.eph /\ r.ping_id = n.ping_id /\ r.reply = n.reply
      /\ r.sent = n.sent /\ r.heard = n.heard /\ r.answers = n.answers
      /\ r.sockets = n.sockets /\ r.arp = [n.arp EXCEPT ![at] = e]
  BY DEF NetData
<1> QED BY <1>1, <1>4, <1>5, <1>6, ZenonT(60) DEF Effect, SameSent, e

LEMMA IcmpEffect ==
  ASSUME NEW n \in NetData, CacheOK(n), NEW f \in Frame,
         f.kind \in {"echo_req", "echo_rep"}
  PROVE  Effect(n, icmp_input(n, f), f)
<1>1. CASE f.kind = "echo_req"
  <2>1. f.src \in Addr /\ f.id \in Nat
    BY DEF Frame, Addr
  <2>2. net_ethernet_send_ip(n, f.src, "echo_rep", f.id).n = n
    BY <2>1, SendIp
  <2> QED BY <1>1, <2>2, NoEffect DEF icmp_input
<1>2. CASE f.kind = "echo_rep" /\ f.id = n.ping_id
  <2> DEFINE k == n.ping_sem + 1
             r == [n EXCEPT !.reply = TRUE, !.ping_sem = k]
  <2>1. icmp_input(n, f) = r
    BY <1>2 DEF icmp_input
  <2>2. k \in Nat
    BY FieldTypes
  <2> HIDE DEF k
  <2>3. r \in NetData
    BY <2>2, Zenon DEF NetData
  <2>4. /\ r.now = n.now /\ r.eph = n.eph /\ r.ping_id = n.ping_id /\ r.arp = n.arp
        /\ r.sent = n.sent /\ r.heard = n.heard /\ r.answers = n.answers
        /\ r.sockets = n.sockets /\ r.reply = TRUE
    BY DEF NetData
  <2> QED BY <1>2, <2>1, <2>3, <2>4 DEF Effect, SameSent
<1>3. CASE f.kind = "echo_rep" /\ f.id # n.ping_id
  BY <1>3, NoEffect DEF icmp_input
<1> QED BY <1>1, <1>2, <1>3

LEMMA MatchingIn ==
  ASSUME NEW n \in NetData, NEW f, Matching(n, f) # {}
  PROVE  Min(Matching(n, f)) \in Matching(n, f)
<1>1. Matching(n, f) \in SUBSET Nat
  BY NetworkAssumption DEF Matching, Socks
<1> QED BY <1>1, MinIn

\* A handler that replaces one socket.
LEMMA DeliverEffect ==
  ASSUME NEW n \in NetData, NEW f, NEW i \in Socks, NEW t \in Socket,
         Delivered(n.sockets[i], t, f)
  PROVE  Effect(n, [n EXCEPT !.sockets[i] = t], f)
<1> DEFINE r == [n EXCEPT !.sockets = [n.sockets EXCEPT ![i] = t]]
<1>1. [n.sockets EXCEPT ![i] = t] \in [Socks -> Socket]
  BY FieldTypes
<1>2. r \in NetData
  BY <1>1, SetFields, ZenonT(60)
<1>3. /\ r.now = n.now /\ r.eph = n.eph /\ r.ping_id = n.ping_id /\ r.arp = n.arp
      /\ r.sent = n.sent /\ r.heard = n.heard /\ r.answers = n.answers
      /\ r.reply = n.reply /\ r.sockets = [n.sockets EXCEPT ![i] = t]
  BY DEF NetData
<1>4. r.sockets[i] = t /\ \A j \in Socks \ {i} : r.sockets[j] = n.sockets[j]
  BY <1>3, FieldTypes
<1>5. Effect(n, r, f)
  BY <1>2, <1>3, <1>4 DEF Effect, SameSent
<1> QED BY <1>5

LEMMA UdpEffect ==
  ASSUME NEW n \in NetData, NEW f \in Frame, f.kind = "udp"
  PROVE  Effect(n, net_udp_input(n, f), f)
<1>1. CASE Matching(n, f) = {}
  BY <1>1, NoEffect DEF net_udp_input
<1>2. CASE Matching(n, f) # {}
  <2> DEFINE i == Min(Matching(n, f))
             s == n.sockets[i]
             k == s.rx_sem + 1
             t == [s EXCEPT !.rx = TRUE, !.remote = f.src, !.rx_sem = k]
  <2>1. i \in Socks /\ s.in_use /\ s.local = f.id /\ s.type = "DGRAM"
    <3>1. i \in Matching(n, f)
      BY <1>2, MatchingIn
    <3> HIDE DEF i
    <3> QED BY <3>1 DEF Matching
  <2>2. s \in Socket
    BY <2>1, FieldTypes
  <2>3. net_udp_input(n, f) = [n EXCEPT !.sockets[i] = t]
    BY <1>2, <2>1, ZenonT(60) DEF net_udp_input, NetData
  <2>4. k \in Nat /\ f.src \in Addr
    BY <2>2, SockTypes DEF Frame, Addr
  <2> HIDE DEF i, s
  <2>5. /\ t.type = s.type /\ t.in_use = s.in_use /\ t.local = s.local /\ t.rx_sem = k
        /\ t.state = s.state /\ t.remote = f.src /\ t.rx = TRUE
    BY <2>2 DEF Socket
  <2> HIDE DEF k
  <2>6. t \in Socket
    BY <2>2, <2>4, Zenon DEF Socket
  <2>7. Delivered(s, t, f)
    BY <2>1, <2>5, ZenonT(60) DEF Delivered, k
  <2> QED BY <2>1, <2>3, <2>6, <2>7, DeliverEffect DEF s
<1> QED BY <1>1, <1>2

LEMMA TcpEffect ==
  ASSUME NEW n \in NetData, NEW f \in Frame, f.kind \in {"synack", "psh"}
  PROVE  Effect(n, net_tcp_input(n, f), f)
<1> DEFINE i == Min(Matching(n, f))
           s == n.sockets[i]
           k == s.rx_sem + 1
<1>1. CASE Matching(n, f) = {}
  BY <1>1, NoEffect DEF net_tcp_input
<1>2. CASE Matching(n, f) # {}
  <2>1. i \in Socks /\ s.in_use /\ s.local = f.id /\ s.type = "STREAM" /\ s.remote = f.src
    <3>1. i \in Matching(n, f)
      BY <1>2, MatchingIn
    <3> HIDE DEF i
    <3> QED BY <3>1 DEF Matching
  <2>2. s \in Socket /\ k \in Nat
    BY <2>1, FieldTypes, SockTypes
  <2>3. CASE s.state = "SYN_SENT"
    <3> DEFINE t == [s EXCEPT !.state = "ESTABLISHED", !.rx_sem = k]
    <3>1. net_tcp_input(n, f) = [n EXCEPT !.sockets[i] = t]
      BY <1>2, <2>1, <2>3, ZenonT(60) DEF net_tcp_input, NetData
    <3> HIDE DEF i, s
    <3>2. /\ t.type = s.type /\ t.in_use = s.in_use /\ t.local = s.local /\ t.rx_sem = k
          /\ t.state = "ESTABLISHED" /\ t.remote = s.remote /\ t.rx = s.rx
      BY <2>2 DEF Socket
    <3>3. Delivered(s, t, f)
      BY <2>1, <2>3, <3>2, ZenonT(60) DEF Delivered
    <3> HIDE DEF k
    <3>4. t \in Socket
      BY <2>2, Zenon DEF Socket
    <3> QED BY <2>1, <3>1, <3>3, <3>4, DeliverEffect DEF s
  <2>4. CASE s.state = "ESTABLISHED" /\ f.kind = "psh"
    <3> DEFINE t == [s EXCEPT !.rx = TRUE, !.rx_sem = k]
    <3>1. net_tcp_input(n, f) = [n EXCEPT !.sockets[i] = t]
      BY <1>2, <2>1, <2>4, ZenonT(60) DEF net_tcp_input, NetData
    <3> HIDE DEF i, s
    <3>2. /\ t.type = s.type /\ t.in_use = s.in_use /\ t.local = s.local /\ t.rx_sem = k
          /\ t.state = s.state /\ t.remote = s.remote /\ t.rx = TRUE
      BY <2>2 DEF Socket
    <3>3. Delivered(s, t, f)
      BY <2>1, <2>4, <3>2, ZenonT(60) DEF Delivered
    <3> HIDE DEF k
    <3>4. t \in Socket
      BY <2>2, Zenon DEF Socket
    <3> QED BY <2>1, <3>1, <3>3, <3>4, DeliverEffect DEF s
  <2>5. CASE s.state # "SYN_SENT" /\ ~(s.state = "ESTABLISHED" /\ f.kind = "psh")
    BY <1>2, <2>5, NoEffect DEF net_tcp_input
  <2> QED BY <2>3, <2>4, <2>5
<1> QED BY <1>1, <1>2

LEMMA InputEffect ==
  ASSUME NEW n \in NetData, CacheOK(n), NEW f \in Frame
  PROVE  Effect(n, net_ethernet_input(n, f), f)
<1>1. CASE f.mac \notin {Us, Bcast} \/ (f.kind \notin {"arp_req", "arp_rep"} /\ f.ip # Us)
  BY <1>1, NoEffect DEF net_ethernet_input, net_ip_input
<1>2. CASE f.mac \in {Us, Bcast} /\ f.kind \in {"arp_req", "arp_rep"}
  BY <1>2, ArpEffect DEF net_ethernet_input
<1>3. CASE f.mac \in {Us, Bcast} /\ f.ip = Us /\ f.kind \in {"echo_req", "echo_rep"}
  BY <1>3, IcmpEffect DEF net_ethernet_input, net_ip_input
<1>4. CASE f.mac \in {Us, Bcast} /\ f.ip = Us /\ f.kind = "udp"
  BY <1>4, UdpEffect DEF net_ethernet_input, net_ip_input
<1>5. CASE f.mac \in {Us, Bcast} /\ f.ip = Us /\ f.kind \in {"synack", "psh"}
  BY <1>5, TcpEffect DEF net_ethernet_input, net_ip_input
<1> QED BY <1>1, <1>2, <1>3, <1>4, <1>5 DEF Frame

---------------------------------------------------------------------------
\* The inductive invariant.

PingTask == [pc : {"idle", "wait", "polled", "taken"}, to : Addr, ok : BOOLEAN]
AppTask == [op : {"none", "socket", "connect", "recv"},
            pc : {"idle", "addr", "syn", "wait", "polled", "timeout", "taken", "copied"},
            s : Socks]

Places == {<<"none", "idle">>, <<"socket", "addr">>, <<"connect", "syn">>,
           <<"connect", "wait">>, <<"connect", "polled">>, <<"connect", "timeout">>,
           <<"recv", "wait">>, <<"recv", "polled">>, <<"recv", "taken">>, <<"recv", "copied">>}

Types ==
    /\ net \in NetData /\ ping \in PingTask /\ app \in AppTask
    /\ <<app.op, app.pc>> \in Places
    /\ net.ping_sem <= MaxPingSem
    /\ \A s \in Socks : net.sockets[s].rx_sem <= MaxSem

\* The request with the current number went to the host that is asked, and the flag
\* icmp_reply_received is set by nobody else.
PingInv ==
    /\ \A f \in net.sent : f.kind = "echo_req" =>
          f.id <= net.ping_id /\ (f.id = net.ping_id => f.ip = ping.to)
    /\ net.reply => <<ping.to, net.ping_id>> \in net.heard
    /\ ping.ok => net.reply

\* What holds of socket s with contents k and answers ans while the task is at a.  A
\* stream socket that is closed or connecting has a token for its connection besides
\* the one for its data: net_connect may take the first and must not take the other.
SockInv(s, k, a, ans) ==
    /\ a.s = s /\ a.op # "none" => k.in_use
    /\ a.s = s /\ a.op = "connect" => k.type = "STREAM"
    /\ a.s = s /\ a.op = "recv" => k.type = "DGRAM" \/ k.state = "ESTABLISHED"
    /\ a.s = s /\ (a.op = "socket" \/ (a.op = "connect" /\ a.pc = "syn")) => k.state = "CLOSED"
    /\ a.s = s /\ a.op = "connect" /\ a.pc # "syn" => k.state # "CLOSED"
    /\ k.in_use /\ k.rx /\ ~(a.op = "recv" /\ a.s = s /\ a.pc \in {"taken", "copied"})
          => k.rx_sem >= 1
    /\ /\ k.in_use /\ k.rx /\ k.type = "STREAM"
       /\ k.state = "CLOSED" \/ (a.op = "connect" /\ a.s = s)
       => k.rx_sem >= 2
    /\ a.op = "connect" /\ a.s = s /\ k.state = "ESTABLISHED" => k.rx_sem >= 1
    /\ k.in_use /\ k.type = "STREAM" /\ k.state = "ESTABLISHED" => <<k.remote, k.local>> \in ans

SocketsInv == \A s \in Socks : SockInv(s, net.sockets[s], app, net.answers[s])

IInv == Types /\ CacheOK(net) /\ SentToOwner /\ PingInv /\ SocketsInv

LEMMA Bounded ==
  ASSUME NEW k \in Socket, k.rx_sem \in 0 .. MaxSem PROVE k \in socket_t
<1>1. k = [type |-> k.type, in_use |-> k.in_use, local |-> k.local, remote |-> k.remote,
           state |-> k.state, rx |-> k.rx, rx_sem |-> k.rx_sem]
  BY DEF Socket
<1>2. [type |-> k.type, in_use |-> k.in_use, local |-> k.local, remote |-> k.remote,
       state |-> k.state, rx |-> k.rx, rx_sem |-> k.rx_sem] \in socket_t
  BY SockTypes DEF socket_t, Addr
<1> QED BY <1>1, <1>2

\* The invariant implies the properties.
LEMMA Implied == ASSUME IInv PROVE TypeOK /\ PingAnswered /\ NoStrandedData /\ EstablishedByPeer
<1>1. TypeOK
  <2>1. net.sockets \in [Socks -> Socket]
    BY FieldTypes DEF IInv, Types
  <2>2. ASSUME NEW s \in Socks PROVE net.sockets[s] \in socket_t
    <3>1. net.sockets[s].rx_sem \in 0 .. MaxSem
      BY <2>1, SockTypes, NetworkAssumption DEF IInv, Types
    <3>2. net.sockets[s] \in Socket
      BY <2>1
    <3> QED BY <3>1, <3>2, Bounded, Zenon
  <2>3. net.sockets \in [Socks -> socket_t]
    BY <2>1, <2>2
  <2>4. net.ping_sem \in 0 .. MaxPingSem
    BY FieldTypes, NetworkAssumption DEF IInv, Types
  <2> QED BY <2>3, <2>4, FieldTypes DEF IInv, Types, TypeOK, Slots
<1>2. PingAnswered
  BY DEF IInv, PingInv, PingAnswered
<1>3. NoStrandedData
  <2> SUFFICES ASSUME NEW s \in Socks, net.sockets[s].in_use /\ net.sockets[s].rx
               PROVE  net.sockets[s].rx_sem > 0
                      \/ (app.op = "recv" /\ app.s = s /\ app.pc \in {"taken", "copied"})
    BY DEF NoStrandedData
  <2>1. net.sockets[s].rx_sem \in Nat
    BY FieldTypes, SockTypes DEF IInv, Types
  <2>2. \/ net.sockets[s].rx_sem >= 1
        \/ app.op = "recv" /\ app.s = s /\ app.pc \in {"taken", "copied"}
    BY Zenon DEF IInv, SocketsInv, SockInv
  <2> QED BY <2>1, <2>2
<1>4. EstablishedByPeer
  BY DEF IInv, SocketsInv, SockInv, EstablishedByPeer
<1> QED BY <1>1, <1>2, <1>3, <1>4

LEMMA InitOK == ASSUME Init PROVE IInv
<1> DEFINE k == [type |-> "STREAM", in_use |-> FALSE, local |-> 0, remote |-> None,
                 state |-> "CLOSED", rx |-> FALSE, rx_sem |-> 0]
           e == [ip |-> None, mac |-> None, timestamp |-> 0, valid |-> FALSE]
<1>1. k \in Socket /\ e \in arp_entry_t
  BY NetworkAssumption DEF Socket, arp_entry_t, Addr
<1>2. 1 \in Socks /\ EPHEMERAL[1] \in EPHEMERAL[1] .. EPHEMERAL[2] /\ 0 \in 0 .. MaxTick
  BY NetworkAssumption DEF Socks
<1>3. /\ net.arp = [i \in Slots |-> e] /\ net.sent = {} /\ net.reply = FALSE
      /\ net.ping_sem = 0 /\ net.sockets = [i \in Socks |-> k]
  BY DEF Init, net_init, Slots
<1>4. net \in NetData
  BY <1>1, <1>2 DEF Init, net_init, NetData, Slots
<1>5. ping \in PingTask /\ app \in AppTask /\ <<app.op, app.pc>> \in Places /\ ping.ok = FALSE
  BY <1>2 DEF Init, Idle, PingTask, AppTask, Places, Addr
<1>6. Types
  BY <1>3, <1>4, <1>5, NetworkAssumption DEF Types
<1>7. CacheOK(net) /\ SentToOwner /\ PingInv
  BY <1>3, <1>5 DEF CacheOK, SentToOwner, PingInv
<1>8. SocketsInv
  BY <1>3 DEF SocketsInv, SockInv, Init, Idle
<1> QED BY <1>6, <1>7, <1>8 DEF IInv

---------------------------------------------------------------------------
\* The network task.

\* What may arrive from h: an echo reply answers a request that was sent to h.
LEMMA Arriving ==
  ASSUME IInv, NEW h \in Hosts, NEW f \in FromPeer(h)
  PROVE  /\ f \in Frame /\ f.src = h
         /\ f.kind = "echo_rep" =>
               \E g \in net.sent : g.kind = "echo_req" /\ g.mac = h /\ g.id = f.id
<1>1. \A g \in net.sent : g.id \in Nat
  BY FieldTypes DEF IInv, Types, Packet
<1>2. Ports \subseteq Nat
  BY NetworkAssumption
<1> QED BY <1>1, <1>2, SMTT(30) DEF FromPeer, Frame

\* The answer in f is noted; nothing else changes.
LEMMA HeardEffect ==
  ASSUME net \in NetData, NEW f \in Frame
  PROVE  LET n == Heard(f)
         IN  /\ n \in NetData
             /\ SameArp(net, n) /\ SamePing(net, n) /\ SameSockets(net, n)
             /\ n.sent = net.sent
             /\ net.heard \subseteq n.heard
             /\ f.kind = "echo_rep" => <<f.src, f.id>> \in n.heard
             /\ \A s \in Socks :
                   /\ net.answers[s] \subseteq n.answers[s]
                   /\ f.kind \in {"synack", "psh"} => <<f.src, f.id>> \in n.answers[s]
<1> USE DEF SameArp, SamePing, SameSockets
<1>1. <<f.src, f.id>> \in Hosts \X Nat
  BY DEF Frame
<1>2. CASE f.kind = "echo_rep"
  <2> DEFINE x == net.heard \cup {<<f.src, f.id>>}
  <2>1. x \in SUBSET (Hosts \X Nat)
    BY <1>1, FieldTypes
  <2>2. Heard(f) = [net EXCEPT !.heard = x]
    BY <1>2 DEF Heard
  <2>3. Heard(f) \in NetData
    BY <2>1, <2>2, SetFields
  <2> QED BY <1>2, <2>2, <2>3 DEF NetData
<1>3. CASE f.kind \in {"synack", "psh"}
  <2> DEFINE x == [s \in Socks |-> net.answers[s] \cup {<<f.src, f.id>>}]
  <2>1. x \in [Socks -> SUBSET (Hosts \X Nat)]
    BY <1>1, FieldTypes
  <2>2. Heard(f) = [net EXCEPT !.answers = x]
    BY <1>3 DEF Heard
  <2>3. \A s \in Socks : net.answers[s] \subseteq x[s] /\ <<f.src, f.id>> \in x[s]
    OBVIOUS
  <2> HIDE DEF x
  <2>4. Heard(f) \in NetData
    BY <2>1, <2>2, SetFields
  <2>5. Heard(f).answers = x
    BY <2>2 DEF NetData
  <2> QED BY <1>3, <2>2, <2>3, <2>4, <2>5 DEF NetData
<1>4. CASE f.kind \notin {"echo_rep", "synack", "psh"}
  BY <1>4 DEF Heard
<1> QED BY <1>2, <1>3, <1>4

\* A delivered frame keeps what holds of its socket, wherever the task is.
LEMMA DeliveredInv ==
  ASSUME NEW s, NEW k \in Socket, NEW t \in Socket, NEW a \in AppTask, NEW ans, NEW more,
         NEW f, SockInv(s, k, a, ans), Delivered(k, t, f),
         ans \subseteq more,
         f.kind \in {"synack", "psh"} => <<f.src, f.id>> \in more
  PROVE  SockInv(s, t, a, more)
<1>1. k.rx_sem \in Nat
  BY SockTypes
<1>2. CASE f.kind = "udp"
  BY <1>1, <1>2 DEF SockInv, Delivered
<1>3. CASE f.kind \in {"synack", "psh"} /\ k.state = "SYN_SENT"
  BY <1>1, <1>3 DEF SockInv, Delivered
<1>4. CASE f.kind \in {"synack", "psh"} /\ k.state = "ESTABLISHED"
  BY <1>1, <1>4 DEF SockInv, Delivered
<1> QED BY <1>2, <1>3, <1>4 DEF Delivered

LEMMA NetworkTaskStep == ASSUME IInv, NetworkTask PROVE IInv'
<1>1. PICK h \in Hosts : \E f \in FromPeer(h) :
        LET new == net_ethernet_input(Heard(f), f)
        IN  /\ new.ping_sem <= MaxPingSem /\ \A i \in Socks : new.sockets[i].rx_sem <= MaxSem
            /\ net' = new
            /\ UNCHANGED <<ping, app, calls>>
  BY DEF NetworkTask
<1>2. PICK f \in FromPeer(h) :
        /\ net' = net_ethernet_input(Heard(f), f)
        /\ net'.ping_sem <= MaxPingSem /\ \A i \in Socks : net'.sockets[i].rx_sem <= MaxSem
        /\ UNCHANGED <<ping, app, calls>>
  BY <1>1
<1> DEFINE n == Heard(f)
<1>3. /\ f \in Frame /\ f.src = h
      /\ f.kind = "echo_rep" =>
            \E g \in net.sent : g.kind = "echo_req" /\ g.mac = h /\ g.id = f.id
  BY Arriving
<1>4. /\ n \in NetData
      /\ n.arp = net.arp /\ n.ping_id = net.ping_id /\ n.reply = net.reply
      /\ n.sockets = net.sockets /\ n.sent = net.sent
      /\ net.heard \subseteq n.heard
      /\ f.kind = "echo_rep" => <<f.src, f.id>> \in n.heard
      /\ \A s \in Socks :
            /\ net.answers[s] \subseteq n.answers[s]
            /\ f.kind \in {"synack", "psh"} => <<f.src, f.id>> \in n.answers[s]
  BY <1>3, HeardEffect DEF IInv, Types, SameArp, SamePing, SameSockets
<1>5. Effect(n, net', f)
  BY <1>2, <1>3, <1>4, InputEffect DEF IInv, CacheOK
<1> HIDE DEF n
<1>6. Types'
  BY <1>2, <1>5 DEF IInv, Types, Effect
<1>7. CacheOK(net)'
  <2>1. n.arp \in [Slots -> arp_entry_t]
    BY <1>4, FieldTypes
  <2>2. CASE net'.arp = n.arp
    BY <1>4, <2>2 DEF IInv, CacheOK
  <2>3. ASSUME NEW i \in Slots, net'.arp = [n.arp EXCEPT ![i] =
               [ip |-> f.src, mac |-> f.src, timestamp |-> n.now, valid |-> TRUE]]
        PROVE  CacheOK(net)'
    <3> SUFFICES ASSUME NEW j \in Slots, net'.arp[j].valid
                 PROVE  net'.arp[j].mac = net'.arp[j].ip
      BY DEF CacheOK
    <3>1. CASE j = i
      BY <2>1, <2>3, <3>1
    <3>2. CASE j # i
      <4>1. net'.arp[j] = net.arp[j]
        BY <1>4, <2>1, <2>3, <3>2
      <4> QED BY <4>1 DEF IInv, CacheOK
    <3> QED BY <3>1, <3>2
  <2> QED BY <1>5, <2>2, <2>3, ZenonT(60) DEF Effect
<1>8. SentToOwner'
  BY <1>4, <1>5 DEF IInv, SentToOwner, Effect, SameSent
<1>9. PingInv'
  <2>1. /\ net'.sent = net.sent /\ net'.ping_id = net.ping_id /\ net'.heard = n.heard
        /\ ping' = ping
    BY <1>2, <1>4, <1>5 DEF Effect, SameSent
  <2>2. CASE net'.reply = net.reply
    BY <1>4, <2>1, <2>2 DEF IInv, PingInv
  <2>3. CASE f.kind = "echo_rep" /\ f.id = net.ping_id /\ net'.reply = TRUE
    <3>1. PICK g \in net.sent : g.kind = "echo_req" /\ g.mac = h /\ g.id = f.id
      BY <1>3, <2>3
    <3>2. g.ip = h /\ g.ip = ping.to
      BY <2>3, <3>1 DEF IInv, SentToOwner, PingInv
    <3>3. <<ping.to, net.ping_id>> \in n.heard
      BY <1>3, <1>4, <2>3, <3>2
    <3> QED BY <2>1, <2>3, <3>3 DEF IInv, PingInv
  <2> QED BY <1>4, <1>5, <2>2, <2>3, ZenonT(60) DEF Effect
<1>10. SocketsInv'
  <2> SUFFICES ASSUME NEW s \in Socks
               PROVE  SockInv(s, net'.sockets[s], app', net'.answers[s])
    BY DEF SocketsInv
  <2>1. SockInv(s, net.sockets[s], app, net.answers[s])
    BY DEF IInv, SocketsInv
  <2>2. net'.answers = n.answers /\ app' = app
    BY <1>2, <1>5 DEF Effect, SameSent
  <2>3. net.sockets[s] \in Socket /\ net'.sockets[s] \in Socket /\ app \in AppTask
    <3>1. net'.sockets \in [Socks -> Socket] /\ net.sockets \in [Socks -> Socket]
      BY <1>5, FieldTypes DEF IInv, Types, Effect
    <3> QED BY <3>1 DEF IInv, Types
  <2>4. CASE net'.sockets[s] = net.sockets[s]
    BY <1>4, <2>1, <2>2, <2>4 DEF SockInv
  <2>5. CASE Delivered(net.sockets[s], net'.sockets[s], f)
    <3>1. /\ net.answers[s] \subseteq net'.answers[s]
          /\ f.kind \in {"synack", "psh"} => <<f.src, f.id>> \in net'.answers[s]
      BY <1>4, <2>2
    <3> DEFINE k == net.sockets[s]
               t == net'.sockets[s]
               ans == net.answers[s]
               more == net'.answers[s]
    <3> HIDE DEF k, t, ans, more
    <3>2. /\ k \in Socket /\ t \in Socket /\ app \in AppTask
          /\ SockInv(s, k, app, ans) /\ Delivered(k, t, f)
          /\ ans \subseteq more
          /\ f.kind \in {"synack", "psh"} => <<f.src, f.id>> \in more
      BY <2>1, <2>3, <2>5, <3>1 DEF k, t, ans, more
    <3>3. SockInv(s, t, app, more)
      BY <3>2, DeliveredInv, Zenon
    <3> QED BY <2>2, <3>3 DEF t, more
  <2> QED BY <1>4, <1>5, <2>4, <2>5 DEF Effect
<1> QED BY <1>6, <1>7, <1>8, <1>9, <1>10 DEF IInv

---------------------------------------------------------------------------
\* The other steps.

\* A socket the task is not at: it does not matter where the task is.
LEMMA Elsewhere ==
  ASSUME NEW s, NEW k, NEW ans, NEW a, NEW b, SockInv(s, k, a, ans),
         a.s # s \/ a.op = "none", b.s # s \/ b.op = "none"
  PROVE  SockInv(s, k, b, ans)
BY DEF SockInv

\* Only the tasks move, or data no invariant mentions changes.
LEMMA PingKept ==
  ASSUME IInv, UNCHANGED ping, net'.arp = net.arp, net'.sent = net.sent,
         net'.heard = net.heard, net'.ping_id = net.ping_id, net'.reply = net.reply
  PROVE  CacheOK(net)' /\ SentToOwner' /\ PingInv'
BY DEF IInv, CacheOK, SentToOwner, PingInv

LEMMA SocketsKept ==
  ASSUME IInv, UNCHANGED app, net'.sockets = net.sockets, net'.answers = net.answers
  PROVE  SocketsInv'
BY DEF IInv, SocketsInv

\* The task replaces the socket it is at.
LEMMA SetStep ==
  ASSUME IInv, NEW i \in Socks, NEW k \in Socket, k.rx_sem <= MaxSem, Set(i, k), UNCHANGED ping,
         app' \in AppTask, <<app'.op, app'.pc>> \in Places,
         app.s = i \/ app.op = "none", app'.s = i \/ app'.op = "none",
         SockInv(i, net.sockets[i], app, net.answers[i]) => SockInv(i, k, app', net.answers[i])
  PROVE  IInv'
<1>1. net \in NetData /\ net.sockets \in [Socks -> Socket]
  BY FieldTypes DEF IInv, Types
<1>2. net' = [net EXCEPT !.sockets = [net.sockets EXCEPT ![i] = k]]
  BY DEF Set
<1>3. [net.sockets EXCEPT ![i] = k] \in [Socks -> Socket]
  BY <1>1
<1>4. net' \in NetData
  BY <1>1, <1>2, <1>3, SetFields
<1>5. /\ net'.arp = net.arp /\ net'.sent = net.sent /\ net'.heard = net.heard
      /\ net'.answers = net.answers /\ net'.ping_id = net.ping_id
      /\ net'.reply = net.reply /\ net'.ping_sem = net.ping_sem
      /\ net'.sockets = [net.sockets EXCEPT ![i] = k]
  BY <1>1, <1>2 DEF NetData
<1>6. net'.sockets[i] = k /\ \A j \in Socks \ {i} : net'.sockets[j] = net.sockets[j]
  BY <1>1, <1>5
<1>7. Types'
  <2>1. ASSUME NEW s \in Socks PROVE net'.sockets[s].rx_sem <= MaxSem
    BY <1>6 DEF IInv, Types
  <2> QED BY <1>4, <1>5, <2>1 DEF IInv, Types
<1>8. ASSUME NEW s \in Socks PROVE SockInv(s, net'.sockets[s], app', net'.answers[s])
  <2>1. SockInv(s, net.sockets[s], app, net.answers[s])
    BY DEF IInv, SocketsInv
  <2>2. CASE s = i
    BY <1>5, <1>6, <2>1, <2>2
  <2>3. CASE s # i
    <3>1. SockInv(s, net.sockets[s], app', net.answers[s])
      BY <2>1, <2>3, Elsewhere
    <3> QED BY <1>5, <1>6, <2>3, <3>1
  <2> QED BY <2>2, <2>3
<1>9. SocketsInv'
  BY <1>8 DEF SocketsInv
<1> QED BY <1>5, <1>7, <1>9, PingKept DEF IInv

LEMMA TickStep == ASSUME IInv, Tick PROVE IInv'
<1> DEFINE k == net.now + 1
<1>1. net \in NetData /\ k \in 0 .. MaxTick /\ net' = [net EXCEPT !.now = k]
  BY FieldTypes, NetworkAssumption DEF IInv, Types, Tick
<1> HIDE DEF k
<1>2. net' \in NetData
  BY <1>1, Zenon DEF NetData
<1>3. /\ net'.arp = net.arp /\ net'.sent = net.sent /\ net'.heard = net.heard
      /\ net'.answers = net.answers /\ net'.ping_id = net.ping_id
      /\ net'.reply = net.reply /\ net'.ping_sem = net.ping_sem
      /\ net'.sockets = net.sockets
  BY <1>1 DEF NetData
<1>4. Types'
  BY <1>2, <1>3 DEF IInv, Types, Tick
<1> QED BY <1>3, <1>4, PingKept, SocketsKept DEF Tick, IInv

LEMMA PingStep == ASSUME IInv, NEW h \in Hosts, net_ping(h) PROVE IInv'
<1> DEFINE k == net.ping_id + 1
           n == [net EXCEPT !.ping_id = k, !.reply = FALSE, !.heard = {}]
           t == net_ethernet_send_ip(n, h, "echo_req", k)
           f == [kind |-> "echo_req", mac |-> h, ip |-> h, id |-> k]
<1>1. net \in NetData /\ k \in Nat /\ h \in Addr /\ net.ping_id \in Nat
  BY FieldTypes DEF IInv, Types, Addr
<1>2. n.ping_id = k /\ net' = t.n /\ app' = app
      /\ ping' = [pc |-> IF t.r THEN "wait" ELSE "idle", to |-> h, ok |-> FALSE]
  BY <1>1 DEF net_ping, NetData
<1>3. n \in NetData
  <2> HIDE DEF k
  <2> QED BY <1>1, Zenon DEF NetData
<1>4. /\ n.arp = net.arp /\ n.sent = net.sent /\ n.heard = {} /\ n.answers = net.answers
      /\ n.reply = FALSE /\ n.ping_sem = net.ping_sem /\ n.sockets = net.sockets
  <2> HIDE DEF k
  <2> QED BY <1>1 DEF NetData
<1> HIDE DEF n, k
<1>5. CacheOK(n)
  BY <1>4 DEF IInv, CacheOK
<1>6. /\ net' \in NetData /\ net'.arp = net.arp /\ net'.ping_id = k /\ net'.reply = FALSE
      /\ net'.ping_sem = net.ping_sem /\ net'.sockets = net.sockets
      /\ net'.answers = net.answers /\ net'.heard = {}
      /\ net'.sent = net.sent \/ net'.sent = net.sent \cup {f}
  BY <1>1, <1>2, <1>3, <1>4, <1>5, SendIp DEF SameArp, SamePing, SameSockets
<1>7. ping' \in PingTask /\ ping'.to = h /\ ping'.ok = FALSE
  BY <1>1, <1>2 DEF PingTask
<1>8. Types'
  BY <1>2, <1>6, <1>7 DEF IInv, Types
<1>9. CacheOK(net)'
  BY <1>6 DEF IInv, CacheOK
<1>10. SentToOwner'
  BY <1>6 DEF IInv, SentToOwner
<1>11. PingInv'
  <2> SUFFICES ASSUME NEW g \in net'.sent, g.kind = "echo_req"
               PROVE  g.id <= net'.ping_id /\ (g.id = net'.ping_id => g.ip = ping'.to)
    BY <1>6, <1>7 DEF PingInv
  <2>1. CASE g = f
    BY <1>1, <1>6, <1>7, <2>1
  <2>2. CASE g \in net.sent
    <3>1. g.id \in Nat /\ g.id <= net.ping_id
      BY <2>2, FieldTypes DEF IInv, Types, PingInv, Packet
    <3> QED BY <1>1, <1>6, <3>1 DEF k
  <2> QED BY <1>6, <2>1, <2>2
<1>12. SocketsInv'
  BY <1>2, <1>6, SocketsKept
<1> QED BY <1>8, <1>9, <1>10, <1>11, <1>12 DEF IInv

LEMMA PingWaitStep == ASSUME IInv, ping_wait PROVE IInv'
<1>1. PICK to \in {"taken", "polled", "wait", "timeout"} :
        /\ Poll(ping.pc, net.ping_sem, to)
        /\ ping' = [ping EXCEPT !.pc = IF to = "timeout" THEN "idle" ELSE to]
        /\ net' = [net EXCEPT !.ping_sem = IF to = "taken" THEN @ - 1 ELSE @]
  BY DEF ping_wait
<1> DEFINE k == IF to = "taken" THEN net.ping_sem - 1 ELSE net.ping_sem
<1>2. /\ net \in NetData /\ ping \in PingTask /\ k \in Nat /\ k <= MaxPingSem
      /\ net' = [net EXCEPT !.ping_sem = k] /\ app' = app
  BY <1>1, FieldTypes, NetworkAssumption DEF IInv, Types, Poll, ping_wait
<1> HIDE DEF k
<1>3. net' \in NetData
  BY <1>2, Zenon DEF NetData
<1>4. /\ net'.arp = net.arp /\ net'.sent = net.sent /\ net'.heard = net.heard
      /\ net'.answers = net.answers /\ net'.ping_id = net.ping_id
      /\ net'.reply = net.reply /\ net'.ping_sem = k /\ net'.sockets = net.sockets
  BY <1>2 DEF NetData
<1>5. ping' \in PingTask /\ ping'.to = ping.to /\ ping'.ok = ping.ok
  BY <1>1, <1>2 DEF PingTask
<1>6. Types'
  BY <1>2, <1>3, <1>4, <1>5 DEF IInv, Types
<1>7. CacheOK(net)' /\ SentToOwner' /\ PingInv'
  BY <1>4, <1>5 DEF IInv, CacheOK, SentToOwner, PingInv
<1> QED BY <1>2, <1>4, <1>6, <1>7, SocketsKept DEF IInv

LEMMA PingReturnStep == ASSUME IInv, ping_return PROVE IInv'
<1>1. net' = net /\ app' = app /\ ping \in PingTask /\ net.reply \in BOOLEAN
  BY FieldTypes DEF ping_return, IInv, Types
<1>2. ping' = [ping EXCEPT !.pc = "idle", !.ok = net.reply]
  BY DEF ping_return
<1>3. ping' \in PingTask /\ ping'.to = ping.to /\ ping'.ok = net.reply
  BY <1>1, <1>2, ZenonT(60) DEF PingTask
<1>4. Types'
  BY <1>1, <1>3 DEF IInv, Types
<1>5. CacheOK(net)' /\ SentToOwner' /\ PingInv'
  BY <1>1, <1>3 DEF IInv, CacheOK, SentToOwner, PingInv
<1> QED BY <1>1, <1>4, <1>5, SocketsKept DEF IInv

LEMMA SockFacts ==
  ASSUME IInv, NEW s \in Socks
  PROVE  /\ net.sockets[s] \in Socket /\ net.sockets[s].rx_sem \in Nat
         /\ net.sockets[s].rx_sem <= MaxSem
<1>1. net.sockets \in [Socks -> Socket]
  BY FieldTypes DEF IInv, Types
<1>2. net.sockets[s] \in Socket
  BY <1>1
<1> QED BY <1>2, SockTypes DEF IInv, Types

LEMMA IdleOK ==
  Idle \in AppTask /\ <<Idle.op, Idle.pc>> \in Places /\ Idle.op = "none" /\ Idle.s = 1
BY NetworkAssumption DEF Idle, AppTask, Places, Socks

LEMMA SocketStep ==
  ASSUME IInv, NEW type \in {"DGRAM", "STREAM"}, net_socket(type) PROVE IInv'
<1> DEFINE free == {i \in Socks : ~net.sockets[i].in_use}
           i == Min(free)
           s == net.sockets[i]
           k == [s EXCEPT !.in_use = TRUE, !.type = type, !.state = "CLOSED", !.rx = FALSE]
<1>1. i \in Socks
  <2>1. free \in SUBSET Nat /\ free # {}
    BY NetworkAssumption DEF Socks, net_socket
  <2> QED BY <2>1, MinIn
<1>2. s \in Socket /\ s.rx_sem <= MaxSem
  BY <1>1, SockFacts, ZenonT(60)
<1>3. Set(i, k) /\ app = Idle /\ app' = [op |-> "socket", pc |-> "addr", s |-> i]
      /\ UNCHANGED ping
  BY DEF net_socket
<1>4. app' \in AppTask /\ <<app'.op, app'.pc>> \in Places /\ app'.s = i
  BY <1>1, <1>3 DEF AppTask, Places
<1> HIDE DEF i
<1>5. k.in_use = TRUE /\ k.type = type /\ k.state = "CLOSED" /\ k.rx = FALSE
      /\ k.rx_sem = s.rx_sem
  BY <1>2 DEF Socket
<1> HIDE DEF s
<1>6. k \in Socket
  BY <1>2, Zenon DEF Socket
<1> HIDE DEF k
<1>7. SockInv(i, k, app', net.answers[i])
  BY <1>3, <1>5 DEF SockInv
<1> QED BY <1>1, <1>2, <1>3, <1>4, <1>5, <1>6, <1>7, IdleOK, SetStep

LEMMA SocketAddrStep == ASSUME IInv, net_socket_addr PROVE IInv'
<1> DEFINE i == app.s
           s == net.sockets[i]
           k == [s EXCEPT !.local = 0, !.remote = None]
<1>1. i \in Socks
  BY DEF IInv, Types, AppTask
<1>2. s \in Socket /\ s.rx_sem <= MaxSem
  BY <1>1, SockFacts
<1>3. Set(i, k) /\ app' = Idle /\ UNCHANGED ping /\ app.op = "socket"
  BY DEF net_socket_addr, At
<1>4. /\ k.in_use = s.in_use /\ k.type = s.type /\ k.state = s.state /\ k.rx = s.rx
      /\ k.rx_sem = s.rx_sem
  BY <1>2 DEF Socket
<1>5. k \in Socket
  <2>1. 0 \in Nat /\ None \in Addr
    BY DEF Addr
  <2> QED BY <1>2, <2>1, Zenon DEF Socket
<1>6. SockInv(i, s, app, net.answers[i]) => SockInv(i, k, app', net.answers[i])
  BY <1>3, <1>4 DEF SockInv, Idle
<1> HIDE DEF s, k
<1> QED BY <1>1, <1>2, <1>3, <1>4, <1>5, <1>6, IdleOK, SetStep DEF s

LEMMA BindStep == ASSUME IInv, NEW i \in Socks, NEW p \in Ports, net_bind(i, p) PROVE IInv'
<1> DEFINE s == net.sockets[i]
           k == [s EXCEPT !.local = p]
<1>1. s \in Socket /\ s.rx_sem <= MaxSem
  BY SockFacts
<1>2. Set(i, k) /\ app = Idle /\ app' = app /\ UNCHANGED ping /\ s.state = "CLOSED"
  BY DEF net_bind
<1>3. /\ k.in_use = s.in_use /\ k.type = s.type /\ k.state = s.state /\ k.rx = s.rx
      /\ k.rx_sem = s.rx_sem
  BY <1>1 DEF Socket
<1>4. k \in Socket
  <2>1. p \in Nat
    BY NetworkAssumption
  <2> QED BY <1>1, <2>1, Zenon DEF Socket
<1>5. SockInv(i, s, app, net.answers[i]) => SockInv(i, k, app', net.answers[i])
  BY <1>2, <1>3 DEF SockInv, Idle
<1> HIDE DEF s, k
<1> QED BY <1>1, <1>2, <1>3, <1>4, <1>5, IdleOK, SetStep DEF s

LEMMA CloseStep == ASSUME IInv, NEW i \in Socks, net_close(i) PROVE IInv'
<1> DEFINE s == net.sockets[i]
           st == IF s.type = "STREAM" /\ s.state = "ESTABLISHED" THEN "CLOSED" ELSE s.state
           k == [s EXCEPT !.in_use = FALSE, !.rx = FALSE, !.state = st]
<1>1. s \in Socket /\ s.rx_sem <= MaxSem /\ st \in {"CLOSED", "SYN_SENT", "ESTABLISHED"}
  BY SockFacts, SockTypes
<1>2. Set(i, k) /\ app = Idle /\ app' = app /\ UNCHANGED ping
  BY DEF net_close
<1> HIDE DEF st
<1>3. k.in_use = FALSE /\ k.rx = FALSE /\ k.rx_sem = s.rx_sem
  BY <1>1 DEF Socket
<1>4. k \in Socket
  BY <1>1, Zenon DEF Socket
<1>5. SockInv(i, k, app', net.answers[i])
  BY <1>2, <1>3 DEF SockInv, Idle
<1> HIDE DEF s, k
<1> QED BY <1>1, <1>2, <1>3, <1>4, <1>5, IdleOK, SetStep DEF s

\* net_connect that gives up: the state is CLOSED again, and the token that announces a
\* connection made meanwhile stays.
LEMMA ConnectTimeoutStep == ASSUME IInv, net_connect_timeout PROVE IInv'
<1> DEFINE i == app.s
           s == net.sockets[i]
           k == [s EXCEPT !.state = "CLOSED"]
<1>1. i \in Socks
  BY DEF IInv, Types, AppTask
<1>2. s \in Socket /\ s.rx_sem <= MaxSem
  BY <1>1, SockFacts
<1>3. Set(i, k) /\ app' = Idle /\ UNCHANGED ping /\ app.op = "connect"
  BY DEF net_connect_timeout, At
<1>4. /\ k.in_use = s.in_use /\ k.type = s.type /\ k.state = "CLOSED" /\ k.rx = s.rx
      /\ k.rx_sem = s.rx_sem
  BY <1>2 DEF Socket
<1>5. k \in Socket
  BY <1>2, Zenon DEF Socket
<1>6. SockInv(i, s, app, net.answers[i]) => SockInv(i, k, app', net.answers[i])
  BY <1>3, <1>4 DEF SockInv, Idle
<1> HIDE DEF s, k
<1> QED BY <1>1, <1>2, <1>3, <1>4, <1>5, <1>6, IdleOK, SetStep DEF s

LEMMA RecvClearStep == ASSUME IInv, net_recv_clear PROVE IInv'
<1> DEFINE i == app.s
           s == net.sockets[i]
           k == [s EXCEPT !.rx = FALSE]
<1>1. i \in Socks
  BY DEF IInv, Types, AppTask
<1>2. s \in Socket /\ s.rx_sem <= MaxSem
  BY <1>1, SockFacts
<1>3. Set(i, k) /\ app' = Idle /\ UNCHANGED ping /\ app.op = "recv"
  BY DEF net_recv_clear, At
<1>4. /\ k.in_use = s.in_use /\ k.type = s.type /\ k.state = s.state /\ k.rx = FALSE
      /\ k.rx_sem = s.rx_sem /\ k.local = s.local /\ k.remote = s.remote
  BY <1>2 DEF Socket
<1>5. k \in Socket
  BY <1>2, Zenon DEF Socket
<1>6. SockInv(i, s, app, net.answers[i]) => SockInv(i, k, app', net.answers[i])
  BY <1>3, <1>4 DEF SockInv, Idle
<1> HIDE DEF s, k
<1> QED BY <1>1, <1>2, <1>3, <1>4, <1>5, <1>6, IdleOK, SetStep DEF s

\* A poll of rx_sem in net_connect or net_recv.
LEMMA SocketWaitStep == ASSUME IInv, socket_wait PROVE IInv'
<1>1. PICK to \in {"taken", "polled", "wait", "timeout"} :
        /\ Poll(app.pc, net.sockets[app.s].rx_sem, to)
        /\ app' = IF <<app.op, to>> \in {<<"recv", "timeout">>, <<"connect", "taken">>}
                  THEN Idle ELSE [app EXCEPT !.pc = to]
        /\ net' = [net EXCEPT
                     !.sockets[app.s].rx_sem = IF to = "taken" THEN @ - 1 ELSE @]
  BY DEF socket_wait
<1> DEFINE i == app.s
           s == net.sockets[i]
           j == IF to = "taken" THEN s.rx_sem - 1 ELSE s.rx_sem
           k == [s EXCEPT !.rx_sem = j]
<1>2. i \in Socks /\ app \in AppTask /\ <<app.op, app.pc>> \in Places
  BY DEF IInv, Types, AppTask
<1>3. s \in Socket /\ s.rx_sem \in Nat /\ s.rx_sem <= MaxSem
  BY <1>2, SockFacts
<1>4. Set(i, k) /\ UNCHANGED ping
  BY <1>1 DEF Set, socket_wait
<1>5. /\ app.op \in {"connect", "recv"} /\ app.pc \in {"wait", "polled"}
      /\ j \in Nat /\ j <= MaxSem
      /\ to = "taken" => s.rx_sem > 0
  BY <1>1, <1>2, <1>3, NetworkAssumption DEF socket_wait, Poll, Places
<1> HIDE DEF i, s, j
<1>6. /\ k.in_use = s.in_use /\ k.type = s.type /\ k.state = s.state /\ k.rx = s.rx
      /\ k.rx_sem = j /\ k.local = s.local /\ k.remote = s.remote
  BY <1>3 DEF Socket
<1>7. k \in Socket
  BY <1>3, <1>5, Zenon DEF Socket
<1> HIDE DEF k
<1>8. CASE <<app.op, to>> \in {<<"recv", "timeout">>, <<"connect", "taken">>}
  <2>1. app' = Idle
    BY <1>1, <1>8
  <2>2. SockInv(i, s, app, net.answers[i]) => SockInv(i, k, app', net.answers[i])
    BY <1>3, <1>5, <1>6, <1>8, <2>1 DEF SockInv, Idle, i, j
  <2> QED BY <1>2, <1>3, <1>4, <1>5, <1>6, <1>7, <2>1, <2>2, IdleOK, SetStep DEF s, i
<1>9. CASE <<app.op, to>> \notin {<<"recv", "timeout">>, <<"connect", "taken">>}
  <2>1. app' = [app EXCEPT !.pc = to]
    BY <1>1, <1>9
  <2>2. app'.op = app.op /\ app'.s = i /\ app'.pc = to /\ app' \in AppTask
        /\ <<app'.op, app'.pc>> \in Places
    BY <1>2, <1>5, <1>9, <2>1 DEF AppTask, Places, i
  <2>3. SockInv(i, s, app, net.answers[i]) => SockInv(i, k, app', net.answers[i])
    BY <1>3, <1>5, <1>6, <1>9, <2>2 DEF SockInv, i, j
  <2> QED BY <1>2, <1>3, <1>4, <1>5, <1>6, <1>7, <2>2, <2>3, SetStep DEF s, i
<1> QED BY <1>8, <1>9

\* net_sendto and net_send: nothing but an ARP request may be sent that is kept.
LEMMA SendStep ==
  ASSUME IInv, NEW i \in Socks, net_send(i) \/ \E h \in Hosts : net_sendto(i, h)
  PROVE  IInv'
<1>1. net.sockets[i].remote \in Addr /\ \A h \in Hosts : h \in Addr
  BY SockFacts, SockTypes DEF Addr
<1>2. net' = net /\ UNCHANGED <<ping, app>>
  BY <1>1, SendIp DEF IInv, Types, net_send, net_sendto
<1>3. Types'
  BY <1>2 DEF IInv, Types
<1> QED BY <1>2, <1>3, PingKept, SocketsKept DEF IInv

LEMMA RecvStep == ASSUME IInv, NEW i \in Socks, net_recv(i) PROVE IInv'
<1> DEFINE s == net.sockets[i]
<1>1. s \in Socket /\ s.rx_sem <= MaxSem
  BY SockFacts
<1>2. /\ net' = net /\ UNCHANGED ping /\ app = Idle
      /\ app' = [op |-> "recv", pc |-> "wait", s |-> i]
      /\ s.in_use /\ (s.type = "DGRAM" \/ s.state = "ESTABLISHED")
  BY DEF net_recv
<1>3. app' \in AppTask /\ <<app'.op, app'.pc>> \in Places
  BY <1>2 DEF AppTask, Places
<1>4. SockInv(i, s, app, net.answers[i]) => SockInv(i, s, app', net.answers[i])
  BY <1>2, SockTypes DEF SockInv, Idle
<1>5. Set(i, s)
  BY <1>2, FieldTypes DEF Set, IInv, Types, NetData
<1> HIDE DEF s
<1> QED BY <1>1, <1>2, <1>3, <1>4, <1>5, IdleOK, SetStep DEF s

LEMMA RecvCopiedStep == ASSUME IInv, net_recv_copied PROVE IInv'
<1> DEFINE i == app.s
           s == net.sockets[i]
<1>1. i \in Socks /\ app \in AppTask
  BY DEF IInv, Types, AppTask
<1>2. s \in Socket /\ s.rx_sem <= MaxSem
  BY <1>1, SockFacts
<1>3. /\ net' = net /\ UNCHANGED ping /\ app.op = "recv" /\ app.pc = "taken"
      /\ app' = [app EXCEPT !.pc = "copied"]
  BY DEF net_recv_copied, At
<1>4. /\ app' \in AppTask /\ <<app'.op, app'.pc>> \in Places
      /\ app'.s = i /\ app'.op = "recv" /\ app'.pc = "copied"
  BY <1>1, <1>3 DEF AppTask, Places
<1>5. SockInv(i, s, app, net.answers[i]) => SockInv(i, s, app', net.answers[i])
  BY <1>3, <1>4 DEF SockInv
<1>6. Set(i, s)
  BY <1>1, <1>3, FieldTypes DEF Set, IInv, Types, NetData
<1> HIDE DEF s
<1> QED BY <1>1, <1>2, <1>3, <1>4, <1>5, <1>6, SetStep DEF s

LEMMA ConnectStep ==
  ASSUME IInv, NEW i \in Socks, NEW h \in Hosts, net_connect(i, h) PROVE IInv'
<1> DEFINE s == net.sockets[i]
           port == IF s.local = 0 THEN net.eph ELSE s.local
           e == IF s.local = 0 THEN NextEphemeral(net.eph) ELSE net.eph
           k == [s EXCEPT !.local = port, !.remote = h]
           ans == [net.answers EXCEPT ![i] = {}]
           socks == [net.sockets EXCEPT ![i] = k]
<1>1. s \in Socket /\ s.rx_sem <= MaxSem /\ net \in NetData
  BY SockFacts DEF IInv, Types
<1>2. /\ app = Idle /\ s.in_use /\ s.type = "STREAM" /\ s.state = "CLOSED" /\ UNCHANGED ping
      /\ app' = [op |-> "connect", pc |-> "syn", s |-> i]
  BY DEF net_connect
<1>3. net' = [net EXCEPT !.answers = ans, !.sockets = socks, !.eph = e]
  BY <1>1, ZenonT(60) DEF net_connect, NetData
<1>4. net.eph \in Nat /\ port \in Nat /\ h \in Addr /\ e \in EPHEMERAL[1] .. EPHEMERAL[2]
  <2>1. /\ EPHEMERAL[1] \in Nat /\ EPHEMERAL[2] \in Nat /\ EPHEMERAL[1] <= EPHEMERAL[2]
        /\ net.eph \in EPHEMERAL[1] .. EPHEMERAL[2] /\ s.local \in Nat
    BY <1>1, FieldTypes, SockTypes, NetworkAssumption
  <2> QED BY <2>1 DEF NextEphemeral, Addr
<1> HIDE DEF s, port, e
<1>5. /\ k.in_use = s.in_use /\ k.type = s.type /\ k.state = s.state /\ k.rx = s.rx
      /\ k.rx_sem = s.rx_sem
  BY <1>1 DEF Socket
<1>6. k \in Socket
  BY <1>1, <1>4, Zenon DEF Socket
<1> HIDE DEF k
<1>7. ans \in [Socks -> SUBSET (Hosts \X Nat)] /\ socks \in [Socks -> Socket]
  BY <1>1, <1>6, FieldTypes
<1>8. /\ socks[i] = k /\ \A j \in Socks \ {i} : socks[j] = net.sockets[j]
      /\ \A j \in Socks \ {i} : ans[j] = net.answers[j]
  BY <1>1, FieldTypes
<1> HIDE DEF ans, socks
<1>9. net' \in NetData
  BY <1>1, <1>3, <1>4, <1>7, Zenon DEF NetData
<1>10. /\ net'.arp = net.arp /\ net'.sent = net.sent /\ net'.heard = net.heard
       /\ net'.answers = ans /\ net'.ping_id = net.ping_id
       /\ net'.reply = net.reply /\ net'.ping_sem = net.ping_sem /\ net'.sockets = socks
  BY <1>1, <1>3 DEF NetData
<1>11. app' \in AppTask /\ <<app'.op, app'.pc>> \in Places
  BY <1>2 DEF AppTask, Places
<1>12. Types'
  <2>1. ASSUME NEW j \in Socks PROVE net'.sockets[j].rx_sem <= MaxSem
    BY <1>1, <1>5, <1>8, <1>10 DEF IInv, Types
  <2> QED BY <1>2, <1>9, <1>10, <1>11, <2>1 DEF IInv, Types
<1>13. ASSUME NEW j \in Socks PROVE SockInv(j, socks[j], app', ans[j])
  <2>1. SockInv(j, net.sockets[j], app, net.answers[j])
    BY DEF IInv, SocketsInv
  <2>2. CASE j = i
    BY <1>2, <1>5, <1>8, <2>1, <2>2, ZenonT(60) DEF SockInv, Idle, s
  <2>3. CASE j # i
    <3>1. SockInv(j, net.sockets[j], app', net.answers[j])
      BY <1>2, <2>1, <2>3, IdleOK, Elsewhere
    <3> QED BY <1>8, <2>3, <3>1
  <2> QED BY <2>2, <2>3
<1>14. SocketsInv'
  BY <1>10, <1>13 DEF SocketsInv
<1> QED BY <1>2, <1>10, <1>12, <1>14, PingKept DEF IInv

LEMMA ConnectSynStep == ASSUME IInv, net_connect_syn PROVE IInv'
<1> DEFINE i == app.s
           s == net.sockets[i]
           k == [s EXCEPT !.state = "SYN_SENT"]
           socks == [net.sockets EXCEPT ![i] = k]
           n == [net EXCEPT !.sockets = socks]
           t == net_ethernet_send_ip(n, s.remote, "syn", s.local)
           f == [kind |-> "syn", mac |-> s.remote, ip |-> s.remote, id |-> s.local]
<1>1. i \in Socks /\ app \in AppTask /\ net \in NetData
  BY DEF IInv, Types, AppTask
<1>2. s \in Socket /\ s.rx_sem <= MaxSem /\ s.remote \in Addr /\ s.local \in Nat
  BY <1>1, SockFacts, SockTypes
<1>3. /\ app.op = "connect" /\ app.pc = "syn" /\ UNCHANGED ping /\ net' = t.n
      /\ app' = IF t.r THEN [app EXCEPT !.pc = "wait"] ELSE Idle
  BY DEF net_connect_syn, At
<1> HIDE DEF i, s
<1>4. /\ k.in_use = s.in_use /\ k.type = s.type /\ k.state = "SYN_SENT" /\ k.rx = s.rx
      /\ k.rx_sem = s.rx_sem
  BY <1>2 DEF Socket
<1>5. k \in Socket
  BY <1>2, Zenon DEF Socket
<1> HIDE DEF k
<1>6. socks \in [Socks -> Socket]
  BY <1>1, <1>5, FieldTypes
<1>7. socks[i] = k /\ \A j \in Socks \ {i} : socks[j] = net.sockets[j]
  BY <1>1, FieldTypes
<1> HIDE DEF socks
<1>8. n \in NetData
  BY <1>1, <1>6, SetFields
<1>9. /\ n.arp = net.arp /\ n.sent = net.sent /\ n.heard = net.heard
      /\ n.answers = net.answers /\ n.ping_id = net.ping_id
      /\ n.reply = net.reply /\ n.ping_sem = net.ping_sem /\ n.sockets = socks
  BY <1>1 DEF NetData
<1> HIDE DEF n
<1>10. CacheOK(n)
  BY <1>9 DEF IInv, CacheOK
<1>11. /\ net' \in NetData /\ net'.arp = net.arp /\ net'.ping_id = net.ping_id
       /\ net'.reply = net.reply /\ net'.ping_sem = net.ping_sem /\ net'.sockets = socks
       /\ net'.answers = net.answers /\ net'.heard = net.heard
       /\ net'.sent = net.sent \/ net'.sent = net.sent \cup {f}
  BY <1>2, <1>3, <1>8, <1>9, <1>10, SendIp DEF SameArp, SamePing, SameSockets
<1>12. /\ app' \in AppTask /\ <<app'.op, app'.pc>> \in Places
       /\ \/ app' = Idle
          \/ app'.op = "connect" /\ app'.pc = "wait" /\ app'.s = i
  BY <1>1, <1>3, IdleOK DEF AppTask, Places, i
<1>13. Types'
  <2>1. ASSUME NEW j \in Socks PROVE net'.sockets[j].rx_sem <= MaxSem
    BY <1>2, <1>4, <1>7, <1>11 DEF IInv, Types
  <2> QED BY <1>3, <1>11, <1>12, <2>1 DEF IInv, Types
<1>14. CacheOK(net)' /\ SentToOwner'
  BY <1>11 DEF IInv, CacheOK, SentToOwner
<1>15. PingInv'
  BY <1>3, <1>11 DEF IInv, PingInv
<1>16. ASSUME NEW j \in Socks PROVE SockInv(j, socks[j], app', net.answers[j])
  <2>1. SockInv(j, net.sockets[j], app, net.answers[j])
    BY DEF IInv, SocketsInv
  <2>2. CASE j = i
    BY <1>2, <1>3, <1>4, <1>7, <1>12, <2>1, <2>2, SockTypes DEF SockInv, Idle, s, i
  <2>3. CASE j # i
    <3>1. SockInv(j, net.sockets[j], app', net.answers[j])
      BY <1>3, <1>12, <2>1, <2>3, IdleOK, Elsewhere, ZenonT(60) DEF i
    <3> QED BY <1>7, <2>3, <3>1
  <2> QED BY <2>2, <2>3
<1>17. SocketsInv'
  BY <1>11, <1>16 DEF SocketsInv
<1> QED BY <1>13, <1>14, <1>15, <1>17 DEF IInv

LEMMA Stutter == ASSUME IInv, UNCHANGED vars PROVE IInv'
<1>1. net' = net /\ UNCHANGED <<ping, app>>
  BY DEF vars
<1>2. Types'
  BY <1>1 DEF IInv, Types
<1> QED BY <1>1, <1>2, PingKept, SocketsKept DEF IInv

LEMMA Step == ASSUME IInv, [Next]_vars PROVE IInv'
<1>1. CASE NetworkTask \/ Tick
  BY <1>1, NetworkTaskStep, TickStep
<1>2. CASE (\E h \in Hosts : net_ping(h)) \/ ping_wait \/ ping_return
  BY <1>2, PingStep, PingWaitStep, PingReturnStep
<1>3. CASE (\E type \in {"DGRAM", "STREAM"} : net_socket(type)) \/ net_socket_addr
  BY <1>3, SocketStep, SocketAddrStep
<1>4. CASE \E s \in Socks :
             \/ net_close(s) \/ net_recv(s)
             \/ \E p \in Ports : net_bind(s, p)
             \/ \E h \in Hosts : net_connect(s, h)
  BY <1>4, CloseStep, RecvStep, BindStep, ConnectStep
<1>5. CASE \E s \in Socks : net_send(s) \/ \E h \in Hosts : net_sendto(s, h)
  BY <1>5, SendStep
<1>6. CASE net_connect_syn \/ net_connect_timeout
  BY <1>6, ConnectSynStep, ConnectTimeoutStep
<1>7. CASE socket_wait \/ net_recv_copied \/ net_recv_clear
  BY <1>7, SocketWaitStep, RecvCopiedStep, RecvClearStep
<1>8. CASE UNCHANGED vars
  BY <1>8, Stutter
<1> QED BY <1>1, <1>2, <1>3, <1>4, <1>5, <1>6, <1>7, <1>8 DEF Next

\* The invariant holds whatever the peers send and however the three tasks of the stack
\* (the network task, net_ping, the socket API) interleave.
THEOREM StackInvariant == Spec => []IInv
<1>1. Init => IInv
  BY InitOK
<1>2. IInv /\ [Next]_vars => IInv'
  BY Step
<1> QED BY <1>1, <1>2, PTL DEF Spec

\* The ARP cache, the socket table and the ephemeral port keep their types.
THEOREM StackTypeCorrect == Spec => []TypeOK
<1>1. IInv => TypeOK
  BY Implied
<1> QED BY <1>1, StackInvariant, PTL

\* net_ethernet_send_ip sends an IP packet to the MAC address of its host, for a cache of
\* any size: arp_cache_add enters a host under its own address only.
THEOREM SentToOwnerHolds == Spec => []SentToOwner
<1>1. IInv => SentToOwner
  BY DEF IInv
<1> QED BY <1>1, StackInvariant, PTL

\* net_ping succeeds only on an answer of the host it asked to the request it sent.
THEOREM PingAnsweredHolds == Spec => []PingAnswered
<1>1. IInv => PingAnswered
  BY Implied
<1> QED BY <1>1, StackInvariant, PTL

\* Data in the receive buffer of a socket in use is announced by a token of rx_sem, for
\* any number of sockets (net_udp_input, net_tcp_input, net_recv, net_connect).
THEOREM NoStrandedDataHolds == Spec => []NoStrandedData
<1>1. IInv => NoStrandedData
  BY Implied
<1> QED BY <1>1, StackInvariant, PTL

\* net_tcp_input establishes a connection only for the host and the port that this
\* net_connect has set.
THEOREM EstablishedByPeerHolds == Spec => []EstablishedByPeer
<1>1. IInv => EstablishedByPeer
  BY Implied
<1> QED BY <1>1, StackInvariant, PTL
=============================================================================
