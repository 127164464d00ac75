------------------------------ MODULE Network ------------------------------
(***************************************************************************)
(* The network stack of src/src/net: the ARP cache of ethernet.c, ICMP and *)
(* net_ping of ip.c, the socket table of socket.c.  Three tasks share it:  *)
(* the network task, which runs at PRIORITY_HIGH and handles a received    *)
(* frame in one step, one task that pings and one task that uses sockets.  *)
(* The latter two are preempted between the steps below.                   *)
(*                                                                         *)
(* The peers and the wire are external.  A frame may be lost, delayed,     *)
(* duplicated or overtaken: what a peer may ever send can arrive at any    *)
(* time and any number of times.  A host and its MAC address have the same *)
(* name in different fields.  Of a payload only its presence is kept;      *)
(* lengths, checksums and byte order are left out.                         *)
(***************************************************************************)
EXTENDS Naturals, Integers, FiniteSets, FiniteSetsExt

CONSTANTS
    Hosts, Us, Bcast, None,
    ARP_CACHE_SIZE, NET_MAX_SOCKETS,
    Ports,          \* ports an application binds
    EPHEMERAL,      \* first and last value of next_ephemeral_port
    MaxTick, MaxCalls, MaxPings, MaxPingSem, MaxSem     \* bounds: time, calls, pings, tokens

ASSUME NetworkAssumption ==
    /\ ARP_CACHE_SIZE \in Nat \ {0} /\ NET_MAX_SOCKETS \in Nat \ {0}
    /\ None \notin Hosts /\ Ports \subseteq Nat
    /\ EPHEMERAL \in Nat \X Nat /\ EPHEMERAL[1] <= EPHEMERAL[2]
    /\ MaxTick \in Nat /\ MaxPings \in Nat /\ MaxPingSem \in Nat /\ MaxSem \in Nat

Socks == 1 .. NET_MAX_SOCKETS
ServerPort == 0     \* the remote port of every connection

arp_entry_t == [ip : Hosts \cup {None}, mac : Hosts \cup {None}, timestamp : 0 .. MaxTick,
                valid : BOOLEAN]
socket_t == [type : {"DGRAM", "STREAM"}, in_use : BOOLEAN, local : Nat,
             remote : Hosts \cup {None}, state : {"CLOSED", "SYN_SENT", "ESTABLISHED"},
             rx : BOOLEAN, rx_sem : 0 .. MaxSem]

VARIABLES
    net,    \* the data of the three files, the tick count, what we have sent, and as
            \* history who has answered the last ping (heard) and, for each socket, who
            \* has answered on which port since its last net_connect (answers)
    ping,   \* the task in net_ping: where it is and for whom
    app,    \* the task in the socket API: where it is and with which socket
    calls   \* calls of net_ping and of the socket API so far

vars == <<net, ping, app, calls>>

---------------------------------------------------------------------------
\* Ethernet and ARP.

arp_cache_lookup(n, ip) ==
    LET hits == {i \in 1 .. ARP_CACHE_SIZE : n.arp[i].valid /\ n.arp[i].ip = ip}
    IN  IF hits = {} THEN None ELSE n.arp[Min(hits)].mac

\* The first free slot, else the first of the oldest.
arp_cache_add(n, ip, mac) ==
    LET slots == 1 .. ARP_CACHE_SIZE
        empty == {i \in slots : ~n.arp[i].valid}
        old   == {i \in slots : \A j \in slots : n.arp[i].timestamp <= n.arp[j].timestamp}
        at    == IF empty # {} THEN Min(empty) ELSE Min(old)
    IN  [n EXCEPT !.arp[at] = [ip |-> ip, mac |-> mac, timestamp |-> n.now, valid |-> TRUE]]

\* Of what is sent, the packets a peer answers are kept.
net_driver_send(n, f) ==
    IF f.kind \in {"echo_req", "syn"} THEN [n EXCEPT !.sent = @ \cup {f}] ELSE n

arp_send_request(n, ip) ==
    net_driver_send(n, [kind |-> "arp_req", mac |-> Bcast, ip |-> ip, id |-> 0])

arp_send_reply(n, ip, mac) ==
    net_driver_send(n, [kind |-> "arp_rep", mac |-> mac, ip |-> ip, id |-> 0])

\* Mutant: the entry is made for the address asked for, not for the sender.
arp_input_target(n, f) ==
    LET g == arp_cache_add(n, f.ip, f.src)
    IN  IF f.kind = "arp_req" /\ f.ip = Us THEN arp_send_reply(g, f.src, f.src) ELSE g

arp_input(n, f) ==
    LET g == arp_cache_add(n, f.src, f.src)
    IN  IF f.kind = "arp_req" /\ f.ip = Us THEN arp_send_reply(g, f.src, f.src) ELSE g

\* r tells whether the packet left; without an ARP entry a request leaves instead.
net_ethernet_send_ip(n, ip, kind, id) ==
    LET mac == arp_cache_lookup(n, ip)
        f   == [kind |-> kind, mac |-> mac, ip |-> ip, id |-> id]
    IN  IF mac = None THEN [r |-> FALSE, n |-> arp_send_request(n, ip)]
        ELSE [r |-> TRUE, n |-> net_driver_send(n, f)]

---------------------------------------------------------------------------
\* What arrives for a socket or for net_ping.

\* Mutant: any echo reply wakes the waiting net_ping.
icmp_input_any(n, f) ==
    IF f.kind = "echo_req" THEN net_ethernet_send_ip(n, f.src, "echo_rep", f.id).n
    ELSE [n EXCEPT !.reply = TRUE, !.ping_sem = @ + 1]

icmp_input(n, f) ==
    CASE f.kind = "echo_req" -> net_ethernet_send_ip(n, f.src, "echo_rep", f.id).n
      [] f.kind = "echo_rep" /\ f.id = n.ping_id -> [n EXCEPT !.reply = TRUE, !.ping_sem = @ + 1]
      [] OTHER -> n

\* Mutant: the remote address is not compared.
Matching_any_host(n, f) ==
    {i \in Socks : /\ n.sockets[i].in_use /\ n.sockets[i].local = f.id
                   /\ (f.kind = "udp") = (n.sockets[i].type = "DGRAM")}

\* The sockets that take this frame; the first one gets it.
Matching(n, f) ==
    {i \in Socks :
        /\ n.sockets[i].in_use /\ n.sockets[i].local = f.id
        /\ \/ f.kind = "udp" /\ n.sockets[i].type = "DGRAM"
           \/ f.kind # "udp" /\ n.sockets[i].type = "STREAM" /\ n.sockets[i].remote = f.src}

net_udp_input(n, f) ==
    LET i == Min(Matching(n, f))
    IN  IF Matching(n, f) = {} THEN n
        ELSE [n EXCEPT !.sockets[i].rx = TRUE, !.sockets[i].remote = f.src,
                       !.sockets[i].rx_sem = @ + 1]

net_tcp_input(n, f) ==
    LET i == Min(Matching(n, f))
        s == n.sockets[i]
    IN  CASE Matching(n, f) = {} -> n
          [] Matching(n, f) # {} /\ s.state = "SYN_SENT" ->
                [n EXCEPT !.sockets[i].state = "ESTABLISHED", !.sockets[i].rx_sem = @ + 1]
          [] Matching(n, f) # {} /\ s.state = "ESTABLISHED" /\ f.kind = "psh" ->
                [n EXCEPT !.sockets[i].rx = TRUE, !.sockets[i].rx_sem = @ + 1]
          [] OTHER -> n

net_ip_input(n, f) ==
    CASE f.ip # Us -> n
      [] f.ip = Us /\ f.kind \in {"echo_req", "echo_rep"} -> icmp_input(n, f)
      [] f.ip = Us /\ f.kind = "udp" -> net_udp_input(n, f)
      [] OTHER -> net_tcp_input(n, f)

net_ethernet_input(n, f) ==
    CASE f.mac \notin {Us, Bcast} -> n
      [] f.mac \in {Us, Bcast} /\ f.kind \in {"arp_req", "arp_rep"} -> arp_input(n, f)
      [] OTHER -> net_ip_input(n, f)

\* External: the frames peer h may have sent so far.  It answers echo
\* requests and SYNs that reached it, sends data on a connection it has accepted, and
\* sends ARP packets, echo requests and datagrams of its own.
FromPeer(h) ==
    LET F(kind, mac, ip, id) == [kind |-> kind, src |-> h, mac |-> mac, ip |-> ip, id |-> id]
        heard == {f \in net.sent : f.mac = h}
        ids(kind) == {f.id : f \in {g \in heard : g.kind = kind}}
    IN  {F("arp_req", Bcast, ip, 0) : ip \in Hosts \cup {Us}}
        \cup {F("arp_rep", Us, Us, 0)}
        \cup {F("echo_req", Us, Us, 0), F("echo_req", h, Us, 0), F("echo_req", Us, h, 0)}
        \cup {F("echo_rep", Us, Us, i) : i \in ids("echo_req")}
        \cup {F("udp", Us, Us, p) : p \in Ports}
        \cup {F(k, Us, Us, p) : k \in {"synack", "psh"}, p \in ids("syn")}

\* History: the answer is noted.
Heard(f) ==
    CASE f.kind = "echo_rep" -> [net EXCEPT !.heard = @ \cup {<<f.src, f.id>>}]
      [] f.kind \in {"synack", "psh"} ->
            [net EXCEPT !.answers = [s \in Socks |-> @[s] \cup {<<f.src, f.id>>}]]
      [] OTHER -> net

NetworkTask ==
    \E h \in Hosts : \E f \in FromPeer(h) :
        LET new == net_ethernet_input(Heard(f), f)
        IN  /\ new.ping_sem <= MaxPingSem /\ \A i \in Socks : new.sockets[i].rx_sem <= MaxSem
            /\ net' = new
            /\ UNCHANGED <<ping, app, calls>>

Tick ==
    /\ net.now < MaxTick
    /\ net' = [net EXCEPT !.now = @ + 1]
    /\ UNCHANGED <<ping, app, calls>>

---------------------------------------------------------------------------
Count == calls < MaxCalls /\ calls' = calls + 1

\* net_ping.  The two counters always agree and are one number here.
net_ping(h) ==
    LET n == [net EXCEPT !.ping_id = @ + 1, !.reply = FALSE, !.heard = {}]
        t == net_ethernet_send_ip(n, h, "echo_req", n.ping_id)
    IN  /\ ping.pc = "idle" /\ net.ping_id < MaxPings
        /\ net' = t.n
        /\ ping' = [pc |-> IF t.r THEN "wait" ELSE "idle", to |-> h, ok |-> FALSE]
        /\ UNCHANGED app
        /\ Count

\* os_semaphore_wait polls: it takes a token, or finds none and then either times
\* out, even if a token has come meanwhile, or yields and polls again.
Poll(pc, sem, taken) ==
    \/ pc = "wait" /\ sem > 0 /\ taken = "taken"
    \/ pc = "wait" /\ sem = 0 /\ taken = "polled"
    \/ pc = "polled" /\ taken \in {"wait", "timeout"}

ping_wait ==
    /\ ping.pc \in {"wait", "polled"}
    /\ \E to \in {"taken", "polled", "wait", "timeout"} :
        /\ Poll(ping.pc, net.ping_sem, to)
        /\ ping' = [ping EXCEPT !.pc = IF to = "timeout" THEN "idle" ELSE to]
        /\ net' = [net EXCEPT !.ping_sem = IF to = "taken" THEN @ - 1 ELSE @]
    /\ UNCHANGED <<app, calls>>

ping_return ==
    /\ ping.pc = "taken"
    /\ ping' = [ping EXCEPT !.pc = "idle", !.ok = net.reply]
    /\ UNCHANGED <<net, app, calls>>

---------------------------------------------------------------------------
\* The socket API.  op is the call in progress, pc its place in that call.
Idle == [op |-> "none", pc |-> "idle", s |-> 1]
At(op, pc) == app.op = op /\ app.pc = pc
Set(s, sock) == net' = [net EXCEPT !.sockets[s] = sock]

net_socket(type) ==
    LET free == {i \in Socks : ~net.sockets[i].in_use}
    IN  /\ app = Idle /\ free # {}
        /\ Set(Min(free), [net.sockets[Min(free)] EXCEPT
                 !.in_use = TRUE, !.type = type, !.state = "CLOSED", !.rx = FALSE])
        /\ app' = [op |-> "socket", pc |-> "addr", s |-> Min(free)]
        /\ UNCHANGED ping
        /\ Count

\* Mutant: the semaphore is cleared as well, after the buffer.
net_socket_addr_reset ==
    /\ At("socket", "addr")
    /\ Set(app.s, [net.sockets[app.s] EXCEPT !.local = 0, !.remote = None, !.rx_sem = 0])
    /\ app' = Idle /\ UNCHANGED <<ping, calls>>

net_socket_addr ==
    /\ At("socket", "addr")
    /\ Set(app.s, [net.sockets[app.s] EXCEPT !.local = 0, !.remote = None])
    /\ app' = Idle /\ UNCHANGED <<ping, calls>>

\* Before the socket is connected.
net_bind(s, p) ==
    /\ app = Idle /\ net.sockets[s].in_use /\ net.sockets[s].state = "CLOSED"
    /\ Set(s, [net.sockets[s] EXCEPT !.local = p])
    /\ UNCHANGED <<ping, app>>
    /\ Count

net_close(s) ==
    /\ app = Idle /\ net.sockets[s].in_use
    /\ Set(s, [net.sockets[s] EXCEPT !.in_use = FALSE, !.rx = FALSE,
                 !.state = IF net.sockets[s].type = "STREAM" /\ @ = "ESTABLISHED"
                           THEN "CLOSED" ELSE @])
    /\ UNCHANGED <<ping, app>>
    /\ Count

net_sendto(s, h) ==
    /\ app = Idle /\ net.sockets[s].in_use /\ net.sockets[s].type = "DGRAM"
    /\ net' = net_ethernet_send_ip(net, h, "udp", 0).n
    /\ UNCHANGED <<ping, app>>
    /\ Count

net_send(s) ==
    /\ app = Idle /\ net.sockets[s].in_use
    /\ net.sockets[s].type = "STREAM" /\ net.sockets[s].state = "ESTABLISHED"
    /\ net' = net_ethernet_send_ip(net, net.sockets[s].remote, "psh", 0).n
    /\ UNCHANGED <<ping, app>>
    /\ Count

\* Mutant: the port counter does not go back to the start of its range.
NextEphemeral_no_wrap(p) == p + 1

NextEphemeral(p) == IF p = EPHEMERAL[2] THEN EPHEMERAL[1] ELSE p + 1

\* On a new socket or after a timeout: the callers close a socket after any other
\* failure and do not connect it twice.
net_connect(s, h) ==
    LET sock == net.sockets[s]
        eph  == sock.local = 0
        port == IF eph THEN net.eph ELSE sock.local
    IN  /\ app = Idle /\ sock.in_use /\ sock.type = "STREAM" /\ sock.state = "CLOSED"
        /\ net' = [net EXCEPT !.answers[s] = {},
                              !.sockets[s].local = port, !.sockets[s].remote = h,
                              !.eph = IF eph THEN NextEphemeral(@) ELSE @]
        /\ app' = [op |-> "connect", pc |-> "syn", s |-> s]
        /\ UNCHANGED ping
        /\ Count

net_connect_syn ==
    LET s == net.sockets[app.s]
        t == net_ethernet_send_ip([net EXCEPT !.sockets[app.s].state = "SYN_SENT"],
                                  s.remote, "syn", s.local)
    IN  /\ At("connect", "syn")
        /\ net' = t.n
        /\ app' = IF t.r THEN [app EXCEPT !.pc = "wait"] ELSE Idle
        /\ UNCHANGED <<ping, calls>>

net_connect_timeout ==
    /\ At("connect", "timeout")
    /\ Set(app.s, [net.sockets[app.s] EXCEPT !.state = "CLOSED"])
    /\ app' = Idle /\ UNCHANGED <<ping, calls>>

\* net_recvfrom and net_recv: wait, copy rx_length bytes, then clear rx_length.
net_recv(s) ==
    /\ app = Idle /\ net.sockets[s].in_use
    /\ net.sockets[s].type = "DGRAM" \/ net.sockets[s].state = "ESTABLISHED"
    /\ app' = [op |-> "recv", pc |-> "wait", s |-> s]
    /\ UNCHANGED <<net, ping>>
    /\ Count

socket_wait ==
    /\ app.pc \in {"wait", "polled"}
    /\ \E to \in {"taken", "polled", "wait", "timeout"} :
        /\ Poll(app.pc, net.sockets[app.s].rx_sem, to)
        /\ app' = IF <<app.op, to>> \in {<<"recv", "timeout">>, <<"connect", "taken">>}
                  THEN Idle ELSE [app EXCEPT !.pc = to]
        /\ net' = [net EXCEPT
                     !.sockets[app.s].rx_sem = IF to = "taken" THEN @ - 1 ELSE @]
    /\ UNCHANGED <<ping, calls>>

net_recv_copied ==
    /\ At("recv", "taken")
    /\ app' = [app EXCEPT !.pc = "copied"]
    /\ UNCHANGED <<net, ping, calls>>

net_recv_clear ==
    /\ At("recv", "copied")
    /\ Set(app.s, [net.sockets[app.s] EXCEPT !.rx = FALSE])
    /\ app' = Idle /\ UNCHANGED <<ping, calls>>

---------------------------------------------------------------------------
net_init ==
    [arp |-> [i \in 1 .. ARP_CACHE_SIZE |->
                [ip |-> None, mac |-> None, timestamp |-> 0, valid |-> FALSE]],
     now |-> 0, sent |-> {}, heard |-> {}, answers |-> [s \in Socks |-> {}],
     ping_id |-> 0, reply |-> FALSE, ping_sem |-> 0, eph |-> EPHEMERAL[1],
     sockets |-> [i \in Socks |-> [type |-> "STREAM", in_use |-> FALSE, local |-> 0,
                    remote |-> None, state |-> "CLOSED", rx |-> FALSE, rx_sem |-> 0]]]

Init == net = net_init /\ ping = [pc |-> "idle", to |-> None, ok |-> FALSE] /\ app = Idle /\ calls = 0

Next ==
    \/ NetworkTask \/ Tick
    \/ (\E h \in Hosts : net_ping(h)) \/ ping_wait \/ ping_return
    \/ (\E type \in {"DGRAM", "STREAM"} : net_socket(type)) \/ net_socket_addr
    \/ \E s \in Socks :
          \/ net_close(s) \/ net_send(s) \/ net_recv(s)
          \/ \E p \in Ports : net_bind(s, p)
          \/ \E h \in Hosts : net_sendto(s, h) \/ net_connect(s, h)
    \/ net_connect_syn \/ net_connect_timeout
    \/ socket_wait \/ net_recv_copied \/ net_recv_clear

Spec == Init /\ [][Next]_vars

---------------------------------------------------------------------------
\* The cache and the socket table have their types.
TypeOK ==
    /\ net.arp \in [1 .. ARP_CACHE_SIZE -> arp_entry_t]
    /\ net.sockets \in [Socks -> socket_t]
    /\ net.ping_sem \in 0 .. MaxPingSem /\ net.eph \in EPHEMERAL[1] .. EPHEMERAL[2]

\* An IP packet leaves for the MAC address of the host it is meant for, whatever
\* the cache has evicted or holds twice.
SentToOwner == \A f \in net.sent : f.mac = f.ip

\* net_ping reports success only if the host it asked has answered this very
\* request: a late reply to an earlier ping, and a token such a reply left in the
\* semaphore, never count.
PingAnswered == ping.ok => <<ping.to, net.ping_id>> \in net.heard

\* Data in a receive buffer is announced: a reader that waits finds a token, or is
\* already past the wait.  Overwritten datagrams, timeouts that race an arrival,
\* connects on the same semaphore and slots that are used again leave no data
\* behind that nobody is woken for.
NoStrandedData ==
    \A s \in Socks : net.sockets[s].in_use /\ net.sockets[s].rx =>
        net.sockets[s].rx_sem > 0 \/ (app.op = "recv" /\ app.s = s /\ app.pc \in {"taken", "copied"})

\* A connection is established only if the host it names has sent to its port since the
\* socket began to connect: an answer to another attempt, even of the same socket to
\* another host, does not count.
EstablishedByPeer ==
    \A s \in Socks :
        /\ net.sockets[s].in_use /\ net.sockets[s].type = "STREAM"
        /\ net.sockets[s].state = "ESTABLISHED"
        => <<net.sockets[s].remote, net.sockets[s].local>> \in net.answers[s]
=============================================================================
