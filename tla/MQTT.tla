-------------------------------- MODULE MQTT --------------------------------
(***************************************************************************)
(* The MQTT client of src/src/mqtt.c.  Application tasks call the API,     *)
(* which holds client->mutex for a whole call; the background task runs    *)
(* mqtt_loop without the mutex, so it overlaps every call.                 *)
(*                                                                         *)
(* The client uses one socket at a time, and the lowest free slot of the   *)
(* socket table is taken again after a close: a background task that still *)
(* waits in net_recv after mqtt_disconnect reads from the next connection. *)
(* conn is therefore the connection now behind that slot.  The broker is   *)
(* external, and so is the name resolver, which succeeds or fails: the     *)
(* net_dns_resolve of this tree is a stub that always fails, and the model *)
(* is of the client with a resolver in its place.  A connection may break  *)
(* at any time and a packet may be lost on the way to the client (net_recv *)
(* drops what is left of a segment).  Of a packet its type is kept, of a   *)
(* time nothing.                                                           *)
(***************************************************************************)
EXTENDS Naturals, Sequences, FiniteSets, FiniteSetsExt

CONSTANTS
    Apps,           \* application tasks
    Topics,
    NoApp, NoTopic,
    MQTT_MAX_SUBSCRIPTIONS,
    ID_MOD,         \* 2^16, the modulus of a message id
    MaxApi,         \* bound: API calls that get past the first check
    MaxInbox        \* bound: packets on their way to the client

mqtt_state_t == {"DISCONNECTED", "CONNECTING", "CONNECTED", "DISCONNECTING"}

\* What a packet from the broker leaves in rx_buffer: the two CONNACKs, a packet with a
\* body (PUBLISH, SUBACK, ...) and one without (PINGRESP).
Replies == {"accepted", "refused", "body", "bare"}

mqtt_client_t ==
    [state : mqtt_state_t, next_message_id : 0 .. ID_MOD - 1, task_running : BOOLEAN,
     subscriptions : [1 .. MQTT_MAX_SUBSCRIPTIONS -> Topics \cup {NoTopic}],
     rx_buffer : Replies, mutex : Apps \cup {NoApp}, told : BOOLEAN]

VARIABLES
    client, \* struct mqtt_client; told is what connection_callback was last given
    conn,   \* the TCP connection: in_use, up (established), answered and accepted by the
            \* broker, its inbox, and as history what was sent before it accepted
    pc,     \* where each application task is
    task,   \* where the background task is
    ids,    \* history: the last ID_MOD - 1 message ids sent, newest first
    api     \* API calls that got past the first check

mqttvars == <<client, conn, pc, task, ids, api>>

NoConn == [in_use |-> FALSE, up |-> FALSE, answered |-> FALSE, accepted |-> FALSE,
           inbox |-> <<>>, early |-> {}]

mqtt_client_init ==
    /\ client = [state |-> "DISCONNECTED", next_message_id |-> 1, task_running |-> FALSE,
                 subscriptions |-> [i \in 1 .. MQTT_MAX_SUBSCRIPTIONS |-> NoTopic],
                 rx_buffer |-> "bare", mutex |-> NoApp, told |-> FALSE]
    /\ conn = NoConn
    /\ pc = [a \in Apps |-> "idle"]
    /\ task = "none"
    /\ ids = <<>>
    /\ api = 0

---------------------------------------------------------------------------
\* Packets.

\* The connection after net_send.
AfterSend(type) == IF conn.accepted THEN conn ELSE [conn EXCEPT !.early = @ \cup {type}]

\* Whether mqtt_send_packet may hand a packet to net_send.
mqtt_send_packet(c) == c.state \in {"CONNECTED", "CONNECTING"} /\ conn.in_use /\ conn.up

\* Mutant: the id wraps to 0.
mqtt_next_message_id_wraps(id) == (id + 1) % ID_MOD

mqtt_next_message_id(id) == IF (id + 1) % ID_MOD = 0 THEN 1 ELSE (id + 1) % ID_MOD

Recorded(id) == SubSeq(<<id>> \o ids, 1, Min({ID_MOD - 1, Len(ids) + 1}))

\* mqtt_receive_packet takes the next packet, or loses it, or finds none.
mqtt_receive_packet(err, type) ==
    \/ err = "OK" /\ conn.inbox # <<>> /\ type = Head(conn.inbox)
    \/ err = "NETWORK" /\ type = "bare"
    \/ err = "TIMEOUT" /\ type = "bare" /\ conn.inbox = <<>> /\ conn.in_use /\ conn.up

Taken(c) == IF c.inbox = <<>> THEN c ELSE [c EXCEPT !.inbox = Tail(@)]

Received(c, type) == IF type = "bare" THEN c ELSE [c EXCEPT !.rx_buffer = type]

---------------------------------------------------------------------------
\* The API.  A call holds the mutex from its first step to its return.

Lock(a, place, c) ==
    /\ pc[a] = "idle" /\ client.mutex = NoApp /\ api < MaxApi
    /\ api' = api + 1
    /\ client' = [c EXCEPT !.mutex = a]
    /\ pc' = [pc EXCEPT ![a] = place]

Return(a, c) ==
    /\ client' = [c EXCEPT !.mutex = NoApp]
    /\ pc' = [pc EXCEPT ![a] = "idle"]

Goto(a, from, to) == pc[a] = from /\ pc' = [pc EXCEPT ![a] = to]

\* A call made in the wrong state takes the mutex, sees the state and returns.
mqtt_wrong_state(a, want) ==
    /\ pc[a] = "idle" /\ client.mutex = NoApp /\ client.state # want
    /\ UNCHANGED mqttvars

\* mqtt_connect: net_socket finds a slot, or the table is full.
mqtt_connect(a) ==
    /\ client.state = "DISCONNECTED"
    /\ Lock(a, "resolve", [client EXCEPT !.state = "CONNECTING"])
    /\ conn' = [NoConn EXCEPT !.in_use = TRUE]
    /\ UNCHANGED <<task, ids>>

connect_no_socket(a) ==
    /\ pc[a] = "idle" /\ client.mutex = NoApp /\ client.state = "DISCONNECTED"
    /\ UNCHANGED mqttvars

\* Mutant: an error leaves the socket open.
connect_fail_open(a) ==
    /\ Return(a, [client EXCEPT !.state = "DISCONNECTED"])
    /\ UNCHANGED <<conn, task, ids, api>>

\* Every later error of mqtt_connect: close the socket, go back, unlock.
connect_fail(a) ==
    /\ Return(a, [client EXCEPT !.state = "DISCONNECTED"])
    /\ conn' = NoConn
    /\ UNCHANGED <<task, ids, api>>

\* net_dns_resolve and net_connect.
connect_open(a) ==
    /\ Goto(a, "resolve", "connect")
    /\ conn' = [conn EXCEPT !.up = TRUE]
    /\ UNCHANGED <<client, task, ids, api>>

connect_open_fails(a) == pc[a] = "resolve" /\ connect_fail(a)

mqtt_send_connect(a) ==
    /\ Goto(a, "connect", "connack")
    /\ mqtt_send_packet(client)
    /\ conn' = AfterSend("CONNECT")
    /\ UNCHANGED <<client, task, ids, api>>

send_connect_fails(a) == pc[a] = "connect" /\ connect_fail(a)

connect_receive(a) ==
    \E type \in Replies :
        /\ Goto(a, "connack", "handle")
        /\ mqtt_receive_packet("OK", type) /\ type \in {"accepted", "refused"}
        /\ conn' = Taken(conn)
        /\ client' = Received(client, type)
        /\ UNCHANGED <<task, ids, api>>

connect_receive_fails(a) ==
    /\ pc[a] = "connack"
    /\ \E err \in {"OK", "NETWORK", "TIMEOUT"}, type \in Replies :
          mqtt_receive_packet(err, type) /\ (err = "OK" => type \in {"body", "bare"})
    /\ connect_fail(a)

\* Mutant: the return code is not looked at.
mqtt_handle_connack_unchecked == {TRUE}

\* mqtt_handle_connack reads rx_buffer, which the background task may have overwritten
\* with another packet: its second byte may or may not be 0.
mqtt_handle_connack ==
    CASE client.rx_buffer = "accepted" -> {TRUE}
      [] client.rx_buffer = "refused"  -> {FALSE}
      [] OTHER                         -> BOOLEAN

\* The background task is created anew, whatever the last one was doing.
connect_handle(a) ==
    /\ pc[a] = "handle"
    /\ TRUE \in mqtt_handle_connack
    /\ Return(a, [client EXCEPT !.state = "CONNECTED", !.told = TRUE, !.task_running = TRUE])
    /\ task' = "top"
    /\ UNCHANGED <<conn, ids, api>>

connect_refused(a) ==
    pc[a] = "handle" /\ FALSE \in mqtt_handle_connack /\ connect_fail(a)

mqtt_disconnect(a) ==
    /\ client.state = "CONNECTED"
    /\ Lock(a, "close", [client EXCEPT !.state = "DISCONNECTING", !.task_running = FALSE])
    /\ UNCHANGED <<conn, task, ids>>

\* mqtt_send_disconnect sends nothing: the state is already DISCONNECTING.
mqtt_send_disconnect(a) ==
    /\ pc[a] = "close"
    /\ conn' = NoConn
    /\ Return(a, [client EXCEPT !.state = "DISCONNECTED", !.told = FALSE])
    /\ UNCHANGED <<task, ids, api>>

\* The second half of mqtt_publish, mqtt_subscribe and mqtt_unsubscribe: the packet with
\* its id is sent, or net_send fails; the id is used up either way.  done is the client
\* after a success.
SendWithId(a, type, done) ==
    LET id == mqtt_next_message_id(client.next_message_id)
    IN  \/ /\ mqtt_send_packet(client)
           /\ conn' = AfterSend(type)
           /\ Return(a, [done EXCEPT !.next_message_id = id])
           /\ ids' = Recorded(id)
           /\ UNCHANGED <<task, api>>
        \/ /\ Return(a, [client EXCEPT !.next_message_id = id])
           /\ ids' = Recorded(id)
           /\ UNCHANGED <<conn, task, api>>

mqtt_publish(a) ==
    /\ client.state = "CONNECTED"
    /\ Lock(a, "publish", client)
    /\ UNCHANGED <<conn, task, ids>>

mqtt_send_publish(a) == pc[a] = "publish" /\ SendWithId(a, "PUBLISH", client)

\* MQTT_QOS_0: no message id.
publish_qos0(a) ==
    /\ pc[a] = "publish"
    /\ conn' \in {conn} \cup (IF mqtt_send_packet(client) THEN {AfterSend("PUBLISH")} ELSE {})
    /\ Return(a, client)
    /\ UNCHANGED <<task, ids, api>>

Free == {i \in 1 .. MQTT_MAX_SUBSCRIPTIONS : client.subscriptions[i] = NoTopic}

mqtt_subscribe(a) ==
    /\ client.state = "CONNECTED" /\ Free # {}
    /\ Lock(a, "subscribe", client)
    /\ UNCHANGED <<conn, task, ids>>

subscribe_no_memory(a) ==
    /\ pc[a] = "idle" /\ client.mutex = NoApp /\ client.state = "CONNECTED" /\ Free = {}
    /\ UNCHANGED mqttvars

\* The slot is filled only after the packet has gone out.
mqtt_send_subscribe(a) ==
    \E t \in Topics :
        /\ pc[a] = "subscribe"
        /\ SendWithId(a, "SUBSCRIBE", [client EXCEPT !.subscriptions[Min(Free)] = t])

\* The first slot of the topic is given up before the packet is sent.
mqtt_unsubscribe(a, t) ==
    LET at == {i \in DOMAIN client.subscriptions : client.subscriptions[i] = t}
        c  == IF at = {} THEN client ELSE [client EXCEPT !.subscriptions[Min(at)] = NoTopic]
    IN  /\ client.state = "CONNECTED"
        /\ Lock(a, "unsubscribe", c)
        /\ UNCHANGED <<conn, task, ids>>

mqtt_send_unsubscribe(a) == pc[a] = "unsubscribe" /\ SendWithId(a, "UNSUBSCRIBE", client)

---------------------------------------------------------------------------
\* The background task.

mqtt_task ==
    /\ task = "top"
    /\ task' = IF ~client.task_running THEN "none"
               ELSE IF client.state = "CONNECTED" THEN "ping" ELSE "top"
    /\ UNCHANGED <<client, conn, pc, ids, api>>

\* mqtt_loop: a ping if the keepalive time has passed.
mqtt_send_pingreq ==
    /\ task = "ping"
    /\ task' = "receive"
    /\ conn' \in {conn} \cup (IF mqtt_send_packet(client) THEN {AfterSend("PINGREQ")} ELSE {})
    /\ UNCHANGED <<client, pc, ids, api>>

\* Then one packet; no packet and no error changes anything but rx_buffer.
mqtt_loop ==
    /\ task = "receive"
    /\ task' = "top"
    /\ \E err \in {"OK", "NETWORK", "TIMEOUT"}, type \in Replies :
          /\ mqtt_receive_packet(err, type)
          /\ client' = IF err = "OK" THEN Received(client, type) ELSE client
          /\ conn' = IF err = "TIMEOUT" THEN conn ELSE Taken(conn)
    /\ UNCHANGED <<pc, ids, api>>

---------------------------------------------------------------------------
\* The broker and the connection.

Broker ==
    /\ conn.in_use /\ conn.up /\ Len(conn.inbox) < MaxInbox
    /\ \/ /\ "CONNECT" \in conn.early /\ ~conn.answered
          /\ \E r \in {"accepted", "refused"} :
                conn' = [conn EXCEPT !.answered = TRUE, !.accepted = r = "accepted",
                                     !.inbox = Append(@, r)]
       \/ /\ conn.accepted
          /\ \E r \in {"body", "bare"} : conn' = [conn EXCEPT !.inbox = Append(@, r)]
    /\ UNCHANGED <<client, pc, task, ids, api>>

Break ==
    /\ conn.up
    /\ conn' = [conn EXCEPT !.up = FALSE]
    /\ UNCHANGED <<client, pc, task, ids, api>>

AppStep(a) ==
    \/ mqtt_wrong_state(a, "CONNECTED") \/ mqtt_wrong_state(a, "DISCONNECTED")
    \/ mqtt_connect(a) \/ connect_no_socket(a) \/ connect_open(a) \/ connect_open_fails(a)
    \/ mqtt_send_connect(a) \/ send_connect_fails(a)
    \/ connect_receive(a) \/ connect_receive_fails(a) \/ connect_handle(a) \/ connect_refused(a)
    \/ mqtt_disconnect(a) \/ mqtt_send_disconnect(a)
    \/ mqtt_publish(a) \/ mqtt_send_publish(a) \/ publish_qos0(a)
    \/ mqtt_subscribe(a) \/ subscribe_no_memory(a) \/ mqtt_send_subscribe(a)
    \/ (\E t \in Topics : mqtt_unsubscribe(a, t)) \/ mqtt_send_unsubscribe(a)

MqttNext ==
    \/ \E a \in Apps : AppStep(a)
    \/ mqtt_task \/ mqtt_send_pingreq \/ mqtt_loop
    \/ Broker \/ Break

---------------------------------------------------------------------------
\* Properties.

\* The client is well formed, and the mutex is held exactly by the task inside a call:
\* no error path returns with it.
MqttTypeOK ==
    /\ client \in mqtt_client_t
    /\ conn.early \subseteq {"CONNECT", "PUBLISH", "SUBSCRIBE", "UNSUBSCRIBE", "PINGREQ"}
    /\ task \in {"none", "top", "ping", "receive"}
    /\ \A a \in Apps : pc[a] # "idle" <=> client.mutex = a

\* Between calls the state tells the truth: CONNECTED means a connection whose CONNECT the
\* broker has accepted, DISCONNECTED that no socket is left open, and the last
\* connection_callback said the same (mqtt_connect and mqtt_disconnect, all error paths,
\* with a background task of the last session still receiving).
StateTellsSession ==
    client.mutex = NoApp =>
        \/ client.state = "CONNECTED" /\ conn.in_use /\ conn.accepted /\ client.told
        \/ client.state = "DISCONNECTED" /\ ~conn.in_use /\ ~client.told

\* Before the broker has accepted a connection nothing of the application reaches it: the
\* first packets are the CONNECT and at most a PINGREQ of a background task left over from
\* the session before (mqtt_send_packet lets packets pass while CONNECTING).
NothingBeforeSession == conn.early \subseteq {"CONNECT", "PINGREQ"}

\* Message ids are never 0, and an id comes again only after all the others
\* (mqtt_next_message_id, called by tasks that take turns under the mutex).
IdsInTurn == \A i, j \in DOMAIN ids : ids[i] # 0 /\ (ids[i] = ids[j] => i = j)
=============================================================================
