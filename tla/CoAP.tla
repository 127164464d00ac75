-------------------------------- MODULE CoAP --------------------------------
(***************************************************************************)
(* The CoAP client and server of src/src/coap.c, on two devices, over UDP. *)
(* A datagram may be lost, delayed, duplicated or overtaken: whatever was  *)
(* sent can arrive at any time and any number of times.  The receive       *)
(* buffer of a socket holds one datagram and its semaphore counts          *)
(* arrivals, as in net/socket.c: a second arrival overwrites the first.    *)
(*                                                                         *)
(* A path is the sequence of its segments.  The bytes of a PDU are in      *)
(* module Codec; payloads and content formats are left out.                *)
(***************************************************************************)
EXTENDS Naturals, Sequences, SequencesExt, FiniteSets

CONSTANTS
    Segments,       \* segments of paths, all of one length
    None,
    MaxNow,         \* bound: ticks
    MaxRequests,    \* bound: requests
    MaxRxSem        \* bound: tokens of rx_sem

Paths == {<<>>} \cup {<<s>> : s \in Segments} \cup (Segments \X Segments)

VARIABLES
    cl,         \* the client: its context, where its task is and what the request returned
    sv,         \* the server: whether its socket is open, and its resources, last made first
    wire,       \* every datagram sent so far
    clock       \* os_get_tick_count on the client

coapvars == <<cl, sv, wire, clock>>

---------------------------------------------------------------------------
\* The server.

\* A resource is known by its path as a string: "/", or "/" before every segment.
PathString(p) == IF p = <<>> THEN <<"/">> ELSE FlattenSeq([i \in DOMAIN p |-> <<"/", p[i]>>])

coap_resource_create(rs, p) == <<PathString(p)>> \o rs

coap_find_resource(rs, uri_path) == \E i \in DOMAIN rs : rs[i] = uri_path

\* Mutant: the slash after the last segment stays.
UriPath_slash(options) == <<"/">> \o FlattenSeq([i \in DOMAIN options |-> <<options[i], "/">>])

\* "/" and then every segment with a slash after it; the last slash is taken off.
UriPath(options) ==
    LET s == <<"/">> \o FlattenSeq([i \in DOMAIN options |-> <<options[i], "/">>])
    IN  IF Len(s) > 1 THEN Front(s) ELSE s

\* The reply has the id and the token of the request.
coap_process ==
    \E m \in wire :
        /\ sv.open /\ m.kind = "request"
        /\ wire' = wire \cup
             {[kind |-> "response", message_id |-> m.message_id, token |-> m.token,
               code |-> IF coap_find_resource(sv.resources, UriPath(m.options)) THEN 205 ELSE 404]}
        /\ UNCHANGED <<cl, sv, clock>>

\* coap_stop closes the socket, if it is open, and frees the resources.
coap_stop ==
    /\ sv' = [open |-> FALSE, resources |-> <<>>]
    /\ UNCHANGED <<cl, wire, clock>>

---------------------------------------------------------------------------
\* The client.

\* Every URI-Path option points at the one buffer path_segment, which the last segment
\* has overwritten by the time the PDU is encoded.
UriPathOptions(p) == [i \in DOMAIN p |-> p[Len(p)]]

coap_generate_message_id == cl.next_message_id

coap_generate_token == clock

\* coap_send_request_internal up to net_recvfrom, which it enters as the task's next step.
coap_send_request(p) ==
    /\ cl.pc = "idle" /\ cl.next_message_id <= MaxRequests
    /\ cl' = [cl EXCEPT !.next_message_id = @ + 1, !.pc = "receive", !.path = p,
                        !.message_id = coap_generate_message_id,
                        !.token = coap_generate_token, !.answer = None,
                        !.at = Append(@, clock)]
    /\ wire' = wire \cup
         {[kind |-> "request", message_id |-> coap_generate_message_id,
           token |-> coap_generate_token, options |-> UriPathOptions(p)]}
    /\ UNCHANGED <<sv, clock>>

\* net_sendto fails.
coap_send_fails ==
    /\ cl.pc = "idle" /\ cl.next_message_id <= MaxRequests
    /\ cl' = [cl EXCEPT !.next_message_id = @ + 1, !.at = Append(@, clock), !.answer = None]
    /\ UNCHANGED <<sv, wire, clock>>

\* Mutant: any response is taken for the answer.
TokenMatches_any(m) == TRUE

TokenMatches(m) == m.token = cl.token

\* The rest of coap_send_request_internal: COAP_OK with the answer, or
\* COAP_ERROR_INVALID_MESSAGE, or COAP_ERROR_TIMEOUT for a token without a datagram.
coap_receive_response ==
    /\ cl.pc = "receive" /\ cl.rx_sem > 0
    /\ cl' = [cl EXCEPT !.pc = "idle", !.rx_sem = @ - 1, !.rx = None,
                        !.answer = IF cl.rx # None /\ TokenMatches(cl.rx) THEN cl.rx ELSE None]
    /\ UNCHANGED <<sv, wire, clock>>

coap_timeout ==
    /\ cl.pc = "receive" /\ cl.rx_sem = 0
    /\ cl' = [cl EXCEPT !.pc = "idle"]
    /\ UNCHANGED <<sv, wire, clock>>

\* net_udp_input on the client's socket.
Arrive ==
    \E m \in wire :
        /\ m.kind = "response" /\ cl.rx_sem < MaxRxSem
        /\ cl' = [cl EXCEPT !.rx = m, !.rx_sem = @ + 1]
        /\ UNCHANGED <<sv, wire, clock>>

Tick ==
    /\ clock < MaxNow
    /\ clock' = clock + 1
    /\ UNCHANGED <<cl, sv, wire>>

\* coap_init and coap_start on both devices; the server has made one resource or two.
coap_init ==
    /\ cl = [next_message_id |-> 1, pc |-> "idle", path |-> <<>>, message_id |-> 0, token |-> 0,
             answer |-> None, rx |-> None, rx_sem |-> 0, at |-> <<>>]
    /\ sv \in {[open |-> TRUE, resources |-> FoldLeft(coap_resource_create, <<>>, made)] :
                   made \in {<<p>> : p \in Paths} \cup {<<<<>>, <<s>>>> : s \in Segments}}
    /\ wire = {}
    /\ clock = 0

CoapNext ==
    \/ coap_process \/ coap_stop
    \/ (\E p \in Paths : coap_send_request(p)) \/ coap_send_fails
    \/ coap_receive_response \/ coap_timeout
    \/ Arrive \/ Tick

---------------------------------------------------------------------------
\* Properties.

\* The fields keep to their ranges.
CoapTypeOK ==
    /\ cl.next_message_id \in 1 .. MaxRequests + 1
    /\ cl.rx_sem \in 0 .. MaxRxSem
    /\ Len(cl.at) = cl.next_message_id - 1
    /\ cl.rx # None => cl.rx \in wire

\* COAP_OK means an answer to this very request, never a late or repeated answer to one
\* before, unless two requests were made in the same tick and have the same token
\* (coap_generate_token, the token test of coap_send_request_internal).
AnswerIsOurs ==
    cl.answer # None =>
        \/ cl.answer.message_id = cl.message_id
        \/ \E i, j \in DOMAIN cl.at : i # j /\ cl.at[i] = cl.at[j]

\* A request for a path of at most one segment is dispatched to the resource made under
\* that path: 2.05 exactly if there is one (the options of the client, the string that
\* coap_process joins, coap_find_resource).
PathFound ==
    (cl.answer # None /\ Len(cl.path) <= 1 /\ sv.open /\ cl.answer.message_id = cl.message_id) =>
        (cl.answer.code = 205 <=> coap_find_resource(sv.resources, PathString(cl.path)))
=============================================================================
