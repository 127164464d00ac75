------------------------------ MODULE MCNetwork ------------------------------
(***************************************************************************)
(* The network code for TLC.  A behaviour is one of the stack (Network),   *)
(* of an MQTT client (MQTT), of a CoAP client and server (CoAP), or shows  *)
(* one sample to the encodings (Codec); layer tells which.  The layers     *)
(* share no state, so their products would add nothing.                    *)
(***************************************************************************)
EXTENDS Network, MQTT, TLC

CONSTANTS Segments, MaxNow, MaxRequests, MaxRxSem
CONSTANTS Lengths, OptionNumbers, OptionLengths, PayloadLengths, TokenLengths, PduSizes,
          TopicLengths, MessageLengths, MQTT_MAX_TOPIC_LENGTH, MQTT_MAX_PACKET_SIZE,
          Octets, Words, ImageBytes, MaxImage, CRC_CHUNK, RegionStarts, RegionSizes,
          COAP_MAX_OPTION_COUNT

VARIABLES layer, cl, sv, wire, clock, sample

C == INSTANCE CoAP
D == INSTANCE Codec

EphemeralRange == <<2, 2>>
Symmetry == Permutations(Hosts)

cvars == <<cl, sv, wire, clock>>

NoSample == [kind |-> "none"]

LayersInit ==
    /\ layer \in {"stack", "mqtt", "coap", "codec"}
    /\ Init
    /\ mqtt_client_init
    /\ IF layer = "coap" THEN C!coap_init
       ELSE cl = NoSample /\ sv = NoSample /\ wire = {} /\ clock = 0
    /\ IF layer = "codec" THEN D!CodecInit ELSE sample = NoSample

LayersNext ==
    /\ UNCHANGED <<layer, sample>>
    /\ \/ layer = "stack" /\ Next /\ UNCHANGED <<mqttvars, cvars>>
       \/ layer = "mqtt" /\ MqttNext /\ UNCHANGED <<vars, cvars>>
       \/ layer = "coap" /\ C!CoapNext /\ UNCHANGED <<vars, mqttvars>>
       \/ layer = "codec" /\ UNCHANGED <<vars, mqttvars, cvars>>

LayersSpec == LayersInit /\ [][LayersNext]_<<layer, vars, mqttvars, cvars, sample>>

\* The properties of the instances, under names a configuration can use.

\* Fields in range, and more: the port counter stays among the ephemeral ports, and
\* client->mutex of the MQTT client is held exactly inside a call.
LayersTypeOK == TypeOK /\ MqttTypeOK /\ (layer = "coap" => C!CoapTypeOK)

\* CoAP: COAP_OK comes with the answer to this request;
AnswerIsOurs == layer = "coap" => C!AnswerIsOurs
\* CoAP: a path of one segment finds its resource.
PathFound == layer = "coap" => C!PathFound

\* Encodings are undone by their decodings: MQTT's remaining length and PUBLISH, the CoAP
\* PDU, the dotted address.
DecodedAsEncoded == D!LengthRoundTrip /\ D!PublishReceived /\ D!PduRoundTrip /\ D!AddressRoundTrip
\* The checksum passes the receiver's test, and the CRC of an image is CRC-32, chunk by
\* chunk or at once.
SumsAreStandard == D!ChecksumVerifies /\ D!CrcIsStandard
\* An MPU region covers what was asked for.
RegionCoversRequest == D!RegionCoversRequest
=============================================================================
