-------------------------------- MODULE Codec -------------------------------
(***************************************************************************)
(* The encodings, byte for byte: the remaining length of an MQTT packet    *)
(* (mqtt.c), the CoAP PDU (coap.c), the dotted address and the Internet    *)
(* checksum (net/network.c), the CRC of an image (ota.c) and the registers *)
(* of a memory region (security.c).  Each is checked against its inverse,  *)
(* against the receiver's test or against a reference, over the samples    *)
(* below: every sample is an initial state and nothing happens after it.   *)
(***************************************************************************)
EXTENDS Naturals, Integers, Sequences, SequencesExt, FiniteSetsExt

CONSTANTS
    Lengths,        \* remaining lengths of an MQTT packet
    TopicLengths, MessageLengths, MQTT_MAX_TOPIC_LENGTH, MQTT_MAX_PACKET_SIZE,
    OptionNumbers, OptionLengths, PayloadLengths, TokenLengths, PduSizes,
    Octets,         \* parts of an address
    Words,          \* 16-bit words of checksummed data
    ImageBytes, MaxImage, CRC_CHUNK,        \* images, and the 4096 bytes read at a time
    RegionStarts, RegionSizes,
    COAP_MAX_OPTION_COUNT

VARIABLE sample

Filled(n) == [i \in 1 .. n |-> 255]

---------------------------------------------------------------------------
\* mqtt.c

RECURSIVE mqtt_encode_remaining_length(_)
mqtt_encode_remaining_length(length) ==
    IF length < 128 THEN <<length>>
    ELSE <<(length % 128) + 128>> \o mqtt_encode_remaining_length(length \div 128)

\* At most four bytes, up to the first without the top bit.
mqtt_decode_remaining_length(b) ==
    LET last == Min({i \in 1 .. Len(b) : b[i] < 128 \/ i = 4})
    IN  FoldLeftDomain(LAMBDA v, i : v + (b[i] % 128) * 128 ^ (i - 1), 0, SubSeq(b, 1, last))

mqtt_encode_string(str) == <<Len(str) \div 256, Len(str) % 256>> \o str

\* MQTT_MSG_TYPE_PUBLISH is 3; the message is not retained.
mqtt_send_publish(topic, payload, qos, id) ==
    <<3 * 16 + qos * 2>>
    \o mqtt_encode_remaining_length(2 + Len(topic) + Len(payload) + (IF qos > 0 THEN 2 ELSE 0))
    \o mqtt_encode_string(topic)
    \o (IF qos > 0 THEN <<id \div 256, id % 256>> ELSE <<>>)
    \o payload

\* rx_buffer, or -1 for a packet that does not fit.
mqtt_receive_packet(b) ==
    LET len_bytes == Min({i \in 1 .. 4 : b[1 + i] < 128 \/ i = 4})
        remaining == mqtt_decode_remaining_length(SubSeq(b, 2, 1 + len_bytes))
    IN  IF remaining > MQTT_MAX_PACKET_SIZE THEN <<-1>>
        ELSE SubSeq(b, 2 + len_bytes, 1 + len_bytes + remaining)

\* What message_callback is given, or -1 for MQTT_ERROR_PROTOCOL.
mqtt_handle_publish(rx) ==
    LET topic_len == rx[1] * 256 + rx[2]
    IN  IF topic_len >= MQTT_MAX_TOPIC_LENGTH \/ 2 + topic_len > Len(rx) THEN <<-1>>
        ELSE [topic |-> SubSeq(rx, 3, 2 + topic_len), payload |-> SubSeq(rx, 3 + topic_len, Len(rx))]

---------------------------------------------------------------------------
\* coap.c.  An option is its number and its value, a PDU its fields.

\* The nibble and the bytes that extend it.
coap_encode_option_delta_length(value) ==
    IF value < 13 THEN [nibble |-> value, ext |-> <<>>]
    ELSE IF value < 269 THEN [nibble |-> 13, ext |-> <<value - 13>>]
    ELSE [nibble |-> 14, ext |-> <<(value - 269) \div 256, (value - 269) % 256>>]

\* Mutant: one byte is taken to reach to 256.
coap_decode_option_delta_length_256(b, at, nibble) ==
    IF nibble < 13 THEN [value |-> nibble, at |-> at]
    ELSE IF nibble = 13 THEN [value |-> (b[at] + 13) % 256, at |-> at + 1]
    ELSE [value |-> (b[at] * 256 + b[at + 1] + 269) % 65536, at |-> at + 2]

\* The value and the place after it; nibble 15 does not come from an encoder.
coap_decode_option_delta_length(b, at, nibble) ==
    IF nibble < 13 THEN [value |-> nibble, at |-> at]
    ELSE IF nibble = 13 THEN [value |-> b[at] + 13, at |-> at + 1]
    ELSE [value |-> (b[at] * 256 + b[at + 1] + 269) % 65536, at |-> at + 2]

\* The delta is a uint16_t, so a smaller number after a larger one wraps.
EncodeOption(d, l, value) ==
    <<d.nibble * 16 + l.nibble>> \o d.ext \o l.ext \o value

EncodeOptions(options) ==
    FoldLeftDomain(LAMBDA b, i :
        b \o EncodeOption(
                coap_encode_option_delta_length(
                    (options[i].number - (IF i = 1 THEN 0 ELSE options[i - 1].number)) % 65536),
                coap_encode_option_delta_length(Len(options[i].value)),
                options[i].value),
        <<>>, options)

\* The bytes, or -1 when they do not fit.
coap_pdu_encode(pdu, size) ==
    LET b == <<64 + pdu.type * 16 + Len(pdu.token), pdu.code,
               pdu.message_id \div 256, pdu.message_id % 256>>
             \o pdu.token \o EncodeOptions(pdu.options)
             \o (IF pdu.payload = <<>> THEN <<>> ELSE <<255>> \o pdu.payload)
    IN  IF Len(b) > size THEN <<-1>> ELSE b

\* The loop over options and payload, from place at; error is INVALID_MESSAGE.
RECURSIVE DecodeFrom(_, _, _, _)
DecodeOption(b, delta, len, num, options) ==
    IF len.at + len.value - 1 > Len(b) THEN [error |-> TRUE, options |-> options, payload |-> <<>>]
    ELSE DecodeFrom(b, len.at + len.value, (num + delta) % 65536,
             Append(options, [number |-> (num + delta) % 65536,
                              value |-> SubSeq(b, len.at, len.at + len.value - 1)]))
DecodeLength(b, at, delta, num, options) ==
    DecodeOption(b, delta.value, coap_decode_option_delta_length(b, delta.at, b[at] % 16),
                 num, options)
DecodeFrom(b, at, num, options) ==
    IF at > Len(b) THEN [error |-> FALSE, options |-> options, payload |-> <<>>]
    ELSE IF b[at] = 255
         THEN [error |-> FALSE, options |-> options, payload |-> SubSeq(b, at + 1, Len(b))]
    ELSE IF Len(options) >= COAP_MAX_OPTION_COUNT
         THEN [error |-> TRUE, options |-> options, payload |-> <<>>]
    ELSE DecodeLength(b, at, coap_decode_option_delta_length(b, at + 1, b[at] \div 16),
                      num, options)

\* Without a payload marker the code leaves payload_length as it was; the callers' field
\* is then not to be read, and <<>> stands for it here.
Decoded(b, tkl, rest) ==
    IF rest.error THEN <<-1>> ELSE
    [type |-> (b[1] \div 16) % 4, code |-> b[2], message_id |-> b[3] * 256 + b[4],
     token |-> SubSeq(b, 5, 4 + tkl), options |-> rest.options, payload |-> rest.payload]

\* The PDU, or -1 after an error: length, version, token or options are wrong.
coap_pdu_decode(b) ==
    IF Len(b) < 4 \/ b[1] \div 64 # 1 \/ b[1] % 16 > 8 \/ 4 + (b[1] % 16) > Len(b) THEN <<-1>>
    ELSE Decoded(b, b[1] % 16, DecodeFrom(b, 5 + (b[1] % 16), 0, <<>>))

---------------------------------------------------------------------------
\* net/network.c

\* A digit is a number, the dot -1.
Decimal(v) ==
    (IF v >= 100 THEN <<v \div 100>> ELSE <<>>)
    \o (IF v >= 10 THEN <<(v % 100) \div 10>> ELSE <<>>) \o <<v % 10>>

net_format_ipv4(ip) ==
    Decimal(ip[1]) \o <<-1>> \o Decimal(ip[2]) \o <<-1>> \o Decimal(ip[3]) \o <<-1>> \o Decimal(ip[4])

\* At most three digits from place at.
Digits(s, at) ==
    LET stop == Min({i \in at .. Len(s) + 1 : i > Len(s) \/ i = at + 3 \/ s[i] = -1})
    IN  SubSeq(s, at, stop - 1)

\* Part i of the address, or <<>> after an error; a part but the last ends at a dot.
RECURSIVE ParseFrom(_, _, _)
ParsePart(s, at, ip, digits, value) ==
    IF digits = <<>> \/ value > 255 THEN <<>>
    ELSE IF Len(ip) = 3
         THEN IF at + Len(digits) > Len(s) THEN Append(ip, value) ELSE <<>>
    ELSE IF at + Len(digits) > Len(s) \/ s[at + Len(digits)] # -1 THEN <<>>
    ELSE ParseFrom(s, at + Len(digits) + 1, Append(ip, value))
ParseFrom(s, at, ip) ==
    ParsePart(s, at, ip, Digits(s, at),
              FoldLeft(LAMBDA v, d : v * 10 + d, 0, Digits(s, at)))

net_parse_ipv4(s) == ParseFrom(s, 1, <<>>)

RECURSIVE Fold16(_)
Fold16(sum) == IF sum < 65536 THEN sum ELSE Fold16((sum % 65536) + (sum \div 65536))

\* words are the 16-bit words of the data, an odd last byte as one of them.
net_checksum(words) == 65535 - Fold16(FoldLeft(+, 0, words))

---------------------------------------------------------------------------
\* ota.c.  A 32-bit word is the set of the places of its ones.

Ones(byte) == {i \in 0 .. 7 : (byte \div 2 ^ i) % 2 = 1}

Xor(v, w) == (v \ w) \cup (w \ v)

ShiftRight(w, n) == {i - n : i \in w \ 0 .. (n - 1)}

\* 0xEDB88320 goes in for every 1 that is shifted out.
CrcBit(crc) ==
    Xor(ShiftRight(crc, 1),
        IF 0 \in crc THEN {5, 8, 9, 15, 19, 20, 21, 23, 24, 26, 27, 29, 30, 31} ELSE {})

crc32_init_table(index) ==
    CrcBit(CrcBit(CrcBit(CrcBit(CrcBit(CrcBit(CrcBit(CrcBit(index))))))))

CrcByte(crc, byte) ==
    Xor(ShiftRight(crc, 8), crc32_init_table(Xor(crc, Ones(byte)) \cap 0 .. 7))

\* The loop over the bytes.
RECURSIVE CrcOf(_, _)
CrcOf(crc, data) == IF data = <<>> THEN crc ELSE CrcByte(CrcOf(crc, Front(data)), Last(data))

crc32_calculate(data) == (0 .. 31) \ CrcOf(0 .. 31, data)

\* Mutant: the sum starts again with every chunk.
ota_compute_crc32_restarted(data) ==
    LET last == (Max({Len(data), 1}) - 1) \div CRC_CHUNK
    IN  crc32_calculate(SubSeq(data, last * CRC_CHUNK + 1, Len(data)))

\* CRC_CHUNK bytes at a time, the rest in the last chunk.
RECURSIVE CrcOfChunks(_, _)
CrcOfChunks(crc, data) ==
    IF data = <<>> THEN crc
    ELSE CrcOfChunks(CrcOf(crc, SubSeq(data, 1, Min({CRC_CHUNK, Len(data)}))),
                     SubSeq(data, CRC_CHUNK + 1, Len(data)))

\* os_malloc and flash_read succeed.
ota_compute_crc32(data) == (0 .. 31) \ CrcOfChunks(0 .. 31, data)

\* CRC-32 by its definition: the remainder of dividing the bits, the lowest of a byte
\* first, by the polynomial 0x04C11DB7, in a register that starts full; the remainder is
\* complemented and read backwards.
Divide(register, bit) ==
    Xor({i + 1 : i \in register \ {31}},
        IF (31 \in register) = (bit = 1) THEN {}
        ELSE {0, 1, 2, 4, 5, 7, 8, 10, 11, 12, 16, 22, 23, 26})

RECURSIVE Remainder(_, _)
Remainder(data, n) ==
    IF n = 0 THEN 0 .. 31
    ELSE Divide(Remainder(data, n - 1),
                (data[((n - 1) \div 8) + 1] \div 2 ^ ((n - 1) % 8)) % 2)

CrcReference(data) == {31 - i : i \in (0 .. 31) \ Remainder(data, 8 * Len(data))}

---------------------------------------------------------------------------
\* security.c

\* Mutant: the size has to be passed, not reached.
SizeBits_above(size) == Min({b \in 0 .. 30 : 2 ^ b > size} \cup {31})

\* The loop over size_bits; sizes are below 2^31 here.
SizeBits(size) == Min({b \in 0 .. 30 : 2 ^ b >= size} \cup {31})

\* The access field: nobody, reading and writing, reading.
ApBits(permissions) ==
    IF "WRITE" \in permissions THEN 3 ELSE IF "READ" \in permissions THEN 6 ELSE 0

\* RBAR and the fields of RASR, or FALSE for a region that is refused.
os_mpu_set_region(id, start, size, permissions) ==
    IF id >= 8 \/ start % 32 # 0 \/ SizeBits(size) < 5 THEN [ok |-> FALSE]
    ELSE [ok |-> TRUE, rbar |-> start, size |-> SizeBits(size) - 1, ap |-> ApBits(permissions)]

\* What the hardware protects: 2^(field + 1) bytes, the low bits of the base ignored.
Region(regs) ==
    LET size == 2 ^ (regs.size + 1)
    IN  [first |-> (regs.rbar \div size) * size, last |-> (regs.rbar \div size) * size + (size - 1)]

\* Flash, SRAM and peripherals.
os_mpu_configure_default ==
    <<os_mpu_set_region(0, 0, 256 * 1024, {"READ", "EXEC"}),
      os_mpu_set_region(1, 2 ^ 29, 64 * 1024, {"READ", "WRITE"}),
      os_mpu_set_region(2, 2 ^ 30, 512 * 1024 * 1024, {"READ", "WRITE"})>>

---------------------------------------------------------------------------
\* The samples.

Options == {<<>>} \cup
    {<<[number |-> n, value |-> Filled(l)]>> : n \in OptionNumbers, l \in OptionLengths} \cup
    {<<[number |-> n, value |-> Filled(l)], [number |-> m, value |-> Filled(k)]>> :
         n \in OptionNumbers, m \in OptionNumbers, l \in OptionLengths, k \in {0, 13}}

coap_pdu_t ==
    {[type |-> 2, code |-> 69, message_id |-> 511, token |-> Filled(t), options |-> o,
      payload |-> Filled(p)] : t \in TokenLengths, o \in Options, p \in PayloadLengths}

CodecInit ==
    \/ \E n \in Lengths : sample = [kind |-> "length", length |-> n]
    \/ \E t \in TopicLengths, m \in MessageLengths, q \in 0 .. 2 :
           sample = [kind |-> "publish", topic |-> Filled(t), payload |-> Filled(m), qos |-> q]
    \/ \E p \in coap_pdu_t, z \in PduSizes : sample = [kind |-> "pdu", pdu |-> p, size |-> z]
    \/ \E ip \in [1 .. 4 -> Octets] : sample = [kind |-> "address", ip |-> ip]
    \/ \E w \in [1 .. 4 -> Words] : sample = [kind |-> "words", words |-> w]
    \/ \E b \in BoundedSeq(ImageBytes, MaxImage) : sample = [kind |-> "image", data |-> b]
    \/ \E a \in RegionStarts, z \in RegionSizes, q \in SUBSET {"READ", "WRITE", "EXEC"} :
           sample = [kind |-> "region", start |-> a, size |-> z, permissions |-> q]

---------------------------------------------------------------------------
\* Properties.

\* The remaining length of a packet survives encoding and decoding, up to the four bytes
\* that the protocol allows (mqtt_encode_remaining_length, mqtt_decode_remaining_length).
LengthRoundTrip ==
    sample.kind = "length" =>
        mqtt_decode_remaining_length(mqtt_encode_remaining_length(sample.length)) = sample.length

\* A message published with QoS 0, with a topic that fits, is given to the callback with
\* the same topic and payload, on both sides of the two-byte remaining length; any other
\* message keeps its topic (mqtt_send_publish, mqtt_receive_packet, mqtt_handle_publish).
PublishReceived ==
    sample.kind = "publish" =>
        LET b   == mqtt_send_publish(sample.topic, sample.payload, sample.qos, 258)
            msg == mqtt_handle_publish(mqtt_receive_packet(b))
        IN  IF Len(sample.topic) >= MQTT_MAX_TOPIC_LENGTH THEN msg = <<-1>>
            ELSE /\ msg.topic = sample.topic
                 /\ sample.qos = 0 => msg.payload = sample.payload

\* A PDU that fits the buffer is decoded to what was encoded: numbers and lengths on both
\* sides of 13 and 269, options out of order, values full of payload markers
\* (coap_pdu_encode, coap_pdu_decode).
PduRoundTrip ==
    sample.kind = "pdu" =>
        LET b == coap_pdu_encode(sample.pdu, sample.size)
        IN  b # <<-1>> => coap_pdu_decode(b) = sample.pdu

\* An address survives formatting and parsing (net_format_ipv4, net_parse_ipv4).
AddressRoundTrip ==
    sample.kind = "address" => net_parse_ipv4(net_format_ipv4(sample.ip)) = sample.ip

\* A receiver that adds up the words and the checksum in one's complement arithmetic,
\* modulo 65535, gets zero, the test of RFC 1071 (net_checksum, carries of carries
\* included).
ChecksumVerifies ==
    sample.kind = "words" =>
        (FoldLeft(+, 0, sample.words) + net_checksum(sample.words)) % 65535 = 0

\* The CRC of an image, read in chunks with a table, is CRC-32 as it is defined, whatever
\* is left for the last chunk, and the one crc32_calculate finds in one piece
\* (ota_compute_crc32, crc32_calculate).
CrcIsStandard ==
    sample.kind = "image" =>
        /\ ota_compute_crc32(sample.data) = CrcReference(sample.data)
        /\ crc32_calculate(sample.data) = ota_compute_crc32(sample.data)

\* A region that is accepted, and starts at a multiple of the size it gets, covers what
\* was asked for and less than twice that, 32 bytes at least, and can be written only if
\* that was asked for; the default regions are accepted and apart (os_mpu_set_region,
\* os_mpu_configure_default).
RegionCoversRequest ==
    sample.kind = "region" =>
        /\ LET regs == os_mpu_set_region(0, sample.start, sample.size, sample.permissions)
           IN  regs.ok /\ sample.start % 2 ^ (regs.size + 1) = 0 =>
                   /\ Region(regs).first = sample.start
                   /\ Region(regs).last >= sample.start + (sample.size - 1)
                   /\ Region(regs).last - sample.start < Max({32, 2 * sample.size - 1})
                   /\ regs.ap \in {1, 2, 3} => "WRITE" \in sample.permissions
        /\ \A i \in 1 .. 3 : os_mpu_configure_default[i].ok
        /\ \A i \in 1 .. 2 : Region(os_mpu_configure_default[i]).last
                               < Region(os_mpu_configure_default[i + 1]).first
=============================================================================
