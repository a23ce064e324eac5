------------------------------ MODULE FrameCodec ------------------------------
(***************************************************************************)
(* The wire format: frames (protocol/frame.rs) and the payloads of the     *)
(* handshake (protocol/handshake.rs), as operators on byte streams.        *)
(*                                                                         *)
(* A stream is a sequence of cells, one for each field of fixed width and  *)
(* one for each byte of a payload or padding.  Cutting a stream inside a   *)
(* field of several bytes makes decode wait just as cutting before it      *)
(* does, so fields are never cut.  The checksum cell holds what it covers  *)
(* and the HMAC cell what it is computed from: a CRC32 or an HMAC-SHA256   *)
(* that matches for other content is left out.                             *)
(***************************************************************************)
EXTENDS Integers, Sequences

CONSTANT U16        \* 2^16, the modulus of the u16 length fields

ASSUME CodecAssumption == U16 \in Nat /\ U16 > 1

MAGIC == <<90>>
VERSION == <<1>>
HEADER_LEN == 5     \* magic, version, type, stream_id, payload_len
CRC_LEN == 1
CONTROL_STREAM_ID == 255

TypeByte == [HandshakeReq |-> 1, HandshakeAck |-> 2, AuthFail |-> 3,
             StreamOpen |-> 16, StreamOpenAck |-> 17, StreamData |-> 18,
             StreamClose |-> 19, Heartbeat |-> 32, HeartbeatAck |-> 33,
             UdpDatagram |-> 48, Probe |-> 254, Error |-> 255]
FrameTypes == DOMAIN TypeByte

new(type, sid, payload) == [type |-> type, stream_id |-> sid, payload |-> payload, padding |-> <<>>]
new_control(type, payload) == new(type, CONTROL_STREAM_ID, payload)

\* apply_random_padding with the length it draws; the bytes do not matter.
Padded(f, len) == [f EXCEPT !.padding = [i \in 1..len |-> <<0>>]]

crc32(cells) == <<"crc", cells>>

\* The length fields are cast to their width; payload_len is a u32, which no
\* payload of this program exceeds.
encode(f) ==
    LET body == <<MAGIC, VERSION, <<TypeByte[f.type]>>, <<f.stream_id>>, <<Len(f.payload)>>>>
                    \o f.payload \o <<<<Len(f.padding) % U16>>>> \o f.padding
    IN  Append(body, crc32(body))

-------------------------------------------------------------------------------
(* decode *)

HeaderValid(buf) == /\ buf[1] = MAGIC
                    /\ buf[2] = VERSION
                    /\ \E t \in FrameTypes : buf[3] = <<TypeByte[t]>>

PaddingLenAt(buf) == HEADER_LEN + buf[5][1] + 1

\* The length of the frame at the start of buf, its padding_len being there.
\* (The first version of the codec has no padding.)
Bug_FrameLen(buf) == PaddingLenAt(buf) + CRC_LEN
FrameLen(buf) == PaddingLenAt(buf) + buf[PaddingLenAt(buf)][1] + CRC_LEN

Complete(buf) == Len(buf) >= PaddingLenAt(buf) /\ Len(buf) >= FrameLen(buf)

CrcMatches(buf) == buf[FrameLen(buf)] = crc32(SubSeq(buf, 1, FrameLen(buf) - CRC_LEN))

Decoded(buf) == [type |-> CHOOSE t \in FrameTypes : buf[3] = <<TypeByte[t]>>,
                 stream_id |-> buf[4][1],
                 payload |-> SubSeq(buf, HEADER_LEN + 1, PaddingLenAt(buf) - 1),
                 padding |-> SubSeq(buf, PaddingLenAt(buf) + 1, FrameLen(buf) - CRC_LEN)]

\* decode: what it returns, with the frame and what is left of buf if it is
\* Some(frame).  Magic, version, type and checksum errors are one "error":
\* all callers end on it.
decode(buf) ==
    IF Len(buf) < HEADER_LEN THEN [result |-> "none"]
    ELSE IF ~HeaderValid(buf) THEN [result |-> "error"]
    ELSE IF ~Complete(buf) THEN [result |-> "none"]
    ELSE IF ~CrcMatches(buf) THEN [result |-> "error"]
    ELSE [result |-> "frame", frame |-> Decoded(buf),
          rest |-> SubSeq(buf, FrameLen(buf) + 1, Len(buf))]

-------------------------------------------------------------------------------
(* Handshake payloads *)

Incomplete == [ok |-> FALSE]

\* A string behind its u16 length, and reading one at a position of a payload.
Field(s) == <<<<Len(s) % U16>>>> \o s
FieldAt(p, at) ==
    IF at <= Len(p) /\ at + p[at][1] <= Len(p)
      THEN [ok |-> TRUE, val |-> SubSeq(p, at + 1, at + p[at][1]), next |-> at + p[at][1] + 1]
      ELSE [ok |-> FALSE, val |-> <<>>, next |-> Len(p) + 1]

hmac_sha256(token, ts) == <<"hmac", token, ts>>

\* HandshakeReq::build and the two directions of its payload.
HandshakeReq(client_id, version, token, ts, capabilities) ==
    [client_id |-> client_id, version |-> version, timestamp |-> ts,
     hmac |-> hmac_sha256(token, ts), capabilities |-> capabilities]

encode_req(r) == Field(r.client_id) \o Field(r.version)
                    \o <<<<r.timestamp>>, r.hmac>> \o Field(r.capabilities)

decode_req(p) ==
    LET id == FieldAt(p, 1)
        version == FieldAt(p, id.next)
        at == version.next              \* the timestamp, then the HMAC
        caps == FieldAt(p, at + 2)
    IN  IF ~(id.ok /\ version.ok /\ at + 1 <= Len(p) /\ caps.ok) THEN Incomplete
        ELSE [ok |-> TRUE,
              req |-> [client_id |-> id.val, version |-> version.val, timestamp |-> p[at][1],
                       hmac |-> p[at + 1], capabilities |-> caps.val]]

\* HandshakeAck, built and parsed.
encode_ack(a) == Field(a.session_id) \o <<<<a.heartbeat_min>>, <<a.heartbeat_max>>>>

decode_ack(p) ==
    LET id == FieldAt(p, 1)
    IN  IF ~(id.ok /\ id.next + 1 <= Len(p)) THEN Incomplete
        ELSE [ok |-> TRUE,
              ack |-> [session_id |-> id.val, heartbeat_min |-> p[id.next][1],
                       heartbeat_max |-> p[id.next + 1][1]]]

auth_fail_frame(reason) == new_control("AuthFail", Field(reason))
build_error_frame(reason) == new_control("Error", Field(reason))

\* verify_timestamp, verify_handshake and verify_version.
verify_timestamp(ts, now, window) == (IF now > ts THEN now - ts ELSE ts - now) <= window
verify_handshake(req, token, now, window) ==
    /\ verify_timestamp(req.timestamp, now, window)
    /\ req.hmac = hmac_sha256(token, req.timestamp)
verify_version(client, server) == client = server
===============================================================================
