------------------------------ MODULE ClientLink ------------------------------
(***************************************************************************)
(* The client's life: run with its reconnects, run_once with its read loop *)
(* (client/mod.rs) and dial_and_handshake (client/dialer.rs), over the     *)
(* byte stream of one connection at a time, which a read cuts anywhere.    *)
(* The server is seen as it is on the wire: it checks the request, answers *)
(* it and writes frames.  What it does behind that is TunnelSessions, and  *)
(* what the client does with a frame StreamMux, ClientUdp and Heartbeat.   *)
(***************************************************************************)
EXTENDS FrameCodec

CONSTANTS
    Retries,        \* the values of max_retries to consider
    Initial, MaxDelay,  \* initial_delay and max_delay, in seconds
    Num, Den,       \* backoff_factor, as a fraction; a negative one acts as 0
    Tokens, Versions,   \* what a client may be configured with and built as
    ServerToken, ServerVersion,
    Skews,          \* how far the client's clock may be from the server's
    ClockWindow,    \* TIMESTAMP_WINDOW_SECS
    PaddingMax,     \* obfuscation.padding_max
    MaxFrames,      \* bound: frames the server writes on a connection
    MaxCount        \* the counters below stop here; above every retry limit

ASSUME LinkAssumption ==
    /\ Retries \subseteq Nat /\ Initial \in Nat /\ MaxDelay \in Nat
    /\ Num \in Nat /\ Den \in Nat \ {0}
    /\ Skews \subseteq Int
    /\ ClockWindow \in Nat /\ PaddingMax \in Nat /\ MaxFrames \in Nat /\ MaxCount \in Nat
    /\ \A r \in Retries : r + 1 < MaxCount

\* What ^ means, for the waits that RetriesAsConfigured speaks of.
ASSUME PowersAssumption ==
    \A b \in {Num, Den} :
        /\ b ^ 0 = 1
        /\ \A n \in 0..MaxCount : b ^ n \in Nat /\ b ^ (n + 1) = b ^ n * b

VARIABLES
    retries, token, version,    \* the client's configuration and build
    cpc,        \* where the client is
    busy,       \* the read loop waits in the dispatch of the last frame
    attempts, delay,    \* the locals of run
    dials,      \* history: how often run_once was called
    buf,        \* the dialer's buffer, then rd_buf of run_once
    skew,       \* how far its clock was from the server's when it asked
    session,    \* session_id of the ack that the client holds
    srv,        \* the server's end: "none", "reading", "established", "kicked", "closed"
    srvSession, \* the session_id it sent
    request,    \* bytes to the server
    wire,       \* bytes to the client
    sent,       \* history: the frames written after the ack, of this connection
    dispatched, \* history: the frames the read loop handled
    dropped     \* history: the bytes that were left in the dialer's buffer

runVars == <<retries, token, version, attempts, delay, dials>>
netVars == <<srv, srvSession, request, wire, sent>>
vars == <<cpc, busy, skew, buf, session, runVars, netVars, dispatched, dropped>>

Now == 100          \* the server's clock, in seconds
Text(v) == <<<<v>>>>    \* a string of one byte
ClientId == <<<<8>>>>
Count(n) == IF n < MaxCount THEN n + 1 ELSE n

Init == /\ retries \in Retries /\ token \in Tokens /\ version \in Versions
        /\ cpc = "dialing" /\ busy = FALSE /\ skew = 0
        /\ attempts = 0 /\ delay = Initial /\ dials = 0
        /\ buf = <<>> /\ session = <<>>
        /\ srv = "none" /\ srvSession = <<>>
        /\ request = <<>> /\ wire = <<>>
        /\ sent = <<>> /\ dispatched = <<>> /\ dropped = <<>>

\* run_once returns; the connection and the buffers are locals of it.
Return(to) == /\ cpc' = to /\ busy' = FALSE /\ skew' = 0
              /\ srv' = "none" /\ session' = <<>>
              /\ request' = <<>> /\ wire' = <<>> /\ buf' = <<>>
              /\ sent' = <<>> /\ dispatched' = <<>> /\ dropped' = <<>>

-------------------------------------------------------------------------------
(* dial_and_handshake *)

\* The connection and TLS are up; the HandshakeReq is written.
Dial == /\ cpc = "dialing"
        /\ cpc' = "waiting"
        /\ dials' = Count(dials)
        /\ srv' = "reading"
        /\ skew' \in Skews
        /\ request' = encode(new_control("HandshakeReq", encode_req(
                          HandshakeReq(ClientId, Text(version), token, Now + skew', <<>>))))
        /\ UNCHANGED <<retries, token, version, attempts, delay, busy, buf, session, srvSession,
                       wire, sent, dispatched, dropped>>

\* TcpStream::connect or the TLS handshake fails.
DialFails == /\ cpc = "dialing"
             /\ dials' = Count(dials)
             /\ Return("ended")
             /\ UNCHANGED <<retries, token, version, attempts, delay, srvSession>>

\* The first complete frame decides; what follows the ack in the buffer goes.
FirstFrame(d, left) ==
    IF d.result = "frame" /\ d.frame.type = "HandshakeAck" /\ decode_ack(d.frame.payload).ok
      THEN /\ cpc' = "serving"
           /\ session' = decode_ack(d.frame.payload).ack.session_id
           /\ buf' = <<>>
           /\ dropped' = d.rest
           /\ wire' = left
           /\ UNCHANGED <<busy, skew, srv, request, sent, dispatched>>
      ELSE Return("ended")

\* One read of the dialer, of as many bytes as have arrived or fewer.
ReadHandshake ==
    /\ cpc = "waiting"
    /\ \E n \in 1..Len(wire) :
          LET b == buf \o SubSeq(wire, 1, n)
              d == decode(b)
              left == SubSeq(wire, n + 1, Len(wire))
          IN  IF d.result # "none" THEN FirstFrame(d, left)
              ELSE /\ buf' = b /\ wire' = left
                   /\ UNCHANGED <<cpc, busy, skew, session, dropped, srv, request, sent, dispatched>>
    /\ UNCHANGED <<runVars, srvSession>>

-------------------------------------------------------------------------------
(* The read loop of run_once *)

\* The loop comes round to its buffer.
Reading == cpc = "serving" /\ ~busy

\* A frame of the buffer is dispatched; the Error frame ends the client.  The
\* dispatch of another one may wait: for a target to connect, or for room in the
\* queue of a stream or of the frames to the server.
Dispatch ==
    /\ Reading /\ decode(buf).result = "frame"
    /\ LET d == decode(buf) IN
       IF d.frame.type = "Error" THEN Return("terminated")
       ELSE /\ buf' = d.rest
            /\ dispatched' = Append(dispatched, d.frame)
            /\ busy' \in BOOLEAN
            /\ UNCHANGED <<cpc, skew, session, srv, request, wire, sent, dropped>>
    /\ UNCHANGED <<runVars, srvSession>>

\* The dispatch goes on: the target answered, or somebody made room.
Release == /\ busy
           /\ busy' = FALSE
           /\ UNCHANGED <<cpc, skew, buf, session, runVars, netVars, dispatched, dropped>>

\* A bad magic, version, type or checksum breaks the loop.
DecodeFails == /\ Reading /\ decode(buf).result = "error"
               /\ Return("ended")
               /\ UNCHANGED <<runVars, srvSession>>

\* The next read.
ReadMore == /\ Reading /\ decode(buf).result = "none"
            /\ \E n \in 1..Len(wire) :
                  /\ buf' = buf \o SubSeq(wire, 1, n)
                  /\ wire' = SubSeq(wire, n + 1, Len(wire))
            /\ UNCHANGED <<cpc, busy, skew, session, runVars, srv, srvSession, request, sent,
                           dispatched, dropped>>

\* The end of the stream is taken for a read of nothing.
Bug_ReadEnd == /\ cpc = "waiting"
               /\ srv \in {"none", "closed"} /\ wire = <<>>
               /\ Return("ended")
               /\ UNCHANGED <<runVars, srvSession>>

\* End of stream or a read error, in the dialer or in the read loop.
ReadEnd == /\ \/ cpc = "waiting"
              \/ Reading /\ decode(buf).result = "none"
           /\ srv \in {"none", "closed"} /\ wire = <<>>
           /\ Return("ended")
           /\ UNCHANGED <<runVars, srvSession>>

\* The read loop finds the heartbeat state dead (Heartbeat says when it may).
HeartbeatDead == /\ Reading /\ decode(buf).result = "none"
                 /\ Return("ended")
                 /\ UNCHANGED <<runVars, srvSession>>

-------------------------------------------------------------------------------
(* run *)

\* The attempt is counted before the limit is looked at.
Bug_RunAgain ==
    /\ cpc = "ended"
    /\ attempts' = Count(attempts)
    /\ IF retries # 0 /\ attempts' >= retries
         THEN cpc' = "gaveup"
         ELSE cpc' = "sleeping"
    /\ UNCHANGED <<retries, token, version, delay, dials, busy, skew, buf, session, netVars,
                   dispatched, dropped>>

\* run_once returned Reconnect or an error.
RunAgain ==
    /\ cpc = "ended"
    /\ IF retries # 0 /\ attempts >= retries
         THEN cpc' = "gaveup" /\ UNCHANGED attempts
         ELSE cpc' = "sleeping" /\ attempts' = Count(attempts)
    /\ UNCHANGED <<retries, token, version, delay, dials, busy, skew, buf, session, netVars,
                   dispatched, dropped>>

\* The delay grows without its bound.
Bug_Grow(d) == IF (d * Num) \div Den > Initial THEN (d * Num) \div Den ELSE Initial

\* The factor applied to a delay, cut to whole seconds, between the two bounds.
Grow(d) == LET grown == (d * Num) \div Den
               capped == IF grown < MaxDelay THEN grown ELSE MaxDelay
           IN  IF capped > Initial THEN capped ELSE Initial

\* The sleep is over.
Wake == /\ cpc = "sleeping"
        /\ cpc' = "dialing"
        /\ delay' = Grow(delay)
        /\ UNCHANGED <<retries, token, version, attempts, dials, busy, skew, buf, session, netVars,
                       dispatched, dropped>>

-------------------------------------------------------------------------------
(* The server on the wire *)

\* run_tunnel's answer to the request.  A good request may still be refused
\* (the client is online, or was kicked).  (Bug: any clock will do.)
Bug_Accepts(r) == /\ r.ok
                  /\ verify_version(r.req.version, Text(ServerVersion))
                  /\ r.req.hmac = hmac_sha256(ServerToken, r.req.timestamp)
Accepts(r) == /\ r.ok
              /\ verify_version(r.req.version, Text(ServerVersion))
              /\ verify_handshake(r.req, ServerToken, Now, ClockWindow)

AnswerRequest ==
    /\ srv = "reading"
    /\ LET r == decode_req(decode(request).frame.payload) IN
       \/ /\ Accepts(r)
          /\ srv' = "established"
          /\ srvSession' = IF srvSession = <<<<1>>>> THEN <<<<2>>>> ELSE <<<<1>>>>
          /\ wire' = wire \o encode(new_control("HandshakeAck", encode_ack(
                        [session_id |-> srvSession', heartbeat_min |-> 15, heartbeat_max |-> 45])))
       \/ /\ srv' = "closed"
          /\ wire' = wire \o encode(auth_fail_frame(<<>>))
          /\ UNCHANGED srvSession
    /\ request' = <<>>
    /\ UNCHANGED <<cpc, busy, skew, buf, session, runVars, sent, dispatched, dropped>>

\* writer_task: a frame, padded at random.
WriteFrame ==
    /\ srv = "established" /\ Len(sent) < MaxFrames
    /\ \E len \in 0..PaddingMax :
          LET f == Padded(new("StreamData", Len(sent), <<<<Len(sent)>>>>), len) IN
          /\ sent' = Append(sent, f)
          /\ wire' = wire \o encode(f)
    /\ UNCHANGED <<cpc, busy, skew, buf, session, runVars, srv, srvSession, request,
                   dispatched, dropped>>

\* The Error frame of a kick.
WriteError == /\ srv = "established"
              /\ srv' = "kicked"
              /\ wire' = wire \o encode(build_error_frame(<<>>))
              /\ UNCHANGED <<cpc, busy, skew, buf, session, runVars, srvSession, request, sent,
                             dispatched, dropped>>

\* The server closes, or the connection breaks with a part of the bytes lost.
Close == /\ srv \in {"reading", "established", "kicked"}
         /\ srv' = "closed"
         /\ \E n \in 0..Len(wire) : wire' = SubSeq(wire, 1, n)
         /\ UNCHANGED <<cpc, busy, skew, buf, session, runVars, srvSession, request, sent,
                        dispatched, dropped>>

ClientStep == \/ Dial \/ DialFails \/ ReadHandshake
              \/ Dispatch \/ DecodeFails \/ ReadMore \/ ReadEnd
              \/ RunAgain \/ Wake
ServerStep == AnswerRequest \/ WriteFrame \/ WriteError \/ Close

Next == ClientStep \/ HeartbeatDead \/ Release \/ ServerStep

Spec == Init /\ [][Next]_vars

\* The client's task is scheduled; nothing is assumed of the server, the network,
\* the heartbeats or the targets.
FairSpec == Spec /\ WF_vars(ClientStep)
-------------------------------------------------------------------------------
ClientStates == {"dialing", "waiting", "serving", "ended", "sleeping", "gaveup", "terminated"}

\* Every variable keeps its type: the delay and the counters in particular
\* stay within the configured bounds.
TypeOK == /\ retries \in Retries /\ token \in Tokens /\ version \in Versions
          /\ cpc \in ClientStates /\ busy \in BOOLEAN /\ skew \in Int
          /\ attempts \in 0..MaxCount /\ dials \in 0..MaxCount
          /\ delay >= Initial /\ (delay > Initial => delay <= MaxDelay)
          /\ srv \in {"none", "reading", "established", "kicked", "closed"}
          /\ Len(sent) <= MaxFrames

\* frame.rs:138-193 with the two readers of client/mod.rs and dialer.rs: wherever
\* the reads cut the stream and whatever padding the frames carry, the frames
\* the client handles are consecutive ones of those the server wrote, unaltered.
\* They start with the first one, and no read ends in a decode error, unless the
\* dialer's read took bytes beyond the ack.  It needs padding_max < 2^16.
FramesInOrder ==
    cpc = "serving" =>
        /\ \E j \in 0..(Len(sent) - Len(dispatched)) :
              /\ \A i \in DOMAIN dispatched : dispatched[i] = sent[i + j]
              /\ dropped = <<>> => j = 0
        /\ dropped = <<>> => decode(buf).result # "error"

\* handshake.rs:226-250 and dialer.rs:93-98: a client takes itself for connected
\* only when the server accepted its token, version and clock on this very
\* connection, and then both ends name the same session.
BothEndsAgree ==
    cpc = "serving" => /\ session = srvSession
                       /\ token = ServerToken /\ version = ServerVersion
                       /\ skew \in (-ClockWindow)..ClockWindow

\* A delay d that has grown n times from the initial one, not yet to max_delay,
\* is at most Initial * (Num/Den)^n, and misses that by no more than what n cuts
\* to whole seconds take, of (Den-1)/Den at most and grown since: the sums over
\* Den^n.  With a whole factor nothing is missed.
WithinGrowth(d, n) ==
    LET missed == Initial * Num ^ n - d * Den ^ n IN
    /\ missed >= 0
    /\ d # MaxDelay => (Num - Den) * missed <= (Den - 1) * (Num ^ n - Den ^ n)

\* A factor less than 1, or a max_delay less than the initial delay, changes nothing.
Follows(d, n) == IF Num < Den \/ MaxDelay < Initial THEN d = Initial
                 ELSE d \in Initial..MaxDelay /\ WithinGrowth(d, n)

\* mod.rs:84-96: run gives up after max_retries + 1 calls of run_once, never
\* before and never if it is 0, and the n-th wait is the initial delay grown by
\* the factor n-1 times, up to max_delay.
RetriesAsConfigured ==
    /\ cpc = "gaveup" => retries # 0 /\ dials = retries + 1
    /\ cpc = "sleeping" /\ attempts < MaxCount => Follows(delay, attempts - 1)

\* mod.rs:64-70, handshake.md:269: whenever the connection ends, the client
\* dials again, unless it was kicked or has no retry left.  The read loop must not
\* wait for a target for ever (mod.rs:224, 228, 248 and 263): it would not come to
\* read the end.
ClosedLeadsOn ==
    []<>~busy => (srv = "closed" ~> cpc \in {"dialing", "gaveup", "terminated"})

\* mod.rs:62-65: the delay grows with each reconnect.  Refuted: it is cut to
\* whole seconds each time, so that a factor of 3/2 never takes it beyond 1 s.
BackoffGrows ==
    cpc = "sleeping" /\ attempts > 1 /\ Num > Den /\ Initial \in 1..(MaxDelay - 1)
        => delay > Initial

\* dialer.rs:5-6: the stream is handed over to the read loop.  Refuted: what the
\* dialer read beyond the ack is not, so the first frames of a session are lost,
\* or their tail is taken for a frame and ends the session.
NothingDropped == dropped = <<>>
===============================================================================
