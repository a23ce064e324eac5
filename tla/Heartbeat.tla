------------------------------- MODULE Heartbeat -------------------------------
(***************************************************************************)
(* The keep-alive of one tunnel.  On the client: HeartbeatState            *)
(* (protocol/heartbeat.rs), the heartbeat task and the frame loop of       *)
(* run_once (client/mod.rs), which share it.  On the server: the Heartbeat *)
(* branch of dispatch_frame and idle_monitor_task (server/tunnel.rs).      *)
(*                                                                         *)
(* Time passes in ticks; timers count down and frames carry their age.     *)
(* Time cannot pass a timer that is due: tasks are quick against a tick.   *)
(***************************************************************************)
EXTENDS Integers, Sequences

CONSTANTS
    HbMin, HbMax,       \* the heartbeat range announced in the HandshakeAck
    MissMax,            \* HEARTBEAT_MISS_MAX
    Slack,              \* the 10 s of the idle limit
    CheckEvery,         \* IDLE_CHECK_INTERVAL_SECS
    Delay,              \* on a timely network a frame arrives within Delay ticks
    MaxInFlight         \* bound on the frames in flight per direction

ASSUME HeartbeatAssumption ==
    /\ HbMin \in Nat \ {0} /\ HbMax \in Nat /\ HbMin <= HbMax
    /\ MissMax \in Nat \ {0} /\ Slack \in Nat /\ CheckEvery \in Nat \ {0}
    /\ Delay \in Nat /\ MaxInFlight \in Nat

VARIABLES
    client,     \* run_once: "reading", or "ended" after its cleanup
    hb,         \* the heartbeat task: "sleeping", "sent" (not yet counted), "exited"
    wait,       \* what is left of its sleep
    miss,       \* HeartbeatState.miss_count
    server,     \* run_tunnel: "up" or "ended"
    idle,       \* now - last_activity, on the server
    check,      \* ticks to the next tick of the idle monitor's interval
    beats, acks,\* ages of the frames in flight to the server and to the client
    timely      \* does the network deliver within Delay, or delay and lose at will

clientVars == <<client, hb, wait, miss>>
serverVars == <<server, idle, check>>
beatVars == <<client, hb, wait, miss, server, idle, check, beats, acks, timely>>

IdleLimit == HbMax * 3 + Slack

BeatInit == /\ client = "reading" /\ hb = "sleeping" /\ miss = 0
            /\ wait \in HbMin..HbMax
            /\ server = "up" /\ idle = 0 /\ check = 0
            /\ beats = <<>> /\ acks = <<>>
            /\ timely \in BOOLEAN

is_dead(m) == m >= MissMax
-------------------------------------------------------------------------------
(* The client's heartbeat task *)

\* The sleep is over: a HEARTBEAT goes into the frame channel.
SendBeat == /\ hb = "sleeping" /\ wait = 0 /\ Len(beats) < MaxInFlight
            /\ beats' = Append(beats, 0)
            /\ hb' = "sent"
            /\ UNCHANGED <<client, wait, miss, serverVars, acks, timely>>

\* on_heartbeat_sent, then is_dead: the task returns or sleeps again.
CountBeat == /\ hb = "sent"
             /\ miss' = IF miss < MissMax THEN miss + 1 ELSE miss
             /\ IF is_dead(miss')
                  THEN hb' = "exited" /\ wait' = 0
                  ELSE hb' = "sleeping" /\ wait' \in HbMin..HbMax
             /\ UNCHANGED <<client, serverVars, beats, acks, timely>>
-------------------------------------------------------------------------------
(* The client's frame loop *)

EndClient == client' = "ended" /\ hb' = "exited" /\ wait' = 0

\* HEARTBEAT_ACK: on_heartbeat_ack resets the counter before the loop's own
\* is_dead check looks at it.
ReceiveAck == /\ client = "reading" /\ acks # <<>>
              /\ acks' = Tail(acks)
              /\ miss' = 0
              /\ UNCHANGED <<client, hb, wait, serverVars, beats, timely>>

\* Any other frame from the server: after it the loop checks is_dead.
ReceiveOther == /\ client = "reading" /\ is_dead(miss)
                /\ server = "up"
                /\ EndClient
                /\ UNCHANGED <<miss, serverVars, beats, acks, timely>>

\* The client stops, or reads the end of the stream or an error.
ClientStops == /\ client = "reading"
               /\ timely => server = "ended"
               /\ EndClient
               /\ UNCHANGED <<miss, serverVars, beats, acks, timely>>
-------------------------------------------------------------------------------
(* The server *)

\* Frames do not count as activity.
Bug_ReceiveBeat == /\ server = "up" /\ beats # <<>> /\ Len(acks) < MaxInFlight
                   /\ beats' = Tail(beats)
                   /\ acks' = Append(acks, 0)
                   /\ UNCHANGED <<clientVars, serverVars, timely>>

\* reader_task: update_activity, then dispatch_frame answers the heartbeat.
ReceiveBeat == /\ server = "up" /\ beats # <<>> /\ Len(acks) < MaxInFlight
               /\ beats' = Tail(beats)
               /\ acks' = Append(acks, 0)
               /\ idle' = 0
               /\ UNCHANGED <<clientVars, server, check, timely>>

\* The slack of the limit is tripled with the interval: (hb_max + 10) * 3.
Bug_IdleCheck == /\ server = "up" /\ check = 0
                 /\ check' = CheckEvery
                 /\ server' = IF idle > (HbMax + Slack) * 3 THEN "ended" ELSE "up"
                 /\ UNCHANGED <<clientVars, idle, beats, acks, timely>>

\* Looking at the activity time refreshes it.
Bug_IdleCheckTouches == /\ server = "up" /\ check = 0
                        /\ check' = CheckEvery
                        /\ server' = IF idle > IdleLimit THEN "ended" ELSE "up"
                        /\ idle' = 0
                        /\ UNCHANGED <<clientVars, beats, acks, timely>>

\* idle_monitor_task at a tick of its interval: too long without a frame ends
\* the tunnel.
IdleCheck == /\ server = "up" /\ check = 0
             /\ check' = CheckEvery
             /\ server' = IF idle > IdleLimit THEN "ended" ELSE "up"
             /\ UNCHANGED <<clientVars, idle, beats, acks, timely>>
-------------------------------------------------------------------------------
Older(frames) == IF timely THEN [i \in 1..Len(frames) |-> frames[i] + 1] ELSE frames

\* A timer or, on a timely network, a frame that is due comes first.
Tick == /\ ~(hb = "sleeping" /\ wait = 0) /\ hb # "sent"
        /\ ~(server = "up" /\ check = 0)
        /\ timely => \A i \in 1..Len(beats) : beats[i] < Delay
        /\ timely => \A i \in 1..Len(acks) : acks[i] < Delay
        /\ wait' = IF hb = "sleeping" THEN wait - 1 ELSE wait
        /\ check' = IF server = "up" THEN check - 1 ELSE check
        /\ idle' = IF server = "up" THEN idle + 1 ELSE idle
        /\ beats' = Older(beats) /\ acks' = Older(acks)
        /\ UNCHANGED <<client, hb, miss, server, timely>>

BeatNext == \/ SendBeat \/ CountBeat \/ ReceiveAck \/ ReceiveOther \/ ClientStops
            \/ ReceiveBeat \/ IdleCheck \/ Tick

BeatSpec == BeatInit /\ [][BeatNext]_beatVars

\* Time passes, the tasks run when their timers are due and the client's loop
\* reads what has arrived; whether a heartbeat arrives is up to the network.
FairBeatSpec == /\ BeatSpec
                /\ WF_beatVars(Tick) /\ WF_beatVars(IdleCheck)
                /\ WF_beatVars(SendBeat) /\ WF_beatVars(CountBeat)
                /\ WF_beatVars(server = "ended" /\ acks = <<>> /\ ClientStops)
-------------------------------------------------------------------------------
\* Every variable keeps its type; no timer runs past zero.
BeatTypeOK == /\ client \in {"reading", "ended"}
              /\ hb \in {"sleeping", "sent", "exited"}
              /\ wait \in 0..HbMax
              /\ miss \in 0..MissMax
              /\ server \in {"up", "ended"}
              /\ idle \in Nat
              /\ check \in 0..CheckEvery
              /\ beats \in Seq(0..Delay) /\ acks \in Seq(0..Delay)
              /\ timely \in BOOLEAN

\* On a network that delivers in time neither end gives the other up.  Round
\* trips shorter than the shortest interval keep the counter of the client below
\* HEARTBEAT_MISS_MAX, whatever the jitter, and also when an ack overtakes the
\* counting of its own heartbeat (which then stays counted as missed until the
\* next ack: with round trips of up to two intervals that is one too many); and
\* the idle monitor spares a client that sends nothing but heartbeats.
HealthyTunnelLives ==
    timely /\ client = "reading" => ~is_dead(miss) /\ hb # "exited" /\ server = "up"

\* A client that falls silent is noticed within the idle limit and one period
\* of the monitor: a tunnel that is up has had a frame since.
SilenceIsBounded == server = "up" => idle <= IdleLimit + CheckEvery

\* A client that is gone, with no end of stream ever arriving, frees its
\* client_id: the idle monitor ends the tunnel.
GoneClientIsDropped == client = "ended" ~> server = "ended"

\* docs/handshake.md: missing HEARTBEAT_MISS_MAX acks triggers cleanup and
\* reconnect.  Refuted: only the heartbeat task returns, the frame loop waits
\* in its read and looks at the counter when something arrives.
DeadEndsClient == hb = "exited" ~> client = "ended"

\* docs/handshake.md: the client sends heartbeats while the tunnel is up.
\* Refuted: an ack that arrives after the heartbeat task has given up resets
\* the counter, and the loop goes on without a heartbeat task.
LiveTunnelBeats == client = "reading" /\ ~is_dead(miss) => hb # "exited"
===============================================================================
