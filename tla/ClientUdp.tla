------------------------------- MODULE ClientUdp -------------------------------
(***************************************************************************)
(* The client's UDP sessions: UdpManager and the reply tasks it spawns     *)
(* (client/udp.rs), one UdpManager for each tunnel (run_once in            *)
(* client/mod.rs).  A UDP session is a local socket connected to the       *)
(* target, an entry in the manager's map and a task that reads the socket. *)
(* The map and the task are tied only by a Notify without a permit: a      *)
(* task hears notify_waiters when it is waiting in its select, and not     *)
(* when it has not got there yet or is sending an answer.                  *)
(***************************************************************************)
EXTENDS Integers

CONSTANTS
    Peers,      \* the public source addresses, as the askers of answers
    NoPeer,
    Sessions,   \* tunnels of the client
    Ids,        \* stream ids of a tunnel
    MaxSocks    \* bound: local sockets created

VARIABLES
    serving,    \* the tunnels whose run_once is in its read loop
    mapped,     \* UdpManager.sessions of each tunnel: id -> socket, or NoSock
    sock,       \* each socket: its tunnel, its id, where its reply task is
    asked,      \* datagrams the target has to answer: <<socket, asker>>
    askers,     \* history: whose datagrams a socket has sent
    down, up    \* the tunnels' UDP frames to and from the client

ownVars == <<serving, mapped, sock, asked, askers>>

NoSock == 0
Socks == 1..MaxSocks
\* "spawned": not polled yet; "waiting": in the select; "sending": has read an
\* answer and awaits room in the tunnel's queue; "ended": returned.
TaskStates == {"none", "spawned", "waiting", "sending", "ended"}

Fresh == [task |-> "none", tunnel |-> 0, id |-> 0, answer |-> NoPeer]

Init == /\ serving = {}
        /\ mapped = [g \in Sessions |-> [i \in Ids |-> NoSock]]
        /\ sock = [n \in Socks |-> Fresh]
        /\ asked = {}
        /\ askers = [n \in Socks |-> {}]

\* notify_waiters on the sessions of some sockets.
Notify(S) == [n \in Socks |->
                IF n \in S /\ sock[n].task = "waiting" THEN [sock[n] EXCEPT !.task = "ended"]
                                                       ELSE sock[n]]

\* close_session, sweep and clear: the entries go and their tasks are notified.
Close(g, S) == /\ mapped' = [mapped EXCEPT ![g] = [i \in Ids |->
                                    IF @[i] \in S THEN NoSock ELSE @[i]]]
               /\ sock' = Notify(S)

\* The first socket not yet created.
IsNext(n) == sock[n].task = "none" /\ \A x \in 1..(n - 1) : sock[x].task # "none"

\* One socket for all the ids of a tunnel.
Bug_Route(g, i, n) ==
    \/ n # NoSock /\ \E x \in Ids : mapped[g][x] = n
    \/ n # NoSock /\ IsNext(n) /\ \A x \in Ids : mapped[g][x] = NoSock

\* The socket of an id: the one mapped, or a new one.
Route(g, i, n) == n # NoSock /\ IF mapped[g][i] # NoSock THEN n = mapped[g][i] ELSE IsNext(n)

\* handle_incoming: the datagram is sent on the socket of its id.
SendToTarget(d) ==
    /\ d \in down /\ d.session \in serving
    /\ down' = down \ {d}
    /\ \E n \in Socks :
          /\ Route(d.session, d.id, n)
          /\ mapped' = [mapped EXCEPT ![d.session][d.id] = n]
          /\ sock' = IF sock[n].task # "none" THEN sock
                     ELSE [sock EXCEPT ![n] = [Fresh EXCEPT !.task = "spawned",
                                                !.tunnel = d.session, !.id = d.id]]
          /\ asked' = asked \cup {<<n, d.from>>}
          /\ askers' = [askers EXCEPT ![n] = @ \cup {d.from}]
    /\ UNCHANGED <<serving, up>>

\* handle_incoming: no socket could be bound or connected.
CreateFails(d) == /\ d \in down /\ d.session \in serving
                  /\ mapped[d.session][d.id] = NoSock
                  /\ down' = down \ {d}
                  /\ UNCHANGED <<ownVars, up>>

\* handle_incoming: the send fails (the target refused an earlier datagram) and
\* the session is closed.
SendFails(d) == /\ d \in down /\ d.session \in serving
                /\ mapped[d.session][d.id] # NoSock
                /\ down' = down \ {d}
                /\ Close(d.session, {mapped[d.session][d.id]})
                /\ UNCHANGED <<serving, asked, askers, up>>

\* The reply task is polled for the first time.
Starts(n) == /\ sock[n].task = "spawned"
             /\ sock' = [sock EXCEPT ![n].task = "waiting"]
             /\ UNCHANGED <<serving, mapped, asked, askers, down, up>>

\* The task reads an answer of the target.
Receives(n, p) == /\ sock[n].task = "waiting" /\ <<n, p>> \in asked
                  /\ asked' = asked \ {<<n, p>>}
                  /\ sock' = [sock EXCEPT ![n] = [@ EXCEPT !.task = "sending", !.answer = p]]
                  /\ UNCHANGED <<serving, mapped, askers, down, up>>

\* recv fails: the task ends and its session stays in the map.
ReceiveFails(n) == /\ sock[n].task = "waiting" /\ askers[n] # {}
                   /\ sock' = [sock EXCEPT ![n].task = "ended"]
                   /\ UNCHANGED <<serving, mapped, asked, askers, down, up>>

\* The answer is in the queue of the task's own tunnel, or, when that is
\* closed, dropped; either way the task goes back to its select.
Replies(n) ==
    /\ sock[n].task = "sending"
    /\ sock' = [sock EXCEPT ![n] = [@ EXCEPT !.task = "waiting", !.answer = NoPeer]]
    /\ up' = IF sock[n].tunnel \notin serving THEN up
             ELSE up \cup {[session |-> sock[n].tunnel, id |-> sock[n].id,
                            from |-> sock[n].answer]}
    /\ UNCHANGED <<serving, mapped, asked, askers, down>>

\* sweep, at the end of a round of the read loop: some sessions have had no
\* datagram to the target for UDP_SESSION_TIMEOUT_MS.
SweepClient(g) == /\ g \in serving
                  /\ \E S \in SUBSET {mapped[g][i] : i \in Ids} \ {{}} :
                        S \subseteq Socks /\ Close(g, S)
                  /\ UNCHANGED <<serving, asked, askers, down, up>>

\* The cleanup of run_once: clear.
ClearClient(g) == /\ g \in serving
                  /\ serving' = serving \ {g}
                  /\ Close(g, {mapped[g][i] : i \in Ids})
                  /\ UNCHANGED <<asked, askers, down, up>>
===============================================================================
