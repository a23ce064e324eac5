------------------------------- MODULE UdpProxy -------------------------------
(***************************************************************************)
(* The server side of the UDP proxies of one client_id:                    *)
(* run_udp_proxy_listener (server/udp.rs), whose peer_map lives as long as *)
(* the rule is running, the udp table of each tunnel session               *)
(* (server/manager.rs) and the UdpDatagram branch of dispatch_frame        *)
(* (server/tunnel.rs).  Sessions come and go under the listener: the k-th  *)
(* tunnel of the client is session k, with its own table and its own id    *)
(* allocator.  At the other end of the tunnels is the client of ClientUdp. *)
(***************************************************************************)
EXTENDS Integers, FiniteSets

CONSTANTS
    Peers,          \* public source addresses, each of one rule
    NoPeer,
    MaxSessions,    \* bound: tunnels the client establishes, one after the other
    MaxIds,         \* the ids an allocator can give (MAX_STREAMS / 2)
    MaxSocks        \* bound: local sockets the client creates

ASSUME UdpAssumption ==
    NoPeer \notin Peers /\ MaxSessions \in Nat /\ MaxIds \in Nat /\ MaxSocks \in Nat

Sessions == 1..MaxSessions
Ids == 1..MaxIds        \* the k-th id of the series 2, 4, 6, ...
NoId == 0
NoSession == 0

VARIABLES
    current,    \* the session that manager.get finds, or NoSession
    started,    \* how many sessions there have been
    open,       \* the sessions whose tunnel tasks run (frame_rx is alive)
    peerMap,    \* peer_map: the id of each source address, or NoId
    udp,        \* session.udp of every session: id -> peer, or NoPeer
    nextId,     \* id_alloc of every session
    down, up,   \* datagrams to the client and answers from it, in flight
    delivered,  \* history: <<asker, receiver>> of every answer sent out
    serving, mapped, sock, asked, askers    \* the client, see ClientUdp

Client == INSTANCE ClientUdp
clientVars == <<serving, mapped, sock, asked, askers>>
serverVars == <<current, started, open, peerMap, udp, nextId, delivered>>
vars == <<serverVars, down, up, clientVars>>

Datagrams == [session : Sessions, id : Ids, from : Peers]

Init == /\ current = NoSession
        /\ started = 0
        /\ open = {}
        /\ peerMap = [p \in Peers |-> NoId]
        /\ udp = [g \in Sessions |-> [i \in Ids |-> NoPeer]]
        /\ nextId = [g \in Sessions |-> 1]
        /\ down = {} /\ up = {}
        /\ delivered = {}
        /\ Client!Init

\* A tunnel is established and registered.
TunnelUp == /\ current = NoSession /\ started < MaxSessions
            /\ started' = started + 1
            /\ current' = started + 1
            /\ open' = open \cup {started + 1}
            /\ serving' = serving \cup {started + 1}
            /\ UNCHANGED <<peerMap, udp, nextId, down, up, delivered, mapped, sock, asked, askers>>

\* The session leaves the table: its cleanup, or a kick while it still runs.
Unregister == /\ current # NoSession
              /\ current' = NoSession
              /\ UNCHANGED <<started, open, peerMap, udp, nextId, down, up, delivered, clientVars>>

\* The tunnel's tasks end, before or after it leaves the table.
TunnelEnds(g) == /\ g \in open
                 /\ open' = open \ {g}
                 /\ down' = {d \in down : d.session # g}
                 /\ up' = {d \in up : d.session # g}
                 /\ UNCHANGED <<current, started, peerMap, udp, nextId, delivered, clientVars>>

\* The session's streams and its other UDP rules take ids as well.
OtherStream == /\ current # NoSession /\ nextId[current] <= MaxIds
               /\ nextId' = [nextId EXCEPT ![current] = @ + 1]
               /\ UNCHANGED <<current, started, open, peerMap, udp, down, up, delivered, clientVars>>

\* frame_tx.send of the datagram, the tables having become table and map; a
\* closed tunnel clears the id and the peer, entered just now or before.
Forward(p, i, table, map) ==
    IF current \in open
      THEN /\ down' = down \cup {[session |-> current, id |-> i, from |-> p]}
           /\ udp' = table
           /\ peerMap' = map
      ELSE /\ udp' = [udp EXCEPT ![current][i] = NoPeer]
           /\ peerMap' = [peerMap EXCEPT ![p] = NoId]
           /\ UNCHANGED down

\* A new peer's id is not entered in the session's table.
Bug_ReceiveUnregistered(p) ==
    /\ current # NoSession /\ peerMap[p] = NoId /\ nextId[current] <= MaxIds
    /\ nextId' = [nextId EXCEPT ![current] = @ + 1]
    /\ Forward(p, nextId[current], udp, [peerMap EXCEPT ![p] = nextId[current]])
    /\ UNCHANGED <<current, started, open, up, delivered, clientVars>>

\* A new peer takes the next id without claiming it.
Bug_ReceiveSharedId(p) ==
    /\ current # NoSession /\ peerMap[p] = NoId /\ nextId[current] <= MaxIds
    /\ LET i == nextId[current] IN
       Forward(p, i, [udp EXCEPT ![current][i] = p], [peerMap EXCEPT ![p] = i])
    /\ UNCHANGED <<current, started, open, nextId, up, delivered, clientVars>>

\* A datagram of a source address without an id: one is allocated and entered
\* in peer_map and in the session's table.
ReceiveNew(p) ==
    /\ current # NoSession /\ peerMap[p] = NoId /\ nextId[current] <= MaxIds
    /\ LET i == nextId[current] IN
       /\ nextId' = [nextId EXCEPT ![current] = @ + 1]
       /\ Forward(p, i, [udp EXCEPT ![current][i] = p], [peerMap EXCEPT ![p] = i])
    /\ UNCHANGED <<current, started, open, up, delivered, clientVars>>

\* A datagram of a source address that has an id: it is used as it is.
ReceiveKnown(p) ==
    /\ current # NoSession /\ peerMap[p] # NoId
    /\ Forward(p, peerMap[p], udp, peerMap)
    /\ UNCHANGED <<current, started, open, nextId, up, delivered, clientVars>>

\* The sweep drops the table entries but not the peers'.
Bug_SweepTableOnly ==
    /\ current # NoSession
    /\ \E gone \in (SUBSET {i \in Ids : udp[current][i] # NoPeer
                                        /\ \E p \in Peers : peerMap[p] = i}) \ {{}} :
          udp' = [udp EXCEPT ![current] = [i \in Ids |-> IF i \in gone THEN NoPeer ELSE @[i]]]
    /\ UNCHANGED <<current, started, open, peerMap, nextId, down, up, delivered, clientVars>>

\* The periodic sweep: some of the mapped ids that the current session's table
\* holds have been idle for UDP_SESSION_TIMEOUT_MS; an id the table does not
\* hold never expires.
Sweep ==
    /\ current # NoSession
    /\ \E gone \in (SUBSET {i \in Ids : udp[current][i] # NoPeer
                                        /\ \E p \in Peers : peerMap[p] = i}) \ {{}} :
          /\ udp' = [udp EXCEPT ![current] = [i \in Ids |-> IF i \in gone THEN NoPeer ELSE @[i]]]
          /\ peerMap' = [p \in Peers |-> IF peerMap[p] \in gone THEN NoId ELSE peerMap[p]]
    /\ UNCHANGED <<current, started, open, nextId, down, up, delivered, clientVars>>

\* dispatch_frame: the session's own table names the receiver; without an
\* entry the answer is dropped.
DispatchDatagram(d) ==
    /\ d \in up /\ d.session \in open
    /\ up' = up \ {d}
    /\ LET to == udp[d.session][d.id] IN
       delivered' = IF to # NoPeer THEN delivered \cup {<<d.from, to>>} ELSE delivered
    /\ UNCHANGED <<current, started, open, peerMap, udp, nextId, down, clientVars>>

\* The client's side of the tunnels.
ClientStep ==
    /\ \/ \E d \in down : Client!SendToTarget(d) \/ Client!CreateFails(d) \/ Client!SendFails(d)
       \/ \E n \in Client!Socks : \/ Client!Starts(n) \/ Client!Replies(n) \/ Client!ReceiveFails(n)
                                 \/ \E p \in Peers : Client!Receives(n, p)
       \/ \E g \in Sessions : Client!SweepClient(g) \/ Client!ClearClient(g)
    /\ UNCHANGED serverVars

Next == \/ TunnelUp \/ Unregister \/ OtherStream \/ Sweep
        \/ \E g \in Sessions : TunnelEnds(g)
        \/ \E p \in Peers : ReceiveNew(p) \/ ReceiveKnown(p)
        \/ \E d \in up : DispatchDatagram(d)
        \/ ClientStep

Spec == Init /\ [][Next]_vars
-------------------------------------------------------------------------------
\* Every variable keeps its type.
TypeOK == /\ current \in Sessions \cup {NoSession}
          /\ started \in 0..MaxSessions
          /\ open \subseteq 1..started
          /\ peerMap \in [Peers -> Ids \cup {NoId}]
          /\ udp \in [Sessions -> [Ids -> Peers \cup {NoPeer}]]
          /\ nextId \in [Sessions -> 1..(MaxIds + 1)]
          /\ down \subseteq Datagrams /\ up \subseteq Datagrams
          /\ delivered \subseteq Peers \X Peers
          /\ serving \subseteq 1..started
          /\ mapped \in [Sessions -> [Ids -> Client!Socks \cup {Client!NoSock}]]
          /\ sock \in [Client!Socks -> [task : Client!TaskStates, tunnel : Sessions \cup {0},
                                        id : Ids \cup {0}, answer : Peers \cup {NoPeer}]]
          /\ asked \subseteq Client!Socks \X Peers
          /\ askers \in [Client!Socks -> SUBSET Peers]

\* An answer goes out to the source address whose datagram it answers, also
\* when a sweep, a failed send or the end of the tunnel falls between the two.
\* It holds for the client's first tunnel, and is refuted for a reconnect:
\* peer_map keeps the ids of the old session, which the new one hands out again.
AnswersGoToAsker == \A x \in delivered : x[1] = x[2]

\* Within one tunnel the listener's map and the session's table agree: a source
\* address has an id exactly when the table sends that id's answers to it.
MapMatchesTable ==
    current # NoSession /\ started = 1 =>
        \A p \in Peers, i \in Ids : peerMap[p] = i <=> udp[current][i] = p

\* udp.rs: the answer is looked up in session.udp.  Refuted after a reconnect: a
\* known source address keeps sending under an id that the session's table does
\* not give to it, so its answers are dropped, and the sweep never corrects it.
SentUnderOwnEntry ==
    [][\A d \in down' \ down : udp'[d.session][d.id] = d.from]_vars

\* client/udp.rs:57, one local socket per stream id: within the client's first
\* tunnel the target sees each public source address on a socket of its own,
\* whatever sweeps, failed sends and recreated sessions come in between.
OneAskerPerSocket ==
    started = 1 => \A n \in Client!Socks : Cardinality(askers[n]) <= 1

\* client/udp.rs:135: the recv tasks are notified, so that none keeps its socket
\* after the session is gone.  Refuted: a task that is sending, or has not been
\* polled yet, is not waiting on the Notify, and waits for ever afterwards.
NoTaskOutlivesItsSession ==
    \A n \in Client!Socks :
        sock[n].task = "waiting" => mapped[sock[n].tunnel][sock[n].id] = n

\* client/udp.rs:4-5: the target's answers are wrapped and sent back.  Refuted:
\* after a failed recv the session stays mapped with nobody reading its socket.
MappedSocketIsRead ==
    \A g \in Sessions, i \in Ids :
        mapped[g][i] # Client!NoSock => sock[mapped[g][i]].task # "ended"
===============================================================================
