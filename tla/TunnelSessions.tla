---------------------------- MODULE TunnelSessions ----------------------------
(***************************************************************************)
(* The life of a tunnel on the server: run_tunnel (server/tunnel.rs), the  *)
(* session table and the kick list of TunnelManager (server/manager.rs)    *)
(* and the admin's kick request (api_kick in server/admin.rs).             *)
(*                                                                         *)
(* A member of Conns is one accepted TCP connection, its run_tunnel task   *)
(* and the session (a fresh UUID) that the task may create.  A member of   *)
(* Kicks is one POST /api/kick.  All of them run concurrently on a         *)
(* multi-threaded runtime: one action is what a task does between two      *)
(* points where another task can get in between, which are its awaits and  *)
(* the gaps between two calls on the DashMap.                              *)
(***************************************************************************)
EXTENDS Integers

CONSTANTS
    Conns, Clients, Kicks,
    NoConn, NoClient,   \* "no session under this client_id", "no client_id yet"
    Window,             \* KICK_REJECT_WINDOW_SECS, in ticks
    MaxTime             \* bound on the clock

ASSUME ConstantsAssumption ==
    /\ NoConn \notin Conns
    /\ NoClient \notin Clients
    /\ Window \in Nat
    /\ MaxTime \in Nat

VARIABLES
    pc,         \* where each connection's run_tunnel is
    client,     \* the client_id of each connection's HandshakeReq
    peer,       \* the client end of each connection: "gone", "dialing", "up"
    told,       \* what became of the "Kicked by admin" ERROR frame
    full,       \* the connections whose bounded frame queue has no room
    sessions,   \* TunnelManager.sessions
    kicked,     \* TunnelManager.kicked: the time of the last kick, or NotKicked
    now,        \* now_millis()
    kpc,        \* where each kick request is
    kclient,    \* the client_id it names
    ktarget,    \* the session it looked up
    acceptedAt  \* history: when each connection was accepted

connVars == <<pc, client, peer, told, full, acceptedAt>>
kickVars == <<kpc, kclient, ktarget>>
vars == <<pc, client, peer, told, full, sessions, kicked, now,
          kpc, kclient, ktarget, acceptedAt>>

NotKicked == -1

\* The session exists from "acking" on; "rejected", "ackfailed" and "ended"
\* are the three ways run_tunnel returns.
ConnStates == {"idle", "reading", "checking", "auth", "acking", "running",
               "cleanup", "removing", "merging", "rejected", "ackfailed", "ended"}
KickStates == {"idle", "sending", "unregistering", "marking", "done", "refused"}

\* "dialing" until the dialer (client/dialer.rs) has read the HandshakeAck.
PeerStates == {"gone", "dialing", "up"}

\* "lost": written to the client, and dropped by it.
ToldStates == {"no", "queued", "delivered", "lost"}

Returned == {"rejected", "ackfailed", "ended"}

Init == /\ pc = [c \in Conns |-> "idle"]
        /\ client = [c \in Conns |-> NoClient]
        /\ peer = [c \in Conns |-> "gone"]
        /\ told = [c \in Conns |-> "no"]
        /\ full = {}
        /\ sessions = [k \in Clients |-> NoConn]
        /\ kicked = [k \in Clients |-> NotKicked]
        /\ now = 0
        /\ kpc = [q \in Kicks |-> "idle"]
        /\ kclient = [q \in Kicks |-> NoClient]
        /\ ktarget = [q \in Kicks |-> NoConn]
        /\ acceptedAt = [c \in Conns |-> 0]

-------------------------------------------------------------------------------
(* The handshake half of run_tunnel *)

Goto(c, from, to) == /\ pc[c] = from
                     /\ pc' = [pc EXCEPT ![c] = to]

\* The acceptor spawns run_tunnel for a new connection; TLS is done.
Accept(c) == /\ Goto(c, "idle", "reading")
             /\ peer' = [peer EXCEPT ![c] = "dialing"]
             /\ acceptedAt' = [acceptedAt EXCEPT ![c] = now]
             /\ UNCHANGED <<client, told, full, sessions, kicked, now, kickVars>>

\* The first frame is a HandshakeReq with a valid client_id.
ReadRequest(c, k) == /\ Goto(c, "reading", "checking")
                     /\ client' = [client EXCEPT ![c] = k]
                     /\ UNCHANGED <<peer, told, full, acceptedAt, sessions, kicked, now, kickVars>>

\* End of stream, an undecodable frame, no HandshakeReq, or an invalid client_id.
RefuseRequest(c) == /\ Goto(c, "reading", "rejected")
                    /\ UNCHANGED <<client, peer, told, full, acceptedAt, sessions, kicked, now, kickVars>>

\* The window excludes its last moment.
Bug_IsKickedShortWindow(k) == kicked[k] # NotKicked /\ now - kicked[k] < Window

is_kicked(k) == kicked[k] # NotKicked /\ now - kicked[k] <= Window

\* is_kicked, then the version gate; the version is read by nobody else, so
\* its outcome is a choice.
CheckKicked(c) == /\ pc[c] = "checking"
                  /\ \/ is_kicked(client[c]) /\ Goto(c, "checking", "rejected")
                     \/ /\ ~is_kicked(client[c])
                        /\ \E sameVersion \in BOOLEAN :
                              Goto(c, "checking", IF sameVersion THEN "auth" ELSE "rejected")
                  /\ UNCHANGED <<client, peer, told, full, acceptedAt, sessions, kicked, now, kickVars>>

\* manager.register with a wrong guard: it replaces the session that is there.
Bug_RegisterReplaces(c) == /\ Goto(c, "auth", "acking")
                       /\ sessions' = [sessions EXCEPT ![client[c]] = c]
                       /\ UNCHANGED <<client, peer, told, full, acceptedAt, kicked, now, kickVars>>

\* The token is right and manager.register finds the entry vacant.
Register(c) == /\ Goto(c, "auth", "acking")
               /\ sessions[client[c]] = NoConn
               /\ sessions' = [sessions EXCEPT ![client[c]] = c]
               /\ UNCHANGED <<client, peer, told, full, acceptedAt, kicked, now, kickVars>>

\* authenticate refuses the token, which is a choice (nobody else reads it),
\* or the client_id is already online.
RefuseAuth(c) == /\ Goto(c, "auth", "rejected")
                 /\ UNCHANGED <<client, peer, told, full, acceptedAt, sessions, kicked, now, kickVars>>

WriteAck(c) == /\ Goto(c, "acking", "running")
               /\ UNCHANGED <<client, peer, told, full, acceptedAt, sessions, kicked, now, kickVars>>

\* write_all(HandshakeAck) fails: run_tunnel returns at once.
AckFails(c) == /\ peer[c] = "gone"
               /\ Goto(c, "acking", "ackfailed")
               /\ full' = full \ {c}
               /\ UNCHANGED <<client, peer, told, acceptedAt, sessions, kicked, now, kickVars>>
-------------------------------------------------------------------------------
(* The running tunnel and its cleanup *)

\* The receiving end of frame_tx lives in run_tunnel, then in its writer_task.
FrameRxAlive(c) == pc[c] \in {"acking", "running"}

\* writer_task takes the ERROR frame from frame_rx and writes it out, which
\* it can only when the client takes what was written before.
WriteError(c) == /\ pc[c] = "running" /\ told[c] = "queued" /\ peer[c] # "gone"
                 /\ told' = [told EXCEPT ![c] = "delivered"]
                 /\ UNCHANGED <<pc, client, peer, full, acceptedAt, sessions, kicked, now, kickVars>>

\* The dialer reads the HandshakeAck and hands the connection over, without
\* the bytes its last read brought in behind the ack: an ERROR frame among
\* them is lost.
ClientTakesAck(c) ==
    /\ pc[c] = "running" /\ peer[c] = "dialing"
    /\ peer' = [peer EXCEPT ![c] = "up"]
    /\ \/ UNCHANGED told
       \/ told[c] = "delivered" /\ told' = [told EXCEPT ![c] = "lost"]
    /\ UNCHANGED <<pc, client, full, acceptedAt, sessions, kicked, now, kickVars>>

\* The client's run_once reads the ERROR frame and returns Terminate.
ClientTerminates(c) == /\ pc[c] = "running" /\ told[c] = "delivered" /\ peer[c] = "up"
                       /\ peer' = [peer EXCEPT ![c] = "gone"]
                       /\ UNCHANGED <<pc, client, told, full, acceptedAt, sessions, kicked, now, kickVars>>

\* A client that takes nothing blocks the writer, and the handlers of its
\* streams fill the frame queue; one that takes something makes room again.
QueueFills(c) == /\ FrameRxAlive(c) /\ peer[c] # "gone" /\ c \notin full
                 /\ full' = full \cup {c}
                 /\ UNCHANGED <<pc, client, peer, told, acceptedAt, sessions, kicked, now, kickVars>>

QueueDrains(c) == /\ pc[c] = "running" /\ peer[c] # "gone" /\ c \in full
                  /\ full' = full \ {c}
                  /\ UNCHANGED <<pc, client, peer, told, acceptedAt, sessions, kicked, now, kickVars>>

\* The client crashes, reconnects elsewhere, or the network fails.
Disconnect(c) == /\ peer[c] # "gone" /\ pc[c] \notin Returned
                 /\ peer' = [peer EXCEPT ![c] = "gone"]
                 /\ UNCHANGED <<pc, client, told, full, acceptedAt, sessions, kicked, now, kickVars>>

\* Reader end of stream or error, writer error, or idle_monitor_task: the
\* first task that ends makes run_tunnel abort the others.
ConnectionLost(c) == /\ peer[c] = "gone"
                     /\ Goto(c, "running", "cleanup")
                     /\ full' = full \ {c}
                     /\ UNCHANGED <<client, peer, told, acceptedAt, sessions, kicked, now, kickVars>>

\* reader_task returns on a frame it cannot decode.
DecodeError(c) == /\ peer[c] # "gone"
                  /\ Goto(c, "running", "cleanup")
                  /\ full' = full \ {c}
                  /\ UNCHANGED <<client, peer, told, acceptedAt, sessions, kicked, now, kickVars>>

\* unregister_if_current, first half: get under the read lock and compare.
FindCurrent(c) == /\ pc[c] = "cleanup"
                  /\ Goto(c, "cleanup", IF sessions[client[c]] = c
                                          THEN "removing" ELSE "merging")
                  /\ UNCHANGED <<client, peer, told, full, acceptedAt, sessions, kicked, now, kickVars>>

\* The cleanup forgets to take the session out.
Bug_RemoveNothing(c) == /\ Goto(c, "removing", "merging")
                      /\ UNCHANGED <<client, peer, told, full, acceptedAt, sessions, kicked, now, kickVars>>

\* unregister_if_current, second half: remove, by client_id.
RemoveCurrent(c) == /\ Goto(c, "removing", "merging")
                    /\ sessions' = [sessions EXCEPT ![client[c]] = NoConn]
                    /\ UNCHANGED <<client, peer, told, full, acceptedAt, kicked, now, kickVars>>

\* traffic.merge adds the session's bytes to the totals; run_tunnel returns.
MergeTraffic(c) == /\ Goto(c, "merging", "ended")
                   /\ UNCHANGED <<client, peer, told, full, acceptedAt, sessions, kicked, now, kickVars>>
-------------------------------------------------------------------------------
(* api_kick *)

\* manager.get: 404 when the client is offline.
KickGet(q, k) == /\ kpc[q] = "idle"
                 /\ kpc' = [kpc EXCEPT ![q] = IF sessions[k] = NoConn THEN "refused" ELSE "sending"]
                 /\ kclient' = [kclient EXCEPT ![q] = k]
                 /\ ktarget' = [ktarget EXCEPT ![q] = sessions[k]]
                 /\ UNCHANGED <<connVars, sessions, kicked, now>>

\* The task that holds frame_rx is gone, the receiver is not: the send waits.
Bug_KickSendWaits(q) ==
    /\ kpc[q] = "sending" /\ FrameRxAlive(ktarget[q]) /\ ktarget[q] \notin full
    /\ told' = [told EXCEPT ![ktarget[q]] = "queued"]
    /\ kpc' = [kpc EXCEPT ![q] = "unregistering"]
    /\ UNCHANGED <<pc, client, peer, full, acceptedAt, sessions, kicked, now, kclient, ktarget>>

\* The ERROR frame is not sent.
Bug_KickSendsNothing(q) == /\ kpc[q] = "sending"
                      /\ kpc' = [kpc EXCEPT ![q] = IF FrameRxAlive(ktarget[q])
                                                     THEN "unregistering" ELSE "refused"]
                      /\ UNCHANGED <<connVars, sessions, kicked, now, kclient, ktarget>>

\* session.frame_tx.send(ERROR).await: it waits for room in the queue, and
\* fails with 409 when the tunnel is closed or closes while it waits.
KickSend(q) ==
    /\ kpc[q] = "sending"
    /\ LET t == ktarget[q] IN
       IF FrameRxAlive(t)
         THEN /\ t \notin full
              /\ told' = [told EXCEPT ![t] = IF told[t] = "no" THEN "queued" ELSE @]
              /\ kpc' = [kpc EXCEPT ![q] = "unregistering"]
         ELSE /\ kpc' = [kpc EXCEPT ![q] = "refused"]
              /\ UNCHANGED told
    /\ UNCHANGED <<pc, client, peer, full, acceptedAt, sessions, kicked, now, kclient, ktarget>>

\* manager.unregister(client_id).
KickUnregister(q) == /\ kpc[q] = "unregistering"
                     /\ sessions' = [sessions EXCEPT ![kclient[q]] = NoConn]
                     /\ kpc' = [kpc EXCEPT ![q] = "marking"]
                     /\ UNCHANGED <<connVars, kicked, now, kclient, ktarget>>

\* manager.mark_kicked, under the write lock of the kick list.
KickMark(q) == /\ kpc[q] = "marking"
               /\ kicked' = [kicked EXCEPT ![kclient[q]] = now]
               /\ kpc' = [kpc EXCEPT ![q] = "done"]
               /\ UNCHANGED <<connVars, sessions, now, kclient, ktarget>>

Tick == /\ now < MaxTime
        /\ now' = now + 1
        /\ UNCHANGED <<connVars, sessions, kicked, kickVars>>
-------------------------------------------------------------------------------
\* What the server's runtime is bound to do next for a connection.
Proceed(c) == \/ CheckKicked(c) \/ Register(c) \/ RefuseAuth(c)
              \/ WriteAck(c) \/ AckFails(c)
              \/ ConnectionLost(c) \/ FindCurrent(c) \/ RemoveCurrent(c) \/ MergeTraffic(c)

\* What needs a client that goes on reading.
ClientReads(c) == WriteError(c) \/ ClientTakesAck(c) \/ ClientTerminates(c)

\* What the other end and the network may do to it.
Environment(c) == \/ Accept(c) \/ RefuseRequest(c) \/ Disconnect(c) \/ DecodeError(c)
                  \/ ClientReads(c) \/ QueueFills(c) \/ QueueDrains(c)
                  \/ \E k \in Clients : ReadRequest(c, k)

KickProceed(q) == KickSend(q) \/ KickUnregister(q) \/ KickMark(q)

Next == \/ \E c \in Conns : Proceed(c) \/ Environment(c)
        \/ \E q \in Kicks : KickProceed(q) \/ \E k \in Clients : KickGet(q, k)
        \/ Tick

Spec == Init /\ [][Next]_vars

\* Every spawned task that can run is eventually run.  A kick that waits for
\* room is served in its turn (tokio's channel queues its senders), so room
\* that comes back again and again is enough for it.  Nothing is assumed of
\* the clients, the admin or the clock.
Fairness == /\ \A c \in Conns : WF_vars(Proceed(c))
            /\ \A q \in Kicks : SF_vars(KickProceed(q))

FairSpec == Spec /\ Fairness
-------------------------------------------------------------------------------
(* Properties *)

\* Every variable keeps its type through handshakes, cleanups and kicks.
TypeOK ==
    /\ pc \in [Conns -> ConnStates]
    /\ client \in [Conns -> Clients \cup {NoClient}]
    /\ \A c \in Conns : pc[c] \notin {"idle", "reading", "rejected"} => client[c] \in Clients
    /\ peer \in [Conns -> PeerStates]
    /\ told \in [Conns -> ToldStates]
    /\ full \in SUBSET Conns
    /\ sessions \in [Clients -> Conns \cup {NoConn}]
    /\ kicked \in [Clients -> Int]
    /\ now \in Nat
    /\ kpc \in [Kicks -> KickStates]
    /\ kclient \in [Kicks -> Clients \cup {NoClient}]
    /\ ktarget \in [Kicks -> Conns \cup {NoConn}]
    /\ \A q \in Kicks : kpc[q] \in {"sending", "unregistering", "marking", "done"} =>
          kclient[q] \in Clients /\ ktarget[q] \in Conns
    /\ acceptedAt \in [Conns -> Nat]

\* The connections whose session was registered and not yet cleaned up.
Holding == {"acking", "running", "cleanup", "removing"}

\* api_kick has unregistered client_id k at least once.
KickedOut(k) == \E q \in Kicks : kclient[q] = k /\ kpc[q] \in {"marking", "done"}

\* A session whose run_tunnel has not cleaned it up yet is the one the table
\* serves, unless an admin kicked that client_id: neither a second handshake
\* with the same client_id nor the cleanup of an older connection, at whatever
\* point of its two-part unregister_if_current, takes a live session out.
ServedUnlessKicked ==
    \A c \in Conns : pc[c] \in Holding => sessions[client[c]] = c \/ KickedOut(client[c])

\* The traffic totals count no session twice: traffic_totals adds the bytes of
\* the sessions in the table to the merged ones, and when run_tunnel merges a
\* session (or has returned through merge) the session is not in the table.
MergedNotOnline ==
    \A c \in Conns : pc[c] \in {"merging", "ended"} => \A k \in Clients : sessions[k] # c

\* Two tunnels of one client_id run side by side only while a kick is in play:
\* a reconnect never gets a second session next to the first.
OneTunnelPerClient ==
    \A c, d \in Conns :
        c # d /\ pc[c] = "running" /\ pc[d] = "running" /\ client[c] = client[d]
            => KickedOut(client[c])

\* A connection accepted after a kick of its client_id was recorded registers
\* only once the rejection window is over, however long its handshake takes.
KickHoldsForLaterConnections ==
    [][\A c \in Conns :
          pc[c] = "auth" /\ pc'[c] = "acking"
              => LET t == kicked[client[c]] IN
                 t # NotKicked /\ t < acceptedAt[c] => now - t > Window]_vars

\* The table behaves as SessionTable promises: a session enters once, on an
\* offline client_id, and leaves; nothing is ever replaced in place.
Entered == {c \in Conns : pc[c] \in {"acking", "running", "cleanup", "removing",
                                     "merging", "ackfailed", "ended"}}

Table == INSTANCE SessionTable WITH entered <- Entered

ImplementsTable == Table!Spec

\* Once the client end of a running tunnel is gone, the tunnel ends and its
\* session leaves the table, whatever kicks and reconnects happen meanwhile.
LostTunnelIsCleanedUp ==
    \A c \in Conns : pc[c] = "running" /\ peer[c] = "gone"
        ~> pc[c] = "ended" /\ \A k \in Clients : sessions[k] # c

\* When clients go on reading, a kick that is answered 200 ends the tunnel
\* whose session it looked up, wherever that tunnel and its client are by
\* then; the one exception is an ERROR frame that arrived together with the
\* HandshakeAck and was dropped with the dialer's buffer.
KickEndsTheTunnel ==
    (\A c \in Conns : WF_vars(WriteError(c)) /\ WF_vars(ClientTakesAck(c)) /\ WF_vars(ClientTerminates(c)))
        => \A q \in Kicks, c \in Conns :
              kpc[q] = "done" /\ ktarget[q] = c ~> pc[c] \in Returned \/ told[c] = "lost"

\* A kick is answered unless the frame queue of a live tunnel stays full for
\* ever: a tunnel that closes while the kick waits for room answers it too.
KickAnswered ==
    (\A c \in Conns : []<>(c \notin full))
        => \A q \in Kicks : kpc[q] = "sending" ~> kpc[q] \in {"done", "refused"}
-------------------------------------------------------------------------------
(* What the repository says of the program and the code does not do *)

\* docs/handshake.md, section on cleanup: on any disconnect the session is
\* unregistered.  Refuted by the early return after a failed HandshakeAck.
DisconnectUnregisters ==
    \A c \in Conns, k \in Clients :
        sessions[k] = c /\ peer[c] = "gone" ~> sessions[k] # c

\* README: a kicked client exits immediately.  Refuted without the exception of
\* KickEndsTheTunnel, even for clients that go on reading.
KickAlwaysEndsTheTunnel ==
    (\A c \in Conns : WF_vars(WriteError(c)) /\ WF_vars(ClientTakesAck(c)) /\ WF_vars(ClientTerminates(c)))
        => \A q \in Kicks, c \in Conns :
              kpc[q] = "done" /\ ktarget[q] = c ~> pc[c] \in Returned

\* The admin gets an answer to every kick.  Refuted: a client that takes
\* nothing and still sends keeps both its tunnel and its full queue alive.
KickAnsweredWhateverTheClient ==
    \A q \in Kicks : kpc[q] = "sending" ~> kpc[q] \in {"done", "refused"}

\* README: cleaning up an old session never removes the new one.
CleanupSparesNewSession ==
    [][\A c \in Conns : pc[c] = "removing" /\ pc'[c] = "merging"
          => \A k \in Clients : sessions'[k] # sessions[k] => sessions[k] = c]_vars

\* api_kick's comment: the session removed is the one that was sent the ERROR
\* frame.
KickRemovesToldSession ==
    [][\A q \in Kicks : kpc[q] = "unregistering" /\ kpc'[q] = "marking"
          => sessions[kclient[q]] \in {NoConn, ktarget[q]}]_vars

\* manager.rs: a kicked client's handshake is rejected within the window.
KickedClientStaysOut ==
    [][\A k \in Clients : sessions[k] = NoConn /\ sessions'[k] # NoConn => ~is_kicked(k)]_vars
===============================================================================
