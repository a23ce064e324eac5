---------------------------- MODULE UdpProxyProofs ----------------------------
(***************************************************************************)
(* Within the client's first tunnel no UDP answer goes astray, for any     *)
(* number of source addresses, ids and local sockets.  The argument        *)
(* follows the traces a source address leaves behind under a stream id: in *)
(* the two tables, in the datagrams in flight and in the sockets that ever *)
(* sent one of its datagrams.                                              *)
(***************************************************************************)
EXTENDS UdpProxy, FiniteSetTheorems, TLAPS

TableTrace(i, p) == peerMap[p] = i \/ \E g \in Sessions : udp[g][i] = p
FlightTrace(i, p) == \E d \in down \cup up : d.id = i /\ d.from = p
SocketTrace(i, p) == \E n \in Client!Socks : sock[n].id = i /\ p \in askers[n]
Trace(i, p) == TableTrace(i, p) \/ FlightTrace(i, p) \/ SocketTrace(i, p)

\* What a socket was created for stays with it: only its own task and the
\* entry of its id lead to it, and it answers those it has sent for.
SocketSound ==
    /\ \A n \in Client!Socks :
          /\ sock[n].task = "none" => askers[n] = {}
          /\ sock[n].task # "none" => sock[n].id \in Ids
          /\ sock[n].task = "sending" => sock[n].answer \in askers[n]
    /\ \A n \in Client!Socks, p \in Peers : <<n, p>> \in asked => p \in askers[n]
    /\ \A g \in Sessions, i \in Ids :
          mapped[g][i] # Client!NoSock =>
              sock[mapped[g][i]].id = i /\ sock[mapped[g][i]].task # "none"

\* An id has the traces of one source address at most, and an id that is still
\* to be handed out has none.
OneOwner == \A i \in Ids, p, q \in Peers : Trace(i, p) /\ Trace(i, q) => p = q
IdsFresh == \A i \in Ids, p \in Peers :
                (started = 0 \/ i >= nextId[1]) => ~Trace(i, p)

FirstTunnel == OneOwner /\ IdsFresh /\ MapMatchesTable /\ AnswersGoToAsker

IInv == /\ TypeOK
        /\ SocketSound
        /\ current <= started
        /\ started <= 1 => FirstTunnel
-------------------------------------------------------------------------------
\* The client's side keeps the types of its tables, of its sockets and of the
\* datagrams in flight: an answer is sent under the id its socket is for.
LEMMA ClientTypes == TypeOK /\ SocketSound /\ ClientStep => TypeOK'
<1> SUFFICES ASSUME TypeOK, SocketSound, ClientStep PROVE TypeOK'
    OBVIOUS
<1> DEFINE Socket == [task : Client!TaskStates, tunnel : Sessions \cup {0},
                      id : Ids \cup {0}, answer : Peers \cup {NoPeer}]
           SocketTable == [Client!Socks -> Socket]
<1> USE UdpAssumption DEF TypeOK, serverVars, Sessions, Ids, Datagrams, NoId,
        Client!Socks, Client!NoSock, Client!TaskStates
<1>0. UNCHANGED serverVars
      BY DEF ClientStep
<1>a. ASSUME NEW n \in Client!Socks, NEW t \in Client!TaskStates
      PROVE  [sock EXCEPT ![n].task = t] \in SocketTable
      OBVIOUS
<1>b. ASSUME NEW n \in Client!Socks, NEW t \in Client!TaskStates, NEW p \in Peers \cup {NoPeer}
      PROVE  [sock EXCEPT ![n] = [@ EXCEPT !.task = t, !.answer = p]] \in SocketTable
      OBVIOUS
<1>1. ASSUME NEW d \in down, Client!SendToTarget(d) PROVE TypeOK'
  <2>1. PICK n \in Client!Socks :
          /\ Client!Route(d.session, d.id, n)
          /\ mapped' = [mapped EXCEPT ![d.session][d.id] = n]
          /\ sock' = IF sock[n].task # "none" THEN sock
                     ELSE [sock EXCEPT ![n] = [Client!Fresh EXCEPT !.task = "spawned",
                                                !.tunnel = d.session, !.id = d.id]]
          /\ asked' = asked \cup {<<n, d.from>>}
          /\ askers' = [askers EXCEPT ![n] = @ \cup {d.from}]
        BY <1>1 DEF Client!SendToTarget
  <2>2. down' \subseteq down /\ UNCHANGED <<serving, up>>
        BY <1>1 DEF Client!SendToTarget
  <2>3. d.session \in Sessions /\ d.id \in Ids /\ d.from \in Peers
        OBVIOUS
  <2>4. mapped' \in [Sessions -> [Ids -> Client!Socks \cup {Client!NoSock}]]
        BY <2>1, <2>3
  <2>5. sock' \in SocketTable
        BY <2>1, <2>3 DEF Client!Fresh
  <2>6. asked' \subseteq Client!Socks \X Peers /\ askers' \in [Client!Socks -> SUBSET Peers]
        BY <2>1, <2>3
  <2>. QED BY <1>0, <2>2, <2>4, <2>5, <2>6
<1>2. ASSUME NEW g \in Sessions, NEW S \in SUBSET (Client!Socks \cup {0}), Client!Close(g, S)
      PROVE  /\ mapped' \in [Sessions -> [Ids -> Client!Socks \cup {Client!NoSock}]]
             /\ sock' \in SocketTable
  <2>1. sock' = Client!Notify(S)
        BY <1>2 DEF Client!Close
  <2>2. \A n \in Client!Socks : [sock[n] EXCEPT !.task = "ended"] \in Socket
        OBVIOUS
  <2>3. sock' \in SocketTable
        BY <2>1, <2>2 DEF Client!Notify
  <2>4. mapped' \in [Sessions -> [Ids -> Client!Socks \cup {Client!NoSock}]]
        BY <1>2 DEF Client!Close
  <2>. QED BY <2>3, <2>4
<1>3. ASSUME NEW d \in down, Client!CreateFails(d) PROVE TypeOK'
      BY <1>0, <1>3 DEF Client!CreateFails, Client!ownVars
<1>4. ASSUME NEW d \in down, Client!SendFails(d) PROVE TypeOK'
  <2>1. d.session \in Sessions /\ {mapped[d.session][d.id]} \in SUBSET (Client!Socks \cup {0})
        OBVIOUS
  <2>. QED BY <1>0, <1>2, <1>4, <2>1 DEF Client!SendFails
<1>5. ASSUME NEW n \in Client!Socks, Client!Starts(n) \/ Client!ReceiveFails(n) PROVE TypeOK'
  <2>1. PICK t \in {"waiting", "ended"} : sock' = [sock EXCEPT ![n].task = t]
        BY <1>5 DEF Client!Starts, Client!ReceiveFails
  <2>3. sock' \in SocketTable
        BY <1>a, <2>1
  <2>2. UNCHANGED <<serving, mapped, asked, askers, down, up>>
        BY <1>5 DEF Client!Starts, Client!ReceiveFails
  <2>. QED BY <1>0, <2>2, <2>3
<1>6. ASSUME NEW n \in Client!Socks, NEW p \in Peers, Client!Receives(n, p) PROVE TypeOK'
  <2>1. sock' \in SocketTable
        BY <1>b, <1>6 DEF Client!Receives
  <2>2. asked' \subseteq asked /\ UNCHANGED <<serving, mapped, askers, down, up>>
        BY <1>6 DEF Client!Receives
  <2>. QED BY <1>0, <2>1, <2>2
<1>7. ASSUME NEW n \in Client!Socks, Client!Replies(n) PROVE TypeOK'
  <2>1. sock' \in SocketTable
        BY <1>b, <1>7 DEF Client!Replies
  <2>2. sock[n].id \in Ids /\ sock[n].answer \in Peers
        BY <1>7 DEF Client!Replies, SocketSound
  <2>4. up' \subseteq Datagrams
        BY <1>7, <2>2 DEF Client!Replies
  <2>3. UNCHANGED <<serving, mapped, asked, askers, down>>
        BY <1>7 DEF Client!Replies
  <2>. QED BY <1>0, <2>1, <2>3, <2>4
<1>8. ASSUME NEW g \in Sessions, Client!SweepClient(g) PROVE TypeOK'
  <2>1. PICK S \in SUBSET {mapped[g][i] : i \in Ids} \ {{}} :
            S \subseteq Client!Socks /\ Client!Close(g, S)
        BY <1>8 DEF Client!SweepClient
  <2>. QED BY <1>0, <1>2, <1>8, <2>1 DEF Client!SweepClient
<1>9. ASSUME NEW g \in Sessions, Client!ClearClient(g) PROVE TypeOK'
  <2>1. \A i \in Ids : mapped[g][i] \in Client!Socks \cup {0}
        OBVIOUS
  <2>2. {mapped[g][i] : i \in Ids} \in SUBSET (Client!Socks \cup {0})
        BY <2>1
  <2>. QED BY <1>0, <1>2, <1>9, <2>2 DEF Client!ClearClient
<1>. QED BY <1>1, <1>3, <1>4, <1>5, <1>6, <1>7, <1>8, <1>9 DEF ClientStep

\* The sockets stay sound: a new one is entered under its id, and an entry goes
\* before its socket is used for anything else.
LEMMA SocketStep == TypeOK /\ SocketSound /\ [Next]_vars => SocketSound'
<1> SUFFICES ASSUME TypeOK, SocketSound, [Next]_vars PROVE SocketSound'
    OBVIOUS
<1> DEFINE Entries == <<mapped, sock, asked, askers>>
<1> USE UdpAssumption DEF Sessions, Ids, Client!Socks, Client!NoSock
<1>t. /\ mapped \in [Sessions -> [Ids -> Client!Socks \cup {0}]]
      /\ sock \in [Client!Socks -> [task : Client!TaskStates, tunnel : Sessions \cup {0},
                                    id : Ids \cup {0}, answer : Peers \cup {NoPeer}]]
      /\ asked \subseteq Client!Socks \X Peers
      /\ askers \in [Client!Socks -> SUBSET Peers]
      /\ down \subseteq Datagrams
      BY DEF TypeOK
<1>0. ASSUME UNCHANGED Entries PROVE SocketSound'
      BY <1>0 DEF SocketSound
<1>1. ASSUME NEW d \in down, Client!SendToTarget(d) PROVE SocketSound'
  <2>1. PICK n \in Client!Socks :
          /\ Client!Route(d.session, d.id, n)
          /\ mapped' = [mapped EXCEPT ![d.session][d.id] = n]
          /\ sock' = IF sock[n].task # "none" THEN sock
                     ELSE [sock EXCEPT ![n] = [Client!Fresh EXCEPT !.task = "spawned",
                                                !.tunnel = d.session, !.id = d.id]]
          /\ asked' = asked \cup {<<n, d.from>>}
          /\ askers' = [askers EXCEPT ![n] = @ \cup {d.from}]
        BY <1>1 DEF Client!SendToTarget
  <2>2. d.session \in Sessions /\ d.id \in Ids /\ d.from \in Peers
        BY <1>t DEF Datagrams
  <2>3. sock'[n].id = d.id /\ sock'[n].task # "none"
    <3>1. CASE sock[n].task # "none"
          BY <2>1, <2>2, <3>1 DEF SocketSound, Client!Route, Client!IsNext
    <3>2. CASE sock[n].task = "none"
          BY <1>t, <2>1, <3>2 DEF Client!Fresh
    <3>. QED BY <3>1, <3>2
  <2>4. ASSUME NEW m \in Client!Socks
        PROVE  /\ sock[m].task # "none" => sock'[m] = sock[m]
               /\ m # n => sock'[m] = sock[m] /\ askers'[m] = askers[m]
               /\ askers[m] \subseteq askers'[m]
        BY <1>t, <2>1
  <2>5. sock'[n].task # "sending" \/ sock'[n] = sock[n]
        BY <1>t, <2>1 DEF Client!Fresh
  <2>6. \A m \in Client!Socks :
          /\ sock'[m].task = "none" => askers'[m] = {}
          /\ sock'[m].task # "none" => sock'[m].id \in Ids
          /\ sock'[m].task = "sending" => sock'[m].answer \in askers'[m]
        BY <2>2, <2>3, <2>4, <2>5 DEF SocketSound
  <2>7. \A m \in Client!Socks, p \in Peers : <<m, p>> \in asked' => p \in askers'[m]
        BY <1>t, <2>1, <2>4 DEF SocketSound
  <2>8. ASSUME NEW g \in Sessions, NEW i \in Ids, mapped'[g][i] # Client!NoSock
        PROVE  sock'[mapped'[g][i]].id = i /\ sock'[mapped'[g][i]].task # "none"
    <3>1. CASE g = d.session /\ i = d.id
          BY <1>t, <2>1, <2>2, <2>3, <3>1
    <3>2. CASE ~(g = d.session /\ i = d.id)
      <4>1. mapped'[g][i] = mapped[g][i] /\ mapped[g][i] \in Client!Socks
            BY <1>t, <2>1, <2>2, <2>8, <3>2
      <4>. QED BY <2>4, <2>8, <4>1 DEF SocketSound
    <3>. QED BY <3>1, <3>2
  <2>. QED BY <2>6, <2>7, <2>8 DEF SocketSound
<1>2. ASSUME NEW g \in Sessions, NEW S, Client!Close(g, S), UNCHANGED askers, asked' \subseteq asked
      PROVE  SocketSound'
  <2>1. ASSUME NEW m \in Client!Socks
        PROVE  /\ sock'[m].id = sock[m].id /\ sock'[m].answer = sock[m].answer
               /\ sock'[m].task = "none" <=> sock[m].task = "none"
               /\ sock'[m].task = "sending" => sock[m].task = "sending"
        BY <1>2, <1>t DEF Client!Close, Client!Notify
  <2>2. ASSUME NEW h \in Sessions, NEW i \in Ids
        PROVE  mapped'[h][i] = 0 \/ mapped'[h][i] = mapped[h][i]
        BY <1>2, <1>t DEF Client!Close
  <2>3. \A m \in Client!Socks :
          /\ sock'[m].task = "none" => askers'[m] = {}
          /\ sock'[m].task # "none" => sock'[m].id \in Ids
          /\ sock'[m].task = "sending" => sock'[m].answer \in askers'[m]
        BY <1>2, <2>1 DEF SocketSound
  <2>4. \A m \in Client!Socks, p \in Peers : <<m, p>> \in asked' => p \in askers'[m]
        BY <1>2 DEF SocketSound
  <2>5. ASSUME NEW h \in Sessions, NEW i \in Ids, mapped'[h][i] # Client!NoSock
        PROVE  sock'[mapped'[h][i]].id = i /\ sock'[mapped'[h][i]].task # "none"
    <3>1. mapped'[h][i] = mapped[h][i] /\ mapped[h][i] \in Client!Socks
          BY <1>t, <2>2, <2>5
    <3>. QED BY <2>1, <2>5, <3>1 DEF SocketSound
  <2>. QED BY <2>3, <2>4, <2>5 DEF SocketSound
<1>3. ASSUME NEW d \in down, Client!CreateFails(d) PROVE SocketSound'
      BY <1>0, <1>3 DEF Client!CreateFails, Client!ownVars
<1>4. ASSUME NEW d \in down, Client!SendFails(d) PROVE SocketSound'
  <2>1. d.session \in Sessions
        BY <1>t DEF Datagrams
  <2>. QED BY <1>2, <1>4, <2>1 DEF Client!SendFails
<1>5. ASSUME NEW n \in Client!Socks, NEW t \in {"waiting", "sending", "ended"}, NEW a,
             sock[n].task # "none", t = "sending" => a \in askers[n],
             sock' = [sock EXCEPT ![n] = [@ EXCEPT !.task = t, !.answer = a]],
             UNCHANGED <<mapped, askers>>, asked' \subseteq asked
      PROVE  SocketSound'
  <2>1. ASSUME NEW m \in Client!Socks
        PROVE  /\ sock'[m].id = sock[m].id
               /\ sock'[m].task = "none" <=> sock[m].task = "none"
               /\ sock'[m].task = "sending" => sock'[m].answer \in askers[m]
        BY <1>5, <1>t DEF SocketSound
  <2>. QED BY <1>t, <1>5, <2>1 DEF SocketSound
<1>6. ASSUME NEW n \in Client!Socks, Client!Starts(n) \/ Client!ReceiveFails(n) PROVE SocketSound'
  <2>1. PICK t \in {"waiting", "ended"} : sock' = [sock EXCEPT ![n].task = t]
        BY <1>6 DEF Client!Starts, Client!ReceiveFails
  <2>2. sock' = [sock EXCEPT ![n] = [@ EXCEPT !.task = t, !.answer = sock[n].answer]]
        BY <1>t, <2>1
  <2>3. sock[n].task # "none" /\ UNCHANGED <<mapped, askers, asked>>
        BY <1>6 DEF Client!Starts, Client!ReceiveFails
  <2>. QED BY <1>5, <2>2, <2>3
<1>7. ASSUME NEW n \in Client!Socks, NEW p \in Peers, Client!Receives(n, p) PROVE SocketSound'
      BY <1>5, <1>7 DEF Client!Receives, SocketSound
<1>8. ASSUME NEW n \in Client!Socks, Client!Replies(n) PROVE SocketSound'
      BY <1>5, <1>8 DEF Client!Replies
<1>9. ASSUME NEW g \in Sessions, Client!SweepClient(g) \/ Client!ClearClient(g) PROVE SocketSound'
      BY <1>2, <1>9 DEF Client!SweepClient, Client!ClearClient
<1>10. CASE ClientStep
       BY <1>1, <1>3, <1>4, <1>6, <1>7, <1>8, <1>9, <1>10 DEF ClientStep
<1>11. CASE ~ClientStep
       BY <1>0, <1>11 DEF Next, vars, clientVars, TunnelUp, Unregister, TunnelEnds, OtherStream,
          ReceiveNew, ReceiveKnown, Forward, Sweep, DispatchDatagram
<1>. QED BY <1>10, <1>11

\* The listener, the tunnels and the sweep keep their types.
LEMMA TypeStep == TypeOK /\ SocketSound /\ [Next]_vars => TypeOK'
<1> SUFFICES ASSUME TypeOK, SocketSound, [Next]_vars PROVE TypeOK'
    OBVIOUS
<1> USE UdpAssumption DEF TypeOK, Sessions, Ids, Datagrams, NoId, NoSession, clientVars
<1>1. ASSUME NEW p \in Peers, NEW i \in Ids, NEW table, NEW map, Forward(p, i, table, map),
             current \in Sessions,
             table \in [Sessions -> [Ids -> Peers \cup {NoPeer}]], map \in [Peers -> Ids \cup {NoId}]
      PROVE  /\ down' \subseteq Datagrams
             /\ udp' \in [Sessions -> [Ids -> Peers \cup {NoPeer}]]
             /\ peerMap' \in [Peers -> Ids \cup {NoId}]
  <2>1. /\ [udp EXCEPT ![current][i] = NoPeer] \in [Sessions -> [Ids -> Peers \cup {NoPeer}]]
        /\ [peerMap EXCEPT ![p] = NoId] \in [Peers -> Ids \cup {NoId}]
        BY <1>1
  <2>2. CASE current \in open
        BY <1>1, <2>2 DEF Forward
  <2>3. CASE current \notin open
        BY <1>1, <2>1, <2>3 DEF Forward
  <2>. QED BY <2>2, <2>3
<1>2. CASE TunnelUp
      BY <1>2 DEF TunnelUp
<1>3. CASE Unregister
      BY <1>3 DEF Unregister
<1>10. CASE OtherStream
  <2>1. nextId' \in [Sessions -> 1..(MaxIds + 1)]
        BY <1>10 DEF OtherStream
  <2>. QED BY <1>10, <2>1 DEF OtherStream
<1>4. ASSUME NEW g \in Sessions, TunnelEnds(g) PROVE TypeOK'
      BY <1>4 DEF TunnelEnds
<1>5. ASSUME NEW p \in Peers, ReceiveNew(p) PROVE TypeOK'
  <2>1. nextId[current] \in Ids /\ current \in Sessions
        BY <1>5 DEF ReceiveNew
  <2>2. /\ [udp EXCEPT ![current][nextId[current]] = p] \in [Sessions -> [Ids -> Peers \cup {NoPeer}]]
        /\ [peerMap EXCEPT ![p] = nextId[current]] \in [Peers -> Ids \cup {NoId}]
        BY <2>1
  <2>3. nextId' \in [Sessions -> 1..(MaxIds + 1)]
        BY <1>5, <2>1 DEF ReceiveNew
  <2>. QED BY <1>1, <1>5, <2>1, <2>2, <2>3 DEF ReceiveNew
<1>6. ASSUME NEW p \in Peers, ReceiveKnown(p) PROVE TypeOK'
  <2>1. peerMap[p] \in Ids /\ current \in Sessions
        BY <1>6 DEF ReceiveKnown
  <2>. QED BY <1>1, <1>6, <2>1 DEF ReceiveKnown
<1>7. CASE Sweep
      BY <1>7 DEF Sweep
<1>8. ASSUME NEW d \in up, DispatchDatagram(d) PROVE TypeOK'
  <2>1. delivered' \subseteq Peers \X Peers
        BY <1>8 DEF DispatchDatagram
  <2>2. up' \subseteq up
        BY <1>8 DEF DispatchDatagram
  <2>. QED BY <1>8, <2>1, <2>2 DEF DispatchDatagram
<1>9. CASE UNCHANGED vars
      BY <1>9 DEF vars, serverVars
<1>. QED BY <1>2, <1>3, <1>4, <1>5, <1>6, <1>7, <1>8, <1>9, <1>10, ClientTypes DEF Next

\* The client hands on what it was given: a datagram goes to the socket of its
\* id, an answer comes back under that id, and nobody else's trace appears.
LEMMA ClientTraces ==
    TypeOK /\ SocketSound /\ ClientStep =>
        \A i \in Ids, p \in Peers : Trace(i, p)' => Trace(i, p)
<1> SUFFICES ASSUME TypeOK, SocketSound, ClientStep, NEW i \in Ids, NEW p \in Peers, Trace(i, p)'
             PROVE  Trace(i, p)
    OBVIOUS
<1> USE UdpAssumption DEF Sessions, Ids, Client!Socks, Client!NoSock
<1>t. /\ mapped \in [Sessions -> [Ids -> Client!Socks \cup {0}]]
      /\ sock \in [Client!Socks -> [task : Client!TaskStates, tunnel : Sessions \cup {0},
                                    id : Ids \cup {0}, answer : Peers \cup {NoPeer}]]
      /\ asked \subseteq Client!Socks \X Peers
      /\ askers \in [Client!Socks -> SUBSET Peers]
      /\ down \subseteq Datagrams
      BY DEF TypeOK
<1>0. TableTrace(i, p)' <=> TableTrace(i, p)
      BY DEF ClientStep, serverVars, TableTrace
<1>1. ASSUME \A d \in down' \cup up' : d \in down \cup up \/ d.id # i \/ d.from # p \/ Trace(i, p),
             \A n \in Client!Socks : sock'[n].id = i /\ p \in askers'[n] =>
                                         (sock[n].id = i /\ p \in askers[n]) \/ Trace(i, p)
      PROVE  Trace(i, p)
      BY <1>0, <1>1 DEF Trace, FlightTrace, SocketTrace
<1>2. ASSUME NEW d \in down, Client!SendToTarget(d) PROVE Trace(i, p)
  <2>1. PICK n \in Client!Socks :
          /\ Client!Route(d.session, d.id, n)
          /\ sock' = IF sock[n].task # "none" THEN sock
                     ELSE [sock EXCEPT ![n] = [Client!Fresh EXCEPT !.task = "spawned",
                                                !.tunnel = d.session, !.id = d.id]]
          /\ askers' = [askers EXCEPT ![n] = @ \cup {d.from}]
        BY <1>2 DEF Client!SendToTarget
  <2>2. d.session \in Sessions /\ d.id \in Ids
        BY <1>t DEF Datagrams
  <2>3. sock[n].task # "none" => sock[n].id = d.id
        BY <2>1, <2>2 DEF SocketSound, Client!Route, Client!IsNext
  <2>4. d.id = i /\ d.from = p => Trace(i, p)
        BY DEF Trace, FlightTrace
  <2>5. ASSUME NEW m \in Client!Socks, sock'[m].id = i, p \in askers'[m]
        PROVE  (sock[m].id = i /\ p \in askers[m]) \/ Trace(i, p)
    <3>1. CASE m # n
          BY <1>t, <2>1, <2>5, <3>1
    <3>2. CASE m = n /\ sock[n].task # "none"
          BY <1>t, <2>1, <2>3, <2>4, <2>5, <3>2
    <3>3. CASE m = n /\ sock[n].task = "none"
      <4>1. sock'[n].id = d.id /\ askers[n] = {}
            BY <1>t, <2>1, <3>3 DEF Client!Fresh, SocketSound
      <4>. QED BY <1>t, <2>1, <2>4, <2>5, <3>3, <4>1
    <3>. QED BY <3>1, <3>2, <3>3
  <2>6. down' \subseteq down /\ up' = up
        BY <1>2 DEF Client!SendToTarget
  <2>. QED BY <1>1, <2>5, <2>6
<1>3. ASSUME \A n \in Client!Socks : sock'[n].id = sock[n].id, UNCHANGED askers,
             \A d \in down' \cup up' : d \in down \cup up \/ d.id # i \/ d.from # p \/ Trace(i, p)
      PROVE  Trace(i, p)
      BY <1>1, <1>3
<1>4. ASSUME NEW g \in Sessions, NEW S, Client!Close(g, S)
      PROVE  \A n \in Client!Socks : sock'[n].id = sock[n].id
      BY <1>t, <1>4 DEF Client!Close, Client!Notify
<1>5. ASSUME NEW d \in down, Client!CreateFails(d) PROVE Trace(i, p)
      BY <1>3, <1>5 DEF Client!CreateFails, Client!ownVars
<1>6. ASSUME NEW d \in down, Client!SendFails(d) PROVE Trace(i, p)
  <2>1. d.session \in Sessions
        BY <1>t DEF Datagrams
  <2>. QED BY <1>3, <1>4, <1>6, <2>1 DEF Client!SendFails
<1>7. ASSUME NEW n \in Client!Socks,
             Client!Starts(n) \/ Client!ReceiveFails(n) \/ \E q \in Peers : Client!Receives(n, q)
      PROVE  Trace(i, p)
  <2>1. \A m \in Client!Socks : sock'[m].id = sock[m].id
    <3>1. CASE Client!Starts(n)
          BY <1>t, <3>1 DEF Client!Starts
    <3>2. CASE Client!ReceiveFails(n)
          BY <1>t, <3>2 DEF Client!ReceiveFails
    <3>3. ASSUME NEW q \in Peers, Client!Receives(n, q)
          PROVE  \A m \in Client!Socks : sock'[m].id = sock[m].id
          BY <1>t, <3>3 DEF Client!Receives
    <3>. QED BY <1>7, <3>1, <3>2, <3>3
  <2>. QED BY <1>3, <1>7, <2>1 DEF Client!Starts, Client!ReceiveFails, Client!Receives
<1>8. ASSUME NEW n \in Client!Socks, Client!Replies(n) PROVE Trace(i, p)
  <2>1. \A m \in Client!Socks : sock'[m].id = sock[m].id
        BY <1>t, <1>8 DEF Client!Replies
  <2>2. ASSUME NEW d \in up', d \notin up, d.id = i, d.from = p PROVE Trace(i, p)
    <3>1. d = [session |-> sock[n].tunnel, id |-> sock[n].id, from |-> sock[n].answer]
          BY <1>8, <2>2 DEF Client!Replies
    <3>2. sock[n].answer \in askers[n]
          BY <1>8 DEF Client!Replies, SocketSound
    <3>. QED BY <2>2, <3>1, <3>2 DEF Trace, SocketTrace
  <2>. QED BY <1>3, <1>8, <2>1, <2>2 DEF Client!Replies
<1>9. ASSUME NEW g \in Sessions, Client!SweepClient(g) \/ Client!ClearClient(g) PROVE Trace(i, p)
      BY <1>3, <1>4, <1>9 DEF Client!SweepClient, Client!ClearClient
<1>. QED BY <1>2, <1>5, <1>6, <1>7, <1>8, <1>9 DEF ClientStep

\* A source address that takes an id from the allocator leaves its traces under
\* that id.
LEMMA NewIdTraces ==
    ASSUME TypeOK, NEW r \in Peers, ReceiveNew(r), NEW i \in Ids, NEW p \in Peers, Trace(i, p)'
    PROVE  Trace(i, p) \/ (p = r /\ i = nextId[current])
<1> SUFFICES ASSUME ~(p = r /\ i = nextId[current]) PROVE Trace(i, p)
    OBVIOUS
<1> USE UdpAssumption DEF Sessions, Ids, NoId, NoSession
<1>t. /\ current \in Sessions \cup {NoSession}
      /\ peerMap \in [Peers -> Ids \cup {NoId}]
      /\ udp \in [Sessions -> [Ids -> Peers \cup {NoPeer}]]
      /\ nextId \in [Sessions -> 1..(MaxIds + 1)]
      BY DEF TypeOK
<1>0. UNCHANGED <<sock, askers>>
      BY DEF clientVars, ReceiveNew
<1>1. ASSUME peerMap'[p] = i => peerMap[p] = i,
             \A g \in Sessions : udp'[g][i] = p => udp[g][i] = p,
             \A d \in down' \cup up' : d \in down \cup up \/ d.id # i \/ d.from # p
      PROVE  Trace(i, p)
      BY <1>0, <1>1 DEF Trace, TableTrace, FlightTrace, SocketTrace
<1>2. current \in Sessions /\ nextId[current] \in Ids
      BY <1>t DEF ReceiveNew
<1>3. CASE current \in open
  <2>1. /\ down' = down \cup {[session |-> current, id |-> nextId[current], from |-> r]}
        /\ udp' = [udp EXCEPT ![current][nextId[current]] = r]
        /\ peerMap' = [peerMap EXCEPT ![r] = nextId[current]]
        /\ UNCHANGED up
        BY <1>3 DEF ReceiveNew, Forward
  <2>2. \A g \in Sessions : udp'[g][i] = p => udp[g][i] = p
        BY <1>t, <1>2, <2>1
  <2>. QED BY <1>1, <1>t, <1>2, <2>1, <2>2
<1>4. CASE current \notin open
  <2>1. /\ udp' = [udp EXCEPT ![current][nextId[current]] = NoPeer]
        /\ peerMap' = [peerMap EXCEPT ![r] = NoId]
        /\ UNCHANGED <<down, up>>
        BY <1>4 DEF ReceiveNew, Forward
  <2>2. \A g \in Sessions : udp'[g][i] = p => udp[g][i] = p
        BY <1>t, <1>2, <2>1
  <2>. QED BY <1>1, <1>t, <1>2, <2>1, <2>2
<1>. QED BY <1>3, <1>4

\* No other step of the server leaves a trace where there was none.
LEMMA ServerTraces ==
    ASSUME TypeOK, Next, ~ClientStep, \A r \in Peers : ~ReceiveNew(r),
           NEW i \in Ids, NEW p \in Peers, Trace(i, p)'
    PROVE  Trace(i, p)
<1> USE UdpAssumption DEF Sessions, Ids, NoId, NoSession
<1>t. /\ current \in Sessions \cup {NoSession}
      /\ peerMap \in [Peers -> Ids \cup {NoId}]
      /\ udp \in [Sessions -> [Ids -> Peers \cup {NoPeer}]]
      /\ nextId \in [Sessions -> 1..(MaxIds + 1)]
      BY DEF TypeOK
<1>0. UNCHANGED <<sock, askers>>
      BY DEF Next, clientVars, TunnelUp, Unregister, TunnelEnds, OtherStream, ReceiveNew,
         ReceiveKnown, Forward, Sweep, DispatchDatagram
<1>1. ASSUME peerMap'[p] = i => peerMap[p] = i \/ Trace(i, p),
             \A g \in Sessions : udp'[g][i] = p => udp[g][i] = p,
             \A d \in down' \cup up' : d \in down \cup up \/ d.id # i \/ d.from # p \/ Trace(i, p)
      PROVE  Trace(i, p)
      BY <1>0, <1>1 DEF Trace, TableTrace, FlightTrace, SocketTrace
<1>2. CASE TunnelUp \/ Unregister \/ OtherStream
      BY <1>1, <1>2 DEF TunnelUp, Unregister, OtherStream
<1>3. ASSUME NEW g \in Sessions, TunnelEnds(g) PROVE Trace(i, p)
      BY <1>1, <1>3 DEF TunnelEnds
<1>4. ASSUME NEW r \in Peers, ReceiveKnown(r) PROVE Trace(i, p)
  <2>1. current \in Sessions /\ peerMap[r] \in Ids
        BY <1>t, <1>4 DEF ReceiveKnown
  <2>2. CASE current \in open
    <3>1. /\ down' = down \cup {[session |-> current, id |-> peerMap[r], from |-> r]}
          /\ UNCHANGED <<peerMap, udp, up>>
          BY <1>4, <2>2 DEF ReceiveKnown, Forward
    <3>2. peerMap[r] = i /\ r = p => Trace(i, p)
          BY DEF Trace, TableTrace
    <3>. QED BY <1>1, <3>1, <3>2
  <2>3. CASE current \notin open
    <3>1. /\ udp' = [udp EXCEPT ![current][peerMap[r]] = NoPeer]
          /\ peerMap' = [peerMap EXCEPT ![r] = NoId]
          /\ UNCHANGED <<down, up>>
          BY <1>4, <2>3 DEF ReceiveKnown, Forward
    <3>. QED BY <1>1, <1>t, <2>1, <3>1
  <2>. QED BY <2>2, <2>3
<1>5. CASE Sweep
  <2>1. PICK gone \in SUBSET Ids :
          /\ udp' = [udp EXCEPT ![current] = [x \in Ids |-> IF x \in gone THEN NoPeer ELSE @[x]]]
          /\ peerMap' = [q \in Peers |-> IF peerMap[q] \in gone THEN NoId ELSE peerMap[q]]
        BY <1>5 DEF Sweep
  <2>2. current \in Sessions /\ UNCHANGED <<down, up>>
        BY <1>t, <1>5 DEF Sweep
  <2>3. \A g \in Sessions : udp'[g][i] = p => udp[g][i] = p
        BY <1>t, <2>1, <2>2
  <2>. QED BY <1>1, <2>1, <2>2, <2>3
<1>6. ASSUME NEW d \in up, DispatchDatagram(d) PROVE Trace(i, p)
      BY <1>1, <1>6 DEF DispatchDatagram
<1>. QED BY <1>2, <1>3, <1>4, <1>5, <1>6 DEF Next

\* Nor does the first tunnel hand out an id that has left a trace: its ids go up.
LEMMA TracesStep ==
    ASSUME TypeOK, SocketSound, current <= started, OneOwner, IdsFresh, started' <= 1, Next
    PROVE  OneOwner' /\ IdsFresh'
<1> USE UdpAssumption DEF Sessions, Ids, NoId, NoSession
<1>t. /\ current \in Sessions \cup {NoSession} /\ started \in 0..MaxSessions
      /\ nextId \in [Sessions -> 1..(MaxIds + 1)]
      BY DEF TypeOK
<1>1. ASSUME NEW r \in Peers, ReceiveNew(r) PROVE OneOwner' /\ IdsFresh'
  <2>1. /\ current # NoSession /\ UNCHANGED <<current, started>>
        /\ peerMap[r] = NoId /\ nextId[current] <= MaxIds
        /\ nextId' = [nextId EXCEPT ![current] = @ + 1]
        BY <1>1 DEF ReceiveNew
  <2>2. current = 1 /\ started = 1 /\ 1 \in Sessions /\ nextId[1] \in Ids
        BY <1>t, <2>1
  <2>3. nextId'[1] = nextId[1] + 1
        BY <1>t, <2>1, <2>2
  <2>4. ASSUME NEW i \in Ids, NEW p \in Peers, Trace(i, p)'
        PROVE  Trace(i, p) \/ (p = r /\ i = nextId[1])
        BY <1>1, <2>2, <2>4, NewIdTraces
  <2>5. OneOwner'
        BY <2>2, <2>4 DEF OneOwner, IdsFresh
  <2>6. IdsFresh'
        BY <2>1, <2>2, <2>3, <2>4 DEF IdsFresh
  <2>. QED BY <2>5, <2>6
<1>2. CASE \A r \in Peers : ~ReceiveNew(r)
  <2>1. \A i \in Ids, p \in Peers : Trace(i, p)' => Trace(i, p)
        BY <1>2, ServerTraces, ClientTraces
  <2>2. \/ UNCHANGED <<started, nextId>>
        \/ started' = started + 1 /\ UNCHANGED nextId
        \/ OtherStream
        BY <1>2 DEF Next, ClientStep, serverVars, TunnelUp, Unregister, TunnelEnds,
           ReceiveKnown, Sweep, DispatchDatagram
  <2>3. ASSUME NEW i \in Ids, started' = 0 \/ i >= nextId'[1]
        PROVE  started = 0 \/ i >= nextId[1]
    <3>1. CASE OtherStream
      <4>1. current = 1 /\ 1 \in Sessions /\ UNCHANGED started
            BY <1>t, <3>1 DEF OtherStream
      <4>2. nextId'[1] = nextId[1] + 1
            BY <1>t, <3>1, <4>1 DEF OtherStream
      <4>. QED BY <1>t, <2>3, <4>1, <4>2
    <3>. QED BY <1>t, <2>2, <2>3, <3>1
  <2>4. OneOwner'
        BY <2>1 DEF OneOwner
  <2>5. IdsFresh'
        BY <2>1, <2>3 DEF IdsFresh
  <2>. QED BY <2>4, <2>5
<1>. QED BY <1>1, <1>2

\* An answer is sent on to the one source address that its id has traces of.
LEMMA AnswersStep ==
    ASSUME TypeOK, OneOwner, AnswersGoToAsker, [Next]_vars
    PROVE  AnswersGoToAsker'
<1> USE UdpAssumption DEF Sessions, Ids, Datagrams
<1>1. ASSUME NEW d \in up, DispatchDatagram(d) PROVE AnswersGoToAsker'
  <2> DEFINE to == udp[d.session][d.id]
  <2>1. d.session \in Sessions /\ d.id \in Ids /\ d.from \in Peers /\ to \in Peers \cup {NoPeer}
        BY DEF TypeOK
  <2>2. delivered' = IF to # NoPeer THEN delivered \cup {<<d.from, to>>} ELSE delivered
        BY <1>1 DEF DispatchDatagram
  <2>3. ASSUME to # NoPeer PROVE d.from = to
    <3>1. Trace(d.id, d.from)
          BY DEF Trace, FlightTrace
    <3>2. Trace(d.id, to)
          BY <2>1 DEF Trace, TableTrace
    <3>. QED BY <2>1, <2>3, <3>1, <3>2 DEF OneOwner
  <2>. QED BY <2>2, <2>3 DEF AnswersGoToAsker
<1>2. CASE UNCHANGED delivered
      BY <1>2 DEF AnswersGoToAsker
<1>. QED BY <1>1, <1>2 DEF Next, vars, serverVars, ClientStep, TunnelUp, Unregister, TunnelEnds,
         OtherStream, ReceiveNew, ReceiveKnown, Sweep, DispatchDatagram

\* The listener's map and the session's table change together, and what one of
\* them gives to an id, the other has given to nobody else.
LEMMA MatchStep ==
    ASSUME TypeOK, current <= started, OneOwner, IdsFresh, MapMatchesTable, started' <= 1, [Next]_vars
    PROVE  MapMatchesTable'
<1> USE UdpAssumption DEF Sessions, Ids, NoId, NoSession
<1>t. /\ current \in Sessions \cup {NoSession} /\ started \in 0..MaxSessions
      /\ peerMap \in [Peers -> Ids \cup {NoId}]
      /\ udp \in [Sessions -> [Ids -> Peers \cup {NoPeer}]]
      /\ nextId \in [Sessions -> 1..(MaxIds + 1)]
      BY DEF TypeOK
<1>0. ASSUME UNCHANGED <<current, started, peerMap, udp>> PROVE MapMatchesTable'
      BY <1>0 DEF MapMatchesTable
<1>1. ASSUME current = 1, 1 \in Sessions, UNCHANGED current,
             \A p \in Peers, i \in Ids : peerMap'[p] = i <=> udp'[1][i] = p
      PROVE  MapMatchesTable'
      BY <1>1 DEF MapMatchesTable
<1>2. CASE TunnelUp
  <2>1. started = 0 /\ current' \in Sessions /\ UNCHANGED <<peerMap, udp>>
        BY <1>t, <1>2 DEF TunnelUp
  <2>2. \A p \in Peers, i \in Ids : peerMap'[p] # i /\ udp'[current'][i] # p
        BY <2>1 DEF IdsFresh, Trace, TableTrace
  <2>. QED BY <2>2 DEF MapMatchesTable
<1>3. CASE Unregister
      BY <1>3 DEF Unregister, MapMatchesTable
<1>4. ASSUME NEW r \in Peers, ReceiveNew(r) PROVE MapMatchesTable'
  <2> DEFINE n == nextId[1]
  <2>1. /\ current # NoSession /\ UNCHANGED <<current, started>>
        /\ peerMap[r] = NoId /\ nextId[current] <= MaxIds
        /\ Forward(r, nextId[current], [udp EXCEPT ![current][nextId[current]] = r],
                                       [peerMap EXCEPT ![r] = nextId[current]])
        BY <1>4 DEF ReceiveNew
  <2>2. current = 1 /\ started = 1 /\ 1 \in Sessions /\ n \in Ids
        BY <1>t, <2>1
  <2>3. \A p \in Peers : peerMap[p] # n /\ udp[1][n] # p
        BY <2>2 DEF IdsFresh, Trace, TableTrace
  <2>4. \A p \in Peers, i \in Ids : peerMap[p] = i <=> udp[1][i] = p
        BY <2>2 DEF MapMatchesTable
  <2>5. CASE current \in open
    <3>1. udp' = [udp EXCEPT ![1][n] = r] /\ peerMap' = [peerMap EXCEPT ![r] = n]
          BY <2>1, <2>2, <2>5 DEF Forward
    <3>2. \A i \in Ids : udp'[1][i] = IF i = n THEN r ELSE udp[1][i]
          BY <1>t, <2>2, <3>1
    <3>3. \A p \in Peers : peerMap'[p] = IF p = r THEN n ELSE peerMap[p]
          BY <1>t, <3>1
    <3>. QED BY <1>1, <2>1, <2>2, <2>3, <2>4, <3>2, <3>3
  <2>6. CASE current \notin open
    <3>1. udp' = [udp EXCEPT ![1][n] = NoPeer] /\ peerMap' = [peerMap EXCEPT ![r] = NoId]
          BY <2>1, <2>2, <2>6 DEF Forward
    <3>2. \A i \in Ids : udp'[1][i] = IF i = n THEN NoPeer ELSE udp[1][i]
          BY <1>t, <2>2, <3>1
    <3>3. \A p \in Peers : peerMap'[p] = peerMap[p]
          BY <1>t, <2>1, <3>1
    <3>. QED BY <1>1, <2>1, <2>2, <2>3, <2>4, <3>2, <3>3
  <2>. QED BY <2>5, <2>6
<1>5. ASSUME NEW r \in Peers, ReceiveKnown(r) PROVE MapMatchesTable'
  <2> DEFINE n == peerMap[r]
  <2>1. /\ current # NoSession /\ UNCHANGED <<current, started>> /\ n # NoId
        /\ Forward(r, n, udp, peerMap)
        BY <1>5 DEF ReceiveKnown
  <2>2. current = 1 /\ started = 1 /\ 1 \in Sessions /\ n \in Ids
        BY <1>t, <2>1
  <2>3. CASE current \in open
        BY <1>0, <2>1, <2>3 DEF Forward
  <2>4. CASE current \notin open
    <3>1. udp' = [udp EXCEPT ![1][n] = NoPeer] /\ peerMap' = [peerMap EXCEPT ![r] = NoId]
          BY <2>1, <2>2, <2>4 DEF Forward
    <3>2. \A i \in Ids : udp'[1][i] = IF i = n THEN NoPeer ELSE udp[1][i]
          BY <1>t, <2>2, <3>1
    <3>3. \A p \in Peers : peerMap'[p] = IF p = r THEN NoId ELSE peerMap[p]
          BY <1>t, <3>1
    <3>4. \A p \in Peers, i \in Ids : peerMap[p] = i <=> udp[1][i] = p
          BY <2>2 DEF MapMatchesTable
    <3>. QED BY <1>1, <2>1, <2>2, <3>2, <3>3, <3>4
  <2>. QED BY <2>3, <2>4
<1>6. CASE Sweep
  <2>1. PICK gone \in SUBSET Ids :
          /\ udp' = [udp EXCEPT ![current] = [x \in Ids |-> IF x \in gone THEN NoPeer ELSE @[x]]]
          /\ peerMap' = [q \in Peers |-> IF peerMap[q] \in gone THEN NoId ELSE peerMap[q]]
        BY <1>6 DEF Sweep
  <2>2. current = 1 /\ started = 1 /\ 1 \in Sessions /\ UNCHANGED <<current, started>>
        BY <1>t, <1>6 DEF Sweep
  <2>3. \A i \in Ids : udp'[1][i] = IF i \in gone THEN NoPeer ELSE udp[1][i]
        BY <1>t, <2>1, <2>2
  <2>4. \A p \in Peers, i \in Ids : peerMap[p] = i <=> udp[1][i] = p
        BY <2>2 DEF MapMatchesTable
  <2>. QED BY <1>1, <2>1, <2>2, <2>3, <2>4
<1>7. CASE \/ UNCHANGED vars \/ OtherStream \/ ClientStep
           \/ \E g \in Sessions : TunnelEnds(g)
           \/ \E d \in up : DispatchDatagram(d)
      BY <1>0, <1>7 DEF vars, serverVars, OtherStream, ClientStep, TunnelEnds, DispatchDatagram
<1>. QED BY <1>2, <1>3, <1>4, <1>5, <1>6, <1>7 DEF Next
-------------------------------------------------------------------------------
\* Before the first tunnel nothing has left a trace.
LEMMA InitIInv == Init => IInv
<1> SUFFICES ASSUME Init PROVE IInv
    OBVIOUS
<1> USE UdpAssumption DEF Init, Client!Init, Sessions, Ids, Datagrams, NoId, NoSession,
        Client!Socks, Client!NoSock
<1>1. TypeOK
      BY DEF TypeOK, Client!Fresh, Client!TaskStates
<1>2. SocketSound
      BY DEF SocketSound, Client!Fresh
<1>3. \A i \in Ids, p \in Peers : ~Trace(i, p)
      BY DEF Trace, TableTrace, FlightTrace, SocketTrace
<1>4. FirstTunnel
      BY <1>3 DEF FirstTunnel, OneOwner, IdsFresh, MapMatchesTable, AnswersGoToAsker
<1>. QED BY <1>1, <1>2, <1>4 DEF IInv

\* No step breaks the invariant; a reconnect makes its last part void.
LEMMA StepIInv == IInv /\ [Next]_vars => IInv'
<1> SUFFICES ASSUME IInv, [Next]_vars PROVE IInv'
    OBVIOUS
<1>1. TypeOK /\ SocketSound /\ current <= started /\ (started <= 1 => FirstTunnel)
      BY DEF IInv
<1>2. TypeOK' /\ SocketSound'
      BY <1>1, TypeStep, SocketStep
<1>3. current \in Nat /\ started \in Nat
      BY <1>1, UdpAssumption DEF TypeOK, Sessions, NoSession
<1>4. /\ started' = started \/ started' = started + 1
      /\ current' = current \/ current' = 0 \/ (current' = started + 1 /\ started' = started + 1)
      BY DEF Next, vars, serverVars, ClientStep, TunnelUp, Unregister, TunnelEnds, OtherStream,
         ReceiveNew, ReceiveKnown, Sweep, DispatchDatagram, NoSession
<1>5. current' <= started'
      BY <1>1, <1>3, <1>4
<1>6. ASSUME started' <= 1 PROVE FirstTunnel'
  <2>1. FirstTunnel
        BY <1>1, <1>3, <1>4, <1>6
  <2>2. CASE UNCHANGED vars
        BY <2>1, <2>2 DEF vars, serverVars, clientVars, FirstTunnel, OneOwner, IdsFresh, Trace,
           TableTrace, FlightTrace, SocketTrace, MapMatchesTable, AnswersGoToAsker
  <2>3. CASE Next
        BY <1>1, <1>6, <2>1, <2>3, TracesStep, AnswersStep, MatchStep DEF FirstTunnel
  <2>. QED BY <2>2, <2>3
<1>. QED BY <1>2, <1>5, <1>6 DEF IInv

\* The traces of the first tunnel, the sockets and the types, in every reachable
\* state of the listener, the tunnels and the client.
THEOREM Invariance == Spec => []IInv
BY InitIInv, StepIInv, PTL DEF Spec

\* Every variable of the UDP proxy and of the client's sockets keeps its type.
THEOREM TypeCorrect == Spec => []TypeOK
<1>1. IInv => TypeOK
      BY DEF IInv
<1>. QED BY <1>1, Invariance, PTL

\* Until the client reconnects, every answer goes out to the source address
\* whose datagram it answers.
THEOREM FirstTunnelAnswers == Spec => [](started <= 1 => AnswersGoToAsker)
<1>1. IInv => (started <= 1 => AnswersGoToAsker)
      BY DEF IInv, FirstTunnel
<1>. QED BY <1>1, Invariance, PTL

\* In the client's first tunnel a source address has an id in peer_map exactly
\* when the session's table sends the answers of that id to it.
THEOREM TablesAgree == Spec => []MapMatchesTable
<1>1. IInv => MapMatchesTable
      BY DEF IInv, FirstTunnel, MapMatchesTable
<1>. QED BY <1>1, Invariance, PTL

\* In the client's first tunnel no two source addresses share a local socket.
THEOREM SocketsNotShared == Spec => []OneAskerPerSocket
<1>1. ASSUME IInv PROVE OneAskerPerSocket
  <2> SUFFICES ASSUME started = 1, NEW n \in Client!Socks PROVE Cardinality(askers[n]) <= 1
      BY DEF OneAskerPerSocket
  <2>1. TypeOK /\ SocketSound /\ OneOwner
        BY <1>1 DEF IInv, FirstTunnel
  <2>2. askers[n] \subseteq Peers
        BY <2>1 DEF TypeOK
  <2>3. CASE askers[n] = {}
        BY <2>3, FS_EmptySet
  <2>4. CASE askers[n] # {}
    <3>1. sock[n].id \in Ids
          BY <2>1, <2>4 DEF SocketSound
    <3>2. ASSUME NEW p \in askers[n], NEW q \in askers[n] PROVE p = q
          BY <2>1, <2>2, <3>1 DEF OneOwner, Trace, SocketTrace
    <3>3. PICK p : askers[n] = {p}
          BY <2>4, <3>2
    <3>4. Cardinality({p}) = 1
          BY FS_Singleton
    <3>. QED BY <3>3, <3>4
  <2>. QED BY <2>3, <2>4
<1>. QED BY <1>1, Invariance, PTL

\* A client with one tunnel: what the listener sends, it sends under an id whose
\* answers the session's table gives to the sender.
THEOREM OwnEntry == ASSUME MaxSessions = 1 PROVE Spec => SentUnderOwnEntry
<1>1. ASSUME IInv, [Next]_vars PROVE [\A d \in down' \ down : udp'[d.session][d.id] = d.from]_vars
  <2> SUFFICES ASSUME NEW d \in down', d \notin down PROVE udp'[d.session][d.id] = d.from
      OBVIOUS
  <2> USE UdpAssumption DEF Sessions, Ids, NoId, NoSession
  <2>t. /\ current \in Sessions \cup {NoSession} /\ started \in 0..MaxSessions
        /\ peerMap \in [Peers -> Ids \cup {NoId}]
        /\ udp \in [Sessions -> [Ids -> Peers \cup {NoPeer}]]
        /\ nextId \in [Sessions -> 1..(MaxIds + 1)]
        /\ current <= started
        BY <1>1 DEF IInv, TypeOK
  <2>1. CASE \E r \in Peers : ReceiveNew(r)
    <3>1. PICK r \in Peers : ReceiveNew(r)
          BY <2>1
    <3>2. current \in Sessions /\ nextId[current] \in Ids
          BY <2>t, <3>1 DEF ReceiveNew
    <3>3. /\ d = [session |-> current, id |-> nextId[current], from |-> r]
          /\ udp' = [udp EXCEPT ![current][nextId[current]] = r]
          BY <3>1 DEF ReceiveNew, Forward
    <3>. QED BY <2>t, <3>2, <3>3
  <2>2. CASE \E r \in Peers : ReceiveKnown(r)
    <3>1. PICK r \in Peers : ReceiveKnown(r)
          BY <2>2
    <3>2. d = [session |-> current, id |-> peerMap[r], from |-> r] /\ udp' = udp
          BY <3>1 DEF ReceiveKnown, Forward
    <3>3. current # NoSession /\ started = 1 /\ peerMap[r] \in Ids
          BY <2>t, <3>1 DEF ReceiveKnown
    <3>4. udp[current][peerMap[r]] = r
          BY <1>1, <3>3 DEF IInv, FirstTunnel, MapMatchesTable
    <3>. QED BY <3>2, <3>4
  <2>3. CASE down' \subseteq down
        BY <2>3
  <2>. QED BY <1>1, <2>1, <2>2, <2>3 DEF Next, vars, ClientStep, TunnelUp, Unregister, TunnelEnds,
           OtherStream, Sweep, DispatchDatagram, Client!SendToTarget, Client!CreateFails,
           Client!SendFails, Client!Starts, Client!Replies, Client!ReceiveFails, Client!Receives,
           Client!SweepClient, Client!ClearClient
<1>. QED BY <1>1, Invariance, PTL DEF Spec, SentUnderOwnEntry
===============================================================================
