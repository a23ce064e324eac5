-------------------------- MODULE TunnelSessionsProofs --------------------------
(***************************************************************************)
(* Proofs about TunnelSessions, for any sets of connections, client_ids    *)
(* and kick requests, any window and any clock bound.                      *)
(***************************************************************************)
EXTENDS TunnelSessions, TLAPS

\* The table never names a session that is not its client_id's, or whose
\* tunnel has already been cleaned up.
EntrySound ==
    \A k \in Clients : sessions[k] # NoConn =>
        client[sessions[k]] = k /\ pc[sessions[k]] \in Holding \cup {"ackfailed"}

\* A handshake past the kick check has waited out every kick recorded before
\* its connection was accepted.
WaitedOut ==
    \A c \in Conns : pc[c] = "auth" =>
        LET t == kicked[client[c]] IN
        t # NotKicked /\ t < acceptedAt[c] => now - t > Window

AcceptedInThePast == \A c \in Conns : acceptedAt[c] <= now

IInv == TypeOK /\ ServedUnlessKicked /\ EntrySound /\ WaitedOut /\ AcceptedInThePast
-------------------------------------------------------------------------------
\* Every variable keeps its type in every behaviour of the specification: the
\* handshake, the cleanup and the kick handler only ever index the session
\* table with a client_id that was read, and a kick only sends to a session
\* that it found.
THEOREM TypeCorrect == Spec => []TypeOK
<1> USE ConstantsAssumption DEF NotKicked, ConnStates, KickStates, PeerStates, ToldStates
<1>a. Init => TypeOK
      BY DEF Init, TypeOK
<1>b. TypeOK /\ UNCHANGED vars => TypeOK'
      BY DEF TypeOK, vars
<1>1. ASSUME TypeOK, NEW c \in Conns, Accept(c)
      PROVE  TypeOK'
      BY <1>1 DEF TypeOK, Accept, Goto, connVars, kickVars
<1>2. ASSUME TypeOK, NEW c \in Conns, NEW k \in Clients, ReadRequest(c, k)
      PROVE  TypeOK'
      BY <1>2 DEF TypeOK, ReadRequest, Goto, connVars, kickVars
<1>3. ASSUME TypeOK, NEW c \in Conns, RefuseRequest(c)
      PROVE  TypeOK'
      BY <1>3 DEF TypeOK, RefuseRequest, Goto, connVars, kickVars
<1>4. ASSUME TypeOK, NEW c \in Conns, CheckKicked(c)
      PROVE  TypeOK'
      BY <1>4 DEF TypeOK, CheckKicked, Goto, connVars, kickVars
<1>5. ASSUME TypeOK, NEW c \in Conns, Register(c)
      PROVE  TypeOK'
      BY <1>5 DEF TypeOK, Register, Goto, connVars, kickVars
<1>6. ASSUME TypeOK, NEW c \in Conns, RefuseAuth(c)
      PROVE  TypeOK'
      BY <1>6 DEF TypeOK, RefuseAuth, Goto, connVars, kickVars
<1>7. ASSUME TypeOK, NEW c \in Conns, WriteAck(c)
      PROVE  TypeOK'
      BY <1>7 DEF TypeOK, WriteAck, Goto, connVars, kickVars
<1>8. ASSUME TypeOK, NEW c \in Conns, AckFails(c)
      PROVE  TypeOK'
      BY <1>8 DEF TypeOK, AckFails, Goto, connVars, kickVars
<1>9. ASSUME TypeOK, NEW c \in Conns, WriteError(c)
      PROVE  TypeOK'
      BY <1>9 DEF TypeOK, WriteError, connVars, kickVars
<1>10. ASSUME TypeOK, NEW c \in Conns, ClientTerminates(c)
      PROVE  TypeOK'
      BY <1>10 DEF TypeOK, ClientTerminates, connVars, kickVars
<1>11. ASSUME TypeOK, NEW c \in Conns, Disconnect(c)
      PROVE  TypeOK'
      BY <1>11 DEF TypeOK, Disconnect, connVars, kickVars
<1>12. ASSUME TypeOK, NEW c \in Conns, ConnectionLost(c)
      PROVE  TypeOK'
      BY <1>12 DEF TypeOK, ConnectionLost, Goto, connVars, kickVars
<1>13. ASSUME TypeOK, NEW c \in Conns, DecodeError(c)
      PROVE  TypeOK'
      BY <1>13 DEF TypeOK, DecodeError, Goto, connVars, kickVars
<1>14. ASSUME TypeOK, NEW c \in Conns, FindCurrent(c)
      PROVE  TypeOK'
      BY <1>14 DEF TypeOK, FindCurrent, Goto, connVars, kickVars
<1>15. ASSUME TypeOK, NEW c \in Conns, RemoveCurrent(c)
      PROVE  TypeOK'
      BY <1>15 DEF TypeOK, RemoveCurrent, Goto, connVars, kickVars
<1>16. ASSUME TypeOK, NEW c \in Conns, MergeTraffic(c)
      PROVE  TypeOK'
      BY <1>16 DEF TypeOK, MergeTraffic, Goto, connVars, kickVars
<1>17. ASSUME TypeOK, NEW q \in Kicks, NEW k \in Clients, KickGet(q, k)
      PROVE  TypeOK'
      BY <1>17 DEF TypeOK, KickGet, connVars, kickVars
<1>18. ASSUME TypeOK, NEW q \in Kicks, KickSend(q)
      PROVE  TypeOK'
      BY <1>18 DEF TypeOK, KickSend, FrameRxAlive, connVars, kickVars
<1>19. ASSUME TypeOK, NEW q \in Kicks, KickUnregister(q)
      PROVE  TypeOK'
      BY <1>19 DEF TypeOK, KickUnregister, connVars, kickVars
<1>20. ASSUME TypeOK, NEW q \in Kicks, KickMark(q)
      PROVE  TypeOK'
      BY <1>20 DEF TypeOK, KickMark, connVars, kickVars
<1>21. ASSUME TypeOK, Tick
      PROVE  TypeOK'
      BY <1>21 DEF TypeOK, Tick, connVars, kickVars
<1>22. ASSUME TypeOK, NEW c \in Conns, ClientTakesAck(c)
      PROVE  TypeOK'
      BY <1>22 DEF TypeOK, ClientTakesAck, connVars, kickVars
<1>23. ASSUME TypeOK, NEW c \in Conns, QueueFills(c)
      PROVE  TypeOK'
      BY <1>23 DEF TypeOK, QueueFills, connVars, kickVars
<1>24. ASSUME TypeOK, NEW c \in Conns, QueueDrains(c)
      PROVE  TypeOK'
      BY <1>24 DEF TypeOK, QueueDrains, connVars, kickVars
<1>c. TypeOK /\ [Next]_vars => TypeOK'
      BY <1>b, <1>1, <1>2, <1>3, <1>4, <1>5, <1>6, <1>7, <1>8, <1>9, <1>10, <1>11, <1>12, <1>13, <1>14, <1>15, <1>16, <1>17, <1>18, <1>19, <1>20, <1>21, <1>22, <1>23, <1>24
      DEF Next, Proceed, Environment, ClientReads, KickProceed
<1>. QED
      BY <1>a, <1>c, PTL DEF Spec
-------------------------------------------------------------------------------
\* The inductive step, action by action: no step of a tunnel, of a kick or of
\* the clock leaves the inductive invariant.
LEMMA StepKeepsIInv == IInv /\ TypeOK' /\ [Next]_vars => IInv'
<1> SUFFICES ASSUME IInv, TypeOK', [Next]_vars PROVE IInv'
    OBVIOUS
<1> USE ConstantsAssumption DEF IInv, NotKicked, Holding
<1>1. ASSUME NEW c \in Conns, Accept(c) PROVE IInv'
  <2>1. ServedUnlessKicked'
        BY <1>1 DEF TypeOK, ServedUnlessKicked, KickedOut, Accept, Goto, connVars, kickVars
  <2>2. EntrySound'
        BY <1>1 DEF TypeOK, EntrySound, Accept, Goto, connVars, kickVars
  <2>3. WaitedOut'
        BY <1>1 DEF TypeOK, WaitedOut, Accept, Goto, connVars, kickVars
  <2>4. AcceptedInThePast'
        BY <1>1 DEF TypeOK, AcceptedInThePast, Accept, Goto, connVars, kickVars
  <2>. QED BY <1>1, <2>1, <2>2, <2>3, <2>4
<1>2. ASSUME NEW c \in Conns, NEW k \in Clients, ReadRequest(c, k) PROVE IInv'
      BY <1>2 DEF TypeOK, ServedUnlessKicked, KickedOut, EntrySound, WaitedOut, AcceptedInThePast,
              ReadRequest, Goto, connVars, kickVars
<1>3. ASSUME NEW c \in Conns, RefuseRequest(c) PROVE IInv'
      BY <1>3 DEF TypeOK, ServedUnlessKicked, KickedOut, EntrySound, WaitedOut, AcceptedInThePast,
              RefuseRequest, Goto, connVars, kickVars
<1>4. ASSUME NEW c \in Conns, CheckKicked(c) PROVE IInv'
  <2>1. ServedUnlessKicked'
        BY <1>4 DEF TypeOK, ServedUnlessKicked, KickedOut, CheckKicked, Goto, is_kicked, connVars, kickVars
  <2>2. EntrySound'
        BY <1>4 DEF TypeOK, EntrySound, CheckKicked, Goto, is_kicked, connVars, kickVars
  <2>3. WaitedOut'
        BY <1>4 DEF TypeOK, WaitedOut, CheckKicked, Goto, is_kicked, connVars, kickVars
  <2>. QED BY <1>4, <2>1, <2>2, <2>3 DEF TypeOK, AcceptedInThePast, CheckKicked, Goto, is_kicked, connVars, kickVars
<1>5. ASSUME NEW c \in Conns, Register(c) PROVE IInv'
  <2>1. ServedUnlessKicked'
        BY <1>5 DEF TypeOK, ServedUnlessKicked, KickedOut, Register, Goto, connVars, kickVars
  <2>2. EntrySound'
        BY <1>5 DEF TypeOK, EntrySound, Register, Goto, connVars, kickVars
  <2>3. WaitedOut'
        BY <1>5 DEF TypeOK, WaitedOut, Register, Goto, connVars, kickVars
  <2>. QED BY <1>5, <2>1, <2>2, <2>3 DEF TypeOK, AcceptedInThePast, Register, Goto, connVars, kickVars
<1>6. ASSUME NEW c \in Conns, RefuseAuth(c) PROVE IInv'
      BY <1>6 DEF TypeOK, ServedUnlessKicked, KickedOut, EntrySound, WaitedOut, AcceptedInThePast,
              RefuseAuth, Goto, connVars, kickVars
<1>7. ASSUME NEW c \in Conns, WriteAck(c) PROVE IInv'
      BY <1>7 DEF TypeOK, ServedUnlessKicked, KickedOut, EntrySound, WaitedOut, AcceptedInThePast,
              WriteAck, Goto, connVars, kickVars
<1>8. ASSUME NEW c \in Conns, AckFails(c) PROVE IInv'
      BY <1>8 DEF TypeOK, ServedUnlessKicked, KickedOut, EntrySound, WaitedOut, AcceptedInThePast,
              AckFails, Goto, connVars, kickVars
<1>9. ASSUME NEW c \in Conns, WriteError(c) PROVE IInv'
      BY <1>9 DEF TypeOK, ServedUnlessKicked, KickedOut, EntrySound, WaitedOut, AcceptedInThePast,
              WriteError, connVars, kickVars
<1>10. ASSUME NEW c \in Conns, ClientTerminates(c) PROVE IInv'
      BY <1>10 DEF TypeOK, ServedUnlessKicked, KickedOut, EntrySound, WaitedOut, AcceptedInThePast,
              ClientTerminates, connVars, kickVars
<1>11. ASSUME NEW c \in Conns, Disconnect(c) PROVE IInv'
      BY <1>11 DEF TypeOK, ServedUnlessKicked, KickedOut, EntrySound, WaitedOut, AcceptedInThePast,
              Disconnect, connVars, kickVars
<1>12. ASSUME NEW c \in Conns, ConnectionLost(c) PROVE IInv'
      BY <1>12 DEF TypeOK, ServedUnlessKicked, KickedOut, EntrySound, WaitedOut, AcceptedInThePast,
              ConnectionLost, Goto, connVars, kickVars
<1>13. ASSUME NEW c \in Conns, DecodeError(c) PROVE IInv'
      BY <1>13 DEF TypeOK, ServedUnlessKicked, KickedOut, EntrySound, WaitedOut, AcceptedInThePast,
              DecodeError, Goto, connVars, kickVars
<1>14. ASSUME NEW c \in Conns, FindCurrent(c) PROVE IInv'
  <2>1. ServedUnlessKicked'
        BY <1>14 DEF TypeOK, ServedUnlessKicked, KickedOut, FindCurrent, Goto, connVars, kickVars
  <2>2. EntrySound'
        BY <1>14 DEF TypeOK, EntrySound, FindCurrent, Goto, connVars, kickVars
  <2>. QED BY <1>14, <2>1, <2>2 DEF TypeOK, WaitedOut, AcceptedInThePast, FindCurrent, Goto, connVars, kickVars
<1>15. ASSUME NEW c \in Conns, RemoveCurrent(c) PROVE IInv'
  <2>1. ServedUnlessKicked'
        BY <1>15 DEF TypeOK, ServedUnlessKicked, KickedOut, RemoveCurrent, Goto, connVars, kickVars
  <2>2. EntrySound'
        BY <1>15 DEF TypeOK, EntrySound, RemoveCurrent, Goto, connVars, kickVars
  <2>. QED BY <1>15, <2>1, <2>2 DEF TypeOK, WaitedOut, AcceptedInThePast, RemoveCurrent, Goto, connVars, kickVars
<1>16. ASSUME NEW c \in Conns, MergeTraffic(c) PROVE IInv'
      BY <1>16 DEF TypeOK, ServedUnlessKicked, KickedOut, EntrySound, WaitedOut, AcceptedInThePast,
              MergeTraffic, Goto, connVars, kickVars
<1>17. ASSUME NEW q \in Kicks, NEW k \in Clients, KickGet(q, k) PROVE IInv'
      BY <1>17 DEF TypeOK, ServedUnlessKicked, KickedOut, EntrySound, WaitedOut, AcceptedInThePast,
              KickGet, connVars, kickVars
<1>18. ASSUME NEW q \in Kicks, KickSend(q) PROVE IInv'
      BY <1>18 DEF TypeOK, ServedUnlessKicked, KickedOut, EntrySound, WaitedOut, AcceptedInThePast,
              KickSend, FrameRxAlive, connVars, kickVars
<1>19. ASSUME NEW q \in Kicks, KickUnregister(q) PROVE IInv'
  <2>1. ServedUnlessKicked'
        BY <1>19 DEF TypeOK, ServedUnlessKicked, KickedOut, KickUnregister, connVars, kickVars
  <2>2. EntrySound'
        BY <1>19 DEF TypeOK, EntrySound, KickUnregister, connVars, kickVars
  <2>. QED BY <1>19, <2>1, <2>2 DEF TypeOK, WaitedOut, AcceptedInThePast, KickUnregister, connVars, kickVars
<1>20. ASSUME NEW q \in Kicks, KickMark(q) PROVE IInv'
  <2>1. ServedUnlessKicked'
        BY <1>20 DEF TypeOK, ServedUnlessKicked, KickedOut, KickMark, connVars, kickVars
  <2>3. WaitedOut'
        BY <1>20 DEF TypeOK, WaitedOut, AcceptedInThePast, KickMark, connVars, kickVars
  <2>. QED BY <1>20, <2>1, <2>3 DEF TypeOK, EntrySound, AcceptedInThePast, KickMark, connVars, kickVars
<1>21. ASSUME Tick PROVE IInv'
  <2>3. WaitedOut'
        BY <1>21 DEF TypeOK, WaitedOut, Tick, connVars, kickVars
  <2>4. AcceptedInThePast'
        BY <1>21 DEF TypeOK, AcceptedInThePast, Tick, connVars, kickVars
  <2>. QED BY <1>21, <2>3, <2>4 DEF TypeOK, ServedUnlessKicked, KickedOut, EntrySound, Tick, connVars, kickVars
<1>22. ASSUME NEW c \in Conns, ClientTakesAck(c) PROVE IInv'
      BY <1>22 DEF TypeOK, ServedUnlessKicked, KickedOut, EntrySound, WaitedOut, AcceptedInThePast,
              ClientTakesAck, connVars, kickVars
<1>23. ASSUME NEW c \in Conns, QueueFills(c) PROVE IInv'
      BY <1>23 DEF TypeOK, ServedUnlessKicked, KickedOut, EntrySound, WaitedOut, AcceptedInThePast,
              QueueFills, connVars, kickVars
<1>24. ASSUME NEW c \in Conns, QueueDrains(c) PROVE IInv'
      BY <1>24 DEF TypeOK, ServedUnlessKicked, KickedOut, EntrySound, WaitedOut, AcceptedInThePast,
              QueueDrains, connVars, kickVars
<1>25. CASE UNCHANGED vars
  BY <1>25 DEF TypeOK, ServedUnlessKicked, KickedOut, EntrySound, WaitedOut, AcceptedInThePast, vars
<1>. QED
     BY <1>1, <1>2, <1>3, <1>4, <1>5, <1>6, <1>7, <1>8, <1>9, <1>10, <1>11, <1>12, <1>13, <1>14, <1>15, <1>16, <1>17, <1>18, <1>19, <1>20, <1>21, <1>22, <1>23, <1>24, <1>25
     DEF Next, Proceed, Environment, ClientReads, KickProceed
-------------------------------------------------------------------------------
\* Every reachable state satisfies the inductive invariant.
THEOREM Invariance == Spec => []IInv
<1>1. Init => IInv
      BY ConstantsAssumption
      DEF Init, IInv, TypeOK, ServedUnlessKicked, EntrySound, WaitedOut, AcceptedInThePast,
          Holding, ConnStates, KickStates, PeerStates, ToldStates, NotKicked
<1>2. TypeOK /\ TypeOK' /\ IInv /\ [Next]_vars => IInv'
      BY StepKeepsIInv
<1>. QED
     BY <1>1, <1>2, TypeCorrect, PTL DEF Spec

\* A session that is not cleaned up yet is the one the table serves, unless an
\* admin kicked its client_id: no reconnect and no cleanup of an older
\* connection takes it out.
THEOREM LiveSessionServed == Spec => []ServedUnlessKicked
<1>1. IInv => ServedUnlessKicked
      BY DEF IInv
<1>. QED BY <1>1, Invariance, PTL

\* Two tunnels of one client_id never run side by side unless it was kicked.
THEOREM SingleTunnel == Spec => []OneTunnelPerClient
<1>1. IInv => OneTunnelPerClient
      BY DEF IInv, ServedUnlessKicked, OneTunnelPerClient, Holding
<1>. QED BY <1>1, Invariance, PTL

\* A session whose traffic has been merged into the totals is not in the table,
\* so traffic_totals never counts its bytes a second time.
THEOREM NoDoubleCount == Spec => []MergedNotOnline
<1>1. IInv => MergedNotOnline
      BY ConstantsAssumption DEF IInv, EntrySound, MergedNotOnline, Holding
<1>. QED BY <1>1, Invariance, PTL

\* A connection accepted after a kick was recorded registers only when the
\* rejection window of that kick is over.
THEOREM KickWindowHolds == Spec => KickHoldsForLaterConnections
<1>1. IInv /\ [Next]_vars =>
        [\A c \in Conns :
           pc[c] = "auth" /\ pc'[c] = "acking"
             => LET t == kicked[client[c]] IN
                t # NotKicked /\ t < acceptedAt[c] => now - t > Window]_vars
      BY DEF IInv, WaitedOut
<1>. QED BY <1>1, Invariance, PTL DEF Spec, KickHoldsForLaterConnections

\* Every step of the server is a step of the abstract session table, or leaves
\* the table and the set of sessions that have been in it as they are.
THEOREM TableImplemented == Spec => ImplementsTable
<1>1. Init => Table!Init
      BY DEF Init, Table!Init, Entered
<1>2. IInv /\ [Next]_vars => [Table!Next]_(Table!tableVars)
  <2> SUFFICES ASSUME IInv, [Next]_vars PROVE [Table!Next]_(Table!tableVars)
      OBVIOUS
  <2> USE ConstantsAssumption DEF IInv, TypeOK, Entered, Table!tableVars
  <2>1. ASSUME NEW c \in Conns, Register(c) PROVE Table!Next
    <3>1. Table!GoOnline(client[c], c)
          BY <2>1 DEF Register, Goto, Table!GoOnline
    <3>. QED BY <2>1, <3>1 DEF Register, Goto, Table!Next
  <2>2. ASSUME NEW c \in Conns, RemoveCurrent(c)
        PROVE  Table!Next \/ UNCHANGED Table!tableVars
    <3>1. client[c] \in Clients /\ Entered' = Entered
          BY <2>2 DEF RemoveCurrent, Goto
    <3>2. CASE sessions[client[c]] = NoConn
          BY <2>2, <3>1, <3>2 DEF RemoveCurrent
    <3>3. CASE sessions[client[c]] # NoConn
          BY <2>2, <3>1, <3>3 DEF RemoveCurrent, Table!Next, Table!GoOffline
    <3>. QED BY <3>2, <3>3
  <2>3. ASSUME NEW q \in Kicks, KickUnregister(q)
        PROVE  Table!Next \/ UNCHANGED Table!tableVars
    <3>1. kclient[q] \in Clients /\ Entered' = Entered
          BY <2>3 DEF KickUnregister, connVars
    <3>2. CASE sessions[kclient[q]] = NoConn
          BY <2>3, <3>1, <3>2 DEF KickUnregister
    <3>3. CASE sessions[kclient[q]] # NoConn
          BY <2>3, <3>1, <3>3 DEF KickUnregister, Table!Next, Table!GoOffline
    <3>. QED BY <3>2, <3>3
  <2>4. ASSUME NEW c \in Conns,
               \/ Accept(c) \/ RefuseRequest(c) \/ CheckKicked(c) \/ RefuseAuth(c)
               \/ WriteAck(c) \/ AckFails(c) \/ WriteError(c) \/ ClientTerminates(c)
               \/ ClientTakesAck(c) \/ QueueFills(c) \/ QueueDrains(c)
               \/ Disconnect(c) \/ ConnectionLost(c) \/ DecodeError(c)
               \/ FindCurrent(c) \/ MergeTraffic(c) \/ \E k \in Clients : ReadRequest(c, k)
        PROVE  UNCHANGED Table!tableVars
        BY <2>4 DEF Accept, RefuseRequest, CheckKicked, RefuseAuth, WriteAck, AckFails,
                    WriteError, ClientTerminates, ClientTakesAck, QueueFills, QueueDrains, Disconnect, ConnectionLost, DecodeError,
                    FindCurrent, MergeTraffic, ReadRequest, Goto
  <2>5. ASSUME NEW q \in Kicks,
               KickSend(q) \/ KickMark(q) \/ \E k \in Clients : KickGet(q, k)
        PROVE  UNCHANGED Table!tableVars
        BY <2>5 DEF KickSend, KickMark, KickGet, connVars
  <2>6. ASSUME Tick \/ UNCHANGED vars PROVE UNCHANGED Table!tableVars
        BY <2>6 DEF Tick, connVars, vars
  <2>. QED
       BY <2>1, <2>2, <2>3, <2>4, <2>5, <2>6 DEF Next, Proceed, Environment, ClientReads, KickProceed
<1>. QED BY <1>1, <1>2, Invariance, PTL DEF Spec, Table!Spec, ImplementsTable
===============================================================================
