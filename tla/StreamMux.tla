------------------------------- MODULE StreamMux -------------------------------
(***************************************************************************)
(* The business streams of one established tunnel.  On the server:         *)
(* handle_public_conn and forward_session_conn (server/listener.rs), one   *)
(* task per public connection, and dispatch_frame of the reader task       *)
(* (server/tunnel.rs).  On the client: the frame loop of run_once          *)
(* (client/mod.rs) and forward_local (client/forwarder.rs), one task per   *)
(* stream.  A member of Sids is one public connection together with the    *)
(* stream id that the allocator gives it (see StreamIds: never twice).     *)
(*                                                                         *)
(* s2c and c2s hold the frames on their way: the frame channel, the writer *)
(* task and the socket of that direction, one bounded FIFO.  A task that   *)
(* awaits a send waits for room; once the receiving end is dropped the     *)
(* send fails at once.  A chunk of a stream is named by the frame that     *)
(* carries it, so that a chunk in the wrong place shows.                   *)
(***************************************************************************)
EXTENDS Integers, Sequences

CONSTANTS
    Sids,
    Chunks,     \* each end of a stream sends at most this many reads' worth
    WireCap,    \* FRAME_CHANNEL_BUF and the socket buffers, in frames
    DataCap,    \* STREAM_DATA_CHANNEL_BUF
    TunnelMayEnd

ASSUME MuxAssumption ==
    Chunks \in Nat /\ WireCap \in Nat \ {0} /\ DataCap \in Nat \ {0} /\ TunnelMayEnd \in BOOLEAN

VARIABLES
    s2c, c2s,       \* frames in flight
    sUp, cUp,       \* the tunnel tasks of each side still run
    h,              \* server: where each handle_public_conn is
    pending,        \* server: pending_opens
    ack,            \* server: what the oneshot of each pending open holds
    sStreams,       \* server: the stream ids in session.streams
    sData,          \* server: the data channel of each stream
    pubRead,        \* chunks read from the public socket
    pubWritten,     \* chunks given to write_all for it
    f,              \* client: where each forward_local is
    cStreams, cData,
    locRead, locWritten

serverVars == <<h, pending, ack, sStreams, sData, pubRead, pubWritten>>
clientVars == <<f, cStreams, cData, locRead, locWritten>>
vars == <<s2c, c2s, sUp, cUp, serverVars, clientVars>>

Frame(type, sid, n) == [type |-> type, sid |-> sid, n |-> n]

Init == /\ s2c = <<>> /\ c2s = <<>>
        /\ sUp = TRUE /\ cUp = TRUE
        /\ h = [s \in Sids |-> "new"]
        /\ pending = {}
        /\ ack = [s \in Sids |-> "none"]
        /\ sStreams = {}
        /\ sData = [s \in Sids |-> <<>>]
        /\ pubRead = [s \in Sids |-> 0]
        /\ pubWritten = [s \in Sids |-> <<>>]
        /\ f = [s \in Sids |-> "none"]
        /\ cStreams = {}
        /\ cData = [s \in Sids |-> <<>>]
        /\ locRead = [s \in Sids |-> 0]
        /\ locWritten = [s \in Sids |-> <<>>]

\* frame_tx.send(fr).await on the server: waits for room; fails when the
\* writer task is gone.
SendToClient(fr) == IF sUp THEN Len(s2c) < WireCap /\ s2c' = Append(s2c, fr)
                           ELSE UNCHANGED s2c

\* The same on the client.  With the server gone the bytes go nowhere.
SendToServer(fr) == IF cUp /\ sUp THEN Len(c2s) < WireCap /\ c2s' = Append(c2s, fr)
                                  ELSE UNCHANGED c2s
-------------------------------------------------------------------------------
(* handle_public_conn *)

\* A public connection; the session is looked up, an id allocated, the open
\* registered as pending.
AcceptPublic(s) == /\ h[s] = "new" /\ sUp
                   /\ h' = [h EXCEPT ![s] = "opening"]
                   /\ pending' = pending \cup {s}
                   /\ UNCHANGED <<s2c, c2s, sUp, cUp, ack, sStreams, sData, pubRead, pubWritten, clientVars>>

SendOpen(s) == /\ h[s] = "opening"
               /\ SendToClient(Frame("Open", s, 0))
               /\ IF sUp THEN h' = [h EXCEPT ![s] = "waiting"] /\ UNCHANGED pending
                         ELSE h' = [h EXCEPT ![s] = "done"] /\ pending' = pending \ {s}
               /\ UNCHANGED <<c2s, sUp, cUp, ack, sStreams, sData, pubRead, pubWritten, clientVars>>

\* The ack is in: on success the stream enters the table, only now.
OpenAcked(s) == /\ h[s] = "waiting" /\ ack[s] # "none"
                /\ pending' = pending \ {s}
                /\ IF ack[s] = "ok"
                     THEN h' = [h EXCEPT ![s] = "forward"] /\ sStreams' = sStreams \cup {s}
                     ELSE h' = [h EXCEPT ![s] = "done"] /\ UNCHANGED sStreams
                /\ UNCHANGED <<s2c, c2s, sUp, cUp, ack, sData, pubRead, pubWritten, clientVars>>

\* The wait is bounded only while the tunnel is up.
Bug_TimeoutNeedsTunnel(s) ==
    /\ sUp /\ h[s] = "waiting" /\ ack[s] = "none"
    /\ pending' = pending \ {s}
    /\ h' = [h EXCEPT ![s] = "done"]
    /\ UNCHANGED <<s2c, c2s, sUp, cUp, ack, sStreams, sData, pubRead, pubWritten, clientVars>>

\* The timeout leaves the pending entry behind.
Bug_TimeoutKeepsPending(s) ==
    /\ h[s] = "waiting" /\ ack[s] = "none"
    /\ h' = [h EXCEPT ![s] = "done"]
    /\ UNCHANGED <<s2c, c2s, sUp, cUp, pending, ack, sStreams, sData, pubRead, pubWritten, clientVars>>

\* STREAM_OPEN_TIMEOUT_SECS passes without an ack.
OpenTimesOut(s) == /\ h[s] = "waiting" /\ ack[s] = "none"
                   /\ pending' = pending \ {s}
                   /\ h' = [h EXCEPT ![s] = "done"]
                   /\ UNCHANGED <<s2c, c2s, sUp, cUp, ack, sStreams, sData, pubRead, pubWritten, clientVars>>
-------------------------------------------------------------------------------
(* forward_session_conn *)

\* The public socket has data: the task now awaits frame_tx.send.
ReadPublic(s) == /\ h[s] = "forward" /\ pubRead[s] < Chunks
                 /\ pubRead' = [pubRead EXCEPT ![s] = @ + 1]
                 /\ h' = [h EXCEPT ![s] = "sending"]
                 /\ UNCHANGED <<s2c, c2s, sUp, cUp, pending, ack, sStreams, sData, pubWritten, clientVars>>

SendPublicData(s) == /\ h[s] = "sending"
                     /\ SendToClient(Frame("Data", s, pubRead[s]))
                     /\ h' = [h EXCEPT ![s] = IF sUp THEN "forward" ELSE "closing"]
                     /\ UNCHANGED <<c2s, sUp, cUp, pending, ack, sStreams, sData, pubRead, pubWritten, clientVars>>

\* The public end closes, or a read or a write on its socket fails.
PublicEnds(s) == /\ h[s] \in {"forward", "writing"}
                 /\ h' = [h EXCEPT ![s] = "closing"]
                 /\ UNCHANGED <<s2c, c2s, sUp, cUp, pending, ack, sStreams, sData, pubRead, pubWritten, clientVars>>

\* data_rx.recv() yields a chunk; the task now awaits write_all on the public
\* socket and does nothing else.
WritePublic(s) == /\ h[s] = "forward" /\ sData[s] # <<>>
                  /\ pubWritten' = [pubWritten EXCEPT ![s] = Append(@, Head(sData[s]))]
                  /\ sData' = [sData EXCEPT ![s] = Tail(@)]
                  /\ h' = [h EXCEPT ![s] = "writing"]
                  /\ UNCHANGED <<s2c, c2s, sUp, cUp, pending, ack, sStreams, pubRead, clientVars>>

\* The public peer has read enough for write_all to return.  It need not.
PublicDrains(s) == /\ h[s] = "writing"
                   /\ h' = [h EXCEPT ![s] = "forward"]
                   /\ UNCHANGED <<s2c, c2s, sUp, cUp, pending, ack, sStreams, sData, pubRead, pubWritten, clientVars>>

\* data_rx.recv() yields None: the sender is gone and the channel is drained.
DataSenderGone(s) == /\ h[s] = "forward" /\ s \notin sStreams /\ sData[s] = <<>>
                     /\ h' = [h EXCEPT ![s] = "closing"]
                     /\ UNCHANGED <<s2c, c2s, sUp, cUp, pending, ack, sStreams, sData, pubRead, pubWritten, clientVars>>

\* The client is not told.
Bug_CloseSilently(s) == /\ h[s] = "closing"
                        /\ sStreams' = sStreams \ {s}
                        /\ sData' = [sData EXCEPT ![s] = <<>>]
                        /\ h' = [h EXCEPT ![s] = "done"]
                        /\ UNCHANGED <<s2c, c2s, sUp, cUp, pending, ack, pubRead, pubWritten, clientVars>>

\* The final STREAM_CLOSE; data_rx is dropped and the stream leaves the table.
CloseForward(s) == /\ h[s] = "closing"
                   /\ SendToClient(Frame("Close", s, 0))
                   /\ sStreams' = sStreams \ {s}
                   /\ sData' = [sData EXCEPT ![s] = <<>>]
                   /\ h' = [h EXCEPT ![s] = "closing2"]
                   /\ UNCHANGED <<c2s, sUp, cUp, pending, ack, pubRead, pubWritten, clientVars>>

\* handle_public_conn sends its own STREAM_CLOSE and returns.
CloseHandler(s) == /\ h[s] = "closing2"
                   /\ SendToClient(Frame("Close", s, 0))
                   /\ h' = [h EXCEPT ![s] = "done"]
                   /\ UNCHANGED <<c2s, sUp, cUp, pending, ack, sStreams, sData, pubRead, pubWritten, clientVars>>
-------------------------------------------------------------------------------
(* dispatch_frame on the server *)

ServerGets(type) == sUp /\ c2s # <<>> /\ Head(c2s).type = type /\ c2s' = Tail(c2s)

\* STREAM_OPEN_ACK: the pending entry is taken and its oneshot fired.  The
\* handler wakes up later, on any thread.
DispatchOpenAck ==
    /\ \E t \in {"ok", "nack"} :
         /\ ServerGets(t)
         /\ LET s == Head(c2s).sid IN
            /\ pending' = pending \ {s}
            /\ ack' = IF s \in pending THEN [ack EXCEPT ![s] = t] ELSE ack
    /\ UNCHANGED <<s2c, sUp, cUp, h, sStreams, sData, pubRead, pubWritten, clientVars>>

\* data_rx lives until forward_session_conn returns.
SRxAlive(s) == h[s] \in {"forward", "sending", "writing", "closing"}

\* A chunk for a stream that is not in the table lands in another one's channel.
Bug_DispatchDataAnyStream ==
    /\ ServerGets("Data")
    /\ \E s \in IF Head(c2s).sid \in sStreams THEN {Head(c2s).sid} ELSE sStreams :
          /\ SRxAlive(s) /\ Len(sData[s]) < DataCap
          /\ sData' = [sData EXCEPT ![s] = Append(@, Head(c2s))]
    /\ UNCHANGED <<s2c, sUp, cUp, h, pending, ack, sStreams, pubRead, pubWritten, clientVars>>

\* STREAM_DATA: into the stream's channel, waiting for room; lost when the
\* forward task has returned; answered STREAM_CLOSE when the table has no such
\* stream.
DispatchData ==
    /\ ServerGets("Data")
    /\ LET fr == Head(c2s) IN
       IF fr.sid \in sStreams
         THEN /\ IF SRxAlive(fr.sid)
                   THEN /\ Len(sData[fr.sid]) < DataCap
                        /\ sData' = [sData EXCEPT ![fr.sid] = Append(@, fr)]
                   ELSE UNCHANGED sData
              /\ UNCHANGED s2c
         ELSE /\ SendToClient(Frame("Close", fr.sid, 0))
              /\ UNCHANGED sData
    /\ UNCHANGED <<sUp, cUp, h, pending, ack, sStreams, pubRead, pubWritten, clientVars>>

\* STREAM_CLOSE: removing the stream drops its data_tx.
DispatchClose ==
    /\ ServerGets("Close")
    /\ sStreams' = sStreams \ {Head(c2s).sid}
    /\ UNCHANGED <<s2c, sUp, cUp, h, pending, ack, sData, pubRead, pubWritten, clientVars>>
-------------------------------------------------------------------------------
(* The client's frame loop *)

ClientGets(type) == cUp /\ s2c # <<>> /\ Head(s2c).type = type /\ s2c' = Tail(s2c)

\* STREAM_OPEN: the target is dialled; the ack is sent before the stream enters
\* the table, but this loop is the table's only reader.
ClientOpen ==
    /\ ClientGets("Open")
    /\ LET s == Head(s2c).sid IN
       \/ /\ SendToServer(Frame("ok", s, 0))
          /\ cStreams' = cStreams \cup {s}
          /\ f' = [f EXCEPT ![s] = "forward"]
       \/ /\ SendToServer(Frame("nack", s, 0))
          /\ UNCHANGED <<cStreams, f>>
    /\ UNCHANGED <<sUp, cUp, cData, locRead, locWritten, serverVars>>

CRxAlive(s) == f[s] \in {"forward", "sending", "writing", "closing"}

\* A chunk for a full channel is dropped instead of awaited.
Bug_ClientDataDrops ==
    /\ ClientGets("Data")
    /\ LET fr == Head(s2c) IN
       cData' = IF fr.sid \in cStreams /\ CRxAlive(fr.sid) /\ Len(cData[fr.sid]) < DataCap
                  THEN [cData EXCEPT ![fr.sid] = Append(@, fr)] ELSE cData
    /\ UNCHANGED <<c2s, sUp, cUp, f, cStreams, locRead, locWritten, serverVars>>

\* The channel of a stream has no bound.
Bug_ClientDataUnbounded ==
    /\ ClientGets("Data")
    /\ LET fr == Head(s2c) IN
       cData' = IF fr.sid \in cStreams /\ CRxAlive(fr.sid)
                  THEN [cData EXCEPT ![fr.sid] = Append(@, fr)] ELSE cData
    /\ UNCHANGED <<c2s, sUp, cUp, f, cStreams, locRead, locWritten, serverVars>>

\* STREAM_DATA for a stream that is not there is dropped.
ClientData ==
    /\ ClientGets("Data")
    /\ LET fr == Head(s2c) IN
       IF fr.sid \in cStreams /\ CRxAlive(fr.sid)
         THEN /\ Len(cData[fr.sid]) < DataCap
              /\ cData' = [cData EXCEPT ![fr.sid] = Append(@, fr)]
         ELSE UNCHANGED cData
    /\ UNCHANGED <<c2s, sUp, cUp, f, cStreams, locRead, locWritten, serverVars>>

ClientClose ==
    /\ ClientGets("Close")
    /\ cStreams' = cStreams \ {Head(s2c).sid}
    /\ UNCHANGED <<c2s, sUp, cUp, f, cData, locRead, locWritten, serverVars>>
-------------------------------------------------------------------------------
(* forward_local *)

ReadLocal(s) == /\ f[s] = "forward" /\ locRead[s] < Chunks
                /\ locRead' = [locRead EXCEPT ![s] = @ + 1]
                /\ f' = [f EXCEPT ![s] = "sending"]
                /\ UNCHANGED <<s2c, c2s, sUp, cUp, cStreams, cData, locWritten, serverVars>>

SendLocalData(s) == /\ f[s] = "sending"
                    /\ SendToServer(Frame("Data", s, locRead[s]))
                    /\ f' = [f EXCEPT ![s] = IF cUp THEN "forward" ELSE "closing"]
                    /\ UNCHANGED <<s2c, sUp, cUp, cStreams, cData, locRead, locWritten, serverVars>>

\* The local target closes, or a read or a write on its socket fails.
LocalEnds(s) == /\ f[s] \in {"forward", "writing"}
                /\ f' = [f EXCEPT ![s] = "closing"]
                /\ UNCHANGED <<s2c, c2s, sUp, cUp, cStreams, cData, locRead, locWritten, serverVars>>

\* rx.recv() yields a chunk; the task now awaits write_all on the local socket.
WriteLocal(s) == /\ f[s] = "forward" /\ cData[s] # <<>>
                 /\ locWritten' = [locWritten EXCEPT ![s] = Append(@, Head(cData[s]))]
                 /\ cData' = [cData EXCEPT ![s] = Tail(@)]
                 /\ f' = [f EXCEPT ![s] = "writing"]
                 /\ UNCHANGED <<s2c, c2s, sUp, cUp, cStreams, locRead, serverVars>>

\* The local target has read enough for write_all to return.  It need not.
LocalDrains(s) == /\ f[s] = "writing"
                  /\ f' = [f EXCEPT ![s] = "forward"]
                  /\ UNCHANGED <<s2c, c2s, sUp, cUp, cStreams, cData, locRead, locWritten, serverVars>>

LocalSenderGone(s) == /\ f[s] = "forward" /\ s \notin cStreams /\ cData[s] = <<>>
                      /\ f' = [f EXCEPT ![s] = "closing"]
                      /\ UNCHANGED <<s2c, c2s, sUp, cUp, cStreams, cData, locRead, locWritten, serverVars>>

\* The final STREAM_CLOSE; the stream leaves the client's table.
CloseLocal(s) == /\ f[s] = "closing"
                 /\ SendToServer(Frame("Close", s, 0))
                 /\ cStreams' = cStreams \ {s}
                 /\ cData' = [cData EXCEPT ![s] = <<>>]
                 /\ f' = [f EXCEPT ![s] = "done"]
                 /\ UNCHANGED <<s2c, sUp, cUp, locRead, locWritten, serverVars>>
-------------------------------------------------------------------------------
(* The end of the tunnel *)

\* run_tunnel aborts its tasks: the reader is gone and frame_rx is dropped; the
\* stream table keeps its senders.
ServerTunnelEnds == /\ TunnelMayEnd /\ sUp
                    /\ sUp' = FALSE
                    /\ c2s' = <<>>
                    /\ UNCHANGED <<s2c, cUp, serverVars, clientVars>>

\* The cleanup of run_once forgets streams.clear().
Bug_ClientKeepsStreams == /\ TunnelMayEnd /\ cUp
                          /\ cUp' = FALSE
                          /\ s2c' = <<>>
                          /\ UNCHANGED <<c2s, sUp, serverVars, clientVars>>

\* The cleanup of run_once: writer and heartbeat end, streams.clear().
ClientTunnelEnds == /\ TunnelMayEnd /\ cUp
                    /\ cUp' = FALSE
                    /\ s2c' = <<>>
                    /\ cStreams' = {}
                    /\ UNCHANGED <<c2s, sUp, f, cData, locRead, locWritten, serverVars>>
-------------------------------------------------------------------------------
ServerReader == DispatchOpenAck \/ DispatchData \/ DispatchClose
ClientReader == ClientOpen \/ ClientData \/ ClientClose

Handler(s) == \/ SendOpen(s) \/ OpenAcked(s) \/ OpenTimesOut(s) \/ SendPublicData(s)
              \/ WritePublic(s) \/ DataSenderGone(s) \/ CloseForward(s) \/ CloseHandler(s)
Forwarder(s) == \/ SendLocalData(s) \/ WriteLocal(s) \/ LocalSenderGone(s) \/ CloseLocal(s)

\* What the users at the two ends do.
Users(s) == \/ AcceptPublic(s) \/ ReadPublic(s) \/ PublicDrains(s) \/ PublicEnds(s)
            \/ ReadLocal(s) \/ LocalDrains(s) \/ LocalEnds(s)

Next == \/ ServerReader \/ ClientReader \/ ServerTunnelEnds \/ ClientTunnelEnds
        \/ \E s \in Sids : Handler(s) \/ Forwarder(s) \/ Users(s)

Spec == Init /\ [][Next]_vars

\* A reader holds a frame it cannot deliver until the other direction moves: a
\* chunk for a forward task that itself waits for room in the tunnel, or a frame
\* that must be answered.
ServerStuck ==
    /\ c2s # <<>> /\ Len(s2c) = WireCap /\ Head(c2s).type = "Data"
    /\ Head(c2s).sid \in sStreams =>
          Len(sData[Head(c2s).sid]) = DataCap /\ h[Head(c2s).sid] \in {"sending", "closing"}

ClientStuck ==
    /\ s2c # <<>> /\ Len(c2s) = WireCap
    /\ \/ Head(s2c).type = "Open"
       \/ /\ Head(s2c).type = "Data" /\ Len(cData[Head(s2c).sid]) = DataCap
          /\ f[Head(s2c).sid] \in {"sending", "closing"}

\* Every task that could free a channel waits for another full channel.
Gridlocked == sUp /\ cUp /\ ServerStuck /\ ClientStuck

\* The server's reader holds a chunk for a channel without room, or an answer
\* for a full tunnel.
ServerWaits ==
    /\ c2s # <<>> /\ Head(c2s).type = "Data"
    /\ IF Head(c2s).sid \in sStreams THEN Len(sData[Head(c2s).sid]) = DataCap ELSE Len(s2c) = WireCap

\* The tasks run when they can, but nothing makes a peer or a target read: no
\* fairness for the Users.  A server whose reader waits for ever sees no frames,
\* and its idle monitor ends the tunnel; it also sees the end of the client.  The
\* client's loop meets the end of the stream behind the frames, if it gets there.
FairSpec == /\ Spec
            /\ WF_vars(ServerReader) /\ WF_vars(ClientReader)
            /\ \A s \in Sids : WF_vars(Handler(s)) /\ WF_vars(Forwarder(s))
            /\ WF_vars((~cUp \/ ServerWaits) /\ ServerTunnelEnds)
            /\ WF_vars(~sUp /\ s2c = <<>> /\ ClientTunnelEnds)
-------------------------------------------------------------------------------
(* Properties *)

HandlerStates == {"new", "opening", "waiting", "forward", "sending", "writing",
                  "closing", "closing2", "done"}
ForwarderStates == {"none", "forward", "sending", "writing", "closing", "done"}

FrameSet == [type : {"Open", "ok", "nack", "Data", "Close"}, sid : Sids, n : 0..Chunks]

\* Every variable keeps its type, and no queue outgrows its channel.
TypeOK ==
    /\ s2c \in Seq(FrameSet) /\ Len(s2c) <= WireCap
    /\ c2s \in Seq(FrameSet) /\ Len(c2s) <= WireCap
    /\ sUp \in BOOLEAN /\ cUp \in BOOLEAN
    /\ h \in [Sids -> HandlerStates] /\ f \in [Sids -> ForwarderStates]
    /\ ack \in [Sids -> {"none", "ok", "nack"}]
    /\ pending \subseteq Sids /\ sStreams \subseteq Sids /\ cStreams \subseteq Sids
    /\ sData \in [Sids -> Seq(FrameSet)] /\ cData \in [Sids -> Seq(FrameSet)]
    /\ \A s \in Sids : Len(sData[s]) <= DataCap /\ Len(cData[s]) <= DataCap
    /\ pubWritten \in [Sids -> Seq(FrameSet)] /\ locWritten \in [Sids -> Seq(FrameSet)]
    /\ pubRead \in [Sids -> 0..Chunks] /\ locRead \in [Sids -> 0..Chunks]

\* What a side receives on stream s: the beginning of what was sent on it, chunk
\* for chunk; or chunks of it in order.
IsPrefix(s, written, read) ==
    /\ Len(written) <= read
    /\ \A i \in 1..Len(written) : written[i].sid = s /\ written[i].n = i
IsInOrder(s, written) ==
    /\ \A i \in 1..Len(written) : written[i].sid = s
    /\ \A i, j \in 1..Len(written) : i < j => written[i].n < written[j].n

\* public -> local: what the local target receives on a stream is the beginning
\* of what the public peer sent on it: nothing lost in the middle, repeated,
\* reordered or from another stream, however the stream or the tunnel ends.
\* local -> public: the same, but chunks may be missing (see UploadIsPrefix).
StreamsInOrder ==
    \A s \in Sids : IsPrefix(s, locWritten[s], pubRead[s]) /\ IsInOrder(s, pubWritten[s])

\* A handler that has returned leaves no entry in pending_opens and none in
\* session.streams, whatever frames were in flight when it returned.
ReturnedHandlerLeavesNothing ==
    \A s \in Sids : h[s] = "done" => s \notin pending /\ s \notin sStreams

\* A public connection that ends takes the client's local connection with it, if
\* no local target stops reading for ever: the frame loop waits for room in the
\* channel of any stream, and the STREAM_CLOSE is behind it.
PublicEndReachesClient ==
    (\A t \in Sids : []<>(f[t] # "writing")) =>
        \A s \in Sids : h[s] = "closing" ~> f[s] \in {"none", "done"}

\* When the client's side of the tunnel ends, so does every local connection
\* whose target does not stop reading for ever.
ClientForwardsEnd ==
    \A s \in Sids : []<>(f[s] # "writing") => (~cUp ~> f[s] \in {"none", "done"})

\* No public connection waits for ever to be opened: STREAM_OPEN_TIMEOUT_SECS
\* bounds the wait, also when the tunnel ends meanwhile.
OpenDecided == \A s \in Sids : h[s] = "waiting" ~> h[s] \in {"forward", "done"}
-------------------------------------------------------------------------------
(* What the repository says of the program and the code does not do *)

\* tunnel.rs: STREAM_DATA is delivered to its stream.  Refuted: data that
\* follows the ack closely is dispatched before the handler has entered the
\* stream in the table; it is dropped and later data may still be delivered.
UploadIsPrefix ==
    \A s \in Sids : IsPrefix(s, pubWritten[s], locRead[s])

\* tunnel.rs: STREAM_CLOSE makes the forward task exit.  Refuted in the same
\* window: the close finds no entry, the entry is made afterwards.
CloseEndsHandler == \A s \in Sids : f[s] = "done" ~> h[s] \in {"new", "done"}

\* listener.rs: the handler's timeout gives the stream up.  Refuted: the client
\* is not told, and keeps its local connection until the target speaks.
TimeoutReachesClient ==
    \A s \in Sids : h[s] = "done" ~> f[s] \in {"none", "done"}

\* The two readers and the forward tasks never wait on each other in a circle.
NeverGridlocked == ~Gridlocked
===============================================================================
