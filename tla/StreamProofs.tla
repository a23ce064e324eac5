------------------------------ MODULE StreamProofs ------------------------------
(***************************************************************************)
(* Theorems about the streams of a tunnel (protocol/multiplex.rs): the     *)
(* allocator hands out fresh ids of its side's series, for any number of   *)
(* callers and any MAX_STREAMS; and the streams that are multiplexed under *)
(* these ids keep their bytes apart and in order, for any number of        *)
(* streams, any queue sizes and however the tunnel ends.                   *)
(***************************************************************************)
EXTENDS StreamIds, StreamMux, SequenceTheorems, TLAPS

-------------------------------------------------------------------------------
\* The allocator.

\* The counter stays in its parity, and only a value that passed the exhaustion
\* check is ever offered to compare_exchange.
CounterSound == /\ next >= First
                /\ next % 2 = First % 2
                /\ \A t \in Callers : pc[t] = "loaded" => cur[t] <= MaxStreams

AllocInv == AllocTypeOK /\ CounterSound /\ IdsDense

\* The next value of the counter is in the same parity, and no id of the series
\* lies between the two.
LEMMA NextOfSeries ==
    ASSUME NEW n \in Nat, n % 2 = First % 2, n >= First, n <= MaxStreams
    PROVE  /\ (n + 2) % 2 = First % 2
           /\ {i \in Series : i < n + 2} = {i \in Series : i < n} \cup {n}
<1>1. (n + 2) % 2 = First % 2
      OBVIOUS
<1>2. \A i \in Series : i < n + 2 <=> i < n \/ i = n
      BY AllocatorAssumption DEF Series
<1>3. n \in Series
      BY AllocatorAssumption DEF Series
<1>. QED BY <1>1, <1>2, <1>3

\* No step of a caller, and no closing of a stream, leaves the inductive
\* invariant.
LEMMA StepKeepsAllocInv == AllocInv /\ [AllocNext]_allocVars => AllocInv'
<1> SUFFICES ASSUME AllocInv, [AllocNext]_allocVars PROVE AllocInv'
    OBVIOUS
<1> USE AllocatorAssumption DEF AllocInv
<1>1. ASSUME NEW t \in Callers, Call(t) PROVE AllocInv'
      BY <1>1 DEF Call, AllocTypeOK, CounterSound, IdsDense
<1>2. ASSUME NEW t \in Callers, Load(t) PROVE AllocInv'
      BY <1>2 DEF Load, AllocTypeOK, CounterSound, IdsDense
<1>3. ASSUME NEW t \in Callers, CompareExchange(t) PROVE AllocInv'
  <2>1. CASE next # cur[t]
        BY <1>3, <2>1 DEF CompareExchange, AllocTypeOK, CounterSound, IdsDense
  <2>2. CASE next = cur[t]
    <3>1. next \in Nat /\ next <= MaxStreams /\ next' = next + 2 /\ issued' = issued \cup {next}
          BY <1>3, <2>2 DEF CompareExchange, AllocTypeOK, CounterSound
    <3>2. /\ next' % 2 = First % 2
          /\ {i \in Series : i < next'} = {i \in Series : i < next} \cup {next}
          BY <3>1, NextOfSeries DEF CounterSound
    <3>3. IdsDense'
          BY <3>1, <3>2 DEF IdsDense, Series
    <3>4. AllocTypeOK'
      <4>1. issued' \subseteq Nat /\ live' \subseteq issued'
            BY <1>3, <2>2, <3>1 DEF CompareExchange, AllocTypeOK
      <4>2. pc' \in [Callers -> {"idle", "loop", "loaded", "failed"}] /\ cur' = cur
            BY <1>3, <2>2 DEF CompareExchange, AllocTypeOK
      <4>3. returned' \in Nat
            BY <1>3, <2>2 DEF CompareExchange, AllocTypeOK
      <4>. QED BY <3>1, <4>1, <4>2, <4>3 DEF AllocTypeOK
    <3>5. CounterSound'
          BY <1>3, <2>2, <3>1, <3>2 DEF CompareExchange, AllocTypeOK, CounterSound
    <3>. QED BY <3>3, <3>4, <3>5
  <2>. QED BY <2>1, <2>2
<1>4. ASSUME NEW id \in live, CloseStream(id) PROVE AllocInv'
      BY <1>4 DEF CloseStream, AllocTypeOK, CounterSound, IdsDense
<1>5. CASE UNCHANGED allocVars
      BY <1>5 DEF allocVars, AllocTypeOK, CounterSound, IdsDense
<1>. QED BY <1>1, <1>2, <1>3, <1>4, <1>5 DEF AllocNext, Step

\* Every reachable state satisfies the inductive invariant.
THEOREM AllocInvariance == AllocSpec => []AllocInv
<1>1. AllocInit => AllocInv
      BY AllocatorAssumption DEF AllocInit, AllocInv, AllocTypeOK, CounterSound, IdsDense, Series
<1>. QED BY <1>1, StepKeepsAllocInv, PTL DEF AllocSpec

\* Every variable keeps its type: the ids are numbers, and a stream that is open
\* has an id that was handed out.
THEOREM AllocTypes == AllocSpec => []AllocTypeOK
<1>1. AllocInv => AllocTypeOK
      BY DEF AllocInv
<1>. QED BY <1>1, AllocInvariance, PTL

\* next() has returned exactly the ids of its series below the counter: its
\* own parity, at most MAX_STREAMS, none skipped.
THEOREM DenseIds == AllocSpec => []IdsDense
<1>1. AllocInv => IdsDense
      BY DEF AllocInv
<1>. QED BY <1>1, AllocInvariance, PTL

\* next() never returns one id twice: it implements the source of fresh ids.
THEOREM FreshIds == AllocSpec => ImplementsPool
<1>1. AllocInit => Pool!Init
      BY DEF AllocInit, Pool!Init
<1>2. AllocInv /\ [AllocNext]_allocVars => [Pool!Next]_<<issued, returned>>
  <2> SUFFICES ASSUME AllocInv, [AllocNext]_allocVars PROVE Pool!Next \/ UNCHANGED <<issued, returned>>
      OBVIOUS
  <2>1. ASSUME NEW t \in Callers, CompareExchange(t), next = cur[t]
        PROVE  Pool!Next
    <3>1. /\ next \in Nat /\ next <= MaxStreams /\ issued' = issued \cup {next}
          /\ returned' = returned + 1
          BY <2>1 DEF CompareExchange, AllocInv, AllocTypeOK, CounterSound
    <3>2. next \in Series
          BY <3>1, AllocatorAssumption DEF AllocInv, CounterSound, Series
    <3>3. next \notin issued
          BY <3>1 DEF AllocInv, IdsDense
    <3>. QED BY <3>1, <3>2, <3>3 DEF Pool!Next, Pool!Take
  <2>2. ASSUME NEW t \in Callers, CompareExchange(t), next # cur[t]
        PROVE  UNCHANGED <<issued, returned>>
        BY <2>2 DEF CompareExchange
  <2>3. ASSUME NEW t \in Callers, Call(t) \/ Load(t) PROVE UNCHANGED <<issued, returned>>
        BY <2>3 DEF Call, Load
  <2>4. ASSUME NEW id \in live, CloseStream(id) PROVE UNCHANGED <<issued, returned>>
        BY <2>4 DEF CloseStream
  <2>. QED BY <2>1, <2>2, <2>3, <2>4 DEF AllocNext, Step, allocVars
<1>. QED BY <1>1, <1>2, AllocInvariance, PTL DEF AllocSpec, Pool!Spec, ImplementsPool
-------------------------------------------------------------------------------
\* The multiplexer.

\* The i-th frame of q is a chunk of stream s.
Chunk(q, s, i) == q[i].type = "Data" /\ q[i].sid = s

\* How many chunks have been handed to the tunnel: the one read last may still
\* wait for room.
PublicSent(s) == IF h[s] = "sending" THEN pubRead[s] - 1 ELSE pubRead[s]
LocalSent(s) == IF f[s] = "sending" THEN locRead[s] - 1 ELSE locRead[s]

\* How many chunks of stream s have reached the client's side of it.
Delivered(s) == Len(locWritten[s]) + Len(cData[s])

\* What a chunk carries was read before.
ChunksNumbered ==
    /\ \A i \in 1..Len(s2c) : s2c[i].type = "Data" => s2c[i].n >= 1
    /\ \A i \in 1..Len(c2s) : c2s[i].type = "Data" => c2s[i].n >= 1
    /\ \A s \in Sids : PublicSent(s) >= 0 /\ LocalSent(s) >= 0

\* An entry belongs to a handler that has yet to remove it.
TablesHeld == \A s \in Sids : /\ s \in pending => h[s] \in {"opening", "waiting"}
                              /\ s \in sStreams => SRxAlive(s)
                              /\ s \in cStreams => CRxAlive(s) /\ cUp

\* A stream is opened once: the client dials for the one STREAM_OPEN there is,
\* and the handler forwards only after the client has.
OpenedOnce ==
    /\ \A i \in 1..Len(s2c) : s2c[i].type = "Open" =>
          /\ h[s2c[i].sid] \notin {"new", "opening"}
          /\ f[s2c[i].sid] = "none"
          /\ \A j \in 1..Len(s2c) : s2c[j].type = "Open" /\ s2c[j].sid = s2c[i].sid => j = i
    /\ \A i \in 1..Len(c2s) : c2s[i].type = "ok" => f[c2s[i].sid] # "none"
    /\ \A s \in Sids : f[s] = "none" =>
          /\ h[s] \in {"new", "opening", "waiting", "done"} /\ ack[s] # "ok"
          /\ pubRead[s] = 0 /\ cData[s] = <<>> /\ locWritten[s] = <<>>
    /\ \A s \in Sids : h[s] \in {"new", "opening"} => f[s] = "none"
    /\ \A s \in Sids : h[s] \in {"new", "opening", "waiting"} => pubRead[s] = 0

\* The chunks of stream s in q: all behind the m-th, up to the m-th, in their
\* order.
After(q, s, m) == \A i \in 1..Len(q) : Chunk(q, s, i) => m < q[i].n
UpTo(q, s, m) == \A i \in 1..Len(q) : Chunk(q, s, i) => q[i].n <= m
Rising(q, s) == \A i, j \in 1..Len(q) :
                    Chunk(q, s, i) /\ Chunk(q, s, j) /\ i < j => q[i].n < q[j].n
Reaches(q, s, m) == \E i \in 1..Len(q) : Chunk(q, s, i) /\ q[i].n = m

\* They are m+1, m+2, ... in this order.
Run(q, s, m) == /\ After(q, s, m) /\ Rising(q, s)
                /\ \A i \in 1..Len(q) : Chunk(q, s, i) /\ q[i].n > m + 1 => Reaches(q, s, q[i].n - 1)

\* Every chunk of a stream is where it belongs.
OwnChunks(s) ==
    /\ \A i \in 1..Len(sData[s]) : sData[s][i].sid = s
    /\ \A i \in 1..Len(cData[s]) : cData[s][i].sid = s
    /\ \A i \in 1..Len(pubWritten[s]) : pubWritten[s][i].sid = s
    /\ \A i \in 1..Len(locWritten[s]) : locWritten[s][i].sid = s

\* The chunks of q have rising numbers.
Climbs(q) == \A i, j \in 1..Len(q) : i < j => q[i].n < q[j].n

\* public -> local: what has reached the client is the beginning of what was
\* sent, and what is on its way to a stream in its table goes on from there.
DownloadSound(s) ==
    /\ \A i \in 1..Len(locWritten[s]) : locWritten[s][i].n = i
    /\ \A i \in 1..Len(cData[s]) : cData[s][i].n = Len(locWritten[s]) + i
    /\ Delivered(s) <= PublicSent(s)
    /\ UpTo(s2c, s, PublicSent(s))
    /\ s \in cStreams => Run(s2c, s, Delivered(s))
    /\ s \in cStreams /\ sUp /\ h[s] \in {"forward", "sending", "writing"} =>
          PublicSent(s) = Delivered(s) \/ Reaches(s2c, s, PublicSent(s))

\* local -> public: what was written comes before what is in the stream's
\* channel, and that before what is on its way.
UploadSound(s) ==
    /\ Climbs(pubWritten[s]) /\ Climbs(sData[s])
    /\ \A i \in 1..Len(pubWritten[s]) :
          /\ pubWritten[s][i].n <= LocalSent(s) /\ After(c2s, s, pubWritten[s][i].n)
          /\ \A j \in 1..Len(sData[s]) : pubWritten[s][i].n < sData[s][j].n
    /\ \A j \in 1..Len(sData[s]) :
          sData[s][j].n <= LocalSent(s) /\ After(c2s, s, sData[s][j].n)
    /\ Rising(c2s, s) /\ UpTo(c2s, s, LocalSent(s))

IInv == /\ TypeOK /\ ChunksNumbered /\ TablesHeld /\ OpenedOnce
        /\ \A s \in Sids : OwnChunks(s) /\ DownloadSound(s) /\ UploadSound(s)
-------------------------------------------------------------------------------
\* A frame sent goes behind those on their way, which keep their places.
LEMMA Sent ==
    ASSUME NEW q \in Seq(FrameSet), NEW e \in FrameSet
    PROVE  /\ Append(q, e) \in Seq(FrameSet)
           /\ Len(Append(q, e)) = Len(q) + 1
           /\ \A i \in 1..Len(q) : Append(q, e)[i] = q[i]
           /\ Append(q, e)[Len(q) + 1] = e
BY AppendProperties

\* A frame received was the first; the others move up one place.
LEMMA Received ==
    ASSUME NEW q \in Seq(FrameSet), q # <<>>
    PROVE  /\ Tail(q) \in Seq(FrameSet)
           /\ Len(q) \in Nat \ {0}
           /\ Len(Tail(q)) = Len(q) - 1
           /\ Head(q) = q[1] /\ q[1] \in FrameSet
           /\ \A i \in 1..Len(q) - 1 : Tail(q)[i] = q[i + 1]
BY HeadTailProperties, EmptySeq

\* The frames the tasks build.
LEMMA Frames ==
    ASSUME NEW type \in {"Open", "ok", "nack", "Data", "Close"}, NEW s \in Sids, NEW n \in 0..Chunks
    PROVE  /\ Frame(type, s, n) \in FrameSet
           /\ Frame(type, s, n).type = type /\ Frame(type, s, n).sid = s /\ Frame(type, s, n).n = n
BY DEF Frame, FrameSet

\* The server's send leaves a frame channel behind, one frame longer or as it was.
LEMMA ServerSends ==
    ASSUME TypeOK, NEW e \in FrameSet, SendToClient(e)
    PROVE  /\ s2c' \in Seq(FrameSet) /\ Len(s2c') <= WireCap
           /\ s2c' = s2c \/ (sUp /\ s2c' = Append(s2c, e))
<1>. USE MuxAssumption DEF TypeOK
<1>1. CASE sUp
  <2>1. s2c' = Append(s2c, e) /\ Len(s2c) < WireCap /\ Len(s2c) \in Nat
        BY <1>1, LenProperties DEF SendToClient
  <2>. QED BY <1>1, <2>1, Sent
<1>2. CASE ~sUp
      BY <1>2 DEF SendToClient
<1>. QED BY <1>1, <1>2

\* The client's send, likewise.
LEMMA ClientSends ==
    ASSUME TypeOK, NEW e \in FrameSet, SendToServer(e)
    PROVE  /\ c2s' \in Seq(FrameSet) /\ Len(c2s') <= WireCap
           /\ c2s' = c2s \/ (sUp /\ cUp /\ c2s' = Append(c2s, e))
<1>. USE MuxAssumption DEF TypeOK
<1>1. CASE cUp /\ sUp
  <2>1. c2s' = Append(c2s, e) /\ Len(c2s) < WireCap /\ Len(c2s) \in Nat
        BY <1>1, LenProperties DEF SendToServer
  <2>. QED BY <1>1, <2>1, Sent
<1>2. CASE ~(cUp /\ sUp)
      BY <1>2 DEF SendToServer
<1>. QED BY <1>1, <1>2

\* The server's reader takes a frame.
LEMMA ServerReceives ==
    ASSUME TypeOK, NEW type, ServerGets(type)
    PROVE  /\ sUp /\ c2s # <<>> /\ Len(c2s) \in Nat \ {0} /\ c2s[1] \in FrameSet
           /\ Head(c2s) = c2s[1] /\ c2s[1].type = type
           /\ c2s' = Tail(c2s) /\ c2s' \in Seq(FrameSet) /\ Len(c2s') = Len(c2s) - 1
           /\ Len(c2s') <= WireCap
           /\ \A i \in 1..Len(c2s') : c2s'[i] = c2s[i + 1]
BY MuxAssumption, Received DEF TypeOK, ServerGets

\* The client's frame loop takes a frame.
LEMMA ClientReceives ==
    ASSUME TypeOK, NEW type, ClientGets(type)
    PROVE  /\ cUp /\ s2c # <<>> /\ Len(s2c) \in Nat \ {0} /\ s2c[1] \in FrameSet
           /\ Head(s2c) = s2c[1] /\ s2c[1].type = type
           /\ s2c' = Tail(s2c) /\ s2c' \in Seq(FrameSet) /\ Len(s2c') = Len(s2c) - 1
           /\ Len(s2c') <= WireCap
           /\ \A i \in 1..Len(s2c') : s2c'[i] = s2c[i + 1]
BY MuxAssumption, Received DEF TypeOK, ClientGets
-------------------------------------------------------------------------------
\* No step takes a variable out of its type or a channel over its bound.
LEMMA StepKeepsTypes == TypeOK /\ [Next]_vars => TypeOK'
<1> SUFFICES ASSUME TypeOK, [Next]_vars PROVE TypeOK'
    OBVIOUS
<1> DEFINE Chan == /\ s2c' \in Seq(FrameSet) /\ Len(s2c') <= WireCap
                   /\ c2s' \in Seq(FrameSet) /\ Len(c2s') <= WireCap
           Rest == /\ sUp' \in BOOLEAN /\ cUp' \in BOOLEAN
                   /\ h' \in [Sids -> HandlerStates]
                   /\ f' \in [Sids -> ForwarderStates]
                   /\ ack' \in [Sids -> {"none", "ok", "nack"}]
                   /\ pending' \subseteq Sids /\ sStreams' \subseteq Sids /\ cStreams' \subseteq Sids
                   /\ pubRead' \in [Sids -> 0..Chunks] /\ locRead' \in [Sids -> 0..Chunks]
           Queues == /\ sData' \in [Sids -> Seq(FrameSet)] /\ cData' \in [Sids -> Seq(FrameSet)]
                     /\ \A s \in Sids : Len(sData'[s]) <= DataCap /\ Len(cData'[s]) <= DataCap
                     /\ pubWritten' \in [Sids -> Seq(FrameSet)]
                     /\ locWritten' \in [Sids -> Seq(FrameSet)]
<1> USE MuxAssumption DEF HandlerStates, ForwarderStates
<1>q. ASSUME Chan, Rest, Queues PROVE TypeOK'
      BY <1>q DEF TypeOK
<1>0. Len(<<>>) = 0 /\ <<>> \in Seq(FrameSet)
      BY EmptySeq
<1>w. Len(s2c) <= WireCap /\ Len(c2s) <= WireCap /\ WireCap \in Nat /\ DataCap \in Nat /\ 0 \in 0..Chunks
      BY DEF TypeOK
<1>l. 0 <= WireCap /\ 0 <= DataCap
      OBVIOUS
<1>1. ASSUME NEW s \in Sids,
             \/ AcceptPublic(s) \/ OpenAcked(s) \/ OpenTimesOut(s) \/ ReadPublic(s)
             \/ PublicDrains(s) \/ PublicEnds(s) \/ DataSenderGone(s)
             \/ ReadLocal(s) \/ LocalDrains(s) \/ LocalEnds(s) \/ LocalSenderGone(s)
      PROVE  TypeOK'
  <2>1. Chan /\ Queues
        BY <1>1 DEF TypeOK, AcceptPublic, OpenAcked, OpenTimesOut, ReadPublic, PublicDrains, PublicEnds,
             DataSenderGone, ReadLocal, LocalDrains, LocalEnds, LocalSenderGone, serverVars, clientVars
  <2>2. CASE AcceptPublic(s) \/ OpenAcked(s) \/ OpenTimesOut(s)
        BY <2>1, <2>2, <1>q DEF TypeOK, AcceptPublic, OpenAcked, OpenTimesOut, clientVars
  <2>3. CASE ReadPublic(s)
    <3>1. pubRead' \in [Sids -> 0..Chunks]
          BY <2>3 DEF TypeOK, ReadPublic
    <3>2. h' \in [Sids -> HandlerStates]
          BY <2>3 DEF TypeOK, ReadPublic
    <3>3. Rest
          BY <2>3, <3>1, <3>2 DEF TypeOK, ReadPublic, clientVars
    <3>. QED BY <2>1, <3>3, <1>q
  <2>4. CASE ReadLocal(s)
    <3>1. locRead' \in [Sids -> 0..Chunks]
          BY <2>4 DEF TypeOK, ReadLocal
    <3>2. f' \in [Sids -> ForwarderStates]
          BY <2>4 DEF TypeOK, ReadLocal
    <3>3. Rest
          BY <2>4, <3>1, <3>2 DEF TypeOK, ReadLocal, serverVars
    <3>. QED BY <2>1, <3>3, <1>q
  <2>5. CASE PublicDrains(s) \/ PublicEnds(s) \/ DataSenderGone(s)
        BY <2>1, <2>5, <1>q DEF TypeOK, PublicDrains, PublicEnds, DataSenderGone, clientVars
  <2>6. CASE LocalDrains(s) \/ LocalEnds(s) \/ LocalSenderGone(s)
        BY <2>1, <2>6, <1>q DEF TypeOK, LocalDrains, LocalEnds, LocalSenderGone, serverVars
  <2>. QED BY <1>1, <2>2, <2>3, <2>4, <2>5, <2>6
<1>2. ASSUME NEW s \in Sids,
             SendOpen(s) \/ SendPublicData(s) \/ CloseForward(s) \/ CloseHandler(s)
      PROVE  TypeOK'
  <2>1. Chan
    <3>1. pubRead[s] \in 0..Chunks
          BY DEF TypeOK
    <3>2. /\ Frame("Open", s, 0) \in FrameSet /\ Frame("Close", s, 0) \in FrameSet
          /\ Frame("Data", s, pubRead[s]) \in FrameSet
          BY <1>w, <3>1, Frames
    <3>3. PICK e \in FrameSet : SendToClient(e)
          BY <1>2, <3>2 DEF SendOpen, SendPublicData, CloseForward, CloseHandler
    <3>4. UNCHANGED c2s
          BY <1>2 DEF SendOpen, SendPublicData, CloseForward, CloseHandler
    <3>. QED BY <1>w, <3>3, <3>4, ServerSends DEF TypeOK
  <2>2. Rest
        BY <1>2 DEF TypeOK, SendOpen, SendPublicData, CloseForward, CloseHandler, clientVars
  <2>3. Queues
    <3>1. CASE sData' = sData
          BY <1>2, <3>1 DEF TypeOK, SendOpen, SendPublicData, CloseForward, CloseHandler, clientVars
    <3>2. CASE CloseForward(s)
      <4>1. sData' = [sData EXCEPT ![s] = <<>>] /\ UNCHANGED <<cData, pubWritten, locWritten>>
            BY <3>2 DEF CloseForward, clientVars
      <4>2. sData' \in [Sids -> Seq(FrameSet)]
            BY <4>1, <1>0 DEF TypeOK
      <4>3. \A t \in Sids : Len(sData'[t]) <= DataCap
            BY <4>1, <1>0, <1>l DEF TypeOK
      <4>. QED BY <4>1, <4>2, <4>3 DEF TypeOK
    <3>. QED BY <1>2, <3>1, <3>2 DEF SendOpen, SendPublicData, CloseHandler
  <2>. QED BY <2>1, <2>2, <2>3, <1>q
<1>3. ASSUME NEW s \in Sids, SendLocalData(s) \/ CloseLocal(s) PROVE TypeOK'
  <2>1. Chan
    <3>1. locRead[s] \in 0..Chunks
          BY DEF TypeOK
    <3>2. Frame("Close", s, 0) \in FrameSet /\ Frame("Data", s, locRead[s]) \in FrameSet
          BY <1>w, <3>1, Frames
    <3>3. PICK e \in FrameSet : SendToServer(e)
          BY <1>3, <3>2 DEF SendLocalData, CloseLocal
    <3>4. UNCHANGED s2c
          BY <1>3 DEF SendLocalData, CloseLocal
    <3>. QED BY <1>w, <3>3, <3>4, ClientSends DEF TypeOK
  <2>2. Rest
        BY <1>3 DEF TypeOK, SendLocalData, CloseLocal, serverVars
  <2>3. Queues
    <3>1. CASE cData' = cData
          BY <1>3, <3>1 DEF TypeOK, SendLocalData, CloseLocal, serverVars
    <3>2. CASE CloseLocal(s)
      <4>1. cData' = [cData EXCEPT ![s] = <<>>] /\ UNCHANGED <<sData, pubWritten, locWritten>>
            BY <3>2 DEF CloseLocal, serverVars
      <4>2. cData' \in [Sids -> Seq(FrameSet)]
            BY <4>1, <1>0 DEF TypeOK
      <4>3. \A t \in Sids : Len(cData'[t]) <= DataCap
            BY <4>1, <1>0, <1>l DEF TypeOK
      <4>. QED BY <4>1, <4>2, <4>3 DEF TypeOK
    <3>. QED BY <1>3, <3>1, <3>2 DEF SendLocalData
  <2>. QED BY <2>1, <2>2, <2>3, <1>q
<1>4. ASSUME NEW s \in Sids, WritePublic(s) PROVE TypeOK'
  <2>1. Chan /\ Rest
        BY <1>4, <1>w DEF TypeOK, WritePublic, clientVars
  <2>2. /\ sData[s] \in Seq(FrameSet) /\ sData[s] # <<>> /\ Len(sData[s]) <= DataCap
        /\ pubWritten[s] \in Seq(FrameSet)
        BY <1>4 DEF TypeOK, WritePublic
  <2>3. /\ Head(sData[s]) \in FrameSet /\ Tail(sData[s]) \in Seq(FrameSet)
        /\ Len(Tail(sData[s])) = Len(sData[s]) - 1
        BY <2>2, HeadTailProperties
  <2>5. Append(pubWritten[s], Head(sData[s])) \in Seq(FrameSet)
        BY <2>2, <2>3, AppendProperties
  <2>6. Len(Tail(sData[s])) <= DataCap
        BY <1>w, <2>2, <2>3, LenProperties
  <2>4. Queues
        BY <1>4, <2>3, <2>5, <2>6 DEF TypeOK, WritePublic, clientVars
  <2>. QED BY <2>1, <2>4, <1>q
<1>5. ASSUME NEW s \in Sids, WriteLocal(s) PROVE TypeOK'
  <2>1. Chan /\ Rest
        BY <1>5, <1>w DEF TypeOK, WriteLocal, serverVars
  <2>2. /\ cData[s] \in Seq(FrameSet) /\ cData[s] # <<>> /\ Len(cData[s]) <= DataCap
        /\ locWritten[s] \in Seq(FrameSet)
        BY <1>5 DEF TypeOK, WriteLocal
  <2>3. /\ Head(cData[s]) \in FrameSet /\ Tail(cData[s]) \in Seq(FrameSet)
        /\ Len(Tail(cData[s])) = Len(cData[s]) - 1
        BY <2>2, HeadTailProperties
  <2>5. Append(locWritten[s], Head(cData[s])) \in Seq(FrameSet)
        BY <2>2, <2>3, AppendProperties
  <2>6. Len(Tail(cData[s])) <= DataCap
        BY <1>w, <2>2, <2>3, LenProperties
  <2>4. Queues
        BY <1>5, <2>3, <2>5, <2>6 DEF TypeOK, WriteLocal, serverVars
  <2>. QED BY <2>1, <2>4, <1>q
<1>6. ASSUME DispatchOpenAck PROVE TypeOK'
  <2>1. PICK t \in {"ok", "nack"} :
          /\ ServerGets(t) /\ pending' \subseteq pending
          /\ ack' = IF Head(c2s).sid \in pending THEN [ack EXCEPT ![Head(c2s).sid] = t] ELSE ack
        BY <1>6 DEF DispatchOpenAck
  <2>2. Chan
        BY <1>6, <1>w, <2>1, ServerReceives DEF DispatchOpenAck, TypeOK
  <2>3. Rest /\ Queues
        BY <1>6, <2>1 DEF DispatchOpenAck, TypeOK, clientVars
  <2>. QED BY <2>2, <2>3, <1>q
<1>7. ASSUME DispatchData PROVE TypeOK'
  <2>0. ServerGets("Data")
        BY <1>7 DEF DispatchData
  <2>1. /\ Head(c2s) = c2s[1] /\ c2s[1] \in FrameSet /\ c2s[1].type = "Data" /\ 1 \in 1..Len(c2s)
        /\ c2s' \in Seq(FrameSet) /\ Len(c2s') <= WireCap
        BY <2>0, ServerReceives
  <2>2. c2s[1].sid \in Sids
        BY <2>1 DEF FrameSet
  <2>3. Frame("Close", c2s[1].sid, 0) \in FrameSet
        BY <2>2, Frames
  <2>4. Chan
        BY <1>7, <1>w, <2>1, <2>3, ServerSends DEF DispatchData, TypeOK
  <2>5. Rest
        BY <1>7 DEF DispatchData, TypeOK, clientVars
  <2>6. sData[c2s[1].sid] \in Seq(FrameSet)
        BY <2>2 DEF TypeOK
  <2>7. /\ Append(sData[c2s[1].sid], c2s[1]) \in Seq(FrameSet)
        /\ Len(Append(sData[c2s[1].sid], c2s[1])) = Len(sData[c2s[1].sid]) + 1
        BY <2>1, <2>6, AppendProperties
  <2>8. Queues
    <3>1. CASE sData' = sData
          BY <1>7, <3>1 DEF DispatchData, TypeOK, clientVars
    <3>2. CASE /\ Len(sData[c2s[1].sid]) < DataCap
               /\ sData' = [sData EXCEPT ![c2s[1].sid] = Append(@, c2s[1])]
      <4>1. Len(sData[c2s[1].sid]) \in Nat
            BY <2>6, LenProperties
      <4>2. Len(Append(sData[c2s[1].sid], c2s[1])) <= DataCap
            BY <1>w, <2>7, <3>2, <4>1
      <4>3. sData' \in [Sids -> Seq(FrameSet)]
            BY <2>7, <3>2 DEF TypeOK
      <4>4. \A t \in Sids : Len(sData'[t]) <= DataCap
            BY <3>2, <4>2 DEF TypeOK
      <4>5. UNCHANGED <<cData, pubWritten, locWritten>>
            BY <1>7 DEF DispatchData, clientVars
      <4>. QED BY <4>3, <4>4, <4>5 DEF TypeOK
    <3>. QED BY <1>7, <2>1, <3>1, <3>2 DEF DispatchData
  <2>. QED BY <2>4, <2>5, <2>8, <1>q
<1>8. ASSUME DispatchClose PROVE TypeOK'
  <2>1. Chan
        BY <1>8, <1>w, ServerReceives DEF DispatchClose, TypeOK
  <2>2. Rest /\ Queues
        BY <1>8 DEF DispatchClose, TypeOK, clientVars
  <2>. QED BY <2>1, <2>2, <1>q
<1>9. ASSUME ClientOpen PROVE TypeOK'
  <2>0. ClientGets("Open")
        BY <1>9 DEF ClientOpen
  <2>1. /\ Head(s2c) = s2c[1] /\ s2c[1] \in FrameSet
        /\ s2c' \in Seq(FrameSet) /\ Len(s2c') <= WireCap
        BY <2>0, ClientReceives
  <2>2. s2c[1].sid \in Sids
        BY <2>1 DEF FrameSet
  <2>3. /\ Frame("ok", s2c[1].sid, 0) \in FrameSet
        /\ Frame("nack", s2c[1].sid, 0) \in FrameSet
        BY <2>2, Frames
  <2>4. SendToServer(Frame("ok", s2c[1].sid, 0)) \/ SendToServer(Frame("nack", s2c[1].sid, 0))
        BY <1>9, <2>1 DEF ClientOpen
  <2>5. Chan
        BY <2>1, <2>3, <2>4, ClientSends
  <2>6. Rest
    <3>1. \/ cStreams' = cStreams \cup {s2c[1].sid} /\ f' = [f EXCEPT ![s2c[1].sid] = "forward"]
          \/ UNCHANGED <<cStreams, f>>
          BY <1>9, <2>1 DEF ClientOpen
    <3>2. UNCHANGED <<sUp, cUp, h, ack, pending, sStreams, pubRead, locRead>>
          BY <1>9 DEF ClientOpen, serverVars
    <3>. QED BY <2>2, <3>1, <3>2 DEF TypeOK
  <2>7. Queues
        BY <1>9 DEF ClientOpen, TypeOK, serverVars
  <2>. QED BY <2>5, <2>6, <2>7, <1>q
<1>10. ASSUME ClientData PROVE TypeOK'
  <2>0. ClientGets("Data")
        BY <1>10 DEF ClientData
  <2>1. /\ Head(s2c) = s2c[1] /\ s2c[1] \in FrameSet /\ s2c[1].type = "Data" /\ 1 \in 1..Len(s2c)
        /\ s2c' \in Seq(FrameSet) /\ Len(s2c') <= WireCap
        BY <2>0, ClientReceives
  <2>2. s2c[1].sid \in Sids
        BY <2>1 DEF FrameSet
  <2>4. Chan
        BY <1>10, <1>w, <2>1 DEF ClientData, TypeOK
  <2>5. Rest
        BY <1>10 DEF ClientData, TypeOK, serverVars
  <2>6. cData[s2c[1].sid] \in Seq(FrameSet)
        BY <2>2 DEF TypeOK
  <2>7. /\ Append(cData[s2c[1].sid], s2c[1]) \in Seq(FrameSet)
        /\ Len(Append(cData[s2c[1].sid], s2c[1])) = Len(cData[s2c[1].sid]) + 1
        BY <2>1, <2>6, AppendProperties
  <2>8. Queues
    <3>1. CASE cData' = cData
          BY <1>10, <3>1 DEF ClientData, TypeOK, serverVars
    <3>2. CASE /\ Len(cData[s2c[1].sid]) < DataCap
               /\ cData' = [cData EXCEPT ![s2c[1].sid] = Append(@, s2c[1])]
      <4>1. Len(cData[s2c[1].sid]) \in Nat
            BY <2>6, LenProperties
      <4>2. Len(Append(cData[s2c[1].sid], s2c[1])) <= DataCap
            BY <1>w, <2>7, <3>2, <4>1
      <4>3. cData' \in [Sids -> Seq(FrameSet)]
            BY <2>7, <3>2 DEF TypeOK
      <4>4. \A t \in Sids : Len(cData'[t]) <= DataCap
            BY <3>2, <4>2 DEF TypeOK
      <4>5. UNCHANGED <<sData, pubWritten, locWritten>>
            BY <1>10 DEF ClientData, serverVars
      <4>. QED BY <4>3, <4>4, <4>5 DEF TypeOK
    <3>. QED BY <1>10, <2>1, <3>1, <3>2 DEF ClientData
  <2>. QED BY <2>4, <2>5, <2>8, <1>q
<1>11. ASSUME ClientClose PROVE TypeOK'
  <2>1. Chan
        BY <1>11, <1>w, ClientReceives DEF ClientClose, TypeOK
  <2>2. Rest /\ Queues
        BY <1>11 DEF ClientClose, TypeOK, serverVars
  <2>. QED BY <2>1, <2>2, <1>q
<1>12. ASSUME ServerTunnelEnds \/ ClientTunnelEnds PROVE TypeOK'
  <2>1. Chan
        BY <1>12, <1>0, <1>w, <1>l DEF ServerTunnelEnds, ClientTunnelEnds, TypeOK
  <2>2. Rest /\ Queues
        BY <1>12 DEF ServerTunnelEnds, ClientTunnelEnds, TypeOK, serverVars, clientVars
  <2>. QED BY <2>1, <2>2, <1>q
<1>13. CASE UNCHANGED vars
       BY <1>13 DEF vars, TypeOK, serverVars, clientVars
<1>. QED BY <1>1, <1>2, <1>3, <1>4, <1>5, <1>6, <1>7, <1>8, <1>9, <1>10, <1>11, <1>12, <1>13
         DEF Next, ServerReader, ClientReader, Handler, Forwarder, Users
-------------------------------------------------------------------------------
\* What a step does to the frames on their way to the client: STREAM_OPEN comes
\* from a handler that has just registered it, STREAM_DATA from one that has
\* read a chunk.
LEMMA ToClient ==
    ASSUME TypeOK, [Next]_vars
    PROVE  \/ s2c' = s2c
           \/ s2c' = <<>> /\ cUp'= FALSE
           \/ s2c # <<>> /\ s2c' = Tail(s2c)
           \/ \E type \in {"Open", "Data", "Close"}, s \in Sids, n \in 0..Chunks :
                 /\ s2c' = Append(s2c, Frame(type, s, n))
                 /\ type = "Open" => h[s] = "opening" /\ h' = [h EXCEPT ![s] = "waiting"] /\ UNCHANGED f
                 /\ type = "Data" => h[s] = "sending" /\ n = pubRead[s]
<1> DEFINE Sent1 == s2c' = s2c \/ \E type \in {"Open", "Data", "Close"}, s \in Sids, n \in 0..Chunks :
                 /\ s2c' = Append(s2c, Frame(type, s, n))
                 /\ type = "Open" => h[s] = "opening" /\ h' = [h EXCEPT ![s] = "waiting"] /\ UNCHANGED f
                 /\ type = "Data" => h[s] = "sending" /\ n = pubRead[s]
<1>0. 0 \in 0..Chunks
      BY MuxAssumption
<1>1. ASSUME NEW s \in Sids, SendOpen(s) PROVE Sent1
      BY <1>0, <1>1 DEF SendOpen, SendToClient, clientVars
<1>2. ASSUME NEW s \in Sids, SendPublicData(s) PROVE Sent1
  <2>1. pubRead[s] \in 0..Chunks
        BY DEF TypeOK
  <2>. QED BY <1>2, <2>1 DEF SendPublicData, SendToClient
<1>3. ASSUME NEW s \in Sids, CloseForward(s) \/ CloseHandler(s) PROVE Sent1
      BY <1>0, <1>3 DEF CloseForward, CloseHandler, SendToClient
<1>4. ASSUME DispatchData PROVE Sent1
  <2>1. ServerGets("Data")
        BY <1>4 DEF DispatchData
  <2>2. Head(c2s).sid \in Sids
        BY <2>1, ServerReceives DEF FrameSet
  <2>. QED BY <1>0, <1>4, <2>2 DEF DispatchData, SendToClient
<1>5. ASSUME NEW s \in Sids, 
             \/ AcceptPublic(s) \/ OpenAcked(s) \/ OpenTimesOut(s) \/ ReadPublic(s)
             \/ PublicDrains(s) \/ PublicEnds(s) \/ WritePublic(s) \/ DataSenderGone(s)
             \/ ReadLocal(s) \/ SendLocalData(s) \/ LocalDrains(s) \/ LocalEnds(s) \/ WriteLocal(s)
             \/ LocalSenderGone(s) \/ CloseLocal(s)
      PROVE  s2c' = s2c
      BY <1>5 DEF AcceptPublic, OpenAcked, OpenTimesOut, ReadPublic, PublicDrains, PublicEnds, WritePublic,
          DataSenderGone, ReadLocal, SendLocalData, LocalDrains, LocalEnds, WriteLocal, LocalSenderGone, CloseLocal
<1>6. ASSUME DispatchOpenAck \/ DispatchClose \/ ServerTunnelEnds PROVE s2c' = s2c
      BY <1>6 DEF DispatchOpenAck, DispatchClose, ServerTunnelEnds
<1>7. ASSUME ClientReader PROVE s2c # <<>> /\ s2c' = Tail(s2c)
      BY <1>7 DEF ClientReader, ClientOpen, ClientData, ClientClose, ClientGets
<1>8. ASSUME ClientTunnelEnds PROVE s2c' = <<>> /\ cUp' = FALSE
      BY <1>8 DEF ClientTunnelEnds
<1>9. CASE UNCHANGED vars
      BY <1>9 DEF vars
<1>. QED BY <1>1, <1>2, <1>3, <1>4, <1>5, <1>6, <1>7, <1>8, <1>9
         DEF Next, ServerReader, Handler, Forwarder, Users

\* What a step does to the frames on their way to the server: an ack comes from
\* the frame loop that has opened the stream, STREAM_DATA from a forwarder that
\* has read a chunk.
LEMMA ToServer ==
    ASSUME TypeOK, [Next]_vars
    PROVE  \/ c2s' = c2s
           \/ c2s' = <<>>
           \/ c2s # <<>> /\ c2s' = Tail(c2s)
           \/ \E type \in {"ok", "nack", "Data", "Close"}, s \in Sids, n \in 0..Chunks :
                 /\ c2s' = Append(c2s, Frame(type, s, n))
                 /\ type = "ok" => f' = [f EXCEPT ![s] = "forward"]
                 /\ type = "Data" => f[s] = "sending" /\ n = locRead[s]
<1> DEFINE Sent1 == c2s' = c2s \/ \E type \in {"ok", "nack", "Data", "Close"}, s \in Sids, n \in 0..Chunks :
                 /\ c2s' = Append(c2s, Frame(type, s, n))
                 /\ type = "ok" => f' = [f EXCEPT ![s] = "forward"]
                 /\ type = "Data" => f[s] = "sending" /\ n = locRead[s]
<1>0. 0 \in 0..Chunks
      BY MuxAssumption
<1>1. ASSUME ClientOpen PROVE Sent1
  <2>1. ClientGets("Open")
        BY <1>1 DEF ClientOpen
  <2>2. Head(s2c).sid \in Sids
        BY <2>1, ClientReceives DEF FrameSet
  <2>. QED BY <1>0, <1>1, <2>2 DEF ClientOpen, SendToServer
<1>2. ASSUME NEW s \in Sids, SendLocalData(s) PROVE Sent1
  <2>1. locRead[s] \in 0..Chunks
        BY DEF TypeOK
  <2>. QED BY <1>2, <2>1 DEF SendLocalData, SendToServer
<1>3. ASSUME NEW s \in Sids, CloseLocal(s) PROVE Sent1
      BY <1>0, <1>3 DEF CloseLocal, SendToServer
<1>5. ASSUME NEW s \in Sids, 
             \/ AcceptPublic(s) \/ SendOpen(s) \/ OpenAcked(s) \/ OpenTimesOut(s) \/ ReadPublic(s)
             \/ SendPublicData(s) \/ PublicDrains(s) \/ PublicEnds(s) \/ WritePublic(s) \/ DataSenderGone(s)
             \/ CloseForward(s) \/ CloseHandler(s)
             \/ ReadLocal(s) \/ LocalDrains(s) \/ LocalEnds(s) \/ WriteLocal(s) \/ LocalSenderGone(s)
      PROVE  c2s' = c2s
      BY <1>5 DEF AcceptPublic, SendOpen, OpenAcked, OpenTimesOut, ReadPublic, SendPublicData,
          PublicDrains, PublicEnds, WritePublic, DataSenderGone, CloseForward, CloseHandler, ReadLocal, LocalDrains, LocalEnds,
          WriteLocal, LocalSenderGone
<1>6. ASSUME ClientData \/ ClientClose \/ ClientTunnelEnds PROVE c2s' = c2s
      BY <1>6 DEF ClientData, ClientClose, ClientTunnelEnds
<1>7. ASSUME ServerReader PROVE c2s # <<>> /\ c2s' = Tail(c2s)
      BY <1>7 DEF ServerReader, DispatchOpenAck, DispatchData, DispatchClose, ServerGets
<1>8. ASSUME ServerTunnelEnds PROVE c2s' = <<>>
      BY <1>8 DEF ServerTunnelEnds
<1>9. CASE UNCHANGED vars
      BY <1>9 DEF vars
<1>. QED BY <1>1, <1>2, <1>3, <1>5, <1>6, <1>7, <1>8, <1>9
         DEF Next, ClientReader, Handler, Forwarder, Users
\* A chunk carries the number it was read under.
LEMMA StepKeepsNumbers == TypeOK /\ ChunksNumbered /\ [Next]_vars => ChunksNumbered'
<1> SUFFICES ASSUME TypeOK, ChunksNumbered, [Next]_vars PROVE ChunksNumbered'
    OBVIOUS
<1> DEFINE Numbered(q) == \A i \in 1..Len(q) : q[i].type = "Data" => q[i].n >= 1
<1>t. s2c \in Seq(FrameSet) /\ c2s \in Seq(FrameSet)
      BY DEF TypeOK
<1>n. Numbered(s2c) /\ Numbered(c2s)
      BY DEF ChunksNumbered
<1>a. ASSUME NEW q \in Seq(FrameSet), Numbered(q), NEW e \in FrameSet, e.type = "Data" => e.n >= 1
      PROVE  Numbered(Append(q, e))
  <2>1. Len(q) \in Nat
        BY LenProperties
  <2>. QED BY <1>a, <2>1, Sent
<1>b. ASSUME NEW q \in Seq(FrameSet), Numbered(q), q # <<>> PROVE Numbered(Tail(q))
      BY <1>b, Received
<1>c. Numbered(<<>>)
      OBVIOUS
<1>1. \A s \in Sids : PublicSent(s)' >= 0
  <2> DEFINE Kept == /\ UNCHANGED pubRead
                     /\ \A t \in Sids : h'[t] = "sending" => h[t] = "sending"
  <2>t. /\ DOMAIN h = Sids /\ DOMAIN f = Sids
        /\ \A s \in Sids : pubRead[s] \in Nat /\ PublicSent(s) >= 0
        BY MuxAssumption DEF TypeOK, ChunksNumbered
  <2>k. ASSUME Kept PROVE <1>1!:
        BY <2>t, <2>k DEF PublicSent
  <2>1. ASSUME NEW s \in Sids, ReadPublic(s) PROVE <1>1!:
    <3>1. pubRead'[s] = pubRead[s] + 1 /\ \A t \in Sids \ {s} : pubRead'[t] = pubRead[t] /\ h'[t] = h[t]
          BY <2>1, <2>t DEF ReadPublic, TypeOK
    <3>. QED BY <2>t, <3>1 DEF PublicSent
  <2>2. ASSUME NEW s \in Sids, \/ AcceptPublic(s) \/ SendOpen(s) \/ OpenAcked(s) \/ OpenTimesOut(s) \/ SendPublicData(s)
                     \/ PublicDrains(s) \/ PublicEnds(s) \/ WritePublic(s) \/ DataSenderGone(s) \/ CloseForward(s) \/ CloseHandler(s)
        PROVE  Kept
        BY <2>t, <2>2 DEF AcceptPublic, SendOpen, OpenAcked, OpenTimesOut, SendPublicData, PublicDrains, PublicEnds,
             WritePublic, DataSenderGone, CloseForward, CloseHandler, clientVars
  <2>3. ASSUME NEW s \in Sids, \/ ReadLocal(s) \/ SendLocalData(s) \/ LocalDrains(s) \/ LocalEnds(s) \/ WriteLocal(s) \/ LocalSenderGone(s)
                     \/ CloseLocal(s)
        PROVE  Kept
        BY <2>t, <2>3 DEF ReadLocal, SendLocalData, LocalDrains, LocalEnds, WriteLocal, LocalSenderGone, CloseLocal, serverVars
  <2>4. ASSUME ServerReader \/ ClientReader \/ ServerTunnelEnds \/ ClientTunnelEnds PROVE Kept
        BY <2>t, <2>4 DEF ServerReader, ClientReader, DispatchOpenAck, DispatchData, DispatchClose,
           ClientOpen, ClientData, ClientClose, ServerTunnelEnds, ClientTunnelEnds, serverVars, clientVars
  <2>5. CASE UNCHANGED vars
        BY <2>5, <2>k DEF vars, serverVars, clientVars
  <2>. QED BY <2>k, <2>1, <2>2, <2>3, <2>4, <2>5 DEF Next, Handler, Forwarder, Users
<1>2. \A s \in Sids : LocalSent(s)' >= 0
  <2> DEFINE Kept == /\ UNCHANGED locRead
                     /\ \A t \in Sids : f'[t] = "sending" => f[t] = "sending"
  <2>t. /\ DOMAIN h = Sids /\ DOMAIN f = Sids
        /\ \A s \in Sids : locRead[s] \in Nat /\ LocalSent(s) >= 0
        BY MuxAssumption DEF TypeOK, ChunksNumbered
  <2>k. ASSUME Kept PROVE <1>2!:
        BY <2>t, <2>k DEF LocalSent
  <2>1. ASSUME NEW s \in Sids, ReadLocal(s) PROVE <1>2!:
    <3>1. locRead'[s] = locRead[s] + 1 /\ \A t \in Sids \ {s} : locRead'[t] = locRead[t] /\ f'[t] = f[t]
          BY <2>1, <2>t DEF ReadLocal, TypeOK
    <3>. QED BY <2>t, <3>1 DEF LocalSent
  <2>2. ASSUME NEW s \in Sids, \/ AcceptPublic(s) \/ SendOpen(s) \/ OpenAcked(s) \/ OpenTimesOut(s) \/ ReadPublic(s)
                     \/ SendPublicData(s) \/ PublicDrains(s) \/ PublicEnds(s) \/ WritePublic(s) \/ DataSenderGone(s) \/ CloseForward(s) \/ CloseHandler(s)
        PROVE  Kept
        BY <2>t, <2>2 DEF AcceptPublic, SendOpen, OpenAcked, OpenTimesOut, ReadPublic, SendPublicData,
             PublicDrains, PublicEnds, WritePublic, DataSenderGone, CloseForward, CloseHandler, clientVars
  <2>3. ASSUME NEW s \in Sids, \/ SendLocalData(s) \/ LocalDrains(s) \/ LocalEnds(s) \/ WriteLocal(s) \/ LocalSenderGone(s) \/ CloseLocal(s)
        PROVE  Kept
        BY <2>t, <2>3 DEF SendLocalData, LocalDrains, LocalEnds, WriteLocal, LocalSenderGone, CloseLocal, serverVars
  <2>4. ASSUME ServerReader \/ ClientReader \/ ServerTunnelEnds \/ ClientTunnelEnds PROVE Kept
        BY <2>t, <2>4 DEF ServerReader, ClientReader, DispatchOpenAck, DispatchData, DispatchClose,
           ClientOpen, ClientData, ClientClose, ServerTunnelEnds, ClientTunnelEnds, serverVars, clientVars
  <2>5. CASE UNCHANGED vars
        BY <2>5, <2>k DEF vars, serverVars, clientVars
  <2>. QED BY <2>k, <2>1, <2>2, <2>3, <2>4, <2>5 DEF Next, Handler, Forwarder, Users
<1>3. Numbered(s2c')
  <2>1. ASSUME NEW type \in {"Open", "Data", "Close"}, NEW s \in Sids, NEW n \in 0..Chunks,
               s2c' = Append(s2c, Frame(type, s, n)), type = "Data" => h[s] = "sending" /\ n = pubRead[s]
        PROVE  Numbered(s2c')
    <3>1. /\ Frame(type, s, n) \in FrameSet
          /\ Frame(type, s, n).type = type /\ Frame(type, s, n).n = n
          BY Frames
    <3>2. type = "Data" => n >= 1
          BY <2>1, MuxAssumption DEF TypeOK, ChunksNumbered, PublicSent
    <3>. QED BY <1>a, <1>t, <1>n, <2>1, <3>1, <3>2
  <2>. QED BY <1>b, <1>c, <1>t, <1>n, <2>1, ToClient
<1>4. Numbered(c2s')
  <2>1. ASSUME NEW type \in {"ok", "nack", "Data", "Close"}, NEW s \in Sids, NEW n \in 0..Chunks,
               c2s' = Append(c2s, Frame(type, s, n)), type = "Data" => f[s] = "sending" /\ n = locRead[s]
        PROVE  Numbered(c2s')
    <3>1. /\ Frame(type, s, n) \in FrameSet
          /\ Frame(type, s, n).type = type /\ Frame(type, s, n).n = n
          BY Frames
    <3>2. type = "Data" => n >= 1
          BY <2>1, MuxAssumption DEF TypeOK, ChunksNumbered, LocalSent
    <3>. QED BY <1>a, <1>t, <1>n, <2>1, <3>1, <3>2
  <2>. QED BY <1>b, <1>c, <1>t, <1>n, <2>1, ToServer
<1>. QED BY <1>1, <1>2, <1>3, <1>4 DEF ChunksNumbered

\* An entry of a table goes, at the latest, with the task it belongs to.
LEMMA StepKeepsTables == TypeOK /\ TablesHeld /\ [Next]_vars => TablesHeld'
<1> SUFFICES ASSUME TypeOK, TablesHeld, [Next]_vars PROVE TablesHeld'
    OBVIOUS
<1> USE DEF TablesHeld, SRxAlive, CRxAlive
<1>t. /\ DOMAIN h = Sids /\ DOMAIN f = Sids
      BY DEF TypeOK
<1>1. ASSUME NEW s \in Sids, AcceptPublic(s) \/ SendOpen(s) \/ OpenAcked(s) \/ OpenTimesOut(s)
      PROVE  TablesHeld'
      BY <1>t, <1>1 DEF AcceptPublic, SendOpen, OpenAcked, OpenTimesOut, clientVars
<1>2. ASSUME NEW s \in Sids,
             ReadPublic(s) \/ SendPublicData(s) \/ PublicDrains(s) \/ PublicEnds(s) \/ WritePublic(s) \/ DataSenderGone(s)
      PROVE  TablesHeld'
      BY <1>t, <1>2 DEF ReadPublic, SendPublicData, PublicDrains, PublicEnds, WritePublic, DataSenderGone, clientVars
<1>3. ASSUME NEW s \in Sids, CloseForward(s) \/ CloseHandler(s) PROVE TablesHeld'
      BY <1>t, <1>3 DEF CloseForward, CloseHandler, clientVars
<1>4. ASSUME DispatchOpenAck \/ DispatchData \/ DispatchClose PROVE TablesHeld'
      BY <1>4 DEF DispatchOpenAck, DispatchData, DispatchClose, clientVars
<1>5. ASSUME ClientOpen PROVE TablesHeld'
      BY <1>t, <1>5 DEF ClientOpen, ClientGets, serverVars
<1>6. ASSUME ClientData \/ ClientClose PROVE TablesHeld'
      BY <1>6 DEF ClientData, ClientClose, serverVars
<1>7. ASSUME NEW s \in Sids,
             ReadLocal(s) \/ SendLocalData(s) \/ LocalDrains(s) \/ LocalEnds(s) \/ WriteLocal(s) \/ LocalSenderGone(s)
      PROVE  TablesHeld'
      BY <1>t, <1>7 DEF ReadLocal, SendLocalData, LocalDrains, LocalEnds, WriteLocal, LocalSenderGone, serverVars
<1>8. ASSUME NEW s \in Sids, CloseLocal(s) PROVE TablesHeld'
      BY <1>t, <1>8 DEF CloseLocal, serverVars
<1>9. ASSUME ServerTunnelEnds \/ ClientTunnelEnds PROVE TablesHeld'
      BY <1>9 DEF ServerTunnelEnds, ClientTunnelEnds, serverVars, clientVars
<1>10. CASE UNCHANGED vars
      BY <1>10 DEF vars, serverVars, clientVars
<1>. QED BY <1>1, <1>2, <1>3, <1>4, <1>5, <1>6, <1>7, <1>8, <1>9, <1>10
         DEF Next, ServerReader, ClientReader, Handler, Forwarder, Users
-------------------------------------------------------------------------------
\* The way of a handler: to forwarding only by an ack of success, and no chunk
\* is read before.
LEMMA HandlerMoves ==
    ASSUME TypeOK, [Next]_vars, NEW t \in Sids
    PROVE  /\ \/ h'[t] = h[t]
              \/ h[t] = "new" /\ h'[t] = "opening"
              \/ h[t] = "opening" /\ h'[t] \in {"waiting", "done"}
              \/ h[t] = "waiting" /\ h'[t] = "done"
              \/ h[t] = "waiting" /\ h'[t] = "forward" /\ ack[t] = "ok" /\ UNCHANGED <<ack, f>>
              \/ /\ h[t] \in {"forward", "sending", "writing", "closing", "closing2"}
                 /\ h'[t] \in {"forward", "sending", "writing", "closing", "closing2", "done"}
           /\ pubRead'[t] = pubRead[t] \/ (h[t] = "forward" /\ h'[t] = "sending")
<1> DEFINE Moves ==
             \/ h'[t] = h[t]
             \/ h[t] = "new" /\ h'[t] = "opening"
             \/ h[t] = "opening" /\ h'[t] \in {"waiting", "done"}
             \/ h[t] = "waiting" /\ h'[t] = "done"
             \/ h[t] = "waiting" /\ h'[t] = "forward" /\ ack[t] = "ok" /\ UNCHANGED <<ack, f>>
             \/ /\ h[t] \in {"forward", "sending", "writing", "closing", "closing2"}
                 /\ h'[t] \in {"forward", "sending", "writing", "closing", "closing2", "done"}
           Reads == pubRead'[t] = pubRead[t] \/ (h[t] = "forward" /\ h'[t] = "sending")
<1>t. h \in [Sids -> HandlerStates]
      BY DEF TypeOK
<1>d. DOMAIN pubRead = Sids
      BY DEF TypeOK
<1>1. ASSUME NEW s \in Sids, AcceptPublic(s) \/ SendOpen(s) \/ OpenAcked(s) \/ OpenTimesOut(s)
      PROVE  Moves /\ Reads
      BY <1>t, <1>1 DEF AcceptPublic, SendOpen, OpenAcked, OpenTimesOut, clientVars
<1>2. ASSUME NEW s \in Sids, ReadPublic(s) PROVE Moves /\ Reads
      BY <1>t, <1>d, <1>2 DEF ReadPublic
<1>3. ASSUME NEW s \in Sids, \/ SendPublicData(s) \/ PublicDrains(s) \/ PublicEnds(s) \/ WritePublic(s)
                             \/ DataSenderGone(s) \/ CloseForward(s) \/ CloseHandler(s)
      PROVE  Moves /\ Reads
      BY <1>t, <1>3 DEF SendPublicData, PublicDrains, PublicEnds, WritePublic, DataSenderGone, CloseForward, CloseHandler
<1>4. ASSUME NEW s \in Sids, \/ ReadLocal(s) \/ SendLocalData(s) \/ LocalDrains(s) \/ LocalEnds(s) \/ WriteLocal(s)
                             \/ LocalSenderGone(s) \/ CloseLocal(s)
      PROVE  Moves /\ Reads
      BY <1>4 DEF ReadLocal, SendLocalData, LocalDrains, LocalEnds, WriteLocal, LocalSenderGone, CloseLocal, serverVars
<1>5. ASSUME ServerReader \/ ClientReader \/ ServerTunnelEnds \/ ClientTunnelEnds PROVE Moves /\ Reads
      BY <1>5 DEF ServerReader, ClientReader, DispatchOpenAck, DispatchData, DispatchClose,
         ClientOpen, ClientData, ClientClose, ServerTunnelEnds, ClientTunnelEnds, serverVars
<1>6. CASE UNCHANGED vars
      BY <1>6 DEF vars, serverVars
<1>. QED BY <1>1, <1>2, <1>3, <1>4, <1>5, <1>6 DEF Next, Handler, Forwarder, Users

\* A forwarder is started by the STREAM_OPEN of its stream alone, and before it
\* runs nothing is delivered.
LEMMA ForwarderMoves ==
    ASSUME TypeOK, TablesHeld, [Next]_vars, NEW t \in Sids
    PROVE  /\ \/ f'[t] = f[t]
              \/ f[t] # "none" /\ f'[t] # "none"
              \/ /\ ClientGets("Open") /\ s2c[1].type = "Open" /\ s2c[1].sid = t
                 /\ f' = [f EXCEPT ![t] = "forward"] /\ UNCHANGED h
           /\ f[t] = "none" => UNCHANGED <<cData[t], locWritten[t]>>
<1> DEFINE Moves ==
             \/ f'[t] = f[t]
             \/ f[t] # "none" /\ f'[t] # "none"
             \/ /\ ClientGets("Open") /\ s2c[1].type = "Open" /\ s2c[1].sid = t
                /\ f' = [f EXCEPT ![t] = "forward"] /\ UNCHANGED h
           Silent == f[t] = "none" => UNCHANGED <<cData[t], locWritten[t]>>
<1>t. DOMAIN f = Sids /\ DOMAIN cData = Sids /\ DOMAIN locWritten = Sids
      BY DEF TypeOK
<1>1. ASSUME NEW s \in Sids, \/ AcceptPublic(s) \/ SendOpen(s) \/ OpenAcked(s) \/ OpenTimesOut(s)
                             \/ ReadPublic(s) \/ SendPublicData(s) \/ PublicDrains(s) \/ PublicEnds(s) \/ WritePublic(s)
                             \/ DataSenderGone(s) \/ CloseForward(s) \/ CloseHandler(s)
      PROVE  Moves /\ Silent
      BY <1>1 DEF AcceptPublic, SendOpen, OpenAcked, OpenTimesOut, ReadPublic, SendPublicData, PublicDrains, PublicEnds,
         WritePublic, DataSenderGone, CloseForward, CloseHandler, clientVars
<1>2. ASSUME NEW s \in Sids, ReadLocal(s) \/ SendLocalData(s) \/ LocalDrains(s) \/ LocalEnds(s) \/ LocalSenderGone(s)
      PROVE  Moves /\ Silent
      BY <1>t, <1>2 DEF ReadLocal, SendLocalData, LocalDrains, LocalEnds, LocalSenderGone
<1>3. ASSUME NEW s \in Sids, WriteLocal(s) \/ CloseLocal(s) PROVE Moves /\ Silent
      BY <1>t, <1>3 DEF WriteLocal, CloseLocal
<1>4. ASSUME ClientOpen PROVE Moves /\ Silent
  <2>1. ClientGets("Open") /\ UNCHANGED <<h, cData, locWritten>>
        BY <1>4 DEF ClientOpen, serverVars
  <2>2. Head(s2c) = s2c[1] /\ s2c[1].type = "Open"
        BY <2>1, ClientReceives
  <2>3. f' = [f EXCEPT ![s2c[1].sid] = "forward"] \/ UNCHANGED f
        BY <1>4, <2>2 DEF ClientOpen
  <2>. QED BY <1>t, <2>1, <2>2, <2>3
<1>5. ASSUME ClientData PROVE Moves /\ Silent
  <2>1. \/ Head(s2c).sid \in cStreams /\ cData' = [cData EXCEPT ![Head(s2c).sid] = Append(@, Head(s2c))]
        \/ UNCHANGED cData
        BY <1>5 DEF ClientData
  <2>2. UNCHANGED <<f, locWritten>>
        BY <1>5 DEF ClientData
  <2>3. f[t] = "none" => t \notin cStreams
        BY DEF TablesHeld, CRxAlive
  <2>. QED BY <1>t, <2>1, <2>2, <2>3
<1>6. ASSUME ServerReader \/ ClientClose \/ ServerTunnelEnds \/ ClientTunnelEnds PROVE Moves /\ Silent
      BY <1>6 DEF ServerReader, DispatchOpenAck, DispatchData, DispatchClose,
         ClientClose, ServerTunnelEnds, ClientTunnelEnds, clientVars
<1>7. CASE UNCHANGED vars
      BY <1>7 DEF vars, clientVars
<1>. QED BY <1>1, <1>2, <1>3, <1>4, <1>5, <1>6, <1>7 DEF Next, ClientReader, Handler, Forwarder, Users

\* An ack is delivered from the frame at the head of the channel.
LEMMA AckMoves ==
    ASSUME TypeOK, [Next]_vars, NEW t \in Sids
    PROVE  \/ ack'[t] = ack[t]
           \/ ack'[t] = "nack"
           \/ c2s # <<>> /\ c2s[1].type = "ok" /\ c2s[1].sid = t
<1>t. DOMAIN ack = Sids
      BY DEF TypeOK
<1>1. ASSUME NEW s \in Sids, Handler(s) \/ Forwarder(s) \/ Users(s) PROVE UNCHANGED ack
      BY <1>1 DEF Handler, Forwarder, Users, AcceptPublic, SendOpen, OpenAcked, OpenTimesOut, ReadPublic,
         SendPublicData, PublicDrains, PublicEnds, WritePublic, DataSenderGone, CloseForward, CloseHandler, ReadLocal,
         SendLocalData, LocalDrains, LocalEnds, WriteLocal, LocalSenderGone, CloseLocal, serverVars
<1>2. ASSUME DispatchOpenAck
      PROVE  \/ ack'[t] = ack[t]
             \/ ack'[t] = "nack"
             \/ c2s # <<>> /\ c2s[1].type = "ok" /\ c2s[1].sid = t
  <2>1. PICK k \in {"ok", "nack"} :
          /\ ServerGets(k)
          /\ ack' = IF Head(c2s).sid \in pending THEN [ack EXCEPT ![Head(c2s).sid] = k] ELSE ack
        BY <1>2 DEF DispatchOpenAck
  <2>2. Head(c2s) = c2s[1] /\ c2s[1].type = k /\ c2s # <<>>
        BY <2>1, ServerReceives
  <2>. QED BY <1>t, <2>1, <2>2
<1>3. ASSUME DispatchData \/ DispatchClose \/ ClientReader \/ ServerTunnelEnds \/ ClientTunnelEnds
      PROVE  UNCHANGED ack
      BY <1>3 DEF ClientReader, DispatchData, DispatchClose,
         ClientOpen, ClientData, ClientClose, ServerTunnelEnds, ClientTunnelEnds, serverVars
<1>4. CASE UNCHANGED vars
      BY <1>4 DEF vars, serverVars
<1>. QED BY <1>1, <1>2, <1>3, <1>4 DEF Next, ServerReader

\* Each stream is opened once, and its handler follows its forwarder.
LEMMA StepKeepsOpening == TypeOK /\ TypeOK' /\ TablesHeld /\ OpenedOnce /\ [Next]_vars => OpenedOnce'
<1> SUFFICES ASSUME TypeOK, TypeOK', TablesHeld, OpenedOnce, [Next]_vars PROVE OpenedOnce'
    OBVIOUS
<1> DEFINE Open(q, i) == q[i].type = "Open"
           Fresh(q, i) == /\ h[q[i].sid] \notin {"new", "opening"}
                          /\ f[q[i].sid] = "none"
                          /\ \A j \in 1..Len(q) : Open(q, j) /\ q[j].sid = q[i].sid => j = i
<1>t. /\ s2c \in Seq(FrameSet) /\ c2s \in Seq(FrameSet)
      /\ \A i \in 1..Len(s2c) : s2c[i].sid \in Sids
      /\ \A i \in 1..Len(c2s) : c2s[i].sid \in Sids
  <2>1. s2c \in Seq(FrameSet) /\ c2s \in Seq(FrameSet)
        BY DEF TypeOK
  <2>2. /\ \A i \in 1..Len(s2c) : s2c[i] \in FrameSet
        /\ \A i \in 1..Len(c2s) : c2s[i] \in FrameSet
        BY <2>1, ElementOfSeq
  <2>. QED BY <2>1, <2>2 DEF FrameSet
<1>o. \A i \in 1..Len(s2c) : Open(s2c, i) => Fresh(s2c, i)
      BY DEF OpenedOnce
<1>1. \A i \in 1..Len(s2c') : Open(s2c', i) =>
          /\ h'[s2c'[i].sid] \notin {"new", "opening"}
          /\ f'[s2c'[i].sid] = "none"
          /\ \A j \in 1..Len(s2c') : Open(s2c', j) /\ s2c'[j].sid = s2c'[i].sid => j = i
  <2> DEFINE Goal == <1>1!:
  <2>h. \A t \in Sids : h[t] \notin {"new", "opening"} => h'[t] \notin {"new", "opening"}
        BY HandlerMoves
  <2>1. CASE s2c' = s2c
    <3>1. ASSUME NEW i \in 1..Len(s2c), Open(s2c, i) PROVE f'[s2c[i].sid] = "none"
      <4>1. ~ClientGets("Open")
            BY <2>1, Received, <1>t, SeqEqual DEF ClientGets
      <4>. QED BY <1>t, <1>o, <3>1, <4>1, ForwarderMoves
    <3>. QED BY <1>t, <1>o, <2>1, <2>h, <3>1
  <2>2. CASE s2c' = <<>>
        BY <2>2
  <2>3. CASE s2c # <<>> /\ s2c' = Tail(s2c)
    <3>1. /\ Len(s2c) \in Nat \ {0} /\ Len(s2c') = Len(s2c) - 1
          /\ \A i \in 1..Len(s2c') : s2c'[i] = s2c[i + 1]
          BY <1>t, <2>3, Received
    <3>2. \A i \in 1..Len(s2c') : i + 1 \in 1..Len(s2c) /\ i + 1 # 1
          BY <3>1
    <3>3. ASSUME NEW i \in 1..Len(s2c'), Open(s2c', i)
          PROVE  /\ h'[s2c'[i].sid] \notin {"new", "opening"}
                 /\ f'[s2c'[i].sid] = "none"
                 /\ \A j \in 1..Len(s2c') : Open(s2c', j) /\ s2c'[j].sid = s2c'[i].sid => j = i
      <4>1. Fresh(s2c, i + 1) /\ s2c'[i] = s2c[i + 1] /\ s2c[i + 1].sid \in Sids
            BY <1>t, <1>o, <3>1, <3>2, <3>3
      <4>2. ~(s2c[1].type = "Open" /\ s2c[1].sid = s2c[i + 1].sid)
            BY <3>1, <3>2, <4>1
      <4>3. f'[s2c'[i].sid] = "none"
            BY <4>1, <4>2, ForwarderMoves
      <4>4. \A j \in 1..Len(s2c') : Open(s2c', j) /\ s2c'[j].sid = s2c'[i].sid => j + 1 = i + 1
            BY <3>1, <3>2, <4>1
      <4>5. \A j \in 1..Len(s2c') : j + 1 = i + 1 => j = i
            BY <3>1
      <4>. QED BY <2>h, <4>1, <4>3, <4>4, <4>5
    <3>. QED BY <3>3
  <2>4. ASSUME NEW type \in {"Open", "Data", "Close"}, NEW s \in Sids, NEW n \in 0..Chunks,
               s2c' = Append(s2c, Frame(type, s, n)),
               type = "Open" => h[s] = "opening" /\ h' = [h EXCEPT ![s] = "waiting"] /\ UNCHANGED f
        PROVE  Goal
    <3> DEFINE e == Frame(type, s, n)
               l == Len(s2c)
    <3>0. e \in FrameSet /\ e.type = type /\ e.sid = s
          BY Frames
    <3>1. /\ l \in Nat /\ Len(s2c') = l + 1
          /\ \A i \in 1..l : s2c'[i] = s2c[i]
          /\ s2c'[l + 1] = e
          BY <1>t, <2>4, <3>0, Sent, LenProperties
    <3>2. ~ClientGets("Open")
      <4>1. ASSUME s2c # <<>> PROVE Len(Tail(s2c)) # Len(s2c')
            BY <1>t, <3>1, <4>1, Received
      <4>. QED BY <4>1 DEF ClientGets
    <3>3. ASSUME NEW i \in 1..l, Open(s2c, i)
          PROVE  /\ h'[s2c[i].sid] \notin {"new", "opening"}
                 /\ f'[s2c[i].sid] = "none"
          BY <1>t, <1>o, <2>h, <3>2, <3>3, ForwarderMoves
    <3>4. CASE type # "Open"
          BY <1>o, <3>0, <3>1, <3>3, <3>4
    <3>5. CASE type = "Open"
      <4>1. /\ h'[s] = "waiting" /\ f'[s] = "none"
            BY <2>4, <3>5 DEF TypeOK, OpenedOnce
      <4>2. \A i \in 1..l : Open(s2c, i) => s2c[i].sid # s
            BY <1>o, <2>4, <3>5
      <4>. QED BY <1>o, <3>0, <3>1, <3>3, <4>1, <4>2
    <3>. QED BY <3>4, <3>5
  <2>. QED BY <2>1, <2>2, <2>3, <2>4, ToClient
<1>f. ASSUME NEW t \in Sids, f[t] # "none" PROVE f'[t] # "none"
  <2>1. ASSUME f' = [f EXCEPT ![t] = "forward"] PROVE f'[t] = "forward"
        BY <2>1 DEF TypeOK
  <2>. QED BY <1>f, <2>1, ForwarderMoves
<1>2. \A i \in 1..Len(c2s') : c2s'[i].type = "ok" => f'[c2s'[i].sid] # "none"
  <2> DEFINE Goal == <1>2!:
  <2>o. \A i \in 1..Len(c2s) : c2s[i].type = "ok" => f[c2s[i].sid] # "none"
        BY DEF OpenedOnce
  <2>1. CASE c2s' = c2s
        BY <1>t, <1>f, <2>o, <2>1
  <2>2. CASE c2s' = <<>>
        BY <2>2
  <2>3. CASE c2s # <<>> /\ c2s' = Tail(c2s)
        BY <1>t, <1>f, <2>o, <2>3, Received
  <2>4. ASSUME NEW type \in {"ok", "nack", "Data", "Close"}, NEW s \in Sids, NEW n \in 0..Chunks,
               c2s' = Append(c2s, Frame(type, s, n)),
               type = "ok" => f' = [f EXCEPT ![s] = "forward"]
        PROVE  Goal
    <3> DEFINE e == Frame(type, s, n)
               l == Len(c2s)
    <3>0. e \in FrameSet /\ e.type = type /\ e.sid = s
          BY Frames
    <3>1. /\ l \in Nat /\ Len(c2s') = l + 1
          /\ \A i \in 1..l : c2s'[i] = c2s[i]
          /\ c2s'[l + 1] = e
          BY <1>t, <2>4, <3>0, Sent, LenProperties
    <3>2. type = "ok" => f'[s] # "none"
          BY <2>4 DEF TypeOK
    <3>. QED BY <1>t, <1>f, <2>o, <3>0, <3>1, <3>2
  <2>. QED BY <2>1, <2>2, <2>3, <2>4, ToServer
<1>3. ASSUME NEW s \in Sids, f'[s] = "none"
      PROVE  /\ h'[s] \in {"new", "opening", "waiting", "done"} /\ ack'[s] # "ok"
             /\ pubRead'[s] = 0 /\ cData'[s] = <<>> /\ locWritten'[s] = <<>>
  <2>1. /\ f[s] = "none" /\ h[s] \in {"new", "opening", "waiting", "done"} /\ ack[s] # "ok"
        /\ pubRead[s] = 0 /\ cData[s] = <<>> /\ locWritten[s] = <<>>
        BY <1>f, <1>3 DEF OpenedOnce
  <2>2. cData'[s] = <<>> /\ locWritten'[s] = <<>>
        BY <2>1, ForwarderMoves
  <2>3. pubRead'[s] = 0 /\ h'[s] \in {"new", "opening", "waiting", "done"}
        BY <2>1, HandlerMoves
  <2>4. ack'[s] # "ok"
    <3>1. ASSUME c2s # <<>>, c2s[1].type = "ok" PROVE f[c2s[1].sid] # "none"
          BY <1>t, <3>1, EmptySeq DEF OpenedOnce
    <3>. QED BY <2>1, <3>1, AckMoves
  <2>. QED BY <2>2, <2>3, <2>4
<1>4. ASSUME NEW s \in Sids, h'[s] \in {"new", "opening"} PROVE f'[s] = "none"
  <2>1. h[s] \in {"new", "opening"} /\ f[s] = "none"
        BY <1>4, HandlerMoves DEF OpenedOnce
  <2>2. ASSUME ClientGets("Open"), s2c[1].type = "Open", s2c[1].sid = s PROVE FALSE
        BY <1>t, <1>o, <2>1, <2>2, EmptySeq DEF ClientGets
  <2>. QED BY <2>1, <2>2, ForwarderMoves
<1>5. ASSUME NEW s \in Sids, h'[s] \in {"new", "opening", "waiting"} PROVE pubRead'[s] = 0
      BY <1>5, HandlerMoves DEF OpenedOnce
<1>. QED BY <1>1, <1>2, <1>3, <1>4, <1>5 DEF OpenedOnce
-------------------------------------------------------------------------------
\* A frame of another stream, or one that carries no chunk, changes nothing of
\* what stream s has in the channel, whether it leaves or joins.
LEMMA OtherFrameLeaves ==
    ASSUME NEW q \in Seq(FrameSet), q # <<>>, NEW s, ~Chunk(q, s, 1), NEW m \in Int
    PROVE  /\ After(q, s, m) => After(Tail(q), s, m)
           /\ UpTo(q, s, m) => UpTo(Tail(q), s, m)
           /\ Rising(q, s) => Rising(Tail(q), s)
           /\ Reaches(q, s, m) => Reaches(Tail(q), s, m)
           /\ Run(q, s, m) => Run(Tail(q), s, m)
<1> DEFINE r == Tail(q)
<1>1. /\ Len(q) \in Nat \ {0} /\ Len(r) = Len(q) - 1
      /\ \A i \in 1..Len(r) : i + 1 \in 1..Len(q) /\ r[i] = q[i + 1]
      BY Received
<1>2. \A i \in 1..Len(r) : Chunk(r, s, i) <=> Chunk(q, s, i + 1)
      BY <1>1 DEF Chunk
<1>3. ASSUME NEW x, Reaches(q, s, x) PROVE Reaches(r, s, x)
  <2>1. PICK i \in 1..Len(q) : Chunk(q, s, i) /\ q[i].n = x
        BY <1>3 DEF Reaches
  <2>2. i # 1 /\ i - 1 \in 1..Len(r) /\ (i - 1) + 1 = i
        BY <1>1, <2>1
  <2>. QED BY <1>1, <1>2, <2>1, <2>2 DEF Reaches
<1>4. After(q, s, m) => After(r, s, m)
      BY <1>1, <1>2 DEF After
<1>5. UpTo(q, s, m) => UpTo(r, s, m)
      BY <1>1, <1>2 DEF UpTo
<1>6. Rising(q, s) => Rising(r, s)
  <2> SUFFICES ASSUME Rising(q, s), NEW i \in 1..Len(r), NEW j \in 1..Len(r),
                      Chunk(r, s, i), Chunk(r, s, j), i < j
               PROVE  r[i].n < r[j].n
      BY DEF Rising
  <2>1. i + 1 < j + 1
        BY <1>1
  <2>. QED BY <1>1, <1>2, <2>1 DEF Rising
<1>7. ASSUME Run(q, s, m) PROVE Run(r, s, m)
  <2>1. ASSUME NEW i \in 1..Len(r), Chunk(r, s, i), r[i].n > m + 1 PROVE Reaches(r, s, r[i].n - 1)
    <3>1. Reaches(q, s, r[i].n - 1)
          BY <1>1, <1>2, <1>7, <2>1 DEF Run
    <3>. QED BY <1>3, <3>1
  <2>. QED BY <1>4, <1>6, <1>7, <2>1 DEF Run
<1>. QED BY <1>3, <1>4, <1>5, <1>6, <1>7

\* The chunk received first from a run is the next one, and leaves a run.
LEMMA NextChunkLeaves ==
    ASSUME NEW q \in Seq(FrameSet), q # <<>>, NEW s, Chunk(q, s, 1), NEW m \in Int, NEW x \in Int,
           MuxAssumption
    PROVE  /\ After(q, s, m) => m < q[1].n /\ After(Tail(q), s, m)
           /\ UpTo(q, s, m) => q[1].n <= m /\ UpTo(Tail(q), s, m)
           /\ Rising(q, s) => Rising(Tail(q), s) /\ After(Tail(q), s, q[1].n)
           /\ Run(q, s, m) => q[1].n = m + 1 /\ Run(Tail(q), s, m + 1)
           /\ Reaches(q, s, x) => x = q[1].n \/ Reaches(Tail(q), s, x)
<1> DEFINE r == Tail(q)
<1>1. /\ Len(q) \in Nat \ {0} /\ Len(r) = Len(q) - 1 /\ 1 \in 1..Len(q)
      /\ \A i \in 1..Len(r) : i + 1 \in 1..Len(q) /\ r[i] = q[i + 1]
      BY Received
<1>2. \A i \in 1..Len(r) : Chunk(r, s, i) <=> Chunk(q, s, i + 1)
      BY <1>1 DEF Chunk
<1>n. /\ \A i \in 1..Len(q) : q[i].n \in Nat
      /\ \A i \in 1..Len(r) : r[i].n \in Nat
  <2>1. \A i \in 1..Len(q) : q[i] \in FrameSet
        BY ElementOfSeq
  <2>2. \A i \in 1..Len(q) : q[i].n \in Nat
        BY <2>1 DEF FrameSet, MuxAssumption
  <2>. QED BY <1>1, <2>2
<1>3. ASSUME NEW y, Reaches(q, s, y), y # q[1].n PROVE Reaches(r, s, y)
  <2>1. PICK i \in 1..Len(q) : Chunk(q, s, i) /\ q[i].n = y
        BY <1>3 DEF Reaches
  <2>2. i # 1 /\ i - 1 \in 1..Len(r) /\ (i - 1) + 1 = i
        BY <1>1, <1>3, <2>1
  <2>. QED BY <1>1, <1>2, <2>1, <2>2 DEF Reaches
<1>4. After(q, s, m) => m < q[1].n /\ After(r, s, m)
      BY <1>1, <1>2 DEF After
<1>5. UpTo(q, s, m) => q[1].n <= m /\ UpTo(r, s, m)
      BY <1>1, <1>2 DEF UpTo
<1>6. Rising(q, s) => Rising(r, s) /\ After(r, s, q[1].n)
  <2> SUFFICES ASSUME Rising(q, s) PROVE Rising(r, s) /\ After(r, s, q[1].n)
      OBVIOUS
  <2>1. ASSUME NEW i \in 1..Len(r), NEW j \in 1..Len(r), Chunk(r, s, i), Chunk(r, s, j), i < j
        PROVE  r[i].n < r[j].n
    <3>1. i + 1 < j + 1
          BY <1>1, <2>1
    <3>. QED BY <1>1, <1>2, <2>1, <3>1 DEF Rising
  <2>2. ASSUME NEW i \in 1..Len(r), Chunk(r, s, i) PROVE q[1].n < r[i].n
    <3>1. 1 < i + 1
          BY <1>1
    <3>. QED BY <1>1, <1>2, <2>2, <3>1 DEF Rising
  <2>. QED BY <2>1, <2>2 DEF Rising, After
<1>7. ASSUME Run(q, s, m) PROVE q[1].n = m + 1 /\ Run(r, s, m + 1)
  <2>0. After(q, s, m) /\ Rising(q, s)
        BY <1>7 DEF Run
  <2>1. q[1].n = m + 1
    <3>1. ASSUME q[1].n > m + 1 PROVE FALSE
      <4>1. PICK i \in 1..Len(q) : Chunk(q, s, i) /\ q[i].n = q[1].n - 1
            BY <1>1, <1>7, <3>1 DEF Run, Reaches
      <4>2. i # 1 => q[1].n < q[i].n
            BY <1>1, <2>0, <4>1 DEF Rising
      <4>. QED BY <1>1, <1>n, <4>1, <4>2
    <3>2. m < q[1].n
          BY <1>4, <2>0
    <3>. QED BY <1>1, <1>n, <3>1, <3>2
  <2>2. After(r, s, m + 1) /\ Rising(r, s)
        BY <1>6, <2>0, <2>1
  <2>3. ASSUME NEW i \in 1..Len(r), Chunk(r, s, i), r[i].n > m + 1 + 1 PROVE Reaches(r, s, r[i].n - 1)
    <3>1. Reaches(q, s, r[i].n - 1)
      <4>1. r[i].n = q[i + 1].n /\ i + 1 \in 1..Len(q) /\ Chunk(q, s, i + 1) /\ q[i + 1].n > m + 1
            BY <1>1, <1>2, <1>n, <2>3
      <4>. QED BY <1>7, <4>1 DEF Run
    <3>2. r[i].n - 1 # q[1].n
          BY <1>n, <2>1, <2>3
    <3>. QED BY <1>3, <3>1, <3>2
  <2>. QED BY <2>1, <2>2, <2>3 DEF Run
<1>. QED BY <1>3, <1>4, <1>5, <1>6, <1>7

\* A frame that carries no chunk of stream s joins.
LEMMA OtherFrameJoins ==
    ASSUME NEW q \in Seq(FrameSet), NEW e \in FrameSet, NEW s, ~(e.type = "Data" /\ e.sid = s), NEW m \in Int
    PROVE  /\ After(q, s, m) => After(Append(q, e), s, m)
           /\ UpTo(q, s, m) => UpTo(Append(q, e), s, m)
           /\ Rising(q, s) => Rising(Append(q, e), s)
           /\ Reaches(q, s, m) => Reaches(Append(q, e), s, m)
           /\ Run(q, s, m) => Run(Append(q, e), s, m)
<1> DEFINE r == Append(q, e)
<1>1. /\ Len(q) \in Nat /\ Len(r) = Len(q) + 1
      /\ \A i \in 1..Len(q) : i \in 1..Len(r) /\ r[i] = q[i]
      /\ r[Len(q) + 1] = e
      BY Sent, LenProperties
<1>2. /\ \A i \in 1..Len(q) : Chunk(r, s, i) <=> Chunk(q, s, i)
      /\ \A i \in 1..Len(r) : Chunk(r, s, i) => i \in 1..Len(q)
      BY <1>1 DEF Chunk
<1>3. ASSUME NEW x, Reaches(q, s, x) PROVE Reaches(r, s, x)
      BY <1>1, <1>2, <1>3 DEF Reaches
<1>4. After(q, s, m) => After(r, s, m)
      BY <1>1, <1>2 DEF After
<1>5. UpTo(q, s, m) => UpTo(r, s, m)
      BY <1>1, <1>2 DEF UpTo
<1>6. Rising(q, s) => Rising(r, s)
      BY <1>1, <1>2 DEF Rising
<1>7. ASSUME Run(q, s, m) PROVE Run(r, s, m)
  <2>1. ASSUME NEW i \in 1..Len(r), Chunk(r, s, i), r[i].n > m + 1 PROVE Reaches(r, s, r[i].n - 1)
    <3>1. Reaches(q, s, r[i].n - 1)
          BY <1>1, <1>2, <1>7, <2>1 DEF Run
    <3>. QED BY <1>3, <3>1
  <2>. QED BY <1>4, <1>6, <1>7, <2>1 DEF Run
<1>. QED BY <1>3, <1>4, <1>5, <1>6, <1>7

\* The chunk read next joins, and prolongs a run that reached the one before.
LEMMA NextChunkJoins ==
    ASSUME NEW q \in Seq(FrameSet), NEW e \in FrameSet, NEW s, e.type = "Data", e.sid = s,
           UpTo(q, s, e.n - 1), NEW m \in Int, MuxAssumption
    PROVE  /\ After(q, s, m) /\ m < e.n => After(Append(q, e), s, m)
           /\ UpTo(Append(q, e), s, e.n)
           /\ Rising(q, s) => Rising(Append(q, e), s)
           /\ Reaches(Append(q, e), s, e.n)
           /\ Run(q, s, m) /\ m < e.n /\ (m = e.n - 1 \/ Reaches(q, s, e.n - 1)) => Run(Append(q, e), s, m)
<1> DEFINE r == Append(q, e)
           l == Len(q) + 1
<1>1. /\ Len(q) \in Nat /\ Len(r) = l /\ l \in 1..Len(r)
      /\ \A i \in 1..Len(q) : i \in 1..Len(r) /\ r[i] = q[i] /\ i < l
      /\ r[l] = e
      /\ \A i \in 1..Len(r) : i \in 1..Len(q) \/ i = l
      BY Sent, LenProperties
<1>2. /\ \A i \in 1..Len(q) : Chunk(r, s, i) <=> Chunk(q, s, i)
      /\ Chunk(r, s, l)
      BY <1>1 DEF Chunk
<1>n. e.n \in Nat /\ \A i \in 1..Len(q) : q[i].n \in Nat
  <2>1. \A i \in 1..Len(q) : q[i] \in FrameSet
        BY ElementOfSeq
  <2>. QED BY <2>1 DEF FrameSet, MuxAssumption
<1>3. ASSUME NEW x, Reaches(q, s, x) PROVE Reaches(r, s, x)
      BY <1>1, <1>2, <1>3 DEF Reaches
<1>4. ASSUME After(q, s, m), m < e.n PROVE After(r, s, m)
      BY <1>1, <1>2, <1>4 DEF After
<1>5. UpTo(r, s, e.n)
      BY <1>1, <1>2, <1>n DEF UpTo
<1>6. ASSUME Rising(q, s) PROVE Rising(r, s)
  <2> SUFFICES ASSUME NEW i \in 1..Len(r), NEW j \in 1..Len(r), Chunk(r, s, i), Chunk(r, s, j), i < j
               PROVE  r[i].n < r[j].n
      BY DEF Rising
  <2>0. i \in 1..Len(q)
        BY <1>1
  <2>1. CASE j \in 1..Len(q)
        BY <1>1, <1>2, <1>6, <2>0, <2>1 DEF Rising
  <2>2. CASE j = l
        BY <1>1, <1>2, <1>n, <2>0, <2>2 DEF UpTo
  <2>. QED BY <1>1, <2>1, <2>2
<1>7. Reaches(r, s, e.n)
      BY <1>1, <1>2 DEF Reaches
<1>8. ASSUME Run(q, s, m), m < e.n, m = e.n - 1 \/ Reaches(q, s, e.n - 1) PROVE Run(r, s, m)
  <2>1. ASSUME NEW i \in 1..Len(r), Chunk(r, s, i), r[i].n > m + 1 PROVE Reaches(r, s, r[i].n - 1)
    <3>1. CASE i \in 1..Len(q)
      <4>1. Reaches(q, s, r[i].n - 1)
            BY <1>1, <1>2, <1>8, <2>1, <3>1 DEF Run
      <4>. QED BY <1>3, <4>1
    <3>2. CASE i = l
      <4>1. r[i].n = e.n /\ m # e.n - 1
            BY <1>1, <1>n, <2>1, <3>2
      <4>2. Reaches(q, s, e.n - 1)
            BY <1>8, <4>1
      <4>. QED BY <1>3, <4>1, <4>2
    <3>. QED BY <1>1, <3>1, <3>2
  <2>. QED BY <1>4, <1>6, <1>8, <2>1 DEF Run
<1>. QED BY <1>3, <1>4, <1>5, <1>6, <1>7, <1>8

\* An empty channel holds no chunk.
LEMMA NothingInChannel == ASSUME NEW s, NEW m
    PROVE After(<<>>, s, m) /\ UpTo(<<>>, s, m) /\ Rising(<<>>, s) /\ Run(<<>>, s, m)
BY DEF After, UpTo, Rising, Run
-------------------------------------------------------------------------------
\* What a stream s sees of its channel q when another frame moves, or none.
Moved(q, r, s) == \/ r = q
                  \/ q # <<>> /\ r = Tail(q) /\ ~Chunk(q, s, 1)
                  \/ \E e \in FrameSet : r = Append(q, e) /\ ~(e.type = "Data" /\ e.sid = s)

\* A step that moves no chunk of stream s leaves what it knows of its channel.
LEMMA ChannelKept ==
    ASSUME NEW q \in Seq(FrameSet), NEW r, NEW s, Moved(q, r, s), NEW m \in Int
    PROVE  /\ After(q, s, m) => After(r, s, m)
           /\ UpTo(q, s, m) => UpTo(r, s, m)
           /\ Rising(q, s) => Rising(r, s)
           /\ Reaches(q, s, m) => Reaches(r, s, m)
           /\ Run(q, s, m) => Run(r, s, m)
<1>1. CASE r = q
      BY <1>1
<1>2. CASE q # <<>> /\ r = Tail(q) /\ ~Chunk(q, s, 1)
      BY <1>2, OtherFrameLeaves
<1>3. ASSUME NEW e \in FrameSet, r = Append(q, e), ~(e.type = "Data" /\ e.sid = s)
      PROVE  /\ After(q, s, m) => After(r, s, m)
             /\ UpTo(q, s, m) => UpTo(r, s, m)
             /\ Rising(q, s) => Rising(r, s)
             /\ Reaches(q, s, m) => Reaches(r, s, m)
             /\ Run(q, s, m) => Run(r, s, m)
      BY <1>3, OtherFrameJoins
<1>. QED BY <1>1, <1>2, <1>3 DEF Moved

\* The numbers of a stream are numbers.
LEMMA Counts ==
    ASSUME TypeOK, NEW s \in Sids
    PROVE  /\ pubRead[s] \in Nat /\ PublicSent(s) \in Int /\ locRead[s] \in Nat /\ LocalSent(s) \in Int
           /\ Len(locWritten[s]) \in Nat /\ Len(cData[s]) \in Nat /\ Delivered(s) \in Nat
           /\ Len(sData[s]) \in Nat /\ Len(pubWritten[s]) \in Nat
           /\ \A i \in 1..Len(sData[s]) : sData[s][i].n \in Nat
           /\ \A i \in 1..Len(pubWritten[s]) : pubWritten[s][i].n \in Nat
           /\ s2c \in Seq(FrameSet) /\ c2s \in Seq(FrameSet)
<1>1. /\ pubRead[s] \in 0..Chunks /\ locRead[s] \in 0..Chunks
      /\ locWritten[s] \in Seq(FrameSet) /\ cData[s] \in Seq(FrameSet)
      /\ sData[s] \in Seq(FrameSet) /\ pubWritten[s] \in Seq(FrameSet)
      BY DEF TypeOK
<1>2. /\ Len(locWritten[s]) \in Nat /\ Len(cData[s]) \in Nat
      /\ Len(sData[s]) \in Nat /\ Len(pubWritten[s]) \in Nat
      BY <1>1, LenProperties
<1>3. pubRead[s] \in Nat /\ locRead[s] \in Nat
      BY <1>1, MuxAssumption
<1>4. /\ \A i \in 1..Len(sData[s]) : sData[s][i].n \in Nat
      /\ \A i \in 1..Len(pubWritten[s]) : pubWritten[s][i].n \in Nat
  <2>1. /\ \A i \in 1..Len(sData[s]) : sData[s][i] \in FrameSet
        /\ \A i \in 1..Len(pubWritten[s]) : pubWritten[s][i] \in FrameSet
        BY <1>1, ElementOfSeq
  <2>. QED BY <2>1, MuxAssumption DEF FrameSet
<1>. QED BY <1>2, <1>3, <1>4 DEF PublicSent, LocalSent, Delivered, TypeOK

\* The download of s is sound after a step that moves nothing of it.
LEMMA DownloadKept ==
    ASSUME TypeOK, NEW s \in Sids, DownloadSound(s), Moved(s2c, s2c', s),
           UNCHANGED <<locWritten[s], cData[s]>>, PublicSent(s)' = PublicSent(s),
           s \in cStreams' => s \in cStreams,
           s \in cStreams' /\ sUp' /\ h'[s] \in {"forward", "sending", "writing"} =>
              \/ sUp /\ h[s] \in {"forward", "sending", "writing"}
              \/ PublicSent(s) = Delivered(s)
    PROVE  DownloadSound(s)'
<1>1. PublicSent(s) \in Int /\ Delivered(s) \in Int /\ s2c \in Seq(FrameSet)
      BY Counts
<1>2. Delivered(s)' = Delivered(s)
      BY DEF Delivered
<1>3. UpTo(s2c', s, PublicSent(s))
      BY <1>1, ChannelKept DEF DownloadSound
<1>4. s \in cStreams' => Run(s2c', s, Delivered(s))
      BY <1>1, ChannelKept DEF DownloadSound
<1>5. s \in cStreams' /\ sUp' /\ h'[s] \in {"forward", "sending", "writing"} =>
          PublicSent(s) = Delivered(s) \/ Reaches(s2c', s, PublicSent(s))
      BY <1>1, ChannelKept DEF DownloadSound
<1>. QED BY <1>2, <1>3, <1>4, <1>5 DEF DownloadSound

\* What is in a channel up to some chunk is in it up to every later one.
LEMMA UpToLater ==
    ASSUME NEW q \in Seq(FrameSet), NEW s, NEW m \in Int, NEW k \in Int, m <= k, UpTo(q, s, m)
    PROVE  UpTo(q, s, k)
<1>1. \A i \in 1..Len(q) : q[i] \in FrameSet
      BY ElementOfSeq
<1>2. \A i \in 1..Len(q) : q[i].n \in Int
      BY <1>1, MuxAssumption DEF FrameSet
<1>. QED BY <1>2 DEF UpTo

\* The upload of s is sound after a step that moves nothing of it, also when a
\* chunk that was read goes nowhere.
LEMMA UploadKept ==
    ASSUME TypeOK, TypeOK', NEW s \in Sids, UploadSound(s), Moved(c2s, c2s', s),
           UNCHANGED <<pubWritten[s], sData[s]>>, LocalSent(s) <= LocalSent(s)', LocalSent(s)' \in Int
    PROVE  UploadSound(s)'
<1>1. /\ LocalSent(s) \in Int /\ c2s \in Seq(FrameSet)
      /\ \A i \in 1..Len(sData[s]) : sData[s][i].n \in Int
      /\ \A i \in 1..Len(pubWritten[s]) : pubWritten[s][i].n \in Int
      BY Counts
<1>0. c2s' \in Seq(FrameSet)
      BY DEF TypeOK
<1>2. Rising(c2s', s) /\ UpTo(c2s', s, LocalSent(s))
      BY <1>1, ChannelKept DEF UploadSound
<1>3. UpTo(c2s', s, LocalSent(s)')
      BY <1>0, <1>1, <1>2, UpToLater
<1>4. /\ \A i \in 1..Len(sData[s]) : After(c2s', s, sData[s][i].n)
      /\ \A i \in 1..Len(pubWritten[s]) : After(c2s', s, pubWritten[s][i].n)
      BY <1>1, ChannelKept DEF UploadSound
<1>5. /\ \A i \in 1..Len(sData[s]) : sData[s][i].n <= LocalSent(s)'
      /\ \A i \in 1..Len(pubWritten[s]) : pubWritten[s][i].n <= LocalSent(s)'
      BY <1>1 DEF UploadSound
<1>. QED BY <1>2, <1>3, <1>4, <1>5 DEF UploadSound
-------------------------------------------------------------------------------
\* No step puts a chunk into the sequences of another stream.
LEMMA StepKeepsOwn ==
    ASSUME TypeOK, [Next]_vars, NEW s \in Sids, OwnChunks(s)
    PROVE  OwnChunks(s)'
<1> DEFINE Own(q) == \A i \in 1..Len(q) : q[i].sid = s
<1>t. /\ sData[s] \in Seq(FrameSet) /\ cData[s] \in Seq(FrameSet)
      /\ pubWritten[s] \in Seq(FrameSet) /\ locWritten[s] \in Seq(FrameSet)
      /\ DOMAIN sData = Sids /\ DOMAIN cData = Sids
      /\ DOMAIN pubWritten = Sids /\ DOMAIN locWritten = Sids
      BY DEF TypeOK
<1>o. Own(sData[s]) /\ Own(cData[s]) /\ Own(pubWritten[s]) /\ Own(locWritten[s])
      BY DEF OwnChunks
<1>q. ASSUME Own(sData'[s]), Own(cData'[s]), Own(pubWritten'[s]), Own(locWritten'[s])
      PROVE  OwnChunks(s)'
      BY <1>q DEF OwnChunks
<1>a. ASSUME NEW q \in Seq(FrameSet), Own(q), NEW e \in FrameSet, e.sid = s PROVE Own(Append(q, e))
  <2>1. /\ Len(q) \in Nat /\ Len(Append(q, e)) = Len(q) + 1
        /\ \A i \in 1..Len(q) : Append(q, e)[i] = q[i]
        /\ Append(q, e)[Len(q) + 1] = e
        BY Sent, LenProperties
  <2>2. \A i \in 1..Len(Append(q, e)) : i \in 1..Len(q) \/ i = Len(q) + 1
        BY <2>1
  <2>. QED BY <1>a, <2>1, <2>2
<1>b. ASSUME NEW q \in Seq(FrameSet), Own(q), q # <<>>
      PROVE  Own(Tail(q)) /\ Head(q) \in FrameSet /\ Head(q).sid = s
      BY <1>b, Received
<1>e. Own(<<>>)
  <2>1. Len(<<>>) = 0
        BY EmptySeq
  <2>. QED BY <2>1
<1> HIDE DEF Own
<1>1. ASSUME NEW t \in Sids,
             \/ AcceptPublic(t) \/ SendOpen(t) \/ OpenAcked(t) \/ OpenTimesOut(t) \/ ReadPublic(t)
             \/ SendPublicData(t) \/ PublicDrains(t) \/ PublicEnds(t) \/ DataSenderGone(t)
             \/ CloseHandler(t) \/ ReadLocal(t) \/ SendLocalData(t) \/ LocalDrains(t) \/ LocalEnds(t)
             \/ LocalSenderGone(t)
      PROVE  OwnChunks(s)'
  <2>1. UNCHANGED <<sData, cData, pubWritten, locWritten>>
        BY <1>1 DEF AcceptPublic, SendOpen, OpenAcked, OpenTimesOut, ReadPublic, SendPublicData,
           PublicDrains, PublicEnds, DataSenderGone, CloseHandler, ReadLocal, SendLocalData, LocalDrains,
           LocalEnds, LocalSenderGone, serverVars, clientVars
  <2>. QED BY <1>o, <1>q, <2>1
<1>2. ASSUME NEW t \in Sids, WritePublic(t) PROVE OwnChunks(s)'
  <2>1. /\ sData[t] # <<>> /\ UNCHANGED <<cData, locWritten>>
        /\ pubWritten' = [pubWritten EXCEPT ![t] = Append(@, Head(sData[t]))]
        /\ sData' = [sData EXCEPT ![t] = Tail(@)]
        BY <1>2 DEF WritePublic, clientVars
  <2>2. CASE t = s
        BY <1>a, <1>b, <1>o, <1>q, <1>t, <2>1, <2>2
  <2>3. CASE t # s
        BY <1>o, <1>q, <1>t, <2>1, <2>3
  <2>. QED BY <2>2, <2>3
<1>3. ASSUME NEW t \in Sids, WriteLocal(t) PROVE OwnChunks(s)'
  <2>1. /\ cData[t] # <<>> /\ UNCHANGED <<sData, pubWritten>>
        /\ locWritten' = [locWritten EXCEPT ![t] = Append(@, Head(cData[t]))]
        /\ cData' = [cData EXCEPT ![t] = Tail(@)]
        BY <1>3 DEF WriteLocal, serverVars
  <2>2. CASE t = s
        BY <1>a, <1>b, <1>o, <1>q, <1>t, <2>1, <2>2
  <2>3. CASE t # s
        BY <1>o, <1>q, <1>t, <2>1, <2>3
  <2>. QED BY <2>2, <2>3
<1>4. ASSUME NEW t \in Sids, CloseForward(t) \/ CloseLocal(t) PROVE OwnChunks(s)'
  <2>1. /\ UNCHANGED <<pubWritten, locWritten>>
        /\ sData' = sData \/ sData' = [sData EXCEPT ![t] = <<>>]
        /\ cData' = cData \/ cData' = [cData EXCEPT ![t] = <<>>]
        BY <1>4 DEF CloseForward, CloseLocal, serverVars, clientVars
  <2>. QED BY <1>e, <1>o, <1>q, <1>t, <2>1
<1>5. ASSUME DispatchData PROVE OwnChunks(s)'
  <2>1. ServerGets("Data") /\ UNCHANGED <<cData, pubWritten, locWritten>>
        BY <1>5 DEF DispatchData, clientVars
  <2>2. Head(c2s) = c2s[1] /\ c2s[1] \in FrameSet
        BY <2>1, ServerReceives
  <2>3. sData' = sData \/ sData' = [sData EXCEPT ![c2s[1].sid] = Append(@, c2s[1])]
        BY <1>5, <2>2 DEF DispatchData
  <2>4. CASE c2s[1].sid = s
        BY <1>a, <1>o, <1>q, <1>t, <2>1, <2>2, <2>3, <2>4
  <2>5. CASE c2s[1].sid # s
        BY <1>o, <1>q, <1>t, <2>1, <2>3, <2>5
  <2>. QED BY <2>4, <2>5
<1>6. ASSUME ClientData PROVE OwnChunks(s)'
  <2>1. ClientGets("Data") /\ UNCHANGED <<sData, pubWritten, locWritten>>
        BY <1>6 DEF ClientData, serverVars
  <2>2. Head(s2c) = s2c[1] /\ s2c[1] \in FrameSet
        BY <2>1, ClientReceives
  <2>3. cData' = cData \/ cData' = [cData EXCEPT ![s2c[1].sid] = Append(@, s2c[1])]
        BY <1>6, <2>2 DEF ClientData
  <2>4. CASE s2c[1].sid = s
        BY <1>a, <1>o, <1>q, <1>t, <2>1, <2>2, <2>3, <2>4
  <2>5. CASE s2c[1].sid # s
        BY <1>o, <1>q, <1>t, <2>1, <2>3, <2>5
  <2>. QED BY <2>4, <2>5
<1>7. ASSUME \/ DispatchOpenAck \/ DispatchClose \/ ClientOpen \/ ClientClose
             \/ ServerTunnelEnds \/ ClientTunnelEnds \/ UNCHANGED vars
      PROVE  OwnChunks(s)'
  <2>1. UNCHANGED <<sData, cData, pubWritten, locWritten>>
        BY <1>7 DEF DispatchOpenAck, DispatchClose, ClientOpen, ClientClose, ServerTunnelEnds,
           ClientTunnelEnds, vars, serverVars, clientVars
  <2>. QED BY <1>o, <1>q, <2>1
<1>. QED BY <1>1, <1>2, <1>3, <1>4, <1>5, <1>6, <1>7
         DEF Next, ServerReader, ClientReader, Handler, Forwarder, Users
-------------------------------------------------------------------------------
\* public -> local: no step breaks the sequence of a stream's chunks.
LEMMA StepKeepsDownload ==
    ASSUME TypeOK, ChunksNumbered, TablesHeld, OpenedOnce, TypeOK', [Next]_vars,
           NEW s \in Sids, DownloadSound(s)
    PROVE  DownloadSound(s)'
<1> DEFINE Quiet == UNCHANGED <<locWritten[s], cData[s]>>
           Forwarding == h[s] \in {"forward", "sending", "writing"}
<1>t. /\ DOMAIN h = Sids /\ DOMAIN pubRead = Sids /\ DOMAIN cData = Sids /\ DOMAIN locWritten = Sids
      /\ DOMAIN f = Sids
      BY DEF TypeOK
<1>c. /\ PublicSent(s) \in Int /\ pubRead[s] \in Nat /\ Delivered(s) \in Nat /\ s2c \in Seq(FrameSet)
      /\ Len(locWritten[s]) \in Nat /\ Len(cData[s]) \in Nat
      BY Counts
<1>0. h[s] \in {"new", "opening", "waiting"} => PublicSent(s) = Delivered(s)
  <2>1. h[s] \in {"new", "opening", "waiting"} => pubRead[s] = 0 /\ PublicSent(s) = pubRead[s]
        BY DEF OpenedOnce, PublicSent
  <2>. QED BY <1>c, <2>1 DEF DownloadSound
<1>s. \A a, b \in Nat : a + (b + 1) = (a + b) + 1 /\ (a + 1) + (b - 1) = a + b /\ (a + b) + 1 = a + (b + 1)
      OBVIOUS
<1>1. ASSUME NEW t \in Sids,
             \/ AcceptPublic(t) \/ OpenAcked(t) \/ OpenTimesOut(t) \/ ReadPublic(t)
             \/ WritePublic(t) \/ PublicDrains(t) \/ PublicEnds(t) \/ DataSenderGone(t)
      PROVE  DownloadSound(s)'
  <2>1. Quiet /\ UNCHANGED <<s2c, cStreams, sUp>>
        BY <1>1 DEF AcceptPublic, OpenAcked, OpenTimesOut, ReadPublic, WritePublic, PublicDrains, PublicEnds,
           DataSenderGone, clientVars
  <2>2. PublicSent(s)' = PublicSent(s)
        BY <1>1, <1>t, <1>c DEF AcceptPublic, OpenAcked, OpenTimesOut, ReadPublic, WritePublic, PublicDrains, PublicEnds,
           DataSenderGone, PublicSent
  <2>3. h'[s] \in {"forward", "sending", "writing"} => Forwarding \/ h[s] = "waiting"
        BY <1>1, <1>t DEF AcceptPublic, OpenAcked, OpenTimesOut, ReadPublic, WritePublic, PublicDrains, PublicEnds,
           DataSenderGone
  <2>. QED BY <1>0, <2>1, <2>2, <2>3, DownloadKept DEF Moved
<1>2. ASSUME NEW t \in Sids, SendOpen(t) \/ CloseForward(t) \/ CloseHandler(t) PROVE DownloadSound(s)'
  <2>1. Quiet /\ UNCHANGED <<cStreams, sUp>>
        BY <1>2 DEF SendOpen, CloseForward, CloseHandler, clientVars
  <2>2. /\ PublicSent(s)' = PublicSent(s)
        /\ h'[s] \in {"forward", "sending", "writing"} => Forwarding
        BY <1>2, <1>t DEF SendOpen, CloseForward, CloseHandler, PublicSent
  <2>3. PICK type \in {"Open", "Close"} : SendToClient(Frame(type, t, 0))
        BY <1>2 DEF SendOpen, CloseForward, CloseHandler
  <2>4. Frame(type, t, 0) \in FrameSet /\ Frame(type, t, 0).type # "Data"
        BY MuxAssumption, Frames
  <2>5. Moved(s2c, s2c', s)
        BY <2>3, <2>4, ServerSends DEF Moved
  <2>. QED BY <2>1, <2>2, <2>5, DownloadKept
<1>3. ASSUME NEW t \in Sids, SendPublicData(t) PROVE DownloadSound(s)'
  <2> DEFINE e == Frame("Data", t, pubRead[t])
  <2>0. pubRead[t] \in 0..Chunks /\ e \in FrameSet /\ e.type = "Data" /\ e.sid = t /\ e.n = pubRead[t]
    <3>1. pubRead[t] \in 0..Chunks
          BY DEF TypeOK
    <3>. QED BY <3>1, Frames
  <2>1. Quiet /\ UNCHANGED <<cStreams, sUp, pubRead>> /\ SendToClient(e) /\ h[t] = "sending"
        /\ h' = [h EXCEPT ![t] = IF sUp THEN "forward" ELSE "closing"]
        BY <1>3 DEF SendPublicData, clientVars
  <2>2. CASE t # s
    <3>1. Moved(s2c, s2c', s)
          BY <2>0, <2>1, <2>2, ServerSends DEF Moved
    <3>2. PublicSent(s)' = PublicSent(s) /\ h'[s] = h[s]
          BY <2>1, <2>2 DEF PublicSent
    <3>. QED BY <2>1, <3>1, <3>2, DownloadKept
  <2>3. CASE t = s /\ sUp
    <3>1. s2c' = Append(s2c, e) /\ e.sid = s /\ e.n = pubRead[s]
          BY <2>0, <2>1, <2>3 DEF SendToClient
    <3>2. /\ PublicSent(s) = pubRead[s] - 1 /\ PublicSent(s)' = pubRead[s]
          /\ Delivered(s)' = Delivered(s) /\ UNCHANGED <<locWritten[s], cData[s]>>
          BY <2>1, <2>3, <1>t DEF PublicSent, Delivered
    <3>3. Delivered(s) < e.n /\ UpTo(s2c, s, e.n - 1)
          BY <1>c, <3>1, <3>2 DEF DownloadSound
    <3>4. /\ UpTo(s2c', s, e.n) /\ Reaches(s2c', s, e.n)
          /\ Run(s2c, s, Delivered(s)) /\ (Delivered(s) = e.n - 1 \/ Reaches(s2c, s, e.n - 1)) =>
                Run(s2c', s, Delivered(s))
          BY <1>c, <2>0, <3>1, <3>3, NextChunkJoins, MuxAssumption
    <3>5. s \in cStreams => /\ Run(s2c, s, Delivered(s))
                            /\ Delivered(s) = e.n - 1 \/ Reaches(s2c, s, e.n - 1)
          BY <2>1, <2>3, <3>1, <3>2 DEF DownloadSound
    <3>. QED BY <1>c, <2>1, <3>1, <3>2, <3>3, <3>4, <3>5 DEF DownloadSound
  <2>4. CASE t = s /\ ~sUp
    <3>1. s2c' = s2c /\ h'[s] = "closing" /\ sUp' = sUp /\ cStreams' = cStreams
          BY <2>1, <2>4, <1>t DEF SendToClient
    <3>2. PublicSent(s) = pubRead[s] - 1 /\ PublicSent(s)' = pubRead[s] /\ Delivered(s)' = Delivered(s)
          BY <2>1, <2>4, <3>1 DEF PublicSent, Delivered
    <3>3. UpTo(s2c', s, PublicSent(s)')
      <4>1. \A i \in 1..Len(s2c) : s2c[i] \in FrameSet
            BY <1>c, ElementOfSeq
      <4>2. \A i \in 1..Len(s2c) : s2c[i].n \in Nat
            BY <4>1, MuxAssumption DEF FrameSet
      <4>. QED BY <1>c, <3>1, <3>2, <4>2 DEF DownloadSound, UpTo
    <3>. QED BY <1>c, <2>1, <3>1, <3>2, <3>3 DEF DownloadSound
  <2>. QED BY <2>2, <2>3, <2>4
<1>4. ASSUME DispatchData PROVE DownloadSound(s)'
  <2>1. Quiet /\ UNCHANGED <<cStreams, sUp, h, pubRead>> /\ ServerGets("Data")
        BY <1>4 DEF DispatchData, clientVars
  <2>2. Head(c2s).sid \in Sids
        BY <2>1, ServerReceives DEF FrameSet
  <2>3. /\ Frame("Close", Head(c2s).sid, 0) \in FrameSet
        /\ Frame("Close", Head(c2s).sid, 0).type # "Data"
        BY <2>2, MuxAssumption, Frames
  <2>4. Moved(s2c, s2c', s)
        BY <1>4, <2>3, ServerSends DEF DispatchData, Moved
  <2>. QED BY <2>1, <2>4, DownloadKept DEF PublicSent
<1>5. ASSUME \/ \E t \in Sids : ReadLocal(t) \/ SendLocalData(t) \/ LocalDrains(t) \/ LocalEnds(t)
                                \/ LocalSenderGone(t)
             \/ DispatchOpenAck \/ DispatchClose \/ ServerTunnelEnds \/ UNCHANGED vars
      PROVE  DownloadSound(s)'
  <2>1. Quiet /\ UNCHANGED <<s2c, cStreams, h, pubRead>> /\ (sUp' => sUp)
        BY <1>5 DEF ReadLocal, SendLocalData, LocalDrains, LocalEnds, LocalSenderGone, DispatchOpenAck,
           DispatchClose, ServerTunnelEnds, vars, serverVars, clientVars
  <2>. QED BY <2>1, DownloadKept DEF PublicSent, Moved
<1>6. ASSUME ClientOpen PROVE DownloadSound(s)'
  <2>0. ClientGets("Open") /\ UNCHANGED <<cData, locWritten, h, pubRead, sUp>>
        BY <1>6 DEF ClientOpen, serverVars
  <2>1. s2c # <<>> /\ s2c' = Tail(s2c) /\ Head(s2c) = s2c[1] /\ s2c[1].type = "Open" /\ 1 \in 1..Len(s2c)
        BY <2>0, ClientReceives
  <2>2. Moved(s2c, s2c', s) /\ PublicSent(s)' = PublicSent(s) /\ Delivered(s)' = Delivered(s)
        BY <2>0, <2>1 DEF Moved, Chunk, PublicSent, Delivered
  <2>3. CASE s \in cStreams' => s \in cStreams
        BY <2>0, <2>2, <2>3, DownloadKept
  <2>4. CASE s2c[1].sid = s
    <3>1. /\ h[s] \in {"waiting", "done"} /\ f[s] = "none" /\ pubRead[s] = 0
          BY <2>1, <2>4 DEF OpenedOnce
    <3>2. PublicSent(s) = 0 /\ Delivered(s) = 0
          BY <1>c, <3>1 DEF PublicSent, DownloadSound
    <3>3. UpTo(s2c', s, 0)
          BY <1>c, <2>2, <3>2, ChannelKept DEF DownloadSound
    <3>4. \A i \in 1..Len(s2c') : ~Chunk(s2c', s, i)
      <4>1. /\ Len(s2c) \in Nat \ {0} /\ Len(s2c') = Len(s2c) - 1
            /\ \A i \in 1..Len(s2c') : s2c'[i] = s2c[i + 1] /\ i + 1 \in 1..Len(s2c)
            BY <2>0, ClientReceives
      <4>2. \A i \in 1..Len(s2c') : s2c'[i].type = "Data" => s2c'[i].n >= 1
            BY <4>1 DEF ChunksNumbered
      <4>3. \A i \in 1..Len(s2c) : s2c[i] \in FrameSet
            BY <1>c, ElementOfSeq
      <4>4. \A i \in 1..Len(s2c') : s2c'[i].n \in Nat
            BY <4>1, <4>3, MuxAssumption DEF FrameSet
      <4>. QED BY <3>3, <4>2, <4>4 DEF UpTo, Chunk
    <3>5. Run(s2c', s, 0)
          BY <3>4 DEF Run, After, Rising
    <3>. QED BY <2>0, <2>2, <3>1, <3>2, <3>3, <3>5 DEF DownloadSound
  <2>5. s \in cStreams' => s \in cStreams \/ s2c[1].sid = s
        BY <1>6, <2>1 DEF ClientOpen
  <2>. QED BY <2>3, <2>4, <2>5
<1>7. ASSUME ClientClose PROVE DownloadSound(s)'
  <2>0. /\ ClientGets("Close") /\ cStreams' \subseteq cStreams
        /\ UNCHANGED <<cData, locWritten, h, pubRead, sUp>>
        BY <1>7 DEF ClientClose, serverVars
  <2>1. s2c # <<>> /\ s2c' = Tail(s2c) /\ s2c[1].type = "Close"
        BY <2>0, ClientReceives
  <2>. QED BY <2>0, <2>1, DownloadKept DEF Moved, Chunk, PublicSent
<1>8. ASSUME ClientData PROVE DownloadSound(s)'
  <2> DEFINE t == s2c[1].sid
  <2>0. /\ ClientGets("Data") /\ UNCHANGED <<cStreams, locWritten, h, pubRead, sUp>>
        BY <1>8 DEF ClientData, serverVars
  <2>1. /\ s2c # <<>> /\ s2c' = Tail(s2c) /\ Head(s2c) = s2c[1] /\ s2c[1].type = "Data" /\ s2c[1] \in FrameSet
        BY <2>0, ClientReceives
  <2>2. /\ t \in cStreams /\ CRxAlive(t) => cData' = [cData EXCEPT ![t] = Append(@, s2c[1])]
        /\ ~(t \in cStreams /\ CRxAlive(t)) => UNCHANGED cData
        BY <1>8, <2>1 DEF ClientData
  <2>3. PublicSent(s)' = PublicSent(s)
        BY <2>0 DEF PublicSent
  <2>4. CASE t # s
    <3>1. Moved(s2c, s2c', s) /\ Quiet
          BY <2>0, <2>1, <2>2, <2>4, <1>t DEF Moved, Chunk
    <3>. QED BY <2>0, <2>3, <3>1, DownloadKept
  <2>5. CASE t = s /\ s \notin cStreams
    <3>1. Chunk(s2c, s, 1)
          BY <2>1, <2>5 DEF Chunk
    <3>2. UpTo(s2c', s, PublicSent(s))
          BY <1>c, <2>1, <3>1, NextChunkLeaves, MuxAssumption DEF DownloadSound
    <3>3. UNCHANGED <<cData, cStreams, locWritten>> /\ Delivered(s)' = Delivered(s)
          BY <2>0, <2>2, <2>5 DEF Delivered
    <3>. QED BY <2>3, <2>5, <3>2, <3>3 DEF DownloadSound
  <2>6. CASE t = s /\ s \in cStreams
    <3>0. CRxAlive(s) /\ Chunk(s2c, s, 1) /\ Run(s2c, s, Delivered(s))
          BY <2>1, <2>6 DEF TablesHeld, Chunk, DownloadSound
    <3>1. /\ s2c[1].n = Delivered(s) + 1 /\ Run(s2c', s, Delivered(s) + 1)
          /\ s2c[1].n <= PublicSent(s) /\ UpTo(s2c', s, PublicSent(s))
          BY <1>c, <2>1, <3>0, NextChunkLeaves, MuxAssumption DEF DownloadSound
    <3>2. cData'[s] = Append(cData[s], s2c[1]) /\ cData[s] \in Seq(FrameSet)
          BY <2>2, <2>6, <3>0 DEF TypeOK
    <3>3. s2c[1] \in FrameSet
          BY <2>1
    <3>4. /\ Len(cData'[s]) = Len(cData[s]) + 1
          /\ \A i \in 1..Len(cData[s]) : cData'[s][i] = cData[s][i]
          /\ cData'[s][Len(cData[s]) + 1] = s2c[1]
          BY <3>2, <3>3, AppendProperties
    <3>5. Delivered(s)' = Delivered(s) + 1 /\ locWritten'[s] = locWritten[s]
      <4>1. Delivered(s)' = Len(locWritten'[s]) + Len(cData'[s]) /\ locWritten'[s] = locWritten[s]
            BY <2>0 DEF Delivered
      <4>2. Delivered(s) = Len(locWritten[s]) + Len(cData[s])
            BY DEF Delivered
      <4>3. Len(cData'[s]) \in Nat /\ Len(locWritten'[s]) \in Nat
            BY <1>c, <3>4, <4>1
      <4>4. Len(locWritten[s]) + (Len(cData[s]) + 1) = (Len(locWritten[s]) + Len(cData[s])) + 1
            BY <1>c, <1>s, Zenon
      <4>. QED BY <3>4, <4>1, <4>2, <4>4
    <3>6. \A i \in 1..Len(cData'[s]) : cData'[s][i].n = Len(locWritten'[s]) + i
      <4>1. Delivered(s) = Len(locWritten[s]) + Len(cData[s])
            BY DEF Delivered
      <4>2. \A i \in 1..Len(cData[s]) : cData[s][i].n = Len(locWritten[s]) + i
            BY DEF DownloadSound
      <4>3. s2c[1].n = Len(locWritten[s]) + (Len(cData[s]) + 1)
        <5>1. (Len(locWritten[s]) + Len(cData[s])) + 1 = Len(locWritten[s]) + (Len(cData[s]) + 1)
              BY <1>c, <1>s, Zenon
        <5>. QED BY <3>1, <4>1, <5>1
      <4>4. ASSUME NEW i \in 1..Len(cData'[s]) PROVE cData'[s][i].n = Len(locWritten'[s]) + i
        <5>1. i \in 1..Len(cData[s]) \/ i = Len(cData[s]) + 1
              BY <1>c, <3>4
        <5>. QED BY <3>4, <3>5, <4>2, <4>3, <5>1
      <4>. QED BY <4>4
    <3>7. s \in cStreams' /\ sUp' /\ h'[s] \in {"forward", "sending", "writing"} =>
             PublicSent(s) = Delivered(s) + 1 \/ Reaches(s2c', s, PublicSent(s))
      <4>1. Reaches(s2c, s, PublicSent(s)) => PublicSent(s) = s2c[1].n \/ Reaches(s2c', s, PublicSent(s))
            BY <1>c, <2>1, <3>0, NextChunkLeaves, MuxAssumption
      <4>2. PublicSent(s) # Delivered(s)
            BY <1>c, <3>1
      <4>. QED BY <1>c, <2>0, <3>1, <4>1, <4>2 DEF DownloadSound
    <3>. QED BY <1>c, <2>0, <2>3, <3>1, <3>5, <3>6, <3>7 DEF DownloadSound
  <2>. QED BY <2>4, <2>5, <2>6
<1>9. ASSUME NEW t \in Sids, WriteLocal(t) PROVE DownloadSound(s)'
  <2>0. UNCHANGED <<s2c, cStreams, sUp, h, pubRead>> /\ PublicSent(s)' = PublicSent(s)
        BY <1>9 DEF WriteLocal, serverVars, PublicSent
  <2>1. CASE t # s
    <3>1. Quiet
          BY <1>9, <2>1, <1>t DEF WriteLocal
    <3>. QED BY <2>0, <3>1, DownloadKept DEF Moved
  <2>2. CASE t = s
    <3>1. /\ cData[s] # <<>> /\ cData[s] \in Seq(FrameSet) /\ locWritten[s] \in Seq(FrameSet)
          /\ locWritten'[s] = Append(locWritten[s], Head(cData[s])) /\ cData'[s] = Tail(cData[s])
          BY <1>9, <2>2 DEF WriteLocal, TypeOK
    <3>2. /\ Head(cData[s]) = cData[s][1] /\ Head(cData[s]) \in FrameSet /\ Len(cData[s]) >= 1
          /\ Len(cData'[s]) = Len(cData[s]) - 1
          /\ \A i \in 1..Len(cData'[s]) : cData'[s][i] = cData[s][i + 1] /\ i + 1 \in 1..Len(cData[s])
      <4>1. Len(cData[s]) >= 1 /\ Head(cData[s]) = cData[s][1]
            BY <1>c, <3>1, EmptySeq
      <4>2. /\ Head(cData[s]) \in FrameSet /\ Len(cData'[s]) = Len(cData[s]) - 1
            /\ \A i \in 1..Len(Tail(cData[s])) : Tail(cData[s])[i] = cData[s][i + 1]
            BY <3>1, HeadTailProperties
      <4>3. \A i \in 1..Len(cData'[s]) : i + 1 \in 1..Len(cData[s])
            BY <1>c, <4>2
      <4>. QED BY <3>1, <4>1, <4>2, <4>3
    <3>3. /\ Len(locWritten'[s]) = Len(locWritten[s]) + 1
          /\ \A i \in 1..Len(locWritten[s]) : locWritten'[s][i] = locWritten[s][i]
          /\ locWritten'[s][Len(locWritten[s]) + 1] = cData[s][1]
          BY <3>1, <3>2, AppendProperties
    <3>4. cData[s][1].n = Len(locWritten[s]) + 1
          BY <1>c, <3>2 DEF DownloadSound
    <3>5. \A i \in 1..Len(locWritten'[s]) : locWritten'[s][i].n = i
      <4>1. \A i \in 1..Len(locWritten'[s]) : i \in 1..Len(locWritten[s]) \/ i = Len(locWritten[s]) + 1
            BY <1>c, <3>3
      <4>. QED BY <3>3, <3>4, <4>1 DEF DownloadSound
    <3>6. ASSUME NEW i \in 1..Len(cData'[s]) PROVE cData'[s][i].n = Len(locWritten'[s]) + i
      <4>1. cData'[s][i].n = Len(locWritten[s]) + (i + 1)
            BY <3>2 DEF DownloadSound
      <4>2. \A a \in Nat : a + (i + 1) = (a + 1) + i
            BY <1>c, <3>2
      <4>. QED BY <1>c, <3>3, <4>1, <4>2
    <3>7. Delivered(s)' = Delivered(s)
      <4>1. /\ Delivered(s)' = Len(locWritten'[s]) + Len(cData'[s])
            /\ Delivered(s) = Len(locWritten[s]) + Len(cData[s])
            BY DEF Delivered
      <4>2. (Len(locWritten[s]) + 1) + (Len(cData[s]) - 1) = Len(locWritten[s]) + Len(cData[s])
            BY <1>c, <1>s, Zenon
      <4>. QED BY <3>2, <3>3, <4>1, <4>2
    <3>. QED BY <2>0, <3>5, <3>6, <3>7 DEF DownloadSound
  <2>. QED BY <2>1, <2>2
<1>10. ASSUME NEW t \in Sids, CloseLocal(t) PROVE DownloadSound(s)'
  <2>0. /\ UNCHANGED <<s2c, locWritten, sUp, h, pubRead>> /\ cStreams' = cStreams \ {t}
        /\ cData' = [cData EXCEPT ![t] = <<>>] /\ PublicSent(s)' = PublicSent(s)
        BY <1>10 DEF CloseLocal, serverVars, PublicSent
  <2>1. CASE t # s
        BY <2>0, <2>1, <1>t, DownloadKept DEF Moved
  <2>2. CASE t = s
    <3>1. cData'[s] = <<>> /\ s \notin cStreams' /\ locWritten'[s] = locWritten[s]
          BY <2>0, <2>2, <1>t
    <3>2. Len(cData'[s]) = 0 /\ Delivered(s)' <= Delivered(s) /\ Delivered(s)' \in Nat
          BY <1>c, <3>1, EmptySeq DEF Delivered
    <3>. QED BY <1>c, <2>0, <3>1, <3>2 DEF DownloadSound
  <2>. QED BY <2>1, <2>2
<1>11. ASSUME ClientTunnelEnds PROVE DownloadSound(s)'
  <2>1. /\ s2c' = <<>> /\ cStreams' = {} /\ UNCHANGED <<cData, locWritten, h, pubRead>>
        BY <1>11 DEF ClientTunnelEnds, serverVars
  <2>. QED BY <2>1, NothingInChannel DEF DownloadSound, PublicSent, Delivered
<1>. QED BY <1>1, <1>2, <1>3, <1>4, <1>5, <1>6, <1>7, <1>8, <1>9, <1>10, <1>11
         DEF Next, ServerReader, ClientReader, Handler, Forwarder, Users
-------------------------------------------------------------------------------
\* local -> public: no step puts a stream's chunks out of their order.
LEMMA StepKeepsUpload ==
    ASSUME TypeOK, ChunksNumbered, OpenedOnce, TypeOK', [Next]_vars, NEW s \in Sids, UploadSound(s)
    PROVE  UploadSound(s)'
<1> DEFINE Quiet == UNCHANGED <<pubWritten[s], sData[s]>>
<1>t. /\ DOMAIN f = Sids /\ DOMAIN locRead = Sids /\ DOMAIN sData = Sids /\ DOMAIN pubWritten = Sids
      BY DEF TypeOK
<1>c. /\ LocalSent(s) \in Int /\ locRead[s] \in Nat /\ c2s \in Seq(FrameSet)
      /\ Len(sData[s]) \in Nat /\ Len(pubWritten[s]) \in Nat
      /\ \A i \in 1..Len(sData[s]) : sData[s][i].n \in Int
      /\ \A i \in 1..Len(pubWritten[s]) : pubWritten[s][i].n \in Int
      BY Counts
<1>k. ASSUME Moved(c2s, c2s', s), Quiet, LocalSent(s)' = LocalSent(s) PROVE UploadSound(s)'
      BY <1>c, <1>k, UploadKept
<1>1. ASSUME NEW t \in Sids,
             ReadLocal(t) \/ WriteLocal(t) \/ LocalDrains(t) \/ LocalEnds(t) \/ LocalSenderGone(t)
      PROVE  UploadSound(s)'
  <2>1. Quiet /\ UNCHANGED c2s
        BY <1>1 DEF ReadLocal, WriteLocal, LocalDrains, LocalEnds, LocalSenderGone, serverVars
  <2>2. LocalSent(s)' = LocalSent(s)
        BY <1>1, <1>t, <1>c DEF ReadLocal, WriteLocal, LocalDrains, LocalEnds, LocalSenderGone, LocalSent
  <2>. QED BY <1>k, <2>1, <2>2 DEF Moved
<1>2. ASSUME NEW t \in Sids, SendLocalData(t) PROVE UploadSound(s)'
  <2> DEFINE e == Frame("Data", t, locRead[t])
  <2>0. locRead[t] \in 0..Chunks /\ e \in FrameSet /\ e.type = "Data" /\ e.sid = t /\ e.n = locRead[t]
    <3>1. locRead[t] \in 0..Chunks
          BY DEF TypeOK
    <3>. QED BY <3>1, Frames
  <2>1. /\ Quiet /\ UNCHANGED locRead /\ SendToServer(e) /\ f[t] = "sending"
        /\ f' = [f EXCEPT ![t] = IF cUp THEN "forward" ELSE "closing"]
        BY <1>2 DEF SendLocalData, serverVars
  <2>2. CASE t # s
    <3>1. Moved(c2s, c2s', s)
          BY <2>0, <2>1, <2>2, ClientSends DEF Moved
    <3>2. LocalSent(s)' = LocalSent(s)
          BY <2>1, <2>2 DEF LocalSent
    <3>. QED BY <1>k, <2>1, <3>1, <3>2
  <2>3. CASE t = s
    <3>0. LocalSent(s) = locRead[s] - 1 /\ LocalSent(s)' = locRead[s]
          BY <2>1, <2>3, <1>t DEF LocalSent
    <3>1. CASE c2s' = c2s
      <4>1. LocalSent(s) <= LocalSent(s)' /\ LocalSent(s)' \in Int
            BY <1>c, <3>0
      <4>. QED BY <2>1, <3>1, <4>1, UploadKept DEF Moved
    <3>2. CASE c2s' = Append(c2s, e)
      <4>1. e.n = locRead[s] /\ e.sid = s /\ UpTo(c2s, s, e.n - 1)
            BY <2>0, <2>3, <3>0 DEF UploadSound
      <4>2. Rising(c2s', s) /\ UpTo(c2s', s, e.n)
            BY <1>c, <2>0, <3>2, <4>1, NextChunkJoins, MuxAssumption DEF UploadSound
      <4>3. ASSUME NEW x \in Int, x <= LocalSent(s), After(c2s, s, x)
            PROVE  x <= LocalSent(s)' /\ After(c2s', s, x)
        <5>1. x < e.n /\ x <= LocalSent(s)'
              BY <1>c, <3>0, <4>1, <4>3
        <5>. QED BY <2>0, <3>2, <4>1, <4>3, <5>1, <1>c, NextChunkJoins, MuxAssumption
      <4>4. \A i \in 1..Len(sData[s]) : sData[s][i].n <= LocalSent(s)' /\ After(c2s', s, sData[s][i].n)
            BY <1>c, <4>3 DEF UploadSound
      <4>5. \A i \in 1..Len(pubWritten[s]) :
                pubWritten[s][i].n <= LocalSent(s)' /\ After(c2s', s, pubWritten[s][i].n)
            BY <1>c, <4>3 DEF UploadSound
      <4>6. UpTo(c2s', s, LocalSent(s)')
            BY <3>0, <4>1, <4>2
      <4>. QED BY <2>1, <4>2, <4>4, <4>5, <4>6 DEF UploadSound
    <3>. QED BY <2>0, <2>1, <3>1, <3>2, ClientSends
  <2>. QED BY <2>2, <2>3
<1>3. ASSUME NEW t \in Sids, CloseLocal(t) PROVE UploadSound(s)'
  <2>1. Quiet /\ UNCHANGED locRead /\ SendToServer(Frame("Close", t, 0))
        BY <1>3 DEF CloseLocal, serverVars
  <2>2. Frame("Close", t, 0) \in FrameSet /\ Frame("Close", t, 0).type # "Data"
        BY MuxAssumption, Frames
  <2>3. Moved(c2s, c2s', s)
        BY <2>1, <2>2, ClientSends DEF Moved
  <2>4. LocalSent(s)' = LocalSent(s)
        BY <1>3, <1>t DEF CloseLocal, LocalSent
  <2>. QED BY <1>k, <2>1, <2>3, <2>4
<1>4. ASSUME ClientOpen PROVE UploadSound(s)'
  <2>0. ClientGets("Open") /\ Quiet /\ UNCHANGED locRead
        BY <1>4 DEF ClientOpen, serverVars
  <2>1. /\ Head(s2c) = s2c[1] /\ s2c[1].type = "Open" /\ 1 \in 1..Len(s2c)
        /\ s2c[1].sid \in Sids
        BY <2>0, ClientReceives DEF FrameSet
  <2>2. f[s2c[1].sid] = "none"
        BY <2>1 DEF OpenedOnce
  <2>3. f' = [f EXCEPT ![s2c[1].sid] = "forward"] \/ UNCHANGED f
        BY <1>4, <2>1 DEF ClientOpen
  <2>4. LocalSent(s)' = LocalSent(s)
        BY <2>0, <2>2, <2>3, <1>t DEF LocalSent
  <2>5. PICK type \in {"ok", "nack"} : SendToServer(Frame(type, s2c[1].sid, 0))
        BY <1>4, <2>1 DEF ClientOpen
  <2>6. Frame(type, s2c[1].sid, 0) \in FrameSet /\ Frame(type, s2c[1].sid, 0).type # "Data"
        BY <2>1, MuxAssumption, Frames
  <2>7. Moved(c2s, c2s', s)
        BY <2>5, <2>6, ClientSends DEF Moved
  <2>. QED BY <1>k, <2>0, <2>4, <2>7
<1>5. ASSUME DispatchOpenAck \/ DispatchClose PROVE UploadSound(s)'
  <2>1. PICK type \in {"ok", "nack", "Close"} : ServerGets(type)
        BY <1>5 DEF DispatchOpenAck, DispatchClose
  <2>2. c2s # <<>> /\ c2s' = Tail(c2s) /\ c2s[1].type # "Data"
        BY <2>1, ServerReceives
  <2>3. Quiet /\ UNCHANGED <<f, locRead>>
        BY <1>5 DEF DispatchOpenAck, DispatchClose, clientVars
  <2>. QED BY <1>k, <2>2, <2>3 DEF Moved, Chunk, LocalSent
<1>6. ASSUME DispatchData PROVE UploadSound(s)'
  <2> DEFINE t == c2s[1].sid
  <2>0. ServerGets("Data") /\ UNCHANGED <<pubWritten, f, locRead>>
        BY <1>6 DEF DispatchData, clientVars
  <2>1. /\ c2s # <<>> /\ c2s' = Tail(c2s) /\ Head(c2s) = c2s[1] /\ c2s[1].type = "Data"
        /\ c2s[1] \in FrameSet /\ 1 \in 1..Len(c2s)
        BY <2>0, ServerReceives
  <2>2. sData' = [sData EXCEPT ![t] = Append(@, c2s[1])] \/ UNCHANGED sData
        BY <1>6, <2>1 DEF DispatchData
  <2>3. LocalSent(s)' = LocalSent(s)
        BY <2>0 DEF LocalSent
  <2>4. CASE t # s
    <3>1. Moved(c2s, c2s', s) /\ Quiet
          BY <2>0, <2>1, <2>2, <2>4, <1>t DEF Moved, Chunk
    <3>. QED BY <1>k, <2>3, <3>1
  <2>5. CASE t = s
    <3>0. Chunk(c2s, s, 1)
          BY <2>1, <2>5 DEF Chunk
    <3>1. /\ Rising(c2s', s) /\ After(c2s', s, c2s[1].n)
          /\ c2s[1].n <= LocalSent(s) /\ UpTo(c2s', s, LocalSent(s))
          BY <1>c, <2>1, <3>0, NextChunkLeaves, MuxAssumption DEF UploadSound
    <3>2. \A x \in Int : After(c2s, s, x) => x < c2s[1].n /\ After(c2s', s, x)
          BY <1>c, <2>1, <3>0, NextChunkLeaves, MuxAssumption
    <3>3. /\ \A i \in 1..Len(sData[s]) : sData[s][i].n < c2s[1].n /\ After(c2s', s, sData[s][i].n)
          /\ \A i \in 1..Len(pubWritten[s]) : pubWritten[s][i].n < c2s[1].n /\ After(c2s', s, pubWritten[s][i].n)
          BY <1>c, <3>2 DEF UploadSound
    <3>4. CASE UNCHANGED sData
          BY <2>0, <2>3, <3>1, <3>3, <3>4 DEF UploadSound
    <3>5. CASE sData' = [sData EXCEPT ![t] = Append(@, c2s[1])]
      <4>1. sData'[s] = Append(sData[s], c2s[1]) /\ sData[s] \in Seq(FrameSet)
            BY <2>5, <3>5 DEF TypeOK
      <4>2. c2s[1] \in FrameSet
            BY <2>1
      <4>3. /\ Len(sData'[s]) = Len(sData[s]) + 1
            /\ \A i \in 1..Len(sData[s]) : sData'[s][i] = sData[s][i]
            /\ sData'[s][Len(sData[s]) + 1] = c2s[1]
            BY <4>1, <4>2, AppendProperties
      <4>4. \A i \in 1..Len(sData'[s]) : i \in 1..Len(sData[s]) \/ i = Len(sData[s]) + 1
            BY <1>c, <4>3
      <4>5. \A i \in 1..Len(sData'[s]) : sData'[s][i].n <= LocalSent(s) /\ After(c2s', s, sData'[s][i].n)
            BY <3>1, <3>3, <4>3, <4>4 DEF UploadSound
      <4>6. \A i \in 1..Len(pubWritten[s]), j \in 1..Len(sData'[s]) : pubWritten[s][i].n < sData'[s][j].n
            BY <3>3, <4>3, <4>4 DEF UploadSound
      <4>7. Climbs(sData'[s])
        <5> SUFFICES ASSUME NEW i \in 1..Len(sData'[s]), NEW j \in 1..Len(sData'[s]), i < j
                     PROVE  sData'[s][i].n < sData'[s][j].n
            BY DEF Climbs
        <5>1. i \in 1..Len(sData[s])
              BY <1>c, <4>3
        <5>. QED BY <3>3, <4>3, <4>4, <5>1 DEF UploadSound, Climbs
      <4>. QED BY <2>0, <2>3, <3>1, <3>3, <4>5, <4>6, <4>7 DEF UploadSound
    <3>. QED BY <2>2, <3>4, <3>5
  <2>. QED BY <2>4, <2>5
<1>7. ASSUME NEW t \in Sids, WritePublic(t) PROVE UploadSound(s)'
  <2>0. UNCHANGED <<c2s, f, locRead>> /\ LocalSent(s)' = LocalSent(s)
        BY <1>7 DEF WritePublic, clientVars, LocalSent
  <2>1. CASE t # s
    <3>1. Quiet
          BY <1>7, <2>1, <1>t DEF WritePublic
    <3>. QED BY <1>k, <2>0, <3>1 DEF Moved
  <2>2. CASE t = s
    <3>1. /\ sData[s] # <<>> /\ sData[s] \in Seq(FrameSet) /\ pubWritten[s] \in Seq(FrameSet)
          /\ pubWritten'[s] = Append(pubWritten[s], Head(sData[s])) /\ sData'[s] = Tail(sData[s])
          BY <1>7, <2>2 DEF WritePublic, TypeOK
    <3>2. Head(sData[s]) = sData[s][1] /\ Len(sData[s]) >= 1 /\ 1 \in 1..Len(sData[s])
          BY <1>c, <3>1, EmptySeq
    <3>3. /\ Head(sData[s]) \in FrameSet /\ Len(sData'[s]) = Len(sData[s]) - 1
          /\ \A i \in 1..Len(sData'[s]) : sData'[s][i] = sData[s][i + 1]
      <4>1. /\ Head(sData[s]) \in FrameSet /\ Len(Tail(sData[s])) = Len(sData[s]) - 1
            /\ \A i \in 1..Len(Tail(sData[s])) : Tail(sData[s])[i] = sData[s][i + 1]
            BY <3>1, HeadTailProperties
      <4>. QED BY <3>1, <4>1
    <3>4. \A i \in 1..Len(sData'[s]) : i + 1 \in 1..Len(sData[s]) /\ 1 < i + 1
          BY <1>c, <3>3
    <3>5. /\ Len(pubWritten'[s]) = Len(pubWritten[s]) + 1
          /\ \A i \in 1..Len(pubWritten[s]) : pubWritten'[s][i] = pubWritten[s][i]
          /\ pubWritten'[s][Len(pubWritten[s]) + 1] = sData[s][1]
          BY <3>1, <3>2, <3>3, AppendProperties
    <3>6. \A i \in 1..Len(pubWritten'[s]) : i \in 1..Len(pubWritten[s]) \/ i = Len(pubWritten[s]) + 1
          BY <1>c, <3>5
    <3>7. Climbs(pubWritten'[s])
      <4> SUFFICES ASSUME NEW i \in 1..Len(pubWritten'[s]), NEW j \in 1..Len(pubWritten'[s]), i < j
                   PROVE  pubWritten'[s][i].n < pubWritten'[s][j].n
          BY DEF Climbs
      <4>1. i \in 1..Len(pubWritten[s])
            BY <1>c, <3>5
      <4>. QED BY <3>2, <3>5, <3>6, <4>1 DEF UploadSound, Climbs
    <3>8. Climbs(sData'[s])
      <4> SUFFICES ASSUME NEW i \in 1..Len(sData'[s]), NEW j \in 1..Len(sData'[s]), i < j
                   PROVE  sData'[s][i].n < sData'[s][j].n
          BY DEF Climbs
      <4>1. i + 1 < j + 1
            BY <1>c, <3>3
      <4>. QED BY <3>3, <3>4, <4>1 DEF UploadSound, Climbs
    <3>9. ASSUME NEW i \in 1..Len(pubWritten'[s])
          PROVE  /\ pubWritten'[s][i].n <= LocalSent(s) /\ After(c2s, s, pubWritten'[s][i].n)
                 /\ \A j \in 1..Len(sData'[s]) : pubWritten'[s][i].n < sData'[s][j].n
      <4>1. CASE i \in 1..Len(pubWritten[s])
            BY <3>3, <3>4, <3>5, <4>1 DEF UploadSound
      <4>2. CASE i = Len(pubWritten[s]) + 1
            BY <3>2, <3>3, <3>4, <3>5, <4>2 DEF UploadSound, Climbs
      <4>. QED BY <3>6, <4>1, <4>2
    <3>10. \A j \in 1..Len(sData'[s]) : sData'[s][j].n <= LocalSent(s) /\ After(c2s, s, sData'[s][j].n)
          BY <3>3, <3>4 DEF UploadSound
    <3>. QED BY <2>0, <3>7, <3>8, <3>9, <3>10 DEF UploadSound
  <2>. QED BY <2>1, <2>2
<1>8. ASSUME NEW t \in Sids, CloseForward(t) PROVE UploadSound(s)'
  <2>0. /\ UNCHANGED <<c2s, f, locRead, pubWritten>> /\ LocalSent(s)' = LocalSent(s)
        /\ sData' = [sData EXCEPT ![t] = <<>>]
        BY <1>8 DEF CloseForward, clientVars, LocalSent
  <2>1. CASE t # s
        BY <1>k, <2>0, <2>1, <1>t DEF Moved
  <2>2. CASE t = s
    <3>1. sData'[s] = <<>> /\ Len(<<>>) = 0
          BY <2>0, <2>2, <1>t, EmptySeq
    <3>2. 1..Len(sData'[s]) = {}
          BY <3>1
    <3>. QED BY <2>0, <3>2 DEF UploadSound, Climbs
  <2>. QED BY <2>1, <2>2
<1>9. ASSUME ServerTunnelEnds PROVE UploadSound(s)'
  <2>1. c2s' = <<>> /\ UNCHANGED <<f, locRead, pubWritten, sData>>
        BY <1>9 DEF ServerTunnelEnds, serverVars, clientVars
  <2>. QED BY <2>1, NothingInChannel DEF UploadSound, LocalSent
<1>10. ASSUME \/ \E t \in Sids : \/ AcceptPublic(t) \/ SendOpen(t) \/ OpenAcked(t) \/ OpenTimesOut(t)
                                 \/ ReadPublic(t) \/ SendPublicData(t) \/ PublicDrains(t) \/ PublicEnds(t)
                                 \/ DataSenderGone(t) \/ CloseHandler(t)
              \/ ClientData \/ ClientClose \/ ClientTunnelEnds \/ UNCHANGED vars
      PROVE  UploadSound(s)'
  <2>1. Quiet /\ UNCHANGED <<c2s, f, locRead>>
        BY <1>10 DEF AcceptPublic, SendOpen, OpenAcked, OpenTimesOut, ReadPublic, SendPublicData, PublicDrains,
           PublicEnds, DataSenderGone, CloseHandler, ClientData, ClientClose, ClientTunnelEnds,
           vars, serverVars, clientVars
  <2>. QED BY <1>k, <2>1 DEF LocalSent, Moved
<1>. QED BY <1>1, <1>2, <1>3, <1>4, <1>5, <1>6, <1>7, <1>8, <1>9, <1>10
         DEF Next, ServerReader, ClientReader, Handler, Forwarder, Users
-------------------------------------------------------------------------------
\* Every reachable state satisfies the inductive invariant of the streams.
THEOREM StreamInvariance == Spec => []IInv
<1>1. Init => IInv
  <2> SUFFICES ASSUME Init PROVE IInv
      OBVIOUS
  <2>0. Len(<<>>) = 0 /\ <<>> \in Seq(FrameSet)
        BY EmptySeq
  <2>1. TypeOK
    <3>1. /\ sData \in [Sids -> Seq(FrameSet)] /\ cData \in [Sids -> Seq(FrameSet)]
          /\ pubWritten \in [Sids -> Seq(FrameSet)] /\ locWritten \in [Sids -> Seq(FrameSet)]
          /\ \A s \in Sids : Len(sData[s]) <= DataCap /\ Len(cData[s]) <= DataCap
          BY <2>0, MuxAssumption DEF Init
    <3>2. /\ s2c \in Seq(FrameSet) /\ Len(s2c) <= WireCap /\ c2s \in Seq(FrameSet) /\ Len(c2s) <= WireCap
          BY <2>0, MuxAssumption DEF Init
    <3>3. pubRead \in [Sids -> 0..Chunks] /\ locRead \in [Sids -> 0..Chunks]
          BY MuxAssumption DEF Init
    <3>. QED BY <3>1, <3>2, <3>3 DEF Init, TypeOK, HandlerStates, ForwarderStates
  <2>2. ChunksNumbered /\ TablesHeld /\ OpenedOnce
        BY <2>0 DEF Init, ChunksNumbered, TablesHeld, OpenedOnce, PublicSent, LocalSent
  <2>3. ASSUME NEW s \in Sids PROVE OwnChunks(s) /\ DownloadSound(s) /\ UploadSound(s)
    <3>1. /\ s2c = <<>> /\ c2s = <<>> /\ locWritten[s] = <<>> /\ cData[s] = <<>>
          /\ pubWritten[s] = <<>> /\ sData[s] = <<>> /\ pubRead[s] = 0 /\ locRead[s] = 0
          /\ cStreams = {} /\ h[s] = "new" /\ f[s] = "none"
          BY DEF Init
    <3>2. 1..Len(<<>>) = {} /\ Delivered(s) = 0 /\ PublicSent(s) = 0
          BY <2>0, <3>1 DEF Delivered, PublicSent
    <3>. QED BY <3>1, <3>2, NothingInChannel DEF OwnChunks, DownloadSound, UploadSound, Climbs
  <2>. QED BY <2>1, <2>2, <2>3 DEF IInv
<1>2. IInv /\ [Next]_vars => IInv'
  <2> SUFFICES ASSUME IInv, [Next]_vars PROVE IInv'
      OBVIOUS
  <2>1. TypeOK' /\ ChunksNumbered' /\ TablesHeld'
        BY StepKeepsTypes, StepKeepsNumbers, StepKeepsTables DEF IInv
  <2>2. OpenedOnce'
        BY <2>1, StepKeepsOpening DEF IInv
  <2>3. \A s \in Sids : OwnChunks(s)' /\ DownloadSound(s)' /\ UploadSound(s)'
        BY <2>1, StepKeepsOwn, StepKeepsDownload, StepKeepsUpload DEF IInv
  <2>. QED BY <2>1, <2>2, <2>3 DEF IInv
<1>. QED BY <1>1, <1>2, PTL DEF Spec

\* Every variable of the streams keeps its type, and no channel outgrows its
\* bound: a sender waits for room, or fails.
THEOREM StreamTypes == Spec => []TypeOK
<1>1. IInv => TypeOK
      BY DEF IInv
<1>. QED BY <1>1, StreamInvariance, PTL

\* What the local target receives on a stream is the beginning of what the
\* public peer sent on it, and what the public peer receives are chunks of the
\* same stream, in order and none twice.
THEOREM OrderOfStreams == Spec => []StreamsInOrder
<1>1. IInv => StreamsInOrder
  <2> SUFFICES ASSUME IInv, NEW s \in Sids
               PROVE  IsPrefix(s, locWritten[s], pubRead[s]) /\ IsInOrder(s, pubWritten[s])
      BY DEF StreamsInOrder
  <2>1. OwnChunks(s) /\ DownloadSound(s) /\ UploadSound(s) /\ TypeOK
        BY DEF IInv
  <2>2. /\ Len(locWritten[s]) \in Nat /\ Len(cData[s]) \in Nat /\ pubRead[s] \in Nat
        /\ Delivered(s) = Len(locWritten[s]) + Len(cData[s])
        BY <2>1, Counts DEF Delivered
  <2>3. PublicSent(s) \in Int /\ PublicSent(s) <= pubRead[s]
        BY <2>2 DEF PublicSent
  <2>4. \A a, b \in Nat, c, d \in Int : a + b <= c /\ c <= d => a <= d
        OBVIOUS
  <2>5. Len(locWritten[s]) + Len(cData[s]) <= PublicSent(s)
        BY <2>1, <2>2 DEF DownloadSound
  <2>6. pubRead[s] \in Int
        BY <2>2
  <2>7. Len(locWritten[s]) <= pubRead[s]
        BY <2>2, <2>3, <2>4, <2>5, <2>6, Zenon
  <2>. QED BY <2>1, <2>7 DEF IsPrefix, IsInOrder, OwnChunks, DownloadSound, UploadSound, Climbs
<1>. QED BY <1>1, StreamInvariance, PTL

\* A handler that has returned has left both of the session's tables.
THEOREM TablesClean == Spec => []ReturnedHandlerLeavesNothing
<1>1. IInv => ReturnedHandlerLeavesNothing
      BY DEF IInv, TablesHeld, SRxAlive, ReturnedHandlerLeavesNothing
<1>. QED BY <1>1, StreamInvariance, PTL
===============================================================================
