------------------------------ MODULE ClientProofs ------------------------------
(***************************************************************************)
(* Proofs about the client's end of a tunnel.                              *)
(*                                                                         *)
(* ClientLink with FrameCodec: decode undoes encode wherever the bytes     *)
(* that have arrived end, so the frames that the client handles are those  *)
(* the server wrote, for any reads, breaks, padding, tokens and number of  *)
(* frames; a client that takes itself for connected was accepted; and run  *)
(* counts its attempts and waits as configured.                            *)
(*                                                                         *)
(* Heartbeat: how long the server bears a silent client, for any range of  *)
(* intervals, miss limit, check period and network; and that neither end   *)
(* gives the other up while round trips are short.                         *)
(***************************************************************************)
EXTENDS ClientLink, Heartbeat, SequenceTheorems, TLAPS

\* Frames whose payload and padding are made of the cells of a set.
FramesOver(C) == [type : FrameTypes, stream_id : Nat, payload : Seq(C), padding : Seq(C)]

\* The cells of an encoded frame but for its checksum, and all of them.
Fields(f, C) == C \cup {MAGIC, VERSION, <<TypeByte[f.type]>>, <<f.stream_id>>, <<Len(f.payload)>>,
                        <<Len(f.padding)>>}
Body(f) == SubSeq(encode(f), 1, Len(encode(f)) - 1)
Cells(f, C) == Fields(f, C) \cup {crc32(Body(f))}
-------------------------------------------------------------------------------
\* The type byte of a frame tells its type.
LEMMA TypesDiffer == \A s, t \in FrameTypes : TypeByte[s] = TypeByte[t] => s = t
BY DEF FrameTypes, TypeByte

\* What is joined stands where it stood, behind what comes before it.
LEMMA Joined ==
    ASSUME NEW S, NEW s \in Seq(S), NEW t \in Seq(S)
    PROVE  /\ s \o t \in Seq(S) /\ Len(s) \in Nat /\ Len(t) \in Nat
           /\ Len(s \o t) = Len(s) + Len(t)
           /\ \A i \in 1..Len(s) : (s \o t)[i] = s[i]
           /\ \A i \in 1..Len(t) : (s \o t)[Len(s) + i] = t[i]
<1>1. Len(s) \in Nat /\ Len(t) \in Nat
      BY LenProperties
<1>2. /\ s \o t \in Seq(S) /\ Len(s \o t) = Len(s) + Len(t)
      /\ \A i \in 1..Len(s) + Len(t) : (s \o t)[i] = IF i <= Len(s) THEN s[i] ELSE t[i - Len(s)]
      BY ConcatProperties
<1>3. ASSUME NEW i \in 1..Len(s) PROVE i \in 1..Len(s) + Len(t) /\ i <= Len(s)
      BY <1>1
<1>4. ASSUME NEW i \in 1..Len(t)
      PROVE  Len(s) + i \in 1..Len(s) + Len(t) /\ ~(Len(s) + i <= Len(s)) /\ (Len(s) + i) - Len(s) = i
      BY <1>1
<1>. QED BY <1>1, <1>2, <1>3, <1>4

\* Where encode puts the fields of a frame whose padding fits its length field.
LEMMA Layout ==
    ASSUME NEW C, NEW f \in FramesOver(C), Len(f.padding) < U16
    PROVE  LET p == Len(f.payload)
               q == Len(f.padding)
               e == encode(f)
           IN  /\ p \in Nat /\ q \in Nat /\ Len(e) = p + q + 7
               /\ e[1] = MAGIC /\ e[2] = VERSION /\ e[3] = <<TypeByte[f.type]>>
               /\ e[4] = <<f.stream_id>> /\ e[5] = <<p>>
               /\ \A i \in 1..p : e[5 + i] = f.payload[i]
               /\ e[6 + p] = <<q>>
               /\ \A i \in 1..q : e[6 + p + i] = f.padding[i]
               /\ Body(f) \in Seq(Fields(f, C)) /\ Len(Body(f)) = p + q + 6
               /\ \A i \in 1..(p + q + 6) : Body(f)[i] = e[i]
               /\ e[p + q + 7] = crc32(Body(f))
               /\ e \in Seq(Cells(f, C))
<1> DEFINE F == Fields(f, C)
           p == Len(f.payload)
           q == Len(f.padding)
           e == encode(f)
           payload == f.payload
           padding == f.padding
           h == <<MAGIC, VERSION, <<TypeByte[f.type]>>, <<f.stream_id>>, <<p>>>>
           w == <<<<q % U16>>>>
           hp == h \o payload
           hpw == hp \o w
           b == hpw \o padding
<1>1. /\ payload \in Seq(F) /\ p = Len(payload) /\ p \in Nat
      /\ padding \in Seq(F) /\ q = Len(padding) /\ q \in Nat
  <2>1. f.payload \in Seq(C) /\ f.padding \in Seq(C)
        BY DEF FramesOver
  <2>2. C \subseteq F
        BY DEF Fields
  <2>. QED BY <2>1, <2>2, SeqMonotonic, LenProperties
<1>2. /\ h \in Seq(F) /\ Len(h) = 5
      /\ h[1] = MAGIC /\ h[2] = VERSION /\ h[3] = <<TypeByte[f.type]>> /\ h[4] = <<f.stream_id>> /\ h[5] = <<p>>
  <2>1. MAGIC \in F /\ VERSION \in F /\ <<TypeByte[f.type]>> \in F /\ <<f.stream_id>> \in F /\ <<p>> \in F
        BY DEF Fields
  <2> HIDE DEF F, p
  <2>. QED BY <2>1
<1>3. w \in Seq(F) /\ Len(w) = 1 /\ w[1] = <<q>>
  <2>1. q % U16 = q
    <3>1. \A m, n \in Nat : m < n => m % n = m
          OBVIOUS
    <3>. QED BY <1>1, <3>1, CodecAssumption, Zenon
  <2>2. <<q>> \in F
        BY DEF Fields
  <2>. QED BY <2>1, <2>2
<1> HIDE DEF F, p, q, h, w, payload, padding
<1>a. p \in Nat /\ q \in Nat
      BY <1>1
<1>s. payload \in Seq(F) /\ padding \in Seq(F) /\ h \in Seq(F) /\ w \in Seq(F)
      BY <1>1, <1>2, <1>3
<1>4. /\ hp \in Seq(F) /\ Len(hp) = 5 + p
      /\ \A i \in 1..5 : hp[i] = h[i]
      /\ \A i \in 1..p : hp[5 + i] = payload[i]
  <2>1. /\ hp \in Seq(F) /\ Len(hp) = Len(h) + Len(payload)
        /\ \A i \in 1..Len(h) : hp[i] = h[i]
        /\ \A i \in 1..Len(payload) : hp[Len(h) + i] = payload[i]
        BY <1>s, Joined DEF hp
  <2>. QED BY <1>1, <1>2, <2>1
<1> HIDE DEF hp
<1>5. /\ hpw \in Seq(F) /\ Len(hpw) = 6 + p
      /\ \A i \in 1..(5 + p) : hpw[i] = hp[i]
      /\ hpw[6 + p] = w[1]
  <2>0. hp \in Seq(F)
        BY <1>4
  <2>1. /\ hpw \in Seq(F) /\ Len(hpw) = Len(hp) + Len(w)
        /\ \A i \in 1..Len(hp) : hpw[i] = hp[i]
        /\ \A i \in 1..Len(w) : hpw[Len(hp) + i] = w[i]
        BY <1>s, <2>0, Joined DEF hpw
  <2>2. (5 + p) + 1 = 6 + p /\ 1 \in 1..Len(w)
        BY <1>1, <1>3
  <2>. QED BY <1>3, <1>4, <2>1, <2>2
<1> HIDE DEF hpw
<1>6. /\ b \in Seq(F) /\ Len(b) = (6 + p) + q
      /\ \A i \in 1..(6 + p) : b[i] = hpw[i]
      /\ \A i \in 1..q : b[6 + p + i] = padding[i]
  <2>0. hpw \in Seq(F)
        BY <1>5
  <2>1. /\ b \in Seq(F) /\ Len(b) = Len(hpw) + Len(padding)
        /\ \A i \in 1..Len(hpw) : b[i] = hpw[i]
        /\ \A i \in 1..Len(padding) : b[Len(hpw) + i] = padding[i]
        BY <1>s, <2>0, Joined DEF b
  <2>. QED BY <1>1, <1>5, <2>1
<1>7. e = Append(b, crc32(b))
      BY DEF encode, b, hpw, hp, h, w, p, q, payload, padding
<1>8. /\ e \in Seq(Cells(f, C)) /\ Len(e) = (6 + p) + q + 1 /\ Body(f) = b
      /\ \A i \in 1..(6 + p + q) : e[i] = b[i]
      /\ e[6 + p + q + 1] = crc32(b)
  <2> DEFINE D == F \cup {crc32(b)}
  <2>1. b \in Seq(D) /\ crc32(b) \in D
        BY <1>6, SeqMonotonic
  <2> HIDE DEF D
  <2>2. /\ Append(b, crc32(b)) \in Seq(D) /\ Len(Append(b, crc32(b))) = Len(b) + 1
        /\ \A i \in 1..Len(b) : Append(b, crc32(b))[i] = b[i]
        /\ Append(b, crc32(b))[Len(b) + 1] = crc32(b)
        BY <2>1, AppendProperties
  <2> HIDE DEF b
  <2>3. e \in Seq(D) /\ Len(e) = Len(b) + 1 /\ (\A i \in 1..Len(b) : e[i] = b[i]) /\ e[Len(b) + 1] = crc32(b)
        BY <1>7, <2>2
  <2>4. Body(f) = b
    <3> DEFINE n == Len(b)
    <3>1. n \in Nat /\ n - 1 + 1 = n /\ Len(e) - 1 = n
          BY <1>1, <1>6, <2>3
    <3>2. \A i \in 1..n : e[i] \in F
          BY <1>6, <2>3, ElementOfSeq
    <3> HIDE DEF n, b, e
    <3>3. /\ SubSeq(e, 1, n) \in Seq(F) /\ Len(SubSeq(e, 1, n)) = n
          /\ \A i \in 1..n : SubSeq(e, 1, n)[i] = e[i]
      <4>1. /\ SubSeq(e, 1, n) \in Seq(F)
            /\ Len(SubSeq(e, 1, n)) = IF 1 <= n THEN n - 1 + 1 ELSE 0
            /\ \A i \in 1..n - 1 + 1 : SubSeq(e, 1, n)[i] = e[1 + i - 1]
            BY <3>1, <3>2, SubSeqProperties
      <4>. QED BY <3>1, <4>1
    <3>4. SubSeq(e, 1, n) = b
          BY <1>6, <2>3, <3>3, SeqEqual DEF n
    <3>. QED BY <3>1, <3>4 DEF Body, e
  <2>5. D = Cells(f, C)
        BY <2>4 DEF D, F, Cells
  <2>. QED BY <1>1, <1>6, <2>3, <2>4, <2>5
<1> HIDE DEF b, e
<1>9. \A i \in 1..5 : e[i] = h[i]
  <2>1. \A i \in 1..5 : i \in 1..(5 + p) /\ i \in 1..(6 + p) /\ i \in 1..(6 + p + q)
        BY <1>a
  <2>. QED BY <1>4, <1>5, <1>6, <1>8, <2>1
<1>10. \A i \in 1..p : e[5 + i] = payload[i]
  <2>1. \A i \in 1..p : 5 + i \in 1..(5 + p) /\ 5 + i \in 1..(6 + p) /\ 5 + i \in 1..(6 + p + q)
        BY <1>a
  <2>. QED BY <1>4, <1>5, <1>6, <1>8, <2>1
<1>11. e[6 + p] = <<q>>
  <2>1. 6 + p \in 1..(6 + p) /\ 6 + p \in 1..(6 + p + q)
        BY <1>a
  <2>. QED BY <1>3, <1>5, <1>6, <1>8, <2>1
<1>12. \A i \in 1..q : e[6 + p + i] = padding[i]
  <2>1. \A i \in 1..q : 6 + p + i \in 1..(6 + p + q)
        BY <1>a
  <2>. QED BY <1>6, <1>8, <2>1
<1>13. p + q + 7 = 6 + p + q + 1 /\ p + q + 6 = 6 + p + q
      BY <1>a
<1>14. Body(f) \in Seq(F) /\ Len(Body(f)) = p + q + 6 /\ \A i \in 1..(p + q + 6) : Body(f)[i] = e[i]
      BY <1>6, <1>8, <1>13
<1>15. Len(e) = p + q + 7 /\ e[p + q + 7] = crc32(Body(f)) /\ e \in Seq(Cells(f, C))
      BY <1>8, <1>13
<1>16. /\ e[1] = MAGIC /\ e[2] = VERSION /\ e[3] = <<TypeByte[f.type]>>
       /\ e[4] = <<f.stream_id>> /\ e[5] = <<p>>
       BY <1>2, <1>9
<1>. QED BY <1>1, <1>10, <1>11, <1>12, <1>14, <1>15, <1>16 DEF e, p, q, F, payload, padding

\* decode undoes encode, wherever the bytes that have arrived end: it waits for
\* the rest of a frame, and takes exactly the frame once it is there.
THEOREM RoundTrip ==
    ASSUME NEW C, NEW f \in FramesOver(C), Len(f.padding) < U16,
           NEW D, NEW b \in Seq(D),
           \A i \in 1..Len(b) : i <= Len(encode(f)) => b[i] = encode(f)[i]
    PROVE  /\ Len(b) < Len(encode(f)) => decode(b) = [result |-> "none"]
           /\ Len(b) >= Len(encode(f)) =>
                 decode(b) = [result |-> "frame", frame |-> f,
                              rest |-> SubSeq(b, Len(encode(f)) + 1, Len(b))]
<1> DEFINE e == encode(f)
           p == Len(f.payload)
           q == Len(f.padding)
<1>1. /\ p \in Nat /\ q \in Nat /\ Len(e) = p + q + 7
      /\ e[1] = MAGIC /\ e[2] = VERSION /\ e[3] = <<TypeByte[f.type]>>
      /\ e[4] = <<f.stream_id>> /\ e[5] = <<p>>
      /\ \A i \in 1..p : e[5 + i] = f.payload[i]
      /\ e[6 + p] = <<q>>
      /\ \A i \in 1..q : e[6 + p + i] = f.padding[i]
      BY Layout
<1>2. /\ Body(f) \in Seq(Fields(f, C)) /\ Len(Body(f)) = p + q + 6
      /\ \A i \in 1..(p + q + 6) : Body(f)[i] = e[i]
      /\ e[p + q + 7] = crc32(Body(f))
      BY Layout
<1>3. f.type \in FrameTypes /\ f.payload \in Seq(C) /\ f.padding \in Seq(C)
      BY DEF FramesOver
<1>4. Len(b) \in Nat
      BY LenProperties
<1>5. \A i \in 1..Len(b) : i <= Len(e) => b[i] = e[i]
      OBVIOUS
<1>6. f = [type |-> f.type, stream_id |-> f.stream_id, payload |-> f.payload, padding |-> f.padding]
      BY DEF FramesOver
<1> HIDE DEF e, p, q
<1>a. p \in Nat /\ q \in Nat
      BY <1>1
<1>7. CASE Len(b) < HEADER_LEN
      BY <1>1, <1>4, <1>7 DEF decode, HEADER_LEN, e
<1>8. ASSUME Len(b) >= HEADER_LEN
      PROVE  /\ HeaderValid(b) /\ PaddingLenAt(b) = 6 + p
             /\ b[4] = <<f.stream_id>> /\ b[3] = <<TypeByte[f.type]>>
  <2>1. 5 <= Len(b) /\ \A i \in 1..5 : i \in 1..Len(b) /\ i <= Len(e)
        BY <1>1, <1>4, <1>8 DEF HEADER_LEN
  <2>2. b[1] = e[1] /\ b[2] = e[2] /\ b[3] = e[3] /\ b[4] = e[4] /\ b[5] = e[5]
        BY <1>5, <2>1
  <2>3. b[5][1] = p
        BY <1>1, <2>2
  <2>4. HeaderValid(b)
        BY <1>1, <1>3, <2>2 DEF HeaderValid
  <2>5. PaddingLenAt(b) = 6 + p
    <3>1. 5 + p + 1 = 6 + p
          BY <1>a
    <3>. QED BY <2>3, <3>1 DEF PaddingLenAt, HEADER_LEN
  <2>. QED BY <1>1, <2>2, <2>4, <2>5
<1>9. CASE Len(b) >= HEADER_LEN /\ Len(b) < 6 + p
  <2>1. ~Complete(b) /\ Len(b) < Len(e)
        BY <1>1, <1>4, <1>8, <1>9 DEF Complete
  <2>. QED BY <1>8, <1>4, <1>9, <2>1 DEF decode, HEADER_LEN, e
<1>10. ASSUME Len(b) >= 6 + p PROVE Len(b) >= HEADER_LEN /\ FrameLen(b) = p + q + 7
  <2>1. Len(b) >= HEADER_LEN /\ 6 + p \in 1..Len(b) /\ 6 + p <= Len(e)
        BY <1>1, <1>4, <1>10 DEF HEADER_LEN
  <2>2. b[6 + p][1] = q
        BY <1>1, <1>5, <2>1
  <2>3. 6 + p + q + 1 = p + q + 7
        BY <1>a
  <2>. QED BY <1>8, <2>1, <2>2, <2>3 DEF FrameLen, CRC_LEN
<1>11. CASE Len(b) >= 6 + p /\ Len(b) < p + q + 7
  <2>1. ~Complete(b)
        BY <1>1, <1>4, <1>10, <1>11 DEF Complete
  <2>. QED BY <1>1, <1>4, <1>8, <1>10, <1>11, <2>1 DEF decode, HEADER_LEN, e
<1>12. CASE Len(b) >= p + q + 7
  <2>1. /\ Len(b) >= 6 + p /\ Len(b) >= HEADER_LEN /\ FrameLen(b) = p + q + 7
        /\ PaddingLenAt(b) = 6 + p /\ HeaderValid(b) /\ Complete(b)
        BY <1>1, <1>4, <1>8, <1>10, <1>12 DEF Complete
  <2>2. \A i \in 1..(p + q + 7) : b[i] = e[i]
        BY <1>1, <1>4, <1>5, <1>12
  <2>3. CrcMatches(b)
    <3> DEFINE n == p + q + 6
    <3>1. n \in Nat /\ (p + q + 7) - CRC_LEN = n /\ p + q + 7 \in 1..(p + q + 7)
          BY <1>a DEF CRC_LEN
    <3>2. \A i \in 1..n : b[i] = Body(f)[i] /\ b[i] \in Fields(f, C)
      <4>1. \A i \in 1..n : i \in 1..(p + q + 7)
            BY <1>a
      <4>. QED BY <1>2, <2>2, <4>1, ElementOfSeq
    <3> HIDE DEF n
    <3>3. /\ SubSeq(b, 1, n) \in Seq(Fields(f, C)) /\ Len(SubSeq(b, 1, n)) = n
          /\ \A i \in 1..n : SubSeq(b, 1, n)[i] = b[i]
      <4>1. /\ SubSeq(b, 1, n) \in Seq(Fields(f, C))
            /\ Len(SubSeq(b, 1, n)) = IF 1 <= n THEN n - 1 + 1 ELSE 0
            /\ \A i \in 1..n - 1 + 1 : SubSeq(b, 1, n)[i] = b[1 + i - 1]
            BY <3>1, <3>2, SubSeqProperties
      <4>. QED BY <3>1, <4>1
    <3>4. SubSeq(b, 1, n) = Body(f)
          BY <1>2, <3>2, <3>3, SeqEqual DEF n
    <3>5. FrameLen(b) - CRC_LEN = n
          BY <2>1, <3>1
    <3>6. b[FrameLen(b)] = crc32(Body(f))
          BY <1>2, <2>1, <2>2, <3>1
    <3>. QED BY <3>4, <3>5, <3>6 DEF CrcMatches
  <2>4. (CHOOSE t \in FrameTypes : b[3] = <<TypeByte[t]>>) = f.type
    <3>1. \A t \in FrameTypes : b[3] = <<TypeByte[t]>> <=> t = f.type
          BY <1>3, <1>8, <2>1, TypesDiffer
    <3>. QED BY <1>3, <3>1
  <2>5. SubSeq(b, HEADER_LEN + 1, PaddingLenAt(b) - 1) = f.payload
    <3>0. PICK m \in Nat, n \in Int : m = 5 + 1 /\ n = 5 + p
          BY <1>a
    <3>1. HEADER_LEN + 1 = m /\ PaddingLenAt(b) - 1 = n
          BY <1>a, <2>1, <3>0 DEF HEADER_LEN
    <3>2. \A i \in 1..p : b[m + i - 1] = f.payload[i] /\ f.payload[i] \in C
      <4>1. \A i \in 1..p : 5 + i \in 1..(p + q + 7) /\ m + i - 1 = 5 + i
            BY <1>a, <3>0
      <4>. QED BY <1>1, <1>3, <2>2, <4>1, ElementOfSeq DEF p
    <3>3. \A i \in m..n : b[i] \in C
      <4>1. \A i \in m..n : i - 5 \in 1..p /\ m + (i - 5) - 1 = i
            BY <1>a, <3>0
      <4>. QED BY <3>2, <4>1
    <3>4. n - m + 1 = p /\ (IF m <= n THEN n - m + 1 ELSE 0) = p
          BY <1>a, <3>0
    <3> DEFINE r == SubSeq(b, m, n)
    <3>5. r \in Seq(C) /\ Len(r) = (IF m <= n THEN n - m + 1 ELSE 0) /\ \A i \in 1..(n - m + 1) : r[i] = b[m + i - 1]
          BY <3>3, SubSeqProperties
    <3> HIDE DEF r
    <3>6. r \in Seq(C) /\ Len(r) = p /\ \A i \in 1..p : r[i] = b[m + i - 1]
          BY <3>4, <3>5
    <3>7. r = f.payload
      <4>1. \A i \in 1..p : r[i] = f.payload[i]
            BY <3>2, <3>6
      <4>2. f.payload \in Seq(C) /\ Len(f.payload) = p
            BY <1>3 DEF p
      <4>. QED BY <3>6, <4>1, <4>2, SeqEqual
    <3>. QED BY <3>1, <3>7 DEF r
  <2>6. SubSeq(b, PaddingLenAt(b) + 1, FrameLen(b) - CRC_LEN) = f.padding
    <3>0. PICK m \in Nat, n \in Int : m = (6 + p) + 1 /\ n = (6 + p) + q
          BY <1>a
    <3>1. PaddingLenAt(b) + 1 = m /\ FrameLen(b) - CRC_LEN = n
          BY <1>a, <2>1, <3>0 DEF CRC_LEN
    <3>2. \A i \in 1..q : b[m + i - 1] = f.padding[i] /\ f.padding[i] \in C
      <4>1. \A i \in 1..q : (6 + p) + i \in 1..(p + q + 7) /\ m + i - 1 = (6 + p) + i
            BY <1>a, <3>0
      <4>. QED BY <1>1, <1>3, <2>2, <4>1, ElementOfSeq DEF q
    <3>3. \A i \in m..n : b[i] \in C
      <4>1. \A i \in m..n : i - (6 + p) \in 1..q /\ m + (i - (6 + p)) - 1 = i
            BY <1>a, <3>0
      <4>. QED BY <3>2, <4>1
    <3>4. n - m + 1 = q /\ (IF m <= n THEN n - m + 1 ELSE 0) = q
          BY <1>a, <3>0
    <3> DEFINE r == SubSeq(b, m, n)
    <3>5. r \in Seq(C) /\ Len(r) = (IF m <= n THEN n - m + 1 ELSE 0) /\ \A i \in 1..(n - m + 1) : r[i] = b[m + i - 1]
          BY <3>3, SubSeqProperties
    <3> HIDE DEF r
    <3>6. r \in Seq(C) /\ Len(r) = q /\ \A i \in 1..q : r[i] = b[m + i - 1]
          BY <3>4, <3>5
    <3>7. r = f.padding
      <4>1. \A i \in 1..q : r[i] = f.padding[i]
            BY <3>2, <3>6
      <4>2. f.padding \in Seq(C) /\ Len(f.padding) = q
            BY <1>3 DEF q
      <4>. QED BY <3>6, <4>1, <4>2, SeqEqual
    <3>. QED BY <3>1, <3>7 DEF r
  <2>7. b[4][1] = f.stream_id
        BY <1>8, <2>1
  <2>8. Decoded(b) = f
        BY <1>6, <2>4, <2>5, <2>6, <2>7 DEF Decoded
  <2>9. decode(b) = [result |-> "frame", frame |-> f, rest |-> SubSeq(b, p + q + 7 + 1, Len(b))]
        BY <1>4, <2>1, <2>3, <2>8 DEF decode, HEADER_LEN
  <2>. QED BY <1>1, <1>4, <1>12, <2>9 DEF e
<1>. QED BY <1>1, <1>4, <1>7, <1>9, <1>11, <1>12 DEF HEADER_LEN
-------------------------------------------------------------------------------
(* The handshake's payloads *)

Byte == {<<n>> : n \in Nat}

Request(v, t, ts) ==
    new_control("HandshakeReq", encode_req(HandshakeReq(ClientId, Text(v), t, ts, <<>>)))
Ack(s) == new_control("HandshakeAck",
                      encode_ack([session_id |-> s, heartbeat_min |-> 15, heartbeat_max |-> 45]))
SessionIds == {<<<<1>>>>, <<<<2>>>>}

\* What a concatenation is, from its length and its members.
LEMMA ConcatIs ==
    ASSUME NEW S, NEW s \in Seq(S), NEW t \in Seq(S), NEW r \in Seq(S), Len(r) = Len(s) + Len(t),
           \A i \in 1..Len(s) : r[i] = s[i], \A i \in 1..Len(t) : r[Len(s) + i] = t[i]
    PROVE  s \o t = r
<1>1. /\ s \o t \in Seq(S) /\ Len(s) \in Nat /\ Len(t) \in Nat
      /\ Len(s \o t) = Len(s) + Len(t)
      /\ \A i \in 1..Len(s) : (s \o t)[i] = s[i]
      /\ \A i \in 1..Len(t) : (s \o t)[Len(s) + i] = t[i]
      BY Joined
<1>2. ASSUME NEW i \in 1..Len(s \o t) PROVE (s \o t)[i] = r[i]
  <2>1. CASE i <= Len(s)
        BY <1>1, <2>1
  <2>2. CASE i > Len(s)
    <3>1. i - Len(s) \in 1..Len(t) /\ Len(s) + (i - Len(s)) = i
          BY <1>1, <2>2
    <3>2. (s \o t)[Len(s) + (i - Len(s))] = r[Len(s) + (i - Len(s))]
          BY <1>1, <3>1
    <3>. QED BY <3>1, <3>2
  <2>. QED BY <1>1, <2>1, <2>2
<1>. QED BY <1>1, <1>2, SeqEqual

\* The member of a sequence as a sequence.
LEMMA OneCell ==
    ASSUME NEW S, NEW s \in Seq(S), NEW i \in 1..Len(s)
    PROVE  SubSeq(s, i, i) = <<s[i]>>
<1>1. s[i] \in S /\ i \in Int
      BY ElementOfSeq, LenProperties
<1>2. /\ SubSeq(s, i, i) \in Seq(S) /\ Len(SubSeq(s, i, i)) = 1 /\ SubSeq(s, i, i)[1] = s[i]
  <2>1. \A j \in i..i : s[j] \in S
        BY <1>1
  <2>2. /\ SubSeq(s, i, i) \in Seq(S)
        /\ Len(SubSeq(s, i, i)) = IF i <= i THEN i - i + 1 ELSE 0
        /\ \A j \in 1..i - i + 1 : SubSeq(s, i, i)[j] = s[i + j - 1]
        BY <1>1, <2>1, SubSeqProperties
  <2>3. i - i + 1 = 1 /\ i + 1 - 1 = i /\ i <= i
        BY <1>1
  <2>. QED BY <2>2, <2>3
<1>3. <<s[i]>> \in Seq(S) /\ Len(<<s[i]>>) = 1 /\ <<s[i]>>[1] = s[i]
      BY <1>1
<1>4. \A j \in 1..1 : SubSeq(s, i, i)[j] = <<s[i]>>[j]
      BY <1>2, <1>3
<1>. QED BY <1>2, <1>3, <1>4, SeqEqual

\* The concatenations that build the payloads.
LEMMA Tuples ==
    /\ \A a, b : <<a>> \o <<b>> = <<a, b>>
    /\ \A a, b, c, d : <<a, b>> \o <<c, d>> = <<a, b, c, d>>
    /\ \A a, b, c, d, e, f : <<a, b, c, d>> \o <<e, f>> = <<a, b, c, d, e, f>>
    /\ \A a, b, c, d, e, f, g : <<a, b, c, d, e, f>> \o <<g>> = <<a, b, c, d, e, f, g>>
<1>1. ASSUME NEW a, NEW b
      PROVE  <<a>> \o <<b>> = <<a, b>>
  <2> DEFINE S == {a, b}
             x == <<a>>
             y == <<b>>
             z == <<a, b>>
  <2>1. x \in Seq(S) /\ y \in Seq(S) /\ z \in Seq(S)
        OBVIOUS
  <2>2. /\ Len(x) = 1 /\ Len(y) = 1 /\ Len(z) = 2
        /\ x[1] = z[1]
        /\ y[1] = z[2]
        OBVIOUS
  <2> HIDE DEF S, x, y, z
  <2>3. \A i \in 1..Len(x) : z[i] = x[i]
        BY <2>2
  <2>4. \A i \in 1..Len(y) : z[Len(x) + i] = y[i]
        BY <2>2
  <2>5. Len(z) = Len(x) + Len(y)
        BY <2>2
  <2>6. x \o y = z
        BY <2>1, <2>3, <2>4, <2>5, ConcatIs
  <2>. QED BY <2>6 DEF x, y, z
<1>2. ASSUME NEW a, NEW b, NEW c, NEW d
      PROVE  <<a, b>> \o <<c, d>> = <<a, b, c, d>>
  <2> DEFINE S == {a, b, c, d}
             x == <<a, b>>
             y == <<c, d>>
             z == <<a, b, c, d>>
  <2>1. x \in Seq(S) /\ y \in Seq(S) /\ z \in Seq(S)
        OBVIOUS
  <2>2. /\ Len(x) = 2 /\ Len(y) = 2 /\ Len(z) = 4
        /\ x[1] = z[1] /\ x[2] = z[2]
        /\ y[1] = z[3] /\ y[2] = z[4]
        OBVIOUS
  <2> HIDE DEF S, x, y, z
  <2>3. \A i \in 1..Len(x) : z[i] = x[i]
        BY <2>2
  <2>4. \A i \in 1..Len(y) : z[Len(x) + i] = y[i]
        BY <2>2
  <2>5. Len(z) = Len(x) + Len(y)
        BY <2>2
  <2>6. x \o y = z
        BY <2>1, <2>3, <2>4, <2>5, ConcatIs
  <2>. QED BY <2>6 DEF x, y, z
<1>3. ASSUME NEW a, NEW b, NEW c, NEW d, NEW e, NEW f
      PROVE  <<a, b, c, d>> \o <<e, f>> = <<a, b, c, d, e, f>>
  <2> DEFINE S == {a, b, c, d, e, f}
             x == <<a, b, c, d>>
             y == <<e, f>>
             z == <<a, b, c, d, e, f>>
  <2>1. x \in Seq(S) /\ y \in Seq(S) /\ z \in Seq(S)
        OBVIOUS
  <2>2. /\ Len(x) = 4 /\ Len(y) = 2 /\ Len(z) = 6
        /\ x[1] = z[1] /\ x[2] = z[2] /\ x[3] = z[3] /\ x[4] = z[4]
        /\ y[1] = z[5] /\ y[2] = z[6]
        OBVIOUS
  <2> HIDE DEF S, x, y, z
  <2>3. \A i \in 1..Len(x) : z[i] = x[i]
        BY <2>2
  <2>4. \A i \in 1..Len(y) : z[Len(x) + i] = y[i]
        BY <2>2
  <2>5. Len(z) = Len(x) + Len(y)
        BY <2>2
  <2>6. x \o y = z
        BY <2>1, <2>3, <2>4, <2>5, ConcatIs
  <2>. QED BY <2>6 DEF x, y, z
<1>4. ASSUME NEW a, NEW b, NEW c, NEW d, NEW e, NEW f, NEW g
      PROVE  <<a, b, c, d, e, f>> \o <<g>> = <<a, b, c, d, e, f, g>>
  <2> DEFINE S == {a, b, c, d, e, f, g}
             x == <<a, b, c, d, e, f>>
             y == <<g>>
             z == <<a, b, c, d, e, f, g>>
  <2>1. x \in Seq(S) /\ y \in Seq(S) /\ z \in Seq(S)
        OBVIOUS
  <2>2. /\ Len(x) = 6 /\ Len(y) = 1 /\ Len(z) = 7
        /\ x[1] = z[1] /\ x[2] = z[2] /\ x[3] = z[3] /\ x[4] = z[4] /\ x[5] = z[5] /\ x[6] = z[6]
        /\ y[1] = z[7]
        OBVIOUS
  <2> HIDE DEF S, x, y, z
  <2>3. \A i \in 1..Len(x) : z[i] = x[i]
        BY <2>2
  <2>4. \A i \in 1..Len(y) : z[Len(x) + i] = y[i]
        BY <2>2
  <2>5. Len(z) = Len(x) + Len(y)
        BY <2>2
  <2>6. x \o y = z
        BY <2>1, <2>3, <2>4, <2>5, ConcatIs
  <2>. QED BY <2>6 DEF x, y, z
<1>. QED BY <1>1, <1>2, <1>3, <1>4

\* A field of one cell or of none.
LEMMA ShortFields ==
    /\ \A c : Field(<<c>>) = <<<<1>>, c>>
    /\ Field(<<>>) = <<<<0>>>>
<1>1. 1 % U16 = 1 /\ 0 % U16 = 0
  <2>1. \A m, n \in Nat : m < n => m % n = m
        OBVIOUS
  <2>. QED BY <2>1, CodecAssumption
<1>2. ASSUME NEW c PROVE Field(<<c>>) = <<<<1>>, c>>
  <2>1. Len(<<c>>) = 1
        OBVIOUS
  <2>2. <<<<1>>>> \o <<c>> = <<<<1>>, c>>
        BY Tuples
  <2>. QED BY <1>1, <2>1, <2>2 DEF Field
<1>3. Field(<<>>) = <<<<0>>>>
  <2>1. Len(<<>>) = 0 /\ <<<<0>>>> \o <<>> = <<<<0>>>>
        OBVIOUS
  <2>. QED BY <1>1, <2>1 DEF Field
<1>. QED BY <1>2, <1>3

\* The ack carries the session to the client.
LEMMA AckCarriesSession ==
    ASSUME NEW s \in SessionIds
    PROVE  /\ Ack(s) \in FramesOver(Byte) /\ Ack(s).padding = <<>> /\ Ack(s).type = "HandshakeAck"
           /\ decode_ack(Ack(s).payload).ok
           /\ decode_ack(Ack(s).payload).ack.session_id = s
<1>0. PICK n \in Nat : s = <<<<n>>>>
      BY DEF SessionIds
<1> DEFINE p == <<<<1>>, <<n>>, <<15>>, <<45>>>>
<1>1. Ack(s) = [type |-> "HandshakeAck", stream_id |-> 255, payload |-> p, padding |-> <<>>]
  <2>1. Field(s) = <<<<1>>, <<n>>>>
        BY <1>0, ShortFields
  <2>2. <<<<1>>, <<n>>>> \o <<<<15>>, <<45>>>> = p
        BY Tuples
  <2>. QED BY <2>1, <2>2 DEF Ack, new_control, new, CONTROL_STREAM_ID, encode_ack
<1>2. p \in Seq(Byte) /\ <<>> \in Seq(Byte)
  <2>1. <<1>> \in Byte /\ <<n>> \in Byte /\ <<15>> \in Byte /\ <<45>> \in Byte
        BY DEF Byte
  <2> HIDE DEF Byte
  <2>. QED BY <2>1
<1>3. Ack(s) \in FramesOver(Byte)
  <2>1. "HandshakeAck" \in FrameTypes
        BY DEF FrameTypes, TypeByte
  <2> HIDE DEF p
  <2>2. p \in Seq(Byte) /\ <<>> \in Seq(Byte) /\ 255 \in Nat
        BY <1>2
  <2>. QED BY <1>1, <2>1, <2>2 DEF FramesOver
<1>4. FieldAt(p, 1) = [ok |-> TRUE, val |-> SubSeq(p, 2, 2), next |-> 3]
      BY DEF FieldAt
<1>5. SubSeq(p, 2, 2) = s
  <2>1. 2 \in 1..Len(p) /\ p[2] = <<n>>
        OBVIOUS
  <2> HIDE DEF p
  <2>. QED BY <1>0, <1>2, <2>1, OneCell
<1>6. decode_ack(p).ok /\ decode_ack(p).ack.session_id = s
  <2>1. Len(p) = 4 /\ p[3][1] = 15 /\ p[4][1] = 45
        OBVIOUS
  <2> HIDE DEF p
  <2>2. /\ FieldAt(p, 1).ok /\ FieldAt(p, 1).val = s /\ FieldAt(p, 1).next = 3
        BY <1>4, <1>5
  <2>3. FieldAt(p, 1).ok /\ FieldAt(p, 1).next + 1 <= Len(p) /\ 3 + 1 = 4
        BY <2>1, <2>2
  <2>. QED BY <2>1, <2>2, <2>3 DEF decode_ack
<1>. QED BY <1>1, <1>3, <1>6

\* The server accepts a request only from a client that has its token and its
\* version, and a clock within the window.
LEMMA AcceptedTokens ==
    ASSUME NEW v, NEW t, NEW ts,
           Accepts(decode_req(decode(encode(Request(v, t, ts))).frame.payload))
    PROVE  t = ServerToken /\ v = ServerVersion /\ verify_timestamp(ts, Now, ClockWindow)
<1> DEFINE p == <<<<1>>, <<8>>, <<1>>, <<v>>, <<ts>>, hmac_sha256(t, ts), <<0>>>>
           C == {<<1>>, <<8>>, <<v>>, <<ts>>, hmac_sha256(t, ts), <<0>>}
           f == Request(v, t, ts)
<1>1. f = [type |-> "HandshakeReq", stream_id |-> 255, payload |-> p, padding |-> <<>>]
  <2>1. Field(ClientId) = <<<<1>>, <<8>>>> /\ Field(Text(v)) = <<<<1>>, <<v>>>> /\ Field(<<>>) = <<<<0>>>>
        BY ShortFields DEF ClientId, Text
  <2>2. <<<<1>>, <<8>>>> \o <<<<1>>, <<v>>>> \o <<<<ts>>, hmac_sha256(t, ts)>> \o <<<<0>>>> = p
    <3> DEFINE mac == hmac_sha256(t, ts)
    <3> HIDE DEF mac
    <3>1. /\ <<<<1>>, <<8>>>> \o <<<<1>>, <<v>>>> = <<<<1>>, <<8>>, <<1>>, <<v>>>>
          /\ <<<<1>>, <<8>>, <<1>>, <<v>>>> \o <<<<ts>>, mac>> = <<<<1>>, <<8>>, <<1>>, <<v>>, <<ts>>, mac>>
          /\ <<<<1>>, <<8>>, <<1>>, <<v>>, <<ts>>, mac>> \o <<<<0>>>>
                = <<<<1>>, <<8>>, <<1>>, <<v>>, <<ts>>, mac, <<0>>>>
          BY Tuples
    <3>. QED BY <3>1 DEF mac
  <2>. QED BY <2>1, <2>2 DEF Request, new_control, new, CONTROL_STREAM_ID, encode_req, HandshakeReq
<1>2. f \in FramesOver(C) /\ Len(f.padding) < U16
  <2>1. p \in Seq(C) /\ <<>> \in Seq(C)
        OBVIOUS
  <2>. QED BY <1>1, <2>1, CodecAssumption DEF FramesOver, FrameTypes, TypeByte
<1>3. decode(encode(f)).frame.payload = p
  <2>1. encode(f) \in Seq(Cells(f, C))
        BY <1>2, Layout
  <2> HIDE DEF f, C
  <2>2. decode(encode(f)).frame = f
        BY <1>2, <2>1, RoundTrip, LenProperties
  <2>. QED BY <1>1, <2>2
<1>4. /\ FieldAt(p, 1) = [ok |-> TRUE, val |-> SubSeq(p, 2, 2), next |-> 3]
      /\ FieldAt(p, 3) = [ok |-> TRUE, val |-> SubSeq(p, 4, 4), next |-> 5]
      /\ FieldAt(p, 7) = [ok |-> TRUE, val |-> SubSeq(p, 8, 7), next |-> 8]
      BY DEF FieldAt
<1>5. /\ decode_req(p).req.timestamp = ts
      /\ decode_req(p).req.hmac = hmac_sha256(t, ts)
      /\ decode_req(p).req.version = SubSeq(p, 4, 4)
  <2>1. Len(p) = 7 /\ p[5][1] = ts /\ p[6] = hmac_sha256(t, ts)
        OBVIOUS
  <2> HIDE DEF p
  <2>2. /\ FieldAt(p, 1).ok /\ FieldAt(p, 1).next = 3
        /\ FieldAt(p, 3).ok /\ FieldAt(p, 3).next = 5 /\ FieldAt(p, 3).val = SubSeq(p, 4, 4)
        /\ FieldAt(p, 7).ok /\ 5 + 2 = 7 /\ 5 + 1 = 6 /\ 6 <= Len(p)
        BY <1>4, <2>1
  <2>. QED BY <2>1, <2>2 DEF decode_req
<1>6. SubSeq(p, 4, 4) = <<<<v>>>>
  <2>1. p \in Seq(C) /\ 4 \in 1..Len(p) /\ p[4] = <<v>>
        OBVIOUS
  <2> HIDE DEF p, C
  <2>. QED BY <2>1, OneCell
<1>7. /\ hmac_sha256(t, ts) = hmac_sha256(ServerToken, ts)
      /\ verify_timestamp(ts, Now, ClockWindow)
      /\ <<<<v>>>> = <<<<ServerVersion>>>>
      BY <1>3, <1>5, <1>6 DEF Accepts, verify_handshake, verify_version, Text
<1>8. t = ServerToken
      BY <1>7 DEF hmac_sha256
<1>9. v = ServerVersion
  <2>1. \A a, b : <<<<a>>>> = <<<<b>>>> => a = b
        OBVIOUS
  <2>. QED BY <1>7, <2>1
<1>. QED BY <1>7, <1>8, <1>9
-------------------------------------------------------------------------------
(* The bytes of one connection *)

\* The frames of the server, and frames that it can write.
Refusal == auth_fail_frame(<<>>)
Kick == build_error_frame(<<>>)
Data(n, len) == Padded(new("StreamData", n, <<<<n>>>>), len)
DataFrames == {Data(n, len) : n \in Nat, len \in 0..PaddingMax}
WireFrames == {f \in FramesOver(Byte) : Len(f.padding) < U16}

Cell == UNION {Cells(f, Byte) : f \in WireFrames}

\* The server's frames fit the codec as long as the padding fits its length field.
LEMMA ServerFrames ==
    ASSUME PaddingMax < U16
    PROVE  /\ \A s \in SessionIds : Ack(s) \in WireFrames
           /\ Refusal \in WireFrames /\ Refusal.type = "AuthFail"
           /\ Kick \in WireFrames /\ Kick.type = "Error" /\ Kick.padding = <<>>
           /\ Kick.stream_id = 255 /\ Kick.payload = <<<<0>>>>
           /\ \A n \in Nat, len \in 0..PaddingMax :
                 /\ Data(n, len) \in WireFrames
                 /\ Data(n, len).type = "StreamData" /\ Data(n, len).stream_id = n
                 /\ Data(n, len).payload = <<<<n>>>>
                 /\ Len(Data(n, len).padding) = len
                 /\ \A i \in 1..len : Data(n, len).padding[i] = <<0>>
<1>1. <<>> \in Seq(Byte) /\ Len(<<>>) = 0 /\ 0 < U16
      BY CodecAssumption, EmptySeq
<1>2. ASSUME NEW n \in Nat PROVE <<n>> \in Byte /\ <<<<n>>>> \in Seq(Byte)
  <2>1. <<n>> \in Byte
        BY DEF Byte
  <2> HIDE DEF Byte
  <2>. QED BY <2>1
<1>3. /\ "AuthFail" \in FrameTypes /\ "Error" \in FrameTypes /\ "StreamData" \in FrameTypes
      BY DEF FrameTypes, TypeByte
<1>4. \A s \in SessionIds : Ack(s) \in WireFrames
      BY <1>1, AckCarriesSession DEF WireFrames
<1>5. ASSUME NEW type \in FrameTypes
      PROVE  /\ new_control(type, Field(<<>>)) \in WireFrames
             /\ new_control(type, Field(<<>>)) =
                   [type |-> type, stream_id |-> 255, payload |-> <<<<0>>>>, padding |-> <<>>]
  <2>1. new_control(type, Field(<<>>)) =
           [type |-> type, stream_id |-> 255, payload |-> <<<<0>>>>, padding |-> <<>>]
        BY ShortFields DEF new_control, new, CONTROL_STREAM_ID
  <2> DEFINE g == new_control(type, Field(<<>>))
  <2> HIDE DEF g
  <2>2. <<<<0>>>> \in Seq(Byte) /\ 255 \in Nat
        BY <1>2
  <2>3. /\ g = [type |-> type, stream_id |-> 255, payload |-> <<<<0>>>>, padding |-> <<>>]
        /\ g.padding = <<>>
        BY <2>1 DEF g
  <2>4. g \in FramesOver(Byte)
        BY <1>1, <2>2, <2>3 DEF FramesOver
  <2>5. g \in WireFrames
        BY <1>1, <2>3, <2>4 DEF WireFrames
  <2>. QED BY <2>1, <2>5 DEF g
<1>6. ASSUME NEW n \in Nat, NEW len \in 0..PaddingMax
      PROVE  /\ Data(n, len) \in WireFrames
             /\ Data(n, len).type = "StreamData" /\ Data(n, len).stream_id = n
             /\ Data(n, len).payload = <<<<n>>>>
             /\ Len(Data(n, len).padding) = len
             /\ \A i \in 1..len : Data(n, len).padding[i] = <<0>>
  <2> DEFINE z == [i \in 1..len |-> <<0>>]
  <2>0. len \in Nat /\ len < U16
        BY CodecAssumption, LinkAssumption
  <2>1. z \in Seq(Byte) /\ Len(z) = len /\ \A i \in 1..len : z[i] = <<0>>
    <3>1. <<0>> \in Byte
          BY <1>2
    <3>. QED BY <2>0, <3>1
  <2>2. Data(n, len) = [type |-> "StreamData", stream_id |-> n, payload |-> <<<<n>>>>, padding |-> z]
    <3> HIDE DEF z
    <3>1. Data(n, len) = [new("StreamData", n, <<<<n>>>>) EXCEPT !.padding = z]
          BY DEF Data, Padded, z
    <3>. QED BY <3>1 DEF new
  <2> HIDE DEF z
  <2>3. Data(n, len) \in FramesOver(Byte)
        BY <1>2, <1>3, <2>1, <2>2 DEF FramesOver
  <2>. QED BY <2>0, <2>1, <2>2, <2>3 DEF WireFrames
<1>. QED BY <1>3, <1>4, <1>5, <1>6 DEF Refusal, Kick, auth_fail_frame, build_error_frame

\* The cells of the frames that follow the ack: a payload of one cell, and zeros.
PlainCells(e, type, id, n, len, c) ==
    /\ Len(e) = 8 + len
    /\ e[2] = <<1>> /\ e[3] = <<type>> /\ e[4] = <<id>> /\ e[5] = <<1>> /\ e[6] = <<n>> /\ e[7] = <<len>>
    /\ \A j \in 1..len : e[7 + j] = <<0>>
    /\ e[8 + len] = crc32(c)
Plain(e) == \E type, id, n, len \in Nat : \E c :
               PlainCells(e, type, id, n, len, c) /\ type # 90 /\ (id = n \/ id = 255)

\* No such frame holds the beginning of another one.
LEMMA PlainCellsHoldNoHeader ==
    ASSUME NEW e, Plain(e), NEW i \in 2..Len(e), e[i] = MAGIC
    PROVE  /\ i + 2 <= Len(e)
           /\ ~(e[i + 1] = VERSION /\ \E t \in FrameTypes : e[i + 2] = <<TypeByte[t]>>)
<1>0. \A t \in FrameTypes : TypeByte[t] # 0 /\ TypeByte[t] # 90
      BY DEF FrameTypes, TypeByte
<1>p. PICK type \in Nat, id \in Nat, n \in Nat, len \in Nat : \E c :
           PlainCells(e, type, id, n, len, c) /\ type # 90 /\ (id = n \/ id = 255)
      BY DEF Plain
<1>1. PICK c : PlainCells(e, type, id, n, len, c) /\ type # 90 /\ (id = n \/ id = 255)
      BY <1>p
<1>2. /\ Len(e) = 8 + len
      /\ e[2] = <<1>> /\ e[3] = <<type>> /\ e[4] = <<id>> /\ e[5] = <<1>> /\ e[6] = <<n>> /\ e[7] = <<len>>
      /\ \A j \in 1..len : e[7 + j] = <<0>>
      /\ e[8 + len] = crc32(c)
      BY <1>1 DEF PlainCells
<1>3. e[i] = <<90>> /\ i \in 2..(8 + len)
      BY <1>2 DEF MAGIC
<1>4. i \notin {2, 3, 5}
      BY <1>1, <1>2, <1>3
<1>5. i # 8 + len
  <2>1. crc32(c) # <<90>>
    <3>1. Len(<<"crc", c>>) = 2 /\ Len(<<90>>) = 1
          OBVIOUS
    <3>. QED BY <3>1 DEF crc32
  <2>2. i = 8 + len => e[i] = crc32(c)
        BY <1>2
  <2>. QED BY <1>3, <2>1, <2>2
<1>6. ~(i > 7 /\ i < 8 + len)
  <2>1. SUFFICES ASSUME i > 7, i < 8 + len PROVE FALSE
        OBVIOUS
  <2>2. i - 7 \in 1..len /\ 7 + (i - 7) = i
        BY <1>3, <2>1
  <2>3. e[i] = <<0>>
        BY <1>2, <2>2
  <2>. QED BY <1>3, <2>3
<1>7. i \in {4, 6, 7}
      BY <1>3, <1>4, <1>5, <1>6
<1>8. CASE i = 4
  <2>1. n = 90
        BY <1>1, <1>2, <1>3, <1>8
  <2>2. e[6] = <<90>>
        BY <1>2, <2>1
  <2>3. \A t \in FrameTypes : e[i + 2] # <<TypeByte[t]>>
        BY <1>0, <1>8, <2>2
  <2>. QED BY <1>2, <1>8, <2>3
<1>9. CASE i = 6
  <2>1. CASE len = 0
    <3>1. e[i + 1] # VERSION
          BY <1>2, <1>9, <2>1 DEF VERSION
    <3>. QED BY <1>2, <1>9, <2>1, <3>1
  <2>2. CASE len > 0
    <3>1. e[7 + 1] = <<0>>
          BY <1>2, <2>2
    <3>2. \A t \in FrameTypes : e[i + 2] # <<TypeByte[t]>>
          BY <1>0, <1>9, <3>1
    <3>. QED BY <1>2, <1>9, <2>2, <3>2
  <2>. QED BY <2>1, <2>2
<1>10. CASE i = 7
  <2>1. len = 90
        BY <1>2, <1>3, <1>10
  <2>2. e[7 + 1] = <<0>>
        BY <1>2, <2>1
  <2>3. e[i + 1] # VERSION
        BY <1>10, <2>2 DEF VERSION
  <2>. QED BY <1>2, <1>10, <2>1, <2>3
<1>. QED BY <1>7, <1>8, <1>9, <1>10

\* No frame that follows the ack holds the beginning of another one.
LEMMA NoHeaderInside ==
    ASSUME PaddingMax < U16, NEW f \in DataFrames \cup {Kick},
           NEW i \in 2..Len(encode(f)), encode(f)[i] = MAGIC
    PROVE  /\ i + 2 <= Len(encode(f))
           /\ ~(encode(f)[i + 1] = VERSION /\ \E t \in FrameTypes : encode(f)[i + 2] = <<TypeByte[t]>>)
<1> DEFINE e == encode(f)
<1>3. /\ f \in FramesOver(Byte) /\ Len(f.padding) < U16
  <2>1. f \in WireFrames
    <3>1. CASE f = Kick
          BY <3>1, ServerFrames
    <3>2. ASSUME NEW n \in Nat, NEW len \in 0..PaddingMax, f = Data(n, len) PROVE f \in WireFrames
          BY <3>2, ServerFrames
    <3>. QED BY <3>1, <3>2 DEF DataFrames
  <2>. QED BY <2>1 DEF WireFrames
<1>4. LET p == Len(f.payload)
          q == Len(f.padding)
      IN  /\ p \in Nat /\ q \in Nat /\ Len(e) = p + q + 7
          /\ e[1] = MAGIC /\ e[2] = VERSION /\ e[3] = <<TypeByte[f.type]>>
          /\ e[4] = <<f.stream_id>> /\ e[5] = <<p>>
          /\ \A j \in 1..p : e[5 + j] = f.payload[j]
          /\ e[6 + p] = <<q>>
          /\ \A j \in 1..q : e[6 + p + j] = f.padding[j]
          /\ e[p + q + 7] = crc32(Body(f))
      BY <1>3, Layout
<1>5. Plain(e)
  <2>1. CASE f = Kick
    <3>1. /\ f.type = "Error" /\ f.stream_id = 255 /\ f.payload = <<<<0>>>> /\ f.padding = <<>>
          BY <2>1, ServerFrames
    <3>2. Len(f.payload) = 1 /\ Len(f.padding) = 0 /\ f.payload[1] = <<0>> /\ TypeByte["Error"] = 255
          BY <3>1 DEF TypeByte
    <3> HIDE DEF e
    <3>3. PICK len \in Nat, m \in Nat : len = 0 /\ m = 255
          OBVIOUS
    <3>4. /\ e[2] = <<1>> /\ e[3] = <<m>> /\ e[4] = <<m>> /\ e[5] = <<1>> /\ e[6] = <<len>>
          /\ e[7] = <<len>> /\ Len(e) = 8 + len /\ e[8 + len] = crc32(Body(f))
          BY <1>4, <3>1, <3>2, <3>3 DEF VERSION
    <3>5. PlainCells(e, m, m, len, len, Body(f)) /\ m # 90 /\ m = 255
          BY <3>3, <3>4 DEF PlainCells
    <3>. QED BY <3>5 DEF Plain
  <2>2. ASSUME NEW n \in Nat, NEW len \in 0..PaddingMax, f = Data(n, len) PROVE Plain(e)
    <3>1. /\ f.type = "StreamData" /\ f.stream_id = n /\ f.payload = <<<<n>>>> /\ Len(f.padding) = len
          /\ \A j \in 1..len : f.padding[j] = <<0>>
          BY <2>2, ServerFrames
    <3>2. Len(f.payload) = 1 /\ f.payload[1] = <<n>> /\ TypeByte["StreamData"] = 18 /\ len \in Nat
          BY <3>1, LinkAssumption DEF TypeByte
    <3> HIDE DEF e
    <3>3. PICK m \in Nat : m = 18
          OBVIOUS
    <3>4. /\ e[2] = <<1>> /\ e[3] = <<m>> /\ e[4] = <<n>> /\ e[5] = <<1>> /\ e[6] = <<n>>
          /\ e[7] = <<len>> /\ Len(e) = 8 + len /\ e[8 + len] = crc32(Body(f))
      <4>1. 1 + len + 7 = 8 + len /\ 6 + 1 = 7 /\ 5 + 1 = 6 /\ 1 \in 1..1
            BY <3>2
      <4>. QED BY <1>4, <3>1, <3>2, <3>3, <4>1 DEF VERSION
    <3>5. \A j \in 1..len : e[7 + j] = <<0>>
      <4>1. 6 + 1 = 7
            OBVIOUS
      <4>. QED BY <1>4, <3>1, <3>2, <4>1
    <3>6. PlainCells(e, m, n, n, len, Body(f)) /\ m # 90 /\ n = n
          BY <3>3, <3>4, <3>5 DEF PlainCells
    <3>. QED BY <3>2, <3>6 DEF Plain
  <2>. QED BY <2>1, <2>2 DEF DataFrames
<1>. QED BY <1>5, PlainCellsHoldNoHeader DEF e

\* S are the bytes of the frames F, of which the k-th stands behind off[k].
Laid(F, off, S) ==
    /\ F \in Seq(WireFrames) /\ off \in Seq(Nat) /\ S \in Seq(Cell)
    /\ Len(off) = Len(F) + 1 /\ off[1] = 0 /\ off[Len(F) + 1] = Len(S)
    /\ \A k \in 1..(Len(F) + 1) : off[k] <= Len(S)
    /\ \A k \in 1..Len(F) : /\ off[k + 1] = off[k] + Len(encode(F[k]))
                            /\ \A i \in 1..Len(encode(F[k])) : S[off[k] + i] = encode(F[k])[i]
    /\ \A x \in 1..Len(S) : \E k \in 1..Len(F) : off[k] < x /\ x <= off[k + 1]

\* The bytes of a frame.
LEMMA FrameBytes ==
    ASSUME NEW f \in WireFrames
    PROVE  encode(f) \in Seq(Cell) /\ Len(encode(f)) \in Nat /\ Len(encode(f)) >= 7
<1>1. f \in FramesOver(Byte) /\ Len(f.padding) < U16
      BY DEF WireFrames
<1>2. /\ encode(f) \in Seq(Cells(f, Byte)) /\ Len(f.payload) \in Nat /\ Len(f.padding) \in Nat
      /\ Len(encode(f)) = Len(f.payload) + Len(f.padding) + 7
      BY <1>1, Layout
<1>3. Cells(f, Byte) \subseteq Cell
      BY DEF Cell
<1>4. encode(f) \in Seq(Cell)
      BY <1>2, <1>3, SeqMonotonic
<1>5. \A a, c \in Nat : a + c + 7 \in Nat /\ a + c + 7 >= 7
      OBVIOUS
<1>. QED BY <1>2, <1>4, <1>5, Zenon

LEMMA NothingLaid == Laid(<<>>, <<0>>, <<>>)
<1>1. <<>> \in Seq(WireFrames) /\ <<>> \in Seq(Cell) /\ Len(<<>>) = 0
      BY EmptySeq
<1>2. <<0>> \in Seq(Nat) /\ Len(<<0>>) = 1 /\ <<0>>[1] = 0
      OBVIOUS
<1>. QED BY <1>1, <1>2 DEF Laid

\* Writing a frame puts its bytes behind those that are there.
LEMMA Extend ==
    ASSUME NEW F, NEW off, NEW S, Laid(F, off, S), NEW f \in WireFrames
    PROVE  Laid(Append(F, f), Append(off, Len(S) + Len(encode(f))), S \o encode(f))
<1> DEFINE e == encode(f)
           G == Append(F, f)
           to == Append(off, Len(S) + Len(e))
           T == S \o e
           n == Len(F)
<1>1. /\ F \in Seq(WireFrames) /\ off \in Seq(Nat) /\ S \in Seq(Cell)
      /\ Len(off) = n + 1 /\ off[1] = 0 /\ off[n + 1] = Len(S)
      /\ \A k \in 1..(n + 1) : off[k] <= Len(S)
      /\ \A k \in 1..n : /\ off[k + 1] = off[k] + Len(encode(F[k]))
                         /\ \A i \in 1..Len(encode(F[k])) : S[off[k] + i] = encode(F[k])[i]
      /\ \A x \in 1..Len(S) : \E k \in 1..n : off[k] < x /\ x <= off[k + 1]
      BY DEF Laid
<1>2. e \in Seq(Cell) /\ Len(e) \in Nat
      BY FrameBytes
<1>3. n \in Nat /\ Len(S) \in Nat /\ Len(S) + Len(e) \in Nat
      BY <1>1, <1>2, LenProperties
<1>4. G \in Seq(WireFrames) /\ Len(G) = n + 1 /\ G[n + 1] = f /\ \A k \in 1..n : G[k] = F[k]
      BY <1>1, AppendProperties
<1> HIDE DEF e
<1>5. /\ to \in Seq(Nat) /\ Len(to) = n + 2
      /\ to[n + 2] = Len(S) + Len(e) /\ \A k \in 1..(n + 1) : to[k] = off[k]
  <2>1. /\ to \in Seq(Nat) /\ Len(to) = Len(off) + 1
        /\ to[Len(off) + 1] = Len(S) + Len(e) /\ \A k \in 1..Len(off) : to[k] = off[k]
        BY <1>1, <1>3, AppendProperties
  <2>2. Len(off) + 1 = n + 2
        BY <1>1, <1>3
  <2>. QED BY <1>1, <2>1, <2>2
<1>6. /\ T \in Seq(Cell) /\ Len(T) = Len(S) + Len(e)
      /\ \A i \in 1..Len(S) : T[i] = S[i]
      /\ \A i \in 1..Len(e) : T[Len(S) + i] = e[i]
      BY <1>1, <1>2, Joined
<1> HIDE DEF G, to, T, n
<1>7. \A k \in 1..(n + 1) : off[k] \in Nat
      BY <1>1, ElementOfSeq
<1>8. ASSUME NEW k \in 1..n PROVE k \in 1..(n + 1) /\ k + 1 \in 1..(n + 1)
      BY <1>3
<1>9. ASSUME NEW k \in 1..n, NEW i \in 1..Len(encode(F[k])) PROVE off[k] + i \in 1..Len(S)
  <2>1. F[k] \in WireFrames
        BY <1>1, ElementOfSeq DEF n
  <2>2. Len(encode(F[k])) \in Nat
        BY <2>1, FrameBytes
  <2>3. off[k] \in Nat /\ off[k + 1] \in Nat /\ off[k + 1] <= Len(S) /\ off[k + 1] = off[k] + Len(encode(F[k]))
        BY <1>1, <1>7, <1>8
  <2>. QED BY <1>3, <2>2, <2>3
<1>10. ASSUME NEW k \in 1..(n + 1)
       PROVE  /\ to[k + 1] = to[k] + Len(encode(G[k]))
              /\ \A i \in 1..Len(encode(G[k])) : T[to[k] + i] = encode(G[k])[i]
  <2>1. CASE k = n + 1
    <3>1. k + 1 = n + 2 /\ G[k] = f /\ to[k] = Len(S)
          BY <1>1, <1>3, <1>4, <1>5, <2>1
    <3>. QED BY <1>5, <1>6, <3>1 DEF e
  <2>2. CASE k # n + 1
    <3>1. k \in 1..n
          BY <1>3, <2>2
    <3>2. G[k] = F[k] /\ to[k] = off[k] /\ to[k + 1] = off[k + 1]
          BY <1>4, <1>5, <1>8, <3>1
    <3>3. off[k + 1] = off[k] + Len(encode(F[k]))
          BY <1>1, <3>1
    <3>4. ASSUME NEW i \in 1..Len(encode(F[k])) PROVE T[off[k] + i] = encode(F[k])[i]
      <4>1. off[k] + i \in 1..Len(S)
            BY <1>9, <3>1
      <4>. QED BY <1>1, <1>6, <3>1, <4>1
    <3>. QED BY <3>2, <3>3, <3>4
  <2>. QED BY <2>1, <2>2
<1>17. ASSUME NEW k \in 1..(n + 2) PROVE to[k] <= Len(T)
  <2>1. k = n + 2 \/ k \in 1..(n + 1)
        BY <1>3
  <2>2. CASE k \in 1..(n + 1)
    <3>1. to[k] = off[k] /\ off[k] \in Nat /\ off[k] <= Len(S)
          BY <1>1, <1>5, <1>7, <2>2
    <3>. QED BY <1>2, <1>3, <1>6, <3>1
  <2>. QED BY <1>2, <1>3, <1>5, <1>6, <2>1, <2>2
<1>11. ASSUME NEW x \in 1..Len(T)
       PROVE  \E k \in 1..(n + 1) : to[k] < x /\ x <= to[k + 1]
  <2>1. CASE x <= Len(S)
    <3>0. x \in 1..Len(S)
          BY <1>2, <1>3, <1>6, <2>1
    <3>1. PICK k \in 1..n : off[k] < x /\ x <= off[k + 1]
      <4>1. \A y \in 1..Len(S) : \E k \in 1..n : off[k] < y /\ y <= off[k + 1]
            BY <1>1
      <4>. QED BY <3>0, <4>1
    <3>2. to[k] < x /\ x <= to[k + 1] /\ k \in 1..(n + 1)
          BY <1>5, <1>8, <3>1
    <3>. QED BY <3>2
  <2>2. CASE x > Len(S)
    <3>1. n + 1 \in 1..(n + 1) /\ n + 1 + 1 = n + 2
          BY <1>3
    <3>2. to[n + 1] < x /\ x <= to[n + 1 + 1]
          BY <1>1, <1>3, <1>5, <1>6, <2>2, <3>1
    <3>. QED BY <3>1, <3>2
  <2>. QED BY <1>3, <2>1, <2>2
<1>12. to[1] = 0
  <2>1. 1 \in 1..(n + 1)
        BY <1>3
  <2>. QED BY <1>1, <1>5, <2>1
<1>13. Len(to) = Len(G) + 1 /\ to[Len(G) + 1] = Len(T)
  <2>1. n + 1 + 1 = n + 2
        BY <1>3
  <2>. QED BY <1>4, <1>5, <1>6, <2>1
<1>14. Len(G) + 1 = n + 2
      BY <1>3, <1>4
<1>15. Laid(G, to, T)
      BY <1>4, <1>5, <1>6, <1>10, <1>11, <1>12, <1>13, <1>14, <1>17 DEF Laid
<1>. QED BY <1>15 DEF G, to, T, e

\* The two parts of a sequence cut behind its n-th element.
LEMMA Cut ==
    ASSUME NEW S, NEW s \in Seq(S), NEW n \in 0..Len(s)
    PROVE  LET a == SubSeq(s, 1, n)
               b == SubSeq(s, n + 1, Len(s))
           IN  /\ a \in Seq(S) /\ Len(a) = n /\ \A i \in 1..n : a[i] = s[i]
               /\ b \in Seq(S) /\ Len(b) = Len(s) - n /\ Len(b) \in Nat
               /\ \A i \in 1..Len(b) : b[i] = s[n + i]
<1>1. Len(s) \in Nat /\ n \in Nat /\ n <= Len(s) /\ \A i \in 1..Len(s) : s[i] \in S
      BY LenProperties, ElementOfSeq
<1>2. \A i \in 1..n : i \in 1..Len(s)
      BY <1>1
<1>3. \A i \in (n + 1)..Len(s) : i \in 1..Len(s)
      BY <1>1
<1>4. n - 1 + 1 = n /\ Len(s) - (n + 1) + 1 = Len(s) - n /\ Len(s) - n \in Nat
      BY <1>1
<1>5. \A i \in 1..n : 1 + i - 1 = i
      BY <1>1
<1>6. \A i \in 1..(Len(s) - n) : n + 1 + i - 1 = n + i
      BY <1>1
<1>7. /\ SubSeq(s, 1, n) \in Seq(S)
      /\ Len(SubSeq(s, 1, n)) = IF 1 <= n THEN n - 1 + 1 ELSE 0
      /\ \A i \in 1..n - 1 + 1 : SubSeq(s, 1, n)[i] = s[1 + i - 1]
      BY <1>1, <1>2, SubSeqProperties
<1>8. /\ SubSeq(s, n + 1, Len(s)) \in Seq(S)
      /\ Len(SubSeq(s, n + 1, Len(s))) = IF n + 1 <= Len(s) THEN Len(s) - (n + 1) + 1 ELSE 0
      /\ \A i \in 1..Len(s) - (n + 1) + 1 : SubSeq(s, n + 1, Len(s))[i] = s[n + 1 + i - 1]
      BY <1>1, <1>3, SubSeqProperties
<1>9. (IF 1 <= n THEN n - 1 + 1 ELSE 0) = n
      BY <1>1
<1>10. (IF n + 1 <= Len(s) THEN Len(s) - (n + 1) + 1 ELSE 0) = Len(s) - n
      BY <1>1
<1>. QED BY <1>4, <1>5, <1>6, <1>7, <1>8, <1>9, <1>10

\* b, then w, is what stands in S behind p.
Window(b, w, S, p) ==
    /\ b \in Seq(Cell) /\ w \in Seq(Cell) /\ S \in Seq(Cell) /\ p \in Nat
    /\ p + Len(b) + Len(w) <= Len(S)
    /\ \A i \in 1..Len(b) : b[i] = S[p + i]
    /\ \A i \in 1..Len(w) : w[i] = S[p + Len(b) + i]

\* A read moves the first bytes of w behind those of b.
LEMMA WindowRead ==
    ASSUME NEW b, NEW w, NEW S, NEW p, Window(b, w, S, p), NEW n \in 0..Len(w)
    PROVE  LET c == b \o SubSeq(w, 1, n)
               v == SubSeq(w, n + 1, Len(w))
           IN  Window(c, v, S, p) /\ Len(c) = Len(b) + n /\ Len(c) + Len(v) = Len(b) + Len(w)
<1> DEFINE a == SubSeq(w, 1, n)
           c == b \o a
           v == SubSeq(w, n + 1, Len(w))
<1>1. /\ b \in Seq(Cell) /\ w \in Seq(Cell) /\ S \in Seq(Cell) /\ p \in Nat
      /\ p + Len(b) + Len(w) <= Len(S)
      /\ \A i \in 1..Len(b) : b[i] = S[p + i]
      /\ \A i \in 1..Len(w) : w[i] = S[p + Len(b) + i]
      BY DEF Window
<1>2. Len(b) \in Nat /\ Len(w) \in Nat /\ Len(S) \in Nat /\ n \in Nat /\ n <= Len(w)
      BY <1>1, LenProperties
<1>3. /\ a \in Seq(Cell) /\ Len(a) = n /\ \A i \in 1..n : a[i] = w[i]
      /\ v \in Seq(Cell) /\ Len(v) = Len(w) - n
      /\ \A i \in 1..Len(v) : v[i] = w[n + i]
      BY <1>1, Cut
<1> HIDE DEF a, v
<1>4. /\ c \in Seq(Cell) /\ Len(c) = Len(b) + n
      /\ \A i \in 1..Len(b) : c[i] = b[i]
      /\ \A i \in 1..n : c[Len(b) + i] = a[i]
  <2>1. b \in Seq(Cell) /\ a \in Seq(Cell) /\ Len(a) = n
        BY <1>1, <1>3
  <2>2. /\ c \in Seq(Cell) /\ Len(c) = Len(b) + Len(a)
        /\ \A i \in 1..Len(b) : c[i] = b[i]
        /\ \A i \in 1..Len(a) : c[Len(b) + i] = a[i]
    <3>1. \A t \in Seq(Cell) :
             /\ b \o t \in Seq(Cell) /\ Len(b \o t) = Len(b) + Len(t)
             /\ \A i \in 1..Len(b) : (b \o t)[i] = b[i]
             /\ \A i \in 1..Len(t) : (b \o t)[Len(b) + i] = t[i]
          BY <2>1, Joined
    <3>. QED BY <2>1, <3>1, Zenon DEF c
  <2>. QED BY <2>1, <2>2
<1> HIDE DEF c
<1>5. ASSUME NEW i \in 1..Len(c) PROVE c[i] = S[p + i]
  <2>1. CASE i <= Len(b)
    <3>1. i \in 1..Len(b)
          BY <1>2, <1>4, <2>1
    <3>. QED BY <1>1, <1>4, <3>1
  <2>2. CASE i > Len(b)
    <3>1. PICK j \in 1..n : Len(b) + j = i /\ j \in 1..Len(w) /\ p + Len(b) + j = p + i
      <4>1. i - Len(b) \in Nat /\ i - Len(b) \in 1..n
            BY <1>2, <1>4, <2>2
      <4>2. i \in Nat /\ p \in Nat /\ Len(b) \in Nat /\ n <= Len(w) /\ Len(w) \in Nat
            BY <1>1, <1>2, <1>4
      <4>. QED BY <4>1, <4>2
    <3>2. c[Len(b) + j] = a[j] /\ a[j] = w[j]
          BY <1>3, <1>4
    <3>3. w[j] = S[p + Len(b) + j]
          BY <1>1, <3>1
    <3>. QED BY <3>1, <3>2, <3>3
  <2>3. i \in Nat /\ Len(b) \in Nat
        BY <1>2, <1>4
  <2>. QED BY <2>1, <2>2, <2>3
<1>6. ASSUME NEW i \in 1..Len(v) PROVE v[i] = S[p + Len(c) + i]
  <2>1. n + i \in 1..Len(w) /\ p + Len(b) + (n + i) = p + Len(c) + i
        BY <1>1, <1>2, <1>3, <1>4
  <2>. QED BY <1>1, <1>3, <2>1
<1>7. Len(c) + Len(v) = Len(b) + Len(w) /\ p + Len(c) + Len(v) <= Len(S)
      BY <1>1, <1>2, <1>3, <1>4
<1>8. Window(c, v, S, p)
      BY <1>1, <1>3, <1>4, <1>5, <1>6, <1>7 DEF Window
<1>. QED BY <1>4, <1>7, <1>8 DEF a, c, v

\* A frame taken from the front moves the window on.
LEMMA WindowDrop ==
    ASSUME NEW b, NEW w, NEW S, NEW p, Window(b, w, S, p), NEW m \in 0..Len(b)
    PROVE  LET c == SubSeq(b, m + 1, Len(b))
           IN  Window(c, w, S, p + m) /\ Len(c) = Len(b) - m
<1> DEFINE c == SubSeq(b, m + 1, Len(b))
<1>1. /\ b \in Seq(Cell) /\ w \in Seq(Cell) /\ S \in Seq(Cell) /\ p \in Nat
      /\ p + Len(b) + Len(w) <= Len(S)
      /\ \A i \in 1..Len(b) : b[i] = S[p + i]
      /\ \A i \in 1..Len(w) : w[i] = S[p + Len(b) + i]
      BY DEF Window
<1>2. Len(b) \in Nat /\ Len(w) \in Nat /\ Len(S) \in Nat /\ m \in Nat /\ m <= Len(b)
      BY <1>1, LenProperties
<1>3. c \in Seq(Cell) /\ Len(c) = Len(b) - m /\ \A i \in 1..Len(c) : c[i] = b[m + i]
      BY <1>1, Cut
<1> HIDE DEF c
<1>4. ASSUME NEW i \in 1..Len(c) PROVE c[i] = S[p + m + i]
  <2>1. m + i \in 1..Len(b) /\ p + (m + i) = p + m + i
        BY <1>1, <1>2, <1>3
  <2>. QED BY <1>1, <1>3, <2>1
<1>5. p + m + Len(c) = p + Len(b) /\ p + m \in Nat
      BY <1>1, <1>2, <1>3
<1>6. Window(c, w, S, p + m)
      BY <1>1, <1>3, <1>4, <1>5 DEF Window
<1>. QED BY <1>3, <1>6 DEF c

\* A connection that breaks loses the end of w.
LEMMA WindowTruncate ==
    ASSUME NEW b, NEW w, NEW S, NEW p, Window(b, w, S, p), NEW n \in 0..Len(w)
    PROVE  Window(b, SubSeq(w, 1, n), S, p)
<1> DEFINE a == SubSeq(w, 1, n)
<1>1. /\ b \in Seq(Cell) /\ w \in Seq(Cell) /\ S \in Seq(Cell) /\ p \in Nat
      /\ p + Len(b) + Len(w) <= Len(S)
      /\ \A i \in 1..Len(b) : b[i] = S[p + i]
      /\ \A i \in 1..Len(w) : w[i] = S[p + Len(b) + i]
      BY DEF Window
<1>2. Len(b) \in Nat /\ Len(w) \in Nat /\ Len(S) \in Nat /\ n \in Nat /\ n <= Len(w)
      BY <1>1, LenProperties
<1>3. a \in Seq(Cell) /\ Len(a) = n /\ \A i \in 1..n : a[i] = w[i]
      BY <1>1, Cut
<1> HIDE DEF a
<1>4. \A i \in 1..n : i \in 1..Len(w)
      BY <1>2
<1>5. p + Len(b) + Len(a) <= Len(S)
      BY <1>1, <1>2, <1>3
<1>6. Window(b, a, S, p)
      BY <1>1, <1>3, <1>4, <1>5 DEF Window
<1>. QED BY <1>6 DEF a

\* What the server writes comes behind w.
LEMMA WindowExtend ==
    ASSUME NEW b, NEW w, NEW S, NEW p, Window(b, w, S, p), p + Len(b) + Len(w) = Len(S),
           NEW e \in Seq(Cell)
    PROVE  Window(b, w \o e, S \o e, p) /\ p + Len(b) + Len(w \o e) = Len(S \o e)
<1> DEFINE v == w \o e
           T == S \o e
<1>1. /\ b \in Seq(Cell) /\ w \in Seq(Cell) /\ S \in Seq(Cell) /\ p \in Nat
      /\ p + Len(b) + Len(w) = Len(S)
      /\ \A i \in 1..Len(b) : b[i] = S[p + i]
      /\ \A i \in 1..Len(w) : w[i] = S[p + Len(b) + i]
      BY DEF Window
<1>2. Len(b) \in Nat /\ Len(w) \in Nat /\ Len(S) \in Nat /\ Len(e) \in Nat
      BY <1>1, LenProperties
<1>3. /\ v \in Seq(Cell) /\ Len(v) = Len(w) + Len(e)
      /\ \A i \in 1..Len(w) : v[i] = w[i]
      /\ \A i \in 1..Len(e) : v[Len(w) + i] = e[i]
      BY <1>1, Joined
<1>4. /\ T \in Seq(Cell) /\ Len(T) = Len(S) + Len(e)
      /\ \A i \in 1..Len(S) : T[i] = S[i]
      /\ \A i \in 1..Len(e) : T[Len(S) + i] = e[i]
      BY <1>1, Joined
<1> HIDE DEF v, T
<1>5. ASSUME NEW i \in 1..Len(b) PROVE b[i] = T[p + i]
  <2>1. p + i \in 1..Len(S)
        BY <1>1, <1>2
  <2>. QED BY <1>1, <1>4, <2>1
<1>6. ASSUME NEW i \in 1..Len(v) PROVE v[i] = T[p + Len(b) + i]
  <2>1. CASE i <= Len(w)
    <3>1. i \in 1..Len(w) /\ p + Len(b) + i \in 1..Len(S)
          BY <1>1, <1>2, <1>3, <2>1
    <3>. QED BY <1>1, <1>3, <1>4, <3>1
  <2>2. CASE i > Len(w)
    <3>1. PICK j \in 1..Len(e) : Len(w) + j = i
      <4>1. i \in Nat /\ i <= Len(w) + Len(e)
            BY <1>2, <1>3
      <4>2. i - Len(w) \in 1..Len(e) /\ Len(w) + (i - Len(w)) = i
            BY <1>2, <2>2, <4>1
      <4>. QED BY <4>2
    <3>2. Len(S) + j = p + Len(b) + i
      <4>2. p \in Nat /\ j \in Nat /\ i \in Nat /\ Len(b) \in Nat /\ Len(w) \in Nat /\ Len(S) \in Nat
        <5>1. \A k \in Nat : \A m \in 1..k : m \in Nat
              OBVIOUS
        <5>2. Len(v) \in Nat
              BY <1>2, <1>3
        <5>. QED BY <1>1, <1>2, <5>1, <5>2, Zenon
      <4>3. p + Len(b) + Len(w) = Len(S) /\ Len(w) + j = i
            BY <1>1, <3>1
      <4>. QED BY <4>2, <4>3
    <3>. QED BY <1>3, <1>4, <3>1, <3>2
  <2>3. i \in Nat /\ Len(w) \in Nat
        BY <1>2, <1>3
  <2>. QED BY <2>1, <2>2, <2>3
<1>7. p + Len(b) + Len(v) = Len(T)
  <2>2. p + Len(b) + (Len(w) + Len(e)) = Len(S) + Len(e)
    <3>1. p \in Nat /\ Len(b) \in Nat /\ Len(w) \in Nat /\ Len(e) \in Nat /\ Len(S) \in Nat
          /\ p + Len(b) + Len(w) = Len(S)
          BY <1>1, <1>2
    <3>. QED BY <3>1
  <2>3. Len(v) = Len(w) + Len(e) /\ Len(T) = Len(S) + Len(e)
        BY <1>3, <1>4
  <2>. QED BY <2>2, <2>3, Zenon
<1>8. Len(T) <= Len(T)
      BY <1>2, <1>4
<1>9. Window(b, v, T, p)
      BY <1>1, <1>3, <1>4, <1>5, <1>6, <1>7, <1>8 DEF Window
<1>. QED BY <1>7, <1>9 DEF v, T

\* What decode returns at the beginning of a frame,
LEMMA DecodeAt ==
    ASSUME NEW F, NEW off, NEW S, Laid(F, off, S), NEW k \in 1..Len(F),
           NEW b, NEW w, Window(b, w, S, off[k])
    PROVE  /\ Len(b) \in Nat /\ F[k] \in WireFrames
           /\ Len(b) < Len(encode(F[k])) => decode(b) = [result |-> "none"]
           /\ Len(b) >= Len(encode(F[k])) =>
                 decode(b) = [result |-> "frame", frame |-> F[k],
                              rest |-> SubSeq(b, Len(encode(F[k])) + 1, Len(b))]
<1>1. F[k] \in WireFrames
  <2>1. F \in Seq(WireFrames)
        BY DEF Laid
  <2>. QED BY <2>1, ElementOfSeq
<1>2. F[k] \in FramesOver(Byte) /\ Len(F[k].padding) < U16
      BY <1>1 DEF WireFrames
<1>3. \A i \in 1..Len(encode(F[k])) : S[off[k] + i] = encode(F[k])[i]
      BY DEF Laid
<1>4. b \in Seq(Cell) /\ \A i \in 1..Len(b) : b[i] = S[off[k] + i]
      BY DEF Window
<1>5. Len(b) \in Nat /\ Len(encode(F[k])) \in Nat
      BY <1>1, <1>4, FrameBytes, LenProperties
<1>6. ASSUME NEW i \in 1..Len(b), i <= Len(encode(F[k])) PROVE b[i] = encode(F[k])[i]
  <2>1. i \in 1..Len(encode(F[k]))
        BY <1>5, <1>6
  <2>. QED BY <1>3, <1>4, <2>1
<1>. QED BY <1>1, <1>2, <1>4, <1>5, <1>6, RoundTrip

\* behind the last one,
LEMMA DecodeEnd ==
    ASSUME NEW b, NEW w, NEW S, Window(b, w, S, Len(S))
    PROVE  b = <<>> /\ w = <<>> /\ decode(b) = [result |-> "none"]
<1>1. b \in Seq(Cell) /\ w \in Seq(Cell) /\ S \in Seq(Cell) /\ Len(S) + Len(b) + Len(w) <= Len(S)
      BY DEF Window
<1>2. Len(b) \in Nat /\ Len(w) \in Nat /\ Len(S) \in Nat
      BY <1>1, LenProperties
<1>3. Len(b) = 0 /\ Len(w) = 0
      BY <1>1, <1>2
<1>4. b = <<>> /\ w = <<>>
      BY <1>1, <1>3, EmptySeq
<1>. QED BY <1>3, <1>4 DEF decode, HEADER_LEN

\* and inside one that follows the ack: it is never a frame.
LEMMA DecodeInside ==
    ASSUME PaddingMax < U16,
           NEW F, NEW off, NEW S, Laid(F, off, S), NEW k \in 1..Len(F), F[k] \in DataFrames \cup {Kick},
           NEW b, NEW w, NEW p, Window(b, w, S, p), off[k] < p, p < off[k + 1]
    PROVE  decode(b).result # "frame"
<1> DEFINE e == encode(F[k])
           i == p - off[k] + 1
<1>1. F[k] \in WireFrames
  <2>1. F \in Seq(WireFrames)
        BY DEF Laid
  <2>. QED BY <2>1, ElementOfSeq
<1>2. /\ b \in Seq(Cell) /\ p \in Nat
      /\ \A j \in 1..Len(b) : b[j] = S[p + j]
      BY DEF Window
<1>3. /\ off[k + 1] = off[k] + Len(e)
      /\ \A j \in 1..Len(e) : S[off[k] + j] = e[j]
      BY DEF Laid
<1>4. Len(b) \in Nat /\ Len(e) \in Nat
      BY <1>1, <1>2, FrameBytes, LenProperties
<1>5. off[k] \in Nat
  <2>1. off \in Seq(Nat) /\ Len(off) = Len(F) + 1 /\ Len(F) \in Nat
        BY LenProperties DEF Laid
  <2>2. k \in 1..Len(off)
        BY <2>1
  <2>. QED BY <2>1, <2>2, ElementOfSeq
<1> HIDE DEF e
<1>6. i \in 2..Len(e)
      BY <1>2, <1>3, <1>4, <1>5
<1>7. SUFFICES ASSUME Len(b) >= HEADER_LEN, HeaderValid(b) PROVE FALSE
  <2>1. [result |-> "none"].result # "frame" /\ [result |-> "error"].result # "frame"
        OBVIOUS
  <2>. QED BY <1>4, <2>1 DEF decode, HEADER_LEN
<1>8. 1 \in 1..Len(b) /\ 2 \in 1..Len(b) /\ 3 \in 1..Len(b)
      BY <1>4, <1>7 DEF HEADER_LEN
<1>9. b[1] = S[p + 1] /\ b[2] = S[p + 2] /\ b[3] = S[p + 3]
      BY <1>2, <1>8
<1>10. off[k] + i = p + 1 /\ off[k] + (i + 1) = p + 2 /\ off[k] + (i + 2) = p + 3
      BY <1>2, <1>5
<1> HIDE DEF i
<1>11. e[i] = MAGIC
      BY <1>3, <1>6, <1>7, <1>9, <1>10 DEF HeaderValid
<1>12. /\ i + 2 <= Len(e)
       /\ ~(e[i + 1] = VERSION /\ \E t \in FrameTypes : e[i + 2] = <<TypeByte[t]>>)
      BY <1>6, <1>11, NoHeaderInside DEF e
<1>13. i + 1 \in 1..Len(e) /\ i + 2 \in 1..Len(e)
      BY <1>4, <1>6, <1>12
<1>14. e[i + 1] = b[2] /\ e[i + 2] = b[3]
      BY <1>3, <1>9, <1>10, <1>13
<1>. QED BY <1>7, <1>12, <1>14 DEF HeaderValid
-------------------------------------------------------------------------------
(* The invariant: what is under way between the ends *)

\* No connection: all its locals are gone.
Idle == /\ cpc \in {"dialing", "ended", "sleeping", "gaveup", "terminated"}
        /\ srv = "none" /\ session = <<>> /\ request = <<>> /\ wire = <<>> /\ buf = <<>>
        /\ sent = <<>> /\ dispatched = <<>> /\ dropped = <<>>

\* F is all that the server wrote: nothing yet, a refusal, or the ack, the
\* frames that followed it, and the one that kicks the client.
Asked(F) == /\ F = <<>> /\ sent = <<>>
            /\ \/ srv = "reading" /\ skew \in Int /\ request = encode(Request(version, token, Now + skew))
               \/ srv = "closed"
Refused(F) == F = <<Refusal>> /\ sent = <<>> /\ srv = "closed"
Welcomed(F) ==
    /\ token = ServerToken /\ version = ServerVersion /\ skew \in (-ClockWindow)..ClockWindow
    /\ srvSession \in SessionIds
    /\ srv \in {"established", "kicked", "closed"}
    /\ F \in Seq(WireFrames) /\ sent \in Seq(DataFrames)
    /\ Len(F) = Len(sent) + 1 \/ (Len(F) = Len(sent) + 2 /\ F[Len(sent) + 2] = Kick /\ srv # "established")
    /\ F[1] = Ack(srvSession)
    /\ \A i \in 1..Len(sent) : F[i + 1] = sent[i]

\* What the client read and what is on the way is what stands behind p.
Bytes(F, off, S, p) == /\ Laid(F, off, S)
                       /\ Window(buf, wire, S, p)
                       /\ srv # "closed" => p + Len(buf) + Len(wire) = Len(S)

Waiting(F, p) == /\ cpc = "waiting" /\ p = 0 /\ dispatched = <<>> /\ dropped = <<>>
                 /\ Asked(F) \/ Refused(F) \/ Welcomed(F)

\* The read loop is at the beginning of a frame, j frames having gone with the
\* dialer's buffer, or inside one, of which the dialer's buffer held the beginning.
Aligned(F, off, p) ==
    \E j \in Nat :
        /\ Len(dispatched) + 2 + j <= Len(F) + 1
        /\ p = off[Len(dispatched) + 2 + j]
        /\ dropped = <<>> => j = 0
        /\ dispatched # <<>> => Len(dispatched) + j <= Len(sent)
        /\ \A i \in 1..Len(dispatched) : dispatched[i] = sent[i + j]
Adrift(F, off, p) ==
    /\ dispatched = <<>> /\ dropped # <<>>
    /\ \E k \in 2..Len(F) : off[k] < p /\ p < off[k + 1]

Serving(F, off, p) ==
    /\ cpc = "serving" /\ session = srvSession /\ dispatched \in Seq(DataFrames)
    /\ Welcomed(F)
    /\ Aligned(F, off, p) \/ Adrift(F, off, p)

LinkInv == \/ Idle
           \/ \E F, off, S, p : Bytes(F, off, S, p) /\ (Waiting(F, p) \/ Serving(F, off, p))

\* The frames behind the ack.
LEMMA BehindTheAck ==
    ASSUME NEW F, Welcomed(F), NEW k \in 2..Len(F)
    PROVE  /\ F[k] \in DataFrames \cup {Kick}
           /\ k - 1 \in 1..Len(sent) => F[k] = sent[k - 1] /\ F[k] \in DataFrames
           /\ k - 1 \notin 1..Len(sent) => F[k] = Kick
<1>1. /\ sent \in Seq(DataFrames) /\ F \in Seq(WireFrames)
      /\ \A i \in 1..Len(sent) : F[i + 1] = sent[i]
      /\ Len(F) = Len(sent) + 1 \/ (Len(F) = Len(sent) + 2 /\ F[Len(sent) + 2] = Kick)
      BY DEF Welcomed
<1>2. Len(sent) \in Nat /\ Len(F) \in Nat
      BY <1>1, LenProperties
<1>3. CASE k - 1 \in 1..Len(sent)
  <2>1. (k - 1) + 1 = k
        BY <1>2
  <2>. QED BY <1>1, <1>3, <2>1, ElementOfSeq
<1>4. CASE k - 1 \notin 1..Len(sent)
  <2>1. k = Len(sent) + 2 /\ Len(F) = Len(sent) + 2
        BY <1>1, <1>2, <1>4
  <2>. QED BY <1>1, <1>4, <2>1
<1>. QED BY <1>3, <1>4

\* run_once returns.
LEMMA ReturnIdle ==
    ASSUME NEW to \in {"ended", "terminated"}, Return(to)
    PROVE  Idle'
BY DEF Return, Idle

LEMMA StartIdle == Init => LinkInv
BY DEF Init, LinkInv, Idle

LEMMA DialStep ==
    ASSUME LinkInv, Dial
    PROVE  LinkInv'
<1>1. Idle
      BY DEF LinkInv, Dial, Waiting, Serving
<1>2. <<>> \in Seq(Cell) /\ Len(<<>>) = 0
      BY EmptySeq
<1>3. Window(<<>>, <<>>, <<>>, 0)
      BY <1>2 DEF Window
<1>4. /\ buf' = <<>> /\ wire' = <<>> /\ srv' = "reading" /\ cpc' = "waiting"
      /\ dispatched' = <<>> /\ dropped' = <<>> /\ sent' = <<>> /\ token' = token /\ version' = version
      BY <1>1 DEF Dial, Idle
<1>5. skew' \in Int /\ request' = encode(Request(version', token', Now + skew'))
      BY <1>4, LinkAssumption DEF Dial, Request
<1>6. Bytes(<<>>, <<0>>, <<>>, 0)'
      BY <1>2, <1>3, <1>4, NothingLaid DEF Bytes
<1>7. Asked(<<>>)'
      BY <1>4, <1>5 DEF Asked
<1>8. Waiting(<<>>, 0)'
      BY <1>4, <1>7 DEF Waiting
<1>. QED BY <1>6, <1>8 DEF LinkInv

\* Behind the ack the client is at the beginning of a frame, or inside one if
\* the dialer's buffer goes with a part of it.
LEMMA HandedOver ==
    ASSUME NEW F, NEW off, NEW S, Laid(F, off, S), NEW p \in Nat, 2 <= Len(off), off[2] <= p, p <= Len(S)
    PROVE  \E k \in 2..(Len(F) + 1) : p = off[k] \/ (k <= Len(F) /\ off[k] < p /\ p < off[k + 1])
<1>1. /\ Len(off) = Len(F) + 1
      /\ \A x \in 1..Len(S) : \E k \in 1..Len(F) : off[k] < x /\ x <= off[k + 1]
      /\ off \in Seq(Nat) /\ Len(F) \in Nat /\ Len(S) \in Nat
      BY LenProperties DEF Laid
<1>2. \A k \in 1..(Len(F) + 1) : off[k] \in Nat
      BY <1>1, ElementOfSeq
<1>3. 2 \in 2..(Len(F) + 1) /\ 2 \in 1..(Len(F) + 1)
      BY <1>1
<1>4. CASE p = off[2]
      BY <1>3, <1>4
<1>5. CASE p # off[2]
  <2>1. off[2] \in Nat /\ off[2] < p /\ p \in 1..Len(S)
        BY <1>1, <1>2, <1>3, <1>5
  <2>2. PICK k \in 1..Len(F) : off[k] < p /\ p <= off[k + 1]
        BY <1>1, <2>1
  <2>3. k # 1
    <3>1. k = 1 => p <= off[2]
          BY <2>2
    <3>. QED BY <2>1, <3>1
  <2>4. k \in 2..(Len(F) + 1) /\ k + 1 \in 2..(Len(F) + 1) /\ k <= Len(F) /\ k + 1 \in 1..(Len(F) + 1)
        BY <1>1, <2>3
  <2>5. off[k + 1] \in Nat
        BY <1>2, <2>4
  <2>6. p = off[k + 1] \/ p < off[k + 1]
        BY <2>2, <2>5
  <2>. QED BY <2>2, <2>4, <2>6
<1>. QED BY <1>4, <1>5

LEMMA HandshakeStep ==
    ASSUME LinkInv, ReadHandshake, PaddingMax < U16
    PROVE  LinkInv'
<1>1. PICK F, off, S, p : Bytes(F, off, S, p) /\ Waiting(F, p)
      BY DEF LinkInv, ReadHandshake, Idle, Serving
<1>2. PICK n \in 1..Len(wire) :
          LET b == buf \o SubSeq(wire, 1, n)
              d == decode(b)
              left == SubSeq(wire, n + 1, Len(wire))
          IN  IF d.result # "none" THEN FirstFrame(d, left)
              ELSE /\ buf' = b /\ wire' = left
                   /\ UNCHANGED <<cpc, busy, skew, session, dropped, srv, request, sent, dispatched>>
      BY DEF ReadHandshake
<1>3. UNCHANGED <<token, version, srvSession>>
      BY DEF ReadHandshake, runVars
<1> DEFINE b == buf \o SubSeq(wire, 1, n)
           d == decode(b)
           left == SubSeq(wire, n + 1, Len(wire))
<1>4. Laid(F, off, S) /\ Window(buf, wire, S, 0) /\ (srv # "closed" => 0 + Len(buf) + Len(wire) = Len(S)) /\ p = 0
      BY <1>1 DEF Bytes, Waiting
<1>5. buf \in Seq(Cell) /\ wire \in Seq(Cell) /\ Len(buf) \in Nat /\ Len(wire) \in Nat /\ n \in Nat /\ 1 <= n /\ n <= Len(wire)
      BY <1>4, LenProperties DEF Window
<1>6. Window(b, left, S, 0) /\ Len(b) = Len(buf) + n /\ Len(b) + Len(left) = Len(buf) + Len(wire)
  <2>1. n \in 0..Len(wire)
        BY <1>5
  <2>. QED BY <1>4, <2>1, WindowRead
<1> HIDE DEF b, left, d
<1>7. Len(b) \in Nat /\ Len(left) \in Nat /\ Len(S) \in Nat /\ Len(b) >= 1 /\ Len(b) <= Len(S)
  <2>1. b \in Seq(Cell) /\ left \in Seq(Cell) /\ S \in Seq(Cell) /\ 0 + Len(b) + Len(left) <= Len(S)
        BY <1>6 DEF Window
  <2>2. Len(b) \in Nat /\ Len(left) \in Nat /\ Len(S) \in Nat
        BY <2>1, LenProperties
  <2>. QED BY <1>5, <1>6, <2>1, <2>2
<1>8. srv # "closed" => 0 + Len(b) + Len(left) = Len(S)
      BY <1>4, <1>5, <1>6, <1>7
<1>9. CASE d.result = "none"
  <2>1. /\ buf' = b /\ wire' = left
        /\ UNCHANGED <<cpc, busy, skew, session, dropped, srv, request, sent, dispatched>>
        BY <1>2, <1>9 DEF b, d, left
  <2>2. Bytes(F, off, S, 0)'
        BY <1>4, <1>6, <1>8, <2>1 DEF Bytes
  <2>3. Waiting(F, 0)'
    <3>1. cpc = "waiting" /\ dispatched = <<>> /\ dropped = <<>> /\ (Asked(F) \/ Refused(F) \/ Welcomed(F))
          BY <1>1 DEF Waiting
    <3>2. (Asked(F) \/ Refused(F) \/ Welcomed(F))'
          BY <1>3, <2>1, <3>1 DEF Asked, Refused, Welcomed
    <3>. QED BY <2>1, <3>1, <3>2 DEF Waiting
  <2>. QED BY <2>2, <2>3 DEF LinkInv
<1>10. CASE d.result # "none"
  <2>1. FirstFrame(d, left)
        BY <1>2, <1>10 DEF b, d, left
  <2>2. CASE Return("ended")
        BY <2>2, ReturnIdle DEF LinkInv
  <2>3. CASE ~Return("ended")
    <3>1. /\ d.result = "frame" /\ d.frame.type = "HandshakeAck"
          /\ cpc' = "serving"
          /\ session' = decode_ack(d.frame.payload).ack.session_id
          /\ buf' = <<>> /\ dropped' = d.rest /\ wire' = left
          /\ UNCHANGED <<skew, srv, request, sent, dispatched>>
          BY <2>1, <2>3 DEF FirstFrame
    <3>2. Len(F) \in Nat /\ Len(off) = Len(F) + 1 /\ off[1] = 0 /\ off[Len(F) + 1] = Len(S)
          /\ F \in Seq(WireFrames)
          BY <1>4, LenProperties DEF Laid
    <3>3. 1 \in 1..Len(F)
      <4>1. Len(F) = 0 => Len(S) = 0
            BY <3>2
      <4>. QED BY <1>7, <3>2, <4>1
    <3>4. Window(b, left, S, off[1])
          BY <1>6, <3>2
    <3>5. /\ F[1] \in WireFrames
          /\ Len(b) < Len(encode(F[1])) => d = [result |-> "none"]
          /\ Len(b) >= Len(encode(F[1])) =>
                d = [result |-> "frame", frame |-> F[1],
                     rest |-> SubSeq(b, Len(encode(F[1])) + 1, Len(b))]
          BY <1>4, <3>3, <3>4, DecodeAt DEF d
    <3> DEFINE m == Len(encode(F[1]))
    <3>6. m \in Nat /\ m >= 7
          BY <3>5, FrameBytes
    <3> HIDE DEF m
    <3>7. m <= Len(b) /\ d.frame = F[1] /\ d.rest = SubSeq(b, m + 1, Len(b))
      <4>1. ~(Len(b) < m)
            BY <3>1, <3>5 DEF m
      <4>2. Len(b) >= m
            BY <1>7, <3>6, <4>1
      <4>. QED BY <3>5, <4>2, <1>7, <3>6 DEF m
    <3>8. Welcomed(F)
      <4>1. ~Asked(F)
        <5>1. F = <<>> => Len(F) = 0
              OBVIOUS
        <5>. QED BY <3>2, <3>3, <5>1 DEF Asked
      <4>2. ~Refused(F)
        <5>1. SUFFICES ASSUME F = <<Refusal>> PROVE FALSE
              BY DEF Refused
        <5>2. F[1] = Refusal
              BY <5>1
        <5>. QED BY <3>1, <3>7, <5>2, ServerFrames
      <4>. QED BY <1>1, <4>1, <4>2 DEF Waiting
    <3>9. Welcomed(F)'
          BY <1>3, <3>1, <3>8 DEF Welcomed
    <3>10. session' = srvSession'
      <4>1. F[1] = Ack(srvSession) /\ srvSession \in SessionIds
            BY <3>8 DEF Welcomed
      <4>. QED BY <1>3, <3>1, <3>7, <4>1, AckCarriesSession
    <3>11. Window(<<>>, left, S, Len(b)) /\ Len(<<>>) = 0
      <4>1. Len(b) \in 0..Len(b) /\ 0 + Len(b) = Len(b) /\ Len(b) - Len(b) = 0
            BY <1>7
      <4>2. LET c == SubSeq(b, Len(b) + 1, Len(b))
            IN  Window(c, left, S, 0 + Len(b)) /\ Len(c) = Len(b) - Len(b)
            BY <1>6, <4>1, WindowDrop
      <4>3. SubSeq(b, Len(b) + 1, Len(b)) = <<>>
        <5>1. SubSeq(b, Len(b) + 1, Len(b)) \in Seq(Cell)
              BY <4>2 DEF Window
        <5>. QED BY <4>1, <4>2, <5>1, EmptySeq
      <4>. QED BY <4>1, <4>2, <4>3, EmptySeq
    <3>a. PICK q \in Nat : q = Len(b)
          BY <1>7
    <3>12. Bytes(F, off, S, q)'
      <4>1. srv # "closed" => q + 0 + Len(left) = Len(S)
            BY <1>7, <1>8, <3>a
      <4>. QED BY <1>4, <3>1, <3>11, <3>a, <4>1 DEF Bytes
    <3>13. off[2] = m /\ 2 <= Len(off)
      <4>1. off[1 + 1] = off[1] + Len(encode(F[1]))
            BY <1>4, <3>3 DEF Laid
      <4>. QED BY <3>2, <3>3, <3>6, <4>1 DEF m
    <3>14. PICK k \in 2..(Len(F) + 1) : q = off[k] \/ (k <= Len(F) /\ off[k] < q /\ q < off[k + 1])
          BY <1>4, <1>7, <3>7, <3>13, <3>a, HandedOver
    <3>15. /\ dispatched' = <<>> /\ Len(<<>>) = 0
           BY <1>1, <3>1 DEF Waiting
    <3>16. dropped' = <<>> => q = m
      <4>1. m \in 0..Len(b)
            BY <1>7, <3>6, <3>7
      <4>2. Len(SubSeq(b, m + 1, Len(b))) = Len(b) - m
            BY <1>6, <4>1, WindowDrop
      <4>3. dropped' = <<>> => Len(b) - m = 0
        <5>1. dropped' = SubSeq(b, m + 1, Len(b))
              BY <3>1, <3>7
        <5>2. Len(<<>>) = 0
              BY EmptySeq
        <5>. QED BY <4>2, <5>1, <5>2, Zenon
      <4>. QED BY <1>7, <3>6, <3>a, <4>3
    <3>17. k \in Nat /\ 2 <= k /\ k <= Len(F) + 1
          BY <3>2
    <3>18. CASE q = m
      <4>1. Aligned(F, off, q)'
        <5>1. 0 \in Nat /\ 0 + 2 + 0 = 2 /\ 2 <= Len(F) + 1
              BY <3>2, <3>13
        <5>2. q = off[0 + 2 + 0]
              BY <3>13, <3>18
        <5>. QED BY <3>15, <5>1, <5>2 DEF Aligned
      <4>. QED BY <3>1, <3>9, <3>10, <3>12, <3>15, <4>1, EmptySeq DEF LinkInv, Serving
    <3>19. CASE q = off[k] /\ q # m
      <4>1. PICK j \in Nat : 0 + 2 + j = k
        <5>1. k - 2 \in Nat /\ 0 + 2 + (k - 2) = k
              BY <3>17
        <5>. QED BY <5>1
      <4>2. Aligned(F, off, q)'
        <5>1. \A i \in 1..0 : FALSE
              OBVIOUS
        <5>. QED BY <3>15, <3>16, <3>17, <3>19, <4>1, <5>1 DEF Aligned
      <4>. QED BY <3>1, <3>9, <3>10, <3>12, <3>15, <4>2, EmptySeq DEF LinkInv, Serving
    <3>20. CASE k <= Len(F) /\ off[k] < q /\ q < off[k + 1] /\ q # m
      <4>1. k \in 2..Len(F)
            BY <3>2, <3>17, <3>20
      <4>2. Adrift(F, off, q)'
            BY <3>15, <3>16, <3>20, <4>1 DEF Adrift
      <4>. QED BY <3>1, <3>9, <3>10, <3>12, <3>15, <4>2, EmptySeq DEF LinkInv, Serving
    <3>. QED BY <3>14, <3>18, <3>19, <3>20
  <2>. QED BY <2>2, <2>3
<1>. QED BY <1>9, <1>10

\* The read loop takes a frame from the buffer.
LEMMA DispatchStep ==
    ASSUME LinkInv, Dispatch, PaddingMax < U16
    PROVE  LinkInv'
<1>1. PICK F, off, S, p : Bytes(F, off, S, p) /\ Serving(F, off, p)
      BY DEF LinkInv, Dispatch, Reading, Idle, Waiting
<1> DEFINE d == decode(buf)
<1>2. /\ cpc = "serving" /\ d.result = "frame"
      /\ IF d.frame.type = "Error" THEN Return("terminated")
         ELSE /\ buf' = d.rest
              /\ dispatched' = Append(dispatched, d.frame)
              /\ busy' \in BOOLEAN
              /\ UNCHANGED <<cpc, skew, session, srv, request, wire, sent, dropped>>
      /\ UNCHANGED <<token, version, srvSession>>
      BY DEF Dispatch, Reading, runVars
<1>3. Laid(F, off, S) /\ Window(buf, wire, S, p) /\ (srv # "closed" => p + Len(buf) + Len(wire) = Len(S))
      BY <1>1 DEF Bytes
<1>4. /\ Welcomed(F) /\ session = srvSession /\ dispatched \in Seq(DataFrames)
      /\ Aligned(F, off, p) \/ Adrift(F, off, p)
      BY <1>1 DEF Serving
<1> HIDE DEF d
<1>5. CASE Return("terminated")
      BY <1>5, ReturnIdle DEF LinkInv
<1>6. CASE ~Return("terminated")
  <2>1. /\ d.frame.type # "Error" /\ buf' = d.rest
        /\ dispatched' = Append(dispatched, d.frame)
        /\ UNCHANGED <<cpc, skew, session, srv, request, wire, sent, dropped, token, version, srvSession>>
        BY <1>2, <1>6
  <2>2. /\ Len(F) \in Nat /\ Len(off) = Len(F) + 1 /\ off \in Seq(Nat)
        /\ off[Len(F) + 1] = Len(S) /\ Len(S) \in Nat
        /\ \A k \in 1..Len(F) : off[k + 1] = off[k] + Len(encode(F[k]))
        BY <1>3, LenProperties DEF Laid
  <2>3. Aligned(F, off, p)
    <3>1. SUFFICES ASSUME Adrift(F, off, p) PROVE FALSE
          BY <1>4
    <3>2. PICK k \in 2..Len(F) : off[k] < p /\ p < off[k + 1]
          BY <3>1 DEF Adrift
    <3>3. k \in 1..Len(F)
          BY <2>2
    <3>4. F[k] \in DataFrames \cup {Kick}
          BY <1>4, BehindTheAck
    <3>. QED BY <1>2, <1>3, <3>2, <3>3, <3>4, DecodeInside DEF d
  <2>4. PICK j \in Nat :
             /\ Len(dispatched) + 2 + j <= Len(F) + 1
             /\ p = off[Len(dispatched) + 2 + j]
             /\ dropped = <<>> => j = 0
             /\ dispatched # <<>> => Len(dispatched) + j <= Len(sent)
             /\ \A i \in 1..Len(dispatched) : dispatched[i] = sent[i + j]
        BY <2>3 DEF Aligned
  <2>5. Len(dispatched) \in Nat /\ Len(sent) \in Nat
        BY <1>4, LenProperties DEF Welcomed
  <2>6. PICK k \in Nat, l \in Nat : l = Len(dispatched) /\ k = l + 2 + j
    <3>1. \A l \in Nat : l + 2 + j \in Nat
          OBVIOUS
    <3>. QED BY <2>5, <3>1
  <2>7. k \in 2..(Len(F) + 1) /\ p = off[k]
        BY <2>2, <2>4, <2>6
  <2>8. k # Len(F) + 1
    <3>1. SUFFICES ASSUME k = Len(F) + 1 PROVE FALSE
          OBVIOUS
    <3>2. Window(buf, wire, S, Len(S))
          BY <1>3, <2>2, <2>7, <3>1
    <3>3. d = [result |-> "none"]
          BY <3>2, DecodeEnd DEF d
    <3>. QED BY <1>2, <3>3
  <2>9. k \in 2..Len(F) /\ k \in 1..Len(F) /\ k \in 1..Len(off)
        BY <2>2, <2>7, <2>8
  <2>10. Window(buf, wire, S, off[k])
        BY <1>3, <2>7
  <2>11. /\ F[k] \in WireFrames /\ Len(buf) \in Nat
         /\ Len(buf) < Len(encode(F[k])) => d = [result |-> "none"]
         /\ Len(buf) >= Len(encode(F[k])) =>
               d = [result |-> "frame", frame |-> F[k], rest |-> SubSeq(buf, Len(encode(F[k])) + 1, Len(buf))]
         BY <1>3, <2>9, <2>10, DecodeAt DEF d
  <2> DEFINE m == Len(encode(F[k]))
  <2>12. m \in Nat
         BY <2>11, FrameBytes
  <2>13. m <= Len(buf) /\ d.frame = F[k] /\ d.rest = SubSeq(buf, m + 1, Len(buf))
    <3>1. ~(Len(buf) < Len(encode(F[k])))
          BY <1>2, <2>11
    <3>2. m <= Len(buf) /\ Len(buf) >= m
          BY <2>11, <2>12, <3>1
    <3>. QED BY <2>11, <3>2
  <2>14. Window(buf', wire', S, off[k] + m) /\ Len(buf') = Len(buf) - m
    <3>1. m \in 0..Len(buf)
          BY <2>11, <2>12, <2>13
    <3>. QED BY <2>1, <2>10, <2>13, <3>1, WindowDrop
  <2>15. off[k + 1] = off[k] + m
         BY <2>2, <2>9
  <2>16. Bytes(F, off, S, off[k + 1])'
    <3>1. off[k] \in Nat
          BY <2>2, <2>9, ElementOfSeq
    <3>2. Len(wire) \in Nat
          BY <1>3, LenProperties DEF Window
    <3>3. (off[k] + m) + (Len(buf) - m) + Len(wire) = off[k] + Len(buf) + Len(wire)
          BY <2>11, <2>12, <3>1, <3>2
    <3>4. srv # "closed" => off[k + 1] + Len(buf') + Len(wire') = Len(S)
          BY <1>3, <2>1, <2>7, <2>14, <2>15, <3>3
    <3>. QED BY <1>3, <2>1, <2>14, <2>15, <3>4 DEF Bytes
  <2> HIDE DEF m
  <2>17. k - 1 \in 1..Len(sent) /\ F[k] = sent[k - 1] /\ F[k] \in DataFrames
    <3>1. F[k] # Kick
          BY <2>1, <2>13, ServerFrames
    <3>. QED BY <1>4, <2>9, <3>1, BehindTheAck
  <2>18. /\ dispatched' \in Seq(DataFrames) /\ Len(dispatched') = l + 1
         /\ dispatched'[l + 1] = F[k]
         /\ \A i \in 1..l : dispatched'[i] = dispatched[i]
         BY <1>4, <2>1, <2>6, <2>13, <2>17, AppendProperties
  <2>19. l + 1 + 2 + j = k + 1 /\ l + 1 + 2 + j <= Len(F) + 1 /\ (l + 1) + j = k - 1 /\ k - 1 <= Len(sent)
         BY <2>2, <2>5, <2>6, <2>9, <2>17
  <2>20. ASSUME NEW i \in 1..(l + 1) PROVE dispatched'[i] = sent[i + j]
    <3>1. CASE i = l + 1
          BY <2>17, <2>18, <2>19, <3>1
    <3>2. CASE i # l + 1
      <4>1. i \in 1..l
            BY <2>6, <3>2
      <4>. QED BY <2>4, <2>6, <2>18, <4>1
    <3>. QED BY <3>1, <3>2
  <2>21. Aligned(F, off, off[k + 1])'
         BY <2>1, <2>4, <2>18, <2>19, <2>20 DEF Aligned
  <2>22. Welcomed(F)'
         BY <1>4, <2>1 DEF Welcomed
  <2>23. Serving(F, off, off[k + 1])'
         BY <1>2, <1>4, <2>1, <2>18, <2>21, <2>22 DEF Serving
  <2>. QED BY <2>16, <2>23 DEF LinkInv
<1>. QED BY <1>5, <1>6

\* The next read leaves the read loop where it was.
LEMMA ReadStep ==
    ASSUME LinkInv, ReadMore
    PROVE  LinkInv'
<1>1. PICK F, off, S, p : Bytes(F, off, S, p) /\ Serving(F, off, p)
      BY DEF LinkInv, ReadMore, Reading, Idle, Waiting
<1>2. PICK n \in 1..Len(wire) : buf' = buf \o SubSeq(wire, 1, n) /\ wire' = SubSeq(wire, n + 1, Len(wire))
      BY DEF ReadMore
<1>3. UNCHANGED <<cpc, skew, session, token, version, srv, srvSession, request, sent, dispatched, dropped>>
      BY DEF ReadMore, runVars
<1>4. Laid(F, off, S) /\ Window(buf, wire, S, p) /\ (srv # "closed" => p + Len(buf) + Len(wire) = Len(S))
      BY <1>1 DEF Bytes
<1>5. Window(buf', wire', S, p) /\ Len(buf') + Len(wire') = Len(buf) + Len(wire)
  <2>1. wire \in Seq(Cell)
        BY <1>4 DEF Window
  <2>2. n \in 0..Len(wire)
        BY <2>1, LenProperties
  <2>. QED BY <1>2, <1>4, <2>2, WindowRead
<1>6. p + Len(buf') + Len(wire') = p + Len(buf) + Len(wire)
  <2>1. p \in Nat /\ Len(buf) \in Nat /\ Len(wire) \in Nat /\ Len(buf') \in Nat /\ Len(wire') \in Nat
        BY <1>4, <1>5, LenProperties DEF Window
  <2>. QED BY <1>5, <2>1
<1>7. Bytes(F, off, S, p)'
      BY <1>3, <1>4, <1>5, <1>6 DEF Bytes
<1>8. Serving(F, off, p)'
      BY <1>1, <1>3 DEF Serving, Welcomed, Aligned, Adrift
<1>. QED BY <1>7, <1>8 DEF LinkInv

\* Writing a frame leaves the frames before it, and the client, where they were.
LEMMA WrittenBehind ==
    ASSUME NEW F, NEW off, NEW S, NEW p, NEW f \in WireFrames, Bytes(F, off, S, p), srv # "closed",
           wire' = wire \o encode(f), buf' = buf
    PROVE  LET to == Append(off, Len(S) + Len(encode(f)))
           IN  /\ Bytes(Append(F, f), to, S \o encode(f), p)'
               /\ Len(to) = Len(off) + 1 /\ \A k \in 1..Len(off) : to[k] = off[k]
<1> DEFINE n == Len(S) + Len(encode(f))
<1>1. Laid(F, off, S) /\ Window(buf, wire, S, p) /\ p + Len(buf) + Len(wire) = Len(S)
      BY DEF Bytes
<1>2. encode(f) \in Seq(Cell) /\ Len(encode(f)) \in Nat
      BY FrameBytes
<1>3. n \in Nat /\ off \in Seq(Nat)
  <2>1. S \in Seq(Cell) /\ off \in Seq(Nat)
        BY <1>1 DEF Laid
  <2>. QED BY <1>2, <2>1, LenProperties
<1>4. Laid(Append(F, f), Append(off, n), S \o encode(f))
      BY <1>1, Extend
<1>5. Window(buf, wire', S \o encode(f), p) /\ p + Len(buf) + Len(wire') = Len(S \o encode(f))
      BY <1>1, <1>2, WindowExtend
<1> HIDE DEF n
<1>6. Len(Append(off, n)) = Len(off) + 1 /\ \A k \in 1..Len(off) : Append(off, n)[k] = off[k]
      BY <1>3, AppendProperties
<1>7. Bytes(Append(F, f), Append(off, n), S \o encode(f), p)'
      BY <1>4, <1>5 DEF Bytes
<1>. QED BY <1>6, <1>7 DEF n

LEMMA StillServing ==
    ASSUME NEW F, NEW off, NEW p, NEW f, NEW to, Serving(F, off, p),
           F \in Seq(WireFrames), Len(off) = Len(F) + 1, f \in WireFrames,
           Len(to) = Len(off) + 1, \A k \in 1..Len(off) : to[k] = off[k],
           Welcomed(Append(F, f))', sent \in Seq(DataFrames),
           \/ sent' = sent
           \/ \E g \in DataFrames : sent' = Append(sent, g),
           UNCHANGED <<cpc, session, srvSession, dispatched, dropped>>
    PROVE  Serving(Append(F, f), to, p)'
<1>1. /\ cpc = "serving" /\ session = srvSession /\ dispatched \in Seq(DataFrames)
      /\ Aligned(F, off, p) \/ Adrift(F, off, p)
      BY DEF Serving
<1>2. Len(Append(F, f)) = Len(F) + 1 /\ Len(F) \in Nat /\ Len(sent) \in Nat /\ Len(dispatched) \in Nat
      BY <1>1, AppendProperties, LenProperties
<1>3. Len(sent) <= Len(sent') /\ Len(sent') \in Nat /\ \A i \in 1..Len(sent) : sent'[i] = sent[i]
  <2>1. CASE sent' = sent
        BY <1>2, <2>1
  <2>2. ASSUME NEW g \in DataFrames, sent' = Append(sent, g)
        PROVE  Len(sent) <= Len(sent') /\ Len(sent') \in Nat /\ \A i \in 1..Len(sent) : sent'[i] = sent[i]
    <3>1. Len(sent') = Len(sent) + 1 /\ \A i \in 1..Len(sent) : sent'[i] = sent[i]
          BY <2>2, AppendProperties
    <3>. QED BY <1>2, <3>1
  <2>. QED BY <2>1, <2>2
<1>4. CASE Adrift(F, off, p)
  <2>1. PICK k \in 2..Len(F) : off[k] < p /\ p < off[k + 1]
        BY <1>4 DEF Adrift
  <2>2. k \in 2..(Len(F) + 1) /\ k \in 1..Len(off) /\ k + 1 \in 1..Len(off)
        BY <1>2
  <2>3. Adrift(Append(F, f), to, p)'
        BY <1>2, <1>4, <2>1, <2>2 DEF Adrift
  <2>. QED BY <1>1, <2>3 DEF Serving
<1>5. CASE Aligned(F, off, p)
  <2>1. PICK j \in Nat :
             /\ Len(dispatched) + 2 + j <= Len(F) + 1
             /\ p = off[Len(dispatched) + 2 + j]
             /\ dropped = <<>> => j = 0
             /\ dispatched # <<>> => Len(dispatched) + j <= Len(sent)
             /\ \A i \in 1..Len(dispatched) : dispatched[i] = sent[i + j]
        BY <1>5 DEF Aligned
  <2>2. Len(dispatched) + 2 + j \in 1..Len(off) /\ Len(dispatched) + 2 + j <= Len(F) + 1 + 1
        BY <1>2, <2>1
  <2>3. ASSUME NEW i \in 1..Len(dispatched) PROVE dispatched[i] = sent'[i + j]
    <3>1. Len(dispatched) # 0
          BY <1>2
    <3>2. dispatched # <<>>
          BY <3>1, EmptySeq
    <3>3. i + j \in 1..Len(sent)
          BY <1>2, <2>1, <3>2
    <3>. QED BY <1>3, <2>1, <3>3
  <2>4. dispatched # <<>> => Len(dispatched) + j <= Len(sent')
        BY <1>2, <1>3, <2>1
  <2>5. Aligned(Append(F, f), to, p)'
        BY <1>2, <2>1, <2>2, <2>3, <2>4 DEF Aligned
  <2>. QED BY <1>1, <2>5 DEF Serving
<1>. QED BY <1>1, <1>4, <1>5

\* The server answers the request: an ack to a client it accepts, or a refusal.
LEMMA AnswerStep ==
    ASSUME LinkInv, AnswerRequest, PaddingMax < U16
    PROVE  LinkInv'
<1>1. PICK F, off, S, p : Bytes(F, off, S, p) /\ Waiting(F, p)
      BY DEF LinkInv, AnswerRequest, Idle, Serving, Welcomed
<1>2. /\ cpc = "waiting" /\ p = 0 /\ dispatched = <<>> /\ dropped = <<>>
      /\ F = <<>> /\ sent = <<>> /\ skew \in Int
      /\ request = encode(Request(version, token, Now + skew))
      BY <1>1 DEF Waiting, Asked, Refused, Welcomed, AnswerRequest
<1>3. /\ srv = "reading" /\ UNCHANGED <<cpc, skew, buf, session, token, version, sent, dispatched, dropped>>
      BY DEF AnswerRequest, runVars
<1>4. ASSUME NEW f \in WireFrames, wire' = wire \o encode(f)
      PROVE  /\ Bytes(<<f>>, Append(off, Len(S) + Len(encode(f))), S \o encode(f), p)'
             /\ <<f>> \in Seq(WireFrames) /\ Len(<<f>>) = 1 /\ <<f>>[1] = f
  <2>1. Append(<<>>, f) = <<f>> /\ <<f>> \in Seq(WireFrames) /\ Len(<<f>>) = 1 /\ <<f>>[1] = f
    <3>1. \A g : Append(<<>>, g) = <<g>> /\ Len(<<g>>) = 1 /\ <<g>>[1] = g
          OBVIOUS
    <3>2. <<f>> \in Seq(WireFrames)
          OBVIOUS
    <3>. QED BY <3>1, <3>2
  <2>2. Bytes(Append(<<>>, f), Append(off, Len(S) + Len(encode(f))), S \o encode(f), p)'
        BY <1>1, <1>2, <1>3, <1>4, WrittenBehind
  <2>. QED BY <2>1, <2>2
<1> DEFINE r == decode_req(decode(request).frame.payload)
<1>5. CASE /\ Accepts(r)
           /\ srv' = "established"
           /\ srvSession' = IF srvSession = <<<<1>>>> THEN <<<<2>>>> ELSE <<<<1>>>>
           /\ wire' = wire \o encode(Ack(srvSession'))
  <2>1. token = ServerToken /\ version = ServerVersion /\ skew \in (-ClockWindow)..ClockWindow
    <3>1. /\ token = ServerToken /\ version = ServerVersion
          /\ verify_timestamp(Now + skew, Now, ClockWindow)
          BY <1>2, <1>5, AcceptedTokens
    <3>. QED BY <1>2, <3>1, LinkAssumption DEF verify_timestamp, Now
  <2>2. srvSession' \in SessionIds
        BY <1>5 DEF SessionIds
  <2>3. PICK s \in SessionIds : s = srvSession'
        BY <2>2
  <2>4. Ack(s) \in WireFrames
        BY ServerFrames
  <2>5. /\ Bytes(<<Ack(s)>>, Append(off, Len(S) + Len(encode(Ack(s)))), S \o encode(Ack(s)), p)'
        /\ <<Ack(s)>> \in Seq(WireFrames) /\ Len(<<Ack(s)>>) = 1 /\ <<Ack(s)>>[1] = Ack(s)
        BY <1>4, <1>5, <2>3, <2>4
  <2>6. sent' = <<>> /\ Len(<<>>) = 0 /\ <<>> \in Seq(DataFrames) /\ \A i \in 1..0 : FALSE
        BY <1>2, <1>3, EmptySeq
  <2> DEFINE G == <<Ack(s)>>
  <2> HIDE DEF G, r
  <2>7. G \in Seq(WireFrames) /\ Len(G) = 0 + 1 /\ G[1] = Ack(srvSession')
        BY <2>3, <2>5 DEF G
  <2>8. /\ token' = ServerToken /\ version' = ServerVersion /\ skew' \in (-ClockWindow)..ClockWindow
        /\ srv' = "established"
        BY <1>3, <1>5, <2>1
  <2>9. Welcomed(G)'
        BY <2>2, <2>6, <2>7, <2>8 DEF Welcomed
  <2>10. Waiting(G, 0)'
        BY <1>2, <1>3, <2>9 DEF Waiting
  <2>. QED BY <1>2, <2>5, <2>10 DEF LinkInv, G
<1>6. CASE srv' = "closed" /\ wire' = wire \o encode(Refusal)
  <2>1. Refusal \in WireFrames
        BY ServerFrames
  <2>2. Bytes(<<Refusal>>, Append(off, Len(S) + Len(encode(Refusal))), S \o encode(Refusal), p)'
        BY <1>4, <1>6, <2>1
  <2>3. Refused(<<Refusal>>)'
        BY <1>2, <1>3, <1>6 DEF Refused
  <2>4. Waiting(<<Refusal>>, 0)'
        BY <1>2, <1>3, <2>3 DEF Waiting
  <2>. QED BY <1>2, <2>2, <2>4 DEF LinkInv
<1>7. \/ /\ Accepts(r)
         /\ srv' = "established"
         /\ srvSession' = IF srvSession = <<<<1>>>> THEN <<<<2>>>> ELSE <<<<1>>>>
         /\ wire' = wire \o encode(Ack(srvSession'))
      \/ srv' = "closed" /\ wire' = wire \o encode(Refusal)
      BY DEF AnswerRequest, Ack, Refusal
<1>. QED BY <1>5, <1>6, <1>7

\* The server writes a frame, of data or the one that kicks the client.
LEMMA WriteStep ==
    ASSUME LinkInv, WriteFrame \/ WriteError, PaddingMax < U16
    PROVE  LinkInv'
<1>1. PICK F, off, S, p : Bytes(F, off, S, p) /\ (Waiting(F, p) \/ Serving(F, off, p))
      BY DEF LinkInv, WriteFrame, WriteError, Idle
<1>2. /\ srv = "established"
      /\ UNCHANGED <<cpc, skew, buf, session, token, version, srvSession, dispatched, dropped>>
      BY DEF WriteFrame, WriteError, runVars
<1>3. Welcomed(F)
      BY <1>1, <1>2 DEF Waiting, Serving, Asked, Refused
<1>4. /\ token = ServerToken /\ version = ServerVersion /\ skew \in (-ClockWindow)..ClockWindow
      /\ srvSession \in SessionIds
      /\ F \in Seq(WireFrames) /\ sent \in Seq(DataFrames)
      /\ Len(F) = Len(sent) + 1 /\ F[1] = Ack(srvSession)
      /\ \A i \in 1..Len(sent) : F[i + 1] = sent[i]
      /\ Len(F) \in Nat /\ Len(sent) \in Nat
      BY <1>2, <1>3, LenProperties DEF Welcomed
<1>5. Len(off) = Len(F) + 1
      BY <1>1 DEF Bytes, Laid
<1>6. ASSUME NEW f \in WireFrames, wire' = wire \o encode(f), Welcomed(Append(F, f))',
             sent' = sent \/ \E g \in DataFrames : sent' = Append(sent, g)
      PROVE  LinkInv'
  <2> DEFINE G == Append(F, f)
             to == Append(off, Len(S) + Len(encode(f)))
             T == S \o encode(f)
  <2>1. Bytes(G, to, T, p)' /\ Len(to) = Len(off) + 1 /\ \A k \in 1..Len(off) : to[k] = off[k]
        BY <1>1, <1>2, <1>6, WrittenBehind
  <2> HIDE DEF G, to, T
  <2>2. CASE Waiting(F, p)
    <3>1. Waiting(G, p)'
          BY <1>2, <1>6, <2>2 DEF Waiting, G
    <3>. QED BY <2>1, <3>1 DEF LinkInv
  <2>3. CASE Serving(F, off, p)
    <3>1. Serving(G, to, p)'
          BY <1>2, <1>4, <1>5, <1>6, <2>1, <2>3, StillServing DEF G
    <3>. QED BY <2>1, <3>1 DEF LinkInv
  <2>. QED BY <1>1, <2>2, <2>3
<1>7. ASSUME NEW f \in WireFrames
      PROVE  /\ Append(F, f) \in Seq(WireFrames) /\ Len(Append(F, f)) = Len(sent) + 2
             /\ Append(F, f)[Len(sent) + 2] = f /\ Append(F, f)[1] = Ack(srvSession)
             /\ \A i \in 1..Len(sent) : Append(F, f)[i + 1] = sent[i]
  <2> DEFINE G == Append(F, f)
  <2>1. G \in Seq(WireFrames) /\ Len(G) = Len(F) + 1 /\ G[Len(F) + 1] = f /\ \A k \in 1..Len(F) : G[k] = F[k]
        BY <1>4, AppendProperties
  <2> HIDE DEF G
  <2>2. Len(F) + 1 = Len(sent) + 2 /\ 1 \in 1..Len(F) /\ \A i \in 1..Len(sent) : i + 1 \in 1..Len(F)
        BY <1>4
  <2>3. G \in Seq(WireFrames) /\ Len(G) = Len(sent) + 2 /\ G[Len(sent) + 2] = f /\ G[1] = F[1]
        BY <2>1, <2>2
  <2>4. \A i \in 1..Len(sent) : G[i + 1] = F[i + 1]
        BY <2>1, <2>2
  <2>. QED BY <1>4, <2>3, <2>4 DEF G
<1>8. CASE WriteFrame
  <2>1. PICK len \in 0..PaddingMax :
             sent' = Append(sent, Data(Len(sent), len)) /\ wire' = wire \o encode(Data(Len(sent), len))
        BY <1>8 DEF WriteFrame, Data
  <2>2. srv' = srv
        BY <1>8 DEF WriteFrame
  <2>3. PICK f : f = Data(Len(sent), len)
        OBVIOUS
  <2>4. f \in WireFrames /\ f \in DataFrames
        BY <1>4, <2>3, ServerFrames DEF DataFrames
  <2>5. /\ sent' = Append(sent, f) /\ sent' \in Seq(DataFrames) /\ Len(sent') = Len(sent) + 1
        /\ sent'[Len(sent) + 1] = f /\ \A i \in 1..Len(sent) : sent'[i] = sent[i]
        BY <1>4, <2>1, <2>3, <2>4, AppendProperties
  <2> DEFINE G == Append(F, f)
  <2>6. /\ G \in Seq(WireFrames) /\ Len(G) = Len(sent) + 2 /\ G[Len(sent) + 2] = f
        /\ G[1] = Ack(srvSession) /\ \A i \in 1..Len(sent) : G[i + 1] = sent[i]
        BY <1>7, <2>4
  <2> HIDE DEF G
  <2>7. Len(G) = Len(sent') + 1
        BY <1>4, <2>5, <2>6
  <2>8. ASSUME NEW i \in 1..Len(sent') PROVE G[i + 1] = sent'[i]
    <3>1. CASE i = Len(sent) + 1
      <4>1. i + 1 = Len(sent) + 2
            BY <1>4, <3>1
      <4>. QED BY <2>5, <2>6, <3>1, <4>1
    <3>2. CASE i # Len(sent) + 1
      <4>1. i \in 1..Len(sent)
            BY <1>4, <2>5, <3>2
      <4>. QED BY <2>5, <2>6, <4>1
    <3>. QED BY <3>1, <3>2
  <2>9. Welcomed(G)'
        BY <1>2, <1>4, <2>2, <2>5, <2>6, <2>7, <2>8 DEF Welcomed
  <2>. QED BY <1>6, <2>1, <2>3, <2>4, <2>5, <2>9 DEF G
<1>9. CASE WriteError
  <2>1. srv' = "kicked" /\ wire' = wire \o encode(Kick) /\ sent' = sent
        BY <1>9 DEF WriteError, Kick
  <2>2. Kick \in WireFrames
        BY ServerFrames
  <2>3. /\ Append(F, Kick) \in Seq(WireFrames) /\ Len(Append(F, Kick)) = Len(sent) + 2
        /\ Append(F, Kick)[Len(sent) + 2] = Kick /\ Append(F, Kick)[1] = Ack(srvSession)
        /\ \A i \in 1..Len(sent) : Append(F, Kick)[i + 1] = sent[i]
        BY <1>7, <2>2
  <2>4. PICK G : G = Append(F, Kick)
        OBVIOUS
  <2>5. Welcomed(G)'
        BY <1>2, <1>4, <2>1, <2>3, <2>4 DEF Welcomed
  <2>. QED BY <1>6, <2>1, <2>2, <2>4, <2>5
<1>. QED BY <1>8, <1>9

\* The server closes, or the connection breaks and loses what was on the way.
LEMMA CloseStep ==
    ASSUME LinkInv, Close
    PROVE  LinkInv'
<1>1. PICK F, off, S, p : Bytes(F, off, S, p) /\ (Waiting(F, p) \/ Serving(F, off, p))
      BY DEF LinkInv, Close, Idle
<1>2. /\ srv' = "closed"
      /\ UNCHANGED <<cpc, skew, buf, session, token, version, srvSession, sent, dispatched, dropped>>
      BY DEF Close, runVars
<1>3. PICK n \in 0..Len(wire) : wire' = SubSeq(wire, 1, n)
      BY DEF Close
<1>4. Window(buf, wire', S, p) /\ Laid(F, off, S)
      BY <1>1, <1>3, WindowTruncate DEF Bytes
<1>5. Bytes(F, off, S, p)'
      BY <1>2, <1>4 DEF Bytes
<1>6. Welcomed(F) => Welcomed(F)'
      BY <1>2 DEF Welcomed
<1>7. CASE Waiting(F, p)
  <2>1. Waiting(F, p)'
        BY <1>2, <1>6, <1>7 DEF Waiting, Asked, Refused
  <2>. QED BY <1>5, <2>1 DEF LinkInv
<1>8. CASE Serving(F, off, p)
  <2>1. Serving(F, off, p)'
        BY <1>2, <1>6, <1>8 DEF Serving, Aligned, Adrift
  <2>. QED BY <1>5, <2>1 DEF LinkInv
<1>. QED BY <1>1, <1>7, <1>8

\* The bytes under way are those the server wrote, whatever happens.
THEOREM LinkInvariance ==
    ASSUME PaddingMax < U16
    PROVE  Spec => []LinkInv
<1>1. Init => LinkInv
      BY StartIdle
<1>2. LinkInv /\ [Next]_vars => LinkInv'
  <2> SUFFICES ASSUME LinkInv, [Next]_vars PROVE LinkInv'
      OBVIOUS
  <2>1. CASE Dial
        BY <2>1, DialStep
  <2>2. CASE DialFails \/ DecodeFails \/ ReadEnd \/ HeartbeatDead
    <3>1. Return("ended")
          BY <2>2 DEF DialFails, DecodeFails, ReadEnd, HeartbeatDead
    <3>. QED BY <3>1, ReturnIdle DEF LinkInv
  <2>3. CASE ReadHandshake
        BY <2>3, HandshakeStep
  <2>4. CASE Dispatch
        BY <2>4, DispatchStep
  <2>5. CASE ReadMore
        BY <2>5, ReadStep
  <2>6. CASE RunAgain \/ Wake
    <3>1. Idle
          BY <2>6 DEF LinkInv, Waiting, Serving, RunAgain, Wake
    <3>2. Idle'
          BY <2>6, <3>1 DEF Idle, RunAgain, Wake, netVars
    <3>. QED BY <3>2 DEF LinkInv
  <2>7. CASE AnswerRequest
        BY <2>7, AnswerStep
  <2>8. CASE WriteFrame \/ WriteError
        BY <2>8, WriteStep
  <2>9. CASE Close
        BY <2>9, CloseStep
  <2>10. CASE Release \/ UNCHANGED vars
    <3>1. UNCHANGED <<cpc, skew, buf, session, token, version, srv, srvSession, request, wire, sent,
                      dispatched, dropped>>
          BY <2>10 DEF Release, vars, runVars, netVars
    <3>2. Idle => Idle'
          BY <3>1 DEF Idle
    <3>3. ASSUME NEW F, NEW off, NEW S, NEW p, Bytes(F, off, S, p) /\ (Waiting(F, p) \/ Serving(F, off, p))
          PROVE  Bytes(F, off, S, p)' /\ (Waiting(F, p) \/ Serving(F, off, p))'
          BY <3>1, <3>3 DEF Bytes, Waiting, Serving, Asked, Refused, Welcomed, Aligned, Adrift
    <3>. QED BY <3>2, <3>3 DEF LinkInv
  <2>. QED BY <2>1, <2>2, <2>3, <2>4, <2>5, <2>6, <2>7, <2>8, <2>9, <2>10 DEF Next, ClientStep, ServerStep
<1>. QED BY <1>1, <1>2, PTL DEF Spec

\* Wherever the reads cut the stream and whatever padding the frames carry, the
\* client handles consecutive frames of those the server wrote on this connection.
THEOREM HandledInOrder ==
    ASSUME PaddingMax < U16
    PROVE  Spec => []FramesInOrder
<1>1. LinkInv => FramesInOrder
  <2> SUFFICES ASSUME LinkInv, cpc = "serving"
               PROVE  /\ \E j \in 0..(Len(sent) - Len(dispatched)) :
                            /\ \A i \in DOMAIN dispatched : dispatched[i] = sent[i + j]
                            /\ dropped = <<>> => j = 0
                      /\ dropped = <<>> => decode(buf).result # "error"
      BY DEF FramesInOrder
  <2>1. PICK F, off, S, p : Bytes(F, off, S, p) /\ Serving(F, off, p)
        BY DEF LinkInv, Idle, Waiting
  <2>2. dispatched \in Seq(DataFrames) /\ Welcomed(F) /\ (Aligned(F, off, p) \/ Adrift(F, off, p))
        BY <2>1 DEF Serving
  <2>3. /\ DOMAIN dispatched = 1..Len(dispatched) /\ Len(dispatched) \in Nat
        /\ sent \in Seq(DataFrames) /\ Len(sent) \in Nat
        BY <2>2, LenProperties DEF Welcomed
  <2>4. CASE Adrift(F, off, p)
    <3>1. dispatched = <<>> /\ dropped # <<>> /\ Len(dispatched) = 0
          BY <2>4, EmptySeq DEF Adrift
    <3>2. 0 \in 0..(Len(sent) - Len(dispatched)) /\ \A i \in 1..0 : FALSE
          BY <2>3, <3>1
    <3>. QED BY <2>3, <3>1, <3>2
  <2>5. CASE Aligned(F, off, p)
    <3>1. PICK j \in Nat :
               /\ Len(dispatched) + 2 + j <= Len(F) + 1
               /\ p = off[Len(dispatched) + 2 + j]
               /\ dropped = <<>> => j = 0
               /\ dispatched # <<>> => Len(dispatched) + j <= Len(sent)
               /\ \A i \in 1..Len(dispatched) : dispatched[i] = sent[i + j]
          BY <2>5 DEF Aligned
    <3>2. \E h \in 0..(Len(sent) - Len(dispatched)) :
             /\ \A i \in 1..Len(dispatched) : dispatched[i] = sent[i + h]
             /\ dropped = <<>> => h = 0
      <4>1. CASE dispatched = <<>>
        <5>1. Len(dispatched) = 0
              BY <4>1, EmptySeq
        <5>2. 0 \in 0..(Len(sent) - Len(dispatched)) /\ \A i \in 1..0 : FALSE
              BY <2>3, <5>1
        <5>. QED BY <5>1, <5>2
      <4>2. CASE dispatched # <<>>
        <5>1. j \in 0..(Len(sent) - Len(dispatched))
              BY <2>3, <3>1, <4>2
        <5>. QED BY <3>1, <5>1
      <4>. QED BY <4>1, <4>2
    <3>3. ASSUME dropped = <<>> PROVE decode(buf).result # "error"
      <4>1. /\ Laid(F, off, S) /\ Window(buf, wire, S, p)
            /\ Len(F) \in Nat /\ off[Len(F) + 1] = Len(S)
            BY <2>1, LenProperties DEF Bytes, Laid
      <4>2. PICK k \in 1..(Len(F) + 1) : p = off[k]
        <5>1. Len(dispatched) + 2 + j \in 1..(Len(F) + 1)
              BY <2>3, <3>1, <4>1
        <5>. QED BY <3>1, <5>1
      <4>3. CASE k = Len(F) + 1
        <5>1. decode(buf) = [result |-> "none"]
              BY <4>1, <4>2, <4>3, DecodeEnd
        <5>. QED BY <5>1
      <4>4. CASE k # Len(F) + 1
        <5>1. k \in 1..Len(F)
              BY <4>1, <4>4
        <5>2. /\ Len(buf) \in Nat /\ Len(encode(F[k])) \in Nat
              /\ Len(buf) < Len(encode(F[k])) => decode(buf) = [result |-> "none"]
              /\ Len(buf) >= Len(encode(F[k])) =>
                    decode(buf) = [result |-> "frame", frame |-> F[k],
                                   rest |-> SubSeq(buf, Len(encode(F[k])) + 1, Len(buf))]
              BY <4>1, <4>2, <5>1, DecodeAt, FrameBytes
        <5>3. Len(buf) < Len(encode(F[k])) \/ Len(buf) >= Len(encode(F[k]))
              BY <5>2
        <5>4. [result |-> "none"].result # "error"
              OBVIOUS
        <5>5. \A f, r : [result |-> "frame", frame |-> f, rest |-> r].result # "error"
              OBVIOUS
        <5>. QED BY <5>2, <5>3, <5>4, <5>5
      <4>. QED BY <4>3, <4>4
    <3>. QED BY <2>3, <3>2, <3>3
  <2>. QED BY <2>2, <2>4, <2>5
<1>. QED BY <1>1, LinkInvariance, PTL

\* A client that takes itself for connected was accepted on this very connection:
\* it has the server's token and version and a clock within the window, and both
\* ends name the same session.
THEOREM ConnectedAgree ==
    ASSUME PaddingMax < U16
    PROVE  Spec => []BothEndsAgree
<1>1. LinkInv => BothEndsAgree
      BY DEF LinkInv, BothEndsAgree, Idle, Waiting, Serving, Welcomed
<1>. QED BY <1>1, LinkInvariance, PTL
-------------------------------------------------------------------------------
(* The reconnects *)

LinkTypes == TypeOK /\ delay \in Nat /\ sent \in Seq(DataFrames)

\* The delay held between its bounds.
Clamp(x) == LET capped == IF x < MaxDelay THEN x ELSE MaxDelay
            IN  IF capped > Initial THEN capped ELSE Initial

LEMMA CountTypes ==
    /\ \A n \in 0..MaxCount : Count(n) \in 0..MaxCount /\ (n < MaxCount => Count(n) = n + 1)
    /\ \A n \in 0..MaxCount : Count(n) < MaxCount => n < MaxCount
    /\ 0 \in 0..MaxCount
BY LinkAssumption DEF Count

LEMMA ClampBounds ==
    ASSUME NEW x \in Nat
    PROVE  /\ Clamp(x) \in Nat /\ Clamp(x) >= Initial
           /\ Clamp(x) > Initial => Clamp(x) <= MaxDelay
BY LinkAssumption DEF Clamp

\* What \div cuts off.
LEMMA Divided ==
    ASSUME NEW x \in Nat, NEW b \in Nat \ {0}
    PROVE  x \div b \in Nat /\ (x \div b) * b <= x /\ x < (x \div b) * b + b
OBVIOUS

LEMMA GrowClamps ==
    ASSUME NEW d \in Nat
    PROVE  /\ d * Num \in Nat
           /\ (d * Num) \div Den \in Nat /\ Grow(d) = Clamp((d * Num) \div Den)
<1>1. d * Num \in Nat
  <2>1. \A a, b \in Nat : a * b \in Nat
        OBVIOUS
  <2>. QED BY <2>1, LinkAssumption
<1>2. (d * Num) \div Den \in Nat
      BY <1>1, Divided, LinkAssumption
<1>. QED BY <1>1, <1>2 DEF Grow, Clamp

\* The variables keep their types: the delay and the counters in particular
\* stay within the configured bounds.
THEOREM LinkTypeCorrect == Spec => []TypeOK
<1>1. Init => LinkTypes
  <2> SUFFICES ASSUME Init PROVE LinkTypes
      OBVIOUS
  <2>1. sent = <<>> /\ <<>> \in Seq(DataFrames) /\ Len(<<>>) = 0
        BY EmptySeq DEF Init
  <2>2. busy \in BOOLEAN /\ skew \in Int
    <3>1. busy = FALSE /\ skew = 0
          BY DEF Init
    <3>2. FALSE \in BOOLEAN /\ 0 \in Int
          OBVIOUS
    <3>. QED BY <3>1, <3>2, Zenon
  <2>. QED BY <2>1, <2>2, CountTypes, LinkAssumption DEF Init, LinkTypes, TypeOK, ClientStates
<1>2. LinkTypes /\ [Next]_vars => LinkTypes'
  <2> SUFFICES ASSUME LinkTypes, [Next]_vars PROVE LinkTypes'
      OBVIOUS
  <2>0. /\ retries \in Retries /\ token \in Tokens /\ version \in Versions
        /\ cpc \in ClientStates /\ busy \in BOOLEAN /\ skew \in Int
        /\ attempts \in 0..MaxCount /\ dials \in 0..MaxCount
        /\ delay \in Nat /\ delay >= Initial /\ (delay > Initial => delay <= MaxDelay)
        /\ srv \in {"none", "reading", "established", "kicked", "closed"}
        /\ sent \in Seq(DataFrames) /\ Len(sent) <= MaxFrames
        BY DEF LinkTypes, TypeOK
  <2>1. retries' = retries /\ token' = token /\ version' = version
        BY DEF Next, ClientStep, ServerStep, Dial, DialFails, ReadHandshake, Dispatch, DecodeFails, ReadMore,
               ReadEnd, RunAgain, Wake, HeartbeatDead, Release, AnswerRequest, WriteFrame, WriteError, Close,
               vars, runVars
  <2>2. attempts' \in 0..MaxCount
        BY <2>0, CountTypes
           DEF Next, ClientStep, ServerStep, Dial, DialFails, ReadHandshake, Dispatch, DecodeFails, ReadMore,
               ReadEnd, RunAgain, Wake, HeartbeatDead, Release, AnswerRequest, WriteFrame, WriteError, Close,
               vars, runVars
  <2>3. dials' \in 0..MaxCount
        BY <2>0, CountTypes
           DEF Next, ClientStep, ServerStep, Dial, DialFails, ReadHandshake, Dispatch, DecodeFails, ReadMore,
               ReadEnd, RunAgain, Wake, HeartbeatDead, Release, AnswerRequest, WriteFrame, WriteError, Close,
               vars, runVars
  <2>4. delay' \in Nat /\ delay' >= Initial /\ (delay' > Initial => delay' <= MaxDelay)
    <3>1. CASE Wake
      <4>1. delay' = Clamp((delay * Num) \div Den) /\ (delay * Num) \div Den \in Nat
            BY <2>0, <3>1, GrowClamps DEF Wake
      <4>. QED BY <4>1, ClampBounds
    <3>2. CASE ~Wake
      <4>1. delay' = delay
            BY <3>2
               DEF Next, ClientStep, ServerStep, Dial, DialFails, ReadHandshake, Dispatch, DecodeFails,
                   ReadMore, ReadEnd, RunAgain, HeartbeatDead, Release, AnswerRequest, WriteFrame, WriteError,
                   Close, vars, runVars
      <4>. QED BY <2>0, <4>1
    <3>. QED BY <3>1, <3>2
  <2>8. busy' \in BOOLEAN
    <3>1. CASE Dispatch
      <4>1. Return("terminated") \/ busy' \in BOOLEAN
            BY <3>1 DEF Dispatch
      <4>2. Return("terminated") => busy' = FALSE
            BY DEF Return
      <4>3. FALSE \in BOOLEAN
            OBVIOUS
      <4>. QED BY <4>1, <4>2, <4>3, Zenon
    <3>2. CASE ~Dispatch
      <4>1. busy' = busy \/ busy' = FALSE
            BY <3>2
               DEF Next, ClientStep, ServerStep, Dial, DialFails, ReadHandshake, DecodeFails, ReadMore,
                   ReadEnd, RunAgain, Wake, HeartbeatDead, Release, AnswerRequest, WriteFrame, WriteError,
                   Close, vars, FirstFrame, Return
      <4>. QED BY <2>0, <4>1
    <3>. QED BY <3>1, <3>2
  <2>9. skew' \in Int
    <3>1. skew' = skew \/ skew' = 0 \/ skew' \in Skews
          BY DEF Next, ClientStep, ServerStep, Dial, DialFails, ReadHandshake, Dispatch, DecodeFails,
                 ReadMore, ReadEnd, RunAgain, Wake, HeartbeatDead, Release, AnswerRequest, WriteFrame,
                 WriteError, Close, vars, FirstFrame, Return
    <3>2. Skews \subseteq Int /\ 0 \in Int
          BY LinkAssumption
    <3>3. skew \in Int
          BY <2>0
    <3>. QED BY <3>1, <3>2, <3>3, Zenon
  <2>5. cpc' \in ClientStates
        BY <2>0
           DEF Next, ClientStep, ServerStep, Dial, DialFails, ReadHandshake, Dispatch, DecodeFails, ReadMore,
               ReadEnd, RunAgain, Wake, HeartbeatDead, Release, AnswerRequest, WriteFrame, WriteError, Close,
               vars, FirstFrame, Return, ClientStates
  <2>6. srv' \in {"none", "reading", "established", "kicked", "closed"}
        BY <2>0
           DEF Next, ClientStep, ServerStep, Dial, DialFails, ReadHandshake, Dispatch, DecodeFails, ReadMore,
               ReadEnd, RunAgain, Wake, HeartbeatDead, Release, AnswerRequest, WriteFrame, WriteError, Close,
               vars, netVars, FirstFrame, Return
  <2>7. sent' \in Seq(DataFrames) /\ Len(sent') <= MaxFrames
    <3>1. CASE WriteFrame
      <4>1. PICK len \in 0..PaddingMax : sent' = Append(sent, Data(Len(sent), len))
            BY <3>1 DEF WriteFrame, Data
      <4>2. Len(sent) \in Nat /\ Len(sent) < MaxFrames
            BY <2>0, <3>1, LenProperties DEF WriteFrame
      <4>3. PICK f : f = Data(Len(sent), len)
            OBVIOUS
      <4>4. f \in DataFrames
            BY <4>2, <4>3 DEF DataFrames
      <4>5. sent' \in Seq(DataFrames) /\ Len(sent') = Len(sent) + 1
            BY <2>0, <4>1, <4>3, <4>4, AppendProperties
      <4>. QED BY <4>2, <4>5, LinkAssumption
    <3>2. CASE ~WriteFrame
      <4>1. sent' = sent \/ sent' = <<>>
            BY <3>2
               DEF Next, ClientStep, ServerStep, Dial, DialFails, ReadHandshake, Dispatch, DecodeFails,
                   ReadMore, ReadEnd, RunAgain, Wake, HeartbeatDead, Release, AnswerRequest, WriteError, Close,
                   vars, netVars, FirstFrame, Return
      <4>2. <<>> \in Seq(DataFrames) /\ Len(<<>>) <= MaxFrames
            BY EmptySeq, LinkAssumption
      <4>. QED BY <2>0, <4>1, <4>2
    <3>. QED BY <3>1, <3>2
  <2>. QED BY <2>0, <2>1, <2>2, <2>3, <2>4, <2>5, <2>6, <2>7, <2>8, <2>9 DEF LinkTypes, TypeOK
<1>3. LinkTypes => TypeOK
      BY DEF LinkTypes
<1>. QED BY <1>1, <1>2, <1>3, PTL DEF Spec

\* The counters of run: an attempt is counted for each call of run_once that
\* returned, but for the last one, and never beyond the limit.
Counted == /\ dials = IF cpc \in {"dialing", "sleeping"} THEN attempts ELSE Count(attempts)
           /\ retries # 0 => attempts <= retries
           /\ cpc = "gaveup" => retries # 0 /\ attempts >= retries

\* The delay, of which a sleep uses the one before.
Delayed == attempts < MaxCount =>
               Follows(delay, IF cpc = "sleeping" THEN attempts - 1 ELSE attempts)

RunInv == Counted /\ Delayed /\ (cpc = "sleeping" => attempts # 0)

\* Arithmetic that the solver knows only in small pieces.
LEMMA Products ==
    /\ \A a, b \in Int : a * b \in Int /\ a * b = b * a
    /\ \A a, b \in Nat : a * b \in Nat
    /\ \A a, b, c \in Int : a * (b * c) = (a * b) * c
    /\ \A a, b, c \in Int : (a + b) * c = a * c + b * c /\ (a - b) * c = a * c - b * c
    /\ \A a, b \in Int, c \in Nat : a <= b => a * c <= b * c
OBVIOUS

\* One more growth of d, to e: P and Q are the powers of the factor's two parts.
LEMMA OneGrowth ==
    ASSUME NEW I \in Nat, NEW N \in Nat, NEW D \in Nat \ {0}, NEW d \in Nat, NEW e \in Nat,
           NEW P \in Nat, NEW Q \in Nat, N >= D, e * D <= d * N, d * Q <= I * P
    PROVE  /\ e * (Q * D) <= I * (P * N)
           /\ d * N < e * D + D /\ (N - D) * (I * P - d * Q) <= (D - 1) * (P - Q) =>
                (N - D) * (I * (P * N) - e * (Q * D)) <= (D - 1) * (P * N - Q * D)
<1>1. /\ e * (Q * D) = (e * D) * Q /\ (d * N) * Q = (d * Q) * N /\ I * (P * N) = (I * P) * N
  <2>1. \A a, b, c \in Int : a * (b * c) = (a * c) * b /\ a * (b * c) = (a * b) * c /\ (a * b) * c = (a * c) * b
        OBVIOUS
  <2>. QED BY <2>1
<1> DEFINE ip == I * P
           dq == d * Q
           eD == e * D
           dN == d * N
           k == N - D
           u == D - 1
           m2 == ip * N - eD * Q
<1>2. /\ ip \in Nat /\ dq \in Nat /\ eD \in Nat /\ dN \in Nat /\ k \in Nat /\ u \in Nat
      /\ eD <= dN /\ dq <= ip
      BY Products
<1>3. dN * Q = dq * N
      BY <1>1
<1> HIDE DEF ip, dq, eD, dN, k, u
<1>4. /\ eD * Q \in Int /\ dN * Q \in Int /\ ip * N \in Int /\ dq * N \in Int
      /\ eD * Q <= dN * Q /\ dq * N <= ip * N
      BY <1>2, Products
<1>5. eD * Q <= ip * N
      BY <1>3, <1>4
<1>6. ASSUME dN <= eD + u, k * (ip - dq) <= u * (P - Q)
      PROVE  k * m2 <= u * (P * N - Q * D)
  <2>1. dN * Q <= (eD + u) * Q /\ (eD + u) * Q = eD * Q + u * Q /\ u * Q \in Int
        BY <1>2, <1>6, Products
  <2>2. PICK m \in Int : m = ip - dq
        BY <1>2
  <2>3. m * N = ip * N - dq * N /\ m * N \in Int
        BY <1>2, <2>2, Products
  <2>4. m2 <= m * N + u * Q /\ m2 \in Int
        BY <1>3, <1>4, <2>1, <2>3
  <2> HIDE DEF m2
  <2>5. m2 * k <= (m * N + u * Q) * k /\ (m * N + u * Q) * k = (m * N) * k + (u * Q) * k
        BY <1>2, <2>1, <2>3, <2>4, Products
  <2>6. (m * N) * k = (k * m) * N /\ m2 * k = k * m2 /\ k * m \in Int /\ k * m2 \in Int
    <3>1. \A a, b, c \in Int : (a * b) * c = (c * a) * b /\ a * b \in Int /\ a * b = b * a
          OBVIOUS
    <3>. QED BY <1>2, <2>2, <2>4, <3>1
  <2>7. PICK z \in Int : z = u * (P - Q)
        BY <1>2, Products
  <2>8. (k * m) * N <= z * N /\ (k * m) * N \in Int /\ z * N \in Int
        BY <1>6, <2>2, <2>6, <2>7, Products
  <2>9. z * N + (u * Q) * k = u * (P * N - Q * D)
    <3>1. PICK l \in Int : l = u
          BY <1>2
    <3>2. (l * (P - Q)) * N + (l * Q) * (N - D) = l * (P * N - Q * D)
          OBVIOUS
    <3>. QED BY <2>7, <3>1, <3>2 DEF k
  <2>10. (u * Q) * k \in Int
        BY <1>2, <2>1, Products
  <2>. QED BY <2>5, <2>6, <2>8, <2>9, <2>10
<1>7. d * N < e * D + D => dN <= eD + u
      BY DEF dN, eD, u
<1>8. k * m2 = (N - D) * (I * (P * N) - e * (Q * D))
      BY <1>1 DEF ip, eD, k
<1>. QED BY <1>1, <1>5, <1>6, <1>7, <1>8 DEF ip, dq, eD, k, u

\* Growth once more.
LEMMA FollowsOn ==
    ASSUME NEW d \in Nat, NEW n \in 0..MaxCount, Follows(d, n)
    PROVE  Follows(Grow(d), n + 1)
<1> DEFINE g == (d * Num) \div Den
<1>1. Initial \in Nat /\ MaxDelay \in Nat /\ Num \in Nat /\ Den \in Nat \ {0}
      BY LinkAssumption
<1>2. /\ g \in Nat /\ g * Den <= d * Num /\ d * Num < g * Den + Den
      /\ Grow(d) = Clamp(g)
      BY <1>1, GrowClamps, Divided
<1> HIDE DEF g
<1>3. CASE MaxDelay < Initial
  <2>1. Clamp(g) = Initial
        BY <1>1, <1>2, <1>3 DEF Clamp
  <2>. QED BY <1>2, <1>3, <2>1 DEF Follows
<1>4. CASE Num < Den
  <2>1. d = Initial
        BY <1>4 DEF Follows
  <2>2. \A a, b, c, f \in Nat : a * b <= c * f /\ f <= b /\ b # 0 => a <= c
        OBVIOUS
  <2>3. g <= Initial
        BY <1>1, <1>2, <1>4, <2>1, <2>2
  <2>4. Clamp(g) = Initial
        BY <1>1, <1>2, <2>3 DEF Clamp
  <2>. QED BY <1>2, <1>4, <2>4 DEF Follows
<1>5. CASE Num >= Den /\ MaxDelay >= Initial
  <2>1. d \in Initial..MaxDelay /\ WithinGrowth(d, n)
        BY <1>1, <1>5 DEF Follows
  <2>2. g >= d
    <3>1. \A a, b, c, f \in Nat : a * b < c * f + f /\ b >= f => a <= c
          OBVIOUS
    <3>. QED BY <1>1, <1>2, <1>5, <3>1
  <2>3. PICK e \in Nat : e = Clamp(g)
        BY <1>2, ClampBounds
  <2>4. e \in Initial..MaxDelay /\ e <= g /\ (e # MaxDelay => e = g /\ d # MaxDelay)
        BY <1>1, <1>2, <1>5, <2>1, <2>2, <2>3 DEF Clamp
  <2>5. e * Den <= d * Num
    <3>1. \A a, b, c \in Nat : a <= b => a * c <= b * c /\ a * c \in Nat /\ b * c \in Nat
          OBVIOUS
    <3>. QED BY <1>1, <1>2, <2>4, <3>1, GrowClamps
  <2>6. PICK P \in Nat, Q \in Nat : P = Num ^ n /\ Q = Den ^ n
        BY PowersAssumption
  <2>7. Num ^ (n + 1) = P * Num /\ Den ^ (n + 1) = Q * Den
        BY <2>6, PowersAssumption
  <2>8. /\ Initial * P \in Nat /\ d * Q \in Nat
        /\ Initial * (P * Num) \in Nat /\ e * (Q * Den) \in Nat
        BY <1>1, Products
  <2>9. /\ d * Q <= Initial * P
        /\ d # MaxDelay => (Num - Den) * (Initial * P - d * Q) <= (Den - 1) * (P - Q)
        BY <2>1, <2>6, <2>8 DEF WithinGrowth
  <2>10. /\ e * (Q * Den) <= Initial * (P * Num)
         /\ d * Num < e * Den + Den /\ (Num - Den) * (Initial * P - d * Q) <= (Den - 1) * (P - Q) =>
              (Num - Den) * (Initial * (P * Num) - e * (Q * Den)) <= (Den - 1) * (P * Num - Q * Den)
        BY <1>1, <1>5, <2>5, <2>9, OneGrowth
  <2>11. WithinGrowth(e, n + 1)
    <3>1. Initial * (P * Num) - e * (Q * Den) >= 0
          BY <2>8, <2>10
    <3>2. ASSUME e # MaxDelay
          PROVE  (Num - Den) * (Initial * (P * Num) - e * (Q * Den)) <= (Den - 1) * (P * Num - Q * Den)
          BY <1>2, <2>4, <2>9, <2>10, <3>2
    <3>. QED BY <2>7, <3>1, <3>2 DEF WithinGrowth
  <2>. QED BY <1>1, <1>2, <1>5, <2>3, <2>4, <2>11 DEF Follows
<1>. QED BY <1>1, <1>3, <1>4, <1>5

\* The client gives up after max_retries + 1 calls of run_once and no sooner,
\* and the n-th wait is the initial delay grown n-1 times by the factor, each
\* time cut to whole seconds, up to its bound.
THEOREM RetriesCounted == Spec => []RetriesAsConfigured
<1>1. Init => RunInv
  <2> SUFFICES ASSUME Init PROVE RunInv
      OBVIOUS
  <2>1. /\ cpc = "dialing" /\ attempts = 0 /\ dials = 0 /\ delay = Initial /\ retries \in Nat
        BY LinkAssumption DEF Init
  <2>2. Initial * Num ^ 0 = Initial /\ Initial * Den ^ 0 = Initial /\ Num ^ 0 = 1 /\ Den ^ 0 = 1
    <3>1. \A a \in Nat : a * 1 = a
          OBVIOUS
    <3>. QED BY <3>1, PowersAssumption, LinkAssumption
  <2>3. WithinGrowth(Initial, 0)
    <3>1. \A a \in Int : a * 0 = 0
          OBVIOUS
    <3>2. (Num - Den) * 0 = 0 /\ (Den - 1) * 0 = 0 /\ Initial - Initial = 0 /\ 1 - 1 = 0
          BY <3>1, LinkAssumption
    <3>. QED BY <2>2, <3>2 DEF WithinGrowth
  <2>4. Follows(Initial, 0)
        BY <2>3, LinkAssumption DEF Follows
  <2>. QED BY <2>1, <2>4, LinkAssumption DEF RunInv, Counted, Delayed
<1>2. TypeOK /\ TypeOK' /\ RunInv /\ [Next]_vars => RunInv'
  <2> SUFFICES ASSUME TypeOK, TypeOK', RunInv, [Next]_vars PROVE RunInv'
      OBVIOUS
  <2>0. /\ retries \in Nat /\ retries + 1 < MaxCount /\ MaxCount \in Nat
        /\ attempts \in 0..MaxCount /\ dials \in 0..MaxCount /\ cpc \in ClientStates
        BY LinkAssumption DEF TypeOK
  <2>1. CASE Dial \/ DialFails
    <3>1. /\ cpc = "dialing" /\ cpc' \in {"waiting", "ended"} /\ dials' = Count(dials)
          /\ UNCHANGED <<retries, attempts, delay>>
          BY <2>1 DEF Dial, DialFails, Return
    <3>. QED BY <3>1 DEF RunInv, Counted, Delayed
  <2>2. CASE RunAgain
    <3>1. /\ cpc = "ended" /\ UNCHANGED <<retries, delay, dials>>
          /\ \/ cpc' = "gaveup" /\ retries # 0 /\ attempts >= retries /\ attempts' = attempts
             \/ cpc' = "sleeping" /\ ~(retries # 0 /\ attempts >= retries) /\ attempts' = Count(attempts)
          BY <2>2 DEF RunAgain
    <3>2. CASE cpc' = "gaveup"
          BY <3>1, <3>2 DEF RunInv, Counted, Delayed
    <3>3. CASE cpc' = "sleeping"
      <4>1. attempts' = Count(attempts) /\ (retries # 0 => attempts < retries)
            BY <2>0, <3>1, <3>3
      <4>2. Count(attempts) # 0 /\ (retries # 0 => Count(attempts) <= retries)
            BY <2>0, <4>1 DEF Count
      <4>3. Counted'
            BY <3>1, <3>3, <4>1, <4>2 DEF RunInv, Counted
      <4>4. Delayed'
        <5>1. SUFFICES ASSUME attempts' < MaxCount PROVE Follows(delay', attempts' - 1)
              BY <3>3 DEF Delayed
        <5>2. attempts < MaxCount /\ attempts' = attempts + 1 /\ attempts' - 1 = attempts
              BY <2>0, <4>1, <5>1 DEF Count
        <5>3. Follows(delay, attempts)
              BY <3>1, <5>2 DEF RunInv, Delayed
        <5>. QED BY <3>1, <5>2, <5>3
      <4>. QED BY <3>3, <4>1, <4>2, <4>3, <4>4 DEF RunInv
    <3>. QED BY <3>1, <3>2, <3>3
  <2>3. CASE Wake
    <3>1. /\ cpc = "sleeping" /\ cpc' = "dialing" /\ delay' = Grow(delay)
          /\ UNCHANGED <<retries, attempts, dials>>
          BY <2>3 DEF Wake
    <3>2. Counted'
          BY <3>1 DEF RunInv, Counted
    <3>3. Delayed'
      <4>1. SUFFICES ASSUME attempts < MaxCount PROVE Follows(delay', attempts)
            BY <3>1 DEF Delayed
      <4>2. PICK n \in 0..MaxCount : attempts = n + 1 /\ attempts - 1 = n
        <5>1. attempts - 1 \in 0..MaxCount /\ attempts = (attempts - 1) + 1
              BY <2>0, <3>1 DEF RunInv
        <5>. QED BY <5>1
      <4>3. Follows(delay, n)
            BY <3>1, <4>1, <4>2 DEF RunInv, Delayed
      <4>4. delay \in Nat
            BY <4>3, LinkAssumption DEF Follows
      <4>. QED BY <3>1, <4>2, <4>3, <4>4, FollowsOn
    <3>. QED BY <3>1, <3>2, <3>3 DEF RunInv
  <2>4. CASE ~(Dial \/ DialFails \/ RunAgain \/ Wake)
    <3>1. /\ UNCHANGED <<retries, attempts, delay, dials>>
          /\ \/ cpc' = cpc
             \/ /\ cpc \in {"waiting", "serving"}
                /\ cpc' \in {"serving", "ended", "terminated"}
          BY <2>4
             DEF Next, ClientStep, ServerStep, ReadHandshake, Dispatch, DecodeFails, ReadMore, ReadEnd,
                 HeartbeatDead, Release, Reading, AnswerRequest, WriteFrame, WriteError, Close, vars, runVars,
                 FirstFrame, Return
    <3>. QED BY <3>1 DEF RunInv, Counted, Delayed
  <2>. QED BY <2>1, <2>2, <2>3, <2>4
<1>3. TypeOK /\ RunInv => RetriesAsConfigured
  <2> SUFFICES ASSUME TypeOK, RunInv PROVE RetriesAsConfigured
      OBVIOUS
  <2>0. retries \in Nat /\ retries + 1 < MaxCount /\ MaxCount \in Nat /\ attempts \in 0..MaxCount
        BY LinkAssumption DEF TypeOK
  <2>1. ASSUME cpc = "gaveup" PROVE retries # 0 /\ dials = retries + 1
    <3>1. retries # 0 /\ attempts >= retries /\ attempts <= retries /\ dials = Count(attempts)
          BY <2>1 DEF RunInv, Counted
    <3>2. attempts = retries /\ attempts < MaxCount
          BY <2>0, <3>1
    <3>. QED BY <3>1, <3>2 DEF Count
  <2>2. ASSUME cpc = "sleeping", attempts < MaxCount PROVE Follows(delay, attempts - 1)
        BY <2>2 DEF RunInv, Delayed
  <2>. QED BY <2>1, <2>2 DEF RetriesAsConfigured
<1>. QED BY <1>1, <1>2, <1>3, LinkTypeCorrect, PTL DEF Spec
-------------------------------------------------------------------------------
(* Heartbeat *)

\* The monitor looks again before the silence exceeds the limit by a period.
SilenceMeetsCheck == server = "up" => idle + check <= IdleLimit + CheckEvery

InFlight == Len(beats) + Len(acks)

\* At most one heartbeat or ack is on its way, and it was sent so recently that
\* it has arrived before the next sleep of the heartbeat task is over.
RoundTripFits ==
    /\ InFlight <= 1
    /\ hb = "sent" => /\ Len(beats) = 1 => beats[1] = 0
                      /\ Len(acks) = 1 => acks[1] = 0
    /\ hb = "sleeping" => /\ Len(beats) = 1 => beats[1] + wait >= HbMin
                          /\ Len(acks) = 1 => acks[1] + Delay + wait >= HbMin

\* A heartbeat that is still on its way, and one whose ack overtook its
\* counting, are all that is counted.
MissesFew == /\ hb = "sleeping" => miss <= 1 + InFlight
             /\ hb = "sent" => miss <= InFlight

\* The server's last frame is at most one sleep ago, and one way.
ActivityRecent ==
    /\ Len(beats) = 1 => idle <= HbMax + beats[1]
    /\ Len(beats) = 0 /\ hb = "sleeping" => idle + wait <= HbMax
    /\ Len(beats) = 0 /\ hb = "sent" => idle = 0

Healthy == timely /\ client = "reading" =>
               /\ hb # "exited" /\ server = "up"
               /\ RoundTripFits /\ MissesFew /\ ActivityRecent
-------------------------------------------------------------------------------
\* Every variable keeps its type in every behaviour: no timer runs below zero,
\* the miss count stays at most HEARTBEAT_MISS_MAX, and on a network that
\* delivers in time no frame in flight is older than its delay.
THEOREM BeatTypes == BeatSpec => []BeatTypeOK
<1> USE HeartbeatAssumption DEF clientVars, serverVars
<1>1. BeatInit => BeatTypeOK
      BY DEF BeatInit, BeatTypeOK
<1>2. BeatTypeOK /\ [BeatNext]_beatVars => BeatTypeOK'
  <2> SUFFICES ASSUME BeatTypeOK, [BeatNext]_beatVars PROVE BeatTypeOK'
      OBVIOUS
  <2>1. ASSUME SendBeat PROVE BeatTypeOK'
        BY <2>1 DEF BeatTypeOK, SendBeat
  <2>2. ASSUME CountBeat PROVE BeatTypeOK'
        BY <2>2 DEF BeatTypeOK, CountBeat, is_dead
  <2>3. ASSUME ReceiveAck PROVE BeatTypeOK'
        BY <2>3 DEF BeatTypeOK, ReceiveAck
  <2>4. ASSUME ReceiveOther PROVE BeatTypeOK'
        BY <2>4 DEF BeatTypeOK, ReceiveOther, EndClient
  <2>5. ASSUME ClientStops PROVE BeatTypeOK'
        BY <2>5 DEF BeatTypeOK, ClientStops, EndClient
  <2>6. ASSUME ReceiveBeat PROVE BeatTypeOK'
        BY <2>6 DEF BeatTypeOK, ReceiveBeat
  <2>7. ASSUME IdleCheck PROVE BeatTypeOK'
        BY <2>7 DEF BeatTypeOK, IdleCheck
  <2>8. ASSUME Tick PROVE BeatTypeOK'
    <3>1. /\ wait' \in 0..HbMax /\ check' \in 0..CheckEvery /\ idle' \in Nat
          BY <2>8 DEF BeatTypeOK, Tick
    <3>2. ASSUME NEW s \in Seq(0..Delay), timely => \A i \in 1..Len(s) : s[i] < Delay
          PROVE  Older(s) \in Seq(0..Delay)
      <4>1. CASE timely
        <5>1. \A i \in 1..Len(s) : s[i] + 1 \in 0..Delay
              BY <3>2, <4>1
        <5>. QED BY <4>1, <5>1 DEF Older
      <4>2. CASE ~timely
            BY <4>2 DEF Older
      <4>. QED BY <4>1, <4>2
    <3>3. beats' \in Seq(0..Delay) /\ acks' \in Seq(0..Delay)
          BY <2>8, <3>2 DEF BeatTypeOK, Tick
    <3>. QED BY <2>8, <3>1, <3>3 DEF BeatTypeOK, Tick
  <2>9. CASE UNCHANGED beatVars
        BY <2>9 DEF BeatTypeOK, beatVars
  <2>. QED
       BY <2>1, <2>2, <2>3, <2>4, <2>5, <2>6, <2>7, <2>8, <2>9 DEF BeatNext
<1>. QED BY <1>1, <1>2, PTL DEF BeatSpec

\* tunnel.rs:378-393: whatever the network does to heartbeats and acks, a tunnel
\* that is up was heard of within the idle limit and one period of the monitor.
THEOREM SilenceBounded == BeatSpec => []SilenceIsBounded
<1> USE HeartbeatAssumption DEF clientVars, serverVars, SilenceMeetsCheck, IdleLimit
<1>1. BeatInit => SilenceMeetsCheck
      BY DEF BeatInit
<1>2. BeatTypeOK /\ SilenceMeetsCheck /\ [BeatNext]_beatVars => SilenceMeetsCheck'
  <2> SUFFICES ASSUME BeatTypeOK, SilenceMeetsCheck, [BeatNext]_beatVars PROVE SilenceMeetsCheck'
      OBVIOUS
  <2>1. ASSUME \/ SendBeat \/ CountBeat \/ ReceiveAck \/ ReceiveOther \/ ClientStops
               \/ UNCHANGED beatVars
        PROVE  SilenceMeetsCheck'
        BY <2>1 DEF SendBeat, CountBeat, ReceiveAck, ReceiveOther, ClientStops, beatVars
  <2>2. ASSUME ReceiveBeat PROVE SilenceMeetsCheck'
        BY <2>2 DEF BeatTypeOK, ReceiveBeat
  <2>3. ASSUME IdleCheck PROVE SilenceMeetsCheck'
        BY <2>3 DEF BeatTypeOK, IdleCheck
  <2>4. ASSUME Tick PROVE SilenceMeetsCheck'
        BY <2>4 DEF BeatTypeOK, Tick
  <2>. QED BY <2>1, <2>2, <2>3, <2>4 DEF BeatNext
<1>3. BeatTypeOK /\ SilenceMeetsCheck => SilenceIsBounded
      BY DEF BeatTypeOK, SilenceIsBounded
<1>. QED BY <1>1, <1>2, <1>3, BeatTypes, PTL DEF BeatSpec
-------------------------------------------------------------------------------
\* A queue of one frame, whatever becomes of it.
LEMMA OneFrame ==
    ASSUME NEW q \in Seq(0..Delay)
    PROVE  /\ Len(q) \in Nat /\ (q = <<>> <=> Len(q) = 0)
           /\ \A i \in 1..Len(q) : q[i] \in 0..Delay
           /\ q # <<>> => Len(Tail(q)) = Len(q) - 1
           /\ Len(q) = 0 => Len(Append(q, 0)) = 1 /\ Append(q, 0)[1] = 0
           /\ timely => Len(Older(q)) = Len(q) /\ (Len(q) = 1 => Older(q)[1] = q[1] + 1)
<1>1. Len(q) \in Nat /\ (q = <<>> <=> Len(q) = 0) /\ \A i \in 1..Len(q) : q[i] \in 0..Delay
      BY LenProperties, EmptySeq, ElementOfSeq
<1>2. q # <<>> => Len(Tail(q)) = Len(q) - 1
      BY HeadTailProperties
<1>3. 0 \in 0..Delay
      BY HeartbeatAssumption
<1>4. Len(q) = 0 => Len(Append(q, 0)) = 1 /\ Append(q, 0)[1] = 0
      BY <1>1, <1>3, AppendProperties
<1>5. ASSUME timely PROVE Len(Older(q)) = Len(q) /\ (Len(q) = 1 => Older(q)[1] = q[1] + 1)
  <2>1. Older(q) = [i \in 1..Len(q) |-> q[i] + 1]
        BY <1>5 DEF Older
  <2>2. Len(Older(q)) = Len(q)
        BY <1>1, <2>1
  <2>. QED BY <2>1, <2>2
<1>. QED BY <1>1, <1>2, <1>4, <1>5

\* With round trips shorter than the shortest interval and a miss limit of at
\* least three, no step of a healthy tunnel makes an end give up the other.
LEMMA StepKeepsHealthy ==
    ASSUME 2 * Delay < HbMin, MissMax >= 3, BeatTypeOK, BeatTypeOK', Healthy, [BeatNext]_beatVars
    PROVE  Healthy'
<1> SUFFICES ASSUME timely', client' = "reading"
             PROVE  /\ hb' # "exited" /\ server' = "up"
                    /\ RoundTripFits' /\ MissesFew' /\ ActivityRecent'
    BY DEF Healthy
<1> DEFINE Goal == /\ hb' # "exited" /\ server' = "up"
                   /\ RoundTripFits' /\ MissesFew' /\ ActivityRecent'
<1> USE HeartbeatAssumption DEF clientVars, serverVars
<1>t. /\ hb \in {"sleeping", "sent", "exited"} /\ wait \in Nat /\ wait <= HbMax /\ miss \in 0..MissMax
      /\ idle \in Nat /\ beats \in Seq(0..Delay) /\ acks \in Seq(0..Delay)
      BY DEF BeatTypeOK
<1>b. /\ Len(beats) \in Nat /\ (beats = <<>> <=> Len(beats) = 0) /\ \A i \in 1..Len(beats) : beats[i] \in 0..Delay
      /\ Len(acks) \in Nat /\ (acks = <<>> <=> Len(acks) = 0) /\ \A i \in 1..Len(acks) : acks[i] \in 0..Delay
      BY <1>t, OneFrame
<1>h. /\ timely /\ client = "reading"
      /\ hb # "exited" /\ server = "up" /\ RoundTripFits /\ MissesFew /\ ActivityRecent
  <2>1. timely' = timely /\ (client' = "reading" => client = "reading")
        BY DEF BeatNext, SendBeat, CountBeat, ReceiveAck, ReceiveOther, ClientStops, ReceiveBeat, IdleCheck, Tick,
           EndClient, beatVars
  <2>. QED BY <2>1 DEF Healthy
<1>f. /\ InFlight = Len(beats) + Len(acks) /\ InFlight <= 1
      /\ Len(beats) \in {0, 1} /\ Len(acks) \in {0, 1}
  <2>1. InFlight = Len(beats) + Len(acks) /\ InFlight <= 1
        BY <1>h DEF RoundTripFits, InFlight
  <2>2. \A a, b \in Nat : a + b <= 1 => a \in {0, 1} /\ b \in {0, 1}
        OBVIOUS
  <2>3. Len(beats) + Len(acks) <= 1
        BY <2>1
  <2>4. Len(beats) \in {0, 1} /\ Len(acks) \in {0, 1}
        BY <1>b, <2>2, <2>3, Zenon
  <2>. QED BY <2>1, <2>4
<1>m. miss <= 2 /\ (InFlight = 0 => miss <= 1)
      BY <1>b, <1>f, <1>h, <1>t DEF MissesFew
<1>1. ASSUME SendBeat PROVE Goal
  <2>1. Len(beats) = 0 /\ Len(acks) = 0
        BY <1>1, <1>b, <1>f, <1>h DEF SendBeat, RoundTripFits
  <2>2. Len(beats') = 1 /\ beats'[1] = 0 /\ acks' = acks /\ hb' = "sent" /\ UNCHANGED <<miss, idle, server>>
        BY <1>1, <1>t, <2>1, OneFrame DEF SendBeat
  <2>3. idle <= HbMax /\ miss <= 1
        BY <1>1, <1>t, <1>h, <1>m, <1>f, <2>1 DEF SendBeat, ActivityRecent
  <2>. QED BY <1>h, <1>t, <2>1, <2>2, <2>3 DEF RoundTripFits, MissesFew, ActivityRecent, InFlight
<1>2. ASSUME CountBeat PROVE Goal
  <2>1. /\ hb = "sent" /\ UNCHANGED <<beats, acks, idle, server>>
        /\ miss' = miss + 1 /\ hb' = "sleeping" /\ wait' \in HbMin..HbMax
    <3>1. miss <= 1
          BY <1>2, <1>f, <1>h, <1>t DEF CountBeat, MissesFew
    <3>. QED BY <1>2, <1>t, <3>1 DEF CountBeat, is_dead
  <2>2. wait' \in Nat /\ wait' >= HbMin /\ wait' <= HbMax
        BY <2>1
  <2>3. RoundTripFits'
        BY <1>b, <1>f, <1>h, <2>1, <2>2 DEF RoundTripFits, InFlight
  <2>4. MissesFew'
        BY <1>b, <1>f, <1>h, <1>t, <2>1 DEF MissesFew, InFlight
  <2>5. ActivityRecent'
    <3>1. Len(beats) = 1 => idle <= HbMax + beats[1]
          BY <1>h DEF ActivityRecent
    <3>2. Len(beats) = 0 => idle = 0
          BY <1>h, <2>1 DEF ActivityRecent
    <3>3. Len(beats) = 0 => idle + wait' <= HbMax
      <4>1. SUFFICES ASSUME Len(beats) = 0 PROVE idle + wait' <= HbMax
            OBVIOUS
      <4>2. idle = 0
            BY <3>2, <4>1
      <4>3. \A a \in Nat : a <= HbMax => 0 + a <= HbMax
            OBVIOUS
      <4>. QED BY <2>2, <4>2, <4>3, Zenon
    <3>. QED BY <2>1, <3>1, <3>3 DEF ActivityRecent
  <2>. QED BY <1>h, <2>1, <2>3, <2>4, <2>5
<1>3. ASSUME ReceiveAck PROVE Goal
  <2>1. Len(acks) = 1 /\ Len(acks') = 0 /\ Len(beats) = 0
        BY <1>3, <1>t, <1>b, <1>f, OneFrame DEF ReceiveAck
  <2>2. miss' = 0 /\ UNCHANGED <<hb, wait, idle, server, beats>>
        BY <1>3 DEF ReceiveAck
  <2>. QED BY <1>h, <2>1, <2>2 DEF RoundTripFits, MissesFew, ActivityRecent, InFlight
<1>4. ASSUME ReceiveOther PROVE FALSE
      BY <1>4, <1>m, <1>t DEF ReceiveOther, EndClient
<1>5. ASSUME ClientStops PROVE FALSE
      BY <1>5, <1>h DEF ClientStops, EndClient
<1>6. ASSUME ReceiveBeat PROVE Goal
  <2>1. Len(beats) = 1 /\ Len(beats') = 0 /\ Len(acks) = 0
        BY <1>6, <1>t, <1>b, <1>f, OneFrame DEF ReceiveBeat
  <2>2. Len(acks') = 1 /\ acks'[1] = 0
        BY <1>6, <1>t, <2>1, OneFrame DEF ReceiveBeat
  <2>3. idle' = 0 /\ UNCHANGED <<hb, wait, miss, server>>
        BY <1>6 DEF ReceiveBeat
  <2>4. hb = "sleeping" => Delay + wait >= HbMin
    <3>1. beats[1] \in 0..Delay /\ (hb = "sleeping" => beats[1] + wait >= HbMin)
          BY <1>b, <1>h, <2>1 DEF RoundTripFits
    <3>. QED BY <1>t, <3>1
  <2>. QED BY <1>f, <1>h, <1>t, <2>1, <2>2, <2>3, <2>4 DEF RoundTripFits, MissesFew, ActivityRecent, InFlight
<1>7. ASSUME IdleCheck PROVE Goal
  <2>1. idle <= 2 * HbMax
    <3>1. CASE Len(beats) = 1
      <4>1. idle <= HbMax + beats[1] /\ beats[1] \in 0..Delay
            BY <1>b, <1>h, <3>1 DEF ActivityRecent
      <4>. QED BY <1>t, <4>1
    <3>2. CASE Len(beats) = 0
          BY <1>t, <1>h, <3>2 DEF ActivityRecent
    <3>. QED BY <1>f, <3>1, <3>2
  <2>2. idle <= IdleLimit
        BY <1>t, <2>1 DEF IdleLimit
  <2>3. server' = "up" /\ UNCHANGED <<hb, wait, miss, idle, beats, acks>>
        BY <1>7, <1>t, <2>2 DEF IdleCheck, IdleLimit
  <2>. QED BY <1>h, <2>3 DEF RoundTripFits, MissesFew, ActivityRecent, InFlight
<1>8. ASSUME Tick PROVE Goal
  <2>1. /\ hb = "sleeping" /\ hb' = "sleeping" /\ wait' = wait - 1 /\ idle' = idle + 1
        /\ UNCHANGED <<miss, server>>
        BY <1>8, <1>h, <1>t DEF Tick
  <2>2. /\ Len(beats') = Len(beats) /\ (Len(beats) = 1 => beats'[1] = beats[1] + 1)
        /\ Len(acks') = Len(acks) /\ (Len(acks) = 1 => acks'[1] = acks[1] + 1)
        BY <1>8, <1>h, <1>t, OneFrame DEF Tick
  <2>3. RoundTripFits'
        BY <1>b, <1>f, <1>h, <1>t, <2>1, <2>2 DEF RoundTripFits, InFlight
  <2>4. MissesFew'
        BY <1>h, <2>1, <2>2 DEF MissesFew, InFlight
  <2>5. ActivityRecent'
        BY <1>b, <1>f, <1>h, <1>t, <2>1, <2>2 DEF ActivityRecent
  <2>. QED BY <1>h, <2>1, <2>3, <2>4, <2>5
<1>9. CASE UNCHANGED beatVars
      BY <1>9, <1>h DEF beatVars, RoundTripFits, MissesFew, ActivityRecent, InFlight
<1>. QED BY <1>1, <1>2, <1>3, <1>4, <1>5, <1>6, <1>7, <1>8, <1>9 DEF BeatNext

\* On a network whose round trip is shorter than the shortest heartbeat interval,
\* with HEARTBEAT_MISS_MAX at least three, neither end ever gives the other up.
THEOREM HealthyLives ==
    ASSUME 2 * Delay < HbMin, MissMax >= 3
    PROVE  BeatSpec => []HealthyTunnelLives
<1> USE HeartbeatAssumption
<1>1. BeatInit => Healthy
  <2>1. Len(<<>>) = 0
        BY EmptySeq
  <2>. QED BY <2>1 DEF BeatInit, Healthy, RoundTripFits, MissesFew, ActivityRecent, InFlight
<1>2. BeatTypeOK /\ BeatTypeOK' /\ Healthy /\ [BeatNext]_beatVars => Healthy'
      BY StepKeepsHealthy
<1>3. BeatTypeOK /\ Healthy => HealthyTunnelLives
  <2> SUFFICES ASSUME BeatTypeOK, Healthy, timely, client = "reading"
               PROVE  ~is_dead(miss) /\ hb # "exited" /\ server = "up"
      BY DEF HealthyTunnelLives
  <2>1. InFlight <= 1 /\ InFlight \in Nat
        BY OneFrame DEF BeatTypeOK, Healthy, RoundTripFits, InFlight
  <2>2. miss \in Nat /\ miss <= 2
        BY <2>1 DEF BeatTypeOK, Healthy, MissesFew
  <2>. QED BY <2>2 DEF is_dead, Healthy
<1>. QED BY <1>1, <1>2, <1>3, BeatTypes, PTL DEF BeatSpec
===============================================================================
