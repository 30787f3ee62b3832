-------------------------- MODULE ConnectionProofs --------------------------
(***************************************************************************)
(* Proofs about the ack protocol of module Connection, for every value of *)
(* the constants that satisfies their assumptions.                        *)
(*                                                                         *)
(*   TypeCorrect: Spec => []TypeOK                                        *)
(*   AckSoundness: Spec => []AckSound, from the inductive invariant IInv: *)
(*     AckSound alone is not inductive, as a packet in the transport may  *)
(*     carry ack bits that a later ProcessPacket turns into acks; IInv    *)
(*     adds that every ack bit in flight (PacketAcksSound) and every      *)
(*     sequence in a receivedPackets buffer (ReceivedSound) names a       *)
(*     packet that really was accepted.                                   *)
(***************************************************************************)
EXTENDS Connection, FiniteSetTheorems, TLAPS

USE SequenceAssumption

-----------------------------------------------------------------------------
(* Lemmas on the operators the model is built from.                       *)

LEMMA SeqSubType ==
    ASSUME NEW x \in Nat, NEW y \in Nat
    PROVE  SeqSub(x, y) \in SeqNum
BY DEF SeqSub, SeqNum

LEMMA SeqAddType ==
    ASSUME NEW x \in Nat, NEW y \in Nat
    PROVE  SeqAdd(x, y) \in SeqNum
BY DEF SeqAdd, SeqNum

LEMMA SlotOf ==
    ASSUME NEW x \in Nat
    PROVE  x % BufferSize \in Slot
BY DEF Slot

\* The other endpoint of a two-endpoint connection.
LEMMA PeerProps ==
    ASSUME NEW n \in Node
    PROVE  /\ Peer(n) \in Node
           /\ Peer(n) # n
           /\ Peer(Peer(n)) = n
<1>1. \E m \in Node : m # n
  <2>1. SUFFICES ASSUME \A m \in Node : m = n PROVE FALSE
    OBVIOUS
  <2>2. Node = {n}
    BY <2>1
  <2>3. Cardinality({n}) = 1
    BY FS_Singleton
  <2>. QED
    BY <2>2, <2>3, NodeAssumption
<1>2. Peer(n) \in Node /\ Peer(n) # n
  BY <1>1 DEF Peer
<1>3. \A k \in Node : k = n \/ k = Peer(n)
  <2>1. SUFFICES ASSUME NEW k \in Node, k # n, k # Peer(n) PROVE FALSE
    OBVIOUS
  <2>2. IsFiniteSet({n}) /\ Cardinality({n}) = 1
    BY FS_Singleton
  <2>3. IsFiniteSet({n} \cup {Peer(n)}) /\ Cardinality({n} \cup {Peer(n)}) = 2
    BY <2>2, <1>2, FS_AddElement
  <2>4. Cardinality(({n} \cup {Peer(n)}) \cup {k}) = 3
    <3>1. k \notin {n} \cup {Peer(n)}
      BY <2>1
    <3>. QED
      BY <2>3, <3>1, FS_AddElement
  <2>5. ({n} \cup {Peer(n)}) \cup {k} \subseteq Node
    BY <1>2
  <2>. QED
    BY <2>4, <2>5, NodeAssumption, FS_Subset
<1>4. Peer(Peer(n)) \in Node /\ Peer(Peer(n)) # Peer(n)
  <2>1. \E m \in Node : m # Peer(n)
    BY <1>2
  <2>. QED
    BY <2>1 DEF Peer
<1>. QED
  BY <1>2, <1>3, <1>4

\* SequenceBuffer::Insert keeps a buffer well formed.
LEMMA InsertType ==
    ASSUME NEW bf, bf.sequence \in SeqNum,
           bf.entry \in [Slot -> SeqNum \cup {Empty}],
           NEW s \in SeqNum
    PROVE  /\ Insert(bf, s).sequence \in SeqNum
           /\ Insert(bf, s).entry \in [Slot -> SeqNum \cup {Empty}]
<1>0. s \in Nat
  BY DEF SeqNum
<1>1. SeqAdd(s, 1) \in SeqNum
  BY <1>0, SeqAddType
<1>. QED
  BY <1>1 DEF Insert

\* After Insert(bf, s), a sequence found in the buffer is s or was found
\* in it before.
LEMMA FindInsert ==
    ASSUME NEW bf, bf.entry \in [Slot -> SeqNum \cup {Empty}],
           NEW s \in SeqNum, NEW x \in SeqNum,
           Find(Insert(bf, s), x)
    PROVE  x = s \/ Find(bf, x)
<1>1. x % BufferSize \in Slot
  BY SlotOf DEF SeqNum
<1>2. Empty \notin SeqNum
  BY DEF Empty, SeqNum
<1>. QED
  BY <1>1, <1>2 DEF Find, Insert

\* A sequence found in a buffer determines its slot's sequence.
LEMMA FindSlot ==
    ASSUME NEW bf, NEW x \in SeqNum, NEW y \in SeqNum,
           Find(bf, x), Find(bf, y), x % BufferSize = y % BufferSize
    PROVE  x = y
BY DEF Find

\* InsertAckPacketEntry yields a well-typed sent buffer.
LEMMA InsertAckPacketEntryType ==
    ASSUME NEW sp \in SentBufferType, NEW s \in SeqNum
    PROVE  InsertAckPacketEntry(sp, s) \in SentBufferType
<1>1. /\ Insert(sp, s).sequence \in SeqNum
      /\ Insert(sp, s).entry \in [Slot -> SeqNum \cup {Empty}]
  BY InsertType DEF SentBufferType
<1>2. s % BufferSize \in Slot
  BY SlotOf DEF SeqNum
<1>. QED
  BY <1>1, <1>2 DEF InsertAckPacketEntry, SentBufferType

LEMMA ProcessAcksType ==
    ASSUME NEW sp \in SentBufferType, NEW ack, NEW bits
    PROVE  ProcessAcks(sp, ack, bits) \in SentBufferType
BY DEF ProcessAcks, SentBufferType

LEMMA NewPacketType ==
    ASSUME TypeOK, NEW n \in Node, NEW d \in ChannelData
    PROVE  NewPacket(n, d) \in PacketType
<1>1. sentPackets[n].sequence \in SeqNum /\ receivedPackets[n].sequence \in SeqNum
  BY DEF TypeOK, SentBufferType, BufferType
<1>2. AckOf(receivedPackets[n]) \in SeqNum
  BY <1>1, SeqSubType DEF AckOf, SeqNum
<1>3. delivered[Peer(n)] \in SUBSET SeqNum
  BY PeerProps DEF TypeOK
<1>4. AckBitsOf(receivedPackets[n]) \in SUBSET (0 .. AckBits - 1)
  BY DEF AckBitsOf
<1>. QED
  BY <1>1, <1>2, <1>3, <1>4 DEF NewPacket, PacketType

-----------------------------------------------------------------------------
(* Type correctness.                                                       *)

LEMMA InitTypeOK == Init => TypeOK
<1>. SUFFICES ASSUME Init PROVE TypeOK
  OBVIOUS
<1>1. EmptyBuffer \in BufferType
  BY DEF EmptyBuffer, BufferType, SeqNum, Empty
<1>2. EmptySentBuffer \in SentBufferType
  BY <1>1 DEF EmptySentBuffer, SentBufferType, EmptyBuffer, BufferType
<1>3. 0 \in 0 .. MaxPackets
  BY MaxPacketsAssumption
<1>. QED
  BY <1>1, <1>2, <1>3 DEF Init, TypeOK, ErrorKind

LEMMA NextTypeOK == TypeOK /\ [Next]_vars => TypeOK'
<1>. SUFFICES ASSUME TypeOK, [Next]_vars PROVE TypeOK'
  OBVIOUS
<1>1. ASSUME NEW n \in Node, NEW d \in ChannelData, GeneratePacket(n, d)
      PROVE  TypeOK'
  <2>1. sentPackets[n].sequence \in SeqNum
    BY DEF TypeOK, SentBufferType
  <2>2. InsertAckPacketEntry(sentPackets[n], sentPackets[n].sequence) \in SentBufferType
    BY <2>1, InsertAckPacketEntryType DEF TypeOK
  <2>3. NewPacket(n, d) \in PacketType
    BY NewPacketType
  <2>4. packetsGenerated' \in [Node -> 0 .. MaxPackets]
    BY <1>1, MaxPacketsAssumption DEF GeneratePacket, TypeOK
  <2>5. sentPackets' \in [Node -> SentBufferType]
    BY <1>1, <2>2 DEF GeneratePacket, TypeOK
  <2>6. network' \subseteq PacketType
    BY <1>1, <2>3 DEF GeneratePacket, TypeOK
  <2>. QED
    BY <1>1, <2>4, <2>5, <2>6 DEF GeneratePacket, TypeOK
<1>2. ASSUME NEW n \in Node, NEW d \in ChannelData, GeneratePacketOutOfMemory(n, d)
      PROVE  TypeOK'
  <2>1. sentPackets[n].sequence \in SeqNum
    BY DEF TypeOK, SentBufferType
  <2>2. InsertAckPacketEntry(sentPackets[n], sentPackets[n].sequence) \in SentBufferType
    BY <2>1, InsertAckPacketEntryType DEF TypeOK
  <2>3. packetsGenerated' \in [Node -> 0 .. MaxPackets]
    BY <1>2, MaxPacketsAssumption DEF GeneratePacketOutOfMemory, TypeOK
  <2>4. sentPackets' \in [Node -> SentBufferType]
    BY <1>2, <2>2 DEF GeneratePacketOutOfMemory, TypeOK
  <2>5. error' \in [Node -> ErrorKind]
    BY <1>2 DEF GeneratePacketOutOfMemory, TypeOK, ErrorKind
  <2>. QED
    BY <1>2, <2>3, <2>4, <2>5 DEF GeneratePacketOutOfMemory, TypeOK
<1>3. ASSUME NEW n \in Node, NEW p \in network, ProcessPacket(n, p)
      PROVE  TypeOK'
  <2>1. p \in PacketType
    BY DEF TypeOK
  <2>2. Insert(receivedPackets[n], p.seq) \in BufferType
    <3>1. receivedPackets[n] \in BufferType /\ p.seq \in SeqNum
      BY <2>1 DEF TypeOK, PacketType
    <3>2. /\ Insert(receivedPackets[n], p.seq).sequence \in SeqNum
          /\ Insert(receivedPackets[n], p.seq).entry \in [Slot -> SeqNum \cup {Empty}]
      BY <3>1, InsertType DEF BufferType
    <3>. QED
      BY <3>2 DEF Insert, BufferType
  <2>3. ProcessAcks(sentPackets[n], p.ack, p.ackBits) \in SentBufferType
    BY ProcessAcksType DEF TypeOK
  <2>4. Peer(n) \in Node
    BY PeerProps
  <2>. QED
    BY <1>3, <2>1, <2>2, <2>3, <2>4 DEF ProcessPacket, TypeOK, PacketType
<1>4. ASSUME NEW n \in Node, NEW e \in BOOLEAN, AdvanceTime(n, e)
      PROVE  TypeOK'
  BY <1>4 DEF AdvanceTime, TypeOK, ErrorKind
<1>5. CASE UNCHANGED vars
  BY <1>5 DEF vars, TypeOK
<1>. QED
  BY <1>1, <1>2, <1>3, <1>4, <1>5 DEF Next

\* Type correctness of the connection: every reachable state has its
\* buffers, error kinds, packets and ghost sets of the declared types
\* (GeneratePacket, ProcessPacket and AdvanceTime keep them well formed).
THEOREM TypeCorrect == Spec => []TypeOK
BY InitTypeOK, NextTypeOK, PTL DEF Spec

-----------------------------------------------------------------------------
(* Ack soundness.                                                          *)

LEMMA InitIInv == Init => IInv
<1>. SUFFICES ASSUME Init PROVE IInv
  OBVIOUS
<1>1. \A s \in SeqNum : s # Empty
  BY DEF SeqNum, Empty
<1>2. \A s \in SeqNum : s % BufferSize \in Slot
  BY SlotOf DEF SeqNum
<1>3. AckSound
  BY <1>1, <1>2 DEF Init, EmptySentBuffer, AckSound, Acked, Find, EmptyBuffer
<1>4. ReceivedSound
  BY <1>1, <1>2 DEF Init, EmptySentBuffer, ReceivedSound, Find, EmptyBuffer
<1>5. PacketAcksSound
  BY DEF Init, EmptySentBuffer, PacketAcksSound
<1>. QED
  BY <1>3, <1>4, <1>5, InitTypeOK DEF IInv

\* A GeneratePacket step on n leaves no newly acked entry in n's
\* sentPackets: the inserted entry is unacked, the others keep their flag.
LEMMA InsertAckPacketEntryAcked ==
    ASSUME NEW sp \in SentBufferType, NEW q \in SeqNum, NEW s \in SeqNum,
           LET sp2 == InsertAckPacketEntry(sp, q)
           IN  Find(sp2, s) /\ sp2.acked[s % BufferSize]
    PROVE  Find(sp, s) /\ sp.acked[s % BufferSize]
<1>. DEFINE sp2 == InsertAckPacketEntry(sp, q)
<1>1. sp2.entry = Insert(sp, q).entry
  BY DEF InsertAckPacketEntry
<1>2. Find(Insert(sp, q), s)
  BY <1>1 DEF Find
<1>3. s = q \/ Find(sp, s)
  BY <1>2, FindInsert DEF SentBufferType
<1>4. s % BufferSize \in Slot /\ q % BufferSize \in Slot
  BY SlotOf DEF SeqNum
<1>5. s # q
  BY <1>4 DEF InsertAckPacketEntry, SentBufferType
<1>6. s % BufferSize # q % BufferSize
  <2>1. Insert(sp, q).entry[q % BufferSize] = q
    BY <1>4 DEF Insert
  <2>. QED
    BY <2>1, <1>2, <1>5 DEF Find
<1>. QED
  BY <1>3, <1>5, <1>6, <1>4 DEF InsertAckPacketEntry, SentBufferType

LEMMA NextIInv == IInv /\ [Next]_vars => IInv'
<1>. SUFFICES ASSUME IInv, [Next]_vars PROVE IInv'
  OBVIOUS
<1>0. TypeOK'
  BY NextTypeOK DEF IInv
<1>1. ASSUME NEW n \in Node, NEW d \in ChannelData, GeneratePacket(n, d)
      PROVE  IInv'
  <2>1. AckSound'
    <3>. SUFFICES ASSUME NEW m \in Node, NEW s \in SeqNum, Acked(m, s)'
                  PROVE  s \in delivered'[m]
      BY DEF AckSound
    <3>1. CASE m = n
      <4>1. sentPackets[n].sequence \in SeqNum /\ sentPackets[n] \in SentBufferType
        BY DEF IInv, TypeOK, SentBufferType
      <4>2. Acked(n, s)
        BY <1>1, <3>1, <4>1, InsertAckPacketEntryAcked
           DEF GeneratePacket, Acked, IInv, TypeOK
      <4>. QED
        BY <1>1, <3>1, <4>2 DEF GeneratePacket, IInv, AckSound
    <3>2. CASE m # n
      BY <1>1, <3>2 DEF GeneratePacket, IInv, AckSound, Acked, TypeOK
    <3>. QED
      BY <3>1, <3>2
  <2>2. ReceivedSound'
    BY <1>1 DEF GeneratePacket, IInv, ReceivedSound
  <2>3. PacketAcksSound'
    <3>. SUFFICES ASSUME NEW p \in network', NEW i \in p.ackBits
                  PROVE  SeqSub(p.ack, i) \in delivered'[Peer(p.from)]
      BY DEF PacketAcksSound
    <3>1. CASE p \in network
      BY <1>1, <3>1 DEF GeneratePacket, IInv, PacketAcksSound
    <3>2. CASE p = NewPacket(n, d)
      <4>1. i \in 0 .. AckBits - 1
            /\ Find(receivedPackets[n], SeqSub(AckOf(receivedPackets[n]), i))
        BY <3>2 DEF NewPacket, AckBitsOf
      <4>2. SeqSub(AckOf(receivedPackets[n]), i) \in SeqNum
        <5>0. receivedPackets[n].sequence \in Nat
          BY <1>1 DEF GeneratePacket, IInv, TypeOK, BufferType, SeqNum
        <5>1. AckOf(receivedPackets[n]) \in SeqNum
          BY <5>0, SeqSubType DEF AckOf
        <5>. QED
          BY <4>1, <5>1, SeqSubType DEF SeqNum
      <4>3. SeqSub(AckOf(receivedPackets[n]), i) \in delivered[Peer(n)]
        BY <4>1, <4>2 DEF IInv, ReceivedSound
      <4>. QED
        BY <1>1, <3>2, <4>3 DEF GeneratePacket, NewPacket
    <3>. QED
      BY <1>1, <3>1, <3>2 DEF GeneratePacket
  <2>. QED
    BY <1>0, <2>1, <2>2, <2>3 DEF IInv
<1>2. ASSUME NEW n \in Node, NEW d \in ChannelData, GeneratePacketOutOfMemory(n, d)
      PROVE  IInv'
  <2>1. AckSound'
    <3>. SUFFICES ASSUME NEW m \in Node, NEW s \in SeqNum, Acked(m, s)'
                  PROVE  s \in delivered'[m]
      BY DEF AckSound
    <3>1. CASE m = n
      <4>1. sentPackets[n].sequence \in SeqNum /\ sentPackets[n] \in SentBufferType
        BY DEF IInv, TypeOK, SentBufferType
      <4>2. Acked(n, s)
        BY <1>2, <3>1, <4>1, InsertAckPacketEntryAcked
           DEF GeneratePacketOutOfMemory, Acked, IInv, TypeOK
      <4>. QED
        BY <1>2, <3>1, <4>2 DEF GeneratePacketOutOfMemory, IInv, AckSound
    <3>2. CASE m # n
      BY <1>2, <3>2 DEF GeneratePacketOutOfMemory, IInv, AckSound, Acked, TypeOK
    <3>. QED
      BY <3>1, <3>2
  <2>2. ReceivedSound' /\ PacketAcksSound'
    BY <1>2 DEF GeneratePacketOutOfMemory, IInv, ReceivedSound, PacketAcksSound
  <2>. QED
    BY <1>0, <2>1, <2>2 DEF IInv
<1>3. ASSUME NEW n \in Node, NEW p \in network, ProcessPacket(n, p)
      PROVE  IInv'
  <2>0. /\ Peer(n) \in Node /\ Peer(n) # n /\ Peer(Peer(n)) = n
        /\ p.from = Peer(n)
        /\ p \in PacketType
    BY <1>3, PeerProps DEF ProcessPacket, IInv, TypeOK
  <2>1. \A m \in Node : delivered[m] \subseteq delivered'[m]
    BY <1>3, <2>0 DEF ProcessPacket, IInv, TypeOK
  <2>2. AckSound'
    <3>. SUFFICES ASSUME NEW m \in Node, NEW s \in SeqNum, Acked(m, s)'
                  PROVE  s \in delivered'[m]
      BY DEF AckSound
    <3>1. CASE m # n
      BY <1>3, <3>1, <2>1 DEF ProcessPacket, IInv, AckSound, Acked, TypeOK
    <3>2. CASE m = n
      <4>. DEFINE sp == sentPackets[n]
                  new == NewlyAcked(sp, p.ack, p.ackBits)
      <4>1. sentPackets'[n] = ProcessAcks(sp, p.ack, p.ackBits)
        BY <1>3 DEF ProcessPacket, IInv, TypeOK
      <4>0. Acked(n, s)'
        BY <3>2
      <4>2. Find(sp, s)
        BY <4>0, <4>1 DEF Acked, ProcessAcks, Find
      <4>3. s % BufferSize \in Slot
        BY SlotOf DEF SeqNum
      <4>4. sp.acked[s % BufferSize] \/ \E x \in new : x % BufferSize = s % BufferSize
        BY <4>0, <4>1, <4>3 DEF Acked, ProcessAcks
      <4>5. CASE sp.acked[s % BufferSize]
        BY <3>2, <4>2, <4>5, <2>1 DEF IInv, AckSound, Acked
      <4>6. CASE \E x \in new : x % BufferSize = s % BufferSize
        <5>1. PICK x \in new : x % BufferSize = s % BufferSize
          BY <4>6
        <5>2. PICK i \in p.ackBits : x = SeqSub(p.ack, i) /\ Find(sp, x)
          BY <5>1 DEF NewlyAcked
        <5>3. x \in SeqNum
          BY <5>2, <2>0, SeqSubType DEF PacketType, SeqNum
        <5>4. x = s
          BY <5>1, <5>2, <5>3, <4>2, FindSlot
        <5>5. x \in delivered[n]
          BY <5>2, <2>0 DEF IInv, PacketAcksSound
        <5>. QED
          BY <3>2, <5>4, <5>5, <2>1
      <4>. QED
        BY <4>4, <4>5, <4>6
    <3>. QED
      BY <3>1, <3>2
  <2>3. ReceivedSound'
    <3>. SUFFICES ASSUME NEW m \in Node, NEW s \in SeqNum, Find(receivedPackets'[m], s)
                  PROVE  s \in delivered'[Peer(m)]
      BY DEF ReceivedSound
    <3>0. Peer(m) \in Node
      BY PeerProps
    <3>1. CASE m # n
      BY <1>3, <3>1, <3>0, <2>1 DEF ProcessPacket, IInv, ReceivedSound, TypeOK
    <3>2. CASE m = n
      <4>1. Find(Insert(receivedPackets[n], p.seq), s)
        BY <1>3, <3>2 DEF ProcessPacket, IInv, TypeOK
      <4>2. s = p.seq \/ Find(receivedPackets[n], s)
        BY <4>1, <2>0, FindInsert DEF IInv, TypeOK, BufferType, PacketType
      <4>3. p.seq \in delivered'[Peer(n)]
        BY <1>3, <2>0 DEF ProcessPacket, IInv, TypeOK
      <4>. QED
        BY <4>2, <4>3, <3>2, <2>0, <2>1 DEF IInv, ReceivedSound
    <3>. QED
      BY <3>1, <3>2
  <2>4. PacketAcksSound'
    <3>. SUFFICES ASSUME NEW q \in network', NEW i \in q.ackBits
                  PROVE  SeqSub(q.ack, i) \in delivered'[Peer(q.from)]
      BY DEF PacketAcksSound
    <3>1. q \in network /\ Peer(q.from) \in Node
      BY <1>3, PeerProps DEF ProcessPacket, IInv, TypeOK, PacketType
    <3>. QED
      BY <3>1, <2>1 DEF IInv, PacketAcksSound
  <2>. QED
    BY <1>0, <2>2, <2>3, <2>4 DEF IInv
<1>4. ASSUME NEW n \in Node, NEW e \in BOOLEAN, AdvanceTime(n, e)
      PROVE  IInv'
  BY <1>0, <1>4 DEF AdvanceTime, IInv, AckSound, Acked, ReceivedSound, PacketAcksSound
<1>5. CASE UNCHANGED vars
  BY <1>0, <1>5 DEF vars, IInv, AckSound, Acked, ReceivedSound, PacketAcksSound
<1>. QED
  BY <1>1, <1>2, <1>3, <1>4, <1>5 DEF Next

\* Ack soundness of the connection (AckSound): in every reachable state,
\* a sent packet marked acked by ProcessAcks, and so reported to the
\* channels as delivered, was really accepted by the peer's ProcessPacket,
\* whatever the transport loses, reorders or duplicates.
THEOREM AckSoundness == Spec => []AckSound
<1>1. Init => IInv
  BY InitIInv
<1>2. IInv /\ [Next]_vars => IInv'
  BY NextIInv
<1>3. IInv => AckSound
  BY DEF IInv
<1>. QED
  BY <1>1, <1>2, <1>3, PTL DEF Spec


-----------------------------------------------------------------------------
(* Ack monotonicity, with the application's Reset between any two calls.  *)

\* Every sequence n's sentPackets holds is older than the next one it will
\* insert, and that one does not exceed n's GeneratePacket calls: within
\* the bound of MaxPacketsAssumption a sent sequence is never reused.
SentHistory ==
    \A n \in Node :
        /\ sentPackets[n].sequence <= packetsGenerated[n]
        /\ \A i \in Slot : \/ sentPackets[n].entry[i] = Empty
                           \/ sentPackets[n].entry[i] < sentPackets[n].sequence

\* The inductive invariant AckMonotonic is proved from.
RInv == TypeOK /\ SentHistory

LEMMA ResetTypeOK ==
    ASSUME TypeOK, NEW n \in Node, Reset(n)
    PROVE  TypeOK'
<1>1. EmptySentBuffer \in SentBufferType /\ EmptyBuffer \in BufferType
  BY DEF EmptySentBuffer, SentBufferType, EmptyBuffer, BufferType, SeqNum, Empty
<1>. QED
  BY <1>1 DEF Reset, TypeOK, ErrorKind

\* InsertAckPacketEntry of the buffer's own next sequence q, away from the
\* end of the sequence space: the window moves by one, slot q % BufferSize
\* takes q, unacked, and every other slot is left as it was.
LEMMA InsertNext ==
    ASSUME NEW sp \in SentBufferType, sp.sequence + 1 < SeqModulus
    PROVE  /\ InsertAckPacketEntry(sp, sp.sequence).sequence = sp.sequence + 1
           /\ \A i \in Slot :
                 InsertAckPacketEntry(sp, sp.sequence).entry[i] =
                     IF i = sp.sequence % BufferSize THEN sp.sequence ELSE sp.entry[i]
           /\ \A i \in Slot \ {sp.sequence % BufferSize} :
                 InsertAckPacketEntry(sp, sp.sequence).acked[i] = sp.acked[i]
<1>. DEFINE q == sp.sequence
<1>1. q \in Nat /\ q < SeqModulus /\ SeqModulus \in Nat /\ SeqModulus >= 3
  BY DEF SentBufferType, SeqNum
<1>2. SeqAdd(q, 1) = q + 1
  BY <1>1 DEF SeqAdd
<1>3. SequenceGreaterThan(SeqAdd(q, 1), q)
  BY <1>1, <1>2 DEF SequenceGreaterThan
<1>4. SeqSub(q, q) = 0 /\ SeqAdd(q, 0) = q
  BY <1>1 DEF SeqSub, SeqAdd
<1>5. RemovedSlots(q, q) = {q % BufferSize}
  BY <1>4 DEF RemovedSlots
<1>6. /\ Insert(sp, q).sequence = q + 1
      /\ \A i \in Slot : Insert(sp, q).entry[i] = IF i = q % BufferSize THEN q ELSE sp.entry[i]
  BY <1>2, <1>3, <1>5 DEF Insert
<1>. QED
  BY <1>6 DEF InsertAckPacketEntry, SentBufferType

LEMMA InitRInv == Init => RInv
<1>. SUFFICES ASSUME Init PROVE RInv
  OBVIOUS
<1>. QED
  BY InitTypeOK DEF Init, RInv, SentHistory, EmptySentBuffer, EmptyBuffer

\* A GeneratePacket step, with or without the allocation failure, on n:
\* n's sentPackets moves to InsertAckPacketEntry of its next sequence.
LEMMA GenerateStep ==
    ASSUME RInv, NEW n \in Node,
           /\ packetsGenerated[n] < MaxPackets
           /\ sentPackets' = [sentPackets EXCEPT ![n] =
                                InsertAckPacketEntry(@, sentPackets[n].sequence)]
           /\ packetsGenerated' = [packetsGenerated EXCEPT ![n] = @ + 1]
    PROVE  /\ sentPackets[n].sequence + 1 < SeqModulus
           /\ SentHistory'
<1>1. /\ sentPackets[n] \in SentBufferType
      /\ sentPackets[n].sequence \in Nat
      /\ packetsGenerated[n] \in Nat
      /\ sentPackets[n].sequence <= packetsGenerated[n]
  BY DEF RInv, TypeOK, SentHistory, SentBufferType, SeqNum
<1>2. sentPackets[n].sequence + 1 < SeqModulus
  <2>1. SeqModulus \in Nat /\ SeqModulus >= 3
    BY DEF SeqNum
  <2>. QED
    BY <1>1, <2>1, MaxPacketsAssumption
<1>3. LET sp == sentPackets[n]
          sp2 == InsertAckPacketEntry(sp, sp.sequence)
      IN  /\ sp2.sequence = sp.sequence + 1
          /\ \A i \in Slot : sp2.entry[i] = IF i = sp.sequence % BufferSize
                                             THEN sp.sequence ELSE sp.entry[i]
  BY <1>1, <1>2, InsertNext
<1>4. SentHistory'
  <2>. SUFFICES ASSUME NEW m \in Node
               PROVE  /\ sentPackets'[m].sequence <= packetsGenerated'[m]
                      /\ \A i \in Slot : \/ sentPackets'[m].entry[i] = Empty
                                         \/ sentPackets'[m].entry[i] < sentPackets'[m].sequence
    BY DEF SentHistory
  <2>1. CASE m = n
    BY <1>1, <1>3, <2>1 DEF RInv, TypeOK, SentHistory, SentBufferType, SeqNum, Empty
  <2>2. CASE m # n
    BY <2>2 DEF RInv, TypeOK, SentHistory
  <2>. QED
    BY <2>1, <2>2
<1>. QED
  BY <1>2, <1>4

LEMMA NextRInv == RInv /\ [NextWithReset]_vars => RInv'
<1>. SUFFICES ASSUME RInv, [NextWithReset]_vars PROVE RInv'
  OBVIOUS
<1>1. ASSUME NEW n \in Node, NEW d \in ChannelData, GeneratePacket(n, d)
      PROVE  RInv'
  <2>1. SentHistory'
    BY <1>1, GenerateStep DEF GeneratePacket
  <2>2. TypeOK'
    BY <1>1, NextTypeOK DEF RInv, Next
  <2>. QED
    BY <2>1, <2>2 DEF RInv
<1>2. ASSUME NEW n \in Node, NEW d \in ChannelData, GeneratePacketOutOfMemory(n, d)
      PROVE  RInv'
  <2>1. SentHistory'
    BY <1>2, GenerateStep DEF GeneratePacketOutOfMemory
  <2>2. TypeOK'
    BY <1>2, NextTypeOK DEF RInv, Next
  <2>. QED
    BY <2>1, <2>2 DEF RInv
<1>3. ASSUME NEW n \in Node, NEW p \in network, ProcessPacket(n, p)
      PROVE  RInv'
  <2>1. /\ sentPackets'[n].sequence = sentPackets[n].sequence
        /\ sentPackets'[n].entry = sentPackets[n].entry
    BY <1>3 DEF ProcessPacket, ProcessAcks, RInv, TypeOK, SentBufferType
  <2>2. SentHistory'
    BY <1>3, <2>1 DEF ProcessPacket, RInv, TypeOK, SentHistory
  <2>3. TypeOK'
    BY <1>3, NextTypeOK DEF RInv, Next
  <2>. QED
    BY <2>2, <2>3 DEF RInv
<1>4. ASSUME NEW n \in Node, NEW e \in BOOLEAN, AdvanceTime(n, e)
      PROVE  RInv'
  <2>1. TypeOK'
    BY <1>4, NextTypeOK DEF RInv, Next
  <2>. QED
    BY <1>4, <2>1 DEF AdvanceTime, RInv, SentHistory
<1>5. ASSUME NEW n \in Node, Reset(n)
      PROVE  RInv'
  <2>1. TypeOK'
    BY <1>5, ResetTypeOK DEF RInv
  <2>2. SentHistory'
    BY <1>5 DEF Reset, RInv, TypeOK, SentHistory, EmptySentBuffer, EmptyBuffer
  <2>. QED
    BY <2>1, <2>2 DEF RInv
<1>6. CASE UNCHANGED vars
  BY <1>6 DEF vars, RInv, TypeOK, SentHistory
<1>. QED
  BY <1>1, <1>2, <1>3, <1>4, <1>5, <1>6 DEF NextWithReset, Next

\* Type correctness with the application's Reset between any two calls:
\* Connection::Reset empties the buffers back to well-formed ones.
THEOREM TypeCorrectWithReset == SpecWithReset => []TypeOK
<1>1. SpecWithReset => []RInv
  BY InitRInv, NextRInv, PTL DEF SpecWithReset
<1>. QED
  BY <1>1, PTL DEF RInv

\* One step of the connection, Reset of another endpoint included, never
\* clears the acked flag of a packet that stays in n's window.
LEMMA AckMonotonicStep ==
    ASSUME RInv, [NextWithReset]_vars,
           NEW n \in Node, NEW s \in SeqNum,
           Acked(n, s), Find(sentPackets'[n], s), ~Reset(n)
    PROVE  Acked(n, s)'
<1>0. /\ sentPackets[n] \in SentBufferType
      /\ s % BufferSize \in Slot
      /\ sentPackets'[n].entry[s % BufferSize] = s
  BY SlotOf DEF RInv, TypeOK, SeqNum, Find
<1>. SUFFICES sentPackets'[n].acked[s % BufferSize]
  BY <1>0 DEF Acked, Find
<1>1. ASSUME NEW m \in Node, NEW d \in ChannelData,
             \/ GeneratePacket(m, d)
             \/ GeneratePacketOutOfMemory(m, d)
      PROVE  sentPackets'[n].acked[s % BufferSize]
  <2>1. /\ packetsGenerated[m] < MaxPackets
        /\ sentPackets' = [sentPackets EXCEPT ![m] =
                             InsertAckPacketEntry(@, sentPackets[m].sequence)]
        /\ packetsGenerated' = [packetsGenerated EXCEPT ![m] = @ + 1]
    BY <1>1 DEF GeneratePacket, GeneratePacketOutOfMemory
  <2>2. CASE m = n
    <3>. DEFINE q == sentPackets[n].sequence
    <3>1. q + 1 < SeqModulus
      BY <2>1, <2>2, GenerateStep
    <3>2. /\ sentPackets'[n] = InsertAckPacketEntry(sentPackets[n], q)
          /\ \A i \in Slot : sentPackets'[n].entry[i] =
                                IF i = q % BufferSize THEN q ELSE sentPackets[n].entry[i]
          /\ \A i \in Slot \ {q % BufferSize} : sentPackets'[n].acked[i] = sentPackets[n].acked[i]
      BY <1>0, <2>1, <2>2, <3>1, InsertNext DEF RInv, TypeOK
    <3>3. s % BufferSize # q % BufferSize
      <4>. SUFFICES ASSUME s % BufferSize = q % BufferSize PROVE FALSE
        OBVIOUS
      <4>1. s = q
        BY <1>0, <3>2
      <4>2. sentPackets[n].entry[q % BufferSize] = q
        BY <4>1 DEF Acked, Find
      <4>3. q \in Nat /\ q < Empty
        BY <1>0 DEF SentBufferType, SeqNum, Empty
      <4>. QED
        BY <1>0, <4>2, <4>3 DEF RInv, SentHistory
    <3>. QED
      BY <1>0, <3>2, <3>3 DEF Acked
  <2>3. CASE m # n
    BY <2>1, <2>3 DEF Acked, RInv, TypeOK
  <2>. QED
    BY <2>2, <2>3
<1>2. ASSUME NEW m \in Node, NEW p \in network, ProcessPacket(m, p)
      PROVE  sentPackets'[n].acked[s % BufferSize]
  <2>1. CASE m = n
    BY <1>0, <1>2, <2>1 DEF ProcessPacket, ProcessAcks, Acked, RInv, TypeOK
  <2>2. CASE m # n
    BY <1>2, <2>2 DEF ProcessPacket, Acked, RInv, TypeOK
  <2>. QED
    BY <2>1, <2>2
<1>3. ASSUME NEW m \in Node, NEW e \in BOOLEAN, AdvanceTime(m, e)
      PROVE  sentPackets'[n].acked[s % BufferSize]
  BY <1>3 DEF AdvanceTime, Acked
<1>4. ASSUME NEW m \in Node, Reset(m)
      PROVE  sentPackets'[n].acked[s % BufferSize]
  <2>1. m # n
    BY <1>4
  <2>. QED
    BY <1>4, <2>1 DEF Reset, Acked, RInv, TypeOK
<1>5. CASE UNCHANGED vars
  BY <1>5 DEF vars, Acked
<1>. QED
  BY <1>1, <1>2, <1>3, <1>4, <1>5 DEF NextWithReset, Next

\* Ack monotonicity (AckMonotonic): under any interleaving of both
\* endpoints' GeneratePacket, ProcessPacket, AdvanceTime and Reset, a sent
\* packet marked acked stays acked while it is in the window, until its
\* own endpoint resets: InsertAckPacketEntry only clears the flag of the
\* slot it reuses, which holds an older sequence, and ProcessAcks only
\* sets flags.
THEOREM AckMonotonicity == SpecWithReset => AckMonotonic
<1>1. SpecWithReset => []RInv
  BY InitRInv, NextRInv, PTL DEF SpecWithReset
<1>2. RInv /\ [NextWithReset]_vars =>
        [\A n \in Node, s \in SeqNum :
            Acked(n, s) /\ Find(sentPackets'[n], s) /\ ~Reset(n) => Acked(n, s)']_vars
  BY AckMonotonicStep
<1>. QED
  BY <1>1, <1>2, PTL DEF SpecWithReset, AckMonotonic

-----------------------------------------------------------------------------
(* Ack completeness.                                                       *)

\* Subtracting in uint16_t undoes itself: ack - (ack - s) = s.
LEMMA SeqSubSub ==
    ASSUME NEW a \in SeqNum, NEW s \in SeqNum
    PROVE  /\ SeqSub(a, s) = IF a >= s THEN a - s ELSE a + SeqModulus - s
           /\ SeqSub(a, SeqSub(a, s)) = s
<1>1. SeqSub(a, s) = IF a >= s THEN a - s ELSE a + SeqModulus - s
  BY DEF SeqSub, SeqNum
<1>2. SeqSub(a, SeqSub(a, s)) = s
  BY <1>1 DEF SeqSub, SeqNum
<1>. QED
  BY <1>1, <1>2

\* Two sequences less than a window apart have different slots.
LEMMA SlotDiff ==
    ASSUME NEW x \in Nat, NEW y \in Nat, y < x, x - y < BufferSize
    PROVE  x % BufferSize # y % BufferSize
<1>1. /\ x \div BufferSize \in Nat /\ x - (x \div BufferSize) * BufferSize = x % BufferSize
      /\ y \div BufferSize \in Nat /\ y - (y \div BufferSize) * BufferSize = y % BufferSize
  OBVIOUS
<1>. SUFFICES ASSUME x % BufferSize = y % BufferSize PROVE FALSE
  OBVIOUS
<1>2. PICK qx \in Nat, qy \in Nat : qx = x \div BufferSize /\ qy = y \div BufferSize
  BY <1>1
<1>6. PICK k \in Int : k = qx - qy
  OBVIOUS
<1>3. x - y = k * BufferSize
  BY <1>1, <1>2, <1>6
<1>4. CASE k >= 1
  <2>1. k * BufferSize >= BufferSize
    BY <1>4
  <2>. QED
    BY <1>3, <2>1
<1>5. CASE k <= 0
  <2>1. k * BufferSize <= 0
    BY <1>5
  <2>. QED
    BY <1>3, <2>1
<1>. QED
  BY <1>6, <1>4, <1>5

\* A receive buffer rb against the set D of sequences its endpoint has
\* accepted: rb.sequence is one past the newest of them (0 before the
\* first), and every one of them in the window below it is still found.
RecvWindowOf(rb, D) ==
    /\ D = {} => rb.sequence = 0
    /\ D # {} => /\ rb.sequence - 1 \in D
                 /\ \A s \in D : s < rb.sequence
    /\ \A s \in D : s + BufferSize >= rb.sequence => Find(rb, s)

\* The constants' bounds the window arithmetic rests on.
LEMMA WindowBounds ==
    /\ SeqModulus \in Nat /\ BufferSize \in Nat \ {0}
    /\ 2 * BufferSize < SeqModulus
    /\ MaxPackets \in 1 .. SeqModulus \div 2 + 1
    /\ SeqModulus \div 2 + 1 < SeqModulus
    /\ SeqModulus - SeqModulus \div 2 <= SeqModulus \div 2 + 1
BY MaxPacketsAssumption

\* SequenceBuffer::Insert of a sequence that is not stale keeps the window
\* exact, within the first half of the sequence space: a newer sequence
\* moves the window and empties only slots of sequences that fall out of
\* it, an older one only takes its own slot.
LEMMA InsertWindow ==
    ASSUME NEW rb \in BufferType, NEW D \in SUBSET (0 .. MaxPackets - 1),
           NEW t \in 0 .. MaxPackets - 1,
           RecvWindowOf(rb, D), ~IsStale(rb, t)
    PROVE  RecvWindowOf(Insert(rb, t), D \cup {t})
<1>. DEFINE q == rb.sequence
<1>0. /\ q \in Nat /\ q < SeqModulus /\ t \in Nat /\ t < SeqModulus
      /\ q \in SeqNum /\ t \in SeqNum
      /\ rb.entry \in [Slot -> SeqNum \cup {Empty}]
  BY WindowBounds DEF BufferType, SeqNum
<1>1. q <= MaxPackets /\ (D # {} => q >= 1)
  BY <1>0, WindowBounds DEF RecvWindowOf
\* Not stale: t is at most a window below q.
<1>2. t + BufferSize >= q
  <2>. SUFFICES ASSUME t + BufferSize < q PROVE FALSE
    BY <1>0
  <2>1. BufferSize \in SeqNum /\ q >= BufferSize
    BY <1>0, WindowBounds DEF SeqNum
  <2>2. SeqSub(q, BufferSize) = q - BufferSize
    BY <1>0, <2>1, SeqSubSub
  <2>3. SequenceGreaterThan(q - BufferSize, t)
    BY <1>0, <1>1, WindowBounds DEF SequenceGreaterThan
  <2>. QED
    BY <2>2, <2>3 DEF IsStale, SequenceLessThan
\* A fresh buffer finds stale every sequence of the upper half.
<1>3. q = 0 => t + 1 <= SeqModulus \div 2
  <2>. SUFFICES ASSUME q = 0, t + 1 > SeqModulus \div 2 PROVE FALSE
    OBVIOUS
  <2>1. BufferSize \in SeqNum
    BY WindowBounds DEF SeqNum
  <2>2. SeqSub(q, BufferSize) = SeqModulus - BufferSize
    BY <1>0, <2>1 DEF SeqSub, SeqNum
  <2>3. SequenceGreaterThan(SeqModulus - BufferSize, t)
    BY <1>0, WindowBounds DEF SequenceGreaterThan
  <2>. QED
    BY <2>2, <2>3 DEF IsStale, SequenceLessThan
<1>4. SeqAdd(t, 1) = t + 1
  BY <1>0, WindowBounds DEF SeqAdd
\* Insert moves the window exactly when t is not older than q.
<1>5. SequenceGreaterThan(SeqAdd(t, 1), q) <=> t >= q
  BY <1>0, <1>1, <1>3, <1>4, WindowBounds DEF SequenceGreaterThan
<1>6. /\ Insert(rb, t).sequence = IF t >= q THEN t + 1 ELSE q
      /\ \A i \in Slot :
            Insert(rb, t).entry[i] =
               IF i = t % BufferSize THEN t
               ELSE IF t >= q /\ i \in RemovedSlots(q, t) THEN Empty
               ELSE rb.entry[i]
  BY <1>4, <1>5 DEF Insert
<1>7. t % BufferSize \in Slot /\ \A s \in D : s % BufferSize \in Slot /\ s \in Nat
  <2>1. \A s \in D : s \in Nat
    BY WindowBounds
  <2>. QED
    BY <1>0, <2>1, SlotOf
<1>8. Find(Insert(rb, t), t)
  BY <1>6, <1>7 DEF Find
<1>9. CASE t >= q
  <2>0. Insert(rb, t).sequence = t + 1
    BY <1>6, <1>9
  <2>1. \A s \in D : s < q
    BY DEF RecvWindowOf
  <2>2. /\ (D \cup {t}) # {}
        /\ Insert(rb, t).sequence - 1 \in D \cup {t}
        /\ \A s \in D \cup {t} : s < Insert(rb, t).sequence
    BY <1>0, <1>9, <2>0, <2>1
  <2>3. \A s \in D : s # t /\ s + BufferSize >= t + 1 => Find(Insert(rb, t), s)
    <3>. SUFFICES ASSUME NEW s \in D, s # t, s + BufferSize >= t + 1
                  PROVE  Find(Insert(rb, t), s)
      OBVIOUS
    <3>1. s < q /\ s \in Nat /\ s % BufferSize \in Slot
      BY <1>7, <2>1
    <3>2. rb.entry[s % BufferSize] = s
      <4>1. s + BufferSize >= q
        BY <1>0, <1>9, <3>1
      <4>. QED
        BY <4>1 DEF RecvWindowOf, Find
    <3>3. s % BufferSize # t % BufferSize
      BY <1>0, <1>9, <3>1, SlotDiff
    <3>4. s % BufferSize \notin RemovedSlots(q, t)
      <4>1. t - q < BufferSize
        BY <1>0, <1>9, <3>1
      <4>2. SeqSub(t, q) = t - q
        BY <1>0, <1>9, SeqSubSub
      <4>3. RemovedSlots(q, t) = {SeqAdd(q, k) % BufferSize : k \in 0 .. t - q}
        <5>1. ~(SeqSub(t, q) >= BufferSize)
          BY <1>0, <4>1, <4>2
        <5>2. RemovedSlots(q, t) = {SeqAdd(q, k) % BufferSize : k \in 0 .. SeqSub(t, q)}
          BY <5>1, Zenon DEF RemovedSlots
        <5>. QED
          BY <4>2, <5>2
      <4>4. \A k \in 0 .. t - q : SeqAdd(q, k) % BufferSize # s % BufferSize
        <5>. SUFFICES ASSUME NEW k \in 0 .. t - q
                      PROVE  SeqAdd(q, k) % BufferSize # s % BufferSize
          OBVIOUS
        <5>1. q + k \in Nat /\ q + k <= t
          BY <1>0, <1>9
        <5>2. SeqAdd(q, k) = q + k
          BY <1>0, <5>1, WindowBounds DEF SeqAdd
        <5>3. s < q + k /\ q + k - s < BufferSize
          BY <1>0, <3>1, <5>1
        <5>. QED
          BY <3>1, <5>1, <5>2, <5>3, SlotDiff
      <4>. QED
        BY <4>3, <4>4
    <3>. QED
      BY <1>6, <1>9, <3>1, <3>2, <3>3, <3>4 DEF Find
  <2>. QED
    BY <1>8, <2>0, <2>2, <2>3 DEF RecvWindowOf
<1>10. CASE t < q
  <2>0. Insert(rb, t).sequence = q
    BY <1>0, <1>6, <1>10
  <2>1. D # {} /\ q - 1 \in D /\ \A s \in D : s < q
    BY <1>0, <1>1, <1>10 DEF RecvWindowOf
  <2>2. \A s \in D : s # t /\ s + BufferSize >= q => Find(Insert(rb, t), s)
    <3>. SUFFICES ASSUME NEW s \in D, s # t, s + BufferSize >= q
                  PROVE  Find(Insert(rb, t), s)
      OBVIOUS
    <3>1. s < q /\ s \in Nat /\ s % BufferSize \in Slot
      BY <1>7, <2>1
    <3>2. rb.entry[s % BufferSize] = s
      BY DEF RecvWindowOf, Find
    <3>3. s % BufferSize # t % BufferSize
      <4>1. CASE s < t
        BY <1>0, <1>2, <1>10, <3>1, <4>1, SlotDiff
      <4>2. CASE t < s
        BY <1>0, <1>2, <1>10, <3>1, <4>2, SlotDiff
      <4>. QED
        BY <1>0, <3>1, <4>1, <4>2
    <3>4. Insert(rb, t).entry[s % BufferSize] = rb.entry[s % BufferSize]
      BY <1>0, <1>6, <1>10, <3>1, <3>3
    <3>. QED
      BY <3>2, <3>4 DEF Find
  <2>. QED
    BY <1>8, <1>10, <2>0, <2>1, <2>2 DEF RecvWindowOf
<1>. QED
  BY <1>0, <1>9, <1>10

\* GenerateAckBits on a buffer with an exact window: every accepted
\* sequence within AckBits of the ack has its bit set.
LEMMA AckBitsComplete ==
    ASSUME NEW rb \in BufferType, NEW D \in SUBSET (0 .. MaxPackets - 1),
           RecvWindowOf(rb, D),
           NEW s \in D, SeqSub(AckOf(rb), s) < AckBits
    PROVE  SeqSub(AckOf(rb), s) \in AckBitsOf(rb)
<1>. DEFINE q == rb.sequence
<1>0. /\ q \in SeqNum /\ q \in Nat /\ s \in Nat /\ s \in SeqNum /\ 1 \in SeqNum
      /\ AckBits \in 1 .. BufferSize
  BY WindowBounds, AckBitsAssumption DEF BufferType, SeqNum
<1>1. q >= 1 /\ s < q
  BY <1>0 DEF RecvWindowOf
<1>2. AckOf(rb) = q - 1 /\ q - 1 \in SeqNum
  BY <1>0, <1>1, SeqSubSub DEF AckOf, SeqNum
<1>3. SeqSub(AckOf(rb), s) = q - 1 - s
  BY <1>0, <1>1, <1>2, SeqSubSub
<1>4. Find(rb, s)
  BY <1>0, <1>3 DEF RecvWindowOf
<1>5. q - 1 - s \in SeqNum /\ SeqSub(q - 1, q - 1 - s) = s
  BY <1>0, <1>1, <1>2, SeqSubSub DEF SeqNum
<1>6. q - 1 - s \in 0 .. AckBits - 1
  BY <1>0, <1>1, <1>3
<1>7. Find(rb, SeqSub(AckOf(rb), q - 1 - s))
  BY <1>2, <1>4, <1>5
<1>. QED
  BY <1>3, <1>6, <1>7 DEF AckBitsOf

-----------------------------------------------------------------------------
(* Ack completeness.  Without Reset, receivedPackets[n] records exactly   *)
(* the packets n accepted from its peer (delivered[Peer(n)]) within the   *)
(* window, so the ack bits a packet carries cover every accepted sequence *)
(* within AckBits of its ack, and ProcessAcks on that packet marks each   *)
(* of them still in the sender's window.                                  *)

\* Every packet's sequence, and every accepted sequence, is below the
\* MaxPackets bound.
PacketSeqBound ==
    /\ \A p \in network : p.seq < MaxPackets
    /\ \A n \in Node : delivered[n] \subseteq 0 .. MaxPackets - 1

RecvWindow == \A n \in Node : RecvWindowOf(receivedPackets[n], delivered[Peer(n)])

\* The ack bits of every packet in the transport cover every sequence its
\* sender had accepted within AckBits of its ack.
PacketAcksComplete ==
    \A p \in network : \A s \in p.rcvd :
        SeqSub(p.ack, s) < AckBits => SeqSub(p.ack, s) \in p.ackBits

\* The inductive invariant AckComplete is proved from.
CInv == TypeOK /\ SentHistory /\ PacketSeqBound /\ RecvWindow /\ PacketAcksComplete

LEMMA InitCInv == Init => CInv
<1>. SUFFICES ASSUME Init PROVE CInv
  OBVIOUS
<1>1. TypeOK /\ SentHistory
  BY InitRInv DEF RInv
<1>. QED
  BY <1>1, PeerProps DEF Init, CInv, PacketSeqBound, RecvWindow, RecvWindowOf,
                         PacketAcksComplete, EmptyBuffer

LEMMA NextCInv == CInv /\ [Next]_vars => CInv'
<1>. SUFFICES ASSUME CInv, [Next]_vars PROVE CInv'
  OBVIOUS
<1>0. TypeOK' /\ SentHistory'
  BY NextRInv DEF CInv, RInv, NextWithReset
<1>1. ASSUME NEW n \in Node, NEW d \in ChannelData, GeneratePacket(n, d)
      PROVE  CInv'
  <2>1. sentPackets[n].sequence < MaxPackets
    <3>1. sentPackets[n].sequence <= packetsGenerated[n]
      BY DEF CInv, SentHistory
    <3>2. sentPackets[n].sequence \in Nat /\ packetsGenerated[n] \in Nat
      BY DEF CInv, TypeOK, SentBufferType, SeqNum
    <3>. QED
      BY <1>1, <3>1, <3>2, MaxPacketsAssumption DEF GeneratePacket
  <2>2. PacketSeqBound'
    BY <1>1, <2>1 DEF GeneratePacket, CInv, PacketSeqBound, NewPacket
  <2>3. RecvWindow'
    BY <1>1 DEF GeneratePacket, CInv, RecvWindow
  <2>4. \A s \in delivered[Peer(n)] :
           SeqSub(AckOf(receivedPackets[n]), s) < AckBits
              => SeqSub(AckOf(receivedPackets[n]), s) \in AckBitsOf(receivedPackets[n])
    <3>1. /\ receivedPackets[n] \in BufferType
          /\ delivered[Peer(n)] \in SUBSET (0 .. MaxPackets - 1)
          /\ RecvWindowOf(receivedPackets[n], delivered[Peer(n)])
      BY PeerProps DEF CInv, TypeOK, PacketSeqBound, RecvWindow
    <3>. QED
      BY <3>1, AckBitsComplete
  <2>5. PacketAcksComplete'
    BY <1>1, <2>4 DEF GeneratePacket, CInv, PacketAcksComplete, NewPacket
  <2>. QED
    BY <1>0, <2>2, <2>3, <2>5 DEF CInv
<1>2. ASSUME NEW n \in Node, NEW d \in ChannelData, GeneratePacketOutOfMemory(n, d)
      PROVE  CInv'
  BY <1>0, <1>2 DEF GeneratePacketOutOfMemory, CInv, PacketSeqBound, RecvWindow,
                    PacketAcksComplete
<1>3. ASSUME NEW n \in Node, NEW p \in network, ProcessPacket(n, p)
      PROVE  CInv'
  <2>0. /\ p.seq \in 0 .. MaxPackets - 1
        /\ Peer(n) \in Node /\ Peer(n) # n /\ Peer(Peer(n)) = n
    <3>1. p \in PacketType /\ p.seq < MaxPackets
      BY DEF CInv, PacketSeqBound, TypeOK
    <3>2. p.seq \in Nat
      BY <3>1 DEF PacketType, SeqNum
    <3>. QED
      BY <3>1, <3>2, PeerProps, MaxPacketsAssumption
  <2>1. PacketSeqBound'
    BY <1>3, <2>0 DEF ProcessPacket, CInv, PacketSeqBound, TypeOK
  <2>2. RecvWindowOf(receivedPackets'[n], delivered'[Peer(n)])
    <3>1. /\ receivedPackets[n] \in BufferType
          /\ delivered[Peer(n)] \in SUBSET (0 .. MaxPackets - 1)
          /\ RecvWindowOf(receivedPackets[n], delivered[Peer(n)])
      BY <2>0 DEF CInv, TypeOK, PacketSeqBound, RecvWindow
    <3>2. /\ receivedPackets'[n] = Insert(receivedPackets[n], p.seq)
          /\ delivered'[Peer(n)] = delivered[Peer(n)] \cup {p.seq}
      BY <1>3, <2>0 DEF ProcessPacket, CInv, TypeOK
    <3>. QED
      BY <1>3, <2>0, <3>1, <3>2, InsertWindow DEF ProcessPacket
  <2>3. \A m \in Node \ {n} :
           RecvWindowOf(receivedPackets'[m], delivered'[Peer(m)])
    <3>. SUFFICES ASSUME NEW m \in Node \ {n}
                  PROVE  RecvWindowOf(receivedPackets'[m], delivered'[Peer(m)])
      OBVIOUS
    <3>1. Peer(m) \in Node /\ Peer(m) # Peer(n)
      BY PeerProps
    <3>2. receivedPackets'[m] = receivedPackets[m] /\ delivered'[Peer(m)] = delivered[Peer(m)]
      BY <1>3, <3>1 DEF ProcessPacket, CInv, TypeOK
    <3>. QED
      BY <3>2 DEF CInv, RecvWindow
  <2>4. RecvWindow'
    BY <2>2, <2>3 DEF RecvWindow
  <2>5. PacketAcksComplete'
    BY <1>3 DEF ProcessPacket, CInv, PacketAcksComplete
  <2>. QED
    BY <1>0, <2>1, <2>4, <2>5 DEF CInv
<1>4. ASSUME NEW n \in Node, NEW e \in BOOLEAN, AdvanceTime(n, e)
      PROVE  CInv'
  BY <1>0, <1>4 DEF AdvanceTime, CInv, PacketSeqBound, RecvWindow, PacketAcksComplete
<1>5. CASE UNCHANGED vars
  BY <1>5 DEF vars, CInv, TypeOK, SentHistory, PacketSeqBound, RecvWindow,
              RecvWindowOf, PacketAcksComplete
<1>. QED
  BY <1>1, <1>2, <1>3, <1>4, <1>5 DEF Next

\* ProcessPacket(n, p) marks acked every packet of n that p's sender had
\* accepted within AckBits of p's ack and that is still in n's window.
LEMMA AckCompleteStep ==
    ASSUME CInv, NEW n \in Node, NEW p \in network, ProcessPacket(n, p),
           NEW s \in p.rcvd, SeqSub(p.ack, s) < AckBits,
           Find(sentPackets'[n], s)
    PROVE  Acked(n, s)'
<1>. DEFINE sp == sentPackets[n]
            new == NewlyAcked(sp, p.ack, p.ackBits)
<1>0. /\ p \in PacketType /\ sp \in SentBufferType
      /\ s \in SeqNum /\ p.ack \in SeqNum /\ s % BufferSize \in Slot
  BY SlotOf DEF CInv, TypeOK, PacketType, SeqNum
<1>1. /\ sentPackets'[n].entry = sp.entry
      /\ sentPackets'[n].acked =
            [i \in Slot |-> IF \E x \in new : x % BufferSize = i THEN TRUE
                            ELSE sp.acked[i]]
  BY <1>0 DEF ProcessPacket, ProcessAcks, CInv, TypeOK, SentBufferType
<1>2. Find(sp, s)
  BY <1>1 DEF Find
<1>3. SeqSub(p.ack, s) \in p.ackBits
  BY <1>0 DEF CInv, PacketAcksComplete
<1>4. SeqSub(p.ack, SeqSub(p.ack, s)) = s
  BY <1>0, SeqSubSub
<1>5. sentPackets'[n].acked[s % BufferSize]
  <2>1. CASE sp.acked[s % BufferSize]
    BY <1>0, <1>1, <2>1
  <2>2. CASE ~sp.acked[s % BufferSize]
    <3>1. s \in new
      BY <1>2, <1>3, <1>4, <2>2 DEF NewlyAcked
    <3>. QED
      BY <1>0, <1>1, <3>1
  <2>. QED
    BY <2>1, <2>2
<1>. QED
  BY <1>1, <1>2, <1>5 DEF Acked, Find

\* Ack completeness (spec section 4.6 with section 8): a packet of n that
\* the peer had accepted before generating p, within ack_bits of p's ack
\* and still in n's window, is acked once n has processed p.
THEOREM AckCompleteness == Spec => AckComplete
<1>1. Spec => []CInv
  BY InitCInv, NextCInv, PTL DEF Spec
<1>2. CInv => \A n \in Node, p \in network :
                 ProcessPacket(n, p) =>
                   \A s \in p.rcvd :
                     SeqSub(p.ack, s) < AckBits /\ Find(sentPackets'[n], s) => Acked(n, s)'
  BY AckCompleteStep
<1>. QED
  BY <1>1, <1>2, PTL DEF AckComplete
=============================================================================
