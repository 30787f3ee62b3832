----------------------------- MODULE Connection -----------------------------
(***************************************************************************)
(* The connection-level ack protocol: two Connection endpoints exchanging *)
(* ConnectionPackets over an unreliable datagram transport.               *)
(*                                                                         *)
(* Translated from the complete Connection of src/yojimbo_connection.cpp  *)
(* (the "#if 0" block, lines 369-657, which the spec adopts as            *)
(* authoritative): GeneratePacket stamps each packet with the next        *)
(* sentPackets sequence and the ack/ack_bits of receivedPackets,          *)
(* ProcessPacket drops stale sequences, then applies the piggybacked      *)
(* acks, each newly acked sent packet being reported to the channels.     *)
(*                                                                         *)
(* The channels are a parameter here: a packet's per-channel payload is   *)
(* the opaque `data` argument of GeneratePacket, and a channel error is   *)
(* the argument of AdvanceTime.  Modules that compose channels with the   *)
(* connection conjoin their channel steps with these actions.             *)
(*                                                                         *)
(* The transport is a set of every packet ever sent: a packet may be      *)
(* delivered never (lost), late (reordered) or many times (duplicated).   *)
(***************************************************************************)
EXTENDS Naturals, FiniteSets, SequenceBuffer

CONSTANTS
    Node,           \* the two endpoints of the connection
    AckBits,        \* the width of ack_bits: 32
    MaxPackets,     \* bound on GeneratePacket calls per endpoint
    ChannelData,    \* the per-channel payloads a packet may carry
    NoChannelData   \* the payload when no channel has data

ASSUME NodeAssumption == IsFiniteSet(Node) /\ Cardinality(Node) = 2

\* 32 ack bits fit in a window of slidingWindowSize entries.
ASSUME AckBitsAssumption == AckBits \in 1 .. BufferSize

\* The bound keeps a run within half an epoch of the 16-bit sequence
\* space: no sequence is reused, and no two sequences of an endpoint are
\* more than half the space apart, which sequence_greater_than would
\* misorder (2^15 packets in the code, a few in a small model).
ASSUME MaxPacketsAssumption == MaxPackets \in 1 .. SeqModulus \div 2 + 1

VARIABLES
    sentPackets,      \* m_sentPackets: buffer with an acked flag per slot
    receivedPackets,  \* m_receivedPackets
    error,            \* m_error
    network,          \* packets in the transport
    packetsGenerated, \* GeneratePacket calls so far (bounded)
    delivered         \* ghost: delivered[n] = sequences of n's packets the
                      \*   peer accepted in ProcessPacket

vars == <<sentPackets, receivedPackets, error, network, packetsGenerated,
          delivered>>

Peer(n) == CHOOSE m \in Node : m # n

ErrorKind == {"None", "OutOfMemory", "Channel"}

SentBufferType == [sequence : SeqNum, entry : [Slot -> SeqNum \cup {Empty}],
                   acked : [Slot -> BOOLEAN]]

\* A ConnectionPacket: sequence, ack, ack_bits (as the set of its set bit
\* positions), the channel entries, and the ghost `rcvd`, the sequences
\* of the receiver's packets its sender had accepted when generating it.
PacketType == [from : Node, seq : SeqNum, ack : SeqNum,
               ackBits : SUBSET (0 .. AckBits - 1), data : ChannelData,
               rcvd : SUBSET SeqNum]

-----------------------------------------------------------------------------
(* Helpers of the ack protocol.                                            *)

\* GenerateAckBits (spec section 4.6): ack is the newest received
\* sequence, bit i is set iff ack - i is in receivedPackets.
AckOf(rb) == SeqSub(rb.sequence, 1)

AckBitsOf(rb) == {i \in 0 .. AckBits - 1 : Find(rb, SeqSub(AckOf(rb), i))}

\* Connection::InsertAckPacketEntry: insert the sequence, acked = 0.
InsertAckPacketEntry(sp, s) ==
    LET b == Insert(sp, s)
    IN  [sequence |-> b.sequence, entry |-> b.entry,
         acked |-> [sp.acked EXCEPT ![s % BufferSize] = FALSE]]

\* Fault variants of NewlyAcked: bit i read as ack + i; the loop stopping
\* one bit short.
NewlyAckedAhead(sp, ack, bits) ==
    {SeqAdd(ack, i) : i \in {j \in bits : Find(sp, SeqAdd(ack, j))
                                          /\ ~sp.acked[SeqAdd(ack, j) % BufferSize]}}

NewlyAckedShort(sp, ack, bits) ==
    {SeqSub(ack, i) : i \in {j \in bits : j < AckBits - 1
                                          /\ Find(sp, SeqSub(ack, j))
                                          /\ ~sp.acked[SeqSub(ack, j) % BufferSize]}}

\* The sequences Connection::ProcessAcks hands to PacketAcked: for each
\* set bit i, ack - i if it is in sentPackets and not yet acked.
NewlyAcked(sp, ack, bits) ==
    {SeqSub(ack, i) : i \in {j \in bits : Find(sp, SeqSub(ack, j))
                                          /\ ~sp.acked[SeqSub(ack, j) % BufferSize]}}

\* Fault variant of ProcessAcks: the flags rebuilt from this packet's
\* acks alone.
ProcessAcksFresh(sp, ack, bits) ==
    LET new == NewlyAcked(sp, ack, bits)
    IN  [sp EXCEPT !.acked = [i \in Slot |-> \E s \in new : s % BufferSize = i]]

\* Connection::ProcessAcks: mark each of them acked.
ProcessAcks(sp, ack, bits) ==
    LET new == NewlyAcked(sp, ack, bits)
    IN  [sp EXCEPT !.acked = [i \in Slot |->
                                IF \E s \in new : s % BufferSize = i THEN TRUE
                                ELSE sp.acked[i]]]

\* The sent-packet buffer after SequenceBuffer::Reset.
EmptySentBuffer ==
    [sequence |-> 0, entry |-> EmptyBuffer.entry, acked |-> [i \in Slot |-> FALSE]]

\* The packet GeneratePacket builds on endpoint n.
NewPacket(n, data) ==
    [from |-> n, seq |-> sentPackets[n].sequence,
     ack |-> AckOf(receivedPackets[n]), ackBits |-> AckBitsOf(receivedPackets[n]),
     data |-> data, rcvd |-> delivered[Peer(n)]]

-----------------------------------------------------------------------------
(* The state of a fresh connection: Connection::Reset.                    *)

Init ==
    /\ sentPackets = [n \in Node |-> EmptySentBuffer]
    /\ receivedPackets = [n \in Node |-> EmptyBuffer]
    /\ error = [n \in Node |-> "None"]
    /\ network = {}
    /\ packetsGenerated = [n \in Node |-> 0]
    /\ delivered = [n \in Node |-> {}]

-----------------------------------------------------------------------------
(* Operations.                                                             *)

\* Connection::GeneratePacket: no packet once the connection is errored;
\* otherwise the packet takes the next sequence, carries the current acks,
\* its sent-packet entry is inserted unacked, and it is sent.
GeneratePacket(n, data) ==
    /\ error[n] = "None"
    /\ packetsGenerated[n] < MaxPackets
    /\ sentPackets' = [sentPackets EXCEPT ![n] =
                         InsertAckPacketEntry(@, sentPackets[n].sequence)]
    /\ network' = network \cup {NewPacket(n, data)}
    /\ packetsGenerated' = [packetsGenerated EXCEPT ![n] = @ + 1]
    /\ UNCHANGED <<receivedPackets, error, delivered>>

\* Connection::GeneratePacket when AllocateChannelData fails: the sent
\* entry is already inserted; the connection errors, no packet is sent.
GeneratePacketOutOfMemory(n, data) ==
    /\ error[n] = "None"
    /\ packetsGenerated[n] < MaxPackets
    /\ data # NoChannelData
    /\ sentPackets' = [sentPackets EXCEPT ![n] =
                         InsertAckPacketEntry(@, sentPackets[n].sequence)]
    /\ error' = [error EXCEPT ![n] = "OutOfMemory"]
    /\ packetsGenerated' = [packetsGenerated EXCEPT ![n] = @ + 1]
    /\ UNCHANGED <<receivedPackets, network, delivered>>

\* Connection::ProcessPacket of a packet from the peer that is not stale
\* (a stale one, or any once errored, returns false with no effect): the
\* sequence enters receivedPackets, then the piggybacked acks are applied.
ProcessPacket(n, p) ==
    /\ p.from = Peer(n)
    /\ error[n] = "None"
    /\ ~IsStale(receivedPackets[n], p.seq)
    /\ receivedPackets' = [receivedPackets EXCEPT ![n] = Insert(@, p.seq)]
    /\ sentPackets' = [sentPackets EXCEPT ![n] = ProcessAcks(@, p.ack, p.ackBits)]
    /\ delivered' = [delivered EXCEPT ![Peer(n)] = @ \cup {p.seq}]
    /\ UNCHANGED <<error, network, packetsGenerated>>

\* Connection::AdvanceTime when a channel reports an error.
AdvanceTime(n, channelError) ==
    /\ channelError
    /\ error' = [error EXCEPT ![n] = "Channel"]
    /\ UNCHANGED <<sentPackets, receivedPackets, network, packetsGenerated,
                   delivered>>

\* Connection::Reset: the error is cleared and both buffers are emptied
\* (the channels' Reset and the counters are outside this model).  The
\* peer is not told: packets of either side already in the transport stay
\* there.  The ghost `delivered` of n restarts with n's new sequences.
Reset(n) ==
    /\ sentPackets' = [sentPackets EXCEPT ![n] = EmptySentBuffer]
    /\ receivedPackets' = [receivedPackets EXCEPT ![n] = EmptyBuffer]
    /\ error' = [error EXCEPT ![n] = "None"]
    /\ delivered' = [delivered EXCEPT ![n] = {}]
    /\ UNCHANGED <<network, packetsGenerated>>

Next ==
    \/ \E n \in Node, d \in ChannelData :
          GeneratePacket(n, d) \/ GeneratePacketOutOfMemory(n, d)
    \/ \E n \in Node, p \in network : ProcessPacket(n, p)
    \/ \E n \in Node, e \in BOOLEAN : AdvanceTime(n, e)

Spec == Init /\ [][Next]_vars

\* The connection with the application's Reset between any two calls.
NextWithReset == Next \/ \E n \in Node : Reset(n)

SpecWithReset == Init /\ [][NextWithReset]_vars

-----------------------------------------------------------------------------
(* Properties.                                                             *)

TypeOK ==
    /\ sentPackets \in [Node -> SentBufferType]
    /\ receivedPackets \in [Node -> BufferType]
    /\ error \in [Node -> ErrorKind]
    /\ network \subseteq PacketType
    /\ packetsGenerated \in [Node -> 0 .. MaxPackets]
    /\ delivered \in [Node -> SUBSET SeqNum]

\* Acked(n, s): sent packet s of n is in sentPackets and marked acked,
\* i.e. ProcessAcks has reported it to n's channels.
Acked(n, s) == Find(sentPackets[n], s) /\ sentPackets[n].acked[s % BufferSize]

\* Ack soundness: a sent packet is marked acked, and its messages treated
\* as delivered by the reliable channels, only if the peer really
\* accepted that packet (GenerateAckBits on one side, ProcessAcks on the
\* other, over a lossy, reordering, duplicating transport).
AckSound ==
    \A n \in Node, s \in SeqNum : Acked(n, s) => s \in delivered[n]

\* Every sequence a receivedPackets buffer holds is one the peer sent and
\* this endpoint accepted.
ReceivedSound ==
    \A n \in Node, s \in SeqNum :
        Find(receivedPackets[n], s) => s \in delivered[Peer(n)]

\* Every ack bit of a packet in the transport names a packet of its
\* receiver that its sender had accepted.
PacketAcksSound ==
    \A p \in network : \A i \in p.ackBits : SeqSub(p.ack, i) \in delivered[Peer(p.from)]

\* The inductive invariant AckSound is proved from.
IInv == TypeOK /\ AckSound /\ ReceivedSound /\ PacketAcksSound

\* Ack completeness: when n processes a packet of its peer, every packet
\* of n that the peer had accepted before generating it, within ack_bits
\* of its ack and still in n's window, is acked at n after the step.
AckComplete ==
    [][\A n \in Node, p \in network :
          ProcessPacket(n, p) =>
            \A s \in p.rcvd :
              SeqSub(p.ack, s) < AckBits /\ Find(sentPackets'[n], s) => Acked(n, s)']_vars

\* Ack monotonicity (spec section 8, property 5): a sent packet marked
\* acked stays acked for as long as it is in the window, until Reset;
\* neither InsertAckPacketEntry nor ProcessAcks clears the flag of
\* another packet.
AckMonotonic ==
    [][\A n \in Node, s \in SeqNum :
          Acked(n, s) /\ Find(sentPackets'[n], s) /\ ~Reset(n) => Acked(n, s)']_vars

=============================================================================
