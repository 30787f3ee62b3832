--------------------------- MODULE LiveConnection ---------------------------
(***************************************************************************)
(* The compiled Connection of src/yojimbo_connection.cpp (lines 36-353)   *)
(* seen from the messages it carries: who holds a reference to each       *)
(* Message of src/yojimbo_message.h, and when it is released.             *)
(*                                                                         *)
(* The application creates messages (refCount 1) and hands them to a      *)
(* channel's send queue.  Connection::GeneratePacket asks every channel   *)
(* for packet data: a reliable-ordered channel AddRefs each message it    *)
(* includes (the send queue keeps its own reference until the message is  *)
(* acked); an unreliable-unordered channel hands over the queue's          *)
(* reference.  The references so taken live in the ChannelPacketData      *)
(* array on GeneratePacket's stack and in the local ConnectionPacket,     *)
(* both destroyed when GeneratePacket returns.  Connection::ProcessAcks   *)
(* passes each ack to every channel; Connection::Reset resets them.       *)
(*                                                                         *)
(* The channels' code is not under src/: their send side is written from  *)
(* spec sections 4.2 and 4.3, with the resend timer and the bit budget    *)
(* left as a nondeterministic choice of the messages a packet takes.      *)
(* ProcessPacket (a stub returning true) and AdvanceTime (which only      *)
(* forwards the time to the channels) change no state modelled here.      *)
(***************************************************************************)
EXTENDS Naturals, Sequences, FiniteSets

CONSTANTS
    Msg,                  \* the messages the application may create
    ChannelType,          \* channelId -> "ReliableOrdered" | "UnreliableUnordered"
    SendQueueSize,        \* ChannelConfig.sendQueueSize
    MaxMessagesPerPacket, \* ChannelConfig.maxMessagesPerPacket
    MaxPackets            \* bound on GeneratePacket calls

ChannelId == DOMAIN ChannelType

ASSUME LiveAssumption ==
    /\ IsFiniteSet(Msg)
    /\ ChannelType \in [0 .. Cardinality(ChannelId) - 1 ->
                          {"ReliableOrdered", "UnreliableUnordered"}]
    /\ SendQueueSize \in Nat \ {0}
    /\ MaxMessagesPerPacket \in Nat \ {0}
    /\ MaxPackets \in Nat

Reliable(c) == ChannelType[c] = "ReliableOrdered"

ReliableChannels   == {c \in ChannelId : Reliable(c)}
UnreliableChannels == ChannelId \ ReliableChannels

PacketSeq == 0 .. MaxPackets - 1

VARIABLES
    refCount,       \* Message::m_refCount of each message (0 once deleted)
    created,        \* the messages MessageFactory::Create has returned
    app,            \* the messages the application holds a reference to
    sendQueue,      \* reliable channel: the occupied slots of its send queue, [id, msg]
    fifo,           \* unreliable channel: its send FIFO, oldest first
    sendMessageId,  \* reliable channel: id of the next message sent
    sentIds,        \* reliable channel: packet sequence -> messages it carried
    packetSeq,      \* the packetSequence of the next GeneratePacket
    orphan          \* ghost: references held by packets GeneratePacket destroyed

vars == <<refCount, created, app, sendQueue, fifo, sendMessageId, sentIds,
          packetSeq, orphan>>

\* The messages channel c's send queue holds a reference to.
QueuedMsgs(c) ==
    IF Reliable(c) THEN {e.msg : e \in sendQueue[c]}
    ELSE {fifo[c][i] : i \in DOMAIN fifo[c]}

-----------------------------------------------------------------------------
(* MessageFactory.                                                         *)

\* MessageFactory::AddRef of every message of S.
AddRefAll(rc, S) == [m \in Msg |-> IF m \in S THEN rc[m] + 1 ELSE rc[m]]

\* MessageFactory::Release of every message of S: the count drops by one
\* and a message whose count reaches 0 is deleted (its count stays 0).
ReleaseAll(rc, S) == [m \in Msg |-> IF m \in S THEN rc[m] - 1 ELSE rc[m]]

-----------------------------------------------------------------------------
(* The send side of the channels.                                          *)

\* CanSendMessage: the slot sendMessageId mod sendQueueSize is free.
CanSendMessage(c) ==
    \A e \in sendQueue[c] : e.id % SendQueueSize # sendMessageId[c] % SendQueueSize

\* The first k messages of an unreliable channel's FIFO.
Drained(c, k) == {fifo[c][i] : i \in 1 .. k}

\* Fault variant of PacketDataRefs: the reliable channel's AddRef left out.
PacketDataRefsNoAddRef(take) == {}

\* The messages GetPacketData AddRefs: those a reliable channel includes.
PacketDataRefs(take) == UNION {take[c] : c \in ReliableChannels}

\* Fault variant of AckedMsgs: the send-queue check left out.
AckedMsgsUnchecked(c, acks) == UNION {sentIds[c][s] : s \in acks}

\* ReliableOrderedChannel::ProcessAck of every sequence of acks: the
\* messages those packets carried that are still in the send queue.
AckedMsgs(c, acks) == (UNION {sentIds[c][s] : s \in acks}) \cap QueuedMsgs(c)

-----------------------------------------------------------------------------

Init ==
    /\ refCount = [m \in Msg |-> 0]
    /\ created = {}
    /\ app = {}
    /\ sendQueue = [c \in ReliableChannels |-> {}]
    /\ fifo = [c \in UnreliableChannels |-> << >>]
    /\ sendMessageId = [c \in ReliableChannels |-> 0]
    /\ sentIds = [c \in ReliableChannels |-> [s \in PacketSeq |-> {}]]
    /\ packetSeq = 0
    /\ orphan = [m \in Msg |-> 0]

\* MessageFactory::Create: a new message with refCount 1, held by the
\* application.
Create(m) ==
    /\ m \notin created
    /\ refCount' = [refCount EXCEPT ![m] = 1]
    /\ created' = created \cup {m}
    /\ app' = app \cup {m}
    /\ UNCHANGED <<sendQueue, fifo, sendMessageId, sentIds, packetSeq, orphan>>

\* The application releases a message it will not send.
Release(m) ==
    /\ m \in app
    /\ refCount' = ReleaseAll(refCount, {m})
    /\ app' = app \ {m}
    /\ UNCHANGED <<created, sendQueue, fifo, sendMessageId, sentIds, packetSeq, orphan>>

\* ReliableOrderedChannel::SendMessage: refused unless CanSendMessage; the
\* message takes id sendMessageId and the slot of that id, and the channel
\* takes over the application's reference.
SendReliable(c, m) ==
    /\ m \in app
    /\ CanSendMessage(c)
    /\ sendQueue' = [sendQueue EXCEPT ![c] = @ \cup {[id |-> sendMessageId[c], msg |-> m]}]
    /\ sendMessageId' = [sendMessageId EXCEPT ![c] = @ + 1]
    /\ app' = app \ {m}
    /\ UNCHANGED <<refCount, created, fifo, sentIds, packetSeq, orphan>>

\* UnreliableUnorderedChannel::SendMessage: the FIFO takes over the
\* application's reference; when full it first discards (releases) its
\* oldest message.
SendUnreliable(c, m) ==
    /\ m \in app
    /\ LET full == Len(fifo[c]) = SendQueueSize
       IN  /\ fifo' = [fifo EXCEPT ![c] = Append(IF full THEN Tail(@) ELSE @, m)]
           /\ refCount' = IF full THEN ReleaseAll(refCount, {Head(fifo[c])})
                          ELSE refCount
    /\ app' = app \ {m}
    /\ UNCHANGED <<created, sendQueue, sendMessageId, sentIds, packetSeq, orphan>>

\* The messages a packet's channel entries reference: ConnectionPacket
\* holds them in channelEntry once AllocateChannelData succeeds (they stay
\* in the stack ChannelPacketData array when it fails), and
\* ~ConnectionPacket releases none of them.
PacketEntryMsgs(take, drain) ==
    (UNION {take[c] : c \in ReliableChannels}) \cup
    (UNION {Drained(c, drain[c]) : c \in UnreliableChannels})

\* Connection::GeneratePacket: every channel's GetPacketData fills its
\* ChannelPacketData.  A reliable channel includes up to
\* maxMessagesPerPacket unacked messages (take[c]; which ones depends on
\* the resend timer and the bit budget), AddRefs them and records them
\* under packetSequence; an unreliable one drains the first drain[c]
\* messages of its FIFO, handing over their references.  Whether
\* AllocateChannelData fails (return false) or the entries are copied into
\* the packet and WritePacket serializes it, the ChannelPacketData array
\* and the ConnectionPacket are destroyed on return, and ~ConnectionPacket
\* releases nothing: every reference taken is dropped.
GeneratePacket(take, drain) ==
    /\ packetSeq < MaxPackets
    /\ \A c \in ReliableChannels :
          take[c] \subseteq QueuedMsgs(c) /\ Cardinality(take[c]) <= MaxMessagesPerPacket
    /\ \A c \in UnreliableChannels : drain[c] <= Len(fifo[c])
    /\ refCount' = AddRefAll(refCount, PacketDataRefs(take))
    /\ fifo' = [c \in UnreliableChannels |-> SubSeq(fifo[c], drain[c] + 1, Len(fifo[c]))]
    /\ sentIds' = [c \in ReliableChannels |->
                     IF take[c] # {} THEN [sentIds[c] EXCEPT ![packetSeq] = take[c]]
                     ELSE sentIds[c]]
    /\ orphan' = [m \in Msg |->
                    IF m \in PacketEntryMsgs(take, drain) THEN orphan[m] + 1 ELSE orphan[m]]
    /\ packetSeq' = packetSeq + 1
    /\ UNCHANGED <<created, app, sendQueue, sendMessageId>>

\* Connection::ProcessAcks: each ack goes to every channel's ProcessAck; a
\* reliable channel releases the acked messages still in its send queue
\* and frees their slots; an unreliable channel's ProcessAck does nothing.
ProcessAcks(acks) ==
    /\ refCount' = ReleaseAll(refCount, UNION {AckedMsgs(c, acks) : c \in ReliableChannels})
    /\ sendQueue' = [c \in ReliableChannels |->
                       {e \in sendQueue[c] : e.msg \notin AckedMsgs(c, acks)}]
    /\ UNCHANGED <<created, app, fifo, sendMessageId, sentIds, packetSeq, orphan>>

\* Fault variant of Reset: the messages released but left in the queues.
ResetNoClear ==
    /\ refCount' = ReleaseAll(refCount, UNION {QueuedMsgs(c) : c \in ChannelId})
    /\ sentIds' = [c \in ReliableChannels |-> [s \in PacketSeq |-> {}]]
    /\ sendMessageId' = [c \in ReliableChannels |-> 0]
    /\ UNCHANGED <<created, app, sendQueue, fifo, packetSeq, orphan>>

\* Connection::Reset: every channel's Reset releases the messages in its
\* send queue and forgets its sent packets.
Reset ==
    /\ refCount' = ReleaseAll(refCount, UNION {QueuedMsgs(c) : c \in ChannelId})
    /\ sendQueue' = [c \in ReliableChannels |-> {}]
    /\ fifo' = [c \in UnreliableChannels |-> << >>]
    /\ sentIds' = [c \in ReliableChannels |-> [s \in PacketSeq |-> {}]]
    /\ sendMessageId' = [c \in ReliableChannels |-> 0]
    /\ UNCHANGED <<created, app, packetSeq, orphan>>

Next ==
    \/ \E m \in Msg : Create(m) \/ Release(m)
    \/ \E c \in ReliableChannels, m \in Msg : SendReliable(c, m)
    \/ \E c \in UnreliableChannels, m \in Msg : SendUnreliable(c, m)
    \/ \E take \in [ReliableChannels -> SUBSET Msg],
          drain \in [UnreliableChannels -> 0 .. MaxMessagesPerPacket] :
          GeneratePacket(take, drain)
    \/ \E acks \in SUBSET (0 .. packetSeq - 1) : acks # {} /\ ProcessAcks(acks)
    \/ Reset

Spec == Init /\ [][Next]_vars

-----------------------------------------------------------------------------
(* Properties.                                                             *)

\* The references the live data structures hold on m: the application's
\* and the send queue's.
Holders(m) ==
    (IF m \in app THEN 1 ELSE 0) + Cardinality({c \in ChannelId : m \in QueuedMsgs(c)})

TypeOK ==
    /\ refCount \in [Msg -> Nat]
    /\ created \subseteq Msg
    /\ app \subseteq created
    /\ sendQueue \in [ReliableChannels -> SUBSET [id : Nat, msg : created]]
    /\ fifo \in [UnreliableChannels -> Seq(created)]
    /\ sendMessageId \in [ReliableChannels -> Nat]
    /\ sentIds \in [ReliableChannels -> [PacketSeq -> SUBSET created]]
    /\ packetSeq \in 0 .. MaxPackets
    /\ orphan \in [Msg -> Nat]

\* No use after free (spec section 3: a released message is never
\* observable afterwards): every message the application or a send queue
\* still holds has a positive refCount, whatever order of SendMessage,
\* GeneratePacket, duplicate or late acks, queue overflow and Reset.
NoUseAfterFree ==
    \A m \in app \cup UNION {QueuedMsgs(c) : c \in ChannelId} : refCount[m] > 0

\* Reference accounting: a message's refCount is the number of references
\* the application and the send queues hold, plus those taken for packets
\* GeneratePacket has destroyed; a message never created has count 0.
RefCountAccounts ==
    \A m \in Msg : refCount[m] = IF m \in created THEN Holders(m) + orphan[m] ELSE 0

\* No leak (spec sections 4.4 and 5: destroying a ConnectionPacket releases
\* every message reference it holds; leaks are a correctness bug): a
\* message neither the application nor a send queue holds is deleted.
LeakFree == \A m \in created : Holders(m) = 0 => refCount[m] = 0

=============================================================================
