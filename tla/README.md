# TLA+ models of the yojimbo connection layer

This directory holds TLA+ specifications of `src/yojimbo_connection.cpp` and
`src/yojimbo_message.h`, the TLC configurations that model-check them, and
TLAPS proofs of their main invariants. `PROJECT.json` lists the components,
runs, mutants, source map, hazards, findings and theorems. This file explains them.

## The system

A `Connection` sits between an application and an unreliable datagram
transport. Its parts are:

- **Channels.** Each channel (reliable-ordered or unreliable-unordered) has a send queue
  of `Message`s. On each tick, `GeneratePacket` asks every channel, in id order,
  for a `ChannelPacketData` slice. It copies the slices into a
  `ConnectionPacket` (`AllocateChannelData`) and serializes it (`WritePacket`).
- **Ack protocol.** It lives only in the `#if 0` block of the source, which the spec
  (section 9) adopts as authoritative:
  - Each packet carries its sequence and the `ack` / `ack_bits` summary of the
    packets received (`GenerateAckBits`).
  - `ProcessPacket` drops stale sequences (`SequenceBuffer::Insert`) and then applies
    the piggybacked acks (`ProcessAcks`).
  - Each newly acked packet is reported once to every channel (`PacketAcked`),
    and a reliable channel then releases the acked messages.
- **Messages.** Messages are reference counted (`MessageFactory::Create`, `AddRef`,
  `Release`). A message is deleted when its count reaches 0.
  - `Create` calls the application's factory `CreateInternal`, which the
    `YOJIMBO_MESSAGE_FACTORY_*` macros generate, and which stores the type with
    `SetType` into the 15-bit field `m_type`.
  - A `BlockMessage` can own a block buffer. `AttachBlock` hands it over with
    its allocator; `DetachBlock` hands it back. `~BlockMessage`, which runs
    when the last `Release` deletes the message, frees the block if an
    allocator is still set.
- **Compiled code.** The code that is actually built is different:
  - `GeneratePacket` takes the sequence as an argument and builds a packet without
    acks.
  - `ProcessPacket` is a stub.
  - `ProcessAcks` passes a caller-supplied list of acks to the channels.
  - `Reset` resets the channels.

## Modules

| module | models | state |
|---|---|---|
| `SequenceBuffer` | `SequenceBuffer<T>` and 16-bit sequence arithmetic. Not under `src/`: written from spec sections 3 and 9. Operators only. | a buffer is `[sequence, entry]`, with entries indexed by `seq % BufferSize` |
| `Connection` | the complete (`#if 0`) Connection: two endpoints over a transport that loses, reorders and duplicates | `sentPackets` (with an `acked` flag per slot), `receivedPackets`, `error`, `network`, `packetsGenerated`; ghost `delivered` |
| `LiveConnection` | the compiled Connection, ConnectionPacket and MessageFactory, plus the send side of both channel types (from spec sections 4.2 and 4.3) | `refCount`, `created`, `app`; per reliable channel `sendQueue` (its occupied slots, `[id, msg]`), `sendMessageId`, `sentIds`; per unreliable channel `fifo` (a sequence, oldest first); `packetSeq`; ghost `orphan` |
| `Message` | `Message`, `BlockMessage` and `MessageFactory` (`src/yojimbo_message.h`), with the application allocating and freeing block buffers | `created`, `alive`, `refCount`, `mtype`, `isBlock`, `blockData`, `blockAlloc` (is `m_allocator` set), `used`, `heap` (allocated buffers), `appBlocks`; ghosts `held` and `requested` |
| `MessageOwnership` | the abstract contract: messages are live while held, and every buffer has one owner | `status`, `holders`, `owner` |
| `ConnectionProofs`, `LiveConnectionProofs`, `MessageProofs` | TLAPS proofs about `Connection`, `LiveConnection` and `Message` | — |
| `MCConnection`, `MCLiveConnection`, `MCMessage` | TLC instances: model values and symmetry | — |

### `Connection` actions and the code they model

- **`GeneratePacket(n, data)`** models `Connection::GeneratePacket`, lines 466-536. In order:
  - it refuses once the connection is errored;
  - the packet takes `sentPackets.sequence`, and `ack` / `ack_bits` from `receivedPackets`;
  - `InsertAckPacketEntry` inserts the entry as unacked;
  - the packet goes into `network`.
  
  The channel payload is the parameter `data`.
- **`GeneratePacketOutOfMemory(n, data)`** is the same function when
  `AllocateChannelData` fails (lines 509-515). The sent entry is already inserted,
  `m_error` becomes OutOfMemory, and no packet is returned.
- **`ProcessPacket(n, p)`** models lines 538-570. It rejects the packet when errored or
  stale. Otherwise it inserts into `receivedPackets`, then applies
  `ProcessAcks` (lines 612-638):
  - bit `i` names `ack - i` in `uint16_t`;
  - an entry that is found and not yet acked is reported and marked acked.
  
  The channel data the packet carries is not modelled here.
- **`AdvanceTime(n, channelError)`** models lines 572-586. A channel error makes the
  connection errored.
- **`Reset(n)`** models lines 432-443. It clears the error and empties both buffers. It is
  in `NextWithReset` only: see the runs.

Each packet is stamped with a ghost field `rcvd`: the sequences of the receiver's
packets that its sender had accepted when it generated the packet. `delivered[n]`
is the set of n's sequences that the peer accepted.

### `LiveConnection` actions

- **`Create(m)`** models `MessageFactory::Create`: refCount 1, held by the application.
- **`Release(m)`** models the application's `MessageFactory::Release`.
- **`SendReliable(c, m)`**: the reliable channel's `SendMessage` takes over the
  application's reference. The message gets id `sendMessageId` and the slot
  `sendMessageId % sendQueueSize`. `CanSendMessage` refuses while that slot is
  occupied: a slot is free only when the message `sendQueueSize` ids older has
  been acked, so out-of-order acks do not free one.
- **`SendUnreliable(c, m)`**: the unreliable channel's `SendMessage` appends to
  its FIFO. A full FIFO first discards and releases its oldest message.
- **`GeneratePacket(take, drain)`** models lines 255-313 with `ConnectionPacket` (104-134).
  Each channel's `GetPacketData` contributes:
  - a reliable channel `take[c]`: up to `maxMessagesPerPacket` unacked messages;
    the resend timer and bit budget are abstracted into this choice;
  - an unreliable one the first `drain[c]` messages of its FIFO.
  
  The reliable channel `AddRef`s the messages it includes and records them under the
  packet sequence. The unreliable channel hands its reference over. Both the
  stack `channelData` array and the local packet die on return, and
  `~ConnectionPacket` releases nothing. The ghost `orphan[m]` counts these
  dropped references.
  
  `AllocateChannelData` failing, or `WritePacket` returning 0 bytes, leaves
  the same state, so the model does not distinguish them.
- **`ProcessAcks(acks)`** models lines 326-335. Every ack of a caller-supplied set
  goes to every channel. A reliable channel releases, and dequeues, the acked
  messages still in its queue. A repeated ack finds them gone.
- **`Reset`** models lines 224-230. Every channel releases its queued messages and forgets its
  sent packets.

### `Message` actions

- **`Create(m, t)`** models `MessageFactory::Create` (lines 181-196) and
  `CreateInternal` (the macros, lines 243-274). The `Message` constructor sets
  the count to 1, `SetType` stores `t % 2^15`, and the block flag comes from
  the message class. The ghost `requested[m]` remembers `t`.
- **`AddRef(m)`** and **`Release(m)`** model lines 198-222. `Release` decrements
  and then tests for 0. At 0 it deletes the message, and `~BlockMessage`
  (lines 87-96) frees the block of a message whose allocator is set
  (`FreedBlocks`). The caller must hold a reference (ghost `held`).
- **`AttachBlock(m, b)`** models lines 98-107. Its asserts (data not NULL, no
  block yet) are guards. The buffer passes from the application to the message.
- **`DetachBlock(m)`** models `GetBlockData` and `DetachBlock` (lines 109-124).
  The application gets the buffer back, and allocator, data and size are cleared.
- **`AllocBlock(b)`** and **`FreeBlock(b)`** are the application using the
  allocator. It frees only buffers it owns.

`MessageOwnership` states what the code promises without counts or pointers.
`New`, `Hold` and `LetGo` track a message's holders; the last `LetGo` deletes it
and frees the block it owns. `Alloc`, `Attach`, `Detach` and `Free` move a
buffer between nobody, the application, one live message, and freed. `Message`
maps onto it: a message's status comes from `created` and `alive`, its holders
are `held`, and a buffer's owner is the one live message whose allocator points
at it (`BlockOwner`).

## Runs

| run | cfg | expect | what it shows |
|---|---|---|---|
| `connection_acks` | `MCConnection.cfg` | pass | `TypeOK`. `AckSound`: a packet is acked only if the peer accepted it. `AckComplete`: every accepted packet that a processed packet reports within `ack_bits` is acked when that report is processed. |
| `connection_reset` | `MCConnectionReset.cfg` | pass | With `Reset` at any point, `AckMonotonic` holds: an acked packet stays acked while it is in the window, until Reset (spec property 5). |
| `reset_false_ack` | `MCConnectionResetAck.cfg` | violation | `AckSound` fails after a one-sided Reset (finding below). |
| `live_refcounts` | `MCLiveConnection.cfg` | pass | Under duplicate and late acks, queue overflow and Reset: `NoUseAfterFree`, `RefCountAccounts` (every reference is accounted for), and `TypeOK` (counts never negative). |
| `live_leak` | `MCLiveConnectionLeak.cfg` | violation | `LeakFree` fails: messages put in a packet are never freed (finding below). |
| `message_ownership` | `MCMessage.cfg` | pass | `TypeOK`, including a `m_refCount` that never goes below zero. `BlockOwnership`: every allocated buffer is owned by the application or by exactly one live message, and no freed buffer is reachable. `ImplementsOwnership`: `Message` refines `MessageOwnership`. |
| `message_type_truncation` | `MCMessageType.cfg` | violation | `TypeRoundTrip` fails: a type of 2^15 or more comes back changed (finding below). |

Each property of a passing run has a mutant in `PROJECT.json`. The mutant is a
fault variant defined beside the operator it replaces: an int rather than
`uint16_t` subtraction, acks read ahead of `ack`, the bit loop one short, acked
flags rebuilt from one packet, the send-queue check dropped from
`ProcessAck`, the queue left uncleared on Reset, the reliable channel's `AddRef`
left out, `Message::AddRef` not incrementing the count, `DetachBlock` leaving
the allocator set, or `Release` testing for 0 before it decrements. TLC finds the property violated under each mutant.

### Bounds

- **`Connection`** runs with sequences modulo 6, a window of 2, 2 ack bits and two
  endpoints exchanging 4 packets each (2 in the Reset runs).
  - The window and the ack bits are below the code's 256/32, but the slot
    arithmetic is the same. Old entries are evicted, acks wrap below 0, and
    slots are reused.
  - The assumptions keep the proportions of the code: `2 * BufferSize < SeqModulus`
    and `MaxPackets <= SeqModulus \div 2 + 1`.
    - With a window of half the space, a fresh buffer calls sequence 0 stale.
    - Beyond half an epoch, `sequence_greater_than` misorders. In the code
      that takes 2^15 packets without a reply, but in a small modulus it takes
      only a few; a model going that far would report this arithmetic artifact
      rather than code behaviour.
- **`LiveConnection`** runs with three messages, one reliable and one unreliable
  channel, a send queue of 2, 2 messages per packet and 4 packets. With three
  messages, a queue of 2 can be full, can overflow, and can receive acks out of
  order. The proofs cover every number of messages and channels, every queue
  size and every packet bound.
- **`Message`** runs with three messages, two blocks, at most 2 references
  per message, and `numTypes` = 32769 with types {1, 32768}. Only 32768 is a
  block message type. Three messages and two blocks are enough for a buffer
  to be attached, detached and attached again to another message, and for a
  message to die with or without a block. Two references let a message
  survive a `Release`. The truncation run needs a type above 2^15 - 1.
  `CHECK_DEADLOCK FALSE`: handles are never reused, so every run ends
  when all messages are released and all buffers freed.
- Symmetry is used over the endpoints and over the messages, which the models
  treat alike.

### Fairness

None. The spec (section 5) delegates liveness to the transport: a lossy
transport may drop every packet, so no fairness condition on delivery is
justified by the code. All properties are safety or action properties.
`AckComplete` is the safety half of spec section 4.6's promise.

## Findings

- **Type truncation (spec/code divergence).** `m_type` is a 15-bit bitfield
  (line 77), and `Create` only asserts `type < numTypes`. With more than 2^15
  types, `Create(32768)` returns a message whose `GetType()` is 0. The spec
  gives a message the type in 0..numTypes-1 that it was created with, and
  puts no bound on numTypes.
- **Leak (code bug).** `~ConnectionPacket` (line 115, a todo) releases none of the
  message references in its channel entries. The compiled `GeneratePacket`
  drops its `channelData` array in the same way when `AllocateChannelData`
  fails. Spec sections 4.4 and 5 require release. `live_leak` reaches it in
  three steps: create a message, send it on the unreliable channel, generate a
  packet.
- **False ack after Reset (spec gap).** `Reset` (line 439) restarts the sent
  sequences at 0 without the peer knowing. The peer's packets from before the Reset
  then ack the new packet with the same sequence, which the peer never received,
  so a reliable channel would drop a message as delivered. The spec offers
  Reset to abandon in-flight state but does not say that packets crossing a
  one-sided Reset must be discarded.

## Proofs (`MessageProofs`)

- `TypeCorrect`: `Spec => []TypeOK`.
- `OwnershipSafe`: `Spec => []BlockOwnership`.
- `Refinement`: `Spec => MO!Spec`, that is, `Message` implements `MessageOwnership`.

These hold for every finite set of messages and blocks, every `numTypes` and
every reference bound allowed by `MessageAssumption`. `BlockOwnership` is not
inductive alone, because `Release` frees what the allocator pointer names. The
strengthening is

```
IInv == TypeOK /\ RefCountHeld /\ AllocatorSet /\ BlockOwnership
```

- `RefCountHeld`: `refCount` equals the references held, and a message is
  alive exactly while one is held. This lets `Release` know when it deletes.
- `AllocatorSet`: `m_allocator` is set exactly when `m_blockData` is.
  So the destructor frees exactly the attached block.

The refinement proof maps each step. `Create` maps to `New`, `AddRef` to
`Hold` and `Release` to `LetGo`. `AttachBlock`, `AllocBlock` and `FreeBlock`
map to their namesakes. `DetachBlock` maps to `Detach`, or to a stutter when
no block is attached. The mapping uses `IInv`: under it a buffer held by a
message has exactly one owner, so `BlockOwner` is that message.

## Proofs (`ConnectionProofs`)

- `TypeCorrect`: `Spec => []TypeOK`.
- `AckSoundness`: `Spec => []AckSound`.
- `TypeCorrectWithReset`: `SpecWithReset => []TypeOK`.
- `AckMonotonicity`: `SpecWithReset => AckMonotonic`, the action property of
  the `connection_reset` run.
- `AckCompleteness`: `Spec => AckComplete`, the action property of the
  `connection_acks` run.

All hold for every value of the constants that satisfies `SequenceAssumption`,
`NodeAssumption`, `AckBitsAssumption` and `MaxPacketsAssumption`.

`AckSound` is not inductive on its own. A step of `ProcessPacket` acks whatever
the packet's bits name, so the proof needs to know that those bits are
truthful. The strengthening is:

```
IInv == TypeOK /\ AckSound /\ ReceivedSound /\ PacketAcksSound
```

- `ReceivedSound`: every entry of a receive buffer is a sequence the peer really sent
  and this endpoint accepted.
- `PacketAcksSound`: every ack bit of every packet in transit names an accepted
  packet. `GenerateAckBits` reads only the receive buffer, so this follows from
  `ReceivedSound`.

The argument for `AckSound`:
1. `ProcessAcks` marks only sequences that the packet's bits name, so `AckSound`
   is preserved.
2. `InsertAckPacketEntry` marks its slot unacked.
3. TLC checked `IInv` as an invariant before it was proved.

Each action gets one step, and `ProcessPacket` gets one step per conjunct. Lemmas
cover the operators: the types of `Insert`, `SeqSub` and `ProcessAcks`, what
`Find` returns after `Insert`, and the peer of an endpoint.

`AckMonotonic` is proved from a second inductive invariant, for the spec with
`Reset`:

```
RInv == TypeOK /\ SentHistory
```

`SentHistory` says that every sequence in an endpoint's `sentPackets` is below
the buffer's next sequence, and that this sequence is at most the endpoint's
`GeneratePacket` calls. `MaxPacketsAssumption` then keeps the next sequence
plus one inside the sequence space. So `InsertAckPacketEntry` of the next
sequence moves the window by one. It writes and clears the acked flag of one
slot, and that slot cannot hold a packet that is still found afterwards: such
a packet would have the new sequence, which the buffer never held. `ProcessAcks`
only sets flags. `Reset` of the other endpoint touches nothing of this one.
TLC checked `SentHistory` on the Reset instance before it was proved.

`AckComplete` is proved, for the spec without `Reset`, from a third inductive
invariant:

```
CInv == TypeOK /\ SentHistory /\ PacketSeqBound /\ RecvWindow /\ PacketAcksComplete
```

- `PacketSeqBound`: every packet's sequence, and every accepted sequence, is
  below `MaxPackets`. It follows from `SentHistory`.
- `RecvWindow`: an endpoint's receive buffer has as its next sequence one
  past the newest sequence it accepted (0 before the first). It still finds
  every accepted sequence within one window below that.
- `PacketAcksComplete`: the ack bits of every packet in transit cover every
  sequence its sender had accepted within `AckBits` of its ack.

The argument:
1. Lemma `InsertWindow`: `Insert` of a sequence that is not stale keeps
   `RecvWindow`. Below `MaxPackets` the sequence comparisons never wrap.
   A newer sequence moves the window. It empties only the slots of sequences
   between the old next one and itself. Those are less than a window from any
   accepted sequence still inside it, so they have other slots (`SlotDiff`).
   An older sequence only writes its own slot.
2. Lemma `AckBitsComplete`: `GenerateAckBits` on such a buffer sets the bit of
   every accepted sequence within `AckBits` of the ack. This gives
   `PacketAcksComplete` for each new packet.
3. `ProcessAcks` then reaches each of those bits. It marks the sequence
   acked, or leaves it acked.

The proof covers the spec without `Reset`, which is the spec of the
`connection_acks` run. `Reset(n)` empties n's receive buffer but keeps
`delivered[Peer(n)]`, so `RecvWindow` does not survive it.
TLC checked `CInv` on the `MCConnection` instance before it was proved.

## Proofs (`LiveConnectionProofs`)

- `TypeCorrect`: `Spec => []TypeOK`, so counts never go below zero.
- `UseAfterFreeNever`: `Spec => []NoUseAfterFree`.
- `RefCountsCorrect`: `Spec => []RefCountAccounts`.

These hold for every finite set of messages, every channel layout, every
`sendQueueSize` and `maxMessagesPerPacket` and every packet bound allowed by
`LiveAssumption`. All three follow from one inductive invariant:

```
IInv == TypeOK /\ Exclusive /\ FifoDistinct /\ SlotWindow /\ IdsUnique
        /\ RefCounts /\ OrphanCreated /\ FifoBound
```

- `Exclusive`: a message is held by the application or by one send queue,
  never by two of them. `SendMessage` takes the application's reference over.
  This conjunct turns the `Cardinality` in `Holders` into 0 or 1.
- `RefCounts`: `refCount` is 1 for the one holder, if any, plus `orphan`. It
  is `RefCountAccounts` with `Holders` resolved by `Exclusive`. Under it a held
  message has a positive count (lemma `HeldPositive`), which gives
  `NoUseAfterFree`. It also shows that every `Release` in `ProcessAcks`,
  `Reset` and FIFO overflow hits a message that is still alive.
- `FifoDistinct`: an unreliable FIFO holds each message once. Without it,
  discarding the head or draining a prefix could remove a message that is
  still queued further on.
- `SlotWindow` and `IdsUnique`: the ids in a reliable queue are distinct and
  lie in `sendMessageId - sendQueueSize .. sendMessageId - 1`. `CanSendMessage`
  keeps this: the one id of that range that the next send pushes out,
  `sendMessageId - sendQueueSize`, has the same slot as the new id, so it is not
  in the queue (lemma `ModShift`).
- `FifoBound`, `OrphanCreated`: the FIFO length bound, and no dropped
  references for messages never created.

TLC checked `IInv` as an invariant first (also with three channels and a
queue of 3). Each action has a lemma with one step per conjunct it can
disturb. Lemmas about the operators cover:
- what `Tail`, `Append` and `SubSeq` do to the elements of a sequence without
  repetition (`TailElems`, `AppendElems`, `DrainElems`);
- `%` (`ModShift`);
- releasing live messages (`ReleaseAllType`).

Out of reach of the prover, and left to TLC:

- `LeakFree`, which is false;
- `TypeRoundTrip`, which is false;
- liveness and `ENABLED` in general;
- induction over data;
- modules with `RECURSIVE` operators (none are used).

## Not modelled (yet)

- The receive side of the channels: `ProcessPacketData`, the reliable receive
  window, `ReceiveMessage`.
- Block fragments in the channels. `BlockMessage` itself is modelled in `Message`.
- The message id (`AssignId`, 16 bits), which only the reliable channel sets.
- The leak-debug map (`YOJIMBO_DEBUG_MESSAGE_LEAKS`), which is debug-only bookkeeping.
- Duplicate-packet handling. A duplicate within the window is accepted by
  `Insert` and reaches the channels again. Its effect lies in the receive
  side, so no property checks it yet.
- Packet serialization and the bit streams. These are pure encoding;
  `WritePacket` failing changes no connection state.
- The counters and listener callbacks, which are observation only.

The plan for later work:
1. Compose `Connection` with the reliable-ordered channel's send and receive
   sides. This would check in-order, exactly-once delivery (spec property 1)
   and catch the duplicate-packet hazard.
2. Send block messages through the reliable channel by composing `Message`
   with its fragment send side.
3. State and prove `AckComplete` with `Reset`, for the packets accepted
   since the receiver's last `Reset`. This needs a ghost of that set.
