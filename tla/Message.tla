------------------------------ MODULE Message ------------------------------
(***************************************************************************)
(* Message, BlockMessage and MessageFactory of src/yojimbo_message.h, as   *)
(* a heap of message objects and block buffers driven by an application    *)
(* that keeps the documented contract: it calls AddRef and Release only    *)
(* on a reference it holds, attaches a block it owns to a block message    *)
(* that has none (the asserts of AttachBlock), and takes the block data    *)
(* (GetBlockData) when it detaches it.                                     *)
(*                                                                         *)
(* A message is an object between YOJIMBO_NEW in the factory's            *)
(* CreateInternal and YOJIMBO_DELETE in MessageFactory::Release; Message  *)
(* has a virtual destructor, so deleting a BlockMessage runs               *)
(* ~BlockMessage, which frees the block if one is attached (m_allocator). *)
(* Handles are never reused, so a stale handle is never mistaken for a    *)
(* new object.  The message id (AssignId, set by a channel) and the block *)
(* size are left out: no property of this module tells them apart.        *)
(***************************************************************************)
EXTENDS Naturals, FiniteSets

CONSTANTS
    Msg,         \* message object handles
    Block,       \* block buffer handles
    Null,        \* the null block pointer
    NumTypes,    \* MessageFactory::m_numTypes
    Types,       \* the type arguments the application passes to Create
    BlockTypes,  \* the types the factory builds as a BlockMessage subclass
    MaxRefs      \* bound on the references held on one message

\* m_type is a 15-bit bit-field (uint32_t m_type : 15).
TypeModulus == 2^15

ASSUME MessageAssumption ==
    /\ IsFiniteSet(Msg) /\ IsFiniteSet(Block)
    /\ Null \notin Block
    /\ \A m \in Msg : m \notin {"none", "app", "freed"}
    /\ NumTypes \in Nat \ {0}
    /\ Types \subseteq 0 .. NumTypes - 1
    /\ BlockTypes \subseteq 0 .. NumTypes - 1
    /\ MaxRefs \in Nat \ {0}

VARIABLES
    created,     \* the handles Create has returned
    alive,       \* the messages not yet deleted
    refCount,    \* Message::m_refCount
    mtype,       \* Message::m_type
    isBlock,     \* Message::m_blockMessage
    blockData,   \* BlockMessage::m_blockData
    blockAlloc,  \* BlockMessage::m_allocator # NULL
    used,        \* the blocks ever allocated
    heap,        \* the blocks allocated and not yet freed
    appBlocks,   \* the blocks the application owns
    held,        \* the references the application holds on each message
    requested    \* ghost: the type each message was created with

vars == <<created, alive, refCount, mtype, isBlock, blockData, blockAlloc,
          used, heap, appBlocks, held, requested>>

-----------------------------------------------------------------------------

\* SetType into the 15-bit field: the high bits are lost.
StoredType(t) == t % TypeModulus

\* ~BlockMessage: the block of each deleted message with an allocator is
\* freed.
FreedBlocks(S) == {blockData[m] : m \in {x \in S : blockAlloc[x]}}

\* MessageFactory::MessageFactory: no message and no block exists.
Init ==
    /\ created = {}
    /\ alive = {}
    /\ refCount = [m \in Msg |-> 0]
    /\ mtype = [m \in Msg |-> 0]
    /\ isBlock = [m \in Msg |-> FALSE]
    /\ blockData = [m \in Msg |-> Null]
    /\ blockAlloc = [m \in Msg |-> FALSE]
    /\ used = {}
    /\ heap = {}
    /\ appBlocks = {}
    /\ held = [m \in Msg |-> 0]
    /\ requested = [m \in Msg |-> 0]

\* The factory's CreateInternal (YOJIMBO_DECLARE_MESSAGE_TYPE): a new
\* message_class object, whose Message constructor sets m_refCount = 1,
\* m_id = 0 and m_blockMessage (1 for a BlockMessage, whose m_allocator
\* and m_blockData start NULL), then SetMessageType.
CreateInternal(m, t) ==
    /\ refCount' = [refCount EXCEPT ![m] = 1]
    /\ mtype' = [mtype EXCEPT ![m] = StoredType(t)]
    /\ isBlock' = [isBlock EXCEPT ![m] = t \in BlockTypes]
    /\ blockData' = [blockData EXCEPT ![m] = Null]
    /\ blockAlloc' = [blockAlloc EXCEPT ![m] = FALSE]

\* MessageFactory::Create(type), type in [0, m_numTypes): the caller
\* holds the one reference.
Create(m, t) ==
    /\ m \notin created
    /\ CreateInternal(m, t)
    /\ created' = created \cup {m}
    /\ alive' = alive \cup {m}
    /\ held' = [held EXCEPT ![m] = 1]
    /\ requested' = [requested EXCEPT ![m] = t]
    /\ UNCHANGED <<used, heap, appBlocks>>

\* Fault variant of AddRef: the reference handed out, m_refCount not
\* incremented.
AddRefNoIncrement(m) ==
    /\ held[m] > 0
    /\ held[m] < MaxRefs
    /\ held' = [held EXCEPT ![m] = @ + 1]
    /\ UNCHANGED <<created, alive, refCount, mtype, isBlock, blockData, blockAlloc,
                   used, heap, appBlocks, requested>>

\* MessageFactory::AddRef: a holder hands out a second reference.
AddRef(m) ==
    /\ held[m] > 0
    /\ held[m] < MaxRefs
    /\ refCount' = [refCount EXCEPT ![m] = @ + 1]
    /\ held' = [held EXCEPT ![m] = @ + 1]
    /\ UNCHANGED <<created, alive, mtype, isBlock, blockData, blockAlloc,
                   used, heap, appBlocks, requested>>

\* Fault variant of Release: the count tested before it is decremented.
ReleaseCheckFirst(m) ==
    /\ held[m] > 0
    /\ refCount' = [refCount EXCEPT ![m] = @ - 1]
    /\ held' = [held EXCEPT ![m] = @ - 1]
    /\ IF refCount[m] = 0
       THEN /\ alive' = alive \ {m}
            /\ heap' = heap \ FreedBlocks({m})
       ELSE UNCHANGED <<alive, heap>>
    /\ UNCHANGED <<created, mtype, isBlock, blockData, blockAlloc, used,
                   appBlocks, requested>>

\* MessageFactory::Release: Message::Release decrements the count; at 0
\* the message is deleted, which runs ~BlockMessage (the block freed if
\* m_allocator is set) and ~Message.
Release(m) ==
    /\ held[m] > 0
    /\ refCount' = [refCount EXCEPT ![m] = @ - 1]
    /\ held' = [held EXCEPT ![m] = @ - 1]
    /\ IF refCount'[m] = 0
       THEN /\ alive' = alive \ {m}
            /\ heap' = heap \ FreedBlocks({m})
       ELSE UNCHANGED <<alive, heap>>
    /\ UNCHANGED <<created, mtype, isBlock, blockData, blockAlloc, used,
                   appBlocks, requested>>

\* The application allocates a block buffer with the factory's allocator.
AllocBlock(b) ==
    /\ b \notin used
    /\ used' = used \cup {b}
    /\ heap' = heap \cup {b}
    /\ appBlocks' = appBlocks \cup {b}
    /\ UNCHANGED <<created, alive, refCount, mtype, isBlock, blockData,
                   blockAlloc, held, requested>>

\* BlockMessage::AttachBlock(allocator, blockData, blockSize), with its
\* asserts: blockData not NULL, and no block attached yet.  The message
\* takes ownership of the buffer.
AttachBlock(m, b) ==
    /\ held[m] > 0
    /\ isBlock[m]
    /\ b \in appBlocks
    /\ blockData[m] = Null
    /\ blockData' = [blockData EXCEPT ![m] = b]
    /\ blockAlloc' = [blockAlloc EXCEPT ![m] = TRUE]
    /\ appBlocks' = appBlocks \ {b}
    /\ UNCHANGED <<created, alive, refCount, mtype, isBlock, used, heap,
                   held, requested>>

\* Fault variant of DetachBlock: the data is taken but the message's
\* pointers are left as they were.
DetachBlockNoClear(m) ==
    /\ held[m] > 0
    /\ isBlock[m]
    /\ appBlocks' = IF blockData[m] = Null THEN appBlocks
                    ELSE appBlocks \cup {blockData[m]}
    /\ UNCHANGED <<created, alive, refCount, mtype, isBlock, blockData,
                   blockAlloc, used, heap, held, requested>>

\* GetBlockData, then BlockMessage::DetachBlock: the application takes the
\* buffer back and the message forgets it (allocator, data and size
\* cleared), so deleting the message no longer frees it.
DetachBlock(m) ==
    /\ held[m] > 0
    /\ isBlock[m]
    /\ appBlocks' = IF blockData[m] = Null THEN appBlocks
                    ELSE appBlocks \cup {blockData[m]}
    /\ blockData' = [blockData EXCEPT ![m] = Null]
    /\ blockAlloc' = [blockAlloc EXCEPT ![m] = FALSE]
    /\ UNCHANGED <<created, alive, refCount, mtype, isBlock, used, heap,
                   held, requested>>

\* The application frees a block it owns.
FreeBlock(b) ==
    /\ b \in appBlocks
    /\ heap' = heap \ {b}
    /\ appBlocks' = appBlocks \ {b}
    /\ UNCHANGED <<created, alive, refCount, mtype, isBlock, blockData,
                   blockAlloc, used, held, requested>>

Next ==
    \/ \E m \in Msg, t \in Types : Create(m, t)
    \/ \E m \in Msg : AddRef(m) \/ Release(m) \/ DetachBlock(m)
    \/ \E m \in Msg, b \in Block : AttachBlock(m, b)
    \/ \E b \in Block : AllocBlock(b) \/ FreeBlock(b)

Spec == Init /\ [][Next]_vars


-----------------------------------------------------------------------------
(* Properties.                                                             *)

\* The live messages that own block b: the ones whose m_allocator is set
\* and whose m_blockData is b.
Owners(b) == {m \in alive : blockAlloc[m] /\ blockData[m] = b}

TypeOK ==
    /\ created \subseteq Msg
    /\ alive \subseteq created
    /\ refCount \in [Msg -> Nat]
    /\ mtype \in [Msg -> 0 .. TypeModulus - 1]
    /\ isBlock \in [Msg -> BOOLEAN]
    /\ blockData \in [Msg -> Block \cup {Null}]
    /\ blockAlloc \in [Msg -> BOOLEAN]
    /\ used \subseteq Block
    /\ heap \subseteq used
    /\ appBlocks \subseteq Block
    /\ held \in [Msg -> 0 .. MaxRefs]
    /\ requested \in [Msg -> Nat]

\* Block ownership (spec section 3: the message owns its buffer until it
\* is detached or released; section 5: every block buffer is freed, and a
\* leak is a bug): every allocated block has exactly one owner, the
\* application or one live message, and a freed block has none.  A block
\* left to two owners is freed twice, one left to none leaks, and one
\* owned after it is freed is used after free.  It takes AttachBlock,
\* DetachBlock and the last Release of a BlockMessage, in any order, to
\* break it.
BlockOwnership ==
    \A b \in Block :
        IF b \in heap
        THEN \/ b \in appBlocks /\ Owners(b) = {}
             \/ b \notin appBlocks /\ \E m \in Msg : Owners(b) = {m}
        ELSE b \notin appBlocks /\ Owners(b) = {}

\* The inductive strengthening of BlockOwnership that MessageProofs uses:
\* a message's count is the number of references held on it, a message is
\* alive exactly while one is held, and m_allocator is set exactly when
\* m_blockData is.
RefCountHeld == \A m \in Msg : refCount[m] = held[m] /\ (m \in alive <=> held[m] > 0)

AllocatorSet == \A m \in Msg : blockAlloc[m] <=> blockData[m] # Null

IInv == TypeOK /\ RefCountHeld /\ AllocatorSet /\ BlockOwnership

\* GetType returns the type the message was created with (spec section 3:
\* type in 0 .. numTypes - 1): Create stores it in the 15-bit m_type.
TypeRoundTrip == \A m \in alive : mtype[m] = requested[m]

-----------------------------------------------------------------------------
(* Refinement.  A message is unborn until Create, live until deleted; its *)
(* holders are the references the application holds; a block is "none"  *)
(* before it is allocated, "freed" after, and otherwise owned by the      *)
(* application or by the live message it is attached to.                  *)

\* The owner named by a set of owners that BlockOwnership makes a singleton.
TheOwner(S) == CHOOSE m \in S : TRUE

BlockOwner(b) ==
    IF b \notin used THEN "none"
    ELSE IF b \notin heap THEN "freed"
    ELSE IF b \in appBlocks THEN "app"
    ELSE TheOwner(Owners(b))

MessageStatus(m) ==
    IF m \notin created THEN "unborn" ELSE IF m \in alive THEN "live" ELSE "deleted"

MO == INSTANCE MessageOwnership
        WITH status <- [m \in Msg |-> MessageStatus(m)],
             holders <- held,
             owner <- [b \in Block |-> BlockOwner(b)]

\* The code implements the ownership contract of spec section 3: every
\* Create, AddRef, Release, AttachBlock, DetachBlock and block free is a
\* step of MessageOwnership (or leaves its state unchanged); in particular
\* MessageFactory::Release deletes a message exactly when its last holder
\* lets go, and ~BlockMessage frees exactly the block the message owns.
ImplementsOwnership == MO!Spec

=============================================================================
