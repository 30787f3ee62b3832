---------------------------- MODULE MessageProofs ----------------------------
(***************************************************************************)
(* Proofs about module Message (src/yojimbo_message.h), for every value   *)
(* of the constants that satisfies MessageAssumption.                      *)
(*                                                                         *)
(*   TypeCorrect: Spec => []TypeOK                                        *)
(*   OwnershipSafe: Spec => []BlockOwnership                              *)
(*   Refinement: Spec => MO!Spec, the code implements MessageOwnership    *)
(*                                                                         *)
(* All three rest on the inductive invariant IInv.  BlockOwnership alone  *)
(* is not inductive: Release deletes a message when m_refCount reaches 0, *)
(* and that frees its block only if m_allocator is set, so the proof      *)
(* needs that the count equals the references held (RefCountHeld) and     *)
(* that m_allocator is set exactly with m_blockData (AllocatorSet).       *)
(***************************************************************************)
EXTENDS Message, TLAPS

USE MessageAssumption

-----------------------------------------------------------------------------
(* Lemmas on Owners, the set of live messages that own a block.           *)

\* A step that changes no message's life or block pointers changes no
\* block's owners.
LEMMA OwnersUnchanged ==
    ASSUME alive' = alive, blockAlloc' = blockAlloc, blockData' = blockData,
           NEW b
    PROVE  Owners(b)' = Owners(b)
BY DEF Owners

\* In a state of IInv, a live message whose m_allocator is set is the one
\* owner of its block, which is allocated and not the application's.
LEMMA SoleOwner ==
    ASSUME IInv, NEW m \in alive, blockAlloc[m]
    PROVE  /\ blockData[m] \in Block
           /\ Owners(blockData[m]) = {m}
           /\ blockData[m] \in heap
           /\ blockData[m] \notin appBlocks
<1>1. blockData[m] \in Block
  BY DEF IInv, AllocatorSet, TypeOK
<1>2. m \in Owners(blockData[m])
  BY DEF Owners
<1>3. blockData[m] \in heap
  BY <1>1, <1>2 DEF IInv, BlockOwnership
<1>. QED
  BY <1>1, <1>2, <1>3 DEF IInv, BlockOwnership

\* A block the application owns is allocated and owned by no message.
LEMMA AppBlockFree ==
    ASSUME IInv, NEW b \in appBlocks
    PROVE  b \in heap /\ Owners(b) = {}
BY DEF IInv, BlockOwnership, TypeOK

\* A message that holds no block pointer owns no block.
LEMMA NoBlockNoOwner ==
    ASSUME IInv, NEW m \in Msg, blockData[m] = Null, NEW b
    PROVE  m \notin Owners(b)
BY DEF IInv, AllocatorSet, Owners

-----------------------------------------------------------------------------
(* IInv is inductive: one lemma per action.                               *)

LEMMA InitIInv == Init => IInv
<1>. SUFFICES ASSUME Init PROVE IInv
  OBVIOUS
<1>1. TypeOK
  <2>1. 0 \in 0 .. TypeModulus - 1 /\ 0 \in 0 .. MaxRefs
    BY DEF TypeModulus
  <2>. QED
    BY <2>1 DEF Init, TypeOK
<1>2. RefCountHeld /\ AllocatorSet
  BY DEF Init, RefCountHeld, AllocatorSet
<1>3. \A b : Owners(b) = {}
  BY DEF Init, Owners
<1>4. BlockOwnership
  BY <1>3 DEF Init, BlockOwnership
<1>. QED
  BY <1>1, <1>2, <1>4 DEF IInv

LEMMA CreateIInv ==
    ASSUME IInv, NEW m \in Msg, NEW t \in Types, Create(m, t)
    PROVE  IInv'
<1>1. TypeOK'
  <2>1. t \in Nat
    OBVIOUS
  <2>2. StoredType(t) \in 0 .. TypeModulus - 1
    BY <2>1 DEF StoredType, TypeModulus
  <2>3. 1 \in 0 .. MaxRefs
    OBVIOUS
  <2>. QED
    BY <2>1, <2>2, <2>3 DEF IInv, TypeOK, Create, CreateInternal
<1>2. RefCountHeld'
  BY DEF IInv, RefCountHeld, TypeOK, Create, CreateInternal
<1>3. AllocatorSet'
  BY DEF IInv, AllocatorSet, TypeOK, Create, CreateInternal
<1>4. \A b : Owners(b)' = Owners(b)
  BY DEF Create, CreateInternal, Owners, IInv, TypeOK
<1>5. BlockOwnership'
  BY <1>4 DEF IInv, BlockOwnership, Create
<1>. QED
  BY <1>1, <1>2, <1>3, <1>5 DEF IInv

LEMMA AddRefIInv ==
    ASSUME IInv, NEW m \in Msg, AddRef(m)
    PROVE  IInv'
<1>1. TypeOK' /\ RefCountHeld' /\ AllocatorSet'
  BY DEF IInv, TypeOK, RefCountHeld, AllocatorSet, AddRef
<1>2. BlockOwnership'
  BY OwnersUnchanged DEF IInv, BlockOwnership, AddRef
<1>. QED
  BY <1>1, <1>2 DEF IInv

LEMMA ReleaseIInv ==
    ASSUME IInv, NEW m \in Msg, Release(m)
    PROVE  IInv'
<1>0. m \in alive /\ refCount[m] = held[m] /\ held[m] \in 1 .. MaxRefs
  BY DEF Release, IInv, RefCountHeld, TypeOK
<1>1. TypeOK' /\ RefCountHeld'
  BY <1>0 DEF IInv, TypeOK, RefCountHeld, Release, FreedBlocks
<1>2. AllocatorSet'
  BY DEF IInv, AllocatorSet, Release
<1>3. CASE held[m] = 1
  <2>0. refCount'[m] = 0
    BY <1>0, <1>3 DEF Release, IInv, TypeOK
  <2>1. alive' = alive \ {m} /\ heap' = heap \ FreedBlocks({m})
    BY <2>0 DEF Release
  <2>2. \A b : Owners(b)' = Owners(b) \ {m}
    BY <2>1 DEF Release, Owners
  <2>3. FreedBlocks({m}) = IF blockAlloc[m] THEN {blockData[m]} ELSE {}
    BY DEF FreedBlocks
  <2>4. BlockOwnership'
    <3>. SUFFICES ASSUME NEW b \in Block
                  PROVE  BlockOwnership!(b)'
      BY DEF BlockOwnership
    <3>1. CASE blockAlloc[m] /\ blockData[m] = b
      <4>1. Owners(b) = {m} /\ b \notin appBlocks
        BY <1>0, <3>1, SoleOwner
      <4>. QED
        BY <2>1, <2>2, <2>3, <3>1, <4>1 DEF Release
    <3>2. CASE ~(blockAlloc[m] /\ blockData[m] = b)
      <4>1. m \notin Owners(b)
        BY <3>2 DEF Owners
      <4>2. b \in heap' <=> b \in heap
        BY <2>1, <2>3, <3>2
      <4>. QED
        BY <2>2, <4>1, <4>2 DEF IInv, BlockOwnership, Release
    <3>. QED
      BY <3>1, <3>2
  <2>. QED
    BY <1>1, <1>2, <2>4 DEF IInv
<1>4. CASE held[m] # 1
  <2>1. alive' = alive /\ heap' = heap
    BY <1>0, <1>4 DEF Release
  <2>2. BlockOwnership'
    BY <2>1, OwnersUnchanged DEF IInv, BlockOwnership, Release
  <2>. QED
    BY <1>1, <1>2, <2>2 DEF IInv
<1>. QED
  BY <1>3, <1>4

LEMMA AllocBlockIInv ==
    ASSUME IInv, NEW b0 \in Block, AllocBlock(b0)
    PROVE  IInv'
<1>1. TypeOK' /\ RefCountHeld' /\ AllocatorSet'
  BY DEF IInv, TypeOK, RefCountHeld, AllocatorSet, AllocBlock
<1>2. b0 \notin heap /\ b0 \notin appBlocks /\ Owners(b0) = {}
  BY DEF AllocBlock, IInv, TypeOK, BlockOwnership
<1>3. BlockOwnership'
  BY <1>2, OwnersUnchanged DEF IInv, BlockOwnership, AllocBlock
<1>. QED
  BY <1>1, <1>3 DEF IInv

LEMMA AttachBlockIInv ==
    ASSUME IInv, NEW m \in Msg, NEW b0 \in Block, AttachBlock(m, b0)
    PROVE  IInv'
<1>0. /\ m \in alive
      /\ b0 \in heap /\ Owners(b0) = {}
      /\ b0 # Null
  BY AppBlockFree DEF AttachBlock, IInv, RefCountHeld, TypeOK
<1>1. TypeOK' /\ RefCountHeld'
  BY DEF IInv, TypeOK, RefCountHeld, AttachBlock
<1>2. AllocatorSet'
  BY <1>0 DEF IInv, AllocatorSet, AttachBlock, TypeOK
<1>3. Owners(b0)' = {m}
  <2>1. \A x \in alive : x # m => ~(blockAlloc[x] /\ blockData[x] = b0)
    BY <1>0 DEF Owners
  <2>. QED
    BY <1>0, <2>1 DEF AttachBlock, Owners, IInv, TypeOK
<1>4. \A b \in Block : b # b0 => Owners(b)' = Owners(b)
  BY NoBlockNoOwner DEF AttachBlock, Owners, IInv, TypeOK
<1>5. BlockOwnership'
  BY <1>0, <1>3, <1>4 DEF IInv, BlockOwnership, AttachBlock
<1>. QED
  BY <1>1, <1>2, <1>5 DEF IInv

LEMMA DetachBlockIInv ==
    ASSUME IInv, NEW m \in Msg, DetachBlock(m)
    PROVE  IInv'
<1>0. m \in alive
  BY DEF DetachBlock, IInv, RefCountHeld, TypeOK
<1>1. TypeOK' /\ RefCountHeld' /\ AllocatorSet'
  BY DEF IInv, TypeOK, RefCountHeld, AllocatorSet, DetachBlock
<1>2. CASE blockData[m] = Null
  <2>1. ~blockAlloc[m]
    BY <1>2 DEF IInv, AllocatorSet
  <2>2. blockAlloc' = blockAlloc /\ blockData' = blockData /\ appBlocks' = appBlocks
    BY <1>2, <2>1 DEF DetachBlock, IInv, TypeOK
  <2>3. BlockOwnership'
    BY <2>2, OwnersUnchanged DEF IInv, BlockOwnership, DetachBlock
  <2>. QED
    BY <1>1, <2>3 DEF IInv
<1>3. CASE blockData[m] # Null
  <2>1. blockAlloc[m]
    BY <1>3 DEF IInv, AllocatorSet
  <2>0. PICK b0 \in Block : b0 = blockData[m]
    BY <2>1 DEF IInv, AllocatorSet, TypeOK
  <2>2. Owners(b0) = {m} /\ b0 \in heap /\ b0 \notin appBlocks
    BY <1>0, <2>0, <2>1, SoleOwner
  <2>3. Owners(b0)' = {}
    <3>1. \A x \in alive : x # m => ~(blockAlloc[x] /\ blockData[x] = b0)
      BY <2>2 DEF Owners
    <3>2. ~blockAlloc'[m] /\ alive' = alive
      BY DEF DetachBlock, IInv, TypeOK
    <3>3. blockAlloc' = [blockAlloc EXCEPT ![m] = FALSE]
          /\ blockData' = [blockData EXCEPT ![m] = Null]
      BY DEF DetachBlock
    <3>. QED
      BY <3>1, <3>2, <3>3 DEF Owners, IInv, TypeOK
  <2>4. \A b \in Block : b # b0 => Owners(b)' = Owners(b)
    BY <2>0 DEF DetachBlock, Owners, IInv, TypeOK
  <2>5. appBlocks' = appBlocks \cup {b0}
    BY <1>3, <2>0 DEF DetachBlock
  <2>6. BlockOwnership'
    <3>. SUFFICES ASSUME NEW b \in Block
                  PROVE  BlockOwnership!(b)'
      BY DEF BlockOwnership
    <3>0. heap' = heap
      BY DEF DetachBlock
    <3>1. CASE b = b0
      <4>1. b \in heap' /\ b \in appBlocks' /\ Owners(b)' = {}
        BY <2>2, <2>3, <2>5, <3>0, <3>1
      <4>. QED
        BY <4>1 DEF BlockOwnership
    <3>2. CASE b # b0
      <4>1. b \in appBlocks' <=> b \in appBlocks
        BY <2>5, <3>2
      <4>. QED
        BY <2>4, <3>0, <3>2, <4>1 DEF IInv, BlockOwnership
    <3>. QED
      BY <3>1, <3>2
  <2>. QED
    BY <1>1, <2>6 DEF IInv
<1>. QED
  BY <1>2, <1>3

LEMMA FreeBlockIInv ==
    ASSUME IInv, NEW b0 \in Block, FreeBlock(b0)
    PROVE  IInv'
<1>1. TypeOK' /\ RefCountHeld' /\ AllocatorSet'
  BY DEF IInv, TypeOK, RefCountHeld, AllocatorSet, FreeBlock
<1>2. b0 \in heap /\ Owners(b0) = {}
  BY AppBlockFree DEF FreeBlock
<1>3. BlockOwnership'
  BY <1>2, OwnersUnchanged DEF IInv, BlockOwnership, FreeBlock
<1>. QED
  BY <1>1, <1>3 DEF IInv

LEMMA NextIInv == IInv /\ [Next]_vars => IInv'
<1>. SUFFICES ASSUME IInv, [Next]_vars PROVE IInv'
  OBVIOUS
<1>1. CASE \E m \in Msg, t \in Types : Create(m, t)
  BY <1>1, CreateIInv
<1>2. CASE \E m \in Msg : AddRef(m)
  BY <1>2, AddRefIInv
<1>3. CASE \E m \in Msg : Release(m)
  BY <1>3, ReleaseIInv
<1>4. CASE \E m \in Msg : DetachBlock(m)
  BY <1>4, DetachBlockIInv
<1>5. CASE \E m \in Msg, b \in Block : AttachBlock(m, b)
  BY <1>5, AttachBlockIInv
<1>6. CASE \E b \in Block : AllocBlock(b)
  BY <1>6, AllocBlockIInv
<1>7. CASE \E b \in Block : FreeBlock(b)
  BY <1>7, FreeBlockIInv
<1>8. CASE UNCHANGED vars
  BY <1>8 DEF vars, IInv, TypeOK, RefCountHeld, AllocatorSet, BlockOwnership, Owners
<1>. QED
  BY <1>1, <1>2, <1>3, <1>4, <1>5, <1>6, <1>7, <1>8 DEF Next

LEMMA Invariance == Spec => []IInv
BY InitIInv, NextIInv, PTL DEF Spec

\* Every reachable state is well typed: in particular m_type holds a
\* 15-bit value and no reference count goes negative.
THEOREM TypeCorrect == Spec => []TypeOK
BY Invariance, PTL DEF IInv

\* Every allocated block has exactly one owner, the application or one
\* live message, and a freed block has none: AttachBlock, DetachBlock and
\* ~BlockMessage never leak, double-free or use a freed block.
THEOREM OwnershipSafe == Spec => []BlockOwnership
BY Invariance, PTL DEF IInv


-----------------------------------------------------------------------------
(* Refinement: every step maps to a step of MessageOwnership or to a      *)
(* stutter.  Abbreviations for the images of the mapping.                 *)

AbsStatus == [m \in Msg |-> MessageStatus(m)]
AbsOwner  == [b \in Block |-> BlockOwner(b)]

\* The mapped owner of an allocated block the application does not own is
\* the one message that owns it; of any other block, a string.
LEMMA OwnerIsMsg ==
    ASSUME IInv, NEW b \in Block, b \in heap, b \notin appBlocks
    PROVE  \E m \in Msg : Owners(b) = {m} /\ BlockOwner(b) = m
<1>1. PICK m \in Msg : Owners(b) = {m}
  BY DEF IInv, BlockOwnership
<1>2. b \in used
  BY DEF IInv, TypeOK
<1>. QED
  BY <1>1, <1>2 DEF BlockOwner, TheOwner

LEMMA OwnerNotMsg ==
    ASSUME NEW b, ~(b \in used /\ b \in heap /\ b \notin appBlocks)
    PROVE  BlockOwner(b) \in {"none", "freed", "app"} /\ BlockOwner(b) \notin Msg
BY DEF BlockOwner

\* A live message with m_allocator set is the mapped owner of its block.
LEMMA OwnerOfAttached ==
    ASSUME IInv, NEW m \in alive, blockAlloc[m]
    PROVE  BlockOwner(blockData[m]) = m
<1>1. blockData[m] \in Block /\ Owners(blockData[m]) = {m}
      /\ blockData[m] \in heap /\ blockData[m] \notin appBlocks
  BY SoleOwner
<1>2. blockData[m] \in used
  BY <1>1 DEF IInv, TypeOK
<1>. QED
  BY <1>1, <1>2 DEF BlockOwner, TheOwner

LEMMA StatusUnchanged ==
    ASSUME created' = created, alive' = alive
    PROVE  AbsStatus' = AbsStatus
BY DEF AbsStatus, MessageStatus

LEMMA OwnerUnchanged ==
    ASSUME used' = used, heap' = heap, appBlocks' = appBlocks,
           \A b \in Block : Owners(b)' = Owners(b)
    PROVE  AbsOwner' = AbsOwner
BY DEF AbsOwner, BlockOwner

LEMMA InitRefines == Init => MO!Init
BY DEF Init, MO!Init, MessageStatus, BlockOwner

LEMMA CreateRefines ==
    ASSUME IInv, NEW m \in Msg, NEW t \in Types, Create(m, t)
    PROVE  MO!New(m)
<1>1. \A b \in Block : Owners(b)' = Owners(b)
  BY DEF Create, CreateInternal, Owners, IInv, TypeOK
<1>2. AbsOwner' = AbsOwner
  BY <1>1, OwnerUnchanged DEF Create
<1>3. AbsStatus' = [AbsStatus EXCEPT ![m] = "live"] /\ AbsStatus[m] = "unborn"
  BY DEF AbsStatus, MessageStatus, Create, IInv, TypeOK
<1>. QED
  BY <1>2, <1>3 DEF MO!New, AbsStatus, AbsOwner, Create

LEMMA AddRefRefines ==
    ASSUME IInv, NEW m \in Msg, AddRef(m)
    PROVE  MO!Hold(m)
<1>1. AbsOwner' = AbsOwner /\ AbsStatus' = AbsStatus
  BY OwnersUnchanged, OwnerUnchanged, StatusUnchanged DEF AddRef
<1>. QED
  BY <1>1 DEF MO!Hold, AbsStatus, AbsOwner, AddRef

LEMMA ReleaseRefines ==
    ASSUME IInv, NEW m \in Msg, Release(m)
    PROVE  MO!LetGo(m)
<1>0. m \in alive /\ m \in created /\ refCount[m] = held[m] /\ held[m] \in 1 .. MaxRefs
  BY DEF Release, IInv, RefCountHeld, TypeOK
<1>1. held' = [held EXCEPT ![m] = @ - 1]
  BY DEF Release
<1>2. CASE held[m] = 1
  <2>0. refCount'[m] = 0
    BY <1>0, <1>2 DEF Release, IInv, TypeOK
  <2>1. alive' = alive \ {m} /\ heap' = heap \ FreedBlocks({m})
        /\ used' = used /\ appBlocks' = appBlocks /\ created' = created
    BY <2>0 DEF Release
  <2>2. AbsStatus' = [AbsStatus EXCEPT ![m] = "deleted"]
    BY <1>0, <2>1 DEF AbsStatus, MessageStatus
  <2>3. \A b \in Block :
          AbsOwner'[b] = IF AbsOwner[b] = m THEN "freed" ELSE AbsOwner[b]
    <3>. SUFFICES ASSUME NEW b \in Block
                  PROVE  BlockOwner(b)' = IF BlockOwner(b) = m THEN "freed" ELSE BlockOwner(b)
      BY DEF AbsOwner
    <3>1. Owners(b)' = Owners(b) \ {m}
      BY <2>1 DEF Release, Owners
    <3>2. CASE blockAlloc[m] /\ blockData[m] = b
      <4>1. BlockOwner(b) = m
        BY <1>0, <3>2, OwnerOfAttached
      <4>2. b \in used /\ b \notin heap'
        BY <1>0, <2>1, <3>2, SoleOwner DEF FreedBlocks, IInv, TypeOK
      <4>. QED
        BY <2>1, <4>1, <4>2 DEF BlockOwner
    <3>3. CASE ~(blockAlloc[m] /\ blockData[m] = b)
      <4>1. m \notin Owners(b) /\ Owners(b)' = Owners(b)
        BY <3>1, <3>3 DEF Owners
      <4>2. b \in heap' <=> b \in heap
        BY <2>1, <3>3 DEF FreedBlocks
      <4>3. BlockOwner(b)' = BlockOwner(b)
        BY <2>1, <4>1, <4>2 DEF BlockOwner
      <4>4. BlockOwner(b) # m
        <5>1. CASE b \in used /\ b \in heap /\ b \notin appBlocks
          BY <4>1, <5>1, OwnerIsMsg
        <5>2. CASE ~(b \in used /\ b \in heap /\ b \notin appBlocks)
          BY <5>2, OwnerNotMsg
        <5>. QED
          BY <5>1, <5>2
      <4>. QED
        BY <4>3, <4>4
    <3>. QED
      BY <3>2, <3>3
  <2>. QED
    BY <1>0, <1>1, <1>2, <2>2, <2>3 DEF MO!LetGo, AbsStatus, AbsOwner
<1>3. CASE held[m] # 1
  <2>1. alive' = alive /\ heap' = heap
    BY <1>0, <1>3 DEF Release, IInv, TypeOK
  <2>2. AbsOwner' = AbsOwner /\ AbsStatus' = AbsStatus
    BY <2>1, OwnersUnchanged, OwnerUnchanged, StatusUnchanged DEF Release
  <2>. QED
    BY <1>0, <1>1, <1>3, <2>2 DEF MO!LetGo, AbsStatus, AbsOwner
<1>. QED
  BY <1>2, <1>3

LEMMA AllocBlockRefines ==
    ASSUME IInv, NEW b0 \in Block, AllocBlock(b0)
    PROVE  MO!Alloc(b0)
<1>1. BlockOwner(b0) = "none" /\ BlockOwner(b0)' = "app"
  BY DEF AllocBlock, BlockOwner
<1>2. \A b \in Block : b # b0 => BlockOwner(b)' = BlockOwner(b)
  BY OwnersUnchanged DEF AllocBlock, BlockOwner
<1>3. AbsStatus' = AbsStatus
  BY StatusUnchanged DEF AllocBlock
<1>. QED
  BY <1>1, <1>2, <1>3 DEF MO!Alloc, AbsStatus, AbsOwner, AllocBlock

LEMMA AttachBlockRefines ==
    ASSUME IInv, NEW m \in Msg, NEW b0 \in Block, AttachBlock(m, b0)
    PROVE  MO!Attach(m, b0)
<1>0. /\ m \in alive /\ ~blockAlloc[m]
      /\ b0 \in heap /\ b0 \in used /\ Owners(b0) = {}
  BY AppBlockFree DEF AttachBlock, IInv, RefCountHeld, AllocatorSet, TypeOK
<1>1. BlockOwner(b0) = "app"
  BY <1>0 DEF AttachBlock, BlockOwner
<1>2. \A b \in Block : BlockOwner(b) # m
  <2>. SUFFICES ASSUME NEW b \in Block PROVE BlockOwner(b) # m
    OBVIOUS
  <2>1. CASE b \in used /\ b \in heap /\ b \notin appBlocks
    BY <1>0, <2>1, OwnerIsMsg DEF Owners
  <2>2. CASE ~(b \in used /\ b \in heap /\ b \notin appBlocks)
    BY <2>2, OwnerNotMsg
  <2>. QED
    BY <2>1, <2>2
<1>3. Owners(b0)' = {m}
  BY <1>0 DEF AttachBlock, Owners, IInv, TypeOK
<1>4. BlockOwner(b0)' = m
  BY <1>0, <1>3 DEF AttachBlock, BlockOwner, TheOwner
<1>5. \A b \in Block : b # b0 => BlockOwner(b)' = BlockOwner(b)
  <2>. SUFFICES ASSUME NEW b \in Block, b # b0 PROVE BlockOwner(b)' = BlockOwner(b)
    OBVIOUS
  <2>1. Owners(b)' = Owners(b)
    BY NoBlockNoOwner DEF AttachBlock, Owners, IInv, TypeOK
  <2>. QED
    BY <2>1 DEF AttachBlock, BlockOwner
<1>6. AbsStatus' = AbsStatus
  BY StatusUnchanged DEF AttachBlock
<1>. QED
  BY <1>1, <1>2, <1>4, <1>5, <1>6 DEF MO!Attach, MO!OwnsBlock, AbsStatus, AbsOwner, AttachBlock

LEMMA DetachBlockRefines ==
    ASSUME IInv, NEW m \in Msg, DetachBlock(m)
    PROVE  MO!Next \/ UNCHANGED MO!vars
<1>0. m \in alive
  BY DEF DetachBlock, IInv, RefCountHeld, TypeOK
<1>1. AbsStatus' = AbsStatus
  BY StatusUnchanged DEF DetachBlock
<1>2. CASE blockData[m] = Null
  <2>1. ~blockAlloc[m]
    BY <1>2 DEF IInv, AllocatorSet
  <2>2. blockAlloc' = blockAlloc /\ blockData' = blockData /\ appBlocks' = appBlocks
    BY <1>2, <2>1 DEF DetachBlock, IInv, TypeOK
  <2>3. AbsOwner' = AbsOwner
    BY <2>2, OwnersUnchanged, OwnerUnchanged DEF DetachBlock
  <2>. QED
    BY <1>1, <2>3 DEF MO!vars, AbsStatus, AbsOwner, DetachBlock
<1>3. CASE blockData[m] # Null
  <2>1. blockAlloc[m]
    BY <1>3 DEF IInv, AllocatorSet
  <2>2. PICK b0 \in Block : b0 = blockData[m]
    BY <2>1 DEF IInv, AllocatorSet, TypeOK
  <2>3. Owners(b0) = {m} /\ b0 \in heap /\ b0 \notin appBlocks /\ BlockOwner(b0) = m
    BY <1>0, <2>1, <2>2, SoleOwner, OwnerOfAttached
  <2>4. appBlocks' = appBlocks \cup {b0} /\ heap' = heap /\ used' = used
    BY <1>3, <2>2 DEF DetachBlock
  <2>5. BlockOwner(b0)' = "app"
    BY <2>3, <2>4 DEF BlockOwner, IInv, TypeOK
  <2>6. \A b \in Block : b # b0 => BlockOwner(b)' = BlockOwner(b)
    <3>. SUFFICES ASSUME NEW b \in Block, b # b0 PROVE BlockOwner(b)' = BlockOwner(b)
      OBVIOUS
    <3>1. Owners(b)' = Owners(b)
      BY <2>2 DEF DetachBlock, Owners, IInv, TypeOK
    <3>. QED
      BY <2>4, <3>1 DEF BlockOwner
  <2>7. MO!Detach(b0)
    BY <1>1, <2>3, <2>5, <2>6 DEF MO!Detach, AbsStatus, AbsOwner, DetachBlock
  <2>. QED
    BY <2>7 DEF MO!Next
<1>. QED
  BY <1>2, <1>3

LEMMA FreeBlockRefines ==
    ASSUME IInv, NEW b0 \in Block, FreeBlock(b0)
    PROVE  MO!Free(b0)
<1>0. b0 \in heap /\ b0 \in used /\ Owners(b0) = {}
  BY AppBlockFree DEF FreeBlock, IInv, TypeOK
<1>1. BlockOwner(b0) = "app" /\ BlockOwner(b0)' = "freed"
  BY <1>0 DEF FreeBlock, BlockOwner
<1>2. \A b \in Block : b # b0 => BlockOwner(b)' = BlockOwner(b)
  BY OwnersUnchanged DEF FreeBlock, BlockOwner
<1>3. AbsStatus' = AbsStatus
  BY StatusUnchanged DEF FreeBlock
<1>. QED
  BY <1>1, <1>2, <1>3 DEF MO!Free, AbsStatus, AbsOwner, FreeBlock

LEMMA NextRefines == IInv /\ [Next]_vars => [MO!Next]_MO!vars
<1>. SUFFICES ASSUME IInv, [Next]_vars PROVE MO!Next \/ UNCHANGED MO!vars
  OBVIOUS
<1>1. CASE \E m \in Msg, t \in Types : Create(m, t)
  BY <1>1, CreateRefines DEF MO!Next
<1>2. CASE \E m \in Msg : AddRef(m)
  BY <1>2, AddRefRefines DEF MO!Next
<1>3. CASE \E m \in Msg : Release(m)
  BY <1>3, ReleaseRefines DEF MO!Next
<1>4. CASE \E m \in Msg : DetachBlock(m)
  BY <1>4, DetachBlockRefines
<1>5. CASE \E m \in Msg, b \in Block : AttachBlock(m, b)
  BY <1>5, AttachBlockRefines DEF MO!Next
<1>6. CASE \E b \in Block : AllocBlock(b)
  BY <1>6, AllocBlockRefines DEF MO!Next
<1>7. CASE \E b \in Block : FreeBlock(b)
  BY <1>7, FreeBlockRefines DEF MO!Next
<1>8. CASE UNCHANGED vars
  <2>1. AbsStatus' = AbsStatus /\ AbsOwner' = AbsOwner
    BY <1>8, OwnersUnchanged, OwnerUnchanged, StatusUnchanged DEF vars
  <2>. QED
    BY <1>8, <2>1 DEF vars, MO!vars, AbsStatus, AbsOwner
<1>. QED
  BY <1>1, <1>2, <1>3, <1>4, <1>5, <1>6, <1>7, <1>8 DEF Next

\* The code implements the ownership contract: every behaviour of Message
\* is, under the mapping, a behaviour of MessageOwnership, so the last
\* MessageFactory::Release of a message deletes it and frees exactly the
\* block it owns, and no other step deletes a message or frees a block
\* the application does not own.
THEOREM Refinement == Spec => ImplementsOwnership
<1>1. Init => MO!Init
  BY InitRefines
<1>2. IInv /\ [Next]_vars => [MO!Next]_MO!vars
  BY NextRefines
<1>. QED
  BY <1>1, <1>2, Invariance, PTL DEF Spec, ImplementsOwnership, MO!Spec
=============================================================================
