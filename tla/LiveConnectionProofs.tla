------------------------ MODULE LiveConnectionProofs ------------------------
(***************************************************************************)
(* Proofs about LiveConnection, for every set of messages and channels,   *)
(* every sendQueueSize and every packet bound: the reference counts of     *)
(* the messages the compiled Connection carries are exactly accounted     *)
(* for, no message is used after it is freed, and the send queues stay     *)
(* within sendQueueSize.                                                   *)
(***************************************************************************)
EXTENDS LiveConnection, SequenceTheorems, FiniteSetTheorems, TLAPS

-----------------------------------------------------------------------------
(* Lemmas about the FIFO operations: the elements of a sequence, and      *)
(* sequences without repetition.                                           *)

Elems(s) == {s[i] : i \in DOMAIN s}

IsDistinct(s) == \A i, j \in DOMAIN s : s[i] = s[j] => i = j

\* Dropping the head of a FIFO without repetition removes exactly its head.
LEMMA TailElems ==
    ASSUME NEW S, NEW s \in Seq(S), s # << >>, IsDistinct(s)
    PROVE  /\ Tail(s) \in Seq(S)
           /\ Len(Tail(s)) = Len(s) - 1
           /\ Elems(Tail(s)) = Elems(s) \ {Head(s)}
           /\ IsDistinct(Tail(s))
<1>1. /\ Tail(s) \in Seq(S)
      /\ Len(Tail(s)) = Len(s) - 1
      /\ \A i \in 1 .. Len(Tail(s)) : Tail(s)[i] = s[i+1]
      /\ Len(s) \in Nat \ {0}
  BY HeadTailProperties, EmptySeq
<1>2. DOMAIN Tail(s) = 1 .. Len(s) - 1 /\ DOMAIN s = 1 .. Len(s)
  BY <1>1, LenProperties
<1>3. Elems(Tail(s)) = Elems(s) \ {Head(s)}
  <2>0. Head(s) = s[1]
    OBVIOUS
  <2>1. ASSUME NEW x \in Elems(Tail(s)) PROVE x \in Elems(s) \ {Head(s)}
    <3>1. PICK i \in 1 .. Len(s) - 1 : x = Tail(s)[i]
      BY <1>2 DEF Elems
    <3>2. x = s[i+1] /\ i + 1 \in DOMAIN s /\ i + 1 # 1
      BY <1>1, <1>2, <3>1
    <3>. QED
      BY <2>0, <3>2, <1>2 DEF Elems, IsDistinct
  <2>2. ASSUME NEW x \in Elems(s) \ {Head(s)} PROVE x \in Elems(Tail(s))
    <3>1. PICK j \in 1 .. Len(s) : x = s[j]
      BY <1>2 DEF Elems
    <3>2. j # 1
      BY <2>0, <3>1
    <3>3. j - 1 \in 1 .. Len(s) - 1 /\ Tail(s)[j-1] = s[j]
      BY <1>1, <3>2
    <3>. QED
      BY <1>2, <3>1, <3>3 DEF Elems
  <2>. QED
    BY <2>1, <2>2
<1>4. IsDistinct(Tail(s))
  BY <1>1, <1>2 DEF IsDistinct
<1>. QED
  BY <1>1, <1>3, <1>4

\* Appending a new element to a FIFO adds it and keeps it without repetition.
LEMMA AppendElems ==
    ASSUME NEW S, NEW s \in Seq(S), NEW x \in S
    PROVE  /\ Append(s, x) \in Seq(S)
           /\ Len(Append(s, x)) = Len(s) + 1
           /\ Elems(Append(s, x)) = Elems(s) \cup {x}
           /\ IsDistinct(s) /\ x \notin Elems(s) => IsDistinct(Append(s, x))
<1>1. /\ Append(s, x) \in Seq(S)
      /\ Len(Append(s, x)) = Len(s) + 1
      /\ \A i \in 1 .. Len(s) : Append(s, x)[i] = s[i]
      /\ Append(s, x)[Len(s) + 1] = x
  BY AppendProperties
<1>2. DOMAIN Append(s, x) = 1 .. Len(s) + 1 /\ DOMAIN s = 1 .. Len(s) /\ Len(s) \in Nat
  BY <1>1, LenProperties
<1>. QED
  BY <1>1, <1>2 DEF Elems, IsDistinct

\* Draining the first k messages of a FIFO without repetition removes
\* exactly those k.
LEMMA DrainElems ==
    ASSUME NEW S, NEW s \in Seq(S), IsDistinct(s), NEW k \in 0 .. Len(s)
    PROVE  LET t == SubSeq(s, k + 1, Len(s))
           IN  /\ t \in Seq(S)
               /\ Len(t) <= Len(s)
               /\ Elems(t) = Elems(s) \ {s[i] : i \in 1 .. k}
               /\ IsDistinct(t)
<1>. DEFINE t == SubSeq(s, k + 1, Len(s))
<1>1. Len(s) \in Nat /\ DOMAIN s = 1 .. Len(s) /\ \A i \in 1 .. Len(s) : s[i] \in S
  BY LenProperties
<1>2. /\ t \in Seq(S)
      /\ Len(t) = Len(s) - k
      /\ \A i \in 1 .. Len(s) - k : t[i] = s[k + i]
  <2>1. k + 1 \in Int /\ Len(s) \in Int /\ \A i \in (k + 1) .. Len(s) : s[i] \in S
    BY <1>1
  <2>. QED
    BY <2>1, SubSeqProperties
<1>3. DOMAIN t = 1 .. Len(s) - k
  BY <1>2, LenProperties
<1>4. Elems(t) = Elems(s) \ {s[i] : i \in 1 .. k}
  <2>1. ASSUME NEW x \in Elems(t) PROVE x \in Elems(s) \ {s[i] : i \in 1 .. k}
    <3>1. PICK i \in 1 .. Len(s) - k : x = t[i]
      BY <1>3 DEF Elems
    <3>2. x = s[k + i] /\ k + i \in DOMAIN s
      <4>1. t[i] = s[k + i]
        BY <1>2
      <4>2. k + i \in 1 .. Len(s)
        BY <1>1
      <4>. QED
        BY <1>1, <3>1, <4>1, <4>2
    <3>3. \A j \in 1 .. k : s[j] # s[k + i]
      BY <1>1, <3>2 DEF IsDistinct
    <3>. QED
      BY <3>2, <3>3 DEF Elems
  <2>2. ASSUME NEW x \in Elems(s) \ {s[i] : i \in 1 .. k} PROVE x \in Elems(t)
    <3>1. PICK j \in 1 .. Len(s) : x = s[j]
      BY <1>1 DEF Elems
    <3>2. j > k
      BY <3>1
    <3>3. j - k \in 1 .. Len(s) - k /\ t[j - k] = s[j]
      <4>1. j - k \in 1 .. Len(s) - k
        BY <1>1, <3>2
      <4>2. t[j - k] = s[k + (j - k)]
        BY <1>2, <4>1
      <4>. QED
        BY <4>1, <4>2
    <3>. QED
      BY <1>3, <3>1, <3>3 DEF Elems
  <2>. QED
    BY <2>1, <2>2
<1>5. IsDistinct(t)
  <2>. SUFFICES ASSUME NEW i \in 1 .. Len(s) - k, NEW j \in 1 .. Len(s) - k,
                      t[i] = t[j]
               PROVE  i = j
    BY <1>3 DEF IsDistinct
  <2>1. t[i] = s[k + i] /\ t[j] = s[k + j]
    BY <1>2
  <2>2. k + i \in DOMAIN s /\ k + j \in DOMAIN s
    BY <1>1
  <2>. QED
    BY <2>1, <2>2 DEF IsDistinct
<1>. QED
  BY <1>2, <1>4, <1>5

-----------------------------------------------------------------------------
(* The inductive invariant.                                                *)

\* m is held by some channel's send queue.
InQueue(m) == \E c \in ChannelId : m \in QueuedMsgs(c)

\* A message is held by the application or by one send queue, never both:
\* SendMessage takes the application's reference over.
Exclusive ==
    \A m \in Msg, c \in ChannelId :
        m \in QueuedMsgs(c) => /\ m \notin app
                               /\ \A d \in ChannelId \ {c} : m \notin QueuedMsgs(d)

\* An unreliable FIFO holds each message once.
FifoDistinct ==
    \A c \in UnreliableChannels :
        \A i, j \in DOMAIN fifo[c] : fifo[c][i] = fifo[c][j] => i = j

\* The occupied slots of a reliable send queue are those of the last
\* sendQueueSize ids, one entry per id.
SlotWindow ==
    \A c \in ReliableChannels : \A e \in sendQueue[c] :
        sendMessageId[c] - SendQueueSize <= e.id /\ e.id < sendMessageId[c]

IdsUnique ==
    \A c \in ReliableChannels : \A e, f \in sendQueue[c] : e.id = f.id => e = f

\* refCount counts one reference for the application or the queue holding
\* the message, plus the references dropped with destroyed packets.
RefCounts ==
    \A m \in Msg :
        refCount[m] = IF m \in created
                      THEN (IF m \in app \/ InQueue(m) THEN 1 ELSE 0) + orphan[m]
                      ELSE 0

OrphanCreated == \A m \in Msg \ created : orphan[m] = 0

FifoBound == \A c \in UnreliableChannels : Len(fifo[c]) <= SendQueueSize

IInv ==
    /\ TypeOK
    /\ Exclusive
    /\ FifoDistinct
    /\ SlotWindow
    /\ IdsUnique
    /\ RefCounts
    /\ OrphanCreated
    /\ FifoBound


-----------------------------------------------------------------------------
(* Lemmas about channels, queues and counts.                               *)

LEMMA ChannelKinds ==
    /\ ReliableChannels \subseteq ChannelId
    /\ UnreliableChannels \subseteq ChannelId
    /\ ReliableChannels \cap UnreliableChannels = {}
    /\ \A c \in ChannelId : c \in ReliableChannels \/ c \in UnreliableChannels
    /\ \A c \in ChannelId : c \in ReliableChannels <=> Reliable(c)
BY DEF ReliableChannels, UnreliableChannels

\* What a send queue holds, in and after a step.
LEMMA QueuedRel ==
    ASSUME NEW c \in ReliableChannels
    PROVE  /\ QueuedMsgs(c) = {e.msg : e \in sendQueue[c]}
           /\ QueuedMsgs(c)' = {e.msg : e \in sendQueue'[c]}
BY DEF QueuedMsgs, ReliableChannels

LEMMA QueuedUnrel ==
    ASSUME NEW c \in UnreliableChannels
    PROVE  /\ QueuedMsgs(c) = Elems(fifo[c])
           /\ QueuedMsgs(c)' = Elems(fifo'[c])
BY DEF QueuedMsgs, ReliableChannels, UnreliableChannels, Elems

\* Everything a queue holds was created.
LEMMA QueuedCreated ==
    ASSUME TypeOK, NEW c \in ChannelId
    PROVE  QueuedMsgs(c) \subseteq created
<1>1. CASE c \in ReliableChannels
  BY <1>1, QueuedRel DEF TypeOK
<1>2. CASE c \in UnreliableChannels
  <2>1. fifo[c] \in Seq(created)
    BY <1>2 DEF TypeOK
  <2>2. \A i \in DOMAIN fifo[c] : fifo[c][i] \in created
    BY <2>1, LenProperties, ElementOfSeq
  <2>. QED
    BY <1>2, <2>2, QueuedUnrel DEF Elems
<1>. QED
  BY <1>1, <1>2, ChannelKinds

\* Under the invariant, a message held by the application or a queue is
\* alive: its count is at least one.
LEMMA HeldPositive ==
    ASSUME IInv, NEW m \in Msg, m \in app \/ InQueue(m)
    PROVE  m \in created /\ refCount[m] >= 1
<1>1. m \in created
  BY QueuedCreated DEF IInv, TypeOK, InQueue
<1>. QED
  BY <1>1 DEF IInv, TypeOK, RefCounts

\* Releasing messages that are alive leaves every count a natural number.
LEMMA ReleaseAllType ==
    ASSUME NEW rc \in [Msg -> Nat], NEW S, \A m \in S \cap Msg : rc[m] >= 1
    PROVE  ReleaseAll(rc, S) \in [Msg -> Nat]
BY DEF ReleaseAll

\* The messages of a set of send-queue entries with one entry added.
LEMMA ImageAdd ==
    ASSUME NEW S, NEW r
    PROVE  {e.msg : e \in S \cup {r}} = {e.msg : e \in S} \cup {r.msg}
OBVIOUS

\* Slots repeat every sendQueueSize ids.
LEMMA ModUnique ==
    ASSUME NEW x \in Nat, NEW q \in Nat \ {0}, NEW k \in Nat, NEW r \in 0 .. q - 1,
           x = q * k + r
    PROVE  x % q = r
OBVIOUS

LEMMA ModShift ==
    ASSUME NEW a \in Nat, NEW q \in Nat \ {0}
    PROVE  (a + q) % q = a % q
<1>1. a \div q \in Nat /\ a - (a \div q) * q = a % q /\ a % q \in 0 .. q - 1
  OBVIOUS
<1>2. PICK k \in Nat : k = a \div q + 1
  BY <1>1
<1>3. PICK r \in 0 .. q - 1 : r = a % q
  BY <1>1
<1>4. a + q = q * k + r /\ a + q \in Nat
  BY <1>1, <1>2, <1>3
<1>. QED
  BY <1>3, <1>4, ModUnique

\* A step that only removes messages from the application and the queues
\* keeps them exclusive.
LEMMA ExclusiveShrink ==
    ASSUME Exclusive, app' \subseteq app,
           \A c \in ChannelId : QueuedMsgs(c)' \subseteq QueuedMsgs(c)
    PROVE  Exclusive'
BY DEF Exclusive

-----------------------------------------------------------------------------
(* Init, and one lemma per action.                                         *)

LEMMA InitIInv == Init => IInv
<1>. SUFFICES ASSUME Init PROVE IInv
  OBVIOUS
<1>1. \A c \in ChannelId : QueuedMsgs(c) = {}
  <2>. SUFFICES ASSUME NEW c \in ChannelId PROVE QueuedMsgs(c) = {}
    OBVIOUS
  <2>1. CASE c \in ReliableChannels
    BY <2>1, QueuedRel DEF Init
  <2>2. CASE c \in UnreliableChannels
    BY <2>2, QueuedUnrel DEF Init, Elems
  <2>. QED
    BY <2>1, <2>2, ChannelKinds
<1>2. TypeOK
  <2>1. fifo \in [UnreliableChannels -> Seq(created)]
    BY EmptySeq DEF Init
  <2>. QED
    BY <2>1, LiveAssumption DEF Init, TypeOK, PacketSeq
<1>3. FifoBound /\ FifoDistinct
  <2>1. \A c \in UnreliableChannels : fifo[c] = << >>
    BY DEF Init
  <2>2. Len(<< >>) = 0 /\ DOMAIN << >> = {}
    OBVIOUS
  <2>. QED
    BY <2>1, <2>2, LiveAssumption DEF FifoBound, FifoDistinct
<1>. QED
  BY <1>1, <1>2, <1>3
     DEF Init, IInv, Exclusive, SlotWindow, IdsUnique, RefCounts, InQueue, OrphanCreated

LEMMA CreateIInv ==
    ASSUME IInv, NEW m0 \in Msg, Create(m0)
    PROVE  IInv'
<1>1. \A c \in ChannelId : QueuedMsgs(c)' = QueuedMsgs(c)
  BY DEF Create, QueuedMsgs
<1>2. m0 \notin created /\ \A c \in ChannelId : m0 \notin QueuedMsgs(c)
  BY QueuedCreated DEF Create, IInv
<1>3. TypeOK'
  <2>1. \A c \in UnreliableChannels : fifo'[c] \in Seq(created')
    BY SeqMonotonic DEF Create, IInv, TypeOK
  <2>. QED
    BY <2>1 DEF Create, IInv, TypeOK
<1>4. Exclusive'
  BY <1>1, <1>2 DEF Create, IInv, Exclusive
<1>5. RefCounts'
  <2>1. \A m \in Msg : InQueue(m)' = InQueue(m)
    BY <1>1 DEF InQueue
  <2>2. ASSUME NEW m \in Msg
        PROVE  refCount'[m] = IF m \in created'
                              THEN (IF m \in app' \/ InQueue(m)' THEN 1 ELSE 0) + orphan'[m]
                              ELSE 0
    <3>1. CASE m = m0
      BY <1>2, <3>1 DEF Create, IInv, OrphanCreated, TypeOK
    <3>2. CASE m # m0
      BY <2>1, <3>2 DEF Create, IInv, RefCounts, TypeOK
    <3>. QED
      BY <3>1, <3>2
  <2>. QED
    BY <2>2 DEF RefCounts
<1>. QED
  BY <1>3, <1>4, <1>5
     DEF Create, IInv, FifoDistinct, SlotWindow, IdsUnique, OrphanCreated, FifoBound

LEMMA ReleaseIInv ==
    ASSUME IInv, NEW m0 \in Msg, Release(m0)
    PROVE  IInv'
<1>1. \A c \in ChannelId : QueuedMsgs(c)' = QueuedMsgs(c)
  BY DEF Release, QueuedMsgs
<1>2. ~InQueue(m0) /\ refCount[m0] >= 1
  BY HeldPositive DEF Release, IInv, Exclusive, InQueue
<1>3. TypeOK'
  BY <1>2, ReleaseAllType DEF Release, IInv, TypeOK
<1>4. Exclusive'
  BY <1>1, ExclusiveShrink DEF Release, IInv
<1>5. RefCounts'
  <2>1. \A m \in Msg : InQueue(m)' = InQueue(m)
    BY <1>1 DEF InQueue
  <2>. QED
    BY <1>2, <2>1 DEF Release, ReleaseAll, IInv, RefCounts, TypeOK
<1>. QED
  BY <1>3, <1>4, <1>5
     DEF Release, IInv, FifoDistinct, SlotWindow, IdsUnique, OrphanCreated, FifoBound

LEMMA SendReliableIInv ==
    ASSUME IInv, NEW c0 \in ReliableChannels, NEW m0 \in Msg, SendReliable(c0, m0)
    PROVE  IInv'
<1>0. /\ m0 \in app /\ m0 \in created /\ ~InQueue(m0) /\ c0 \in ChannelId
      /\ SendQueueSize \in Nat \ {0} /\ sendMessageId[c0] \in Nat
  BY ChannelKinds, LiveAssumption DEF SendReliable, IInv, TypeOK, Exclusive, InQueue
<1>1. /\ sendQueue'[c0] = sendQueue[c0] \cup {[id |-> sendMessageId[c0], msg |-> m0]}
      /\ \A c \in ReliableChannels \ {c0} : sendQueue'[c] = sendQueue[c]
      /\ sendMessageId'[c0] = sendMessageId[c0] + 1
      /\ \A c \in ReliableChannels \ {c0} : sendMessageId'[c] = sendMessageId[c]
  BY DEF SendReliable, IInv, TypeOK
<1>2. /\ QueuedMsgs(c0)' = QueuedMsgs(c0) \cup {m0}
      /\ \A c \in ChannelId \ {c0} : QueuedMsgs(c)' = QueuedMsgs(c)
  <2>1. QueuedMsgs(c0)' = QueuedMsgs(c0) \cup {m0}
    <3>1. QueuedMsgs(c0)' = {e.msg : e \in sendQueue[c0] \cup {[id |-> sendMessageId[c0], msg |-> m0]}}
      BY <1>1, QueuedRel
    <3>2. {e.msg : e \in sendQueue[c0] \cup {[id |-> sendMessageId[c0], msg |-> m0]}}
          = {e.msg : e \in sendQueue[c0]} \cup {[id |-> sendMessageId[c0], msg |-> m0].msg}
      BY ImageAdd
    <3>3. [id |-> sendMessageId[c0], msg |-> m0].msg = m0
      OBVIOUS
    <3>. QED
      BY <3>1, <3>2, <3>3, QueuedRel
  <2>2. ASSUME NEW c \in ChannelId \ {c0} PROVE QueuedMsgs(c)' = QueuedMsgs(c)
    <3>1. CASE c \in ReliableChannels
      BY <1>1, <3>1, QueuedRel
    <3>2. CASE c \in UnreliableChannels
      BY <3>2, QueuedUnrel DEF SendReliable
    <3>. QED
      BY <3>1, <3>2, ChannelKinds
  <2>. QED
    BY <2>1, <2>2
<1>3. TypeOK'
  BY <1>0, <1>1 DEF SendReliable, IInv, TypeOK
<1>4. Exclusive'
  <2>. SUFFICES ASSUME NEW m \in Msg, NEW c \in ChannelId, m \in QueuedMsgs(c)'
               PROVE  /\ m \notin app'
                      /\ \A d \in ChannelId \ {c} : m \notin QueuedMsgs(d)'
    BY DEF Exclusive
  <2>1. CASE m = m0
    <3>1. c = c0
      BY <1>0, <1>2, <2>1 DEF InQueue
    <3>. QED
      BY <1>0, <1>2, <2>1, <3>1 DEF SendReliable, InQueue
  <2>2. CASE m # m0
    <3>1. m \in QueuedMsgs(c)
      BY <1>2, <2>2
    <3>. QED
      BY <1>2, <2>2, <3>1 DEF SendReliable, IInv, Exclusive
  <2>. QED
    BY <2>1, <2>2
<1>5. SlotWindow' /\ IdsUnique'
  <2>1. \A e \in sendQueue[c0] :
            e.id % SendQueueSize # sendMessageId[c0] % SendQueueSize
    BY DEF SendReliable, CanSendMessage
  <2>2. \A e \in sendQueue[c0] :
            /\ sendMessageId[c0] - SendQueueSize <= e.id
            /\ e.id < sendMessageId[c0]
            /\ e.id \in Nat
    BY DEF IInv, SlotWindow, TypeOK
  <2>3. \A e \in sendQueue[c0] : e.id # sendMessageId[c0] - SendQueueSize
    <3>. SUFFICES ASSUME NEW e \in sendQueue[c0], e.id = sendMessageId[c0] - SendQueueSize
                  PROVE  FALSE
      OBVIOUS
    <3>1. sendMessageId[c0] = e.id + SendQueueSize /\ e.id \in Nat
      BY <1>0, <2>2
    <3>2. (e.id + SendQueueSize) % SendQueueSize = e.id % SendQueueSize
      BY <1>0, <3>1, ModShift
    <3>. QED
      BY <2>1, <3>1, <3>2
  <2>4. \A e \in sendQueue[c0] :
            sendMessageId[c0] + 1 - SendQueueSize <= e.id /\ e.id < sendMessageId[c0] + 1
    BY <1>0, <2>2, <2>3
  <2>5. SlotWindow'
    <3>. SUFFICES ASSUME NEW c \in ReliableChannels, NEW e \in sendQueue'[c]
                  PROVE  sendMessageId'[c] - SendQueueSize <= e.id /\ e.id < sendMessageId'[c]
      BY DEF SlotWindow
    <3>1. CASE c = c0
      <4>0. sendMessageId'[c] = sendMessageId[c0] + 1
        BY <1>1, <3>1
      <4>1. CASE e \in sendQueue[c0]
        <5>1. sendMessageId[c0] + 1 - SendQueueSize <= e.id /\ e.id < sendMessageId[c0] + 1
          BY <2>4, <4>1
        <5>. QED
          BY <1>0, <2>2, <4>0, <4>1, <5>1
      <4>2. CASE e = [id |-> sendMessageId[c0], msg |-> m0]
        <5>1. e.id = sendMessageId[c0]
          BY <4>2
        <5>. QED
          BY <1>0, <4>0, <5>1
      <4>. QED
        BY <1>1, <3>1, <4>1, <4>2
    <3>2. CASE c # c0
      BY <1>1, <3>2 DEF IInv, SlotWindow
    <3>. QED
      BY <3>1, <3>2
  <2>6. IdsUnique'
    BY <1>1, <2>2 DEF IInv, IdsUnique
  <2>. QED
    BY <2>5, <2>6
<1>6. RefCounts'
  <2>1. \A m \in Msg : InQueue(m)' = (InQueue(m) \/ m = m0)
    BY <1>0, <1>2 DEF InQueue
  <2>. QED
    BY <1>0, <2>1 DEF SendReliable, IInv, RefCounts
<1>. QED
  BY <1>3, <1>4, <1>5, <1>6 DEF SendReliable, IInv, FifoDistinct, OrphanCreated, FifoBound

LEMMA SendUnreliableIInv ==
    ASSUME IInv, NEW c0 \in UnreliableChannels, NEW m0 \in Msg, SendUnreliable(c0, m0)
    PROVE  IInv'
<1>0. /\ m0 \in app /\ m0 \in created /\ ~InQueue(m0) /\ c0 \in ChannelId
      /\ SendQueueSize \in Nat \ {0}
      /\ fifo[c0] \in Seq(created) /\ IsDistinct(fifo[c0])
      /\ Len(fifo[c0]) <= SendQueueSize
      /\ m0 \notin Elems(fifo[c0])
  BY ChannelKinds, QueuedUnrel, LiveAssumption
     DEF SendUnreliable, IInv, TypeOK, Exclusive, InQueue, FifoDistinct, IsDistinct, FifoBound
<1>1. /\ \A c \in UnreliableChannels \ {c0} : fifo'[c] = fifo[c]
      /\ \A c \in ChannelId \ {c0} : QueuedMsgs(c)' = QueuedMsgs(c)
  <2>1. \A c \in UnreliableChannels \ {c0} : fifo'[c] = fifo[c]
    BY DEF SendUnreliable, IInv, TypeOK
  <2>2. ASSUME NEW c \in ChannelId \ {c0} PROVE QueuedMsgs(c)' = QueuedMsgs(c)
    <3>1. CASE c \in ReliableChannels
      BY <3>1, QueuedRel DEF SendUnreliable
    <3>2. CASE c \in UnreliableChannels
      BY <2>1, <3>2, QueuedUnrel
    <3>. QED
      BY <3>1, <3>2, ChannelKinds
  <2>. QED
    BY <2>1, <2>2
\* Either way, the FIFO drops a set D of its messages (its head when full),
\* releases them, and takes m0.
<1>2. \E D \in SUBSET QueuedMsgs(c0) :
         /\ QueuedMsgs(c0)' = (QueuedMsgs(c0) \ D) \cup {m0}
         /\ refCount' = ReleaseAll(refCount, D)
         /\ fifo'[c0] \in Seq(created)
         /\ IsDistinct(fifo'[c0])
         /\ Len(fifo'[c0]) <= SendQueueSize
  <2>1. CASE Len(fifo[c0]) = SendQueueSize
    <3>1. /\ fifo'[c0] = Append(Tail(fifo[c0]), m0)
          /\ refCount' = ReleaseAll(refCount, {Head(fifo[c0])})
      BY <2>1 DEF SendUnreliable, IInv, TypeOK
    <3>2. fifo[c0] # << >>
      BY <1>0, <2>1
    <3>3. PICK t \in Seq(created) :
            /\ t = Tail(fifo[c0])
            /\ Len(t) = Len(fifo[c0]) - 1
            /\ Elems(t) = Elems(fifo[c0]) \ {Head(fifo[c0])}
            /\ IsDistinct(t)
      BY <1>0, <3>2, TailElems
    <3>4. m0 \notin Elems(t)
      BY <1>0, <3>3
    <3>5. /\ Append(t, m0) \in Seq(created)
          /\ Len(Append(t, m0)) = Len(t) + 1
          /\ Elems(Append(t, m0)) = Elems(t) \cup {m0}
          /\ IsDistinct(Append(t, m0))
      <4>1. t \in Seq(created) /\ m0 \in created /\ IsDistinct(t) /\ m0 \notin Elems(t)
        BY <1>0, <3>3, <3>4
      <4>. QED
        BY <4>1, AppendElems
    <3>6. Head(fifo[c0]) \in QueuedMsgs(c0)
      <4>1. Head(fifo[c0]) = fifo[c0][1] /\ 1 \in DOMAIN fifo[c0]
        BY <1>0, <3>2, LenProperties, EmptySeq
      <4>. QED
        BY <4>1, QueuedUnrel DEF Elems
    <3>7. QueuedMsgs(c0)' = (QueuedMsgs(c0) \ {Head(fifo[c0])}) \cup {m0}
      BY <3>1, <3>3, <3>5, QueuedUnrel
    <3>8. fifo'[c0] = Append(t, m0)
      BY <3>1, <3>3
    <3>9. Len(fifo'[c0]) <= SendQueueSize
      BY <1>0, <2>1, <3>3, <3>5, <3>8
    <3>10. {Head(fifo[c0])} \in SUBSET QueuedMsgs(c0)
      BY <3>6
    <3>. WITNESS {Head(fifo[c0])} \in SUBSET QueuedMsgs(c0)
    <3>. QED
      BY <3>1, <3>5, <3>7, <3>8, <3>9
  <2>2. CASE Len(fifo[c0]) # SendQueueSize
    <3>1. /\ fifo'[c0] = Append(fifo[c0], m0)
          /\ refCount' = refCount
      BY <2>2 DEF SendUnreliable, IInv, TypeOK
    <3>2. /\ Append(fifo[c0], m0) \in Seq(created)
          /\ Len(Append(fifo[c0], m0)) = Len(fifo[c0]) + 1
          /\ Elems(Append(fifo[c0], m0)) = Elems(fifo[c0]) \cup {m0}
          /\ IsDistinct(Append(fifo[c0], m0))
      BY <1>0, AppendElems
    <3>3. refCount = ReleaseAll(refCount, {})
      BY DEF IInv, TypeOK, ReleaseAll
    <3>4. QueuedMsgs(c0)' = (QueuedMsgs(c0) \ {}) \cup {m0}
      BY <3>1, <3>2, QueuedUnrel
    <3>5. Len(fifo'[c0]) <= SendQueueSize
      BY <1>0, <2>2, <3>1, <3>2, LenProperties
    <3>. QED
      BY <3>1, <3>2, <3>3, <3>4, <3>5
  <2>. QED
    BY <2>1, <2>2
<1>3. PICK D \in SUBSET QueuedMsgs(c0) :
         /\ QueuedMsgs(c0)' = (QueuedMsgs(c0) \ D) \cup {m0}
         /\ refCount' = ReleaseAll(refCount, D)
         /\ fifo'[c0] \in Seq(created)
         /\ IsDistinct(fifo'[c0])
         /\ Len(fifo'[c0]) <= SendQueueSize
  BY <1>2
<1>4. /\ \A m \in D : m # m0 /\ m \notin app /\ m \in created /\ refCount[m] >= 1
      /\ \A m \in D : \A c \in ChannelId \ {c0} : m \notin QueuedMsgs(c)
  <2>. SUFFICES ASSUME NEW m \in D
               PROVE  /\ m # m0 /\ m \notin app /\ m \in created /\ refCount[m] >= 1
                      /\ \A c \in ChannelId \ {c0} : m \notin QueuedMsgs(c)
    OBVIOUS
  <2>1. m \in QueuedMsgs(c0) /\ InQueue(m) /\ m \in Msg
    BY <1>0, <1>3, QueuedCreated DEF InQueue, IInv, TypeOK
  <2>2. m # m0
    BY <1>0, <2>1
  <2>3. m \notin app /\ \A c \in ChannelId \ {c0} : m \notin QueuedMsgs(c)
    BY <1>0, <2>1 DEF IInv, Exclusive
  <2>4. m \in created /\ refCount[m] >= 1
    BY <2>1, HeldPositive
  <2>. QED
    BY <2>2, <2>3, <2>4
<1>5. TypeOK'
  <2>1. refCount' \in [Msg -> Nat]
    BY <1>3, <1>4, ReleaseAllType DEF IInv, TypeOK
  <2>2. fifo' \in [UnreliableChannels -> Seq(created')]
    BY <1>3 DEF SendUnreliable, IInv, TypeOK
  <2>. QED
    BY <2>1, <2>2 DEF SendUnreliable, IInv, TypeOK
<1>6. Exclusive'
  <2>. SUFFICES ASSUME NEW m \in Msg, NEW c \in ChannelId, m \in QueuedMsgs(c)'
               PROVE  /\ m \notin app'
                      /\ \A d \in ChannelId \ {c} : m \notin QueuedMsgs(d)'
    BY DEF Exclusive
  <2>1. CASE m = m0
    <3>1. c = c0
      BY <1>0, <1>1, <2>1 DEF InQueue
    <3>. QED
      BY <1>0, <1>1, <2>1, <3>1 DEF SendUnreliable, InQueue
  <2>2. CASE m # m0
    <3>1. m \in QueuedMsgs(c)
      BY <1>1, <1>3, <2>2
    <3>. QED
      BY <1>1, <1>3, <2>2, <3>1 DEF SendUnreliable, IInv, Exclusive
  <2>. QED
    BY <2>1, <2>2
<1>7. FifoDistinct' /\ FifoBound'
  BY <1>1, <1>3 DEF IInv, FifoDistinct, FifoBound, IsDistinct
<1>8. RefCounts'
  <2>1. \A m \in Msg : InQueue(m)' = ((InQueue(m) /\ m \notin D) \/ m = m0)
    BY <1>0, <1>1, <1>3, <1>4 DEF InQueue
  <2>2. ASSUME NEW m \in Msg
        PROVE  refCount'[m] = IF m \in created'
                              THEN (IF m \in app' \/ InQueue(m)' THEN 1 ELSE 0) + orphan'[m]
                              ELSE 0
    <3>1. CASE m \in D
      <4>1. refCount'[m] = refCount[m] - 1 /\ ~InQueue(m)' /\ m \notin app'
        BY <1>3, <1>4, <2>1, <3>1 DEF ReleaseAll, SendUnreliable
      <4>2. InQueue(m) /\ m \in created
        BY <1>0, <1>3, <1>4, <3>1 DEF InQueue
      <4>. QED
        BY <4>1, <4>2 DEF SendUnreliable, IInv, RefCounts, TypeOK
    <3>2. CASE m \notin D
      <4>1. refCount'[m] = refCount[m] /\ InQueue(m)' = (InQueue(m) \/ m = m0)
        BY <1>3, <2>1, <3>2 DEF ReleaseAll
      <4>. QED
        BY <1>0, <4>1 DEF SendUnreliable, IInv, RefCounts
    <3>. QED
      BY <3>1, <3>2
  <2>. QED
    BY <2>2 DEF RefCounts
<1>. QED
  BY <1>5, <1>6, <1>7, <1>8
     DEF SendUnreliable, IInv, SlotWindow, IdsUnique, OrphanCreated

LEMMA GeneratePacketIInv ==
    ASSUME IInv,
           NEW take \in [ReliableChannels -> SUBSET Msg],
           NEW drain \in [UnreliableChannels -> 0 .. MaxMessagesPerPacket],
           GeneratePacket(take, drain)
    PROVE  IInv'
<1>0. /\ \A c \in ReliableChannels : take[c] \subseteq QueuedMsgs(c)
      /\ \A c \in ReliableChannels : take[c] \subseteq created
      /\ \A c \in UnreliableChannels : drain[c] \in 0 .. Len(fifo[c])
      /\ packetSeq \in PacketSeq
  <2>1. \A c \in ReliableChannels : take[c] \subseteq QueuedMsgs(c)
    BY DEF GeneratePacket
  <2>2. \A c \in ReliableChannels : take[c] \subseteq created
    BY <2>1, ChannelKinds, QueuedCreated DEF IInv
  <2>3. \A c \in UnreliableChannels : drain[c] \in 0 .. Len(fifo[c])
    BY DEF GeneratePacket
  <2>4. packetSeq \in PacketSeq
    BY LiveAssumption DEF GeneratePacket, IInv, TypeOK, PacketSeq
  <2>. QED
    BY <2>1, <2>2, <2>3, <2>4
\* What the drained FIFOs hold.
<1>1. \A c \in UnreliableChannels :
         /\ fifo'[c] \in Seq(created)
         /\ Len(fifo'[c]) <= Len(fifo[c])
         /\ IsDistinct(fifo'[c])
         /\ QueuedMsgs(c)' = QueuedMsgs(c) \ Drained(c, drain[c])
         /\ Drained(c, drain[c]) \subseteq QueuedMsgs(c)
  <2>. SUFFICES ASSUME NEW c \in UnreliableChannels
               PROVE  /\ fifo'[c] \in Seq(created)
                      /\ Len(fifo'[c]) <= Len(fifo[c])
                      /\ IsDistinct(fifo'[c])
                      /\ QueuedMsgs(c)' = QueuedMsgs(c) \ Drained(c, drain[c])
                      /\ Drained(c, drain[c]) \subseteq QueuedMsgs(c)
    OBVIOUS
  <2>1. fifo[c] \in Seq(created) /\ IsDistinct(fifo[c])
    BY DEF IInv, TypeOK, FifoDistinct, IsDistinct
  <2>2. fifo'[c] = SubSeq(fifo[c], drain[c] + 1, Len(fifo[c]))
    BY DEF GeneratePacket
  <2>3. /\ fifo'[c] \in Seq(created)
        /\ Len(fifo'[c]) <= Len(fifo[c])
        /\ Elems(fifo'[c]) = Elems(fifo[c]) \ Drained(c, drain[c])
        /\ IsDistinct(fifo'[c])
    BY <1>0, <2>1, <2>2, DrainElems DEF Drained
  <2>4. Drained(c, drain[c]) \subseteq QueuedMsgs(c)
    <3>1. 1 .. drain[c] \subseteq DOMAIN fifo[c]
      BY <1>0, <2>1, LenProperties
    <3>. QED
      BY <3>1, QueuedUnrel DEF Drained, Elems
  <2>. QED
    BY <2>3, <2>4, QueuedUnrel
<1>2. \A c \in ReliableChannels : QueuedMsgs(c)' = QueuedMsgs(c)
  BY QueuedRel DEF GeneratePacket
<1>3. \A c \in ChannelId : QueuedMsgs(c)' \subseteq QueuedMsgs(c)
  BY <1>1, <1>2, ChannelKinds
\* A message a reliable channel includes stays queued, and no FIFO drains it.
<1>4. \A m \in Msg, c \in ReliableChannels : m \in take[c] =>
         /\ m \in created /\ InQueue(m) /\ InQueue(m)'
         /\ \A d \in UnreliableChannels : m \notin Drained(d, drain[d])
  <2>. SUFFICES ASSUME NEW m \in Msg, NEW c \in ReliableChannels, m \in take[c]
               PROVE  /\ m \in created /\ InQueue(m) /\ InQueue(m)'
                      /\ \A d \in UnreliableChannels : m \notin Drained(d, drain[d])
    OBVIOUS
  <2>1. m \in QueuedMsgs(c) /\ m \in QueuedMsgs(c)' /\ m \in created /\ c \in ChannelId
    BY <1>0, <1>2, ChannelKinds
  <2>2. \A d \in UnreliableChannels : m \notin QueuedMsgs(d)
    BY <2>1, ChannelKinds DEF IInv, Exclusive
  <2>. QED
    BY <1>1, <2>1, <2>2 DEF InQueue
\* A message an unreliable channel drains leaves every queue.
<1>5. \A m \in Msg, d \in UnreliableChannels : m \in Drained(d, drain[d]) =>
         /\ m \in created /\ m \notin app /\ ~InQueue(m)'
         /\ \A c \in ReliableChannels : m \notin take[c]
  <2>. SUFFICES ASSUME NEW m \in Msg, NEW d \in UnreliableChannels, m \in Drained(d, drain[d])
               PROVE  /\ m \in created /\ m \notin app /\ ~InQueue(m)'
                      /\ \A c \in ReliableChannels : m \notin take[c]
    OBVIOUS
  <2>1. m \in QueuedMsgs(d) /\ d \in ChannelId
    BY <1>1, ChannelKinds
  <2>2. m \notin app /\ \A c \in ChannelId \ {d} : m \notin QueuedMsgs(c)
    BY <2>1 DEF IInv, Exclusive
  <2>3. m \notin QueuedMsgs(d)'
    BY <1>1
  <2>4. ~InQueue(m)'
    BY <1>3, <2>2, <2>3 DEF InQueue
  <2>5. \A c \in ReliableChannels : m \notin take[c]
    BY <1>0, <2>2, ChannelKinds
  <2>. QED
    BY <2>1, <2>2, <2>4, <2>5, QueuedCreated DEF IInv
<1>6. \A m \in Msg : (\A d \in UnreliableChannels : m \notin Drained(d, drain[d]))
                     => (InQueue(m)' = InQueue(m))
  <2>. SUFFICES ASSUME NEW m \in Msg, \A d \in UnreliableChannels : m \notin Drained(d, drain[d])
               PROVE  InQueue(m)' = InQueue(m)
    OBVIOUS
  <2>1. \A c \in ChannelId : (m \in QueuedMsgs(c)') = (m \in QueuedMsgs(c))
    BY <1>1, <1>2, ChannelKinds
  <2>. QED
    BY <2>1 DEF InQueue
<1>7. TypeOK'
  <2>1. refCount' \in [Msg -> Nat]
    BY DEF GeneratePacket, AddRefAll, IInv, TypeOK
  <2>2. fifo' \in [UnreliableChannels -> Seq(created')]
    BY <1>1 DEF GeneratePacket
  <2>3. sentIds' \in [ReliableChannels -> [PacketSeq -> SUBSET created']]
    BY <1>0 DEF GeneratePacket, IInv, TypeOK
  <2>4. packetSeq' \in 0 .. MaxPackets
    BY LiveAssumption DEF GeneratePacket, IInv, TypeOK
  <2>5. orphan' \in [Msg -> Nat]
    BY DEF GeneratePacket, IInv, TypeOK
  <2>. QED
    BY <2>1, <2>2, <2>3, <2>4, <2>5 DEF GeneratePacket, IInv, TypeOK
<1>8. Exclusive'
  BY <1>3, ExclusiveShrink DEF GeneratePacket, IInv
<1>9. FifoDistinct'
  BY <1>1 DEF FifoDistinct, IsDistinct
<1>10. FifoBound'
  <2>1. \A c \in UnreliableChannels : Len(fifo'[c]) <= Len(fifo[c]) /\ Len(fifo[c]) <= SendQueueSize
    BY <1>1 DEF IInv, FifoBound
  <2>2. \A c \in UnreliableChannels : Len(fifo'[c]) \in Nat /\ Len(fifo[c]) \in Nat
    BY <1>1, LenProperties DEF IInv, TypeOK
  <2>. QED
    BY <2>1, <2>2, LiveAssumption DEF FifoBound
<1>11. RefCounts'
  <2>0. /\ refCount' = AddRefAll(refCount, PacketDataRefs(take))
        /\ orphan' = [m \in Msg |->
                       IF m \in PacketEntryMsgs(take, drain) THEN orphan[m] + 1 ELSE orphan[m]]
        /\ created' = created /\ app' = app
    BY DEF GeneratePacket
  <2>. SUFFICES ASSUME NEW m \in Msg
                PROVE  refCount'[m] = IF m \in created'
                               THEN (IF m \in app' \/ InQueue(m)' THEN 1 ELSE 0) + orphan'[m]
                               ELSE 0
    BY DEF RefCounts
  <2>1. CASE \E c \in ReliableChannels : m \in take[c]
    <3>1. /\ refCount'[m] = refCount[m] + 1 /\ orphan'[m] = orphan[m] + 1
          /\ m \in created /\ InQueue(m) /\ InQueue(m)'
      BY <1>4, <2>1 DEF GeneratePacket, AddRefAll, PacketDataRefs, PacketEntryMsgs
    <3>. QED
      BY <3>1 DEF GeneratePacket, IInv, RefCounts, TypeOK
  <2>2. CASE \E d \in UnreliableChannels : m \in Drained(d, drain[d])
    <3>0. PICK d \in UnreliableChannels : m \in Drained(d, drain[d])
      BY <2>2
    <3>2. /\ m \in created /\ m \notin app /\ ~InQueue(m)'
          /\ \A c \in ReliableChannels : m \notin take[c]
      BY <1>5, <3>0
    <3>3. InQueue(m)
      BY <1>1, <3>0, ChannelKinds DEF InQueue
    <3>4. m \notin PacketDataRefs(take) /\ m \in PacketEntryMsgs(take, drain)
      BY <3>0, <3>2 DEF PacketDataRefs, PacketEntryMsgs
    <3>1. /\ refCount'[m] = refCount[m] /\ orphan'[m] = orphan[m] + 1
          /\ m \in created /\ m \notin app /\ InQueue(m) /\ ~InQueue(m)'
      BY <2>0, <3>2, <3>3, <3>4 DEF AddRefAll
    <3>. QED
      BY <3>1 DEF GeneratePacket, IInv, RefCounts, TypeOK
  <2>3. CASE /\ \A c \in ReliableChannels : m \notin take[c]
             /\ \A d \in UnreliableChannels : m \notin Drained(d, drain[d])
    <3>2. m \notin PacketDataRefs(take) /\ m \notin PacketEntryMsgs(take, drain)
      BY <2>3 DEF PacketDataRefs, PacketEntryMsgs
    <3>3. InQueue(m)' = InQueue(m)
      BY <1>6, <2>3
    <3>1. /\ refCount'[m] = refCount[m] /\ orphan'[m] = orphan[m]
          /\ InQueue(m)' = InQueue(m)
      BY <2>0, <3>2, <3>3 DEF AddRefAll
    <3>. QED
      BY <3>1 DEF GeneratePacket, IInv, RefCounts
  <2>. QED
    BY <2>1, <2>2, <2>3
<1>12. OrphanCreated'
  <2>1. \A m \in Msg \ created : m \notin PacketEntryMsgs(take, drain)
    <3>. SUFFICES ASSUME NEW m \in Msg \ created PROVE m \notin PacketEntryMsgs(take, drain)
      OBVIOUS
    <3>1. \A c \in ReliableChannels : m \notin take[c]
      BY <1>0
    <3>2. \A d \in UnreliableChannels : m \notin Drained(d, drain[d])
      BY <1>5
    <3>. QED
      BY <3>1, <3>2 DEF PacketEntryMsgs
  <2>. QED
    BY <2>1 DEF GeneratePacket, IInv, OrphanCreated
<1>. QED
  BY <1>7, <1>8, <1>9, <1>10, <1>11, <1>12 DEF GeneratePacket, IInv, SlotWindow, IdsUnique

LEMMA ProcessAcksIInv ==
    ASSUME IInv, NEW acks, ProcessAcks(acks)
    PROVE  IInv'
<1>0. \A c \in ReliableChannels : AckedMsgs(c, acks) \subseteq QueuedMsgs(c)
  BY DEF AckedMsgs
<1>1. \A c \in ReliableChannels : QueuedMsgs(c)' = QueuedMsgs(c) \ AckedMsgs(c, acks)
  <2>. SUFFICES ASSUME NEW c \in ReliableChannels
               PROVE  QueuedMsgs(c)' = QueuedMsgs(c) \ AckedMsgs(c, acks)
    OBVIOUS
  <2>1. sendQueue'[c] = {e \in sendQueue[c] : e.msg \notin AckedMsgs(c, acks)}
    BY DEF ProcessAcks
  <2>. QED
    BY <2>1, QueuedRel
<1>2. \A c \in UnreliableChannels : QueuedMsgs(c)' = QueuedMsgs(c)
  BY QueuedUnrel DEF ProcessAcks
<1>3. \A c \in ChannelId : QueuedMsgs(c)' \subseteq QueuedMsgs(c)
  BY <1>1, <1>2, ChannelKinds
\* An acked message was queued on exactly one channel, and leaves it.
<1>4. \A m \in Msg, c \in ReliableChannels : m \in AckedMsgs(c, acks) =>
         /\ m \notin app /\ InQueue(m) /\ ~InQueue(m)'
  <2>. SUFFICES ASSUME NEW m \in Msg, NEW c \in ReliableChannels, m \in AckedMsgs(c, acks)
               PROVE  m \notin app /\ InQueue(m) /\ ~InQueue(m)'
    OBVIOUS
  <2>1. m \in QueuedMsgs(c) /\ c \in ChannelId
    BY <1>0, ChannelKinds
  <2>2. m \notin app /\ \A d \in ChannelId \ {c} : m \notin QueuedMsgs(d)
    BY <2>1 DEF IInv, Exclusive
  <2>3. m \notin QueuedMsgs(c)'
    BY <1>1
  <2>. QED
    BY <1>3, <2>1, <2>2, <2>3 DEF InQueue
<1>5. \A m \in Msg : (\A c \in ReliableChannels : m \notin AckedMsgs(c, acks))
                     => (InQueue(m)' = InQueue(m))
  <2>. SUFFICES ASSUME NEW m \in Msg, \A c \in ReliableChannels : m \notin AckedMsgs(c, acks)
               PROVE  InQueue(m)' = InQueue(m)
    OBVIOUS
  <2>1. \A c \in ChannelId : (m \in QueuedMsgs(c)') = (m \in QueuedMsgs(c))
    BY <1>1, <1>2, ChannelKinds
  <2>. QED
    BY <2>1 DEF InQueue
<1>6. refCount' = ReleaseAll(refCount, UNION {AckedMsgs(c, acks) : c \in ReliableChannels})
  BY DEF ProcessAcks
<1>7. TypeOK'
  <2>1. \A m \in (UNION {AckedMsgs(c, acks) : c \in ReliableChannels}) \cap Msg : refCount[m] >= 1
    BY <1>4, HeldPositive
  <2>2. refCount' \in [Msg -> Nat]
    BY <1>6, <2>1, ReleaseAllType DEF IInv, TypeOK
  <2>3. sendQueue' \in [ReliableChannels -> SUBSET [id : Nat, msg : created']]
    BY DEF ProcessAcks, IInv, TypeOK
  <2>. QED
    BY <2>2, <2>3 DEF ProcessAcks, IInv, TypeOK
<1>8. Exclusive'
  BY <1>3, ExclusiveShrink DEF ProcessAcks, IInv
<1>9. SlotWindow' /\ IdsUnique'
  BY DEF ProcessAcks, IInv, SlotWindow, IdsUnique
<1>10. RefCounts'
  <2>. SUFFICES ASSUME NEW m \in Msg
                PROVE  refCount'[m] = IF m \in created'
                               THEN (IF m \in app' \/ InQueue(m)' THEN 1 ELSE 0) + orphan'[m]
                               ELSE 0
    BY DEF RefCounts
  <2>1. CASE \E c \in ReliableChannels : m \in AckedMsgs(c, acks)
    <3>1. m \notin app /\ InQueue(m) /\ ~InQueue(m)' /\ m \in created
      BY <1>4, <2>1, HeldPositive
    <3>2. refCount'[m] = refCount[m] - 1
      BY <1>6, <2>1 DEF ReleaseAll
    <3>. QED
      BY <3>1, <3>2 DEF ProcessAcks, IInv, RefCounts, TypeOK
  <2>2. CASE \A c \in ReliableChannels : m \notin AckedMsgs(c, acks)
    <3>1. InQueue(m)' = InQueue(m)
      BY <1>5, <2>2
    <3>2. refCount'[m] = refCount[m]
      BY <1>6, <2>2 DEF ReleaseAll
    <3>. QED
      BY <3>1, <3>2 DEF ProcessAcks, IInv, RefCounts
  <2>. QED
    BY <2>1, <2>2
<1>. QED
  BY <1>7, <1>8, <1>9, <1>10 DEF ProcessAcks, IInv, FifoDistinct, OrphanCreated, FifoBound

LEMMA ResetIInv ==
    ASSUME IInv, Reset
    PROVE  IInv'
<1>1. \A c \in ChannelId : QueuedMsgs(c)' = {}
  <2>. SUFFICES ASSUME NEW c \in ChannelId PROVE QueuedMsgs(c)' = {}
    OBVIOUS
  <2>1. CASE c \in ReliableChannels
    BY <2>1, QueuedRel DEF Reset
  <2>2. CASE c \in UnreliableChannels
    BY <2>2, QueuedUnrel DEF Reset, Elems
  <2>. QED
    BY <2>1, <2>2, ChannelKinds
<1>2. \A m \in Msg : ~InQueue(m)'
  BY <1>1 DEF InQueue
<1>3. refCount' = ReleaseAll(refCount, UNION {QueuedMsgs(c) : c \in ChannelId})
  BY DEF Reset
<1>4. TypeOK'
  <2>1. \A m \in (UNION {QueuedMsgs(c) : c \in ChannelId}) \cap Msg : refCount[m] >= 1
    BY HeldPositive DEF InQueue
  <2>2. refCount' \in [Msg -> Nat]
    BY <1>3, <2>1, ReleaseAllType DEF IInv, TypeOK
  <2>3. fifo' \in [UnreliableChannels -> Seq(created')]
    BY EmptySeq DEF Reset
  <2>4. sentIds' \in [ReliableChannels -> [PacketSeq -> SUBSET created']]
    BY DEF Reset
  <2>. QED
    BY <2>2, <2>3, <2>4 DEF Reset, IInv, TypeOK
<1>5. Exclusive'
  BY <1>1 DEF Exclusive
<1>6. FifoDistinct' /\ FifoBound'
  <2>1. \A c \in UnreliableChannels : fifo'[c] = << >>
    BY DEF Reset
  <2>2. Len(<< >>) = 0 /\ DOMAIN << >> = {}
    OBVIOUS
  <2>. QED
    BY <2>1, <2>2, LiveAssumption DEF FifoBound, FifoDistinct
<1>7. SlotWindow' /\ IdsUnique'
  BY DEF Reset, SlotWindow, IdsUnique
<1>8. RefCounts'
  <2>. SUFFICES ASSUME NEW m \in Msg
                PROVE  refCount'[m] = IF m \in created'
                               THEN (IF m \in app' \/ InQueue(m)' THEN 1 ELSE 0) + orphan'[m]
                               ELSE 0
    BY DEF RefCounts
  <2>1. CASE InQueue(m)
    <3>1. m \notin app /\ m \in created
      BY <2>1, HeldPositive DEF IInv, Exclusive, InQueue
    <3>2. refCount'[m] = refCount[m] - 1
      BY <1>3, <2>1 DEF ReleaseAll, InQueue
    <3>. QED
      BY <1>2, <2>1, <3>1, <3>2 DEF Reset, IInv, RefCounts, TypeOK
  <2>2. CASE ~InQueue(m)
    <3>1. refCount'[m] = refCount[m]
      BY <1>3, <2>2 DEF ReleaseAll, InQueue
    <3>. QED
      BY <1>2, <2>2, <3>1 DEF Reset, IInv, RefCounts
  <2>. QED
    BY <2>1, <2>2
<1>. QED
  BY <1>4, <1>5, <1>6, <1>7, <1>8 DEF Reset, IInv, OrphanCreated

LEMMA NextIInv == IInv /\ [Next]_vars => IInv'
<1>. SUFFICES ASSUME IInv, [Next]_vars PROVE IInv'
  OBVIOUS
<1>1. CASE \E m \in Msg : Create(m) \/ Release(m)
  BY <1>1, CreateIInv, ReleaseIInv
<1>2. CASE \E c \in ReliableChannels, m \in Msg : SendReliable(c, m)
  BY <1>2, SendReliableIInv
<1>3. CASE \E c \in UnreliableChannels, m \in Msg : SendUnreliable(c, m)
  BY <1>3, SendUnreliableIInv
<1>4. CASE \E take \in [ReliableChannels -> SUBSET Msg],
              drain \in [UnreliableChannels -> 0 .. MaxMessagesPerPacket] :
              GeneratePacket(take, drain)
  BY <1>4, GeneratePacketIInv
<1>5. CASE \E acks \in SUBSET (0 .. packetSeq - 1) : acks # {} /\ ProcessAcks(acks)
  BY <1>5, ProcessAcksIInv
<1>6. CASE Reset
  BY <1>6, ResetIInv
<1>7. CASE UNCHANGED vars
  <2>1. \A c \in ChannelId : QueuedMsgs(c)' = QueuedMsgs(c)
    BY <1>7 DEF vars, QueuedMsgs
  <2>2. \A m \in Msg : InQueue(m)' = InQueue(m)
    BY <2>1 DEF InQueue
  <2>. QED
    BY <1>7, <2>1, <2>2
       DEF vars, IInv, TypeOK, Exclusive, FifoDistinct, SlotWindow, IdsUnique,
           RefCounts, OrphanCreated, FifoBound
<1>. QED
  BY <1>1, <1>2, <1>3, <1>4, <1>5, <1>6, <1>7 DEF Next

\* IInv holds in every reachable state.
THEOREM Invariance == Spec => []IInv
BY InitIInv, NextIInv, PTL DEF Spec

-----------------------------------------------------------------------------
(* The properties the runs check, for every instance of the constants.    *)

\* Every state the compiled Connection reaches is well typed: counts are
\* naturals, queues hold created messages, ids and sequences in range.
THEOREM TypeCorrect == Spec => []TypeOK
BY Invariance, PTL DEF IInv

\* Under the invariant, a queued or application-held message is alive.
LEMMA NoUseAfterFreeInv == IInv => NoUseAfterFree
<1>. SUFFICES ASSUME IInv, NEW m \in app \cup UNION {QueuedMsgs(c) : c \in ChannelId}
              PROVE  refCount[m] > 0
  BY DEF NoUseAfterFree
<1>1. m \in Msg /\ (m \in app \/ InQueue(m))
  BY QueuedCreated DEF IInv, TypeOK, InQueue
<1>. QED
  BY <1>1, HeldPositive DEF IInv, TypeOK

\* No message the application or a send queue still holds has been freed,
\* across any interleaving of SendMessage, GeneratePacket, duplicate or
\* late acks, FIFO overflow and Reset.
THEOREM UseAfterFreeNever == Spec => []NoUseAfterFree
BY Invariance, NoUseAfterFreeInv, PTL

\* The count of holders is one exactly when the application or some queue
\* holds the message, since at most one of them does.
LEMMA HoldersExclusive ==
    ASSUME IInv, NEW m \in Msg
    PROVE  Holders(m) = IF m \in app \/ InQueue(m) THEN 1 ELSE 0
<1>. DEFINE Q == {c \in ChannelId : m \in QueuedMsgs(c)}
<1>1. CASE m \in app
  <2>1. Q = {}
    BY <1>1 DEF IInv, Exclusive
  <2>. QED
    BY <1>1, <2>1, FS_EmptySet DEF Holders
<1>2. CASE m \notin app /\ InQueue(m)
  <2>1. PICK c \in ChannelId : m \in QueuedMsgs(c)
    BY <1>2 DEF InQueue
  <2>2. Q = {c}
    BY <2>1 DEF IInv, Exclusive
  <2>3. Cardinality({c}) = 1
    BY FS_Singleton
  <2>. QED
    BY <1>2, <2>2, <2>3 DEF Holders
<1>3. CASE m \notin app /\ ~InQueue(m)
  <2>1. Q = {}
    BY <1>3 DEF InQueue
  <2>. QED
    BY <1>3, <2>1, FS_EmptySet DEF Holders
<1>. QED
  BY <1>1, <1>2, <1>3

\* Reference accounting: each message's refCount is exactly the references
\* held by the application and the send queues plus those GeneratePacket
\* dropped with its packets.
THEOREM RefCountsCorrect == Spec => []RefCountAccounts
<1>1. IInv => RefCountAccounts
  BY HoldersExclusive DEF IInv, RefCounts, RefCountAccounts
<1>. QED
  BY Invariance, <1>1, PTL
=============================================================================
