--------------------------- MODULE SequenceBuffer ---------------------------
(***************************************************************************)
(* The SequenceBuffer<T> the connection keeps its sent and received       *)
(* packet records in (spec section 3, "SequenceBuffer"), and the 16-bit   *)
(* sequence arithmetic of spec section 9.  The buffer's code is not under *)
(* src/: these operators are written from the spec.                       *)
(*                                                                         *)
(* A buffer is a record                                                    *)
(*   [sequence |-> next sequence to insert (newest inserted + 1),          *)
(*    entry    |-> slot -> sequence stored in that slot, or Empty]         *)
(* indexed by  sequence % BufferSize, as entries are looked up by index    *)
(* and confirmed by comparing the stored sequence.  Per-entry data (the   *)
(* "acked" flag of a sent packet) is kept beside it by the user.          *)
(***************************************************************************)
EXTENDS Naturals

CONSTANTS
    SeqModulus,   \* 2^16: sequence numbers are uint16_t
    BufferSize    \* ConnectionConfig.slidingWindowSize

\* 65536 % slidingWindowSize == 0 is asserted by the Connection constructor;
\* a window below half the sequence space keeps a fresh buffer from
\* calling sequence 0 stale, and "newer" unambiguous.
ASSUME SequenceAssumption ==
    /\ SeqModulus \in Nat \ {0}
    /\ BufferSize \in Nat \ {0}
    /\ SeqModulus % BufferSize = 0
    /\ 2 * BufferSize < SeqModulus

SeqNum == 0 .. SeqModulus - 1
Slot   == 0 .. BufferSize - 1

\* The value of an empty slot (0xFFFFFFFF in the buffer's entry array).
Empty == SeqModulus

\* Fault variant of SeqSub: the difference taken in int, not uint16_t.
SeqSubInt(a, b) == a + SeqModulus - (b % SeqModulus)

\* uint16_t addition and subtraction.
SeqAdd(a, b) == (a + b) % SeqModulus
SeqSub(a, b) == (a + SeqModulus - (b % SeqModulus)) % SeqModulus

\* sequence_greater_than / sequence_less_than of spec section 9.
SequenceGreaterThan(s1, s2) ==
    \/ s1 > s2 /\ s1 - s2 <= SeqModulus \div 2
    \/ s1 < s2 /\ s2 - s1 > SeqModulus \div 2

SequenceLessThan(s1, s2) == SequenceGreaterThan(s2, s1)

BufferType == [sequence : SeqNum, entry : [Slot -> SeqNum \cup {Empty}]]

\* SequenceBuffer::Reset: sequence 0, every slot empty.
EmptyBuffer == [sequence |-> 0, entry |-> [i \in Slot |-> Empty]]

\* SequenceBuffer::Find: the slot of s holds s.
Find(b, s) == b.entry[s % BufferSize] = s

\* Insert fails for a sequence older than the window below b.sequence.
IsStale(b, s) == SequenceLessThan(s, SeqSub(b.sequence, BufferSize))

\* The slots that RemoveEntries(start, finish) empties: those of every
\* sequence from start to finish, or all of them when that span is a
\* whole window or more.
RemovedSlots(start, finish) ==
    IF SeqSub(finish, start) >= BufferSize THEN Slot
    ELSE {SeqAdd(start, k) % BufferSize : k \in 0 .. SeqSub(finish, start)}

\* SequenceBuffer::Insert(s) on a sequence that is not stale: a newer s
\* empties the slots between the old newest and s and moves the window,
\* then s is written into its slot.
Insert(b, s) ==
    LET advance == SequenceGreaterThan(SeqAdd(s, 1), b.sequence)
        gone    == IF advance THEN RemovedSlots(b.sequence, s) ELSE {}
    IN  [sequence |-> IF advance THEN SeqAdd(s, 1) ELSE b.sequence,
         entry    |-> [i \in Slot |->
                         IF i = s % BufferSize THEN s
                         ELSE IF i \in gone THEN Empty
                         ELSE b.entry[i]]]

=============================================================================
