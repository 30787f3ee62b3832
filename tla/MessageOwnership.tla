-------------------------- MODULE MessageOwnership --------------------------
(***************************************************************************)
(* What the message layer promises (spec section 3, "Message" and          *)
(* "BlockMessage"), with no reference counts and no pointers:              *)
(*                                                                         *)
(*  - a message is created once, lives while someone holds it, and is     *)
(*    deleted exactly when its last holder lets go;                        *)
(*  - a block buffer is owned by one party at a time: the application,    *)
(*    or the live message it is attached to;                               *)
(*  - deleting a message frees the block it owns; a detached block is     *)
(*    the application's to free.                                           *)
(*                                                                         *)
(* Message (the model of src/yojimbo_message.h) implements this module    *)
(* under a refinement mapping.                                             *)
(***************************************************************************)
EXTENDS Naturals

CONSTANTS Msg, Block

VARIABLES
    status,   \* message -> "unborn" | "live" | "deleted"
    holders,  \* message -> number of references held on it
    owner     \* block -> "none" | "app" | "freed" | the message owning it

vars == <<status, holders, owner>>

Status == {"unborn", "live", "deleted"}
Owner  == {"none", "app", "freed"} \cup Msg

\* The block a message owns, if any.
OwnsBlock(m) == \E b \in Block : owner[b] = m

Init ==
    /\ status = [m \in Msg |-> "unborn"]
    /\ holders = [m \in Msg |-> 0]
    /\ owner = [b \in Block |-> "none"]

New(m) ==
    /\ status[m] = "unborn"
    /\ status' = [status EXCEPT ![m] = "live"]
    /\ holders' = [holders EXCEPT ![m] = 1]
    /\ UNCHANGED owner

Hold(m) ==
    /\ holders[m] > 0
    /\ holders' = [holders EXCEPT ![m] = @ + 1]
    /\ UNCHANGED <<status, owner>>

\* A holder lets go; the last one deletes the message, and with it the
\* block the message owns.
LetGo(m) ==
    /\ holders[m] > 0
    /\ holders' = [holders EXCEPT ![m] = @ - 1]
    /\ IF holders[m] = 1
       THEN /\ status' = [status EXCEPT ![m] = "deleted"]
            /\ owner' = [b \in Block |-> IF owner[b] = m THEN "freed" ELSE owner[b]]
       ELSE UNCHANGED <<status, owner>>

Alloc(b) ==
    /\ owner[b] = "none"
    /\ owner' = [owner EXCEPT ![b] = "app"]
    /\ UNCHANGED <<status, holders>>

Attach(m, b) ==
    /\ holders[m] > 0
    /\ owner[b] = "app"
    /\ ~OwnsBlock(m)
    /\ owner' = [owner EXCEPT ![b] = m]
    /\ UNCHANGED <<status, holders>>

Detach(b) ==
    /\ owner[b] \in Msg
    /\ owner' = [owner EXCEPT ![b] = "app"]
    /\ UNCHANGED <<status, holders>>

Free(b) ==
    /\ owner[b] = "app"
    /\ owner' = [owner EXCEPT ![b] = "freed"]
    /\ UNCHANGED <<status, holders>>

Next ==
    \/ \E m \in Msg : New(m) \/ Hold(m) \/ LetGo(m)
    \/ \E b \in Block : Alloc(b) \/ Detach(b) \/ Free(b)
    \/ \E m \in Msg, b \in Block : Attach(m, b)

Spec == Init /\ [][Next]_vars

=============================================================================
