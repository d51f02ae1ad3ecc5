--------------------------- MODULE PacerAbstract ---------------------------
(***************************************************************************)
(* What the paced sender promises its producer, with no budgets, lists or *)
(* clock: every packet handed to SendPacket is either sent at once,        *)
(* accepted into the set of pending packets, or dropped because the same  *)
(* (ssrc, sequence number) is already pending; a pending packet leaves the *)
(* set only by reaching the transport, and then exactly once.             *)
(*                                                                         *)
(* handed is the sequence of SendPacket arguments, pending the ids (call  *)
(* numbers) not yet sent, wire the ids in the order they were sent.       *)
(***************************************************************************)
EXTENDS Naturals, Sequences, SequencesExt

CONSTANTS Packets, MaxHandovers

VARIABLES handed, pending, wire

avars == <<handed, pending, wire>>

Key(p) == <<p.ssrc, p.seq>>

AInit == handed = <<>> /\ pending = {} /\ wire = <<>>

\* One SendPacket call, id = Len(handed) + 1.
Offer(p, outcome) ==
    LET id == Len(handed) + 1
    IN  /\ Len(handed) < MaxHandovers
        /\ handed' = Append(handed, p)
        /\ \/ outcome = "queued" /\ pending' = pending \cup {id} /\ wire' = wire
           \/ outcome = "sent" /\ wire' = Append(wire, id) /\ pending' = pending
           \/ /\ outcome = "dropped"
              /\ \E q \in pending : Key(handed[q]) = Key(p)
              /\ UNCHANGED <<pending, wire>>

\* A pending packet reaches the transport.
Deliver(id) ==
    /\ id \in pending
    /\ pending' = pending \ {id}
    /\ wire' = Append(wire, id)
    /\ UNCHANGED handed

ANext ==
    \/ \E p \in Packets, o \in {"queued", "sent", "dropped"} : Offer(p, o)
    \/ \E id \in pending : Deliver(id)

ASpec == AInit /\ [][ANext]_avars

=============================================================================
