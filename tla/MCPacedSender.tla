--------------------------- MODULE MCPacedSender ---------------------------
(* Instances of PacedSender for TLC. *)
EXTENDS PacedSender

\* One stream: a high, a normal and a low priority packet.  Rates are
\* scaled down so that budgets take few values: a target of 1 kbps at pace
\* 2.5 is a media rate of 2 kbps, 1 byte per 5 ms, 7 bytes per 30 ms and a
\* debt floor of -25 bytes.  The normal packet (30 bytes) is larger than the
\* floor, so sending it hits the floor.
PacketsOneStream ==
    { [ssrc |-> 1, seq |-> 1, prio |-> "high",   bytes |-> 1],
      [ssrc |-> 1, seq |-> 2, prio |-> "normal", bytes |-> 30],
      [ssrc |-> 1, seq |-> 3, prio |-> "low",    bytes |-> 2] }

\* Two normal priority packets of one stream, 3 bytes each: the first
\* leaves the media budget (1 byte) in debt.
PacketsTwoNormal ==
    { [ssrc |-> 1, seq |-> 1, prio |-> "normal", bytes |-> 3],
      [ssrc |-> 1, seq |-> 2, prio |-> "normal", bytes |-> 3] }

\* Two streams whose sequence numbers collide in the normal list.
PacketsTwoStreams ==
    { [ssrc |-> 1, seq |-> 7, prio |-> "normal", bytes |-> 3],
      [ssrc |-> 2, seq |-> 7, prio |-> "normal", bytes |-> 3] }

=============================================================================
