---------------------------- MODULE MCMeterEngine ----------------------------
(***************************************************************************)
(* Packets and constants for model-checking MeterEngine.                   *)
(***************************************************************************)
EXTENDS MeterEngine, TLC

Packet(teid, bytes, dir) ==
  [teid |-> teid, bytes |-> bytes, control |-> FALSE, hasQfi |-> FALSE, qfi |-> 0, dir |-> dir]
Echo == [Packet(0, 0, "unknown") EXCEPT !.control = TRUE]
QfiPacket(teid, qfi) == [Packet(teid, 1, "ul") EXCEPT !.hasQfi = TRUE, !.qfi = qfi]

\* Nothing tells one IMSI from another.
ImsiSymmetry == Permutations(Imsis)

\* Two tunnels, for sessions that come, move and go.
SessionEvents == {Packet(1, 1, "unknown"), Packet(2, 2, "ul")}

\* Tunnels without a session, TEID 0 among them, for learning, and three QFIs
\* beside a rating group, for three slots.
LearnEvents == {Echo, Packet(0, 1, "dl"), Packet(2, 1, "unknown")} \cup {QfiPacket(1, q) : q \in 1 .. 3}
=============================================================================
