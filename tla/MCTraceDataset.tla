--------------------------- MODULE MCTraceDataset ---------------------------
(* Packets and files of TraceDataset for TLC.                              *)
EXTENDS TraceDataset

MCPacket(ip, proto, sport, dport, time) ==
  [ip |-> ip, proto |-> proto, sport |-> sport, dport |-> dport, time |-> time]

\* A download and its acknowledgement in the next window, and a ping.
MCPackets == {
  MCPacket(TRUE, "tcp", 49153, 9004, 4), MCPacket(TRUE, "tcp", 9004, 49153, 5),
  MCPacket(TRUE, "icmp", 0, 0, 4)}

\* A VoIP packet from the server, and one of the supervision.
MCLabelled == {MCPacket(TRUE, "udp", 49153, 9006, 0), MCPacket(TRUE, "udp", 49154, 9011, 0)}
=============================================================================
