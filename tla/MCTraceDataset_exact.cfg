\* Two simulations, each of up to two trace files of up to two packets.
SPECIFICATION Spec
CONSTANTS
  Files = {client, ap}
  Packets <- MCPackets
  MaxLength = 2
  MaxRuns = 2
\* The scripts end.
CHECK_DEADLOCK FALSE
INVARIANT DatasetInv
PROPERTY DatasetExact
