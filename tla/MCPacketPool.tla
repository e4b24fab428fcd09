--------------------------- MODULE MCPacketPool ---------------------------
(* Every packet over two PIDs and three counter values, in any order. *)
EXTENDS PacketPool

MCPackets == [pid : PIDs, cc : 0..(CCMod - 1), tei : BOOLEAN,
              hasPayload : BOOLEAN, pusi : BOOLEAN, disc : BOOLEAN]
=============================================================================
