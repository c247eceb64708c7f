---------------------------- MODULE MCSerialPort ----------------------------
(* Packets of one and of two data bytes and an LED command.  The start       *)
(* character is 2, so that it is also the length of the second packet, as    *)
(* 170 data bytes make the length 0xAA; taken for a length it fits the       *)
(* buffer, as 170 does.                                                      *)
EXTENDS SerialPort

Id == 1

PacketOne == <<START, Id, 1, 21, 21, 3>>
PacketTwo == <<START, Id, 2, 22, 22, 3, 4>>
TwoPackets == {PacketOne, PacketTwo}
OneLed == {<<5, 3, 3, 6>>}
=============================================================================
