---------------------------- MODULE MCUdpReader ----------------------------
(* A stream of a few packets, read by one splitter and loaded twice.       *)
EXTENDS UdpReader

CONSTANTS owner1, thread1

MCClients == {owner1}
MCWorkers == {thread1}
============================================================================
