---------------------------- MODULE MCCamThread ----------------------------
(* Two clients, two thread objects and a handful of calls of CamThread.    *)
EXTENDS CamThread

CONSTANTS c1, c2, w1, w2

MCClients == {c1, c2}
MCWorkers == {w1, w2}
=============================================================================
