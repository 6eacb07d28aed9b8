----------------------------- MODULE MCAsyncIo -----------------------------
(* The runs of AsyncIo.  Its own constants bound the Processes and reads.  *)
EXTENDS AsyncIo
=============================================================================
