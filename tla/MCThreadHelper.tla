--------------------------- MODULE MCThreadHelper ---------------------------
(* The runs of ThreadHelper.  Its own constants bound the threads and the  *)
(* waits.                                                                  *)
EXTENDS ThreadHelper
=============================================================================
