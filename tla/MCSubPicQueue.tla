--------------------------- MODULE MCSubPicQueue ---------------------------
(* Subtitle lines for the run of SubPicQueue: two lines of text of the     *)
(* stream that overlap, or two pictures of it that follow one another, and *)
(* one long animated line of a file.                                       *)
EXTENDS SubPicQueue

MCStreamLines == {<<0, 2>>, <<1, 3>>}
MCPictureLines == {<<0, 1>>, <<1, 3>>}
MCFileLines == {<<0, 3>>}
=============================================================================
