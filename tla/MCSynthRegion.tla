--------------------------- MODULE MCSynthRegion ---------------------------
(***************************************************************************)
(* Requests on frames of four samples: bounds before, inside, at and after *)
(* the source, on and off frame boundaries; sources of an odd and an even  *)
(* number of frames, with and without a partial last frame.                *)
(***************************************************************************)
EXTENDS SynthRegion

SmallSrcLen == {12, 14, 16}
SmallStart == {-11, 17} \cup -7 .. 9
SmallEnd == {-1} \cup 0 .. 23
SmallCodes == {<<0>>, <<1>>, <<2, 1>>, <<1, 2>>, <<0, 2>>}
=============================================================================
