--------------------------- MODULE MCFrameAssembly ---------------------------
(* Pictures of one, two and three chunks in a buffer that holds two and a   *)
(* half: one that fits, one with a last chunk of a single byte, one with    *)
(* data that looks like an "ok", and one too large for the buffer.          *)
EXTENDS FrameAssembly

MCKinds == {<<"full">>, <<"full", "full">>, <<"full", "tiny">>, <<"full", "okay">>,
            <<"full", "full", "full">>}
SmallKinds == {<<"full">>, <<"full", "full">>}
=============================================================================
