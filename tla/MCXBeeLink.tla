----------------------------- MODULE MCXBeeLink -----------------------------
(* An instance of XBeeLink for TLC.                                        *)
EXTENDS XBeeLink

(* A delimiter and an escape in the data; an XON; a frame whose tail reads *)
(* as a frame of length zero when its delimiter is lost; one whose data    *)
(* reads as a frame of length one when its length is lost.                 *)
Frames == {<<136, 126, 125>>, <<151, 17>>, <<144, 126, 0, 0, 255, 0>>, <<1, 200, 55>>}
=============================================================================
