---------------------------- MODULE MCFrameFlags ----------------------------
(* Four small memories, in bytes, with two bytes to a page. *)
EXTENDS FrameFlags

\* The second segment of the first ends in the middle of a frame; the second
\* starts all its segments at the first byte of a frame and ends the third in
\* the middle of one.  The third has four frames and the beginning of a fifth,
\* whose index pushes another out of the picture; the fourth has frame 0.
MCLayouts == {
  << <<2, 3>>, <<6, 8>>, <<16, 23>> >>,
  << <<2, 5>>, <<8, 9>>, <<16, 24>> >>,
  << <<2, 4>>, <<6, 7>>, <<8, 11>> >>,
  << <<0, 3>>, <<4, 5>>, <<8, 9>> >> }
=============================================================================
