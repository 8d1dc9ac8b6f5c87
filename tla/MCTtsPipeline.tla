--------------------------- MODULE MCTtsPipeline ---------------------------
(* Three answers, so that one can arrive while another waits and a third   *)
(* is being spoken; four pieces and two frames in each, so that a request  *)
(* has several pieces and a piece several frames.                          *)
EXTENDS TtsPipeline

MCMaxAnswers == 3
MCMaxChunks == 4
MCMaxFrames == 2
=============================================================================
