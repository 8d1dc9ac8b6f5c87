----------------------------- MODULE MCMp3Ring -----------------------------
(* The ring of Mp3Ring, small: 9 bytes, headers of 2, pieces of up to 4    *)
(* and frames of 4 or 5 bytes, the largest that fit with such a piece.     *)
(* Neither size divides the ring, so that frames wrap behind their header, *)
(* inside it and right after it (starts 6, 8 and 7).                       *)
EXTENDS Mp3Ring, Mp3Header

(* The tables, evaluated header by header.                                 *)
ASSUME Tables == SizesAreFrames /\ SpeechFits /\ SpeechOnly /\ NoOverflow

MCRingLen == 9
MCHeadLen == 2
MCMaxChunk == 4
MCFrameSizes == {4, 5}
MCGarbage == {0, 1, 4, 10}
MCMaxWritten == 22
=============================================================================
