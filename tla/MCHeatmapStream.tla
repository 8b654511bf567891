--------------------------- MODULE MCHeatmapStream ---------------------------
(***************************************************************************)
(* HeatmapStream for TLC: videos of no frame, of one (every frame is asked *)
(* about, or passed, in turns), of two (the same frame is always asked     *)
(* about) and of three and four frames, each from a source that can be set *)
(* back and from one that cannot, and the program's three attempts.        *)
(***************************************************************************)
EXTENDS HeatmapStream
=============================================================================
