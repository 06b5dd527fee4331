---------------------------- MODULE MCGrpcSearch ----------------------------
(* Bounds for checking GrpcSearch with TLC.  A tick is half a millisecond  *)
(* and RemoteRequestOverhead one tick, so the deadlines left cover: already *)
(* past the overhead (0), less than a millisecond after it (1, 2), and one  *)
(* or two whole milliseconds after it (3, 5).                               *)
EXTENDS GrpcSearch

MCDeadlineLeft == {0, 1, 2, 3, 5}
=============================================================================
