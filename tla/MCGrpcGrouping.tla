--------------------------- MODULE MCGrpcGrouping ---------------------------
(* Two nodes, up to three remote plan pindexes, onlyPIndexes nil or a      *)
(* strict subset that skips the middle pindex.                             *)
EXTENDS GrpcGrouping

CONSTANTS n1, n2

MCNodes == {n1, n2}
MCOnlyChoices == {<<>>, <<{1, 3}>>}
=============================================================================
