------------------------------ MODULE MCRegion ------------------------------
(* Region on a small address space, where a segment has room for a block    *)
(* or none and a region grows to three segments.                            *)
EXTENDS Region
=============================================================================
