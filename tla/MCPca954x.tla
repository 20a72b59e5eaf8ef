----------------------------- MODULE MCPca954x ------------------------------
(* Two channels of the multiplexer and one device behind each.              *)
EXTENDS Pca954x
=============================================================================
