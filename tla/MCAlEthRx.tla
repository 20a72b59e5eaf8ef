----------------------------- MODULE MCAlEthRx ------------------------------
(* The receive path on a four-slot ring with two buffers and a reserve of  *)
(* two, the boundary NumRx + Reserve = RingSize: eighteen frames, so that  *)
(* the two-bit ring id goes round once and past the id of the first pass,  *)
(* the first five with every kind of completion.                           *)
EXTENDS AlEthRx
=============================================================================
