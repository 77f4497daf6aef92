------------------------------ MODULE MCStrand ------------------------------
(* A strand, three jobs, every order of their calls: see MCStrand.cfg.     *)
EXTENDS Strand
=============================================================================
