--------------------------- MODULE MCPrewarmPool ---------------------------
(* Small instances of PrewarmPool for TLC.  Liveness is checked, so there  *)
(* is no symmetry.                                                         *)
EXTENDS PrewarmPool
=============================================================================
