----------------------------- MODULE MCSession -----------------------------
(* Model values and symmetry for the runs of Session. *)
EXTENDS Session, TLC

Symmetry == Permutations(Conns)

=============================================================================
