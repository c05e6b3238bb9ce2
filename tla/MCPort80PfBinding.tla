-------------------------- MODULE MCPort80PfBinding --------------------------
(***************************************************************************)
(* The instances of MCPort80Pf for the runs that check the refinement.     *)
(***************************************************************************)
EXTENDS MCPort80Pf, Port80PfBinding

=============================================================================
