------------------------- MODULE MCPort80NftBinding -------------------------
(***************************************************************************)
(* The instances of MCPort80Nft for the runs that check the refinement.    *)
(***************************************************************************)
EXTENDS MCPort80Nft, Port80NftBinding

=============================================================================
