----------------------------- MODULE MCPort80Nft -----------------------------
(***************************************************************************)
(* Instances of Port80Nft for TLC: one or two aliases and ports.           *)
(***************************************************************************)
EXTENDS Port80NftProps, TLC

CONSTANTS n1, ip1, ip2, http, https

MCOptions(n, aliases, ports) == [name |-> n, aliases |-> aliases, ports |-> ports]

(***************************************************************************)
(* One binding with one alias and two ports.                               *)
(***************************************************************************)
SmallBinding == {MCOptions(n1, {ip1}, {http, https})}

(***************************************************************************)
(* One binding of four rules.                                              *)
(***************************************************************************)
OneBinding == {MCOptions(n1, {ip1, ip2}, {http, https})}

(***************************************************************************)
(* One binding asked for with two different sets of aliases.               *)
(***************************************************************************)
Rebinding == {MCOptions(n1, {ip1}, {http}), MCOptions(n1, {ip1, ip2}, {http})}

ProcSymmetry == Permutations(Proc)

=============================================================================
