----------------------------- MODULE MCPort80Pf -----------------------------
(***************************************************************************)
(* Instances of Port80Pf for TLC: a LAN alias on en0, a loopback alias.    *)
(***************************************************************************)
EXTENDS Port80PfProps, TLC

CONSTANTS n1, lanIP, loIP, http, en0, lo0

MCIfaceOf == [a \in Alias |-> IF a = lanIP THEN en0 ELSE lo0]

MCOptions(n, aliases) == [name |-> n, aliases |-> aliases, ports |-> {http}]

(***************************************************************************)
(* One binding with an alias on each kind of interface.                    *)
(***************************************************************************)
OneBinding == {MCOptions(n1, {lanIP, loIP})}

(***************************************************************************)
(* One binding with a single alias, on the LAN.                            *)
(***************************************************************************)
LanBinding == {MCOptions(n1, {lanIP})}

TokenSymmetry == Permutations(Token)

ProcSymmetry == Permutations(Proc)

ProcTokenSymmetry == TokenSymmetry \cup ProcSymmetry

=============================================================================
