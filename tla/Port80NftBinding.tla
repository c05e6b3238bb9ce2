--------------------------- MODULE Port80NftBinding ---------------------------
(***************************************************************************)
(* The Linux backend with the history that makes it a Binding.             *)
(***************************************************************************)
EXTENDS Port80NftProps, Port80Binding

(***************************************************************************)
(* What verifyUp looks at: the aliases, and any rule in the table.         *)
(***************************************************************************)
LegsHold(s) == s.aliases \subseteq alias /\ RulesIn(table[s.name]) # {}

Host(n) ==
  IF file[n] \in State /\ LegsHold(file[n]) THEN "inforce"
  ELSE IF table[n] = NoTable /\ AliasesOf(n) \cap alias = {} THEN "clean"
  ELSE "damaged"

HistSpec == Init /\ HistInit /\ [][Next /\ Remember(Host)]_<<vars, hist>>

=============================================================================
