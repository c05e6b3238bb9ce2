--------------------------- MODULE Port80PfBinding ---------------------------
(***************************************************************************)
(* The macOS backend with the history that makes it a Binding.             *)
(***************************************************************************)
EXTENDS Port80PfProps, Port80Binding

Host(n) ==
  IF file[n] \in State /\ LegsHold(file[n]) THEN "inforce"
  ELSE IF anchor[n] = {} /\ AliasesOf(n) \cap alias = {} THEN "clean"
  ELSE "damaged"

HistSpec == Init /\ HistInit /\ [][Next /\ Remember(Host)]_<<vars, hist>>

=============================================================================
