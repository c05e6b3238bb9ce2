----------------------------- MODULE Port80Props -----------------------------
(***************************************************************************)
(* What the properties of both backends share.                             *)
(***************************************************************************)
EXTENDS Port80

(***************************************************************************)
(* p's last call returned r, and nobody else has touched its binding since *)
(* the call began.                                                         *)
(***************************************************************************)
Returned(p, op, r) ==
  p \in calm /\ ~Busy(p) /\ call[p].op = op /\ ret[p] = r

(***************************************************************************)
(* A step of p's call, other than the end of its process.                  *)
(***************************************************************************)
Steps(p) == <<pc[p], todo[p]>>' # <<pc[p], todo[p]>> /\ ret'[p] # "killed"

Working(n) == \E p \in Proc : Busy(p) /\ call[p].name = n

(***************************************************************************)
(* Down never leaves a record behind because a step of the teardown        *)
(* failed: it clears the file whatever applyDown reports, so that the next *)
(* Up is not refused.  ("clear" \notin Faults; "del" and "unload" fail.)   *)
(***************************************************************************)
DownUnblocks ==
  \A p \in Proc :
     p \in calm /\ ~Busy(p) /\ call[p].op = "down" /\ st[p] \in State
        => file[call[p].name] = NoFile

==============================================================================
