------------------------------ MODULE Binding ------------------------------
(***************************************************************************)
(* What package port80 promises of one binding, whatever the backend.  A   *)
(* call is two steps: it begins by loading the record, and it ends with    *)
(* its whole effect on the record and on the machine.  The modules         *)
(* Port80PfBinding and Port80NftBinding show that both backends implement  *)
(* this as long as calls on one name are kept apart; Keep is built on it.  *)
(*                                                                         *)
(* The machine is seen the way Verify sees it: `inforce` when the legs of  *)
(* the recorded binding hold, `clean` when nothing of it is there.         *)
(***************************************************************************)
CONSTANTS
  Proc,             \* processes that call the package
  Option,           \* what is asked for and recorded
  NoRecord,         \* there is no state file
  Torn,             \* a state file that cannot be parsed
  RemovalsFail,     \* TRUE: a removal may fail and its error be dropped
  RememberResults   \* FALSE: what calls returned is not remembered in ret

ASSUME SentinelAssumption == NoRecord # Torn /\ {NoRecord, Torn} \cap Option = {}

VARIABLES
  rec,    \* the state file
  host,   \* the machine
  job,    \* job[p]: the call p is in
  ret     \* ret[p]: what p's last call returned, if RememberResults

bindingVars == <<rec, host, job, ret>>

Hosts == {"clean", "damaged", "inforce"}
Ops == {"up", "down", "verify", "reassert"}
Results == {"ok", "err", "nobinding", "killed"}

Idle == [op |-> "idle"]

(***************************************************************************)
(* A call: what Up is asked for (else NoRecord), the record it has loaded, *)
(* whether the machine changed under it, whether it overlaps another call. *)
(***************************************************************************)
Call ==
  [op: Ops, opt: Option \cup {NoRecord}, seen: Option \cup {NoRecord, Torn},
   touched: BOOLEAN, mixed: BOOLEAN]

Busy(p) == job[p] # Idle

Begin(p, op, o) ==
  LET overlap == {q \in Proc \ {p} : Busy(q)} IN
  /\ ~Busy(p)
  /\ job' = [q \in Proc |->
       IF q = p THEN [op |-> op, opt |-> o, seen |-> rec, touched |-> FALSE,
                      mixed |-> overlap # {}]
       ELSE IF q \in overlap THEN [job[q] EXCEPT !.mixed = TRUE]
       ELSE job[q]]
  /\ UNCHANGED <<rec, host, ret>>

-----------------------------------------------------------------------------
(* The end of a call that returns r.                                       *)

Finish(p, r) ==
  /\ ret' = IF RememberResults THEN [ret EXCEPT ![p] = r] ELSE ret
  /\ job' = [job EXCEPT ![p] = Idle]

(***************************************************************************)
(* The record becomes one of R, the machine one of H.                      *)
(***************************************************************************)
Settle(R, H) ==
  /\ rec' \in R /\ host' \in H
  /\ host' = "inforce" => rec' \in Option

(***************************************************************************)
(* Others take away, or repair, what is there; they never install any.     *)
(***************************************************************************)
Disturbed == IF host = "clean" THEN {"clean"} ELSE Hosts

Removed(p) ==
  IF job[p].mixed \/ RemovalsFail THEN Hosts ELSE {"clean"}

(***************************************************************************)
(* A call that finds no record, or none it can read, or (Up) that finds    *)
(* one, returns at once; so does every Verify.                             *)
(***************************************************************************)
Unchanged(p) == Settle({rec}, IF job[p].touched THEN Disturbed ELSE {host})

Refusal(p) ==
  LET up == job[p].op = "up"
      seen == job[p].seen
  IN CASE up /\ seen \in Option      -> "err"
       [] ~up /\ seen = NoRecord     -> "nobinding"
       [] ~up /\ seen = Torn         -> "err"
       [] OTHER                      -> "none"

Refuse(p, r) == Busy(p) /\ r = Refusal(p) /\ Unchanged(p) /\ Finish(p, r)

(***************************************************************************)
(* Up and Reassert return nil: the binding o is recorded, and the machine  *)
(* is in H, unless something came between.                                 *)
(***************************************************************************)
Succeed(p, o, H) ==
  Settle(IF job[p].mixed THEN {o, rec, Torn} ELSE {o},
         IF job[p].mixed \/ job[p].touched THEN Hosts ELSE H)

(***************************************************************************)
(* Up does not look at pf's skip flags, which may keep what it installed   *)
(* from being in force.  A failed Up has rolled back; its save may have    *)
(* failed half-way.                                                        *)
(***************************************************************************)
EndUp(p, r) ==
  /\ job[p].op = "up" /\ Refusal(p) = "none"
  /\ \/ r = "ok" /\ Succeed(p, job[p].opt, {"inforce", "damaged"})
     \/ r = "err" /\ Settle({rec, Torn},
          IF host = "clean" THEN Removed(p) ELSE Hosts)
  /\ Finish(p, r)

EndReassert(p, r) ==
  /\ job[p].op = "reassert" /\ Refusal(p) = "none"
  /\ \/ r = "ok" /\ Succeed(p, job[p].seen, {"inforce"})
     \/ r = "err" /\ Settle({rec, Torn}, Hosts)
  /\ Finish(p, r)

(***************************************************************************)
(* Verify returns nil for a binding that is in force, and only then.       *)
(***************************************************************************)
EndVerify(p, r) ==
  /\ job[p].op = "verify" /\ Refusal(p) = "none"
  /\ \/ r = "ok" /\ (host = "inforce" \/ job[p].touched \/ job[p].mixed)
     \/ r = "err"
  /\ Unchanged(p)
  /\ Finish(p, r)

(***************************************************************************)
(* Down removes everything, whatever it reports; only the removal of the   *)
(* record itself may fail.                                                 *)
(***************************************************************************)
EndDown(p, r) ==
  /\ job[p].op = "down" /\ Refusal(p) = "none"
  /\ \/ r \in {"ok", "err"} /\ Settle({NoRecord}, Removed(p))
     \/ r = "err" /\ Settle({rec}, Removed(p))
  /\ Finish(p, r)

End(p, r) ==
  Refuse(p, r) \/ EndUp(p, r) \/ EndReassert(p, r) \/ EndVerify(p, r) \/ EndDown(p, r)

-----------------------------------------------------------------------------
(* What happens to a binding beside the calls.                             *)

Interfere ==
  /\ Settle({rec}, Disturbed)
  /\ job' = [p \in Proc |-> IF Busy(p) THEN [job[p] EXCEPT !.touched = TRUE]
                                       ELSE Idle]
  /\ UNCHANGED ret

(***************************************************************************)
(* The process of a call ends in the middle of it: part of the call is     *)
(* done, and a save may leave a torn record.                               *)
(***************************************************************************)
Kill(p) ==
  /\ Busy(p)
  /\ IF Refusal(p) # "none" \/ job[p].op = "verify" THEN Unchanged(p)
     ELSE Settle(IF job[p].op = "down" THEN {rec} ELSE {rec, Torn}, Hosts)
  /\ Finish(p, "killed")

(***************************************************************************)
(* /var/run is cleared; the processes in `ended` were calling, or had.     *)
(***************************************************************************)
Reboot(ended) ==
  /\ \A p \in Proc : Busy(p) => p \in ended
  /\ rec' = NoRecord
  /\ host' = "clean"
  /\ job' = [p \in Proc |-> Idle]
  /\ ret' = [p \in Proc |-> IF RememberResults /\ p \in ended THEN "killed" ELSE ret[p]]

-----------------------------------------------------------------------------

BindingInit ==
  /\ rec = NoRecord
  /\ host = "clean"
  /\ job = [p \in Proc |-> Idle]
  /\ ret = [p \in Proc |-> "nobinding"]

BindingNext ==
  \/ \E p \in Proc, o \in Option : Begin(p, "up", o)
  \/ \E p \in Proc, op \in Ops \ {"up"} : Begin(p, op, NoRecord)
  \/ \E p \in Proc, r \in Results : End(p, r)
  \/ \E p \in Proc : Kill(p)
  \/ Interfere
  \/ \E ended \in SUBSET Proc : Reboot(ended)

BindingSpec == BindingInit /\ [][BindingNext]_bindingVars

=============================================================================
