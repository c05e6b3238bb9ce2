---------------------------- MODULE Port80Binding ----------------------------
(***************************************************************************)
(* Port80 seen as Binding, one instance per name: the many commands of a   *)
(* call are one step.  A history variable keeps what a caller could see    *)
(* before the call that is running, which takes effect as it returns.      *)
(* (Instances that keep calls on one name apart.)                          *)
(***************************************************************************)
EXTENDS Port80Props

(***************************************************************************)
(* What Binding assumes of its options: they are no mark of a state file.  *)
(***************************************************************************)
ASSUME RecordAssumption == {NoFile, Torn} \cap Options = {}

VARIABLE hist   \* hist[n]: the binding n as Binding sees it

(***************************************************************************)
(* A record without the token, which is the backend's own.                 *)
(***************************************************************************)
Recorded(f) ==
  IF f \in State THEN [name |-> f.name, aliases |-> f.aliases, ports |-> f.ports]
  ELSE f

(***************************************************************************)
(* The call p is in, when it is one on n.                                  *)
(***************************************************************************)
CallOn(n, p) ==
  IF ~Busy(p) \/ call[p].name # n THEN [op |-> "idle"]
  ELSE [op |-> call[p].op,
        opt |-> IF call[p].op = "up" THEN Recorded(st[p]) ELSE NoFile,
        seen |-> hist[n].rec,
        touched |-> p \notin calm,
        mixed |-> FALSE]

HistInit ==
  hist = [n \in Name |->
            [rec |-> NoFile, host |-> "clean",
             ret |-> [p \in Proc |-> "nobinding"]]]

(***************************************************************************)
(* Host(n) is what is there of the binding n, in Binding's terms.          *)
(***************************************************************************)
Remember(Host(_)) ==
  hist' = [n \in Name |->
             IF Working(n)' THEN hist[n]
             ELSE [rec |-> Recorded(file'[n]), host |-> Host(n)',
                   ret |-> [p \in Proc |-> IF call'[p].name = n THEN ret'[p]
                                           ELSE hist[n].ret[p]]]]

B(n) ==
  INSTANCE Binding WITH
    Option <- {o \in Options : o.name = n}, NoRecord <- NoFile,
    RemovalsFail <- {"del", "unload"} \cap Faults # {},
    RememberResults <- TRUE,
    rec <- hist[n].rec, host <- hist[n].host, ret <- hist[n].ret,
    job <- [p \in Proc |-> CallOn(n, p)]

(***************************************************************************)
(* Calls are atomic: each takes effect as a whole when it returns, with    *)
(* the outcomes Binding allows, in whatever order its commands run, fail   *)
(* or are interfered with.                                                 *)
(***************************************************************************)
ImplementsBinding ==
  /\ \A n \in Name : B(n)!BindingInit
  /\ [][\A n \in Name :
          \/ UNCHANGED B(n)!bindingVars
          \/ B(n)!BindingNext]_<<callVars, calm, hist>>

=============================================================================
