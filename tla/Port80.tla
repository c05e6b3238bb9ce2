------------------------------- MODULE Port80 -------------------------------
(***************************************************************************)
(* The platform-independent half of package port80 (port80/port80.go): the *)
(* calls Up, Down, Verify and Reassert as far as they read and write the   *)
(* state file /var/run/dotlocal/<name>.json.  Nothing in the package locks *)
(* anything, so calls made by different root processes interleave between  *)
(* any two system calls.  The backend modules (Port80Pf and Port80Nft)     *)
(* EXTEND this one and add the commands that applyUp, applyDown, verifyUp  *)
(* and reapply run: the aliases start at "alias", the teardown at          *)
(* "teardown", the look at what is there at "has", the save at "save".     *)
(*                                                                         *)
(* Every system call or external command is one step of the calling        *)
(* process; pc[p] names the command p runs next.                           *)
(***************************************************************************)
EXTENDS Naturals

CONSTANTS
  Proc,      \* root processes that call the package (CLI commands, keepers)
  Name,      \* service names
  Alias,     \* alias IPs, each with its interface (type Alias)
  Port,      \* public ports
  Token,     \* pf enable-reference tokens
  Options,   \* the validated Options callers pass to Up
  NoToken,   \* State.PFToken = ""
  NoFile,    \* there is no state file
  Torn,      \* the state file is truncated: json.Unmarshal fails
  NoState,   \* a process that has not loaded or built a State yet
  Faults,    \* kinds of command failure that may happen in this instance
  Serial     \* TRUE: callers never overlap two calls on one name

(***************************************************************************)
(* Options after applyDefaults and validate.  A port stands for a redirect *)
(* (public port, ToPort).                                                  *)
(***************************************************************************)
AllOptions ==
  [name: Name,
   aliases: (SUBSET Alias) \ {{}},
   ports: (SUBSET Port) \ {{}}]

State ==
  [name: Name,
   aliases: (SUBSET Alias) \ {{}},
   ports: (SUBSET Port) \ {{}},
   tok: Token \cup {NoToken}]

FaultKinds ==
  {"add", "del", "unload", "route", "pf", "nft", "parse", "save", "clear", "kill"}

ASSUME OptionsAssumption == Options \subseteq AllOptions

(***************************************************************************)
(* README: a binding gets "its own alias IP"; two services never share one *)
(***************************************************************************)
ASSUME DedicatedAliases ==
  \A o1, o2 \in Options :
     o1.name # o2.name => o1.aliases \cap o2.aliases = {}

ASSUME NameAssumption == Name # {}

ASSUME SentinelAssumption ==
  /\ NoToken \notin Token
  /\ {NoFile, Torn, NoState} \cap State = {}
  /\ NoFile # Torn

ASSUME SwitchAssumption == Faults \subseteq FaultKinds /\ Serial \in BOOLEAN

VARIABLES
  file,   \* file[n]: what loadState(n) would find
  pc,     \* pc[p]: the next command of p, "idle" outside a call
  call,   \* call[p]: the operation and name of p's current or last call
  st,     \* st[p]: the *State p holds
  todo,   \* todo[p]: aliases the loop p is in has still to visit
  fd,     \* processes whose open descriptor is the current state file
  ret,    \* ret[p]: the error p's call has noted so far
  calm    \* history: processes whose binding nobody else has touched
          \* since they entered their current or last call

callVars == <<file, pc, call, st, todo, fd, ret>>

Ops == {"up", "down", "verify", "reassert"}
Results == {"ok", "err", "nobinding", "killed"}

Busy(p) == pc[p] # "idle"

(***************************************************************************)
(* The next iteration of `for _, a := range s.Aliases`: some fixed order.  *)
(***************************************************************************)
Cur(p) == CHOOSE a \in todo[p] : TRUE

Goto(p, label) == pc' = [pc EXCEPT ![p] = label]

Loop(p, set) == todo' = [todo EXCEPT ![p] = set]

Note(p, e) == ret' = [ret EXCEPT ![p] = e]

\* Mutant: the loop ends with its first iteration.
EndPassBreaks(p, head, after) == Loop(p, {}) /\ Goto(p, after)

(***************************************************************************)
(* One pass of a loop is over; `after` follows the last one.               *)
(***************************************************************************)
EndPass(p, head, after) ==
  /\ Loop(p, todo[p] \ {Cur(p)})
  /\ Goto(p, IF todo[p] = {Cur(p)} THEN after ELSE head)

(***************************************************************************)
(* The aliases the callers of this instance ask for under a name.          *)
(***************************************************************************)
AliasesOf(n) == UNION {o.aliases : o \in {x \in Options : x.name = n}}

CallInit ==
  /\ file = [n \in Name |-> NoFile]
  /\ pc = [p \in Proc |-> "idle"]
  /\ call = [p \in Proc |-> [op |-> "verify", name |-> CHOOSE n \in Name : TRUE]]
  /\ st = [p \in Proc |-> NoState]
  /\ todo = [p \in Proc |-> {}]
  /\ fd = {}
  /\ ret = [p \in Proc |-> "nobinding"]

-----------------------------------------------------------------------------
(* Entering a call.                                                        *)

Begin(p, op, n, s) ==
  /\ ~Busy(p)
  /\ Serial => \A q \in Proc : Busy(q) => call[q].name # n
  /\ call' = [call EXCEPT ![p] = [op |-> op, name |-> n]]
  /\ st' = [st EXCEPT ![p] = s]
  /\ Note(p, "ok")
  /\ Loop(p, {})
  /\ Goto(p, "load")
  /\ UNCHANGED <<file, fd>>

Up(p, o) ==
  Begin(p, "up", o.name, [name |-> o.name, aliases |-> o.aliases,
                          ports |-> o.ports, tok |-> NoToken])

Down(p, n) == Begin(p, "down", n, NoState)

Verify(p, n) == Begin(p, "verify", n, NoState)

Reassert(p, n) == Begin(p, "reassert", n, NoState)

-----------------------------------------------------------------------------
(* loadState and what each caller does with the result.                    *)

(***************************************************************************)
(* Up refuses to run over a record it can read; `existing, _ := loadState` *)
(* drops the error, so a torn file does not stop it.                       *)
(***************************************************************************)
LoadForUp(p) ==
  /\ pc[p] = "load" /\ call[p].op = "up"
  /\ \/ /\ file[call[p].name] \in State
        /\ Note(p, "err")
        /\ Goto(p, "idle")
        /\ UNCHANGED todo
     \/ /\ file[call[p].name] \notin State
        /\ Loop(p, st[p].aliases)
        /\ Goto(p, "alias")
        /\ UNCHANGED ret
  /\ UNCHANGED <<file, call, st, fd>>

LoadRecord(p) ==
  LET f == file[call[p].name] IN
  /\ pc[p] = "load" /\ call[p].op # "up"
  /\ \/ /\ f = NoFile
        /\ Note(p, "nobinding")
        /\ Goto(p, "idle")
        /\ UNCHANGED <<st, todo>>
     \/ /\ f = Torn
        /\ Note(p, "err")
        /\ Goto(p, "idle")
        /\ UNCHANGED <<st, todo>>
     \/ /\ f \in State
        /\ st' = [st EXCEPT ![p] = f]
        /\ Loop(p, f.aliases)
        /\ Goto(p, IF call[p].op = "down" THEN "teardown" ELSE "has")
        /\ UNCHANGED ret
  /\ UNCHANGED <<file, call, fd>>

-----------------------------------------------------------------------------
(* saveState and clearState.                                               *)

\* Mutant: Up reports the failed save and rolls nothing back.
SaveFailedNoRollback(p) ==
  /\ "save" \in Faults
  /\ Note(p, "err")
  /\ Goto(p, "idle")
  /\ UNCHANGED <<call, st, todo>>

(***************************************************************************)
(* A failed save makes Up run applyDown, and Reassert return the error.    *)
(***************************************************************************)
SaveFailed(p) ==
  /\ "save" \in Faults
  /\ Note(p, "err")
  /\ IF call[p].op = "up" THEN Goto(p, "teardown") ELSE Goto(p, "idle")
  /\ UNCHANGED <<call, st, todo>>

(***************************************************************************)
(* os.WriteFile opens with O_TRUNC and then writes: two steps, either of   *)
(* which can fail.  MkdirAll and MarshalIndent fail like the open.         *)
(***************************************************************************)
SaveTruncate(p) ==
  /\ pc[p] = "save"
  /\ \/ /\ file' = [file EXCEPT ![call[p].name] = Torn]
        /\ fd' = fd \cup {p}
        /\ Goto(p, "write")
        /\ UNCHANGED <<call, st, todo, ret>>
     \/ SaveFailed(p) /\ UNCHANGED <<file, fd>>

\* Mutant: the record is taken before the enable token is known.
WrittenWithoutToken(p) == {[st[p] EXCEPT !.tok = NoToken]}

(***************************************************************************)
(* The write goes to the file p opened.  If another call has unlinked that *)
(* file it is lost; if another writer got there first, its longer record   *)
(* may stick out behind p's.  A write that fails may have begun.           *)
(***************************************************************************)
Written(p) ==
  IF p \notin fd THEN {file[call[p].name]}
  ELSE {st[p]} \cup (IF file[call[p].name] \in {Torn, st[p]} THEN {} ELSE {Torn})

SaveWrite(p) ==
  /\ pc[p] = "write"
  /\ \/ /\ \E f \in Written(p) : file' = [file EXCEPT ![call[p].name] = f]
        /\ Goto(p, "idle")
        /\ UNCHANGED <<call, st, todo, ret>>
     \/ /\ \E f \in {file[call[p].name]} \cup (IF p \in fd THEN {Torn} ELSE {}) :
             file' = [file EXCEPT ![call[p].name] = f]
        /\ SaveFailed(p)
  /\ fd' = fd \ {p}

\* Mutant: a teardown that noted an error returns before clearing the record.
ClearStateIfClean(p) ==
  /\ pc[p] = "clear"
  /\ file' = [file EXCEPT ![call[p].name] = IF ret[p] = "ok" THEN NoFile ELSE @]
  /\ Goto(p, "idle")
  /\ UNCHANGED <<call, st, todo, fd, ret>>

(***************************************************************************)
(* Down clears the record whatever applyDown reported.                     *)
(***************************************************************************)
ClearState(p) ==
  /\ pc[p] = "clear"
  /\ \/ /\ file' = [file EXCEPT ![call[p].name] = NoFile]
        /\ fd' = {q \in fd : call[q].name # call[p].name}
        /\ UNCHANGED ret
     \/ /\ "clear" \in Faults
        /\ Note(p, "err")
        /\ UNCHANGED <<file, fd>>
  /\ Goto(p, "idle")
  /\ UNCHANGED <<call, st, todo>>

-----------------------------------------------------------------------------
(***************************************************************************)
(* up, down and the start-up of keep install no signal handler: an         *)
(* interrupt ends the process between any two commands.                    *)
(***************************************************************************)
Kill(p) ==
  /\ "kill" \in Faults
  /\ Busy(p)
  /\ Note(p, "killed")
  /\ Goto(p, "idle")
  /\ st' = [st EXCEPT ![p] = NoState]
  /\ Loop(p, {})
  /\ fd' = fd \ {p}
  /\ UNCHANGED <<file, call>>

(***************************************************************************)
(* /var/run is cleared and every process ends on a reboot.                 *)
(***************************************************************************)
RebootCalls ==
  /\ file' = [n \in Name |-> NoFile]
  /\ pc' = [p \in Proc |-> "idle"]
  /\ st' = [p \in Proc |-> NoState]
  /\ todo' = [p \in Proc |-> {}]
  /\ fd' = {}
  /\ ret' = [p \in Proc |-> "killed"]
  /\ UNCHANGED call

=============================================================================
