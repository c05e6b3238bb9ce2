------------------------- MODULE Port80BindingProofs -------------------------
(***************************************************************************)
(* What the refinement proofs of both backends share: how the history      *)
(* keeps up with a call, and which step of Binding a step of a call is.    *)
(* All of it is about callers that keep calls on one name apart.           *)
(***************************************************************************)
EXTENDS Port80Binding, Port80Proofs

(***************************************************************************)
(* The options that are asked for under one name differ in ports only.     *)
(***************************************************************************)
SameAliases ==
  \A o1, o2 \in Options : o1.name = o2.name => o1.aliases = o2.aliases

OptionsOf(n) == {o \in Options : o.name = n}

RemovalsWork == Faults \cap {"del", "unload"} = {}

(***************************************************************************)
(* The variables of Port80 without the labels, which are the backend's.    *)
(***************************************************************************)
CallTyped ==
  /\ file \in [Name -> State \cup {NoFile, Torn}]
  /\ pc = [p \in Proc |-> pc[p]]
  /\ call \in [Proc -> [op: Ops, name: Name]]
  /\ st \in [Proc -> State \cup {NoState}]
  /\ ret \in [Proc -> Results]
  /\ calm \subseteq Proc

(***************************************************************************)
(* Records and calls hold options that a caller has asked for.             *)
(***************************************************************************)
AskedFor ==
  /\ \A n \in Name : file[n] \in State => Recorded(file[n]) \in OptionsOf(n)
  /\ \A p \in Proc : st[p] \in State => Recorded(st[p]) \in OptionsOf(CallName(p))

HistTyped ==
  \A n \in Name :
    /\ hist[n].rec \in OptionsOf(n) \cup {NoFile, Torn}
    /\ hist[n].host \in {"clean", "damaged", "inforce"}
    /\ hist[n].host = "inforce" => hist[n].rec \in OptionsOf(n)
    /\ hist[n].ret \in [Proc -> Results]

(***************************************************************************)
(* The history of a name nobody works on is up to date.                    *)
(***************************************************************************)
SeenAtRest(n) ==
  /\ hist[n].rec = Recorded(file[n])
  /\ \A p \in Proc : CallName(p) = n => hist[n].ret[p] = ret[p]

(***************************************************************************)
(* The commands that follow a failure of Up.                               *)
(***************************************************************************)
RollBack == {"untable", "undo", "unload", "teardown", "release", "del", "unroute"}

(***************************************************************************)
(* During a call the record is the one it has found, or torn by its save.  *)
(***************************************************************************)
SeenDuring(p) ==
  LET n == CallName(p)
      op == call[p].op
      h == hist[n]
  IN
  /\ \A q \in Proc \ {p} : CallName(q) = n => h.ret[q] = ret[q]
  /\ \/ Recorded(file[n]) = h.rec
     \/ file[n] = Torn /\ op \in {"up", "reassert"} /\ pc[p] # "load"
  /\ pc[p] # "load" /\ op = "up" => h.rec \notin OptionsOf(n)
  /\ pc[p] # "load" /\ op # "up" => st[p] \in State /\ Recorded(st[p]) = h.rec
  /\ pc[p] = "write" => file[n] = Torn /\ p \in fd
  /\ IF op = "down" THEN ret[p] \in {"ok", "err"}
     ELSE ret[p] = IF pc[p] \in RollBack THEN "err" ELSE "ok"

(***************************************************************************)
(* Only Up and Reassert save, and only Down clears the record.             *)
(***************************************************************************)
RecordTrack(p) ==
  /\ pc[p] \in {"save", "write"} => call[p].op \in {"up", "reassert"}
  /\ pc[p] = "clear" => call[p].op = "down"

-----------------------------------------------------------------------------
(* Records.                                                                *)

LEMMA RecordedFile ==
  ASSUME CallTyped, AskedFor, NEW n \in Name
  PROVE  /\ Recorded(file[n]) \in OptionsOf(n) \cup {NoFile, Torn}
         /\ file[n] \in State <=> Recorded(file[n]) \in OptionsOf(n)
         /\ Recorded(file[n]) = NoFile <=> file[n] = NoFile
         /\ Recorded(file[n]) = Torn <=> file[n] = Torn
<1>1. file[n] \in State \cup {NoFile, Torn}
  BY DEF CallTyped
<1>2. {NoFile, Torn} \cap OptionsOf(n) = {} /\ NoFile # Torn /\ {NoFile, Torn} \cap State = {}
  BY RecordAssumption, SentinelAssumption DEF OptionsOf
<1>3. CASE file[n] \in State
  BY <1>2, <1>3 DEF AskedFor
<1>4. CASE file[n] \notin State
  BY <1>1, <1>2, <1>4 DEF Recorded
<1> QED BY <1>3, <1>4

LEMMA RecordedOption ==
  ASSUME NEW o \in Options
  PROVE  Recorded([name |-> o.name, aliases |-> o.aliases,
                   ports |-> o.ports, tok |-> NoToken]) = o
<1>1. o = [name |-> o.name, aliases |-> o.aliases, ports |-> o.ports]
  BY OptionsAssumption DEF AllOptions
<1> QED BY <1>1, OptionsState DEF Recorded

-----------------------------------------------------------------------------
(* Steps of Binding.                                                       *)

(***************************************************************************)
(* A job of Binding.                                                       *)
(***************************************************************************)
Job(op, opt, seen, touched, mixed) ==
  [op |-> op, opt |-> opt, seen |-> seen, touched |-> touched, mixed |-> mixed]

LEMMA JobTouched ==
  ASSUME NEW op, NEW opt, NEW seen, NEW before, NEW after,
         before = Job(op, opt, seen, FALSE, FALSE),
         after = Job(op, opt, seen, TRUE, FALSE)
  PROVE  after = [before EXCEPT !.touched = TRUE]
<1>1. ASSUME NEW t, NEW u, NEW m
      PROVE  [Job(op, opt, seen, t, m) EXCEPT !.touched = u] = Job(op, opt, seen, u, m)
  BY DEF Job
<1>2. ASSUME NEW yes, NEW no
      PROVE  yes = TRUE /\ no = FALSE => after = [before EXCEPT !.touched = TRUE]
  <2>1. [Job(op, opt, seen, no, no) EXCEPT !.touched = yes] = Job(op, opt, seen, yes, no)
    BY <1>1
  <2> QED BY <2>1, Zenon
<1> QED BY <1>2, Zenon

(***************************************************************************)
(* A step within a call, or on another name, which n does not show.        *)
(***************************************************************************)
LEMMA NothingSeen ==
  ASSUME NEW n \in Name, hist'[n] = hist[n],
         \A q \in Proc : CallOn(n, q)' = CallOn(n, q)
  PROVE  UNCHANGED B(n)!bindingVars
  BY DEF B!bindingVars

(***************************************************************************)
(* Nobody works on n: the machine may change under it.                     *)
(***************************************************************************)
LEMMA MovedAtRest ==
  ASSUME HistTyped', NEW n \in Name,
         \A q \in Proc : CallOn(n, q) = [op |-> "idle"] /\ CallOn(n, q)' = [op |-> "idle"],
         hist'[n].rec = hist[n].rec, hist'[n].ret = hist[n].ret,
         hist[n].host = "clean" => hist'[n].host = "clean"
  PROVE  B(n)!Interfere
  BY DEF B!Interfere, B!Settle, B!Disturbed, B!Hosts, B!Busy, B!Idle, HistTyped, OptionsOf

(***************************************************************************)
(* The machine changes under the call of p, which is no longer calm.       *)
(***************************************************************************)
LEMMA MovedDuring ==
  ASSUME HistTyped, NEW n \in Name, hist'[n] = hist[n], NEW p \in Proc,
         \A q \in Proc \ {p} : CallOn(n, q) = [op |-> "idle"] /\ CallOn(n, q)' = [op |-> "idle"],
         CallOn(n, p) # [op |-> "idle"],
         CallOn(n, p)' = [CallOn(n, p) EXCEPT !.touched = TRUE]
  PROVE  B(n)!Interfere
  BY DEF B!Interfere, B!Settle, B!Disturbed, B!Hosts, B!Busy, B!Idle, HistTyped, OptionsOf


-----------------------------------------------------------------------------
(* A call begins.                                                          *)

LEMMA CallBegins ==
  ASSUME CallTyped, CallTyped', NEW n \in Name, hist'[n] = hist[n], NEW p \in Proc,
         \A q \in Proc \ {p} : CallOn(n, q) = [op |-> "idle"] /\ CallOn(n, q)' = [op |-> "idle"],
         ~Busy(p), Busy(p)', call'[p].name = n, p \in calm',
         call'[p].op = "up" => Recorded(st'[p]) \in OptionsOf(n)
  PROVE  B(n)!BindingNext
<1> DEFINE op == call'[p].op
           o == IF op = "up" THEN Recorded(st'[p]) ELSE NoFile
<1>1. op \in {"up", "down", "verify", "reassert"}
  BY DEF CallTyped, Ops
<1>2. CallOn(n, p) = [op |-> "idle"]
  BY DEF CallOn
<1>3. CallOn(n, p)' = [op |-> op, opt |-> o, seen |-> hist[n].rec,
                       touched |-> FALSE, mixed |-> FALSE]
  BY DEF CallOn
<1>4. B(n)!Begin(p, op, o)
  <2>1. {q \in Proc \ {p} : B(n)!Busy(q)} = {}
    BY DEF B!Busy, B!Idle
  <2> HIDE DEF op, o
  <2> QED BY <1>2, <1>3, <2>1 DEF B!Begin, B!Busy, B!Idle
<1> HIDE DEF op, o
<1>5. op = "up" => o \in OptionsOf(n)
  BY DEF op, o
<1>6. op # "up" => o = NoFile
  BY DEF op, o
<1> QED BY <1>1, <1>4, <1>5, <1>6 DEF B!BindingNext, B!Ops, OptionsOf

-----------------------------------------------------------------------------
(* A call ends.                                                            *)

(***************************************************************************)
(* What p's last step does to the history of its name n: it takes over the *)
(* record, the machine and the result.                                     *)
(***************************************************************************)
Ends(n, p, r) ==
  /\ HistTyped /\ HistTyped'
  /\ Busy(p) /\ ~Busy(p)' /\ CallName(p) = n /\ call[p].op \in Ops
  /\ \A q \in Proc \ {p} : CallOn(n, q) = [op |-> "idle"] /\ CallOn(n, q)' = [op |-> "idle"]
  /\ r \in Results /\ hist'[n].ret = [hist[n].ret EXCEPT ![p] = r]

LEMMA EndedJob ==
  ASSUME NEW n \in Name, NEW p \in Proc, NEW r, Ends(n, p, r)
  PROVE  LET job == [q \in Proc |-> CallOn(n, q)][p] IN
         /\ B(n)!Busy(p) /\ B(n)!Finish(p, r)
         /\ job.op = call[p].op /\ job.seen = hist[n].rec
         /\ job.touched = (p \notin calm) /\ ~job.mixed
         /\ job.opt = IF call[p].op = "up" THEN Recorded(st[p]) ELSE NoFile
<1>1. CallOn(n, p) =
        [op |-> call[p].op,
         opt |-> IF call[p].op = "up" THEN Recorded(st[p]) ELSE NoFile,
         seen |-> hist[n].rec, touched |-> p \notin calm, mixed |-> FALSE]
  BY DEF Ends, CallOn, CallName
<1>2. CallOn(n, p)' = [op |-> "idle"]
  BY DEF Ends, CallOn
<1>3. B(n)!Finish(p, r)
  BY <1>2 DEF Ends, B!Finish, B!Idle
<1>4. call[p].op # "idle"
  BY DEF Ends, Ops
<1> QED BY <1>1, <1>3, <1>4 DEF B!Busy, B!Idle

(***************************************************************************)
(* The call has left record and machine as it has found them.              *)
(***************************************************************************)
LeftAlone(n, p) ==
  /\ hist'[n].rec = hist[n].rec
  /\ p \in calm => hist'[n].host = hist[n].host
  /\ hist[n].host = "clean" => hist'[n].host = "clean"

LEMMA LeavesUnchanged ==
  ASSUME NEW n \in Name, NEW p \in Proc, NEW r, Ends(n, p, r), LeftAlone(n, p)
  PROVE  B(n)!Unchanged(p)
<1>1. ([q \in Proc |-> CallOn(n, q)][p]).touched = (p \notin calm)
  BY EndedJob
<1>2. /\ hist'[n].host \in {"clean", "damaged", "inforce"}
      /\ hist'[n].host = "inforce" => hist'[n].rec \in {o \in Options : o.name = n}
  BY DEF Ends, HistTyped, OptionsOf
<1> QED BY <1>1, <1>2 DEF LeftAlone, B!Unchanged, B!Settle, B!Disturbed, B!Hosts

Refused(n, p) ==
  \/ call[p].op = "up" /\ hist[n].rec \in OptionsOf(n)
  \/ call[p].op # "up" /\ hist[n].rec \in {NoFile, Torn}

Answer(n, p) ==
  IF call[p].op # "up" /\ hist[n].rec = NoFile THEN "nobinding" ELSE "err"

LEMMA Refusals ==
  ASSUME NEW n \in Name, NEW p \in Proc, NEW r, Ends(n, p, r)
  PROVE  /\ Refused(n, p) => B(n)!Refusal(p) = Answer(n, p)
         /\ ~Refused(n, p) => B(n)!Refusal(p) = "none"
<1>1. {NoFile, Torn} \cap OptionsOf(n) = {} /\ NoFile # Torn
  BY RecordAssumption, SentinelAssumption DEF OptionsOf
<1> QED BY <1>1, EndedJob DEF Refused, Answer, B!Refusal, OptionsOf

LEMMA RefusalEnds ==
  ASSUME NEW n \in Name, NEW p \in Proc, NEW r, Ends(n, p, r), LeftAlone(n, p),
         Refused(n, p), r = Answer(n, p)
  PROVE  B(n)!BindingNext
<1>1. B(n)!Refuse(p, r)
  BY EndedJob, LeavesUnchanged, Refusals DEF B!Refuse
<1> QED BY <1>1 DEF B!BindingNext, B!End, B!Results, Ends, Results

LEMMA VerifyEnds ==
  ASSUME NEW n \in Name, NEW p \in Proc, NEW r, Ends(n, p, r), LeftAlone(n, p),
         ~Refused(n, p), call[p].op = "verify", r \in {"ok", "err"},
         r = "ok" /\ p \in calm => hist[n].host = "inforce"
  PROVE  B(n)!BindingNext
<1>1. B(n)!EndVerify(p, r)
  BY EndedJob, LeavesUnchanged, Refusals DEF B!EndVerify
<1> QED BY <1>1 DEF B!BindingNext, B!End, B!Results

LEMMA UpEnds ==
  ASSUME NEW n \in Name, NEW p \in Proc, NEW r, Ends(n, p, r), ~Refused(n, p),
         call[p].op = "up",
         \/ /\ r = "ok" /\ hist'[n].rec = Recorded(st[p])
            /\ p \in calm => hist'[n].host # "clean"
         \/ /\ r = "err" /\ hist'[n].rec \in {hist[n].rec, Torn}
            /\ RemovalsWork /\ hist[n].host = "clean" => hist'[n].host = "clean"
  PROVE  B(n)!BindingNext
<1> DEFINE job == [q \in Proc |-> CallOn(n, q)][p]
<1>1. /\ hist'[n].host \in {"clean", "damaged", "inforce"}
      /\ hist'[n].host = "inforce" => hist'[n].rec \in {o \in Options : o.name = n}
  BY DEF Ends, HistTyped, OptionsOf
<1>2. B(n)!Refusal(p) = "none"
  BY Refusals
<1>3. /\ B(n)!Finish(p, r) /\ job.op = call[p].op /\ job.opt = Recorded(st[p])
      /\ job.touched = (p \notin calm) /\ ~job.mixed
  BY EndedJob
<1>4. B(n)!EndUp(p, r)
  BY <1>1, <1>2, <1>3 DEF RemovalsWork, B!EndUp, B!Succeed, B!Removed, B!Settle, B!Hosts
<1> QED BY <1>4 DEF B!BindingNext, B!End, B!Results

LEMMA ReassertEnds ==
  ASSUME NEW n \in Name, NEW p \in Proc, NEW r, Ends(n, p, r), ~Refused(n, p),
         call[p].op = "reassert",
         \/ /\ r = "ok" /\ hist'[n].rec = hist[n].rec
            /\ p \in calm => hist'[n].host = "inforce"
         \/ r = "err" /\ hist'[n].rec \in {hist[n].rec, Torn}
  PROVE  B(n)!BindingNext
<1> DEFINE job == [q \in Proc |-> CallOn(n, q)][p]
<1>1. /\ hist'[n].host \in {"clean", "damaged", "inforce"}
      /\ hist'[n].host = "inforce" => hist'[n].rec \in {o \in Options : o.name = n}
  BY DEF Ends, HistTyped, OptionsOf
<1>2. B(n)!Refusal(p) = "none"
  BY Refusals
<1>3. /\ B(n)!Finish(p, r) /\ job.op = call[p].op
      /\ job.seen = hist[n].rec /\ job.touched = (p \notin calm) /\ ~job.mixed
  BY EndedJob
<1>4. B(n)!EndReassert(p, r)
  BY <1>1, <1>2, <1>3 DEF B!EndReassert, B!Succeed, B!Settle, B!Hosts
<1> QED BY <1>4 DEF B!BindingNext, B!End, B!Results

LEMMA DownEnds ==
  ASSUME NEW n \in Name, NEW p \in Proc, NEW r, Ends(n, p, r), ~Refused(n, p),
         call[p].op = "down",
         \/ r \in {"ok", "err"} /\ hist'[n].rec = NoFile
         \/ r = "err" /\ hist'[n].rec = hist[n].rec,
         RemovalsWork => hist'[n].host = "clean"
  PROVE  B(n)!BindingNext
<1> DEFINE job == [q \in Proc |-> CallOn(n, q)][p]
<1>1. /\ hist'[n].host \in {"clean", "damaged", "inforce"}
      /\ hist'[n].host = "inforce" => hist'[n].rec \in {o \in Options : o.name = n}
  BY DEF Ends, HistTyped, OptionsOf
<1>2. B(n)!Refusal(p) = "none"
  BY Refusals
<1>3. /\ B(n)!Finish(p, r) /\ job.op = call[p].op
      /\ job.seen = hist[n].rec /\ job.touched = (p \notin calm) /\ ~job.mixed
  BY EndedJob
<1>4. B(n)!EndDown(p, r)
  BY <1>1, <1>2, <1>3 DEF RemovalsWork, B!EndDown, B!Removed, B!Settle, B!Hosts
<1> QED BY <1>4 DEF B!BindingNext, B!End, B!Results

LEMMA KillEnds ==
  ASSUME NEW n \in Name, NEW p \in Proc, NEW r, Ends(n, p, r), r = "killed",
         Refused(n, p) \/ call[p].op = "verify" => LeftAlone(n, p),
         hist'[n].rec = hist[n].rec \/ (call[p].op # "down" /\ hist'[n].rec = Torn)
  PROVE  B(n)!BindingNext
<1>1. CASE Refused(n, p) \/ call[p].op = "verify"
  <2>1. B(n)!Kill(p)
    BY <1>1, EndedJob, LeavesUnchanged, Refusals DEF Answer, B!Kill
  <2> QED BY <2>1 DEF B!BindingNext
<1>2. CASE ~Refused(n, p) /\ call[p].op # "verify"
  <2>1. B(n)!Kill(p)
    BY <1>2, EndedJob, Refusals DEF Ends, HistTyped, OptionsOf, B!Kill, B!Settle, B!Hosts
  <2> QED BY <2>1 DEF B!BindingNext
<1> QED BY <1>1, <1>2

-----------------------------------------------------------------------------
(* The history along a call.                                               *)

AccessesRecord(p) ==
  LoadForUp(p) \/ LoadRecord(p) \/ SaveTruncate(p) \/ SaveWrite(p) \/ ClearState(p)

LEMMA AskedRecord ==
  ASSUME CallTyped, AskedFor, NEW p \in Proc, AccessesRecord(p)
  PROVE  AskedFor' /\ call' = call
<1>1. call' = call /\ CallName(p) \in Name
  BY DEF AccessesRecord, LoadForUp, LoadRecord, SaveTruncate, SaveWrite, SaveFailed,
         ClearState, CallTyped, CallName
<1>2. \A q \in Proc : st'[q] \in {st[q], IF q = p THEN file[CallName(p)] ELSE st[q]}
  <2>1. st' = st \/ st' = [st EXCEPT ![p] = file[CallName(p)]]
    BY DEF AccessesRecord, LoadForUp, LoadRecord, SaveTruncate, SaveWrite, SaveFailed,
           ClearState, CallName
  <2> QED BY <2>1 DEF CallTyped
<1>3. \A n \in Name : \/ file'[n] \in {file[n], NoFile, Torn}
                      \/ n = CallName(p) /\ file'[n] = st[p]
  BY DEF AccessesRecord, LoadForUp, LoadRecord, SaveTruncate, SaveWrite, SaveFailed,
         Written, ClearState, CallTyped, CallName
<1>4. NoFile \notin State /\ Torn \notin State
  BY SentinelAssumption
<1> QED BY <1>1, <1>2, <1>3, <1>4 DEF AskedFor, Recorded, CallName

LEMMA SeenRecord ==
  ASSUME CallTyped, AskedFor, NEW p \in Proc, AccessesRecord(p), Busy(p)',
         SeenDuring(p), RecordTrack(p), hist'[CallName(p)] = hist[CallName(p)]
  PROVE  SeenDuring(p)'
<1>1. call' = call /\ CallName(p) \in Name /\ call[p].op \in Ops
  BY AskedRecord DEF CallTyped, CallName
<1> USE <1>1 DEF CallTyped, CallName, SeenDuring, RecordTrack, RollBack, Busy, Goto, Note, Ops
<1>2. CASE LoadForUp(p)
  BY <1>2, RecordedFile DEF LoadForUp
<1>3. CASE LoadRecord(p)
  BY <1>3 DEF LoadRecord
<1>4. CASE SaveTruncate(p)
  BY <1>4 DEF SaveTruncate, SaveFailed
<1>5. CASE SaveWrite(p)
  BY <1>5 DEF SaveWrite, SaveFailed
<1>6. CASE ClearState(p)
  BY <1>6 DEF ClearState
<1> QED BY <1>2, <1>3, <1>4, <1>5, <1>6 DEF AccessesRecord

LEMMA SeenCommand ==
  ASSUME NEW p \in Proc, SeenDuring(p), UNCHANGED <<file, fd, call>>,
         pc[p] \notin {"load", "write"}, pc'[p] \notin {"load", "write"},
         st'[p] \in State, Recorded(st'[p]) = Recorded(st[p]),
         \A q \in Proc \ {p} : ret'[q] = ret[q],
         IF call[p].op = "down" THEN ret'[p] \in {"ok", "err"}
         ELSE ret'[p] = IF pc'[p] \in RollBack THEN "err" ELSE "ok",
         hist'[CallName(p)] = hist[CallName(p)]
  PROVE  SeenDuring(p)'
<1>1. \A f : Recorded(f)' = Recorded(f')
  BY DEF Recorded
<1> QED BY <1>1 DEF SeenDuring, CallName, RollBack, Recorded

LEMMA SeenBegin ==
  ASSUME NEW p \in Proc, NEW n \in Name, SeenAtRest(n), call'[p].name = n,
         pc'[p] = "load", ret'[p] = "ok", file' = file, hist'[n] = hist[n],
         \A q \in Proc \ {p} : call'[q] = call[q] /\ ret'[q] = ret[q]
  PROVE  SeenDuring(p)'
  BY DEF SeenAtRest, SeenDuring, CallName, RollBack, Recorded

LEMMA SeenKept ==
  ASSUME NEW q \in Proc, SeenDuring(q), NEW p \in Proc \ {q},
         pc'[q] = pc[q], call'[q] = call[q], st'[q] = st[q], ret'[q] = ret[q],
         q \in fd => q \in fd', file'[CallName(q)] = file[CallName(q)],
         call'[p].name # CallName(q),
         \A o \in Proc \ {p} : call'[o] = call[o] /\ ret'[o] = ret[o],
         hist'[CallName(q)] = hist[CallName(q)]
  PROVE  SeenDuring(q)'
  BY DEF SeenDuring, CallName, RollBack, Recorded

-----------------------------------------------------------------------------
(* The ends of a call by the kind of its last step.                        *)

(***************************************************************************)
(* As far as p has been left alone, the machine is as its call found it.   *)
(***************************************************************************)
HostKept(n, p) ==
  /\ p \in calm => hist'[n].host = hist[n].host
  /\ hist[n].host = "clean" => hist'[n].host = "clean"

LEMMA CallEnded ==
  ASSUME HistTyped, HistTyped', CallTyped, CallTyped', Alone, NEW p \in Proc,
         NEW n \in Name, n = CallName(p), SeenDuring(p), Busy(p), ~Busy(p)',
         call' = call, \A q \in Proc \ {p} : pc'[q] = pc[q] /\ ret'[q] = ret[q],
         hist'[n].ret = [q \in Proc |-> IF call'[q].name = n THEN ret'[q]
                                                             ELSE hist[n].ret[q]],
         NEW r, r = ret'[p]
  PROVE  Ends(n, p, r)
<1>1. \A q \in Proc \ {p} : CallOn(n, q) = [op |-> "idle"] /\ CallOn(n, q)' = [op |-> "idle"]
  BY DEF Alone, CallOn, Busy, CallName
<1>2. hist'[n].ret = [hist[n].ret EXCEPT ![p] = r]
  <2>1. \A q \in Proc : hist'[n].ret[q] = IF q = p THEN r ELSE hist[n].ret[q]
    BY DEF SeenDuring, CallName
  <2>2. hist[n].ret \in [Proc -> Results] /\ hist'[n].ret \in [Proc -> Results]
    BY DEF HistTyped
  <2> QED BY <2>1, <2>2
<1> QED BY <1>1, <1>2 DEF Ends, CallTyped

LEMMA RecordEnds ==
  ASSUME CallTyped, AskedFor, NEW p \in Proc, AccessesRecord(p), SeenDuring(p), RecordTrack(p),
         NEW n \in Name, n = CallName(p), NEW r, r = ret'[p], Ends(n, p, r),
         hist'[n].rec = Recorded(file'[n]),
         pc[p] = "load" => HostKept(n, p),
         call[p].op = "up" /\ r = "ok" /\ p \in calm => hist'[n].host # "clean",
         call[p].op = "reassert" /\ r = "ok" /\ p \in calm => hist'[n].host = "inforce",
         pc[p] = "clear" /\ RemovalsWork => hist'[n].host = "clean"
  PROVE  B(n)!BindingNext
<1>1. /\ call[p].op \in {"up", "down", "verify", "reassert"} /\ call[p].name = n
      /\ pc'[p] = "idle" /\ NoFile # Torn
      /\ \A x \in {NoFile, Torn} : Recorded(x) = x /\ x \notin OptionsOf(n)
  BY SentinelAssumption, RecordAssumption
     DEF Ends, CallTyped, Ops, CallName, Busy, Recorded, OptionsOf
<1>2. CASE LoadForUp(p)
  <2>1. /\ pc[p] = "load" /\ call[p].op = "up" /\ file[n] \in State /\ file' = file
        /\ r = "err"
    BY <1>1, <1>2 DEF LoadForUp, Goto, Note, CallTyped
  <2>2. LeftAlone(n, p) /\ Refused(n, p) /\ r = Answer(n, p)
    BY <1>1, <2>1, RecordedFile DEF HostKept, LeftAlone, Refused, Answer, SeenDuring
  <2> QED BY <2>2, RefusalEnds
<1>3. CASE LoadRecord(p)
  <2>1. /\ pc[p] = "load" /\ call[p].op # "up" /\ file' = file
        /\ \/ file[n] = NoFile /\ r = "nobinding"
           \/ file[n] = Torn /\ r = "err"
    BY <1>1, <1>3 DEF LoadRecord, Goto, Note, CallTyped
  <2>2. LeftAlone(n, p) /\ Refused(n, p) /\ r = Answer(n, p)
    BY <1>1, <2>1, RecordedFile DEF HostKept, LeftAlone, Refused, Answer, SeenDuring
  <2> QED BY <2>2, RefusalEnds
<1>4. CASE SaveTruncate(p) \/ SaveWrite(p)
  <2>1. /\ pc[p] \in {"save", "write"} /\ call[p].op \in {"up", "reassert"}
        /\ ~Refused(n, p)
        /\ hist[n].rec = Recorded(file[n]) \/ file[n] = Torn
    BY <1>1, <1>4 DEF SaveTruncate, SaveWrite, RecordTrack, SeenDuring, Refused, AskedFor
  <2>2. CASE r = "ok" /\ file'[n] = st[p]
    BY <1>1, <2>1, <2>2, UpEnds, ReassertEnds DEF SeenDuring
  <2>3. CASE r = "err" /\ file' = file
    <3>1. call[p].op = "reassert"
      BY <1>1, <1>4, <2>1, <2>3
         DEF SaveTruncate, SaveWrite, SaveFailed, SeenDuring, RollBack, Goto, CallTyped
    <3> QED BY <1>1, <2>1, <2>3, <3>1, ReassertEnds
  <2>4. \/ r = "ok" /\ file'[n] = st[p]
        \/ r = "err" /\ file' = file
    BY <1>1, <1>4, <2>1
       DEF SaveTruncate, SaveWrite, SaveFailed, Written, SeenDuring, RollBack, Goto,
           Note, CallTyped, CallName
  <2> QED BY <2>2, <2>3, <2>4
<1>5. CASE ClearState(p)
  <2>1. /\ pc[p] = "clear" /\ call[p].op = "down" /\ ~Refused(n, p)
        /\ \/ file'[n] = NoFile /\ r \in {"ok", "err"}
           \/ file' = file /\ r = "err"
    BY <1>1, <1>5
       DEF ClearState, RecordTrack, SeenDuring, Refused, AskedFor, CallTyped, Note, CallName
  <2>2. hist[n].rec = Recorded(file[n])
    BY <2>1 DEF SeenDuring
  <2> QED BY <1>1, <2>1, <2>2, DownEnds
<1> QED BY <1>2, <1>3, <1>4, <1>5 DEF AccessesRecord

LEMMA CommandEnds ==
  ASSUME CallTyped, AskedFor, NEW p \in Proc, pc[p] # "load", SeenDuring(p),
         NEW n \in Name, n = CallName(p), NEW r, Ends(n, p, r),
         hist'[n].rec = Recorded(file[n]), call[p].op # "down",
         call[p].op = "verify" => HostKept(n, p) /\ r \in {"ok", "err"},
         call[p].op = "verify" /\ r = "ok" /\ p \in calm => hist[n].host = "inforce",
         call[p].op # "verify" => r = "err",
         call[p].op = "up" /\ RemovalsWork /\ hist[n].host = "clean" =>
           hist'[n].host = "clean"
  PROVE  B(n)!BindingNext
<1>1. /\ call[p].op \in {"up", "verify", "reassert"} /\ call[p].name = n
      /\ Recorded(Torn) = Torn
      /\ \A x \in {NoFile, Torn} : x \notin OptionsOf(n)
  BY SentinelAssumption, RecordAssumption DEF CallTyped, Ops, CallName, Recorded, OptionsOf
<1>2. ~Refused(n, p)
  BY <1>1 DEF SeenDuring, Refused, AskedFor, CallName
<1>3. CASE call[p].op = "up"
  BY <1>1, <1>2, <1>3, UpEnds DEF SeenDuring
<1>4. CASE call[p].op = "reassert"
  BY <1>1, <1>2, <1>4, ReassertEnds DEF SeenDuring
<1>5. CASE call[p].op = "verify"
  <2>1. LeftAlone(n, p)
    BY <1>1, <1>5 DEF SeenDuring, HostKept, LeftAlone
  <2> QED BY <1>2, <1>5, <2>1, VerifyEnds
<1> QED BY <1>1, <1>3, <1>4, <1>5

LEMMA KilledEnds ==
  ASSUME CallTyped, AskedFor, NEW p \in Proc, SeenDuring(p), NEW n \in Name,
         n = CallName(p), NEW r, r = "killed", Ends(n, p, r),
         hist'[n].rec = Recorded(file[n]),
         pc[p] = "load" \/ call[p].op = "verify" => HostKept(n, p)
  PROVE  B(n)!BindingNext
<1>1. /\ Recorded(Torn) = Torn /\ call[p].name = n
      /\ \A x \in {NoFile, Torn} : x \notin OptionsOf(n)
  BY SentinelAssumption, RecordAssumption DEF CallName, Recorded, OptionsOf
<1>2. Refused(n, p) => pc[p] = "load"
  BY <1>1 DEF SeenDuring, Refused, AskedFor, CallName
<1>3. hist'[n].rec = hist[n].rec \/
        (call[p].op \in {"up", "reassert"} /\ pc[p] # "load" /\ hist'[n].rec = Torn)
  BY <1>1 DEF SeenDuring
<1>4. Refused(n, p) \/ call[p].op = "verify" => LeftAlone(n, p)
  BY <1>2, <1>3 DEF HostKept, LeftAlone
<1> QED BY <1>3, <1>4, KillEnds

-----------------------------------------------------------------------------
(* A step in the middle of a call.                                         *)

LEMMA InsideCall ==
  ASSUME Alone, NEW p \in Proc, NEW n \in Name, n = CallName(p), Busy(p), Busy(p)',
         call' = call, \A q \in Proc \ {p} : pc'[q] = pc[q],
         call[p].op = "up" => Recorded(st'[p]) = Recorded(st[p]),
         p \in calm <=> p \in calm',
         hist'[n] = hist[n]
  PROVE  UNCHANGED B(n)!bindingVars
<1>1. \A q \in Proc \ {p} : CallOn(n, q)' = CallOn(n, q)
  BY DEF Alone, CallOn, Busy, CallName
<1>2. CallOn(n, p)' = CallOn(n, p)
  <2> DEFINE opt == IF call[p].op = "up" THEN Recorded(st[p]) ELSE NoFile
             job(t) == Job(call[p].op, opt, hist[n].rec, t, FALSE)
  <2>1. /\ CallOn(n, p) = job(p \notin calm)
        /\ CallOn(n, p)' = job(p \notin calm')
    BY DEF CallOn, CallName, Recorded, Job
  <2>2. CASE p \in calm
    <3>1. CallOn(n, p) = job(FALSE) /\ CallOn(n, p)' = job(FALSE)
      BY <2>1, <2>2
    <3> QED BY <3>1
  <2>3. CASE p \notin calm
    <3>1. CallOn(n, p) = job(TRUE) /\ CallOn(n, p)' = job(TRUE)
      BY <2>1, <2>3
    <3> QED BY <3>1
  <2> QED BY <2>2, <2>3
<1> QED BY <1>1, <1>2, NothingSeen

-----------------------------------------------------------------------------
(* Names that a step is not about.                                         *)

(***************************************************************************)
(* The processes in A act, and not on n; the history of n changes at most  *)
(* in what is there of the binding.                                        *)
(***************************************************************************)
LEMMA AsideSteps ==
  ASSUME HistTyped, HistTyped', CallTyped, Alone, NEW n \in Name, NEW A \in SUBSET Proc,
         \A q \in Proc \ A : /\ pc'[q] = pc[q] /\ call'[q] = call[q]
                             /\ st'[q] = st[q] /\ ret'[q] = ret[q]
                             /\ q \in calm' => q \in calm,
         \A p \in A : call'[p].name # n /\ (Busy(p) => CallName(p) # n),
         file'[n] = file[n],
         Working(n) => hist'[n] = hist[n],
         ~Working(n) =>
           /\ SeenAtRest(n)
           /\ hist'[n].rec = Recorded(file'[n])
           /\ hist'[n].ret = [q \in Proc |-> IF call'[q].name = n THEN ret'[q]
                                                                  ELSE hist[n].ret[q]]
           /\ hist[n].host = "clean" => hist'[n].host = "clean"
  PROVE  UNCHANGED B(n)!bindingVars \/ B(n)!Interfere
<1>1. \A q \in A : CallOn(n, q) = [op |-> "idle"] /\ CallOn(n, q)' = [op |-> "idle"]
  BY DEF CallOn, CallName
<1>2. CASE Working(n)
  <2>1. PICK q \in Proc : Busy(q) /\ call[q].name = n
    BY <1>2 DEF Working
  <2>2. q \notin A /\ hist'[n] = hist[n]
    BY <1>2, <2>1 DEF CallName
  <2>3. \A o \in Proc \ {q} :
          CallOn(n, o) = [op |-> "idle"] /\ CallOn(n, o)' = [op |-> "idle"]
    BY <1>1, <2>1, <2>2 DEF Alone, CallOn, Busy, CallName
  <2> DEFINE opt == IF call[q].op = "up" THEN Recorded(st[q]) ELSE NoFile
             job(t) == Job(call[q].op, opt, hist[n].rec, t, FALSE)
  <2>4. /\ CallOn(n, q) = job(q \notin calm)
        /\ CallOn(n, q)' = job(q \notin calm')
    BY <2>1, <2>2 DEF CallOn, Busy, Recorded, Job
  <2>5. CASE q \in calm /\ q \notin calm'
    <3>1. CallOn(n, q) = job(FALSE) /\ CallOn(n, q)' = job(TRUE)
      BY <2>4, <2>5
    <3>2. CallOn(n, q) # [op |-> "idle"]
      BY <3>1 DEF CallTyped, Ops, Job
    <3>3. \A op, o, s, j, k :
             j = Job(op, o, s, FALSE, FALSE) /\ k = Job(op, o, s, TRUE, FALSE) =>
               k = [j EXCEPT !.touched = TRUE]
      BY ONLY JobTouched
    <3>4. CallOn(n, q)' = [CallOn(n, q) EXCEPT !.touched = TRUE]
      <4> HIDE DEF opt
      <4> QED BY ONLY <3>1, <3>3
    <3> QED BY <2>2, <2>3, <3>2, <3>4, MovedDuring
  <2>6. CASE q \in calm <=> q \in calm'
    <3>1. CallOn(n, q)' = CallOn(n, q)
      <4>1. CASE q \in calm
        <5>1. CallOn(n, q) = job(FALSE) /\ CallOn(n, q)' = job(FALSE)
          BY <2>4, <2>6, <4>1
        <5> QED BY <5>1
      <4>2. CASE q \notin calm
        <5>1. CallOn(n, q) = job(TRUE) /\ CallOn(n, q)' = job(TRUE)
          BY <2>4, <2>6, <4>2
        <5> QED BY <5>1
      <4> QED BY <4>1, <4>2
    <3>2. \A o \in Proc : CallOn(n, o)' = CallOn(n, o)
      BY <2>3, <3>1
    <3> QED BY <2>2, <3>2, NothingSeen
  <2>7. q \in calm' => q \in calm
    BY <2>2
  <2> QED BY <2>5, <2>6, <2>7
<1>3. CASE ~Working(n)
  <2>1. \A q \in Proc : CallOn(n, q) = [op |-> "idle"] /\ CallOn(n, q)' = [op |-> "idle"]
    BY <1>1, <1>3 DEF CallOn, Working, Busy
  <2>2. hist'[n].rec = hist[n].rec
    BY <1>3 DEF SeenAtRest
  <2>3. hist'[n].ret = hist[n].ret
    <3>1. \A q \in Proc : hist'[n].ret[q] = hist[n].ret[q]
      BY <1>3 DEF SeenAtRest, CallName
    <3>2. hist[n].ret \in [Proc -> Results] /\ hist'[n].ret \in [Proc -> Results]
      BY DEF HistTyped
    <3> QED BY <3>1, <3>2
  <2> QED BY <1>3, <2>1, <2>2, <2>3, MovedAtRest
<1> QED BY <1>2, <1>3

(***************************************************************************)
(* A reboot ends every call and clears every name.                         *)
(***************************************************************************)
LEMMA RebootSteps ==
  ASSUME HistTyped, RebootCalls, NEW n \in Name, hist'[n].rec = NoFile,
         hist'[n].host = "clean",
         hist'[n].ret = [q \in Proc |-> IF call'[q].name = n THEN ret'[q]
                                                             ELSE hist[n].ret[q]]
  PROVE  B(n)!BindingNext
<1> DEFINE ended == {q \in Proc : CallName(q) = n}
<1>1. \A q \in Proc : CallOn(n, q)' = [op |-> "idle"]
  BY DEF RebootCalls, CallOn, Busy
<1>2. \A q \in Proc : CallOn(n, q) # [op |-> "idle"] => q \in ended
  BY DEF CallOn, CallName
<1>3. hist'[n].ret = [q \in Proc |-> IF q \in ended THEN "killed" ELSE hist[n].ret[q]]
  BY DEF RebootCalls, CallName
<1>4. B(n)!Reboot(ended)
  <2> HIDE DEF ended
  <2> QED BY <1>1, <1>2, <1>3 DEF B!Reboot, B!Busy, B!Idle
<1>5. ended \in SUBSET Proc
  OBVIOUS
<1> HIDE DEF ended
<1> QED BY <1>4, <1>5 DEF B!BindingNext

(***************************************************************************)
(* The history keeps its types: what it takes over has them.               *)
(***************************************************************************)
LEMMA HistKeepsTypes ==
  ASSUME HistTyped, CallTyped', AskedFor',
         \A n \in Name :
           \/ hist'[n] = hist[n]
           \/ /\ hist'[n].rec = Recorded(file'[n])
              /\ hist'[n].host \in {"clean", "damaged", "inforce"}
              /\ hist'[n].host = "inforce" => file'[n] \in State
              /\ hist'[n].ret = [q \in Proc |-> IF call'[q].name = n THEN ret'[q]
                                                                  ELSE hist[n].ret[q]]
  PROVE  HistTyped'
<1>1. ASSUME NEW n \in Name
      PROVE  /\ Recorded(file'[n]) \in OptionsOf(n) \cup {NoFile, Torn}
             /\ file'[n] \in State => Recorded(file'[n]) \in OptionsOf(n)
  BY SentinelAssumption DEF CallTyped, AskedFor, Recorded, OptionsOf
<1>2. ASSUME NEW n \in Name
      PROVE  [q \in Proc |-> IF call'[q].name = n THEN ret'[q] ELSE hist[n].ret[q]]
               \in [Proc -> Results]
  BY DEF CallTyped, HistTyped
<1>3. SUFFICES ASSUME NEW n \in Name
               PROVE  /\ hist'[n].rec \in OptionsOf(n) \cup {NoFile, Torn}
                      /\ hist'[n].host \in {"clean", "damaged", "inforce"}
                      /\ hist'[n].host = "inforce" => hist'[n].rec \in OptionsOf(n)
                      /\ hist'[n].ret \in [Proc -> Results]
  BY DEF HistTyped, OptionsOf
<1>4. CASE hist'[n] = hist[n]
  BY <1>4 DEF HistTyped
<1>5. CASE hist'[n] # hist[n]
  BY <1>1, <1>2, <1>5
<1> QED BY <1>4, <1>5

=============================================================================
