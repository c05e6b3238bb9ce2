------------------------------ MODULE Port80Nft ------------------------------
(***************************************************************************)
(* The Linux backend of package port80 (port80/port80_linux.go): alias IPs *)
(* added with `ip addr`, redirects as rules in an nftables table of the    *)
(* binding's name.                                                         *)
(*                                                                         *)
(* As in Port80Pf the state is what the commands act on, each `ip` or      *)
(* `nft` invocation is a step, and other processes and the rest of the     *)
(* machine act between any two.  There is no enable token: State.tok is    *)
(* NoToken in every record (instances with Token = {}).                    *)
(***************************************************************************)
EXTENDS Port80

CONSTANTS
  NoTable,       \* there is no nft table
  NoChain,       \* a table that has no prerouting chain yet
  Interference   \* kinds of outside interference in this instance

InterferenceKinds == {"flush", "alias", "reboot"}

ASSUME InterferenceAssumption == Interference \subseteq InterferenceKinds

VARIABLES
  alias,    \* alias IPs their interfaces carry
  table,    \* table[n]: the nft table n
  left      \* left[p]: rules p has still to add

nftVars == <<callVars, alias, table, left>>
vars == <<nftVars, calm>>

(***************************************************************************)
(* nftRuleSteps: one rule per alias and port.  A chain holds rules with    *)
(* their multiplicity, since `nft add rule` appends; 2 is two or more.     *)
(***************************************************************************)
Rule == [to: Alias, port: Port]

Chain == [Rule -> 0..2]

EmptyChain == [r \in Rule |-> 0]

Append1(chain, r) == [chain EXCEPT ![r] = IF @ = 2 THEN 2 ELSE @ + 1]

\* Mutant: the rules are for a hard-wired port.
NftRulesPort80(s) == {[to |-> a, port |-> 80] : a \in s.aliases}

NftRules(s) == {r \in Rule : r.to \in s.aliases /\ r.port \in s.ports}

ASSUME TableAssumption == NoTable # NoChain /\ {NoTable, NoChain} \cap Chain = {}

-----------------------------------------------------------------------------

SetTable(p, t) == table' = [table EXCEPT ![call[p].name] = t]

Left(p, rules) == left' = [left EXCEPT ![p] = rules]

(***************************************************************************)
(* A command failed: applyUp rolls back (the table, then the aliases it    *)
(* has added), reapply and verifyUp just return the error.                 *)
(***************************************************************************)
Abort(p) ==
  /\ Note(p, "err")
  /\ Loop(p, IF call[p].op = "up" THEN st[p].aliases \ todo[p] ELSE {})
  /\ Goto(p, IF call[p].op = "up" THEN "untable" ELSE "idle")

(***************************************************************************)
(* The first loop of verifyUp and of reapply: `ip -4 addr show`.           *)
(***************************************************************************)
HasAlias(p) ==
  /\ pc[p] = "has"
  /\ \/ /\ Cur(p) \in alias
        /\ EndPass(p, "has", IF call[p].op = "verify" THEN "list" ELSE "drop")
        /\ UNCHANGED ret
     \/ /\ Cur(p) \notin alias
        /\ call[p].op = "reassert"
        /\ Goto(p, "alias")
        /\ UNCHANGED <<todo, ret>>
     \/ /\ Cur(p) \notin alias
        /\ call[p].op = "verify"
        /\ Abort(p)
     \/ "nft" \in Faults /\ Abort(p)
  /\ UNCHANGED <<file, fd, call, st, alias, table, left>>

(***************************************************************************)
(* `ip addr add`: fails on an address the interface has already.           *)
(***************************************************************************)
AddAlias(p) ==
  /\ pc[p] = "alias"
  /\ \/ /\ Cur(p) \notin alias
        /\ alias' = alias \cup {Cur(p)}
        /\ IF call[p].op = "up" THEN EndPass(p, "alias", "table")
                                ELSE EndPass(p, "has", "drop")
        /\ UNCHANGED ret
     \/ Cur(p) \in alias /\ Abort(p) /\ UNCHANGED alias
     \/ "add" \in Faults /\ Abort(p) /\ UNCHANGED alias
  /\ UNCHANGED <<file, fd, call, st, table, left>>

\* Mutant: the rules are reloaded without dropping the table first.
KeepTable(p) ==
  /\ pc[p] = "drop"
  /\ Goto(p, "table")
  /\ UNCHANGED <<file, fd, call, st, todo, ret, alias, table, left>>

(***************************************************************************)
(* reapply drops the table and ignores the error ...                       *)
(***************************************************************************)
DropTable(p) ==
  /\ pc[p] = "drop"
  /\ SetTable(p, NoTable) \/ ("unload" \in Faults /\ UNCHANGED table)
  /\ Goto(p, "table")
  /\ UNCHANGED <<file, fd, call, st, todo, ret, alias, left>>

(***************************************************************************)
(* ... and, like applyUp, adds table, chain and rules.  `nft add` of a     *)
(* table or a chain that exists succeeds and leaves it as it is.           *)
(***************************************************************************)
AddTable(p) ==
  /\ pc[p] = "table"
  /\ \/ /\ SetTable(p, IF table[call[p].name] = NoTable THEN NoChain
                                                        ELSE table[call[p].name])
        /\ Goto(p, "chain")
        /\ UNCHANGED <<todo, ret>>
     \/ "nft" \in Faults /\ Abort(p) /\ UNCHANGED table
  /\ UNCHANGED <<file, fd, call, st, alias, left>>

AddChain(p) ==
  LET t == table[call[p].name] IN
  /\ pc[p] = "chain"
  /\ \/ /\ t # NoTable
        /\ SetTable(p, IF t = NoChain THEN EmptyChain ELSE t)
        /\ Left(p, NftRules(st[p]))
        /\ Goto(p, "rule")
        /\ UNCHANGED <<todo, ret>>
     \/ /\ t = NoTable \/ "nft" \in Faults
        /\ Abort(p)
        /\ UNCHANGED <<table, left>>
  /\ UNCHANGED <<file, fd, call, st, alias>>

\* Mutant: the loop over the rules forgets the last one.
AddRuleOffByOne(p) ==
  LET r == CHOOSE x \in left[p] : TRUE
      n == call[p].name
  IN
  /\ pc[p] = "rule"
  /\ table[n] \in Chain
  /\ IF left[p] = {r}
       THEN Goto(p, "save") /\ UNCHANGED table
       ELSE SetTable(p, Append1(table[n], r)) /\ UNCHANGED pc
  /\ Left(p, left[p] \ {r})
  /\ UNCHANGED <<file, fd, call, st, todo, ret, alias>>

AddRule(p) ==
  LET r == CHOOSE x \in left[p] : TRUE
      t == table[call[p].name]
  IN
  /\ pc[p] = "rule"
  /\ \/ /\ t \in Chain
        /\ SetTable(p, Append1(t, r))
        /\ Left(p, left[p] \ {r})
        /\ Goto(p, IF left[p] = {r} THEN "save" ELSE "rule")
        /\ UNCHANGED <<todo, ret>>
     \/ /\ t \notin Chain \/ "nft" \in Faults
        /\ Abort(p)
        /\ Left(p, {})
        /\ UNCHANGED table
  /\ UNCHANGED <<file, fd, call, st, alias>>

\* Mutant: any table will do.
ListTableExists(p) ==
  /\ pc[p] = "list"
  /\ IF table[call[p].name] = NoTable
       THEN Abort(p)
       ELSE Goto(p, "idle") /\ UNCHANGED <<todo, ret>>
  /\ UNCHANGED <<file, fd, call, st, alias, table, left>>

(***************************************************************************)
(* verifyUp: does the table list any "dport"?                              *)
(***************************************************************************)
ListTable(p) ==
  LET t == table[call[p].name]
      holds == t \in Chain /\ \E r \in Rule : t[r] > 0
  IN
  /\ pc[p] = "list"
  /\ \/ holds /\ Goto(p, "idle") /\ UNCHANGED <<todo, ret>>
     \/ (~holds \/ "nft" \in Faults) /\ Abort(p)
  /\ UNCHANGED <<file, fd, call, st, alias, table, left>>

-----------------------------------------------------------------------------
(* applyUp's roll-back.                                                    *)

RollbackTable(p) ==
  /\ pc[p] = "untable"
  /\ SetTable(p, NoTable) \/ ("unload" \in Faults /\ UNCHANGED table)
  /\ Goto(p, IF todo[p] = {} THEN "idle" ELSE "undo")
  /\ UNCHANGED <<file, fd, call, st, todo, ret, alias, left>>

UndoAlias(p) ==
  /\ pc[p] = "undo"
  /\ alias' = alias \ {Cur(p)} \/ ("del" \in Faults /\ UNCHANGED alias)
  /\ EndPass(p, "undo", "idle")
  /\ UNCHANGED <<file, fd, call, st, ret, table, left>>

-----------------------------------------------------------------------------
(* applyDown.                                                              *)

\* Mutant: the table is flushed, not deleted.
FlushTableForDown(p) ==
  /\ pc[p] = "teardown"
  /\ SetTable(p, IF table[call[p].name] \in Chain THEN EmptyChain
                                                  ELSE table[call[p].name])
  /\ Loop(p, st[p].aliases)
  /\ Goto(p, "del")
  /\ UNCHANGED <<file, fd, call, st, ret, alias, left>>

(***************************************************************************)
(* `nft delete table`, which fails when there is none; the error is noted. *)
(***************************************************************************)
DeleteTable(p) ==
  /\ pc[p] = "teardown"
  /\ \/ /\ table[call[p].name] # NoTable
        /\ SetTable(p, NoTable)
        /\ UNCHANGED ret
     \/ /\ table[call[p].name] = NoTable \/ "unload" \in Faults
        /\ Note(p, "err")
        /\ UNCHANGED table
  /\ Loop(p, st[p].aliases)
  /\ Goto(p, "del")
  /\ UNCHANGED <<file, fd, call, st, alias, left>>

\* Mutant: the teardown returns at the first alias it cannot remove.
DeleteAliasOrReturn(p) ==
  /\ pc[p] = "del"
  /\ \/ /\ alias' = alias \ {Cur(p)}
        /\ EndPass(p, "del", IF call[p].op = "down" THEN "clear" ELSE "idle")
        /\ UNCHANGED ret
     \/ /\ "del" \in Faults
        /\ Note(p, "err")
        /\ Loop(p, {})
        /\ Goto(p, "idle")
        /\ UNCHANGED alias
  /\ UNCHANGED <<file, fd, call, st, table, left>>

(***************************************************************************)
(* `ip addr del`; an absent address is no error (isAbsentAddr).            *)
(***************************************************************************)
DeleteAlias(p) ==
  /\ pc[p] = "del"
  /\ \/ /\ alias' = alias \ {Cur(p)}
        /\ UNCHANGED ret
     \/ "del" \in Faults /\ Note(p, "err") /\ UNCHANGED alias
  /\ EndPass(p, "del", IF call[p].op = "down" THEN "clear" ELSE "idle")
  /\ UNCHANGED <<file, fd, call, st, table, left>>

-----------------------------------------------------------------------------
(* The steps of the package.                                               *)

CallStep(p) ==
  /\ \/ \E o \in Options : Up(p, o)
     \/ \E n \in Name : Down(p, n) \/ Verify(p, n) \/ Reassert(p, n)
  /\ UNCHANGED <<alias, table, left>>

RecordStep(p) ==
  /\ \/ LoadForUp(p) \/ LoadRecord(p)
     \/ SaveTruncate(p) \/ SaveWrite(p) \/ ClearState(p)
  /\ UNCHANGED <<alias, table, left>>

CommandStep(p) ==
  \/ HasAlias(p) \/ AddAlias(p)
  \/ DropTable(p) \/ AddTable(p) \/ AddChain(p) \/ AddRule(p) \/ ListTable(p)
  \/ RollbackTable(p) \/ UndoAlias(p) \/ DeleteTable(p) \/ DeleteAlias(p)

KillStep(p) == Kill(p) /\ Left(p, {}) /\ UNCHANGED <<alias, table>>

-----------------------------------------------------------------------------
(* The rest of the machine.                                                *)

(***************************************************************************)
(* `nft flush ruleset` (a firewalld or nftables.service reload) removes    *)
(* every table, `nft flush table` the rules of one.                        *)
(***************************************************************************)
OutsideFlush ==
  /\ "flush" \in Interference
  /\ \/ table' = [n \in Name |-> NoTable]
     \/ \E n \in Name :
          table[n] \in Chain /\ table' = [table EXCEPT ![n] = EmptyChain]
  /\ UNCHANGED alias

OutsideAliasLoss(a) ==
  /\ "alias" \in Interference
  /\ alias' = alias \ {a}
  /\ UNCHANGED table

OutsideStep ==
  /\ OutsideFlush \/ \E a \in Alias : OutsideAliasLoss(a)
  /\ UNCHANGED <<callVars, left>>

HostInit ==
  /\ alias = {}
  /\ table = [n \in Name |-> NoTable]

Reboot ==
  /\ "reboot" \in Interference
  /\ RebootCalls
  /\ alias' = {}
  /\ table' = [n \in Name |-> NoTable]
  /\ left' = [p \in Proc |-> {}]

-----------------------------------------------------------------------------
(* The specification.                                                      *)

Footprint(n) == <<file[n], table[n], AliasesOf(n) \cap alias>>

(***************************************************************************)
(* History: a process stays calm while the others leave its footprint as   *)
(* it is.                                                                  *)
(***************************************************************************)
Observe(actor, entering) ==
  calm' = {q \in calm \cup entering :
             \/ q \in actor
             \/ Footprint(call[q].name)' = Footprint(call[q].name)}

Init ==
  /\ CallInit
  /\ HostInit
  /\ left = [p \in Proc |-> {}]
  /\ calm = {}

Next ==
  \/ \E p \in Proc : CallStep(p) /\ Observe({p}, {p})
  \/ \E p \in Proc : RecordStep(p) /\ Observe({p}, {})
  \/ \E p \in Proc : CommandStep(p) /\ Observe({p}, {})
  \/ \E p \in Proc : KillStep(p) /\ Observe({p}, {})
  \/ OutsideStep /\ Observe({}, {})
  \/ Reboot /\ calm' = {}

Spec == Init /\ [][Next]_vars

=============================================================================
