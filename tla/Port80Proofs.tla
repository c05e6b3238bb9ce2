---------------------------- MODULE Port80Proofs ----------------------------
(***************************************************************************)
(* What the proofs about both backends need of records and options.        *)
(***************************************************************************)
EXTENDS Port80Props, TLAPS

CallName(p) == call[p].name

(***************************************************************************)
(* There is one call at a time on a name.                                  *)
(***************************************************************************)
Alone ==
  \A p, q \in Proc : Busy(p) /\ Busy(q) /\ CallName(p) = CallName(q) => p = q

LEMMA StateFields ==
  ASSUME NEW s \in State
  PROVE  /\ s.name \in Name
         /\ s.aliases \subseteq Alias
         /\ s.aliases # {}
         /\ s.tok \in Token \cup {NoToken}
  BY DEF State

LEMMA StateToken ==
  ASSUME NEW s \in State, NEW t \in Token \cup {NoToken}
  PROVE  /\ [s EXCEPT !.tok = t] \in State
         /\ [s EXCEPT !.tok = t].tok = t
         /\ [s EXCEPT !.tok = t].name = s.name
  BY DEF State

LEMMA OptionsState ==
  ASSUME NEW o \in Options
  PROVE  [name |-> o.name, aliases |-> o.aliases,
          ports |-> o.ports, tok |-> NoToken] \in State
  BY OptionsAssumption DEF AllOptions, State

LEMMA OptionsName ==
  ASSUME NEW o \in Options
  PROVE  o.name \in Name
  BY OptionsAssumption DEF AllOptions

LEMMA CurInTodo ==
  ASSUME NEW p \in Proc, todo[p] # {}
  PROVE  Cur(p) \in todo[p]
  BY DEF Cur

LEMMA OptionNamed ==
  ASSUME NEW o \in Options
  PROVE  o.aliases \subseteq AliasesOf(o.name)
  BY DEF AliasesOf

LEMMA SeparateAliases ==
  ASSUME NEW m, NEW n, m # n
  PROVE  AliasesOf(m) \cap AliasesOf(n) = {}
  BY DedicatedAliases DEF AliasesOf

=============================================================================
