----------------------------- MODULE ServeProofs -----------------------------
(***************************************************************************)
(* Theorems about Advertiser and Serve: the safety properties of           *)
(* ServeProps, for any interfaces, addresses, connections and faults.      *)
(*                                                                         *)
(* The inductive invariant has four parts: what the owner knows            *)
(* (OwnerInv), what that means for connections, services and pumps         *)
(* (LibraryInv), what is answered on the network (DaemonInv), and where    *)
(* the program that owns the Advertiser can be meanwhile (ProgramInv).     *)
(***************************************************************************)
EXTENDS ServeProps, SequenceTheorems, WellFoundedInduction, TLAPS

-----------------------------------------------------------------------------
(* The invariant.                                                          *)

(***************************************************************************)
(* What may be registered where.                                           *)
(***************************************************************************)
OnNetwork(s, r) ==
  /\ r \notin LoopbackIP \cup {IPv6Loopback}
  /\ \E i \in ToSet(Interfaces) : i.name = s /\ r \in i.subnet

SoundPlan(p) ==
  /\ DOMAIN p \subseteq Scope
  /\ \A s \in DOMAIN p : p[s] \subseteq Addr \cup {IPv6Loopback}
  /\ \A s \in DOMAIN p \cap Iface : \A r \in p[s] : OnNetwork(s, r)

(***************************************************************************)
(* No responder is closed twice.                                           *)
(***************************************************************************)
Distinct(q) == \A i, j \in 1..Len(q) : q[i] = q[j] => i = j

(***************************************************************************)
(* The scopes with a responder, and those with a connection: a responder   *)
(* that is being started has one already.                                  *)
(***************************************************************************)
Responders == ToSet(closers)

Connected == Responders \cup (IF pc = "record" THEN {cur} ELSE {})

OwnerInv ==
  /\ platform \in {"darwin", "other"}
  /\ pc \in Labels
  /\ status \in {"none", "starting", "open", "err", "closed"}
  /\ closers \in Seq(Scope) /\ Distinct(closers)
  /\ SoundPlan(plan)
  /\ todo \cup Responders \subseteq DOMAIN plan /\ todo \cap Responders = {}
  /\ pc \in {"build", "connect", "record"} <=> status = "starting"
  /\ status \in {"starting", "open"} => DOMAIN plan = todo \cup Responders
  /\ status = "open" => pc = "idle" /\ todo = {}
  /\ cur \in Scope \cup {None}
  /\ pc \in {"connect", "record"} => cur \in todo
  /\ pc = "record" => platform = "darwin" /\ left \subseteq plan[cur]
  /\ pc \in {"wait", "service", "connection"} => platform = "darwin" /\ closers # <<>>
  /\ pc = "idle" /\ status # "open" => closers = <<>>

Closing(s) == closers # <<>> /\ s = Head(closers)

LibraryInv ==
  /\ conn \in [Scope -> {"none", "open", "freed"}]
  /\ svc \in [Scope -> {"none", "open", "freed"}]
  /\ pump \in [Scope -> {"none", "select", "poll", "process", "done"}]
  /\ stopped \subseteq Scope /\ broken \subseteq Connected
  /\ \A s \in Scope :
       /\ conn[s] = "open" <=> s \in Connected
       /\ s \notin Responders => pump[s] \in {"none", "done"} /\ svc[s] # "open"
       /\ s \in Responders /\ platform = "darwin" =>
            svc[s] = "open" \/ (pc = "connection" /\ Closing(s))
       /\ pc \in {"service", "connection"} /\ Closing(s) => pump[s] = "done"
       /\ pc = "connection" /\ Closing(s) => svc[s] = "freed"
       /\ platform = "other" => pump[s] = "none" /\ svc[s] = "none"

DaemonInv ==
  /\ \A r \in daemon : \E s \in Connected : \E x \in plan[s] \cup {Service} : r = <<s, x>>
  /\ status \in {"starting", "open"} =>
       \A s \in Responders \ broken : \A x \in plan[s] \cup {Service} : <<s, x>> \in daemon
  /\ pc = "record" /\ cur \notin broken => \A x \in plan[cur] \ left : <<cur, x>> \in daemon

AdvertiserInv == OwnerInv /\ LibraryInv /\ DaemonInv

MainLabels ==
  {"start", "advertise", "advertising", "ready", "select", "drain", "await", "defers",
   "closing", "unlisten", "done"}

(***************************************************************************)
(* Where the owner is when the program is at main.                         *)
(***************************************************************************)
OwnerAt ==
  /\ main \in {"start", "advertise"} => pc = "idle" /\ status = "none"
  /\ main = "advertising" => status \in {"starting", "open", "err"}
  /\ main \in {"ready", "select", "drain", "await"} =>
       pc = "idle" /\ status \in {"none", "open", "err"}
  /\ main = "defers" => pc = "idle" /\ status = "open"
  /\ main = "closing" => status = "closed"
  /\ main \in {"unlisten", "done"} => pc = "idle" /\ status # "open"

Drained == serve # "accept" /\ \A c \in Conn : http[c] \in {"none", "closed"}

ProgramInv ==
  /\ prog \in {"Run", "keep"} /\ main \in MainLabels
  /\ ln \in {"none", "open", "closed"}
  /\ serve \in {"none", "spawned", "accept", "done"}
  /\ serveErr \in {"empty", "closed", "failed"}
  /\ http \in [Conn -> {"none", "active", "idle", "closed"}]
  /\ result \in {"none", "bind", "err", "killed", "timeout", "nil"}
  /\ OwnerAt
  /\ prog = "keep" => ln = "none" /\ serve = "none" /\ result # "bind"
  /\ main = "start" => ln = "none"
  /\ main \in {"start", "advertise", "advertising", "ready"} => serve = "none" /\ result # "nil"
  /\ main \in {"advertise", "advertising", "select", "drain", "await"} => result # "nil"
  /\ result = "bind" => main = "done" /\ status = "none"
  /\ main = "done" => ln # "open"
  /\ shutdown => ctx /\ main \notin {"start", "advertise", "advertising", "ready", "select"}
  /\ serveErr # "empty" => serve = "done"
  /\ serveErr = "closed" => shutdown
  /\ main = "drain" => shutdown
  /\ main = "await" => shutdown /\ Drained
  /\ prog = "Run" /\ result = "nil" => shutdown /\ serve = "done" /\ Drained

ServeInv == AdvertiserInv /\ ProgramInv

-----------------------------------------------------------------------------
(* The list of closers.                                                    *)

LEMMA HeadOff ==
  ASSUME NEW S, NEW q \in Seq(S), q # <<>>, Distinct(q)
  PROVE  /\ Head(q) \in ToSet(q) /\ ToSet(q) \subseteq S
         /\ Tail(q) \in Seq(S) /\ Distinct(Tail(q))
         /\ ToSet(Tail(q)) = ToSet(q) \ {Head(q)}
<1>1. /\ Len(q) \in Nat \ {0} /\ DOMAIN q = 1..Len(q) /\ Head(q) = q[1]
      /\ Tail(q) \in Seq(S) /\ Len(Tail(q)) = Len(q) - 1
      /\ DOMAIN Tail(q) = 1..(Len(q) - 1)
      /\ \A i \in 1..(Len(q) - 1) : Tail(q)[i] = q[i + 1]
  BY HeadTailProperties, LenProperties, EmptySeq
<1>2. Distinct(Tail(q))
  BY <1>1 DEF Distinct
<1>3. ToSet(q) = {Head(q)} \cup ToSet(Tail(q))
  <2>1. \A i \in 2..Len(q) : i - 1 \in 1..(Len(q) - 1) /\ q[i] = Tail(q)[i - 1]
    BY <1>1
  <2>2. ToSet(q) \subseteq {Head(q)} \cup ToSet(Tail(q))
    <3> SUFFICES ASSUME NEW i \in 1..Len(q)
                 PROVE  q[i] \in {Head(q)} \cup ToSet(Tail(q))
      BY <1>1 DEF ToSet
    <3>1. CASE i = 1
      BY <3>1, <1>1
    <3>2. CASE i \in 2..Len(q)
      BY <3>2, <2>1, <1>1 DEF ToSet
    <3> QED BY <3>1, <3>2, <1>1
  <2>3. ToSet(Tail(q)) \subseteq ToSet(q)
    <3>1. \A i \in 1..(Len(q) - 1) : i + 1 \in 1..Len(q)
      BY <1>1
    <3> QED BY <3>1, <1>1 DEF ToSet
  <2>4. Head(q) \in ToSet(q)
    BY <1>1 DEF ToSet
  <2> QED BY <2>2, <2>3, <2>4
<1>4. Head(q) \notin ToSet(Tail(q))
  BY <1>1 DEF Distinct, ToSet
<1>5. ToSet(q) \subseteq S
  BY <1>1, ElementOfSeq DEF ToSet
<1> QED BY <1>1, <1>2, <1>3, <1>4, <1>5

LEMMA AppendOne ==
  ASSUME NEW S, NEW q \in Seq(S), Distinct(q), NEW e \in S, e \notin ToSet(q)
  PROVE  /\ Append(q, e) \in Seq(S) /\ Distinct(Append(q, e))
         /\ ToSet(Append(q, e)) = ToSet(q) \cup {e}
<1>1. /\ Append(q, e) \in Seq(S) /\ Len(q) \in Nat /\ DOMAIN q = 1..Len(q)
      /\ DOMAIN Append(q, e) = 1..(Len(q) + 1) /\ Len(Append(q, e)) = Len(q) + 1
      /\ \A i \in 1..Len(q) : Append(q, e)[i] = q[i]
      /\ Append(q, e)[Len(q) + 1] = e
  BY AppendProperties, LenProperties
<1>2. Distinct(Append(q, e))
  BY <1>1 DEF Distinct, ToSet
<1>3. ToSet(Append(q, e)) = ToSet(q) \cup {e}
  BY <1>1 DEF ToSet
<1> QED BY <1>1, <1>2, <1>3

LEMMA NoClosers ==
  /\ <<>> \in Seq(Scope) /\ Distinct(<<>>) /\ ToSet(<<>>) = {}
  BY EmptySeq DEF Distinct, ToSet

-----------------------------------------------------------------------------
(* Plans.                                                                  *)

(***************************************************************************)
(* SelectInSeq finds an element of the list that passes the test.          *)
(***************************************************************************)
LEMMA LeastOf ==
  ASSUME NEW S, S \subseteq Nat, S # {}
  PROVE  Min(S) \in S
<1>1. PICK x \in S : \A y \in S : ~(<<y, x>> \in OpToRel(<, Nat))
  BY NatLessThanWellFounded, WFMin, Zenon
<1>2. \A y \in S : ~(y < x)
  BY <1>1, Zenon DEF OpToRel
<1>3. \A y \in S : x =< y
  BY <1>2
<1> QED BY <1>3 DEF Min

LEMMA InterfaceFound ==
  ASSUME NEW ip, InterfaceForIP(ip) # None
  PROVE  /\ InterfaceForIP(ip) \in Iface /\ ip \in Addr
         /\ \E i \in ToSet(Interfaces) : i.name = InterfaceForIP(ip) /\ ip \in i.subnet
<1> DEFINE hit(i) == i.up /\ ~i.loopback /\ ip \in i.subnet
           I == {k \in 1..Len(Interfaces) : hit(Interfaces[k])}
           k == IF I # {} THEN Min(I) ELSE 0
<1>1. InterfaceForIP(ip) = IF k = 0 THEN None ELSE Interfaces[k].name
  BY DEF InterfaceForIP, SelectInSeq
<1>2. k \in I
  <2>1. Len(Interfaces) \in Nat
    BY InterfaceAssumption, LenProperties
  <2>2. I # {} => Min(I) \in I
    BY <2>1, LeastOf
  <2> QED BY <1>1, <2>2
<1>3. Interfaces[k] \in ToSet(Interfaces) /\ hit(Interfaces[k])
  BY <1>2, InterfaceAssumption, LenProperties DEF ToSet
<1>4. k # 0
  BY <1>2
<1> HIDE DEF k
<1> QED BY <1>1, <1>3, <1>4, InterfaceAssumption DEF Iface

-----------------------------------------------------------------------------
LEMMA EmptyPlan ==
  SoundPlan(<<>>) /\ DOMAIN <<>> = {}
<1>1. DOMAIN <<>> = {}
  OBVIOUS
<1> QED BY <1>1 DEF SoundPlan

LEMMA AdvertisePlanSound ==
  ASSUME NEW only
  PROVE  SoundPlan(AdvertisePlan(only))
<1> DEFINE wanted == {i \in ToSet(Interfaces) :
                        /\ IF only = {} THEN IsLANCandidate(i) ELSE i.name \in only
                        /\ IfaceIPv4s(i) # {}}
           p == [n \in {i.name : i \in wanted} |->
                   UNION {IfaceIPv4s(i) : i \in {x \in wanted : x.name = n}}]
<1>1. AdvertisePlan(only) = p
  BY DEF AdvertisePlan
<1>2. DOMAIN p \subseteq Iface
  BY DEF Iface
<1>3. ASSUME NEW n \in DOMAIN p, NEW r \in p[n]
      PROVE  r \in Addr /\ OnNetwork(n, r)
  <2>1. PICK i \in ToSet(Interfaces) : i.name = n /\ r \in IfaceIPv4s(i)
    BY <1>3
  <2>2. r \in i.ips /\ r \in Global
    BY <2>1 DEF IfaceIPv4s
  <2>3. r \in i.subnet /\ r \in Addr
    BY <2>2, InterfaceAssumption
  <2> QED BY <2>1, <2>2, <2>3, AddressAssumption DEF OnNetwork
<1> HIDE DEF p
<1> QED BY <1>1, <1>2, <1>3 DEF SoundPlan, Scope

LEMMA LocalPlanSound ==
  ASSUME NEW ips, ips \subseteq Addr
  PROVE  SoundPlan(LocalPlan(ips))
BY AddressAssumption DEF SoundPlan, LocalPlan, Scope

LEMMA ScopedPlanSound ==
  ASSUME NEW ips, ips \cap LoopbackIP = {}
  PROVE  SoundPlan(ScopedPlan(ips))
<1> DEFINE lan == {InterfaceForIP(ip) : ip \in ips}
           local == IF platform = "darwin" THEN LocalPlan(ips) ELSE <<>>
           p == [s \in lan \cup DOMAIN local |->
                   IF s \in lan THEN {ip \in ips : InterfaceForIP(ip) = s} ELSE local[s]]
<1>1. CASE None \in lan
  BY <1>1, EmptyPlan DEF ScopedPlan
<1>2. CASE None \notin lan
  <2>1. ScopedPlan(ips) = p
    BY <1>2 DEF ScopedPlan
  <2>2. lan \subseteq Iface /\ ips \subseteq Addr
    BY <1>2, InterfaceFound
  <2>3. DOMAIN local \subseteq {LocalOnly}
    BY EmptyPlan DEF LocalPlan
  <2>4. \A s \in DOMAIN local : local[s] \subseteq Addr \cup {IPv6Loopback}
    BY <2>2, EmptyPlan DEF LocalPlan
  <2>5. ASSUME NEW s \in DOMAIN p
        PROVE  /\ p[s] \subseteq Addr \cup {IPv6Loopback}
               /\ s \in Iface => \A r \in p[s] : OnNetwork(s, r)
    <3>1. CASE s \in lan
      <4>1. p[s] = {ip \in ips : InterfaceForIP(ip) = s}
        BY <3>1
      <4>2. ASSUME NEW r \in p[s]
            PROVE  r \in Addr /\ OnNetwork(s, r)
        <5>1. r \in ips /\ InterfaceForIP(r) = s /\ InterfaceForIP(r) # None
          BY <4>1, <3>1, <1>2
        <5>2. r \in Addr /\ \E i \in ToSet(Interfaces) : i.name = s /\ r \in i.subnet
          BY <5>1, InterfaceFound
        <5> QED BY <5>1, <5>2, AddressAssumption DEF OnNetwork
      <4> QED BY <4>2
    <3>2. CASE s \notin lan
      <4>1. s \in DOMAIN local /\ p[s] = local[s]
        BY <3>2
      <4> QED BY <4>1, <2>3, <2>4, AddressAssumption
    <3> QED BY <3>1, <3>2
  <2>6. DOMAIN p \subseteq Scope
    BY <2>2, <2>3 DEF Scope
  <2> HIDE DEF p
  <2> QED BY <2>1, <2>5, <2>6 DEF SoundPlan
<1> QED BY <1>1, <1>2

-----------------------------------------------------------------------------
(* The Advertiser.                                                         *)

LEMMA AdvertiserStarts == AdvertiserInit => AdvertiserInv
<1> SUFFICES ASSUME AdvertiserInit PROVE AdvertiserInv
  OBVIOUS
<1> USE DEF AdvertiserInit
<1>1. Responders = {} /\ Connected = {}
  BY NoClosers DEF Responders, Connected
<1>2. OwnerInv
  BY <1>1, NoClosers, EmptyPlan, SwitchAssumption DEF OwnerInv, Labels
<1>3. LibraryInv
  BY <1>1 DEF LibraryInv, Closing
<1>4. DaemonInv
  BY <1>1 DEF DaemonInv
<1> QED BY <1>2, <1>3, <1>4 DEF AdvertiserInv

(***************************************************************************)
(* Between two calls only an open Advertiser has connections.              *)
(***************************************************************************)
LEMMA NothingBetweenCalls ==
  ASSUME AdvertiserInv, pc = "idle", status # "open"
  PROVE  /\ closers = <<>> /\ Responders = {} /\ Connected = {} /\ daemon = {} /\ broken = {}
         /\ \A s \in Scope : conn[s] # "open" /\ pump[s] \in {"none", "done"}
<1>1. closers = <<>> /\ Responders = {} /\ Connected = {}
  BY NoClosers DEF AdvertiserInv, OwnerInv, Responders, Connected
<1> QED BY <1>1 DEF AdvertiserInv, LibraryInv, DaemonInv

LEMMA EnterKeeps ==
  ASSUME AdvertiserInv, NEW p, SoundPlan(p), Enter(p)
  PROVE  AdvertiserInv'
<1> USE DEF Enter, Goto, libVars
<1>1. /\ closers = <<>> /\ Responders = {} /\ Connected = {} /\ daemon = {} /\ broken = {}
      /\ \A s \in Scope : conn[s] # "open" /\ pump[s] \in {"none", "done"}
  BY NothingBetweenCalls
<1>2. Responders' = {} /\ Connected' = {}
  BY NoClosers DEF Responders, Connected
<1>3. OwnerInv'
  <2>1. SoundPlan(plan)'
    BY DEF SoundPlan, OnNetwork
  <2>2. CASE p = <<>>
    BY <1>2, <2>1, <2>2, NoClosers, EmptyPlan DEF AdvertiserInv, OwnerInv, Labels
  <2>3. CASE p # <<>>
    BY <1>2, <2>1, <2>3, NoClosers DEF AdvertiserInv, OwnerInv, Labels
  <2> QED BY <2>2, <2>3
<1>4. LibraryInv'
  BY <1>1, <1>2 DEF AdvertiserInv, LibraryInv, Closing
<1>5. DaemonInv'
  BY <1>1, <1>2 DEF DaemonInv
<1> QED BY <1>3, <1>4, <1>5 DEF AdvertiserInv

LEMMA StartResponderKeeps ==
  ASSUME AdvertiserInv, StartResponder
  PROVE  AdvertiserInv'
<1> USE DEF StartResponder, Goto, Failed, libVars
<1>1. Responders' = Responders /\ Connected' = Connected /\ Connected = Responders
  BY DEF Responders, Connected
<1>2. SoundPlan(plan)'
  BY DEF AdvertiserInv, OwnerInv, SoundPlan, OnNetwork
<1>3. OwnerInv'
  BY <1>1, <1>2 DEF AdvertiserInv, OwnerInv, Labels, SoundPlan
<1>4. LibraryInv'
  BY <1>1 DEF AdvertiserInv, LibraryInv, OwnerInv, Closing
<1>5. DaemonInv'
  BY <1>1 DEF AdvertiserInv, DaemonInv, OwnerInv
<1> QED BY <1>3, <1>4, <1>5 DEF AdvertiserInv

LEMMA BuiltKeeps ==
  ASSUME AdvertiserInv, Built
  PROVE  AdvertiserInv'
<1> USE DEF Built, Goto, libVars
<1>1. Responders' = Responders /\ Connected' = Connected /\ Connected = Responders
  BY DEF Responders, Connected
<1>2. SoundPlan(plan)'
  BY DEF AdvertiserInv, OwnerInv, SoundPlan, OnNetwork
<1>3. OwnerInv'
  BY <1>1, <1>2 DEF AdvertiserInv, OwnerInv, Labels
<1>4. LibraryInv'
  BY <1>1 DEF AdvertiserInv, LibraryInv, Closing
<1>5. DaemonInv'
  BY <1>1 DEF AdvertiserInv, DaemonInv, OwnerInv
<1> QED BY <1>3, <1>4, <1>5 DEF AdvertiserInv

LEMMA CreateConnectionKeeps ==
  ASSUME AdvertiserInv, CreateConnection
  PROVE  AdvertiserInv'
<1> USE DEF CreateConnection, Goto, Failed
<1>1. /\ Responders' = Responders /\ Connected = Responders
      /\ Connected' = IF pc' = "record" THEN Responders \cup {cur} ELSE Responders
  BY DEF Responders, Connected
<1>2. SoundPlan(plan)'
  BY DEF AdvertiserInv, OwnerInv, SoundPlan, OnNetwork
<1>3. cur \in Scope /\ cur \in todo /\ cur \notin Responders
  BY DEF AdvertiserInv, OwnerInv, SoundPlan
<1>4. OwnerInv'
  BY <1>1, <1>2, <1>3 DEF AdvertiserInv, OwnerInv, Labels
<1>5. LibraryInv'
  BY <1>1, <1>3 DEF AdvertiserInv, LibraryInv, Closing
<1>6. DaemonInv'
  BY <1>1, <1>3 DEF AdvertiserInv, DaemonInv, OwnerInv
<1> QED BY <1>4, <1>5, <1>6 DEF AdvertiserInv

LEMMA RegisterRecordKeeps ==
  ASSUME AdvertiserInv, RegisterRecord
  PROVE  AdvertiserInv'
<1> USE DEF RegisterRecord, Goto, Failed, Deallocate
<1>1. Responders' = Responders
  BY DEF Responders
<1>2. SoundPlan(plan)'
  BY DEF AdvertiserInv, OwnerInv, SoundPlan, OnNetwork
<1>3. cur \in Scope /\ cur \in todo /\ cur \notin Responders /\ Connected = Responders \cup {cur}
  BY DEF AdvertiserInv, OwnerInv, SoundPlan, Connected
<1>4. CASE pc' = "record"
  <2>1. Connected' = Connected
    BY <1>1, <1>4 DEF Connected
  <2>2. OwnerInv'
    BY <1>1, <1>2, <1>3, <1>4 DEF AdvertiserInv, OwnerInv, Labels
  <2>3. LibraryInv'
    BY <1>1, <1>3, <1>4, <2>1 DEF AdvertiserInv, LibraryInv, Closing
  <2>4. DaemonInv'
    BY <1>1, <1>3, <1>4, <2>1 DEF AdvertiserInv, DaemonInv, OwnerInv
  <2> QED BY <2>2, <2>3, <2>4 DEF AdvertiserInv
<1>5. CASE pc' = "close"
  <2>1. Connected' = Responders
    BY <1>1, <1>5 DEF Connected
  <2>2. OwnerInv'
    BY <1>1, <1>2, <1>3, <1>5 DEF AdvertiserInv, OwnerInv, Labels
  <2>3. LibraryInv'
    BY <1>1, <1>3, <1>5, <2>1 DEF AdvertiserInv, LibraryInv, Closing
  <2>4. DaemonInv'
    BY <1>1, <1>3, <1>5, <2>1 DEF AdvertiserInv, DaemonInv, OwnerInv
  <2> QED BY <2>2, <2>3, <2>4 DEF AdvertiserInv
<1> QED BY <1>4, <1>5

LEMMA RegisterServiceKeeps ==
  ASSUME AdvertiserInv, RegisterService
  PROVE  AdvertiserInv'
<1> USE DEF RegisterService, Goto, Failed, Deallocate
<1>1. SoundPlan(plan)'
  BY DEF AdvertiserInv, OwnerInv, SoundPlan, OnNetwork
<1>2. cur \in Scope /\ cur \in todo /\ cur \notin Responders /\ Connected = Responders \cup {cur}
  BY DEF AdvertiserInv, OwnerInv, SoundPlan, Connected
<1>3. CASE pc' = "build"
  <2>1. closers' = Append(closers, cur)
    BY <1>3
  <2>2. /\ closers' \in Seq(Scope) /\ Distinct(closers') /\ closers' # <<>>
        /\ Responders' = Responders \cup {cur} /\ Connected' = Connected
    BY <2>1, <1>2, <1>3, AppendOne, AppendProperties
       DEF AdvertiserInv, OwnerInv, Responders, Connected
  <2> HIDE <2>1
  <2>3. OwnerInv'
    BY <1>1, <1>2, <1>3, <2>2 DEF AdvertiserInv, OwnerInv, Labels
  <2>4. LibraryInv'
    <3>1. /\ (conn \in [Scope -> {"none", "open", "freed"}])'
          /\ (svc \in [Scope -> {"none", "open", "freed"}])'
          /\ (pump \in [Scope -> {"none", "select", "poll", "process", "done"}])'
          /\ (stopped \subseteq Scope /\ broken \subseteq Connected)'
      BY <1>2, <1>3, <2>2 DEF AdvertiserInv, LibraryInv
    <3>2. \A s \in Scope : conn'[s] = "open" <=> s \in Connected'
      BY <1>3, <2>2 DEF AdvertiserInv, LibraryInv
    <3>3. \A s \in Scope \ {cur} :
            svc'[s] = svc[s] /\ pump'[s] = pump[s] /\ (s \in Responders' <=> s \in Responders)
      BY <1>3, <2>2 DEF AdvertiserInv, LibraryInv
    <3>4. svc'[cur] = "open" /\ cur \in Responders' /\ platform = "darwin" /\ platform' = platform
      BY <1>2, <1>3, <2>2 DEF AdvertiserInv, LibraryInv, OwnerInv
    <3> QED BY <1>2, <1>3, <3>1, <3>2, <3>3, <3>4 DEF AdvertiserInv, LibraryInv, Closing
  <2>5. DaemonInv'
    BY <1>2, <1>3, <2>2 DEF AdvertiserInv, DaemonInv, OwnerInv
  <2> QED BY <2>3, <2>4, <2>5 DEF AdvertiserInv
<1>4. CASE pc' = "close"
  <2>1. Responders' = Responders /\ Connected' = Responders
    BY <1>4 DEF Responders, Connected
  <2>2. OwnerInv'
    BY <1>1, <1>2, <1>4, <2>1 DEF AdvertiserInv, OwnerInv, Labels
  <2>3. LibraryInv'
    BY <1>2, <1>4, <2>1 DEF AdvertiserInv, LibraryInv, Closing
  <2>4. DaemonInv'
    BY <1>2, <1>4, <2>1 DEF AdvertiserInv, DaemonInv, OwnerInv
  <2> QED BY <2>2, <2>3, <2>4 DEF AdvertiserInv
<1> QED BY <1>3, <1>4

LEMMA StartServerKeeps ==
  ASSUME AdvertiserInv, StartServer
  PROVE  AdvertiserInv'
<1> USE DEF StartServer, Goto, Failed
<1>1. SoundPlan(plan)'
  BY DEF AdvertiserInv, OwnerInv, SoundPlan, OnNetwork
<1>2. cur \in Scope /\ cur \in todo /\ cur \notin Responders /\ Connected = Responders
  BY DEF AdvertiserInv, OwnerInv, SoundPlan, Connected
<1>3. CASE pc' = "build"
  <2>1. closers' = Append(closers, cur)
    BY <1>3
  <2>2. /\ closers' \in Seq(Scope) /\ Distinct(closers') /\ closers' # <<>>
        /\ Responders' = Responders \cup {cur} /\ Connected' = Responders'
    BY <2>1, <1>2, <1>3, AppendOne, AppendProperties
       DEF AdvertiserInv, OwnerInv, Responders, Connected
  <2> HIDE <2>1
  <2>3. OwnerInv'
    BY <1>1, <1>2, <1>3, <2>2 DEF AdvertiserInv, OwnerInv, Labels
  <2>4. LibraryInv'
    BY <1>2, <1>3, <2>2 DEF AdvertiserInv, LibraryInv, OwnerInv, Closing
  <2>5. DaemonInv'
    BY <1>2, <1>3, <2>2 DEF AdvertiserInv, DaemonInv, OwnerInv
  <2> QED BY <2>3, <2>4, <2>5 DEF AdvertiserInv
<1>4. CASE pc' = "close"
  <2>1. Responders' = Responders /\ Connected' = Responders
    BY <1>4 DEF Responders, Connected
  <2>2. OwnerInv'
    BY <1>1, <1>2, <1>4, <2>1 DEF AdvertiserInv, OwnerInv, Labels
  <2>3. LibraryInv'
    BY <1>2, <1>4, <2>1 DEF AdvertiserInv, LibraryInv, Closing
  <2>4. DaemonInv'
    BY <1>2, <1>4, <2>1 DEF AdvertiserInv, DaemonInv, OwnerInv
  <2> QED BY <2>2, <2>3, <2>4 DEF AdvertiserInv
<1> QED BY <1>3, <1>4

LEMMA CloseKeeps ==
  ASSUME AdvertiserInv, Close
  PROVE  AdvertiserInv'
<1> USE DEF Close, Goto, libVars
<1>1. Responders' = Responders /\ Connected' = Connected /\ Connected = Responders
  BY DEF Responders, Connected
<1>2. SoundPlan(plan)'
  BY DEF AdvertiserInv, OwnerInv, SoundPlan, OnNetwork
<1>3. OwnerInv'
  BY <1>1, <1>2 DEF AdvertiserInv, OwnerInv, Labels
<1>4. LibraryInv'
  BY <1>1 DEF AdvertiserInv, LibraryInv, Closing
<1>5. DaemonInv'
  BY <1>1 DEF AdvertiserInv, DaemonInv
<1> QED BY <1>3, <1>4, <1>5 DEF AdvertiserInv

(***************************************************************************)
(* The first closer has run: what is left of the list, and of the state.   *)
(***************************************************************************)
LEMMA HeadReleased ==
  ASSUME AdvertiserInv, pc \in {"close", "connection"}, closers # <<>>,
         platform' = platform, plan' = plan, todo' = todo, cur' = cur, status' = status,
         left' = left, closers' = Tail(closers), pc' = "close", Deallocate(Head(closers)),
         svc' = svc, pump' = pump, stopped' = stopped,
         svc[Head(closers)] # "open" /\ pump[Head(closers)] \in {"none", "done"}
  PROVE  AdvertiserInv'
<1> DEFINE h == Head(closers)
<1>1. /\ closers' \in Seq(Scope) /\ Distinct(closers') /\ h \in Responders /\ h \in Scope
      /\ Responders' = Responders \ {h} /\ Connected' = Responders' /\ Connected = Responders
  BY HeadOff DEF AdvertiserInv, OwnerInv, Responders, Connected
<1>2. SoundPlan(plan)'
  BY DEF AdvertiserInv, OwnerInv, SoundPlan, OnNetwork
<1> HIDE DEF h
<1>3. OwnerInv'
  BY <1>1, <1>2 DEF AdvertiserInv, OwnerInv, Labels
<1>4. LibraryInv'
  BY <1>1 DEF AdvertiserInv, LibraryInv, Deallocate, Closing, h
<1>5. DaemonInv'
  BY <1>1 DEF AdvertiserInv, OwnerInv, DaemonInv, Deallocate, h
<1> QED BY <1>3, <1>4, <1>5 DEF AdvertiserInv

LEMMA CloseNextKeeps ==
  ASSUME AdvertiserInv, CloseNext
  PROVE  AdvertiserInv'
<1> USE DEF CloseNext, Goto, libVars
<1>1. SoundPlan(plan)'
  BY DEF AdvertiserInv, OwnerInv, SoundPlan, OnNetwork
<1>2. CASE closers # <<>> /\ platform = "other"
  <2>1. Head(closers) \in Scope
    BY <1>2, HeadOff DEF AdvertiserInv, OwnerInv
  <2> QED BY <1>2, <2>1, HeadReleased DEF AdvertiserInv, LibraryInv
<1>3. CASE closers = <<>> \/ platform = "darwin"
  <2>1. Responders' = Responders /\ Connected' = Connected /\ Connected = Responders
    BY <1>3, SwitchAssumption DEF Responders, Connected
  <2>2. closers # <<>> => Head(closers) \in Scope
    BY HeadOff DEF AdvertiserInv, OwnerInv
  <2>3. OwnerInv'
    BY <1>1, <1>3, <2>1 DEF AdvertiserInv, OwnerInv, Labels
  <2>4. LibraryInv'
    BY <1>3, <2>1, <2>2 DEF AdvertiserInv, LibraryInv, Closing
  <2>5. DaemonInv'
    BY <1>3, <2>1 DEF AdvertiserInv, DaemonInv, OwnerInv
  <2> QED BY <2>3, <2>4, <2>5 DEF AdvertiserInv
<1> QED BY <1>2, <1>3 DEF AdvertiserInv, OwnerInv

LEMMA WaitForPumpKeeps ==
  ASSUME AdvertiserInv, WaitForPump
  PROVE  AdvertiserInv'
<1> USE DEF WaitForPump, Goto, libVars
<1>1. Responders' = Responders /\ Connected' = Connected /\ Connected = Responders
  BY DEF Responders, Connected
<1>2. SoundPlan(plan)'
  BY DEF AdvertiserInv, OwnerInv, SoundPlan, OnNetwork
<1>3. OwnerInv'
  BY <1>1, <1>2 DEF AdvertiserInv, OwnerInv, Labels
<1>4. LibraryInv'
  BY <1>1 DEF AdvertiserInv, LibraryInv, Closing
<1>5. DaemonInv'
  BY <1>1 DEF AdvertiserInv, DaemonInv
<1> QED BY <1>3, <1>4, <1>5 DEF AdvertiserInv

LEMMA DeallocateServiceKeeps ==
  ASSUME AdvertiserInv, DeallocateService
  PROVE  AdvertiserInv'
<1> USE DEF DeallocateService, Goto
<1>1. Responders' = Responders /\ Connected' = Connected /\ Connected = Responders
  BY DEF Responders, Connected
<1>2. SoundPlan(plan)'
  BY DEF AdvertiserInv, OwnerInv, SoundPlan, OnNetwork
<1>3. Head(closers) \in Scope /\ Head(closers) \in Responders
  BY HeadOff DEF AdvertiserInv, OwnerInv, Responders
<1>4. OwnerInv'
  BY <1>1, <1>2 DEF AdvertiserInv, OwnerInv, Labels
<1>5. LibraryInv'
  <2>1. /\ svc' \in [Scope -> {"none", "open", "freed"}] /\ svc'[Head(closers)] = "freed"
        /\ \A s \in Scope \ {Head(closers)} : svc'[s] = svc[s]
    BY <1>3 DEF AdvertiserInv, LibraryInv
  <2>2. /\ platform' = platform /\ platform = "darwin" /\ pc = "service" /\ pc' = "connection"
        /\ \A s \in Scope : Closing(s)' <=> s = Head(closers)
        /\ \A s \in Scope : Closing(s) <=> s = Head(closers)
    BY DEF AdvertiserInv, OwnerInv, Closing
  <2> QED BY <1>1, <1>3, <2>1, <2>2 DEF AdvertiserInv, LibraryInv
<1>6. DaemonInv'
  BY <1>1 DEF AdvertiserInv, OwnerInv, DaemonInv
<1> QED BY <1>4, <1>5, <1>6 DEF AdvertiserInv

LEMMA DeallocateConnectionKeeps ==
  ASSUME AdvertiserInv, DeallocateConnection
  PROVE  AdvertiserInv'
<1>1. closers # <<>> /\ Head(closers) \in Scope /\ pc = "connection"
  BY HeadOff DEF AdvertiserInv, OwnerInv, DeallocateConnection
<1>2. svc[Head(closers)] = "freed" /\ pump[Head(closers)] = "done"
  BY <1>1 DEF AdvertiserInv, LibraryInv, Closing
<1> QED BY <1>1, <1>2, HeadReleased DEF DeallocateConnection, Goto

(***************************************************************************)
(* A pump reads its connection only, and it is a responder's.              *)
(***************************************************************************)
LEMMA PumpStepKeeps ==
  ASSUME AdvertiserInv, NEW s \in Scope, PumpStep(s)
  PROVE  AdvertiserInv'
<1> USE DEF PumpStep, PumpSelect, PumpPoll, PumpProcess, PumpTo, controlVars
<1>1. Responders' = Responders /\ Connected' = Connected
  BY DEF Responders, Connected
<1>2. SoundPlan(plan)'
  BY DEF AdvertiserInv, OwnerInv, SoundPlan, OnNetwork
<1>3. s \in Responders /\ pump[s] \in {"select", "poll", "process"}
  BY DEF AdvertiserInv, LibraryInv
<1>4. OwnerInv'
  BY <1>1, <1>2 DEF AdvertiserInv, OwnerInv
<1>5. LibraryInv'
  BY <1>1, <1>3 DEF AdvertiserInv, OwnerInv, LibraryInv, Closing
<1>6. DaemonInv'
  BY <1>1 DEF AdvertiserInv, DaemonInv
<1> QED BY <1>4, <1>5, <1>6 DEF AdvertiserInv

LEMMA DaemonRestartKeeps ==
  ASSUME AdvertiserInv, DaemonRestart
  PROVE  AdvertiserInv'
<1> USE DEF DaemonRestart, controlVars
<1>1. Responders' = Responders /\ Connected' = Connected /\ broken' = Connected
  <2>1. Responders \subseteq Scope /\ Connected \subseteq Scope
    BY DEF AdvertiserInv, OwnerInv, SoundPlan, Connected
  <2>2. broken' = Connected
    BY <2>1 DEF AdvertiserInv, LibraryInv
  <2> QED BY <2>2 DEF Responders, Connected
<1>2. SoundPlan(plan)'
  BY DEF AdvertiserInv, OwnerInv, SoundPlan, OnNetwork
<1>3. OwnerInv'
  BY <1>1, <1>2 DEF AdvertiserInv, OwnerInv
<1>4. LibraryInv'
  BY <1>1 DEF AdvertiserInv, LibraryInv, Closing
<1>5. DaemonInv'
  BY <1>1 DEF AdvertiserInv, DaemonInv, Connected
<1> QED BY <1>3, <1>4, <1>5 DEF AdvertiserInv

LEMMA OwnerStepKeeps ==
  ASSUME AdvertiserInv, OwnerStep
  PROVE  AdvertiserInv'
BY StartResponderKeeps, BuiltKeeps, CreateConnectionKeeps, RegisterRecordKeeps,
   RegisterServiceKeeps, StartServerKeeps, CloseNextKeeps, WaitForPumpKeeps,
   DeallocateServiceKeeps, DeallocateConnectionKeeps
   DEF OwnerStep

LEMMA AdvertiserUntouched ==
  ASSUME AdvertiserInv, UNCHANGED advVars
  PROVE  AdvertiserInv'
<1> USE DEF advVars, controlVars, libVars
<1>1. Responders' = Responders /\ Connected' = Connected
  BY DEF Responders, Connected
<1>2. SoundPlan(plan)'
  BY DEF AdvertiserInv, OwnerInv, SoundPlan, OnNetwork
<1>3. OwnerInv'
  BY <1>1, <1>2 DEF AdvertiserInv, OwnerInv
<1>4. LibraryInv'
  BY <1>1 DEF AdvertiserInv, LibraryInv, Closing
<1>5. DaemonInv'
  BY <1>1 DEF AdvertiserInv, DaemonInv
<1> QED BY <1>3, <1>4, <1>5 DEF AdvertiserInv

-----------------------------------------------------------------------------
(* The program.                                                            *)

(***************************************************************************)
(* A step of the owner's inside a call goes on with the call or ends it;   *)
(* only a start changes the status.                                        *)
(***************************************************************************)
LEMMA OwnerGoesOn ==
  ASSUME AdvertiserInv, OwnerStep
  PROVE  /\ pc # "idle"
         /\ status' = status \/ (status = "starting" /\ status' \in {"open", "err"})
<1> USE DEF AdvertiserInv, OwnerInv
<1>1. CASE StartResponder \/ Built
  BY <1>1 DEF StartResponder, Built, Failed
<1>2. CASE CreateConnection \/ StartServer
  BY <1>2 DEF CreateConnection, StartServer, Failed
<1>3. CASE RegisterRecord \/ RegisterService
  BY <1>3 DEF RegisterRecord, RegisterService, Failed
<1>4. CASE CloseNext \/ WaitForPump \/ DeallocateService \/ DeallocateConnection
  BY <1>4 DEF CloseNext, WaitForPump, DeallocateService, DeallocateConnection
<1> QED BY <1>1, <1>2, <1>3, <1>4 DEF OwnerStep

LEMMA ProgramUntouched ==
  ASSUME ProgramInv, UNCHANGED <<pc, status, prog, runVars>>
  PROVE  ProgramInv'
BY DEF ProgramInv, OwnerAt, Drained, runVars

LEMMA OwnerStepProgram ==
  ASSUME ServeInv, OwnerStep, UNCHANGED <<prog, runVars>>
  PROVE  ProgramInv'
<1>1. /\ pc # "idle"
      /\ status' = status \/ (status = "starting" /\ status' \in {"open", "err"})
  BY OwnerGoesOn DEF ServeInv
<1>2. main \in {"advertising", "closing"}
  BY <1>1 DEF ServeInv, ProgramInv, OwnerAt, MainLabels
<1>3. OwnerAt'
  BY <1>1, <1>2 DEF ServeInv, ProgramInv, OwnerAt, runVars
<1>4. result # "bind"
  BY <1>2 DEF ServeInv, ProgramInv
<1> QED BY <1>2, <1>3, <1>4 DEF ServeInv, ProgramInv, Drained, runVars

(***************************************************************************)
(* Starting.                                                               *)
(***************************************************************************)
LEMMA ListenKeeps ==
  ASSUME ServeInv, Listen
  PROVE  ProgramInv'
BY DEF ServeInv, ProgramInv, OwnerAt, MainLabels, Drained, Listen, To, advVars, controlVars

LEMMA StartAdvertisingKeeps ==
  ASSUME ServeInv, StartAdvertising
  PROVE  ServeInv'
<1>1. PICK p : SoundPlan(p) /\ Enter(p)
  <2>1. \A ips \in ScopedIPs : ips \cap LoopbackIP = {}
    BY ScopeAssumption
  <2>2. ASSUME NEW ips, AdvertiseLocal(ips)
        PROVE  \E p : SoundPlan(p) /\ Enter(p)
    <3>1. CASE ips # {} /\ ips \subseteq LoopbackIP /\ platform = "darwin"
      BY <2>2, <3>1, LocalPlanSound, AddressAssumption DEF AdvertiseLocal
    <3>2. CASE ~(ips # {} /\ ips \subseteq LoopbackIP /\ platform = "darwin")
      BY <2>2, <3>2, EmptyPlan DEF AdvertiseLocal
    <3> QED BY <3>1, <3>2
  <2>3. ASSUME NEW ips \in ScopedIPs, AdvertiseScoped(ips)
        PROVE  \E p : SoundPlan(p) /\ Enter(p)
    BY <2>1, <2>3, ScopedPlanSound DEF AdvertiseScoped
  <2>4. ASSUME NEW only, Advertise(only)
        PROVE  \E p : SoundPlan(p) /\ Enter(p)
    BY <2>4, AdvertisePlanSound DEF Advertise
  <2> QED BY <2>2, <2>3, <2>4 DEF StartAdvertising
<1>2. AdvertiserInv'
  BY <1>1, EnterKeeps DEF ServeInv
<1>3. status' \in {"err", "starting"} /\ pc' \in {"idle", "build"}
  BY <1>1 DEF Enter, Goto, ServeInv, AdvertiserInv, OwnerInv
<1>4. ProgramInv'
  BY <1>3 DEF ServeInv, ProgramInv, OwnerAt, MainLabels, Drained, StartAdvertising, To
<1> QED BY <1>2, <1>4 DEF ServeInv

LEMMA DontAdvertiseKeeps ==
  ASSUME ServeInv, DontAdvertise
  PROVE  ProgramInv'
BY DEF ServeInv, ProgramInv, OwnerAt, MainLabels, Drained, DontAdvertise, To, advVars, controlVars

LEMMA AdvertisedKeeps ==
  ASSUME ServeInv, Advertised
  PROVE  ProgramInv'
<1>1. status \in {"open", "err"} /\ pc = "idle"
  BY DEF ServeInv, AdvertiserInv, OwnerInv, ProgramInv, OwnerAt, Advertised
<1> QED BY <1>1 DEF ServeInv, ProgramInv, OwnerAt, MainLabels, Drained, Advertised, To,
                    advVars, controlVars

LEMMA ReadyKeeps ==
  ASSUME ServeInv, Ready
  PROVE  ProgramInv'
BY DEF ServeInv, ProgramInv, OwnerAt, MainLabels, Drained, Ready, To, advVars, controlVars

(***************************************************************************)
(* Serving.                                                                *)
(***************************************************************************)
LEMMA ServeStepKeeps ==
  ASSUME ServeInv, ServeStep \/ AcceptFails
  PROVE  ProgramInv'
BY DEF ServeInv, ProgramInv, OwnerAt, MainLabels, Drained, ServeStep, AcceptFails, ServeEnds,
       advVars, controlVars

LEMMA ClientKeeps ==
  ASSUME ServeInv, NEW c \in Conn, Request(c) \/ Respond(c) \/ Drop(c)
  PROVE  ProgramInv'
<1> USE DEF Request, Respond, Drop, SetHTTP
<1>1. Drained => Drained'
  BY DEF ServeInv, ProgramInv, Drained
<1>2. http' \in [Conn -> {"none", "active", "idle", "closed"}]
  BY DEF ServeInv, ProgramInv
<1>3. UNCHANGED <<pc, status, prog, main, ctx, ln, serve, serveErr, shutdown, grace, result>>
  BY DEF advVars, controlVars
<1> QED BY <1>1, <1>2, <1>3 DEF ServeInv, ProgramInv, OwnerAt

(***************************************************************************)
(* Stopping.                                                               *)
(***************************************************************************)
LEMMA CancelKeeps ==
  ASSUME ServeInv, Cancel
  PROVE  ProgramInv'
BY DEF ServeInv, ProgramInv, OwnerAt, MainLabels, Drained, Cancel, advVars, controlVars

LEMMA KilledEarlyKeeps ==
  ASSUME ServeInv, KilledEarly
  PROVE  ServeInv'
<1> USE DEF KilledEarly
<1>1. Responders' = {} /\ Connected' = {}
  BY NoClosers DEF Responders, Connected
<1>2. SoundPlan(plan)'
  BY DEF ServeInv, AdvertiserInv, OwnerInv, SoundPlan, OnNetwork
<1>3. OwnerInv'
  BY <1>1, <1>2, NoClosers DEF ServeInv, AdvertiserInv, OwnerInv, Labels
<1>4. LibraryInv'
  BY <1>1 DEF LibraryInv, Closing
<1>5. DaemonInv'
  BY <1>1 DEF DaemonInv
<1>6. ProgramInv'
  BY DEF ServeInv, ProgramInv, OwnerAt, MainLabels, Drained, To
<1> QED BY <1>3, <1>4, <1>5, <1>6 DEF ServeInv, AdvertiserInv

LEMMA SelectKeeps ==
  ASSUME ServeInv, Select
  PROVE  ProgramInv'
<1>1. pc = "idle" /\ status \in {"none", "open", "err"} /\ main \in {"select", "ready"}
  BY DEF ServeInv, ProgramInv, OwnerAt, Select
<1> QED BY <1>1 DEF ServeInv, ProgramInv, OwnerAt, MainLabels, Drained, Select, Return, To,
                    advVars, controlVars

LEMMA DrainKeeps ==
  ASSUME ServeInv, Drain
  PROVE  ProgramInv'
<1>1. pc = "idle" /\ status \in {"none", "open", "err"} /\ main = "drain"
  BY DEF ServeInv, ProgramInv, OwnerAt, Drain
<1>2. http' \in [Conn -> {"none", "active", "idle", "closed"}]
  BY DEF ServeInv, ProgramInv, Drain
<1>3. main' = "await" => Drained'
  BY <1>2 DEF ServeInv, ProgramInv, Drained, Drain, Return, To
<1>4. UNCHANGED <<pc, status, prog, ctx, ln, serve, serveErr, shutdown, grace>>
  BY DEF Drain, advVars, controlVars
<1>5. \/ main' = "await" /\ result' = result
      \/ /\ result' = "timeout"
         /\ main' = IF status = "open" THEN "defers" ELSE "unlisten"
  BY DEF Drain, Return, To
<1> QED BY <1>1, <1>2, <1>3, <1>4, <1>5 DEF ServeInv, ProgramInv, OwnerAt, MainLabels

LEMMA AwaitServeKeeps ==
  ASSUME ServeInv, AwaitServe
  PROVE  ProgramInv'
<1>1. pc = "idle" /\ status \in {"none", "open", "err"} /\ main = "await"
  BY DEF ServeInv, ProgramInv, OwnerAt, AwaitServe
<1> QED BY <1>1 DEF ServeInv, ProgramInv, OwnerAt, MainLabels, Drained, AwaitServe, Return, To,
                    advVars, controlVars

LEMMA DeferredCloseKeeps ==
  ASSUME ServeInv, DeferredClose
  PROVE  ProgramInv'
BY DEF ServeInv, ProgramInv, OwnerAt, MainLabels, Drained, DeferredClose, Close, To

LEMMA ClosedKeeps ==
  ASSUME ServeInv, Closed
  PROVE  ProgramInv'
BY DEF ServeInv, ProgramInv, OwnerAt, MainLabels, Drained, Closed, To, advVars, controlVars

LEMMA UnlistenKeeps ==
  ASSUME ServeInv, Unlisten
  PROVE  ProgramInv'
BY DEF ServeInv, ProgramInv, OwnerAt, MainLabels, Drained, Unlisten, To, advVars, controlVars

LEMMA GraceExpiresKeeps ==
  ASSUME ServeInv, GraceExpires
  PROVE  ProgramInv'
BY DEF ServeInv, ProgramInv, OwnerAt, MainLabels, Drained, GraceExpires, advVars, controlVars

-----------------------------------------------------------------------------
(* The invariant holds.                                                    *)

LEMMA ServeStarts == Init => ServeInv
<1> SUFFICES ASSUME Init PROVE ServeInv
  OBVIOUS
<1>1. AdvertiserInv
  BY AdvertiserStarts DEF Init
<1>2. ProgramInv
  BY ProgramAssumption DEF Init, AdvertiserInit, ProgramInv, OwnerAt, MainLabels, Drained
<1> QED BY <1>1, <1>2 DEF ServeInv

LEMMA ServeKeeps == ServeInv /\ [Next]_vars => ServeInv'
<1> SUFFICES ASSUME ServeInv, [Next]_vars PROVE ServeInv'
  OBVIOUS
<1>1. CASE OwnerStep /\ UNCHANGED <<prog, runVars>>
  BY <1>1, OwnerStepKeeps, OwnerStepProgram DEF ServeInv
<1>2. CASE StartAdvertising
  BY <1>2, StartAdvertisingKeeps
<1>3. CASE KilledEarly
  BY <1>3, KilledEarlyKeeps
<1>4. CASE DeferredClose
  <2>1. Close
    BY <1>4 DEF DeferredClose
  <2> QED BY <1>4, <2>1, CloseKeeps, DeferredCloseKeeps DEF ServeInv
<1>5. CASE UNCHANGED advVars /\ ProgramInv'
  BY <1>5, AdvertiserUntouched DEF ServeInv
<1>6. CASE Listen \/ DontAdvertise \/ Advertised \/ Ready
  BY <1>5, <1>6, ListenKeeps, DontAdvertiseKeeps, AdvertisedKeeps, ReadyKeeps
     DEF Listen, DontAdvertise, Advertised, Ready
<1>7. CASE Select \/ Drain \/ AwaitServe \/ Closed \/ Unlisten
  BY <1>5, <1>7, SelectKeeps, DrainKeeps, AwaitServeKeeps, ClosedKeeps, UnlistenKeeps
     DEF Select, Drain, AwaitServe, Closed, Unlisten
<1>8. CASE ServeStep \/ AcceptFails \/ Cancel \/ GraceExpires
  BY <1>5, <1>8, ServeStepKeeps, CancelKeeps, GraceExpiresKeeps
     DEF ServeStep, AcceptFails, Cancel, GraceExpires
<1>9. ASSUME NEW c \in Conn, Request(c) \/ Respond(c) \/ Drop(c)
      PROVE  ServeInv'
  BY <1>5, <1>9, ClientKeeps DEF Request, Respond, Drop, SetHTTP
<1>10. ASSUME NEW s \in Scope, PumpStep(s), UNCHANGED <<prog, runVars>>
       PROVE  ServeInv'
  <2>1. UNCHANGED <<pc, status>>
    BY <1>10 DEF PumpStep, PumpSelect, PumpPoll, PumpProcess, PumpTo, controlVars
  <2> QED BY <1>10, <2>1, PumpStepKeeps, ProgramUntouched DEF ServeInv
<1>11. CASE DaemonRestart /\ UNCHANGED <<prog, runVars>>
  <2>1. UNCHANGED <<pc, status>>
    BY <1>11 DEF DaemonRestart, controlVars
  <2> QED BY <1>11, <2>1, DaemonRestartKeeps, ProgramUntouched DEF ServeInv
<1>12. CASE UNCHANGED vars
  BY <1>12, AdvertiserUntouched, ProgramUntouched DEF ServeInv, vars, advVars, controlVars
<1> QED BY <1>1, <1>2, <1>3, <1>4, <1>6, <1>7, <1>8, <1>9, <1>10, <1>11, <1>12
           DEF Next, MainStep

LEMMA ServeInvariant == Spec => []ServeInv
BY ServeStarts, ServeKeeps, PTL DEF Spec

-----------------------------------------------------------------------------
(* What it implies.                                                        *)

(***************************************************************************)
(* Every connection belongs to a scope of the plan.                        *)
(***************************************************************************)
LEMMA ConnectedPlanned ==
  ASSUME ServeInv
  PROVE  Connected \subseteq DOMAIN plan /\ DOMAIN plan \subseteq Scope
BY DEF ServeInv, AdvertiserInv, OwnerInv, Connected, SoundPlan

(***************************************************************************)
(* Types: Advertiser and Serve keep their variables in range, for any      *)
(* network interfaces, addresses and failures.                             *)
(***************************************************************************)
THEOREM TypeCorrect == Spec => []TypeOK
<1>1. ServeInv => TypeOK
  <2> SUFFICES ASSUME ServeInv PROVE TypeOK
    OBVIOUS
  <2> USE DEF ServeInv, AdvertiserInv
  <2>1. ASSUME NEW r \in daemon
        PROVE  r \in Scope \X (Addr \cup {IPv6Loopback, Service})
    <3>1. PICK s \in Connected : \E x \in plan[s] \cup {Service} : r = <<s, x>>
      BY DEF DaemonInv
    <3> QED BY <3>1, ConnectedPlanned DEF OwnerInv, SoundPlan
  <2>2. Responders \subseteq Scope /\ broken \subseteq Scope
    BY ConnectedPlanned DEF OwnerInv, LibraryInv, Connected
  <2>3. ToSet(closers) \subseteq Scope /\ todo \subseteq DOMAIN plan
    BY <2>2 DEF Responders, OwnerInv
  <2> QED BY <2>1, <2>2, <2>3 DEF TypeOK, OwnerInv, SoundPlan, LibraryInv, ProgramInv
<1> QED BY <1>1, ServeInvariant, PTL

(***************************************************************************)
(* An open Advertiser answers with every address of its plan and with the  *)
(* service on each interface, and with nothing else, as long as the system *)
(* responder has not restarted: none of build's early returns and no order *)
(* of its loop loses a record (build of mdns.go, register of               *)
(* mdns_darwin.go).                                                        *)
(***************************************************************************)
THEOREM Published == Spec => []PublishedWhileOpen
<1>1. ServeInv => PublishedWhileOpen
  <2> SUFFICES ASSUME ServeInv, status = "open", broken = {}
               PROVE  daemon = UNION {{s} \X (plan[s] \cup {Service}) : s \in DOMAIN plan}
    BY DEF PublishedWhileOpen
  <2> USE DEF ServeInv, AdvertiserInv
  <2>1. DOMAIN plan = Responders /\ Connected = Responders
    BY DEF OwnerInv, Connected
  <2>2. \A r \in daemon : \E s \in DOMAIN plan : \E x \in plan[s] \cup {Service} : r = <<s, x>>
    BY <2>1 DEF DaemonInv
  <2>3. \A s \in DOMAIN plan : \A x \in plan[s] \cup {Service} : <<s, x>> \in daemon
    BY <2>1 DEF DaemonInv
  <2> QED BY <2>2, <2>3
<1> QED BY <1>1, ServeInvariant, PTL

(***************************************************************************)
(* No interface ever answers with an address outside its own subnets, and  *)
(* 127/8 and ::1 never leave the machine (ifaceIPv4s, lan.InterfaceForIP   *)
(* and the LocalOnly scope of startScopedLocal).                           *)
(***************************************************************************)
THEOREM Scoped == Spec => []ScopedToTheirNetwork
<1>1. ServeInv => ScopedToTheirNetwork
  <2> SUFFICES ASSUME ServeInv, NEW s \in Iface, NEW r \in Addr \cup {IPv6Loopback},
                      <<s, r>> \in daemon
               PROVE  OnNetwork(s, r)
    BY DEF ScopedToTheirNetwork, OnNetwork
  <2> USE DEF ServeInv, AdvertiserInv
  <2>1. s \in Connected /\ r \in plan[s] \cup {Service}
    BY DEF DaemonInv
  <2>2. r \in plan[s] /\ s \in DOMAIN plan
    BY <2>1, AddressAssumption, ConnectedPlanned
  <2> QED BY <2>2 DEF OwnerInv, SoundPlan
<1> QED BY <1>1, ServeInvariant, PTL

(***************************************************************************)
(* A pump inside DNSServiceProcessResult has its connection and service    *)
(* refs allocated: closing the stop channel and waiting for the goroutine  *)
(* before each DNSServiceRefDeallocate is enough, whatever step of the     *)
(* pump and of the daemon comes between (mdns_darwin.go, pump and the      *)
(* closer of register).                                                    *)
(***************************************************************************)
THEOREM RefsOutliveThePump == Spec => []NoUseAfterFree
<1>1. ServeInv => NoUseAfterFree
  <2> SUFFICES ASSUME ServeInv, NEW s \in Scope
               PROVE  /\ pump[s] = "process" => conn[s] = "open" /\ svc[s] = "open"
                      /\ conn[s] = "freed" => svc[s] # "open"
    BY DEF NoUseAfterFree
  <2> USE DEF ServeInv, AdvertiserInv, LibraryInv
  <2>1. CASE s \in Responders
    <3>1. conn[s] = "open"
      BY <2>1 DEF Connected
    <3>2. pump[s] = "process" => svc[s] = "open"
      BY <2>1 DEF OwnerInv
    <3> QED BY <3>1, <3>2
  <2>2. CASE s \notin Responders
    BY <2>2
  <2> QED BY <2>1, <2>2
<1> QED BY <1>1, ServeInvariant, PTL

(***************************************************************************)
(* A start that failed half way, at whatever call, and a Close leave no    *)
(* record, no connection and no goroutine behind (build closes what it has *)
(* started, register deallocates its connection).                          *)
(***************************************************************************)
THEOREM StartsAreAllOrNothing == Spec => []NothingLeftBehind
<1>1. ServeInv => NothingLeftBehind
  BY NothingBetweenCalls DEF ServeInv, NothingLeftBehind
<1> QED BY <1>1, ServeInvariant, PTL

(***************************************************************************)
(* When Run or keep has returned, whichever way, the listener is closed    *)
(* and the name is not advertised; a Run that could not bind never         *)
(* advertised (the defers of dotlocal.go:Run and of main.go:keep).         *)
(***************************************************************************)
THEOREM ReturnsWithdraw == Spec => []EverythingWithdrawn
<1>1. ServeInv => EverythingWithdrawn
  <2> SUFFICES ASSUME ServeInv, main = "done"
               PROVE  /\ ln # "open" /\ daemon = {} /\ \A s \in Scope : conn[s] # "open"
                      /\ result = "bind" => status = "none"
    BY DEF EverythingWithdrawn
  <2>1. pc = "idle" /\ status # "open"
    BY DEF ServeInv, ProgramInv, OwnerAt
  <2> QED BY <2>1, NothingBetweenCalls DEF ServeInv, ProgramInv
<1> QED BY <1>1, ServeInvariant, PTL

(***************************************************************************)
(* Run returns nil only after a cancellation, with no request cut off or   *)
(* running and Serve's goroutine ended, also when the cancellation beats   *)
(* the goroutine to it (dotlocal.go:Run, the select and what follows it).  *)
(***************************************************************************)
THEOREM NilMeansClean == Spec => []NilIsClean
<1>1. ServeInv => NilIsClean
  BY DEF ServeInv, ProgramInv, Drained, NilIsClean
<1> QED BY <1>1, ServeInvariant, PTL

=============================================================================
