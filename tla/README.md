# A TLA+ model of dotlocal

dotlocal gives a local HTTP service a name (`<name>.local` over mDNS) and a
bare URL: a dedicated alias IP, and a firewall redirect from the alias's public
port to the service's unprivileged one. These modules model it from the
firewall commands up to the service manager, check it with TLC, and prove the
results that matter most with TLAPS.

## Inventory

| part | source | state | operations | what is hard |
|---|---|---|---|---|
| port80 core | `port80/port80.go` | one state file per name in `/var/run/dotlocal` | `Up`, `Down`, `Verify`, `Reassert`, `Status` | no lock; a record is read, worked on and written back; a save is two system calls; /var/run is empty after a reboot |
| pf backend | `port80/port80_darwin.go` | alias IPs and host routes, the sub-anchor `com.apple/<name>`, pf's enable references, `skip` flags, the main ruleset | `applyUp`, `applyDown`, `verifyUp`, `reapply`, `clearPFSkip` | up to a dozen commands per call, each of which can fail, interleave with other processes or be overtaken by VPNs, Internet Sharing, `pfctl -f` and `pfctl -d` |
| nftables backend | `port80/port80_linux.go` | alias IPs, one nft table per name | the same four | the table is torn down and rebuilt on every heal; roll-back deletes by name |
| stub backend | `port80/port80_other.go` | none | all return `ErrUnsupported` | nothing |
| commands and keeper | `cmd/dotlocal/main.go` | the keeper's options and timer | `up`, `down`, `status`, `keep` | keep reads the status, then acts on it; it heals on a timer while `up`/`down` run beside it |
| service installation | `cmd/dotlocal/service_*.go`, `exec_unix.go` | a launchd plist or systemd unit | `service install`, `service uninstall` | the service manager restarts a keeper that an uninstall is about to remove |
| mDNS advertiser | `mdns/mdns.go` | the list of closers | `Advertise`, `AdvertiseScoped`, `AdvertiseLocal`, `Close` | several registrations, any of which can fail half-way |
| macOS responder | `mdns/mdns_darwin.go` | a dns_sd connection, a pump goroutine | `register`, its closer | closing while the pump may be inside the library; a restart of mDNSResponder |
| other responder | `mdns/mdns_other.go` | a hashicorp/mdns server | `startResponder` | a thin call |
| `dotlocal.Run` | `dotlocal.go` | listener, advertiser, server | `Run` | cancellation races serving; the shutdown grace is shorter than the write timeout |
| LAN helpers | `internal/lan/lan.go` | none | `ValidLabel`, `InterfaceForIP` | pure functions |

The parts interact through calls (keep calls `port80` and `mdns`; the service
definition runs keep) and through shared state that belongs to the machine: the
state file, the interfaces, the routing table and the firewall. The last is why
the model's state is the machine's and not the program's.

What makes each part correct:

- **port80**: a call that returns nil has done what it says, unless somebody
  else interfered; a call that fails leaves nothing behind that no record
  covers; `Down` always unblocks `Up`; nothing leaks over many heals.
- **pf**: a heal never takes traffic down; a binding never takes a pf reference
  from another binding or from other software; `Verify` never vouches for a
  binding that is not in force.
- **nftables**: the same contracts with other commands.
- **keeper**: a disturbed binding comes to be in force again; a restart of the
  keeper does not flap it.
- **service**: an install takes effect whatever was there before; after an
  uninstall nothing can bring the binding back.
- **advertiser**: while it is open, exactly the planned addresses are answered,
  each on its own network; no registration outlives `Close` or a failed start.
- **Run**: nothing is advertised before the bind, everything is withdrawn after
  the return, `Run` returns after a cancellation.

## Modules

| module | models |
|---|---|
| `Port80` | `port80.go`: entering and leaving the four calls, the state file |
| `Port80Pf` | `port80_darwin.go` and the machine under it; EXTENDS `Port80` |
| `Port80Nft` | `port80_linux.go` and the machine under it; EXTENDS `Port80` |
| `Port80Props` | what the properties of both backends share |
| `Port80PfProps`, `Port80NftProps` | type invariant and properties of a backend; EXTEND `Port80Props` and the backend |
| `Port80Proofs` | lemmas about records and options that both backends' proofs cite |
| `Port80PfProofs` | theorems about pf: types, references |
| `Port80PfContractProofs` | theorems about pf: the contracts of the four calls, heals that tear nothing down |
| `Port80PfSerialProofs` | theorems about pf with callers that keep calls on one name apart |
| `Port80BindingProofs` | lemmas of both refinement proofs: how the history keeps up with a call, which step of `Binding` a step of a call is |
| `Port80NftProofs` | theorems about nftables |
| `Binding` | abstract: one binding, a call being two steps |
| `Port80Binding` | the history variable and the refinement mapping of either backend to `Binding` |
| `Port80PfBinding`, `Port80NftBinding` | a backend with that history |
| `Keep` | `keep`, `up`, `down`, `service install`, `service uninstall` and the service manager; EXTENDS `Binding` |
| `KeepProps`, `KeepProofs` | its properties, and the theorems about them |
| `Advertiser` | package `mdns` and mDNSResponder |
| `Serve` | `dotlocal.Run`, and keep as an owner of an Advertiser; EXTENDS `Advertiser` |
| `ServeProps`, `ServeProofs` | the properties of both, and the theorems about them |
| `MCPort80Pf`, `MCPort80Nft`, `MCPort80PfBinding`, `MCPort80NftBinding`, `MCKeep`, `MCServe` | instances for TLC |

    Port80Pf, Port80Nft  --implement-->  Binding  <--EXTENDS--  Keep
                                         Advertiser  <--EXTENDS--  Serve

The commands of a call are interleaved in `Port80Pf` and `Port80Nft`; the calls
of several programs are interleaved in `Keep`, where the commands are hidden
behind `Binding`. That is what makes the daemon small enough for liveness.

### port80: how state and actions correspond to the code

A *process* `p \in Proc` is a root process that uses the package: a CLI command
or a keeper. `pc[p]` names the next external command or system call of its
call, `"idle"` outside a call. Every step of a process is one of them, so other
processes and the rest of the machine run between any two. `Port80` has the
entry of the calls and everything about the state file; a backend fills in the
commands between the load and the save, starting at `"alias"`, `"has"` or
`"teardown"`. Shared by both backends:

| variable | code |
|---|---|
| `file[n]` | `/var/run/dotlocal/<n>.json`: absent, a record, or `Torn` (truncated or mixed: `json.Unmarshal` fails) |
| `fd` | processes between `O_TRUNC` and the write of `os.WriteFile` whose descriptor is still the file under that name |
| `call[p]`, `st[p]`, `todo[p]`, `ret[p]` | the call p is in, its `*State`, what its `for _, a := range s.Aliases` has still to visit, the error it has noted |
| `calm` | history, read by properties only: processes whose binding nobody else has changed since their call began |

| action | code |
|---|---|
| `Up`, `Down`, `Verify`, `Reassert` | the entry of the four calls |
| `LoadForUp`, `LoadRecord` | `loadState` |
| `SaveTruncate`, `SaveWrite`, `ClearState` | the two halves of `os.WriteFile`, `os.Remove` |
| `Kill` | an interrupt: the commands install no signal handler |
| `RebootCalls` | a reboot, which empties `/var/run` |

### pf

| variable | code |
|---|---|
| `alias`, `reject` | addresses on interfaces; addresses shadowed by an orphaned REJECT host route |
| `undeleted` | history, read by properties only: those of `reject` that a `route delete` has failed to delete |
| `anchor[n]` | the rules in the sub-anchor `com.apple/<n>` |
| `ref[t]` | who holds pf enable reference `t`; pf is on while anybody holds one |
| `skip`, `main` | interfaces flagged `set skip`; the anchors attached to the main ruleset, each in its section: the stock `com.apple/*` wildcard of the filter, translation and dummynet sections, and the translation anchor of Internet Sharing |
| `dump[p]` | what `clearPFSkip` has read of the main ruleset so far |

The path of each call through the commands (a failing command takes the
roll-back path of the code):

    Up        load, (alias, add)*, wild, rules, enable, save, write
    Down      load, teardown, release, (del, unroute)*, clear
    Verify    load, has*, rdr, status, skip
    Reassert  load, (has | has, alias, add)*, wild, skip,
              [dump, dumpnat, dumpdummynet, main], rules, status, [enable],
              save, write
    roll-back of Up: undo* after a failing command, unload first when pfctl -E
              fails; teardown .. unroute when the save fails

| action | command |
|---|---|
| `HasAlias`, `AddAlias`, `UndoAlias`, `DeleteAlias` | `ifconfig` |
| `DeleteStaleRoute`, `DeleteClonedRoute` | `route -n delete` before an alias is added and after one is removed; both drop its error |
| `EnsureAppleRdrAnchor`, `AnchorHoldsRules` | `pfctl -sn`, `pfctl -a .. -sn` |
| `PFLoadAnchor`, `FlushForDown`, `UnloadAfterFailedEnable` | `pfctl -a .. -f -`, `pfctl -a .. -F all` |
| `PFStatus`, `PFEnable`, `ReleasePF` | `pfctl -s info`, `-E`, `-X <token>` or `-d` |
| `SkippedAliasIfaces` | `pfctl -s Interfaces -v` |
| `DumpFilter`, `DumpNat`, `DumpDummynet`, `LoadMainRuleset` | `clearPFSkip`: `pfctl -s rules`, `-s nat`, `-s dummynet` (whose failure is an empty section) with the look for `com.apple/*`, and the load |
| `Outside*`, `InternetSharing`, `Reboot` | the interference CAVEATS.md describes |

### nftables

| variable | code |
|---|---|
| `alias` | addresses on interfaces |
| `table[n]` | the nft table n: absent, without a chain, or its rules with their multiplicity |
| `left[p]` | the rules p's call has still to add |

    Up        load, alias*, table, chain, rule*, save, write
    Down      load, teardown, del*, clear
    Verify    load, has*, list
    Reassert  load, (has | has, alias)*, drop, table, chain, rule*, save, write
    roll-back of Up: untable, undo* after a failing command; teardown, del*
              when the save fails

| action | command |
|---|---|
| `HasAlias`, `AddAlias`, `UndoAlias`, `DeleteAlias` | `ip addr show`, `add`, `del` |
| `AddTable`, `AddChain`, `AddRule` | `nft add table`, `add chain`, `add rule` |
| `DropTable`, `RollbackTable`, `DeleteTable` | `nft delete table` in `reapply`, in the roll-back and in `applyDown` |
| `ListTable` | `nft list table` |
| `OutsideFlush`, `OutsideAliasLoss`, `Reboot` | `nft flush`, a reconfigured interface, a reboot |

### Binding, and how the backends implement it

`Binding` sees one name: `rec` (the record), `host` (`"inforce"` when the legs
that `Verify` looks at hold, `"clean"` when nothing of the binding is there,
`"damaged"` otherwise), `job[p]` (the call p is in, with the record it loaded)
and `ret[p]` (what its last call returned; `Keep` has no use for it and sets
`RememberResults` to FALSE, the backends are shown to implement it with TRUE). A call begins (`Begin`) and ends (`EndUp`, `EndDown`,
`EndVerify`, `EndReassert`, or `Refuse` when the record says so); in between
others may end their calls or `Interfere`. What a call may do is as loose as
the code needs: a failed `Up` has rolled back unless removals fail, a call that
overlaps another one may end anywhere, a `Down` always forgets the record
unless removing the file fails, and `Up` may succeed without being in force,
since it does not look at pf's `skip` flags.

The refinement (`ImplementsBinding`) is for callers that keep calls on one name
apart (`Serial`), which is when a call can be atomic. Its commands take effect
early and its result is known late, so the abstract state lags behind: the
history variable `hist[n]` keeps what a caller saw before the running call, and
takes over the concrete record and machine when the call returns. The mapping
is `INSTANCE Binding WITH rec <- hist[n].rec, ...`. It is checked from every
initial state and on every step (the conjunction of the initial predicate and
of `[][...]` in `ImplementsBinding`). The options of one name share their
aliases there: with different ones a killed `Up` leaves aliases that no
recorded binding covers, and `Down` cannot make the machine clean. Kills are in
the Linux instance; in the macOS one failures and interference are.

### Keep

Two processes use `Binding`: the keeper and an administrator who gives one
command at a time. Their calls overlap as they may (`mixed`).

| variable | code |
|---|---|
| `unit`, `loaded` | the flags in the plist or unit file; those that launchd or systemd has read |
| `active`, `enabled` | the service manager keeps the keeper running; systemd starts it at boot |
| `advertises` | keep can advertise: not with `--local` on Linux, where `AdvertiseLocal` always returns an error |
| `kpc`, `kflags`, `term` | where `cmdKeep` is, its flags, a SIGTERM waiting in `stop` |
| `cmd` | the administrator's command and its next step; `cmd.stopped`, a history, is FALSE when a stop of the service has failed during it |
| `cmds`, `upsets` | bounds: commands and misfortunes that are left |

| action | code |
|---|---|
| `Status` | `port80.Status` and the switch of `cmdKeep`, with `SameBinding` and `ApplyDefaults` |
| `KeeperBegins`, `KeeperEnds`, `AfterCall` | the calls at the start, on the tick and after a failed Verify, and what follows each |
| `Advertise`, `Stopped` | the registration up to `signal.Notify`, or the end of the process where there is no `AdvertiseLocal`; the `stop` case of the loop |
| `Start`, `Launch`, `Signal`, `Die` | KeepAlive / Restart=always; SIGTERM, fatal before `signal.Notify` |
| `Issue`, `AdminBegins`, `AdminEnds` | `cmdUp`, `cmdDown`, and the `Down` of an uninstall |
| `WriteUnit`, `StopService`, `Gone`, `Bootstrap`, `RemoveUnit` | `service_darwin.go`: write, bootout, bootstrap, remove |
| `WriteUnit`, `DaemonReload`, `EnableNow`, `Restart`, `Restarted`, `StopService`, `Gone`, `RemoveUnit` | `service_linux.go`: write, daemon-reload, enable --now, restart, disable --now, remove |
| `StopFails`, `ReloadFails` | misfortunes whose errors the code drops: `bootout` or `disable --now` has done nothing (though systemd may have disabled the unit), or `bootout` returns while the process is still ending (EINPROGRESS); `daemon-reload` of an uninstall has done nothing |
| `AdminFails`, `KeeperFails`, `KeeperDies`, `OutsideInterference`, `MachineReboots` | other misfortunes |

A call may end in any way `Binding` allows. An end that needs a command to fail
by itself costs an upset (`Expected` says which do not), so failures are finite
in number and liveness is not refuted by a machine where nothing ever works.
A missing `com.apple/*` wildcard, with which `Reassert` fails for ever, is such
a machine. On Linux what a killed `Up` leaves behind makes `ip addr add` fail
again and again: that one is free, and is what `doc_install_wedges` finds.
Torn records are free once they exist. Unless they fail, `bootout`, `disable
--now` and `restart` return when the process has ended; a stop that times out
and becomes a SIGKILL is a `KeeperDies`. `launchctl bootstrap` is refused while
the old job is loaded or its process still there. An install or uninstall whose
stop has failed goes on, as the code does, beside a keeper that may be in any
call. The aliases of all flags are the same; flags differ in ports.

### Advertiser and Serve

| variable | code |
|---|---|
| `plan[s]` | `byIface` (and the LocalOnly scope): addresses to register in scope s |
| `closers`, `conn[s]`, `svc[s]`, `pump[s]`, `stopped` | `adv.closers`, and per scope `ref`, `svcRef`, the goroutine, the `stop` channel |
| `daemon`, `broken` | what is answered on the network; connections that a restart of mDNSResponder has cut |
| `ln`, `serve`, `serveErr`, `shutdown`, `grace`, `http[c]` | the listener, the goroutine of `srv.Serve`, its channel, `inShutdown`, the timeout of `shutCtx`, a connection |
| `main`, `ctx`, `result` | where `Run` (or keep) is, its cancelled context (or SIGTERM), what it returned |

`StartResponder`, `CreateConnection`, `RegisterRecord`, `RegisterService` are
the calls of `build` and `register` in order, each of which may fail into
`Failed`; `CloseNext`, `WaitForPump`, `DeallocateService`,
`DeallocateConnection` are the closer; `PumpSelect`, `PumpPoll`, `PumpProcess`
are the goroutine. Off macOS a responder is one step (`StartServer`). `Serve`
adds `Listen` .. `Ready`, `Select`, `Drain`, `AwaitServe` and the deferred
calls of `Run`; `http.Server` (`ServeStep`, `AcceptFails`, `Request`,
`Respond`, `Drop`) is modelled from its use. A cut connection stays readable,
so the pump spins on it; `DNSServiceProcessResult` returns an error that is
ignored.

### Abstractions

- Options are those after `applyDefaults` and `validate`; a port stands for a
  redirect (public port and target port). Masks, prefixes and the text of rules
  are left out. Values in a state file are always ones the program wrote, so
  the second `validate` of `Down` and `Reassert` never fires; a torn file is a
  parse error.
- Aliases of different names are disjoint (`DedicatedAliases`; the README asks
  for an IP of the service's own).
- The main ruleset is what is attached to it. Its translation section is one
  section: `nat-anchor` and `rdr-anchor` lines, which `pfctl -s nat` shows
  together, are not told apart, and neither are the scrub and filter anchors of
  `pfctl -s rules`.
- The order of the aliases in a loop is some fixed one.
- The kernel never hands out a token that somebody still knows.
- A rule that is in an nft chain twice or more often counts as twice
  (`Chain`), and the order of the rules of a chain is left out: the rules of a
  binding match disjoint traffic.

Switches of an instance: `Faults` (which kinds of command may fail, and whether
processes get killed), `Interference` (what the rest of the machine does),
`Serial` (whether callers keep calls on one name apart; the code does not).

## Runs

Each takes from seconds to three minutes.

| run | instance | faults | outside | shows |
|---|---|---|---|---|
| `interference` | pf, 1 process, 2 aliases (LAN and loopback), 2 tokens | add, route, pf, clear | everything but `pfctl -f` | contracts of the four calls, `NoReferenceLeak`, `NoOrphans`, `ReferencesRespected`, `ImplementsBinding` |
| `reload` | the same, 1 token | pf, parse | `pfctl -f` and flushes between any two commands, also between two dumps; `pfctl -d`, sharing, reboot | `ReassertContract`, `ReassertInPlace` |
| `races` | pf, 2 processes, the same binding with 1 alias, 2 tokens | all but parse and clear | flushes, `pfctl -d`, lost aliases, reboot | contracts of the calls that change something, over what overlapping, failing and killed calls on one name have left; `DownUnblocks` |
| `nft_interference` | nft, 1 process, 2 aliases, 2 ports | add, nft, save, clear, kill | flushed tables, lost aliases, reboot | contracts of the four calls, `ImplementsBinding` |
| `nft_races` | nft, 2 processes, 1 or 2 aliases | all but clear | flushed tables, reboot | contracts over what overlapping, failing and killed calls on one name have left; `DownUnblocks` |
| `keep` | both service managers, with and without `--local`, two sets of flags, 2 commands | 2 upsets of any kind | in the upsets | `Heals`, `InstallTakesEffect`, `UninstallIsFinal`, `CommandsEnd` |
| `serve` | both programs and responders, 4 interfaces, 2 connections | all | restarts of mDNSResponder | the registrations and the shutdown, see below |

Faults: `add` and `del` are failing address commands, `route` failing `route
delete`s, `unload` failing removals of rules and releases, `pf` and `nft` any
other failing firewall command, `parse` unreadable `pfctl -E` output, `save` and
`clear` the state file, `kill` an interrupt.

Deadlock is checked for nftables. The pf runs say `CHECK_DEADLOCK FALSE`
because the number of tokens bounds `pfctl -E`, so that a caller may wait for an
unused one; `keep` and `serve` because the programs end and the bounds run out.

*Contracts* (`UpContract`, `DownContract`, `VerifyContract`,
`ReassertContract`) state what a call promises when it has returned nil and
nobody else has touched the footprint of its binding since it began (`calm`).
So they say nothing of the outcome of two calls on one name that are interleaved
with each other, nor of what a Verify may report whose reads others come
between: without a lock the code promises nothing there, and `Keep` lets such
calls end in any way. They hold over whatever state earlier races, failures and
interference have left, which is what makes them more than a restatement of one
call: `Up` starts over half-removed bindings, stale routes, torn records and other software's pf
references. Since the errors of `route delete` are dropped, `UpContract` and
`DownContract` allow a stale route that such a command has tried and failed to
delete (`undeleted`), and no other.

The other safety properties need no such condition or a weaker one:
`ReassertInPlace` and `ReferencesRespected` are about every single step (the
part of the former about the main ruleset asks for `calm`: in the middle of
dumps and load, what somebody else attaches is overwritten);
`NoReferenceLeak` and `NoOrphans` are about the machine between calls;
`DownUnblocks` is about failing teardowns. All of them are also proved, as the
contracts are, for any number of processes, names, aliases and ports.

`keep`: `Heals` says that a recorded binding with a running service comes to be
in force and stays so once nobody disturbs it; `InstallTakesEffect` that the
flags of a successful install end up recorded and in force, whatever keep had
read before, also where keep cannot advertise and the starts that fail keep the
redirect; `UninstallIsFinal` that no definition survives a successful uninstall,
and, if no stop of the service has failed unnoticed, neither a process nor a
record; `CommandsEnd` that no command waits for
ever for keep to end. The premises are written `<>[]`, so that they hold on
behaviours where the administrator stops. One upset can put a call of keep in
any state, the second hits the recovery from the first; two commands give every
pair, such as an install over an `up`, or an uninstall during an install's
first `Up`.

`serve`: four interfaces give a loopback, two LANs whose subnets overlap and a
filtered bridge, with a lookup that finds none; two connections let one request
be in flight while another ends. The run checks that an open Advertiser answers exactly
its plan (`PublishedWhileOpen`, until mDNSResponder restarts, which the code
does not notice) and each address on its own network only
(`ScopedToTheirNetwork`); that no freed connection is used (`NoUseAfterFree`);
that a failed start, a `Close` and the end of a program leave nothing behind
(`NothingLeftBehind`, `EverythingWithdrawn`); that a nil from `Run` means a
clean end (`NilIsClean`); and that a cancelled program returns and its
goroutines end (`CancelledReturns`, `GoroutinesEnd`).

Fairness. The port80 specifications have none. `Keep`: the service manager
restarts what ended, the timer ticks and started commands run on (WF); Go's
`select` picks at random among ready cases, so a waiting signal is not passed
over for ever (SF on `Stopped`). `Serve`: every goroutine that can run does,
and the grace timer fires (WF); nothing is assumed of clients, handlers,
mDNSResponder or whoever cancels.

Why the bounds are enough for port80: every loop of the code is over the
aliases, so two of them show a first and a last iteration and a failure after a
success (`races` has one alias: what it adds are calls that overlap at every
command, each with a token of its own); interference on one binding cannot tell a third process from the
machine; with two tokens one can be recorded or stale while the other is fresh
or taken by somebody else. A `parse` fault makes `Down` run `pfctl -d`, which
drops everybody's references, so `ReferencesRespected` is checked and proved
without it. A failing flush or release (`unload`) may make `Down` on macOS
return nil with rules loaded: `DownContract` asks for less there. On Linux no
error of the teardown is dropped, and `nft_races` checks `DownContract` in full
under every failure. `ReassertContract` on Linux says that each rule is there
exactly once unless `unload` faults are on, since `reapply` ignores the failure
of its `nft delete table`. `UpContract` there allows more rules than asked for:
`Up` ignores a torn record, and when a failed save tore it and the aliases are
gone but the table is not, `Up` appends to the old rules.

### Disagreements between the code and what it says

Each has a run of its own that finds a counterexample.

- `doc_verify_blind`: `verifyUp` does not look for the `com.apple/*` wildcard,
  nor at `skip` on lo0 for a LAN binding, whose host-local rules are there. So
  `Verify` accepts rules that pf never evaluates, and the keeper never heals.
- `doc_partial_wildcard`: `clearPFSkip` loads a main ruleset whose translation
  section has lost the `com.apple/*` wildcard, if another tool reloads pf between
  `reapply`'s look at the wildcard and the dump: a wildcard in any section
  satisfies its check.
- `doc_uninstall`: an uninstall stops keep in the middle of its first `Up`;
  aliases and rules stay, no record says so, and the uninstall reports success.
- `doc_install_wedges`: on Linux an install starts keep and restarts it at
  once; the restart may interrupt its `Up`, and the alias left behind makes all
  later ones fail. `InstallTakesEffect` excludes this case (`Wedged`).
- `doc_repeated_port`: `keep --ports 80,80` takes its own working binding down
  at every start, since only the record is de-duplicated.

Known and without a run of their own:

- a `Reassert` that overlaps a `Down` brings the binding back;
- an anchor attached between the dump and the load of `clearPFSkip` is lost;
- on Linux `Reassert` deletes the table before it rebuilds it;
- on Linux one rule is enough for `Verify` (`verifyUp` speaks of "its rules"),
  so it accepts the partial table that a failed `Reassert` leaves;
- after the shutdown grace `Run` returns without forcing the remaining
  connections closed, of which the comment of `shutdownGrace` speaks; their
  goroutines outlive it, and `GoroutinesEnd` leaves them out;
- `service install --local`, which the README shows for launchd and systemd,
  installs on Linux a keeper that ends at every start; `Keep` has this
  (`advertises`), and what is left true is `InstallTakesEffect`;
- an uninstall whose stop of the service failed reports success, although keep
  may still run and put the binding back (`UninstallIsFinal` says what is certain
  all the same).

## Proofs

Every safety property that a passing run checks is also a theorem, for any sets of
processes, names, aliases, ports, tokens, interfaces, addresses, connections
and flags, and for the faults and the interference stated. Nothing else is
assumed but the named assumptions on constants:

- `Port80`: options are well formed (`OptionsAssumption`), aliases of different
  names are disjoint (`DedicatedAliases`), `NameAssumption`,
  `SentinelAssumption`, `SwitchAssumption`; `Port80Binding`: `RecordAssumption`
  (an option is no mark of a state file); `Port80Pf`: `IfaceAssumption` (every
  alias has its interface), `HolderAssumption`, `InterferenceAssumption`;
  `Port80Nft`: `InterferenceAssumption`, `TableAssumption`.
- `Keep`: `ProcAssumption`, `BoundAssumption`, `FlagsAssumption` (there is a set
  of flags, with a port in it), `CommandsAssumption`, `OptionAssumption`
  (defaults applied to flags give an option), `LocalAssumption`.
- `Advertiser`: `AddressAssumption`, `InterfaceAssumption` (an interface's
  addresses lie in its subnets), `SwitchAssumption`; `Serve`:
  `ProgramAssumption`, `ScopeAssumption` (the addresses given with a binding
  have no loopback address among them).

TLC evaluates each of them in the runs of these modules.

### pf and nftables

- `TypeCorrect` (both): `Spec => []TypeOK`. Not inductive by itself: a loop
  picks `Cur(p)` from `todo[p]`, and commands read `st[p]` as a record.
  `TypeInv` adds that a running loop has an alias to visit (`HoldsAlias`) and
  that a call past its load holds a `State` (`HoldsState`). `CommandTyped`
  reduces a command to the way it moves the control of its process (`Moved`),
  which `GotoMoves`, `AbortMoves` and `EndPassMoves` give.
- `ReferencesSafe` (pf): `Spec => ReferencesRespected` if every `pfctl -E`
  output parses. `TokenInv` says that every token in a record or in a running
  call is held by that name or by nobody (stale). It is inductive since the
  kernel hands out unknown tokens only, and since a running call past its
  enabling carries a token, so that `ReleasePF` runs `-X` and never `-d`.
- `UpDelivers`, `ReassertDelivers`, `VerifyDelivers`, `DownDelivers` (both): the
  four contracts. They speak about the end of a call, so the invariant
  (`ContractInv`) says at every `pc` of a call that nobody disturbed (`calm`)
  which legs stand already: `UpProgress`, `ReassertProgress`, `VerifyProgress`,
  `DownProgress`, with `Visited` for the part of an alias loop that is done.
  `NamedInv` says that a record and a running call carry their own name and
  aliases of that name. With `DedicatedAliases` it makes the commands of other
  bindings miss this one; a step that does hit it ends the calm of the call, so
  that nothing is left to show for it. On Linux the legs
  include how often a rule is in the chain: `Rebuilding` counts the rules
  between the deletion of the table and its last rule.
- `ReassertTearsNothingDown` (pf): `Spec => ReassertInPlace`, from the same
  invariant. `NamedInv` says that a Reassert is never at one of the removing
  commands; `RulesNotEmpty` that the rules it loads are never empty. For the
  main ruleset `ReassertProgress` says of a Reassert that nobody disturbed what
  its dumps hold at each of them: the wildcard was there when it looked
  (`AfterWildcard`), and the sections read so far are those of the ruleset.
- `DownAlwaysUnblocks` (both): `Spec => DownUnblocks` unless removing the state
  file may fail. `DownProgress` says that a Down that found a record is on its
  way to `clear` whatever its commands have reported.
- `NoReferenceLeaks` (pf): `Serial` and no kill, failing save, failing release or
  unreadable output give `Spec => NoReferenceLeak`. Each of those may leave a
  reference that no record knows, in the code as in the model. `HeldInv` has a
  part about names nobody works on (`HeldRest`: the reference, if any, is the
  recorded one) and one about a running call (`HeldDuring`: it is the recorded
  one, or during the save the one the call carries). `FileInv` under it says
  what the state file holds meanwhile.
- `FailuresRollBack` (pf): `Serial` and no kill, failing save or failing removal
  give `Spec => NoOrphans`. `TidyInv` says of a name at rest without a record
  that it has no rules and no alias, and of a call how much of that is true at
  each command of `Up`'s rollback and of `Down`.

### Keeper, advertiser, Run

- `KeepProofs`: `TypeCorrect` and `UninstallIsForGood` (`UninstallIsFinal`).
  `KeepInv` joins `BindingInv` (a job of `Binding` is well formed and its
  result is current), `CallInv` (who has a call of which kind open, given where
  keeper and administrator are), `CommandInv` (at each step of a command: what
  the service manager knows, whether the unit is still there) and `KeepTypeInv`.
  The theorem needs `CommandInv`: that the keeper is gone and cannot come back
  at the moment `uninstall` removes the record follows from the order of the
  earlier steps of the command, not from its last one. Of a command whose stop
  has failed (`~cmd.stopped`) `CommandInv` claims only what does not depend on
  the stop: that the definition has been removed.
- `ServeProofs`: `TypeCorrect`, `Published`, `Scoped`, `RefsOutliveThePump`,
  `StartsAreAllOrNothing`, `ReturnsWithdraw`, `NilMeansClean`, all from
  `ServeInv`: `OwnerInv` (at each `pc` of start and close, which responders
  exist and which are still to come; none is closed twice), `LibraryInv` (a
  scope has an open connection exactly while it has a responder or is being
  given one, and its goroutine has ended before anything of it is freed),
  `DaemonInv` (mDNSResponder answers what open connections have registered, and
  all of it unless it has restarted) and `ProgramInv` (what `Run` and keep have
  started at each of their lines, so what a return has to undo; a shutdown that
  came before `Serve` included).

### Both backends implement Binding

`BindingImplemented` (both): `Serial` and `SameAliases` give
`HistSpec => ImplementsBinding`, for any processes, names and options, and for
all faults, kills and interference. `Serial` is when a call can be atomic;
`SameAliases` says that the options of one name differ in ports only, without
which the statement is false (see above). The instances of `interference` and
`nft_interference` satisfy both.

The invariant is `BindInv`, in parts:

- `ContractInv`, of the contracts: what a calm call has established. It gives
  the machine of a call that returns nil (`ContractHost`).
- `Alone`: one call at a time on a name; `AskedFor`: every record, in a file or
  in hand, is an option somebody has asked for.
- At rest: the history is up to date (`SeenAtRest`, `hist[n].host = Host(n)`).
- During a call: `SeenDuring` (the record is the one found, or torn by the
  call's own save; `ret[p]` is an error exactly in the roll-back) and
  `HostDuring`. The latter has three clauses. Before its first command, and
  throughout a Verify, the machine of a calm call is the one it found, and a
  clean one stays clean in any case. If removals work, an `Up` over a clean
  machine has only its own aliases and rules to remove at each of its commands
  (`UpUndoes`), and a `Down` has removed what its finished commands remove
  (`DownUndoes`).

Then a step of p is, for the name of its call, a `Begin` (`StepEnters`), a
stutter (`StepInside`), the end `Binding` has for it (`StepRecordEnds`,
`StepCommandEnds`) or a `Kill` (`StepKillEnds`). For every other name it is a
stutter or an `Interfere` (`StepBeside`), since others install nothing of a
name they do not work on; so is a step of the rest of the machine
(`StepOutside`). A reboot is a `Reboot` for all names. `Port80BindingProofs`
has the part without the backend's commands, which is why it is proved once.

### Model-checked only

Liveness under fairness (`Heals`, `InstallTakesEffect`, `CommandsEnd`,
`CancelledReturns`, `GoroutinesEnd`) is out of TLAPS's reach. That `Keep` may
use `Binding` for calls that overlap (`mixed`) is not derived from the backends:
the refinement is about calls kept apart, and there `Binding` allows any
machine, with the record one of the two calls would write, or torn. One outcome
it leaves out: an `Up` that loads the state file between the two halves of
another call's save ignores the torn record and goes on, where `Binding` has it
refused (`Port80Pf` and `Port80Nft` do have it, and `races` and `nft_races`
check the contracts there).

## Plan

What is left: an account of overlapping calls on one name, that is, which
outcomes of two interleaved calls the backends can produce and whether
`Binding`'s `mixed` covers them, starting with the case above.

## Not modelled

The wire formats of mDNS, the rendering of plists and units, argument parsing
and printing, `ValidLabel` and the other checks of strings (values are ones that
pass them), the stub backends, which return an error before anything happens,
and the example, which calls `Run`. The time of the keeper's interval: `Heals`
says that healing happens, not when.
