# Verification of the OPNsense provider

This directory holds the TLA+ development beside the OpenTofu provider for OPNsense
(`src/`): models of its resources and clients, the TLC configurations that check them
and the TLAPS proofs about them.

- [The system](#the-system)
- [Modules](#modules)
- [What the runs check](#what-the-runs-check)
- [Bounds](#bounds)
- [Fairness](#fairness)
- [What is proved](#what-is-proved)
- [Where the code and its documentation disagree](#where-the-code-and-its-documentation-disagree)
- [Assumptions about what is not in the repository](#assumptions-about-what-is-not-in-the-repository)
- [Not modelled](#not-modelled)
- [Plan](#plan)

## The system

The provider is a process OpenTofu starts for each run. It keeps no state between runs:
what survives is the state file of OpenTofu, and the configuration of the firewall
(`config.xml`). Everything hard about it lies between those two: a run reads, plans
and writes in several calls, any of which can fail after it took effect, while other
resources, administrators and calls it gave up on act on the same firewall.

| component | source | state it keeps | operations | interacts with |
|---|---|---|---|---|
| `opnsense_object` | `internal/provider/object_resource.go` | per block an `objectModel` in the state file | `Create`, `Read`, `Update`, `Delete`, `ImportState`, the plan modifiers `subsetSuppress` and `requiresReplaceBool` | REST client; the firewall's items, settings and apply commands |
| REST client | `internal/opnsense/client.go` | base URL, credentials, a pool of connections | `Get`, `Post`, both through `do` | every resource of a run, in parallel |
| `opnsense_reconcile` | `internal/provider/reconcile_resource.go` | triggers and endpoints; no remote object | `apply` (from `Create` and `Update`); `Read` and `Delete` do nothing | REST client, `checkResult` of the object resource |
| SSH client | `internal/opnsense/ssh.go` | key material; a temporary key file per attempt | `Run`, `runOnce`, `identityFile` | `ssh` processes, commands running on the firewall |
| `opnsense_interface_assignment` | `internal/provider/interface_assignment_resource.go` | section, device and addresses in the state file | `Create`/`Update` (`applyAssign`), `Read`, `Delete`, `ImportState` | SSH client; PHP that rewrites `config.xml`; `configctl` |
| `opnsense_system_config` | `internal/provider/system_config_resource.go` | the declared settings in the state file | `Create`/`Update` (`apply`), `Read`, `ImportState`; `Delete` does nothing | SSH client; PHP, drop-in files, service restarts |
| `opnsense_object` data source | `internal/provider/object_data_source.go` | none | `Read` | REST client |
| provider | `internal/provider/provider.go`, `main.go` | none after `Configure` | `Configure` | builds both clients |

What is hard, and what makes each component correct:

- **Objects.** A `Create` is two or three calls (add, apply command, return to OpenTofu)
  and the uuid exists only in the reply to the first; a lost reply, a failed apply
  command or a kill leaves an item nobody knows of. The blocks of a configuration are
  applied in parallel. A timed-out call may still be executed, after the next run has
  read. Correct means: one owner for an item, no item lost track of while it exists, no
  item left behind without a fault, undeclared fields left alone, a success that has
  taken effect, convergence once nothing disturbs the runs any more, and then silence.
- **Reconcile.** A loop of independent calls that is to go on past a failure and to warn of it, as far as the
  reply tells one the code looks at, and to heal services that run with an outdated configuration.
- **SSH.** A retry loop around a command that may have run already or still be running; key
  material in a temporary file on every path. Correct means: no file left behind, a success that
  stands for a finished command, no repetition of a command that may be running or has
  failed by itself, an end.
- **Codec.** Values change form on the way (lists joined by commas or newlines, option
  maps collapsed to lists, import ids with positional hints) and must come back as
  they were declared.
- **Interface assignment.** Scripts that read the whole of `config.xml`, change one section and write
  the whole back, in parallel and sometimes twice; a section that is found by device, then by description,
  then by name; interfaces that run with something else than what is stored until `configctl` is told.
  Correct means: a device bound once, no interface set, dropped or stopped by a script of a block that has nothing to do with it (a write
  of the whole file may still take an administrator's change of it back), the declared sections in place in the end although
  writes drop each other's, and realised.
- **System settings.** A series of commands of eight kinds, some of whose errors end the apply, some only fail it and
  some are ignored, over settings that are partly never read back, with sshd restarted under the connection the
  series runs on. Correct means: undeclared settings left alone, a success that stands for all that is applied being
  stored, and in effect but where an error was ignored, every declared setting stored in the end, the provider never locked out.

## Modules

| module | role | models |
|---|---|---|
| `ObjectResource` | component | the object resources of a configuration, OpenTofu's runs, the REST calls and the firewall behind them |
| `ObjectResourceProofs` | proofs | types, ownership, and how the variables of a handler hang together |
| `ObjectWriteProofs` | proofs | what a write changes: undeclared fields left alone, a success in force |
| `MCObjectResource` | instances | configurations for six runs |
| `ObjectLifecycle` | abstract specification | what the object resources promise about items and owners |
| `ObjectLifecycleProofs` | proofs | `ObjectResource` implements `ObjectLifecycle`; only what is gone is let go of; what faults leave behind |
| `ObjectReconcile` | composition | `ObjectResource` and one reconcile resource in the same runs |
| `ObjectReconcileProofs` | proofs | the endpoint loop; the objects beside it |
| `MCObjectReconcile` | instance | three endpoints, one of a plugin that is missing |
| `ObjectAddress` | component | how a block addresses the API, and the import of its address from an id |
| `ObjectCodec` | component | alias and option-field conversions, plan comparison, and values on their way through them, beside the block of `ObjectAddress` |
| `ObjectCodecProofs` | proofs | an import restores the block it was made from; read bodies are collapsed throughout; lists read back |
| `MCObjectCodec` | instance | both: every block of three names, and bounded inputs, one after another |
| `SSHClient` | component | concurrent calls of `Run` and the commands they start on the firewall |
| `RemoteCommand` | abstract specification | what a call of `Run` promises about the command it is given |
| `SSHClientProofs` | proofs | types, key files, successes, repetitions; `SSHClient` implements `RemoteCommand` |
| `MCSSHClient` | instance | two calls, one of them with a temporary key |
| `InterfaceAssignment` | component | the interface blocks of a configuration, their PHP scripts and `configctl` commands, `config.xml` and the interfaces |
| `InterfaceAssignmentProofs` | proofs | types, a device bound once, foreign interfaces, own sections, successes |
| `MCInterfaceAssignment` | instance | two blocks, two initial tables |
| `SystemConfig` | component | the `opnsense_system_config` block, its series of commands, `config.xml`, drop-in files and services |
| `SystemConfigProofs` | proofs | types, undeclared settings, successes |
| `MCSystemConfig` | instance | three blocks on a new firewall |

### ObjectResource

State and the code it stands for:

| variable | stands for |
|---|---|
| `config[r]` | the block an operator declared: `body`, `singleton`, whether `reconfigure` is set |
| `state[r]` | the `objectModel` in the state file. Module, controller and uuid are one *slot*: `Uuid` for an item, `Settings` for the singleton of a controller |
| `pc[r]`, `model[r]` | the point a handler has reached and its local `m` once a reply has completed it |
| `wire[r]`, `reply[r]` | the request of `Client.do` and what it returned |
| `late` | requests the client's timeout gave up on, or that were on the wire when the process was killed |
| `store`, `live` | `config.xml`, and what the services run with |
| `issued` | uuids the firewall has assigned |

A handler is cut at its HTTP calls. The action up to a call sets `wire` (`Create`,
`Update`, `Delete`, `StartRun`, `Import`), the firewall turns `wire` into `reply` (`Serve`
and the faults), the action after the call treats the reply (`CreateReturns`,
`UpdateReturns`, `DeleteReturns`, `ReconfigureReturns`, `FinishRefresh`,
`ImportReturns`). Replies are classified the way the code tells them apart:

| `reply.kind` | the code |
|---|---|
| `ok` | a 2xx whose `result` is saved, deleted or ok; for a read, an object under the envelope |
| `empty` | a 2xx without `result`; for a read, no envelope or an empty object |
| `rejected` | a 2xx with any other `result` |
| `garbled` | a 2xx that is not JSON (`do` ignores the error of `io.ReadAll`, so a cut body is one) |
| `notFound` | `NotFound(err)` |
| `error` | any other error of `do` |

The plan is part of the state: `PlannedBody` is `subsetSuppress`, `Deletes` is
`requiresReplaceBool`, and `UpdateBody` what `Update` therefore sends: the declared body,
or the *whole object last read* when the declared keys match and only `reconfigure`
changed.

The faults are counted and named: `refused` (an HTTP error, or validation errors in a 200), `missing`
(a 404 for the route), `lost` (executed, the reply lost), `garbled` (executed, the reply cut),
`void` (executed, the reply without `result`), `late` (the timeout first, the execution later or never),
`applyRejected` (an apply command that fails in a 200; for an endpoint of the reconcile resource either with a `result` or with a `status` alone) and `crash`.

### ObjectLifecycle

Two variables: the `status` of each item (unused, present, gone) and the `owner` of each resource. An item appears once and
vanishes once; a resource adopts an item nobody has, and releases it when it is gone. `ObjectResource` maps `issued` and
`store` to the status, and the slot in the state file to the owner (`ItemStatus`, `ItemOf`), and
`ImplementsLifecycle` is the abstract `Spec` under that mapping. A refresh that drops several resources at once
is one `Release` of a set. What the mapping adds to `TrackedDistinct` and `DropMeansGone` is that nothing else happens to items
and owners: no item comes back, no resource exchanges one item for another in a step.

### ObjectReconcile

Extends `ObjectResource`. `posting` is the index of the loop in `runReconcile`, `failed` its
warnings, `executed` what the firewall did, `outcome` the result of `apply`. `statusOnly` is a history variable: the endpoints whose
command failed in a 200 that says so by a `status` and has no `result`, which `checkResult` accepts. `Begin` joins the
step from refresh to apply; from there the loop interleaves with the handlers of the
objects, and the next run waits for both.

### ObjectAddress

`block` is the block in the configuration, `state` what an import has made of it. `Import` is `ImportState` applied to `ImportId(block)`, the id
an operator puts together from the block's attributes: trailing hints that are not set are left out, those in between are empty. `CreateCmd`, `ReadCmd`, `UpdateCmd`, `DeleteCmd` (together `Commands`),
`envelopeKey` and `applyCommand` are what every later call is built from. Splitting an id at slashes and bars is not modelled: names hold neither.

### ObjectCodec

A JSON value is a record that tells its kind; a string is the list of entries it
joins and the separator, which is all the code looks at. `Alphabet` lists the words in
string order, so that `Sorted` is `sort.Strings`. The firewall's side (`Accepts`, `Show`)
is taken from what the comments and tests of the code rely on.

`collapse(rest, v)` is one call of `collapseValue`, with `rest` for what the calls it makes return, and `collapseValue` the
recursive function over `Tree`, the JSON values of the instance. `Tree` is any set of values that holds the parts of each and what collapsing
makes of each, with a `depth` that falls from a value to its parts; it may be infinite. `input` is the value on its way: a body the firewall sends arrives, `Read`
collapses it and `Descend` goes from it to any of its parts; or a list arrives that an operator declares, and `ReadBack` is what becomes of it.

### SSHClient

One record of progress per call of `Run`, a count of temporary files, and two sets of
attempts: those whose command `started` on the firewall and those still `running` there. An attempt
ends with one of five outcomes: `transient` and `matching` both satisfy `transientSSH`,
the first because the connection broke, the second because the *command* wrote such a
message to its own stderr, which `runOnce` collects together with that of ssh.

`RemoteCommand` is the same from outside: for each call the executions that `begun`, those still `running`, and its `answer`. Executions begin one after
another, only while the call is open and at most `Limit` times; the answer is given once and is "ok" only when the last execution has come to
its end; an execution may outlast its call. `SSHClient` maps `started` and `running` to the first two, call by call, and the phase
and result of a call to the third (`AnswerOf`); key files and the attempts that never got through are hidden.

### InterfaceAssignment

| variable | stands for |
|---|---|
| `config[r]`, `state[r]` | the declared block and the `ifaceAssignModel` in the state file; id and section are one, as every handler that stores a model has set both |
| `tainted` | created resources whose result OpenTofu found inconsistent (the section resolved is not the declared one): the next run replaces them |
| `pc[r]`, `model[r]` | the command the handler is at, and its `m` |
| `wire[r]`, `reply[r]` | the command given to `SSHClient.Run` with the `config.xml` it has read (`seen`), and its result |
| `orphans` | commands on the firewall that nobody waits for any more |
| `xml`, `running` | the sections in `config.xml`, and what the interfaces run with |
| `undone` | history: a write has changed back something that was changed since its script read the file |

`Resolve`, `Locate`, `Applied` and `Written` are the PHP scripts as functions of the file they have read. A script that
writes takes two steps, `Parse` and `Write`, for `parse_config` and `write_config` are not one atomic action; a read takes
one. The handlers are cut at `SSHClient.Run`: `applyAssign` starts the apply script, `ApplyReturns` takes the echoed
section or the declared one and has it realised, `RealizeReturns` stores the state; `Delete`, `StopReturns` (whose error is
ignored) and `DeleteReturns` are the teardown. Faults: `broken` (the connection breaks or the deadline expires; the command may
go on as an orphan), `retried` (a transient failure, after which `Run` starts the command again, perhaps beside the first), `silent` (a
script that ends without a line of output), `crash`. When several sections match, PHP takes the first in the file; the model leaves the
order open.

### SystemConfig

| variable | stands for |
|---|---|
| `config`, `state` | the declared block, and the one in the state file; one block at most, the settings exist once |
| `pc`, `model`, `failed` | the command the handler is at, its `m`, and whether its diagnostics hold an error |
| `wire`, `reply`, `orphans` | as in `InterfaceAssignment` |
| `stored` | `config.xml` and the drop-in files `allow_users.conf` and `snmpd.local.conf` |
| `running` | what the services run with |
| `erred` | history: the commands of this call that ended in an error, ignored ones included |
| `overtaken` | history: the settings that an abandoned command or an administrator has changed since an apply stored them |

`Order` lists the commands of an apply, `Needed` says which of them a block selects, `Ends` and `Noted` what becomes of their
errors (the rest are ignored). `Applied` are the settings an apply is to store and put into effect, `Writer` and `Restart` the
commands that do the one and the other for each, `Wanted` what is to be stored. `ApplyReturns` goes on to the next needed command or returns. `Written` is the PHP script:
the declared attributes, and the rest of the file as the script has read it. `ntp_serve_lan` is only written together with
`ntp_servers` (`Emitted`). `Refreshed` is the subset refresh of `Read`, which does not look at tunables, log retention, the
list of users and the trap target. `LetIn` is sshd: with a list of users that does not hold the provider's own, no further command
gets through. `Refuse` covers a command that fails without an effect, after its `write_config`, or with a drop-in file cut
short. hostname, domain, timezone and dns_servers are one attribute (`general`): one script writes them and puts them
into effect.

## What the runs check

| run | property | question |
|---|---|---|
| `object_tracking` | `TypeOK`, `TrackedDistinct`, `LeaksNeedFaults`, `DropMeansGone`, `SuccessMeansApplied`, `ImplementsLifecycle` | do the parallel handlers of two resources, with faults and kills, leave every item with one owner, tracked while it exists, left behind only by a fault, and in force once a success is reported? do they implement the abstract life cycle? |
| `object_lifecycle` | `LeaksNeedFaults`, `UndeclaredUntouched`, `Converges`, `EventuallyQuiet` | with every kind of fault and an administrator who edits at any moment, even between the refresh and the write: is a field nobody declares left alone, and do repeated runs reach the configuration and then stop writing? |
| `object_reconcile` | `ReconcileTypeOK`, `FailuresReported`, `LiveConverges` | is every endpoint that is passed executed or reported, but for a failure told by a status alone, and do the services end up with the stored configuration? |
| `object_codec` | `CollapseComplete`, `SortedReadsBack`, `ImportRestoresBlock` | is a body that is read collapsed throughout, does a list declared in string order read back as it was declared, and does a block that is imported by its own id address the firewall as before, whichever of its hints are set? |
| `iface_runs` | `TypeOK`, `DeviceBoundOnce`, `OwnSectionsOnly`, `ForeignUntouched`, `Converges`, `EventuallyQuiet`, `Realised`, `SuccessMeansInPlace` | two blocks whose scripts overlap, are repeated and go on unattended: is a device ever bound twice, does a script ever set, drop or stop the management interface, is a section taken that is not the block's, has a block that succeeds its section stored and running, and do repeated runs bring every section to its block, realise it, and stop writing? |
| `system_config` | `TypeOK`, `UndeclaredUntouched`, `SuccessMeansApplied`, `Converges`, `UnreadConverges`, `EventuallyQuiet` | any command of an apply fails, breaks, runs twice or goes on unattended: are undeclared settings left alone, does a success mean that all that is applied is stored, and in effect but where sysctl or the restart of sshd or netsnmp failed, is every declared setting stored in the end, and does the provider keep its access? |
| `ssh_calls` | `TypeOK`, `KeysRemoved`, `SuccessMeansFinished`, `RepeatedOnlyWhenTransient`, `ImplementsCommand`, `CallsReturn` | what can retries, key files and a kill do, does a call keep what it promises about its command, and does every call end? |

`LeaksNeedFaults` counts: with `n` faults so far, at most `n` items per resource are left
behind. Without faults that is none at all.

`object_tracking` leaves four things out. `applyRejected`, which the code does not notice, and `garbled` and
`missing`, which make it take an existing item for a missing one: these are where its properties do not hold (see
below). `late` and the administrator are left to `object_lifecycle`: both may change an object between the apply command and
its reply, when the services cannot be running with it. A kill, which the run has, leaves requests of that kind too; its one
change of the configuration is not enough for such a request to overwrite what a later write has applied. `SuccessApplied` (below) says what is needed
for any number of them.

`UndeclaredUntouched` is checked for configurations whose other attributes stay the same; changing them is
`object_hint_clobber` below.

`LiveConverges` needs the reconcile resource: without it, a write whose apply command failed is
never applied, for the next refresh shows the written object and the plan is empty.

What the two runs over SSH say, and where they stop:

- `Converges`, `EventuallyQuiet` and `Realised` of `iface_runs` are stated for tables where each block can only resolve to the section
  it names (`Aligned`). When the declared section is bound to another block's device (`Crossed` in `MCInterfaceAssignment`) the safety
  properties are checked too, but the runs need not settle: the echoed section differs from the declared one, OpenTofu
  reports an inconsistent result, and the replacement starts over.
- An import never succeeds: it sets the section without a device, so the read after it finds nothing. The model has it, and the
  interface is then created over the existing section.
- `Realised` is stated for histories without faults and without lost updates (`undone`). A reconfigure that fails on an update is not repeated: the next
  refresh shows the written section, the plan is empty. A write that puts back what it had read, over another block's update or an
  administrator's change, leaves the interface running with the other version until somebody reconfigures it. Parallel writes may also
  lose a section until the next run, or bring a deleted one back.
- `SuccessMeansInPlace` is about the moment a create or update is about to return without an error. It ends with the first write that undoes another
  change: a script that has read the file before the section was written takes it back, and the block succeeds nevertheless. It needs that no abandoned command
  goes on: one that applies an earlier block, or removes the section, does so after the new one was written, with nothing undone. What is declared may differ
  in a section an administrator works on; what is stored runs there too. Broken connections, retries, silent scripts and kills that leave nothing behind are allowed.
- Attributes that are null are written blank but not refreshed, so an administrator's value in one is never seen, and goes with the next write.
- `ForeignUntouched` of `iface_runs`: every write replaces the whole of `config.xml`, so what an administrator changes in a foreign interface
  between `parse_config` and `write_config` is lost. The property says that nothing else happens to it: its section changes by the administrator,
  or back to what a script on the firewall had read before such a change (`undone`), and what it runs with is left to the administrator.
- `SuccessMeansApplied` of `system_config` covers the list of users and the trap target as well. The code ignores the errors of sysctl and
  of the restarts of sshd and netsnmp: after a success the value is stored, and where that command failed the service need not run with it. A setting that an
  abandoned command or an administrator has changed since the apply stored it (`overtaken`) is not asked for.
- `UndeclaredUntouched` of `system_config` allows what a whole-file write cannot avoid: a setting may go back to what the script had
  read before somebody changed it.
- `Converges` of `system_config` is about what is read back; `UnreadConverges` about all declared settings as long as there are only faults.
  What an administrator changes under an attribute that is never read back stays, and so does the restart that failed on an update
  which the next refresh shows as done.
- `EventuallyQuiet` excludes `LanAlone`: `ntp_serve_lan` declared without `ntp_servers` is compared and never written, so where the
  firewall differs every run applies it again.

## Bounds

- `Resource`: two where interleaving matters, one where the question is about one
  resource and the firewall.
- `Uuid`: three to five. One exists before the first run; every create takes a new one.
  `Executable` refuses an add when they run out; in `object_lifecycle` and
  `object_reconcile` there is one for every create that the faults and edits of the run can cause, so that convergence is neither
  owed to nor spoilt by that bound.
- `Key`, `Value`: one declared key, `name`, one that no block declares, `note`; two values.
  A second declared key would behave like the first: the code compares and writes bodies key by key.
- `MaxFaults` and `MaxEdits`: one to three. The known ways to lose track of an item take one
  fault, and the properties that count need a second one to tell one leak per fault from any number.
- `ObjectCodec`: JSON values of up to four levels: leaves of every kind, option maps, objects of option maps, arrays of those, arrays of arrays; each of them with
  flags that are numbers, strings and booleans, and with fields called like a flag. The set is closed under parts and collapsing, as
  `CollapsedAssumption` wants it, which TLC evaluates. Lists of up to three of three options. The theorems have any set, of any depth.
- `ObjectAddress`: three names, one of them the sentinel `none`; every hint is named, bare, empty or not set. The theorem has any names.
- `SSHClient`: two calls of clients with different keys, three attempts each where the code has four (a first, a middle and
  a last one; the theorems hold for any number), a kill at any time. The counterexample run has four.
- `iface_runs`: three sections (the management interface, one per block), four devices, one of which a block is moved to; one fault, one
  abandoned command, one change by the operator or an administrator, who works on the section of the block that is never moved and on the management
  interface. Two blocks are what an overlap needs; one abandoned script beside the two
  handlers gives three writers of the file.
- `system_config`: two values, so that a setting can differ; a block with everything, one with time servers, other users and an empty trap
  target, one with `ntp_serve_lan` alone; two faults, so that a failed step can be followed by a break in a later one; one abandoned command; two
  changes. The administrator changes one setting that is read back and one that is not.

## Fairness

`FairSpec` says that runs are repeated (`WF(StartRun)`: a pipeline that applies again), that a
refresh ends (`FinishRefresh`, `AbortRefresh`), that a handler goes on when its reply is there, and that the
firewall answers what it is sent (`Serve`). The last is what the client's timeout gives
the code: `Client.do` always returns. Nothing is assumed of faults, edits, kills, or of `late`
requests, which may stay unexecuted for ever. In
`InterfaceAssignment` and `SystemConfig` the same is assumed of runs, of handlers and of the commands they wait for, which end because each
has a deadline, or are given up; nothing of abandoned commands, which may act late or never. In `SSHClient` the steps of a call are fair because each
attempt has a deadline (`exec.CommandContext`, `ConnectTimeout`); the remote command is not assumed to finish.

## What is proved

All theorems hold for every value of the constants that satisfies the named assumptions in the
modules: the sentinels are distinct from the data, the data have their
types, bounds are numbers. Where a theorem needs more, its statement says so.

- `TypeCorrect` (`ObjectResourceProofs`): `Spec => []TypeOK`. `TypeOK` is not inductive: that
  `CreateReturns` builds a `Model` depends on the reply, the reply on the request, the
  request on the phase. `TypeInv` adds those links: `RequestOK` of every request under way and `PhaseOK`, what
  each phase implies for the handler's variables.
- `OneOwner`: `Spec => []TrackedDistinct`. It needs that a uuid about to be assigned is not held already;
  `HeldIssued` (whatever a resource holds was assigned by the firewall) makes it inductive. Most actions
  only pass on what a resource holds (`OwnershipKept`); an executed add and an import give one resource a
  slot nobody has (`OwnershipGained`).
- `LinkInvariant` (`ObjectResourceProofs`) is the inductive invariant that the proofs about items and writes below share, under all faults: `Linked` says of each phase what the
  handler's variables have to do with one another (the request is about the slot in the state or the model, a create runs only
  without a state, a model about to be stored keeps the slot of the state, an accepted delete has been executed), and
  `OneSingleton` that one block declares the singleton. It rests on `GoneKept`: no request, late ones included, brings an item back.
- `NothingDropped` (`ObjectLifecycleProofs`): `Spec => DropMeansGone` if the faults `garbled` and `missing` do not occur. Both
  assumptions are needed: `object_garbled_read` is the counterexample without the first, and a 404 for the route would do the same. The
  argument: what is gone stays gone, so an answer that was true when the firewall gave it is still true when the handler relies on it;
  `Truth` adds to the links that a refresh without an object and a delete answered by 404 are true.
- `LeaksBounded` (`ObjectLifecycleProofs`): `Spec => []LeaksNeedFaults` for a finite set of resources, with every fault allowed. The property counts items nobody
  holds; that is not inductive, since an answer that will make a handler forget its item comes before the forgetting, and an add that was given up
  may create one long after. `Debt` counts both, the items that no handler is sure to keep (`Secures`) and the adds in `late`, and
  `DebtInv` bounds it by `faults * Cardinality(Resource)`. A step without a fault adds nothing to the debt (an add executed late pays its own), a fault of a call adds one,
  and a kill one for each handler (`Loss`).
- `UndeclaredKept` (`ObjectWriteProofs`): `Spec => UndeclaredUntouched` if `reconfigure` has one value in all
  configurations and import ids (`OneHint`); `object_hint_clobber` is the counterexample without it. The invariant
  `Keep` says that every write under way, late ones included, carries declared fields only (`Writes`). The key step is `UpdateDeclared`: with the
  hint unchanged an update is due to the body, so the plan modifier has not put the object last read in its place.
- `SuccessApplied` (`ObjectWriteProofs`): `Spec /\ [](late = {}) => SuccessMeansApplied` without an administrator and without `applyRejected`. Each
  assumption is needed: `object_apply_failed` is the counterexample without the last, and an administrator, or a request that is executed after its client gave it up
  (a timeout, a kill), may write between the apply command and its reply. Refusals, lost replies, kills and the other blocks remain. The invariant
  `Ran` says that an answered apply command has left the slot of the handler with equal stored and running objects;
  it lasts because no other resource has a request under way about that slot (`RequestsApart`, from the links and `OneOwner`).
- `BlockRestored` (`ObjectCodecProofs`): `CodecSpec => []ImportRestoresBlock`, for any names (a step of the conversions leaves the block alone: `CodecAddresses`). The key fact is `HintRead`: a hint at any position is read back, whatever hints around
  it are left out; an empty one counts as not set, in the code and in the state.
- `CollapseDefined`, `BodiesCollapse` (`ObjectCodecProofs`): `collapseValue` is defined for every JSON value, which a recursive function in TLA+ is not by being
  written down, and `CodecSpec => []CollapseComplete`. Induction over the values is replaced by a counterexample of least depth: among the values for which
  the claim fails, one has the least `depth` (`<` on `Nat` is well founded), so the claim holds for its parts, and one call of `collapse` carries it to the value. The lemmas are
  that collapsing is idempotent (`CollapseIdempotent`), for which it must not create an option map that was none (`NoNewOptionField`: collapsing the fields of an object leaves them an
  option map only if they were one), and that what is read stays collapsed on the way to any of its parts (`SimplestThroughout`).
- `SortedListsReadBack` (`ObjectCodecProofs`): `CodecSpec => []SortedReadsBack`, for any options and envelopes. It needs that no option is called
  `selected` (`OptionAssumption`): an option of that name makes the field itself look like the flag of an option. That `Sorted` has the words of a set, in the order of
  `Alphabet`, enters through the equivalence the property states: reading back is `Sorted` of the entries, whatever their order was.
- `LoopTyped`, `NoSilentFailure` (`ObjectReconcileProofs`): the loop stays within the list, every endpoint passed is executed,
  reported, or in `statusOnly`, for every list. The invariant `Passed` relates the index to what lies behind it.
- `TrackedBeside`, `LifecycleBeside`, `UndeclaredBeside`, `AppliedBeside` (`ObjectReconcileProofs`): the composition `ReconcileSpec` keeps what the objects promise
  on their own, each under the assumptions of the theorem about `Spec`. Every step of the composition is a step of the objects or a `Reload` (`ComposedStep`), which
  changes the running objects to stored ones and counts faults. The invariants are those of the objects' proofs: their step lemmas (`LinkStep`, `DebtStep`, `DropKept`,
  `KeepStep`, `RanStep`) cover the first kind of step, and a `Reload` leaves alone what they speak of, or only brings it closer (`Ran`).
- `AttemptsBounded`, `NoKeyLeftBehind`, `SuccessIsFinished`, `RepeatsAreTransient` (`SSHClientProofs`): for any
  number of calls and attempts. The invariant `Progress` ties the phase of a call to the attempt it
  counts and to what that attempt did on the firewall.
- `CommandImplemented` (`SSHClientProofs`): `Spec => ImplementsCommand`. Each step of a call is an `Open`, an `Execute`, an `End`, an `Answer` or a stutter of `RemoteCommand`. That
  executions begin in order needs `InOrder`: the attempts of a call that started are not beyond the one it counts, and one that is about to connect has not
  started yet.
- `LifecycleImplemented` (`ObjectLifecycleProofs`): `Spec => ImplementsLifecycle`, under the assumptions of `NothingDropped` and with the invariants of
  that proof and of `OneOwner`. Each action is an `Appear`, a `Vanish`, an `Adopt`, a `Release` or a stutter of the abstract specification.
- `TypeCorrect` (`InterfaceAssignmentProofs`): a model always names a section, which depends on the fallback of `ApplyReturns` when the
  script's output cannot be parsed.
- `BoundOnce`: `Spec => []DeviceBoundOnce`, if the tables the firewall may start with bind every device once. The inductive invariant says the same
  of every table a script has read (`seen`), those of abandoned ones included; the key fact is that `Applied` at a section given by `Resolve` keeps a table
  unambiguous, because a device that is already bound is resolved to its section.
- `ForeignSafe`: `Spec => ForeignUntouched`, if in the initial tables no foreign section binds the device, or has the description, of a section
  that is not foreign (the blocks' own match no foreign section by definition). The invariant says that all tables, stored, running or read, have the initial device and description in the
  foreign sections they still hold (an administrator changes addresses and removes sections), and that no command is about one. So `Resolve` never finds a foreign section, and what a script
  writes there is what it had read (`ForeignWritten`); where that is not what is stored, the write undoes a change.
- `OwnSections`: `Spec => []OwnSectionsOnly`, if in the initial tables what carries a device or a description of a block is found by its blocks alone
  (`Distinct`; the instance has such tables only, and where two blocks may find the same section, which of them it belongs to is not
  defined). The invariant follows the first table: whatever a table, stored or read, a recorded model, a request or a script's output says
  about a section leads to devices and descriptions that were the block's from the start (`Leads`, `Respects`).
- `SuccessInPlace`: `Spec => SuccessMeansInPlace`, if on tables with which every block names one section its device and description are nobody else's (`Distinct`), and no two
  resources declare the same section (`SectionsApart`). `OwnInv`, relative to the first table, gives that all a resource writes, stops or removes is its one section (`HomeAlone`,
  `EchoIsDeclared`), so that the sections of the others come out of its writes as they went in (`WrittenElsewhere`): as they are, or else the
  write undoes a change. `Landed` follows the section from the answer to the apply to the answer to the reconfigure. It also says that a section that is gone does not run, since
  `configctl` does nothing for one; only an administrator's removal makes that happen.
- `TypeCorrect` (`SystemConfigProofs`): the phase of a handler tells which command is under way and that it is needed; an error in the diagnostics is there only
  between a failed restart and the end of that apply.
- `UndeclaredSafe`: `Spec => UndeclaredUntouched`, from the type invariant: a command on the firewall carries a block that is being applied and that needs it.
- `SuccessSafe`: `Spec => SuccessMeansApplied`. Two invariants speak of the commands the handler has behind it. `ErredInv`: an error among them would have ended the
  apply, is in the diagnostics, or is one of the three that are ignored. `DoneInv`: once the command that stores a setting is done, the setting is
  stored, and once the one that puts it into effect is done without an error, it runs, unless it was overtaken. That the next command is the least
  one that is needed makes them inductive, for what is skipped was not needed.

Only model-checked: the liveness properties (`Converges`, `UnreadConverges`, `EventuallyQuiet`, `Realised`, `LiveConverges`,
`CallsReturn`), which need fairness and `ENABLED`. Every invariant and every action property the runs check is the subject of a theorem.

## Where the code and its documentation disagree

Each is a run that ends in a counterexample, and a finding in `PROJECT.json`.

- `object_garbled_read`: a read whose 200 is no JSON removes the resource from the state although
  the item exists; the next apply adds a second one.
- `object_hint_clobber`: changing only `reconfigure` of a block posts the whole object as it was at the
  refresh, undeclared fields included, over an edit made since.
- `object_apply_failed`: the object resource does not look at the reply to its apply command; a
  failure reported in a 200 is a success for it, though not for the reconcile resource.
- `object_unsorted`: a list declared out of string order is read back sorted; every run writes it again.
- `ssh_matching`: a remote command that fails with "Connection reset by" or the like on its own stderr is
  run up to four times.

One disagreement has no run of its own: the comment on `runReconcile` (`reconcile_resource.go:92-93`) promises one warning string per failed
endpoint, and `checkResult` (`object_resource.go:280-283`) accepts any 200 without a `result`, so that `{"status":"failed"}` is neither
an error nor a warning. `ObjectReconcile` has the case and keeps it apart in `statusOnly`; without that set `FailuresReported` is violated.

## Assumptions about what is not in the repository

- OpenTofu refreshes all tracked resources before it plans, applies independent blocks in
  parallel, keeps a resource's prior state when a handler reports an error, deletes before it
  creates in a replacement, and does not let two blocks import the same id.
- The firewall merges the fields of a set into the object, never reuses a uuid, and copies
  the stored configuration into the services on an apply command. A command on a missing item is answered with an
  empty object, a failed result or a 404.
- At most one block declares a singleton controller, and nobody imports the slot of
  another block.
- PHP scripts read `config.xml` once and write it once; `configctl interface` acts on the one section it names; a restarted service
  loads what is stored. A command whose connection broke may go on, and then acts once. An administrator's change in the web interface is applied at once.
- Nobody but a block's own scripts binds its device or takes its description.

## Not modelled

- The data source (one GET whose body is handed on, no state) and `Configure` (reads attributes and the environment once, before any
  handler runs, and builds the two clients): neither has a state that changes, and nothing interleaves with them.
- Of the REST client: credentials, TLS. Of the SSH client: the argument list and the lengths of the pauses between attempts.
- `late` is a set of requests that do not name the resource they came from: two adds alike, both given up, count as one.
- Changes of `module`, `controller`, `uuid`, `item_suffix`, `envelope` and `set_command` of a block in
  `ObjectResource`; `ObjectAddress` says what they do to a single call. `reconfigure` stands for the attributes
  that cause an update without a change of the body.
- Of the interface assignment: enable and gateway entries (written with fixed values, never read), and the difference between address
  and prefix, version 4 and 6. Of the system settings: quoting, lists and maps as such (several tunables, the order of servers), the preferred NTP server, and the
  rendering of the trap target; the description of a tunable, which the script writes as an empty string when it is not set.
- The interface and system scripts of one run write the same file. Each module has the other's effect on it only as far as its own abandoned scripts and its
  administrator have it.
- How often `SSHClient.Run` repeats a command: `SSHClient` has that; the two resources see a command that is repeated, broken or served.

## Plan

What is left, in the order of what it would show:

1. A composition of `InterfaceAssignment` and `SystemConfig` over one `config.xml`: what lost updates between the two do to
   `UndeclaredUntouched`, `SuccessMeansInPlace` and `Converges`.
2. An abstract specification of an interface block (its device is bound or not, realised or not) and the refinement to it; and
   `RemoteCommand` in the place of the `broken` and `retried` faults of `InterfaceAssignment` and `SystemConfig`, which now state what it promises by themselves.
3. The liveness properties for any number of resources: out of reach of the provers installed, so that larger instances are what can be had.
