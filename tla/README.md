# Verification of k3ac (aegis-apple-container-provisioner-k3s)

`k3ac` builds k3s clusters out of Apple `container` VMs: a command-line program
whose every command is one run of the binary, driving the `container` CLI and a
directory `<stateDir>/<cluster>`. There is no daemon, no lock and no journal. What
is hard is therefore not inside one command but between them: a command may be
refused, fail or be killed between any two calls, another may run at the same
time, and the next one has only `state.json`, the names and the labels to go by.

This directory holds TLA+ models of that behaviour, TLC configurations that check
them on small instances, and proofs checked by TLAPS for every instance.

## The system

| Part | Source | State it keeps | Operations | What makes it hard | What makes it correct |
|---|---|---|---|---|---|
| Membership | `create.go`, `node_ops.go`, `destroy.go` | containers, named volumes, `state.json`, kubeconfig, `haproxy.cfg`, etcd bundle | Create, AddAgents, AddServer, RemoveNode, Destroy | death between calls, refusals, retries, two runs at once | nothing boots on old data; what is recorded is live; a clean Destroy leaves nothing; Destroy repeated recovers from anything |
| State file | `state.go` | `state.json` | saveState, LoadState, LoadStateForDestroy | a write that is not atomic; a missing file | Destroy works without it |
| Network | `network.go` | one custom network | ensure, destroy | known only through `state.json` | gone after Destroy (it is not always) |
| CLI wrapper | `container.go` | none | stop, start, rm, volume calls, label lists | what the CLI refuses, "not found" taken for success | teardown is idempotent |
| Node recipes | `node.go`, `types.go` | none | names, argv | names of clusters folded together | create and destroy agree on names |
| etcd TLS | `etcd_tls.go` | the bundle on disk | generate, write | overwritten while in use | members and servers hold one CA |
| Lifecycle | `lifecycle.go` | addresses | Start, Stop | order by role, new addresses not saved | datastore first up, last down |
| Recreate, upgrade, rollback | `day2.go`, `upgrade.go` | images, two pins | Upgrade, Rollback | partial failure, retry | a roll goes on only past nodes that are back (a stale Node object passes too); rollback returns |
| Rotation | `rotate.go` | bundle, token | RotateCerts, RotateToken | the new secret exists only in memory for a while | no node is left with a secret nobody knows |
| Snapshot, restore | `snapshot.go` | etcd volumes, helper containers | Snapshot, Restore | data deleted before the snapshot is proved good | verified or unchanged |
| Dispatch, config | `cmd/k3ac` | flags, file | one command per run | precedence | a day-2 flag never falls through to create |
| Listing, kubeconfig merge, token, construction | `list.go`, `kubeconfig_merge.go`, `token.go`, `apple.go` | none of the cluster's | | | |

The parts interact through the host only: every command reads `state.json` (or,
for Create, does not), calls the CLI, and writes `state.json` as its last act.
`Destroy` alone looks past the record, by label.

## Modules

| Module | What it is |
|---|---|
| `Provisioning` | the state machine of the five membership commands |
| `ProvisioningProps` | the type invariant, what the commands promise, fairness |
| `ProvisioningInv` | the inductive invariant behind the proofs |
| `ProvisioningNames` | the same machine with a memory of the names RemoveNode has freed |
| `ProvisioningProofs` | type correctness, proved |
| `AddsProofs` | that invariant and four of the promises, proved |
| `RecordInv` | four more: of a Destroy, of the LB, of what is up, and of record and host |
| `RecordProofs` | the first three of them, `DestroyLeavesNothing`, `LBServesRecord` and `NoGhosts`, proved |
| `MatchProofs` | lemmas on the fourth: every call keeps it |
| `Membership` | abstract: the nodes recorded, on the host and asked for, and five transactions on them |
| `ProvisioningHistory` | `Provisioning` with a memory of failures, and the mapping to `Membership` |
| `MembershipProofs` | that mapping is a refinement, and what it gives, proved |
| `NodeOrder` | the orders in which commands visit the recorded nodes |
| `NodeOrderProofs` | that these orders are a stable sort and filters of it, and that rolling from a set follows the list, proved |
| `RollingReplace` | the state machine of Upgrade, Rollback and RotateToken |
| `RollingProps` | what those three promise, and the mapping to `ImagePins` |
| `ImagePins` | abstract: a current and a previous image, and what nodes run |
| `RollingInv` | the inductive invariant of `RollingReplace` |
| `RollingProofs` | that invariant, and all the runs check of `RollingReplace`, proved |
| `Maintenance` | the state machine of Stop, Start, RotateCerts, Snapshot, Restore |
| `MaintenanceProps` | what those five promise |
| `MaintenanceInv` | the inductive invariant of `Maintenance` |
| `MaintenanceProofs` | that invariant, and every safety property the run checks, proved |
| `MCProvisioning`, `MCMembership`, `MCNames`, `MCRolling`, `MCMaintenance` | constants for TLC |

`Provisioning` starts from an empty host, the other two state machines from a
cluster as Create leaves it, and they share no step: membership changes *which* nodes there are, `RollingReplace` what each k3s
node is launched *with*, `Maintenance` *in which order* all of them go down and
come up and what the datastore holds. Together they cover every command of the
dispatch that changes a cluster. One machine of all of them would multiply state
that no promise relates.

### How `Provisioning` corresponds to the code

A *session* is a run of the binary. `cmd` says which command it executes, `pc`
the call it is at, `plan` the nodes the command is about, `todo` what is left of
the loop it is in, `at` the node a teardown turn is in the middle of, and `mem`
its copy of `state.Nodes`; `mounts` is whether the run found an etcd bundle in the
state dir when it began, which is when AddServer looks. All of these are lost when
the run ends (`End`).

A *node* is a role and an index, which is what its container name, its volume
name and its labels are computed from; the load balancer has no volume. For
each node the runtime holds a container (absent, running, stopped) and a volume
(absent, blank, used: a container has run on it). On disk there are `state.json`
(`disk`, `recorded`), the kubeconfig, the etcd bundle and the servers named in
`haproxy.cfg` (`lbDisk`). `lbLive` is what the running haproxy has loaded, and
`trusting` the nodes that were launched since the bundle was last written.

| Code | Actions |
|---|---|
| `Create` | `StartCreate`, `EnsureNetwork`, `DeliverEtcdTLS`, `CreateVolume` (etcd), `LaunchMember`, `EtcdReady`, `CreateVolume`, then `LaunchNode` and `ArmNode` for each server, the LB and each agent, `SaveState` |
| `AddAgents` | `StartAddAgents`, `CreateVolume`, `LaunchNode`/`ArmNode`, `SaveState` |
| `AddServer` | `StartAddServer`, `CreateVolume`, `LaunchNode`, `ArmNode`, `ConfigureLB`, `StopLB`, `StartLB`, `SaveState` |
| `RemoveNode` | `StartRemoveNode`, `StopNode`, `RemoveContainer`, `DeleteVolume`, `SaveState` |
| `Destroy` | `StartDestroy`, the same three calls for each recorded node, `ListContainers` and the sweep, `ListVolumes` and the sweep, `DeleteNetwork`, `RemoveDir` |
| an error return | `RefusedCall`: the call cannot work in the present state (`Refused`), or what was asked for is rejected whatever is on the host (`Rejected`). Every command but Destroy ends (`GiveUp`); Destroy notes the error and makes the next call (`Collect`) |
| `checkDNSDomain`, the number of members | `BadCluster`: only the network is there |
| `resolveManifests` | `BadManifest`: the network, the running members and every volume are there |
| `assertDistinctIPs` | `SameAddress`: everything is launched, and in AddServer the LB has been restarted with the new server |
| anything else going wrong | `Fault`: a call that could have worked fails, or the run dies (`Die`, `DieInSave`); a failing call of a command that gives up is the same as its death |

One action is one CLI call with the tests and the file writes that go with it.
The volume test and `volume create` are one step, because the creation fails as
the test does if the volume appears in between. Waits (addresses, the apiserver,
quorum) are not steps: they let the command go on, or end it, which is a fault.
`haproxy.cfg` is written before the LB's `container run`, also when that run is
refused or the process dies there (`ConfigLeft`). The order of a teardown loop
is left open: it is the order of a recorded list, or of the CLI's answer.

A rejection is no fault: it may happen at its place in any run, and is not counted.

Left out of the state: which addresses and manifests there are (a Create or an add
may be rejected for them, or not), `writeClusterHosts` (a call that may fail, before
the save), the k3s token, images and labels, `kubectl` drain
(best effort, changes nothing here). What `container rm`, `volume delete` and
`network delete` refuse is external and modelled from how the code orders its
calls: a running container, a mounted volume, an attached network.

### What `Membership` says of them

`Membership` knows no calls. `book` is the list of `state.json`, `host` the nodes
of which there is a container or a volume, `goal` what is asked for, and `sound`
that no call has failed by itself, and no command been rejected late, since the
beginning or since the last Destroy that returned no error. Rejected late is one
that has volumes or containers on the host when its manifests or its addresses are
found wrong (`Strands`). `sound` is not in `Provisioning`, whose `faults` never come
down; `ProvisioningHistory` adds it and nothing else.

| `Membership` | `Provisioning`, under `Abstract` |
|---|---|
| `Form`, `Grow`, `Shrink`, `Clear` | `StartCreate`; `StartAddAgents`, `StartAddServer`; `StartRemoveNode`; `StartDestroy` |
| `Raise(n)` | the first thing made of a node: its volume, or the container of the LB |
| `Drop(n)` | the last thing taken away of it |
| `Commit` | the write or the removal of `state.json`, which ends the command |
| `Withdraw` | a refusal or an early rejection, when nothing has been made: the host still is what the book says |
| `Fail` | a `Fault` while sound, or a late rejection: the host stays as it is at that moment, the record too, unless it is torn |
| `Drift` | every step from there on |
| `Reclaim` | `RemoveDir` of a Destroy with no error, in a history that had a failure |
| a stutter | every other call |

`goal` is computed from the command at work (`Asked`), and is `recorded` when there
is none. `Withdraw` is guarded by `host = book`: that a command refused for what is
on the host has changed no node is what the refinement says. It does not say so of
every rejection, and the code would not have it: a bad manifest leaves volumes and
members behind, equal addresses a whole unrecorded cluster. Those two are `Fail`s. It
is stated for commands run one at a time; of two overlapping adds the second
`Commit` would take the nodes of the first out of the book.

### How `RollingReplace` corresponds to the code

One k3ac runs at a time. `cmd` is its command, `pc` the call it is at, `todo` the
nodes its loop is not done with; `Turn` is the first of them, servers before
agents. One action is one CLI or kubectl call for one node.

| Code | Actions |
|---|---|
| `Upgrade`, `Rollback`, `rollingReplace`, `rollOneNode` | `Upgrade` or `Rollback`, then for each node `Cordon`, `DeleteNodeObject`, the calls of `recreateK3sNode`, `WaitReady`, `Uncordon`; then `Resolve` and `SaveState` |
| `recreateK3sNode` | `ClearCerts`, `StopContainer`, `RemoveContainer`, `Launch`, `Arm` |
| `RotateToken` | `RotateToken`, `RotateSecret`, the calls of `recreateK3sNode` for each node, `SaveState` |
| an error return of a call that cannot work | `GiveUp` |
| a failing call, a wait that times out, a death | `Die`; in the write of `state.json`, `DieInSave`; for a kubectl call, which is best-effort, also `KubectlFails`; for an address that cannot be read, `InspectFails` |
| `LoadState` of a torn file | `LoadFails`: no command begins any more |
| k3s itself (external) | `Boot`: a server answers API calls; `Join`: a kubelet registers its Node object; `Crash` |

Addresses and tokens are relative, so that neither is counted. A holder of an
address (serving certificate, Node object, `state.json`) has the current one or an
old one. A token is the one in `state.json`, the one a rotation has just made and
only its process knows, or lost. `CanServe` says what k3s needs to come up: the
datastore's token, certificates not made for another address, and for an agent an API
server. `api` are the servers that answer, `up` the nodes whose kubelet has
registered since their launch.

What a roll waits for is not that a node is up. `WaitReady` is guarded by `SeenReady`,
what `waitNodeReady` looks at: some API server returns a Node object of the name,
and a server answers on its own API. A Node object that was not deleted (a failed
best-effort call, or k3s wrote it again before the stop) keeps `Ready=True` for a
while, so an old object passes; how long it does is not modelled: the wait may
return on it or may not. `Ready(n)` is the fact, that the kubelet is back and keeps
its object; `Down` is its negation and `Stale` the nodes with an old object. No
guard of the code's actions uses them; `downAtStart` only remembers `Down` for the
properties.

The token on record, the image constants and `Asked`, the images an `-upgrade`
may ask for, are small sets of model values. `Crash` is k3s
reading its old address from its own Node object: the race the comment of
`kubectlDeleteNodeArgs` tells of. It is external, unbounded, and no fault.

### How `Maintenance` corresponds to the code

| Code | Actions |
|---|---|
| `Stop` | `BeginStop`, `StopNode`..., `Finish` |
| `Start` | `BeginStart`, `StartNode` and `Arm` of k3s nodes..., `Finish` |
| `RotateCerts` | `BeginRotateCerts`, `StopNode`..., `WriteDir`..., `StartNode` of each member; `RunHelper`, `RemoveHelper`, `StartNode`, `Arm`, `AwaitApi` of each server; LB and agents; `SaveState` |
| `Restore` | `BeginRestore`, `StopNode`..., `RemoveMember`, `DeleteVolume`, `CreateVolume`, `RunHelper`, `RemoveHelper` of each member; `LaunchMember`..., `VerifyMarker`, then servers, LB and agents; `SaveState` |
| `Snapshot` | `BeginSnapshot`, `SaveSnapshot` |
| an error return | `GiveUp`, and `BadFile` when the file is no snapshot |
| a failing call or a death | `Die`; `LeaveHelper`, `TearDir` and, in the write of `state.json`, `DieInSave` when it leaves something behind |
| `LoadState` of a torn file | `LoadFails`: no command begins any more |
| etcd and k3s (external) | `Elect`, `ServerExits` |

`listing` is the list in `state.json`, and the order of every loop is computed
from it by `NodeOrder`, as `orderByRole` and `nodesWithRole` do: `SortIsStable` proves it of every list. `RollingReplace` has
no list but a set and `FirstToRoll`; `RollsTheList` proves that this visits the
nodes in the order of `UpgradeOrder`, for every list in which the indices of a role
rise. They do: Create numbers the nodes, the adds append an index above the others
(`AppendByIndex`), and RemoveNode takes one out, which moves none past another.
(`OrdersAreRight`, an assumption of `MCMaintenance`, says both of short lists, for
TLC to evaluate.)

The bundle is a directory for
each member and one for the servers; `fresh` are those written since the last CA was made, `stale` the running nodes whose directory was replaced under
them. Two fresh directories agree. Two that are not fresh may or may not agree,
and are taken to: this lets more nodes start than might, so it can hide no state
that a safety property excludes, and `Sound` asks for all directories fresh. What
a volume holds is where it came from: `live`, a snapshot (`saved`), or a snapshot
that lacks the marker key (`hollow`). Members can elect a leader when a majority
runs on data of one origin with certificates of one CA.

## Runs

| Run | Instance | Shows |
|---|---|---|
| `small` | one server, one or two agents, indices to 3, one session, all commands, custom network, torn writes, 3 faults, fairness | the safety properties of a single-server cluster; the refinement of `Membership`, with `SoundInv`; `DestroyRecovers` |
| `ha` | 3 etcd members, 2 servers, LB, growing to 3 servers, torn writes, 1 fault | the safety properties with a managed datastore; `LBServesRecord`, `SoloInv`; `RecordHolds` |
| `overlap` | two sessions, small clusters, all commands, commands that add may overlap, torn writes, 1 fault | `AddsInv`, `DestroyInv`, `NoGhosts`: what overlapping runs may do to each other, and what not |
| `overlap_servers` | two sessions, servers and LB on an external datastore, Create and both adds, 2 faults | claims on names when two runs may both restart the LB; agents behind the LB |
| `rolling` | 2 servers, 1 agent, 2 images, any sequence of upgrades, rollbacks and rotations, 1 fault | what they promise, and that they implement `ImagePins` |
| `maintenance` | 3 etcd members, 2 servers, LB, agent, in two listings, any sequence of commands, fairness, 1 fault | order, data and certificates across restarts; `MaintInv`; `RepairRecovers` |
| `network_leak`, `bundle`, `bad_manifest`, `freed_names`, `retry`, `stale_ready` | as small as shows it | violations, see Findings |

Late rejections, refusals and `Crash` are free in every run: nothing counts them.

What the properties say:

- `LaunchesFresh`: no server, agent or etcd member ever boots on a volume an
  earlier node of its name has used.
- `RefusesBeforeLaunching`: once past the guard on its own volume, a node's launch
  is not refused: looking at volumes is enough to notice leftover containers. It
  excludes the LB, which has no volume (a leftover LB is noticed only when every
  server is up), and does not say that the guard comes first: in an HA Create
  the etcd members run before the k3s volumes are looked at (create.go:442, 130).
- `RecordHolds`: when no command runs, `state.json` names exactly the running
  containers and exactly the volumes that exist, as long as no call has failed by
  itself and no command was rejected late; and again from any Destroy on that reports
  no error. So no refusal in that time leaves a container or a volume, and no half-made Create,
  half-removed node or torn file is remembered by anything such a Destroy leaves.
  It is stated for clusters of one shape per run: a Create with etcd members over a
  live single-server cluster of the same name launches the members before the guard
  on the k3s volumes refuses it.
- `ImplementsMembership`: in the same stretches each command is a transaction. It does
  all it was asked for before `state.json` says so, touches no node that stays,
  makes nothing else, and a refused one has made and taken away no node (it may have
  made the network, and rewritten the etcd bundle: see `bundle`). `RecordHolds` compares
  record and host when no command runs; this does at every call.
- `NoGhosts`: overlapping Creates and adds lose each other's nodes from
  `state.json`, but it never names a node that is not running, however many of them
  are refused or rejected. Checked while nothing fails by itself, and with
  teardowns alone. Beside a RemoveNode it is false of the code: an AddAgents that
  loaded before and saves after it (node_ops.go:47, 362, 123) writes the removed
  node back. `MayOverlap` leaves that case out, and no doc promises anything of it.
- `CommitsLive`: what Create, AddAgents and AddServer record is running, has IP
  forwarding on, and the kubeconfig is there.
- `LBServesRecord`: servers are recorded beside a LB only when the haproxy that
  is running has loaded all of them. It is checked with one session.
- `DestroyLeavesNothing`: a Destroy that has collected no error leaves no
  container and no volume, recorded or orphaned.
- `ClaimsDisjoint`: of two overlapping runs that computed the same name, at most
  one holds it.
- `DestroyRecovers` (liveness): see Fairness.
- `AddsInv`, `DestroyInv`, `SoloInv`, `SoundInv` and, below,
  `MaintInv`: the inductive invariants, checked before they were proved.

Of the rolling commands:

- `OneDownAtATime`: besides the node at hand, a roll has down only nodes it found
  down, as a retry does, and nodes whose old Node object passed for Ready. When no
  call failed and it found every node up, only the node at hand is down: every old
  object is deleted then, and none comes back. With one failing delete two may be
  down (`stale_ready`).
- `NoStaleCert`: a node that served when a command began is not relaunched over
  certificates made for its old address, whatever call failed. A node that was
  still booting may be: k3s can make them again between the `rm` and the stop.
- `TokensInPlay`: no sequence of rotations, rolls and failures leaves a node with
  a token that neither `state.json` nor the datastore knows. A second rotation
  after one that died is refused, which is what keeps it at two.
- `SuccessConverges`: a command that reports success has repaired what earlier
  ones left: images and pins, or tokens, and kernel settings. After a roll a node
  that is not back has an old Node object; when no call failed and it found every node
  up, all are back. A rotation promises tokens, and no node that serves: it waits
  for none, and every server may be down at once in it (rotate.go:309).
- `UndisturbedRollsSucceed`: a roll of a sound cluster is never refused and never
  waits for a node that cannot come up. (Its termination is not stated as a
  liveness property: with fairness for each node's boot the run takes too long.)
- `ImplementsPins`: `image` and `previous` change together, and only when every
  node runs the image that becomes current. The mapping takes `img` for what runs,
  `target` for the goal, and resolves an image that an old state does not record.

Of the commands that restart the cluster:

- `Layered`: no server runs without every member, no agent without the LB, after
  any sequence of commands and failures and for both listings.
- `NoMixedData`: no two members run on data of different origin or on a blank
  volume, also after a restore that died half-way and a Start after it.
- `NoneOnOldCerts`: no member or server runs across a rewrite of its directory.
- `HelpersWorkAlone`: while a command runs a one-shot container, the node of that
  volume is down. A helper left behind by a death is not meant, nor is its label.
- `RestoreStartsVerified`: a restore runs servers only on data seen to hold the
  marker, though it has looked at one member.
- `Success`: what holds when a rotation or a restore reports success, whatever had
  failed before. The LB is excepted: it gets a new address which is not recorded.
  Start promises nothing of addresses, and saves none.
- `RepairRecovers` (liveness): see Fairness.

Bounds. `MaxIndex` 3 lets an index be freed and given again, and two names be
added in one command beside one that exists. `MaxFaults` bounds faults: three in
`small` allow a death, a failing Destroy after it and another failure in the
Destroy that repairs it. Two sessions are enough for a conflict on a name, which
is between two. In `rolling` and `maintenance` one fault is enough to leave any
intermediate state and run any sequence of commands after it (two faults in
`maintenance` take more than the five minutes a run is given); two servers give a
first and a later one, an agent the other role, three members a majority that is
not all; the second listing has a server recorded behind the agents, as after
AddServer, where list order and role order differ. Refusals are not counted: they are unbounded in every run.
Deadlock is checked in every run.

### Fairness

`DestroyRecovers` assumes `WF` of each session's work: a command that has begun
goes on, because every CLI call returns and every wait in the code has a deadline
or ends in an error. It assumes `SF` of `StartDestroy`: an operator who gets to
run `-destroy` again and again does so. That is an assumption on the operator,
not on the program, and what is shown is about the program: whatever was run in
between, and however earlier commands ended, with finitely many faults, a Destroy
comes that leaves the host clean. Rejections need no bound: each ends a command, and
the operator's next Destroy starts. The conclusion excepts a torn `state.json`:
`LoadStateForDestroy` returns the parse error then (its comment says so) and no
Destroy ever starts.

`RepairRecovers` assumes `WF` of the command at work, `WF` of `Elect` (members
that can elect a leader do, which is etcd's promise), and `SF` of the operator's
`-rotate-certs` and `-restore` of a good snapshot. `ServerExits` is bounded by
`MaxFaults`, since servers that exit for ever let nothing finish. The conclusion
excepts `Blocked`: a restore that was given a bad file, or was killed while its
helper ran, leaves the helper on a volume with data, and every later restore is
refused where it deletes that volume, before it would remove the helper; and a torn
`state.json`, after which no command begins.

## Findings

- **The network outlives Destroy** (`network_leak`). README says `-destroy`
  removes the network. If Create dies between `ensureNetwork` and `saveState`,
  the name-only `ClusterRef` has no network, `destroyNetwork("")` does nothing,
  and Destroy reports success.
- **A refused Create replaces the etcd bundle** (`bundle`). `provisionEtcdCluster`
  writes a new CA and certificates before it looks for leftover volumes. After
  a `-create` repeated over a live HA cluster, AddServer mounts a bundle of a CA
  the members do not hold, against its comment.
- **A retry of a recreate does not find its container** (`retry`). The comment of
  `rmStaleServingCertsArgs` says that the `-f` makes a retry after a partial
  recreate safe. The `rm` runs inside the old container, which a partial recreate
  has stopped or removed: the retry of `-upgrade`, `-rollback` or `-rotate-token`
  is refused at that node.
- **A bad manifest is found mid-bring-up** (`bad_manifest`). The comment in Create says
  that manifests are looked at "before any launch". They are looked at after
  `provisionEtcdCluster`, so an HA Create is rejected with its members running and
  every volume made, and the corrected one is refused until a `-destroy`.
- **Two nodes down in a roll** (`stale_ready`). The comment of `rollOneNode` says that
  only ever one node is down. The wait asks for a Node object of the name with
  `Ready=True`; when the best-effort delete of the old object failed, that object
  passes, and the next node is taken down while the recreated one is not back.
- **A freed name is given again** (`freed_names`). The comments of AddAgents and
  nextAgentIndex say it never is; the index is computed from the nodes still
  recorded, so removing the highest agent frees its name. The volume is deleted
  with the agent, which is why `LaunchesFresh` holds all the same.

Also met while reading, with no run of its own: README says that removing a
server rewrites haproxy's configuration and that only the last server cannot be
removed (README.md:172, 480), and `ensureRemovable` refuses every server. A
rotation of the token that dies before `saveState` leaves the datastore on a token
which no file holds. Start, RotateCerts and Restore leave the LB's old address in
`state.json`.

## Proofs

| Theorem | Statement | Assumes |
|---|---|---|
| `TypeCorrect` | `Spec => []TypeOK` | `ConstantsAssumption` of `Provisioning` |
| `AddsInvariant` | `Spec => []AddsInv` | and `OnlyAddsOverlap` |
| `NamesAreClaimedOnce` | `Spec => []ClaimsDisjoint` | the same |
| `GuardCoversLaunches` | `Spec => []RefusesBeforeLaunching` | the same |
| `NoStaleBoot` | `Spec => LaunchesFresh` | the same |
| `CommitsAreLive` | `Spec => CommitsLive` | the same |
| `DestroyInvariant` | `Spec => []DestroyInv` | the same |
| `DestroyIsComplete` | `Spec => []DestroyLeavesNothing` | the same |
| `GhostsInvariant` | `Spec => []GhostsInv` | the same |
| `NoGhostIsRecorded` | `Spec => []NoGhosts` | the same |
| `SoloInvariant` | `Spec => []SoloInv` | `NoOverlap` |
| `LBServesWhatIsRecorded` | `Spec => LBServesRecord` | the same |
| `SoundInvariant` | `HistorySpec => []SoundInv` | `NoOverlap`, `OneShape` |
| `CleanDestroyRestores` | `HistorySpec => []RecordHolds` | the same |
| `MembershipImplemented` | `HistorySpec => ImplementsMembership` | the same |
| `MembershipAgrees` | `Abstract!Spec => []Abstract!Agreed` | |
| `NothingUnaskedFor` | `HistorySpec => []Abstract!Agreed` | `NoOverlap`, `OneShape` |
| `RollInvariant` | `Spec => []RollInv`, and `RollTypeCorrect` its first part | `ConstantsAssumption` of `RollingReplace` |
| `OneNodeDown` | `Spec => []OneDownAtATime` | the same |
| `NoTokenUnknown` | `Spec => []TokensInPlay` | the same |
| `UndisturbedSucceeds` | `Spec => []UndisturbedRollsSucceed` | the same |
| `CertsAreCleared` | `Spec => NoStaleCert` | the same |
| `SuccessRepairs` | `Spec => SuccessConverges` | the same |
| `PinsRefined` | `Spec => ImplementsPins` | the same |
| `SortIsStable` | `OrderByRole` of any list is that list, by rank and otherwise in its order | |
| `RollsTheList` | `FirstToRoll` of what is left of `UpgradeOrder` is the node at that place | indices rise within a role |
| `MaintInvariant` | `Spec => []MaintInv`, and `MaintTypeCorrect` its first part | `NodesAssumption`, `ListingsAssumption` |
| `LayersHold` | `Spec => []Layered` | the same |
| `DataNeverMixed` | `Spec => []NoMixedData` | the same |
| `CertsNeverStale` | `Spec => []NoneOnOldCerts` | the same |
| `HelpersAlone` | `Spec => []HelpersWorkAlone` | the same |
| `RestoreVerifiedFirst` | `Spec => []RestoreStartsVerified` | the same |
| `SuccessIsSound` | `Spec => Success` | the same |

### Membership commands

These theorems hold for any set of sessions, any clusters, any `MaxIndex`, any
number of faults. `OnlyAddsOverlap` says that RemoveNode and Destroy run alone;
Create, AddAgents and AddServer may overlap in any number. Without it the
theorems are false: a Destroy beside a Create deletes the volume the Create is
about to mount.

None of the promises is inductive by itself. `LaunchesFresh` needs to know that
a volume checked long before the launch is still blank, which needs that no one
else took it, which needs that no one else claims the name. `AddsInv` says this
per session: what it has *claimed* exists, what is *pending* among it is blank
and has no container, what is *done* is running, armed and in its copy of the
nodes; and across sessions that claims are disjoint, that a container's volume
exists, and that a teardown is alone. `Composed` reduces a step of one session
to its own part and a frame: it changes no container or volume another claims.
`CreateVolume` is the one step that enlarges a claim, and it can only when the
volume is absent, so that nobody holds it. There is one lemma per action of a
bring-up; teardown steps need only keep `Mounted`, being alone.

`DestroyIsComplete` does not ask what earlier commands left: it rests on
`Swept`, which says at each call of the second pass what cannot be left. After
`ListContainers` every container there is is in `todo`, after its loop there is
none, and then the same for volumes. The first pass, over the recorded nodes,
does not enter into it. This is why a torn or missing record does no harm.

`NoGhostIsRecorded` is about lost updates. `LiveInv` says that what is recorded
is up unless something is being torn down, and that what a run that adds nodes
has read or launched is up as long as the run lasts. The second part carries it:
`state.json` is written from that copy, however old it is, and no teardown can
have begun since it was read. A RemoveNode runs alone, and `Spares` says at each
of its calls that it has taken down nobody but its own node, which it then leaves
out of the record. No order between the writes of overlapping runs is needed. The
assumption `OnlyAddsOverlap` is not for convenience: with a RemoveNode between an
add's load and its save the statement is false of the code, and `NoGhosts` leaves
it out by name.

The others are about what a command leaves *beside* what it was asked for, so
they need `NoOverlap`: commands run one at a time (`MayOverlap = {}`). Two
overlapping adds write `state.json` over each other, and what the first recorded
is then an orphan. `LBServesWhatIsRecorded` follows from `LBInv`: in a Create,
once the LB is launched it has loaded all the servers planned; in an AddServer,
the configuration on disk has the new server before the LB is restarted. It
holds with any number of faults and after any history.

`SoundInvariant` has the longest way to go. Of a refused command it must show
that nothing was launched before the refusal, of a commit that nothing else is
there. `Matched` says, while things are sound, where every command is
at every call: a command that adds nodes has the record, the nodes it is done
with and the volumes it has claimed on the host, and no more (`Grows`); or it is a
Create over a live cluster, which gets no further than the volume of its first
node (`Doomed`); a RemoveNode has taken apart its one agent so far (`Shrinks`);
no call of a Destroy can be refused (`Clears`). `Rooted` supplies the node whose
volume refuses a second Create. Each refusal is shown either impossible in its
state, or possible only where nothing has been claimed (`RefusedAtFirst`); a late
rejection (`Strands`) is the one that is neither, and ends the stretch. `OneShape`
says that a name is not created with etcd members of
its own at one time and without at another. It is needed: with clusters of both
shapes TLC finds a Create with members that launches them over a live
single-server cluster, before the guard on the k3s volumes refuses it
(create.go:442). Every shape alone satisfies it, and so does any set of shapes
that agree in having members.

`Matched` comes back with any Destroy
that reports no error. `Swept` gives that the host is empty then (`CleanLeaves`),
the state dir goes with it, and `NoOverlap` that no other run knows anything. The
history variable `sound` marks these stretches. It is set by each step and guards
none, so it excludes no behaviour; `HistoryOfSpec` is the other direction, by which
every invariant proved of `Spec` holds here. `Calm`, that no command but Destroy has
errors noted, is what lets the next Destroy start from none.

`MembershipImplemented` then maps each step. While sound, what `Matched` says of
the command at work says what a call changes of `OnHost`: a volume where there was
nothing is a `Raise`, a second container or an armed node is a stutter, and a
volume deleted behind its container is a `Drop`. At the last write `Matched`
says that the host is what was asked for, which is the guard of `Commit`. A refusal
must be a `Withdraw`, and is, because `Matched` leaves it nowhere but where nothing
has been made. The step with which things cease to be sound changes no container and
no volume: it is a `Fail` (`FailRefines`). Steps after it are `Drift`, whatever they
do, or `Reclaim`. The
abstract specification has an invariant of its own, `Agreed`, proved once of
`Membership` and carried over by the refinement (`NothingUnaskedFor`).

### Rolling commands

The theorems about `RollingReplace` hold for any set of servers and agents that
has a first server, any images, any number of faults and of commands. Each
promise speaks of the end of a command, or of one instant; `RollInv` says what is
true at every call in between, of the nodes the loop is done with (`Done`), of the
one it is at (`Turn`, shown to be one at most) and of those it has not come to.
`Downs` says that the nodes it is done with are back, or that an old Node object
stands in for them, which is all that `SeenReady` gives; `Smooth` that a roll which
met no fault and no node down leaves no old object, because each is deleted while
an API server answers. `Untouched` is what `NoStaleCert` needs: a node that served when the command began
serves until it is stopped, so nobody makes certificates anew once they are
cleared. `Replaced` is the same for a roll that nothing has disturbed. `Tokens`
shows why two tokens never become three: while a rotation has not recorded its
token, `secret` is not the recorded one, and the next rotation is refused. There
is one lemma per action; `PinsNext` maps each to a step of `ImagePins`: a launch
or a removal to `Move`, the last write of a roll to `Commit`, an end without it to
`Abandon`, and all else to a stutter.

### Commands that restart the cluster

The theorems about `Maintenance` hold for any finite set of nodes with an etcd
member and a server, lists of them in any order, any number of faults and commands. They are
about loops over a sorted list, so they rest on what the sort returns.
`NodeOrder` defines it without recursion: `Arrange` puts each position behind
those of a given set, and `Behind` gives, for a stable sort, the positions that
are less and those before it that are equal. `NodeOrderProofs` shows that these
sets are a chain, hence that every position gets a place of its own, hence that
the result is a rearrangement; the filters (`WithRoles`) are the same operator.
`RollsTheList` rests on the filters keeping the order of the list (`FilterByIndex`).

`MaintInv` says, of each loop, where it is. `Itinerary` keeps what is left of the
list in order and without repetition, which is what makes the head of `todo` the
one node that is in between. `Downs` and `Ups` turn order into facts: what was
stopped is down until its start is called, and what the loop of a start is done
with runs, except servers, which may exit. `Layered` needs both. `OneHistory`
strengthens `NoMixedData` from the members that run to those whose container
exists, because a `start` asks nothing more than the container. `Filled` carries a
restore over the time in which members have no container: those behind the loop
have the file's data, and those before it are down. `RestoreStartsVerified` then
follows although one member only is looked at: all hold the same file. `Bundle`,
`Helpers` and `Settled` say the same of certificates, helper containers and
addresses, and `Success` reads them off at the last write.

### Model-checked only

The liveness properties `DestroyRecovers` and `RepairRecovers`: liveness under
fairness and `ENABLED` are beyond the prover, and so is induction over data; no
module here declares a recursive operator. The six violation runs are
counterexamples and have nothing to prove. Every other property of a run is
stated by a theorem. With overlapping commands `RecordHolds`,
`LBServesRecord` and `ImplementsMembership` are false, as above, and no run claims
them there; what is left of them is `NoGhosts`.

## Not modelled, and what could come next

Every part of the plan that concerns the state of a cluster is done: the membership
commands, proved to implement `Membership`; `NodeOrder`; `RollingReplace` with
recreate, pins and tokens, proved to implement `ImagePins`; `Maintenance` with
lifecycle order, certificates, snapshot and restore. All safety properties of the
runs are proved. What could be added:

1. What a Create over a live cluster may change, for clusters of both shapes.
2. A RemoveNode beside an add, and what the ghost it leaves does to the day-2 commands.
3. Destroy beside the helpers of a restore that died, which carry no label.
4. Configuration precedence and volume-name folding, as operators against
   reference definitions.

Left out for good: listing, kubeconfig merge, token generation, X.509 and argv
contents, and logging: no cluster state, or formatting only. The certificates k3s
keeps of its own (other than the serving ones on a node's volume) are k3s's.
