# Wakame-vdc: a TLA+ model of its control plane and web GUI

This directory holds the TLA+ specifications kept beside Wakame-vdc (an IaaS
control plane written in Ruby, with a web GUI written in JavaScript), the TLC configurations that model-check them on
small instances, and the TLAPS proofs of what matters most for every instance.
`PROJECT.json` maps every definition to the source lines it translates.

## 1. The system

### Processes

| process | started by | role |
|---|---|---|
| API (`dcmgr`) | rack, `endpoints/12.03/*.rb` | validates requests, writes rows, sends jobs after the transaction commits |
| collector | `bin/collector` | RPC endpoints that own the database for the agents (`hva-collector`, `sta-collector`, `jobqueue-proxy`, `natbox-collector`), the scheduler job endpoint, the HA manager |
| HVA | `bin/hva` | runs instances on a host node: RPC jobs `run_local_store`, `run_vol_store`, `terminate`, `cleanup`, `stop`, `attach`, `detach`, `poweroff`, `poweron`, ...; the instance monitor; netfilter/openflow services |
| STA | `bin/sta` | creates, deletes and exports volumes on a storage node |
| BKSTA | `bin/bksta` | pulls backup objects between backup storages, driven by the RDBMS job queue |
| NSA, natbox, metadata, admin CLI (`vdc-manage`) | | DHCP/DNS, NAT, metadata, operator commands |

Processes talk over AMQP (the Isono framework, a library outside this
repository): *RPC requests* with an answer and a timeout, *job* messages that the
receiving endpoint queues and executes, and *events* that are broadcast.

### Components, their state and what makes them right

| component | state | operations | what is hard | what must hold |
|---|---|---|---|---|
| job queue (`models/queued_job.rb`, `node_modules/job_queue_*.rb`) | table `queued_jobs`; per agent a set of poll chains | submit, pop, finish_success, finish_fail, cancel, poll, stop | pops, reports and cancels of several workers interleave; RPC timeouts and late answers; a worker crash; retry decided twice on different data | one worker per job, bounded attempts, outcome decided once, failure block runs last, poll chains survive, jobs finish |
| volumes and shared-volume instances (`endpoints/12.03/{instances,volumes}.rb`, `node_modules/{scheduler,hva_collector,sta_collector}.rb`, `rpc/{hva,sta}_handler.rb`) | rows `instances`, `volumes`; real domains and devices on the nodes | create, terminate, attach, detach, poweroff, poweron, delete; the jobs they send | a request validated in one state is executed by an agent in another; every agent step may raise, and its rescue path writes states of its own; several jobs for one instance are queued at once | a volume is attached to at most one instance; a terminated instance leaves no domain, device, data or live volume row; a running row has its volumes attached; rescue paths and the monitor leave no transient state behind |
| backup objects and images (`rpc/local_store_handler.rb`, `node_modules/sta_collector.rb`, `models/{image,backup_object}.rb`) | rows `images`, `backup_objects` | instance backup, upload, post-processing, delete | several backup objects of one image finish in any order | an image is available only when all its backup objects are |
| IP address allocation (`scheduler/ip_address/incremental.rb`, `models/{dhcp_range,ip_lease,network_vif_ip_lease}.rb`) | leases of a network, DHCP ranges | schedule a vif, release, add and delete ranges | a cyclic search over ranges with holes, wrap-around, edges | the leased address is free, in a range; if there is one it is found |
| host node capacity and placement (`models/host_node.rb`, `scheduler/host_node/*.rb`) | instances per host node | schedule, add_instance, evacuate | the check and the insert are separate steps of several scheduler jobs | offering capacity is not exceeded |
| HA manager (`node_modules/ha_manager.rb`, `scheduler.rb` HA part) | list of managed instances, states received over events | start/stop, restart after failure | events and recovery race | |
| netfilter and openflow services (`node_modules/service_*.rb`, `edge_networking/**`) | per-host cache of security groups, vifs; chains | events for vif creation, group changes | cache updates by events in any order | rules on the host equal the rules of the database |
| network model (`models/network.rb`, `network_vif.rb`, ...) | networks, DHCP ranges, vifs | add/delete ranges, attach/detach vifs | interval arithmetic | the search copes with whatever ranges exist |
| load balancers, alarms, natbox, quota, resource groups, tags, metadata | rows | API | mostly data access | |
| web GUI (`frontend/dcmgr_gui/public/javascripts/dcmgr_gui/*.js`) | per page: table, pager, selection, details, buttons, open dialog, requests in flight | click, page, refresh, open and send a dialog, type, answers | answers in any order, lost or late; one load mask for all requests; elements of hidden dialogs; handlers that do not recompute what they changed | what the user sees and what a click acts on is the same row; a button is enabled when its form can be sent; an update loses nothing |
| admin console, clients (`mussel`, Go client, terraform), image build, packages, CI | | | other programs | |


## 2. Modules and plan

| module | models | status |
|---|---|---|
| `JobQueue`, `JobQueueProofs` | the RDBMS job queue and its pollers | checked; all safety properties proved |
| `JobPromise` (proof in `JobQueueProofs`) | the abstract queue, as the submitter of a job sees it | refined by `JobQueue`: checked and proved |
| `InstanceLifecycle`, `InstanceProofs` | one instance from creation to termination, its volumes, all agents | checked; types proved, safety proved for local volumes |
| `VolumeAttach`, `VolumeProofs` | one volume moved between existing instances | checked; safety proved |
| `IpAllocation`, `IpAllocationProofs` | the address search and its transactions | checked and proved |
| `BackupImage`, `MCBackupImage` (proofs in `VolumeProofs`) | a halted instance made into an image | checked; safety proved |
| `GuiList`, `GuiListProofs` | the list pages of the web GUI with check boxes | checked and proved |
| `GuiSingle`, `GuiSingleProofs` | the list pages with radio buttons | checked and proved |
| `GuiResource`, `GuiResourceProofs` | the dialogs of the resource management page | checked and proved |
| `GuiForms`, `GuiFormsProofs` | the forms of the GUI and their `ready()` checks | checked and proved |
| `InstancePromise` (abstract) | the life cycle a user of the API may rely on | planned; to be refined by `InstanceLifecycle` |
| `HostFailover` | HA manager, evacuation, migration between two HVAs | planned; composes with the states of `InstanceLifecycle` |
| `Placement` | capacity check and insert by concurrent schedulers | planned |
| `NetfilterCache` | security groups on a host under events in any order | planned |

`InstanceLifecycle`, `VolumeAttach` and `BackupImage` share rows in the program.
They are separate modules because their jobs meet only through the state columns
named in each header: a volume that belongs to the creation of an instance is
never available to `PUT attach` before the boot ends, and a backup needs a halted
instance.

Theorems to come: the invariants of `InstanceLifecycle` for shared volumes, with the
exceptions that section 9 names.
The modules contain no RECURSIVE operator, so all of
them can be proved about; loops that are searched or repeated are recursive functions.

## 3. The job queue: `JobQueue.tla`, `JobPromise.tla` and their proofs

`job` is the table `queued_jobs` (state, worker, retry counters, finish status),
`reqs` the requests waiting at the collector's `jobqueue-proxy` endpoint in
arrival order, `poller` the poll chains of the agents: where each is between
`poll`, `pop_job`, the block and the two report calls, with the job hash that
`pop` answered (a *copy* of the row: `retry?` is evaluated on it). `running` is
`Poller#@running` plus the EventMachine callback that cancels the timers. The
variables `work`, `orphaned` and `unreported` are histories: they guard nothing.

The proxy's actions are whole handlers, because its rack stack runs under
`Isono::Rack::DataStore` (one database thread); a pop therefore reads and
updates the row in one step, and what can interleave is the *order* of requests
and what callers do meanwhile. Faults: a caller stops waiting although its
request is queued (`timeout`), a request is lost when the collector restarts
(`lose`, then `no_answer`), a worker node crashes and restarts (`crash`).

Runs:

* `job_queue`: two jobs, one node with two poll chains, retries, cancels, stop and
  one fault at any point. Two chains and two jobs suffice for every pair of
  conflicting actors; one node, because a chain of another node differs only in
  the `worker_id` it writes; one fault, because every property that tolerates a
  fault names the loss it tolerates, and the proofs below cover any number.
* `job_queue_live`: fairness is weak fairness of the proxy (a thread that serves
  its queue), of every poll chain (a pool thread or a timer; a block returns or
  raises) and of the EM callback of `stop`. Nothing else is forced; faults are
  finite. `EveryJobFinishes`, `StopDrains`.

What the runs show beyond the guards: a success report that timed out and was
followed by `finish_fail` never re-runs a job that the collector had finished
(`DoneOnce`), and the only losses the code does not recover from are the three of
`NoSilentOrphan`: a crashed worker, a pop answer nobody waited for, a lost
`finish_fail`. No code returns such a row to the queue.

`JobPromise` is what a submitter may rely on, with no proxy, message or chain in it:
a job is submitted, taken, given back while attempts are left, and ended once, with
success only after its block has returned, with failure only after the last attempt,
or cancelled. `Promised` in `JobQueue` instantiates it with the rows as the abstract
phase, outcome and counters, and the history `work` as the set of returned blocks; the
run `job_queue` checks that every step of the queue is a step of `JobPromise` or
leaves it alone.

Proofs (`JobQueueProofs.tla`, every constant arbitrary):

* `TypeCorrect`: needs `LiveRequests` beside `TypeOK`: an answer is written into
  the chain that waits for it, so the proxy's step is well typed only because a
  live request belongs to a chain that is at that call and works on that job.
* `FinishedStaysFinished`: from the types and the guard of each row operation
  (`RowChange` lists the ways a row can change).
* `RowsCorrect`: from `RowsInv` (validity of the row, the retry counters, and
  `begun <= count`), one lemma per row operation.
* `OneWorker`: the inductive invariant is `HoldInv` = `OneWorkerPerJob`,
  `HeldRows` (a row somebody works on is running with the counters of the hash,
  or already finished) and `Reports` (reports queued about a job that is not
  finished come from its holder, at most one success before one live fail). The
  last is what excludes the interesting failure: a late `finish_fail` of an
  attempt that is over would push the row back while a second chain runs it.

* `Implements` (end of `JobQueueProofs.tla`): `Spec => Promised`, one lemma per row
  operation. A step of the proxy is allowed by `JobPromise` only because of what is
  queued: `RequestsTrue` says that a queued success report is about a block that
  has returned and a queued cancel about a row that exists; `HoldInv` and `RowsInv`
  above say that the row a report finds is the one its sender works on.

* The other safety properties, from `SafetyInv`. `FailureIsLast` is inductive with what
  the failure block leaves behind. `FailIsCleanedUp` needs `FailMeant`: a queued
  `finish_fail` that will end the job is either the report of a block whose failure
  block ran, or it follows a `finish_success` that is ahead of it in the queue or was
  lost. `WorkDoneOnce` needs `DoneReported`: work whose report is not lost is in the
  row or in the queue, and no chain is at the job. `NoOrphan` needs `Answered` and
  `Attended`, which do not count a queued `finish_success` as attention: it may be
  lost unnoticed, but then its sender sends a `finish_fail`.

Model-checked only: the liveness properties (liveness under fairness is out of
TLAPS's reach).


## 4. The life of an instance: `InstanceLifecycle.tla` and its proofs

State: the row `inst`, the rows `vol`, the scheduler job, the three job channels
`q` (`hva-handle`, `local-store-handle`, `sta-handle`), what each worker executes
(`w`: the job, the step, the volumes its loop has left and the volumes in the hash
`get_instance` answered when the job began), the instance monitor `mon`, and what
is really on the nodes: the domain, the volume data, the devices on the host.

An API request, a collector handler and a scheduler job are one transaction and
one action. A job of an agent is cut at every RPC and every driver call, because
other actors run between any two of them; the names of the actions are those of
the methods. A driver call may raise before or after its effect (`raise`), a
cleanup call inside `ignore_error` may fail (`fail_cleanup`), the scheduler may
find no host (`schedule_error`), the guest may die, HVA may crash and lose the
jobs it was executing. `leaky` records that such a fault hit a step whose effect
no code repeats; the properties about leaks except exactly those histories.

Bounds: `MaxRequests`, `MaxFaults`, and `MaxQueue`, the number of forced
terminate jobs the monitor piles up while a shutdown lasts.

| run | instance | shows |
|---|---|---|
| `instance_local` | two local volumes, two local store threads, three requests of all seven kinds, one fault | no healthy boot is rolled back (`NoSpontaneousDeath`); after termination no domain, data or live volume row remains (`NothingLeaks`); a running instance has its volumes (`RunningIsComplete`); a row that offers data has it (`RowsTellTheTruth`); no domain runs on a deleted disk (`NoDomainWithoutDisk`) |
| `instance_live` | one shared volume, two requests, one fault | transient states end, a dead guest is noticed, an interrupted shutdown is resumed |

Two volumes give every pair of concurrent local store threads; three requests
cover stop, start and delete in a row, and every request overtaken by two others.
Volumes of one kind per run, because a mixture runs into the defects of section 9.
With one shared volume, three requests and two faults the safety properties of
`instance_local` hold as well; that instance is checked by giving its constants to
`InstanceLocal.cfg` and is no run of its own.

Fairness: each worker is a thread that takes the next message and whose driver
calls return or raise (`tryagain` and the task session pass the error on); the
scheduler and the monitor run on timers. Users, guests and faults are not fair.
`TransientEnds` excepts a crash of HVA and failed cleanup calls, after which no
code looks at the row again, and `Stray`: an instance that was stopped and then
declared halted by a monitor with an old list has no host that could do its jobs.
`DeadShutdownRecovers` does not except crashes. The three hold as well with a local
volume (`Local = {v1}` in `InstanceLive.cfg`, 12 thousand states), where initializing is
reached; halting is not a transient state, for a guest may ignore its power button.

Proofs (`InstanceProofs.tla`, any number of volumes, local store threads, requests and
faults). `TypeCorrect` holds for volumes of both kinds; its invariant `Shape`
adds which jobs each channel may hold and which steps each job has. The five safety
properties are proved for an instance whose volumes are all local (`Local = Vol`, as in
`instance_local`): `LocalDiesForAReason`, `LocalLeavesNothing`, `LocalBootsCompletely`,
`LocalRowsTellTheTruth` and `LocalDomainHasDisk`. The condition is needed: with two shared
volumes or with one of each kind some of them are false (section 9).

None of the five is inductive. Whether a step may do harm depends on the jobs that are
still queued for the instance, and the code has no lock or sequence number that would
say so; what orders them is how far the instance has come. So the invariant `InstInv` is

* `Shape`;
* `Meant`: a terminate or stop job, and a row the monitor saw shutting down, is there
  because the user asked for it;
* unless `leaky`, `Phase`: the instance is in one of eight phases, `New` (before the
  POST), `Waiting` (for the scheduler), `Deploying`, `RolledBack` (the deployment
  failed), `Booting`, `Alive`, `Ending` (domain and volumes are going or gone) and
  `Stopped`. Each says which jobs may still be queued or executed, at which step, and
  how the rows, the data and the domain stand then.

The proof first brings every step of every worker into a normal form (`To`, and the
lemmas after it: what the step does to the worker, its channel and the rest), and then
takes the phases one by one: per phase, one lemma for each action that can happen in it,
with the phase it leads to. Two facts carry most of it: in the phases up to `Alive`
at most one boot job is queued or executed, and a delete job of the local store is only
sent by `finalize_instance`, behind which no deploy job can follow. `InstInv` was
checked with TLC before it was proved (two volumes, three requests, two faults: 1.6
million states; one volume, four requests, two faults: 1.3 million).

## 5. Volumes and existing instances: `VolumeAttach.tla`

State: the row `vol`, the row as `schedule_volume` has read it, one job channel
and one worker per agent (an HVA per instance, one STA), and the facts: whether
the LUN is exported, which hosts have the device and which guests the disk.
Instances keep their power state: `Halted` instances attach and detach cold, in
the API handler alone.

`past` is a history of what the properties except: a request made before the last
one was worked off (`crossed`), a driver error that `tryagain` swallowed, a
detach from the guest that raised (`stuck`), and a LUN that was left half made.

`volume_attach` (two running and one halted instance, seven requests, the first
three of which may cross, one driver error) shows: as long as users wait for
their results and no detach fails, the volume is a disk of one guest at most
(`NoTwoGuests`), STA never destroys a disk in use (`NoDiskPulled`), and the row
tells the truth when nothing is under way (`RowTellsTruth`); and without any such
condition on users, a volume leaves its transient states (`Settles`) under weak
fairness of the agents and the scheduler, except after a detach that raised.
`attach_twice` shows that `OneGuest` needs the condition. `MaxCrossed` limits only
which requests may overlap; three overlapping requests are what the known failure
needs, and later ones explore what it leaves behind.

Proofs (`VolumeProofs.tla`, any number of instances, requests and faults):
`OneGuestAtMost`, `DiskStays` and `RowIsTrue` from one invariant over the histories
without `crossed`, `stuck` and given-up calls. `OneJob` says that for users who wait
at most one job is under way in all channels and agents together; `Holds` gives, for
every step of every job, the row, the LUN, the devices and the guest at that step; and
`AtRest` the same between jobs. The three properties are read off it. `Settles` is
model-checked only.

## 6. IP addresses: `IpAllocation.tla`

State: direction of assignment (a column of the network), DHCP ranges, the table
`ip_leases`, the live automatic leases in order of their ids with their vifs, per vif
the addresses of its deleted leases, and per transaction of a vif what it has read and
will insert. A lease is only marked as deleted and keeps its vif, and
`release_ip_lease` destroys all leases of the vif, the deleted ones again: `release`
can happen at any time and as often as a vif is detached, stopped or destroyed.
`struck` is a history: the vifs whose live lease lost its row to such a release of
another vif. Addresses are small naturals, 0 and
`Broadcast` the reserved ends, so the edges are where they are in the program. The
search is translated branch by branch: `leased_ip_bound_lease` (rows with a missing
neighbour), `get_assignment_ip` (two boundary rows and a step over one of them),
`available_ip`, the loop over reserved addresses and over ranges, and the
wrap-around. Two queries of the code have no ORDER BY; they are modelled with the
order of the index they use.

`ip_allocation`: in every reachable combination of ranges and leases the search
equals its reference definition "the next usable address after the newest lease,
cyclically" (`SearchIsNextUsable`), in both directions, with overlapping, adjacent
and deleted ranges. A live lease has its row in `ip_leases` and its address alone,
although transactions race (the unique index decides) and vifs are released and lease
again (`NoAddressTwice`); the exception is a lease in `struck`, see section 9. Neither
a lost race nor a release leaves an address blocked (`NothingBlocked`). Four host
addresses give a free run, a hole, a service address in the middle and both edges at
once. Two vifs are enough for a race, and for one to strike the row of the other and
lease its address; three deleted leases let one of them come back to an address it had
(`MaxDeleted` counts the leases of one vif with one address once, so the number of
releases is not bounded). Three vifs with two deleted leases were checked once (2.6
million states up to symmetry) without a new result.

Proofs (`IpAllocationProofs.tla`, a network of any size, any ranges, any number of
transactions). `SearchIsRight` is the functional correctness of the search, bottom up:
`Available` (the boundary rows and the step over them give the first free address of an
interval in the direction of assignment), `SearchRange` (the loop that skips reserved
addresses gives the first usable one), `GetLease` (the loop over the ranges gives the
first usable one of all of them) and `WholeSearch` (the wrap-around). The loops are
recursive functions; the library's induction theorems cannot be instantiated by the
provers, so the lemmas `Least`, `Loop` and `LoopInv` do the induction by a least
counterexample. `NoDoubleLease` and `NothingStaysBlocked` come from `LeaseInv`, which
adds to them what an open transaction may still insert and that a vif has one live
lease; `Destroyed` says which leases a release leaves.

## 7. Images from instances: `BackupImage.tla`

State: where the boot volume is, the state of the instance, of the image and of
the backup object of each volume, the request each API process works on, the step
of each backup job, and the set of volumes whose data has been uploaded. Requests
read in one step and commit in another, because the API takes no row locks and may
run in several processes.

`backup_image` (three volumes, local or shared boot volume, all volumes or the boot
volume alone, one API process as in the shipped unicorn configuration, two power
cycles, two failed uploads, deletion of the image and of backup objects at any
time) shows: nothing is uploaded while the instance runs (`DiskIsStill`), an
available image of a boot volume has its data (`BootImageHasItsData`), backup
objects leave their working states, and so does the image of a local boot volume
(`BackupSettles`); fairness is weak fairness of the agents. Three volumes let the boot
volume finish first, between or last.

Proofs (second part of `VolumeProofs.tla`, any volumes and API processes; like the run
they use the instance of this module in `MCBackupImage.tla`): `BootImageComplete` holds
without a condition. `DisksAreStill` is proved for behaviours in which the API works on
one request at a time, and `OneProcessIsEnough` shows that one API process has no others; with two processes it is false (section 9). The invariant `StillInv` adds to
`DiskIsStill` that a request that has read its rows still finds them so.
`BackupSettles` is model-checked only.

## 8. The web GUI: `GuiList.tla`, `GuiSingle.tla`, `GuiResource.tla`, `GuiForms.tla`

The scripts of `frontend/dcmgr_gui/public/javascripts/dcmgr_gui` run in one browser
thread, so each action is one whole event handler: a click, a timer, the success and
complete handlers of a request. What races is the user, the requests in flight
(answered in any order, or failed) and the server, which is external. Users work with
the mouse and keyboard on what is visible: a mask or a modal dialog keeps their clicks
from what it covers. Each module has a history `hist` (in `GuiForms` also `quiet` and
`odd`) that names what has happened; a property excepts only named histories, and
nothing is guarded by them, but for the bound of one failed request.

* `GuiList` (core.js `List`, `Pagenate`, `Detail`, `Notification`, and the six panels
  with check boxes) keeps the table, the ticked boxes, the checked list with the rows
  it remembers, the details, the pager and the enabled buttons apart, because the
  code does: buttons are computed from the boxes, dialogs from the checked list. Run
  `gui_list`: details are of checked rows (`DetailsMatchChecked`), the table is the
  pager's page (`PageIsCurrent`), boxes and list name the same rows
  (`BoxesMatchList`), no button acts on an empty selection (`NoEmptyAction`).
  `GuiListProofs.tla` proves all four for any number of rows, pages, clicks and
  requests. Each needs what is under way: `DetailsInv`, a checked row has one detail
  or exactly one request for it; `PageInv`, the list sent last asks for the pager's
  page (an earlier one is applied and then overwritten); `BoxesInv`, a box outside the
  checked list is ticked only while a list is on its way. `CheckedInv` (the checked
  list has no row twice and its rows are ticked) is what a click or a refresh needs to
  keep them. Six panels share the handlers and not their order, so a lemma on the
  refresh says what all of them leave.
* `GuiSingle` (the six panels with radio buttons) splits a request into the server's
  work and the answer, so a list may be read before or after a write that was sent
  with it. Run `gui_single`: a dialog acts on the row it was opened for
  (`TargetIsTheDialogs`), the detail is that of the selected row
  (`DetailIsOfSelected`), the table shows what the user wrote (`OwnWritesAreSeen`).
  All three are proved in `GuiSingleProofs.tla` for any number of rows, clicks and
  requests in flight. `DialogInv`: while a dialog that reads the selection again is
  open, the selection is its row or was cleared by a new table. `DetailOf`: one detail
  is on its way, for the selected row, and no list is, or the shown one is right.
  `WritesInv`: the list sent last will show the server's rows, or some request is in
  flight whose success handler sends another list.
* `GuiResource` (`resource_manage_panel.js` and the create dialogs of users and
  groups) keeps the elements of every dialog that is still in the document, because
  `$('#id')` finds the oldest one. An item list is in two places: the options that are
  shown (`list`) and the answer cached on the account's select (`cache`); `ListAnswer`
  caches on the select the request was sent from and fills the list that is reached
  now, and the item's change handler looks in the cache that is reached now (`Cached`),
  so a list left over from a closed dialog changes the item and not the fields. The
  drives dialog's two grids ask for their first page, that of no spec, when its
  callback makes them (`ContentAnswer`), and for that of a spec whenever one is
  chosen. Run `gui_resource`: a delete or update is for the item whose values are shown
  (`ActsOnWhatIsShown`, but for the leftover list just described), an update keeps the
  item's account (`UpdateKeepsAccount`), fetched tables and md5 belong to the fields
  beside them (`FetchedIsOfField`: the tables whatever lists, first requests and
  answers for the other table come in between, but for an answer that overtakes
  another one for the same table). All three are proved in `GuiResourceProofs.tla` for any item,
  account and number of openings. `AloneInv`: as long as no dialog was hidden, the
  document holds the elements of one dialog; without content it is as it was made,
  with content its handlers are bound, and its fields follow the item it selects
  whenever the list shown is the cached one (`Shows`). `DialogInv`: as long as no
  dialog was closed with a request in flight and opened again, the dialog waits for its
  content and nothing else, or its handlers are bound once, list and cache agree and
  all requests are its own. `AccountInv`, `TablesInv` and `Md5Inv` say what is under
  way: the list asked for last is the selected account's, the tables asked for last
  are those of `is_uuid` (`KindOk`: once none is under way, what is shown is what was
  asked for last), at most one md5 is, of the path as it is now, behind the mask.
* `GuiForms` (`is_ready` and `ready()` of ten forms, `checkTextField`,
  `VifMonitorSelector`, `ItemSelector`, the load balancer's handlers): text is empty or
  not, mail addresses are empty, valid or invalid; an edit form opens with what the
  server stores, a blank name, no groups or either setting of the monitoring box
  included. Run `gui_forms`: the button is enabled exactly when the form can be sent
  (`ButtonTellsTheTruth`; what leaves a flag behind is named in `odd`, the stored blank
  name and the instance without groups among them), an update deletes
  no monitor behind the user's back (`NoMonitorLost`), monitor rows are distinct
  (`MonitorsDistinct`). All three are proved in `GuiFormsProofs.tla` for any groups,
  monitors, openings and number of steps. `ButtonInv` takes the form opened last apart:
  a list has its flag when it came, the groups when the right list is not empty, a text
  field when it is filled or disabled, unless `odd` excuses it, and the button is what
  `ready()` made of these flags; two dialogs come with the stored name and have no flags
  before `ready()` first runs. It rests
  on what is under way. `OpenInv`: only forms with content have timers and requests of
  lists. `GotInv`: what has come is not asked for any more, for a second answer would
  undo the groups the user has moved. `ClosedInv`: until the content comes, the button
  is what the dialog was opened with. `RowsInv`: every monitor row offers its own key
  and those that are left, which is why a change keeps the keys distinct. `StoredInv`:
  once the flag `monitoring_form` is set, each stored monitor has a row or had one the
  user deleted; as the button waits for that flag, an update loses none.

Bounds: three rows on two pages (a full and a partial page, and a page that empties),
four clicks (select, act, and two that disturb), three requests in flight (a list, a
detail and a post at once), two openings of a dialog (the second with answers of the
first under way), three accounts of which one owns nothing. In `GuiForms` a vif has one stored monitor of three
(a launch adds up to three rows) and none has two of one title, which the GUI does not
make and the server does not rule out; and an edited instance is stored with monitoring on and
valid addresses; the theorems hold for any. `GuiResource` was also explored once
with four requests in flight (7.3 million states) and once with five steps of the user
and two requests (6.8 million), without an error. No liveness is stated: the user need
not do anything.

## 9. Where the code differs from what it says

* `attach_twice`, a run that TLC must refute, with a finding in `PROJECT.json`: the
  rescue proc of an attach job sets a volume available that is a disk of a guest.

Further divergences met while modelling. They are in the models, as what the code
does; the conditions of the properties above leave them out where they matter, and
the constants named here lead to them:

* every shared volume that becomes available sends `wait_volumes_available`
  (`rpc/hva_handler.rb:273`); two copies may both start `run_vol_store`, and the second
  rolls the healthy instance back (`NoSpontaneousDeath`, `Vol = {v1, v2}`,
  `Local = {}`, no request, no fault);
* DELETE succeeds while the instance is pending, initializing, starting or halting,
  and the terminate job is then dropped (`rpc/hva_handler.rb:394`;
  `AcceptedDeleteTerminates` of `InstanceLifecycle`, one shared volume, one request);
* `post_process_backup_image` looks at the other backup objects and ignores the result
  (`node_modules/sta_collector.rb:131`; `ImageHasItsData` of `BackupImage`);
* an instance with a local boot volume and a shared data volume
  (`Vol = {v1, v2}`, `Local = {v1}` in `InstanceLifecycle`): the comparison with
  `Dcmgr::Model::LocalVolume` (`rpc/hva_handler.rb:274`; the constant is
  `Dcmgr::Models::LocalVolume`) sends it `run_vol_store`, which rolls it back
  (`NoSpontaneousDeath`); and when its deployment fails, the STA's delete job finds
  the volume deleted already and leaves the LUN behind (`NothingLeaks`);
* `:stop` ends in `update_instance_state_to_terminated` (`rpc/hva_handler.rb:442`),
  which marks the volumes deleted, although its comment says they are kept;
* the instance monitor writes halted over whatever the row holds by the time it
  acts (`node_modules/instance_monitor.rb:70`);
* a DHCP range that encloses an existing one is accepted (`models/network.rb:161`),
  and a fixed address may be that of the gateway or a server
  (`scheduler/ip_address/specify_ip.rb:38`);
* a vif that was detached (or whose instance was stopped) is released again when it is
  destroyed: `ip_dataset.destroy` (`models/network_vif.rb:129`) also destroys the leases
  that are deleted already, and `before_destroy` (`models/network_vif_ip_lease.rb:133`)
  deletes the row of that address in `ip_leases` whoever has the lease now, which lets
  the next vif lease it too (the exception `struck` of `NoAddressTwice`; two vifs, one
  address);
* `:detach` has no rescue proc: after a detach from the guest that raised, two more
  attach requests give the volume to a second guest (`OneGuest`, `MaxFaults = 1`,
  `MaxCrossed = 0`);
* `PUT backup` with `all=true` and a local boot volume sends no job
  (`endpoints/12.03/instances.rb:660`, `bo` is nil there): image and backup objects
  keep their working states and block the instance (the exception `lost`);
* the rescue proc of STA's `backup_image` calls `update_image` of a collector that
  has no such method (`rpc/sta_handler.rb:282`): the image stays creating;
* with two API processes (`Api = {p1, p2}`) a poweron and a backup pass each
  other's checks (`DiskIsStill`); an image deleted while it is made becomes
  available again;
* `DELETE /jobs/:id` (`endpoints/12.03/jobs.rb`) calls `cancel` on the row object,
  which has only a class method of that name.
* GUI: lists and details that overtake each other are applied in the order they
  arrive (`core.js:257`, `core.js:810`); the instance panel's refresh and the backup
  panel's change of page empty the selection under an enabled button
  (`instance_panel.js:618`, `backup_panel.js:255`); the list after a new key pair does
  not wait for its post (`sshkeypair_panel.js:152`); a resource dialog closed with the
  escape key stays in the document and is what the next one reads
  (`resource_manage_panel.js:249`); a list answered after its dialog was closed fills
  the list of the next dialog and not its cache (`resource_manage_panel.js:250` against
  `:287`), so a delete or update is sent for an item while another is shown; a grid of
  the drives dialog shows the answer that came last, whichever spec is chosen
  (`resource_manage_panel.js:733`, `:939`); the lists of specs and key pairs do not call
  `ready()` (`image_panel.js:295`); the edit dialog of an instance may be sent before
  its monitors have arrived, which deletes them (`instance_panel.js:71`); the edit
  dialogs of an instance without groups, or of an object whose stored name is blank
  (`endpoints/12.03/volumes.rb:120`, `models/backup_object.rb:70`), open with an enabled
  button, which is disabled for the same contents once the user has touched them
  (`instance_panel.js:183`, `:184`); the edit dialog of a load balancer reads a
  protocol and a port (`dialog_controller.rb:291`) that the API's answer does not have
  since they moved to the inbounds (`migrations/0011_create_load_balancer_inbounds.rb`),
  so it opens on http without a port, which the model allows beside the other values.

## 10. What is not covered

Proved for all constants: every safety property of `JobQueue` and that it implements
`JobPromise`; every safety property of `VolumeAttach`, `IpAllocation`, `BackupImage`
(`DiskIsStill` for one API request at a time), `GuiList`, `GuiSingle`, `GuiResource` and
`GuiForms`, with their type invariants; the types of `InstanceLifecycle` for all volumes
and its safety properties for local ones. Checked by TLC on the instances above only:
`InstanceLifecycle` with a shared volume, and all liveness properties, which need
fairness and ENABLED and are out of the prover's reach.

Not modelled: the components listed `not_modelled` in `PROJECT.json`, each with its
reason: those planned (section 2), drivers that are shell commands (only their
effects appear), rows that one request reads and writes, and other programs. In the
GUI: the link dialogs of users and groups, vif attach and detach in the edit dialog,
DHCP ranges and services of networks, the rules of the form validator and the grid
editor. External definitions in the map stand for the Isono channels, the hypervisor,
the guest and, for the GUI, the API server.

The core of the system is Ruby; its JavaScript is the GUI. Most of the JavaScript in the
repository is third-party (jQuery, prototype.js, bootstrap, backbone and their plugins,
and the copies of them in the admin console) and stays outside: counted over all
JavaScript files the map covers a small share, counted over the GUI's own scripts more
than two fifths.

## 11. Running

    tlc -workers 2 -config JobQueue.cfg JobQueue
    for m in *Proofs.tla; do tlapm $m; done

`InstanceProofs` takes about ten minutes, each of the others less.

`PROJECT.json` lists the configuration of every run, what it checks, and for each
property a mutated definition (named `<definition>_<change>` in the module, used by
nothing) that violates it.
