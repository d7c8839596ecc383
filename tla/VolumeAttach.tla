---------------------------- MODULE VolumeAttach ----------------------------
(***************************************************************************)
(* One shared volume and the instances it is attached to and detached from *)
(* while they exist: the volumes API (endpoints/12.03/volumes.rb), the     *)
(* scheduler (node_modules/scheduler.rb, schedule_volume), the storage     *)
(* agent STA (rpc/sta_handler.rb: create_volume, delete_volume) and one    *)
(* hypervisor agent HVA per instance (rpc/hva_handler.rb: attach, detach). *)
(*                                                                         *)
(* A request is one database transaction and one step.  A job of an agent  *)
(* takes one step per RPC and per driver call; each agent runs one job at  *)
(* a time, in order.  Instances keep their power state; the volumes that   *)
(* an instance is created with are the subject of InstanceLifecycle.       *)
(***************************************************************************)
EXTENDS Naturals, Sequences, FiniteSets

CONSTANTS
    Inst,           \* instances, each on a host node of its own
    Halted,         \* those in the state halted; the others are running
    MaxRequests,    \* bound: requests after the creation of the volume
    MaxCrossed,     \* bound: only the first requests may cross each other
    MaxFaults,      \* bound: driver errors
    None            \* nil

ASSUME VolumeConstants ==
    /\ Halted \subseteq Inst
    /\ MaxRequests \in Nat /\ MaxCrossed \in Nat /\ MaxFaults \in Nat
    /\ None \notin Inst

VARIABLES
    vol,        \* row of volumes: state, instance_id, deleted_at
    sched,      \* schedule_volume: what it has read
    q,          \* jobs waiting for an agent
    w,          \* the job each agent runs: step, and whether inst[:volume] has it
    lun,        \* the storage target exports the volume
    host,       \* host nodes that have it as a device
    guest,      \* guests that have it as a disk
    requests,
    faults,
    past        \* history: what happened that the properties make exceptions for

\* crossed: a request was made before the last one was worked off;
\* swallowed: tryagain gave up silently; stuck: a detach from a guest raised;
\* leaky: making or destroying the LUN failed half way
Past == {"crossed", "swallowed", "stuck", "leaky"}

rows == <<vol, sched>>
real == <<lun, host, guest>>
vars == <<vol, sched, q, w, lun, host, guest, requests, faults, past>>

Agent == Inst \cup {"sta"}
Transient == {"scheduling", "pending", "creating", "attaching", "detaching", "deleting"}
State == Transient \cup {"none", "available", "attached", "deleted"}
idle == [pc |-> "idle", mine |-> FALSE]

Init ==
    /\ vol = [state |-> "none", inst |-> None, dead |-> FALSE]
    /\ sched = [pc |-> "idle", inst |-> None]
    /\ q = [x \in Agent |-> <<>>]
    /\ w = [x \in Agent |-> idle]
    /\ lun = FALSE /\ host = {} /\ guest = {}
    /\ requests = 0 /\ faults = 0 /\ past = {}

\* StaCollector#update_volume; the row of a deleted volume stays
update_volume(s) ==
    vol' = [vol EXCEPT !.state = s, !.dead = @ \/ s = "deleted"]
submit(x, job) == q' = [q EXCEPT ![x] = Append(@, job)]

(***************************************************************************)
(* The API                                                                 *)
(***************************************************************************)

\* nothing is on its way: a user who waits for results makes no earlier request
quiet == /\ sched.pc = "idle"
         /\ \A x \in Agent : q[x] = <<>> /\ w[x] = idle

accept ==
    /\ vol.state # "none"
    /\ requests < MaxRequests
    /\ quiet \/ requests < MaxCrossed
    /\ requests' = requests + 1
    /\ past' = past \cup (IF quiet THEN {} ELSE {"crossed"})
    /\ UNCHANGED <<sched, w, real, faults>>

\* POST /volumes, without and with a storage node
post ==
    /\ vol.state = "none"
    /\ \/ /\ update_volume("scheduling")
          /\ sched' = [sched EXCEPT !.pc = "queued"]
          /\ UNCHANGED q
       \/ /\ update_volume("pending")
          /\ submit("sta", "create_volume")
          /\ UNCHANGED sched
    /\ UNCHANGED <<w, real, requests, faults, past>>

\* DELETE /volumes/:id and Volume#entry_delete
deletable_AnyState == vol.state # "deleting"
deletable == vol.state = "available"
delete ==
    /\ deletable
    /\ accept
    /\ update_volume("deleting")
    /\ submit("sta", "delete_volume")

\* PUT /volumes/:id/attach, hot and cold
attachable_Always == TRUE
attachable == ~(vol.inst # None /\ vol.state = "attached")
attach(i) ==
    /\ attachable
    /\ accept
    /\ IF i \in Halted
       THEN vol' = [vol EXCEPT !.inst = i, !.state = "attached"] /\ UNCHANGED q
       ELSE vol' = [vol EXCEPT !.inst = i] /\ submit(i, "attach")

\* PUT /volumes/:id/detach, hot and cold
detach ==
    /\ vol.inst # None
    /\ accept
    /\ IF vol.inst \in Halted
       THEN vol' = [vol EXCEPT !.inst = None, !.state = "available"] /\ UNCHANGED q
       ELSE submit(vol.inst, "detach") /\ UNCHANGED vol

(***************************************************************************)
(* schedule_volume: it reads the row, chooses a storage node and writes    *)
(* every column back; when there is no room it destroys the volume.        *)
(***************************************************************************)
schedule_read ==
    /\ sched.pc = "queued"
    /\ sched' = [pc |-> "read", inst |-> vol.inst]
    /\ UNCHANGED <<vol, q, w, real, requests, faults, past>>
schedule_volume ==
    /\ sched.pc = "read"
    /\ sched' = [pc |-> "idle", inst |-> None]
    /\ \/ vol' = [vol EXCEPT !.state = "pending", !.inst = sched.inst] /\ submit("sta", "create_volume")
       \/ update_volume("deleted") /\ UNCHANGED q
    /\ UNCHANGED <<w, real, requests, faults, past>>

(***************************************************************************)
(* Agents                                                                  *)
(***************************************************************************)
at(x, pc) == w[x].pc = pc
goto(x, pc) == w' = [w EXCEPT ![x].pc = pc]
finish(x) == w' = [w EXCEPT ![x] = idle]
\* an RPC to the collector, and a driver call that does its work
rpc == UNCHANGED <<sched, q, real, requests, faults, past>>
driver == UNCHANGED <<rows, q, requests, faults, past>>

\* get_instance: inst[:volume] has the volume if the row names the instance.
\* The STA's jobs begin with get_volume.
take_job(x) ==
    /\ w[x] = idle /\ q[x] # <<>>
    /\ q' = [q EXCEPT ![x] = Tail(@)]
    /\ w' = [w EXCEPT ![x] = [pc |-> Head(q[x]), mine |-> vol.inst = x]]
    /\ UNCHANGED <<rows, real, requests, faults, past>>

\* get_volume and the check of the state; the attach job has a rescue proc,
\* which sets the volume available, the detach job has none
check_attach(i) ==
    /\ at(i, "attach") /\ rpc /\ UNCHANGED vol
    /\ goto(i, IF vol.state = "available" THEN "attaching" ELSE "rescue")
check_detach(i) ==
    /\ at(i, "detach") /\ rpc /\ UNCHANGED vol
    /\ IF vol.state = "attached" THEN goto(i, "detaching") ELSE finish(i)
check_create(x) ==
    /\ at(x, "create_volume") /\ rpc /\ UNCHANGED vol
    /\ goto(x, IF vol.state = "pending" THEN "creating" ELSE "failed")
check_delete(x) ==
    /\ at(x, "delete_volume") /\ rpc /\ UNCHANGED vol
    /\ IF vol.state # "deleted" THEN goto(x, "deleting") ELSE finish(x)

\* update_volume before the driver calls
set_attaching(i) == at(i, "attaching") /\ update_volume("attaching") /\ goto(i, "host") /\ rpc
set_detaching(i) == at(i, "detaching") /\ update_volume("detaching") /\ goto(i, "unguest") /\ rpc
set_creating(x) == at(x, "creating") /\ update_volume("creating") /\ goto(x, "make") /\ rpc
set_deleting(x) == at(x, "deleting") /\ update_volume("deleting") /\ goto(x, "destroy") /\ rpc
\* and after them; update_volume_state_to_available also clears instance_id
set_attached(i) == at(i, "attached") /\ update_volume("attached") /\ finish(i) /\ rpc
set_detached(i) ==
    /\ at(i, "detached")
    /\ vol' = [vol EXCEPT !.state = "available", !.inst = None]
    /\ finish(i) /\ rpc
set_available(x) == at(x, "available") /\ update_volume("available") /\ finish(x) /\ rpc
set_deleted(x) == at(x, "deleted") /\ update_volume("deleted") /\ finish(x) /\ rpc

\* the rescue procs of attach and create_volume
rescue_attach_KeepState(i) == at(i, "rescue") /\ UNCHANGED vol /\ finish(i) /\ rpc
rescue_attach(i) == at(i, "rescue") /\ update_volume("available") /\ finish(i) /\ rpc
rescue_create(x) == at(x, "failed") /\ update_volume("deleted") /\ finish(x) /\ rpc

\* hypervisor driver: logging in to the target needs an exported LUN and the
\* volume in inst[:volume]; the guest needs the device of the host
attach_volume_to_host(i) ==
    /\ at(i, "host") /\ w[i].mine /\ lun
    /\ host' = host \cup {i} /\ UNCHANGED <<lun, guest>>
    /\ goto(i, "guest") /\ driver
attach_volume_to_guest(i) ==
    /\ at(i, "guest")
    /\ guest' = (IF i \in host THEN guest \cup {i} ELSE guest) /\ UNCHANGED <<lun, host>>
    /\ goto(i, "attached") /\ driver
detach_volume_from_guest_Skip(i) ==
    /\ at(i, "unguest")
    /\ UNCHANGED real
    /\ goto(i, "unhost") /\ driver
detach_volume_from_guest(i) ==
    /\ at(i, "unguest")
    /\ guest' = guest \ {i} /\ UNCHANGED <<lun, host>>
    /\ goto(i, "unhost") /\ driver
\* inside ignore_error
detach_volume_from_host(i) ==
    /\ at(i, "unhost")
    /\ host' = (IF w[i].mine THEN host \ {i} ELSE host) /\ UNCHANGED <<lun, guest>>
    /\ goto(i, "detached") /\ driver
create_volume(x) ==
    /\ at(x, "make")
    /\ lun' = TRUE /\ UNCHANGED <<host, guest>>
    /\ goto(x, "available") /\ driver
delete_volume(x) ==
    /\ at(x, "destroy")
    /\ lun' = FALSE /\ UNCHANGED <<host, guest>>
    /\ goto(x, "deleted") /\ driver

\* A driver call raises.  Attach and create_volume go to their rescue proc,
\* detach ends; detaching from the host and deleting go on in any case.
hopeless(x) == at(x, "host") /\ ~(w[x].mine /\ lun)
fault == faults < MaxFaults /\ faults' = faults + 1
raised(x) ==
    \/ w[x].pc \in {"host", "guest"} /\ goto(x, "rescue")
    \/ at(x, "unguest") /\ finish(x)
    \/ at(x, "unhost") /\ goto(x, "detached")
    \/ at(x, "make") /\ goto(x, "failed")
    \/ at(x, "destroy") /\ goto(x, "deleted")
raise(x) ==
    /\ IF hopeless(x) THEN UNCHANGED faults ELSE fault
    /\ raised(x)
    /\ IF at(x, "make") \/ at(x, "destroy")
       THEN lun' \in {lun, TRUE} /\ past' = past \cup {"leaky"} /\ UNCHANGED <<host, guest>>
       ELSE past' = past \cup (IF at(x, "unguest") THEN {"stuck"} ELSE {}) /\ UNCHANGED real
    /\ UNCHANGED <<rows, q, requests>>
\* tryagain gives up on a RuntimeError without raising it
swallow(x) ==
    /\ fault
    /\ past' = past \cup {"swallowed"}
    /\ \/ at(x, "host") /\ goto(x, "guest")
       \/ at(x, "guest") /\ goto(x, "attached")
       \/ at(x, "unguest") /\ goto(x, "unhost")
       \/ at(x, "unhost") /\ goto(x, "detached")
    /\ UNCHANGED <<rows, q, real, requests>>

work(x) ==
    \/ take_job(x) \/ raise(x) \/ swallow(x)
    \/ set_attaching(x) \/ set_detaching(x) \/ set_creating(x) \/ set_deleting(x)
    \/ set_attached(x) \/ set_detached(x) \/ set_available(x) \/ set_deleted(x)
    \/ check_attach(x) \/ check_detach(x) \/ check_create(x) \/ check_delete(x)
    \/ rescue_attach(x) \/ rescue_create(x)
    \/ attach_volume_to_host(x) \/ attach_volume_to_guest(x)
    \/ detach_volume_from_guest(x) \/ detach_volume_from_host(x)
    \/ create_volume(x) \/ delete_volume(x)

Next ==
    \/ post \/ delete \/ detach
    \/ \E i \in Inst : attach(i)
    \/ schedule_read \/ schedule_volume
    \/ \E x \in Agent : work(x)

Spec == Init /\ [][Next]_vars

\* Agents and the scheduler keep taking jobs from their channels.
Fairness == WF_vars(schedule_read) /\ WF_vars(schedule_volume) /\ \A x \in Agent : WF_vars(work(x))
FairSpec == Spec /\ Fairness

(***************************************************************************)
(* Properties                                                              *)
(***************************************************************************)

Job == {"attach", "detach", "create_volume", "delete_volume"}
Step == Job \cup {"idle", "host", "guest", "unguest", "unhost", "make", "destroy", "rescue", "failed",
                  "attaching", "attached", "detaching", "detached", "creating", "available",
                  "deleting", "deleted"}
\* Row, channels, agents and devices have their types.
TypeOK ==
    /\ vol \in [state : State, inst : Inst \cup {None}, dead : BOOLEAN]
    /\ sched \in [pc : {"idle", "queued", "read"}, inst : Inst \cup {None}]
    /\ q \in [Agent -> Seq(Job)]
    /\ w \in [Agent -> [pc : Step, mine : BOOLEAN]]
    /\ lun \in BOOLEAN /\ host \subseteq Inst /\ guest \subseteq Inst
    /\ requests \in 0 .. MaxRequests /\ faults \in 0 .. MaxFaults /\ past \subseteq Past

\* The API refuses to attach a volume that "is attached to running instance".
\* It never is a disk of two guests.
OneGuest == Cardinality(guest) <= 1

\* It is not for users who wait for their results, whatever driver calls raise,
\* as long as it is not a detach from a guest that fails.
orderly == past \cap {"crossed", "swallowed", "stuck"} = {}
NoTwoGuests == orderly => OneGuest

\* DELETE takes available volumes only: for such users STA never destroys a
\* volume that is a disk of a guest.
NoDiskPulled == orderly /\ guest # {} => lun

\* Once all requests are worked off, the row says where the volume is: attached
\* to a running instance it is a disk of that guest and of no other, otherwise
\* it is a disk of none; available means exported and deleted means gone, unless
\* making or destroying it failed.
RowTellsTruth ==
    orderly /\ quiet =>
      /\ vol.state = "attached" /\ vol.inst \notin Halted /\ ~vol.dead => guest = {vol.inst}
      /\ vol.state \in {"available", "deleted"} => guest = {}
      /\ vol.state = "available" /\ ~vol.dead => lun
      /\ vol.state = "deleted" /\ "leaky" \notin past => ~lun

\* However requests cross each other and driver calls fail, every job ends in a
\* state the volume can stay in, as long as no detach job raises.
Settles == (vol.state \in Transient) ~> (vol.state \notin Transient \/ "stuck" \in past)
=============================================================================
