------------------------- MODULE InstanceLifecycle -------------------------
(***************************************************************************)
(* One instance with its boot and data volumes, from POST /instances to    *)
(* its termination: the API handlers, the scheduler, the hva-collector and *)
(* sta-collector that own the rows, and the agents that do the work, HVA   *)
(* (rpc/hva_handler.rb), local store (rpc/local_store_handler.rb), STA     *)
(* (rpc/sta_handler.rb) and the instance monitor.                          *)
(*                                                                         *)
(* API requests, collector handlers and scheduler jobs are transactions    *)
(* and atomic.  An agent's job is a sequence of steps, each one RPC to a   *)
(* collector or one call of a driver; the other actors run between any two *)
(* of them.  A channel hands out its jobs in order: hva-handle and         *)
(* sta-handle run one at a time, local-store-handle has a pool of threads. *)
(* Driver calls may raise, before or after they had their effect; HVA may  *)
(* crash; the guest may die.  MaxFaults bounds how often that happens.     *)
(* Backups, HA, live migration and Windows images are not in this module.  *)
(***************************************************************************)
EXTENDS Naturals, Sequences, FiniteSets, SequencesExt

CONSTANTS
    Vol,            \* the volumes the instance is created with
    Local,          \* those of type Dcmgr::Models::LocalVolume
    Boot,           \* instances.boot_volume_id
    LsThread,       \* threads of the local store handler (hva.local_store)
    Requests,       \* API requests the user may make after the creation
    MaxRequests,    \* bound: how many of them
    MaxFaults,      \* bound: driver errors, crashes, guest deaths
    MaxQueue,       \* bound: hva-handle jobs the monitor piles up
    NoVol           \* no volume

ASSUME InstanceConstants ==
    /\ Local \subseteq Vol
    /\ Boot \in Vol
    /\ NoVol \notin Vol
    /\ IsFiniteSet(Vol)
    /\ LsThread \cap {"hva", "sta"} = {}
    /\ Requests \subseteq {"delete", "reboot", "stop", "start", "poweroff",
                           "soft_poweroff", "poweron"}
    /\ MaxRequests \in Nat
    /\ MaxFaults \in Nat
    /\ MaxQueue \in Nat

VARIABLES
    inst,       \* the instances row
    vol,        \* the volumes rows
    sched,      \* the scheduler job sent for the instance
    q,          \* job channels: hva-handle, local-store-handle, sta-handle
    w,          \* what each job worker executes
    mon,        \* the instance monitor
    dom,        \* the domain on the host: "asked" is on, with ACPI shutdown sent
    disk,       \* volumes whose data exists (local file, or LUN of the STA)
    mapped,     \* shared volumes attached to the host node as a device
    faults,     \* faults so far
    asked,      \* history: API requests that were accepted
    requests,   \* history: how many
    leaky       \* history: a fault hit a step whose effect nobody repeats

rows == <<inst, vol>>
real == <<dom, disk, mapped>>
api == <<asked, requests>>
vars == <<inst, vol, sched, q, w, mon, dom, disk, mapped, faults, asked,
          requests, leaky>>

Shared == Vol \ Local
Worker == {"hva", "sta"} \cup LsThread
Chan(x) == IF x \in LsThread THEN "ls" ELSE x

InstState == {"none", "scheduling", "pending", "initializing", "starting",
              "running", "halting", "halted", "stopping", "stopped",
              "shuttingdown", "terminated"}
VolState == {"none", "scheduling", "pending", "creating", "available",
             "attaching", "attached", "deleting", "deleted"}
Op == {"wait", "run_local", "run_vol", "terminate", "force", "stop", "reboot",
       "poweroff", "soft_poweroff", "poweron", "deploy", "create", "delete"}
Jobs == [op : Op, vol : Vol \cup {NoVol}]
Step == {"idle", "submit", "finalize", "prepare", "attaching", "map", "run",
         "running", "attached", "shuttingdown", "stopping", "t_domain",
         "t_vol", "t_disk", "t_deleted", "stopped", "v_deleted", "reboot",
         "poweroff", "soft_poweroff", "halted", "starting", "poweron",
         "initializing", "deploy", "available", "undeploy", "undeployed",
         "terminated", "creating", "create", "lost", "deleting", "delete",
         "deleted"}

\* gone: terminated_at is set.  host: host_node_id is set.
InstRow == [state : InstState, gone : BOOLEAN, host : BOOLEAN]
\* on: instance_id is set.  dead: deleted_at is set.
VolRow == [state : VolState, on : BOOLEAN, dead : BOOLEAN]
\* todo: volumes the current loop has left; vols: the keys of @inst[:volume]
Work == [op : Op \cup {"none"}, vol : Vol \cup {NoVol}, pc : Step,
         todo : SUBSET Vol, vols : SUBSET Vol]
Idle == [op |-> "none", vol |-> NoVol, pc |-> "idle", todo |-> {}, vols |-> {}]

Init ==
    /\ inst = [state |-> "none", gone |-> FALSE, host |-> FALSE]
    /\ vol = [v \in Vol |-> [state |-> "none", on |-> FALSE, dead |-> FALSE]]
    /\ sched = "none"
    /\ q = [c \in {"hva", "ls", "sta"} |-> <<>>]
    /\ w = [x \in Worker |-> Idle]
    /\ mon = [pc |-> "idle", seen |-> "none"]
    /\ dom = "off" /\ disk = {} /\ mapped = {}
    /\ faults = 0
    /\ asked = {} /\ requests = 0
    /\ leaky = FALSE

(***************************************************************************)
(* The collectors: what an RPC does to the rows                            *)
(***************************************************************************)

\* HvaCollector#update_instance with a state other than terminated
update_instance(s) == inst' = [inst EXCEPT !.state = s]

\* StaCollector#update_volume; Volume#destroy keeps the row, sets deleted_at
updated(row, s, on) == [state |-> s, on |-> on, dead |-> row.dead \/ s = "deleted"]
update_volume(v, s) == vol' = [vol EXCEPT ![v] = updated(vol[v], s, vol[v].on)]

\* @inst[:volume] of the hash that get_instance answers
mine == {v \in Vol : vol[v].on}
all_available == \A v \in mine : vol[v].state = "available"

\* finalize_instance: live volumes that are not being deleted yet get a delete
\* job, then Instance#destroy unless it is terminated already.
doomed == {v \in mine : ~vol[v].dead /\ vol[v].state \notin {"deleting", "deleted"}}
delete_jobs(vs) == SetToSeq({[op |-> "delete", vol |-> v] : v \in vs})
destroyed(row) == [row EXCEPT !.state = "terminated", !.gone = TRUE]
finalize_volume(v) ==
    IF v \in doomed THEN updated(vol[v], "deleting", TRUE)
    ELSE IF inst.state # "terminated" /\ vol[v].on /\ vol[v].state = "attached"
    THEN updated(vol[v], "attached", FALSE)     \* Instance#before_destroy
    ELSE vol[v]
finalize_instance ==
    /\ vol' = [v \in Vol |-> finalize_volume(v)]
    /\ q' = [q EXCEPT !["ls"] = @ \o delete_jobs(doomed \cap Local),
                      !["sta"] = @ \o delete_jobs(doomed \cap Shared)]
    /\ inst' = IF inst.state = "terminated" THEN inst ELSE destroyed(inst)

(***************************************************************************)
(* The API and the scheduler                                               *)
(***************************************************************************)
submit(c, op, v) == q' = [q EXCEPT ![c] = Append(@, [op |-> op, vol |-> v])]

\* The API sends jobs to i.host_node.node_id after it committed; without a host
\* node that raises and nothing is sent.
submit_to_host(o) == IF inst.host THEN submit("hva", o, NoVol) ELSE UNCHANGED q

\* POST /instances
post ==
    /\ inst.state = "none"
    /\ inst' = [state |-> "scheduling", gone |-> FALSE, host |-> FALSE]
    /\ vol' = [v \in Vol |-> [state |-> "scheduling", on |-> TRUE, dead |-> FALSE]]
    /\ sched' = "instance"
    /\ UNCHANGED <<q, w, mon, real, faults, api, leaky>>

accept(r) ==
    /\ r \in Requests
    /\ requests < MaxRequests
    /\ requests' = requests + 1
    /\ asked' = asked \cup {r}
    /\ UNCHANGED <<w, mon, real, faults, leaky>>

\* DELETE /instances/:id; a stopped instance has no host to ask
delete ==
    /\ accept("delete")
    /\ inst.state \notin {"none", "scheduling", "terminated"}
    /\ IF inst.state = "stopped"
       THEN inst' = destroyed(inst) /\ UNCHANGED q
       ELSE submit_to_host("terminate") /\ UNCHANGED inst
    /\ UNCHANGED <<vol, sched>>

\* PUT reboot and stop only send the job
put_job(r) ==
    /\ accept(r)
    /\ inst.state = "running"
    /\ submit_to_host(r)
    /\ UNCHANGED <<inst, vol, sched>>

\* PUT start
start ==
    /\ accept("start")
    /\ inst.state = "stopped"
    /\ update_instance("scheduling")
    /\ sched' = "start"
    /\ UNCHANGED <<vol, q>>

\* PUT poweroff, with or without force
poweroff(r) ==
    /\ accept(r)
    /\ inst.state \in {"running", "halting"}
    /\ update_instance("halting")
    /\ submit_to_host(r)
    /\ UNCHANGED <<vol, sched>>

\* PUT poweron
poweron ==
    /\ accept("poweron")
    /\ inst.state = "halted"
    /\ update_instance("starting")
    /\ submit_to_host("poweron")
    /\ UNCHANGED <<vol, sched>>

api_request ==
    \/ delete
    \/ \E r \in {"reboot", "stop"} : put_job(r)
    \/ start
    \/ \E r \in {"poweroff", "soft_poweroff"} : poweroff(r)
    \/ poweron

\* Scheduler#schedule_instance: shared volumes are created by the STA, and an
\* image that boots from local disk also goes to the local store.
schedule_instance ==
    /\ sched = "instance"
    /\ sched' = "none"
    /\ inst' = [inst EXCEPT !.state = "pending", !.host = TRUE]
    /\ vol' = [v \in Vol |-> updated(vol[v], "pending", TRUE)]
    /\ q' = [q EXCEPT !["sta"] = @ \o SetToSeq({[op |-> "create", vol |-> v] : v \in Shared}),
                      !["ls"] = IF Boot \in Local
                                THEN Append(@, [op |-> "deploy", vol |-> NoVol])
                                ELSE @]
    /\ UNCHANGED <<w, mon, real, faults, api, leaky>>

\* Scheduler#schedule_start_instance
schedule_start_instance ==
    /\ sched = "start"
    /\ sched' = "none"
    /\ inst' = [inst EXCEPT !.state = "pending", !.host = TRUE]
    /\ IF Boot \in Local THEN submit("ls", "deploy", NoVol)
                         ELSE submit("hva", "run_vol", NoVol)
    /\ UNCHANGED <<vol, w, mon, real, faults, api, leaky>>

\* No host or storage node fits: the instance and its volumes are destroyed
\* (schedule_start_instance destroys the boot volume only).
schedule_error ==
    /\ sched # "none"
    /\ faults < MaxFaults
    /\ faults' = faults + 1
    /\ sched' = "none"
    /\ inst' = destroyed(inst)
    /\ vol' = [v \in Vol |-> IF sched = "start" /\ v # Boot THEN vol[v]
                             ELSE updated(vol[v], "deleted", vol[v].on)]
    /\ UNCHANGED <<q, w, mon, real, api, leaky>>

(***************************************************************************)
(* Job workers                                                             *)
(***************************************************************************)
Steps == <<sched, mon, api>>

\* Where a loop over volumes continues when none is left.
Done(op, pc) ==
    CASE pc = "attaching" -> IF op = "run_local" THEN "run" ELSE "prepare"
      [] pc = "t_vol"     -> IF op = "stop" THEN "stopped" ELSE "finalize"
      [] pc = "deploy"    -> "submit"
      [] pc = "undeploy"  -> "terminated"
      [] OTHER            -> "idle"
Loops == {"attaching", "attached", "t_vol", "v_deleted", "deploy", "undeploy"}
loop(op, pc, todo) == IF pc \in Loops /\ todo = {} THEN Done(op, pc) ELSE pc

\* x goes on at pc; loops start with the volumes todo
goto(x, pc) == w' = [w EXCEPT ![x] = IF pc = "idle" THEN Idle
                                     ELSE [@ EXCEPT !.pc = pc, !.todo = {}]]
enter(x, pc, todo) ==
    LET to == loop(w[x].op, pc, todo) IN
    w' = [w EXCEPT ![x] = IF to = "idle" THEN Idle
                          ELSE [@ EXCEPT !.pc = to, !.todo = todo]]
\* a step of the loop body that follows pc for volume v
each(x, pc, v) == w' = [w EXCEPT ![x].pc = pc, ![x].vol = v, ![x].todo = @ \ {v}]
at(x, pc) == w[x].pc = pc
op(x) == w[x].op

\* A job is taken from its channel and reads the rows it decides on.
take(x, o, pc, todo) ==
    LET c == Chan(x)
        to == loop(o, pc, todo)
        v == Head(q[c]).vol
    IN /\ at(x, "idle")
       /\ q[c] # <<>>
       /\ Head(q[c]).op = o
       /\ q' = [q EXCEPT ![c] = Tail(@)]
       /\ w' = [w EXCEPT ![x] = IF to = "idle" THEN Idle
                                ELSE [op |-> o, vol |-> v, pc |-> to,
                                      todo |-> todo, vols |-> mine]]
       /\ UNCHANGED <<rows, Steps, real, faults, leaky>>

\* HvaHandler jobs
wait_volumes_available(x) ==
    take(x, "wait",
         IF all_available THEN IF Boot \in mine THEN "submit" ELSE "idle"
         ELSE IF \/ inst.state = "terminated"
                 \/ \E v \in mine : vol[v].state = "deleted"
         THEN "finalize" ELSE "idle", {})
run_local_store(x) ==
    IF inst.state # "initializing" THEN take(x, "run_local", "t_domain", {})
    ELSE take(x, "run_local", IF all_available THEN "prepare" ELSE "idle", {})
run_vol_store(x) ==
    IF inst.state # "pending" THEN take(x, "run_vol", "t_domain", {})
    ELSE IF all_available THEN take(x, "run_vol", "attaching", mine)
    ELSE take(x, "run_vol", "idle", {})
terminate(x) ==
    take(x, "terminate",
         IF inst.state \in {"running", "halted"} THEN "shuttingdown" ELSE "idle", {})
force_terminate_Checked(x) ==
    take(x, "force",
         IF inst.state \in {"running", "halted"} THEN "shuttingdown" ELSE "idle", {})
force_terminate(x) == take(x, "force", "shuttingdown", {})
stop(x) == take(x, "stop", IF inst.state = "running" THEN "stopping" ELSE "idle", {})
power(x) == \/ take(x, "poweroff", "poweroff", {})
            \/ take(x, "soft_poweroff", "soft_poweroff", {})
            \/ take(x, "poweron", "starting", {})
            \/ take(x, "reboot", "reboot", {})

\* LocalStoreHandler jobs
ls_run_local_store(x) ==
    take(x, "deploy", IF inst.state = "pending" THEN "initializing" ELSE "undeploy",
         IF inst.state = "pending" THEN {} ELSE mine \cap Local)
ls_delete_volume(x) == x \in LsThread /\ take(x, "delete", "delete", {})

\* StaHandler jobs
create_volume_and_run_instance(x) ==
    /\ q["sta"] # <<>>
    /\ take(x, "create",
            IF vol[Head(q["sta"]).vol].state = "pending" THEN "creating" ELSE "lost", {})
sta_delete_volume(x) ==
    /\ x = "sta" /\ q["sta"] # <<>>
    /\ take(x, "delete",
            IF vol[Head(q["sta"]).vol].state = "deleted" THEN "idle" ELSE "deleting", {})

take_job(x) ==
    \/ wait_volumes_available(x) \/ run_local_store(x) \/ run_vol_store(x)
    \/ terminate(x) \/ force_terminate(x) \/ stop(x) \/ power(x)
    \/ ls_run_local_store(x) \/ ls_delete_volume(x)
    \/ create_volume_and_run_instance(x) \/ sta_delete_volume(x)

(***************************************************************************)
(* The steps of the jobs that are RPCs                                     *)
(***************************************************************************)
still == <<q, Steps, real, faults, leaky>>

\* update_instance_state at the start and at the end of HVA jobs
begin_shutdown_KeepDomain(x) ==
    /\ \E s \in {"shuttingdown", "stopping"} : at(x, s) /\ update_instance(s)
    /\ enter(x, "t_vol", w[x].vols)
    /\ UNCHANGED <<vol, still>>
begin_shutdown(x) ==
    /\ \E s \in {"shuttingdown", "stopping"} : at(x, s) /\ update_instance(s)
    /\ goto(x, "t_domain")
    /\ UNCHANGED <<vol, still>>
begin_poweron(x) ==
    /\ at(x, "starting") /\ update_instance("starting") /\ goto(x, "prepare")
    /\ UNCHANGED <<vol, still>>
set_running_Last(x) ==
    /\ at(x, "running") /\ update_instance("running") /\ goto(x, "idle")
    /\ UNCHANGED <<vol, still>>
set_running(x) ==
    /\ at(x, "running") /\ update_instance("running")
    /\ enter(x, "attached", IF op(x) = "poweron" THEN {} ELSE w[x].vols)
    /\ UNCHANGED <<vol, still>>
set_halted(x) ==
    /\ at(x, "halted") /\ update_instance("halted") /\ goto(x, "idle")
    /\ UNCHANGED <<vol, still>>
set_stopped(x) ==
    /\ at(x, "stopped")
    /\ inst' = [inst EXCEPT !.state = "stopped", !.host = FALSE]
    /\ enter(x, "v_deleted", w[x].vols)
    /\ UNCHANGED <<vol, still>>
begin_deploy(x) ==
    /\ at(x, "initializing") /\ update_instance("initializing")
    /\ enter(x, "deploy", w[x].vols \cap Local)
    /\ UNCHANGED <<vol, still>>

\* the volumes of a booting instance: available -> attaching -> attached
set_attaching(x) == \E v \in w[x].todo :
    /\ at(x, "attaching") /\ update_volume(v, "attaching")
    /\ IF op(x) = "run_vol" /\ v \in Shared THEN each(x, "map", v)
                                            ELSE enter(x, "attaching", w[x].todo \ {v})
    /\ UNCHANGED <<inst, still>>
set_attached(x) == \E v \in w[x].todo :
    /\ at(x, "attached") /\ update_volume(v, "attached")
    /\ enter(x, "attached", w[x].todo \ {v})
    /\ UNCHANGED <<inst, still>>

\* delete_local_volume of terminate_instance: deleting, driver call, deleted
delete_local_volume_NoMark(x) == \E v \in w[x].todo \cap Local :
    /\ at(x, "t_vol") /\ each(x, "t_disk", v)
    /\ UNCHANGED <<rows, still>>
delete_local_volume(x) == \E v \in w[x].todo \cap Local :
    /\ at(x, "t_vol") /\ update_volume(v, "deleting") /\ each(x, "t_disk", v)
    /\ UNCHANGED <<inst, still>>
deleted_local_volume(x) ==
    /\ at(x, "t_deleted") /\ update_volume(w[x].vol, "deleted")
    /\ enter(x, "t_vol", w[x].todo)
    /\ UNCHANGED <<inst, still>>

\* update_instance_state_to_terminated: every volume is deleted and released
release_volume(x) == \E v \in w[x].todo :
    /\ at(x, "v_deleted") /\ vol' = [vol EXCEPT ![v] = updated(@, "deleted", FALSE)]
    /\ enter(x, "v_deleted", w[x].todo \ {v})
    /\ UNCHANGED <<inst, still>>

\* finalize_instance raises before its RPC when @inst[:host_node] is nil (only
\* the stop job, of the same worker, clears it: the row still is as it was read)
finalize(x) ==
    /\ at(x, "finalize") /\ goto(x, "idle")
    /\ IF inst.host \/ op(x) = "wait" THEN finalize_instance ELSE UNCHANGED <<rows, q>>
    /\ UNCHANGED <<Steps, real, faults, leaky>>
\* update_instance(:state=>:terminated) of a failed boot
abandon_boot(x) ==
    /\ at(x, "terminated") /\ finalize_instance
    /\ enter(x, "v_deleted", IF x = "sta" THEN {} ELSE w[x].vols)
    /\ UNCHANGED <<Steps, real, faults, leaky>>

\* the state a volume has after it was deployed, undeployed or created
set_available(x) ==
    /\ at(x, "available") /\ update_volume(w[x].vol, "available")
    /\ IF op(x) = "create" THEN goto(x, "submit")
                           ELSE enter(x, "deploy", w[x].todo)
    /\ UNCHANGED <<inst, still>>
set_undeployed(x) ==
    /\ at(x, "undeployed") /\ update_volume(w[x].vol, "available")
    /\ enter(x, "undeploy", w[x].todo)
    /\ UNCHANGED <<inst, still>>
set_creating(x) ==
    /\ at(x, "creating") /\ update_volume(w[x].vol, "creating") /\ goto(x, "create")
    /\ UNCHANGED <<inst, still>>
set_lost(x) ==
    /\ at(x, "lost") /\ update_volume(w[x].vol, "deleted") /\ goto(x, "terminated")
    /\ UNCHANGED <<inst, still>>
set_deleting(x) ==
    /\ at(x, "deleting") /\ update_volume(w[x].vol, "deleting") /\ goto(x, "delete")
    /\ UNCHANGED <<inst, still>>
set_deleted(x) ==
    /\ at(x, "deleted") /\ update_volume(w[x].vol, "deleted") /\ goto(x, "idle")
    /\ UNCHANGED <<inst, still>>

\* the next job of the boot; wait_volumes_available always takes run_vol_store:
\* it compares volume_type with 'Dcmgr::Model::LocalVolume' (Models is meant)
next_job_Swapped(o) == CASE o = "create" -> "wait" [] o = "deploy" -> "run_vol"
                         [] o = "wait" -> "run_local"
next_job(o) == CASE o = "create" -> "wait" [] o = "deploy" -> "run_local"
                 [] o = "wait" -> "run_vol"
submit_next(x) ==
    /\ at(x, "submit") /\ submit("hva", next_job(op(x)), NoVol) /\ goto(x, "idle")
    /\ UNCHANGED <<rows, Steps, real, faults, leaky>>

rpc_step(x) ==
    \/ begin_shutdown(x) \/ begin_poweron(x) \/ begin_deploy(x)
    \/ set_running(x) \/ set_halted(x) \/ set_stopped(x)
    \/ set_attaching(x) \/ set_attached(x)
    \/ delete_local_volume(x) \/ deleted_local_volume(x) \/ release_volume(x)
    \/ finalize(x) \/ abandon_boot(x)
    \/ set_available(x) \/ set_undeployed(x) \/ set_creating(x) \/ set_lost(x)
    \/ set_deleting(x) \/ set_deleted(x) \/ submit_next(x)

(***************************************************************************)
(* The steps that are driver calls (external: drivers/)                    *)
(***************************************************************************)
untouched == <<rows, q, Steps>>
effect(d, ds, ms) == dom' = d /\ disk' = ds /\ mapped' = ms

\* The data of the boot volume can be opened on the host.
bootable(x) == Boot \in w[x].vols /\ Boot \in (disk \cap Local) \cup mapped

\* setup_metadata_drive, check_interface
prepare(x) ==
    /\ at(x, "prepare")
    /\ CASE op(x) = "run_local" -> enter(x, "attaching", w[x].vols)
         [] op(x) = "run_vol"   -> goto(x, "run")
         [] op(x) = "poweron"   -> goto(x, "poweron")
    /\ UNCHANGED <<untouched, real, faults, leaky>>
attach_volume_to_host(x) ==
    /\ at(x, "map")
    /\ w[x].vol \in disk
    /\ effect(dom, disk, mapped \cup {w[x].vol})
    /\ enter(x, "attaching", w[x].todo)
    /\ UNCHANGED <<untouched, faults, leaky>>
run_instance(x) ==
    /\ at(x, "run") \/ at(x, "poweron")
    /\ bootable(x)
    /\ effect("on", disk, mapped) /\ goto(x, "running")
    /\ UNCHANGED <<untouched, faults, leaky>>
poweroff_instance(x) ==
    /\ at(x, "poweroff") /\ effect("off", disk, mapped) /\ goto(x, "halted")
    /\ UNCHANGED <<untouched, faults, leaky>>
soft_poweroff_instance(x) ==
    /\ at(x, "soft_poweroff")
    /\ effect(IF dom = "on" THEN "asked" ELSE dom, disk, mapped) /\ goto(x, "idle")
    /\ UNCHANGED <<untouched, faults, leaky>>
reboot_instance(x) ==
    /\ at(x, "reboot") /\ goto(x, "idle")
    /\ UNCHANGED <<untouched, real, faults, leaky>>
deploy_volume(x) == \E v \in w[x].todo :
    /\ at(x, "deploy") /\ effect(dom, disk \cup {v}, mapped) /\ each(x, "available", v)
    /\ UNCHANGED <<untouched, faults, leaky>>
create_volume(x) ==
    /\ at(x, "create") /\ effect(dom, disk \cup {w[x].vol}, mapped)
    /\ goto(x, "available")
    /\ UNCHANGED <<untouched, faults, leaky>>

\* A cleanup call has its effect, or it fails: the error is ignored, the
\* effect is lost and nothing repeats the call.
fail_cleanup ==
    faults < MaxFaults /\ faults' = faults + 1 /\ leaky' = TRUE /\ UNCHANGED real
cleanup(done) == (done /\ UNCHANGED <<faults, leaky>>) \/ fail_cleanup
terminate_domain(x) ==
    /\ at(x, "t_domain")
    /\ cleanup(effect("off", disk, mapped))
    /\ enter(x, "t_vol", w[x].vols)
    /\ UNCHANGED untouched
detach_volume_from_host(x) == \E v \in w[x].todo \ Local :
    /\ at(x, "t_vol")
    /\ cleanup(effect(dom, disk, mapped \ {v}))
    /\ enter(x, "t_vol", w[x].todo \ {v})
    /\ UNCHANGED untouched
\* an error skips the update to deleted
delete_local_disk_NoCall(x) ==
    /\ at(x, "t_disk") /\ w' = [w EXCEPT ![x].pc = "t_deleted"]
    /\ UNCHANGED <<untouched, real, faults, leaky>>
delete_local_disk(x) ==
    /\ at(x, "t_disk")
    /\ \/ /\ inst.host /\ effect(dom, disk \ {w[x].vol}, mapped) /\ w' = [w EXCEPT ![x].pc = "t_deleted"]
          /\ UNCHANGED <<faults, leaky>>
       \/ fail_cleanup /\ enter(x, "t_vol", w[x].todo)
       \/ /\ ~inst.host /\ enter(x, "t_vol", w[x].todo)
          /\ UNCHANGED <<real, faults, leaky>>
    /\ UNCHANGED untouched
undeploy_volume(x) == \E v \in w[x].todo :
    /\ at(x, "undeploy")
    /\ cleanup(effect(dom, disk \ {v}, mapped))
    /\ each(x, "undeployed", v)
    /\ UNCHANGED untouched
delete_volume(x) ==
    /\ at(x, "delete")
    /\ cleanup(effect(dom, disk \ {w[x].vol}, mapped))
    /\ goto(x, "deleted")
    /\ UNCHANGED untouched
driver_step(x) ==
    \/ prepare(x) \/ attach_volume_to_host(x) \/ run_instance(x)
    \/ poweroff_instance(x) \/ soft_poweroff_instance(x) \/ reboot_instance(x)
    \/ deploy_volume(x) \/ create_volume(x) \/ terminate_domain(x)
    \/ detach_volume_from_host(x) \/ delete_local_disk(x)
    \/ undeploy_volume(x) \/ delete_volume(x)

\* A driver call raises: the rest of the job is skipped and its rescue proc
\* runs, if it has one.
rescue_NoPoweron(x) ==
    CASE op(x) \in {"run_local", "run_vol"} -> goto(x, "t_domain")
      [] op(x) = "deploy"  -> enter(x, "undeploy", w[x].vols \cap Local)
      [] op(x) = "create"  -> goto(x, "lost")
      [] OTHER             -> goto(x, "idle")
rescue(x) ==
    CASE op(x) \in {"run_local", "run_vol"} -> goto(x, "t_domain")
      [] op(x) = "poweron" -> goto(x, "halted")
      [] op(x) = "deploy"  -> enter(x, "undeploy", w[x].vols \cap Local)
      [] op(x) = "create"  -> goto(x, "lost")
      [] OTHER             -> goto(x, "idle")
hopeless(x) ==
    \/ at(x, "map") /\ w[x].vol \notin disk
    \/ (at(x, "run") \/ at(x, "poweron")) /\ ~bootable(x)
\* what a call that raised may have done; a half made LUN stays behind
partial(x) ==
    \/ UNCHANGED <<real, leaky>>
    \/ at(x, "map") /\ effect(dom, disk, mapped \cup {w[x].vol}) /\ UNCHANGED leaky
    \/ (at(x, "run") \/ at(x, "poweron")) /\ effect("on", disk, mapped) /\ UNCHANGED leaky
    \/ (at(x, "poweroff") \/ at(x, "reboot")) /\ effect("off", disk, mapped) /\ UNCHANGED leaky
    \/ \E v \in w[x].todo : at(x, "deploy") /\ effect(dom, disk \cup {v}, mapped) /\ UNCHANGED leaky
    \/ at(x, "create") /\ effect(dom, disk \cup {w[x].vol}, mapped) /\ leaky' = TRUE
raise(x) ==
    /\ w[x].pc \in {"prepare", "map", "run", "poweron", "poweroff",
                    "soft_poweroff", "reboot", "deploy", "create"}
    /\ IF hopeless(x) THEN UNCHANGED <<real, faults, leaky>>
       ELSE faults < MaxFaults /\ faults' = faults + 1 /\ partial(x)
    /\ rescue(x)
    /\ UNCHANGED untouched

work(x) == take_job(x) \/ rpc_step(x) \/ driver_step(x) \/ raise(x)

(***************************************************************************)
(* The instance monitor: it reads the list, looks for the domain, and acts *)
(* on the state it read.                                                   *)
(***************************************************************************)
idle_monitor == [pc |-> "idle", seen |-> "none"]
get_instance_monitor_data ==
    /\ mon.pc = "idle"
    /\ inst.host /\ inst.state \in {"running", "halting", "shuttingdown"}
    /\ mon' = [pc |-> "check", seen |-> inst.state]
    /\ UNCHANGED <<rows, sched, q, w, real, faults, api, leaky>>
check_instance_Ignore ==
    /\ mon.pc = "check" /\ mon' = idle_monitor
    /\ UNCHANGED <<rows, sched, q, w, real, faults, api, leaky>>
check_instance ==
    /\ mon.pc = "check"
    /\ mon' = IF dom = "off" THEN [mon EXCEPT !.pc = "recover"] ELSE idle_monitor
    /\ UNCHANGED <<rows, sched, q, w, real, faults, api, leaky>>
instance_state_recovery ==
    /\ mon.pc = "recover"
    /\ mon' = idle_monitor
    /\ IF mon.seen = "shuttingdown"
       THEN Len(q["hva"]) < MaxQueue /\ submit("hva", "force", NoVol) /\ UNCHANGED inst
       ELSE update_instance("halted") /\ UNCHANGED q
    /\ UNCHANGED <<vol, sched, w, real, faults, api, leaky>>
monitor == get_instance_monitor_data \/ check_instance \/ instance_state_recovery

(***************************************************************************)
(* The environment                                                         *)
(***************************************************************************)
\* the guest obeys ACPI, or dies
guest_shutdown ==
    /\ dom # "off"
    /\ dom = "on" => faults < MaxFaults
    /\ faults' = faults + (IF dom = "on" THEN 1 ELSE 0)
    /\ effect("off", disk, mapped)
    /\ UNCHANGED <<untouched, w, leaky>>
\* HVA restarts; the jobs it was executing are lost, the domain survives
hva_crash ==
    /\ faults < MaxFaults
    /\ faults' = faults + 1
    /\ \E x \in Worker \ {"sta"} : ~at(x, "idle")
    /\ w' = [x \in Worker |-> IF x = "sta" THEN w[x] ELSE Idle]
    /\ mon' = idle_monitor
    /\ leaky' = TRUE
    /\ UNCHANGED <<rows, sched, q, real, api>>

Next ==
    \/ post
    \/ api_request
    \/ schedule_instance \/ schedule_start_instance \/ schedule_error
    \/ \E x \in Worker : work(x)
    \/ monitor
    \/ guest_shutdown
    \/ hva_crash

Spec == Init /\ [][Next]_vars
\* Every agent, the scheduler and the monitor keep going; users and guests owe
\* nothing.
Fairness ==
    /\ \A x \in Worker : WF_vars(work(x))
    /\ WF_vars(schedule_instance \/ schedule_start_instance \/ schedule_error)
    /\ WF_vars(get_instance_monitor_data)
    /\ WF_vars(check_instance)
    /\ WF_vars(instance_state_recovery)
FairSpec == Spec /\ Fairness

(***************************************************************************)
(* Properties                                                              *)
(***************************************************************************)
\* The rows, job channels, workers and nodes always have their types.
TypeOK ==
    /\ inst \in InstRow
    /\ vol \in [Vol -> VolRow]
    /\ sched \in {"none", "instance", "start"}
    /\ q \in [{"hva", "ls", "sta"} -> Seq(Jobs)]
    /\ w \in [Worker -> Work]
    /\ mon \in [pc : {"idle", "check", "recover"}, seen : InstState]
    /\ dom \in {"off", "on", "asked"}
    /\ disk \subseteq Vol /\ mapped \subseteq Shared
    /\ faults \in 0 .. MaxFaults
    /\ asked \subseteq Requests /\ requests \in 0 .. MaxRequests
    /\ leaky \in BOOLEAN

Quiet == /\ \A x \in Worker : at(x, "idle")
         /\ \A c \in DOMAIN q : q[c] = <<>>
         /\ sched = "none" /\ mon.pc = "idle"

\* An instance is terminated only if the user asked for it, or something failed:
\* a boot in which every driver call succeeds never runs into a rollback.
NoSpontaneousDeath ==
    inst.gone => faults > 0 \/ asked \cap {"delete", "stop"} # {}

\* Once all work is done, a terminated instance has left nothing behind: no
\* domain, no volume data and no device on the nodes, and no live volume row
\* (the delete jobs of finalize_instance reached all of them), unless a cleanup
\* call failed.
NothingLeaks ==
    Quiet /\ inst.gone /\ ~leaky /\ "stop" \notin asked =>
      dom = "off" /\ disk = {} /\ mapped = {} /\ \A v \in Vol : vol[v].dead

\* When all work is done, the volumes of a running instance are attached.
RunningIsComplete ==
    Quiet /\ inst.state = "running" /\ ~leaky => \A v \in Vol : vol[v].state = "attached"

\* A row that offers a volume's data (available, attaching, attached) is right:
\* the data exists, except while the local store rolls a failed boot back.
RowsTellTheTruth ==
    \A v \in Vol :
        /\ vol[v].state \in {"available", "attaching", "attached"}
        /\ ~leaky
        /\ \A x \in LsThread : w[x].op # "deploy"
        => v \in disk

\* A domain never runs on a boot volume whose data was deleted: not by a late
\* delete job, a forced terminate, or a poweron that overtakes a terminate.
NoDomainWithoutDisk == dom # "off" /\ ~leaky => Boot \in disk

\* A stopped instance that the monitor, with an old list, declared halted: no
\* host node is left that could execute its jobs.
Stray == ~inst.host /\ inst.state \in {"halted", "starting", "shuttingdown"}

\* No state that the code means to pass through lasts for ever, as long as HVA
\* does not crash and no cleanup call fails: each is left by the job that runs.
\* Halting is not one of them: it lasts as long as the guest ignores the
\* button.  Initializing is only reached with a local volume.
TransientEnds ==
    \A s \in {"scheduling", "pending", "initializing", "starting", "stopping",
              "shuttingdown"} : inst.state = s ~> inst.state # s \/ leaky \/ Stray

\* A guest that dies is noticed: the monitor does not leave the row running.
DeadGuestIsNoticed ==
    inst.state = "running" /\ dom = "off" ~> inst.state # "running" \/ dom # "off"

\* A termination that a crash of HVA cut short after the domain was destroyed
\* is taken up again: the monitor sends a forced terminate, whatever failed.
DeadShutdownRecovers ==
    inst.state = "shuttingdown" /\ dom = "off" ~> inst.state # "shuttingdown" \/ Stray

\* What DELETE /instances/:id promises: an accepted request shuts the instance
\* down.
AcceptedDeleteTerminates == "delete" \in asked ~> inst.gone
=============================================================================
