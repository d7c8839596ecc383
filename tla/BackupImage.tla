---------------------------- MODULE BackupImage ----------------------------
(***************************************************************************)
(* Turning a halted instance into a machine image: PUT /instances/:id/     *)
(* backup (endpoints/12.03/instances.rb) creates an image and one backup   *)
(* object per volume; the local store agent (rpc/local_store_handler.rb)   *)
(* or one storage agent per volume (rpc/sta_handler.rb) uploads the data   *)
(* and reports to the collectors (node_modules/sta_collector.rb and        *)
(* hva_collector.rb).  Meanwhile the instance may be powered on and off    *)
(* and the image and the backup objects may be deleted.                    *)
(*                                                                         *)
(* The API runs in the processes of a unicorn server: a backup or poweron  *)
(* request reads in one step and commits in another, without row locks.    *)
(* Jobs take one step per RPC and per driver call.                         *)
(***************************************************************************)
EXTENDS Naturals, FiniteSets

CONSTANTS
    Vol,            \* the attached volumes of the instance
    Boot,           \* its boot volume
    Stores,         \* where the boot volume may be: local, shared
    All,            \* values of the parameter all of the request
    Api,            \* processes of the API server
    MaxPower,       \* bound: power cycles
    MaxFaults       \* bound: uploads that fail

\* What is assumed of them.
ConstantsOK ==
    /\ Boot \in Vol
    /\ Stores \subseteq {"local", "shared"}
    /\ All \subseteq BOOLEAN
    /\ MaxPower \in Nat /\ MaxFaults \in Nat

VARIABLES
    store,      \* where the boot volume is
    inst,       \* instances.state
    img,        \* images.state of the new image
    bo,         \* backup_objects.state, per volume
    req,        \* the request each API process works on
    w,          \* per volume: the step of its backup job
    data,       \* volumes whose data is in the backup storage
    power,      \* power cycles so far
    faults

vars == <<store, inst, img, bo, req, w, data, power, faults>>

BoState == {"none", "pending", "creating", "available", "deleted"}
\* BackupObject::ALLOW_INSTANCE_POWERON_STATES; PURGED is set by hand only
Allowed == {"none", "available", "deleted"}
parts == {v \in Vol : bo[v] # "none"}

Init ==
    /\ store \in Stores
    /\ inst = "running"
    /\ img = "none"
    /\ bo = [v \in Vol |-> "none"]
    /\ req = [a \in Api |-> "none"]
    /\ w = [v \in Vol |-> "idle"]
    /\ data = {}
    /\ power = 0 /\ faults = 0

(***************************************************************************)
(* The API                                                                 *)
(***************************************************************************)

\* PUT /instances/:id/backup: one backup object per volume to be saved.  The
\* job goes to the local store agent or to the STA of each volume.  With a
\* local boot volume and all=true the variable bo is nil after the loop: the
\* hook that should send the job raises.
backup_read(a) ==
    /\ req[a] = "none" /\ img = "none"
    /\ inst = "halted"
    /\ \E all \in All : req' = [req EXCEPT ![a] = IF all THEN "backup_all" ELSE "backup"]
    /\ UNCHANGED <<store, inst, img, bo, w, data, power, faults>>
saved(r) == IF r = "backup_all" THEN Vol ELSE {Boot}
sent(r) == IF store = "local" THEN (IF r = "backup_all" THEN {} ELSE {Boot}) ELSE saved(r)
backup(a) ==
    /\ req[a] \in {"backup", "backup_all"} /\ img = "none"
    /\ req' = [req EXCEPT ![a] = "none"]
    /\ img' = "creating"
    /\ bo' = [v \in Vol |-> IF v \in saved(req[a]) THEN "pending" ELSE "none"]
    /\ w' = [v \in Vol |-> IF v \in sent(req[a]) THEN "check" ELSE "idle"]
    /\ UNCHANGED <<store, inst, data, power, faults>>

\* PUT /instances/:id/poweron, with Instance#ready_poweron?
ready_poweron_Ignore == TRUE
ready_poweron == \A v \in Vol : bo[v] \in Allowed
poweron_read(a) ==
    /\ req[a] = "none" /\ power < MaxPower
    /\ inst = "halted" /\ ready_poweron
    /\ req' = [req EXCEPT ![a] = "poweron"]
    /\ UNCHANGED <<store, inst, img, bo, w, data, power, faults>>
poweron(a) ==
    /\ req[a] = "poweron" /\ power < MaxPower
    /\ req' = [req EXCEPT ![a] = "none"]
    /\ inst' = "starting" /\ power' = power + 1
    /\ UNCHANGED <<store, img, bo, w, data, faults>>
\* PUT /instances/:id/poweroff
poweroff ==
    /\ inst = "running"
    /\ inst' = "halting"
    /\ UNCHANGED <<store, img, bo, req, w, data, power, faults>>
\* HVA works off the job poweron or poweroff
hva ==
    /\ \/ inst = "starting" /\ inst' \in {"running", "halted"}
       \/ inst = "halting" /\ inst' = "halted"
    /\ UNCHANGED <<store, img, bo, req, w, data, power, faults>>

\* DELETE /images/:id and DELETE /backup_objects/:id
delete_image ==
    /\ img \notin {"none", "deleted"}
    /\ img' = "deleted"
    /\ UNCHANGED <<store, inst, bo, req, w, data, power, faults>>
delete_backup_object(v) ==
    /\ bo[v] = "available"
    /\ bo' = [bo EXCEPT ![v] = "deleted"]
    /\ UNCHANGED <<store, inst, img, req, w, data, power, faults>>

(***************************************************************************)
(* Agents.  The job of the boot volume is backup_image, that of any other  *)
(* volume backup_volume.                                                   *)
(***************************************************************************)
image_job(v) == v = Boot
step(v, pc, next) == w[v] = pc /\ w' = [w EXCEPT ![v] = next]
others == UNCHANGED <<store, inst, req, power>>

\* StaCollector#update_backup_object, HvaCollector#update_image
update_backup_object(v, s) == bo' = [bo EXCEPT ![v] = s] /\ UNCHANGED img
update_image(s) == img' = s /\ UNCHANGED bo

\* The local store looks at the state of the instance, STA at that of the image.
checked(v) ==
    ~image_job(v) \/ (IF store = "local" THEN inst \in {"running", "halted"} ELSE img = "creating")
check(v) ==
    /\ step(v, "check", IF checked(v) THEN "bo_creating" ELSE "bo_deleted")
    /\ UNCHANGED <<img, bo, data, faults>> /\ others
set_creating(v) ==
    /\ others /\ UNCHANGED <<data, faults>>
    /\ \/ /\ step(v, "bo_creating", IF image_job(v) THEN "img_creating" ELSE "upload")
          /\ update_backup_object(v, "creating")
       \/ step(v, "img_creating", "upload") /\ update_image("creating")
upload(v) ==
    /\ step(v, "upload", "bo_available")
    /\ data' = data \cup {v}
    /\ UNCHANGED <<img, bo, faults>> /\ others
upload_fails_NoRaise(v) ==
    /\ faults < MaxFaults /\ faults' = faults + 1
    /\ step(v, "upload", "bo_available")
    /\ UNCHANGED <<img, bo, data>> /\ others
upload_fails(v) ==
    /\ faults < MaxFaults /\ faults' = faults + 1
    /\ step(v, "upload", "bo_deleted")
    /\ UNCHANGED <<img, bo, data>> /\ others
\* The local store updates the image, STA asks for post_process_backup_image,
\* which looks at the other backup objects and makes the image available in
\* any case.
post_process_backup_image == update_image("available")
set_available(v) ==
    /\ others /\ UNCHANGED <<data, faults>>
    /\ \/ /\ step(v, "bo_available", IF image_job(v) THEN "img_available" ELSE "idle")
          /\ update_backup_object(v, "available")
       \/ step(v, "img_available", "idle") /\ post_process_backup_image
\* Rescue procs.  That of STA calls update_image of the sta-collector, which
\* has no such method.
rescue_KeepObject(v) ==
    /\ others /\ UNCHANGED <<img, bo, data, faults>>
    /\ step(v, "bo_deleted", IF image_job(v) THEN "img_deleted" ELSE "idle")
rescue(v) ==
    /\ others /\ UNCHANGED <<data, faults>>
    /\ \/ /\ step(v, "bo_deleted", IF image_job(v) THEN "img_deleted" ELSE "idle")
          /\ update_backup_object(v, "deleted")
       \/ /\ step(v, "img_deleted", "idle")
          /\ IF store = "local" THEN update_image("deleted") ELSE UNCHANGED <<img, bo>>

job(v) ==
    check(v) \/ set_creating(v) \/ upload(v) \/ upload_fails(v) \/ set_available(v) \/ rescue(v)

Next ==
    \/ \E a \in Api : backup_read(a) \/ backup(a) \/ poweron_read(a) \/ poweron(a)
    \/ poweroff \/ hva
    \/ delete_image
    \/ \E v \in Vol : delete_backup_object(v) \/ job(v)

Spec == Init /\ [][Next]_vars
\* Agents work off the jobs they are sent.
FairSpec == Spec /\ WF_vars(hva) /\ \A v \in Vol : WF_vars(job(v))

\* States, requests and jobs have their types.
TypeOK ==
    /\ store \in Stores
    /\ inst \in {"running", "halting", "halted", "starting"}
    /\ img \in BoState
    /\ bo \in [Vol -> BoState]
    /\ req \in [Api -> {"none", "backup", "backup_all", "poweron"}]
    /\ w \in [Vol -> {"idle", "check", "bo_creating", "img_creating", "upload", "bo_available",
                      "img_available", "bo_deleted", "img_deleted"}]
    /\ data \subseteq Vol
    /\ power \in 0 .. MaxPower /\ faults \in 0 .. MaxFaults
=============================================================================
