---------------------------- MODULE VolumeProofs ----------------------------
(***************************************************************************)
(* Proofs about the volumes of existing instances, and their backups.      *)
(*                                                                         *)
(* First, about a volume that is attached to and detached from instances:  *)
(* types, and that for users who wait for their results the volume is a    *)
(* disk of one guest at most, is never destroyed under a guest, and is     *)
(* where its row says, for any number of instances, requests and faults.   *)
(*                                                                         *)
(* Then, about backups, B being the instance of BackupImage: types, the    *)
(* data behind an available image, and that disks are still while they are *)
(* uploaded, for any number of volumes, power cycles and failed uploads.   *)
(***************************************************************************)
EXTENDS VolumeAttach, MCBackupImage, FiniteSetTheorems, SequenceTheorems, TLAPS

(***************************************************************************)
(* The inductive invariant                                                 *)
(***************************************************************************)
busy(x) == q[x] # <<>> \/ w[x] # idle

\* One job is on its way at a time: in a channel or run by an agent.
OneJob ==
    /\ sched.pc # "idle" => \A x \in Agent : ~busy(x)
    /\ \A x, y \in Agent : busy(x) /\ busy(y) => x = y
    /\ \A x \in Agent : q[x] # <<>> => w[x] = idle /\ Len(q[x]) = 1
    /\ \A x \in Agent : w[x] # idle => w[x].pc # "idle"

\* What the row and the devices are when agent x is to do step s.
Holds(x, s) ==
    /\ s \in {"create_volume", "creating"} => vol.state = "pending" /\ guest = {}
    /\ s \in {"make", "available", "failed"} => vol.state = "creating" /\ guest = {}
    /\ s = "available" => lun
    /\ s = "failed" => "leaky" \in past
    /\ s \in {"delete_volume", "deleting", "destroy", "deleted"} =>
         vol.state = "deleting" /\ guest = {}
    /\ s = "deleted" => "leaky" \in past \/ ~lun
    /\ s \in {"attach", "attaching", "host", "guest", "attached", "rescue",
              "detach", "detaching", "unguest", "unhost", "detached"} =>
         vol.inst = x /\ x \in Inst /\ x \notin Halted
    /\ s = "attach" => vol.state \in {"available", "deleted"} /\ guest = {}
    /\ s = "attaching" => vol.state = "available" /\ guest = {}
    /\ s \in {"host", "guest"} => vol.state = "attaching" /\ guest = {}
    /\ s = "guest" => x \in host /\ lun
    /\ s = "attached" => vol.state = "attaching" /\ guest = {x} /\ lun
    /\ s = "rescue" => vol.state \in {"attaching", "deleted"} /\ guest = {}
    /\ s = "detach" => \/ vol.state \in {"available", "deleted"} /\ guest = {}
                       \/ vol.state = "attached" /\ guest = {x} /\ lun
    /\ s = "detaching" => vol.state = "attached" /\ guest = {x} /\ lun
    /\ s = "unguest" => vol.state = "detaching" /\ guest = {x} /\ lun
    /\ s \in {"unhost", "detached"} => vol.state = "detaching" /\ guest = {}

JobsInv ==
    \A x \in Agent : /\ w[x] # idle => Holds(x, w[x].pc)
                     /\ q[x] # <<>> => Holds(x, Head(q[x]))
SchedInv ==
    sched.pc # "idle" => vol.state = "scheduling" /\ vol.inst = None /\ guest = {} /\ ~lun

\* What the row and the devices are between jobs.
AtRest ==
    /\ vol.state \in {"none", "available", "attached", "deleted"}
    /\ vol.state \in {"none", "available", "deleted"} => guest = {}
    /\ vol.state = "attached" /\ vol.inst \in Halted => guest = {}
    /\ vol.state = "attached" /\ vol.inst \notin Halted => guest = {vol.inst} /\ lun
    /\ vol.state = "attached" => vol.inst # None
RestInv == quiet => AtRest

\* A volume that was not deleted is exported from the end of its creation to
\* the beginning of its deletion.  A deleted one is gone if no step failed.
LunInv ==
    /\ vol.state \in {"available", "attaching", "attached", "detaching"} => lun \/ vol.dead
    /\ vol.state = "deleted" => vol.dead /\ ("leaky" \in past \/ ~lun)

\* Before POST there is nothing.
FreshInv ==
    vol.state = "none" => quiet /\ vol.inst = None /\ ~lun

OrderlyInv == orderly => OneJob /\ JobsInv /\ SchedInv /\ RestInv /\ LunInv

(***************************************************************************)
(* Types                                                                   *)
(***************************************************************************)
Worker == [pc : Step, mine : BOOLEAN]

\* Only hypervisor agents get jobs that attach and detach.
StaJob == {"create_volume", "delete_volume"}
StaStep == StaJob \cup {"idle", "make", "destroy", "failed", "creating", "available", "deleting", "deleted"}
Placed == \A x \in Agent \ Inst : q[x] \in Seq(StaJob) /\ w[x].pc \in StaStep
TypeInv == TypeOK /\ Placed

LEMMA GotoType ==
  ASSUME TypeInv, NEW x \in Agent, NEW pc \in Step, x \in Inst \/ pc \in StaStep, goto(x, pc), UNCHANGED q
  PROVE  w' \in [Agent -> Worker] /\ Placed'
<1>1. w[x] \in Worker /\ [w[x] EXCEPT !.pc = pc] \in Worker
  BY DEF TypeInv, TypeOK, Worker
<1>2. w' = [w EXCEPT ![x] = [w[x] EXCEPT !.pc = pc]]
  BY DEF goto
<1>3. w' \in [Agent -> Worker]
  BY <1>1, <1>2 DEF TypeInv, TypeOK, Worker
<1>4. w'[x].pc = pc /\ \A y \in Agent : y # x => w'[y] = w[y]
  BY <1>1, <1>2 DEF TypeInv, TypeOK, Worker
<1> QED
  BY <1>3, <1>4 DEF TypeInv, Placed

LEMMA FinishType ==
  ASSUME TypeInv, NEW x \in Agent, finish(x), UNCHANGED q
  PROVE  w' \in [Agent -> Worker] /\ Placed'
<1>1. w' \in [Agent -> Worker]
  BY DEF TypeInv, TypeOK, Worker, finish, idle, Step
<1>2. w'[x].pc = "idle" /\ \A y \in Agent : y # x => w'[y] = w[y]
  BY DEF TypeInv, TypeOK, finish, idle
<1> QED
  BY <1>1, <1>2 DEF TypeInv, Placed, StaStep

LEMMA SubmitType ==
  ASSUME TypeInv, NEW x \in Agent, NEW j \in Job, x \in Inst \/ j \in StaJob, submit(x, j), UNCHANGED w
  PROVE  q' \in [Agent -> Seq(Job)] /\ Placed'
<1>1. q[x] \in Seq(Job)
  BY DEF TypeInv, TypeOK
<1>2. Append(q[x], j) \in Seq(Job)
  BY <1>1
<1>3. q' \in [Agent -> Seq(Job)] /\ q'[x] = Append(q[x], j) /\ \A y \in Agent : y # x => q'[y] = q[y]
  BY <1>2 DEF TypeInv, TypeOK, submit
<1>4. ASSUME x \notin Inst PROVE q'[x] \in Seq(StaJob)
  <2>1. q[x] \in Seq(StaJob) /\ j \in StaJob
    BY <1>4 DEF TypeInv, Placed
  <2> QED
    BY <1>3, <2>1
<1> QED
  BY <1>3, <1>4 DEF TypeInv, Placed

\* The row and its channels in the steps of an agent
LEMMA UpdateType ==
  ASSUME TypeInv, NEW s \in State, update_volume(s)
  PROVE  vol' \in [state : State, inst : Inst \cup {None}, dead : BOOLEAN]
  BY DEF TypeInv, TypeOK, update_volume

LEMMA WorkType ==
  ASSUME TypeInv, NEW x \in Agent, work(x)
  PROVE  TypeInv'
<1> USE DEF TypeInv, rpc, driver, rows, real
<1>h. x \in Inst \/ w[x].pc \in StaStep
  BY DEF Placed
<1>1. CASE take_job(x)
  <2>1. q[x] \in Seq(Job) /\ q[x] # <<>>
    BY <1>1 DEF take_job, TypeOK
  <2>2. Head(q[x]) \in Job /\ Tail(q[x]) \in Seq(Job)
    BY <2>1
  <2>3. x \notin Inst => Head(q[x]) \in StaJob /\ Tail(q[x]) \in Seq(StaJob)
    <3>1. x \notin Inst => q[x] \in Seq(StaJob)
      BY DEF Placed
    <3> QED
      BY <3>1, <2>1
  <2>4. [pc |-> Head(q[x]), mine |-> vol.inst = x] \in Worker
    BY <2>2 DEF Worker, Step
  <2>5. q' \in [Agent -> Seq(Job)] /\ w' \in [Agent -> Worker]
    BY <1>1, <2>2, <2>4 DEF take_job, TypeOK, Worker
  <2>6. /\ q'[x] = Tail(q[x]) /\ w'[x].pc = Head(q[x])
        /\ \A y \in Agent : y # x => q'[y] = q[y] /\ w'[y] = w[y]
    BY <1>1 DEF take_job, TypeOK
  <2>7. Placed'
    BY <2>3, <2>6 DEF Placed, StaStep
  <2> QED
    BY <1>1, <2>5, <2>7 DEF take_job, TypeOK, Worker
<1>2. CASE raise(x)
  <2>1. w' \in [Agent -> Worker] /\ Placed'
    BY <1>2, <1>h, GotoType, FinishType DEF raise, raised, at, Step, StaStep, StaJob, Job
  <2>2. faults' \in 0 .. MaxFaults
    BY <1>2, VolumeConstants DEF raise, fault, TypeOK, VolumeConstants
  <2>3. past' \subseteq Past
    BY <1>2 DEF raise, TypeOK, Past
  <2>4. lun' \in BOOLEAN /\ host' = host /\ guest' = guest
    BY <1>2 DEF raise, TypeOK
  <2> QED
    BY <1>2, <2>1, <2>2, <2>3, <2>4 DEF raise, TypeOK, Worker
<1>3. CASE swallow(x)
  <2>1. w' \in [Agent -> Worker] /\ Placed'
    BY <1>3, <1>h, GotoType DEF swallow, at, Step, StaStep, StaJob, Job
  <2>2. faults' \in 0 .. MaxFaults
    BY <1>3, VolumeConstants DEF swallow, fault, TypeOK, VolumeConstants
  <2>3. past' \subseteq Past
    BY <1>3 DEF swallow, TypeOK, Past
  <2> QED
    BY <1>3, <2>1, <2>2, <2>3 DEF swallow, TypeOK, Worker
<1>4. CASE set_attaching(x) \/ set_detaching(x) \/ set_creating(x) \/ set_deleting(x)
  <2>1. w' \in [Agent -> Worker] /\ Placed'
    BY <1>4, <1>h, GotoType
       DEF set_attaching, set_detaching, set_creating, set_deleting, at, Step, StaStep, StaJob, Job
  <2>2. vol' \in [state : State, inst : Inst \cup {None}, dead : BOOLEAN]
    BY <1>4, UpdateType
       DEF set_attaching, set_detaching, set_creating, set_deleting, State, Transient
  <2> QED
    BY <1>4, <2>1, <2>2 DEF set_attaching, set_detaching, set_creating, set_deleting, TypeOK, Worker
<1>5. CASE set_attached(x) \/ set_available(x) \/ set_deleted(x) \/ rescue_attach(x) \/ rescue_create(x)
  <2>1. w' \in [Agent -> Worker] /\ Placed'
    BY <1>5, FinishType
       DEF set_attached, set_available, set_deleted, rescue_attach, rescue_create
  <2>2. vol' \in [state : State, inst : Inst \cup {None}, dead : BOOLEAN]
    BY <1>5, UpdateType
       DEF set_attached, set_available, set_deleted, rescue_attach, rescue_create, State
  <2> QED
    BY <1>5, <2>1, <2>2
       DEF set_attached, set_available, set_deleted, rescue_attach, rescue_create, TypeOK, Worker
<1>6. CASE set_detached(x)
  <2>1. w' \in [Agent -> Worker] /\ Placed'
    BY <1>6, FinishType DEF set_detached
  <2>2. vol' \in [state : State, inst : Inst \cup {None}, dead : BOOLEAN]
    BY <1>6 DEF set_detached, State, TypeOK
  <2> QED
    BY <1>6, <2>1, <2>2 DEF set_detached, TypeOK, Worker
<1>7. CASE check_attach(x) \/ check_detach(x) \/ check_create(x) \/ check_delete(x)
  <2>1. w' \in [Agent -> Worker] /\ Placed'
    BY <1>7, <1>h, GotoType, FinishType
       DEF check_attach, check_detach, check_create, check_delete, at, Step, StaStep, StaJob, Job
  <2> QED
    BY <1>7, <2>1 DEF check_attach, check_detach, check_create, check_delete, TypeOK, Worker
<1>8. CASE attach_volume_to_host(x) \/ attach_volume_to_guest(x)
           \/ detach_volume_from_guest(x) \/ detach_volume_from_host(x)
  <2>1. w' \in [Agent -> Worker] /\ Placed'
    BY <1>8, <1>h, GotoType
       DEF attach_volume_to_host, attach_volume_to_guest, detach_volume_from_guest,
           detach_volume_from_host, at, Step, StaStep, StaJob, Job
  <2>2. x \in Inst
    BY <1>8, <1>h DEF attach_volume_to_host, attach_volume_to_guest, detach_volume_from_guest,
           detach_volume_from_host, at, StaStep, StaJob
  <2> QED
    BY <1>8, <2>1, <2>2 DEF attach_volume_to_host, attach_volume_to_guest, detach_volume_from_guest,
           detach_volume_from_host, TypeOK, Worker
<1>9. CASE create_volume(x) \/ delete_volume(x)
  <2>1. w' \in [Agent -> Worker] /\ Placed'
    BY <1>9, <1>h, GotoType DEF create_volume, delete_volume, at, Step, StaStep, StaJob, Job
  <2> QED
    BY <1>9, <2>1 DEF create_volume, delete_volume, TypeOK, Worker
<1> QED
  BY <1>1, <1>2, <1>3, <1>4, <1>5, <1>6, <1>7, <1>8, <1>9 DEF work

\* accept counts the request and keeps everything but the row and the channels.
LEMMA AcceptType ==
  ASSUME TypeInv, accept, q' \in [Agent -> Seq(Job)], Placed',
         vol' \in [state : State, inst : Inst \cup {None}, dead : BOOLEAN]
  PROVE  TypeInv'
<1>1. requests' \in 0 .. MaxRequests
  BY VolumeConstants DEF accept, TypeInv, TypeOK, VolumeConstants
<1>2. past' \subseteq Past
  BY DEF accept, TypeInv, TypeOK, Past
<1> QED
  BY <1>1, <1>2 DEF accept, real, TypeInv, TypeOK

LEMMA TypeStep == TypeInv /\ [Next]_vars => TypeInv'
<1> SUFFICES ASSUME TypeInv, [Next]_vars PROVE TypeInv'
  OBVIOUS
<1>a. "sta" \in Agent /\ \A i \in Inst : i \in Agent
  BY DEF Agent
<1>1. CASE post
  <2>1. vol' \in [state : State, inst : Inst \cup {None}, dead : BOOLEAN]
    BY <1>1, UpdateType DEF post, State, Transient
  <2>2. q' \in [Agent -> Seq(Job)] /\ Placed'
    BY <1>1, <1>a, SubmitType DEF post, TypeInv, TypeOK, Placed, Job, StaJob
  <2>3. sched' \in [pc : {"idle", "queued", "read"}, inst : Inst \cup {None}]
    BY <1>1 DEF post, TypeInv, TypeOK
  <2> QED
    BY <1>1, <2>1, <2>2, <2>3 DEF post, TypeInv, TypeOK, real
<1>2. CASE delete
  <2>1. vol' \in [state : State, inst : Inst \cup {None}, dead : BOOLEAN]
    BY <1>2, UpdateType DEF delete, State, Transient
  <2>2. q' \in [Agent -> Seq(Job)] /\ Placed'
    BY <1>2, <1>a, SubmitType DEF delete, accept, Job, StaJob
  <2> QED
    BY <1>2, <2>1, <2>2, AcceptType DEF delete
<1>3. CASE detach
  <2>1. vol' \in [state : State, inst : Inst \cup {None}, dead : BOOLEAN]
    BY <1>3 DEF detach, State, TypeInv, TypeOK
  <2>2. vol.inst \in Inst
    BY <1>3 DEF detach, TypeInv, TypeOK
  <2>3. q' \in [Agent -> Seq(Job)] /\ Placed'
    BY <1>3, <2>2, <1>a, SubmitType DEF detach, accept, Job, TypeInv, TypeOK, Placed
  <2> QED
    BY <1>3, <2>1, <2>3, AcceptType DEF detach
<1>4. ASSUME NEW i \in Inst, attach(i) PROVE TypeInv'
  <2>1. vol' \in [state : State, inst : Inst \cup {None}, dead : BOOLEAN]
    BY <1>4 DEF attach, State, TypeInv, TypeOK
  <2>2. q' \in [Agent -> Seq(Job)] /\ Placed'
    BY <1>4, <1>a, SubmitType DEF attach, accept, Job, TypeInv, TypeOK, Placed
  <2> QED
    BY <1>4, <2>1, <2>2, AcceptType DEF attach
<1>5. CASE schedule_read
  BY <1>5 DEF schedule_read, TypeInv, TypeOK, Placed, real
<1>6. CASE schedule_volume
  <2>1. vol' \in [state : State, inst : Inst \cup {None}, dead : BOOLEAN]
    BY <1>6, UpdateType DEF schedule_volume, State, Transient, TypeInv, TypeOK
  <2>2. q' \in [Agent -> Seq(Job)] /\ Placed'
    BY <1>6, <1>a, SubmitType DEF schedule_volume, TypeInv, TypeOK, Placed, Job, StaJob
  <2> QED
    BY <1>6, <2>1, <2>2 DEF schedule_volume, TypeInv, TypeOK, real
<1>7. ASSUME NEW x \in Agent, work(x) PROVE TypeInv'
  BY <1>7, WorkType
<1>8. CASE UNCHANGED vars
  BY <1>8 DEF vars, TypeInv, TypeOK, Placed
<1> QED
  BY <1>1, <1>2, <1>3, <1>4, <1>5, <1>6, <1>7, <1>8 DEF Next

LEMMA TypeInit == Init => TypeInv
<1> SUFFICES ASSUME Init PROVE TypeInv
  OBVIOUS
<1>1. <<>> \in Seq(Job) /\ <<>> \in Seq(StaJob)
  OBVIOUS
<1>2. TypeOK
  <2>1. vol \in [state : State, inst : Inst \cup {None}, dead : BOOLEAN]
    BY DEF Init, State
  <2>2. w \in [Agent -> Worker]
    BY DEF Init, Worker, idle, Step
  <2>3. q \in [Agent -> Seq(Job)]
    BY <1>1 DEF Init
  <2>4. sched \in [pc : {"idle", "queued", "read"}, inst : Inst \cup {None}]
    BY DEF Init
  <2>5. lun \in BOOLEAN /\ host \subseteq Inst /\ guest \subseteq Inst /\ past \subseteq Past
    BY DEF Init
  <2>6. requests \in 0 .. MaxRequests /\ faults \in 0 .. MaxFaults
    BY VolumeConstants DEF Init, VolumeConstants
  <2> QED
    BY <2>1, <2>2, <2>3, <2>4, <2>5, <2>6 DEF TypeOK, Worker
<1>3. Placed
  BY <1>1 DEF Init, Placed, StaStep, idle
<1> QED
  BY <1>2, <1>3 DEF TypeInv

\* However requests, jobs and driver errors follow each other, the row, the
\* channels, the agents and the devices have their types; only agents of
\* instances ever have the volume as a device or a disk.
THEOREM TypeCorrect == Spec => []TypeOK
<1>1. TypeInv => TypeOK
  BY DEF TypeInv
<1> QED
  BY <1>1, TypeInit, TypeStep, PTL DEF Spec

(***************************************************************************)
(* The invariant in the steps of an agent                                  *)
(***************************************************************************)
LEMMA OrderlyBefore == [Next]_vars /\ orderly' => orderly
<1> SUFFICES ASSUME [Next]_vars PROVE past \subseteq past'
  BY DEF orderly
<1>1. ASSUME NEW x \in Agent, work(x) PROVE past \subseteq past'
  BY <1>1 DEF work, take_job, raise, swallow, set_attaching, set_detaching, set_creating,
       set_deleting, set_attached, set_detached, set_available, set_deleted, check_attach,
       check_detach, check_create, check_delete, rescue_attach, rescue_create,
       attach_volume_to_host, attach_volume_to_guest, detach_volume_from_guest,
       detach_volume_from_host, create_volume, delete_volume, rpc, driver
<1> QED
  BY <1>1 DEF Next, vars, post, delete, detach, attach, accept, schedule_read, schedule_volume

LEMMA OneElement ==
  ASSUME NEW S, NEW s \in Seq(S), Len(s) = 1
  PROVE  Head(s) \in S /\ Tail(s) = <<>>
<1>1. s # <<>>
  OBVIOUS
<1>2. Head(s) \in S /\ Tail(s) \in Seq(S) /\ Len(Tail(s)) = 0
  BY <1>1
<1> QED
  BY <1>2, EmptySeq

\* An agent that runs a job is the only one, and nothing waits.
LEMMA Alone ==
  ASSUME OneJob, NEW x \in Agent, w[x] # idle
  PROVE  /\ sched.pc = "idle" /\ q[x] = <<>> /\ w[x].pc # "idle"
         /\ \A y \in Agent : y # x => q[y] = <<>> /\ w[y] = idle
  BY DEF OneJob, busy

LEMMA GotoKeeps ==
  ASSUME TypeInv, OneJob, NEW x \in Agent, w[x] # idle, NEW pc \in Step, pc # "idle",
         goto(x, pc), UNCHANGED <<sched, q>>, Holds(x, pc)', LunInv'
  PROVE  OrderlyInv' /\ ~quiet'
<1>1. w[x] \in Worker
  BY DEF TypeInv, TypeOK, Worker
<1>2. w'[x].pc = pc /\ \A y \in Agent : y # x => w'[y] = w[y]
  BY <1>1 DEF goto, TypeInv, TypeOK, Worker
<1>3. w'[x] # idle
  BY <1>2 DEF idle
<1>4. OneJob'
  BY <1>2, <1>3, Alone DEF OneJob, busy
<1>5. JobsInv'
  BY <1>2, <1>3, Alone DEF JobsInv
<1>6. SchedInv'
  BY Alone DEF SchedInv
<1>7. ~quiet'
  BY <1>3 DEF quiet
<1> QED
  BY <1>4, <1>5, <1>6, <1>7 DEF OrderlyInv, RestInv

LEMMA FinishKeeps ==
  ASSUME TypeInv, OneJob, NEW x \in Agent, w[x] # idle,
         finish(x), UNCHANGED <<sched, q>>, AtRest', LunInv'
  PROVE  OrderlyInv'
<1>1. \A y \in Agent : w'[y] = idle /\ q'[y] = <<>>
  BY Alone DEF finish, TypeInv, TypeOK
<1>2. OneJob'
  BY <1>1 DEF OneJob, busy
<1>3. JobsInv'
  BY <1>1 DEF JobsInv
<1>4. SchedInv'
  BY Alone DEF SchedInv
<1> QED
  BY <1>2, <1>3, <1>4 DEF OrderlyInv, RestInv

\* The agent's own step tells what the row and the devices are.
LEMMA AtStep ==
  ASSUME TypeInv, OneJob, JobsInv, NEW x \in Agent, NEW pc \in Step, pc # "idle", at(x, pc)
  PROVE  w[x] # idle /\ Holds(x, pc)
  BY DEF JobsInv, at, idle

LEMMA WorkOrderly ==
  ASSUME TypeInv, orderly', orderly, OrderlyInv, NEW x \in Agent, work(x)
  PROVE  OrderlyInv'
<1> USE DEF rpc, driver, rows, real
<1>i. OneJob /\ JobsInv /\ SchedInv /\ RestInv /\ LunInv
  BY DEF OrderlyInv
<1>t. vol \in [state : State, inst : Inst \cup {None}, dead : BOOLEAN]
  BY DEF TypeInv, TypeOK
<1>1. CASE take_job(x)
  <2>1. q[x] # <<>> /\ Len(q[x]) = 1 /\ q[x] \in Seq(Job)
    BY <1>1, <1>i DEF take_job, OneJob, TypeInv, TypeOK
  <2>2. Tail(q[x]) = <<>> /\ Head(q[x]) \in Job
    BY <2>1, OneElement
  <2>3. /\ q'[x] = <<>> /\ w'[x].pc = Head(q[x]) /\ sched.pc = "idle"
        /\ \A y \in Agent : y # x => q'[y] = <<>> /\ w'[y] = idle
    BY <1>1, <1>i, <2>1, <2>2 DEF take_job, OneJob, busy, TypeInv, TypeOK
  <2>4. w'[x] # idle /\ w'[x].pc # "idle"
    BY <2>2, <2>3 DEF idle, Job
  <2>5. OneJob' /\ SchedInv' /\ RestInv'
    BY <1>1, <2>3, <2>4 DEF take_job, OneJob, busy, SchedInv, RestInv, quiet
  <2>6. Holds(x, Head(q[x]))
    BY <1>i, <2>1 DEF JobsInv
  <2>7. Holds(x, w[x].pc)'
    BY <1>1, <2>3, <2>6 DEF take_job, Holds
  <2>8. JobsInv'
    BY <2>3, <2>7 DEF JobsInv
  <2>9. LunInv'
    BY <1>1, <1>i DEF take_job, LunInv
  <2> QED
    BY <2>5, <2>8, <2>9 DEF OrderlyInv
<1>2. CASE set_attaching(x)
  <2>1. w[x] # idle /\ Holds(x, "attaching")
    BY <1>2, <1>i, AtStep DEF set_attaching, Step, Job
  <2>2. Holds(x, "host")' /\ LunInv'
    BY <1>2, <1>i, <1>t, <2>1 DEF set_attaching, update_volume, Holds, LunInv
  <2> QED
    BY <1>2, <1>i, <2>1, <2>2, GotoKeeps DEF set_attaching, Step, Job
<1>3. CASE set_detaching(x)
  <2>1. w[x] # idle /\ Holds(x, "detaching")
    BY <1>3, <1>i, AtStep DEF set_detaching, Step, Job
  <2>2. Holds(x, "unguest")' /\ LunInv'
    BY <1>3, <1>i, <1>t, <2>1 DEF set_detaching, update_volume, Holds, LunInv
  <2> QED
    BY <1>3, <1>i, <2>1, <2>2, GotoKeeps DEF set_detaching, Step, Job
<1>4. CASE set_creating(x)
  <2>1. w[x] # idle /\ Holds(x, "creating")
    BY <1>4, <1>i, AtStep DEF set_creating, Step, Job
  <2>2. Holds(x, "make")' /\ LunInv'
    BY <1>4, <1>i, <1>t, <2>1 DEF set_creating, update_volume, Holds, LunInv
  <2> QED
    BY <1>4, <1>i, <2>1, <2>2, GotoKeeps DEF set_creating, Step, Job
<1>5. CASE set_deleting(x)
  <2>1. w[x] # idle /\ Holds(x, "deleting")
    BY <1>5, <1>i, AtStep DEF set_deleting, Step, Job
  <2>2. Holds(x, "destroy")' /\ LunInv'
    BY <1>5, <1>i, <1>t, <2>1 DEF set_deleting, update_volume, Holds, LunInv
  <2> QED
    BY <1>5, <1>i, <2>1, <2>2, GotoKeeps DEF set_deleting, Step, Job
<1>6. CASE set_attached(x)
  <2>1. w[x] # idle /\ Holds(x, "attached")
    BY <1>6, <1>i, AtStep DEF set_attached, Step, Job
  <2>2. AtRest' /\ LunInv'
    BY <1>6, <1>i, <1>t, <2>1, VolumeConstants DEF set_attached, update_volume, Holds, LunInv, AtRest, VolumeConstants
  <2> QED
    BY <1>6, <1>i, <2>1, <2>2, FinishKeeps DEF set_attached
<1>7. CASE set_available(x)
  <2>1. w[x] # idle /\ Holds(x, "available")
    BY <1>7, <1>i, AtStep DEF set_available, Step, Job
  <2>2. AtRest' /\ LunInv'
    BY <1>7, <1>i, <1>t, <2>1, VolumeConstants DEF set_available, update_volume, Holds, LunInv, AtRest, VolumeConstants
  <2> QED
    BY <1>7, <1>i, <2>1, <2>2, FinishKeeps DEF set_available
<1>8. CASE set_deleted(x)
  <2>1. w[x] # idle /\ Holds(x, "deleted")
    BY <1>8, <1>i, AtStep DEF set_deleted, Step, Job
  <2>2. AtRest' /\ LunInv'
    BY <1>8, <1>i, <1>t, <2>1, VolumeConstants DEF set_deleted, update_volume, Holds, LunInv, AtRest, VolumeConstants
  <2> QED
    BY <1>8, <1>i, <2>1, <2>2, FinishKeeps DEF set_deleted
<1>9. CASE rescue_attach(x)
  <2>1. w[x] # idle /\ Holds(x, "rescue")
    BY <1>9, <1>i, AtStep DEF rescue_attach, Step, Job
  <2>2. AtRest' /\ LunInv'
    BY <1>9, <1>i, <1>t, <2>1, VolumeConstants DEF rescue_attach, update_volume, Holds, LunInv, AtRest, VolumeConstants
  <2> QED
    BY <1>9, <1>i, <2>1, <2>2, FinishKeeps DEF rescue_attach
<1>10. CASE rescue_create(x)
  <2>1. w[x] # idle /\ Holds(x, "failed")
    BY <1>10, <1>i, AtStep DEF rescue_create, Step, Job
  <2>2. AtRest' /\ LunInv'
    BY <1>10, <1>i, <1>t, <2>1, VolumeConstants DEF rescue_create, update_volume, Holds, LunInv, AtRest, VolumeConstants
  <2> QED
    BY <1>10, <1>i, <2>1, <2>2, FinishKeeps DEF rescue_create
<1>11. CASE set_detached(x)
  <2>1. w[x] # idle /\ Holds(x, "detached")
    BY <1>11, <1>i, AtStep DEF set_detached, Step, Job
  <2>2. AtRest' /\ LunInv'
    BY <1>11, <1>i, <1>t, <2>1, VolumeConstants DEF set_detached, Holds, LunInv, AtRest, VolumeConstants
  <2> QED
    BY <1>11, <1>i, <2>1, <2>2, FinishKeeps DEF set_detached
<1>12. CASE attach_volume_to_host(x)
  <2>1. w[x] # idle /\ Holds(x, "host")
    BY <1>12, <1>i, AtStep DEF attach_volume_to_host, Step, Job
  <2>2. Holds(x, "guest")' /\ LunInv'
    BY <1>12, <1>i, <1>t, <2>1 DEF attach_volume_to_host, Holds, LunInv
  <2> QED
    BY <1>12, <1>i, <2>1, <2>2, GotoKeeps DEF attach_volume_to_host, Step, Job
<1>13. CASE attach_volume_to_guest(x)
  <2>1. w[x] # idle /\ Holds(x, "guest")
    BY <1>13, <1>i, AtStep DEF attach_volume_to_guest, Step, Job
  <2>2. Holds(x, "attached")' /\ LunInv'
    BY <1>13, <1>i, <1>t, <2>1 DEF attach_volume_to_guest, Holds, LunInv
  <2> QED
    BY <1>13, <1>i, <2>1, <2>2, GotoKeeps DEF attach_volume_to_guest, Step, Job
<1>14. CASE detach_volume_from_guest(x)
  <2>1. w[x] # idle /\ Holds(x, "unguest")
    BY <1>14, <1>i, AtStep DEF detach_volume_from_guest, Step, Job
  <2>2. Holds(x, "unhost")' /\ LunInv'
    BY <1>14, <1>i, <1>t, <2>1 DEF detach_volume_from_guest, Holds, LunInv
  <2> QED
    BY <1>14, <1>i, <2>1, <2>2, GotoKeeps DEF detach_volume_from_guest, Step, Job
<1>15. CASE detach_volume_from_host(x)
  <2>1. w[x] # idle /\ Holds(x, "unhost")
    BY <1>15, <1>i, AtStep DEF detach_volume_from_host, Step, Job
  <2>2. Holds(x, "detached")' /\ LunInv'
    BY <1>15, <1>i, <1>t, <2>1 DEF detach_volume_from_host, Holds, LunInv
  <2> QED
    BY <1>15, <1>i, <2>1, <2>2, GotoKeeps DEF detach_volume_from_host, Step, Job
<1>16. CASE create_volume(x)
  <2>1. w[x] # idle /\ Holds(x, "make")
    BY <1>16, <1>i, AtStep DEF create_volume, Step, Job
  <2>2. Holds(x, "available")' /\ LunInv'
    BY <1>16, <1>i, <1>t, <2>1 DEF create_volume, Holds, LunInv
  <2> QED
    BY <1>16, <1>i, <2>1, <2>2, GotoKeeps DEF create_volume, Step, Job
<1>17. CASE delete_volume(x)
  <2>1. w[x] # idle /\ Holds(x, "destroy")
    BY <1>17, <1>i, AtStep DEF delete_volume, Step, Job
  <2>2. Holds(x, "deleted")' /\ LunInv'
    BY <1>17, <1>i, <1>t, <2>1 DEF delete_volume, Holds, LunInv
  <2> QED
    BY <1>17, <1>i, <2>1, <2>2, GotoKeeps DEF delete_volume, Step, Job
<1>18. CASE check_attach(x)
  <2>1. w[x] # idle /\ Holds(x, "attach")
    BY <1>18, <1>i, AtStep DEF check_attach, Step, Job
  <2>2. LunInv' /\ IF vol.state = "available" THEN Holds(x, "attaching")' ELSE Holds(x, "rescue")'
    BY <1>18, <1>i, <2>1 DEF check_attach, Holds, LunInv
  <2>3. CASE vol.state = "available"
    BY <1>18, <1>i, <2>1, <2>2, <2>3, GotoKeeps DEF check_attach, Step
  <2>4. CASE vol.state # "available"
    BY <1>18, <1>i, <2>1, <2>2, <2>4, GotoKeeps DEF check_attach, Step
  <2> QED
    BY <2>3, <2>4
<1>19. CASE check_detach(x)
  <2>1. w[x] # idle /\ Holds(x, "detach")
    BY <1>19, <1>i, AtStep DEF check_detach, Step, Job
  <2>2. LunInv'
    BY <1>19, <1>i DEF check_detach, LunInv
  <2>3. CASE vol.state = "attached"
    <3>1. Holds(x, "detaching")'
      BY <1>19, <2>1, <2>3 DEF check_detach, Holds
    <3> QED
      BY <1>19, <1>i, <2>1, <2>2, <2>3, <3>1, GotoKeeps DEF check_detach, Step
  <2>4. CASE vol.state # "attached"
    <3>1. AtRest'
      BY <1>19, <2>1, <2>4 DEF check_detach, Holds, AtRest
    <3> QED
      BY <1>19, <1>i, <2>1, <2>2, <2>4, <3>1, FinishKeeps DEF check_detach
  <2> QED
    BY <2>3, <2>4
<1>20. CASE check_create(x)
  <2>1. w[x] # idle /\ Holds(x, "create_volume")
    BY <1>20, <1>i, AtStep DEF check_create, Step, Job
  <2>2. Holds(x, "creating")' /\ LunInv' /\ goto(x, "creating")
    BY <1>20, <1>i, <2>1 DEF check_create, Holds, LunInv
  <2> QED
    BY <1>20, <1>i, <2>1, <2>2, GotoKeeps DEF check_create, Step
<1>21. CASE check_delete(x)
  <2>1. w[x] # idle /\ Holds(x, "delete_volume")
    BY <1>21, <1>i, AtStep DEF check_delete, Step, Job
  <2>2. Holds(x, "deleting")' /\ LunInv' /\ goto(x, "deleting")
    BY <1>21, <1>i, <2>1 DEF check_delete, Holds, LunInv
  <2> QED
    BY <1>21, <1>i, <2>1, <2>2, GotoKeeps DEF check_delete, Step
<1>22. CASE swallow(x)
  <2>1. "swallowed" \in past'
    BY <1>22 DEF swallow
  <2> QED
    BY <2>1 DEF orderly
<1>23. CASE raise(x)
  <2>1. ~at(x, "unguest")
    BY <1>23 DEF raise, orderly, at
  <2>2. CASE at(x, "host") \/ at(x, "guest")
    <3>1. w[x] # idle /\ (Holds(x, "host") \/ Holds(x, "guest"))
      BY <2>2, <1>i, AtStep DEF Step
    <3>2. Holds(x, "rescue")' /\ LunInv' /\ goto(x, "rescue")
      BY <1>23, <2>2, <1>i, <3>1 DEF raise, raised, at, Holds, LunInv
    <3> QED
      BY <1>23, <1>i, <3>1, <3>2, GotoKeeps DEF raise, Step
  <2>3. CASE at(x, "unhost")
    <3>1. w[x] # idle /\ Holds(x, "unhost")
      BY <2>3, <1>i, AtStep DEF Step
    <3>2. Holds(x, "detached")' /\ LunInv' /\ goto(x, "detached")
      BY <1>23, <2>3, <1>i, <3>1 DEF raise, raised, at, Holds, LunInv
    <3> QED
      BY <1>23, <1>i, <3>1, <3>2, GotoKeeps DEF raise, Step
  <2>4. CASE at(x, "make")
    <3>1. w[x] # idle /\ Holds(x, "make")
      BY <2>4, <1>i, AtStep DEF Step
    <3>2. Holds(x, "failed")' /\ LunInv' /\ goto(x, "failed")
      BY <1>23, <2>4, <1>i, <3>1 DEF raise, raised, at, Holds, LunInv
    <3> QED
      BY <1>23, <1>i, <3>1, <3>2, GotoKeeps DEF raise, Step
  <2>5. CASE at(x, "destroy")
    <3>1. w[x] # idle /\ Holds(x, "destroy")
      BY <2>5, <1>i, AtStep DEF Step
    <3>2. Holds(x, "deleted")' /\ LunInv' /\ goto(x, "deleted")
      BY <1>23, <2>5, <1>i, <3>1 DEF raise, raised, at, Holds, LunInv
    <3> QED
      BY <1>23, <1>i, <3>1, <3>2, GotoKeeps DEF raise, Step
  <2> QED
    BY <1>23, <2>1, <2>2, <2>3, <2>4, <2>5 DEF raise, raised, at
<1> QED
  BY <1>1, <1>2, <1>3, <1>4, <1>5, <1>6, <1>7, <1>8, <1>9, <1>10, <1>11, <1>12,
     <1>13, <1>14, <1>15, <1>16, <1>17, <1>18, <1>19, <1>20, <1>21, <1>22, <1>23 DEF work

(***************************************************************************)
(* The invariant in requests and in the scheduler                          *)
(***************************************************************************)
LEMMA SubmitKeeps ==
  ASSUME TypeInv, \A y \in Agent : q[y] = <<>> /\ w[y] = idle,
         NEW x \in Agent, NEW j \in Job, submit(x, j), UNCHANGED w, sched'.pc = "idle",
         Holds(x, j)', LunInv'
  PROVE  OrderlyInv'
<1>1. q[x] = <<>> /\ Append(<<>>, j) = <<j>>
  OBVIOUS
<1>2. q'[x] = <<j>> /\ \A y \in Agent : y # x => q'[y] = <<>>
  BY <1>1 DEF submit, TypeInv, TypeOK
<1>3. Len(q'[x]) = 1 /\ Head(q'[x]) = j /\ q'[x] # <<>>
  BY <1>2
<1>4. \A y \in Agent : w'[y] = idle
  OBVIOUS
<1>5. OneJob'
  BY <1>2, <1>3, <1>4 DEF OneJob, busy
<1>6. JobsInv'
  BY <1>2, <1>3, <1>4 DEF JobsInv
<1>7. SchedInv' /\ RestInv'
  BY <1>3 DEF SchedInv, RestInv, quiet
<1> QED
  BY <1>5, <1>6, <1>7 DEF OrderlyInv

LEMMA ColdKeeps ==
  ASSUME quiet, UNCHANGED <<q, w, sched>>, AtRest', LunInv'
  PROVE  OrderlyInv'
<1>1. OneJob' /\ JobsInv' /\ SchedInv'
  BY DEF quiet, OneJob, busy, JobsInv, SchedInv
<1> QED
  BY <1>1 DEF OrderlyInv, RestInv

LEMMA RequestOrderly ==
  ASSUME TypeInv, orderly', orderly, OrderlyInv, accept, NEW i \in Inst,
         delete \/ detach \/ attach(i)
  PROVE  OrderlyInv'
<1>i. OneJob /\ JobsInv /\ SchedInv /\ RestInv /\ LunInv
  BY DEF OrderlyInv
<1>t. vol \in [state : State, inst : Inst \cup {None}, dead : BOOLEAN]
  BY DEF TypeInv, TypeOK
<1>q. quiet
  BY DEF accept, orderly
<1>r. AtRest
  BY <1>i, <1>q DEF RestInv
<1>e. (\A y \in Agent : q[y] = <<>> /\ w[y] = idle) /\ sched'.pc = "idle"
  BY <1>q DEF quiet, accept
<1>a. "sta" \in Agent /\ i \in Agent /\ \A y \in Inst : y \in Agent
  BY DEF Agent
<1>u. UNCHANGED <<sched, w, lun, host, guest>>
  BY DEF accept, real
<1>1. CASE delete
  <2>1. Holds("sta", "delete_volume")' /\ LunInv'
    BY <1>1, <1>t, <1>r, <1>u DEF delete, deletable, update_volume, AtRest, Holds, LunInv
  <2> QED
    BY <1>1, <2>1, <1>a, <1>e, <1>u, SubmitKeeps DEF delete, Job
<1>2. CASE detach
  <2>1. vol.inst \in Inst /\ vol.state # "none"
    BY <1>2, <1>t DEF detach, accept
  <2>2. CASE vol.inst \in Halted
    <3>1. AtRest' /\ LunInv' /\ UNCHANGED q
      BY <1>2, <2>1, <2>2, <1>t, <1>r, <1>u, <1>i DEF detach, accept, AtRest, LunInv
    <3> QED
      BY <3>1, <1>q, <1>u, ColdKeeps
  <2>3. CASE vol.inst \notin Halted
    <3>1. PICK x \in Inst : x = vol.inst
      BY <2>1
    <3>2. Holds(x, "detach")' /\ vol' = vol
      BY <1>2, <2>3, <3>1, <2>1, <1>r, <1>u DEF detach, AtRest, Holds
    <3>3. LunInv'
      BY <3>2, <1>i, <1>u DEF LunInv, accept
    <3> QED
      BY <1>2, <2>3, <3>1, <3>2, <3>3, <1>a, <1>e, <1>u, SubmitKeeps DEF detach, Job
  <2> QED
    BY <2>2, <2>3
<1>3. CASE attach(i)
  <2>1. vol.state # "none" /\ i # None
    BY <1>3, VolumeConstants DEF attach, accept, VolumeConstants
  <2>2. vol.state # "attached" /\ guest = {}
    BY <1>3, <1>r, <2>1 DEF attach, attachable, AtRest
  <2>3. CASE i \in Halted
    <3>1. AtRest' /\ LunInv' /\ UNCHANGED q
      BY <1>3, <2>1, <2>2, <2>3, <1>t, <1>r, <1>u, <1>i DEF attach, accept, AtRest, LunInv
    <3> QED
      BY <3>1, <1>q, <1>u, ColdKeeps
  <2>4. CASE i \notin Halted
    <3>1. Holds(i, "attach")'
      BY <1>3, <2>1, <2>2, <2>4, <1>t, <1>r, <1>u DEF attach, AtRest, Holds
    <3>2. LunInv'
      BY <1>3, <2>4, <1>t, <1>i, <1>u DEF attach, LunInv, accept
    <3> QED
      BY <1>3, <2>4, <3>1, <3>2, <1>a, <1>e, <1>u, SubmitKeeps DEF attach, Job
  <2> QED
    BY <2>3, <2>4
<1> QED
  BY <1>1, <1>2, <1>3

LEMMA OrderlyStep == TypeInv /\ FreshInv /\ OrderlyInv /\ [Next]_vars => OrderlyInv'
<1> SUFFICES ASSUME TypeInv, FreshInv, OrderlyInv, [Next]_vars, orderly' PROVE OrderlyInv'
  BY DEF OrderlyInv
<1>o. orderly
  BY OrderlyBefore
<1>i. OneJob /\ JobsInv /\ SchedInv /\ RestInv /\ LunInv
  BY <1>o DEF OrderlyInv
<1>t. vol \in [state : State, inst : Inst \cup {None}, dead : BOOLEAN]
  BY DEF TypeInv, TypeOK
<1>a. "sta" \in Agent
  BY DEF Agent
<1>1. CASE post
  <2>1. quiet /\ vol.inst = None /\ ~lun /\ guest = {}
    BY <1>1, <1>i DEF post, FreshInv, RestInv, AtRest
  <2>2. UNCHANGED <<w, lun, host, guest, past>>
    BY <1>1 DEF post, real
  <2>3. CASE update_volume("scheduling") /\ sched' = [sched EXCEPT !.pc = "queued"] /\ UNCHANGED q
    <3>1. vol'.state = "scheduling" /\ vol'.inst = None
      BY <2>1, <2>3, <1>t DEF update_volume
    <3>2. sched'.pc # "idle"
      BY <2>3 DEF TypeInv, TypeOK
    <3>3. OneJob' /\ JobsInv'
      BY <2>1, <2>2, <2>3 DEF quiet, OneJob, busy, JobsInv
    <3>4. SchedInv' /\ RestInv' /\ LunInv'
      BY <2>1, <2>2, <3>1, <3>2 DEF SchedInv, RestInv, quiet, LunInv
    <3> QED
      BY <3>3, <3>4 DEF OrderlyInv
  <2>4. CASE update_volume("pending") /\ submit("sta", "create_volume") /\ UNCHANGED sched
    <3>1. vol'.state = "pending"
      BY <2>4, <1>t DEF update_volume
    <3>2. Holds("sta", "create_volume")' /\ LunInv'
      BY <2>1, <2>2, <3>1 DEF Holds, LunInv
    <3>3. (\A y \in Agent : q[y] = <<>> /\ w[y] = idle) /\ sched'.pc = "idle"
      BY <2>1, <2>4 DEF quiet
    <3> QED
      BY <2>2, <2>4, <3>2, <3>3, <1>a, SubmitKeeps DEF Job
  <2> QED
    BY <1>1, <2>3, <2>4 DEF post
<1>2. CASE delete \/ detach \/ \E i \in Inst : attach(i)
  <2>1. accept
    BY <1>2 DEF delete, detach, attach
  <2>2. CASE Inst = {}
    <3>1. delete
      BY <1>2, <2>2, <1>t DEF detach
    <3>2. UNCHANGED <<sched, w, lun, host, guest>> /\ quiet
      BY <2>1, <1>o DEF accept, real, orderly
    <3>3. Holds("sta", "delete_volume")' /\ LunInv'
      BY <3>1, <3>2, <1>t, <1>i DEF delete, deletable, update_volume, RestInv, AtRest, Holds, LunInv
    <3>4. (\A y \in Agent : q[y] = <<>> /\ w[y] = idle) /\ sched'.pc = "idle"
      BY <3>2 DEF quiet
    <3> QED
      BY <3>1, <3>2, <3>3, <3>4, <1>a, SubmitKeeps DEF delete, Job
  <2>3. CASE Inst # {}
    <3>1. PICK i \in Inst : delete \/ detach \/ attach(i)
      BY <1>2, <2>3
    <3> QED
      BY <3>1, <2>1, <1>o, RequestOrderly
  <2> QED
    BY <2>2, <2>3
<1>3. CASE schedule_read
  <2>1. OneJob' /\ JobsInv' /\ SchedInv' /\ LunInv'
    BY <1>3, <1>i DEF schedule_read, real, OneJob, busy, JobsInv, Holds, SchedInv, LunInv
  <2>2. ~quiet'
    BY <1>3 DEF schedule_read, quiet
  <2> QED
    BY <2>1, <2>2 DEF OrderlyInv, RestInv
<1>4. CASE schedule_volume
  <2>1. /\ \A y \in Agent : q[y] = <<>> /\ w[y] = idle
        /\ guest = {} /\ ~lun
    BY <1>4, <1>i DEF schedule_volume, OneJob, busy, SchedInv
  <2>2. UNCHANGED <<w, lun, host, guest, past>> /\ sched'.pc = "idle"
    BY <1>4 DEF schedule_volume, real
  <2>3. CASE vol' = [vol EXCEPT !.state = "pending", !.inst = sched.inst] /\ submit("sta", "create_volume")
    <3>1. vol'.state = "pending"
      BY <2>3, <1>t
    <3>2. Holds("sta", "create_volume")' /\ LunInv'
      BY <2>1, <2>2, <3>1 DEF Holds, LunInv
    <3> QED
      BY <2>1, <2>2, <2>3, <3>2, <1>a, SubmitKeeps DEF Job
  <2>4. CASE update_volume("deleted") /\ UNCHANGED q
    <3>1. vol'.state = "deleted" /\ vol'.dead
      BY <2>4, <1>t DEF update_volume
    <3>2. AtRest' /\ LunInv'
      BY <2>1, <2>2, <3>1 DEF AtRest, LunInv
    <3>3. OneJob' /\ JobsInv' /\ SchedInv'
      BY <2>1, <2>2, <2>4 DEF OneJob, busy, JobsInv, SchedInv
    <3> QED
      BY <3>2, <3>3 DEF OrderlyInv, RestInv
  <2> QED
    BY <1>4, <2>3, <2>4 DEF schedule_volume
<1>5. ASSUME NEW x \in Agent, work(x) PROVE OrderlyInv'
  BY <1>5, <1>o, WorkOrderly
<1>6. CASE UNCHANGED vars
  BY <1>6 DEF vars, OrderlyInv, orderly, OneJob, busy, JobsInv, Holds, SchedInv, RestInv, quiet, AtRest, LunInv
<1> QED
  BY <1>1, <1>2, <1>3, <1>4, <1>5, <1>6 DEF Next

\* POST is the only step while there is no row, and no step removes the row.
LEMMA FreshStep == TypeInv /\ FreshInv /\ [Next]_vars => FreshInv'
<1> SUFFICES ASSUME TypeInv, FreshInv, [Next]_vars PROVE FreshInv'
  OBVIOUS
<1>t. vol \in [state : State, inst : Inst \cup {None}, dead : BOOLEAN]
  BY DEF TypeInv, TypeOK
<1>1. ASSUME NEW x \in Agent, work(x) PROVE vol'.state # "none"
  <2>1. vol.state # "none"
    <3>1. CASE take_job(x)
      BY <3>1 DEF take_job, FreshInv, quiet
    <3>2. CASE w[x].pc # "idle"
      BY <3>2 DEF FreshInv, quiet, idle
    <3> QED
      BY <1>1, <3>1, <3>2 DEF work, raise, raised, swallow, set_attaching, set_detaching, set_creating,
           set_deleting, set_attached, set_detached, set_available, set_deleted, check_attach,
           check_detach, check_create, check_delete, rescue_attach, rescue_create,
           attach_volume_to_host, attach_volume_to_guest, detach_volume_from_guest,
           detach_volume_from_host, create_volume, delete_volume, at
  <2> QED
    BY <1>1, <2>1, <1>t DEF work, take_job, raise, swallow, set_attaching, set_detaching, set_creating,
         set_deleting, set_attached, set_detached, set_available, set_deleted, check_attach,
         check_detach, check_create, check_delete, rescue_attach, rescue_create,
         attach_volume_to_host, attach_volume_to_guest, detach_volume_from_guest,
         detach_volume_from_host, create_volume, delete_volume, driver, rows, update_volume
<1>2. CASE post \/ delete \/ detach \/ \E i \in Inst : attach(i)
  BY <1>2, <1>t DEF post, delete, detach, attach, accept, update_volume, FreshInv
<1>3. CASE schedule_read \/ schedule_volume
  BY <1>3, <1>t DEF schedule_read, schedule_volume, update_volume, FreshInv, quiet
<1>4. CASE UNCHANGED vars
  BY <1>4 DEF vars, FreshInv, quiet
<1> QED
  BY <1>1, <1>2, <1>3, <1>4 DEF Next, FreshInv

LEMMA OrderlyInit == Init => FreshInv /\ OrderlyInv
<1> SUFFICES ASSUME Init PROVE FreshInv /\ OrderlyInv
  OBVIOUS
<1>1. quiet
  BY DEF Init, quiet
<1>2. OneJob /\ JobsInv /\ SchedInv
  BY <1>1 DEF quiet, OneJob, busy, JobsInv, SchedInv
<1>3. AtRest /\ LunInv
  BY DEF Init, AtRest, LunInv
<1> QED
  BY <1>1, <1>2, <1>3 DEF Init, FreshInv, OrderlyInv, RestInv

(***************************************************************************)
(* What users who wait for their results get                               *)
(***************************************************************************)
LEMMA OrderlyAlways == Spec => [](TypeInv /\ FreshInv /\ OrderlyInv)
  BY TypeInit, TypeStep, OrderlyInit, FreshStep, OrderlyStep, PTL DEF Spec

\* In whatever state the one job is, the volume is a disk of the instance the
\* row names or of none.
LEMMA GuestIsNamed ==
  ASSUME TypeInv, OrderlyInv, orderly
  PROVE  guest = {} \/ (guest = {vol.inst} /\ lun)
<1>i. JobsInv /\ SchedInv /\ RestInv
  BY DEF OrderlyInv
<1>1. CASE quiet
  BY <1>1, <1>i DEF RestInv, AtRest
<1>2. CASE sched.pc # "idle"
  BY <1>2, <1>i DEF SchedInv
<1>3. ASSUME NEW x \in Agent, w[x] # idle \/ q[x] # <<>> PROVE guest = {} \/ (guest = {vol.inst} /\ lun)
  <2>1. \E s \in Step : Holds(x, s) /\ s # "idle"
    <3>1. CASE w[x] # idle
      BY <3>1, <1>i DEF JobsInv, OrderlyInv, OneJob, TypeInv, TypeOK
    <3>2. CASE q[x] # <<>>
      <4>1. Head(q[x]) \in Job
        BY <3>2 DEF TypeInv, TypeOK
      <4> QED
        BY <3>2, <4>1, <1>i DEF JobsInv, Step, Job
    <3> QED
      BY <1>3, <3>1, <3>2
  <2> QED
    BY <2>1 DEF Holds, Step, Job
<1> QED
  BY <1>1, <1>2, <1>3 DEF quiet

\* For users who wait for their results the volume is never a disk of two
\* guests, whatever driver calls raise, as long as no detach from a guest fails
\* and tryagain gives up on nothing: PUT attach refuses an attached volume, and
\* the row is "attached" until the guest has let go of the disk.
THEOREM OneGuestAtMost == Spec => []NoTwoGuests
<1>1. TypeInv /\ OrderlyInv => NoTwoGuests
  <2> SUFFICES ASSUME TypeInv, OrderlyInv, orderly PROVE Cardinality(guest) <= 1
    BY DEF NoTwoGuests, OneGuest
  <2>1. Cardinality({}) = 0 /\ Cardinality({vol.inst}) = 1
    BY FS_EmptySet, FS_Singleton
  <2> QED
    BY <2>1, GuestIsNamed
<1> QED
  BY <1>1, OrderlyAlways, PTL

\* Nor does STA destroy the volume while it is a disk of a guest: DELETE takes
\* available volumes only, and an available one is a disk of none.
THEOREM DiskStays == Spec => []NoDiskPulled
<1>1. TypeInv /\ OrderlyInv => NoDiskPulled
  BY GuestIsNamed DEF NoDiskPulled
<1> QED
  BY <1>1, OrderlyAlways, PTL

\* And when all is worked off the row tells where the volume is and whether it
\* is exported.
THEOREM RowIsTrue == Spec => []RowTellsTruth
<1>1. OrderlyInv => RowTellsTruth
  BY DEF OrderlyInv, RestInv, AtRest, LunInv, RowTellsTruth
<1> QED
  BY <1>1, OrderlyAlways, PTL

(***************************************************************************)
(* Backups: types                                                          *)
(***************************************************************************)

LEMMA BackupTypeInit == B!Init => B!TypeOK
  BY BackupConstants DEF B!Init, B!TypeOK, B!ConstantsOK, B!BoState

\* A job changes its own step, the state of its backup object or the image,
\* the stored data and the count of faults, and nothing else.
LEMMA JobTypes ==
  ASSUME B!TypeOK, NEW v \in Vol, B!job(v)
  PROVE  B!TypeOK'
<1> USE DEF B!TypeOK, B!others, B!step, B!update_backup_object, B!update_image, B!BoState
<1>1. CASE B!check(v)
  BY <1>1 DEF B!check
<1>2. CASE B!set_creating(v)
  BY <1>2 DEF B!set_creating
<1>3. CASE B!upload(v)
  BY <1>3 DEF B!upload
<1>4. CASE B!upload_fails(v)
  BY <1>4, BackupConstants DEF B!upload_fails, B!ConstantsOK
<1>5. CASE B!set_available(v)
  BY <1>5 DEF B!set_available, B!post_process_backup_image
<1>6. CASE B!rescue(v)
  BY <1>6 DEF B!rescue
<1> QED
  BY <1>1, <1>2, <1>3, <1>4, <1>5, <1>6 DEF B!job

LEMMA BackupTypeStep == B!TypeOK /\ [B!Next]_(B!vars) => B!TypeOK'
<1> SUFFICES ASSUME B!TypeOK, [B!Next]_(B!vars) PROVE B!TypeOK'
  OBVIOUS
<1> USE DEF B!TypeOK
<1>1. ASSUME NEW a \in Api, B!backup_read(a) PROVE B!TypeOK'
  BY <1>1 DEF B!backup_read
<1>2. ASSUME NEW a \in Api, B!backup(a) PROVE B!TypeOK'
  BY <1>2 DEF B!backup, B!BoState
<1>3. ASSUME NEW a \in Api, B!poweron_read(a) PROVE B!TypeOK'
  BY <1>3 DEF B!poweron_read
<1>4. ASSUME NEW a \in Api, B!poweron(a) PROVE B!TypeOK'
  BY <1>4, BackupConstants DEF B!poweron, B!ConstantsOK
<1>5. CASE B!poweroff
  BY <1>5 DEF B!poweroff
<1>6. CASE B!hva
  BY <1>6 DEF B!hva
<1>7. CASE B!delete_image
  BY <1>7 DEF B!delete_image, B!BoState
<1>8. ASSUME NEW v \in Vol, B!delete_backup_object(v) PROVE B!TypeOK'
  BY <1>8 DEF B!delete_backup_object, B!BoState
<1>9. ASSUME NEW v \in Vol, B!job(v) PROVE B!TypeOK'
  BY <1>9, JobTypes
<1>10. CASE UNCHANGED B!vars
  BY <1>10 DEF B!vars
<1> QED
  BY <1>1, <1>2, <1>3, <1>4, <1>5, <1>6, <1>7, <1>8, <1>9, <1>10 DEF B!Next

\* Whatever requests and jobs do, every row, request and job step has its type.
THEOREM BackupTypes == B!Spec => []B!TypeOK
  BY BackupTypeInit, BackupTypeStep, PTL DEF B!Spec

(***************************************************************************)
(* The data of an image                                                    *)
(***************************************************************************)
\* A job that is past its upload has stored the data of its volume; only the
\* job of the boot volume makes the image available.  Stronger than what is
\* wanted: it does not ask which volumes the image has.
DataInv ==
    /\ \A v \in Vol : stage[v] \in {"bo_available", "img_available"} => v \in data
    /\ \A v \in Vol : stage[v] \in {"img_creating", "img_available", "img_deleted"} => v = Boot
    /\ img = "available" => Boot \in data

LEMMA DataJob ==
  ASSUME B!TypeOK, DataInv, NEW v \in Vol, B!job(v)
  PROVE  DataInv'
<1> USE DEF B!TypeOK, DataInv, B!others, B!step, B!image_job, B!update_backup_object, B!update_image
<1>1. CASE B!check(v)
  BY <1>1 DEF B!check
<1>2. CASE B!set_creating(v)
  BY <1>2 DEF B!set_creating
<1>3. CASE B!upload(v)
  BY <1>3 DEF B!upload
<1>4. CASE B!upload_fails(v)
  BY <1>4 DEF B!upload_fails
<1>5. CASE B!set_available(v)
  BY <1>5 DEF B!set_available, B!post_process_backup_image
<1>6. CASE B!rescue(v)
  BY <1>6 DEF B!rescue
<1> QED
  BY <1>1, <1>2, <1>3, <1>4, <1>5, <1>6 DEF B!job

LEMMA DataStep == B!TypeOK /\ DataInv /\ [B!Next]_(B!vars) => DataInv'
<1> SUFFICES ASSUME B!TypeOK, DataInv, [B!Next]_(B!vars) PROVE DataInv'
  OBVIOUS
<1> USE DEF B!TypeOK, DataInv
<1>1. ASSUME NEW a \in Api, B!backup_read(a) PROVE DataInv'
  BY <1>1 DEF B!backup_read
<1>2. ASSUME NEW a \in Api, B!backup(a) PROVE DataInv'
  BY <1>2 DEF B!backup
<1>3. ASSUME NEW a \in Api, B!poweron_read(a) PROVE DataInv'
  BY <1>3 DEF B!poweron_read
<1>4. ASSUME NEW a \in Api, B!poweron(a) PROVE DataInv'
  BY <1>4 DEF B!poweron
<1>5. CASE B!poweroff
  BY <1>5 DEF B!poweroff
<1>6. CASE B!hva
  BY <1>6 DEF B!hva
<1>7. CASE B!delete_image
  BY <1>7 DEF B!delete_image
<1>8. ASSUME NEW v \in Vol, B!delete_backup_object(v) PROVE DataInv'
  BY <1>8 DEF B!delete_backup_object
<1>9. ASSUME NEW v \in Vol, B!job(v) PROVE DataInv'
  BY <1>9, DataJob
<1>10. CASE UNCHANGED B!vars
  BY <1>10 DEF B!vars
<1> QED
  BY <1>1, <1>2, <1>3, <1>4, <1>5, <1>6, <1>7, <1>8, <1>9, <1>10 DEF B!Next

\* An image of the boot volume alone is available only when the data of that
\* volume is in the backup storage, however often uploads fail, whatever is
\* deleted meanwhile, and however many API processes there are.
THEOREM BootImageComplete == B!Spec => []BootImageHasItsData
<1>1. B!Init => DataInv
  BY DEF B!Init, DataInv
<1>2. DataInv => BootImageHasItsData
  BY DEF DataInv, BootImageHasItsData, ImageHasItsData
<1> QED
  BY <1>1, <1>2, BackupTypeInit, BackupTypeStep, DataStep, PTL DEF B!Spec

(***************************************************************************)
(* Still disks                                                             *)
(***************************************************************************)
\* No two API processes work on backup or power on requests at a time.  It is so
\* whenever there is one process, as in the shipped unicorn configuration.
OneAtATime == \A a, b \in Api : req[a] # "none" /\ req[b] # "none" => a = b

\* A job before the end of its upload keeps its backup object in a working
\* state and the instance halted; so does a backup request that has been
\* looked at.  A power on request that has been looked at keeps all backup
\* objects out of those states.  There is one backup at most.
StillInv ==
    /\ img = "none" => \A v \in Vol : bo[v] = "none" /\ stage[v] = "idle"
    /\ \A v \in Vol :
         /\ stage[v] \in {"check", "bo_creating", "img_creating", "upload"} =>
              bo[v] \in {"pending", "creating"} /\ inst = "halted"
    /\ \A a \in Api :
         /\ req[a] \in {"backup", "backup_all"} => inst = "halted"
         /\ req[a] = "poweron" => \A v \in Vol : bo[v] \in B!Allowed

LEMMA StillJob ==
  ASSUME B!TypeOK, StillInv, NEW v \in Vol, B!job(v)
  PROVE  StillInv'
<1> USE DEF B!TypeOK, StillInv, B!others, B!step, B!image_job, B!update_backup_object, B!update_image, B!Allowed
<1>1. CASE B!check(v)
  BY <1>1 DEF B!check
<1>2. CASE B!set_creating(v)
  BY <1>2 DEF B!set_creating
<1>3. CASE B!upload(v)
  BY <1>3 DEF B!upload
<1>4. CASE B!upload_fails(v)
  BY <1>4 DEF B!upload_fails
<1>5. CASE B!set_available(v)
  BY <1>5 DEF B!set_available, B!post_process_backup_image
<1>6. CASE B!rescue(v)
  BY <1>6 DEF B!rescue
<1> QED
  BY <1>1, <1>2, <1>3, <1>4, <1>5, <1>6 DEF B!job

LEMMA StillStep == B!TypeOK /\ OneAtATime /\ StillInv /\ [B!Next]_(B!vars) => StillInv'
<1> SUFFICES ASSUME B!TypeOK, OneAtATime, StillInv, [B!Next]_(B!vars) PROVE StillInv'
  OBVIOUS
<1> USE DEF B!TypeOK, StillInv, B!Allowed
<1>1. ASSUME NEW a \in Api, B!backup_read(a) PROVE StillInv'
  BY <1>1 DEF B!backup_read
<1>2. ASSUME NEW a \in Api, B!backup(a) PROVE StillInv'
  <2>1. \A b \in Api : req'[b] = "none"
    BY <1>2 DEF B!backup, OneAtATime
  <2>2. inst' = "halted"
    BY <1>2 DEF B!backup
  <2>3. \A v \in Vol : stage'[v] \in {"check", "bo_creating", "img_creating", "upload"} =>
          v \in B!sent(req[a]) /\ B!sent(req[a]) \subseteq B!saved(req[a])
    BY <1>2 DEF B!backup, B!sent, B!saved
  <2> QED
    BY <1>2, <2>1, <2>2, <2>3 DEF B!backup
<1>3. ASSUME NEW a \in Api, B!poweron_read(a) PROVE StillInv'
  BY <1>3 DEF B!poweron_read, B!ready_poweron
<1>4. ASSUME NEW a \in Api, B!poweron(a) PROVE StillInv'
  <2>1. \A b \in Api : req'[b] = "none"
    BY <1>4 DEF B!poweron, OneAtATime
  <2>2. \A v \in Vol : stage[v] \notin {"check", "bo_creating", "img_creating", "upload"}
    BY <1>4 DEF B!poweron
  <2> QED
    BY <1>4, <2>1, <2>2 DEF B!poweron
<1>5. CASE B!poweroff
  BY <1>5 DEF B!poweroff
<1>6. CASE B!hva
  BY <1>6 DEF B!hva
<1>7. CASE B!delete_image
  BY <1>7 DEF B!delete_image
<1>8. ASSUME NEW v \in Vol, B!delete_backup_object(v) PROVE StillInv'
  BY <1>8 DEF B!delete_backup_object
<1>9. ASSUME NEW v \in Vol, B!job(v) PROVE StillInv'
  BY <1>9, StillJob
<1>10. CASE UNCHANGED B!vars
  BY <1>10 DEF B!vars
<1> QED
  BY <1>1, <1>2, <1>3, <1>4, <1>5, <1>6, <1>7, <1>8, <1>9, <1>10 DEF B!Next

\* As long as the API works on one request at a time, an instance is halted
\* while one of its disks is uploaded: Instance#ready_poweron? keeps it from
\* being started, and a backup is not begun unless it is halted.
THEOREM DisksAreStill == B!Spec /\ []OneAtATime => []DiskIsStill
<1>1. B!Init => StillInv
  BY DEF B!Init, StillInv
<1>2. StillInv => DiskIsStill
  BY DEF StillInv, DiskIsStill
<1> QED
  BY <1>1, <1>2, BackupTypeInit, BackupTypeStep, StillStep, PTL DEF B!Spec

\* In particular with the one API process of the shipped configuration.
THEOREM OneProcessIsEnough ==
  ASSUME \A a, b \in Api : a = b
  PROVE  B!Spec => []DiskIsStill
<1>1. OneAtATime
  BY DEF OneAtATime
<1>2. [](OneAtATime)
  BY <1>1, PTL
<1> QED
  BY <1>2, DisksAreStill, PTL

=============================================================================
