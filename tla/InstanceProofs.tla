--------------------------- MODULE InstanceProofs ---------------------------
(***************************************************************************)
(* Proofs about an instance: types, and, when all its volumes are local,   *)
(* what is true in each phase of its life, whatever the user asks for and  *)
(* whatever fails, for any number of volumes, local store threads,         *)
(* requests and faults.                                                    *)
(***************************************************************************)
EXTENDS InstanceLifecycle, FiniteSetTheorems, SequenceTheorems, TLAPS

(***************************************************************************)
(* Who does what                                                           *)
(***************************************************************************)
HvaOps == {"run_local", "terminate", "force", "stop", "reboot", "poweroff",
           "soft_poweroff", "poweron"} \cup {o \in {"wait", "run_vol"} : Shared # {}}
HvaJob == [op : HvaOps, vol : {NoVol}]
LsJob == [op : {"deploy"}, vol : {NoVol}] \cup [op : {"delete"}, vol : Local]
StaJob == [op : {"create", "delete"}, vol : Shared]

HvaDoing(r) ==
    /\ r.op \in HvaOps
    /\ \/ r.op = "wait" /\ r.pc \in {"submit", "finalize"}
       \/ /\ r.op \in {"run_local", "run_vol"}
          /\ r.pc \in {"prepare", "attaching", "map", "run", "running", "attached", "t_domain",
                       "t_vol", "t_disk", "t_deleted", "finalize"}
       \/ /\ r.op \in {"terminate", "force"}
          /\ r.pc \in {"shuttingdown", "t_domain", "t_vol", "t_disk", "t_deleted", "finalize"}
       \/ /\ r.op = "stop"
          /\ r.pc \in {"stopping", "t_domain", "t_vol", "t_disk", "t_deleted", "stopped", "v_deleted"}
       \/ r.op = "poweroff" /\ r.pc \in {"poweroff", "halted"}
       \/ r.op = "soft_poweroff" /\ r.pc = "soft_poweroff"
       \/ r.op = "poweron" /\ r.pc \in {"starting", "prepare", "poweron", "running", "halted"}
       \/ r.op = "reboot" /\ r.pc = "reboot"
    /\ r.pc = "map" => r.vol \in Shared
    /\ r.pc \in {"t_disk", "t_deleted"} => r.vol \in Vol /\ r.vol \notin r.todo
LsDoing(r) ==
    \/ /\ r.op = "deploy"
       /\ r.pc \in {"initializing", "deploy", "available", "submit", "undeploy", "undeployed",
                    "terminated", "v_deleted"}
       /\ r.pc \in {"available", "undeployed"} => r.vol \in Vol /\ r.vol \notin r.todo
    \/ r.op = "delete" /\ r.pc \in {"delete", "deleted"} /\ r.vol \in Local
StaDoing(r) ==
    /\ r.vol \in Shared
    /\ \/ /\ r.op = "create"
          /\ r.pc \in {"creating", "create", "available", "submit", "lost", "terminated"}
       \/ r.op = "delete" /\ r.pc \in {"deleting", "delete", "deleted"}

\* Each agent has only its own jobs, and is at a step of the one it executes.
Shape ==
    /\ TypeOK
    /\ q["hva"] \in Seq(HvaJob) /\ q["ls"] \in Seq(LsJob) /\ q["sta"] \in Seq(StaJob)
    /\ w["hva"] = Idle \/ HvaDoing(w["hva"])
    /\ \A x \in LsThread : w[x] = Idle \/ LsDoing(w[x])
    /\ w["sta"] = Idle \/ StaDoing(w["sta"])
    /\ leaky => faults > 0

(***************************************************************************)
(* What a step of a worker makes of it                                     *)
(***************************************************************************)
To(x, pc, v, todo) ==
    /\ w' \in [Worker -> Work]
    /\ \A y \in Worker : y # x => w'[y] = w[y]
    /\ pc = "idle" => w'[x] = Idle
    /\ pc # "idle" => /\ w'[x].op = w[x].op /\ w'[x].vols = w[x].vols
                      /\ w'[x].pc = pc /\ w'[x].vol = v /\ w'[x].todo = todo
Took(x, o, pc, todo) ==
    /\ w[x].pc = "idle"
    /\ w' \in [Worker -> Work]
    /\ \A y \in Worker : y # x => w'[y] = w[y]
    /\ pc = "idle" => w'[x] = Idle
    /\ pc # "idle" => /\ w'[x].op = o /\ w'[x].vols = mine
                      /\ w'[x].pc = pc /\ w'[x].vol = Head(q[Chan(x)]).vol /\ w'[x].todo = todo
Pulled(c, o) ==
    /\ q[c] # <<>> /\ Head(q[c]).op = o
    /\ q' = [q EXCEPT ![c] = Tail(@)]
    /\ UNCHANGED <<inst, vol, sched, mon, asked, requests, dom, disk, mapped, faults, leaky>>

LEMMA IdleWork == Idle \in Work
BY DEF Idle, Work, Step

LEMMA LoopStep ==
  ASSUME NEW o, NEW pc \in Step, NEW todo
  PROVE  loop(o, pc, todo) \in Step
BY DEF loop, Done, Step, Loops

LEMMA GotoTo ==
  ASSUME w \in [Worker -> Work], NEW x \in Worker, NEW pc \in Step, goto(x, pc)
  PROVE  To(x, pc, w[x].vol, {})
<1>1. w[x] \in Work
  OBVIOUS
<1>2. [w[x] EXCEPT !.pc = pc, !.todo = {}] \in Work
  BY <1>1 DEF Work
<1>3. w' = [w EXCEPT ![x] = IF pc = "idle" THEN Idle ELSE [w[x] EXCEPT !.pc = pc, !.todo = {}]]
  BY DEF goto
<1>4. w' \in [Worker -> Work] /\ \A y \in Worker : y # x => w'[y] = w[y]
  BY <1>2, <1>3, IdleWork
<1>5. w'[x] = IF pc = "idle" THEN Idle ELSE [w[x] EXCEPT !.pc = pc, !.todo = {}]
  BY <1>3
<1> QED
  BY <1>1, <1>4, <1>5 DEF To, Work

LEMMA EnterTo ==
  ASSUME w \in [Worker -> Work], NEW x \in Worker, NEW pc \in Step, NEW todo \in SUBSET Vol,
         enter(x, pc, todo)
  PROVE  To(x, loop(w[x].op, pc, todo), w[x].vol, todo)
<1> DEFINE to == loop(w[x].op, pc, todo)
<1>0. to \in Step
  BY LoopStep
<1> HIDE DEF to
<1>1. w[x] \in Work
  OBVIOUS
<1>2. [w[x] EXCEPT !.pc = to, !.todo = todo] \in Work
  BY <1>0, <1>1 DEF Work
<1>3. w' = [w EXCEPT ![x] = IF to = "idle" THEN Idle ELSE [w[x] EXCEPT !.pc = to, !.todo = todo]]
  BY DEF enter, to
<1>4. w' \in [Worker -> Work] /\ \A y \in Worker : y # x => w'[y] = w[y]
  BY <1>2, <1>3, IdleWork
<1>5. w'[x] = IF to = "idle" THEN Idle ELSE [w[x] EXCEPT !.pc = to, !.todo = todo]
  BY <1>3
<1>6. To(x, to, w[x].vol, todo)
  BY <1>1, <1>4, <1>5 DEF To, Work
<1> QED
  BY <1>6 DEF to

LEMMA EachTo ==
  ASSUME w \in [Worker -> Work], NEW x \in Worker, NEW pc \in Step, pc # "idle", NEW v \in Vol,
         each(x, pc, v)
  PROVE  To(x, pc, v, w[x].todo \ {v})
<1>1. w[x] \in Work
  OBVIOUS
<1>2. w' = [w EXCEPT ![x] = [w[x] EXCEPT !.pc = pc, !.vol = v, !.todo = w[x].todo \ {v}]]
  BY <1>1 DEF each, Work
<1>3. [w[x] EXCEPT !.pc = pc, !.vol = v, !.todo = w[x].todo \ {v}] \in Work
  BY <1>1 DEF Work
<1>4. w' \in [Worker -> Work] /\ \A y \in Worker : y # x => w'[y] = w[y]
  BY <1>2, <1>3
<1>5. w'[x] = [w[x] EXCEPT !.pc = pc, !.vol = v, !.todo = w[x].todo \ {v}]
  BY <1>2
<1> QED
  BY <1>1, <1>4, <1>5 DEF To, Work

LEMMA TakeTo ==
  ASSUME w \in [Worker -> Work], NEW x \in Worker, NEW o \in Op, NEW pc \in Step,
         NEW todo \in SUBSET Vol, take(x, o, pc, todo), q[Chan(x)] \in Seq(Jobs)
  PROVE  Took(x, o, loop(o, pc, todo), todo) /\ Pulled(Chan(x), o)
<1> DEFINE to == loop(o, pc, todo)
           v == Head(q[Chan(x)]).vol
           r == [op |-> o, vol |-> v, pc |-> to, todo |-> todo, vols |-> mine]
<1>0. to \in Step /\ mine \in SUBSET Vol
  BY LoopStep DEF mine
<1>1. w' = [w EXCEPT ![x] = IF to = "idle" THEN Idle ELSE r]
  BY DEF take
<1>2. q[Chan(x)] # <<>> /\ w[x].pc = "idle"
  BY DEF take, at
<1>3. v \in Vol \cup {NoVol}
  <2>1. Head(q[Chan(x)]) \in Jobs
    BY <1>2
  <2> QED
    BY <2>1 DEF Jobs
<1> HIDE DEF to, v
<1>4. r \in Work
  BY <1>0, <1>3 DEF Work
<1>5. w' \in [Worker -> Work] /\ \A y \in Worker : y # x => w'[y] = w[y]
  BY <1>1, <1>4, IdleWork
<1>6. w'[x] = IF to = "idle" THEN Idle ELSE r
  BY <1>1
<1>7. Took(x, o, to, todo)
  BY <1>2, <1>5, <1>6 DEF Took, v
<1>8. Pulled(Chan(x), o)
  BY DEF take, Pulled, rows, Steps, real, api
<1> QED
  BY <1>7, <1>8 DEF to

LEMMA Basics ==
  ASSUME Shape
  PROVE  /\ w \in [Worker -> Work] /\ q \in [{"hva", "ls", "sta"} -> Seq(Jobs)]
         /\ "hva" \in Worker /\ "sta" \in Worker /\ LsThread \subseteq Worker
         /\ "hva" \notin LsThread /\ "sta" \notin LsThread
         /\ Chan("hva") = "hva" /\ Chan("sta") = "sta" /\ \A x \in LsThread : Chan(x) = "ls"
         /\ \A c \in {"hva", "ls", "sta"} : q[c] \in Seq(Jobs)
BY InstanceConstants DEF Shape, TypeOK, Worker, Chan

LEMMA Heads ==
  ASSUME Shape
  PROVE  /\ q["hva"] # <<>> => Head(q["hva"]).op \in HvaOps /\ Head(q["hva"]).vol = NoVol
         /\ q["ls"] # <<>> => \/ Head(q["ls"]).op = "deploy" /\ Head(q["ls"]).vol = NoVol
                              \/ Head(q["ls"]).op = "delete" /\ Head(q["ls"]).vol \in Local
         /\ q["sta"] # <<>> => Head(q["sta"]).op \in {"create", "delete"} /\ Head(q["sta"]).vol \in Shared
<1>1. q["hva"] # <<>> => Head(q["hva"]) \in HvaJob
  BY DEF Shape
<1>2. q["ls"] # <<>> => Head(q["ls"]) \in LsJob
  BY DEF Shape
<1>3. q["sta"] # <<>> => Head(q["sta"]) \in StaJob
  BY DEF Shape
<1>4. q["hva"] # <<>> => Head(q["hva"]).op \in HvaOps /\ Head(q["hva"]).vol = NoVol
  BY <1>1 DEF HvaJob
<1>5. q["ls"] # <<>> => \/ Head(q["ls"]).op = "deploy" /\ Head(q["ls"]).vol = NoVol
                        \/ Head(q["ls"]).op = "delete" /\ Head(q["ls"]).vol \in Local
  BY <1>2 DEF LsJob
<1> QED
  BY <1>3, <1>4, <1>5 DEF StaJob

\* The jobs of hva-handle, with what they decide on the rows they read.
HvaTakes ==
    \/ /\ Pulled("hva", "wait")
       /\ \E pc \in {"idle", "submit", "finalize"} : Took("hva", "wait", pc, {})
    \/ /\ Pulled("hva", "run_local")
       /\ \/ inst.state # "initializing" /\ Took("hva", "run_local", "t_domain", {})
          \/ inst.state = "initializing" /\ all_available /\ Took("hva", "run_local", "prepare", {})
          \/ inst.state = "initializing" /\ ~all_available /\ Took("hva", "run_local", "idle", {})
    \/ /\ Pulled("hva", "run_vol")
       /\ \E pc \in {"idle", "t_domain", "attaching", "prepare"}, todo \in SUBSET Vol :
            Took("hva", "run_vol", pc, todo)
    \/ /\ Pulled("hva", "terminate")
       /\ \/ inst.state \in {"running", "halted"} /\ Took("hva", "terminate", "shuttingdown", {})
          \/ inst.state \notin {"running", "halted"} /\ Took("hva", "terminate", "idle", {})
    \/ Pulled("hva", "force") /\ Took("hva", "force", "shuttingdown", {})
    \/ /\ Pulled("hva", "stop")
       /\ \/ inst.state = "running" /\ Took("hva", "stop", "stopping", {})
          \/ inst.state # "running" /\ Took("hva", "stop", "idle", {})
    \/ Pulled("hva", "poweroff") /\ Took("hva", "poweroff", "poweroff", {})
    \/ Pulled("hva", "soft_poweroff") /\ Took("hva", "soft_poweroff", "soft_poweroff", {})
    \/ Pulled("hva", "poweron") /\ Took("hva", "poweron", "starting", {})
    \/ Pulled("hva", "reboot") /\ Took("hva", "reboot", "reboot", {})
LsTakes(x) ==
    \/ /\ Pulled("ls", "deploy")
       /\ \/ inst.state = "pending" /\ Took(x, "deploy", "initializing", {})
          \/ inst.state # "pending" /\ mine \cap Local = {} /\ Took(x, "deploy", "terminated", {})
          \/ inst.state # "pending" /\ mine \cap Local # {} /\ Took(x, "deploy", "undeploy", mine \cap Local)
    \/ Pulled("ls", "delete") /\ Took(x, "delete", "delete", {})
StaTakes ==
    \/ Pulled("sta", "create") /\ \E pc \in {"creating", "lost"} : Took("sta", "create", pc, {})
    \/ Pulled("sta", "delete") /\ \E pc \in {"idle", "deleting"} : Took("sta", "delete", pc, {})

LEMMA SimpleTake ==
  ASSUME Shape, NEW x \in Worker, NEW o \in Op, NEW pc \in Step \ Loops, take(x, o, pc, {})
  PROVE  Took(x, o, pc, {}) /\ Pulled(Chan(x), o)
<1>1. {} \in SUBSET Vol /\ loop(o, pc, {}) = pc
  BY DEF loop
<1>2. q[Chan(x)] \in Seq(Jobs)
  BY Basics DEF Worker
<1> QED
  BY <1>1, <1>2, TakeTo, Basics

LEMMA LoopTake ==
  ASSUME Shape, NEW x \in Worker, NEW o \in Op, NEW pc \in Step, NEW todo \in SUBSET Vol,
         take(x, o, pc, todo)
  PROVE  Took(x, o, loop(o, pc, todo), todo) /\ Pulled(Chan(x), o)
<1>2. q[Chan(x)] \in Seq(Jobs)
  BY Basics DEF Worker
<1> QED
  BY <1>2, TakeTo, Basics

LEMMA HvaTake ==
  ASSUME Shape, take_job("hva")
  PROVE  HvaTakes
<1> USE Basics
<1>a. {} \in SUBSET Vol /\ mine \in SUBSET Vol
  BY DEF mine
<1>b. ASSUME NEW o, NEW pc, NEW todo, take("hva", o, pc, todo)
      PROVE o \in HvaOps
  BY <1>b, Heads DEF take
<1>c. {"idle", "submit", "finalize", "prepare", "t_domain", "shuttingdown", "stopping", "poweroff",
       "soft_poweroff", "starting", "reboot"} \subseteq Step \ Loops
  BY DEF Step, Loops
<1>d. {"wait", "run_local", "run_vol", "terminate", "force", "stop", "poweroff", "soft_poweroff",
       "poweron", "reboot"} \subseteq Op
  BY DEF Op
<1>1. CASE wait_volumes_available("hva")
  <2>1. PICK pc \in {"idle", "submit", "finalize"} : take("hva", "wait", pc, {})
    BY <1>1 DEF wait_volumes_available
  <2>2. pc \in Step \ Loops
    BY <1>c
  <2> QED
    BY <1>d, <2>1, <2>2, SimpleTake DEF HvaTakes
<1>2. CASE run_local_store("hva")
  <2>1. CASE inst.state # "initializing"
    <3>1. take("hva", "run_local", "t_domain", {})
      BY <1>2, <2>1 DEF run_local_store
    <3> QED
      BY <1>c, <1>d, <2>1, <3>1, SimpleTake DEF HvaTakes
  <2>2. CASE inst.state = "initializing" /\ all_available
    <3>1. take("hva", "run_local", "prepare", {})
      BY <1>2, <2>2 DEF run_local_store
    <3> QED
      BY <1>c, <1>d, <2>2, <3>1, SimpleTake DEF HvaTakes
  <2>3. CASE inst.state = "initializing" /\ ~all_available
    <3>1. take("hva", "run_local", "idle", {})
      BY <1>2, <2>3 DEF run_local_store
    <3> QED
      BY <1>c, <1>d, <2>3, <3>1, SimpleTake DEF HvaTakes
  <2> QED
    BY <2>1, <2>2, <2>3
<1>3. CASE run_vol_store("hva")
  <2>1. PICK pc \in {"idle", "t_domain", "attaching"}, todo \in SUBSET Vol : take("hva", "run_vol", pc, todo)
    BY <1>3, <1>a DEF run_vol_store
  <2>2. pc \in Step /\ loop("run_vol", pc, todo) \in {"idle", "t_domain", "attaching", "prepare"}
    BY DEF Step, loop, Done, Loops
  <2>3. Took("hva", "run_vol", loop("run_vol", pc, todo), todo) /\ Pulled("hva", "run_vol")
    BY <1>d, <2>1, <2>2, LoopTake
  <2> QED
    BY <2>2, <2>3 DEF HvaTakes
<1>4. CASE terminate("hva")
  <2>1. CASE inst.state \in {"running", "halted"}
    <3>1. take("hva", "terminate", "shuttingdown", {})
      BY <1>4, <2>1 DEF terminate
    <3> QED
      BY <1>c, <1>d, <2>1, <3>1, SimpleTake DEF HvaTakes
  <2>2. CASE inst.state \notin {"running", "halted"}
    <3>1. take("hva", "terminate", "idle", {})
      BY <1>4, <2>2 DEF terminate
    <3> QED
      BY <1>c, <1>d, <2>2, <3>1, SimpleTake DEF HvaTakes
  <2> QED
    BY <2>1, <2>2
<1>5. CASE force_terminate("hva")
  BY <1>5, <1>c, <1>d, SimpleTake DEF force_terminate, HvaTakes
<1>6. CASE stop("hva")
  <2>1. CASE inst.state = "running"
    <3>1. take("hva", "stop", "stopping", {})
      BY <1>6, <2>1 DEF stop
    <3> QED
      BY <1>c, <1>d, <2>1, <3>1, SimpleTake DEF HvaTakes
  <2>2. CASE inst.state # "running"
    <3>1. take("hva", "stop", "idle", {})
      BY <1>6, <2>2 DEF stop
    <3> QED
      BY <1>c, <1>d, <2>2, <3>1, SimpleTake DEF HvaTakes
  <2> QED
    BY <2>1, <2>2
<1>7. CASE power("hva")
  BY <1>7, <1>c, <1>d, SimpleTake DEF power, HvaTakes
<1>8. ~ls_run_local_store("hva") /\ ~ls_delete_volume("hva")
  BY <1>b DEF ls_run_local_store, ls_delete_volume, HvaOps
<1>9. ~create_volume_and_run_instance("hva") /\ ~sta_delete_volume("hva")
  BY <1>b DEF create_volume_and_run_instance, sta_delete_volume, HvaOps
<1> QED
  BY <1>1, <1>2, <1>3, <1>4, <1>5, <1>6, <1>7, <1>8, <1>9 DEF take_job

LEMMA LsTake ==
  ASSUME Shape, NEW x \in LsThread, take_job(x)
  PROVE  LsTakes(x)
<1> USE Basics
<1>a. mine \cap Local \in SUBSET Vol /\ {} \in SUBSET Vol
  BY DEF mine
<1>b. ASSUME NEW o, NEW pc, NEW todo, take(x, o, pc, todo)
      PROVE o \in {"deploy", "delete"}
  BY <1>b, Heads DEF take
<1>c. {"initializing", "delete"} \subseteq Step \ Loops /\ {"undeploy"} \subseteq Step
  BY DEF Step, Loops
<1>d. {"deploy", "delete"} \subseteq Op
  BY DEF Op
<1>1. ~wait_volumes_available(x) /\ ~run_local_store(x) /\ ~run_vol_store(x) /\ ~terminate(x)
  <2>1. ~wait_volumes_available(x)
    BY <1>b DEF wait_volumes_available
  <2>2. ~run_local_store(x)
    BY <1>b DEF run_local_store
  <2>3. ~run_vol_store(x)
    BY <1>b DEF run_vol_store
  <2>4. ~terminate(x)
    BY <1>b DEF terminate
  <2> QED
    BY <2>1, <2>2, <2>3, <2>4
<1>2. ~force_terminate(x) /\ ~stop(x) /\ ~power(x) /\ ~create_volume_and_run_instance(x)
  <2>1. ~force_terminate(x)
    BY <1>b DEF force_terminate
  <2>2. ~stop(x)
    BY <1>b DEF stop
  <2>3. ~power(x)
    <3>1. ~take(x, "poweroff", "poweroff", {})
      BY <1>b
    <3>2. ~take(x, "soft_poweroff", "soft_poweroff", {})
      BY <1>b
    <3>3. ~take(x, "poweron", "starting", {})
      BY <1>b
    <3>4. ~take(x, "reboot", "reboot", {})
      BY <1>b
    <3> QED
      BY <3>1, <3>2, <3>3, <3>4 DEF power
  <2>4. ~create_volume_and_run_instance(x)
    BY <1>b DEF create_volume_and_run_instance
  <2> QED
    BY <2>1, <2>2, <2>3, <2>4
<1>3. ~sta_delete_volume(x)
  BY DEF sta_delete_volume
<1>4. CASE ls_delete_volume(x)
  BY <1>4, <1>c, <1>d, SimpleTake DEF ls_delete_volume, LsTakes
<1>5. CASE ls_run_local_store(x)
  <2>1. CASE inst.state = "pending"
    <3>1. take(x, "deploy", "initializing", {})
      BY <1>5, <2>1 DEF ls_run_local_store
    <3> QED
      BY <1>c, <1>d, <2>1, <3>1, SimpleTake DEF LsTakes
  <2>2. CASE inst.state # "pending"
    <3>1. take(x, "deploy", "undeploy", mine \cap Local)
      BY <1>5, <2>2 DEF ls_run_local_store
    <3>2. Took(x, "deploy", loop("deploy", "undeploy", mine \cap Local), mine \cap Local) /\ Pulled("ls", "deploy")
      BY <1>a, <1>c, <1>d, <3>1, LoopTake
    <3>3. loop("deploy", "undeploy", mine \cap Local) = IF mine \cap Local = {} THEN "terminated" ELSE "undeploy"
      BY DEF loop, Loops, Done
    <3> QED
      BY <2>2, <3>2, <3>3 DEF LsTakes
  <2> QED
    BY <2>1, <2>2
<1> QED
  BY <1>1, <1>2, <1>3, <1>4, <1>5 DEF take_job

LEMMA StaTake ==
  ASSUME Shape, take_job("sta")
  PROVE  StaTakes
<1> USE Basics
<1>b. ASSUME NEW o, NEW pc, NEW todo, take("sta", o, pc, todo)
      PROVE o \in {"create", "delete"}
  BY <1>b, Heads DEF take
<1>c. {"creating", "lost", "idle", "deleting"} \subseteq Step \ Loops
  BY DEF Step, Loops
<1>d. {"create", "delete"} \subseteq Op
  BY DEF Op
<1>1. ~wait_volumes_available("sta") /\ ~run_local_store("sta") /\ ~run_vol_store("sta") /\ ~terminate("sta")
  <2>1. ~wait_volumes_available("sta")
    BY <1>b DEF wait_volumes_available
  <2>2. ~run_local_store("sta")
    BY <1>b DEF run_local_store
  <2>3. ~run_vol_store("sta")
    BY <1>b DEF run_vol_store
  <2>4. ~terminate("sta")
    BY <1>b DEF terminate
  <2> QED
    BY <2>1, <2>2, <2>3, <2>4
<1>2. ~force_terminate("sta") /\ ~stop("sta") /\ ~power("sta") /\ ~ls_run_local_store("sta")
  <2>1. ~force_terminate("sta")
    BY <1>b DEF force_terminate
  <2>2. ~stop("sta")
    BY <1>b DEF stop
  <2>3. ~power("sta")
    <3>1. ~take("sta", "poweroff", "poweroff", {})
      BY <1>b
    <3>2. ~take("sta", "soft_poweroff", "soft_poweroff", {})
      BY <1>b
    <3>3. ~take("sta", "poweron", "starting", {})
      BY <1>b
    <3>4. ~take("sta", "reboot", "reboot", {})
      BY <1>b
    <3> QED
      BY <3>1, <3>2, <3>3, <3>4 DEF power
  <2>4. ~ls_run_local_store("sta")
    BY <1>b DEF ls_run_local_store
  <2> QED
    BY <2>1, <2>2, <2>3, <2>4
<1>3. ~ls_delete_volume("sta")
  BY DEF ls_delete_volume
<1>4. CASE create_volume_and_run_instance("sta")
  <2>1. PICK pc \in {"creating", "lost"} : take("sta", "create", pc, {})
    BY <1>4 DEF create_volume_and_run_instance
  <2>2. pc \in Step \ Loops
    BY <1>c
  <2> QED
    BY <1>d, <2>1, <2>2, SimpleTake DEF StaTakes
<1>5. CASE sta_delete_volume("sta")
  <2>1. PICK pc \in {"idle", "deleting"} : take("sta", "delete", pc, {})
    BY <1>5 DEF sta_delete_volume
  <2>2. pc \in Step \ Loops
    BY <1>c
  <2> QED
    BY <1>d, <2>1, <2>2, SimpleTake DEF StaTakes
<1> QED
  BY <1>1, <1>2, <1>3, <1>4, <1>5 DEF take_job

(***************************************************************************)
(* The steps of the jobs, by their pc                                      *)
(***************************************************************************)
Sets(s) == /\ inst' = [inst EXCEPT !.state = s]
           /\ UNCHANGED <<vol, q, sched, mon, asked, requests, dom, disk, mapped, faults, leaky>>
Marks(v, s) == /\ vol' = [vol EXCEPT ![v] = updated(vol[v], s, vol[v].on)]
               /\ UNCHANGED <<inst, q, sched, mon, asked, requests, dom, disk, mapped, faults, leaky>>
Does(d, ds, ms) == /\ dom' = d /\ disk' = ds /\ mapped' = ms
                   /\ UNCHANGED <<inst, vol, q, sched, mon, asked, requests>>
Well == UNCHANGED <<faults, leaky>>
Fails == /\ faults < MaxFaults /\ faults' = faults + 1 /\ leaky' = TRUE
         /\ Does(dom, disk, mapped)
Goes(x, pc) == To(x, pc, w[x].vol, {})
Loop(x, pc, done, todo) == IF todo = {} THEN Goes(x, done) ELSE To(x, pc, w[x].vol, todo)
At(x, pc) == w[x].pc = pc

S_shut(x) == \E s \in {"shuttingdown", "stopping"} : At(x, s) /\ Sets(s) /\ Goes(x, "t_domain")
S_starting(x) == At(x, "starting") /\ Sets("starting") /\ Goes(x, "prepare")
S_running(x) == At(x, "running") /\ Sets("running")
                /\ Loop(x, "attached", "idle", IF w[x].op = "poweron" THEN {} ELSE w[x].vols)
S_halted(x) == At(x, "halted") /\ Sets("halted") /\ Goes(x, "idle")
S_stopped(x) == /\ At(x, "stopped")
                /\ inst' = [inst EXCEPT !.state = "stopped", !.host = FALSE]
                /\ UNCHANGED <<vol, q, sched, mon, asked, requests, dom, disk, mapped, faults, leaky>>
                /\ Loop(x, "v_deleted", "idle", w[x].vols)
S_initializing(x) == At(x, "initializing") /\ Sets("initializing")
                     /\ Loop(x, "deploy", "submit", w[x].vols \cap Local)
S_attaching(x) == \E v \in w[x].todo :
    /\ At(x, "attaching") /\ Marks(v, "attaching")
    /\ IF w[x].op = "run_vol" /\ v \in Shared
       THEN To(x, "map", v, w[x].todo \ {v})
       ELSE Loop(x, "attaching", IF w[x].op = "run_local" THEN "run" ELSE "prepare", w[x].todo \ {v})
S_attached(x) == \E v \in w[x].todo :
    /\ At(x, "attached") /\ Marks(v, "attached") /\ Loop(x, "attached", "idle", w[x].todo \ {v})
Gone(x) == IF w[x].op = "stop" THEN "stopped" ELSE "finalize"
S_delete_local(x) == \E v \in w[x].todo \cap Local :
    /\ At(x, "t_vol") /\ Marks(v, "deleting") /\ To(x, "t_disk", v, w[x].todo \ {v})
S_deleted_local(x) ==
    At(x, "t_deleted") /\ Marks(w[x].vol, "deleted") /\ Loop(x, "t_vol", Gone(x), w[x].todo)
S_release(x) == \E v \in w[x].todo :
    /\ At(x, "v_deleted")
    /\ vol' = [vol EXCEPT ![v] = updated(vol[v], "deleted", FALSE)]
    /\ UNCHANGED <<inst, q, sched, mon, asked, requests, dom, disk, mapped, faults, leaky>>
    /\ Loop(x, "v_deleted", "idle", w[x].todo \ {v})
Apart == UNCHANGED <<sched, mon, asked, requests, dom, disk, mapped, faults, leaky>>
S_finalize(x) ==
    /\ At(x, "finalize") /\ Apart /\ Goes(x, "idle")
    /\ IF inst.host \/ w[x].op = "wait" THEN finalize_instance ELSE UNCHANGED <<inst, vol, q>>
S_abandon(x) ==
    /\ At(x, "terminated") /\ Apart /\ finalize_instance
    /\ Loop(x, "v_deleted", "idle", IF x = "sta" THEN {} ELSE w[x].vols)
S_available(x) ==
    /\ At(x, "available") /\ Marks(w[x].vol, "available")
    /\ IF w[x].op = "create" THEN Goes(x, "submit") ELSE Loop(x, "deploy", "submit", w[x].todo)
S_undeployed(x) ==
    /\ At(x, "undeployed") /\ Marks(w[x].vol, "available")
    /\ Loop(x, "undeploy", "terminated", w[x].todo)
S_creating(x) == At(x, "creating") /\ Marks(w[x].vol, "creating") /\ Goes(x, "create")
S_lost(x) == At(x, "lost") /\ Marks(w[x].vol, "deleted") /\ Goes(x, "terminated")
S_deleting(x) == At(x, "deleting") /\ Marks(w[x].vol, "deleting") /\ Goes(x, "delete")
S_deleted(x) == At(x, "deleted") /\ Marks(w[x].vol, "deleted") /\ Goes(x, "idle")
S_submit(x) ==
    /\ At(x, "submit") /\ submit("hva", next_job(w[x].op), NoVol) /\ Goes(x, "idle")
    /\ UNCHANGED <<inst, vol>> /\ Apart

LEMMA LoopIs ==
  ASSUME Shape, NEW x \in Worker, NEW pc \in Loops, NEW todo \in SUBSET Vol, enter(x, pc, todo)
  PROVE  Loop(x, pc, Done(w[x].op, pc), todo)
<1>1. pc \in Step
  BY DEF Loops, Step
<1>2. To(x, loop(w[x].op, pc, todo), w[x].vol, todo)
  BY <1>1, EnterTo, Basics
<1>3. CASE todo = {}
  BY <1>2, <1>3 DEF loop, Loop, Goes
<1>4. CASE todo # {}
  BY <1>2, <1>4 DEF loop, Loop
<1> QED
  BY <1>3, <1>4
LEMMA GoesIs ==
  ASSUME Shape, NEW x \in Worker, NEW pc \in Step, goto(x, pc)
  PROVE  Goes(x, pc)
BY GotoTo, Basics DEF Goes
LEMMA WorkIs ==
  ASSUME Shape, NEW x \in Worker
  PROVE  /\ w[x].op \in Op \cup {"none"} /\ w[x].vol \in Vol \cup {NoVol} /\ w[x].pc \in Step
         /\ w[x].todo \in SUBSET Vol /\ w[x].vols \in SUBSET Vol
         /\ \A v \in Vol : w[x].todo \ {v} \in SUBSET Vol
         /\ w[x].vols \cap Local \in SUBSET Vol
<1>1. w[x] \in Work
  BY Basics
<1> QED
  BY <1>1 DEF Work

LEMMA Ends ==
  /\ \A o : Done(o, "attaching") = IF o = "run_local" THEN "run" ELSE "prepare"
  /\ \A o : Done(o, "t_vol") = IF o = "stop" THEN "stopped" ELSE "finalize"
  /\ \A o : Done(o, "deploy") = "submit" /\ Done(o, "undeploy") = "terminated"
  /\ \A o : Done(o, "attached") = "idle" /\ Done(o, "v_deleted") = "idle"
BY DEF Done

S_rpc(x) ==
    \/ S_shut(x) \/ S_starting(x) \/ S_running(x) \/ S_halted(x) \/ S_stopped(x)
    \/ S_initializing(x) \/ S_attaching(x) \/ S_attached(x) \/ S_delete_local(x)
    \/ S_deleted_local(x) \/ S_release(x) \/ S_finalize(x) \/ S_abandon(x)
    \/ S_available(x) \/ S_undeployed(x) \/ S_creating(x) \/ S_lost(x)
    \/ S_deleting(x) \/ S_deleted(x) \/ S_submit(x)

LEMMA RpcIs ==
  ASSUME Shape, NEW x \in Worker, rpc_step(x)
  PROVE  S_rpc(x)
<1> USE DEF still, Steps, real, api, rows, at, op, At, Sets, Marks, Apart, update_instance, update_volume
<1>a. /\ {"t_domain", "prepare", "idle", "submit", "create", "terminated", "delete", "t_disk", "map"} \subseteq Step
      /\ {"attached", "v_deleted", "deploy", "attaching", "t_vol", "undeploy"} \subseteq Loops
      /\ {} \in SUBSET Vol
  BY DEF Step, Loops
<1>b. /\ w[x].todo \in SUBSET Vol /\ w[x].vols \in SUBSET Vol
      /\ \A v \in Vol : w[x].todo \ {v} \in SUBSET Vol
      /\ w[x].vols \cap Local \in SUBSET Vol
  BY WorkIs
<1>1. CASE begin_shutdown(x)
  BY <1>1, <1>a, GoesIs DEF begin_shutdown, S_shut, S_rpc
<1>2. CASE begin_poweron(x)
  BY <1>2, <1>a, GoesIs DEF begin_poweron, S_starting, S_rpc
<1>3. CASE begin_deploy(x)
  BY <1>3, <1>a, <1>b, LoopIs, Ends DEF begin_deploy, S_initializing, S_rpc
<1>4. CASE set_running(x)
  BY <1>4, <1>a, <1>b, LoopIs, Ends DEF set_running, S_running, S_rpc
<1>5. CASE set_halted(x)
  BY <1>5, <1>a, GoesIs DEF set_halted, S_halted, S_rpc
<1>6. CASE set_stopped(x)
  BY <1>6, <1>a, <1>b, LoopIs, Ends DEF set_stopped, S_stopped, S_rpc
<1>7. CASE set_attaching(x)
  <2>1. PICK v \in w[x].todo :
          /\ w[x].pc = "attaching" /\ Marks(v, "attaching")
          /\ IF w[x].op = "run_vol" /\ v \in Shared THEN each(x, "map", v)
                                                  ELSE enter(x, "attaching", w[x].todo \ {v})
    BY <1>7 DEF set_attaching
  <2>2. v \in Vol
    BY <1>b
  <2>3. CASE w[x].op = "run_vol" /\ v \in Shared
    BY <1>a, <2>1, <2>2, <2>3, EachTo, Basics DEF S_attaching, S_rpc
  <2>4. CASE ~(w[x].op = "run_vol" /\ v \in Shared)
    <3>1. Loop(x, "attaching", IF w[x].op = "run_local" THEN "run" ELSE "prepare", w[x].todo \ {v})
      BY <1>a, <1>b, <2>1, <2>2, <2>4, LoopIs, Ends
    <3> QED
      BY <2>1, <2>4, <3>1 DEF S_attaching, S_rpc
  <2> QED
    BY <2>3, <2>4
<1>8. CASE set_attached(x)
  <2>1. PICK v \in w[x].todo : /\ w[x].pc = "attached" /\ Marks(v, "attached")
                               /\ enter(x, "attached", w[x].todo \ {v})
    BY <1>8 DEF set_attached
  <2> QED
    BY <1>a, <1>b, <2>1, LoopIs, Ends DEF S_attached, S_rpc
<1>9. CASE delete_local_volume(x)
  <2>1. PICK v \in w[x].todo \cap Local : /\ w[x].pc = "t_vol" /\ Marks(v, "deleting")
                                          /\ each(x, "t_disk", v)
    BY <1>9 DEF delete_local_volume
  <2> QED
    BY <1>a, <1>b, <2>1, EachTo, Basics DEF S_delete_local, S_rpc
<1>10. CASE deleted_local_volume(x)
  BY <1>10, <1>a, <1>b, LoopIs, Ends DEF deleted_local_volume, S_deleted_local, Gone, S_rpc
<1>11. CASE release_volume(x)
  <2>1. PICK v \in w[x].todo :
          /\ w[x].pc = "v_deleted" /\ vol' = [vol EXCEPT ![v] = updated(vol[v], "deleted", FALSE)]
          /\ enter(x, "v_deleted", w[x].todo \ {v})
          /\ UNCHANGED <<inst, q, sched, mon, asked, requests, dom, disk, mapped, faults, leaky>>
    <3>1. vol \in [Vol -> VolRow]
      BY DEF Shape, TypeOK
    <3> QED
      BY <1>11, <1>b, <3>1 DEF release_volume
  <2> QED
    BY <1>a, <1>b, <2>1, LoopIs, Ends DEF S_release, S_rpc
<1>12. CASE finalize(x)
  BY <1>12, <1>a, GoesIs DEF finalize, S_finalize, S_rpc
<1>13. CASE abandon_boot(x)
  BY <1>13, <1>a, <1>b, LoopIs, Ends DEF abandon_boot, S_abandon, S_rpc
<1>14. CASE set_available(x)
  BY <1>14, <1>a, <1>b, LoopIs, Ends, GoesIs DEF set_available, S_available, S_rpc
<1>15. CASE set_undeployed(x)
  BY <1>15, <1>a, <1>b, LoopIs, Ends DEF set_undeployed, S_undeployed, S_rpc
<1>16. CASE set_creating(x)
  BY <1>16, <1>a, GoesIs DEF set_creating, S_creating, S_rpc
<1>17. CASE set_lost(x)
  BY <1>17, <1>a, GoesIs DEF set_lost, S_lost, S_rpc
<1>18. CASE set_deleting(x)
  BY <1>18, <1>a, GoesIs DEF set_deleting, S_deleting, S_rpc
<1>19. CASE set_deleted(x)
  BY <1>19, <1>a, GoesIs DEF set_deleted, S_deleted, S_rpc
<1>20. CASE submit_next(x)
  BY <1>20, <1>a, GoesIs DEF submit_next, S_submit, S_rpc
<1> QED
  BY <1>1, <1>2, <1>3, <1>4, <1>5, <1>6, <1>7, <1>8, <1>9, <1>10, <1>11, <1>12, <1>13, <1>14, <1>15,
     <1>16, <1>17, <1>18, <1>19, <1>20 DEF rpc_step

D_prepare(x) ==
    /\ At(x, "prepare") /\ Well /\ Does(dom, disk, mapped)
    /\ \/ w[x].op = "run_local" /\ Loop(x, "attaching", "run", w[x].vols)
       \/ w[x].op = "run_vol" /\ Goes(x, "run")
       \/ w[x].op = "poweron" /\ Goes(x, "poweron")
D_map(x) ==
    /\ At(x, "map") /\ Well /\ Does(dom, disk, mapped \cup {w[x].vol})
    /\ Loop(x, "attaching", IF w[x].op = "run_local" THEN "run" ELSE "prepare", w[x].todo)
D_run(x) ==
    /\ At(x, "run") \/ At(x, "poweron")
    /\ bootable(x) /\ Well /\ Does("on", disk, mapped) /\ Goes(x, "running")
D_off(x) == At(x, "poweroff") /\ Well /\ Does("off", disk, mapped) /\ Goes(x, "halted")
D_soft(x) == /\ At(x, "soft_poweroff") /\ Well
             /\ Does(IF dom = "on" THEN "asked" ELSE dom, disk, mapped) /\ Goes(x, "idle")
D_reboot(x) == At(x, "reboot") /\ Well /\ Does(dom, disk, mapped) /\ Goes(x, "idle")
D_deploy(x) == \E v \in w[x].todo :
    /\ At(x, "deploy") /\ Well /\ Does(dom, disk \cup {v}, mapped)
    /\ To(x, "available", v, w[x].todo \ {v})
D_create(x) == At(x, "create") /\ Well /\ Does(dom, disk \cup {w[x].vol}, mapped) /\ Goes(x, "available")
D_domain(x) ==
    /\ At(x, "t_domain") /\ ((Well /\ Does("off", disk, mapped)) \/ Fails)
    /\ Loop(x, "t_vol", Gone(x), w[x].vols)
D_detach(x) == \E v \in w[x].todo \ Local :
    /\ At(x, "t_vol") /\ ((Well /\ Does(dom, disk, mapped \ {v})) \/ Fails)
    /\ Loop(x, "t_vol", Gone(x), w[x].todo \ {v})
D_disk(x) ==
    /\ At(x, "t_disk")
    /\ \/ inst.host /\ Well /\ Does(dom, disk \ {w[x].vol}, mapped) /\ To(x, "t_deleted", w[x].vol, w[x].todo)
       \/ Fails /\ Loop(x, "t_vol", Gone(x), w[x].todo)
       \/ ~inst.host /\ Well /\ Does(dom, disk, mapped) /\ Loop(x, "t_vol", Gone(x), w[x].todo)
D_undeploy(x) == \E v \in w[x].todo :
    /\ At(x, "undeploy") /\ ((Well /\ Does(dom, disk \ {v}, mapped)) \/ Fails)
    /\ To(x, "undeployed", v, w[x].todo \ {v})
D_delete(x) ==
    /\ At(x, "delete") /\ ((Well /\ Does(dom, disk \ {w[x].vol}, mapped)) \/ Fails)
    /\ Goes(x, "deleted")
S_driver(x) ==
    \/ D_prepare(x) \/ D_map(x) \/ D_run(x) \/ D_off(x) \/ D_soft(x) \/ D_reboot(x) \/ D_deploy(x)
    \/ D_create(x) \/ D_domain(x) \/ D_detach(x) \/ D_disk(x) \/ D_undeploy(x) \/ D_delete(x)

\* An error of a driver: what the call may have done, and the rescue proc.
S_raise(x) ==
    /\ w[x].pc \in {"prepare", "map", "run", "poweron", "poweroff", "soft_poweroff", "reboot", "deploy", "create"}
    /\ IF hopeless(x) THEN Well /\ Does(dom, disk, mapped)
       ELSE /\ faults < MaxFaults /\ faults' = faults + 1
            /\ \/ UNCHANGED leaky /\ Does(dom, disk, mapped)
               \/ At(x, "map") /\ UNCHANGED leaky /\ Does(dom, disk, mapped \cup {w[x].vol})
               \/ w[x].pc \in {"run", "poweron"} /\ UNCHANGED leaky /\ Does("on", disk, mapped)
               \/ w[x].pc \in {"poweroff", "reboot"} /\ UNCHANGED leaky /\ Does("off", disk, mapped)
               \/ \E v \in w[x].todo : At(x, "deploy") /\ UNCHANGED leaky /\ Does(dom, disk \cup {v}, mapped)
               \/ At(x, "create") /\ leaky' = TRUE /\ Does(dom, disk \cup {w[x].vol}, mapped)
    /\ \/ w[x].op \in {"run_local", "run_vol"} /\ Goes(x, "t_domain")
       \/ w[x].op = "poweron" /\ Goes(x, "halted")
       \/ w[x].op = "deploy" /\ Loop(x, "undeploy", "terminated", w[x].vols \cap Local)
       \/ w[x].op = "create" /\ Goes(x, "lost")
       \/ w[x].op \notin {"run_local", "run_vol", "poweron", "deploy", "create"} /\ Goes(x, "idle")

LEMMA DriverIs ==
  ASSUME Shape, NEW x \in Worker, driver_step(x)
  PROVE  S_driver(x)
<1> USE DEF untouched, Steps, real, api, rows, at, op, At, Does, Well, effect
<1>a. /\ {"t_domain", "running", "run", "poweron", "idle", "halted", "available", "undeployed", "deleted"} \subseteq Step
      /\ {"attaching", "t_vol", "undeploy"} \subseteq Loops
      /\ {} \in SUBSET Vol
  BY DEF Step, Loops
<1>b. /\ w[x].todo \in SUBSET Vol /\ w[x].vols \in SUBSET Vol
      /\ \A v \in Vol : w[x].todo \ {v} \in SUBSET Vol
      /\ w[x].vols \cap Local \in SUBSET Vol
  BY WorkIs
<1>1. CASE prepare(x)
  <2>0. w[x].op \in {"run_local", "run_vol", "poweron"}
    BY <1>1 , Basics DEF prepare, Shape, HvaDoing, LsDoing, StaDoing, Idle, Worker
  <2>1. CASE w[x].op = "run_local"
    <3>1. enter(x, "attaching", w[x].vols)
      BY <1>1, <2>1 DEF prepare
    <3> QED
      BY <1>1, <1>a, <1>b, <2>1, <3>1, LoopIs, Ends DEF prepare, D_prepare, S_driver
  <2>2. CASE w[x].op = "run_vol"
    <3>1. goto(x, "run")
      BY <1>1, <2>2 DEF prepare
    <3> QED
      BY <1>1, <1>a, <2>2, <3>1, GoesIs DEF prepare, D_prepare, S_driver
  <2>3. CASE w[x].op = "poweron"
    <3>1. goto(x, "poweron")
      BY <1>1, <2>3 DEF prepare
    <3> QED
      BY <1>1, <1>a, <2>3, <3>1, GoesIs DEF prepare, D_prepare, S_driver
  <2> QED
    BY <2>0, <2>1, <2>2, <2>3
<1>2. CASE attach_volume_to_host(x)
  BY <1>2, <1>a, <1>b, LoopIs, Ends DEF attach_volume_to_host, D_map, S_driver
<1>3. CASE run_instance(x)
  BY <1>3, <1>a, GoesIs DEF run_instance, D_run, S_driver
<1>4. CASE poweroff_instance(x)
  BY <1>4, <1>a, GoesIs DEF poweroff_instance, D_off, S_driver
<1>5. CASE soft_poweroff_instance(x)
  BY <1>5, <1>a, GoesIs DEF soft_poweroff_instance, D_soft, S_driver
<1>6. CASE reboot_instance(x)
  BY <1>6, <1>a, GoesIs DEF reboot_instance, D_reboot, S_driver
<1>7. CASE deploy_volume(x)
  BY <1>7, <1>a, <1>b, EachTo, Basics DEF deploy_volume, D_deploy, S_driver
<1>8. CASE create_volume(x)
  BY <1>8, <1>a, GoesIs DEF create_volume, D_create, S_driver
<1>9. CASE terminate_domain(x)
  <2>1. Loop(x, "t_vol", Gone(x), w[x].vols)
    BY <1>9, <1>a, <1>b, LoopIs, Ends DEF terminate_domain, Gone
  <2>2. (effect("off", disk, mapped) /\ Well) \/ Fails
    BY <1>9 DEF terminate_domain, cleanup, fail_cleanup, Fails
  <2> QED
    BY <1>9, <2>1, <2>2 DEF terminate_domain, D_domain, S_driver
<1>10. CASE detach_volume_from_host(x)
  <2>1. PICK v \in w[x].todo \ Local : /\ w[x].pc = "t_vol" /\ cleanup(effect(dom, disk, mapped \ {v}))
                                       /\ enter(x, "t_vol", w[x].todo \ {v}) /\ UNCHANGED untouched
    BY <1>10 DEF detach_volume_from_host
  <2>2. Loop(x, "t_vol", Gone(x), w[x].todo \ {v})
    BY <2>1, <1>a, <1>b, LoopIs, Ends DEF Gone
  <2>3. (effect(dom, disk, mapped \ {v}) /\ Well) \/ Fails
    BY <2>1 DEF cleanup, fail_cleanup, Fails
  <2> QED
    BY <2>1, <2>2, <2>3 DEF D_detach, S_driver
<1>11. CASE delete_local_disk(x)
  <2>0. UNCHANGED untouched /\ w[x].pc = "t_disk"
    BY <1>11 DEF delete_local_disk
  <2>1. CASE /\ inst.host /\ effect(dom, disk \ {w[x].vol}, mapped)
             /\ w' = [w EXCEPT ![x].pc = "t_deleted"] /\ UNCHANGED <<faults, leaky>>
    <3>0. w[x] \in Work
      BY Basics
    <3>1. w[x] \in Work /\ [w[x] EXCEPT !.pc = "t_deleted"] \in Work
      BY <3>0 DEF Work, Step
    <3>2. To(x, "t_deleted", w[x].vol, w[x].todo)
      BY <2>1, <3>1, Basics DEF To, Work
    <3> QED
      BY <2>0, <2>1, <3>2 DEF D_disk, S_driver
  <2>2. CASE fail_cleanup /\ enter(x, "t_vol", w[x].todo)
    <3>1. Loop(x, "t_vol", Gone(x), w[x].todo)
      BY <2>2, <1>a, <1>b, LoopIs, Ends DEF Gone
    <3> QED
      BY <2>0, <2>2, <3>1 DEF D_disk, S_driver, fail_cleanup, Fails
  <2>3. CASE ~inst.host /\ enter(x, "t_vol", w[x].todo) /\ UNCHANGED <<real, faults, leaky>>
    <3>1. Loop(x, "t_vol", Gone(x), w[x].todo)
      BY <2>3, <1>a, <1>b, LoopIs, Ends DEF Gone
    <3> QED
      BY <2>0, <2>3, <3>1 DEF D_disk, S_driver
  <2> QED
    BY <1>11, <2>1, <2>2, <2>3 DEF delete_local_disk
<1>12. CASE undeploy_volume(x)
  <2>1. PICK v \in w[x].todo : /\ w[x].pc = "undeploy" /\ cleanup(effect(dom, disk \ {v}, mapped))
                               /\ each(x, "undeployed", v) /\ UNCHANGED untouched
    BY <1>12 DEF undeploy_volume
  <2>2. To(x, "undeployed", v, w[x].todo \ {v})
    BY <2>1, <1>a, <1>b, EachTo, Basics
  <2>3. (effect(dom, disk \ {v}, mapped) /\ Well) \/ Fails
    BY <2>1 DEF cleanup, fail_cleanup, Fails
  <2> QED
    BY <2>1, <2>2, <2>3 DEF D_undeploy, S_driver
<1>13. CASE delete_volume(x)
  <2>1. Goes(x, "deleted")
    BY <1>13, <1>a, GoesIs DEF delete_volume
  <2>2. (effect(dom, disk \ {w[x].vol}, mapped) /\ Well) \/ Fails
    BY <1>13 DEF delete_volume, cleanup, fail_cleanup, Fails
  <2> QED
    BY <1>13, <2>1, <2>2 DEF delete_volume, D_delete, S_driver
<1> QED
  BY <1>1, <1>2, <1>3, <1>4, <1>5, <1>6, <1>7, <1>8, <1>9, <1>10, <1>11, <1>12, <1>13 DEF driver_step

LEMMA RaiseIs ==
  ASSUME Shape, NEW x \in Worker, raise(x)
  PROVE  S_raise(x)
<1> USE DEF untouched, Steps, real, api, rows, at, op, At, Does, Well, effect
<1>a. /\ {"t_domain", "halted", "lost", "idle"} \subseteq Step /\ "undeploy" \in Loops
      /\ w[x].vols \cap Local \in SUBSET Vol
  BY WorkIs DEF Step, Loops
<1>1. \/ w[x].op \in {"run_local", "run_vol"} /\ goto(x, "t_domain")
      \/ w[x].op = "poweron" /\ goto(x, "halted")
      \/ w[x].op = "deploy" /\ enter(x, "undeploy", w[x].vols \cap Local)
      \/ w[x].op = "create" /\ goto(x, "lost")
      \/ w[x].op \notin {"run_local", "run_vol", "poweron", "deploy", "create"} /\ goto(x, "idle")
  BY DEF raise, rescue
<1>2. \/ w[x].op \in {"run_local", "run_vol"} /\ Goes(x, "t_domain")
      \/ w[x].op = "poweron" /\ Goes(x, "halted")
      \/ w[x].op = "deploy" /\ Loop(x, "undeploy", "terminated", w[x].vols \cap Local)
      \/ w[x].op = "create" /\ Goes(x, "lost")
      \/ w[x].op \notin {"run_local", "run_vol", "poweron", "deploy", "create"} /\ Goes(x, "idle")
  BY <1>1, <1>a, GoesIs, LoopIs, Ends
<1>3. IF hopeless(x) THEN Well /\ Does(dom, disk, mapped)
      ELSE faults < MaxFaults /\ faults' = faults + 1 /\ partial(x) /\ UNCHANGED untouched
  BY DEF raise
<1> QED
  BY <1>2, <1>3 DEF raise, partial, S_raise

(***************************************************************************)
(* Queues                                                                  *)
(***************************************************************************)
LEMMA Listed ==
  ASSUME NEW S, IsFiniteSet(S)
  PROVE  SetToSeq(S) \in Seq(S) /\ (S = {} => SetToSeq(S) = <<>>)
<1>1. Cardinality(S) \in Nat /\ ExistsBijection(1 .. Cardinality(S), S)
  BY FS_CardinalityType
<1>2. PICK f : f \in Bijection(1 .. Cardinality(S), S)
  BY <1>1 DEF ExistsBijection
<1>3. f \in [1 .. Cardinality(S) -> S] /\ IsInjective(f)
  BY <1>2 DEF Bijection, Injection
<1>4. \E g \in [1 .. Cardinality(S) -> S] : IsInjective(g)
  BY <1>3
<1>5. SetToSeq(S) \in [1 .. Cardinality(S) -> S]
  BY <1>4 DEF SetToSeq
<1>6. SetToSeq(S) \in Seq(S) /\ Len(SetToSeq(S)) = Cardinality(S)
  BY <1>1, <1>5
<1>7. S = {} => Cardinality(S) = 0
  BY FS_EmptySet
<1> QED
  BY <1>6, <1>7

LEMMA SeqWider ==
  ASSUME NEW S, NEW T, S \subseteq T, NEW s \in Seq(S)
  PROVE  s \in Seq(T)
<1>1. Len(s) \in Nat /\ s \in [1 .. Len(s) -> S]
  OBVIOUS
<1>2. s \in [1 .. Len(s) -> T]
  BY <1>1
<1> QED
  BY <1>1, <1>2

LEMMA DeleteJobs ==
  ASSUME NEW vs \in SUBSET Vol
  PROVE  /\ delete_jobs(vs) \in Seq([op : {"delete"}, vol : vs])
         /\ vs = {} => delete_jobs(vs) = <<>>
<1> DEFINE S == {[op |-> "delete", vol |-> v] : v \in vs}
<1>1. IsFiniteSet(vs)
  BY InstanceConstants, FS_Subset
<1>2. IsFiniteSet(S)
  <2> DEFINE f == [v \in vs |-> [op |-> "delete", vol |-> v]]
  <2>1. f \in Surjection(vs, S)
    BY DEF Surjection
  <2> QED
    BY <1>1, <2>1, FS_Surjection
<1>3. SetToSeq(S) \in Seq(S) /\ (S = {} => SetToSeq(S) = <<>>)
  BY <1>2, Listed
<1>4. S \subseteq [op : {"delete"}, vol : vs] /\ (vs = {} => S = {})
  OBVIOUS
<1>5. SetToSeq(S) \in Seq([op : {"delete"}, vol : vs])
  BY <1>3, <1>4, SeqWider
<1> QED
  BY <1>3, <1>4, <1>5 DEF delete_jobs

LEMMA CreateJobs ==
  /\ SetToSeq({[op |-> "create", vol |-> v] : v \in Shared}) \in Seq(StaJob)
  /\ Shared = {} => SetToSeq({[op |-> "create", vol |-> v] : v \in Shared}) = <<>>
<1> DEFINE S == {[op |-> "create", vol |-> v] : v \in Shared}
<1>1. IsFiniteSet(Shared)
  BY InstanceConstants, FS_Subset DEF Shared
<1>2. IsFiniteSet(S)
  <2> DEFINE f == [v \in Shared |-> [op |-> "create", vol |-> v]]
  <2>1. f \in Surjection(Shared, S)
    BY DEF Surjection
  <2> QED
    BY <1>1, <2>1, FS_Surjection
<1>3. SetToSeq(S) \in Seq(S) /\ (S = {} => SetToSeq(S) = <<>>)
  BY <1>2, Listed
<1>4. S \subseteq StaJob /\ (Shared = {} => S = {})
  BY DEF StaJob
<1>5. SetToSeq(S) \in Seq(StaJob)
  BY <1>3, <1>4, SeqWider
<1> QED
  BY <1>3, <1>4, <1>5

QueuesOK == /\ q \in [{"hva", "ls", "sta"} -> Seq(Jobs)]
            /\ q["hva"] \in Seq(HvaJob) /\ q["ls"] \in Seq(LsJob) /\ q["sta"] \in Seq(StaJob)
WorkersOK == /\ w \in [Worker -> Work]
             /\ w["hva"] = Idle \/ HvaDoing(w["hva"])
             /\ \A x \in LsThread : w[x] = Idle \/ LsDoing(w[x])
             /\ w["sta"] = Idle \/ StaDoing(w["sta"])
RestOK ==
    /\ inst \in InstRow /\ vol \in [Vol -> VolRow] /\ sched \in {"none", "instance", "start"}
    /\ mon \in [pc : {"idle", "check", "recover"}, seen : InstState]
    /\ dom \in {"off", "on", "asked"} /\ disk \subseteq Vol /\ mapped \subseteq Shared
    /\ faults \in 0 .. MaxFaults /\ asked \subseteq Requests /\ requests \in 0 .. MaxRequests
    /\ leaky \in BOOLEAN /\ (leaky => faults > 0)
LEMMA ShapeParts == Shape <=> QueuesOK /\ WorkersOK /\ RestOK
BY DEF Shape, TypeOK, QueuesOK, WorkersOK, RestOK
LEMMA ShapeNext == ASSUME QueuesOK', WorkersOK', RestOK' PROVE Shape'
BY DEF Shape, TypeOK, QueuesOK, WorkersOK, RestOK

LEMMA JobTypes == HvaJob \subseteq Jobs /\ LsJob \subseteq Jobs /\ StaJob \subseteq Jobs
BY InstanceConstants DEF HvaJob, LsJob, StaJob, Jobs, HvaOps, Op, Shared

LEMMA QueueMake ==
  ASSUME NEW a \in Seq(HvaJob), NEW b \in Seq(LsJob), NEW c \in Seq(StaJob),
         q' = [q EXCEPT !["hva"] = a, !["ls"] = b, !["sta"] = c], QueuesOK
  PROVE  QueuesOK'
<1>1. a \in Seq(Jobs) /\ b \in Seq(Jobs) /\ c \in Seq(Jobs)
  BY JobTypes
<1> QED
  BY <1>1 DEF QueuesOK

LEMMA QueueSame == ASSUME QueuesOK, UNCHANGED q PROVE QueuesOK'
BY DEF QueuesOK

LEMMA QueuePull ==
  ASSUME QueuesOK, NEW c \in {"hva", "ls", "sta"}, NEW o, Pulled(c, o)
  PROVE  QueuesOK'
<1>1. q[c] # <<>> /\ q' = [q EXCEPT ![c] = Tail(q[c])]
  BY DEF Pulled
<1>2. CASE c = "hva"
  <2>1. Tail(q["hva"]) \in Seq(HvaJob)
    BY <1>1, <1>2 DEF QueuesOK
  <2>2. q' = [q EXCEPT !["hva"] = Tail(q["hva"]), !["ls"] = q["ls"], !["sta"] = q["sta"]]
    BY <1>1, <1>2 DEF QueuesOK
  <2> QED
    BY <2>1, <2>2, QueueMake DEF QueuesOK
<1>3. CASE c = "ls"
  <2>1. Tail(q["ls"]) \in Seq(LsJob)
    BY <1>1, <1>3 DEF QueuesOK
  <2>2. q' = [q EXCEPT !["hva"] = q["hva"], !["ls"] = Tail(q["ls"]), !["sta"] = q["sta"]]
    BY <1>1, <1>3 DEF QueuesOK
  <2> QED
    BY <2>1, <2>2, QueueMake DEF QueuesOK
<1>4. CASE c = "sta"
  <2>1. Tail(q["sta"]) \in Seq(StaJob)
    BY <1>1, <1>4 DEF QueuesOK
  <2>2. q' = [q EXCEPT !["hva"] = q["hva"], !["ls"] = q["ls"], !["sta"] = Tail(q["sta"])]
    BY <1>1, <1>4 DEF QueuesOK
  <2> QED
    BY <2>1, <2>2, QueueMake DEF QueuesOK
<1> QED
  BY <1>2, <1>3, <1>4

LEMMA QueueHva ==
  ASSUME QueuesOK, NEW o \in HvaOps, submit("hva", o, NoVol)
  PROVE  QueuesOK'
<1>1. [op |-> o, vol |-> NoVol] \in HvaJob
  BY DEF HvaJob
<1>2. Append(q["hva"], [op |-> o, vol |-> NoVol]) \in Seq(HvaJob)
  BY <1>1 DEF QueuesOK
<1>3. q' = [q EXCEPT !["hva"] = Append(q["hva"], [op |-> o, vol |-> NoVol]), !["ls"] = q["ls"], !["sta"] = q["sta"]]
  BY DEF submit, QueuesOK
<1> QED
  BY <1>2, <1>3, QueueMake DEF QueuesOK

LEMMA QueueDeploy ==
  ASSUME QueuesOK, submit("ls", "deploy", NoVol)
  PROVE  QueuesOK'
<1>1. [op |-> "deploy", vol |-> NoVol] \in LsJob
  BY DEF LsJob
<1>2. Append(q["ls"], [op |-> "deploy", vol |-> NoVol]) \in Seq(LsJob)
  BY <1>1 DEF QueuesOK
<1>3. q' = [q EXCEPT !["hva"] = q["hva"], !["ls"] = Append(q["ls"], [op |-> "deploy", vol |-> NoVol]), !["sta"] = q["sta"]]
  BY DEF submit, QueuesOK
<1> QED
  BY <1>2, <1>3, QueueMake DEF QueuesOK

LEMMA QueueFinalize ==
  ASSUME QueuesOK, finalize_instance
  PROVE  QueuesOK'
<1>1. doomed \cap Local \in SUBSET Vol /\ doomed \cap Shared \in SUBSET Vol
  BY DEF doomed, mine
<1>2. /\ delete_jobs(doomed \cap Local) \in Seq([op : {"delete"}, vol : doomed \cap Local])
      /\ delete_jobs(doomed \cap Shared) \in Seq([op : {"delete"}, vol : doomed \cap Shared])
  BY <1>1, DeleteJobs
<1>3. [op : {"delete"}, vol : doomed \cap Local] \subseteq LsJob /\ [op : {"delete"}, vol : doomed \cap Shared] \subseteq StaJob
  BY DEF LsJob, StaJob
<1>4. delete_jobs(doomed \cap Local) \in Seq(LsJob) /\ delete_jobs(doomed \cap Shared) \in Seq(StaJob)
  BY <1>2, <1>3, SeqWider
<1>5. /\ q["ls"] \o delete_jobs(doomed \cap Local) \in Seq(LsJob)
      /\ q["sta"] \o delete_jobs(doomed \cap Shared) \in Seq(StaJob)
  BY <1>4 DEF QueuesOK
<1>6. q' = [q EXCEPT !["hva"] = q["hva"], !["ls"] = q["ls"] \o delete_jobs(doomed \cap Local),
                     !["sta"] = q["sta"] \o delete_jobs(doomed \cap Shared)]
  BY DEF finalize_instance, QueuesOK
<1> QED
  BY <1>5, <1>6, QueueMake DEF QueuesOK

(***************************************************************************)
(* Types                                                                   *)
(***************************************************************************)
LEMMA SetsRest ==
  ASSUME RestOK, NEW s \in InstState, Sets(s)
  PROVE  RestOK'
BY DEF Sets, RestOK, InstRow

LEMMA Updated ==
  ASSUME NEW row \in VolRow, NEW s \in VolState, NEW on \in BOOLEAN
  PROVE  /\ updated(row, s, on) \in VolRow
         /\ updated(row, s, on).state = s /\ updated(row, s, on).on = on
         /\ updated(row, s, on).dead = (row.dead \/ s = "deleted")
BY DEF updated, VolRow

LEMMA MarksRest ==
  ASSUME RestOK, NEW v, NEW s \in VolState, Marks(v, s)
  PROVE  RestOK'
<1>1. v \in Vol => vol[v] \in VolRow /\ vol[v].on \in BOOLEAN
  BY DEF RestOK, VolRow
<1>2. v \in Vol => updated(vol[v], s, vol[v].on) \in VolRow
  BY <1>1, Updated
<1>3. vol' \in [Vol -> VolRow]
  BY <1>2 DEF Marks, RestOK
<1> QED
  BY <1>3 DEF Marks, RestOK

LEMMA ReleaseRest ==
  ASSUME RestOK, NEW v \in Vol, vol' = [vol EXCEPT ![v] = updated(vol[v], "deleted", FALSE)],
         UNCHANGED <<inst, q, sched, mon, asked, requests, dom, disk, mapped, faults, leaky>>
  PROVE  RestOK'
<1>1. vol[v] \in VolRow /\ "deleted" \in VolState
  BY DEF RestOK, VolState
<1>2. updated(vol[v], "deleted", FALSE) \in VolRow
  BY <1>1, Updated
<1>3. vol' \in [Vol -> VolRow]
  BY <1>2 DEF RestOK
<1> QED
  BY <1>3 DEF RestOK

LEMMA DoesRest ==
  ASSUME RestOK, NEW d \in {"off", "on", "asked"}, NEW ds \in SUBSET Vol, NEW ms \in SUBSET Shared,
         Does(d, ds, ms), \/ Well
                          \/ faults < MaxFaults /\ faults' = faults + 1 /\ (leaky' = leaky \/ leaky' = TRUE)
  PROVE  RestOK'
<1>0. MaxFaults \in Nat
  BY InstanceConstants
<1>1. faults' \in 0 .. MaxFaults /\ leaky' \in BOOLEAN /\ (leaky' => faults' > 0)
  <2>1. CASE Well
    BY <2>1 DEF RestOK, Well
  <2>2. CASE faults < MaxFaults /\ faults' = faults + 1 /\ (leaky' = leaky \/ leaky' = TRUE)
    <3>1. faults' \in 0 .. MaxFaults /\ faults' > 0
      BY <1>0, <2>2 DEF RestOK
    <3>2. leaky' \in BOOLEAN
      BY <2>2 DEF RestOK
    <3> QED
      BY <3>1, <3>2
  <2> QED
    BY <2>1, <2>2
<1> QED
  BY <1>1 DEF RestOK, Does

LEMMA FailsRest == ASSUME RestOK, Fails PROVE RestOK'
<1>1. dom \in {"off", "on", "asked"} /\ disk \in SUBSET Vol /\ mapped \in SUBSET Shared
  BY DEF RestOK
<1>2. /\ Does(dom, disk, mapped)
      /\ faults < MaxFaults /\ faults' = faults + 1 /\ (leaky' = leaky \/ leaky' = TRUE)
  BY DEF Fails
<1> QED
  BY <1>1, <1>2, DoesRest

LEMMA FinalizeRest == ASSUME RestOK, finalize_instance, Apart PROVE RestOK'
<1>1. \A v \in Vol : finalize_volume(v) \in VolRow
  <2> TAKE v \in Vol
  <2>1. vol[v] \in VolRow /\ {"deleting", "attached"} \subseteq VolState
    BY DEF RestOK, VolState
  <2>2. updated(vol[v], "deleting", TRUE) \in VolRow /\ updated(vol[v], "attached", FALSE) \in VolRow
    BY <2>1, Updated
  <2> QED
    BY <2>1, <2>2 DEF finalize_volume
<1>2. vol' \in [Vol -> VolRow]
  BY <1>1 DEF finalize_instance
<1>3. inst' \in InstRow
  BY DEF finalize_instance, destroyed, RestOK, InstRow, InstState
<1> QED
  BY <1>2, <1>3 DEF Apart, RestOK

\* What a worker's RPC does to everything but the workers.
LEMMA RpcOK ==
  ASSUME Shape, NEW x \in Worker, S_rpc(x)
  PROVE  QueuesOK' /\ RestOK'
<1>0. QueuesOK /\ WorkersOK /\ RestOK
  BY ShapeParts
<1>a. {"shuttingdown", "stopping", "starting", "running", "halted", "initializing"} \subseteq InstState
  BY DEF InstState
<1>b. {"attaching", "attached", "deleting", "deleted", "available", "creating"} \subseteq VolState
  BY DEF VolState
<1>1. ASSUME NEW s \in InstState, Sets(s) PROVE QueuesOK' /\ RestOK'
  BY <1>0, <1>1, SetsRest, QueueSame DEF Sets
<1>2. ASSUME NEW v, NEW s \in VolState, Marks(v, s) PROVE QueuesOK' /\ RestOK'
  BY <1>0, <1>2, MarksRest, QueueSame DEF Marks
<1>3. CASE S_shut(x) \/ S_starting(x) \/ S_running(x) \/ S_halted(x) \/ S_initializing(x)
  BY <1>1, <1>3, <1>a DEF S_shut, S_starting, S_running, S_halted, S_initializing
<1>4. CASE S_attaching(x) \/ S_attached(x) \/ S_delete_local(x) \/ S_deleted_local(x)
  BY <1>2, <1>4, <1>b DEF S_attaching, S_attached, S_delete_local, S_deleted_local
<1>5. CASE S_available(x) \/ S_undeployed(x) \/ S_creating(x) \/ S_lost(x) \/ S_deleting(x) \/ S_deleted(x)
  BY <1>2, <1>5, <1>b DEF S_available, S_undeployed, S_creating, S_lost, S_deleting, S_deleted
<1>6. CASE S_stopped(x)
  <2>1. inst' \in InstRow
    BY <1>0, <1>6 DEF S_stopped, RestOK, InstRow, InstState
  <2> QED
    BY <1>0, <1>6, <2>1, QueueSame DEF S_stopped, RestOK
<1>7. CASE S_release(x)
  BY <1>0, <1>7, ReleaseRest, QueueSame, WorkIs DEF S_release
<1>8. CASE S_finalize(x)
  <2>1. CASE inst.host \/ w[x].op = "wait"
    BY <1>0, <1>8, <2>1, FinalizeRest, QueueFinalize DEF S_finalize
  <2>2. CASE ~(inst.host \/ w[x].op = "wait")
    BY <1>0, <1>8, <2>2, QueueSame DEF S_finalize, Apart, RestOK
  <2> QED
    BY <2>1, <2>2
<1>9. CASE S_abandon(x)
  BY <1>0, <1>9, FinalizeRest, QueueFinalize DEF S_abandon
<1>10. CASE S_submit(x)
  <2>1. w[x].op \in {"create", "deploy", "wait"} /\ (w[x].op \in {"create", "wait"} => Shared # {})
    BY <1>0, <1>10, InstanceConstants DEF S_submit, At, WorkersOK, HvaDoing, LsDoing, StaDoing, Idle, Worker, HvaOps
  <2>2. next_job(w[x].op) \in HvaOps
    BY <2>1 DEF next_job, HvaOps
  <2>3. QueuesOK'
    BY <1>0, <1>10, <2>2, QueueHva DEF S_submit
  <2> QED
    BY <1>0, <1>10, <2>3 DEF S_submit, Apart, RestOK
<1> QED
  BY <1>3, <1>4, <1>5, <1>6, <1>7, <1>8, <1>9, <1>10 DEF S_rpc

\* What a driver call does to everything but the workers.
LEMMA DriverOK ==
  ASSUME Shape, NEW x \in Worker, S_driver(x) \/ S_raise(x)
  PROVE  QueuesOK' /\ RestOK'
<1>0. QueuesOK /\ WorkersOK /\ RestOK
  BY ShapeParts
<1>1. UNCHANGED q
  BY DEF S_driver, S_raise, D_prepare, D_map, D_run, D_off, D_soft, D_reboot, D_deploy, D_create, D_domain,
         D_detach, D_disk, D_undeploy, D_delete, Does, Fails
<1>2. QueuesOK'
  BY <1>0, <1>1, QueueSame
<1>a. /\ dom \in {"off", "on", "asked"} /\ disk \in SUBSET Vol /\ mapped \in SUBSET Shared
      /\ \A v : disk \ {v} \in SUBSET Vol /\ mapped \ {v} \in SUBSET Shared
      /\ \A v \in Vol : disk \cup {v} \in SUBSET Vol
      /\ \A v \in Shared : mapped \cup {v} \in SUBSET Shared
      /\ Shared \subseteq Vol
  BY <1>0 DEF RestOK, Shared
<1>b. w[x].pc = "map" => w[x].vol \in Shared
  BY <1>0 DEF WorkersOK, HvaDoing, LsDoing, StaDoing, Idle, Worker
<1>c. w[x].pc = "create" => w[x].vol \in Shared
  BY <1>0 DEF WorkersOK, HvaDoing, LsDoing, StaDoing, Idle, Worker
<1>d. w[x].todo \in SUBSET Vol
  BY WorkIs
<1>e. ASSUME NEW d \in {"off", "on", "asked"}, NEW ds \in SUBSET Vol, NEW ms \in SUBSET Shared,
             Does(d, ds, ms), Well
      PROVE  RestOK'
  BY <1>0, <1>e, DoesRest
<1>3. CASE D_prepare(x) \/ D_run(x) \/ D_off(x) \/ D_soft(x) \/ D_reboot(x)
  BY <1>2, <1>3, <1>a, <1>e DEF D_prepare, D_run, D_off, D_soft, D_reboot
<1>4. CASE D_map(x) \/ D_create(x) \/ D_deploy(x)
  BY <1>2, <1>4, <1>a, <1>b, <1>c, <1>d, <1>e DEF D_map, D_create, D_deploy, At
<1>f. Fails => QueuesOK' /\ RestOK'
  BY <1>0, <1>2, FailsRest
<1>5. CASE D_domain(x) \/ D_detach(x) \/ D_undeploy(x) \/ D_delete(x)
  <2>1. CASE D_domain(x)
    BY <1>2, <2>1, <1>a, <1>e, <1>f DEF D_domain
  <2>2. CASE D_detach(x)
    BY <1>2, <2>2, <1>a, <1>e, <1>f DEF D_detach
  <2>3. CASE D_undeploy(x)
    BY <1>2, <2>3, <1>a, <1>e, <1>f DEF D_undeploy
  <2>4. CASE D_delete(x)
    BY <1>2, <2>4, <1>a, <1>e, <1>f DEF D_delete
  <2> QED
    BY <1>5, <2>1, <2>2, <2>3, <2>4
<1>6. CASE D_disk(x)
  BY <1>0, <1>2, <1>6, <1>a, <1>e, FailsRest DEF D_disk
<1>7. CASE S_raise(x)
  <2>1. PICK d \in {"off", "on", "asked"}, ds \in SUBSET Vol, ms \in SUBSET Shared : Does(d, ds, ms)
    BY <1>7, <1>a, <1>b, <1>c, <1>d DEF S_raise, At
  <2>2. \/ Well
        \/ faults < MaxFaults /\ faults' = faults + 1 /\ (leaky' = leaky \/ leaky' = TRUE)
    BY <1>7 DEF S_raise
  <2>3. CASE Well
    BY <1>2, <1>e, <2>1, <2>3
  <2>4. CASE faults < MaxFaults /\ faults' = faults + 1 /\ (leaky' = leaky \/ leaky' = TRUE)
    BY <1>0, <1>2, <2>1, <2>4, DoesRest
  <2> QED
    BY <2>2, <2>3, <2>4
<1>8. RestOK'
  BY <1>3, <1>4, <1>5, <1>6, <1>7 DEF S_driver
<1> QED
  BY <1>2, <1>8

LEMMA HvaKeeps ==
  ASSUME Shape, w' \in [Worker -> Work], \A y \in Worker : y # "hva" => w'[y] = w[y],
         w'["hva"] = Idle \/ HvaDoing(w'["hva"])
  PROVE  WorkersOK'
BY Basics DEF Shape, WorkersOK
LEMMA LsKeeps ==
  ASSUME Shape, NEW x \in LsThread, w' \in [Worker -> Work], \A y \in Worker : y # x => w'[y] = w[y],
         w'[x] = Idle \/ LsDoing(w'[x])
  PROVE  WorkersOK'
BY Basics DEF Shape, WorkersOK
LEMMA StaKeeps ==
  ASSUME Shape, w' \in [Worker -> Work], \A y \in Worker : y # "sta" => w'[y] = w[y],
         w'["sta"] = Idle \/ StaDoing(w'["sta"])
  PROVE  WorkersOK'
BY Basics DEF Shape, WorkersOK

\* The steps of the HVA worker; the others are not its jobs'.
HvaRpc == LET x == "hva" IN
    \/ S_shut(x) \/ S_starting(x) \/ S_running(x) \/ S_halted(x) \/ S_stopped(x)
    \/ S_attaching(x) \/ S_attached(x) \/ S_delete_local(x) \/ S_deleted_local(x) \/ S_release(x)
    \/ S_finalize(x) \/ S_submit(x)
HvaDriver == LET x == "hva" IN
    \/ D_prepare(x) \/ D_map(x) \/ D_run(x) \/ D_off(x) \/ D_soft(x) \/ D_reboot(x)
    \/ D_domain(x) \/ D_detach(x) \/ D_disk(x)
LsRpc(x) ==
    \/ S_initializing(x) \/ S_abandon(x) \/ S_release(x) \/ S_available(x) \/ S_undeployed(x)
    \/ S_deleted(x) \/ S_submit(x)
LsDriver(x) == D_deploy(x) \/ D_undeploy(x) \/ D_delete(x)
StaRpc == LET x == "sta" IN
    \/ S_abandon(x) \/ S_available(x) \/ S_creating(x) \/ S_lost(x) \/ S_deleting(x) \/ S_deleted(x) \/ S_submit(x)
StaDriver == D_create("sta") \/ D_delete("sta")

LEMMA HvaIs ==
  ASSUME Shape, work("hva")
  PROVE  HvaTakes \/ HvaRpc \/ HvaDriver \/ S_raise("hva")
<1>1. w["hva"] = Idle \/ HvaDoing(w["hva"])
  BY DEF Shape
<1>p. w["hva"].pc \in {"idle", "submit", "finalize", "prepare", "attaching", "map", "run", "running", "attached", "t_domain", "t_vol", "t_disk", "t_deleted", "shuttingdown", "stopping", "stopped", "v_deleted", "poweroff", "halted", "soft_poweroff", "starting", "poweron", "reboot"}
  BY <1>1 DEF HvaDoing, Idle
<1>2. /\ ~S_initializing("hva") /\ ~S_abandon("hva") /\ ~S_available("hva") /\ ~S_undeployed("hva") /\ ~S_creating("hva")
      /\ ~S_lost("hva") /\ ~S_deleting("hva") /\ ~S_deleted("hva")
  <2>1. ~S_initializing("hva")
    BY <1>p DEF S_initializing, At
  <2>2. ~S_abandon("hva")
    BY <1>p DEF S_abandon, At
  <2>3. ~S_available("hva")
    BY <1>p DEF S_available, At
  <2>4. ~S_undeployed("hva")
    BY <1>p DEF S_undeployed, At
  <2>5. ~S_creating("hva")
    BY <1>p DEF S_creating, At
  <2>6. ~S_lost("hva")
    BY <1>p DEF S_lost, At
  <2>7. ~S_deleting("hva")
    BY <1>p DEF S_deleting, At
  <2>8. ~S_deleted("hva")
    BY <1>p DEF S_deleted, At
  <2> QED
    BY <2>1, <2>2, <2>3, <2>4, <2>5, <2>6, <2>7, <2>8
<1>3. /\ ~D_deploy("hva") /\ ~D_create("hva") /\ ~D_undeploy("hva") /\ ~D_delete("hva")
  <2>1. ~D_deploy("hva")
    BY <1>p DEF D_deploy, At
  <2>2. ~D_create("hva")
    BY <1>p DEF D_create, At
  <2>3. ~D_undeploy("hva")
    BY <1>p DEF D_undeploy, At
  <2>4. ~D_delete("hva")
    BY <1>p DEF D_delete, At
  <2> QED
    BY <2>1, <2>2, <2>3, <2>4
<1>4. S_rpc("hva") => HvaRpc
  BY <1>2 DEF S_rpc, HvaRpc
<1>5. S_driver("hva") => HvaDriver
  BY <1>3 DEF S_driver, HvaDriver
<1> QED
  BY <1>4, <1>5, Basics, HvaTake, RpcIs, DriverIs, RaiseIs DEF work

LEMMA LsIs ==
  ASSUME Shape, NEW x \in LsThread, work(x)
  PROVE  LsTakes(x) \/ LsRpc(x) \/ LsDriver(x) \/ S_raise(x)
<1>1. w[x] = Idle \/ LsDoing(w[x])
  BY DEF Shape
<1>p. w[x].pc \in {"idle", "initializing", "deploy", "available", "submit", "undeploy", "undeployed", "terminated", "v_deleted", "delete", "deleted"}
  BY <1>1 DEF LsDoing, Idle
<1>2. /\ ~S_shut(x) /\ ~S_starting(x) /\ ~S_running(x) /\ ~S_halted(x) /\ ~S_stopped(x)
      /\ ~S_attaching(x) /\ ~S_attached(x) /\ ~S_delete_local(x) /\ ~S_deleted_local(x) /\ ~S_finalize(x)
      /\ ~S_creating(x) /\ ~S_lost(x) /\ ~S_deleting(x)
  <2>1. ~S_shut(x)
    BY <1>p DEF S_shut, At
  <2>2. ~S_starting(x)
    BY <1>p DEF S_starting, At
  <2>3. ~S_running(x)
    BY <1>p DEF S_running, At
  <2>4. ~S_halted(x)
    BY <1>p DEF S_halted, At
  <2>5. ~S_stopped(x)
    BY <1>p DEF S_stopped, At
  <2>6. ~S_attaching(x)
    BY <1>p DEF S_attaching, At
  <2>7. ~S_attached(x)
    BY <1>p DEF S_attached, At
  <2>8. ~S_delete_local(x)
    BY <1>p DEF S_delete_local, At
  <2>9. ~S_deleted_local(x)
    BY <1>p DEF S_deleted_local, At
  <2>10. ~S_finalize(x)
    BY <1>p DEF S_finalize, At
  <2>11. ~S_creating(x)
    BY <1>p DEF S_creating, At
  <2>12. ~S_lost(x)
    BY <1>p DEF S_lost, At
  <2>13. ~S_deleting(x)
    BY <1>p DEF S_deleting, At
  <2> QED
    BY <2>1, <2>2, <2>3, <2>4, <2>5, <2>6, <2>7, <2>8, <2>9, <2>10, <2>11, <2>12, <2>13
<1>3. /\ ~D_prepare(x) /\ ~D_map(x) /\ ~D_run(x) /\ ~D_off(x) /\ ~D_soft(x)
      /\ ~D_reboot(x) /\ ~D_create(x) /\ ~D_domain(x) /\ ~D_detach(x) /\ ~D_disk(x)
  <2>1. ~D_prepare(x)
    BY <1>p DEF D_prepare, At
  <2>2. ~D_map(x)
    BY <1>p DEF D_map, At
  <2>3. ~D_run(x)
    BY <1>p DEF D_run, At
  <2>4. ~D_off(x)
    BY <1>p DEF D_off, At
  <2>5. ~D_soft(x)
    BY <1>p DEF D_soft, At
  <2>6. ~D_reboot(x)
    BY <1>p DEF D_reboot, At
  <2>7. ~D_create(x)
    BY <1>p DEF D_create, At
  <2>8. ~D_domain(x)
    BY <1>p DEF D_domain, At
  <2>9. ~D_detach(x)
    BY <1>p DEF D_detach, At
  <2>10. ~D_disk(x)
    BY <1>p DEF D_disk, At
  <2> QED
    BY <2>1, <2>2, <2>3, <2>4, <2>5, <2>6, <2>7, <2>8, <2>9, <2>10
<1>4. S_rpc(x) => LsRpc(x)
  BY <1>2 DEF S_rpc, LsRpc
<1>5. S_driver(x) => LsDriver(x)
  BY <1>3 DEF S_driver, LsDriver
<1> QED
  BY <1>4, <1>5, Basics, LsTake, RpcIs, DriverIs, RaiseIs DEF work

LEMMA StaIs ==
  ASSUME Shape, work("sta")
  PROVE  StaTakes \/ StaRpc \/ StaDriver \/ S_raise("sta")
<1> DEFINE x == "sta"
<1>1. w[x] = Idle \/ StaDoing(w[x])
  BY DEF Shape
<1>p. w[x].pc \in {"idle", "creating", "create", "available", "submit", "lost", "terminated", "deleting", "delete", "deleted"}
  BY <1>1 DEF StaDoing, Idle
<1>2. /\ ~S_shut(x) /\ ~S_starting(x) /\ ~S_running(x) /\ ~S_halted(x) /\ ~S_stopped(x)
      /\ ~S_attaching(x) /\ ~S_attached(x) /\ ~S_delete_local(x) /\ ~S_deleted_local(x) /\ ~S_finalize(x)
      /\ ~S_initializing(x) /\ ~S_release(x) /\ ~S_undeployed(x)
  <2>1. ~S_shut(x)
    BY <1>p DEF S_shut, At
  <2>2. ~S_starting(x)
    BY <1>p DEF S_starting, At
  <2>3. ~S_running(x)
    BY <1>p DEF S_running, At
  <2>4. ~S_halted(x)
    BY <1>p DEF S_halted, At
  <2>5. ~S_stopped(x)
    BY <1>p DEF S_stopped, At
  <2>6. ~S_attaching(x)
    BY <1>p DEF S_attaching, At
  <2>7. ~S_attached(x)
    BY <1>p DEF S_attached, At
  <2>8. ~S_delete_local(x)
    BY <1>p DEF S_delete_local, At
  <2>9. ~S_deleted_local(x)
    BY <1>p DEF S_deleted_local, At
  <2>10. ~S_finalize(x)
    BY <1>p DEF S_finalize, At
  <2>11. ~S_initializing(x)
    BY <1>p DEF S_initializing, At
  <2>12. ~S_release(x)
    BY <1>p DEF S_release, At
  <2>13. ~S_undeployed(x)
    BY <1>p DEF S_undeployed, At
  <2> QED
    BY <2>1, <2>2, <2>3, <2>4, <2>5, <2>6, <2>7, <2>8, <2>9, <2>10, <2>11, <2>12, <2>13
<1>3. /\ ~D_prepare(x) /\ ~D_map(x) /\ ~D_run(x) /\ ~D_off(x) /\ ~D_soft(x)
      /\ ~D_reboot(x) /\ ~D_deploy(x) /\ ~D_undeploy(x) /\ ~D_domain(x) /\ ~D_detach(x)
      /\ ~D_disk(x)
  <2>1. ~D_prepare(x)
    BY <1>p DEF D_prepare, At
  <2>2. ~D_map(x)
    BY <1>p DEF D_map, At
  <2>3. ~D_run(x)
    BY <1>p DEF D_run, At
  <2>4. ~D_off(x)
    BY <1>p DEF D_off, At
  <2>5. ~D_soft(x)
    BY <1>p DEF D_soft, At
  <2>6. ~D_reboot(x)
    BY <1>p DEF D_reboot, At
  <2>7. ~D_deploy(x)
    BY <1>p DEF D_deploy, At
  <2>8. ~D_undeploy(x)
    BY <1>p DEF D_undeploy, At
  <2>9. ~D_domain(x)
    BY <1>p DEF D_domain, At
  <2>10. ~D_detach(x)
    BY <1>p DEF D_detach, At
  <2>11. ~D_disk(x)
    BY <1>p DEF D_disk, At
  <2> QED
    BY <2>1, <2>2, <2>3, <2>4, <2>5, <2>6, <2>7, <2>8, <2>9, <2>10, <2>11
<1>4. S_rpc(x) => StaRpc
  BY <1>2 DEF S_rpc, StaRpc
<1>5. S_driver(x) => StaDriver
  BY <1>3 DEF S_driver, StaDriver
<1> QED
  BY <1>4, <1>5, Basics, StaTake, RpcIs, DriverIs, RaiseIs DEF work

LEMMA PulledOK ==
  ASSUME Shape, NEW c \in {"hva", "ls", "sta"}, NEW o, Pulled(c, o)
  PROVE  QueuesOK' /\ RestOK'
<1>1. QueuesOK /\ RestOK
  BY ShapeParts
<1>2. QueuesOK'
  BY <1>1, QueuePull
<1>3. RestOK'
  BY <1>1 DEF Pulled, RestOK
<1> QED
  BY <1>2, <1>3

LEMMA HvaShape == ASSUME Shape, work("hva") PROVE Shape'
<1> DEFINE x == "hva"
<1>0. x \in Worker /\ (w[x] = Idle \/ HvaDoing(w[x])) /\ w[x].todo \subseteq Vol
  BY Basics, WorkIs DEF Shape
<1>1. CASE HvaTakes
  <2>1. PICK o \in HvaOps : Pulled("hva", o)
    BY <1>1, Heads DEF HvaTakes, Pulled
  <2>2. /\ w' \in [Worker -> Work] /\ \A y \in Worker : y # x => w'[y] = w[y]
        /\ w'[x] = Idle \/ HvaDoing(w'[x])
    <3>1. \A p \in HvaOps : Pulled("hva", p) => p = o
      BY <2>1 DEF Pulled
    <3>2. CASE Pulled("hva", "wait") /\ \E pc \in {"idle", "submit", "finalize"} : Took("hva", "wait", pc, {})
      <4>1. "wait" \in HvaOps
        BY <3>2, Heads DEF Pulled
      <4> QED
        BY <3>2, <4>1 DEF Took, HvaDoing
    <3>3. CASE Pulled("hva", "run_local") /\ \E pc \in {"idle", "t_domain", "prepare"} : Took("hva", "run_local", pc, {})
      <4>1. "run_local" \in HvaOps
        BY <3>3, Heads DEF Pulled
      <4> QED
        BY <3>3, <4>1 DEF Took, HvaDoing
    <3>4. CASE Pulled("hva", "run_vol") /\ \E pc \in {"idle", "t_domain", "attaching", "prepare"}, todo \in SUBSET Vol : Took("hva", "run_vol", pc, todo)
      <4>1. "run_vol" \in HvaOps
        BY <3>4, Heads DEF Pulled
      <4> QED
        BY <3>4, <4>1 DEF Took, HvaDoing
    <3>5. CASE Pulled("hva", "terminate") /\ \E pc \in {"idle", "shuttingdown"} : Took("hva", "terminate", pc, {})
      <4>1. "terminate" \in HvaOps
        BY <3>5, Heads DEF Pulled
      <4> QED
        BY <3>5, <4>1 DEF Took, HvaDoing
    <3>6. CASE Pulled("hva", "force") /\ Took("hva", "force", "shuttingdown", {})
      <4>1. "force" \in HvaOps
        BY <3>6, Heads DEF Pulled
      <4> QED
        BY <3>6, <4>1 DEF Took, HvaDoing
    <3>7. CASE Pulled("hva", "stop") /\ \E pc \in {"idle", "stopping"} : Took("hva", "stop", pc, {})
      <4>1. "stop" \in HvaOps
        BY <3>7, Heads DEF Pulled
      <4> QED
        BY <3>7, <4>1 DEF Took, HvaDoing
    <3>8. CASE Pulled("hva", "poweroff") /\ Took("hva", "poweroff", "poweroff", {})
      <4>1. "poweroff" \in HvaOps
        BY <3>8, Heads DEF Pulled
      <4> QED
        BY <3>8, <4>1 DEF Took, HvaDoing
    <3>9. CASE Pulled("hva", "soft_poweroff") /\ Took("hva", "soft_poweroff", "soft_poweroff", {})
      <4>1. "soft_poweroff" \in HvaOps
        BY <3>9, Heads DEF Pulled
      <4> QED
        BY <3>9, <4>1 DEF Took, HvaDoing
    <3>10. CASE Pulled("hva", "poweron") /\ Took("hva", "poweron", "starting", {})
      <4>1. "poweron" \in HvaOps
        BY <3>10, Heads DEF Pulled
      <4> QED
        BY <3>10, <4>1 DEF Took, HvaDoing
    <3>11. CASE Pulled("hva", "reboot") /\ Took("hva", "reboot", "reboot", {})
      <4>1. "reboot" \in HvaOps
        BY <3>11, Heads DEF Pulled
      <4> QED
        BY <3>11, <4>1 DEF Took, HvaDoing
    <3> QED
      BY <1>1, <3>2, <3>3, <3>4, <3>5, <3>6, <3>7, <3>8, <3>9, <3>10, <3>11 DEF HvaTakes
  <2>3. WorkersOK'
    BY <2>2, HvaKeeps
  <2> QED
    BY <2>1, <2>3, PulledOK, ShapeNext
<1>2. CASE HvaRpc
  <2>1. /\ w' \in [Worker -> Work] /\ \A y \in Worker : y # x => w'[y] = w[y]
        /\ w'[x] = Idle \/ HvaDoing(w'[x])
    <3>1. CASE S_shut(x)
      BY <1>0, <3>1 DEF S_shut, At, Goes, Loop, To, HvaDoing, Idle, Gone, Shared
    <3>2. CASE S_starting(x)
      BY <1>0, <3>2 DEF S_starting, At, Goes, Loop, To, HvaDoing, Idle, Gone, Shared
    <3>3. CASE S_running(x)
      BY <1>0, <3>3 DEF S_running, At, Goes, Loop, To, HvaDoing, Idle, Gone, Shared
    <3>4. CASE S_halted(x)
      BY <1>0, <3>4 DEF S_halted, At, Goes, Loop, To, HvaDoing, Idle, Gone, Shared
    <3>5. CASE S_stopped(x)
      BY <1>0, <3>5 DEF S_stopped, At, Goes, Loop, To, HvaDoing, Idle, Gone, Shared
    <3>6. CASE S_attaching(x)
      BY <1>0, <3>6 DEF S_attaching, At, Goes, Loop, To, HvaDoing, Idle, Gone, Shared
    <3>7. CASE S_attached(x)
      BY <1>0, <3>7 DEF S_attached, At, Goes, Loop, To, HvaDoing, Idle, Gone, Shared
    <3>8. CASE S_delete_local(x)
      BY <1>0, <3>8 DEF S_delete_local, At, Goes, Loop, To, HvaDoing, Idle, Gone, Shared
    <3>9. CASE S_deleted_local(x)
      BY <1>0, <3>9 DEF S_deleted_local, At, Goes, Loop, To, HvaDoing, Idle, Gone, Shared
    <3>10. CASE S_release(x)
      BY <1>0, <3>10 DEF S_release, At, Goes, Loop, To, HvaDoing, Idle, Gone, Shared
    <3>11. CASE S_finalize(x)
      BY <1>0, <3>11 DEF S_finalize, At, Goes, Loop, To, HvaDoing, Idle, Gone, Shared
    <3>12. CASE S_submit(x)
      BY <1>0, <3>12 DEF S_submit, At, Goes, Loop, To, HvaDoing, Idle, Gone, Shared
    <3> QED
      BY <1>2, <3>1, <3>2, <3>3, <3>4, <3>5, <3>6, <3>7, <3>8, <3>9, <3>10, <3>11, <3>12 DEF HvaRpc
  <2>2. WorkersOK'
    BY <2>1, HvaKeeps
  <2>3. QueuesOK' /\ RestOK'
    BY <1>0, <1>2, RpcOK DEF HvaRpc, S_rpc
  <2> QED
    BY <2>2, <2>3, ShapeNext
<1>3. CASE HvaDriver
  <2>1. /\ w' \in [Worker -> Work] /\ \A y \in Worker : y # x => w'[y] = w[y]
        /\ w'[x] = Idle \/ HvaDoing(w'[x])
    <3>1. CASE D_prepare(x)
      BY <1>0, <3>1 DEF D_prepare, At, Goes, Loop, To, HvaDoing, Idle, Gone
    <3>2. CASE D_map(x)
      BY <1>0, <3>2 DEF D_map, At, Goes, Loop, To, HvaDoing, Idle, Gone
    <3>3. CASE D_run(x)
      BY <1>0, <3>3 DEF D_run, At, Goes, Loop, To, HvaDoing, Idle, Gone
    <3>4. CASE D_off(x)
      BY <1>0, <3>4 DEF D_off, At, Goes, Loop, To, HvaDoing, Idle, Gone
    <3>5. CASE D_soft(x)
      BY <1>0, <3>5 DEF D_soft, At, Goes, Loop, To, HvaDoing, Idle, Gone
    <3>6. CASE D_reboot(x)
      BY <1>0, <3>6 DEF D_reboot, At, Goes, Loop, To, HvaDoing, Idle, Gone
    <3>7. CASE D_domain(x)
      BY <1>0, <3>7 DEF D_domain, At, Goes, Loop, To, HvaDoing, Idle, Gone
    <3>8. CASE D_detach(x)
      BY <1>0, <3>8 DEF D_detach, At, Goes, Loop, To, HvaDoing, Idle, Gone
    <3>9. CASE D_disk(x)
      BY <1>0, <3>9 DEF D_disk, At, Goes, Loop, To, HvaDoing, Idle, Gone
    <3> QED
      BY <1>3, <3>1, <3>2, <3>3, <3>4, <3>5, <3>6, <3>7, <3>8, <3>9 DEF HvaDriver
  <2>2. WorkersOK'
    BY <2>1, HvaKeeps
  <2>3. QueuesOK' /\ RestOK'
    BY <1>0, <1>3, DriverOK DEF HvaDriver, S_driver
  <2> QED
    BY <2>2, <2>3, ShapeNext
<1>4. CASE S_raise(x)
  <2>1. /\ w' \in [Worker -> Work] /\ \A y \in Worker : y # x => w'[y] = w[y]
        /\ w'[x] = Idle \/ HvaDoing(w'[x])
    BY <1>0, <1>4 DEF S_raise, Goes, Loop, To, HvaDoing, Idle
  <2>2. WorkersOK'
    BY <2>1, HvaKeeps
  <2>3. QueuesOK' /\ RestOK'
    BY <1>0, <1>4, DriverOK
  <2> QED
    BY <2>2, <2>3, ShapeNext
<1> QED
  BY <1>1, <1>2, <1>3, <1>4, HvaIs

LEMMA LsShape == ASSUME Shape, NEW x \in LsThread, work(x) PROVE Shape'
<1>0. x \in Worker /\ (w[x] = Idle \/ LsDoing(w[x])) /\ w[x].todo \subseteq Vol /\ w[x].vols \subseteq Vol
  BY Basics, WorkIs DEF Shape
<1>1. CASE LsTakes(x)
  <2>1. CASE Pulled("ls", "deploy") /\ \E pc \in {"initializing", "terminated", "undeploy"}, todo \in SUBSET Vol : Took(x, "deploy", pc, todo)
    <3>1. WorkersOK'
      BY <2>1, LsKeeps DEF Took, LsDoing
    <3> QED
      BY <2>1, <3>1, PulledOK, ShapeNext
  <2>2. CASE Pulled("ls", "delete") /\ Took(x, "delete", "delete", {})
    <3>1. Head(q["ls"]).vol \in Local
      BY <2>2, Heads DEF Pulled
    <3>2. WorkersOK'
      BY <2>2, <3>1, LsKeeps, Basics DEF Took, LsDoing
    <3> QED
      BY <2>2, <3>2, PulledOK, ShapeNext
  <2> QED
    BY <1>1, <2>1, <2>2 DEF LsTakes, mine
<1>2. CASE LsRpc(x)
  <2>1. /\ w' \in [Worker -> Work] /\ \A y \in Worker : y # x => w'[y] = w[y]
        /\ w'[x] = Idle \/ LsDoing(w'[x])
    <3>1. CASE S_initializing(x)
      BY <1>0, <3>1 DEF S_initializing, At, Goes, Loop, To, LsDoing, Idle
    <3>2. CASE S_abandon(x)
      BY <1>0, <3>2 DEF S_abandon, At, Goes, Loop, To, LsDoing, Idle
    <3>3. CASE S_release(x)
      BY <1>0, <3>3 DEF S_release, At, Goes, Loop, To, LsDoing, Idle
    <3>4. CASE S_available(x)
      BY <1>0, <3>4 DEF S_available, At, Goes, Loop, To, LsDoing, Idle
    <3>5. CASE S_undeployed(x)
      BY <1>0, <3>5 DEF S_undeployed, At, Goes, Loop, To, LsDoing, Idle
    <3>6. CASE S_deleted(x)
      BY <1>0, <3>6 DEF S_deleted, At, Goes, Loop, To, LsDoing, Idle
    <3>7. CASE S_submit(x)
      BY <1>0, <3>7 DEF S_submit, At, Goes, Loop, To, LsDoing, Idle
    <3> QED
      BY <1>2, <3>1, <3>2, <3>3, <3>4, <3>5, <3>6, <3>7 DEF LsRpc
  <2>2. WorkersOK'
    BY <2>1, LsKeeps
  <2>3. QueuesOK' /\ RestOK'
    BY <1>0, <1>2, RpcOK DEF LsRpc, S_rpc
  <2> QED
    BY <2>2, <2>3, ShapeNext
<1>3. CASE LsDriver(x)
  <2>1. /\ w' \in [Worker -> Work] /\ \A y \in Worker : y # x => w'[y] = w[y]
        /\ w'[x] = Idle \/ LsDoing(w'[x])
    <3>1. CASE D_deploy(x)
      BY <1>0, <3>1 DEF D_deploy, At, Goes, Loop, To, LsDoing, Idle
    <3>2. CASE D_undeploy(x)
      BY <1>0, <3>2 DEF D_undeploy, At, Goes, Loop, To, LsDoing, Idle
    <3>3. CASE D_delete(x)
      BY <1>0, <3>3 DEF D_delete, At, Goes, Loop, To, LsDoing, Idle
    <3> QED
      BY <1>3, <3>1, <3>2, <3>3 DEF LsDriver
  <2>2. WorkersOK'
    BY <2>1, LsKeeps
  <2>3. QueuesOK' /\ RestOK'
    BY <1>0, <1>3, DriverOK DEF LsDriver, S_driver
  <2> QED
    BY <2>2, <2>3, ShapeNext
<1>4. CASE S_raise(x)
  <2>1. /\ w' \in [Worker -> Work] /\ \A y \in Worker : y # x => w'[y] = w[y]
        /\ w'[x] = Idle \/ LsDoing(w'[x])
    BY <1>0, <1>4 DEF S_raise, Goes, Loop, To, LsDoing, Idle
  <2>2. WorkersOK'
    BY <2>1, LsKeeps
  <2>3. QueuesOK' /\ RestOK'
    BY <1>0, <1>4, DriverOK
  <2> QED
    BY <2>2, <2>3, ShapeNext
<1> QED
  BY <1>1, <1>2, <1>3, <1>4, LsIs

LEMMA StaShape == ASSUME Shape, work("sta") PROVE Shape'
<1> DEFINE x == "sta"
<1>0. x \in Worker /\ (w[x] = Idle \/ StaDoing(w[x]))
  BY Basics DEF Shape
<1>1. CASE StaTakes
  <2>1. q["sta"] # <<>> /\ \E o \in {"create", "delete"} : Pulled("sta", o)
    BY <1>1 DEF StaTakes, Pulled
  <2>2. Head(q["sta"]).vol \in Shared
    BY <2>1, Heads
  <2>3. WorkersOK'
    BY <1>1, <2>2, StaKeeps, Basics DEF StaTakes, Took, StaDoing
  <2> QED
    BY <2>1, <2>3, PulledOK, ShapeNext
<1>2. CASE StaRpc
  <2>1. /\ w' \in [Worker -> Work] /\ \A y \in Worker : y # x => w'[y] = w[y]
        /\ w'[x] = Idle \/ StaDoing(w'[x])
    <3>1. CASE S_abandon(x)
      BY <1>0, <3>1 DEF S_abandon, At, Goes, Loop, To, StaDoing, Idle
    <3>2. CASE S_available(x)
      BY <1>0, <3>2 DEF S_available, At, Goes, Loop, To, StaDoing, Idle
    <3>3. CASE S_creating(x)
      BY <1>0, <3>3 DEF S_creating, At, Goes, Loop, To, StaDoing, Idle
    <3>4. CASE S_lost(x)
      BY <1>0, <3>4 DEF S_lost, At, Goes, Loop, To, StaDoing, Idle
    <3>5. CASE S_deleting(x)
      BY <1>0, <3>5 DEF S_deleting, At, Goes, Loop, To, StaDoing, Idle
    <3>6. CASE S_deleted(x)
      BY <1>0, <3>6 DEF S_deleted, At, Goes, Loop, To, StaDoing, Idle
    <3>7. CASE S_submit(x)
      BY <1>0, <3>7 DEF S_submit, At, Goes, Loop, To, StaDoing, Idle
    <3> QED
      BY <1>2, <3>1, <3>2, <3>3, <3>4, <3>5, <3>6, <3>7 DEF StaRpc
  <2>2. WorkersOK'
    BY <2>1, StaKeeps
  <2>3. QueuesOK' /\ RestOK'
    BY <1>0, <1>2, RpcOK DEF StaRpc, S_rpc
  <2> QED
    BY <2>2, <2>3, ShapeNext
<1>3. CASE StaDriver
  <2>1. /\ w' \in [Worker -> Work] /\ \A y \in Worker : y # x => w'[y] = w[y]
        /\ w'[x] = Idle \/ StaDoing(w'[x])
    <3>1. CASE D_create(x)
      BY <1>0, <3>1 DEF D_create, At, Goes, Loop, To, StaDoing, Idle
    <3>2. CASE D_delete(x)
      BY <1>0, <3>2 DEF D_delete, At, Goes, Loop, To, StaDoing, Idle
    <3> QED
      BY <1>3, <3>1, <3>2 DEF StaDriver
  <2>2. WorkersOK'
    BY <2>1, StaKeeps
  <2>3. QueuesOK' /\ RestOK'
    BY <1>0, <1>3, DriverOK DEF StaDriver, S_driver
  <2> QED
    BY <2>2, <2>3, ShapeNext
<1>4. CASE S_raise(x)
  <2>1. /\ w' \in [Worker -> Work] /\ \A y \in Worker : y # x => w'[y] = w[y]
        /\ w'[x] = Idle \/ StaDoing(w'[x])
    BY <1>0, <1>4 DEF S_raise, Goes, Loop, To, StaDoing, Idle
  <2>2. WorkersOK'
    BY <2>1, StaKeeps
  <2>3. QueuesOK' /\ RestOK'
    BY <1>0, <1>4, DriverOK
  <2> QED
    BY <2>2, <2>3, ShapeNext
<1> QED
  BY <1>1, <1>2, <1>3, <1>4, StaIs

LEMMA WorkersSame == ASSUME WorkersOK, UNCHANGED w PROVE WorkersOK'
BY DEF WorkersOK

LEMMA ToHost ==
  ASSUME QueuesOK, NEW o \in HvaOps, submit_to_host(o)
  PROVE  QueuesOK'
<1>1. CASE inst.host
  BY <1>1, QueueHva DEF submit_to_host
<1>2. CASE ~inst.host
  BY <1>2, QueueSame DEF submit_to_host
<1> QED
  BY <1>1, <1>2

LEMMA ApiShape ==
  ASSUME Shape, api_request
  PROVE  Shape'
<1>0. QueuesOK /\ WorkersOK /\ RestOK
  BY ShapeParts
<1>a. {"terminate", "reboot", "stop", "poweroff", "soft_poweroff", "poweron"} \subseteq HvaOps
  BY DEF HvaOps
<1>b. ASSUME NEW r, accept(r)
      PROVE  /\ WorkersOK' /\ asked' \subseteq Requests /\ requests' \in 0 .. MaxRequests
             /\ UNCHANGED <<w, mon, dom, disk, mapped, faults, leaky>>
  <2>1. UNCHANGED <<w, mon, dom, disk, mapped, faults, leaky>>
    BY <1>b DEF accept, real
  <2>2. asked' \subseteq Requests /\ requests' \in 0 .. MaxRequests
    BY <1>0, <1>b, InstanceConstants DEF accept, RestOK
  <2> QED
    BY <1>0, <2>1, <2>2, WorkersSame
<1>c. inst \in InstRow /\ {"scheduling", "halting", "starting", "terminated"} \subseteq InstState
  BY <1>0 DEF RestOK, InstState
<1>1. CASE delete
  <2>1. QueuesOK'
    BY <1>0, <1>1, <1>a, QueueSame, ToHost DEF delete
  <2>2. inst' \in InstRow
    BY <1>1, <1>c DEF delete, destroyed, InstRow
  <2> QED
    BY <1>0, <1>1, <1>b, <2>1, <2>2, ShapeNext DEF delete, RestOK
<1>2. ASSUME NEW r \in {"reboot", "stop"}, put_job(r) PROVE Shape'
  <2>1. QueuesOK'
    BY <1>0, <1>2, <1>a, ToHost DEF put_job
  <2> QED
    BY <1>0, <1>2, <1>b, <2>1, ShapeNext DEF put_job, RestOK
<1>3. CASE start
  <2>1. QueuesOK'
    BY <1>0, <1>3, QueueSame DEF start
  <2>2. inst' \in InstRow
    BY <1>3, <1>c DEF start, update_instance, InstRow
  <2> QED
    BY <1>0, <1>3, <1>b, <2>1, <2>2, ShapeNext DEF start, RestOK
<1>4. ASSUME NEW r \in {"poweroff", "soft_poweroff"}, poweroff(r) PROVE Shape'
  <2>1. QueuesOK'
    BY <1>0, <1>4, <1>a, ToHost DEF poweroff
  <2>2. inst' \in InstRow
    BY <1>4, <1>c DEF poweroff, update_instance, InstRow
  <2> QED
    BY <1>0, <1>4, <1>b, <2>1, <2>2, ShapeNext DEF poweroff, RestOK
<1>5. CASE poweron
  <2>1. QueuesOK'
    BY <1>0, <1>5, <1>a, ToHost DEF poweron
  <2>2. inst' \in InstRow
    BY <1>5, <1>c DEF poweron, update_instance, InstRow
  <2> QED
    BY <1>0, <1>5, <1>b, <2>1, <2>2, ShapeNext DEF poweron, RestOK
<1> QED
  BY <1>1, <1>2, <1>3, <1>4, <1>5 DEF api_request

\* A row of every volume is rewritten.
LEMMA VolsOK ==
  ASSUME RestOK, NEW s \in VolState, NEW k,
         \/ vol' = [v \in Vol |-> updated(vol[v], s, TRUE)]
         \/ vol' = [v \in Vol |-> IF k /\ v # Boot THEN vol[v] ELSE updated(vol[v], s, vol[v].on)]
  PROVE  vol' \in [Vol -> VolRow]
<1>1. \A v \in Vol : vol[v] \in VolRow /\ vol[v].on \in BOOLEAN
  BY DEF RestOK, VolRow
<1>2. \A v \in Vol : updated(vol[v], s, TRUE) \in VolRow /\ updated(vol[v], s, vol[v].on) \in VolRow
  BY <1>1, Updated
<1> QED
  BY <1>1, <1>2

LEMMA SchedShape ==
  ASSUME Shape, post \/ schedule_instance \/ schedule_start_instance \/ schedule_error
  PROVE  Shape'
<1>0. QueuesOK /\ WorkersOK /\ RestOK
  BY ShapeParts
<1>a. inst \in InstRow /\ {"scheduling", "pending", "terminated"} \subseteq InstState
      /\ {"scheduling", "pending", "deleted"} \subseteq VolState
  BY <1>0 DEF RestOK, InstState, VolState
<1>1. CASE post
  <2>1. inst' \in InstRow /\ vol' \in [Vol -> VolRow]
    BY <1>1, <1>a DEF post, InstRow, VolRow
  <2> QED
    BY <1>0, <1>1, <2>1, ShapeNext, QueueSame, WorkersSame DEF post, RestOK, real, api
<1>2. CASE schedule_instance
  <2>1. inst' \in InstRow
    BY <1>2, <1>a DEF schedule_instance, InstRow
  <2>2. vol' \in [Vol -> VolRow]
    <3>1. vol' = [v \in Vol |-> updated(vol[v], "pending", TRUE)]
      BY <1>2 DEF schedule_instance
    <3> QED
      BY <1>0, <1>a, <3>1, VolsOK
  <2>3. QueuesOK'
    <3> DEFINE t == SetToSeq({[op |-> "create", vol |-> v] : v \in Shared})
               a == IF Boot \in Local THEN Append(q["ls"], [op |-> "deploy", vol |-> NoVol]) ELSE q["ls"]
    <3>1. t \in Seq(StaJob)
      BY CreateJobs
    <3>2. [op |-> "deploy", vol |-> NoVol] \in LsJob
      BY DEF LsJob
    <3>3. a \in Seq(LsJob)
      BY <1>0, <3>2 DEF QueuesOK
    <3>4. q' = [q EXCEPT !["hva"] = q["hva"], !["ls"] = a, !["sta"] = q["sta"] \o t]
      BY <1>0, <1>2 DEF schedule_instance, QueuesOK
    <3>5. q["sta"] \o t \in Seq(StaJob)
      BY <1>0, <3>1 DEF QueuesOK
    <3> HIDE DEF a, t
    <3> QED
      BY <1>0, <3>3, <3>4, <3>5, QueueMake DEF QueuesOK
  <2> QED
    BY <1>0, <1>2, <2>1, <2>2, <2>3, ShapeNext, WorkersSame DEF schedule_instance, RestOK, real, api
<1>3. CASE schedule_start_instance
  <2>1. inst' \in InstRow
    BY <1>3, <1>a DEF schedule_start_instance, InstRow
  <2>2. QueuesOK'
    <3>1. CASE Boot \in Local
      BY <1>0, <1>3, <3>1, QueueDeploy DEF schedule_start_instance
    <3>2. CASE Boot \notin Local
      <4>1. "run_vol" \in HvaOps
        BY <3>2, InstanceConstants DEF HvaOps, Shared
      <4> QED
        BY <1>0, <1>3, <3>2, <4>1, QueueHva DEF schedule_start_instance
    <3> QED
      BY <3>1, <3>2
  <2> QED
    BY <1>0, <1>3, <2>1, <2>2, ShapeNext, WorkersSame DEF schedule_start_instance, RestOK, real, api
<1>4. CASE schedule_error
  <2>1. inst' \in InstRow
    BY <1>4, <1>a DEF schedule_error, destroyed, InstRow
  <2>2. vol' \in [Vol -> VolRow]
    <3>1. vol' = [v \in Vol |-> IF sched = "start" /\ v # Boot THEN vol[v] ELSE updated(vol[v], "deleted", vol[v].on)]
      BY <1>4 DEF schedule_error
    <3> QED
      BY <1>0, <1>a, <3>1, VolsOK
  <2>3. faults' \in 0 .. MaxFaults /\ faults' > 0
    BY <1>0, <1>4, InstanceConstants DEF schedule_error, RestOK
  <2>4. RestOK'
    BY <1>0, <1>4, <2>1, <2>2, <2>3 DEF schedule_error, RestOK, real, api
  <2> QED
    BY <1>0, <1>4, <2>4, ShapeNext, QueueSame, WorkersSame DEF schedule_error
<1> QED
  BY <1>1, <1>2, <1>3, <1>4

LEMMA MonShape ==
  ASSUME Shape, monitor \/ guest_shutdown \/ hva_crash
  PROVE  Shape'
<1>0. QueuesOK /\ WorkersOK /\ RestOK
  BY ShapeParts
<1>a. inst \in InstRow /\ {"none", "halted"} \subseteq InstState /\ MaxFaults \in Nat
  BY <1>0, InstanceConstants DEF RestOK, InstState
<1>1. CASE get_instance_monitor_data
  <2>1. mon' \in [pc : {"idle", "check", "recover"}, seen : InstState]
    BY <1>1, <1>a DEF get_instance_monitor_data, InstRow
  <2> QED
    BY <1>0, <1>1, <2>1, ShapeNext, QueueSame, WorkersSame DEF get_instance_monitor_data, RestOK, rows, real, api
<1>2. CASE check_instance
  <2>1. mon' \in [pc : {"idle", "check", "recover"}, seen : InstState]
    BY <1>0, <1>2, <1>a DEF check_instance, RestOK, idle_monitor
  <2> QED
    BY <1>0, <1>2, <2>1, ShapeNext, QueueSame, WorkersSame DEF check_instance, RestOK, rows, real, api
<1>3. CASE instance_state_recovery
  <2>1. mon' \in [pc : {"idle", "check", "recover"}, seen : InstState]
    BY <1>3, <1>a DEF instance_state_recovery, idle_monitor
  <2>2. QueuesOK' /\ inst' \in InstRow
    <3>1. CASE mon.seen = "shuttingdown"
      <4>1. "force" \in HvaOps
        BY DEF HvaOps
      <4> QED
        BY <1>0, <1>3, <1>a, <3>1, <4>1, QueueHva DEF instance_state_recovery
    <3>2. CASE mon.seen # "shuttingdown"
      BY <1>0, <1>3, <1>a, <3>2, QueueSame DEF instance_state_recovery, update_instance, InstRow
    <3> QED
      BY <3>1, <3>2
  <2> QED
    BY <1>0, <1>3, <2>1, <2>2, ShapeNext, WorkersSame DEF instance_state_recovery, RestOK, real, api
<1>4. CASE guest_shutdown
  <2>1. faults' \in 0 .. MaxFaults /\ faults' >= faults
    <3>1. CASE dom = "on"
      BY <1>0, <1>4, <1>a, <3>1 DEF guest_shutdown, RestOK
    <3>2. CASE dom # "on"
      BY <1>0, <1>4, <1>a, <3>2 DEF guest_shutdown, RestOK
    <3> QED
      BY <3>1, <3>2
  <2>2. RestOK'
    BY <1>0, <1>4, <1>a, <2>1 DEF guest_shutdown, effect, untouched, rows, Steps, api, RestOK
  <2> QED
    BY <1>0, <1>4, <2>2, ShapeNext, QueueSame, WorkersSame DEF guest_shutdown, untouched
<1>5. CASE hva_crash
  <2>1. faults' \in 0 .. MaxFaults /\ faults' > 0
    BY <1>0, <1>5, <1>a DEF hva_crash, RestOK
  <2>2. mon' \in [pc : {"idle", "check", "recover"}, seen : InstState]
    BY <1>5, <1>a DEF hva_crash, idle_monitor
  <2>3. WorkersOK'
    BY <1>0, <1>5, Basics, IdleWork DEF hva_crash, WorkersOK
  <2>4. RestOK'
    BY <1>0, <1>5, <2>1, <2>2 DEF hva_crash, RestOK, rows, real, api
  <2> QED
    BY <1>0, <1>5, <2>3, <2>4, ShapeNext, QueueSame DEF hva_crash
<1> QED
  BY <1>1, <1>2, <1>3, <1>4, <1>5 DEF monitor

LEMMA ShapeStep ==
  ASSUME Shape, [Next]_vars
  PROVE  Shape'
<1>1. CASE \E x \in Worker : work(x)
  BY <1>1, HvaShape, LsShape, StaShape DEF Worker
<1>2. CASE UNCHANGED vars
  BY <1>2 DEF vars, Shape, TypeOK
<1> QED
  BY <1>1, <1>2, ApiShape, SchedShape, MonShape DEF Next

LEMMA ShapeInit == ASSUME Init PROVE Shape
<1>1. QueuesOK
  BY DEF Init, QueuesOK
<1>2. WorkersOK
  BY Basics, IdleWork DEF Init, WorkersOK, Worker
<1>3. RestOK
  <2>1. "none" \in InstState /\ "none" \in VolState
    BY DEF InstState, VolState
  <2>2. inst \in InstRow /\ vol \in [Vol -> VolRow]
    BY <2>1 DEF Init, InstRow, VolRow
  <2>3. mon \in [pc : {"idle", "check", "recover"}, seen : InstState]
    BY <2>1 DEF Init
  <2>4. faults \in 0 .. MaxFaults /\ requests \in 0 .. MaxRequests
    BY InstanceConstants DEF Init
  <2> QED
    BY <2>2, <2>3, <2>4 DEF Init, RestOK
<1> QED
  BY <1>1, <1>2, <1>3, ShapeParts

\* The rows, the job channels, what the agents execute and the nodes have their
\* types after any sequence of API requests, agent steps, errors and crashes: no
\* agent is handed another's job or reaches a step its job does not have, and no
\* job names a volume that is not its agent's.
THEOREM TypeCorrect == Spec => []TypeOK
<1>1. Init => Shape
  BY ShapeInit
<1>2. Shape /\ [Next]_vars => Shape'
  BY ShapeStep
<1>3. Shape => TypeOK
  BY DEF Shape
<1> QED
  BY <1>1, <1>2, <1>3, PTL DEF Spec

(***************************************************************************)
(* What is in a queue                                                      *)
(***************************************************************************)
Has(s, o) == \E i \in DOMAIN s : s[i].op = o
HasDelete(s, v) == \E i \in DOMAIN s : s[i].op = "delete" /\ s[i].vol = v
Once(s, o) == \A i, j \in DOMAIN s : s[i].op = o /\ s[j].op = o => i = j

Grown(s, t, o) ==
    /\ \A p : Has(s, p) => Has(t, p)
    /\ \A p : Has(t, p) => Has(s, p) \/ p = o
    /\ \A p : Once(s, p) /\ p # o => Once(t, p)
    /\ Once(s, o) /\ ~Has(s, o) => Once(t, o)
    /\ o # "delete" => \A v : HasDelete(t, v) <=> HasDelete(s, v)
Shrunk(s, t, o) ==
    /\ Has(s, o)
    /\ \A p : Has(t, p) => Has(s, p)
    /\ \A p : Has(s, p) => Has(t, p) \/ p = o
    /\ \A p : Once(s, p) => Once(t, p)
    /\ Once(s, o) => ~Has(t, o)
    /\ \A v : HasDelete(t, v) => HasDelete(s, v)
    /\ \A v : HasDelete(s, v) => HasDelete(t, v) \/ (o = "delete" /\ v = Head(s).vol)

LEMMA GrownBy ==
  ASSUME NEW s \in Seq(Jobs), NEW e
  PROVE  Grown(s, Append(s, e), e.op)
<1> DEFINE t == Append(s, e)
<1>1. Len(s) \in Nat /\ DOMAIN s = 1 .. Len(s) /\ DOMAIN t = 1 .. Len(s) + 1
  OBVIOUS
<1>2. \A i \in DOMAIN s : t[i] = s[i] /\ i \in DOMAIN t
  BY <1>1
<1>3. t[Len(s) + 1] = e /\ Len(s) + 1 \in DOMAIN t
  BY <1>1
<1>4. \A i \in DOMAIN t : i \in DOMAIN s \/ i = Len(s) + 1
  BY <1>1
<1> HIDE DEF t
<1>5. \A p : Has(s, p) => Has(t, p)
  BY <1>2 DEF Has
<1>6. \A p : Has(t, p) => Has(s, p) \/ p = e.op
  BY <1>2, <1>3, <1>4 DEF Has
<1>7. \A p : Once(s, p) /\ p # e.op => Once(t, p)
  BY <1>2, <1>3, <1>4 DEF Once
<1>8. Once(s, e.op) /\ ~Has(s, e.op) => Once(t, e.op)
  BY <1>2, <1>3, <1>4 DEF Once, Has
<1>9. e.op # "delete" => \A v : HasDelete(t, v) <=> HasDelete(s, v)
  BY <1>2, <1>3, <1>4 DEF HasDelete
<1> QED
  BY <1>5, <1>6, <1>7, <1>8, <1>9 DEF Grown, t

LEMMA ShrunkBy ==
  ASSUME NEW s \in Seq(Jobs), s # <<>>
  PROVE  Shrunk(s, Tail(s), Head(s).op)
<1> DEFINE t == Tail(s)
<1>1. Len(s) \in Nat /\ Len(s) > 0 /\ DOMAIN s = 1 .. Len(s) /\ DOMAIN t = 1 .. Len(s) - 1
  OBVIOUS
<1>2. \A i \in DOMAIN t : t[i] = s[i + 1] /\ i + 1 \in DOMAIN s /\ i + 1 # 1
  BY <1>1
<1>3. Head(s) = s[1] /\ 1 \in DOMAIN s
  BY <1>1
<1>4. \A i \in DOMAIN s : i = 1 \/ (i - 1 \in DOMAIN t /\ s[i] = t[i - 1])
  BY <1>1
<1>5. \A i, j \in DOMAIN t : i + 1 = j + 1 => i = j
  BY <1>1
<1> HIDE DEF t
<1>6. Has(s, Head(s).op)
  BY <1>3 DEF Has
<1>7. \A p : Has(t, p) => Has(s, p)
  BY <1>2 DEF Has
<1>8. \A p : Has(s, p) => Has(t, p) \/ p = Head(s).op
  BY <1>3, <1>4 DEF Has
<1>9. \A p : Once(s, p) => Once(t, p)
  BY <1>2, <1>5 DEF Once
<1>10. Once(s, Head(s).op) => ~Has(t, Head(s).op)
  BY <1>2, <1>3 DEF Once, Has
<1>11. \A v : HasDelete(t, v) => HasDelete(s, v)
  BY <1>2 DEF HasDelete
<1>12. \A v : HasDelete(s, v) => HasDelete(t, v) \/ (Head(s).op = "delete" /\ v = Head(s).vol)
  BY <1>3, <1>4 DEF HasDelete
<1> QED
  BY <1>6, <1>7, <1>8, <1>9, <1>10, <1>11, <1>12 DEF Shrunk, t

LEMMA Element == ASSUME NEW S, NEW s \in Seq(S), NEW i \in DOMAIN s PROVE s[i] \in S
OBVIOUS

\* A queue to which delete jobs for the volumes vs were added.
LEMMA GrownByDeletes ==
  ASSUME NEW s \in Seq(Jobs), NEW vs, NEW d \in Seq([op : {"delete"}, vol : vs])
  PROVE  /\ \A p : p # "delete" => (Has(s \o d, p) <=> Has(s, p))
         /\ \A p : p # "delete" => (Once(s, p) => Once(s \o d, p))
         /\ \A v : HasDelete(s, v) => HasDelete(s \o d, v)
         /\ \A v : HasDelete(s \o d, v) => HasDelete(s, v) \/ v \in vs
<1> DEFINE t == s \o d
<1>0. Len(s) \in Nat /\ Len(d) \in Nat /\ DOMAIN d = 1 .. Len(d) /\ DOMAIN s = 1 .. Len(s)
  OBVIOUS
<1>a. \A i \in DOMAIN d : d[i] \in [op : {"delete"}, vol : vs]
  BY Element
<1>1. t \in Seq(Jobs \cup [op : {"delete"}, vol : vs]) /\ Len(t) = Len(s) + Len(d) /\ DOMAIN t = 1 .. Len(s) + Len(d)
  <2>1. s \in Seq(Jobs \cup [op : {"delete"}, vol : vs]) /\ d \in Seq(Jobs \cup [op : {"delete"}, vol : vs])
    BY SeqWider
  <2> QED
    BY <2>1
<1>2. \A i \in DOMAIN s : t[i] = s[i] /\ i \in DOMAIN t
  BY <1>0, <1>1
<1>3. \A i \in DOMAIN t : i \in DOMAIN s \/ (t[i] = d[i - Len(s)] /\ i - Len(s) \in DOMAIN d)
  BY <1>0, <1>1
<1>4. \A i \in DOMAIN t : i \in DOMAIN s \/ (t[i].op = "delete" /\ t[i].vol \in vs)
  BY <1>3, <1>a
<1> HIDE DEF t
<1>5. \A p : p # "delete" => (Has(t, p) <=> Has(s, p))
  BY <1>2, <1>4 DEF Has
<1>6. \A p : p # "delete" => (Once(s, p) => Once(t, p))
  BY <1>2, <1>4 DEF Once
<1>7. \A v : HasDelete(s, v) => HasDelete(t, v)
  BY <1>2 DEF HasDelete
<1>8. \A v : HasDelete(t, v) => HasDelete(s, v) \/ v \in vs
  BY <1>2, <1>4 DEF HasDelete
<1> QED
  BY <1>5, <1>6, <1>7, <1>8 DEF t

LEMMA SentTo ==
  ASSUME Shape, NEW c \in {"hva", "ls"}, NEW o, submit(c, o, NoVol)
  PROVE  /\ Grown(q[c], q'[c], o) /\ Has(q'[c], o)
         /\ \A d \in {"hva", "ls"} : d # c => q'[d] = q[d]
<1>1. q[c] \in Seq(Jobs) /\ q'[c] = Append(q[c], [op |-> o, vol |-> NoVol]) /\ \A d \in {"hva", "ls"} : d # c => q'[d] = q[d]
  BY Basics DEF submit
<1>2. Grown(q[c], q'[c], o)
  BY <1>1, GrownBy
<1>3. Len(q[c]) + 1 \in DOMAIN q'[c] /\ q'[c][Len(q[c]) + 1] = [op |-> o, vol |-> NoVol]
  BY <1>1
<1>4. Has(q'[c], o)
  BY <1>3 DEF Has
<1> QED
  BY <1>1, <1>2, <1>4

\* Nothing is sent without a host node.
LEMMA AskedHost ==
  ASSUME Shape, NEW o, submit_to_host(o)
  PROVE  (Grown(q["hva"], q'["hva"], o) \/ q'["hva"] = q["hva"]) /\ q'["ls"] = q["ls"]
BY SentTo DEF submit_to_host

LEMMA PulledFrom ==
  ASSUME Shape, NEW c \in {"hva", "ls"}, NEW o, Pulled(c, o)
  PROVE  Shrunk(q[c], q'[c], o) /\ Has(q[c], o) /\ \A d \in {"hva", "ls"} : d # c => q'[d] = q[d]
<1>1. q[c] \in Seq(Jobs) /\ q[c] # <<>> /\ Head(q[c]).op = o
  BY Basics DEF Pulled
<1>2. q'[c] = Tail(q[c]) /\ \A d \in {"hva", "ls"} : d # c => q'[d] = q[d]
  BY Basics DEF Pulled
<1>3. Shrunk(q[c], q'[c], o)
  BY <1>1, <1>2, ShrunkBy
<1> QED
  BY <1>2, <1>3 DEF Shrunk

(***************************************************************************)
(* The phases in the life of an instance whose volumes are all local       *)
(***************************************************************************)
AllLocal == Local = Vol
h == w["hva"]

\* Terminate and stop jobs are there because the user asked for them.
Meant ==
    /\ \/ Has(q["hva"], "terminate") \/ Has(q["hva"], "force") \/ h.op \in {"terminate", "force"}
       \/ mon.seen = "shuttingdown" \/ inst.state = "shuttingdown"
       => "delete" \in asked
    /\ Has(q["hva"], "stop") \/ h.op = "stop" => "stop" \in asked

Offered(v) == vol[v].state \in {"available", "attaching", "attached"}
Clean(v) == v \notin disk /\ vol[v].dead /\ ~Offered(v)
AllOn == \A v \in Vol : vol[v].on
NoDeploy == ~Has(q["ls"], "deploy") /\ \A x \in LsThread : w[x].op # "deploy"
LsIdle == ~Has(q["ls"], "deploy") /\ ~Has(q["ls"], "delete") /\ \A x \in LsThread : w[x].op = "none"
Nothing == \A o : ~Has(q["hva"], o)
OnlyTerminate == \A o : Has(q["hva"], o) => o = "terminate"
Reason == faults > 0 \/ asked \cap {"delete", "stop"} # {}

\* Before POST /instances, and until the scheduler has run.
New ==
    /\ inst.state = "none" /\ ~inst.gone /\ sched = "none"
    /\ LsIdle /\ h.op = "none" /\ Nothing /\ mon.pc = "idle"
    /\ dom = "off" /\ disk = {} /\ \A v \in Vol : ~Offered(v)
Waiting ==
    /\ inst.state = "scheduling" /\ ~inst.gone /\ sched = "instance"
    /\ LsIdle /\ h.op = "none" /\ Nothing /\ mon.pc = "idle"
    /\ AllOn /\ dom = "off" /\ disk = {} /\ \A v \in Vol : ~Offered(v)

\* A local store thread that deploys the volumes, so far without an error.
Forward(x) ==
    /\ w[x].op = "deploy" /\ w[x].vols = Vol
    /\ w[x].pc \in {"initializing", "deploy", "available", "submit"}
    /\ w[x].pc = "initializing" => inst.state = "pending" /\ disk = {} /\ \A v \in Vol : ~Offered(v)
    /\ w[x].pc # "initializing" => inst.state = "initializing"
    /\ w[x].pc \in {"deploy", "available"} =>
         /\ disk = Vol \ w[x].todo
         /\ \A v \in Vol : IF v \in w[x].todo \/ (w[x].pc = "available" /\ v = w[x].vol)
                           THEN ~Offered(v) ELSE vol[v].state = "available"
    /\ w[x].pc = "submit" => disk = Vol /\ \A v \in Vol : vol[v].state = "available"
Deploying ==
    /\ ~inst.gone /\ inst.host /\ sched = "none"
    /\ h.op = "none" /\ OnlyTerminate /\ mon.pc = "idle" /\ dom = "off" /\ AllOn
    /\ ~Has(q["ls"], "delete")
    /\ \/ /\ inst.state = "pending" /\ disk = {} /\ \A v \in Vol : ~Offered(v)
          /\ Once(q["ls"], "deploy") /\ \A x \in LsThread : w[x].op = "none"
       \/ /\ ~Has(q["ls"], "deploy")
          /\ \E x \in LsThread : Forward(x) /\ \A y \in LsThread : y # x => w[y].op = "none"

\* run_local_store is queued, or prepares the domain.
Booting ==
    /\ inst.state = "initializing" /\ ~inst.gone /\ inst.host /\ sched = "none"
    /\ LsIdle /\ mon.pc = "idle" /\ dom = "off" /\ AllOn /\ disk = Vol
    /\ \/ /\ h.op = "none" /\ Once(q["hva"], "run_local")
          /\ \A o : Has(q["hva"], o) => o \in {"run_local", "terminate"}
          /\ \A v \in Vol : vol[v].state = "available"
       \/ /\ h.op = "run_local" /\ h.vols = Vol /\ h.pc \in {"prepare", "attaching", "run"}
          /\ OnlyTerminate

\* The domain is defined; the guest may be off.
Alive ==
    /\ ~inst.gone /\ inst.host /\ sched = "none"
    /\ LsIdle /\ AllOn /\ disk = Vol /\ ~Has(q["hva"], "run_local")
    /\ h.op = "none" \/ h.vols = Vol
    /\ IF h.op = "run_local" /\ h.pc = "running" THEN inst.state = "initializing" /\ mon.pc = "idle"
                             ELSE inst.state \in {"running", "halting", "halted", "starting"}
    /\ h.op = "run_local" => /\ h.pc \in {"running", "attached"}
                             /\ h.pc = "running" => OnlyTerminate
                             /\ h.pc = "attached" => \A v \in Vol \ h.todo : vol[v].state = "attached"
    /\ h.op # "run_local" => /\ h.pc \in {"idle", "reboot", "poweroff", "halted", "soft_poweroff", "starting",
                                          "prepare", "poweron", "running", "stopping", "shuttingdown"}
                             /\ \A v \in Vol : vol[v].state = "attached"

\* The domain is destroyed and the volumes are deleted, and then they were.
Ending ==
    /\ inst.host /\ sched = "none" /\ LsIdle /\ AllOn /\ ~Has(q["hva"], "run_local") /\ Reason
    /\ inst.state \in {"initializing", "shuttingdown", "stopping", "halted", "starting", "terminated"}
    /\ h.op = "none" \/ h.vols = Vol
    /\ h.pc \in {"idle", "t_domain", "t_vol", "t_disk", "t_deleted", "finalize", "stopped", "shuttingdown",
                 "starting", "prepare", "poweron", "halted", "poweroff", "soft_poweroff", "reboot"}
    /\ h.pc = "prepare" => h.op = "poweron"
    /\ dom # "off" => h.pc = "t_domain" /\ disk = Vol
    /\ h.pc = "t_domain" => \A v \in Vol : Offered(v) => v \in disk
    /\ h.pc \in {"t_vol", "t_disk", "t_deleted"} =>
         \A v \in Vol : IF v \in h.todo THEN Offered(v) => v \in disk
                        ELSE \/ Clean(v)
                             \/ h.pc = "t_disk" /\ v = h.vol /\ ~Offered(v)
                             \/ h.pc = "t_deleted" /\ v = h.vol /\ ~Offered(v) /\ v \notin disk
    /\ h.pc \notin {"t_domain", "t_vol", "t_disk", "t_deleted"} => \A v \in Vol : Clean(v)

\* The local store's jobs: one deploy at most, no delete beside it until it has
\* given up, and rows that offer no data but for those its rollback will delete.
Deletes(v) == HasDelete(q["ls"], v) \/ \E x \in LsThread : w[x].op = "delete" /\ w[x].vol = v
Owes(x, v) == /\ w[x].op = "deploy"
              /\ \/ w[x].pc \in {"undeploy", "undeployed", "terminated"} /\ v \in w[x].vols
                 \/ w[x].pc = "v_deleted" /\ v \in w[x].todo
OneDeploy ==
    /\ Once(q["ls"], "deploy")
    /\ \A x, y \in LsThread : w[x].op = "deploy" /\ w[y].op = "deploy" => x = y
    /\ Has(q["ls"], "deploy") => \A x \in LsThread : w[x].op # "deploy"
    /\ sched = "start" \/ inst.state = "stopped" => NoDeploy
    /\ sched = "start" => inst.state # "stopped"
DeletesLast ==
    \A v \in Vol : Deletes(v) =>
      /\ ~Offered(v) /\ ~Has(q["ls"], "deploy") /\ sched = "none" /\ inst.state # "stopped"
      /\ \A x \in LsThread : w[x].op = "deploy" => w[x].pc = "v_deleted"
OfferedIsThere ==
    \A v \in Vol : Offered(v) => v \in disk \/ \E x \in LsThread : Owes(x, v)
DeployIsRight ==
    \A x \in LsThread : w[x].op = "deploy" =>
      /\ w[x].pc = "available" => w[x].vol \in disk
      /\ w[x].pc = "undeployed" => w[x].vol \in w[x].vols
      /\ w[x].pc \in {"undeploy", "undeployed"} => w[x].todo \subseteq w[x].vols
LsRows == OneDeploy /\ DeletesLast /\ OfferedIsThere /\ DeployIsRight

\* The deployment failed, or there was no host: the domain was never defined.
RolledBack ==
    /\ faults > 0 /\ h.op = "none" /\ OnlyTerminate /\ dom = "off" /\ sched = "none" /\ mon.pc = "idle"
    /\ inst.state \in {"initializing", "terminated"}
    /\ LsRows /\ ~Has(q["ls"], "deploy")
    /\ \A x \in LsThread : w[x].op = "deploy" =>
         /\ w[x].vols = Vol /\ w[x].pc \in {"undeploy", "undeployed", "terminated", "v_deleted"}
         /\ w[x].pc \in {"undeploy", "undeployed"} => disk \subseteq w[x].todo
         /\ w[x].pc \in {"terminated", "v_deleted"} => disk = {}
         /\ w[x].pc = "v_deleted" => inst.state = "terminated" /\ \A v \in Vol \ w[x].todo : vol[v].dead
    /\ NoDeploy => disk = {} /\ inst.state = "terminated" /\ \A v \in Vol : vol[v].dead

\* The instance was stopped: its volumes are released, and nothing boots again.
Stopped ==
    /\ "stop" \in asked /\ dom = "off" /\ sched # "instance"
    /\ inst.state \notin {"none", "running", "halting"}
    /\ h.op = "stop" => h.pc = "v_deleted" /\ \A v \in Vol : vol[v].on => v \in h.todo
    /\ h.op # "stop" => /\ \A v \in Vol : ~vol[v].on
                        /\ h.vols = {} /\ h.todo = {}
                        /\ h.pc \in {"idle", "prepare", "run", "t_domain", "finalize", "shuttingdown",
                                     "starting", "poweron", "halted", "poweroff", "soft_poweroff", "reboot"}
    /\ LsRows

Phase == New \/ Waiting \/ Deploying \/ RolledBack \/ Booting \/ Alive \/ Ending \/ Stopped
InstInv == Shape /\ Meant /\ (~leaky => Phase)

LEMMA NoSta ==
  ASSUME Shape, AllLocal
  PROVE  w["sta"] = Idle /\ q["sta"] = <<>> /\ mapped = {} /\ Shared = {} /\ ~work("sta")
<1>1. Shared = {}
  BY DEF AllLocal, Shared
<1>2. w["sta"] = Idle
  BY <1>1 DEF Shape, StaDoing
<1>3. mapped = {}
  BY <1>1 DEF Shape, TypeOK
<1>4. q["sta"] = <<>>
  <2>1. q["sta"] \in Seq(StaJob) /\ StaJob = {}
    BY <1>1 DEF Shape, StaJob
  <2> QED
    BY <2>1
<1>5. ~StaTakes
  BY <1>4 DEF StaTakes, Pulled
<1>6. ~StaRpc /\ ~StaDriver /\ ~S_raise("sta")
  BY <1>2 DEF Idle, At, StaRpc, StaDriver, S_raise, S_abandon, S_available, S_creating, S_lost, S_deleting,
              S_deleted, S_submit, D_create, D_delete
<1> QED
  BY <1>1, <1>2, <1>3, <1>4, <1>5, <1>6, StaIs

LEMMA IdleIs ==
  ASSUME Shape
  PROVE  /\ h.op = "none" <=> h.pc = "idle"
         /\ h.op = "none" <=> h = Idle
         /\ \A x \in LsThread : (w[x].op = "none" <=> w[x].pc = "idle") /\ (w[x].op = "none" <=> w[x] = Idle)
<1>1. Idle.op = "none" /\ Idle.pc = "idle"
  BY DEF Idle
<1>2. HvaDoing(h) => h.op # "none" /\ h.pc # "idle"
  BY DEF HvaDoing, HvaOps
<1>3. \A x \in LsThread : LsDoing(w[x]) => w[x].op # "none" /\ w[x].pc # "idle"
  BY DEF LsDoing
<1>4. h = Idle \/ HvaDoing(h)
  BY DEF Shape, h
<1>5. \A x \in LsThread : w[x] = Idle \/ LsDoing(w[x])
  BY DEF Shape
<1>6. (h.op = "none" <=> h.pc = "idle") /\ (h.op = "none" <=> h = Idle)
  BY <1>1, <1>2, <1>4
<1>7. \A x \in LsThread : (w[x].op = "none" <=> w[x].pc = "idle") /\ (w[x].op = "none" <=> w[x] = Idle)
  BY <1>1, <1>3, <1>5
<1> QED
  BY <1>6, <1>7

LEMMA HvaIdle ==
  ASSUME Shape, h.op = "none", work("hva")
  PROVE  HvaTakes
<1>1. w["hva"].pc = "idle" /\ w["hva"].todo = {}
  BY IdleIs DEF h, Idle
<1>2. ~HvaRpc
  BY <1>1 DEF HvaRpc, At, S_shut, S_starting, S_running, S_halted, S_stopped, S_attaching, S_attached,
              S_delete_local, S_deleted_local, S_release, S_finalize, S_submit
<1>3. ~HvaDriver
  BY <1>1 DEF HvaDriver, At, D_prepare, D_map, D_run, D_off, D_soft, D_reboot, D_domain, D_detach, D_disk
<1>4. ~S_raise("hva")
  BY <1>1 DEF S_raise
<1> QED
  BY <1>2, <1>3, <1>4, HvaIs

LEMMA HvaBusy ==
  ASSUME Shape, h.op # "none", work("hva")
  PROVE  HvaRpc \/ HvaDriver \/ S_raise("hva")
<1>1. w["hva"].pc # "idle"
  BY IdleIs DEF h
<1>2. ~HvaTakes
  BY <1>1 DEF HvaTakes, Took
<1> QED
  BY <1>2, HvaIs

LEMMA LsIdleIs ==
  ASSUME Shape, NEW x \in LsThread, w[x].op = "none", work(x)
  PROVE  LsTakes(x)
<1>1. w[x].pc = "idle" /\ w[x].todo = {}
  BY IdleIs DEF Idle
<1>2. ~LsRpc(x)
  BY <1>1 DEF LsRpc, At, S_initializing, S_abandon, S_release, S_available, S_undeployed, S_deleted, S_submit
<1>3. ~LsDriver(x) /\ ~S_raise(x)
  BY <1>1 DEF LsDriver, At, D_deploy, D_undeploy, D_delete, S_raise
<1> QED
  BY <1>2, <1>3, LsIs

LEMMA LsBusy ==
  ASSUME Shape, NEW x \in LsThread, w[x].op # "none", work(x)
  PROVE  LsRpc(x) \/ LsDriver(x) \/ S_raise(x)
<1>1. w[x].pc # "idle"
  BY IdleIs
<1>2. ~LsTakes(x)
  BY <1>1 DEF LsTakes, Took
<1> QED
  BY <1>2, LsIs

\* Without a job in its channel, an idle local store does nothing.
LEMMA LsStill ==
  ASSUME Shape, LsIdle, NEW x \in LsThread
  PROVE  ~work(x)
<1>1. SUFFICES ASSUME work(x) PROVE FALSE
  OBVIOUS
<1>2. LsTakes(x)
  BY <1>1, LsIdleIs DEF LsIdle
<1>3. \E o \in {"deploy", "delete"} : Pulled("ls", o)
  BY <1>2 DEF LsTakes
<1>4. \E o \in {"deploy", "delete"} : Has(q["ls"], o)
  BY <1>3, PulledFrom
<1> QED
  BY <1>4 DEF LsIdle

LEMMA HvaOthers ==
  ASSUME Shape, AllLocal, work("hva")
  PROVE  /\ \A x \in LsThread : w'[x] = w[x]
         /\ UNCHANGED <<sched, mon, asked, requests>>
         /\ leaky' = leaky \/ leaky' = TRUE
<1>0. "hva" \in Worker /\ "hva" \notin LsThread /\ LsThread \subseteq Worker
  BY Basics
<1>1. CASE HvaTakes
  BY <1>0, <1>1 DEF HvaTakes, Took, Pulled
<1>2. CASE HvaRpc
  BY <1>0, <1>2 DEF HvaRpc, S_shut, S_starting, S_running, S_halted, S_stopped, S_attaching, S_attached,
     S_delete_local, S_deleted_local, S_release, S_finalize, S_submit, Goes, Loop, To, Sets, Marks, Apart
<1>3. CASE HvaDriver
  BY <1>0, <1>3 DEF HvaDriver, D_prepare, D_map, D_run, D_off, D_soft, D_reboot, D_domain, D_detach, D_disk,
     Goes, Loop, To, Does, Fails, Well
<1>4. CASE S_raise("hva")
  BY <1>0, <1>4 DEF S_raise, Goes, Loop, To, Does, Well
<1> QED
  BY <1>1, <1>2, <1>3, <1>4, HvaIs

LEMMA LsOthers ==
  ASSUME Shape, AllLocal, NEW x \in LsThread, work(x)
  PROVE  /\ h' = h /\ \A y \in LsThread : y # x => w'[y] = w[y]
         /\ UNCHANGED <<sched, mon, asked, requests, dom>>
         /\ leaky' = leaky \/ leaky' = TRUE
<1>0. x \in Worker /\ "hva" \in Worker /\ x # "hva" /\ LsThread \subseteq Worker
  BY Basics
<1>1. CASE LsTakes(x)
  BY <1>0, <1>1 DEF LsTakes, Took, Pulled, h
<1>2. CASE LsRpc(x)
  BY <1>0, <1>2 DEF LsRpc, S_initializing, S_abandon, S_release, S_available, S_undeployed, S_deleted, S_submit,
     Goes, Loop, To, Sets, Marks, Apart, h
<1>3. CASE LsDriver(x)
  BY <1>0, <1>3 DEF LsDriver, D_deploy, D_undeploy, D_delete, Goes, Loop, To, Does, Fails, Well, h
<1>4. CASE S_raise(x)
  <2>1. h' = h /\ \A y \in LsThread : y # x => w'[y] = w[y]
    BY <1>0, <1>4 DEF S_raise, Goes, Loop, To, h
  <2>2. w[x] = Idle \/ LsDoing(w[x])
    BY DEF Shape
  <2>3. w[x].pc \notin {"run", "poweron", "poweroff", "reboot"}
    BY <2>2 DEF LsDoing, Idle
  <2>4. UNCHANGED <<sched, mon, asked, requests>>
    BY <1>4 DEF S_raise, Does
  <2>5. dom' = dom /\ (leaky' = leaky \/ leaky' = TRUE)
    BY <1>4, <2>3 DEF S_raise, Does, Well
  <2> QED
    BY <2>1, <2>4, <2>5
<1> QED
  BY <1>1, <1>2, <1>3, <1>4, LsIs

LEMMA FinalizeKeeps ==
  ASSUME Shape, AllLocal, finalize_instance
  PROVE  q'["hva"] = q["hva"] /\ inst'.state = "terminated" /\ inst'.host = inst.host
<1>1. inst \in InstRow
  BY DEF Shape, TypeOK
<1> QED
  BY <1>1, Basics DEF finalize_instance, destroyed, InstRow

LEMMA OpKept ==
  ASSUME NEW x
  PROVE  /\ \A pc, v, todo : To(x, pc, v, todo) => w'[x].op \in {w[x].op, "none"}
         /\ \A pc : Goes(x, pc) => w'[x].op \in {w[x].op, "none"}
         /\ \A pc, done, todo : Loop(x, pc, done, todo) => w'[x].op \in {w[x].op, "none"}
<1>1. \A pc, v, todo : To(x, pc, v, todo) => w'[x].op \in {w[x].op, "none"}
  BY DEF To, Idle
<1>2. \A pc : Goes(x, pc) => w'[x].op \in {w[x].op, "none"}
  BY <1>1 DEF Goes
<1>3. \A pc, done, todo : Loop(x, pc, done, todo) => w'[x].op \in {w[x].op, "none"}
  BY <1>1, <1>2 DEF Loop
<1> QED
  BY <1>1, <1>2, <1>3

LEMMA HvaBusyKeeps ==
  ASSUME Shape, AllLocal, HvaRpc \/ HvaDriver \/ S_raise("hva")
  PROVE  /\ q'["hva"] = q["hva"] /\ h'.op \in {h.op, "none"}
         /\ inst'.state = "shuttingdown" => inst.state = "shuttingdown" \/ h.op \in {"terminate", "force"}
<1>0. inst \in InstRow /\ "hva" \in Worker
  BY Basics DEF Shape, TypeOK
<1>a. w["hva"] = Idle \/ HvaDoing(w["hva"])
  BY DEF Shape
<1>b. w["hva"].op # "wait"
  BY <1>a, NoSta DEF HvaDoing, Idle, HvaOps
<1>1. CASE HvaRpc
  <2>1. ~S_submit("hva")
    BY <1>a, <1>b DEF S_submit, At, HvaDoing, Idle
  <2>2. CASE S_shut("hva")
    <3>1. w["hva"].pc = "shuttingdown" => w["hva"].op \in {"terminate", "force"}
      BY <1>a DEF HvaDoing, Idle
    <3> QED
      BY <1>0, <2>2, <3>1 DEF S_shut, At, Sets, Goes, To, h, InstRow
  <2>3. CASE S_starting("hva") \/ S_running("hva") \/ S_halted("hva") \/ S_stopped("hva")
    <3>1. h'.op \in {h.op, "none"}
      BY <2>3, OpKept DEF S_starting, S_running, S_halted, S_stopped, h
    <3>2. q' = q /\ inst'.state # "shuttingdown"
      BY <1>0, <2>3 DEF S_starting, S_running, S_halted, S_stopped, Sets, InstRow
    <3> QED
      BY <3>1, <3>2
  <2>4. CASE S_attaching("hva") \/ S_attached("hva") \/ S_delete_local("hva") \/ S_deleted_local("hva") \/ S_release("hva")
    <3>1. h'.op \in {h.op, "none"}
      BY <2>4, OpKept DEF S_attaching, S_attached, S_delete_local, S_deleted_local, S_release, h
    <3>2. UNCHANGED <<q, inst>>
      BY <2>4 DEF S_attaching, S_attached, S_delete_local, S_deleted_local, S_release, Marks
    <3> QED
      BY <3>1, <3>2
  <2>5. CASE S_finalize("hva")
    BY <2>5, FinalizeKeeps DEF S_finalize, Goes, To, h, Idle
  <2> QED
    BY <1>1, <2>1, <2>2, <2>3, <2>4, <2>5 DEF HvaRpc
<1>2. CASE HvaDriver
  <2>1. h'.op \in {h.op, "none"}
    BY <1>2, OpKept DEF HvaDriver, D_prepare, D_map, D_run, D_off, D_soft, D_reboot, D_domain, D_detach, D_disk, h
  <2>2. UNCHANGED <<q, inst>>
    BY <1>2 DEF HvaDriver, D_prepare, D_map, D_run, D_off, D_soft, D_reboot, D_domain, D_detach, D_disk, Does, Fails
  <2> QED
    BY <2>1, <2>2
<1>3. CASE S_raise("hva")
  BY <1>3 DEF S_raise, Goes, Loop, To, Does, h, Idle
<1> QED
  BY <1>1, <1>2, <1>3

LEMMA HvaTakesKeeps ==
  ASSUME Shape, AllLocal, HvaTakes
  PROVE  \E o \in HvaOps : /\ Pulled("hva", o) /\ Shrunk(q["hva"], q'["hva"], o) /\ q'["ls"] = q["ls"]
                           /\ h'.op \in {o, "none"}
<1>1. PICK o \in HvaOps : Pulled("hva", o) /\ Head(q["hva"]).op = o
  BY Heads DEF HvaTakes, Pulled
<1>2. Shrunk(q["hva"], q'["hva"], o) /\ q'["ls"] = q["ls"]
  BY <1>1, PulledFrom
<1>3. h'.op \in {o, "none"}
  BY <1>1 DEF HvaTakes, Pulled, Took, h, Idle
<1> QED
  BY <1>1, <1>2, <1>3

LEMMA LsKeepsHva ==
  ASSUME Shape, AllLocal, NEW x \in LsThread, work(x)
  PROVE  /\ \A p : Has(q'["hva"], p) => Has(q["hva"], p) \/ p = "run_local"
         /\ inst'.state = "shuttingdown" => inst.state = "shuttingdown"
         /\ ~S_submit(x) => q'["hva"] = q["hva"]
<1>0. inst \in InstRow /\ (w[x] = Idle \/ LsDoing(w[x]))
  BY DEF Shape, TypeOK
<1>1. CASE LsTakes(x)
  <2>1. PICK o : Pulled("ls", o)
    BY <1>1 DEF LsTakes
  <2>2. q'["hva"] = q["hva"] /\ inst' = inst
    BY <2>1, PulledFrom DEF Pulled
  <2> QED
    BY <2>2
<1>2. CASE LsRpc(x)
  <2>1. CASE S_submit(x)
    <3>1. w[x].op = "deploy"
      BY <1>0, <2>1 DEF S_submit, At, LsDoing, Idle
    <3>2. submit("hva", "run_local", NoVol) /\ inst' = inst
      BY <2>1, <3>1 DEF S_submit, next_job
    <3> QED
      BY <2>1, <3>2, SentTo DEF Grown
  <2>2. CASE S_initializing(x)
    BY <1>0, <2>2 DEF S_initializing, Sets, InstRow
  <2>3. CASE S_abandon(x)
    BY <2>3, FinalizeKeeps DEF S_abandon
  <2>4. CASE S_release(x) \/ S_available(x) \/ S_undeployed(x) \/ S_deleted(x)
    BY <2>4 DEF S_release, S_available, S_undeployed, S_deleted, Marks
  <2> QED
    BY <1>2, <2>1, <2>2, <2>3, <2>4 DEF LsRpc
<1>3. CASE LsDriver(x)
  BY <1>3 DEF LsDriver, D_deploy, D_undeploy, D_delete, Does, Fails
<1>4. CASE S_raise(x)
  BY <1>4 DEF S_raise, Does
<1> QED
  BY <1>1, <1>2, <1>3, <1>4, LsIs

LEMMA MeantStep ==
  ASSUME Shape, AllLocal, Meant, [Next]_vars
  PROVE  Meant'
<1>0. inst \in InstRow
  BY DEF Shape, TypeOK
<1>1. CASE work("hva")
  <2>1. UNCHANGED <<mon, asked>>
    BY <1>1, HvaOthers
  <2>2. CASE HvaTakes
    <3>1. PICK o \in HvaOps : /\ Pulled("hva", o) /\ Shrunk(q["hva"], q'["hva"], o)
                              /\ h'.op \in {o, "none"}
      BY <2>2, HvaTakesKeeps
    <3>2. inst' = inst
      BY <3>1 DEF Pulled
    <3> QED
      BY <2>1, <3>1, <3>2 DEF Meant, Shrunk
  <2>3. CASE HvaRpc \/ HvaDriver \/ S_raise("hva")
    BY <2>1, <2>3, HvaBusyKeeps DEF Meant
  <2> QED
    BY <1>1, <2>2, <2>3, HvaIs
<1>2. ASSUME NEW x \in LsThread, work(x) PROVE Meant'
  BY <1>2, LsOthers, LsKeepsHva DEF Meant
<1>3. ~work("sta")
  BY NoSta
<1>4. CASE delete
  <2>1. /\ asked' = asked \cup {"delete"} /\ UNCHANGED <<w, mon>>
        /\ inst'.state = "shuttingdown" => inst.state = "shuttingdown"
        /\ submit_to_host("terminate") \/ UNCHANGED q
    BY <1>0, <1>4 DEF delete, accept, destroyed, InstRow
  <2> QED
    BY <2>1, AskedHost DEF Meant, Grown, h
<1>5. ASSUME NEW r \in {"reboot", "stop"}, put_job(r) PROVE Meant'
  <2>1. asked' = asked \cup {r} /\ UNCHANGED <<w, mon, inst>> /\ submit_to_host(r)
    BY <1>5 DEF put_job, accept
  <2> QED
    BY <2>1, AskedHost DEF Meant, Grown, h
<1>6. CASE start
  BY <1>0, <1>6 DEF start, accept, update_instance, Meant, h, InstRow
<1>7. ASSUME NEW r \in {"poweroff", "soft_poweroff"}, poweroff(r) PROVE Meant'
  <2>1. asked \subseteq asked' /\ UNCHANGED <<w, mon>> /\ inst'.state = "halting" /\ submit_to_host(r)
    BY <1>0, <1>7 DEF poweroff, accept, update_instance, InstRow
  <2> QED
    BY <2>1, AskedHost DEF Meant, Grown, h
<1>8. CASE poweron
  <2>1. asked \subseteq asked' /\ UNCHANGED <<w, mon>> /\ inst'.state = "starting" /\ submit_to_host("poweron")
    BY <1>0, <1>8 DEF poweron, accept, update_instance, InstRow
  <2> QED
    BY <2>1, AskedHost DEF Meant, Grown, h
<1>9. CASE post \/ schedule_error
  <2>1. UNCHANGED <<q, w, mon, asked>> /\ inst'.state # "shuttingdown"
    <3>1. CASE post
      BY <3>1 DEF post, api
    <3>2. CASE schedule_error
      BY <1>0, <3>2 DEF schedule_error, destroyed, api, InstRow
    <3> QED
      BY <1>9, <3>1, <3>2
  <2> QED
    BY <2>1 DEF Meant, h
<1>10. CASE schedule_instance
  <2>1. q'["hva"] = q["hva"]
    BY <1>10, Basics DEF schedule_instance
  <2> QED
    BY <1>0, <1>10, <2>1 DEF schedule_instance, api, Meant, h, InstRow
<1>11. CASE schedule_start_instance
  <2>1. Boot \in Local
    BY InstanceConstants DEF AllLocal
  <2>2. q'["hva"] = q["hva"]
    BY <1>11, <2>1, SentTo DEF schedule_start_instance
  <2> QED
    BY <1>0, <1>11, <2>2 DEF schedule_start_instance, api, Meant, h, InstRow
<1>12. CASE get_instance_monitor_data \/ check_instance
  <2>1. mon \in [pc : {"idle", "check", "recover"}, seen : InstState]
    BY DEF Shape, TypeOK
  <2> QED
    BY <1>12, <2>1 DEF get_instance_monitor_data, check_instance, idle_monitor, rows, api, Meant, h
<1>13. CASE instance_state_recovery
  <2>1. CASE mon.seen = "shuttingdown"
    <3>1. submit("hva", "force", NoVol) /\ UNCHANGED <<inst, w, asked>> /\ mon'.seen = "none"
      BY <1>13, <2>1 DEF instance_state_recovery, idle_monitor, api
    <3>2. Grown(q["hva"], q'["hva"], "force")
      BY <3>1, SentTo
    <3> QED
      BY <2>1, <3>1, <3>2 DEF Meant, Grown, h
  <2>2. CASE mon.seen # "shuttingdown"
    <3>1. inst'.state = "halted" /\ UNCHANGED <<q, w, asked>> /\ mon'.seen = "none"
      BY <1>0, <1>13, <2>2 DEF instance_state_recovery, idle_monitor, api, update_instance, InstRow
    <3> QED
      BY <3>1 DEF Meant, h
  <2> QED
    BY <2>1, <2>2
<1>14. CASE guest_shutdown \/ UNCHANGED vars
  BY <1>14 DEF guest_shutdown, vars, untouched, rows, Steps, api, Meant, h
<1>15. CASE hva_crash
  <2>1. h'.op = "none" /\ mon'.seen = "none" /\ UNCHANGED <<inst, q, asked>>
    BY <1>15, Basics DEF hva_crash, idle_monitor, rows, api, h, Idle
  <2> QED
    BY <2>1 DEF Meant
<1> QED
  BY <1>1, <1>2, <1>3, <1>4, <1>5, <1>6, <1>7, <1>8, <1>9, <1>10, <1>11, <1>12, <1>13, <1>14, <1>15
     DEF Next, api_request, monitor, Worker

(***************************************************************************)
(* From phase to phase                                                     *)
(***************************************************************************)
Scheduler == schedule_instance \/ schedule_start_instance \/ schedule_error
Busy == work("hva") \/ \E x \in LsThread : work(x)

LEMMA Moves ==
  ASSUME Shape, AllLocal, Next, ~leaky'
  PROVE  post \/ api_request \/ Scheduler \/ Busy \/ monitor \/ guest_shutdown
<1>1. ~hva_crash
  BY DEF hva_crash
<1> QED
  BY <1>1, NoSta DEF Next, Scheduler, Busy, Worker

\* No domain runs, and the monitor has nothing to look at.
LEMMA CalmMoves ==
  ASSUME Shape, AllLocal, Next, ~leaky', dom = "off", mon.pc = "idle",
         inst.state \notin {"running", "halting", "shuttingdown"}
  PROVE  post \/ api_request \/ Scheduler \/ Busy
<1>1. ~monitor /\ ~guest_shutdown
  BY DEF monitor, get_instance_monitor_data, check_instance, instance_state_recovery, guest_shutdown
<1> QED
  BY <1>1, Moves

LEMMA Row ==
  ASSUME Shape
  PROVE  /\ inst \in InstRow
         /\ \A v \in Vol : /\ vol[v] \in VolRow /\ vol[v].on \in BOOLEAN /\ vol[v].dead \in BOOLEAN
                           /\ vol[v].state \in VolState
         /\ vol \in [Vol -> VolRow] /\ disk \subseteq Vol /\ faults \in Nat /\ MaxFaults \in Nat
<1>1. inst \in InstRow /\ vol \in [Vol -> VolRow] /\ disk \subseteq Vol /\ faults \in Nat /\ MaxFaults \in Nat
  BY InstanceConstants DEF Shape, TypeOK
<1> QED
  BY <1>1 DEF VolRow

LEMMA Marked ==
  ASSUME Shape, NEW v \in Vol, NEW s \in VolState, Marks(v, s)
  PROVE  /\ vol'[v].state = s /\ vol'[v].on = vol[v].on /\ vol'[v].dead = (vol[v].dead \/ s = "deleted")
         /\ \A u \in Vol : u # v => vol'[u] = vol[u]
<1>1. vol[v] \in VolRow /\ vol[v].on \in BOOLEAN /\ vol \in [Vol -> VolRow]
  BY Row
<1>2. vol'[v] = updated(vol[v], s, vol[v].on) /\ \A u \in Vol : u # v => vol'[u] = vol[u]
  BY <1>1 DEF Marks
<1> QED
  BY <1>1, <1>2, Updated

LEMMA Released ==
  ASSUME Shape, NEW v \in Vol, vol' = [vol EXCEPT ![v] = updated(vol[v], "deleted", FALSE)]
  PROVE  /\ vol'[v].state = "deleted" /\ ~vol'[v].on /\ vol'[v].dead
         /\ \A u \in Vol : u # v => vol'[u] = vol[u]
<1>1. vol[v] \in VolRow /\ vol \in [Vol -> VolRow] /\ "deleted" \in VolState
  BY Row DEF VolState
<1>2. vol'[v] = updated(vol[v], "deleted", FALSE) /\ \A u \in Vol : u # v => vol'[u] = vol[u]
  BY <1>1
<1> QED
  BY <1>1, <1>2, Updated

LEMMA SetIs ==
  ASSUME Shape, NEW s, Sets(s)
  PROVE  inst'.state = s /\ inst'.gone = inst.gone /\ inst'.host = inst.host
BY Row DEF Sets, InstRow

\* DELETE of an instance that is not stopped.
LEMMA DeleteIs ==
  ASSUME Shape, delete, inst.state # "stopped"
  PROVE  /\ UNCHANGED <<inst, vol, sched, w, mon, dom, disk, mapped, faults, leaky>>
         /\ asked' = asked \cup {"delete"} /\ inst.state \notin {"none", "scheduling", "terminated"}
         /\ Grown(q["hva"], q'["hva"], "terminate") \/ q'["hva"] = q["hva"]
         /\ q'["ls"] = q["ls"]
<1>1. submit_to_host("terminate") /\ inst' = inst
  BY DEF delete
<1> QED
  BY <1>1, AskedHost DEF delete, accept, real

LEMMA OnlyTerminateGrows ==
  ASSUME OnlyTerminate, Grown(q["hva"], q'["hva"], "terminate") \/ q'["hva"] = q["hva"]
  PROVE  OnlyTerminate'
BY DEF OnlyTerminate, Grown

\* A terminate job that finds the instance neither running nor halted.
LEMMA TerminateIgnored ==
  ASSUME Shape, AllLocal, h.op = "none", OnlyTerminate, inst.state \notin {"running", "halted"}, work("hva")
  PROVE  /\ OnlyTerminate' /\ h'.op = "none" /\ q'["ls"] = q["ls"]
         /\ \A x \in LsThread : w'[x] = w[x]
         /\ UNCHANGED <<inst, vol, sched, mon, asked, dom, disk, mapped, faults, leaky>>
<1>1. HvaTakes
  BY HvaIdle
<1>2. PICK o \in HvaOps : Pulled("hva", o) /\ Shrunk(q["hva"], q'["hva"], o) /\ q'["ls"] = q["ls"]
  BY <1>1, HvaTakesKeeps
<1>3. o = "terminate"
  BY <1>2 DEF OnlyTerminate, Shrunk
<1>4. OnlyTerminate'
  BY <1>2 DEF OnlyTerminate, Shrunk
<1>5. \A p : Pulled("hva", p) => p = "terminate"
  BY <1>2, <1>3 DEF Pulled
<1>6. Took("hva", "terminate", "idle", {})
  BY <1>1, <1>5 DEF HvaTakes
<1>7. h'.op = "none"
  BY <1>6 DEF Took, h, Idle
<1>8. \A x \in LsThread : w'[x] = w[x]
  BY HvaOthers
<1> QED
  BY <1>2, <1>3, <1>4, <1>7, <1>8 DEF Pulled

LEMMA NothingTaken ==
  ASSUME Shape, AllLocal, h.op = "none", Nothing
  PROVE  ~work("hva")
<1>1. SUFFICES ASSUME work("hva") PROVE FALSE
  OBVIOUS
<1>2. HvaTakes
  BY <1>1, HvaIdle
<1>3. \E o \in HvaOps : Shrunk(q["hva"], q'["hva"], o)
  BY <1>2, HvaTakesKeeps
<1> QED
  BY <1>3 DEF Nothing, Shrunk

LEMMA NewStep ==
  ASSUME Shape, AllLocal, New, Next, ~leaky'
  PROVE  Phase'
<1>1. post \/ api_request \/ Scheduler \/ Busy
  BY CalmMoves DEF New
<1>2. ~Busy
  BY LsStill, NothingTaken DEF New, Busy
<1>3. ~Scheduler
  BY DEF New, Scheduler, schedule_instance, schedule_start_instance, schedule_error
<1>4. ~api_request
  BY DEF New, api_request, delete, put_job, start, poweroff, poweron
<1>5. post
  BY <1>1, <1>2, <1>3, <1>4
<1>6. /\ inst'.state = "scheduling" /\ ~inst'.gone /\ sched' = "instance"
      /\ \A v \in Vol : vol'[v].state = "scheduling" /\ vol'[v].on
      /\ UNCHANGED <<q, w, mon, dom, disk>>
  BY <1>5 DEF post, real
<1>7. LsIdle' /\ Nothing' /\ h' = h
  BY <1>6 DEF New, LsIdle, Nothing, h
<1>8. Waiting'
  BY <1>6, <1>7 DEF New, Waiting, AllOn, Offered
<1> QED
  BY <1>8 DEF Phase

LEMMA WaitingStep ==
  ASSUME Shape, AllLocal, Waiting, Next, ~leaky'
  PROVE  Phase'
<1>1. post \/ api_request \/ Scheduler \/ Busy
  BY CalmMoves DEF Waiting
<1>2. ~Busy
  BY LsStill, NothingTaken DEF Waiting, Busy
<1>3. ~post
  BY DEF Waiting, post
<1>4. ~api_request
  BY DEF Waiting, api_request, delete, put_job, start, poweroff, poweron
<1>5. CASE schedule_instance
  <2>1. Boot \in Local /\ Shared = {}
    BY InstanceConstants, NoSta DEF AllLocal
  <2>2. /\ inst'.state = "pending" /\ inst'.host /\ inst'.gone = inst.gone /\ sched' = "none"
        /\ UNCHANGED <<w, mon, dom, disk>>
    BY <1>5, Row DEF schedule_instance, InstRow, real
  <2>3. \A v \in Vol : vol'[v].state = "pending" /\ vol'[v].on
    BY <1>5 DEF schedule_instance, updated
  <2>4. q'["hva"] = q["hva"] /\ q'["ls"] = Append(q["ls"], [op |-> "deploy", vol |-> NoVol])
    BY <1>5, <2>1, Basics DEF schedule_instance
  <2>5. Grown(q["ls"], q'["ls"], "deploy")
    BY <2>4, GrownBy, Basics
  <2>6. Once(q'["ls"], "deploy") /\ ~Has(q'["ls"], "delete")
    BY <2>5 DEF Grown, Waiting, LsIdle, Has, Once
  <2>7. h' = h /\ OnlyTerminate'
    BY <2>2, <2>4 DEF Waiting, Nothing, OnlyTerminate, h
  <2>8. Deploying'
    BY <2>2, <2>3, <2>6, <2>7 DEF Waiting, LsIdle, Deploying, AllOn, Offered
  <2> QED
    BY <2>8 DEF Phase
<1>6. CASE schedule_error
  <2>1. /\ inst'.state = "terminated" /\ sched' = "none" /\ faults' > 0
        /\ UNCHANGED <<q, w, mon, dom, disk>>
    BY <1>6, Row DEF schedule_error, destroyed, InstRow, real
  <2>2. \A v \in Vol : vol'[v].state = "deleted" /\ vol'[v].dead
    BY <1>6 DEF schedule_error, updated, Waiting
  <2>3. \A v \in Vol : ~Deletes(v)'
    <3>1. \A v : ~HasDelete(q["ls"], v)
      BY DEF Waiting, LsIdle, Has, HasDelete
    <3> QED
      BY <2>1, <3>1 DEF Waiting, LsIdle, Deletes
  <2>4. Once(q["ls"], "deploy")
    BY DEF Waiting, LsIdle, Has, Once
  <2>5. LsRows'
    BY <2>1, <2>2, <2>3, <2>4 DEF Waiting, LsIdle, LsRows, OneDeploy, DeletesLast, OfferedIsThere, DeployIsRight,
                                  Offered, NoDeploy
  <2>6. OnlyTerminate' /\ h' = h
    BY <2>1 DEF Waiting, Nothing, OnlyTerminate, h
  <2>7. RolledBack'
    BY <2>1, <2>2, <2>5, <2>6 DEF Waiting, LsIdle, RolledBack
  <2> QED
    BY <2>7 DEF Phase
<1>7. ~schedule_start_instance
  BY DEF Waiting, schedule_start_instance
<1> QED
  BY <1>1, <1>2, <1>3, <1>4, <1>5, <1>6, <1>7 DEF Scheduler

\* A busy worker takes the step its pc stands for.
LEMMA LsByPc ==
  ASSUME Shape, AllLocal, NEW x \in LsThread, work(x), w[x].op # "none"
  PROVE   /\ w[x].pc = "initializing" => S_initializing(x)
          /\ w[x].pc = "deploy" => D_deploy(x) \/ S_raise(x)
          /\ w[x].pc = "available" => S_available(x)
          /\ w[x].pc = "submit" => S_submit(x)
          /\ w[x].pc = "undeploy" => D_undeploy(x)
          /\ w[x].pc = "undeployed" => S_undeployed(x)
          /\ w[x].pc = "terminated" => S_abandon(x)
          /\ w[x].pc = "v_deleted" => S_release(x)
          /\ w[x].pc = "delete" => D_delete(x)
          /\ w[x].pc = "deleted" => S_deleted(x)
<1>1. LsRpc(x) \/ LsDriver(x) \/ S_raise(x)
  BY LsBusy
<1>2. S_initializing(x) => w[x].pc = "initializing"
  BY DEF S_initializing, At
<1>3. D_deploy(x) => w[x].pc = "deploy"
  BY DEF D_deploy, At
<1>4. S_raise(x) => w[x].pc = "deploy"
  <2>1. w[x] = Idle \/ LsDoing(w[x])
    BY DEF Shape
  <2> QED
    BY <2>1 DEF S_raise, LsDoing, Idle
<1>5. S_available(x) => w[x].pc = "available"
  BY DEF S_available, At
<1>6. S_submit(x) => w[x].pc = "submit"
  BY DEF S_submit, At
<1>7. D_undeploy(x) => w[x].pc = "undeploy"
  BY DEF D_undeploy, At
<1>8. S_undeployed(x) => w[x].pc = "undeployed"
  BY DEF S_undeployed, At
<1>9. S_abandon(x) => w[x].pc = "terminated"
  BY DEF S_abandon, At
<1>10. S_release(x) => w[x].pc = "v_deleted"
  BY DEF S_release, At
<1>11. D_delete(x) => w[x].pc = "delete"
  BY DEF D_delete, At
<1>12. S_deleted(x) => w[x].pc = "deleted"
  BY DEF S_deleted, At
<1> QED
  BY <1>1, <1>2, <1>3, <1>4, <1>5, <1>6, <1>7, <1>8, <1>9, <1>10, <1>11, <1>12 DEF LsRpc, LsDriver

LEMMA HvaByPc ==
  ASSUME Shape, AllLocal, work("hva"), h.op # "none"
  PROVE   /\ h.pc = "prepare" => D_prepare("hva") \/ S_raise("hva")
          /\ h.pc = "attaching" => S_attaching("hva")
          /\ h.pc = "run" => D_run("hva") \/ S_raise("hva")
          /\ h.pc = "poweron" => D_run("hva") \/ S_raise("hva")
          /\ h.pc = "running" => S_running("hva")
          /\ h.pc = "attached" => S_attached("hva")
          /\ h.pc = "t_domain" => D_domain("hva")
          /\ h.pc = "t_vol" => S_delete_local("hva")
          /\ h.pc = "t_disk" => D_disk("hva")
          /\ h.pc = "t_deleted" => S_deleted_local("hva")
          /\ h.pc = "finalize" => S_finalize("hva")
          /\ h.pc = "shuttingdown" => S_shut("hva")
          /\ h.pc = "stopping" => S_shut("hva")
          /\ h.pc = "stopped" => S_stopped("hva")
          /\ h.pc = "v_deleted" => S_release("hva")
          /\ h.pc = "poweroff" => D_off("hva") \/ S_raise("hva")
          /\ h.pc = "halted" => S_halted("hva")
          /\ h.pc = "soft_poweroff" => D_soft("hva") \/ S_raise("hva")
          /\ h.pc = "starting" => S_starting("hva")
          /\ h.pc = "reboot" => D_reboot("hva") \/ S_raise("hva")
<1>1. HvaRpc \/ HvaDriver \/ S_raise("hva")
  BY HvaBusy
<1>a. HvaDoing(h) /\ Shared = {}
  BY NoSta, IdleIs DEF Shape, h
<1>b. ~D_map("hva") /\ ~D_detach("hva") /\ ~S_submit("hva")
  <2>1. h.pc \notin {"map", "submit"}
    BY <1>a DEF HvaDoing, HvaOps
  <2>2. h.todo \ Local = {}
    BY WorkIs, Basics DEF h, AllLocal
  <2> QED
    BY <2>1, <2>2 DEF D_map, D_detach, S_submit, At, h
<1>2. D_prepare("hva") => h.pc \in {"prepare"}
  BY DEF D_prepare, At, h
<1>3. S_raise("hva") => h.pc \in {"prepare", "run", "poweron", "poweroff", "soft_poweroff", "reboot"}
  BY <1>a DEF S_raise, HvaDoing, h
<1>4. S_attaching("hva") => h.pc \in {"attaching"}
  BY DEF S_attaching, At, h
<1>5. D_run("hva") => h.pc \in {"run", "poweron"}
  BY DEF D_run, At, h
<1>6. S_running("hva") => h.pc \in {"running"}
  BY DEF S_running, At, h
<1>7. S_attached("hva") => h.pc \in {"attached"}
  BY DEF S_attached, At, h
<1>8. D_domain("hva") => h.pc \in {"t_domain"}
  BY DEF D_domain, At, h
<1>9. S_delete_local("hva") => h.pc \in {"t_vol"}
  BY DEF S_delete_local, At, h
<1>10. D_disk("hva") => h.pc \in {"t_disk"}
  BY DEF D_disk, At, h
<1>11. S_deleted_local("hva") => h.pc \in {"t_deleted"}
  BY DEF S_deleted_local, At, h
<1>12. S_finalize("hva") => h.pc \in {"finalize"}
  BY DEF S_finalize, At, h
<1>13. S_shut("hva") => h.pc \in {"shuttingdown", "stopping"}
  BY DEF S_shut, At, h
<1>14. S_stopped("hva") => h.pc \in {"stopped"}
  BY DEF S_stopped, At, h
<1>15. S_release("hva") => h.pc \in {"v_deleted"}
  BY DEF S_release, At, h
<1>16. D_off("hva") => h.pc \in {"poweroff"}
  BY DEF D_off, At, h
<1>17. S_halted("hva") => h.pc \in {"halted"}
  BY DEF S_halted, At, h
<1>18. D_soft("hva") => h.pc \in {"soft_poweroff"}
  BY DEF D_soft, At, h
<1>19. S_starting("hva") => h.pc \in {"starting"}
  BY DEF S_starting, At, h
<1>20. D_reboot("hva") => h.pc \in {"reboot"}
  BY DEF D_reboot, At, h
<1> QED
  BY <1>b, <1>1, <1>2, <1>3, <1>4, <1>5, <1>6, <1>7, <1>8, <1>9, <1>10, <1>11, <1>12, <1>13, <1>14, <1>15, <1>16, <1>17, <1>18, <1>19, <1>20 DEF HvaRpc, HvaDriver

(***************************************************************************)
(* Deploying and booting                                                   *)
(***************************************************************************)
LEMMA VolThere == Vol # {} /\ Boot \in Vol
BY InstanceConstants

\* What the phases of the deployment share.
DeployBase == /\ ~inst.gone /\ inst.host /\ sched = "none"
              /\ h.op = "none" /\ OnlyTerminate /\ mon.pc = "idle" /\ dom = "off" /\ AllOn
              /\ ~Has(q["ls"], "delete")

\* A deployment that fails is rolled back.
LEMMA DeployFails ==
  ASSUME Shape, Shape', AllLocal, DeployBase, NEW x \in LsThread, Forward(x), w[x].pc = "deploy",
         \A y \in LsThread : y # x => w[y].op = "none", ~Has(q["ls"], "deploy"), S_raise(x), work(x)
  PROVE  RolledBack'
<1>0. x \in Worker /\ x \notin {"hva", "sta"} /\ w[x].vols = Vol /\ inst.state = "initializing"
  BY Basics DEF Forward
<1>1. ~hopeless(x)
  BY DEF hopeless, at
<1>2. /\ faults' > 0 /\ UNCHANGED <<inst, vol, q, sched, mon, asked, dom>>
      /\ disk' \subseteq Vol
  <2>1. faults' = faults + 1 /\ faults \in Nat
    BY <1>1, Row DEF S_raise
  <2>2. UNCHANGED <<inst, vol, q, sched, mon, asked>>
    BY DEF S_raise, Does
  <2>3. dom' = dom
    BY LsOthers
  <2>4. disk' \subseteq Vol
    BY DEF Shape, TypeOK
  <2> QED
    BY <2>1, <2>2, <2>3, <2>4
<1>3. Loop(x, "undeploy", "terminated", w[x].vols \cap Local)
  BY DEF S_raise, Forward
<1>4. w[x].vols \cap Local = Vol /\ Vol # {}
  BY <1>0, VolThere DEF AllLocal
<1>5. w'[x].op = "deploy" /\ w'[x].vols = Vol /\ w'[x].pc = "undeploy" /\ w'[x].todo = Vol
  BY <1>3, <1>4 DEF Loop, To, Forward
<1>6. h' = h /\ \A y \in LsThread : y # x => w'[y].op = "none"
  BY LsOthers
<1>7. OnlyTerminate'
  BY <1>2 DEF DeployBase, OnlyTerminate
<1>8. \A v \in Vol : ~Deletes(v)'
  BY <1>2, <1>5, <1>6 DEF DeployBase, Deletes, Has, HasDelete
<1>9. Once(q["ls"], "deploy")
  BY DEF Has, Once
<1>10. OneDeploy'
  BY <1>0, <1>2, <1>5, <1>6, <1>9 DEF DeployBase, OneDeploy
<1>11. OfferedIsThere'
  BY <1>5 DEF OfferedIsThere, Owes
<1>12. DeployIsRight'
  BY <1>5, <1>6 DEF DeployIsRight
<1>13. LsRows'
  BY <1>8, <1>10, <1>11, <1>12 DEF LsRows, DeletesLast
<1>14. ~NoDeploy'
  BY <1>5 DEF NoDeploy
<1> QED
  BY <1>0, <1>2, <1>5, <1>6, <1>7, <1>13, <1>14 DEF DeployBase, RolledBack

LEMMA ForwardStep ==
  ASSUME Shape, Shape', AllLocal, DeployBase, NEW x \in LsThread, Forward(x),
         \A y \in LsThread : y # x => w[y].op = "none", ~Has(q["ls"], "deploy"), work(x)
  PROVE  Deploying' \/ Booting' \/ RolledBack' \/ leaky'
<1>0. x \in Worker /\ x \notin {"hva", "sta"} /\ w[x].op = "deploy" /\ w[x].vols = Vol
  BY Basics DEF Forward
<1>n. w[x].op # "none"
  BY <1>0
<1>a. h' = h /\ (\A y \in LsThread : y # x => w'[y] = w[y]) /\ UNCHANGED <<sched, mon, dom>>
  BY LsOthers
<1>b. w[x].vols \cap Local = Vol /\ Vol # {} /\ w[x].todo \subseteq Vol
  BY <1>0, VolThere, WorkIs DEF AllLocal
<1>c. w[x].pc \in {"initializing", "deploy", "available", "submit"}
  BY DEF Forward
<1>d. ASSUME UNCHANGED q, inst'.gone = inst.gone, inst'.host = inst.host, AllOn', Forward(x)'
      PROVE Deploying'
  <2>1. OnlyTerminate' /\ ~Has(q'["ls"], "delete") /\ ~Has(q'["ls"], "deploy")
    BY <1>d DEF DeployBase, OnlyTerminate
  <2> QED
    BY <1>a, <1>d, <2>1 DEF Deploying, DeployBase
<1>1. CASE w[x].pc = "initializing"
  <2>1. S_initializing(x)
    BY <1>n, <1>1, LsByPc
  <2>2. Sets("initializing") /\ w'[x].op = "deploy" /\ w'[x].pc = "deploy" /\ w'[x].todo = Vol /\ w'[x].vols = Vol
    BY <1>0, <1>b, <2>1 DEF S_initializing, Loop, To
  <2>3. inst'.state = "initializing" /\ inst'.gone = inst.gone /\ inst'.host = inst.host
    BY <2>2, SetIs
  <2>4. UNCHANGED <<vol, q, disk>>
    BY <2>2 DEF Sets
  <2>5. disk = {} /\ \A v \in Vol : ~Offered(v)
    BY <1>1 DEF Forward
  <2>6. Forward(x)'
    BY <2>2, <2>3, <2>4, <2>5 DEF Forward, Offered
  <2>7. AllOn'
    BY <2>4 DEF DeployBase, AllOn
  <2> QED
    BY <1>d, <2>3, <2>4, <2>6, <2>7
<1>2. CASE w[x].pc = "deploy"
  <2>1. D_deploy(x) \/ S_raise(x)
    BY <1>n, <1>2, LsByPc
  <2>2. CASE D_deploy(x)
    <3>1. PICK v \in w[x].todo : /\ Does(dom, disk \cup {v}, mapped)
                                 /\ To(x, "available", v, w[x].todo \ {v})
      BY <2>2 DEF D_deploy
    <3>2. UNCHANGED <<inst, vol, q>> /\ disk' = disk \cup {v}
      BY <3>1 DEF Does
    <3>3. /\ w'[x].op = "deploy" /\ w'[x].pc = "available" /\ w'[x].vols = Vol
          /\ w'[x].vol = v /\ w'[x].todo = w[x].todo \ {v}
      BY <1>0, <3>1 DEF To
    <3>4. /\ inst.state = "initializing" /\ disk = Vol \ w[x].todo
          /\ \A u \in Vol : IF u \in w[x].todo THEN ~Offered(u) ELSE vol[u].state = "available"
      BY <1>2 DEF Forward
    <3>5. disk' = Vol \ w'[x].todo
      BY <1>b, <3>2, <3>3, <3>4
    <3>6. Forward(x)'
      BY <1>b, <3>2, <3>3, <3>4, <3>5 DEF Forward, Offered
    <3>7. AllOn'
      BY <3>2 DEF DeployBase, AllOn
    <3> QED
      BY <1>d, <3>2, <3>6, <3>7
  <2>3. CASE S_raise(x)
    BY <1>2, <2>3, DeployFails
  <2> QED
    BY <2>1, <2>2, <2>3
<1>3. CASE w[x].pc = "available"
  <2>1. S_available(x)
    BY <1>n, <1>3, LsByPc
  <2>2. Marks(w[x].vol, "available") /\ Loop(x, "deploy", "submit", w[x].todo)
    BY <1>0, <2>1 DEF S_available
  <2>3. w[x].vol \in Vol /\ w[x].vol \notin w[x].todo /\ "available" \in VolState
    <3>1. w[x] = Idle \/ LsDoing(w[x])
      BY DEF Shape
    <3> QED
      BY <1>0, <1>3, <3>1 DEF LsDoing, Idle, VolState
  <2>4. /\ vol'[w[x].vol].state = "available" /\ vol'[w[x].vol].on = vol[w[x].vol].on
        /\ \A u \in Vol : u # w[x].vol => vol'[u] = vol[u]
    BY <2>2, <2>3, Marked
  <2>5. UNCHANGED <<inst, q, disk>>
    BY <2>2 DEF Marks
  <2>6. /\ inst.state = "initializing" /\ disk = Vol \ w[x].todo
        /\ \A u \in Vol : IF u \in w[x].todo \/ u = w[x].vol THEN ~Offered(u) ELSE vol[u].state = "available"
    BY <1>3 DEF Forward
  <2>7. AllOn'
    BY <2>3, <2>4 DEF DeployBase, AllOn
  <2>8. CASE w[x].todo = {}
    <3>1. w'[x].op = "deploy" /\ w'[x].pc = "submit" /\ w'[x].vols = Vol
      BY <1>0, <2>2, <2>8 DEF Loop, Goes, To
    <3>2. \A u \in Vol : vol'[u].state = "available"
      BY <2>4, <2>6, <2>8
    <3>3. Forward(x)'
      BY <2>5, <2>6, <2>8, <3>1, <3>2 DEF Forward
    <3> QED
      BY <1>d, <2>5, <2>7, <3>3
  <2>9. CASE w[x].todo # {}
    <3>1. w'[x].op = "deploy" /\ w'[x].pc = "deploy" /\ w'[x].vols = Vol /\ w'[x].todo = w[x].todo
      BY <1>0, <2>2, <2>9 DEF Loop, To
    <3>2. \A u \in Vol : IF u \in w[x].todo THEN ~Offered(u)' ELSE vol'[u].state = "available"
      BY <2>3, <2>4, <2>6 DEF Offered
    <3>3. Forward(x)'
      BY <2>5, <2>6, <3>1, <3>2 DEF Forward
    <3> QED
      BY <1>d, <2>5, <2>7, <3>3
  <2> QED
    BY <2>8, <2>9
<1>4. CASE w[x].pc = "submit"
  <2>1. S_submit(x)
    BY <1>n, <1>4, LsByPc
  <2>2. submit("hva", "run_local", NoVol) /\ w'[x] = Idle /\ UNCHANGED <<inst, vol, disk>>
    BY <1>0, <2>1 DEF S_submit, next_job, Goes, To, Apart
  <2>3. Grown(q["hva"], q'["hva"], "run_local") /\ q'["ls"] = q["ls"]
    BY <2>2, SentTo
  <2>4. Once(q["hva"], "run_local") /\ ~Has(q["hva"], "run_local")
    BY DEF DeployBase, OnlyTerminate, Has, Once
  <2>5. Once(q'["hva"], "run_local") /\ \A o : Has(q'["hva"], o) => o \in {"run_local", "terminate"}
    BY <2>3, <2>4 DEF Grown, DeployBase, OnlyTerminate
  <2>6. LsIdle'
    BY <1>a, <2>2, <2>3 DEF LsIdle, DeployBase, Idle
  <2>7. Booting'
    BY <1>4, <1>a, <2>2, <2>5, <2>6 DEF Forward, DeployBase, Booting, AllOn
  <2> QED
    BY <2>7
<1> QED
  BY <1>1, <1>2, <1>3, <1>4, <1>c

LEMMA DeployingStep ==
  ASSUME Shape, Shape', AllLocal, Deploying, Next, ~leaky'
  PROVE  Phase'
<1>0. DeployBase
  BY DEF Deploying, DeployBase
<1>a. inst.state \in {"pending", "initializing"}
  BY DEF Deploying, Forward
<1>1. api_request \/ Busy
  <2>1. post \/ api_request \/ Scheduler \/ Busy
    BY <1>0, <1>a, CalmMoves DEF DeployBase
  <2>2. ~post /\ ~Scheduler
    BY <1>0, <1>a DEF DeployBase, post, Scheduler, schedule_instance, schedule_start_instance, schedule_error
  <2> QED
    BY <2>1, <2>2
<1>b. ASSUME UNCHANGED <<inst, vol, sched, mon, dom, disk>>, OnlyTerminate', h'.op = "none", q'["ls"] = q["ls"],
             \A x \in LsThread : w'[x] = w[x]
      PROVE  Deploying'
  <2>1. AllOn'
    BY <1>0, <1>b DEF DeployBase, AllOn
  <2>2. \A x \in LsThread : Forward(x) => Forward(x)'
    BY <1>b DEF Forward, Offered
  <2>3. DeployBase'
    BY <1>0, <1>b, <2>1 DEF DeployBase
  <2>4. CASE /\ inst.state = "pending" /\ disk = {} /\ \A v \in Vol : ~Offered(v)
             /\ Once(q["ls"], "deploy") /\ \A x \in LsThread : w[x].op = "none"
    BY <1>b, <2>3, <2>4 DEF Deploying, DeployBase, Offered
  <2>5. CASE /\ ~Has(q["ls"], "deploy")
             /\ \E x \in LsThread : Forward(x) /\ \A y \in LsThread : y # x => w[y].op = "none"
    BY <1>b, <2>2, <2>3, <2>5 DEF Deploying, DeployBase
  <2> QED
    BY <2>4, <2>5 DEF Deploying
<1>2. CASE api_request
  <2>1. delete
    BY <1>2, <1>a DEF api_request, put_job, start, poweroff, poweron
  <2>2. /\ UNCHANGED <<inst, vol, sched, w, mon, dom, disk>> /\ q'["ls"] = q["ls"]
        /\ Grown(q["hva"], q'["hva"], "terminate") \/ q'["hva"] = q["hva"]
    BY <1>a, <2>1, DeleteIs
  <2>3. OnlyTerminate'
    BY <1>0, <2>2, OnlyTerminateGrows DEF DeployBase
  <2> QED
    BY <1>0, <1>b, <2>2, <2>3 DEF DeployBase, Phase, h
<1>3. CASE work("hva")
  <2>1. /\ OnlyTerminate' /\ h'.op = "none" /\ q'["ls"] = q["ls"] /\ (\A x \in LsThread : w'[x] = w[x])
        /\ UNCHANGED <<inst, vol, sched, mon, dom, disk>>
    BY <1>0, <1>3, <1>a, TerminateIgnored DEF DeployBase
  <2> QED
    BY <1>b, <2>1 DEF Phase
<1>4. ASSUME NEW x \in LsThread, work(x) PROVE Phase'
  <2>1. CASE /\ inst.state = "pending" /\ disk = {} /\ \A v \in Vol : ~Offered(v)
             /\ Once(q["ls"], "deploy") /\ \A y \in LsThread : w[y].op = "none"
    <3>1. LsTakes(x)
      BY <1>4, <2>1, LsIdleIs
    <3>2. ~Pulled("ls", "delete")
      BY <1>0, PulledFrom DEF DeployBase
    <3>3. Pulled("ls", "deploy") /\ Took(x, "deploy", "initializing", {})
      BY <2>1, <3>1, <3>2 DEF LsTakes
    <3>4. /\ Shrunk(q["ls"], q'["ls"], "deploy") /\ q'["hva"] = q["hva"]
          /\ UNCHANGED <<inst, vol, sched, mon, dom, disk>>
      BY <3>3, PulledFrom DEF Pulled
    <3>5. ~Has(q'["ls"], "deploy") /\ ~Has(q'["ls"], "delete")
      BY <1>0, <2>1, <3>4 DEF Shrunk, DeployBase
    <3>6. h' = h /\ \A y \in LsThread : y # x => w'[y] = w[y]
      BY <1>4, LsOthers
    <3>7. mine = Vol
      BY <1>0 DEF DeployBase, AllOn, mine
    <3>8. w'[x].op = "deploy" /\ w'[x].pc = "initializing" /\ w'[x].vols = Vol
      BY <3>3, <3>7 DEF Took
    <3>9. Forward(x)'
      BY <2>1, <3>4, <3>8 DEF Forward, Offered
    <3>10. OnlyTerminate' /\ AllOn'
      BY <1>0, <3>4 DEF DeployBase, OnlyTerminate, AllOn
    <3>11. Deploying'
      BY <1>0, <2>1, <3>4, <3>5, <3>6, <3>9, <3>10 DEF Deploying, DeployBase
    <3> QED
      BY <3>11 DEF Phase
  <2>2. CASE /\ ~Has(q["ls"], "deploy")
             /\ \E y \in LsThread : Forward(y) /\ \A z \in LsThread : z # y => w[z].op = "none"
    <3>1. PICK y \in LsThread : Forward(y) /\ \A z \in LsThread : z # y => w[z].op = "none"
      BY <2>2
    <3>2. x = y
      <4>1. SUFFICES ASSUME x # y PROVE FALSE
        OBVIOUS
      <4>2. LsTakes(x)
        BY <1>4, <3>1, <4>1, LsIdleIs
      <4>3. \E o \in {"deploy", "delete"} : Pulled("ls", o)
        BY <4>2 DEF LsTakes
      <4> QED
        BY <1>0, <2>2, <4>3, PulledFrom DEF DeployBase
    <3>3. Deploying' \/ Booting' \/ RolledBack' \/ leaky'
      BY <1>0, <1>4, <2>2, <3>1, <3>2, ForwardStep
    <3> QED
      BY <3>3 DEF Phase
  <2> QED
    BY <2>1, <2>2 DEF Deploying
<1> QED
  BY <1>1, <1>2, <1>3, <1>4 DEF Busy

BootBase == /\ inst.state = "initializing" /\ ~inst.gone /\ inst.host /\ sched = "none"
            /\ LsIdle /\ mon.pc = "idle" /\ dom = "off" /\ AllOn /\ disk = Vol
Queued == /\ h.op = "none" /\ Once(q["hva"], "run_local")
          /\ \A o : Has(q["hva"], o) => o \in {"run_local", "terminate"}
          /\ \A v \in Vol : vol[v].state = "available"
Preparing == /\ h.op = "run_local" /\ h.vols = Vol /\ h.pc \in {"prepare", "attaching", "run"}
             /\ OnlyTerminate

\* A boot that fails is torn down again.
LEMMA BootFails ==
  ASSUME Shape, Shape', AllLocal, BootBase, Preparing, h.pc \in {"prepare", "run"}, S_raise("hva"), work("hva")
  PROVE  Ending'
<1>1. ~hopeless("hva")
  <2>1. h.pc = "run" => bootable("hva")
    BY VolThere DEF BootBase, Preparing, bootable, AllLocal, h
  <2> QED
    BY <2>1 DEF hopeless, at, h
<1>2. faults' > 0
  BY <1>1, Row DEF S_raise
<1>3. UNCHANGED <<inst, vol, q, sched>> /\ disk' = disk
  BY <1>1 DEF S_raise, Does, At, h
<1>4. Goes("hva", "t_domain")
  BY DEF S_raise, Preparing, h
<1>5. h'.op = "run_local" /\ h'.vols = Vol /\ h'.pc = "t_domain"
  BY <1>4 DEF Goes, To, Preparing, h
<1>6. LsIdle'
  BY <1>3, HvaOthers DEF BootBase, LsIdle
<1>7. AllOn' /\ ~Has(q'["hva"], "run_local")
  BY <1>3 DEF BootBase, AllOn, Preparing, OnlyTerminate
<1> QED
  BY <1>2, <1>3, <1>5, <1>6, <1>7 DEF BootBase, Ending, Reason

LEMMA PreparingStep ==
  ASSUME Shape, Shape', AllLocal, BootBase, Preparing, work("hva")
  PROVE  Booting' \/ Alive' \/ Ending'
<1>n. h.op # "none" /\ "hva" \in Worker
  BY Basics DEF Preparing
<1>a. h.vols = Vol /\ Vol # {} /\ h.todo \subseteq Vol
  BY <1>n, VolThere, WorkIs DEF Preparing, h
<1>b. (\A x \in LsThread : w'[x] = w[x]) /\ UNCHANGED <<sched, mon>>
  BY HvaOthers
<1>c. ASSUME UNCHANGED <<q, inst, disk, dom>>, AllOn', h'.op = "run_local", h'.vols = Vol,
             h'.pc \in {"prepare", "attaching", "run"}
      PROVE  Booting'
  BY <1>b, <1>c DEF BootBase, Preparing, LsIdle, OnlyTerminate, Booting
<1>1. CASE h.pc = "prepare"
  <2>1. D_prepare("hva") \/ S_raise("hva")
    BY <1>n, <1>1, HvaByPc
  <2>2. CASE D_prepare("hva")
    <3>1. Loop("hva", "attaching", "run", h.vols) /\ Does(dom, disk, mapped)
      BY <2>2 DEF D_prepare, Preparing, h
    <3>2. h'.op = "run_local" /\ h'.vols = Vol /\ h'.pc = "attaching"
      BY <1>a, <3>1 DEF Loop, To, h, Preparing
    <3>3. UNCHANGED <<q, inst, vol, disk, dom>>
      BY <3>1 DEF Does
    <3>4. AllOn'
      BY <3>3 DEF BootBase, AllOn
    <3> QED
      BY <1>c, <3>2, <3>3, <3>4
  <2> QED
    BY <1>1, <2>1, <2>2, BootFails
<1>2. CASE h.pc = "attaching"
  <2>1. S_attaching("hva")
    BY <1>n, <1>2, HvaByPc
  <2>2. PICK v \in h.todo : /\ Marks(v, "attaching") /\ Loop("hva", "attaching", "run", h.todo \ {v})
    BY <2>1 DEF S_attaching, Preparing, h
  <2>3. v \in Vol /\ "attaching" \in VolState
    BY <1>a DEF VolState
  <2>4. vol'[v].on = vol[v].on /\ \A u \in Vol : u # v => vol'[u] = vol[u]
    BY <2>2, <2>3, Marked
  <2>5. AllOn'
    BY <2>4 DEF BootBase, AllOn
  <2>6. UNCHANGED <<q, inst, disk, dom>>
    BY <2>2 DEF Marks
  <2>7. h'.op = "run_local" /\ h'.vols = Vol /\ h'.pc \in {"attaching", "run"}
    BY <1>a, <2>2 DEF Loop, Goes, To, h, Preparing
  <2> QED
    BY <1>c, <2>5, <2>6, <2>7
<1>3. CASE h.pc = "run"
  <2>1. D_run("hva") \/ S_raise("hva")
    BY <1>n, <1>3, HvaByPc
  <2>2. CASE D_run("hva")
    <3>1. UNCHANGED <<q, inst, vol, disk>>
      BY <2>2 DEF D_run, Does
    <3>2. h'.op = "run_local" /\ h'.vols = Vol /\ h'.pc = "running"
      BY <2>2 DEF D_run, Goes, To, h, Preparing
    <3>3. AllOn' /\ LsIdle' /\ OnlyTerminate' /\ ~Has(q'["hva"], "run_local")
      BY <1>b, <3>1 DEF BootBase, AllOn, LsIdle, Preparing, OnlyTerminate
    <3>4. Alive'
      BY <1>b, <3>1, <3>2, <3>3 DEF BootBase, Alive
    <3> QED
      BY <3>4
  <2> QED
    BY <1>3, <2>1, <2>2, BootFails
<1> QED
  BY <1>1, <1>2, <1>3 DEF Preparing

LEMMA QueuedStep ==
  ASSUME Shape, Shape', AllLocal, BootBase, Queued, work("hva")
  PROVE  Booting'
<1>1. HvaTakes
  BY HvaIdle DEF Queued
<1>2. PICK o \in HvaOps : Pulled("hva", o) /\ Shrunk(q["hva"], q'["hva"], o) /\ q'["ls"] = q["ls"]
  BY <1>1, HvaTakesKeeps
<1>3. o \in {"run_local", "terminate"}
  BY <1>2 DEF Queued, Shrunk
<1>4. \A p : Pulled("hva", p) => p = o
  BY <1>2 DEF Pulled
<1>5. UNCHANGED <<inst, vol, disk, dom, sched, mon>>
  BY <1>2 DEF Pulled
<1>6. LsIdle' /\ AllOn'
  BY <1>2, <1>5, HvaOthers DEF BootBase, LsIdle, AllOn
<1>7. CASE o = "terminate"
  <2>1. Took("hva", "terminate", "idle", {})
    BY <1>1, <1>4, <1>7 DEF HvaTakes, BootBase
  <2>2. h'.op = "none"
    BY <2>1 DEF Took, h, Idle
  <2>3. Queued'
    BY <1>2, <1>5, <2>2 DEF Queued, Shrunk
  <2> QED
    BY <1>5, <1>6, <2>3 DEF BootBase, Queued, Booting
<1>8. CASE o = "run_local"
  <2>1. mine = Vol /\ all_available
    BY DEF BootBase, AllOn, Queued, mine, all_available
  <2>2. Took("hva", "run_local", "prepare", {})
    BY <1>1, <1>4, <1>8, <2>1 DEF HvaTakes, BootBase
  <2>3. h'.op = "run_local" /\ h'.vols = Vol /\ h'.pc = "prepare"
    BY <2>1, <2>2 DEF Took, h
  <2>4. OnlyTerminate'
    BY <1>2, <1>8 DEF Queued, Shrunk, OnlyTerminate
  <2> QED
    BY <1>5, <1>6, <2>3, <2>4 DEF BootBase, Booting
<1> QED
  BY <1>3, <1>7, <1>8

LEMMA BootingStep ==
  ASSUME Shape, Shape', AllLocal, Booting, Next, ~leaky'
  PROVE  Phase'
<1>0. BootBase /\ (Queued \/ Preparing)
  BY DEF Booting, BootBase, Queued, Preparing
<1>1. api_request \/ work("hva")
  <2>1. post \/ api_request \/ Scheduler \/ Busy
    BY <1>0, CalmMoves DEF BootBase
  <2>2. ~post /\ ~Scheduler
    BY <1>0 DEF BootBase, post, Scheduler, schedule_instance, schedule_start_instance, schedule_error
  <2>3. Busy => work("hva")
    BY <1>0, LsStill DEF Busy, BootBase
  <2> QED
    BY <2>1, <2>2, <2>3
<1>2. CASE api_request
  <2>1. delete
    BY <1>0, <1>2 DEF BootBase, api_request, put_job, start, poweroff, poweron
  <2>2. /\ UNCHANGED <<inst, vol, sched, w, mon, dom, disk>> /\ q'["ls"] = q["ls"]
        /\ Grown(q["hva"], q'["hva"], "terminate") \/ q'["hva"] = q["hva"]
    BY <1>0, <2>1, DeleteIs DEF BootBase
  <2>3. BootBase'
    BY <1>0, <2>2 DEF BootBase, LsIdle, AllOn
  <2>4. CASE Queued
    <3>1. Queued'
      BY <2>2, <2>4 DEF Queued, Grown, h
    <3> QED
      BY <2>3, <3>1 DEF BootBase, Queued, Booting, Phase
  <2>5. CASE Preparing
    <3>1. OnlyTerminate'
      BY <2>2, <2>5, OnlyTerminateGrows DEF Preparing
    <3>2. Preparing'
      BY <2>2, <2>5, <3>1 DEF Preparing, h
    <3> QED
      BY <2>3, <3>2 DEF BootBase, Preparing, Booting, Phase
  <2> QED
    BY <1>0, <2>4, <2>5
<1>3. CASE work("hva")
  BY <1>0, <1>3, QueuedStep, PreparingStep DEF Phase
<1> QED
  BY <1>1, <1>2, <1>3

(***************************************************************************)
(* Alive: requests, the monitor, and the jobs of a domain that exists      *)
(***************************************************************************)
Up == {"running", "halting", "halted", "starting"}

\* An API request for an instance that is not stopped.
LEMMA AskedIs ==
  ASSUME Shape, api_request, inst.state # "stopped"
  PROVE  /\ UNCHANGED <<vol, sched, w, mon, dom, disk, mapped, faults, leaky>>
         /\ q'["ls"] = q["ls"] /\ asked \subseteq asked'
         /\ inst'.gone = inst.gone /\ inst'.host = inst.host
         /\ \/ inst'.state = inst.state
            \/ inst.state \in {"running", "halting"} /\ inst'.state = "halting"
            \/ inst.state = "halted" /\ inst'.state = "starting"
         /\ \E r \in {"terminate", "reboot", "stop", "poweroff", "soft_poweroff", "poweron"} :
              Grown(q["hva"], q'["hva"], r) \/ q'["hva"] = q["hva"]
         /\ inst.state \notin {"running", "halting", "halted"} =>
              Grown(q["hva"], q'["hva"], "terminate") \/ q'["hva"] = q["hva"]
<1>0. inst \in InstRow
  BY Row
<1>1. CASE delete
  BY <1>1, DeleteIs
<1>2. ASSUME NEW r \in {"reboot", "stop"}, put_job(r)
      PROVE  /\ UNCHANGED <<inst, vol, sched, w, mon, dom, disk, mapped, faults, leaky>>
             /\ q'["ls"] = q["ls"] /\ asked \subseteq asked' /\ inst.state = "running"
             /\ Grown(q["hva"], q'["hva"], r) \/ q'["hva"] = q["hva"]
  BY <1>2, AskedHost DEF put_job, accept, real
<1>3. ~start
  BY DEF start
<1>4. ASSUME NEW r \in {"poweroff", "soft_poweroff"}, poweroff(r)
      PROVE  /\ UNCHANGED <<vol, sched, w, mon, dom, disk, mapped, faults, leaky>>
             /\ q'["ls"] = q["ls"] /\ asked \subseteq asked'
             /\ inst.state \in {"running", "halting"} /\ inst'.state = "halting"
             /\ inst'.gone = inst.gone /\ inst'.host = inst.host
             /\ Grown(q["hva"], q'["hva"], r) \/ q'["hva"] = q["hva"]
  BY <1>0, <1>4, AskedHost DEF poweroff, accept, real, update_instance, InstRow
<1>5. CASE poweron
  <2>1. /\ UNCHANGED <<vol, sched, w, mon, dom, disk, mapped, faults, leaky>>
        /\ q'["ls"] = q["ls"] /\ asked \subseteq asked'
        /\ inst.state = "halted" /\ inst'.state = "starting"
        /\ inst'.gone = inst.gone /\ inst'.host = inst.host
        /\ Grown(q["hva"], q'["hva"], "poweron") \/ q'["hva"] = q["hva"]
    BY <1>0, <1>5, AskedHost DEF poweron, accept, real, update_instance, InstRow
  <2> QED
    BY <2>1
<1> QED
  BY <1>1, <1>2, <1>3, <1>4, <1>5 DEF api_request

\* The monitor only sets halted and sends force.
LEMMA MonitorIs ==
  ASSUME Shape, monitor
  PROVE  /\ UNCHANGED <<vol, sched, w, dom, disk, mapped, faults, asked, leaky>>
         /\ q'["ls"] = q["ls"] /\ inst'.gone = inst.gone /\ inst'.host = inst.host
         /\ inst'.state = inst.state \/ (mon.pc # "idle" /\ inst'.state = "halted")
         /\ q'["hva"] = q["hva"] \/ (mon.pc # "idle" /\ Grown(q["hva"], q'["hva"], "force"))
         /\ mon.pc = "idle" => inst.state \in {"running", "halting", "shuttingdown"}
<1>0. inst \in InstRow
  BY Row
<1>1. CASE get_instance_monitor_data \/ check_instance
  BY <1>1 DEF get_instance_monitor_data, check_instance, rows, real, api
<1>2. CASE instance_state_recovery
  <2>1. CASE mon.seen = "shuttingdown"
    <3>1. submit("hva", "force", NoVol) /\ inst' = inst /\ mon.pc = "recover"
      BY <1>2, <2>1 DEF instance_state_recovery
    <3>2. Grown(q["hva"], q'["hva"], "force") /\ q'["ls"] = q["ls"]
      BY <3>1, SentTo
    <3> QED
      BY <1>2, <3>1, <3>2 DEF instance_state_recovery, real, api
  <2>2. CASE mon.seen # "shuttingdown"
    <3>1. inst'.state = "halted" /\ inst'.gone = inst.gone /\ inst'.host = inst.host /\ q' = q /\ mon.pc = "recover"
      BY <1>0, <1>2, <2>2 DEF instance_state_recovery, update_instance, InstRow
    <3> QED
      BY <1>2, <3>1 DEF instance_state_recovery, real, api
  <2> QED
    BY <2>1, <2>2
<1> QED
  BY <1>1, <1>2 DEF monitor

LEMMA ShutdownIs ==
  ASSUME Shape, guest_shutdown
  PROVE  /\ UNCHANGED <<inst, vol, q, sched, w, mon, disk, mapped, asked, leaky>>
         /\ dom # "off" /\ dom' = "off" /\ faults' \in Nat /\ faults' >= faults
<1>1. faults \in Nat
  BY Row
<1>2. faults' = faults \/ faults' = faults + 1
  BY <1>1 DEF guest_shutdown
<1>3. faults' \in Nat /\ faults' >= faults
  BY <1>1, <1>2
<1> QED
  BY <1>3 DEF guest_shutdown, effect, untouched, rows, Steps, api

AliveBase == /\ ~inst.gone /\ inst.host /\ sched = "none"
             /\ LsIdle /\ AllOn /\ disk = Vol /\ ~Has(q["hva"], "run_local")
Finishing == /\ h.op = "run_local" /\ h.vols = Vol
             /\ \/ h.pc = "running" /\ inst.state = "initializing" /\ mon.pc = "idle" /\ OnlyTerminate
                \/ h.pc = "attached" /\ inst.state \in Up /\ \A v \in Vol \ h.todo : vol[v].state = "attached"
Calls == {"idle", "reboot", "poweroff", "halted", "soft_poweroff", "starting",
          "prepare", "poweron", "running", "stopping", "shuttingdown"}
Settled == /\ h.op # "run_local" /\ (h.op = "none" \/ h.vols = Vol)
           /\ inst.state \in Up /\ h.pc \in Calls /\ \A v \in Vol : vol[v].state = "attached"

LEMMA AliveIs == Alive <=> AliveBase /\ (Finishing \/ Settled)
<1>1. Alive => AliveBase
  BY DEF Alive, AliveBase
<1>2. Alive /\ h.op = "run_local" => Finishing
  BY DEF Alive, Finishing, Up
<1>3. Alive /\ h.op # "run_local" => Settled
  BY DEF Alive, Settled, Up, Calls
<1>4. AliveBase /\ Finishing => Alive
  BY DEF Alive, AliveBase, Finishing, Up
<1>5. AliveBase /\ Settled => Alive
  BY DEF Alive, AliveBase, Settled, Up, Calls
<1> QED
  BY <1>1, <1>2, <1>3, <1>4, <1>5
LEMMA AliveNext ==
  ASSUME AliveBase', (Finishing \/ Settled)'
  PROVE  Alive'
<1>4. AliveBase' /\ Finishing' => Alive'
  BY DEF Alive, AliveBase, Finishing, Up
<1>5. AliveBase' /\ Settled' => Alive'
  BY DEF Alive, AliveBase, Settled, Up, Calls
<1> QED
  BY <1>4, <1>5

\* A step that changes no volume leaves an instance with a domain as it is.
LEMMA AliveKept ==
  ASSUME AliveBase, UNCHANGED <<sched, vol, disk>>, inst'.gone = inst.gone, inst'.host = inst.host,
         \A x \in LsThread : w'[x] = w[x], q'["ls"] = q["ls"],
         Has(q'["hva"], "run_local") => Has(q["hva"], "run_local")
  PROVE  AliveBase'
BY DEF AliveBase, LsIdle, AllOn

LEMMA FinishingStep ==
  ASSUME Shape, Shape', AllLocal, AliveBase, Finishing, work("hva")
  PROVE  Alive'
<1>n. h.op # "none" /\ "hva" \in Worker
  BY Basics DEF Finishing
<1>a. h.vols = Vol /\ Vol # {} /\ h.todo \subseteq Vol
  BY <1>n, VolThere, WorkIs DEF Finishing, h
<1>b. (\A x \in LsThread : w'[x] = w[x]) /\ UNCHANGED <<sched, mon>>
  BY HvaOthers
<1>1. CASE h.pc = "running"
  <2>1. S_running("hva")
    BY <1>n, <1>1, HvaByPc
  <2>2. Sets("running") /\ h'.op = "run_local" /\ h'.vols = Vol /\ h'.pc = "attached" /\ h'.todo = Vol
    BY <1>a, <2>1 DEF S_running, Loop, To, h, Finishing
  <2>3. inst'.state = "running" /\ inst'.gone = inst.gone /\ inst'.host = inst.host /\ UNCHANGED <<vol, q, disk>>
    BY <2>2, SetIs DEF Sets
  <2>4. AliveBase'
    BY <1>b, <2>3, AliveKept
  <2>5. Finishing'
    BY <2>2, <2>3 DEF Finishing, Up
  <2> QED
    BY <2>4, <2>5, AliveNext
<1>2. CASE h.pc = "attached"
  <2>1. S_attached("hva")
    BY <1>n, <1>2, HvaByPc
  <2>2. PICK v \in h.todo : Marks(v, "attached") /\ Loop("hva", "attached", "idle", h.todo \ {v})
    BY <2>1 DEF S_attached, h
  <2>3. v \in Vol /\ "attached" \in VolState
    BY <1>a DEF VolState
  <2>4. /\ vol'[v].state = "attached" /\ vol'[v].on = vol[v].on
        /\ \A u \in Vol : u # v => vol'[u] = vol[u]
    BY <2>2, <2>3, Marked
  <2>5. UNCHANGED <<inst, q, disk>>
    BY <2>2 DEF Marks
  <2>6. AllOn'
    BY <2>4 DEF AliveBase, AllOn
  <2>7. AliveBase'
    BY <1>b, <2>5, <2>6 DEF AliveBase, LsIdle
  <2>8. inst.state \in Up /\ \A u \in Vol \ h.todo : vol[u].state = "attached"
    BY <1>2 DEF Finishing
  <2>9. CASE h.todo \ {v} = {}
    <3>1. h' = Idle
      BY <2>2, <2>9 DEF Loop, Goes, To, h
    <3>2. \A u \in Vol : vol'[u].state = "attached"
      BY <2>4, <2>8, <2>9
    <3>3. Settled'
      BY <2>5, <2>8, <3>1, <3>2 DEF Settled, Idle, Calls
    <3> QED
      BY <2>7, <3>3, AliveNext
  <2>10. CASE h.todo \ {v} # {}
    <3>1. h'.op = "run_local" /\ h'.vols = Vol /\ h'.pc = "attached" /\ h'.todo = h.todo \ {v}
      BY <2>2, <2>10 DEF Loop, To, h, Finishing
    <3>2. Finishing'
      BY <2>4, <2>5, <2>8, <3>1 DEF Finishing
    <3> QED
      BY <2>7, <3>2, AliveNext
  <2> QED
    BY <2>9, <2>10
<1> QED
  BY <1>1, <1>2 DEF Finishing

\* The job that hva-handle takes when the instance has no boot left in its queue.
LEMMA TakesCalls ==
  ASSUME Shape, AllLocal, HvaTakes, ~Has(q["hva"], "run_local")
  PROVE  /\ UNCHANGED <<inst, vol, sched, mon, asked, dom, disk, mapped, faults, leaky>>
         /\ \E o \in HvaOps : Shrunk(q["hva"], q'["hva"], o) /\ Has(q["hva"], o)
         /\ q'["ls"] = q["ls"] /\ \A x \in LsThread : w'[x] = w[x]
         /\ \/ h' = Idle
            \/ /\ h'.vols = mine /\ h'.todo = {}
               /\ \/ h'.op = "terminate" /\ h'.pc = "shuttingdown" /\ inst.state \in {"running", "halted"}
                  \/ h'.op = "force" /\ h'.pc = "shuttingdown"
                  \/ h'.op = "stop" /\ h'.pc = "stopping" /\ inst.state = "running"
                  \/ h'.op = "poweroff" /\ h'.pc = "poweroff"
                  \/ h'.op = "soft_poweroff" /\ h'.pc = "soft_poweroff"
                  \/ h'.op = "poweron" /\ h'.pc = "starting"
                  \/ h'.op = "reboot" /\ h'.pc = "reboot"
<1>1. PICK o \in HvaOps : Pulled("hva", o) /\ Shrunk(q["hva"], q'["hva"], o) /\ q'["ls"] = q["ls"]
  BY HvaTakesKeeps
<1>2. o # "run_local" /\ Has(q["hva"], o)
  BY <1>1 DEF Shrunk
<1>3. o \notin {"wait", "run_vol"}
  BY NoSta DEF HvaOps
<1>4. \A p : Pulled("hva", p) => p = o
  BY <1>1 DEF Pulled
<1>5. UNCHANGED <<inst, vol, sched, mon, asked, dom, disk, mapped, faults, leaky>>
  BY <1>1 DEF Pulled
<1>6. "hva" \in Worker /\ LsThread \subseteq Worker /\ "hva" \notin LsThread
  BY Basics
<1>7. \E p, pc : Took("hva", p, pc, {})
  BY <1>2, <1>3, <1>4 DEF HvaTakes
<1>8. \A x \in LsThread : w'[x] = w[x]
  BY <1>6, <1>7 DEF Took
<1>9. ASSUME NEW p, NEW pc, Took("hva", p, pc, {})
      PROVE IF pc = "idle" THEN h' = Idle ELSE h'.op = p /\ h'.vols = mine /\ h'.todo = {} /\ h'.pc = pc
  BY <1>9 DEF Took, h
<1>10. \/ h' = Idle
       \/ /\ h'.vols = mine /\ h'.todo = {}
          /\ \/ h'.op = "terminate" /\ h'.pc = "shuttingdown" /\ inst.state \in {"running", "halted"}
             \/ h'.op = "force" /\ h'.pc = "shuttingdown"
             \/ h'.op = "stop" /\ h'.pc = "stopping" /\ inst.state = "running"
             \/ h'.op = "poweroff" /\ h'.pc = "poweroff"
             \/ h'.op = "soft_poweroff" /\ h'.pc = "soft_poweroff"
             \/ h'.op = "poweron" /\ h'.pc = "starting"
             \/ h'.op = "reboot" /\ h'.pc = "reboot"
  <2>1. CASE o = "terminate"
    BY <1>4, <1>9, <2>1 DEF HvaTakes
  <2>2. CASE o = "force"
    BY <1>4, <1>9, <2>2 DEF HvaTakes
  <2>3. CASE o = "stop"
    BY <1>4, <1>9, <2>3 DEF HvaTakes
  <2>4. CASE o = "poweroff"
    BY <1>4, <1>9, <2>4 DEF HvaTakes
  <2>5. CASE o = "soft_poweroff"
    BY <1>4, <1>9, <2>5 DEF HvaTakes
  <2>6. CASE o = "poweron"
    BY <1>4, <1>9, <2>6 DEF HvaTakes
  <2>7. CASE o = "reboot"
    BY <1>4, <1>9, <2>7 DEF HvaTakes
  <2> QED
    BY <1>2, <1>3, <2>1, <2>2, <2>3, <2>4, <2>5, <2>6, <2>7 DEF HvaOps
<1> QED
  BY <1>1, <1>2, <1>5, <1>8, <1>10

\* A driver error in a job of an instance that is not booting.
LEMMA CallRaises ==
  ASSUME Shape, AllLocal, h.op # "none", h.op # "run_local", S_raise("hva")
  PROVE  /\ UNCHANGED <<q, inst, vol, disk, sched, mon, asked>>
         /\ h' = Idle \/ (h.op = "poweron" /\ h'.op = "poweron" /\ h'.pc = "halted" /\ h'.vols = h.vols)
<1>1. HvaDoing(h) /\ Shared = {}
  BY NoSta, IdleIs DEF Shape, h
<1>2. h.pc \notin {"map", "deploy", "create"} /\ h.op \notin {"run_vol", "deploy", "create"}
  BY <1>1 DEF HvaDoing, HvaOps
<1>3. UNCHANGED <<q, inst, vol, sched, mon, asked>>
  BY DEF S_raise, Does
<1>4. disk' = disk
  BY <1>2 DEF S_raise, Does, At, h
<1>5. \/ h.op = "poweron" /\ Goes("hva", "halted")
      \/ Goes("hva", "idle")
  BY <1>2 DEF S_raise, h
<1>6. h' = Idle \/ (h.op = "poweron" /\ h'.op = "poweron" /\ h'.pc = "halted" /\ h'.vols = h.vols)
  BY <1>5 DEF Goes, To, h
<1> QED
  BY <1>3, <1>4, <1>6

LEMMA SettledStep ==
  ASSUME Shape, Shape', AllLocal, Meant, AliveBase, Settled, work("hva")
  PROVE  Alive' \/ Ending'
<1>a. mine = Vol
  BY DEF AliveBase, AllOn, mine
<1>b. (\A x \in LsThread : w'[x] = w[x]) /\ UNCHANGED <<sched, mon, asked>> /\ "hva" \in Worker
  BY HvaOthers, Basics
<1>c. ASSUME UNCHANGED <<vol, disk>>, q'["ls"] = q["ls"], Has(q'["hva"], "run_local") => Has(q["hva"], "run_local"),
             inst'.gone = inst.gone, inst'.host = inst.host, inst'.state \in Up,
             h'.op # "run_local", h' = Idle \/ h'.vols = Vol, h'.pc \in Calls
      PROVE  Alive'
  <2>1. AliveBase'
    BY <1>b, <1>c, AliveKept
  <2>2. Settled'
    BY <1>c DEF Settled, Idle
  <2> QED
    BY <2>1, <2>2, AliveNext
<1>i. Idle.op = "none" /\ Idle.pc = "idle"
  BY DEF Idle
<1>1. CASE h.op = "none"
  <2>1. HvaTakes
    BY <1>1, HvaIdle
  <2>2. ~Has(q["hva"], "run_local")
    BY DEF AliveBase
  <2>3. /\ UNCHANGED <<inst, vol, disk>> /\ q'["ls"] = q["ls"] /\ ~Has(q'["hva"], "run_local")
    BY <2>1, <2>2, TakesCalls DEF Shrunk
  <2>4. h'.op # "run_local" /\ (h' = Idle \/ h'.vols = Vol) /\ h'.pc \in Calls
    BY <1>a, <1>i, <2>1, <2>2, TakesCalls DEF Calls
  <2> QED
    BY <1>c, <2>3, <2>4 DEF Settled
<1>2. CASE h.op # "none"
  <2>n. HvaDoing(h) /\ h.op \in HvaOps /\ h.op \notin {"wait", "run_vol", "run_local"} /\ h.vols = Vol
    <3>1. HvaDoing(h) /\ Shared = {}
      BY <1>2, NoSta, IdleIs DEF Shape, h
    <3> QED
      BY <1>2, <3>1 DEF HvaDoing, HvaOps, Settled
  <2>d. ASSUME NEW pc \in Calls, Goes("hva", pc)
        PROVE  h'.op # "run_local" /\ (h' = Idle \/ h'.vols = Vol) /\ h'.pc \in Calls
    BY <1>i, <2>d, <2>n DEF Goes, To, h, Calls
  <2>e. ASSUME NEW s \in Up, Sets(s), NEW pc \in Calls, Goes("hva", pc)
        PROVE  Alive'
    <3>1. UNCHANGED <<q, vol, disk>> /\ inst'.state = s /\ inst'.gone = inst.gone /\ inst'.host = inst.host
      BY <2>e, SetIs DEF Sets
    <3> QED
      BY <1>c, <2>d, <2>e, <3>1
  <2>f. ASSUME NEW d, Does(d, disk, mapped), NEW pc \in Calls, Goes("hva", pc)
        PROVE  Alive'
    <3>1. UNCHANGED <<q, inst, vol, disk>>
      BY <2>f DEF Does
    <3> QED
      BY <1>c, <2>d, <2>f, <3>1 DEF Settled
  <2>r. ASSUME S_raise("hva") PROVE Alive'
    <3>1. UNCHANGED <<q, inst, vol, disk>>
      BY <1>2, <2>r, CallRaises DEF Settled
    <3>2. h'.op # "run_local" /\ (h' = Idle \/ h'.vols = Vol) /\ h'.pc \in Calls
      BY <1>2, <1>i, <2>n, <2>r, CallRaises DEF Calls, Settled
    <3> QED
      BY <1>c, <3>1, <3>2 DEF Settled
  <2>1. CASE h.pc = "reboot"
    BY <1>2, <2>1, <2>f, <2>r, HvaByPc DEF D_reboot, Calls
  <2>2. CASE h.pc = "poweroff"
    BY <1>2, <2>2, <2>f, <2>r, HvaByPc DEF D_off, Calls
  <2>3. CASE h.pc = "soft_poweroff"
    BY <1>2, <2>3, <2>f, <2>r, HvaByPc DEF D_soft, Calls
  <2>4. CASE h.pc = "halted"
    BY <1>2, <2>4, <2>e, HvaByPc DEF S_halted, Calls, Up
  <2>5. CASE h.pc = "starting"
    BY <1>2, <2>5, <2>e, HvaByPc DEF S_starting, Calls, Up
  <2>6. CASE h.pc = "prepare"
    <3>1. D_prepare("hva") \/ S_raise("hva")
      BY <1>2, <2>6, HvaByPc
    <3>2. D_prepare("hva") => Does(dom, disk, mapped) /\ Goes("hva", "poweron")
      BY <2>n DEF D_prepare, h
    <3> QED
      BY <2>f, <2>r, <3>1, <3>2 DEF Calls
  <2>7. CASE h.pc = "poweron"
    BY <1>2, <2>7, <2>f, <2>r, HvaByPc DEF D_run, Calls
  <2>8. CASE h.pc = "running"
    <3>1. h.op = "poweron"
      BY <2>8, <2>n DEF HvaDoing
    <3>2. Sets("running") /\ Goes("hva", "idle")
      BY <1>2, <2>8, <3>1, HvaByPc DEF S_running, Loop, h
    <3> QED
      BY <2>e, <3>2 DEF Calls, Up
  <2>9. CASE h.pc \in {"stopping", "shuttingdown"}
    <3>1. S_shut("hva")
      BY <1>2, <2>9, HvaByPc
    <3>2. PICK s \in {"shuttingdown", "stopping"} : Sets(s) /\ Goes("hva", "t_domain")
      BY <3>1 DEF S_shut
    <3>3. h'.op = h.op /\ h'.vols = Vol /\ h'.pc = "t_domain"
      BY <2>n, <3>2 DEF Goes, To, h
    <3>4. inst'.state = s /\ inst'.host = inst.host /\ UNCHANGED <<q, vol, disk>>
      BY <3>2, SetIs DEF Sets
    <3>5. h.op \in {"terminate", "force", "stop"}
      BY <2>9, <2>n DEF HvaDoing
    <3>6. Reason'
      BY <1>b, <3>5 DEF Meant, Reason
    <3>7. LsIdle' /\ AllOn' /\ ~Has(q'["hva"], "run_local")
      BY <1>b, <3>4 DEF AliveBase, LsIdle, AllOn
    <3>8. Ending'
      BY <1>b, <3>3, <3>4, <3>6, <3>7 DEF AliveBase, Ending
    <3> QED
      BY <3>8
  <2>10. h.pc # "idle"
    BY <1>2, IdleIs
  <2> QED
    BY <2>1, <2>2, <2>3, <2>4, <2>5, <2>6, <2>7, <2>8, <2>9, <2>10 DEF Settled, Calls
<1> QED
  BY <1>1, <1>2

LEMMA AliveStep ==
  ASSUME Shape, Shape', AllLocal, Meant, Alive, Next, ~leaky'
  PROVE  Phase'
<1>0. AliveBase /\ (Finishing \/ Settled)
  BY AliveIs
<1>a. inst.state \in Up \cup {"initializing"} /\ (inst.state = "initializing" => Finishing)
  BY <1>0 DEF Finishing, Settled, Up
<1>b. ASSUME UNCHANGED <<vol, sched, w, disk>>, q'["ls"] = q["ls"], inst'.gone = inst.gone, inst'.host = inst.host,
             Has(q'["hva"], "run_local") => Has(q["hva"], "run_local"),
             inst.state \in Up => inst'.state \in Up,
             inst.state = "initializing" => inst'.state = inst.state /\ mon' = mon /\ OnlyTerminate'
      PROVE  Phase'
  <2>1. AliveBase'
    BY <1>0, <1>b, AliveKept
  <2>2. Finishing => Finishing'
    BY <1>b DEF Finishing, h, Up
  <2>3. Settled => Settled'
    BY <1>b DEF Settled, h
  <2> QED
    BY <1>0, <2>1, <2>2, <2>3, AliveNext DEF Phase
<1>c. inst.state = "initializing" => OnlyTerminate /\ mon.pc = "idle"
  BY <1>a DEF Finishing, Up
<1>1. api_request \/ work("hva") \/ monitor \/ guest_shutdown
  <2>1. ~post /\ ~Scheduler
    BY <1>0, <1>a DEF AliveBase, Up, post, Scheduler, schedule_instance, schedule_start_instance, schedule_error
  <2>2. Busy => work("hva")
    BY <1>0, LsStill DEF Busy, AliveBase
  <2> QED
    BY <2>1, <2>2, Moves
<1>2. CASE api_request
  <2>0. inst.state # "stopped"
    BY <1>a DEF Up
  <2>1. UNCHANGED <<vol, sched, w, mon, disk>> /\ q'["ls"] = q["ls"] /\ inst'.gone = inst.gone /\ inst'.host = inst.host
    BY <1>2, <2>0, AskedIs
  <2>2. Has(q'["hva"], "run_local") => Has(q["hva"], "run_local")
    BY <1>2, <2>0, AskedIs DEF Grown
  <2>3. /\ inst.state \in Up => inst'.state \in Up
        /\ inst.state = "initializing" => inst'.state = inst.state
    BY <1>2, <2>0, AskedIs DEF Up
  <2>4. inst.state = "initializing" => OnlyTerminate'
    BY <1>2, <1>c, <2>0, AskedIs, OnlyTerminateGrows
  <2> QED
    BY <1>b, <2>1, <2>2, <2>3, <2>4
<1>3. CASE work("hva")
  BY <1>0, <1>3, FinishingStep, SettledStep DEF Phase
<1>4. CASE monitor
  <2>1. UNCHANGED <<vol, sched, w, disk>> /\ q'["ls"] = q["ls"] /\ inst'.gone = inst.gone /\ inst'.host = inst.host
    BY <1>4, MonitorIs
  <2>2. Has(q'["hva"], "run_local") => Has(q["hva"], "run_local")
    BY <1>4, MonitorIs DEF Grown
  <2>3. inst.state \in Up => inst'.state \in Up
    BY <1>4, MonitorIs DEF Up
  <2>4. inst.state # "initializing"
    BY <1>4, <1>c, MonitorIs
  <2> QED
    BY <1>b, <2>1, <2>2, <2>3, <2>4
<1>5. CASE guest_shutdown
  <2>1. UNCHANGED <<inst, vol, sched, q, w, mon, disk>>
    BY <1>5, ShutdownIs
  <2>2. inst.state = "initializing" => OnlyTerminate'
    BY <1>c, <2>1 DEF OnlyTerminate
  <2> QED
    BY <1>b, <2>1, <2>2
<1> QED
  BY <1>1, <1>2, <1>3, <1>4, <1>5

(***************************************************************************)
(* Ending: the domain is destroyed, the volumes are deleted                *)
(***************************************************************************)
EndStates == {"initializing", "shuttingdown", "stopping", "halted", "starting", "terminated"}
EndBase == /\ inst.host /\ sched = "none" /\ LsIdle /\ AllOn /\ ~Has(q["hva"], "run_local") /\ Reason
           /\ inst.state \in EndStates /\ (h.op = "none" \/ h.vols = Vol)
Doomed == /\ h.pc = "t_domain" /\ (dom # "off" => disk = Vol)
          /\ \A v \in Vol : Offered(v) => v \in disk
Tearing == /\ h.pc \in {"t_vol", "t_disk", "t_deleted"} /\ dom = "off"
           /\ \A v \in Vol : IF v \in h.todo THEN Offered(v) => v \in disk
                             ELSE \/ Clean(v)
                                  \/ h.pc = "t_disk" /\ v = h.vol /\ ~Offered(v)
                                  \/ h.pc = "t_deleted" /\ v = h.vol /\ ~Offered(v) /\ v \notin disk
After == {"idle", "finalize", "stopped", "shuttingdown", "starting", "prepare", "poweron", "halted",
          "poweroff", "soft_poweroff", "reboot"}
Torn == /\ h.pc \in After /\ (h.pc = "prepare" => h.op = "poweron")
        /\ dom = "off" /\ \A v \in Vol : Clean(v)

LEMMA EndingIs ==
  ASSUME Ending
  PROVE  EndBase /\ (Doomed \/ Tearing \/ Torn)
<1>1. EndBase
  BY DEF Ending, EndBase, EndStates
<1>2. CASE h.pc = "t_domain"
  BY <1>1, <1>2 DEF Ending, Doomed
<1>3. CASE h.pc \in {"t_vol", "t_disk", "t_deleted"}
  BY <1>1, <1>3 DEF Ending, Tearing
<1>4. CASE h.pc \notin {"t_domain", "t_vol", "t_disk", "t_deleted"}
  BY <1>1, <1>4 DEF Ending, Torn, After
<1> QED
  BY <1>1, <1>2, <1>3, <1>4
LEMMA EndingNext ==
  ASSUME EndBase', (Doomed \/ Tearing \/ Torn)'
  PROVE  Ending'
<1>1. CASE Doomed'
  BY <1>1 DEF Ending, EndBase, EndStates, Doomed
<1>2. CASE Tearing'
  BY <1>2 DEF Ending, EndBase, EndStates, Tearing
<1>3. CASE Torn'
  BY <1>3 DEF Ending, EndBase, EndStates, Torn, After
<1> QED
  BY <1>1, <1>2, <1>3

LEMMA ReasonKept ==
  ASSUME Shape, Shape', Reason, asked \subseteq asked', faults' = faults \/ faults' = faults + 1
  PROVE  Reason'
<1>1. faults \in Nat
  BY Row
<1>2. faults > 0 => faults' > 0
  BY <1>1
<1> QED
  BY <1>2 DEF Reason

LEMMA EndKept ==
  ASSUME Shape, Shape', EndBase, UNCHANGED sched, \A v \in Vol : vol'[v].on = vol[v].on,
         inst'.host = inst.host, inst'.state \in EndStates,
         \A x \in LsThread : w'[x] = w[x], q'["ls"] = q["ls"],
         Has(q'["hva"], "run_local") => Has(q["hva"], "run_local"),
         asked \subseteq asked', faults' = faults \/ faults' = faults + 1,
         h' = Idle \/ h'.vols = Vol
  PROVE  EndBase'
<1>1. Reason'
  BY ReasonKept DEF EndBase
<1>2. LsIdle' /\ AllOn'
  BY DEF EndBase, LsIdle, AllOn
<1> QED
  BY <1>1, <1>2 DEF EndBase, Idle

\* finalize_instance finds nothing left to delete.
LEMMA FinalizeNothing ==
  ASSUME Shape, AllLocal, \A v \in Vol : ~vol[v].on \/ (vol[v].dead /\ ~Offered(v)), finalize_instance
  PROVE  /\ q'["ls"] = q["ls"] /\ q'["hva"] = q["hva"] /\ \A v \in Vol : vol'[v] = vol[v]
         /\ inst'.state = "terminated" /\ inst'.host = inst.host
<1>1. doomed = {}
  BY DEF doomed, mine
<1>2. \A v \in Vol : vol'[v] = vol[v]
  BY <1>1 DEF finalize_instance, finalize_volume, Offered
<1>3. q'["ls"] = q["ls"] \o delete_jobs(doomed \cap Local) /\ q'["hva"] = q["hva"]
  BY Basics DEF finalize_instance
<1>4. delete_jobs({}) = <<>>
  BY DeleteJobs
<1>5. doomed \cap Local = {} /\ q["ls"] \in Seq(Jobs)
  BY <1>1, Basics
<1>6. q["ls"] \o <<>> = q["ls"]
  BY <1>5
<1> QED
  BY <1>2, <1>3, <1>4, <1>5, <1>6, FinalizeKeeps

LEMMA IdleRows ==
  ASSUME LsIdle', sched' = "none", \A v \in Vol : ~Offered(v)'
  PROVE  LsRows'
<1>1. \A v \in Vol : ~Deletes(v)'
  BY DEF LsIdle, Deletes, Has, HasDelete
<1>2. Once(q'["ls"], "deploy")
  BY DEF LsIdle, Has, Once
<1> QED
  BY <1>1, <1>2 DEF LsRows, LsIdle, OneDeploy, NoDeploy, DeletesLast, OfferedIsThere, DeployIsRight

LEMMA DoomedStep ==
  ASSUME Shape, Shape', AllLocal, EndBase, Doomed, work("hva"), ~leaky'
  PROVE  Ending'
<1>n. h.op # "none"
  BY IdleIs DEF Doomed
<1>b. (\A x \in LsThread : w'[x] = w[x]) /\ UNCHANGED <<sched, mon, asked>> /\ "hva" \in Worker
  BY HvaOthers, Basics
<1>1. D_domain("hva")
  BY <1>n, HvaByPc DEF Doomed
<1>2. Well /\ Does("off", disk, mapped) /\ Loop("hva", "t_vol", Gone("hva"), h.vols)
  BY <1>1 DEF D_domain, Fails, h
<1>3. h.vols = Vol /\ Vol # {}
  BY <1>n, VolThere DEF EndBase
<1>4. h'.op = h.op /\ h'.vols = Vol /\ h'.pc = "t_vol" /\ h'.todo = Vol
  BY <1>2, <1>3 DEF Loop, To, h
<1>5. UNCHANGED <<q, inst, vol, disk, faults>> /\ dom' = "off"
  BY <1>2 DEF Does, Well
<1>6. EndBase'
  BY <1>b, <1>4, <1>5, EndKept DEF EndBase
<1>7. Tearing'
  BY <1>4, <1>5 DEF Doomed, Tearing, Offered
<1> QED
  BY <1>6, <1>7, EndingNext

LEMMA TearingStep ==
  ASSUME Shape, Shape', AllLocal, EndBase, Tearing, work("hva"), ~leaky'
  PROVE  Ending'
<1>n. h.op # "none" /\ h.vols = Vol
  BY IdleIs DEF Tearing, EndBase
<1>b. (\A x \in LsThread : w'[x] = w[x]) /\ UNCHANGED <<sched, mon, asked>> /\ "hva" \in Worker
  BY HvaOthers, Basics
<1>a. h.todo \subseteq Vol
  BY <1>b, WorkIs DEF h
<1>c. HvaDoing(h)
  BY <1>n, IdleIs DEF Shape, h
<1>d. h.pc \in {"t_disk", "t_deleted"} => h.vol \in Vol /\ h.vol \notin h.todo
  BY <1>c DEF HvaDoing
<1>1. CASE h.pc = "t_vol"
  <2>1. S_delete_local("hva")
    BY <1>n, <1>1, HvaByPc
  <2>2. PICK v \in h.todo : Marks(v, "deleting") /\ To("hva", "t_disk", v, h.todo \ {v})
    BY <2>1 DEF S_delete_local, h
  <2>3. v \in Vol /\ "deleting" \in VolState
    BY <1>a DEF VolState
  <2>4. /\ vol'[v].state = "deleting" /\ vol'[v].on = vol[v].on
        /\ \A u \in Vol : u # v => vol'[u] = vol[u]
    BY <2>2, <2>3, Marked
  <2>5. UNCHANGED <<q, inst, disk, dom, faults>>
    BY <2>2 DEF Marks
  <2>6. h'.op = h.op /\ h'.vols = Vol /\ h'.pc = "t_disk" /\ h'.todo = h.todo \ {v} /\ h'.vol = v
    BY <1>n, <2>2 DEF To, h
  <2>7. EndBase'
    BY <1>b, <2>4, <2>5, <2>6, EndKept DEF EndBase
  <2>8. \A u \in Vol : IF u \in h.todo THEN Offered(u) => u \in disk ELSE Clean(u)
    BY <1>1 DEF Tearing
  <2>9. ~Offered(v)' /\ \A u \in Vol : u # v => (Offered(u)' <=> Offered(u)) /\ (Clean(u)' <=> Clean(u))
    BY <2>4, <2>5 DEF Offered, Clean
  <2>10. Tearing'
    BY <2>5, <2>6, <2>8, <2>9 DEF Tearing
  <2> QED
    BY <2>7, <2>10, EndingNext
<1>2. CASE h.pc = "t_disk"
  <2>1. D_disk("hva")
    BY <1>n, <1>2, HvaByPc
  <2>2. Well /\ Does(dom, disk \ {h.vol}, mapped) /\ To("hva", "t_deleted", h.vol, h.todo)
    BY <2>1 DEF D_disk, Fails, h, EndBase
  <2>3. UNCHANGED <<q, inst, vol, dom, faults>> /\ disk' = disk \ {h.vol}
    BY <2>2 DEF Does, Well
  <2>4. h'.op = h.op /\ h'.vols = Vol /\ h'.pc = "t_deleted" /\ h'.todo = h.todo /\ h'.vol = h.vol
    BY <1>n, <2>2 DEF To, h
  <2>5. EndBase'
    BY <1>b, <2>3, <2>4, EndKept DEF EndBase
  <2>6. \A u \in Vol : /\ Offered(u)' <=> Offered(u)
                       /\ Clean(u) => Clean(u)'
    BY <2>3 DEF Offered, Clean
  <2>7. \A u \in Vol : IF u \in h.todo THEN Offered(u) => u \in disk
                       ELSE Clean(u) \/ (u = h.vol /\ ~Offered(u))
    BY <1>2 DEF Tearing
  <2>8. Tearing'
    BY <1>2, <1>d, <2>3, <2>4, <2>6, <2>7 DEF Tearing
  <2> QED
    BY <2>5, <2>8, EndingNext
<1>3. CASE h.pc = "t_deleted"
  <2>1. S_deleted_local("hva")
    BY <1>n, <1>3, HvaByPc
  <2>2. Marks(h.vol, "deleted") /\ Loop("hva", "t_vol", Gone("hva"), h.todo)
    BY <2>1 DEF S_deleted_local, h
  <2>3. h.vol \in Vol /\ h.vol \notin h.todo /\ "deleted" \in VolState
    BY <1>3, <1>d DEF VolState
  <2>4. /\ vol'[h.vol].state = "deleted" /\ vol'[h.vol].on = vol[h.vol].on /\ vol'[h.vol].dead
        /\ \A u \in Vol : u # h.vol => vol'[u] = vol[u]
    BY <2>2, <2>3, Marked
  <2>5. UNCHANGED <<q, inst, disk, dom, faults>>
    BY <2>2 DEF Marks
  <2>6. \A u \in Vol : IF u \in h.todo THEN Offered(u) => u \in disk
                       ELSE Clean(u) \/ (u = h.vol /\ ~Offered(u) /\ u \notin disk)
    BY <1>3 DEF Tearing
  <2>7. \A u \in Vol : IF u \in h.todo THEN Offered(u)' => u \in disk' ELSE Clean(u)'
    BY <2>3, <2>4, <2>5, <2>6 DEF Offered, Clean
  <2>8. CASE h.todo = {}
    <3>1. h'.op = h.op /\ h'.vols = Vol /\ h'.pc \in {"finalize", "stopped"}
      BY <1>n, <2>2, <2>8 DEF Loop, Goes, Gone, To, h
    <3>2. EndBase'
      BY <1>b, <2>4, <2>5, <3>1, EndKept DEF EndBase
    <3>3. Torn'
      BY <2>5, <2>7, <2>8, <3>1 DEF Torn, Tearing, After
    <3> QED
      BY <3>2, <3>3, EndingNext
  <2>9. CASE h.todo # {}
    <3>1. h'.op = h.op /\ h'.vols = Vol /\ h'.pc = "t_vol" /\ h'.todo = h.todo
      BY <1>n, <2>2, <2>9 DEF Loop, To, h
    <3>2. EndBase'
      BY <1>b, <2>4, <2>5, <3>1, EndKept DEF EndBase
    <3>3. Tearing'
      BY <2>5, <2>7, <3>1 DEF Tearing
    <3> QED
      BY <3>2, <3>3, EndingNext
  <2> QED
    BY <2>8, <2>9
<1> QED
  BY <1>1, <1>2, <1>3 DEF Tearing

LEMMA TornStep ==
  ASSUME Shape, Shape', AllLocal, Meant, EndBase, Torn, work("hva"), ~leaky'
  PROVE  Ending' \/ Stopped'
<1>a. mine = Vol
  BY DEF EndBase, AllOn, mine
<1>b. (\A x \in LsThread : w'[x] = w[x]) /\ UNCHANGED <<sched, mon, asked>> /\ "hva" \in Worker
  BY HvaOthers, Basics
<1>i. Idle.op = "none" /\ Idle.pc = "idle"
  BY DEF Idle
<1>c. ASSUME \A v \in Vol : vol'[v] = vol[v], disk' = disk, dom' = "off", q'["ls"] = q["ls"],
             Has(q'["hva"], "run_local") => Has(q["hva"], "run_local"), faults' = faults \/ faults' = faults + 1,
             inst'.host = inst.host, inst'.state \in EndStates, h' = Idle \/ h'.vols = Vol,
             h'.pc \in After \cup {"t_domain"}, h'.pc = "prepare" => h'.op = "poweron"
      PROVE  Ending'
  <2>1. EndBase'
    BY <1>b, <1>c, EndKept
  <2>2. \A v \in Vol : Clean(v)' /\ ~Offered(v)'
    BY <1>c DEF Torn, Clean, Offered
  <2>3. CASE h'.pc = "t_domain"
    BY <1>c, <2>1, <2>2, <2>3, EndingNext DEF Doomed
  <2>4. CASE h'.pc \in After
    <3>1. Torn'
      BY <1>c, <2>2, <2>4 DEF Torn
    <3> QED
      BY <2>1, <3>1, EndingNext
  <2> QED
    BY <1>c, <2>3, <2>4
<1>1. CASE h.op = "none"
  <2>1. HvaTakes
    BY <1>1, HvaIdle
  <2>2. ~Has(q["hva"], "run_local") /\ inst.state # "running"
    BY DEF EndBase, EndStates
  <2>3. UNCHANGED <<inst, vol, disk, dom, faults>> /\ q'["ls"] = q["ls"] /\ ~Has(q'["hva"], "run_local")
    BY <2>1, <2>2, TakesCalls DEF Shrunk
  <2>4. (h' = Idle \/ h'.vols = Vol) /\ h'.pc \in After /\ h'.pc # "prepare"
    BY <1>a, <1>i, <2>1, <2>2, TakesCalls DEF After
  <2> QED
    BY <1>c, <2>3, <2>4 DEF Torn, EndBase
<1>2. CASE h.op # "none"
  <2>n. HvaDoing(h) /\ h.op \notin {"wait", "run_vol"} /\ h.vols = Vol
    <3>1. HvaDoing(h) /\ Shared = {}
      BY <1>2, NoSta, IdleIs DEF Shape, h
    <3> QED
      BY <1>2, <3>1 DEF HvaDoing, HvaOps, EndBase
  <2>d. ASSUME NEW pc, Goes("hva", pc), pc # "prepare" \/ h.op = "poweron", pc \in After \cup {"t_domain"}
        PROVE  /\ h' = Idle \/ h'.vols = Vol
               /\ h'.pc \in After \cup {"t_domain"} /\ (h'.pc = "prepare" => h'.op = "poweron")
    BY <1>i, <2>d, <2>n DEF Goes, To, h, After
  <2>e. ASSUME NEW s \in EndStates, Sets(s), NEW pc, Goes("hva", pc), pc # "prepare" \/ h.op = "poweron",
               pc \in After \cup {"t_domain"}
        PROVE  Ending'
    <3>1. UNCHANGED <<q, vol, disk, dom, faults>> /\ inst'.state = s /\ inst'.host = inst.host
      BY <2>e, SetIs DEF Sets
    <3> QED
      BY <1>c, <2>d, <2>e, <3>1 DEF Torn
  <2>f. ASSUME Does("off", disk, mapped), Well, NEW pc \in After, pc # "prepare", Goes("hva", pc)
        PROVE  Ending'
    <3>1. UNCHANGED <<q, inst, vol, disk, faults>> /\ dom' = "off"
      BY <2>f DEF Does, Well
    <3> QED
      BY <1>c, <2>d, <2>f, <3>1 DEF EndBase
  <2>h. ~bootable("hva")
    BY NoSta, VolThere DEF bootable, Torn, Clean
  <2>r. ASSUME S_raise("hva") PROVE Ending'
    <3>0. h.op # "run_local"
      BY <2>n, <2>r DEF S_raise, Torn, HvaDoing, After, h
    <3>1. UNCHANGED <<q, inst, vol, disk>>
      BY <1>2, <2>r, <3>0, CallRaises
    <3>2. (h' = Idle \/ h'.vols = Vol) /\ h'.pc \in After /\ h'.pc # "prepare"
      BY <1>2, <1>i, <2>n, <2>r, <3>0, CallRaises DEF After
    <3>3. faults' = faults \/ faults' = faults + 1
      BY <2>r DEF S_raise, Well
    <3>4. h.pc \in {"run", "poweron"} => hopeless("hva")
      BY <2>h DEF hopeless, at, h
    <3>5. dom' = "off"
      BY <2>r, <3>4 DEF S_raise, Does, Torn, h
    <3> QED
      BY <1>c, <3>1, <3>2, <3>3, <3>5 DEF EndBase
  <2>1. CASE h.pc = "reboot"
    BY <1>2, <2>1, <2>f, <2>r, HvaByPc DEF D_reboot, After, Torn
  <2>2. CASE h.pc = "poweroff"
    BY <1>2, <2>2, <2>f, <2>r, HvaByPc DEF D_off, After
  <2>3. CASE h.pc = "soft_poweroff"
    BY <1>2, <2>3, <2>f, <2>r, HvaByPc DEF D_soft, After, Torn
  <2>4. CASE h.pc = "halted"
    BY <1>2, <2>4, <2>e, HvaByPc DEF S_halted, After, EndStates
  <2>5. CASE h.pc = "starting"
    <3>1. h.op = "poweron"
      BY <2>5, <2>n DEF HvaDoing
    <3>2. Sets("starting") /\ Goes("hva", "prepare")
      BY <1>2, <2>5, HvaByPc DEF S_starting
    <3> QED
      BY <2>e, <3>1, <3>2 DEF After, EndStates
  <2>6. CASE h.pc = "prepare"
    <3>1. D_prepare("hva") \/ S_raise("hva")
      BY <1>2, <2>6, HvaByPc
    <3>2. D_prepare("hva") => Does("off", disk, mapped) /\ Well /\ Goes("hva", "poweron")
      BY <2>6 DEF D_prepare, Torn, h
    <3> QED
      BY <2>f, <2>r, <3>1, <3>2 DEF After
  <2>7. CASE h.pc = "poweron"
    <3>1. ~D_run("hva")
      BY <2>h DEF D_run
    <3> QED
      BY <1>2, <2>7, <2>r, <3>1, HvaByPc
  <2>8. CASE h.pc = "shuttingdown"
    <3>1. PICK s \in {"shuttingdown", "stopping"} : Sets(s) /\ Goes("hva", "t_domain")
      BY <1>2, <2>8, HvaByPc DEF S_shut
    <3> QED
      BY <2>e, <3>1 DEF EndStates
  <2>9. CASE h.pc = "finalize"
    <3>1. S_finalize("hva")
      BY <1>2, <2>9, HvaByPc
    <3>2. finalize_instance /\ Apart /\ h' = Idle
      BY <3>1 DEF S_finalize, EndBase, Goes, To, h
    <3>3. /\ q'["ls"] = q["ls"] /\ q'["hva"] = q["hva"] /\ \A v \in Vol : vol'[v] = vol[v]
          /\ inst'.state = "terminated" /\ inst'.host = inst.host
      BY <3>2, FinalizeNothing DEF Torn, Clean
    <3> QED
      BY <1>c, <1>i, <3>2, <3>3 DEF Apart, Torn, After, EndStates
  <2>10. CASE h.pc = "stopped"
    <3>1. S_stopped("hva")
      BY <1>2, <2>10, HvaByPc
    <3>2. h.op = "stop" /\ Vol # {}
      BY <2>10, <2>n, VolThere DEF HvaDoing
    <3>3. h'.op = "stop" /\ h'.pc = "v_deleted" /\ h'.todo = Vol
      BY <2>n, <3>1, <3>2 DEF S_stopped, Loop, To, h
    <3>4. inst'.state = "stopped" /\ UNCHANGED <<vol, q, dom, disk>>
      BY <3>1, Row DEF S_stopped, InstRow
    <3>5. LsIdle' /\ sched' = "none" /\ \A v \in Vol : ~Offered(v)'
      BY <1>b, <3>4 DEF EndBase, LsIdle, Torn, Clean, Offered
    <3>6. LsRows'
      BY <3>5, IdleRows
    <3>7. "stop" \in asked'
      BY <1>b, <3>2 DEF Meant
    <3>8. Stopped'
      BY <3>3, <3>4, <3>5, <3>6, <3>7 DEF Stopped, Torn
    <3> QED
      BY <3>8
  <2>11. h.pc # "idle"
    BY <1>2, IdleIs
  <2> QED
    BY <2>1, <2>2, <2>3, <2>4, <2>5, <2>6, <2>7, <2>8, <2>9, <2>10, <2>11 DEF Torn, After
<1> QED
  BY <1>1, <1>2

LEMMA EndingStep ==
  ASSUME Shape, Shape', AllLocal, Meant, Ending, Next, ~leaky'
  PROVE  Phase'
<1>0. EndBase /\ (Doomed \/ Tearing \/ Torn)
  BY EndingIs
<1>b. ASSUME UNCHANGED <<vol, sched, w, disk>>, q'["ls"] = q["ls"], inst'.host = inst.host,
             Has(q'["hva"], "run_local") => Has(q["hva"], "run_local"), inst'.state \in EndStates,
             asked \subseteq asked', faults' = faults \/ faults' = faults + 1, dom' = dom \/ dom' = "off"
      PROVE  Phase'
  <2>0. h' = h /\ (h' = Idle \/ h'.vols = Vol)
    BY <1>0, <1>b, IdleIs DEF EndBase, h
  <2>1. EndBase'
    BY <1>0, <1>b, <2>0, EndKept
  <2>2. Doomed => Doomed'
    BY <1>b, <2>0 DEF Doomed, Offered
  <2>3. Tearing => Tearing'
    BY <1>b, <2>0 DEF Tearing, Offered, Clean
  <2>4. Torn => Torn'
    BY <1>b, <2>0 DEF Torn, Offered, Clean
  <2> QED
    BY <1>0, <2>1, <2>2, <2>3, <2>4, EndingNext DEF Phase
<1>1. api_request \/ work("hva") \/ monitor \/ guest_shutdown
  <2>1. ~post /\ ~Scheduler
    BY <1>0 DEF EndBase, EndStates, post, Scheduler, schedule_instance, schedule_start_instance, schedule_error
  <2>2. Busy => work("hva")
    BY <1>0, LsStill DEF Busy, EndBase
  <2> QED
    BY <2>1, <2>2, Moves
<1>2. CASE api_request
  <2>0. inst.state # "stopped"
    BY <1>0 DEF EndBase, EndStates
  <2>1. UNCHANGED <<vol, sched, w, disk, dom, faults>> /\ q'["ls"] = q["ls"] /\ inst'.host = inst.host /\ asked \subseteq asked'
    BY <1>2, <2>0, AskedIs
  <2>2. Has(q'["hva"], "run_local") => Has(q["hva"], "run_local")
    BY <1>2, <2>0, AskedIs DEF Grown
  <2>3. inst'.state \in EndStates
    BY <1>0, <1>2, <2>0, AskedIs DEF EndBase, EndStates
  <2> QED
    BY <1>b, <2>1, <2>2, <2>3
<1>3. CASE work("hva")
  BY <1>0, <1>3, DoomedStep, TearingStep, TornStep DEF Phase
<1>4. CASE monitor
  <2>1. UNCHANGED <<vol, sched, w, disk, dom, faults, asked>> /\ q'["ls"] = q["ls"] /\ inst'.host = inst.host
    BY <1>4, MonitorIs
  <2>2. Has(q'["hva"], "run_local") => Has(q["hva"], "run_local")
    BY <1>4, MonitorIs DEF Grown
  <2>3. inst'.state \in EndStates
    BY <1>0, <1>4, MonitorIs DEF EndBase, EndStates
  <2> QED
    BY <1>b, <2>1, <2>2, <2>3
<1>5. CASE guest_shutdown
  <2>1. UNCHANGED <<inst, vol, sched, q, w, disk, asked>> /\ dom' = "off"
    BY <1>5, ShutdownIs
  <2>2. faults' = faults \/ faults' = faults + 1
    BY <1>5, Row DEF guest_shutdown
  <2> QED
    BY <1>0, <1>b, <2>1, <2>2 DEF EndBase
<1> QED
  BY <1>1, <1>2, <1>3, <1>4, <1>5

(***************************************************************************)
(* The local store's jobs                                                  *)
(***************************************************************************)
\* What does not concern the local store or the volumes keeps its rows right.
LEMMA RowsKept ==
  ASSUME LsRows, q'["ls"] = q["ls"], \A x \in LsThread : w'[x] = w[x], sched' = sched, disk' = disk,
         \A v \in Vol : Offered(v)' => Offered(v), inst'.state # "stopped" \/ inst'.state = inst.state
  PROVE  LsRows'
<1>1. OneDeploy'
  BY DEF LsRows, OneDeploy, NoDeploy
<1>2. \A v \in Vol : Deletes(v)' => Deletes(v)
  BY DEF Deletes
<1>3. DeletesLast'
  BY <1>2 DEF LsRows, DeletesLast
<1>4. OfferedIsThere'
  BY DEF LsRows, OfferedIsThere, Owes
<1>5. DeployIsRight'
  BY DEF LsRows, DeployIsRight
<1> QED
  BY <1>1, <1>3, <1>4, <1>5 DEF LsRows

LEMMA DeployKeeps ==
  ASSUME LsRows, NEW x \in LsThread, w[x].op = "deploy", w'[x].op \in {"deploy", "none"}, q'["ls"] = q["ls"],
         \A y \in LsThread : y # x => w'[y] = w[y], sched' = sched, inst'.state # "stopped"
  PROVE  /\ OneDeploy' /\ sched # "start" /\ inst.state # "stopped"
         /\ \A v \in Vol : Deletes(v)' => Deletes(v)
         /\ w[x].pc # "v_deleted" => DeletesLast' /\ \A v \in Vol : ~Deletes(v)
         /\ \A y \in LsThread : y # x => w'[y].op # "deploy" /\ w[y].op # "deploy"
         /\ \A v \in Vol : Offered(v) => v \in disk \/ Owes(x, v)
<1>1. \A y \in LsThread : y # x => w'[y].op # "deploy" /\ w[y].op # "deploy"
  BY DEF LsRows, OneDeploy
<1>2. sched # "start" /\ inst.state # "stopped" /\ ~Has(q["ls"], "deploy")
  BY DEF LsRows, OneDeploy, NoDeploy
<1>3. OneDeploy'
  BY <1>1, <1>2 DEF LsRows, OneDeploy
<1>4. \A v \in Vol : Deletes(v)' => Deletes(v)
  BY DEF Deletes
<1>5. w[x].pc # "v_deleted" => \A v \in Vol : ~Deletes(v)
  BY DEF LsRows, DeletesLast
<1>6. w[x].pc # "v_deleted" => DeletesLast'
  BY <1>4, <1>5 DEF DeletesLast
<1>7. \A v \in Vol : Offered(v) => v \in disk \/ Owes(x, v)
  BY <1>1 DEF LsRows, OfferedIsThere, Owes
<1> QED
  BY <1>1, <1>2, <1>3, <1>4, <1>5, <1>6, <1>7

LEMMA RowsNext ==
  ASSUME NEW x \in LsThread, OneDeploy', DeletesLast', \A y \in LsThread : y # x => w'[y].op # "deploy",
         \A v \in Vol : Offered(v)' => v \in disk' \/ Owes(x, v)',
         w'[x].op = "deploy" =>
           /\ w'[x].pc = "available" => w'[x].vol \in disk'
           /\ w'[x].pc = "undeployed" => w'[x].vol \in w'[x].vols
           /\ w'[x].pc \in {"undeploy", "undeployed"} => w'[x].todo \subseteq w'[x].vols
  PROVE  LsRows'
<1>1. OfferedIsThere'
  BY DEF OfferedIsThere
<1>2. DeployIsRight'
  BY DEF DeployIsRight
<1> QED
  BY <1>1, <1>2 DEF LsRows

\* The local store takes a job.
LEMMA LsTakesRows ==
  ASSUME Shape, Shape', AllLocal, LsRows, NEW x \in LsThread, work(x), LsTakes(x)
  PROVE  LsRows' /\ UNCHANGED <<inst, vol, disk, faults>> /\ q'["hva"] = q["hva"]
<1>0. x \in Worker /\ "hva" \in Worker /\ x # "hva" /\ Chan(x) = "ls"
  BY Basics
<1>a. (\A y \in LsThread : y # x => w'[y] = w[y]) /\ sched' = sched
  BY LsOthers
<1>b. w[x].op = "none"
  BY IdleIs DEF LsTakes, Took
<1>1. CASE Pulled("ls", "deploy")
  <2>1. Shrunk(q["ls"], q'["ls"], "deploy") /\ Has(q["ls"], "deploy") /\ q'["hva"] = q["hva"]
    BY <1>1, PulledFrom
  <2>2. UNCHANGED <<inst, vol, disk, faults>>
    BY <1>1 DEF Pulled
  <2>3. \A y \in LsThread : w[y].op # "deploy"
    BY <2>1 DEF LsRows, OneDeploy
  <2>4. inst.state # "stopped" /\ sched # "start" /\ ~Has(q'["ls"], "deploy")
    BY <2>1 DEF LsRows, OneDeploy, NoDeploy, Shrunk
  <2>5. \A v \in Vol : ~Deletes(v)
    BY <2>1 DEF LsRows, DeletesLast
  <2>6. ~Pulled("ls", "delete")
    BY <1>1 DEF Pulled
  <2>7. /\ w'[x].op = "deploy" /\ w'[x].vols = mine
        /\ w'[x].pc \in {"initializing", "terminated", "undeploy"}
        /\ w'[x].pc = "undeploy" => w'[x].todo \subseteq mine
    <3>1. \/ Took(x, "deploy", "initializing", {})
          \/ Took(x, "deploy", "terminated", {})
          \/ Took(x, "deploy", "undeploy", mine \cap Local)
      BY <2>6 DEF LsTakes
    <3> QED
      BY <3>1 DEF Took
  <2>8. \A v \in Vol : ~Deletes(v)'
    BY <1>a, <2>1, <2>5, <2>7 DEF Deletes, Shrunk
  <2>9. OneDeploy'
    <3>1. Once(q'["ls"], "deploy")
      BY <2>1 DEF LsRows, OneDeploy, Shrunk
    <3> QED
      BY <1>a, <2>2, <2>3, <2>4, <3>1 DEF OneDeploy
  <2>10. \A v \in Vol : Offered(v) => v \in disk
    BY <2>3 DEF LsRows, OfferedIsThere, Owes
  <2>11. DeletesLast'
    BY <2>8 DEF DeletesLast
  <2>12. \A v \in Vol : Offered(v)' => v \in disk'
    BY <2>2, <2>10 DEF Offered
  <2>13. \A y \in LsThread : y # x => w'[y].op # "deploy"
    BY <1>a, <2>3
  <2>14. LsRows'
    BY <2>7, <2>9, <2>11, <2>12, <2>13, RowsNext
  <2> QED
    BY <2>1, <2>2, <2>14
<1>2. CASE Pulled("ls", "delete")
  <2>1. Shrunk(q["ls"], q'["ls"], "delete") /\ Has(q["ls"], "delete") /\ q'["hva"] = q["hva"]
    BY <1>2, PulledFrom
  <2>2. UNCHANGED <<inst, vol, disk, faults>>
    BY <1>2 DEF Pulled
  <2>3. Took(x, "delete", "delete", {})
    BY <1>2 DEF LsTakes, Pulled
  <2>4. w'[x].op = "delete" /\ w'[x].vol = Head(q["ls"]).vol
    BY <1>0, <2>3 DEF Took
  <2>5. HasDelete(q["ls"], Head(q["ls"]).vol)
    <3>1. q["ls"] \in Seq(Jobs) /\ q["ls"] # <<>> /\ Head(q["ls"]).op = "delete"
      BY <1>2, Basics DEF Pulled
    <3>2. 1 \in DOMAIN q["ls"] /\ Head(q["ls"]) = q["ls"][1]
      BY <3>1
    <3> QED
      BY <3>1, <3>2 DEF HasDelete
  <2>6. \A v \in Vol : Deletes(v)' => Deletes(v)
    BY <1>a, <2>1, <2>4, <2>5 DEF Deletes, Shrunk
  <2>7. \A v \in Vol : Offered(v)' <=> Offered(v)
    BY <2>2 DEF Offered
  <2>8. \A y \in LsThread : w'[y].op = "deploy" <=> w[y].op = "deploy"
    BY <1>a, <1>b, <2>4
  <2>9. \A y \in LsThread : w[y].op = "deploy" => w'[y] = w[y]
    BY <1>a, <1>b
  <2>10. OneDeploy'
    <3>1. Once(q'["ls"], "deploy") /\ (Has(q'["ls"], "deploy") => Has(q["ls"], "deploy"))
      BY <2>1 DEF LsRows, OneDeploy, Shrunk
    <3> QED
      BY <1>a, <2>2, <2>8, <3>1 DEF LsRows, OneDeploy, NoDeploy
  <2>11. DeletesLast'
    BY <1>a, <2>1, <2>2, <2>6, <2>7, <2>8, <2>9 DEF LsRows, DeletesLast, Shrunk
  <2>12. OfferedIsThere'
    BY <2>2, <2>7, <2>9 DEF LsRows, OfferedIsThere, Owes
  <2>13. DeployIsRight'
    BY <2>2, <2>8, <2>9 DEF LsRows, DeployIsRight
  <2> QED
    BY <2>1, <2>2, <2>10, <2>11, <2>12, <2>13 DEF LsRows
<1> QED
  BY <1>1, <1>2 DEF LsTakes

\* A thread that deploys, and rolls back, the volumes.
LEMMA LsDeployRows ==
  ASSUME Shape, Shape', AllLocal, LsRows, sched # "instance", NEW x \in LsThread, work(x), w[x].op = "deploy", ~leaky'
  PROVE  LsRows'
<1>0. x \in Worker /\ "hva" \in Worker /\ x # "hva" /\ x # "sta"
  BY Basics
<1>n. w[x].op # "none"
  OBVIOUS
<1>a. (\A y \in LsThread : y # x => w'[y] = w[y]) /\ sched' = sched
  BY LsOthers
<1>b. w[x].todo \subseteq Vol /\ w[x].vols \subseteq Vol /\ w[x].vols \cap Local = w[x].vols
  BY <1>0, WorkIs DEF AllLocal
<1>c. LsDoing(w[x])
  BY <1>n, IdleIs DEF Shape
<1>d. w[x].pc \in {"available", "undeployed"} => w[x].vol \in Vol
  BY <1>c DEF LsDoing
<1>e. "available" \in VolState
  BY DEF VolState
<1>s. inst.state # "stopped" /\ sched # "start"
  BY DEF LsRows, OneDeploy, NoDeploy
<1>r. /\ w[x].pc = "available" => w[x].vol \in disk
      /\ w[x].pc = "undeployed" => w[x].vol \in w[x].vols
      /\ w[x].pc \in {"undeploy", "undeployed"} => w[x].todo \subseteq w[x].vols
  BY DEF LsRows, DeployIsRight
<1>1. CASE w[x].pc = "initializing"
  <2>1. Sets("initializing") /\ Loop(x, "deploy", "submit", w[x].vols)
    BY <1>n, <1>1, <1>b, LsByPc DEF S_initializing
  <2>2. w'[x].op = "deploy" /\ w'[x].pc \in {"deploy", "submit"}
    BY <2>1 DEF Loop, Goes, To
  <2>3. inst'.state = "initializing" /\ UNCHANGED <<vol, q, disk>>
    BY <2>1, SetIs DEF Sets
  <2>4. /\ OneDeploy' /\ DeletesLast' /\ (\A y \in LsThread : y # x => w'[y].op # "deploy")
        /\ \A v \in Vol : Offered(v) => v \in disk \/ Owes(x, v)
    BY <1>1, <1>a, <2>2, <2>3, DeployKeeps
  <2>5. \A v \in Vol : ~Owes(x, v)
    BY <1>1 DEF Owes
  <2>6. \A v \in Vol : Offered(v)' => v \in disk'
    BY <2>3, <2>4, <2>5 DEF Offered
  <2> QED
    BY <2>2, <2>4, <2>6, RowsNext
<1>2. CASE w[x].pc = "deploy"
  <2>1. D_deploy(x) \/ S_raise(x)
    BY <1>n, <1>2, LsByPc
  <2>2. \A v \in Vol : ~Owes(x, v)
    BY <1>2 DEF Owes
  <2>3. CASE D_deploy(x)
    <3>1. PICK v \in w[x].todo : Does(dom, disk \cup {v}, mapped) /\ To(x, "available", v, w[x].todo \ {v})
      BY <2>3 DEF D_deploy
    <3>2. UNCHANGED <<inst, vol, q>> /\ disk' = disk \cup {v}
      BY <3>1 DEF Does
    <3>3. w'[x].op = "deploy" /\ w'[x].pc = "available" /\ w'[x].vol = v
      BY <3>1 DEF To
    <3>4. /\ OneDeploy' /\ DeletesLast' /\ (\A y \in LsThread : y # x => w'[y].op # "deploy")
          /\ \A u \in Vol : Offered(u) => u \in disk \/ Owes(x, u)
      BY <1>2, <1>a, <1>s, <3>2, <3>3, DeployKeeps
    <3>5. \A u \in Vol : Offered(u)' => u \in disk'
      BY <2>2, <3>2, <3>4 DEF Offered
    <3> QED
      BY <3>2, <3>3, <3>4, <3>5, RowsNext
  <2>4. CASE S_raise(x)
    <3>1. UNCHANGED <<inst, vol, q>> /\ disk \subseteq disk'
      BY <1>2, <2>4 DEF S_raise, Does, At
    <3>2. Loop(x, "undeploy", "terminated", w[x].vols)
      BY <2>4, <1>b DEF S_raise
    <3>3. w'[x].op = "deploy" /\ w'[x].pc \in {"undeploy", "terminated"} /\ w'[x].vols = w[x].vols
      BY <3>2 DEF Loop, Goes, To
    <3>3a. w'[x].pc = "undeploy" => w'[x].todo \subseteq w'[x].vols
      BY <3>2 DEF Loop, Goes, To
    <3>4. /\ OneDeploy' /\ DeletesLast' /\ (\A y \in LsThread : y # x => w'[y].op # "deploy")
          /\ \A u \in Vol : Offered(u) => u \in disk \/ Owes(x, u)
      BY <1>2, <1>a, <1>s, <3>1, <3>3, DeployKeeps
    <3>5. \A u \in Vol : Offered(u)' => u \in disk'
      BY <2>2, <3>1, <3>4 DEF Offered
    <3> QED
      BY <3>3, <3>3a, <3>4, <3>5, RowsNext
  <2> QED
    BY <2>1, <2>3, <2>4
<1>3. CASE w[x].pc = "available"
  <2>1. Marks(w[x].vol, "available") /\ Loop(x, "deploy", "submit", w[x].todo)
    BY <1>n, <1>3, LsByPc DEF S_available
  <2>2. w'[x].op = "deploy" /\ w'[x].pc \in {"deploy", "submit"}
    BY <2>1 DEF Loop, Goes, To
  <2>3. UNCHANGED <<inst, q, disk>>
    BY <2>1 DEF Marks
  <2>4. \A u \in Vol : u # w[x].vol => vol'[u] = vol[u]
    BY <1>3, <1>d, <1>e, <2>1, Marked
  <2>5. /\ OneDeploy' /\ DeletesLast' /\ (\A y \in LsThread : y # x => w'[y].op # "deploy")
        /\ \A u \in Vol : Offered(u) => u \in disk \/ Owes(x, u)
    BY <1>3, <1>a, <1>s, <2>2, <2>3, DeployKeeps
  <2>6. \A u \in Vol : ~Owes(x, u)
    BY <1>3 DEF Owes
  <2>7. \A u \in Vol : Offered(u)' => u \in disk'
    BY <1>3, <1>r, <2>3, <2>4, <2>5, <2>6 DEF Offered
  <2> QED
    BY <2>2, <2>5, <2>7, RowsNext
<1>4. CASE w[x].pc = "submit"
  <2>1. submit("hva", "run_local", NoVol) /\ w'[x] = Idle /\ UNCHANGED <<inst, vol, disk>>
    BY <1>n, <1>4, LsByPc DEF S_submit, next_job, Goes, To, Apart
  <2>2. q'["ls"] = q["ls"] /\ w'[x].op = "none"
    BY <2>1, SentTo DEF Idle
  <2>3. /\ OneDeploy' /\ DeletesLast' /\ (\A y \in LsThread : y # x => w'[y].op # "deploy")
        /\ \A u \in Vol : Offered(u) => u \in disk \/ Owes(x, u)
    BY <1>4, <1>a, <1>s, <2>1, <2>2, DeployKeeps
  <2>4. \A u \in Vol : ~Owes(x, u)
    BY <1>4 DEF Owes
  <2>5. \A u \in Vol : Offered(u)' => u \in disk'
    BY <2>1, <2>3, <2>4 DEF Offered
  <2> QED
    BY <2>2, <2>3, <2>5, RowsNext
<1>5. CASE w[x].pc = "undeploy"
  <2>1. D_undeploy(x)
    BY <1>n, <1>5, LsByPc
  <2>2. PICK v \in w[x].todo : Does(dom, disk \ {v}, mapped) /\ To(x, "undeployed", v, w[x].todo \ {v})
    BY <2>1 DEF D_undeploy, Fails
  <2>3. UNCHANGED <<inst, vol, q>> /\ disk' = disk \ {v}
    BY <2>2 DEF Does
  <2>4. /\ w'[x].op = "deploy" /\ w'[x].pc = "undeployed" /\ w'[x].vol = v /\ w'[x].vols = w[x].vols
        /\ w'[x].todo = w[x].todo \ {v}
    BY <2>2 DEF To
  <2>5. /\ OneDeploy' /\ DeletesLast' /\ (\A y \in LsThread : y # x => w'[y].op # "deploy")
        /\ \A u \in Vol : Offered(u) => u \in disk \/ Owes(x, u)
    BY <1>5, <1>a, <1>s, <2>3, <2>4, DeployKeeps
  <2>6. \A u \in Vol : Owes(x, u) => Owes(x, u)'
    BY <1>5, <2>4 DEF Owes
  <2>7. Owes(x, v)'
    BY <1>5, <1>r, <2>4 DEF Owes
  <2>8. \A u \in Vol : Offered(u)' => u \in disk' \/ Owes(x, u)'
    BY <2>3, <2>5, <2>6, <2>7 DEF Offered
  <2>9. v \in w[x].vols /\ w[x].todo \ {v} \subseteq w[x].vols
    BY <1>5, <1>r
  <2> QED
    BY <2>4, <2>5, <2>8, <2>9, RowsNext
<1>6. CASE w[x].pc = "undeployed"
  <2>1. Marks(w[x].vol, "available") /\ Loop(x, "undeploy", "terminated", w[x].todo)
    BY <1>n, <1>6, LsByPc DEF S_undeployed
  <2>2. w'[x].op = "deploy" /\ w'[x].pc \in {"undeploy", "terminated"} /\ w'[x].vols = w[x].vols
    BY <2>1 DEF Loop, Goes, To
  <2>2a. w'[x].pc = "undeploy" => w'[x].todo = w[x].todo
    BY <2>1 DEF Loop, Goes, To
  <2>3. UNCHANGED <<inst, q, disk>>
    BY <2>1 DEF Marks
  <2>4. \A u \in Vol : u # w[x].vol => vol'[u] = vol[u]
    BY <1>6, <1>d, <1>e, <2>1, Marked
  <2>5. /\ OneDeploy' /\ DeletesLast' /\ (\A y \in LsThread : y # x => w'[y].op # "deploy")
        /\ \A u \in Vol : Offered(u) => u \in disk \/ Owes(x, u)
    BY <1>6, <1>a, <1>s, <2>2, <2>3, DeployKeeps
  <2>6. \A u \in Vol : Owes(x, u) => Owes(x, u)'
    BY <1>6, <2>2 DEF Owes
  <2>8. \A u \in Vol : Offered(u)' => u \in disk' \/ Owes(x, u)'
    BY <1>6, <1>r, <2>2, <2>3, <2>4, <2>5, <2>6 DEF Offered, Owes
  <2> QED
    BY <1>6, <1>r, <2>2, <2>2a, <2>5, <2>8, RowsNext
<1>7. CASE w[x].pc = "terminated"
  <2>1. finalize_instance /\ Loop(x, "v_deleted", "idle", w[x].vols) /\ Apart
    BY <1>0, <1>n, <1>7, LsByPc DEF S_abandon
  <2>2. \A y \in LsThread : y # x => w[y].op # "deploy" /\ w'[y].op # "deploy"
    BY <1>a DEF LsRows, OneDeploy
  <2>3. \A v \in Vol : ~Deletes(v)
    BY <1>7 DEF LsRows, DeletesLast
  <2>4. inst'.state = "terminated" /\ disk' = disk
    BY <2>1, FinalizeKeeps DEF Apart
  <2>5. /\ w'[x].op \in {"deploy", "none"} /\ (w'[x].op = "deploy" => w'[x].pc = "v_deleted")
        /\ w[x].vols # {} => w'[x].op = "deploy" /\ w'[x].pc = "v_deleted" /\ w'[x].todo = w[x].vols
    BY <2>1 DEF Loop, Goes, To, Idle
  <2>6. /\ q'["ls"] = q["ls"] \o delete_jobs(doomed \cap Local) /\ doomed \cap Local \in SUBSET Vol
        /\ q["ls"] \in Seq(Jobs)
    BY <2>1, Basics DEF finalize_instance, doomed, mine
  <2>7. delete_jobs(doomed \cap Local) \in Seq([op : {"delete"}, vol : doomed \cap Local])
    BY <2>6, DeleteJobs
  <2>8. /\ Has(q'["ls"], "deploy") <=> Has(q["ls"], "deploy")
        /\ Once(q["ls"], "deploy") => Once(q'["ls"], "deploy")
        /\ \A v : HasDelete(q'["ls"], v) => HasDelete(q["ls"], v) \/ v \in doomed
    <3> DEFINE d == delete_jobs(doomed \cap Local)
    <3>1. d \in Seq([op : {"delete"}, vol : doomed \cap Local]) /\ q'["ls"] = q["ls"] \o d
      BY <2>6, <2>7
    <3> HIDE DEF d
    <3>2. /\ \A p : p # "delete" => (Has(q["ls"] \o d, p) <=> Has(q["ls"], p))
          /\ \A p : p # "delete" => (Once(q["ls"], p) => Once(q["ls"] \o d, p))
          /\ \A v : HasDelete(q["ls"] \o d, v) => HasDelete(q["ls"], v) \/ v \in doomed \cap Local
      BY <2>6, <3>1, GrownByDeletes
    <3> QED
      BY <3>1, <3>2
  <2>9. ~Has(q["ls"], "deploy") /\ Once(q["ls"], "deploy")
    BY DEF LsRows, OneDeploy
  <2>10. OneDeploy'
    BY <1>a, <1>s, <2>2, <2>4, <2>8, <2>9 DEF OneDeploy
  <2>11. \A v \in doomed : vol'[v].state = "deleting"
    BY <2>1 DEF finalize_instance, finalize_volume, doomed, mine, updated
  <2>12. \A v \in Vol : Deletes(v)' => v \in doomed
    BY <1>a, <2>3, <2>5, <2>8 DEF Deletes
  <2>13. DeletesLast'
    <3>1. sched' = "none"
      BY <1>a, <1>s DEF Shape, TypeOK
    <3> QED
      BY <2>2, <2>4, <2>5, <2>8, <2>9, <2>11, <2>12, <3>1 DEF DeletesLast, Offered
  <2>14. \A v \in Vol : Offered(v)' => Offered(v)
    <3>1. \A v \in Vol : vol'[v].state \in {"deleting", "attached", vol[v].state}
      BY <2>1 DEF finalize_instance, finalize_volume, updated
    <3>2. \A v \in Vol : vol'[v].state = "attached" => vol[v].state = "attached"
      BY <2>1 DEF finalize_instance, finalize_volume, updated
    <3> QED
      BY <3>1, <3>2 DEF Offered
  <2>15. \A v \in Vol : Offered(v) => v \in disk \/ v \in w[x].vols
    BY <1>7, <2>2 DEF LsRows, OfferedIsThere, Owes
  <2>16. \A v \in Vol : Offered(v)' => v \in disk' \/ Owes(x, v)'
    BY <2>4, <2>5, <2>14, <2>15 DEF Owes
  <2> QED
    BY <2>2, <2>5, <2>10, <2>13, <2>16, RowsNext
<1>8. CASE w[x].pc = "v_deleted"
  <2>1. S_release(x)
    BY <1>n, <1>8, LsByPc
  <2>2. PICK v \in w[x].todo : /\ vol' = [vol EXCEPT ![v] = updated(vol[v], "deleted", FALSE)]
                               /\ Loop(x, "v_deleted", "idle", w[x].todo \ {v})
    BY <2>1 DEF S_release
  <2>3. UNCHANGED <<inst, q, disk>>
    BY <2>1 DEF S_release
  <2>4. vol'[v].state = "deleted" /\ \A u \in Vol : u # v => vol'[u] = vol[u]
    BY <1>b, <2>2, Released
  <2>5. /\ w'[x].op \in {"deploy", "none"} /\ (w'[x].op = "deploy" => w'[x].pc = "v_deleted")
        /\ w[x].todo \ {v} # {} => w'[x].op = "deploy" /\ w'[x].pc = "v_deleted" /\ w'[x].todo = w[x].todo \ {v}
    BY <2>2 DEF Loop, Goes, To, Idle
  <2>6. /\ OneDeploy' /\ (\A y \in LsThread : y # x => w'[y].op # "deploy")
        /\ (\A u \in Vol : Offered(u) => u \in disk \/ Owes(x, u)) /\ \A u \in Vol : Deletes(u)' => Deletes(u)
    BY <1>a, <1>s, <2>3, <2>5, DeployKeeps
  <2>7. ~Offered(v)' /\ \A u \in Vol : u # v => (Offered(u)' <=> Offered(u))
    BY <2>4 DEF Offered
  <2>8. DeletesLast'
    BY <1>a, <2>3, <2>5, <2>6, <2>7 DEF LsRows, DeletesLast
  <2>9. \A u \in Vol : Owes(x, u) /\ u # v => Owes(x, u)'
    BY <1>8, <2>5 DEF Owes
  <2>10. \A u \in Vol : Offered(u)' => u \in disk' \/ Owes(x, u)'
    BY <2>3, <2>6, <2>7, <2>9
  <2> QED
    BY <2>5, <2>6, <2>8, <2>10, RowsNext
<1> QED
  BY <1>1, <1>2, <1>3, <1>4, <1>5, <1>6, <1>7, <1>8, <1>c DEF LsDoing

LEMMA LsDeleteRows ==
  ASSUME Shape, Shape', AllLocal, LsRows, NEW x \in LsThread, work(x), w[x].op = "delete", ~leaky'
  PROVE  /\ LsRows' /\ UNCHANGED <<inst, q, faults>> /\ disk' \subseteq disk
         /\ \A v \in Vol : vol'[v].on = vol[v].on /\ (vol[v].dead => vol'[v].dead)
         /\ w'[x].op # "deploy"
<1>n. w[x].op # "none"
  OBVIOUS
<1>a. (\A y \in LsThread : y # x => w'[y] = w[y]) /\ sched' = sched
  BY LsOthers
<1>c. w[x].pc \in {"delete", "deleted"} /\ w[x].vol \in Vol /\ "deleted" \in VolState
  <2>1. LsDoing(w[x])
    BY <1>n, IdleIs DEF Shape
  <2> QED
    BY <2>1 DEF LsDoing, AllLocal, VolState
<1>d. Deletes(w[x].vol)
  BY DEF Deletes
<1>e. /\ ~Offered(w[x].vol) /\ ~Has(q["ls"], "deploy")
      /\ \A y \in LsThread : w[y].op = "deploy" => w[y].pc = "v_deleted"
  BY <1>c, <1>d DEF LsRows, DeletesLast
<1>1. CASE w[x].pc = "delete"
  <2>1. D_delete(x)
    BY <1>n, <1>1, LsByPc
  <2>2. Does(dom, disk \ {w[x].vol}, mapped) /\ Well /\ Goes(x, "deleted")
    BY <2>1 DEF D_delete, Fails
  <2>3. UNCHANGED <<inst, vol, q, faults>> /\ disk' = disk \ {w[x].vol}
    BY <2>2 DEF Does, Well
  <2>4. w'[x].op = "delete" /\ w'[x].vol = w[x].vol
    BY <2>2 DEF Goes, To
  <2>5. OneDeploy'
    BY <1>a, <2>3, <2>4 DEF LsRows, OneDeploy, NoDeploy
  <2>6. \A v \in Vol : Deletes(v)' => Deletes(v)
    BY <1>a, <2>3, <2>4 DEF Deletes
  <2>7. DeletesLast'
    BY <1>a, <2>3, <2>4, <2>6 DEF LsRows, DeletesLast, Offered
  <2>8. OfferedIsThere'
    <3>1. \A v \in Vol : Offered(v)' => Offered(v)
      BY <2>3 DEF Offered
    <3>2. \A v \in Vol, y \in LsThread : Owes(y, v) => Owes(y, v)'
      BY <1>a, <2>4 DEF Owes
    <3> QED
      BY <1>e, <2>3, <3>1, <3>2 DEF LsRows, OfferedIsThere
  <2>9. DeployIsRight'
    BY <1>a, <1>e, <2>4 DEF LsRows, DeployIsRight
  <2> QED
    BY <2>3, <2>4, <2>5, <2>7, <2>8, <2>9 DEF LsRows
<1>2. CASE w[x].pc = "deleted"
  <2>1. Marks(w[x].vol, "deleted") /\ w'[x] = Idle
    BY <1>n, <1>2, LsByPc DEF S_deleted, Goes, To
  <2>2. UNCHANGED <<inst, q, disk, faults>> /\ w'[x].op = "none"
    BY <2>1 DEF Marks, Idle
  <2>3. /\ vol'[w[x].vol].state = "deleted" /\ vol'[w[x].vol].on = vol[w[x].vol].on /\ vol'[w[x].vol].dead
        /\ \A u \in Vol : u # w[x].vol => vol'[u] = vol[u]
    BY <1>c, <2>1, Marked
  <2>5. OneDeploy'
    BY <1>a, <2>2 DEF LsRows, OneDeploy, NoDeploy
  <2>6. \A v \in Vol : Deletes(v)' => Deletes(v)
    BY <1>a, <2>2 DEF Deletes
  <2>7. \A v \in Vol : Offered(v)' => Offered(v)
    BY <2>3 DEF Offered
  <2>8. DeletesLast'
    BY <1>a, <2>2, <2>6, <2>7 DEF LsRows, DeletesLast
  <2>9. OfferedIsThere'
    <3>2. \A v \in Vol, y \in LsThread : Owes(y, v) => Owes(y, v)'
      BY <1>a DEF Owes
    <3> QED
      BY <2>2, <2>7, <3>2 DEF LsRows, OfferedIsThere
  <2>10. DeployIsRight'
    BY <1>a, <2>2 DEF LsRows, DeployIsRight
  <2> QED
    BY <2>2, <2>3, <2>5, <2>8, <2>9, <2>10 DEF LsRows
<1> QED
  BY <1>1, <1>2, <1>c

(***************************************************************************)
(* A deployment that is rolled back                                        *)
(***************************************************************************)
RollBase == /\ faults > 0 /\ h.op = "none" /\ OnlyTerminate /\ dom = "off" /\ sched = "none" /\ mon.pc = "idle"
            /\ inst.state \in {"initializing", "terminated"}
            /\ LsRows /\ ~Has(q["ls"], "deploy")
\* A thread that rolls back, and what is left when none does.
Backward(x) ==
    /\ w[x].vols = Vol /\ w[x].pc \in {"undeploy", "undeployed", "terminated", "v_deleted"}
    /\ w[x].pc \in {"undeploy", "undeployed"} => disk \subseteq w[x].todo
    /\ w[x].pc \in {"terminated", "v_deleted"} => disk = {}
    /\ w[x].pc = "v_deleted" => inst.state = "terminated" /\ \A v \in Vol \ w[x].todo : vol[v].dead
Swept == disk = {} /\ inst.state = "terminated" /\ \A v \in Vol : vol[v].dead

LEMMA RolledBackIs ==
  RolledBack <=> /\ RollBase /\ (\A x \in LsThread : w[x].op = "deploy" => Backward(x)) /\ (NoDeploy => Swept)
BY DEF RolledBack, RollBase, Backward, Swept
LEMMA RolledBackNext ==
  ASSUME RollBase', \A x \in LsThread : w'[x].op = "deploy" => Backward(x)', NoDeploy' => Swept'
  PROVE  RolledBack'
BY DEF RolledBack, RollBase, Backward, Swept

\* A thread at work on the rollback.
LEMMA BackwardStep ==
  ASSUME Shape, Shape', AllLocal, RollBase, NEW x \in LsThread, w[x].op = "deploy", Backward(x),
         \A y \in LsThread : y # x => w[y].op # "deploy", work(x), ~leaky'
  PROVE  /\ UNCHANGED <<faults, dom>> /\ q'["hva"] = q["hva"] /\ inst'.state \in {inst.state, "terminated"}
         /\ w'[x].op \in {"deploy", "none"} /\ (w'[x].op = "deploy" => Backward(x)') /\ (w'[x].op = "none" => Swept')
<1>0. x \in Worker /\ "hva" \in Worker /\ x # "hva" /\ x # "sta" /\ w[x].vols = Vol /\ Vol # {}
  BY Basics, VolThere DEF Backward
<1>n. w[x].op # "none"
  OBVIOUS
<1>a. dom' = dom
  BY LsOthers
<1>b. w[x].todo \subseteq Vol
  BY <1>0, WorkIs
<1>c. LsDoing(w[x])
  BY <1>n, IdleIs DEF Shape
<1>1. CASE w[x].pc = "undeploy"
  <2>1. D_undeploy(x)
    BY <1>n, <1>1, LsByPc
  <2>2. PICK v \in w[x].todo : Well /\ Does(dom, disk \ {v}, mapped) /\ To(x, "undeployed", v, w[x].todo \ {v})
    BY <2>1 DEF D_undeploy, Fails
  <2>3. UNCHANGED <<inst, q, faults>> /\ disk' = disk \ {v}
    BY <2>2 DEF Does, Well
  <2>4. /\ w'[x].op = "deploy" /\ w'[x].pc = "undeployed" /\ w'[x].vols = Vol
        /\ w'[x].todo = w[x].todo \ {v}
    BY <1>0, <2>2 DEF To
  <2>5. Backward(x)'
    BY <1>1, <2>3, <2>4 DEF Backward
  <2> QED
    BY <1>a, <2>3, <2>4, <2>5
<1>2. CASE w[x].pc = "undeployed"
  <2>1. Marks(w[x].vol, "available") /\ Loop(x, "undeploy", "terminated", w[x].todo)
    BY <1>n, <1>2, LsByPc DEF S_undeployed
  <2>2. UNCHANGED <<inst, q, disk, faults>>
    BY <2>1 DEF Marks
  <2>3. /\ w'[x].op = "deploy" /\ w'[x].vols = Vol /\ w'[x].pc \in {"undeploy", "terminated"}
        /\ w'[x].pc = "undeploy" => w'[x].todo = w[x].todo
        /\ w'[x].pc = "terminated" => w[x].todo = {}
    BY <1>0, <2>1 DEF Loop, Goes, To
  <2>4. disk \subseteq w[x].todo
    BY <1>2 DEF Backward
  <2>5. Backward(x)'
    BY <2>2, <2>3, <2>4 DEF Backward
  <2> QED
    BY <1>a, <2>2, <2>3, <2>5
<1>3. CASE w[x].pc = "terminated"
  <2>1. finalize_instance /\ Loop(x, "v_deleted", "idle", w[x].vols) /\ Apart
    BY <1>0, <1>n, <1>3, LsByPc DEF S_abandon
  <2>2. q'["hva"] = q["hva"] /\ inst'.state = "terminated" /\ UNCHANGED <<disk, faults>>
    BY <2>1, FinalizeKeeps DEF Apart
  <2>3. w'[x].op = "deploy" /\ w'[x].vols = Vol /\ w'[x].pc = "v_deleted" /\ w'[x].todo = Vol
    BY <1>0, <2>1 DEF Loop, To
  <2>4. Backward(x)'
    BY <1>3, <2>2, <2>3 DEF Backward
  <2> QED
    BY <1>a, <2>2, <2>3, <2>4
<1>4. CASE w[x].pc = "v_deleted"
  <2>1. S_release(x)
    BY <1>n, <1>4, LsByPc
  <2>2. PICK v \in w[x].todo : /\ vol' = [vol EXCEPT ![v] = updated(vol[v], "deleted", FALSE)]
                               /\ Loop(x, "v_deleted", "idle", w[x].todo \ {v})
    BY <2>1 DEF S_release
  <2>3. UNCHANGED <<inst, q, disk, faults>>
    BY <2>1 DEF S_release
  <2>4. vol'[v].dead /\ \A u \in Vol : u # v => vol'[u] = vol[u]
    BY <1>b, <2>2, Released
  <2>5. disk = {} /\ inst.state = "terminated" /\ \A u \in Vol \ w[x].todo : vol[u].dead
    BY <1>4 DEF Backward
  <2>6. \A u \in Vol \ (w[x].todo \ {v}) : vol'[u].dead
    BY <2>4, <2>5
  <2>7. CASE w[x].todo \ {v} = {}
    <3>1. w'[x].op = "none"
      BY <2>2, <2>7 DEF Loop, Goes, To, Idle
    <3>2. Swept'
      BY <2>3, <2>5, <2>6, <2>7 DEF Swept
    <3> QED
      BY <1>a, <2>3, <3>1, <3>2
  <2>8. CASE w[x].todo \ {v} # {}
    <3>1. w'[x].op = "deploy" /\ w'[x].vols = Vol /\ w'[x].pc = "v_deleted" /\ w'[x].todo = w[x].todo \ {v}
      BY <1>0, <2>2, <2>8 DEF Loop, To
    <3>2. Backward(x)'
      BY <2>3, <2>5, <2>6, <3>1 DEF Backward
    <3> QED
      BY <1>a, <2>3, <3>1, <3>2
  <2> QED
    BY <2>7, <2>8
<1> QED
  BY <1>1, <1>2, <1>3, <1>4 DEF Backward

LEMMA RolledBackStep ==
  ASSUME Shape, Shape', AllLocal, RolledBack, Next, ~leaky'
  PROVE  Phase'
<1>0. RollBase /\ (\A x \in LsThread : w[x].op = "deploy" => Backward(x)) /\ (NoDeploy => Swept)
  BY RolledBackIs
<1>b. ASSUME UNCHANGED <<vol, sched, mon, dom, disk>>, faults' = faults, inst' = inst, OnlyTerminate', h'.op = "none",
             q'["ls"] = q["ls"], \A x \in LsThread : w'[x] = w[x]
      PROVE  Phase'
  <2>1. LsRows'
    BY <1>0, <1>b, RowsKept DEF RollBase, Offered
  <2>2. RollBase'
    BY <1>0, <1>b, <2>1 DEF RollBase
  <2>3. \A x \in LsThread : Backward(x) => Backward(x)'
    BY <1>b DEF Backward
  <2>4. (NoDeploy' => NoDeploy) /\ (Swept => Swept')
    BY <1>b DEF NoDeploy, Swept
  <2> QED
    BY <1>0, <1>b, <2>2, <2>3, <2>4, RolledBackNext DEF Phase
<1>1. api_request \/ Busy
  <2>1. post \/ api_request \/ Scheduler \/ Busy
    BY <1>0, CalmMoves DEF RollBase
  <2>2. ~post /\ ~Scheduler
    BY <1>0 DEF RollBase, post, Scheduler, schedule_instance, schedule_start_instance, schedule_error
  <2> QED
    BY <2>1, <2>2
<1>2. CASE api_request
  <2>1. delete
    BY <1>0, <1>2 DEF RollBase, api_request, put_job, start, poweroff, poweron
  <2>2. /\ UNCHANGED <<inst, vol, sched, w, mon, dom, disk, faults>> /\ q'["ls"] = q["ls"]
        /\ Grown(q["hva"], q'["hva"], "terminate") \/ q'["hva"] = q["hva"]
    BY <1>0, <2>1, DeleteIs DEF RollBase
  <2>3. OnlyTerminate' /\ h'.op = "none"
    BY <1>0, <2>2, OnlyTerminateGrows DEF RollBase, h
  <2> QED
    BY <1>b, <2>2, <2>3
<1>3. CASE work("hva")
  BY <1>0, <1>3, <1>b, TerminateIgnored DEF RollBase
<1>4. ASSUME NEW x \in LsThread, work(x) PROVE Phase'
  <2>a. h' = h /\ (\A y \in LsThread : y # x => w'[y] = w[y]) /\ UNCHANGED <<sched, mon, dom>>
    BY <1>4, LsOthers
  <2>b. ASSUME LsRows', ~Has(q'["ls"], "deploy"), q'["hva"] = q["hva"], faults' = faults,
               inst'.state \in {inst.state, "terminated"}
        PROVE  RollBase'
    BY <1>0, <2>a, <2>b DEF RollBase, OnlyTerminate
  <2>c. ASSUME w[x].op # "deploy", w'[x].op # "deploy", inst' = inst, disk' \subseteq disk, ~Has(q'["ls"], "deploy"),
               \A v \in Vol : vol[v].dead => vol'[v].dead, RollBase'
        PROVE  Phase'
    <3>1. \A y \in LsThread : w'[y].op = "deploy" => w[y].op = "deploy" /\ w'[y] = w[y]
      BY <2>a, <2>c
    <3>2. \A y \in LsThread : w'[y].op = "deploy" => Backward(y)'
      BY <1>0, <2>c, <3>1 DEF Backward
    <3>3. NoDeploy' => NoDeploy
      BY <1>0, <2>a, <2>c DEF NoDeploy, RollBase
    <3>4. Swept => Swept'
      BY <2>c DEF Swept
    <3> QED
      BY <1>0, <2>c, <3>2, <3>3, <3>4, RolledBackNext DEF Phase
  <2>1. CASE w[x].op = "none"
    <3>1. LsTakes(x)
      BY <1>4, <2>1, LsIdleIs
    <3>2. ~Pulled("ls", "deploy")
      BY <1>0, PulledFrom DEF RollBase
    <3>3. Pulled("ls", "delete") /\ Took(x, "delete", "delete", {})
      BY <3>1, <3>2 DEF LsTakes
    <3>4. Shrunk(q["ls"], q'["ls"], "delete")
      BY <3>3, PulledFrom
    <3>5. ~Has(q'["ls"], "deploy") /\ w'[x].op = "delete"
      BY <1>0, <3>3, <3>4 DEF Shrunk, Took, RollBase
    <3>6. LsRows' /\ UNCHANGED <<inst, vol, disk, faults>> /\ q'["hva"] = q["hva"]
      BY <1>0, <1>4, <3>1, LsTakesRows DEF RollBase
    <3> QED
      BY <2>1, <2>b, <2>c, <3>5, <3>6
  <2>2. CASE w[x].op = "delete"
    <3>1. /\ LsRows' /\ UNCHANGED <<inst, q, faults>> /\ disk' \subseteq disk
          /\ (\A v \in Vol : vol[v].dead => vol'[v].dead) /\ w'[x].op # "deploy"
      BY <1>0, <1>4, <2>2, LsDeleteRows DEF RollBase
    <3>2. ~Has(q'["ls"], "deploy")
      BY <1>0, <3>1 DEF RollBase
    <3> QED
      BY <2>2, <2>b, <2>c, <3>1, <3>2
  <2>3. CASE w[x].op = "deploy"
    <3>1. \A y \in LsThread : y # x => w[y].op # "deploy"
      BY <1>0, <2>3 DEF RollBase, LsRows, OneDeploy
    <3>2. /\ UNCHANGED <<faults, dom>> /\ q'["hva"] = q["hva"] /\ inst'.state \in {inst.state, "terminated"}
          /\ w'[x].op \in {"deploy", "none"} /\ (w'[x].op = "deploy" => Backward(x)') /\ (w'[x].op = "none" => Swept')
      BY <1>0, <1>4, <2>3, <3>1, BackwardStep
    <3>3. LsRows'
      BY <1>0, <1>4, <2>3, LsDeployRows DEF RollBase
    <3>4. ~Has(q'["ls"], "deploy")
      <4>1. w[x].op # "none" /\ w[x].pc \in {"undeploy", "undeployed", "terminated", "v_deleted"}
        BY <1>0, <2>3 DEF Backward
      <4>2. CASE w[x].pc # "terminated"
        <5>1. D_undeploy(x) \/ S_undeployed(x) \/ S_release(x)
          BY <1>4, <4>1, <4>2, LsByPc
        <5>2. q' = q
          BY <5>1 DEF D_undeploy, S_undeployed, S_release, Does, Fails, Marks
        <5> QED
          BY <1>0, <5>2 DEF RollBase
      <4>3. CASE w[x].pc = "terminated"
        <5>1. finalize_instance
          BY <1>4, <4>1, <4>3, LsByPc DEF S_abandon
        <5>2. /\ q'["ls"] = q["ls"] \o delete_jobs(doomed \cap Local) /\ doomed \cap Local \in SUBSET Vol
              /\ q["ls"] \in Seq(Jobs)
          BY <5>1, Basics DEF finalize_instance, doomed, mine
        <5> DEFINE d == delete_jobs(doomed \cap Local)
        <5>3. d \in Seq([op : {"delete"}, vol : doomed \cap Local]) /\ q'["ls"] = q["ls"] \o d
          BY <5>2, DeleteJobs
        <5> HIDE DEF d
        <5>4. \A p : p # "delete" => (Has(q["ls"] \o d, p) <=> Has(q["ls"], p))
          BY <5>2, <5>3, GrownByDeletes
        <5> QED
          BY <1>0, <5>3, <5>4 DEF RollBase
      <4> QED
        BY <4>2, <4>3
    <3>5. RollBase'
      BY <2>b, <3>2, <3>3, <3>4
    <3>6. \A y \in LsThread : w'[y].op = "deploy" => y = x
      BY <2>a, <3>1
    <3>7. NoDeploy' => w'[x].op = "none"
      BY <3>2 DEF NoDeploy
    <3> QED
      BY <3>2, <3>5, <3>6, <3>7, RolledBackNext DEF Phase
  <2>4. w[x].op \in {"none", "delete", "deploy"}
    <3>1. w[x] = Idle \/ LsDoing(w[x])
      BY DEF Shape
    <3> QED
      BY <3>1 DEF LsDoing, Idle
  <2> QED
    BY <2>1, <2>2, <2>3, <2>4
<1> QED
  BY <1>1, <1>2, <1>3, <1>4 DEF Busy

(***************************************************************************)
(* Stopped instances                                                       *)
(***************************************************************************)
\* The local store gives no volume back to the instance.
LEMMA LsReleases ==
  ASSUME Shape, AllLocal, NEW x \in LsThread, work(x)
  PROVE  inst'.state \in {inst.state, "initializing", "terminated"} /\ \A v \in Vol : vol'[v].on => vol[v].on
<1>a. x \in Worker /\ (w[x] = Idle \/ LsDoing(w[x])) /\ w[x].todo \subseteq Vol
  BY Basics, WorkIs DEF Shape
<1>1. CASE LsTakes(x)
  BY <1>1 DEF LsTakes, Pulled
<1>2. CASE LsDriver(x)
  BY <1>2 DEF LsDriver, D_deploy, D_undeploy, D_delete, Does, Fails
<1>3. CASE S_raise(x)
  BY <1>3 DEF S_raise, Does
<1>4. CASE S_initializing(x)
  BY <1>4, SetIs DEF S_initializing, Sets
<1>5. CASE S_abandon(x)
  <2>1. finalize_instance
    BY <1>5 DEF S_abandon
  <2>2. \A v \in Vol : vol'[v].on => vol[v].on
    <3>1. \A v \in Vol : v \in doomed => vol[v].on
      BY DEF doomed, mine
    <3> QED
      BY <2>1, <3>1 DEF finalize_instance, finalize_volume, updated
  <2> QED
    BY <2>1, <2>2, FinalizeKeeps
<1>6. CASE S_release(x)
  <2>1. PICK v \in w[x].todo : vol' = [vol EXCEPT ![v] = updated(vol[v], "deleted", FALSE)]
    BY <1>6 DEF S_release
  <2>2. ~vol'[v].on /\ \A u \in Vol : u # v => vol'[u] = vol[u]
    BY <1>a, <2>1, Released
  <2>3. inst' = inst
    BY <1>6 DEF S_release
  <2> QED
    BY <2>2, <2>3
<1>7. CASE S_available(x) \/ S_undeployed(x) \/ S_deleted(x)
  <2>1. PICK s \in {"available", "deleted"} : Marks(w[x].vol, s)
    BY <1>7 DEF S_available, S_undeployed, S_deleted
  <2>2. w[x].vol \in Vol /\ s \in VolState
    BY <1>7, <1>a, InstanceConstants DEF S_available, S_undeployed, S_deleted, At, LsDoing, Idle, VolState
  <2>3. vol'[w[x].vol].on = vol[w[x].vol].on /\ \A u \in Vol : u # w[x].vol => vol'[u] = vol[u]
    BY <2>1, <2>2, Marked
  <2>4. inst' = inst
    BY <2>1 DEF Marks
  <2> QED
    BY <2>3, <2>4
<1>8. CASE S_submit(x)
  BY <1>8 DEF S_submit
<1> QED
  BY <1>1, <1>2, <1>3, <1>4, <1>5, <1>6, <1>7, <1>8, LsIs DEF LsRpc

Off == \A v \in Vol : ~vol[v].on
Idling == {"idle", "prepare", "run", "t_domain", "finalize", "shuttingdown",
           "starting", "poweron", "halted", "poweroff", "soft_poweroff", "reboot"}
StopBase == /\ "stop" \in asked /\ dom = "off" /\ sched # "instance"
            /\ inst.state \notin {"none", "running", "halting"} /\ LsRows
Releasing == h.op = "stop" /\ h.pc = "v_deleted" /\ \A v \in Vol : vol[v].on => v \in h.todo
Bare == h.op # "stop" /\ Off /\ h.vols = {} /\ h.todo = {} /\ h.pc \in Idling

LEMMA StoppedIs == Stopped <=> StopBase /\ (Releasing \/ Bare)
BY DEF Stopped, StopBase, Releasing, Bare, Off, Idling
LEMMA StoppedNext ==
  ASSUME StopBase', (Releasing \/ Bare)'
  PROVE  Stopped'
BY DEF Stopped, StopBase, Releasing, Bare, Off, Idling

LEMMA StoppedLs ==
  ASSUME Shape, Shape', AllLocal, StopBase, Releasing \/ Bare, NEW x \in LsThread, work(x), ~leaky'
  PROVE  Stopped'
<1>1. h' = h /\ UNCHANGED <<sched, asked, dom>>
  BY LsOthers
<1>2. inst'.state \in {inst.state, "initializing", "terminated"} /\ \A v \in Vol : vol'[v].on => vol[v].on
  BY LsReleases
<1>3. LsRows'
  <2>1. w[x].op \in {"none", "delete", "deploy"}
    <3>1. w[x] = Idle \/ LsDoing(w[x])
      BY DEF Shape
    <3> QED
      BY <3>1 DEF LsDoing, Idle
  <2>2. CASE w[x].op = "none"
    BY <2>2, LsIdleIs, LsTakesRows DEF StopBase
  <2>3. CASE w[x].op = "delete"
    BY <2>3, LsDeleteRows DEF StopBase
  <2>4. CASE w[x].op = "deploy"
    BY <2>4, LsDeployRows DEF StopBase
  <2> QED
    BY <2>1, <2>2, <2>3, <2>4
<1>4. StopBase'
  BY <1>1, <1>2, <1>3 DEF StopBase
<1>5. (Releasing => Releasing') /\ (Bare => Bare')
  BY <1>1, <1>2 DEF Releasing, Bare, Off
<1> QED
  BY <1>4, <1>5, StoppedNext

LEMMA ReleasingStep ==
  ASSUME Shape, Shape', AllLocal, StopBase, Releasing, work("hva")
  PROVE  Stopped'
<1>n. h.op # "none" /\ "hva" \in Worker
  BY Basics DEF Releasing
<1>a. h.todo \subseteq Vol
  BY <1>n, WorkIs DEF h
<1>b. (\A x \in LsThread : w'[x] = w[x]) /\ UNCHANGED <<sched, mon, asked>>
  BY HvaOthers
<1>1. S_release("hva")
  BY <1>n, HvaByPc DEF Releasing
<1>2. PICK v \in h.todo : /\ vol' = [vol EXCEPT ![v] = updated(vol[v], "deleted", FALSE)]
                          /\ Loop("hva", "v_deleted", "idle", h.todo \ {v})
  BY <1>1 DEF S_release, h
<1>3. UNCHANGED <<inst, q, disk, dom>>
  BY <1>1 DEF S_release
<1>4. vol'[v].state = "deleted" /\ ~vol'[v].on /\ \A u \in Vol : u # v => vol'[u] = vol[u]
  BY <1>a, <1>2, Released
<1>5. LsRows'
  <2>1. \A u \in Vol : Offered(u)' => Offered(u)
    BY <1>4 DEF Offered
  <2> QED
    BY <1>b, <1>3, <2>1, RowsKept DEF StopBase
<1>6. StopBase'
  BY <1>b, <1>3, <1>5 DEF StopBase
<1>7. CASE h.todo \ {v} = {}
  <2>1. h' = Idle
    BY <1>2, <1>7 DEF Loop, Goes, To, h
  <2>2. Off'
    BY <1>4, <1>7 DEF Releasing, Off
  <2>3. Bare'
    BY <2>1, <2>2 DEF Bare, Idle, Idling
  <2> QED
    BY <1>6, <2>3, StoppedNext
<1>8. CASE h.todo \ {v} # {}
  <2>1. h'.op = "stop" /\ h'.pc = "v_deleted" /\ h'.todo = h.todo \ {v}
    BY <1>2, <1>8 DEF Loop, To, h, Releasing
  <2>2. Releasing'
    BY <1>4, <2>1 DEF Releasing
  <2> QED
    BY <1>6, <2>2, StoppedNext
<1> QED
  BY <1>7, <1>8

LEMMA BareStep ==
  ASSUME Shape, Shape', AllLocal, StopBase, Bare, work("hva"), ~leaky'
  PROVE  Stopped'
<1>a. mine = {} /\ all_available
  BY DEF Bare, Off, mine, all_available
<1>b. (\A x \in LsThread : w'[x] = w[x]) /\ UNCHANGED <<sched, mon, asked>> /\ "hva" \in Worker
  BY HvaOthers, Basics
<1>i. Idle.op = "none" /\ Idle.pc = "idle" /\ Idle.vols = {} /\ Idle.todo = {}
  BY DEF Idle
<1>c. ASSUME \A v \in Vol : vol'[v] = vol[v], disk' = disk, dom' = "off", q'["ls"] = q["ls"],
             inst'.state \notin {"none", "running", "halting"}, inst'.state # "stopped" \/ inst'.state = inst.state,
             h'.op # "stop", h'.vols = {}, h'.todo = {}, h'.pc \in Idling
      PROVE  Stopped'
  <2>1. LsRows'
    <3>1. \A v \in Vol : Offered(v)' => Offered(v)
      BY <1>c DEF Offered
    <3> QED
      BY <1>b, <1>c, <3>1, RowsKept DEF StopBase
  <2>2. StopBase'
    BY <1>b, <1>c, <2>1 DEF StopBase
  <2>3. Bare'
    BY <1>c DEF Bare, Off
  <2> QED
    BY <2>2, <2>3, StoppedNext
<1>1. CASE h.op = "none"
  <2>1. HvaTakes
    BY <1>1, HvaIdle
  <2>2. UNCHANGED <<inst, vol, disk, dom>> /\ q'["ls"] = q["ls"]
    BY <2>1, HvaTakesKeeps DEF Pulled
  <2>3. h'.op # "stop" /\ h'.vols = {} /\ h'.todo = {} /\ h'.pc \in Idling
    <3>1. ASSUME NEW o, NEW pc, Took("hva", o, pc, {}), o # "stop" \/ pc = "idle", pc \in Idling
          PROVE  h'.op # "stop" /\ h'.vols = {} /\ h'.todo = {} /\ h'.pc \in Idling
      BY <1>a, <1>i, <3>1 DEF Took, h, Idling
    <3>2. CASE Pulled("hva", "run_local")
      <4>1. \E pc \in {"t_domain", "prepare"} : Took("hva", "run_local", pc, {})
        BY <1>a, <2>1, <3>2 DEF HvaTakes, Pulled
      <4> QED
        BY <3>1, <4>1 DEF Idling
    <3>3. CASE ~Pulled("hva", "run_local")
      <4>1. ~Pulled("hva", "wait") /\ ~Pulled("hva", "run_vol")
        <5>1. PICK o \in HvaOps : Pulled("hva", o)
          BY <2>1, HvaTakesKeeps
        <5>2. o \notin {"wait", "run_vol"}
          BY NoSta DEF HvaOps
        <5> QED
          BY <5>1, <5>2 DEF Pulled
      <4>2. \/ Took("hva", "terminate", "shuttingdown", {}) \/ Took("hva", "terminate", "idle", {})
            \/ Took("hva", "force", "shuttingdown", {}) \/ Took("hva", "stop", "idle", {})
            \/ Took("hva", "poweroff", "poweroff", {}) \/ Took("hva", "soft_poweroff", "soft_poweroff", {})
            \/ Took("hva", "poweron", "starting", {}) \/ Took("hva", "reboot", "reboot", {})
        BY <2>1, <3>3, <4>1 DEF HvaTakes, StopBase
      <4> QED
        BY <3>1, <4>2 DEF Idling
    <3> QED
      BY <3>2, <3>3
  <2> QED
    BY <1>c, <2>2, <2>3 DEF StopBase
<1>2. CASE h.op # "none"
  <2>n. HvaDoing(h) /\ h.op \notin {"wait", "run_vol", "stop", "deploy", "create"} /\ h.vols = {} /\ h.todo = {}
    <3>1. HvaDoing(h) /\ Shared = {}
      BY <1>2, NoSta, IdleIs DEF Shape, h
    <3> QED
      BY <1>2, <3>1 DEF HvaDoing, HvaOps, Bare
  <2>d. ASSUME NEW pc \in Idling, Goes("hva", pc)
        PROVE  h'.op # "stop" /\ h'.vols = {} /\ h'.todo = {} /\ h'.pc \in Idling
    BY <1>i, <2>d, <2>n DEF Goes, To, h, Idling
  <2>e. ASSUME NEW s \in {"shuttingdown", "stopping", "starting", "halted"}, Sets(s), NEW pc \in Idling, Goes("hva", pc)
        PROVE  Stopped'
    <3>1. UNCHANGED <<q, vol, disk, dom>> /\ inst'.state = s
      BY <2>e, SetIs DEF Sets
    <3> QED
      BY <1>c, <2>d, <2>e, <3>1 DEF StopBase
  <2>f. ASSUME Does("off", disk, mapped), NEW pc \in Idling, Goes("hva", pc)
        PROVE  Stopped'
    <3>1. UNCHANGED <<q, inst, vol, disk>> /\ dom' = "off"
      BY <2>f DEF Does
    <3> QED
      BY <1>c, <2>d, <2>f, <3>1 DEF StopBase
  <2>h. ~bootable("hva")
    BY <2>n DEF bootable, h
  <2>r. ASSUME S_raise("hva") PROVE Stopped'
    <3>1. h.pc \in {"run", "poweron"} => hopeless("hva")
      BY <2>h DEF hopeless, at, h
    <3>2. h.pc \notin {"map", "deploy", "create"}
      BY <2>n, NoSta DEF HvaDoing
    <3>3. Does("off", disk, mapped)
      BY <2>r, <3>1, <3>2 DEF S_raise, At, h, StopBase
    <3>4. \E pc \in {"t_domain", "halted", "idle"} : Goes("hva", pc)
      BY <2>n, <2>r DEF S_raise, h
    <3> QED
      BY <2>f, <3>3, <3>4 DEF Idling
  <2>1. CASE h.pc = "reboot"
    BY <1>2, <2>1, <2>f, <2>r, HvaByPc DEF D_reboot, Idling, StopBase
  <2>2. CASE h.pc = "poweroff"
    BY <1>2, <2>2, <2>f, <2>r, HvaByPc DEF D_off, Idling
  <2>3. CASE h.pc = "soft_poweroff"
    BY <1>2, <2>3, <2>f, <2>r, HvaByPc DEF D_soft, Idling, StopBase
  <2>4. CASE h.pc = "halted"
    BY <1>2, <2>4, <2>e, HvaByPc DEF S_halted, Idling
  <2>5. CASE h.pc = "starting"
    BY <1>2, <2>5, <2>e, HvaByPc DEF S_starting, Idling
  <2>6. CASE h.pc = "prepare"
    <3>1. D_prepare("hva") \/ S_raise("hva")
      BY <1>2, <2>6, HvaByPc
    <3>2. D_prepare("hva") => Does("off", disk, mapped) /\ \E pc \in {"run", "poweron"} : Goes("hva", pc)
      BY <2>n DEF D_prepare, StopBase, Loop, h
    <3> QED
      BY <2>f, <2>r, <3>1, <3>2 DEF Idling
  <2>7. CASE h.pc \in {"run", "poweron"}
    <3>1. ~D_run("hva")
      BY <2>h DEF D_run
    <3> QED
      BY <1>2, <2>7, <2>r, <3>1, HvaByPc
  <2>8. CASE h.pc = "shuttingdown"
    <3>1. PICK s \in {"shuttingdown", "stopping"} : Sets(s) /\ Goes("hva", "t_domain")
      BY <1>2, <2>8, HvaByPc DEF S_shut
    <3> QED
      BY <2>e, <3>1 DEF Idling
  <2>9. CASE h.pc = "t_domain"
    <3>1. D_domain("hva")
      BY <1>2, <2>9, HvaByPc
    <3>2. Does("off", disk, mapped) /\ Goes("hva", "finalize")
      BY <2>n, <3>1 DEF D_domain, Fails, Loop, Gone, h
    <3> QED
      BY <2>f, <3>2 DEF Idling
  <2>10. CASE h.pc = "finalize"
    <3>1. S_finalize("hva")
      BY <1>2, <2>10, HvaByPc
    <3>2. Apart /\ Goes("hva", "idle") /\ (finalize_instance \/ UNCHANGED <<inst, vol, q>>)
      BY <3>1 DEF S_finalize
    <3>3. UNCHANGED <<disk, dom>>
      BY <3>2 DEF Apart
    <3>4. /\ q'["ls"] = q["ls"] /\ \A v \in Vol : vol'[v] = vol[v]
          /\ inst'.state \in {inst.state, "terminated"}
      BY <3>2, FinalizeNothing DEF Bare, Off
    <3> QED
      BY <1>c, <2>d, <3>2, <3>3, <3>4 DEF StopBase, Idling
  <2>11. h.pc # "idle"
    BY <1>2, IdleIs
  <2> QED
    BY <2>1, <2>2, <2>3, <2>4, <2>5, <2>6, <2>7, <2>8, <2>9, <2>10, <2>11 DEF Bare, Idling
<1> QED
  BY <1>1, <1>2

LEMMA StoppedStep ==
  ASSUME Shape, Shape', AllLocal, Stopped, Next, ~leaky'
  PROVE  Phase'
<1>0. StopBase /\ (Releasing \/ Bare)
  BY StoppedIs
<1>b. ASSUME UNCHANGED <<w, dom, asked>> \/ (UNCHANGED <<w, dom>> /\ asked \subseteq asked'), sched' # "instance",
             \A v \in Vol : vol'[v].on = vol[v].on, inst'.state \notin {"none", "running", "halting"}, LsRows'
      PROVE  Phase'
  <2>1. StopBase'
    BY <1>0, <1>b DEF StopBase
  <2>2. (Releasing => Releasing') /\ (Bare => Bare')
    BY <1>b DEF Releasing, Bare, Off, h
  <2> QED
    BY <1>0, <2>1, <2>2, StoppedNext DEF Phase
<1>1. api_request \/ Scheduler \/ Busy \/ monitor
  <2>1. ~post /\ ~guest_shutdown
    BY <1>0 DEF StopBase, post, guest_shutdown
  <2> QED
    BY <2>1, Moves
<1>2. CASE api_request
  <2>1. CASE inst.state # "stopped"
    <3>1. UNCHANGED <<vol, sched, w, dom, disk>> /\ q'["ls"] = q["ls"] /\ asked \subseteq asked'
      BY <1>2, <2>1, AskedIs
    <3>2. inst'.state \notin {"none", "running", "halting", "stopped"}
      BY <1>0, <1>2, <2>1, AskedIs DEF StopBase
    <3>3. LsRows'
      BY <1>0, <3>1, <3>2, RowsKept DEF StopBase, Offered
    <3> QED
      BY <1>0, <1>b, <3>1, <3>2, <3>3 DEF StopBase
  <2>2. CASE inst.state = "stopped"
    <3>1. delete \/ start
      BY <1>2, <2>2 DEF api_request, put_job, poweroff, poweron
    <3>2. CASE delete
      <4>1. inst'.state = "terminated" /\ UNCHANGED <<q, vol, sched, w, dom, disk>> /\ asked \subseteq asked'
        BY <2>2, <3>2, Row DEF delete, accept, real, destroyed, InstRow
      <4>2. LsRows'
        BY <1>0, <4>1, RowsKept DEF StopBase, Offered
      <4> QED
        BY <1>0, <1>b, <4>1, <4>2 DEF StopBase
    <3>3. CASE start
      <4>1. /\ inst'.state = "scheduling" /\ UNCHANGED <<q, vol, w, dom, disk>> /\ asked \subseteq asked'
            /\ sched' = "start"
        BY <3>3, Row DEF start, accept, real, update_instance, InstRow
      <4>2. NoDeploy /\ \A v \in Vol : ~Deletes(v)
        BY <1>0, <2>2 DEF StopBase, LsRows, OneDeploy, DeletesLast
      <4>3. OneDeploy'
        BY <1>0, <4>1, <4>2 DEF StopBase, LsRows, OneDeploy, NoDeploy
      <4>4. DeletesLast'
        BY <4>1, <4>2 DEF DeletesLast, Deletes
      <4>5. OfferedIsThere' /\ DeployIsRight'
        BY <1>0, <4>1 DEF StopBase, LsRows, OfferedIsThere, Offered, Owes, DeployIsRight
      <4>6. LsRows'
        BY <4>3, <4>4, <4>5 DEF LsRows
      <4> QED
        BY <1>b, <4>1, <4>6
    <3> QED
      BY <3>1, <3>2, <3>3
  <2> QED
    BY <2>1, <2>2
<1>3. CASE Scheduler
  <2>1. ~schedule_instance
    BY <1>0 DEF StopBase, schedule_instance
  <2>2. sched = "start"
    <3>1. sched # "none"
      BY <1>3 DEF Scheduler, schedule_instance, schedule_start_instance, schedule_error
    <3> QED
      BY <1>0, <3>1 DEF StopBase, Shape, TypeOK
  <2>3. NoDeploy /\ \A v \in Vol : ~Deletes(v)
    BY <1>0, <2>2 DEF StopBase, LsRows, OneDeploy, DeletesLast
  <2>4. \A v \in Vol : Offered(v) => v \in disk
    BY <1>0, <2>3 DEF StopBase, LsRows, OfferedIsThere, NoDeploy, Owes
  <2>5. CASE schedule_start_instance
    <3>1. Boot \in Local
      BY VolThere DEF AllLocal
    <3>2. /\ submit("ls", "deploy", NoVol) /\ sched' = "none" /\ UNCHANGED <<vol, w, dom, disk, asked>>
          /\ inst'.state = "pending"
      BY <2>5, <3>1, Row DEF schedule_start_instance, real, api, InstRow
    <3>3. Grown(q["ls"], q'["ls"], "deploy")
      BY <3>2, SentTo
    <3>4. Once(q'["ls"], "deploy") /\ \A v \in Vol : ~Deletes(v)'
      BY <1>0, <2>3, <3>2, <3>3 DEF StopBase, LsRows, OneDeploy, NoDeploy, Grown, Deletes
    <3>5. OneDeploy' /\ DeletesLast' /\ DeployIsRight'
      BY <2>3, <3>2, <3>4 DEF OneDeploy, NoDeploy, DeletesLast, DeployIsRight
    <3>6. OfferedIsThere'
      BY <2>4, <3>2 DEF OfferedIsThere, Offered
    <3>7. LsRows'
      BY <3>5, <3>6 DEF LsRows
    <3> QED
      BY <1>b, <3>2, <3>7
  <2>6. CASE schedule_error
    <3>1. sched' = "none" /\ UNCHANGED <<q, w, dom, disk, asked>> /\ inst'.state = "terminated"
      BY <2>6, Row DEF schedule_error, real, api, destroyed, InstRow
    <3>2. \A v \in Vol : vol'[v].on = vol[v].on /\ vol'[v].state \in {vol[v].state, "deleted"}
      BY <2>6 DEF schedule_error, updated
    <3>3. OneDeploy'
      BY <1>0, <3>1 DEF StopBase, LsRows, OneDeploy
    <3>4. DeletesLast' /\ DeployIsRight'
      BY <2>3, <3>1 DEF DeletesLast, Deletes, DeployIsRight, NoDeploy
    <3>5. OfferedIsThere'
      BY <2>4, <3>1, <3>2 DEF OfferedIsThere, Offered
    <3>6. LsRows'
      BY <3>3, <3>4, <3>5 DEF LsRows
    <3> QED
      BY <1>b, <3>1, <3>2, <3>6
  <2> QED
    BY <1>3, <2>1, <2>5, <2>6 DEF Scheduler
<1>4. CASE work("hva")
  BY <1>0, <1>4, ReleasingStep, BareStep DEF Phase
<1>5. ASSUME NEW x \in LsThread, work(x) PROVE Phase'
  BY <1>0, <1>5, StoppedLs DEF Phase
<1>6. CASE monitor
  <2>1. UNCHANGED <<vol, sched, w, dom, disk, asked>> /\ q'["ls"] = q["ls"]
    BY <1>6, MonitorIs
  <2>2. inst'.state \in {inst.state, "halted"}
    BY <1>6, MonitorIs
  <2>3. LsRows'
    BY <1>0, <2>1, <2>2, RowsKept DEF StopBase, Offered
  <2> QED
    BY <1>0, <1>b, <2>1, <2>2, <2>3 DEF StopBase
<1> QED
  BY <1>1, <1>2, <1>3, <1>4, <1>5, <1>6 DEF Busy

(***************************************************************************)
(* The invariant, and what it says                                         *)
(***************************************************************************)
\* A step whose effect was lost stays on record.
LEMMA LeakyStays ==
  ASSUME Shape, AllLocal, [Next]_vars, leaky
  PROVE  leaky'
<1>1. CASE work("hva")
  BY <1>1, HvaOthers
<1>2. ASSUME NEW x \in LsThread, work(x) PROVE leaky'
  BY <1>2, LsOthers
<1>3. CASE api_request
  BY <1>3 DEF api_request, delete, put_job, start, poweroff, poweron, accept
<1>4. CASE monitor
  BY <1>4, MonitorIs
<1>5. CASE guest_shutdown
  BY <1>5, ShutdownIs
<1>6. CASE post \/ hva_crash \/ UNCHANGED vars
  BY <1>6 DEF post, hva_crash, vars
<1>7. CASE schedule_instance \/ schedule_start_instance \/ schedule_error
  BY <1>7 DEF schedule_instance, schedule_start_instance, schedule_error
<1> QED
  BY <1>1, <1>2, <1>3, <1>4, <1>5, <1>6, <1>7, NoSta DEF Next, Worker

LEMMA PhaseStutters ==
  ASSUME Phase, UNCHANGED vars
  PROVE  Phase'
<1>0. UNCHANGED <<inst, vol, sched, q, w, mon, dom, disk, faults, asked>> /\ h' = h
  BY DEF vars, h
<1>1. /\ (LsIdle => LsIdle') /\ (Nothing => Nothing') /\ (OnlyTerminate => OnlyTerminate') /\ (AllOn => AllOn')
      /\ (Reason => Reason') /\ (NoDeploy' => NoDeploy)
      /\ \A v \in Vol : (Offered(v)' <=> Offered(v)) /\ (Clean(v)' <=> Clean(v))
      /\ \A x \in LsThread : Forward(x) => Forward(x)'
  BY <1>0 DEF LsIdle, Nothing, OnlyTerminate, AllOn, Reason, NoDeploy, Offered, Clean, Forward
<1>2. LsRows => LsRows'
  BY <1>0, <1>1, RowsKept
<1>3. (New => New') /\ (Waiting => Waiting')
  BY <1>0, <1>1 DEF New, Waiting
<1>4. Deploying => Deploying'
  BY <1>0, <1>1 DEF Deploying
<1>5. RolledBack => RolledBack'
  BY <1>0, <1>1, <1>2 DEF RolledBack
<1>6. Booting => Booting'
  BY <1>0, <1>1 DEF Booting
<1>7. Alive => Alive'
  BY <1>0, <1>1 DEF Alive
<1>8. Ending => Ending'
  BY <1>0, <1>1 DEF Ending
<1>9. Stopped => Stopped'
  BY <1>0, <1>1, <1>2 DEF Stopped
<1> QED
  BY <1>3, <1>4, <1>5, <1>6, <1>7, <1>8, <1>9 DEF Phase

LEMMA InstStep ==
  ASSUME AllLocal, InstInv, [Next]_vars
  PROVE  InstInv'
<1>1. Shape /\ Meant /\ Shape' /\ Meant'
  BY ShapeStep, MeantStep DEF InstInv
<1>2. ASSUME ~leaky' PROVE Phase'
  <2>1. Phase
    BY <1>1, <1>2, LeakyStays DEF InstInv
  <2>2. CASE UNCHANGED vars
    BY <2>1, <2>2, PhaseStutters
  <2>3. CASE Next
    <3>1. CASE New
      BY <1>1, <1>2, <2>3, <3>1, NewStep
    <3>2. CASE Waiting
      BY <1>1, <1>2, <2>3, <3>2, WaitingStep
    <3>3. CASE Deploying
      BY <1>1, <1>2, <2>3, <3>3, DeployingStep
    <3>4. CASE RolledBack
      BY <1>1, <1>2, <2>3, <3>4, RolledBackStep
    <3>5. CASE Booting
      BY <1>1, <1>2, <2>3, <3>5, BootingStep
    <3>6. CASE Alive
      BY <1>1, <1>2, <2>3, <3>6, AliveStep
    <3>7. CASE Ending
      BY <1>1, <1>2, <2>3, <3>7, EndingStep
    <3>8. CASE Stopped
      BY <1>1, <1>2, <2>3, <3>8, StoppedStep
    <3> QED
      BY <2>1, <3>1, <3>2, <3>3, <3>4, <3>5, <3>6, <3>7, <3>8 DEF Phase
  <2> QED
    BY <2>2, <2>3
<1> QED
  BY <1>1, <1>2 DEF InstInv

LEMMA InstInit ==
  ASSUME Init
  PROVE  InstInv
<1>1. q["hva"] = <<>> /\ q["ls"] = <<>>
  BY DEF Init
<1>2. \A o : ~Has(q["hva"], o) /\ ~Has(q["ls"], o)
  BY <1>1 DEF Has
<1>3. \A x \in Worker : w[x].op = "none"
  BY DEF Init, Idle
<1>4. "hva" \in Worker /\ LsThread \subseteq Worker
  BY DEF Worker
<1>5. Meant
  BY <1>2, <1>3, <1>4 DEF Init, Meant, h
<1>6. New
  BY <1>2, <1>3, <1>4 DEF Init, New, LsIdle, Nothing, Offered, h
<1> QED
  BY <1>5, <1>6, ShapeInit DEF InstInv, Phase

\* All work is done: nobody executes a job, and none is queued.
LEMMA QuietIs ==
  ASSUME Shape, Quiet
  PROVE  /\ h.op = "none" /\ h.pc = "idle" /\ \A x \in LsThread : w[x].op = "none"
         /\ \A o : ~Has(q["ls"], o)
<1>1. "hva" \in Worker /\ LsThread \subseteq Worker /\ q["ls"] = <<>>
  BY Basics DEF Quiet
<1>2. h.pc = "idle" /\ \A x \in LsThread : w[x].pc = "idle"
  BY <1>1 DEF Quiet, at, h
<1>3. \A o : ~Has(q["ls"], o)
  BY <1>1 DEF Has
<1> QED
  BY <1>2, <1>3, IdleIs

\* What the invariant has in store for each property.
LEMMA PhaseSays ==
  ASSUME AllLocal, InstInv
  PROVE  NoSpontaneousDeath /\ NothingLeaks /\ RunningIsComplete /\ RowsTellTheTruth /\ NoDomainWithoutDisk
<1>0. Shape /\ (~leaky => Phase)
  BY DEF InstInv
<1>1. NoSpontaneousDeath
  <2>1. leaky => faults > 0
    BY <1>0 DEF Shape
  <2>2. Phase => ~inst.gone \/ Reason
    BY DEF Phase, New, Waiting, Deploying, RolledBack, Booting, Alive, Ending, Stopped, Reason
  <2> QED
    BY <1>0, <2>1, <2>2 DEF NoSpontaneousDeath, Reason
<1>2. NothingLeaks
  <2>1. SUFFICES ASSUME Quiet, inst.gone, ~leaky, "stop" \notin asked
                 PROVE  dom = "off" /\ disk = {} /\ mapped = {} /\ \A v \in Vol : vol[v].dead
    BY DEF NothingLeaks
  <2>2. mapped = {} /\ disk \subseteq Vol
    BY <1>0, NoSta, Row
  <2>3. RolledBack \/ Ending
    BY <1>0, <2>1 DEF Phase, New, Waiting, Deploying, Booting, Alive, Stopped
  <2>4. CASE RolledBack
    <3>1. NoDeploy
      BY <1>0, <2>1, QuietIs DEF NoDeploy
    <3> QED
      BY <2>2, <2>4, <3>1 DEF RolledBack
  <2>5. CASE Ending
    <3>1. h.pc = "idle"
      BY <1>0, <2>1, QuietIs
    <3>2. dom = "off" /\ \A v \in Vol : Clean(v)
      BY <2>5, <3>1 DEF Ending
    <3> QED
      BY <2>2, <3>2 DEF Clean
  <2> QED
    BY <2>3, <2>4, <2>5
<1>3. RunningIsComplete
  <2>1. SUFFICES ASSUME Quiet, inst.state = "running", ~leaky PROVE \A v \in Vol : vol[v].state = "attached"
    BY DEF RunningIsComplete
  <2>2. Alive
    BY <1>0, <2>1 DEF Phase, New, Waiting, Deploying, Forward, RolledBack, Booting, Ending, Stopped
  <2>3. h.op # "run_local"
    BY <1>0, <2>1, QuietIs
  <2> QED
    BY <2>2, <2>3 DEF Alive
<1>4. RowsTellTheTruth
  <2>1. SUFFICES ASSUME NEW v \in Vol, Offered(v), ~leaky, \A x \in LsThread : w[x].op # "deploy"
                 PROVE  v \in disk
    BY DEF RowsTellTheTruth, Offered
  <2>2. ~New /\ ~Waiting
    BY <2>1 DEF New, Waiting
  <2>3. ~Deploying
    BY <2>1 DEF Deploying, Forward
  <2>4. (Booting \/ Alive) => v \in disk
    BY DEF Booting, Alive
  <2>5. Ending => v \in disk
    BY <2>1 DEF Ending, Clean
  <2>6. LsRows => v \in disk
    BY <2>1 DEF LsRows, OfferedIsThere, Owes
  <2> QED
    BY <1>0, <2>1, <2>2, <2>3, <2>4, <2>5, <2>6 DEF Phase, RolledBack, Stopped
<1>5. NoDomainWithoutDisk
  <2>1. SUFFICES ASSUME dom # "off", ~leaky PROVE Boot \in disk
    BY DEF NoDomainWithoutDisk
  <2>2. Alive \/ Ending
    BY <1>0, <2>1 DEF Phase, New, Waiting, Deploying, RolledBack, Booting, Stopped
  <2>3. disk = Vol
    BY <2>1, <2>2 DEF Alive, Ending
  <2> QED
    BY <2>3, VolThere
<1> QED
  BY <1>1, <1>2, <1>3, <1>4, <1>5

LocalInv == Local = Vol /\ InstInv

LEMMA LocalStart == Local = Vol /\ Init => LocalInv
BY InstInit DEF LocalInv
LEMMA LocalStep == LocalInv /\ [Next]_vars => LocalInv'
BY InstStep DEF LocalInv, AllLocal

\* An instance on local volumes dies only of a request or of a failure: however
\* its terminate, stop and power jobs, the monitor's recovery and the boot
\* interleave, no finalize_instance runs that nobody asked for and no error
\* called for.
THEOREM LocalDiesForAReason == Local = Vol /\ Spec => []NoSpontaneousDeath
<1>1. LocalInv => NoSpontaneousDeath
  BY PhaseSays DEF LocalInv, AllLocal
<1> QED
  BY <1>1, LocalStart, LocalStep, PTL DEF Spec

\* A terminated instance on local volumes has left no domain, no volume data and
\* no live row when all agents are idle again: terminate_instance, the rollback
\* of a failed deployment and the delete jobs of finalize_instance reach every
\* volume, unless HVA crashes, a cleanup call fails or the instance was stopped.
THEOREM LocalLeavesNothing == Local = Vol /\ Spec => []NothingLeaks
<1>1. LocalInv => NothingLeaks
  BY PhaseSays DEF LocalInv, AllLocal
<1> QED
  BY <1>1, LocalStart, LocalStep, PTL DEF Spec

\* An instance that is running while all agents are idle has every one of its
\* local volumes attached: no request, guest death or power cycle gets between
\* the domain's start and the updates to attached.
THEOREM LocalBootsCompletely == Local = Vol /\ Spec => []RunningIsComplete
<1>1. LocalInv => RunningIsComplete
  BY PhaseSays DEF LocalInv, AllLocal
<1> QED
  BY <1>1, LocalStart, LocalStep, PTL DEF Spec

\* A local volume's row says available, attaching or attached only while its
\* data exists, except while the local store rolls a deployment back: deploy,
\* undeploy, terminate_instance and late delete jobs update rows and data in an
\* order that never overstates what is there.
THEOREM LocalRowsTellTheTruth == Local = Vol /\ Spec => []RowsTellTheTruth
<1>1. LocalInv => RowsTellTheTruth
  BY PhaseSays DEF LocalInv, AllLocal
<1> QED
  BY <1>1, LocalStart, LocalStep, PTL DEF Spec

\* No domain runs without the data of its local boot volume: no delete job,
\* forced terminate or poweron that overtakes a terminate gets to a volume while
\* the domain is up, or starts the domain after the volume is gone.
THEOREM LocalDomainHasDisk == Local = Vol /\ Spec => []NoDomainWithoutDisk
<1>1. LocalInv => NoDomainWithoutDisk
  BY PhaseSays DEF LocalInv, AllLocal
<1> QED
  BY <1>1, LocalStart, LocalStep, PTL DEF Spec

=============================================================================
