------------------------------ MODULE JobQueue ------------------------------
(***************************************************************************)
(* The RDBMS job queue: the queued_jobs table (models/queued_job.rb), the  *)
(* collector's jobqueue-proxy endpoint (node_modules/job_queue_proxy.rb)   *)
(* that serves it over AMQP RPC, and the pollers of an agent that pop and  *)
(* run jobs (node_modules/job_queue_worker.rb, used by bin/bksta).         *)
(*                                                                         *)
(* One queue is modelled.  The proxy handles one request at a time, in     *)
(* arrival order: its rack stack runs under Isono::Rack::DataStore, the    *)
(* collector's only database thread, behind one AMQP queue.  A request can *)
(* be lost (collector or broker restart) and a caller can stop waiting for *)
(* an answer (RPC timeout) while its request is still queued; a node can   *)
(* crash and restart.  Faults are limited by MaxFaults.                    *)
(***************************************************************************)
EXTENDS Naturals, Sequences, FiniteSets

CONSTANTS
    MaxJobs,        \* rows ever submitted; ids are 1..MaxJobs
    Node,           \* worker nodes subscribed to the queue
    Concurrency,    \* poll chains per node (Poller#start)
    PoolSize,       \* worker_thread pool size per node (4 in the code)
    MaxAttempts,    \* pop attempts of pop_job (3 in the code)
    RetryMaxes,     \* retry_max values submitters ask for (0: queue default)
    DefaultRetryMax,\* default_retry_max given to subscribe
    MaxFaults,      \* bound: RPC timeouts, lost requests and crashes
    NoNode          \* NULL in queued_jobs.worker_id

ASSUME JobQueueConstants ==
    /\ MaxJobs \in Nat
    /\ Concurrency \in Nat \ {0}
    /\ PoolSize \in Nat \ {0}
    /\ MaxAttempts \in Nat
    /\ RetryMaxes \subseteq Nat
    /\ DefaultRetryMax \in Nat
    /\ MaxFaults \in Nat
    /\ NoNode \notin Node

Job == 1 .. MaxJobs
Poller == Node \X (1 .. Concurrency)
Client == <<NoNode, 0>>         \* an AMQP client that is not a poller

VARIABLES
    job,        \* the queued_jobs table
    reqs,       \* requests waiting at the jobqueue-proxy endpoint
    poller,     \* the poll chains
    running,    \* Poller#@running of each node, and the progress of stop
    faults,     \* faults so far
    work,       \* history: what job blocks did, per job
    orphaned,   \* history: jobs whose pop answer or whose worker was lost
    unreported  \* history: lost finish_success and finish_fail requests

vars == <<job, reqs, poller, running, faults, work, orphaned, unreported>>
history == <<work, orphaned, unreported>>

(***************************************************************************)
(* Types                                                                   *)
(***************************************************************************)
Row == [state   : {"none", "pending", "running", "finished"},
        worker  : Node \cup {NoNode},
        started : BOOLEAN,
        max     : Nat,              \* retry_max
        count   : Nat,              \* retry_count
        status  : {"none", "success", "fail", "cancel"}]

Report == {"success", "fail"}
\* live: the caller still waits for the answer
Request ==
    [op : {"pop"}, from : Poller, live : BOOLEAN, job : {0}]
      \cup [op : Report, from : Poller, live : BOOLEAN, job : Job]
      \cup [op : {"cancel"}, from : {Client}, live : {FALSE}, job : Job]

\* "wait" is the 15 s timer, "arm" the moment between schedule_next's test of
\* @running and the creation of that timer on the EM thread.
Chain ==
    [pc : {"poll", "pop", "backoff", "again", "next", "arm", "wait", "end"},
     job : {0}, max : {0}, count : {0},
     tries : Nat]                   \* attempts of pop_job
      \cup
    [pc : {"run", "success", "fail"},
     job : Job, max : Nat, count : Nat,  \* the job hash that pop answered
     tries : {0}]

NoRow == [state |-> "none", worker |-> NoNode, started |-> FALSE,
          max |-> 0, count |-> 0, status |-> "none"]
Idle == [pc |-> "poll", job |-> 0, max |-> 0, count |-> 0, tries |-> 0]
At(pc) == [Idle EXCEPT !.pc = pc]
Work == [begun : Nat, done : Nat, failure : Nat]
NoWork == [begun |-> 0, done |-> 0, failure |-> 0]

Init ==
    /\ job = [j \in Job |-> NoRow]
    /\ reqs = <<>>
    /\ poller = [p \in Poller |-> Idle]
    /\ running = [n \in Node |-> "yes"]
    /\ faults = 0
    /\ work = [j \in Job |-> NoWork]
    /\ orphaned = {}
    /\ unreported = {}

(***************************************************************************)
(* QueuedJob: the row operations                                           *)
(***************************************************************************)

\* finished? and the guard of finish_cancel, finish_success and finish_fail
Unfinished_NoCheck(row) == TRUE
Unfinished(row) == row.state # "finished"

finish_entry(row, status) ==
    [row EXCEPT !.state = "finished", !.status = status]

pushed_back(row) == [row EXCEPT !.state = "pending", !.worker = NoNode]

\* finish_fail: is the job stored in the queue again?
RetryLeft_OffByOne(row) == row.max >= row.count
RetryLeft(row) == row.max > row.count

failed(row) == IF RetryLeft(row) THEN pushed_back(row)
                                 ELSE finish_entry(row, "fail")

\* pop's filter: pending, no worker, lowest id
Poppable_AnyState(row) == row.state \in {"pending", "running"}
Poppable(row) == row.state = "pending" /\ row.worker = NoNode
NextJob(j) == Poppable(job[j]) /\ \A k \in Job : k < j => ~Poppable(job[k])

first_max(row) == IF ~row.started /\ row.max = 0 THEN DefaultRetryMax ELSE row.max
popped(row, n) ==
    [state |-> "running", worker |-> n, started |-> TRUE,
     max |-> first_max(row), count |-> row.count + 1, status |-> row.status]

\* Rows are created in id order.  The API process inserts through the Sequel
\* backend, whose submit drops every option but parent_id (retry_max = 0); an
\* AMQP client's retry_max is kept.
created(max) == [state |-> "pending", worker |-> NoNode, started |-> FALSE,
                 max |-> max, count |-> 0, status |-> "none"]
submit(j, max) ==
    /\ job[j].state = "none"
    /\ \A k \in Job : k < j => job[k].state # "none"
    /\ job' = [job EXCEPT ![j] = created(max)]
    /\ UNCHANGED <<reqs, poller, running, faults, history>>

(***************************************************************************)
(* Poller: the chain poll -> pop_once -> schedule_immediate/schedule_next  *)
(***************************************************************************)
NodeOf(p) == p[1]

\* the threads of the node's pool that are busy with a poll
Busy(n) == {p \in Poller : /\ NodeOf(p) = n
                           /\ poller[p].pc \in {"pop", "backoff", "run",
                                                "success", "fail"}}

report(op, p, j) == [op |-> op, from |-> p, live |-> TRUE, job |-> j]
send(op, p, j) == reqs' = Append(reqs, report(op, p, j))

\* poll: a pool thread takes the chain and pop_job sends its first request
poll(p) ==
    /\ poller[p].pc = "poll"
    /\ Cardinality(Busy(NodeOf(p))) < PoolSize
    /\ poller' = [poller EXCEPT ![p] = At("pop")]
    /\ send("pop", p, 0)
    /\ UNCHANGED <<job, running, faults, history>>

\* pop_job after a failed attempt: sleep, then retry while @running
retry_pop(p) ==
    /\ poller[p].pc = "backoff"
    /\ IF running[NodeOf(p)] = "yes"
       THEN /\ poller' = [poller EXCEPT ![p].pc = "pop"]
            /\ send("pop", p, 0)
       ELSE /\ poller' = [poller EXCEPT ![p] = At("next")]
            /\ UNCHANGED reqs
    /\ UNCHANGED <<job, running, faults, history>>

\* JobContext#retry?: will a failure of this attempt be retried?
retry_OffByOne(c) == c.count <= c.max
retry(c) == c.count < c.max

\* run: the block returns, pop_once reports it
run_success(p) ==
    /\ poller[p].pc = "run"
    /\ work' = [work EXCEPT ![poller[p].job].done = @ + 1]
    /\ poller' = [poller EXCEPT ![p].pc = "success"]
    /\ send("success", p, poller[p].job)
    /\ UNCHANGED <<job, running, faults, orphaned, unreported>>

\* run: the block raises; the failure block runs unless there is a retry
run_failure(p) ==
    /\ poller[p].pc = "run"
    /\ work' = IF retry(poller[p]) THEN work
               ELSE [work EXCEPT ![poller[p].job].failure = @ + 1]
    /\ poller' = [poller EXCEPT ![p].pc = "fail"]
    /\ send("fail", p, poller[p].job)
    /\ UNCHANGED <<job, running, faults, orphaned, unreported>>

\* poll's ensure clause: schedule_immediate (EM.schedule { poll }) after a job
\* that succeeded, schedule_next otherwise; both stop the chain unless @running
schedule_NoCheck(p) ==
    /\ poller[p].pc \in {"again", "next"}
    /\ poller' = [poller EXCEPT ![p].pc = IF @ = "again" THEN "poll" ELSE "arm"]
    /\ UNCHANGED <<job, reqs, running, faults, history>>
schedule_DropOnError(p) ==
    /\ poller[p].pc \in {"again", "next"}
    /\ poller' = [poller EXCEPT ![p].pc = IF @ = "again" THEN "poll" ELSE "end"]
    /\ UNCHANGED <<job, reqs, running, faults, history>>
schedule(p) ==
    /\ poller[p].pc \in {"again", "next"}
    /\ poller' = [poller EXCEPT ![p].pc =
          IF running[NodeOf(p)] # "yes" THEN "end"
          ELSE IF @ = "again" THEN "poll" ELSE "arm"]
    /\ UNCHANGED <<job, reqs, running, faults, history>>

\* PollScheduler#wait on the EM thread, and the timer firing
timer(p) ==
    /\ poller[p].pc \in {"arm", "wait"}
    /\ poller' = [poller EXCEPT ![p].pc = IF @ = "arm" THEN "wait" ELSE "poll"]
    /\ UNCHANGED <<job, reqs, running, faults, history>>

\* unsubscribe / Poller#stop, then the EM callback that cancels timers in flight
stop(n) ==
    /\ running[n] = "yes"
    /\ running' = [running EXCEPT ![n] = "stopping"]
    /\ UNCHANGED <<job, reqs, poller, faults, history>>

cancel_timers(n) ==
    /\ running[n] = "stopping"
    /\ running' = [running EXCEPT ![n] = "no"]
    /\ poller' = [p \in Poller |->
                    IF NodeOf(p) = n /\ poller[p].pc = "wait"
                    THEN [poller[p] EXCEPT !.pc = "end"] ELSE poller[p]]
    /\ UNCHANGED <<job, reqs, faults, history>>

(***************************************************************************)
(* JobQueueProxy: one request at a time, each handled atomically.  An      *)
(* answer nobody waits for is dropped.                                     *)
(***************************************************************************)
Serve(op) == Len(reqs) > 0 /\ Head(reqs).op = op

\* The caller of r, if it still waits, leaves pop_once and continues at pc.
answered(r, pc) == IF r.live THEN [poller EXCEPT ![r.from] = At(pc)] ELSE poller

pop ==
    /\ Serve("pop")
    /\ LET r == Head(reqs) IN
         \/ \E j \in Job :
              LET row == popped(job[j], NodeOf(r.from)) IN
              /\ NextJob(j)
              /\ job' = [job EXCEPT ![j] = row]
              /\ IF r.live
                 THEN /\ poller' = [poller EXCEPT ![r.from] =
                            [Idle EXCEPT !.pc = "run", !.job = j,
                                         !.max = row.max, !.count = row.count]]
                      /\ work' = [work EXCEPT ![j].begun = @ + 1]
                      /\ UNCHANGED orphaned
                 ELSE /\ orphaned' = orphaned \cup {j}
                      /\ UNCHANGED <<poller, work>>
         \/ /\ \A j \in Job : ~Poppable(job[j])
            /\ poller' = answered(r, "next")
            /\ UNCHANGED <<job, work, orphaned>>
    /\ reqs' = Tail(reqs)
    /\ UNCHANGED <<running, faults, unreported>>

\* finish_success; "Already terminated" makes pop_once call finish_fail
finish_success ==
    /\ Serve("success")
    /\ LET r == Head(reqs) IN
         \/ /\ Unfinished(job[r.job])
            /\ job' = [job EXCEPT ![r.job] = finish_entry(@, "success")]
            /\ poller' = answered(r, "again")
            /\ reqs' = Tail(reqs)
         \/ /\ ~Unfinished(job[r.job])
            /\ poller' = IF r.live THEN [poller EXCEPT ![r.from].pc = "fail"] ELSE poller
            /\ reqs' = IF r.live THEN Append(Tail(reqs), report("fail", r.from, r.job))
                                 ELSE Tail(reqs)
            /\ UNCHANGED job
    /\ UNCHANGED <<running, faults, history>>

finish_fail_Skip ==
    /\ Serve("fail")
    /\ poller' = answered(Head(reqs), "next")
    /\ reqs' = Tail(reqs)
    /\ UNCHANGED <<job, running, faults, history>>

\* finish_fail; pop_once re-raises whether or not it succeeds
finish_fail ==
    /\ Serve("fail")
    /\ LET r == Head(reqs) IN
         /\ job' = IF Unfinished(job[r.job])
                   THEN [job EXCEPT ![r.job] = failed(@)] ELSE job
         /\ poller' = answered(r, "next")
    /\ reqs' = Tail(reqs)
    /\ UNCHANGED <<running, faults, history>>

\* cancel, from an AMQP client; a finished job makes it raise
request_cancel(j) ==
    /\ job[j].state # "none"
    /\ \A i \in 1 .. Len(reqs) : reqs[i].op # "cancel"   \* bound: one at a time
    /\ reqs' = Append(reqs, [op |-> "cancel", from |-> Client, live |-> FALSE, job |-> j])
    /\ UNCHANGED <<job, poller, running, faults, history>>

cancel ==
    /\ Serve("cancel")
    /\ LET j == Head(reqs).job IN
         job' = IF Unfinished(job[j])
                THEN [job EXCEPT ![j] = finish_entry(@, "cancel")] ELSE job
    /\ reqs' = Tail(reqs)
    /\ UNCHANGED <<poller, running, faults, history>>

(***************************************************************************)
(* Faults                                                                  *)
(***************************************************************************)
Waiting(p) == poller[p].pc \in {"pop", "success", "fail"}
Queued(p) == \E i \in 1 .. Len(reqs) : reqs[i].from = p /\ reqs[i].live

abandon(P) == [i \in 1 .. Len(reqs) |->
                 IF reqs[i].from \in P THEN [reqs[i] EXCEPT !.live = FALSE]
                 ELSE reqs[i]]

\* The RPC call of p raises.  pop_job counts an attempt and backs off or gives
\* up; a failed finish_success is followed by finish_fail; a failed finish_fail
\* leaves pop_once.  The request itself, if it is still queued, stays.
raised(p) ==
    \/ /\ poller[p].pc = "pop"
       /\ poller' = [poller EXCEPT ![p] =
             IF @.tries + 1 <= MaxAttempts
             THEN [At("backoff") EXCEPT !.tries = poller[p].tries + 1]
             ELSE At("next")]
       /\ reqs' = abandon({p})
    \/ /\ poller[p].pc = "success"
       /\ poller' = [poller EXCEPT ![p].pc = "fail"]
       /\ reqs' = Append(abandon({p}), report("fail", p, poller[p].job))
    \/ /\ poller[p].pc = "fail"
       /\ poller' = [poller EXCEPT ![p] = At("next")]
       /\ reqs' = abandon({p})

\* too slow: the answer may still be produced
timeout(p) ==
    /\ Waiting(p) /\ Queued(p)
    /\ faults < MaxFaults /\ faults' = faults + 1
    /\ raised(p)
    /\ UNCHANGED <<job, running, history>>

\* no answer will come: the request was lost
no_answer(p) ==
    /\ Waiting(p) /\ ~Queued(p)
    /\ raised(p)
    /\ UNCHANGED <<job, running, faults, history>>

\* the collector restarts after taking a request and before committing it
lose ==
    /\ Len(reqs) > 0
    /\ faults < MaxFaults /\ faults' = faults + 1
    /\ reqs' = Tail(reqs)
    /\ unreported' = IF Head(reqs).op \in Report
                     THEN unreported \cup {<<Head(reqs).job, Head(reqs).op>>}
                     ELSE unreported
    /\ UNCHANGED <<job, poller, running, work, orphaned>>

\* a worker node crashes and restarts; nothing of its pollers survives
crash(n) ==
    /\ faults < MaxFaults /\ faults' = faults + 1
    /\ LET P == {p \in Poller : NodeOf(p) = n} IN
         /\ poller' = [p \in Poller |-> IF p \in P THEN Idle ELSE poller[p]]
         /\ reqs' = abandon(P)
         /\ orphaned' = orphaned \cup
              {j \in Job : \E p \in P : /\ poller[p].job = j
                                        /\ poller[p].pc \in {"run", "success", "fail"}}
    /\ running' = [running EXCEPT ![n] = "yes"]
    /\ UNCHANGED <<job, work, unreported>>

Chains(p) == \/ poll(p) \/ retry_pop(p) \/ run_success(p) \/ run_failure(p)
             \/ schedule(p) \/ timer(p) \/ no_answer(p)
Proxy == pop \/ finish_success \/ finish_fail \/ cancel

Next ==
    \/ \E j \in Job, max \in RetryMaxes \cup {0} : submit(j, max)
    \/ \E j \in Job : request_cancel(j)
    \/ \E p \in Poller : Chains(p) \/ timeout(p)
    \/ \E n \in Node : stop(n) \/ cancel_timers(n) \/ crash(n)
    \/ Proxy
    \/ lose

Spec == Init /\ [][Next]_vars

(***************************************************************************)
(* Fairness.  The proxy's thread keeps serving; a poll chain is a thread   *)
(* of its own (EM reactor and pool) that keeps running, and a block ends:  *)
(* it returns or raises.  Faults, submissions, cancels and stop are never  *)
(* forced.                                                                 *)
(***************************************************************************)
Fairness ==
    /\ WF_vars(Proxy)
    /\ \A p \in Poller : WF_vars(Chains(p))
    /\ \A n \in Node : WF_vars(cancel_timers(n))
FairSpec == Spec /\ Fairness

(***************************************************************************)
(* Properties                                                              *)
(***************************************************************************)
\* The table, the queue of requests and the poll chains have their types.
TypeOK ==
    /\ job \in [Job -> Row]
    /\ reqs \in Seq(Request)
    /\ poller \in [Poller -> Chain]
    /\ running \in [Node -> {"yes", "stopping", "no"}]
    /\ faults \in 0 .. MaxFaults
    /\ work \in [Job -> Work]
    /\ orphaned \subseteq Job
    /\ unreported \subseteq Job \X Report

Holds(p, j) == poller[p].job = j /\ poller[p].pc \in {"run", "success", "fail"}

\* A job is executed by at most one poll chain of all nodes at a time, however
\* pops, retries, cancels, timeouts and crashes interleave (QueuedJob.pop).
OneWorkerPerJob ==
    \A j \in Job : \A p, q \in Poller : Holds(p, j) /\ Holds(q, j) => p = q

\* What QueuedJob#validate demands of the saved row: pending rows have no worker,
\* running rows have one, finished rows have a finish_status, and no other does.
RowsValid ==
    \A j \in Job :
      /\ job[j].state \in {"none", "pending"} => job[j].worker = NoNode
      /\ job[j].state = "running" => job[j].worker # NoNode
      /\ job[j].state = "finished" <=> job[j].status # "none"

\* A block is started at most retry_max times (once when retry_max is 0), and
\* retry_count never misses a start: pop counts before the block runs.
AttemptsBounded ==
    \A j \in Job :
      /\ work[j].begun <= job[j].count
      /\ job[j].count <= IF job[j].max > 0 THEN job[j].max ELSE 1

\* The worker's retry? (on the hash pop returned) and finish_fail's test (on the
\* row) agree: once the failure block has cleaned up, the job is never queued or
\* started again, and the failure block runs at most once.
FailureBlockIsLast ==
    \A j \in Job : work[j].failure > 0 =>
      /\ work[j].failure = 1
      /\ job[j].state # "pending"
      /\ \A p \in Poller : ~(poller[p].job = j /\ poller[p].pc = "run")

\* A job that ends in 'fail' was cleaned up: its failure block ran, unless the
\* block had in fact succeeded and the report of that was lost.
FailedWasCleanedUp ==
    \A j \in Job : job[j].status = "fail" =>
      work[j].failure = 1 \/ <<j, "success">> \in unreported

\* Work that was done is not done again unless its finish_success request was
\* lost on the way to the collector: a mere timeout, even followed by finish_fail,
\* does not put a finished job back into the queue.
DoneOnce ==
    \A j \in Job : work[j].done > 1 => <<j, "success">> \in unreported

\* A row left in state running has a chain that works on it or a queued report
\* that will end the attempt.  The only ways to lose it for good are the ones no
\* code recovers from: its worker crashed, nobody waited for the pop that took it,
\* or its finish_fail request was lost.
NoSilentOrphan ==
    \A j \in Job : job[j].state = "running" =>
      \/ \E p \in Poller : Holds(p, j)
      \/ \E i \in 1 .. Len(reqs) : reqs[i].job = j /\ reqs[i].op \in Report
      \/ j \in orphaned
      \/ <<j, "fail">> \in unreported

\* A finished row never changes again: neither a late report nor a cancel
\* overwrites the outcome ("Already terminated").
FinishedIsFinal ==
    [][\A j \in Job : job[j].state = "finished" => job'[j] = job[j]]_vars

\* Every submitted job comes to an end while its queue stays subscribed, however
\* often calls time out or pops and success reports are lost, unless it is lost
\* in one of the ways of NoSilentOrphan.
EveryJobFinishes ==
    \A j \in Job :
      job[j].state = "pending" ~>
        \/ job[j].state = "finished"
        \/ j \in orphaned
        \/ <<j, "fail">> \in unreported
        \/ \E n \in Node : running[n] # "yes"

\* Poller#stop drains: every chain ends, also one that was re-armed while the
\* timers were being cancelled.
StopDrains ==
    \A n \in Node :
      running[n] # "yes" ~>
        (running[n] = "yes" \/ \A p \in Poller : NodeOf(p) = n => poller[p].pc = "end")

(***************************************************************************)
(* The inductive invariant behind the safety properties: what a request    *)
(* queued at the proxy says about the chain that sent it and about the row *)
(***************************************************************************)
ReqIdx == 1 .. Len(reqs)
ReportOn(i, j) == reqs[i].op \in Report /\ reqs[i].job = j

\* A caller that still waits has exactly one request, for the job it works on.
LiveRequests ==
    /\ \A i \in ReqIdx : reqs[i].live =>
         poller[reqs[i].from].pc = reqs[i].op /\ poller[reqs[i].from].job = reqs[i].job
    /\ \A i, k \in ReqIdx :
         reqs[i].live /\ reqs[k].live /\ reqs[i].from = reqs[k].from => i = k

\* A row a chain works on is running, with the counters of the job hash, or it
\* was finished (cancelled) in the meantime.
HeldRows ==
    \A p \in Poller, j \in Job : Holds(p, j) =>
      \/ job[j].state = "finished"
      \/ /\ job[j].state = "running"
         /\ job[j].max = poller[p].max /\ job[j].count = poller[p].count

\* Reports about a job that is not finished: none before it runs; all of them
\* from the chain that holds it, if one does; a success before a fail.
Reports ==
    \A j \in Job : job[j].state # "finished" =>
      \A i \in ReqIdx : ReportOn(i, j) =>
        /\ job[j].state = "running"
        /\ \A p \in Poller : Holds(p, j) =>
             /\ reqs[i].from = p
             /\ poller[p].pc # "run"
             /\ reqs[i].op = "fail" => reqs[i].live
        /\ \A k \in ReqIdx : ReportOn(k, j) /\ i < k =>
             reqs[i].op = "success" /\ reqs[k].op = "fail"

\* The counters of a row: pending rows have an attempt left.
RetryCounters ==
    \A j \in Job :
      /\ job[j].started <=> job[j].count > 0
      /\ job[j].state = "pending" => job[j].count = 0 \/ job[j].count < job[j].max
      /\ job[j].state = "none" => job[j].count = 0

\* Once the failure block has run the row has no attempt left.
CleanedUp ==
    \A j \in Job : work[j].failure > 0 =>
      /\ job[j].state \in {"running", "finished"}
      /\ job[j].state = "running" => ~RetryLeft(job[j])

QueueInv == /\ TypeOK /\ LiveRequests /\ OneWorkerPerJob /\ HeldRows /\ Reports
            /\ RowsValid /\ RetryCounters /\ AttemptsBounded
            /\ CleanedUp /\ FailureBlockIsLast

(***************************************************************************)
(* The abstract specification, and what of the rows and the history it     *)
(* sees.                                                                   *)
(***************************************************************************)
SeenPhase == [j \in Job |-> job[j].state]
SeenOutcome == [j \in Job |-> job[j].status]
SeenTries == [j \in Job |-> job[j].count]
SeenLimit == [j \in Job |-> job[j].max]
SeenDone == {j \in Job : work[j].done > 0}

Promise == INSTANCE JobPromise WITH
             Limit <- RetryMaxes \cup {0}, DefaultLimit <- DefaultRetryMax,
             phase <- SeenPhase, outcome <- SeenOutcome, tries <- SeenTries,
             limit <- SeenLimit, done <- SeenDone

\* The queue keeps JobPromise: whatever is lost, late, repeated or restarted,
\* a row changes only as the abstract specification allows.
Promised == Promise!Spec
=============================================================================
