--------------------------- MODULE JobQueueProofs ---------------------------
(* Proofs about the job queue, for any number of jobs, nodes, chains and    *)
(* faults: first types, the saved rows, the retry bound and the finality of *)
(* finished rows; then what becomes of a job; then that the queue           *)
(* implements JobPromise.                                                   *)
EXTENDS JobQueue, TLAPS

(***************************************************************************)
(* Types of what the operations build                                      *)
(***************************************************************************)
LEMMA ChainTypes ==
  /\ \A pc \in {"poll", "pop", "next", "again"} : At(pc) \in Chain
  /\ \A t \in Nat : [At("backoff") EXCEPT !.tries = t] \in Chain
  /\ \A c \in Chain : c.pc \in {"run", "success", "fail"} =>
       /\ c.job \in Job /\ c.max \in Nat /\ c.count \in Nat
       /\ [c EXCEPT !.pc = "success"] \in Chain
       /\ [c EXCEPT !.pc = "fail"] \in Chain
  /\ \A c \in Chain : c.pc \in {"poll", "pop", "backoff", "again", "next", "arm", "wait", "end"} =>
       /\ c.tries \in Nat
       /\ \A pc \in {"poll", "pop", "arm", "wait", "end"} : [c EXCEPT !.pc = pc] \in Chain
<1>1. \A pc \in {"poll", "pop", "next", "again"} : At(pc) \in Chain
  BY DEF At, Idle, Chain
<1>2. \A t \in Nat : [At("backoff") EXCEPT !.tries = t] \in Chain
  BY DEF At, Idle, Chain
<1>3. ASSUME NEW c \in Chain, c.pc \in {"run", "success", "fail"}
      PROVE  /\ c.job \in Job /\ c.max \in Nat /\ c.count \in Nat
             /\ [c EXCEPT !.pc = "success"] \in Chain
             /\ [c EXCEPT !.pc = "fail"] \in Chain
  BY <1>3 DEF Chain
<1>4. ASSUME NEW c \in Chain,
             c.pc \in {"poll", "pop", "backoff", "again", "next", "arm", "wait", "end"}
      PROVE  /\ c.tries \in Nat
             /\ \A pc \in {"poll", "pop", "arm", "wait", "end"} : [c EXCEPT !.pc = pc] \in Chain
  BY <1>4 DEF Chain
<1> QED
  BY <1>1, <1>2, <1>3, <1>4

LEMMA HeadTail ==
  ASSUME reqs \in Seq(Request), Len(reqs) > 0
  PROVE  Head(reqs) \in Request /\ Tail(reqs) \in Seq(Request)
  OBVIOUS

LEMMA AbandonType ==
  ASSUME reqs \in Seq(Request), NEW P
  PROVE  abandon(P) \in Seq(Request) /\ Len(abandon(P)) = Len(reqs)
<1> DEFINE n == Len(reqs)
<1>1. n \in Nat /\ \A i \in 1 .. n : reqs[i] \in Request
  OBVIOUS
<1>2. \A r \in Request : [r EXCEPT !.live = FALSE] \in Request
  BY DEF Request
<1>3. \A i \in 1 .. n : (IF reqs[i].from \in P THEN [reqs[i] EXCEPT !.live = FALSE]
                         ELSE reqs[i]) \in Request
  BY <1>1, <1>2
<1> QED
  BY <1>1, <1>3 DEF abandon

LEMMA AppendType ==
  ASSUME NEW s \in Seq(Request), NEW r \in Request
  PROVE  Append(s, r) \in Seq(Request)
  OBVIOUS

LEMMA ReportType ==
  ASSUME NEW op \in Report, NEW p \in Poller, NEW j \in Job
  PROVE  report(op, p, j) \in Request
  BY DEF report, Request

LEMMA PopType ==
  ASSUME NEW p \in Poller
  PROVE  report("pop", p, 0) \in Request
  BY DEF report, Request

LEMMA RowTypes ==
  ASSUME NEW row \in Row
  PROVE  /\ finish_entry(row, "success") \in Row
         /\ finish_entry(row, "cancel") \in Row
         /\ failed(row) \in Row
         /\ \A n \in Node : popped(row, n) \in Row
<1>1. finish_entry(row, "success") \in Row /\ finish_entry(row, "cancel") \in Row
  BY DEF Row, finish_entry
<1>2. failed(row) \in Row
  BY DEF Row, finish_entry, failed, pushed_back
<1>3. first_max(row) \in Nat
  BY JobQueueConstants DEF JobQueueConstants, Row, first_max
<1>4. ASSUME NEW n \in Node PROVE popped(row, n) \in Row
  BY <1>3 DEF Row, popped
<1> QED
  BY <1>1, <1>2, <1>4

LEMMA RequestFields ==
  ASSUME NEW r \in Request
  PROVE  /\ r.op \in {"pop", "success", "fail"} => r.from \in Poller
         /\ r.op \in {"success", "fail", "cancel"} => r.job \in Job
         /\ r.live \in BOOLEAN
         /\ r.live => r.from \in Poller /\ r.op # "cancel"
         /\ r.op \in {"pop", "success", "fail", "cancel"}
  BY DEF Request, Report

LEMMA WorkTypes ==
  ASSUME NEW w \in [Job -> Work], NEW j \in Job
  PROVE  /\ [w EXCEPT ![j].begun = @ + 1] \in [Job -> Work]
         /\ [w EXCEPT ![j].done = @ + 1] \in [Job -> Work]
         /\ [w EXCEPT ![j].failure = @ + 1] \in [Job -> Work]
<1>1. [w[j] EXCEPT !.begun = @ + 1] \in Work
  BY DEF Work
<1>2. [w[j] EXCEPT !.done = @ + 1] \in Work
  BY DEF Work
<1>3. [w[j] EXCEPT !.failure = @ + 1] \in Work
  BY DEF Work
<1> QED
  BY <1>1, <1>2, <1>3

LEMMA NodeOfPoller == \A p \in Poller : NodeOf(p) \in Node
  BY DEF Poller, NodeOf

(***************************************************************************)
(* Type correctness                                                        *)
(***************************************************************************)
\* Every step of the job queue keeps the types of TypeOK.
LEMMA TypeStep == TypeOK /\ LiveRequests /\ [Next]_vars => TypeOK'
<1> SUFFICES ASSUME TypeOK, LiveRequests, [Next]_vars PROVE TypeOK'
  OBVIOUS
<1> USE DEF TypeOK
<1>1. ASSUME NEW j \in Job, NEW max \in RetryMaxes \cup {0}, submit(j, max) PROVE TypeOK'
  <2>1. max \in Nat
    BY JobQueueConstants DEF JobQueueConstants
  <2>2. created(max) \in Row
    BY <2>1 DEF created, Row
  <2> QED
    BY <1>1, <2>2 DEF submit, history
<1>2. ASSUME NEW j \in Job, request_cancel(j) PROVE TypeOK'
  <2>1. [op |-> "cancel", from |-> Client, live |-> FALSE, job |-> j] \in Request
    BY DEF Request
  <2> QED
    BY <1>2, <2>1 DEF request_cancel, history
<1>3. ASSUME NEW p \in Poller, poll(p) PROVE TypeOK'
  <2>1. reqs' \in Seq(Request)
    BY <1>3, PopType, AppendType DEF poll, send
  <2>2. poller' \in [Poller -> Chain]
    BY <1>3, ChainTypes DEF poll
  <2> QED
    BY <1>3, <2>1, <2>2 DEF poll, history
<1>4. ASSUME NEW p \in Poller, retry_pop(p) PROVE TypeOK'
  <2>1. reqs' \in Seq(Request)
    BY <1>4, PopType, AppendType DEF retry_pop, send
  <2>2. [poller[p] EXCEPT !.pc = "pop"] \in Chain /\ At("next") \in Chain
    BY <1>4, ChainTypes DEF retry_pop
  <2>3. poller' \in [Poller -> Chain]
    BY <1>4, <2>2 DEF retry_pop
  <2> QED
    BY <1>4, <2>1, <2>3 DEF retry_pop, history
<1>5. ASSUME NEW p \in Poller, run_success(p) PROVE TypeOK'
  <2>1. poller[p].job \in Job /\ [poller[p] EXCEPT !.pc = "success"] \in Chain
    BY <1>5, ChainTypes DEF run_success
  <2>2. report("success", p, poller[p].job) \in Request
    BY <2>1, ReportType DEF Report
  <2>3. work' \in [Job -> Work]
    BY <1>5, <2>1, WorkTypes DEF run_success
  <2>4. poller' \in [Poller -> Chain]
    BY <1>5, <2>1 DEF run_success
  <2> QED
    BY <1>5, <2>2, <2>3, <2>4 DEF run_success, send
<1>6. ASSUME NEW p \in Poller, run_failure(p) PROVE TypeOK'
  <2>1. poller[p].job \in Job /\ [poller[p] EXCEPT !.pc = "fail"] \in Chain
    BY <1>6, ChainTypes DEF run_failure
  <2>2. report("fail", p, poller[p].job) \in Request
    BY <2>1, ReportType DEF Report
  <2>3. work' \in [Job -> Work]
    BY <1>6, <2>1, WorkTypes DEF run_failure
  <2>4. poller' \in [Poller -> Chain]
    BY <1>6, <2>1 DEF run_failure
  <2> QED
    BY <1>6, <2>2, <2>3, <2>4 DEF run_failure, send
<1>7. ASSUME NEW p \in Poller, schedule(p) PROVE TypeOK'
  <2>1. \A pc \in {"poll", "arm", "end"} : [poller[p] EXCEPT !.pc = pc] \in Chain
    BY <1>7, ChainTypes DEF schedule
  <2>2. \E pc \in {"poll", "arm", "end"} : poller' = [poller EXCEPT ![p].pc = pc]
    BY <1>7 DEF schedule
  <2>3. poller' \in [Poller -> Chain]
    BY <2>1, <2>2
  <2> QED
    BY <1>7, <2>3 DEF schedule, history
<1>8. ASSUME NEW p \in Poller, timer(p) PROVE TypeOK'
  <2>1. \A pc \in {"poll", "wait"} : [poller[p] EXCEPT !.pc = pc] \in Chain
    BY <1>8, ChainTypes DEF timer
  <2>2. \E pc \in {"poll", "wait"} : poller' = [poller EXCEPT ![p].pc = pc]
    BY <1>8 DEF timer
  <2>3. poller' \in [Poller -> Chain]
    BY <2>1, <2>2
  <2> QED
    BY <1>8, <2>3 DEF timer, history
<1>9. ASSUME NEW p \in Poller, raised(p), UNCHANGED <<job, running, history>>,
             faults' \in 0 .. MaxFaults
      PROVE TypeOK'
  <2>1. abandon({p}) \in Seq(Request)
    BY AbandonType
  <2>2. CASE poller[p].pc = "pop"
    <3>1. poller[p].tries + 1 \in Nat
      <4>1. poller[p] \in Chain
        OBVIOUS
      <4>2. poller[p].tries \in Nat
        BY <4>1, <2>2, ChainTypes
      <4> QED
        BY <4>2
    <3>2. [At("backoff") EXCEPT !.tries = poller[p].tries + 1] \in Chain /\ At("next") \in Chain
      BY <3>1, ChainTypes
    <3>3. poller' \in [Poller -> Chain]
      BY <1>9, <2>2, <3>2 DEF raised
    <3> QED
      BY <1>9, <2>1, <2>2, <3>3 DEF raised, history
  <2>3. CASE poller[p].pc = "success"
    <3>1. poller[p].job \in Job /\ [poller[p] EXCEPT !.pc = "fail"] \in Chain
      BY <2>3, ChainTypes
    <3>2. report("fail", p, poller[p].job) \in Request
      BY <3>1, ReportType DEF Report
    <3>3. poller' \in [Poller -> Chain]
      BY <1>9, <2>3, <3>1 DEF raised
    <3>4. reqs' \in Seq(Request)
      BY <1>9, <2>1, <2>3, <3>2, AppendType DEF raised
    <3> QED
      BY <1>9, <3>3, <3>4 DEF history
  <2>4. CASE poller[p].pc = "fail"
    BY <1>9, <2>1, <2>4, ChainTypes DEF raised, history
  <2> QED
    BY <1>9, <2>2, <2>3, <2>4 DEF raised
<1>10. ASSUME NEW p \in Poller, timeout(p) \/ no_answer(p) PROVE TypeOK'
  <2>1. faults' \in 0 .. MaxFaults
    BY <1>10, JobQueueConstants DEF timeout, no_answer, JobQueueConstants
  <2> QED
    BY <1>9, <1>10, <2>1 DEF timeout, no_answer
<1>11. ASSUME NEW n \in Node, stop(n) PROVE TypeOK'
  BY <1>11 DEF stop, history
<1>12. ASSUME NEW n \in Node, cancel_timers(n) PROVE TypeOK'
  BY <1>12, ChainTypes DEF cancel_timers, history
<1>13. ASSUME NEW n \in Node, crash(n) PROVE TypeOK'
  <2>1. reqs' \in Seq(Request)
    BY <1>13, AbandonType DEF crash
  <2>2. Idle \in Chain
    BY DEF Idle, Chain
  <2>3. faults' \in 0 .. MaxFaults
    BY <1>13, JobQueueConstants DEF crash, JobQueueConstants
  <2> QED
    BY <1>13, <2>1, <2>2, <2>3 DEF crash
<1>14. ASSUME pop PROVE TypeOK'
  <2> DEFINE r == Head(reqs)
  <2>1. r \in Request /\ r.op = "pop" /\ Tail(reqs) \in Seq(Request)
    BY <1>14, HeadTail DEF pop, Serve
  <2>2. r.from \in Poller /\ NodeOf(r.from) \in Node
    BY <2>1, RequestFields, NodeOfPoller
  <2>3. reqs' = Tail(reqs) /\ UNCHANGED <<running, faults, unreported>>
    BY <1>14 DEF pop
  <2>4. ASSUME NEW j \in Job, job' = [job EXCEPT ![j] = popped(job[j], NodeOf(r.from))]
        PROVE  /\ job' \in [Job -> Row]
               /\ [Idle EXCEPT !.pc = "run", !.job = j,
                               !.max = popped(job[j], NodeOf(r.from)).max,
                               !.count = popped(job[j], NodeOf(r.from)).count] \in Chain
    <3>1. popped(job[j], NodeOf(r.from)) \in Row
      BY <2>2, RowTypes
    <3> QED
      BY <2>4, <3>1 DEF Idle, Chain, Row
  <2>5. CASE \E j \in Job :
               /\ job' = [job EXCEPT ![j] = popped(job[j], NodeOf(r.from))]
               /\ \/ /\ poller' = [poller EXCEPT ![r.from] =
                            [Idle EXCEPT !.pc = "run", !.job = j,
                               !.max = popped(job[j], NodeOf(r.from)).max,
                               !.count = popped(job[j], NodeOf(r.from)).count]]
                     /\ work' = [work EXCEPT ![j].begun = @ + 1]
                     /\ UNCHANGED orphaned
                  \/ /\ orphaned' = orphaned \cup {j}
                     /\ UNCHANGED <<poller, work>>
    <3>1. PICK j \in Job :
               /\ job' = [job EXCEPT ![j] = popped(job[j], NodeOf(r.from))]
               /\ \/ /\ poller' = [poller EXCEPT ![r.from] =
                            [Idle EXCEPT !.pc = "run", !.job = j,
                               !.max = popped(job[j], NodeOf(r.from)).max,
                               !.count = popped(job[j], NodeOf(r.from)).count]]
                     /\ work' = [work EXCEPT ![j].begun = @ + 1]
                     /\ UNCHANGED orphaned
                  \/ /\ orphaned' = orphaned \cup {j}
                     /\ UNCHANGED <<poller, work>>
      BY <2>5
    <3>2. job' \in [Job -> Row]
      BY <2>4, <3>1
    <3>3. poller' \in [Poller -> Chain]
      BY <2>2, <2>4, <3>1
    <3>4. [work EXCEPT ![j].begun = @ + 1] \in [Job -> Work]
      BY WorkTypes
    <3>5. work' \in [Job -> Work] /\ orphaned' \subseteq Job
      BY <3>1, <3>4
    <3> QED
      BY <2>1, <2>3, <3>2, <3>3, <3>5
  <2>6. CASE poller' = answered(r, "next") /\ UNCHANGED <<job, work, orphaned>>
    BY <2>1, <2>2, <2>3, <2>6, ChainTypes DEF answered
  <2> QED
    BY <1>14, <2>5, <2>6 DEF pop
<1>15. ASSUME finish_success PROVE TypeOK'
  <2> DEFINE r == Head(reqs)
  <2>1. r \in Request /\ r.op = "success" /\ Tail(reqs) \in Seq(Request)
    BY <1>15, HeadTail DEF finish_success, Serve
  <2>2. r.from \in Poller /\ r.job \in Job
    BY <2>1, RequestFields
  <2>3. report("fail", r.from, r.job) \in Request
    BY <2>2, ReportType DEF Report
  <2>4. finish_entry(job[r.job], "success") \in Row
    BY <2>2, RowTypes
  <2>5. UNCHANGED <<running, faults, history>>
    BY <1>15 DEF finish_success
  <2>6. job' \in [Job -> Row] /\ reqs' \in Seq(Request)
    <3>1. job' = [job EXCEPT ![r.job] = finish_entry(job[r.job], "success")] \/ job' = job
      BY <1>15 DEF finish_success
    <3>2. \/ reqs' = Tail(reqs)
          \/ reqs' = Append(Tail(reqs), report("fail", r.from, r.job))
      BY <1>15 DEF finish_success
    <3> QED
      BY <2>1, <2>2, <2>3, <2>4, <3>1, <3>2, AppendType
  <2>7. CASE poller' = answered(r, "again")
    BY <2>2, <2>5, <2>6, <2>7, ChainTypes DEF answered, history
  <2>8. CASE poller' = IF r.live THEN [poller EXCEPT ![r.from].pc = "fail"] ELSE poller
    <3>1. r.live => [poller[r.from] EXCEPT !.pc = "fail"] \in Chain
      <4>1. 1 \in ReqIdx /\ r = reqs[1]
        BY <1>15 DEF finish_success, Serve, ReqIdx
      <4>2. r.live => poller[r.from].pc = "success"
        BY <2>1, <4>1 DEF LiveRequests
      <4> QED
        BY <2>2, <4>2, ChainTypes
    <3>2. poller' \in [Poller -> Chain]
      BY <2>2, <2>8, <3>1
    <3> QED
      BY <2>5, <2>6, <3>2 DEF history
  <2> QED
    BY <1>15, <2>7, <2>8 DEF finish_success
<1>16. ASSUME finish_fail PROVE TypeOK'
  <2> DEFINE r == Head(reqs)
  <2>1. r \in Request /\ r.op = "fail" /\ Tail(reqs) \in Seq(Request)
    BY <1>16, HeadTail DEF finish_fail, Serve
  <2>2. r.from \in Poller /\ r.job \in Job
    BY <2>1, RequestFields
  <2>3. failed(job[r.job]) \in Row
    BY <2>2, RowTypes
  <2> QED
    BY <1>16, <2>1, <2>2, <2>3, ChainTypes DEF finish_fail, answered, history
<1>17. ASSUME cancel PROVE TypeOK'
  <2> DEFINE r == Head(reqs)
  <2>1. r \in Request /\ r.op = "cancel" /\ Tail(reqs) \in Seq(Request)
    BY <1>17, HeadTail DEF cancel, Serve
  <2>2. r.job \in Job
    BY <2>1, RequestFields
  <2>3. finish_entry(job[r.job], "cancel") \in Row
    BY <2>2, RowTypes
  <2> QED
    BY <1>17, <2>1, <2>2, <2>3 DEF cancel, history
<1>18. ASSUME lose PROVE TypeOK'
  <2> DEFINE r == Head(reqs)
  <2>1. r \in Request /\ Tail(reqs) \in Seq(Request)
    BY <1>18, HeadTail DEF lose
  <2>2. r.op \in Report => r.job \in Job
    BY <2>1, RequestFields DEF Report
  <2>3. faults' \in 0 .. MaxFaults
    BY <1>18, JobQueueConstants DEF lose, JobQueueConstants
  <2>4. unreported' \subseteq Job \X Report
    BY <1>18, <2>2 DEF lose
  <2> QED
    BY <1>18, <2>1, <2>3, <2>4 DEF lose
<1>19. CASE UNCHANGED vars
  BY <1>19 DEF vars
<1> QED
  BY <1>1, <1>2, <1>3, <1>4, <1>5, <1>6, <1>7, <1>8, <1>10, <1>11, <1>12, <1>13,
     <1>14, <1>15, <1>16, <1>17, <1>18, <1>19
  DEF Next, Chains, Proxy

(***************************************************************************)
(* The requests of a queue after each kind of change                       *)
(***************************************************************************)
LEMMA TailAt ==
  ASSUME reqs \in Seq(Request), Len(reqs) > 0, reqs' = Tail(reqs)
  PROVE  /\ Len(reqs') \in Nat /\ Len(reqs) \in Nat /\ Len(reqs) = Len(reqs') + 1
         /\ \A i \in 1 .. Len(reqs') : i + 1 \in 1 .. Len(reqs) /\ reqs'[i] = reqs[i + 1]
         /\ 1 \in 1 .. Len(reqs) /\ Head(reqs) = reqs[1]
  OBVIOUS

LEMMA AppendAt ==
  ASSUME NEW s \in Seq(Request), NEW r
  PROVE  /\ Len(s) \in Nat /\ Len(Append(s, r)) = Len(s) + 1
         /\ \A i \in 1 .. Len(s) : Append(s, r)[i] = s[i]
         /\ Append(s, r)[Len(s) + 1] = r
  OBVIOUS

LEMMA AbandonAt ==
  ASSUME reqs \in Seq(Request), NEW P
  PROVE  /\ Len(abandon(P)) = Len(reqs) /\ Len(reqs) \in Nat
         /\ \A i \in 1 .. Len(reqs) :
              /\ abandon(P)[i].op = reqs[i].op
              /\ abandon(P)[i].from = reqs[i].from
              /\ abandon(P)[i].job = reqs[i].job
              /\ abandon(P)[i].live <=> reqs[i].live /\ reqs[i].from \notin P
<1>1. Len(abandon(P)) = Len(reqs) /\ Len(reqs) \in Nat
  BY AbandonType
<1>2. ASSUME NEW i \in 1 .. Len(reqs)
      PROVE  /\ abandon(P)[i].op = reqs[i].op
             /\ abandon(P)[i].from = reqs[i].from
             /\ abandon(P)[i].job = reqs[i].job
             /\ abandon(P)[i].live <=> reqs[i].live /\ reqs[i].from \notin P
  <2>1. reqs[i] \in Request
    OBVIOUS
  <2>2. abandon(P)[i] = IF reqs[i].from \in P THEN [reqs[i] EXCEPT !.live = FALSE]
                        ELSE reqs[i]
    BY DEF abandon
  <2> QED
    BY <2>1, <2>2 DEF Request
<1> QED
  BY <1>1, <1>2

(***************************************************************************)
(* Live requests: who waits for which answer                               *)
(***************************************************************************)
Calling == {"pop", "success", "fail"}

LEMMA LiveMeansCalling ==
  ASSUME TypeOK, LiveRequests, NEW i \in ReqIdx, reqs[i].live
  PROVE  reqs[i].from \in Poller /\ poller[reqs[i].from].pc \in Calling
<1>1. reqs[i] \in Request
  BY DEF TypeOK, ReqIdx
<1>2. reqs[i].from \in Poller
  BY <1>1, RequestFields
<1>3. reqs[i].op \in Calling
  BY <1>1, RequestFields DEF Calling
<1> QED
  BY <1>2, <1>3 DEF LiveRequests, Calling

LEMMA LiveKept ==
  ASSUME TypeOK, LiveRequests, reqs' = reqs,
         \A p \in Poller : poller[p].pc \in Calling => poller'[p] = poller[p]
  PROVE  LiveRequests'
  BY LiveMeansCalling DEF LiveRequests, ReqIdx

\* LiveRequests for a queue s and chains c
LiveIn(s, c) ==
    /\ \A i \in 1 .. Len(s) : s[i].live =>
         c[s[i].from].pc = s[i].op /\ c[s[i].from].job = s[i].job
    /\ \A i, k \in 1 .. Len(s) : s[i].live /\ s[k].live /\ s[i].from = s[k].from => i = k

LEMMA LiveSend ==
  ASSUME NEW s \in Seq(Request), NEW c, NEW d, LiveIn(s, c),
         NEW r,
         \A i \in 1 .. Len(s) : s[i].live => s[i].from # r.from,
         d[r.from].pc = r.op, d[r.from].job = r.job,
         \A q \in Poller : q # r.from => d[q] = c[q]
  PROVE  LiveIn(Append(s, r), d)
<1> DEFINE n == Len(s)
           t == Append(s, r)
<1>1. /\ n \in Nat /\ Len(t) = n + 1
      /\ \A i \in 1 .. n : t[i] = s[i]
      /\ t[n + 1] = r
  BY AppendAt
<1>2. \A i \in 1 .. n : s[i].live => s[i].from \in Poller /\ s[i].from # r.from
  <2>1. \A i \in 1 .. n : s[i] \in Request
    OBVIOUS
  <2> QED
    BY <2>1, RequestFields
<1> HIDE DEF n, t
<1>4. ASSUME NEW i \in 1 .. n + 1, t[i].live
      PROVE  d[t[i].from].pc = t[i].op /\ d[t[i].from].job = t[i].job
  <2>1. CASE i \in 1 .. n
    BY <1>1, <1>2, <1>4, <2>1 DEF LiveIn, n
  <2>2. CASE i = n + 1
    BY <1>1, <2>2
  <2> QED
    BY <1>1, <2>1, <2>2
<1>5. ASSUME NEW i \in 1 .. n + 1, NEW k \in 1 .. n + 1,
             t[i].live, t[k].live, t[i].from = t[k].from
      PROVE  i = k
  <2>1. CASE i \in 1 .. n /\ k \in 1 .. n
    BY <1>1, <1>5, <2>1 DEF LiveIn, n
  <2>2. CASE i \in 1 .. n /\ k = n + 1
    BY <1>1, <1>2, <1>5, <2>2
  <2>3. CASE i = n + 1 /\ k \in 1 .. n
    BY <1>1, <1>2, <1>5, <2>3
  <2> QED
    BY <1>1, <2>1, <2>2, <2>3
<1> QED
  BY <1>1, <1>4, <1>5 DEF LiveIn, t

LEMMA LiveServed ==
  ASSUME TypeOK, LiveRequests, Len(reqs) > 0, NEW c,
         \A q \in Poller : \/ c[q] = poller[q]
                           \/ Head(reqs).live /\ q = Head(reqs).from
  PROVE  /\ Tail(reqs) \in Seq(Request)
         /\ LiveIn(Tail(reqs), c)
         /\ Head(reqs).live => \A i \in 1 .. Len(Tail(reqs)) :
              Tail(reqs)[i].live => Tail(reqs)[i].from # Head(reqs).from
<1> DEFINE t == Tail(reqs)
<1>1. /\ t \in Seq(Request) /\ Len(t) \in Nat /\ Len(reqs) = Len(t) + 1
      /\ \A i \in 1 .. Len(t) : i + 1 \in 1 .. Len(reqs) /\ t[i] = reqs[i + 1]
      /\ 1 \in 1 .. Len(reqs) /\ Head(reqs) = reqs[1]
  BY DEF TypeOK
<1> HIDE DEF t
<1>2. ASSUME NEW i \in 1 .. Len(t), t[i].live
      PROVE  /\ c[t[i].from].pc = t[i].op /\ c[t[i].from].job = t[i].job
             /\ ~(Head(reqs).live /\ t[i].from = Head(reqs).from)
  <2>1. i + 1 \in ReqIdx /\ reqs[i + 1].live /\ t[i] = reqs[i + 1] /\ 1 \in ReqIdx /\ i + 1 # 1
    BY <1>1, <1>2 DEF ReqIdx
  <2>2. reqs[i + 1].from \in Poller
    BY <2>1, LiveMeansCalling
  <2>3. ~(reqs[1].live /\ reqs[i + 1].from = reqs[1].from)
    BY <2>1 DEF LiveRequests
  <2>4. c[reqs[i + 1].from] = poller[reqs[i + 1].from]
    BY <1>1, <2>2, <2>3
  <2> QED
    BY <1>1, <2>1, <2>3, <2>4 DEF LiveRequests
<1>3. ASSUME NEW i \in 1 .. Len(t), NEW k \in 1 .. Len(t),
             t[i].live, t[k].live, t[i].from = t[k].from
      PROVE  i = k
  <2>1. i + 1 = k + 1
    BY <1>1, <1>3 DEF LiveRequests, ReqIdx
  <2> QED
    BY <2>1
<1> QED
  BY <1>1, <1>2, <1>3 DEF LiveIn, t

LEMMA LiveAbandoned ==
  ASSUME TypeOK, LiveRequests, NEW P, NEW c,
         \A q \in Poller \ P : c[q] = poller[q]
  PROVE  /\ abandon(P) \in Seq(Request)
         /\ LiveIn(abandon(P), c)
         /\ \A i \in 1 .. Len(abandon(P)) : abandon(P)[i].live => abandon(P)[i].from \notin P
<1> DEFINE t == abandon(P)
<1>1. /\ Len(t) = Len(reqs) /\ t \in Seq(Request)
      /\ \A i \in 1 .. Len(reqs) :
              /\ t[i].op = reqs[i].op
              /\ t[i].from = reqs[i].from
              /\ t[i].job = reqs[i].job
              /\ t[i].live <=> reqs[i].live /\ reqs[i].from \notin P
  BY AbandonAt, AbandonType DEF TypeOK
<1>2. \A i \in 1 .. Len(reqs) : reqs[i].live => reqs[i].from \in Poller
  BY LiveMeansCalling DEF ReqIdx
<1> HIDE DEF t
<1>3. LiveIn(t, c)
  BY <1>1, <1>2 DEF LiveRequests, ReqIdx, LiveIn
<1> QED
  BY <1>1, <1>3 DEF t

\* Every step keeps LiveRequests.
LEMMA LiveStep == TypeOK /\ LiveRequests /\ [Next]_vars => LiveRequests'
<1> SUFFICES ASSUME TypeOK, LiveRequests, [Next]_vars PROVE LiveRequests'
  OBVIOUS
<1>0. /\ LiveRequests' <=> LiveIn(reqs', poller')
      /\ LiveIn(reqs, poller)
      /\ reqs \in Seq(Request) /\ poller \in [Poller -> Chain]
  BY DEF LiveRequests, LiveIn, ReqIdx, TypeOK
<1>1. CASE UNCHANGED <<reqs, poller>>
  BY <1>1 DEF LiveRequests, ReqIdx
<1>2. ASSUME NEW j \in Job, request_cancel(j) PROVE LiveRequests'
  <2> DEFINE r == [op |-> "cancel", from |-> Client, live |-> FALSE, job |-> j]
  <2>1. reqs' = Append(reqs, r) /\ poller' = poller /\ ~r.live
    BY <1>2 DEF request_cancel
  <2> HIDE DEF r
  <2>2. /\ Len(reqs) \in Nat /\ Len(reqs') = Len(reqs) + 1
        /\ \A i \in 1 .. Len(reqs) : reqs'[i] = reqs[i]
        /\ reqs'[Len(reqs) + 1] = r
    BY <1>0, <2>1, AppendAt
  <2>3. \A i \in 1 .. Len(reqs') : reqs'[i].live => i \in 1 .. Len(reqs)
    BY <2>1, <2>2
  <2> QED
    BY <2>1, <2>2, <2>3 DEF LiveRequests, ReqIdx
<1>3. ASSUME NEW p \in Poller, NEW op, NEW j,
             poller[p].pc \notin Calling, reqs' = Append(reqs, report(op, p, j)),
             poller'[p].pc = op, poller'[p].job = j,
             \A q \in Poller : q # p => poller'[q] = poller[q]
      PROVE LiveRequests'
  <2>1. \A i \in 1 .. Len(reqs) : reqs[i].live => reqs[i].from # p
    BY <1>3, LiveMeansCalling DEF ReqIdx
  <2>2. LiveIn(Append(reqs, report(op, p, j)), poller')
    <3> DEFINE r == report(op, p, j)
    <3>1. r.from = p /\ r.op = op /\ r.job = j
      BY DEF report
    <3> HIDE DEF r
    <3>2. LiveIn(Append(reqs, r), poller')
      <4>1. reqs \in Seq(Request) /\ LiveIn(reqs, poller)
        BY <1>0
      <4>2. \A i \in 1 .. Len(reqs) : reqs[i].live => reqs[i].from # r.from
        BY <2>1, <3>1
      <4>3. poller'[r.from].pc = r.op /\ poller'[r.from].job = r.job
        BY <1>3, <3>1
      <4>4. \A q \in Poller : q # r.from => poller'[q] = poller[q]
        BY <1>3, <3>1
      <4> QED
        BY <4>1, <4>2, <4>3, <4>4, LiveSend
    <3> QED
      BY <3>2 DEF r
  <2> QED
    BY <1>0, <1>3, <2>2
<1>4. ASSUME NEW p \in Poller, poll(p) PROVE LiveRequests'
  <2>1. /\ poller[p].pc \notin Calling /\ reqs' = Append(reqs, report("pop", p, 0))
        /\ poller'[p] = At("pop") /\ \A q \in Poller : q # p => poller'[q] = poller[q]
    BY <1>0, <1>4 DEF poll, send, Calling
  <2>2. At("pop").pc = "pop" /\ At("pop").job = 0
    BY DEF At, Idle
  <2> QED
    BY <1>3, <2>1, <2>2
<1>5. ASSUME NEW p \in Poller, retry_pop(p) PROVE LiveRequests'
  <2>1. CASE running[NodeOf(p)] = "yes"
    <3>1. poller[p].job = 0 /\ poller[p].pc = "backoff" /\ poller[p].pc \notin Calling
      <4>1. poller[p] \in Chain /\ poller[p].pc = "backoff"
        BY <1>0, <1>5 DEF retry_pop
      <4> QED
        BY <4>1 DEF Chain, Calling
    <3>2. /\ reqs' = Append(reqs, report("pop", p, 0))
          /\ poller' = [poller EXCEPT ![p].pc = "pop"]
      BY <1>5, <2>1 DEF retry_pop, send
    <3>3. poller'[p].pc = "pop" /\ poller'[p].job = 0
      <4>1. poller[p] \in Chain
        BY <1>0
      <4> QED
        BY <1>0, <3>1, <3>2, <4>1 DEF Chain
    <3> QED
      BY <1>0, <1>3, <3>1, <3>2, <3>3
  <2>2. CASE running[NodeOf(p)] # "yes"
    BY <1>0, <1>5, <2>2, LiveKept DEF retry_pop, Calling
  <2> QED
    BY <2>1, <2>2
<1>6. ASSUME NEW p \in Poller, run_success(p) \/ run_failure(p) PROVE LiveRequests'
  <2>1. PICK op \in {"success", "fail"} :
          /\ reqs' = Append(reqs, report(op, p, poller[p].job))
          /\ poller' = [poller EXCEPT ![p].pc = op]
    BY <1>6 DEF run_success, run_failure, send
  <2>2. poller[p] \in Chain /\ poller[p].pc = "run"
    BY <1>0, <1>6 DEF run_success, run_failure
  <2>3. poller'[p].pc = op /\ poller'[p].job = poller[p].job
    BY <1>0, <2>1, <2>2 DEF Chain
  <2> QED
    BY <1>0, <1>3, <2>1, <2>2, <2>3 DEF Calling
<1>7. ASSUME NEW p \in Poller, schedule(p) \/ timer(p) PROVE LiveRequests'
  BY <1>0, <1>7, LiveKept DEF schedule, timer, Calling
<1>8. ASSUME NEW p \in Poller, raised(p) PROVE LiveRequests'
  <2>1. CASE reqs' = abandon({p})
    <3>1. \A q \in Poller \ {p} : poller'[q] = poller[q]
      BY <1>0, <1>8 DEF raised
    <3> QED
      BY <1>0, <2>1, <3>1, LiveAbandoned
  <2>2. CASE /\ poller[p].pc = "success"
             /\ poller' = [poller EXCEPT ![p].pc = "fail"]
             /\ reqs' = Append(abandon({p}), report("fail", p, poller[p].job))
    <3>1. /\ abandon({p}) \in Seq(Request) /\ LiveIn(abandon({p}), poller)
          /\ \A i \in 1 .. Len(abandon({p})) :
               abandon({p})[i].live => abandon({p})[i].from # p
      BY LiveAbandoned
    <3>2. poller'[p].pc = "fail" /\ poller'[p].job = poller[p].job
      <4>1. poller[p] \in Chain
        BY <1>0
      <4> QED
        BY <1>0, <2>2, <4>1 DEF Chain
    <3>3. \A q \in Poller : q # p => poller'[q] = poller[q]
      BY <1>0, <2>2
    <3>4. LiveIn(Append(abandon({p}), report("fail", p, poller[p].job)), poller')
      <4> DEFINE r == report("fail", p, poller[p].job)
      <4>1. r.from = p /\ r.op = "fail" /\ r.job = poller[p].job
        BY DEF report
      <4> HIDE DEF r
      <4>2. LiveIn(Append(abandon({p}), r), poller')
        <5> DEFINE t == abandon({p})
        <5>1. t \in Seq(Request) /\ LiveIn(t, poller)
          BY <3>1
        <5>2. \A i \in 1 .. Len(t) : t[i].live => t[i].from # r.from
          BY <3>1, <4>1
        <5>3. poller'[r.from].pc = r.op /\ poller'[r.from].job = r.job
          BY <3>2, <4>1
        <5>4. \A q \in Poller : q # r.from => poller'[q] = poller[q]
          BY <3>3, <4>1
        <5> HIDE DEF t
        <5>5. LiveIn(Append(t, r), poller')
          BY <5>1, <5>2, <5>3, <5>4, LiveSend
        <5> QED
          BY <5>5 DEF t
      <4> QED
        BY <4>2 DEF r
    <3> QED
      BY <1>0, <2>2, <3>4
  <2> QED
    BY <1>8, <2>1, <2>2 DEF raised
<1>9. ASSUME NEW n \in Node, cancel_timers(n) PROVE LiveRequests'
  BY <1>0, <1>9, LiveKept DEF cancel_timers, Calling
<1>10. ASSUME NEW n \in Node, crash(n) PROVE LiveRequests'
  <2>1. PICK P : reqs' = abandon(P) /\ \A q \in Poller \ P : poller'[q] = poller[q]
    BY <1>0, <1>10 DEF crash
  <2> QED
    BY <1>0, <2>1, LiveAbandoned
<1>11. ASSUME Len(reqs) > 0, reqs' = Tail(reqs),
              \A q \in Poller : \/ poller'[q] = poller[q]
                                \/ Head(reqs).live /\ q = Head(reqs).from
       PROVE  LiveRequests'
  BY <1>0, <1>11, LiveServed
<1>12. ASSUME pop PROVE LiveRequests'
  <2>1. Len(reqs) > 0 /\ reqs' = Tail(reqs)
    BY <1>12 DEF pop, Serve
  <2>2. \A q \in Poller : poller'[q] = poller[q] \/ (Head(reqs).live /\ q = Head(reqs).from)
    BY <1>0, <1>12 DEF pop, answered
  <2> QED
    BY <1>11, <2>1, <2>2
<1>13. ASSUME finish_success PROVE LiveRequests'
  <2> DEFINE r == Head(reqs)
  <2>1. Len(reqs) > 0 /\ r.op = "success" /\ r \in Request
    BY <1>0, <1>13 DEF finish_success, Serve
  <2>2. CASE reqs' = Tail(reqs)
    <3>1. \A q \in Poller : poller'[q] = poller[q] \/ (r.live /\ q = r.from)
      BY <1>0, <1>13, <2>2 DEF finish_success, answered
    <3> QED
      BY <1>11, <2>1, <2>2, <3>1
  <2>3. CASE /\ r.live
             /\ poller' = [poller EXCEPT ![r.from].pc = "fail"]
             /\ reqs' = Append(Tail(reqs), report("fail", r.from, r.job))
    <3>1. r.from \in Poller
      BY <2>1, RequestFields
    <3>2. /\ Tail(reqs) \in Seq(Request) /\ LiveIn(Tail(reqs), poller)
          /\ \A i \in 1 .. Len(Tail(reqs)) : Tail(reqs)[i].live => Tail(reqs)[i].from # r.from
      BY <2>1, <2>3, LiveServed
    <3>3. poller[r.from].job = r.job
      BY <1>0, <2>1, <2>3 DEF LiveIn
    <3>4. poller'[r.from].pc = "fail" /\ poller'[r.from].job = r.job
      <4>1. poller[r.from] \in Chain
        BY <1>0, <3>1
      <4> QED
        BY <1>0, <2>3, <3>1, <3>3, <4>1 DEF Chain
    <3>5. \A q \in Poller : q # r.from => poller'[q] = poller[q]
      BY <1>0, <2>3
    <3>6. LiveIn(Append(Tail(reqs), report("fail", r.from, r.job)), poller')
      <4> DEFINE m == report("fail", r.from, r.job)
      <4>1. m.from = r.from /\ m.op = "fail" /\ m.job = r.job
        BY DEF report
      <4> HIDE DEF m
      <4>2. LiveIn(Append(Tail(reqs), m), poller')
        <5> DEFINE t == Tail(reqs)
        <5>1. t \in Seq(Request) /\ LiveIn(t, poller)
          BY <3>2
        <5>2. \A i \in 1 .. Len(t) : t[i].live => t[i].from # m.from
          BY <3>2, <4>1
        <5>3. poller'[m.from].pc = m.op /\ poller'[m.from].job = m.job
          BY <3>4, <4>1
        <5>4. \A q \in Poller : q # m.from => poller'[q] = poller[q]
          BY <3>5, <4>1
        <5> HIDE DEF t
        <5>5. LiveIn(Append(t, m), poller')
          BY <5>1, <5>2, <5>3, <5>4, LiveSend
        <5> QED
          BY <5>5 DEF t
      <4> QED
        BY <4>2 DEF m
    <3> QED
      BY <1>0, <2>3, <3>6
  <2> QED
    BY <1>13, <2>2, <2>3 DEF finish_success
<1>14. ASSUME finish_fail \/ cancel \/ lose PROVE LiveRequests'
  <2>1. Len(reqs) > 0 /\ reqs' = Tail(reqs)
    BY <1>14 DEF finish_fail, cancel, lose, Serve
  <2>2. \A q \in Poller : poller'[q] = poller[q] \/ (Head(reqs).live /\ q = Head(reqs).from)
    BY <1>0, <1>14 DEF finish_fail, cancel, lose, answered
  <2> QED
    BY <1>11, <2>1, <2>2
<1> QED
  BY <1>1, <1>2, <1>4, <1>5, <1>6, <1>7, <1>8, <1>9, <1>10, <1>12, <1>13, <1>14
  DEF Next, Chains, Proxy, submit, stop, timeout, no_answer, vars

LEMMA InitTypes == Init => TypeOK /\ LiveRequests
<1>1. NoRow \in Row /\ Idle \in Chain /\ NoWork \in Work
  BY DEF NoRow, Row, Idle, Chain, NoWork, Work
<1>2. 0 \in 0 .. MaxFaults
  BY JobQueueConstants DEF JobQueueConstants
<1> QED
  BY <1>1, <1>2 DEF Init, TypeOK, LiveRequests, ReqIdx

\* The state variables of the queue always have their types: in particular a chain
\* that runs or reports a job has one, and every queued report names a job.
THEOREM TypeCorrect == Spec => []TypeOK
<1>1. TypeOK /\ LiveRequests /\ [Next]_vars => (TypeOK /\ LiveRequests)'
  BY TypeStep, LiveStep
<1> QED
  BY <1>1, InitTypes, PTL DEF Spec

(***************************************************************************)
(* How one row can change in a step                                        *)
(***************************************************************************)
RowStep(j) ==
    \/ job'[j] = job[j]
    \/ job[j].state = "none" /\ \E max \in Nat : job'[j] = created(max)
    \/ Poppable(job[j]) /\ \E n \in Node : job'[j] = popped(job[j], n)
    \/ Unfinished(job[j]) /\ \E st \in {"success", "cancel"} : job'[j] = finish_entry(job[j], st)
    \/ Unfinished(job[j]) /\ job'[j] = failed(job[j])

LEMMA RowChange ==
  ASSUME TypeOK, [Next]_vars
  PROVE  \A j \in Job : RowStep(j)
<1>0. job \in [Job -> Row] /\ reqs \in Seq(Request)
  BY DEF TypeOK
<1>1. CASE UNCHANGED job
  BY <1>1 DEF RowStep
<1>2. ASSUME NEW k \in Job, NEW max \in RetryMaxes \cup {0}, submit(k, max)
      PROVE  \A j \in Job : RowStep(j)
  <2>1. max \in Nat
    BY JobQueueConstants DEF JobQueueConstants
  <2> QED
    BY <1>0, <1>2, <2>1 DEF submit, RowStep
<1>3. ASSUME pop PROVE \A j \in Job : RowStep(j)
  <2> DEFINE r == Head(reqs)
  <2>1. r \in Request /\ r.op = "pop"
    BY <1>0, <1>3, HeadTail DEF pop, Serve
  <2>2. NodeOf(r.from) \in Node
    BY <2>1, RequestFields, NodeOfPoller
  <2>3. \/ UNCHANGED job
        \/ \E k \in Job : Poppable(job[k]) /\ job' = [job EXCEPT ![k] = popped(job[k], NodeOf(r.from))]
    BY <1>3 DEF pop, NextJob
  <2> QED
    BY <1>0, <1>1, <2>2, <2>3 DEF RowStep
<1>4. ASSUME finish_success PROVE \A j \in Job : RowStep(j)
  <2> DEFINE k == Head(reqs).job
  <2>1. \/ UNCHANGED job
        \/ Unfinished(job[k]) /\ job' = [job EXCEPT ![k] = finish_entry(job[k], "success")]
    BY <1>4 DEF finish_success
  <2> QED
    BY <1>0, <1>1, <2>1 DEF RowStep
<1>5. ASSUME finish_fail PROVE \A j \in Job : RowStep(j)
  <2> DEFINE k == Head(reqs).job
  <2>1. \/ UNCHANGED job
        \/ Unfinished(job[k]) /\ job' = [job EXCEPT ![k] = failed(job[k])]
    BY <1>5 DEF finish_fail
  <2> QED
    BY <1>0, <1>1, <2>1 DEF RowStep
<1>6. ASSUME cancel PROVE \A j \in Job : RowStep(j)
  <2> DEFINE k == Head(reqs).job
  <2>1. \/ UNCHANGED job
        \/ Unfinished(job[k]) /\ job' = [job EXCEPT ![k] = finish_entry(job[k], "cancel")]
    BY <1>6 DEF cancel
  <2> QED
    BY <1>0, <1>1, <2>1 DEF RowStep
<1> QED
  BY <1>1, <1>2, <1>3, <1>4, <1>5, <1>6
  DEF Next, Chains, Proxy, request_cancel, poll, retry_pop, run_success, run_failure,
      schedule, timer, no_answer, timeout, stop, cancel_timers, crash, lose, vars

\* Neither a late report nor a cancel changes a finished row ("Already terminated"):
\* FinishedIsFinal, for every queue.
THEOREM FinishedStaysFinished == Spec => FinishedIsFinal
<1>1. ASSUME TypeOK, [Next]_vars
      PROVE  [\A j \in Job : job[j].state = "finished" => job'[j] = job[j]]_vars
  BY <1>1, RowChange DEF RowStep, Poppable, Unfinished
<1> QED
  BY <1>1, TypeCorrect, PTL DEF Spec, FinishedIsFinal

(***************************************************************************)
(* The saved rows and the number of attempts                               *)
(***************************************************************************)
CountBound(row) == row.count <= IF row.max > 0 THEN row.max ELSE 1
Counters(row) == /\ row.started <=> row.count > 0
                 /\ row.state = "pending" => row.count = 0 \/ row.count < row.max
                 /\ row.state = "none" => row.count = 0
                 /\ CountBound(row)
Valid(row) == /\ row.state \in {"none", "pending"} => row.worker = NoNode
              /\ row.state = "running" => row.worker # NoNode
              /\ row.state = "finished" <=> row.status # "none"

LEMMA RowInvStep ==
  ASSUME NEW row \in Row, Counters(row), Valid(row)
  PROVE  /\ \A max \in Nat : Counters(created(max)) /\ Valid(created(max))
         /\ Poppable(row) => \A n \in Node : Counters(popped(row, n)) /\ Valid(popped(row, n))
         /\ \A st \in {"success", "cancel", "fail"} :
              Counters(finish_entry(row, st)) /\ Valid(finish_entry(row, st))
         /\ Unfinished(row) => Counters(failed(row)) /\ Valid(failed(row))
<1>1. \A max \in Nat : Counters(created(max)) /\ Valid(created(max))
  BY DEF created, Counters, CountBound, Valid
<1>2. ASSUME Poppable(row), NEW n \in Node
      PROVE  Counters(popped(row, n)) /\ Valid(popped(row, n))
  <2> DEFINE new == popped(row, n)
  <2>1. /\ new.state = "running" /\ new.worker = n /\ new.started = TRUE
        /\ new.max = first_max(row) /\ new.count = row.count + 1 /\ new.status = row.status
    BY DEF popped
  <2>2. row.count \in Nat /\ row.max \in Nat /\ first_max(row) \in Nat
    BY JobQueueConstants DEF JobQueueConstants, Row, first_max
  <2> HIDE DEF new
  <2>3. Valid(new)
    BY <1>2, <2>1, JobQueueConstants DEF JobQueueConstants, Valid, Poppable
  <2>4. ASSUME row.count = 0 PROVE Counters(new)
    BY <2>1, <2>2, <2>4 DEF Counters, CountBound
  <2>5. ASSUME row.count > 0 PROVE Counters(new)
    <3>1. row.started /\ row.count < row.max
      BY <1>2, <2>2, <2>5 DEF Counters, Poppable
    <3>2. first_max(row) = row.max
      BY <3>1 DEF first_max
    <3> QED
      BY <2>1, <2>2, <3>1, <3>2 DEF Counters, CountBound
  <2> QED
    BY <2>2, <2>3, <2>4, <2>5 DEF new
<1>3. ASSUME NEW st \in {"success", "cancel", "fail"}
      PROVE  Counters(finish_entry(row, st)) /\ Valid(finish_entry(row, st))
  <2> DEFINE new == finish_entry(row, st)
  <2>1. /\ new.state = "finished" /\ new.worker = row.worker /\ new.started = row.started
        /\ new.max = row.max /\ new.count = row.count /\ new.status = st
    BY DEF finish_entry, Row
  <2> HIDE DEF new
  <2>2. Valid(new) /\ Counters(new)
    BY <2>1 DEF Valid, Counters, CountBound
  <2> QED
    BY <2>2 DEF new
<1>4. ASSUME Unfinished(row)
      PROVE  Counters(failed(row)) /\ Valid(failed(row))
  <2>1. CASE ~RetryLeft(row)
    BY <1>3, <2>1 DEF failed
  <2>2. CASE RetryLeft(row)
    <3> DEFINE new == pushed_back(row)
    <3>1. /\ new.state = "pending" /\ new.worker = NoNode /\ new.started = row.started
          /\ new.max = row.max /\ new.count = row.count /\ new.status = row.status
      BY DEF pushed_back, Row
    <3>2. row.count \in Nat /\ row.max \in Nat /\ row.count < row.max
      BY <2>2 DEF RetryLeft, Row
    <3> HIDE DEF new
    <3>3. Valid(new) /\ Counters(new)
      BY <1>4, <3>1, <3>2 DEF Valid, Counters, CountBound, Unfinished
    <3> QED
      BY <2>2, <3>3 DEF new, failed
  <2> QED
    BY <2>1, <2>2
<1> QED
  BY <1>1, <1>2, <1>3, <1>4

LEMMA RowsStep ==
  ASSUME TypeOK, [Next]_vars, \A j \in Job : Counters(job[j]) /\ Valid(job[j])
  PROVE  \A j \in Job : Counters(job'[j]) /\ Valid(job'[j])
<1> TAKE j \in Job
<1>1. job[j] \in Row /\ Counters(job[j]) /\ Valid(job[j]) /\ RowStep(j)
  BY RowChange DEF TypeOK
<1>2. CASE job'[j] = job[j]
  BY <1>1, <1>2
<1>3. CASE job'[j] # job[j]
  BY <1>1, <1>3, RowInvStep DEF RowStep
<1> QED
  BY <1>2, <1>3

LEMMA BegunStep ==
  ASSUME TypeOK, [Next]_vars
  PROVE  \A j \in Job : \/ work'[j].begun = work[j].begun
                        \/ /\ work'[j].begun = work[j].begun + 1
                           /\ job'[j].count = job[j].count + 1
<1>0. job \in [Job -> Row] /\ work \in [Job -> Work]
  BY DEF TypeOK
<1>1. CASE UNCHANGED work
  BY <1>1
<1>2. ASSUME pop, ~UNCHANGED work
      PROVE  \A j \in Job : \/ work'[j].begun = work[j].begun
                            \/ /\ work'[j].begun = work[j].begun + 1
                               /\ job'[j].count = job[j].count + 1
  <2> DEFINE n == NodeOf(Head(reqs).from)
  <2>1. PICK k \in Job : /\ job' = [job EXCEPT ![k] = popped(job[k], n)]
                         /\ work' = [work EXCEPT ![k].begun = @ + 1]
    BY <1>2 DEF pop
  <2>2. popped(job[k], n).count = job[k].count + 1
    BY DEF popped
  <2>3. work[k] \in Work
    BY <1>0
  <2>4. work'[k].begun = work[k].begun + 1 /\ job'[k].count = job[k].count + 1
    BY <1>0, <2>1, <2>2, <2>3 DEF Work
  <2> QED
    BY <1>0, <2>1, <2>4
<1>3. ASSUME NEW p \in Poller, run_success(p) \/ run_failure(p)
      PROVE  \A j \in Job : work'[j].begun = work[j].begun
  BY <1>0, <1>3 DEF run_success, run_failure, Work
<1> QED
  BY <1>1, <1>2, <1>3
  DEF Next, Chains, Proxy, submit, request_cancel, poll, retry_pop, schedule, timer,
      no_answer, timeout, stop, cancel_timers, crash, finish_success, finish_fail,
      cancel, lose, vars, history

RowsInv == \A j \in Job : /\ Counters(job[j]) /\ Valid(job[j])
                          /\ work[j].begun <= job[j].count

LEMMA RowsInvStep == TypeOK /\ TypeOK' /\ RowsInv /\ [Next]_vars => RowsInv'
<1> SUFFICES ASSUME TypeOK, TypeOK', RowsInv, [Next]_vars,
                    NEW j \in Job
             PROVE  Counters(job'[j]) /\ Valid(job'[j]) /\ work'[j].begun <= job'[j].count
  BY DEF RowsInv
<1>1. Counters(job'[j]) /\ Valid(job'[j])
  BY RowsStep DEF RowsInv
<1>2. job[j] \in Row /\ job'[j] \in Row /\ work[j] \in Work /\ work'[j] \in Work
  BY DEF TypeOK
<1>3. job[j].count \in Nat /\ job'[j].count \in Nat /\ work[j].begun \in Nat
  BY <1>2 DEF Row, Work
<1>4. job[j].count <= job'[j].count
  <2>1. CASE job[j].state = "none"
    BY <1>3, <2>1 DEF RowsInv, Counters
  <2>2. CASE job[j].state # "none"
    <3>1. \/ job'[j] = job[j]
          \/ \E n \in Node : job'[j] = popped(job[j], n)
          \/ \E st \in {"success", "cancel"} : job'[j] = finish_entry(job[j], st)
          \/ job'[j] = failed(job[j])
      BY <2>2, RowChange DEF RowStep
    <3>2. /\ \A n \in Node : popped(job[j], n).count = job[j].count + 1
          /\ \A st : finish_entry(job[j], st).count = job[j].count
          /\ failed(job[j]).count = job[j].count
      BY <1>2 DEF popped, finish_entry, failed, pushed_back, Row
    <3> QED
      BY <1>3, <3>1, <3>2
  <2> QED
    BY <2>1, <2>2
<1>5. work[j].begun <= job[j].count
  BY DEF RowsInv
<1>6. \/ work'[j].begun = work[j].begun
      \/ work'[j].begun = work[j].begun + 1 /\ job'[j].count = job[j].count + 1
  BY BegunStep
<1> QED
  BY <1>1, <1>3, <1>4, <1>5, <1>6

\* The rows the pollers, the proxy and the API leave in the table always pass
\* QueuedJob#validate, and no job is started more often than its retry_max allows.
THEOREM RowsCorrect == Spec => [](RowsValid /\ AttemptsBounded)
<1>1. Init => RowsInv
  BY JobQueueConstants
  DEF JobQueueConstants, Init, RowsInv, NoRow, NoWork, Counters, CountBound, Valid
<1>2. TypeOK /\ RowsInv => RowsValid /\ AttemptsBounded
  BY DEF RowsInv, RowsValid, AttemptsBounded, Valid, Counters, CountBound
<1> QED
  BY <1>1, <1>2, RowsInvStep, TypeCorrect, PTL DEF Spec

(***************************************************************************)
(* One worker per job                                                      *)
(***************************************************************************)
HoldsIn(c, p, j) == c[p].job = j /\ c[p].pc \in {"run", "success", "fail"}
OnJob(r, j) == r.op \in Report /\ r.job = j

OneIn(c) == \A j \in Job : \A p, q \in Poller : HoldsIn(c, p, j) /\ HoldsIn(c, q, j) => p = q

HeldIn(c, t) ==
    \A p \in Poller, j \in Job : HoldsIn(c, p, j) =>
      \/ t[j].state = "finished"
      \/ t[j].state = "running" /\ t[j].max = c[p].max /\ t[j].count = c[p].count

ReportsIn(s, c, t) ==
    \A j \in Job : t[j].state # "finished" =>
      \A i \in 1 .. Len(s) : OnJob(s[i], j) =>
        /\ t[j].state = "running"
        /\ \A p \in Poller : HoldsIn(c, p, j) =>
             /\ s[i].from = p
             /\ c[p].pc # "run"
             /\ s[i].op = "fail" => s[i].live
        /\ \A k \in 1 .. Len(s) : OnJob(s[k], j) /\ i < k =>
             s[i].op = "success" /\ s[k].op = "fail"

HoldInv == OneWorkerPerJob /\ HeldRows /\ Reports

LEMMA HoldInvIn == /\ HoldInv <=> OneIn(poller) /\ HeldIn(poller, job) /\ ReportsIn(reqs, poller, job)
                   /\ HoldInv' <=> OneIn(poller') /\ HeldIn(poller', job') /\ ReportsIn(reqs', poller', job')
  BY DEF HoldInv, OneWorkerPerJob, HeldRows, Reports, Holds, ReportOn, ReqIdx,
         OneIn, HeldIn, ReportsIn, HoldsIn, OnJob

\* No new holder: the two facts about holders survive.
LEMMA HoldersShrink ==
  ASSUME NEW c, NEW d, NEW t, NEW u, OneIn(c), HeldIn(c, t),
         \A p \in Poller, j \in Job : HoldsIn(d, p, j) =>
           HoldsIn(c, p, j) /\ d[p].max = c[p].max /\ d[p].count = c[p].count,
         \A j \in Job : \/ u[j] = t[j]
                        \/ u[j].state = "finished"
                        \/ \A p \in Poller : ~HoldsIn(d, p, j)
  PROVE  OneIn(d) /\ HeldIn(d, u)
<1>1. OneIn(d)
  BY DEF OneIn
<1>2. HeldIn(d, u)
  BY DEF HeldIn
<1> QED
  BY <1>1, <1>2

\* Chains and rows change, the queue does not.
LEMMA ReportsSameQueue ==
  ASSUME NEW s, NEW c, NEW d, NEW t, NEW u, ReportsIn(s, c, t),
         \A j \in Job : \/ u[j].state \in {t[j].state, "finished"}
                        \/ t[j].state \in {"none", "pending"}
                        \/ \A i \in 1 .. Len(s) : ~OnJob(s[i], j),
         \A p \in Poller, j \in Job : HoldsIn(d, p, j) =>
           \/ HoldsIn(c, p, j) /\ (d[p].pc = "run" => c[p].pc = "run")
           \/ t[j].state \in {"none", "pending"}
  PROVE  ReportsIn(s, d, u)
<1> SUFFICES ASSUME NEW j \in Job, u[j].state # "finished",
                    NEW i \in 1 .. Len(s), OnJob(s[i], j)
             PROVE  /\ u[j].state = "running"
                    /\ \A p \in Poller : HoldsIn(d, p, j) =>
                         /\ s[i].from = p
                         /\ d[p].pc # "run"
                         /\ s[i].op = "fail" => s[i].live
                    /\ \A k \in 1 .. Len(s) : OnJob(s[k], j) /\ i < k =>
                         s[i].op = "success" /\ s[k].op = "fail"
  BY DEF ReportsIn
<1>1. t[j].state = "running" \/ t[j].state = "finished"
  BY DEF ReportsIn
<1>2. u[j].state = t[j].state
  BY <1>1
<1>3. t[j].state = "running"
  BY <1>1, <1>2
<1> QED
  BY <1>2, <1>3 DEF ReportsIn

\* The head of the queue is taken.
LEMMA ReportsTail ==
  ASSUME NEW s \in Seq(Request), Len(s) > 0, NEW c, NEW t, ReportsIn(s, c, t)
  PROVE  ReportsIn(Tail(s), c, t)
<1> DEFINE z == Tail(s)
<1>1. /\ Len(z) \in Nat /\ Len(s) = Len(z) + 1
      /\ \A i \in 1 .. Len(z) : i + 1 \in 1 .. Len(s) /\ z[i] = s[i + 1]
  OBVIOUS
<1> HIDE DEF z
<1> SUFFICES ASSUME NEW j \in Job, t[j].state # "finished",
                    NEW i \in 1 .. Len(z), OnJob(z[i], j)
             PROVE  /\ t[j].state = "running"
                    /\ \A p \in Poller : HoldsIn(c, p, j) =>
                         /\ z[i].from = p
                         /\ c[p].pc # "run"
                         /\ z[i].op = "fail" => z[i].live
                    /\ \A k \in 1 .. Len(z) : OnJob(z[k], j) /\ i < k =>
                         z[i].op = "success" /\ z[k].op = "fail"
  BY DEF ReportsIn, z
<1>2. /\ t[j].state = "running"
      /\ \A p \in Poller : HoldsIn(c, p, j) =>
           /\ z[i].from = p
           /\ c[p].pc # "run"
           /\ z[i].op = "fail" => z[i].live
  BY <1>1 DEF ReportsIn
<1>3. ASSUME NEW k \in 1 .. Len(z), OnJob(z[k], j), i < k
      PROVE  z[i].op = "success" /\ z[k].op = "fail"
  <2>1. i + 1 \in 1 .. Len(s) /\ k + 1 \in 1 .. Len(s) /\ i + 1 < k + 1
    BY <1>1, <1>3
  <2> QED
    BY <1>1, <1>3, <2>1 DEF ReportsIn
<1> QED
  BY <1>2, <1>3

\* Callers P give up; one that still holds a running job has no fail queued.
LEMMA ReportsAbandoned ==
  ASSUME TypeOK, NEW P, NEW c, NEW t, ReportsIn(reqs, poller, t),
         \A p \in Poller, j \in Job : HoldsIn(c, p, j) =>
           /\ HoldsIn(poller, p, j) /\ (c[p].pc = "run" => poller[p].pc = "run")
           /\ \/ p \notin P
              \/ t[j].state = "finished"
              \/ \A i \in 1 .. Len(reqs) : OnJob(reqs[i], j) => reqs[i].op # "fail"
  PROVE  ReportsIn(abandon(P), c, t)
<1> DEFINE z == abandon(P)
<1>1. /\ Len(z) = Len(reqs) /\ Len(reqs) \in Nat
      /\ \A i \in 1 .. Len(reqs) :
              /\ z[i].op = reqs[i].op
              /\ z[i].from = reqs[i].from
              /\ z[i].job = reqs[i].job
              /\ z[i].live <=> reqs[i].live /\ reqs[i].from \notin P
  BY AbandonAt DEF TypeOK
<1> HIDE DEF z
<1> SUFFICES ASSUME NEW j \in Job, t[j].state # "finished",
                    NEW i \in 1 .. Len(z), OnJob(z[i], j)
             PROVE  /\ t[j].state = "running"
                    /\ \A p \in Poller : HoldsIn(c, p, j) =>
                         /\ z[i].from = p
                         /\ c[p].pc # "run"
                         /\ z[i].op = "fail" => z[i].live
                    /\ \A k \in 1 .. Len(z) : OnJob(z[k], j) /\ i < k =>
                         z[i].op = "success" /\ z[k].op = "fail"
  BY DEF ReportsIn, z
<1>2. i \in 1 .. Len(reqs) /\ OnJob(reqs[i], j)
  BY <1>1 DEF OnJob
<1>3. t[j].state = "running"
  BY <1>2 DEF ReportsIn
<1>4. ASSUME NEW p \in Poller, HoldsIn(c, p, j)
      PROVE  /\ z[i].from = p
             /\ c[p].pc # "run"
             /\ z[i].op = "fail" => z[i].live
  <2>1. HoldsIn(poller, p, j) /\ (c[p].pc = "run" => poller[p].pc = "run")
    BY <1>4
  <2>2. reqs[i].from = p /\ poller[p].pc # "run" /\ (reqs[i].op = "fail" => reqs[i].live)
    BY <1>2, <2>1 DEF ReportsIn
  <2>3. z[i].op = "fail" => p \notin P
    BY <1>1, <1>2, <1>4
  <2> QED
    BY <1>1, <1>2, <2>1, <2>2, <2>3
<1>5. ASSUME NEW k \in 1 .. Len(z), OnJob(z[k], j), i < k
      PROVE  z[i].op = "success" /\ z[k].op = "fail"
  BY <1>1, <1>2, <1>5 DEF ReportsIn, OnJob
<1> QED
  BY <1>3, <1>4, <1>5

\* A request is added that reports on no unfinished job.
LEMMA ReportsAppendOther ==
  ASSUME NEW s \in Seq(Request), NEW r, NEW c, NEW t, ReportsIn(s, c, t),
         \A j \in Job : OnJob(r, j) => t[j].state = "finished"
  PROVE  ReportsIn(Append(s, r), c, t)
<1> DEFINE z == Append(s, r)
<1>1. /\ Len(s) \in Nat /\ Len(z) = Len(s) + 1
      /\ \A i \in 1 .. Len(s) : z[i] = s[i]
      /\ z[Len(s) + 1] = r
  BY AppendAt
<1> HIDE DEF z
<1>2. \A j \in Job : t[j].state # "finished" =>
        \A i \in 1 .. Len(z) : OnJob(z[i], j) => i \in 1 .. Len(s)
  BY <1>1
<1>3. ReportsIn(z, c, t)
  BY <1>1, <1>2 DEF ReportsIn
<1> QED
  BY <1>3 DEF z

\* p adds its report r on the running job j it holds; what is queued about j is
\* at most success reports, and they only if r is a fail.
LEMMA ReportsAppend ==
  ASSUME NEW s \in Seq(Request), NEW r, NEW c, NEW t, ReportsIn(s, c, t), OneIn(c),
         NEW p \in Poller, NEW j \in Job, OnJob(r, j), r.from = p, r.live,
         HoldsIn(c, p, j), c[p].pc # "run", t[j].state \in {"running", "finished"},
         t[j].state = "running" =>
           \A i \in 1 .. Len(s) : OnJob(s[i], j) => s[i].op = "success" /\ r.op = "fail"
  PROVE  ReportsIn(Append(s, r), c, t)
<1> DEFINE z == Append(s, r)
<1>1. /\ Len(s) \in Nat /\ Len(z) = Len(s) + 1
      /\ \A i \in 1 .. Len(s) : z[i] = s[i]
      /\ z[Len(s) + 1] = r
  BY AppendAt
<1> HIDE DEF z
<1> SUFFICES ASSUME NEW l \in Job, t[l].state # "finished",
                    NEW i \in 1 .. Len(z), OnJob(z[i], l)
             PROVE  /\ t[l].state = "running"
                    /\ \A q \in Poller : HoldsIn(c, q, l) =>
                         /\ z[i].from = q
                         /\ c[q].pc # "run"
                         /\ z[i].op = "fail" => z[i].live
                    /\ \A k \in 1 .. Len(z) : OnJob(z[k], l) /\ i < k =>
                         z[i].op = "success" /\ z[k].op = "fail"
  BY DEF ReportsIn, z
<1>2. CASE i = Len(s) + 1
  <2>1. l = j
    BY <1>1, <1>2 DEF OnJob
  <2>2. \A q \in Poller : HoldsIn(c, q, l) => q = p
    BY <2>1 DEF OneIn
  <2>3. \A k \in 1 .. Len(z) : ~(i < k)
    BY <1>1, <1>2
  <2> QED
    BY <1>1, <1>2, <2>1, <2>2, <2>3
<1>3. CASE i \in 1 .. Len(s)
  <2>1. /\ t[l].state = "running"
        /\ \A q \in Poller : HoldsIn(c, q, l) =>
                         /\ z[i].from = q
                         /\ c[q].pc # "run"
                         /\ z[i].op = "fail" => z[i].live
    BY <1>1, <1>3 DEF ReportsIn
  <2>2. ASSUME NEW k \in 1 .. Len(z), OnJob(z[k], l), i < k
        PROVE  z[i].op = "success" /\ z[k].op = "fail"
    <3>1. CASE k \in 1 .. Len(s)
      BY <1>1, <1>3, <2>2, <3>1 DEF ReportsIn
    <3>2. CASE k = Len(s) + 1
      <4>1. l = j
        BY <1>1, <2>2, <3>2 DEF OnJob
      <4> QED
        BY <1>1, <1>3, <2>1, <3>2, <4>1
    <3> QED
      BY <1>1, <3>1, <3>2
  <2> QED
    BY <2>1, <2>2
<1> QED
  BY <1>1, <1>2, <1>3

\* A step in which no chain takes a job and the rows only finish (or are created):
\* the queue is unchanged, loses its head, or is extended by a pop or a cancel.
LEMMA HoldQuiet ==
  ASSUME TypeOK, HoldInv,
         \A p \in Poller, j \in Job : HoldsIn(poller', p, j) =>
           HoldsIn(poller, p, j) /\ poller'[p] = poller[p],
         \A j \in Job : \/ job'[j] = job[j]
                        \/ job'[j].state = "finished"
                        \/ job[j].state = "none",
         \/ reqs' = reqs
         \/ Len(reqs) > 0 /\ reqs' = Tail(reqs)
         \/ \E r : reqs' = Append(reqs, r) /\ r.op \notin Report
  PROVE  HoldInv'
<1>0. OneIn(poller) /\ HeldIn(poller, job) /\ ReportsIn(reqs, poller, job) /\ reqs \in Seq(Request)
  BY HoldInvIn DEF TypeOK
<1>1. OneIn(poller') /\ HeldIn(poller', job')
  <2>1. \A p \in Poller, j \in Job : HoldsIn(poller', p, j) =>
          /\ HoldsIn(poller, p, j)
          /\ poller'[p].max = poller[p].max /\ poller'[p].count = poller[p].count
    OBVIOUS
  <2>2. ASSUME NEW j \in Job
        PROVE  \/ job'[j] = job[j]
               \/ job'[j].state = "finished"
               \/ \A p \in Poller : ~HoldsIn(poller', p, j)
    <3>1. CASE job[j].state = "none"
      BY <1>0, <3>1 DEF HeldIn
    <3> QED
      BY <3>1
  <2> QED
    BY <1>0, <2>1, <2>2, HoldersShrink
<1>2. ASSUME NEW s, ReportsIn(s, poller, job)
      PROVE  ReportsIn(s, poller', job')
  <2>1. \A j \in Job : \/ job'[j].state \in {job[j].state, "finished"}
                       \/ job[j].state \in {"none", "pending"}
    OBVIOUS
  <2>2. \A p \in Poller, j \in Job : HoldsIn(poller', p, j) =>
           \/ HoldsIn(poller, p, j) /\ (poller'[p].pc = "run" => poller[p].pc = "run")
           \/ job[j].state \in {"none", "pending"}
    OBVIOUS
  <2> QED
    BY <1>2, <2>1, <2>2, ReportsSameQueue
<1>3. ReportsIn(reqs', poller, job)
  <2>1. CASE reqs' = reqs
    BY <1>0, <2>1
  <2>2. CASE Len(reqs) > 0 /\ reqs' = Tail(reqs)
    <3>1. ReportsIn(Tail(reqs), poller, job)
      BY <1>0, <2>2, ReportsTail
    <3> QED
      BY <2>2, <3>1
  <2>3. ASSUME NEW r, reqs' = Append(reqs, r), r.op \notin Report
        PROVE  ReportsIn(reqs', poller, job)
    <3>1. \A j \in Job : OnJob(r, j) => job[j].state = "finished"
      BY <2>3 DEF OnJob
    <3>2. ReportsIn(Append(reqs, r), poller, job)
      BY <1>0, <3>1, ReportsAppendOther
    <3> QED
      BY <2>3, <3>2
  <2> QED
    BY <2>1, <2>2, <2>3
<1> QED
  BY <1>1, <1>2, <1>3, HoldInvIn

LEMMA AtHolds == \A pc \in {"poll", "pop", "next", "again"} : \A c, p, j :
                   c[p] = At(pc) => ~HoldsIn(c, p, j)
  BY DEF At, Idle, HoldsIn

\* Every step keeps HoldInv.
LEMMA HoldStep == TypeOK /\ LiveRequests /\ HoldInv /\ [Next]_vars => HoldInv'
<1> SUFFICES ASSUME TypeOK, LiveRequests, HoldInv, [Next]_vars PROVE HoldInv'
  OBVIOUS
<1>0. /\ OneIn(poller) /\ HeldIn(poller, job) /\ ReportsIn(reqs, poller, job)
      /\ reqs \in Seq(Request) /\ poller \in [Poller -> Chain] /\ job \in [Job -> Row]
  BY HoldInvIn DEF TypeOK
<1>1. CASE UNCHANGED <<job, reqs, poller>>
  BY <1>0, <1>1, HoldInvIn
<1>2. ASSUME NEW k \in Job, NEW max \in RetryMaxes \cup {0}, submit(k, max) PROVE HoldInv'
  BY <1>0, <1>2, HoldQuiet DEF submit
<1>3. ASSUME NEW k \in Job, request_cancel(k) PROVE HoldInv'
  <2>1. \E r : reqs' = Append(reqs, r) /\ r.op \notin Report
    <3> DEFINE r == [op |-> "cancel", from |-> Client, live |-> FALSE, job |-> k]
    <3>1. reqs' = Append(reqs, r) /\ r.op \notin Report
      BY <1>3 DEF request_cancel, Report
    <3> QED
      BY <3>1
  <2>2. poller' = poller /\ job' = job
    BY <1>3 DEF request_cancel
  <2> QED
    BY <2>1, <2>2, HoldQuiet
<1>4. ASSUME NEW p \in Poller, poll(p) \/ retry_pop(p) PROVE HoldInv'
  <2>1. \/ reqs' = reqs
        \/ \E r : reqs' = Append(reqs, r) /\ r.op \notin Report
    <3> DEFINE r == report("pop", p, 0)
    <3>1. r.op \notin Report
      BY DEF report, Report
    <3> QED
      BY <1>4, <3>1 DEF poll, retry_pop, send
  <2>2. \A q \in Poller : q # p => poller'[q] = poller[q]
    BY <1>0, <1>4 DEF poll, retry_pop
  <2>3. poller'[p].pc \notin {"run", "success", "fail"}
    <3>1. At("pop").pc = "pop" /\ At("next").pc = "next"
      BY DEF At, Idle
    <3>2. poller[p] \in Chain
      BY <1>0
    <3>3. [poller[p] EXCEPT !.pc = "pop"].pc = "pop"
      BY <3>2 DEF Chain
    <3> QED
      BY <1>0, <1>4, <3>1, <3>3 DEF poll, retry_pop
  <2>4. \A q \in Poller, j \in Job : HoldsIn(poller', q, j) =>
          HoldsIn(poller, q, j) /\ poller'[q] = poller[q]
    BY <2>2, <2>3 DEF HoldsIn
  <2>5. job' = job
    BY <1>4 DEF poll, retry_pop
  <2> QED
    BY <2>1, <2>4, <2>5, HoldQuiet
<1>5. ASSUME NEW p \in Poller, run_success(p) \/ run_failure(p) PROVE HoldInv'
  <2>1. PICK op \in Report :
          /\ reqs' = Append(reqs, report(op, p, poller[p].job))
          /\ poller' = [poller EXCEPT ![p].pc = op]
          /\ job' = job
    BY <1>5 DEF run_success, run_failure, send, Report
  <2> DEFINE j == poller[p].job
             r == report(op, p, j)
  <2>2. poller[p].pc = "run" /\ j \in Job /\ poller[p] \in Chain
    BY <1>0, <1>5, ChainTypes DEF run_success, run_failure
  <2>3. /\ poller'[p].pc = op /\ poller'[p].job = j
        /\ poller'[p].max = poller[p].max /\ poller'[p].count = poller[p].count
        /\ \A q \in Poller : q # p => poller'[q] = poller[q]
    BY <1>0, <2>1, <2>2 DEF Chain
  <2>4. r.op = op /\ r.from = p /\ r.live /\ r.job = j
    BY DEF report
  <2> HIDE DEF r, j
  <2>5. op # "run" /\ HoldsIn(poller, p, j) /\ HoldsIn(poller', p, j) /\ OnJob(r, j)
    BY <2>2, <2>3, <2>4 DEF HoldsIn, OnJob, Report, j
  <2>6. \A q \in Poller, l \in Job : HoldsIn(poller', q, l) =>
          /\ HoldsIn(poller, q, l)
          /\ poller'[q].max = poller[q].max /\ poller'[q].count = poller[q].count
          /\ poller'[q].pc = "run" => poller[q].pc = "run"
    BY <2>2, <2>3, <2>5 DEF HoldsIn
  <2>7. OneIn(poller') /\ HeldIn(poller', job)
    BY <1>0, <2>6, HoldersShrink
  <2>8. ReportsIn(reqs, poller', job)
    BY <1>0, <2>6, ReportsSameQueue
  <2>9. job[j].state \in {"running", "finished"}
    BY <1>0, <2>2, <2>5 DEF HeldIn
  <2>10. job[j].state = "running" => \A i \in 1 .. Len(reqs) : ~OnJob(reqs[i], j)
    BY <1>0, <2>2, <2>5 DEF ReportsIn
  <2>11. poller'[p].pc # "run"
    BY <2>3, <2>5
  <2>12. ReportsIn(Append(reqs, r), poller', job)
    BY <1>0, <2>2, <2>4, <2>5, <2>7, <2>8, <2>9, <2>10, <2>11, ReportsAppend
  <2> QED
    BY <2>1, <2>7, <2>12, HoldInvIn DEF r, j
<1>6. ASSUME NEW p \in Poller, schedule(p) \/ timer(p) PROVE HoldInv'
  <2>1. PICK pc \in {"poll", "arm", "wait", "end"} : poller' = [poller EXCEPT ![p].pc = pc]
    BY <1>6 DEF schedule, timer
  <2>2. poller[p] \in Chain
    BY <1>0
  <2>3. poller'[p].pc = pc /\ \A q \in Poller : q # p => poller'[q] = poller[q]
    BY <1>0, <2>1, <2>2 DEF Chain
  <2>4. \A q \in Poller, j \in Job : HoldsIn(poller', q, j) =>
          HoldsIn(poller, q, j) /\ poller'[q] = poller[q]
    BY <2>3 DEF HoldsIn
  <2>5. job' = job /\ reqs' = reqs
    BY <1>6 DEF schedule, timer
  <2> QED
    BY <2>4, <2>5, HoldQuiet
<1>7. ASSUME NEW n \in Node, cancel_timers(n) PROVE HoldInv'
  <2>1. \A q \in Poller, j \in Job : HoldsIn(poller', q, j) =>
          HoldsIn(poller, q, j) /\ poller'[q] = poller[q]
    <3> TAKE q \in Poller, j \in Job
    <3>1. poller[q] \in Chain
      BY <1>0
    <3>2. poller'[q] = poller[q] \/ poller'[q] = [poller[q] EXCEPT !.pc = "end"]
      BY <1>7 DEF cancel_timers
    <3>3. [poller[q] EXCEPT !.pc = "end"].pc = "end"
      BY <3>1 DEF Chain
    <3> QED
      BY <3>2, <3>3 DEF HoldsIn
  <2>2. job' = job /\ reqs' = reqs
    BY <1>7 DEF cancel_timers
  <2> QED
    BY <2>1, <2>2, HoldQuiet
<1>8. ASSUME NEW P, reqs' = abandon(P), job' = job,
             \A q \in Poller, j \in Job : HoldsIn(poller', q, j) =>
               q \notin P /\ poller'[q] = poller[q]
      PROVE  HoldInv'
  <2>1. \A q \in Poller, j \in Job : HoldsIn(poller', q, j) =>
          HoldsIn(poller, q, j) /\ poller'[q].max = poller[q].max /\ poller'[q].count = poller[q].count
    BY <1>8 DEF HoldsIn
  <2>2. OneIn(poller') /\ HeldIn(poller', job)
    BY <1>0, <2>1, HoldersShrink
  <2>3. ReportsIn(abandon(P), poller', job)
    <3>1. \A q \in Poller, j \in Job : HoldsIn(poller', q, j) =>
            /\ HoldsIn(poller, q, j) /\ (poller'[q].pc = "run" => poller[q].pc = "run")
            /\ q \notin P
      BY <1>8, <2>1
    <3> QED
      BY <1>0, <3>1, ReportsAbandoned
  <2> QED
    BY <1>8, <2>2, <2>3, HoldInvIn
<1>9. ASSUME NEW p \in Poller, raised(p), job' = job PROVE HoldInv'
  <2>0. poller[p] \in Chain
    BY <1>0
  <2>1. CASE poller[p].pc \in {"pop", "fail"}
    <3>1. At("next").pc = "next" /\ \A k : [At("backoff") EXCEPT !.tries = k].pc = "backoff"
      BY DEF At, Idle
    <3>2. /\ reqs' = abandon({p})
          /\ poller'[p].pc \notin {"run", "success", "fail"}
          /\ \A q \in Poller : q # p => poller'[q] = poller[q]
      BY <1>0, <1>9, <2>1, <3>1 DEF raised
    <3>3. \A q \in Poller, j \in Job : HoldsIn(poller', q, j) =>
            q \notin {p} /\ poller'[q] = poller[q]
      BY <3>2 DEF HoldsIn
    <3> QED
      BY <1>8, <1>9, <3>2, <3>3
  <2>2. CASE poller[p].pc = "success"
    <3> DEFINE j == poller[p].job
               r == report("fail", p, j)
               z == abandon({p})
    <3>1. reqs' = Append(z, r) /\ poller' = [poller EXCEPT ![p].pc = "fail"]
      BY <1>9, <2>2 DEF raised
    <3>2. j \in Job
      BY <2>0, <2>2, ChainTypes
    <3>3. /\ poller'[p].pc = "fail" /\ poller'[p].job = j
          /\ poller'[p].max = poller[p].max /\ poller'[p].count = poller[p].count
          /\ \A q \in Poller : q # p => poller'[q] = poller[q]
      BY <1>0, <2>0, <2>2, <3>1 DEF Chain
    <3>4. r.op = "fail" /\ r.from = p /\ r.live /\ r.job = j
      BY DEF report
    <3>5. z \in Seq(Request) /\ Len(z) = Len(reqs) /\ Len(reqs) \in Nat
      BY <1>0, AbandonType
    <3>6. \A i \in 1 .. Len(reqs) : z[i].op = reqs[i].op /\ z[i].job = reqs[i].job
      BY <1>0, AbandonAt
    <3> HIDE DEF z, r, j
    <3>7. HoldsIn(poller, p, j) /\ HoldsIn(poller', p, j) /\ OnJob(r, j)
      BY <2>2, <3>3, <3>4 DEF HoldsIn, OnJob, Report, j
    <3>8. \A q \in Poller, l \in Job : HoldsIn(poller', q, l) =>
            /\ HoldsIn(poller, q, l)
            /\ poller'[q].max = poller[q].max /\ poller'[q].count = poller[q].count
            /\ poller'[q].pc = "run" => poller[q].pc = "run"
      BY <3>3, <3>7 DEF HoldsIn
    <3>9. OneIn(poller') /\ HeldIn(poller', job)
      BY <1>0, <3>8, HoldersShrink
    <3>10. \/ job[j].state = "finished"
           \/ \A i \in 1 .. Len(reqs) : OnJob(reqs[i], j) => reqs[i].op # "fail"
      <4> SUFFICES ASSUME job[j].state # "finished", NEW i \in 1 .. Len(reqs),
                          OnJob(reqs[i], j), reqs[i].op = "fail"
                   PROVE  FALSE
        OBVIOUS
      <4>1. reqs[i].from = p /\ reqs[i].live
        BY <1>0, <3>2, <3>7 DEF ReportsIn
      <4> QED
        BY <2>2, <4>1 DEF LiveRequests, ReqIdx
    <3>11. ReportsIn(z, poller', job)
      <4>1. \A q \in Poller, l \in Job : HoldsIn(poller', q, l) =>
              /\ HoldsIn(poller, q, l) /\ (poller'[q].pc = "run" => poller[q].pc = "run")
              /\ \/ q \notin {p}
                 \/ job[l].state = "finished"
                 \/ \A i \in 1 .. Len(reqs) : OnJob(reqs[i], l) => reqs[i].op # "fail"
        <5>1. \A l \in Job : HoldsIn(poller', p, l) => l = j
          BY <3>3 DEF HoldsIn
        <5> QED
          BY <3>8, <3>10, <5>1
      <4> QED
        BY <1>0, <4>1, ReportsAbandoned DEF z
    <3>12. job[j].state \in {"running", "finished"}
      BY <1>0, <3>2, <3>7 DEF HeldIn
    <3>13. job[j].state = "running" =>
             \A i \in 1 .. Len(z) : OnJob(z[i], j) => z[i].op = "success" /\ r.op = "fail"
      BY <3>4, <3>5, <3>6, <3>10 DEF OnJob, Report
    <3>14. poller'[p].pc # "run"
      BY <3>3
    <3>15. ReportsIn(Append(z, r), poller', job)
      BY <3>2, <3>4, <3>5, <3>7, <3>9, <3>11, <3>12, <3>13, <3>14, ReportsAppend
    <3> QED
      BY <1>9, <3>1, <3>9, <3>15, HoldInvIn
  <2> QED
    BY <1>9, <2>1, <2>2 DEF raised
<1>10. ASSUME NEW n \in Node, crash(n) PROVE HoldInv'
  <2> DEFINE P == {p \in Poller : NodeOf(p) = n}
  <2>1. /\ reqs' = abandon(P) /\ job' = job
        /\ poller' = [p \in Poller |-> IF p \in P THEN Idle ELSE poller[p]]
    BY <1>10 DEF crash
  <2> HIDE DEF P
  <2>2. Idle.pc = "poll"
    BY DEF Idle
  <2>3. \A q \in Poller, j \in Job : HoldsIn(poller', q, j) =>
          q \notin P /\ poller'[q] = poller[q]
    BY <2>1, <2>2 DEF HoldsIn
  <2> QED
    BY <1>8, <2>1, <2>3
<1>11. ASSUME Len(reqs) > 0
       PROVE  /\ Head(reqs) \in Request /\ Head(reqs) = reqs[1] /\ 1 \in 1 .. Len(reqs)
              /\ ReportsIn(Tail(reqs), poller, job) /\ Tail(reqs) \in Seq(Request)
  BY <1>0, <1>11, ReportsTail, HeadTail
<1>12. ASSUME pop PROVE HoldInv'
  <2> DEFINE r == Head(reqs)
  <2>1. Len(reqs) > 0 /\ r.op = "pop" /\ reqs' = Tail(reqs)
    BY <1>12 DEF pop, Serve
  <2>2. r \in Request /\ r.from \in Poller
    BY <1>11, <2>1, RequestFields
  <2>3. r.live => poller[r.from].pc = "pop"
    BY <1>11, <2>1 DEF LiveRequests, ReqIdx
  <2>4. CASE poller' = answered(r, "next") /\ job' = job
    <3>1. \A q \in Poller : poller'[q] = poller[q] \/ poller'[q] = At("next")
      BY <1>0, <2>2, <2>4 DEF answered
    <3>2. \A q \in Poller, j \in Job : HoldsIn(poller', q, j) =>
            HoldsIn(poller, q, j) /\ poller'[q] = poller[q]
      BY <3>1, AtHolds DEF HoldsIn
    <3> QED
      BY <2>1, <2>4, <3>2, HoldQuiet
  <2>5. ASSUME NEW j \in Job, NextJob(j),
               NEW row, row = popped(job[j], NodeOf(r.from)),
               job' = [job EXCEPT ![j] = row],
               \/ /\ r.live
                  /\ poller' = [poller EXCEPT ![r.from] =
                            [Idle EXCEPT !.pc = "run", !.job = j,
                                         !.max = row.max, !.count = row.count]]
               \/ ~r.live /\ poller' = poller
        PROVE  HoldInv'
    <3>1. job[j].state = "pending"
      BY <2>5 DEF NextJob, Poppable
    <3>2. \A q \in Poller : ~HoldsIn(poller, q, j)
      BY <1>0, <3>1 DEF HeldIn
    <3>3. row.state = "running" /\ job'[j] = row /\ \A k \in Job : k # j => job'[k] = job[k]
      BY <1>0, <2>5 DEF popped
    <3>4. \A q \in Poller, k \in Job : HoldsIn(poller', q, k) =>
            \/ HoldsIn(poller, q, k) /\ k # j /\ poller'[q] = poller[q]
            \/ q = r.from /\ k = j /\ poller'[q].max = row.max /\ poller'[q].count = row.count
      <4> TAKE q \in Poller, k \in Job
      <4>1. CASE poller'[q] = poller[q]
        BY <3>2, <4>1 DEF HoldsIn
      <4>2. CASE poller'[q] # poller[q]
        <5> DEFINE c == [Idle EXCEPT !.pc = "run", !.job = j, !.max = row.max, !.count = row.count]
        <5>1. c.job = j /\ c.max = row.max /\ c.count = row.count
          BY DEF Idle
        <5> HIDE DEF c
        <5>2. q = r.from /\ poller'[q] = c
          BY <1>0, <2>2, <2>5, <4>2 DEF c
        <5> QED
          BY <5>1, <5>2 DEF HoldsIn
      <4> QED
        BY <4>1, <4>2
    <3>5. OneIn(poller')
      BY <1>0, <3>4 DEF OneIn
    <3>6. HeldIn(poller', job')
      BY <1>0, <3>3, <3>4 DEF HeldIn
    <3>7. ReportsIn(Tail(reqs), poller', job')
      <4>1. \A k \in Job : \/ job'[k].state \in {job[k].state, "finished"}
                           \/ job[k].state \in {"none", "pending"}
        BY <3>1, <3>3
      <4>2. \A q \in Poller, k \in Job : HoldsIn(poller', q, k) =>
              \/ HoldsIn(poller, q, k) /\ (poller'[q].pc = "run" => poller[q].pc = "run")
              \/ job[k].state \in {"none", "pending"}
        BY <3>1, <3>4
      <4> DEFINE z == Tail(reqs)
      <4>3. ReportsIn(z, poller, job)
        BY <1>11, <2>1
      <4> HIDE DEF z
      <4>4. ReportsIn(z, poller', job')
        BY <4>1, <4>2, <4>3, ReportsSameQueue
      <4> QED
        BY <4>4 DEF z
    <3> QED
      BY <2>1, <3>5, <3>6, <3>7, HoldInvIn
  <2>6. \/ poller' = answered(r, "next") /\ job' = job
        \/ \E j \in Job :
             /\ NextJob(j)
             /\ job' = [job EXCEPT ![j] = popped(job[j], NodeOf(r.from))]
             /\ \/ /\ r.live
                   /\ poller' = [poller EXCEPT ![r.from] =
                            [Idle EXCEPT !.pc = "run", !.job = j,
                                         !.max = popped(job[j], NodeOf(r.from)).max,
                                         !.count = popped(job[j], NodeOf(r.from)).count]]
                \/ ~r.live /\ poller' = poller
    BY <1>12 DEF pop
  <2> HIDE DEF r
  <2> QED
    BY <2>4, <2>5, <2>6
<1>13. ASSUME finish_success PROVE HoldInv'
  <2> DEFINE r == Head(reqs)
  <2>1. Len(reqs) > 0 /\ r.op = "success"
    BY <1>13 DEF finish_success, Serve
  <2>2. r \in Request /\ r.from \in Poller /\ r.job \in Job
    BY <1>11, <2>1, RequestFields
  <2>3. CASE Unfinished(job[r.job]) \/ ~r.live
    <3>1. /\ reqs' = Tail(reqs)
          /\ poller' = poller \/ poller' = [poller EXCEPT ![r.from] = At("again")]
          /\ job' = job \/ job' = [job EXCEPT ![r.job] = finish_entry(@, "success")]
      BY <1>13, <2>3 DEF finish_success, answered
    <3>2. \A q \in Poller : poller'[q] = poller[q] \/ poller'[q] = At("again")
      BY <1>0, <2>2, <3>1
    <3>3. \A q \in Poller, j \in Job : HoldsIn(poller', q, j) =>
            HoldsIn(poller, q, j) /\ poller'[q] = poller[q]
      BY <3>2, AtHolds DEF HoldsIn
    <3>4. \A row \in Row : finish_entry(row, "success").state = "finished"
      BY DEF Row, finish_entry
    <3>5. \A j \in Job : job'[j] = job[j] \/ job'[j].state = "finished"
      BY <1>0, <2>2, <3>1, <3>4
    <3> QED
      BY <2>1, <3>1, <3>3, <3>5, HoldQuiet
  <2>4. CASE ~Unfinished(job[r.job]) /\ r.live
    <3> DEFINE x == report("fail", r.from, r.job)
               z == Tail(reqs)
    <3>1. /\ reqs' = Append(z, x) /\ job' = job
          /\ poller' = [poller EXCEPT ![r.from].pc = "fail"]
      BY <1>13, <2>4 DEF finish_success
    <3>2. poller[r.from].pc = "success" /\ poller[r.from] \in Chain
      BY <1>0, <1>11, <2>1, <2>2, <2>4 DEF LiveRequests, ReqIdx
    <3>3. \A q \in Poller : /\ poller'[q].job = poller[q].job
                            /\ poller'[q].max = poller[q].max
                            /\ poller'[q].count = poller[q].count
                            /\ \/ poller'[q].pc = poller[q].pc
                               \/ poller'[q].pc = "fail" /\ poller[q].pc = "success"
      BY <1>0, <2>2, <3>1, <3>2 DEF Chain
    <3>4. \A q \in Poller, j \in Job : HoldsIn(poller', q, j) =>
            /\ HoldsIn(poller, q, j)
            /\ poller'[q].max = poller[q].max /\ poller'[q].count = poller[q].count
            /\ poller'[q].pc = "run" => poller[q].pc = "run"
      BY <3>3 DEF HoldsIn
    <3>5. OneIn(poller') /\ HeldIn(poller', job)
      BY <1>0, <3>4, HoldersShrink
    <3>6. x.job = r.job
      BY DEF report
    <3>7. ReportsIn(z, poller, job) /\ z \in Seq(Request)
      BY <1>11, <2>1
    <3> HIDE DEF x, z
    <3>8. ReportsIn(z, poller', job)
      BY <3>4, <3>7, ReportsSameQueue
    <3>9. \A j \in Job : OnJob(x, j) => job[j].state = "finished"
      BY <2>4, <3>6 DEF OnJob, Unfinished
    <3>10. ReportsIn(Append(z, x), poller', job)
      BY <3>7, <3>8, <3>9, ReportsAppendOther
    <3> QED
      BY <3>1, <3>5, <3>10, HoldInvIn
  <2> QED
    BY <2>3, <2>4
<1>14. ASSUME finish_fail PROVE HoldInv'
  <2> DEFINE r == Head(reqs)
  <2>1. Len(reqs) > 0 /\ r.op = "fail" /\ reqs' = Tail(reqs) /\ poller' = answered(r, "next")
    BY <1>14 DEF finish_fail, Serve
  <2>2. r \in Request /\ r.from \in Poller /\ r.job \in Job
    BY <1>11, <2>1, RequestFields
  <2>3. \A q \in Poller : \/ poller'[q] = poller[q] /\ (q = r.from => ~r.live)
                          \/ poller'[q] = At("next")
    BY <1>0, <2>1, <2>2 DEF answered
  <2>4. \A q \in Poller, j \in Job : HoldsIn(poller', q, j) =>
          HoldsIn(poller, q, j) /\ poller'[q] = poller[q] /\ (q = r.from => ~r.live)
    BY <2>3, AtHolds DEF HoldsIn
  <2>5. CASE ~Unfinished(job[r.job])
    <3>1. job' = job
      BY <1>14, <2>5 DEF finish_fail
    <3> QED
      BY <2>1, <2>4, <3>1, HoldQuiet
  <2>6. CASE Unfinished(job[r.job])
    <3> DEFINE z == Tail(reqs)
               j == r.job
    <3>1. OnJob(reqs[1], j) /\ reqs[1] = r /\ 1 \in 1 .. Len(reqs)
      BY <1>11, <2>1 DEF OnJob, Report
    <3>2. \A k \in Job : k # j => job'[k] = job[k]
      BY <1>0, <1>14, <2>2 DEF finish_fail
    <3>3. \A q \in Poller : HoldsIn(poller, q, j) => q = r.from /\ r.live
      BY <1>0, <2>1, <2>2, <2>6, <3>1 DEF ReportsIn, Unfinished
    <3>4. \A q \in Poller : ~HoldsIn(poller', q, j)
      BY <2>2, <2>4, <3>3
    <3>5. \A i \in 1 .. Len(z) : ~OnJob(z[i], j)
      <4> SUFFICES ASSUME NEW i \in 1 .. Len(z), OnJob(z[i], j) PROVE FALSE
        OBVIOUS
      <4>1. i + 1 \in 1 .. Len(reqs) /\ z[i] = reqs[i + 1] /\ 1 < i + 1
        BY <1>0, <2>1
      <4>2. reqs[1].op = "success"
        BY <1>0, <2>2, <2>6, <3>1, <4>1 DEF ReportsIn, Unfinished
      <4> QED
        BY <2>1, <3>1, <4>2
    <3>6. ReportsIn(z, poller, job)
      BY <1>11, <2>1
    <3> HIDE DEF z, j
    <3>7. \A q \in Poller, k \in Job : HoldsIn(poller', q, k) =>
            /\ HoldsIn(poller, q, k)
            /\ poller'[q].max = poller[q].max /\ poller'[q].count = poller[q].count
            /\ poller'[q].pc = "run" => poller[q].pc = "run"
      BY <2>4
    <3>8. OneIn(poller') /\ HeldIn(poller', job')
      <4>1. \A k \in Job : \/ job'[k] = job[k]
                           \/ job'[k].state = "finished"
                           \/ \A q \in Poller : ~HoldsIn(poller', q, k)
        BY <3>2, <3>4
      <4> QED
        BY <1>0, <3>7, <4>1, HoldersShrink
    <3>9. ReportsIn(z, poller', job')
      <4>1. \A k \in Job : \/ job'[k].state \in {job[k].state, "finished"}
                           \/ job[k].state \in {"none", "pending"}
                           \/ \A i \in 1 .. Len(z) : ~OnJob(z[i], k)
        BY <3>2, <3>5
      <4>2. \A q \in Poller, k \in Job : HoldsIn(poller', q, k) =>
              \/ HoldsIn(poller, q, k) /\ (poller'[q].pc = "run" => poller[q].pc = "run")
              \/ job[k].state \in {"none", "pending"}
        BY <3>7
      <4> QED
        BY <3>6, <4>1, <4>2, ReportsSameQueue
    <3> QED
      BY <2>1, <3>8, <3>9, HoldInvIn DEF z
  <2> QED
    BY <2>5, <2>6
<1>15. ASSUME cancel \/ lose PROVE HoldInv'
  <2>1. Len(reqs) > 0 /\ reqs' = Tail(reqs) /\ poller' = poller
    BY <1>15 DEF cancel, lose, Serve
  <2>2. \A j \in Job : job'[j] = job[j] \/ job'[j].state = "finished"
    <3>1. \A row \in Row : finish_entry(row, "cancel").state = "finished"
      BY DEF Row, finish_entry
    <3> QED
      BY <1>0, <1>15, <3>1 DEF cancel, lose
  <2> QED
    BY <2>1, <2>2, HoldQuiet
<1> QED
  BY <1>1, <1>2, <1>3, <1>4, <1>5, <1>6, <1>7, <1>9, <1>10, <1>12, <1>13, <1>14, <1>15
  DEF Next, Chains, Proxy, timeout, no_answer, stop, vars

\* At most one poll chain of all nodes executes a job at a time, for any number
\* of nodes, chains, jobs, timeouts, lost requests and crashes.
THEOREM OneWorker == Spec => []OneWorkerPerJob
<1>1. Init => HoldInv
  BY DEF Init, HoldInv, OneWorkerPerJob, HeldRows, Reports, Holds, ReqIdx, Idle
<1>2. HoldInv => OneWorkerPerJob
  BY DEF HoldInv
<1>3. Init => TypeOK /\ LiveRequests
  BY InitTypes
<1> QED
  BY <1>1, <1>2, <1>3, TypeStep, LiveStep, HoldStep, PTL DEF Spec

-----------------------------------------------------------------------------
(***************************************************************************)
(* What becomes of a job, for any number of jobs, nodes, chains and        *)
(* faults: the failure block is the last thing that happens to it, a job   *)
(* that ends in "fail" was cleaned up, work is not done twice, and no row  *)
(* is left running that nobody works on.  Each has exceptions for requests *)
(* that were lost; the invariants below say how a lost or late request     *)
(* shows in the queue, the chains and the history.                         *)
(***************************************************************************)

(***************************************************************************)
(* The invariants                                                          *)
(***************************************************************************)
QueuedIn(s, op, j) == \E i \in 1 .. Len(s) : s[i].op = op /\ s[i].job = j
ReportQueued(op, j) == QueuedIn(reqs, op, j)
RunsNow(p, j) == poller[p].pc = "run" /\ poller[p].job = j

\* A chain that waits for the answer to a report has its request in the queue,
\* or the request was lost.
Answered ==
    \A p \in Poller : poller[p].pc \in Report =>
      Queued(p) \/ <<poller[p].job, poller[p].pc>> \in unreported

\* NoSilentOrphan without relying on a queued finish_success: such a request may
\* be lost without anybody noticing, but its sender follows it up.
Attended ==
    \A j \in Job : job[j].state = "running" =>
      \/ \E p \in Poller : Holds(p, j)
      \/ ReportQueued("fail", j)
      \/ j \in orphaned
      \/ <<j, "fail">> \in unreported

\* A queued finish_fail that will end the job is the report of a block whose
\* failure block ran, or it follows a finish_success that is served first or lost.
FailMeant ==
    \A j \in Job : job[j].state = "running" /\ ReportQueued("fail", j) =>
      \/ work[j].failure > 0
      \/ RetryLeft(job[j])
      \/ <<j, "success">> \in unreported
      \/ ReportQueued("success", j)

\* Work that was done, and whose report was not lost, is reported: the job is
\* finished, or the report is in the queue, and no chain is at it again.
DoneReported ==
    \A j \in Job : work[j].done > 0 /\ <<j, "success">> \notin unreported =>
      /\ work[j].done = 1
      /\ job[j].state = "finished" \/ (job[j].state = "running" /\ ReportQueued("success", j))
      /\ \A p \in Poller : ~RunsNow(p, j)

LastInv == CleanedUp /\ FailureBlockIsLast

(***************************************************************************)
(* What the changes of the queue do to the reports in it                   *)
(***************************************************************************)
LEMMA TailQueued ==
  ASSUME reqs \in Seq(Request), Len(reqs) > 0, NEW op, NEW j
  PROVE  /\ Tail(reqs) \in Seq(Request)
         /\ QueuedIn(reqs, op, j) <=> \/ QueuedIn(Tail(reqs), op, j)
                                      \/ Head(reqs).op = op /\ Head(reqs).job = j
<1> DEFINE t == Tail(reqs)
<1>1. /\ t \in Seq(Request) /\ Len(t) \in Nat /\ Len(reqs) = Len(t) + 1
      /\ \A i \in 1 .. Len(t) : i + 1 \in 1 .. Len(reqs) /\ t[i] = reqs[i + 1]
      /\ 1 \in 1 .. Len(reqs) /\ Head(reqs) = reqs[1]
  OBVIOUS
<1> HIDE DEF t
<1>2. ASSUME NEW i \in 1 .. Len(reqs), reqs[i].op = op, reqs[i].job = j, i # 1
      PROVE  QueuedIn(t, op, j)
  <2>1. i - 1 \in 1 .. Len(t) /\ (i - 1) + 1 = i
    BY <1>1, <1>2
  <2>2. t[i - 1] = reqs[i]
    BY <1>1, <2>1
  <2> QED
    BY <1>2, <2>1, <2>2 DEF QueuedIn
<1>3. QueuedIn(t, op, j) => QueuedIn(reqs, op, j)
  BY <1>1 DEF QueuedIn
<1>4. Head(reqs).op = op /\ Head(reqs).job = j => QueuedIn(reqs, op, j)
  BY <1>1 DEF QueuedIn
<1>5. QueuedIn(reqs, op, j) => QueuedIn(t, op, j) \/ (Head(reqs).op = op /\ Head(reqs).job = j)
  BY <1>1, <1>2 DEF QueuedIn
<1> QED
  BY <1>1, <1>3, <1>4, <1>5 DEF t

LEMMA AppendQueued ==
  ASSUME NEW s \in Seq(Request), NEW r, NEW op, NEW j
  PROVE  QueuedIn(Append(s, r), op, j) <=> QueuedIn(s, op, j) \/ (r.op = op /\ r.job = j)
<1> DEFINE t == Append(s, r)
<1>1. /\ Len(s) \in Nat /\ Len(t) = Len(s) + 1
      /\ \A i \in 1 .. Len(s) : t[i] = s[i]
      /\ t[Len(s) + 1] = r
  BY AppendAt
<1> HIDE DEF t
<1>2. QueuedIn(s, op, j) => QueuedIn(t, op, j)
  <2>1. \A i \in 1 .. Len(s) : i \in 1 .. Len(t)
    BY <1>1
  <2> QED
    BY <1>1, <2>1 DEF QueuedIn
<1>3. r.op = op /\ r.job = j => QueuedIn(t, op, j)
  <2>1. Len(s) + 1 \in 1 .. Len(t)
    BY <1>1
  <2> QED
    BY <1>1, <2>1 DEF QueuedIn
<1>4. QueuedIn(t, op, j) => QueuedIn(s, op, j) \/ (r.op = op /\ r.job = j)
  <2>1. \A i \in 1 .. Len(t) : i \in 1 .. Len(s) \/ i = Len(s) + 1
    BY <1>1
  <2> QED
    BY <1>1, <2>1 DEF QueuedIn
<1> QED
  BY <1>2, <1>3, <1>4 DEF t

LEMMA AbandonQueued ==
  ASSUME reqs \in Seq(Request), NEW P, NEW op, NEW j
  PROVE  /\ abandon(P) \in Seq(Request)
         /\ QueuedIn(abandon(P), op, j) <=> QueuedIn(reqs, op, j)
<1>1. /\ abandon(P) \in Seq(Request) /\ Len(abandon(P)) = Len(reqs)
      /\ \A i \in 1 .. Len(reqs) : abandon(P)[i].op = reqs[i].op /\ abandon(P)[i].job = reqs[i].job
  BY AbandonType, AbandonAt
<1> QED
  BY <1>1 DEF QueuedIn

\* Who puts a report on job j into the queue.
Reported(op, j) ==
    \/ op = "success" /\ \E p \in Poller : run_success(p) /\ poller[p].job = j
    \/ op = "fail" /\ \E p \in Poller : run_failure(p) /\ poller[p].job = j
    \/ op = "fail" /\ \E p \in Poller : /\ timeout(p) \/ no_answer(p)
                                        /\ poller[p].pc = "success" /\ poller[p].job = j
    \/ op = "fail" /\ finish_success /\ job[j].state = "finished"

\* Who takes it out: the proxy when it is served, or a restart that loses it.
Taken(op, j) ==
    /\ Len(reqs) > 0 /\ Head(reqs).op = op /\ Head(reqs).job = j
    /\ finish_success \/ finish_fail \/ lose

\* A report stays in the queue until it is taken, and comes in only by a sender.
LEMMA ReportFlow ==
  ASSUME TypeOK, [Next]_vars, NEW op \in Report, NEW j \in Job
  PROVE  /\ ReportQueued(op, j) => ReportQueued(op, j)' \/ Taken(op, j)
         /\ ReportQueued(op, j)' => ReportQueued(op, j) \/ Reported(op, j)
<1> DEFINE Before == QueuedIn(reqs, op, j)
           After == QueuedIn(reqs', op, j)
           Goal == (Before => After \/ Taken(op, j)) /\ (After => Before \/ Reported(op, j))
<1>0. reqs \in Seq(Request) /\ poller \in [Poller -> Chain]
  BY DEF TypeOK
<1>1. ASSUME UNCHANGED reqs PROVE Goal
  BY <1>1
<1>2. ASSUME NEW k \in Job, request_cancel(k) PROVE Goal
  <2>1. PICK r : reqs' = Append(reqs, r) /\ r.op = "cancel"
    BY <1>2 DEF request_cancel
  <2>2. After <=> Before
    BY <1>0, <2>1, AppendQueued DEF Report
  <2> QED
    BY <2>2
<1>3. ASSUME NEW p \in Poller, poll(p) \/ retry_pop(p), ~UNCHANGED reqs PROVE Goal
  <2>1. PICK r : reqs' = Append(reqs, r) /\ r.op = "pop"
    BY <1>3 DEF poll, retry_pop, send, report
  <2>2. After <=> Before
    BY <1>0, <2>1, AppendQueued DEF Report
  <2> QED
    BY <2>2
<1>4. ASSUME NEW p \in Poller, run_success(p) PROVE Goal
  <2>1. PICK r : reqs' = Append(reqs, r) /\ r.op = "success" /\ r.job = poller[p].job
    BY <1>4 DEF run_success, send, report
  <2>2. After <=> Before \/ (op = "success" /\ poller[p].job = j)
    BY <1>0, <2>1, AppendQueued
  <2> QED
    BY <1>4, <2>2 DEF Reported
<1>5. ASSUME NEW p \in Poller, run_failure(p) PROVE Goal
  <2>1. PICK r : reqs' = Append(reqs, r) /\ r.op = "fail" /\ r.job = poller[p].job
    BY <1>5 DEF run_failure, send, report
  <2>2. After <=> Before \/ (op = "fail" /\ poller[p].job = j)
    BY <1>0, <2>1, AppendQueued
  <2> QED
    BY <1>5, <2>2 DEF Reported
<1>6. ASSUME NEW p \in Poller, timeout(p) \/ no_answer(p) PROVE Goal
  <2>1. CASE reqs' = abandon({p})
    BY <1>0, <2>1, AbandonQueued
  <2>2. CASE poller[p].pc = "success" /\ reqs' = Append(abandon({p}), report("fail", p, poller[p].job))
    <3>1. PICK r : reqs' = Append(abandon({p}), r) /\ r.op = "fail" /\ r.job = poller[p].job
      BY <2>2 DEF report
    <3>2. abandon({p}) \in Seq(Request) /\ (QueuedIn(abandon({p}), op, j) <=> Before)
      BY <1>0, AbandonQueued
    <3>3. After <=> Before \/ (op = "fail" /\ poller[p].job = j)
      BY <3>1, <3>2, AppendQueued
    <3> QED
      BY <1>6, <2>2, <3>3 DEF Reported
  <2> QED
    BY <1>6, <2>1, <2>2 DEF timeout, no_answer, raised
<1>7. ASSUME NEW n \in Node, crash(n) PROVE Goal
  <2>1. PICK P : reqs' = abandon(P)
    BY <1>7 DEF crash
  <2> QED
    BY <1>0, <2>1, AbandonQueued
<1>8. ASSUME pop \/ cancel PROVE Goal
  <2>1. Len(reqs) > 0 /\ Head(reqs).op \notin Report /\ reqs' = Tail(reqs)
    BY <1>8 DEF pop, cancel, Serve, Report
  <2> QED
    BY <1>0, <2>1, TailQueued
<1>9. ASSUME finish_success \/ finish_fail \/ lose, reqs' = Tail(reqs) PROVE Goal
  <2>1. Len(reqs) > 0
    BY <1>9 DEF finish_success, finish_fail, lose, Serve
  <2> QED
    BY <1>0, <1>9, <2>1, TailQueued DEF Taken
<1>10. ASSUME finish_success, reqs' # Tail(reqs) PROVE Goal
  <2>1. /\ Len(reqs) > 0 /\ Head(reqs).op = "success"
        /\ job[Head(reqs).job].state = "finished"
        /\ reqs' = Append(Tail(reqs), report("fail", Head(reqs).from, Head(reqs).job))
    BY <1>10 DEF finish_success, Serve, Unfinished
  <2>2. PICK r : reqs' = Append(Tail(reqs), r) /\ r.op = "fail" /\ r.job = Head(reqs).job
    BY <2>1 DEF report
  <2>3. /\ Tail(reqs) \in Seq(Request)
        /\ Before <=> QueuedIn(Tail(reqs), op, j) \/ (Head(reqs).op = op /\ Head(reqs).job = j)
    BY <1>0, <2>1, TailQueued
  <2>4. After <=> QueuedIn(Tail(reqs), op, j) \/ (r.op = op /\ r.job = j)
    BY <2>2, <2>3, AppendQueued
  <2> QED
    BY <1>10, <2>1, <2>2, <2>3, <2>4 DEF Taken, Reported
<1> HIDE DEF Goal
<1>11. Goal
  BY <1>1, <1>2, <1>3, <1>4, <1>5, <1>6, <1>7, <1>8, <1>9, <1>10
  DEF Next, Chains, Proxy, submit, schedule, timer, stop, cancel_timers, finish_fail, lose, vars
<1> QED
  BY <1>11 DEF Goal, ReportQueued

\* A report of a chain in its block is in the queue at once.
LEMMA BlockReports ==
  ASSUME TypeOK, NEW p \in Poller, NEW j \in Job, poller[p].job = j
  PROVE  /\ run_success(p) => ReportQueued("success", j)'
         /\ run_failure(p) => ReportQueued("fail", j)'
<1>0. reqs \in Seq(Request)
  BY DEF TypeOK
<1>1. ASSUME run_success(p) PROVE QueuedIn(reqs', "success", j)
  <2>1. PICK r : reqs' = Append(reqs, r) /\ r.op = "success" /\ r.job = j
    BY <1>1 DEF run_success, send, report
  <2> QED
    BY <1>0, <2>1, AppendQueued
<1>2. ASSUME run_failure(p) PROVE QueuedIn(reqs', "fail", j)
  <2>1. PICK r : reqs' = Append(reqs, r) /\ r.op = "fail" /\ r.job = j
    BY <1>2 DEF run_failure, send, report
  <2> QED
    BY <1>0, <2>1, AppendQueued
<1> QED
  BY <1>1, <1>2 DEF ReportQueued

(***************************************************************************)
(* Which action changes a row, starts a block or ends one                  *)
(***************************************************************************)
RowActs(j) ==
    \/ job'[j] = job[j]
    \/ job[j].state = "none" /\ job'[j].state = "pending" /\ job'[j].status = "none"
    \/ /\ pop /\ job[j].state = "pending"
       /\ job'[j].state = "running" /\ job'[j].status = job[j].status
       /\ (\E p \in Poller : Holds(p, j)') \/ j \in orphaned'
    \/ Unfinished(job[j]) /\ job'[j].state = "finished" /\ job'[j].status \in {"success", "cancel"}
    \/ finish_fail /\ Head(reqs).job = j /\ Unfinished(job[j]) /\ job'[j] = failed(job[j])

\* pop finds no job, or gives job k to the chain that asked for it, or to nobody.
LEMMA PopForm ==
  ASSUME TypeOK, pop
  PROVE  /\ Head(reqs).from \in Poller
         /\ \/ UNCHANGED job /\ poller' = answered(Head(reqs), "next")
            \/ \E k \in Job :
                 /\ job[k].state = "pending"
                 /\ job' = [job EXCEPT ![k] = popped(job[k], NodeOf(Head(reqs).from))]
                 /\ \/ \E c : /\ c.pc = "run" /\ c.job = k
                              /\ poller' = [poller EXCEPT ![Head(reqs).from] = c]
                    \/ poller' = poller /\ k \in orphaned'
<1> DEFINE r == Head(reqs)
           row(k) == popped(job[k], NodeOf(r.from))
           chain(k) == [Idle EXCEPT !.pc = "run", !.job = k, !.max = row(k).max, !.count = row(k).count]
<1>1. r.from \in Poller
  <2>1. r \in Request /\ r.op = "pop"
    BY HeadTail DEF TypeOK, pop, Serve
  <2> QED
    BY <2>1, RequestFields
<1>2. CASE \A k \in Job : ~Poppable(job[k])
  BY <1>1, <1>2 DEF pop, NextJob
<1>3. CASE \E k \in Job : Poppable(job[k])
  <2>1. PICK k \in Job :
          /\ job[k].state = "pending" /\ job' = [job EXCEPT ![k] = row(k)]
          /\ \/ poller' = [poller EXCEPT ![r.from] = chain(k)]
             \/ poller' = poller /\ k \in orphaned'
    BY <1>3 DEF pop, NextJob, Poppable
  <2>2. chain(k).pc = "run" /\ chain(k).job = k
    BY DEF Idle
  <2> HIDE DEF chain
  <2> QED
    BY <1>1, <2>1, <2>2
<1> QED
  BY <1>2, <1>3

LEMMA RowActors ==
  ASSUME TypeOK, [Next]_vars, NEW j \in Job
  PROVE  RowActs(j)
<1>0. /\ job \in [Job -> Row] /\ reqs \in Seq(Request) /\ poller \in [Poller -> Chain]
      /\ job[j] \in Row
  BY DEF TypeOK
<1>1. CASE UNCHANGED job
  BY <1>1 DEF RowActs
<1>2. ASSUME NEW k \in Job, NEW max \in RetryMaxes \cup {0}, submit(k, max) PROVE RowActs(j)
  BY <1>0, <1>2 DEF submit, created, RowActs
<1>3. ASSUME pop, ~UNCHANGED job PROVE RowActs(j)
  <2> DEFINE r == Head(reqs)
             n == NodeOf(r.from)
  <2>1. r.from \in Poller
    BY <1>3, PopForm
  <2>2. PICK k \in Job :
          /\ job[k].state = "pending" /\ job' = [job EXCEPT ![k] = popped(job[k], n)]
          /\ \/ \E c : c.pc = "run" /\ c.job = k /\ poller' = [poller EXCEPT ![r.from] = c]
             \/ k \in orphaned'
    BY <1>3, PopForm
  <2>3. popped(job[k], n).state = "running" /\ popped(job[k], n).status = job[k].status
    BY DEF popped
  <2>4. CASE k = j
    <3>1. (\E p \in Poller : Holds(p, j)') \/ j \in orphaned'
      BY <1>0, <2>1, <2>2, <2>4 DEF Holds
    <3> QED
      BY <1>0, <1>3, <2>2, <2>3, <2>4, <3>1 DEF RowActs
  <2>5. CASE k # j
    BY <1>0, <2>2, <2>5 DEF RowActs
  <2> QED
    BY <2>4, <2>5
<1>4. ASSUME finish_success \/ cancel PROVE RowActs(j)
  <2> DEFINE k == Head(reqs).job
  <2>1. PICK st \in {"success", "cancel"} :
          \/ UNCHANGED job
          \/ Unfinished(job[k]) /\ job' = [job EXCEPT ![k] = finish_entry(job[k], st)]
    BY <1>4 DEF finish_success, cancel
  <2>2. finish_entry(job[j], st).state = "finished" /\ finish_entry(job[j], st).status = st
    BY <1>0 DEF finish_entry, Row
  <2> QED
    BY <1>0, <1>1, <2>1, <2>2 DEF RowActs
<1>5. ASSUME finish_fail PROVE RowActs(j)
  <2> DEFINE k == Head(reqs).job
  <2>1. \/ UNCHANGED job
        \/ Unfinished(job[k]) /\ job' = [job EXCEPT ![k] = failed(job[k])]
    BY <1>5 DEF finish_fail
  <2> QED
    BY <1>0, <1>1, <1>5, <2>1 DEF RowActs
<1> QED
  BY <1>1, <1>2, <1>3, <1>4, <1>5
  DEF Next, Chains, Proxy, request_cancel, poll, retry_pop, run_success, run_failure,
      schedule, timer, no_answer, timeout, stop, cancel_timers, crash, lose, vars

\* A block is begun only for a pending row.
LEMMA RunBegins ==
  ASSUME TypeOK, [Next]_vars, NEW p \in Poller, NEW j \in Job, RunsNow(p, j)'
  PROVE  RunsNow(p, j) \/ (job[j].state = "pending" /\ pop)
<1>0. poller \in [Poller -> Chain] /\ poller[p] \in Chain
  BY DEF TypeOK
<1>1. CASE poller'[p] = poller[p]
  BY <1>1 DEF RunsNow
<1>2. ASSUME pop, poller'[p] # poller[p] PROVE job[j].state = "pending"
  <2>1. poller'[p].pc = "run" /\ poller'[p].job = j
    BY DEF RunsNow
  <2>2. poller' # answered(Head(reqs), "next")
    BY <1>0, <1>2, <2>1 DEF answered, At, Idle
  <2>3. PICK k \in Job : /\ job[k].state = "pending"
                         /\ \E c : c.job = k /\ poller' = [poller EXCEPT ![Head(reqs).from] = c]
    BY <1>2, <2>2, PopForm
  <2>4. k = j
    BY <1>0, <1>2, <2>1, <2>3
  <2> QED
    BY <2>3, <2>4
<1>3. ASSUME NEW q \in Poller, Chains(q) \/ timeout(q), poller'[p] # poller[p]
      PROVE  poller'[p].pc # "run"
  <2>1. CASE poll(q) \/ run_success(q) \/ run_failure(q) \/ schedule(q) \/ timer(q)
    BY <1>0, <1>3, <2>1 DEF poll, run_success, run_failure, schedule, timer, At, Idle, Chain
  <2>2. CASE retry_pop(q)
    BY <1>0, <1>3, <2>2 DEF retry_pop, At, Idle, Chain
  <2>3. CASE raised(q)
    <3>1. At("next").pc = "next" /\ \A t : [At("backoff") EXCEPT !.tries = t].pc = "backoff"
      BY DEF At, Idle
    <3> QED
      BY <1>0, <1>3, <2>3, <3>1 DEF raised, Chain
  <2> QED
    BY <1>3, <2>1, <2>2, <2>3 DEF Chains, no_answer, timeout
<1>4. ASSUME NEW n \in Node, cancel_timers(n) \/ crash(n), poller'[p] # poller[p]
      PROVE  poller'[p].pc # "run"
  BY <1>0, <1>4 DEF cancel_timers, crash, Idle, Chain
<1>5. ASSUME finish_success \/ finish_fail, poller'[p] # poller[p]
      PROVE  poller'[p].pc # "run"
  BY <1>0, <1>5 DEF finish_success, finish_fail, answered, At, Idle, Chain
<1> QED
  BY <1>1, <1>2, <1>3, <1>4, <1>5
  DEF Next, Proxy, submit, request_cancel, stop, cancel, lose, vars, RunsNow

\* How often the block and the failure block of a job have run.
LEMMA WorkActs ==
  ASSUME TypeOK, [Next]_vars, NEW j \in Job
  PROVE  /\ \/ work'[j].done = work[j].done
            \/ \E p \in Poller : run_success(p) /\ RunsNow(p, j) /\ work'[j].done = work[j].done + 1
         /\ \/ work'[j].failure = work[j].failure
            \/ \E p \in Poller : /\ run_failure(p) /\ RunsNow(p, j) /\ ~retry(poller[p])
                                 /\ work'[j].failure = work[j].failure + 1
<1>0. work \in [Job -> Work] /\ poller \in [Poller -> Chain] /\ work[j] \in Work
  BY DEF TypeOK
<1>1. CASE UNCHANGED work
  BY <1>1
<1>2. ASSUME pop, ~UNCHANGED work
      PROVE  work'[j].done = work[j].done /\ work'[j].failure = work[j].failure
  <2>1. PICK k \in Job : work' = [work EXCEPT ![k].begun = @ + 1]
    BY <1>2 DEF pop
  <2> QED
    BY <1>0, <2>1 DEF Work
<1>3. ASSUME NEW p \in Poller, run_failure(p)
      PROVE  /\ work'[j].done = work[j].done
             /\ \/ work'[j].failure = work[j].failure
                \/ /\ RunsNow(p, j) /\ ~retry(poller[p])
                   /\ work'[j].failure = work[j].failure + 1
  <2>1. poller[p].job \in Job /\ poller[p].pc = "run"
    BY <1>0, <1>3, ChainTypes DEF run_failure
  <2>2. \/ UNCHANGED work
        \/ ~retry(poller[p]) /\ work' = [work EXCEPT ![poller[p].job].failure = @ + 1]
    BY <1>3 DEF run_failure
  <2> QED
    BY <1>0, <2>1, <2>2 DEF Work, RunsNow
<1>4. ASSUME NEW p \in Poller, run_success(p)
      PROVE  /\ work'[j].failure = work[j].failure
             /\ \/ work'[j].done = work[j].done
                \/ RunsNow(p, j) /\ work'[j].done = work[j].done + 1
  <2>1. poller[p].job \in Job /\ poller[p].pc = "run"
    BY <1>0, <1>4, ChainTypes DEF run_success
  <2>2. work' = [work EXCEPT ![poller[p].job].done = @ + 1]
    BY <1>4 DEF run_success
  <2> QED
    BY <1>0, <2>1, <2>2 DEF Work, RunsNow
<1> QED
  BY <1>1, <1>2, <1>3, <1>4
  DEF Next, Chains, Proxy, submit, request_cancel, poll, retry_pop, schedule, timer,
      no_answer, timeout, stop, cancel_timers, crash, finish_success, finish_fail,
      cancel, lose, vars, history

\* The history never forgets.
LEMMA HistoryGrows ==
  ASSUME [Next]_vars
  PROVE  orphaned \subseteq orphaned' /\ unreported \subseteq unreported'
  BY DEF Next, Chains, Proxy, submit, request_cancel, poll, retry_pop, run_success, run_failure,
      schedule, timer, no_answer, timeout, stop, cancel_timers, crash, pop, finish_success,
      finish_fail, cancel, lose, vars, history

(***************************************************************************)
(* Answered: a report that is waited for is in the queue or was lost       *)
(***************************************************************************)
AwaitedIn(s, p) == \E i \in 1 .. Len(s) : s[i].from = p /\ s[i].live

LEMMA AppendAwaited ==
  ASSUME NEW s \in Seq(Request), NEW r, NEW p
  PROVE  /\ AwaitedIn(s, p) => AwaitedIn(Append(s, r), p)
         /\ r.from = p /\ r.live => AwaitedIn(Append(s, r), p)
<1> DEFINE t == Append(s, r)
<1>1. /\ Len(s) \in Nat /\ Len(t) = Len(s) + 1
      /\ \A i \in 1 .. Len(s) : t[i] = s[i]
      /\ t[Len(s) + 1] = r
  BY AppendAt
<1> HIDE DEF t
<1>2. (\A i \in 1 .. Len(s) : i \in 1 .. Len(t)) /\ Len(s) + 1 \in 1 .. Len(t)
  BY <1>1
<1>3. (AwaitedIn(s, p) => AwaitedIn(t, p)) /\ (r.from = p /\ r.live => AwaitedIn(t, p))
  BY <1>1, <1>2 DEF AwaitedIn
<1> QED
  BY <1>3 DEF t

LEMMA TailAwaited ==
  ASSUME reqs \in Seq(Request), Len(reqs) > 0, NEW p, AwaitedIn(reqs, p)
  PROVE  AwaitedIn(Tail(reqs), p) \/ (Head(reqs).from = p /\ Head(reqs).live)
<1> DEFINE t == Tail(reqs)
<1>1. /\ t \in Seq(Request) /\ Len(t) \in Nat /\ Len(reqs) = Len(t) + 1
      /\ \A i \in 1 .. Len(t) : i + 1 \in 1 .. Len(reqs) /\ t[i] = reqs[i + 1]
      /\ 1 \in 1 .. Len(reqs) /\ Head(reqs) = reqs[1]
  OBVIOUS
<1> HIDE DEF t
<1>2. PICK i \in 1 .. Len(reqs) : reqs[i].from = p /\ reqs[i].live
  BY DEF AwaitedIn
<1>3. CASE i = 1
  BY <1>1, <1>2, <1>3
<1>4. CASE i # 1
  <2>1. i - 1 \in 1 .. Len(t) /\ (i - 1) + 1 = i
    BY <1>1, <1>4
  <2>2. t[i - 1] = reqs[i]
    BY <1>1, <2>1
  <2>3. AwaitedIn(t, p)
    BY <1>2, <2>1, <2>2 DEF AwaitedIn
  <2> QED
    BY <2>3 DEF t
<1> QED
  BY <1>3, <1>4

LEMMA AbandonAwaited ==
  ASSUME reqs \in Seq(Request), NEW P, NEW p, p \notin P, AwaitedIn(reqs, p)
  PROVE  AwaitedIn(abandon(P), p)
  BY AbandonAt DEF AwaitedIn

\* What a step does to a chain that waits: it gets its answer, or it makes
\* another call, or it still waits and its request is lost at most.
LEMMA CallActs ==
  ASSUME TypeOK, [Next]_vars, NEW p \in Poller, poller'[p].pc \in Report
  PROVE  \/ AwaitedIn(reqs', p)
         \/ /\ poller'[p] = poller[p]
            /\ AwaitedIn(reqs, p) => lose /\ Head(reqs).from = p /\ Head(reqs).live
<1> DEFINE Goal == \/ AwaitedIn(reqs', p)
                   \/ /\ poller'[p] = poller[p]
                      /\ AwaitedIn(reqs, p) => lose /\ Head(reqs).from = p /\ Head(reqs).live
<1>0. reqs \in Seq(Request) /\ poller \in [Poller -> Chain] /\ poller[p] \in Chain
  BY DEF TypeOK
<1>t. \A pc \in {"pop", "next", "again"} : At(pc).pc \notin Report
  BY DEF At, Idle, Report
<1>1. ASSUME UNCHANGED reqs, poller'[p] = poller[p] PROVE Goal
  BY <1>1
<1>2. ASSUME NEW r, reqs' = Append(reqs, r), poller'[p] = poller[p] PROVE Goal
  BY <1>0, <1>2, AppendAwaited
<1>3. ASSUME NEW q \in Poller, Chains(q), ~no_answer(q) PROVE Goal
  <2>1. CASE q = p
    <3>1. CASE poll(q) \/ retry_pop(q) \/ schedule(q) \/ timer(q)
      <4>1. poller'[p].pc \notin Report
        BY <1>0, <1>t, <2>1, <3>1 DEF poll, retry_pop, schedule, timer, Chain, Report
      <4> QED
        BY <4>1
    <3>2. CASE run_success(q) \/ run_failure(q)
      <4>1. PICK r : reqs' = Append(reqs, r) /\ r.from = p /\ r.live
        BY <2>1, <3>2 DEF run_success, run_failure, send, report
      <4> QED
        BY <1>0, <4>1, AppendAwaited
    <3> QED
      BY <1>3, <3>1, <3>2 DEF Chains
  <2>2. CASE q # p
    <3>1. poller'[p] = poller[p]
      BY <1>0, <1>3, <2>2 DEF Chains, poll, retry_pop, run_success, run_failure, schedule, timer
    <3>2. UNCHANGED reqs \/ \E r : reqs' = Append(reqs, r)
      BY <1>3 DEF Chains, poll, retry_pop, run_success, run_failure, schedule, timer, send
    <3> QED
      BY <1>1, <1>2, <3>1, <3>2
  <2> QED
    BY <2>1, <2>2
<1>4. ASSUME NEW q \in Poller, no_answer(q) \/ timeout(q) PROVE Goal
  <2>0. raised(q)
    BY <1>4 DEF no_answer, timeout
  <2>1. abandon({q}) \in Seq(Request)
    BY <1>0, AbandonType
  <2>2. CASE q = p
    <3>1. \A t : [At("backoff") EXCEPT !.tries = t].pc \notin Report
      BY DEF At, Idle, Report
    <3>2. reqs' = Append(abandon({q}), report("fail", p, poller[p].job))
      BY <1>0, <1>t, <2>0, <2>2, <3>1 DEF raised
    <3>3. PICK r : reqs' = Append(abandon({q}), r) /\ r.from = p /\ r.live
      BY <3>2 DEF report
    <3> QED
      BY <2>1, <3>3, AppendAwaited
  <2>3. CASE q # p
    <3>1. poller'[p] = poller[p]
      BY <1>0, <2>0, <2>3 DEF raised
    <3>2. reqs' = abandon({q}) \/ \E r : reqs' = Append(abandon({q}), r)
      BY <2>0 DEF raised
    <3>3. AwaitedIn(reqs, p) => AwaitedIn(abandon({q}), p)
      BY <1>0, <2>3, AbandonAwaited
    <3>4. AwaitedIn(abandon({q}), p) => AwaitedIn(reqs', p)
      <4>1. CASE reqs' = abandon({q})
        BY <4>1
      <4>2. ASSUME NEW r, reqs' = Append(abandon({q}), r) PROVE AwaitedIn(abandon({q}), p) => AwaitedIn(reqs', p)
        BY <2>1, <4>2, AppendAwaited
      <4> QED
        BY <3>2, <3>3, <4>1, <4>2
    <3> QED
      BY <3>1, <3>2, <3>3, <3>4
  <2> QED
    BY <2>2, <2>3
<1>5. ASSUME NEW n \in Node, crash(n) PROVE Goal
  <2>1. PICK P : /\ reqs' = abandon(P)
                 /\ poller' = [q \in Poller |-> IF q \in P THEN Idle ELSE poller[q]]
    BY <1>5 DEF crash
  <2>2. p \notin P /\ poller'[p] = poller[p]
    BY <2>1 DEF Idle, Report
  <2> QED
    BY <1>0, <2>1, <2>2, AbandonAwaited
<1>6. ASSUME NEW n \in Node, cancel_timers(n) PROVE Goal
  <2>1. poller'[p] = poller[p]
    BY <1>0, <1>6 DEF cancel_timers, Chain, Report
  <2> QED
    BY <1>1, <1>6, <2>1 DEF cancel_timers
<1>7. ASSUME NEW j \in Job, request_cancel(j) PROVE Goal
  <2>1. \E r : reqs' = Append(reqs, r)
    BY <1>7 DEF request_cancel
  <2> QED
    BY <1>2, <1>7, <2>1 DEF request_cancel
<1>8. ASSUME pop \/ cancel \/ finish_fail \/ (finish_success /\ Unfinished(job[Head(reqs).job])) PROVE Goal
  <2>1. Len(reqs) > 0 /\ reqs' = Tail(reqs)
    BY <1>8 DEF pop, cancel, finish_fail, finish_success, Serve
  <2>2. CASE poller'[p] = poller[p] /\ ~(Head(reqs).from = p /\ Head(reqs).live)
    BY <1>0, <2>1, <2>2, TailAwaited
  <2>3. CASE Head(reqs).from = p /\ Head(reqs).live
    <3>1. CASE pop
      <4>1. poller'[p].pc = "run" \/ poller'[p] = At("next")
        BY <1>0, <2>3, <3>1 DEF pop, answered, Idle
      <4> QED
        BY <1>t, <4>1 DEF Report
    <3>2. CASE finish_fail \/ finish_success
      <4>1. poller'[p] = At("next") \/ poller'[p] = At("again")
        BY <1>0, <1>8, <2>3, <3>2 DEF finish_fail, finish_success, answered, pop, cancel, Serve
      <4> QED
        BY <1>t, <4>1
    <3>3. CASE cancel
      <4>1. Head(reqs) \in Request /\ Head(reqs).op = "cancel"
        BY <1>0, <3>3, HeadTail DEF cancel, Serve
      <4> QED
        BY <2>3, <4>1, RequestFields
    <3> QED
      BY <1>8, <3>1, <3>2, <3>3
  <2>4. CASE poller'[p] # poller[p] /\ ~(Head(reqs).from = p /\ Head(reqs).live)
    <3>1. poller'[p] = poller[p]
      BY <1>0, <1>8, <2>4 DEF pop, cancel, finish_fail, finish_success, answered
    <3> QED
      BY <2>4, <3>1
  <2> QED
    BY <2>2, <2>3, <2>4
<1>9. ASSUME finish_success, ~Unfinished(job[Head(reqs).job]) PROVE Goal
  <2> DEFINE h == Head(reqs)
  <2>1. /\ Len(reqs) > 0 /\ h.op = "success"
        /\ poller' = IF h.live THEN [poller EXCEPT ![h.from].pc = "fail"] ELSE poller
        /\ reqs' = IF h.live THEN Append(Tail(reqs), report("fail", h.from, h.job)) ELSE Tail(reqs)
    BY <1>9 DEF finish_success, Serve
  <2>2. Tail(reqs) \in Seq(Request)
    BY <1>0, <2>1
  <2>3. CASE h.live /\ h.from = p
    <3>1. PICK r : reqs' = Append(Tail(reqs), r) /\ r.from = p /\ r.live
      BY <2>1, <2>3 DEF report
    <3> QED
      BY <2>2, <3>1, AppendAwaited
  <2>4. CASE ~(h.live /\ h.from = p)
    <3>1. poller'[p] = poller[p]
      BY <1>0, <2>1, <2>4
    <3>2. AwaitedIn(reqs, p) => AwaitedIn(Tail(reqs), p)
      BY <1>0, <2>1, <2>4, TailAwaited
    <3>3. reqs' = Tail(reqs) \/ \E r : reqs' = Append(Tail(reqs), r)
      BY <2>1
    <3>4. AwaitedIn(Tail(reqs), p) => AwaitedIn(reqs', p)
      <4>1. CASE reqs' = Tail(reqs)
        BY <4>1
      <4>2. ASSUME NEW r, reqs' = Append(Tail(reqs), r) PROVE AwaitedIn(Tail(reqs), p) => AwaitedIn(reqs', p)
        BY <2>2, <4>2, AppendAwaited
      <4> QED
        BY <3>2, <3>3, <4>1, <4>2
    <3> QED
      BY <3>1, <3>2, <3>3, <3>4
  <2> QED
    BY <2>3, <2>4
<1>10. ASSUME lose PROVE Goal
  <2>1. Len(reqs) > 0 /\ reqs' = Tail(reqs) /\ poller' = poller
    BY <1>10 DEF lose
  <2> QED
    BY <1>0, <1>10, <2>1, TailAwaited
<1>11. ASSUME UNCHANGED <<reqs, poller>> PROVE Goal
  BY <1>1, <1>11
<1> HIDE DEF Goal
<1>12. Goal
  BY <1>3, <1>4, <1>5, <1>6, <1>7, <1>8, <1>9, <1>10, <1>11
  DEF Next, Proxy, Chains, submit, stop, vars
<1> QED
  BY <1>12 DEF Goal

LEMMA AnsweredStep == TypeOK /\ LiveRequests /\ Answered /\ [Next]_vars => Answered'
<1> SUFFICES ASSUME TypeOK, LiveRequests, Answered, [Next]_vars, NEW p \in Poller, poller'[p].pc \in Report
             PROVE  AwaitedIn(reqs', p) \/ <<poller'[p].job, poller'[p].pc>> \in unreported'
  BY DEF Answered, Queued, AwaitedIn
<1>1. CASE AwaitedIn(reqs', p)
  BY <1>1
<1>2. CASE poller'[p] = poller[p] /\ ~AwaitedIn(reqs, p)
  BY <1>2, HistoryGrows DEF Answered, Queued, AwaitedIn
<1>3. CASE poller'[p] = poller[p] /\ lose /\ Head(reqs).from = p /\ Head(reqs).live
  <2>1. Len(reqs) > 0 /\ Head(reqs) = reqs[1] /\ 1 \in ReqIdx
    BY <1>3 DEF lose, TypeOK, ReqIdx
  <2>2. poller[p].pc = Head(reqs).op /\ poller[p].job = Head(reqs).job
    BY <1>3, <2>1 DEF LiveRequests
  <2> QED
    BY <1>3, <2>2 DEF lose
<1> QED
  BY <1>1, <1>2, <1>3, CallActs

(***************************************************************************)
(* The failure block is the last                                           *)
(***************************************************************************)
LEMMA RowFates ==
  ASSUME TypeOK, NEW j \in Job
  PROVE  /\ failed(job[j]) = IF RetryLeft(job[j]) THEN pushed_back(job[j]) ELSE finish_entry(job[j], "fail")
         /\ pushed_back(job[j]).state = "pending" /\ pushed_back(job[j]).status = job[j].status
         /\ finish_entry(job[j], "fail").state = "finished" /\ finish_entry(job[j], "fail").status = "fail"
  BY DEF TypeOK, Row, failed, pushed_back, finish_entry

\* The chain that just ran a block of job j is the one that had it, and is at
\* it no more.
LEMMA BlockEnds ==
  ASSUME TypeOK, HoldInv, NEW p \in Poller, NEW j \in Job, RunsNow(p, j),
         run_success(p) \/ run_failure(p)
  PROVE  /\ \A q \in Poller : ~RunsNow(q, j)'
         /\ UNCHANGED job
         /\ \/ job[j].state = "finished"
            \/ job[j].state = "running" /\ job[j].max = poller[p].max /\ job[j].count = poller[p].count
<1>0. poller \in [Poller -> Chain] /\ poller[p] \in Chain
  BY DEF TypeOK
<1>1. Holds(p, j)
  BY DEF Holds, RunsNow
<1>2. poller'[p].pc # "run" /\ \A q \in Poller : q # p => poller'[q] = poller[q]
  BY <1>0 DEF run_success, run_failure, Chain
<1>3. \A q \in Poller : q # p => ~RunsNow(q, j)
  BY <1>1 DEF HoldInv, OneWorkerPerJob, Holds, RunsNow
<1>4. \A q \in Poller : ~RunsNow(q, j)'
  BY <1>2, <1>3 DEF RunsNow
<1>5. UNCHANGED job
  BY DEF run_success, run_failure
<1> QED
  BY <1>1, <1>4, <1>5 DEF HoldInv, HeldRows

LEMMA LastStep ==
  TypeOK /\ TypeOK' /\ HoldInv /\ LastInv /\ [Next]_vars => LastInv'
<1> SUFFICES ASSUME TypeOK, TypeOK', HoldInv, LastInv, [Next]_vars, NEW j \in Job, work'[j].failure > 0
             PROVE  /\ job'[j].state \in {"running", "finished"}
                    /\ job'[j].state = "running" => ~RetryLeft(job'[j])
                    /\ work'[j].failure = 1
                    /\ \A p \in Poller : ~RunsNow(p, j)'
  BY DEF LastInv, CleanedUp, FailureBlockIsLast, RunsNow
<1>0. work[j].failure \in Nat /\ job[j] \in Row
  BY DEF TypeOK, Work
<1>1. CASE work'[j].failure = work[j].failure
  <2>1. /\ work[j].failure = 1 /\ job[j].state \in {"running", "finished"}
        /\ job[j].state = "running" => ~RetryLeft(job[j])
        /\ \A p \in Poller : ~RunsNow(p, j)
    BY <1>1 DEF LastInv, CleanedUp, FailureBlockIsLast, RunsNow
  <2>2. \A p \in Poller : ~RunsNow(p, j)'
    BY <2>1, RunBegins
  <2>3. /\ job'[j].state \in {"running", "finished"}
        /\ job'[j].state = "running" => ~RetryLeft(job'[j])
    BY <2>1, RowActors, RowFates DEF RowActs, Unfinished
  <2> QED
    BY <1>1, <2>1, <2>2, <2>3
<1>2. ASSUME NEW p \in Poller, run_failure(p), RunsNow(p, j), ~retry(poller[p]),
             work'[j].failure = work[j].failure + 1
      PROVE  /\ job'[j].state \in {"running", "finished"}
             /\ job'[j].state = "running" => ~RetryLeft(job'[j])
             /\ work'[j].failure = 1
             /\ \A q \in Poller : ~RunsNow(q, j)'
  <2>1. work[j].failure = 0
    BY <1>0, <1>2 DEF LastInv, FailureBlockIsLast, RunsNow
  <2>2. /\ \A q \in Poller : ~RunsNow(q, j)'
        /\ UNCHANGED job
        /\ \/ job[j].state = "finished"
           \/ job[j].state = "running" /\ job[j].max = poller[p].max /\ job[j].count = poller[p].count
    BY <1>2, BlockEnds
  <2>3. poller[p].max \in Nat /\ poller[p].count \in Nat
    BY <1>2, ChainTypes DEF TypeOK, RunsNow
  <2>4. job[j].state = "running" => ~RetryLeft(job[j])
    BY <1>2, <2>2, <2>3 DEF retry, RetryLeft
  <2> QED
    BY <1>0, <1>2, <2>1, <2>2, <2>4
<1> QED
  BY <1>1, <1>2, WorkActs

(***************************************************************************)
(* Running rows are attended to                                            *)
(***************************************************************************)
\* What a step does to a chain that holds job j.
LEMMA HolderActs ==
  ASSUME TypeOK, LiveRequests, [Next]_vars, NEW p \in Poller, NEW j \in Job, Holds(p, j)
  PROVE  \/ Holds(p, j)'
         \/ j \in orphaned'
         \/ job'[j].state # "running"
         \/ (timeout(p) \/ no_answer(p)) /\ poller[p].pc = "fail"
<1> DEFINE Goal == \/ Holds(p, j)'
                   \/ j \in orphaned'
                   \/ job'[j].state # "running"
                   \/ (timeout(p) \/ no_answer(p)) /\ poller[p].pc = "fail"
<1>0. /\ reqs \in Seq(Request) /\ poller \in [Poller -> Chain] /\ poller[p] \in Chain
      /\ job \in [Job -> Row] /\ job[j] \in Row
  BY DEF TypeOK
<1>h. poller[p].job = j /\ poller[p].pc \in {"run", "success", "fail"}
  BY DEF Holds
<1>1. ASSUME poller'[p] = poller[p] PROVE Goal
  BY <1>1 DEF Holds
<1>2. ASSUME NEW q \in Poller, Chains(q), ~no_answer(q) PROVE Goal
  <2>1. CASE q # p
    <3>1. poller'[p] = poller[p]
      BY <1>0, <1>2, <2>1 DEF Chains, poll, retry_pop, run_success, run_failure, schedule, timer
    <3> QED
      BY <1>1, <3>1
  <2>2. CASE q = p
    <3>1. run_success(p) \/ run_failure(p)
      BY <1>2, <1>h, <2>2 DEF Chains, poll, retry_pop, schedule, timer
    <3>2. Holds(p, j)'
      BY <1>0, <1>h, <3>1 DEF run_success, run_failure, Holds, Chain
    <3> QED
      BY <3>2
  <2> QED
    BY <2>1, <2>2
<1>3. ASSUME NEW q \in Poller, no_answer(q) \/ timeout(q) PROVE Goal
  <2>0. raised(q)
    BY <1>3 DEF no_answer, timeout
  <2>1. CASE q # p
    <3>1. poller'[p] = poller[p]
      BY <1>0, <2>0, <2>1 DEF raised
    <3> QED
      BY <1>1, <3>1
  <2>2. CASE q = p /\ poller[p].pc = "success"
    <3>1. Holds(p, j)'
      BY <1>0, <1>h, <2>0, <2>2 DEF raised, Holds, Chain
    <3> QED
      BY <3>1
  <2>3. CASE q = p /\ poller[p].pc # "success"
    <3>1. poller[p].pc = "fail"
      BY <1>h, <2>0, <2>3 DEF raised
    <3> QED
      BY <1>3, <2>3, <3>1
  <2> QED
    BY <2>1, <2>2, <2>3
<1>4. ASSUME NEW n \in Node, crash(n) PROVE Goal
  <2>1. CASE NodeOf(p) = n
    BY <1>4, <1>h, <2>1 DEF crash
  <2>2. CASE NodeOf(p) # n
    <3>1. poller'[p] = poller[p]
      BY <1>4, <2>2 DEF crash
    <3> QED
      BY <1>1, <3>1
  <2> QED
    BY <2>1, <2>2
<1>5. ASSUME NEW n \in Node, cancel_timers(n) PROVE Goal
  <2>1. poller'[p] = poller[p]
    BY <1>h, <1>5 DEF cancel_timers
  <2> QED
    BY <1>1, <2>1
<1>6. ASSUME pop \/ finish_success \/ finish_fail PROVE Goal
  <2> DEFINE r == Head(reqs)
  <2>a. Len(reqs) > 0
    BY <1>6 DEF pop, finish_success, finish_fail, Serve
  <2>0. r = reqs[1] /\ 1 \in ReqIdx
    BY <1>0, <2>a DEF ReqIdx
  <2>1. CASE ~(r.live /\ r.from = p)
    <3>1. poller'[p] = poller[p]
      BY <1>0, <1>6, <2>1 DEF pop, finish_success, finish_fail, answered
    <3> QED
      BY <1>1, <3>1
  <2>2. CASE r.live /\ r.from = p
    <3>1. poller[p].pc = r.op /\ poller[p].job = r.job
      BY <2>0, <2>2 DEF LiveRequests
    <3>2. r.job = j /\ ~pop
      BY <1>h, <3>1 DEF pop, Serve
    <3>3. CASE finish_success /\ Unfinished(job[j])
      <4>1. job'[j] = finish_entry(job[j], "success")
        BY <1>0, <3>2, <3>3 DEF finish_success
      <4>2. job'[j].state = "finished"
        BY <1>0, <4>1 DEF finish_entry, Row
      <4> QED
        BY <4>2
    <3>4. CASE finish_success /\ ~Unfinished(job[j])
      <4>1. job' = job /\ job[j].state = "finished"
        BY <3>2, <3>4 DEF finish_success, Unfinished
      <4> QED
        BY <4>1
    <3>5. CASE finish_fail
      <4>1. job' = IF Unfinished(job[j]) THEN [job EXCEPT ![j] = failed(@)] ELSE job
        BY <3>2, <3>5 DEF finish_fail
      <4>2. job'[j].state \in {"pending", "finished"}
        BY <1>0, <4>1, RowFates DEF Unfinished
      <4> QED
        BY <4>2
    <3> QED
      BY <1>6, <3>2, <3>3, <3>4, <3>5
  <2> QED
    BY <2>1, <2>2
<1>7. ASSUME UNCHANGED poller PROVE Goal
  BY <1>1, <1>7
<1> HIDE DEF Goal
<1>8. Goal
  BY <1>2, <1>3, <1>4, <1>5, <1>6, <1>7
  DEF Next, Proxy, Chains, submit, request_cancel, stop, cancel, lose, vars
<1> QED
  BY <1>8 DEF Goal

\* The request a chain waits for is its report.
LEMMA AwaitedIsReport ==
  ASSUME TypeOK, LiveRequests, NEW p \in Poller, Queued(p)
  PROVE  ReportQueued(poller[p].pc, poller[p].job)
  BY DEF LiveRequests, Queued, ReqIdx, ReportQueued, QueuedIn

LEMMA AttendedStep ==
  TypeOK /\ LiveRequests /\ HoldInv /\ Answered /\ Attended /\ [Next]_vars => Attended'
<1> SUFFICES ASSUME TypeOK, LiveRequests, HoldInv, Answered, Attended, [Next]_vars,
                    NEW j \in Job, job'[j].state = "running"
             PROVE  \/ \E p \in Poller : Holds(p, j)'
                    \/ ReportQueued("fail", j)'
                    \/ j \in orphaned'
                    \/ <<j, "fail">> \in unreported'
  BY DEF Attended
<1> DEFINE Goal == \/ \E p \in Poller : Holds(p, j)'
                   \/ ReportQueued("fail", j)'
                   \/ j \in orphaned'
                   \/ <<j, "fail">> \in unreported'
<1>g. "fail" \in Report
  BY DEF Report
<1>1. CASE job[j].state # "running"
  BY <1>1, RowActors, RowFates DEF RowActs
<1>2. ASSUME ReportQueued("fail", j), job[j].state = "running" PROVE Goal
  <2>1. CASE ReportQueued("fail", j)'
    BY <2>1
  <2>2. CASE Taken("fail", j)
    <3>1. ~finish_success
      BY <2>2 DEF Taken, finish_success, Serve
    <3>2. CASE lose
      BY <2>2, <3>2, <1>g DEF Taken, lose
    <3>3. CASE finish_fail
      <4>1. job' = [job EXCEPT ![j] = failed(@)]
        BY <1>2, <2>2, <3>3 DEF Taken, finish_fail, Unfinished
      <4>2. job'[j].state # "running"
        BY <4>1, RowFates DEF TypeOK
      <4> QED
        BY <4>2
    <3> QED
      BY <2>2, <3>1, <3>2, <3>3 DEF Taken
  <2> QED
    BY <1>2, <1>g, <2>1, <2>2, ReportFlow
<1>3. ASSUME NEW p \in Poller, Holds(p, j), job[j].state = "running" PROVE Goal
  <2>1. CASE (timeout(p) \/ no_answer(p)) /\ poller[p].pc = "fail"
    <3>1. CASE Queued(p)
      <4>1. ReportQueued("fail", j)
        BY <1>3, <2>1, <3>1, AwaitedIsReport DEF Holds
      <4> QED
        BY <1>2, <1>3, <4>1
    <3>2. CASE ~Queued(p)
      <4>1. <<j, "fail">> \in unreported
        BY <1>3, <1>g, <2>1, <3>2 DEF Answered, Holds
      <4> QED
        BY <4>1, HistoryGrows
    <3> QED
      BY <3>1, <3>2
  <2> QED
    BY <1>3, <2>1, HolderActs
<1>4. CASE job[j].state = "running" /\ (j \in orphaned \/ <<j, "fail">> \in unreported)
  BY <1>4, HistoryGrows
<1> HIDE DEF Goal
<1>5. job[j].state = "running" => Goal
  BY <1>2, <1>3, <1>4 DEF Attended, Goal
<1> QED
  BY <1>1, <1>5 DEF Goal

(***************************************************************************)
(* Failure reports and finished work                                       *)
(***************************************************************************)
\* Reports, in terms of what is queued: nothing before a job runs, and no
\* finish_fail is served while a finish_success of the same job is queued.
LEMMA QueuedMeansRunning ==
  ASSUME Reports, NEW j \in Job, job[j].state # "finished", NEW op \in Report, ReportQueued(op, j)
  PROVE  job[j].state = "running"
  BY DEF Reports, ReportQueued, QueuedIn, ReportOn, ReqIdx

LEMMA SuccessGoesFirst ==
  ASSUME TypeOK, Reports, NEW j \in Job, job[j].state # "finished",
         Serve("fail"), Head(reqs).job = j
  PROVE  ~ReportQueued("success", j) /\ ReportQueued("fail", j)
<1>1. Len(reqs) \in Nat /\ Len(reqs) > 0 /\ Head(reqs) = reqs[1] /\ Head(reqs).op = "fail"
  BY DEF Serve, TypeOK
<1>2. 1 \in ReqIdx /\ ReportOn(1, j)
  BY <1>1 DEF ReqIdx, ReportOn, Report
<1>3. ASSUME NEW k \in ReqIdx, reqs[k].op = "success", reqs[k].job = j PROVE FALSE
  <2>1. ReportOn(k, j) /\ 1 < k
    BY <1>1, <1>3 DEF ReportOn, Report, ReqIdx
  <2> QED
    BY <1>1, <1>2, <2>1 DEF Reports
<1> QED
  BY <1>1, <1>2, <1>3 DEF ReportQueued, QueuedIn, ReqIdx

\* A queued finish_success stays until it has finished the job or was lost.
LEMMA SuccessKept ==
  ASSUME TypeOK, [Next]_vars, NEW j \in Job, ReportQueued("success", j)
  PROVE  \/ ReportQueued("success", j)'
         \/ job'[j].state = "finished"
         \/ <<j, "success">> \in unreported'
<1>g. "success" \in Report
  BY DEF Report
<1>1. CASE Taken("success", j) /\ lose
  BY <1>1, <1>g DEF Taken, lose
<1>2. CASE Taken("success", j) /\ finish_success
  <2>0. job \in [Job -> Row] /\ job[j] \in Row
    BY DEF TypeOK
  <2>1. CASE Unfinished(job[j])
    <3>1. job' = [job EXCEPT ![j] = finish_entry(@, "success")]
      BY <1>2, <2>1 DEF Taken, finish_success
    <3> QED
      BY <2>0, <3>1 DEF finish_entry, Row
  <2>2. CASE ~Unfinished(job[j])
    BY <1>2, <2>2 DEF Taken, finish_success, Unfinished
  <2> QED
    BY <2>1, <2>2
<1>3. CASE Taken("success", j) /\ finish_fail
  BY <1>3 DEF Taken, finish_fail, Serve
<1> QED
  BY <1>g, <1>1, <1>2, <1>3, ReportFlow DEF Taken

\* A chain that reports on a job has a row that was not pushed back.
LEMMA ReporterRow ==
  ASSUME TypeOK, HoldInv, NEW p \in Poller, NEW j \in Job, poller[p].job = j,
         poller[p].pc \in {"run", "success", "fail"}, job[j].state # "finished"
  PROVE  job[j].state = "running" /\ job[j].max = poller[p].max /\ job[j].count = poller[p].count
  BY DEF HoldInv, HeldRows, Holds

\* The failure block runs when the chain sees no retry left; the row it reports
\* on has the same counters.
LEMMA FailureMeant ==
  ASSUME TypeOK, TypeOK', HoldInv, [Next]_vars, NEW p \in Poller, NEW j \in Job,
         run_failure(p), poller[p].job = j, job[j].state # "finished"
  PROVE  work'[j].failure > 0 \/ RetryLeft(job[j])
<1>1. poller[p].pc = "run" /\ poller[p].max \in Nat /\ poller[p].count \in Nat
  BY ChainTypes DEF run_failure, TypeOK
<1>2. job[j].max = poller[p].max /\ job[j].count = poller[p].count
  BY <1>1, ReporterRow
<1>3. CASE retry(poller[p])
  BY <1>1, <1>2, <1>3 DEF retry, RetryLeft
<1>4. CASE ~retry(poller[p])
  <2>1. work \in [Job -> Work] /\ work[j] \in Work
    BY DEF TypeOK
  <2>2. work' = [work EXCEPT ![j].failure = @ + 1]
    BY <1>4 DEF run_failure
  <2> QED
    BY <2>1, <2>2 DEF Work
<1> QED
  BY <1>3, <1>4

LEMMA FailMeantStep ==
  TypeOK /\ TypeOK' /\ LiveRequests /\ HoldInv /\ Answered /\ FailMeant /\ [Next]_vars => FailMeant'
<1> SUFFICES ASSUME TypeOK, TypeOK', LiveRequests, HoldInv, Answered, FailMeant, [Next]_vars,
                    NEW j \in Job, job'[j].state = "running", ReportQueued("fail", j)'
             PROVE  \/ work'[j].failure > 0
                    \/ RetryLeft(job'[j])
                    \/ <<j, "success">> \in unreported'
                    \/ ReportQueued("success", j)'
  BY DEF FailMeant
<1> DEFINE Goal == \/ work'[j].failure > 0
                   \/ RetryLeft(job'[j])
                   \/ <<j, "success">> \in unreported'
                   \/ ReportQueued("success", j)'
<1>0. "fail" \in Report /\ "success" \in Report /\ Reports
  BY DEF Report, HoldInv
<1>a. job[j].state # "finished"
  BY RowActors, RowFates DEF RowActs, Unfinished
<1>b. job[j].state = "running" => job'[j] = job[j]
  BY RowActors, RowFates DEF RowActs, Unfinished
<1>1. ASSUME ReportQueued("success", j) PROVE Goal
  BY <1>1, SuccessKept
<1>2. CASE ReportQueued("fail", j)
  <2>1. job[j].state = "running"
    BY <1>0, <1>a, <1>2, QueuedMeansRunning
  <2>2. work[j].failure > 0 => work'[j].failure > 0
    <3>1. work[j].failure \in Nat
      BY DEF TypeOK, Work
    <3> QED
      BY <3>1, WorkActs
  <2> QED
    BY <1>b, <1>1, <1>2, <2>1, <2>2, HistoryGrows DEF FailMeant
<1>3. ASSUME NEW p \in Poller, run_failure(p), poller[p].job = j PROVE Goal
  <2>1. job'[j] = job[j]
    BY <1>3 DEF run_failure
  <2> QED
    BY <1>a, <1>3, <2>1, FailureMeant
<1>4. ASSUME NEW p \in Poller, timeout(p) \/ no_answer(p), poller[p].pc = "success", poller[p].job = j PROVE Goal
  <2>1. CASE Queued(p)
    <3>1. ReportQueued("success", j)
      BY <1>4, <2>1, AwaitedIsReport
    <3> QED
      BY <1>1, <3>1
  <2>2. CASE ~Queued(p)
    <3>1. <<j, "success">> \in unreported
      BY <1>0, <1>4, <2>2 DEF Answered
    <3> QED
      BY <3>1, HistoryGrows
  <2> QED
    BY <2>1, <2>2
<1> HIDE DEF Goal
<1>5. Goal
  BY <1>0, <1>a, <1>2, <1>3, <1>4, ReportFlow DEF Reported, Goal
<1> QED
  BY <1>5 DEF Goal

LEMMA DoneStep ==
  TypeOK /\ TypeOK' /\ HoldInv /\ DoneReported /\ [Next]_vars => DoneReported'
<1> SUFFICES ASSUME TypeOK, TypeOK', HoldInv, DoneReported, [Next]_vars,
                    NEW j \in Job, work'[j].done > 0, <<j, "success">> \notin unreported'
             PROVE  /\ work'[j].done = 1
                    /\ \/ job'[j].state = "finished"
                       \/ job'[j].state = "running" /\ ReportQueued("success", j)'
                    /\ \A p \in Poller : ~RunsNow(p, j)'
  BY DEF DoneReported
<1>0. work[j].done \in Nat /\ <<j, "success">> \notin unreported /\ Reports /\ "success" \in Report
  BY HistoryGrows DEF TypeOK, Work, HoldInv, Report
<1>1. CASE work'[j].done = work[j].done
  <2>1. /\ work[j].done = 1
        /\ job[j].state = "finished" \/ (job[j].state = "running" /\ ReportQueued("success", j))
        /\ \A p \in Poller : ~RunsNow(p, j)
    BY <1>0, <1>1 DEF DoneReported
  <2>2. \A p \in Poller : ~RunsNow(p, j)'
    BY <2>1, RunBegins
  <2>3. CASE job[j].state = "finished"
    <3>1. job'[j].state = "finished"
      BY <2>3, RowActors DEF RowActs, Unfinished
    <3> QED
      BY <1>1, <2>1, <2>2, <3>1
  <2>4. CASE job[j].state = "running" /\ ReportQueued("success", j)
    <3>1. ~(finish_fail /\ Head(reqs).job = j)
      BY <1>0, <2>4, SuccessGoesFirst DEF finish_fail
    <3>2. job'[j].state \in {"running", "finished"}
      BY <2>4, <3>1, RowActors DEF RowActs
    <3>3. ReportQueued("success", j)' \/ job'[j].state = "finished"
      BY <2>4, SuccessKept
    <3> QED
      BY <1>1, <2>1, <2>2, <3>2, <3>3
  <2> QED
    BY <2>1, <2>3, <2>4
<1>2. ASSUME NEW p \in Poller, run_success(p), RunsNow(p, j), work'[j].done = work[j].done + 1
      PROVE  /\ work'[j].done = 1
             /\ \/ job'[j].state = "finished"
                \/ job'[j].state = "running" /\ ReportQueued("success", j)'
             /\ \A q \in Poller : ~RunsNow(q, j)'
  <2>1. work[j].done = 0
    BY <1>0, <1>2 DEF DoneReported
  <2>2. /\ \A q \in Poller : ~RunsNow(q, j)'
        /\ UNCHANGED job
        /\ job[j].state \in {"finished", "running"}
    BY <1>2, BlockEnds
  <2>3. ReportQueued("success", j)'
    BY <1>2, BlockReports DEF RunsNow
  <2> QED
    BY <1>2, <2>1, <2>2, <2>3
<1> QED
  BY <1>1, <1>2, WorkActs

LEMMA CleanedStep ==
  TypeOK /\ TypeOK' /\ HoldInv /\ LastInv' /\ FailMeant /\ FailedWasCleanedUp /\ [Next]_vars
    => FailedWasCleanedUp'
<1> SUFFICES ASSUME TypeOK, TypeOK', HoldInv, LastInv', FailMeant, FailedWasCleanedUp, [Next]_vars,
                    NEW j \in Job, job'[j].status = "fail"
             PROVE  work'[j].failure = 1 \/ <<j, "success">> \in unreported'
  BY DEF FailedWasCleanedUp
<1>0. work[j].failure \in Nat /\ Reports
  BY DEF TypeOK, Work, HoldInv
<1>1. work[j].failure > 0 => work'[j].failure = 1
  <2>1. work[j].failure > 0 => work'[j].failure > 0
    BY <1>0, WorkActs
  <2> QED
    BY <2>1 DEF LastInv, FailureBlockIsLast
<1>2. CASE job[j].status = "fail"
  BY <1>1, <1>2, HistoryGrows DEF FailedWasCleanedUp
<1>3. CASE job[j].status # "fail"
  <2>1. finish_fail /\ Head(reqs).job = j /\ Unfinished(job[j]) /\ ~RetryLeft(job[j])
    BY <1>3, RowActors, RowFates DEF RowActs
  <2>2. ReportQueued("fail", j) /\ ~ReportQueued("success", j)
    BY <1>0, <2>1, SuccessGoesFirst DEF finish_fail, Unfinished
  <2>3. job[j].state = "running"
    BY <1>0, <2>1, <2>2, QueuedMeansRunning DEF Unfinished, Report
  <2> QED
    BY <1>1, <2>1, <2>2, <2>3, HistoryGrows DEF FailMeant
<1> QED
  BY <1>2, <1>3

(***************************************************************************)
(* The theorems                                                            *)
(***************************************************************************)
SafetyInv ==
    /\ TypeOK /\ LiveRequests /\ HoldInv
    /\ Answered /\ Attended /\ LastInv
    /\ FailMeant /\ DoneReported /\ FailedWasCleanedUp

LEMMA SafetyInit == Init => SafetyInv
<1> SUFFICES ASSUME Init PROVE SafetyInv
  OBVIOUS
<1>1. TypeOK /\ LiveRequests
  BY InitTypes
<1>2. HoldInv
  BY DEF Init, HoldInv, OneWorkerPerJob, HeldRows, Reports, Holds, ReqIdx, Idle
<1>3. /\ \A p \in Poller : poller[p].pc \notin Report \cup {"run"}
      /\ \A j \in Job : /\ job[j].state = "none" /\ job[j].status = "none"
                        /\ work[j].done = 0 /\ work[j].failure = 0
  BY DEF Init, Idle, Report, NoRow, NoWork
<1>4. Answered /\ Attended /\ FailMeant
  BY <1>3 DEF Answered, Attended, FailMeant
<1>5. DoneReported /\ FailedWasCleanedUp
  BY <1>3 DEF DoneReported, FailedWasCleanedUp
<1>6. LastInv
  BY <1>3 DEF LastInv, CleanedUp, FailureBlockIsLast
<1> QED
  BY <1>1, <1>2, <1>4, <1>5, <1>6 DEF SafetyInv

LEMMA SafetyStep == SafetyInv /\ [Next]_vars => SafetyInv'
<1> SUFFICES ASSUME SafetyInv, [Next]_vars PROVE SafetyInv'
  OBVIOUS
<1>1. /\ TypeOK /\ LiveRequests /\ HoldInv
      /\ Answered /\ Attended /\ LastInv
      /\ FailMeant /\ DoneReported /\ FailedWasCleanedUp
  BY DEF SafetyInv
<1>2. TypeOK' /\ LiveRequests' /\ HoldInv'
  BY <1>1, TypeStep, LiveStep, HoldStep
<1>3. Answered' /\ Attended' /\ LastInv'
  BY <1>1, <1>2, AnsweredStep, AttendedStep, LastStep
<1>4. FailMeant' /\ DoneReported' /\ FailedWasCleanedUp'
  BY <1>1, <1>2, <1>3, FailMeantStep, DoneStep, CleanedStep
<1> QED
  BY <1>2, <1>3, <1>4 DEF SafetyInv

\* Once the failure block of a job ran, no chain runs the job's block again and
\* the row is never queued again: what the failure block cleaned up stays clean,
\* whatever happens to the requests that report it.
THEOREM FailureIsLast == Spec => []FailureBlockIsLast
<1>1. SafetyInv => FailureBlockIsLast
  BY DEF SafetyInv, LastInv
<1> QED
  BY <1>1, SafetyInit, SafetyStep, PTL DEF Spec

\* A row that finish_fail ends in status fail had its failure block run exactly
\* once; the one exception is a block that succeeded and whose report was lost.
THEOREM FailIsCleanedUp == Spec => []FailedWasCleanedUp
<1>1. SafetyInv => FailedWasCleanedUp
  BY DEF SafetyInv
<1> QED
  BY <1>1, SafetyInit, SafetyStep, PTL DEF Spec

\* A block that ended well is not run to its end a second time, however late its
\* finish_success is answered and although the chain sends a finish_fail after
\* the timeout, unless that finish_success never reached the collector.
THEOREM WorkDoneOnce == Spec => []DoneOnce
<1>1. SafetyInv => DoneOnce
  <2> SUFFICES ASSUME SafetyInv, NEW j \in Job, work[j].done > 1 PROVE <<j, "success">> \in unreported
    BY DEF DoneOnce
  <2>1. work[j].done \in Nat
    BY DEF SafetyInv, TypeOK, Work
  <2> QED
    BY <2>1 DEF SafetyInv, DoneReported
<1> QED
  BY <1>1, SafetyInit, SafetyStep, PTL DEF Spec

\* A row in state running is worked on or reported on, unless it was lost in one
\* of the three ways the code does not recover from: the worker crashed, the pop
\* that took it was answered to nobody, or its finish_fail was lost.
THEOREM NoOrphan == Spec => []NoSilentOrphan
<1>1. SafetyInv => NoSilentOrphan
  BY DEF SafetyInv, Attended, NoSilentOrphan, ReportQueued, QueuedIn, Report
<1> QED
  BY <1>1, SafetyInit, SafetyStep, PTL DEF Spec

-----------------------------------------------------------------------------
(***************************************************************************)
(* The job queue implements JobPromise, for any number of jobs, nodes,     *)
(* chains and faults.  Beside the invariants above the proof needs that a  *)
(* queued request tells the truth: a report of success is of a block that  *)
(* returned, and a cancel is of a row that exists.                         *)
(***************************************************************************)

(***************************************************************************)
(* Queued requests tell the truth                                          *)
(***************************************************************************)
Truthful(r, t, w) == /\ r.op = "success" => w[r.job].done > 0
                     /\ r.op = "cancel" => t[r.job].state # "none"
RequestsTrue == \A i \in ReqIdx : Truthful(reqs[i], job, work)

\* What a step adds to the queue of requests.
Fresh(r) == \/ r.op \in {"pop", "fail"}
            \/ r.op = "success" /\ work'[r.job].done > 0
            \/ r.op = "cancel" /\ job'[r.job].state # "none"
Kept(r) == \E k \in ReqIdx : r.op = reqs[k].op /\ r.job = reqs[k].job

LEMMA TailKept ==
  ASSUME reqs \in Seq(Request), Len(reqs) > 0
  PROVE  /\ Tail(reqs) \in Seq(Request)
         /\ \A i \in 1 .. Len(Tail(reqs)) : Kept(Tail(reqs)[i])
<1> DEFINE z == Tail(reqs)
<1>1. /\ z \in Seq(Request) /\ Len(z) \in Nat /\ Len(reqs) = Len(z) + 1
      /\ \A i \in 1 .. Len(z) : i + 1 \in 1 .. Len(reqs) /\ z[i] = reqs[i + 1]
  OBVIOUS
<1> HIDE DEF z
<1>2. \A i \in 1 .. Len(z) : Kept(z[i])
  BY <1>1 DEF Kept, ReqIdx
<1> QED
  BY <1>1, <1>2 DEF z

LEMMA AbandonKept ==
  ASSUME reqs \in Seq(Request), NEW P
  PROVE  /\ abandon(P) \in Seq(Request)
         /\ \A i \in 1 .. Len(abandon(P)) : Kept(abandon(P)[i])
  BY AbandonType, AbandonAt DEF Kept, ReqIdx

LEMMA AppendFresh ==
  ASSUME NEW s \in Seq(Request), NEW r, Fresh(r), \A i \in 1 .. Len(s) : Kept(s[i])
  PROVE  \A i \in 1 .. Len(Append(s, r)) : Kept(Append(s, r)[i]) \/ Fresh(Append(s, r)[i])
<1> DEFINE z == Append(s, r)
<1>1. /\ Len(s) \in Nat /\ Len(z) = Len(s) + 1
      /\ \A i \in 1 .. Len(s) : z[i] = s[i]
      /\ z[Len(s) + 1] = r
  BY AppendAt
<1> HIDE DEF z
<1>2. \A i \in 1 .. Len(z) : Kept(z[i]) \/ Fresh(z[i])
  <2> TAKE i \in 1 .. Len(z)
  <2>1. CASE i \in 1 .. Len(s)
    BY <1>1, <2>1
  <2>2. CASE i = Len(s) + 1
    BY <1>1, <2>2
  <2> QED
    BY <1>1, <2>1, <2>2
<1> QED
  BY <1>2 DEF z

LEMMA DoneGrows ==
  ASSUME TypeOK, [Next]_vars
  PROVE  /\ \A j \in Job : work[j].done > 0 => work'[j].done > 0
         /\ \/ \A j \in Job : work'[j].done = work[j].done
            \/ \E p \in Poller, k \in Job :
                 /\ poller[p].pc = "run" /\ poller[p].job = k
                 /\ work' = [work EXCEPT ![k].done = @ + 1]
                 /\ UNCHANGED job
<1>0. work \in [Job -> Work] /\ poller \in [Poller -> Chain]
  BY DEF TypeOK
<1>1. CASE UNCHANGED work
  BY <1>1
<1>2. ASSUME pop, ~UNCHANGED work PROVE \A j \in Job : work'[j].done = work[j].done
  <2>1. PICK k \in Job : work' = [work EXCEPT ![k].begun = @ + 1]
    BY <1>2 DEF pop
  <2> QED
    BY <1>0, <2>1 DEF Work
<1>3. ASSUME NEW p \in Poller, run_failure(p) PROVE \A j \in Job : work'[j].done = work[j].done
  BY <1>0, <1>3 DEF run_failure, Work
<1>4. ASSUME NEW p \in Poller, run_success(p)
      PROVE  /\ \E j \in Job : /\ poller[p].pc = "run" /\ poller[p].job = j
                               /\ work' = [work EXCEPT ![j].done = @ + 1]
                               /\ UNCHANGED job
             /\ \A j \in Job : work[j].done > 0 => work'[j].done > 0
  <2>1. poller[p].job \in Job
    BY <1>0, <1>4, ChainTypes DEF run_success
  <2>2. work' = [work EXCEPT ![poller[p].job].done = @ + 1]
    BY <1>4 DEF run_success
  <2>3. \A j \in Job : work[j].done > 0 => work'[j].done > 0
    BY <1>0, <2>1, <2>2 DEF Work
  <2> QED
    BY <1>4, <2>1, <2>2, <2>3 DEF run_success
<1> QED
  BY <1>1, <1>2, <1>3, <1>4
  DEF Next, Chains, Proxy, submit, request_cancel, poll, retry_pop, schedule, timer,
      no_answer, timeout, stop, cancel_timers, crash, finish_success, finish_fail,
      cancel, lose, vars, history

\* Every request of the next state is an old one or a true new one.
LEMMA QueueChange ==
  ASSUME TypeOK, [Next]_vars
  PROVE  \A i \in ReqIdx' : Kept(reqs'[i]) \/ Fresh(reqs'[i])
<1> DEFINE Goal == \A i \in 1 .. Len(reqs') : Kept(reqs'[i]) \/ Fresh(reqs'[i])
<1>0. /\ job \in [Job -> Row] /\ reqs \in Seq(Request)
      /\ poller \in [Poller -> Chain] /\ work \in [Job -> Work]
  BY DEF TypeOK
<1>1. \A i \in 1 .. Len(reqs) : Kept(reqs[i])
  BY DEF Kept, ReqIdx
<1>2. ASSUME UNCHANGED reqs PROVE Goal
  BY <1>1, <1>2
<1>3. ASSUME NEW op \in {"pop", "fail"}, NEW p, NEW j PROVE Fresh(report(op, p, j))
  BY DEF Fresh, report
<1>4. ASSUME NEW j \in Job, request_cancel(j) PROVE Goal
  <2> DEFINE r == [op |-> "cancel", from |-> Client, live |-> FALSE, job |-> j]
  <2>1. reqs' = Append(reqs, r) /\ job' = job /\ job[j].state # "none"
    BY <1>4 DEF request_cancel
  <2>2. Fresh(r)
    BY <2>1 DEF Fresh
  <2> HIDE DEF r
  <2> QED
    BY <1>0, <1>1, <2>1, <2>2, AppendFresh
<1>5. ASSUME NEW p \in Poller, poll(p) \/ retry_pop(p), ~UNCHANGED reqs PROVE Goal
  <2>1. reqs' = Append(reqs, report("pop", p, 0))
    BY <1>5 DEF poll, retry_pop, send
  <2> QED
    BY <1>0, <1>1, <1>3, <2>1, AppendFresh
<1>6. ASSUME NEW p \in Poller, run_failure(p) PROVE Goal
  <2>1. reqs' = Append(reqs, report("fail", p, poller[p].job))
    BY <1>6 DEF run_failure, send
  <2> QED
    BY <1>0, <1>1, <1>3, <2>1, AppendFresh
<1>7. ASSUME NEW p \in Poller, run_success(p) PROVE Goal
  <2> DEFINE j == poller[p].job
             r == report("success", p, j)
  <2>1. reqs' = Append(reqs, r) /\ work' = [work EXCEPT ![j].done = @ + 1]
    BY <1>7 DEF run_success, send
  <2>2. j \in Job
    BY <1>0, <1>7, ChainTypes DEF run_success
  <2>3. work'[j].done > 0
    BY <1>0, <2>1, <2>2 DEF Work
  <2>4. r.op = "success" /\ r.job = j
    BY DEF report
  <2> HIDE DEF r, j
  <2>5. Fresh(r)
    BY <2>3, <2>4 DEF Fresh
  <2> QED
    BY <1>0, <1>1, <2>1, <2>5, AppendFresh
<1>8. ASSUME Len(reqs) > 0, reqs' = Tail(reqs) PROVE Goal
  BY <1>0, <1>8, TailKept
<1>9. ASSUME finish_success, reqs' # Tail(reqs) PROVE Goal
  <2>1. Len(reqs) > 0 /\ reqs' = Append(Tail(reqs), report("fail", Head(reqs).from, Head(reqs).job))
    BY <1>9 DEF finish_success, Serve
  <2> QED
    BY <1>0, <1>3, <2>1, TailKept, AppendFresh
<1>10. ASSUME NEW p \in Poller, raised(p) PROVE Goal
  <2>1. \/ reqs' = abandon({p})
        \/ reqs' = Append(abandon({p}), report("fail", p, poller[p].job))
    BY <1>10 DEF raised
  <2> QED
    BY <1>0, <1>3, <2>1, AbandonKept, AppendFresh
<1>11. ASSUME NEW n \in Node, crash(n) PROVE Goal
  <2>1. reqs' = abandon({p \in Poller : NodeOf(p) = n})
    BY <1>11 DEF crash
  <2> QED
    BY <1>0, <2>1, AbandonKept
<1> HIDE DEF Goal
<1>12. Goal
  BY <1>2, <1>4, <1>5, <1>6, <1>7, <1>8, <1>9, <1>10, <1>11
  DEF Next, Chains, Proxy, submit, schedule, timer, no_answer, timeout, stop, cancel_timers,
      pop, finish_success, finish_fail, cancel, lose, Serve, vars
<1> QED
  BY <1>12 DEF ReqIdx, Goal

LEMMA RequestsTrueStep == TypeOK /\ RequestsTrue /\ [Next]_vars => RequestsTrue'
<1> SUFFICES ASSUME TypeOK, RequestsTrue, [Next]_vars, NEW i \in ReqIdx'
             PROVE  Truthful(reqs'[i], job', work')
  BY DEF RequestsTrue
<1>1. CASE Fresh(reqs'[i])
  BY <1>1 DEF Fresh, Truthful
<1>2. ASSUME Kept(reqs'[i]) PROVE Truthful(reqs'[i], job', work')
  <2>1. PICK k \in ReqIdx : reqs'[i].op = reqs[k].op /\ reqs'[i].job = reqs[k].job
    BY <1>2 DEF Kept
  <2>2. reqs[k] \in Request /\ Truthful(reqs[k], job, work)
    BY DEF RequestsTrue, TypeOK, ReqIdx
  <2>3. reqs[k].op \in {"success", "cancel"} => reqs[k].job \in Job
    BY <2>2, RequestFields
  <2>4. \A j \in Job : job[j].state # "none" => job'[j].state # "none"
    <3> TAKE j \in Job
    <3>1. job[j] \in Row /\ RowStep(j)
      BY RowChange DEF TypeOK
    <3>2. /\ \A max : created(max).state = "pending"
          /\ \A n : popped(job[j], n).state = "running"
          /\ \A st : finish_entry(job[j], st).state = "finished"
          /\ failed(job[j]).state \in {"pending", "finished"}
      BY <3>1 DEF Row, created, popped, finish_entry, failed, pushed_back
    <3> QED
      BY <3>1, <3>2 DEF RowStep
  <2> QED
    BY <2>1, <2>2, <2>3, <2>4, DoneGrows DEF Truthful
<1> QED
  BY <1>1, <1>2, QueueChange

(***************************************************************************)
(* Each step is a step of JobPromise or leaves what it sees                *)
(***************************************************************************)
Seen == <<SeenPhase, SeenOutcome, SeenTries, SeenLimit, SeenDone>>

\* A step that gives one job j a new row, and leaves the histories.
LEMMA OneRow ==
  ASSUME TypeOK, NEW j \in Job, NEW row, job' = [job EXCEPT ![j] = row],
         \A k \in Job : work'[k].done = work[k].done
  PROVE  /\ SeenPhase' = [SeenPhase EXCEPT ![j] = row.state]
         /\ SeenOutcome' = [SeenOutcome EXCEPT ![j] = row.status]
         /\ SeenTries' = [SeenTries EXCEPT ![j] = row.count]
         /\ SeenLimit' = [SeenLimit EXCEPT ![j] = row.max]
         /\ SeenDone' = SeenDone
  BY DEF TypeOK, SeenPhase, SeenOutcome, SeenTries, SeenLimit, SeenDone

\* A field that keeps its value does not change the function.
LEMMA SameField ==
  ASSUME NEW j \in Job
  PROVE  /\ [SeenPhase EXCEPT ![j] = job[j].state] = SeenPhase
         /\ [SeenOutcome EXCEPT ![j] = job[j].status] = SeenOutcome
         /\ [SeenTries EXCEPT ![j] = job[j].count] = SeenTries
         /\ [SeenLimit EXCEPT ![j] = job[j].max] = SeenLimit
         /\ SeenPhase[j] = job[j].state /\ SeenOutcome[j] = job[j].status
         /\ SeenTries[j] = job[j].count /\ SeenLimit[j] = job[j].max
         /\ j \in SeenDone <=> work[j].done > 0
  BY DEF SeenPhase, SeenOutcome, SeenTries, SeenLimit, SeenDone

LEMMA StepPromised ==
  ASSUME TypeOK, HoldInv, RowsInv, RequestsTrue, [Next]_vars
  PROVE  Promise!Next \/ UNCHANGED Seen
<1> DEFINE Goal == Promise!Next \/ UNCHANGED Seen
<1>0. /\ job \in [Job -> Row] /\ reqs \in Seq(Request)
      /\ poller \in [Poller -> Chain] /\ work \in [Job -> Work]
  BY DEF TypeOK
<1>1. ASSUME UNCHANGED job, \A j \in Job : work'[j].done = work[j].done PROVE Goal
  BY <1>1 DEF Seen, SeenPhase, SeenOutcome, SeenTries, SeenLimit, SeenDone
<1>2. ASSUME NEW j \in Job, NEW max \in RetryMaxes \cup {0}, submit(j, max) PROVE Goal
  <2> DEFINE row == created(max)
  <2>1. /\ job[j].state = "none" /\ \A k \in Job : k < j => job[k].state # "none"
        /\ job' = [job EXCEPT ![j] = row] /\ work' = work
    BY <1>2 DEF submit, history
  <2>2. job[j].status = "none" /\ job[j].count = 0
    BY <1>0, <2>1 DEF RowsInv, Counters, Valid
  <2>3. row.state = "pending" /\ row.status = "none" /\ row.count = 0 /\ row.max = max
    BY DEF created
  <2> HIDE DEF row
  <2>seen. /\ SeenPhase' = [SeenPhase EXCEPT ![j] = row.state]
        /\ SeenOutcome' = [SeenOutcome EXCEPT ![j] = row.status]
        /\ SeenTries' = [SeenTries EXCEPT ![j] = row.count]
        /\ SeenLimit' = [SeenLimit EXCEPT ![j] = row.max]
        /\ SeenDone' = SeenDone
    BY <1>2, <2>1, OneRow
  <2>4. /\ SeenPhase' = [SeenPhase EXCEPT ![j] = "pending"] /\ SeenOutcome' = SeenOutcome
        /\ SeenTries' = SeenTries /\ SeenLimit' = [SeenLimit EXCEPT ![j] = max] /\ SeenDone' = SeenDone
    BY <2>seen, <2>3, <2>2, SameField
  <2>5. SeenPhase[j] = "none" /\ \A k \in Job : k < j => SeenPhase[k] # "none"
    BY <2>1 DEF SeenPhase
  <2>6. Promise!Submit(j)
    BY <2>4, <2>5 DEF Promise!Submit
  <2> QED
    BY <2>6 DEF Promise!Next
<1>3. ASSUME pop, ~UNCHANGED job PROVE Goal
  <2> DEFINE n == NodeOf(Head(reqs).from)
  <2>1. PICK j \in Job : NextJob(j) /\ job' = [job EXCEPT ![j] = popped(job[j], n)]
    BY <1>3 DEF pop
  <2>2. \A k \in Job : work'[k].done = work[k].done
    BY <1>3, DoneGrows
  <2> DEFINE row == popped(job[j], n)
  <2>3. /\ row.state = "running" /\ row.status = job[j].status
        /\ row.count = job[j].count + 1 /\ row.max = first_max(job[j])
    BY DEF popped
  <2> HIDE DEF row
  <2>4. /\ job[j].state = "pending"
        /\ \A k \in Job : k < j => job[k].state # "pending"
    <3>1. \A k \in Job : job[k].state = "pending" => Poppable(job[k])
      BY <1>0 DEF RowsInv, Valid, Poppable
    <3> QED
      BY <2>1, <3>1 DEF NextJob, Poppable
  <2>5. row.max = IF job[j].count = 0 /\ job[j].max = 0 THEN DefaultRetryMax ELSE job[j].max
    <3>1. job[j].count \in Nat /\ (job[j].started <=> job[j].count > 0)
      BY <1>0 DEF RowsInv, Counters, Row
    <3> QED
      BY <2>3, <3>1 DEF first_max
  <2>seen. /\ SeenPhase' = [SeenPhase EXCEPT ![j] = row.state]
        /\ SeenOutcome' = [SeenOutcome EXCEPT ![j] = row.status]
        /\ SeenTries' = [SeenTries EXCEPT ![j] = row.count]
        /\ SeenLimit' = [SeenLimit EXCEPT ![j] = row.max]
        /\ SeenDone' = SeenDone
    BY <2>1, <2>2, OneRow DEF row
  <2>6. /\ SeenPhase' = [SeenPhase EXCEPT ![j] = "running"] /\ SeenOutcome' = SeenOutcome
        /\ SeenTries' = [SeenTries EXCEPT ![j] = SeenTries[j] + 1] /\ SeenDone' = SeenDone
        /\ SeenLimit' = [SeenLimit EXCEPT ![j] = row.max]
    BY <2>3, <2>seen, SameField
  <2>7. SeenPhase[j] = "pending" /\ \A k \in Job : k < j => SeenPhase[k] # "pending"
    BY <2>4 DEF SeenPhase
  <2>8. Promise!Take(j)
    BY <2>5, <2>6, <2>7, SameField DEF Promise!Take
  <2> QED
    BY <2>8 DEF Promise!Next
<1>4. ASSUME NEW p \in Poller, run_success(p) PROVE Goal
  <2> DEFINE j == poller[p].job
  <2>1. /\ poller[p].pc = "run" /\ j \in Job /\ UNCHANGED job
        /\ work' = [work EXCEPT ![j].done = @ + 1]
    BY <1>0, <1>4, ChainTypes DEF run_success
  <2>2. job[j].state \in {"running", "finished"}
    BY <2>1 DEF HoldInv, HeldRows, Holds
  <2>3. work'[j].done > 0 /\ \A k \in Job : k # j => work'[k] = work[k]
    BY <1>0, <2>1 DEF Work
  <2> HIDE DEF j
  <2>4. SeenDone' = SeenDone \cup {j}
    BY <2>1, <2>3 DEF SeenDone
  <2>5. /\ SeenPhase' = SeenPhase /\ SeenOutcome' = SeenOutcome
        /\ SeenTries' = SeenTries /\ SeenLimit' = SeenLimit
    BY <2>1 DEF SeenPhase, SeenOutcome, SeenTries, SeenLimit
  <2>6. SeenPhase[j] \in {"running", "finished"}
    BY <2>1, <2>2 DEF SeenPhase
  <2>7. Promise!Return(j)
    BY <2>4, <2>5, <2>6 DEF Promise!Return
  <2> QED
    BY <2>1, <2>7 DEF Promise!Next
<1>5. ASSUME NEW j \in Job, NEW how \in {"success", "fail", "cancel"}, Promise!MayEnd(j, how),
             job' = [job EXCEPT ![j] = finish_entry(job[j], how)],
             \A k \in Job : work'[k].done = work[k].done
      PROVE  Goal
  <2> DEFINE row == finish_entry(job[j], how)
  <2>1. /\ row.state = "finished" /\ row.status = how
        /\ row.count = job[j].count /\ row.max = job[j].max
    BY <1>0 DEF finish_entry, Row
  <2> HIDE DEF row
  <2>seen. /\ SeenPhase' = [SeenPhase EXCEPT ![j] = row.state]
        /\ SeenOutcome' = [SeenOutcome EXCEPT ![j] = row.status]
        /\ SeenTries' = [SeenTries EXCEPT ![j] = row.count]
        /\ SeenLimit' = [SeenLimit EXCEPT ![j] = row.max]
        /\ SeenDone' = SeenDone
    BY <1>5, OneRow DEF row
  <2>2. /\ SeenPhase' = [SeenPhase EXCEPT ![j] = "finished"]
        /\ SeenOutcome' = [SeenOutcome EXCEPT ![j] = how]
        /\ SeenTries' = SeenTries /\ SeenLimit' = SeenLimit /\ SeenDone' = SeenDone
    BY <2>1, <2>seen, SameField
  <2>3. Promise!End(j, how)
    BY <1>5, <2>2 DEF Promise!End
  <2> QED
    BY <2>3 DEF Promise!Next
\* The row of a queued report that is not finished is running.
<1>6. ASSUME Len(reqs) > 0, Head(reqs).op \in Report, Unfinished(job[Head(reqs).job])
      PROVE  Head(reqs).job \in Job /\ job[Head(reqs).job].state = "running"
  <2>1. 1 \in ReqIdx /\ Head(reqs) = reqs[1] /\ reqs[1] \in Request
    BY <1>0, <1>6 DEF ReqIdx
  <2>2. Head(reqs).job \in Job
    BY <1>6, <2>1, RequestFields DEF Report
  <2> QED
    BY <1>6, <2>1, <2>2 DEF HoldInv, Reports, ReportOn, Unfinished
<1>7. ASSUME finish_success, ~UNCHANGED job PROVE Goal
  <2> DEFINE j == Head(reqs).job
  <2>1. /\ Len(reqs) > 0 /\ Head(reqs).op = "success" /\ Unfinished(job[j])
        /\ job' = [job EXCEPT ![j] = finish_entry(job[j], "success")]
        /\ work' = work
    BY <1>7 DEF finish_success, Serve, history
  <2>2. j \in Job /\ job[j].state = "running"
    BY <1>6, <2>1 DEF Report
  <2>3. work[j].done > 0
    <3>1. 1 \in ReqIdx /\ Head(reqs) = reqs[1]
      BY <1>0, <2>1 DEF ReqIdx
    <3> QED
      BY <2>1, <3>1 DEF RequestsTrue, Truthful
  <2> HIDE DEF j
  <2>4. Promise!MayEnd(j, "success")
    BY <2>2, <2>3, SameField DEF Promise!MayEnd
  <2> QED
    BY <1>5, <2>1, <2>2, <2>4
<1>8. ASSUME finish_fail, ~UNCHANGED job PROVE Goal
  <2> DEFINE j == Head(reqs).job
  <2>1. /\ Len(reqs) > 0 /\ Head(reqs).op = "fail" /\ Unfinished(job[j])
        /\ job' = [job EXCEPT ![j] = failed(job[j])]
        /\ work' = work
    BY <1>8 DEF finish_fail, Serve, history
  <2>2. j \in Job /\ job[j].state = "running"
    BY <1>6, <2>1 DEF Report
  <2> HIDE DEF j
  <2>3. job[j] \in Row /\ job[j].count \in Nat /\ job[j].max \in Nat
    BY <1>0, <2>2 DEF Row
  <2>4. CASE ~RetryLeft(job[j])
    <3>1. Promise!MayEnd(j, "fail")
      BY <2>2, <2>3, <2>4, SameField DEF Promise!MayEnd, RetryLeft
    <3> QED
      BY <1>5, <2>1, <2>2, <2>4, <3>1 DEF failed
  <2>5. CASE RetryLeft(job[j])
    <3> DEFINE row == pushed_back(job[j])
    <3>1. /\ row.state = "pending" /\ row.status = job[j].status
          /\ row.count = job[j].count /\ row.max = job[j].max
      BY <2>3 DEF pushed_back, Row
    <3>2. job' = [job EXCEPT ![j] = row]
      BY <2>1, <2>5 DEF failed
    <3> HIDE DEF row
    <3>seen. /\ SeenPhase' = [SeenPhase EXCEPT ![j] = row.state]
          /\ SeenOutcome' = [SeenOutcome EXCEPT ![j] = row.status]
          /\ SeenTries' = [SeenTries EXCEPT ![j] = row.count]
          /\ SeenLimit' = [SeenLimit EXCEPT ![j] = row.max]
          /\ SeenDone' = SeenDone
      BY <2>1, <2>2, <3>2, OneRow
    <3>3. /\ SeenPhase' = [SeenPhase EXCEPT ![j] = "pending"] /\ SeenOutcome' = SeenOutcome
          /\ SeenTries' = SeenTries /\ SeenLimit' = SeenLimit /\ SeenDone' = SeenDone
      BY <2>2, <3>1, <3>seen, SameField
    <3>4. Promise!GiveBack(j)
      BY <2>2, <2>5, <3>3, SameField DEF Promise!GiveBack, RetryLeft
    <3> QED
      BY <2>2, <3>4 DEF Promise!Next
  <2> QED
    BY <2>4, <2>5
<1>9. ASSUME cancel, ~UNCHANGED job PROVE Goal
  <2> DEFINE j == Head(reqs).job
  <2>1. /\ Len(reqs) > 0 /\ Head(reqs).op = "cancel" /\ Unfinished(job[j])
        /\ job' = [job EXCEPT ![j] = finish_entry(job[j], "cancel")]
        /\ work' = work
    BY <1>9 DEF cancel, Serve, history
  <2>2. 1 \in ReqIdx /\ Head(reqs) = reqs[1] /\ reqs[1] \in Request
    BY <1>0, <2>1 DEF ReqIdx
  <2>3. j \in Job /\ job[j].state # "none"
    BY <2>1, <2>2, RequestFields DEF RequestsTrue, Truthful
  <2> HIDE DEF j
  <2>4. job[j].state \in {"pending", "running"}
    BY <1>0, <2>1, <2>3 DEF Row, Unfinished
  <2>5. Promise!MayEnd(j, "cancel")
    BY <2>3, <2>4, SameField DEF Promise!MayEnd
  <2> QED
    BY <1>5, <2>1, <2>3, <2>5
<1>10. ASSUME UNCHANGED job, \A p \in Poller : ~run_success(p) PROVE Goal
  <2>1. \A j \in Job : work'[j].done = work[j].done
    <3>1. CASE UNCHANGED work
      BY <3>1
    <3>2. ASSUME NEW p \in Poller, run_failure(p) PROVE \A j \in Job : work'[j].done = work[j].done
      BY <1>0, <3>2 DEF run_failure, Work
    <3>3. ASSUME pop PROVE \A j \in Job : work'[j].done = work[j].done
      <4>1. work' = work \/ \E k \in Job : work' = [work EXCEPT ![k].begun = @ + 1]
        BY <3>3 DEF pop
      <4> QED
        BY <1>0, <4>1 DEF Work
    <3> QED
      BY <1>10, <3>1, <3>2, <3>3
      DEF Next, Chains, Proxy, submit, request_cancel, poll, retry_pop, schedule, timer,
          no_answer, timeout, stop, cancel_timers, crash, finish_success, finish_fail,
          cancel, lose, vars, history
  <2> QED
    BY <1>1, <1>10, <2>1
<1> HIDE DEF Goal
<1>11. Goal
  BY <1>2, <1>3, <1>4, <1>7, <1>8, <1>9, <1>10
  DEF Next, Chains, Proxy, request_cancel, poll, retry_pop, run_failure, schedule, timer,
      no_answer, timeout, stop, cancel_timers, crash, lose, vars
<1> QED
  BY <1>11 DEF Goal

\* The queue keeps what JobPromise promises (Promised): for any number of jobs,
\* nodes, chains, timeouts, lost requests and crashes, each row changes only as
\* the abstract queue allows.
THEOREM Implements == Spec => Promised
<1>1. Init => Promise!Init
  BY DEF Init, NoRow, NoWork, Promise!Init, SeenPhase, SeenOutcome, SeenTries, SeenLimit, SeenDone
<1>2. Init => TypeOK /\ LiveRequests /\ HoldInv /\ RowsInv /\ RequestsTrue
  <2>1. Init => HoldInv
    BY DEF Init, HoldInv, OneWorkerPerJob, HeldRows, Reports, Holds, ReqIdx, Idle
  <2>2. Init => RowsInv
    BY JobQueueConstants
    DEF JobQueueConstants, Init, RowsInv, NoRow, NoWork, Counters, CountBound, Valid
  <2>3. Init => RequestsTrue
    BY DEF Init, RequestsTrue, ReqIdx
  <2> QED
    BY <2>1, <2>2, <2>3, InitTypes
<1>3. TypeOK /\ HoldInv /\ RowsInv /\ RequestsTrue /\ [Next]_vars => [Promise!Next]_Promise!seen
  BY StepPromised DEF Seen, Promise!seen
<1> QED
  BY <1>1, <1>2, <1>3, TypeStep, LiveStep, HoldStep, RowsInvStep, RequestsTrueStep, PTL
  DEF Spec, Promised, Promise!Spec
=============================================================================
