----------------------------- MODULE JobPromise -----------------------------
(***************************************************************************)
(* What the job queue promises to those who submit jobs, without requests, *)
(* poll chains, timeouts and crashes: jobs are taken in the order they     *)
(* were submitted, a job is taken a bounded number of times, a failure     *)
(* gives it back only while it has attempts left, and it ends once, as a   *)
(* success only if its block has returned.                                 *)
(***************************************************************************)
EXTENDS Naturals

CONSTANTS Job,          \* ids, in the order of submission
          Limit,        \* the limits submitters may ask for, 0 for none
          DefaultLimit  \* the limit of a job whose submitter asked for none

VARIABLES phase,    \* job -> "none", "pending", "running" or "finished"
          outcome,  \* job -> how it ended
          tries,    \* job -> how often it was taken
          limit,    \* job -> how often it may be taken, where that is more than once
          done      \* the jobs whose block has returned in some attempt

seen == <<phase, outcome, tries, limit, done>>

Init ==
    /\ phase = [j \in Job |-> "none"] /\ outcome = [j \in Job |-> "none"]
    /\ tries = [j \in Job |-> 0] /\ limit = [j \in Job |-> 0]
    /\ done = {}

Submit(j) ==
    /\ phase[j] = "none"
    /\ \A k \in Job : k < j => phase[k] # "none"
    /\ phase' = [phase EXCEPT ![j] = "pending"]
    /\ \E max \in Limit : limit' = [limit EXCEPT ![j] = max]
    /\ UNCHANGED <<outcome, tries, done>>

Take(j) ==
    /\ phase[j] = "pending"
    /\ \A k \in Job : k < j => phase[k] # "pending"
    /\ phase' = [phase EXCEPT ![j] = "running"]
    /\ tries' = [tries EXCEPT ![j] = @ + 1]
    /\ limit' = [limit EXCEPT ![j] = IF tries[j] = 0 /\ @ = 0 THEN DefaultLimit ELSE @]
    /\ UNCHANGED <<outcome, done>>

\* The block of an attempt returns, of a job that was cancelled meanwhile too.
Return(j) ==
    /\ phase[j] \in {"running", "finished"}
    /\ done' = done \cup {j}
    /\ UNCHANGED <<phase, outcome, tries, limit>>

GiveBack(j) ==
    /\ phase[j] = "running"
    /\ tries[j] < limit[j]
    /\ phase' = [phase EXCEPT ![j] = "pending"]
    /\ UNCHANGED <<outcome, tries, limit, done>>

MayEnd(j, how) ==
    \/ how = "success" /\ phase[j] = "running" /\ j \in done
    \/ how = "fail" /\ phase[j] = "running" /\ tries[j] >= limit[j]
    \/ how = "cancel" /\ phase[j] \in {"pending", "running"}

End(j, how) ==
    /\ MayEnd(j, how)
    /\ phase' = [phase EXCEPT ![j] = "finished"]
    /\ outcome' = [outcome EXCEPT ![j] = how]
    /\ UNCHANGED <<tries, limit, done>>

Next == \E j \in Job :
          \/ Submit(j) \/ Take(j) \/ Return(j) \/ GiveBack(j)
          \/ \E how \in {"success", "fail", "cancel"} : End(j, how)

Spec == Init /\ [][Next]_seen

=============================================================================
