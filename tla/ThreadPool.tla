------------------------------ MODULE ThreadPool ------------------------------
(***************************************************************************)
(* What the trait ThreadPool (src/thread_pool/mod.rs) promises: a fixed    *)
(* number of threads, spawning that always succeeds, and jobs each of      *)
(* which is run once, by one thread.  A job may return, panic or run for   *)
(* ever; whatever it does, the thread it frees is there for the next one.  *)
(***************************************************************************)
CONSTANTS Threads, Jobs, NoJob

VARIABLES
  status, \* per job: "new", "queued", "running" or "ended"
  on      \* per thread: the job it runs, or NoJob

vars == <<status, on>>

Init ==
  /\ status = [j \in Jobs |-> "new"]
  /\ on = [t \in Threads |-> NoJob]

Spawn(j) ==
  /\ status[j] = "new"
  /\ status' = [status EXCEPT ![j] = "queued"]
  /\ UNCHANGED on

Start(t, j) ==
  /\ on[t] = NoJob
  /\ status[j] = "queued"
  /\ on' = [on EXCEPT ![t] = j]
  /\ status' = [status EXCEPT ![j] = "running"]

End(t) ==
  /\ on[t] # NoJob
  /\ on' = [on EXCEPT ![t] = NoJob]
  /\ status' = [status EXCEPT ![on[t]] = "ended"]

StartAny == \E t \in Threads, j \in Jobs : Start(t, j)

Next == StartAny \/ (\E j \in Jobs : Spawn(j)) \/ (\E t \in Threads : End(t))

Spec == Init /\ [][Next]_vars

\* As long as a thread is free and a job is queued, some job gets started: no
\* panic takes a thread away.
ThreadsStay == WF_vars(StartAny)
===============================================================================
