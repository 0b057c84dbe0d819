---------------------------- MODULE Orchestrator ----------------------------
(***************************************************************************)
(* core/application/orchestrator.py: the life cycle of the background      *)
(* loops.  Every start() creates one task per enabled loop; a task runs    *)
(* its use case, sleeps, and comes round.  The public operations are       *)
(* coroutines whose state changes all come before their first await, but   *)
(* for stop(), which waits for the tasks it cancelled.                     *)
(***************************************************************************)
EXTENDS Naturals

CONSTANTS
  Loops,      \* the enabled loops
  MaxErrors,  \* errors in a row after which a loop fails (5 in the code)
  MaxStarts   \* bound on the calls of start() that are not refused

ASSUME ConstantsOK == MaxErrors \in Nat \ {0} /\ MaxStarts \in Nat

VARIABLES
  state,        \* _state; STARTING is never seen across an await
  starts,       \* start() calls so far: spec.task is the task of the last one
  loop_state,   \* spec.state
  error_count,  \* spec.error_count
  task,         \* where the task each start() made for each loop is
  cancelling,   \* tasks cancel() was called on
  stop_call     \* the stop() that is waiting for the tasks

vars == <<state, starts, loop_state, error_count, task, cancelling, stop_call>>

Tasks == Loops \X (1..MaxStarts)
Current(l) == <<l, starts>>
Live == {"created", "asleep", "running"}
Alive(t) == task[t] \in Live

Init ==
  /\ state = "idle" /\ starts = 0
  /\ loop_state = [l \in Loops |-> "idle"]
  /\ error_count = [l \in Loops |-> 0]
  /\ task = [t \in Tasks |-> "none"]
  /\ cancelling = {}
  /\ stop_call = "none"
-----------------------------------------------------------------------------
launch ==
  /\ starts < MaxStarts
  /\ starts' = starts + 1
  /\ task' = [t \in Tasks |-> IF t[2] = starts' THEN "created" ELSE task[t]]
  /\ loop_state' = [l \in Loops |-> "running"]
  /\ state' = "running"
  /\ UNCHANGED <<error_count, cancelling, stop_call>>

\* Slip: only a running orchestrator refuses to start.
start_anew == state # "running" /\ launch

(* error_count is not reset.                                               *)
start == state \in {"idle", "stopped"} /\ launch

(* stop(), up to the gather.                                               *)
stop ==
  /\ state = "running"
  /\ state' = "stopping"
  /\ stop_call' = "gathering"
  /\ LET live == {l \in Loops : Alive(Current(l))}
     IN  /\ cancelling' = cancelling \cup {Current(l) : l \in live}
         /\ loop_state' = [l \in Loops |->
                             IF l \in live THEN "stopped" ELSE loop_state[l]]
  /\ UNCHANGED <<starts, error_count, task>>

(* In any other state stop() warns and returns: a paused orchestrator      *)
(* keeps its tasks.                                                        *)
stop_refused == state # "running" /\ UNCHANGED vars

\* Slip: stop() does not wait for the tasks.
stopped_early ==
  /\ stop_call = "gathering"
  /\ state' = "stopped" /\ stop_call' = "none"
  /\ UNCHANGED <<starts, loop_state, error_count, task, cancelling>>

(* gather() has seen every task end.                                       *)
stopped ==
  /\ stop_call = "gathering"
  /\ \A l \in Loops : ~Alive(Current(l))
  /\ state' = "stopped" /\ stop_call' = "none"
  /\ UNCHANGED <<starts, loop_state, error_count, task, cancelling>>

(* The caller of stop() is cancelled while it waits: gather() cancels what *)
(* is alive once more, STOPPING stays, and every operation refuses it.     *)
stop_cancelled ==
  /\ stop_call = "gathering"
  /\ stop_call' = "cancelled"
  /\ cancelling' = cancelling \cup {t \in Tasks : t[2] = starts /\ Alive(t)}
  /\ UNCHANGED <<state, starts, loop_state, error_count, task>>

pause ==
  /\ state = "running"
  /\ state' = "paused"
  /\ loop_state' = [l \in Loops |->
       IF loop_state[l] = "running" THEN "paused" ELSE loop_state[l]]
  /\ UNCHANGED <<starts, error_count, task, cancelling, stop_call>>

\* Slip: the loops are left paused.
resume_state ==
  /\ state = "paused"
  /\ state' = "running"
  /\ UNCHANGED <<starts, loop_state, error_count, task, cancelling, stop_call>>

\* Slip: a loop that has failed is marked as running too.
resume_all ==
  /\ state = "paused"
  /\ state' = "running"
  /\ loop_state' = [l \in Loops |-> "running"]
  /\ UNCHANGED <<starts, error_count, task, cancelling, stop_call>>

resume ==
  /\ state = "paused"
  /\ state' = "running"
  /\ loop_state' = [l \in Loops |->
       IF loop_state[l] = "paused" THEN "running" ELSE loop_state[l]]
  /\ UNCHANGED <<starts, error_count, task, cancelling, stop_call>>
-----------------------------------------------------------------------------
At(t, pcs) == task[t] \in pcs /\ t \notin cancelling
Goto(t, pc) == task' = [task EXCEPT ![t] = pc]

\* Slip: a task that has begun does not look whether it was paused.
wake_unpaused(t) ==
  /\ At(t, {"created", "asleep"})
  /\ Goto(t, IF state \notin {"running", "paused"} THEN "done"
             ELSE IF task[t] = "created" /\ state = "paused" THEN "asleep"
             ELSE "running")
  /\ UNCHANGED <<state, starts, loop_state, error_count, cancelling, stop_call>>

\* Slip: the loop ends once the orchestrator has stopped, which waits for it.
wake_until_stopped(t) ==
  /\ At(t, {"created", "asleep"})
  /\ Goto(t, IF state = "stopped" THEN "done"
             ELSE IF state = "paused" \/ loop_state[t[1]] = "paused" THEN "asleep"
             ELSE "running")
  /\ UNCHANGED <<state, starts, loop_state, error_count, cancelling, stop_call>>

(* The head of _loop_runner, on the first step and after each sleep; there *)
(* is no await between its tests and the runner.                           *)
wake(t) ==
  /\ At(t, {"created", "asleep"})
  /\ Goto(t, IF state \notin {"running", "paused"} THEN "done"
             ELSE IF state = "paused" \/ loop_state[t[1]] = "paused" THEN "asleep"
             ELSE "running")
  /\ UNCHANGED <<state, starts, loop_state, error_count, cancelling, stop_call>>

(* The use cases a runner calls are handed in.  One that is being cancelled*)
(* may return all the same, or raise another error from what it cleans up: *)
(* the cancellation is then used up, and the loop sleeps.                  *)
runner_returns(t) ==
  /\ task[t] = "running"
  /\ error_count' = [error_count EXCEPT ![t[1]] = 0]
  /\ Goto(t, "asleep")
  /\ cancelling' = cancelling \ {t}
  /\ UNCHANGED <<state, starts, loop_state, stop_call>>

(* One error too many ends the task, paused or not.                        *)
runner_raises(t) ==
  /\ task[t] = "running"
  /\ error_count' = [error_count EXCEPT ![t[1]] = @ + 1]
  /\ IF error_count'[t[1]] >= MaxErrors
     THEN loop_state' = [loop_state EXCEPT ![t[1]] = "failed"] /\ Goto(t, "done")
     ELSE Goto(t, "asleep") /\ UNCHANGED loop_state
  /\ cancelling' = cancelling \ {t}
  /\ UNCHANGED <<state, starts, stop_call>>

(* CancelledError arrives where the task waits: in the runner or asleep.   *)
unwind(t) ==
  /\ t \in cancelling /\ Alive(t)
  /\ Goto(t, "done")
  /\ UNCHANGED <<state, starts, loop_state, error_count, cancelling, stop_call>>
-----------------------------------------------------------------------------
_loop_runner(t) ==
  \/ wake(t) \/ runner_returns(t) \/ runner_raises(t) \/ unwind(t)

Next ==
  \/ start \/ stop \/ stop_refused \/ stopped \/ stop_cancelled
  \/ pause \/ resume
  \/ \E t \in Tasks : _loop_runner(t)

Spec == Init /\ [][Next]_vars

(* asyncio runs every task that can go on: sleeps end, a cancellation is   *)
(* delivered, and a runner returns or raises at last, cancelled or not.    *)
(* Nobody has to call an operation.                                        *)
FairSpec ==
  Spec /\ WF_vars(stopped) /\ \A t \in Tasks : WF_vars(_loop_runner(t))
-----------------------------------------------------------------------------
(* Types of the orchestrator's variables; a loop that failed before keeps  *)
(* its errors, so each start() can add one.                                *)
TypeOK ==
  /\ state \in {"idle", "running", "paused", "stopping", "stopped"}
  /\ starts \in 0..MaxStarts
  /\ loop_state \in [Loops -> {"idle", "running", "paused", "failed", "stopped"}]
  /\ error_count \in [Loops -> 0..(MaxErrors + MaxStarts)]
  /\ task \in [Tasks -> Live \cup {"none", "done"}]
  /\ cancelling \subseteq Tasks
  /\ stop_call \in {"none", "gathering", "cancelled"}

(* However start, stop, pause and resume follow one another, a loop never  *)
(* has two live tasks: nothing evaluates or sells twice at a time.         *)
OneTaskPerLoop ==
  \A t1, t2 \in Tasks :
    t1[1] = t2[1] /\ Alive(t1) /\ Alive(t2) => t1 = t2

(* An orchestrator that calls itself stopped has no live task.             *)
StoppedIsQuiet == state \in {"idle", "stopped"} => \A t \in Tasks : ~Alive(t)

(* status() tells the truth while it runs: a loop is shown as failed when  *)
(* its task is gone, and otherwise as running or paused like the whole,    *)
(* through failures that come while it is paused (orchestrator.py:302-320).*)
StatusTruthful ==
  state \in {"running", "paused"} => \A l \in Loops :
    loop_state[l] = IF Alive(Current(l)) THEN state ELSE "failed"

(* "keep tasks running but skip execution" (orchestrator.py:245): a paused *)
(* orchestrator begins no iteration, though one may still be going on.     *)
PauseHolds ==
  [][state = "paused" /\ state' = "paused" =>
       \A t \in Tasks : task'[t] = "running" => task[t] = "running"]_vars

(* A stop() that is not itself cancelled gets to STOPPED, though a runner  *)
(* may swallow the cancellation: its loop then sees STOPPING, after the    *)
(* next sleep, and ends (orchestrator.py:465, :527).                       *)
StopEnds == state = "stopping" ~> (state = "stopped" \/ stop_call = "cancelled")

(* A loop of a running orchestrator comes round again and again, unless it *)
(* has failed: neither errors nor pauses and resumes leave it asleep.      *)
LoopsGoOn ==
  \A l \in Loops :
    []<>(\/ state # "running" \/ loop_state[l] = "failed"
         \/ task[Current(l)] = "running")

=============================================================================
