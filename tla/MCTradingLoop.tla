--------------------------- MODULE MCTradingLoop ---------------------------
(***************************************************************************)
(* The loops and the evaluation one of them runs: the life of the          *)
(* orchestrator's tasks, and the order an evaluation becomes under a       *)
(* regime.  They share nothing that both write, so a behaviour exercises   *)
(* one of them and leaves the other as it was.                             *)
(***************************************************************************)
EXTENDS MCGate, Orchestrator

VARIABLE part

allVars == <<part, vars, gate_vars>>

LoopInit ==
  /\ part \in {"tasks", "gate"}
  /\ Init /\ GateInit
  /\ part = "tasks" => policy = create_gated_broker(CHOOSE p \in Policies : TRUE)

LoopNext ==
  /\ UNCHANGED part
  /\ \/ part = "tasks" /\ Next /\ UNCHANGED gate_vars
     \/ part = "gate" /\ GateNext /\ UNCHANGED vars

(* Only the tasks are asked to go on: see FairSpec.                        *)
LoopSpec ==
  /\ LoopInit /\ [][LoopNext]_allVars
  /\ WF_allVars(part = "tasks" /\ stopped /\ UNCHANGED <<part, gate_vars>>)
  /\ \A t \in Tasks :
       WF_allVars(part = "tasks" /\ _loop_runner(t) /\ UNCHANGED <<part, gate_vars>>)
=============================================================================
