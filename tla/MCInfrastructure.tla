-------------------------- MODULE MCInfrastructure --------------------------
(***************************************************************************)
(* What the program stands on: the event bus, the lock in the database,    *)
(* its schema and its backups.  They share nothing that two of them write, *)
(* so a behaviour exercises one and leaves the others as they were.        *)
(***************************************************************************)
EXTENDS EventBus, InstanceLock, Migrations, SchemaVersions, Backups, TLC

CONSTANTS exact, wild, order, quiet, k1, k2, k3

VARIABLE part

\* Both subscriptions match one topic; nobody listens to the other.
MCCovers == exact :> {order} @@ wild :> {order}

\* Keys on the topic nobody listens to fill the cache cheaply.
MCMessages == {[topic |-> order, key |-> k1]} \cup
              {[topic |-> quiet, key |-> k] : k \in {NoKey, k2, k3}}

Symmetry == Permutations(Jobs)

AllInit ==
  /\ part \in {"bus", "lock", "schema", "backups"}
  /\ BusInit /\ Init /\ SchemaInit /\ BackupsInit
  /\ part # "backups" => tool = "cli" /\ compress

AllNext ==
  /\ UNCHANGED part
  /\ \/ part = "bus" /\ BusNext /\ UNCHANGED <<vars, schemaVars, backupVars>>
     \/ part = "lock" /\ Next /\ UNCHANGED <<bus_vars, schemaVars, backupVars>>
     \/ part = "schema" /\ SchemaNext /\ UNCHANGED <<bus_vars, vars, backupVars>>
     \/ part = "backups" /\ BackupsNext /\ UNCHANGED <<bus_vars, vars, schemaVars>>

allVars == <<part, bus_vars, vars, schemaVars, backupVars>>

(* Only the bus is asked to go on: see BusFairSpec.                        *)
InfrastructureSpec ==
  /\ AllInit /\ [][AllNext]_allVars
  /\ WF_allVars(/\ part = "bus" /\ UNCHANGED <<part, vars, schemaVars, backupVars>>
                /\ \/ \E t \in Tasks : Deliver(t)
                   \/ \E p \in Pubs : Gathered(p))
=============================================================================
