----------------------------- MODULE Migrations -----------------------------
(***************************************************************************)
(* run_migrations (storage/migrations/runner.py): a process that starts    *)
(* reads the version of the schema, runs the migrations above it and       *)
(* records each.  Every statement commits by itself, so a crash, or a      *)
(* second process that starts at the same time, comes between any two of   *)
(* them; nothing keeps starts apart.                                       *)
(***************************************************************************)
EXTENDS Integers, Sequences, FiniteSets

CONSTANTS Starts,     \* processes
          Plan,       \* the migrations: the statements of each version, what
                      \* they make and what they need
          MaxStarts   \* bound on the number of starts

VARIABLES objects,    \* tables, indexes and columns that there are
          applied,    \* versions that are recorded
          start,      \* where each process is
          started,    \* starts so far
          broken      \* a start that had the database to itself raised

schemaVars == <<objects, applied, start, started, broken>>

Kinds == {"create", "column"}
Statements == [kind : Kinds, makes : STRING, needs : SUBSET STRING]

Makes(v) == {Plan[v][i].makes : i \in 1..Len(Plan[v])}
Made(v, i) ==
  (UNION {Makes(w) : w \in 1..(v - 1)}) \cup {Plan[v][j].makes : j \in 1..(i - 1)}

(* A statement needs nothing that is not made before it.                   *)
ASSUME PlanOrdered ==
  /\ Plan \in Seq(Seq(Statements))
  /\ \A v \in 1..Len(Plan) : \A i \in 1..Len(Plan[v]) : Plan[v][i].needs \subseteq Made(v, i)

Off == [stage |-> "off", version |-> 0, at |-> 1, lone |-> TRUE]

SchemaInit ==
  /\ objects = {} /\ applied = {}
  /\ start = [p \in Starts |-> Off]
  /\ started = 0 /\ broken = FALSE

Running(p) == start[p].stage \notin {"off", "done"}
Go(p, r) == start' = [start EXCEPT ![p] = r]

(* The table of versions is made if there is none.                         *)
BeginStart(p) ==
  /\ ~Running(p) /\ started < MaxStarts
  /\ start' = [q \in Starts |->
       IF q = p THEN [Off EXCEPT !.stage = "version",
                                 !.lone = \A r \in Starts \ {p} : ~Running(r)]
       ELSE [start[q] EXCEPT !.lone = FALSE]]
  /\ started' = started + 1
  /\ UNCHANGED <<objects, applied, broken>>

current_version == CHOOSE v \in applied \cup {0} : \A w \in applied : w <= v

NextMigration(version) ==
  IF version = Len(Plan) THEN [Off EXCEPT !.stage = "done"]
  ELSE [Off EXCEPT !.stage = "apply", !.version = version + 1]

ReadVersion(p) ==
  /\ start[p].stage = "version"
  /\ Go(p, [NextMigration(current_version) EXCEPT !.lone = start[p].lone])
  /\ UNCHANGED <<objects, applied, started, broken>>

Statement(p) == Plan[start[p].version][start[p].at]

\* Slip: the last statement is left out.
ThroughEarly(p) == start[p].at >= Len(Plan[start[p].version])

Through(p) == start[p].at > Len(Plan[start[p].version])

Missing(what) == what \notin objects

Step(p) == Go(p, [start[p] EXCEPT !.stage = "apply", !.at = @ + 1])

Raise(p) ==
  /\ broken' = (broken \/ start[p].lone)
  /\ Go(p, Off)
  /\ UNCHANGED <<objects, applied, started>>

Make(p) ==
  /\ objects' = objects \cup {Statement(p).makes}
  /\ Step(p)
  /\ UNCHANGED <<applied, started, broken>>

(* CREATE ... IF NOT EXISTS                                                *)
Create(p) ==
  /\ start[p].stage = "apply" /\ ~Through(p) /\ Statement(p).kind = "create"
  /\ IF Missing(Statement(p).makes) /\ ~Statement(p).needs \subseteq objects
     THEN Raise(p) ELSE Make(p)

(* _add_column_if_missing: a look, and then ALTER TABLE, which raises when *)
(* the column is there by now.                                             *)
LookForColumn(p) ==
  /\ start[p].stage = "apply" /\ ~Through(p) /\ Statement(p).kind = "column"
  /\ IF Missing(Statement(p).makes) THEN Go(p, [start[p] EXCEPT !.stage = "add"]) ELSE Step(p)
  /\ UNCHANGED <<objects, applied, started, broken>>

AddColumn(p) ==
  /\ start[p].stage = "add"
  /\ IF Missing(Statement(p).makes) /\ Statement(p).needs \subseteq objects
     THEN Make(p) ELSE Raise(p)

(* The version is inserted once: a second row for it is refused.           *)
mark_applied(p) ==
  /\ start[p].stage = "apply" /\ Through(p)
  /\ IF start[p].version \in applied THEN Raise(p)
     ELSE /\ applied' = applied \cup {start[p].version}
          /\ Go(p, [NextMigration(start[p].version) EXCEPT !.lone = start[p].lone])
          /\ UNCHANGED <<objects, started, broken>>

(* The process dies, or waits for the lock of the database in vain.        *)
CrashStart(p) ==
  /\ Running(p)
  /\ Go(p, Off)
  /\ UNCHANGED <<objects, applied, started, broken>>

SchemaNext ==
  \E p \in Starts :
    \/ BeginStart(p) \/ ReadVersion(p) \/ Create(p) \/ LookForColumn(p)
    \/ AddColumn(p) \/ mark_applied(p) \/ CrashStart(p)

SchemaSpec == SchemaInit /\ [][SchemaNext]_schemaVars

----------------------------------------------------------------------------
(* Properties *)

(* Whatever crashes and starts in whatever order: a version is recorded    *)
(* only when all that it and the versions below it make is there, so that  *)
(* no later start passes over a part of a migration; and a process that    *)
(* starts by itself is never kept from starting by what others left half   *)
(* done.                                                                   *)
StartsSafe ==
  /\ ~broken
  /\ \A v \in applied : \A w \in 1..v : w \in applied /\ Makes(w) \subseteq objects
  /\ \A p \in Starts : start[p].stage = "done" => applied = 1..Len(Plan)
=============================================================================
