------------------------ MODULE InfrastructureProofs ------------------------
(***************************************************************************)
(* What core/infrastructure promises whoever runs on it.                   *)
(*                                                                         *)
(* The lock, for any number of processes, any time to live and any clock:  *)
(* TypeOK and HolderHasRow are inductive together, and two holders of one  *)
(* row are one process.                                                    *)
(*                                                                         *)
(* The schema: starts are safe for every plan of migrations in which a     *)
(* statement needs nothing that comes after it, and for any number of      *)
(* processes.                                                              *)
(*                                                                         *)
(* The event bus without fairness, for any messages, subscriptions,        *)
(* subscribers of the dead letter queue, attempts, permits and size of the *)
(* cache: a permit is free or held by a task, whoever is cancelled.  A     *)
(* task that failed has used its attempts and told everybody there was to  *)
(* tell, and the tasks of a publication are only cancelled with it.  The   *)
(* keys of the queue are those that came last, all different and all known *)
(* to the set: at first all there were, and from the first key that had to *)
(* go on one less than the size.                                           *)
(*                                                                         *)
(* Backups, for any jobs at one time and any seconds: jobs that have not   *)
(* met in a name have one each, so what a restoration has looked at is     *)
(* what it copies, and the library never writes a part of a file.          *)
(***************************************************************************)
EXTENDS InstanceLock, Migrations, Backups, EventBus, FiniteSetTheorems, TLAPS

(* The lock.                                                               *)
LockInv == TypeOK /\ HolderHasRow

\* The free table satisfies the invariant.
LEMMA LockInit == Init => LockInv
BY ConstantsOK DEF Init, LockInv, TypeOK, HolderHasRow, Believes

\* acquire(): a row is taken from nobody whose lock has not expired, and the
\* row that is found is the one the process goes by.
LEMMA AcquireInv ==
  ASSUME LockInv, NEW p \in Owners, acquire(p)
  PROVE  LockInv'
<1> USE ConstantsOK DEF LockInv, TypeOK, Row, Goto
<1>1. row' \in [owner : Owners, expire_at : Nat] /\ row'.expire_at <= now + ttl_sec
  BY DEF acquire, upsert
<1>2. TypeOK'
  BY <1>1 DEF acquire
<1>3. HolderHasRow'
  <2> SUFFICES ASSUME NEW q \in Owners, Believes(q)', now' <= granted'[q]
               PROVE  row' = Row(q, granted'[q])
    BY DEF HolderHasRow
  <2>1. CASE q = p
    BY <2>1, <1>1 DEF acquire, Believes
  <2>2. CASE q # p
    <3>1. Believes(q) /\ granted'[q] = granted[q] /\ now <= granted[q]
      BY <2>2 DEF acquire, Believes
    <3>2. row = Row(q, granted[q])
      BY <3>1 DEF HolderHasRow
    <3>3. row # NoRow /\ ~(row.expire_at < now)
      BY <3>1, <3>2
    <3> QED BY <3>1, <3>2, <3>3 DEF acquire, upsert
  <2> QED BY <2>1, <2>2
<1> QED BY <1>2, <1>3

\* renew(): the row written is the renewer's own, so nobody else's lock that
\* has not expired was in its place.
LEMMA RenewInv ==
  ASSUME LockInv, NEW p \in Owners, renew(p)
  PROVE  LockInv'
<1> USE ConstantsOK DEF LockInv, TypeOK, Row, Goto, Owns
<1>1. TypeOK'
  BY DEF renew
<1>2. HolderHasRow'
  <2> SUFFICES ASSUME NEW q \in Owners, Believes(q)', now' <= granted'[q]
               PROVE  row' = Row(q, granted'[q])
    BY DEF HolderHasRow
  <2>1. CASE q = p
    BY <2>1 DEF renew, Believes
  <2>2. CASE q # p
    <3>1. Believes(q) /\ granted'[q] = granted[q] /\ now <= granted[q]
      BY <2>2 DEF renew, Believes
    <3>2. row = Row(q, granted[q])
      BY <3>1 DEF HolderHasRow
    <3> QED BY <2>2, <3>1, <3>2 DEF renew
  <2> QED BY <2>1, <2>2
<1> QED BY <1>1, <1>2

\* release(): only the releaser's own row goes.
LEMMA ReleaseInv ==
  ASSUME LockInv, NEW p \in Owners, release(p)
  PROVE  LockInv'
<1> USE ConstantsOK DEF LockInv, TypeOK, Row, Goto, Owns
<1>1. TypeOK'
  BY DEF release
<1>2. HolderHasRow'
  <2> SUFFICES ASSUME NEW q \in Owners, Believes(q)', now' <= granted'[q]
               PROVE  row' = Row(q, granted'[q])
    BY DEF HolderHasRow
  <2>1. q # p /\ Believes(q) /\ granted'[q] = granted[q] /\ now <= granted[q]
    BY DEF release, Believes
  <2>2. row = Row(q, granted[q])
    BY <2>1 DEF HolderHasRow
  <2> QED BY <2>1, <2>2 DEF release
<1> QED BY <1>1, <1>2

\* ask(), a death and the clock change neither a row nor a grant.
LEMMA LockQuiet ==
  ASSUME LockInv,
         \/ \E p \in Owners : ask(p) \/ Die(p)
         \/ Tick
         \/ UNCHANGED vars
  PROVE  LockInv'
<1> USE ConstantsOK DEF LockInv, TypeOK, Goto
<1>1. ASSUME NEW p \in Owners, ask(p) PROVE LockInv'
  BY <1>1 DEF ask, HolderHasRow, Believes, Row
<1>2. ASSUME NEW p \in Owners, Die(p) PROVE LockInv'
  BY <1>2 DEF Die, HolderHasRow, Believes, Row
<1>3. CASE Tick
  BY <1>3 DEF Tick, HolderHasRow, Believes, Row
<1>4. CASE UNCHANGED vars
  BY <1>4 DEF vars, HolderHasRow, Believes, Row
<1> QED BY <1>1, <1>2, <1>3, <1>4
-----------------------------------------------------------------------------
\* The invariant holds in every state, whatever the constants.
THEOREM LockInductive == Spec => []LockInv
<1>1. LockInv /\ [Next]_vars => LockInv'
  BY AcquireInv, RenewInv, ReleaseInv, LockQuiet DEF Next
<1> QED BY LockInit, <1>1, PTL DEF Spec

\* Types, and expiries at most ttl_sec ahead (instance_lock.py:31, 67).
THEOREM TypeCorrect == Spec => []TypeOK
BY LockInductive, PTL DEF LockInv

\* Until its lock expires the table names the holder (instance_lock.py:44-88).
THEOREM Backed == Spec => []HolderHasRow
BY LockInductive, PTL DEF LockInv

\* No two processes with unexpired locks: one row names only one of them.
THEOREM Exclusive == Spec => []MutualExclusion
<1>1. HolderHasRow => MutualExclusion
  BY DEF HolderHasRow, MutualExclusion, Row
<1> QED BY Backed, <1>1, PTL
-----------------------------------------------------------------------------
(* The schema.                                                             *)
Working(p) == start[p].stage \in {"apply", "add"}

(* What a version below the one a process is at makes is there, recorded,  *)
(* and so is what its own version makes up to where the process is.        *)
Recorded ==
  /\ \E n \in 0..Len(Plan) : applied = 1..n
  /\ \A v \in applied : Makes(v) \subseteq objects

Position(p) ==
  /\ Working(p) =>
       /\ start[p].version \in 1..Len(Plan)
       /\ 1..(start[p].version - 1) \subseteq applied
       /\ start[p].at \in 1..(Len(Plan[start[p].version]) + 1)
       /\ \A j \in 1..(start[p].at - 1) : Plan[start[p].version][j].makes \in objects
  /\ start[p].stage = "add" => start[p].at <= Len(Plan[start[p].version])
  /\ start[p].stage = "done" => applied = 1..Len(Plan)

(* Nobody works beside a process that has had the database to itself, so   *)
(* what it found missing still is.                                         *)
Alone(p) ==
  start[p].lone /\ Running(p) =>
    /\ \A q \in Starts \ {p} : ~Running(q)
    /\ Working(p) => start[p].version \notin applied
    /\ start[p].stage = "add" => Plan[start[p].version][start[p].at].makes \notin objects

Typed ==
  /\ start \in [Starts -> [stage : {"off", "version", "apply", "add", "done"},
                           version : Nat, at : Nat, lone : BOOLEAN]]
  /\ broken = FALSE

SchemaInv == Typed /\ Recorded /\ \A p \in Starts : Position(p) /\ Alone(p)

(* The plan is a sequence of sequences of statements.                      *)
LEMMA PlanTyped ==
  /\ Len(Plan) \in Nat
  /\ \A v \in 1..Len(Plan) : Plan[v] \in Seq(Statements) /\ Len(Plan[v]) \in Nat
<1>1. Plan \in Seq(Seq(Statements))
  BY PlanOrdered
<1>2. Len(Plan) \in Nat
  BY <1>1
<1>3. ASSUME NEW v \in 1..Len(Plan) PROVE Plan[v] \in Seq(Statements)
  BY <1>1
<1>4. ASSUME NEW v \in 1..Len(Plan) PROVE Len(Plan[v]) \in Nat
  <2>1. Plan[v] \in Seq(Statements)
    BY <1>3
  <2>. QED
    BY <2>1
<1>. QED
  BY <1>2, <1>3, <1>4

(* The version read is the number of versions recorded.                    *)
LEMMA VersionRead ==
  ASSUME NEW n \in Nat, applied = 1..n
  PROVE  current_version = n
<1>1. n \in applied \cup {0} /\ \A w \in applied : w <= n
  OBVIOUS
<1>2. ASSUME NEW v \in applied \cup {0}, \A w \in applied : w <= v PROVE v = n
  BY <1>2
<1>. QED
  BY <1>1, <1>2 DEF current_version

(* A statement that is reached has what it needs.                          *)
LEMMA NeedsMet ==
  ASSUME Recorded, NEW p \in Starts, Position(p), Working(p),
         start[p].at <= Len(Plan[start[p].version])
  PROVE  Statement(p).needs \subseteq objects
<1>. DEFINE v == start[p].version
            i == start[p].at
<1>1. v \in 1..Len(Plan) /\ i \in 1..Len(Plan[v])
  BY PlanTyped DEF Position
<1>2. Plan[v][i].needs \subseteq Made(v, i)
  BY <1>1, PlanOrdered
<1>3. UNION {Makes(w) : w \in 1..(v - 1)} \subseteq objects
  BY DEF Position, Recorded
<1>4. {Plan[v][j].makes : j \in 1..(i - 1)} \subseteq objects
  BY DEF Position
<1>5. Made(v, i) \subseteq objects
  BY <1>3, <1>4 DEF Made
<1>. QED
  BY <1>2, <1>5 DEF Statement

(* Before any start nothing is recorded, and nobody works.                 *)
LEMMA SchemaStart == SchemaInit => SchemaInv
<1>. SUFFICES ASSUME SchemaInit PROVE SchemaInv
  OBVIOUS
<1>1. Typed
  BY DEF SchemaInit, Typed, Off
<1>2. Recorded
  <2>1. 0 \in 0..Len(Plan) /\ applied = 1..0
    BY PlanTyped DEF SchemaInit
  <2>. QED
    BY <2>1 DEF Recorded
<1>3. ASSUME NEW p \in Starts PROVE Position(p) /\ Alone(p)
  BY DEF SchemaInit, Off, Position, Alone, Working, Running
<1>. QED
  BY <1>1, <1>2, <1>3 DEF SchemaInv

(* Where a process goes after a version: to the first statement of the     *)
(* next, or to the end.                                                    *)
LEMMA NextMigrationSafe ==
  ASSUME NEW n \in 0..Len(Plan), NEW lone \in BOOLEAN
  PROVE  LET r == [NextMigration(n) EXCEPT !.lone = lone]
         IN  /\ r \in [stage : {"off", "version", "apply", "add", "done"},
                       version : Nat, at : Nat, lone : BOOLEAN]
             /\ r.lone = lone
             /\ \/ r.stage = "done" /\ n = Len(Plan)
                \/ r.stage = "apply" /\ r.version = n + 1 /\ n + 1 \in 1..Len(Plan) /\ r.at = 1
<1>1. CASE n = Len(Plan)
  BY <1>1, PlanTyped DEF NextMigration, Off
<1>2. CASE n # Len(Plan)
  <2>1. [NextMigration(n) EXCEPT !.lone = lone]
          = [stage |-> "apply", version |-> n + 1, at |-> 1, lone |-> lone]
    <3>1. NextMigration(n) = [Off EXCEPT !.stage = "apply", !.version = n + 1]
      BY <1>2 DEF NextMigration
    <3>2. NextMigration(n) = [stage |-> "apply", version |-> n + 1, at |-> 1, lone |-> TRUE]
      BY <3>1 DEF Off
    <3>. QED
      BY <3>2
  <2>2. n + 1 \in Nat /\ n + 1 \in 1..Len(Plan)
    BY <1>2, PlanTyped
  <2>. QED
    BY <2>1, <2>2
<1>. QED
  BY <1>1, <1>2

(* What a process knows of itself and of the others outlives a step of     *)
(* another: what is there and what is recorded only grow.                  *)
LEMMA OthersKeep ==
  ASSUME SchemaInv, Recorded', NEW q \in Starts, start'[q] = start[q],
         objects \subseteq objects', applied \subseteq applied'
  PROVE  Position(q)'
<1>1. Position(q)
  BY DEF SchemaInv
<1>2. Working(q)' <=> Working(q)
  BY DEF Working
<1>3. start[q].stage = "done" => applied' = 1..Len(Plan)
  <2>. SUFFICES ASSUME start[q].stage = "done" PROVE applied' = 1..Len(Plan)
    OBVIOUS
  <2>1. applied = 1..Len(Plan)
    BY <1>1 DEF Position
  <2>2. PICK n \in 0..Len(Plan) : applied' = 1..n
    BY DEF Recorded
  <2>3. n = Len(Plan)
    <3>1. CASE Len(Plan) = 0
      BY <3>1
    <3>2. CASE Len(Plan) # 0
      <4>1. Len(Plan) \in 1..n
        BY <2>1, <2>2, <3>2, PlanTyped
      <4>. QED
        BY <4>1, PlanTyped
    <3>. QED
      BY <3>1, <3>2
  <2>. QED
    BY <2>2, <2>3
<1>. QED
  BY <1>1, <1>2, <1>3 DEF Position, Working

(* A process that does not move keeps its invariant beside one that does:  *)
(* it has not the database to itself.                                      *)
LEMMA Others ==
  ASSUME SchemaInv, Recorded', NEW p \in Starts, Running(p), NEW q \in Starts \ {p},
         start'[q] = start[q], objects \subseteq objects', applied \subseteq applied'
  PROVE  Position(q)' /\ Alone(q)'
<1>1. Position(q)'
  BY OthersKeep
<1>2. Alone(q)
  BY DEF SchemaInv
<1>3. ~(start[q].lone /\ Running(q))
  BY <1>2 DEF Alone
<1>4. Alone(q)'
  BY <1>3 DEF Alone, Running
<1>. QED
  BY <1>1, <1>4

(* A process that raises or dies is off; it may raise only if it has not   *)
(* had the database to itself.                                             *)
LEMMA OffSafe ==
  ASSUME SchemaInv, NEW p \in Starts, Running(p), Go(p, Off), broken' = FALSE,
         UNCHANGED <<objects, applied>>
  PROVE  SchemaInv'
<1>1. Typed'
  BY DEF SchemaInv, Typed, Go, Off
<1>2. Recorded'
  BY DEF SchemaInv, Recorded
<1>3. start'[p].stage = "off" /\ \A q \in Starts \ {p} : start'[q] = start[q]
  BY DEF SchemaInv, Typed, Go, Off
<1>4. Position(p)' /\ Alone(p)'
  BY <1>3 DEF Position, Alone, Working, Running
<1>5. ASSUME NEW q \in Starts \ {p} PROVE Position(q)' /\ Alone(q)'
  BY <1>2, <1>3, Others
<1>. QED
  BY <1>1, <1>2, <1>4, <1>5 DEF SchemaInv

(* A statement that leaves behind what it makes takes a process on to the  *)
(* next one.                                                               *)
LEMMA StepSafe ==
  ASSUME SchemaInv, NEW p \in Starts, Working(p), start[p].at <= Len(Plan[start[p].version]),
         Step(p), objects \subseteq objects', Statement(p).makes \in objects',
         UNCHANGED <<applied, broken>>
  PROVE  SchemaInv'
<1>. DEFINE v == start[p].version
            i == start[p].at
<1>1. /\ start[p] \in [stage : {"off", "version", "apply", "add", "done"},
                        version : Nat, at : Nat, lone : BOOLEAN]
      /\ start'[p] = [stage |-> "apply", version |-> v, at |-> i + 1, lone |-> start[p].lone]
      /\ \A q \in Starts \ {p} : start'[q] = start[q]
      /\ start' = [start EXCEPT ![p] = start'[p]]
  BY DEF SchemaInv, Typed, Step, Go
<1>2. Typed'
  BY <1>1 DEF SchemaInv, Typed
<1>3. Recorded'
  BY DEF SchemaInv, Recorded
<1>4. Position(p) /\ Alone(p) /\ Running(p)
  BY DEF SchemaInv, Working, Running
<1>5. Position(p)'
  <2>1. v \in 1..Len(Plan) /\ i \in 1..Len(Plan[v]) /\ Len(Plan[v]) \in Nat
    BY <1>4, PlanTyped DEF Position
  <2>2. i + 1 \in 1..(Len(Plan[v]) + 1)
    BY <2>1
  <2>3. \A j \in 1..((i + 1) - 1) : Plan[v][j].makes \in objects'
    BY <1>4, <2>1 DEF Position, Statement
  <2>4. 1..(v - 1) \subseteq applied'
    BY <1>4 DEF Position
  <2>. QED
    BY <1>1, <2>1, <2>2, <2>3, <2>4 DEF Position, Working
<1>6. Alone(p)'
  BY <1>1, <1>4 DEF Alone, Running, Working
<1>7. ASSUME NEW q \in Starts \ {p} PROVE Position(q)' /\ Alone(q)'
  BY <1>1, <1>3, <1>4, Others
<1>. QED
  BY <1>2, <1>3, <1>5, <1>6, <1>7 DEF SchemaInv

(* A process that has just read or recorded n versions goes on to the one  *)
(* after them.                                                             *)
LEMMA VersionSafe ==
  ASSUME SchemaInv, NEW p \in Starts, Running(p), Recorded', NEW n \in 0..Len(Plan),
         1..n \subseteq applied', n + 1 \notin applied' \/ ~start[p].lone,
         n = Len(Plan) => applied' = 1..n,
         Go(p, [NextMigration(n) EXCEPT !.lone = start[p].lone]),
         applied \subseteq applied', UNCHANGED <<objects, broken>>
  PROVE  SchemaInv'
<1>. DEFINE r == [NextMigration(n) EXCEPT !.lone = start[p].lone]
<1>1. start[p].lone \in BOOLEAN
  BY DEF SchemaInv, Typed
<1>2. /\ r \in [stage : {"off", "version", "apply", "add", "done"},
                 version : Nat, at : Nat, lone : BOOLEAN]
      /\ r.lone = start[p].lone
      /\ \/ r.stage = "done" /\ n = Len(Plan)
         \/ r.stage = "apply" /\ r.version = n + 1 /\ n + 1 \in 1..Len(Plan) /\ r.at = 1
  BY <1>1, NextMigrationSafe
<1>. HIDE DEF r
<1>3. start' = [start EXCEPT ![p] = r]
  BY DEF Go, r
<1>4. start'[p] = r /\ \A q \in Starts \ {p} : start'[q] = start[q]
  BY <1>3 DEF SchemaInv, Typed
<1>5. Typed'
  BY <1>2, <1>3 DEF SchemaInv, Typed
<1>6. Position(p)'
  <2>1. CASE r.stage = "done"
    BY <1>2, <1>4, <2>1 DEF Position, Working
  <2>2. CASE r.stage = "apply"
    <3>1. 1..(r.version - 1) \subseteq applied'
      BY <1>2, <2>2
    <3>2. r.at \in 1..(Len(Plan[r.version]) + 1) /\ 1..(r.at - 1) = {}
      BY <1>2, <2>2, PlanTyped
    <3>. QED
      BY <1>2, <1>4, <2>2, <3>1, <3>2 DEF Position, Working
  <2>. QED
    BY <1>2, <2>1, <2>2
<1>7. Alone(p)'
  <2>1. Alone(p)
    BY DEF SchemaInv
  <2>. QED
    BY <1>2, <1>4, <2>1 DEF Alone, Running, Working
<1>8. ASSUME NEW q \in Starts \ {p} PROVE Position(q)' /\ Alone(q)'
  BY <1>4, Others
<1>. QED
  BY <1>5, <1>6, <1>7, <1>8 DEF SchemaInv

(* Every step of a process keeps the invariant.                            *)
LEMMA BeginSafe ==
  ASSUME SchemaInv, NEW p \in Starts, BeginStart(p)
  PROVE  SchemaInv'
<1>. DEFINE alone == \A r \in Starts \ {p} : ~Running(r)
<1>1. /\ start'[p] = [stage |-> "version", version |-> 0, at |-> 1, lone |-> alone]
      /\ \A q \in Starts \ {p} : start'[q] = [start[q] EXCEPT !.lone = FALSE]
      /\ DOMAIN start' = Starts
  BY DEF BeginStart, Off
<1>2. ASSUME NEW q \in Starts \ {p}
      PROVE  start'[q] \in [stage : {"off", "version", "apply", "add", "done"},
                            version : Nat, at : Nat, lone : BOOLEAN]
  <2>1. start[q] \in [stage : {"off", "version", "apply", "add", "done"},
                      version : Nat, at : Nat, lone : BOOLEAN]
    BY DEF SchemaInv, Typed
  <2>. QED
    BY <1>1, <2>1
<1>3. Typed'
  <2>1. alone \in BOOLEAN
    OBVIOUS
  <2>2. start'[p] \in [stage : {"off", "version", "apply", "add", "done"},
                       version : Nat, at : Nat, lone : BOOLEAN]
    BY <1>1, <2>1
  <2>3. start' = [q \in Starts |-> start'[q]]
    BY DEF BeginStart
  <2>. QED
    BY <1>2, <2>2, <2>3 DEF SchemaInv, Typed, BeginStart
<1>4. Recorded'
  BY DEF SchemaInv, Recorded, BeginStart
<1>5. Position(p)' /\ Alone(p)'
  <2>1. \A q \in Starts \ {p} : start'[q].stage = start[q].stage
    BY <1>1 DEF SchemaInv, Typed
  <2>2. start'[p].lone => \A q \in Starts \ {p} : ~Running(q)'
    BY <1>1, <2>1 DEF Running
  <2>3. start'[p].stage = "version"
    BY <1>1
  <2>. QED
    BY <2>2, <2>3 DEF Position, Alone, Working
<1>6. ASSUME NEW q \in Starts \ {p} PROVE Position(q)' /\ Alone(q)'
  <2>1. /\ start'[q].stage = start[q].stage /\ start'[q].version = start[q].version
        /\ start'[q].at = start[q].at /\ start'[q].lone = FALSE
    BY <1>1 DEF SchemaInv, Typed
  <2>2. Position(q) /\ UNCHANGED <<objects, applied>>
    BY DEF SchemaInv, BeginStart
  <2>3. Position(q)'
    <3>1. Working(q)' <=> Working(q)
      BY <2>1 DEF Working
    <3>. QED
      BY <2>1, <2>2, <3>1 DEF Position
  <2>. QED
    BY <2>1, <2>3 DEF Alone
<1>. QED
  BY <1>3, <1>4, <1>5, <1>6 DEF SchemaInv

LEMMA ReadSafe ==
  ASSUME SchemaInv, NEW p \in Starts, ReadVersion(p)
  PROVE  SchemaInv'
<1>1. PICK n \in 0..Len(Plan) : applied = 1..n
  BY DEF SchemaInv, Recorded
<1>2. current_version = n
  BY <1>1, VersionRead, PlanTyped
<1>3. Recorded'
  BY DEF SchemaInv, Recorded, ReadVersion
<1>4. Running(p) /\ n + 1 \notin applied'
  BY <1>1 DEF ReadVersion, Running
<1>5. Go(p, [NextMigration(n) EXCEPT !.lone = start[p].lone])
  BY <1>2 DEF ReadVersion
<1>. QED
  BY <1>1, <1>3, <1>4, <1>5, VersionSafe DEF ReadVersion

LEMMA RecordSafe ==
  ASSUME SchemaInv, NEW p \in Starts, mark_applied(p)
  PROVE  SchemaInv'
<1>. DEFINE v == start[p].version
<1>1. Position(p) /\ Alone(p) /\ Working(p) /\ Running(p)
  BY DEF SchemaInv, mark_applied, Working, Running
<1>2. CASE v \in applied
  <2>1. ~start[p].lone
    BY <1>1, <1>2 DEF Alone
  <2>2. broken' = FALSE /\ Go(p, Off) /\ UNCHANGED <<objects, applied>>
    BY <1>2, <2>1 DEF mark_applied, Raise, SchemaInv, Typed
  <2>. QED
    BY <1>1, <2>2, OffSafe
<1>3. CASE v \notin applied
  <2>1. PICK n \in 0..Len(Plan) : applied = 1..n
    BY DEF SchemaInv, Recorded
  <2>2. v \in 1..Len(Plan) /\ 1..(v - 1) \subseteq applied
    BY <1>1 DEF Position
  <2>3. v = n + 1
    <3>1. v > n
      BY <1>3, <2>1, <2>2, PlanTyped
    <3>2. v - 1 <= n
      <4>1. CASE v = 1
        BY <2>1, <4>1
      <4>2. CASE v # 1
        <5>1. v - 1 \in 1..(v - 1)
          BY <2>2, <4>2, PlanTyped
        <5>2. v - 1 \in 1..n
          BY <2>1, <2>2, <5>1
        <5>. QED
          BY <5>2
      <4>. QED
        BY <4>1, <4>2
    <3>. QED
      BY <2>2, <3>1, <3>2, PlanTyped
  <2>4. applied' = 1..v
    <3>1. applied' = 1..n \cup {n + 1}
      BY <1>3, <2>1, <2>3 DEF mark_applied
    <3>. QED
      BY <2>3, <3>1
  <2>5. Makes(v) \subseteq objects
    <3>1. start[p].at > Len(Plan[v]) /\ Len(Plan[v]) \in Nat
      BY <2>2, PlanTyped DEF mark_applied, Through
    <3>2. \A j \in 1..Len(Plan[v]) : Plan[v][j].makes \in objects
      BY <1>1, <3>1 DEF Position
    <3>. QED
      BY <3>2 DEF Makes
  <2>6. UNCHANGED <<objects, broken>> /\ Go(p, [NextMigration(v) EXCEPT !.lone = start[p].lone])
    BY <1>3 DEF mark_applied
  <2>7. Recorded'
    <3>1. \A w \in applied' : Makes(w) \subseteq objects
      BY <2>1, <2>3, <2>4, <2>5 DEF SchemaInv, Recorded
    <3>. QED
      BY <2>2, <2>4, <2>6, <3>1, PlanTyped DEF Recorded
  <2>8. v \in 0..Len(Plan) /\ v + 1 \notin applied' /\ applied \subseteq applied'
    BY <2>1, <2>2, <2>3, <2>4, PlanTyped
  <2>. QED
    BY <1>1, <2>4, <2>6, <2>7, <2>8, VersionSafe
<1>. QED
  BY <1>2, <1>3

LEMMA LookSafe ==
  ASSUME SchemaInv, NEW p \in Starts, LookForColumn(p)
  PROVE  SchemaInv'
<1>. DEFINE v == start[p].version
            i == start[p].at
<1>1. Position(p) /\ Alone(p) /\ Working(p) /\ Running(p)
  BY DEF SchemaInv, LookForColumn, Working, Running
<1>2. i <= Len(Plan[v])
  BY <1>1, PlanTyped DEF Position, LookForColumn, Through
<1>3. CASE ~Missing(Statement(p).makes)
  <2>1. Step(p) /\ Statement(p).makes \in objects' /\ UNCHANGED <<objects, applied, broken>>
    BY <1>3 DEF LookForColumn, Missing
  <2>. QED
    BY <1>1, <1>2, <2>1, StepSafe
<1>4. CASE Missing(Statement(p).makes)
  <2>1. UNCHANGED <<objects, applied, broken>> /\ start' = [start EXCEPT ![p].stage = "add"]
    BY <1>4 DEF LookForColumn, Go
  <2>2. /\ start'[p].stage = "add" /\ start'[p].version = v /\ start'[p].at = i
        /\ start'[p].lone = start[p].lone
        /\ \A q \in Starts \ {p} : start'[q] = start[q]
    BY <2>1 DEF SchemaInv, Typed
  <2>3. Typed' /\ Recorded'
    BY <2>1 DEF SchemaInv, Typed, Recorded
  <2>4. Position(p)'
    BY <1>1, <1>2, <2>1, <2>2 DEF Position, Working
  <2>5. Alone(p)'
    <3>1. Plan[v][i].makes \notin objects
      BY <1>4 DEF Missing, Statement
    <3>. QED
      BY <1>1, <2>1, <2>2, <3>1 DEF Alone, Running, Working
  <2>6. ASSUME NEW q \in Starts \ {p} PROVE Position(q)' /\ Alone(q)'
    BY <1>1, <2>1, <2>2, <2>3, Others
  <2>. QED
    BY <2>3, <2>4, <2>5, <2>6 DEF SchemaInv
<1>. QED
  BY <1>3, <1>4

LEMMA MakeSafe ==
  ASSUME SchemaInv, NEW p \in Starts, Create(p) \/ AddColumn(p)
  PROVE  SchemaInv'
<1>1. Position(p) /\ Alone(p) /\ Working(p) /\ Running(p)
  BY DEF SchemaInv, Create, AddColumn, Working, Running
<1>2. start[p].at <= Len(Plan[start[p].version])
  BY <1>1, PlanTyped DEF Position, Create, AddColumn, Through
<1>3. Statement(p).needs \subseteq objects
  BY <1>1, <1>2, NeedsMet DEF SchemaInv
<1>4. CASE Make(p)
  <2>1. /\ Step(p) /\ objects \subseteq objects' /\ Statement(p).makes \in objects'
        /\ UNCHANGED <<applied, broken>>
    BY <1>4 DEF Make
  <2>. QED
    BY <1>1, <1>2, <2>1, StepSafe
<1>5. CASE ~Make(p)
  <2>1. AddColumn(p) /\ Raise(p) /\ Statement(p).makes \in objects
    BY <1>3, <1>5 DEF Create, AddColumn, Missing
  <2>2. ~start[p].lone
    BY <1>1, <2>1 DEF Alone, AddColumn, Statement
  <2>3. broken' = FALSE /\ Go(p, Off) /\ UNCHANGED <<objects, applied>>
    BY <2>1, <2>2 DEF Raise, SchemaInv, Typed
  <2>. QED
    BY <1>1, <2>3, OffSafe
<1>. QED
  BY <1>4, <1>5

LEMMA SchemaNextInv == SchemaInv /\ [SchemaNext]_schemaVars => SchemaInv'
<1>. SUFFICES ASSUME SchemaInv, [SchemaNext]_schemaVars PROVE SchemaInv'
  OBVIOUS
<1>1. CASE UNCHANGED schemaVars
  BY <1>1 DEF schemaVars, SchemaInv, Typed, Recorded, Position, Alone, Working, Running
<1>2. ASSUME NEW p \in Starts, CrashStart(p) PROVE SchemaInv'
  <2>1. Running(p) /\ Go(p, Off) /\ broken' = FALSE /\ UNCHANGED <<objects, applied>>
    BY <1>2 DEF CrashStart, SchemaInv, Typed
  <2>. QED
    BY <2>1, OffSafe
<1>. QED
  BY <1>1, <1>2, BeginSafe, ReadSafe, RecordSafe, LookSafe, MakeSafe DEF SchemaNext

(* The runner's promise to every start (runner.py:490-542): nothing is     *)
(* recorded before it and all below it are there, who is done has the      *)
(* whole schema, and a start that has the database to itself is not kept   *)
(* from starting by what a crash or another start left.                    *)
THEOREM StartsAreSafe == SchemaSpec => []StartsSafe
<1>1. SchemaInv => StartsSafe
  <2>. SUFFICES ASSUME SchemaInv PROVE StartsSafe
    OBVIOUS
  <2>1. PICK n \in 0..Len(Plan) : applied = 1..n
    BY DEF SchemaInv, Recorded
  <2>2. ASSUME NEW v \in applied, NEW w \in 1..v PROVE w \in applied /\ Makes(w) \subseteq objects
    <3>1. w \in applied
      BY <2>1, PlanTyped
    <3>. QED
      BY <3>1 DEF SchemaInv, Recorded
  <2>3. ASSUME NEW p \in Starts, start[p].stage = "done" PROVE applied = 1..Len(Plan)
    BY <2>3 DEF SchemaInv, Position
  <2>4. ~broken
    BY DEF SchemaInv, Typed
  <2>. QED
    BY <2>2, <2>3, <2>4 DEF StartsSafe
<1>. QED
  BY <1>1, SchemaStart, SchemaNextInv, PTL DEF SchemaSpec
-----------------------------------------------------------------------------
(* The event bus.                                                          *)
Keys == {m.key : m \in Messages}

Shape ==
  /\ subs \subseteq Subs /\ dlq \subseteq DlqSubs
  /\ pub \in [Pubs -> {"idle", "sent", "ok", "deduped", "cancelled"}]
  /\ msg \in [Pubs -> Messages \cup {NoMsg}]
  /\ handlers \in [Pubs -> SUBSET Subs]
  /\ watching \in [Pubs -> SUBSET DlqSubs]
  /\ task \in [Tasks -> Holding \cup Over \cup {"none", "queued"}]
  /\ attempt \in [Tasks -> 0..MaxAttempts]
  /\ told \in [Tasks -> SUBSET DlqSubs]
  /\ \A t \in Tasks : task[t] = "backoff" => attempt[t] < MaxAttempts

Held == {t \in Tasks : task[t] \in Holding}

Permits == permits \in Nat /\ permits + Cardinality(Held) = TopicConcurrency

(* How far the tasks of a publication are, by how far it is itself.        *)
Delivery ==
  /\ \A p \in Pubs : watching[p] \subseteq dlq
  /\ \A p \in Pubs : pub[p] \in {"idle", "deduped"} =>
       handlers[p] = {} /\ \A s \in Subs : task[<<p, s>>] = "none"
  /\ \A p \in Pubs : pub[p] = "sent" =>
       \A s \in handlers[p] : task[<<p, s>>] \notin {"none", "cancelled"}
  /\ \A p \in Pubs : pub[p] = "ok" =>
       \A s \in handlers[p] : task[<<p, s>>] \in {"delivered", "failed"}

Failures ==
  \A p \in Pubs, s \in Subs :
    /\ task[<<p, s>>] \in {"dead", "failed"} => attempt[<<p, s>>] = MaxAttempts
    /\ task[<<p, s>>] = "failed" => watching[p] \subseteq told[<<p, s>>]

BusInv == Shape /\ Permits /\ Delivery /\ Failures

(* The cache.  The queue holds the keys that came last, all different and  *)
(* all known to the set.                                                   *)
Recent(q, r, set) ==
  /\ q \in Seq(Keys) /\ Len(q) <= Len(r)
  /\ \A i \in 1..Len(q) : q[i] = r[Len(r) - Len(q) + i] /\ q[i] \in set
  /\ \A i, j \in 1..Len(q) : q[i] = q[j] => i = j

CacheInv ==
  /\ registered \in Seq(Keys)
  /\ Recent(dedupe_q, registered, dedupe_set)
  /\ IsFiniteSet(dedupe_set)
  /\ \/ /\ Len(dedupe_q) = Len(registered) /\ Len(dedupe_q) <= DedupeSize
        /\ Cardinality(dedupe_set) = Len(dedupe_q)
     \/ Len(dedupe_q) = DedupeSize - 1 /\ Cardinality(dedupe_set) = DedupeSize

-----------------------------------------------------------------------------
(* Tasks and permits.                                                      *)
LEMMA TasksFinite == IsFiniteSet(Tasks)
<1>1. IsFiniteSet(Pubs)
  BY FS_Interval, BusConstantsOK DEF Pubs
<1>. QED
  BY <1>1, FS_Product, BusConstantsOK DEF Tasks

LEMMA HeldFinite == IsFiniteSet(Held) /\ Cardinality(Held) \in Nat
BY TasksFinite, FS_Subset, FS_CardinalityType DEF Held

\* A task gets a permit; one gives its permit back; one goes on with it.
LEMMA Takes ==
  ASSUME Shape, Permits, NEW t \in Tasks, NEW x \in Holding,
         task' = [task EXCEPT ![t] = x], task[t] \notin Holding,
         permits > 0, permits' = permits - 1
  PROVE  Permits'
<1>1. t \notin Held /\ Held' = Held \cup {t}
  BY DEF Held, Shape
<1>2. Cardinality(Held') = Cardinality(Held) + 1
  BY <1>1, HeldFinite, FS_AddElement
<1>. QED
  BY <1>2, HeldFinite, BusConstantsOK DEF Permits

LEMMA GivesBack ==
  ASSUME Shape, Permits, NEW t \in Tasks, NEW x,
         task' = [task EXCEPT ![t] = x], task[t] \in Holding,
         x \notin Holding, permits' = permits + 1
  PROVE  Permits'
<1>1. t \in Held /\ Held' = Held \ {t}
  BY DEF Held, Shape
<1>2. Cardinality(Held') = Cardinality(Held) - 1
  BY <1>1, HeldFinite, FS_RemoveElement
<1>. QED
  BY <1>2, HeldFinite, BusConstantsOK DEF Permits

LEMMA Keeps ==
  ASSUME Shape, Permits, NEW t \in Tasks, NEW x \in Holding,
         task' = [task EXCEPT ![t] = x], task[t] \in Holding, permits' = permits
  PROVE  Permits'
<1>1. Held' = Held
  BY DEF Held, Shape
<1>. QED
  BY <1>1 DEF Permits

\* What a task does until it is over.
LEMMA DeliverInv ==
  ASSUME BusInv, NEW t \in Tasks, Deliver(t)
  PROVE  BusInv'
<1>. USE BusConstantsOK
<1>0. PICK p \in Pubs, s \in Subs : t = <<p, s>>
  BY DEF Tasks
<1>1. Shape'
  <2>1. CASE Acquire(t)
    BY <2>1 DEF BusInv, Shape, Acquire, Holding, wiring, call
  <2>2. CASE HandlerReturns(t)
    BY <2>2 DEF BusInv, Shape, HandlerReturns, Over, wiring, call
  <2>3. CASE HandlerRaises(t)
    BY <2>3 DEF BusInv, Shape, HandlerRaises, Holding, wiring, call
  <2>4. CASE Retry(t)
    BY <2>4 DEF BusInv, Shape, Retry, Holding, wiring, call
  <2>5. CASE TellDlq(t)
    BY <2>5 DEF BusInv, Shape, TellDlq, wiring, call
  <2>6. CASE Fail(t)
    BY <2>6 DEF BusInv, Shape, Fail, Over, wiring, call
  <2>. QED
    BY <2>1, <2>2, <2>3, <2>4, <2>5, <2>6 DEF Deliver
<1>2. Permits'
  <2>. USE DEF BusInv
  <2>1. CASE Acquire(t)
    <3>1. /\ task[t] \notin Holding /\ "running" \in Holding
          /\ task' = [task EXCEPT ![t] = "running"]
      BY <2>1 DEF Acquire, Holding
    <3>2. permits > 0 /\ permits' = permits - 1
      BY <2>1 DEF Acquire
    <3>. QED
      BY <3>1, <3>2, Takes
  <2>2. CASE HandlerReturns(t)
    <3>1. /\ task[t] \in Holding /\ "delivered" \notin Holding
          /\ task' = [task EXCEPT ![t] = "delivered"]
      BY <2>2 DEF HandlerReturns, Holding
    <3>2. permits' = permits + 1
      BY <2>2 DEF HandlerReturns
    <3>. QED
      BY <3>1, <3>2, GivesBack
  <2>3. CASE HandlerRaises(t)
    <3>. DEFINE x == IF attempt[t] >= MaxAttempts THEN "dead" ELSE "backoff"
    <3>1. task[t] \in Holding /\ x \in Holding
      BY <2>3 DEF HandlerRaises, Holding
    <3>2. task' = [task EXCEPT ![t] = x] /\ permits' = permits
      BY <2>3 DEF HandlerRaises
    <3>. HIDE DEF x
    <3>. QED
      BY <3>1, <3>2, Keeps
  <2>4. CASE Retry(t)
    <3>1. /\ task[t] \in Holding /\ "running" \in Holding
          /\ task' = [task EXCEPT ![t] = "running"] /\ permits' = permits
      BY <2>4 DEF Retry, Holding
    <3>. QED
      BY <3>1, Keeps
  <2>5. CASE TellDlq(t)
    BY <2>5 DEF TellDlq, Permits, Held
  <2>6. CASE Fail(t)
    <3>1. /\ task[t] \in Holding /\ "failed" \notin Holding
          /\ task' = [task EXCEPT ![t] = "failed"]
      BY <2>6 DEF Fail, Holding
    <3>2. permits' = permits + 1
      BY <2>6 DEF Fail
    <3>. QED
      BY <3>1, <3>2, GivesBack
  <2>. QED
    BY <2>1, <2>2, <2>3, <2>4, <2>5, <2>6 DEF Deliver
<1>3. /\ UNCHANGED <<pub, handlers, watching, dlq>>
      /\ \A u \in Tasks \ {t} : /\ task'[u] = task[u] /\ attempt'[u] = attempt[u]
                                /\ told'[u] = told[u]
      /\ task[t] \in Holding \cup {"queued"}
      /\ task'[t] \in Holding \cup {"delivered", "failed"}
  BY DEF Deliver, Acquire, HandlerReturns, HandlerRaises, Retry, TellDlq, Fail, wiring, call,
         BusInv, Shape, Holding
<1>4. Delivery'
  <2>. SUFFICES ASSUME NEW q \in Pubs
                PROVE  /\ watching[q] \subseteq dlq
                       /\ pub[q] \in {"idle", "deduped"} =>
                            handlers[q] = {} /\ \A r \in Subs : task'[<<q, r>>] = "none"
                       /\ pub[q] = "sent" =>
                            \A r \in handlers[q] : task'[<<q, r>>] \notin {"none", "cancelled"}
                       /\ pub[q] = "ok" =>
                            \A r \in handlers[q] : task'[<<q, r>>] \in {"delivered", "failed"}
    BY <1>3 DEF Delivery
  <2>1. handlers[q] \subseteq Subs /\ \A r \in Subs : <<q, r>> \in Tasks
    BY DEF BusInv, Shape, Tasks
  <2>. QED
    BY <1>0, <1>3, <2>1 DEF BusInv, Delivery, Holding
<1>5. Failures'
  <2>. SUFFICES ASSUME NEW q \in Pubs, NEW r \in Subs
                PROVE  /\ task'[<<q, r>>] \in {"dead", "failed"} => attempt'[<<q, r>>] = MaxAttempts
                       /\ task'[<<q, r>>] = "failed" => watching[q] \subseteq told'[<<q, r>>]
    BY <1>3 DEF Failures
  <2>0. <<q, r>> \in Tasks
    BY DEF Tasks
  <2>1. CASE <<q, r>> # t
    BY <1>3, <2>0, <2>1 DEF BusInv, Failures
  <2>2. CASE <<q, r>> = t
    <3>1. CASE Acquire(t) \/ HandlerReturns(t) \/ Retry(t)
      BY <2>0, <2>2, <3>1 DEF Acquire, HandlerReturns, Retry, BusInv, Shape
    <3>2. CASE HandlerRaises(t)
      BY <2>0, <2>2, <3>2 DEF HandlerRaises, BusInv, Shape
    <3>3. CASE TellDlq(t)
      BY <2>0, <2>2, <3>3 DEF TellDlq, BusInv, Shape, Failures
    <3>4. CASE Fail(t)
      BY <2>0, <2>2, <3>4 DEF Fail, BusInv, Shape, Failures, Delivery
    <3>. QED
      BY <3>1, <3>2, <3>3, <3>4 DEF Deliver
  <2>. QED
    BY <2>1, <2>2
<1>. QED
  BY <1>1, <1>2, <1>4, <1>5 DEF BusInv
-----------------------------------------------------------------------------
(* The cache of keys.                                                      *)
LEMMA RecentAppend ==
  ASSUME NEW q, NEW r \in Seq(Keys), NEW set, NEW k \in Keys, k \notin set,
         Recent(q, r, set)
  PROVE  Recent(Append(q, k), Append(r, k), set \cup {k})
<1>0. q \in Seq(Keys) /\ Len(q) \in Nat /\ Len(r) \in Nat /\ Len(q) <= Len(r)
  BY DEF Recent
<1>1. /\ Append(q, k) \in Seq(Keys) /\ Len(Append(q, k)) = Len(q) + 1
      /\ \A i \in 1..Len(q) : Append(q, k)[i] = q[i]
      /\ Append(q, k)[Len(q) + 1] = k
  BY <1>0
<1>2. /\ Len(Append(r, k)) = Len(r) + 1
      /\ \A i \in 1..Len(r) : Append(r, k)[i] = r[i]
      /\ Append(r, k)[Len(r) + 1] = k
  OBVIOUS
<1>. DEFINE qq == Append(q, k)
            rr == Append(r, k)
<1>. HIDE DEF qq, rr
<1>3. ASSUME NEW i \in 1..Len(qq)
      PROVE  qq[i] = rr[Len(rr) - Len(qq) + i] /\ qq[i] \in set \cup {k}
  <2>1. CASE i \in 1..Len(q)
    <3>1. qq[i] = q[i] /\ q[i] = r[Len(r) - Len(q) + i] /\ q[i] \in set
      BY <1>1, <2>1 DEF Recent, qq
    <3>2. /\ Len(rr) - Len(qq) + i = Len(r) - Len(q) + i
          /\ Len(r) - Len(q) + i \in 1..Len(r)
      BY <1>0, <1>1, <1>2, <2>1 DEF qq, rr
    <3>. QED
      BY <1>2, <3>1, <3>2 DEF rr
  <2>2. CASE i = Len(q) + 1
    <3>1. Len(rr) - Len(qq) + i = Len(r) + 1
      BY <1>0, <1>1, <1>2, <2>2 DEF qq, rr
    <3>. QED
      BY <1>1, <1>2, <2>2, <3>1 DEF qq, rr
  <2>. QED
    BY <1>0, <1>1, <2>1, <2>2 DEF qq
<1>4. ASSUME NEW i \in 1..Len(qq), NEW j \in 1..Len(qq), qq[i] = qq[j]
      PROVE  i = j
  <2>1. \A n \in 1..Len(qq) : n \in 1..Len(q) \/ n = Len(q) + 1
    BY <1>0, <1>1 DEF qq
  <2>2. \A n \in 1..Len(q) : qq[n] = q[n] /\ q[n] \in set
    BY <1>1 DEF Recent, qq
  <2>3. qq[Len(q) + 1] = k
    BY <1>1 DEF qq
  <2>. QED
    BY <1>4, <2>1, <2>2, <2>3 DEF Recent
<1>5. qq \in Seq(Keys) /\ Len(qq) <= Len(rr)
  BY <1>0, <1>1, <1>2 DEF qq, rr
<1>6. Recent(qq, rr, set \cup {k})
  BY <1>3, <1>4, <1>5 DEF Recent
<1>. QED
  BY <1>6 DEF qq, rr

LEMMA RecentTail ==
  ASSUME NEW q, NEW r \in Seq(Keys), NEW set, Recent(q, r, set), q # <<>>
  PROVE  /\ Recent(Tail(q), r, set) /\ Recent(Tail(q), r, set \ {Head(q)})
         /\ Len(Tail(q)) = Len(q) - 1 /\ Head(q) \in set
<1>0. q \in Seq(Keys) /\ Len(q) \in Nat \ {0} /\ Len(r) \in Nat /\ Len(q) <= Len(r)
  BY DEF Recent
<1>1. /\ Tail(q) \in Seq(Keys) /\ Len(Tail(q)) = Len(q) - 1
      /\ \A i \in 1..Len(q) - 1 : Tail(q)[i] = q[i + 1]
      /\ Head(q) = q[1]
  BY <1>0
<1>. DEFINE t == Tail(q)
            h == Head(q)
<1>. HIDE DEF t, h
<1>2. ASSUME NEW i \in 1..Len(t)
      PROVE  /\ t[i] = r[Len(r) - Len(t) + i]
             /\ t[i] \in set /\ t[i] # h
  <2>1. i + 1 \in 1..Len(q) /\ 1 \in 1..Len(q) /\ i + 1 # 1 /\ t[i] = q[i + 1]
    BY <1>0, <1>1 DEF t
  <2>2. q[i + 1] = r[Len(r) - Len(q) + (i + 1)] /\ q[i + 1] \in set /\ q[i + 1] # q[1]
    BY <2>1 DEF Recent
  <2>3. Len(r) - Len(q) + (i + 1) = Len(r) - Len(t) + i
    BY <1>0, <1>1 DEF t
  <2>. QED
    BY <1>1, <2>1, <2>2, <2>3 DEF h
<1>3. ASSUME NEW i \in 1..Len(t), NEW j \in 1..Len(t), t[i] = t[j]
      PROVE  i = j
  <2>1. i + 1 \in 1..Len(q) /\ j + 1 \in 1..Len(q) /\ q[i + 1] = q[j + 1]
    BY <1>0, <1>1, <1>3 DEF t
  <2>2. i + 1 = j + 1
    BY <2>1 DEF Recent
  <2>. QED
    BY <2>2
<1>4. t \in Seq(Keys) /\ Len(t) <= Len(r)
  BY <1>0, <1>1 DEF t
<1>5. Recent(t, r, set) /\ Recent(t, r, set \ {h})
  BY <1>2, <1>3, <1>4 DEF Recent
<1>6. 1 \in 1..Len(q) /\ q[1] \in set
  BY <1>0 DEF Recent
<1>. QED
  BY <1>1, <1>5, <1>6 DEF t, h

\* remember() keeps the cache as it should be.
LEMMA RememberInv ==
  ASSUME CacheInv, NEW k \in Keys, k \notin dedupe_set, remember(k)
  PROVE  CacheInv'
<1>. DEFINE cut   == IF Len(dedupe_q) = DedupeSize THEN Tail(dedupe_q) ELSE dedupe_q
            q     == Append(cut, k)
            r     == Append(registered, k)
            grown == dedupe_set \cup {k}
<1>0. /\ registered \in Seq(Keys) /\ Recent(dedupe_q, registered, dedupe_set)
      /\ dedupe_q \in Seq(Keys) /\ Len(dedupe_q) \in Nat
      /\ Len(registered) \in Nat /\ DedupeSize \in Nat \ {0}
  BY BusConstantsOK DEF CacheInv, Recent
<1>1. /\ registered' = r
      /\ IF Cardinality(grown) > DedupeSize
         THEN dedupe_q' = Tail(q) /\ dedupe_set' = grown \ {Head(q)}
         ELSE dedupe_q' = q /\ dedupe_set' = grown
  BY DEF remember
<1>. HIDE DEF cut, q, r, grown
<1>2. /\ IsFiniteSet(grown) /\ Cardinality(grown) = Cardinality(dedupe_set) + 1
      /\ IsFiniteSet(grown \ {Head(q)})
      /\ Head(q) \in grown => Cardinality(grown \ {Head(q)}) = Cardinality(dedupe_set)
      /\ Cardinality(dedupe_set) \in Nat
  <2>1. /\ IsFiniteSet(dedupe_set) /\ Cardinality(dedupe_set) \in Nat
    BY FS_CardinalityType DEF CacheInv
  <2>2. IsFiniteSet(grown) /\ Cardinality(grown) = Cardinality(dedupe_set) + 1
    BY <2>1, FS_AddElement DEF grown
  <2>3. IsFiniteSet(grown \ {Head(q)}) /\ Cardinality(grown \ {Head(q)}) =
          IF Head(q) \in grown THEN Cardinality(grown) - 1 ELSE Cardinality(grown)
    BY <2>2, FS_RemoveElement
  <2>. QED
    BY <2>1, <2>2, <2>3
<1>3. /\ Recent(cut, registered, dedupe_set)
      /\ Len(cut) = IF Len(dedupe_q) = DedupeSize THEN DedupeSize - 1 ELSE Len(dedupe_q)
  <2>1. CASE Len(dedupe_q) = DedupeSize
    <3>1. dedupe_q # <<>> /\ cut = Tail(dedupe_q)
      BY <1>0, <2>1 DEF cut
    <3>. QED
      BY <1>0, <2>1, <3>1, RecentTail
  <2>2. CASE Len(dedupe_q) # DedupeSize
    BY <1>0, <2>2 DEF cut
  <2>. QED
    BY <2>1, <2>2
<1>4. cut \in Seq(Keys)
  BY <1>3 DEF Recent
<1>5. Recent(q, r, grown) /\ Len(q) = Len(cut) + 1 /\ q # <<>> /\ r \in Seq(Keys)
      /\ Len(r) = Len(registered) + 1
  <2>1. Recent(q, r, grown)
    BY <1>0, <1>3, RecentAppend DEF q, r, grown
  <2>. QED
    BY <1>0, <1>4, <2>1 DEF q, r
<1>6. Recent(Tail(q), r, grown \ {Head(q)}) /\ Len(Tail(q)) = Len(cut) /\ Head(q) \in grown
  <2>1. /\ Recent(Tail(q), r, grown \ {Head(q)}) /\ Head(q) \in grown
        /\ Len(Tail(q)) = Len(q) - 1
    BY <1>5, RecentTail
  <2>2. Len(cut) \in Nat
    BY <1>4
  <2>. QED
    BY <1>5, <2>1, <2>2
<1>8. CASE Cardinality(grown) > DedupeSize
  <2>1. dedupe_q' = Tail(q) /\ dedupe_set' = grown \ {Head(q)} /\ registered' = r
    BY <1>1, <1>8
  <2>2. Len(cut) = DedupeSize - 1 /\ Cardinality(dedupe_set) = DedupeSize
    BY <1>0, <1>2, <1>3, <1>8 DEF CacheInv
  <2>3. Len(Tail(q)) = DedupeSize - 1 /\ Cardinality(grown \ {Head(q)}) = DedupeSize
    BY <1>2, <1>6, <2>2
  <2>. QED
    BY <1>2, <1>5, <1>6, <2>1, <2>3 DEF CacheInv
<1>9. CASE ~ (Cardinality(grown) > DedupeSize)
  <2>1. dedupe_q' = q /\ dedupe_set' = grown /\ registered' = r
    BY <1>1, <1>9
  <2>2. /\ Len(dedupe_q) = Len(registered) /\ Len(dedupe_q) < DedupeSize
        /\ Cardinality(dedupe_set) = Len(dedupe_q)
    BY <1>0, <1>2, <1>9 DEF CacheInv
  <2>3. Len(q) = Len(r) /\ Len(q) <= DedupeSize /\ Cardinality(grown) = Len(q)
    BY <1>0, <1>2, <1>3, <1>5, <2>2
  <2>. QED
    BY <1>2, <1>5, <2>1, <2>3 DEF CacheInv
<1>. QED
  BY <1>8, <1>9

\* The keys of the queue all came after the key that is not known any more.
LEMMA RememberApart ==
  ASSUME CacheInv, NoEarlyRedelivery, NEW k \in Keys, k \notin dedupe_set, remember(k)
  PROVE  NoEarlyRedelivery'
<1>. DEFINE all == Len(registered)
            m   == Len(dedupe_q)
            r   == Append(registered, k)
<1>0. /\ registered \in Seq(Keys) /\ Recent(dedupe_q, registered, dedupe_set)
      /\ dedupe_q \in Seq(Keys) /\ m \in Nat /\ all \in Nat /\ m <= all
      /\ DedupeSize \in Nat \ {0}
  BY BusConstantsOK DEF CacheInv, Recent
<1>1. registered' = r
  BY DEF remember
<1>2. /\ DOMAIN registered = 1..all /\ DOMAIN r = 1..(all + 1)
      /\ \A n \in 1..all : r[n] = registered[n]
      /\ r[all + 1] = k
  BY <1>0
<1>. HIDE DEF all, m, r
<1>3. ASSUME NEW i \in 1..(all + 1), NEW j \in 1..(all + 1), i < j, r[i] = r[j]
      PROVE  Cardinality({r[n] : n \in (i + 1)..(j - 1)}) >= DedupeSize - 1
  <2>1. CASE j <= all
    <3>1. /\ i \in 1..all /\ j \in 1..all /\ registered[i] = registered[j]
          /\ \A n \in (i + 1)..(j - 1) : r[n] = registered[n]
      BY <1>0, <1>2, <1>3, <2>1
    <3>2. Cardinality({registered[n] : n \in (i + 1)..(j - 1)}) >= DedupeSize - 1
      BY <1>2, <1>3, <3>1 DEF NoEarlyRedelivery
    <3>3. {r[n] : n \in (i + 1)..(j - 1)} = {registered[n] : n \in (i + 1)..(j - 1)}
      BY <3>1
    <3>. QED
      BY <3>2, <3>3
  <2>2. CASE j = all + 1
    <3>1. i \in 1..all /\ registered[i] = k
      BY <1>0, <1>2, <1>3, <2>2
    <3>2. i <= all - m
      <4>. SUFFICES ASSUME ~ (i <= all - m) PROVE FALSE
        OBVIOUS
      <4>1. i - (all - m) \in 1..m /\ all - m + (i - (all - m)) = i
        BY <1>0, <3>1
      <4>2. dedupe_q[i - (all - m)] = registered[i] /\ dedupe_q[i - (all - m)] \in dedupe_set
        BY <1>0, <4>1 DEF Recent, all, m
      <4>. QED
        BY <3>1, <4>2
    <3>3. m = DedupeSize - 1
      BY <1>0, <3>1, <3>2 DEF CacheInv, all, m
    <3>. DEFINE W == {r[n] : n \in (i + 1)..(j - 1)}
    <3>4. IsFiniteSet(W)
      <4>. DEFINE f == [n \in (i + 1)..(j - 1) |-> r[n]]
      <4>1. f \in Surjection((i + 1)..(j - 1), W)
        BY DEF Surjection
      <4>2. IsFiniteSet((i + 1)..(j - 1))
        BY <1>0, FS_Interval
      <4>. HIDE DEF f, W
      <4>. QED
        BY <4>1, <4>2, FS_Surjection
    <3>5. \A x \in 1..m : dedupe_q[x] \in W
      <4>. SUFFICES ASSUME NEW x \in 1..m PROVE dedupe_q[x] \in W
        OBVIOUS
      <4>1. /\ all - m + x \in (i + 1)..(j - 1) /\ all - m + x \in 1..all
        BY <1>0, <2>2, <3>1, <3>2
      <4>2. dedupe_q[x] = registered[all - m + x]
        BY <1>0 DEF Recent, all, m
      <4>. QED
        BY <1>2, <4>1, <4>2
    <3>6. dedupe_q \in Injection(1..m, W)
      <4>1. DOMAIN dedupe_q = 1..m /\ dedupe_q \in [1..m -> Keys]
        BY <1>0 DEF m
      <4>2. \A x, y \in 1..m : dedupe_q[x] = dedupe_q[y] => x = y
        BY <1>0 DEF Recent, m
      <4>. HIDE DEF W
      <4>3. dedupe_q \in [1..m -> W]
        BY <3>5, <4>1
      <4>. QED
        BY <4>1, <4>2, <4>3 DEF Injection, IsInjective
    <3>. HIDE DEF W
    <3>7. Cardinality(1..m) <= Cardinality(W) /\ Cardinality(W) \in Nat
      BY <3>4, <3>6, FS_Injection, FS_CardinalityType
    <3>8. Cardinality(1..m) = m
      BY <1>0, FS_Interval
    <3>9. Cardinality(W) >= DedupeSize - 1
      BY <1>0, <3>3, <3>7, <3>8
    <3>. QED
      BY <3>9 DEF W
  <2>. QED
    BY <1>0, <2>1, <2>2
<1>. QED
  BY <1>1, <1>2, <1>3 DEF NoEarlyRedelivery
-----------------------------------------------------------------------------
(* Publications.                                                           *)
LEMMA SubscribeInv ==
  ASSUME BusInv, NEW s \in Subs, Subscribe(s)
  PROVE  BusInv'
<1>1. Shape'
  BY DEF BusInv, Shape, Subscribe, call
<1>2. Permits'
  BY DEF BusInv, Permits, Held, Subscribe
<1>3. Delivery' /\ Failures'
  BY DEF BusInv, Delivery, Failures, Subscribe, call
<1>. QED
  BY <1>1, <1>2, <1>3 DEF BusInv

LEMMA SubscribeDlqInv ==
  ASSUME BusInv, NEW d \in DlqSubs, SubscribeDlq(d)
  PROVE  BusInv'
<1>1. Shape'
  BY DEF BusInv, Shape, SubscribeDlq, call
<1>2. Permits'
  BY DEF BusInv, Permits, Held, SubscribeDlq
<1>3. Delivery' /\ Failures'
  BY DEF BusInv, Delivery, Failures, SubscribeDlq, call
<1>. QED
  BY <1>1, <1>2, <1>3 DEF BusInv

LEMMA PublishDedupedInv ==
  ASSUME BusInv, NEW p \in Pubs, PublishDeduped(p)
  PROVE  BusInv'
<1>1. Shape'
  BY DEF BusInv, Shape, PublishDeduped, wiring
<1>2. Permits'
  BY DEF BusInv, Permits, Held, PublishDeduped
<1>3. Delivery' /\ Failures'
  BY DEF BusInv, Shape, Delivery, Failures, PublishDeduped, Comes, wiring
<1>. QED
  BY <1>1, <1>2, <1>3 DEF BusInv

\* Nothing of a publication was under way before it began.
LEMMA PublishInv ==
  ASSUME BusInv, NEW p \in Pubs, Publish(p)
  PROVE  BusInv'
<1>. DEFINE hs(m) == {s \in subs : m.topic \in Covers[s]}
<1>1. PICK m \in Messages :
        /\ pub[p] = "idle"
        /\ handlers' = [handlers EXCEPT ![p] = hs(m)]
        /\ pub' = [pub EXCEPT ![p] = IF hs(m) = {} THEN "ok" ELSE "sent"]
        /\ task' = [t \in Tasks |->
             IF t[1] = p /\ t[2] \in hs(m) THEN "queued" ELSE task[t]]
        /\ msg' = [msg EXCEPT ![p] = m]
        /\ watching' = [watching EXCEPT ![p] = dlq]
        /\ UNCHANGED <<subs, dlq, permits, attempt, told>>
  BY DEF Publish, Comes, wiring
<1>. DEFINE h == hs(m)
<1>2. h \subseteq Subs
  BY DEF BusInv, Shape
<1>. HIDE DEF h
<1>3. /\ \A q \in Pubs : /\ handlers'[q] = IF q = p THEN h ELSE handlers[q]
                         /\ pub'[q] = IF q = p THEN IF h = {} THEN "ok" ELSE "sent" ELSE pub[q]
                         /\ watching'[q] = IF q = p THEN dlq ELSE watching[q]
      /\ \A q \in Pubs, s \in Subs :
           task'[<<q, s>>] = IF q = p /\ s \in h THEN "queued" ELSE task[<<q, s>>]
      /\ \A s \in Subs : task[<<p, s>>] = "none"
  <2>1. \A q \in Pubs : /\ handlers'[q] = IF q = p THEN h ELSE handlers[q]
                        /\ watching'[q] = IF q = p THEN dlq ELSE watching[q]
    BY <1>1 DEF BusInv, Shape, h
  <2>2. \A q \in Pubs : pub'[q] = IF q = p THEN IF h = {} THEN "ok" ELSE "sent" ELSE pub[q]
    BY <1>1 DEF BusInv, Shape, h
  <2>3. \A q \in Pubs, s \in Subs :
          task'[<<q, s>>] = IF q = p /\ s \in h THEN "queued" ELSE task[<<q, s>>]
    BY <1>1 DEF Tasks, h
  <2>4. \A s \in Subs : task[<<p, s>>] = "none"
    BY <1>1 DEF BusInv, Delivery
  <2>. QED
    BY <2>1, <2>2, <2>3, <2>4
<1>4. \A t \in Tasks : \/ task'[t] = task[t]
                       \/ task[t] = "none" /\ task'[t] = "queued"
  BY <1>3 DEF Tasks
<1>5. Shape'
  <2>1. /\ handlers' \in [Pubs -> SUBSET Subs] /\ watching' \in [Pubs -> SUBSET DlqSubs]
        /\ msg' \in [Pubs -> Messages \cup {NoMsg}]
    BY <1>1, <1>2 DEF BusInv, Shape, h
  <2>2. pub' \in [Pubs -> {"idle", "sent", "ok", "deduped", "cancelled"}]
    BY <1>1 DEF BusInv, Shape
  <2>3. task' \in [Tasks -> Holding \cup Over \cup {"none", "queued"}]
    BY <1>1, <1>4 DEF BusInv, Shape
  <2>4. \A t \in Tasks : task'[t] = "backoff" => attempt'[t] < MaxAttempts
    BY <1>1, <1>4 DEF BusInv, Shape
  <2>. QED
    BY <1>1, <2>1, <2>2, <2>3, <2>4 DEF BusInv, Shape
<1>6. Permits'
  <2>1. Held' = Held
    BY <1>4 DEF Held, Holding
  <2>. QED
    BY <1>1, <2>1 DEF BusInv, Permits
<1>7. Delivery'
  <2>. SUFFICES ASSUME NEW q \in Pubs
                PROVE  /\ watching'[q] \subseteq dlq'
                       /\ pub'[q] \in {"idle", "deduped"} =>
                            handlers'[q] = {} /\ \A s \in Subs : task'[<<q, s>>] = "none"
                       /\ pub'[q] = "sent" =>
                            \A s \in handlers'[q] : task'[<<q, s>>] \notin {"none", "cancelled"}
                       /\ pub'[q] = "ok" =>
                            \A s \in handlers'[q] : task'[<<q, s>>] \in {"delivered", "failed"}
    BY DEF Delivery
  <2>1. CASE q = p
    <3>1. /\ handlers'[q] = h /\ pub'[q] = (IF h = {} THEN "ok" ELSE "sent")
          /\ watching'[q] = dlq /\ dlq' = dlq
          /\ \A s \in h : task'[<<q, s>>] = "queued"
      BY <1>1, <1>2, <1>3, <2>1
    <3>. QED
      BY <3>1
  <2>2. CASE q # p
    <3>1. /\ handlers'[q] = handlers[q] /\ pub'[q] = pub[q] /\ watching'[q] = watching[q]
          /\ \A s \in Subs : task'[<<q, s>>] = task[<<q, s>>]
          /\ handlers[q] \subseteq Subs /\ dlq' = dlq
      BY <1>1, <1>3, <2>2 DEF BusInv, Shape
    <3>. QED
      BY <3>1 DEF BusInv, Delivery
  <2>. QED
    BY <2>1, <2>2
<1>8. Failures'
  <2>. SUFFICES ASSUME NEW q \in Pubs, NEW s \in Subs
                PROVE  /\ task'[<<q, s>>] \in {"dead", "failed"} => attempt'[<<q, s>>] = MaxAttempts
                       /\ task'[<<q, s>>] = "failed" => watching'[q] \subseteq told'[<<q, s>>]
    BY DEF Failures
  <2>. QED
    BY <1>1, <1>3 DEF BusInv, Failures
<1>. QED
  BY <1>5, <1>6, <1>7, <1>8 DEF BusInv

LEMMA GatheredInv ==
  ASSUME BusInv, NEW p \in Pubs, Gathered(p)
  PROVE  BusInv'
<1>1. Shape'
  BY DEF BusInv, Shape, Gathered, wiring, call
<1>2. Permits'
  BY DEF BusInv, Permits, Held, Gathered
<1>3. Delivery'
  <2>1. /\ \A s \in handlers[p] : task[<<p, s>>] \in {"delivered", "failed"}
        /\ pub' = [pub EXCEPT ![p] = "ok"]
        /\ UNCHANGED <<handlers, watching, dlq, task>>
    BY DEF BusInv, Delivery, Gathered, Over, wiring, call
  <2>. QED
    BY <2>1 DEF BusInv, Shape, Delivery
<1>4. Failures'
  BY DEF BusInv, Failures, Gathered, call
<1>. QED
  BY <1>1, <1>2, <1>3, <1>4 DEF BusInv

\* The permits a cancelled publication gives back are those its tasks held.
LEMMA CancelPublishInv ==
  ASSUME BusInv, NEW p \in Pubs, CancelPublish(p)
  PROVE  BusInv'
<1>. DEFINE S == {s \in Subs : task[<<p, s>>] \in Holding}
            R == {p} \X S
            f == [s \in S |-> <<p, s>>]
<1>1. /\ pub' = [pub EXCEPT ![p] = "cancelled"]
      /\ task' = [t \in Tasks |-> IF t[1] = p /\ task[t] \in Holding \cup {"queued"}
                                  THEN "cancelled" ELSE task[t]]
      /\ permits' = permits + Cardinality(S)
      /\ UNCHANGED <<subs, dlq, msg, handlers, watching, attempt, told>>
  BY DEF CancelPublish, wiring, call
<1>2. \A t \in Tasks : task'[t] \in {task[t], "cancelled"}
  BY <1>1
<1>3. \A q \in Pubs, s \in Subs : q # p => task'[<<q, s>>] = task[<<q, s>>]
  BY <1>1 DEF Tasks
<1>4. pub'[p] = "cancelled" /\ \A q \in Pubs : q # p => pub'[q] = pub[q]
  BY <1>1 DEF BusInv, Shape
<1>5. Shape'
  <2>1. pub' \in [Pubs -> {"idle", "sent", "ok", "deduped", "cancelled"}]
    BY <1>1 DEF BusInv, Shape
  <2>2. task' \in [Tasks -> Holding \cup Over \cup {"none", "queued"}]
    BY <1>1, <1>2 DEF BusInv, Shape, Over
  <2>3. \A t \in Tasks : task'[t] = "backoff" => attempt'[t] < MaxAttempts
    BY <1>1, <1>2 DEF BusInv, Shape
  <2>. QED
    BY <1>1, <2>1, <2>2, <2>3 DEF BusInv, Shape
<1>6. Permits'
  <2>1. R \subseteq Held /\ Held' = Held \ R
    <3>1. \A s \in Subs : <<p, s>> \in Tasks
      BY DEF Tasks
    <3>2. R \subseteq Held
      BY <3>1 DEF Held
    <3>3. ASSUME NEW t \in Tasks
          PROVE  t \in Held' <=> t \in Held /\ t \notin R
      <4>1. PICK q \in Pubs, s \in Subs : t = <<q, s>>
        BY DEF Tasks
      <4>2. t \in R <=> q = p /\ task[t] \in Holding
        BY <4>1
      <4>3. task'[t] = IF q = p /\ task[t] \in Holding \cup {"queued"}
                       THEN "cancelled" ELSE task[t]
        BY <1>1, <4>1
      <4>. QED
        BY <4>2, <4>3 DEF Held, Holding
    <3>4. Held \subseteq Tasks /\ Held' \subseteq Tasks
      BY DEF Held, Tasks
    <3>. QED
      BY <3>2, <3>3, <3>4
  <2>2. f \in Surjection(S, R) /\ f \in Injection(S, R)
    <3>1. f \in [S -> R] /\ \A t \in R : \E s \in S : f[s] = t
      OBVIOUS
    <3>2. \A a, b \in S : f[a] = f[b] => a = b
      OBVIOUS
    <3>. QED
      BY <3>1, <3>2 DEF Surjection, Injection, IsInjective
  <2>3. IsFiniteSet(S)
    BY FS_Subset, BusConstantsOK
  <2>. HIDE DEF S, R, f
  <2>4. IsFiniteSet(R) /\ Cardinality(R) = Cardinality(S) /\ Cardinality(S) \in Nat
    BY <2>2, <2>3, FS_Surjection, FS_CardinalityType
  <2>5. Cardinality(Held \cap R) = Cardinality(R)
    <3>1. Held \cap R = R
      BY <2>1
    <3>. QED
      BY <3>1
  <2>6. Cardinality(Held') = Cardinality(Held) - Cardinality(S)
    <3>1. Cardinality(Held \ R) = Cardinality(Held) - Cardinality(Held \cap R)
      BY HeldFinite, FS_Difference
    <3>. QED
      BY <2>1, <2>4, <2>5, <3>1
  <2>. QED
    BY <1>1, <2>4, <2>6, HeldFinite, BusConstantsOK DEF BusInv, Permits
<1>7. Delivery'
  <2>1. /\ \A q \in Pubs : handlers[q] \subseteq Subs
        /\ UNCHANGED <<handlers, watching, dlq>>
    BY <1>1 DEF BusInv, Shape
  <2>. QED
    BY <1>3, <1>4, <2>1 DEF BusInv, Delivery
<1>8. Failures'
  <2>1. UNCHANGED <<watching, attempt, told>> /\ \A q \in Pubs, s \in Subs : <<q, s>> \in Tasks
    BY <1>1 DEF Tasks
  <2>. QED
    BY <1>2, <2>1 DEF BusInv, Failures
<1>. QED
  BY <1>5, <1>6, <1>7, <1>8 DEF BusInv
-----------------------------------------------------------------------------
(* The whole bus.                                                          *)
IInv == BusInv /\ CacheInv /\ NoEarlyRedelivery

LEMMA InitInv == BusInit => IInv
<1>. SUFFICES ASSUME BusInit PROVE IInv
  OBVIOUS
<1>. USE BusConstantsOK
<1>1. Shape
  BY DEF BusInit, Shape, Holding, Over
<1>2. Permits
  <2>1. Held = {}
    BY DEF BusInit, Held, Holding
  <2>. QED
    BY <2>1, FS_EmptySet DEF BusInit, Permits
<1>3. Delivery /\ Failures
  BY DEF BusInit, Delivery, Failures, Tasks
<1>4. CacheInv
  <2>1. Cardinality(dedupe_set) = 0 /\ IsFiniteSet(dedupe_set)
    BY FS_EmptySet DEF BusInit
  <2>2. /\ registered = <<>> /\ dedupe_q = <<>> /\ Len(registered) = 0 /\ Len(dedupe_q) = 0
        /\ registered \in Seq(Keys)
    BY DEF BusInit
  <2>3. Recent(dedupe_q, registered, dedupe_set)
    BY <2>2 DEF Recent
  <2>. QED
    BY <2>1, <2>2, <2>3 DEF CacheInv
<1>5. NoEarlyRedelivery
  BY DEF BusInit, NoEarlyRedelivery
<1>. QED
  BY <1>1, <1>2, <1>3, <1>4, <1>5 DEF IInv, BusInv

\* Only a publication that goes out touches the cache.
LEMMA CacheKept ==
  ASSUME CacheInv, NoEarlyRedelivery, UNCHANGED cache
  PROVE  (CacheInv /\ NoEarlyRedelivery)'
BY DEF CacheInv, NoEarlyRedelivery, cache

LEMMA PublishCache ==
  ASSUME CacheInv, NoEarlyRedelivery, NEW p \in Pubs, Publish(p)
  PROVE  (CacheInv /\ NoEarlyRedelivery)'
<1>1. PICK m \in Messages :
        IF m.key = NoKey THEN UNCHANGED cache
        ELSE m.key \notin dedupe_set /\ remember(m.key)
  BY DEF Publish
<1>2. m.key \in Keys
  BY DEF Keys
<1>3. CASE m.key = NoKey
  BY <1>1, <1>3, CacheKept
<1>4. CASE m.key # NoKey
  <2>. DEFINE k == m.key
  <2>1. k \in Keys /\ k \notin dedupe_set /\ remember(k)
    BY <1>1, <1>2, <1>4
  <2>. HIDE DEF k
  <2>. QED
    BY <2>1, RememberInv, RememberApart
<1>. QED
  BY <1>3, <1>4

LEMMA NextInv == IInv /\ [BusNext]_bus_vars => IInv'
<1>. SUFFICES ASSUME IInv, [BusNext]_bus_vars PROVE IInv'
  OBVIOUS
<1>. USE DEF IInv
<1>1. ASSUME NEW s \in Subs, Subscribe(s)
      PROVE  IInv'
  <2>1. UNCHANGED cache
    BY <1>1 DEF Subscribe
  <2>. QED
    BY <1>1, <2>1, SubscribeInv, CacheKept
<1>2. ASSUME NEW d \in DlqSubs, SubscribeDlq(d)
      PROVE  IInv'
  <2>1. UNCHANGED cache
    BY <1>2 DEF SubscribeDlq
  <2>. QED
    BY <1>2, <2>1, SubscribeDlqInv, CacheKept
<1>3. ASSUME NEW p \in Pubs, PublishDeduped(p)
      PROVE  IInv'
  <2>1. UNCHANGED cache
    BY <1>3 DEF PublishDeduped
  <2>. QED
    BY <1>3, <2>1, PublishDedupedInv, CacheKept
<1>4. ASSUME NEW p \in Pubs, Publish(p)
      PROVE  IInv'
  BY <1>4, PublishInv, PublishCache
<1>5. ASSUME NEW p \in Pubs, Gathered(p)
      PROVE  IInv'
  <2>1. UNCHANGED cache
    BY <1>5 DEF Gathered
  <2>. QED
    BY <1>5, <2>1, GatheredInv, CacheKept
<1>6. ASSUME NEW p \in Pubs, CancelPublish(p)
      PROVE  IInv'
  <2>1. UNCHANGED cache
    BY <1>6 DEF CancelPublish
  <2>. QED
    BY <1>6, <2>1, CancelPublishInv, CacheKept
<1>7. ASSUME NEW t \in Tasks, Deliver(t)
      PROVE  IInv'
  <2>1. UNCHANGED cache
    BY <1>7 DEF Deliver, Acquire, HandlerReturns, HandlerRaises, Retry, TellDlq, Fail
  <2>. QED
    BY <1>7, <2>1, DeliverInv, CacheKept
<1>8. CASE UNCHANGED bus_vars
  <2>1. UNCHANGED cache
    BY <1>8 DEF bus_vars, cache
  <2>2. BusInv'
    BY <1>8 DEF bus_vars, BusInv, Shape, Permits, Held, Delivery, Failures
  <2>. QED
    BY <2>1, <2>2, CacheKept
<1>. QED
  BY <1>1, <1>2, <1>3, <1>4, <1>5, <1>6, <1>7, <1>8 DEF BusNext

(* The bus is in a state of its types whatever the publishers, subscribers *)
(* and handlers of AsyncEventBus do: no more permits come back to the      *)
(* semaphore than were taken, a publisher's cancellation included.         *)
THEOREM BusTyped == BusSpec => []BusTypeOK
<1>1. IInv => BusTypeOK
  <2>. SUFFICES ASSUME IInv PROVE BusTypeOK
    OBVIOUS
  <2>1. permits \in 0..TopicConcurrency
    BY HeldFinite, BusConstantsOK DEF IInv, BusInv, Permits
  <2>2. dedupe_q \in Seq({m.key : m \in Messages})
    BY DEF IInv, CacheInv, Recent, Keys
  <2>. QED
    BY <2>1, <2>2 DEF IInv, BusInv, Shape, BusTypeOK
<1>. QED
  BY InitInv, NextInv, <1>1, PTL DEF BusSpec

(* When publish() returns ok, every handler it matched has returned, or    *)
(* was called max_attempts times and everybody who listened to the dead    *)
(* letter queue when it began was told: _emit_to_dlq leaves nobody out.    *)
THEOREM NothingIsLost == BusSpec => []Accounted
<1>1. IInv => Accounted
  <2>. SUFFICES ASSUME IInv, NEW p \in Pubs, pub[p] = "ok", NEW s \in handlers[p]
                PROVE  \/ task[p, s] = "delivered"
                       \/ /\ task[p, s] = "failed"
                          /\ attempt[p, s] = MaxAttempts
                          /\ watching[p] \subseteq told[p, s]
    BY DEF Accounted
  <2>1. s \in Subs /\ task[<<p, s>>] \in {"delivered", "failed"}
    BY DEF IInv, BusInv, Shape, Delivery
  <2>2. task[<<p, s>>] = "failed" => /\ attempt[<<p, s>>] = MaxAttempts
                                     /\ watching[p] \subseteq told[<<p, s>>]
    BY <2>1 DEF IInv, BusInv, Failures
  <2>. QED
    BY <2>1, <2>2, Zenon
<1>. QED
  BY InitInv, NextInv, <1>1, PTL DEF BusSpec

(* Between two deliveries of one key, dedupe_size - 1 others came in,      *)
(* although the deque and the set of _remember part ways when it is full.  *)
THEOREM RedeliveryTakesOthers == BusSpec => []NoEarlyRedelivery
<1>1. IInv => NoEarlyRedelivery
  BY DEF IInv
<1>. QED
  BY InitInv, NextInv, <1>1, PTL DEF BusSpec
-----------------------------------------------------------------------------
(* Backups.  A job has its name to itself until two have met, so what it   *)
(* has looked at stays as it was, or is gone.  The copy of the database is *)
(* sound from its making to the last restoration that wants it, as long as *)
(* none is begun of half a database, which one restoration at a time does  *)
(* not do unless it follows one that died; the library never writes a part.*)
Files == [form : {"none", "whole", "part", "empty"}, of : Int]
CliStages == {"unzip", "check", "safety", "saving", "copy", "copying"}
LibraryStages == {"keep", "replace"}
BothStages == {"idle", "raw", "gz", "unlink", "sum"}
Works(i) == job[i].stage # "idle"
Raw(i) == files[job[i].name]["raw"]

BackupsTyped ==
  /\ tool \in {"cli", "library"} /\ second \in Names
  /\ clash \in BOOLEAN /\ retried \in BOOLEAN /\ midway \in BOOLEAN
  /\ app \in BOOLEAN /\ wal \in BOOLEAN
  /\ db \in Files /\ safety \in Files
  /\ files \in [Names -> [Exts -> Files]]
  /\ job \in [Jobs -> [stage : BothStages \cup (IF tool = "cli" THEN CliStages ELSE LibraryStages),
                       name : Names, ext : Exts]]
  /\ \A i \in Jobs : job[i].stage = "idle" => job[i] = Idle

Looked(i) ==
  /\ job[i].stage \in {"safety", "saving", "copy", "copying"} => Raw(i).form # "part"
  /\ job[i].stage = "copying" => Raw(i).form # "none"

OwnNames == \A i, k \in Jobs : Works(i) /\ Works(k) /\ i # k => job[i].name # job[k].name

OneRestores == \A i, k \in Jobs : job[i].stage \in Restoring /\ job[k].stage \in Restoring => i = k

NoParts == db.form # "part" /\ \A n \in Names, ext \in Exts : files[n][ext].form # "part"

Apart ==
  /\ OwnNames /\ OneRestores /\ db.form # "none" /\ \A i \in Jobs : Looked(i)
  /\ tool = "library" => NoParts

CopyKept ==
  /\ (\E i \in Jobs : job[i].stage \in {"copy", "copying"}) => Sound(safety)
  /\ (\E i \in Jobs : job[i].stage = "saving") => db.form # "part"
  /\ db.form = "part" => midway /\ Sound(safety)

BackupsInv == BackupsTyped /\ (~clash => Apart) /\ (~clash /\ ~retried => CopyKept)

Stages == BothStages \cup (IF tool = "cli" THEN CliStages ELSE LibraryStages)
JobsTyped == job \in [Jobs -> [stage : Stages, name : Names, ext : Exts]]

\* What the steps of a job change.
LEMMA StageIs ==
  ASSUME BackupsTyped, NEW j \in Jobs, NEW s \in Stages \ {"idle"}, Stage(j, s), tool' = tool
  PROVE  /\ \A i \in Jobs : job'[i] = IF i = j THEN [stage |-> s, name |-> job[j].name, ext |-> job[j].ext]
                                               ELSE job[i]
         /\ JobsTyped' /\ \A i \in Jobs : job'[i].stage = "idle" => job'[i] = Idle
<1>1. job \in [Jobs -> [stage : Stages, name : Names, ext : Exts]] /\ Stages' = Stages
  BY DEF BackupsTyped, Stages
<1>2. job[j] \in [stage : Stages, name : Names, ext : Exts] /\ job' = [job EXCEPT ![j].stage = s]
  BY <1>1 DEF Stage
<1>3. [job[j] EXCEPT !.stage = s] = [stage |-> s, name |-> job[j].name, ext |-> job[j].ext]
  BY <1>2
<1>4. \A i \in Jobs : job'[i] = IF i = j THEN [job[j] EXCEPT !.stage = s] ELSE job[i]
  BY <1>1, <1>2
<1>5. \A i \in Jobs : job'[i] = IF i = j THEN [stage |-> s, name |-> job[j].name, ext |-> job[j].ext]
                                         ELSE job[i]
  BY <1>3, <1>4
<1>. DEFINE x == [stage |-> s, name |-> job[j].name, ext |-> job[j].ext]
            S == [stage : Stages, name : Names, ext : Exts]
<1>6. x \in S
  BY <1>2
<1>7. job \in [Jobs -> S] /\ \A i \in Jobs : job'[i] = IF i = j THEN x ELSE job[i]
  BY <1>1, <1>5
<1>8. job' = [i \in Jobs |-> job'[i]]
  BY <1>1, <1>2
<1>. HIDE DEF x, S
<1>9. job' \in [Jobs -> S]
  BY <1>6, <1>7, <1>8
<1>. QED
  BY <1>1, <1>5, <1>9 DEF BackupsTyped, JobsTyped, S

LEMMA FinishIs ==
  ASSUME BackupsTyped, NEW j \in Jobs, Finish(j), tool' = tool
  PROVE  /\ \A i \in Jobs : job'[i] = IF i = j THEN Idle ELSE job[i]
         /\ JobsTyped' /\ \A i \in Jobs : job'[i].stage = "idle" => job'[i] = Idle
<1>1. job \in [Jobs -> [stage : Stages, name : Names, ext : Exts]] /\ Stages' = Stages
  BY DEF BackupsTyped, Stages
<1>2. Idle \in [stage : Stages, name : Names, ext : Exts]
  BY LastSecondOK DEF Idle, Stages, BothStages, Names, Exts
<1>. QED
  BY <1>1, <1>2 DEF Finish, BackupsTyped, JobsTyped

LEMMA SetIs ==
  ASSUME BackupsTyped, NEW j \in Jobs, NEW ext \in Exts, NEW f \in Files, Set(j, ext, f)
  PROVE  /\ files' \in [Names -> [Exts -> Files]]
         /\ \A n \in Names, e \in Exts :
              files'[n][e] = IF n = job[j].name /\ e = ext THEN f ELSE files[n][e]
         /\ \A n \in Names : n # job[j].name => files'[n] = files[n]
<1>1. job[j].name \in Names /\ files \in [Names -> [Exts -> Files]]
  BY DEF BackupsTyped
<1>. DEFINE m == job[j].name
<1>2. files' = [files EXCEPT ![m][ext] = f] /\ m \in Names
  BY <1>1 DEF Set
<1>. HIDE DEF m
<1>3. \A n \in Names : files'[n] = IF n = m THEN [files[m] EXCEPT ![ext] = f] ELSE files[n]
  BY <1>1, <1>2
<1>4. files[m] \in [Exts -> Files]
  BY <1>1, <1>2
<1>5. files' \in [Names -> [Exts -> Files]]
  BY <1>1, <1>2, <1>4
<1>. QED
  BY <1>1, <1>3, <1>4, <1>5 DEF m

\* A job that goes on leaves the files of others alone.
LEMMA JobStep ==
  ASSUME BackupsInv, NEW j \in Jobs, Works(j), ~clash', ~clash, tool' = tool,
         files' \in [Names -> [Exts -> Files]], JobsTyped',
         \A i \in Jobs \ {j} : job'[i] = job[i],
         job'[j] = Idle \/ job'[j].name = job[j].name,
         \A n \in Names : n # job[j].name => files'[n] = files[n],
         job'[j] = Idle \/ Looked(j)', db'.form # "none", tool = "library" => NoParts',
         job'[j].stage \in Restoring =>
           job[j].stage \in Restoring \/ \A i \in Jobs \ {j} : job[i].stage \notin Restoring
  PROVE  Apart'
<1>1. \A i \in Jobs : job[i].name \in Names /\ job'[i].name \in Names
  BY DEF BackupsInv, BackupsTyped, JobsTyped
<1>2. OwnNames /\ OneRestores /\ \A i \in Jobs : Looked(i)
  BY DEF BackupsInv, Apart
<1>3. OwnNames'
  BY <1>2 DEF OwnNames, Works, Idle
<1>6. OneRestores'
  BY <1>2 DEF OneRestores
<1>4. ASSUME NEW i \in Jobs \ {j}, Works(i) PROVE Looked(i)'
  <2>1. job[i].name # job[j].name
    BY <1>2, <1>4 DEF OwnNames
  <2>2. files'[job[i].name] = files[job[i].name] /\ job'[i] = job[i]
    BY <1>1, <2>1
  <2>. QED
    BY <1>2, <2>2 DEF Looked, Raw
<1>5. ASSUME NEW i \in Jobs, job'[i].stage = "idle" PROVE Looked(i)'
  BY <1>5 DEF Looked
<1>. QED
  BY <1>3, <1>4, <1>5, <1>6 DEF Apart, Works, Idle

LEMMA CopyStays ==
  ASSUME BackupsInv, NEW j \in Jobs, \A i \in Jobs \ {j} : job'[i] = job[i],
         job'[j].stage \notin Restoring,
         UNCHANGED <<db, safety, retried, clash, midway>>
  PROVE  ~clash' /\ ~retried' => CopyKept'
BY DEF BackupsInv, CopyKept, Sound, Restoring

\* A job that begins.
LEMMA TakeInv ==
  ASSUME BackupsInv, NEW j \in Jobs,
         NEW r \in [stage : Stages \ {"idle", "safety", "saving", "copy", "copying"}, name : Names, ext : Exts],
         Take(j, r),
         UNCHANGED <<second, tool, app, wal, db, safety, files, retried, midway>>
  PROVE  BackupsInv'
<1>1. /\ \A i \in Jobs : job'[i] = IF i = j THEN r ELSE job[i]
      /\ job' \in [Jobs -> [stage : Stages, name : Names, ext : Exts]] /\ Stages' = Stages
      /\ job[j] = Idle
  BY DEF Take, BackupsInv, BackupsTyped, Stages
<1>2. clash' = (clash \/ \E i \in Jobs \ {j} : job[i] # Idle /\ job[i].name = r.name)
  BY DEF Take
<1>3. r.stage \notin {"idle", "safety", "saving", "copy", "copying"}
  OBVIOUS
<1>4. BackupsTyped'
  BY <1>1, <1>2, <1>3 DEF BackupsInv, BackupsTyped, Stages
<1>5. ~clash' => Apart'
  <2>. SUFFICES ASSUME ~clash' PROVE Apart'
    OBVIOUS
  <2>0. ~(clash \/ \E i \in Jobs \ {j} : job[i] # Idle /\ job[i].name = r.name)
    BY <1>2
  <2>1. ~clash /\ \A i \in Jobs \ {j} : Works(i) => job[i].name # r.name
    BY <2>0 DEF Works, Idle
  <2>2. OwnNames'
    BY <1>1, <2>1 DEF OwnNames, Works, BackupsInv, Apart
  <2>3. \A i \in Jobs : Looked(i)'
    BY <1>1, <1>3, <2>1 DEF Looked, Raw, BackupsInv, Apart
  <2>4. OneRestores'
    BY <1>1, <1>3, <2>1 DEF OneRestores, Restoring, BackupsInv, Apart
  <2>. QED
    BY <2>1, <2>2, <2>3, <2>4 DEF BackupsInv, Apart, NoParts
<1>6. ~clash' /\ ~retried' => CopyKept'
  BY <1>1, <1>2, <1>3 DEF BackupsInv, CopyKept, Sound
<1>. QED
  BY <1>4, <1>5, <1>6 DEF BackupsInv

\* A step of one job on the files of its name.
LEMMA FileStep ==
  ASSUME BackupsInv, NEW j \in Jobs, Works(j), Fixed, UNCHANGED <<db, safety, retried>>,
         files' \in [Names -> [Exts -> Files]],
         JobsTyped', \A i \in Jobs : job'[i].stage = "idle" => job'[i] = Idle,
         \A i \in Jobs \ {j} : job'[i] = job[i],
         job'[j] = Idle \/ (job'[j].name = job[j].name /\ job'[j].stage \notin Restoring),
         \A n \in Names : n # job[j].name => files'[n] = files[n],
         ~clash => (job'[j] = Idle \/ Looked(j)') /\ (tool = "library" => NoParts')
  PROVE  BackupsInv'
<1>1. BackupsTyped'
  BY DEF BackupsInv, BackupsTyped, JobsTyped, Stages, Fixed
<1>2. ~clash' => Apart'
  <2>. SUFFICES ASSUME ~clash' PROVE Apart'
    OBVIOUS
  <2>1. ~clash /\ db'.form # "none"
    BY DEF Fixed, BackupsInv, Apart
  <2>2. job'[j].stage \notin Restoring
    BY DEF Idle, Restoring
  <2>. QED
    BY <2>1, <2>2, JobStep DEF Fixed
<1>3. ~clash' /\ ~retried' => CopyKept'
  BY CopyStays DEF Fixed, Idle, Restoring
<1>. QED
  BY <1>1, <1>2, <1>3 DEF BackupsInv

\* A step that ends with the files as they were.
LEMMA FinishedInv ==
  ASSUME BackupsInv, NEW j \in Jobs, Works(j), Fixed, Finish(j), UNCHANGED <<db, safety, files, retried>>
  PROVE  BackupsInv'
<1>1. /\ BackupsTyped /\ tool' = tool /\ files' \in [Names -> [Exts -> Files]]
      /\ \A n \in Names : files'[n] = files[n]
  BY DEF BackupsInv, BackupsTyped, Fixed
<1>2. /\ \A i \in Jobs : job'[i] = IF i = j THEN Idle ELSE job[i]
      /\ JobsTyped' /\ \A i \in Jobs : job'[i].stage = "idle" => job'[i] = Idle
  BY <1>1, FinishIs
<1>3. ~clash /\ tool = "library" => NoParts'
  BY DEF BackupsInv, Apart, NoParts
<1>. QED
  BY <1>1, <1>2, <1>3, FileStep

\* A step that goes on to another stage with the files as they were.
LEMMA StagedInv ==
  ASSUME BackupsInv, NEW j \in Jobs, Works(j), Fixed, UNCHANGED <<db, safety, files, retried>>,
         NEW s \in Stages \ {"idle", "saving", "copy", "copying"}, Stage(j, s),
         s = "safety" => Raw(j).form # "part"
  PROVE  BackupsInv'
<1>1. /\ BackupsTyped /\ tool' = tool /\ files' \in [Names -> [Exts -> Files]]
      /\ \A n \in Names : files'[n] = files[n]
  BY DEF BackupsInv, BackupsTyped, Fixed
<1>2. /\ \A i \in Jobs : job'[i] = IF i = j THEN [stage |-> s, name |-> job[j].name, ext |-> job[j].ext]
                                            ELSE job[i]
      /\ JobsTyped' /\ \A i \in Jobs : job'[i].stage = "idle" => job'[i] = Idle
  BY <1>1, StageIs
<1>3. ~clash /\ tool = "library" => NoParts'
  BY DEF BackupsInv, Apart, NoParts
<1>4. Looked(j)' /\ s \notin Restoring
  BY <1>2 DEF Looked, Raw, Restoring
<1>. QED
  BY <1>1, <1>2, <1>3, <1>4, FileStep

\* A step that ends, or goes on, with one more file or one less.
LEMMA WrittenInv ==
  ASSUME BackupsInv, NEW j \in Jobs, Works(j), Fixed, UNCHANGED <<db, safety, retried>>,
         NEW ext \in Exts, NEW f \in Files, Set(j, ext, f),
         NEW s \in Stages \ {"safety", "saving", "copy", "copying"},
         IF s = "idle" THEN Finish(j) ELSE Stage(j, s),
         ~clash /\ tool = "library" => f.form # "part"
  PROVE  BackupsInv'
<1>1. BackupsTyped /\ tool' = tool
  BY DEF BackupsInv, Fixed
<1>2. /\ files' \in [Names -> [Exts -> Files]]
      /\ \A n \in Names, e \in Exts : files'[n][e] = IF n = job[j].name /\ e = ext THEN f ELSE files[n][e]
      /\ \A n \in Names : n # job[j].name => files'[n] = files[n]
  BY <1>1, SetIs
<1>3. ~clash /\ tool = "library" => NoParts'
  BY <1>2 DEF BackupsInv, Apart, NoParts
<1>4. CASE s = "idle"
  <2>1. /\ \A i \in Jobs : job'[i] = IF i = j THEN Idle ELSE job[i]
        /\ JobsTyped' /\ \A i \in Jobs : job'[i].stage = "idle" => job'[i] = Idle
    BY <1>1, <1>4, FinishIs
  <2>. QED
    BY <1>2, <1>3, <2>1, FileStep
<1>5. CASE s # "idle"
  <2>1. /\ \A i \in Jobs : job'[i] = IF i = j THEN [stage |-> s, name |-> job[j].name, ext |-> job[j].ext]
                                              ELSE job[i]
        /\ JobsTyped' /\ \A i \in Jobs : job'[i].stage = "idle" => job'[i] = Idle
    BY <1>1, <1>5, StageIs
  <2>2. Looked(j)' /\ s \notin Restoring
    BY <2>1 DEF Looked, Restoring
  <2>. QED
    BY <1>2, <1>3, <2>1, <2>2, FileStep
<1>. QED
  BY <1>4, <1>5

LEMMA NoneIsFile == None \in Files /\ None.form # "part"
BY DEF None, Files

LEMMA BackupInv ==
  ASSUME BackupsInv, NEW j \in Jobs, Backup(j)
  PROVE  BackupsInv'
<1>. DEFINE r == [stage |-> "raw", name |-> second, ext |-> IF compress THEN "gz" ELSE "raw"]
<1>1. r \in [stage : Stages \ {"idle", "safety", "saving", "copy", "copying"}, name : Names, ext : Exts]
  BY DEF BackupsInv, BackupsTyped, Stages, BothStages, Exts
<1>2. Take(j, r) /\ UNCHANGED <<second, tool, app, wal, db, safety, files, retried, midway>>
  BY DEF Backup
<1>. HIDE DEF r
<1>. QED
  BY <1>1, <1>2, TakeInv

LEMMA RestoreInv ==
  ASSUME BackupsInv, NEW j \in Jobs, NEW n \in Names, NEW ext \in Exts, Restore(j, n, ext)
  PROVE  BackupsInv'
<1>. DEFINE r == [stage |-> IF tool = "library" THEN "replace"
                            ELSE IF ext = "gz" THEN "unzip" ELSE "check",
                  name |-> n, ext |-> ext]
<1>1. r \in [stage : Stages \ {"idle", "safety", "saving", "copy", "copying"}, name : Names, ext : Exts]
  BY DEF BackupsInv, BackupsTyped, Stages, BothStages, CliStages, LibraryStages
<1>2. Take(j, r) /\ UNCHANGED <<second, tool, app, wal, db, safety, files, retried, midway>>
  BY DEF Restore
<1>. HIDE DEF r
<1>. QED
  BY <1>1, <1>2, TakeInv

LEMMA CopiedInv ==
  ASSUME BackupsInv, NEW j \in Jobs, Copied(j)
  PROVE  BackupsInv'
<1>1. /\ Works(j) /\ Set(j, "raw", db) /\ Stage(j, IF compress THEN "gz" ELSE "sum")
      /\ Fixed /\ UNCHANGED <<db, safety, retried>> /\ db \in Files /\ "raw" \in Exts
  BY DEF Copied, Works, Exts, BackupsInv, BackupsTyped
<1>2. {"gz", "sum"} \subseteq Stages \ {"idle", "safety", "saving", "copy", "copying"}
  BY DEF Stages, BothStages
<1>3. ~clash /\ tool = "library" => db.form # "part"
  BY DEF BackupsInv, Apart, NoParts
<1>. QED
  BY <1>1, <1>2, <1>3, WrittenInv

LEMMA CompressedInv ==
  ASSUME BackupsInv, NEW j \in Jobs, Compressed(j)
  PROVE  BackupsInv'
<1>1. /\ Works(j) /\ Fixed /\ UNCHANGED <<db, safety, retried>>
      /\ Raw(j) \in Files /\ "gz" \in Exts /\ "unlink" \in Stages
  BY DEF Compressed, Works, BackupsInv, BackupsTyped, Exts, Raw, Stages, BothStages
<1>2. CASE Has(j, "raw")
  <2>1. Set(j, "gz", Raw(j)) /\ Stage(j, "unlink")
    BY <1>2 DEF Compressed, Raw
  <2>2. ~clash /\ tool = "library" => Raw(j).form # "part"
    BY DEF BackupsInv, BackupsTyped, Apart, NoParts, Exts, Raw
  <2>. QED
    BY <1>1, <2>1, <2>2, WrittenInv
<1>3. CASE ~Has(j, "raw")
  BY <1>1, <1>3, FinishedInv DEF Compressed
<1>. QED
  BY <1>2, <1>3

LEMMA UnlinkedInv ==
  ASSUME BackupsInv, NEW j \in Jobs, Unlinked(j)
  PROVE  BackupsInv'
<1>1. /\ Works(j) /\ Fixed /\ UNCHANGED <<db, safety, retried>> /\ Set(j, "raw", None)
      /\ Stage(j, "sum") /\ "raw" \in Exts /\ "sum" \in Stages
  BY DEF Unlinked, Works, Exts, Stages, BothStages
<1>. QED
  BY <1>1, NoneIsFile, WrittenInv

LEMMA SummedInv ==
  ASSUME BackupsInv, NEW j \in Jobs, Summed(j)
  PROVE  BackupsInv'
<1>1. Works(j) /\ Fixed /\ UNCHANGED <<db, safety, files, retried>>
  BY DEF Summed, Works
<1>2. CASE tool = "library" /\ Has(j, job[j].ext)
  <2>1. Stage(j, "keep") /\ "keep" \in Stages
    BY <1>2 DEF Summed, Stages, LibraryStages
  <2>. QED
    BY <1>1, <2>1, StagedInv
<1>3. CASE ~(tool = "library" /\ Has(j, job[j].ext))
  <2>1. Finish(j)
    BY <1>3 DEF Summed
  <2>. QED
    BY <1>1, <2>1, FinishedInv
<1>. QED
  BY <1>2, <1>3

\* Only the tool has files that are parts, and looks at them.
LEMMA CliStage ==
  ASSUME BackupsInv, NEW j \in Jobs, job[j].stage \in CliStages
  PROVE  tool = "cli" /\ CliStages \subseteq Stages /\ "raw" \in Exts
BY DEF BackupsInv, BackupsTyped, CliStages, LibraryStages, BothStages, Stages, Exts

LEMMA UnzipInv ==
  ASSUME BackupsInv, NEW j \in Jobs, Unzip(j)
  PROVE  BackupsInv'
<1>1. /\ Works(j) /\ Fixed /\ UNCHANGED <<db, safety, retried>>
      /\ files[job[j].name].gz \in Files /\ job[j].stage \in CliStages
  BY DEF Unzip, Works, BackupsInv, BackupsTyped, Exts, CliStages
<1>2. tool = "cli" /\ "check" \in Stages /\ "idle" \in Stages /\ "raw" \in Exts
  BY <1>1, CliStage DEF CliStages, Stages, BothStages
<1>3. CASE Has(j, "gz")
  <2>. DEFINE f == files[job[j].name].gz
  <2>1. Set(j, "raw", f) /\ (Finish(j) \/ Stage(j, "check"))
    BY <1>3 DEF Unzip
  <2>. HIDE DEF f
  <2>2. CASE Finish(j)
    <3>. DEFINE s == "idle"
    <3>1. s \in Stages \ {"safety", "saving", "copy", "copying"} /\ (IF s = "idle" THEN Finish(j) ELSE Stage(j, s))
      BY <1>2, <2>2
    <3>. QED
      BY <1>1, <1>2, <2>1, <3>1, WrittenInv DEF f
  <2>3. CASE Stage(j, "check")
    <3>. DEFINE s == "check"
    <3>1. s \in Stages \ {"safety", "saving", "copy", "copying"} /\ (IF s = "idle" THEN Finish(j) ELSE Stage(j, s))
      BY <1>2, <2>3
    <3>. QED
      BY <1>1, <1>2, <2>1, <3>1, WrittenInv DEF f
  <2>. QED
    BY <2>1, <2>2, <2>3
<1>4. CASE ~Has(j, "gz")
  BY <1>1, <1>4, FinishedInv DEF Unzip
<1>. QED
  BY <1>3, <1>4

LEMMA CheckInv ==
  ASSUME BackupsInv, NEW j \in Jobs, Check(j)
  PROVE  BackupsInv'
<1>1. /\ Works(j) /\ Fixed /\ UNCHANGED <<db, safety, retried>> /\ job[j].stage \in CliStages
  BY DEF Check, Works, CliStages
<1>2. "safety" \in Stages /\ "idle" \in Stages /\ "raw" \in Exts
  BY <1>1, CliStage DEF CliStages, Stages, BothStages
<1>3. CASE Sound(Raw(j))
  <2>1. Stage(j, "safety") /\ UNCHANGED files /\ Raw(j).form # "part"
    BY <1>3 DEF Check, Raw, Sound
  <2>. QED
    BY <1>1, <1>2, <2>1, StagedInv
<1>4. CASE ~Sound(Raw(j))
  <2>1. Finish(j) /\ (UNCHANGED files \/ Set(j, "raw", None))
    BY <1>4 DEF Check, Raw, Drop
  <2>2. CASE UNCHANGED files
    BY <1>1, <2>1, <2>2, FinishedInv
  <2>3. CASE Set(j, "raw", None)
    <3>. DEFINE s == "idle"
    <3>1. s \in Stages \ {"safety", "saving", "copy", "copying"} /\ (IF s = "idle" THEN Finish(j) ELSE Stage(j, s))
      BY <1>2, <2>1
    <3>. QED
      BY <1>1, <1>2, <2>3, <3>1, NoneIsFile, WrittenInv
  <2>. QED
    BY <2>1, <2>2, <2>3
<1>. QED
  BY <1>3, <1>4

\* The library keeps the newest: it looks at no file, and writes no part.
LEMMA KeepLastInv ==
  ASSUME BackupsInv, NEW j \in Jobs, KeepLast(j)
  PROVE  BackupsInv'
<1>1. /\ Works(j) /\ Fixed /\ UNCHANGED <<db, safety, retried>> /\ Finish(j)
      /\ BackupsTyped /\ tool' = tool /\ tool = "library"
  BY DEF KeepLast, Works, Fixed, BackupsInv, BackupsTyped, BothStages, CliStages
<1>2. /\ \A i \in Jobs : job'[i] = IF i = j THEN Idle ELSE job[i]
      /\ JobsTyped' /\ \A i \in Jobs : job'[i].stage = "idle" => job'[i] = Idle
  BY <1>1, FinishIs
<1>3. /\ files' \in [Names -> [Exts -> Files]]
      /\ \A n \in Names, ext \in Exts : files'[n][ext] \in {None, files[n][ext]}
  <2>1. files' = [n \in Names |-> [ext \in Exts |->
                   IF NewerThan(n, ext) >= keep THEN None ELSE files[n][ext]]]
    BY DEF KeepLast
  <2>. QED
    BY <2>1, <1>1, NoneIsFile DEF BackupsTyped
<1>4. BackupsTyped'
  BY <1>1, <1>2, <1>3 DEF BackupsTyped, JobsTyped, Stages, Fixed
<1>5. ~clash' => Apart'
  <2>. SUFFICES ASSUME ~clash' PROVE Apart'
    OBVIOUS
  <2>1. Apart /\ clash' = clash
    BY <1>1 DEF Fixed, BackupsInv
  <2>2. OwnNames'
    BY <2>1, <1>2 DEF Apart, OwnNames, Works, Idle
  <2>3. NoParts' /\ db'.form # "none"
    BY <2>1, <1>1, <1>3, NoneIsFile DEF Apart, NoParts
  <2>4. \A i \in Jobs : job'[i].stage \notin {"safety", "saving", "copy", "copying"}
    BY <1>1, <1>2 DEF JobsTyped, Stages, BothStages, LibraryStages
  <2>. QED
    BY <2>2, <2>3, <2>4 DEF Apart, Looked, OneRestores, Restoring
<1>6. ~clash' /\ ~retried' => CopyKept'
  BY <1>1, <1>2, CopyStays DEF Fixed, Idle, Restoring
<1>. QED
  BY <1>4, <1>5, <1>6 DEF BackupsInv

\* A restoration that meets nobody leaves the files of others alone.
LEMMA MeetsNobody ==
  ASSUME BackupsInv, Meets, ~clash'
  PROVE  ~clash /\ ~app /\ ~wal /\ Apart
<1>1. ~(clash \/ app \/ wal)
  BY Zenon DEF Meets
<1>2. ~clash
  BY <1>1
<1>3. Apart
  BY <1>2 DEF BackupsInv
<1>. QED
  BY <1>1, <1>3

LEMMA PartIsFile ==
  ASSUME NEW f \in Files
  PROVE  File("part", f.of) \in Files /\ File("part", f.of).form = "part"
BY DEF File, Files

LEMMA SafetyCopyInv ==
  ASSUME BackupsInv, NEW j \in Jobs, SafetyCopy(j)
  PROVE  BackupsInv'
<1>1. /\ Works(j) /\ Stage(j, "saving") /\ job[j].stage \in CliStages
      /\ BackupsTyped /\ UNCHANGED <<second, tool, app, wal, db, files, midway>>
      /\ safety' = File("part", db.of)
  BY DEF SafetyCopy, Works, CliStages, BackupsInv
<1>2. tool = "cli" /\ "saving" \in Stages \ {"idle"}
  BY <1>1, CliStage DEF CliStages
<1>3. /\ \A i \in Jobs : job'[i] = IF i = j THEN [stage |-> "saving", name |-> job[j].name, ext |-> job[j].ext]
                                            ELSE job[i]
      /\ JobsTyped' /\ \A i \in Jobs : job'[i].stage = "idle" => job'[i] = Idle
  BY <1>1, <1>2, StageIs
<1>4. /\ clash' = (clash \/ app \/ wal \/ \E i \in Jobs \ {j} : job[i].stage \in Restoring)
      /\ retried' = (retried \/ db.form = "part")
  BY DEF SafetyCopy
<1>5. BackupsTyped'
  <2>1. clash' \in BOOLEAN /\ retried' \in BOOLEAN /\ safety' \in Files
    BY <1>1, <1>4, PartIsFile DEF BackupsTyped
  <2>. QED
    BY <1>1, <1>3, <2>1 DEF BackupsTyped, JobsTyped, Stages
<1>6. ~clash' => ~clash /\ Apart /\ \A i \in Jobs \ {j} : job[i].stage \notin Restoring
  <2>. SUFFICES ASSUME ~clash' PROVE ~clash /\ Apart /\ \A i \in Jobs \ {j} : job[i].stage \notin Restoring
    OBVIOUS
  <2>1. ~(clash \/ app \/ wal \/ \E i \in Jobs \ {j} : job[i].stage \in Restoring)
    BY Zenon, <1>4
  <2>. QED
    BY <2>1 DEF BackupsInv
<1>7. ~clash' => Apart'
  <2>. SUFFICES ASSUME ~clash' PROVE Apart'
    OBVIOUS
  <2>1. Looked(j)'
    BY <1>1, <1>3, <1>6 DEF Looked, Raw, Apart, SafetyCopy
  <2>. QED
    BY <1>1, <1>2, <1>3, <1>5, <1>6, <2>1, JobStep DEF BackupsTyped, Apart
<1>8. ~clash' /\ ~retried' => CopyKept'
  <2>. SUFFICES ASSUME ~clash', ~retried' PROVE CopyKept'
    OBVIOUS
  <2>1. ~(retried \/ db.form = "part")
    BY Zenon, <1>4
  <2>2. \A i \in Jobs : job'[i].stage \notin {"copy", "copying"}
    BY <1>3, <1>6 DEF Restoring
  <2>. QED
    BY <1>1, <2>1, <2>2 DEF CopyKept
<1>. QED
  BY <1>5, <1>7, <1>8 DEF BackupsInv

LEMMA SafetyCopiedInv ==
  ASSUME BackupsInv, NEW j \in Jobs, SafetyCopied(j)
  PROVE  BackupsInv'
<1>1. /\ Works(j) /\ Stage(j, "copy") /\ job[j].stage = "saving" /\ job[j].stage \in CliStages
      /\ BackupsTyped /\ UNCHANGED <<second, tool, app, wal, db, files, retried, midway>>
  BY DEF SafetyCopied, Works, CliStages, BackupsInv
<1>2. tool = "cli" /\ "copy" \in Stages \ {"idle"}
  BY <1>1, CliStage DEF CliStages
<1>3. /\ \A i \in Jobs : job'[i] = IF i = j THEN [stage |-> "copy", name |-> job[j].name, ext |-> job[j].ext]
                                            ELSE job[i]
      /\ JobsTyped' /\ \A i \in Jobs : job'[i].stage = "idle" => job'[i] = Idle
  BY <1>1, <1>2, StageIs
<1>4. /\ clash' = (clash \/ app \/ wal \/ db.of # safety.of)
      /\ safety' = IF wal \/ db.of # safety.of THEN File("part", db.of) ELSE db
  BY DEF SafetyCopied
<1>5. BackupsTyped'
  <2>1. clash' \in BOOLEAN /\ safety' \in Files
    BY <1>1, <1>4, PartIsFile DEF BackupsTyped
  <2>. QED
    BY <1>1, <1>3, <2>1 DEF BackupsTyped, JobsTyped, Stages
<1>6. ~clash' => ~clash /\ Apart /\ safety' = db
  <2>. SUFFICES ASSUME ~clash' PROVE ~clash /\ Apart /\ safety' = db
    OBVIOUS
  <2>1. ~(clash \/ app \/ wal \/ db.of # safety.of)
    BY Zenon, <1>4
  <2>. QED
    BY <1>4, <2>1 DEF BackupsInv
<1>7. ~clash' => Apart'
  <2>. SUFFICES ASSUME ~clash' PROVE Apart'
    OBVIOUS
  <2>1. Looked(j)' /\ job[j].stage \in Restoring
    BY <1>1, <1>3, <1>6 DEF Looked, Raw, Apart, Restoring
  <2>. QED
    BY <1>1, <1>2, <1>3, <1>5, <1>6, <2>1, JobStep DEF BackupsTyped, Apart
<1>8. ~clash' /\ ~retried' => CopyKept'
  <2>. SUFFICES ASSUME ~clash', ~retried' PROVE CopyKept'
    OBVIOUS
  <2>1. db.form # "part" /\ db.form # "none"
    BY <1>1, <1>6 DEF BackupsInv, CopyKept, Apart
  <2>. QED
    BY <1>1, <1>6, <2>1 DEF CopyKept, Sound, BackupsTyped, Files
<1>. QED
  BY <1>5, <1>7, <1>8 DEF BackupsInv

LEMMA OverwriteInv ==
  ASSUME BackupsInv, NEW j \in Jobs, Overwrite(j)
  PROVE  BackupsInv'
<1>1. /\ Works(j) /\ Meets /\ job[j].stage = "copy" /\ job[j].stage \in CliStages
      /\ BackupsTyped /\ UNCHANGED <<second, tool, app, wal, safety, retried, files>>
  BY DEF Overwrite, Same, Works, CliStages, BackupsInv
<1>2. tool = "cli" /\ "copying" \in Stages \ {"idle"}
  BY <1>1, CliStage DEF CliStages
<1>3. clash' \in BOOLEAN
  BY <1>1 DEF Meets, BackupsTyped
<1>4. CASE Has(j, "raw")
  <2>1. db' = File("part", db.of) /\ midway' = TRUE /\ Stage(j, "copying")
    BY <1>4 DEF Overwrite
  <2>2. /\ \A i \in Jobs : job'[i] = IF i = j THEN [stage |-> "copying", name |-> job[j].name, ext |-> job[j].ext]
                                              ELSE job[i]
        /\ JobsTyped' /\ \A i \in Jobs : job'[i].stage = "idle" => job'[i] = Idle
    BY <1>1, <1>2, <2>1, StageIs
  <2>3. db' \in Files /\ db'.form = "part"
    BY <1>1, <2>1, PartIsFile DEF BackupsTyped
  <2>4. BackupsTyped'
    BY <1>1, <1>3, <2>1, <2>2, <2>3 DEF BackupsTyped, JobsTyped, Stages
  <2>5. ~clash' => Apart'
    <3>. SUFFICES ASSUME ~clash' PROVE Apart'
      OBVIOUS
    <3>1. ~clash /\ Apart
      BY <1>1, MeetsNobody
    <3>2. Looked(j)' /\ job[j].stage \in Restoring
      BY <1>1, <1>4, <2>2, <3>1 DEF Looked, Raw, Apart, Has, Restoring
    <3>. QED
      BY <1>1, <1>2, <2>2, <2>3, <2>4, <3>1, <3>2, JobStep DEF BackupsTyped
  <2>6. ~clash' /\ ~retried' => CopyKept'
    <3>. SUFFICES ASSUME ~clash', ~retried' PROVE CopyKept'
      OBVIOUS
    <3>1. Sound(safety) /\ OneRestores
      BY <1>1, MeetsNobody DEF BackupsInv, CopyKept, Apart
    <3>2. \A i \in Jobs : job'[i].stage # "saving"
      BY <1>1, <2>2, <3>1 DEF OneRestores, Restoring
    <3>. QED
      BY <1>1, <2>1, <3>1, <3>2 DEF CopyKept, Sound
  <2>. QED
    BY <2>4, <2>5, <2>6 DEF BackupsInv
<1>5. CASE ~Has(j, "raw")
  <2>1. Finish(j) /\ UNCHANGED <<db, midway>>
    BY <1>5 DEF Overwrite
  <2>2. /\ \A i \in Jobs : job'[i] = IF i = j THEN Idle ELSE job[i]
        /\ JobsTyped' /\ \A i \in Jobs : job'[i].stage = "idle" => job'[i] = Idle
    BY <1>1, <2>1, FinishIs
  <2>3. BackupsTyped'
    BY <1>1, <1>3, <2>1, <2>2 DEF BackupsTyped, JobsTyped, Stages
  <2>4. ~clash' => Apart'
    <3>. SUFFICES ASSUME ~clash' PROVE Apart'
      OBVIOUS
    <3>1. ~clash /\ Apart /\ db'.form # "none"
      BY <1>1, <2>1, MeetsNobody DEF Apart
    <3>. QED
      BY <1>1, <1>2, <2>2, <2>3, <3>1, JobStep DEF BackupsTyped, Idle, Restoring
  <2>5. ~clash' /\ ~retried' => CopyKept'
    BY <1>1, <2>1, <2>2, MeetsNobody DEF BackupsInv, CopyKept, Sound, Idle
  <2>. QED
    BY <2>3, <2>4, <2>5 DEF BackupsInv
<1>. QED
  BY <1>4, <1>5

LEMMA OverwrittenInv ==
  ASSUME BackupsInv, NEW j \in Jobs, Overwritten(j)
  PROVE  BackupsInv'
<1>1. /\ Works(j) /\ Meets /\ job[j].stage = "copying" /\ job[j].stage \in CliStages /\ Finish(j)
      /\ BackupsTyped /\ UNCHANGED <<second, tool, app, wal, safety, retried>>
      /\ midway' = FALSE /\ db' = Placed(Raw(j))
  BY DEF Overwritten, Same, Works, CliStages, BackupsInv, Raw
<1>2. tool = "cli" /\ "raw" \in Exts
  BY <1>1, CliStage
<1>3. /\ \A i \in Jobs : job'[i] = IF i = j THEN Idle ELSE job[i]
      /\ JobsTyped' /\ \A i \in Jobs : job'[i].stage = "idle" => job'[i] = Idle
  BY <1>1, FinishIs
<1>4. /\ files' \in [Names -> [Exts -> Files]]
      /\ \A n \in Names : n # job[j].name => files'[n] = files[n]
  <2>1. UNCHANGED files \/ Set(j, "raw", None)
    BY DEF Overwritten, Drop
  <2>. QED
    BY <1>1, <1>2, <2>1, NoneIsFile, SetIs DEF BackupsTyped
<1>5. Raw(j) \in Files
  BY <1>1, <1>2 DEF Raw, BackupsTyped
<1>6. clash' \in BOOLEAN
  BY <1>1 DEF Meets, BackupsTyped
<1>7. BackupsTyped'
  <2>1. db' \in Files
    BY <1>1, <1>5, PartIsFile DEF Placed
  <2>. QED
    BY <1>1, <1>3, <1>4, <1>6, <2>1 DEF BackupsTyped, JobsTyped, Stages
<1>8. ~clash' => Apart' /\ db'.form # "part"
  <2>. SUFFICES ASSUME ~clash' PROVE Apart' /\ db'.form # "part"
    OBVIOUS
  <2>1. ~clash /\ ~app /\ ~wal /\ Apart
    BY <1>1, MeetsNobody
  <2>2. db' = Raw(j)
    BY <1>1, <2>1 DEF Placed
  <2>3. db'.form # "none" /\ db'.form # "part"
    BY <1>1, <2>1, <2>2 DEF Apart, Looked
  <2>. QED
    BY <1>1, <1>2, <1>3, <1>4, <2>1, <2>3, JobStep DEF Idle, Restoring
<1>9. ~clash' /\ ~retried' => CopyKept'
  BY <1>1, <1>3, <1>8, MeetsNobody DEF BackupsInv, CopyKept, Sound, Idle
<1>. QED
  BY <1>7, <1>8, <1>9 DEF BackupsInv

LEMMA ReplaceInv ==
  ASSUME BackupsInv, NEW j \in Jobs, Replace(j)
  PROVE  BackupsInv'
<1>1. /\ Works(j) /\ Finish(j) /\ BackupsTyped /\ tool = "library"
      /\ UNCHANGED <<second, tool, app, wal, safety, retried, files, midway>>
  BY DEF Replace, Same, Works, BackupsInv, BackupsTyped, BothStages, CliStages
<1>2. /\ \A i \in Jobs : job'[i] = IF i = j THEN Idle ELSE job[i]
      /\ JobsTyped' /\ \A i \in Jobs : job'[i].stage = "idle" => job'[i] = Idle
  BY <1>1, FinishIs
<1>. DEFINE f == files[job[j].name][job[j].ext]
<1>3. f \in Files /\ job[j].name \in Names /\ job[j].ext \in Exts
  BY <1>1 DEF BackupsTyped
<1>4. (Has(j, job[j].ext) /\ db' = Placed(f) /\ Meets) \/ UNCHANGED <<db, clash>>
  BY DEF Replace
<1>5. Has(j, job[j].ext) => f.form # "none"
  BY DEF Has
<1>6. Apart => f.form # "part"
  BY <1>1, <1>3 DEF Apart, NoParts
<1>. HIDE DEF f
<1>7. BackupsTyped'
  <2>1. db' \in Files
    BY <1>1, <1>3, <1>4, PartIsFile DEF Placed, BackupsTyped
  <2>2. clash' \in BOOLEAN
    BY <1>1, <1>4 DEF Meets, BackupsTyped
  <2>. QED
    BY <1>1, <1>2, <2>1, <2>2 DEF BackupsTyped, JobsTyped, Stages
<1>11. job'[j] = Idle /\ job'[j].stage \notin Restoring
  BY <1>2 DEF Idle, Restoring
<1>8. ~clash' => Apart' /\ db'.form # "part"
  <2>. SUFFICES ASSUME ~clash' PROVE Apart' /\ db'.form # "part"
    OBVIOUS
  <2>1. CASE Has(j, job[j].ext) /\ db' = Placed(f) /\ Meets
    <3>1. ~clash /\ ~app /\ ~wal /\ Apart
      BY <2>1, MeetsNobody
    <3>2. db' = f /\ f.form # "none" /\ f.form # "part"
      BY <1>5, <1>6, <2>1, <3>1 DEF Placed
    <3>3. NoParts'
      BY <1>1, <3>1, <3>2 DEF Apart, NoParts
    <3>. QED
      BY <1>1, <1>2, <1>7, <1>11, <3>1, <3>2, <3>3, JobStep DEF BackupsTyped, NoParts
  <2>2. CASE UNCHANGED <<db, clash>>
    <3>1. ~clash /\ Apart /\ NoParts'
      BY <1>1, <2>2 DEF BackupsInv, Apart, NoParts
    <3>. QED
      BY <1>1, <1>2, <1>7, <1>11, <2>2, <3>1, JobStep DEF BackupsTyped, NoParts, Apart
  <2>. QED
    BY <1>4, <2>1, <2>2
<1>9. ~clash' => \A i \in Jobs : job'[i].stage \notin {"saving", "copy", "copying"}
  BY <1>1, <1>7 DEF BackupsTyped, BothStages, LibraryStages
<1>10. ~clash' /\ ~retried' => CopyKept'
  BY <1>8, <1>9 DEF CopyKept
<1>. QED
  BY <1>7, <1>8, <1>10 DEF BackupsInv

LEMMA JobDiesInv ==
  ASSUME BackupsInv, NEW j \in Jobs, NEW form \in {"empty", "part"}, JobDies(j, form)
  PROVE  BackupsInv'
<1>1. /\ Works(j) /\ Fixed /\ UNCHANGED <<db, retried>> /\ Finish(j)
      /\ "idle" \in Stages /\ BackupsTyped /\ tool' = tool
      /\ safety' = IF job[j].stage = "saving" THEN File(form, 0) ELSE safety
  BY DEF JobDies, Works, BackupsInv, BackupsTyped, Stages, BothStages, Fixed
<1>2. CASE tool = "cli" /\ job[j].stage \in {"raw", "gz", "unzip"}
  <2>1. PICK ext \in Exts : Set(j, ext, File(form, 0))
    BY <1>2 DEF JobDies, Exts
  <2>2. File(form, 0) \in Files
    BY DEF File, Files
  <2>. DEFINE s == "idle"
  <2>3. s \in Stages \ {"safety", "saving", "copy", "copying"} /\ (IF s = "idle" THEN Finish(j) ELSE Stage(j, s))
    BY <1>1
  <2>. HIDE DEF s
  <2>. QED
    BY <1>1, <1>2, <2>1, <2>2, <2>3, WrittenInv
<1>3. CASE ~(tool = "cli" /\ job[j].stage \in {"raw", "gz", "unzip"}) /\ job[j].stage # "saving"
  BY <1>1, <1>3, FinishedInv DEF JobDies
<1>4. CASE job[j].stage = "saving"
  <2>1. UNCHANGED <<files, clash, second, app, wal, midway>> /\ safety' = File(form, 0)
    BY <1>1, <1>4 DEF JobDies, Fixed
  <2>2. /\ \A i \in Jobs : job'[i] = IF i = j THEN Idle ELSE job[i]
        /\ JobsTyped' /\ \A i \in Jobs : job'[i].stage = "idle" => job'[i] = Idle
    BY <1>1, FinishIs
  <2>3. safety' \in Files
    BY <2>1 DEF File, Files
  <2>4. BackupsTyped'
    BY <1>1, <2>1, <2>2, <2>3 DEF BackupsTyped, JobsTyped, Stages
  <2>5. ~clash' => Apart'
    <3>. SUFFICES ASSUME ~clash' PROVE Apart'
      OBVIOUS
    <3>1. ~clash /\ Apart
      BY <2>1 DEF BackupsInv
    <3>. QED
      BY <1>1, <2>1, <2>2, <2>4, <3>1, JobStep DEF BackupsTyped, Apart, NoParts, Idle, Restoring
  <2>6. ~clash' /\ ~retried' => CopyKept'
    <3>. SUFFICES ASSUME ~clash', ~retried' PROVE CopyKept'
      OBVIOUS
    <3>1. db.form # "part" /\ OneRestores
      BY <1>1, <1>4, <2>1 DEF BackupsInv, CopyKept, Apart
    <3>2. \A i \in Jobs : job'[i].stage \notin Restoring
      BY <1>4, <2>2, <3>1 DEF OneRestores, Restoring, Idle
    <3>. QED
      BY <1>1, <3>1, <3>2 DEF CopyKept, Restoring
  <2>. QED
    BY <2>4, <2>5, <2>6 DEF BackupsInv
<1>. QED
  BY <1>2, <1>3, <1>4

\* Rotation takes no file from a job that copies it, or the two have met.
LEMMA RotateInv ==
  ASSUME BackupsInv, NEW n \in Names, NEW ext \in Exts, Rotate(n, ext)
  PROVE  BackupsInv'
<1>1. /\ BackupsTyped /\ UNCHANGED <<second, tool, app, wal, db, safety, job, retried, midway>>
      /\ files' = [files EXCEPT ![n][ext] = None]
  BY DEF Rotate, BackupsInv
<1>2. clash' = (clash \/ \E i \in Jobs : job[i].stage = "copying" /\ job[i].name = n)
  BY DEF Rotate
<1>3. /\ files' \in [Names -> [Exts -> Files]]
      /\ \A m \in Names, e \in Exts : files'[m][e] = IF m = n /\ e = ext THEN None ELSE files[m][e]
  <2>1. files \in [Names -> [Exts -> Files]] /\ files[n] \in [Exts -> Files]
    BY <1>1 DEF BackupsTyped
  <2>2. \A m \in Names : files'[m] = IF m = n THEN [files[n] EXCEPT ![ext] = None] ELSE files[m]
    BY <1>1, <2>1
  <2>. QED
    BY <1>1, <2>1, <2>2, NoneIsFile
<1>4. BackupsTyped'
  BY <1>1, <1>2, <1>3 DEF BackupsTyped
<1>5. ~clash' => Apart'
  <2>. SUFFICES ASSUME ~clash' PROVE Apart'
    OBVIOUS
  <2>1. ~(clash \/ \E i \in Jobs : job[i].stage = "copying" /\ job[i].name = n)
    BY Zenon, <1>2
  <2>2. ~clash
    BY <2>1
  <2>3. Apart
    BY <2>2 DEF BackupsInv
  <2>4. ASSUME NEW i \in Jobs PROVE Looked(i)'
    <3>1. job[i].name \in Names /\ "raw" \in Exts /\ (job[i].stage = "copying" => job[i].name # n)
      BY <1>1, <2>1 DEF BackupsTyped, Exts
    <3>2. Raw(i)' \in {None, Raw(i)} /\ (job[i].stage = "copying" => Raw(i)' = Raw(i))
      BY <1>1, <1>3, <3>1 DEF Raw
    <3>. QED
      BY <1>1, <2>3, <3>2, NoneIsFile DEF Apart, Looked
  <2>5. tool' = "library" => NoParts'
    BY <1>1, <1>3, <2>3, NoneIsFile DEF Apart, NoParts
  <2>. QED
    BY <1>1, <2>3, <2>4, <2>5 DEF Apart, OwnNames, OneRestores, Works
<1>6. ~clash' /\ ~retried' => CopyKept'
  <2>1. ~clash' => ~clash
    BY Zenon, <1>2
  <2>. QED
    BY <1>1, <2>1 DEF BackupsInv, CopyKept, Sound
<1>. QED
  BY <1>4, <1>5, <1>6 DEF BackupsInv

\* The database stays as whole as it was in the hands of the application.
LEMMA OutsideInv ==
  ASSUME BackupsInv, second' \in Names, app' \in BOOLEAN, wal' \in BOOLEAN,
         db' \in Files, db'.form = db.form,
         UNCHANGED <<tool, safety, files, job, clash, retried, midway>>
  PROVE  BackupsInv'
<1>1. BackupsTyped'
  BY DEF BackupsInv, BackupsTyped
<1>2. ~clash' => Apart'
  BY DEF BackupsInv, Apart, OwnNames, OneRestores, Works, Looked, Raw, NoParts
<1>3. ~clash' /\ ~retried' => CopyKept'
  BY DEF BackupsInv, CopyKept, Sound
<1>. QED
  BY <1>1, <1>2, <1>3 DEF BackupsInv

LEMMA ApplicationInv ==
  ASSUME BackupsInv, Application
  PROVE  BackupsInv'
<1>1. UNCHANGED <<second, tool, safety, files, job, clash, retried, midway>> /\ BackupsTyped
  BY DEF Application, BackupsInv
<1>2. app' \in BOOLEAN /\ wal' \in BOOLEAN
  BY <1>1 DEF Application, BackupsTyped
<1>3. db' \in Files /\ db'.form = db.form
  <2>1. CASE db' = [db EXCEPT !.of = @ + 1]
    <3>1. db \in [form : {"none", "whole", "part", "empty"}, of : Int] /\ db.of + 1 \in Int
      BY <1>1 DEF BackupsTyped, Files
    <3>. QED
      BY <2>1, <3>1 DEF Files
  <2>2. CASE UNCHANGED db
    BY <1>1, <2>2 DEF BackupsTyped
  <2>. QED
    BY <2>1, <2>2 DEF Application
<1>. QED
  BY <1>1, <1>2, <1>3, OutsideInv DEF BackupsTyped

LEMMA SecondInv ==
  ASSUME BackupsInv, Second
  PROVE  BackupsInv'
<1>1. UNCHANGED <<tool, app, wal, db, safety, files, job, clash, retried, midway>> /\ BackupsTyped
  BY DEF Second, BackupsInv
<1>2. second' \in Names
  BY <1>1, LastSecondOK DEF Second, BackupsTyped, Names
<1>. QED
  BY <1>1, <1>2, OutsideInv DEF BackupsTyped

LEMMA BackupsInitInv == BackupsInit => BackupsInv
<1>. SUFFICES ASSUME BackupsInit PROVE BackupsInv
  OBVIOUS
<1>1. /\ None \in Files /\ File("whole", 0) \in Files /\ 0 \in Names
      /\ Idle \in [stage : Stages, name : Names, ext : Exts] /\ Idle.stage = "idle"
  BY LastSecondOK DEF None, File, Files, Names, Idle, Stages, BothStages, Exts
<1>2. BackupsTyped
  BY <1>1 DEF BackupsInit, BackupsTyped, Stages
<1>3. Apart /\ CopyKept
  <2>1. db.form = "whole" /\ \A i \in Jobs : job[i] = Idle
    BY DEF BackupsInit, File
  <2>2. \A n \in Names, ext \in Exts : files[n][ext] = None
    BY DEF BackupsInit
  <2>. QED
    BY <1>1, <2>1, <2>2, NoneIsFile DEF Apart, CopyKept, OwnNames, OneRestores, Restoring, Works, Looked, NoParts
<1>. QED
  BY <1>2, <1>3 DEF BackupsInv

LEMMA BackupsNextInv == BackupsInv /\ [BackupsNext]_backupVars => BackupsInv'
<1>. SUFFICES ASSUME BackupsInv, [BackupsNext]_backupVars PROVE BackupsInv'
  OBVIOUS
<1>1. CASE Application \/ Second
  BY <1>1, ApplicationInv, SecondInv
<1>2. ASSUME NEW n \in Names, NEW ext \in Exts, Rotate(n, ext) \/ \E j \in Jobs : Restore(j, n, ext)
      PROVE BackupsInv'
  BY <1>2, RotateInv, RestoreInv
<1>3. ASSUME NEW j \in Jobs,
             \/ Backup(j) \/ Copied(j) \/ Compressed(j) \/ Unlinked(j) \/ Summed(j) \/ KeepLast(j)
             \/ Unzip(j) \/ Check(j)
      PROVE BackupsInv'
  BY <1>3, BackupInv, CopiedInv, CompressedInv, UnlinkedInv, SummedInv, KeepLastInv, UnzipInv, CheckInv
<1>4. ASSUME NEW j \in Jobs,
             \/ SafetyCopy(j) \/ SafetyCopied(j) \/ Overwrite(j) \/ Overwritten(j) \/ Replace(j)
             \/ \E form \in {"empty", "part"} : JobDies(j, form)
      PROVE BackupsInv'
  BY <1>4, SafetyCopyInv, SafetyCopiedInv, OverwriteInv, OverwrittenInv, ReplaceInv, JobDiesInv
<1>5. CASE UNCHANGED backupVars
  <2>1. /\ UNCHANGED <<second, app, wal, db, tool, safety, files, job, clash, retried, midway>>
        /\ BackupsTyped
    BY <1>5 DEF backupVars, BackupsInv
  <2>. QED
    BY <2>1, OutsideInv DEF BackupsTyped
<1>. QED
  BY <1>1, <1>2, <1>3, <1>4, <1>5 DEF BackupsNext

(* Whatever backups and restorations died before, a restoration that had   *)
(* its backup and the database to itself leaves a whole database, and the  *)
(* copy made before it is sound while it writes, until one that follows it *)
(* writes its own over that copy (restore() of the tool and of             *)
(* DatabaseBackup).                                                        *)
THEOREM RestoredIsWhole == BackupsSpec => []RestoredWhole
<1>1. BackupsInv => RestoredWhole
  BY DEF BackupsInv, CopyKept, RestoredWhole
<1>. QED
  BY <1>1, BackupsInitInv, BackupsNextInv, PTL DEF BackupsSpec
=============================================================================
