---------------------------- MODULE Idempotency ----------------------------
(***************************************************************************)
(* repositories/idempotency.py: a table of keys and the times they expire  *)
(* at.  A caller reads the clock and then waits for the lock of the        *)
(* database; what it does under the lock is atomic.                        *)
(***************************************************************************)
EXTENDS Integers

CONSTANTS Connections, Names, Ttls,
          LastMs     \* bound on the clock

ASSUME TtlsOK == Ttls \subseteq Nat

VARIABLES ms, expires, asking, granted, twice,
          migrated   \* the table is that of the migrations

keyVars == <<ms, expires, asking, granted, twice, migrated>>

Absent == -1

KeysInit ==
  /\ ms = 0
  /\ expires = [k \in Names |-> Absent]
  /\ asking = [c \in Connections |-> [stage |-> "idle", now |-> 0, name |-> "none", ttl |-> 0]]
  /\ granted = [k \in Names |-> Absent]   \* the end of the last grant
  /\ migrated \in BOOLEAN
  /\ twice = FALSE                        \* a grant came within another

(* check_and_store reads the clock; prune_older_than does so as well, and  *)
(* "none" is its name.                                                     *)
Stamp(c, k, ttl) ==
  /\ asking[c].stage = "idle"
  /\ asking' = [asking EXCEPT ![c] = [stage |-> "locking", now |-> ms, name |-> k, ttl |-> ttl]]
  /\ UNCHANGED <<ms, expires, granted, twice, migrated>>

Back(c) == asking' = [asking EXCEPT ![c] = [stage |-> "idle", now |-> 0, name |-> "none", ttl |-> 0]]

(* The rows that are left when those that expired before t are deleted.    *)
Pruned(t) == [k \in Names |-> IF expires[k] < t THEN Absent ELSE expires[k]]

(* Expired rows go, then the key is inserted unless there is one: the      *)
(* caller is told whether it was.  The table of the migrations has a       *)
(* column that is not filled and may not be empty: nothing is inserted.    *)
CheckAndStore(c) ==
  LET k == asking[c].name
      left == Pruned(asking[c].now)
      end == asking[c].now + asking[c].ttl IN
  /\ asking[c].stage = "locking" /\ k # "none"
  /\ IF left[k] = Absent /\ ~migrated
     THEN /\ expires' = [left EXCEPT ![k] = end]
          /\ twice' = (twice \/ ms <= granted[k])
          /\ granted' = [granted EXCEPT ![k] = end]
     ELSE expires' = left /\ UNCHANGED <<granted, twice>>
  /\ Back(c)
  /\ UNCHANGED <<ms, migrated>>

\* Slip: the margin is added.
CutoffAhead(now, seconds) == now + seconds

(* What expired longer ago than the margin may go.                         *)
Cutoff(now, seconds) == now - seconds

Prune(c) ==
  /\ asking[c].stage = "locking" /\ asking[c].name = "none"
  /\ expires' = Pruned(Cutoff(asking[c].now, asking[c].ttl))
  /\ Back(c)
  /\ UNCHANGED <<ms, granted, twice, migrated>>

(* The lock is not to be had, or the statement fails: all is rolled back.  *)
Rollback(c) ==
  /\ asking[c].stage = "locking"
  /\ Back(c)
  /\ UNCHANGED <<ms, expires, granted, twice, migrated>>

Millisecond ==
  /\ ms < LastMs
  /\ ms' = ms + 1
  /\ UNCHANGED <<expires, asking, granted, twice, migrated>>

KeysNext ==
  \/ Millisecond
  \/ \E c \in Connections :
       \/ \E k \in Names \cup {"none"}, ttl \in Ttls : Stamp(c, k, ttl)
       \/ CheckAndStore(c) \/ Prune(c) \/ Rollback(c)

KeysSpec == KeysInit /\ [][KeysNext]_keyVars

(* A key that was granted is not granted again before its time is over,    *)
(* however long callers wait for the lock with the time they have read,    *)
(* and whatever is pruned meanwhile.                                       *)
GrantedOnce == ~twice
=============================================================================
