---------------------------- MODULE InstanceLock ----------------------------
(***************************************************************************)
(* core/infrastructure/safety/instance_lock.py: a row of the SQLite table  *)
(* app_locks names the process that may trade and until when.  A process   *)
(* works out the expiry before it waits for the database, and holds what   *)
(* it was granted without ever looking at the row again.  Processes are    *)
(* named by their owner string; one that died may come back under it.      *)
(***************************************************************************)
EXTENDS Naturals

CONSTANTS
  Owners,   \* the owner each process passes
  NoRow,    \* the table has no row for the app
  ttl_sec,  \* the time to live asked for
  MaxTime   \* bound on the clock, in seconds

ASSUME ConstantsOK ==
  /\ ttl_sec \in Nat
  /\ MaxTime \in Nat
  /\ NoRow \notin [owner : Owners, expire_at : Nat]

VARIABLES
  now,        \* time.time() and strftime('%s', 'now'), in whole seconds
  row,        \* the row of app_locks
  proc,       \* what each process is doing
  expire_at,  \* the expiry it has worked out and not yet written
  granted     \* the expiry of the lock it believes it has

vars == <<now, row, proc, expire_at, granted>>

Row(p, t) == [owner |-> p, expire_at |-> t]
Owns(p) == row # NoRow /\ row.owner = p
Believes(p) == proc[p] \in {"holding", "renewing"}

Goto(p, l) == proc' = [proc EXCEPT ![p] = l]

Init ==
  /\ now = 0 /\ row = NoRow
  /\ proc = [p \in Owners |-> "out"]
  /\ expire_at = [p \in Owners |-> 0]
  /\ granted = [p \in Owners |-> 0]
-----------------------------------------------------------------------------
(* acquire() and renew() up to the database.                               *)
ask(p) ==
  /\ proc[p] \in {"out", "holding"}
  /\ Goto(p, IF proc[p] = "out" THEN "acquiring" ELSE "renewing")
  /\ expire_at' = [expire_at EXCEPT ![p] = now + ttl_sec]
  /\ UNCHANGED <<now, row, granted>>

\* Slip: a lock is taken over in the second it expires in.
upsert_early(p) ==
  row' = IF row = NoRow \/ row.expire_at <= now THEN Row(p, expire_at[p]) ELSE row

(* INSERT ... ON CONFLICT DO UPDATE ... WHERE expire_at < now.             *)
upsert(p) ==
  row' = IF row = NoRow \/ row.expire_at < now THEN Row(p, expire_at[p]) ELSE row

(* The upsert and the SELECT after it are one transaction.  Finding its    *)
(* own row is enough: a process that comes back gets what is left of the   *)
(* lock it died with.                                                      *)
acquire(p) ==
  /\ proc[p] = "acquiring"
  /\ upsert(p)
  /\ IF row'.owner = p
     THEN Goto(p, "holding") /\ granted' = [granted EXCEPT ![p] = row'.expire_at]
     ELSE Goto(p, "out") /\ UNCHANGED granted
  /\ UNCHANGED <<now, expire_at>>

(* Whether the lock has expired is not asked: without a taker it is still  *)
(* there.  A process that is told False stands down.                       *)
renew(p) ==
  /\ proc[p] = "renewing"
  /\ IF Owns(p)
     THEN /\ row' = Row(p, expire_at[p])
          /\ granted' = [granted EXCEPT ![p] = expire_at[p]]
          /\ Goto(p, "holding")
     ELSE Goto(p, "out") /\ UNCHANGED <<row, granted>>
  /\ UNCHANGED <<now, expire_at>>

release(p) ==
  /\ proc[p] = "holding"
  /\ row' = IF Owns(p) THEN NoRow ELSE row
  /\ Goto(p, "out")
  /\ UNCHANGED <<now, expire_at, granted>>

(* The process dies, or the database stays busy and acquire() raises.      *)
Die(p) ==
  /\ proc[p] # "out"
  /\ Goto(p, "out")
  /\ UNCHANGED <<now, row, expire_at, granted>>

Tick ==
  /\ now < MaxTime
  /\ now' = now + 1
  /\ UNCHANGED <<row, proc, expire_at, granted>>

Next ==
  \/ \E p \in Owners : ask(p) \/ acquire(p) \/ renew(p) \/ release(p) \/ Die(p)
  \/ Tick

Spec == Init /\ [][Next]_vars
-----------------------------------------------------------------------------
(* Types of the lock's variables; no expiry lies further than ttl_sec      *)
(* ahead of the clock.                                                     *)
TypeOK ==
  /\ now \in Nat
  /\ proc \in [Owners -> {"out", "acquiring", "holding", "renewing"}]
  /\ expire_at \in [Owners -> Nat]
  /\ granted \in [Owners -> Nat]
  /\ \A p \in Owners :
       expire_at[p] <= now + ttl_sec /\ granted[p] <= now + ttl_sec
  /\ row = NoRow \/ (/\ row \in [owner : Owners, expire_at : Nat]
                     /\ row.expire_at <= now + ttl_sec)

(* Until its lock expires, the table backs what a holder believes: nobody  *)
(* takes the row over, and neither a late renewal nor the release of a     *)
(* process that lost the lock touches it (instance_lock.py:44-51, 70-88).  *)
HolderHasRow ==
  \A p \in Owners : Believes(p) /\ now <= granted[p] => row = Row(p, granted[p])

(* Two processes whose locks have not expired never trade at one time,     *)
(* across crashes, returns under the same owner and slow transactions.     *)
MutualExclusion ==
  \A p, q \in Owners :
    Believes(p) /\ Believes(q) /\ now <= granted[p] /\ now <= granted[q] => p = q

=============================================================================
