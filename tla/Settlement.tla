----------------------------- MODULE Settlement -----------------------------
(***************************************************************************)
(* Orders that fill in parts.  sync_partial_fills (use_cases/              *)
(* partial_fills.py) lists the open orders and, for each, records and      *)
(* announces what was filled since it last looked; OrdersRepository keeps  *)
(* rows of open orders (repositories/orders.py), which OrdersReconciler    *)
(* compares with the exchange (reconciliation/orders.py).                  *)
(*                                                                         *)
(* The storage is asked whether it can tell what was recorded before and   *)
(* record more; the one that is shipped can do neither, and then a pass    *)
(* takes all that is filled for new and announces it, each time.  No       *)
(* caller of the repository's writes is in the source either: they come    *)
(* in any order here.                                                      *)
(***************************************************************************)
EXTENDS Integers, FiniteSets

CONSTANTS Orders,
          Size,     \* the amount of every order
          Passes,   \* coroutines that may run a pass
          Rounds,   \* bound on the passes that are run
          Changes   \* bound on the writes to the rows

VARIABLES filled,     \* what the exchange has filled of each order
          open,       \* the orders it lists as open
          tracks,     \* whether the storage records fills
          recorded,   \* sum of the fills recorded for each order
          announced,  \* sum of the fills announced
          pass,       \* where each pass is
          rounds,     \* passes so far
          excused,    \* passes overlapped, or a call to the storage failed
          rows,       \* OrdersRepository
          changes,    \* writes to it so far
          report      \* OrdersReconciler

exchangeSide == <<filled, open>>
passVars == <<tracks, recorded, announced, pass, rounds, excused>>
rowVars == <<rows, changes, report>>
settlementVars == <<exchangeSide, passVars, rowVars>>

NoOrder == [order |-> "none", filled |-> 0]

Resting == [stage |-> "idle", todo |-> {}, at |-> NoOrder, delta |-> 0]
Looking(todo) == [stage |-> "load", todo |-> todo, at |-> NoOrder, delta |-> 0]

SettlementInit ==
  /\ filled = [o \in Orders |-> 0]
  /\ open = Orders
  /\ tracks \in BOOLEAN
  /\ recorded = [o \in Orders |-> 0]
  /\ announced = [o \in Orders |-> 0]
  /\ pass = [p \in Passes |-> Resting]
  /\ rounds = 0 /\ excused = FALSE
  /\ rows = {}
  /\ changes = 0
  /\ report = [stage |-> "idle", local |-> {}, remote |-> {}]

(* The exchange fills an order, and takes it off the list some time after  *)
(* it is filled or cancelled.                                              *)
Fill(o) ==
  /\ o \in open /\ filled[o] < Size
  /\ filled' = [filled EXCEPT ![o] = @ + 1]
  /\ UNCHANGED <<open, passVars, rowVars>>

Leave(o) ==
  /\ o \in open
  /\ open' = open \ {o}
  /\ UNCHANGED <<filled, passVars, rowVars>>

Listed == {[order |-> o, filled |-> filled[o]] : o \in open}

----------------------------------------------------------------------------
(* sync_partial_fills *)

Fetch(p) ==
  /\ pass[p].stage = "idle" /\ rounds < Rounds
  /\ rounds' = rounds + 1
  /\ pass' = [pass EXCEPT ![p] = Looking(Listed)]
  /\ excused' = (excused \/ \E q \in Passes \ {p} : pass[q].stage # "idle")
  /\ UNCHANGED <<exchangeSide, tracks, recorded, announced, rowVars>>

(* What the storage says was filled before: nothing, if it cannot tell or  *)
(* fails to.                                                               *)
LoadPrevFilled(o, works) == IF tracks /\ works THEN recorded[o] ELSE 0

(* The next order of the list: one with nothing new is passed over.        *)
Load(p, e, works) ==
  LET delta == e.filled - LoadPrevFilled(e.order, works) IN
  /\ pass[p].stage = "load" /\ e \in pass[p].todo
  /\ pass' = [pass EXCEPT ![p] =
       IF delta > 0
       THEN [stage |-> "persist", todo |-> @.todo \ {e}, at |-> e, delta |-> delta]
       ELSE Looking(@.todo \ {e})]
  /\ excused' = (excused \/ ~works)
  /\ UNCHANGED <<exchangeSide, tracks, recorded, announced, rounds, rowVars>>

\* Slip: all that is filled is recorded, not what is new.
IncrementAll(p) == pass[p].at.filled

(* What a pass adds to the record of its order.                            *)
Increment(p) == pass[p].delta

(* A storage that cannot record is passed over in silence, as is one that  *)
(* fails to.                                                               *)
Persist(p, works) ==
  /\ pass[p].stage = "persist"
  /\ recorded' = IF tracks /\ works
                 THEN [recorded EXCEPT ![pass[p].at.order] = @ + Increment(p)]
                 ELSE recorded
  /\ pass' = [pass EXCEPT ![p].stage = "publish"]
  /\ excused' = (excused \/ ~works)
  /\ UNCHANGED <<exchangeSide, tracks, announced, rounds, rowVars>>

Publish(p, works) ==
  /\ pass[p].stage = "publish"
  /\ announced' = IF works THEN [announced EXCEPT ![pass[p].at.order] = @ + pass[p].delta]
                  ELSE announced
  /\ pass' = [pass EXCEPT ![p] = Looking(@.todo)]
  /\ UNCHANGED <<exchangeSide, tracks, recorded, rounds, excused, rowVars>>

EndPass(p) ==
  /\ pass[p].stage = "load" /\ pass[p].todo = {}
  /\ pass' = [pass EXCEPT ![p].stage = "idle"]
  /\ UNCHANGED <<exchangeSide, tracks, recorded, announced, rounds, excused, rowVars>>

SyncPartialFills(p) ==
  \/ Fetch(p) \/ EndPass(p)
  \/ \E works \in BOOLEAN :
       \/ \E e \in pass[p].todo : Load(p, e, works)
       \/ Persist(p, works) \/ Publish(p, works)

----------------------------------------------------------------------------
(* OrdersRepository: a row carries the client's id of an order, the        *)
(* exchange's, or both.                                                    *)

Ids == SUBSET {"client", "broker"} \ {{}}

Write(new) ==
  /\ changes < Changes
  /\ changes' = changes + 1
  /\ rows' = new
  /\ UNCHANGED <<exchangeSide, passVars, report>>

\* Slip: only the exchange's id is looked for.
ExistsByBroker(o, ids) == \E r \in rows : r.order = o /\ "broker" \in r.ids \cap ids

(* There is a row with one of the ids.                                     *)
Exists(o, ids) == \E r \in rows : r.order = o /\ r.ids \cap ids # {}

UpsertOpen(o, ids) ==
  /\ ~Exists(o, ids)
  /\ Write(rows \cup {[order |-> o, ids |-> ids, filled |-> filled[o], closed |-> FALSE]})

ByBroker(o) == {r \in rows : r.order = o /\ "broker" \in r.ids}

(* Progress is for rows that are not closed, and finds them by the         *)
(* exchange's id only.                                                     *)
UpdateProgress(o) ==
  LET mine == {r \in ByBroker(o) : ~r.closed} IN
  Write((rows \ mine) \cup {[r EXCEPT !.filled = filled[o]] : r \in mine})

MarkClosed(o) ==
  Write((rows \ ByBroker(o))
          \cup {[r EXCEPT !.filled = filled[o], !.closed = TRUE] : r \in ByBroker(o)})

ListOpen == {r \in rows : ~r.closed}

----------------------------------------------------------------------------
(* OrdersReconciler: the rows are read before the exchange is asked.       *)

FetchLocalOpen ==
  /\ report.stage = "idle"
  /\ report' = [stage |-> "asked", local |-> ListOpen, remote |-> {}]
  /\ UNCHANGED <<exchangeSide, passVars, rows, changes>>

(* An exchange that does not answer has no open orders.                    *)
FetchRemoteOpen(works) ==
  /\ report.stage = "asked"
  /\ report' = [report EXCEPT !.stage = IF works THEN "told" ELSE "untold",
                             !.remote = IF works THEN Listed ELSE {}]
  /\ UNCHANGED <<exchangeSide, passVars, rows, changes>>

Again ==
  /\ report.stage \in {"told", "untold"}
  /\ report' = [stage |-> "idle", local |-> {}, remote |-> {}]
  /\ UNCHANGED <<exchangeSide, passVars, rows, changes>>

(* Orders match by both ids; one the exchange lists has both.              *)
Keys(side) == {<<e.order, e.ids>> : e \in side}

Remote == {[order |-> e.order, ids |-> {"client", "broker"}, filled |-> e.filled] :
             e \in report.remote}

HasDiscrepancies ==
  \/ Keys(report.local) # Keys(Remote)
  \/ \E l \in report.local, r \in Remote :
       l.order = r.order /\ l.ids = r.ids /\ l.filled # r.filled

SettleNext == \/ \E o \in Orders : Fill(o) \/ Leave(o)
              \/ \E p \in Passes : SyncPartialFills(p)

SettleSpec == SettlementInit /\ [][SettleNext]_settlementVars

RowsNext ==
  \/ \E o \in Orders :
       \/ Fill(o) \/ Leave(o) \/ UpdateProgress(o) \/ MarkClosed(o)
       \/ \E ids \in Ids : UpsertOpen(o, ids)
  \/ FetchLocalOpen \/ Again
  \/ \E works \in BOOLEAN : FetchRemoteOpen(works)

RowsSpec == SettlementInit /\ [][RowsNext]_settlementVars

----------------------------------------------------------------------------
(* Properties *)

(* With a storage that tracks fills, passes that run one after another     *)
(* record a fill once and announce it at most once, in whatever parts the  *)
(* order fills between them; it takes an overlap or a failure to count a   *)
(* fill twice.                                                             *)
SettledOnce ==
  tracks /\ ~excused =>
    \A o \in Orders : announced[o] <= recorded[o] /\ recorded[o] <= filled[o]

(* No two rows stand for one order under one id, so that a reconciliation  *)
(* that finds nothing found every order the exchange listed in one open    *)
(* row, with the same amount filled.                                       *)
OrdersAgree ==
  /\ \A r, s \in rows : r.order = s.order /\ r.ids \cap s.ids # {} => r = s
  /\ report.stage = "told" /\ ~HasDiscrepancies =>
       /\ Cardinality(report.local) = Cardinality(report.remote)
       /\ \A e \in report.remote : \E l \in report.local :
            l.order = e.order /\ l.filled = e.filled
=============================================================================
