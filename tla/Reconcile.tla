------------------------------ MODULE Reconcile ------------------------------
(***************************************************************************)
(* The tool that compares the database with the exchange and, asked to,    *)
(* puts the database right (cli/reconcile.py): orders, then the position,  *)
(* then balances, each step an await in which the exchange may move on.    *)
(*                                                                         *)
(* It fixes what the repositories have a method for.  Those that are       *)
(* shipped have none, and no list of open orders either; some findings are *)
(* marked as fixed all the same.                                           *)
(***************************************************************************)
EXTENDS Integers, Sequences, FiniteSets

CONSTANTS OrderIds, Amounts,
          Moves,   \* bound on the changes of the exchange
          Runs     \* bound on the runs of the tool

VARIABLES listed,    \* status of every order at the exchange, "none" if not open
          held,      \* the position there; 0 for none
          methods,   \* whether the repositories have the methods
          stored,    \* status of every order in the database
          position,  \* the position in the database; 0 for none
          suite,     \* the run: stage, fix, work that is left, what it saw
          found,     \* its findings, in their order
          moves, runs,
          moved,     \* the exchange changed during the run
          written    \* the run wrote to the database

toolVars == <<listed, held, methods, stored, position, suite, found, moves, runs,
              moved, written>>

Statuses == {"open", "partial"}
OpenRows == {o \in OrderIds : stored[o] \in Statuses}

Off == [stage |-> "off", fix |-> FALSE, todo |-> {}, saw |-> 0]

ToolInit ==
  /\ listed \in [OrderIds -> Statuses \cup {"none"}]
  /\ held \in Amounts
  /\ methods \in BOOLEAN
  /\ stored = [o \in OrderIds |-> "none"]
  /\ position \in Amounts
  /\ suite = Off /\ found = <<>>
  /\ moves = 0 /\ runs = 0 /\ moved = FALSE /\ written = FALSE

(* Orders come, fill and go, and with them the position.                   *)
Move(o, status, amount) ==
  /\ moves < Moves
  /\ listed' = [listed EXCEPT ![o] = status]
  /\ held' = amount
  /\ <<listed', held'>> # <<listed, held>>
  /\ moves' = moves + 1 /\ moved' = TRUE
  /\ UNCHANGED <<methods, stored, position, suite, found, runs, written>>

Run(fix) ==
  /\ suite.stage = "off" /\ runs < Runs
  /\ suite' = [Off EXCEPT !.stage = "orders", !.fix = fix]
  /\ found' = <<>> /\ runs' = runs + 1 /\ moved' = FALSE /\ written' = FALSE
  /\ UNCHANGED <<listed, held, methods, stored, position, moves>>

Finding(fixable, fixed) == [fixable |-> fixable, fixed |-> fixed]

Report(d) == found' = Append(found, d)

Error == Finding(FALSE, FALSE)

----------------------------------------------------------------------------
(* Orders *)

(* The findings about orders, those that are missing first.                *)
Compared(db) ==
  {[rank |-> 1, order |-> o, status |-> "canceled"] :
     o \in {x \in db : listed[x] = "none"}}
  \cup {[rank |-> 2, order |-> o, status |-> listed[o]] :
     o \in {x \in OrderIds \ db : listed[x] # "none"}}
  \cup {[rank |-> 3, order |-> o, status |-> listed[o]] :
     o \in {x \in db : listed[x] # "none" /\ listed[x] # stored[x]}}

CompareOrders ==
  /\ suite.stage = "orders"
  /\ \/ /\ suite' = [suite EXCEPT !.stage = "fixing",
                        !.todo = Compared(IF methods THEN OpenRows ELSE {})]
        /\ UNCHANGED found
     \/ /\ suite' = [suite EXCEPT !.stage = "position"]
        /\ Report(Error)
  /\ UNCHANGED <<listed, held, methods, stored, position, moves, runs, moved, written>>

\* Slip: a row that is missing is written whether asked for or not.
WritesAlways(e) == methods /\ (suite.fix \/ e.rank = 2)

(* A finding is put right when asked for and there is a method for it.     *)
Writes(e) == methods /\ suite.fix

(* An order that only the exchange has counts as fixed when asked for.     *)
Fixed(e) == suite.fix /\ (methods \/ e.rank = 2)

FixOrder(e) ==
  /\ suite.stage = "fixing" /\ e \in suite.todo
  /\ \A f \in suite.todo : e.rank <= f.rank
  /\ Report(Finding(TRUE, Fixed(e)))
  /\ stored' = IF Writes(e) THEN [stored EXCEPT ![e.order] = e.status] ELSE stored
  /\ written' = (written \/ Writes(e))
  /\ suite' = [suite EXCEPT !.todo = @ \ {e}]
  /\ UNCHANGED <<listed, held, methods, position, moves, runs, moved>>

(* A write that fails leaves its finding unfixed and the others unmade.    *)
FixOrderFails(e) ==
  /\ suite.stage = "fixing" /\ e \in suite.todo /\ Writes(e)
  /\ \A f \in suite.todo : e.rank <= f.rank
  /\ found' = found \o <<Finding(TRUE, FALSE), Error>>
  /\ suite' = [suite EXCEPT !.stage = "position", !.todo = {}]
  /\ UNCHANGED <<listed, held, methods, stored, position, moves, runs, moved, written>>

EndOrders ==
  /\ suite.stage = "fixing" /\ suite.todo = {}
  /\ suite' = [suite EXCEPT !.stage = "position"]
  /\ UNCHANGED <<listed, held, methods, stored, position, found, moves, runs, moved, written>>

----------------------------------------------------------------------------
(* The position and the balances *)

FetchPosition ==
  /\ suite.stage = "position"
  /\ \/ suite' = [suite EXCEPT !.stage = "compare", !.saw = held] /\ UNCHANGED found
     \/ suite' = [suite EXCEPT !.stage = "balances"] /\ Report(Error)
  /\ UNCHANGED <<listed, held, methods, stored, position, moves, runs, moved, written>>

(* With the shipped repository a position is always there, and its amount  *)
(* reads as nothing: the field has another name.  It cannot be written:    *)
(* one that is missing at the exchange is reported as it is, another       *)
(* amount as fixed.                                                        *)
Differs == IF methods THEN position # suite.saw ELSE TRUE

ComparePosition ==
  /\ suite.stage = "compare"
  /\ IF Differs
     THEN /\ Report(Finding(TRUE, suite.fix /\ (methods \/ suite.saw # 0)))
          /\ position' = IF methods /\ suite.fix THEN suite.saw ELSE position
          /\ written' = (written \/ (methods /\ suite.fix))
     ELSE UNCHANGED <<found, position, written>>
  /\ suite' = [suite EXCEPT !.stage = "balances"]
  /\ UNCHANGED <<listed, held, methods, stored, moves, runs, moved>>

ComparePositionFails ==
  /\ suite.stage = "compare" /\ methods /\ suite.fix /\ Differs
  /\ found' = found \o <<Finding(TRUE, FALSE), Error>>
  /\ suite' = [suite EXCEPT !.stage = "balances"]
  /\ UNCHANGED <<listed, held, methods, stored, position, moves, runs, moved, written>>

(* Sums that do not add up are reported; nothing can be done about them.   *)
CompareBalances(wrong) ==
  /\ suite.stage = "balances"
  /\ IF wrong THEN Report(Finding(FALSE, FALSE)) ELSE UNCHANGED found
  /\ suite' = [suite EXCEPT !.stage = "done"]
  /\ UNCHANGED <<listed, held, methods, stored, position, moves, runs, moved, written>>

Finish ==
  /\ suite.stage = "done"
  /\ suite' = Off
  /\ UNCHANGED <<listed, held, methods, stored, position, found, moves, runs, moved, written>>

(* The status of a report: it is that all is fixed from the first time all *)
(* that was reported so far was, whatever is reported later.               *)
Status(ds) ==
  IF ds = <<>> THEN "ok"
  ELSE IF \E k \in DOMAIN ds :
            ds[k].fixed /\ \A j \in 1..k : ds[j].fixable => ds[j].fixed
       THEN "discrepancies_fixed"
       ELSE "discrepancies_found"

ToolNext ==
  \/ \E o \in OrderIds, s \in Statuses \cup {"none"}, n \in Amounts : Move(o, s, n)
  \/ \E fix \in BOOLEAN : Run(fix)
  \/ CompareOrders \/ EndOrders \/ FetchPosition \/ ComparePosition
  \/ ComparePositionFails \/ Finish
  \/ \E e \in suite.todo : FixOrder(e) \/ FixOrderFails(e)
  \/ \E wrong \in BOOLEAN : CompareBalances(wrong)

ToolSpec == ToolInit /\ [][ToolNext]_toolVars

----------------------------------------------------------------------------
(* Properties *)

Agree ==
  /\ \A o \in OrderIds : IF listed[o] = "none" THEN o \notin OpenRows
                       ELSE stored[o] = listed[o]
  /\ position = held

(* A run that was not asked to fix writes nothing.  When the repositories  *)
(* have the methods and the exchange does not move during the run, one     *)
(* that finds nothing, or that was to fix and met no error, leaves the     *)
(* database in agreement with the exchange.                                *)
RunsSettle ==
  /\ written => suite.stage = "off" \/ suite.fix
  /\ suite.stage = "done" /\ methods /\ ~moved =>
       \/ Agree
       \/ ~suite.fix /\ Status(found) = "discrepancies_found"
       \/ \E i \in DOMAIN found : found[i] = Error
=============================================================================
