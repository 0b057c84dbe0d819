----------------------------- MODULE MCRecords -----------------------------
(***************************************************************************)
(* What keeps the records true: positions and profit, the settlement of    *)
(* partial fills, the orders table and its reconciler, the idempotency     *)
(* keys, and the reconciliation tool.  The parts share nothing that both   *)
(* write, so a behaviour exercises one of them and leaves the others as    *)
(* they were.                                                              *)
(***************************************************************************)
EXTENDS Ledger, Settlement, Idempotency, Reconcile, TLC

VARIABLE part

T(side, amount, got, price, fee, day) ==
  [side |-> side, amount |-> amount, filled |-> got, price |-> price,
   fee |-> fee, day |-> day]

\* Two prices, whole and partial fills, fees on either side, two days.
MCKinds ==
  {T("buy", 1, 1, 3, 0, 0), T("buy", 2, 2, 5, 2, 0), T("buy", 2, 1, 4, 2, 1),
   T("sell", 1, 1, 7, 1, 0), T("sell", 2, 2, 4, 0, 1), T("sell", 1, 1, 2, 0, 1)}

Symmetry == Permutations(Orders) \cup Permutations(Passes)

RecordsInit ==
  /\ part \in {"ledger", "settle", "rows", "keys", "tool"}
  /\ Init /\ SettlementInit /\ KeysInit
  /\ IF part = "tool" THEN ToolInit
     ELSE /\ listed = [o \in OrderIds |-> "none"] /\ held = 0 /\ methods = FALSE
          /\ stored = [o \in OrderIds |-> "none"] /\ position = 0
          /\ suite = Off /\ found = <<>>
          /\ moves = 0 /\ runs = 0 /\ moved = FALSE /\ written = FALSE
  /\ part # "settle" => ~tracks
  /\ part # "keys" => ~migrated

RecordsNext ==
  /\ UNCHANGED part
  /\ \/ part = "ledger" /\ Next /\ UNCHANGED <<settlementVars, keyVars, toolVars>>
     \/ part = "settle" /\ SettleNext /\ UNCHANGED <<vars, keyVars, toolVars>>
     \/ part = "rows" /\ RowsNext /\ UNCHANGED <<vars, keyVars, toolVars>>
     \/ part = "keys" /\ KeysNext /\ UNCHANGED <<vars, settlementVars, toolVars>>
     \/ part = "tool" /\ ToolNext /\ UNCHANGED <<vars, settlementVars, keyVars>>

RecordsSpec == RecordsInit /\ [][RecordsNext]_<<part, vars, settlementVars, keyVars, toolVars>>
=============================================================================
