------------------------------ MODULE TradeOnce ------------------------------
(***************************************************************************)
(* What the execution path promises its callers, without saying how: a     *)
(* trading intent is placed at most once, a call that reports "executed"   *)
(* has its intent at the exchange, and a call that reports a skip never    *)
(* has an order.  A call that failed promises nothing: its order may be    *)
(* there already, or still arrive.                                         *)
(***************************************************************************)
CONSTANTS
  Calls,      \* who asks
  Intents,    \* what may be asked for
  NoIntent,
  Skips,      \* reports that promise no order
  Reports     \* every report, Skips and "executed" included

VARIABLES
  intent,     \* what each call stands for once it is known
  placed,     \* <<intent, call>> : the call placed the intent
  report      \* what each call has reported, "none" before

vars == <<intent, placed, report>>

IsPlaced(i) == \E p \in placed : p[1] = i

Init ==
  /\ intent = [c \in Calls |-> NoIntent]
  /\ placed = {}
  /\ report = [c \in Calls |-> "none"]

Intend(c) ==
  /\ intent[c] = NoIntent
  /\ intent'[c] \in Intents
  /\ intent' = [intent EXCEPT ![c] = intent'[c]]
  /\ UNCHANGED <<placed, report>>

Place(c) ==
  /\ intent[c] # NoIntent
  /\ ~IsPlaced(intent[c])
  /\ report[c] \notin Skips
  /\ placed' = placed \cup {<<intent[c], c>>}
  /\ UNCHANGED <<intent, report>>

Report(c) ==
  /\ report[c] = "none"
  /\ \E r \in Reports :
       /\ r = "executed" => intent[c] # NoIntent /\ IsPlaced(intent[c])
       /\ r \in Skips => \A p \in placed : p[2] # c
       /\ report' = [report EXCEPT ![c] = r]
  /\ UNCHANGED <<intent, placed>>

Next == \E c \in Calls : Intend(c) \/ Place(c) \/ Report(c)

Spec == Init /\ [][Next]_vars
=============================================================================
