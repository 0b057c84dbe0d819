------------------------- MODULE ExecuteTradeProofs -------------------------
(***************************************************************************)
(* Proofs about ExecuteTrade, for every value of its constants.  TypeOK is *)
(* not inductive: that an order has a key and a client order id depends on *)
(* the call that placed it having passed the checks, which IInv records.   *)
(***************************************************************************)
EXTENDS ExecuteTrade, TLAPS

(* The call went through the idempotency and the risk check and was not    *)
(* turned away by either.                                                  *)
PastGates(c) ==
  /\ pc[c] \notin {"idle", "check", "save"}
  /\ result[c] \notin Skips
  /\ verdict[c] \in {"allow", "warn", "reduce"}
  /\ key[c] \in Keys
  /\ key[c] \in saved_keys \/ c \in unchecked
  /\ cid[c] = IF req[c].client_order_id = NoId THEN key[c]
              ELSE req[c].client_order_id

KeyFits(c) == /\ key[c] \in Keys
              /\ key[c].symbol = req[c].symbol
              /\ key[c].side = req[c].side
              /\ key[c].amount = calculate_amount(req[c])

CallOK(c) ==
  /\ pc[c] = "idle" => result[c] = "none"
  /\ pc[c] \in Running => result[c] = "none" /\ KeyFits(c)
  /\ key[c] # NoKey => KeyFits(c) /\ pc[c] # "idle"
  /\ pc[c] \in {"send", "inflight", "publish"} => PastGates(c)
  /\ wire[c] # {} \/ served[c] # {} => PastGates(c)
  /\ pc[c] = "publish" \/ result[c] = "executed" => served[c] # {}
  /\ served[c] # {} => \E o \in orders : o.client_order_id = cid[c]
  /\ result[c] = "duplicate" => key[c] \in saved_keys

CallInv == \A c \in Calls : CallOK(c)

OrderOK(o) ==
  /\ o.key = key[o.call] /\ o.client_order_id = cid[o.call]
  /\ o.symbol = o.key.symbol /\ o.side = o.key.side /\ o.amount = o.key.amount
  /\ PastGates(o.call)

OrderInv == \A o \in orders : OrderOK(o)

OneOrderPerClientId ==
  \A o1, o2 \in orders : o1.client_order_id = o2.client_order_id => o1 = o2

SavedInv == \A k \in saved_keys :
  \E d \in Calls : /\ key[d] = k
                   /\ result[d] # "duplicate"
                   /\ pc[d] \notin {"idle", "check"}

IInv == TypeOK /\ CallInv /\ OrderInv /\ OneOrderPerClientId /\ SavedInv
-----------------------------------------------------------------------------
(* A call that does not move keeps its invariant: keys are only added to   *)
(* the storage and orders to the exchange.                                 *)
Same(d) ==
  /\ pc'[d] = pc[d] /\ req'[d] = req[d] /\ key'[d] = key[d] /\ cid'[d] = cid[d]
  /\ verdict'[d] = verdict[d] /\ result'[d] = result[d]
  /\ wire'[d] = wire[d] /\ served'[d] = served[d]

Grows == /\ saved_keys \subseteq saved_keys'
         /\ unchecked \subseteq unchecked'
         /\ orders \subseteq orders'

LEMMA OtherGates ==
  ASSUME NEW d \in Calls, PastGates(d), Same(d), Grows
  PROVE  PastGates(d)'
BY DEF PastGates, Same, Grows

LEMMA OtherFits ==
  ASSUME NEW d \in Calls, KeyFits(d), Same(d)
  PROVE  KeyFits(d)'
BY DEF KeyFits, Same, Keys, calculate_amount

LEMMA OtherCall ==
  ASSUME NEW d \in Calls, CallOK(d), Same(d), Grows
  PROVE  CallOK(d)'
<1>1. PastGates(d) => PastGates(d)'  BY OtherGates
<1>2. KeyFits(d) => KeyFits(d)'      BY OtherFits
<1> QED BY <1>1, <1>2 DEF CallOK, Same, Grows

(* A step of call c that changes nothing but where c stands preserves the  *)
(* invariant if c's own part of it holds afterwards and the step neither   *)
(* returns c to the gates nor calls it skipped once it has passed them.    *)
LEMMA MoveInv ==
  ASSUME IInv, NEW c \in Calls, TypeOK', CallOK(c)',
         UNCHANGED <<identity, verdict, unchecked, saved_keys, exchange>>,
         \A d \in Calls \ {c} : pc'[d] = pc[d] /\ result'[d] = result[d],
         PastGates(c) => PastGates(c)',
         pc[c] \notin {"idle", "check"} =>
           pc'[c] \notin {"idle", "check"} /\ result'[c] \in {result[c]} \cup (Results \ Skips)
  PROVE  IInv'
<1> USE DEF IInv, identity, exchange
<1>1. \A d \in Calls \ {c} : Same(d) /\ Grows
  BY DEF Same, Grows
<1>2. CallInv'
  <2> SUFFICES ASSUME NEW d \in Calls PROVE CallOK(d)'
    BY DEF CallInv
  <2>1. CASE d # c  BY <2>1, <1>1, OtherCall DEF CallInv
  <2>2. CASE d = c  BY <2>2
  <2> QED BY <2>1, <2>2
<1>3. \A d \in Calls : PastGates(d) => PastGates(d)'
  BY <1>1, OtherGates
<1>4. OrderInv'
  BY <1>3 DEF OrderInv, OrderOK, TypeOK, Order
<1>5. OneOrderPerClientId'
  BY DEF OneOrderPerClientId
<1>6. SavedInv'
  BY DEF SavedInv, TypeOK, Results, Skips
<1> QED BY <1>2, <1>4, <1>5, <1>6

(* Nothing has begun. *)
LEMMA InitInv == Init => IInv
  BY ConstantsOK DEF Init, IInv, TypeOK, CallInv, CallOK, OrderInv,
     OneOrderPerClientId, SavedInv, Results, Skips, Running, PastGates, KeyFits

LEMMA BeginInvalidInv ==
  ASSUME IInv, NEW c \in Calls, BeginInvalid(c)
  PROVE  IInv'
<1> USE ConstantsOK DEF BeginInvalid, Return, Goto
<1>1. TypeOK /\ CallOK(c)
  BY DEF IInv, CallInv
<1>2. TypeOK'
  BY <1>1 DEF TypeOK, identity, exchange, clocks, Running, Results, Skips, validate_inputs, NoKey
<1>3. PastGates(c) => PastGates(c)'
  BY <1>1 DEF TypeOK, identity, exchange, PastGates, Running, Skips
<1>4. CallOK(c)'
  BY <1>1, <1>3 DEF CallOK, TypeOK, KeyFits, PastGates, calculate_amount,
     identity, exchange, Running, Skips, validate_inputs
<1> QED BY <1>1, <1>2, <1>3, <1>4, MoveInv
     DEF TypeOK, CallOK, identity, exchange, Running, Results, Skips

LEMMA FoundDuplicateInv ==
  ASSUME IInv, NEW c \in Calls, FoundDuplicate(c)
  PROVE  IInv'
<1> USE ConstantsOK DEF FoundDuplicate, Return, Goto
<1>1. TypeOK /\ CallOK(c)
  BY DEF IInv, CallInv
<1>2. TypeOK'
  BY <1>1 DEF TypeOK, identity, exchange, clocks, Running, Results, Skips
<1>3. PastGates(c) => PastGates(c)'
  BY <1>1 DEF TypeOK, identity, exchange, PastGates, Running, Skips
<1>4. CallOK(c)'
  BY <1>1, <1>3 DEF CallOK, TypeOK, KeyFits, PastGates, calculate_amount,
     identity, exchange, Running, Skips
<1> QED BY <1>1, <1>2, <1>3, <1>4, MoveInv
     DEF TypeOK, CallOK, identity, exchange, Running, Results, Skips

LEMMA FoundFreshInv ==
  ASSUME IInv, NEW c \in Calls, FoundFresh(c)
  PROVE  IInv'
<1> USE ConstantsOK DEF FoundFresh, Return, Goto
<1>1. TypeOK /\ CallOK(c)
  BY DEF IInv, CallInv
<1>2. TypeOK'
  BY <1>1 DEF TypeOK, identity, exchange, clocks, Running, Results, Skips
<1>3. PastGates(c) => PastGates(c)'
  BY <1>1 DEF TypeOK, identity, exchange, PastGates, Running, Skips
<1>4. CallOK(c)'
  BY <1>1, <1>3 DEF CallOK, TypeOK, KeyFits, PastGates, calculate_amount,
     identity, exchange, Running, Skips
<1> QED BY <1>1, <1>2, <1>3, <1>4, MoveInv
     DEF TypeOK, CallOK, identity, exchange, Running, Results, Skips

LEMMA GiveUpInv ==
  ASSUME IInv, NEW c \in Calls, GiveUp(c)
  PROVE  IInv'
<1> USE ConstantsOK DEF GiveUp, Return, Goto
<1>1. TypeOK /\ CallOK(c)
  BY DEF IInv, CallInv
<1>2. TypeOK'
  BY <1>1 DEF TypeOK, identity, exchange, clocks, Running, Results, Skips
<1>3. PastGates(c) => PastGates(c)'
  BY <1>1 DEF TypeOK, identity, exchange, PastGates, Running, Skips
<1>4. CallOK(c)'
  BY <1>1, <1>3 DEF CallOK, TypeOK, KeyFits, PastGates, calculate_amount,
     identity, exchange, Running, Skips
<1> QED BY <1>1, <1>2, <1>3, <1>4, MoveInv
     DEF TypeOK, CallOK, identity, exchange, Running, Results, Skips

LEMMA ReplyInv ==
  ASSUME IInv, NEW c \in Calls, Reply(c)
  PROVE  IInv'
<1> USE ConstantsOK DEF Reply, Return, Goto
<1>1. TypeOK /\ CallOK(c)
  BY DEF IInv, CallInv
<1>2. TypeOK'
  BY <1>1 DEF TypeOK, identity, exchange, clocks, Running, Results, Skips
<1>3. PastGates(c) => PastGates(c)'
  BY <1>1 DEF TypeOK, identity, exchange, PastGates, Running, Skips
<1>4. CallOK(c)'
  BY <1>1, <1>3 DEF CallOK, TypeOK, KeyFits, PastGates, calculate_amount,
     identity, exchange, Running, Skips
<1> QED BY <1>1, <1>2, <1>3, <1>4, MoveInv
     DEF TypeOK, CallOK, identity, exchange, Running, Results, Skips

LEMMA RaiseInv ==
  ASSUME IInv, NEW c \in Calls, Raise(c)
  PROVE  IInv'
<1> USE ConstantsOK DEF Raise, Return, Goto
<1>1. TypeOK /\ CallOK(c)
  BY DEF IInv, CallInv
<1>2. TypeOK'
  BY <1>1 DEF TypeOK, identity, exchange, clocks, Running, Results, Skips
<1>3. PastGates(c) => PastGates(c)'
  BY <1>1 DEF TypeOK, identity, exchange, PastGates, Running, Skips
<1>4. CallOK(c)'
  BY <1>1, <1>3 DEF CallOK, TypeOK, KeyFits, PastGates, calculate_amount,
     identity, exchange, Running, Skips
<1> QED BY <1>1, <1>2, <1>3, <1>4, MoveInv
     DEF TypeOK, CallOK, identity, exchange, Running, Results, Skips

LEMMA PublishSuccessInv ==
  ASSUME IInv, NEW c \in Calls, PublishSuccess(c)
  PROVE  IInv'
<1> USE ConstantsOK DEF PublishSuccess, Return, Goto
<1>1. TypeOK /\ CallOK(c)
  BY DEF IInv, CallInv
<1>2. TypeOK'
  BY <1>1 DEF TypeOK, identity, exchange, clocks, Running, Results, Skips
<1>3. PastGates(c) => PastGates(c)'
  BY <1>1 DEF TypeOK, identity, exchange, PastGates, Running, Skips
<1>4. CallOK(c)'
  BY <1>1, <1>3 DEF CallOK, TypeOK, KeyFits, PastGates, calculate_amount,
     identity, exchange, Running, Skips
<1>5. pc'[c] = "done" /\ result'[c] \in Results \ Skips
  BY <1>1 DEF TypeOK, Results, Skips
<1>6. \A d \in Calls \ {c} : pc'[d] = pc[d] /\ result'[d] = result[d]
  BY <1>1 DEF TypeOK
<1>7. UNCHANGED <<identity, verdict, unchecked, saved_keys, exchange>>
  OBVIOUS
<1> HIDE DEF PublishSuccess
<1> QED BY <1>2, <1>3, <1>4, <1>5, <1>6, <1>7, MoveInv

LEMMA CancelInv ==
  ASSUME IInv, NEW c \in Calls, Cancel(c)
  PROVE  IInv'
<1> USE ConstantsOK DEF Cancel, Return, Goto
<1>1. TypeOK /\ CallOK(c)
  BY DEF IInv, CallInv
<1>2. TypeOK'
  BY <1>1 DEF TypeOK, identity, exchange, clocks, Running, Results, Skips
<1>3. PastGates(c) => PastGates(c)'
  BY <1>1 DEF TypeOK, identity, exchange, PastGates, Running, Skips
<1>4. CallOK(c)'
  BY <1>1, <1>3 DEF CallOK, TypeOK, KeyFits, PastGates, calculate_amount,
     identity, exchange, Running, Skips
<1> QED BY <1>1, <1>2, <1>3, <1>4, MoveInv
     DEF TypeOK, CallOK, identity, exchange, Running, Results, Skips

(* The call learns its key; nothing of its past is there to disturb.       *)
LEMMA BeginInv ==
  ASSUME IInv, NEW c \in Calls, Begin(c)
  PROVE  IInv'
<1> USE ConstantsOK DEF Begin, Goto, exchange, clocks
<1>1. TypeOK /\ CallOK(c)
  BY DEF IInv, CallInv
<1>2. generate_key(req[c]) \in Keys
  BY <1>1 DEF TypeOK, Keys, generate_key, validate_inputs, calculate_amount, Sides
<1>3. TypeOK'
  BY <1>1, <1>2 DEF TypeOK, Running
<1>4. CallInv'
  <2> SUFFICES ASSUME NEW d \in Calls PROVE CallOK(d)'
    BY DEF CallInv
  <2>1. CASE d = c
    BY <1>1, <1>2, <2>1 DEF CallOK, TypeOK, KeyFits, PastGates, Running, NoKey,
       Keys, generate_key, calculate_amount
  <2>2. CASE d # c
    BY <2>2, OtherCall DEF Same, Grows, IInv, CallInv, TypeOK
  <2> QED BY <2>1, <2>2
<1>5. OrderInv'
  <2> SUFFICES ASSUME NEW o \in orders PROVE OrderOK(o)'
    BY DEF OrderInv
  <2>1. OrderOK(o) /\ o.call \in Calls /\ o.call # c
    BY <1>1 DEF IInv, OrderInv, OrderOK, PastGates, TypeOK, Order
  <2>2. PastGates(o.call)'
    BY <1>1, <2>1, OtherGates DEF OrderOK, Same, Grows, TypeOK
  <2> QED BY <1>1, <2>1, <2>2 DEF OrderOK, TypeOK
<1>6. OneOrderPerClientId'
  BY DEF IInv, OneOrderPerClientId
<1>7. SavedInv'
  BY <1>1 DEF IInv, SavedInv, TypeOK
<1> QED BY <1>3, <1>4, <1>5, <1>6, <1>7 DEF IInv

(* What both ways out of the idempotency check share: the key of c may be  *)
(* saved or the call be marked, and the risk manager is asked.             *)
LEMMA CheckedInv ==
  ASSUME IInv, NEW c \in Calls, pc[c] \in {"check", "save"}, check_risk(c),
         UNCHANGED <<req, key, attempt, exchange, clocks>>,
         saved_keys' \in {saved_keys, saved_keys \cup {key[c]}},
         unchecked' \in {unchecked, unchecked \cup {c}},
         key[c] \in saved_keys' \/ c \in unchecked'
  PROVE  IInv'
<1> USE ConstantsOK DEF exchange, clocks
<1>1. TypeOK /\ CallOK(c) /\ KeyFits(c) /\ ~PastGates(c) /\ result[c] = "none"
  BY DEF IInv, CallInv, CallOK, PastGates, Running, KeyFits
<1>2. PICK v \in Verdicts :
        /\ verdict' = [verdict EXCEPT ![c] = v]
        /\ \/ /\ Allowed(v)
              /\ cid' = [cid EXCEPT ![c] = IF req[c].client_order_id = NoId
                                           THEN key[c] ELSE req[c].client_order_id]
              /\ pc' = [pc EXCEPT ![c] = "send"]
              /\ UNCHANGED result
           \/ /\ ~Allowed(v)
              /\ pc' = [pc EXCEPT ![c] = "done"]
              /\ \E r \in {"risk_blocked", "raised"} :
                   result' = [result EXCEPT ![c] = r]
              /\ UNCHANGED cid
  BY DEF check_risk, Goto, Return
<1>3. key[c] \in Keys /\ req[c].client_order_id \in CallerIds \cup {NoId}
  BY <1>1 DEF TypeOK, KeyFits
<1>4. TypeOK'
  <2>1. verdict' \in [Calls -> Verdicts \cup {"none"}]
    BY <1>1, <1>2 DEF TypeOK
  <2>2. cid' \in [Calls -> CallerIds \cup Keys \cup {NoId}]
    BY <1>1, <1>2, <1>3 DEF TypeOK
  <2>3. pc' \in [Calls -> Running \cup {"idle", "done"}]
    BY <1>1, <1>2 DEF TypeOK, Running
  <2>4. result' \in [Calls -> Results]
    BY <1>1, <1>2 DEF TypeOK, Results, Skips
  <2> QED BY <1>1, <1>3, <2>1, <2>2, <2>3, <2>4 DEF TypeOK
<1>5. wire[c] = {} /\ served[c] = {} /\ pc[c] # "idle"
  BY <1>1 DEF CallOK
<1>6. \A d \in Calls \ {c} : Same(d) /\ Grows
  BY <1>1, <1>2 DEF TypeOK, Same, Grows
<1>7. KeyFits(c)'
  BY <1>1 DEF KeyFits, calculate_amount
<1>8. pc'[c] = "send" => PastGates(c)'
  BY <1>1, <1>2, <1>3 DEF PastGates, Allowed, TypeOK, Skips
<1>9. pc'[c] \in {"send", "done"} /\ result'[c] # "duplicate"
  BY <1>1, <1>2 DEF TypeOK
<1>10. CallInv'
  <2> SUFFICES ASSUME NEW d \in Calls PROVE CallOK(d)'
    BY DEF CallInv
  <2>1. CASE d = c
    <3>1. pc'[c] = "send" => result'[c] = "none"
      BY <1>1, <1>2 DEF TypeOK
    <3>2. result'[c] # "executed"
      BY <1>1, <1>2 DEF TypeOK
    <3> QED BY <1>5, <1>7, <1>8, <1>9, <2>1, <3>1, <3>2 DEF CallOK, Running
  <2>2. CASE d # c
    BY <2>2, <1>6, OtherCall DEF IInv, CallInv
  <2> QED BY <2>1, <2>2
<1>11. OrderInv'
  <2> SUFFICES ASSUME NEW o \in orders PROVE OrderOK(o)'
    BY DEF OrderInv
  <2>1. OrderOK(o) /\ o.call \in Calls /\ o.call # c
    BY <1>1 DEF IInv, OrderInv, OrderOK, TypeOK, Order
  <2>2. PastGates(o.call)' /\ Same(o.call)
    BY <1>6, <2>1, OtherGates DEF OrderOK
  <2> QED BY <2>1, <2>2 DEF OrderOK, Same
<1>12. OneOrderPerClientId'
  BY DEF IInv, OneOrderPerClientId
<1>13. SavedInv'
  BY <1>6, <1>9 DEF IInv, SavedInv, Same
<1> QED BY <1>4, <1>10, <1>11, <1>12, <1>13 DEF IInv

LEMMA SaveKeyInv ==
  ASSUME IInv, NEW c \in Calls, SaveKey(c)
  PROVE  IInv'
BY CheckedInv DEF SaveKey

LEMMA StorageRaisesInv ==
  ASSUME IInv, NEW c \in Calls, StorageRaises(c)
  PROVE  IInv'
BY CheckedInv DEF StorageRaises

(* A request leaves a call that is past the gates.                         *)
LEMMA SendInv ==
  ASSUME IInv, NEW c \in Calls, Send(c)
  PROVE  IInv'
<1> USE ConstantsOK DEF Send, Goto, identity, clocks
<1>1. TypeOK /\ CallOK(c) /\ PastGates(c)
  BY DEF IInv, CallInv, CallOK
<1>2. attempt[c] + 1 \in 1..MaxRetries
  BY <1>1 DEF TypeOK
<1>3. TypeOK'
  BY <1>1, <1>2 DEF TypeOK, Running
<1>4. \A d \in Calls \ {c} : Same(d) /\ Grows
  BY <1>1 DEF TypeOK, Same, Grows
<1>5. PastGates(c)'
  BY <1>1 DEF PastGates, TypeOK
<1>6. CallInv'
  <2> SUFFICES ASSUME NEW d \in Calls PROVE CallOK(d)'
    BY DEF CallInv
  <2>1. CASE d = c
    BY <1>1, <1>5, <2>1 DEF CallOK, TypeOK, KeyFits, Running, calculate_amount
  <2>2. CASE d # c
    BY <2>2, <1>4, OtherCall DEF IInv, CallInv
  <2> QED BY <2>1, <2>2
<1>7. OrderInv'
  <2> SUFFICES ASSUME NEW o \in orders PROVE OrderOK(o)'
    BY DEF OrderInv
  <2>1. OrderOK(o) /\ o.call \in Calls
    BY <1>1 DEF IInv, OrderInv, TypeOK, Order
  <2>2. PastGates(o.call)'
    BY <1>4, <1>5, <2>1, OtherGates DEF OrderOK
  <2> QED BY <2>1, <2>2 DEF OrderOK
<1>8. OneOrderPerClientId'
  BY DEF IInv, OneOrderPerClientId
<1>9. SavedInv'
  BY <1>1 DEF IInv, SavedInv, TypeOK
<1> QED BY <1>3, <1>6, <1>7, <1>8, <1>9 DEF IInv

(* The exchange adds at most one order, under an id it did not have, from  *)
(* a call with a request in the air: one past the gates.                   *)
LEMMA ServeInv ==
  ASSUME IInv, NEW c \in Calls, Serve(c)
  PROVE  IInv'
<1> USE ConstantsOK DEF identity, clocks
<1>1. PICK n \in wire[c] :
        /\ wire' = [wire EXCEPT ![c] = @ \ {n}]
        /\ served' = [served EXCEPT ![c] = @ \cup {n}]
        /\ orders' = IF \E o \in orders : o.client_order_id = cid[c]
                     THEN orders
                     ELSE orders \cup {NewOrder(c, n)}
        /\ UNCHANGED <<pc, identity, verdict, attempt, result, unchecked,
                       saved_keys, clocks>>
  BY DEF Serve
<1>2. TypeOK /\ CallOK(c) /\ PastGates(c) /\ KeyFits(c)
  BY <1>1 DEF IInv, CallInv, CallOK, PastGates, NoKey, Keys
<1>3. n \in 1..MaxRetries
  BY <1>1, <1>2 DEF TypeOK
<1>4. NewOrder(c, n) \in Order
  <2>1. cid[c] \in CallerIds \cup Keys
    BY <1>2 DEF PastGates, TypeOK
  <2>2. key[c].symbol \in Symbols /\ key[c].side \in Sides
        /\ key[c].amount \in Nat \ {0}
    BY <1>2 DEF KeyFits, Keys
  <2> QED BY <1>2, <1>3, <2>1, <2>2 DEF NewOrder, Order, KeyFits
<1>5. TypeOK'
  BY <1>1, <1>2, <1>3, <1>4 DEF TypeOK
<1>6. \A d \in Calls \ {c} : Same(d) /\ Grows
  BY <1>1, <1>2 DEF TypeOK, Same, Grows
<1>7. PastGates(c)' /\ KeyFits(c)'
  BY <1>1, <1>2 DEF PastGates, KeyFits, calculate_amount
<1>8. \E o \in orders' : o.client_order_id = cid'[c]
  <2>1. cid' = cid /\ NewOrder(c, n).client_order_id = cid[c]
    BY <1>1 DEF NewOrder
  <2>2. CASE \E o \in orders : o.client_order_id = cid[c]
    BY <1>1, <2>1, <2>2
  <2>3. CASE ~\E o \in orders : o.client_order_id = cid[c]
    <3>1. NewOrder(c, n) \in orders'
      BY <1>1, <2>3
    <3> QED BY <2>1, <3>1
  <2> QED BY <2>2, <2>3
<1>9. CallInv'
  <2> SUFFICES ASSUME NEW d \in Calls PROVE CallOK(d)'
    BY DEF CallInv
  <2>1. CASE d = c
    <3>1. served'[c] # {}
      BY <1>1, <1>2 DEF TypeOK
    <3> QED BY <1>1, <1>2, <1>7, <1>8, <2>1, <3>1 DEF CallOK
  <2>2. CASE d # c
    BY <2>2, <1>6, OtherCall DEF IInv, CallInv
  <2> QED BY <2>1, <2>2
<1>10. OrderInv'
  <2> SUFFICES ASSUME NEW o \in orders' PROVE OrderOK(o)'
    BY DEF OrderInv
  <2>1. CASE o \in orders
    <3>1. OrderOK(o) /\ o.call \in Calls
      BY <1>2, <2>1 DEF IInv, OrderInv, TypeOK, Order
    <3>2. PastGates(o.call)'
      BY <1>6, <1>7, <3>1, OtherGates DEF OrderOK
    <3> QED BY <1>1, <3>1, <3>2 DEF OrderOK
  <2>2. CASE o = NewOrder(c, n)
    BY <1>1, <1>7, <2>2 DEF OrderOK, NewOrder
  <2> QED BY <1>1, <2>1, <2>2
<1>11. OneOrderPerClientId'
  BY <1>1 DEF IInv, OneOrderPerClientId, NewOrder
<1>12. SavedInv'
  BY <1>1 DEF IInv, SavedInv
<1> QED BY <1>5, <1>9, <1>10, <1>11, <1>12 DEF IInv

(* Every call under way is cut off; storage and exchange stay as they are. *)
LEMMA RestartInv ==
  ASSUME IInv, Restart
  PROVE  IInv'
<1> USE ConstantsOK DEF Restart, identity, exchange
<1>1. TypeOK /\ CallInv
  BY DEF IInv
<1>2. TypeOK'
  BY <1>1 DEF TypeOK, Running, Results, Skips
<1>3. \A d \in Calls : PastGates(d) => PastGates(d)'
  BY <1>1 DEF PastGates, TypeOK, Skips
<1>4. CallInv'
  <2> SUFFICES ASSUME NEW d \in Calls PROVE CallOK(d)'
    BY DEF CallInv
  <2>1. CallOK(d)
    BY <1>1 DEF CallInv
  <2> QED BY <1>1, <1>3, <2>1 DEF CallOK, TypeOK, KeyFits, Running, calculate_amount
<1>5. OrderInv'
  BY <1>1, <1>3 DEF IInv, OrderInv, OrderOK, TypeOK, Order
<1>6. OneOrderPerClientId'
  BY DEF IInv, OneOrderPerClientId
<1>7. SavedInv'
  BY <1>1 DEF IInv, SavedInv, TypeOK, Running
<1> QED BY <1>2, <1>4, <1>5, <1>6, <1>7 DEF IInv

(* Time passing and stuttering leave the calls alone.                      *)
LEMMA TickInv ==
  ASSUME IInv, Tick \/ UNCHANGED vars
  PROVE  IInv'
<1> USE DEF Tick, vars, identity, exchange, clocks
<1>1. TypeOK /\ CallInv /\ OrderInv
  BY DEF IInv
<1>2. TypeOK'
  BY <1>1 DEF TypeOK
<1>3. \A d \in Calls : Same(d) /\ Grows
  BY DEF Same, Grows
<1>4. CallInv'
  BY <1>1, <1>3, OtherCall DEF CallInv
<1>5. \A d \in Calls : PastGates(d) => PastGates(d)'
  BY <1>3, OtherGates
<1>6. OrderInv'
  BY <1>1, <1>5 DEF OrderInv, OrderOK, TypeOK, Order
<1>7. OneOrderPerClientId' /\ SavedInv'
  BY DEF IInv, OneOrderPerClientId, SavedInv
<1> QED BY <1>2, <1>4, <1>6, <1>7 DEF IInv

LEMMA NextInv == IInv /\ [Next]_vars => IInv'
<1> SUFFICES ASSUME IInv, [Next]_vars PROVE IInv'
  OBVIOUS
<1>1. ASSUME NEW c \in Calls, BeginInvalid(c) \/ Begin(c) \/ Cancel(c) \/ Serve(c)
      PROVE  IInv'
  BY <1>1, BeginInvalidInv, BeginInv, CancelInv, ServeInv
<1>2. ASSUME NEW c \in Calls, Step(c)
      PROVE  IInv'
  BY <1>2, FoundDuplicateInv, FoundFreshInv, SaveKeyInv, StorageRaisesInv, SendInv,
     GiveUpInv, ReplyInv, RaiseInv, PublishSuccessInv DEF Step
<1>3. CASE Restart
  BY <1>3, RestartInv
<1>4. CASE Tick \/ UNCHANGED vars
  BY <1>4, TickInv
<1> QED BY <1>1, <1>2, <1>3, <1>4 DEF Next

-----------------------------------------------------------------------------
(* The inductive invariant holds in every run.                             *)
THEOREM Inductive == Spec => []IInv
<1>1. Init => IInv                   BY InitInv
<1>2. IInv /\ [Next]_vars => IInv'   BY NextInv
<1> QED BY <1>1, <1>2, PTL DEF Spec

(* Every variable of every run of execute() calls has its type.            *)
THEOREM TypeCorrect == Spec => []TypeOK
BY Inductive, PTL DEF IInv

(* Whatever calls, verdicts, failures and restarts there are, an order at  *)
(* the exchange was let through by the risk manager, and its key was saved *)
(* first or the storage failed the check.                                  *)
THEOREM Gates == Spec => []OrdersPassedTheGates
<1>1. IInv => OrdersPassedTheGates
  BY DEF IInv, OrderInv, OrderOK, PastGates, OrdersPassedTheGates
<1> QED BY <1>1, Inductive, PTL

(* A duplicate always has an original: a call is never turned away by its  *)
(* own key, and never are all the calls with one key turned away.          *)
THEOREM Originals == Spec => []DuplicateHasOriginal
<1>1. IInv => DuplicateHasOriginal
  BY DEF IInv, CallInv, CallOK, SavedInv, DuplicateHasOriginal
<1> QED BY <1>1, Inductive, PTL
-----------------------------------------------------------------------------
(* Where callers choose no client order id, the id of a call past the      *)
(* gates is its key.                                                       *)
LEMMA IdIsKey ==
  ASSUME IInv, CallerIds = {}, NEW c \in Calls, PastGates(c)
  PROVE  cid[c] = key[c]
<1>1. req[c].client_order_id = NoId
  BY ConstantsOK DEF IInv, TypeOK
<1> QED BY <1>1 DEF PastGates

LEMMA OrderIdIsKey ==
  ASSUME IInv, CallerIds = {}, NEW o \in orders
  PROVE  o.client_order_id = o.key
<1>1. OrderOK(o) /\ o.call \in Calls
  BY DEF IInv, OrderInv, TypeOK, Order
<1> QED BY <1>1, IdIsKey DEF OrderOK

(* One idempotency key has at most one order, however the attempts of its  *)
(* calls are lost, delayed or raced, as long as every client order id is   *)
(* the one derived from the key.                                           *)
THEOREM NoDoubleOrder ==
  ASSUME CallerIds = {}
  PROVE  Spec => []OneOrderPerKey
<1>1. IInv => OneOrderPerKey
  BY OrderIdIsKey DEF IInv, OneOrderPerClientId, OneOrderPerKey
<1> QED BY <1>1, Inductive, PTL

(* A call that returned executed=True has its order, with its own symbol,  *)
(* side and amount, at the exchange.                                       *)
THEOREM ExecutedOrders ==
  ASSUME CallerIds = {}
  PROVE  Spec => []ExecutedIsReal
<1>1. ASSUME IInv PROVE ExecutedIsReal
  <2> SUFFICES ASSUME NEW c \in Calls, result[c] = "executed"
               PROVE  \E o \in orders : /\ o.client_order_id = cid[c]
                                        /\ o.symbol = req[c].symbol
                                        /\ o.side = req[c].side
                                        /\ o.amount = calculate_amount(req[c])
    BY DEF ExecutedIsReal
  <2>1. CallOK(c) /\ served[c] # {} /\ PastGates(c)
    BY <1>1 DEF IInv, CallInv, CallOK
  <2>2. KeyFits(c)
    BY <2>1 DEF CallOK, PastGates, NoKey, Keys
  <2>3. PICK o \in orders : o.client_order_id = cid[c]
    BY <2>1 DEF CallOK
  <2>4. o.key = key[c] /\ OrderOK(o)
    BY <1>1, <2>1, <2>3, IdIsKey, OrderIdIsKey DEF IInv, OrderInv
  <2> QED BY <2>2, <2>3, <2>4 DEF KeyFits, OrderOK
<1> QED BY <1>1, Inductive, PTL
-----------------------------------------------------------------------------
(* A call that has a skip to report has no order at the exchange.          *)
LEMMA NoOrderBeforeGates ==
  ASSUME IInv, NEW c \in Calls, ~PastGates(c)
  PROVE  \A o \in orders : o.call # c
BY DEF IInv, OrderInv, OrderOK

(* Every step of a call is a step of TradeOnce or leaves it alone.         *)
LEMMA StepRefines ==
  ASSUME IInv, IInv', CallerIds = {}, [Next]_vars
  PROVE  [Once!Next]_Once!vars
<1> DEFINE report == [c \in Calls |->
                        IF result[c] = "cancelled" THEN "none" ELSE result[c]]
           placed == {<<o.key, o.call>> : o \in orders}
<1> USE DEF identity, exchange, clocks, Goto, Return
<1>1. TypeOK /\ \A c \in Calls : CallOK(c)
  BY DEF IInv, CallInv
<1>a. ASSUME NEW c \in Calls, result' = [result EXCEPT ![c] = "cancelled"],
             result[c] = "none"
      PROVE  report' = report
  BY <1>a, <1>1 DEF TypeOK
<1>b. ASSUME NEW c \in Calls, NEW r \in Results \ {"none", "cancelled"},
             result' = [result EXCEPT ![c] = r], result[c] = "none",
             r = "executed" => key[c] # NoKey /\ \E o \in orders : o.key = key[c],
             r \in Skips => ~PastGates(c),
             UNCHANGED <<key, orders>>
      PROVE  Once!Next
  <2>1. report[c] = "none" /\ report' = [report EXCEPT ![c] = r]
    BY <1>b, <1>1 DEF TypeOK
  <2>2. r \in Skips => \A p \in placed : p[2] # c
    BY <1>b, NoOrderBeforeGates
  <2>3. ASSUME r = "executed"
        PROVE  key[c] # NoKey /\ \E p \in placed : p[1] = key[c]
    <3>1. PICK o \in orders : o.key = key[c]
      BY <1>b, <2>3
    <3>2. <<o.key, o.call>> \in placed /\ <<o.key, o.call>>[1] = key[c]
      BY <3>1
    <3> QED BY <1>b, <2>3, <3>2
  <2>4. Once!Report(c)
    BY <1>b, <2>1, <2>2, <2>3 DEF Once!Report, Once!IsPlaced
  <2> QED BY <2>4 DEF Once!Next
<1>c. ASSUME UNCHANGED <<key, orders, result>>
      PROVE  UNCHANGED Once!vars
  BY <1>c DEF Once!vars
<1>2. ASSUME NEW c \in Calls, BeginInvalid(c)
      PROVE  Once!Next
  <2>1. validate_inputs(req[c]) \in {"invalid_side", "invalid_amount"}
    BY <1>2 DEF BeginInvalid, validate_inputs
  <2>2. result[c] = "none" /\ ~PastGates(c)
    BY <1>1, <1>2 DEF BeginInvalid, CallOK, PastGates
  <2> QED BY <1>b, <1>2, <2>1, <2>2 DEF BeginInvalid, Results, Skips
<1>3. ASSUME NEW c \in Calls, Begin(c)
      PROVE  Once!Next
  <2>1. key[c] = NoKey /\ key'[c] = generate_key(req[c])
    BY <1>1, <1>3 DEF Begin, CallOK, TypeOK
  <2>2. key'[c] \in Keys
    BY <1>1, <1>3, <2>1, ConstantsOK DEF Begin, TypeOK, Keys, generate_key,
       validate_inputs, calculate_amount, Sides
  <2>3. Once!Intend(c)
    BY <1>3, <2>1, <2>2 DEF Begin, Once!Intend
  <2> QED BY <2>3 DEF Once!Next
<1>4. ASSUME NEW c \in Calls, FoundDuplicate(c)
      PROVE  Once!Next
  <2>1. result[c] = "none" /\ ~PastGates(c)
    BY <1>1, <1>4 DEF FoundDuplicate, CallOK, PastGates, Running
  <2> QED BY <1>b, <1>4, <2>1 DEF FoundDuplicate, Results, Skips
<1>5. ASSUME NEW c \in Calls, SaveKey(c) \/ StorageRaises(c)
      PROVE  Once!Next \/ UNCHANGED Once!vars
  <2>1. pc[c] \in {"check", "save"} /\ check_risk(c) /\ UNCHANGED <<key, orders>>
    BY <1>5 DEF SaveKey, StorageRaises
  <2>2. result[c] = "none" /\ ~PastGates(c)
    BY <1>1, <2>1 DEF CallOK, PastGates, Running
  <2>3. CASE UNCHANGED result
    BY <1>c, <2>1, <2>3
  <2>4. CASE \E r \in {"risk_blocked", "raised"} :
               result' = [result EXCEPT ![c] = r]
    BY <1>b, <2>1, <2>2, <2>4 DEF Results, Skips
  <2> QED BY <2>1, <2>3, <2>4 DEF check_risk
<1>6. ASSUME NEW c \in Calls, FoundFresh(c) \/ Send(c) \/ Reply(c) \/ Raise(c)
      PROVE  UNCHANGED Once!vars
  BY <1>c, <1>6 DEF FoundFresh, Send, Reply, Raise
<1>7. ASSUME NEW c \in Calls, GiveUp(c)
      PROVE  Once!Next
  <2>1. result[c] = "none"
    BY <1>1, <1>7 DEF GiveUp, CallOK, Running
  <2> QED BY <1>b, <1>7, <2>1 DEF GiveUp, Results, Skips
<1>8. ASSUME NEW c \in Calls, Serve(c)
      PROVE  Once!Next \/ UNCHANGED Once!vars
  <2>1. PICK n \in wire[c] :
          /\ orders' = IF \E o \in orders : o.client_order_id = cid[c]
                       THEN orders ELSE orders \cup {NewOrder(c, n)}
          /\ UNCHANGED <<key, result>>
    BY <1>8 DEF Serve
  <2>2. PastGates(c)
    BY <1>1, <1>8 DEF Serve, CallOK
  <2>3. CASE \E o \in orders : o.client_order_id = cid[c]
    BY <1>c, <2>1, <2>3
  <2>4. CASE ~\E o \in orders : o.client_order_id = cid[c]
    <3>1. \A o \in orders : o.key # key[c]
      BY <2>2, <2>4, IdIsKey, OrderIdIsKey
    <3>2. report[c] \notin Skips /\ key[c] # NoKey
      BY <1>1, <2>2 DEF PastGates, Skips, NoKey, Keys
    <3>3. orders' = orders \cup {NewOrder(c, n)}
      BY <2>1, <2>4
    <3>4. placed' = placed \cup {<<key[c], c>>}
      <4>1. NewOrder(c, n).key = key[c] /\ NewOrder(c, n).call = c
        BY DEF NewOrder
      <4>2. placed' = {<<o.key, o.call>> : o \in orders'}
        OBVIOUS
      <4> QED BY <3>3, <4>1, <4>2, Zenon
    <3>5. Once!Place(c)
      BY <2>1, <3>1, <3>2, <3>4 DEF Once!Place, Once!IsPlaced
    <3> QED BY <3>5 DEF Once!Next
  <2> QED BY <2>3, <2>4
<1>9. ASSUME NEW c \in Calls, PublishSuccess(c)
      PROVE  Once!Next
  <2>1. result[c] = "none" /\ PastGates(c) /\ key[c] # NoKey
    BY <1>1, <1>9 DEF PublishSuccess, CallOK, PastGates, Running, NoKey, Keys
  <2>2. \E o \in orders : o.key = key[c]
    BY <1>1, <1>9, <2>1, IdIsKey, OrderIdIsKey DEF PublishSuccess, CallOK
  <2> QED BY <1>b, <1>9, <2>1, <2>2 DEF PublishSuccess, Results, Skips
<1>10. ASSUME NEW c \in Calls, Cancel(c)
       PROVE  UNCHANGED Once!vars
  <2>1. result[c] = "none"
    BY <1>1, <1>10 DEF Cancel, CallOK
  <2>2. report' = report
    BY <1>a, <1>10, <2>1 DEF Cancel
  <2> QED BY <1>10, <2>2 DEF Cancel, Once!vars
<1>11. CASE Restart
  <2>1. \A c \in Calls : pc[c] \in Running => result[c] = "none"
    BY <1>1 DEF CallOK
  <2>2. report' = report
    BY <1>1, <1>11, <2>1 DEF Restart, TypeOK
  <2>3. UNCHANGED Once!vars
    BY <1>11, <2>2 DEF Restart, Once!vars
  <2> QED BY <2>3
<1>12. CASE Tick \/ UNCHANGED vars
  BY <1>c, <1>12 DEF Tick, vars
<1> QED BY <1>2, <1>3, <1>4, <1>5, <1>6, <1>7, <1>8, <1>9, <1>10, <1>11, <1>12
        DEF Next, Step

(* The execution path implements the promise it makes to its callers: a    *)
(* trade is placed at most once, "executed" is true, a skip places nothing. *)
THEOREM Refinement ==
  ASSUME CallerIds = {}
  PROVE  Spec => ImplementsOnce
<1>1. Init => Once!Init
  BY DEF Init, Once!Init
<1>2. IInv /\ IInv' /\ [Next]_vars => [Once!Next]_Once!vars
  BY StepRefines
<1> QED BY <1>1, <1>2, Inductive, PTL DEF Spec, ImplementsOnce, Once!Spec
=============================================================================
