--------------------------- MODULE MCExecuteTrade ---------------------------
(* Instances of ExecuteTrade for TLC. *)
EXTENDS ExecuteTrade, TLC

\* Two spellings of one BUY (explicit quote, FIXED_AMOUNT), a SELL, and a
\* request each for the two ways validation can refuse.
MCRequests ==
  {[symbol |-> s, side |-> "buy", amount |-> 0, quote_amount |-> 1,
    client_order_id |-> NoId] : s \in Symbols} \cup
  {[symbol |-> s, side |-> "buy", amount |-> 0, quote_amount |-> 0,
    client_order_id |-> NoId] : s \in Symbols} \cup
  {[symbol |-> s, side |-> "sell", amount |-> a, quote_amount |-> 0,
    client_order_id |-> NoId] : s \in Symbols, a \in {0, 1}} \cup
  {[symbol |-> NoSymbol, side |-> "buy", amount |-> 0, quote_amount |-> 1,
    client_order_id |-> NoId]}

\* Calls differ in nothing but their name; the run that uses this checks
\* safety properties only.
CallSymmetry == Permutations(Calls)
=============================================================================
