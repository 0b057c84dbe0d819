---------------------------- MODULE MCConnection ----------------------------
(***************************************************************************)
(* What connects the bot to the outside.  The parts share nothing, so a    *)
(* behaviour exercises one of them and leaves the others as they were.     *)
(***************************************************************************)
EXTENDS Exchange, Quotes, HttpClient, TLC

CONSTANT CcxtTime  \* a smaller bound on the clock, for the larger broker

VARIABLE part

vars == <<part, exchangeVars, quoteVars, httpVars>>

Symmetry == Permutations(Callers) \cup Permutations(Readers)
              \cup Permutations(Symbols)

(* A market with a step, and one with a least amount (then that is the     *)
(* step) and a least value.                                                *)
MCMarkets == {[tick |-> 8, min |-> 0, cost |-> 0],
              [tick |-> 0, min |-> 5, cost |-> 6]}

Init ==
  /\ part \in {"exchange", "quotes", "http"}
  /\ ExchangeInit /\ QuotesInit /\ HttpInit
  /\ part # "exchange" => broker = "base"
  /\ broker = "base" => market.tick = 8
  /\ part # "quotes" => kind = "market"

Next ==
  /\ UNCHANGED part
  /\ \/ /\ part = "exchange" /\ ExchangeNext /\ UNCHANGED <<quoteVars, httpVars>>
        /\ broker = "ccxt" => now' <= CcxtTime
     \/ part = "quotes" /\ QuotesNext /\ UNCHANGED <<exchangeVars, httpVars>>
     \/ part = "http" /\ HttpNext /\ UNCHANGED <<exchangeVars, quoteVars>>

(* The event loop runs every coroutine that can go on; a request that was  *)
(* sent comes to some end, if by its timeout.                              *)
Spec ==
  /\ Init /\ [][Next]_vars
  /\ \A r \in Clients :
       WF_vars(part = "http" /\ HttpStep(r) /\ UNCHANGED <<part, exchangeVars, quoteVars>>)
=============================================================================
