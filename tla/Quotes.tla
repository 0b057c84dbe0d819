------------------------------- MODULE Quotes -------------------------------
(***************************************************************************)
(* How old a quote may be when it is used.  BaseBroker.fetch_ticker keeps  *)
(* the last quote of a symbol for a while (brokers/base.py); a provider of *)
(* market data keeps what the broker gave it in a store of its own, of     *)
(* bounded size (market_data/ccxt_market_data.py).  Quotes are kept from   *)
(* the time they arrive, so the ages add up.  The two caches of            *)
(* market_data/cache.py are other kinds of store: they keep a quote        *)
(* through the whole of its last unit of time, spare a key that is there   *)
(* already, and one of them evicts by use.                                 *)
(*                                                                         *)
(* A quote is the time it was made at.                                     *)
(***************************************************************************)
EXTENDS Integers, Sequences, FiniteSets, SequencesExt

CONSTANTS Readers, Symbols,
          BrokerTtl,   \* BaseBroker: _ticker_cache_ttl
          StoreTtl,    \* cache_ttl_sec, ttl_sec
          StoreSize,   \* max_size
          Flight,      \* bound on the time a request is under way
          LastTime     \* bound on the clock

ASSUME TtlsPositive ==
  /\ BrokerTtl \in Nat \ {0} /\ StoreTtl \in Nat \ {0} /\ StoreSize \in Nat \ {0}
  /\ Flight \in Nat

VARIABLES clock, kind, kept, store, reader

quoteVars == <<clock, kind, kept, store, reader>>

None == [made |-> -1, since |-> -1]

Waiting == [stage |-> "idle", symbol |-> "none", via |-> "none",
            asked |-> 0, made |-> -1]

QuotesInit ==
  /\ clock = 0
  /\ kind \in {"market", "ttl", "lru"}
  /\ kept = [s \in Symbols |-> None]
  /\ store = <<>>
  /\ reader = [r \in Readers |-> Waiting]

----------------------------------------------------------------------------
(* The store: a sequence of [symbol, made, since], the one put, or for     *)
(* "lru" used, last at the end.                                            *)

Alive(e) == IF kind = "market" THEN clock - e.since < StoreTtl
            ELSE clock - e.since <= StoreTtl

Of(q, s) == {i \in DOMAIN q : q[i].symbol = s}

(* A symbol has one entry.                                                 *)
Dropped(q, s) == IF Of(q, s) = {} THEN q ELSE RemoveAt(q, CHOOSE i \in Of(q, s) : TRUE)

Without(s) == Dropped(store, s)

Has(s) == Of(store, s) # {}

Entry(s) == store[CHOOSE i \in Of(store, s) : TRUE]

(* What the store gives for a symbol, and the store afterwards: one that   *)
(* is too old is dropped, and "lru" moves one that is used to the end.     *)
Hit(s) == Has(s) /\ Alive(Entry(s))

\* Slip: a hit makes the quote new again.
LookedUpFresh(s) ==
  CASE Has(s) /\ ~Alive(Entry(s)) -> Without(s)
    [] Hit(s) -> Append(Without(s), [Entry(s) EXCEPT !.since = clock])
    [] OTHER -> store

LookedUp(s) ==
  CASE Has(s) /\ ~Alive(Entry(s)) -> Without(s)
    [] Hit(s) /\ kind = "lru" -> Append(Without(s), Entry(s))
    [] OTHER -> store

Oldest == CHOOSE i \in DOMAIN store :
            \A j \in DOMAIN store : store[i].since <= store[j].since

(* A full store drops its oldest quote, the store of market data even when *)
(* the symbol is there already; "lru" drops the one used longest ago.      *)
Put(s, made) ==
  LET full == Len(store) >= StoreSize /\ (kind = "market" \/ ~Has(s))
      room == CASE kind = "lru" /\ full -> Tail(store)
                [] kind # "lru" /\ full -> RemoveAt(store, Oldest)
                [] OTHER -> store
  IN Append(Dropped(room, s), [symbol |-> s, made |-> made, since |-> clock])

----------------------------------------------------------------------------
(* Readers *)

KeptFresh(s) == kept[s] # None /\ clock - kept[s].since < BrokerTtl

Served(r, made) == [reader[r] EXCEPT !.stage = "served", !.made = made]

(* A reader asks the broker: a quote it keeps, or a request.               *)
FetchTicker(r, s) ==
  /\ reader[r].stage = "idle"
  /\ reader' = [reader EXCEPT ![r] =
       [Waiting EXCEPT !.symbol = s, !.via = "broker", !.asked = clock,
          !.stage = IF KeptFresh(s) THEN "served" ELSE "asking",
          !.made = IF KeptFresh(s) THEN kept[s].made ELSE -1]]
  /\ UNCHANGED <<clock, kind, kept, store>>

(* A reader asks for market data: a quote in the store, or one the broker  *)
(* keeps, which is stored as if it had been made now, or a request.        *)
GetTicker(r, s) ==
  LET got == [Waiting EXCEPT !.symbol = s, !.via = "market", !.asked = clock] IN
  /\ reader[r].stage = "idle"
  /\ IF Hit(s)
     THEN /\ reader' = [reader EXCEPT ![r] =
                          [got EXCEPT !.stage = "served", !.made = Entry(s).made]]
          /\ store' = LookedUp(s)
     ELSE IF KeptFresh(s)
     THEN /\ reader' = [reader EXCEPT ![r] =
                          [got EXCEPT !.stage = "served", !.made = kept[s].made]]
          /\ store' = Put(s, kept[s].made)
     ELSE /\ reader' = [reader EXCEPT ![r] = [got EXCEPT !.stage = "asking"]]
          /\ store' = LookedUp(s)
  /\ UNCHANGED <<clock, kind, kept>>

(* The exchange makes the quote of a request.                              *)
Make(r) ==
  /\ reader[r].stage = "asking"
  /\ reader' = [reader EXCEPT ![r].stage = "made", ![r].made = clock]
  /\ UNCHANGED <<clock, kind, kept, store>>

(* It arrives: the broker keeps it, and a provider stores it as well.      *)
Arrive(r) ==
  LET s == reader[r].symbol IN
  /\ reader[r].stage = "made"
  /\ kept' = [kept EXCEPT ![s] = [made |-> reader[r].made, since |-> clock]]
  /\ store' = IF reader[r].via = "market" THEN Put(s, reader[r].made) ELSE store
  /\ reader' = [reader EXCEPT ![r] = Served(r, reader[r].made)]
  /\ UNCHANGED <<clock, kind>>

(* It does not: the broker raises, a provider answers None.                *)
Lose(r) ==
  /\ reader[r].stage \in {"asking", "made"}
  /\ reader' = [reader EXCEPT ![r] = Waiting]
  /\ UNCHANGED <<clock, kind, kept, store>>

(* The reader has used the quote it was given.                             *)
Use(r) ==
  /\ reader[r].stage = "served"
  /\ reader' = [reader EXCEPT ![r] = Waiting]
  /\ UNCHANGED <<clock, kind, kept, store>>

(* clear_cache, and the sweep of the thread a TTL cache may have: quotes   *)
(* are there in the order they came in, those that are too old first.      *)
Clear ==
  /\ store' = <<>>
  /\ UNCHANGED <<clock, kind, kept, reader>>

Cleanup ==
  /\ kind = "ttl"
  /\ \E n \in 0..Len(store) :
       /\ \A i \in DOMAIN store : Alive(store[i]) <=> i > n
       /\ store' = SubSeq(store, n + 1, Len(store))
  /\ UNCHANGED <<clock, kind, kept, reader>>

(* Time passes; a request is under way for at most Flight, and a quote     *)
(* that was given is used at once.                                         *)
Age ==
  /\ clock < LastTime
  /\ \A r \in Readers : /\ reader[r].stage # "served"
                        /\ reader[r].stage # "idle" => clock - reader[r].asked < Flight
  /\ clock' = clock + 1
  /\ UNCHANGED <<kind, kept, store, reader>>

QuotesNext ==
  \/ Age \/ Clear \/ Cleanup
  \/ \E r \in Readers :
       \/ \E s \in Symbols : FetchTicker(r, s) \/ GetTicker(r, s)
       \/ Make(r) \/ Arrive(r) \/ Lose(r) \/ Use(r)

QuotesSpec == QuotesInit /\ [][QuotesNext]_quoteVars

----------------------------------------------------------------------------
(* Properties *)

(* The age of the quote a reader is given never exceeds the sum of what    *)
(* each cache on its way allows and the time it travelled, however         *)
(* requests for one symbol overlap and whichever is kept last; and the     *)
(* store never holds more than its size, nor a symbol twice, and unless    *)
(* use moves them, what it holds is in the order it came in.               *)
QuotesBounded ==
  /\ \A r \in Readers : reader[r].stage = "served" =>
       clock - reader[r].made <=
         Flight + (BrokerTtl - 1)
           + (CASE reader[r].via = "broker" -> 0
                [] reader[r].via # "broker" /\ kind = "market" -> StoreTtl - 1
                [] OTHER -> StoreTtl)
  /\ Len(store) <= StoreSize
  /\ \A i, j \in DOMAIN store : store[i].symbol = store[j].symbol => i = j
  /\ kind # "lru" => \A i, j \in DOMAIN store : i < j => store[i].since <= store[j].since
=============================================================================
