------------------------------ MODULE EventBus ------------------------------
(***************************************************************************)
(* core/infrastructure/events/bus.py: AsyncEventBus with deduplication on, *)
(* the way app/compose.py builds it, behind UnifiedEventBus.publish.  Each *)
(* publication is a coroutine; it gathers one task per matching handler,   *)
(* and the tasks of all publications share one semaphore.                  *)
(***************************************************************************)
EXTENDS Naturals, FiniteSets, Sequences, SequencesExt

CONSTANTS
  MaxPubs,           \* bound on the calls of publish()
  Messages,          \* what may be published: [topic, key]
  NoKey,             \* published without a key
  Subs,              \* exact and wildcard subscriptions
  Covers,            \* the topics each of them matches
  DlqSubs,           \* subscribers of the dead letter queue
  MaxAttempts,       \* max_attempts
  TopicConcurrency,  \* permits of the semaphore
  DedupeSize         \* dedupe_size

ASSUME BusConstantsOK ==
  /\ Covers \in [Subs -> SUBSET {m.topic : m \in Messages}]
  /\ MaxPubs \in Nat /\ IsFiniteSet(Subs)
  /\ MaxAttempts \in Nat \ {0}
  /\ TopicConcurrency \in Nat \ {0}
  /\ DedupeSize \in Nat \ {0}

\* publish() calls, numbered as they come.
Pubs == 1..MaxPubs

VARIABLES
  subs,        \* _subs and _wildcard
  dlq,         \* _dlq
  dedupe_q,    \* _dedupe_q, the oldest key first
  dedupe_set,  \* _dedupe_set
  permits,     \* what is left of _sem
  pub,         \* state of each publication
  msg,         \* what it publishes
  handlers,    \* the subscriptions it matched when it began
  watching,    \* the DLQ subscribers there were when it began
  task,        \* state of the task of each publication and subscription
  attempt,     \* calls of the handler by this task
  told,        \* DLQ subscribers this task has called
  registered   \* every key ever entered in the cache, in order

bus_vars == <<subs, dlq, dedupe_q, dedupe_set, permits, pub, msg, handlers,
              watching, task, attempt, told, registered>>

wiring == <<subs, dlq>>
cache  == <<dedupe_q, dedupe_set, registered>>
call   == <<msg, handlers, watching>>

Tasks == Pubs \X Subs
Holding == {"running", "backoff", "dead"}
Over == {"delivered", "failed", "cancelled"}

NoMsg == [topic |-> NoKey, key |-> NoKey]

BusInit ==
  /\ subs = {} /\ dlq = {}
  /\ dedupe_q = <<>> /\ dedupe_set = {} /\ registered = <<>>
  /\ permits = TopicConcurrency
  /\ pub = [p \in Pubs |-> "idle"]
  /\ msg = [p \in Pubs |-> NoMsg]
  /\ handlers = [p \in Pubs |-> {}]
  /\ watching = [p \in Pubs |-> {}]
  /\ task = [t \in Tasks |-> "none"]
  /\ attempt = [t \in Tasks |-> 0]
  /\ told = [t \in Tasks |-> {}]

Subscribe(s) ==
  /\ s \notin subs
  /\ subs' = subs \cup {s}
  /\ UNCHANGED <<dlq, cache, permits, pub, call, task, attempt, told>>

SubscribeDlq(d) ==
  /\ d \notin dlq
  /\ dlq' = dlq \cup {d}
  /\ UNCHANGED <<subs, cache, permits, pub, call, task, attempt, told>>
-----------------------------------------------------------------------------
\* Slip: the key that has just come in is the one dropped from the set.
remember_newest(k) ==
  LET grown == dedupe_set \cup {k}
  IN  /\ registered' = Append(registered, k)
      /\ IF Cardinality(grown) > DedupeSize
         THEN dedupe_q' = Append(Tail(dedupe_q), k) /\ dedupe_set' = grown \ {k}
         ELSE dedupe_q' = Append(dedupe_q, k) /\ dedupe_set' = grown

(* The deque has a maxlen of its own: appending to a full one drops the    *)
(* oldest key without telling the set.  The loop below then drops the next *)
(* oldest from both; one round is enough to bring the set back to size.    *)
remember(k) ==
  LET full  == Len(dedupe_q) = DedupeSize
      q     == Append(IF full THEN Tail(dedupe_q) ELSE dedupe_q, k)
      grown == dedupe_set \cup {k}
  IN  /\ registered' = Append(registered, k)
      /\ IF Cardinality(grown) > DedupeSize
         THEN dedupe_q' = Tail(q) /\ dedupe_set' = grown \ {Head(q)}
         ELSE dedupe_q' = q /\ dedupe_set' = grown

Comes(p) == pub[p] = "idle" /\ \A q \in 1..(p - 1) : pub[q] # "idle"

(* publish() of a key the cache knows: nobody is told.                     *)
PublishDeduped(p) == \E m \in Messages :
  /\ Comes(p)
  /\ m.key # NoKey /\ m.key \in dedupe_set
  /\ msg' = [msg EXCEPT ![p] = m]
  /\ pub' = [pub EXCEPT ![p] = "deduped"]
  /\ UNCHANGED <<wiring, cache, permits, handlers, watching, task, attempt, told>>

(* publish() of anything else: the key is cached before anything has been  *)
(* delivered, and the handlers subscribed by now are gathered.             *)
Publish(p) == \E m \in Messages :
  /\ Comes(p)
  /\ IF m.key = NoKey THEN UNCHANGED cache
     ELSE m.key \notin dedupe_set /\ remember(m.key)
  /\ LET hs == {s \in subs : m.topic \in Covers[s]}
     IN  /\ handlers' = [handlers EXCEPT ![p] = hs]
         /\ pub' = [pub EXCEPT ![p] = IF hs = {} THEN "ok" ELSE "sent"]
         /\ task' = [t \in Tasks |->
              IF t[1] = p /\ t[2] \in hs THEN "queued" ELSE task[t]]
  /\ msg' = [msg EXCEPT ![p] = m]
  /\ watching' = [watching EXCEPT ![p] = dlq]
  /\ UNCHANGED <<wiring, permits, attempt, told>>
-----------------------------------------------------------------------------
(* A task gets a permit and calls its handler.                             *)
Acquire(t) ==
  /\ task[t] = "queued"
  /\ permits > 0
  /\ permits' = permits - 1
  /\ task' = [task EXCEPT ![t] = "running"]
  /\ attempt' = [attempt EXCEPT ![t] = 1]
  /\ UNCHANGED <<wiring, cache, pub, call, told>>

HandlerReturns(t) ==
  /\ task[t] = "running"
  /\ task' = [task EXCEPT ![t] = "delivered"]
  /\ permits' = permits + 1
  /\ UNCHANGED <<wiring, cache, pub, call, attempt, told>>

\* Slip: the last failure is dropped instead of going to the DLQ.
HandlerRaisesDropping(t) ==
  /\ task[t] = "running"
  /\ IF attempt[t] >= MaxAttempts
     THEN task' = [task EXCEPT ![t] = "failed"] /\ permits' = permits + 1
     ELSE task' = [task EXCEPT ![t] = "backoff"] /\ UNCHANGED permits
  /\ UNCHANGED <<wiring, cache, pub, call, attempt, told>>

(* The permit is kept through the backoff and the calls of the DLQ.        *)
HandlerRaises(t) ==
  /\ task[t] = "running"
  /\ task' = [task EXCEPT ![t] =
                IF attempt[t] >= MaxAttempts THEN "dead" ELSE "backoff"]
  /\ UNCHANGED <<wiring, cache, permits, pub, call, attempt, told>>

Retry(t) ==
  /\ task[t] = "backoff"
  /\ task' = [task EXCEPT ![t] = "running"]
  /\ attempt' = [attempt EXCEPT ![t] = @ + 1]
  /\ UNCHANGED <<wiring, cache, permits, pub, call, told>>

(* _emit_to_dlq calls every subscriber, one after the other, those that    *)
(* come while it waits included; it makes no difference if one raises.     *)
TellDlq(t) == \E d \in dlq \ told[t] :
  /\ task[t] = "dead"
  /\ told' = [told EXCEPT ![t] = @ \cup {d}]
  /\ UNCHANGED <<wiring, cache, permits, pub, call, task, attempt>>

\* Slip: the permit of a dead task is not given back.
FailKeepingPermit(t) ==
  /\ task[t] = "dead"
  /\ told[t] = dlq
  /\ task' = [task EXCEPT ![t] = "failed"]
  /\ UNCHANGED <<wiring, cache, permits, pub, call, attempt, told>>

Fail(t) ==
  /\ task[t] = "dead"
  /\ told[t] = dlq
  /\ task' = [task EXCEPT ![t] = "failed"]
  /\ permits' = permits + 1
  /\ UNCHANGED <<wiring, cache, pub, call, attempt, told>>

(* gather() has every result.                                              *)
Gathered(p) ==
  /\ pub[p] = "sent"
  /\ \A s \in handlers[p] : task[p, s] \in Over
  /\ pub' = [pub EXCEPT ![p] = "ok"]
  /\ UNCHANGED <<wiring, cache, permits, call, task, attempt, told>>

(* The publisher is cancelled (an orchestrator loop is, at any await): so  *)
(* are the tasks it gathered.  The key stays in the cache.                 *)
CancelPublish(p) ==
  /\ pub[p] = "sent"
  /\ pub' = [pub EXCEPT ![p] = "cancelled"]
  /\ task' = [t \in Tasks |-> IF t[1] = p /\ task[t] \in Holding \cup {"queued"}
                              THEN "cancelled" ELSE task[t]]
  /\ permits' = permits + Cardinality({s \in Subs : task[p, s] \in Holding})
  /\ UNCHANGED <<wiring, cache, call, attempt, told>>
-----------------------------------------------------------------------------
(* What a task does until it is over.                                      *)
Deliver(t) ==
  \/ Acquire(t) \/ HandlerReturns(t) \/ HandlerRaises(t) \/ Retry(t)
  \/ TellDlq(t) \/ Fail(t)

BusNext ==
  \/ \E s \in Subs : Subscribe(s)
  \/ \E d \in DlqSubs : SubscribeDlq(d)
  \/ \E p \in Pubs : \/ PublishDeduped(p) \/ Publish(p)
                     \/ Gathered(p) \/ CancelPublish(p)
  \/ \E t \in Tasks : Deliver(t)

BusSpec == BusInit /\ [][BusNext]_bus_vars

(* The event loop does not idle while a task can go on: sleeps end, and    *)
(* handlers return or raise at last.  Nobody has to publish, subscribe or  *)
(* cancel, and no task is favoured.                                        *)
BusFairSpec == BusSpec /\ WF_bus_vars(\/ \E t \in Tasks : Deliver(t)
                                      \/ \E p \in Pubs : Gathered(p))
-----------------------------------------------------------------------------
(* Types of the bus' variables.                                            *)
BusTypeOK ==
  /\ subs \subseteq Subs /\ dlq \subseteq DlqSubs
  /\ dedupe_q \in Seq({m.key : m \in Messages})
  /\ permits \in 0..TopicConcurrency
  /\ pub \in [Pubs -> {"idle", "sent", "ok", "deduped", "cancelled"}]
  /\ msg \in [Pubs -> Messages \cup {NoMsg}]
  /\ handlers \in [Pubs -> SUBSET Subs]
  /\ watching \in [Pubs -> SUBSET DlqSubs]
  /\ task \in [Tasks -> Holding \cup Over \cup {"none", "queued"}]
  /\ attempt \in [Tasks -> 0..MaxAttempts]
  /\ told \in [Tasks -> SUBSET DlqSubs]

(* A key that is published a second time to the handlers was pushed out by *)
(* at least dedupe_size - 1 other keys that came in between.               *)
NoEarlyRedelivery ==
  \A i, j \in DOMAIN registered :
    i < j /\ registered[i] = registered[j] =>
      Cardinality({registered[n] : n \in (i + 1)..(j - 1)}) >= DedupeSize - 1

(* A publication that returns ok has, for every handler subscribed when it *)
(* began, either seen it return or called it max_attempts times and then   *)
(* told every subscriber of the dead letter queue.                         *)
Accounted ==
  \A p \in Pubs : pub[p] = "ok" => \A s \in handlers[p] :
    \/ task[p, s] = "delivered"
    \/ /\ task[p, s] = "failed"
       /\ attempt[p, s] = MaxAttempts
       /\ watching[p] \subseteq told[p, s]

(* Every publication comes back to its publisher, however its handlers     *)
(* fail and whoever else holds the permits: in the end the bus is at rest. *)
PublishEnds == <>[](\A p \in Pubs : pub[p] # "sent")
=============================================================================
