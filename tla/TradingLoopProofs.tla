--------------------------- MODULE TradingLoopProofs ---------------------------
(***************************************************************************)
(* The loops of a symbol, and the gate the evaluation that runs in one of  *)
(* them passes with an order.                                              *)
(*                                                                         *)
(* First what Orchestrator promises, for any set of loops and any number   *)
(* of starts.  The invariant says which tasks can be alive at all: only    *)
(* those of the last start(), none of them cancelled before stop() is      *)
(* called, and none at all once it has ended.                              *)
(* Then the gate, and the formulas by which a signal, an interval or a     *)
(* weight is worked out, for whatever is configured and measured.          *)
(***************************************************************************)
EXTENDS Orchestrator, Prudence, Sums

\* error_count stays a number within the bound of the last start().
ErrorsInv ==
  \A l \in Loops :
    /\ error_count[l] <= MaxErrors + starts
    /\ \A t \in Tasks :
         Alive(t) /\ t[1] = l => error_count[l] < MaxErrors + starts

\* Only tasks of the last start() are alive, and of a running orchestrator
\* none of these is being cancelled.
TasksInv ==
  /\ \A t \in Tasks : Alive(t) => t[2] = starts
  /\ \A t \in cancelling : t[2] <= starts
  /\ state \in {"running", "paused"} =>
       starts > 0 /\ \A l \in Loops : Current(l) \notin cancelling

\* The stop() that waits holds the state at STOPPING.
StopInv ==
  /\ stop_call # "none" => state = "stopping"
  /\ state = "stopping" => starts > 0

IInv == TypeOK /\ ErrorsInv /\ TasksInv /\ StopInv /\ StoppedIsQuiet /\ StatusTruthful

\* The name of the current task of a loop.
LEMMA CurrentTask ==
  ASSUME TypeOK, starts > 0, NEW l \in Loops
  PROVE  Current(l) \in Tasks
BY ConstantsOK DEF TypeOK, Tasks, Current

\* A live task is the current one of its loop.
LEMMA AliveIsCurrent ==
  ASSUME TypeOK, TasksInv, NEW t \in Tasks, Alive(t)
  PROVE  t[1] \in Loops /\ t = Current(t[1]) /\ starts > 0
<1>1. t[2] = starts
  BY DEF TasksInv
<1> QED BY <1>1, ConstantsOK DEF Tasks, Current

\* Before the first start() there is no task.
LEMMA InitInv == Init => IInv
<1> SUFFICES ASSUME Init PROVE IInv
  OBVIOUS
<1> USE ConstantsOK DEF Init, Alive, Live
<1>1. TypeOK
  <2>1. error_count \in [Loops -> 0..(MaxErrors + MaxStarts)]
    BY 0 \in 0..(MaxErrors + MaxStarts)
  <2>2. task \in [Tasks -> Live \cup {"none", "done"}]
    OBVIOUS
  <2>3. loop_state \in [Loops -> {"idle", "running", "paused", "failed", "stopped"}]
    OBVIOUS
  <2>4. starts \in 0..MaxStarts
    OBVIOUS
  <2> QED BY <2>1, <2>2, <2>3, <2>4 DEF TypeOK
<1>2. ErrorsInv /\ TasksInv
  BY DEF ErrorsInv, TasksInv
<1>3. StopInv /\ StoppedIsQuiet /\ StatusTruthful
  BY DEF StopInv, StoppedIsQuiet, StatusTruthful
<1> QED BY <1>1, <1>2, <1>3 DEF IInv

\* start() finds no task alive, so the ones it makes are the only ones.
LEMMA StartInv ==
  ASSUME IInv, start
  PROVE  IInv'
<1> USE ConstantsOK
<1> USE DEF IInv, start, launch, Alive, Live
<1>1. starts' = starts + 1 /\ starts \in Nat /\ starts' <= MaxStarts
  BY DEF TypeOK
<1>2. \A t \in Tasks : ~Alive(t)
  BY DEF StoppedIsQuiet
<1>3. TypeOK'
  <2>1. task' \in [Tasks -> Live \cup {"none", "done"}]
    BY DEF TypeOK
  <2>2. loop_state' \in [Loops -> {"idle", "running", "paused", "failed", "stopped"}]
    OBVIOUS
  <2>3. starts' \in 0..MaxStarts
    BY <1>1
  <2> QED BY <2>1, <2>2, <2>3 DEF TypeOK
<1>4. \A t \in Tasks : Alive(t)' <=> t[2] = starts'
  BY <1>2, <1>1 DEF TypeOK
<1>5. TasksInv'
  <2>1. \A t \in cancelling' : t[2] <= starts'
    BY <1>1 DEF TasksInv, TypeOK, Tasks
  <2>2. \A l \in Loops : Current(l)' \notin cancelling'
    BY <1>1 DEF TasksInv, TypeOK, Current
  <2> QED BY <1>4, <1>1, <2>1, <2>2 DEF TasksInv
<1>6. ErrorsInv'
  BY <1>1 DEF ErrorsInv, TypeOK
<1>7. StopInv' /\ StoppedIsQuiet'
  BY <1>1 DEF StopInv, StoppedIsQuiet
<1>8. StatusTruthful'
  <2> SUFFICES ASSUME NEW l \in Loops PROVE Alive(Current(l))'
    BY DEF StatusTruthful, TypeOK
  <2>1. Current(l)' \in Tasks /\ Current(l)'[2] = starts'
    BY <1>1 DEF Current, Tasks
  <2> QED BY <2>1, <1>1 DEF Current
<1> QED BY <1>3, <1>5, <1>6, <1>7, <1>8

\* stop() up to the gather cancels only tasks of the last start().
LEMMA StopCallInv ==
  ASSUME IInv, stop
  PROVE  IInv'
<1> USE ConstantsOK
<1> USE DEF IInv, stop
<1>1. starts > 0 /\ \A l \in Loops : Current(l) \in Tasks
  BY CurrentTask DEF TasksInv
<1>2. TypeOK'
  BY <1>1 DEF TypeOK
<1>3. TasksInv'
  <2>1. \A t \in Tasks : Alive(t)' => t[2] = starts'
    BY DEF TasksInv, Alive
  <2>2. ASSUME NEW t \in cancelling' PROVE t[2] <= starts'
    <3>1. CASE t \in cancelling
      BY <3>1 DEF TasksInv
    <3>2. CASE \E l \in Loops : t = Current(l)
      BY <3>2 DEF Current, TypeOK
    <3> QED BY <2>2, <3>1, <3>2
  <2> QED BY <2>1, <2>2 DEF TasksInv
<1>4. ErrorsInv'
  BY DEF ErrorsInv, Alive
<1>5. StopInv' /\ StoppedIsQuiet' /\ StatusTruthful'
  BY <1>1 DEF StopInv, StoppedIsQuiet, StatusTruthful
<1> QED BY <1>2, <1>3, <1>4, <1>5

\* gather() ends when no task of the last start(), hence no task, is alive.
LEMMA StoppedInv ==
  ASSUME IInv, stopped
  PROVE  IInv'
<1> USE DEF IInv, stopped
<1>1. \A t \in Tasks : ~Alive(t)
  BY AliveIsCurrent
<1>2. TypeOK' /\ ErrorsInv'
  BY DEF TypeOK, ErrorsInv, Alive
<1>3. TasksInv' /\ StopInv'
  BY DEF TasksInv, StopInv, Alive, Current
<1>4. StoppedIsQuiet' /\ StatusTruthful'
  BY <1>1 DEF StoppedIsQuiet, StatusTruthful, Alive
<1> QED BY <1>2, <1>3, <1>4

\* A refused stop() leaves everything, and a cancelled one but cancels what is
\* alive of the last start() again.
LEMMA RefusedInv ==
  ASSUME IInv, stop_refused \/ stop_cancelled \/ UNCHANGED vars
  PROVE  IInv'
<1> USE DEF IInv, stop_refused, stop_cancelled, vars
<1>1. TypeOK' /\ ErrorsInv'
  BY DEF TypeOK, ErrorsInv, Alive
<1>2. \A t \in cancelling' : t[2] <= starts'
  <2> SUFFICES ASSUME NEW t \in cancelling' PROVE t[2] <= starts
    OBVIOUS
  <2>1. t \in cancelling \/ t[2] = starts
    OBVIOUS
  <2> QED BY <2>1 DEF TasksInv, TypeOK
<1>3. TasksInv' /\ StopInv'
  BY <1>2 DEF TasksInv, StopInv, Alive, Current
<1>4. StoppedIsQuiet' /\ StatusTruthful'
  BY DEF StoppedIsQuiet, StatusTruthful, Alive, Current
<1> QED BY <1>1, <1>3, <1>4

\* pause() and resume() turn exactly the loops that follow the whole.
LEMMA PauseInv ==
  ASSUME IInv, pause \/ resume
  PROVE  IInv'
<1> USE DEF IInv, pause, resume
<1>1. TypeOK' /\ ErrorsInv'
  BY DEF TypeOK, ErrorsInv, Alive
<1>2. TasksInv' /\ StopInv'
  BY DEF TasksInv, StopInv, Alive, Current
<1>3. StoppedIsQuiet' /\ StatusTruthful'
  BY DEF StoppedIsQuiet, StatusTruthful, Alive, Current, TypeOK
<1> QED BY <1>1, <1>2, <1>3

\* A task that goes from one live point of its loop to another.
LEMMA MoveInv ==
  ASSUME IInv, NEW t \in Tasks, Alive(t), NEW pc \in Live, Goto(t, pc),
         \/ UNCHANGED error_count
         \/ \E n \in 0..(MaxErrors - 1) :
              error_count' = [error_count EXCEPT ![t[1]] = n],
         cancelling' \subseteq cancelling,
         UNCHANGED <<state, starts, loop_state, stop_call>>
  PROVE  IInv'
<1> USE ConstantsOK
<1> USE DEF IInv, Goto
<1>1. t[1] \in Loops /\ starts > 0
  BY AliveIsCurrent
<1>2. \A u \in Tasks : Alive(u)' <=> Alive(u)
  BY DEF Alive, TypeOK
<1>3. TypeOK'
  BY <1>1 DEF TypeOK, Live
<1>4. ErrorsInv'
  BY <1>1, <1>2 DEF ErrorsInv, TypeOK
<1>5. TasksInv' /\ StopInv' /\ StoppedIsQuiet'
  BY <1>2 DEF TasksInv, StopInv, StoppedIsQuiet, Current
<1>6. StatusTruthful'
  <2> SUFFICES ASSUME state \in {"running", "paused"}, NEW l \in Loops
               PROVE  Alive(Current(l))' <=> Alive(Current(l))
    BY DEF StatusTruthful, Current
  <2>1. Current(l) \in Tasks
    BY CurrentTask DEF TasksInv
  <2> QED BY <2>1, <1>2 DEF Current
<1> QED BY <1>3, <1>4, <1>5, <1>6

\* A task that ends: with the loop marked as failed, or in a stopping
\* orchestrator, where nobody reads the state of a loop any more.
LEMMA EndInv ==
  ASSUME IInv, NEW t \in Tasks, Alive(t), Goto(t, "done"),
         \/ /\ error_count' = [error_count EXCEPT ![t[1]] = @ + 1]
            /\ loop_state' = [loop_state EXCEPT ![t[1]] = "failed"]
         \/ /\ state \notin {"running", "paused"}
            /\ UNCHANGED <<error_count, loop_state>>,
         cancelling' \subseteq cancelling,
         UNCHANGED <<state, starts, stop_call>>
  PROVE  IInv'
<1> USE ConstantsOK
<1> USE DEF IInv, Goto
<1>1. t[1] \in Loops /\ t = Current(t[1]) /\ starts > 0
  BY AliveIsCurrent
<1>2. \A u \in Tasks : Alive(u)' <=> Alive(u) /\ u # t
  BY DEF Alive, Live, TypeOK
<1>3. \A u \in Tasks : Alive(u) /\ u[1] = t[1] => u = t
  BY AliveIsCurrent
<1>4. error_count[t[1]] < MaxErrors + starts
  BY <1>1 DEF ErrorsInv
<1>5. TypeOK'
  BY <1>1, <1>4 DEF TypeOK
<1>6. ErrorsInv'
  BY <1>1, <1>2, <1>3, <1>4 DEF ErrorsInv, TypeOK
<1>7. TasksInv' /\ StopInv' /\ StoppedIsQuiet'
  BY <1>2 DEF TasksInv, StopInv, StoppedIsQuiet, Current
<1>8. StatusTruthful'
  <2> SUFFICES ASSUME state \in {"running", "paused"}, NEW l \in Loops
               PROVE  loop_state'[l] =
                        IF Alive(Current(l))' THEN state ELSE "failed"
    BY DEF StatusTruthful
  <2>1. Current(l) \in Tasks /\ Current(l)' = Current(l)
    BY CurrentTask DEF TasksInv, Current
  <2>2. Current(l) = t <=> l = t[1]
    BY <1>1 DEF Current
  <2> QED BY <2>1, <2>2, <1>1, <1>2 DEF StatusTruthful, TypeOK, Current
<1> QED BY <1>5, <1>6, <1>7, <1>8

\* Every step of a loop is one of the two.
LEMMA RunnerInv ==
  ASSUME IInv, NEW t \in Tasks, _loop_runner(t)
  PROVE  IInv'
<1> USE ConstantsOK
<1> USE DEF At, Live, Alive
<1>1. CASE wake(t)
  <2>1. CASE state \notin {"running", "paused"}
    BY <1>1, <2>1, EndInv DEF wake
  <2>2. CASE state \in {"running", "paused"}
    <3>1. \E pc \in Live : Goto(t, pc)
      BY <1>1, <2>2 DEF wake
    <3> QED BY <1>1, <3>1, MoveInv DEF wake
  <2> QED BY <2>1, <2>2
<1>2. CASE runner_returns(t)
  <2>1. 0 \in 0..(MaxErrors - 1)
    OBVIOUS
  <2> QED BY <1>2, <2>1, MoveInv DEF runner_returns
<1>3. CASE runner_raises(t)
  <2>1. t[1] \in Loops /\ error_count[t[1]] \in Nat
    BY DEF IInv, TypeOK, Tasks
  <2>2. error_count'[t[1]] = error_count[t[1]] + 1
    BY <1>3, <2>1 DEF runner_raises, IInv, TypeOK
  <2>3. CASE error_count'[t[1]] >= MaxErrors
    BY <1>3, <2>3, EndInv DEF runner_raises
  <2>4. CASE ~(error_count'[t[1]] >= MaxErrors)
    <3>1. error_count[t[1]] + 1 \in 0..(MaxErrors - 1)
      BY <2>1, <2>2, <2>4
    <3> QED BY <1>3, <2>4, <3>1, MoveInv DEF runner_raises
  <2> QED BY <2>3, <2>4
<1>4. CASE unwind(t)
  <2>1. state \notin {"running", "paused"}
    BY <1>4, AliveIsCurrent DEF unwind, IInv, TasksInv
  <2> QED BY <1>4, <2>1, EndInv DEF unwind
<1> QED BY <1>1, <1>2, <1>3, <1>4 DEF _loop_runner
-----------------------------------------------------------------------------
\* The invariant holds in every state, whatever the constants.
THEOREM Inductive == Spec => []IInv
<1>1. IInv /\ [Next]_vars => IInv'
  BY StartInv, StopCallInv, StoppedInv, RefusedInv, PauseInv, RunnerInv DEF Next
<1> QED BY InitInv, <1>1, PTL DEF Spec

\* Types, and how far the errors of a loop can add up (orchestrator.py:499).
THEOREM TypeCorrect == Spec => []TypeOK
BY Inductive, PTL DEF IInv

\* Never two live tasks of one loop (orchestrator.py:159-187, 221-228).
THEOREM NoTwins == Spec => []OneTaskPerLoop
<1>1. IInv => OneTaskPerLoop
  BY AliveIsCurrent DEF IInv, OneTaskPerLoop
<1> QED BY Inductive, <1>1, PTL

\* Stopped means that no loop is alive (orchestrator.py:225-230).
THEOREM Quiet == Spec => []StoppedIsQuiet
BY Inductive, PTL DEF IInv

\* A running or paused orchestrator reports each loop as it is.
THEOREM Truthful == Spec => []StatusTruthful
BY Inductive, PTL DEF IInv

\* A paused orchestrator begins no iteration (orchestrator.py:465-469).
THEOREM PauseKept == Spec => PauseHolds
<1>1. IInv /\ [Next]_vars =>
        [state = "paused" /\ state' = "paused" =>
           \A t \in Tasks : task'[t] = "running" => task[t] = "running"]_vars
  <2> SUFFICES ASSUME IInv, Next, state = "paused", state' = "paused",
                      NEW t \in Tasks, task'[t] = "running"
               PROVE  task[t] = "running"
    OBVIOUS
  <2>1. CASE stop_refused
    BY <2>1 DEF stop_refused, vars
  <2>2. ASSUME NEW u \in Tasks, _loop_runner(u) PROVE task[t] = "running"
    <3> USE DEF IInv, TypeOK, Goto, At
    <3>1. CASE wake(u)
      BY <3>1 DEF wake
    <3>2. CASE runner_returns(u) \/ runner_raises(u) \/ unwind(u)
      BY <3>2 DEF runner_returns, runner_raises, unwind
    <3> QED BY <2>2, <3>1, <3>2 DEF _loop_runner
  <2> QED BY <2>1, <2>2 DEF Next, start, launch, stop, stopped, stop_cancelled,
               pause, resume, IInv, StopInv
<1> QED BY Inductive, <1>1, PTL DEF PauseHolds, Spec
-----------------------------------------------------------------------------
(* Then the gate, for any callers, policies, readings, opinions, amounts,  *)
(* attempts and intervals of the detector.  A caller that may place its    *)
(* order was told a regime that was read at most an interval before it     *)
(* asked, and what it is to buy is the amount some regime it was told      *)
(* allows.  The cache is the last announcement, and while one caller at a  *)
(* time refreshes it the bus has told the same.                            *)

States == {"risk_off", "neutral", "risk_small", "risk_on"}
Asking == {"fetching", "telling", "told"}
Passed == {"reducing", "place"}
Outside == {"idle", "skipped", "asleep", "ask", "done", "failed"}

(* The record of a caller.                                                 *)
CallerAt(pc, side, attempt, since, at, regime, amount, seen) ==
  [pc |-> pc, side |-> side, attempt |-> attempt, since |-> since, at |-> at,
   regime |-> regime, amount |-> amount, seen |-> seen]
IsCaller(r) ==
  r = CallerAt(r.pc, r.side, r.attempt, r.since, r.at, r.regime, r.amount, r.seen)

(* An amount that a regime among those told lets a caller buy.             *)
Justified(amount, seen) ==
  \E regime \in seen :
    /\ ~Blocks(regime) /\ amount = Sized(regime)
    /\ policy.off /\ policy.neutral => regime = NoRegime \/ allows_entry(regime)

CallerOK(r, time) ==
  /\ IsCaller(r) /\ r.pc \in Outside \cup Asking \cup Passed
  /\ r.pc \in Outside => r.since = 0 /\ r.regime = NoRegime
  /\ r.pc \in Asking => r.since \in Int /\ r.since <= time
  /\ r.pc \in {"telling", "told"} => r.at \in Int /\ r.since <= r.at /\ r.regime \in States
  /\ r.pc \in Passed /\ r.regime # NoRegime => r.at > r.since - UpdateInterval
  /\ r.pc \in Passed /\ r.side = "buy" => Justified(r.amount, r.seen)

Typed ==
  /\ clock \in Nat
  /\ caller = [c \in Callers |-> caller[c]]
  /\ orders = [c \in Callers |-> orders[c]]

CallersOK ==
  \A c \in Callers :
    /\ CallerOK(caller[c], clock)
    /\ caller[c].pc = "idle" => orders[c] = 0
    /\ caller[c].side = "buy" /\ orders[c] # 0 => Justified(orders[c], caller[c].seen)

CacheOK ==
  /\ cache.state \in States \cup {NoRegime}
  /\ cache.at \in Int /\ cache.read \in Int /\ cache.at <= cache.read
  /\ cache # NothingCached => cache.state = last_state

Truth ==
  ~doubtful =>
    /\ \A c, d \in Callers : Refreshing(c) /\ Refreshing(d) => c = d
    /\ (\A c \in Callers : caller[c].pc # "told") => told = last_state
    /\ \A c \in Callers : caller[c].pc = "told" => told = caller[c].regime

GateInv == Typed /\ CallersOK /\ CacheOK /\ Truth
-----------------------------------------------------------------------------
(* Records of callers.                                                     *)
LEMMA FieldChanged ==
  ASSUME NEW p, NEW s, NEW n, NEW i, NEW t, NEW g, NEW a, NEW e, NEW x
  PROVE  /\ [CallerAt(p, s, n, i, t, g, a, e) EXCEPT !.pc = x] = CallerAt(x, s, n, i, t, g, a, e)
         /\ [CallerAt(p, s, n, i, t, g, a, e) EXCEPT !.side = x] = CallerAt(p, x, n, i, t, g, a, e)
         /\ [CallerAt(p, s, n, i, t, g, a, e) EXCEPT !.attempt = x] = CallerAt(p, s, x, i, t, g, a, e)
         /\ [CallerAt(p, s, n, i, t, g, a, e) EXCEPT !.since = x] = CallerAt(p, s, n, x, t, g, a, e)
         /\ [CallerAt(p, s, n, i, t, g, a, e) EXCEPT !.at = x] = CallerAt(p, s, n, i, x, g, a, e)
         /\ [CallerAt(p, s, n, i, t, g, a, e) EXCEPT !.regime = x] = CallerAt(p, s, n, i, t, x, a, e)
         /\ [CallerAt(p, s, n, i, t, g, a, e) EXCEPT !.amount = x] = CallerAt(p, s, n, i, t, g, x, e)
         /\ [CallerAt(p, s, n, i, t, g, a, e) EXCEPT !.seen = x] = CallerAt(p, s, n, i, t, g, a, x)
BY DEF CallerAt

LEMMA Fields ==
  ASSUME NEW p, NEW s, NEW n, NEW i, NEW t, NEW g, NEW a, NEW e
  PROVE  LET r == CallerAt(p, s, n, i, t, g, a, e)
         IN  /\ r.pc = p /\ r.side = s /\ r.attempt = n /\ r.since = i
             /\ r.at = t /\ r.regime = g /\ r.amount = a /\ r.seen = e
             /\ IsCaller(r)
BY DEF CallerAt, IsCaller

LEMMA IdleIs == Idle = CallerAt("idle", "none", 0, 0, 0, NoRegime, 0, {})
BY DEF Idle, CallerAt

LEMMA EndedIs ==
  ASSUME NEW r, NEW how
  PROVE  Ended(r, how) = CallerAt(how, r.side, 0, 0, 0, NoRegime, 0, r.seen)
<1>. DEFINE side == r.side
            seen == r.seen
            one  == [Idle EXCEPT !.pc = how]
            two  == [one EXCEPT !.side = side]
<1>1. Ended(r, how) = [two EXCEPT !.seen = seen]
  BY DEF Ended
<1>2. one = CallerAt(how, "none", 0, 0, 0, NoRegime, 0, {})
  BY IdleIs, FieldChanged
<1>. HIDE DEF side, seen, one
<1>3. two = CallerAt(how, side, 0, 0, 0, NoRegime, 0, {})
  BY <1>2 DEF CallerAt
<1>. HIDE DEF two
<1>4. [two EXCEPT !.seen = seen] = CallerAt(how, side, 0, 0, 0, NoRegime, 0, seen)
  BY <1>3 DEF CallerAt
<1>. QED
  BY <1>1, <1>4 DEF side, seen

LEMMA RaisedIs ==
  ASSUME NEW r
  PROVE  \/ Raised(r) = CallerAt("asleep", r.side, r.attempt, 0, 0, NoRegime, 0, r.seen)
         \/ Raised(r) = CallerAt("failed", r.side, 0, 0, 0, NoRegime, 0, r.seen)
<1>1. \/ Raised(r) = [Ended(r, "asleep") EXCEPT !.attempt = r.attempt]
      \/ Raised(r) = Ended(r, "failed")
  BY DEF Raised
<1>. DEFINE n == r.attempt
            ended == Ended(r, "asleep")
<1>2. ended = CallerAt("asleep", r.side, 0, 0, 0, NoRegime, 0, r.seen)
  BY EndedIs
<1>. HIDE DEF n, ended
<1>3. [ended EXCEPT !.attempt = n] = CallerAt("asleep", r.side, n, 0, 0, NoRegime, 0, r.seen)
  BY <1>2 DEF CallerAt
<1>. QED
  BY <1>1, <1>3, EndedIs DEF n, ended

\* What the gate makes of a caller who knows the regime.
LEMMA FilteredIs ==
  ASSUME NEW r, IsCaller(r), NEW regime, NEW at
  PROVE  LET seen == r.seen \cup {regime}
             f == Filtered(r, regime, at)
         IN  \/ f = CallerAt("asleep", r.side, r.attempt, 0, 0, NoRegime, 0, seen)
             \/ f = CallerAt("failed", r.side, 0, 0, 0, NoRegime, 0, seen)
             \/ /\ r.side = "sell"
                /\ f = CallerAt("place", r.side, r.attempt, r.since, at, regime, Amount, seen)
             \/ /\ r.side # "sell" /\ ~Blocks(regime)
                /\ \E p \in Passed :
                     f = CallerAt(p, r.side, r.attempt, r.since, at, regime, Sized(regime), seen)
<1>. DEFINE seen == r.seen \cup {regime}
            size == Sized(regime)
            n1 == [r EXCEPT !.regime = regime]
            n2 == [n1 EXCEPT !.at = at]
            n3 == [n2 EXCEPT !.seen = seen]
            n4 == [n3 EXCEPT !.amount = size]
            now == [r EXCEPT !.regime = regime, !.at = at, !.seen = @ \cup {regime},
                             !.amount = Sized(regime)]
<1>1. now = n4
  OBVIOUS
<1>2. \/ Filtered(r, regime, at) = Raised(now)
      \/ /\ r.side = "sell"
         /\ Filtered(r, regime, at) = [now EXCEPT !.amount = Amount, !.pc = "place"]
      \/ /\ r.side # "sell" /\ ~Blocks(regime)
         /\ \/ Filtered(r, regime, at) = [now EXCEPT !.pc = "reducing"]
            \/ Filtered(r, regime, at) = [now EXCEPT !.pc = "place"]
  BY DEF Filtered
<1>. HIDE DEF now, seen, size
<1>3. n4 = CallerAt(r.pc, r.side, r.attempt, r.since, at, regime, size, seen)
  <2>1. n1 = CallerAt(r.pc, r.side, r.attempt, r.since, r.at, regime, r.amount, r.seen)
    BY DEF IsCaller, CallerAt
  <2>. HIDE DEF n1
  <2>2. n2 = CallerAt(r.pc, r.side, r.attempt, r.since, at, regime, r.amount, r.seen)
    BY <2>1 DEF CallerAt
  <2>. HIDE DEF n2
  <2>3. n3 = CallerAt(r.pc, r.side, r.attempt, r.since, at, regime, r.amount, seen)
    BY <2>2 DEF CallerAt
  <2>. HIDE DEF n3
  <2>. QED
    BY <2>3 DEF CallerAt
<1>. HIDE DEF n4
<1>4. now = CallerAt(r.pc, r.side, r.attempt, r.since, at, regime, size, seen)
  BY <1>1, <1>3
<1>5. /\ now.side = r.side /\ now.attempt = r.attempt /\ now.seen = seen
  BY <1>4, Fields
<1>6. \/ Raised(now) = CallerAt("asleep", r.side, r.attempt, 0, 0, NoRegime, 0, seen)
      \/ Raised(now) = CallerAt("failed", r.side, 0, 0, 0, NoRegime, 0, seen)
  BY <1>5, RaisedIs
<1>. DEFINE whole == [now EXCEPT !.amount = Amount]
<1>7. whole = CallerAt(r.pc, r.side, r.attempt, r.since, at, regime, Amount, seen)
  BY <1>4 DEF CallerAt
<1>8. [now EXCEPT !.amount = Amount, !.pc = "place"] = [whole EXCEPT !.pc = "place"]
  OBVIOUS
<1>. HIDE DEF whole
<1>9. [whole EXCEPT !.pc = "place"] =
        CallerAt("place", r.side, r.attempt, r.since, at, regime, Amount, seen)
  BY <1>7 DEF CallerAt
<1>10. /\ [now EXCEPT !.pc = "reducing"] =
            CallerAt("reducing", r.side, r.attempt, r.since, at, regime, size, seen)
       /\ [now EXCEPT !.pc = "place"] =
            CallerAt("place", r.side, r.attempt, r.since, at, regime, size, seen)
  BY <1>4 DEF CallerAt
<1>11. CASE Filtered(r, regime, at) = Raised(now)
  BY <1>6, <1>11 DEF seen
<1>12. CASE /\ r.side = "sell"
            /\ Filtered(r, regime, at) = [now EXCEPT !.amount = Amount, !.pc = "place"]
  BY <1>8, <1>9, <1>12 DEF seen
<1>13. CASE /\ r.side # "sell" /\ ~Blocks(regime)
            /\ \/ Filtered(r, regime, at) = [now EXCEPT !.pc = "reducing"]
               \/ Filtered(r, regime, at) = [now EXCEPT !.pc = "place"]
  BY <1>10, <1>13 DEF seen, size, Passed
<1>. QED
  BY <1>2, <1>11, <1>12, <1>13

\* A regime told in time and under which the policy lets entries pass is a
\* reason for the amount of a purchase.
LEMMA FilteredOK ==
  ASSUME NEW r, IsCaller(r), NEW regime \in States, NEW at \in Int,
         r.since \in Int, at > r.since - UpdateInterval, NEW time
  PROVE  LET f == Filtered(r, regime, at)
         IN  /\ CallerOK(f, time)
             /\ f.side = r.side /\ r.seen \subseteq f.seen
             /\ f.pc \notin Asking /\ f.pc # "idle"
<1>. DEFINE f == Filtered(r, regime, at)
            seen == r.seen \cup {regime}
            size == Sized(regime)
<1>1. ~Blocks(regime) => Justified(size, seen)
  BY DEF Justified, Blocks, States, allows_entry
<1>. HIDE DEF f, size, seen
<1>2. ASSUME NEW pc \in {"asleep", "failed"}, NEW n,
             f = CallerAt(pc, r.side, n, 0, 0, NoRegime, 0, seen)
      PROVE  /\ CallerOK(f, time) /\ f.side = r.side /\ f.seen = seen
             /\ f.pc \notin Asking /\ f.pc # "idle"
  <2>1. /\ f.pc = pc /\ f.side = r.side /\ f.since = 0 /\ f.regime = NoRegime
        /\ f.seen = seen /\ IsCaller(f)
    BY <1>2, Fields
  <2>. QED
    BY <2>1 DEF CallerOK, Outside, Asking, Passed
<1>3. ASSUME NEW pc \in Passed, NEW amount,
             f = CallerAt(pc, r.side, r.attempt, r.since, at, regime, amount, seen),
             r.side = "buy" => Justified(amount, seen)
      PROVE  /\ CallerOK(f, time) /\ f.side = r.side /\ f.seen = seen
             /\ f.pc \notin Asking /\ f.pc # "idle"
  <2>1. /\ f.pc = pc /\ f.side = r.side /\ f.since = r.since /\ f.at = at
        /\ f.regime = regime /\ f.amount = amount /\ f.seen = seen /\ IsCaller(f)
    BY <1>3, Fields
  <2>2. f.side = "buy" => Justified(f.amount, f.seen)
    BY <1>3, <2>1
  <2>. QED
    BY <2>1, <2>2 DEF CallerOK, Outside, Asking, Passed
<1>4. \/ f = CallerAt("asleep", r.side, r.attempt, 0, 0, NoRegime, 0, seen)
      \/ f = CallerAt("failed", r.side, 0, 0, 0, NoRegime, 0, seen)
      \/ /\ r.side = "sell"
         /\ f = CallerAt("place", r.side, r.attempt, r.since, at, regime, Amount, seen)
      \/ /\ r.side # "sell" /\ ~Blocks(regime)
         /\ \E p \in Passed :
              f = CallerAt(p, r.side, r.attempt, r.since, at, regime, size, seen)
  BY FilteredIs DEF f, size, seen
<1>5. "place" \in Passed
  BY DEF Passed
<1>6. /\ CallerOK(f, time) /\ f.side = r.side /\ f.seen = seen
      /\ f.pc \notin Asking /\ f.pc # "idle"
  BY <1>1, <1>2, <1>3, <1>4, <1>5
<1>. QED
  BY <1>6 DEF f, seen

LEMMA RaisedOK ==
  ASSUME NEW r, NEW time
  PROVE  /\ CallerOK(Raised(r), time)
         /\ Raised(r).side = r.side /\ Raised(r).seen = r.seen
         /\ Raised(r).pc \notin Asking /\ Raised(r).pc # "idle"
<1>. DEFINE f == Raised(r)
<1>1. /\ f.pc \in {"asleep", "failed"} /\ f.side = r.side /\ f.since = 0
      /\ f.regime = NoRegime /\ f.seen = r.seen /\ IsCaller(f)
  BY RaisedIs, Fields
<1>. HIDE DEF f
<1>2. /\ CallerOK(f, time) /\ f.pc \notin Asking /\ f.pc # "idle"
  BY <1>1 DEF CallerOK, Outside, Asking, Passed
<1>. QED
  BY <1>1, <1>2 DEF f

LEMMA RegimeIsOne ==
  ASSUME NEW reading
  PROVE  resolve_state(reading) \in States
<1>1. \A score : from_score(score) \in States
  BY DEF from_score, States
<1>. QED
  BY <1>1 DEF resolve_state
-----------------------------------------------------------------------------
(* One caller moves, and its order may be executed.                        *)
LEMMA OrderMoves ==
  ASSUME Typed, CallersOK, NEW c \in Callers, NEW x, NEW n, Become(c, x),
         UNCHANGED <<clock, policy>>, orders' = [orders EXCEPT ![c] = n],
         CallerOK(x, clock), x.pc # "idle",
         x.side = "buy" /\ n # 0 => Justified(n, x.seen)
  PROVE  Typed' /\ CallersOK'
<1>1. /\ \A d \in Callers : /\ caller'[d] = IF d = c THEN x ELSE caller[d]
                            /\ orders'[d] = IF d = c THEN n ELSE orders[d]
      /\ caller' = [d \in Callers |-> caller'[d]]
      /\ orders' = [d \in Callers |-> orders'[d]]
  BY DEF Become, Typed
<1>2. Typed'
  BY <1>1 DEF Typed
<1>3. policy' = policy /\ clock' = clock
  OBVIOUS
<1>4. ASSUME NEW d \in Callers
      PROVE  /\ CallerOK(caller[d], clock)'
             /\ caller'[d].pc = "idle" => orders'[d] = 0
             /\ caller'[d].side = "buy" /\ orders'[d] # 0 =>
                  Justified(orders[d], caller[d].seen)'
  <2>1. CASE d = c
    <3>1. caller'[d] = x /\ orders'[d] = n
      BY <1>1, <2>1
    <3>2. CallerOK(caller[d], clock)'
      BY <1>3, <3>1 DEF CallerOK, Justified, Blocks, Sized
    <3>3. x.side = "buy" /\ n # 0 => Justified(orders[d], caller[d].seen)'
      BY <1>3, <3>1 DEF Justified, Blocks, Sized
    <3>. QED
      BY <3>1, <3>2, <3>3
  <2>2. CASE d # c
    <3>1. caller'[d] = caller[d] /\ orders'[d] = orders[d]
      BY <1>1, <2>2
    <3>2. CallerOK(caller[d], clock)
      BY DEF CallersOK
    <3>3. CallerOK(caller[d], clock)'
      BY <1>3, <3>1, <3>2 DEF CallerOK, Justified, Blocks, Sized
    <3>4. /\ caller[d].pc = "idle" => orders[d] = 0
          /\ caller[d].side = "buy" /\ orders[d] # 0 => Justified(orders[d], caller[d].seen)
      BY DEF CallersOK
    <3>5. caller[d].side = "buy" /\ orders[d] # 0 => Justified(orders[d], caller[d].seen)'
      BY <1>3, <3>1, <3>4 DEF Justified, Blocks, Sized
    <3>. QED
      BY <3>1, <3>3, <3>4, <3>5
  <2>. QED
    BY <2>1, <2>2
<1>. QED
  BY <1>2, <1>4 DEF CallersOK

LEMMA OneMoves ==
  ASSUME Typed, CallersOK, NEW c \in Callers, NEW x, Become(c, x), Idling,
         CallerOK(x, clock), x.pc # "idle",
         x.side = "buy" /\ orders[c] # 0 =>
           caller[c].side = "buy" /\ caller[c].seen \subseteq x.seen
  PROVE  Typed' /\ CallersOK'
<1>. DEFINE n == orders[c]
<1>1. orders' = [orders EXCEPT ![c] = n] /\ UNCHANGED <<clock, policy>>
  BY DEF Idling, Typed
<1>2. x.side = "buy" /\ n # 0 => Justified(n, x.seen)
  BY DEF CallersOK, Justified
<1>. HIDE DEF n
<1>. QED
  BY <1>1, <1>2, OrderMoves

\* A step of a caller that does not refresh leaves the announcements alone.
LEMMA TruthKept ==
  ASSUME Typed, Truth, NEW c \in Callers, NEW x, Become(c, x),
         UNCHANGED <<last_state, told, doubtful>>,
         caller[c].pc \notin Asking, x.pc \notin Asking
  PROVE  Truth'
<1>1. /\ \A d \in Callers : caller'[d] = IF d = c THEN x ELSE caller[d]
      /\ caller[c].pc # "told" /\ x.pc # "told"
  BY DEF Become, Typed, Asking
<1>2. \A d \in Callers : Refreshing(d)' <=> Refreshing(d)
  BY <1>1 DEF Refreshing, Asking
<1>. QED
  BY <1>1, <1>2 DEF Truth

LEMMA CacheKept ==
  ASSUME CacheOK, UNCHANGED <<cache, last_state>>
  PROVE  CacheOK'
BY DEF CacheOK

LEMMA TickInv ==
  ASSUME GateInv, Tick
  PROVE  GateInv'
<1>1. /\ clock \in Nat /\ clock' = clock + 1
      /\ UNCHANGED <<policy, cache, last_state, told, caller, orders, doubtful>>
  BY DEF Tick, GateInv, Typed
<1>2. ASSUME NEW c \in Callers
      PROVE  /\ CallerOK(caller[c], clock)'
             /\ caller'[c].pc = "idle" => orders'[c] = 0
             /\ caller'[c].side = "buy" /\ orders'[c] # 0 =>
                  Justified(orders[c], caller[c].seen)'
  <2>1. CallerOK(caller[c], clock)
    BY DEF GateInv, CallersOK
  <2>2. CallerOK(caller[c], clock)'
    BY <1>1, <2>1 DEF CallerOK, Justified, Blocks, Sized
  <2>3. /\ caller[c].pc = "idle" => orders[c] = 0
        /\ caller[c].side = "buy" /\ orders[c] # 0 => Justified(orders[c], caller[c].seen)
    BY DEF GateInv, CallersOK
  <2>4. caller[c].side = "buy" /\ orders[c] # 0 => Justified(orders[c], caller[c].seen)'
    BY <1>1, <2>3 DEF Justified, Blocks, Sized
  <2>. QED
    BY <1>1, <2>2, <2>3, <2>4
<1>3. Typed' /\ Truth' /\ CacheOK'
  BY <1>1 DEF GateInv, Typed, Truth, Refreshing, CacheOK
<1>. QED
  BY <1>2, <1>3 DEF GateInv, CallersOK

LEMMA EvaluateInv ==
  ASSUME GateInv, NEW c \in Callers, Evaluate(c)
  PROVE  GateInv'
<1>. USE DEF GateInv
<1>1. PICK x : /\ caller[c].pc = "idle" /\ Become(c, x) /\ Idling
               /\ \/ x = [Idle EXCEPT !.pc = "skipped"]
                  \/ \E action : x = [Idle EXCEPT !.pc = "asleep", !.side = action]
               /\ UNCHANGED <<cache, last_state, told, doubtful>>
  BY DEF Evaluate
<1>2. PICK pc \in {"skipped", "asleep"} :
        \E side : x = CallerAt(pc, side, 0, 0, 0, NoRegime, 0, {})
  <2>1. CASE x = [Idle EXCEPT !.pc = "skipped"]
    <3>1. x = CallerAt("skipped", "none", 0, 0, 0, NoRegime, 0, {})
      BY <2>1, IdleIs, FieldChanged
    <3>. QED
      BY <3>1
  <2>2. ASSUME NEW action, x = [Idle EXCEPT !.pc = "asleep", !.side = action]
        PROVE  x = CallerAt("asleep", action, 0, 0, 0, NoRegime, 0, {})
    <3>. DEFINE one == [Idle EXCEPT !.pc = "asleep"]
    <3>1. one = CallerAt("asleep", "none", 0, 0, 0, NoRegime, 0, {})
      BY IdleIs, FieldChanged
    <3>2. x = [one EXCEPT !.side = action]
      BY <2>2
    <3>. HIDE DEF one
    <3>. QED
      BY <3>1, <3>2 DEF CallerAt
  <2>. QED
    BY <1>1, <2>1, <2>2
<1>3. /\ x.pc = pc /\ x.since = 0 /\ x.regime = NoRegime /\ IsCaller(x)
  BY <1>2, Fields
<1>4. CallerOK(x, clock) /\ x.pc \notin Asking /\ x.pc # "idle"
  BY <1>3 DEF CallerOK, Outside, Asking, Passed
<1>5. orders[c] = 0 /\ caller[c].pc \notin Asking
  BY <1>1 DEF CallersOK, Asking
<1>6. Typed' /\ CallersOK'
  BY <1>1, <1>4, <1>5, OneMoves
<1>7. Truth'
  BY <1>1, <1>4, <1>5, TruthKept
<1>8. CacheOK'
  BY <1>1, CacheKept
<1>. QED
  BY <1>6, <1>7, <1>8

LEMMA AttemptInv ==
  ASSUME GateInv, NEW c \in Callers, Attempt(c)
  PROVE  GateInv'
<1>. USE DEF GateInv
<1>. DEFINE r == caller[c]
            n == r.attempt + 1
            p == IF r.side = "sell" /\ policy.exits THEN "place" ELSE "ask"
            one == [r EXCEPT !.attempt = n]
            two == [one EXCEPT !.amount = Amount]
            x == [two EXCEPT !.pc = p]
<1>1. /\ r.pc = "asleep" /\ Become(c, x) /\ Idling
      /\ UNCHANGED <<cache, last_state, told, doubtful>>
  BY DEF Attempt
<1>2. IsCaller(r) /\ r.since = 0 /\ r.regime = NoRegime
  BY <1>1 DEF CallersOK, CallerOK, Outside
<1>3. p = "ask" \/ (p = "place" /\ r.side = "sell")
  OBVIOUS
<1>. HIDE DEF r, n, p
<1>4. x = CallerAt(p, r.side, n, 0, r.at, NoRegime, Amount, r.seen)
  <2>1. one = CallerAt(r.pc, r.side, n, 0, r.at, NoRegime, r.amount, r.seen)
    BY <1>2 DEF IsCaller, CallerAt
  <2>. HIDE DEF one
  <2>2. two = CallerAt(r.pc, r.side, n, 0, r.at, NoRegime, Amount, r.seen)
    BY <2>1 DEF CallerAt
  <2>. HIDE DEF two
  <2>. QED
    BY <2>2 DEF CallerAt
<1>. HIDE DEF x
<1>5. /\ x.pc = p /\ x.side = r.side /\ x.since = 0 /\ x.regime = NoRegime
      /\ x.seen = r.seen /\ IsCaller(x)
  BY <1>4, Fields
<1>6. CallerOK(x, clock) /\ x.pc \notin Asking /\ x.pc # "idle"
  BY <1>3, <1>5 DEF CallerOK, Outside, Asking, Passed
<1>7. Typed' /\ CallersOK'
  BY <1>1, <1>5, <1>6, OneMoves DEF r
<1>8. Truth'
  <2>1. caller[c].pc \notin Asking
    BY <1>1 DEF r, Asking
  <2>. QED
    BY <1>1, <1>6, <2>1, TruthKept
<1>9. CacheOK'
  BY <1>1, CacheKept
<1>. QED
  BY <1>7, <1>8, <1>9
-----------------------------------------------------------------------------
(* A caller asks for the regime.                                           *)
\* It is about to ask, and has asked nobody yet.
LEMMA AsksFirst ==
  ASSUME GateInv, NEW c \in Callers, caller[c].pc = "ask"
  PROVE  /\ IsCaller(caller[c]) /\ caller[c].since = 0 /\ caller[c].regime = NoRegime
         /\ caller[c].pc \notin Asking /\ clock \in Nat
<1>1. CallerOK(caller[c], clock) /\ clock \in Nat
  BY DEF GateInv, CallersOK, Typed
<1>. QED
  BY <1>1 DEF CallerOK, Outside, Asking

LEMMA AskNobodyInv ==
  ASSUME GateInv, NEW c \in Callers, AskNobody(c)
  PROVE  GateInv'
<1>. USE DEF GateInv
<1>. DEFINE r == caller[c]
            x == Filtered(r, "risk_on", clock)
<1>1. /\ r.pc = "ask" /\ Become(c, x) /\ Idling
      /\ UNCHANGED <<cache, last_state, told, doubtful>>
  BY DEF AskNobody
<1>2. IsCaller(r) /\ r.since = 0 /\ clock \in Nat /\ r.pc \notin Asking
  BY <1>1, AsksFirst
<1>3. "risk_on" \in States /\ clock > r.since - UpdateInterval /\ r.since \in Int /\ clock \in Int
  BY <1>2, GateOK DEF States
<1>. HIDE DEF r
<1>4. /\ CallerOK(x, clock) /\ x.side = r.side /\ r.seen \subseteq x.seen
      /\ x.pc \notin Asking /\ x.pc # "idle"
  BY <1>2, <1>3, FilteredOK
<1>. HIDE DEF x
<1>5. Typed' /\ CallersOK'
  BY <1>1, <1>4, OneMoves DEF r
<1>6. Truth'
  BY <1>1, <1>2, <1>4, TruthKept DEF r
<1>7. CacheOK'
  BY <1>1, CacheKept
<1>. QED
  BY <1>5, <1>6, <1>7

LEMMA AskCacheInv ==
  ASSUME GateInv, NEW c \in Callers, AskCache(c)
  PROVE  GateInv'
<1>. USE DEF GateInv
<1>. DEFINE r == caller[c]
            s == [r EXCEPT !.since = clock]
            x == Filtered(s, cache.state, cache.read)
<1>1. /\ r.pc = "ask" /\ Fresh /\ Become(c, x) /\ Idling
      /\ UNCHANGED <<cache, last_state, told, doubtful>>
  BY DEF AskCache
<1>2. IsCaller(r) /\ clock \in Nat /\ r.pc \notin Asking
  BY <1>1, AsksFirst
<1>. HIDE DEF r
<1>3. s = CallerAt(r.pc, r.side, r.attempt, clock, r.at, r.regime, r.amount, r.seen)
  BY <1>2 DEF IsCaller, CallerAt
<1>. HIDE DEF s
<1>4. IsCaller(s) /\ s.since = clock /\ s.side = r.side /\ s.seen = r.seen
  BY <1>3, Fields
<1>5. /\ cache.state \in States /\ cache.read \in Int /\ s.since \in Int
      /\ cache.read > s.since - UpdateInterval
  <2>1. cache.state \in States
    BY <1>1 DEF Fresh, CacheOK
  <2>2. /\ cache.at \in Int /\ cache.read \in Int /\ cache.at <= cache.read
        /\ clock - cache.at < UpdateInterval
    BY <1>1 DEF Fresh, CacheOK
  <2>. QED
    BY <1>2, <1>4, <2>1, <2>2, GateOK
<1>6. /\ CallerOK(x, clock) /\ x.side = r.side /\ r.seen \subseteq x.seen
      /\ x.pc \notin Asking /\ x.pc # "idle"
  BY <1>4, <1>5, FilteredOK
<1>. HIDE DEF x
<1>7. Typed' /\ CallersOK'
  BY <1>1, <1>6, OneMoves DEF r
<1>8. Truth'
  BY <1>1, <1>2, <1>6, TruthKept DEF r
<1>9. CacheOK'
  BY <1>1, CacheKept
<1>. QED
  BY <1>7, <1>8, <1>9

\* If it is not alone in that, the announcements may be out of order.
LEMMA AskSourcesInv ==
  ASSUME GateInv, NEW c \in Callers, AskSources(c)
  PROVE  GateInv'
<1>. USE DEF GateInv
<1>. DEFINE r == caller[c]
            one == [r EXCEPT !.pc = "fetching"]
            x == [one EXCEPT !.since = clock]
<1>1. /\ r.pc = "ask" /\ Become(c, x) /\ Idling
      /\ doubtful' = (doubtful \/ \E d \in Callers \ {c} : Refreshing(d))
      /\ UNCHANGED <<cache, last_state, told>>
  BY DEF AskSources
<1>2. IsCaller(r) /\ clock \in Nat /\ r.pc \notin Asking
  BY <1>1, AsksFirst
<1>. HIDE DEF r
<1>3. x = CallerAt("fetching", r.side, r.attempt, clock, r.at, r.regime, r.amount, r.seen)
  <2>1. one = CallerAt("fetching", r.side, r.attempt, r.since, r.at, r.regime, r.amount, r.seen)
    BY <1>2 DEF IsCaller, CallerAt
  <2>. HIDE DEF one
  <2>. QED
    BY <2>1 DEF CallerAt
<1>. HIDE DEF x
<1>4. /\ x.pc = "fetching" /\ x.since = clock /\ x.side = r.side /\ x.seen = r.seen
      /\ IsCaller(x)
  BY <1>3, Fields
<1>5. CallerOK(x, clock) /\ x.pc # "idle"
  BY <1>2, <1>4 DEF CallerOK, Outside, Asking, Passed
<1>6. Typed' /\ CallersOK'
  BY <1>1, <1>4, <1>5, OneMoves DEF r
<1>7. Truth'
  <2>1. /\ \A d \in Callers : caller'[d] = IF d = c THEN x ELSE caller[d]
        /\ x.pc = "fetching" /\ caller[c].pc = "ask"
    BY <1>1, <1>4 DEF Become, Typed, r
  <2>2. SUFFICES ASSUME ~doubtful' PROVE Truth'
    BY DEF Truth
  <2>3. ~doubtful /\ \A d \in Callers \ {c} : ~Refreshing(d)
    BY <1>1, <2>2
  <2>4. \A d \in Callers \ {c} : ~Refreshing(d)'
    BY <2>1, <2>3 DEF Refreshing
  <2>5. \A d \in Callers : caller[d].pc # "told" /\ caller'[d].pc # "told"
    BY <2>1, <2>3 DEF Refreshing
  <2>. QED
    BY <1>1, <2>3, <2>4, <2>5 DEF Truth
<1>8. CacheOK'
  BY <1>1, CacheKept
<1>. QED
  BY <1>6, <1>7, <1>8
-----------------------------------------------------------------------------
(* A caller refreshes the cache.                                           *)
LEMMA Asks ==
  ASSUME GateInv, NEW c \in Callers, caller[c].pc \in Asking
  PROVE  /\ IsCaller(caller[c]) /\ clock \in Nat
         /\ caller[c].since \in Int /\ caller[c].since <= clock
         /\ caller[c].pc \in {"telling", "told"} =>
              /\ caller[c].at \in Int /\ caller[c].since <= caller[c].at
              /\ caller[c].regime \in States
<1>1. CallerOK(caller[c], clock) /\ clock \in Nat
  BY DEF GateInv, CallersOK, Typed
<1>. QED
  BY <1>1 DEF CallerOK

\* Whoever was refreshing still is, except c if it is through.
LEMMA TruthRefreshed ==
  ASSUME Typed, Truth, NEW c \in Callers, NEW x, Become(c, x),
         caller[c].pc = "fetching", x.pc # "told",
         UNCHANGED <<last_state, told, doubtful>>
  PROVE  Truth'
<1>1. \A d \in Callers : caller'[d] = IF d = c THEN x ELSE caller[d]
  BY DEF Become, Typed
<1>2. \A d \in Callers : /\ Refreshing(d)' => Refreshing(d)
                         /\ caller'[d].pc = "told" <=> caller[d].pc = "told"
                         /\ caller'[d].pc = "told" => caller'[d] = caller[d]
  BY <1>1 DEF Refreshing
<1>. QED
  BY <1>2 DEF Truth

LEMMA CacheSaved ==
  ASSUME NEW r, NEW found, Save(r, found), found \in States, found = last_state',
         r.since \in Int, r.at \in Int, r.since <= r.at
  PROVE  CacheOK'
BY DEF Save, CacheOK

LEMMA FetchedInv ==
  ASSUME GateInv, NEW c \in Callers, Fetched(c)
  PROVE  GateInv'
<1>. USE DEF GateInv
<1>. DEFINE o == caller[c]
            r == [o EXCEPT !.at = clock]
<1>1. PICK found \in States :
        /\ o.pc = "fetching" /\ Idling /\ UNCHANGED <<last_state, told, doubtful>>
        /\ IF found # last_state
           THEN Become(c, [r EXCEPT !.pc = "telling", !.regime = found]) /\ UNCHANGED cache
           ELSE Save(r, found) /\ Become(c, Filtered(r, found, clock))
  BY RegimeIsOne DEF Fetched
<1>2. IsCaller(o) /\ o.since \in Int /\ o.since <= clock /\ clock \in Nat
  <2>1. o.pc \in Asking
    BY <1>1 DEF Asking
  <2>. QED
    BY <2>1, Asks
<1>. HIDE DEF o
<1>3. r = CallerAt(o.pc, o.side, o.attempt, o.since, clock, o.regime, o.amount, o.seen)
  BY <1>2 DEF IsCaller, CallerAt
<1>. HIDE DEF r
<1>4. /\ IsCaller(r) /\ r.pc = o.pc /\ r.side = o.side /\ r.seen = o.seen
      /\ r.since = o.since /\ r.at = clock
  BY <1>3, Fields
<1>5. CASE found # last_state
  <2>. DEFINE one == [r EXCEPT !.pc = "telling"]
              x == [one EXCEPT !.regime = found]
  <2>1. Become(c, x) /\ UNCHANGED cache
    BY <1>1, <1>5
  <2>2. x = CallerAt("telling", o.side, o.attempt, o.since, clock, found, o.amount, o.seen)
    <3>1. one = CallerAt("telling", o.side, o.attempt, o.since, clock, o.regime, o.amount, o.seen)
      BY <1>3 DEF CallerAt
    <3>. HIDE DEF one
    <3>. QED
      BY <3>1 DEF CallerAt
  <2>. HIDE DEF x
  <2>3. /\ x.pc = "telling" /\ x.side = o.side /\ x.since = o.since /\ x.at = clock
        /\ x.regime = found /\ x.seen = o.seen /\ IsCaller(x)
    BY <2>2, Fields
  <2>4. CallerOK(x, clock) /\ x.pc # "idle"
    BY <1>2, <2>3 DEF CallerOK, Outside, Asking, Passed
  <2>5. Typed' /\ CallersOK'
    BY <1>1, <2>1, <2>3, <2>4, OneMoves DEF o
  <2>6. Truth'
    BY <1>1, <2>1, <2>3, TruthRefreshed DEF o
  <2>7. CacheOK'
    BY <1>1, <2>1, CacheKept
  <2>. QED
    BY <2>5, <2>6, <2>7
<1>6. CASE found = last_state
  <2>. DEFINE x == Filtered(r, found, clock)
  <2>1. Save(r, found) /\ Become(c, x)
    BY <1>1, <1>6
  <2>2. clock > r.since - UpdateInterval /\ clock \in Int /\ r.since \in Int
    BY <1>2, <1>4, GateOK
  <2>3. /\ CallerOK(x, clock) /\ x.side = r.side /\ r.seen \subseteq x.seen
        /\ x.pc \notin Asking /\ x.pc # "idle"
    BY <1>4, <2>2, FilteredOK
  <2>. HIDE DEF x
  <2>4. Typed' /\ CallersOK'
    BY <1>1, <1>4, <2>1, <2>3, OneMoves DEF o
  <2>5. Truth'
    <3>1. x.pc # "told"
      BY <2>3 DEF Asking
    <3>. QED
      BY <1>1, <2>1, <3>1, TruthRefreshed DEF o
  <2>6. CacheOK'
    BY <1>1, <1>2, <1>4, <1>6, <2>1, CacheSaved
  <2>. QED
    BY <2>4, <2>5, <2>6
<1>. QED
  BY <1>5, <1>6

LEMMA DeliverInv ==
  ASSUME GateInv, NEW c \in Callers, Deliver(c)
  PROVE  GateInv'
<1>. USE DEF GateInv
<1>. DEFINE o == caller[c]
            x == [o EXCEPT !.pc = "told"]
<1>1. /\ o.pc = "telling" /\ Become(c, x) /\ Idling /\ UNCHANGED <<cache, last_state>>
      /\ (told' = o.regime /\ UNCHANGED doubtful) \/ (doubtful' = TRUE /\ UNCHANGED told)
  BY DEF Deliver
<1>2. /\ IsCaller(o) /\ o.since \in Int /\ o.since <= clock
      /\ o.at \in Int /\ o.since <= o.at /\ o.regime \in States
  <2>1. o.pc \in Asking
    BY <1>1 DEF Asking
  <2>. QED
    BY <1>1, <2>1, Asks
<1>. HIDE DEF o
<1>3. x = CallerAt("told", o.side, o.attempt, o.since, o.at, o.regime, o.amount, o.seen)
  BY <1>2 DEF IsCaller, CallerAt
<1>. HIDE DEF x
<1>4. /\ x.pc = "told" /\ x.side = o.side /\ x.since = o.since /\ x.at = o.at
      /\ x.regime = o.regime /\ x.seen = o.seen /\ IsCaller(x)
  BY <1>3, Fields
<1>5. CallerOK(x, clock) /\ x.pc # "idle"
  BY <1>2, <1>4 DEF CallerOK, Outside, Asking, Passed
<1>6. Typed' /\ CallersOK'
  BY <1>1, <1>4, <1>5, OneMoves DEF o
<1>7. Truth'
  <2>1. /\ \A d \in Callers : caller'[d] = IF d = c THEN x ELSE caller[d]
        /\ Refreshing(c)
    BY <1>1 DEF Become, Typed, Refreshing, o
  <2>2. SUFFICES ASSUME ~doubtful' PROVE Truth'
    BY DEF Truth
  <2>3. ~doubtful /\ told' = o.regime
    BY <1>1, <2>2
  <2>4. \A d \in Callers : d # c => ~Refreshing(d)
    BY <2>1, <2>3 DEF Truth
  <2>5. \A d \in Callers : d # c => ~Refreshing(d)' /\ caller'[d].pc # "told"
    BY <2>1, <2>4 DEF Refreshing
  <2>6. caller'[c].pc = "told" /\ told' = caller'[c].regime
    BY <1>4, <2>1, <2>3
  <2>. QED
    BY <2>5, <2>6 DEF Truth
<1>8. CacheOK'
  BY <1>1, CacheKept
<1>. QED
  BY <1>6, <1>7, <1>8

LEMMA ReturnInv ==
  ASSUME GateInv, NEW c \in Callers, Return(c)
  PROVE  GateInv'
<1>. USE DEF GateInv
<1>. DEFINE r == caller[c]
            x == Filtered(r, r.regime, r.at)
<1>1. /\ r.pc = "told" /\ last_state' = r.regime /\ Save(r, r.regime) /\ Become(c, x)
      /\ Idling /\ UNCHANGED <<told, doubtful>>
  BY DEF Return
<1>2. /\ IsCaller(r) /\ r.since \in Int /\ r.at \in Int /\ r.since <= r.at
      /\ r.regime \in States
  <2>1. r.pc \in Asking
    BY <1>1 DEF Asking
  <2>. QED
    BY <1>1, <2>1, Asks
<1>. HIDE DEF r
<1>3. r.at > r.since - UpdateInterval
  BY <1>2, GateOK
<1>4. /\ CallerOK(x, clock) /\ x.side = r.side /\ r.seen \subseteq x.seen
      /\ x.pc \notin Asking /\ x.pc # "idle"
  BY <1>2, <1>3, FilteredOK
<1>. HIDE DEF x
<1>5. Typed' /\ CallersOK'
  BY <1>1, <1>4, OneMoves DEF r
<1>6. Truth'
  <2>1. /\ \A d \in Callers : caller'[d] = IF d = c THEN x ELSE caller[d]
        /\ Refreshing(c)
    BY <1>1 DEF Become, Typed, Refreshing, r
  <2>2. SUFFICES ASSUME ~doubtful' PROVE Truth'
    BY DEF Truth
  <2>3. ~doubtful /\ told' = last_state'
    BY <1>1, <2>2 DEF Truth, r
  <2>4. \A d \in Callers : d # c => ~Refreshing(d)
    BY <2>1, <2>3 DEF Truth
  <2>5. \A d \in Callers : ~Refreshing(d)' /\ caller'[d].pc # "told"
    BY <1>4, <2>1, <2>4 DEF Refreshing, Asking
  <2>. QED
    BY <2>3, <2>5 DEF Truth
<1>7. CacheOK'
  BY <1>1, <1>2, CacheSaved
<1>. QED
  BY <1>5, <1>6, <1>7
-----------------------------------------------------------------------------
(* A caller places its order.                                              *)
LEMMA TellReducedInv ==
  ASSUME GateInv, NEW c \in Callers, TellReduced(c)
  PROVE  GateInv'
<1>. USE DEF GateInv
<1>. DEFINE r == caller[c]
            y == [r EXCEPT !.pc = "place"]
<1>1. PICK x : /\ r.pc = "reducing" /\ Become(c, x) /\ Idling
               /\ x = y \/ x = Raised(r)
               /\ UNCHANGED <<cache, last_state, told, doubtful>>
  BY DEF TellReduced
<1>2. CallerOK(r, clock)
  BY DEF CallersOK
<1>. HIDE DEF r
<1>3. /\ CallerOK(y, clock) /\ y.side = r.side /\ y.seen = r.seen
      /\ y.pc \notin Asking /\ y.pc # "idle"
  <2>1. y = CallerAt("place", r.side, r.attempt, r.since, r.at, r.regime, r.amount, r.seen)
    BY <1>2 DEF CallerOK, IsCaller, CallerAt
  <2>. HIDE DEF y
  <2>2. /\ y.pc = "place" /\ y.side = r.side /\ y.since = r.since /\ y.at = r.at
        /\ y.regime = r.regime /\ y.amount = r.amount /\ y.seen = r.seen /\ IsCaller(y)
    BY <2>1, Fields
  <2>. QED
    BY <1>1, <1>2, <2>2 DEF CallerOK, Outside, Asking, Passed
<1>. HIDE DEF y
<1>4. /\ CallerOK(x, clock) /\ x.side = r.side /\ x.seen = r.seen
      /\ x.pc \notin Asking /\ x.pc # "idle"
  BY <1>1, <1>3, RaisedOK
<1>5. Typed' /\ CallersOK'
  BY <1>1, <1>4, OneMoves DEF r
<1>6. Truth'
  <2>1. caller[c].pc \notin Asking
    BY <1>1 DEF r, Asking
  <2>. QED
    BY <1>1, <1>4, <2>1, TruthKept
<1>7. CacheOK'
  BY <1>1, CacheKept
<1>. QED
  BY <1>5, <1>6, <1>7

LEMMA EndedOK ==
  ASSUME NEW r, NEW time
  PROVE  /\ CallerOK(Ended(r, "done"), time)
         /\ Ended(r, "done").side = r.side /\ Ended(r, "done").seen = r.seen
         /\ Ended(r, "done").pc \notin Asking /\ Ended(r, "done").pc # "idle"
<1>. DEFINE f == Ended(r, "done")
<1>1. /\ f.pc = "done" /\ f.side = r.side /\ f.since = 0
      /\ f.regime = NoRegime /\ f.seen = r.seen /\ IsCaller(f)
  BY EndedIs, Fields
<1>. HIDE DEF f
<1>2. CallerOK(f, time) /\ f.pc \notin Asking /\ f.pc # "idle"
  BY <1>1 DEF CallerOK, Outside, Asking, Passed
<1>. QED
  BY <1>1, <1>2 DEF f

LEMMA PlaceInv ==
  ASSUME GateInv, NEW c \in Callers, Place(c)
  PROVE  GateInv'
<1>. USE DEF GateInv
<1>. DEFINE r == caller[c]
<1>1. PICK x, n : /\ r.pc = "place" /\ Become(c, x)
                  /\ x = Ended(r, "done") \/ x = Raised(r)
                  /\ n = orders[c] \/ (orders[c] = 0 /\ n = r.amount)
                  /\ orders' = [orders EXCEPT ![c] = n]
                  /\ UNCHANGED <<clock, policy, cache, last_state, told, doubtful>>
  <2>1. CASE Become(c, Raised(r)) /\ UNCHANGED orders
    <3>1. orders' = [orders EXCEPT ![c] = orders[c]]
      BY <2>1 DEF Typed
    <3>. QED
      BY <2>1, <3>1 DEF Place
  <2>2. CASE /\ orders' = [orders EXCEPT ![c] = IF @ # 0 THEN @ ELSE r.amount]
             /\ Become(c, Ended(r, "done")) \/ Become(c, Raised(r))
    BY <2>2 DEF Place
  <2>. QED
    BY <2>1, <2>2 DEF Place
<1>2. CallerOK(r, clock) /\ (r.side = "buy" /\ orders[c] # 0 => Justified(orders[c], r.seen))
  BY DEF CallersOK
<1>. HIDE DEF r
<1>3. r.side = "buy" => Justified(r.amount, r.seen)
  BY <1>1, <1>2 DEF CallerOK, Passed
<1>4. /\ CallerOK(x, clock) /\ x.side = r.side /\ x.seen = r.seen
      /\ x.pc \notin Asking /\ x.pc # "idle"
  BY <1>1, RaisedOK, EndedOK
<1>5. x.side = "buy" /\ n # 0 => Justified(n, x.seen)
  BY <1>1, <1>2, <1>3, <1>4
<1>6. Typed' /\ CallersOK'
  BY <1>1, <1>4, <1>5, OrderMoves
<1>7. Truth'
  <2>1. caller[c].pc \notin Asking
    BY <1>1 DEF r, Asking
  <2>. QED
    BY <1>1, <1>4, <2>1, TruthKept
<1>8. CacheOK'
  BY <1>1, CacheKept
<1>. QED
  BY <1>6, <1>7, <1>8
-----------------------------------------------------------------------------
LEMMA GateStarts == GateInit => GateInv
<1>. SUFFICES ASSUME GateInit PROVE GateInv
  OBVIOUS
<1>1. Typed
  BY DEF GateInit, Typed
<1>2. CallersOK
  <2>1. /\ Idle.pc = "idle" /\ Idle.side = "none" /\ Idle.since = 0 /\ Idle.regime = NoRegime
        /\ IsCaller(Idle)
    BY IdleIs, Fields
  <2>2. \A c \in Callers : caller[c] = Idle /\ orders[c] = 0
    BY DEF GateInit
  <2>3. CallerOK(Idle, clock)
    BY <2>1 DEF CallerOK, Outside, Asking, Passed
  <2>. QED
    BY <2>1, <2>2, <2>3 DEF CallersOK
<1>3. CacheOK
  BY DEF GateInit, CacheOK, NothingCached
<1>4. Truth
  <2>1. \A c \in Callers : caller[c].pc = "idle"
    BY DEF GateInit, Idle
  <2>. QED
    BY <2>1 DEF GateInit, Truth, Refreshing
<1>. QED
  BY <1>1, <1>2, <1>3, <1>4 DEF GateInv

LEMMA GateGoesOn == GateInv /\ [GateNext]_gate_vars => GateInv'
<1>. SUFFICES ASSUME GateInv, [GateNext]_gate_vars PROVE GateInv'
  OBVIOUS
<1>1. CASE UNCHANGED gate_vars
  BY <1>1 DEF gate_vars, GateInv, Typed, CallersOK, CallerOK, Justified, Blocks, Sized, CacheOK, Truth,
              Refreshing
<1>. QED
  BY <1>1, TickInv, EvaluateInv, AttemptInv, AskNobodyInv, AskCacheInv, AskSourcesInv,
     FetchedInv, DeliverInv, ReturnInv, TellReducedInv, PlaceInv DEF GateNext

(* No order passes GatedBroker under data that was older, when the caller  *)
(* asked, than the interval of RegimeDetector, however long refreshes take *)
(* and overlap; and a purchase is of the amount some regime its caller was *)
(* told allows, however often execute_trade() sends it again.              *)
THEOREM JudgedInTime == GateSpec => []JudgedByARegime
<1>1. GateInv => JudgedByARegime
  <2>. SUFFICES ASSUME GateInv PROVE JudgedByARegime
    OBVIOUS
  <2>1. FreshRegime
    BY DEF GateInv, CallersOK, CallerOK, FreshRegime, Passed
  <2>2. SizedByARegime
    BY DEF GateInv, CallersOK, Justified, SizedByARegime
  <2>. QED
    BY <2>1, <2>2 DEF JudgedByARegime
<1>. QED
  BY GateStarts, GateGoesOn, <1>1, PTL DEF GateSpec

(* Between refreshes of RegimeDetector that do not overlap, and with a bus *)
(* that delivers, what subscribers were told last is what the detector     *)
(* remembers and what orders are judged by.                                *)
THEOREM AnnouncedAsJudged == GateSpec => []TruthTold
<1>1. GateInv => TruthTold
  <2>. SUFFICES ASSUME GateInv, ~doubtful, \A c \in Callers : ~Refreshing(c)
                PROVE  told = last_state /\ (cache # NothingCached => cache.state = last_state)
    BY DEF TruthTold
  <2>1. \A c \in Callers : caller[c].pc # "told"
    BY DEF Refreshing
  <2>. QED
    BY <2>1 DEF GateInv, Truth, CacheOK
<1>. QED
  BY GateStarts, GateGoesOn, <1>1, PTL DEF GateSpec
-----------------------------------------------------------------------------
(* The formulas, for all that may be configured, scored and measured.     *)
(* What is kept between two bounds.                                        *)
LEMMA Kept ==
  ASSUME NEW x \in Int, NEW lo \in Int, NEW hi \in Int, lo <= hi
  PROVE  /\ Clamp(x, lo, hi) \in Int /\ Clamp(x, lo, hi) >= lo /\ Clamp(x, lo, hi) <= hi
         /\ Clamp(x, lo, hi) = (IF x < lo THEN lo ELSE IF x > hi THEN hi ELSE x)
<1>. DEFINE m == Min({x, hi})
<1>1. m \in {x, hi} /\ m <= x /\ m <= hi
  BY OfTwo
<1>2. m \in Int
  BY <1>1
<1>. HIDE DEF m
<1>3. Max({lo, m}) \in {lo, m} /\ Max({lo, m}) >= lo /\ Max({lo, m}) >= m
  BY <1>2, OfTwo
<1>4. Clamp(x, lo, hi) = Max({lo, m})
  BY DEF Clamp, m
<1>. QED
  BY <1>1, <1>2, <1>3, <1>4

LEMMA LesserIs ==
  ASSUME NEW a \in Int, NEW b \in Int
  PROVE  /\ Min({a, b}) = (IF a <= b THEN a ELSE b)
         /\ Max({a, b}) = (IF a <= b THEN b ELSE a)
BY OfTwo
-----------------------------------------------------------------------------
(* The regime of better data is no worse: of two readings that differ in   *)
(* nothing, but that one was told of a smaller change, or of nothing that  *)
(* was announced.                                                          *)
LEMMA ScoreIs ==
  ASSUME NEW x \in Int, NEW y \in Int, NEW fomc
  PROVE  calculate_score(Reading(x, y, fomc)) =
           35 * Clamp(-x, -100, 100) + 35 * Clamp(-y, -100, 100) + FomcScore(fomc)
<1>. DEFINE r == Reading(x, y, fomc)
            S == {"dxy", "dom"}
            g == [k \in S |-> 35 * Clamp(-r[k], -100, 100)]
            Equation(f) == f = [s \in SUBSET S |->
              IF s = {} THEN 0 ELSE 35 * Clamp(-r[One(s)], -100, 100) + f[s \ {One(s)}]]
            e == CHOOSE f : Equation(f)
<1>1. S \cap DOMAIN r = S /\ "fomc" \in DOMAIN r /\ r.fomc = fomc /\ r.dxy = x /\ r.dom = y
  BY DEF Reading
<1>2. calculate_score(r) = e[S] + FomcScore(fomc)
  <2>1. MapThenSumSet(LAMBDA k : 35 * Clamp(-r[k], -100, 100), S) = e[S]
    BY DEF MapThenSumSet, MapThenFoldSet, One
  <2>2. calculate_score(r) = MapThenSumSet(LAMBDA k : 35 * Clamp(-r[k], -100, 100), S \cap DOMAIN r)
                              + FomcScore(fomc)
    <3>. HIDE DEF r
    <3>. QED
      BY <1>1 DEF calculate_score
  <2>. HIDE DEF e, S, r
  <2>. QED
    BY <1>1, <2>1, <2>2
<1>3. IsFiniteSet(S) /\ IsFiniteSet({"dxy"})
  <2>1. IsFiniteSet({"dom"}) /\ IsFiniteSet({"dxy"}) /\ S = {"dom"} \cup {"dxy"}
    BY FS_Singleton
  <2>. HIDE DEF S
  <2>. QED
    BY <2>1, FS_AddElement
<1>. HIDE DEF r
<1>4. ASSUME NEW f PROVE Equation(f) <=> IsSum(g, S, f)
  <2>1. ASSUME NEW s \in SUBSET S, s # {}
        PROVE  g[One(s)] = 35 * Clamp(-r[One(s)], -100, 100)
    <3>1. One(s) \in S
      BY <2>1 DEF One
    <3>. QED
      BY <3>1
  <2>. HIDE DEF S, g
  <2>. QED
    BY <2>1 DEF IsSum
<1>5. \E f : IsSum(g, S, f)
  <2>. HIDE DEF S, g
  <2>. QED
    BY <1>3, SumExists
<1>6. IsSum(g, S, e)
  <2>1. Equation(e)
    BY <1>4, <1>5
  <2>. HIDE DEF Equation, e
  <2>. QED
    BY <1>4, <2>1
<1>7. e[S] = SumFunctionOnSet(g, S)
  <2>. HIDE DEF e, g, S
  <2>. QED
    BY <1>3, <1>6, AnySum
<1>8. /\ \A k \in S : g[k] \in Int
      /\ g["dxy"] = 35 * Clamp(-x, -100, 100) /\ g["dom"] = 35 * Clamp(-y, -100, 100)
  <2>1. -x \in Int /\ -y \in Int
    OBVIOUS
  <2>2. Clamp(-x, -100, 100) \in Int /\ Clamp(-y, -100, 100) \in Int
    BY <2>1, Kept
  <2>. QED
    BY <1>1, <2>2
<1>9. /\ S \ {"dom"} = {"dxy"} /\ {"dxy"} \ {"dxy"} = {} /\ "dom" \in S /\ "dxy" \in S
  OBVIOUS
<1>. HIDE DEF S, g, e
<1>10. SumFunctionOnSet(g, S) = g["dom"] + SumFunctionOnSet(g, {"dxy"})
  BY <1>3, <1>8, <1>9, SumWithout
<1>11. SumFunctionOnSet(g, {"dxy"}) = g["dxy"] + SumFunctionOnSet(g, {})
  <2>1. "dxy" \in {"dxy"} /\ \A k \in {"dxy"} : g[k] \in Int
    BY <1>8, <1>9
  <2>2. SumFunctionOnSet(g, {"dxy"}) = g["dxy"] + SumFunctionOnSet(g, {"dxy"} \ {"dxy"})
    BY <1>3, <2>1, SumWithout
  <2>. QED
    BY <1>9, <2>2
<1>12. SumFunctionOnSet(g, {}) = 0
  BY SumOfNothing
<1>13. g["dom"] \in Int /\ g["dxy"] \in Int
  BY <1>8, <1>9
<1>14. calculate_score(r) = g["dxy"] + g["dom"] + FomcScore(fomc)
  BY <1>2, <1>7, <1>10, <1>11, <1>12, <1>13
<1>. QED
  BY <1>8, <1>14 DEF r

LEMMA FomcIs ==
  ASSUME NEW fomc \in [today : BOOLEAN, until : Int, since : Int]
  PROVE  /\ FomcScore(fomc) \in Int /\ FomcScore(fomc) <= 0
         /\ FomcScore(NothingAnnounced) = 0
<1>1. FomcScore(fomc) \in Int /\ FomcScore(fomc) <= 0
  <2>1. CASE fomc.today
    BY <2>1 DEF FomcScore
  <2>2. CASE ~fomc.today /\ fomc.until \in 0..8
    BY <2>2 DEF FomcScore
  <2>3. CASE ~fomc.today /\ fomc.until \notin 0..8 /\ fomc.since \in 0..4
    BY <2>3 DEF FomcScore
  <2>4. CASE ~fomc.today /\ fomc.until \notin 0..8 /\ fomc.since \notin 0..4
    BY <2>4 DEF FomcScore
  <2>. QED
    BY <2>1, <2>2, <2>3, <2>4
<1>2. FomcScore(NothingAnnounced) = 0
  BY DEF FomcScore, NothingAnnounced
<1>. QED
  BY <1>1, <1>2

\* A higher score is of no worse a regime.
LEMMA RegimeOfScore ==
  ASSUME NEW x \in Int, NEW y \in Int, x <= y
  PROVE  ~Better(from_score(Clamp(x, -10000, 10000)), from_score(Clamp(y, -10000, 10000)))
<1>. DEFINE a == Clamp(x, -10000, 10000)
            b == Clamp(y, -10000, 10000)
<1>1. a \in Int /\ b \in Int /\ a <= b
  <2>1. \A w \in Int : /\ Clamp(w, -10000, 10000) \in Int
                       /\ Clamp(w, -10000, 10000) =
                            (IF w < -10000 THEN -10000 ELSE IF w > 10000 THEN 10000 ELSE w)
    BY Kept
  <2>. QED
    BY <2>1
<1>. HIDE DEF a, b
<1>. DEFINE Rank(s) == IF s > 5000 THEN 4 ELSE IF s > 0 THEN 3 ELSE IF s >= -5000 THEN 2 ELSE 1
<1>2. /\ Regimes[1] = "risk_off" /\ Regimes[2] = "neutral"
      /\ Regimes[3] = "risk_small" /\ Regimes[4] = "risk_on"
  BY DEF Regimes
<1>3. ASSUME NEW s \in Int, NEW i \in 1..4, Regimes[i] = from_score(s) PROVE i = Rank(s)
  <2>1. CASE s > 5000
    <3>1. from_score(s) = "risk_on"
      BY <2>1 DEF from_score
    <3>. QED
      BY <1>2, <1>3, <2>1, <3>1
  <2>2. CASE s \in 1..5000
    <3>1. from_score(s) = "risk_small"
      BY <2>2 DEF from_score
    <3>. QED
      BY <1>2, <1>3, <2>2, <3>1
  <2>3. CASE s \in -5000..0
    <3>1. from_score(s) = "neutral"
      BY <2>3 DEF from_score
    <3>. QED
      BY <1>2, <1>3, <2>3, <3>1
  <2>4. CASE s < -5000
    <3>1. from_score(s) = "risk_off"
      BY <2>4 DEF from_score
    <3>. QED
      BY <1>2, <1>3, <2>4, <3>1
  <2>. QED
    BY <2>1, <2>2, <2>3, <2>4
<1>4. Rank(a) <= Rank(b)
  BY <1>1
<1>5. Rank(a) \in Int /\ Rank(b) \in Int
  OBVIOUS
<1>6. \A s \in Int, i \in 1..4 : Regimes[i] = from_score(s) => i = Rank(s)
  BY <1>3
<1>. HIDE DEF Rank
<1>7. ASSUME NEW i \in 1..4, NEW j \in 1..4, j < i, Regimes[i] = from_score(a), Regimes[j] = from_score(b)
      PROVE  FALSE
  BY <1>1, <1>4, <1>5, <1>6, <1>7
<1>8. ~Better(from_score(a), from_score(b))
  BY <1>7 DEF Better
<1>. QED
  BY <1>8 DEF a, b

LEMMA RegimesOrdered == RegimesAreOrdered
<1>. SUFFICES ASSUME NEW x \in Changes, NEW y \in Changes, NEW z \in Changes, NEW fomc \in Announcements
              PROVE  LET regime == resolve_state(Reading(x, y, fomc))
                     IN  /\ x <= z => ~Better(resolve_state(Reading(z, y, fomc)), regime)
                         /\ y <= z => ~Better(resolve_state(Reading(x, z, fomc)), regime)
                         /\ ~Better(regime, resolve_state(Reading(x, y, NothingAnnounced)))
  BY DEF RegimesAreOrdered
<1>. DEFINE of(w) == 35 * Clamp(-w, -100, 100)
            f == FomcScore(fomc)
<1>1. /\ x \in Int /\ y \in Int /\ z \in Int /\ f \in Int /\ f <= 0
      /\ FomcScore(NothingAnnounced) = 0
  BY PrudenceOK, FomcIs
<1>2. ASSUME NEW w \in Int PROVE of(w) \in Int
  BY Kept
<1>3. ASSUME NEW v \in Int, NEW w \in Int, v <= w PROVE of(w) <= of(v)
  <2>1. -v \in Int /\ -w \in Int /\ -w <= -v
    BY <1>3
  <2>2. \A u \in Int : /\ Clamp(u, -100, 100) \in Int
                       /\ Clamp(u, -100, 100) = (IF u < -100 THEN -100 ELSE IF u > 100 THEN 100 ELSE u)
    BY Kept
  <2>3. Clamp(-w, -100, 100) <= Clamp(-v, -100, 100) /\ Clamp(-w, -100, 100) \in Int
        /\ Clamp(-v, -100, 100) \in Int
    BY <2>1, <2>2
  <2>. HIDE DEF Clamp
  <2>. QED
    BY <2>3
<1>4. \A v, w \in Int : \A g : calculate_score(Reading(v, w, g)) = of(v) + of(w) + FomcScore(g)
  BY ScoreIs
<1>. HIDE DEF of, f
<1>5. of(x) \in Int /\ of(y) \in Int /\ of(z) \in Int
  BY <1>1, <1>2
<1>6. ASSUME x <= z PROVE ~Better(resolve_state(Reading(z, y, fomc)), resolve_state(Reading(x, y, fomc)))
  <2>1. /\ of(z) + of(y) + f \in Int /\ of(x) + of(y) + f \in Int
        /\ of(z) + of(y) + f <= of(x) + of(y) + f
    BY <1>1, <1>3, <1>5, <1>6
  <2>2. /\ calculate_score(Reading(z, y, fomc)) = of(z) + of(y) + f
        /\ calculate_score(Reading(x, y, fomc)) = of(x) + of(y) + f
    BY <1>1, <1>4 DEF f
  <2>. QED
    BY <2>1, <2>2, RegimeOfScore DEF resolve_state
<1>7. ASSUME y <= z PROVE ~Better(resolve_state(Reading(x, z, fomc)), resolve_state(Reading(x, y, fomc)))
  <2>1. /\ of(x) + of(z) + f \in Int /\ of(x) + of(y) + f \in Int
        /\ of(x) + of(z) + f <= of(x) + of(y) + f
    BY <1>1, <1>3, <1>5, <1>7
  <2>2. /\ calculate_score(Reading(x, z, fomc)) = of(x) + of(z) + f
        /\ calculate_score(Reading(x, y, fomc)) = of(x) + of(y) + f
    BY <1>1, <1>4 DEF f
  <2>. QED
    BY <2>1, <2>2, RegimeOfScore DEF resolve_state
<1>8. ~Better(resolve_state(Reading(x, y, fomc)), resolve_state(Reading(x, y, NothingAnnounced)))
  <2>1. /\ of(x) + of(y) + f \in Int /\ of(x) + of(y) + 0 \in Int
        /\ of(x) + of(y) + f <= of(x) + of(y) + 0
    BY <1>1, <1>5
  <2>2. /\ calculate_score(Reading(x, y, fomc)) = of(x) + of(y) + f
        /\ calculate_score(Reading(x, y, NothingAnnounced)) = of(x) + of(y) + 0
    BY <1>1, <1>4 DEF f
  <2>. QED
    BY <2>1, <2>2, RegimeOfScore DEF resolve_state
<1>. QED
  BY <1>6, <1>7, <1>8
-----------------------------------------------------------------------------
(* The threshold a signal has to reach.                                    *)
Configured(cfg) ==
  /\ cfg.technical \in Int /\ cfg.ai \in Int /\ cfg.adaptive \in BOOLEAN /\ cfg.factor \in 0..10
  /\ cfg.abstain_low \in Int /\ cfg.abstain_high \in Int /\ cfg.min_technical \in Int /\ cfg.min_ai \in Int
  /\ \A r \in Range(Regimes) : cfg.threshold[r] \in Int

LEMMA FusionsConfigured == \A cfg \in Fusions : Configured(cfg)
<1>. SUFFICES ASSUME NEW cfg \in Fusions PROVE Configured(cfg)
  OBVIOUS
<1>1. FusionConfigOK(cfg) /\ Range(Regimes) \subseteq DOMAIN cfg.threshold
  BY PrudenceOK
<1>2. cfg.technical \in Int /\ cfg.ai \in Int /\ cfg.adaptive \in BOOLEAN
  BY PrudenceOK
<1>3. /\ cfg.abstain_low \in Int /\ cfg.abstain_high \in Int
      /\ cfg.min_technical \in Int /\ cfg.min_ai \in Int
  BY <1>1 DEF FusionConfigOK
<1>4. cfg.factor \in 0..10 /\ \A v \in Range(cfg.threshold) : v \in Int
  BY <1>1 DEF FusionConfigOK
<1>5. \A r \in Range(Regimes) : cfg.threshold[r] \in Int
  BY <1>1, <1>4 DEF Range
<1>. QED
  BY <1>2, <1>3, <1>4, <1>5 DEF Configured

\* How a threshold is adapted keeps the order of two, and does not fall below 50.
LEMMA AdaptedIs ==
  ASSUME NEW cfg, Configured(cfg), NEW vol \in Int, NEW x \in Int, NEW y \in Int, x <= y
  PROVE  /\ adapt_threshold(cfg, x, vol) \in Int /\ adapt_threshold(cfg, y, vol) \in Int
         /\ adapt_threshold(cfg, x, vol) <= adapt_threshold(cfg, y, vol)
         /\ x >= 5000 => adapt_threshold(cfg, x, vol) >= 5000
<1>1. CASE cfg.adaptive /\ vol > 10
  <2>. DEFINE d == Min({500, 10 * (vol - 10) * cfg.factor})
  <2>1. d \in Int
    <3>1. 10 * (vol - 10) * cfg.factor \in Int
      BY DEF Configured
    <3>. QED
      BY <3>1, LesserIs
  <2>2. adapt_threshold(cfg, x, vol) = Max({5000, x - d}) /\ adapt_threshold(cfg, y, vol) = Max({5000, y - d})
    BY <1>1 DEF adapt_threshold
  <2>. HIDE DEF d
  <2>3. x - d \in Int /\ y - d \in Int /\ x - d <= y - d
    BY <2>1
  <2>4. /\ Max({5000, x - d}) = (IF 5000 <= x - d THEN x - d ELSE 5000)
        /\ Max({5000, y - d}) = (IF 5000 <= y - d THEN y - d ELSE 5000)
    <3>1. \A w \in Int : Max({5000, w}) = (IF 5000 <= w THEN w ELSE 5000)
      BY LesserIs
    <3>. QED
      BY <2>3, <3>1
  <2>. QED
    BY <2>2, <2>3, <2>4
<1>2. CASE cfg.adaptive /\ vol # None /\ vol < 5
  <2>. DEFINE d == Min({500, 10 * (5 - vol) * cfg.factor})
  <2>1. d \in Int /\ (vol <= 5 => d >= 0)
    <3>. DEFINE p == 10 * (5 - vol) * cfg.factor
    <3>1. p \in Int
      BY DEF Configured
    <3>2. 10 * (5 - vol) \in Nat /\ cfg.factor \in Nat
      BY <1>2 DEF Configured
    <3>3. p >= 0
      <4>1. \A m, n \in Nat : m * n >= 0
        OBVIOUS
      <4>. QED
        BY <3>2, <4>1
    <3>. HIDE DEF p
    <3>4. Min({500, p}) = (IF 500 <= p THEN 500 ELSE p)
      BY <3>1, LesserIs
    <3>. QED
      BY <3>1, <3>3, <3>4 DEF p
  <2>2. adapt_threshold(cfg, x, vol) = Min({8000, x + d}) /\ adapt_threshold(cfg, y, vol) = Min({8000, y + d})
    BY <1>2 DEF adapt_threshold
  <2>. HIDE DEF d
  <2>3. x + d \in Int /\ y + d \in Int /\ x + d <= y + d
    BY <2>1
  <2>4. /\ Min({8000, x + d}) = (IF 8000 <= x + d THEN 8000 ELSE x + d)
        /\ Min({8000, y + d}) = (IF 8000 <= y + d THEN 8000 ELSE y + d)
    BY <2>3, LesserIs
  <2>. QED
    BY <1>2, <2>1, <2>2, <2>3, <2>4
<1>3. CASE ~(cfg.adaptive /\ vol > 10) /\ ~(cfg.adaptive /\ vol # None /\ vol < 5)
  BY <1>3 DEF adapt_threshold
<1>. QED
  BY <1>1, <1>2, <1>3

LEMMA ThresholdsOrdered ==
  ASSUME NEW cfg, Configured(cfg), NEW a, NEW vol \in Int, NEW r \in Range(Regimes), NEW o \in Range(Regimes),
         cfg.threshold[r] <= cfg.threshold[o]
  PROVE  /\ Threshold(cfg, a, r, vol) \in Int /\ Threshold(cfg, a, o, vol) \in Int
         /\ Threshold(cfg, a, r, vol) <= Threshold(cfg, a, o, vol)
         /\ cfg.threshold[r] >= 5000 => Threshold(cfg, a, r, vol) >= 5000
<1>. DEFINE x == adapt_threshold(cfg, cfg.threshold[r], vol)
            y == adapt_threshold(cfg, cfg.threshold[o], vol)
            Stricter(w) == IF a # None /\ Heard(cfg, a) = None THEN Min({10000, w + 1000}) ELSE w
            Final(w) == IF Heard(cfg, a) = None THEN Min({10000, w + 500}) ELSE w
<1>1. x \in Int /\ y \in Int /\ x <= y /\ (cfg.threshold[r] >= 5000 => x >= 5000)
  <2>1. cfg.threshold[r] \in Int /\ cfg.threshold[o] \in Int
    BY DEF Configured
  <2>. QED
    BY <2>1, AdaptedIs
<1>2. /\ Threshold(cfg, a, r, vol) = Final(Stricter(x))
      /\ Threshold(cfg, a, o, vol) = Final(Stricter(y))
  BY DEF Threshold
<1>. HIDE DEF x, y
<1>3. \A w, m \in Int : Min({10000, w + m}) = (IF 10000 <= w + m THEN 10000 ELSE w + m)
  BY LesserIs
<1>4. /\ Stricter(x) \in Int /\ Stricter(y) \in Int /\ Stricter(x) <= Stricter(y)
      /\ cfg.threshold[r] >= 5000 => Stricter(x) >= 5000
  BY <1>1, <1>3
<1>. HIDE DEF Stricter
<1>5. /\ Final(Stricter(x)) \in Int /\ Final(Stricter(y)) \in Int /\ Final(Stricter(x)) <= Final(Stricter(y))
      /\ cfg.threshold[r] >= 5000 => Final(Stricter(x)) >= 5000
  BY <1>3, <1>4
<1>. QED
  BY <1>2, <1>5

\* What passes is had confidence in.
LEMMA PassedIsTrusted ==
  ASSUME NEW t, NEW a, NEW combined \in Int, NEW threshold \in Int, combined >= threshold
  PROVE  confidence(t, a, combined, threshold) > 0
<1>. DEFINE excess == combined - threshold
            sides == Cardinality({s \in {<<"t", t>>, <<"a", a>>} : s[2] > 6000})
<1>1. excess \in Nat
  OBVIOUS
<1>. HIDE DEF excess
<1>2. excess \div 4 \in Nat /\ excess \div 3 \in Nat
  BY <1>1
<1>. HIDE DEF sides
<1>3. /\ Min({1000, 500 + excess \div 4}) > 0 /\ Min({1000, 600 + excess \div 3}) > 0
      /\ Min({800, 400 + excess \div 4}) > 0
  <2>. DEFINE u == excess \div 4
              v == excess \div 3
  <2>1. u \in Nat /\ v \in Nat
    BY <1>2
  <2>. HIDE DEF u, v
  <2>2. /\ Min({1000, 500 + u}) = (IF 1000 <= 500 + u THEN 1000 ELSE 500 + u)
        /\ Min({1000, 600 + v}) = (IF 1000 <= 600 + v THEN 1000 ELSE 600 + v)
        /\ Min({800, 400 + u}) = (IF 800 <= 400 + u THEN 800 ELSE 400 + u)
    BY <2>1, LesserIs
  <2>3. Min({1000, 500 + u}) > 0 /\ Min({1000, 600 + v}) > 0 /\ Min({800, 400 + u}) > 0
    BY <2>1, <2>2
  <2>. QED
    BY <2>3 DEF u, v
<1>4. confidence(t, a, combined, threshold) =
        CASE excess < 0 -> 0
          [] excess >= 0 /\ a = None -> Min({1000, 500 + excess \div 4})
          [] excess >= 0 /\ a # None /\ sides = 2 -> Min({1000, 600 + excess \div 3})
          [] excess >= 0 /\ a # None /\ sides = 1 -> Min({800, 400 + excess \div 4})
          [] OTHER -> 300
  BY DEF confidence, excess, sides
<1>. DEFINE A == Min({1000, 500 + excess \div 4})
            B == Min({1000, 600 + excess \div 3})
            C == Min({800, 400 + excess \div 4})
<1>. HIDE DEF A, B, C
<1>5. CASE a = None
  BY <1>1, <1>3, <1>4, <1>5
<1>6. CASE a # None /\ sides = 2
  BY <1>1, <1>3, <1>4, <1>6
<1>7. CASE a # None /\ sides = 1
  BY <1>1, <1>3, <1>4, <1>7
<1>8. CASE a # None /\ sides # 2 /\ sides # 1
  BY <1>1, <1>4, <1>8
<1>. QED
  BY <1>5, <1>6, <1>7, <1>8

LEMMA PassesOrdered == PassesAreOrdered
<1>. SUFFICES ASSUME NEW cfg \in Fusions, NEW t \in Scores, NEW a \in Scores \cup {None},
                     NEW vol \in Volatilities \cup {None}
              PROVE  LET fused(regime) == fuse_signals(cfg, t, a, regime, vol)
                     IN  /\ \A regime, other \in Range(Regimes) :
                              regime # "neutral" /\ cfg.threshold[regime] <= cfg.threshold[other] /\ fused(other).passed =>
                                fused(regime).passed
                         /\ \A regime \in Range(Regimes) :
                              /\ fused(regime).passed => fused(regime).confidence > 0
                              /\ cfg.threshold[regime] >= 5000 => fused(regime).threshold >= 5000
                         /\ ~pass_thresholds(cfg, t, a, "a regime nobody knows")
  BY DEF PassesAreOrdered
<1>. DEFINE fused(regime) == fuse_signals(cfg, t, a, regime, vol)
            score == Clamp(t, 0, 10000)
            heard == Heard(cfg, a)
            both == Combined(cfg, score, heard)
<1>1. Configured(cfg) /\ t \in Int /\ a \in Int /\ vol \in Int
  BY FusionsConfigured, PrudenceOK DEF None
<1>2. score \in Int /\ heard \in Int
  <2>1. \A x \in Int : Clamp(x, 0, 10000) \in Int
    BY Kept
  <2>. HIDE DEF Clamp
  <2>2. heard \in {None, Clamp(a, 0, 10000)}
    BY DEF Heard
  <2>. QED
    BY <1>1, <2>1, <2>2 DEF None
<1>3. ASSUME NEW regime
      PROVE  /\ fused(regime).passed = check_signal(cfg, score, heard, Threshold(cfg, a, regime, vol), regime)
             /\ fused(regime).threshold = Threshold(cfg, a, regime, vol)
             /\ fused(regime).confidence = confidence(score, heard, both, Threshold(cfg, a, regime, vol))
  BY DEF fuse_signals
<1>. HIDE DEF score, heard, fused
<1>4. both \in Int
  <2>1. \A m, n, o, p \in Int : (m * n + o * p) \div 100 \in Int
    OBVIOUS
  <2>2. both = score \/ both = (score * cfg.technical + heard * cfg.ai) \div 100
    BY DEF Combined
  <2>. QED
    BY <1>1, <1>2, <2>1, <2>2 DEF Configured
<1>5. ASSUME NEW regime \in Range(Regimes), NEW other \in Range(Regimes), regime # "neutral",
             cfg.threshold[regime] <= cfg.threshold[other], fused(other).passed
      PROVE  fused(regime).passed
  <2>1. check_signal(cfg, score, heard, Threshold(cfg, a, other, vol), other)
    BY <1>3, <1>5
  <2>2. /\ Threshold(cfg, a, regime, vol) \in Int /\ Threshold(cfg, a, other, vol) \in Int
        /\ Threshold(cfg, a, regime, vol) <= Threshold(cfg, a, other, vol)
    BY <1>1, <1>5, ThresholdsOrdered
  <2>3. both >= Threshold(cfg, a, other, vol)
    BY <2>1 DEF check_signal
  <2>4. both >= Threshold(cfg, a, regime, vol)
    BY <1>4, <2>2, <2>3
  <2>5. check_signal(cfg, score, heard, Threshold(cfg, a, regime, vol), regime)
    BY <1>5, <2>1, <2>4 DEF check_signal
  <2>. QED
    BY <1>3, <2>5
<1>6. ASSUME NEW regime \in Range(Regimes)
      PROVE  /\ fused(regime).passed => fused(regime).confidence > 0
             /\ cfg.threshold[regime] >= 5000 => fused(regime).threshold >= 5000
  <2>0. cfg.threshold[regime] <= cfg.threshold[regime]
    BY <1>1 DEF Configured
  <2>1. /\ Threshold(cfg, a, regime, vol) \in Int
        /\ cfg.threshold[regime] >= 5000 => Threshold(cfg, a, regime, vol) >= 5000
    BY <1>1, <2>0, ThresholdsOrdered
  <2>2. ASSUME fused(regime).passed PROVE fused(regime).confidence > 0
    <3>1. both >= Threshold(cfg, a, regime, vol)
      BY <1>3, <2>2 DEF check_signal
    <3>. HIDE DEF both
    <3>2. confidence(score, heard, both, Threshold(cfg, a, regime, vol)) > 0
      BY <1>4, <2>1, <3>1, PassedIsTrusted
    <3>. QED
      BY <1>3, <3>2 DEF both
  <2>3. fused(regime).threshold = Threshold(cfg, a, regime, vol)
    BY <1>3
  <2>. QED
    BY <2>1, <2>2, <2>3
<1>7. ~pass_thresholds(cfg, t, a, "a regime nobody knows")
  <2>1. parse_regime_string("a regime nobody knows") = "neutral"
    BY DEF parse_regime_string
  <2>2. ~fuse_signals(cfg, t, a, "neutral", None).passed
    BY DEF fuse_signals, check_signal
  <2>. QED
    BY <2>1, <2>2 DEF pass_thresholds
<1>. QED
  <2>1. \A regime, other \in Range(Regimes) :
          regime # "neutral" /\ cfg.threshold[regime] <= cfg.threshold[other] /\ fused(other).passed =>
            fused(regime).passed
    BY <1>5
  <2>2. \A regime \in Range(Regimes) :
          /\ fused(regime).passed => fused(regime).confidence > 0
          /\ cfg.threshold[regime] >= 5000 => fused(regime).threshold >= 5000
    BY <1>6
  <2>. QED
    BY <1>7, <2>1, <2>2 DEF fused
-----------------------------------------------------------------------------
(* How often a process turns.                                              *)
IsInterval(i) ==
  /\ i.default \in Int /\ i.min \in Int /\ i.max \in Int /\ i.min <= i.max

LEMMA IntervalsAre ==
  /\ \A name \in DOMAIN ProcessIntervals : IsInterval(ProcessIntervals[name])
  /\ ProcessIntervals["reconciliation"].min = 30
<1>. DEFINE P == ProcessIntervals
<1>1. DOMAIN P =
        {"orchestrator_cycle", "signal_generation", "protective_exits_check", "risk_counters_reset", "reconciliation",
         "settlement", "health_check", "watchdog", "metrics_collection", "ticker_update", "ohlcv_fetch",
         "regime_update", "database_backup", "log_rotation", "cleanup"}
  BY DEF ProcessIntervals
<1>2. /\ IsInterval(P["orchestrator_cycle"])
      /\ IsInterval(P["signal_generation"])
      /\ IsInterval(P["protective_exits_check"])
      /\ IsInterval(P["risk_counters_reset"])
  BY DEF ProcessIntervals, Interval, IsInterval
<1>3. /\ IsInterval(P["reconciliation"])
      /\ IsInterval(P["settlement"])
      /\ IsInterval(P["health_check"])
      /\ IsInterval(P["watchdog"])
  BY DEF ProcessIntervals, Interval, IsInterval
<1>4. /\ IsInterval(P["metrics_collection"])
      /\ IsInterval(P["ticker_update"])
      /\ IsInterval(P["ohlcv_fetch"])
      /\ IsInterval(P["regime_update"])
  BY DEF ProcessIntervals, Interval, IsInterval
<1>5. /\ IsInterval(P["database_backup"])
      /\ IsInterval(P["log_rotation"])
      /\ IsInterval(P["cleanup"])
  BY DEF ProcessIntervals, Interval, IsInterval
<1>6. P["reconciliation"].min = 30
  BY DEF ProcessIntervals, Interval
<1>. HIDE DEF P
<1>. QED
  BY <1>1, <1>2, <1>3, <1>4, <1>5, <1>6 DEF P

LEMMA ConfiguredIs ==
  ASSUME NEW i, IsInterval(i), NEW env \in Int, NEW settings \in Int
  PROVE  LET v == get_value(i, env, settings)
         IN  v \in Int /\ i.min <= v /\ v <= i.max
<1>. DEFINE given == IF env # None THEN env ELSE IF settings # None THEN settings ELSE i.default
<1>1. given \in Int
  BY DEF IsInterval
<1>2. get_value(i, env, settings) = Clamp(given, i.min, i.max)
  BY DEF get_value, IsInterval
<1>. HIDE DEF given
<1>3. i.min \in Int /\ i.max \in Int /\ i.min <= i.max
  BY DEF IsInterval
<1>4. Clamp(given, i.min, i.max) \in Int /\ i.min <= Clamp(given, i.min, i.max)
      /\ Clamp(given, i.min, i.max) <= i.max
  BY <1>1, <1>3, Kept
<1>. QED
  BY <1>2, <1>4

LEMMA AdjustmentsAre ==
  ASSUME NEW cond, {cond.vol, cond.cpu, cond.errors, cond.trades} \subseteq Nat \cup {None},
         NEW f \in adjustments(cond)
  PROVE  /\ f[2] \in {5, 7, 8, 15, 20}
         /\ f[1] = "reconciliation" /\ cond.errors > 10 /\ cond.trades # 0 => f[2] \in {5, 7}
<1>. DEFINE trades == IF cond.trades = None THEN {}
                      ELSE IF cond.trades < 1 THEN {<<"settlement", 20>>, <<"reconciliation", 15>>}
                      ELSE IF cond.trades > 10 THEN {<<"settlement", 5>>, <<"reconciliation", 7>>} ELSE {}
            errors == IF cond.errors > 10 THEN {<<"orchestrator_cycle", 20>>, <<"reconciliation", 5>>} ELSE {}
            cpu == IF cond.cpu > 80 THEN {<<"metrics_collection", 20>>, <<"ohlcv_fetch", 15>>}
                   ELSE IF cond.cpu # None /\ cond.cpu < 20 THEN {<<"metrics_collection", 8>>} ELSE {}
            vol == IF cond.vol > 20
                   THEN {<<"signal_generation", 5>>, <<"ticker_update", 5>>, <<"protective_exits_check", 7>>}
                   ELSE IF cond.vol # None /\ cond.vol < 5
                        THEN {<<"signal_generation", 15>>, <<"ticker_update", 20>>} ELSE {}
<1>1. f \in vol \/ f \in cpu \/ f \in errors \/ f \in trades
  BY DEF adjustments
<1>2. ASSUME f \in vol PROVE f[1] # "reconciliation" /\ f[2] \in {5, 7, 15, 20}
  BY <1>2
<1>3. ASSUME f \in cpu PROVE f[1] # "reconciliation" /\ f[2] \in {8, 15, 20}
  BY <1>3
<1>4. ASSUME f \in errors PROVE f[2] \in {5, 20} /\ (f[1] = "reconciliation" => f[2] = 5)
  BY <1>4
<1>5. ASSUME f \in trades PROVE f[2] \in {5, 7, 15, 20} /\ (cond.trades # 0 => f[2] \in {5, 7})
  BY <1>5
<1>. HIDE DEF vol, cpu, errors, trades
<1>. QED
  BY <1>1, <1>2, <1>3, <1>4, <1>5

LEMMA RoundedIs ==
  ASSUME NEW base \in Int, NEW f \in {5, 7, 8, 15, 20}
  PROVE  /\ Rounded(base * f, 10) \in Int
         /\ base >= 4 /\ f \in {5, 7} => Rounded(base * f, 10) <= base
<1>1. ASSUME NEW n \in Int
      PROVE  Rounded(n, 10) \in Int /\ Rounded(n, 10) <= n \div 10 + 1
  <2>1. n \div 10 \in Int
    OBVIOUS
  <2>. QED
    BY <2>1 DEF Rounded
<1>2. base * f \in Int
  OBVIOUS
<1>3. ASSUME base >= 4, f = 5 PROVE (base * f) \div 10 + 1 <= base
  BY <1>3
<1>4. ASSUME base >= 4, f = 7 PROVE (base * f) \div 10 + 1 <= base
  BY <1>4
<1>5. (base * f) \div 10 \in Int
  BY <1>2
<1>. HIDE DEF Rounded
<1>. DEFINE n == base * f
            d == n \div 10
<1>6. Rounded(n, 10) \in Int /\ Rounded(n, 10) <= d + 1 /\ d \in Int
  BY <1>1, <1>2, <1>5
<1>7. base >= 4 /\ f \in {5, 7} => d + 1 <= base
  BY <1>3, <1>4
<1>. HIDE DEF d
<1>8. base >= 4 /\ f \in {5, 7} => Rounded(n, 10) <= base
  BY <1>6, <1>7
<1>. QED
  BY <1>6, <1>8

LEMMA TurnsBounded == TurnsInBounds
<1>. SUFFICES ASSUME NEW name \in DOMAIN ProcessIntervals, NEW cond \in Conditions,
                     NEW env \in Overrides \cup {None}, NEW settings \in Overrides \cup {None}
              PROVE  LET interval == ProcessIntervals[name]
                         adjusted == get_adjusted_interval(name, cond, env, settings)
                         configured == get_value(interval, env, settings)
                     IN  /\ adjusted \in interval.min..interval.max
                         /\ ~interval.adaptive => adjusted = configured
                         /\ name = "reconciliation" /\ cond.errors > 10 /\ cond.trades # 0 => adjusted <= configured
  BY DEF TurnsInBounds
<1>. DEFINE i == ProcessIntervals[name]
            adjusted == get_adjusted_interval(name, cond, env, settings)
            base == get_value(i, env, settings)
            factors == {f[2] : f \in {g \in adjustments(cond) : g[1] = name}}
            factor == CHOOSE f \in factors : TRUE
<1>1. IsInterval(i) /\ (name = "reconciliation" => i.min = 30)
  BY IntervalsAre
<1>2. env \in Int /\ settings \in Int
  BY PrudenceOK DEF None
<1>3. adjusted = IF ~i.adaptive \/ factors = {} THEN base ELSE Clamp(Rounded(base * factor, 10), i.min, i.max)
  BY DEF get_adjusted_interval
<1>. HIDE DEF i
<1>4. base \in Int /\ i.min <= base /\ base <= i.max /\ i.min \in Int /\ i.max \in Int /\ i.min <= i.max
  <2>1. base \in Int /\ i.min <= base /\ base <= i.max
    BY <1>1, <1>2, ConfiguredIs
  <2>. QED
    BY <1>1, <2>1 DEF IsInterval
<1>5. {cond.vol, cond.cpu, cond.errors, cond.trades} \subseteq Nat \cup {None}
  BY PrudenceOK
<1>6. ASSUME factors # {}
      PROVE  /\ factor \in {5, 7, 8, 15, 20}
             /\ name = "reconciliation" /\ cond.errors > 10 /\ cond.trades # 0 => factor \in {5, 7}
  <2>1. factor \in factors
    BY <1>6
  <2>2. PICK f \in adjustments(cond) : f[1] = name /\ factor = f[2]
    BY <2>1
  <2>. HIDE DEF factor
  <2>. QED
    BY <1>5, <2>2, AdjustmentsAre
<1>. HIDE DEF base, factor, adjusted, factors
<1>7. CASE ~i.adaptive \/ factors = {}
  <2>1. adjusted = base
    BY <1>3, <1>7
  <2>2. adjusted \in i.min..i.max
    BY <1>4, <2>1
  <2>. QED
    BY <1>4, <2>1, <2>2 DEF i, adjusted, base
<1>8. CASE i.adaptive /\ factors # {}
  <2>. DEFINE r == Rounded(base * factor, 10)
  <2>1. adjusted = Clamp(r, i.min, i.max)
    BY <1>3, <1>8
  <2>2. r \in Int /\ (base >= 4 /\ factor \in {5, 7} => r <= base)
    BY <1>4, <1>6, <1>8, RoundedIs
  <2>. HIDE DEF r
  <2>3. /\ adjusted \in Int /\ adjusted >= i.min /\ adjusted <= i.max
        /\ adjusted = (IF r < i.min THEN i.min ELSE IF r > i.max THEN i.max ELSE r)
    BY <1>4, <2>1, <2>2, Kept
  <2>4. ASSUME name = "reconciliation", cond.errors > 10, cond.trades # 0 PROVE adjusted <= base
    <3>1. r <= base
      BY <1>1, <1>4, <1>6, <1>8, <2>2, <2>4
    <3>. QED
      BY <1>4, <2>2, <2>3, <3>1
  <2>5. adjusted \in i.min..i.max
    BY <1>4, <2>3
  <2>. QED
    BY <1>8, <2>4, <2>5 DEF i, adjusted, base
<1>. QED
  BY <1>7, <1>8
-----------------------------------------------------------------------------
(* The weights of the timeframes.                                          *)
LEMMA WeightIs ==
  ASSUME NEW w
  PROVE  WeightOf(w) = SumFunctionOnSet(w, DOMAIN w)
BY SumIsThat DEF WeightOf, MapThenSumSet, MapThenFoldSet, IsSum, One

LEMMA AverageIs ==
  ASSUME NEW S, IsFiniteSet(S), NEW w, NEW values, DOMAIN w = S, DOMAIN values = S
  PROVE  weighted_average(w, values) = SumFunctionOnSet([tf \in S |-> w[tf] * values[tf]], S)
<1>. DEFINE g == [tf \in S |-> w[tf] * values[tf]]
            Equation(f) == f = [s \in SUBSET S |->
              IF s = {} THEN 0 ELSE w[One(s)] * values[One(s)] + f[s \ {One(s)}]]
            e == CHOOSE f : Equation(f)
<1>1. weighted_average(w, values) = e[S]
  <2>1. DOMAIN w \cap DOMAIN values = S
    OBVIOUS
  <2>2. MapThenSumSet(LAMBDA tf : w[tf] * values[tf], S) = e[S]
    BY DEF MapThenSumSet, MapThenFoldSet, One
  <2>3. weighted_average(w, values) = MapThenSumSet(LAMBDA tf : w[tf] * values[tf], DOMAIN w \cap DOMAIN values)
    BY DEF weighted_average
  <2>. HIDE DEF e
  <2>. QED
    BY <2>1, <2>2, <2>3
<1>2. ASSUME NEW f PROVE Equation(f) <=> IsSum(g, S, f)
  <2>1. ASSUME NEW s \in SUBSET S, s # {}
        PROVE  g[One(s)] = w[One(s)] * values[One(s)]
    <3>1. One(s) \in S
      BY <2>1 DEF One
    <3>. QED
      BY <3>1
  <2>. HIDE DEF g
  <2>. QED
    BY <2>1 DEF IsSum
<1>3. \E f : IsSum(g, S, f)
  <2>. HIDE DEF g
  <2>. QED
    BY SumExists
<1>4. IsSum(g, S, e)
  <2>1. Equation(e)
    BY <1>2, <1>3
  <2>. HIDE DEF Equation, e
  <2>. QED
    BY <1>2, <2>1
<1>. HIDE DEF e, g
<1>. QED
  BY <1>1, <1>4, AnySum DEF g

\* A function of the timeframes to the naturals, as weights are.
Weighs(w) == DOMAIN w = Frames /\ \A tf \in Frames : w[tf] \in Nat

LEMMA WeightTyped ==
  ASSUME NEW w, Weighs(w)
  PROVE  WeightOf(w) = SumFunctionOnSet(w, Frames) /\ WeightOf(w) \in Nat
<1>1. IsFiniteSet(Frames)
  BY PrudenceOK
<1>2. WeightOf(w) = SumFunctionOnSet(w, Frames)
  BY WeightIs DEF Weighs
<1>. QED
  BY <1>1, <1>2, SumIsNatural DEF Weighs

LEMMA SharesMade ==
  ASSUME NEW a \in Int, NEW b \in Int, NEW c \in Int
  PROVE  a * ((100 - c) * b) + b * (c * a) = 100 * a * b
<1>1. (100 - c) * b = 100 * b - c * b /\ c * b \in Int
  OBVIOUS
<1>2. a * (100 * b - c * b) = a * (100 * b) - a * (c * b)
  OBVIOUS
<1>3. b * (c * a) = a * (c * b) /\ a * (100 * b) = 100 * a * b /\ a * (c * b) \in Int /\ a * (100 * b) \in Int
  OBVIOUS
<1>. QED
  BY <1>1, <1>2, <1>3

LEMMA SharesKept ==
  ASSUME NEW w, NEW atr, Weighs(w), Weighs(atr), NEW factor \in Int, WeightOf(atr) > 0
  PROVE  WeightOf(calculate_weights(w, factor, atr)) = 100 * WeightOf(w) * WeightOf(atr)
<1>. DEFINE W == WeightOf(w)
            A == WeightOf(atr)
            k == (100 - factor) * A
            l == factor * W
            f == calculate_weights(w, factor, atr)
<1>1. /\ W = SumFunctionOnSet(w, Frames) /\ W \in Nat
      /\ A = SumFunctionOnSet(atr, Frames) /\ A \in Nat
  BY WeightTyped
<1>2. f = [tf \in DOMAIN w |-> w[tf] * (100 - factor) * A + atr[tf] * factor * W]
  BY <1>1 DEF calculate_weights
<1>3. IsFiniteSet(Frames) /\ DOMAIN f = Frames /\ WeightOf(f) = SumFunctionOnSet(f, Frames)
  BY <1>2, PrudenceOK, WeightIs DEF Weighs
<1>. HIDE DEF W, A
<1>4. k \in Int /\ l \in Int
  BY <1>1
<1>5. Mixed(f, w, atr, k, l, Frames)
  <2>. SUFFICES ASSUME NEW tf \in Frames PROVE f[tf] = w[tf] * k + atr[tf] * l
    BY DEF Mixed
  <2>1. f[tf] = w[tf] * (100 - factor) * A + atr[tf] * factor * W
    BY <1>2 DEF Weighs
  <2>2. w[tf] \in Int /\ atr[tf] \in Int
    BY DEF Weighs
  <2>3. /\ w[tf] * (100 - factor) * A = w[tf] * ((100 - factor) * A)
        /\ atr[tf] * factor * W = atr[tf] * (factor * W)
    BY <1>1, <2>2
  <2>. QED
    BY <2>1, <2>3
<1>. HIDE DEF f
<1>6. \A tf \in Frames : w[tf] \in Int /\ atr[tf] \in Int
  BY DEF Weighs
<1>. HIDE DEF k, l
<1>7. SumFunctionOnSet(f, Frames) = SumFunctionOnSet(w, Frames) * k + SumFunctionOnSet(atr, Frames) * l
  BY <1>3, <1>4, <1>5, <1>6, SumOfMixed
<1>8. WeightOf(f) = W * ((100 - factor) * A) + A * (factor * W)
  BY <1>1, <1>3, <1>7 DEF k, l
<1>9. W * ((100 - factor) * A) + A * (factor * W) = 100 * W * A
  BY <1>1, SharesMade
<1>. QED
  BY <1>8, <1>9 DEF f, W, A

LEMMA Products ==
  ASSUME NEW n \in Nat, NEW a \in Int, NEW b \in Int, a <= b
  PROVE  n * a <= n * b /\ n * a \in Int /\ n * b \in Int /\ a * n = n * a
<1>1. b - a \in Nat
  OBVIOUS
<1>2. n * (b - a) \in Nat
  BY <1>1
<1>3. n * (b - a) = n * b - n * a /\ n * a \in Int /\ n * b \in Int /\ a * n = n * a
  OBVIOUS
<1>. QED
  BY <1>2, <1>3

\* An average lies between the least and the greatest of what is averaged.
LEMMA AverageBounded ==
  ASSUME NEW w, Weighs(w), NEW values \in [Frames -> Int], NEW bound \in Int
  PROVE  /\ (\A tf \in Frames : bound <= values[tf]) => bound * WeightOf(w) <= weighted_average(w, values)
         /\ (\A tf \in Frames : values[tf] <= bound) => weighted_average(w, values) <= bound * WeightOf(w)
<1>. DEFINE f == [tf \in Frames |-> w[tf] * values[tf]]
            h == [tf \in Frames |-> w[tf] * bound]
            S == Frames
<1>1. IsFiniteSet(S) /\ \A tf \in S : w[tf] \in Nat /\ values[tf] \in Int
  BY PrudenceOK DEF Weighs
<1>2. weighted_average(w, values) = SumFunctionOnSet(f, S)
  BY <1>1, AverageIs DEF Weighs
<1>3. \A tf \in S : f[tf] \in Int /\ h[tf] \in Int
  BY <1>1
<1>4. SumFunctionOnSet(h, S) = bound * WeightOf(w)
  <2>1. WeightOf(w) = SumFunctionOnSet(w, S) /\ WeightOf(w) \in Nat
    BY WeightTyped
  <2>2. Mixed(h, w, w, bound, 0, S)
    <3>1. \A tf \in S : h[tf] = w[tf] * bound /\ w[tf] * 0 = 0 /\ w[tf] * bound \in Int
      BY <1>1
    <3>. HIDE DEF h
    <3>2. \A tf \in S : h[tf] = w[tf] * bound + w[tf] * 0
      BY <3>1
    <3>. QED
      BY <3>2 DEF Mixed
  <2>3. \A tf \in S : w[tf] \in Int
    BY <1>1
  <2>. HIDE DEF h, S
  <2>4. SumFunctionOnSet(h, S) = SumFunctionOnSet(w, S) * bound + SumFunctionOnSet(w, S) * 0
    BY <1>1, <2>2, <2>3, SumOfMixed
  <2>5. WeightOf(w) * bound + WeightOf(w) * 0 = bound * WeightOf(w)
    BY <2>1
  <2>. QED
    BY <2>1, <2>4, <2>5
<1>5. ASSUME \A tf \in S : bound <= values[tf] PROVE SumFunctionOnSet(h, S) <= SumFunctionOnSet(f, S)
  <2>1. \A tf \in S : h[tf] <= f[tf]
    BY <1>1, <1>5, Products
  <2>. HIDE DEF f, h, S
  <2>. QED
    BY <1>1, <1>3, <2>1, SumsOrdered
<1>6. ASSUME \A tf \in S : values[tf] <= bound PROVE SumFunctionOnSet(f, S) <= SumFunctionOnSet(h, S)
  <2>1. \A tf \in S : f[tf] <= h[tf]
    BY <1>1, <1>6, Products
  <2>. HIDE DEF f, h, S
  <2>. QED
    BY <1>1, <1>3, <2>1, SumsOrdered
<1>. HIDE DEF f, h
<1>. QED
  BY <1>2, <1>4, <1>5, <1>6

LEMMA AlignedIs ==
  ASSUME NEW w, Weighs(w), NEW trend, DOMAIN trend = Frames, \A tf \in Frames : trend[tf] \in Int
  PROVE  LET aligned == calculate_trend_aligned_weights(w, trend)
         IN  /\ Weighs(aligned)
             /\ \A i, j \in Frames : w[i] = w[j] /\ trend[i] <= trend[j] => aligned[i] <= aligned[j]
<1>. DEFINE W == WeightOf(w)
            Push(tf) == 200 + Clamp(IF tf \in DOMAIN trend THEN trend[tf] ELSE 0, -100, 100)
            raw == [tf \in DOMAIN w |-> Min({200 * W, w[tf] * Push(tf)})]
            aligned == calculate_trend_aligned_weights(w, trend)
<1>1. W \in Nat /\ DOMAIN raw = Frames /\ DOMAIN w = Frames
  BY WeightTyped DEF Weighs
<1>2. aligned = IF WeightOf(raw) = 0 THEN [tf \in DOMAIN raw |-> 1] ELSE raw
  BY DEF calculate_trend_aligned_weights, normalized
<1>3. \A u \in Int : /\ Clamp(u, -100, 100) \in Int
                     /\ Clamp(u, -100, 100) = (IF u < -100 THEN -100 ELSE IF u > 100 THEN 100 ELSE u)
  BY Kept
<1>4. /\ \A tf \in Frames : Push(tf) \in Nat
      /\ \A i, j \in Frames : trend[i] <= trend[j] => Push(i) <= Push(j)
  <2>. HIDE DEF Clamp
  <2>. QED
    BY <1>3
<1>5. \A tf \in Frames : w[tf] \in Nat /\ raw[tf] = Min({200 * W, w[tf] * Push(tf)})
  BY <1>1 DEF Weighs
<1>. HIDE DEF W, Push, raw, aligned
<1>6. \A m \in Nat : Min({200 * W, m}) = (IF 200 * W <= m THEN 200 * W ELSE m)
  <2>1. 200 * W \in Nat
    BY <1>1
  <2>. QED
    BY <2>1, LesserIs
<1>7. ASSUME NEW tf \in Frames PROVE w[tf] * Push(tf) \in Nat
  <2>1. \A m, n \in Nat : m * n \in Nat
    OBVIOUS
  <2>2. w[tf] \in Nat /\ Push(tf) \in Nat
    BY <1>4, <1>5
  <2>. QED
    BY <2>1, <2>2
<1>8. ASSUME NEW tf \in Frames PROVE raw[tf] \in Nat
  <2>. DEFINE p == w[tf] * Push(tf)
  <2>1. 200 * W \in Nat /\ p \in Nat /\ raw[tf] = Min({200 * W, p})
    BY <1>1, <1>5, <1>7
  <2>. HIDE DEF p
  <2>. QED
    BY <1>6, <2>1
<1>9. ASSUME NEW i \in Frames, NEW j \in Frames, w[i] = w[j], trend[i] <= trend[j]
      PROVE  raw[i] <= raw[j]
  <2>. DEFINE p == w[i] * Push(i)
              q == w[j] * Push(j)
  <2>1. p \in Nat /\ q \in Nat
    BY <1>7
  <2>2. p <= q
    <3>1. Push(i) \in Nat /\ Push(j) \in Nat
      BY <1>4
    <3>2. Push(i) <= Push(j)
      BY <1>4, <1>9
    <3>3. w[i] \in Nat
      BY <1>5
    <3>4. w[i] * Push(i) <= w[i] * Push(j)
      BY <3>1, <3>2, <3>3, Products
    <3>. QED
      BY <1>9, <3>4
  <2>3. raw[i] = Min({200 * W, p}) /\ raw[j] = Min({200 * W, q}) /\ 200 * W \in Nat
    BY <1>1, <1>5
  <2>. HIDE DEF p, q
  <2>. QED
    BY <1>6, <2>1, <2>2, <2>3
<1>10. Weighs(aligned)
  BY <1>1, <1>2, <1>8 DEF Weighs
<1>11. \A i, j \in Frames : w[i] = w[j] /\ trend[i] <= trend[j] => aligned[i] <= aligned[j]
  BY <1>1, <1>2, <1>9
<1>. QED
  BY <1>10, <1>11 DEF aligned

LEMMA WeightsShared == WeightsAreShares
<1>1. \A w \in Weightings \cup Ranges : Weighs(w)
  BY PrudenceOK DEF Weighs
<1>2. \A w \in Weightings, factor \in Factors, atr \in Ranges :
        WeightOf(atr) > 0 => WeightOf(calculate_weights(w, factor, atr)) = 100 * WeightOf(w) * WeightOf(atr)
  BY <1>1, PrudenceOK, SharesKept
<1>3. ASSUME NEW w \in Weightings, NEW trend \in Trends, NEW values \in [Frames -> Values]
      PROVE  LET aligned == calculate_trend_aligned_weights(w, trend)
             IN  /\ \A least \in Values : (\A tf \in Frames : least <= values[tf]) =>
                      least * WeightOf(aligned) <= weighted_average(aligned, values)
                 /\ \A most \in Values : (\A tf \in Frames : values[tf] <= most) =>
                      weighted_average(aligned, values) <= most * WeightOf(aligned)
                 /\ \A i, j \in Frames : w[i] = w[j] /\ trend[i] <= trend[j] => aligned[i] <= aligned[j]
  <2>. DEFINE aligned == calculate_trend_aligned_weights(w, trend)
  <2>1. DOMAIN trend = Frames /\ (\A tf \in Frames : trend[tf] \in Int) /\ Weighs(w)
    BY <1>1, PrudenceOK
  <2>2. /\ Weighs(aligned)
        /\ \A i, j \in Frames : w[i] = w[j] /\ trend[i] <= trend[j] => aligned[i] <= aligned[j]
    BY <2>1, AlignedIs
  <2>3. values \in [Frames -> Int] /\ \A v \in Values : v \in Int
    BY PrudenceOK
  <2>. HIDE DEF aligned
  <2>4. ASSUME NEW bound \in Values
        PROVE  /\ (\A tf \in Frames : bound <= values[tf]) => bound * WeightOf(aligned) <= weighted_average(aligned, values)
               /\ (\A tf \in Frames : values[tf] <= bound) => weighted_average(aligned, values) <= bound * WeightOf(aligned)
    BY <2>2, <2>3, AverageBounded
  <2>. QED
    BY <2>2, <2>4 DEF aligned
<1>. QED
  BY <1>2, <1>3 DEF WeightsAreShares

(* For any configuration of the fusion, any scores, volatilities, data and *)
(* announcements, any measurement of market and machine, and any weights:  *)
(* what FusionFilter, resolve_state(), the intervals and the timeframes    *)
(* answer is ordered as the times are, and within its bounds.              *)
THEOREM StricterWhenWorse == GateSpec => []WorseIsStricter
<1>1. WorseIsStricter
  BY PassesOrdered, RegimesOrdered, TurnsBounded, WeightsShared DEF WorseIsStricter
<1>. QED
  BY <1>1, PTL
=============================================================================
