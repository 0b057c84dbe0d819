----------------------------- MODULE HttpClient -----------------------------
(***************************************************************************)
(* Requests over HTTP (utils/http_client.py), with which the bot reads its *)
(* macro sources and talks to Telegram: one client shared by the whole     *)
(* process, replaced and closed whenever a request wants another timeout   *)
(* or other headers; a semaphore that bounds the requests under way, which *)
(* configure replaces; repeats after answers and errors that are worth it. *)
(*                                                                         *)
(* A request holds a permit of the semaphore there was when it took it,    *)
(* through its pause before a repeat as well, and gives one back to the    *)
(* semaphore there is by then.                                             *)
(***************************************************************************)
EXTENDS Integers, Sequences

CONSTANTS Clients,     \* coroutines that make a request
          Configs,     \* the settings a shared client can have
          Retries,     \* retries
          Sizes,       \* values of max_concurrency; 0 lifts the limit
          Swaps        \* bound on the calls of configure

VARIABLES free,        \* free permits of every semaphore there was
          current,     \* the semaphore in use; 0 for none
          swaps,       \* calls of configure so far
          pool,        \* the shared client: its number and its settings
          request

httpVars == <<free, current, swaps, pool, request>>

Unsent == [stage |-> "idle", tries |-> 0, sem |-> 0, client |-> 0]

HttpInit ==
  /\ free = <<>>
  /\ current = 0
  /\ swaps = 0
  /\ pool = [number |-> 0, config |-> "none"]
  /\ request = [r \in Clients |-> Unsent]

Move(r, s) == request' = [request EXCEPT ![r].stage = s]

(* configure(max_concurrency): a new semaphore or none.                    *)
Configure(n) ==
  /\ swaps < Swaps
  /\ swaps' = swaps + 1
  /\ IF n = 0 THEN current' = 0 /\ UNCHANGED free
     ELSE free' = Append(free, n) /\ current' = Len(free')
  /\ UNCHANGED <<pool, request>>

(* A request takes the shared client when its settings are those it wants, *)
(* and otherwise closes it, under whoever uses it, and makes another.      *)
Begin(r, config) ==
  /\ request[r].stage = "idle"
  /\ pool' = IF pool.config = config THEN pool
             ELSE [number |-> pool.number + 1, config |-> config]
  /\ request' = [request EXCEPT ![r] =
                   [Unsent EXCEPT !.stage = "ready", !.client = pool'.number]]
  /\ UNCHANGED <<free, current, swaps>>

(* An attempt: with no semaphore at once, else with a permit of it, for    *)
(* which the request may have to wait.                                     *)
Attempt(r) ==
  /\ request[r].stage = "ready"
  /\ IF current # 0 /\ free[current] = 0
     THEN /\ request' = [request EXCEPT ![r].stage = "queue", ![r].sem = current]
          /\ UNCHANGED free
     ELSE /\ request' = [request EXCEPT ![r].stage = "flight", ![r].tries = @ + 1]
          /\ free' = IF current = 0 THEN free ELSE [free EXCEPT ![current] = @ - 1]
  /\ UNCHANGED <<current, swaps, pool>>

(* The wait is over; it is for the semaphore of its beginning.             *)
Granted(r) ==
  /\ request[r].stage = "queue" /\ free[request[r].sem] > 0
  /\ free' = [free EXCEPT ![request[r].sem] = @ - 1]
  /\ request' = [request EXCEPT ![r].stage = "flight", ![r].tries = @ + 1]
  /\ UNCHANGED <<current, swaps, pool>>

Open(r) == request[r].client = pool.number

\* Slip: a request that fails for good keeps its permit.
ReleaseUnlessFailed(s) ==
  free' = IF current = 0 \/ s = "failed" THEN free ELSE [free EXCEPT ![current] = @ + 1]

(* finally: a permit goes back to the semaphore in use.                    *)
Release(s) ==
  free' = IF current = 0 THEN free ELSE [free EXCEPT ![current] = @ + 1]

End(r, s) ==
  /\ Move(r, s)
  /\ Release(s)
  /\ UNCHANGED <<current, swaps, pool>>

Repeat(r) == request[r].tries <= Retries

Pause(r) ==
  /\ Move(r, "pause")
  /\ UNCHANGED <<free, current, swaps, pool>>

(* An answer: one that says to come back is, while there are repeats left. *)
Answer(r, again) ==
  /\ request[r].stage = "flight" /\ Open(r)
  /\ IF again /\ Repeat(r) THEN Pause(r) ELSE End(r, "done")

(* The network or its timeouts: as above, but the last one is an error.    *)
NetworkError(r) ==
  /\ request[r].stage = "flight"
  /\ IF Repeat(r) THEN Pause(r) ELSE End(r, "failed")

(* The hard timeout, or a client that is closed: an error at once.         *)
HardError(r) ==
  /\ request[r].stage = "flight"
  /\ End(r, "failed")

(* After the pause the permit goes back, and the next attempt needs one.   *)
Resume(r) ==
  /\ request[r].stage = "pause"
  /\ End(r, "ready")

HttpStep(r) ==
  \/ Attempt(r) \/ Granted(r)
  \/ \E again \in BOOLEAN : Answer(r, again)
  \/ NetworkError(r) \/ HardError(r) \/ Resume(r)

HttpNext ==
  \/ \E n \in Sizes : Configure(n)
  \/ \E r \in Clients : HttpStep(r) \/ \E config \in Configs : Begin(r, config)

----------------------------------------------------------------------------
(* Properties *)

(* A request that has begun ends: its repeats are counted and a permit     *)
(* comes back on every way out of an attempt.  The exception is the code's *)
(* own: a request that waits for a semaphore that was replaced meanwhile   *)
(* waits for permits that are given back to another.                       *)
RequestsEnd ==
  \A r \in Clients :
    request[r].stage = "ready" ~>
      \/ request[r].stage \in {"done", "failed"}
      \/ request[r].stage = "queue" /\ request[r].sem # current
=============================================================================
