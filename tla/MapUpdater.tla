------------------------------ MODULE MapUpdater ------------------------------
(***************************************************************************)
(* The pool of map-update threads, src/server/game/Maps/MapUpdater.cpp: the *)
(* world thread hands one request per map to the workers and waits until    *)
(* all of them are finished.  A request is identified by its map.           *)
(***************************************************************************)
EXTENDS ProducerConsumerQueue

VARIABLES pending_requests,
          cancelationToken,   \* _cancelationToken
          caller,             \* the world thread inside MapUpdater
          wpc                 \* where each WorkerThread is

Workers == Consumers

updaterVars == <<pending_requests, cancelationToken, caller, wpc>>
allUpdaterVars == <<queueVars, updaterVars>>

CallerStates == {"free", "testing", "asleep", "cancel", "join", "stopped"}
WorkerStates == {"none", "loop", "pop", "check", "calling", "exited", "crashed"}

UpdaterTypeOK ==
  /\ QueueTypeOK
  /\ pending_requests \in Nat
  /\ cancelationToken \in BOOLEAN
  /\ caller \in CallerStates
  /\ wpc \in [Workers -> WorkerStates]

(* activate(num_threads), called when MapUpdate.Threads > 0.                 *)
activate(started) ==
  wpc = [w \in Workers |-> IF w \in started THEN "loop" ELSE "none"]

UpdaterInit ==
  /\ QueueInit
  /\ pending_requests = 0
  /\ cancelationToken = FALSE
  /\ caller = "free"
  /\ \E started \in SUBSET Workers : activate(started)

activated == \E w \in Workers : wpc[w] # "none"

-----------------------------------------------------------------------------
(* The worker: while (1) { WaitAndPop; test the token; call; delete; } *)

WorkerEnters(w) ==
  /\ wpc[w] = "loop"
  /\ EnterWaitAndPop(w)
  /\ wpc' = [wpc EXCEPT ![w] = "pop"]
  /\ UNCHANGED <<pending_requests, cancelationToken, caller>>

WorkerSleepsOrWakes(w) ==
  /\ wpc[w] = "pop"
  /\ Wait(w) \/ SpuriousWakeup(w)
  /\ UNCHANGED updaterVars

WorkerPops(w) ==
  /\ wpc[w] = "pop"
  /\ Take(w) \/ ReturnEmptyHanded(w)
  /\ wpc' = [wpc EXCEPT ![w] = "check"]
  /\ UNCHANGED <<pending_requests, cancelationToken, caller>>

(* if (_cancelationToken) return; request->call();  -- a call through the    *)
(* nullptr of an empty-handed WaitAndPop would crash.                        *)
WorkerChecksToken(w) ==
  /\ wpc[w] = "check"
  /\ wpc' = [wpc EXCEPT ![w] = IF cancelationToken THEN "exited"
                               ELSE IF value[w] = Null THEN "crashed"
                               ELSE "calling"]
  /\ UNCHANGED <<queueVars, pending_requests, cancelationToken, caller>>

(* The waiting world thread is not notified: a plausible slip. *)
update_finished_without_notify ==
  /\ pending_requests' = pending_requests - 1
  /\ UNCHANGED caller

(* update_finished: decrement and notify_all under _lock. *)
update_finished ==
  /\ pending_requests' = pending_requests - 1
  /\ caller' = IF caller = "asleep" THEN "testing" ELSE caller

(* Map::Update has returned; update_finished, delete request, loop. *)
WorkerFinishes(w) ==
  /\ wpc[w] = "calling"
  /\ update_finished
  /\ wpc' = [wpc EXCEPT ![w] = "loop"]
  /\ UNCHANGED <<queueVars, cancelationToken>>

WorkerStep(w) ==
  \/ WorkerEnters(w)
  \/ WorkerSleepsOrWakes(w)
  \/ WorkerPops(w)
  \/ WorkerChecksToken(w)
  \/ WorkerFinishes(w)

-----------------------------------------------------------------------------
(* The world thread. *)

(* The request is not counted: a plausible slip. *)
schedule_update_uncounted(m) ==
  /\ caller = "free"
  /\ Push(m)
  /\ UNCHANGED <<pending_requests, cancelationToken, caller, wpc>>

schedule_update(m) ==
  /\ caller = "free"
  /\ pending_requests' = pending_requests + 1
  /\ Push(m)
  /\ UNCHANGED <<cancelationToken, caller, wpc>>

wait ==
  /\ caller = "free"
  /\ caller' = "testing"
  /\ UNCHANGED <<queueVars, pending_requests, cancelationToken, wpc>>

(* The last request is not waited for: a plausible slip. *)
WaitTestsButOne ==
  /\ caller = "testing"
  /\ caller' = IF pending_requests > 1 THEN "asleep"
               ELSE IF cancelationToken THEN "cancel" ELSE "free"
  /\ UNCHANGED <<queueVars, pending_requests, cancelationToken, wpc>>

(* while (pending_requests > 0) _condition.wait(lock);  -- wait() returns to *)
(* MapManager::Update or, once the token is set, to deactivate().            *)
WaitTests ==
  /\ caller = "testing"
  /\ caller' = IF pending_requests > 0 THEN "asleep"
               ELSE IF cancelationToken THEN "cancel" ELSE "free"
  /\ UNCHANGED <<queueVars, pending_requests, cancelationToken, wpc>>

WaitWokenSpuriously ==
  /\ caller = "asleep"
  /\ caller' = "testing"
  /\ UNCHANGED <<queueVars, pending_requests, cancelationToken, wpc>>

(* The token is only set after the queue has been cancelled: a plausible slip *)
deactivate_late_token ==
  /\ caller = "free"
  /\ caller' = "cancel"
  /\ UNCHANGED <<queueVars, pending_requests, cancelationToken, wpc>>

(* deactivate(): set the token, then wait().  MapManager::Update waits for   *)
(* every request it schedules before it returns, so nothing is pending here. *)
deactivate ==
  /\ caller = "free"
  /\ cancelationToken' = TRUE
  /\ caller' = "testing"
  /\ UNCHANGED <<queueVars, pending_requests, wpc>>

DeactivateCancels ==
  /\ caller = "cancel"
  /\ Cancel
  /\ caller' = "join"
  /\ UNCHANGED <<pending_requests, cancelationToken, wpc>>

DeactivateJoins ==
  /\ caller = "join"
  /\ \A w \in Workers : wpc[w] \in {"none", "exited"}
  /\ caller' = "stopped"
  /\ UNCHANGED <<queueVars, pending_requests, cancelationToken, wpc>>

-----------------------------------------------------------------------------
(* The updater with the most general caller that follows MapManager's        *)
(* protocol: each map at most once between two waits, deactivate when idle.  *)

Outstanding(m) ==
  \/ \E i \in DOMAIN queue : queue[i] = m
  \/ \E w \in Workers : wpc[w] \in {"check", "calling"} /\ value[w] = m

CallerStep ==
  \/ \E m \in Values : ~Outstanding(m) /\ schedule_update(m)
  \/ wait
  \/ WaitTests
  \/ WaitWokenSpuriously
  \/ pending_requests = 0 /\ deactivate
  \/ DeactivateCancels
  \/ DeactivateJoins

UpdaterNext ==
  \/ CallerStep
  \/ \E w \in Workers : WorkerStep(w)
  \/ caller = "stopped" /\ UNCHANGED allUpdaterVars

UpdaterSpec == UpdaterInit /\ [][UpdaterNext]_allUpdaterVars

-----------------------------------------------------------------------------
(* Properties. *)

(* The workers that hold a request they have not finished. *)
Busy == {w \in Workers : wpc[w] \in {"check", "calling"} /\ value[w] # Null}

(* pending_requests counts exactly the requests queued or held by a worker:  *)
(* wait() returns neither before the last update ends nor never.             *)
PendingIsExact ==
  pending_requests = Len(queue) + Cardinality(Busy)

(* No worker ever calls through the nullptr it gets when the queue shuts     *)
(* down: deactivate sets the token before it cancels the queue.              *)
NoNullCall ==
  \A w \in Workers : wpc[w] # "crashed"

(* No request is dropped unexecuted, neither by the token check nor by the   *)
(* deletion of queued requests in Cancel.                                    *)
NothingDropped ==
  /\ \A w \in Workers : wpc[w] = "exited" => value[w] = Null
  /\ caller = "cancel" => queue = <<>>
=============================================================================
