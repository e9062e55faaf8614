----------------------------- MODULE AtomicStore -----------------------------
(***************************************************************************)
(* What the database layer promises its callers (DatabaseWorkerPool.h): a   *)
(* transaction handed over is executed once and as a whole, or not at all,  *)
(* and the result its caller may ask for says which - but for a COMMIT the  *)
(* server refuses, since nobody looks at its result.                        *)
(***************************************************************************)
EXTENDS Integers

CONSTANTS Txns,         \* transactions and one-way statements
          Size,         \* how many statements each has
          CommitMayFail \* the server may refuse a COMMIT

VARIABLES stored,       \* how often each statement took effect in the database
          outcome       \* what became of each transaction

storeVars == <<stored, outcome>>

Rows(t) == 1 .. Size[t]

Untouched(t) == stored[t] = [i \in Rows(t) |-> 0]

StoreInit ==
  /\ stored = [t \in Txns |-> [i \in Rows(t) |-> 0]]
  /\ outcome = [t \in Txns |-> "none"]

Submit(t) ==
  /\ outcome[t] = "none"
  /\ outcome' = [outcome EXCEPT ![t] = "queued"]
  /\ UNCHANGED stored

Commit(t) ==
  /\ outcome[t] = "queued"
  /\ Untouched(t)
  /\ stored' = [stored EXCEPT ![t] = [i \in Rows(t) |-> 1]]
  /\ outcome' = [outcome EXCEPT ![t] = "ok"]

Fail(t) ==
  /\ outcome[t] = "queued"
  /\ Untouched(t)
  /\ outcome' = [outcome EXCEPT ![t] = "failed"]
  /\ UNCHANGED stored

(* The COMMIT was refused: success is reported, and nothing is stored. *)
Forget(t) ==
  /\ CommitMayFail
  /\ outcome[t] = "queued"
  /\ Untouched(t)
  /\ outcome' = [outcome EXCEPT ![t] = "ok"]
  /\ UNCHANGED stored

(* Closing the pool discards what no connection has begun. *)
Discard(S) ==
  /\ \A t \in S : outcome[t] = "queued" /\ Untouched(t)
  /\ outcome' = [t \in Txns |-> IF t \in S THEN "dropped" ELSE outcome[t]]
  /\ UNCHANGED stored

StoreNext ==
  \/ \E t \in Txns : Submit(t) \/ Commit(t) \/ Fail(t) \/ Forget(t)
  \/ \E S \in SUBSET Txns : Discard(S)

StoreSpec == StoreInit /\ [][StoreNext]_storeVars
=============================================================================
