----------------------------- MODULE BatchPromise -----------------------------
(***************************************************************************)
(* What the asynchronous batch interface promises its caller, without the  *)
(* queue, the workers and their failures: an accepted batch opens all its  *)
(* items at once, each item is resolved once and for all, a failed item    *)
(* leaves exactly one dead letter, and the resolution of the last open     *)
(* item of a batch is the step that gives the batch its verdict.           *)
(***************************************************************************)
EXTENDS Integers

CONSTANTS Batches, Items, BatchOf

VARIABLES outcome, verdict, letters

promiseVars == <<outcome, verdict, letters>>

Outcomes == {"DONE", "HUMAN_REVIEW", "FAILED_FINAL"}

Members(b) == {i \in Items : BatchOf[i] = b}

VerdictOf(out, b) ==
  IF \E i \in Members(b) : out[i] = "FAILED_FINAL" THEN "FAILED"
  ELSE IF \E i \in Members(b) : out[i] = "HUMAN_REVIEW" THEN "PARTIAL"
  ELSE "COMPLETED"

PromiseInit ==
  /\ outcome = [i \in Items |-> "ABSENT"]
  /\ verdict = [b \in Batches |-> "ABSENT"]
  /\ letters = [i \in Items |-> 0]

Accept(b) ==
  /\ verdict[b] = "ABSENT"
  /\ verdict' = [verdict EXCEPT ![b] = "OPEN"]
  /\ outcome' = [i \in Items |-> IF BatchOf[i] = b THEN "OPEN" ELSE outcome[i]]
  /\ UNCHANGED letters

Resolve(i, v) ==
  /\ outcome[i] = "OPEN"
  /\ outcome' = [outcome EXCEPT ![i] = v]
  /\ letters' = [letters EXCEPT ![i] = IF v = "FAILED_FINAL" THEN @ + 1 ELSE @]
  /\ verdict' = [verdict EXCEPT ![BatchOf[i]] =
       IF \A j \in Members(BatchOf[i]) : outcome'[j] \in Outcomes
         THEN VerdictOf(outcome', BatchOf[i])
         ELSE @]

PromiseNext ==
  \/ \E b \in Batches : Accept(b)
  \/ \E i \in Items, v \in Outcomes : Resolve(i, v)

PromiseSpec == PromiseInit /\ [][PromiseNext]_promiseVars
=============================================================================
