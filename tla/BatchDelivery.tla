---------------------------- MODULE BatchDelivery ----------------------------
(***************************************************************************)
(* How an audio file accepted in a batch reaches its final status.         *)
(*                                                                         *)
(* PostgreSQL holds the batches, their items and one transactional outbox  *)
(* event per item.  Publishers copy pending events to a Redis stream;      *)
(* Workers read the stream as one consumer group, run the audio pipeline   *)
(* on the item, commit its final status and acknowledge the message.  Any  *)
(* process may die between two transactions; Redis keeps nothing on disk.  *)
(*                                                                         *)
(* One action is one database transaction or one Redis command.  A         *)
(* PostgreSQL transaction that reads what other transactions write (the    *)
(* finalisation, which counts the statuses of the whole batch under READ   *)
(* COMMITTED) is split at its commit.                                      *)
(***************************************************************************)
EXTENDS Integers, Sequences, FiniteSets

CONSTANTS
  Batches, Items,        \* batch ids and item ids
  BatchOf,               \* the batch of each item
  Workers, Publishers,   \* consumer processes and publisher processes
  MaxPending,            \* queue_max_pending: limit of unfinished items
  MaxPublishAttempts,    \* failed publications before an event is given up
  Results,               \* final statuses the pipeline may return
  ReclaimCount,          \* messages one XAUTOCLAIM returns at most
  MaxPublisherFaults,    \* bound: crashes and raised calls of publishers
  MaxWorkerFaults,       \* bound: crashes and raised calls of workers
  MaxRedisLosses,        \* bound: restarts of Redis, which lose its data
  NoItem                 \* no event in hand

ASSUME DeliveryAssumption ==
  /\ IsFiniteSet(Items)
  /\ BatchOf \in [Items -> Batches]
  /\ \A b \in Batches : \E i \in Items : BatchOf[i] = b
  /\ MaxPending \in Nat
  /\ MaxPublishAttempts \in Nat \ {0}
  /\ Results \subseteq {"DONE", "HUMAN_REVIEW", "FAILED_FINAL"}
  /\ ReclaimCount \in Nat \ {0}
  /\ MaxPublisherFaults \in Nat
  /\ MaxWorkerFaults \in Nat
  /\ MaxRedisLosses \in Nat
  /\ NoItem \notin Items

VARIABLES
  \* PostgreSQL: committed rows
  item,       \* batch_items.status
  batch,      \* batch_jobs.status
  outbox,     \* outbox_events.status of the item's event
  tries,      \* outbox_events.attempts
  dead,       \* number of batch_dead_letters rows of the item
  \* Redis: the stream and its consumer group
  stream,     \* every entry ever added, as the item it names
  read,       \* last delivered entry
  pel,        \* delivered and not acknowledged entries
  \* publisher processes
  pubpc, todo, event,
  \* worker processes
  wpc, inbox, reclaimed, msg, seen, txn,
  \* history and bounds
  lost,       \* items an entry of which was lost with Redis's data
  stolen,     \* items declared interrupted while a live worker was running them
  pfaults, wfaults, losses

database   == <<item, batch, outbox, tries, dead>>
redis      == <<stream, read, pel>>
publishers == <<pubpc, todo, event>>
workers    == <<wpc, inbox, reclaimed, msg, seen, txn>>
history    == <<lost, stolen, pfaults, wfaults, losses>>
vars       == <<database, redis, publishers, workers, history>>

-----------------------------------------------------------------------------
(* Statuses.                                                               *)

Claimable == {"PENDING", "INTERRUPTED"}
Unfinished == Claimable \cup {"RUNNING"}
Terminal == {"DONE", "HUMAN_REVIEW", "FAILED_FINAL"}
ItemStatus == {"ABSENT"} \cup Unfinished \cup Terminal

BatchFinal == {"COMPLETED", "PARTIAL", "FAILED"}
BatchStatus == {"ABSENT", "QUEUED", "RUNNING"} \cup BatchFinal

ItemsOf(b) == {i \in Items : BatchOf[i] = b}

(* The verdict of a batch whose items have the statuses st, all terminal.  *)
Verdict(st, b) ==
  IF \E i \in ItemsOf(b) : st[i] = "FAILED_FINAL" THEN "FAILED"
  ELSE IF \E i \in ItemsOf(b) : st[i] = "HUMAN_REVIEW" THEN "PARTIAL"
  ELSE "COMPLETED"

(* Faulty variant: a batch with files left to human review never ends.     *)
RollupWithoutReview(st, b) ==
  IF \A i \in ItemsOf(b) : st[i] \in {"DONE", "FAILED_FINAL"} THEN Verdict(st, b) ELSE "KEEP"

(* Faulty variant: only running items keep a batch open.                   *)
RollupNoneRunning(st, b) ==
  IF \A i \in ItemsOf(b) : st[i] # "RUNNING" THEN Verdict(st, b) ELSE "KEEP"

(* What the finalisation writes to the batch row: a verdict when every     *)
(* item is terminal, nothing otherwise.                                    *)
Rollup(st, b) ==
  IF \A i \in ItemsOf(b) : st[i] \in Terminal THEN Verdict(st, b) ELSE "KEEP"

(* The status the control plane reports, recomputed from the items.        *)
ReportedStatus(b) ==
  IF \A i \in ItemsOf(b) : item[i] \in Terminal THEN Verdict(item, b)
  ELSE IF \E i \in ItemsOf(b) : item[i] \in {"RUNNING", "INTERRUPTED"} THEN "RUNNING"
  ELSE "QUEUED"

Entries == DOMAIN stream
Unread == {m \in Entries : m > read}

(* No transaction: the value of txn outside a finalisation.                *)
NoTxn == [target |-> "NONE", rollup |-> "KEEP"]
Txns == [target : Terminal \cup {"NONE"}, rollup : BatchFinal \cup {"KEEP"}]

ItemAt(w) == stream[msg[w]]

(* An uncommitted finalisation holds the lock of the item's row: the other *)
(* writers of the row wait for its outcome, readers see the row before it. *)
Locked(i) == \E w \in Workers : wpc[w] = "commit" /\ ItemAt(w) = i

(* The worker claimed the item it handles and has not let go of it.        *)
Owns(w, i) == wpc[w] \in {"exec", "commit", "interrupt"} /\ ItemAt(w) = i

PubFault == pfaults < MaxPublisherFaults /\ pfaults' = pfaults + 1
WorkFault == wfaults < MaxWorkerFaults /\ wfaults' = wfaults + 1

-----------------------------------------------------------------------------
Init ==
  /\ item = [i \in Items |-> "ABSENT"]
  /\ batch = [b \in Batches |-> "ABSENT"]
  /\ outbox = [i \in Items |-> "ABSENT"]
  /\ tries = [i \in Items |-> 0]
  /\ dead = [i \in Items |-> 0]
  /\ stream = <<>>
  /\ read = 0
  /\ pel = {}
  /\ pubpc = [p \in Publishers |-> "loop"]
  /\ todo = [p \in Publishers |-> {}]
  /\ event = [p \in Publishers |-> NoItem]
  /\ wpc = [w \in Workers |-> "idle"]
  /\ inbox = [w \in Workers |-> {}]
  /\ reclaimed = [w \in Workers |-> FALSE]
  /\ msg = [w \in Workers |-> 0]
  /\ seen = [w \in Workers |-> "ABSENT"]
  /\ txn = [w \in Workers |-> NoTxn]
  /\ lost = {}
  /\ stolen = {}
  /\ pfaults = 0
  /\ wfaults = 0
  /\ losses = 0

(***************************************************************************)
(* Control plane: batch, items and outbox events in one transaction, under *)
(* the capacity lock.                                                      *)
(***************************************************************************)
CreateBatch(b) ==
  /\ batch[b] = "ABSENT"
  /\ Cardinality({i \in Items : item[i] \in Unfinished})
       + Cardinality(ItemsOf(b)) <= MaxPending
  /\ batch' = [batch EXCEPT ![b] = "QUEUED"]
  /\ item' = [i \in Items |-> IF BatchOf[i] = b THEN "PENDING" ELSE item[i]]
  /\ outbox' = [i \in Items |-> IF BatchOf[i] = b THEN "PENDING" ELSE outbox[i]]
  /\ UNCHANGED <<tries, dead, redis, publishers, workers, history>>

(***************************************************************************)
(* Publisher: publish_once loads the due events, then sends each of them   *)
(* and records the outcome.  An event whose retry delay runs is not due.   *)
(***************************************************************************)
LoadEvents(p) ==
  /\ pubpc[p] = "loop" /\ todo[p] = {}
  /\ \E due \in (SUBSET {i \in Items : outbox[i] = "PENDING"}) \ {{}} :
       todo' = [todo EXCEPT ![p] = due]
  /\ UNCHANGED <<database, redis, pubpc, event, workers, history>>

TakeEvent(p, i) ==
  /\ pubpc[p] = "loop" /\ i \in todo[p]
  /\ todo' = [todo EXCEPT ![p] = @ \ {i}]
  /\ event' = [event EXCEPT ![p] = i]

(* XADD answers: the entry is in the stream.                               *)
Send(p, i) ==
  /\ TakeEvent(p, i)
  /\ stream' = Append(stream, i)
  /\ pubpc' = [pubpc EXCEPT ![p] = "mark"]
  /\ UNCHANGED <<database, read, pel, workers, history>>

(* XADD raises, before or after Redis added the entry.                     *)
SendRaises(p, i) ==
  /\ PubFault
  /\ TakeEvent(p, i)
  /\ stream' \in {stream, Append(stream, i)}
  /\ pubpc' = [pubpc EXCEPT ![p] = "fail"]
  /\ UNCHANGED <<database, read, pel, workers, lost, stolen, wfaults, losses>>

(* mark_outbox_published: conditional on the event being PENDING.          *)
MarkPublished(p) ==
  /\ pubpc[p] = "mark"
  /\ IF outbox[event[p]] = "PENDING"
       THEN /\ outbox' = [outbox EXCEPT ![event[p]] = "PUBLISHED"]
            /\ pubpc' = [pubpc EXCEPT ![p] = "loop"]
            /\ event' = [event EXCEPT ![p] = NoItem]
       ELSE /\ pubpc' = [pubpc EXCEPT ![p] = "fail"]
            /\ UNCHANGED <<outbox, event>>
  /\ UNCHANGED <<item, batch, tries, dead, redis, todo, workers, history>>

(* Faulty variant: the exception handler no longer knows the event.        *)
MarkPublishedForgets(p) ==
  /\ pubpc[p] = "mark"
  /\ PubFault
  /\ pubpc' = [pubpc EXCEPT ![p] = "fail"]
  /\ event' = [event EXCEPT ![p] = NoItem]
  /\ UNCHANGED <<database, redis, todo, workers, lost, stolen, wfaults, losses>>

(* The call raises although the row may have been committed.               *)
MarkPublishedRaises(p) ==
  /\ pubpc[p] = "mark"
  /\ PubFault
  /\ \/ UNCHANGED outbox
     \/ /\ outbox[event[p]] = "PENDING"
        /\ outbox' = [outbox EXCEPT ![event[p]] = "PUBLISHED"]
  /\ pubpc' = [pubpc EXCEPT ![p] = "fail"]
  /\ UNCHANGED <<item, batch, tries, dead, redis, todo, event, workers, lost, stolen, wfaults, losses>>

(* mark_outbox_failed, in the handler of the exception: the attempt is     *)
(* counted and the last one gives the event up; on an event that is no     *)
(* longer PENDING the StateConflictError ends the process.                 *)
MarkFailed(p) ==
  /\ pubpc[p] = "fail"
  /\ IF outbox[event[p]] = "PENDING"
       THEN /\ tries' = [tries EXCEPT ![event[p]] = @ + 1]
            /\ outbox' = [outbox EXCEPT ![event[p]] =
                 IF tries[event[p]] + 1 >= MaxPublishAttempts THEN "FAILED" ELSE "PENDING"]
            /\ pubpc' = [pubpc EXCEPT ![p] = "loop"]
            /\ UNCHANGED todo
       ELSE /\ pubpc' = [pubpc EXCEPT ![p] = "down"]
            /\ todo' = [todo EXCEPT ![p] = {}]
            /\ UNCHANGED <<tries, outbox>>
  /\ event' = [event EXCEPT ![p] = NoItem]
  /\ UNCHANGED <<item, batch, dead, redis, workers, history>>

(* The publisher dies between two steps.                                   *)
PublisherCrash(p) ==
  /\ pubpc[p] # "down"
  /\ PubFault
  /\ pubpc' = [pubpc EXCEPT ![p] = "down"]
  /\ todo' = [todo EXCEPT ![p] = {}]
  /\ event' = [event EXCEPT ![p] = NoItem]
  /\ UNCHANGED <<database, redis, workers, lost, stolen, wfaults, losses>>

PublisherRestart(p) ==
  /\ pubpc[p] = "down"
  /\ pubpc' = [pubpc EXCEPT ![p] = "loop"]
  /\ UNCHANGED <<database, redis, todo, event, workers, history>>

(***************************************************************************)
(* Worker: run_forever alternates a reclaim and a read of one message.     *)
(***************************************************************************)

(* run_once: the next entry of the stream, for this consumer.              *)
Read(w) ==
  /\ wpc[w] = "idle"
  /\ read < Len(stream)
  /\ read' = read + 1
  /\ pel' = pel \cup {read + 1}
  /\ inbox' = [inbox EXCEPT ![w] = {read + 1}]
  /\ reclaimed' = [reclaimed EXCEPT ![w] = FALSE]
  /\ wpc' = [wpc EXCEPT ![w] = "next"]
  /\ UNCHANGED <<database, stream, publishers, msg, seen, txn, history>>

(* reclaim_once: XAUTOCLAIM takes over the entries idle for long enough:   *)
(* those of dead workers, and those of an execution that outlives the idle *)
(* time (300 s, while a file may run for 900 s).                           *)
Reclaim(w, taken) ==
  /\ wpc[w] = "idle"
  /\ taken # {} /\ taken \subseteq pel
  /\ Cardinality(taken) <= ReclaimCount
  /\ inbox' = [inbox EXCEPT ![w] = taken]
  /\ reclaimed' = [reclaimed EXCEPT ![w] = TRUE]
  /\ wpc' = [wpc EXCEPT ![w] = "next"]
  /\ UNCHANGED <<database, redis, publishers, msg, seen, txn, history>>

(* Faulty variant: a reclaimed message is handled like a new one.          *)
TakeAsNew(w) ==
  /\ wpc[w] = "next"
  /\ \E m \in inbox[w] :
       /\ \A n \in inbox[w] : m <= n
       /\ msg' = [msg EXCEPT ![w] = m]
       /\ inbox' = [inbox EXCEPT ![w] = @ \ {m}]
       /\ wpc' = [wpc EXCEPT ![w] = "look"]
  /\ UNCHANGED <<database, redis, publishers, reclaimed, seen, txn, history>>

(* The loop over the messages received, in the order of their ids.  For a  *)
(* reclaimed message the item's status is read first.                      *)
Take(w) ==
  /\ wpc[w] = "next"
  /\ \E m \in inbox[w] :
       /\ \A n \in inbox[w] : m <= n
       /\ msg' = [msg EXCEPT ![w] = m]
       /\ inbox' = [inbox EXCEPT ![w] = @ \ {m}]
       /\ wpc' = [wpc EXCEPT ![w] =
            IF reclaimed[w] /\ item[stream[m]] = "RUNNING" THEN "expire" ELSE "look"]
  /\ UNCHANGED <<database, redis, publishers, reclaimed, seen, txn, history>>

(* The message is dealt with: on to the next one, or to the next poll.     *)
NextMessage(w) ==
  /\ wpc' = [wpc EXCEPT ![w] = IF inbox[w] = {} THEN "idle" ELSE "next"]
  /\ msg' = [msg EXCEPT ![w] = 0]
  /\ seen' = [seen EXCEPT ![w] = "ABSENT"]

(* Faulty variant: any status is overwritten.                              *)
SetInterruptedAlways(i) ==
  item' = [item EXCEPT ![i] = "INTERRUPTED"]

(* set_file_status(INTERRUPTED), legal only for a RUNNING item.            *)
SetInterrupted(i) ==
  /\ item[i] = "RUNNING"
  /\ item' = [item EXCEPT ![i] = "INTERRUPTED"]

(* The previous owner is presumed dead: WORKER_LEASE_EXPIRED.  When the    *)
(* status write is refused or raises, the message is skipped.  (stolen     *)
(* records the cases where the owner is alive.)                            *)
Expire(w) ==
  /\ wpc[w] = "expire"
  /\ ~Locked(ItemAt(w))
  /\ \/ /\ SetInterrupted(ItemAt(w))
        /\ wpc' = [wpc EXCEPT ![w] = "look"]
        /\ stolen' = stolen \cup {i \in {ItemAt(w)} : \E v \in Workers : Owns(v, i)}
        /\ UNCHANGED <<msg, seen, wfaults>>
     \/ /\ item[ItemAt(w)] # "RUNNING"
        /\ NextMessage(w)
        /\ UNCHANGED <<item, stolen, wfaults>>
     \/ /\ WorkFault
        /\ NextMessage(w)
        /\ UNCHANGED <<item, stolen>>
  /\ UNCHANGED <<batch, outbox, tries, dead, redis, publishers,
                 inbox, reclaimed, txn, lost, pfaults, losses>>

(* Faulty variant: the message of a running item passes for a duplicate.   *)
LookAcksRunning(w) ==
  /\ wpc[w] = "look"
  /\ IF item[ItemAt(w)] \in Claimable
       THEN /\ wpc' = [wpc EXCEPT ![w] = "claim"]
            /\ seen' = [seen EXCEPT ![w] = item[ItemAt(w)]]
       ELSE /\ wpc' = [wpc EXCEPT ![w] = "ack"]
            /\ UNCHANGED seen
  /\ UNCHANGED <<database, redis, publishers, inbox, reclaimed, msg, txn, history>>

(* Faulty variant: the message of a finished item is skipped.              *)
LookSkipsFinished(w) ==
  /\ wpc[w] = "look"
  /\ IF item[ItemAt(w)] \in Claimable
       THEN /\ wpc' = [wpc EXCEPT ![w] = "claim"]
            /\ seen' = [seen EXCEPT ![w] = item[ItemAt(w)]]
            /\ UNCHANGED msg
       ELSE NextMessage(w)
  /\ UNCHANGED <<database, redis, publishers, inbox, reclaimed, txn, history>>

(* handle_message: get_file decides.  A RUNNING item is left alone and its *)
(* message stays unacknowledged; a finished one is acknowledged.           *)
Look(w) ==
  /\ wpc[w] = "look"
  /\ \/ /\ item[ItemAt(w)] \in Claimable
        /\ wpc' = [wpc EXCEPT ![w] = "claim"]
        /\ seen' = [seen EXCEPT ![w] = item[ItemAt(w)]]
        /\ UNCHANGED msg
     \/ /\ item[ItemAt(w)] \in Terminal
        /\ wpc' = [wpc EXCEPT ![w] = "ack"]
        /\ UNCHANGED <<msg, seen>>
     \/ /\ item[ItemAt(w)] = "RUNNING"
        /\ NextMessage(w)
  /\ UNCHANGED <<database, redis, publishers, inbox, reclaimed, txn, history>>

(* Faulty variant: the claim does not compare the status it read.          *)
ClaimAlways(w) ==
  /\ wpc[w] = "claim"
  /\ ~Locked(ItemAt(w))
  /\ item' = [item EXCEPT ![ItemAt(w)] = "RUNNING"]
  /\ batch' = [batch EXCEPT ![BatchOf[ItemAt(w)]] = "RUNNING"]
  /\ wpc' = [wpc EXCEPT ![w] = "exec"]
  /\ UNCHANGED <<outbox, tries, dead, redis, publishers,
                 inbox, reclaimed, msg, seen, txn, history>>

(* claim_file: the update is conditional on the status read by Look.       *)
Claim(w) ==
  /\ wpc[w] = "claim"
  /\ ~Locked(ItemAt(w))
  /\ IF item[ItemAt(w)] = seen[w]
       THEN /\ item' = [item EXCEPT ![ItemAt(w)] = "RUNNING"]
            /\ batch' = [batch EXCEPT ![BatchOf[ItemAt(w)]] = "RUNNING"]
            /\ wpc' = [wpc EXCEPT ![w] = "exec"]
       ELSE /\ wpc' = [wpc EXCEPT ![w] = "recheck"]
            /\ UNCHANGED <<item, batch>>
  /\ UNCHANGED <<outbox, tries, dead, redis, publishers,
                 inbox, reclaimed, msg, seen, txn, history>>

(* Another consumer claimed it first: acknowledge only a finished item.    *)
Recheck(w) ==
  /\ wpc[w] = "recheck"
  /\ IF item[ItemAt(w)] \in Terminal
       THEN wpc' = [wpc EXCEPT ![w] = "ack"] /\ UNCHANGED <<msg, seen>>
       ELSE NextMessage(w)
  /\ UNCHANGED <<database, redis, publishers, inbox, reclaimed, txn, history>>

(* Faulty variant: the finalisation does not ask for a RUNNING item.       *)
ConcludeAlways(w, result) ==
  /\ wpc[w] = "exec"
  /\ ~Locked(ItemAt(w))
  /\ txn' = [txn EXCEPT ![w] =
       [target |-> result,
        rollup |-> Rollup([item EXCEPT ![ItemAt(w)] = result], BatchOf[ItemAt(w)])]]
  /\ wpc' = [wpc EXCEPT ![w] = "commit"]
  /\ UNCHANGED <<database, redis, publishers, inbox, reclaimed, msg, seen, history>>

(* The pipeline returned with status result and the finalisation starts:   *)
(* the conditional update of the item's row, then the count of the batch's *)
(* statuses, which sees the other items as last committed.  An item that   *)
(* is not RUNNING raises StateConflictError.                               *)
Conclude(w, result) ==
  /\ wpc[w] = "exec"
  /\ ~Locked(ItemAt(w))
  /\ IF item[ItemAt(w)] = "RUNNING"
       THEN /\ txn' = [txn EXCEPT ![w] =
                 [target |-> result,
                  rollup |-> Rollup([item EXCEPT ![ItemAt(w)] = result], BatchOf[ItemAt(w)])]]
            /\ wpc' = [wpc EXCEPT ![w] = "commit"]
       ELSE /\ wpc' = [wpc EXCEPT ![w] = "interrupt"]
            /\ UNCHANGED txn
  /\ UNCHANGED <<database, redis, publishers, inbox, reclaimed, msg, seen, history>>

(* The pipeline, or the finalisation's statements, raise.                  *)
ExecutionRaises(w) ==
  /\ wpc[w] = "exec"
  /\ WorkFault
  /\ wpc' = [wpc EXCEPT ![w] = "interrupt"]
  /\ UNCHANGED <<database, redis, publishers,
                 inbox, reclaimed, msg, seen, txn, lost, stolen, pfaults, losses>>

(* The writes of the finalisation: item, dead letter and batch verdict.    *)
WriteFinal(w) ==
  /\ item' = [item EXCEPT ![ItemAt(w)] = txn[w].target]
  /\ dead' = [dead EXCEPT ![ItemAt(w)] =
       IF txn[w].target = "FAILED_FINAL" THEN @ + 1 ELSE @]
  /\ batch' = [batch EXCEPT ![BatchOf[ItemAt(w)]] =
       IF txn[w].rollup = "KEEP" THEN @ ELSE txn[w].rollup]
  /\ UNCHANGED <<outbox, tries>>

Commit(w) ==
  /\ wpc[w] = "commit"
  /\ WriteFinal(w)
  /\ txn' = [txn EXCEPT ![w] = NoTxn]
  /\ wpc' = [wpc EXCEPT ![w] = "ack"]
  /\ UNCHANGED <<redis, publishers, inbox, reclaimed, msg, seen, history>>

(* COMMIT raises: the transaction was rolled back, or it was applied and   *)
(* only its answer was lost.                                               *)
CommitRaises(w) ==
  /\ wpc[w] = "commit"
  /\ WorkFault
  /\ WriteFinal(w) \/ UNCHANGED database
  /\ txn' = [txn EXCEPT ![w] = NoTxn]
  /\ wpc' = [wpc EXCEPT ![w] = "interrupt"]
  /\ UNCHANGED <<redis, publishers, inbox, reclaimed, msg, seen, lost, stolen, pfaults, losses>>

(* Faulty variant: the acknowledgement sits in a finally clause.           *)
InterruptAndAck(w) ==
  /\ wpc[w] = "interrupt"
  /\ ~Locked(ItemAt(w))
  /\ SetInterrupted(ItemAt(w)) \/ (item[ItemAt(w)] # "RUNNING" /\ UNCHANGED item)
  /\ pel' = pel \ {msg[w]}
  /\ NextMessage(w)
  /\ UNCHANGED <<batch, outbox, tries, dead, stream, read, publishers,
                 inbox, reclaimed, txn, history>>

(* The handler of an exception marks the item INTERRUPTED if it may, and   *)
(* leaves the message unacknowledged.                                      *)
Interrupt(w) ==
  /\ wpc[w] = "interrupt"
  /\ ~Locked(ItemAt(w))
  /\ \/ SetInterrupted(ItemAt(w)) /\ UNCHANGED wfaults
     \/ item[ItemAt(w)] # "RUNNING" /\ UNCHANGED <<item, wfaults>>
     \/ WorkFault /\ UNCHANGED item
  /\ NextMessage(w)
  /\ UNCHANGED <<batch, outbox, tries, dead, redis, publishers,
                 inbox, reclaimed, txn, lost, stolen, pfaults, losses>>

(* XACK                                                                    *)
Ack(w) ==
  /\ wpc[w] = "ack"
  /\ pel' = pel \ {msg[w]}
  /\ NextMessage(w)
  /\ UNCHANGED <<database, stream, read, publishers, inbox, reclaimed, txn, history>>

(* The worker dies and is started again; an open transaction rolls back.   *)
WorkerCrash(w) ==
  /\ wpc[w] # "idle"
  /\ WorkFault
  /\ wpc' = [wpc EXCEPT ![w] = "idle"]
  /\ inbox' = [inbox EXCEPT ![w] = {}]
  /\ msg' = [msg EXCEPT ![w] = 0]
  /\ seen' = [seen EXCEPT ![w] = "ABSENT"]
  /\ txn' = [txn EXCEPT ![w] = NoTxn]
  /\ UNCHANGED <<database, redis, publishers, reclaimed, lost, stolen, pfaults, losses>>

(***************************************************************************)
(* Redis restarts without persistence: stream and group are gone.  Entry   *)
(* ids are timestamps, so old ids are never given out again.               *)
(***************************************************************************)
RedisLoss ==
  /\ losses < MaxRedisLosses
  /\ losses' = losses + 1
  /\ lost' = lost \cup {stream[m] : m \in Unread \cup pel}
  /\ read' = Len(stream)
  /\ pel' = {}
  /\ UNCHANGED <<database, stream, publishers, workers, stolen, pfaults, wfaults>>

-----------------------------------------------------------------------------
PublisherStep(p) ==
  \/ LoadEvents(p)
  \/ \E i \in Items : Send(p, i)
  \/ MarkPublished(p)
  \/ MarkFailed(p)
  \/ PublisherRestart(p)

PublisherFault(p) ==
  \/ \E i \in Items : SendRaises(p, i)
  \/ MarkPublishedRaises(p)
  \/ PublisherCrash(p)

HandlerStep(w) ==
  \/ Take(w) \/ Expire(w) \/ Look(w) \/ Claim(w) \/ Recheck(w)
  \/ \E result \in Results : Conclude(w, result)
  \/ Commit(w) \/ Interrupt(w) \/ Ack(w)

WorkerStep(w) ==
  \/ Read(w)
  \/ \E taken \in SUBSET pel : Reclaim(w, taken)
  \/ HandlerStep(w)

WorkerFault(w) ==
  \/ ExecutionRaises(w)
  \/ CommitRaises(w)
  \/ WorkerCrash(w)

Next ==
  \/ \E b \in Batches : CreateBatch(b)
  \/ \E p \in Publishers : PublisherStep(p) \/ PublisherFault(p)
  \/ \E w \in Workers : WorkerStep(w) \/ WorkerFault(w)
  \/ RedisLoss

Spec == Init /\ [][Next]_vars

-----------------------------------------------------------------------------
(***************************************************************************)
(* Properties.                                                             *)
(***************************************************************************)

DatabaseOK ==
  /\ item \in [Items -> ItemStatus]
  /\ batch \in [Batches -> BatchStatus]
  /\ outbox \in [Items -> {"ABSENT", "PENDING", "PUBLISHED", "FAILED"}]
  /\ tries \in [Items -> Nat]
  /\ dead \in [Items -> Nat]

RedisOK ==
  /\ stream \in Seq(Items)
  /\ read \in 0..Len(stream)
  /\ pel \subseteq 1..read

PublishersOK ==
  /\ pubpc \in [Publishers -> {"loop", "mark", "fail", "down"}]
  /\ todo \in [Publishers -> SUBSET Items]
  /\ event \in [Publishers -> Items \cup {NoItem}]
  /\ \A p \in Publishers : pubpc[p] \in {"mark", "fail"} => event[p] \in Items

WorkersOK ==
  /\ wpc \in [Workers -> {"idle", "next", "expire", "look", "claim", "recheck",
                          "exec", "commit", "interrupt", "ack"}]
  /\ inbox \in [Workers -> SUBSET (1..read)]
  /\ reclaimed \in [Workers -> BOOLEAN]
  /\ msg \in [Workers -> 0..read]
  /\ \A w \in Workers : wpc[w] \notin {"idle", "next"} => msg[w] # 0
  /\ seen \in [Workers -> {"ABSENT"} \cup Claimable]
  /\ txn \in [Workers -> Txns]
  /\ \A w \in Workers : wpc[w] = "commit" => txn[w].target \in Terminal

HistoryOK ==
  /\ lost \subseteq Items /\ stolen \subseteq Items
  /\ pfaults \in Nat /\ wfaults \in Nat /\ losses \in Nat

(* Every variable has its type; in particular a worker that handles a      *)
(* message has one, an open finalisation has a final status to write, and  *)
(* a publisher that records an outcome still knows its event.              *)
TypeOK == DatabaseOK /\ RedisOK /\ PublishersOK /\ WorkersOK /\ HistoryOK

(* A message that may still bring the item to a worker.                    *)
Live(m) == m \in Unread \cup pel

(* The item is on its way: queued in Redis, or lost with Redis's data.     *)
Carried(i) == i \in lost \/ \E m \in Entries : Live(m) /\ stream[m] = i

(* No accepted file falls through the cracks between PostgreSQL and Redis: *)
(* while its item is not finished, its outbox event is still to be sent    *)
(* (or was given up after the last attempt), or a message for it is unread *)
(* or unacknowledged, or Redis lost its data while it carried one.  This   *)
(* is the point of writing the event in the batch's transaction, of        *)
(* marking it published only after XADD and of acknowledging only after    *)
(* the final status is committed.                                          *)
NoItemForgotten ==
  \A i \in Items : item[i] \in Unfinished =>
    outbox[i] \in {"PENDING", "FAILED"} \/ Carried(i)

(* Exactly the items that ended FAILED_FINAL have a dead letter, and one   *)
(* only, however often the item was delivered and executed.                *)
DeadLetterExact ==
  \A i \in Items : dead[i] = IF item[i] = "FAILED_FINAL" THEN 1 ELSE 0

(* A verdict stored in the batch row is never premature and agrees with    *)
(* the one the control plane recomputes from the items.                    *)
VerdictSound ==
  \A b \in Batches : batch[b] \in BatchFinal => ReportedStatus(b) = batch[b]

(* With one worker, the transaction that finishes the last item also       *)
(* stores the verdict: a batch reported as finished is finished in its     *)
(* row, for the idempotent replay of its creation to return.               *)
VerdictComplete ==
  \A b \in Batches : batch[b] # "ABSENT" /\ ReportedStatus(b) \in BatchFinal
                       => batch[b] = ReportedStatus(b)

(***************************************************************************)
(* The inductive invariant behind the properties above, part by part.      *)
(***************************************************************************)

(* Rows, events and messages exist only for the items of a created batch.  *)
CreatedTogether ==
  /\ \A i \in Items : item[i] = "ABSENT" <=> batch[BatchOf[i]] = "ABSENT"
  /\ \A i \in Items : item[i] = "ABSENT" <=> outbox[i] = "ABSENT"
  /\ \A p \in Publishers : \A i \in todo[p] : item[i] # "ABSENT"
  /\ \A p \in Publishers : pubpc[p] = "mark" => item[event[p]] # "ABSENT"
  /\ \A m \in Entries : item[stream[m]] # "ABSENT"

(* An event about to be marked published has its message in the stream.    *)
SentBeforeMarked ==
  \A p \in Publishers :
    pubpc[p] = "mark" /\ item[event[p]] \in Unfinished => Carried(event[p])

(* A worker about to acknowledge has a finished item in hand.              *)
FinishedBeforeAck ==
  \A w \in Workers : wpc[w] = "ack" => item[ItemAt(w)] \in Terminal

(* An open finalisation holds its row: the row stays RUNNING until the     *)
(* commit, no second one is open on it, and the verdict it will write is   *)
(* the verdict of statuses that can no longer change.                      *)
LockedRowIsStable ==
  \A w \in Workers : wpc[w] = "commit" =>
    /\ item[ItemAt(w)] = "RUNNING"
    /\ \A v \in Workers : wpc[v] = "commit" /\ ItemAt(v) = ItemAt(w) => v = w
    /\ txn[w].rollup # "KEEP" =>
         txn[w].rollup = Rollup([item EXCEPT ![ItemAt(w)] = txn[w].target], BatchOf[ItemAt(w)])

(* Unless its lease expired under it, the owner of an item is the only one *)
(* and the item cannot be claimed: it is RUNNING, or finished when only    *)
(* the answer of the owner's commit was lost.                              *)
OwnerIsAlone ==
  \A w \in Workers, i \in Items :
    Owns(w, i) /\ i \notin stolen =>
      /\ item[i] = "RUNNING" \/ (wpc[w] = "interrupt" /\ item[i] \in Terminal)
      /\ \A v \in Workers : Owns(v, i) => v = w

IInv ==
  /\ TypeOK
  /\ CreatedTogether
  /\ SentBeforeMarked
  /\ FinishedBeforeAck
  /\ LockedRowIsStable
  /\ OwnerIsAlone
  /\ NoItemForgotten
  /\ DeadLetterExact
  /\ VerdictSound

(* With one worker no other finalisation runs meanwhile: what an open one  *)
(* decided about the batch, the decision to leave it open included, is     *)
(* still right when it commits.                                            *)
OneWorker == \A v, w \in Workers : v = w

RollupIsCurrent ==
  \A w \in Workers : wpc[w] = "commit" =>
    txn[w].rollup = Rollup([item EXCEPT ![ItemAt(w)] = txn[w].target], BatchOf[ItemAt(w)])

SingleInv == IInv /\ RollupIsCurrent /\ VerdictComplete

(* A worker owns what it runs, through duplicate messages, lost claims,    *)
(* crashes and takeovers of dead workers: the item stays RUNNING and no    *)
(* other worker runs it.  The one way to a double execution is a lease     *)
(* that expires (claim_idle_ms, 300 s) under an owner that is still alive, *)
(* as a file may run for run_deadline_seconds (900 s).                     *)
OwnsWhatItRuns ==
  \A w \in Workers :
    wpc[w] \in {"exec", "commit"} /\ ItemAt(w) \notin stolen
    => /\ item[ItemAt(w)] = "RUNNING"
       /\ \A v \in Workers : Owns(v, ItemAt(w)) => v = w

(* A message leaves the group's pending list only when its item is         *)
(* finished (or Redis loses everything): business state is committed       *)
(* before the acknowledgement, on every path that acknowledges.            *)
AckOnlyFinished ==
  [][\A m \in pel \ pel' : losses' # losses \/ item[stream[m]] \in Terminal]_vars

(* A final status, its dead letter and a batch's verdict are written once: *)
(* no late, duplicated or reclaimed execution replaces them.               *)
FinalIsForever ==
  [][/\ \A i \in Items : item[i] \in Terminal =>
          item'[i] = item[i] /\ dead'[i] = dead[i]
     /\ \A b \in Batches : batch[b] \in BatchFinal => batch'[b] = batch[b]]_vars

(* With one worker the delivery keeps the promise of BatchPromise: every   *)
(* step accepts a batch, resolves one item with its dead letter and the    *)
(* verdict of its batch, or changes nothing the caller was promised.       *)
Promise == INSTANCE BatchPromise WITH
  outcome <- [i \in Items |-> IF item[i] \in Unfinished THEN "OPEN" ELSE item[i]],
  verdict <- [b \in Batches |-> IF batch[b] \in {"QUEUED", "RUNNING"} THEN "OPEN" ELSE batch[b]],
  letters <- dead

KeepsPromise == Promise!PromiseSpec

-----------------------------------------------------------------------------
(***************************************************************************)
(* Liveness.  The processes loop for ever and are restarted when they die; *)
(* the worker's loop alternates a reclaim and a read, so that neither      *)
(* starves, and every unacknowledged message ages into the reach of        *)
(* XAUTOCLAIM.  ids are the message ids a behaviour can use.               *)
(***************************************************************************)
Fairness(ids) ==
  /\ \A p \in Publishers : WF_vars(PublisherStep(p))
  /\ \A w \in Workers :
       /\ WF_vars(HandlerStep(w))
       /\ SF_vars(Read(w))
       /\ \A m \in ids : SF_vars(\E taken \in SUBSET pel : m \in taken /\ Reclaim(w, taken))

(* Every accepted file is finished in the end, unless its event was given  *)
(* up or Redis lost its message.                                           *)
EveryFileFinishes ==
  \A i \in Items : item[i] = "PENDING" ~>
    item[i] \in Terminal \/ outbox[i] = "FAILED" \/ i \in lost

(* The unacknowledged messages, duplicates included, are all acknowledged  *)
(* in the end: a finished item leaves nothing behind in the group.         *)
QueueDrains == <>[](pel = {})

(* The blueprint's completion criterion of the asynchronous batch: the     *)
(* number of files in a final status becomes the number of files.          *)
AllFilesBecomeFinal ==
  \A i \in Items : item[i] = "PENDING" ~> item[i] \in Terminal
=============================================================================
