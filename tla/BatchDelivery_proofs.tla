------------------------ MODULE BatchDelivery_proofs ------------------------
(***************************************************************************)
(* Theorems about BatchDelivery, for any finite set of items, any number   *)
(* of batches, workers and publishers and every value of the bounds.       *)
(***************************************************************************)
EXTENDS BatchDelivery, TLAPS

(* A part of the type invariant whose variables do not change is kept.     *)
LEMMA Kept ==
  ASSUME TypeOK
  PROVE  /\ UNCHANGED database => DatabaseOK'
         /\ UNCHANGED redis => RedisOK'
         /\ UNCHANGED publishers => PublishersOK'
         /\ UNCHANGED <<workers, read>> => WorkersOK'
         /\ UNCHANGED history => HistoryOK'
<1> USE DEF TypeOK
<1>1. UNCHANGED database => DatabaseOK'
  BY DEF DatabaseOK, database
<1>2. UNCHANGED redis => RedisOK'
  BY DEF RedisOK, redis
<1>3. UNCHANGED publishers => PublishersOK'
  BY DEF PublishersOK, publishers
<1>4. UNCHANGED <<workers, read>> => WorkersOK'
  BY DEF WorkersOK, workers
<1>5. UNCHANGED history => HistoryOK'
  BY DEF HistoryOK, history
<1>6. QED
  BY <1>1, <1>2, <1>3, <1>4, <1>5

(* The end of a message keeps the types of the worker processes.           *)
LEMMA NextMessageTyped ==
  ASSUME WorkersOK, RedisOK, NEW w \in Workers, NextMessage(w),
         UNCHANGED <<inbox, reclaimed, txn, read>>
  PROVE  WorkersOK'
BY DEF WorkersOK, RedisOK, NextMessage

(* So does any step of a worker that moves wpc within a message without    *)
(* opening a transaction.                                                  *)
LEMMA StepTyped ==
  ASSUME WorkersOK, NEW w \in Workers, msg[w] # 0,
         NEW pc \in {"look", "claim", "recheck", "exec", "interrupt", "ack"},
         wpc' = [wpc EXCEPT ![w] = pc],
         UNCHANGED <<inbox, reclaimed, msg, read>>,
         seen' \in [Workers -> {"ABSENT"} \cup Claimable],
         txn' = txn \/ txn' = [txn EXCEPT ![w] = NoTxn]
  PROVE  WorkersOK'
<1>1. NoTxn \in Txns
  BY DEF NoTxn, Txns
<1>2. txn' \in [Workers -> Txns]
  BY <1>1 DEF WorkersOK
<1>3. \A v \in Workers : wpc'[v] = "commit" => txn'[v].target \in Terminal
  BY DEF WorkersOK
<1>4. QED
  BY <1>2, <1>3 DEF WorkersOK

(* The item a worker handles is an item, and its batch a batch.            *)
LEMMA ItemAtTyped ==
  ASSUME TypeOK, NEW w \in Workers, msg[w] # 0
  PROVE  ItemAt(w) \in Items /\ BatchOf[ItemAt(w)] \in Batches
BY DeliveryAssumption DEF TypeOK, WorkersOK, RedisOK, ItemAt

(* A live message is an entry of the stream, and names an item.            *)
LEMMA LiveTyped ==
  ASSUME TypeOK, NEW m \in Unread \cup pel
  PROVE  m \in Entries /\ stream[m] \in Items
<1>1. Entries = 1..Len(stream) /\ Len(stream) \in Nat
  BY DEF Entries, TypeOK, RedisOK
<1>2. m \in 1..Len(stream)
  BY <1>1 DEF Unread, TypeOK, RedisOK
<1>3. QED
  BY <1>1, <1>2 DEF TypeOK, RedisOK

(* The writes of a finalisation keep the types of the tables.              *)
LEMMA WriteFinalTyped ==
  ASSUME TypeOK, NEW w \in Workers, wpc[w] = "commit", WriteFinal(w)
  PROVE  DatabaseOK'
<1>1. msg[w] # 0 /\ txn[w].target \in Terminal /\ txn[w].rollup \in BatchFinal \cup {"KEEP"}
  BY DEF TypeOK, WorkersOK, Txns
<1>2. ItemAt(w) \in Items /\ BatchOf[ItemAt(w)] \in Batches
  BY <1>1, ItemAtTyped
<1>3. item' \in [Items -> ItemStatus] /\ dead' \in [Items -> Nat]
  BY <1>1, <1>2 DEF WriteFinal, TypeOK, DatabaseOK, ItemStatus
<1>4. batch' \in [Batches -> BatchStatus]
  BY <1>1, <1>2 DEF WriteFinal, TypeOK, DatabaseOK, BatchStatus
<1>5. QED
  BY <1>3, <1>4 DEF WriteFinal, TypeOK, DatabaseOK

(* Every step keeps the types.                                             *)
LEMMA TypeInductive == TypeOK /\ [Next]_vars => TypeOK'
<1> SUFFICES ASSUME TypeOK, [Next]_vars PROVE TypeOK'
  OBVIOUS
<1> USE DEF TypeOK, database, redis, publishers, workers, history
<1>1. ASSUME NEW b \in Batches, CreateBatch(b)
      PROVE TypeOK'
  <2>1. DatabaseOK'
    BY <1>1 DEF DatabaseOK, CreateBatch, ItemStatus, BatchStatus, Unfinished, Claimable
  <2> QED
    BY <1>1, <2>1, Kept DEF CreateBatch, TypeOK
<1>2. ASSUME NEW p \in Publishers, LoadEvents(p)
      PROVE TypeOK'
  <2>1. PublishersOK'
    BY <1>2 DEF PublishersOK, LoadEvents
  <2> QED
    BY <1>2, <2>1, Kept DEF LoadEvents, TypeOK
<1>3. ASSUME NEW p \in Publishers, NEW i \in Items, Send(p, i)
      PROVE TypeOK'
  <2>1. RedisOK'
    BY <1>3 DEF RedisOK, Send
  <2>2. PublishersOK'
    BY <1>3 DEF PublishersOK, Send, TakeEvent
  <2>3. WorkersOK'
    BY <1>3 DEF WorkersOK, Send
  <2> QED
    BY <1>3, <2>1, <2>2, <2>3, Kept DEF Send, TypeOK
<1>4. ASSUME NEW p \in Publishers, MarkPublished(p)
      PROVE TypeOK'
  <2>1. DatabaseOK'
    BY <1>4 DEF DatabaseOK, MarkPublished, PublishersOK
  <2>2. PublishersOK'
    BY <1>4 DEF PublishersOK, MarkPublished
  <2> QED
    BY <1>4, <2>1, <2>2, Kept DEF MarkPublished, TypeOK
<1>5. ASSUME NEW p \in Publishers, MarkFailed(p)
      PROVE TypeOK'
  <2>1. DatabaseOK'
    BY <1>5 DEF DatabaseOK, MarkFailed, PublishersOK
  <2>2. PublishersOK'
    BY <1>5 DEF PublishersOK, MarkFailed
  <2> QED
    BY <1>5, <2>1, <2>2, Kept DEF MarkFailed, TypeOK
<1>6. ASSUME NEW p \in Publishers, PublisherRestart(p)
      PROVE TypeOK'
  <2>1. PublishersOK'
    BY <1>6 DEF PublishersOK, PublisherRestart
  <2> QED
    BY <1>6, <2>1, Kept DEF PublisherRestart, TypeOK
<1>7. ASSUME NEW p \in Publishers, NEW i \in Items, SendRaises(p, i)
      PROVE TypeOK'
  <2>1. RedisOK'
    BY <1>7 DEF RedisOK, SendRaises
  <2>2. PublishersOK'
    BY <1>7 DEF PublishersOK, SendRaises, TakeEvent
  <2>3. HistoryOK'
    BY <1>7 DEF HistoryOK, SendRaises, PubFault
  <2> QED
    BY <1>7, <2>1, <2>2, <2>3, Kept DEF SendRaises, TypeOK
<1>8. ASSUME NEW p \in Publishers, MarkPublishedRaises(p)
      PROVE TypeOK'
  <2>1. DatabaseOK'
    BY <1>8 DEF DatabaseOK, MarkPublishedRaises, PublishersOK
  <2>2. PublishersOK'
    BY <1>8 DEF PublishersOK, MarkPublishedRaises
  <2>3. HistoryOK'
    BY <1>8 DEF HistoryOK, MarkPublishedRaises, PubFault
  <2> QED
    BY <1>8, <2>1, <2>2, <2>3, Kept DEF MarkPublishedRaises, TypeOK
<1>9. ASSUME NEW p \in Publishers, PublisherCrash(p)
      PROVE TypeOK'
  <2>1. PublishersOK'
    BY <1>9 DEF PublishersOK, PublisherCrash
  <2>2. HistoryOK'
    BY <1>9 DEF HistoryOK, PublisherCrash, PubFault
  <2> QED
    BY <1>9, <2>1, <2>2, Kept DEF PublisherCrash, TypeOK
<1>10. ASSUME NEW w \in Workers, Read(w)
      PROVE TypeOK'
  <2>1. RedisOK'
    BY <1>10 DEF RedisOK, Read
  <2>2. WorkersOK'
    BY <1>10 DEF WorkersOK, Read, RedisOK
  <2> QED
    BY <1>10, <2>1, <2>2, Kept DEF Read, TypeOK
<1>11. ASSUME NEW w \in Workers, NEW taken \in SUBSET pel, Reclaim(w, taken)
      PROVE TypeOK'
  <2>1. WorkersOK'
    BY <1>11 DEF WorkersOK, Reclaim, RedisOK
  <2> QED
    BY <1>11, <2>1, Kept DEF Reclaim, TypeOK
<1>12. ASSUME NEW w \in Workers, Take(w)
      PROVE TypeOK'
  <2>1. WorkersOK'
    BY <1>12 DEF WorkersOK, Take, RedisOK
  <2> QED
    BY <1>12, <2>1, Kept DEF Take, TypeOK
<1>13. ASSUME NEW w \in Workers, Expire(w)
      PROVE TypeOK'
  <2>1. DatabaseOK'
    BY <1>13 DEF DatabaseOK, Expire, SetInterrupted, ItemStatus, Unfinished, Claimable
  <2>2. WorkersOK'
    BY <1>13, NextMessageTyped, StepTyped DEF Expire, WorkersOK
  <2>4. ItemAt(w) \in Items
    BY <1>13, ItemAtTyped DEF Expire, WorkersOK
  <2>3. HistoryOK'
    BY <1>13, <2>4 DEF HistoryOK, Expire, WorkFault
  <2> QED
    BY <1>13, <2>1, <2>2, <2>3, Kept DEF Expire, TypeOK
<1>14. ASSUME NEW w \in Workers, Look(w)
      PROVE TypeOK'
  <2>1. msg[w] # 0 /\ UNCHANGED <<inbox, reclaimed, txn, read>>
    BY <1>14 DEF Look, WorkersOK
  <2>2. ASSUME item[ItemAt(w)] \in Claimable /\ wpc' = [wpc EXCEPT ![w] = "claim"]
        PROVE WorkersOK'
    <3>1. seen' \in [Workers -> {"ABSENT"} \cup Claimable]
      BY <1>14, <2>2 DEF Look, WorkersOK, Claimable, Terminal
    <3>2. UNCHANGED msg
      BY <1>14, <2>2, <2>1 DEF Look, WorkersOK, Claimable, Terminal
    <3>3. QED
      BY <2>1, <2>2, <3>1, <3>2, StepTyped
  <2>3. ASSUME wpc' = [wpc EXCEPT ![w] = "ack"] /\ UNCHANGED <<msg, seen>>
        PROVE WorkersOK'
    BY <2>1, <2>3, StepTyped DEF WorkersOK
  <2>4. ASSUME NextMessage(w)
        PROVE WorkersOK'
    BY <2>1, <2>4, NextMessageTyped
  <2>5. WorkersOK'
    BY <1>14, <2>2, <2>3, <2>4 DEF Look
  <2> QED
    BY <1>14, <2>5, Kept DEF Look, TypeOK
<1>15. ASSUME NEW w \in Workers, Claim(w)
      PROVE TypeOK'
  <2>1. DatabaseOK'
    BY <1>15 DEF DatabaseOK, Claim, ItemStatus, BatchStatus, Unfinished, Claimable
  <2>2. WorkersOK'
    BY <1>15 DEF WorkersOK, Claim
  <2> QED
    BY <1>15, <2>1, <2>2, Kept DEF Claim, TypeOK
<1>16. ASSUME NEW w \in Workers, Recheck(w)
      PROVE TypeOK'
  <2>1. WorkersOK'
    BY <1>16, NextMessageTyped, StepTyped DEF Recheck, WorkersOK
  <2> QED
    BY <1>16, <2>1, Kept DEF Recheck, TypeOK
<1>17. ASSUME NEW w \in Workers, NEW result \in Results, Conclude(w, result)
      PROVE TypeOK'
  <2>1. msg[w] # 0 /\ UNCHANGED <<inbox, reclaimed, msg, seen, read>>
    BY <1>17 DEF Conclude, WorkersOK
  <2>2. ASSUME wpc' = [wpc EXCEPT ![w] = "interrupt"] /\ UNCHANGED txn
        PROVE WorkersOK'
    BY <2>1, <2>2, StepTyped DEF WorkersOK
  <2>3. ASSUME item[ItemAt(w)] = "RUNNING"
        PROVE WorkersOK'
    <3> DEFINE t == [target |-> result,
                     rollup |-> Rollup([item EXCEPT ![ItemAt(w)] = result], BatchOf[ItemAt(w)])]
    <3>1. t \in Txns
      BY DeliveryAssumption DEF Terminal, Txns, Rollup, Verdict, BatchFinal
    <3>2. txn' = [txn EXCEPT ![w] = t] /\ wpc' = [wpc EXCEPT ![w] = "commit"]
      BY <1>17, <2>3 DEF Conclude
    <3> HIDE DEF t
    <3>3. txn' \in [Workers -> Txns]
      BY <3>1, <3>2 DEF WorkersOK
    <3>4. t.target \in Terminal
      BY DeliveryAssumption DEF t, Terminal
    <3>5. \A v \in Workers : wpc'[v] = "commit" => txn'[v].target \in Terminal
      BY <3>2, <3>4 DEF WorkersOK
    <3>6. QED
      BY <2>1, <3>2, <3>3, <3>5 DEF WorkersOK
  <2>4. WorkersOK'
    BY <1>17, <2>2, <2>3 DEF Conclude
  <2> QED
    BY <1>17, <2>4, Kept DEF Conclude, TypeOK
<1>18. ASSUME NEW w \in Workers, ExecutionRaises(w)
      PROVE TypeOK'
  <2>1. WorkersOK'
    BY <1>18 DEF WorkersOK, ExecutionRaises
  <2>2. HistoryOK'
    BY <1>18 DEF HistoryOK, ExecutionRaises, WorkFault
  <2> QED
    BY <1>18, <2>1, <2>2, Kept DEF ExecutionRaises, TypeOK
<1>19. ASSUME NEW w \in Workers, Commit(w)
      PROVE TypeOK'
  <2>1. DatabaseOK'
    BY <1>19, WriteFinalTyped DEF Commit
  <2>2. WorkersOK'
    BY <1>19, StepTyped DEF Commit, WorkersOK
  <2> QED
    BY <1>19, <2>1, <2>2, Kept DEF Commit, TypeOK
<1>20. ASSUME NEW w \in Workers, CommitRaises(w)
      PROVE TypeOK'
  <2>1. DatabaseOK'
    BY <1>20, WriteFinalTyped, Kept DEF CommitRaises
  <2>2. WorkersOK'
    BY <1>20, StepTyped DEF CommitRaises, WorkersOK
  <2>3. HistoryOK'
    BY <1>20 DEF HistoryOK, CommitRaises, WorkFault
  <2> QED
    BY <1>20, <2>1, <2>2, <2>3, Kept DEF CommitRaises, TypeOK
<1>21. ASSUME NEW w \in Workers, Interrupt(w)
      PROVE TypeOK'
  <2>1. DatabaseOK'
    BY <1>21 DEF DatabaseOK, Interrupt, SetInterrupted, ItemStatus, Unfinished, Claimable
  <2>2. WorkersOK'
    BY <1>21 DEF WorkersOK, Interrupt, NextMessage, RedisOK
  <2>3. HistoryOK'
    BY <1>21 DEF HistoryOK, Interrupt, WorkFault
  <2> QED
    BY <1>21, <2>1, <2>2, <2>3, Kept DEF Interrupt, TypeOK
<1>22. ASSUME NEW w \in Workers, Ack(w)
      PROVE TypeOK'
  <2>1. RedisOK'
    BY <1>22 DEF RedisOK, Ack
  <2>2. WorkersOK'
    BY <1>22 DEF WorkersOK, Ack, NextMessage, RedisOK
  <2> QED
    BY <1>22, <2>1, <2>2, Kept DEF Ack, TypeOK
<1>23. ASSUME NEW w \in Workers, WorkerCrash(w)
      PROVE TypeOK'
  <2>1. WorkersOK'
    BY <1>23 DEF WorkersOK, WorkerCrash, NoTxn, Txns, RedisOK
  <2>2. HistoryOK'
    BY <1>23 DEF HistoryOK, WorkerCrash, WorkFault
  <2> QED
    BY <1>23, <2>1, <2>2, Kept DEF WorkerCrash, TypeOK
<1>24. CASE RedisLoss
  <2>1. RedisOK'
    BY <1>24 DEF RedisLoss, RedisOK
  <2>4. lost' \subseteq Items
    <3>1. \A m \in Unread \cup pel : stream[m] \in Items
      BY LiveTyped
    <3>2. QED
      BY <1>24, <3>1 DEF RedisLoss, HistoryOK
  <2>5. HistoryOK'
    BY <1>24, <2>4 DEF RedisLoss, HistoryOK
  <2>2. read \in Nat /\ read' \in Nat /\ read <= read'
    BY <1>24 DEF RedisLoss, RedisOK
  <2>3. WorkersOK'
    BY <1>24, <2>2 DEF RedisLoss, WorkersOK
  <2> QED
    BY <1>24, <2>1, <2>3, <2>5, Kept DEF RedisLoss
<1>25. CASE UNCHANGED vars
  BY <1>25, Kept DEF vars
<1>26. QED
  BY <1>1, <1>2, <1>3, <1>4, <1>5, <1>6, <1>7, <1>8, <1>9, <1>10, <1>11, <1>12, <1>13,
     <1>14, <1>15, <1>16, <1>17, <1>18, <1>19, <1>20, <1>21, <1>22, <1>23, <1>24, <1>25
     DEF Next, PublisherStep, PublisherFault, WorkerStep, WorkerFault, HandlerStep

(* The types hold in every reachable state, whatever the number of files,  *)
(* processes and faults.                                                   *)
THEOREM TypeCorrect == Spec => []TypeOK
<1>1. Init => TypeOK
  BY DEF Init, TypeOK, DatabaseOK, RedisOK, PublishersOK, WorkersOK, HistoryOK,
         ItemStatus, BatchStatus, NoTxn, Txns
<1>2. QED
  BY <1>1, TypeInductive, PTL DEF Spec

-----------------------------------------------------------------------------
(***************************************************************************)
(* What one step may do, from the point of view of each kind of state.     *)
(***************************************************************************)

(* The finalisation of a worker is applied, and its transaction is over.   *)
Finishes(w) == wpc[w] = "commit" /\ WriteFinal(w) /\ wpc'[w] # "commit"

(* The items, verdicts and dead letters change in four ways only.          *)
LEMMA DatabaseStep ==
  ASSUME TypeOK, [Next]_vars
  PROVE  \/ UNCHANGED <<item, batch, dead>>
         \/ \E b \in Batches : CreateBatch(b)
         \/ /\ UNCHANGED <<batch, dead>>
            /\ \E i \in Items : ~Locked(i) /\ SetInterrupted(i)
         \/ \E w \in Workers : Claim(w)
         \/ \E w \in Workers : Finishes(w)
<1>1. ASSUME NEW p \in Publishers, PublisherStep(p) \/ PublisherFault(p)
      PROVE  UNCHANGED <<item, batch, dead>>
  BY <1>1 DEF PublisherStep, PublisherFault, LoadEvents, Send, SendRaises, MarkPublished,
     MarkPublishedRaises, MarkFailed, PublisherCrash, PublisherRestart, database
<1>2. ASSUME NEW w \in Workers, Expire(w) \/ Interrupt(w)
      PROVE  \/ UNCHANGED <<item, batch, dead>>
             \/ /\ UNCHANGED <<batch, dead>>
                /\ \E i \in Items : ~Locked(i) /\ SetInterrupted(i)
  <2>1. ItemAt(w) \in Items
    BY <1>2, ItemAtTyped DEF Expire, Interrupt, TypeOK, WorkersOK
  <2>2. QED
    BY <1>2, <2>1 DEF Expire, Interrupt
<1>3. ASSUME NEW w \in Workers, Commit(w) \/ CommitRaises(w)
      PROVE  \/ UNCHANGED <<item, batch, dead>>
             \/ Finishes(w)
  BY <1>3 DEF Commit, CommitRaises, Finishes, TypeOK, WorkersOK, database
<1>4. ASSUME NEW w \in Workers,
             \/ Read(w) \/ (\E taken \in SUBSET pel : Reclaim(w, taken))
             \/ Take(w) \/ Look(w) \/ Recheck(w) \/ (\E r \in Results : Conclude(w, r))
             \/ Ack(w) \/ ExecutionRaises(w) \/ WorkerCrash(w)
      PROVE  UNCHANGED <<item, batch, dead>>
  BY <1>4 DEF Read, Reclaim, Take, Look, Recheck, Conclude, Ack, ExecutionRaises, WorkerCrash,
     database
<1>5. CASE RedisLoss \/ UNCHANGED vars
  BY <1>5 DEF RedisLoss, vars, database
<1>6. QED
  BY <1>1, <1>2, <1>3, <1>4, <1>5 DEF Next, WorkerStep, WorkerFault, HandlerStep

(* The item a worker handles has a row.                                    *)
LEMMA ItemPresent ==
  ASSUME TypeOK, CreatedTogether, NEW w \in Workers, msg[w] # 0
  PROVE  msg[w] \in Entries /\ item[ItemAt(w)] # "ABSENT"
<1>1. Entries = 1..Len(stream) /\ Len(stream) \in Nat
  BY DEF Entries, TypeOK, RedisOK
<1>2. msg[w] \in 1..Len(stream)
  BY <1>1 DEF TypeOK, RedisOK, WorkersOK
<1>3. QED
  BY <1>1, <1>2 DEF CreatedTogether, ItemAt

(* A row appears with its batch, moves between unfinished statuses when no *)
(* finalisation holds it, and ends by the finalisation that holds it.      *)
LEMMA ItemStep ==
  ASSUME TypeOK, CreatedTogether, LockedRowIsStable, [Next]_vars, NEW i \in Items
  PROVE  \/ item'[i] = item[i]
         \/ item[i] = "ABSENT" /\ item'[i] = "PENDING" /\ CreateBatch(BatchOf[i])
         \/ ~Locked(i) /\ item[i] \in Unfinished /\ item'[i] \in Unfinished
         \/ /\ item[i] = "RUNNING" /\ item'[i] \in Terminal
            /\ \E w \in Workers : Finishes(w) /\ ItemAt(w) = i
<1> USE DEF Terminal, Unfinished, Claimable
<1>1. CASE UNCHANGED <<item, batch, dead>>
  BY <1>1
<1>2. ASSUME NEW b \in Batches, CreateBatch(b)
      PROVE  \/ item'[i] = item[i]
             \/ item[i] = "ABSENT" /\ item'[i] = "PENDING" /\ b = BatchOf[i]
  BY <1>2 DEF CreateBatch, CreatedTogether, TypeOK, DatabaseOK
<1>3. ASSUME NEW j \in Items, ~Locked(j), SetInterrupted(j)
      PROVE  \/ item'[i] = item[i]
             \/ ~Locked(i) /\ item[i] = "RUNNING" /\ item'[i] = "INTERRUPTED"
  <2>1. CASE i = j
    BY <1>3, <2>1 DEF SetInterrupted, TypeOK, DatabaseOK
  <2>2. CASE i # j
    BY <1>3, <2>2 DEF SetInterrupted, TypeOK, DatabaseOK
  <2>3. QED
    BY <2>1, <2>2
<1>4. ASSUME NEW w \in Workers, Claim(w)
      PROVE  \/ item'[i] = item[i]
             \/ item[i] \in Claimable /\ item'[i] = "RUNNING" /\ ~Locked(i)
  <2>1. wpc[w] = "claim" /\ msg[w] # 0 /\ ~Locked(ItemAt(w))
    BY <1>4 DEF Claim, TypeOK, WorkersOK
  <2>5. ItemAt(w) \in Items /\ item[ItemAt(w)] # "ABSENT"
    BY <2>1, ItemPresent, ItemAtTyped
  <2>6. seen[w] \in {"ABSENT"} \cup Claimable
    BY DEF TypeOK, WorkersOK
  <2>2. CASE i = ItemAt(w)
    BY <1>4, <2>1, <2>2, <2>5, <2>6 DEF Claim, TypeOK, DatabaseOK
  <2>3. CASE i # ItemAt(w)
    BY <1>4, <2>3, <2>5 DEF Claim, TypeOK, DatabaseOK
  <2>4. QED
    BY <2>2, <2>3
<1>5. ASSUME NEW w \in Workers, Finishes(w)
      PROVE  \/ item'[i] = item[i]
             \/ /\ ItemAt(w) = i /\ item[i] = "RUNNING" /\ item'[i] \in Terminal
  BY <1>5 DEF Finishes, WriteFinal, LockedRowIsStable, TypeOK, DatabaseOK, WorkersOK
<1>6. QED
  BY <1>1, <1>2, <1>3, <1>4, <1>5, DatabaseStep

(* A batch appears once, runs when one of its items is claimed, and takes  *)
(* the verdict of a finalisation of one of its items.                      *)
LEMMA BatchStep ==
  ASSUME TypeOK, CreatedTogether, [Next]_vars, NEW b \in Batches
  PROVE  \/ batch'[b] = batch[b]
         \/ batch[b] = "ABSENT" /\ batch'[b] = "QUEUED" /\ CreateBatch(b)
         \/ batch'[b] = "RUNNING" /\ \E i \in ItemsOf(b) : item[i] \in Claimable
         \/ \E w \in Workers :
              /\ Finishes(w) /\ BatchOf[ItemAt(w)] = b
              /\ txn[w].rollup \in BatchFinal /\ batch'[b] = txn[w].rollup
<1>1. ASSUME NEW c \in Batches, CreateBatch(c)
      PROVE  \/ batch'[b] = batch[b]
             \/ batch[b] = "ABSENT" /\ batch'[b] = "QUEUED" /\ b = c
  BY <1>1 DEF CreateBatch, TypeOK, DatabaseOK
<1>2. ASSUME NEW w \in Workers, Claim(w)
      PROVE  \/ batch'[b] = batch[b]
             \/ batch'[b] = "RUNNING" /\ \E i \in ItemsOf(b) : item[i] \in Claimable
  <2>1. wpc[w] = "claim" /\ msg[w] # 0
    BY <1>2 DEF Claim, TypeOK, WorkersOK
  <2>2. ItemAt(w) \in Items /\ item[ItemAt(w)] # "ABSENT"
    BY <2>1, ItemPresent, ItemAtTyped
  <2>3. seen[w] \in {"ABSENT"} \cup Claimable
    BY DEF TypeOK, WorkersOK
  <2>4. QED
    BY <1>2, <2>2, <2>3 DEF Claim, ItemsOf, TypeOK, DatabaseOK
<1>3. ASSUME NEW w \in Workers, Finishes(w)
      PROVE  \/ batch'[b] = batch[b]
             \/ /\ BatchOf[ItemAt(w)] = b
                /\ txn[w].rollup \in BatchFinal /\ batch'[b] = txn[w].rollup
  <2>1. txn[w].rollup \in BatchFinal \cup {"KEEP"}
    BY DEF TypeOK, WorkersOK, Txns
  <2>2. QED
    BY <1>3, <2>1 DEF Finishes, WriteFinal, TypeOK, DatabaseOK
<1>4. QED
  BY <1>1, <1>2, <1>3, DatabaseStep

(* The stream and its group change in four ways, and only Ack takes one    *)
(* entry off the pending list while Redis is up.                           *)
LEMMA RedisStep ==
  ASSUME TypeOK, CreatedTogether, FinishedBeforeAck, [Next]_vars
  PROVE  /\ \/ UNCHANGED redis
            \/ /\ \E i \in Items : stream' = Append(stream, i) /\ item[i] # "ABSENT"
               /\ UNCHANGED <<read, pel, item>>
            \/ /\ read < Len(stream) /\ read' = read + 1 /\ pel' = pel \cup {read + 1}
               /\ UNCHANGED stream
            \/ /\ \E w \in Workers : /\ wpc[w] = "ack" /\ pel' = pel \ {msg[w]}
                                     /\ msg[w] \in Entries /\ item[ItemAt(w)] \in Terminal
               /\ UNCHANGED <<stream, read>>
            \/ RedisLoss
         /\ lost \subseteq lost'
<1>1. ASSUME NEW p \in Publishers, NEW i \in Items, Send(p, i) \/ SendRaises(p, i)
      PROVE  /\ \/ UNCHANGED redis
                \/ stream' = Append(stream, i) /\ item[i] # "ABSENT" /\ UNCHANGED <<read, pel, item>>
             /\ lost' = lost
  BY <1>1 DEF Send, SendRaises, TakeEvent, CreatedTogether, redis, database, history
<1>2. ASSUME NEW p \in Publishers,
             \/ LoadEvents(p) \/ MarkPublished(p) \/ MarkFailed(p) \/ PublisherRestart(p)
             \/ MarkPublishedRaises(p) \/ PublisherCrash(p)
      PROVE  UNCHANGED redis /\ lost' = lost
  BY <1>2 DEF LoadEvents, MarkPublished, MarkPublishedRaises, MarkFailed, PublisherCrash,
     PublisherRestart, history
<1>3. ASSUME NEW w \in Workers, Read(w)
      PROVE  /\ read < Len(stream) /\ read' = read + 1 /\ pel' = pel \cup {read + 1}
             /\ stream' = stream /\ lost' = lost
  BY <1>3 DEF Read, history
<1>4. ASSUME NEW w \in Workers, Ack(w)
      PROVE  /\ wpc[w] = "ack" /\ pel' = pel \ {msg[w]}
             /\ msg[w] \in Entries /\ item[ItemAt(w)] \in Terminal
             /\ UNCHANGED <<stream, read>> /\ lost' = lost
  <2>1. wpc[w] = "ack" /\ msg[w] # 0
    BY <1>4 DEF Ack, TypeOK, WorkersOK
  <2>2. msg[w] \in Entries
    BY <2>1, ItemPresent
  <2>3. QED
    BY <1>4, <2>1, <2>2 DEF Ack, FinishedBeforeAck, history
<1>5. ASSUME NEW w \in Workers,
             \/ \E taken \in SUBSET pel : Reclaim(w, taken)
             \/ Take(w) \/ Expire(w) \/ Look(w) \/ Claim(w) \/ Recheck(w)
             \/ \E r \in Results : Conclude(w, r)
             \/ Commit(w) \/ Interrupt(w) \/ WorkerFault(w)
      PROVE  UNCHANGED redis /\ lost' = lost
  BY <1>5 DEF Reclaim, Take, Expire, Look, Claim, Recheck, Conclude, Commit, Interrupt,
     WorkerFault, ExecutionRaises, CommitRaises, WorkerCrash, history
<1>6. CASE RedisLoss
  BY <1>6 DEF RedisLoss
<1>7. CASE UNCHANGED vars
  BY <1>7 DEF vars, history
<1>8. CASE \E b \in Batches : CreateBatch(b)
  BY <1>8 DEF CreateBatch, history
<1>9. QED
  BY <1>1, <1>2, <1>3, <1>4, <1>5, <1>6, <1>7, <1>8
     DEF Next, PublisherStep, PublisherFault, WorkerStep, HandlerStep

(* Entries are never renamed.                                              *)
LEMMA StreamGrows ==
  ASSUME TypeOK, CreatedTogether, FinishedBeforeAck, [Next]_vars, NEW m \in Entries
  PROVE  m \in Entries' /\ stream'[m] = stream[m]
<1>1. stream \in Seq(Items) /\ Entries = DOMAIN stream /\ Entries' = DOMAIN stream'
  BY DEF TypeOK, RedisOK, Entries
<1>2. \/ stream' = stream
      \/ \E i \in Items : stream' = Append(stream, i)
  BY RedisStep DEF redis, RedisLoss
<1>3. QED
  BY <1>1, <1>2

(* An item on its way to a worker stays so until it is finished.           *)
LEMMA CarriedKept ==
  ASSUME TypeOK, CreatedTogether, FinishedBeforeAck, [Next]_vars,
         NEW i \in Items, Carried(i), item[i] \notin Terminal
  PROVE  Carried(i)'
<1>1. CASE i \in lost
  BY <1>1, RedisStep DEF Carried
<1>2. ASSUME NEW m \in Entries, Live(m), stream[m] = i
      PROVE  Carried(i)'
  <2>1. m \in Entries' /\ stream'[m] = i
    BY <1>2, StreamGrows
  <2>2. CASE RedisLoss
    BY <1>2, <2>2 DEF RedisLoss, Carried, Live
  <2>3. Entries = 1..Len(stream) /\ Len(stream) \in Nat /\ read \in Nat
    BY DEF Entries, TypeOK, RedisOK
  <2>4. ASSUME m \in pel', m \in Entries', stream'[m] = i
        PROVE  Carried(i)'
    BY <2>4 DEF Carried, Live
  <2>5. ASSUME m > read', m \in Entries', stream'[m] = i
        PROVE  Carried(i)'
    BY <2>5 DEF Carried, Live, Unread
  <2>6. CASE UNCHANGED <<read, pel>>
    BY <1>2, <2>1, <2>4, <2>5, <2>6 DEF Live, Unread
  <2>7. CASE read' = read + 1 /\ pel' = pel \cup {read + 1}
    <3>1. m \in pel' \/ m > read'
      BY <1>2, <2>3, <2>7 DEF Live, Unread
    <3>2. QED
      BY <2>1, <2>4, <2>5, <3>1
  <2>8. ASSUME NEW w \in Workers, pel' = pel \ {msg[w]}, item[ItemAt(w)] \in Terminal,
               UNCHANGED read
        PROVE  Carried(i)'
    <3>1. m # msg[w]
      BY <1>2, <2>8 DEF ItemAt
    <3>2. QED
      BY <1>2, <2>1, <2>4, <2>5, <2>8, <3>1 DEF Live, Unread
  <2>9. QED
    BY <2>2, <2>6, <2>7, <2>8, RedisStep DEF redis
<1>3. QED
  BY <1>1, <1>2 DEF Carried

(* A worker arrives at the acknowledgement with a finished item, or by     *)
(* committing its status; and at the commit from a RUNNING item only.      *)
LEMMA WorkerMoves ==
  ASSUME TypeOK, [Next]_vars, NEW w \in Workers
  PROVE  /\ wpc'[w] = "ack" =>
              /\ msg'[w] = msg[w] /\ msg[w] # 0
              /\ \/ wpc[w] = "ack" \/ item[ItemAt(w)] \in Terminal
                 \/ Finishes(w)
         /\ wpc'[w] = "commit" =>
              /\ msg'[w] = msg[w] /\ msg[w] # 0
              /\ \/ wpc[w] = "commit" /\ txn'[w] = txn[w]
                 \/ \E r \in Results : Conclude(w, r) /\ item[ItemAt(w)] = "RUNNING"
<1> DEFINE Same(v) == wpc'[v] = wpc[v] /\ msg'[v] = msg[v] /\ txn'[v] = txn[v]
<1>1. ASSUME UNCHANGED workers
      PROVE  Same(w)
  BY <1>1 DEF workers
<1>2. ASSUME NEW v \in Workers, v # w, WorkerStep(v) \/ WorkerFault(v)
      PROVE  Same(w)
  BY <1>2 DEF WorkerStep, HandlerStep, WorkerFault, Read, Reclaim, Take, Expire, Look, Claim,
     Recheck, Conclude, Commit, Interrupt, Ack, ExecutionRaises, CommitRaises, WorkerCrash,
     NextMessage, TypeOK, WorkersOK
<1>3. ASSUME \/ Read(w) \/ (\E taken \in SUBSET pel : Reclaim(w, taken))
             \/ Take(w) \/ Expire(w) \/ Claim(w) \/ Interrupt(w) \/ Ack(w) \/ WorkerFault(w)
      PROVE  wpc'[w] \notin {"ack", "commit"}
  BY <1>3 DEF Read, Reclaim, Take, Expire, Claim, Interrupt, Ack, WorkerFault, ExecutionRaises,
     CommitRaises, WorkerCrash, NextMessage, TypeOK, WorkersOK
<1>4. ASSUME Look(w) \/ Recheck(w)
      PROVE  /\ wpc'[w] # "commit" /\ msg[w] # 0
             /\ wpc'[w] = "ack" => item[ItemAt(w)] \in Terminal /\ msg'[w] = msg[w]
  BY <1>4 DEF Look, Recheck, NextMessage, TypeOK, WorkersOK
<1>5. ASSUME Commit(w)
      PROVE  /\ Finishes(w) /\ wpc'[w] # "commit"
             /\ msg'[w] = msg[w] /\ msg[w] # 0
  BY <1>5 DEF Commit, Finishes, TypeOK, WorkersOK
<1>6. ASSUME NEW r \in Results, Conclude(w, r)
      PROVE  /\ wpc'[w] # "ack" /\ msg[w] # 0
             /\ wpc'[w] = "commit" => item[ItemAt(w)] = "RUNNING" /\ msg'[w] = msg[w]
  BY <1>6 DEF Conclude, TypeOK, WorkersOK
<1>7. ASSUME wpc[w] \in {"ack", "commit"}
      PROVE  msg[w] # 0
  BY <1>7 DEF TypeOK, WorkersOK
<1>8. ASSUME NEW p \in Publishers, PublisherStep(p) \/ PublisherFault(p)
      PROVE  UNCHANGED workers
  BY <1>8 DEF PublisherStep, PublisherFault, LoadEvents, Send, SendRaises, MarkPublished,
     MarkPublishedRaises, MarkFailed, PublisherCrash, PublisherRestart
<1>9. CASE (\E b \in Batches : CreateBatch(b)) \/ RedisLoss \/ UNCHANGED vars
  BY <1>1, <1>7, <1>9 DEF CreateBatch, RedisLoss, vars
<1>10. CASE Same(w)
  BY <1>7, <1>10
<1>11. QED
  BY <1>1, <1>2, <1>3, <1>4, <1>5, <1>6, <1>8, <1>9, <1>10 DEF Next, WorkerStep, HandlerStep

(* A worker becomes the owner of an item by claiming it, and keeps the     *)
(* message while it is the owner.                                          *)
LEMMA OwnerMoves ==
  ASSUME TypeOK, [Next]_vars, NEW w \in Workers, wpc'[w] \in {"exec", "commit", "interrupt"}
  PROVE  /\ msg'[w] = msg[w] /\ msg[w] # 0
         /\ \/ /\ wpc[w] \in {"exec", "commit", "interrupt"}
               /\ wpc'[w] # "interrupt" => wpc[w] # "interrupt"
               /\ wpc'[w] = "exec" => wpc[w] = "exec"
            \/ Claim(w) /\ item[ItemAt(w)] = seen[w]
<1> DEFINE Same(v) == wpc'[v] = wpc[v] /\ msg'[v] = msg[v]
<1>1. ASSUME NEW v \in Workers, v # w, WorkerStep(v) \/ WorkerFault(v)
      PROVE  Same(w)
  BY <1>1 DEF WorkerStep, HandlerStep, WorkerFault, Read, Reclaim, Take, Expire, Look, Claim,
     Recheck, Conclude, Commit, Interrupt, Ack, ExecutionRaises, CommitRaises, WorkerCrash,
     NextMessage, TypeOK, WorkersOK
<1>2. ASSUME \/ Read(w) \/ (\E taken \in SUBSET pel : Reclaim(w, taken))
             \/ Take(w) \/ Expire(w) \/ Look(w) \/ Recheck(w) \/ Commit(w) \/ Interrupt(w)
             \/ Ack(w) \/ WorkerCrash(w)
      PROVE  wpc'[w] \notin {"exec", "commit", "interrupt"}
  BY <1>2 DEF Read, Reclaim, Take, Expire, Look, Recheck, Commit, Interrupt, Ack, WorkerCrash,
     NextMessage, TypeOK, WorkersOK
<1>3. ASSUME Claim(w)
      PROVE  msg'[w] = msg[w] /\ wpc[w] = "claim" /\ item[ItemAt(w)] = seen[w]
  BY <1>3 DEF Claim, TypeOK, WorkersOK
<1>4. ASSUME (\E r \in Results : Conclude(w, r)) \/ ExecutionRaises(w)
      PROVE  msg'[w] = msg[w] /\ wpc[w] = "exec" /\ wpc'[w] # "exec"
  BY <1>4 DEF Conclude, ExecutionRaises, TypeOK, WorkersOK
<1>5. ASSUME CommitRaises(w)
      PROVE  msg'[w] = msg[w] /\ wpc[w] = "commit" /\ wpc'[w] = "interrupt"
  BY <1>5 DEF CommitRaises, TypeOK, WorkersOK
<1>6. ASSUME NEW p \in Publishers, PublisherStep(p) \/ PublisherFault(p)
      PROVE  Same(w)
  BY <1>6 DEF PublisherStep, PublisherFault, LoadEvents, Send, SendRaises, MarkPublished,
     MarkPublishedRaises, MarkFailed, PublisherCrash, PublisherRestart, workers
<1>7. ASSUME (\E b \in Batches : CreateBatch(b)) \/ RedisLoss \/ UNCHANGED vars
      PROVE  Same(w)
  BY <1>7 DEF CreateBatch, RedisLoss, vars, workers
<1>8. \/ Same(w) \/ Claim(w) \/ CommitRaises(w)
      \/ (\E r \in Results : Conclude(w, r)) \/ ExecutionRaises(w)
  BY <1>1, <1>2, <1>6, <1>7 DEF Next, WorkerStep, HandlerStep, WorkerFault
<1>9. wpc[w] \in {"exec", "commit", "interrupt", "claim"} => msg[w] # 0
  BY DEF TypeOK, WorkersOK
<1>10. QED
  BY <1>3, <1>4, <1>5, <1>8, <1>9

(* The actions that write a status.                                        *)
LEMMA ItemMovers ==
  ASSUME TypeOK, [Next]_vars
  PROVE  \/ UNCHANGED item
         \/ \E b \in Batches : CreateBatch(b)
         \/ \E w \in Workers : Expire(w) \/ Interrupt(w) \/ Claim(w) \/ Finishes(w)
<1>1. ASSUME NEW w \in Workers, WorkerStep(w) \/ WorkerFault(w)
      PROVE  Expire(w) \/ Interrupt(w) \/ Claim(w) \/ Finishes(w) \/ UNCHANGED item
  BY <1>1 DEF WorkerStep, HandlerStep, WorkerFault, Read, Reclaim, Take, Look, Recheck,
     Conclude, Commit, Ack, ExecutionRaises, CommitRaises, WorkerCrash, Finishes, database,
     TypeOK, WorkersOK
<1>2. ASSUME NEW p \in Publishers, PublisherStep(p) \/ PublisherFault(p)
      PROVE  UNCHANGED item
  BY <1>2 DEF PublisherStep, PublisherFault, LoadEvents, Send, SendRaises, MarkPublished,
     MarkPublishedRaises, MarkFailed, PublisherCrash, PublisherRestart, database
<1>3. CASE RedisLoss \/ UNCHANGED vars
  BY <1>3 DEF RedisLoss, vars, database
<1>4. QED
  BY <1>1, <1>2, <1>3 DEF Next

(* A running item is declared interrupted when its lease expires, which    *)
(* marks it stolen from a live owner, or by the handler of an exception,   *)
(* which lets go of it.                                                    *)
LEMMA TakenOver ==
  ASSUME TypeOK, CreatedTogether, [Next]_vars,
         NEW i \in Items, item[i] = "RUNNING", item'[i] \in Claimable
  PROVE  \/ stolen' = stolen \cup {j \in {i} : \E v \in Workers : Owns(v, j)}
         \/ \E v \in Workers : Owns(v, i) /\ wpc'[v] \notin {"exec", "commit", "interrupt"}
<1> USE DEF Claimable
<1>1. ASSUME NEW w \in Workers, Expire(w)
      PROVE  stolen' = stolen \cup {j \in {i} : \E v \in Workers : Owns(v, j)}
  <2>1. ItemAt(w) \in Items
    BY <1>1, ItemAtTyped DEF Expire, TypeOK, WorkersOK
  <2>2. item' = [item EXCEPT ![ItemAt(w)] = "INTERRUPTED"]
    BY <1>1 DEF Expire, SetInterrupted
  <2>3. ItemAt(w) = i
    BY <2>1, <2>2 DEF TypeOK, DatabaseOK
  <2>4. stolen' = stolen \cup {j \in {ItemAt(w)} : \E v \in Workers : Owns(v, j)}
    BY <1>1 DEF Expire
  <2>5. QED
    BY <2>3, <2>4
<1>2. ASSUME NEW w \in Workers, Interrupt(w)
      PROVE  Owns(w, i) /\ wpc'[w] \notin {"exec", "commit", "interrupt"}
  <2>1. ItemAt(w) \in Items
    BY <1>2, ItemAtTyped DEF Interrupt, TypeOK, WorkersOK
  <2>2. ItemAt(w) = i
    BY <1>2, <2>1 DEF Interrupt, SetInterrupted, TypeOK, DatabaseOK
  <2>3. QED
    BY <1>2, <2>2 DEF Interrupt, NextMessage, Owns, TypeOK, WorkersOK
<1>3. CASE UNCHANGED item
  BY <1>3
<1>4. ASSUME NEW b \in Batches, CreateBatch(b)
      PROVE  FALSE
  BY <1>4 DEF CreateBatch, CreatedTogether
<1>5. ASSUME NEW w \in Workers, Claim(w) \/ Finishes(w)
      PROVE  item'[i] = "RUNNING" \/ item'[i] \in Terminal
  BY <1>5 DEF Claim, Finishes, WriteFinal, TypeOK, DatabaseOK, WorkersOK
<1>6. QED
  BY <1>1, <1>2, <1>3, <1>4, <1>5, ItemMovers DEF Terminal

(* An item stolen from its owner stays marked.                             *)
LEMMA StolenGrows ==
  ASSUME [Next]_vars
  PROVE  stolen \subseteq stolen'
<1>1. ASSUME NEW w \in Workers, WorkerStep(w) \/ WorkerFault(w)
      PROVE  stolen \subseteq stolen'
  BY <1>1 DEF WorkerStep, HandlerStep, WorkerFault, Read, Reclaim, Take, Expire, Look, Claim,
     Recheck, Conclude, Commit, Interrupt, Ack, ExecutionRaises, CommitRaises, WorkerCrash,
     history
<1>2. ASSUME NEW p \in Publishers, PublisherStep(p) \/ PublisherFault(p)
      PROVE  stolen' = stolen
  BY <1>2 DEF PublisherStep, PublisherFault, LoadEvents, Send, SendRaises, MarkPublished,
     MarkPublishedRaises, MarkFailed, PublisherCrash, PublisherRestart, history
<1>3. CASE (\E b \in Batches : CreateBatch(b)) \/ RedisLoss \/ UNCHANGED vars
  BY <1>3 DEF CreateBatch, RedisLoss, vars, history
<1>4. QED
  BY <1>1, <1>2, <1>3 DEF Next

(* A publisher is about to mark the event it has just sent.                *)
LEMMA PublisherMoves ==
  ASSUME TypeOK, [Next]_vars, NEW p \in Publishers
  PROVE  /\ pubpc'[p] = "mark" =>
              \/ pubpc[p] = "mark" /\ event'[p] = event[p]
              \/ \E i \in todo[p] : Send(p, i) /\ event'[p] = i
         /\ \A i \in todo'[p] : i \in todo[p] \/ (outbox[i] = "PENDING" /\ UNCHANGED item)
<1> DEFINE Same(q) == pubpc'[q] = pubpc[q] /\ event'[q] = event[q] /\ todo'[q] = todo[q]
<1>1. ASSUME UNCHANGED publishers
      PROVE  Same(p)
  BY <1>1 DEF publishers
<1>2. ASSUME NEW q \in Publishers, q # p, PublisherStep(q) \/ PublisherFault(q)
      PROVE  Same(p)
  BY <1>2 DEF PublisherStep, PublisherFault, LoadEvents, Send, SendRaises, MarkPublished,
     MarkPublishedRaises, MarkFailed, PublisherCrash, PublisherRestart, TakeEvent, TypeOK,
     PublishersOK
<1>3. ASSUME LoadEvents(p)
      PROVE  /\ pubpc'[p] = pubpc[p] /\ event'[p] = event[p] /\ UNCHANGED item
             /\ \A i \in todo'[p] : outbox[i] = "PENDING"
  BY <1>3 DEF LoadEvents, TypeOK, PublishersOK, database
<1>4. ASSUME NEW i \in Items, Send(p, i)
      PROVE  i \in todo[p] /\ event'[p] = i /\ todo'[p] \subseteq todo[p]
  BY <1>4 DEF Send, TakeEvent, TypeOK, PublishersOK
<1>5. ASSUME MarkPublished(p) \/ MarkFailed(p) \/ PublisherRestart(p) \/ PublisherFault(p)
      PROVE  pubpc'[p] # "mark" /\ todo'[p] \subseteq todo[p]
  BY <1>5 DEF PublisherFault, SendRaises, MarkPublished, MarkPublishedRaises, MarkFailed,
     PublisherCrash, PublisherRestart, TakeEvent, TypeOK, PublishersOK
<1>6. ASSUME NEW w \in Workers, WorkerStep(w) \/ WorkerFault(w)
      PROVE  UNCHANGED publishers
  BY <1>6 DEF WorkerStep, HandlerStep, WorkerFault, Read, Reclaim, Take, Expire, Look, Claim,
     Recheck, Conclude, Commit, Interrupt, Ack, ExecutionRaises, CommitRaises, WorkerCrash
<1>7. CASE (\E b \in Batches : CreateBatch(b)) \/ RedisLoss \/ UNCHANGED vars
  BY <1>1, <1>7 DEF CreateBatch, RedisLoss, vars
<1>8. QED
  BY <1>1, <1>2, <1>3, <1>4, <1>5, <1>6, <1>7 DEF Next, PublisherStep

-----------------------------------------------------------------------------
(***************************************************************************)
(* The inductive invariant, part by part.                                  *)
(***************************************************************************)

(* What a step does to rows, events and batches as they appear.            *)
LEMMA Appear ==
  ASSUME TypeOK, CreatedTogether, LockedRowIsStable, [Next]_vars
  PROVE  /\ \A i \in Items :
              /\ item'[i] = "ABSENT" <=> batch'[BatchOf[i]] = "ABSENT"
              /\ item'[i] = "ABSENT" <=> outbox'[i] = "ABSENT"
         /\ \A i \in Items : outbox'[i] \notin {"PENDING", "FAILED"} =>
              \/ outbox'[i] = outbox[i]
              \/ \E p \in Publishers : pubpc[p] = "mark" /\ event[p] = i /\ UNCHANGED item
<1>1. ASSUME NEW b \in Batches, CreateBatch(b)
      PROVE  \A i \in Items : /\ item'[i] = "ABSENT" <=> batch'[BatchOf[i]] = "ABSENT"
                              /\ item'[i] = "ABSENT" <=> outbox'[i] = "ABSENT"
                              /\ outbox'[i] = outbox[i] \/ outbox'[i] = "PENDING"
  BY <1>1, DeliveryAssumption DEF CreateBatch, TypeOK, DatabaseOK, CreatedTogether
<1>2. ASSUME NEW p \in Publishers,
             MarkPublished(p) \/ MarkPublishedRaises(p) \/ MarkFailed(p)
      PROVE  \A i \in Items :
               /\ outbox'[i] = "ABSENT" <=> outbox[i] = "ABSENT"
               /\ \/ outbox'[i] \in {outbox[i], "PENDING", "FAILED"}
                  \/ pubpc[p] = "mark" /\ event[p] = i /\ UNCHANGED item
  <2>1. event[p] \in Items
    BY <1>2 DEF MarkPublished, MarkPublishedRaises, MarkFailed, TypeOK, PublishersOK
  <2>2. QED
    BY <1>2, <2>1 DEF MarkPublished, MarkPublishedRaises, MarkFailed, TypeOK, DatabaseOK
<1>3. ASSUME NEW p \in Publishers,
             \/ LoadEvents(p) \/ (\E i \in Items : Send(p, i) \/ SendRaises(p, i))
             \/ PublisherCrash(p) \/ PublisherRestart(p)
      PROVE  outbox' = outbox
  BY <1>3 DEF LoadEvents, Send, SendRaises, PublisherCrash, PublisherRestart, database
<1>4. ASSUME NEW w \in Workers, WorkerStep(w) \/ WorkerFault(w)
      PROVE  outbox' = outbox
  BY <1>4 DEF WorkerStep, HandlerStep, WorkerFault, Read, Reclaim, Take, Expire, Look, Claim,
     Recheck, Conclude, Commit, Interrupt, Ack, ExecutionRaises, CommitRaises, WorkerCrash,
     WriteFinal, database
<1>5. ASSUME RedisLoss \/ UNCHANGED vars
      PROVE  outbox' = outbox
  BY <1>5 DEF RedisLoss, vars, database
<1>6. ASSUME ~\E b \in Batches : CreateBatch(b), NEW i \in Items
      PROVE  /\ item'[i] = "ABSENT" <=> item[i] = "ABSENT"
             /\ batch'[BatchOf[i]] = "ABSENT" <=> batch[BatchOf[i]] = "ABSENT"
  <2>1. BatchOf[i] \in Batches
    BY DeliveryAssumption
  <2>2. item'[i] = "ABSENT" <=> item[i] = "ABSENT"
    BY <1>6, <2>1, ItemStep DEF Unfinished, Claimable, Terminal
  <2>3. ASSUME NEW j \in ItemsOf(BatchOf[i]), item[j] \in Claimable
        PROVE  batch[BatchOf[i]] # "ABSENT"
    BY <2>3 DEF ItemsOf, CreatedTogether, Claimable
  <2>4. ASSUME NEW w \in Workers, wpc[w] = "commit", BatchOf[ItemAt(w)] = BatchOf[i]
        PROVE  batch[BatchOf[i]] # "ABSENT"
    <3>1. ItemAt(w) \in Items /\ item[ItemAt(w)] = "RUNNING"
      BY <2>4, ItemAtTyped DEF LockedRowIsStable, TypeOK, WorkersOK
    <3>2. QED
      BY <2>4, <3>1 DEF CreatedTogether
  <2>5. batch'[BatchOf[i]] = "ABSENT" <=> batch[BatchOf[i]] = "ABSENT"
    BY <1>6, <2>1, <2>3, <2>4, BatchStep DEF BatchFinal, Finishes
  <2>6. QED
    BY <2>2, <2>5
<1>7. QED
  BY <1>1, <1>2, <1>3, <1>4, <1>5, <1>6 DEF Next, PublisherStep, PublisherFault, CreatedTogether

(* Rows, events and messages keep appearing together with their batch.     *)
LEMMA CreatedTogetherKept ==
  ASSUME TypeOK, CreatedTogether, FinishedBeforeAck, LockedRowIsStable, [Next]_vars
  PROVE  CreatedTogether'
<1>1. \A i \in Items : item[i] # "ABSENT" => item'[i] # "ABSENT"
  BY ItemStep DEF Unfinished, Claimable, Terminal
<1>2. ASSUME NEW p \in Publishers, NEW i \in todo'[p]
      PROVE  item'[i] # "ABSENT"
  <2>1. i \in Items
    BY TypeInductive DEF TypeOK, PublishersOK
  <2>2. item[i] # "ABSENT"
    BY <2>1, PublisherMoves DEF CreatedTogether
  <2>3. QED
    BY <1>1, <2>1, <2>2
<1>3. ASSUME NEW p \in Publishers, pubpc'[p] = "mark"
      PROVE  item'[event'[p]] # "ABSENT"
  <2>1. event'[p] \in Items
    BY <1>3, TypeInductive DEF TypeOK, PublishersOK
  <2>2. item[event'[p]] # "ABSENT"
    BY <1>3, PublisherMoves DEF CreatedTogether
  <2>3. QED
    BY <1>1, <2>1, <2>2
<1>4. ASSUME NEW m \in Entries'
      PROVE  item'[stream'[m]] # "ABSENT"
  <2>1. stream \in Seq(Items) /\ Entries = DOMAIN stream /\ Entries' = DOMAIN stream'
    BY DEF TypeOK, RedisOK, Entries
  <2>2. CASE m \in Entries
    <3>1. stream'[m] = stream[m] /\ stream[m] \in Items
      BY <2>1, <2>2, StreamGrows
    <3>2. QED
      BY <1>1, <2>2, <3>1 DEF CreatedTogether
  <2>3. CASE m \notin Entries
    <3>1. PICK i \in Items : stream' = Append(stream, i) /\ item[i] # "ABSENT"
      BY <1>4, <2>1, <2>3, RedisStep DEF redis, RedisLoss
    <3>2. stream'[m] = i
      BY <1>4, <2>1, <2>3, <3>1
    <3>3. QED
      BY <1>1, <3>1, <3>2
  <2>4. QED
    BY <2>2, <2>3
<1>5. QED
  BY <1>2, <1>3, <1>4, Appear DEF CreatedTogether

(* An event is marked only when its message was sent.                      *)
LEMMA SentBeforeMarkedKept ==
  ASSUME TypeOK, CreatedTogether, SentBeforeMarked, FinishedBeforeAck, LockedRowIsStable,
         [Next]_vars
  PROVE  SentBeforeMarked'
<1>0. \A p \in Publishers : pubpc'[p] = "mark" => event'[p] \in Items
  BY TypeInductive DEF TypeOK, PublishersOK
<1> SUFFICES ASSUME NEW p \in Publishers, NEW i \in Items, pubpc'[p] = "mark",
                    event'[p] = i, item'[i] \in Unfinished
             PROVE  Carried(i)'
  BY <1>0 DEF SentBeforeMarked, Carried
<1>1. CASE pubpc[p] = "mark" /\ event[p] = i
  <2>1. item[i] # "ABSENT"
    BY <1>1 DEF CreatedTogether
  <2>2. item[i] \in Unfinished
    BY <2>1, ItemStep DEF Unfinished, Claimable, Terminal
  <2>3. Carried(i) /\ item[i] \notin Terminal
    BY <1>1, <2>2 DEF SentBeforeMarked, Unfinished, Claimable, Terminal
  <2>4. QED
    BY <2>3, CarriedKept
<1>2. CASE i \in todo[p] /\ Send(p, i)
  <2>1. stream \in Seq(Items) /\ stream' = Append(stream, i)
    BY <1>2 DEF TypeOK, RedisOK, Send
  <2>2. Len(stream) + 1 \in Entries' /\ stream'[Len(stream) + 1] = i
    BY <2>1 DEF Entries
  <2>3. Len(stream) + 1 > read'
    BY <1>2, <2>1 DEF Send, TypeOK, RedisOK
  <2>4. QED
    BY <2>2, <2>3 DEF Carried, Live, Unread
<1>3. QED
  BY <1>1, <1>2, PublisherMoves

(* The status a finalisation writes is its target.                         *)
LEMMA FinalWritten ==
  ASSUME TypeOK, NEW w \in Workers, Finishes(w)
  PROVE  item'[ItemAt(w)] = txn[w].target /\ txn[w].target \in Terminal
<1>1. ItemAt(w) \in Items
  BY ItemAtTyped DEF Finishes, TypeOK, WorkersOK
<1>2. QED
  BY <1>1 DEF Finishes, WriteFinal, TypeOK, DatabaseOK, WorkersOK

(* A worker keeps its item while it keeps its message.                     *)
LEMMA ItemAtKept ==
  ASSUME TypeOK, CreatedTogether, FinishedBeforeAck, [Next]_vars,
         NEW w \in Workers, msg'[w] = msg[w], msg[w] # 0
  PROVE  ItemAt(w)' = ItemAt(w) /\ ItemAt(w) \in Items
<1>1. msg[w] \in Entries
  BY ItemPresent
<1>2. QED
  BY <1>1, StreamGrows, ItemAtTyped DEF ItemAt

(* A worker acknowledges a finished item: no step of another worker undoes *)
(* its status.                                                             *)
LEMMA FinishedBeforeAckKept ==
  ASSUME TypeOK, CreatedTogether, FinishedBeforeAck, LockedRowIsStable, [Next]_vars
  PROVE  FinishedBeforeAck'
<1> SUFFICES ASSUME NEW w \in Workers, wpc'[w] = "ack"
             PROVE  item'[ItemAt(w)'] \in Terminal
  BY DEF FinishedBeforeAck
<1>1. ItemAt(w)' = ItemAt(w) /\ ItemAt(w) \in Items
  BY WorkerMoves, ItemAtKept
<1>2. item[ItemAt(w)] \in Terminal \/ Finishes(w)
  BY WorkerMoves DEF FinishedBeforeAck
<1>3. QED
  BY <1>1, <1>2, FinalWritten, ItemStep DEF Terminal, Unfinished, Claimable

(* A verdict of finished items does not depend on the others' progress.    *)
LEMMA RollupStable ==
  ASSUME NEW st, NEW st2, NEW b,
         Rollup(st, b) # "KEEP",
         \A i \in ItemsOf(b) : st[i] \in Terminal => st2[i] = st[i]
  PROVE  Rollup(st2, b) = Rollup(st, b)
BY DEF Rollup, Verdict

(* The row of an open finalisation stays as the transaction read it.       *)
LEMMA LockedRowIsStableKept ==
  ASSUME TypeOK, CreatedTogether, FinishedBeforeAck, LockedRowIsStable, [Next]_vars
  PROVE  LockedRowIsStable'
<1> SUFFICES ASSUME NEW w \in Workers, wpc'[w] = "commit"
             PROVE  /\ item'[ItemAt(w)'] = "RUNNING"
                    /\ \A v \in Workers : wpc'[v] = "commit" /\ ItemAt(v)' = ItemAt(w)' => v = w
                    /\ txn'[w].rollup # "KEEP" =>
                         txn'[w].rollup = Rollup([item' EXCEPT ![ItemAt(w)'] = txn'[w].target],
                                                 BatchOf[ItemAt(w)'])
  BY DEF LockedRowIsStable, Rollup, Verdict
<1>1. \A v \in Workers : wpc'[v] = "commit" => ItemAt(v)' = ItemAt(v) /\ ItemAt(v) \in Items
  BY WorkerMoves, ItemAtKept
<1> DEFINE I == ItemAt(w)
<1>2. I \in Items /\ ItemAt(w)' = I
  BY <1>1
<1> HIDE DEF I
<1>3. CASE wpc[w] = "commit" /\ txn'[w] = txn[w]
  <2>1. item[I] = "RUNNING" /\ \A v \in Workers : wpc[v] = "commit" /\ ItemAt(v) = I => v = w
    BY <1>3 DEF LockedRowIsStable, I
  <2>2. Locked(I)
    BY <1>3 DEF Locked, I
  <2>3. item'[I] = "RUNNING"
    BY <1>2, <2>1, <2>2, ItemStep DEF Finishes, Terminal, Unfinished, Claimable
  <2>4. ASSUME NEW v \in Workers, wpc'[v] = "commit", ItemAt(v)' = I
        PROVE  v = w
    <3>1. ItemAt(v) = I
      BY <1>1, <2>4
    <3>2. CASE wpc[v] = "commit"
      BY <2>1, <3>1, <3>2
    <3>3. ASSUME NEW r \in Results, Conclude(v, r)
          PROVE  FALSE
      BY <2>2, <3>1, <3>3 DEF Conclude
    <3>4. QED
      BY <2>4, <3>2, <3>3, WorkerMoves
  <2>5. ASSUME txn[w].rollup # "KEEP"
        PROVE  txn[w].rollup = Rollup([item' EXCEPT ![I] = txn[w].target], BatchOf[I])
    <3> DEFINE st == [item EXCEPT ![I] = txn[w].target]
               st2 == [item' EXCEPT ![I] = txn[w].target]
    <3>1. txn[w].rollup = Rollup(st, BatchOf[I])
      BY <1>3, <2>5 DEF LockedRowIsStable, I
    <3>2. ASSUME NEW i \in ItemsOf(BatchOf[I]), st[i] \in Terminal
          PROVE  st2[i] = st[i]
      <4>1. i \in Items /\ item \in [Items -> ItemStatus] /\ item' \in [Items -> ItemStatus]
        BY TypeInductive DEF ItemsOf, TypeOK, DatabaseOK
      <4>2. CASE i = I
        BY <4>1, <4>2
      <4>3. CASE i # I
        BY <3>2, <4>1, <4>3, ItemStep DEF Terminal, Unfinished, Claimable
      <4>4. QED
        BY <4>2, <4>3
    <3> HIDE DEF st, st2
    <3>3. Rollup(st2, BatchOf[I]) = Rollup(st, BatchOf[I])
      BY <2>5, <3>1, <3>2, RollupStable
    <3>4. QED
      BY <3>1, <3>3 DEF st2
  <2>6. QED
    BY <1>2, <1>3, <2>3, <2>4, <2>5
<1>4. ASSUME NEW r \in Results, Conclude(w, r), item[I] = "RUNNING"
      PROVE  /\ item'[I] = "RUNNING"
             /\ \A v \in Workers : wpc'[v] = "commit" /\ ItemAt(v)' = I => v = w
             /\ txn'[w].rollup = Rollup([item' EXCEPT ![I] = txn'[w].target], BatchOf[I])
  <2>1. ~Locked(I) /\ item' = item /\ \A v \in Workers : v # w => wpc'[v] = wpc[v]
    BY <1>4 DEF Conclude, database, I, TypeOK, WorkersOK
  <2>2. txn' = [txn EXCEPT ![w] = [target |-> r,
                  rollup |-> Rollup([item EXCEPT ![I] = r], BatchOf[I])]]
    BY <1>4 DEF Conclude, I
  <2>3. txn'[w].target = r /\ txn'[w].rollup = Rollup([item EXCEPT ![I] = r], BatchOf[I])
    BY <2>2 DEF TypeOK, WorkersOK
  <2>4. ASSUME NEW v \in Workers, wpc'[v] = "commit", ItemAt(v)' = I, v # w
        PROVE  FALSE
    BY <1>1, <2>1, <2>4 DEF Locked
  <2>5. QED
    BY <1>4, <2>1, <2>3, <2>4
<1>5. QED
  BY <1>2, <1>3, <1>4, WorkerMoves DEF I

(* No step lets an unfinished item fall between PostgreSQL and Redis.      *)
LEMMA NoItemForgottenKept ==
  ASSUME TypeOK, CreatedTogether, SentBeforeMarked, FinishedBeforeAck, LockedRowIsStable,
         NoItemForgotten, [Next]_vars
  PROVE  NoItemForgotten'
<1> SUFFICES ASSUME NEW i \in Items, item'[i] \in Unfinished
             PROVE  outbox'[i] \in {"PENDING", "FAILED"} \/ Carried(i)'
  BY DEF NoItemForgotten
<1>1. CASE CreateBatch(BatchOf[i])
  BY <1>1 DEF CreateBatch, TypeOK, DatabaseOK
<1>2. CASE item[i] \in Unfinished
  <2>1. item[i] \notin Terminal
    BY <1>2 DEF Unfinished, Claimable, Terminal
  <2>2. CASE Carried(i)
    BY <2>1, <2>2, CarriedKept
  <2>3. CASE outbox[i] \in {"PENDING", "FAILED"}
    <3>1. ASSUME NEW p \in Publishers, pubpc[p] = "mark", event[p] = i
          PROVE  Carried(i)
      BY <1>2, <3>1 DEF SentBeforeMarked
    <3>2. QED
      BY <2>2, <2>3, <3>1, Appear
  <2>4. QED
    BY <1>2, <2>2, <2>3 DEF NoItemForgotten
<1>3. QED
  BY <1>1, <1>2, ItemStep DEF Unfinished, Claimable, Terminal

(* What a finalisation does to the dead letters of every item.             *)
LEMMA DeadStep ==
  ASSUME TypeOK, LockedRowIsStable, [Next]_vars, NEW i \in Items
  PROVE  \/ dead'[i] = dead[i] /\ (item'[i] = item[i] \/ ~\E w \in Workers : Finishes(w))
         \/ /\ item[i] = "RUNNING" /\ item'[i] \in Terminal
            /\ dead'[i] = IF item'[i] = "FAILED_FINAL" THEN dead[i] + 1 ELSE dead[i]
<1>1. ASSUME NEW w \in Workers, Finishes(w)
      PROVE  \/ dead'[i] = dead[i] /\ item'[i] = item[i]
             \/ /\ item[i] = "RUNNING" /\ item'[i] \in Terminal
                /\ dead'[i] = IF item'[i] = "FAILED_FINAL" THEN dead[i] + 1 ELSE dead[i]
  BY <1>1 DEF Finishes, WriteFinal, LockedRowIsStable, TypeOK, DatabaseOK, WorkersOK
<1>2. CASE ~\E w \in Workers : Finishes(w)
  BY <1>2, DatabaseStep DEF CreateBatch, Claim
<1>3. QED
  BY <1>1, <1>2

(* No step adds a second dead letter, or one without a failed item.        *)
LEMMA DeadLetterExactKept ==
  ASSUME TypeOK, CreatedTogether, LockedRowIsStable, DeadLetterExact, [Next]_vars
  PROVE  DeadLetterExact'
<1> SUFFICES ASSUME NEW i \in Items
             PROVE  dead'[i] = IF item'[i] = "FAILED_FINAL" THEN 1 ELSE 0
  BY DEF DeadLetterExact
<1>1. dead[i] = IF item[i] = "FAILED_FINAL" THEN 1 ELSE 0
  BY DEF DeadLetterExact
<1>2. CASE dead'[i] = dead[i] /\ item'[i] = item[i]
  BY <1>1, <1>2
<1>3. CASE dead'[i] = dead[i] /\ ~\E w \in Workers : Finishes(w)
  BY <1>1, <1>3, ItemStep DEF Unfinished, Claimable
<1>4. CASE /\ item[i] = "RUNNING" /\ item'[i] \in Terminal
           /\ dead'[i] = IF item'[i] = "FAILED_FINAL" THEN dead[i] + 1 ELSE dead[i]
  BY <1>1, <1>4
<1>5. QED
  BY <1>2, <1>3, <1>4, DeadStep

(* A stored verdict belongs to a batch whose items are all finished.       *)
LEMMA FinalBatch ==
  ASSUME VerdictSound, NEW b \in Batches, batch[b] \in BatchFinal
  PROVE  (\A i \in ItemsOf(b) : item[i] \in Terminal) /\ Verdict(item, b) = batch[b]
BY DEF VerdictSound, ReportedStatus, BatchFinal

(* No step makes a stored verdict premature or wrong.                      *)
LEMMA VerdictSoundKept ==
  ASSUME TypeOK, CreatedTogether, LockedRowIsStable, VerdictSound, [Next]_vars
  PROVE  VerdictSound'
<1> SUFFICES ASSUME NEW b \in Batches, batch'[b] \in BatchFinal
             PROVE  /\ \A i \in ItemsOf(b) : item'[i] \in Terminal
                    /\ Verdict(item', b) = batch'[b]
  BY DEF VerdictSound, ReportedStatus, Verdict
<1>1. CASE batch'[b] = batch[b]
  <2>1. (\A i \in ItemsOf(b) : item[i] \in Terminal) /\ Verdict(item, b) = batch[b]
    BY <1>1, FinalBatch
  <2>2. \A i \in ItemsOf(b) : item'[i] = item[i]
    BY <2>1, ItemStep DEF ItemsOf, Terminal, Unfinished, Claimable
  <2>3. QED
    BY <1>1, <2>1, <2>2 DEF Verdict
<1>2. ASSUME NEW w \in Workers, Finishes(w), BatchOf[ItemAt(w)] = b,
             txn[w].rollup \in BatchFinal, batch'[b] = txn[w].rollup
      PROVE  /\ \A i \in ItemsOf(b) : item'[i] \in Terminal
             /\ Verdict(item', b) = batch'[b]
  <2>1. item' = [item EXCEPT ![ItemAt(w)] = txn[w].target]
    BY <1>2 DEF Finishes, WriteFinal
  <2>2. txn[w].rollup # "KEEP" /\ txn[w].rollup = Rollup(item', b)
    BY <1>2, <2>1 DEF LockedRowIsStable, Finishes, BatchFinal
  <2>3. QED
    BY <1>2, <2>2 DEF Rollup
<1>3. QED
  BY <1>1, <1>2, BatchStep DEF BatchFinal

(* A worker that claimed an item stays its only owner, unless the lease    *)
(* expires under it.                                                       *)
LEMMA OwnerIsAloneKept ==
  ASSUME TypeOK, CreatedTogether, FinishedBeforeAck, LockedRowIsStable, OwnerIsAlone,
         [Next]_vars
  PROVE  OwnerIsAlone'
<1> SUFFICES ASSUME NEW w \in Workers, NEW i \in Items, Owns(w, i)', i \notin stolen'
             PROVE  /\ item'[i] = "RUNNING" \/ (wpc'[w] = "interrupt" /\ item'[i] \in Terminal)
                    /\ \A v \in Workers : Owns(v, i)' => v = w
  BY DEF OwnerIsAlone
<1>1. i \notin stolen
  <2>1. stolen \subseteq stolen'
    BY StolenGrows
  <2>2. QED
    BY <2>1
<1>2. ASSUME NEW v \in Workers, Owns(v, i)'
      PROVE  /\ ItemAt(v) = i
             /\ \/ /\ Owns(v, i) 
                   /\ wpc'[v] # "interrupt" => wpc[v] # "interrupt"
                   /\ wpc'[v] = "exec" => wpc[v] = "exec"
                \/ /\ Claim(v) /\ wpc[v] = "claim" /\ wpc' = [wpc EXCEPT ![v] = "exec"]
                   /\ item[i] \in Claimable /\ item'[i] = "RUNNING"
  <2>1. wpc'[v] \in {"exec", "commit", "interrupt"} /\ ItemAt(v)' = i
    BY <1>2 DEF Owns
  <2>2. msg'[v] = msg[v] /\ msg[v] # 0
    BY <2>1, OwnerMoves
  <2>3. ItemAt(v) = i
    BY <2>1, <2>2, ItemAtKept
  <2>4. ASSUME Claim(v), item[ItemAt(v)] = seen[v]
        PROVE  /\ wpc[v] = "claim" /\ wpc' = [wpc EXCEPT ![v] = "exec"]
               /\ item[i] \in Claimable /\ item'[i] = "RUNNING"
    <3>1. item[i] # "ABSENT"
      BY <2>2, <2>3, ItemPresent
    <3>2. item[i] \in Claimable
      BY <2>3, <2>4, <3>1 DEF TypeOK, WorkersOK
    <3>3. QED
      BY <2>3, <2>4, <3>2 DEF Claim, TypeOK, DatabaseOK
  <2>5. QED
    BY <2>1, <2>3, <2>4, OwnerMoves DEF Owns
<1>3. CASE Owns(w, i)
  <2>1. /\ item[i] = "RUNNING" \/ (wpc[w] = "interrupt" /\ item[i] \in Terminal)
        /\ \A v \in Workers : Owns(v, i) => v = w
    BY <1>1, <1>3 DEF OwnerIsAlone
  <2>2. item[i] \notin Claimable /\ item[i] # "ABSENT"
    BY <2>1 DEF Claimable, Terminal
  <2>3. \A v \in Workers : Owns(v, i)' => v = w
    BY <1>2, <2>1, <2>2
  <2>4. item'[i] \notin Claimable
    <3>1. CASE item[i] = "RUNNING" /\ item'[i] \in Claimable
      <4>1. \A v \in Workers : Owns(v, i) => wpc'[v] \in {"exec", "commit", "interrupt"}
        BY <2>1 DEF Owns
      <4>2. i \in stolen'
        BY <1>3, <3>1, <4>1, TakenOver
      <4>3. QED
        BY <4>2
    <3>2. QED
      BY <2>1, <3>1, ItemStep DEF Claimable, Terminal, Unfinished
  <2>5. CASE item'[i] = item[i]
    BY <1>2, <2>1, <2>3, <2>5 DEF Terminal
  <2>6. ASSUME NEW x \in Workers, Finishes(x), ItemAt(x) = i, item'[i] \in Terminal
        PROVE  wpc'[w] = "interrupt"
    <3>1. x = w
      BY <2>1, <2>6 DEF Owns, Finishes
    <3>2. QED
      BY <1>2, <2>6, <3>1 DEF Finishes, Owns
  <2>7. QED
    BY <2>2, <2>3, <2>4, <2>5, <2>6, ItemStep DEF Unfinished, Claimable
<1>4. CASE ~Owns(w, i)
  <2>1. /\ wpc[w] = "claim" /\ wpc' = [wpc EXCEPT ![w] = "exec"]
        /\ item[i] \in Claimable /\ item'[i] = "RUNNING"
    BY <1>2, <1>4
  <2>2. ASSUME NEW v \in Workers, Owns(v, i)
        PROVE  FALSE
    BY <1>1, <2>1, <2>2 DEF OwnerIsAlone, Claimable, Terminal
  <2>3. ASSUME NEW v \in Workers, Owns(v, i)', v # w
        PROVE  FALSE
    <3>1. wpc[v] = "claim" /\ wpc' = [wpc EXCEPT ![v] = "exec"]
      BY <1>2, <2>2, <2>3
    <3>2. QED
      BY <2>1, <2>3, <3>1 DEF TypeOK, WorkersOK
  <2>4. QED
    BY <2>1, <2>3
<1>5. QED
  BY <1>3, <1>4

(* The invariant holds at the start and every step keeps it.               *)
THEOREM Inductive == IInv /\ [Next]_vars => IInv'
BY TypeInductive, CreatedTogetherKept, SentBeforeMarkedKept, FinishedBeforeAckKept,
   LockedRowIsStableKept, OwnerIsAloneKept, NoItemForgottenKept, DeadLetterExactKept,
   VerdictSoundKept DEF IInv

(* Every reachable state satisfies the inductive invariant.                *)
THEOREM Strengthened == Spec => []IInv
<1>1. Init => TypeOK
  BY DEF Init, TypeOK, DatabaseOK, RedisOK, PublishersOK, WorkersOK, HistoryOK,
         ItemStatus, BatchStatus, NoTxn, Txns
<1>2. ASSUME Init
      PROVE  CreatedTogether /\ SentBeforeMarked
  <2>1. Entries = {}
    BY <1>2 DEF Init, Entries
  <2>2. QED
    BY <1>2, <2>1, DeliveryAssumption DEF Init, CreatedTogether, SentBeforeMarked
<1>3. ASSUME Init
      PROVE  /\ FinishedBeforeAck /\ LockedRowIsStable /\ OwnerIsAlone
             /\ NoItemForgotten /\ DeadLetterExact /\ VerdictSound
  BY <1>3 DEF Init, FinishedBeforeAck, LockedRowIsStable, OwnerIsAlone, Owns, NoItemForgotten,
     DeadLetterExact, VerdictSound, Unfinished, Claimable, BatchFinal
<1>4. Init => IInv
  BY <1>1, <1>2, <1>3 DEF IInv
<1>5. QED
  BY <1>4, Inductive, PTL DEF Spec

(* No accepted file falls between PostgreSQL and Redis, for any number of  *)
(* workers, publishers, crashes and duplicates: its event is to be sent or *)
(* was given up, or a message for it is pending, or Redis lost it.         *)
THEOREM NothingForgotten == Spec => []NoItemForgotten
<1>1. IInv => NoItemForgotten
  BY DEF IInv
<1>2. QED
  BY <1>1, Strengthened, PTL

(* A FAILED_FINAL file has one dead letter and no other file has any.      *)
THEOREM DeadLettersExact == Spec => []DeadLetterExact
<1>1. IInv => DeadLetterExact
  BY DEF IInv
<1>2. QED
  BY <1>1, Strengthened, PTL

(* A stored verdict is the verdict of finished items, whatever the order   *)
(* in which concurrent finalisations read and commit.                      *)
THEOREM VerdictsSound == Spec => []VerdictSound
<1>1. IInv => VerdictSound
  BY DEF IInv
<1>2. QED
  BY <1>1, Strengthened, PTL

(* No late, duplicated or reclaimed execution rewrites a final status, its *)
(* dead letter or the verdict of a batch.                                  *)
THEOREM FinalStays == Spec => FinalIsForever
<1>1. ASSUME IInv, [Next]_vars
      PROVE  /\ \A i \in Items : item[i] \in Terminal =>
                  item'[i] = item[i] /\ dead'[i] = dead[i]
             /\ \A b \in Batches : batch[b] \in BatchFinal => batch'[b] = batch[b]
  <2> USE <1>1 DEF IInv
  <2>1. ASSUME NEW i \in Items, item[i] \in Terminal
        PROVE  item'[i] = item[i] /\ dead'[i] = dead[i]
    BY <2>1, ItemStep, DeadStep DEF Terminal, Unfinished, Claimable
  <2>2. ASSUME NEW b \in Batches, batch[b] \in BatchFinal
        PROVE  batch'[b] = batch[b]
    <3>1. \A i \in ItemsOf(b) : item[i] \in Terminal
      BY <2>2, FinalBatch
    <3>2. ASSUME NEW w \in Workers, Finishes(w), BatchOf[ItemAt(w)] = b
          PROVE  FALSE
      <4>1. ItemAt(w) \in Items
        BY <3>2, ItemAtTyped DEF Finishes, TypeOK, WorkersOK
      <4>2. item[ItemAt(w)] = "RUNNING"
        BY <3>2 DEF Finishes, LockedRowIsStable
      <4>3. QED
        BY <3>1, <3>2, <4>1, <4>2 DEF ItemsOf, Terminal
    <3>3. QED
      BY <2>2, <3>1, <3>2, BatchStep DEF BatchFinal, Terminal, Claimable
  <2>3. QED
    BY <2>1, <2>2
<1>2. QED
  BY <1>1, Strengthened, PTL DEF Spec, FinalIsForever

(* A message is acknowledged only when the final status of its item is     *)
(* committed.                                                              *)
THEOREM AcksFinished == Spec => AckOnlyFinished
<1>1. ASSUME IInv, [Next]_vars
      PROVE  \A m \in pel \ pel' : losses' # losses \/ item[stream[m]] \in Terminal
  <2> USE <1>1 DEF IInv
  <2>1. CASE RedisLoss
    BY <2>1 DEF RedisLoss, TypeOK, HistoryOK
  <2>2. CASE UNCHANGED pel \/ pel' = pel \cup {read + 1}
    BY <2>2
  <2>3. ASSUME NEW w \in Workers, pel' = pel \ {msg[w]}, item[ItemAt(w)] \in Terminal
        PROVE  \A m \in pel \ pel' : item[stream[m]] \in Terminal
    BY <2>3 DEF ItemAt
  <2>4. QED
    BY <2>1, <2>2, <2>3, RedisStep DEF redis
<1>2. QED
  BY <1>1, Strengthened, PTL DEF Spec, AckOnlyFinished

(* Through duplicate messages, lost claims, crashes and takeovers of dead  *)
(* workers, any number of workers never runs one item twice at a time      *)
(* unless a lease expires under a live owner.                              *)
THEOREM OwnersRunAlone == Spec => []OwnsWhatItRuns
<1>1. ASSUME IInv
      PROVE  OwnsWhatItRuns
  <2>1. SUFFICES ASSUME NEW w \in Workers, wpc[w] \in {"exec", "commit"}, ItemAt(w) \notin stolen
                 PROVE  /\ item[ItemAt(w)] = "RUNNING"
                        /\ \A v \in Workers : Owns(v, ItemAt(w)) => v = w
    BY DEF OwnsWhatItRuns
  <2>2. ItemAt(w) \in Items
    BY <1>1, <2>1, ItemAtTyped DEF IInv, TypeOK, WorkersOK
  <2>3. QED
    BY <1>1, <2>1, <2>2 DEF IInv, OwnerIsAlone, Owns
<1>2. QED
  BY <1>1, Strengthened, PTL

-----------------------------------------------------------------------------
(***************************************************************************)
(* With one worker.                                                        *)
(***************************************************************************)

(* Another batch does not enter a verdict.                                 *)
LEMMA RollupLocal ==
  ASSUME NEW st, NEW st2, NEW b, \A i \in ItemsOf(b) : st2[i] = st[i]
  PROVE  Rollup(st2, b) = Rollup(st, b)
BY DEF Rollup, Verdict

(* While the one worker's finalisation is open, the statuses of the batch  *)
(* stand still.                                                            *)
LEMMA RollupIsCurrentKept ==
  ASSUME OneWorker, TypeOK, CreatedTogether, FinishedBeforeAck, LockedRowIsStable,
         RollupIsCurrent, [Next]_vars
  PROVE  RollupIsCurrent'
<1> SUFFICES ASSUME NEW w \in Workers, wpc'[w] = "commit"
             PROVE  txn'[w].rollup = Rollup([item' EXCEPT ![ItemAt(w)'] = txn'[w].target],
                                            BatchOf[ItemAt(w)'])
  BY DEF RollupIsCurrent, Rollup, Verdict
<1> DEFINE I == ItemAt(w)
<1>1. I \in Items /\ ItemAt(w)' = I
  BY WorkerMoves, ItemAtKept
<1>2. item \in [Items -> ItemStatus] /\ item' \in [Items -> ItemStatus]
  BY TypeInductive DEF TypeOK, DatabaseOK
<1>3. CASE wpc[w] = "commit" /\ txn'[w] = txn[w]
  <2> DEFINE st == [item EXCEPT ![I] = txn[w].target]
             st2 == [item' EXCEPT ![I] = txn[w].target]
  <2>1. txn[w].rollup = Rollup(st, BatchOf[I]) /\ item[I] = "RUNNING"
    BY <1>3 DEF RollupIsCurrent, LockedRowIsStable
  <2>2. \A i \in ItemsOf(BatchOf[I]) : item'[i] = item[i]
    <3>1. CASE UNCHANGED item
      BY <3>1
    <3>2. ASSUME NEW b \in Batches, CreateBatch(b)
          PROVE  \A i \in ItemsOf(BatchOf[I]) : item'[i] = item[i]
      <4>1. batch[BatchOf[I]] # "ABSENT"
        BY <1>1, <2>1 DEF CreatedTogether
      <4>2. BatchOf[I] # b
        BY <3>2, <4>1 DEF CreateBatch
      <4>3. QED
        BY <3>2, <4>2 DEF CreateBatch, ItemsOf
    <3>3. ASSUME NEW v \in Workers, Claim(v) \/ Finishes(v)
          PROVE  FALSE
      <4>1. v = w
        BY DEF OneWorker
      <4>2. QED
        BY <1>3, <3>3, <4>1 DEF Claim, Finishes
    <3>4. ASSUME NEW v \in Workers, Expire(v) \/ Interrupt(v)
          PROVE  FALSE
      <4>1. v = w
        BY DEF OneWorker
      <4>2. QED
        BY <1>3, <3>4, <4>1 DEF Expire, Interrupt
    <3>5. QED
      BY <3>1, <3>2, <3>3, <3>4, ItemMovers
  <2>3. \A i \in ItemsOf(BatchOf[I]) : st2[i] = st[i]
    BY <1>1, <1>2, <2>2 DEF ItemsOf
  <2>4. Rollup(st2, BatchOf[I]) = Rollup(st, BatchOf[I])
    <3> HIDE DEF st, st2
    <3>1. QED
      BY <2>3, RollupLocal
  <2>5. QED
    BY <1>1, <1>3, <2>1, <2>4
<1>4. ASSUME NEW r \in Results, Conclude(w, r), item[I] = "RUNNING"
      PROVE  txn'[w].rollup = Rollup([item' EXCEPT ![I] = txn'[w].target], BatchOf[I])
  <2>1. txn' = [txn EXCEPT ![w] = [target |-> r,
                  rollup |-> Rollup([item EXCEPT ![I] = r], BatchOf[I])]]
    BY <1>4 DEF Conclude
  <2>2. item' = item
    BY <1>4 DEF Conclude, database
  <2>3. txn'[w].target = r /\ txn'[w].rollup = Rollup([item EXCEPT ![I] = r], BatchOf[I])
    BY <2>1 DEF TypeOK, WorkersOK
  <2>4. QED
    BY <2>2, <2>3
<1>5. QED
  BY <1>1, <1>3, <1>4, WorkerMoves

(* The finalisation of the last item stores the verdict.                   *)
LEMMA VerdictCompleteKept ==
  ASSUME OneWorker, TypeOK, CreatedTogether, LockedRowIsStable, RollupIsCurrent,
         VerdictComplete, [Next]_vars
  PROVE  VerdictComplete'
<1> SUFFICES ASSUME NEW b \in Batches, \A i \in ItemsOf(b) : item'[i] \in Terminal
             PROVE  batch'[b] = Verdict(item', b)
  BY DEF VerdictComplete, ReportedStatus, BatchFinal, Verdict
<1>1. PICK j \in ItemsOf(b) : TRUE
  BY DeliveryAssumption DEF ItemsOf
<1>2. CASE \A i \in ItemsOf(b) : item[i] \in Terminal
  <2>1. batch[b] # "ABSENT"
    BY <1>1, <1>2 DEF CreatedTogether, ItemsOf, Terminal
  <2>2. batch[b] = Verdict(item, b)
    BY <1>2, <2>1 DEF VerdictComplete, ReportedStatus, Verdict, BatchFinal
  <2>3. \A i \in ItemsOf(b) : item'[i] = item[i]
    BY <1>2, ItemStep DEF ItemsOf, Terminal, Unfinished, Claimable
  <2>4. ASSUME NEW w \in Workers, Finishes(w), BatchOf[ItemAt(w)] = b
        PROVE  FALSE
    <3>1. ItemAt(w) \in Items /\ item[ItemAt(w)] = "RUNNING"
      BY <2>4, ItemAtTyped DEF Finishes, LockedRowIsStable, TypeOK, WorkersOK
    <3>2. QED
      BY <1>2, <2>4, <3>1 DEF ItemsOf, Terminal
  <2>5. batch'[b] = batch[b]
    BY <1>2, <2>1, <2>4, BatchStep DEF Terminal, Claimable
  <2>6. QED
    BY <2>2, <2>3, <2>5 DEF Verdict
<1>3. ASSUME NEW i \in ItemsOf(b), item[i] \notin Terminal
      PROVE  batch'[b] = Verdict(item', b)
  <2>1. i \in Items /\ BatchOf[i] = b /\ item'[i] \in Terminal
    BY <1>3 DEF ItemsOf
  <2>2. PICK w \in Workers : Finishes(w) /\ ItemAt(w) = i
    BY <1>3, <2>1, ItemStep DEF Terminal, Unfinished, Claimable
  <2>3. item' = [item EXCEPT ![i] = txn[w].target]
    BY <2>2 DEF Finishes, WriteFinal
  <2>4. txn[w].rollup = Rollup(item', b)
    BY <2>1, <2>2, <2>3 DEF Finishes, RollupIsCurrent
  <2>5. Rollup(item', b) = Verdict(item', b) /\ Verdict(item', b) # "KEEP"
    BY DEF Rollup, Verdict
  <2>6. batch' = [batch EXCEPT ![b] = txn[w].rollup]
    BY <2>1, <2>2, <2>4, <2>5 DEF Finishes, WriteFinal
  <2>7. QED
    BY <2>4, <2>5, <2>6 DEF TypeOK, DatabaseOK
<1>4. QED
  BY <1>2, <1>3

(* What one worker keeps.                                                  *)
LEMMA SingleStrengthened ==
  ASSUME OneWorker
  PROVE  Spec => []SingleInv
<1>1. Init => RollupIsCurrent /\ VerdictComplete
  BY DEF Init, RollupIsCurrent, VerdictComplete
<1>2. IInv /\ RollupIsCurrent /\ VerdictComplete /\ [Next]_vars
        => RollupIsCurrent' /\ VerdictComplete'
  BY RollupIsCurrentKept, VerdictCompleteKept DEF IInv
<1>3. QED
  BY <1>1, <1>2, Strengthened, PTL DEF Spec, SingleInv

(* With one worker, the step that makes the last file of a batch final     *)
(* stores the verdict in the batch row: what the control plane recomputes  *)
(* as finished is finished in the row.                                     *)
THEOREM VerdictsComplete ==
  ASSUME OneWorker
  PROVE  Spec => []VerdictComplete
<1>1. SingleInv => VerdictComplete
  BY DEF SingleInv
<1>2. QED
  BY <1>1, SingleStrengthened, PTL

(* The state of the promise: an unfinished item and a batch without a      *)
(* verdict are open.                                                       *)
Outcome(st) == [i \in Items |-> IF st[i] \in Unfinished THEN "OPEN" ELSE st[i]]
Stored(bt) == [b \in Batches |-> IF bt[b] \in {"QUEUED", "RUNNING"} THEN "OPEN" ELSE bt[b]]

(* The promise counts verdicts as the finalisation does.                   *)
LEMMA VerdictMapped ==
  ASSUME NEW st \in [Items -> ItemStatus], NEW b
  PROVE  /\ \A i \in Items : Outcome(st)[i] \in Promise!Outcomes <=> st[i] \in Terminal
         /\ Promise!VerdictOf(Outcome(st), b) = Verdict(st, b)
BY DEF Outcome, Promise!Outcomes, Promise!VerdictOf, Promise!Members, Verdict, ItemsOf,
   ItemStatus, Unfinished, Claimable, Terminal

(* A batch that appears is accepted.                                       *)
LEMMA CreationAccepts ==
  ASSUME TypeOK, NEW b \in Batches, CreateBatch(b)
  PROVE  Promise!Accept(b)
<1>1. Stored(batch)[b] = "ABSENT"
  BY DEF CreateBatch, Stored
<1>2. Stored(batch') = [Stored(batch) EXCEPT ![b] = "OPEN"]
  BY DEF CreateBatch, Stored, TypeOK, DatabaseOK
<1>3. Outcome(item') = [i \in Items |-> IF BatchOf[i] = b THEN "OPEN" ELSE Outcome(item)[i]]
  BY DEF CreateBatch, Outcome, Unfinished, Claimable
<1>4. dead' = dead
  BY DEF CreateBatch
<1>5. QED
  BY <1>1, <1>2, <1>3, <1>4 DEF Promise!Accept, Outcome, Stored

(* A finalisation that takes effect resolves its item, and the batch with  *)
(* the last item.                                                          *)
LEMMA FinalisationResolves ==
  ASSUME TypeOK, DatabaseOK', LockedRowIsStable, RollupIsCurrent,
         NEW w \in Workers, Finishes(w), NEW I, NEW v, ItemAt(w) = I, txn[w].target = v
  PROVE  Promise!Resolve(I, v)
<1> DEFINE B == BatchOf[I]
<1>1. I \in Items /\ B \in Batches /\ v \in Terminal /\ item[I] = "RUNNING"
  BY ItemAtTyped DEF Finishes, LockedRowIsStable, TypeOK, WorkersOK
<1>2. /\ item' = [item EXCEPT ![I] = v]
      /\ dead' = [dead EXCEPT ![I] = IF v = "FAILED_FINAL" THEN @ + 1 ELSE @]
      /\ batch' = [batch EXCEPT ![B] = IF txn[w].rollup = "KEEP" THEN @ ELSE txn[w].rollup]
      /\ txn[w].rollup = Rollup(item', B)
  BY DEF Finishes, WriteFinal, RollupIsCurrent
<1> HIDE DEF B
<1>3. Outcome(item)[I] = "OPEN" /\ Outcome(item') = [Outcome(item) EXCEPT ![I] = v]
  BY <1>1, <1>2 DEF Outcome, Unfinished, Claimable, Terminal, TypeOK, DatabaseOK
<1>4. item' \in [Items -> ItemStatus]
  BY DEF DatabaseOK
<1>5. (\A j \in Promise!Members(B) : Outcome(item')[j] \in Promise!Outcomes)
        <=> \A j \in ItemsOf(B) : item'[j] \in Terminal
  BY <1>4, VerdictMapped DEF Promise!Members, ItemsOf
<1>6. Stored(batch') = [Stored(batch) EXCEPT ![B] =
        IF \A j \in Promise!Members(B) : Outcome(item')[j] \in Promise!Outcomes
          THEN Promise!VerdictOf(Outcome(item'), B) ELSE @]
  <2>1. CASE \A j \in ItemsOf(B) : item'[j] \in Terminal
    <3>1. txn[w].rollup = Verdict(item', B) /\ Verdict(item', B) \in BatchFinal
      BY <1>2, <2>1 DEF Rollup, Verdict, BatchFinal
    <3>2. batch' = [batch EXCEPT ![B] = Verdict(item', B)]
      BY <1>2, <3>1 DEF BatchFinal
    <3>3. Stored(batch') = [Stored(batch) EXCEPT ![B] = Verdict(item', B)]
      BY <1>1, <3>1, <3>2 DEF Stored, BatchFinal, TypeOK, DatabaseOK
    <3>4. QED
      BY <1>4, <1>5, <2>1, <3>3, VerdictMapped
  <2>2. CASE ~\A j \in ItemsOf(B) : item'[j] \in Terminal
    <3>1. batch' = batch
      BY <1>1, <1>2, <2>2 DEF Rollup, TypeOK, DatabaseOK
    <3>2. QED
      BY <1>1, <1>5, <2>2, <3>1 DEF Stored
  <2>3. QED
    BY <2>1, <2>2
<1>7. QED
  BY <1>2, <1>3, <1>6 DEF Promise!Resolve, Outcome, Stored, B

(* With one worker, the publishers, the stream, the duplicates and the     *)
(* crashes implement the promise made to the caller: every step accepts a  *)
(* batch, resolves one item (with its dead letter, and with the verdict    *)
(* when it is the last), or changes nothing that was promised.             *)
THEOREM DeliveryKeepsPromise ==
  ASSUME OneWorker
  PROVE  Spec => KeepsPromise
<1>1. Init => Promise!PromiseInit
  BY DEF Init, Promise!PromiseInit, Unfinished, Claimable
<1>2. ASSUME SingleInv, [Next]_vars
      PROVE  [Promise!PromiseNext]_(Promise!promiseVars)
  <2> USE <1>2 DEF SingleInv, IInv
  <2>1. CASE UNCHANGED <<item, batch, dead>>
    BY <2>1 DEF Promise!promiseVars
  <2>2. ASSUME NEW b \in Batches, CreateBatch(b)
        PROVE  Promise!PromiseNext
    BY <2>2, CreationAccepts DEF Promise!PromiseNext
  <2>3. ASSUME NEW i \in Items, SetInterrupted(i), UNCHANGED <<batch, dead>>
        PROVE  UNCHANGED Promise!promiseVars
    <3>1. Outcome(item') = Outcome(item)
      BY <2>3 DEF SetInterrupted, Outcome, Unfinished, Claimable, TypeOK, DatabaseOK
    <3>2. QED
      BY <2>3, <3>1 DEF Promise!promiseVars, Outcome
  <2>4. ASSUME NEW w \in Workers, Claim(w)
        PROVE  UNCHANGED Promise!promiseVars
    <3> DEFINE I == ItemAt(w)
    <3>1. I \in Items /\ BatchOf[I] \in Batches /\ item[I] # "ABSENT"
      BY <2>4, ItemAtTyped, ItemPresent DEF Claim, TypeOK, WorkersOK
    <3>2. CASE UNCHANGED <<item, batch>>
      BY <2>4, <3>2 DEF Claim, Promise!promiseVars
    <3>3. CASE item[I] = seen[w]
      <4>1. item[I] \in Claimable
        BY <3>1, <3>3 DEF TypeOK, WorkersOK
      <4>2. /\ item' = [item EXCEPT ![I] = "RUNNING"]
            /\ batch' = [batch EXCEPT ![BatchOf[I]] = "RUNNING"]
        BY <2>4, <3>3 DEF Claim
      <4>3. batch[BatchOf[I]] \in {"QUEUED", "RUNNING"}
        <5>1. batch[BatchOf[I]] # "ABSENT"
          BY <3>1 DEF CreatedTogether
        <5>2. batch[BatchOf[I]] \notin BatchFinal
          BY <3>1, <4>1, FinalBatch DEF ItemsOf, Claimable, Terminal
        <5>3. QED
          BY <3>1, <5>1, <5>2 DEF BatchStatus, TypeOK, DatabaseOK
      <4> HIDE DEF I
      <4>4. Outcome(item') = Outcome(item)
        BY <3>1, <4>1, <4>2 DEF Outcome, Unfinished, Claimable, TypeOK, DatabaseOK
      <4>5. Stored(batch') = Stored(batch)
        BY <3>1, <4>2, <4>3 DEF Stored, TypeOK, DatabaseOK
      <4>6. dead' = dead
        BY <2>4 DEF Claim
      <4>7. QED
        BY <4>4, <4>5, <4>6 DEF Promise!promiseVars, Outcome, Stored
    <3>4. QED
      BY <2>4, <3>2, <3>3 DEF Claim
  <2>5. ASSUME NEW w \in Workers, Finishes(w)
        PROVE  Promise!PromiseNext
    <3>1. PICK i \in Items, v \in Promise!Outcomes : ItemAt(w) = i /\ txn[w].target = v
      BY <2>5, ItemAtTyped DEF Finishes, TypeOK, WorkersOK, Terminal, Promise!Outcomes
    <3>2. Promise!Resolve(i, v)
      BY <2>5, <3>1, TypeInductive, FinalisationResolves DEF TypeOK
    <3>3. QED
      BY <3>2 DEF Promise!PromiseNext
  <2>6. QED
    BY <2>1, <2>2, <2>3, <2>4, <2>5, DatabaseStep
<1>3. QED
  BY <1>1, <1>2, SingleStrengthened, PTL DEF Spec, KeepsPromise, Promise!PromiseSpec
=============================================================================
