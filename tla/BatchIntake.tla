----------------------------- MODULE BatchIntake -----------------------------
(***************************************************************************)
(* POST /batches: requests with and without an Idempotency-Key create      *)
(* batches at once.  A request looks the key up, discovers the audio       *)
(* files, and then in one transaction locks the key, looks it up again,    *)
(* locks the capacity, counts the unfinished items and inserts the batch.  *)
(*                                                                         *)
(* The two locks are advisory locks of the transaction: its end, by commit,*)
(* exception or the death of the process, releases them.  The transactions *)
(* are READ COMMITTED, so that a look under a lock sees what its last      *)
(* holder committed.  What becomes of the outbox and the items is          *)
(* BatchDelivery; here an item is only finished or not.                    *)
(***************************************************************************)
EXTENDS Naturals, FiniteSets, FiniteSetsExt

CONSTANTS
  Clients,
  Keys,
  Sources,         \* directories under the audio root
  BatchIds,
  FileCounts,      \* what discovery may find in a directory, 0 included
  MaxBatchItems,   \* max_batch_items
  QueueMaxPending, \* queue_max_pending
  MaxRequests,     \* bound: requests of all clients
  NoKey, NoBatch

ASSUME IntakeAssumption ==
  /\ IsFiniteSet(BatchIds)
  /\ FileCounts \subseteq Nat
  /\ MaxBatchItems \in Nat \ {0} /\ QueueMaxPending \in Nat \ {0}
  /\ MaxRequests \in Nat
  /\ NoKey \notin Keys /\ NoBatch \notin BatchIds \cup Sources

VARIABLES
  batch,      \* batch_jobs with its creation request; absent ones have no source
  unfinished, \* items of each batch that are PENDING, RUNNING or INTERRUPTED
  request,    \* what each client asks and how far its handler is
  requests    \* requests made

intakeVars == <<batch, unfinished, request, requests>>

NoRow == [key |-> NoKey, source |-> NoBatch]

NoRequest == [pc |-> "idle", key |-> NoKey, source |-> NoBatch, known |-> NoBatch,
              files |-> 0, answer |-> "none", batch |-> NoBatch]

Created == {b \in BatchIds : batch[b] # NoRow}

(* The batch that batch_creation_requests names for a key.                 *)
BatchOfKey(k) ==
  IF k # NoKey /\ \E b \in Created : batch[b].key = k
  THEN CHOOSE b \in Created : batch[b].key = k ELSE NoBatch

PendingItemCount == MapThenSumSet(LAMBDA b : unfinished[b], BatchIds)

(* The transactions that hold the lock of a key, and that of the capacity. *)
HoldsKey(c, k) == request[c].key = k /\ request[c].pc \in {"count", "insert"}
HoldsCapacity(c) == request[c].pc = "insert"

-----------------------------------------------------------------------------
IntakeInit ==
  /\ batch = [b \in BatchIds |-> NoRow]
  /\ unfinished = [b \in BatchIds |-> 0]
  /\ request = [c \in Clients |-> NoRequest]
  /\ requests = 0

Ask(c, k, s) ==
  /\ request[c].pc \in {"idle", "answered"}
  /\ requests < MaxRequests
  /\ requests' = requests + 1
  /\ request' = [request EXCEPT ![c] =
       [NoRequest EXCEPT !.pc = IF k = NoKey THEN "discover" ELSE "lookup",
                         !.key = k, !.source = s, !.known = BatchOfKey(k)]]
  /\ UNCHANGED <<batch, unfinished>>

Goto(c, pc) == request' = [request EXCEPT ![c].pc = pc]

Answer(c, answer, b) ==
  request' = [request EXCEPT ![c] = [@ EXCEPT !.pc = "answered", !.answer = answer, !.batch = b]]

(* A key that is in use answers its batch, or is refused for another       *)
(* directory (409).                                                        *)
AnswerKnown(c, b) ==
  IF batch[b].source = request[c].source THEN Answer(c, "accepted", b) ELSE Answer(c, "conflict", b)

GetIdempotentBatch(c) ==
  /\ request[c].pc = "lookup"
  /\ LET b == BatchOfKey(request[c].key) IN
     IF b = NoBatch THEN Goto(c, "discover") ELSE AnswerKnown(c, b)
  /\ UNCHANGED <<batch, unfinished, requests>>

(* No audio file, or no such directory: 400.  Too many: 429.               *)
Discover(c) ==
  /\ request[c].pc = "discover"
  /\ \E n \in FileCounts :
       \/ n = 0 /\ Answer(c, "invalid", NoBatch)
       \/ n > MaxBatchItems /\ Answer(c, "capacity", NoBatch)
       \/ /\ n \in 1..MaxBatchItems
          /\ request' = [request EXCEPT ![c] =
               [@ EXCEPT !.files = n, !.pc = IF request[c].key = NoKey THEN "count" ELSE "recheck"]]
  /\ UNCHANGED <<batch, unfinished, requests>>

(* Faulty variant: the transaction looks the key up without its lock.      *)
LookAgainUnlocked(c) ==
  /\ request[c].pc = "recheck"
  /\ LET b == BatchOfKey(request[c].key) IN
     IF b = NoBatch THEN Goto(c, "count") ELSE AnswerKnown(c, b)
  /\ UNCHANGED <<batch, unfinished, requests>>

LookAgain(c) ==
  /\ request[c].pc = "recheck"
  /\ ~\E d \in Clients \ {c} : HoldsKey(d, request[c].key)
  /\ LET b == BatchOfKey(request[c].key) IN
     IF b = NoBatch THEN Goto(c, "count") ELSE AnswerKnown(c, b)
  /\ UNCHANGED <<batch, unfinished, requests>>

(* Faulty variant: the capacity is counted without its lock.               *)
CountUnlocked(c) ==
  /\ request[c].pc = "count"
  /\ IF PendingItemCount + request[c].files > QueueMaxPending
     THEN Answer(c, "capacity", NoBatch) ELSE Goto(c, "insert")
  /\ UNCHANGED <<batch, unfinished, requests>>

Count(c) ==
  /\ request[c].pc = "count"
  /\ ~\E d \in Clients \ {c} : HoldsCapacity(d)
  /\ IF PendingItemCount + request[c].files > QueueMaxPending
     THEN Answer(c, "capacity", NoBatch) ELSE Goto(c, "insert")
  /\ UNCHANGED <<batch, unfinished, requests>>

(* The insert of batch, items and key commits, unless the unique key was   *)
(* inserted meanwhile; the answer to a commit may be lost.                 *)
Insert(c) ==
  /\ request[c].pc = "insert"
  /\ IF BatchOfKey(request[c].key) # NoBatch
     THEN Answer(c, "duplicate", NoBatch) /\ UNCHANGED <<batch, unfinished>>
     ELSE \E b \in BatchIds \ Created :
            /\ batch' = [batch EXCEPT ![b] = [key |-> request[c].key, source |-> request[c].source]]
            /\ unfinished' = [unfinished EXCEPT ![b] = request[c].files]
            /\ Answer(c, "accepted", b) \/ Answer(c, "lost", NoBatch)
  /\ UNCHANGED requests

(* The handler raises or its process dies before the commit.               *)
Abort(c) ==
  /\ request[c].pc \notin {"idle", "answered"}
  /\ Answer(c, "lost", NoBatch)
  /\ UNCHANGED <<batch, unfinished, requests>>

(* The Worker writes the final status of an item.                          *)
FinishItem(b) ==
  /\ unfinished[b] > 0
  /\ unfinished' = [unfinished EXCEPT ![b] = @ - 1]
  /\ UNCHANGED <<batch, request, requests>>

-----------------------------------------------------------------------------
IntakeNext ==
  \/ \E c \in Clients :
       \/ \E k \in Keys \cup {NoKey}, s \in Sources : Ask(c, k, s)
       \/ GetIdempotentBatch(c) \/ Discover(c) \/ LookAgain(c) \/ Count(c) \/ Insert(c)
       \/ Abort(c)
  \/ \E b \in BatchIds : FinishItem(b)

IntakeSpec == IntakeInit /\ [][IntakeNext]_intakeVars

-----------------------------------------------------------------------------
Answers == {"none", "accepted", "conflict", "invalid", "capacity", "duplicate", "lost"}

Requests ==
  [pc : {"idle", "lookup", "discover", "recheck", "count", "insert", "answered"},
   key : Keys \cup {NoKey}, source : Sources \cup {NoBatch},
   known : BatchIds \cup {NoBatch}, files : Nat,
   answer : Answers, batch : BatchIds \cup {NoBatch}]

IntakeTypeOK ==
  /\ batch \in [BatchIds -> [key : Keys \cup {NoKey}, source : Sources] \cup {NoRow}]
  /\ unfinished \in [BatchIds -> Nat]
  /\ request \in [Clients -> Requests]
  /\ requests \in 0..MaxRequests

(* A request with a key never runs into the unique constraint of another   *)
(* one with that key, is accepted only with the batch of its key and its   *)
(* directory, and refused with a conflict only for another directory; once *)
(* the key had its batch when the request was made, nothing else, a full   *)
(* queue or a changed directory, decides the answer.                       *)
ReplayIsAnswered ==
  \A c \in Clients : LET r == request[c] IN
    r.pc = "answered" /\ r.key # NoKey =>
      /\ r.answer # "duplicate"
      /\ r.answer = "accepted" => batch[r.batch] = [key |-> r.key, source |-> r.source]
      /\ r.answer = "conflict" => batch[r.batch].key = r.key /\ batch[r.batch].source # r.source
      /\ r.known # NoBatch => r.answer = "lost" \/ r.batch = r.known

(* The unfinished items of all batches that requests create never exceed   *)
(* queue_max_pending, however many requests are accepted at once.  (The    *)
(* command line's ingest adds items without this check; it is not here.)   *)
QueueWithinLimit == PendingItemCount <= QueueMaxPending
=============================================================================
