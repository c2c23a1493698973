----------------------------- MODULE ReviewTasks -----------------------------
(***************************************************************************)
(* The decision of a human-review task.                                    *)
(*                                                                         *)
(* Reviewers work in review.html pages: they open a task, edit a draft and *)
(* submit it with the version they saw and an idempotency key.  Pages send *)
(* requests without waiting for the answers of earlier ones, answers come  *)
(* in any order or not at all, and a reviewer may submit again.  The API   *)
(* handles a submission in one transaction of PostgresReviewStore.submit:  *)
(* a look at the key without a lock, then, under the lock of the task's    *)
(* row, a second look, the checks and the writes.                          *)
(*                                                                         *)
(* A request that is lost, a transaction that is rolled back and an answer *)
(* that never arrives are ones that stay where they are for ever.          *)
(***************************************************************************)
EXTENDS Integers, FiniteSets

CONSTANTS
  Tasks,      \* review task ids, PENDING when the model starts
  Pages,      \* open review pages
  Outcomes,   \* drafts a reviewer may write; UNRESOLVED is one of them
  Default,    \* draft of a freshly opened task
  MaxLoads,   \* bound: task loads of each page
  MaxSends,   \* bound: submissions of each page
  None        \* no task, no key, no revision

ASSUME ReviewAssumption ==
  /\ Default \in Outcomes
  /\ MaxLoads \in [Pages -> Nat] /\ MaxSends \in [Pages -> Nat]
  /\ None \notin Tasks

VARIABLES
  \* PostgreSQL
  status, version, effective,   \* review_tasks
  revisions,                    \* review_revisions of the task
  \* the globals of each page's script, and what it displays
  current, seenVersion, submitKey, draft, shown, enabled,
  \* requests: loads and submissions under way, with their answers
  loads, posts,
  \* history and bounds
  told,                         \* submissions whose page was told they succeeded
  loaded, sent

database == <<status, version, effective, revisions>>
page     == <<current, seenVersion, submitKey, draft, shown, enabled>>
vars     == <<database, page, loads, posts, told, loaded, sent>>

-----------------------------------------------------------------------------
(* A key is drawn when a page submits without one: the page and a number.  *)
Keys == Pages \X Nat

(* The request hash covers the draft and nothing else.                     *)
Revisions == [key : Keys, draft : Outcomes]

TaskStatus == {"PENDING", "RESOLVED", "UNRESOLVED"}
Replies == {"OK", "IDEMPOTENCY_CONFLICT", "STATE_CONFLICT", "VERSION_CONFLICT"}

Loads == [page : Pages, n : Nat, task : Tasks, keep : BOOLEAN,
          status : TaskStatus \cup {"none"}, version : Nat]

Posts == [page : Pages, n : Nat, task : Tasks, seen : Tasks \cup {None},
          version : Nat, draft : Outcomes, key : Keys,
          at : {"sent", "checked"} \cup Replies]

(* The revision stored for the task under the key of a submission, if any. *)
SameKey(q) == {r \in revisions[q.task] : r.key = q.key}

(* Faulty variant: the request hash is not compared.                       *)
ReplayAny(q) == "OK"

(* A key that is already there is a replay when the drafts agree.          *)
Replay(q) ==
  IF \E r \in SameKey(q) : r.draft # q.draft THEN "IDEMPOTENCY_CONFLICT" ELSE "OK"

Reply(q, what) == posts' = (posts \ {q}) \cup {[q EXCEPT !.at = what]}

-----------------------------------------------------------------------------
Init ==
  /\ status = [t \in Tasks |-> "PENDING"]
  /\ version = [t \in Tasks |-> 1]
  /\ effective = [t \in Tasks |-> None]
  /\ revisions = [t \in Tasks |-> {}]
  /\ current = [p \in Pages |-> None]
  /\ seenVersion = [p \in Pages |-> 1]
  /\ submitKey = [p \in Pages |-> None]
  /\ draft = [p \in Pages |-> Default]
  /\ shown = [p \in Pages |-> None]
  /\ enabled = [p \in Pages |-> FALSE]
  /\ loads = {}
  /\ posts = {}
  /\ told = {}
  /\ loaded = [p \in Pages |-> 0]
  /\ sent = [p \in Pages |-> 0]

(***************************************************************************)
(* The page.                                                               *)
(***************************************************************************)
Load(p, t, keep) ==
  /\ loaded[p] < MaxLoads[p]
  /\ loaded' = [loaded EXCEPT ![p] = @ + 1]
  /\ loads' = loads \cup {[page |-> p, n |-> loaded[p] + 1, task |-> t, keep |-> keep,
                           status |-> "none", version |-> 0]}

(* Faulty variant: the click makes the task current before it is loaded.   *)
ClickSelects(p, t) ==
  /\ Load(p, t, FALSE)
  /\ current' = [current EXCEPT ![p] = t]
  /\ UNCHANGED <<database, seenVersion, submitKey, draft, shown, enabled, posts, told, sent>>

(* A task of the list is clicked: loadTask(taskId, false) is called.       *)
Click(p, t) ==
  /\ Load(p, t, FALSE)
  /\ UNCHANGED <<database, page, posts, told, sent>>

(* The reload button: loadTask(currentTaskId, true) keeps the draft.       *)
Reload(p) ==
  /\ current[p] # None
  /\ Load(p, current[p], TRUE)
  /\ UNCHANGED <<database, page, posts, told, sent>>

(* The task arrives: it becomes the current one, with a form of its own.   *)
Open(p, a) ==
  /\ a \in loads /\ a.page = p /\ a.status # "none"
  /\ loads' = loads \ {a}
  /\ current' = [current EXCEPT ![p] = a.task]
  /\ seenVersion' = [seenVersion EXCEPT ![p] = a.version]
  /\ submitKey' = [submitKey EXCEPT ![p] = None]
  /\ shown' = [shown EXCEPT ![p] = a.task]
  /\ enabled' = [enabled EXCEPT ![p] = a.status = "PENDING"]
  /\ draft' = [draft EXCEPT ![p] = IF a.keep THEN @ ELSE Default]
  /\ UNCHANGED <<database, posts, told, loaded, sent>>

Edit(p, d) ==
  /\ shown[p] # None
  /\ draft' = [draft EXCEPT ![p] = d]
  /\ UNCHANGED <<database, current, seenVersion, submitKey, shown, enabled,
                 loads, posts, told, loaded, sent>>

(* The form is submitted.  The key stays until a task is loaded, so that   *)
(* submitting again is a retry.  (seen records what the reviewer sees.)    *)
Submit(p) ==
  /\ current[p] # None /\ enabled[p]
  /\ sent[p] < MaxSends[p]
  /\ sent' = [sent EXCEPT ![p] = @ + 1]
  /\ submitKey' = [submitKey EXCEPT ![p] = IF @ = None THEN <<p, sent[p] + 1>> ELSE @]
  /\ posts' = posts \cup {[page |-> p, n |-> sent[p] + 1, task |-> current[p],
                           seen |-> shown[p], version |-> seenVersion[p],
                           draft |-> draft[p], key |-> submitKey'[p], at |-> "sent"]}
  /\ UNCHANGED <<database, current, seenVersion, draft, shown, enabled, loads, told, loaded>>

(* The answer of a submission arrives: a success renders the task it       *)
(* carries and takes its version, whatever task is current by then.  (The  *)
(* task was decided when the answer was written, and stays as it was.)     *)
Success(p, q) ==
  /\ q \in posts /\ q.page = p /\ q.at = "OK"
  /\ posts' = posts \ {q}
  /\ shown' = [shown EXCEPT ![p] = q.task]
  /\ enabled' = [enabled EXCEPT ![p] = status[q.task] = "PENDING"]
  /\ seenVersion' = [seenVersion EXCEPT ![p] = version[q.task]]
  /\ told' = told \cup {[task |-> q.task, key |-> q.key, draft |-> q.draft]}
  /\ UNCHANGED <<database, current, submitKey, draft, loads, loaded, sent>>

(* A conflict is displayed; the page and its draft stay as they are.       *)
Failure(p, q) ==
  /\ q \in posts /\ q.page = p /\ q.at \in Replies \ {"OK"}
  /\ posts' = posts \ {q}
  /\ UNCHANGED <<database, page, loads, told, loaded, sent>>

(***************************************************************************)
(* The API and its database.                                               *)
(***************************************************************************)
ReadTask(a) ==
  /\ a \in loads /\ a.status = "none"
  /\ loads' = (loads \ {a}) \cup
       {[a EXCEPT !.status = status[a.task], !.version = version[a.task]]}
  /\ UNCHANGED <<database, page, posts, told, loaded, sent>>

(* The first statement of submit, without a lock.                          *)
Check(q) ==
  /\ q \in posts /\ q.at = "sent"
  /\ IF SameKey(q) # {} THEN Reply(q, Replay(q)) ELSE Reply(q, "checked")
  /\ UNCHANGED <<database, page, loads, told, loaded, sent>>

(* Faulty variant: an undecided review gets an effective revision too.     *)
RecordKeepsPointer(q) ==
  /\ revisions' = [revisions EXCEPT ![q.task] = @ \cup {[key |-> q.key, draft |-> q.draft]}]
  /\ status' = [status EXCEPT ![q.task] =
       IF q.draft = "UNRESOLVED" THEN "UNRESOLVED" ELSE "RESOLVED"]
  /\ version' = [version EXCEPT ![q.task] = @ + 1]
  /\ effective' = [effective EXCEPT ![q.task] = q.key]

(* The revision and the conditional update of the task.                    *)
Record(q) ==
  /\ revisions' = [revisions EXCEPT ![q.task] = @ \cup {[key |-> q.key, draft |-> q.draft]}]
  /\ status' = [status EXCEPT ![q.task] =
       IF q.draft = "UNRESOLVED" THEN "UNRESOLVED" ELSE "RESOLVED"]
  /\ version' = [version EXCEPT ![q.task] = @ + 1]
  /\ effective' = [effective EXCEPT ![q.task] =
       IF q.draft = "UNRESOLVED" THEN None ELSE q.key]

(* What the checks under the row's lock decide.                            *)
Judgement(q) ==
  IF SameKey(q) # {} THEN Replay(q)
  ELSE IF status[q.task] # "PENDING" THEN "STATE_CONFLICT"
  ELSE IF version[q.task] # q.version THEN "VERSION_CONFLICT"
  ELSE "RECORD"

(* Faulty variant: the key is not looked up again under the lock.          *)
DecideWithoutSecondLook(q) ==
  /\ q \in posts /\ q.at = "checked"
  /\ IF status[q.task] # "PENDING" THEN Reply(q, "STATE_CONFLICT") /\ UNCHANGED database
     ELSE Record(q) /\ Reply(q, "OK")
  /\ UNCHANGED <<page, loads, told, loaded, sent>>

(* Faulty variant: neither status nor version are checked.                 *)
DecideUnchecked(q) ==
  /\ q \in posts /\ q.at = "checked"
  /\ IF SameKey(q) # {} THEN Reply(q, Replay(q)) /\ UNCHANGED database
     ELSE Record(q) /\ Reply(q, "OK")
  /\ UNCHANGED <<page, loads, told, loaded, sent>>

(* The locked part of submit.  SELECT ... FOR UPDATE makes the submissions *)
(* of a task take turns, each reading what the one before committed; so    *)
(* neither the conditional update nor a unique key can fail here.          *)
Decide(q) ==
  /\ q \in posts /\ q.at = "checked"
  /\ IF Judgement(q) = "RECORD"
       THEN Record(q) /\ Reply(q, "OK")
       ELSE Reply(q, Judgement(q)) /\ UNCHANGED database
  /\ UNCHANGED <<page, loads, told, loaded, sent>>

-----------------------------------------------------------------------------
PageStep(p) ==
  \/ \E t \in Tasks : Click(p, t)
  \/ Reload(p)
  \/ \E a \in loads : Open(p, a)
  \/ \E d \in Outcomes : Edit(p, d)
  \/ Submit(p)
  \/ \E q \in posts : Success(p, q) \/ Failure(p, q)

ServerStep ==
  \/ \E a \in loads : ReadTask(a)
  \/ \E q \in posts : Check(q) \/ Decide(q)

Next == (\E p \in Pages : PageStep(p)) \/ ServerStep

Spec == Init /\ [][Next]_vars

-----------------------------------------------------------------------------
(***************************************************************************)
(* Properties.                                                             *)
(***************************************************************************)

(* Every variable has its type; in particular every submission under way   *)
(* carries an idempotency key.                                             *)
TypeOK ==
  /\ status \in [Tasks -> TaskStatus]
  /\ version \in [Tasks -> Nat]
  /\ effective \in [Tasks -> Keys \cup {None}]
  /\ revisions \in [Tasks -> SUBSET Revisions]
  /\ current \in [Pages -> Tasks \cup {None}]
  /\ seenVersion \in [Pages -> Nat]
  /\ submitKey \in [Pages -> Keys \cup {None}]
  /\ draft \in [Pages -> Outcomes]
  /\ shown \in [Pages -> Tasks \cup {None}]
  /\ enabled \in [Pages -> BOOLEAN]
  /\ loads \subseteq Loads
  /\ posts \subseteq Posts
  /\ told \subseteq [task : Tasks, key : Keys, draft : Outcomes]
  /\ loaded \in [Pages -> Nat]
  /\ sent \in [Pages -> Nat]

(* Status, version, revision and effective pointer of a task always tell   *)
(* the same story: nothing was decided, or one revision was recorded, and  *)
(* it is the effective one unless the reviewer could not decide either.    *)
DecisionExact ==
  \A t \in Tasks :
    \/ /\ status[t] = "PENDING" /\ version[t] = 1
       /\ effective[t] = None /\ revisions[t] = {}
    \/ \E r \in revisions[t] :
         /\ revisions[t] = {r} /\ version[t] = 2
         /\ IF r.draft = "UNRESOLVED"
              THEN status[t] = "UNRESOLVED" /\ effective[t] = None
              ELSE status[t] = "RESOLVED" /\ effective[t] = r.key

(* A reviewer who is told that a submission succeeded has that very draft  *)
(* recorded: not somebody else's, and not an earlier draft under the key   *)
(* of a retry whose first answer was lost.                                 *)
SuccessIsTrue ==
  \A s \in told : [key |-> s.key, draft |-> s.draft] \in revisions[s.task]

(* A retry of the recorded submission is answered as a replay: it is never *)
(* mistaken for a competing decision, even when it overtakes the original. *)
NoFalseConflict ==
  \A q \in posts :
    q.at \in {"STATE_CONFLICT", "VERSION_CONFLICT"} => SameKey(q) = {}

(* A page submits only for the task its reviewer looks at, in the version  *)
(* displayed, in whatever order the answers of loads and submissions       *)
(* arrive.                                                                 *)
NoBlindSubmit ==
  \A q \in posts : q.seen = q.task /\ q.version = 1

(***************************************************************************)
(* The inductive invariant behind the invariants above.                    *)
(***************************************************************************)

(* A form that can be submitted is the form of the current task, in the    *)
(* version of an undecided task.                                           *)
FormsCurrent ==
  /\ \A p \in Pages : enabled[p] => shown[p] = current[p] /\ seenVersion[p] = 1
  /\ \A a \in loads : a.status = "PENDING" => a.version = 1

(* The answers under way agree with the database.                          *)
AnswersTrue ==
  \A q \in posts :
    /\ q.at = "OK" => [key |-> q.key, draft |-> q.draft] \in revisions[q.task]
    /\ q.at \in {"STATE_CONFLICT", "VERSION_CONFLICT"} => status[q.task] # "PENDING"

IInv ==
  /\ TypeOK
  /\ DecisionExact
  /\ SuccessIsTrue
  /\ NoFalseConflict
  /\ NoBlindSubmit
  /\ FormsCurrent
  /\ AnswersTrue

(* A decision is final: no later submission changes a decided task.        *)
DecidedForever ==
  [][\A t \in Tasks : status[t] # "PENDING" =>
       /\ status'[t] = status[t] /\ version'[t] = version[t]
       /\ effective'[t] = effective[t] /\ revisions'[t] = revisions[t]]_vars
=============================================================================
