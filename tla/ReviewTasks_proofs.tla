------------------------- MODULE ReviewTasks_proofs -------------------------
(***************************************************************************)
(* Theorems about ReviewTasks, for any number of tasks, pages, loads and   *)
(* submissions.                                                            *)
(***************************************************************************)
EXTENDS ReviewTasks, TLAPS

(* A load that is sent is a load.                                          *)
LEMMA LoadTyped ==
  ASSUME TypeOK, NEW p \in Pages, NEW t \in Tasks, NEW keep \in BOOLEAN, Load(p, t, keep)
  PROVE  loads' \subseteq Loads /\ loaded' \in [Pages -> Nat]
<1>1. [page |-> p, n |-> loaded[p] + 1, task |-> t, keep |-> keep,
       status |-> "none", version |-> 0] \in Loads
  BY DEF TypeOK, Loads
<1>2. QED
  BY <1>1 DEF Load, TypeOK

(* An answer is noted on its submission and changes nothing else of it.    *)
LEMMA Answered ==
  ASSUME NEW q \in Posts, NEW what \in {"sent", "checked"} \cup Replies
  PROVE  LET r == [q EXCEPT !.at = what]
         IN  /\ r \in Posts /\ r.at = what /\ r.task = q.task /\ r.seen = q.seen
             /\ r.version = q.version /\ r.key = q.key /\ r.draft = q.draft
BY DEF Posts

(* A replay that is answered OK is one of the recorded draft.              *)
LEMMA Replayed ==
  ASSUME TypeOK, NEW q \in posts, SameKey(q) # {}
  PROVE  /\ Replay(q) \in {"OK", "IDEMPOTENCY_CONFLICT"}
         /\ Replay(q) = "OK" => [key |-> q.key, draft |-> q.draft] \in revisions[q.task]
<1>1. q \in Posts /\ revisions[q.task] \subseteq Revisions
  BY DEF TypeOK, Posts
<1>2. PICK r \in SameKey(q) : TRUE
  OBVIOUS
<1>3. r \in revisions[q.task] /\ r.key = q.key /\ r \in Revisions
  BY <1>1, <1>2 DEF SameKey
<1>4. r = [key |-> r.key, draft |-> r.draft]
  BY <1>3 DEF Revisions
<1>5. Replay(q) = "OK" => r.draft = q.draft
  BY <1>2 DEF Replay
<1>6. QED
  BY <1>3, <1>4, <1>5 DEF Replay

(* The strengthened invariant is kept by every step.                       *)
LEMMA Inductive == IInv /\ [Next]_vars => IInv'
<1> SUFFICES ASSUME IInv, [Next]_vars PROVE IInv'
  OBVIOUS
<1> USE ReviewAssumption
<1> USE DEF IInv, TypeOK, database, page, Keys, Revisions, TaskStatus, Replies
<1>1. ASSUME NEW p \in Pages, NEW t \in Tasks, Click(p, t)
      PROVE  IInv'
  <2>1. TypeOK'
    BY <1>1, LoadTyped DEF Click, TypeOK, database, page
  <2>2. DecisionExact'
    BY <1>1 DEF Click, Load, DecisionExact
  <2>3. SuccessIsTrue'
    BY <1>1 DEF Click, Load, SuccessIsTrue
  <2>4. NoFalseConflict'
    BY <1>1 DEF Click, Load, NoFalseConflict, SameKey
  <2>5. NoBlindSubmit'
    BY <1>1 DEF Click, Load, NoBlindSubmit
  <2>6. FormsCurrent'
    BY <1>1 DEF Click, Load, FormsCurrent
  <2>7. AnswersTrue'
    BY <1>1 DEF Click, Load, AnswersTrue
  <2> QED
    BY <2>1, <2>2, <2>3, <2>4, <2>5, <2>6, <2>7
<1>2. ASSUME NEW p \in Pages, Reload(p)
      PROVE  IInv'
  <2>1. TypeOK'
    BY <1>2, LoadTyped DEF Reload, TypeOK, database, page
  <2>2. DecisionExact'
    BY <1>2 DEF Reload, Load, DecisionExact
  <2>3. SuccessIsTrue'
    BY <1>2 DEF Reload, Load, SuccessIsTrue
  <2>4. NoFalseConflict'
    BY <1>2 DEF Reload, Load, NoFalseConflict, SameKey
  <2>5. NoBlindSubmit'
    BY <1>2 DEF Reload, Load, NoBlindSubmit
  <2>6. FormsCurrent'
    BY <1>2 DEF Reload, Load, FormsCurrent
  <2>7. AnswersTrue'
    BY <1>2 DEF Reload, Load, AnswersTrue
  <2> QED
    BY <2>1, <2>2, <2>3, <2>4, <2>5, <2>6, <2>7
<1>3. ASSUME NEW p \in Pages, NEW a \in loads, Open(p, a)
      PROVE  IInv'
  <2>1. TypeOK'
    BY <1>3 DEF Open, TypeOK, Loads
  <2>2. DecisionExact'
    BY <1>3 DEF Open, DecisionExact
  <2>3. SuccessIsTrue'
    BY <1>3 DEF Open, SuccessIsTrue
  <2>4. NoFalseConflict'
    BY <1>3 DEF Open, NoFalseConflict, SameKey
  <2>5. NoBlindSubmit'
    BY <1>3 DEF Open, NoBlindSubmit
  <2>6. FormsCurrent'
    BY <1>3 DEF Open, FormsCurrent
  <2>7. AnswersTrue'
    BY <1>3 DEF Open, AnswersTrue
  <2> QED
    BY <2>1, <2>2, <2>3, <2>4, <2>5, <2>6, <2>7
<1>4. ASSUME NEW p \in Pages, NEW d \in Outcomes, Edit(p, d)
      PROVE  IInv'
  <2>1. TypeOK'
    BY <1>4 DEF Edit, TypeOK
  <2>2. DecisionExact'
    BY <1>4 DEF Edit, DecisionExact
  <2>3. SuccessIsTrue'
    BY <1>4 DEF Edit, SuccessIsTrue
  <2>4. NoFalseConflict'
    BY <1>4 DEF Edit, NoFalseConflict, SameKey
  <2>5. NoBlindSubmit'
    BY <1>4 DEF Edit, NoBlindSubmit
  <2>6. FormsCurrent'
    BY <1>4 DEF Edit, FormsCurrent
  <2>7. AnswersTrue'
    BY <1>4 DEF Edit, AnswersTrue
  <2> QED
    BY <2>1, <2>2, <2>3, <2>4, <2>5, <2>6, <2>7
<1>5. ASSUME NEW p \in Pages, Submit(p)
      PROVE  IInv'
  <2> DEFINE new == [page |-> p, n |-> sent[p] + 1, task |-> current[p],
                     seen |-> shown[p], version |-> seenVersion[p],
                     draft |-> draft[p], key |-> submitKey'[p], at |-> "sent"]
  <2>01. submitKey' \in [Pages -> Keys \cup {None}] /\ submitKey'[p] \in Keys
    BY <1>5 DEF Submit, TypeOK, Keys
  <2>0. /\ posts' = posts \cup {new} /\ new \in Posts
        /\ new.at = "sent" /\ new.task = current[p] /\ new.seen = shown[p]
        /\ new.version = seenVersion[p]
        /\ submitKey' \in [Pages -> Keys \cup {None}]
    BY <1>5, <2>01 DEF Submit, TypeOK, Posts
  <2> HIDE DEF new
  <2>1. TypeOK'
    BY <1>5, <2>0 DEF Submit, TypeOK
  <2>2. DecisionExact'
    BY <1>5 DEF Submit, DecisionExact
  <2>3. SuccessIsTrue'
    BY <1>5 DEF Submit, SuccessIsTrue
  <2>4. NoFalseConflict'
    BY <1>5, <2>0 DEF Submit, NoFalseConflict, SameKey
  <2>5. NoBlindSubmit'
    BY <1>5, <2>0 DEF Submit, NoBlindSubmit, FormsCurrent
  <2>6. FormsCurrent'
    BY <1>5 DEF Submit, FormsCurrent
  <2>7. AnswersTrue'
    BY <1>5, <2>0 DEF Submit, AnswersTrue
  <2> QED
    BY <2>1, <2>2, <2>3, <2>4, <2>5, <2>6, <2>7
<1>6. ASSUME NEW p \in Pages, NEW q \in posts, Success(p, q)
      PROVE  IInv'
  <2> DEFINE new == [task |-> q.task, key |-> q.key, draft |-> q.draft]
  <2>00. /\ told' = told \cup {new} /\ UNCHANGED revisions
         /\ [key |-> new.key, draft |-> new.draft] \in revisions[new.task]
    BY <1>6 DEF Success, AnswersTrue
  <2> HIDE DEF new
  <2>0. status[q.task] # "PENDING"
    BY <1>6 DEF Success, AnswersTrue, DecisionExact, TypeOK, Posts
  <2>1. TypeOK'
    BY <1>6 DEF Success, TypeOK, Posts
  <2>2. DecisionExact'
    BY <1>6 DEF Success, DecisionExact
  <2>3. SuccessIsTrue'
    BY <1>6, <2>00 DEF SuccessIsTrue
  <2>4. NoFalseConflict'
    BY <1>6 DEF Success, NoFalseConflict, SameKey
  <2>5. NoBlindSubmit'
    BY <1>6 DEF Success, NoBlindSubmit
  <2>6. FormsCurrent'
    BY <1>6, <2>0 DEF Success, FormsCurrent
  <2>7. AnswersTrue'
    BY <1>6 DEF Success, AnswersTrue
  <2> QED
    BY <2>1, <2>2, <2>3, <2>4, <2>5, <2>6, <2>7
<1>7. ASSUME NEW p \in Pages, NEW q \in posts, Failure(p, q)
      PROVE  IInv'
  <2>1. TypeOK'
    BY <1>7 DEF Failure, TypeOK
  <2>2. DecisionExact'
    BY <1>7 DEF Failure, DecisionExact
  <2>3. SuccessIsTrue'
    BY <1>7 DEF Failure, SuccessIsTrue
  <2>4. NoFalseConflict'
    BY <1>7 DEF Failure, NoFalseConflict, SameKey
  <2>5. NoBlindSubmit'
    BY <1>7 DEF Failure, NoBlindSubmit
  <2>6. FormsCurrent'
    BY <1>7 DEF Failure, FormsCurrent
  <2>7. AnswersTrue'
    BY <1>7 DEF Failure, AnswersTrue
  <2> QED
    BY <2>1, <2>2, <2>3, <2>4, <2>5, <2>6, <2>7
<1>8. ASSUME NEW a \in loads, ReadTask(a)
      PROVE  IInv'
  <2> DEFINE b == [a EXCEPT !.status = status[a.task], !.version = version[a.task]]
  <2>0. b \in Loads /\ (b.status = "PENDING" => b.version = 1) /\ loads' = (loads \ {a}) \cup {b}
    <3>1. a \in Loads /\ a.task \in Tasks
      BY DEF Loads
    <3>2. status[a.task] \in TaskStatus /\ version[a.task] \in Nat
      BY <3>1
    <3>3. b \in Loads /\ b.status = status[a.task] /\ b.version = version[a.task]
      BY <3>1, <3>2 DEF Loads
    <3>4. status[a.task] = "PENDING" => version[a.task] = 1
      BY <3>1 DEF DecisionExact
    <3>5. QED
      BY <1>8, <3>3, <3>4 DEF ReadTask
  <2> HIDE DEF b
  <2>1. TypeOK'
    BY <1>8, <2>0 DEF ReadTask, TypeOK
  <2>2. DecisionExact'
    BY <1>8 DEF ReadTask, DecisionExact
  <2>3. SuccessIsTrue'
    BY <1>8 DEF ReadTask, SuccessIsTrue
  <2>4. NoFalseConflict'
    BY <1>8 DEF ReadTask, NoFalseConflict, SameKey
  <2>5. NoBlindSubmit'
    BY <1>8 DEF ReadTask, NoBlindSubmit
  <2>6. FormsCurrent'
    BY <1>8, <2>0 DEF ReadTask, FormsCurrent
  <2>7. AnswersTrue'
    BY <1>8 DEF ReadTask, AnswersTrue
  <2> QED
    BY <2>1, <2>2, <2>3, <2>4, <2>5, <2>6, <2>7
<1>9. ASSUME NEW q \in posts, Check(q)
      PROVE  IInv'
  <2>01. PICK what \in {"checked", "OK", "IDEMPOTENCY_CONFLICT"} :
           /\ Reply(q, what)
           /\ what = "OK" => [key |-> q.key, draft |-> q.draft] \in revisions[q.task]
    BY <1>9, Replayed DEF Check, TypeOK
  <2>0. /\ q \in Posts /\ posts' = (posts \ {q}) \cup {[q EXCEPT !.at = what]}
    BY <2>01 DEF Reply, TypeOK
  <2>02. LET r == [q EXCEPT !.at = what]
         IN  /\ r \in Posts /\ r.at = what /\ r.task = q.task /\ r.seen = q.seen
             /\ r.version = q.version /\ r.key = q.key /\ r.draft = q.draft
    BY <2>0, Answered DEF Replies
  <2>1. TypeOK'
    BY <1>9, <2>0, <2>01, <2>02 DEF Check, TypeOK
  <2>2. DecisionExact'
    BY <1>9 DEF Check, DecisionExact
  <2>3. SuccessIsTrue'
    BY <1>9 DEF Check, SuccessIsTrue
  <2>4. NoFalseConflict'
    BY <1>9, <2>0, <2>01, <2>02 DEF Check, NoFalseConflict, SameKey
  <2>5. NoBlindSubmit'
    BY <1>9, <2>0, <2>01, <2>02 DEF Check, NoBlindSubmit
  <2>6. FormsCurrent'
    BY <1>9 DEF Check, FormsCurrent
  <2>7. AnswersTrue'
    BY <1>9, <2>0, <2>01, <2>02 DEF Check, AnswersTrue
  <2> QED
    BY <2>1, <2>2, <2>3, <2>4, <2>5, <2>6, <2>7

<1>10. ASSUME NEW q \in posts, Decide(q)
      PROVE  IInv'
  <2>0. q \in Posts /\ q.task \in Tasks /\ q.version = 1
    BY DEF Posts, NoBlindSubmit
  <2>a. ASSUME Judgement(q) # "RECORD" PROVE IInv'
    <3>1. PICK what \in {"OK", "IDEMPOTENCY_CONFLICT", "STATE_CONFLICT", "VERSION_CONFLICT"} :
             /\ posts' = (posts \ {q}) \cup {[q EXCEPT !.at = what]}
             /\ what = "OK" => [key |-> q.key, draft |-> q.draft] \in revisions[q.task]
             /\ what \in {"STATE_CONFLICT", "VERSION_CONFLICT"} =>
                  SameKey(q) = {} /\ status[q.task] # "PENDING"
      <4>1. status[q.task] = "PENDING" => version[q.task] = 1
        BY <2>0 DEF DecisionExact
      <4>2. CASE SameKey(q) # {}
        BY <1>10, <2>a, <4>2, Replayed DEF Decide, Judgement, Reply
      <4>3. CASE SameKey(q) = {}
        BY <1>10, <2>a, <2>0, <4>1, <4>3 DEF Decide, Judgement, Reply
      <4>4. QED
        BY <4>2, <4>3
    <3>2. UNCHANGED <<database, page, loads, told, loaded, sent>>
      BY <1>10, <2>a DEF Decide
    <3>3. LET r == [q EXCEPT !.at = what]
          IN  /\ r \in Posts /\ r.at = what /\ r.task = q.task /\ r.seen = q.seen
              /\ r.version = q.version /\ r.key = q.key /\ r.draft = q.draft
      BY <2>0, Answered
    <3>4. TypeOK'
      BY <3>1, <3>2, <3>3
    <3>5. DecisionExact' /\ SuccessIsTrue' /\ FormsCurrent'
      BY <3>2 DEF DecisionExact, SuccessIsTrue, FormsCurrent
    <3>6. NoFalseConflict'
      <4> SUFFICES ASSUME NEW s \in posts', s.at \in {"STATE_CONFLICT", "VERSION_CONFLICT"}
                   PROVE  {x \in revisions[s.task] : x.key = s.key} = {}
        BY <3>2 DEF NoFalseConflict, SameKey
      <4>1. CASE s \in posts
        BY <4>1 DEF NoFalseConflict, SameKey
      <4>2. CASE s = [q EXCEPT !.at = what]
        BY <3>1, <3>3, <4>2 DEF SameKey
      <4>3. QED
        BY <3>1, <4>1, <4>2
    <3>7. NoBlindSubmit'
      BY <3>1, <3>2, <3>3 DEF NoBlindSubmit
    <3>8. AnswersTrue'
      BY <3>1, <3>2, <3>3 DEF AnswersTrue
    <3>9. QED
      BY <3>4, <3>5, <3>6, <3>7, <3>8
  <2>b. ASSUME Judgement(q) = "RECORD" PROVE IInv'
    <3> DEFINE new == [key |-> q.key, draft |-> q.draft]
    <3>1. SameKey(q) = {} /\ status[q.task] = "PENDING" /\ version[q.task] = 1
      BY <2>b, <2>0 DEF Judgement, Replay
    <3>2. revisions[q.task] = {} /\ effective[q.task] = None
      BY <3>1, <2>0 DEF DecisionExact
    <3>3. new \in Revisions /\ new.key = q.key /\ new.draft = q.draft /\ q.key \in Keys
      BY <2>0 DEF Posts
    <3>4. /\ UNCHANGED <<page, loads, told, loaded, sent>>
          /\ revisions' = [revisions EXCEPT ![q.task] = {new}]
          /\ version' = [version EXCEPT ![q.task] = 2]
          /\ status' = [status EXCEPT ![q.task] =
               IF q.draft = "UNRESOLVED" THEN "UNRESOLVED" ELSE "RESOLVED"]
          /\ effective' = [effective EXCEPT ![q.task] =
               IF q.draft = "UNRESOLVED" THEN None ELSE q.key]
          /\ posts' = (posts \ {q}) \cup {[q EXCEPT !.at = "OK"]}
      BY <1>10, <2>b, <2>0, <3>1, <3>2 DEF Decide, Record, Reply
    <3>5. LET r == [q EXCEPT !.at = "OK"]
          IN  /\ r \in Posts /\ r.at = "OK" /\ r.task = q.task /\ r.seen = q.seen
              /\ r.version = q.version /\ r.key = q.key /\ r.draft = q.draft
      BY <2>0, Answered
    <3> HIDE DEF new
    <3>6. TypeOK'
      BY <3>3, <3>4, <3>5, <2>0
    <3>7. DecisionExact'
      <4> SUFFICES ASSUME NEW t \in Tasks
                   PROVE  \/ /\ status'[t] = "PENDING" /\ version'[t] = 1
                             /\ effective'[t] = None /\ revisions'[t] = {}
                          \/ \E r \in revisions'[t] :
                               /\ revisions'[t] = {r} /\ version'[t] = 2
                               /\ IF r.draft = "UNRESOLVED"
                                    THEN status'[t] = "UNRESOLVED" /\ effective'[t] = None
                                    ELSE status'[t] = "RESOLVED" /\ effective'[t] = r.key
        BY DEF DecisionExact
      <4>1. CASE t = q.task
        <5>1. revisions'[t] = {new} /\ version'[t] = 2
          BY <3>4, <4>1, <2>0
        <5>2. IF new.draft = "UNRESOLVED"
                THEN status'[t] = "UNRESOLVED" /\ effective'[t] = None
                ELSE status'[t] = "RESOLVED" /\ effective'[t] = new.key
          BY <3>3, <3>4, <4>1, <2>0
        <5>3. QED
          BY <5>1, <5>2
      <4>2. CASE t # q.task
        BY <3>4, <4>2, <2>0 DEF DecisionExact
      <4>3. QED
        BY <4>1, <4>2
    <3>8. SuccessIsTrue'
      BY <3>2, <3>4, <2>0 DEF SuccessIsTrue
    <3>9. NoFalseConflict'
      <4> SUFFICES ASSUME NEW s \in posts', s.at \in {"STATE_CONFLICT", "VERSION_CONFLICT"}
                   PROVE  {x \in revisions'[s.task] : x.key = s.key} = {}
        BY DEF NoFalseConflict, SameKey
      <4>1. s \in posts /\ s \in Posts /\ s.task \in Tasks
        BY <3>4, <3>5 DEF Posts
      <4>2. s.task # q.task
        BY <3>1, <4>1 DEF AnswersTrue
      <4>3. revisions'[s.task] = revisions[s.task]
        BY <3>4, <4>1, <4>2
      <4>4. QED
        BY <4>1, <4>3 DEF NoFalseConflict, SameKey
    <3>10. NoBlindSubmit'
      BY <3>4, <3>5 DEF NoBlindSubmit
    <3>11. FormsCurrent'
      BY <3>4 DEF FormsCurrent
    <3>12. AnswersTrue'
      <4>1. \A s \in Posts : s \in posts => s.task \in Tasks
        BY DEF Posts
      <4>2. [key |-> q.key, draft |-> q.draft] \in revisions'[q.task]
        BY <3>4, <2>0 DEF new
      <4>3. QED
        BY <3>1, <3>2, <3>4, <3>5, <4>1, <4>2, <2>0 DEF AnswersTrue
    <3>13. QED
      BY <3>6, <3>7, <3>8, <3>9, <3>10, <3>11, <3>12
  <2> QED
    BY <2>a, <2>b

<1>11. CASE UNCHANGED vars
  BY <1>11 DEF vars, TypeOK, DecisionExact, SuccessIsTrue, NoFalseConflict, NoBlindSubmit, FormsCurrent, AnswersTrue, SameKey
<1>12. QED
  BY <1>1, <1>2, <1>3, <1>4, <1>5, <1>6, <1>7, <1>8, <1>9, <1>10, <1>11
     DEF Next, PageStep, ServerStep

(* Every reachable state satisfies the strengthened invariant.             *)
LEMMA Strengthened == Spec => []IInv
<1>1. Init => IInv
  BY ReviewAssumption DEF Init, IInv, TypeOK, DecisionExact, SuccessIsTrue, NoFalseConflict,
     NoBlindSubmit, FormsCurrent, AnswersTrue, TaskStatus, Keys
<1>2. QED
  BY <1>1, Inductive, PTL DEF Spec

(* Status, version, revision and pointer of a task always agree.           *)
THEOREM DecisionsExact == Spec => []DecisionExact
<1>1. IInv => DecisionExact
  BY DEF IInv
<1>2. QED
  BY <1>1, Strengthened, PTL

(* A reviewer told of a success has that draft recorded.                   *)
THEOREM SuccessesTrue == Spec => []SuccessIsTrue
<1>1. IInv => SuccessIsTrue
  BY DEF IInv
<1>2. QED
  BY <1>1, Strengthened, PTL

(* A retry of the recorded submission is never answered with a conflict of *)
(* state or version (the key is looked up again under the lock).           *)
THEOREM RetriesSafe == Spec => []NoFalseConflict
<1>1. IInv => NoFalseConflict
  BY DEF IInv
<1>2. QED
  BY <1>1, Strengthened, PTL

(* A page submits only the task that its reviewer looks at, in the version *)
(* that was shown.                                                         *)
THEOREM PagesSafe == Spec => []NoBlindSubmit
<1>1. IInv => NoBlindSubmit
  BY DEF IInv
<1>2. QED
  BY <1>1, Strengthened, PTL

(* No step touches a task that is decided.                                 *)
LEMMA StepKeepsDecision ==
  ASSUME IInv, [Next]_vars, NEW t \in Tasks, status[t] # "PENDING"
  PROVE  /\ status'[t] = status[t] /\ version'[t] = version[t]
         /\ effective'[t] = effective[t] /\ revisions'[t] = revisions[t]
<1>1. ASSUME NEW q \in posts, Decide(q), Judgement(q) = "RECORD"
      PROVE  /\ status'[t] = status[t] /\ version'[t] = version[t]
             /\ effective'[t] = effective[t] /\ revisions'[t] = revisions[t]
  <2>1. q \in Posts /\ q.task \in Tasks /\ status[q.task] = "PENDING"
    BY <1>1 DEF IInv, TypeOK, Posts, Judgement, Replay
  <2>2. QED
    BY <1>1, <2>1 DEF Decide, Record, IInv, TypeOK
<1>2. CASE UNCHANGED database
  BY <1>2 DEF database
<1>3. QED
  BY <1>1, <1>2 DEF Next, PageStep, ServerStep, Click, Reload, Open, Edit, Submit, Success,
     Failure, ReadTask, Check, Decide, vars, database

(* A decision is final.                                                    *)
THEOREM DecisionsFinal == Spec => DecidedForever
<1>1. IInv /\ [Next]_vars => [\A t \in Tasks : status[t] # "PENDING" =>
       /\ status'[t] = status[t] /\ version'[t] = version[t]
       /\ effective'[t] = effective[t] /\ revisions'[t] = revisions[t]]_vars
  BY StepKeepsDecision
<1>2. QED
  BY <1>1, Strengthened, PTL DEF Spec, DecidedForever
=============================================================================
