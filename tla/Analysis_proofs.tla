---------------------------- MODULE Analysis_proofs ----------------------------
(***************************************************************************)
(* The gate is at least as strict as the reference definition of a sound   *)
(* report, and what Analysis completes without a reviewer is sound and     *)
(* complete, for every transcript, rule base, knowledge base and budget.   *)
(***************************************************************************)
EXTENDS Analysis, TLAPS

Dispositions == {"AUTO_PASS", "AUTO_VIOLATION", "HUMAN_REVIEW_REQUIRED"}

(* A violation for which the gate has no issue is grounded in an event, a  *)
(* rule in force and a document that supports it.                          *)
LEMMA NoIssueGrounded ==
  ASSUME NEW r, NEW v, ViolationIssues(r, v) = {}
  PROVE  Grounded(r, v) /\ v.rule \in Rules
PROOF
<1>1. \E e \in r.events : EventId(e) = v.event
  BY DEF ViolationIssues, Issue
<1>2. v.evidence \subseteq Turns /\ v.rule \in Rules
  BY DEF ViolationIssues, Issue
<1>3. v.penalty = Penalty[v.rule] /\ EvidenceIssues(r, v, TRUE) = {}
  BY <1>1, <1>2 DEF ViolationIssues, Issue
<1>4. GetActive(v.rule, v.event[1]) /\ v.docs # {}
  BY <1>3 DEF EvidenceIssues, Issue
<1>5. SupportingHits(v.docs, v.event[1], v.rule, r.hits) # {}
  BY <1>3 DEF EvidenceIssues, Issue
<1>6. PICK e \in r.events : EventId(e) = v.event
  BY <1>1
<1>7. v.event[1] = e.type
  BY <1>6 DEF EventId
<1>8. \E d \in v.docs \cap DOMAIN r.hits :
        r.hits[d] /\ d \in ActiveDocs /\ DocType[d] = e.type /\ v.rule \in RelatedRules[d]
  BY <1>4, <1>5, <1>7 DEF SupportingHits
<1> QED BY <1>2, <1>3, <1>4, <1>6, <1>7, <1>8 DEF Grounded, GetActive

(* A report that passes the gate is sound.                                 *)
THEOREM GatePassIsSound ==
  ASSUME NEW r, r.disposition \in Dispositions, Check(r) = {}
  PROVE  Sound(r)
PROOF
<1>1. EventIssues(r) = {} /\ ScoreIssues(r) = {} /\ DispositionIssues(r) = {}
  BY DEF Check
<1>2. \A v \in r.violations : ViolationIssues(r, v) = {}
  BY DEF Check
<1>3. r.pending = {}
  BY DEF Check
<1>4. \A e \in r.events : e.turns \subseteq Turns
  BY <1>1 DEF EventIssues, Issue
<1>5. \A e \in r.events : ~e.ambiguous
  BY <1>1 DEF DispositionIssues, Issue
<1>6. r.audit.errors = {}
  BY <1>1 DEF DispositionIssues, Issue
<1>7. r.disposition = IF r.violations = {} THEN "AUTO_PASS" ELSE "AUTO_VIOLATION"
  BY <1>1 DEF DispositionIssues, Issue, Dispositions
<1>8. \A v \in r.violations : Grounded(r, v) /\ v.rule \in Rules
  BY <1>2, NoIssueGrounded
<1>9. \A v, w \in r.violations : v.event = w.event /\ v.rule = w.rule => v = w
  BY <1>2 DEF ViolationIssues, Issue
<1>10. \A v \in r.violations : v.rule \in Rules /\ \E e \in r.events : EventId(e) = v.event
  BY <1>8 DEF Grounded
<1>11. r.score = CalculateScore(r.violations)
  BY <1>1, <1>10 DEF ScoreIssues, Issue
<1> QED BY <1>3, <1>4, <1>5, <1>6, <1>7, <1>8, <1>9, <1>11 DEF Sound

(***************************************************************************)
(* What Analysis completes is sound.                                       *)
(***************************************************************************)
(* Where the thread works on a report.                                     *)
Working == {"audit", "route", "begin", "plan", "evaluate", "reaudit", "final"} \cup Actions

IsReport(r) ==
  /\ r = [events |-> r.events, violations |-> r.violations, hits |-> r.hits,
          audit |-> r.audit, pending |-> r.pending, score |-> r.score,
          disposition |-> r.disposition]
  /\ r.disposition \in Dispositions

SoundInv ==
  /\ pc \in Working \cup {"extract", "persist", "done"}
  /\ pc \in Working \cup {"extract"} => status = "RUNNING"
  /\ pc \in Working => IsReport(report)
  /\ CompletedIsSound

LEMMA SoundInit == Init => SoundInv
PROOF
  BY DEF Init, SoundInv, Working, Actions, CompletedIsSound

(* Every step but the last gate's leaves a report that is not yet judged.  *)
LEMMA SoundStep == SoundInv /\ [Next]_vars => SoundInv'
PROOF
<1> SUFFICES ASSUME SoundInv, [Next]_vars PROVE SoundInv'
  OBVIOUS
<1> USE DEF SoundInv, CompletedIsSound
<1>1. CASE UNCHANGED vars
  BY <1>1 DEF vars
<1>2. ASSUME NEW stage \in {"extract", "plan", "evaluate"}, ModelFails(stage)
      PROVE  SoundInv'
  BY <1>2 DEF ModelFails, Fail, Working, Actions
<1>3. CASE Extract
  BY <1>3 DEF Extract, Working, Actions, IsReport, Dispositions
<1>4. CASE RetryAudit
  BY <1>4 DEF RetryAudit, Reading
<1>5. CASE ReadResource
  BY <1>5 DEF ReadResource, Reading
<1>6. CASE Judge
  <2>1. IsReport(report') /\ pc' = "route" /\ status' = status
    BY <1>6 DEF Judge, IsReport, Dispositions
  <2> QED BY <1>6, <2>1 DEF Judge, Working, Actions
<1>7. CASE CollaboratorRaises
  BY <1>7 DEF CollaboratorRaises, Fail, Working, Actions
<1>8. CASE SkipLoop
  BY <1>8 DEF SkipLoop, Working, Actions
<1>9. CASE EnterLoop
  BY <1>9 DEF EnterLoop, Working, Actions
<1>10. CASE BeginIteration
  BY <1>10 DEF BeginIteration, Working, Actions
<1>11. CASE BudgetEnds
  BY <1>11 DEF BudgetEnds, GiveUp, Working, Actions
<1>12. CASE Plan
  BY <1>12 DEF Plan, Working, Actions
<1>13. CASE ExpandContext
  BY <1>13 DEF ExpandContext, Acted, Working, Actions
<1>14. CASE SearchKnowledge
  <2>1. IsReport(report')
    BY <1>14 DEF SearchKnowledge, IsReport, Working, Actions
  <2> QED BY <1>14, <2>1 DEF SearchKnowledge, Acted, Working, Actions
<1>15. CASE StartAudit
  BY <1>15 DEF StartAudit, Working, Actions
<1>16. CASE QueryAudit
  <2>1. IsReport(report')
    BY <1>16 DEF QueryAudit, IsReport, Working, Actions
  <2> QED BY <1>16, <2>1 DEF QueryAudit, Acted, Working, Actions
<1>17. CASE ReviseReport
  <2>1. IsReport(report')
    BY <1>17 DEF ReviseReport, IsReport, Dispositions, Working, Actions
  <2> QED BY <1>17, <2>1 DEF ReviseReport, Acted, Working, Actions
<1>18. CASE FinalizeAction
  BY <1>18 DEF FinalizeAction, Acted, Working, Actions
<1>19. CASE Evaluate
  BY <1>19 DEF Evaluate, GiveUp, Working, Actions
<1>20. CASE Conclude
  <2>1. pc' = "persist" /\ report.disposition \in Dispositions
    BY <1>20 DEF Conclude, Working, IsReport
  <2>2. status' = "COMPLETED" => Check(report) = {} /\ report' = report
    BY <1>20 DEF Conclude
  <2>3. status' = "COMPLETED" => Sound(report')
    BY <2>1, <2>2, GatePassIsSound
  <2> QED BY <2>1, <2>3 DEF Working, Actions
<1>21. CASE Persist
  BY <1>21 DEF Persist, Working, Actions
<1>22. CASE PersistRaises
  BY <1>22 DEF PersistRaises, Working, Actions
<1> QED
  BY <1>1, <1>2, <1>3, <1>4, <1>5, <1>6, <1>7, <1>8, <1>9, <1>10, <1>11, <1>12, <1>13,
     <1>14, <1>15, <1>16, <1>17, <1>18, <1>19, <1>20, <1>21, <1>22 DEF Next

(* Whatever the model, the services and the retrieval answer, an analysis  *)
(* that completes without a reviewer is sound by the reference definition. *)
THEOREM CompletedSound == Spec => []CompletedIsSound
PROOF
<1>1. Spec => []SoundInv
  BY SoundInit, SoundStep, PTL DEF Spec
<1>2. SoundInv => CompletedIsSound
  BY DEF SoundInv
<1> QED BY <1>1, <1>2, PTL

(***************************************************************************)
(* What Analysis completes is complete.                                    *)
(***************************************************************************)
Judged == Working \ {"audit"}

(* The breach of an event is in the report, or left for a reviewer.        *)
Accounted(e) ==
  \/ \E v \in report.violations :
       v.event = EventId(e) /\ v.evidence # {} /\ v.evidence \subseteq Turns
  \/ report.pending # {}

CompleteInv ==
  /\ SoundInv
  /\ pc \in Working => report.events \subseteq Candidates
  /\ pc \in Judged => \A e \in report.events : Breached(e, judged) => Accounted(e)
  /\ CompletedIsComplete

(* A breach has evidence, and all of it is in the transcript.              *)
LEMMA BreachHasEvidence ==
  ASSUME NEW e \in Candidates, NEW ticket, Breached(e, ticket)
  PROVE  Evidence(e) # {} /\ Evidence(e) \subseteq Turns
PROOF
<1>1. e.turns \subseteq Turns /\ e.turns # {} /\ AgentTurns \subseteq Turns
  BY AnalysisConstants DEF Events
<1>2. TurnsAfter(e) \subseteq Turns /\ e.turns \cap AgentTurns \subseteq Turns
  BY <1>1 DEF TurnsAfter
<1>3. BadTurns(e) \subseteq Turns
  BY <1>2 DEF BadTurns, Says
<1>4. Evidence(e) # {}
  <2>1. CASE e.type = "REPAYMENT_DISPUTE"
    BY <1>1, <2>1 DEF Evidence
  <2>2. CASE e.type # "REPAYMENT_DISPUTE"
    BY <2>2 DEF Breached, Evidence
  <2> QED BY <2>1, <2>2
<1> QED BY <1>1, <1>3, <1>4 DEF Evidence

(* The checks leave no breach out: it is a violation or it is pending.     *)
LEMMA JudgeAccounts ==
  ASSUME NEW events \in SUBSET Candidates, NEW ticket, NEW found, NEW e \in events,
         Breached(e, ticket)
  PROVE  \/ \E v \in Violations(events, ticket, found) :
              v.event = EventId(e) /\ v.evidence # {} /\ v.evidence \subseteq Turns
         \/ Pending(events, ticket, found) # {}
PROOF
<1>1. CASE GetActive(RuleOf[e.type], e.type) /\ Support(e, found[e]) # {}
  <2> DEFINE v == [event |-> EventId(e), rule |-> RuleOf[e.type],
                   penalty |-> Penalty[RuleOf[e.type]], evidence |-> Evidence(e),
                   docs |-> Support(e, found[e])]
  <2>1. v \in Violations(events, ticket, found)
    BY <1>1 DEF Violations
  <2>2. v.event = EventId(e) /\ v.evidence = Evidence(e)
    OBVIOUS
  <2> QED BY <2>1, <2>2, BreachHasEvidence
<1>2. CASE ~(GetActive(RuleOf[e.type], e.type) /\ Support(e, found[e]) # {})
  BY <1>2 DEF Pending
<1> QED BY <1>1, <1>2

LEMMA CompleteInit == Init => CompleteInv
PROOF
  BY SoundInit DEF Init, CompleteInv, Working, Judged, Actions, CompletedIsComplete

(* A step that keeps events, violations, pending issues and judgement.     *)
LEMMA KeepsAccounts ==
  ASSUME CompleteInv, SoundInv', pc \in Judged, judged' = judged,
         report'.events = report.events, report'.violations = report.violations,
         report'.pending = report.pending,
         status' = "COMPLETED" => report.pending = {} /\ status # "FAILED"
  PROVE  CompleteInv'
PROOF
<1>1. \A e \in report'.events : Breached(e, judged') => Accounted(e)'
  BY DEF CompleteInv, Accounted
<1>2. report'.events \subseteq Candidates
  BY DEF CompleteInv, Judged
<1>3. CompletedIsComplete'
  BY <1>1 DEF CompletedIsComplete, Accounted
<1> QED BY <1>1, <1>2, <1>3 DEF CompleteInv

LEMMA CompleteStep == CompleteInv /\ [Next]_vars => CompleteInv'
PROOF
<1> SUFFICES ASSUME CompleteInv, [Next]_vars PROVE CompleteInv'
  OBVIOUS
<1>0. SoundInv /\ SoundInv'
  BY SoundStep DEF CompleteInv
<1> USE DEF CompletedIsComplete
<1>1. CASE UNCHANGED vars
  BY <1>0, <1>1 DEF vars, CompleteInv, Accounted
<1>2. ASSUME NEW stage \in {"extract", "plan", "evaluate"}, ModelFails(stage)
      PROVE  CompleteInv'
  <2>1. CASE UNCHANGED <<pc, snapshot, report, loop, status, errors, judged>>
    BY <1>0, <2>1 DEF CompleteInv, Accounted
  <2>2. CASE status' = "FAILED" /\ pc' = "persist"
    BY <1>0, <2>2 DEF CompleteInv, Working, Judged, Actions
  <2> QED BY <1>2, <2>1, <2>2 DEF ModelFails, Fail
<1>3. CASE Extract
  <2>1. report'.events \subseteq Candidates /\ pc' = "audit" /\ status' = "RUNNING"
    BY <1>0, <1>3 DEF Extract, Deduplications, SoundInv
  <2> QED BY <1>0, <2>1 DEF CompleteInv, Judged
<1>4. CASE RetryAudit
  BY <1>0, <1>4 DEF RetryAudit, CompleteInv, Accounted
<1>5. CASE ReadResource
  BY <1>0, <1>5 DEF ReadResource, CompleteInv, Accounted
<1>6. CASE Judge
  <2>1. PICK found : report' =
          [events |-> report.events,
           violations |-> Violations(report.events, snapshot.ticket, found),
           hits |-> report'.hits, audit |-> report'.audit,
           pending |-> Pending(report.events, snapshot.ticket, found),
           score |-> report'.score, disposition |-> report'.disposition]
    BY <1>6 DEF Judge
  <2>2. report'.events = report.events
        /\ report'.violations = Violations(report.events, snapshot.ticket, found)
        /\ report'.pending = Pending(report.events, snapshot.ticket, found)
    BY <2>1
  <2>3. pc' = "route" /\ judged' = snapshot.ticket /\ status' = "RUNNING"
        /\ report.events \subseteq Candidates
    BY <1>0, <1>6 DEF Judge, SoundInv, CompleteInv, Working
  <2>4. \A e \in report'.events : Breached(e, judged') => Accounted(e)'
    BY <2>2, <2>3, JudgeAccounts DEF Accounted
  <2> QED BY <1>0, <2>2, <2>3, <2>4 DEF CompleteInv
<1>7. CASE CollaboratorRaises
  BY <1>0, <1>7 DEF CollaboratorRaises, Fail, CompleteInv, Working, Judged, Actions
<1>8. CASE SkipLoop \/ EnterLoop \/ BeginIteration \/ BudgetEnds \/ Plan \/ ExpandContext
           \/ StartAudit \/ FinalizeAction \/ Evaluate
  <2>1. pc \in Judged /\ judged' = judged /\ report' = report /\ status' = status
    BY <1>8 DEF SkipLoop, EnterLoop, BeginIteration, BudgetEnds, GiveUp, Plan, ExpandContext,
        Acted, StartAudit, FinalizeAction, Evaluate, Judged, Working, Actions
  <2>2. status' = "RUNNING"
    BY <1>0, <2>1 DEF SoundInv, Judged
  <2> QED BY <1>0, <2>1, <2>2, KeepsAccounts
<1>9. CASE SearchKnowledge \/ QueryAudit
  <2>1. pc \in Judged /\ judged' = judged /\ status' = status
    BY <1>9 DEF SearchKnowledge, QueryAudit, Acted, Judged, Working, Actions
  <2>2. IsReport(report) /\ status' = "RUNNING"
    BY <1>0, <2>1 DEF SoundInv, Judged
  <2>3. report'.events = report.events /\ report'.violations = report.violations
        /\ report'.pending = report.pending
    BY <1>9, <2>2 DEF SearchKnowledge, QueryAudit, IsReport
  <2> QED BY <1>0, <2>1, <2>2, <2>3, KeepsAccounts
<1>10. CASE ReviseReport
  <2>1. pc \in Judged /\ pc \in Working /\ judged' = judged /\ status' = status
    BY <1>10 DEF ReviseReport, Acted, Judged, Working, Actions
  <2>2. IsReport(report) /\ status' = "RUNNING"
    BY <1>0, <2>1 DEF SoundInv
  <2>3. report'.events = report.events /\ report'.pending = report.pending
        /\ report'.violations = {v \in report.violations :
                                  v.evidence # {} /\ v.evidence \subseteq Turns}
    BY <1>10, <2>2 DEF ReviseReport, IsReport
  <2>4. \A e \in report'.events : Breached(e, judged') => Accounted(e)'
    BY <2>1, <2>3 DEF CompleteInv, Accounted
  <2> QED BY <1>0, <2>1, <2>2, <2>3, <2>4 DEF CompleteInv
<1>11. CASE Conclude
  <2>1. pc \in Judged /\ pc \in Working /\ judged' = judged
    BY <1>11 DEF Conclude, Judged, Working
  <2>2. IsReport(report)
    BY <1>0, <2>1 DEF SoundInv
  <2>3. report'.events = report.events /\ report'.violations = report.violations
        /\ report'.pending = report.pending
    BY <1>11, <2>2 DEF Conclude, IsReport
  <2>4. status' = "COMPLETED" => report.pending = {}
    BY <1>11 DEF Conclude, Check
  <2>5. status = "RUNNING"
    BY <1>0, <2>1 DEF SoundInv
  <2> QED BY <1>0, <2>1, <2>3, <2>4, <2>5, KeepsAccounts
<1>12. CASE Persist
  BY <1>0, <1>12 DEF Persist, CompleteInv, Working, Judged, Actions
<1>13. CASE PersistRaises
  BY <1>0, <1>13 DEF PersistRaises, CompleteInv, Working, Judged, Actions
<1> QED
  BY <1>1, <1>2, <1>3, <1>4, <1>5, <1>6, <1>7, <1>8, <1>9, <1>10, <1>11, <1>12, <1>13 DEF Next

(* An analysis that completes without a reviewer reports every breach that *)
(* the checks found, also after searches, audits and revisions of the loop. *)
THEOREM CompletedComplete == Spec => []CompletedIsComplete
PROOF
<1>1. Spec => []CompleteInv
  BY CompleteInit, CompleteStep, PTL DEF Spec
<1>2. CompleteInv => CompletedIsComplete
  BY DEF CompleteInv
<1> QED BY <1>1, <1>2, PTL

(***************************************************************************)
(* The loop keeps its budget and its trace is whole.                       *)
(***************************************************************************)
PhaseNames == {"PLAN", "ACT", "OBSERVE", "EVALUATE", "REPLAN", "FINALIZE"}

Traces == Seq(Nat \X PhaseNames)

Acting == Actions \cup {"reaudit"}

(* How long the trace is where the loop stands.                            *)
TraceLength ==
  /\ pc = "begin" => Len(loop.trace) = 5 * loop.iteration
  /\ pc = "plan" => Len(loop.trace) = 5 * (loop.iteration - 1)
  /\ pc \in Acting => Len(loop.trace) = 5 * (loop.iteration - 1) + 1
  /\ pc = "evaluate" => Len(loop.trace) = 5 * (loop.iteration - 1) + 3

Before == {"extract", "audit", "route"}
InLoop == Before \cup {"begin", "plan", "evaluate"} \cup Acting

(* The entries of a trace that is still being written.                     *)
Written(trace) ==
  \A i \in 1..Len(trace) :
    LET position == i - 5 * (trace[i][1] - 1)
    IN  /\ position \in 1..5 /\ trace[i][2] \in Phases[position]
        /\ trace[i][2] # "FINALIZE"

LoopOK ==
  /\ loop = [iteration |-> loop.iteration, tools |-> loop.tools, focus |-> loop.focus,
             trace |-> loop.trace]
  /\ loop.iteration \in Nat /\ loop.tools \in Nat /\ loop.trace \in Traces

BudgetInv ==
  /\ LoopOK
  /\ pc \in InLoop \cup {"final", "persist", "done"}
  /\ pc \in {"plan", "evaluate"} \cup Acting => loop.iteration >= 1
  /\ pc \in {"plan"} \cup Acting => loop.tools < loop.iteration /\ loop.tools < MaxToolCalls
  /\ pc \in Before => loop.iteration = 0 /\ loop.trace = <<>>
  /\ pc \in InLoop => Written(loop.trace)
  /\ TraceLength
  /\ LoopWithinBudget

(* Entries of the right place may be appended to a trace being written.    *)
LEMMA AppendWritten ==
  ASSUME NEW t \in Traces, Written(t), NEW n \in Nat \ {0}, NEW p \in PhaseNames,
         NEW k \in 1..5, Len(t) + 1 - 5 * (n - 1) = k, p \in Phases[k], p # "FINALIZE"
  PROVE  /\ Append(t, <<n, p>>) \in Traces /\ Len(Append(t, <<n, p>>)) = Len(t) + 1
         /\ Written(Append(t, <<n, p>>))
PROOF
<1> DEFINE a == Append(t, <<n, p>>)
<1>1. a \in Traces /\ Len(a) = Len(t) + 1 /\ a[Len(t) + 1] = <<n, p>>
  BY DEF Traces
<1>2. \A i \in 1..Len(t) : a[i] = t[i]
  BY DEF Traces
<1>3. ASSUME NEW i \in 1..Len(a)
      PROVE  /\ i - 5 * (a[i][1] - 1) \in 1..5 /\ a[i][2] \in Phases[i - 5 * (a[i][1] - 1)]
             /\ a[i][2] # "FINALIZE"
  <2>1. CASE i \in 1..Len(t)
    BY <1>2, <2>1 DEF Written
  <2>2. CASE i = Len(t) + 1
    <3>1. a[i][1] = n /\ a[i][2] = p
      BY <1>1, <2>2
    <3> QED BY <2>2, <3>1
  <2> QED BY <1>1, <2>1, <2>2 DEF Traces
<1> HIDE DEF a
<1>4. Written(a)
  BY <1>3 DEF Written
<1> QED BY <1>1, <1>4 DEF a

(* A trace being written is a whole one, and so is one with FINALIZE last. *)
LEMMA WrittenIsWhole ==
  ASSUME Written(loop.trace)
  PROVE  \A i \in 1..Len(loop.trace) : TraceEntry(i)
PROOF
  BY DEF Written, TraceEntry

LEMMA BudgetInit == Init => BudgetInv
PROOF
  BY AnalysisConstants DEF Init, LoopOK, BudgetInv, InLoop, Before, Acting, Actions, Traces, Written,
     TraceLength, LoopWithinBudget

(* FINALIZE closes an iteration.                                           *)
LEMMA AppendFinal ==
  ASSUME NEW t \in Traces, Written(t), NEW n \in Nat \ {0}, NEW p \in PhaseNames,
         p = "FINALIZE", Len(t) + 1 - 5 * (n - 1) = 5
  PROVE  LET a == Append(t, <<n, p>>)
         IN  /\ a \in Traces
             /\ \A i \in 1..Len(a) :
                  LET position == i - 5 * (a[i][1] - 1)
                  IN  /\ position \in 1..5 /\ a[i][2] \in Phases[position]
                      /\ a[i][2] = "FINALIZE" => i = Len(a)
PROOF
<1> DEFINE a == Append(t, <<n, p>>)
<1>1. a \in Traces /\ Len(a) = Len(t) + 1 /\ a[Len(t) + 1] = <<n, p>>
  BY DEF Traces
<1>2. \A i \in 1..Len(t) : a[i] = t[i]
  BY DEF Traces
<1> HIDE DEF a
<1>3. ASSUME NEW i \in 1..Len(a)
      PROVE  /\ i - 5 * (a[i][1] - 1) \in 1..5 /\ a[i][2] \in Phases[i - 5 * (a[i][1] - 1)]
             /\ a[i][2] = "FINALIZE" => i = Len(a)
  <2>1. CASE i \in 1..Len(t)
    <3>1. /\ i - 5 * (t[i][1] - 1) \in 1..5 /\ t[i][2] \in Phases[i - 5 * (t[i][1] - 1)]
          /\ t[i][2] # "FINALIZE"
      BY <2>1 DEF Written
    <3> QED BY <1>2, <2>1, <3>1
  <2>2. CASE i = Len(t) + 1
    <3>1. a[i][1] = n /\ a[i][2] = p
      BY <1>1, <2>2
    <3>2. "FINALIZE" \in Phases[5]
      BY DEF Phases
    <3> QED BY <1>1, <2>2, <3>1, <3>2
  <2>3. i \in 1..Len(t) \/ i = Len(t) + 1
    <3>1. Len(t) \in Nat
      BY DEF Traces
    <3> QED BY <1>1, <3>1
  <2> QED BY <2>1, <2>2, <2>3
<1>4. a \in Traces
  BY <1>1
<1> QED BY <1>3, <1>4 DEF a

LEMMA TwoAppends ==
  ASSUME NEW t \in Traces, NEW n \in Nat, NEW p \in PhaseNames, NEW q \in PhaseNames
  PROVE  t \o <<<<n, p>>, <<n, q>>>> = Append(Append(t, <<n, p>>), <<n, q>>)
PROOF
<1> DEFINE x == <<n, p>>
           y == <<n, q>>
<1>1. x \in Nat \X PhaseNames /\ y \in Nat \X PhaseNames
  OBVIOUS
<1> HIDE DEF x, y
<1>2. t \o <<x, y>> = Append(Append(t, x), y)
  BY <1>1 DEF Traces
<1> QED BY <1>2 DEF x, y

(* A step that leaves the loop alone and does not enter it again.          *)
LEMMA LoopRests ==
  ASSUME BudgetInv, UNCHANGED loop, pc' \in {"final", "persist", "done"}
  PROVE  BudgetInv'
PROOF
  BY DEF BudgetInv, LoopOK, LoopWithinBudget, TraceEntry, TraceLength, InLoop, Before, Acting, Actions

LEMMA BudgetStep == BudgetInv /\ [Next]_vars => BudgetInv'
PROOF
<1> SUFFICES ASSUME BudgetInv, [Next]_vars PROVE BudgetInv'
  OBVIOUS
<1> USE AnalysisConstants
<1>1. CASE UNCHANGED <<pc, loop>>
  BY <1>1 DEF BudgetInv, LoopOK, LoopWithinBudget, TraceEntry, TraceLength
<1>2. ASSUME NEW stage \in {"extract", "plan", "evaluate"}, ModelFails(stage)
      PROVE  BudgetInv'
  <2>1. UNCHANGED <<pc, loop>> \/ (UNCHANGED loop /\ pc' = "persist")
    BY <1>2 DEF ModelFails, Fail
  <2> QED BY <1>1, <2>1, LoopRests
<1>3. CASE Extract \/ Judge
  <2>1. UNCHANGED loop /\ pc \in Before /\ pc' \in Before
    BY <1>3 DEF Extract, Judge, Before
  <2> QED BY <2>1 DEF BudgetInv, LoopOK, LoopWithinBudget, TraceEntry, TraceLength, InLoop, Before, Acting, Actions
<1>4. CASE RetryAudit \/ ReadResource
  BY <1>1, <1>4 DEF RetryAudit, ReadResource
<1>5. CASE CollaboratorRaises \/ BudgetEnds \/ Conclude \/ Persist \/ PersistRaises
  <2>1. UNCHANGED loop /\ pc' \in {"final", "persist", "done"}
    BY <1>5 DEF CollaboratorRaises, Fail, BudgetEnds, GiveUp, Conclude, Persist, PersistRaises
  <2> QED BY <2>1, LoopRests
<1>6. CASE SkipLoop
  <2>1. loop.iteration = 0 /\ loop.trace = <<>> /\ loop.tools = 0 /\ pc' = "final"
    BY <1>6 DEF SkipLoop, BudgetInv, LoopOK, Before, LoopWithinBudget
  <2>2. PICK p \in PhaseNames : p = "FINALIZE"
    BY DEF PhaseNames
  <2>3. loop' = [loop EXCEPT !.trace = Append(loop.trace, <<0, p>>)]
    BY <1>6, <2>1, <2>2 DEF SkipLoop, Traced
  <2>4. Append(loop.trace, <<0, p>>) \in Traces /\ Append(loop.trace, <<0, p>>) = <<<<0, p>>>>
    BY <2>1 DEF Traces
  <2>5. loop'.trace = <<<<0, p>>>> /\ loop'.iteration = 0 /\ loop'.tools = 0 /\ LoopOK'
    BY <2>1, <2>3, <2>4 DEF BudgetInv, LoopOK
  <2> QED BY <2>1, <2>2, <2>5 DEF BudgetInv, LoopWithinBudget, TraceLength, InLoop, Before,
      Acting, Actions
<1>7. CASE EnterLoop
  <2>1. loop.iteration = 0 /\ loop.trace = <<>> /\ loop.tools = 0 /\ pc' = "begin"
    BY <1>7 DEF EnterLoop, BudgetInv, LoopOK, Before, LoopWithinBudget
  <2>2. loop' = loop \/ \E f : loop' = [loop EXCEPT !.focus = f]
    BY <1>7 DEF EnterLoop
  <2>3. loop'.iteration = 0 /\ loop'.trace = <<>> /\ loop'.tools = 0 /\ LoopOK'
    BY <2>1, <2>2 DEF BudgetInv, LoopOK
  <2> QED BY <2>1, <2>3 DEF BudgetInv, LoopWithinBudget, TraceLength, Written, InLoop, Before,
      Acting, Actions
<1>8. CASE BeginIteration
  <2>1. loop' = [loop EXCEPT !.iteration = @ + 1] /\ pc = "begin" /\ pc' = "plan"
        /\ loop.iteration < MaxIterations /\ loop.tools < MaxToolCalls
    BY <1>8 DEF BeginIteration
  <2>2. loop'.iteration = loop.iteration + 1 /\ loop'.trace = loop.trace
        /\ loop'.tools = loop.tools /\ LoopOK'
    BY <2>1 DEF BudgetInv, LoopOK
  <2>3. Written(loop'.trace) /\ Len(loop'.trace) = 5 * (loop'.iteration - 1)
    BY <2>1, <2>2 DEF BudgetInv, LoopOK, TraceLength, InLoop
  <2>4. \A i \in 1..Len(loop'.trace) : TraceEntry(i)'
    BY <2>3 DEF Written, TraceEntry
  <2>5. LoopWithinBudget'
    BY <2>1, <2>2, <2>4 DEF BudgetInv, LoopOK, LoopWithinBudget
  <2> QED BY <2>1, <2>2, <2>3, <2>5 DEF BudgetInv, LoopOK, LoopWithinBudget, TraceLength, InLoop,
      Before, Acting, Actions
<1>9. CASE Plan
  <2>1. PICK p \in PhaseNames : p = "PLAN"
    BY DEF PhaseNames
  <2>2. pc = "plan" /\ pc' \in Actions /\ loop' = [loop EXCEPT !.trace = Append(@, <<loop.iteration, p>>)]
    BY <1>9, <2>1 DEF Plan, Traced
  <2>3. Written(loop.trace) /\ loop.trace \in Traces /\ loop.iteration \in Nat \ {0}
        /\ Len(loop.trace) = 5 * (loop.iteration - 1)
    BY <2>2 DEF BudgetInv, LoopOK, TraceLength, InLoop
  <2>4. Len(loop.trace) + 1 - 5 * (loop.iteration - 1) = 1 /\ 1 \in 1..5
    BY <2>3 DEF Traces
  <2>5. p \in Phases[1] /\ p # "FINALIZE"
    BY <2>1 DEF Phases
  <2>6. LET a == Append(loop.trace, <<loop.iteration, p>>)
        IN  a \in Traces /\ Len(a) = Len(loop.trace) + 1 /\ Written(a)
    BY <2>3, <2>4, <2>5, AppendWritten
  <2>7. LoopOK' /\ loop'.trace = Append(loop.trace, <<loop.iteration, p>>)
        /\ loop'.iteration = loop.iteration /\ loop'.tools = loop.tools
    BY <2>2, <2>6 DEF BudgetInv, LoopOK
  <2>8. Written(loop'.trace) /\ Len(loop'.trace) = 5 * (loop'.iteration - 1) + 1
    BY <2>3, <2>6, <2>7
  <2>9. \A i \in 1..Len(loop'.trace) : TraceEntry(i)'
    BY <2>8 DEF Written, TraceEntry
  <2>10. loop'.tools < loop'.iteration /\ loop'.tools < MaxToolCalls
    BY <2>2, <2>7 DEF BudgetInv
  <2>11. LoopWithinBudget'
    BY <2>7, <2>9 DEF BudgetInv, LoopWithinBudget
  <2> QED BY <2>2, <2>3, <2>7, <2>8, <2>10, <2>11 DEF BudgetInv, TraceLength, InLoop, Before,
      Acting, Actions
<1>10. CASE ExpandContext \/ SearchKnowledge \/ QueryAudit \/ ReviseReport \/ FinalizeAction
  <2>1. PICK a \in PhaseNames, o \in PhaseNames : a = "ACT" /\ o = "OBSERVE"
    BY DEF PhaseNames
  <2>2. pc \in Acting /\ pc' = "evaluate"
        /\ \E tools \in {0, 1} :
             loop' = [loop EXCEPT !.tools = @ + tools,
                        !.trace = @ \o <<<<loop.iteration, a>>, <<loop.iteration, o>>>>]
    BY <1>10, <2>1 DEF ExpandContext, SearchKnowledge, QueryAudit, ReviseReport, FinalizeAction,
       Acted, Acting, Actions
  <2>3. Written(loop.trace) /\ loop.trace \in Traces /\ loop.iteration \in Nat \ {0}
        /\ Len(loop.trace) = 5 * (loop.iteration - 1) + 1
    BY <2>2 DEF BudgetInv, LoopOK, TraceLength, InLoop
  <2> DEFINE t == Append(loop.trace, <<loop.iteration, a>>)
             u == Append(t, <<loop.iteration, o>>)
  <2>4. /\ Len(loop.trace) + 1 - 5 * (loop.iteration - 1) = 2 /\ 2 \in 1..5
        /\ a \in Phases[2] /\ a # "FINALIZE"
    BY <2>1, <2>3 DEF Traces, Phases
  <2>5. t \in Traces /\ Len(t) = Len(loop.trace) + 1 /\ Written(t)
    BY <2>3, <2>4, AppendWritten
  <2> HIDE DEF t
  <2>6. /\ Len(t) + 1 - 5 * (loop.iteration - 1) = 3 /\ 3 \in 1..5
        /\ o \in Phases[3] /\ o # "FINALIZE"
    BY <2>1, <2>3, <2>5 DEF Traces, Phases
  <2>7. u \in Traces /\ Len(u) = Len(t) + 1 /\ Written(u)
    BY <2>3, <2>5, <2>6, AppendWritten
  <2>8. loop.trace \o <<<<loop.iteration, a>>, <<loop.iteration, o>>>> = u
    BY <2>3, TwoAppends DEF t
  <2> HIDE DEF u
  <2>8a. PICK tools \in {0, 1} : loop' = [loop EXCEPT !.tools = @ + tools, !.trace = u]
    BY <2>2, <2>8
  <2>9. LoopOK' /\ loop'.trace = u /\ loop'.iteration = loop.iteration
        /\ (loop'.tools = loop.tools \/ loop'.tools = loop.tools + 1)
    <3>1. loop' = [iteration |-> loop.iteration, tools |-> loop.tools + tools,
                   focus |-> loop.focus, trace |-> u]
      BY <2>8a DEF BudgetInv, LoopOK
    <3>2. loop'.tools = loop.tools \/ loop'.tools = loop.tools + 1
      BY <3>1 DEF BudgetInv, LoopOK
    <3>3. loop'.tools \in Nat
      BY <3>2 DEF BudgetInv, LoopOK
    <3> QED BY <2>7, <3>1, <3>2, <3>3 DEF BudgetInv, LoopOK
  <2>10. Written(loop'.trace) /\ Len(loop'.trace) = 5 * (loop'.iteration - 1) + 3
    BY <2>3, <2>5, <2>7, <2>9
  <2>11. \A i \in 1..Len(loop'.trace) : TraceEntry(i)'
    BY <2>10 DEF Written, TraceEntry
  <2>12. loop'.tools <= loop'.iteration /\ loop'.tools <= MaxToolCalls
    BY <2>2, <2>9 DEF BudgetInv, LoopOK
  <2>13. LoopWithinBudget'
    BY <2>9, <2>11, <2>12 DEF BudgetInv, LoopWithinBudget
  <2> QED BY <2>2, <2>3, <2>9, <2>10, <2>13 DEF BudgetInv, TraceLength, InLoop, Before, Acting,
      Actions
<1>11. CASE StartAudit
  BY <1>11 DEF StartAudit, BudgetInv, LoopOK, LoopWithinBudget, TraceEntry, TraceLength, InLoop,
     Before, Acting, Actions
<1>12. CASE Evaluate
  <2>1. PICK e \in PhaseNames, f \in PhaseNames, r \in PhaseNames :
          e = "EVALUATE" /\ f = "FINALIZE" /\ r = "REPLAN"
    BY DEF PhaseNames
  <2>2. pc = "evaluate"
    BY <1>12 DEF Evaluate
  <2>3. Written(loop.trace) /\ loop.trace \in Traces /\ loop.iteration \in Nat \ {0}
        /\ Len(loop.trace) = 5 * (loop.iteration - 1) + 3
    BY <2>2 DEF BudgetInv, LoopOK, TraceLength, InLoop
  <2> DEFINE t == Append(loop.trace, <<loop.iteration, e>>)
             u == Append(t, <<loop.iteration, f>>)
             w == Append(t, <<loop.iteration, r>>)
  <2>4. /\ Len(loop.trace) + 1 - 5 * (loop.iteration - 1) = 4 /\ 4 \in 1..5
        /\ e \in Phases[4] /\ e # "FINALIZE"
    BY <2>1, <2>3 DEF Traces, Phases
  <2>5. t \in Traces /\ Len(t) = Len(loop.trace) + 1 /\ Written(t)
    BY <2>3, <2>4, AppendWritten
  <2>6. \/ pc' = "final" /\ loop' = [loop EXCEPT !.trace = @ \o <<<<loop.iteration, e>>, <<loop.iteration, f>>>>]
        \/ pc' = "final" /\ loop' = [loop EXCEPT !.trace = Append(@, <<loop.iteration, e>>)]
        \/ pc' = "begin" /\ loop' = [loop EXCEPT !.trace = @ \o <<<<loop.iteration, e>>, <<loop.iteration, r>>>>]
    BY <1>12, <2>1 DEF Evaluate, GiveUp, Traced
  <2>7. /\ loop.trace \o <<<<loop.iteration, e>>, <<loop.iteration, f>>>> = u
        /\ loop.trace \o <<<<loop.iteration, e>>, <<loop.iteration, r>>>> = w
    <3>1. loop.trace \in Traces /\ loop.iteration \in Nat
      BY <2>3
    <3>2. loop.trace \o <<<<loop.iteration, e>>, <<loop.iteration, f>>>> = u
      BY <3>1, TwoAppends
    <3>3. loop.trace \o <<<<loop.iteration, e>>, <<loop.iteration, r>>>> = w
      BY <3>1, TwoAppends
    <3>4. QED
      BY <3>2, <3>3
  <2>8. CASE pc' = "final" /\ loop' = [loop EXCEPT !.trace = u]
    <3>1. Len(t) + 1 - 5 * (loop.iteration - 1) = 5
      BY <2>3, <2>5
    <3> HIDE DEF t
    <3>2. /\ u \in Traces
          /\ \A i \in 1..Len(u) :
               LET position == i - 5 * (u[i][1] - 1)
               IN  /\ position \in 1..5 /\ u[i][2] \in Phases[position]
                   /\ u[i][2] = "FINALIZE" => i = Len(u)
      <4>1. t \in Traces /\ Written(t) /\ loop.iteration \in Nat \ {0} /\ f = "FINALIZE"
        BY <2>1, <2>3, <2>5
      <4>2. QED
        BY <3>1, <4>1, AppendFinal
    <3> HIDE DEF u
    <3>3. LoopOK' /\ loop'.trace = u /\ loop'.iteration = loop.iteration
          /\ loop'.tools = loop.tools
      BY <2>8, <3>2 DEF BudgetInv, LoopOK
    <3>4. \A i \in 1..Len(loop'.trace) : TraceEntry(i)'
      BY <3>2, <3>3 DEF TraceEntry
    <3> QED BY <2>8, <3>3, <3>4 DEF BudgetInv, LoopWithinBudget, TraceLength, InLoop, Before,
        Acting, Actions
  <2>9. CASE pc' = "final" /\ loop' = [loop EXCEPT !.trace = t]
    <3> HIDE DEF t
    <3>1. LoopOK' /\ loop'.trace = t /\ loop'.iteration = loop.iteration
          /\ loop'.tools = loop.tools
      BY <2>5, <2>9 DEF BudgetInv, LoopOK
    <3>2. \A i \in 1..Len(loop'.trace) : TraceEntry(i)'
      BY <2>5, <3>1 DEF Written, TraceEntry
    <3> QED BY <2>9, <3>1, <3>2 DEF BudgetInv, LoopWithinBudget, TraceLength, InLoop, Before,
        Acting, Actions
  <2>10. CASE pc' = "begin" /\ loop' = [loop EXCEPT !.trace = w]
    <3> HIDE DEF t
    <3>1. /\ Len(t) + 1 - 5 * (loop.iteration - 1) = 5 /\ 5 \in 1..5
          /\ r \in Phases[5] /\ r # "FINALIZE"
      BY <2>1, <2>3, <2>5 DEF Phases
    <3>2. w \in Traces /\ Len(w) = Len(t) + 1 /\ Written(w)
      BY <2>3, <2>5, <3>1, AppendWritten
    <3> HIDE DEF w
    <3>3. LoopOK' /\ loop'.trace = w /\ loop'.iteration = loop.iteration
          /\ loop'.tools = loop.tools
      BY <2>10, <3>2 DEF BudgetInv, LoopOK
    <3>4. Written(loop'.trace) /\ Len(loop'.trace) = 5 * loop'.iteration
      BY <2>3, <2>5, <3>2, <3>3
    <3>5. \A i \in 1..Len(loop'.trace) : TraceEntry(i)'
      BY <3>4 DEF Written, TraceEntry
    <3> QED BY <2>10, <3>3, <3>4, <3>5 DEF BudgetInv, LoopWithinBudget, TraceLength, InLoop, Before,
        Acting, Actions
  <2> QED BY <2>6, <2>7, <2>8, <2>9, <2>10
<1> QED
  BY <1>1, <1>2, <1>3, <1>4, <1>5, <1>6, <1>7, <1>8, <1>9, <1>10, <1>11, <1>12 DEF Next, vars

(* The loop's budget and the order of its trace, for every budget and all  *)
(* answers of planner, evaluator and tools.                                *)
THEOREM LoopBounded == Spec => []LoopWithinBudget
PROOF
<1>1. Spec => []BudgetInv
  BY BudgetInit, BudgetStep, PTL DEF Spec
<1>2. BudgetInv => LoopWithinBudget
  BY DEF BudgetInv
<1> QED BY <1>1, <1>2, PTL

(***************************************************************************)
(* Only what was tried again is reported as worth another try.             *)
(***************************************************************************)
Tried(e) == e.retryable => e.attempts = MaxTries

RetryInv ==
  /\ SoundInv
  /\ call.attempt \in 1..MaxTries
  /\ RetryableOnlyAfterRetry
  /\ pc \in Working => \A e \in report.audit.errors : Tried(e)

(* A client that gives up on a transient failure has made its last attempt. *)
LEMMA FailureTried ==
  ASSUME call.attempt \in 1..MaxTries, NEW reply
  PROVE  /\ ~LLMRetries(call, reply) => Tried(LLMFailure(call, reply))
         /\ ~AuditRetries(call, reply) => Tried(AuditFailure(call, reply))
PROOF
<1>1. CASE reply \in TransientReplies
  BY <1>1 DEF MaxTries, LLMRetries, AuditRetries, Tried, LLMFailure, AuditFailure
<1>2. CASE reply \notin TransientReplies
  BY <1>2 DEF Tried, LLMFailure, AuditFailure
<1> QED BY <1>1, <1>2

LEMMA RetryInit == Init => RetryInv
PROOF
  BY SoundInit DEF Init, RetryInv, NewCall, NewSnapshot, MaxTries, RetryableOnlyAfterRetry,
     Working, Actions

(* A step that collects no error and starts no attempt but the first.      *)
LEMMA KeepsTries ==
  ASSUME RetryInv, SoundInv', call' = call \/ call' = NewCall,
         errors' = errors \/ errors' = errors \cup {BudgetError},
         snapshot' = snapshot \/ snapshot' = NewSnapshot,
         pc' \in Working => (pc \in Working /\ report'.audit = report.audit)
  PROVE  RetryInv'
PROOF
<1>1. call'.attempt \in 1..MaxTries
  BY DEF RetryInv, NewCall, MaxTries
<1>2. \A e \in errors' \cup snapshot'.errors : Tried(e)
  BY DEF RetryInv, RetryableOnlyAfterRetry, Tried, BudgetError, NewSnapshot
<1> QED BY <1>1, <1>2 DEF RetryInv, RetryableOnlyAfterRetry, Tried

LEMMA RetryStep == RetryInv /\ [Next]_vars => RetryInv'
PROOF
<1> SUFFICES ASSUME RetryInv, [Next]_vars PROVE RetryInv'
  OBVIOUS
<1>0. SoundInv /\ SoundInv'
  BY SoundStep DEF RetryInv
<1>1. CASE UNCHANGED vars
  BY <1>0, <1>1 DEF vars, RetryInv, RetryableOnlyAfterRetry, Tried
<1>2. ASSUME NEW stage \in {"extract", "plan", "evaluate"}, ModelFails(stage)
      PROVE  RetryInv'
  <2>1. PICK reply \in ModelReplies \ {"good"} :
          \/ /\ LLMRetries(call, reply) /\ call' = LLMRetry(call, reply)
             /\ UNCHANGED <<pc, snapshot, report, loop, status, errors, judged>>
          \/ ~LLMRetries(call, reply) /\ Fail(LLMFailure(call, reply))
    BY <1>2 DEF ModelFails
  <2>2. CASE /\ LLMRetries(call, reply) /\ call' = LLMRetry(call, reply)
             /\ UNCHANGED <<pc, snapshot, report, loop, status, errors, judged>>
    <3>1. call'.attempt \in 1..MaxTries
      BY <2>2 DEF LLMRetries, LLMRetry, RetryInv, MaxTries
    <3> QED BY <1>0, <2>2, <3>1 DEF RetryInv, RetryableOnlyAfterRetry, Tried
  <2>3. CASE ~LLMRetries(call, reply) /\ Fail(LLMFailure(call, reply))
    <3>1. Tried(LLMFailure(call, reply))
      BY <2>3, FailureTried DEF RetryInv
    <3>2. errors' = {LLMFailure(call, reply)} /\ snapshot'.errors = {} /\ call' = NewCall
          /\ pc' = "persist"
      BY <2>3 DEF Fail, NewSnapshot
    <3> QED BY <1>0, <3>1, <3>2 DEF RetryInv, RetryableOnlyAfterRetry, Tried, NewCall, MaxTries,
        Working, Actions
  <2> QED BY <2>1, <2>2, <2>3
<1>3. CASE Extract
  BY <1>0, <1>3 DEF Extract, RetryInv, RetryableOnlyAfterRetry, NewCall, MaxTries, Tried
<1>4. CASE RetryAudit
  <2>1. call'.attempt \in 1..MaxTries
    BY <1>4 DEF RetryAudit, AuditRetries, AuditRetry, RetryInv, MaxTries
  <2> QED BY <1>0, <1>4, <2>1 DEF RetryAudit, RetryInv, RetryableOnlyAfterRetry, Tried
<1>5. CASE ReadResource
  <2>1. PICK reply \in ServiceReplies :
          /\ ~AuditRetries(call, reply)
          /\ snapshot'.errors = snapshot.errors \cup
                                IF reply = "good" THEN {} ELSE {AuditFailure(call, reply)}
    BY <1>5 DEF ReadResource
  <2>2. \A e \in snapshot'.errors : Tried(e)
    BY <2>1, FailureTried DEF RetryInv, RetryableOnlyAfterRetry, Tried
  <2>3. UNCHANGED <<pc, report, errors>> /\ call' = NewCall
    BY <1>5 DEF ReadResource
  <2> QED BY <1>0, <2>2, <2>3 DEF RetryInv, RetryableOnlyAfterRetry, Tried, NewCall, MaxTries
<1>6. CASE Judge
  <2>1. report'.audit.errors = snapshot.errors /\ snapshot'.errors = {}
        /\ UNCHANGED <<call, errors>>
    BY <1>6 DEF Judge, NewSnapshot
  <2> QED BY <1>0, <2>1 DEF RetryInv, RetryableOnlyAfterRetry, Tried
<1>7. CASE CollaboratorRaises
  BY <1>0, <1>7 DEF CollaboratorRaises, Fail, RetryInv, RetryableOnlyAfterRetry, Tried, Working,
     Actions, InternalError, NewCall, NewSnapshot, MaxTries
<1>8. CASE SkipLoop \/ EnterLoop \/ BeginIteration \/ BudgetEnds \/ Plan \/ ExpandContext
           \/ StartAudit \/ FinalizeAction \/ Evaluate \/ Persist
  <2>1. /\ call' = call \/ call' = NewCall
        /\ errors' = errors \/ errors' = errors \cup {BudgetError}
        /\ snapshot' = snapshot /\ report' = report
    BY <1>8 DEF SkipLoop, EnterLoop, BeginIteration, BudgetEnds, GiveUp, Plan, ExpandContext,
       Acted, StartAudit, FinalizeAction, Evaluate, Persist
  <2>2. pc' \in Working => pc \in Working
    BY <1>8 DEF SkipLoop, EnterLoop, BeginIteration, BudgetEnds, Plan, ExpandContext,
       StartAudit, FinalizeAction, Evaluate, Persist, Working, Actions
  <2> QED BY <1>0, <2>1, <2>2, KeepsTries
<1>9. CASE SearchKnowledge \/ ReviseReport
  <2>1. /\ call' = call /\ errors' = errors /\ snapshot' = snapshot /\ pc \in Working
    BY <1>9 DEF SearchKnowledge, ReviseReport, Acted, Working, Actions
  <2>2. report'.audit = report.audit
    BY <1>0, <1>9, <2>1 DEF SearchKnowledge, ReviseReport, SoundInv, IsReport
  <2> QED BY <1>0, <2>1, <2>2, KeepsTries
<1>10. CASE QueryAudit
  <2>1. IsReport(report)
    BY <1>0, <1>10 DEF QueryAudit, SoundInv, Working
  <2>2. report'.audit.errors = snapshot.errors /\ snapshot'.errors = {}
        /\ UNCHANGED <<call, errors>>
    BY <1>10, <2>1 DEF QueryAudit, Acted, NewSnapshot, IsReport
  <2> QED BY <1>0, <2>2 DEF RetryInv, RetryableOnlyAfterRetry, Tried
<1>11. CASE Conclude
  <2>1. pc \in Working /\ pc' \notin Working /\ UNCHANGED <<call, snapshot>>
    BY <1>11 DEF Conclude, Working, Actions
  <2>2. errors' = errors \cup {Plain(c) : c \in Check(report)} \cup report.audit.errors
                    \cup {Plain(p.code) : p \in report.pending}
    BY <1>11 DEF Conclude
  <2>3. \A c : Tried(Plain(c))
    BY DEF Plain, Tried
  <2>4. \A e \in errors' : Tried(e)
    BY <2>1, <2>2, <2>3 DEF RetryInv, RetryableOnlyAfterRetry, Tried
  <2> QED BY <1>0, <2>1, <2>4 DEF RetryInv, RetryableOnlyAfterRetry, Tried
<1>12. CASE PersistRaises
  BY <1>0, <1>12 DEF PersistRaises, Plain, RetryInv, RetryableOnlyAfterRetry, Tried, Working,
     Actions
<1> QED
  BY <1>1, <1>2, <1>3, <1>4, <1>5, <1>6, <1>7, <1>8, <1>9, <1>10, <1>11, <1>12 DEF Next

(* An error that callers may retry has exhausted the client's own retries. *)
THEOREM RetriesExhausted == Spec => []RetryableOnlyAfterRetry
PROOF
<1>1. Spec => []RetryInv
  BY RetryInit, RetryStep, PTL DEF Spec
<1>2. RetryInv => RetryableOnlyAfterRetry
  BY DEF RetryInv
<1> QED BY <1>1, <1>2, PTL
=============================================================================
