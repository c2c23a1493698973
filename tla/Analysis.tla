------------------------------ MODULE Analysis ------------------------------
(***************************************************************************)
(* One analysis of a call: QualityAnalysisService._analyze with all it     *)
(* calls.  The extractor asks the language model for events, the audit     *)
(* service is read, the rules are applied to the events, the gate checks   *)
(* the report, a doubtful report goes through the bounded agent loop, and  *)
(* the gate has the last word.  The environment chooses every answer of    *)
(* the model, of the audit service and of the retrieval, and the time.     *)
(***************************************************************************)
EXTENDS QualityGate, RetriedCalls, Sequences

CONSTANTS
  Speech,        \* turn |-> the types whose forbidden wording an agent says in it
  AgentTurns,    \* the turns of the agent
  Candidates,    \* the events the model may find; quotes: the statement repeats a threat
  MaxEvents,     \* bound: events in an answer of the model
  RuleOf,        \* type |-> the rule its check applies
  Resources,     \* the resources of the audit service, in the order they are read
  Tickets,       \* the resource that tells whether a dispute ticket exists
  ModelReplies, ServiceReplies,  \* the replies that occur, subsets of the clients' sets
  MaxIterations, MaxToolCalls,   \* the loop's budget
  NoReport

Events == [type : Types, turns : SUBSET Turns, ambiguous : BOOLEAN, quotes : BOOLEAN]

ASSUME AnalysisConstants ==
  /\ AgentTurns \subseteq Turns /\ Speech \in [Turns -> SUBSET Types]
  /\ RuleOf \in [Types -> Rules]
  /\ ModelReplies \subseteq LLMReplies /\ ServiceReplies \subseteq AuditReplies
  /\ \A e \in Candidates : e \in Events /\ e.turns # {}
  /\ MaxIterations \in Nat \ {0} /\ MaxToolCalls \in Nat \ {0}
  /\ Tickets \in 1..Len(Resources)

VARIABLES
  pc,       \* what the thread waits for or does next
  call,     \* the HTTP call in progress
  snapshot, \* the audit snapshot being read: [next, errors, ticket]
  report,   \* the report, or NoReport
  loop,     \* the agent loop: [iteration, tools, focus, trace]
  status,   \* the status of the answer
  errors,   \* the errors collected for the answer
  judged    \* the ticket the rules were applied with

vars == <<pc, call, snapshot, report, loop, status, errors, judged>>

NewSnapshot == [next |-> 1, errors |-> {}, ticket |-> "unknown"]

Actions == {"EXPAND_CONTEXT", "SEARCH_KNOWLEDGE", "QUERY_ACTION_AUDIT", "REVISE_REPORT",
            "FINALIZE"}
Verdicts == {"PASS", "NEEDS_MORE_CONTEXT", "RULE_AMBIGUITY", "REPORT_REVISION_REQUIRED",
             "HUMAN_REVIEW_REQUIRED"}

Init ==
  /\ pc = "extract" /\ call = NewCall /\ snapshot = NewSnapshot
  /\ report = NoReport /\ status = "RUNNING" /\ errors = {} /\ judged = "unknown"
  /\ loop = [iteration |-> 0, tools |-> 0, focus |-> {}, trace |-> <<>>]

(***************************************************************************)
(* Answers.                                                                *)
(***************************************************************************)
(* An exception ends the analysis: no report, one error.                   *)
Fail(error) ==
  /\ status' = "FAILED" /\ report' = NoReport /\ errors' = {error} /\ pc' = "persist"
  /\ call' = NewCall /\ snapshot' = NewSnapshot
  /\ UNCHANGED <<loop, judged>>

InternalError == [code |-> "INTERNAL_ERROR", retryable |-> FALSE, attempts |-> 1]

(* The model does not answer this attempt: another one, or a failure.      *)
ModelFails(stage) ==
  /\ pc = stage
  /\ \E reply \in ModelReplies \ {"good"} :
       \/ /\ LLMRetries(call, reply)
          /\ call' = LLMRetry(call, reply)
          /\ UNCHANGED <<pc, snapshot, report, loop, status, errors, judged>>
       \/ /\ ~LLMRetries(call, reply)
          /\ Fail(LLMFailure(call, reply))

(* Candidates with the same identifier are one event: the most confident.  *)
Deduplications(found) ==
  {kept \in SUBSET found :
     /\ \A e, f \in kept : EventId(e) = EventId(f) => e = f
     /\ \A e \in found : \E f \in kept : EventId(e) = EventId(f)}

Extract ==
  /\ pc = "extract" /\ "good" \in ModelReplies
  /\ \E found \in SUBSET Candidates :
       /\ Cardinality(found) <= MaxEvents
       /\ \E events \in Deduplications(found) :
            report' = [events |-> events, violations |-> {}, hits |-> <<>>,
                       audit |-> [errors |-> {}, ticket |-> "unknown"], pending |-> {},
                       score |-> 100, disposition |-> "AUTO_PASS"]
  /\ pc' = "audit" /\ call' = NewCall
  /\ UNCHANGED <<snapshot, loop, status, errors, judged>>

(***************************************************************************)
(* AuditClient.fetch_snapshot reads the resources one after the other; a   *)
(* failure is noted and the next resource is read.                         *)
(***************************************************************************)
Reading == pc \in {"audit", "reaudit"} /\ snapshot.next <= Len(Resources)

RetryAudit ==
  /\ Reading
  /\ \E reply \in ServiceReplies : AuditRetries(call, reply)
  /\ call' = AuditRetry(call)
  /\ UNCHANGED <<pc, snapshot, report, loop, status, errors, judged>>

ReadResource ==
  /\ Reading
  /\ \E reply \in ServiceReplies :
       /\ ~AuditRetries(call, reply)
       /\ \E ticket \in IF reply = "good" /\ snapshot.next = Tickets
                        THEN {"yes", "no", "unknown"} ELSE {snapshot.ticket} :
            snapshot' = [next   |-> snapshot.next + 1,
                         errors |-> snapshot.errors \cup
                                    IF reply = "good" THEN {} ELSE {AuditFailure(call, reply)},
                         ticket |-> ticket]
  /\ call' = NewCall
  /\ UNCHANGED <<pc, report, loop, status, errors, judged>>

SnapshotRead == snapshot.next > Len(Resources)

(***************************************************************************)
(* DirectAnalyzer.analyze: search for each event, then its check.          *)
(***************************************************************************)
(* What a search may return: eligible documents, above the threshold or not. *)
SearchResults(type) ==
  UNION {[docs -> BOOLEAN] : docs \in SUBSET {d \in ActiveDocs : DocType[d] = type}}

EventEnd(e) == Max(e.turns)
TurnsAfter(e) == {t \in AgentTurns : t > EventEnd(e)}
Says(turns, type) == {t \in turns : type \in Speech[t]}

(* The turns that prove the breach; a dispute looks behind the event only, *)
(* and a threat that only the statement quotes is laid to the event's turns. *)
BadTurns(e) ==
  LET heard == Says(IF e.type = "REPAYMENT_DISPUTE" THEN TurnsAfter(e)
                    ELSE TurnsAfter(e) \cup (e.turns \cap AgentTurns), e.type)
  IN  IF heard = {} /\ e.type = "THREAT_OR_COERCION" /\ e.quotes
      THEN e.turns \cap AgentTurns
      ELSE heard

Breached(e, ticket) ==
  /\ ~e.ambiguous
  /\ BadTurns(e) # {} \/ (e.type = "REPAYMENT_DISPUTE" /\ ticket = "no")

(* Threats and disclosures are proved by the agent's words alone.          *)
Evidence(e) ==
  BadTurns(e) \cup IF e.type \in {"THREAT_OR_COERCION", "THIRD_PARTY_CONTACT"} THEN {} ELSE e.turns

Support(e, found) == SupportingHits({}, e.type, RuleOf[e.type], found)

(* Faulty variant: a breach without support is skipped, not left to review. *)
PendingOfRulesOnly(events, ticket, found) ==
  {[event |-> EventId(e), code |-> "NO_ACTIVE_RULE_SUPPORT"] :
     e \in {f \in events : Breached(f, ticket) /\ ~GetActive(RuleOf[f.type], f.type)}}

Pending(events, ticket, found) ==
  {[event |-> EventId(e), code |-> IF GetActive(RuleOf[e.type], e.type)
                                   THEN "RAG_WEAK_SUPPORT" ELSE "NO_ACTIVE_RULE_SUPPORT"] :
     e \in {f \in events : /\ Breached(f, ticket)
                           /\ \/ ~GetActive(RuleOf[f.type], f.type)
                              \/ Support(f, found[f]) = {}}}

Violations(events, ticket, found) ==
  {[event |-> EventId(e), rule |-> RuleOf[e.type], penalty |-> Penalty[RuleOf[e.type]],
    evidence |-> Evidence(e), docs |-> Support(e, found[e])] :
     e \in {f \in events : /\ Breached(f, ticket)
                           /\ GetActive(RuleOf[f.type], f.type)
                           /\ Support(f, found[f]) # {}}}

(* One entry per document, with the best score of the searches.            *)
MergedHits(found) ==
  [d \in UNION {DOMAIN found[e] : e \in DOMAIN found} |->
     \E e \in DOMAIN found : d \in DOMAIN found[e] /\ found[e][d]]

Judge ==
  /\ pc = "audit" /\ SnapshotRead
  /\ LET events == report.events
         ticket == snapshot.ticket
     IN \E found \in [events -> UNION {SearchResults(t) : t \in Types}] :
          /\ \A e \in events : found[e] \in SearchResults(e.type)
          /\ LET violations == Violations(events, ticket, found)
                 pending    == Pending(events, ticket, found)
             IN report' = [events |-> events, violations |-> violations,
                           hits |-> MergedHits(found),
                           audit |-> [errors |-> snapshot.errors, ticket |-> ticket],
                           pending |-> pending, score |-> CalculateScore(violations),
                           disposition |->
                             IF \/ \E e \in events : e.ambiguous
                                \/ snapshot.errors # {} \/ pending # {}
                             THEN "HUMAN_REVIEW_REQUIRED"
                             ELSE IF violations # {} THEN "AUTO_VIOLATION" ELSE "AUTO_PASS"]
  /\ judged' = snapshot.ticket /\ snapshot' = NewSnapshot /\ pc' = "route"
  /\ UNCHANGED <<call, loop, status, errors>>

(* A resource of another shape than AuditSnapshot's, an index that is not  *)
(* built, an embedder or vector store that raises.                         *)
CollaboratorRaises ==
  /\ \/ pc \in {"audit", "reaudit"} /\ SnapshotRead
     \/ pc = "SEARCH_KNOWLEDGE" /\ loop.focus # {}
  /\ Fail(InternalError)

(***************************************************************************)
(* requires_loop and BoundedAgentLoop.run.                                 *)
(***************************************************************************)
RequiresLoop(r) ==
  \/ \E e \in r.events : e.ambiguous
  \/ r.audit.errors # {}
  \/ r.pending # {}
  \/ Check(r) # {}

(* The loop works on an ambiguous event, or else on the first one.         *)
FocusEvents(r) ==
  IF \E e \in r.events : e.ambiguous THEN {e \in r.events : e.ambiguous} ELSE r.events

Traced(phase) == [loop EXCEPT !.trace = Append(@, <<loop.iteration, phase>>)]

SkipLoop ==
  /\ pc = "route" /\ ~RequiresLoop(report)
  /\ loop' = Traced("FINALIZE")
  /\ pc' = "final"
  /\ UNCHANGED <<call, snapshot, report, status, errors, judged>>

EnterLoop ==
  /\ pc = "route" /\ RequiresLoop(report)
  /\ IF report.events = {}
     THEN UNCHANGED loop
     ELSE \E e \in FocusEvents(report) : loop' = [loop EXCEPT !.focus = {e}]
  /\ pc' = "begin"
  /\ UNCHANGED <<call, snapshot, report, status, errors, judged>>

(* Faulty variant: the bound on the iterations is one too large.           *)
BeginIterationOnceMore ==
  /\ pc = "begin" /\ loop.iteration <= MaxIterations /\ loop.tools < MaxToolCalls
  /\ loop' = [loop EXCEPT !.iteration = @ + 1]
  /\ pc' = "plan"
  /\ UNCHANGED <<call, snapshot, report, status, errors, judged>>

BeginIteration ==
  /\ pc = "begin" /\ loop.iteration < MaxIterations /\ loop.tools < MaxToolCalls
  /\ loop' = [loop EXCEPT !.iteration = @ + 1]
  /\ pc' = "plan"
  /\ UNCHANGED <<call, snapshot, report, status, errors, judged>>

BudgetError ==
  [code |-> "LOOP_BUDGET_EXHAUSTED", retryable |-> FALSE, attempts |-> loop.iteration]

GiveUp ==
  /\ errors' = errors \cup {BudgetError}
  /\ pc' = "final"

(* The iterations or the tool calls are used up, or the time is over: the  *)
(* clock is read here only, so that no call is cut short by it.            *)
BudgetEnds ==
  /\ pc = "begin"
  /\ \/ loop.iteration = MaxIterations
     \/ loop.tools >= MaxToolCalls
     \/ loop.iteration > 0
  /\ GiveUp
  /\ UNCHANGED <<call, snapshot, report, loop, status, judged>>

Plan ==
  /\ pc = "plan" /\ "good" \in ModelReplies
  /\ pc' \in Actions
  /\ loop' = Traced("PLAN") /\ call' = NewCall
  /\ UNCHANGED <<snapshot, report, status, errors, judged>>

(* After the action: ACT and OBSERVE are traced, the evaluator is asked.   *)
Acted(tools) ==
  /\ loop' = [loop EXCEPT !.tools = @ + tools,
                          !.trace = @ \o <<<<loop.iteration, "ACT">>, <<loop.iteration, "OBSERVE">>>>]
  /\ pc' = "evaluate"
  /\ UNCHANGED <<call, status, errors, judged>>

(* A wider evidence window changes what the model reads, not the report.   *)
ExpandContext ==
  /\ pc = "EXPAND_CONTEXT"
  /\ Acted(1)
  /\ UNCHANGED <<snapshot, report>>

(* A document found again keeps its last score, also when it is lower.     *)
SearchKnowledge ==
  /\ pc = "SEARCH_KNOWLEDGE"
  /\ IF loop.focus = {}
     THEN UNCHANGED report
     ELSE \E e \in loop.focus : \E found \in SearchResults(e.type) :
            report' = [report EXCEPT !.hits =
                         [d \in DOMAIN @ \cup DOMAIN found |->
                            IF d \in DOMAIN found THEN found[d] ELSE @[d]]]
  /\ Acted(1)
  /\ UNCHANGED snapshot

StartAudit ==
  /\ pc = "QUERY_ACTION_AUDIT"
  /\ pc' = "reaudit"
  /\ UNCHANGED <<call, snapshot, report, loop, status, errors, judged>>

QueryAudit ==
  /\ pc = "reaudit" /\ SnapshotRead
  /\ report' = [report EXCEPT !.audit = [errors |-> snapshot.errors, ticket |-> snapshot.ticket]]
  /\ snapshot' = NewSnapshot
  /\ Acted(1)

ReviseReport ==
  /\ pc = "REVISE_REPORT"
  /\ LET kept == {v \in report.violations : v.evidence # {} /\ v.evidence \subseteq Turns}
     IN report' = [report EXCEPT
          !.violations = kept, !.score = CalculateScore(kept),
          !.disposition = IF kept # {} THEN "AUTO_VIOLATION"
                          ELSE IF report.audit.errors # {} \/ \E e \in report.events : e.ambiguous
                          THEN "HUMAN_REVIEW_REQUIRED" ELSE "AUTO_PASS"]
  /\ Acted(0)
  /\ UNCHANGED snapshot

FinalizeAction ==
  /\ pc = "FINALIZE"
  /\ Acted(0)
  /\ UNCHANGED <<snapshot, report>>

(* A verdict ends the loop, ends it without a result, or asks for a replan. *)
Evaluate ==
  /\ pc = "evaluate" /\ "good" \in ModelReplies
  /\ \E verdict \in Verdicts :
       \/ /\ verdict = "PASS" /\ Check(report) = {}
          /\ pc' = "final" /\ UNCHANGED errors
          /\ loop' = [loop EXCEPT !.trace = @ \o <<<<loop.iteration, "EVALUATE">>,
                                                   <<loop.iteration, "FINALIZE">>>>]
       \/ /\ verdict = "HUMAN_REVIEW_REQUIRED"
          /\ GiveUp
          /\ loop' = Traced("EVALUATE")
       \/ /\ verdict # "HUMAN_REVIEW_REQUIRED" /\ ~(verdict = "PASS" /\ Check(report) = {})
          /\ pc' = "begin" /\ UNCHANGED errors
          /\ loop' = [loop EXCEPT !.trace = @ \o <<<<loop.iteration, "EVALUATE">>,
                                                   <<loop.iteration, "REPLAN">>>>]
  /\ call' = NewCall
  /\ UNCHANGED <<snapshot, report, status, judged>>

(***************************************************************************)
(* The end of _analyze: the gate again, the errors, the status, the store. *)
(***************************************************************************)
Plain(code) == [code |-> code, retryable |-> FALSE, attempts |-> 1]

Conclude ==
  /\ pc = "final"
  /\ LET issues == Check(report)
         all    == errors \cup {Plain(c) : c \in issues} \cup report.audit.errors
                     \cup {Plain(p.code) : p \in report.pending}
     IN /\ errors' = all
        /\ IF issues = {} /\ all = {}
           THEN status' = "COMPLETED" /\ UNCHANGED report
           ELSE status' = "PARTIAL"
                /\ report' = [report EXCEPT !.disposition = "HUMAN_REVIEW_REQUIRED"]
  /\ pc' = "persist"
  /\ UNCHANGED <<call, snapshot, loop, judged>>

Persist ==
  /\ pc = "persist" /\ pc' = "done"
  /\ UNCHANGED <<call, snapshot, report, loop, status, errors, judged>>

(* The store raises while the trace or the result is written.              *)
PersistRaises ==
  /\ pc = "persist"
  /\ status' = "FAILED" /\ report' = NoReport
  /\ errors' = {Plain("PERSISTENCE_WRITE_FAILED")} /\ pc' = "done"
  /\ UNCHANGED <<call, snapshot, loop, judged>>

Next ==
  \/ \E stage \in {"extract", "plan", "evaluate"} : ModelFails(stage)
  \/ Extract \/ RetryAudit \/ ReadResource \/ Judge \/ CollaboratorRaises
  \/ SkipLoop \/ EnterLoop \/ BeginIteration \/ BudgetEnds \/ Plan
  \/ ExpandContext \/ SearchKnowledge \/ StartAudit \/ QueryAudit \/ ReviseReport
  \/ FinalizeAction \/ Evaluate \/ Conclude \/ Persist \/ PersistRaises

(* Every wait of the thread has a timeout, and nothing else holds it up.   *)
Spec == Init /\ [][Next]_vars /\ WF_vars(Next)

(***************************************************************************)
(* Properties.                                                             *)
(***************************************************************************)
(* The variables that later parts of the answer rest on have their types.  *)
TypeOK ==
  /\ call.attempt \in 1..MaxTries
  /\ snapshot.next \in 1..(Len(Resources) + 1)
  /\ loop.iteration \in Nat /\ loop.tools \in Nat
  /\ status \in {"RUNNING", "COMPLETED", "PARTIAL", "FAILED"}
  /\ report = NoReport => pc \in {"extract", "persist", "done"}

(* An analysis that nobody reviews is sound by the reference definition,   *)
(* whichever way it took through the loop, the retries and the revisions:  *)
(* the gate misses nothing (qc/quality_gate.py, qc/service.py:142).        *)
CompletedIsSound == status = "COMPLETED" => Sound(report)

(* An analysis that nobody reviews has a violation for each breach found   *)
(* by the checks, also after the loop's revisions: what could not be       *)
(* supported is left pending and not dropped (qc/direct_analyzer.py:227).  *)
CompletedIsComplete ==
  status = "COMPLETED" =>
    \A e \in report.events :
      Breached(e, judged) => \E v \in report.violations : v.event = EventId(e)

(* A failure reported as retryable has used up the client's own retries    *)
(* (qc/llm_gateway.py:82, qc/audit_client.py:35): a stage above that       *)
(* retries it never repeats a call that was not made twice.                *)
RetryableOnlyAfterRetry ==
  \A e \in errors \cup snapshot.errors : e.retryable => e.attempts = MaxTries

Phases == <<{"PLAN"}, {"ACT"}, {"OBSERVE"}, {"EVALUATE"}, {"REPLAN", "FINALIZE"}>>

(* The i-th entry of the trace, among the five of its iteration.           *)
TraceEntry(i) ==
  LET position == i - 5 * (loop.trace[i][1] - 1)
  IN  /\ position \in 1..5 /\ loop.trace[i][2] \in Phases[position]
      /\ loop.trace[i][2] = "FINALIZE" => i = Len(loop.trace)

(* However the loop ends, its budget is kept, and the trace shows every    *)
(* iteration whole, in order and under its number: plan, act, observe,     *)
(* evaluate, replan; only the last one may stop early or end in FINALIZE   *)
(* (qc/agent_loop.py:143).                                                 *)
LoopWithinBudget ==
  /\ loop.iteration <= MaxIterations
  /\ loop.tools <= MaxToolCalls /\ loop.tools <= loop.iteration
  /\ \/ loop.trace = <<<<0, "FINALIZE">>>>
     \/ \A i \in 1..Len(loop.trace) : TraceEntry(i)

(* Every analysis answers, whatever the model and the services reply: the  *)
(* thread that serves the request is not kept for ever.                    *)
AnalysisEnds == <>(pc = "done")
=============================================================================
