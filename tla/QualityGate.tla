----------------------------- MODULE QualityGate -----------------------------
(***************************************************************************)
(* The deterministic side of an analysis: the rule base (qc/rules.py), the *)
(* support a retrieved document gives a violation (qc/rag_support.py) and  *)
(* the gate a report must pass (qc/quality_gate.py).                       *)
(*                                                                         *)
(* A report is a record                                                    *)
(*   [events, violations, hits, audit, pending, score, disposition].       *)
(* An event is [type, turns, ambiguous]; its identifier is a hash of its   *)
(* type and turns, hence the pair.  A violation is [event, rule, penalty,  *)
(* evidence, docs].  hits maps each retrieved document to whether its      *)
(* score reaches the support threshold.  audit is [errors, ticket].        *)
(***************************************************************************)
EXTENDS Naturals, FiniteSetsExt

CONSTANTS
  Turns,         \* the turns of the transcript, numbered in time order
  Types,         \* the event types
  Rules,         \* the rules of the rule base
  ActiveRules,   \* those in force when the call started
  RuleTypes,     \* rule |-> the event types it applies to
  Penalty,       \* rule |-> the points it takes off
  Documents,     \* the documents of the knowledge base
  ActiveDocs,    \* those published and in force when the call started
  DocType,       \* document |-> its event type
  RelatedRules   \* document |-> the rules it supports

ASSUME GateConstants ==
  /\ ActiveRules \subseteq Rules /\ ActiveDocs \subseteq Documents
  /\ RuleTypes \in [Rules -> SUBSET Types] /\ Penalty \in [Rules -> Nat]
  /\ DocType \in [Documents -> Types] /\ RelatedRules \in [Documents -> SUBSET Rules]

EventId(e) == <<e.type, e.turns>>

(* The rule as it applies to an event type at the time of the call.        *)
GetActive(rule, type) == rule \in ActiveRules /\ type \in RuleTypes[rule]

(* 100 less the penalty of each (event, rule) whose rule is in force.      *)
CalculateScore(violations) ==
  LET items == {<<v.event, v.rule>> :
                  v \in {w \in violations : GetActive(w.rule, w.event[1])}}
      lost  == MapThenSumSet(LAMBDA i : Penalty[i[2]], items)
  IN  IF lost > 100 THEN 0 ELSE 100 - lost

(* The hits that support a rule for an event type; docs restricts them.    *)
SupportingHits(docs, type, rule, hits) ==
  {d \in DOMAIN hits : /\ docs = {} \/ d \in docs
                       /\ hits[d]
                       /\ DocType[d] = type
                       /\ d \in ActiveDocs
                       /\ rule \in RelatedRules[d]}

Issue(code, found) == IF found THEN {code} ELSE {}

EventIssues(r) ==
  Issue("DUPLICATE_EVENT_ID", \E e, f \in r.events : e # f /\ EventId(e) = EventId(f))
    \cup Issue("MISSING_TRANSCRIPT_EVIDENCE", \E e \in r.events : ~(e.turns \subseteq Turns))

(* What the documents cited by a violation fail to show; those retrieved   *)
(* are compared with its event only if the report has it.                  *)
EvidenceIssues(r, v, reported) ==
  LET type  == v.event[1]
      known == IF reported THEN v.docs \cap DOMAIN r.hits ELSE {}
  IN  Issue("MISSING_POLICY_EVIDENCE", v.docs = {})
        \cup Issue("UNKNOWN_POLICY_EVIDENCE", ~(v.docs \subseteq DOMAIN r.hits))
        \cup Issue("RAG_BELOW_THRESHOLD", \E d \in known : ~r.hits[d])
        \cup Issue("RAG_EVENT_TYPE_MISMATCH", \E d \in known : DocType[d] # type)
        \cup Issue("RAG_DOCUMENT_INACTIVE", \E d \in known : d \notin ActiveDocs)
        \cup Issue("NO_ACTIVE_RULE_SUPPORT",
                   \/ ~reported
                   \/ ~GetActive(v.rule, type)
                   \/ v.docs = {}
                   \/ SupportingHits(v.docs, type, v.rule, r.hits) = {})

ViolationIssues(r, v) ==
  LET reported == \E e \in r.events : EventId(e) = v.event
  IN  Issue("DUPLICATE_VIOLATION",
            \E w \in r.violations : w # v /\ w.event = v.event /\ w.rule = v.rule)
        \cup Issue("MISSING_EVENT_REFERENCE", ~reported)
        \cup Issue("MISSING_TRANSCRIPT_EVIDENCE", ~(v.evidence \subseteq Turns))
        \cup IF v.rule \notin Rules
             THEN {"UNKNOWN_RULE"}
             ELSE Issue("INACTIVE_RULE", reported /\ ~GetActive(v.rule, v.event[1]))
                    \cup Issue("INVALID_PENALTY", v.penalty # Penalty[v.rule])
                    \cup EvidenceIssues(r, v, reported)

(* The total is compared only when every violation could be scored.        *)
ScoreIssues(r) ==
  Issue("INVALID_SCORE",
        /\ \A v \in r.violations : v.rule \in Rules /\ \E e \in r.events : EventId(e) = v.event
        /\ r.score # CalculateScore(r.violations))

(* Faulty variant: a violation elsewhere lets an ambiguous event through.  *)
DispositionIssuesTrustViolations(r) ==
  LET d == r.disposition
  IN  Issue("DISPOSITION_CONFLICT",
            \/ d = "HUMAN_REVIEW_REQUIRED"
            \/ r.violations # {} /\ d = "AUTO_PASS"
            \/ r.violations = {} /\ d = "AUTO_VIOLATION"
            \/ r.violations = {} /\ \E e \in r.events : e.ambiguous)
        \cup Issue("AUDIT_ERROR_REQUIRES_REVIEW", r.audit.errors # {})

DispositionIssues(r) ==
  LET d == r.disposition
  IN  Issue("DISPOSITION_CONFLICT",
            \/ d = "HUMAN_REVIEW_REQUIRED"
            \/ r.violations # {} /\ d = "AUTO_PASS"
            \/ r.violations = {} /\ d = "AUTO_VIOLATION"
            \/ \E e \in r.events : e.ambiguous
            \/ r.audit.errors # {})
        \cup Issue("AUDIT_ERROR_REQUIRES_REVIEW", r.audit.errors # {})

(* Every code the gate reports; a report passes when there is none.        *)
Check(r) ==
  EventIssues(r) \cup (UNION {ViolationIssues(r, v) : v \in r.violations})
    \cup ScoreIssues(r) \cup {p.code : p \in r.pending} \cup DispositionIssues(r)

(***************************************************************************)
(* What a report must be for nobody to look at it: a reference definition, *)
(* stated on the report and not on the gate's list of codes.               *)
(***************************************************************************)
Grounded(r, v) ==
  \E e \in r.events :
    /\ v.event = EventId(e)
    /\ v.rule \in ActiveRules /\ e.type \in RuleTypes[v.rule]
    /\ v.penalty = Penalty[v.rule]
    /\ v.evidence \subseteq Turns
    /\ \E d \in v.docs \cap DOMAIN r.hits :
         r.hits[d] /\ d \in ActiveDocs /\ DocType[d] = e.type /\ v.rule \in RelatedRules[d]

Sound(r) ==
  /\ \A e \in r.events : ~e.ambiguous /\ e.turns \subseteq Turns
  /\ \A v \in r.violations : Grounded(r, v)
  /\ \A v, w \in r.violations : v.event = w.event /\ v.rule = w.rule => v = w
  /\ r.audit.errors = {} /\ r.pending = {}
  /\ r.score = CalculateScore(r.violations)
  /\ r.disposition = IF r.violations = {} THEN "AUTO_PASS" ELSE "AUTO_VIOLATION"
=============================================================================
