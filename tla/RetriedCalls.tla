---------------------------- MODULE RetriedCalls ----------------------------
(***************************************************************************)
(* One call of the two HTTP clients: DeepSeekGateway.complete_json, whose  *)
(* failure is raised, and AuditClient._get_with_retry, whose failure is    *)
(* returned.  Both try at most twice; what they do of a reply is here, the *)
(* replies themselves are the environment's.                               *)
(***************************************************************************)
EXTENDS Naturals

(* A timeout, a broken connection, a 429 and a 500/502/503/504.            *)
TransientReplies == {"timeout", "network", "rate_limited", "server_error"}

(* "unsupported": a 400 that refuses the response format.  "invalid": an   *)
(* answer that is not JSON, or that the caller's validator refuses.        *)
LLMReplies == TransientReplies \cup {"unsupported", "denied", "rejected", "invalid", "good"}

AuditReplies == TransientReplies \cup {"denied", "missing", "rejected", "invalid", "good"}

MaxTries == 2

(* jsonObject and repair shape the request body of the next attempt.       *)
NewCall == [attempt |-> 1, jsonObject |-> FALSE, repair |-> FALSE]

(* Faulty variant: a rate limit is reported at once, still as retryable.   *)
LLMRetriesNoRateLimit(call, reply) ==
  /\ call.attempt < MaxTries
  /\ reply \in (TransientReplies \ {"rate_limited"}) \cup {"unsupported", "invalid"}

LLMRetries(call, reply) ==
  /\ call.attempt < MaxTries
  /\ reply \in TransientReplies \cup {"unsupported", "invalid"}

(* Faulty variant: each attempt tries the other format and none is counted. *)
LLMRetryUncounted(call, reply) == [call EXCEPT !.jsonObject = ~@]

LLMRetry(call, reply) ==
  [attempt    |-> call.attempt + 1,
   jsonObject |-> call.jsonObject \/ reply \in {"unsupported", "invalid"},
   repair     |-> call.repair \/ reply = "invalid"]

LLMFailure(call, reply) ==
  [code |-> CASE reply = "timeout"      -> "LLM_TIMEOUT"
              [] reply = "rate_limited" -> "LLM_RATE_LIMITED"
              [] reply = "denied"       -> "LLM_AUTH_FAILED"
              [] reply = "invalid"      -> "LLM_INVALID_OUTPUT"
              [] OTHER                  -> "LLM_UPSTREAM_ERROR",
   retryable |-> reply \in TransientReplies,
   attempts  |-> call.attempt]

AuditRetries(call, reply) == call.attempt < MaxTries /\ reply \in TransientReplies

AuditRetry(call) == [call EXCEPT !.attempt = @ + 1]

AuditFailure(call, reply) ==
  [code |-> CASE reply = "timeout" -> "AUDIT_TIMEOUT"
              [] reply = "denied"  -> "AUDIT_AUTH_FAILED"
              [] reply = "missing" -> "AUDIT_NOT_FOUND"
              [] reply = "invalid" -> "AUDIT_INVALID_RESPONSE"
              [] OTHER             -> "AUDIT_UPSTREAM_ERROR",
   retryable |-> reply \in TransientReplies,
   attempts  |-> call.attempt]
=============================================================================
