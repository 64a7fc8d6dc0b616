------------------------------ MODULE RpcCall ------------------------------
(* rpc/provider.py and rpc/retry.py: what one HTTP POST may bring back, which *)
(* exception _post, the body of call() and get_logs() make of it, and whether *)
(* run_with_retries tries again after it.                                     *)
(*                                                                            *)
(* A message is the set of marker groups found in it: "size" for              *)
(* RANGE_TOO_LARGE_MARKERS, "unsupported" for NOT_SUPPORTED_MESSAGE_MARKERS,  *)
(* "again" for the three of classify().  The texts the client itself writes   *)
(* (time-outs, malformed answers) carry none.                                 *)
EXTENDS Integers

CONSTANT MaxRetries        \* RetryPolicy.max_retries

ASSUME RetryAssumption == MaxRetries \in Nat

Marker == {"size", "unsupported", "again"}

Reply ==
  [kind : {"list", "not_list", "timeout", "broken", "not_json", "no_result", "odd_error"},
   code : {"none"}, text : {{}}]
  \cup [kind : {"http"}, code : {"429", "5xx", "4xx"}, text : {{}, {"size"}}]
  \cup [kind : {"error"}, code : {"not_found", "limit", "internal", "other"},
        text : SUBSET Marker]

\* _invoke, for an error object: "method not found" by code or by text first,
\* then the codes that mean a rate limit.
ErrorClass(reply) ==
  IF reply.code = "not_found" \/ "unsupported" \in reply.text
  THEN "RpcMethodNotSupportedError"
  ELSE IF reply.code = "limit" THEN "RpcRateLimitError" ELSE "RpcError"

\* The class of the exception a failed reply turns into.  An error member that
\* is no object has no get().
Class(reply) ==
  IF reply.kind = "error" THEN ErrorClass(reply)
  ELSE IF reply.kind = "timeout" THEN "RpcTimeoutError"
  ELSE IF reply.kind \in {"not_json", "no_result"} THEN "RpcMalformedResponseError"
  ELSE IF reply.kind = "odd_error" THEN "AttributeError"
  ELSE IF reply.kind = "http" /\ reply.code = "429" THEN "RpcRateLimitError"
  ELSE "RpcTransportError"

\* Does call() raise?  The result itself it does not look at.
Fails(reply) == reply.kind \notin {"list", "not_list"}

\* classify(): worth another attempt?  Every HTTP status of 400 and above is.
Transient(reply) ==
  \/ Class(reply) \in {"RpcRateLimitError", "RpcTimeoutError",
                       "RpcMalformedResponseError", "RpcTransportError"}
  \/ Class(reply) = "RpcError" /\ (reply.code = "internal" \/ "again" \in reply.text)

\* RetryPolicy.attempts(): the first call and the retries.
Attempts == MaxRetries + 1

\* Mutant: an error is retried for as long as it is transient.
RetriesUnbounded(reply, attempt) == Transient(reply)

\* run_with_retries tries again after its attempt-th attempt (from 0) failed.
Retries(reply, attempt) == Transient(reply) /\ Attempts - attempt - 1 > 0

\* What get_logs() comes to for LogFetcher when it ends with this reply.
AsAnswer(reply) ==
  IF reply.kind = "list" THEN "logs"
  ELSE IF Fails(reply) /\ Class(reply) = "AttributeError" THEN "raises"
  ELSE IF "size" \in reply.text THEN "too_large" ELSE "error"
=============================================================================
