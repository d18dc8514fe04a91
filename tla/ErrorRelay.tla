----------------------------- MODULE ErrorRelay -----------------------------
(***************************************************************************)
(* What a failed upstream request becomes: the type Claude Code classifies *)
(* the failure by, and the retry-after it waits for.                       *)
(*                                                                         *)
(* A retry-after header is read as [form, secs]: absent, an integer, text  *)
(* that begins with one ("30s", "12.5"), or text that does not (a date, a  *)
(* number too large for an int).                                           *)
(***************************************************************************)
EXTENDS Integers

MaxRetryAfterSeconds == 60

HeaderForms == {"absent", "integer", "leading", "text"}

\* "No header" as the gateway's answer.
NoRetryAfter == -1

anthropicErrorKind(status) ==
    CASE status = 400 -> "invalid_request_error"
      [] status = 401 -> "authentication_error"
      [] status = 403 -> "permission_error"
      [] status = 404 -> "not_found_error"
      [] status = 413 -> "request_too_large"
      [] status = 429 -> "rate_limit_error"
      [] status = 529 -> "overloaded_error"
      [] OTHER        -> "api_error"

\* Mutant: only a negative wait is dropped.
Capped_NoMaximum(secs) == IF secs < 0 THEN NoRetryAfter ELSE secs

Capped(secs) ==
    CASE secs < 0                    -> NoRetryAfter
      [] secs > MaxRetryAfterSeconds -> MaxRetryAfterSeconds
      [] OTHER                       -> secs

\* strconv.Atoi: the whole value is the number.
ChatRetryAfter(v) == IF v.form = "integer" THEN Capped(v.secs) ELSE NoRetryAfter

\* fmt.Sscanf("%d"): a number in front is enough.
CodexRetryAfter(v) ==
    IF v.form \in {"integer", "leading"} THEN Capped(v.secs) ELSE NoRetryAfter

\* An error the gateway answers with.
ErrorReply(status, kind, retryAfter) ==
    [status |-> status, kind |-> kind, retryAfter |-> retryAfter]

\* relayError: the status is the upstream's.
CodexRelayError(status, v) ==
    ErrorReply(status, anthropicErrorKind(status), CodexRetryAfter(v))

ChatRelayError(status, v) ==
    ErrorReply(status, anthropicErrorKind(status), ChatRetryAfter(v))

=============================================================================
