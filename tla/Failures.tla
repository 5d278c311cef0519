-------------------------------- MODULE Failures --------------------------------
(***************************************************************************)
(* What a failure is, wherever it arises: a status for the row, a code,    *)
(* and whether another attempt could succeed (ScrapeErrorInfo); and what   *)
(* the pool is told about the proxy it came through.  HTTP statuses are    *)
(* classes: 4xx stands for those nobody names, 5xx for all of them.        *)
(***************************************************************************)

Failure(status, code, retryable) == [status |-> status, code |-> code, retryable |-> retryable]

DefaultStatus(code) == IF code \in {"rate_limited", "blocked"} THEN "rate_limited"
                       ELSE IF code \in {"not_found", "private"} THEN code ELSE "error"

DefaultRetryable(code) == code \in {"timeout", "network_error", "http_error", "rate_limited",
                                    "blocked", "throttled", "geo_blocked", "proxy_error",
                                    "session_error"}

(* What FetchHttpClient throws: its own errors, those of the egress ceiling *)
(* and of an abort as they are, and whatever else went wrong.              *)
ThrownCodes  == {"timeout", "network_error", "throttled", "cancelled", "config_error", "unknown"}
FailureCodes == {"not_found", "private", "rate_limited", "blocked", "geo_blocked", "http_error",
                 "proxy_error", "session_error", "parse_error", "invalid_url"} \cup ThrownCodes
FailureRecords == [status : {"rate_limited", "not_found", "private", "error"}, code : FailureCodes,
                   retryable : BOOLEAN]

ScrapeError(code) == Failure(DefaultStatus(code), code, DefaultRetryable(code))
InvalidUrl        == Failure("error", "invalid_url", FALSE)

(* classifyProxyOutcome, of a failure.                                     *)
ProxyOutcome(f) ==
  CASE f.status = "rate_limited" \/ f.code = "blocked"                       -> "blocked"
    [] f.code \in {"not_found", "private"}                                   -> "success"
    [] f.code = "geo_blocked"                                                -> "unsuitable"
    [] f.code \in {"http_error", "timeout", "network_error", "proxy_error"}  -> "failure"
    [] OTHER                                                                 -> "neutral"

(* What the README says an answer tells of the exit it came through, for   *)
(* the answers that no client has a rule of its own for.                   *)
Tells(status) ==
  CASE status = "404"           -> "success"
    [] status \in {"403", "429"} -> "blocked"
    [] status = "451"           -> "unsuitable"
    [] OTHER                    -> "failure"
=============================================================================
