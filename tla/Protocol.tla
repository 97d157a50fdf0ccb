------------------------------ MODULE Protocol ------------------------------
(***************************************************************************)
(* What the agent accepts of a request and the panel of a response, and in *)
(* which order they look (agent_protocol.py, agent_auth.py), and which     *)
(* accepted requests the dispatcher still refuses (request_dispatcher.py). *)
(*                                                                         *)
(* A frame is a record of its fields, Absent where it has none.  auth is   *)
(* the secret its signature was made with, or Absent, or "unsigned" for an *)
(* auth block without a signature: a signature verifies exactly with the   *)
(* secret and the fields it was made of.  The text of frames is in Kdl.    *)
(***************************************************************************)
EXTENDS Integers, Sequences

CONSTANTS
    Window      \* TIMESTAMP_WINDOW_SECONDS

ASSUME WindowAssumption == Window \in Nat

Absent == "absent"
NoTime == -1            \* no timestamp

SupportedVersions == {"3"}

Actions == {"get", "set", "clear", "lock", "unlock", "extend", "message", "shutdown",
            "list_capabilities", "get_logs"}
WriteActions == {"set", "clear", "lock", "unlock", "extend", "shutdown", "message"}

WritableVariables == {"daily_limit", "bed_time", "manual_lock", "wake_time"}
ClearableVariables == {"daily_limit", "bed_time", "manual_lock", "cumulative_extension"}
Variables ==
    WritableVariables \cup ClearableVariables
        \cup {"name", "status", "current_user", "accumulated_seconds", "time_remaining",
              "enforcement_active", "enforcement_reason", "access_status"}

\* What a value is, as far as the checks tell values apart.
Values == {Absent, "minutes", "negative", "too_large", "time", "boolean", "text", "blank"}

\* The first of the checks that fails, or "ok": checks is a sequence of
\* <<condition, code>>.
FirstFailure(checks) ==
    LET failed == SelectSeq(checks, LAMBDA check : ~check[1])
    IN  IF failed = <<>> THEN "ok" ELSE Head(failed)[2]

-----------------------------------------------------------------------------
(* Frames *)

Distance(t, now) == IF t < now THEN now - t ELSE t - now

TimestampInWindow(t, now) == Distance(t, now) <= Window

\* verify_frame: who signed this, and when?
VerifyFrame(f, secret, now) ==
    FirstFailure(<<
        <<f.auth # Absent, "authentication_required">>,
        <<f.timestamp # NoTime, "authentication_required">>,
        <<f.nonce # Absent, "authentication_required">>,
        <<f.nonce = "hex", "invalid_request">>,
        <<f.auth # "unsigned", "authentication_required">>,
        <<f.auth = secret, "authentication_failed">>,
        <<TimestampInWindow(f.timestamp, now), "stale_timestamp">> >>)

CheckVersion(f) ==
    FirstFailure(<<
        <<f.v # Absent, "invalid_request">>,
        <<f.v # "text", "invalid_request">>,
        <<f.v \in SupportedVersions, "unsupported_version">> >>)

\* A named frame is for the agent of that name; a write must be named.
CheckName(f, hostname) ==
    FirstFailure(<<
        <<f.name \in {Absent, hostname}, "authentication_failed">>,
        <<f.action \in WriteActions => f.name # Absent, "authentication_required">> >>)

\* The fields the action needs.
CheckFields(f) ==
    FirstFailure(<<
        <<f.action \in {"get", "set", "clear"} => f.var # Absent, "invalid_request">>,
        <<f.action = "get" => f.var \in Variables \cup {"settings"}, "unknown_variable">>,
        <<f.action \in {"set", "clear"} => f.var \in Variables, "unknown_variable">>,
        <<f.action \in {"set", "extend", "message"} => f.val # Absent, "invalid_request">>,
        <<f.tail \in {Absent, "lines"}, "invalid_value">> >>)

\* parse_request: "ok", or the code of the failure that goes back.
ParseRequest(f, secret, hostname, now) ==
    LET code(k) ==
            CASE k = 1 -> CheckVersion(f)
              [] k = 2 -> VerifyFrame(f, secret, now)
              [] k = 3 -> IF f.action \in Actions THEN "ok" ELSE "unknown_action"
              [] k = 4 -> CheckName(f, hostname)
              [] k = 5 -> CheckFields(f)
    IN  FirstFailure([k \in 1 .. 5 |-> <<code(k) = "ok", code(k)>>])

\* The dispatcher's own checks: of the variable, then of the value.
CheckValue(f) ==
    LET good == CASE f.var = "daily_limit" -> {"minutes"}
                  [] f.var \in {"bed_time", "wake_time"} -> {"time"}
                  [] OTHER -> {"boolean"}
    IN  FirstFailure(<<
            <<f.action = "set" => f.var \in WritableVariables, "forbidden">>,
            <<f.action = "clear" => f.var \in ClearableVariables, "forbidden">>,
            <<f.action = "set" => f.val \in good, "invalid_value">>,
            <<f.action = "extend" => f.val = "minutes", "invalid_value">>,
            <<f.action = "message" => f.val \in {"text", "time"}, "invalid_value">>,
            <<f.action = "shutdown" => f.val \in {Absent, "minutes", "too_large"},
              "invalid_value">> >>)

\* What becomes of a request that is read: "ok", or why it is not carried out.
Outcome(f, secret, hostname, now) ==
    IF ParseRequest(f, secret, hostname, now) = "ok" THEN CheckValue(f)
    ELSE ParseRequest(f, secret, hostname, now)

BuildRequest(action, var, val, name, secret, now) ==
    [v |-> "3", name |-> name, timestamp |-> now, nonce |-> "hex", auth |-> secret,
     action |-> action, var |-> var, val |-> val, tail |-> Absent, id |-> "none"]

\* handle_request: every request that can be read is answered, by a response that
\* is signed and names the agent, failures included.
HandleRequest(f, secret, hostname, now) ==
    [v |-> "3", name |-> hostname, timestamp |-> now, nonce |-> "hex", auth |-> secret,
     status |-> Outcome(f, secret, hostname, now), id |-> f.id]

\* parse_response: "ok" when the panel may believe the response, whatever its
\* status is.  The id of the request is not compared, nor is a nonce remembered.
ParseResponse(r, secret, expectedName, now) ==
    LET verified == VerifyFrame(r, secret, now)
    IN  FirstFailure(<<
            <<r.v \in SupportedVersions, "unsupported_version">>,
            <<verified = "ok", verified>>,
            <<expectedName \in {Absent, r.name}, "authentication_failed">> >>)
=============================================================================
