-------------------------------- MODULE S3Client --------------------------------
(***************************************************************************)
(* S3Client (src/src/s3.rs): one request to the store at a time, tried     *)
(* again when it fails.  A failed attempt may have had no effect, may have *)
(* had its effect and lost the answer, or may still be on its way to the   *)
(* store and get there when the client has long gone on.                   *)
(***************************************************************************)
EXTENDS Integers

CONSTANTS
  MAX_RETRIES,    \* 3 in the program
  MaxFaults,      \* bound: attempts that fail for no reason of the store's
  Nothing         \* no value

ASSUME RetriesAssumption == MAX_RETRIES \in Nat /\ MaxFaults \in Nat

VARIABLES
  objects,        \* the store: a function from keys
  attempt,        \* of the request now made
  delayed,        \* requests that failed here and may still take effect
  faults

clientVars == <<objects, attempt, delayed, faults>>

Get(k) == [op |-> "get", key |-> k, value |-> Nothing]
Put(k, v) == [op |-> "put", key |-> k, value |-> v]
Delete(k) == [op |-> "delete", key |-> k, value |-> Nothing]

\* The store once the request has had its effect.
After(request) ==
  CASE request.op = "get" -> objects
    [] request.op = "put" ->
         [k \in DOMAIN objects \cup {request.key} |->
            IF k = request.key THEN request.value ELSE objects[k]]
    [] request.op = "delete" ->
         [k \in DOMAIN objects \ {request.key} |-> objects[k]]

ClientInit == objects = <<>> /\ attempt = 0 /\ delayed = {} /\ faults = 0

\* Variant: one attempt too many.
MoreAttemptsOffByOne == attempt <= MAX_RETRIES

MoreAttempts == attempt < MAX_RETRIES

\* Variant: the last error is not returned.
LastResultSwallowed == "ok"

LastResult == "err"

AttemptSucceeds(request) ==
  /\ request.op = "get" => request.key \in DOMAIN objects
  /\ objects' = After(request)
  /\ UNCHANGED <<delayed, faults>>

AttemptFails(request) ==
  \/ /\ request.op = "get" /\ request.key \notin DOMAIN objects
     /\ UNCHANGED <<objects, delayed, faults>>
  \/ /\ faults < MaxFaults /\ faults' = faults + 1
     /\ \/ UNCHANGED <<objects, delayed>>
        \/ request.op # "get" /\ objects' = After(request) /\ UNCHANGED delayed
        \/ request.op # "get" /\ delayed' = delayed \cup {request} /\ UNCHANGED objects

\* An attempt, and what the caller of retry sees of it: "ok", "err", or
\* "retry" when it goes on waiting.
Attempt(request, result) ==
  \/ result = "ok" /\ attempt' = 0 /\ AttemptSucceeds(request)
  \/ result = "retry" /\ MoreAttempts /\ attempt' = attempt + 1 /\ AttemptFails(request)
  \/ result = LastResult /\ ~MoreAttempts /\ attempt' = 0 /\ AttemptFails(request)

Land(request) ==
  /\ request \in delayed
  /\ objects' = After(request)
  /\ delayed' = delayed \ {request}
  /\ UNCHANGED <<attempt, faults>>
================================================================================
