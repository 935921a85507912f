-------------------------------- MODULE Rpc --------------------------------
(***************************************************************************)
(* How one mutating broker call ends: the outcomes an attempt can have,    *)
(* which of them the retry interceptor tries again, the phase the          *)
(* transport derives from the wire events, and the classification the      *)
(* command reports.  Pure operators, shared by every module that sends.    *)
(***************************************************************************)

(* A response arrived: accepted, or accepted by gRPC and REJECTED in the   *)
(* execution status.                                                       *)
Responses == {"ok", "refused"}

(* A status the server sent in a trailer.  "duplicate" is API code 30057,  *)
(* "exhausted" RESOURCE_EXHAUSTED with a readable x-ratelimit-reset,       *)
(* "exhaustedBare" the same without one.                                   *)
ServerErrors == {"invalid", "duplicate", "exhausted", "exhaustedBare",
                 "unavailable", "unauthenticated", "internal"}

(* Errors made on this side: a lost connection (UNAVAILABLE), the deadline *)
(* over all attempts, a context that expired in the backoff, the local     *)
(* rate limiter.                                                           *)
LocalErrors == {"connectionLost", "deadline", "contextDone", "localLimit"}

CallErrors == ServerErrors \cup LocalErrors

(* What the retry interceptor tries again while attempts remain.           *)
Retryable(e) == e \in {"connectionLost", "unavailable", "exhausted"}

Phase(sent, confirmed) ==
    IF confirmed THEN "confirmed"
    ELSE IF sent THEN "sent_unconfirmed" ELSE "not_sent"

(* Mutants of Classify: one forgets that the request may have been         *)
(* processed, one takes DUPLICATE_ORDER for a rejection.                   *)
ClassifyByErrorAlone(e, phase) ==
    IF e = "duplicate" THEN "UNCONFIRMED"
    ELSE IF e \in {"connectionLost", "unavailable", "deadline"} THEN "NETWORK"
         ELSE "INTERNAL"

ClassifyDuplicateRejected(e, phase) ==
    IF phase = "sent_unconfirmed" THEN "UNCONFIRMED"
    ELSE IF e \in {"invalid", "duplicate"} THEN "BROKER_REJECTED" ELSE "INTERNAL"

(* render.Classify for a mutation.                                         *)
Classify(e, phase) ==
    IF phase = "sent_unconfirmed" \/ e = "duplicate" THEN "UNCONFIRMED"
    ELSE CASE e = "unauthenticated"                               -> "AUTH"
           [] e \in {"exhausted", "exhaustedBare", "localLimit"}  -> "RATE_LIMITED"
           [] e = "invalid"                                       -> "BROKER_REJECTED"
           [] e \in {"connectionLost", "unavailable", "deadline"} -> "NETWORK"
           [] OTHER                                               -> "INTERNAL"

ExitCodes == {"OK", "INTERNAL", "UNCONFIRMED", "AUTH", "RATE_LIMITED",
              "BROKER_REJECTED", "NETWORK"}
============================================================================
