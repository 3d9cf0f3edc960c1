------------------------------ MODULE RestClient ------------------------------
(***************************************************************************)
(* RestClient.get (adapters/http.py): one GET with bounded retries.  The   *)
(* waits between attempts back off exponentially with jitter, unless the   *)
(* venue said how long to wait.  Times are in eighths of a second.         *)
(***************************************************************************)
EXTENDS Integers, Sequences, FiniteSets

CONSTANTS MaxAttempts,   \* settings.http_max_retries, RetryPolicy.max_attempts
          BaseDelay,     \* RetryPolicy.base_delay_seconds
          MaxDelay,      \* RetryPolicy.max_delay_seconds
          RetryAfters    \* what a Retry-After header can say; 0 is none

ASSUME RetryAssumption ==
  /\ MaxAttempts \in Nat
  /\ BaseDelay \in Nat /\ MaxDelay \in Nat
  /\ RetryAfters \subseteq Nat /\ 0 \in RetryAfters

VARIABLE call    \* the request under way

Errors == {"auth", "limited", "timeout", "down"}

Idle == [pc |-> "idle", attempt |-> 0, error |-> "none", stated |-> 0, waits |-> << >>]
Started == [Idle EXCEPT !.pc = "send", !.attempt = 1]

(* Mutant: only the jitter is taken off the uncapped delay. *)
RawUncapped(attempt) == BaseDelay * 2^(attempt - 1)

Raw(attempt) == LET raw == BaseDelay * 2^(attempt - 1)
                IN IF raw < MaxDelay THEN raw ELSE MaxDelay

(* The two ends of what jitter makes of a delay: a quarter less or more.   *)
DelayFor(attempt) == {(3 * Raw(attempt)) \div 4, (5 * Raw(attempt)) \div 4}

Busy == call.pc \in {"send", "wait"}

(* Mutant: the last attempt is followed by another. *)
GivesUpLate(attempt) == attempt > MaxAttempts

GivesUp(attempt) == attempt = MaxAttempts

Failed(error) == [call EXCEPT !.pc = "failed", !.error = error]

Retried(error, stated) ==
  [call EXCEPT !.error = error, !.stated = stated,
               !.pc = IF GivesUp(call.attempt) THEN "failed" ELSE "wait"]

Answer == /\ call.pc = "send"
          /\ call' = [call EXCEPT !.pc = "answered", !.error = "none"]

(* 401 and 403 end the call. *)
Refuse == /\ call.pc = "send"
          /\ call' = Failed("auth")

(* So does any other status that is neither a limit nor the server's       *)
(* fault: a 404 is an unavailability like any other. *)
Reject == /\ call.pc = "send"
          /\ call' = Failed("down")

Limit == /\ call.pc = "send"
         /\ \E stated \in RetryAfters : call' = Retried("limited", stated)

Break == /\ call.pc = "send"
         /\ \E error \in {"timeout", "down"} : call' = Retried(error, 0)

(* What the venue last stated is obeyed in full. *)
NextWait == IF call.error = "limited" /\ call.stated > 0 THEN {call.stated}
            ELSE DelayFor(call.attempt)

(* Mutant: being limited is not counted as an attempt. *)
CountedUnlessLimited == IF call.error = "limited" THEN call.attempt ELSE call.attempt + 1

Counted == call.attempt + 1

Sleep == /\ call.pc = "wait"
         /\ \E delay \in NextWait :
              call' = [call EXCEPT !.pc = "send", !.attempt = Counted,
                        !.waits = Append(SubSeq(@, 1, call.attempt - 1),
                                         [long |-> delay, told |-> call.error = "limited"])]

RestNext == Answer \/ Refuse \/ Reject \/ Limit \/ Break \/ Sleep

CallTypeOK ==
  /\ call.pc \in {"idle", "send", "wait", "answered", "failed"}
  /\ call.attempt \in 0..MaxAttempts
  /\ call.error \in Errors \cup {"none"}
  /\ call.stated \in RetryAfters
  /\ call = Idle \/ Len(call.waits) < MaxAttempts

(* Patience has a bound the policy sets: unless the venue asked for more,  *)
(* by a limit it had just stated, no wait is longer than the capped delay  *)
(* and its jitter; and a call waits once less than it attempts.            *)
PatienceIsBounded ==
  /\ call.pc \in {"send", "answered", "failed"} /\ call.attempt > 0
       => Len(call.waits) = call.attempt - 1
  /\ \A k \in DOMAIN call.waits :
       4 * call.waits[k].long > 5 * MaxDelay => call.waits[k].told
=============================================================================
