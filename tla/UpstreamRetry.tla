---------------------------- MODULE UpstreamRetry ----------------------------
(***************************************************************************)
(* One call to an upstream service, as the clients make it: a bounded      *)
(* number of attempts, backing off by a doubling delay or by what          *)
(* Retry-After asks, and, where the client has one, a budget on the time   *)
(* already spent that decides whether another attempt may start.           *)
(*                                                                         *)
(* The clients differ in what they retry and in their numbers; a policy is *)
(* a record of both.  Time is in seconds.                                  *)
(***************************************************************************)
EXTENDS Naturals

CONSTANTS
  Policies,     (* the policies under study                               *)
  RetryAfters,  (* what a Retry-After header may ask for, NoHeader included *)
  SlotWaits     (* how long an attempt may queue for a signing slot       *)

NoAnswer == "none"
Transport == {"timeout", "connect", "protocol", "invalid"}
Statuses == {"200", "4xx", "429", "5xx"}
PossibleAnswers == Transport \cup Statuses

NoBudget == 100000
NoHeader == NoBudget

(* api.census.gov: a 4xx is a settled answer, 5xx and a dead connection are *)
(* not; a Retry-After is honoured.                                          *)
CensusPolicy ==
  [attempts |-> 3, budget |-> 65, timeout |-> 30, slots |-> FALSE,
   retried |-> {"5xx", "timeout", "connect"}, honours |-> TRUE, cap |-> NoBudget,
   spreadFirst |-> FALSE]

(* The geocoder's tract lookup at a vintage.                               *)
VintagePolicy ==
  [attempts |-> 3, budget |-> 45, timeout |-> 20, slots |-> FALSE,
   retried |-> {"5xx", "timeout", "connect"}, honours |-> TRUE, cap |-> NoBudget,
   spreadFirst |-> FALSE]

(* ArcGIS feature services: only a 429, within the query's own timeout; the *)
(* wait asked for is capped, and spread before it is judged.                *)
ArcGISPolicy ==
  [attempts |-> 3, budget |-> 30, timeout |-> 30, slots |-> FALSE,
   retried |-> {"429"}, honours |-> TRUE, cap |-> 20,
   spreadFirst |-> TRUE]

(* The SAS endpoint, behind a semaphore; budget of a worker or of a tile.  *)
SignPolicy(budget) ==
  [attempts |-> 4, budget |-> budget, timeout |-> 10, slots |-> TRUE,
   retried |-> {"429", "5xx", "timeout", "connect", "protocol"},
   honours |-> TRUE, cap |-> NoBudget,
   spreadFirst |-> FALSE]
SIGN_WAIT_BATCH == 60
SIGN_WAIT_REQUEST == 2

(* The catalogue search: every transport failure, no budget, no header.    *)
SearchPolicy ==
  [attempts |-> 3, budget |-> NoBudget, timeout |-> 30, slots |-> FALSE,
   retried |-> {"429", "5xx"} \cup Transport, honours |-> FALSE, cap |-> NoBudget,
   spreadFirst |-> FALSE]

(* A client asks at least once; a header and a queue are waited for in     *)
(* whole seconds, and no queue is longer than the longest.                 *)
ASSUME PolicyAssumption ==
  /\ Policies \subseteq
       [attempts : Nat \ {0}, budget : Nat, timeout : Nat, slots : BOOLEAN,
        retried : SUBSET PossibleAnswers, honours : BOOLEAN, cap : Nat,
        spreadFirst : BOOLEAN]
  /\ RetryAfters \subseteq Nat /\ NoHeader \in RetryAfters
  /\ SlotWaits \subseteq Nat
  /\ \E q \in SlotWaits : \A p \in SlotWaits : p <= q

VARIABLES
  policy,        (* whose call this is                                     *)
  attempt,       (* attempts made                                          *)
  spent,         (* elapsed time since the first attempt started           *)
  delay,         (* the next backoff                                       *)
  asked,         (* Retry-After of the last answer, or NoHeader            *)
  lastStatus,    (* last_status                                            *)
  lastTransport, (* last_transport                                         *)
  lastHeard,     (* history: the last answer                               *)
  result         (* "pending", "backoff", or how the call ended            *)

retryVars == <<policy, attempt, spent, delay, asked, lastStatus,
               lastTransport, lastHeard, result>>

Ended == {"response", "terminal", "exhausted"}

RetryTypeOK ==
  /\ policy \in Policies
  /\ attempt \in 0 .. policy.attempts
  /\ spent \in Nat /\ delay \in Nat
  /\ asked \in RetryAfters
  /\ lastStatus \in Statuses \cup {NoAnswer}
  /\ lastTransport \in Transport \cup {NoAnswer}
  /\ lastHeard \in PossibleAnswers \cup {NoAnswer}
  /\ result \in {"pending", "backoff"} \cup Ended

RetryInit ==
  /\ policy \in Policies
  /\ attempt = 0 /\ spent = 0 /\ delay = 1 /\ asked = NoHeader
  /\ lastStatus = NoAnswer /\ lastTransport = NoAnswer /\ lastHeard = NoAnswer
  /\ result = "pending"

(* A slow attempt lasts the client's timeout; a timed-out one always does. *)
AttemptCosts(answer) ==
  IF answer = "timeout" THEN {policy.timeout} ELSE {0, policy.timeout}
QueueCosts == IF policy.slots THEN SlotWaits ELSE {0}

(* Mutant: a status leaves the transport failure before it in place.       *)
TransportKept(answer) ==
  IF answer \in Transport THEN answer ELSE lastTransport
TransportNow(answer) ==
  IF answer \in Transport THEN answer ELSE NoAnswer

(* What the client makes of an answer it does not ask about again.         *)
Settled(answer) == IF answer = "200" THEN "response" ELSE "terminal"

Attempt ==
  /\ result = "pending"
  /\ attempt' = attempt + 1
  /\ \E answer \in PossibleAnswers, header \in RetryAfters, queue \in QueueCosts :
     \E cost \in AttemptCosts(answer) :
       /\ answer \notin {"429", "5xx"} \/ ~policy.honours => header = NoHeader
       /\ spent' = spent + queue + cost
       /\ lastHeard' = answer
       /\ asked' = header
       /\ lastStatus' = IF answer \in Statuses THEN answer ELSE NoAnswer
       /\ lastTransport' = TransportNow(answer)
       /\ result' = IF answer \notin policy.retried THEN Settled(answer)
                    ELSE IF attempt' = policy.attempts THEN "exhausted"
                    ELSE "backoff"
  /\ UNCHANGED <<policy, delay>>

Least(a, b) == IF a <= b THEN a ELSE b
Wait == IF asked # NoHeader THEN Least(asked, policy.cap) ELSE delay

(* The spread is upward only, and never past what the budget has left.     *)
Spreads == {Wait, Wait + Wait \div 4}
Judged(spread) == IF policy.spreadFirst THEN spread ELSE Wait
(* Mutant: the spread is slept in full.                                    *)
SleepsInFull(spread) == spread
SleepsFor(spread) == Least(spread, policy.budget - spent)

Fits(wait) == spent + wait <= policy.budget

BackOff ==
  /\ result = "backoff"
  /\ \E spread \in Spreads :
       Fits(Judged(spread)) /\ spent' = spent + SleepsFor(spread)
  /\ delay' = 2 * delay
  /\ result' = "pending"
  /\ UNCHANGED <<policy, attempt, asked, lastStatus, lastTransport, lastHeard>>

GiveUp ==
  /\ result = "backoff"
  /\ \E spread \in Spreads : ~Fits(Judged(spread))
  /\ result' = "exhausted"
  /\ UNCHANGED <<policy, attempt, spent, delay, asked, lastStatus,
                 lastTransport, lastHeard>>

RetryNext == Attempt \/ BackOff \/ GiveUp

RetrySpec == RetryInit /\ [][RetryNext]_retryVars

(* The failure an exhausted call raises: a transport error if one is set,  *)
(* else the status.                                                        *)
Raised == IF lastTransport # NoAnswer THEN lastTransport ELSE lastStatus

-----------------------------------------------------------------------------
LongestQueue == CHOOSE q \in SlotWaits : \A p \in SlotWaits : p <= q

(* Whatever the service answers, a budgeted call is over one attempt after *)
(* its budget: attempts that hang without a single sleep count too.        *)
GivesUpInTime ==
  policy.budget # NoBudget =>
    spent <= policy.budget + policy.timeout + (IF policy.slots THEN LongestQueue ELSE 0)

(* An exhausted call raises what failed last, never an earlier failure of  *)
(* the same call and never an answer.                                      *)
RaisesWhatFailedLast ==
  result = "exhausted" => Raised = lastHeard /\ lastHeard \in policy.retried

(* The retrying clients: a call gives up within its budget, and raises     *)
(* what failed last.                                                       *)
UpstreamEndsWell == GivesUpInTime /\ RaisesWhatFailedLast

=============================================================================
