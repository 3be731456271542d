------------------------------ MODULE RateLimit ------------------------------
(***************************************************************************)
(* The fixed-window counter of one client on one route, in Redis, that may *)
(* fail at any call.  A window is Window units of time long.               *)
(***************************************************************************)
EXTENDS Naturals

CONSTANTS Times, Window

ASSUME RateAssumption == Times \in Nat \ {0} /\ Window \in Nat \ {0}

VARIABLES
  key,       (* [count, left]: the counter and its time to live, Gone      *)
  failClosed, (* the route's policy                                        *)
  passed,    (* calls the counter let through since the key was created    *)
  waited,    (* units since the first call refused in a row                *)
  answer     (* of the last call: pass, 429, 503                           *)
rateVars == <<key, failClosed, passed, waited, answer>>

Gone == [count |-> 0, left |-> 0]

RateTypeOK ==
  /\ key \in [count : 0 .. Times + 2, left : 0 .. Window]
  /\ passed \in Nat /\ failClosed \in BOOLEAN
  /\ waited \in 0 .. Window + 1 /\ answer \in {"none", "pass", "429", "503"}

RateInit ==
  /\ key = Gone /\ failClosed \in BOOLEAN /\ passed = 0 /\ waited = 0 /\ answer = "none"

(* INCR and EXPIRE NX, in one transaction.  The count is capped for TLC.   *)
(* Mutant: every call sets the time to live.                               *)
SlidingLeft == Window
(* Mutant: the first call's window is a unit too long.                     *)
LongLeft == IF key.count = 0 THEN Window + 1 ELSE key.left
Left == IF key.count = 0 THEN Window ELSE key.left
Counted ==
  [count |-> IF key.count > Times + 1 THEN key.count ELSE key.count + 1, left |-> Left]

(* Mutant: the limit is one too many.                                      *)
UpToAndOne(count) == count > Times + 1
OverLimit(count) == count > Times
Call ==
  /\ key' = Counted
  /\ IF OverLimit(Counted.count)
     THEN answer' = "429" /\ UNCHANGED <<passed, waited>>
     ELSE answer' = "pass" /\ passed' = passed + 1 /\ waited' = 0
  /\ UNCHANGED failClosed

(* Redis fails: nothing is counted, and the route's policy decides.        *)
CallWithoutRedis ==
  /\ answer' = IF failClosed THEN "503" ELSE "pass"
  /\ UNCHANGED <<key, failClosed, passed, waited>>

WindowTick ==
  /\ key' = IF key.left <= 1 THEN Gone ELSE [key EXCEPT !.left = @ - 1]
  /\ passed' = IF key.left <= 1 THEN 0 ELSE passed
  /\ waited' = IF answer = "429" /\ waited <= Window THEN waited + 1 ELSE waited
  /\ UNCHANGED <<failClosed, answer>>

RateNext == Call \/ CallWithoutRedis \/ WindowTick

RateSpec == RateInit /\ [][RateNext]_rateVars

-----------------------------------------------------------------------------
(* In one window at most Times calls are let through by the counter.       *)
WindowIsBounded == passed <= Times

(* A client that is refused and keeps asking gets through within a window: *)
(* no call moves the window on, and no counter is left without an end.     *)
RefusalEnds == answer = "429" => waited < Window \/ key = Gone

(* The rate limiter (rate_limit.py): a window's calls are bounded, and a   *)
(* refused client gets through within a window.                            *)
RefusalsAreFair == WindowIsBounded /\ RefusalEnds


(* Their inductive strengthening: a counter has a time to live and counts  *)
(* what it let through; waiting and the window's rest make up one window.  *)
RateInv ==
  /\ RateTypeOK
  /\ passed <= key.count /\ passed <= Times
  /\ key # Gone => key.count > 0 /\ key.left > 0 /\ waited + key.left <= Window

=============================================================================
