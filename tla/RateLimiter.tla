------------------------------ MODULE RateLimiter -------------------------------
(* The pacing of outbound requests (AdaptiveLimiter): a record that every     *)
(* request of a client passes through, and the pure operations on it.  Each   *)
(* operation runs under the limiter's mutex, so a caller applies it in one    *)
(* step; the sleep of Wait lies outside the mutex and is the caller's.        *)
(* Rates are whole numbers of units, Unit of them being one request per       *)
(* second; divisions round down where the code's floats do not.               *)
EXTENDS Integers

CONSTANTS
    Unit,          \* the rate of one request per second
    TickRate,      \* ticks of the clock in a second
    HalfRate,      \* 0.5 requests per second, the default floor
    RampAfter      \* consecutive successes before the rate is raised

ASSUME LimiterAssumption ==
    /\ Unit \in Nat \ {0} /\ TickRate \in Nat \ {0}
    /\ HalfRate \in Nat \ {0} /\ RampAfter \in Nat \ {0}

BrakeSafetySeconds == 2

AtMost(x, bound)  == IF x > bound THEN bound ELSE x
AtLeast(x, bound) == IF x < bound THEN bound ELSE x

(* maxRate and ceiling are 0 where there is none yet.                         *)
Limiters == [rate : Nat, floor : Nat, ceiling : Nat, maxRate : Nat,
             budgetRate : Nat, successes : Nat, headerDriven : BOOLEAN,
             lastRequest : Int]

(* lastRequest lies so far back that the first Wait returns at once.          *)
NewLimiter(startRate, maxRate) ==
    LET floor == AtMost(HalfRate, startRate) IN
    [rate |-> startRate, floor |-> floor, ceiling |-> 0,
     maxRate |-> maxRate, budgetRate |-> 0, successes |-> 0,
     headerDriven |-> FALSE, lastRequest |-> 0 - TickRate * Unit]

(* The nil limiter of a start rate of 0: every method leaves it as it is, and *)
(* its Rate is 0.                                                             *)
Disabled(l) == l.rate = 0

(* The time a request takes of the pace.                                      *)
Delay(rate) == IF rate = 0 THEN 0 ELSE (TickRate * Unit) \div rate

(* The user's --rate-limit is start and cap in one; without it there is none. *)
NewAdaptiveLimiter(ratePerSec)    == NewLimiter(ratePerSec, ratePerSec)
NewAdaptiveLimiterAuto(startRate) == NewLimiter(startRate, 0)

(* Wait: the slot of the caller, which is also the new lastRequest.           *)
Slot(l, now) ==
    LET delay   == Delay(l.rate)
        elapsed == now - l.lastRequest
    IN  now + (IF elapsed < delay THEN delay - elapsed ELSE 0)

(* Mutant: lastRequest is the time of the call, not of the slot.              *)
WaitedNow(l, now) == IF Disabled(l) THEN l ELSE [l EXCEPT !.lastRequest = now]

Waited(l, now) == IF Disabled(l) THEN l ELSE [l EXCEPT !.lastRequest = Slot(l, now)]

Capped(l, rate) ==
    AtLeast(IF l.maxRate > 0 THEN AtMost(rate, l.maxRate) ELSE rate, l.floor)

(* What the server advertises: remaining requests, secs until the reset.      *)
ObserveHeaders(l, remaining, secs) ==
    IF Disabled(l) \/ secs <= 0 \/ remaining < 0 THEN l
    ELSE LET budget == AtLeast(l.budgetRate, (remaining * Unit) \div secs)
             braked == IF remaining * Unit < budget * BrakeSafetySeconds
                       THEN (remaining * Unit) \div BrakeSafetySeconds
                       ELSE budget
         IN  [l EXCEPT !.budgetRate = budget, !.rate = Capped(l, braked),
                       !.headerDriven = TRUE, !.successes = 0]

(* The blind ramp stays below nine tenths of the last ceiling.                *)
Ramped(l) ==
    LET faster == (l.rate * 5) \div 4
        below  == IF l.ceiling > 0
                  THEN AtMost(faster, (l.ceiling * 9) \div 10) ELSE faster
    IN  Capped(l, below)

OnSuccess(l) ==
    IF Disabled(l) THEN l
    ELSE IF l.headerDriven THEN [l EXCEPT !.successes = 0]
    ELSE IF l.successes + 1 >= RampAfter
         THEN [l EXCEPT !.rate = Ramped(l), !.successes = 0]
         ELSE [l EXCEPT !.successes = @ + 1]

(* Mutant: the pace is halved first and recorded as the ceiling after.        *)
OnRateLimitHalvesFirst(l) ==
    IF Disabled(l) THEN l ELSE
    [l EXCEPT !.ceiling = AtLeast(l.rate \div 2, l.floor),
              !.rate = AtLeast(l.rate \div 2, l.floor), !.successes = 0]

OnRateLimit(l) ==
    IF Disabled(l) THEN l ELSE
    [l EXCEPT !.ceiling = l.rate,
              !.rate = AtLeast(l.rate \div 2, l.floor),
              !.budgetRate = IF l.headerDriven THEN @ ELSE @ \div 2,
              !.successes = 0]

(* RetryAfter: what a 429 asks for, in seconds, 0 for a missing or unreadable *)
(* header.  MaxRetryWait keeps a server from pinning the CLI for hours.       *)
MaxRetryWait     == 60
DefaultRetryWait == 5
RetryAfter(asked) == IF asked <= 0 THEN DefaultRetryWait ELSE AtMost(asked, MaxRetryWait)
=================================================================================
