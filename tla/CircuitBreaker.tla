---------------------------- MODULE CircuitBreaker ----------------------------
(***************************************************************************)
(* CircuitBreaker of backend/app/infrastructure/circuit_breaker.py: one    *)
(* breaker per provider dependency. Its methods never await, so each is    *)
(* one operator on its record. The monotonic clock is reduced to one fact: *)
(* whether the cooldown has passed since the breaker last opened.          *)
(***************************************************************************)
EXTENDS Integers, Sequences, FiniteSets

CONSTANTS
    Tiers,            \* the provider dependencies, each with its cb_name
    Window,           \* CIRCUIT_BREAKER_WINDOW
    FailureThreshold  \* per tier: an override, or Window

ASSUME BreakerAssumption ==
    /\ Window \in Nat \ {0}
    /\ FailureThreshold \in [Tiers -> Nat \ {0}]

Outcomes == {"success", "failure"}

Breaker == [ state: {"closed", "open", "half_open"},
             window: Seq(Outcomes),  \* the last outcomes
             consecutive: Nat,       \* failures since the last success
             cooled: BOOLEAN ]       \* FALSE: opened less than a cooldown ago

NewBreaker == [state |-> "closed", window |-> << >>, consecutive |-> 0, cooled |-> TRUE]

\* reading the state is what takes an open breaker to half_open
Read(b) == IF b.state = "open" /\ b.cooled THEN [b EXCEPT !.state = "half_open"] ELSE b

AllowsCall(b) == Read(b).state # "open"

\* a deque with maxlen failure_threshold
Push(window, maxlen, outcome) ==
    Append(IF Len(window) < maxlen THEN window ELSE Tail(window), outcome)

Logged(t, b, outcome) ==
    [ state |-> b.state,
      window |-> Push(b.window, FailureThreshold[t], outcome),
      consecutive |-> IF outcome = "failure" THEN b.consecutive + 1 ELSE 0,
      cooled |-> b.cooled ]

\* Mutant: a success leaves the count of failures in a row alone
Mut_RecordSuccess(t, b) ==
    [Logged(t, b, "success") EXCEPT
        !.consecutive = b.consecutive,
        !.state = IF b.state = "half_open" THEN "closed" ELSE b.state]

\* the success of any call closes a half-open breaker; the window is kept
RecordSuccess(t, b) ==
    LET logged == Logged(t, b, "success")
    IN  IF b.state = "half_open" THEN [logged EXCEPT !.state = "closed"] ELSE logged

\* CIRCUIT_BREAKER_FAIL_THRESHOLD is one half
RateExceeded(window) ==
    /\ Len(window) >= Window
    /\ 2 * Cardinality({i \in DOMAIN window : window[i] = "failure"}) >= Len(window)

Trips(t, b) == \/ b.consecutive >= FailureThreshold[t]
               \/ RateExceeded(b.window)

RecordFailure(t, b) ==
    LET logged == Logged(t, b, "failure")
    IN  IF b.state = "half_open" \/ (b.state = "closed" /\ Trips(t, logged))
        THEN [logged EXCEPT !.state = "open", !.cooled = FALSE]
        ELSE logged

\* A breaker is sound when its counter is exactly the run of failures at the
\* end of its window (as far as the window goes), and a closed breaker has not
\* seen as many failures in a row as its threshold.
Sound(t, b) ==
    /\ Len(b.window) <= FailureThreshold[t]
    /\ \A i \in 1 .. Len(b.window) : i > Len(b.window) - b.consecutive => b.window[i] = "failure"
    /\ b.consecutive < Len(b.window) => b.window[Len(b.window) - b.consecutive] # "failure"
    /\ b.state = "closed" => b.consecutive < FailureThreshold[t]
=============================================================================
