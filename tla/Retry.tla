-------------------------------- MODULE Retry --------------------------------
(***************************************************************************)
(* internal/retry: Do calls GitHub, and again after a wait if the error is *)
(* one that goes away.  The wait is what GitHub says or else a base delay  *)
(* doubled with every attempt, in the width of a time.Duration.            *)
(*                                                                         *)
(* What is called, and what its success brings, belongs to the modules     *)
(* that extend this one: they start with Enter and go on with Succeeds.    *)
(***************************************************************************)
EXTENDS Integers

CONSTANTS
    MaxRetries, BaseDelay,   \* retry.Config
    MaxBackoff,              \* maxBackoff
    MaxDuration, ShiftLimit, \* 2^63 - 1 and 60 in the code
    Errors                   \* the errors to consider

Kinds == {"rateLimit", "abuse", "429", "5xx", "4xx", "noResponse", "network",
          "graphqlAfter", "graphqlLimit", "graphql5xx", "other"}

ASSUME RetryAssumption ==
    /\ MaxRetries \in Int /\ BaseDelay \in Int
    /\ MaxBackoff \in Nat \ {0} /\ MaxDuration \in Nat /\ ShiftLimit \in Nat
    \* after: until the reset, or what GitHub asks to wait; 0 if it does not say
    /\ Errors \subseteq [kind : Kinds, after : Int]

VARIABLES
    cancelled,       \* the context is done
    do,              \* where Do is; "failed": it returned an error
    attempt, wait    \* its local variables

retryVars == <<cancelled, do, attempt, wait>>

RetryTypeOK ==
    /\ cancelled \in BOOLEAN
    /\ do \in {"idle", "check", "call", "wait", "failed"}
    /\ attempt \in Nat
    /\ wait \in Int
-----------------------------------------------------------------------------
\* classify
Retryable(e) == e.kind \notin {"4xx", "noResponse", "other"}
Reported(e) ==
    IF e.kind \in {"rateLimit", "abuse", "429", "graphqlAfter"} THEN e.after ELSE 0

\* What the two's complement of a duration makes of x.
Half == MaxDuration + 1
Signed(x) == ((x + Half) % (2 * Half)) - Half

Base == IF BaseDelay <= 0 THEN 1 ELSE BaseDelay
Shifted(n) == Signed(Base * 2^n)

\* backoff
Backoff(n) ==
    IF n > ShiftLimit \/ Shifted(n) > MaxBackoff THEN MaxBackoff ELSE Shifted(n)

\* Mutant: a reset that is due now is waited for.
DelayReported(e) == IF Reported(e) >= 0 THEN Reported(e) ELSE Backoff(attempt)

Delay(e) == IF Reported(e) > 0 THEN Reported(e) ELSE Backoff(attempt)

LastAttempt == attempt >= MaxRetries
-----------------------------------------------------------------------------
(* Do.                                                                        *)

Enter == do' = "check" /\ attempt' = 0 /\ wait' = 0
Leave == do' = "idle" /\ attempt' = 0 /\ wait' = 0

Check ==
    /\ do = "check"
    /\ do' = IF cancelled THEN "failed" ELSE "call"
    /\ UNCHANGED <<cancelled, attempt, wait>>

Succeeds == do = "call" /\ Leave

CallFails(e) ==
    /\ do = "call"
    /\ IF ~Retryable(e) \/ LastAttempt
       THEN do' = "failed" /\ UNCHANGED wait
       ELSE do' = "wait" /\ wait' = Delay(e)
    /\ UNCHANGED <<cancelled, attempt>>

\* Mutant: the attempts are not counted.
SleptUncounted ==
    /\ do = "wait"
    /\ do' = "check" /\ wait' = 0
    /\ UNCHANGED <<cancelled, attempt>>

\* sleep: the time is over, or was not positive.
Slept ==
    /\ do = "wait"
    /\ do' = "check" /\ attempt' = attempt + 1 /\ wait' = 0
    /\ UNCHANGED cancelled

\* sleep: the context is done first.
Interrupted ==
    /\ do = "wait" /\ wait > 0 /\ cancelled
    /\ do' = "failed"
    /\ UNCHANGED <<cancelled, attempt, wait>>

DoStep == Check \/ (\E e \in Errors : CallFails(e)) \/ Slept \/ Interrupted
-----------------------------------------------------------------------------
\* The doubled delay still is a duration.
Fits(n) == n <= ShiftLimit => Base * 2^n \in 1..MaxDuration

\* "So backoff never sleeps zero" (retry.go:163-164): GitHub is not asked again
\* without a wait, whatever it reports and whatever the base delay is, and it is
\* not made to wait longer than the cap unless GitHub said so.  It takes that the
\* delay did not overflow.
WaitsBetweenTries ==
    do = "wait" /\ Fits(attempt) =>
        /\ wait > 0
        /\ wait <= MaxBackoff \/ \E e \in Errors : wait = Reported(e)
=============================================================================
