------------------------------ MODULE Backoff ------------------------------
(***************************************************************************)
(* The exponential backoff, as the loop that owns it calls it: one task at *)
(* a time.  Its state is a record, its calls are operators on it.          *)
(***************************************************************************)
EXTENDS Naturals, FiniteSetsExt

CONSTANTS
    BaseDelay,   \* base_delay
    MaxDelay     \* max_delay

ASSUME BackoffAssumption ==
    BaseDelay \in Nat \ {0} /\ MaxDelay \in Nat /\ BaseDelay <= MaxDelay

Backoffs == [retries : Nat, stop : BOOLEAN]

New == [retries |-> 0, stop |-> FALSE]

\* What it multiplies before it takes the minimum, in 64 bits.
Product(b) == BaseDelay * 2 ^ b.retries

Delay(b) == IF b.stop THEN MaxDelay ELSE Min({Product(b), MaxDelay})

\* The count goes on at the maximum.
SleepForgetsStop(b) == [b EXCEPT !.retries = @ + 1]

\* sleep, up to its await.
Sleep(b) ==
    IF b.stop THEN b
    ELSE [retries |-> b.retries + 1, stop |-> Delay(b) = MaxDelay]

Reset(b) == New

=============================================================================
