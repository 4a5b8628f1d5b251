----------------------------- MODULE GoDuration -----------------------------
(***************************************************************************)
(* Go's time.Duration: a signed word that counts nanoseconds.  A number of *)
(* seconds is converted by time.Duration(n) * time.Second, which wraps     *)
(* around without notice.                                                  *)
(***************************************************************************)
EXTENDS Integers

CONSTANTS
    HalfWord,  \* the first number int64 and time.Duration do not hold (2^63)
    PerSecond  \* time.Second, in nanoseconds (10^9)

ASSUME DurationAssumption ==
    /\ HalfWord \in Nat \ {0}
    /\ PerSecond \in Nat \ {0}

\* x as a signed word: what is left of a sum or product that overflows.
Wrap(x) == ((x + HalfWord) % (2 * HalfWord)) - HalfWord

\* time.Duration(n) * time.Second
Nanos(n) == Wrap(n * PerSecond)

\* The most seconds a Duration can express.
MostSeconds == (HalfWord - 1) \div PerSecond
=============================================================================
