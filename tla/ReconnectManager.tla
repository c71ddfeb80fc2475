--------------------------- MODULE ReconnectManager ---------------------------
(***************************************************************************)
(* ReconnectManager of wazeko-transport/src/reconnect.ts.  Its state is     *)
(* private to one caller and its methods return at once; what can go wrong  *)
(* is the sequence of the delays over many calls and resets.                *)
(*                                                                         *)
(* The multiplier, 1.5 by default, is a whole number here.  A definition    *)
(* marked "slip" is a mistake that no specification uses: see MessageQueue. *)
(***************************************************************************)
EXTENDS Naturals, Sequences

CONSTANTS
  Intervals,     \* the values of initialIntervalMs and maxIntervalMs
  Multipliers,
  RetryLimits,   \* the values of maxRetries
  Unlimited,     \* maxRetries undefined
  MaxDelays      \* bound: delays between two resets

ASSUME ReconnectAssumption ==
  /\ Intervals \subseteq Nat /\ RetryLimits \subseteq Nat /\ MaxDelays \in Nat
  /\ Multipliers \subseteq Nat \ {0}
  /\ Unlimited \notin Nat

VARIABLES
  config,           \* fixed when the manager is made
  currentAttempt,
  currentInterval,
  delays,           \* history: what nextDelayMs returned since the last reset
  gaveUp            \* history: it returned null since the last reset

reconnectVars == <<config, currentAttempt, currentInterval, delays, gaveUp>>

ReconnectInit ==
  /\ config \in [initial : Intervals, max : Intervals, multiplier : Multipliers,
                 maxRetries : RetryLimits \cup {Unlimited}]
  /\ currentAttempt = 0
  /\ currentInterval = config.initial
  /\ delays = <<>> /\ gaveUp = FALSE

Shorter(a, b) == IF a < b THEN a ELSE b

\* slip: only the count of attempts starts over.
ResetAttempts ==
  /\ currentAttempt' = 0
  /\ delays' = <<>> /\ gaveUp' = FALSE
  /\ UNCHANGED <<config, currentInterval>>

ResetBackoff ==
  /\ currentAttempt' = 0
  /\ currentInterval' = config.initial
  /\ delays' = <<>> /\ gaveUp' = FALSE
  /\ UNCHANGED config

ShouldRetry == config.maxRetries # Unlimited => currentAttempt < config.maxRetries

\* nextDelayMs()
NextDelay ==
  \/ /\ ShouldRetry /\ Len(delays) < MaxDelays
     /\ currentAttempt' = currentAttempt + 1
     /\ delays' = Append(delays, currentInterval)
     /\ currentInterval' = Shorter(currentInterval * config.multiplier, config.max)
     /\ UNCHANGED <<config, gaveUp>>
  \/ /\ ~ShouldRetry
     /\ gaveUp' = TRUE
     /\ UNCHANGED <<config, currentAttempt, currentInterval, delays>>

ReconnectNext == ResetBackoff \/ NextDelay

ReconnectSpec == ReconnectInit /\ [][ReconnectNext]_reconnectVars

----------------------------------------------------------------------------
\* Properties.

Power(b) == LET power[n \in Nat] == IF n = 0 THEN 1 ELSE b * power[n - 1] IN power

\* The delay before the k-th attempt after a reset, in closed form.  The first one is
\* not capped.
DelayBefore(k) ==
  IF k = 1 THEN config.initial
  ELSE Shorter(config.initial * Power(config.multiplier)[k - 1], config.max)

\* "Predictable connection recovery with exponential backoff": however attempts and resets
\* alternate, the delays since the last reset grow from the initial one by the multiplier
\* up to the maximum, there are at most maxRetries of them, and nextDelayMs gives up only
\* after that many.  There is no jitter in them: see DelaysJittered.
BackoffAsConfigured ==
  /\ \A k \in 1..Len(delays) : delays[k] = DelayBefore(k)
  /\ config.maxRetries # Unlimited => Len(delays) <= config.maxRetries
  /\ gaveUp => Len(delays) = config.maxRetries

\* "jitter calculation": the next delay is not determined by the configuration and the
\* attempts so far, as it would have two clients that lost their connections together
\* come back together.  This fails: nextDelayMs returns the interval as it is.
DelaysJittered ==
  ShouldRetry /\ currentInterval > 0 /\ Len(delays) < MaxDelays =>
    \E d, e \in 0..2 * currentInterval :
      /\ d # e
      /\ ENABLED (NextDelay /\ delays' = Append(delays, d))
      /\ ENABLED (NextDelay /\ delays' = Append(delays, e))
=============================================================================
