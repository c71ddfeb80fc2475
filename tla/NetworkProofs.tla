---------------------------- MODULE NetworkProofs ----------------------------
(***************************************************************************)
(* Proofs about WebSocketTransport, for any number of sockets, about        *)
(* ReconnectManager, for any configuration and any number of delays, and    *)
(* about an application that has both.                                     *)
(*                                                                         *)
(* That a connect is settled by its own socket needs what the readyState of *)
(* a socket says of its past (StatesOfSockets).  That the flag is missing      *)
(* only after the end of a socket that was there when the current one was   *)
(* made needs that this.ws is the newest, and that of the older ones only   *)
(* such a socket has an end to come (OnlyNewest).                           *)
(*                                                                         *)
(* That the delays have their closed form needs the powers of the           *)
(* multiplier, a recursive function; SetInduction is induction without the  *)
(* predicate as a parameter, from the well-foundedness of the order.        *)
(***************************************************************************)
EXTENDS ReconnectingTransport, WellFoundedInduction, TLAPS

StatesOfSockets ==
  \A s \in Sockets :
    /\ readyState[s] = "none" <=> s > made
    /\ readyState[s] = "none" <=> promise[s] = "none"
    /\ readyState[s] = "open" => s \in opened
    /\ readyState[s] \in {"none", "connecting"} => s \notin opened

OnlyNewest ==
  /\ ws \in {NoSocket, made}
  /\ \A s \in Sockets : s < made /\ readyState[s] # "closed" => s \in beside

TransportInv ==
  TransportTypeOK /\ StatesOfSockets /\ OnlyNewest /\ OutcomeOfOwnSocket /\ FlagTellsTruth

\* A number that made could reach is that of a socket, or none.
LEMMA SocketNumbers ==
  /\ NoSocket \notin Sockets
  /\ \A s \in Sockets : s \in Nat
  /\ \A n \in 0..MaxSockets : n = NoSocket \/ n \in Sockets
BY SocketsAssumption DEF Sockets, NoSocket

LEMMA TransportInitInv == TransportInit => TransportInv
<1> SUFFICES ASSUME TransportInit PROVE TransportInv
  OBVIOUS
<1> USE DEF TransportInit
<1>1. TransportTypeOK
  <2>1. made \in 0..MaxSockets
    BY SocketsAssumption
  <2> QED BY <2>1, Zenon DEF TransportTypeOK
<1>2. StatesOfSockets /\ OnlyNewest
  BY DEF StatesOfSockets, OnlyNewest, Sockets
<1>3. OutcomeOfOwnSocket /\ FlagTellsTruth
  BY DEF OutcomeOfOwnSocket, FlagTellsTruth
<1> QED BY <1>1, <1>2, <1>3 DEF TransportInv

\* A new socket has the next number and is not settled.
LEMMA ConnectSocketInv == TransportInv /\ ConnectSocket => TransportInv'
<1> SUFFICES ASSUME TransportInv, ConnectSocket PROVE TransportInv'
  OBVIOUS
<1> USE SocketNumbers DEF TransportInv, TransportTypeOK, ConnectSocket, Becomes
<1> DEFINE new == made + 1
<1>1. /\ new \in Sockets /\ made \in Nat /\ made' = new /\ ws' = new
      /\ readyState'[new] = "connecting" /\ promise'[new] = "pending"
      /\ readyState[new] = "none" /\ promise[new] = "none" /\ new \notin opened
  BY DEF StatesOfSockets
<1>2. \A s \in Sockets : s # new => readyState'[s] = readyState[s] /\ promise'[s] = promise[s]
  OBVIOUS
<1>3. TransportTypeOK'
  BY <1>1 DEF Sockets
<1>4. StatesOfSockets'
  BY <1>1, <1>2 DEF StatesOfSockets
<1>5. OnlyNewest'
  <2>1. ASSUME NEW s \in Sockets, s < made', readyState'[s] # "closed" PROVE s \in beside'
    <3>1. s # new /\ ~(s > made)
      BY <1>1, <2>1 DEF Sockets
    <3>2. readyState[s] = readyState'[s] /\ readyState[s] # "none"
      BY <1>2, <3>1 DEF StatesOfSockets
    <3> QED BY <2>1, <3>2
  <2> QED BY <1>1, <2>1 DEF OnlyNewest
<1>6. OutcomeOfOwnSocket'
  BY <1>1, <1>2 DEF OutcomeOfOwnSocket
<1>7. FlagTellsTruth'
  <2>1. isConnected => \E s \in opened : readyState[s] # "closed" /\ s # new /\ s \in Sockets
    BY <1>1 DEF FlagTellsTruth
  <2> QED BY <1>1, <1>2, <2>1 DEF FlagTellsTruth
<1> QED BY <1>3, <1>4, <1>5, <1>6, <1>7

\* close() leaves the socket, if there is one, to its handlers.
LEMMA CloseTransportInv == TransportInv /\ CloseTransport => TransportInv'
<1> SUFFICES ASSUME TransportInv, CloseTransport PROVE TransportInv'
  OBVIOUS
<1> USE SocketNumbers DEF TransportInv, TransportTypeOK, CloseTransport
<1>1. \A s \in Sockets :
        /\ readyState'[s] = readyState[s] \/ (s = ws /\ readyState'[s] = "closing")
        /\ readyState'[s] = "closed" <=> readyState[s] = "closed"
  OBVIOUS
<1>2. \A s \in Sockets : s = ws => readyState[s] # "none"
  BY DEF StatesOfSockets, OnlyNewest
<1>3. TransportTypeOK'
  OBVIOUS
<1>4. StatesOfSockets'
  BY <1>1, <1>2 DEF StatesOfSockets
<1>5. OnlyNewest'
  BY <1>1 DEF OnlyNewest
<1>6. OutcomeOfOwnSocket' /\ FlagTellsTruth'
  BY <1>1 DEF OutcomeOfOwnSocket, FlagTellsTruth
<1> QED BY <1>3, <1>4, <1>5, <1>6

LEMMA OpensInv == ASSUME TransportInv, NEW s \in Sockets, Opens(s) PROVE TransportInv'
<1> USE SocketNumbers DEF TransportInv, TransportTypeOK, Opens, Becomes, Settle
<1>1. /\ readyState[s] = "connecting" /\ readyState'[s] = "open" /\ s \in opened' /\ s \notin opened
      /\ promise[s] = "pending" /\ promise'[s] = "resolved"
  BY DEF StatesOfSockets, OutcomeOfOwnSocket
<1>2. \A t \in Sockets : t # s =>
        readyState'[t] = readyState[t] /\ promise'[t] = promise[t] /\ (t \in opened' <=> t \in opened)
  OBVIOUS
<1>3. TransportTypeOK'
  OBVIOUS
<1>4. StatesOfSockets' /\ OnlyNewest'
  BY <1>1, <1>2 DEF StatesOfSockets, OnlyNewest
<1>5. OutcomeOfOwnSocket' /\ FlagTellsTruth'
  BY <1>1, <1>2 DEF OutcomeOfOwnSocket, FlagTellsTruth
<1> QED BY <1>3, <1>4, <1>5

LEMMA CrashInv == ASSUME TransportInv, NEW s \in Sockets, Crash(s) PROVE TransportInv'
BY DEF Crash, TransportInv, TransportTypeOK, StatesOfSockets, OnlyNewest, OutcomeOfOwnSocket, FlagTellsTruth

\* The end of a socket settles its own connect, and clears the flag: if that is the flag of
\* a newer socket, the one that ends was not closed when that one was made.
LEMMA EndInv ==
  ASSUME TransportInv, NEW s \in Sockets,
         Unopened(s) \/ (readyState[s] = "closing" /\ s \in opened),
         Becomes(s, "closed"), isConnected' = FALSE, Settle(s, "rejected"),
         UNCHANGED <<ws, listens, crashed, made, opened, beside>>
  PROVE  TransportInv'
<1> USE SocketNumbers DEF TransportInv, TransportTypeOK, Becomes, Settle
<1>1. /\ readyState[s] \in {"connecting", "closing"} /\ readyState'[s] = "closed"
      /\ promise'[s] = IF s \in opened THEN "resolved" ELSE "rejected"
  BY DEF StatesOfSockets, OutcomeOfOwnSocket, Unopened
<1>2. \A t \in Sockets : t # s => readyState'[t] = readyState[t] /\ promise'[t] = promise[t]
  OBVIOUS
<1>3. TransportTypeOK'
  OBVIOUS
<1>4. StatesOfSockets' /\ OnlyNewest'
  BY <1>1, <1>2 DEF StatesOfSockets, OnlyNewest
<1>5. OutcomeOfOwnSocket'
  BY <1>1, <1>2 DEF OutcomeOfOwnSocket
<1>6. ws # NoSocket /\ ws # s => s \in beside
  BY <1>1 DEF OnlyNewest, StatesOfSockets
<1>7. FlagTellsTruth'
  BY <1>1, <1>6 DEF FlagTellsTruth
<1> QED BY <1>3, <1>4, <1>5, <1>7

LEMMA DropsInv == ASSUME TransportInv, NEW s \in Sockets, Drops(s) PROVE TransportInv'
<1> USE SocketNumbers DEF TransportInv, TransportTypeOK, Drops, Becomes
<1>1. readyState[s] = "open" /\ readyState'[s] = "closing"
  OBVIOUS
<1>2. \A t \in Sockets : t # s => readyState'[t] = readyState[t]
  OBVIOUS
<1>3. TransportTypeOK' /\ StatesOfSockets' /\ OnlyNewest'
  BY <1>1, <1>2 DEF StatesOfSockets, OnlyNewest
<1>4. OutcomeOfOwnSocket' /\ FlagTellsTruth'
  BY <1>1, <1>2 DEF OutcomeOfOwnSocket, FlagTellsTruth
<1> QED BY <1>3, <1>4

LEMMA TransportStepInv == TransportInv /\ [TransportNext]_transportVars => TransportInv'
<1> SUFFICES ASSUME TransportInv, [TransportNext]_transportVars PROVE TransportInv'
  OBVIOUS
<1>1. CASE UNCHANGED transportVars
  BY <1>1 DEF transportVars, TransportInv, TransportTypeOK, StatesOfSockets, OnlyNewest,
              OutcomeOfOwnSocket, FlagTellsTruth
<1>2. ASSUME NEW s \in Sockets, Fails(s) PROVE TransportInv'
  BY <1>2, CrashInv, EndInv DEF Fails
<1>3. ASSUME NEW s \in Sockets, Closes(s) PROVE TransportInv'
  BY <1>3, EndInv DEF Closes
<1>4. ASSUME NEW s \in Sockets, Errs(s) PROVE TransportInv'
  BY <1>4, CrashInv, DropsInv DEF Errs
<1> QED BY <1>1, <1>2, <1>3, <1>4, ConnectSocketInv, CloseTransportInv, OpensInv, DropsInv DEF TransportNext

\* The invariant of connect, close and the handlers of all sockets.
THEOREM TransportInvariant == TransportSpec => []TransportInv
BY TransportInitInv, TransportStepInv, PTL DEF TransportSpec

----------------------------------------------------------------------------

\* Each call of connect has the outcome of its own socket, for any number of sockets
\* alive at once: the handlers of one never settle the promise of another.
THEOREM ConnectHasOwnOutcome == TransportSpec => []OutcomeOfOwnSocket
BY TransportInvariant, PTL DEF TransportInv

\* _isConnected, which the handlers of all sockets write, is never left over from sockets
\* that are gone, whatever order connect, close and the events come in; and it is missing
\* under an open current socket only when one that was not yet closed when that one was
\* made has closed since.
THEOREM FlagStaysTrue == TransportSpec => []FlagTellsTruth
BY TransportInvariant, PTL DEF TransportInv

----------------------------------------------------------------------------
\* The delays of the manager.

\* The natural numbers are well ordered.
LEMMA LeastElement ==
  ASSUME NEW T \in SUBSET Nat, T # {}
  PROVE  \E x \in T : \A y \in T : x <= y
<1> DEFINE R == OpToRel(<, Nat)
<1>1. \A y \in Nat, x \in Nat : <<y, x>> \in R <=> y < x
  BY DEF OpToRel
<1>2. IsWellFoundedOn(R, Nat)
  BY NatLessThanWellFounded
<1> HIDE DEF R
<1>3. PICK x \in T : \A y \in T : ~ (<<y, x>> \in R)
  BY <1>2, WFMin
<1>4. ASSUME NEW y \in T PROVE x <= y
  <2>1. x \in Nat /\ y \in Nat /\ ~(y < x)
    BY <1>1, <1>3
  <2> QED
    BY <2>1
<1> QED
  BY <1>4

\* A set of natural numbers with 0, and with n + 1 for every n in it, holds them all.
LEMMA SetInduction ==
  ASSUME NEW T, 0 \in T, \A n \in Nat : n \in T => n + 1 \in T
  PROVE  \A n \in Nat : n \in T
<1> SUFFICES ASSUME NEW z \in Nat, z \notin T PROVE FALSE
  OBVIOUS
<1> DEFINE Bad == {n \in Nat : n \notin T}
<1>1. Bad \in SUBSET Nat /\ Bad # {}
  OBVIOUS
<1> HIDE DEF Bad
<1>2. PICK m \in Bad : \A n \in Bad : m <= n
  BY <1>1, LeastElement
<1>3. m \in Nat /\ m \notin T
  BY DEF Bad
<1>4. m - 1 \in Nat /\ m - 1 + 1 = m /\ ~(m <= m - 1)
  BY <1>3
<1>5. m - 1 \in T
  BY <1>2, <1>4 DEF Bad
<1> QED
  BY <1>3, <1>4, <1>5

\* The recursive definition of the powers has a solution, and Power is it.
LEMMA PowerLaw ==
  ASSUME NEW b \in Nat
  PROVE  /\ \A n \in Nat : Power(b)[n] \in Nat
         /\ Power(b)[0] = 1
         /\ \A n \in Nat : Power(b)[n + 1] = b * Power(b)[n]
<1> DEFINE Partial(n, g) == /\ g \in [0..n -> Nat] /\ g[0] = 1
                            /\ \A i \in 1..n : g[i] = b * g[i - 1]
           P(n) == CHOOSE g : Partial(n, g)
           f == [n \in Nat |-> P(n)[n]]
           Step(g) == [n \in Nat |-> IF n = 0 THEN 1 ELSE b * g[n - 1]]
<1>1. ASSUME NEW n \in Nat PROVE \E g : Partial(n, g)
  <2> DEFINE T == {m \in Nat : \E g : Partial(m, g)}
  <2>1. 0 \in T
    <3> DEFINE g == [i \in 0..0 |-> 1]
    <3>1. Partial(0, g)
      OBVIOUS
    <3> QED
      BY <3>1
  <2>2. ASSUME NEW m \in Nat, m \in T PROVE m + 1 \in T
    <3>1. PICK g : Partial(m, g)
      BY <2>2
    <3> DEFINE h == [i \in 0..(m + 1) |-> IF i = m + 1 THEN b * g[m] ELSE g[i]]
    <3>2. g[m] \in Nat /\ b * g[m] \in Nat
      BY <3>1
    <3>3. h \in [0..(m + 1) -> Nat]
      BY <3>1, <3>2
    <3>4. h[0] = 1 /\ h[m + 1] = b * g[m] /\ \A i \in 0..m : h[i] = g[i]
      BY <3>1
    <3> HIDE DEF h
    <3>5. ASSUME NEW i \in 1..(m + 1) PROVE h[i] = b * h[i - 1]
      <4>1. i = m + 1 \/ i \in 1..m
        OBVIOUS
      <4>2. CASE i = m + 1
        <5>1. i - 1 = m /\ m \in 0..m
          BY <4>2
        <5> QED
          BY <3>4, <4>2, <5>1
      <4>3. CASE i \in 1..m
        <5>1. i \in 0..m /\ i - 1 \in 0..m
          BY <4>3
        <5> QED
          BY <3>1, <3>4, <4>3, <5>1
      <4> QED
        BY <4>1, <4>2, <4>3
    <3>6. Partial(m + 1, h)
      BY <3>3, <3>4, <3>5
    <3> QED
      BY <3>6
  <2> HIDE DEF T
  <2>3. n \in T
    BY <2>1, <2>2, SetInduction
  <2> QED
    BY <2>3 DEF T
<1>2. ASSUME NEW n \in Nat PROVE Partial(n, P(n))
  BY <1>1
<1> HIDE DEF P
<1>3. ASSUME NEW n \in Nat PROVE P(n + 1)[n] = P(n)[n]
  <2> DEFINE T == {i \in Nat : i <= n => P(n + 1)[i] = P(n)[i]}
  <2>1. Partial(n, P(n)) /\ Partial(n + 1, P(n + 1))
    <3>1. n + 1 \in Nat
      OBVIOUS
    <3> QED
      BY <1>2, <3>1
  <2>2. 0 \in T
    BY <2>1
  <2>3. ASSUME NEW i \in Nat, i \in T PROVE i + 1 \in T
    <3>1. CASE i + 1 <= n
      <4>1. i + 1 \in 1..n /\ i + 1 \in 1..(n + 1) /\ i + 1 - 1 = i /\ i <= n
        BY <3>1
      <4>2. P(n)[i + 1] = b * P(n)[i] /\ P(n + 1)[i + 1] = b * P(n + 1)[i]
        BY <2>1, <4>1
      <4> QED
        BY <2>3, <4>1, <4>2
    <3>2. CASE ~(i + 1 <= n)
      BY <3>2
    <3> QED
      BY <3>1, <3>2
  <2> HIDE DEF T
  <2>4. n \in T
    BY <2>2, <2>3, SetInduction
  <2> QED
    BY <2>4 DEF T
<1>4. /\ \A n \in Nat : f[n] \in Nat
      /\ f[0] = 1
      /\ \A n \in Nat : f[n + 1] = b * f[n]
  <2>1. ASSUME NEW n \in Nat PROVE P(n)[n] \in Nat
    <3>1. n \in 0..n
      OBVIOUS
    <3> QED
      BY <1>2, <3>1
  <2>2. P(0)[0] = 1
    BY <1>2
  <2>3. ASSUME NEW n \in Nat PROVE P(n + 1)[n + 1] = b * P(n)[n]
    <3>1. n + 1 \in Nat /\ n + 1 \in 1..(n + 1) /\ n + 1 - 1 = n
      OBVIOUS
    <3>2. P(n + 1)[n + 1] = b * P(n + 1)[n]
      BY <1>2, <3>1
    <3> QED
      BY <1>3, <3>2
  <2> QED
    BY <2>1, <2>2, <2>3
<1>5. f = Step(f)
  <2>1. ASSUME NEW n \in Nat PROVE f[n] = IF n = 0 THEN 1 ELSE b * f[n - 1]
    <3>1. CASE n = 0
      BY <1>4, <3>1
    <3>2. CASE n # 0
      <4>1. n - 1 \in Nat /\ n - 1 + 1 = n
        BY <3>2
      <4>2. f[n - 1 + 1] = b * f[n - 1]
        BY <1>4, <4>1
      <4> QED
        BY <3>2, <4>1, <4>2
    <3> QED
      BY <3>1, <3>2
  <2>2. f = [n \in Nat |-> f[n]]
    OBVIOUS
  <2> HIDE DEF f
  <2> QED
    BY <2>1, <2>2
<1> HIDE DEF f
<1>6. Power(b) = CHOOSE g : g = Step(g)
  BY DEF Power
<1>7. Power(b) = Step(Power(b))
  BY <1>5, <1>6
<1> DEFINE power == Power(b)
<1> HIDE DEF power
<1>8. power = [n \in Nat |-> IF n = 0 THEN 1 ELSE b * power[n - 1]]
  BY <1>7 DEF power
<1>9. power[0] = 1
  BY <1>8
<1>10. ASSUME NEW n \in Nat PROVE power[n + 1] = b * power[n]
  <2>1. n + 1 \in Nat /\ n + 1 # 0 /\ n + 1 - 1 = n
    OBVIOUS
  <2> QED
    BY <1>8, <2>1
<1>11. ASSUME NEW n \in Nat PROVE power[n] \in Nat
  <2> DEFINE T == {i \in Nat : power[i] \in Nat}
  <2>1. 0 \in T /\ \A i \in Nat : i \in T => i + 1 \in T
    BY <1>9, <1>10
  <2> HIDE DEF T
  <2>2. n \in T
    BY <2>1, SetInduction
  <2> QED
    BY <2>2 DEF T
<1> QED
  BY <1>9, <1>10, <1>11 DEF power

Configs == [initial : Intervals, max : Intervals, multiplier : Multipliers,
            maxRetries : RetryLimits \cup {Unlimited}]

\* The delays so far have their closed form, and the interval is the next one.
BackoffInv ==
  /\ config \in Configs
  /\ delays \in Seq(Nat) /\ currentAttempt = Len(delays) /\ gaveUp \in BOOLEAN
  /\ currentInterval = DelayBefore(Len(delays) + 1)
  /\ BackoffAsConfigured

\* Growing a delay that is capped is growing it before the cap.
LEMMA CapGrows ==
  ASSUME NEW a \in Nat, NEW b \in Nat, NEW c \in Nat, b > 0
  PROVE  Shorter(Shorter(a, c) * b, c) = Shorter(a * b, c)
<1>1. CASE a < c
  BY <1>1 DEF Shorter
<1>2. CASE ~(a < c)
  <2>1. c * b >= c /\ a * b >= c * b
    BY <1>2
  <2>2. a * b \in Nat /\ c * b \in Nat
    OBVIOUS
  <2> QED
    BY <1>2, <2>1, <2>2 DEF Shorter
<1> QED
  BY <1>1, <1>2

\* The values of a configuration.
LEMMA ConfigTypes ==
  ASSUME NEW cfg \in Configs
  PROVE  /\ cfg.initial \in Nat /\ cfg.max \in Nat
         /\ cfg.multiplier \in Nat /\ cfg.multiplier > 0
         /\ cfg.maxRetries # Unlimited => cfg.maxRetries \in Nat /\ 0 <= cfg.maxRetries
<1>1. /\ cfg.initial \in Intervals /\ cfg.max \in Intervals
      /\ cfg.multiplier \in Multipliers
      /\ cfg.maxRetries # Unlimited => cfg.maxRetries \in RetryLimits
  BY DEF Configs
<1>2. /\ \A t \in Intervals : t \in Nat
      /\ \A m \in Multipliers : m \in Nat /\ m > 0
      /\ \A r \in RetryLimits : r \in Nat /\ 0 <= r
  BY ReconnectAssumption
<1> QED
  BY <1>1, <1>2, Zenon

\* Every delay follows from the one before it as the code computes it.
LEMMA NextInterval ==
  ASSUME config \in Configs, NEW k \in Nat, k > 0
  PROVE  /\ DelayBefore(k) \in Nat
         /\ DelayBefore(k + 1) = Shorter(DelayBefore(k) * config.multiplier, config.max)
<1> DEFINE i == config.initial
           m == config.multiplier
           c == config.max
           P == Power(m)
<1>1. i \in Nat /\ m \in Nat /\ m > 0 /\ c \in Nat
  BY ConfigTypes
<1>2. DelayBefore(k) = IF k = 1 THEN i ELSE Shorter(i * P[k - 1], c)
  BY DEF DelayBefore
<1>3. DelayBefore(k + 1) = Shorter(i * P[k], c)
  <2>1. k + 1 # 1 /\ k + 1 - 1 = k
    OBVIOUS
  <2>2. DelayBefore(k + 1) = IF k + 1 = 1 THEN i ELSE Shorter(i * P[k + 1 - 1], c)
    BY DEF DelayBefore
  <2> QED
    BY <2>1, <2>2
<1> HIDE DEF i, m, c
<1>4. k - 1 \in Nat /\ P[k - 1] \in Nat /\ P[0] = 1 /\ P[k] = m * P[k - 1]
  <2>1. k - 1 \in Nat /\ k - 1 + 1 = k
    OBVIOUS
  <2>2. P[k - 1 + 1] = m * P[k - 1] /\ P[k - 1] \in Nat /\ P[0] = 1
    BY <1>1, <2>1, PowerLaw
  <2> QED
    BY <2>1, <2>2
<1> HIDE DEF P
<1>5. i * P[k] = (i * P[k - 1]) * m /\ i * P[k - 1] \in Nat
  <2> DEFINE x == P[k - 1]
  <2>1. x \in Nat /\ P[k] = m * x
    BY <1>4
  <2> HIDE DEF x
  <2>2. i * (m * x) = (i * x) * m /\ i * x \in Nat
    BY <1>1, <2>1
  <2> QED
    BY <2>1, <2>2 DEF x
<1>6. CASE k = 1
  <2>1. P[k - 1] = 1 /\ i * 1 = i
    BY <1>1, <1>4, <1>6
  <2>2. i * P[k] = i * m
    BY <1>5, <2>1
  <2> QED
    BY <1>1, <1>2, <1>3, <1>6, <2>2 DEF m, c
<1>7. CASE k # 1
  <2> DEFINE y == i * P[k - 1]
  <2>1. y \in Nat
    BY <1>5
  <2>2. DelayBefore(k) = Shorter(y, c) /\ DelayBefore(k + 1) = Shorter(y * m, c)
    BY <1>2, <1>3, <1>5, <1>7
  <2> HIDE DEF y
  <2>3. Shorter(y, c) \in Nat
    BY <1>1, <2>1 DEF Shorter
  <2>4. Shorter(Shorter(y, c) * m, c) = Shorter(y * m, c)
    BY <1>1, <2>1, CapGrows
  <2> QED
    BY <2>2, <2>3, <2>4 DEF m, c
<1> QED
  BY <1>6, <1>7 DEF i, m, c

LEMMA ReconnectInitInv == ReconnectInit => BackoffInv
<1> SUFFICES ASSUME ReconnectInit PROVE BackoffInv
  OBVIOUS
<1>1. /\ delays = <<>> /\ gaveUp = FALSE /\ currentAttempt = 0 /\ currentInterval = config.initial
      /\ config \in Configs
  BY DEF ReconnectInit, Configs
<1>2. delays \in Seq(Nat) /\ Len(delays) = 0 /\ DelayBefore(Len(delays) + 1) = config.initial
  BY <1>1 DEF DelayBefore
<1>3. BackoffAsConfigured
  <2>1. config.maxRetries # Unlimited => 0 <= config.maxRetries
    BY <1>1, ConfigTypes
  <2>2. \A k \in 1..0 : delays[k] = DelayBefore(k)
    OBVIOUS
  <2> QED
    BY <1>1, <1>2, <2>1, <2>2 DEF BackoffAsConfigured
<1>4. currentAttempt = Len(delays) /\ currentInterval = DelayBefore(Len(delays) + 1)
  BY <1>1, <1>2
<1> QED
  BY <1>1, <1>2, <1>3, <1>4 DEF BackoffInv

LEMMA ReconnectStepInv == BackoffInv /\ [ReconnectNext]_reconnectVars => BackoffInv'
<1> SUFFICES ASSUME BackoffInv, [ReconnectNext]_reconnectVars PROVE BackoffInv'
  OBVIOUS
<1> DEFINE n == Len(delays)
<1>1. /\ delays \in Seq(Nat) /\ n \in Nat /\ currentAttempt = n
      /\ currentInterval = DelayBefore(n + 1)
      /\ \A k \in 1..n : delays[k] = DelayBefore(k)
      /\ config.maxRetries # Unlimited => n <= config.maxRetries
      /\ gaveUp => n = config.maxRetries
  BY DEF BackoffInv, BackoffAsConfigured
<1>2. /\ config.maxRetries # Unlimited => config.maxRetries \in Nat /\ 0 <= config.maxRetries
      /\ Unlimited \notin Nat /\ config \in Configs
  <2>1. config \in Configs
    BY DEF BackoffInv
  <2> QED
    BY <2>1, ConfigTypes, ReconnectAssumption
<1>3. CASE UNCHANGED reconnectVars
  BY <1>3 DEF reconnectVars, BackoffInv, BackoffAsConfigured, DelayBefore
<1>4. CASE ResetBackoff
  <2>1. /\ delays' = <<>> /\ gaveUp' = FALSE /\ currentAttempt' = 0
        /\ currentInterval' = config.initial /\ config' = config
    BY <1>4 DEF ResetBackoff
  <2>2. /\ delays' \in Seq(Nat) /\ Len(delays') = 0
        /\ DelayBefore(Len(delays) + 1)' = config.initial
    BY <2>1 DEF DelayBefore
  <2>3. BackoffAsConfigured'
    <3>1. \A k \in 1..0 : delays'[k] = DelayBefore(k)'
      OBVIOUS
    <3> QED
      BY <1>2, <2>1, <2>2, <3>1 DEF BackoffAsConfigured
  <2> QED
    BY <1>2, <2>1, <2>2, <2>3 DEF BackoffInv
<1>5. CASE NextDelay
  <2>1. CASE ShouldRetry
    <3>1. /\ currentAttempt' = n + 1 /\ delays' = Append(delays, currentInterval)
          /\ currentInterval' = Shorter(currentInterval * config.multiplier, config.max)
          /\ config' = config /\ gaveUp' = gaveUp
          /\ config.maxRetries # Unlimited => n < config.maxRetries
      BY <1>1, <1>5, <2>1 DEF NextDelay, ShouldRetry
    <3>2. DelayBefore(n + 1) \in Nat /\ currentInterval' = DelayBefore(n + 1 + 1)
      <4>1. n + 1 \in Nat /\ n + 1 > 0
        BY <1>1
      <4> HIDE DEF n
      <4> QED
        BY <1>1, <1>2, <3>1, <4>1, NextInterval
    <3>3. /\ delays' \in Seq(Nat) /\ Len(delays') = n + 1 /\ delays'[n + 1] = DelayBefore(n + 1)
          /\ \A k \in 1..n : delays'[k] = delays[k]
      BY <1>1, <3>1, <3>2
    <3> HIDE DEF n
    <3>4. \A k \in 1..n + 1 : delays'[k] = DelayBefore(k)
      <4>1. \A k \in 1..n + 1 : k \in 1..n \/ k = n + 1
        BY <1>1
      <4> QED
        BY <1>1, <3>3, <4>1
    <3>5. \A k : DelayBefore(k)' = DelayBefore(k)
      BY <3>1 DEF DelayBefore
    <3>6. config.maxRetries # Unlimited => n + 1 <= config.maxRetries
      BY <1>1, <1>2, <3>1
    <3>7. ~gaveUp
      BY <1>1, <1>2, <3>1
    <3>8. BackoffAsConfigured'
      BY <3>1, <3>3, <3>4, <3>5, <3>6, <3>7 DEF BackoffAsConfigured
    <3> QED
      BY <3>1, <3>2, <3>3, <3>5, <3>7, <3>8 DEF BackoffInv
  <2>2. CASE ~ShouldRetry
    <3>1. gaveUp' = TRUE /\ UNCHANGED <<config, currentAttempt, currentInterval, delays>>
      BY <1>5, <2>2 DEF NextDelay
    <3>2. config.maxRetries # Unlimited /\ ~(n < config.maxRetries)
      BY <1>1, <2>2 DEF ShouldRetry
    <3>3. n = config.maxRetries
      BY <1>1, <1>2, <3>2
    <3> QED
      BY <3>1, <3>3 DEF BackoffInv, BackoffAsConfigured, DelayBefore
  <2> QED
    BY <2>1, <2>2
<1> QED
  BY <1>3, <1>4, <1>5 DEF ReconnectNext

\* However attempts and resets alternate, the delays since the last reset grow from the
\* initial one by the multiplier up to the maximum, there are at most maxRetries of
\* them, and nextDelayMs gives up only after that many.
THEOREM BackoffIsAsConfigured == ReconnectSpec => []BackoffAsConfigured
<1>1. BackoffInv => BackoffAsConfigured
  BY DEF BackoffInv
<1> QED
  BY <1>1, ReconnectInitInv, ReconnectStepInv, PTL DEF ReconnectSpec

----------------------------------------------------------------------------
\* The two together.

\* Neither part of @wazeko/transport relies on the other: an application that calls
\* both in any order sees a transport and a manager as they are on their own.
THEOREM PartsStayIndependent ==
  NetworkSpec => []OutcomeOfOwnSocket /\ []FlagTellsTruth /\ []BackoffAsConfigured
<1>1. NetworkInit => TransportInv /\ BackoffInv
  BY TransportInitInv, ReconnectInitInv DEF NetworkInit
<1>2. [NetworkNext]_networkVars => [TransportNext]_transportVars /\ [ReconnectNext]_reconnectVars
  BY DEF NetworkNext, Transport, Reconnect, networkVars
<1>3. TransportInv /\ BackoffInv /\ [NetworkNext]_networkVars => (TransportInv /\ BackoffInv)'
  BY <1>2, TransportStepInv, ReconnectStepInv
<1>4. TransportInv /\ BackoffInv => OutcomeOfOwnSocket /\ FlagTellsTruth /\ BackoffAsConfigured
  BY DEF TransportInv, BackoffInv
<1> QED
  BY <1>1, <1>3, <1>4, PTL DEF NetworkSpec
=============================================================================
