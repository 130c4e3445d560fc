-------------------------- MODULE SnorkelLinkProofs --------------------------
(***************************************************************************)
(* Theorems about snorkel's loop, wherever `attempts' saturates, and about *)
(* its --server value, of any length.                                      *)
(***************************************************************************)
EXTENDS MCSnorkel, TextProofs

(* Where the streams are, who may dial, and why the program ends; and the  *)
(* wait is no longer than the failures so far make it with the largest     *)
(* jitter, so that the next failure's is longer even with the smallest.    *)
LinkInv ==
  /\ once /\ at \in {"Load", "Signals", "Down", "Sleep"} => tries = 0
  /\ OnceDialsOnce
  /\ at = "Stopped" => signal \/ once
  /\ ExitZeroMeans
  /\ StreamsPaired
  /\ delay <= 100 * base(attempts)

-----------------------------------------------------------------------------
(* The backoff.                                                            *)

(* The powers of two a backoff may use.                                    *)
LEMMA Powers ==
  ASSUME NEW k \in 0..16
  PROVE  /\ 2 ^ k \in Nat /\ 2 ^ k >= 1
         /\ k < 16 => 2 ^ (k + 1) = 2 * 2 ^ k
         /\ k >= 6 => 2 ^ k >= 64
<1>0. CASE k = 0
  BY <1>0
<1>1. CASE k = 1
  BY <1>1
<1>2. CASE k = 2
  BY <1>2
<1>3. CASE k = 3
  BY <1>3
<1>4. CASE k = 4
  BY <1>4
<1>5. CASE k = 5
  BY <1>5
<1>6. CASE k = 6
  BY <1>6
<1>7. CASE k = 7
  BY <1>7
<1>8. CASE k = 8
  BY <1>8
<1>9. CASE k = 9
  BY <1>9
<1>10. CASE k = 10
  BY <1>10
<1>11. CASE k = 11
  BY <1>11
<1>12. CASE k = 12
  BY <1>12
<1>13. CASE k = 13
  BY <1>13
<1>14. CASE k = 14
  BY <1>14
<1>15. CASE k = 15
  BY <1>15
<1>16. CASE k = 16
  BY <1>16
<1> QED BY <1>0, <1>1, <1>2, <1>3, <1>4, <1>5, <1>6, <1>7, <1>8, <1>9, <1>10,
       <1>11, <1>12, <1>13, <1>14, <1>15, <1>16

(* The exponent of the n-th failure in a row.                              *)
Exponent(n) == Minimum(Maximum(n - 1, 0), 16)

LEMMA Exponents ==
  ASSUME NEW n \in Nat
  PROVE  /\ Exponent(n) \in 0..16
         /\ n > 0 /\ n <= 16 => Exponent(n) < 16 /\ Exponent(n + 1) = Exponent(n) + 1
         /\ n >= 7 => Exponent(n) >= 6
BY DEF Exponent, Minimum, Maximum

(* What the bounds below need of the two waits of the code.                *)
LEMMA Waits ==
  /\ BACKOFF_FIRST \in Nat /\ BACKOFF_MAX \in Nat /\ BACKOFF_FIRST <= BACKOFF_MAX
  /\ 100 * BACKOFF_MAX \in Nat
BY DEF BACKOFF_FIRST, BACKOFF_MAX

(* The wait before jitter is a number from the first to BACKOFF_MAX.       *)
LEMMA BaseBounds ==
  ASSUME NEW n \in Nat
  PROVE  base(n) \in Nat /\ BACKOFF_FIRST <= base(n) /\ base(n) <= BACKOFF_MAX
<1>1. PICK x : x = 2 ^ Exponent(n)
  OBVIOUS
<1>2. x \in Nat /\ x >= 1
  BY <1>1, Exponents, Powers
<1>3. base(n) = Minimum(BACKOFF_FIRST * x, BACKOFF_MAX)
  BY <1>1 DEF base, Exponent
<1>4. PICK a : a = BACKOFF_FIRST * x
  OBVIOUS
<1>5. a \in Nat /\ a >= BACKOFF_FIRST
  BY <1>2, <1>4 DEF BACKOFF_FIRST
<1> QED BY <1>3, <1>4, <1>5, Waits DEF Minimum

(* From the seventh failure on it is BACKOFF_MAX.                          *)
LEMMA BaseCapped ==
  ASSUME NEW n \in Nat, n >= 7
  PROVE  base(n) = BACKOFF_MAX
<1>1. PICK x : x = 2 ^ Exponent(n)
  OBVIOUS
<1>2. x \in Nat /\ x >= 64
  BY <1>1, Exponents, Powers
<1>3. base(n) = Minimum(BACKOFF_FIRST * x, BACKOFF_MAX)
  BY <1>1 DEF base, Exponent
<1>4. PICK a : a = BACKOFF_FIRST * x
  OBVIOUS
<1>5. a \in Nat /\ a >= 32000
  BY <1>2, <1>4 DEF BACKOFF_FIRST
<1> QED BY <1>3, <1>4, <1>5 DEF Minimum, BACKOFF_MAX

(* One more failure doubles it or brings it to BACKOFF_MAX.                *)
LEMMA BaseDoubles ==
  ASSUME NEW n \in Nat, n > 0
  PROVE  base(n + 1) = 2 * base(n) \/ base(n + 1) = BACKOFF_MAX
<1>1. CASE n <= 16
  <2>1. PICK x, y : x = 2 ^ Exponent(n) /\ y = 2 ^ Exponent(n + 1)
    OBVIOUS
  <2>2. x \in Nat /\ x >= 1 /\ y = 2 * x
    BY <1>1, <2>1, Exponents, Powers
  <2>3. /\ base(n) = Minimum(BACKOFF_FIRST * x, BACKOFF_MAX)
        /\ base(n + 1) = Minimum(BACKOFF_FIRST * y, BACKOFF_MAX)
    BY <2>1 DEF base, Exponent
  <2>4. PICK a, b : a = BACKOFF_FIRST * x /\ b = BACKOFF_FIRST * y
    OBVIOUS
  <2>5. a \in Nat /\ a >= 1 /\ b = 2 * a
    BY <2>2, <2>4 DEF BACKOFF_FIRST
  <2> QED BY <2>3, <2>4, <2>5 DEF Minimum, BACKOFF_MAX
<1>2. CASE n > 16
  BY <1>2, BaseCapped
<1> QED BY <1>1, <1>2

(* The jitter takes a fifth of it at most.                                 *)
LEMMA BackoffBounds ==
  ASSUME NEW n \in Nat, NEW jitter \in Jitters
  PROVE  /\ backoff(n, jitter) \in Int
         /\ 80 * base(n) <= backoff(n, jitter) /\ backoff(n, jitter) <= 100 * base(n)
         /\ backoff(n, jitter) \in 0..(100 * BACKOFF_MAX)
<1>1. PICK b : b = base(n)
  OBVIOUS
<1>2. b \in Nat /\ b <= BACKOFF_MAX /\ jitter \in 80..100
  BY <1>1, BaseBounds DEF Jitters
<1>3. b * jitter \in Int /\ 80 * b <= b * jitter /\ b * jitter <= 100 * b
  BY <1>2
<1>4. 0 <= 80 * b /\ 100 * b <= 100 * BACKOFF_MAX /\ 80 * b \in Int /\ 100 * b \in Int
  BY <1>2, Waits
<1>5. PICK d : d = b * jitter
  OBVIOUS
<1>6. d \in 0..(100 * BACKOFF_MAX)
  <2>1. PICK lo, hi, top \in Int : lo = 80 * b /\ hi = 100 * b /\ top = 100 * BACKOFF_MAX
    BY <1>4, Waits
  <2>2. d \in Int /\ 0 <= lo /\ lo <= d /\ d <= hi /\ hi <= top
    BY <1>3, <1>4, <1>5, <2>1
  <2>3. d \in 0..top
    BY <2>2
  <2> QED BY <2>1, <2>3
<1> QED BY <1>1, <1>3, <1>5, <1>6 DEF backoff

(* One failure more, where attempts saturates too.                         *)
LEMMA FailureGrows ==
  ASSUME NEW n \in 0..MaxAttempts, NEW k, k = Minimum(n + 1, MaxAttempts)
  PROVE  /\ k \in 0..MaxAttempts
         /\ n = 0 => k = 1
         /\ n > 0 => base(k) = 2 * base(n) \/ base(k) = BACKOFF_MAX
<1>1. n \in Nat /\ MaxAttempts \in Nat /\ MaxAttempts >= 7
  BY MaxAttemptsAssumption
<1>2. k = n + 1 \/ k = MaxAttempts
  BY <1>1 DEF Minimum
<1>3. k \in 0..MaxAttempts /\ (n = 0 => k = 1)
  BY <1>1 DEF Minimum
<1>4. base(MaxAttempts) = BACKOFF_MAX
  BY <1>1, BaseCapped
<1>5. n > 0 => base(n + 1) = 2 * base(n) \/ base(n + 1) = BACKOFF_MAX
  BY <1>1, BaseDoubles
<1> QED BY <1>2, <1>3, <1>4, <1>5

-----------------------------------------------------------------------------
(* Types.                                                                  *)

(* Going down keeps the counters in their ranges.                          *)
LEMMA DownTyped ==
  ASSUME NEW n \in 0..MaxAttempts, down(n)
  PROVE  /\ at' = "Down" /\ attempts' = n /\ delay' \in 0..(100 * BACKOFF_MAX)
         /\ 80 * base(n) <= delay' /\ delay' <= 100 * base(n)
<1>1. n \in Nat
  BY MaxAttemptsAssumption
<1>2. PICK jitter \in Jitters : delay' = backoff(n, jitter)
  BY DEF down
<1>3. at' = "Down" /\ attempts' = n
  BY DEF down
<1> QED BY <1>1, <1>2, <1>3, BackoffBounds

(* So does a failed dial.                                                  *)
LEMMA FailedTyped ==
  ASSUME TypeOK, failed
  PROVE  /\ at' \in {"Down", "Stopped"} /\ attempts' \in 0..MaxAttempts
         /\ delay' \in 0..(100 * BACKOFF_MAX)
         /\ {remote', local', moved'} \subseteq BOOLEAN
<1>1. {remote', local', moved'} \subseteq BOOLEAN
  BY DEF failed, Closed
<1>2. attempts \in 0..MaxAttempts /\ delay \in 0..(100 * BACKOFF_MAX)
  BY DEF TypeOK
<1>3. CASE once
  BY <1>1, <1>2, <1>3 DEF failed
<1>4. CASE ~once
  <2>1. PICK k : k = Minimum(attempts + 1, MaxAttempts) /\ down(k)
    BY <1>4 DEF failed
  <2>2. k \in 0..MaxAttempts
    BY <1>2, <2>1, FailureGrows
  <2> QED BY <1>1, <2>1, <2>2, DownTyped
<1> QED BY <1>3, <1>4

(* One step keeps the types.                                               *)
LEMMA TypeStep == TypeOK /\ [Next]_vars => TypeOK'
<1> SUFFICES ASSUME TypeOK, [Next]_vars PROVE TypeOK'
  OBVIOUS
<1>1. CASE LoadConfig \/ OnSignals \/ Return
  BY <1>1 DEF LoadConfig, OnSignals, Return, Exit, linkVars, TypeOK
<1>2. CASE Check
  BY <1>2 DEF Check, TypeOK
<1>3. CASE Wake
  <2>1. tries' \in 0..2
    BY <1>3 DEF Wake, Minimum, TypeOK
  <2>2. CASE socket
    BY <1>3, <2>1, <2>2 DEF Wake, TypeOK
  <2>3. CASE ~socket
    BY <1>3, <2>1, <2>3, FailedTyped DEF Wake, TypeOK
  <2> QED BY <2>2, <2>3
<1>4. CASE DialRemote
  <2>1. CASE failed
    BY <1>4, <2>1, FailedTyped DEF DialRemote, TypeOK
  <2>2. CASE ~failed
    BY <1>4, <2>2 DEF DialRemote, TypeOK
  <2> QED BY <2>1, <2>2
<1>5. CASE ConnectLocal
  <2>1. CASE socket
    BY <1>5, <2>1 DEF ConnectLocal, TypeOK
  <2>2. CASE ~socket
    BY <1>5, <2>2, FailedTyped DEF ConnectLocal, TypeOK
  <2> QED BY <2>1, <2>2
<1>6. CASE Copy
  BY <1>6 DEF Copy, TypeOK
<1>7. CASE SessionEnds
  <2>1. CASE once
    BY <1>7, <2>1 DEF SessionEnds, Closed, TypeOK
  <2>2. CASE ~once
    <3>1. (IF moved THEN 0 ELSE 1) \in 0..MaxAttempts
      BY MaxAttemptsAssumption
    <3>2. down(IF moved THEN 0 ELSE 1)
      BY <1>7, <2>2 DEF SessionEnds
    <3>3. /\ at' = "Down" /\ attempts' \in 0..MaxAttempts
          /\ delay' \in 0..(100 * BACKOFF_MAX)
      BY <3>1, <3>2, DownTyped
    <3> QED BY <1>7, <3>3 DEF SessionEnds, Closed, TypeOK
  <2> QED BY <2>1, <2>2
<1>8. CASE Shutdown
  BY <1>8 DEF Shutdown, Closed, TypeOK
<1>9. CASE Signal \/ SocketFlips
  BY <1>9 DEF Signal, SocketFlips, TypeOK
<1>10. CASE UNCHANGED vars
  BY <1>10 DEF vars, TypeOK
<1> QED
  BY <1>1, <1>2, <1>3, <1>4, <1>5, <1>6, <1>7, <1>8, <1>9, <1>10 DEF Next, Step

(* Type correctness of snorkel: in particular no wait is longer than       *)
(* BACKOFF_MAX, however many failures came before it.                      *)
THEOREM TypeCorrect == Spec => []TypeOK
<1>1. Init => TypeOK
  <2> SUFFICES ASSUME Init PROVE TypeOK
    OBVIOUS
  <2>1. attempts \in 0..MaxAttempts /\ delay \in 0..(100 * BACKOFF_MAX) /\ tries \in 0..2
    BY MaxAttemptsAssumption, Waits DEF Init
  <2>2. {once, remote, local, moved, signal, socket} \subseteq BOOLEAN
    BY Zenon DEF Init
  <2> QED BY <2>1, <2>2 DEF Init, TypeOK
<1> QED BY <1>1, TypeStep, PTL DEF Spec

-----------------------------------------------------------------------------
(* Streams, dials and exits.                                               *)

(* A failed dial keeps LinkInv.                                            *)
LEMMA FailedKeeps ==
  ASSUME TypeOK, LinkInv, failed, at \in {"Sleep", "Dial", "Local"},
         UNCHANGED <<tries, signal, once, code>>
  PROVE  LinkInv'
<1>1. ~local' /\ ~remote'
  BY DEF failed, Closed
<1>2. CASE once
  <2>1. at' = "Stopped" /\ UNCHANGED <<attempts, delay>>
    BY <1>2 DEF failed
  <2> QED BY <1>1, <1>2, <2>1
          DEF LinkInv, OnceDialsOnce, ExitZeroMeans, StreamsPaired
<1>3. CASE ~once
  <2>1. PICK k : k = Minimum(attempts + 1, MaxAttempts) /\ down(k)
    BY <1>3 DEF failed
  <2>2. k \in 0..MaxAttempts
    BY <2>1, FailureGrows DEF TypeOK
  <2>3. at' = "Down" /\ delay' <= 100 * base(attempts')
    BY <2>1, <2>2, DownTyped
  <2> QED BY <1>1, <1>3, <2>3
          DEF LinkInv, OnceDialsOnce, ExitZeroMeans, StreamsPaired
<1> QED BY <1>2, <1>3

(* One step keeps LinkInv.                                                 *)
LEMMA LinkStep == TypeOK /\ TypeOK' /\ LinkInv /\ [Next]_vars => LinkInv'
<1> SUFFICES ASSUME TypeOK, TypeOK', LinkInv, [Next]_vars PROVE LinkInv'
  OBVIOUS
<1> USE DEF LinkInv, OnceDialsOnce, ExitZeroMeans, StreamsPaired
<1>1. CASE LoadConfig \/ OnSignals \/ Return
  BY <1>1 DEF LoadConfig, OnSignals, Return, Exit, linkVars, SUCCESS, FAILURE,
              BAD_CONFIG
<1>2. CASE Check
  BY <1>2 DEF Check
<1>3. CASE Wake
  <2>1. CASE socket
    BY <1>3, <2>1 DEF Wake, Minimum, TypeOK
  <2>2. CASE ~socket
    BY <1>3, <2>2, FailedKeeps DEF Wake
  <2> QED BY <2>1, <2>2
<1>4. CASE DialRemote
  <2>1. CASE failed
    BY <1>4, <2>1, FailedKeeps DEF DialRemote
  <2>2. CASE ~failed
    BY <1>4, <2>2 DEF DialRemote
  <2> QED BY <2>1, <2>2
<1>5. CASE ConnectLocal
  <2>1. CASE socket
    BY <1>5, <2>1 DEF ConnectLocal
  <2>2. CASE ~socket
    BY <1>5, <2>2, FailedKeeps DEF ConnectLocal
  <2> QED BY <2>1, <2>2
<1>6. CASE Copy
  BY <1>6 DEF Copy
<1>7. CASE SessionEnds
  <2>1. CASE once
    BY <1>7, <2>1 DEF SessionEnds, Closed
  <2>2. CASE ~once
    <3>1. PICK k : k = (IF moved THEN 0 ELSE 1) /\ down(k)
      BY <1>7, <2>2 DEF SessionEnds
    <3>2. k \in 0..MaxAttempts
      BY <3>1, MaxAttemptsAssumption
    <3>3. at' = "Down" /\ delay' <= 100 * base(attempts')
      BY <3>1, <3>2, DownTyped
    <3> QED BY <1>7, <2>2, <3>3 DEF SessionEnds, Closed
  <2> QED BY <2>1, <2>2
<1>8. CASE Shutdown
  BY <1>8 DEF Shutdown, Closed
<1>9. CASE Signal \/ SocketFlips
  BY <1>9 DEF Signal, SocketFlips
<1>10. CASE UNCHANGED vars
  BY <1>10 DEF vars
<1> QED
  BY <1>1, <1>2, <1>3, <1>4, <1>5, <1>6, <1>7, <1>8, <1>9, <1>10 DEF Next, Step

(* Streams, dials and exits are always in order.                           *)
LEMMA LinkAlways == Spec => []LinkInv
<1>1. Init => LinkInv
  <2> SUFFICES ASSUME Init PROVE LinkInv
    OBVIOUS
  <2>1. 0 <= 100 * base(0)
    BY BaseBounds
  <2>2. delay <= 100 * base(attempts)
    BY <2>1 DEF Init
  <2> QED BY <2>2 DEF Init, LinkInv, OnceDialsOnce, ExitZeroMeans, StreamsPaired,
                      Running, SUCCESS
<1> QED BY <1>1, TypeCorrect, LinkStep, PTL DEF Spec

(* Both streams are open exactly in a session: a TLS stream is not left    *)
(* behind by a socket that vanished after the check, nor by a shutdown.    *)
THEOREM StreamsAlwaysPaired == Spec => []StreamsPaired
<1>1. LinkInv => StreamsPaired
  BY DEF LinkInv
<1> QED BY <1>1, LinkAlways, PTL

(* With --once the server is dialled at most once, however it goes.        *)
THEOREM OnceAlwaysDialsOnce == Spec => []OnceDialsOnce
<1>1. LinkInv => OnceDialsOnce
  BY DEF LinkInv
<1> QED BY <1>1, LinkAlways, PTL

(* Status 0 is reported only when a signal stopped snorkel or --once was   *)
(* given; without --once the loop has no other way out.                    *)
THEOREM ExitZeroAlwaysMeans == Spec => []ExitZeroMeans
<1>1. LinkInv => ExitZeroMeans
  BY DEF LinkInv
<1> QED BY <1>1, LinkAlways, PTL

(* A step that goes down again within a failure run.                       *)
WaitGrows ==
  at' = "Down" /\ at \in {"Sleep", "Dial", "Local"} =>
    \/ attempts > 0 /\ 5 * delay' >= 8 * delay
    \/ delay' >= 80 * BACKOFF_MAX
    \/ attempts = 0 /\ delay' >= 80 * BACKOFF_FIRST

(* Within a failure run every wait, jitter included, is at least 1.6 times *)
(* the one before it, until it is within the jitter of BACKOFF_MAX; then   *)
(* it stays at 24 s or more, where the count of failures saturates too.    *)
THEOREM BackoffAlwaysGrows == Spec => BackoffGrows
<1>1. TypeOK /\ LinkInv /\ [Next]_vars => [WaitGrows]_vars
  <2> SUFFICES ASSUME TypeOK, LinkInv, Next, at' = "Down",
                      at \in {"Sleep", "Dial", "Local"}
               PROVE  \/ attempts > 0 /\ 5 * delay' >= 8 * delay
                      \/ delay' >= 80 * BACKOFF_MAX
                      \/ attempts = 0 /\ delay' >= 80 * BACKOFF_FIRST
    BY DEF WaitGrows
  <2>1. failed
    BY DEF Next, Step, LoadConfig, OnSignals, Return, Exit, linkVars, Check, Wake,
      DialRemote, ConnectLocal, Copy, SessionEnds, Shutdown, Signal, SocketFlips
  <2>2. PICK k : k = Minimum(attempts + 1, MaxAttempts) /\ down(k)
    BY <2>1 DEF failed
  <2>3. attempts \in 0..MaxAttempts /\ attempts \in Nat /\ delay \in Int
    BY MaxAttemptsAssumption DEF TypeOK
  <2>4. /\ k \in 0..MaxAttempts /\ (attempts = 0 => k = 1)
        /\ attempts > 0 => base(k) = 2 * base(attempts) \/ base(k) = BACKOFF_MAX
    BY <2>2, <2>3, FailureGrows
  <2>5. delay' \in Int /\ 80 * base(k) <= delay'
    <3>1. delay' \in 0..(100 * BACKOFF_MAX) /\ 80 * base(k) <= delay'
      BY <2>2, <2>4, DownTyped
    <3> QED BY <3>1
  <2>6. CASE attempts = 0
    <3>1. base(1) \in Nat /\ BACKOFF_FIRST <= base(1)
      BY BaseBounds
    <3>2. PICK b : b = base(1)
      OBVIOUS
    <3>3. 80 * b <= delay' /\ b \in Nat /\ BACKOFF_FIRST <= b
      BY <2>4, <2>5, <2>6, <3>1, <3>2
    <3>4. delay' >= 80 * BACKOFF_FIRST
      BY <2>5, <3>3, Waits
    <3> QED BY <2>6, <3>4
  <2>7. CASE attempts > 0 /\ base(k) = BACKOFF_MAX
    <3>1. delay' >= 80 * BACKOFF_MAX
      BY <2>5, <2>7, Waits
    <3> QED BY <3>1
  <2>8. CASE attempts > 0 /\ base(k) = 2 * base(attempts)
    <3>1. PICK b : b = base(attempts)
      OBVIOUS
    <3>2. b \in Int
      BY <2>3, <3>1, BaseBounds
    <3>3. PICK d \in Int : d = delay'
      BY <2>5
    <3>4. delay <= 100 * b /\ 80 * (2 * b) <= d
      BY <2>5, <2>8, <3>1, <3>3 DEF LinkInv
    <3>5. 5 * d >= 8 * delay
      <4>1. 160 * b <= d
        BY <3>2, <3>4
      <4> QED BY <2>3, <3>2, <3>4, <4>1
    <3> QED BY <2>8, <3>3, <3>5
  <2>9. attempts = 0 \/ attempts > 0
    BY <2>3
  <2> QED BY <2>4, <2>6, <2>7, <2>8, <2>9
<1> QED BY <1>1, TypeCorrect, LinkAlways, PTL DEF Spec, BackoffGrows, WaitGrows

-----------------------------------------------------------------------------
(* The --server value (Endpoint).                                          *)

(* Text h is in v behind its first a lexemes.                              *)
Lies(h, v, a) == a + Len(h) <= Len(v) /\ \A m \in 1..Len(h) : v[a + m] = h[m]

(* What lies there is what is cut out there.                               *)
LEMMA LiesIsCut ==
  ASSUME NEW S, NEW v \in Seq(S), NEW h \in Seq(S), NEW a \in Nat, Lies(h, v, a)
  PROVE  SubSeq(v, a + 1, a + Len(h)) = h
<1>1. PICK n : n = Len(h)
  OBVIOUS
<1>2. n \in Nat /\ a + n <= Len(v) /\ Len(v) \in Nat
  BY <1>1, LenProperties DEF Lies
<1>3. PICK w : w = SubSeq(v, a + 1, a + n)
  OBVIOUS
<1>4. /\ a + 1 \in Nat /\ a + n \in Nat /\ 1 <= a + 1 /\ a + 1 <= a + n + 1
      /\ (a + n) - (a + 1) + 1 = n
  BY <1>2
<1>5. /\ w \in Seq(S) /\ Len(w) = (a + n) - (a + 1) + 1
      /\ \A m \in 1..((a + n) - (a + 1) + 1) : w[m] = v[a + 1 + m - 1]
  BY <1>2, <1>3, <1>4, Cut
<1>6. ASSUME NEW m \in 1..n PROVE w[m] = h[m]
  <2>1. m \in 1..((a + n) - (a + 1) + 1) /\ a + 1 + m - 1 = a + m
    BY <1>2
  <2>2. v[a + m] = h[m]
    BY <1>1 DEF Lies
  <2> QED BY <1>5, <2>1, <2>2
<1>7. Len(w) = Len(h)
  BY <1>1, <1>4, <1>5
<1>8. \A m \in 1..Len(w) : w[m] = h[m]
  BY <1>1, <1>6, <1>7
<1> QED BY <1>1, <1>3, <1>5, <1>7, <1>8, SeqEqual

(* What is cut out there lies there.                                       *)
LEMMA CutLies ==
  ASSUME NEW S, NEW v \in Seq(S), NEW a \in Nat, NEW b \in Nat, a <= b, b <= Len(v)
  PROVE  /\ SubSeq(v, a + 1, b) \in Seq(S) /\ Len(SubSeq(v, a + 1, b)) = b - a
         /\ Lies(SubSeq(v, a + 1, b), v, a)
<1>1. PICK w : w = SubSeq(v, a + 1, b)
  OBVIOUS
<1>2. a + 1 \in Nat /\ 1 <= a + 1 /\ a + 1 <= b + 1 /\ b - (a + 1) + 1 = b - a
  OBVIOUS
<1>3. /\ w \in Seq(S) /\ Len(w) = b - (a + 1) + 1
      /\ \A m \in 1..(b - (a + 1) + 1) : w[m] = v[a + 1 + m - 1]
  BY <1>1, <1>2, Cut
<1>4. Len(w) = b - a
  BY <1>2, <1>3
<1>5. a + Len(w) <= Len(v)
  <2>1. a + (b - a) <= Len(v)
    OBVIOUS
  <2> QED BY <1>4, <2>1
<1>6. ASSUME NEW m \in 1..Len(w) PROVE v[a + m] = w[m]
  <2>1. m \in 1..(b - (a + 1) + 1) /\ a + 1 + m - 1 = a + m
    BY <1>3
  <2> QED BY <1>3, <2>1
<1> QED BY <1>1, <1>3, <1>4, <1>5, <1>6 DEF Lies

-----------------------------------------------------------------------------
(* The spellings, lexeme by lexeme.                                        *)
Boxed(v, h) ==
  Len(v) = Len(h) + 2 /\ v[1] = "[" /\ Lies(h, v, 1) /\ v[Len(h) + 2] = "]"

Ported(v, h, p) ==
  Len(v) = Len(h) + 2 /\ Lies(h, v, 0) /\ v[Len(h) + 1] = ":" /\ v[Len(h) + 2] = p

BoxedPorted(v, h, p) ==
  /\ Len(v) = Len(h) + 4 /\ v[1] = "[" /\ Lies(h, v, 1) /\ v[Len(h) + 2] = "]"
  /\ v[Len(h) + 3] = ":" /\ v[Len(h) + 4] = p

Scoped(v, h, z, p) ==
  /\ Len(v) = Len(h) + 6 /\ v[1] = "[" /\ Lies(h, v, 1) /\ v[Len(h) + 2] = "%"
  /\ v[Len(h) + 3] = z /\ v[Len(h) + 4] = "]" /\ v[Len(h) + 5] = ":" /\ v[Len(h) + 6] = p

(* A text and two lexemes.                                                 *)
LEMMA TwoBehind ==
  ASSUME NEW S, NEW h \in Seq(S), NEW q \in Seq(S), Len(q) = 2, q[1] = ":",
         NEW r, r = h \o q
  PROVE  r \in Seq(S) /\ Ported(r, h, q[2])
<1>1. PICK n : n = Len(h)
  OBVIOUS
<1>4. n \in Nat
  BY <1>1, LenProperties
<1>5. r \in Seq(S) /\ InARow(h, q, r)
  BY TextsInARow
<1>6. Len(r) = n + 2 /\ \A m \in 1..(n + 2) : r[m] = IF m <= n THEN h[m] ELSE q[m - n]
  BY <1>1, <1>5 DEF InARow
<1>7. \A m \in 1..n : r[0 + m] = h[m]
  <2> SUFFICES ASSUME NEW m \in 1..n PROVE r[0 + m] = h[m]
    OBVIOUS
  <2>1. m \in 1..(n + 2) /\ m <= n /\ 0 + m = m
    BY <1>4
  <2> QED BY <1>6, <2>1
<1>8. r[n + 1] = q[1] /\ r[n + 2] = q[2]
  <2>1. /\ n + 1 \in 1..(n + 2) /\ n + 2 \in 1..(n + 2) /\ ~(n + 1 <= n) /\ ~(n + 2 <= n)
        /\ (n + 1) - n = 1 /\ (n + 2) - n = 2
    BY <1>4
  <2>2. r[n + 1] = q[(n + 1) - n] /\ r[n + 2] = q[(n + 2) - n]
    BY <1>6, <2>1
  <2> QED BY <2>1, <2>2
<1>9. Lies(h, r, 0)
  <2>1. 0 + n <= n + 2
    BY <1>4
  <2> QED BY <1>1, <1>6, <1>7, <2>1 DEF Lies
<1> QED BY <1>1, <1>5, <1>6, <1>8, <1>9 DEF Ported

(* A text in brackets.                                                     *)
LEMMA InBrackets ==
  ASSUME NEW S, NEW h \in Seq(S), NEW a \in Seq(S), NEW b \in Seq(S),
         Len(a) = 1, Len(b) = 1, a[1] = "[", b[1] = "]", NEW r, r = a \o h \o b
  PROVE  r \in Seq(S) /\ Boxed(r, h)
<1>1. PICK n : n = Len(h)
  OBVIOUS
<1>2. PICK d : d = a \o h
  OBVIOUS
<1>4. n \in Nat
  BY <1>1, LenProperties
<1>5. d \in Seq(S) /\ InARow(a, h, d)
  BY <1>2, TextsInARow
<1>6. r \in Seq(S) /\ InARow(d, b, r)
  BY <1>2, <1>5, TextsInARow
<1>7. Len(d) = 1 + n /\ \A m \in 1..(1 + n) : d[m] = IF m <= 1 THEN a[m] ELSE h[m - 1]
  BY <1>1, <1>5 DEF InARow
<1>8. Len(r) = n + 2 /\ \A m \in 1..(n + 2) : r[m] = IF m <= 1 + n THEN d[m] ELSE b[m - (1 + n)]
  <2>1. (1 + n) + 1 = n + 2
    BY <1>4
  <2> QED BY <1>6, <1>7, <2>1 DEF InARow
<1>9. r[1] = a[1] /\ r[n + 2] = b[1]
  <2>1. /\ 1 \in 1..(n + 2) /\ 1 <= 1 + n /\ 1 \in 1..(1 + n) /\ 1 <= 1
        /\ n + 2 \in 1..(n + 2) /\ ~(n + 2 <= 1 + n) /\ (n + 2) - (1 + n) = 1
    BY <1>4
  <2>2. r[1] = d[1] /\ d[1] = a[1] /\ r[n + 2] = b[(n + 2) - (1 + n)]
    BY <1>7, <1>8, <2>1
  <2> QED BY <2>1, <2>2
<1>10. ASSUME NEW m \in 1..n PROVE r[1 + m] = h[m]
  <2>1. /\ 1 + m \in 1..(n + 2) /\ 1 + m <= 1 + n /\ 1 + m \in 1..(1 + n) /\ ~(1 + m <= 1)
        /\ (1 + m) - 1 = m
    BY <1>4
  <2>2. r[1 + m] = d[1 + m] /\ d[1 + m] = h[(1 + m) - 1]
    BY <1>7, <1>8, <2>1
  <2> QED BY <2>1, <2>2
<1>11. Lies(h, r, 1)
  <2>1. 1 + n <= n + 2
    BY <1>4
  <2> QED BY <1>1, <1>8, <1>10, <2>1 DEF Lies
<1> QED BY <1>1, <1>6, <1>8, <1>9, <1>11 DEF Boxed

(* A text in brackets with a scope, and a port.                            *)
LEMMA InScope ==
  ASSUME NEW S, NEW h \in Seq(S), NEW a \in Seq(S), NEW b \in Seq(S), NEW z, NEW p,
         Len(a) = 1, a[1] = "[", Len(b) = 5, b[1] = "%", b[2] = z, b[3] = "]", b[4] = ":",
         b[5] = p, NEW r, r = a \o h \o b
  PROVE  r \in Seq(S) /\ Scoped(r, h, z, p)
<1>1. PICK n : n = Len(h)
  OBVIOUS
<1>2. PICK d : d = a \o h
  OBVIOUS
<1>4. n \in Nat
  BY <1>1, LenProperties
<1>5. d \in Seq(S) /\ InARow(a, h, d)
  BY <1>2, TextsInARow
<1>6. r \in Seq(S) /\ InARow(d, b, r)
  BY <1>2, <1>5, TextsInARow
<1>7. Len(d) = 1 + n /\ \A m \in 1..(1 + n) : d[m] = IF m <= 1 THEN a[m] ELSE h[m - 1]
  BY <1>1, <1>5 DEF InARow
<1>8. Len(r) = n + 6 /\ \A m \in 1..(n + 6) : r[m] = IF m <= 1 + n THEN d[m] ELSE b[m - (1 + n)]
  <2>1. (1 + n) + 5 = n + 6
    BY <1>4
  <2> QED BY <1>6, <1>7, <2>1 DEF InARow
<1>9. r[1] = a[1]
  <2>1. 1 \in 1..(n + 6) /\ 1 <= 1 + n /\ 1 \in 1..(1 + n) /\ 1 <= 1
    BY <1>4
  <2> QED BY <1>7, <1>8, <2>1
<1>10. \A c \in 1..5 : r[1 + n + c] = b[c]
  <2> SUFFICES ASSUME NEW c \in 1..5 PROVE r[1 + n + c] = b[c]
    OBVIOUS
  <2>1. 1 + n + c \in 1..(n + 6) /\ ~(1 + n + c <= 1 + n) /\ (1 + n + c) - (1 + n) = c
    BY <1>4
  <2> QED BY <1>8, <2>1
<1>11. /\ r[n + 2] = b[1] /\ r[n + 3] = b[2] /\ r[n + 4] = b[3] /\ r[n + 5] = b[4]
       /\ r[n + 6] = b[5]
  <2>1. /\ 1 + n + 1 = n + 2 /\ 1 + n + 2 = n + 3 /\ 1 + n + 3 = n + 4
        /\ 1 + n + 4 = n + 5 /\ 1 + n + 5 = n + 6
    BY <1>4
  <2>2. 1 \in 1..5 /\ 2 \in 1..5 /\ 3 \in 1..5 /\ 4 \in 1..5 /\ 5 \in 1..5
    OBVIOUS
  <2>3. /\ r[1 + n + 1] = b[1] /\ r[1 + n + 2] = b[2] /\ r[1 + n + 3] = b[3]
        /\ r[1 + n + 4] = b[4] /\ r[1 + n + 5] = b[5]
    BY <1>10, <2>2, Zenon
  <2> QED BY <2>1, <2>3, Zenon
<1>12. ASSUME NEW m \in 1..n PROVE r[1 + m] = h[m]
  <2>1. /\ 1 + m \in 1..(n + 6) /\ 1 + m <= 1 + n /\ 1 + m \in 1..(1 + n) /\ ~(1 + m <= 1)
        /\ (1 + m) - 1 = m
    BY <1>4
  <2>2. r[1 + m] = d[1 + m] /\ d[1 + m] = h[(1 + m) - 1]
    BY <1>7, <1>8, <2>1
  <2> QED BY <2>1, <2>2
<1>13. Lies(h, r, 1)
  <2>1. 1 + n <= n + 6
    BY <1>4
  <2> QED BY <1>1, <1>8, <1>12, <2>1 DEF Lies
<1> QED BY <1>1, <1>6, <1>8, <1>9, <1>11, <1>13 DEF Scoped

(* Texts that are the same host with the same port are the same.           *)
LEMMA PortedOnce ==
  ASSUME NEW S, NEW h \in Seq(S), NEW p, NEW v \in Seq(S), NEW w \in Seq(S),
         Ported(v, h, p), Ported(w, h, p)
  PROVE  v = w
<1>1. PICK n : n = Len(h)
  OBVIOUS
<1>2. n \in Nat
  BY <1>1, LenProperties
<1>3. /\ Len(v) = n + 2 /\ v[n + 1] = ":" /\ v[n + 2] = p /\ \A m \in 1..n : v[0 + m] = h[m]
      /\ Len(w) = n + 2 /\ w[n + 1] = ":" /\ w[n + 2] = p /\ \A m \in 1..n : w[0 + m] = h[m]
  BY <1>1 DEF Ported, Lies
<1>4. ASSUME NEW m \in 1..(n + 2) PROVE v[m] = w[m]
  <2>1. m \in 1..n \/ m = n + 1 \/ m = n + 2
    BY <1>2
  <2>2. m \in 1..n => 0 + m = m
    BY <1>2
  <2> QED BY <1>3, <2>1, <2>2
<1>5. Len(v) = Len(w) /\ \A m \in 1..Len(v) : v[m] = w[m]
  BY <1>3, <1>4
<1> QED BY <1>5, SeqEqual

(* The same for texts in brackets.                                         *)
LEMMA BoxedOnce ==
  ASSUME NEW S, NEW h \in Seq(S), NEW v \in Seq(S), NEW w \in Seq(S),
         Boxed(v, h), Boxed(w, h)
  PROVE  v = w
<1>1. PICK n : n = Len(h)
  OBVIOUS
<1>2. n \in Nat
  BY <1>1, LenProperties
<1>3. /\ Len(v) = n + 2 /\ v[1] = "[" /\ v[n + 2] = "]" /\ \A m \in 1..n : v[1 + m] = h[m]
      /\ Len(w) = n + 2 /\ w[1] = "[" /\ w[n + 2] = "]" /\ \A m \in 1..n : w[1 + m] = h[m]
  BY <1>1 DEF Boxed, Lies
<1>4. ASSUME NEW m \in 1..(n + 2) PROVE v[m] = w[m]
  <2>1. m - 1 \in 1..n \/ m = 1 \/ m = n + 2
    BY <1>2
  <2>2. m - 1 \in 1..n => 1 + (m - 1) = m
    BY <1>2
  <2>3. m - 1 \in 1..n => v[m] = h[m - 1] /\ w[m] = h[m - 1]
    BY <1>3, <2>2
  <2> QED BY <1>3, <2>1, <2>3
<1>5. Len(v) = Len(w) /\ \A m \in 1..Len(v) : v[m] = w[m]
  BY <1>3, <1>4
<1> QED BY <1>5, SeqEqual

(* The same for texts in brackets with a scope and a port.                 *)
LEMMA ScopedOnce ==
  ASSUME NEW S, NEW h \in Seq(S), NEW z, NEW p, NEW v \in Seq(S), NEW w \in Seq(S),
         Scoped(v, h, z, p), Scoped(w, h, z, p)
  PROVE  v = w
<1>1. PICK n : n = Len(h)
  OBVIOUS
<1>2. n \in Nat
  BY <1>1, LenProperties
<1>3. /\ Len(v) = n + 6 /\ Len(w) = n + 6 /\ v[1] = w[1] /\ v[n + 2] = w[n + 2]
      /\ v[n + 3] = w[n + 3] /\ v[n + 4] = w[n + 4] /\ v[n + 5] = w[n + 5]
      /\ v[n + 6] = w[n + 6]
  BY <1>1 DEF Scoped
<1>4. \A m \in 1..n : v[1 + m] = h[m] /\ w[1 + m] = h[m]
  BY <1>1 DEF Scoped, Lies
<1>5. ASSUME NEW m \in 1..(n + 6) PROVE v[m] = w[m]
  <2>1. \/ m - 1 \in 1..n \/ m = 1 \/ m = n + 2 \/ m = n + 3 \/ m = n + 4
        \/ m = n + 5 \/ m = n + 6
    BY <1>2
  <2>2. m - 1 \in 1..n => 1 + (m - 1) = m
    BY <1>2
  <2>3. m - 1 \in 1..n => v[m] = h[m - 1] /\ w[m] = h[m - 1]
    BY <1>4, <2>2
  <2> QED BY <1>3, <2>1, <2>3
<1>6. Len(v) = Len(w) /\ \A m \in 1..Len(v) : v[m] = w[m]
  BY <1>3, <1>5
<1> QED BY <1>6, SeqEqual

(* With brackets and a port, a text is the one in brackets with a port.    *)
LEMMA BoxThenPort ==
  ASSUME NEW S, NEW h \in Seq(S), NEW p, NEW v \in Seq(S), NEW b \in Seq(S), Boxed(b, h)
  PROVE  Ported(v, b, p) <=> BoxedPorted(v, h, p)
<1>1. PICK n : n = Len(h)
  OBVIOUS
<1>2. n \in Nat
  BY <1>1, LenProperties
<1>3. Len(b) = n + 2 /\ b[1] = "[" /\ b[n + 2] = "]" /\ \A m \in 1..n : b[1 + m] = h[m]
  BY <1>1 DEF Boxed, Lies
<1>4. /\ (n + 2) + 2 = n + 4 /\ (n + 2) + 1 = n + 3 /\ 0 + (n + 2) <= n + 4 /\ 1 + n <= n + 4
      /\ 1 \in 1..(n + 2) /\ n + 2 \in 1..(n + 2) /\ 0 + 1 = 1 /\ 0 + (n + 2) = n + 2
  BY <1>2
<1>5. Ported(v, b, p) <=> /\ Len(v) = n + 4 /\ v[n + 3] = ":" /\ v[n + 4] = p
                          /\ \A m \in 1..(n + 2) : v[0 + m] = b[m]
  BY <1>3, <1>4 DEF Ported, Lies
<1>6. BoxedPorted(v, h, p) <=> /\ Len(v) = n + 4 /\ v[n + 3] = ":" /\ v[n + 4] = p
                               /\ v[1] = "[" /\ v[n + 2] = "]" /\ \A m \in 1..n : v[1 + m] = h[m]
  BY <1>1, <1>4 DEF BoxedPorted, Lies
<1>7. ASSUME \A m \in 1..(n + 2) : v[0 + m] = b[m]
      PROVE  v[1] = "[" /\ v[n + 2] = "]" /\ \A m \in 1..n : v[1 + m] = h[m]
  <2>1. v[1] = b[1] /\ v[n + 2] = b[n + 2]
    BY <1>4, <1>7
  <2>2. ASSUME NEW m \in 1..n PROVE v[1 + m] = h[m]
    <3>1. 1 + m \in 1..(n + 2) /\ 0 + (1 + m) = 1 + m
      BY <1>2
    <3>2. v[1 + m] = b[1 + m]
      BY <1>7, <3>1
    <3> QED BY <1>3, <3>2
  <2> QED BY <1>3, <2>1, <2>2
<1>8. ASSUME v[1] = "[", v[n + 2] = "]", \A m \in 1..n : v[1 + m] = h[m],
             NEW m \in 1..(n + 2)
      PROVE  v[0 + m] = b[m]
  <2>1. (m - 1 \in 1..n \/ m = 1 \/ m = n + 2) /\ 0 + m = m
    BY <1>2
  <2>2. m - 1 \in 1..n => 1 + (m - 1) = m
    BY <1>2
  <2>3. m - 1 \in 1..n => v[m] = h[m - 1] /\ b[m] = h[m - 1]
    BY <1>3, <1>8, <2>2
  <2> QED BY <1>3, <1>8, <2>1, <2>3
<1>9. ASSUME v[1] = "[", v[n + 2] = "]", \A m \in 1..n : v[1 + m] = h[m]
      PROVE  \A m \in 1..(n + 2) : v[0 + m] = b[m]
  BY <1>8, <1>9
<1> QED BY <1>5, <1>6, <1>7, <1>9, Zenon

(* A value spells a host and a port in one of five ways.                   *)
LEMMA SpelledIs ==
  ASSUME NEW S, {"[", "]", ":", "%"} \subseteq S, Numbers \subseteq S, NEW p \in S,
         NEW h \in Seq(S), NEW v \in Seq(S)
  PROVE  Spelled(v, h, p) <=> \/ Ported(v, h, p) \/ BoxedPorted(v, h, p)
                              \/ p = DEFAULT_PORT /\ (v = h \/ Boxed(v, h))
                              \/ IsIpv6(h) /\ \E z \in Numbers : Scoped(v, h, z, p)
<1>1. PICK b : b = <<"[">> \o h \o <<"]">>
  OBVIOUS
<1>2. b \in Seq(S) /\ Boxed(b, h)
  <2>1. PICK l, c : l = <<"[">> /\ c = <<"]">>
    OBVIOUS
  <2>2. /\ l \in Seq(S) /\ Len(l) = 1 /\ l[1] = "[" /\ c \in Seq(S) /\ Len(c) = 1 /\ c[1] = "]"
        /\ b = l \o h \o c
    BY <1>1, <2>1
  <2> QED BY <2>2, InBrackets
<1>3. ASSUME NEW g \in Seq(S) PROVE v = g \o <<":", p>> <=> Ported(v, g, p)
  <2>1. PICK w : w = g \o <<":", p>>
    OBVIOUS
  <2>2. PICK q : q = <<":", p>>
    OBVIOUS
  <2>3. w \in Seq(S) /\ Ported(w, g, p)
    <3>1. q \in Seq(S) /\ Len(q) = 2 /\ q[1] = ":" /\ q[2] = p /\ w = g \o q
      BY <2>1, <2>2
    <3>2. w \in Seq(S) /\ Ported(w, g, q[2])
      BY <3>1, TwoBehind
    <3> QED BY <3>1, <3>2
  <2>4. Ported(v, g, p) => v = w
    BY <2>3, PortedOnce
  <2> QED BY <2>1, <2>3, <2>4
<1>4. v = b <=> Boxed(v, h)
  BY <1>2, BoxedOnce
<1>5. v = b \o <<":", p>> <=> BoxedPorted(v, h, p)
  <2>1. v = b \o <<":", p>> <=> Ported(v, b, p)
    BY <1>2, <1>3
  <2>2. Ported(v, b, p) <=> BoxedPorted(v, h, p)
    BY <1>2, BoxThenPort
  <2> QED BY <2>1, <2>2
<1>6. v = h \o <<":", p>> <=> Ported(v, h, p)
  BY <1>3
<1>7. ASSUME NEW z \in Numbers
      PROVE  v = WithScope(h, z, p) <=> Scoped(v, h, z, p)
  <2>1. PICK l, c : l = <<"[">> /\ c = <<"%", z, "]", ":", p>>
    OBVIOUS
  <2>2. /\ l \in Seq(S) /\ Len(l) = 1 /\ l[1] = "[" /\ c \in Seq(S) /\ Len(c) = 5
        /\ c[1] = "%" /\ c[2] = z /\ c[3] = "]" /\ c[4] = ":" /\ c[5] = p
    BY <2>1
  <2>3. PICK w : w = l \o h \o c
    OBVIOUS
  <2>4. w \in Seq(S) /\ Scoped(w, h, z, p)
    BY <2>2, <2>3, InScope
  <2>5. Scoped(v, h, z, p) => v = w
    BY <2>4, ScopedOnce
  <2>6. w = WithScope(h, z, p)
    BY <2>1, <2>3, Zenon DEF WithScope
  <2> QED BY <2>4, <2>5, <2>6, Zenon
<1>8. Spelled(v, h, p) <=>
        \/ v = h \o <<":", p>> \/ v = b \o <<":", p>>
        \/ p = DEFAULT_PORT /\ (v = h \/ v = b)
        \/ IsIpv6(h) /\ \E z \in Numbers : v = WithScope(h, z, p)
  BY <1>1, Zenon DEF Spelled
<1>9. (\E z \in Numbers : v = WithScope(h, z, p))
        <=> \E z \in Numbers : Scoped(v, h, z, p)
  BY <1>7, Zenon
<1> QED BY <1>4, <1>5, <1>6, <1>8, <1>9, Zenon

-----------------------------------------------------------------------------
(* The lexemes of an IPv6 literal.                                         *)
Digits == {"0", "443", ":", "ipv4"}

(* Groups are made of them.                                                *)
LEMMA GroupsAre ==
  ASSUME NEW s, IsGroups(s), NEW k \in 1..Len(s)
  PROVE  s[k] \in Digits
<1>1. CASE s = <<>>
  BY <1>1
<1>2. CASE s # <<>>
  <2>1. s[k] = ":" \/ s[k] \in u16 \/ s[k] = "ipv4"
    BY <1>2 DEF IsGroups
  <2> QED BY <2>1 DEF u16, Digits
<1> QED BY <1>1, <1>2

(* What any IPv6 literal looks like: long, or with two colons in a row.    *)
LEMMA Ipv6Is ==
  ASSUME NEW S, NEW s \in Seq(S), IsIpv6(s)
  PROVE  /\ Len(s) >= 13 \/ \E k \in 1..(Len(s) - 1) : s[k] = ":" /\ s[k + 1] = ":"
         /\ \A k \in 1..Len(s) : s[k] \in Digits
<1>1. PICK n : n = Len(s)
  OBVIOUS
<1>2. n \in Nat
  BY <1>1, LenProperties
<1>3. CASE IsGroups(s) /\ Size(s) = 8
  <2>1. \A k \in 1..n : s[k] \in Digits
    BY <1>1, <1>3, GroupsAre
  <2>2. (n + 1) \div 2 = 8 \/ (n + 1) \div 2 + 1 = 8
    BY <1>1, <1>2, <1>3 DEF Size
  <2>3. n >= 13
    BY <1>2, <2>2
  <2> QED BY <1>1, <2>1, <2>3
<1>4. CASE \E k \in 1..(Len(s) - 1) : IsGap(s, k)
  <2>1. PICK g \in 1..(n - 1) : IsGap(s, g)
    BY <1>1, <1>4
  <2>2. PICK a, b : a = Before(s, g) /\ b = Behind(s, g)
    OBVIOUS
  <2>3. s[g] = ":" /\ s[g + 1] = ":" /\ IsGroups(a) /\ IsGroups(b)
    BY <2>1, <2>2 DEF IsGap
  <2>4. /\ g \in Nat /\ g - 1 \in Nat /\ 1 <= 1 /\ 1 <= (g - 1) + 1 /\ g - 1 <= n
        /\ g + 2 \in Nat /\ 1 <= g + 2 /\ g + 2 <= n + 1
    BY <1>2
  <2>5. /\ Len(a) = (g - 1) - 1 + 1 /\ \A m \in 1..((g - 1) - 1 + 1) : a[m] = s[1 + m - 1]
    BY <1>1, <2>2, <2>4, Cut DEF Before
  <2>6. Len(b) = n - (g + 2) + 1 /\ \A m \in 1..(n - (g + 2) + 1) : b[m] = s[g + 2 + m - 1]
    BY <1>1, <1>2, <2>2, <2>4, Cut DEF Behind
  <2>7. ASSUME NEW k \in 1..n PROVE s[k] \in Digits
    <3>1. k < g \/ k = g \/ k = g + 1 \/ k > g + 1
      OBVIOUS
    <3>2. CASE k < g
      <4>1. k \in 1..((g - 1) - 1 + 1) /\ 1 + k - 1 = k
        BY <2>4, <3>2
      <4>2. k \in 1..Len(a) /\ a[k] = s[k]
        BY <2>5, <4>1
      <4> QED BY <2>3, <4>2, GroupsAre
    <3>3. CASE k > g + 1
      <4>1. PICK m : m = k - (g + 1)
        OBVIOUS
      <4>2. m \in 1..(n - (g + 2) + 1) /\ g + 2 + m - 1 = k
        BY <1>2, <2>4, <3>3, <4>1
      <4>3. m \in 1..Len(b) /\ b[m] = s[k]
        BY <2>6, <4>2
      <4> QED BY <2>3, <4>3, GroupsAre
    <3>4. ":" \in Digits
      BY DEF Digits
    <3> QED BY <2>3, <3>1, <3>2, <3>3, <3>4
  <2> QED BY <1>1, <2>1, <2>3, <2>7
<1> QED BY <1>3, <1>4 DEF IsIpv6

(* A host is not empty and has neither brackets nor a scope; an IPv6       *)
(* literal is not one lexeme.                                              *)
LEMMA HostIs ==
  ASSUME NEW S, NEW h \in Seq(S), IsServerName(h)
  PROVE  /\ Len(h) >= 1 /\ (IsIpv6(h) => Len(h) >= 2)
         /\ \A k \in 1..Len(h) : h[k] # "[" /\ h[k] # "]" /\ h[k] # "%"
<1>1. PICK n : n = Len(h)
  OBVIOUS
<1>2. n \in Nat
  BY <1>1, LenProperties
<1>3. CASE IsIpv6(h)
  <2>1. /\ n >= 13 \/ \E k \in 1..(n - 1) : h[k] = ":" /\ h[k + 1] = ":"
        /\ \A k \in 1..n : h[k] \in Digits
    BY <1>1, <1>3, Ipv6Is
  <2>2. n >= 2
    BY <1>2, <2>1
  <2>3. "[" \notin Digits /\ "]" \notin Digits /\ "%" \notin Digits
    BY DEF Digits
  <2>4. n >= 1
    BY <1>2, <2>2
  <2> QED BY <1>1, <2>1, <2>2, <2>3, <2>4
<1>4. CASE ~IsIpv6(h) /\ h = <<"name">>
  BY <1>4
<1>5. CASE ~IsIpv6(h) /\ h = <<"ipv4">>
  BY <1>5
<1> QED BY <1>3, <1>4, <1>5 DEF IsServerName, IsIpAddr

-----------------------------------------------------------------------------
(* The lexemes and the default port, which no value contains.              *)
Texts == Seq(Lexemes \cup {DEFAULT_PORT})

Shaped(v, h, p) ==
  \/ Ported(v, h, p) \/ BoxedPorted(v, h, p)
  \/ p = DEFAULT_PORT /\ (v = h \/ Boxed(v, h))
  \/ IsIpv6(h) /\ \E z \in Numbers : Scoped(v, h, z, p)

(* A result is one of the endpoints the value spells.                      *)
Fits(v, r) ==
  \E host \in Parts(v) :
    IsServerName(host) /\ Spelled(v, host, r.port) /\ r = Parsed(host, r.port)

(* Spellings have one of the five shapes.                                  *)
LEMMA SpelledShaped ==
  ASSUME NEW v \in Texts, NEW h \in Texts, NEW p \in Lexemes \cup {DEFAULT_PORT}
  PROVE  Spelled(v, h, p) <=> Shaped(v, h, p)
<1>1. PICK S : S = Lexemes \cup {DEFAULT_PORT}
  OBVIOUS
<1>2. /\ {"[", "]", ":", "%"} \subseteq S /\ Numbers \subseteq S /\ p \in S
      /\ v \in Seq(S) /\ h \in Seq(S)
  BY <1>1 DEF Texts, Lexemes, Words
<1> QED BY <1>2, SpelledIs DEF Shaped

(* A part of the value, read as a host, in one of the shapes.              *)
LEMMA PartFits ==
  ASSUME NEW v \in Texts, NEW i \in 1..Len(v), NEW j \in 1..Len(v), NEW h, h = SubSeq(v, i, j),
         h \in Texts, IsServerName(h), NEW p \in Lexemes \cup {DEFAULT_PORT}, Shaped(v, h, p),
         NEW r, r = Parsed(h, p)
  PROVE  Fits(v, r)
<1>1. h \in Parts(v)
  BY DEF Parts
<1>2. r.port = p
  BY DEF Parsed
<1>3. Spelled(v, h, p)
  BY SpelledShaped
<1> QED BY <1>1, <1>2, <1>3 DEF Fits

(* What named accepts fits.                                                *)
LEMMA NamedFits ==
  ASSUME NEW v \in Texts, NEW i \in 1..Len(v), NEW j \in 1..Len(v), NEW h, h = SubSeq(v, i, j),
         h \in Texts, NEW p \in Lexemes \cup {DEFAULT_PORT}, Shaped(v, h, p),
         NEW r, r = named(h, p), r.ok
  PROVE  Fits(v, r)
<1>1. IsServerName(h) /\ r = Parsed(h, p)
  <2>1. ~Rejected.ok
    BY DEF Rejected
  <2> QED BY <2>1 DEF named
<1> QED BY <1>1, PartFits

(* The value itself.                                                       *)
LEMMA Whole ==
  ASSUME NEW v \in Texts, v # <<>>
  PROVE  1 \in 1..Len(v) /\ Len(v) \in 1..Len(v) /\ v = SubSeq(v, 1, Len(v))
<1>1. Len(v) \in Nat /\ Len(v) # 0
  BY EmptySeq, LenProperties DEF Texts
<1>2. SubSeq(v, 1, Len(v)) = v
  BY SubSeqFull DEF Texts
<1> QED BY <1>1, <1>2

(* The whole value is shaped as itself, with the default port.             *)
LEMMA WholeShaped ==
  ASSUME NEW v PROVE Shaped(v, v, DEFAULT_PORT)
BY DEF Shaped

(* A part of the value before a colon and a last lexeme.                   *)
LEMMA BeforePort ==
  ASSUME NEW v \in Texts, NEW n, n = Len(v), n >= 2, v[n - 1] = ":", NEW h,
         h = SubSeq(v, 1, n - 2)
  PROVE  h \in Texts /\ Len(h) = n - 2 /\ Shaped(v, h, v[n])
<1>1. PICK S : S = Lexemes \cup {DEFAULT_PORT}
  OBVIOUS
<1>2. v \in Seq(S)
  BY <1>1 DEF Texts
<1>3. n \in Nat
  BY <1>2, LenProperties
<1>4. /\ 0 \in Nat /\ n - 2 \in Nat /\ 0 <= n - 2 /\ n - 2 <= n /\ 0 + 1 = 1 /\ (n - 2) - 0 = n - 2
      /\ (n - 2) + 2 = n /\ (n - 2) + 1 = n - 1
  BY <1>3
<1>5. h \in Seq(S) /\ Len(h) = n - 2 /\ Lies(h, v, 0)
  BY <1>2, <1>4, CutLies
<1>6. Ported(v, h, v[n])
  BY <1>4, <1>5 DEF Ported
<1> QED BY <1>1, <1>5, <1>6 DEF Texts, Shaped

(* A part of the value in brackets, without or with a port behind it.      *)
LEMMA InBox ==
  ASSUME NEW v \in Texts, NEW n, n = Len(v), NEW e \in 2..n, v[1] = "[", v[e] = "]",
         NEW h, h = SubSeq(v, 2, e - 1)
  PROVE  /\ h \in Texts /\ Len(h) = e - 2
         /\ e = n => Shaped(v, h, DEFAULT_PORT)
         /\ e + 2 = n /\ v[e + 1] = ":" => Shaped(v, h, v[n])
<1>1. PICK S : S = Lexemes \cup {DEFAULT_PORT}
  OBVIOUS
<1>2. v \in Seq(S)
  BY <1>1 DEF Texts
<1>3. n \in Nat
  BY <1>2, LenProperties
<1>4. /\ 1 \in Nat /\ e - 1 \in Nat /\ 1 <= e - 1 /\ e - 1 <= n /\ 1 + 1 = 2 /\ (e - 1) - 1 = e - 2
      /\ (e - 2) + 2 = e /\ (e - 2) + 3 = e + 1 /\ (e - 2) + 4 = e + 2
  BY <1>3
<1>5. h \in Seq(S) /\ Len(h) = e - 2 /\ Lies(h, v, 1)
  BY <1>2, <1>4, CutLies
<1>6. e = n => Boxed(v, h)
  BY <1>4, <1>5 DEF Boxed
<1>7. e + 2 = n /\ v[e + 1] = ":" => BoxedPorted(v, h, v[n])
  BY <1>4, <1>5 DEF BoxedPorted
<1> QED BY <1>1, <1>5, <1>6, <1>7 DEF Texts, Shaped

-----------------------------------------------------------------------------
(* The first and the last position of a lexeme.                            *)
LEMMA PositionsAre ==
  ASSUME NEW v \in Texts, NEW x, Positions(v, x) # {}
  PROVE  /\ Min(Positions(v, x)) \in 1..Len(v) /\ v[Min(Positions(v, x))] = x
         /\ \A k \in 1..Len(v) : v[k] = x => Min(Positions(v, x)) <= k
         /\ Max(Positions(v, x)) \in 1..Len(v) /\ v[Max(Positions(v, x))] = x
         /\ \A k \in 1..Len(v) : v[k] = x => k <= Max(Positions(v, x))
<1>1. PICK n, T : n = Len(v) /\ T = Positions(v, x)
  OBVIOUS
<1>2. n \in Nat
  BY <1>1, LenProperties DEF Texts
<1>3. T \subseteq 1..n /\ T # {} /\ (\A k \in T : v[k] = x) /\ \A k \in 1..n : v[k] = x => k \in T
  BY <1>1 DEF Positions
<1>4. T \subseteq Nat
  BY <1>2, <1>3
<1>5. Min(T) \in T /\ \A y \in T : Min(T) <= y
  BY <1>3, <1>4, MinIs
<1>6. Max(T) \in T /\ \A y \in T : y <= Max(T)
  BY <1>2, <1>3, MaxIs
<1> QED BY <1>1, <1>3, <1>5, <1>6

(* What a port cut off the end of a value says.                            *)
LEMMA PortAtEnd ==
  ASSUME NEW v \in Texts, NEW n, n = Len(v), NEW c \in 1..n
  PROVE  /\ SubSeq(v, c + 1, n) = <<>> <=> c = n
         /\ c < n => SubSeq(v, c + 1, n)[1] = v[c + 1]
         /\ parse_port(SubSeq(v, c + 1, n)) <=> c + 1 = n /\ v[n] \in u16 \ {"0"}
<1>1. PICK w : w = SubSeq(v, c + 1, n)
  OBVIOUS
<1>2. n \in Nat
  BY LenProperties DEF Texts
<1>3. c + 1 \in Nat /\ 1 <= c + 1 /\ c + 1 <= n + 1 /\ n - (c + 1) + 1 = n - c
  BY <1>2
<1>4. /\ w \in Texts /\ Len(w) = n - (c + 1) + 1
      /\ \A m \in 1..(n - (c + 1) + 1) : w[m] = v[c + 1 + m - 1]
  BY <1>1, <1>2, <1>3, Cut DEF Texts
<1>5. Len(w) = n - c
  BY <1>3, <1>4
<1>6. w = <<>> <=> Len(w) = 0
  BY <1>4, EmptySeq DEF Texts
<1>7. w = <<>> <=> c = n
  BY <1>2, <1>5, <1>6
<1>8. c < n => w[1] = v[c + 1]
  <2>1. c < n => 1 \in 1..(n - (c + 1) + 1) /\ c + 1 + 1 - 1 = c + 1
    BY <1>2
  <2> QED BY <1>4, <2>1
<1>9. Len(w) = 1 <=> c + 1 = n
  BY <1>2, <1>5
<1>10. c + 1 = n => c < n
  BY <1>2
<1>11. parse_port(w) <=> c + 1 = n /\ v[n] \in u16 \ {"0"}
  BY <1>8, <1>9, <1>10 DEF parse_port
<1> QED BY <1>1, <1>7, <1>8, <1>11

(* The lexemes of a value.                                                 *)
LEMMA LexemeOf ==
  ASSUME NEW v \in Texts, NEW k \in 1..Len(v)
  PROVE  v[k] \in Lexemes \cup {DEFAULT_PORT}
BY ElementOfSeq DEF Texts

(* What the socket address branch accepts fits.                            *)
LEMMA SocketAddrFits ==
  ASSUME NEW v \in Texts, IsSocketAddr(v), NEW r, r = Parsed(ip(v), v[Len(v)])
  PROVE  Fits(v, r)
<1>1. PICK n, h : n = Len(v) /\ h = ip(v)
  OBVIOUS
<1>2. n \in Nat /\ n > 2
  BY <1>1, LenProperties DEF Texts, IsSocketAddr
<1>3. v[n - 1] = ":"
  BY <1>1 DEF IsSocketAddr
<1>4. n \in 1..n
  BY <1>2
<1>5. v[n] \in Lexemes \cup {DEFAULT_PORT}
  BY <1>1, <1>4, LexemeOf
<1>6. r = Parsed(h, v[n])
  BY <1>1
<1>7. CASE v[1] = "[" /\ ~HasScope(v)
  <2>1. v[n - 2] = "]" /\ IsIpv6(h) /\ h = SubSeq(v, 2, n - 3)
    BY <1>1, <1>7 DEF IsSocketAddr, ip
  <2>2. n - 2 # 1
    BY <1>7, <2>1
  <2>3. PICK e : e = n - 2
    OBVIOUS
  <2>4. e \in 2..n /\ e - 1 = n - 3 /\ e + 2 = n /\ e + 1 = n - 1 /\ e - 1 \in 1..n /\ 2 \in 1..n
    BY <1>2, <2>2, <2>3
  <2>5. h = SubSeq(v, 2, e - 1) /\ v[e] = "]" /\ v[e + 1] = ":"
    BY <1>3, <2>1, <2>3, <2>4
  <2>6. h \in Texts /\ Shaped(v, h, v[n])
    BY <1>1, <1>7, <2>4, <2>5, InBox
  <2>7. IsServerName(h)
    BY <2>1 DEF IsServerName, IsIpAddr
  <2> QED BY <1>1, <1>5, <1>6, <2>4, <2>5, <2>6, <2>7, PartFits
<1>8. CASE v[1] # "["
  <2>1. h = <<"ipv4">> /\ h = SubSeq(v, 1, n - 2)
    BY <1>1, <1>8 DEF IsSocketAddr, ip
  <2>2. h \in Texts /\ Shaped(v, h, v[n])
    <3>1. n >= 2
      BY <1>2
    <3> QED BY <1>1, <1>3, <2>1, <3>1, BeforePort
  <2>3. IsServerName(h)
    BY <2>1 DEF IsServerName, IsIpAddr
  <2>4. 1 \in 1..n /\ n - 2 \in 1..n
    BY <1>2
  <2> QED BY <1>1, <1>5, <1>6, <2>1, <2>2, <2>3, <2>4, PartFits
<1>9. CASE v[1] = "[" /\ HasScope(v)
  <2>1. /\ v[n - 2] = "]" /\ IsIpv6(h) /\ h = SubSeq(v, 2, n - 5)
        /\ n > 6 /\ v[n - 4] = "%" /\ v[n - 3] \in Numbers
    BY <1>1, <1>9 DEF IsSocketAddr, ip, HasScope
  <2>2. PICK S : S = Lexemes \cup {DEFAULT_PORT}
    OBVIOUS
  <2>3. v \in Seq(S)
    BY <2>2 DEF Texts
  <2>4. /\ 1 \in Nat /\ n - 5 \in Nat /\ 1 <= n - 5 /\ n - 5 <= n /\ 1 + 1 = 2
        /\ (n - 5) - 1 = n - 6 /\ (n - 6) + 6 = n /\ (n - 6) + 2 = n - 4
        /\ (n - 6) + 3 = n - 3 /\ (n - 6) + 4 = n - 2 /\ (n - 6) + 5 = n - 1
        /\ 2 \in 1..n /\ n - 5 \in 1..n
    BY <1>2, <2>1
  <2>5. h \in Seq(S) /\ Len(h) = n - 6 /\ Lies(h, v, 1)
    <3>1. PICK e \in Nat : e = n - 5
      BY <2>4
    <3>2. 1 \in Nat /\ 1 <= e /\ e <= Len(v) /\ h = SubSeq(v, 1 + 1, e) /\ e - 1 = n - 6
      BY <1>1, <2>1, <2>4, <3>1
    <3>3. h \in Seq(S) /\ Len(h) = e - 1 /\ Lies(h, v, 1)
      BY <2>3, <3>2, CutLies
    <3> QED BY <3>2, <3>3
  <2>6. Scoped(v, h, v[n - 3], v[n])
    BY <1>1, <1>3, <1>9, <2>1, <2>4, <2>5 DEF Scoped
  <2>7. h \in Texts /\ Shaped(v, h, v[n])
    BY <2>1, <2>2, <2>5, <2>6 DEF Texts, Shaped
  <2>8. IsServerName(h)
    BY <2>1 DEF IsServerName, IsIpAddr
  <2> QED BY <1>1, <1>5, <1>6, <2>1, <2>4, <2>7, <2>8, PartFits
<1> QED BY <1>7, <1>8, <1>9

(* What the bracketed branch accepts fits.                                 *)
LEMMA BracketedFits ==
  ASSUME NEW v \in Texts, v # <<>>, v[1] = "[", NEW r, r = bracketed(v), r.ok
  PROVE  Fits(v, r)
<1>1. ~Rejected.ok
  BY DEF Rejected
<1>2. Positions(v, "]") # {}
  BY <1>1 DEF bracketed
<1>3. PICK n, e : n = Len(v) /\ e = Min(Positions(v, "]"))
  OBVIOUS
<1>4. n \in Nat
  BY <1>3, LenProperties DEF Texts
<1>5. e \in 1..n /\ v[e] = "]"
  BY <1>2, <1>3, PositionsAre
<1>6. e # 1
  BY <1>5
<1>7. e \in 2..n /\ 2 \in 1..n /\ e - 1 \in 1..n /\ e + 1 + 1 = e + 2
  BY <1>4, <1>5, <1>6
<1>8. PICK h : h = SubSeq(v, 2, e - 1)
  OBVIOUS
<1>9. /\ h \in Texts /\ Len(h) = e - 2
      /\ e = n => Shaped(v, h, DEFAULT_PORT)
      /\ e + 2 = n /\ v[e + 1] = ":" => Shaped(v, h, v[n])
  BY <1>3, <1>5, <1>7, <1>8, InBox
<1>10. CASE e = n
  <2>1. SubSeq(v, e + 1, n) = <<>>
    BY <1>3, <1>5, <1>10, PortAtEnd
  <2>2. r = named(h, DEFAULT_PORT)
    BY <1>2, <1>3, <1>8, <2>1 DEF bracketed
  <2> QED BY <1>3, <1>7, <1>8, <1>9, <1>10, <2>2, NamedFits
<1>11. CASE e # n
  <2>1. SubSeq(v, e + 1, n) # <<>> /\ SubSeq(v, e + 1, n)[1] = v[e + 1]
    <3>1. e < n
      BY <1>4, <1>5, <1>11
    <3> QED BY <1>3, <1>5, <1>11, <3>1, PortAtEnd
  <2>2. v[e + 1] = ":" /\ parse_port(SubSeq(v, e + 2, n)) /\ r = named(h, v[n])
    BY <1>1, <1>2, <1>3, <1>8, <2>1 DEF bracketed
  <2>3. e + 2 = n
    <3>1. e + 1 \in 1..n
      BY <1>4, <1>5, <1>11
    <3>2. parse_port(SubSeq(v, (e + 1) + 1, n))
      BY <1>7, <2>2
    <3>3. (e + 1) + 1 = n
      BY <1>3, <3>1, <3>2, PortAtEnd
    <3> QED BY <1>7, <3>3
  <2>4. n \in 1..n
    BY <1>4, <1>5
  <2>5. v[n] \in Lexemes \cup {DEFAULT_PORT}
    BY <1>3, <2>4, LexemeOf
  <2> QED BY <1>3, <1>7, <1>8, <1>9, <2>2, <2>3, <2>5, NamedFits
<1> QED BY <1>10, <1>11

(* What the colon branch accepts fits.                                     *)
LEMMA SplitFits ==
  ASSUME NEW v \in Texts, Positions(v, ":") # {}, NEW r, r = split(v), r.ok
  PROVE  Fits(v, r)
<1>1. ~Rejected.ok
  BY DEF Rejected
<1>2. PICK n, c : n = Len(v) /\ c = Max(Positions(v, ":"))
  OBVIOUS
<1>3. n \in Nat
  BY <1>2, LenProperties DEF Texts
<1>4. c \in 1..n /\ v[c] = ":"
  BY <1>2, PositionsAre
<1>5. PICK h, p : h = SubSeq(v, 1, c - 1) /\ p = SubSeq(v, c + 1, n)
  OBVIOUS
<1>6. h # <<>> /\ parse_port(p) /\ r = named(h, p[1])
  BY <1>1, <1>2, <1>5 DEF split
<1>7. c + 1 = n
  BY <1>2, <1>4, <1>5, <1>6, PortAtEnd
<1>8. p[1] = v[n]
  <2>1. c < n
    BY <1>3, <1>4, <1>7
  <2>2. p[1] = v[c + 1]
    BY <1>2, <1>4, <1>5, <2>1, PortAtEnd
  <2> QED BY <1>7, <2>2
<1>9. n >= 2 /\ n - 1 = c /\ n - 2 = c - 1
  BY <1>3, <1>4, <1>7
<1>10. h \in Texts /\ Len(h) = n - 2 /\ Shaped(v, h, v[n])
  BY <1>2, <1>4, <1>5, <1>9, BeforePort
<1>11. n - 2 # 0
  BY <1>6, <1>10, EmptySeq DEF Texts
<1>12. 1 \in 1..n /\ c - 1 \in 1..n /\ n \in 1..n
  BY <1>3, <1>9, <1>11
<1>13. v[n] \in Lexemes \cup {DEFAULT_PORT}
  BY <1>2, <1>12, LexemeOf
<1>14. r = named(h, v[n])
  BY <1>6, <1>8
<1> QED BY <1>2, <1>5, <1>10, <1>12, <1>13, <1>14, NamedFits

(* What is parsed fits.                                                    *)
LEMMA ParsedFits ==
  ASSUME NEW v \in Texts, NEW r, r = parse(v), r.ok
  PROVE  Fits(v, r)
<1>1. v # <<>>
  BY DEF parse, Rejected
<1>2. PICK n : n = Len(v)
  OBVIOUS
<1>3. 1 \in 1..n /\ n \in 1..n /\ v = SubSeq(v, 1, n)
  BY <1>1, <1>2, Whole
<1>4. Shaped(v, v, DEFAULT_PORT)
  BY WholeShaped
<1>5. CASE IsSocketAddr(v)
  BY <1>1, <1>5, SocketAddrFits DEF parse
<1>6. CASE ~IsSocketAddr(v) /\ IsIpAddr(v)
  <2>1. r = Parsed(v, DEFAULT_PORT) /\ IsServerName(v)
    BY <1>1, <1>6 DEF parse, IsServerName
  <2> QED BY <1>2, <1>3, <1>4, <2>1, PartFits
<1>7. CASE ~IsSocketAddr(v) /\ ~IsIpAddr(v) /\ v[1] = "["
  <2>1. r = bracketed(v)
    BY <1>1, <1>7 DEF parse
  <2> QED BY <1>1, <1>7, <2>1, BracketedFits
<1>8. CASE ~IsSocketAddr(v) /\ ~IsIpAddr(v) /\ v[1] # "[" /\ Positions(v, ":") # {}
  <2>1. r = split(v)
    BY <1>1, <1>8 DEF parse
  <2> QED BY <1>8, <2>1, SplitFits
<1>9. CASE ~IsSocketAddr(v) /\ ~IsIpAddr(v) /\ v[1] # "[" /\ Positions(v, ":") = {}
  <2>1. r = named(v, DEFAULT_PORT)
    BY <1>1, <1>9 DEF parse
  <2> QED BY <1>2, <1>3, <1>4, <2>1, NamedFits
<1> QED BY <1>5, <1>6, <1>7, <1>8, <1>9

-----------------------------------------------------------------------------
(* An address is not a socket address as well.                             *)
LEMMA AddressHasNoPort ==
  ASSUME NEW v \in Texts, IsIpAddr(v)
  PROVE  ~IsSocketAddr(v)
<1> SUFFICES ASSUME IsSocketAddr(v) PROVE FALSE
  OBVIOUS
<1>1. PICK n : n = Len(v)
  OBVIOUS
<1>2. n \in Nat /\ n > 2 /\ v[n] \in u16
  BY <1>1, LenProperties DEF Texts, IsSocketAddr
<1>3. v # <<"ipv4">>
  BY <1>1, <1>2
<1>4. /\ n >= 13 \/ \E k \in 1..(n - 1) : v[k] = ":" /\ v[k + 1] = ":"
      /\ \A k \in 1..n : v[k] \in Digits
  BY <1>1, <1>3, Ipv6Is DEF IsIpAddr, Texts
<1>5. v[1] # "["
  <2>1. 1 \in 1..n
    BY <1>2
  <2> QED BY <1>4, <2>1 DEF Digits
<1>6. PICK h : h = SubSeq(v, 1, n - 2)
  OBVIOUS
<1>7. h = <<"ipv4">>
  BY <1>1, <1>5, <1>6 DEF IsSocketAddr, ip
<1>8. /\ 1 \in Nat /\ n - 2 \in Nat /\ 1 <= 1 /\ 1 <= (n - 2) + 1 /\ n - 2 <= n
      /\ (n - 2) - 1 + 1 = n - 2
  BY <1>2
<1>9. Len(h) = (n - 2) - 1 + 1 /\ \A m \in 1..((n - 2) - 1 + 1) : h[m] = v[1 + m - 1]
  BY <1>1, <1>6, <1>8, Cut DEF Texts
<1>10. n = 3
  <2>1. n - 2 = 1
    BY <1>7, <1>8, <1>9
  <2> QED BY <1>2, <2>1
<1>11. v[1] = "ipv4"
  <2>1. 1 \in 1..((n - 2) - 1 + 1) /\ 1 + 1 - 1 = 1
    BY <1>10
  <2>2. h[1] = v[1]
    BY <1>9, <2>1
  <2> QED BY <1>7, <2>2
<1>12. PICK k \in 1..(n - 1) : v[k] = ":" /\ v[k + 1] = ":"
  BY <1>4, <1>10
<1>13. k = 1 \/ k + 1 = n
  BY <1>10
<1>14. v[n] # ":"
  BY <1>2 DEF u16
<1> QED BY <1>11, <1>12, <1>13, <1>14

(* A host alone is parsed, with the default port.                          *)
LEMMA HostParsed ==
  ASSUME NEW v \in Texts, IsServerName(v)
  PROVE  parse(v) = Parsed(v, DEFAULT_PORT)
<1>1. Len(v) >= 1 /\ (IsIpv6(v) => Len(v) >= 2)
  BY HostIs DEF Texts
<1>2. v # <<>>
  BY <1>1
<1>3. CASE IsIpAddr(v)
  BY <1>2, <1>3, AddressHasNoPort DEF parse
<1>4. CASE ~IsIpAddr(v)
  <2>1. v = <<"name">>
    BY <1>4 DEF IsServerName
  <2>2. Len(v) = 1 /\ v[1] = "name"
    BY <2>1
  <2>3. ~IsSocketAddr(v)
    BY <2>2 DEF IsSocketAddr
  <2>4. Positions(v, ":") = {}
    BY <2>2 DEF Positions
  <2>5. parse(v) = named(v, DEFAULT_PORT)
    BY <1>2, <1>4, <2>2, <2>3, <2>4 DEF parse
  <2> QED BY <2>5 DEF named
<1> QED BY <1>3, <1>4

(* A value in brackets: neither parser of addresses takes it without a     *)
(* port, and its first closing bracket is the host's.                      *)
LEMMA BoxIs ==
  ASSUME NEW v \in Texts, NEW h \in Texts, IsServerName(h), NEW n, n = Len(h), n + 2 <= Len(v),
         v[1] = "[", Lies(h, v, 1), v[n + 2] = "]"
  PROVE  /\ v # <<>> /\ ~IsIpAddr(v) /\ Positions(v, "]") # {}
         /\ Min(Positions(v, "]")) = n + 2 /\ SubSeq(v, 2, n + 1) = h
<1>1. PICK l : l = Len(v)
  OBVIOUS
<1>2. n \in Nat /\ l \in Nat
  BY <1>1, LenProperties DEF Texts
<1>3. \A k \in 1..n : h[k] # "[" /\ h[k] # "]"
  BY HostIs DEF Texts
<1>4. \A k \in 1..n : v[1 + k] = h[k]
  BY DEF Lies
<1>5. n + 2 \in 1..l /\ 1 \in 1..l /\ l # 0 /\ 1 + n = n + 1 /\ 1 + 1 = 2
  BY <1>1, <1>2
<1>6. v # <<>>
  BY <1>1, <1>5
<1>7. ~IsIpAddr(v)
  <2>1. v # <<"ipv4">>
    OBVIOUS
  <2>2. ~IsIpv6(v)
    <3> SUFFICES ASSUME IsIpv6(v) PROVE FALSE
      OBVIOUS
    <3>1. \A k \in 1..l : v[k] \in Digits
      BY <1>1, Ipv6Is DEF Texts
    <3> QED BY <1>5, <3>1 DEF Digits
  <2> QED BY <2>1, <2>2 DEF IsIpAddr
<1>8. Positions(v, "]") # {}
  BY <1>1, <1>5 DEF Positions
<1>9. PICK e : e = Min(Positions(v, "]"))
  OBVIOUS
<1>10. e \in 1..l /\ v[e] = "]" /\ e <= n + 2
  BY <1>1, <1>5, <1>8, <1>9, PositionsAre
<1>11. e = n + 2
  <2> SUFFICES ASSUME e # n + 2 PROVE FALSE
    OBVIOUS
  <2>1. e # 1
    BY <1>10
  <2>2. e - 1 \in 1..n /\ 1 + (e - 1) = e
    BY <1>2, <1>10, <2>1
  <2>3. v[e] = h[e - 1]
    BY <1>4, <2>2
  <2> QED BY <1>3, <1>10, <2>2, <2>3
<1>12. SubSeq(v, 2, n + 1) = h
  <2>1. SubSeq(v, 1 + 1, 1 + n) = h
    BY LiesIsCut DEF Texts
  <2> QED BY <1>5, <2>1
<1> QED BY <1>6, <1>7, <1>8, <1>9, <1>11, <1>12

(* A host in brackets is parsed, with the default port.                    *)
LEMMA BoxedParsed ==
  ASSUME NEW v \in Texts, NEW h \in Texts, IsServerName(h), Boxed(v, h)
  PROVE  parse(v) = Parsed(h, DEFAULT_PORT)
<1>1. PICK n, l : n = Len(h) /\ l = Len(v)
  OBVIOUS
<1>2. l = n + 2 /\ v[1] = "[" /\ Lies(h, v, 1) /\ v[n + 2] = "]"
  BY <1>1 DEF Boxed
<1>3. n \in Nat
  BY <1>1, LenProperties DEF Texts
<1>4. n + 2 <= l /\ l \in 1..l /\ l - 1 = n + 1
  BY <1>2, <1>3
<1>5. /\ v # <<>> /\ ~IsIpAddr(v) /\ Positions(v, "]") # {}
      /\ Min(Positions(v, "]")) = n + 2 /\ SubSeq(v, 2, n + 1) = h
  BY <1>1, <1>2, <1>4, BoxIs
<1>6. ~IsSocketAddr(v)
  <2>1. v[l] \notin u16
    BY <1>2 DEF u16
  <2> QED BY <1>1, <2>1 DEF IsSocketAddr
<1>7. parse(v) = bracketed(v)
  BY <1>2, <1>5, <1>6 DEF parse
<1>8. SubSeq(v, l + 1, l) = <<>>
  BY <1>1, <1>4, PortAtEnd
<1>9. Min(Positions(v, "]")) = l /\ SubSeq(v, 2, l - 1) = h
  BY <1>2, <1>4, <1>5
<1>10. bracketed(v) = named(h, DEFAULT_PORT)
  BY <1>1, <1>5, <1>8, <1>9 DEF bracketed
<1> QED BY <1>7, <1>10 DEF named

(* A host and a port, not an address as it stands, is parsed.              *)
LEMMA PortedParsed ==
  ASSUME NEW v \in Texts, NEW h \in Texts, IsServerName(h), Ported(v, h, "443"), ~IsIpv6(v)
  PROVE  parse(v) = Parsed(h, "443")
<1>1. PICK n, l : n = Len(h) /\ l = Len(v)
  OBVIOUS
<1>2. l = n + 2 /\ Lies(h, v, 0) /\ v[n + 1] = ":" /\ v[n + 2] = "443"
  BY <1>1 DEF Ported
<1>3. n \in Nat /\ n >= 1
  BY <1>1, HostIs, LenProperties DEF Texts
<1>4. /\ l > 2 /\ l - 1 = n + 1 /\ l - 2 = n /\ 0 + n = n /\ 0 + 1 = 1 /\ 1 \in 1..n /\ 1 \in 1..l
      /\ n + 1 \in 1..l /\ (n + 1) + 1 = l /\ (n + 1) - 1 = n /\ n + 1 < l
  BY <1>2, <1>3
<1>5. v[1] = h[1] /\ v[1] # "["
  <2>1. v[0 + 1] = h[1]
    BY <1>1, <1>2, <1>4 DEF Lies
  <2>2. h[1] # "["
    BY <1>1, <1>4, HostIs DEF Texts
  <2> QED BY <1>4, <2>1, <2>2
<1>6. SubSeq(v, 1, n) = h
  <2>1. SubSeq(v, 0 + 1, 0 + n) = h
    BY <1>1, <1>2, LiesIsCut DEF Texts
  <2> QED BY <1>4, <2>1
<1>7. v # <<>> /\ ~IsIpAddr(v)
  BY <1>1, <1>4 DEF IsIpAddr
<1>8. v[l] = "443" /\ v[l] \in u16 /\ v[l] \in u16 \ {"0"}
  BY <1>2 DEF u16
<1>9. ip(v) = h
  BY <1>1, <1>4, <1>5, <1>6 DEF ip
<1>10. IsSocketAddr(v) <=> h = <<"ipv4">>
  BY <1>1, <1>2, <1>4, <1>5, <1>8, <1>9 DEF IsSocketAddr
<1>11. CASE h = <<"ipv4">>
  BY <1>1, <1>7, <1>8, <1>9, <1>10, <1>11 DEF parse
<1>12. CASE h # <<"ipv4">>
  <2>1. Positions(v, ":") # {}
    BY <1>1, <1>2, <1>4 DEF Positions
  <2>2. parse(v) = split(v)
    BY <1>5, <1>7, <1>10, <1>12, <2>1 DEF parse
  <2>3. PICK c : c = Max(Positions(v, ":"))
    OBVIOUS
  <2>4. c \in 1..l /\ v[c] = ":" /\ n + 1 <= c
    BY <1>1, <1>2, <1>4, <2>1, <2>3, PositionsAre
  <2>5. c # l
    BY <1>8, <2>4
  <2>6. c = n + 1
    BY <1>2, <1>3, <2>4, <2>5
  <2>7. PICK p : p = SubSeq(v, c + 1, l)
    OBVIOUS
  <2>8. parse_port(p) /\ p[1] = v[c + 1]
    <3>1. c \in 1..l /\ c + 1 = l /\ c < l
      BY <1>4, <2>6
    <3> QED BY <1>1, <1>8, <2>7, <3>1, PortAtEnd
  <2>9. p[1] = "443"
    BY <1>4, <1>8, <2>6, <2>8
  <2>10. SubSeq(v, 1, c - 1) = h /\ h # <<>>
    BY <1>1, <1>3, <1>4, <1>6, <2>6
  <2>11. split(v) = named(h, p[1])
    BY <1>1, <2>3, <2>7, <2>8, <2>10 DEF split
  <2> QED BY <2>2, <2>9, <2>11 DEF named
<1> QED BY <1>11, <1>12

(* A host in brackets and a port is parsed.                                *)
LEMMA BoxedPortedParsed ==
  ASSUME NEW v \in Texts, NEW h \in Texts, IsServerName(h), BoxedPorted(v, h, "443")
  PROVE  parse(v) = Parsed(h, "443")
<1>1. PICK n, l, e : n = Len(h) /\ l = Len(v) /\ e = n + 2
  OBVIOUS
<1>2. /\ l = n + 4 /\ v[1] = "[" /\ Lies(h, v, 1) /\ v[n + 2] = "]" /\ v[n + 3] = ":"
      /\ v[n + 4] = "443"
  BY <1>1 DEF BoxedPorted
<1>3. n \in Nat
  BY <1>1, LenProperties DEF Texts
<1>4. /\ n + 2 <= l /\ l > 2 /\ l - 1 = n + 3 /\ l - 2 = n + 2 /\ l - 3 = n + 1 /\ e - 1 = n + 1
      /\ e \in 1..l /\ e + 1 = n + 3 /\ e + 1 \in 1..l /\ (e + 1) + 1 = l /\ e + 2 = l /\ e < l
      /\ e # l
  BY <1>1, <1>2, <1>3
<1>5. /\ v # <<>> /\ ~IsIpAddr(v) /\ Positions(v, "]") # {}
      /\ Min(Positions(v, "]")) = n + 2 /\ SubSeq(v, 2, n + 1) = h
  BY <1>1, <1>2, <1>4, BoxIs
<1>6. v[l] = "443" /\ v[l] \in u16 /\ v[l] \in u16 \ {"0"}
  BY <1>2 DEF u16
<1>7. ip(v) = h
  <2>1. ASSUME HasScope(v) PROVE FALSE
    <3>1. l - 4 = n /\ l > 6 /\ v[l - 4] = "%"
      BY <1>1, <1>2, <1>3, <2>1 DEF HasScope
    <3>2. n - 1 \in 1..n /\ 1 + (n - 1) = n
      BY <1>2, <1>3, <3>1
    <3>3. v[n] = h[n - 1]
      BY <1>1, <1>2, <3>2 DEF Lies
    <3>4. h[n - 1] # "%"
      BY <1>1, <3>2, HostIs DEF Texts
    <3> QED BY <3>1, <3>3, <3>4
  <2> QED BY <1>1, <1>2, <1>4, <1>5, <2>1 DEF ip
<1>8. IsSocketAddr(v) <=> IsIpv6(h)
  BY <1>1, <1>2, <1>4, <1>6, <1>7 DEF IsSocketAddr
<1>9. CASE IsIpv6(h)
  BY <1>1, <1>5, <1>6, <1>7, <1>8, <1>9 DEF parse
<1>10. CASE ~IsIpv6(h)
  <2>1. parse(v) = bracketed(v)
    BY <1>2, <1>5, <1>8, <1>10 DEF parse
  <2>2. SubSeq(v, e + 1, l) # <<>> /\ SubSeq(v, e + 1, l)[1] = v[e + 1]
    BY <1>1, <1>4, PortAtEnd
  <2>3. parse_port(SubSeq(v, e + 2, l))
    <3>1. parse_port(SubSeq(v, (e + 1) + 1, l))
      BY <1>1, <1>4, <1>6, PortAtEnd
    <3> QED BY <1>4, <3>1
  <2>4. v[e + 1] = ":" /\ Min(Positions(v, "]")) = e /\ SubSeq(v, 2, e - 1) = h
    BY <1>1, <1>2, <1>4, <1>5
  <2>5. bracketed(v) = named(h, v[l])
    BY <1>1, <1>5, <2>2, <2>3, <2>4 DEF bracketed
  <2> QED BY <1>6, <2>1, <2>5 DEF named
<1> QED BY <1>9, <1>10

(* An IPv6 address in brackets with a scope, and a port, is parsed; the    *)
(* scope is not in the result.                                             *)
LEMMA ScopedParsed ==
  ASSUME NEW v \in Texts, NEW h \in Texts, IsIpv6(h), NEW z \in Numbers,
         Scoped(v, h, z, "443")
  PROVE  parse(v) = Parsed(h, "443")
<1>1. PICK n, l : n = Len(h) /\ l = Len(v)
  OBVIOUS
<1>2. /\ l = n + 6 /\ v[1] = "[" /\ Lies(h, v, 1) /\ v[n + 2] = "%" /\ v[n + 3] = z
      /\ v[n + 4] = "]" /\ v[n + 5] = ":" /\ v[n + 6] = "443"
  BY <1>1 DEF Scoped
<1>3. n \in Nat /\ n >= 1
  BY <1>1, HostIs, LenProperties DEF Texts, IsServerName, IsIpAddr
<1>4. /\ l > 6 /\ l > 2 /\ l # 0 /\ l - 1 = n + 5 /\ l - 2 = n + 4 /\ l - 3 = n + 3
      /\ l - 4 = n + 2 /\ l - 5 = n + 1 /\ 1 + n = n + 1 /\ 1 + 1 = 2
  BY <1>2, <1>3
<1>5. v # <<>>
  BY <1>1, <1>4
<1>6. HasScope(v)
  BY <1>1, <1>2, <1>4 DEF HasScope
<1>7. SubSeq(v, 2, l - 5) = h
  <2>1. SubSeq(v, 1 + 1, 1 + n) = h
    BY <1>1, <1>2, LiesIsCut DEF Texts
  <2> QED BY <1>4, <2>1
<1>8. ip(v) = h
  BY <1>1, <1>2, <1>6, <1>7 DEF ip
<1>9. v[l] = "443" /\ v[l] \in u16
  BY <1>2 DEF u16
<1>10. IsSocketAddr(v)
  BY <1>1, <1>2, <1>4, <1>8, <1>9 DEF IsSocketAddr
<1> QED BY <1>1, <1>5, <1>8, <1>9, <1>10 DEF parse

(* The parser takes exactly the spellings of an endpoint.                  *)
LEMMA Parsing == ParsesSpellings
<1>1. ASSUME NEW v \in Values
      PROVE  v \in Seq(Lexemes) /\ v \in Texts
  <2>1. PICK S : S = Lexemes
    OBVIOUS
  <2>2. v \in SeqOf(S, MaxLexemes) \/ v \in ScopedValues
    BY <2>1 DEF Values
  <2>3. ASSUME NEW m \in Nat, NEW w \in SeqOf(S, m) PROVE w \in Seq(S)
    <3>1. PICK k \in 0..m : w \in [1..k -> S]
      BY DEF SeqOf
    <3> QED BY <3>1
  <2>4. v \in Seq(S)
    <3>1. CASE v \in SeqOf(S, MaxLexemes)
      BY <2>3, <3>1, MaxLexemesAssumption
    <3>2. CASE v \in ScopedValues
      <4>1. PICK h \in SeqOf(S, MaxScoped), z \in S, p \in S :
              v = WithScope(h, z, p)
        BY <2>1, <3>2 DEF ScopedValues
      <4>2. h \in Seq(S)
        BY <2>3, <4>1, MaxLexemesAssumption
      <4>3. PICK l, c : l = <<"[">> /\ c = <<"%", z, "]", ":", p>>
        OBVIOUS
      <4>4. /\ l \in Seq(S) /\ Len(l) = 1 /\ l[1] = "[" /\ c \in Seq(S) /\ Len(c) = 5
            /\ c[1] = "%" /\ c[2] = z /\ c[3] = "]" /\ c[4] = ":" /\ c[5] = p
        <5>1. {"[", "%", "]", ":"} \subseteq S
          BY <2>1 DEF Lexemes
        <5> QED BY <4>1, <4>3, <5>1
      <4>5. v = l \o h \o c
        BY <4>1, <4>3, Zenon DEF WithScope
      <4> QED BY <4>2, <4>4, <4>5, InScope
    <3> QED BY <2>2, <3>1, <3>2
  <2>5. v \in Seq(Lexemes \cup {DEFAULT_PORT})
    BY <2>1, <2>4
  <2> QED BY <2>1, <2>4, <2>5 DEF Texts
<1>2. ASSUME NEW v \in Values, NEW h \in Parts(v)
      PROVE  h \in Texts
  <2>1. PICK i \in 1..Len(v), j \in 1..Len(v) : h = SubSeq(v, i, j)
    BY DEF Parts
  <2>2. PICK S : S = Lexemes \cup {DEFAULT_PORT}
    OBVIOUS
  <2>3. v \in Seq(S)
    BY <1>1, <2>2 DEF Texts
  <2>4. \A k \in i..j : v[k] \in S
    BY <2>1, <2>3, ElementOfSeq, LenProperties
  <2>5. SubSeq(v, i, j) \in Seq(S)
    BY <2>1, <2>3, <2>4, SubSeqProperties
  <2> QED BY <2>1, <2>2, <2>5 DEF Texts
<1>3. ASSUME NEW v \in Values, NEW h
      PROVE  /\ ~Ported(v, h, DEFAULT_PORT) /\ ~BoxedPorted(v, h, DEFAULT_PORT)
             /\ \A z : ~Scoped(v, h, z, DEFAULT_PORT)
  <2>1. PICK l : l = Len(v)
    OBVIOUS
  <2>2. l \in Nat
    BY <1>1, <2>1, LenProperties
  <2>3. ASSUME l > 0 PROVE v[l] # DEFAULT_PORT
    <3>1. l \in 1..l
      BY <2>2, <2>3
    <3>2. v[l] \in Lexemes
      BY <1>1, <2>1, <3>1, ElementOfSeq
    <3> QED BY <3>2 DEF Lexemes, Words, Numbers, DEFAULT_PORT
  <2>4. ASSUME Ported(v, h, DEFAULT_PORT) PROVE FALSE
    BY <1>1, <2>1, <2>2, <2>3, <2>4 DEF Ported
  <2>5. ASSUME BoxedPorted(v, h, DEFAULT_PORT) PROVE FALSE
    BY <1>1, <2>1, <2>2, <2>3, <2>5 DEF BoxedPorted
  <2>6. ASSUME NEW z, Scoped(v, h, z, DEFAULT_PORT) PROVE FALSE
    BY <1>1, <2>1, <2>2, <2>3, <2>6 DEF Scoped
  <2> QED BY <2>4, <2>5, <2>6
<1>4. ASSUME NEW v \in Values, NEW h \in Parts(v), NEW p \in {"443", DEFAULT_PORT},
             IsServerName(h), Spelled(v, h, p), IsIpv6(v) => h = v
      PROVE  parse(v) = Parsed(h, p)
  <2>1. v \in Texts /\ h \in Texts
    BY <1>1, <1>2
  <2>2. p \in Lexemes \cup {DEFAULT_PORT}
    BY DEF Lexemes, Words, Numbers
  <2>3. Shaped(v, h, p)
    BY <1>4, <2>1, <2>2, SpelledShaped
  <2>4. CASE p = DEFAULT_PORT
    <3>1. v = h \/ Boxed(v, h)
      BY <1>3, <2>3, <2>4 DEF Shaped
    <3> QED BY <1>4, <2>1, <2>4, <3>1, HostParsed, BoxedParsed
  <2>5. CASE p = "443"
    <3>1. \/ Ported(v, h, p) \/ BoxedPorted(v, h, p)
          \/ IsIpv6(h) /\ \E z \in Numbers : Scoped(v, h, z, p)
      BY <2>3, <2>5 DEF Shaped, DEFAULT_PORT
    <3>2. CASE BoxedPorted(v, h, p)
      BY <1>4, <2>1, <2>5, <3>2, BoxedPortedParsed
    <3>3. CASE Ported(v, h, p)
      <4>1. ~IsIpv6(v)
        <5>1. Len(v) = Len(h) + 2 /\ Len(h) \in Nat
          BY <2>1, <3>3, LenProperties DEF Ported, Texts
        <5>2. Len(h) # Len(h) + 2
          BY <5>1
        <5> QED BY <1>4, <5>1, <5>2
      <4> QED BY <1>4, <2>1, <2>5, <3>3, <4>1, PortedParsed
    <3>4. CASE IsIpv6(h) /\ \E z \in Numbers : Scoped(v, h, z, p)
      BY <2>1, <2>5, <3>4, ScopedParsed
    <3> QED BY <3>1, <3>2, <3>3, <3>4
  <2> QED BY <2>4, <2>5
<1>5. ASSUME NEW v \in Values, parse(v).ok PROVE Fits(v, parse(v))
  BY <1>1, <1>5, ParsedFits
<1> QED BY <1>4, <1>5 DEF ParsesSpellings, Fits

(* For every length of value, long enough for any IPv6 literal with or     *)
(* without a scope: snorkel dials the host and the port its --server value *)
(* spells, a scope apart, and refuses no spelling of one (config.rs:65-102,*)
(* the scope dropped at config.rs:72).                                     *)
THEOREM ParsedAsSpelledAlways == Spec => []ParsedAsSpelled
<1>1. ParsedAsSpelled
  BY Parsing DEF ParsedAsSpelled
<1> QED BY <1>1, PTL

=============================================================================
