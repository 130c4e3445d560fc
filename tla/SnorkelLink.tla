---------------------------- MODULE SnorkelLink ----------------------------
(***************************************************************************)
(* snorkel, the home end: one task (link.rs, run) that steps a Link        *)
(* through Down, Up and Stopped, started by main, which turns its end into *)
(* an exit status.  While Down it waits out the backoff, looks for the     *)
(* unix socket, dials TLS and then the socket; while Up it copies bytes    *)
(* both ways until either side ends.                                       *)
(*                                                                         *)
(* Every await of Link::step is a state of its own here, because shutdown, *)
(* the peer and the socket file may all change while it waits.  Time is    *)
(* not measured: a sleep or a dial may end at any moment after it began,   *)
(* and `delay' keeps the backoff the code computed, jitter included.       *)
(***************************************************************************)
EXTENDS Integers

CONSTANT MaxAttempts   \* where `attempts' saturates (u32::MAX in the code)

\* The seventh failure in a row is the first to wait BACKOFF_MAX.
ASSUME MaxAttemptsAssumption == MaxAttempts \in Nat /\ MaxAttempts >= 7

VARIABLES
  once,      \* --once, fixed at start
  code,      \* exit status, Running before the exit
  at,        \* "Load", "Signals"; "Down", "Sleep", "Dial", "Local", "Up",
             \* "Stopped"; "Exited"
  attempts,  \* FailureRun::attempts
  delay,     \* backoff of the current Down, in hundredths of a ms
  remote,    \* the TLS stream is open
  local,     \* the unix stream is open
  moved,     \* the session counts as productive: bytes moved, or 10 s
  tries,     \* dials of the server begun, counted up to 2
  signal,    \* shutdown has been requested
  socket     \* the unix socket exists and accepts (environment)

vars == <<once, code, at, attempts, delay, remote, local, moved, tries, signal, socket>>

Running == -1
SUCCESS == 0
FAILURE == 1
BAD_CONFIG == 2

BACKOFF_FIRST == 500
BACKOFF_MAX == 30000

Minimum(a, b) == IF a < b THEN a ELSE b
Maximum(a, b) == IF a > b THEN a ELSE b

(* Mutant of base: doubles without the cap.                                *)
base_uncapped(n) == BACKOFF_FIRST * 2 ^ Minimum(Maximum(n - 1, 0), 16)

(* Mutant of base: wraps at the cap instead of saturating.                 *)
base_wrapped(n) ==
  (BACKOFF_FIRST * 2 ^ Minimum(Maximum(n - 1, 0), 16)) % BACKOFF_MAX

(* 500 ms doubled for every failure after the first, at most 30 s.         *)
base(n) ==
  Minimum(BACKOFF_FIRST * 2 ^ Minimum(Maximum(n - 1, 0), 16), BACKOFF_MAX)

(* The jitter, 0.8 to 1.0, in percent.                                     *)
Jitters == 80..100

backoff(n, jitter) == base(n) * jitter

Init ==
  /\ once \in BOOLEAN
  /\ code = Running
  /\ at = "Load"
  /\ attempts = 0
  /\ delay = 0              \* not_before = now
  /\ remote = FALSE /\ local = FALSE
  /\ moved = FALSE
  /\ tries = 0
  /\ signal = FALSE
  /\ socket \in BOOLEAN

-----------------------------------------------------------------------------
(* main.                                                                   *)
linkVars == <<attempts, delay, remote, local, moved, tries, signal, socket, once>>

Exit(status) == at' = "Exited" /\ code' = status

(* Config::load                                                            *)
LoadConfig ==
  /\ at = "Load"
  /\ (at' = "Signals" /\ UNCHANGED code) \/ Exit(BAD_CONFIG)
  /\ UNCHANGED linkVars

(* Shutdown::on_signals, then run.                                         *)
OnSignals ==
  /\ at = "Signals"
  /\ (at' = "Down" /\ UNCHANGED code) \/ Exit(FAILURE)
  /\ UNCHANGED linkVars

(* run has returned its report.                                            *)
Return ==
  /\ at = "Stopped"
  /\ Exit(SUCCESS)
  /\ UNCHANGED linkVars

-----------------------------------------------------------------------------
(* Leaving a state drops the streams it owned.                             *)
Closed == remote' = FALSE /\ local' = FALSE /\ moved' = FALSE

(* Down again, after n failures in a row.                                  *)
down(n) ==
  /\ at' = "Down"
  /\ attempts' = n
  /\ \E jitter \in Jitters : delay' = backoff(n, jitter)

(* Mutant of failed: --once is not looked at.                              *)
failed_again ==
  /\ Closed
  /\ down(Minimum(attempts + 1, MaxAttempts))

(* Mutant of failed: a failed dial ends the program.                       *)
failed_for_good ==
  /\ Closed
  /\ at' = "Stopped"
  /\ UNCHANGED <<attempts, delay>>

(* A dial failed: --once gives up, otherwise one more failure is counted   *)
(* (saturating_add).                                                       *)
failed ==
  /\ Closed
  /\ IF once
     THEN at' = "Stopped" /\ UNCHANGED <<attempts, delay>>
     ELSE down(Minimum(attempts + 1, MaxAttempts))

(* The shutdown flag is read before the sleep begins.                      *)
Check ==
  /\ at = "Down"
  /\ at' = IF signal THEN "Stopped" ELSE "Sleep"
  /\ UNCHANGED <<attempts, delay, remote, local, moved, tries, signal, socket, once, code>>

(* Mutant of Wake: the wait starts anew whenever it ends.                  *)
WakeRearmed ==
  /\ at = "Sleep"
  /\ at' = "Down"
  /\ UNCHANGED <<attempts, delay, remote, local, moved, tries, signal, socket, once, code>>

(* The sleep is over: with the socket file absent nothing is dialled.      *)
Wake ==
  /\ at = "Sleep"
  /\ IF socket
     THEN /\ at' = "Dial"
          /\ tries' = Minimum(tries + 1, 2)
          /\ UNCHANGED <<attempts, delay, remote, local, moved>>
     ELSE /\ failed
          /\ UNCHANGED tries
  /\ UNCHANGED <<signal, socket, once, code>>

(* TCP and TLS, 10 s each: connected, refused or timed out.                *)
DialRemote ==
  /\ at = "Dial"
  /\ \/ /\ at' = "Local"
        /\ remote' = TRUE
        /\ UNCHANGED <<attempts, delay, local, moved>>
     \/ failed
  /\ UNCHANGED <<tries, signal, socket, once, code>>

(* Mutant of ConnectLocal: the TLS stream survives a failed connect.       *)
ConnectLocalLeak ==
  /\ at = "Local"
  /\ IF socket
     THEN /\ at' = "Up"
          /\ local' = TRUE
          /\ UNCHANGED <<attempts, delay, remote, moved>>
     ELSE /\ down(Minimum(attempts + 1, MaxAttempts))
          /\ UNCHANGED <<remote, local, moved>>
  /\ UNCHANGED <<tries, signal, socket, once, code>>

(* The unix connect; the file may have gone since Wake looked, and then    *)
(* the TLS stream just opened is dropped.                                  *)
ConnectLocal ==
  /\ at = "Local"
  /\ IF socket
     THEN /\ at' = "Up"
          /\ local' = TRUE
          /\ UNCHANGED <<attempts, delay, remote, moved>>
     ELSE failed
  /\ UNCHANGED <<tries, signal, socket, once, code>>

(* Bytes are copied, or ten seconds pass.                                  *)
Copy ==
  /\ at = "Up"
  /\ moved' = TRUE
  /\ UNCHANGED <<at, attempts, delay, remote, local, tries, signal, socket, once, code>>

(* Either half of the copy ended (EOF or error): both streams go.          *)
SessionEnds ==
  /\ at = "Up"
  /\ Closed
  /\ IF once
     THEN at' = "Stopped" /\ UNCHANGED <<attempts, delay>>
     ELSE down(IF moved THEN 0 ELSE 1)
  /\ UNCHANGED <<tries, signal, socket, once, code>>

(* Mutant of Shutdown: a running session does not listen for it.           *)
ShutdownNotUp ==
  /\ signal
  /\ at \in {"Sleep", "Dial", "Local"}
  /\ Closed
  /\ at' = "Stopped"
  /\ UNCHANGED <<attempts, delay, tries, signal, socket, once, code>>

(* The shutdown branch of the three select!s, which drops what the other   *)
(* branch held.                                                            *)
Shutdown ==
  /\ signal
  /\ at \in {"Sleep", "Dial", "Local", "Up"}
  /\ Closed
  /\ at' = "Stopped"
  /\ UNCHANGED <<attempts, delay, tries, signal, socket, once, code>>

(* Environment: SIGINT or SIGTERM, and the agent's socket coming and going.*)
Signal ==
  /\ at \notin {"Load", "Signals", "Exited"}   \* the handlers are installed
  /\ ~signal
  /\ signal' = TRUE
  /\ UNCHANGED <<at, attempts, delay, remote, local, moved, tries, socket, once, code>>

SocketFlips ==
  /\ at # "Exited"
  /\ socket' = ~socket
  /\ UNCHANGED <<at, attempts, delay, remote, local, moved, tries, signal, once, code>>

Step == Check \/ Wake \/ DialRemote \/ ConnectLocal \/ Shutdown

Next ==
  \/ LoadConfig \/ OnSignals \/ Return
  \/ Step \/ Copy \/ SessionEnds \/ Signal \/ SocketFlips

(* The task is polled: a check, a sleep, a dial (bounded by its timeout),  *)
(* a connect and the shutdown branch are taken if they stay possible.  A   *)
(* session need not end.                                                   *)
Fairness ==
  /\ WF_vars(LoadConfig) /\ WF_vars(OnSignals) /\ WF_vars(Return)
  /\ WF_vars(Check) /\ WF_vars(Wake) /\ WF_vars(DialRemote)
  /\ WF_vars(ConnectLocal) /\ WF_vars(Shutdown)

Spec == Init /\ [][Next]_vars /\ Fairness

-----------------------------------------------------------------------------
(* Types; the wait before a dial never passes BACKOFF_MAX.                 *)
TypeOK ==
  /\ at \in {"Load", "Signals", "Down", "Sleep", "Dial", "Local", "Up", "Stopped",
             "Exited"}
  /\ code \in {Running, SUCCESS, FAILURE, BAD_CONFIG}
  /\ attempts \in 0..MaxAttempts
  /\ delay \in 0..(100 * BACKOFF_MAX)
  /\ {once, remote, local, moved, signal, socket} \subseteq BOOLEAN
  /\ tries \in 0..2

(* Streams live in pairs: both are open exactly in a session, and a failed *)
(* or abandoned dial, an ended session and a shutdown leave neither open,  *)
(* even when the socket vanishes between the check and the connect.        *)
StreamsPaired ==
  /\ local <=> at = "Up"
  /\ remote <=> at \in {"Local", "Up"}

(* --once makes at most one connection attempt, however it ends.           *)
OnceDialsOnce == once => tries <= 1

(* A server that keeps refusing is asked less and less often: from the     *)
(* first failure on every wait is at least 1.6 times the one before it,    *)
(* whatever the jitter, until it is within the jitter of the cap; from     *)
(* there on it may shrink, but never below 24 s.  The first failure after  *)
(* a productive session waits at least 400 ms.                             *)
BackoffGrows ==
  [][at' = "Down" /\ at \in {"Sleep", "Dial", "Local"} =>
       \/ attempts > 0 /\ 5 * delay' >= 8 * delay
       \/ delay' >= 80 * BACKOFF_MAX
       \/ attempts = 0 /\ delay' >= 80 * BACKOFF_FIRST]_vars

(* A requested shutdown ends the program from wherever it waits, a session *)
(* that never ends included, and its status is 0.                          *)
ShutdownStops == signal ~> (at = "Exited" /\ code = SUCCESS)

(* Without --once a program that has started never gives up: while the     *)
(* socket stays and nobody asks to stop, it keeps coming back to a dial or *)
(* a session.                                                              *)
KeepsDialing ==
  []<>(at \in {"Dial", "Up"} \/ ~socket \/ signal \/ once
        \/ code \in {BAD_CONFIG, FAILURE})

(* main.rs, after_help: status 0 means that a signal stopped snorkel or    *)
(* that --once completed.  Without --once no failure of the server, the    *)
(* socket or a session, in any order, is reported as success; with it a    *)
(* refused dial or an absent socket ends the program with status 0 too     *)
(* (link.rs:145, main.rs:63).                                              *)
ExitZeroMeans == code = SUCCESS => signal \/ once

=============================================================================
