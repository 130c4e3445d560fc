--------------------------- MODULE SnorkelSession ---------------------------
(***************************************************************************)
(* One session of snorkel (session.rs, Session::run): two copies, `up'     *)
(* from the unix socket to the TLS stream and `down' the other way, raced  *)
(* by one select!.  The first copy to end, by EOF or by an error, ends the *)
(* session, and the other is dropped wherever it was waiting.              *)
(*                                                                         *)
(* Bytes are counted, not named: each stream is FIFO, so how far each hand *)
(* has come tells which bytes it holds.  The writer of `up' is a rustls    *)
(* stream, which takes bytes into a buffer of its own and passes them on   *)
(* only while it is written to, flushed or shut down; the unix socket of   *)
(* `down' keeps nothing back.  A peer's socket holds Window bytes it has   *)
(* not read, and a write beyond that waits.                                *)
(***************************************************************************)
EXTENDS Integers, FiniteSetsExt

CONSTANTS
  COPY_BUFFER,   \* bytes one read may return (64 KiB in the code)
  TlsBuffer,     \* bytes rustls holds back at most (64 KiB by default)
  Window,        \* bytes a socket holds for a peer that does not read
  MaxBytes       \* bound: bytes each peer sends

ASSUME SizesAssumption ==
  /\ {COPY_BUFFER, Window} \subseteq Nat \ {0}
  /\ {TlsBuffer, MaxBytes} \subseteq Nat

Halves == {"up", "down"}
Sides == {"Local", "Remote"}

source(h) == IF h = "up" THEN "Local" ELSE "Remote"
sink(h) == IF h = "up" THEN "Remote" ELSE "Local"

VARIABLES
  at,        \* half -> "Read", "Write" or "Shutdown": the await it is in
  sent,      \* half -> bytes its source has sent
  taken,     \* half -> bytes read into `buffer'
  accepted,  \* half -> bytes the writer has accepted
  out,       \* half -> bytes in the sink's socket, for the peer to read
  drained,   \* half -> bytes the sink has read
  moved,     \* half -> *moved: to_remote, to_local
  eof,       \* half -> its source has sent its last byte
  broken,    \* sides whose connection has failed
  ended_by,  \* Outcome::ended_by; "None" while the session runs, "Shutdown"
             \* when the program was told to stop
  error      \* Outcome::error is set

vars == <<at, sent, taken, accepted, out, drained, moved, eof, broken,
          ended_by, error>>
copyVars == <<at, taken, accepted, out, moved, ended_by, error>>
peerVars == <<sent, drained, eof, broken>>

Up == ended_by = "None"

Init ==
  /\ at = [h \in Halves |-> "Read"]
  /\ sent = [h \in Halves |-> 0]
  /\ taken = sent /\ accepted = sent /\ out = sent
  /\ drained = sent /\ moved = sent
  /\ eof = [h \in Halves |-> FALSE]
  /\ broken = {}
  /\ ended_by = "None"
  /\ error = FALSE

-----------------------------------------------------------------------------
(* The copies.                                                             *)

(* Mutant of Ends: the session waits for both copies.                      *)
EndsLast(h, failed) ==
  /\ failed \/ \A k \in Halves : at[k] = "Shutdown"
  /\ ended_by' = source(h)
  /\ error' = failed

(* select! takes the first copy that ends, and drops the other.            *)
Ends(h, failed) ==
  /\ ended_by' = source(h)
  /\ error' = failed

(* Room in the sink's socket.                                              *)
room(h) == Window - (out[h] - drained[h])

(* What the writer of h may keep back.                                     *)
limit(h) == IF h = "up" THEN TlsBuffer ELSE 0

(* The writer passes on what fits, and accepts what it may keep back.      *)
Pass(h, offered) ==
  /\ out' = [out EXCEPT ![h] = Min({offered, @ + room(h)})]
  /\ accepted' = [accepted EXCEPT ![h] = Min({offered, out'[h] + limit(h)})]

(* Mutant of Read: bytes count as moved when they are read.                *)
ReadCounted(h) ==
  /\ Up /\ at[h] = "Read"
  /\ \E n \in 1..Min({COPY_BUFFER, sent[h] - taken[h]}) :
       /\ taken' = [taken EXCEPT ![h] = @ + n]
       /\ moved' = [moved EXCEPT ![h] = @ + n]
  /\ at' = [at EXCEPT ![h] = "Write"]
  /\ UNCHANGED <<accepted, out, ended_by, error, peerVars>>

(* reader.read: whatever has arrived, up to a buffer of it.                *)
Read(h) ==
  /\ Up /\ at[h] = "Read"
  /\ \E n \in 1..Min({COPY_BUFFER, sent[h] - taken[h]}) :
       taken' = [taken EXCEPT ![h] = @ + n]
  /\ at' = [at EXCEPT ![h] = "Write"]
  /\ UNCHANGED <<accepted, out, moved, ended_by, error, peerVars>>

(* read returned 0: the writer is shut down before the copy returns.       *)
ReadEof(h) ==
  /\ Up /\ at[h] = "Read"
  /\ eof[h] /\ taken[h] = sent[h]
  /\ at' = [at EXCEPT ![h] = "Shutdown"]
  /\ UNCHANGED <<taken, accepted, out, moved, ended_by, error, peerVars>>

(* Mutant of Write: write, not write_all.  The copy reads on after a       *)
(* partial write, with the rest of its buffer not written.                 *)
WriteOnce(h) ==
  /\ Up /\ at[h] = "Write"
  /\ Pass(h, taken[h])
  /\ accepted' # accepted \/ out' # out
  /\ moved' = [moved EXCEPT ![h] = accepted'[h]]
  /\ at' = [at EXCEPT ![h] = "Read"]
  /\ UNCHANGED <<taken, ended_by, error, peerVars>>

(* write_all: as much as the writer accepts now; the rest when it has      *)
(* room.  Only the whole buffer counts as moved, and nothing is flushed.   *)
Write(h) ==
  /\ Up /\ at[h] = "Write"
  /\ Pass(h, taken[h])
  /\ accepted' # accepted \/ out' # out
  /\ IF accepted'[h] = taken[h]
     THEN /\ at' = [at EXCEPT ![h] = "Read"]
          /\ moved' = [moved EXCEPT ![h] = taken[h]]
     ELSE UNCHANGED <<at, moved>>
  /\ UNCHANGED <<taken, ended_by, error, peerVars>>

(* Mutant of ShutdownWriter: the copy returns without it.                  *)
ShutdownSkipped(h) ==
  /\ Up /\ at[h] = "Shutdown"
  /\ Ends(h, FALSE)
  /\ UNCHANGED <<at, taken, accepted, out, moved, peerVars>>

(* writer.shutdown().await: rustls passes on what it kept and adds its     *)
(* close_notify, which needs room; the unix socket shuts down at once.     *)
ShutdownWriter(h) ==
  /\ Up /\ at[h] = "Shutdown"
  /\ Pass(h, accepted[h])
  /\ IF out'[h] = accepted[h] /\ (h = "down" \/ out'[h] < drained[h] + Window)
     THEN Ends(h, FALSE)
     ELSE out' # out /\ UNCHANGED <<ended_by, error>>
  /\ UNCHANGED <<at, taken, moved, peerVars>>

(* A read or a write on a failed connection ends the copy with its error;  *)
(* the result of shutdown is thrown away.                                  *)
Fails(h) ==
  /\ Up
  /\ \/ at[h] = "Read" /\ source(h) \in broken /\ Ends(h, TRUE)
     \/ at[h] = "Write" /\ sink(h) \in broken /\ Ends(h, TRUE)
     \/ at[h] = "Shutdown" /\ sink(h) \in broken /\ Ends(h, FALSE)
  /\ UNCHANGED <<at, taken, accepted, out, moved, peerVars>>

(* link.rs: the shutdown branch wins, and the session is dropped.          *)
Shutdown ==
  /\ Up
  /\ ended_by' = "Shutdown"
  /\ UNCHANGED <<at, taken, accepted, out, moved, error, peerVars>>

-----------------------------------------------------------------------------
(* The peers.                                                              *)

PeerSends(h) ==
  /\ Up /\ ~eof[h] /\ source(h) \notin broken
  /\ sent[h] < MaxBytes
  /\ sent' = [sent EXCEPT ![h] = @ + 1]
  /\ UNCHANGED <<copyVars, drained, eof, broken>>

PeerCloses(h) ==
  /\ Up /\ ~eof[h] /\ source(h) \notin broken
  /\ eof' = [eof EXCEPT ![h] = TRUE]
  /\ UNCHANGED <<copyVars, sent, drained, broken>>

PeerReads(h) ==
  /\ Up /\ drained[h] < out[h]
  /\ sink(h) \notin broken
  /\ drained' = [drained EXCEPT ![h] = @ + 1]
  /\ UNCHANGED <<copyVars, sent, eof, broken>>

Breaks(s) ==
  /\ Up /\ s \notin broken
  /\ broken' = broken \cup {s}
  /\ UNCHANGED <<copyVars, sent, drained, eof>>

-----------------------------------------------------------------------------
Copy(h) == Read(h) \/ ReadEof(h) \/ Write(h) \/ ShutdownWriter(h) \/ Fails(h)

Next ==
  \/ \E h \in Halves : Copy(h) \/ PeerSends(h) \/ PeerCloses(h) \/ PeerReads(h)
  \/ \E s \in Sides : Breaks(s)
  \/ Shutdown

(* Both copies are polled, and the peers read what reaches their sockets   *)
(* (external).                                                             *)
Spec ==
  Init /\ [][Next]_vars /\ \A h \in Halves : WF_vars(Copy(h)) /\ WF_vars(PeerReads(h))

-----------------------------------------------------------------------------
(* Types, and the order of the hands a byte goes through: nothing is       *)
(* passed on or counted that was not read.                                 *)
TypeOK ==
  /\ at \in [Halves -> {"Read", "Write", "Shutdown"}]
  /\ broken \subseteq Sides
  /\ ended_by \in Sides \cup {"None", "Shutdown"}
  /\ error \in BOOLEAN
  /\ \A h \in Halves :
       /\ 0 <= drained[h] /\ drained[h] <= out[h] /\ out[h] <= accepted[h]
       /\ moved[h] <= accepted[h] /\ accepted[h] <= taken[h]
       /\ taken[h] <= sent[h] /\ sent[h] <= MaxBytes
       /\ out[h] - drained[h] <= Window
       /\ eof[h] \in BOOLEAN

(* A source that ends its stream loses nothing by it: when its EOF is what *)
(* ended the session, every byte it sent is in the other side's socket,    *)
(* the ones rustls was still holding included.                             *)
NothingLostByEof ==
  \A h \in Halves :
    ended_by = source(h) /\ ~error /\ sink(h) \notin broken => out[h] = sent[h]

(* With peers that read, EOF on either side takes both sides down, however *)
(* full the buffers were and wherever the other copy waits.                *)
EofEndsBoth == \A h \in Halves : eof[h] ~> ~Up

(* With peers that read, whatever was read from the TLS stream reaches the *)
(* unix socket, unless the session ends.                                   *)
DownDelivers ==
  \A n \in 1..MaxBytes : taken["down"] >= n ~> (out["down"] >= n \/ ~Up)

(* README.md: snorkel copies bytes in both directions.  Whatever was read  *)
(* from the unix socket reaches the server, unless the session ends.       *)
UpDelivers ==
  \A n \in 1..MaxBytes : taken["up"] >= n ~> (out["up"] >= n \/ ~Up)

=============================================================================
