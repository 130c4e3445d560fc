------------------------ MODULE SnorkelSessionProofs ------------------------
(***************************************************************************)
(* Theorems about a session's two copies, for every size of the buffers.   *)
(***************************************************************************)
EXTENDS SnorkelSession, TLAPS

(* The order of the hands of one half, and what its position says of them: *)
(* the writer keeps back no more than its buffer holds, a copy that reads  *)
(* has handed over all it read, and one that shuts its writer down has     *)
(* handed over all there will ever be.                                     *)
HandsInv(h) ==
  /\ {sent[h], taken[h], accepted[h], out[h], drained[h], moved[h]} \subseteq Nat
  /\ drained[h] <= out[h] /\ out[h] <= accepted[h] /\ moved[h] <= accepted[h]
  /\ accepted[h] <= taken[h] /\ taken[h] <= sent[h] /\ sent[h] <= MaxBytes
  /\ out[h] - drained[h] <= Window
  /\ accepted[h] <= out[h] + limit(h)
  /\ at[h] = "Read" => accepted[h] = taken[h]
  /\ at[h] = "Shutdown" => eof[h] /\ taken[h] = sent[h] /\ accepted[h] = taken[h]

(* NothingLostByEof of one half.                                           *)
DeliveredInv(h) ==
  ended_by = source(h) /\ ~error /\ sink(h) \notin broken => out[h] = sent[h]

Counters == [Halves -> Nat]

SessionInv ==
  /\ at \in [Halves -> {"Read", "Write", "Shutdown"}]
  /\ sent \in Counters /\ taken \in Counters /\ accepted \in Counters
  /\ out \in Counters /\ drained \in Counters /\ moved \in Counters
  /\ eof \in [Halves -> BOOLEAN]
  /\ broken \subseteq Sides
  /\ ended_by \in Sides \cup {"None", "Shutdown"}
  /\ error \in BOOLEAN
  /\ \A h \in Halves : HandsInv(h) /\ DeliveredInv(h)

-----------------------------------------------------------------------------
(* The smaller of two.                                                     *)
LEMMA MinOfTwo ==
  ASSUME NEW a \in Int, NEW b \in Int
  PROVE  Min({a, b}) = IF a <= b THEN a ELSE b
<1>1. \E x \in {a, b} : \A y \in {a, b} : x <= y
  <2>1. CASE a <= b
    BY <2>1
  <2>2. CASE ~(a <= b)
    BY <2>2
  <2> QED BY <2>1, <2>2
<1>2. Min({a, b}) \in {a, b} /\ \A y \in {a, b} : Min({a, b}) <= y
  BY <1>1, Zenon DEF Min
<1> QED BY <1>2

(* What the writer does with a buffer it has accepted some of: nothing is  *)
(* taken back, nothing is passed on that was not offered, and the sink's   *)
(* socket is not overfilled.                                               *)
LEMMA PassOrder ==
  ASSUME SessionInv, NEW h \in Halves, NEW offered \in Nat, Pass(h, offered),
         accepted[h] <= offered
  PROVE  /\ out' = [out EXCEPT ![h] = out'[h]] /\ out'[h] \in Nat
         /\ accepted' = [accepted EXCEPT ![h] = accepted'[h]] /\ accepted'[h] \in Nat
         /\ out[h] <= out'[h] /\ out'[h] <= accepted'[h]
         /\ accepted[h] <= accepted'[h] /\ accepted'[h] <= offered
         /\ out'[h] - drained[h] <= Window
         /\ accepted'[h] <= out'[h] + limit(h)
<1>1. /\ out[h] \in Nat /\ drained[h] \in Nat /\ accepted[h] \in Nat
      /\ drained[h] <= out[h] /\ out[h] <= accepted[h]
      /\ out[h] - drained[h] <= Window /\ accepted[h] <= out[h] + limit(h)
      /\ out \in [Halves -> Nat] /\ accepted \in [Halves -> Nat]
  BY DEF SessionInv, HandsInv, Counters
<1>2. limit(h) \in Nat /\ Window \in Nat
  BY SizesAssumption DEF limit
<1>3. out[h] + room(h) = drained[h] + Window
  BY <1>1, <1>2 DEF room
<1>4. /\ out' = [out EXCEPT ![h] = Min({offered, drained[h] + Window})]
      /\ accepted' = [accepted EXCEPT ![h] = Min({offered, out'[h] + limit(h)})]
  BY <1>3 DEF Pass
<1>5. out'[h] = IF offered <= drained[h] + Window THEN offered ELSE drained[h] + Window
  <2>1. out'[h] = Min({offered, drained[h] + Window})
    BY <1>1, <1>4
  <2> QED BY <1>1, <1>2, <2>1, MinOfTwo
<1>6. out'[h] \in Nat /\ out[h] <= out'[h] /\ out'[h] <= offered
      /\ out'[h] - drained[h] <= Window
  BY <1>1, <1>2, <1>5
<1>7. accepted'[h] = IF offered <= out'[h] + limit(h) THEN offered ELSE out'[h] + limit(h)
  <2>1. accepted'[h] = Min({offered, out'[h] + limit(h)})
    BY <1>1, <1>4
  <2> QED BY <1>2, <1>6, <2>1, MinOfTwo
<1>8. /\ accepted'[h] \in Nat /\ accepted[h] <= accepted'[h] /\ accepted'[h] <= offered
      /\ out'[h] <= accepted'[h] /\ accepted'[h] <= out'[h] + limit(h)
  BY <1>1, <1>2, <1>6, <1>7
<1>9. /\ out' = [out EXCEPT ![h] = out'[h]]
      /\ accepted' = [accepted EXCEPT ![h] = accepted'[h]]
  BY <1>1, <1>4
<1> QED BY <1>6, <1>8, <1>9

-----------------------------------------------------------------------------
(* A copy of one half leaves the hands of the other alone.                 *)
LEMMA OtherHalf ==
  ASSUME SessionInv, NEW h \in Halves, NEW k \in Halves, k # h,
         at'[k] = at[k], sent'[k] = sent[k], taken'[k] = taken[k],
         accepted'[k] = accepted[k], out'[k] = out[k], drained'[k] = drained[k],
         moved'[k] = moved[k], eof'[k] = eof[k]
  PROVE  HandsInv(k)'
BY DEF SessionInv, HandsInv, limit

(* While the session is up nothing is owed, and a copy that only works on  *)
(* keeps it up.                                                            *)
LEMMA StillUp ==
  ASSUME Up, ended_by' = ended_by, NEW k \in Halves
  PROVE  DeliveredInv(k)'
BY DEF Up, DeliveredInv, source

(* A read stays within what the source has sent.                           *)
LEMMA ReadStep ==
  ASSUME SessionInv, NEW h \in Halves, Read(h)
  PROVE  SessionInv'
<1>1. PICK n \in 1..Min({COPY_BUFFER, sent[h] - taken[h]}) :
        taken' = [taken EXCEPT ![h] = @ + n]
  BY DEF Read
<1>2. sent[h] \in Nat /\ taken[h] \in Nat /\ COPY_BUFFER \in Nat
  BY SizesAssumption DEF SessionInv, HandsInv
<1>3. n \in Nat /\ taken[h] + n <= sent[h]
  <2>1. Min({COPY_BUFFER, sent[h] - taken[h]})
          = IF COPY_BUFFER <= sent[h] - taken[h] THEN COPY_BUFFER ELSE sent[h] - taken[h]
    BY <1>2, MinOfTwo
  <2> QED BY <1>2, <2>1
<1>4. /\ Up /\ at[h] = "Read" /\ at' = [at EXCEPT ![h] = "Write"]
      /\ UNCHANGED <<accepted, out, moved, ended_by, error, sent, drained, eof, broken>>
  BY DEF Read, peerVars
<1>5. at' \in [Halves -> {"Read", "Write", "Shutdown"}] /\ taken' \in Counters
  BY <1>1, <1>2, <1>3, <1>4 DEF SessionInv, Counters
<1>6. HandsInv(h)'
  <2>1. taken'[h] = taken[h] + n /\ at'[h] = "Write"
    BY <1>1, <1>4 DEF SessionInv, Counters
  <2> QED BY <1>2, <1>3, <1>4, <2>1 DEF SessionInv, HandsInv, limit
<1>7. ASSUME NEW k \in Halves, k # h PROVE HandsInv(k)'
  BY <1>1, <1>4, <1>7, OtherHalf DEF SessionInv, Counters
<1>8. \A k \in Halves : DeliveredInv(k)'
  BY <1>4, StillUp
<1> QED BY <1>4, <1>5, <1>6, <1>7, <1>8 DEF SessionInv

(* At EOF the copy has handed over all there will ever be.                 *)
LEMMA ReadEofStep ==
  ASSUME SessionInv, NEW h \in Halves, ReadEof(h)
  PROVE  SessionInv'
<1>1. /\ Up /\ at[h] = "Read" /\ eof[h] /\ taken[h] = sent[h]
      /\ at' = [at EXCEPT ![h] = "Shutdown"]
      /\ UNCHANGED <<taken, accepted, out, moved, ended_by, error, sent, drained, eof,
                     broken>>
  BY DEF ReadEof, peerVars
<1>2. at' \in [Halves -> {"Read", "Write", "Shutdown"}]
  BY <1>1 DEF SessionInv
<1>3. HandsInv(h)'
  <2>1. at'[h] = "Shutdown"
    BY <1>1 DEF SessionInv
  <2> QED BY <1>1, <2>1 DEF SessionInv, HandsInv, limit
<1>4. ASSUME NEW k \in Halves, k # h PROVE HandsInv(k)'
  BY <1>1, <1>4, OtherHalf DEF SessionInv
<1>5. \A k \in Halves : DeliveredInv(k)'
  BY <1>1, StillUp
<1> QED BY <1>1, <1>2, <1>3, <1>4, <1>5 DEF SessionInv

(* A write moves the hands in order, and only a whole buffer counts.       *)
LEMMA WriteStep ==
  ASSUME SessionInv, NEW h \in Halves, Write(h)
  PROVE  SessionInv'
<1>1. /\ Up /\ at[h] = "Write" /\ Pass(h, taken[h])
      /\ UNCHANGED <<taken, ended_by, error, sent, drained, eof, broken>>
  BY DEF Write, peerVars
<1>2. taken[h] \in Nat /\ accepted[h] <= taken[h] /\ accepted[h] \in Nat
  BY DEF SessionInv, HandsInv
<1>3. /\ out' = [out EXCEPT ![h] = out'[h]] /\ out'[h] \in Nat
      /\ accepted' = [accepted EXCEPT ![h] = accepted'[h]] /\ accepted'[h] \in Nat
      /\ out[h] <= out'[h] /\ out'[h] <= accepted'[h]
      /\ accepted[h] <= accepted'[h] /\ accepted'[h] <= taken[h]
      /\ out'[h] - drained[h] <= Window
      /\ accepted'[h] <= out'[h] + limit(h)
  BY <1>1, <1>2, PassOrder
<1>4. out' \in Counters /\ accepted' \in Counters
  BY <1>3 DEF SessionInv, Counters
<1>5. CASE accepted'[h] = taken[h]
  <2>1. /\ at' = [at EXCEPT ![h] = "Read"] /\ moved' = [moved EXCEPT ![h] = taken[h]]
    BY <1>5 DEF Write
  <2>2. at' \in [Halves -> {"Read", "Write", "Shutdown"}] /\ moved' \in Counters
    BY <1>2, <2>1 DEF SessionInv, Counters
  <2>3. at'[h] = "Read" /\ moved'[h] = taken[h]
    BY <2>1 DEF SessionInv, Counters
  <2>4. HandsInv(h)'
    BY <1>1, <1>2, <1>3, <1>5, <2>3 DEF SessionInv, HandsInv, limit
  <2>5. ASSUME NEW k \in Halves, k # h PROVE HandsInv(k)'
    <3>1. out'[k] = out[k] /\ accepted'[k] = accepted[k]
      BY <1>3, <2>5 DEF SessionInv, Counters
    <3>2. at'[k] = at[k] /\ moved'[k] = moved[k]
      BY <2>1, <2>5 DEF SessionInv, Counters
    <3> QED BY <1>1, <2>5, <3>1, <3>2, OtherHalf
  <2>6. \A k \in Halves : DeliveredInv(k)'
    BY <1>1, StillUp
  <2> QED BY <1>1, <1>4, <2>2, <2>4, <2>5, <2>6 DEF SessionInv
<1>6. CASE accepted'[h] # taken[h]
  <2>1. UNCHANGED <<at, moved>>
    BY <1>6 DEF Write
  <2>2. HandsInv(h)'
    BY <1>1, <1>2, <1>3, <2>1 DEF SessionInv, HandsInv, limit
  <2>3. ASSUME NEW k \in Halves, k # h PROVE HandsInv(k)'
    <3>1. out'[k] = out[k] /\ accepted'[k] = accepted[k]
      BY <1>3, <2>3 DEF SessionInv, Counters
    <3> QED BY <1>1, <2>1, <2>3, <3>1, OtherHalf
  <2>4. \A k \in Halves : DeliveredInv(k)'
    BY <1>1, StillUp
  <2> QED BY <1>1, <1>4, <2>1, <2>2, <2>3, <2>4 DEF SessionInv
<1> QED BY <1>5, <1>6


(* The writer of an ended stream is shut down: what rustls kept goes out   *)
(* first, and only then does the copy return.                              *)
LEMMA ShutdownWriterStep ==
  ASSUME SessionInv, NEW h \in Halves, ShutdownWriter(h)
  PROVE  SessionInv'
<1>1. /\ Up /\ at[h] = "Shutdown" /\ Pass(h, accepted[h])
      /\ UNCHANGED <<at, taken, moved, sent, drained, eof, broken>>
  BY DEF ShutdownWriter, peerVars
<1>2. /\ accepted[h] \in Nat /\ accepted[h] <= accepted[h]
      /\ taken[h] = sent[h] /\ accepted[h] = taken[h]
  BY <1>1 DEF SessionInv, HandsInv
<1>3. /\ out' = [out EXCEPT ![h] = out'[h]] /\ out'[h] \in Nat
      /\ accepted' = [accepted EXCEPT ![h] = accepted'[h]] /\ accepted'[h] \in Nat
      /\ out[h] <= out'[h] /\ out'[h] <= accepted'[h]
      /\ accepted[h] <= accepted'[h] /\ accepted'[h] <= accepted[h]
      /\ out'[h] - drained[h] <= Window
      /\ accepted'[h] <= out'[h] + limit(h)
  BY <1>1, <1>2, PassOrder
<1>4. out' \in Counters /\ accepted' \in Counters
  BY <1>3 DEF SessionInv, Counters
<1>5. accepted'[h] = accepted[h]
  BY <1>2, <1>3
<1>6. HandsInv(h)'
  BY <1>1, <1>2, <1>3, <1>5 DEF SessionInv, HandsInv, limit
<1>7. ASSUME NEW k \in Halves, k # h PROVE HandsInv(k)'
  <2>1. out'[k] = out[k] /\ accepted'[k] = accepted[k]
    BY <1>3, <1>7 DEF SessionInv, Counters
  <2> QED BY <1>1, <1>7, <2>1, OtherHalf
<1>8. CASE Ends(h, FALSE) /\ out'[h] = accepted[h]
  <2>1. ended_by' = source(h) /\ error' = FALSE
    BY <1>8 DEF Ends
  <2>2. ended_by' \in Sides
    BY <2>1 DEF source, Sides
  <2>3. ASSUME NEW k \in Halves PROVE DeliveredInv(k)'
    <3>1. CASE k = h
      BY <1>1, <1>2, <1>8, <3>1 DEF DeliveredInv
    <3>2. CASE k # h
      BY <2>1, <3>2 DEF DeliveredInv, source, Halves
    <3> QED BY <3>1, <3>2
  <2> QED BY <1>1, <1>4, <1>6, <1>7, <2>1, <2>2, <2>3 DEF SessionInv
<1>9. CASE UNCHANGED <<ended_by, error>>
  <2>1. \A k \in Halves : DeliveredInv(k)'
    BY <1>1, <1>9, StillUp
  <2> QED BY <1>1, <1>4, <1>6, <1>7, <1>9, <2>1 DEF SessionInv
<1> QED BY <1>8, <1>9 DEF ShutdownWriter

(* A step that moves no byte and ends nothing new keeps the hands.         *)
LEMMA HandsStay ==
  ASSUME SessionInv, NEW k \in Halves,
         UNCHANGED <<at, sent, taken, accepted, out, drained, moved, eof>>
  PROVE  HandsInv(k)'
BY DEF SessionInv, HandsInv, limit

(* A failed copy owes nothing: it reports its error, or its sink is gone.  *)
LEMMA FailsStep ==
  ASSUME SessionInv, NEW h \in Halves, Fails(h)
  PROVE  SessionInv'
<1>1. UNCHANGED <<at, sent, taken, accepted, out, drained, moved, eof, broken>>
  BY DEF Fails, peerVars
<1>2. ended_by' = source(h) /\ error' \in BOOLEAN
  BY DEF Fails, Ends
<1>3. error' \/ sink(h) \in broken
  BY DEF Fails, Ends
<1>4. ended_by' \in Sides
  BY <1>2 DEF source, Sides
<1>5. \A k \in Halves : HandsInv(k)'
  BY <1>1, HandsStay
<1>6. ASSUME NEW k \in Halves PROVE DeliveredInv(k)'
  <2>1. CASE k = h
    BY <1>1, <1>3, <2>1 DEF DeliveredInv
  <2>2. CASE k # h
    BY <1>2, <2>2 DEF DeliveredInv, source, Halves
  <2> QED BY <2>1, <2>2
<1> QED BY <1>1, <1>2, <1>4, <1>5, <1>6 DEF SessionInv

(* A dropped session is nobody's EOF.                                      *)
LEMMA ShutdownStep ==
  ASSUME SessionInv, Shutdown
  PROVE  SessionInv'
<1>1. /\ UNCHANGED <<at, sent, taken, accepted, out, drained, moved, eof, broken, error>>
      /\ ended_by' = "Shutdown"
  BY DEF Shutdown, peerVars
<1>2. \A k \in Halves : HandsInv(k)'
  BY <1>1, HandsStay
<1>3. \A k \in Halves : DeliveredInv(k)'
  BY <1>1 DEF DeliveredInv, source
<1> QED BY <1>1, <1>2, <1>3 DEF SessionInv

-----------------------------------------------------------------------------
(* The peers.                                                              *)
LEMMA PeerStep ==
  ASSUME SessionInv, NEW h \in Halves, PeerSends(h) \/ PeerCloses(h) \/ PeerReads(h)
  PROVE  SessionInv'
<1>1. /\ Up /\ UNCHANGED <<at, taken, accepted, out, moved, ended_by, error, broken>>
  BY DEF PeerSends, PeerCloses, PeerReads, copyVars
<1>2. \A k \in Halves : DeliveredInv(k)'
  BY <1>1, StillUp
<1>3. /\ sent \in [Halves -> Nat] /\ drained \in [Halves -> Nat] /\ out \in [Halves -> Nat]
      /\ eof \in [Halves -> BOOLEAN] /\ MaxBytes \in Nat /\ Window \in Nat
  BY SizesAssumption DEF SessionInv, Counters
<1>4. CASE PeerSends(h)
  <2>1. /\ ~eof[h] /\ sent[h] < MaxBytes /\ sent' = [sent EXCEPT ![h] = @ + 1]
        /\ UNCHANGED <<drained, eof>>
    BY <1>4 DEF PeerSends
  <2>2. sent' \in Counters /\ sent'[h] = sent[h] + 1
    BY <1>3, <2>1 DEF Counters
  <2>3. HandsInv(h)'
    BY <1>1, <1>3, <2>1, <2>2 DEF SessionInv, HandsInv, limit
  <2>4. ASSUME NEW k \in Halves, k # h PROVE HandsInv(k)'
    <3>1. sent'[k] = sent[k]
      BY <1>3, <2>1, <2>4
    <3> QED BY <1>1, <2>1, <2>4, <3>1, OtherHalf
  <2> QED BY <1>1, <1>2, <2>1, <2>2, <2>3, <2>4 DEF SessionInv
<1>5. CASE PeerCloses(h)
  <2>1. eof' = [eof EXCEPT ![h] = TRUE] /\ UNCHANGED <<sent, drained>>
    BY <1>5 DEF PeerCloses
  <2>2. eof' \in [Halves -> BOOLEAN] /\ eof'[h]
    BY <1>3, <2>1
  <2>3. HandsInv(h)'
    BY <1>1, <2>1, <2>2 DEF SessionInv, HandsInv, limit
  <2>4. ASSUME NEW k \in Halves, k # h PROVE HandsInv(k)'
    <3>1. eof'[k] = eof[k]
      BY <1>3, <2>1, <2>4
    <3> QED BY <1>1, <2>1, <2>4, <3>1, OtherHalf
  <2> QED BY <1>1, <1>2, <2>1, <2>2, <2>3, <2>4 DEF SessionInv
<1>6. CASE PeerReads(h)
  <2>1. /\ drained[h] < out[h] /\ drained' = [drained EXCEPT ![h] = @ + 1]
        /\ UNCHANGED <<sent, eof>>
    BY <1>6 DEF PeerReads
  <2>2. drained' \in Counters /\ drained'[h] = drained[h] + 1
    BY <1>3, <2>1 DEF Counters
  <2>3. HandsInv(h)'
    BY <1>1, <1>3, <2>1, <2>2 DEF SessionInv, HandsInv, limit
  <2>4. ASSUME NEW k \in Halves, k # h PROVE HandsInv(k)'
    <3>1. drained'[k] = drained[k]
      BY <1>3, <2>1, <2>4
    <3> QED BY <1>1, <2>1, <2>4, <3>1, OtherHalf
  <2> QED BY <1>1, <1>2, <2>1, <2>2, <2>3, <2>4 DEF SessionInv
<1> QED BY <1>4, <1>5, <1>6

(* A connection fails.                                                     *)
LEMMA BreaksStep ==
  ASSUME SessionInv, NEW s \in Sides, Breaks(s)
  PROVE  SessionInv'
<1>1. /\ Up /\ broken' = broken \cup {s}
      /\ UNCHANGED <<at, sent, taken, accepted, out, drained, moved, eof, ended_by, error>>
  BY DEF Breaks, copyVars
<1>2. \A k \in Halves : HandsInv(k)' /\ DeliveredInv(k)'
  BY <1>1, HandsStay, StillUp
<1>3. broken' \subseteq Sides
  BY <1>1 DEF SessionInv
<1> QED BY <1>1, <1>2, <1>3 DEF SessionInv

-----------------------------------------------------------------------------
(* Every step keeps SessionInv.                                            *)
LEMMA SessionStep == SessionInv /\ [Next]_vars => SessionInv'
<1> SUFFICES ASSUME SessionInv, [Next]_vars PROVE SessionInv'
  OBVIOUS
<1>1. ASSUME NEW h \in Halves, Copy(h) PROVE SessionInv'
  BY <1>1, ReadStep, ReadEofStep, WriteStep, ShutdownWriterStep, FailsStep DEF Copy
<1>2. CASE UNCHANGED vars
  <2>1. /\ UNCHANGED <<at, sent, taken, accepted, out, drained, moved, eof>>
        /\ UNCHANGED <<broken, ended_by, error>>
    BY <1>2 DEF vars
  <2>2. \A k \in Halves : HandsInv(k)'
    BY <2>1, HandsStay
  <2>3. \A k \in Halves : DeliveredInv(k)'
    BY <2>1 DEF SessionInv, DeliveredInv
  <2> QED BY <2>1, <2>2, <2>3 DEF SessionInv
<1> QED BY <1>1, <1>2, PeerStep, BreaksStep, ShutdownStep DEF Next

(* SessionInv always holds.                                                *)
LEMMA SessionAlways == Spec => []SessionInv
<1>1. Init => SessionInv
  <2> SUFFICES ASSUME Init PROVE SessionInv
    OBVIOUS
  <2>1. \A h \in Halves : limit(h) \in Nat
    BY SizesAssumption DEF limit
  <2>2. ASSUME NEW h \in Halves PROVE HandsInv(h)
    BY <2>1, SizesAssumption DEF Init, HandsInv
  <2>3. \A h \in Halves : DeliveredInv(h)
    BY DEF Init, DeliveredInv, source
  <2>4. /\ sent \in Counters /\ at \in [Halves -> {"Read", "Write", "Shutdown"}]
        /\ eof \in [Halves -> BOOLEAN]
    BY DEF Init, Counters
  <2> QED BY <2>2, <2>3, <2>4 DEF Init, SessionInv
<1> QED BY <1>1, SessionStep, PTL DEF Spec

(* Type correctness of the two copies, and the order of the hands a byte   *)
(* goes through, whatever the buffers hold and however the peers read.     *)
THEOREM TypeCorrect == Spec => []TypeOK
<1>1. SessionInv => TypeOK
  BY DEF SessionInv, HandsInv, TypeOK
<1> QED BY <1>1, SessionAlways, PTL

(* A source whose EOF ended the session has lost nothing by it: all it     *)
(* sent is in the other side's socket, whatever rustls kept back.          *)
THEOREM NothingEverLostByEof == Spec => []NothingLostByEof
<1>1. SessionInv => NothingLostByEof
  BY DEF SessionInv, DeliveredInv, NothingLostByEof
<1> QED BY <1>1, SessionAlways, PTL

=============================================================================
