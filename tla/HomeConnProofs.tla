--------------------------- MODULE HomeConnProofs ---------------------------
(***************************************************************************)
(* Theorems about one home connection, for every frame size and every      *)
(* number of frames and messages.                                          *)
(***************************************************************************)
EXTENDS HomeConn, TLAPS

(* Why a read stays within its buffer and the queue never runs below zero  *)
(* or beyond what the hub queued.                                          *)
CountsInv ==
  /\ want = 0 => got < LengthSize
  /\ out <= queued

(* What the task and the hub know of each other.  Before the link is       *)
(* announced the hub has nothing of it; an announcement in the channel has *)
(* not been answered; a hub that is gone holds neither Link nor messages,  *)
(* and only a hub that is gone leaves the task without a generation.       *)
ChannelInv ==
  /\ at = "Tls" => toHub = <<>> /\ link = "None" /\ binding # "Sent"
  /\ \A k \in 1..Len(toHub) : toHub[k] = "Accepted" => binding = "Open"
  /\ ~hub => toHub = <<>> /\ link # "Held"
  /\ binding = "Closed" => ~hub
  /\ EndReachesHub
  /\ EofIsLast

(* The sizes are naturals, and so is the length of all the leader sends.   *)
LEMMA Sizes ==
  /\ LengthSize \in Nat /\ LengthSize > 0
  /\ FrameSize \in Nat /\ LengthSize < FrameSize
  /\ MaxFrames \in Nat /\ MaxOut \in Nat
BY SizesAssumption

-----------------------------------------------------------------------------
(* Types.                                                                  *)

(* A message put into the hub's channel keeps its type.                    *)
LEMMA SendTyped ==
  ASSUME TypeOK, NEW m \in {"Accepted", "HomeFrame", "HomeEof"}, Send(m)
  PROVE  toHub' \in Seq({"Accepted", "HomeFrame", "HomeEof"})
BY DEF TypeOK, Send

(* One step keeps the types and the counts.                                *)
LEMMA TypeStep == TypeOK /\ CountsInv /\ [Next]_vars => TypeOK' /\ CountsInv'
<1> SUFFICES ASSUME TypeOK, CountsInv, [Next]_vars PROVE TypeOK' /\ CountsInv'
  OBVIOUS
<1> USE Sizes DEF taskVars, hubVars
<1>1. CASE AcceptTls
  BY <1>1, SendTyped DEF AcceptTls, TypeOK, CountsInv
<1>2. CASE AwaitBind
  BY <1>2 DEF AwaitBind, TypeOK, CountsInv
<1>3. CASE WriteRegister \/ FinishWrite
  BY <1>3, SendTyped DEF WriteRegister, FinishWrite, EndTold, TypeOK, CountsInv
<1>4. CASE ReadPiece
  <2> DEFINE all == MaxFrames * FrameSize
  <2>1. all \in Int /\ taken \in 0..all /\ taken < all /\ taken' = taken + 1
    BY <1>4 DEF ReadPiece, TypeOK
  <2> HIDE DEF all
  <2>2. taken' \in 0..all
    BY <2>1
  <2>3. /\ got' \in 0..(2 * FrameSize)
        /\ want' \in {0} \cup LengthSize..(2 * FrameSize)
        /\ want' = 0 => got' < LengthSize
    <3>1. CASE got + 1 < LengthSize \/ want # 0
      BY <1>4, <3>1 DEF ReadPiece, TypeOK, CountsInv
    <3>2. CASE ~(got + 1 < LengthSize \/ want # 0)
      <4>1. \/ /\ got' = got + 1
               /\ want' = FrameSize \/ want' \in LengthSize..(2 * FrameSize)
            \/ got' = 0 /\ want' = 0
        BY <1>4, <3>2 DEF ReadPiece, NewRead
      <4> QED BY <3>2, <4>1 DEF TypeOK, CountsInv
    <3> QED BY <3>1, <3>2
  <2>4. /\ at' \in {at, "Done"}
        /\ toHub' \in Seq({"Accepted", "HomeFrame", "HomeEof"})
        /\ UNCHANGED <<out, link, binding, hub, queued>>
    BY <1>4, SendTyped DEF ReadPiece, EndTold, TypeOK
  <2> QED BY <2>2, <2>3, <2>4 DEF TypeOK, CountsInv, all
<1>5. CASE FrameRead \/ ReadFails
  BY <1>5, SendTyped DEF FrameRead, ReadFails, EndTold, NewRead, TypeOK, CountsInv
<1>6. CASE StartWrite \/ Halted
  BY <1>6 DEF StartWrite, Halted, NewRead, TypeOK, CountsInv
<1>7. CASE HubReceives
  <2>1. toHub' \in Seq({"Accepted", "HomeFrame", "HomeEof"})
    BY <1>7 DEF HubReceives, TypeOK
  <2>2. out' \in 0..MaxOut /\ queued' \in 0..MaxOut /\ out' <= queued'
    BY <1>7 DEF HubReceives, TypeOK, CountsInv
  <2> QED BY <1>7, <2>1, <2>2 DEF HubReceives, TypeOK, CountsInv
<1>8. CASE HubSends \/ HubDrops
  <2>1. CASE HubSends
    BY <2>1 DEF HubSends, TypeOK, CountsInv
  <2>2. CASE HubDrops
    BY <2>2 DEF HubDrops, TypeOK, CountsInv
  <2> QED BY <1>8, <2>1, <2>2
<1>9. CASE HubStops
  <2>1. toHub' \in Seq({"Accepted", "HomeFrame", "HomeEof"})
    BY <1>9 DEF HubStops
  <2> QED BY <1>9, <2>1 DEF HubStops, TypeOK, CountsInv
<1>10. CASE UNCHANGED vars
  BY <1>10 DEF vars, TypeOK, CountsInv
<1> QED
  BY <1>1, <1>2, <1>3, <1>4, <1>5, <1>6, <1>7, <1>8, <1>9, <1>10 DEF Next

(* Type correctness of a home connection: a read never holds more than two *)
(* frames, and no message is taken from an empty queue.                    *)
THEOREM TypeCorrect == Spec => []TypeOK
<1>1. Init => TypeOK /\ CountsInv
  <2> DEFINE all == MaxFrames * FrameSize
  <2>1. all \in Nat
    BY Sizes
  <2> HIDE DEF all
  <2>2. Init => taken \in 0..all
    BY <2>1 DEF Init
  <2> QED BY <2>2, Sizes DEF Init, TypeOK, CountsInv, all
<1> QED BY <1>1, TypeStep, PTL DEF Spec

-----------------------------------------------------------------------------
(* The end of a connection.                                                *)

(* A task that is not done puts a message at the end of what it has said,  *)
(* none of which is an end.                                                *)
LEMMA SendAppends ==
  ASSUME TypeOK, EofIsLast, at # "Done", hub, NEW m, Send(m)
  PROVE  /\ Len(toHub') = Len(toHub) + 1
         /\ toHub'[Len(toHub')] = m
         /\ \A k \in 1..Len(toHub) : toHub'[k] = toHub[k] /\ toHub[k] # "HomeEof"
BY DEF TypeOK, EofIsLast, Send

(* Telling the hub of the end keeps the channel in order.                  *)
LEMMA EndKeepsOrder ==
  ASSUME TypeOK, ChannelInv, at \in {"Register", "Loop", "Writing"}, EndTold,
         UNCHANGED hubVars
  PROVE  ChannelInv'
<1> USE DEF hubVars
<1>1. CASE hub
  <2>1. /\ Len(toHub') = Len(toHub) + 1 /\ Len(toHub) \in Nat
        /\ toHub'[Len(toHub')] = "HomeEof"
        /\ \A k \in 1..Len(toHub) : toHub'[k] = toHub[k] /\ toHub[k] # "HomeEof"
    BY <1>1, SendAppends DEF EndTold, ChannelInv, TypeOK
  <2>2. \A k \in 1..Len(toHub) : toHub[k] # "Accepted"
    BY DEF ChannelInv, EofIsLast
  <2>3. at' = "Done"
    BY DEF EndTold
  <2>4. EofIsLast'
    BY <2>1, <2>2, <2>3 DEF EofIsLast
  <2>5. EndReachesHub'
    BY <2>1 DEF EndReachesHub
  <2> QED BY <1>1, <2>1, <2>2, <2>3, <2>4, <2>5 DEF ChannelInv
<1>2. CASE ~hub
  <2>1. toHub' = <<>> /\ at' = "Done"
    BY <1>2 DEF EndTold, Send, ChannelInv
  <2> QED BY <1>2, <2>1 DEF ChannelInv, EofIsLast, EndReachesHub
<1> QED BY <1>1, <1>2

(* One step keeps the channel in order.                                    *)
LEMMA ChannelStep == TypeOK /\ ChannelInv /\ [Next]_vars => ChannelInv'
<1> SUFFICES ASSUME TypeOK, ChannelInv, [Next]_vars PROVE ChannelInv'
  OBVIOUS
<1> USE DEF taskVars, hubVars
<1>a. ASSUME UNCHANGED <<toHub, hubVars>>, at' = at PROVE ChannelInv'
  BY <1>a DEF ChannelInv, EofIsLast, EndReachesHub
<1>b. ASSUME UNCHANGED <<toHub, hubVars>>, at \in {"Register", "Loop", "Writing"},
             at' \in {"Loop", "Writing"}
      PROVE  ChannelInv'
  BY <1>b DEF ChannelInv, EofIsLast, EndReachesHub
<1>1. CASE AcceptTls
  <2>1. toHub = <<>> /\ link = "None" /\ binding # "Sent" /\ UNCHANGED hubVars
    BY <1>1 DEF AcceptTls, ChannelInv
  <2>2. CASE toHub' = <<>> /\ at' = "Done"
    BY <2>1, <2>2 DEF ChannelInv, EofIsLast, EndReachesHub
  <2>3. CASE hub /\ at' = "Bind" /\ Send("Accepted")
    <3>1. Len(toHub') = 1 /\ toHub'[1] = "Accepted"
      BY <2>1, <2>3 DEF Send
    <3>2. binding = "Open"
      BY <2>1, <2>3 DEF ChannelInv, TypeOK
    <3> QED BY <2>1, <2>3, <3>1, <3>2 DEF ChannelInv, EofIsLast, EndReachesHub
  <2> QED BY <1>1, <2>1, <2>2, <2>3 DEF AcceptTls, Send
<1>2. CASE AwaitBind
  <2>1. \A k \in 1..Len(toHub) : toHub[k] # "Accepted" /\ toHub[k] # "HomeEof"
    BY <1>2 DEF AwaitBind, ChannelInv, EofIsLast
  <2>2. at' = "Done" => link # "Held"
    BY <1>2 DEF AwaitBind, ChannelInv
  <2> QED BY <1>2, <2>1, <2>2 DEF AwaitBind, ChannelInv, EofIsLast, EndReachesHub
<1>3. CASE WriteRegister \/ FinishWrite
  BY <1>3, <1>b, EndKeepsOrder DEF WriteRegister, FinishWrite
<1>4. CASE ReadPiece
  BY <1>4, <1>a, EndKeepsOrder DEF ReadPiece
<1>5. CASE FrameRead
  <2>1. CASE hub
    <3>1. Send("HomeFrame") /\ at = "Loop" /\ at' = "Loop" /\ UNCHANGED hubVars
      BY <1>5, <2>1 DEF FrameRead
    <3>2. /\ Len(toHub') = Len(toHub) + 1 /\ Len(toHub) \in Nat
          /\ toHub'[Len(toHub')] = "HomeFrame"
          /\ \A k \in 1..Len(toHub) : toHub'[k] = toHub[k] /\ toHub[k] # "HomeEof"
      BY <2>1, <3>1, SendAppends DEF ChannelInv, TypeOK
    <3>3. \A k \in 1..Len(toHub) : toHub[k] # "Accepted"
      BY <3>1 DEF ChannelInv, EofIsLast
    <3>4. \A k \in 1..Len(toHub') : toHub'[k] # "HomeEof" /\ toHub'[k] # "Accepted"
      BY <3>2, <3>3
    <3> QED BY <2>1, <3>1, <3>4 DEF ChannelInv, EofIsLast, EndReachesHub
  <2>2. CASE ~hub
    <3>1. toHub' = <<>> /\ at' = "Done" /\ UNCHANGED hubVars
      BY <1>5, <2>2 DEF FrameRead, Send, ChannelInv
    <3> QED BY <2>2, <3>1 DEF ChannelInv, EofIsLast, EndReachesHub
  <2> QED BY <2>1, <2>2
<1>6. CASE ReadFails
  BY <1>6, EndKeepsOrder DEF ReadFails
<1>7. CASE StartWrite
  BY <1>7, <1>b DEF StartWrite
<1>8. CASE Halted
  <2>1. \A k \in 1..Len(toHub) : toHub[k] # "Accepted" /\ toHub[k] # "HomeEof"
    BY <1>8 DEF Halted, ChannelInv, EofIsLast
  <2> QED BY <1>8, <2>1 DEF Halted, ChannelInv, EofIsLast, EndReachesHub
<1>9. CASE HubReceives
  <2>1. /\ hub /\ toHub # <<>> /\ toHub' = Tail(toHub) /\ UNCHANGED <<at, hub>>
    BY <1>9 DEF HubReceives
  <2>2. /\ Len(toHub) \in Nat /\ Len(toHub) > 0 /\ Len(toHub') = Len(toHub) - 1
        /\ Head(toHub) = toHub[1]
        /\ \A k \in 1..Len(toHub') : toHub'[k] = toHub[k + 1]
    BY <2>1 DEF TypeOK
  <2>a. \/ Head(toHub) = "Accepted" /\ link' = "Held" /\ binding' = "Sent"
        \/ Head(toHub) = "HomeFrame" /\ link' \in {link, "Dropped"} /\ binding' = binding
        \/ Head(toHub) = "HomeEof" /\ link' = "Dropped" /\ binding' = binding
    BY <1>9 DEF HubReceives
  <2>3. \A k \in 1..Len(toHub') : toHub'[k] # "Accepted"
    BY <2>2 DEF ChannelInv, EofIsLast
  <2>4. EofIsLast'
    <3>1. ASSUME NEW k \in 1..Len(toHub'), toHub'[k] = "HomeEof"
          PROVE  k = Len(toHub') /\ at = "Done"
      <4>1. k + 1 \in 1..Len(toHub) /\ toHub[k + 1] = "HomeEof"
        BY <2>2, <3>1
      <4>2. k + 1 = Len(toHub) /\ at = "Done"
        BY <4>1 DEF ChannelInv, EofIsLast
      <4> QED BY <2>2, <4>2
    <3> QED BY <2>1, <2>3, <3>1 DEF EofIsLast
  <2>5. at # "Tls" /\ binding' # "Closed"
    BY <2>1, <2>a DEF ChannelInv
  <2>6. EndReachesHub'
    <3>1. CASE at = "Done" /\ link' = "Held"
      <4>1. toHub[1] = "HomeFrame" /\ link = "Held"
        BY <2>2, <2>a, <3>1 DEF ChannelInv, EofIsLast
      <4>2. PICK k \in 1..Len(toHub) : toHub[k] = "HomeEof"
        BY <3>1, <4>1 DEF ChannelInv, EndReachesHub
      <4>3. k - 1 \in 1..Len(toHub') /\ toHub'[k - 1] = "HomeEof"
        BY <2>2, <4>1, <4>2
      <4> QED BY <4>3 DEF EndReachesHub
    <3>2. CASE ~(at = "Done" /\ link' = "Held")
      BY <2>1, <3>2 DEF EndReachesHub
    <3> QED BY <3>1, <3>2
  <2> QED BY <2>1, <2>3, <2>4, <2>5, <2>6 DEF ChannelInv
<1>10. CASE HubSends
  BY <1>10, <1>a DEF HubSends, ChannelInv, EofIsLast, EndReachesHub
<1>11. CASE HubDrops
  BY <1>11 DEF HubDrops, ChannelInv, EofIsLast, EndReachesHub
<1>12. CASE HubStops
  <2>1. Len(toHub') = 0
    BY <1>12 DEF HubStops
  <2> QED BY <1>12, <2>1 DEF HubStops, ChannelInv, EofIsLast, EndReachesHub
<1>13. CASE UNCHANGED vars
  BY <1>13, <1>a DEF vars
<1> QED
  BY <1>1, <1>2, <1>3, <1>4, <1>5, <1>6, <1>7, <1>8, <1>9, <1>10, <1>11, <1>12, <1>13
  DEF Next

(* The channel is always in order.                                         *)
LEMMA ChannelAlways == Spec => []ChannelInv
<1>1. Init => ChannelInv
  BY DEF Init, ChannelInv, EofIsLast, EndReachesHub
<1> QED BY <1>1, TypeCorrect, ChannelStep, PTL DEF Spec

(* Whichever way the task ends, a hub that still holds the Link has the    *)
(* HomeEof that makes it let go in its channel: no dead link serves for    *)
(* good.                                                                   *)
THEOREM EndAlwaysReachesHub == Spec => []EndReachesHub
<1>1. ChannelInv => EndReachesHub
  BY DEF ChannelInv
<1> QED BY <1>1, ChannelAlways, PTL

(* A connection reports its end once, last of all, and its announcement    *)
(* first of all.                                                           *)
THEOREM EofAlwaysLast == Spec => []EofIsLast
<1>1. ChannelInv => EofIsLast
  BY DEF ChannelInv
<1> QED BY <1>1, ChannelAlways, PTL

=============================================================================
