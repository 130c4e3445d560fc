---------------------------- MODULE TopsideProofs ----------------------------
(***************************************************************************)
(* Theorems about topside's tasks, for every set of phone connections and  *)
(* every number of texts, and about the token at its phones' port, for     *)
(* every alphabet and every length of token and header.                    *)
(***************************************************************************)
EXTENDS MCTopside, TextProofs

(* What may be in the hub's channel.                                       *)
Message == [kind : {"Hello", "Text", "Eof"}, conn : Conns] \cup [kind : {"Shutdown"}]

(* Types, and the counts that keep an unbounded channel's length a natural *)
(* number: no more is waiting for a phone than was queued for it.          *)
CountsInv ==
  /\ TypeOK
  /\ queue \in Seq(Message)
  /\ queued \in [Conns -> 0..MaxOut]
  /\ \A c \in Conns : out[c] <= queued[c]

Says(m, c) == m.kind # "Shutdown" /\ m.conn = c

(* A phone in its loop.                                                    *)
InLoop(c) == task[c] \in {"Loop", "Writing", "Pong"}

(* The hub runs while serve does, and what is gone holds nothing; only     *)
(* serve spawns tasks, and it alone ends the hub.                          *)
ServeInv ==
  /\ ~hub => queue = <<>> /\ held = {}
  /\ main = "Serve" => hub
  /\ accepting => main = "Serve"
  /\ main \in {"Load", "Signals", "Bind", "Bound"} =>
       ~hub /\ \A c \in Conns : task[c] = "None"
  /\ \A j \in 1..Len(queue) : queue[j].kind = "Shutdown" => main = "Stopping"

(* What the hub knows of a phone against where its task is.                *)
PhoneInv ==
  \A c \in Conns :
    /\ binding[c] # "Sent" => c \notin held
    /\ binding[c] = "Closed" => ~hub /\ main \in {"Stopping", "Exited"}
    /\ task[c] \in {"None", "Upgrade"} => binding[c] # "Sent"
    /\ hub /\ (InLoop(c) \/ (task[c] = "Bind" /\ binding[c] = "Sent")) => c \in held

(* An announcement is a phone's only message and not yet answered; an end  *)
(* is its last.                                                            *)
SaidInv ==
  \A j \in 1..Len(queue) :
    /\ queue[j].kind = "Hello" =>
         /\ task[queue[j].conn] = "Bind" /\ binding[queue[j].conn] = "Open"
         /\ \A k \in 1..Len(queue) : k # j => ~Says(queue[k], queue[j].conn)
    /\ queue[j].kind = "Eof" => task[queue[j].conn] = "Done"

ChannelInv == ServeInv /\ PhoneInv /\ SaidInv /\ PhoneSpeaksInOrder /\ PhoneEndReachesHub

-----------------------------------------------------------------------------
(* The channel.                                                            *)

(* A message is put at its end.                                            *)
LEMMA AppendAt ==
  ASSUME NEW S, NEW q \in Seq(S), NEW m \in S
  PROVE  /\ Append(q, m) \in Seq(S)
         /\ Len(Append(q, m)) = Len(q) + 1 /\ Len(q) \in Nat
         /\ Append(q, m)[Len(q) + 1] = m
         /\ \A k \in 1..Len(q) : Append(q, m)[k] = q[k]
OBVIOUS

(* A message is taken from its front.                                      *)
LEMMA TailAt ==
  ASSUME NEW S, NEW q \in Seq(S), q # <<>>
  PROVE  /\ Tail(q) \in Seq(S)
         /\ Len(q) \in Nat /\ Len(q) >= 1 /\ Len(Tail(q)) = Len(q) - 1
         /\ Head(q) = q[1]
         /\ \A k \in 1..(Len(q) - 1) : Tail(q)[k] = q[k + 1]
OBVIOUS

(* Every message is of a kind, and of a phone unless it is the shutdown.   *)
LEMMA MessageKinds ==
  ASSUME NEW m \in Message
  PROVE  /\ m.kind \in {"Hello", "Text", "Eof", "Shutdown"}
         /\ m.kind # "Shutdown" => m.conn \in Conns
BY DEF Message

(* What a phone's task says is a message.                                  *)
LEMMA TellTyped ==
  ASSUME CountsInv, NEW c \in Conns, NEW kind \in {"Hello", "Text", "Eof"}, Tell(c, kind)
  PROVE  queue' \in Seq(Message)
<1>1. [kind |-> kind, conn |-> c] \in Message
  BY DEF Message
<1> QED BY <1>1, AppendAt DEF CountsInv, Tell

-----------------------------------------------------------------------------
(* Types.                                                                  *)

(* The hub's texts are counted as queued and as waiting.                   *)
LEMMA SendsTyped ==
  ASSUME CountsInv, NEW some, Sends(some)
  PROVE  /\ out' \in [Conns -> 0..MaxOut] /\ queued' \in [Conns -> 0..MaxOut]
         /\ \A c \in Conns : out'[c] <= queued'[c]
<1>1. MaxOut \in Nat
  BY BoundsAssumption
<1> QED BY <1>1 DEF CountsInv, TypeOK, Sends

(* A phone's task changes nothing of main or the hub but its channel, and  *)
(* takes from its own texts.                                               *)
LEMMA TaskTyped ==
  ASSUME CountsInv, NEW c \in Conns, PhoneTask(c) \/ FinishWrite(c)
  PROVE  CountsInv'
<1>1. UNCHANGED <<mainVars, hubVars>>
  BY DEF PhoneTask, Upgrade, AwaitBind, ReadText, ReadPing, ReadEnd, StartWrite,
         OutClosed, FinishWrite
<1>2. task' \in [Conns -> {"None", "Upgrade", "Bind", "Loop", "Writing", "Pong", "Done"}]
  BY DEF CountsInv, TypeOK, PhoneTask, Upgrade, AwaitBind, ReadText, ReadPing, ReadEnd,
         StartWrite, OutClosed, FinishWrite, EndTold, Step
<1>3. queue' \in Seq(Message)
  <2>1. \/ UNCHANGED queue
        \/ \E kind \in {"Hello", "Text", "Eof"} : Tell(c, kind)
    BY DEF PhoneTask, Upgrade, AwaitBind, ReadText, ReadPing, ReadEnd, StartWrite,
           OutClosed, FinishWrite, EndTold
  <2> QED BY <2>1, TellTyped DEF CountsInv
<1>4. out' \in [Conns -> 0..MaxOut] /\ \A k \in Conns : out'[k] <= queued[k]
  <2>1. \/ UNCHANGED out
        \/ out[c] > 0 /\ out' = [out EXCEPT ![c] = @ - 1]
    BY DEF PhoneTask, Upgrade, AwaitBind, ReadText, ReadPing, ReadEnd, StartWrite,
           OutClosed, FinishWrite
  <2>2. CASE UNCHANGED out
    BY <2>2 DEF CountsInv, TypeOK
  <2>3. CASE out[c] > 0 /\ out' = [out EXCEPT ![c] = @ - 1]
    <3>1. MaxOut \in Nat /\ out \in [Conns -> 0..MaxOut] /\ queued \in [Conns -> 0..MaxOut]
          /\ \A k \in Conns : out[k] <= queued[k]
      BY BoundsAssumption DEF CountsInv, TypeOK
    <3>2. out[c] - 1 \in 0..MaxOut /\ out[c] - 1 <= queued[c]
      BY <2>3, <3>1
    <3> QED BY <2>3, <3>1, <3>2
  <2> QED BY <2>1, <2>2, <2>3
<1> QED BY <1>1, <1>2, <1>3, <1>4 DEF CountsInv, TypeOK, mainVars, hubVars

(* One step of the hub.                                                    *)
LEMMA HubTyped ==
  ASSUME CountsInv, HubHandles
  PROVE  CountsInv'
<1>1. /\ queue # <<>> /\ UNCHANGED <<main, code, signal, accepting, task>>
  BY DEF HubHandles, mainVars
<1>2. queue' \in Seq(Message)
  <2>1. queue' = Tail(queue) \/ queue' = <<>>
    BY DEF HubHandles
  <2>2. Tail(queue) \in Seq(Message)
    BY <1>1, TailAt DEF CountsInv
  <2>3. <<>> \in Seq(Message)
    OBVIOUS
  <2> QED BY <2>1, <2>2, <2>3
<1>3. Head(queue) \in Message
  BY <1>1, TailAt DEF CountsInv
<1>4. CASE Head(queue).kind = "Hello"
  BY <1>1, <1>2, <1>3, <1>4, MessageKinds DEF HubHandles, CountsInv, TypeOK
<1>5. CASE Head(queue).kind = "Text"
  BY <1>1, <1>2, <1>5, SendsTyped DEF HubHandles, CountsInv, TypeOK
<1>6. CASE Head(queue).kind = "Eof"
  BY <1>1, <1>2, <1>6 DEF HubHandles, forget, CountsInv, TypeOK
<1>7. CASE Head(queue).kind = "Shutdown"
  BY <1>1, <1>2, <1>7 DEF HubHandles, CountsInv, TypeOK
<1> QED BY <1>3, <1>4, <1>5, <1>6, <1>7, MessageKinds

(* Every step keeps the types and the counts.                              *)
LEMMA TypeStep == CountsInv /\ [Next]_vars => CountsInv'
<1> SUFFICES ASSUME CountsInv, [Next]_vars PROVE CountsInv'
  OBVIOUS
<1>1. CASE LoadConfig \/ OnSignals \/ BindListeners \/ Joined
  BY <1>1 DEF LoadConfig, OnSignals, BindListeners, Joined, StartUp, Exit, hubVars,
              CountsInv, TypeOK, SUCCESS, FAILURE, BAD_CONFIG, Running
<1>2. CASE Serve \/ Signal
  BY <1>2 DEF Serve, Signal, hubVars, CountsInv, TypeOK
<1>3. CASE StopServing
  <2>1. [kind |-> "Shutdown"] \in Message
    BY DEF Message
  <2>2. queue' \in Seq(Message)
    BY <1>3, <2>1, AppendAt DEF StopServing, CountsInv
  <2> QED BY <1>3, <2>2 DEF StopServing, hubVars, CountsInv, TypeOK
<1>4. CASE PhoneAccept
  BY <1>4 DEF PhoneAccept, hubVars, CountsInv, TypeOK
<1>5. CASE HubWrites
  BY <1>5, SendsTyped DEF HubWrites, mainVars, CountsInv, TypeOK
<1>6. ASSUME NEW c \in Conns, PhoneCloses(c) PROVE CountsInv'
  BY <1>6 DEF PhoneCloses, mainVars, hubVars, CountsInv, TypeOK
<1>7. CASE UNCHANGED vars
  BY <1>7 DEF vars, CountsInv, TypeOK
<1> QED BY <1>1, <1>2, <1>3, <1>4, <1>5, <1>6, <1>7, TaskTyped, HubTyped DEF Next

(* Types always hold.                                                      *)
LEMMA CountsAlways == Spec => []CountsInv
<1>1. Init => CountsInv
  <2> SUFFICES ASSUME Init PROVE CountsInv
    OBVIOUS
  <2>1. out \in [Conns -> 0..MaxOut] /\ queued = out /\ \A c \in Conns : out[c] = 0
    BY BoundsAssumption DEF Init
  <2>2. {signal, accepting, hub} \subseteq BOOLEAN
    BY Zenon DEF Init
  <2> QED BY <2>1, <2>2 DEF Init, CountsInv, TypeOK
<1> QED BY <1>1, TypeStep, PTL DEF Spec

(* Type correctness of topside: in particular no text is taken from an     *)
(* empty channel, whichever of a task's branches runs when.                *)
THEOREM TypeCorrect == Spec => []TypeOK
<1>1. CountsInv => TypeOK
  BY DEF CountsInv
<1> QED BY <1>1, CountsAlways, PTL

-----------------------------------------------------------------------------
(* What phones say.                                                        *)

(* The parts of ChannelInv that a proof step needs of one message.         *)
LEMMA MessageAt ==
  ASSUME CountsInv, NEW j \in 1..Len(queue)
  PROVE  /\ queue[j].kind \in {"Hello", "Text", "Eof", "Shutdown"}
         /\ queue[j].kind # "Shutdown" => queue[j].conn \in Conns
<1>1. queue[j] \in Message
  BY DEF CountsInv
<1> QED BY <1>1, MessageKinds

(* Where a phone is that has not been bound, nothing of it is queued but   *)
(* an announcement.                                                        *)
LEMMA OnlyHello ==
  ASSUME CountsInv, ChannelInv, NEW c \in Conns, c \notin held,
         NEW j \in 1..Len(queue), Says(queue[j], c)
  PROVE  queue[j].kind = "Hello"
BY MessageAt DEF ChannelInv, PhoneSpeaksInOrder, Says

(* An end in the channel is found by its place in it.                      *)
LEMMA EofPlace ==
  ASSUME NEW q \in Seq(Message), NEW c \in Conns
  PROVE  [kind |-> "Eof", conn |-> c] \in Range(q)
           <=> \E j \in 1..Len(q) : q[j].kind = "Eof" /\ q[j].conn = c
<1>1. ASSUME NEW m \in Message, m.kind = "Eof", m.conn = c
      PROVE  m = [kind |-> "Eof", conn |-> c]
  BY <1>1 DEF Message
<1>2. ASSUME NEW j \in 1..Len(q), q[j].kind = "Eof", q[j].conn = c
      PROVE  [kind |-> "Eof", conn |-> c] \in Range(q)
  <2>1. q[j] \in Message
    OBVIOUS
  <2>2. q[j] = [kind |-> "Eof", conn |-> c]
    BY <1>1, <1>2, <2>1
  <2> QED BY <2>2 DEF Range
<1>3. ASSUME [kind |-> "Eof", conn |-> c] \in Range(q)
      PROVE  \E j \in 1..Len(q) : q[j].kind = "Eof" /\ q[j].conn = c
  <2>1. PICK j \in DOMAIN q : [kind |-> "Eof", conn |-> c] = q[j]
    BY <1>3 DEF Range
  <2>2. j \in 1..Len(q)
    BY <2>1
  <2>3. q[j].kind = "Eof" /\ q[j].conn = c
    BY <2>1
  <2> QED BY <2>2, <2>3
<1> QED BY <1>2, <1>3

(* A step that leaves the channel, the tasks and the bindings alone.       *)
LEMMA Quiet ==
  ASSUME ChannelInv, ServeInv', UNCHANGED <<queue, task, binding, held, hub>>,
         main \in {"Stopping", "Exited"} => main' \in {"Stopping", "Exited"}
  PROVE  ChannelInv'
<1>1. PhoneInv'
  BY DEF ChannelInv, PhoneInv, InLoop
<1>2. SaidInv'
  BY DEF ChannelInv, SaidInv, Says
<1>3. PhoneSpeaksInOrder' /\ PhoneEndReachesHub'
  BY DEF ChannelInv, PhoneSpeaksInOrder, PhoneEndReachesHub
<1> QED BY <1>1, <1>2, <1>3 DEF ChannelInv

(* A task that goes on without a word: it has not announced itself just    *)
(* now, it loops only once bound, and it ends only when the hub has        *)
(* forgotten it.                                                           *)
LEMMA TaskMoves ==
  ASSUME CountsInv, ChannelInv, NEW c \in Conns, NEW t,
         task' = [task EXCEPT ![c] = t],
         UNCHANGED <<queue, binding, held, hub, main, accepting>>,
         main \notin {"Load", "Signals", "Bind", "Bound"},
         task[c] # "Bind" \/ binding[c] # "Open", task[c] # "Done",
         t \in {"Upgrade", "Loop", "Writing", "Pong", "Done"},
         t = "Upgrade" => task[c] = "None",
         hub /\ t \in {"Loop", "Writing", "Pong"} => c \in held,
         t = "Done" => c \notin held
  PROVE  ChannelInv'
<1>1. /\ task'[c] = t /\ \A k \in Conns : k # c => task'[k] = task[k]
  BY DEF CountsInv, TypeOK
<1>2. ServeInv'
  BY DEF ChannelInv, ServeInv
<1>3. PhoneInv'
  BY <1>1 DEF ChannelInv, PhoneInv, InLoop
<1>4. SaidInv'
  <2> SUFFICES ASSUME NEW j \in 1..Len(queue)
               PROVE  /\ queue[j].kind = "Hello" =>
                           /\ task'[queue[j].conn] = "Bind"
                           /\ binding[queue[j].conn] = "Open"
                           /\ \A k \in 1..Len(queue) :
                                k # j => ~Says(queue[k], queue[j].conn)
                      /\ queue[j].kind = "Eof" => task'[queue[j].conn] = "Done"
    BY DEF SaidInv, Says
  <2>1. queue[j].kind \in {"Hello", "Eof"} => queue[j].conn # c
    BY DEF ChannelInv, SaidInv
  <2>2. queue[j].kind \in {"Hello", "Eof"} => queue[j].conn \in Conns
    BY MessageAt
  <2> QED BY <1>1, <2>1, <2>2 DEF ChannelInv, SaidInv
<1>5. PhoneSpeaksInOrder'
  BY DEF ChannelInv, PhoneSpeaksInOrder
<1>6. PhoneEndReachesHub'
  <2> SUFFICES ASSUME NEW k \in held, task'[k] = "Done"
               PROVE  [kind |-> "Eof", conn |-> k] \in Range(queue)
    BY DEF PhoneEndReachesHub
  <2>1. k \in Conns
    BY DEF CountsInv, TypeOK
  <2>2. k # c
    BY <1>1
  <2> QED BY <1>1, <2>1, <2>2 DEF ChannelInv, PhoneEndReachesHub
<1> QED BY <1>2, <1>3, <1>4, <1>5, <1>6 DEF ChannelInv


(* A task that tells the hub something: it announces itself once, speaks   *)
(* only while bound, and says nothing after its end.                       *)
LEMMA TaskSays ==
  ASSUME CountsInv, ChannelInv, hub, NEW c \in Conns, NEW t,
         NEW kind \in {"Hello", "Text", "Eof"},
         Tell(c, kind), task' = [task EXCEPT ![c] = t],
         UNCHANGED <<binding, held, hub, main, accepting>>,
         kind = "Hello" => task[c] = "Upgrade" /\ t = "Bind",
         kind = "Text" => InLoop(c) /\ t = "Loop",
         kind = "Eof" => InLoop(c) /\ t = "Done"
  PROVE  ChannelInv'
<1> DEFINE m == [kind |-> kind, conn |-> c]
           n == Len(queue)
<1>1. m \in Message /\ m.kind = kind /\ m.conn = c
  BY DEF Message
<1> HIDE DEF m
<1>2. /\ queue' \in Seq(Message) /\ n \in Nat /\ Len(queue') = n + 1
      /\ queue'[n + 1] = m /\ \A k \in 1..n : queue'[k] = queue[k]
  <2>1. queue' = Append(queue, m)
    BY DEF Tell, m
  <2> QED BY <1>1, <2>1, AppendAt DEF CountsInv
<1>3. /\ task'[c] = t /\ \A k \in Conns : k # c => task'[k] = task[k]
  BY DEF CountsInv, TypeOK
<1>4. \A j \in 1..n : queue[j].kind \in {"Hello", "Eof"} => queue[j].conn # c
  BY DEF ChannelInv, SaidInv, InLoop
<1>5. kind # "Hello" => c \in held /\ binding[c] = "Sent"
  BY DEF ChannelInv, PhoneInv
<1>6. kind = "Hello" => c \notin held /\ binding[c] = "Open"
  BY DEF ChannelInv, PhoneInv, CountsInv, TypeOK
<1>7. kind = "Hello" => \A j \in 1..n : ~Says(queue[j], c)
  <2> SUFFICES ASSUME kind = "Hello", NEW j \in 1..n, Says(queue[j], c) PROVE FALSE
    OBVIOUS
  <2>1. queue[j].kind = "Hello"
    BY <1>6, OnlyHello
  <2> QED BY <1>4, <2>1 DEF Says
<1>8. ServeInv'
  <2>1. main \notin {"Load", "Signals", "Bind", "Bound"}
    BY DEF ChannelInv, ServeInv
  <2>2. ASSUME NEW j \in 1..(n + 1), queue'[j].kind = "Shutdown" PROVE main = "Stopping"
    <3>1. j # n + 1
      BY <1>1, <1>2, <2>2
    <3>2. j \in 1..n /\ queue[j].kind = "Shutdown"
      BY <1>2, <2>2, <3>1
    <3> QED BY <3>2 DEF ChannelInv, ServeInv
  <2> QED BY <1>2, <2>1, <2>2 DEF ChannelInv, ServeInv
<1>9. PhoneInv'
  BY <1>3, <1>5, <1>6 DEF ChannelInv, PhoneInv, InLoop
<1>10. SaidInv'
  <2> SUFFICES ASSUME NEW j \in 1..(n + 1)
               PROVE  /\ queue'[j].kind = "Hello" =>
                           /\ task'[queue'[j].conn] = "Bind"
                           /\ binding[queue'[j].conn] = "Open"
                           /\ \A k \in 1..(n + 1) :
                                k # j => ~Says(queue'[k], queue'[j].conn)
                      /\ queue'[j].kind = "Eof" => task'[queue'[j].conn] = "Done"
    BY <1>2 DEF SaidInv, Says
  <2>1. CASE j = n + 1
    <3>1. queue'[j].kind = kind /\ queue'[j].conn = c
      BY <1>1, <1>2, <2>1
    <3>2. kind = "Hello" => \A k \in 1..(n + 1) : k # j => ~Says(queue'[k], c)
      BY <1>2, <1>7, <2>1
    <3> QED BY <1>3, <1>6, <3>1, <3>2
  <2>2. CASE j # n + 1
    <3>1. j \in 1..n /\ queue'[j] = queue[j]
      BY <1>2, <2>2
    <3>2. queue[j].kind \in {"Hello", "Eof"} => queue[j].conn # c /\ queue[j].conn \in Conns
      BY <1>4, <3>1, MessageAt
    <3>3. ~Says(queue'[n + 1], queue[j].conn) \/ queue[j].kind # "Hello"
      BY <1>1, <1>2, <3>2 DEF Says
    <3>4. queue[j].kind = "Hello" =>
            \A k \in 1..(n + 1) : k # j => ~Says(queue'[k], queue[j].conn)
      BY <1>2, <3>1, <3>3 DEF ChannelInv, SaidInv
    <3> QED BY <1>3, <3>1, <3>2, <3>4 DEF ChannelInv, SaidInv
  <2> QED BY <2>1, <2>2
<1>11. PhoneSpeaksInOrder'
  <2> SUFFICES ASSUME NEW j \in 1..(n + 1), queue'[j].kind \in {"Text", "Eof"}
               PROVE  /\ queue'[j].conn \in held
                      /\ \A k \in (j + 1)..(n + 1) :
                           queue'[j].kind = "Eof" /\ queue'[k].kind # "Shutdown"
                             => queue'[k].conn # queue'[j].conn
    BY <1>2 DEF PhoneSpeaksInOrder
  <2>1. CASE j = n + 1
    BY <1>1, <1>2, <1>5, <2>1
  <2>2. CASE j # n + 1
    <3>1. j \in 1..n /\ queue'[j] = queue[j]
      BY <1>2, <2>2
    <3>2. queue[j].conn \in held
      BY <3>1 DEF ChannelInv, PhoneSpeaksInOrder
    <3>3. ASSUME NEW k \in (j + 1)..(n + 1), queue[j].kind = "Eof",
                 queue'[k].kind # "Shutdown"
          PROVE  queue'[k].conn # queue[j].conn
      <4>1. CASE k = n + 1
        BY <1>1, <1>2, <1>4, <3>1, <3>3, <4>1
      <4>2. CASE k # n + 1
        <5>1. k \in (j + 1)..n /\ queue'[k] = queue[k]
          BY <1>2, <3>1, <4>2
        <5> QED BY <3>1, <3>3, <5>1 DEF ChannelInv, PhoneSpeaksInOrder
      <4> QED BY <4>1, <4>2
    <3> QED BY <3>1, <3>2, <3>3
  <2> QED BY <2>1, <2>2
<1>12. PhoneEndReachesHub'
  <2> SUFFICES ASSUME NEW k \in held, task'[k] = "Done"
               PROVE  [kind |-> "Eof", conn |-> k] \in Range(queue')
    BY DEF PhoneEndReachesHub
  <2>1. k \in Conns
    BY DEF CountsInv, TypeOK
  <2>2. CASE k = c
    <3>1. queue'[n + 1].kind = "Eof" /\ queue'[n + 1].conn = k
      BY <1>1, <1>2, <1>3, <2>2
    <3>2. n + 1 \in 1..Len(queue')
      BY <1>2
    <3> QED BY <1>2, <2>1, <3>1, <3>2, EofPlace
  <2>3. CASE k # c
    <3>1. [kind |-> "Eof", conn |-> k] \in Range(queue)
      BY <1>3, <2>1, <2>3 DEF ChannelInv, PhoneEndReachesHub
    <3>2. PICK j \in 1..n : queue[j].kind = "Eof" /\ queue[j].conn = k
      BY <2>1, <3>1, EofPlace DEF CountsInv
    <3>3. j \in 1..Len(queue') /\ queue'[j] = queue[j]
      BY <1>2
    <3> QED BY <1>2, <2>1, <3>2, <3>3, EofPlace
  <2> QED BY <2>2, <2>3
<1> QED BY <1>8, <1>9, <1>10, <1>11, <1>12 DEF ChannelInv

(* A task tells nothing to a hub that is gone.                             *)
LEMMA TellNobody ==
  ASSUME ~hub, NEW c, NEW kind, Tell(c, kind)
  PROVE  queue' = queue
BY DEF Tell

(* A phone's task, wherever it is.                                         *)
LEMMA TaskStep ==
  ASSUME CountsInv, ChannelInv, NEW c \in Conns, PhoneTask(c) \/ FinishWrite(c)
  PROVE  ChannelInv'
<1>1. /\ UNCHANGED <<binding, held, hub, main, accepting>>
  BY DEF PhoneTask, Upgrade, AwaitBind, ReadText, ReadPing, ReadEnd, StartWrite,
         OutClosed, FinishWrite, mainVars, hubVars
<1>2. task[c] # "None" => main \notin {"Load", "Signals", "Bind", "Bound"}
  BY DEF ChannelInv, ServeInv
<1>3. /\ ~hub => c \notin held
      /\ task[c] = "Upgrade" => c \notin held
      /\ binding[c] = "Closed" => c \notin held
      /\ hub /\ InLoop(c) => c \in held
  BY DEF ChannelInv, ServeInv, PhoneInv
<1>4. ASSUME NEW from \in {"Loop", "Writing"}, EndTold(c, from) PROVE ChannelInv'
  <2>1. task[c] = from /\ task' = [task EXCEPT ![c] = "Done"] /\ Tell(c, "Eof")
    BY <1>4 DEF EndTold, Step
  <2>2. CASE hub
    BY <1>1, <2>1, <2>2, TaskSays DEF InLoop
  <2>3. CASE ~hub
    BY <1>1, <1>2, <1>3, <2>1, <2>3, TellNobody, TaskMoves
  <2> QED BY <2>2, <2>3
<1>5. CASE Upgrade(c)
  <2>1. CASE Step(c, "Upgrade", "Done") /\ UNCHANGED queue
    BY <1>1, <1>2, <1>3, <2>1, TaskMoves DEF Step
  <2>2. CASE Step(c, "Upgrade", IF hub THEN "Bind" ELSE "Done") /\ Tell(c, "Hello")
    <3>1. CASE hub
      BY <1>1, <2>2, <3>1, TaskSays DEF Step
    <3>2. CASE ~hub
      BY <1>1, <1>2, <1>3, <2>2, <3>2, TellNobody, TaskMoves DEF Step
    <3> QED BY <3>1, <3>2
  <2> QED BY <1>5, <2>1, <2>2 DEF Upgrade
<1>6. CASE AwaitBind(c)
  <2>1. UNCHANGED queue
    BY <1>6 DEF AwaitBind
  <2>2. CASE binding[c] = "Sent" /\ Step(c, "Bind", "Loop")
    <3>1. hub => c \in held
      BY <2>2 DEF ChannelInv, PhoneInv, Step
    <3> QED BY <1>1, <1>2, <2>1, <2>2, <3>1, TaskMoves DEF Step
  <2>3. CASE binding[c] = "Closed" /\ Step(c, "Bind", "Done")
    BY <1>1, <1>2, <1>3, <2>1, <2>3, TaskMoves DEF Step
  <2> QED BY <1>6, <2>2, <2>3 DEF AwaitBind
<1>7. CASE ReadText(c)
  <2>1. /\ task[c] = "Loop" /\ Tell(c, "Text")
        /\ task' = [task EXCEPT ![c] = IF hub THEN "Loop" ELSE "Done"]
    BY <1>7 DEF ReadText, Step
  <2>2. CASE hub
    BY <1>1, <2>1, <2>2, TaskSays DEF InLoop
  <2>3. CASE ~hub
    BY <1>1, <1>2, <1>3, <2>1, <2>3, TellNobody, TaskMoves
  <2> QED BY <2>2, <2>3
<1>8. CASE ReadPing(c) \/ StartWrite(c)
  <2>1. PICK t \in {"Pong", "Writing"} :
          task[c] = "Loop" /\ task' = [task EXCEPT ![c] = t] /\ UNCHANGED queue
    BY <1>8 DEF ReadPing, StartWrite, Step
  <2> QED BY <1>1, <1>2, <1>3, <2>1, TaskMoves DEF InLoop
<1>9. CASE ReadEnd(c)
  BY <1>4, <1>9 DEF ReadEnd
<1>10. CASE OutClosed(c)
  BY <1>1, <1>2, <1>10, TaskMoves DEF OutClosed, Step
<1>11. CASE FinishWrite(c)
  <2>1. CASE EndTold(c, "Writing")
    BY <1>4, <2>1
  <2>2. CASE ~EndTold(c, "Writing")
    <3>1. /\ task[c] \in {"Writing", "Pong"} /\ task' = [task EXCEPT ![c] = "Loop"]
          /\ UNCHANGED queue
      BY <1>11, <2>2 DEF FinishWrite, Step
    <3> QED BY <1>1, <1>2, <1>3, <3>1, TaskMoves DEF InLoop
  <2> QED BY <2>1, <2>2
<1> QED BY <1>5, <1>6, <1>7, <1>8, <1>9, <1>10, <1>11 DEF PhoneTask


(* The hub takes a message that is not the shutdown: what stays in its     *)
(* channel stays in order, if those it forgets have no more to say and     *)
(* those it binds had only that to say.                                    *)
LEMMA HubTakes ==
  ASSUME CountsInv, ChannelInv, hub, queue # <<>>, queue' = Tail(queue),
         UNCHANGED <<hub, main, accepting, task>>,
         NEW c \in Conns, Says(queue[1], c),
         \A k \in Conns : k # c => binding'[k] = binding[k] /\ (k \in held' <=> k \in held),
         held' \subseteq Conns,
         \/ /\ queue[1].kind = "Hello"
            /\ binding'[c] = "Sent" /\ c \in held'
         \/ /\ queue[1].kind = "Text"
            /\ binding'[c] = binding[c] /\ (c \in held' <=> c \in held)
         \/ /\ queue[1].kind = "Eof"
            /\ binding'[c] = binding[c] /\ c \notin held'
  PROVE  ChannelInv'
<1> DEFINE n == Len(queue)
<1>1. /\ queue' \in Seq(Message) /\ n \in Nat /\ n >= 1 /\ Len(queue') = n - 1
      /\ \A k \in 1..(n - 1) : queue'[k] = queue[k + 1]
  BY TailAt DEF CountsInv
<1> HIDE DEF n
<1>2. 1 \in 1..Len(queue) /\ queue[1].conn = c
  BY <1>1 DEF Says, n
<1>3. ServeInv'
  <2>1. ASSUME NEW j \in 1..(n - 1), queue'[j].kind = "Shutdown" PROVE main = "Stopping"
    <3>1. j + 1 \in 1..Len(queue) /\ queue[j + 1].kind = "Shutdown"
      BY <1>1, <2>1 DEF n
    <3> QED BY <3>1 DEF ChannelInv, ServeInv
  <2> QED BY <1>1, <2>1 DEF ChannelInv, ServeInv
<1>4. /\ queue[1].kind = "Hello" => task[c] = "Bind"
      /\ queue[1].kind = "Eof" => task[c] = "Done"
      /\ queue[1].kind # "Text" => \A k \in 2..n : ~Says(queue[k], c)
      /\ queue[1].kind # "Hello" => c \in held
  <2>1. /\ queue[1].kind = "Hello" => task[c] = "Bind"
        /\ queue[1].kind = "Eof" => task[c] = "Done"
    BY <1>2 DEF ChannelInv, SaidInv
  <2>2. queue[1].kind = "Hello" => \A k \in 2..n : ~Says(queue[k], c)
    BY <1>1, <1>2 DEF ChannelInv, SaidInv, n
  <2>3. queue[1].kind = "Eof" => \A k \in 2..n : ~Says(queue[k], c)
    BY <1>1, <1>2 DEF ChannelInv, PhoneSpeaksInOrder, Says, n
  <2>4. queue[1].kind # "Hello" => c \in held
    BY <1>2 DEF ChannelInv, PhoneSpeaksInOrder
  <2> QED BY <2>1, <2>2, <2>3, <2>4
<1>5. PhoneInv'
  <2> SUFFICES ASSUME NEW k \in Conns
               PROVE  /\ binding'[k] # "Sent" => k \notin held'
                      /\ binding'[k] = "Closed" =>
                           ~hub /\ main \in {"Stopping", "Exited"}
                      /\ task[k] \in {"None", "Upgrade"} => binding'[k] # "Sent"
                      /\ hub /\ (InLoop(k) \/ (task[k] = "Bind" /\ binding'[k] = "Sent"))
                           => k \in held'
    BY DEF PhoneInv, InLoop
  <2>1. CASE k # c
    BY <2>1 DEF ChannelInv, PhoneInv
  <2>2. CASE k = c
    BY <1>4, <2>2 DEF ChannelInv, PhoneInv, InLoop
  <2> QED BY <2>1, <2>2
<1>6. ASSUME NEW j \in 1..(n - 1)
      PROVE  /\ j + 1 \in 1..Len(queue) /\ j + 1 \in 2..n /\ queue'[j] = queue[j + 1]
             /\ queue[j + 1].kind # "Shutdown" => queue[j + 1].conn \in Conns
  BY <1>1, MessageAt DEF n
<1>7. SaidInv'
  <2> SUFFICES ASSUME NEW j \in 1..Len(queue')
               PROVE  /\ queue'[j].kind = "Hello" =>
                           /\ task'[queue'[j].conn] = "Bind"
                           /\ binding'[queue'[j].conn] = "Open"
                           /\ \A k \in 1..Len(queue') :
                                k # j => ~Says(queue'[k], queue'[j].conn)
                      /\ queue'[j].kind = "Eof" => task'[queue'[j].conn] = "Done"
    BY Zenon DEF SaidInv, Says
  <2>0. j \in 1..(n - 1) /\ Len(queue') = n - 1 /\ task' = task
    BY <1>1
  <2>1. /\ queue[j + 1].kind = "Hello" =>
             /\ task[queue[j + 1].conn] = "Bind" /\ binding[queue[j + 1].conn] = "Open"
             /\ \A k \in 1..Len(queue) : k # j + 1 => ~Says(queue[k], queue[j + 1].conn)
        /\ queue[j + 1].kind = "Eof" => task[queue[j + 1].conn] = "Done"
    BY <1>6, <2>0 DEF ChannelInv, SaidInv
  <2>2. queue[j + 1].kind = "Hello" => queue[j + 1].conn # c
    <3>1. 1 # j + 1
      BY <1>1, <2>0
    <3> QED BY <1>2, <2>1, <3>1
  <2>3. queue[j + 1].kind = "Hello" =>
          \A k \in 1..Len(queue') : k # j => ~Says(queue'[k], queue[j + 1].conn)
    <3> SUFFICES ASSUME queue[j + 1].kind = "Hello", NEW k \in 1..Len(queue'), k # j
                 PROVE  ~Says(queue'[k], queue[j + 1].conn)
      OBVIOUS
    <3>0. k \in 1..(n - 1)
      BY <2>0
    <3>1. k + 1 \in 1..Len(queue) /\ k + 1 # j + 1 /\ queue'[k] = queue[k + 1]
      BY <1>1, <1>6, <2>0, <3>0
    <3> QED BY <2>1, <3>1
  <2>4. queue[j + 1].kind = "Hello" => binding'[queue[j + 1].conn] = "Open"
    BY <1>6, <2>0, <2>1, <2>2
  <2>5. queue'[j] = queue[j + 1]
    BY <1>6, <2>0
  <2> QED BY <2>0, <2>1, <2>3, <2>4, <2>5, Zenon
<1>8. PhoneSpeaksInOrder'
  <2>0. Len(queue') = n - 1
    BY <1>1
  <2> SUFFICES ASSUME NEW j \in 1..(n - 1), queue'[j].kind \in {"Text", "Eof"}
               PROVE  /\ queue'[j].conn \in held'
                      /\ \A k \in (j + 1)..(n - 1) :
                           queue'[j].kind = "Eof" /\ queue'[k].kind # "Shutdown"
                             => queue'[k].conn # queue'[j].conn
    BY <2>0, Zenon DEF PhoneSpeaksInOrder
  <2>1. /\ queue'[j] = queue[j + 1] /\ j + 1 \in 1..Len(queue) /\ j + 1 \in 2..n
        /\ queue[j + 1].conn \in held /\ queue[j + 1].conn \in Conns
    BY <1>6 DEF ChannelInv, PhoneSpeaksInOrder
  <2>2. queue[j + 1].conn \in held'
    <3>1. CASE queue[j + 1].conn # c
      BY <2>1, <3>1
    <3>2. CASE queue[j + 1].conn = c
      BY <1>4, <2>1, <3>2 DEF Says
    <3> QED BY <3>1, <3>2
  <2>3. ASSUME NEW k \in (j + 1)..(n - 1), queue[j + 1].kind = "Eof",
               queue'[k].kind # "Shutdown"
        PROVE  queue'[k].conn # queue[j + 1].conn
    <3>1. queue'[k] = queue[k + 1] /\ k + 1 \in (j + 1 + 1)..Len(queue)
      BY <1>1 DEF n
    <3> QED BY <2>1, <2>3, <3>1 DEF ChannelInv, PhoneSpeaksInOrder
  <2> QED BY <2>1, <2>2, <2>3
<1>9. PhoneEndReachesHub'
  <2> SUFFICES ASSUME NEW k \in held', task[k] = "Done"
               PROVE  [kind |-> "Eof", conn |-> k] \in Range(queue')
    BY DEF PhoneEndReachesHub
  <2>1. k \in Conns
    OBVIOUS
  <2>2. k \in held /\ ~(k = c /\ queue[1].kind = "Eof")
    BY <1>4, <2>1
  <2>3. PICK j \in 1..Len(queue) : queue[j].kind = "Eof" /\ queue[j].conn = k
    BY <2>1, <2>2, EofPlace DEF CountsInv, ChannelInv, PhoneEndReachesHub
  <2>4. j # 1
    BY <1>2, <2>2, <2>3
  <2>5. j - 1 \in 1..(n - 1) /\ queue'[j - 1] = queue[j - 1 + 1] /\ j - 1 + 1 = j
    BY <1>1, <2>4 DEF n
  <2>6. j - 1 \in 1..Len(queue') /\ queue'[j - 1].kind = "Eof" /\ queue'[j - 1].conn = k
    BY <1>1, <2>3, <2>5
  <2> QED BY <1>1, <2>1, <2>6, EofPlace
<1> QED BY <1>3, <1>5, <1>7, <1>8, <1>9 DEF ChannelInv

(* The hub takes the shutdown and lets go of all.                          *)
LEMMA HubLetsGo ==
  ASSUME CountsInv, ChannelInv, hub' = FALSE, held' = {}, queue' = <<>>,
         main = "Stopping", UNCHANGED <<main, accepting, task>>,
         binding' = [c \in Conns |-> IF binding[c] = "Open" THEN "Closed" ELSE binding[c]]
  PROVE  ChannelInv'
<1>1. Len(queue') = 0 /\ 1..0 = {}
  OBVIOUS
<1>2. ServeInv'
  BY <1>1 DEF ChannelInv, ServeInv
<1>3. PhoneInv'
  BY DEF ChannelInv, PhoneInv
<1>4. SaidInv' /\ PhoneSpeaksInOrder'
  BY <1>1 DEF SaidInv, PhoneSpeaksInOrder
<1>5. PhoneEndReachesHub'
  BY DEF PhoneEndReachesHub
<1> QED BY <1>2, <1>3, <1>4, <1>5 DEF ChannelInv

(* Whatever the hub takes from its channel.                                *)
LEMMA HubStep ==
  ASSUME CountsInv, CountsInv', ChannelInv, HubHandles
  PROVE  ChannelInv'
<1>1. hub /\ queue # <<>> /\ UNCHANGED <<main, accepting, task>>
  BY DEF HubHandles, mainVars
<1>2. 1 \in 1..Len(queue) /\ Head(queue) = queue[1]
  BY <1>1, TailAt DEF CountsInv
<1>3. /\ queue[1].kind \in {"Hello", "Text", "Eof", "Shutdown"}
      /\ queue[1].kind # "Shutdown" => queue[1].conn \in Conns
  BY <1>2, MessageAt
<1>4. /\ held \subseteq Conns /\ held' \subseteq Conns
      /\ binding \in [Conns -> {"Open", "Sent", "Closed"}]
  BY DEF CountsInv, TypeOK
<1> DEFINE c == queue[1].conn
<1>5. queue[1].kind # "Shutdown" => Says(queue[1], c)
  BY DEF Says
<1>6. CASE queue[1].kind = "Hello"
  <2>1. /\ held' = held \cup {c} /\ binding' = [binding EXCEPT ![c] = "Sent"]
        /\ queue' = Tail(queue) /\ UNCHANGED hub
    BY <1>2, <1>6 DEF HubHandles
  <2>2. /\ binding'[c] = "Sent" /\ c \in held'
        /\ \A k \in Conns : k # c => binding'[k] = binding[k] /\ (k \in held' <=> k \in held)
    BY <1>3, <1>4, <1>6, <2>1
  <2> HIDE DEF c
  <2> QED BY <1>1, <1>3, <1>4, <1>5, <1>6, <2>1, <2>2, HubTakes DEF c
<1>7. CASE queue[1].kind = "Text"
  <2>1. queue' = Tail(queue) /\ UNCHANGED <<hub, held, binding>>
    BY <1>2, <1>7 DEF HubHandles
  <2> QED BY <1>1, <1>3, <1>4, <1>5, <1>7, <2>1, HubTakes
<1>8. CASE queue[1].kind = "Eof"
  <2>1. held' = held \ {c} /\ queue' = Tail(queue) /\ UNCHANGED <<hub, binding>>
    BY <1>2, <1>8 DEF HubHandles, forget
  <2> QED BY <1>1, <1>3, <1>4, <1>5, <1>8, <2>1, HubTakes
<1>9. CASE queue[1].kind = "Shutdown"
  <2>1. main = "Stopping"
    BY <1>2, <1>9 DEF ChannelInv, ServeInv
  <2> QED BY <1>1, <1>2, <1>9, <2>1, HubLetsGo DEF HubHandles
<1> QED BY <1>3, <1>6, <1>7, <1>8, <1>9

-----------------------------------------------------------------------------
(* main and the accept loop.                                               *)

(* serve tells the hub to stop, after all that was said before.            *)
LEMMA StopStep ==
  ASSUME CountsInv, ChannelInv, StopServing
  PROVE  ChannelInv'
<1> DEFINE m == [kind |-> "Shutdown"]
           n == Len(queue)
<1>1. m \in Message /\ m.kind = "Shutdown"
  BY DEF Message
<1> HIDE DEF m
<1>2. /\ main = "Serve" /\ main' = "Stopping" /\ accepting' = FALSE
      /\ queue' = Append(queue, m) /\ UNCHANGED <<hub, binding, held, task>>
  BY DEF StopServing, hubVars, m
<1>3. /\ queue' \in Seq(Message) /\ n \in Nat /\ Len(queue') = n + 1
      /\ queue'[n + 1] = m /\ \A k \in 1..n : queue'[k] = queue[k]
  BY <1>1, <1>2, AppendAt DEF CountsInv
<1>4. hub
  BY <1>2 DEF ChannelInv, ServeInv
<1>5. ServeInv'
  BY <1>2, <1>4 DEF ServeInv
<1>6. PhoneInv'
  BY <1>2 DEF ChannelInv, PhoneInv, InLoop
<1>7. ASSUME NEW j \in 1..(n + 1), queue'[j].kind # "Shutdown"
      PROVE  j \in 1..n /\ queue'[j] = queue[j]
  BY <1>1, <1>3, <1>7
<1>8. SaidInv'
  <2> SUFFICES ASSUME NEW j \in 1..(n + 1)
               PROVE  /\ queue'[j].kind = "Hello" =>
                           /\ task[queue'[j].conn] = "Bind"
                           /\ binding[queue'[j].conn] = "Open"
                           /\ \A k \in 1..(n + 1) :
                                k # j => ~Says(queue'[k], queue'[j].conn)
                      /\ queue'[j].kind = "Eof" => task[queue'[j].conn] = "Done"
    BY <1>2, <1>3 DEF SaidInv, Says
  <2> QED BY <1>7 DEF ChannelInv, SaidInv, Says
<1>9. PhoneSpeaksInOrder'
  <2> SUFFICES ASSUME NEW j \in 1..(n + 1), queue'[j].kind \in {"Text", "Eof"}
               PROVE  /\ queue'[j].conn \in held
                      /\ \A k \in (j + 1)..(n + 1) :
                           queue'[j].kind = "Eof" /\ queue'[k].kind # "Shutdown"
                             => queue'[k].conn # queue'[j].conn
    BY <1>2, <1>3 DEF PhoneSpeaksInOrder
  <2>1. j \in 1..n /\ queue'[j] = queue[j]
    BY <1>7
  <2>2. ASSUME NEW k \in (j + 1)..(n + 1), queue'[k].kind # "Shutdown"
        PROVE  k \in (j + 1)..n /\ queue'[k] = queue[k]
    <3>1. k \in 1..(n + 1)
      BY <1>3, <2>1
    <3> QED BY <1>7, <2>1, <2>2, <3>1
  <2> QED BY <2>1, <2>2 DEF ChannelInv, PhoneSpeaksInOrder
<1>10. PhoneEndReachesHub'
  <2> SUFFICES ASSUME NEW k \in held, task[k] = "Done"
               PROVE  [kind |-> "Eof", conn |-> k] \in Range(queue')
    BY <1>2 DEF PhoneEndReachesHub
  <2>1. k \in Conns
    BY DEF CountsInv, TypeOK
  <2>2. PICK j \in 1..n : queue[j].kind = "Eof" /\ queue[j].conn = k
    BY <2>1, EofPlace DEF CountsInv, ChannelInv, PhoneEndReachesHub
  <2>3. j \in 1..Len(queue') /\ queue'[j] = queue[j]
    BY <1>3
  <2> QED BY <1>3, <2>1, <2>2, <2>3, EofPlace
<1> QED BY <1>5, <1>6, <1>8, <1>9, <1>10 DEF ChannelInv

(* Every step keeps the channel in order.                                  *)
LEMMA ChannelStep == CountsInv /\ CountsInv' /\ ChannelInv /\ [Next]_vars => ChannelInv'
<1> SUFFICES ASSUME CountsInv, CountsInv', ChannelInv, [Next]_vars PROVE ChannelInv'
  OBVIOUS
<1>1. CASE LoadConfig \/ OnSignals \/ BindListeners
  <2>1. /\ UNCHANGED <<queue, task, binding, held, hub>>
        /\ main \in {"Load", "Signals", "Bind"}
        /\ \/ main' \in {"Signals", "Bind", "Bound"} /\ UNCHANGED accepting
           \/ main' = "Exited" /\ accepting' = FALSE
    BY <1>1 DEF LoadConfig, OnSignals, BindListeners, StartUp, Exit, hubVars
  <2>2. ServeInv'
    BY <2>1 DEF ChannelInv, ServeInv
  <2> QED BY <2>1, <2>2, Quiet
<1>2. CASE Serve
  <2>1. /\ main = "Bound" /\ main' = "Serve" /\ hub' = TRUE
        /\ UNCHANGED <<queue, task, binding, held>>
    BY <1>2 DEF Serve
  <2>2. /\ queue = <<>> /\ held = {} /\ \A c \in Conns : task[c] = "None"
        /\ Len(queue) = 0 /\ 1..0 = {}
    BY <2>1 DEF ChannelInv, ServeInv
  <2>3. ServeInv'
    BY <2>1, <2>2 DEF ServeInv
  <2>4. PhoneInv'
    BY <2>1, <2>2 DEF ChannelInv, PhoneInv, InLoop
  <2>5. SaidInv' /\ PhoneSpeaksInOrder' /\ PhoneEndReachesHub'
    BY <2>1, <2>2 DEF SaidInv, PhoneSpeaksInOrder, PhoneEndReachesHub
  <2> QED BY <2>3, <2>4, <2>5 DEF ChannelInv
<1>3. CASE Signal \/ HubWrites
  <2>1. UNCHANGED <<queue, task, binding, held, hub, main, accepting>>
    BY <1>3 DEF Signal, HubWrites, hubVars, mainVars
  <2>2. ServeInv'
    BY <2>1 DEF ChannelInv, ServeInv
  <2> QED BY <2>1, <2>2, Quiet
<1>4. CASE Joined
  <2>1. /\ ~hub /\ main' = "Exited" /\ accepting' = FALSE
        /\ UNCHANGED <<queue, task, binding, held, hub>>
    BY <1>4 DEF Joined, Exit, hubVars
  <2>2. queue = <<>> /\ Len(queue) = 0 /\ 1..0 = {}
    BY <2>1 DEF ChannelInv, ServeInv
  <2>3. ServeInv'
    BY <2>1, <2>2 DEF ChannelInv, ServeInv
  <2> QED BY <2>1, <2>3, Quiet
<1>5. CASE PhoneAccept
  <2>1. main = "Serve" /\ UNCHANGED <<queue, binding, held, hub, main>>
    BY <1>5 DEF PhoneAccept, hubVars, ChannelInv, ServeInv
  <2>2. CASE UNCHANGED task
    <3>1. accepting' = FALSE \/ UNCHANGED accepting
      BY <1>5 DEF PhoneAccept
    <3>2. ServeInv'
      BY <2>1, <2>2, <3>1 DEF ChannelInv, ServeInv
    <3> QED BY <2>1, <2>2, <3>2, Quiet
  <2>3. CASE ~UNCHANGED task
    <3>1. PICK c \in Conns : /\ task[c] = "None" /\ UNCHANGED accepting
                             /\ task' = [task EXCEPT ![c] = "Upgrade"]
      BY <1>5, <2>3 DEF PhoneAccept
    <3> QED BY <2>1, <3>1, TaskMoves
  <2> QED BY <2>2, <2>3
<1>6. ASSUME NEW c \in Conns, PhoneCloses(c) PROVE ChannelInv'
  <2>1. UNCHANGED <<queue, task, binding, held, hub, main, accepting>>
    BY <1>6 DEF PhoneCloses, hubVars, mainVars
  <2>2. ServeInv'
    BY <2>1 DEF ChannelInv, ServeInv
  <2> QED BY <2>1, <2>2, Quiet
<1>7. CASE UNCHANGED vars
  <2>1. UNCHANGED <<queue, task, binding, held, hub, main, accepting>>
    BY <1>7 DEF vars
  <2>2. ServeInv'
    BY <2>1 DEF ChannelInv, ServeInv
  <2> QED BY <2>1, <2>2, Quiet
<1> QED
  BY <1>1, <1>2, <1>3, <1>4, <1>5, <1>6, <1>7, StopStep, HubStep, TaskStep DEF Next

(* The channel is always in order.                                         *)
LEMMA ChannelAlways == Spec => []ChannelInv
<1>1. Init => ChannelInv
  <2> SUFFICES ASSUME Init PROVE ChannelInv
    OBVIOUS
  <2>1. Len(queue) = 0 /\ 1..0 = {}
    BY DEF Init
  <2>2. ServeInv /\ SaidInv /\ PhoneSpeaksInOrder /\ PhoneEndReachesHub
    BY <2>1 DEF Init, ServeInv, SaidInv, PhoneSpeaksInOrder, PhoneEndReachesHub
  <2>3. PhoneInv
    BY DEF Init, PhoneInv, InLoop
  <2> QED BY <2>2, <2>3 DEF ChannelInv
<1> QED BY <1>1, CountsAlways, ChannelStep, PTL DEF Spec

(* A phone whose task has ended is never kept for good, however its end    *)
(* and the hub's own interleave.                                           *)
THEOREM PhoneEndAlwaysReachesHub == Spec => []PhoneEndReachesHub
<1>1. ChannelInv => PhoneEndReachesHub
  BY DEF ChannelInv
<1> QED BY <1>1, ChannelAlways, PTL

(* The hub meets no text and no end of a phone it was not told of, and     *)
(* nothing of one after its end.                                           *)
THEOREM PhoneAlwaysSpeaksInOrder == Spec => []PhoneSpeaksInOrder
<1>1. ChannelInv => PhoneSpeaksInOrder
  BY DEF ChannelInv
<1> QED BY <1>1, ChannelAlways, PTL

-----------------------------------------------------------------------------
(* The token at the phones' port (Gate).                                   *)

(* Text s is t, i characters of white space before it and k behind it.     *)
Framed(s, t, i, k) ==
  /\ Len(s) = i + Len(t) + k
  /\ \A m \in 1..Len(s) :
       IF i < m /\ m <= i + Len(t) THEN s[m] = t[m - i] ELSE s[m] \in White

(* A text without white space at either end.                               *)
Solid(t) == t # <<>> /\ t[1] \notin White /\ t[Len(t)] \notin White

(* trim takes the white space at both ends and nothing else.               *)
LEMMA TrimFrames ==
  ASSUME NEW S, NEW s \in Seq(S)
  PROVE  /\ trim(s) \in Seq(S)
         /\ \/ trim(s) = <<>>
            \/ Solid(trim(s)) /\ \E i, k \in Nat : Framed(s, trim(s), i, k)
<1> DEFINE solid == {k \in 1..Len(s) : s[k] \notin White}
           a == Min(solid)
           b == Max(solid)
<1>0. Len(s) \in Nat /\ \A m \in 1..Len(s) : s[m] \in S
  BY LenProperties
<1>1. CASE solid = {}
  <2>1. trim(s) = <<>>
    BY <1>1 DEF trim
  <2> QED BY <2>1
<1>2. CASE solid # {}
  <2>1. trim(s) = SubSeq(s, a, b)
    BY <1>2 DEF trim
  <2>2. a \in solid /\ \A y \in solid : a <= y
    <3>1. solid \subseteq Nat
      BY <1>0
    <3> HIDE DEF solid
    <3> QED BY <1>2, <3>1, MinIs
  <2>3. b \in solid /\ \A y \in solid : y <= b
    <3>1. solid \subseteq 1..Len(s)
      OBVIOUS
    <3> HIDE DEF solid
    <3> QED BY <1>0, <1>2, <3>1, MaxIs
  <2> HIDE DEF a, b
  <2>4. /\ a \in 1..Len(s) /\ b \in 1..Len(s) /\ a <= b
        /\ s[a] \notin White /\ s[b] \notin White
        /\ \A m \in 1..Len(s) : m < a \/ b < m => s[m] \in White
    BY <1>0, <2>2, <2>3
  <2> HIDE DEF solid
  <2> DEFINE t == SubSeq(s, a, b)
  <2>5. /\ t \in Seq(S) /\ Len(t) = b - a + 1
        /\ \A m \in 1..(b - a + 1) : t[m] = s[a + m - 1]
    <3>1. \A m \in a..b : s[m] \in S
      BY <1>0, <2>4
    <3> QED BY <2>4, <3>1, SubSeqProperties
  <2> HIDE DEF t
  <2>6. t[1] = s[a] /\ t[Len(t)] = s[b]
    <3>1. 1 \in 1..(b - a + 1) /\ b - a + 1 \in 1..(b - a + 1)
      BY <1>0, <2>4
    <3>2. a + 1 - 1 = a /\ a + (b - a + 1) - 1 = b
      BY <1>0, <2>4
    <3> QED BY <2>5, <3>1, <3>2
  <2>7. Solid(t)
    <3>1. t # <<>>
      BY <1>0, <2>4, <2>5, EmptySeq
    <3> QED BY <2>4, <2>6, <3>1 DEF Solid
  <2>8. a - 1 \in Nat /\ Len(s) - b \in Nat
    BY <1>0, <2>4
  <2>9. Framed(s, t, a - 1, Len(s) - b)
    <3>1. Len(s) = (a - 1) + Len(t) + (Len(s) - b)
      BY <1>0, <2>4, <2>5
    <3>2. ASSUME NEW m \in 1..Len(s)
          PROVE  IF a - 1 < m /\ m <= (a - 1) + Len(t)
                 THEN s[m] = t[m - (a - 1)] ELSE s[m] \in White
      <4>1. CASE a <= m /\ m <= b
        <5>1. m - (a - 1) \in 1..(b - a + 1) /\ a + (m - (a - 1)) - 1 = m
          BY <1>0, <2>4, <4>1
        <5>2. t[m - (a - 1)] = s[m]
          BY <2>5, <5>1
        <5> QED BY <1>0, <2>4, <2>5, <4>1, <5>2
      <4>2. CASE ~(a <= m /\ m <= b)
        BY <1>0, <2>4, <2>5, <4>2
      <4> QED BY <4>1, <4>2
    <3> QED BY <3>1, <3>2 DEF Framed
  <2>10. \E i, k \in Nat : Framed(s, t, i, k)
    BY <2>8, <2>9
  <2> QED BY <2>1, <2>5, <2>7, <2>10 DEF t
<1> QED BY <1>1, <1>2

(* A text with white space around it trims to that text.                   *)
LEMMA FramedTrims ==
  ASSUME NEW S, NEW s \in Seq(S), NEW t \in Seq(S), Solid(t),
         NEW i \in Nat, NEW k \in Nat, Framed(s, t, i, k)
  PROVE  trim(s) = t
<1> DEFINE solid == {m \in 1..Len(s) : s[m] \notin White}
           a == Min(solid)
           b == Max(solid)
<1>0. /\ Len(s) \in Nat /\ Len(t) \in Nat /\ Len(t) >= 1 /\ Len(s) = i + Len(t) + k
      /\ \A m \in 1..Len(s) : s[m] \in S
  <2>1. Len(s) \in Nat /\ Len(t) \in Nat /\ \A m \in 1..Len(s) : s[m] \in S
    BY LenProperties
  <2>2. Len(t) \in Nat \ {0}
    BY EmptySeq DEF Solid
  <2> QED BY <2>1, <2>2 DEF Framed
<1>1. i + 1 \in 1..Len(s) /\ s[i + 1] = t[1]
  <2>1. i + 1 \in 1..Len(s) /\ i < i + 1 /\ i + 1 <= i + Len(t) /\ (i + 1) - i = 1
    BY <1>0
  <2> QED BY <2>1 DEF Framed
<1>2. i + Len(t) \in 1..Len(s) /\ s[i + Len(t)] = t[Len(t)]
  <2>1. /\ i + Len(t) \in 1..Len(s) /\ i < i + Len(t) /\ i + Len(t) <= i + Len(t)
        /\ (i + Len(t)) - i = Len(t)
    BY <1>0
  <2> QED BY <2>1 DEF Framed
<1>3. i + 1 \in solid /\ i + Len(t) \in solid
  BY <1>1, <1>2 DEF Solid
<1>4. \A m \in solid : i + 1 <= m /\ m <= i + Len(t)
  <2> SUFFICES ASSUME NEW m \in 1..Len(s), s[m] \notin White PROVE i < m /\ m <= i + Len(t)
    BY <1>0
  <2> QED BY DEF Framed
<1>5. a = i + 1
  <2>1. a \in solid /\ \A y \in solid : a <= y
    <3>1. solid \subseteq Nat
      BY <1>0
    <3> HIDE DEF solid
    <3> QED BY <1>3, <3>1, MinIs
  <2>2. a \in Nat
    BY <2>1
  <2> HIDE DEF a
  <2>3. a <= i + 1 /\ i + 1 <= a
    BY <1>3, <1>4, <2>1
  <2> QED BY <2>2, <2>3
<1>6. b = i + Len(t)
  <2>1. b \in solid /\ \A y \in solid : y <= b
    <3>1. solid \subseteq 1..Len(s)
      OBVIOUS
    <3> HIDE DEF solid
    <3> QED BY <1>0, <1>3, <3>1, MaxIs
  <2>2. b \in Nat
    BY <2>1
  <2> HIDE DEF b
  <2>3. i + Len(t) <= b /\ b <= i + Len(t)
    BY <1>3, <1>4, <2>1
  <2> QED BY <1>0, <2>2, <2>3
<1>7. trim(s) = SubSeq(s, i + 1, i + Len(t))
  <2>1. solid # {}
    BY <1>3
  <2>2. trim(s) = SubSeq(s, a, b)
    BY <2>1 DEF trim
  <2> QED BY <1>5, <1>6, <2>2
<1> DEFINE u == SubSeq(s, i + 1, i + Len(t))
<1>8. /\ u \in Seq(S) /\ Len(u) = Len(t)
      /\ \A m \in 1..Len(t) : u[m] = s[i + m]
  <2>1. \A m \in (i + 1)..(i + Len(t)) : s[m] \in S
    BY <1>0
  <2>2. /\ u \in Seq(S)
        /\ Len(u) = IF i + 1 <= i + Len(t) THEN (i + Len(t)) - (i + 1) + 1 ELSE 0
        /\ \A m \in 1..((i + Len(t)) - (i + 1) + 1) : u[m] = s[(i + 1) + m - 1]
    BY <1>0, <2>1, SubSeqProperties
  <2> HIDE DEF u
  <2>3. (i + Len(t)) - (i + 1) + 1 = Len(t) /\ \A m \in Nat : (i + 1) + m - 1 = i + m
    BY <1>0
  <2> QED BY <1>0, <2>2, <2>3
<1> HIDE DEF u
<1>9. \A m \in 1..Len(t) : u[m] = t[m]
  <2> SUFFICES ASSUME NEW m \in 1..Len(t) PROVE s[i + m] = t[m]
    BY <1>8
  <2>1. i + m \in 1..Len(s) /\ i < i + m /\ i + m <= i + Len(t) /\ (i + m) - i = m
    BY <1>0
  <2> QED BY <2>1 DEF Framed
<1>10. u = t
  BY <1>8, <1>9, SeqEqual
<1> QED BY <1>7, <1>10 DEF u

(* The scheme's test: Bearer, then a blank.                                *)
LEMMA SchemeIs ==
  ASSUME NEW S, NEW text \in Seq(S)
  PROVE  LET blanks == {k \in 1..Len(text) : text[k] = Blank}
         IN  (blanks # {} /\ SubSeq(text, 1, Min(blanks) - 1) = <<"Bearer">>)
               <=> (Len(text) >= 2 /\ text[1] = "Bearer" /\ text[2] = Blank)
<1> DEFINE blanks == {k \in 1..Len(text) : text[k] = Blank}
           first == Min(blanks)
           scheme == SubSeq(text, 1, first - 1)
<1>0. Len(text) \in Nat /\ \A m \in 1..Len(text) : text[m] \in S
  BY LenProperties
<1>1. blanks # {} => first \in blanks /\ \A y \in blanks : first <= y
  <2>1. blanks \subseteq Nat
    BY <1>0
  <2> HIDE DEF blanks
  <2> QED BY <2>1, MinIs
<1>2. blanks # {} => first \in 1..Len(text) /\ text[first] = Blank
  BY <1>1
<1>3. blanks # {} =>
        /\ Len(scheme) = first - 1
        /\ \A m \in 1..(first - 1) : scheme[m] = text[m]
  <2> HAVE blanks # {}
  <2> HIDE DEF first
  <2>1. first \in 1..Len(text) /\ \A m \in 1..(first - 1) : text[m] \in S
    BY <1>0, <1>2
  <2>2. /\ Len(scheme) = IF 1 <= first - 1 THEN (first - 1) - 1 + 1 ELSE 0
        /\ \A m \in 1..((first - 1) - 1 + 1) : scheme[m] = text[1 + m - 1]
    BY <1>0, <2>1, SubSeqProperties
  <2> HIDE DEF scheme
  <2>3. (first - 1) - 1 + 1 = first - 1 /\ \A m \in Nat : 1 + m - 1 = m
    BY <1>0, <2>1
  <2> QED BY <1>0, <2>1, <2>2, <2>3
<1>4. ASSUME blanks # {}, scheme = <<"Bearer">>
      PROVE  Len(text) >= 2 /\ text[1] = "Bearer" /\ text[2] = Blank
  <2> HIDE DEF first, scheme, blanks
  <2>1. Len(scheme) = 1 /\ scheme[1] = "Bearer"
    BY <1>4
  <2>2. first = 2
    BY <1>0, <1>2, <1>3, <1>4, <2>1
  <2>3. text[1] = "Bearer"
    BY <1>3, <1>4, <2>1, <2>2
  <2> QED BY <1>0, <1>2, <1>4, <2>2, <2>3
<1>5. ASSUME Len(text) >= 2, text[1] = "Bearer", text[2] = Blank
      PROVE  blanks # {} /\ scheme = <<"Bearer">>
  <2>1. 2 \in blanks /\ 1 \notin blanks
    BY <1>0, <1>5 DEF Blank
  <2>2. blanks # {}
    BY <2>1
  <2> HIDE DEF first
  <2>3. first = 2
    BY <1>0, <1>1, <1>2, <2>1, <2>2
  <2>4. scheme = SubSeq(text, 1, 1)
    BY <2>3
  <2>5. SubSeq(text, 1, 1) = <<text[1]>>
    <3>1. \A m \in 1..1 : text[m] \in S
      BY <1>0, <1>5
    <3>2. /\ SubSeq(text, 1, 1) \in Seq(S) /\ Len(SubSeq(text, 1, 1)) = 1
          /\ \A m \in 1..(1 - 1 + 1) : SubSeq(text, 1, 1)[m] = text[1 + m - 1]
      BY <3>1, SubSeqProperties
    <3>3. SubSeq(text, 1, 1)[1] = text[1]
      BY <3>2
    <3>4. <<text[1]>> \in Seq(S) /\ Len(<<text[1]>>) = 1 /\ <<text[1]>>[1] = text[1]
      BY <3>1
    <3>5. \A m \in 1..1 : m = 1
      OBVIOUS
    <3>6. \A m \in 1..1 : SubSeq(text, 1, 1)[m] = <<text[1]>>[m]
      BY <3>3, <3>4, <3>5
    <3> HIDE DEF scheme
    <3> QED BY <3>2, <3>4, <3>6, SeqEqual
  <2> QED BY <1>5, <2>2, <2>4, <2>5
<1> QED BY <1>4, <1>5

(* A header letter by letter: white space, i characters of it, the scheme, *)
(* a blank, j characters of white space, the token, and k of white space.  *)
Laid(h, t, i, j, k) ==
  /\ Len(h) = i + j + 2 + Len(t) + k
  /\ \A m \in 1..Len(h) :
       IF m = i + 1 THEN h[m] = "Bearer"
       ELSE IF m = i + 2 THEN h[m] = Blank
       ELSE IF i + j + 2 < m /\ m <= i + j + 2 + Len(t) THEN h[m] = t[m - (i + j + 2)]
       ELSE h[m] \in White

(* bearer_bytes of a trimmed header.                                       *)
Found(text) ==
  LET blanks == {k \in 1..Len(text) : text[k] = Blank}
  IN  IF blanks = {} \/ SubSeq(text, 1, Min(blanks) - 1) # <<"Bearer">>
      THEN NoToken
      ELSE trim(SubSeq(text, Min(blanks) + 1, Len(text)))

(* What follows the scheme is found where the second symbol is a blank.    *)
LEMMA FoundIs ==
  ASSUME NEW S, NEW text \in Seq(S)
  PROVE  Found(text) = IF Len(text) >= 2 /\ text[1] = "Bearer" /\ text[2] = Blank
                       THEN trim(SubSeq(text, 3, Len(text))) ELSE NoToken
<1> DEFINE blanks == {k \in 1..Len(text) : text[k] = Blank}
           scheme == Len(text) >= 2 /\ text[1] = "Bearer" /\ text[2] = Blank
<1>0. Len(text) \in Nat
  BY LenProperties
<1>1. (blanks # {} /\ SubSeq(text, 1, Min(blanks) - 1) = <<"Bearer">>) <=> scheme
  BY SchemeIs
<1>2. CASE ~scheme
  BY <1>1, <1>2 DEF Found
<1>3. CASE scheme
  <2>1. blanks \subseteq Nat /\ 2 \in blanks /\ 1 \notin blanks /\ 0 \notin blanks
    BY <1>0, <1>3 DEF Blank
  <2>2. Min(blanks) = 2
    <3> HIDE DEF blanks
    <3>1. Min(blanks) \in blanks /\ \A y \in blanks : Min(blanks) <= y
      BY <2>1, MinIs
    <3>2. Min(blanks) \in Nat /\ Min(blanks) <= 2 /\ Min(blanks) # 1 /\ Min(blanks) # 0
      BY <2>1, <3>1
    <3> QED BY <3>2
  <2>3. Found(text) = trim(SubSeq(text, Min(blanks) + 1, Len(text)))
    BY <1>1, <1>3 DEF Found
  <2>4. Min(blanks) + 1 = 3
    BY <2>2
  <2> QED BY <1>3, <2>3, <2>4
<1> QED BY <1>2, <1>3

(* bearer_bytes looks at the trimmed header only.                          *)
LEMMA FoundInTrimmed == \A h : bearer_bytes(h) = Found(trim(h))
BY DEF bearer_bytes, Found

(* What bearer_bytes finds in a header laid out like that is the token.    *)
LEMMA LaidIsFound ==
  ASSUME NEW S, "Bearer" \in S, Blank \in S, NEW h \in Seq(S), NEW t \in Seq(S), Solid(t),
         NEW i \in Nat, NEW j \in Nat, NEW k \in Nat, Laid(h, t, i, j, k)
  PROVE  bearer_bytes(h) = t
<1> DEFINE n == j + 2 + Len(t)
           text == SubSeq(h, i + 1, i + n)
           rest == SubSeq(text, 3, n)
<1>0. /\ Len(h) \in Nat /\ Len(t) \in Nat /\ Len(t) >= 1 /\ n \in Nat /\ n >= 3
      /\ Len(h) = i + n + k /\ \A m \in 1..Len(h) : h[m] \in S
  <2>1. Len(h) \in Nat /\ Len(t) \in Nat /\ \A m \in 1..Len(h) : h[m] \in S
    BY LenProperties
  <2>2. Len(t) \in Nat \ {0}
    BY EmptySeq DEF Solid
  <2> QED BY <2>1, <2>2 DEF Laid
<1>1. \A m \in 1..Len(h) :
        IF m = i + 1 THEN h[m] = "Bearer"
        ELSE IF m = i + 2 THEN h[m] = Blank
        ELSE IF i + j + 2 < m /\ m <= i + n THEN h[m] = t[m - (i + j + 2)]
        ELSE h[m] \in White
  <2>1. i + j + 2 + Len(t) = i + n
    BY <1>0
  <2> QED BY <2>1 DEF Laid
<1>2. n = j + 2 + Len(t)
  OBVIOUS
<1> HIDE DEF n
<1>3. text \in Seq(S) /\ Len(text) = n /\ \A m \in 1..n : text[m] = h[i + m]
  <2>1. \A m \in (i + 1)..(i + n) : h[m] \in S
    BY <1>0
  <2>2. /\ text \in Seq(S)
        /\ Len(text) = IF i + 1 <= i + n THEN (i + n) - (i + 1) + 1 ELSE 0
        /\ \A m \in 1..((i + n) - (i + 1) + 1) : text[m] = h[(i + 1) + m - 1]
    BY <1>0, <2>1, SubSeqProperties
  <2> HIDE DEF text
  <2>3. (i + n) - (i + 1) + 1 = n /\ \A m \in Nat : (i + 1) + m - 1 = i + m
    BY <1>0
  <2> QED BY <1>0, <2>2, <2>3
<1> HIDE DEF text
<1>4. \A m \in 1..n : IF m = 1 THEN text[m] = "Bearer"
                      ELSE IF m = 2 THEN text[m] = Blank
                      ELSE IF j + 2 < m THEN text[m] = t[m - (j + 2)]
                      ELSE text[m] \in White
  <2> SUFFICES ASSUME NEW m \in 1..n
               PROVE  IF m = 1 THEN h[i + m] = "Bearer"
                      ELSE IF m = 2 THEN h[i + m] = Blank
                      ELSE IF j + 2 < m THEN h[i + m] = t[m - (j + 2)]
                      ELSE h[i + m] \in White
    BY <1>3
  <2>1. /\ i + m \in 1..Len(h) /\ (i + m = i + 1 <=> m = 1) /\ (i + m = i + 2 <=> m = 2)
        /\ (i + j + 2 < i + m <=> j + 2 < m) /\ i + m <= i + n
        /\ (i + m) - (i + j + 2) = m - (j + 2)
    BY <1>0
  <2> QED BY <1>1, <2>1
<1>5. Solid(text) /\ text[1] = "Bearer" /\ text[2] = Blank
  <2>1. /\ 1 \in 1..n /\ 2 \in 1..n /\ n \in 1..n /\ j + 2 < n /\ n # 1 /\ n # 2
        /\ n - (j + 2) = Len(t)
    BY <1>0, <1>2
  <2>2. text[1] = "Bearer"
    BY <1>4, <2>1
  <2>3. text[n] = t[Len(t)]
    BY <1>4, <2>1
  <2>4. text[2] = Blank
    BY <1>4, <2>1
  <2>5. text # <<>>
    BY <1>0, <1>3
  <2> QED BY <1>3, <2>2, <2>3, <2>4, <2>5 DEF Solid, White, Blank
<1>6. Framed(h, text, i, k)
  <2>1. Len(h) = i + Len(text) + k
    BY <1>0, <1>3
  <2>2. ASSUME NEW m \in 1..Len(h)
        PROVE  IF i < m /\ m <= i + Len(text) THEN h[m] = text[m - i] ELSE h[m] \in White
    <3>1. CASE i < m /\ m <= i + n
      <4>1. m - i \in 1..n /\ i + (m - i) = m
        BY <1>0, <3>1
      <4>2. text[m - i] = h[m]
        BY <1>3, <4>1
      <4> QED BY <1>3, <3>1, <4>2
    <3>2. CASE ~(i < m /\ m <= i + n)
      <4>1. h[m] \in White
        BY <1>0, <1>1, <1>2, <3>2
      <4> QED BY <1>3, <3>2, <4>1
    <3> QED BY <3>1, <3>2
  <2> QED BY <2>1, <2>2 DEF Framed
<1>7. trim(h) = text
  BY <1>3, <1>5, <1>6, FramedTrims
<1>8. rest \in Seq(S) /\ Len(rest) = n - 2 /\ \A m \in 1..(n - 2) : rest[m] = text[m + 2]
  <2>1. \A m \in 3..n : text[m] \in S
    BY <1>0, <1>3
  <2>2. /\ rest \in Seq(S) /\ Len(rest) = IF 3 <= n THEN n - 3 + 1 ELSE 0
        /\ \A m \in 1..(n - 3 + 1) : rest[m] = text[3 + m - 1]
    BY <1>0, <2>1, SubSeqProperties
  <2> HIDE DEF rest
  <2>3. n - 3 + 1 = n - 2 /\ \A m \in Nat : 3 + m - 1 = m + 2
    BY <1>0
  <2> QED BY <1>0, <2>2, <2>3
<1> HIDE DEF rest
<1>9. Framed(rest, t, j, 0)
  <2>1. Len(rest) = j + Len(t) + 0
    BY <1>0, <1>2, <1>8
  <2>2. ASSUME NEW m \in 1..Len(rest)
        PROVE  IF j < m /\ m <= j + Len(t) THEN rest[m] = t[m - j] ELSE rest[m] \in White
    <3>0. PICK l \in Nat : l = Len(t) /\ n = j + 2 + l /\ m \in 1..(j + l)
      BY <1>0, <1>2, <2>1
    <3>1. /\ m \in 1..(n - 2) /\ m + 2 \in 1..n /\ m + 2 # 1 /\ m + 2 # 2
          /\ (j + 2 < m + 2 <=> j < m)
          /\ m <= j + Len(t) /\ (m + 2) - (j + 2) = m - j
      BY <3>0
    <3> QED BY <1>4, <1>8, <3>1
  <2> QED BY <2>1, <2>2 DEF Framed
<1>10. trim(rest) = t
  BY <1>8, <1>9, FramedTrims
<1>11. Found(text) = trim(SubSeq(text, 3, Len(text)))
  <2>1. Len(text) >= 2
    BY <1>0, <1>3
  <2> QED BY <1>3, <1>5, <2>1, FoundIs
<1>12. bearer_bytes(h) = Found(text)
  BY <1>7, FoundInTrimmed
<1> QED BY <1>3, <1>10, <1>11, <1>12 DEF rest

(* The step from two to three, for the length of the trimmed header.       *)
LEMMA PastTwo == \A n \in Nat : n >= 2 /\ n # 2 => 3 <= n
OBVIOUS

(* A header in which bearer_bytes finds a token is laid out like that.     *)
LEMMA FoundIsLaid ==
  ASSUME NEW S, NEW h \in Seq(S), NEW t, t # <<>>, t # NoToken, bearer_bytes(h) = t
  PROVE  Solid(t) /\ \E i, j, k \in Nat : Laid(h, t, i, j, k)
<1>a. PICK text : text = trim(h)
  OBVIOUS
<1>b. PICK rest : rest = SubSeq(text, 3, Len(text))
  OBVIOUS
<1>1. text \in Seq(S) /\ Len(text) \in Nat
  BY <1>a, TrimFrames, LenProperties
<1>2. t = Found(text)
  BY <1>a, FoundInTrimmed
<1>3. Len(text) >= 2 /\ text[1] = "Bearer" /\ text[2] = Blank /\ t = trim(rest)
  BY <1>b, <1>1, <1>2, FoundIs
<1>4. PICK i, k1 \in Nat : Framed(h, text, i, k1)
  <2>1. text # <<>>
    BY <1>3
  <2> QED BY <1>a, <2>1, TrimFrames
<1>5. /\ Len(rest) = Len(text) - 2 /\ rest \in Seq(S)
      /\ \A m \in 1..(Len(text) - 2) : rest[m] = text[m + 2]
  <2>1. \A m \in 3..Len(text) : text[m] \in S
    BY <1>1, ElementOfSeq
  <2>2. /\ rest \in Seq(S)
        /\ Len(rest) = IF 3 <= Len(text) THEN Len(text) - 3 + 1 ELSE 0
        /\ \A m \in 1..(Len(text) - 3 + 1) : rest[m] = text[3 + m - 1]
    BY <1>b, <1>1, <2>1, SubSeqProperties
  <2>3. Len(text) - 3 + 1 = Len(text) - 2 /\ \A m \in Nat : 3 + m - 1 = m + 2
    BY <1>1
  <2>4. Len(rest) = Len(text) - 2
    <3>1. Len(rest) = IF 3 <= Len(text) THEN Len(text) - 3 + 1 ELSE 0
      BY <2>2
    <3>2. Len(text) \in Nat /\ Len(text) >= 2
      BY <1>1, <1>3
    <3>3. CASE Len(text) = 2
      <4>1. ~(3 <= Len(text)) /\ Len(text) - 2 = 0
        BY <3>3
      <4> QED BY <3>1, <4>1
    <3>4. CASE Len(text) # 2
      <4>1. 3 <= Len(text)
        BY <3>2, <3>4, PastTwo, Zenon
      <4> QED BY <2>3, <3>1, <4>1
    <3> QED BY <3>3, <3>4
  <2>5. ASSUME NEW m \in 1..(Len(text) - 2) PROVE rest[m] = text[m + 2]
    <3>1. m \in Nat /\ m \in 1..(Len(text) - 3 + 1)
      BY <1>1, <2>3
    <3>2. rest[m] = text[3 + m - 1]
      BY <2>2, <3>1
    <3> QED BY <2>3, <3>1, <3>2
  <2> QED BY <2>2, <2>4, <2>5
<1>6. /\ Solid(t) /\ t \in Seq(S) /\ \E j, k \in Nat : Framed(rest, t, j, k)
  BY <1>3, <1>5, TrimFrames
<1>7. PICK j, k2 \in Nat : Framed(rest, t, j, k2)
  BY <1>6
<1>8. Len(t) \in Nat
  BY <1>6, LenProperties
<1>9. Len(text) = j + 2 + Len(t) + k2 /\ Len(h) = i + j + 2 + Len(t) + (k2 + k1)
  <2>1. Len(rest) = j + Len(t) + k2 /\ Len(h) = i + Len(text) + k1
    BY <1>4, <1>7 DEF Framed
  <2>2. Len(rest) = Len(text) - 2
    BY <1>5
  <2> QED BY <1>1, <1>8, <2>1, <2>2
<1>10. ASSUME NEW m \in 1..Len(h)
       PROVE  IF m = i + 1 THEN h[m] = "Bearer"
              ELSE IF m = i + 2 THEN h[m] = Blank
              ELSE IF i + j + 2 < m /\ m <= i + j + 2 + Len(t)
              THEN h[m] = t[m - (i + j + 2)] ELSE h[m] \in White
  <2>1. IF i < m /\ m <= i + Len(text) THEN h[m] = text[m - i] ELSE h[m] \in White
    BY <1>4 DEF Framed
  <2>2. CASE m <= i \/ i + Len(text) < m
    <3>1. /\ ~(i < m /\ m <= i + Len(text)) /\ m # i + 1 /\ m # i + 2
          /\ ~(i + j + 2 < m /\ m <= i + j + 2 + Len(t))
      BY <1>8, <1>9, <2>2
    <3> QED BY <2>1, <3>1
  <2>3. CASE m = i + 1
    <3>1. i < m /\ m <= i + Len(text) /\ m - i = 1
      BY <1>1, <1>3, <2>3
    <3> QED BY <1>3, <2>1, <2>3, <3>1
  <2>4. CASE m = i + 2
    <3>1. i < m /\ m <= i + Len(text) /\ m - i = 2 /\ m # i + 1 /\ ~(i + j + 2 < m)
      BY <1>1, <1>3, <2>4
    <3> QED BY <1>3, <2>1, <2>4, <3>1
  <2>5. CASE i + 2 < m /\ m <= i + Len(text)
    <3> DEFINE d == m - (i + 2)
    <3>1. /\ d \in 1..(Len(text) - 2) /\ d + 2 = m - i /\ d \in 1..Len(rest)
          /\ (j < d <=> i + j + 2 < m) /\ (d <= j + Len(t) <=> m <= i + j + 2 + Len(t))
          /\ d - j = m - (i + j + 2) /\ i < m /\ m # i + 1 /\ m # i + 2
      BY <1>1, <1>3, <1>5, <1>8, <2>5
    <3> HIDE DEF d
    <3>2. h[m] = rest[d]
      BY <1>5, <2>1, <2>5, <3>1
    <3>3. IF j < d /\ d <= j + Len(t) THEN rest[d] = t[d - j] ELSE rest[d] \in White
      BY <1>7, <3>1 DEF Framed
    <3> QED BY <3>1, <3>2, <3>3
  <2> QED BY <1>1, <2>2, <2>3, <2>4, <2>5
<1>11. Laid(h, t, i, j, k2 + k1) /\ k2 + k1 \in Nat
  BY <1>9, <1>10 DEF Laid
<1> QED BY <1>6, <1>11

(* A header is laid out like that just when it is spelled like that.       *)
LEMMA SpelledIsLaid ==
  ASSUME NEW S, NEW t \in Seq(S), t # <<>>, NEW h \in Seq(S)
  PROVE  Spelled(h, t) <=> \E i, j, k \in Nat : Laid(h, t, i, j, k)
<1>0. PICK n, l \in Nat : n = Len(h) /\ l = Len(t) /\ l >= 1
  <2>1. Len(t) \in Nat \ {0}
    BY EmptySeq
  <2> QED BY <2>1, LenProperties
<1>1. ASSUME Spelled(h, t) PROVE \E i, j, k \in Nat : Laid(h, t, i, j, k)
  <2>1. PICK a, b \in 1..n :
          /\ a + 1 < b /\ b + l - 1 <= n
          /\ h[a] = "Bearer" /\ h[a + 1] = Blank
          /\ SubSeq(h, b, b + l - 1) = t
          /\ \A m \in 1..n : m \in {a, a + 1} \/ m \in b..(b + l - 1) \/ h[m] \in White
    BY <1>0, <1>1 DEF Spelled
  <2>2. PICK i, j, k \in Nat : a = i + 1 /\ b = i + j + 3 /\ n = i + j + 2 + l + k
    <3>1. a - 1 \in Nat /\ b - a - 2 \in Nat /\ n - (b + l - 1) \in Nat
      BY <1>0, <2>1
    <3>2. /\ a = (a - 1) + 1 /\ b = (a - 1) + (b - a - 2) + 3
          /\ n = (a - 1) + (b - a - 2) + 2 + l + (n - (b + l - 1))
      BY <1>0, <2>1
    <3> QED BY <3>1, <3>2
  <2>3. \A m \in 1..l : t[m] = h[b + m - 1]
    <3>1. b \in Nat /\ b + l - 1 \in Nat /\ 1 <= b /\ b <= (b + l - 1) + 1
      BY <1>0, <2>1
    <3>2. \A m \in 1..((b + l - 1) - b + 1) : t[m] = h[b + m - 1]
      <4>1. PICK e \in Nat : e = b + l - 1
        BY <3>1
      <4>2. /\ b \in Nat /\ 1 <= b /\ b <= e + 1 /\ e <= Len(h) /\ t = SubSeq(h, b, e)
        BY <1>0, <2>1, <3>1, <4>1
      <4>3. \A m \in 1..(e - b + 1) : t[m] = h[b + m - 1]
        BY <4>2, Cut
      <4> QED BY <4>1, <4>3
    <3>3. (b + l - 1) - b + 1 = l
      BY <1>0, <2>1
    <3> QED BY <3>2, <3>3
  <2>4. ASSUME NEW m \in 1..n
        PROVE  IF m = i + 1 THEN h[m] = "Bearer"
               ELSE IF m = i + 2 THEN h[m] = Blank
               ELSE IF i + j + 2 < m /\ m <= i + j + 2 + l THEN h[m] = t[m - (i + j + 2)]
               ELSE h[m] \in White
    <3>1. (m = a <=> m = i + 1) /\ (m = a + 1 <=> m = i + 2) /\ i + 2 = a + 1
      BY <1>0, <2>2
    <3>2. CASE i + j + 2 < m /\ m <= i + j + 2 + l
      <4>1. m - (i + j + 2) \in 1..l /\ b + (m - (i + j + 2)) - 1 = m /\ m # i + 1 /\ m # i + 2
        BY <1>0, <2>2, <3>2
      <4>2. t[m - (i + j + 2)] = h[m]
        BY <2>3, <4>1
      <4> QED BY <3>2, <4>1, <4>2
    <3>3. CASE ~(i + j + 2 < m /\ m <= i + j + 2 + l)
      <4>1. m \notin b..(b + l - 1)
        BY <1>0, <2>2, <3>3
      <4> QED BY <2>1, <3>1, <3>3, <4>1
    <3> QED BY <3>2, <3>3
  <2> QED BY <1>0, <2>2, <2>4 DEF Laid
<1>2. ASSUME NEW i \in Nat, NEW j \in Nat, NEW k \in Nat, Laid(h, t, i, j, k)
      PROVE  Spelled(h, t)
  <2>1. PICK a, b \in Nat : a = i + 1 /\ b = i + j + 3
    OBVIOUS
  <2>2. n = i + j + 2 + l + k
    BY <1>0, <1>2 DEF Laid
  <2>3. \A m \in 1..n :
          IF m = i + 1 THEN h[m] = "Bearer"
          ELSE IF m = i + 2 THEN h[m] = Blank
          ELSE IF i + j + 2 < m /\ m <= i + j + 2 + l THEN h[m] = t[m - (i + j + 2)]
          ELSE h[m] \in White
    BY <1>0, <1>2 DEF Laid
  <2>4. /\ a \in 1..n /\ b \in 1..n /\ a + 1 \in 1..n /\ a + 1 < b /\ b + l - 1 <= n
        /\ a + 1 # i + 1 /\ a + 1 = i + 2
    BY <1>0, <2>1, <2>2
  <2>5. h[a] = "Bearer" /\ h[a + 1] = Blank
    BY <2>1, <2>3, <2>4
  <2>6. SubSeq(h, b, b + l - 1) = t
    <3>1. PICK w : w = SubSeq(h, b, b + l - 1)
      OBVIOUS
    <3>2. b + l - 1 \in Nat /\ 1 <= b /\ b <= (b + l - 1) + 1 /\ (b + l - 1) - b + 1 = l
      BY <1>0, <2>1
    <3>3. /\ w \in Seq(S) /\ Len(w) = (b + l - 1) - b + 1
          /\ \A m \in 1..((b + l - 1) - b + 1) : w[m] = h[b + m - 1]
      BY <1>0, <2>1, <2>4, <3>1, <3>2, Cut
    <3>4. w \in Seq(S) /\ Len(w) = l /\ \A m \in 1..l : w[m] = h[b + m - 1]
      BY <3>2, <3>3
    <3>5. ASSUME NEW m \in 1..l PROVE w[m] = t[m]
      <4>1. /\ b + m - 1 \in 1..n /\ i + j + 2 < b + m - 1 /\ b + m - 1 <= i + j + 2 + l
            /\ (b + m - 1) - (i + j + 2) = m /\ b + m - 1 # i + 1 /\ b + m - 1 # i + 2
        BY <1>0, <2>1, <2>2
      <4>2. h[b + m - 1] = t[m]
        BY <2>3, <4>1
      <4> QED BY <3>4, <4>2
    <3>6. w = t
      BY <1>0, <3>4, <3>5, SeqEqual
    <3> QED BY <3>1, <3>6
  <2>7. ASSUME NEW m \in 1..n
        PROVE  m \in {a, a + 1} \/ m \in b..(b + l - 1) \/ h[m] \in White
    <3>1. /\ (m = i + 1 => m = a) /\ (m = i + 2 => m = a + 1)
          /\ (i + j + 2 < m /\ m <= i + j + 2 + l => m \in b..(b + l - 1))
      BY <1>0, <2>1
    <3> QED BY <2>3, <3>1
  <2> QED BY <1>0, <2>4, <2>5, <2>6, <2>7 DEF Spelled
<1> QED BY <1>1, <1>2

(* A header in which the token is laid out holds a character outside       *)
(* visible ASCII just when the token does.                                 *)
LEMMA LaidForeign ==
  ASSUME NEW S, NEW h \in Seq(S), NEW t \in Seq(S),
         NEW i \in Nat, NEW j \in Nat, NEW k \in Nat, Laid(h, t, i, j, k)
  PROVE  (\E m \in 1..Len(h) : h[m] \in Foreign) <=> (\E m \in 1..Len(t) : t[m] \in Foreign)
<1>0. PICK n, l \in Nat : n = Len(h) /\ l = Len(t) /\ n = i + j + 2 + l + k
  BY LenProperties DEF Laid
<1>1. \A m \in 1..n :
        IF m = i + 1 THEN h[m] = "Bearer"
        ELSE IF m = i + 2 THEN h[m] = Blank
        ELSE IF i + j + 2 < m /\ m <= i + j + 2 + l THEN h[m] = t[m - (i + j + 2)]
        ELSE h[m] \in White
  BY <1>0 DEF Laid
<1>2. "Bearer" \notin Foreign /\ Blank \notin Foreign /\ \A c \in White : c \notin Foreign
  BY GateAssumption DEF White
<1>3. ASSUME NEW m \in 1..n, h[m] \in Foreign
      PROVE  m - (i + j + 2) \in 1..l /\ t[m - (i + j + 2)] \in Foreign
  <2>1. i + j + 2 < m /\ m <= i + j + 2 + l /\ h[m] = t[m - (i + j + 2)]
    BY <1>1, <1>2, <1>3
  <2> QED BY <1>0, <1>3, <2>1
<1>4. ASSUME NEW m \in 1..l, t[m] \in Foreign
      PROVE  i + j + 2 + m \in 1..n /\ h[i + j + 2 + m] \in Foreign
  <2>1. /\ i + j + 2 + m \in 1..n /\ i + j + 2 + m # i + 1 /\ i + j + 2 + m # i + 2
        /\ i + j + 2 < i + j + 2 + m /\ i + j + 2 + m <= i + j + 2 + l
        /\ (i + j + 2 + m) - (i + j + 2) = m
    BY <1>0
  <2>2. h[i + j + 2 + m] = t[m]
    BY <1>1, <2>1
  <2> QED BY <1>4, <2>1, <2>2
<1> QED BY <1>0, <1>3, <1>4

(* A header that counts as empty has no token.                             *)
LEMMA EmptyHasNone == bearer_bytes(<<>>) = NoToken
<1>1. <<>> \in Seq({}) /\ Len(<<>>) = 0
  OBVIOUS
<1>2. PICK e : e = <<>>
  OBVIOUS
<1>3. trim(e) = <<>>
  <2>1. {k \in 1..Len(e) : e[k] \notin White} = {}
    BY <1>1, <1>2
  <2> QED BY <2>1 DEF trim
<1>4. bearer_bytes(e) = Found(<<>>)
  BY <1>3, FoundInTrimmed
<1>5. Found(<<>>) = NoToken
  <2>1. ~(Len(<<>>) >= 2)
    BY <1>1
  <2> QED BY <1>1, <2>1, FoundIs
<1> QED BY <1>2, <1>4, <1>5

(* What bearer_bytes finds is a text over the header's characters.         *)
LEMMA FoundTyped ==
  ASSUME NEW S, NEW h \in Seq(S), bearer_bytes(h) # NoToken
  PROVE  bearer_bytes(h) \in Seq(S)
<1>1. PICK text : text = trim(h)
  OBVIOUS
<1>2. text \in Seq(S) /\ Len(text) \in Nat
  BY <1>1, TrimFrames, LenProperties
<1>3. bearer_bytes(h) = Found(text)
  BY <1>1, FoundInTrimmed
<1>4. Found(text) = trim(SubSeq(text, 3, Len(text)))
  BY <1>2, <1>3, FoundIs
<1>5. SubSeq(text, 3, Len(text)) \in Seq(S)
  <2>1. \A m \in 3..Len(text) : text[m] \in S
    BY <1>2, ElementOfSeq
  <2> QED BY <1>2, <2>1, SubSeqProperties
<1> QED BY <1>3, <1>4, <1>5, TrimFrames

(* Every token Config::load takes admits its own spellings and no other    *)
(* header, and none at all when it cannot be sent.                         *)
LEMMA Admission == AdmitsItsToken
<1> DEFINE S == TokenChars \cup {"Bearer"}
<1>0. /\ "Bearer" \in S /\ Blank \in S /\ "none" \notin S
      /\ MaxToken \in Nat /\ MaxHeader \in Nat
  BY GateAssumption DEF TokenChars, White, Blank
<1> SUFFICES ASSUME NEW t \in Tokens, NEW h \in Headers
             PROVE  admits(t, h) <=> ~Padded(t) /\ to_str(t) = t /\ Spelled(h, t)
  BY DEF AdmitsItsToken
<1>1. /\ t \in Seq(S) /\ t # <<>> /\ t # NoToken
  <2>1. PICK n \in 0..MaxToken : t \in [1..n -> TokenChars]
    BY DEF Tokens, SeqOf
  <2>2. t # <<>>
    BY DEF Tokens
  <2>3. t \in Seq(S)
    BY <1>0, <2>1
  <2>4. t[1] \in S
    BY <2>2, <2>3
  <2> QED BY <1>0, <2>2, <2>3, <2>4 DEF NoToken
<1>2. h \in Seq(S)
  <2>1. PICK n \in 0..MaxHeader : h \in [1..n -> S]
    BY DEF Headers, SeqOf
  <2> QED BY <1>0, <2>1
<1> HIDE DEF S
<1>3. Solid(t) <=> ~Padded(t)
  BY <1>1 DEF Solid, Padded
<1>4. to_str(t) = t <=> ~\E m \in 1..Len(t) : t[m] \in Foreign
  BY <1>1 DEF to_str
<1>5. Spelled(h, t) <=> \E i, j, k \in Nat : Laid(h, t, i, j, k)
  BY <1>1, <1>2, SpelledIsLaid
<1>6. CASE \E m \in 1..Len(h) : h[m] \in Foreign
  <2>1. bearer_bytes(to_str(h)) = NoToken
    BY <1>6, EmptyHasNone DEF to_str
  <2>2. ~admits(t, h)
    BY <2>1 DEF admits
  <2>3. Spelled(h, t) => to_str(t) # t
    BY <1>1, <1>2, <1>4, <1>5, <1>6, LaidForeign
  <2> QED BY <2>2, <2>3
<1>7. CASE ~\E m \in 1..Len(h) : h[m] \in Foreign
  <2>1. to_str(h) = h
    BY <1>7 DEF to_str
  <2>2. admits(t, h) <=> bearer_bytes(h) = t
    <3>1. ASSUME admits(t, h) PROVE bearer_bytes(h) = t
      <4>1. bearer_bytes(h) \in Seq(S)
        BY <1>1, <1>2, <2>1, <3>1, FoundTyped DEF admits
      <4>2. /\ Len(bearer_bytes(h)) = Len(t)
            /\ \A m \in 1..Len(bearer_bytes(h)) : bearer_bytes(h)[m] = t[m]
        BY <2>1, <3>1 DEF admits, token_eq
      <4> QED BY <1>1, <4>1, <4>2, SeqEqual
    <3>2. ASSUME bearer_bytes(h) = t PROVE admits(t, h)
      BY <1>1, <2>1, <3>2 DEF admits, token_eq
    <3> QED BY <3>1, <3>2
  <2>3. ASSUME admits(t, h) PROVE ~Padded(t) /\ to_str(t) = t /\ Spelled(h, t)
    <3>1. Solid(t) /\ \E i, j, k \in Nat : Laid(h, t, i, j, k)
      BY <1>1, <1>2, <2>2, <2>3, FoundIsLaid
    <3>2. to_str(t) = t
      BY <1>1, <1>2, <1>4, <1>7, <3>1, LaidForeign
    <3> QED BY <1>3, <1>5, <3>1, <3>2
  <2>4. ASSUME ~Padded(t), Spelled(h, t) PROVE admits(t, h)
    <3>1. PICK i, j, k \in Nat : Laid(h, t, i, j, k)
      BY <1>5, <2>4
    <3>2. bearer_bytes(h) = t
      BY <1>0, <1>1, <1>2, <1>3, <2>4, <3>1, LaidIsFound, Zenon
    <3> QED BY <2>2, <3>2
  <2> QED BY <2>3, <2>4
<1> QED BY <1>6, <1>7

(* While the phones' port is open it admits whoever sends the configured   *)
(* token and nobody else, for every token Config::load takes, every        *)
(* header and whatever characters they are made of (net.rs's upgrade       *)
(* callback, bearer_bytes and token_eq); a token with white space at an    *)
(* end or with a character HeaderValue::to_str refuses admits nobody.      *)
THEOREM OnlyTheTokenAlways == Spec => []OnlyTheToken
<1>1. OnlyTheToken
  BY Admission DEF OnlyTheToken
<1> QED BY <1>1, PTL

=============================================================================
