------------------------------- MODULE Topside -------------------------------
(***************************************************************************)
(* The topside process around the hub: main and its exit codes, serve with *)
(* the accept loops, and one task per phone (net.rs, phone_connection),    *)
(* all talking to the hub through its one channel.  The hub is kept to     *)
(* what it does to a phone's connection: it binds it, queues texts for it, *)
(* forgets it when it ends, and lets go of all when it is told to stop.    *)
(* Home connections are HomeConn's subject.                                *)
(*                                                                         *)
(* The phones are external: they send, read, close and fail as they like.  *)
(* Which bearer tokens are admitted is module Gate's subject.              *)
(***************************************************************************)
EXTENDS Integers, Sequences, SequencesExt

CONSTANTS
  Conns,      \* phone connections
  MaxText,    \* bound: texts one phone sends
  MaxOut      \* bound: texts the hub queues for one phone

ASSUME BoundsAssumption == {MaxText, MaxOut} \subseteq Nat

VARIABLES
  main,      \* "Load", "Signals", "Bind", "Bound", "Serve", "Stopping" or
             \* "Exited"
  code,      \* exit status, Running before the exit
  signal,    \* the signal task has set the shutdown flag
  accepting, \* the phones' accept loop runs
  hub,       \* the hub's task runs
  queue,     \* the hub's channel
  task,      \* conn -> where its phone_connection is
  binding,   \* conn -> its bind channel: "Open", "Sent" or "Closed"
  open,      \* conn -> the phone's end is open
  sent,      \* conn -> texts the phone has sent
  held,      \* phones the hub keeps a sender for
  out,       \* conn -> texts waiting in out_rx
  queued     \* conn -> texts the hub has queued so far

vars == <<main, code, signal, accepting, hub, queue, task, binding, open, sent,
          held, out, queued>>
mainVars == <<main, code, signal, accepting>>
hubVars == <<hub, binding, held, queued>>

Running == -1
SUCCESS == 0
FAILURE == 1
BAD_CONFIG == 2

Init ==
  /\ main = "Load" /\ code = Running
  /\ signal = FALSE
  /\ accepting = FALSE /\ hub = FALSE
  /\ queue = <<>>
  /\ task = [c \in Conns |-> "None"]
  /\ binding = [c \in Conns |-> "Open"]
  /\ open = [c \in Conns |-> TRUE]
  /\ sent = [c \in Conns |-> 0]
  /\ held = {}
  /\ out = [c \in Conns |-> 0] /\ queued = out

-----------------------------------------------------------------------------
(* main, serve and the accept loop.                                        *)

(* main returns; the runtime goes, and every task with it.                 *)
Exit(status) ==
  /\ main' = "Exited"
  /\ code' = status
  /\ accepting' = FALSE

(* A step of the start-up: it leads on, or it ends the program.            *)
StartUp(from, to, status) ==
  /\ main = from
  /\ \/ main' = to /\ UNCHANGED <<code, accepting>>
     \/ Exit(status)
  /\ UNCHANGED <<signal, hubVars, queue, task, open, sent, out>>

(* Config::load                                                            *)
LoadConfig == StartUp("Load", "Signals", BAD_CONFIG)

(* Shutdown::on_signals                                                    *)
OnSignals == StartUp("Signals", "Bind", FAILURE)

(* Server::bind: both listeners, or none.                                  *)
BindListeners == StartUp("Bind", "Bound", FAILURE)

(* serve spawns the hub and the accept loops.                              *)
Serve ==
  /\ main = "Bound"
  /\ main' = "Serve"
  /\ accepting' = TRUE /\ hub' = TRUE
  /\ UNCHANGED <<code, signal, binding, held, queued, queue, task, open, sent, out>>

(* SIGINT or SIGTERM, once the handlers are installed.                     *)
Signal ==
  /\ main \in {"Bind", "Bound", "Serve", "Stopping"}
  /\ ~signal
  /\ signal' = TRUE
  /\ UNCHANGED <<main, code, accepting, hubVars, queue, task, open, sent, out>>

(* Mutant of StopServing: the hub is not told.                             *)
StopServingUntold ==
  /\ main = "Serve" /\ signal
  /\ main' = "Stopping"
  /\ accepting' = FALSE
  /\ UNCHANGED <<code, signal, queue, hubVars, task, open, sent, out>>

(* serve wakes: both accept tasks are aborted and the hub is told.         *)
StopServing ==
  /\ main = "Serve" /\ signal
  /\ main' = "Stopping"
  /\ accepting' = FALSE
  /\ queue' = Append(queue, [kind |-> "Shutdown"])
  /\ UNCHANGED <<code, signal, hubVars, task, open, sent, out>>

(* hub.await is over.                                                      *)
Joined ==
  /\ main = "Stopping" /\ ~hub
  /\ Exit(SUCCESS)
  /\ UNCHANGED <<signal, hubVars, queue, task, open, sent, out>>

(* phone_accept spawns a task, or sees the shutdown itself.                *)
PhoneAccept ==
  /\ accepting
  /\ \/ \E c \in Conns :
          /\ task[c] = "None"
          /\ task' = [task EXCEPT ![c] = "Upgrade"]
          /\ UNCHANGED accepting
     \/ /\ signal
        /\ accepting' = FALSE
        /\ UNCHANGED task
  /\ UNCHANGED <<main, code, signal, hubVars, queue, open, sent, out>>

-----------------------------------------------------------------------------
(* One phone's task.  The process has not exited.                          *)

Step(c, from, to) ==
  /\ main # "Exited"
  /\ task[c] = from
  /\ task' = [task EXCEPT ![c] = to]

(* to_hub.send, which fails once the hub's receiver is gone.               *)
Tell(c, kind) ==
  queue' = IF hub THEN Append(queue, [kind |-> kind, conn |-> c]) ELSE queue

(* The WebSocket upgrade fails, for one because of the token, or the phone *)
(* is announced.                                                           *)
Upgrade(c) ==
  /\ \/ Step(c, "Upgrade", "Done") /\ UNCHANGED queue
     \/ Step(c, "Upgrade", IF hub THEN "Bind" ELSE "Done") /\ Tell(c, "Hello")
  /\ UNCHANGED <<mainVars, hubVars, open, sent, out>>

AwaitBind(c) ==
  /\ \/ binding[c] = "Sent" /\ Step(c, "Bind", "Loop")
     \/ binding[c] = "Closed" /\ Step(c, "Bind", "Done")
  /\ UNCHANGED <<mainVars, hubVars, queue, open, sent, out>>

(* A text goes to the hub; binary frames and pongs are dropped.            *)
ReadText(c) ==
  /\ open[c] /\ sent[c] < MaxText
  /\ Step(c, "Loop", IF hub THEN "Loop" ELSE "Done")
  /\ sent' = [sent EXCEPT ![c] = @ + 1]
  /\ Tell(c, "Text")
  /\ UNCHANGED <<mainVars, hubVars, open, out>>

(* A ping is answered; nothing is read until the pong is written.          *)
ReadPing(c) ==
  /\ open[c]
  /\ Step(c, "Loop", "Pong")
  /\ UNCHANGED <<mainVars, hubVars, queue, open, sent, out>>

(* Mutant of EndTold: the task just ends.                                  *)
EndUntold(c, from) == Step(c, from, "Done") /\ UNCHANGED queue

EndTold(c, from) == Step(c, from, "Done") /\ Tell(c, "Eof")

(* Mutant of ReadEnd: the end of the stream is polled again and again.     *)
ReadEndIgnored(c) ==
  /\ ~open[c]
  /\ Step(c, "Loop", "Loop")
  /\ UNCHANGED <<mainVars, hubVars, queue, open, sent, out>>

(* Mutant of ReadEnd: the loop is not left.                                *)
ReadEndStays(c) ==
  /\ ~open[c]
  /\ Step(c, "Loop", "Loop")
  /\ Tell(c, "Eof")
  /\ UNCHANGED <<mainVars, hubVars, open, sent, out>>

(* Close, an error or the end of the stream.                               *)
ReadEnd(c) ==
  /\ ~open[c]
  /\ EndTold(c, "Loop")
  /\ UNCHANGED <<mainVars, hubVars, open, sent, out>>

(* Mutant of StartWrite: an empty queue is received from.                  *)
StartWriteEmpty(c) ==
  /\ out' = [out EXCEPT ![c] = @ - 1]
  /\ Step(c, "Loop", "Writing")
  /\ UNCHANGED <<mainVars, hubVars, queue, open, sent>>

(* A text of out_rx; nothing is read until it is written.                  *)
StartWrite(c) ==
  /\ out[c] > 0
  /\ out' = [out EXCEPT ![c] = @ - 1]
  /\ Step(c, "Loop", "Writing")
  /\ UNCHANGED <<mainVars, hubVars, queue, open, sent>>

(* A text that cannot be written ends the task; a pong that cannot is      *)
(* forgotten.                                                              *)
FinishWrite(c) ==
  /\ \/ Step(c, "Writing", "Loop") /\ UNCHANGED queue
     \/ ~open[c] /\ EndTold(c, "Writing")
     \/ Step(c, "Pong", "Loop") /\ UNCHANGED queue
  /\ UNCHANGED <<mainVars, hubVars, open, sent, out>>

(* The hub dropped the sender and nothing is left to write.                *)
OutClosed(c) ==
  /\ c \notin held /\ out[c] = 0
  /\ Step(c, "Loop", "Done")
  /\ UNCHANGED <<mainVars, hubVars, queue, open, sent, out>>

PhoneCloses(c) ==
  /\ main # "Exited"
  /\ open[c] /\ task[c] # "None"
  /\ open' = [open EXCEPT ![c] = FALSE]
  /\ UNCHANGED <<mainVars, hubVars, queue, task, sent, out>>

-----------------------------------------------------------------------------
(* The hub.                                                                *)

(* Texts for some of the phones it holds; the channels are unbounded.      *)
Sends(some) ==
  /\ some \subseteq held
  /\ \A c \in some : queued[c] < MaxOut
  /\ out' = [c \in Conns |-> IF c \in some THEN out[c] + 1 ELSE out[c]]
  /\ queued' = [c \in Conns |-> IF c \in some THEN queued[c] + 1 ELSE queued[c]]

(* on_phone_eof removes the phone and its sender.                          *)
forget(c) == held' = held \ {c}

HubHandles ==
  /\ main # "Exited"
  /\ hub /\ queue # <<>>
  /\ LET m == Head(queue) IN
       \/ /\ m.kind = "Hello"
          /\ held' = held \cup {m.conn}
          /\ binding' = [binding EXCEPT ![m.conn] = "Sent"]
          /\ queue' = Tail(queue)
          /\ UNCHANGED <<hub, out, queued>>
       \/ /\ m.kind = "Text"
          /\ \E some \in SUBSET held : Sends(some)
          /\ queue' = Tail(queue)
          /\ UNCHANGED <<hub, binding, held>>
       \/ /\ m.kind = "Eof"
          /\ forget(m.conn)
          /\ queue' = Tail(queue)
          /\ UNCHANGED <<hub, binding, out, queued>>
       \/ /\ m.kind = "Shutdown"      \* shutdown, and run returns
          /\ hub' = FALSE
          /\ held' = {}
          /\ binding' = [c \in Conns |-> IF binding[c] = "Open" THEN "Closed"
                                         ELSE binding[c]]
          /\ queue' = <<>>
          /\ UNCHANGED <<out, queued>>
  /\ UNCHANGED <<mainVars, task, open, sent>>

(* Something from the home side makes the hub write to its phones.         *)
HubWrites ==
  /\ main # "Exited"
  /\ hub
  /\ \E some \in SUBSET held \ {{}} : Sends(some)
  /\ UNCHANGED <<mainVars, hub, binding, held, queue, task, open, sent>>

-----------------------------------------------------------------------------
PhoneTask(c) ==
  Upgrade(c) \/ AwaitBind(c) \/ ReadText(c) \/ ReadPing(c) \/ ReadEnd(c)
    \/ StartWrite(c) \/ OutClosed(c)

Next ==
  \/ LoadConfig \/ OnSignals \/ BindListeners \/ Serve
  \/ Signal \/ StopServing \/ Joined \/ PhoneAccept
  \/ HubHandles \/ HubWrites
  \/ \E c \in Conns : PhoneTask(c) \/ FinishWrite(c) \/ PhoneCloses(c)

(* main and the hub are polled.  Nothing is assumed of a phone.            *)
Spec ==
  Init /\ [][Next]_vars /\ WF_vars(StopServing) /\ WF_vars(Joined)
       /\ WF_vars(HubHandles)

(* The phones' tasks are polled, select! being fair to a branch that is    *)
(* ready again and again, and a write ends: the phone reads, or its        *)
(* connection fails (external; the code sets no timeout).                  *)
PhonesPolled ==
  \A c \in Conns :
    /\ WF_vars(Upgrade(c)) /\ WF_vars(AwaitBind(c)) /\ WF_vars(FinishWrite(c))
    /\ SF_vars(ReadEnd(c))

-----------------------------------------------------------------------------
(* Types; no text is taken from an empty queue.                            *)
TypeOK ==
  /\ main \in {"Load", "Signals", "Bind", "Bound", "Serve", "Stopping", "Exited"}
  /\ code \in {Running, SUCCESS, FAILURE, BAD_CONFIG}
  /\ {signal, accepting, hub} \subseteq BOOLEAN
  /\ task \in [Conns -> {"None", "Upgrade", "Bind", "Loop", "Writing", "Pong",
                         "Done"}]
  /\ binding \in [Conns -> {"Open", "Sent", "Closed"}]
  /\ held \subseteq Conns
  /\ out \in [Conns -> 0..MaxOut]

(* A phone whose task has ended is never kept for good: the hub has        *)
(* forgotten it, or the message that makes it do so is in its channel.     *)
PhoneEndReachesHub ==
  \A c \in held : task[c] = "Done" => [kind |-> "Eof", conn |-> c] \in Range(queue)

(* The hub never meets a text, or an end, of a phone it was not told of,   *)
(* or any message of one after its end: what a phone's task says stays in  *)
(* order, whatever the other tasks put between.                            *)
PhoneSpeaksInOrder ==
  \A j \in 1..Len(queue) :
    LET m == queue[j] IN
      m.kind \in {"Text", "Eof"} =>
        /\ m.conn \in held
        /\ \A k \in (j + 1)..Len(queue) :
             m.kind = "Eof" /\ queue[k].kind # "Shutdown" => queue[k].conn # m.conn

(* A signal stops a server that serves, with status 0, even when phones    *)
(* keep talking or stop reading.                                           *)
SignalStops == (main = "Serve" /\ signal) ~> (main = "Exited" /\ code = SUCCESS)

(* When the phones' tasks are polled, a phone that goes is forgotten for   *)
(* good, whatever its task was doing.                                      *)
GoneForgotten ==
  PhonesPolled =>
    \A c \in Conns : ~open[c] ~> [](c \notin held \/ main = "Exited")

=============================================================================
