------------------------------ MODULE HomeConn ------------------------------
(***************************************************************************)
(* One home connection of topside (net.rs, home_connection): the task that *)
(* accepts a snorkel's TLS, announces itself to the hub, registers with    *)
(* the leader and then moves frames both ways until one end lets go.  The  *)
(* hub is kept to what it does to this one connection: it binds it, queues *)
(* messages for it, and drops its Link when it pleases.                    *)
(*                                                                         *)
(* The leader's bytes are cut into pieces, FrameSize to a frame, of which  *)
(* the first LengthSize are the length prefix: read_frame awaits within a  *)
(* frame, and the select! that polls it drops the unfinished future, and   *)
(* the bytes it holds, whenever another branch is ready first.             *)
(***************************************************************************)
EXTENDS Integers, Sequences

CONSTANTS
  LengthSize,   \* pieces the 4-byte length prefix may arrive in
  FrameSize,    \* pieces of a whole frame
  MaxFrames,    \* bound: frames the leader sends
  MaxOut        \* bound: messages the hub queues for the leader

ASSUME SizesAssumption ==
  /\ LengthSize \in Nat \ {0}
  /\ FrameSize \in Nat
  /\ LengthSize < FrameSize
  /\ {MaxFrames, MaxOut} \subseteq Nat

VARIABLES
  at,        \* "Tls", "Bind", "Register", "Loop", "Writing" or "Done"
  taken,     \* pieces read off the link so far
  got,       \* pieces the current read_frame future holds
  want,      \* pieces its length prefix promises; 0 until it is read
  out,       \* messages queued in out_rx
  toHub,     \* this task's messages in the hub's channel
  link,      \* the hub's Link: "None", "Held" or "Dropped"
  binding,   \* the bind channel: "Open", "Sent" or "Closed"
  hub,       \* the hub's task runs
  queued     \* messages the hub has queued so far

vars == <<at, taken, got, want, out, toHub, link, binding, hub, queued>>
taskVars == <<at, taken, got, want>>
hubVars == <<link, binding, hub, queued>>

Init ==
  /\ at = "Tls"
  /\ taken = 0 /\ got = 0 /\ want = 0
  /\ out = 0
  /\ toHub = <<>>
  /\ link = "None"
  /\ binding = "Open"
  /\ hub = TRUE
  /\ queued = 0

-----------------------------------------------------------------------------
(* The task.                                                               *)

(* to_hub.send fails once the hub's receiver is gone.                      *)
Send(m) == toHub' = IF hub THEN Append(toHub, m) ELSE toHub

(* The reader has taken whole frames: the next piece starts one.           *)
Aligned == taken % FrameSize = 0

(* A new read_frame future; what the old one held is lost with it.         *)
NewRead == got' = 0 /\ want' = 0

(* The TLS handshake fails, or the link is announced.                      *)
AcceptTls ==
  /\ at = "Tls"
  /\ \/ at' = "Done" /\ UNCHANGED toHub
     \/ /\ at' = IF hub THEN "Bind" ELSE "Done"
        /\ Send("Accepted")
  /\ UNCHANGED <<taken, got, want, out, hubVars>>

(* The hub names the generation, or goes away without doing so.            *)
AwaitBind ==
  /\ at = "Bind"
  /\ \/ binding = "Sent" /\ at' = "Register"
     \/ binding = "Closed" /\ at' = "Done"
  /\ UNCHANGED <<taken, got, want, out, toHub, hubVars>>

(* Mutant of EndTold: the task just ends.                                  *)
EndUntold == at' = "Done" /\ UNCHANGED toHub

(* Mutant of EndTold: the loop is not left.                                *)
EndStays == Send("HomeEof") /\ at' = "Loop"

(* HomeEof, and the task ends.                                             *)
EndTold == Send("HomeEof") /\ at' = "Done"

(* Register is written before anything is read.                            *)
WriteRegister ==
  /\ at = "Register"
  /\ \/ at' = "Loop" /\ UNCHANGED toHub
     \/ EndTold
  /\ UNCHANGED <<taken, got, want, out, hubVars>>

(* One more piece arrives for the current read_frame.  Aligned, the prefix *)
(* promises the rest of its frame; otherwise its value is whatever bytes   *)
(* lie there: a length beyond MAX_FRAME, which is an error, or another,    *)
(* shorter or longer than what is left to read.                            *)
ReadPiece ==
  /\ at = "Loop"
  /\ taken < MaxFrames * FrameSize
  /\ want = 0 \/ got < want
  /\ taken' = taken + 1
  /\ IF got + 1 < LengthSize \/ want # 0
     THEN /\ got' = got + 1
          /\ UNCHANGED <<at, want, toHub>>
     ELSE \/ /\ got' = got + 1
             /\ IF (taken - got) % FrameSize = 0
                THEN want' = FrameSize
                ELSE want' \in LengthSize..(2 * FrameSize)
             /\ UNCHANGED <<at, toHub>>
          \/ /\ (taken - got) % FrameSize # 0
             /\ EndTold
             /\ NewRead
  /\ UNCHANGED <<out, hubVars>>

(* The frame is complete: it goes to the hub (as Unknown when it does not  *)
(* parse), and the next one is read; without a hub the task ends.          *)
FrameRead ==
  /\ at = "Loop"
  /\ want # 0 /\ got >= want
  /\ Send("HomeFrame")
  /\ at' = IF hub THEN "Loop" ELSE "Done"
  /\ NewRead
  /\ UNCHANGED <<taken, out, hubVars>>

(* EOF or an error from the link.                                          *)
ReadFails ==
  /\ at = "Loop"
  /\ EndTold
  /\ NewRead
  /\ UNCHANGED <<taken, out, hubVars>>

(* Mutant of StartWrite: an empty queue is received from.                  *)
StartWriteEmpty ==
  /\ at = "Loop"
  /\ out' = out - 1
  /\ at' = "Writing"
  /\ NewRead
  /\ UNCHANGED <<taken, toHub, hubVars>>

(* A queued message or the 30 s ping wins the select!: read_frame's future *)
(* is dropped, and nothing is read until the write is through.             *)
StartWrite ==
  /\ at = "Loop"
  /\ \/ out > 0 /\ out' = out - 1
     \/ UNCHANGED out
  /\ at' = "Writing"
  /\ NewRead
  /\ UNCHANGED <<taken, toHub, hubVars>>

FinishWrite ==
  /\ at = "Writing"
  /\ \/ at' = "Loop" /\ UNCHANGED toHub
     \/ EndTold
  /\ UNCHANGED <<taken, got, want, out, hubVars>>

(* Mutant of Halted: a drop of the Link is not looked at while a frame is  *)
(* half read.                                                              *)
HaltedBetweenFrames ==
  /\ at = "Loop"
  /\ link = "Dropped" /\ got = 0
  /\ at' = "Done"
  /\ NewRead
  /\ UNCHANGED <<taken, out, toHub, hubVars>>

(* The Link was dropped: halt_rx fires, or out_rx is closed and empty.     *)
Halted ==
  /\ at = "Loop"
  /\ link = "Dropped"
  /\ at' = "Done"
  /\ NewRead
  /\ UNCHANGED <<taken, out, toHub, hubVars>>

-----------------------------------------------------------------------------
(* The hub, towards this connection.                                       *)

(* Accepted makes the Link and binds it; a frame may make the hub send on  *)
(* the Link or drop it, unless it already has; HomeEof drops it.           *)
HubReceives ==
  /\ hub /\ toHub # <<>>
  /\ toHub' = Tail(toHub)
  /\ \/ /\ Head(toHub) = "Accepted"
        /\ link' = "Held"
        /\ binding' = "Sent"
        /\ UNCHANGED <<out, queued>>
     \/ /\ Head(toHub) = "HomeFrame"
        /\ link' \in {link, "Dropped"}
        /\ \E n \in 0..(MaxOut - queued) :
             /\ n > 0 => link = "Held"
             /\ out' = out + n
             /\ queued' = queued + n
        /\ UNCHANGED binding
     \/ /\ Head(toHub) = "HomeEof"
        /\ link' = "Dropped"
        /\ UNCHANGED <<binding, out, queued>>
  /\ UNCHANGED <<taskVars, hub>>

(* Link::send for a phone's message; nobody takes it if the task is gone.  *)
HubSends ==
  /\ hub /\ link = "Held"
  /\ queued < MaxOut
  /\ queued' = queued + 1
  /\ out' = out + 1
  /\ UNCHANGED <<taskVars, toHub, link, binding, hub>>

(* A deadline, a newer link, or the cutover to it.                         *)
HubDrops ==
  /\ hub /\ link = "Held"
  /\ link' = "Dropped"
  /\ UNCHANGED <<taskVars, out, toHub, binding, hub, queued>>

(* The hub returns: its Link and its channel, with every message in it,    *)
(* are dropped.                                                            *)
HubStops ==
  /\ hub
  /\ hub' = FALSE
  /\ toHub' = <<>>
  /\ link' = IF link = "Held" THEN "Dropped" ELSE link
  /\ binding' = IF binding = "Open" THEN "Closed" ELSE binding
  /\ UNCHANGED <<taskVars, out, queued>>

-----------------------------------------------------------------------------
Next ==
  \/ AcceptTls \/ AwaitBind \/ WriteRegister
  \/ ReadPiece \/ FrameRead \/ ReadFails
  \/ StartWrite \/ FinishWrite \/ Halted
  \/ HubReceives \/ HubSends \/ HubDrops \/ HubStops

(* The task and the hub are polled.  select! picks among its ready         *)
(* branches at random, so a branch that is ready again and again is taken  *)
(* (strong fairness).  A write ends: the peer reads, or TCP gives up on it *)
(* (external; the code sets no timeout).                                   *)
Fairness ==
  /\ WF_vars(AwaitBind) /\ WF_vars(FrameRead) /\ SF_vars(Halted)
  /\ WF_vars(HubReceives)
  /\ WF_vars(WriteRegister) /\ WF_vars(FinishWrite)

Spec == Init /\ [][Next]_vars /\ Fairness

-----------------------------------------------------------------------------
(* Types; no message is taken from an empty queue.                         *)
TypeOK ==
  /\ at \in {"Tls", "Bind", "Register", "Loop", "Writing", "Done"}
  /\ taken \in 0..(MaxFrames * FrameSize)
  /\ got \in 0..(2 * FrameSize)
  /\ want \in {0} \cup LengthSize..(2 * FrameSize)
  /\ out \in 0..MaxOut
  /\ toHub \in Seq({"Accepted", "HomeFrame", "HomeEof"})
  /\ link \in {"None", "Held", "Dropped"}
  /\ binding \in {"Open", "Sent", "Closed"}
  /\ hub \in BOOLEAN
  /\ queued \in 0..MaxOut

(* The hub never trusts a dead link for good: when the task has ended and  *)
(* the hub still holds its Link, the HomeEof that will tell it is already  *)
(* in the channel.                                                         *)
EndReachesHub ==
  at = "Done" /\ link = "Held" =>
    \E k \in 1..Len(toHub) : toHub[k] = "HomeEof"

(* A connection reports its end once and says nothing after it; what is    *)
(* said before the link is bound is its announcement alone.                *)
EofIsLast ==
  \A k \in 1..Len(toHub) :
    /\ toHub[k] = "HomeEof" => k = Len(toHub) /\ at = "Done"
    /\ toHub[k] = "Accepted" => k = 1 /\ at = "Bind"

(* docs/topside-inputs.md: a message is a 4-byte length and then its JSON. *)
(* Every read_frame of the task starts where a frame starts.               *)
ReaderAligned == at = "Loop" /\ got = 0 => Aligned

(* A dropped Link lets go of the leader: the task ends, also when it was   *)
(* about to write, and the old connection is torn down.                    *)
DroppedEnds == link = "Dropped" ~> at = "Done"

=============================================================================
