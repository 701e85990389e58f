---------------------------- MODULE SapientTasking ----------------------------
(***************************************************************************)
(* The control plane of a SAPIENT sensor (internal/dapp/sapient/tasking,   *)
(* auditlane/file.go, cmd/sapient-task, cmd/sapient-rid-seller): consumers *)
(* append tasks to a file that the seller replays from its start and       *)
(* tails, and to which it appends an acknowledgement of each; a STOP or a  *)
(* START closes or opens the gate of the consumer's data stream.  Writers  *)
(* share the file, a write may fail or be cut short, and the seller may    *)
(* end at any step and be started again.  Status reports and registrations *)
(* are lines nobody here reads and are left out.                           *)
(***************************************************************************)
EXTENDS Integers, Sequences
LOCAL INSTANCE TLC

CONSTANTS Consumers,  \* who issues tasks; its node_id is the key of its session
          Sessions,   \* the consumers the seller streams to
          MaxTasks,   \* bound on the tasks issued
          MaxFaults,  \* bound on failed writes
          MaxRuns     \* bound on the runs of the seller

ASSUME TaskingAssumption ==
  Sessions \subseteq Consumers /\ MaxTasks \in Nat /\ MaxFaults \in Nat /\ MaxRuns \in Nat

VARIABLES lane,       \* the lines of the audit file
          tornTail,   \* whether the last line is cut short
          running,    \* whether the seller runs
          gate,       \* gate[s]: session.open
          activeTask, \* activeTaskID
          lanePos,    \* the lines the seller has read
          consuming,  \* what consume does with the line at lanePos
          targets,    \* the sessions the frame that is being forwarded goes to
          cli,        \* cli[c]: the last sapient-task run of c
          issued,     \* tasks issued so far
          faults,     \* failed writes so far
          runs,       \* runs of the seller so far
          answered,   \* history: the tasks this run has acknowledged
          lateFrames  \* history: lateFrames[s]: frames sent to s since this run acknowledged
                      \* its STOP (two stands for more), NotStopped without one

taskingVars == <<lane, tornTail, running, gate, activeTask, lanePos, consuming, targets, cli,
                 issued, faults, runs, answered, lateFrames>>
laneVars == <<lane, tornTail, faults>>
sellerVars == <<running, gate, activeTask, lanePos, consuming, targets, runs, answered, lateFrames>>

TaskIds == 1..MaxTasks
Controls == {"stop", "start", "other"}  \* other: PAUSE, a command, a filter: all rejected
TaskLine == [kind: {"task"}, from: Consumers, id: TaskIds, control: Controls]
AckLine == [kind: {"ack"}, id: TaskIds]
Junk == [kind |-> "junk"]
NotStopped == -1
NoTask == [at |-> "idle", id |-> 0, control |-> "other"]  \* no run yet, or it has failed

TaskingTypeOK ==
  /\ lane \in Seq(TaskLine \cup AckLine \cup {Junk})
  /\ issued \in 0..MaxTasks
  /\ tornTail \in BOOLEAN
  /\ tornTail => lane # << >> /\ lane[Len(lane)] = Junk
  /\ gate \in [Sessions -> BOOLEAN]
  /\ activeTask \in 0..MaxTasks
  /\ lanePos \in 0..Len(lane)
  /\ consuming \in {"next", "gate", "active", "ack"}
  /\ consuming # "next" => running /\ lanePos # 0 /\ lane[lanePos] \in TaskLine
  /\ targets \subseteq Sessions

TaskingInit ==
  /\ lane = << >> /\ tornTail = FALSE /\ faults = 0 /\ issued = 0
  /\ running = FALSE /\ runs = 0
  /\ gate = [s \in Sessions |-> TRUE] /\ activeTask = 0 /\ lanePos = 0
  /\ consuming = "next" /\ targets = {}
  /\ cli = [c \in Consumers |-> NoTask]
  /\ answered = {} /\ lateFrames = [s \in Sessions |-> NotStopped]

-----------------------------------------------------------------------------
(* FileLane *)

\* What is appended to a line that was cut short makes one unreadable line with it.
AppendLine(line) ==
  /\ lane' = IF tornTail THEN lane ELSE Append(lane, line)
  /\ tornTail' = FALSE
  /\ UNCHANGED faults

AppendFails ==
  /\ faults < MaxFaults
  /\ faults' = faults + 1
  /\ \/ UNCHANGED <<lane, tornTail>>
     \/ lane' = (IF tornTail THEN lane ELSE Append(lane, Junk)) /\ tornTail' = TRUE

Complete == IF tornTail THEN Len(lane) - 1 ELSE Len(lane)

Line == lane[lanePos]

\* Faulty variant: a line that does not decode ends the reading.
drainUntilJunk == lanePos < Complete /\ lane[lanePos + 1] # Junk /\ lanePos' = lanePos + 1

\* The seller takes the next complete line; drain hands them over one by one, in order.
drain == lanePos < Complete /\ lanePos' = lanePos + 1

-----------------------------------------------------------------------------
(* sapient-task *)

\* Every run makes a fresh task id.  Other software of a consumer issues other tasks.
Issue(c, control) ==
  /\ cli[c].at # "wait"
  /\ issued < MaxTasks
  /\ issued' = issued + 1
  /\ \/ /\ AppendLine([kind |-> "task", from |-> c, id |-> issued', control |-> control])
        /\ cli' = [cli EXCEPT ![c] = [at |-> "wait", id |-> issued', control |-> control]]
     \/ /\ AppendFails
        /\ cli' = [cli EXCEPT ![c] = NoTask]
  /\ UNCHANGED sellerVars

\* It reads the lane from its start until it finds the acknowledgement of its task.
ReceiveTaskAck(c) ==
  /\ cli[c].at = "wait"
  /\ \E i \in 1..Complete : lane[i].kind = "ack" /\ lane[i].id = cli[c].id
  /\ cli' = [cli EXCEPT ![c].at = "ok"]
  /\ UNCHANGED <<laneVars, sellerVars, issued>>

TimeOut(c) ==
  /\ cli[c].at = "wait"
  /\ cli' = [cli EXCEPT ![c] = NoTask]
  /\ UNCHANGED <<laneVars, sellerVars, issued>>

-----------------------------------------------------------------------------
(* The seller: Manager *)

\* The memory of a seller that has not read the lane yet.
Blank ==
  /\ gate' = [s \in Sessions |-> TRUE] /\ activeTask' = 0
  /\ consuming' = "next" /\ targets' = {}
  /\ answered' = {} /\ lateFrames' = [s \in Sessions |-> NotStopped]

\* Faulty variant: a seller that is started again reads new lines only.
startAtEnd ==
  /\ ~running /\ runs < MaxRuns
  /\ running' = TRUE /\ runs' = runs + 1
  /\ Blank /\ lanePos' = Complete
  /\ UNCHANGED <<laneVars, issued, cli>>

\* RegisterSession for every session, then Manager.Start.  Nothing of an earlier run is kept: the
\* gates are open until the lane has been read again.
StartSeller ==
  /\ ~running /\ runs < MaxRuns
  /\ running' = TRUE /\ runs' = runs + 1
  /\ Blank /\ lanePos' = 0
  /\ UNCHANGED <<laneVars, issued, cli>>

\* The feed or a stream ended, or the process was killed.
StopSeller ==
  /\ running
  /\ running' = FALSE
  /\ Blank /\ lanePos' = 0
  /\ UNCHANGED <<laneVars, runs, issued, cli>>

\* Faulty variant: the gates are not looked at.
forwardToAll ==
  /\ running /\ targets = {}
  /\ targets' = Sessions
  /\ UNCHANGED <<laneVars, running, gate, activeTask, lanePos, consuming, runs, answered,
                 lateFrames, issued, cli>>

\* Forward: which sessions are open is read under the lock, and sent to after it.
Forward ==
  /\ running /\ targets = {}
  /\ targets' = {s \in Sessions : gate[s]}
  /\ UNCHANGED <<laneVars, running, gate, activeTask, lanePos, consuming, runs, answered,
                 lateFrames, issued, cli>>

SendFrame(s) ==
  /\ s \in targets
  /\ targets' = targets \ {s}
  /\ lateFrames' = [lateFrames EXCEPT ![s] = IF @ \in {0, 1} THEN @ + 1 ELSE @]
  /\ UNCHANGED <<laneVars, running, gate, activeTask, lanePos, consuming, runs, answered,
                 issued, cli>>

\* consume: acknowledgements on stdOut are not for it, nor what does not decode; a task
\* without STOP or START is only answered.
TakeLine ==
  /\ running /\ consuming = "next"
  /\ drain
  /\ consuming' = IF lane[lanePos'].kind # "task" THEN "next"
                  ELSE IF lane[lanePos'].control = "other" THEN "ack" ELSE "gate"
  /\ UNCHANGED <<laneVars, running, gate, activeTask, targets, runs, answered, lateFrames,
                 issued, cli>>

\* A consumer without a session is answered all the same.
setGate ==
  /\ consuming = "gate"
  /\ LET open == Line.control = "start" IN
     IF Line.from \in Sessions
     THEN /\ gate' = [gate EXCEPT ![Line.from] = open]
          /\ lateFrames' = [lateFrames EXCEPT ![Line.from] = IF open THEN NotStopped ELSE @]
     ELSE UNCHANGED <<gate, lateFrames>>
  /\ consuming' = "active"
  /\ UNCHANGED <<laneVars, running, activeTask, lanePos, targets, runs, answered, issued, cli>>

setActiveTask ==
  /\ consuming = "active"
  /\ activeTask' = Line.id
  /\ consuming' = "ack"
  /\ UNCHANGED <<laneVars, running, gate, lanePos, targets, runs, answered, lateFrames,
                 issued, cli>>

\* An acknowledgement that cannot be written is logged, and not tried again.
PublishTaskAck ==
  /\ consuming = "ack"
  /\ \/ /\ AppendLine([kind |-> "ack", id |-> Line.id])
        /\ answered' = answered \cup {Line.id}
        /\ lateFrames' = [s \in Sessions |->
                            IF s = Line.from /\ Line.control = "stop" /\ lateFrames[s] = NotStopped
                            THEN 0 ELSE lateFrames[s]]
     \/ AppendFails /\ UNCHANGED <<answered, lateFrames>>
  /\ consuming' = "next"
  /\ UNCHANGED <<running, gate, activeTask, lanePos, targets, runs, issued, cli>>

Consume == TakeLine \/ setGate \/ setActiveTask \/ PublishTaskAck

TaskingNext ==
  \/ \E c \in Consumers : \/ \E control \in Controls : Issue(c, control)
                          \/ ReceiveTaskAck(c) \/ TimeOut(c)
  \/ StartSeller \/ StopSeller \/ Forward \/ Consume
  \/ \E s \in Sessions : SendFrame(s)

TaskingFairness == WF_taskingVars(Consume)

TaskingSpec == TaskingInit /\ [][TaskingNext]_taskingVars /\ TaskingFairness

-----------------------------------------------------------------------------

\* A STOP or a START of consumer s that can be read.
IsControl(i, s) ==
  lane[i].kind = "task" /\ lane[i].from = s /\ lane[i].control # "other"

\* The gate of s is open unless the last control of s in the first n lines is a STOP.
Obeys(s, n) ==
  gate[s] <=> \A i \in 1..n :
                IsControl(i, s) /\ (\A j \in (i + 1)..n : ~IsControl(j, s))
                  => lane[i].control = "start"

\* Between two lines every gate is as the last STOP or START of its own consumer that can be
\* read says, and open if there is none: no task of another consumer, no rejected task, no
\* torn line and no restart of the seller leaves a gate otherwise.
GateIsLastControl ==
  running /\ consuming = "next" => \A s \in Sessions : Obeys(s, lanePos)

\* "In-flight reports already sent are never recalled - gating only affects subsequent
\* fan-out" (tasking/doc.go:23): after the acknowledgement of a STOP at most the frame that
\* was being forwarded still goes out.
StopStops == \A s \in Sessions : lateFrames[s] <= 1

\* When sapient-task has printed the acknowledgement of its STOP or START, the gate is as it
\* asked, as long as that run of the seller goes on.
OkMeansObeyed ==
  \A s \in Sessions :
    running /\ cli[s].at = "ok" /\ cli[s].id \in answered /\ cli[s].control # "other"
      => (gate[s] <=> cli[s].control = "start")

\* An acknowledged STOP or START has taken hold, but for the frame under way.
AcknowledgedIsObeyed == OkMeansObeyed /\ StopStops

\* The seller never stops at a line: whatever is on the lane, it catches up, or it ends.
LaneIsConsumed == []<>(~running \/ (consuming = "next" /\ lanePos = Complete))
=============================================================================
