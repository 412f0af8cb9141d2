------------------------------ MODULE Recording ------------------------------
(***************************************************************************)
(* Recording to disk.  The audio callback copies blocks of the local input *)
(* and of the master output into one bounded queue, each marked with the   *)
(* generation of the recording that was on; the AudioRecordingWorker takes *)
(* them out and saves them with the Recorder, which the message thread     *)
(* starts, stops and redirects at any moment.  At the end the engine stops *)
(* the worker, after the last callback.                                    *)
(***************************************************************************)
EXTENDS Naturals, Sequences, FiniteSets

CONSTANTS
  Targets,        \* RecordingTarget: the local and the master recorder
  RecordingQueueCapacity,  \* queueCapacity
  MaxRecordings,  \* bound: recordings started on each recorder
  MaxBlocks,      \* bound: blocks of the audio callback
  MaxRefusals     \* bound: blocks the writer's FIFO has no room for

ASSUME RecordingAssumption ==
  {RecordingQueueCapacity, MaxRecordings, MaxBlocks, MaxRefusals} \subseteq Nat

VARIABLES
  recorder,   \* writeThread_, recordingGeneration_ and nextRecordingGeneration_
  queue,      \* queue_: blocks with target and generation
  recordingPc,  \* where the worker is
  blocks,     \* blocks the callback has offered
  refusals,   \* blocks the disk writer did not take
  accepted,   \* history: blocks queued and not refused since, by target and generation
  file        \* history: the generations saved to each file, in order

recordingVars == <<recorder, queue, recordingPc, blocks, refusals, accepted, file>>

Recordings == 1..MaxRecordings

NewRecorder == [writing |-> FALSE, generation |-> 0, started |-> 0]

RecordingInit ==
  /\ recorder = [t \in Targets |-> NewRecorder]
  /\ queue = <<>> /\ recordingPc = "idle" /\ blocks = 0 /\ refusals = 0
  /\ accepted = [t \in Targets |-> [g \in Recordings |-> 0]]
  /\ file = [t \in Targets |-> [g \in Recordings |-> <<>>]]

-----------------------------------------------------------------------------
(* The message thread; stateLock_ makes each of these one step *)

StoppedRecorder(r) == [r EXCEPT !.writing = FALSE, !.generation = 0]

\* A new file and a new generation.
LaunchWriter(r) ==
  [writing |-> TRUE, generation |-> r.started + 1, started |-> r.started + 1]

\* setRecording(true); when the writer of that format and layout can not be created
\* nothing has changed.
StartRecording(t) ==
  /\ recordingPc \in {"idle", "saving"}
  /\ ~recorder[t].writing /\ recorder[t].started < MaxRecordings
  /\ recorder' = [recorder EXCEPT ![t] = LaunchWriter(recorder[t])]
  /\ UNCHANGED <<queue, recordingPc, blocks, refusals, accepted, file>>

\* setRecording(false), setDirectory
StopRecording(t) ==
  /\ recordingPc \in {"idle", "saving"}
  /\ recorder[t].writing
  /\ recorder' = [recorder EXCEPT ![t] = StoppedRecorder(recorder[t])]
  /\ UNCHANGED <<queue, recordingPc, blocks, refusals, accepted, file>>

\* The engine has no callback any more, signals the worker and waits for it.
SignalExit ==
  /\ recordingPc = "idle" /\ recordingPc' = "leaving" /\ blocks' = MaxBlocks
  /\ UNCHANGED <<recorder, queue, refusals, accepted, file>>

-----------------------------------------------------------------------------
(* The audio callback *)

\* enqueue: a block is taken while a recording is on and the queue has room.
Enqueue(t) ==
  /\ blocks < MaxBlocks /\ blocks' = blocks + 1
  /\ IF recorder[t].generation # 0 /\ Len(queue) < RecordingQueueCapacity
     THEN /\ queue' = Append(queue, [target |-> t, generation |-> recorder[t].generation])
          /\ accepted' = [accepted EXCEPT ![t][recorder[t].generation] = @ + 1]
     ELSE UNCHANGED <<queue, accepted>>
  /\ UNCHANGED <<recorder, recordingPc, refusals, file>>

-----------------------------------------------------------------------------
(* AudioRecordingWorker::run *)

Busy == recordingPc \in {"saving", "savingLast"}

\* Mutant: the generation of a block is not looked at.
CheckNothing ==
  /\ recordingPc \in {"idle", "leaving"} /\ queue # <<>>
  /\ recordingPc' = IF recordingPc = "idle" THEN "saving" ELSE "savingLast"
  /\ UNCHANGED <<recorder, queue, blocks, refusals, accepted, file>>

\* writeFrame: a block of a recording that has ended is dropped.
CheckBlock ==
  /\ recordingPc \in {"idle", "leaving"} /\ queue # <<>>
  /\ IF Head(queue).generation = recorder[Head(queue).target].generation
     THEN /\ recordingPc' = IF recordingPc = "idle" THEN "saving" ELSE "savingLast"
          /\ UNCHANGED queue
     ELSE queue' = Tail(queue) /\ UNCHANGED recordingPc
  /\ UNCHANGED <<recorder, blocks, refusals, accepted, file>>

\* saveBlock: to whatever file is open now, unless its FIFO is full.
SaveBlock ==
  /\ Busy
  /\ recordingPc' = IF recordingPc = "saving" THEN "idle" ELSE "leaving"
  /\ queue' = Tail(queue)
  /\ LET t == Head(queue).target
         g == Head(queue).generation
     IN  \/ /\ file' = IF recorder[t].writing
                       THEN [file EXCEPT ![t][recorder[t].started] = Append(@, g)] ELSE file
            /\ UNCHANGED <<refusals, accepted>>
         \/ /\ recorder[t].writing /\ refusals < MaxRefusals /\ refusals' = refusals + 1
            /\ accepted' = [accepted EXCEPT ![t][g] = @ - 1]
            /\ UNCHANGED file
  /\ UNCHANGED <<recorder, blocks>>

\* Mutant: the worker leaves with blocks in its queue.
ExitAtOnce ==
  /\ recordingPc = "leaving" /\ recordingPc' = "exited"
  /\ UNCHANGED <<recorder, queue, blocks, refusals, accepted, file>>

\* run() goes on until the queue is empty.
Exit ==
  /\ recordingPc = "leaving" /\ queue = <<>> /\ recordingPc' = "exited"
  /\ UNCHANGED <<recorder, queue, blocks, refusals, accepted, file>>

RecordingNext ==
  \/ \E t \in Targets : StartRecording(t) \/ StopRecording(t) \/ Enqueue(t)
  \/ SignalExit \/ CheckBlock \/ SaveBlock \/ Exit

RecordingSpec == RecordingInit /\ [][RecordingNext]_recordingVars

-----------------------------------------------------------------------------
(* Properties *)

\* Every file holds blocks of its own recording, in order, and at most one of an
\* earlier one: the block that passed the check just before the recorder was
\* stopped and started again.
FilesAreSeparate ==
  \A t \in Targets, g \in Recordings :
    \A i \in 1..Len(file[t][g]) : file[t][g][i] = g \/ (i = 1 /\ file[t][g][i] < g)

\* When the worker has left, every block that was queued for a recording that is
\* still on is in its file, or was refused by the disk writer.
NothingLostAtExit ==
  recordingPc = "exited" =>
    \A t \in Targets :
      LET g     == recorder[t].generation
          saved == {i \in 1..Len(file[t][g]) : file[t][g][i] = g}
      IN  g # 0 => Cardinality(saved) = accepted[t][g]
=============================================================================
