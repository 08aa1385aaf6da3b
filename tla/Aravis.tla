------------------------------- MODULE Aravis -------------------------------
(***************************************************************************)
(* The tools around the aravis library (tools/aravis): a capture thread    *)
(* that runs the library's main loop while the library's stream thread     *)
(* hands over frames (arv_capture_thread.c), and the features of a camera  *)
(* as a JSON text, from which the commands are made that set them again    *)
(* (CameraMetaData.cpp).  The library is external.                         *)
(***************************************************************************)
EXTENDS Integers, Sequences
LOCAL INSTANCE Functions

CONSTANTS
  BufferCnt,   \* buffers that are pushed into the stream
  FrameCnt,    \* bound: frames that the camera sends
  BeatCnt      \* bound: seconds of the main loop

-----------------------------------------------------------------------------
(* The capture thread.                                                     *)

\* input, output: the stream's queues, held: the stream thread's buffer; pre:
\* frames filled before the signal was enabled, overlap: an increment met a
\* beat, late: frames processed since the signal was disabled
NewStream ==
  [state |-> "capturing", input |-> BufferCnt, output |-> <<>>, held |-> [nr |-> 0, ok |-> FALSE],
   emit |-> FALSE, sent |-> 0, filled |-> 0, pre |-> 0,
   stream |-> "idle", read |-> 0, counted |-> 0, processed |-> <<>>, late |-> 0, overlap |-> FALSE,
   buffer_count |-> 0, camulative |-> 0, beats |-> 0, loop |-> "starting", beating |-> FALSE,
   cancel |-> FALSE, user |-> "capturing", told |-> FALSE]

\* arv_start_capture_thread: without a camera it calls the failure_cb that
\* malloc returned, without a stream the one it was given
arv_start_capture_thread(camera, stream) ==
  IF camera = "invalid" THEN {[NewStream EXCEPT !.state = why] : why \in {"none", "crashed"}}
  ELSE IF stream = "failed" THEN {[NewStream EXCEPT !.state = "none", !.told = TRUE]}
  ELSE {NewStream}

\* external: the library fills a buffer, or drops the frame if it has none, and
\* calls back if it was told to emit
Fill(c) ==
  LET frame(ok) == [nr |-> c.filled + 1, ok |-> ok]
  IN  IF c.stream # "idle" \/ c.sent = FrameCnt \/ c.user = "done" THEN {}
      ELSE IF c.input = 0 THEN {[c EXCEPT !.sent = @ + 1]}
      ELSE {[c EXCEPT !.sent = @ + 1, !.input = @ - 1, !.output = Append(@, frame(ok)), !.filled = @ + 1,
                      !.pre = IF c.emit THEN @ ELSE @ + 1, !.stream = IF c.emit THEN "pop" ELSE "idle"] :
              ok \in BOOLEAN}

\* new_buffer_cb: the increment reads and writes a count that the main loop's
\* thread resets
new_buffer_cb(c) ==
  CASE c.stream = "pop" ->
         {[c EXCEPT !.held = Head(c.output), !.output = Tail(@),
                    !.stream = IF Head(c.output).ok THEN "read" ELSE "push"]}
    [] c.stream = "read" ->
         {[c EXCEPT !.stream = "write", !.read = c.buffer_count, !.overlap = @ \/ c.beating]}
    [] c.stream = "write" ->
         {[c EXCEPT !.stream = "process", !.buffer_count = c.read + 1, !.counted = @ + 1,
                    !.overlap = @ \/ c.beating]}
    [] c.stream = "process" ->
         {[c EXCEPT !.stream = "push", !.processed = Append(@, c.held.nr),
                    !.late = IF c.loop = "ended" THEN @ + 1 ELSE @]}
    [] c.stream = "push" ->
         {[c EXCEPT !.stream = "idle", !.input = @ + 1, !.held = [nr |-> 0, ok |-> FALSE]]}
    [] OTHER -> {}

\* arv_process_capture_thread_inner with periodic_task_cb: the acquisition
\* starts before the signal is enabled; a beat adds the count up, reports it,
\* and resets it
CaptureLoop(c) ==
  CASE c.loop = "starting" -> {[c EXCEPT !.loop = "waiting", !.emit = TRUE]}
    [] c.loop = "waiting" /\ c.beats < BeatCnt ->
         {[c EXCEPT !.loop = "reset", !.beating = TRUE, !.beats = @ + 1,
                    !.camulative = @ + c.buffer_count, !.overlap = @ \/ c.stream = "write"]}
    [] c.loop = "reset" -> {[c EXCEPT !.loop = "test", !.beating = FALSE, !.buffer_count = 0]}
    [] c.loop = "test" -> {[c EXCEPT !.loop = IF c.cancel THEN "quit" ELSE "waiting"]}
    [] c.loop = "quit" -> {[c EXCEPT !.loop = "ended", !.emit = FALSE]}
    [] OTHER -> {}

\* control_lost_cb, from a thread of the library
control_lost_cb(c) ==
  IF c.loop = "starting" \/ c.user = "done" THEN {} ELSE {[c EXCEPT !.cancel = TRUE, !.told = TRUE]}

\* arv_stop_capture_thread; the last reference to the stream ends its thread
arv_stop_capture_thread(c) ==
  CASE c.user = "capturing" -> {[c EXCEPT !.cancel = TRUE, !.user = "join"]}
    [] c.user = "join" /\ c.loop = "ended" -> {[c EXCEPT !.user = "unref"]}
    [] c.user = "unref" /\ c.stream = "idle" -> {[c EXCEPT !.user = "done"]}
    [] OTHER -> {}

CaptureSteps(c) ==
  IF c.state # "capturing" THEN {}
  ELSE Fill(c) \cup new_buffer_cb(c) \cup CaptureLoop(c) \cup control_lost_cb(c) \cup arv_stop_capture_thread(c)

(* No buffer is lost, the frames are processed in their order, but one     *)
(* that was filled before the signal was enabled stays in the queue and    *)
(* keeps every later one as many frames behind.  The statistics count each *)
(* good frame once, as long as no increment meets a beat.  The thread ends *)
(* only if it was cancelled, and at most one frame is processed afterwards.*)
FramesCounted(c) ==
  /\ c.input + Len(c.output) + (IF c.held.nr = 0 THEN 0 ELSE 1) = BufferCnt
  /\ c.held.nr # 0 /\ c.emit => c.held.nr = c.filled - c.pre
  /\ \A i \in 1..Len(c.processed) - 1 : c.processed[i] < c.processed[i + 1]
  /\ ~c.overlap => c.camulative + (IF c.beating THEN 0 ELSE c.buffer_count) = c.counted
  /\ c.loop = "ended" => c.cancel /\ ~c.emit
  /\ c.late <= 1
  /\ c.user = "done" => c.loop = "ended" /\ c.held.nr = 0
  /\ c.state # "capturing" => c.processed = <<>>

-----------------------------------------------------------------------------
(* The features.  A node of the camera has a kind; "command" has no value. *)
Kinds == {"string", "enum", "integer", "float", "boolean", "command"}

\* what a feature's entry says besides its value and type
Bounded(node) ==
  CASE node.kind \in {"integer", "float"} -> {"Bounds"}
    [] node.kind = "string" -> {"MaxLength"}
    [] node.kind = "enum" -> {"PossibleValues"}
    [] OTHER -> {}

\* serialiseCameraFeatures: a selector's selected features take the place of
\* its values; an error of any reading leaves the feature out
serialiseCameraFeatures(nodes, features) ==
  LET readable(f) == nodes[f].usable /\ ~nodes[f].error /\ nodes[f].kind # "command"
      entry(node) == [keys |-> {"Value", "Type"} \cup Bounded(node) \cup
                               (IF node.selector THEN {"PossibleValues"} ELSE {}),
                      PossibleValues |-> IF node.selector THEN "selected" ELSE "own",
                      Value |-> node.value, ReadOnly |-> "absent"]
  IN  [features |-> [f \in {f \in Range(features) : readable(f)} |-> entry(nodes[f])],
       access |-> SelectSeq(features, readable)]

\* cameraFeaturesToCommandString: a command is the features' names before its
\* value; a name without a value stands before the next one's
cameraFeaturesToCommandString(meta) ==
  LET known    == SelectSeq(meta.access, LAMBDA f : f \in DOMAIN meta.features)
      writable == SelectSeq(known, LAMBDA f : meta.features[f].ReadOnly \in {"absent", "false"})
      open(done) == done # <<>> /\ done[Len(done)].value = "none"
      add(done, f) ==
        LET value == meta.features[f].Value
        IN  IF open(done)
            THEN [done EXCEPT ![Len(done)] = [names |-> Append(@.names, f), value |-> value]]
            ELSE Append(done, [names |-> <<f>>, value |-> value])
      commands[n \in 0..Len(writable)] ==
        IF n = 0 THEN <<>> ELSE add(commands[n - 1], writable[n])
  IN  commands[Len(writable)]

\* getCameraCommandString: of the text, or of the file it names; NULL (here <<>>)
\* for whatever is no such text
getCameraCommandString(data, meta) ==
  IF data = "broken" THEN <<>> ELSE cameraFeaturesToCommandString(meta)

(* What is read from a camera sets every feature that could be read to the *)
(* value it had, in the order it was asked for.  In a text that its user   *)
(* changed, the commands are for the features that may be written, unless  *)
(* one lacks its value: then the next command is for no feature at all.    *)
CommandsSetFeatures(nodes, features, edit) ==
  LET meta     == serialiseCameraFeatures(nodes, features)
      edited   == [meta EXCEPT !.features = [f \in DOMAIN @ |->
                     [@[f] EXCEPT !.Value = IF f \in edit.cleared THEN "none" ELSE @,
                                  !.ReadOnly = IF f \in edit.locked THEN "true" ELSE @]]]
      own(cmd) == Len(cmd.names) = 1 /\ cmd.names[1] \in DOMAIN meta.features
      commands == getCameraCommandString("text", meta)
      changed  == getCameraCommandString("file", edited)
  IN  /\ [i \in DOMAIN commands |-> commands[i].names[1]] = meta.access
      /\ \A i \in DOMAIN commands : own(commands[i]) /\ commands[i].value = nodes[commands[i].names[1]].value
      /\ UNION {Range(changed[i].names) : i \in DOMAIN changed} = DOMAIN meta.features \ edit.locked
      /\ DOMAIN meta.features \cap edit.cleared \subseteq edit.locked =>
           \A i \in DOMAIN changed : own(changed[i]) /\ changed[i].value = nodes[changed[i].names[1]].value
      /\ \A i \in DOMAIN changed :
           /\ ~own(changed[i]) => changed[i].names[1] \in edit.cleared
           /\ changed[i].value = "none" => i = Len(changed)
      /\ getCameraCommandString("broken", meta) = <<>>
=============================================================================
