# A verification development for tmk_dcl_certification

The program is a data-control pipeline: a server (`tmk-server`) takes commands over
TCP, starts a chain of image-processing modules, each a process of its own, and moves
frames through them in a shared memory segment. Around it are the collector of frames,
camera libraries, object storage, image algorithms, configuration, a data base and tools.
This directory holds TLA+ models of their control, TLC configurations that check them on
small instances, and TLAPS proofs for every size where it matters most. Paths below are
relative to `src/`.

## 1. The system

### Components, their state and operations

| component | source | state | operations | modelled in |
|---|---|---|---|---|
| data path | `dclprocessor/pipeline/src/pipeline.c` | per module: `cmd`, `dataoffset`, `state`, semaphores `new_cmd`, `result`; the ring `data_ring`; `pl->exit_flag` | `source_thread`, `process_thread`, `finalization_thread`, `initial_thread` | `Pipeline`, `InternalSource` |
| client | `.../pipeline_client.c` | `process_info` in shared memory: `cmd`, `cmd_offs`, `cmd_result`, `sem_job`, `sem_result` | `pipeline_process_init`, `pipeline_process` | `SharedMemory`, `Pipeline` |
| pipeline server | `.../pipeline_server.c`, `pipeline_module.c` | list of modules, `pl->state`, thread ids, shared memory | `pipeline_init`, `pipeline_thread`, `pipeline_destroy` | `PipelineServer`, `SharedMemory`; what commands see of it in `CommandServer` |
| process manager | `.../process_mngr.c` | table of slots, `process_cnt` | `process_subsystem_init`, `process_start`, `process_info_init` | `PipelineServer` |
| shared memory | `.../shared_memory.c`, `shared_memory_map.h` | the name and its segment, the map at its start | create, attach, unlink, offsets | `SharedMemory`, `Modules` |
| descriptions | `.../pipeline_description.c`, `config/src/config.cpp` | lists of modules and parameters | read JSON, check, link | `Modules` |
| signal reaction | `.../signal_reaction.c` | blocked signals, flag | wait for a signal, raise the flag | `RequestExit` |
| ring buffer | `misc/src/ring_buffer.c` | `used`, `start`, `buffer`, mutex, `sem` | create, pop, push | `RingBuffer`, `ChunkPool`, `FreeList` |
| command server | `dclprocessor/tcp/src/command_server.c`, `dclcomponents/server.c` | command ring, `command_ready`, `exit_flag`, the static `pl` | `putCommand`, `command_thread`, `executeAPICommand`, init, destroy | `CommandServer` |
| tcp server | `dclprocessor/tcp/src/tcp_process.c`, `server.c` | connections and their buffers | `tcp_server_process`, `server_destroy` | `TcpServer`, `LineReaders`, `CommandServer` |
| messenger | `dclprocessor/tcp/src/messenger.c` | epoll set, list of connections, buffers | server and client loops, reconnect | `Messenger`, `LineReaders` |
| collector, processor | `dclprocessor/collector`, `dclprocessor/processor` | per source `empty_ready`, `data_ready`, `exit_flag`; object under assembly | source threads, collector thread, `first_action`, `middle_action`, `last_action` | `Collector`, `ImageReader`, `ObjectStore` |
| module programs | `dclcomponents` | settings, networks | `pipeline_action` | the status in `ClientAct`; `SaveFolders`, `DefectMask` |
| capture | `libcapture` | device, registers, stream and packet state, sockets | discovery, GVCP, GVSP, `cvcollector`, `cvgenerator` | `Discovery`, `Gvcp`, `Gvsp`, `ImageReader`, `Generator` |
| storage | `libstorage` | objects, framesets, frames in a boost segment | create, add, look up, free, JSON | `ObjectStore`, `ObjectTree`, `Records` |
| data base | `dbpg` | JSON files and images | save, load, remove | `Records` |
| settings, configuration | `libcommon` | elements, pipelines and nodes | save, load, factory, copies and moves | `Configs`, `Settings` |
| image algorithms | `libdclalgo` | none | expansions of a polar mosaic | `Mosaic`, `EdgeAware` |
| winnum sender | `winnum_sender_service` | queue of notifications | notify, ask, send, retry | `Winnum` |
| tools | `tools/spinnaker`, `tools/aravis` | schedule, threads, statistics, folders | capture with and without threads, features | `Capture`, `Aravis`, `SaveFolders` |

### How they interact

* **Module to module**: thread *i* waits for `next->result`, writes `next->cmd` and
  `next->dataoffset`, posts `next->new_cmd`; thread *i+1* waits for `new_cmd`, reads, posts
  `result`. No lock: two semaphores make the mailbox take turns.
* **Thread to client process**: `process_info` in shared memory, written and read without
  a lock between `sem_job` and `sem_result`.
* **Chunks**: the source pops an offset from `data_ring`; finalization, or any stage whose
  client rejects the frame, pushes it back.
* **Stopping**: the source reads `exit_flag` between frames and sends STOP down the chain
  through the same mailboxes as the jobs; each thread passes it on, then stops its client.
* **Commands**: main's thread runs the select loop and pushes commands into a ring; the
  command thread pops and executes them, and on CONFIG starts a `pipeline_thread`.
* **First module**: source threads add frames to the object under assembly; the collector
  closes it when every source posts `data_ready`; `first_action` takes it with a job and
  writes its name into the chunk; middles look it up in the boost segment by that name;
  `last_action` frees it.
* **Cameras** send images over tcp or GVSP packets over udp to a source of the collector;
  a camera is started, kept and stopped by register requests whose answers may be lost.
* **Files**: pipelines are described by JSON files; objects are saved as JSON beside their
  images, and a data base notification makes the winnum service report them.

### What is hard, and what makes each part correct

* *Data path*: hand-overs without locks between threads and processes, frames dropped in
  the middle of the chain, an exit flag at any time, clients that end themselves or die.
  Correct: no mailbox overwritten or read twice, thread and client never on the same
  `process_info`, every chunk with exactly one owner, every frame through every stage in
  order, a STOP that drains the chain, threads that end.
* *Ring buffer*: its semaphore is outside its mutex, its positions wrap by a single
  subtraction, it checks neither overflow nor underflow. Correct: a list of distinct chunks.
* *Command server*: two semaphores over one ring, a shutdown that races the command thread.
  Correct: commands in order, none lost or repeated, a stop that ends server and pipeline.
* *Start of a pipeline*: partial failures, counts that are reset, a list in any order, a
  segment name that outlives its server. Correct: nothing used before it is made or after
  it is destroyed, everybody on the segment meant for them, a failed start that ends.
* *Collector and objects*: sources and collector wait for one another by counts. Correct:
  objects full and in order, names in chunks that exist, no object left, an end.
* *Streams, packets and answers*: reads that split anything, lost, late and repeated packets.
  Correct: no frame mixed of two, no answer taken for another request, no line lost.
* *Everything saved and loaded*, *image planes*, *capture tool*: pure or nearly pure functions
  with many special cases, and threads that share flags.

`PROJECT.json` lists each hazard at its line with the properties that cover it.

## 2. The modules

    FrameFlow  <--implements--  Pipeline (+ PipelineFlow: the mapping)   PipelineProofs
                                   ^--extends, steps like it--  PipelineServer
                                                                         PipelineServerProofs
    FreeList   <--implements--  ChunkPool  --extends-->  RingBuffer       ChunkPoolProofs
                                CommandServer --extends--^               CommandServerProofs
    Collector (frames into objects)                                     CollectorProofs
    ObjectStore (objects along FrameFlow's chunks)                      ObjectStoreProofs
    Capture (threads of the capture tool)                               CaptureProofs
    MCParts: LineReaders Messenger TcpServer ImageReader Generator Gvsp Gvcp Discovery
             Aravis Modules SharedMemory InternalSource Mosaic EdgeAware DefectMask
             Configs Settings Records ObjectTree SaveFolders Winnum      PartsProofs

`MCPipeline`, `MCPipelineServer`, `MCChunkPool`, `MCCommandServer`, `MCCollector` and
`MCParts` give the constants that a `.cfg` cannot; `ObjectStore` and `Capture` need none of
that and are checked as they are. A module ending in `Proofs` extends the module it is about.
A definition headed by a comment `variant:` is not part of a specification. It shows what
a plausible slip at that place would be; each property is known to fail under one of them.

The components that share nothing are written as operators that take the state of one
such component, a record, and give its next state or the set of its next states;
`MCParts` runs one of them at a time (`part`), with one action for each, and its
invariants are conjunctions over the parts, each explained in its own module.

The "map" of `PROJECT.json` names for each definition the lines it translates. Small
definitions whose lines lie inside or right beside those of a larger mapped one are not
listed again.

### Pipeline

Stages are numbered along the chain: 0 is the source, `LastStage` the finalization, and
every stage but the last has a client. `pc[i]` is where thread *i* is, `off[i]` its local
`dataoffset`. One action stands for one semaphore operation or test of a shared flag; the
assignments just before a `sem_post` and the reads just after a `sem_wait` are in the same
action. That is sound as far as nobody else can touch those fields there, and
`MailboxTurn` and `ClientTurn` state just that.

| code | actions |
|---|---|
| `source_thread` loop | `TestExit`, `CheckLive`, `PopFree`, `SubmitJob(0)`, `AwaitResult(0)`, `WaitNext(0)`, `PutJob(0)` |
| `process_thread` loop | `ReceiveCommand`, `ReadCommand`, `SubmitJob`, `AwaitResult`, `DropFrame` or `KeepFrame`, `WaitNext`, `PutJob` |
| stop in both threads | `WaitNext`, `PutStop`, `SubmitStop`, `AwaitStop` |
| `finalization_thread` | `ReceiveCommand`, `ReadCommand`, `ReturnChunk` |
| `pipeline_process` | `ClientTake`, `ClientAct`, `ClientAnswer`; `ClientCrash` for a killed process |
| `pipeline_thread` when all modules started | `GoLive` |
| `signal_thread` given `&pl->exit_flag` | `RequestExit` |

`Init` is a pipeline whose modules all started; how it gets there, and a failed start that raises the
same flag, is `PipelineServer`. No caller in the repository hands `pl->exit_flag` to `signal_thread_init`
(the call in `dclcomponents/server.c` is under `#if 0`); `RequestExit` is the use that the function,
taking such a flag, was written for, and it also stands for any other writer of it.

`visited` is a history variable: for each chunk, the stages whose action ran on the frame
in it. Images are not modelled, nor are the priorities and prints of the threads.

`FrameFlow` is the abstract specification: chunks are taken, worked on by the steps in
order, without overtaking, dropped or released. `PipelineFlow` maps the threads' hands and
mailboxes to its sequence `flow`: each is a place, numbered from finalization back to the source, and
the chunks under way (`Carried`) stand in the order of their places.

### PipelineServer

The threads and clients of `Pipeline`, under the `pipeline_thread` that makes them. `list` is
the order of `pl->modules_list`, which need not be the order of the chain; `spc` and `pos`
are where `pipeline_thread` is.

| code | actions |
|---|---|
| start loop of `pipeline_thread` | `StartModule` (`pipeline_module_init`, `pthread_create`), `AwaitStarted`, or `AwaitFailed` and `JoinFailed` |
| the two tests of `real_started` and `pl->state` | `Settle`, `TurnLive` |
| join loop and end | `JoinModule`, `FreeTable` |
| `pipeline_destroy` after its join | `DestroyPipeline` |
| top of the module threads, with `process_start` | `LaunchProcess`, `LaunchFails`, `LaunchFinalization` |

A module that is not initialised has the zeroes of its `malloc` and `memset`: no turn in
`result`, and commands that read STOP. `EarlierSlots` is what earlier pipelines of the same
server left in `process_cnt`, which nothing counts down. `StartsPipeline` is the bridge to
`Pipeline`: with modules that were not started, or failed, shown as threads that have not
moved, every step is a step of `Pipeline` until something is destroyed. So the invariants
proved of `Pipeline` hold during every start and after every failure, and the only
`RequestExit` the code itself performs is that of a failed start. A program that cannot be
executed after a successful `fork` is, for the server, a client that dies at once: that is
`ClientCrash` in `Pipeline`, and is not repeated here.

### RingBuffer, ChunkPool, FreeList

`RingBuffer` has the fields of the struct and five operations: a pop is `sem_wait` and a
locked section, a push a locked section and `sem_post`. `used` is an integer of its own,
as in the code, so that it can leave its range if the callers let it. `ChunkPool` is the
use made of it by a pipeline: one popping source, several pushing threads, and chunks
that are in between. `FreeList` is what `Pipeline` takes the ring for (`PopFree` and
`PushFree` in one step); `ImplementsFreeList` justifies it.

### CommandServer

The ring again, this time of commands, numbered as they are put, created as if full of
NULLs just as `command_server_init` does. Main's thread is `ReceiveLine`, `PushCommand`,
`PostRing`, `PostReady`, then `LeaveLoop` (the end of the select loop, with
`server_destroy`), `RaiseExit` and the same push for its own STOP
(`command_server_destroy`), and `JoinCommandThread`. The command thread is `TestExit`,
`AwaitReady`, `AwaitRing`, `TakeCommand` and one action per kind of command. Of a pipeline
the model keeps what the command server can tell: whether its `pipeline_thread` runs.
Undefined behaviour is a choice:

* `pthread_join` of a thread id that was never set returns an error or faults
  (`JoinOutcomes`);
* a push behind the last slot goes on or faults;
* a command that is popped a second time was freed before: its text may be anything, and
  freeing it again may fault.

### InternalSource

`initial_thread` with the start of its chain: `StartSteps` is `pipeline_thread` over the list,
`initial_thread` one step of the thread, `NextModule` and `ReturnChunk` the rest of the chain
as `Pipeline` shows it. The thread has a slot but no client, and at its end waits for one if
its next module's slot is above 1: `InternalSourceStops` says when it does not.

### Collector and ObjectStore

| code | actions of `Collector` |
|---|---|
| `source_data_thread_tcp`, `_udp`, `new_frame_action` | `StartSource`, `FrameArrives`, `CaptureFails`, `CaptureEnds`, `EndObject`, `TestSourceExit`, `AwaitObject`, `TestBeforeAdd`, `AddFrame`, `EndTcpSource`, `StopCamera`, `JoinStream` |
| collector thread | `AwaitEmpty`, `HandObject`, `TestCollectorExit`, `GatherSource`, `OfferObject`, `CountEnded`, `DecideRound`, `FlagSource`, `ReapSource`, `EndCollector` |
| `collector_init`, `first_action`, `collector_destroy` | `InitSource`, `StartCollector`, `ConnectFirst`, `BeginJob`, `TakeObject`, `NameObject`, `LeavePipeline`, `JoinCollector`, `DestroySource`, `JoinSource` |

Frames are numbered per source. `Limit` is the number of frames in an object;
`Descriptions` the kinds of sources.
`ObjectStore` takes over where an object is closed: room in the segment is counted in units,
chunks move as in `FrameFlow`, the name in a chunk is the number of its object, 0 if never
written. A middle that finds no object ends by an exception (`MiddleDies`).

### Capture

`CaptureManager::run` (one thread) and `runThreads` (a thread per camera, woken through flags), `stop`,
and the user who asks for a frame. The preview takes keys before `run` writes `mStoreThisBeat` for the
first time (`BeginRun`): a request made before that is lost, and `FramesOnRequest` is about those made
after it (`early` counts the others). Condition variables are guards: a wait ends when its predicate
holds, and nothing is promised about wake-ups.

### The parts of MCParts

| module | what its records are | steps |
|---|---|---|
| `LineReaders` | one connection of select server, its client, or messenger | `Reads`: one read of any size |
| `TcpServer` | the list of connections with what is in their buffers, `FD_SET`, who is ready | accept, a read of all there is, one reply, close, the end |
| `Messenger` | client: list of connections shared by two threads | a command (parse, find, reconnect, write), an answer, a deletion |
| `ImageReader` | a stream of header and data | one read, in `source.c` and in `cvcollector.cpp` |
| `Generator` | the sender of images, its threads and the shared fields | accept, thread start, one image |
| `Gvsp` | `cam->iframe` and the packets | one packet of any fate; the end of the stream |
| `Gvcp` | a camera's registers, the answers still in its socket | one request: prompt, late, lost, unheard |
| `Discovery` | interfaces and answers; descriptors of the process | search; open, bind, close and another thread's files |
| `Aravis` | buffers, queue, statistics; features of a camera | stream thread, main loop, cancel; text and commands |
| `Modules` | a file, the list made of it, the map | read, check, link, offsets |
| `SharedMemory` | name, segments, servers, clients | each system call with its failure; kill, second server |
| `Mosaic`, `EdgeAware` | an image as a function of pixels | all expansions; the two stages |
| `DefectMask` | images to inspect, the networks' answers | one image |
| `Configs`, `Settings` | a configuration; settings, nodes, factory | save and load; copy, move, set; threads that ask |
| `Records`, `ObjectTree` | object and its files; object and references | save, remove, load; add, remove, from JSON |
| `SaveFolders` | files of savemiddle; folders of acquisition | one image; command line; look and create |
| `Winnum` | queue, notifications, requests | notify, callback, request, failure, interrupt |

## 3. Runs

| run | question | instance |
|---|---|---|
| `pipeline` | turns, ownership, order, draining, no lost chunk, refinement of `FrameFlow`; all threads end, every chunk returns | 3 stages, 2 chunks, statuses 0, other, -1, clients may die; exit at any time |
| `chunk_pool` | the ring is a list of distinct chunks | 3 slots, 3 pushing threads |
| `commands` | order of commands, no NULL is taken, a server without pipeline ends | 4 slots, 5 lines of any kind, joins of either outcome |
| `pipeline_start` | start, failure, join and destruction of modules | 4 modules in all 24 orders, 1 chunk, 0 or 2 slots used before |
| `collector` | objects full and in order, the collector ends | one tcp source, one camera, or both; objects of 3 frames, 7 frames, 6 jobs |
| `objects` | names exist, nothing left behind, how much room is enough | first, two middles and last, two sources, 3 chunks, 7 objects, tight or enough room |
| `capture` | beats complete, one camera warms up, frames on request | 3 cameras, 2 warm-ups, 2 beats, 3 requests, all three modes |
| `parts` | the 21 modules listed above | see below |
| `command_ring`, `stop_hangs`, `collector_stop`, `angle_labels` | disagreements, below | 3 or 4 slots, 2 to 4 lines; one tcp source; mosaics as in `parts` |

**Why the bounds are enough.** In `pipeline` three stages are a source, a stage with both neighbours, and
a finalization; with two chunks one can fill the mailbox in front of the other, or follow it, and both
can be under way when the STOP is sent; the ring itself, with three and more, is `chunk_pool`'s. Only the
first thread and the last differ from those between them. `PipelineProofs` removes both bounds for the
safety properties and the refinement; the other proofs of section 4 do the same for the bounds of their
modules. `pipeline_start` takes four modules because a start that fails at the third is turned LIVE and
still lacks two stages; with two of the five slots used, one module finds none; one chunk suffices for a
frame to run into an incomplete chain. `MaxCnt` is 3 or 4 where the command server has
`COMMAND_QUEUE_SIZE` = 20 and a pipeline `data_cnt`: positions depend only on comparisons with `max_cnt`.
`MaxLines` bounds the lines in the server's life: with one more than the slots, and main's own STOP,
`start` goes round and the NULLs are used up. `collector`: with objects of 3 frames, 7 frames fill the
two empty objects' turns and more than two others. `objects`: DataCnt + 1 objects can be under way, 7 let
every chunk be used again; it has one source, as the collector ends by itself with one only (`collector.c:53`),
and the theorems have any number. `capture`: 3 cameras are the least with one that is neither first nor last.

In `parts`: a buffer of 4 and a stream of 6 bytes with any newlines put a line in one, two or three
reads, a full buffer with and without newline, and the bytes behind it. Images have 2 bytes of header and
of data, so that each can be split; 5 images give two objects. The GVSP stream has 3 frames of 2 blocks,
and up to `Disorder` = 4 packets in any order, repeated or bad, between those in order. GVCP packet sizes
are 0, one above and some below what a camera may do. Mosaics are 4 to 8 rows and columns, with all
borders and, from 6 on, inner cells; `EdgeAware` has 32 pixels: borders of 10 leave an inside of 12, in
which the edges of half an image or of one pixel, spread by `resize` and by the blur, leave pixels at an
edge beside pixels that are not. Files have up to 3 modules with ids that are missing, doubled or -1, and
either mode left in the memory of the last one; configurations up to 3 elements and 3 nodes with ids from
-1 to 2. Two servers, two segments and two clients are the least for one to take another's name.
`ObjectTree` and `Settings` go on for 5 operations, `Records` for 3 images put; two peers, pieces and
threads are the least that can meet. `SourceSlots` is 0 or 2: a first and a second pipeline. The
network's picture of 25 by 4 has the shape of `inputWidth`, `inputHeight`, and images are up to 60
columns wide.

**Fairness.** Each server thread and each client process is run (weak fairness of each, and of `GoLive`):
they are system threads, and each waits only in `sem_wait`. Weak fairness is enough because every
semaphore has one waiter. In `PipelineServer` `pipeline_thread` is run as well; `FailedStartEnds` needs
no more, since no frame is under way before LIVE. In `Collector` every thread is run, but nothing is
assumed of streams, cameras, the user's stop or jobs. Nothing is assumed of `RequestExit`, `ReceiveLine`,
`Arrive`, `ClientCrash` and `DestroyPipeline`. A `pipeline_action` is assumed to return. A client that
dies or ends itself with -1 really stalls the chain (its thread waits for it for ever), so
`ExitEndsAllThreads` and `EveryFrameReturns` say "or a client was lost" (`ClientLost`): behaviours
without such a client are checked beside those with one. `MCParts`, `Capture` and `ObjectStore` are
checked for safety only.

**Deadlock** is checked in `chunk_pool`. The `pipeline` run switches it off for the reason just given,
and there the liveness properties say where nothing may wait; `pipeline_start` because a failed start in
another order than the chain's, or one that was turned LIVE, can leave joins that never return, and
because a pipeline that has ended rests; the command server runs because a server to which nobody writes
rests, as does one that has ended; and the others because their inputs are bounded and end.

### Findings

* `command_ring`: the command ring is created as if it were full, so a waiting command
  counts on top of 20 slots that hold nothing. With `start` near the last slot a push
  computes a position behind the array although the ring is nearly empty.
* `stop_hangs`: `pipeline_destroy` joins the pipeline's thread first and raises the flag it
  waits for afterwards. A stop with a running pipeline never comes back.
* `collector_stop`: a tcp source that waits for `empty_ready` when the collector stops is only
  flagged, never posted, and `collector_destroy` waits for it for ever.
* `angle_labels`: the comments in `expandEasy` and `expandLite` label plane 1 "45" and plane 3 "135"
  (`PolarExpand.h:612`, `:614`, `:677`, `:683`); plane 1 takes the pixel that the mosaic at the top of the
  class has as 135 degrees, and plane 3 the one of 45. The full size expansions have it as their comments say.
  `PlanesShowAngles` states what the code, and its tests, do.

These are the disagreements between a text of the repository and its code; the
counterexamples are the traces of the runs of that name.

### What else the models show

No text of the repository says otherwise, so these are observations. The properties state
most of them as the cases they except.

* Server: of two lines that one read takes, the second waits in the buffer until its peer sends again; a
  stop that arrives while the command thread starts a pipeline lets main return with the pipeline
  running; `server_destroy` joins a thread id no code has set, and sends no signal; a select that is
  interrupted ends the program; the default receiver's reply is overwritten by its sender's.
* Start: a start that failed after two modules is turned LIVE whichever they are; `process_cnt` is never
  counted down; an internal source without a slot is waited for while it waits for LIVE; a server that is
  (re)configured takes the segment's name from another, a client whose `mmap` fails removes it;
  `shared_memory_getenv` assigns its own parameter only.
* Messenger: INIT is parsed as START; every newline passes on the first message again; the
  connection is NULL after a reconnect (`messenger.c:291`); a failed `epoll_ctl` leads to a double free.
* Capture: a header that gives a strange `data_size` is only logged, and then used; a connection whose
  peer `getnameinfo` cannot name stays open without a thread (`cvgenerator.cpp:205`); sockets of a search
  are closed twice and leaked when `bind` fails; one late answer shifts all that follow; the generator's
  first image lies before its buffer; in the aravis tool a buffer filled before signals are enabled stays
  queued; a feature without `Value` glues to the next command; a selector overwrites `PossibleValues`.
* Storage: `FrameData::fromJson` reads an absent `"datetime"`, and a string from `"diameter3"`, and
  `toJson` omits defects; the time of a new frame is uninitialised; a moved frameset is lost when its
  name exists.
* Configuration: the `mode` of a module without next is never set (`config.cpp:170`), which decides the
  thread of a pipeline of one module only; a node with a negative id is lost when its name is used again,
  and has the pipeline refused when it is not; `PipelineConfig` writes `next_id` -1 with type LAST, which
  `config.cpp` takes for an id; nodes with reserved names vanish; `Save("")` throws; settings that were
  moved from keep a stale C view.
* savemiddle and defectmiddle: a JSON error is no `std::logic_error` and ends the component
  (`savemiddle.cpp:57`); files of the same name and time of day replace one another; the mask lies
  outside its image when `rows = trunc(0.16 * cols)` and the fraction is above one half; `DefectModel`
  ignores the error of its loading.
* Tools: a frame asked for before the capture thread has begun is lost; `-c` or `-p` as the last argument
  crashes; `guiFPS` may be uninitialised; two programs of one second may share a folder. Winnum: an error
  that is no HTTP error ends the service (`sent_to_winnum.py:187`).

## 4. Proofs

`PipelineProofs` proves, for every `LastStage` and `DataCnt` above 0, every set of statuses and
with or without dying clients: `TypeCorrect`, `MailboxesTakeTurns`, `ClientsTakeTurns`,
`ChunksHaveOneOwner`, `ChunksAreNotLost`, `FramesVisitAllSteps`, `StopDrainsPipeline` and
`NoJobAfterStop`. The assumptions are the named `ASSUME`s of `Pipeline` and no others.

All rest on one inductive invariant `IInv`; none of the properties is inductive alone:

* `RealChunks` (what a thread holds or a mailbox carries is a chunk) is needed for the type
  of the ring;
* `MailboxTurn` is inductive with the types, and gives that `PutJob` meets an empty mailbox
  and `ReadCommand` a full one, which is what keeps `Owned` (one owner, none lost);
* `ClientTurn` gives that a client works on the chunk its thread holds, which is what makes
  `visited` grow for the right frame;
* `StopOrder` (a mailbox shows STOP just when the stage before has sent it, and stopped
  stages are a prefix of the chain) turns "finalization read STOP" into "nobody holds a
  chunk", and with `Owned` into "all chunks are in the ring";
* `FrameProgress` says what a frame has visited in every place, not only where
  `VisitsAllSteps` looks.

For each part there is a lemma that a step which leaves its subject alone keeps it
(`KeptOwned`, `KeptStopOrder`, `KeptProgress`, ...) and a lemma `Next...` with one step per
action. `NoJobAfterStop` is an action property from the same invariant.

The same module proves from it that the pipeline implements the abstract specification: `PipelineIsFlow`,
the refinement `ImplementsFlow`, for every length of the chain and number of chunks. First it is about
lines of chunks whatever they stand for (`RankOrder` to `RemovedFirst`): a chunk that moves to a place
with no other between keeps the order, one that joins behind all others is appended, one that leaves is
removed at its rank. Then every step of the threads is one of these (`MovesOrRests`): `ReadCommand` and
`PutJob` move a chunk to the next place, which turns and the single owner show to be empty, and so are
stutters; `PopFree` is `Take`; `DropFrame` and `ReturnChunk` are `Drop` and `Release`, the latter of the
first in line; `ClientAct` is `Process`. That the older frames have been worked on when a client works on
one (`OlderWorked`) needs `Passed` besides `IInv`: the frame a thread holds has been through all stages
before. `FrameProgress` says so of all threads but one whose client was killed at its work, and that
thread keeps its frame ahead of the younger ones for ever.

`ChunkPoolProofs` proves, for every `MaxCnt` above 0 and every finite set of `Pushers`,
`ChunksAreOnce`, `SemIsExact` and `RingIsFreeList`, the refinement of `FreeList` as a temporal
theorem. The invariant adds to the three checked parts only `HandInPlace` (a thread has a chunk in
its hand just while it waits for the ring). The argument: `SemIsExact` gives a popping thread a
chunk (`ChunkForPromise`); `EveryChunkOnce` makes the list an injection into the chunks other than
the pushed one, hence shorter than the ring (`RoomForChunk`, by the cardinality of injections); and
positions that wrap once are sums modulo the ring's size (`WrapSums`), so a pop is `Tail` and a
push is `Append` (`PopIsTail`, `PushIsAppend`).

`CommandServerProofs` proves, for every ring size, number of lines, set of line kinds and outcome of the
undefined join, `CommandsInOrder` and `NoNullTaken`. The invariant is about the ring that counts
itself full when it is empty: `Counted` (the command thread is let through once per announced
command) and `Placed` (until all slots have been popped once, command n is in slot n - 1 and one
without a slot is written elsewhere; afterwards no NULL is left). After a fault nothing happens, so
both are claimed only before one.

`CaptureProofs` proves, for every number of cameras, warm-ups, beats and requests, `BeatsAreComplete`,
`CamerasWarmSingly`, `RequestsAreServed` and the types. `OneManager` separates the managers with and
without threads; `Warming` and `Beating` say which flags are up when, in the two phases of the
threaded manager, and relate a camera's file to its flag and its thread's place; `Numbered` carries
the files over beats and over a stop; `Rounds` is the order of shots without threads; `Requested`
keeps the user's requests, from the moment `run` has set the flag, ahead of the beats.

`PipelineServerProofs` proves, for every chain, every order of the list, every number of slots
used before and every place of a failure: `NothingInUseDestroyed` (`DestroyedUnused`),
`StartRefines` (the refinement `StartsPipeline`) and `StartKeepsData` (turns, ownership, order and
draining during a start, a failed start and the joins). The invariant `SInv` contains the invariant
of `PipelineProofs`, instantiated with the mapping of `StartsPipeline`; so a step of a thread or a
client needs only that the mapping shows it as the step of `Pipeline` of that name
(`ProvedNext`), and the steps of `pipeline_thread` that they show nothing, `GoLive` or
`RequestExit`. What the mapping hides is in the other parts: `InTurn` (modules are prepared in the
order of the list, one at a time), `Unmoved` (what is not prepared is as the zeroed memory left it, and
one without a slot is waited for), `Shown` (a module that runs has the state its thread is shown),
`Joined` and `ClientsLeave`. `DestroyedUnused` needs all of them: the predecessor of a destroyed module
may stand behind it in the list, and then only a STOP it has sent explains that the module ended.

`CollectorProofs` proves, for every list of sources, `Limit`, `MaxFrames` and `MaxJobs`,
`ObjectsAreFull` and `FramesFillInOrder`. The argument is about two tokens. `ObjectToken`: until
the end, the object being filled is with one thread only, so `empty_ready`, `data_ready` and the
places of main and of the collector add up to one; `SourceToken` says the same of each source and its share
of the object. With `Names` and `NameOf` the token tells which of the last two objects a source has;
`Filling` counts frames: a source has put `Limit` into every object before its own and
as many as its counter says into its own; `Adding` is the frame between the test of the
exit flag and the object. An exit flag takes a source out of these claims, as it does out of the
properties.

`ObjectStoreProofs` proves, for every number of modules, chunks and sources, every `Limit` and every
size of the segment, `NamesAreOfObjects` and `NothingStaysBehind`. `Placed` makes a chunk either free or
under way, once; `Numbered` keeps the names in chunks below the number of the object being made, so that a
chunk's old name never becomes a new object's; `JobNamed` and `AtHand` follow the one job of first between
creation and naming; `Carried` gives each chunk under way an object of its own, and no name of
an existing object to any other chunk, so that last frees nobody else's.

`SegmentSuffices` (`EnoughForAll`) is from a second invariant, `EInv`, that counts. The memory is a set of
pairs of an object and one of its units (`Used`), so that no sum is needed: it lies in `store \X Kinds`,
`Kinds` being the units of a full object. By `OneTurn` one token goes round between the
collector and first, so that only the object at hand grows, and by `Growing` an object has no more
frames than its sources delivered, which is at most `Limit` each. By `NothingStaysBehind` every other object
is named by a chunk under way, so the segment holds `DataCnt + 1` objects at most, and `Enough` follows.

`PartsProofs` proves four of the invariants of `MCParts`, and of a fifth, `FilesGiveChains`, the conjunct
on shared memory. A part's invariant is about its one record; `MCParts` lets one part run, so each
theorem combines the lemmas that the part begins with its invariant and that every step keeps it.

* `NoticesReported` (`ObjectsReported`), for every number of notifications, values and tries
  (`TimerAssumption`): `ServiceInv` adds to the property the types and `Awaited`, which says that values
  are left just while they are sent and that a request is never tried as often as it may be. The rest is how
  one sequence's head becomes another's end (`HeadMoves`).
* `FramesStayApart` (`FramesKeepApart`), for every number of frames, blocks and buffers
  (`StreamAssumption`, `BufferAssumption`). For the GVSP stream `StreamInv`: by `OwnBlocks` the kept
  blocks are of the frame that is under way, whatever arrives; `InStep` says exactly what the stream is
  after the first packets of a stream that lost nothing, so that the n-th packet finds its place. For the
  aravis tool `CaptureInv`: `BuffersKept` (the queue holds the newest frames, and as many as were filled
  before the signal was enabled), `InOrder`, `CountsTrue` (an increment that meets no beat writes what it
  read) and `LoopEnds`.
* `ImagesStayInOrder` (`ImagesInOrder`), for every length of header and image, every limit of an object
  and every number of connections (`ImageAssumption`, `GeneratorAssumption`). `Gathered` is which bytes
  of the stream a reader has, and that its count of the rest is right unless a header came in two reads;
  `Kept` relates the counts of frames to the last object. For the generator `GenSafe`: `Connected` and
  `Placed` tie a thread to its peer and its descriptor from `accept` to the end; `Begun` and `InTurn` say
  that one thread at a time takes an image and counts it, unless two did at once (`raced`) or two
  connections came close together (`quick`), the cases the property excepts.
* `PlanesKeepAngles` (`PlanesOfOwnAngle`), for every size, border, window and set of edges: an even
  `Window` that with one more pixel fits into the border (`EdgeAssumption`) keeps every window inside the
  image, and the parity of the pixels it reads gives their angles.
* `SegmentsStayOwn` (`SegmentsOwn`), for every number of segments and of clients: a server works on a whole
  segment it made, and a client on the one it was started for, unless another was made under the name since.
  `SharedInv` says that the name is the last segment's or nobody's, and what has happened to each segment's name
  since (`seen`); from that follows where every server and client may be (`AtWork`, `Begotten`).

**Only model-checked**: liveness under fairness (`ExitEndsAllThreads`, `EveryFrameReturns`,
`WaitingSourceServed`, `QuietServerReturns`, `FailedStartEnds`, `StopEndsCollector`) and absence of
deadlock, which need ENABLED and fairness; the fixed tables and the data that are functions of nothing
else (`PlanesShowAngles`, `FilesGiveChains`, `SavedIsLoaded`: what a recursive function or a fold over a
text, a file or an image yields for every input is an induction over data); `LinesServed`, whose lines
are the result of such functions of the bytes read; and `AnswersInStep` and `DeviceReachable`, whose
scripts and searches are fixed sequences of calls of which TLC already sees every outcome of every call.

## 5. Plan

1. Done: all modules above and the proofs of section 4.
2. Next proofs: in `MCParts` the select server's connections, which are a conjunct of `LinesServed`
   and would have to become a property of their own.
3. Next models: `CommandServer` over `PipelineServer`, whose `pl` should be a refinement of `spc`; the
   names of framesets in `ObjectStore` with more than ten sources (`storage_interface.cpp:83` takes
   them by index among names ordered as strings).

## 6. Not modelled, and why

* What a second CONFIG does to the threads of a running pipeline: their struct is overwritten
  under them and nothing that follows is defined. (The segment's side is in `SharedMemory`.)
* The networks (torch), the OpenCV filters (`cvfilter.cpp`, one call each), and the real-valued
  Stokes, azimuth, zenith and polarisation degree computations: no state, and no reals in TLC.
* Packet layout of GVCP and GVSP and the conversion of pixels; `write_watchdog_register` and
  `listen_packet_ack`, which have no caller; `generator_destroy`, which no path reaches.
* The statements `pgmiddle` sends to PostgreSQL; the scripts of the data base and the web front.
* `devhelper` and `log.c`: strings, times and logging. Command lines other than acquisition's.
* Vendor code: `tools/spinnaker/src/Acquisition.cpp`, `global_sc.h`; camera set-up through the SDK;
  preview windows; `main_decode`.
* `pipeline_ok.c`, `pipeline_examples.c`, `processor/src/dclprocessor.cpp`, `processor/src/pipeline.c`:
  copies that the build leaves out; `dclprocessor.c` and `proxy.c`, which only examples use; examples and
  tests.
* Logging, thread priorities and CPU affinity change nothing a property speaks of.
