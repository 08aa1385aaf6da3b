------------------------------ MODULE MCParts ------------------------------
(***************************************************************************)
(* Model checking the parts that work on their own: a behaviour is one     *)
(* part fed with whatever its peer, its network or its caller may give it. *)
(***************************************************************************)
EXTENDS Integers, Sequences, FiniteSets

CONSTANTS
  BufLen, StreamLen,                                    \* LineReaders
  HeaderLen, DataLen, ImageCnt, ObjectMin, EmptyMin,    \* ImageReader
  StreamCnt, BlockCnt, Disorder,    \* Gvsp: frames, blocks; bound: packets in any order
  PacketSizes, Watchdogs,                               \* Gvcp
  MaxValue,                                             \* Mosaic
  Size, ImageBorder, Window,                            \* EdgeAware
  Align,                                                \* Modules
  TimerConst, NoticeCnt, OddReads,                      \* Winnum
  EditCnt,               \* Records; bound: images put into the frames
  CommandCnt, AnswerCnt,                                \* Messenger
  PeerCnt, PieceCnt,                                    \* TcpServer, Generator
  PictureCnt, TakeCnt,                                  \* Generator
  BufferCnt, FrameCnt, BeatCnt,                         \* Aravis
  RoomCnt, TreeCnt,                                     \* ObjectTree
  NetWidth, NetHeight,                                  \* DefectMask
  SettingsCnt,                                          \* Settings
  SaveCnt,                                              \* SaveFolders
  SegmentCnt, ChildCnt,                                 \* SharedMemory
  ChunkCnt, SourceSlots                                 \* InternalSource

\* a request is tried at least once
ASSUME TimerAssumption == TimerConst \in Nat \ {0}
\* a stream has frames, and they have blocks or none
ASSUME StreamAssumption == StreamCnt \in Nat \ {0} /\ BlockCnt \in Nat

\* source.c, cvcollector.cpp: headers and images have bytes, objects have frames
ASSUME ImageAssumption ==
  /\ HeaderLen \in Nat \ {0} /\ DataLen \in Nat \ {0} /\ ImageCnt \in Nat
  /\ ObjectMin \in Nat \ {0} /\ EmptyMin \in Nat

\* cvgenerator.cpp: there are pictures, and connections are counted
ASSUME GeneratorAssumption == PictureCnt \in Nat \ {0} /\ PeerCnt \in Nat

\* aravis: the buffers are counted
ASSUME BufferAssumption == BufferCnt \in Nat

\* EdgeAware.cpp: M must be even, and the windows lie within the border
ASSUME EdgeAssumption ==
  /\ Size \in Nat /\ ImageBorder \in Nat /\ Window \in Nat \ {0}
  /\ Window % 2 = 0 /\ Window + 1 <= ImageBorder

VARIABLES
  part,   \* the part of this behaviour
  st      \* its state

vars == <<part, st>>

Lines  == INSTANCE LineReaders
Images == INSTANCE ImageReader
Stream == INSTANCE Gvsp WITH FrameIds <- [k \in 1..StreamCnt |-> k]
Camera == INSTANCE Gvcp
Find   == INSTANCE Discovery
Polar  == INSTANCE Mosaic
Edge   == INSTANCE EdgeAware
Chain  == INSTANCE Modules
Sender == INSTANCE Winnum
Config == INSTANCE Configs
Disk   == INSTANCE Records
Mail   == INSTANCE Messenger
Server == INSTANCE TcpServer
Fake   == INSTANCE Generator
Arv    == INSTANCE Aravis
Tree   == INSTANCE ObjectTree
Defect == INSTANCE DefectMask
Sets   == INSTANCE Settings
Save   == INSTANCE SaveFolders
Shared == INSTANCE SharedMemory
Source == INSTANCE InternalSource

-----------------------------------------------------------------------------
(* Inputs.                                                                 *)
Hosts   == {[net |-> "loopback", num |-> 1], [net |-> "lan", num |-> 1], [net |-> "lan", num |-> 2]}
Answers == [kind : {"answer"}, from : Hosts]
Events  == Answers \cup [kind : {"short", "interrupted", "error"}, from : {[net |-> "lan", num |-> 1]}]

Interface(host, events) ==
  [up |-> TRUE, pointToPoint |-> FALSE, family |-> "inet", bound |-> TRUE,
   host |-> host, events |-> events]

Flags(iface) ==
  {iface, [iface EXCEPT !.up = FALSE], [iface EXCEPT !.pointToPoint = TRUE],
   [iface EXCEPT !.family = "inet6"], [iface EXCEPT !.bound = FALSE]}

UpTo(set, n) == UNION {[1..k -> set] : k \in 0..n}

\* values of the four angles, some at the ends of the range
Values == {<<10, 50, 100, 150>>, <<255, 0, 255, 0>>, <<0, 200, 255, 90>>}

\* files of up to three modules, with and without their names and parameters
Files ==
  LET ids == {<<0, 1, 2>>, <<2, 0, 1>>, <<0, 1, 0>>, <<-1, 0, 1>>}
      named == {<<TRUE, TRUE, TRUE>>, <<FALSE, TRUE, TRUE>>, <<TRUE, FALSE, FALSE>>}
      entries(n, id, next, type, name, params) ==
        [i \in 1..n |-> [id |-> id[i], next |-> next[i], type |-> type[i],
                         name |-> name[i], params |-> params]]
  IN  {entries(n, id, next, type, name, params) :
         n \in 0..3, id \in ids, next \in [1..3 -> {Chain!Null, -1, 0, 1, 2}],
         type \in [1..3 -> {"FIRST", "MIDDLE", "LAST"}], name \in named, params \in BOOLEAN}

Maps == [header : {32}, process_size : {0, 255, 256, 300}, process_cnt : 1..4,
         data_size : {1, 256, 257}, data_cnt : {1, 512}]

\* pipelines of up to three nodes, and configurations of up to three elements
Nodes ==
  LET node(id, next, name, params) == [id |-> id, next |-> next, name |-> name, params |-> params]
      all == {node(id, next, name, params) : id \in 0..2, next \in {-1, 1, 2},
                name \in {"a", "b", "object_name"}, params \in {<<"p", "q">>}}
             \cup {node(0, -1, "a", params) : params \in {<<>>, <<"p", "p">>, <<"q", "p">>}}
             \cup {node(-1, -1, name, <<"p", "q">>) : name \in {"a", "b", "object_name"}}
  IN  {<<>>} \cup {<<a>> : a \in all}
        \cup {Config!AddNode(<<a>>, b) : a, b \in all}
        \cup {Config!AddNode(Config!AddNode(<<a>>, b), c) :
                 a, b, c \in {n \in all : n.next # 2 /\ n.params = <<"p", "q">>}}

Configurations ==
  LET names == {"", "default", "a", "meta_info", "pipeline_settings", "server_settings"}
      one   == <<[id |-> 0, next |-> -1, name |-> "a", params |-> <<"p">>]>>
  IN  {<<Config!Pipeline("a", nodes)>> : nodes \in Nodes}
        \cup {<<Config!Pipeline(n, one), Config!Pipeline(m, <<>>)>> : n, m \in names}
        \cup {<<Config!Pipeline(n, one), Config!Server, Config!Pipeline(m, one)>> : n, m \in names}

\* where edges are found in the half size planes
Cannies ==
  LET half == (0..Size \div 2 - 1) \X (0..Size \div 2 - 1)
      left == {p \in half : p[2] < Size \div 4}
      shapes == {{}, half, left, {<<Size \div 4 - 1, Size \div 4 - 1>>}}
  IN  {[k \in 0..3 |-> IF k % 2 = 0 THEN s ELSE t] : s, t \in shapes}

\* objects of two images, one of any shape, and what the networks may say
Networks ==
  LET layers(at) == [k \in 0..3 |-> IF k = 1 THEN at ELSE {}]
      quiet == [k \in 0..3 |-> FALSE]
  IN  [files : {"there", "missing"}, encoder : {"good"}, decoder : {"good", "bad"},
       labels : {quiet, [quiet EXCEPT ![2] = TRUE]},
       layers : {layers({}), layers({<<0, 0>>, <<NetWidth - 1, NetHeight - 1>>})}]

Pictures == [rows : 0..9, cols : 1..60, type : {"8UC1"}] \cup [rows : {3}, cols : {20}, type : {"8UC3", "32FC1"}]

\* features of a camera, one of any kind, and what a user does to their text
CameraNodes(node) ==
  [f \in {"a", "b", "c"} |-> IF f = "a" THEN node
     ELSE [kind |-> "integer", usable |-> TRUE, error |-> FALSE, selector |-> FALSE, value |-> f]]

Features ==
  [nodes : {CameraNodes(node) : node \in [kind : Arv!Kinds, usable : BOOLEAN, error : BOOLEAN,
                                     selector : BOOLEAN, value : {"v"}]},
   asked : {<<>>, <<"a">>, <<"b", "a">>, <<"a", "b", "c">>, <<"b", "a", "b">>},
   edit : [cleared : SUBSET {"a", "b"}, locked : SUBSET {"a", "c"}]]

\* folders of the same name that a clock set back has left
OldFolders == {{}, {<< <<1, -1>> >>}, {<< <<1, -1>> >>, << <<1, 0>> >>, << <<2, 0>> >>}}

Texts == [tag : {"server_settings", "pipeline_settings", "nothing"}, key : {"k1", "k2"}, good : BOOLEAN]

-----------------------------------------------------------------------------
Init ==
  \/ /\ part = "lines"
     /\ \E reader \in {"server", "client", "messenger"}, ends \in SUBSET (1..StreamLen) :
          st = Lines!NewConnection(reader, ends)
  \/ part = "images" /\ \E loop \in {"source", "cv"} : st = Images!NewImageReader(loop)
  \/ part = "stream" /\ st = Stream!NewStream
  \/ part = "camera" /\ \E ip \in Camera!Ips, size \in PacketSizes : st = Camera!NewCamera(ip, size)
  \/ /\ part = "find"
     /\ \E a, b \in Hosts, ea \in UpTo(Events, 2), eb \in UpTo(Answers, 1), num \in {1, 2} :
        \E iface \in Flags(Interface(a, ea)) :
          st = [ifaces |-> <<iface, Interface(b, eb)>>, host |-> [net |-> "lan", num |-> num]]
  \/ part = "sockets" /\ \E bound \in UpTo(BOOLEAN, 3) \ {<<>>} : st = Find!NewSearch(bound)
  \/ /\ part = "polar"
     /\ \E how \in Polar!Expansions, h, w \in {4, 6, 8}, values \in Values,
           down, across \in {0, 9, -30} :
          /\ how \notin {"expand", "Easy", "Lite"} => h >= 6 /\ w >= 6
          /\ st = [how |-> how, h |-> h, w |-> w, values |-> values, down |-> down, across |-> across]
  \/ part = "edges" /\ \E canny \in Cannies :
       st = [stage |-> 0, images |-> <<>>,
             edges |-> [k \in 0..3 |-> Edge!getPreparedEdges(canny[k])]]
  \/ part = "chain" /\ \E file \in Files, left \in Chain!Leftovers : st = [file |-> file, left |-> left]
  \/ part = "segment" /\ st \in Maps
  \/ part = "shared" /\ st = Shared!NewSegments
  \/ part = "internal" /\ \E list \in Source!Orders, slots \in SourceSlots : st = Source!NewChain(list, slots)
  \/ part = "config" /\ st \in Configurations
  \/ part = "disk" /\ \E storage \in Disk!Storage : st = Disk!NewStore(storage)
  \/ part = "messenger" /\ st = Mail!NewClient
  \/ part = "server" /\ st = Server!NewServer
  \/ part = "generator" /\ \E files \in [1..PictureCnt -> {"whole", "small", "missing"}] :
       st \in Fake!NewGenerator(files)
  \/ part = "aravis" /\ \E camera \in {"good", "invalid"}, stream \in {"good", "failed"} :
       st \in Arv!arv_start_capture_thread(camera, stream)
  \/ part = "features" /\ st \in Features
  \/ part = "measure" /\ \E kind \in Tree!Kinds : st = Tree!NewMeasure(kind)
  \/ part = "tree" /\ \E own \in {{}, {"g"}} : st = Tree!NewTree(own)
  \/ part = "mask" /\ \E picture \in Pictures, net \in Networks :
       st = Defect!NewDefectModel(<<[rows |-> 3, cols |-> 20, type |-> "16UC1"], picture>>, net)
  \/ part = "settings" /\ st = Sets!NewSettings
  \/ part = "factory" /\ \E texts \in [Sets!Threads -> Texts] : st = Sets!NewFactory(texts)
  \/ part = "saver" /\ \E file \in Save!Files : st = Save!NewSaver(file)
  \/ part = "arguments" /\ st \in Save!Arguments
  \/ /\ part = "folders"
     /\ \E serials \in [Save!Programs -> {<<1, 1>>, <<1, 2>>}], there \in OldFolders :
          st = Save!NewFolders(serials, there)
  \/ part = "winnum" /\ \E billet \in BOOLEAN : st = Sender!NewService(billet)

\* a read of either tcp loop
Read ==
  /\ part = "lines" /\ st.state = "open"
  /\ \E n \in Lines!ReadSizes(st) : st' = Lines!Reads(st, n)
  /\ UNCHANGED part

\* a read of either image loop
ReadImage ==
  /\ part = "images" /\ st.state = "reading"
  /\ \E n \in Images!ImageReadSizes(st), size \in Images!Sizes, radius \in Images!Radii :
       st' = IF st.loop = "source" THEN Images!SourceRead(st, n, size)
             ELSE Images!CvRead(st, n, size, radius)
  /\ UNCHANGED part

\* the next packet as it was sent, or any packet of the stream
Receive ==
  /\ part = "stream" /\ st.state = "live"
  /\ \/ /\ st.orderly /\ st.arrived < Len(Stream!SentPackets)
        /\ st' = Stream!camera_gvsp_thread(st, Stream!SentPackets[st.arrived + 1])
     \/ /\ st.arrived < Disorder
        /\ \E i \in DOMAIN Stream!SentPackets, status \in {"ok", "error"} :
             st' = Stream!camera_gvsp_thread(st, [Stream!SentPackets[i] EXCEPT !.status = status])
  /\ UNCHANGED part

StopStream ==
  /\ part = "stream" /\ st.state = "live"
  /\ \E how \in {"stopped", "failed", "interrupted"} : st' = Stream!StreamEnds(st, how)
  /\ UNCHANGED part

\* the next step of a camera's scripts
Control ==
  /\ part = "camera" /\ ~Camera!CameraOver(st)
  /\ \/ st.todo = <<>> /\ st' = Camera!NextPhase(st)
     \/ st.todo # <<>> /\ Camera!Skipped(st) /\ st' = [st EXCEPT !.todo = Tail(@)]
     \/ /\ st.todo # <<>> /\ ~Camera!Skipped(st)
        /\ \E fate \in {"prompt", "late", "lost", "unheard"} : st' = Camera!Request(st, fate)
     \/ st.phase = "watchdog" /\ st' = Camera!LoseControl(st)
  /\ UNCHANGED part

\* servers and their clients
Attach == part = "shared" /\ st' \in Shared!SegmentSteps(st) /\ UNCHANGED part

\* a pipeline with an internal source
Run == part = "internal" /\ st' \in Source!ChainSteps(st) /\ UNCHANGED part

\* a search for cameras and another thread of its process
Search == part = "sockets" /\ st' \in Find!SearchSteps(st) \cup Find!OtherThread(st) /\ UNCHANGED part

\* the two stages of the edge aware expansion
Expand ==
  /\ part = "edges" /\ st.stage < 2
  /\ st' = [st EXCEPT !.stage = @ + 1,
                      !.images = IF st.stage = 0 THEN Edge!firstStageEdgesEstimation(st.edges)
                                 ELSE Edge!secondStageEdgesEstimation(st.edges, @)]
  /\ UNCHANGED part

\* the data base, the service and its user
Report ==
  /\ part = "winnum" /\ st.state = "running"
  /\ \/ /\ Len(st.sent) < NoticeCnt
        /\ \E named \in BOOLEAN : st' = Sender!Notify(st, named)
     \/ st' \in Sender!ServiceSteps(st)
     \/ st' = Sender!Interrupt(st)
  /\ UNCHANGED part

\* a program that fills an object and the data base that keeps it
Keep ==
  /\ part = "disk"
  /\ \/ /\ st.obj.there /\ st.edits < EditCnt
        /\ \E name \in Disk!FrameNames, storage \in Disk!Storage, pixels \in Disk!Pixels :
             st' = Disk!PutFrame(st, name, storage, pixels)
     \/ st' = Disk!save(st)
     \/ st' = Disk!removeFromSharedMemory(st)
     \/ st' = Disk!load(st)
  /\ UNCHANGED part

\* the user, the threads and the peers of the tcp programs
Tell  == part = "messenger" /\ st' \in Mail!ClientSteps(st) /\ UNCHANGED part
Serve == part = "server" /\ st' \in Server!ServerSteps(st) /\ UNCHANGED part
Feign == part = "generator" /\ st' \in Fake!GeneratorSteps(st) /\ UNCHANGED part

\* the threads of the aravis tool
CaptureFrames == part = "aravis" /\ st' \in Arv!CaptureSteps(st) /\ UNCHANGED part

\* users of measured values, of objects, of settings and of the factory
Weigh == part = "measure" /\ st' \in Tree!MeasureSteps(st) /\ UNCHANGED part
Grow  == part = "tree" /\ st' \in Tree!TreeSteps(st) /\ UNCHANGED part
Tune  == part = "settings" /\ st' \in Sets!SettingsSteps(st) /\ UNCHANGED part
Build == part = "factory" /\ st' \in Sets!FactorySteps(st) /\ UNCHANGED part

\* programs that save images
Store   == part = "saver" /\ st' \in Save!SaverSteps(st) /\ UNCHANGED part
Prepare == part = "folders" /\ st' \in Save!FolderSteps(st) /\ UNCHANGED part

\* the next image of the defect detection
Inspect == part = "mask" /\ st' \in Defect!DefectModel(st) /\ UNCHANGED part

Next ==
  \/ Expand \/ Keep \/ Report \/ Read \/ ReadImage \/ Receive \/ StopStream \/ Control
  \/ Tell \/ Serve \/ Feign \/ CaptureFrames \/ Weigh \/ Grow \/ Tune \/ Build \/ Inspect
  \/ Store \/ Prepare \/ Search \/ Attach \/ Run

Spec == Init /\ [][Next]_vars

-----------------------------------------------------------------------------
(* The properties of the parts; each is explained in its part's module.    *)

\* tcp_process.c, messenger.c: lines, the server's peers, the client's commands
LinesServed ==
  /\ part = "lines" => Lines!LinesServed(st)
  /\ part = "server" => Server!PeersServedInTurn(st)
  /\ part = "messenger" => Mail!CommandsReachServers(st)

\* source.c, cvcollector.cpp, and the sender cvgenerator.cpp
ImagesInOrder ==
  /\ part = "images" => Images!ImagesInOrder(st) /\ Images!ObjectsEnded(st)
  /\ part = "generator" => Fake!PeersGetImages(st)

\* gige_camera.c: camera_gvsp_thread; arv_capture_thread.c
FramesKeepApart ==
  /\ part = "stream" => Stream!FramesKeepApart(st)
  /\ part = "aravis" => Arv!FramesCounted(st)

\* gvcp.c, gige_camera_ops.c; CameraMetaData.cpp
AnswersInStep ==
  /\ part = "camera" => Camera!AnswersInStep(st)
  /\ part = "features" => Arv!CommandsSetFeatures(st.nodes, st.asked, st.edit)

\* interface.c, device.c
DeviceReachable ==
  /\ part = "find" => Find!DeviceReachable(st.ifaces, st.host)
  /\ part = "sockets" => Find!SocketsClosed(st)

\* PolarExpand.h; defectdetection.cpp
PlanesShowAngles ==
  /\ part = "polar" =>
       /\ st.down = 0 /\ st.across = 0 => Polar!EvenStaysEven(st.how, st.h, st.w, st.values)
       /\ st.down = 0 /\ st.across = 0 /\ st.how \notin {"Easy", "Lite"} =>
            Polar!OwnPixelsKept(st.how, st.h, st.w)
       /\ st.how = "Lite" /\ st.h >= 6 /\ st.w >= 6 =>
            Polar!LiteAligned(st.h, st.w, st.values, st.down, st.across)
  /\ part = "mask" => Defect!MasksFit(st)

\* PolarExpand.h: what the comments at the planes say of their angles
PlanesAsLabelled ==
  part = "polar" /\ st.down = 0 /\ st.across = 0 => Polar!PlanesAsLabelled(st.how, st.h, st.w, st.values)

\* config.cpp, pipeline_description.c, pipeline_module.c, shared_memory_map.h,
\* shared_memory.c, and initial_thread of pipeline.c
FilesGiveChains ==
  /\ part = "chain" => Chain!OneChain(st.file, st.left) /\ Chain!ChainsAreRead(st.file, st.left)
  /\ part = "segment" => Chain!SegmentHolds(st)
  /\ part = "shared" => Shared!SegmentsOwn(st)
  /\ part = "internal" => Source!InternalSourceStops(st)

\* sent_to_winnum.py
ObjectsReported == part = "winnum" => Sender!ObjectsReported(st)

\* libcommon's configuration, settings and factory; DescriptorsDB.cpp and
\* Filesystem.cpp; libstorage's objects and measured values; savemiddle.cpp and
\* main_acquisition.cpp
SavedIsLoaded ==
  /\ part = "config" => Config!ConfigKept(st)
  /\ part = "disk" => Disk!ObjectKept(st)
  /\ part = "settings" => Sets!ViewsTrue(st) /\ Sets!NodesKept
  /\ part = "factory" => Sets!OwnElements(st)
  /\ part = "measure" => Tree!MeasuresKept(st)
  /\ part = "tree" => Tree!ReferencesKept(st)
  /\ part = "saver" => Save!SavedImagesStay(st)
  /\ part = "arguments" => Save!CommandLineMeant(st)
  /\ part = "folders" => Save!FoldersOfOneProgram(st)

\* EdgeAware.cpp
PlanesOfOwnAngle ==
  part = "edges" /\ st.stage = 2 => Edge!PlanesOfOwnAngle(st.edges, st.images)
=============================================================================
