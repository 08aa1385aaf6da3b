-------------------------------- MODULE Gvsp --------------------------------
(***************************************************************************)
(* The stream of a GigE camera: camera_gvsp_thread of libcapture/src/      *)
(* gige_camera.c puts the blocks of packets into cam->iframe and passes it *)
(* to new_frame_action (libcapture/include/udpcapture/gvsp.h: the fields   *)
(* of a packet).  A packet is the frame it belongs to, its number in it    *)
(* (0 for the leader), its content and its status.                         *)
(***************************************************************************)
EXTENDS Integers, Sequences, FiniteSets

CONSTANTS
  FrameIds,    \* ids of the frames, in the order they are sent
  BlockCnt     \* blocks of a frame

Content(number) ==
  CASE number = 0 -> "leader" [] number \in 1..BlockCnt -> "block" [] OTHER -> "trailer"

Packet(k, number, status) ==
  [sent |-> k, frame |-> FrameIds[k], number |-> number,
   content |-> Content(number), status |-> status]

\* all packets, as they are sent: leader, blocks and trailer of each frame
SentPackets ==
  LET per == BlockCnt + 2
  IN  [i \in 1..Len(FrameIds) * per |->
         Packet((i - 1) \div per + 1, (i - 1) % per, "ok")]

\* last: last_frame_id; started: frame->is_started; buffer: the blocks in
\* cam->iframe; frames: what new_frame_action got; arrived: packets so far;
\* orderly: they were the packets sent, in order
NewStream ==
  [last |-> 0, started |-> FALSE, buffer |-> <<>>, frames |-> <<>>,
   errors |-> 0, arrived |-> 0, orderly |-> TRUE, state |-> "live"]

\* variant: the buffer goes on behind the old frame
OpenFrameAppend(s, p) ==
  [s EXCEPT !.frames = IF s.started THEN Append(@, [id |-> s.last, blocks |-> s.buffer]) ELSE @,
            !.started = TRUE, !.last = p.frame]

\* a packet of another frame than the last one's: what there is of that goes
\* to new_frame_action under its id, and the buffer is empty again
OpenFrame(s, p) ==
  [s EXCEPT !.frames = IF s.started THEN Append(@, [id |-> s.last, blocks |-> s.buffer]) ELSE @,
            !.buffer = <<>>, !.started = TRUE, !.last = p.frame]

\* n_packets is 0 in every frame: no packet is known as received before, and
\* a block goes behind what has come, whatever its number
StoreBlock(s, p) ==
  IF p.content = "block" THEN [s EXCEPT !.buffer = Append(@, <<p.sent, p.number>>)] ELSE s

\* one packet; only the status 0x80 counts as an error
camera_gvsp_thread(s, p) ==
  LET now == IF p.frame # s.last THEN OpenFrame(s, p) ELSE s
      i   == s.arrived + 1
  IN  [(CASE ~now.started -> now
          [] now.started /\ p.status = "error" -> [now EXCEPT !.errors = @ + 1]
          [] OTHER -> StoreBlock(now, p))
       EXCEPT !.arrived = i,
              !.orderly = @ /\ i \in DOMAIN SentPackets /\ p = SentPackets[i]]

\* the ways out: STREAM_STOP; an error, after which state stays STREAM_LIVE; an
\* interrupted receive, which goes on with a packet that has been freed
StreamEnds(s, how) == [s EXCEPT !.state = how]

-----------------------------------------------------------------------------
(* Whatever the network loses, repeats or reorders, a frame that is passed *)
(* on holds blocks of one frame of the camera only, the one it is named    *)
(* after; and when nothing is lost, every frame but the last one that has  *)
(* begun is passed on, in order and with all its blocks (a frame with id 0 *)
(* at the start is taken for one that has begun before).                   *)
FramesKeepApart(s) ==
  /\ \A k \in DOMAIN s.frames : \A i \in DOMAIN s.frames[k].blocks :
       FrameIds[s.frames[k].blocks[i][1]] = s.frames[k].id
  /\ s.orderly =>
       LET begun == (s.arrived + BlockCnt + 1) \div (BlockCnt + 2)
           first == IF FrameIds[1] = 0 THEN 2 ELSE 1
       IN  s.frames = [k \in 1..(IF begun > first THEN begun - first ELSE 0) |->
                         [id |-> FrameIds[k + first - 1],
                          blocks |-> [i \in 1..BlockCnt |-> <<k + first - 1, i>>]]]
=============================================================================
