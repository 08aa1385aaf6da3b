---------------------------- MODULE ImageReader ----------------------------
(***************************************************************************)
(* How a tcp source gathers images from its stream, each a header with     *)
(* the size of header and data, then the data (source_data_thread_tcp in   *)
(* dclprocessor/collector/src/source.c, cv_collect_data_thread in          *)
(* libcapture/src/cvcollector.cpp), and how the latter sees the end of an  *)
(* object.  The operators give what a loop does with one read.  Bytes are  *)
(* their positions in the stream.                                          *)
(***************************************************************************)
EXTENDS Integers, Sequences, FiniteSets

CONSTANTS
  HeaderLen, DataLen,  \* bytes of a header and of an image
  ImageCnt,            \* images the peer sends
  ObjectMin, EmptyMin  \* 16 frames of an object, 8 empty ones behind it

\* taken: bytes read from the stream; ok, got, left: header_ok, recieved_len
\* and remaining_len; data: the image buffer; images: the frames passed on;
\* odd: a header has come in two reads, or has given a strange size
NewImageReader(loop) ==
  [loop |-> loop, taken |-> 0, ok |-> FALSE, got |-> 0, left |-> HeaderLen,
   data |-> [i \in 1..DataLen |-> 0], images |-> <<>>, odd |-> FALSE,
   state |-> "reading",
   counts |-> [obj |-> 0, empty |-> 0, non |-> 0], objects |-> << <<>> >>]

Bytes(r, n) == [i \in 1..n |-> r.taken + i]

HeaderPart(r, n) ==
  [r EXCEPT !.taken = @ + n, !.got = @ + n, !.left = @ - n, !.odd = TRUE]

\* bound: what a header may say of the size; a strange one is only logged
Sizes == 0..HeaderLen + DataLen + 1

\* remaining_len of zero is the length of a header in the next turn of the loop
Remaining(len) == IF len = 0 THEN HeaderLen ELSE len

\* the size in a header counts the header, of which the last read is taken off;
\* below zero it wraps around, and no read is as long
HeaderDone(r, n, size) ==
  LET read == [r EXCEPT !.taken = @ + n, !.odd = @ \/ size # HeaderLen + DataLen]
  IN  IF size < n THEN [read EXCEPT !.state = "failed"]
      ELSE [read EXCEPT !.got = 0, !.ok = TRUE, !.left = Remaining(size - n)]

DataPart(r, n) ==
  [r EXCEPT !.taken = @ + n, !.got = @ + n, !.left = Remaining(@ - n),
            !.data = [i \in 1..DataLen |->
                        IF i \in r.got + 1..r.got + n THEN Bytes(r, n)[i - r.got] ELSE @[i]]]

\* variant: recieved_len is not reset behind an image
ImageDoneKeepsLen(r, n) ==
  LET full == DataPart(r, n)
  IN  [full EXCEPT !.ok = FALSE, !.got = IF HeaderLen > 1 THEN 1 ELSE 0,
                   !.left = HeaderLen, !.images = Append(@, full.data)]

ImageDone(r, n) ==
  LET full == DataPart(r, n)
  IN  [full EXCEPT !.ok = FALSE, !.got = 0, !.left = HeaderLen,
                   !.images = Append(@, full.data)]

\* bytes of the next image behind the end of the buffer: anything may follow
Overrun(r, n) == [r EXCEPT !.taken = @ + n, !.state = "overrun"]

\* source_data_thread_tcp; a read of no bytes is tried again
SourceRead(r, n, size) ==
  CASE n = 0 -> r
    [] n > 0 /\ ~r.ok -> IF r.got + n < HeaderLen THEN HeaderPart(r, n) ELSE HeaderDone(r, n, size)
    [] n > 0 /\ r.ok -> IF r.got + n < DataLen THEN DataPart(r, n)
                        ELSE IF r.got + n = DataLen THEN ImageDone(r, n)
                        ELSE Overrun(r, n)

\* findRadius of a frame: an empty one, one with an object, or neither
Radii == {"small", "large", "between"}

\* the counters of cv_collect_data_thread after a frame
Counted(c, radius) ==
  CASE radius = "small" -> [c EXCEPT !.empty = @ + 1]
    [] radius = "large" -> [obj |-> c.obj + 1 + c.empty + c.non, empty |-> 0, non |-> 0]
    [] radius = "between" -> [c EXCEPT !.non = @ + 1]

ObjectBreak(c, radius) ==
  LET now == Counted(c, radius)
  IN  radius = "small" /\ now.obj >= ObjectMin /\ now.empty >= EmptyMin

\* cv_collect_data_thread: the same loop; a full image is classified, may end
\* the object, and is added to the object that is then the current one
CvRead(r, n, size, radius) ==
  LET next == SourceRead(r, n, size)
      new  == ObjectBreak(r.counts, radius)
      kept == IF new THEN Append(r.objects, <<>>) ELSE r.objects
  IN  IF Len(next.images) = Len(r.images) THEN next
      ELSE [next EXCEPT !.counts = IF new THEN [obj |-> 0, empty |-> 0, non |-> 0]
                                   ELSE Counted(r.counts, radius),
                        !.objects = [kept EXCEPT ![Len(kept)] = Append(@, radius)]]

\* what one read may return
ImageReadSizes(r) ==
  LET sent == ImageCnt * (HeaderLen + DataLen) - r.taken
  IN  0..(IF r.left < sent THEN r.left ELSE sent)

-----------------------------------------------------------------------------
(* However the stream is cut into reads and whatever sizes the headers     *)
(* give, the images passed on are the images sent, in order, each with its *)
(* own data and nothing else; the count of what is left is right unless a  *)
(* header comes in two reads or with a strange size, and only then bytes   *)
(* come to lie behind the image or a read fails.                           *)
ImagesInOrder(r) ==
  /\ \A k \in DOMAIN r.images : \A i \in 1..DataLen :
       r.images[k][i] = (k - 1) * (HeaderLen + DataLen) + HeaderLen + i
  /\ r.state # "reading" \/ (r.ok /\ r.left # DataLen - r.got) => r.odd

\* the places of the frames in the objects
FramesOf(r) == UNION {{k} \X DOMAIN r.objects[k] : k \in DOMAIN r.objects}

(* An object is ended only with enough frames of it seen, and the break    *)
(* opens the next one with an empty frame: no frame is lost between them.  *)
ObjectsEnded(r) ==
  /\ r.loop = "cv" => Cardinality(FramesOf(r)) = Len(r.images)
  /\ \A k \in 1..Len(r.objects) - 1 :
       /\ Len(r.objects[k]) >= ObjectMin
       /\ \E i \in DOMAIN r.objects[k] : r.objects[k][i] = "large"
       /\ r.objects[k + 1][1] = "small"
=============================================================================
