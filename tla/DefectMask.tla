----------------------------- MODULE DefectMask -----------------------------
(***************************************************************************)
(* The defect detection of the pipeline component defectmiddle             *)
(* (dclcomponents/defectmiddle/src/defectdetection.cpp, DefectMiddle.cpp): *)
(* the widest middle part of an image that has the shape of the network's  *)
(* input is scaled to it, the network answers with four layers of scores,  *)
(* and the answer is scaled back into a mask of the image's size.  The     *)
(* networks are external: a layer is the set of the pixels, of NetWidth by *)
(* NetHeight, whose score is above its threshold, a label is a BOOLEAN.    *)
(***************************************************************************)
EXTENDS Integers, Sequences

CONSTANTS NetWidth, NetHeight    \* inputWidth, inputHeight

Thrown(why) == [state |-> "thrown", why |-> why]

\* prepareForInfer: the formats it knows, and the part that is looked at
Seen(image) == IF image.type \in {"8UC1", "8UC3", "16UC1"} THEN "image" ELSE "zeros"

Part(image) ==
  LET high == (image.cols * NetHeight) \div NetWidth
      h == IF high > image.rows THEN image.rows ELSE high
      w == IF high > image.rows THEN (image.rows * NetWidth) \div NetHeight ELSE image.cols
  IN  [x |-> (image.cols - w) \div 2, y |-> (image.rows - h) \div 2, w |-> w, h |-> h]

\* getDefectMask: the answer's height is rounded where the part's was cut off,
\* and a rectangle that leaves the image is an exception
Mask(image, answer) ==
  LET part == Part(image)
      h == (2 * NetHeight * part.w + NetWidth) \div (2 * NetWidth)
      at == [x |-> (image.cols - part.w) \div 2, y |-> (image.rows - h) \div 2, w |-> part.w, h |-> h]
  IN  IF part.w = 0 \/ part.h = 0 THEN Thrown("nothing to scale")
      ELSE IF at.y < 0 \/ at.y + at.h > image.rows THEN Thrown("outside")
      ELSE [state |-> "mask", rows |-> image.rows, cols |-> image.cols, seen |-> Seen(image),
            at |-> at, marked |-> answer]

\* DefectDetectionNetworkV1: one network
DefectDetectionNetworkV1(image, net) ==
  IF ~net.loaded THEN Thrown("not loaded")
  ELSE Mask(image, UNION {net.layers[k] : k \in 0..3})

\* DefectDetectionNetworkV2: the decoder is asked only if the encoder has found
\* something; a file that cannot be read leaves its network empty
DefectDetectionNetworkV2(image, net) ==
  LET encoder == net.files = "there" /\ net.encoder = "good"
      decoder == net.files = "there" /\ net.decoder = "good"
      found   == \E k \in 0..3 : net.labels[k]
  IN  IF ~encoder \/ (found /\ ~decoder) THEN Thrown("not loaded")
      ELSE Mask(image, IF found THEN UNION {net.layers[k] : k \in 0..3} ELSE {})

\* DefectModel: every frame of the object in turn, the error of load is ignored
\* and an exception ends the component
NewDefectModel(images, net) == [images |-> images, net |-> net, masks |-> <<>>, state |-> "running"]

DefectModel(m) ==
  LET k == Len(m.masks) + 1
  IN  IF m.state # "running" THEN {}
      ELSE IF k > Len(m.images) THEN {[m EXCEPT !.state = "done"]}
      ELSE LET mask == DefectDetectionNetworkV2(m.images[k], m.net)
           IN  {IF mask.state = "thrown" THEN [m EXCEPT !.state = mask.why]
                ELSE [m EXCEPT !.masks = Append(@, mask)]}

-----------------------------------------------------------------------------
(* The mask lies inside its image, where the network has looked or one row *)
(* beside it, and marks what the scores say if the encoder has found       *)
(* anything.  Only one shape of image cannot have one: as high as its      *)
(* width asks for, less the part of a row that is rounded up again; and a  *)
(* component without its networks ends with the first image that needs     *)
(* them, after the masks of those before.                                  *)
MasksFit(m) ==
  LET next == m.images[Len(m.masks) + 1]
  IN  /\ \A k \in DOMAIN m.masks :
           LET mask == m.masks[k]
               part == Part(m.images[k])
               one  == DefectDetectionNetworkV1(m.images[k], [loaded |-> TRUE, layers |-> m.net.layers])
           IN  /\ mask.at.x >= 0 /\ mask.at.x + mask.at.w <= mask.cols
               /\ mask.at.y >= 0 /\ mask.at.y + mask.at.h <= mask.rows
               /\ mask.at.x = part.x /\ mask.at.y - part.y \in -1..1
               /\ mask.at.y + mask.at.h - (part.y + part.h) \in 0..1
               /\ (\E i \in 0..3 : m.net.labels[i]) => mask = one
               /\ mask.marked # {} => m.net.encoder = "good" /\ m.net.decoder = "good"
      /\ m.state = "outside" =>
           /\ next.rows = (next.cols * NetHeight) \div NetWidth
           /\ 2 * ((next.cols * NetHeight) % NetWidth) > NetWidth
      /\ m.state = "nothing to scale" => next.rows = 0 \/ next.cols * NetHeight < NetWidth
      /\ m.state = "done" => Len(m.masks) = Len(m.images)
=============================================================================
