------------------------------ MODULE Records ------------------------------
(***************************************************************************)
(* Objects on disk: DescriptorsDB (dbpg/src/DescriptorsDB.cpp) saves an    *)
(* object of the shared memory as a JSON file with its frames' images      *)
(* beside it (Filesystem.cpp), removes it from there and loads it again,   *)
(* through the JSON forms of object, frameset and frame (libstorage).  The *)
(* object has one frameset; a frame has an image and a storage type.       *)
(***************************************************************************)
EXTENDS Integers, Sequences, FiniteSets

FrameNames == {"f1", "f2"}

\* colour of 8 bits, grey of 8 bits, colour of 16 bits, floats
Pixels == {"bgr8", "grey8", "bgr16", "float"}
Storage == {"no", "short"}

NoObject == [there |-> FALSE]

\* obj: the object in shared memory; json: what the last save wrote; png, dat:
\* the image files; saved, written: the object then, and the frames with files
NewStore(storage) ==
  [obj |-> [there |-> TRUE, storage |-> storage, frames |-> <<>>], json |-> NoObject,
   png |-> <<>>, dat |-> <<>>, saved |-> NoObject, edits |-> 0, loaded |-> FALSE]

With(f, key, value) == [k \in DOMAIN f \cup {key} |-> IF k = key THEN value ELSE f[k]]

\* Frameset::addFrame of a new name, or setImage of a frame; the edits number
\* the images
PutFrame(s, name, storage, pixels) ==
  LET image == [pixels |-> pixels, nr |-> s.edits + 1]
      kept  == IF name \in DOMAIN s.obj.frames THEN s.obj.frames[name].storage ELSE storage
  IN  [s EXCEPT !.obj.frames = With(@, name, [storage |-> kept, image |-> image, time |-> "taken"]),
                !.edits = @ + 1, !.loaded = FALSE]

\* variant: floats are written as a picture, too
saveImageAsPng(s, name, image) == [s EXCEPT !.png = With(@, name, image)]

\* saveImage: what a PNG can hold becomes one, all else an archive
saveImage(s, name, image) ==
  IF image.pixels # "float" THEN [s EXCEPT !.png = With(@, name, image)]
  ELSE [s EXCEPT !.dat = With(@, name, image)]

\* readImage: a PNG comes first, and is read as colour of 8 bits
readImage(s, name) ==
  IF name \in DOMAIN s.png THEN [s.png[name] EXCEPT !.pixels = "bgr8"]
  ELSE IF name \in DOMAIN s.dat THEN s.dat[name] ELSE [pixels |-> "none", nr |-> 0]

Kept(frames) == {n \in DOMAIN frames : frames[n].storage # "no"}

\* DescriptorsDB::save with toJson of the object, its frameset and its frames
save(s) ==
  LET frames == IF s.obj.storage = "no" THEN {} ELSE Kept(s.obj.frames)
      write[left \in SUBSET frames] ==
        IF left = {} THEN s
        ELSE LET n == CHOOSE n \in left : TRUE
             IN  saveImage(write[left \ {n}], n, s.obj.frames[n].image)
  IN  IF ~s.obj.there THEN s
      ELSE [write[frames] EXCEPT
              !.json = [there |-> TRUE, storage |-> s.obj.storage,
                        frames |-> [n \in frames |-> s.obj.frames[n].storage]],
              !.saved = s.obj, !.loaded = FALSE]

removeFromSharedMemory(s) == [s EXCEPT !.obj = NoObject, !.loaded = FALSE]

\* DescriptorsDB::load with fromJson; the time of a frame is never parsed, and
\* a frameset that was not to be saved is not there
load(s) ==
  IF s.obj.there \/ ~s.json.there THEN s
  ELSE [s EXCEPT !.loaded = TRUE,
          !.obj = [there |-> TRUE, storage |-> s.json.storage,
                   frames |-> [n \in DOMAIN s.json.frames |->
                     [storage |-> s.json.frames[n], image |-> readImage(s, n), time |-> "any"]]]]

-----------------------------------------------------------------------------
(* A loaded object has the frames of the last save that were to be saved,  *)
(* each with its storage type and its own image, but for two things: the   *)
(* pixels of a picture come back as colour of 8 bits, and a frame that was *)
(* a picture in an earlier save and is now an archive comes back as the    *)
(* old picture, whose file nobody removes.                                 *)
ObjectKept(s) ==
  s.loaded =>
    LET frames == IF s.saved.storage = "no" THEN {} ELSE Kept(s.saved.frames)
    IN  /\ DOMAIN s.obj.frames = frames
        /\ \A n \in frames :
             LET was == s.saved.frames[n].image
                 is  == s.obj.frames[n].image
             IN  /\ s.obj.frames[n].storage = s.saved.frames[n].storage
                 /\ is.nr # was.nr => is.nr < was.nr /\ was.pixels = "float" /\ n \in DOMAIN s.png
                 /\ is.pixels = IF was.pixels = "float" /\ is.nr = was.nr THEN "float" ELSE "bgr8"
=============================================================================
