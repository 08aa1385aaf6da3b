---------------------------- MODULE SaveFolders ----------------------------
(***************************************************************************)
(* Programs that save images into folders: the pipeline component          *)
(* savemiddle (dclcomponents/savemiddle/src/savemiddle.cpp) and the        *)
(* acquisition program of the Spinnaker tool, from its command line to the *)
(* folders of its cameras (tools/spinnaker/src/main_acquisition.cpp).      *)
(* OpenCV and the file system are external.                                *)
(***************************************************************************)
EXTENDS Integers, Sequences, FiniteSets

CONSTANT SaveCnt   \* bound: objects that the component saves

-----------------------------------------------------------------------------
(* savemiddle.                                                             *)

\* formats with none to three fields, and with brackets that do not match;
\* "t" is any text
Formats ==
  {<<"t">>, <<"{">>, <<"{", "}">>, <<"}", "t", "{", "}">>, <<"{", "}", "t", "{", "}">>,
   <<"{", "}", "t", "{">>, <<"{", "}", "{", "}", "{", "}">>}

\* images carry the day and the time of day when they were taken
Times == {[day |-> 1, clock |-> 1], [day |-> 2, clock |-> 1], [day |-> 1, clock |-> 2]}

Default == [source |-> 1, format |-> <<"{", "}", "t", "{", "}">>, path |-> "default", extension |-> "tiff"]

\* what a configuration file may hold
Files ==
  LET says(f, e) == [source |-> 2, format |-> f, path |-> "own", extension |-> e]
  IN  {[kind |-> "good", says |-> says(f, "png")] : f \in Formats}
        \cup {[kind |-> k, says |-> says(<<"{">>, "unknown")] :
                k \in {"unnamed", "absent", "broken", "wrong", "good"}}

\* disk: the number of the image in each file, 0 when writing it has failed;
\* seen: the frames given to the component, and what became of their images
NewSaver(file) ==
  [file |-> file, config |-> FALSE, settings |-> Default, state |-> "running", disk |-> <<>>, seen |-> <<>>,
   saves |-> 0]

\* variant: the settings read before the wrong one stay
KeepsRead(s) ==
  IF s.file.kind = "wrong" THEN [s EXCEPT !.config = TRUE, !.settings.source = s.file.says.source] ELSE s

\* nothing catches what the parser throws, and a member of the wrong type, or
\* none, undoes the ones read before it
saveMiddleConfig(s) ==
  CASE s.file.kind = "broken" -> [s EXCEPT !.state = "ended"]
    [] s.file.kind = "good"   -> [s EXCEPT !.config = TRUE, !.settings = s.file.says]
    [] OTHER                  -> [s EXCEPT !.config = TRUE, !.settings = Default]

\* the first field is the name and the second the time of day; one more gives
\* name and date, and a field that is not closed starts the format again
saveFormat(format, name, time) ==
  LET end == Len(format) + 1
      find(c, from) ==
        IF \A i \in from..Len(format) : format[i] # c THEN end
        ELSE CHOOSE i \in from..Len(format) : format[i] = c /\ \A j \in from..i - 1 : format[j] # c
      part(from, to) == SubSeq(format, from, to - 1)
      after(ket) == IF ket = end THEN 1 ELSE ket + 1
      bra1 == find("{", 1)
      ket1 == find("}", bra1)
      bra2 == find("{", ket1)
      ket2 == find("}", bra2)
  IN  CASE bra1 = end -> format
        [] bra1 # end /\ bra2 = end -> part(1, bra1) \o <<name>> \o part(after(ket1), end)
        [] bra2 # end /\ find("{", ket2) = end ->
             part(1, bra1) \o <<name>> \o part(after(ket1), bra2) \o <<time.clock>> \o part(after(ket2), end)
        [] OTHER -> <<name, "t", time>>

\* one frame of frameset set: the images of one source are written
SaveFrame(s, set, frame, fate) ==
  LET file == <<s.settings.path, set, saveFormat(s.settings.format, frame.name, frame.time), s.settings.extension>>
      nr == Len(s.seen) + 1
      due == frame.source = s.settings.source
      done == IF ~due THEN "other" ELSE IF s.settings.extension = "unknown" THEN "threw" ELSE fate
      left == IF done = "written" THEN nr ELSE 0
  IN  [s EXCEPT !.seen = Append(@, [set |-> set, frame |-> frame, done |-> done]),
                !.state = IF done = "threw" THEN "ended" ELSE @,
                !.disk = IF done \in {"other", "threw"} THEN @
                         ELSE [f \in DOMAIN @ \cup {file} |-> IF f = file THEN left ELSE @[f]]]

\* an object of one frameset, of two frames; whoever does not configure the
\* component before its first object has it configured then
SaveBlock(s, set, frames, fates) ==
  LET t == IF s.config THEN s ELSE saveMiddleConfig(s)
      u == IF t.state = "ended" THEN t ELSE SaveFrame(t, set, frames[1], fates[1])
      v == IF u.state = "ended" THEN u ELSE SaveFrame(u, set, frames[2], fates[2])
  IN  [v EXCEPT !.saves = @ + 1]

SaverSteps(s) ==
  LET frame(name, sources) == [name : {name}, source : sources, time : Times]
      fates == {<<"written", "written">>, <<"written", "failed">>}
  IN  IF s.state = "ended" THEN {}
      ELSE (IF s.config THEN {} ELSE {saveMiddleConfig(s)})
             \cup (IF s.saves = SaveCnt THEN {}
                   ELSE {SaveBlock(s, set, <<a, b>>, fate) :
                           set \in {"s1", "s2"}, a \in frame("a", {1, 2}), b \in frame("b", {2}), fate \in fates})

(* The settings are all the file's or all the default ones.  The image of  *)
(* every frame of the source is in a file until a later frame of a         *)
(* frameset of the same name takes it: one of the same name, too, if the   *)
(* format has a field, and taken at the same time of day if it has two     *)
(* (on the same day if it has three).  Objects and days do not count.      *)
SavedImagesStay(s) ==
  LET fields == Cardinality({i \in DOMAIN s.settings.format : s.settings.format[i] = "{"})
      takes(a, b) == /\ a.set = b.set /\ a.done # "other" /\ a.done # "threw"
                     /\ fields >= 1 => a.frame.name = b.frame.name
                     /\ fields >= 2 => a.frame.time.clock = b.frame.time.clock
                     /\ fields >= 3 => a.frame.time = b.frame.time
  IN  /\ s.config => s.settings = IF s.file.kind = "good" THEN s.file.says ELSE Default
      /\ \A i \in DOMAIN s.seen :
           /\ s.seen[i].done = "written" =>
                \/ \E f \in DOMAIN s.disk : s.disk[f] = i
                \/ \E j \in i + 1..Len(s.seen) : takes(s.seen[j], s.seen[i])
           /\ s.seen[i].done # "other" => s.seen[i].frame.source = s.settings.source

-----------------------------------------------------------------------------
(* The command line: what follows an option, if it is there and anything   *)
(* follows; guiFPS is not initialised, and "any" may be any number.        *)
Arguments ==
  [help : BOOLEAN, config : {"absent", "last", "nothing", "folder", "file"},
   storage : {"absent", "last", "nothing", "folder", "file"}, calibrate : BOOLEAN, preview : BOOLEAN,
   fps : {"absent", "last", "word", "number"}]

parseCommandLine(args) ==
  LET showGUI == args.calibrate \/ args.preview
      guiFPS == IF showGUI /\ args.fps # "absent" THEN (IF args.fps = "number" THEN "number" ELSE "none") ELSE "any"
      outcome == CASE args.help \/ "absent" \in {args.config, args.storage} -> "usage"
                   [] ~args.help /\ "absent" \notin {args.config, args.storage}
                        /\ "last" \in {args.config, args.storage} -> "crashed"
                   [] OTHER -> IF args.config = "file" /\ args.storage = "folder" THEN "runs" ELSE "refused"
  IN  [outcome |-> outcome, weCalibrate |-> args.calibrate, showGUI |-> showGUI, guiFPS |-> guiFPS]

(* A program that runs has a file to configure it and a folder to store    *)
(* into, a calibration can be seen, and the rate of the preview is the one *)
(* asked for, or none if that is no number; when none is asked for it may  *)
(* be any.                                                                 *)
CommandLineMeant(args) ==
  LET parsed == parseCommandLine(args)
  IN  /\ parsed.outcome = "runs" => args.config = "file" /\ args.storage = "folder" /\ ~args.help
      /\ parsed.weCalibrate => parsed.showGUI
      /\ parsed.showGUI /\ parsed.guiFPS = "any" => args.fps = "absent"
      /\ parsed.showGUI /\ args.fps = "number" => parsed.guiFPS = "number"

-----------------------------------------------------------------------------
(* The folders.  A folder is a sequence of names; a name is <<base, n>>,   *)
(* where n is the suffix that makes it new, or -1 without one.             *)
Programs == {"p", "q"}

\* serials of the two cameras of each program; there: folders of the day before
NewFolders(serials, there) ==
  [clock |-> 1, dirs |-> there, old |-> there,
   prog |-> [p \in Programs |-> [pc |-> "name", folder |-> <<>>, try |-> <<0, -1>>, cams |-> <<>>,
                                 serials |-> serials[p], raced |-> FALSE]]]

Folder(prog) == Append(prog.folder, prog.try)

\* main, from the name of its folder to the start of the capture: the first
\* name that is not there is made, and the folder of each camera within it
FolderStep(s, p) ==
  LET prog == s.prog[p]
      folder == Folder(prog)
      to(pc) == [s EXCEPT !.prog[p].pc = pc]
      made == {q \in Programs : s.prog[q].pc = "make" /\ Folder(s.prog[q]) = folder}
      \* the name is new to every program that has tested it and not made it
      mark(t) == [t EXCEPT !.prog = [q \in Programs |->
                    IF q \in made /\ made # {p} THEN [@[q] EXCEPT !.raced = TRUE] ELSE @[q]],
                  !.dirs = @ \cup {folder}]
      serial(k) == <<prog.serials[k], -1>>
  IN  CASE prog.pc = "name" -> [to("test") EXCEPT !.prog[p].try = <<s.clock, -1>>]
        [] prog.pc = "test" ->
             IF folder \in s.dirs THEN [s EXCEPT !.prog[p].try[2] = @ + 1] ELSE to("make")
        [] prog.pc = "make" /\ prog.folder = <<>> ->
             [mark(to("test")) EXCEPT !.prog[p].folder = folder, !.prog[p].try = serial(1)]
        [] prog.pc = "make" /\ prog.folder # <<>> ->
             [mark(to(IF Len(prog.cams) = 1 THEN "capture" ELSE "test"))
                EXCEPT !.prog[p].cams = Append(@, folder), !.prog[p].try = serial(2)]

FolderSteps(s) ==
  {FolderStep(s, p) : p \in {p \in Programs : s.prog[p].pc # "capture"}}
    \cup (IF s.clock = 1 THEN {[s EXCEPT !.clock = 2]} ELSE {})

(* The cameras of a program have folders of their own within that of the   *)
(* program, even if two have one serial number, and the folders were not   *)
(* there before.  Two programs share a folder only if both found its name  *)
(* free before either had made it; then they may also share a camera's.    *)
FoldersOfOneProgram(s) ==
  \A p \in Programs :
    LET prog == s.prog[p]
    IN  /\ Len(prog.cams) = 2 => prog.cams[1] # prog.cams[2]
        /\ \A k \in DOMAIN prog.cams : prog.cams[k][1] = prog.folder[1] /\ prog.cams[k] \in s.dirs \ s.old
        /\ \A q \in Programs \ {p} :
             prog.folder # <<>> /\ prog.folder = s.prog[q].folder => prog.raced
=============================================================================
