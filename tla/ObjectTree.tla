----------------------------- MODULE ObjectTree -----------------------------
(***************************************************************************)
(* The objects of the shared memory in themselves (libstorage): an object  *)
(* descriptor has framesets and framedatasets by name, its users hold      *)
(* references to them, and it has a JSON form.  A FrameData or ObjectData  *)
(* is what was measured on an object; each kind of object has a            *)
(* constructor of its own.  How users and pipelines share objects is in    *)
(* ObjectStore, files and images are in Records.                           *)
(***************************************************************************)
EXTENDS Integers, FiniteSets

CONSTANTS
  RoomCnt,   \* elements that find room in the shared memory
  TreeCnt    \* bound: operations on the object, or on a measured value

-----------------------------------------------------------------------------
(* Measured values.                                                        *)
Kinds  == {"full", "empty", "billet", "mandrel", "pipe"}
Fields == {"condition", "last_detection", "diameter", "length", "diameter1",
           "diameter2", "diameter3", "number", "defects"}

\* the properties of a kind, by the comments at the members
OwnFields(kind) ==
  CASE kind = "billet"  -> {"condition", "last_detection", "length", "diameter1", "diameter2", "diameter3"}
    [] kind = "mandrel" -> {"condition", "last_detection", "diameter", "number", "defects"}
    [] kind = "pipe"    -> {"condition", "last_detection", "diameter", "defects"}
    [] kind = "full"    -> Fields
    [] kind = "empty"   -> {}

\* what a constructor initialises from its arguments; the rest has any value,
\* but for the text and the vector, which begin empty
Built(given) ==
  [f \in Fields |-> IF f \in given THEN "given"
                    ELSE IF f \in {"number", "defects"} THEN "empty" ELSE "any"]

\* the five constructors
NewFrameData(kind) ==
  Built(CASE kind = "full"    -> Fields
          [] kind = "empty"   -> {}
          [] kind = "billet"  -> Fields \ {"diameter", "number", "defects"}
          [] kind = "mandrel" -> Fields \ {"length", "diameter1", "diameter2", "diameter3"}
          [] kind = "pipe"    -> {"condition", "last_detection", "diameter", "defects"})

\* the constructors of ObjectData initialise the same members
NewObjectData(kind) == NewFrameData(kind)

NewMeasure(kind) ==
  [kind |-> kind, data |-> NewFrameData(kind), object |-> NewObjectData(kind),
   set |-> {}, json |-> <<>>, before |-> NewFrameData(kind), from |-> "none",
   state |-> "live", steps |-> 0]

\* the setters
SetField(m, f) == [m EXCEPT !.data[f] = "set", !.object[f] = "set", !.set = @ \cup {f}, !.from = "none"]

\* FrameData::toJsonDB and toJson: the defects are not written
FrameDataJson(m) == [m EXCEPT !.json = [f \in Fields \ {"defects"} |-> m.data[f]], !.from = "none"]

\* what fromJsonDB is given: a text of toJson, one without a member, one with a
\* "datetime" besides
JsonFrom == {"own", "short", "dated"}
Asked == Fields \ {"number", "defects"}

\* FrameData::fromJsonDB: the time is taken from "datetime", whose parser never
\* reads it, and the number from "diameter3", where it is not a text
FrameDataFromJson(m, from) ==
  LET read == [m EXCEPT !.before = m.data, !.from = from]
      keys == IF from = "short" THEN Asked \ {"length"} ELSE DOMAIN m.json
  IN  CASE ~(Asked \subseteq keys) -> read
        [] Asked \subseteq keys /\ from = "own" -> [read EXCEPT !.state = "no datetime"]
        [] OTHER ->
             [read EXCEPT !.state = "thrown",
                !.data = [f \in Fields |-> CASE f = "last_detection" -> "any"
                                             [] f \in {"number", "defects"} -> @[f]
                                             [] OTHER -> m.json[f]]]

MeasureSteps(m) ==
  IF m.state # "live" \/ m.steps = TreeCnt THEN {}
  ELSE {[n EXCEPT !.steps = @ + 1] :
          n \in {SetField(m, f) : f \in Fields} \cup {FrameDataJson(m)}
                \cup (IF m.json = <<>> THEN {} ELSE {FrameDataFromJson(m, from) : from \in JsonFrom})}

(* A value of its kind is never written to JSON before somebody gave it,   *)
(* whichever constructor made it; the others are, whatever they happen to  *)
(* be.  Nothing written is ever read back: what is read leaves every value *)
(* as it was, or does not return, with neither the number, nor the time,   *)
(* nor the defects restored.                                               *)
MeasuresKept(m) ==
  /\ \A f \in Fields : (m.data[f] = "any" \/ m.object[f] = "any") =>
        f \notin OwnFields(m.kind) \/ (m.state = "thrown" /\ f = "last_detection")
  /\ m.from = "none" => \A f \in DOMAIN m.json : m.json[f] = "any" => f \notin OwnFields(m.kind)
  /\ m.from # "none" /\ m.state # "thrown" => m.data = m.before
  /\ m.state = "thrown" =>
        /\ m.data.last_detection = "any"
        /\ \A f \in {"number", "defects"} : m.data[f] = m.before[f]
        /\ \A f \in Asked \ {"last_detection"} : m.data[f] = m.json[f]

-----------------------------------------------------------------------------
(* The object.  Names beyond the length of an ObjectID are cut, and two of *)
(* these are the same then.                                                *)
Names == {"a", "long1", "long2"}
ObjectID(name) == IF name \in {"long1", "long2"} THEN "long" ELSE name

Groups == {"framesets", "framedatasets"}

\* elements: by group and name, numbered as they are made; refs: the last
\* reference of each group, number 0 an empty one; gone: numbers removed;
\* own: a frameset its user moves into the object, with its frames
NewTree(own) ==
  [elements |-> [g \in Groups |-> <<>>], made |-> 0,
   refs |-> [g \in Groups |-> [name |-> "a", nr |-> 0]], gone |-> {}, own |-> own,
   json |-> <<>>, before |-> <<>>, loaded |-> FALSE, thrown |-> FALSE, steps |-> 0]

With(f, key, value) == [k \in DOMAIN f \cup {key} |-> IF k = key THEN value ELSE f[k]]

Used(t) == Cardinality(DOMAIN t.elements.framesets) + Cardinality(DOMAIN t.elements.framedatasets)

\* emplace: an element is made before its name is looked up, so without room
\* even the name that is there gives an empty reference; else the older stays
Emplace(t, g, name, element) ==
  LET key == ObjectID(name)
      map == IF key \in DOMAIN t.elements[g] THEN t.elements[g]
             ELSE With(t.elements[g], key, element)
  IN  IF Used(t) = RoomCnt THEN [t EXCEPT !.refs[g] = [name |-> name, nr |-> 0]]
      ELSE [t EXCEPT !.elements[g] = map, !.made = @ + 1,
                     !.refs[g] = [name |-> name, nr |-> map[key].nr]]

\* addFrameset and addFrameDataSet of a name; a frameset's constructor reads
\* its own storage type instead of the argument
AddSet(t, g, name) ==
  {Emplace(t, g, name, [nr |-> t.made + 1, storage |-> storage, frames |-> {}]) :
     storage \in IF g = "framesets" THEN {"no", "short"} ELSE {"short"}}

\* addFrameset of a frameset that is moved, and lost if its name is there
MoveSet(t, name) ==
  LET moved == Emplace(t, "framesets", name, [nr |-> t.made + 1, storage |-> "short", frames |-> t.own])
  IN  IF Used(t) = RoomCnt THEN moved ELSE [moved EXCEPT !.own = {}]

\* frameset, framedataset: a reference by name; an empty one if it is not there
FindSet(t, g, name) ==
  LET key == ObjectID(name)
  IN  [t EXCEPT !.refs[g] = [name |-> name, nr |-> IF key \in DOMAIN t.elements[g]
                                                    THEN t.elements[g][key].nr ELSE 0]]

\* removeFrameset, removeFrameDataSet
RemoveSet(t, g, name) ==
  LET key == ObjectID(name)
  IN  IF key \notin DOMAIN t.elements[g] THEN t
      ELSE [t EXCEPT !.elements[g] = [k \in DOMAIN @ \ {key} |-> @[k]],
                     !.gone = @ \cup {t.elements[g][key].nr}]

\* Frameset::addFrame through the reference, a Frame of a name of its own
AddFrame(t, frame) ==
  {[t EXCEPT !.elements.framesets[k].frames = @ \cup {frame}] :
     k \in {k \in DOMAIN t.elements.framesets : t.elements.framesets[k].nr = t.refs.framesets.nr}}

\* ObjectDescriptor::toJson: the framesets that are to be saved, nothing else
ObjectJson(t) ==
  [t EXCEPT !.json = [k \in {k \in DOMAIN t.elements.framesets : t.elements.framesets[k].storage # "no"} |->
                        t.elements.framesets[k]]]

\* ObjectDescriptor::fromJson: each frameset is added, or the one that is there
\* found, and gets what the text has; without room the reference throws
ObjectFromJson(t) ==
  LET start == [t EXCEPT !.before = t.elements, !.loaded = TRUE]
      load[left \in SUBSET DOMAIN t.json] ==
        IF left = {} THEN start
        ELSE LET key == CHOOSE k \in left : TRUE
                 done == load[left \ {key}]
                 ref == Emplace(done, "framesets", key, [nr |-> done.made + 1, storage |-> "short", frames |-> {}])
             IN  CASE done.thrown -> done
                   [] ~done.thrown /\ ref.refs.framesets.nr = 0 -> [ref EXCEPT !.thrown = TRUE]
                   [] OTHER -> [ref EXCEPT
                        !.elements.framesets[key].storage = t.json[key].storage,
                        !.elements.framesets[key].frames = @ \cup t.json[key].frames]
  IN  load[DOMAIN t.json]

TreeSteps(t) ==
  IF t.thrown \/ t.steps = TreeCnt THEN {}
  ELSE {[n EXCEPT !.steps = @ + 1] :
          n \in (UNION {AddSet([t EXCEPT !.loaded = FALSE], g, name) : g \in Groups, name \in Names})
                \cup {MoveSet([t EXCEPT !.loaded = FALSE], name) : name \in IF t.own = {} THEN {} ELSE Names}
                \cup {FindSet([t EXCEPT !.loaded = FALSE], g, name) : g \in Groups, name \in Names}
                \cup {RemoveSet([t EXCEPT !.loaded = FALSE], g, name) : g \in Groups, name \in Names}
                \cup AddFrame([t EXCEPT !.loaded = FALSE], "f")
                \cup {ObjectJson([t EXCEPT !.loaded = FALSE])}
                \cup (IF t.json = <<>> THEN {} ELSE {ObjectFromJson(t)})}

(* A reference stays true to its name: until somebody removes its element, *)
(* the object has that very element under that name, however often the     *)
(* name is added again.  Loading a text adds to the object what the text   *)
(* has, into framesets that are there as well, and takes nothing away; it  *)
(* only stops half way, and throws, when the memory is full.               *)
ReferencesKept(t) ==
  /\ \A g \in Groups :
       LET ref == t.refs[g]
           key == ObjectID(ref.name)
       IN  ref.nr # 0 /\ ref.nr \notin t.gone =>
             key \in DOMAIN t.elements[g] /\ t.elements[g][key].nr = ref.nr
  /\ t.loaded =>
       /\ t.elements.framedatasets = t.before.framedatasets
       /\ \A k \in DOMAIN t.before.framesets :
            /\ k \in DOMAIN t.elements.framesets
            /\ t.elements.framesets[k].nr = t.before.framesets[k].nr
            /\ t.before.framesets[k].frames \subseteq t.elements.framesets[k].frames
       /\ t.thrown \/ \A k \in DOMAIN t.json :
            /\ k \in DOMAIN t.elements.framesets
            /\ t.elements.framesets[k].storage # "no"
            /\ t.json[k].frames \subseteq t.elements.framesets[k].frames
       /\ t.thrown => Used(t) = RoomCnt
=============================================================================
