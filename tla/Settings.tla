------------------------------ MODULE Settings ------------------------------
(***************************************************************************)
(* The elements of a configuration in themselves (libcommon): the server   *)
(* settings, which C code reads through pointers into their strings        *)
(* (ServerSettings.cpp), the nodes of a pipeline in JSON                   *)
(* (PipelineConfig.cpp), and the factory that several threads may ask for  *)
(* elements (config_factory.h).  Whole configurations are in Configs.      *)
(***************************************************************************)
EXTENDS Integers, Sequences, FiniteSets

CONSTANT SettingsCnt   \* bound: operations on the settings

With(f, key, value) == [k \in DOMAIN f \cup {key} |-> IF k = key THEN value ELSE f[k]]

-----------------------------------------------------------------------------
(* Server settings: one of the strings and one of the numbers stand for    *)
(* all.  A short string is kept in its object, a long one on the heap;     *)
(* memory is a function of the heap's buffers in use and the objects.      *)
Settings == {"x", "y"}
Long(value) == value \in {"long1", "long2"}
Values == {"short", "long1", "long2"}
Heap == {"h1", "h2", "h3"}

\* view: what server_settings, the C base, points to and copies; stale: moved
\* from since the view was last made
NewSettings ==
  [mem |-> [o \in Settings |-> "none"], steps |-> 0,
   obj |-> [o \in Settings |-> [live |-> FALSE, value |-> "none", num |-> "none", buf |-> o,
                                view |-> [ptr |-> o, num |-> "none"], stale |-> FALSE]]]

replicate(s, o) ==
  [s EXCEPT !.obj[o].view = [ptr |-> s.obj[o].buf, num |-> s.obj[o].num], !.obj[o].stale = FALSE]

\* std::string's assignment: into the buffer that is there, or into a new one
Assign(s, o, value) ==
  LET into(t, buf) == [t EXCEPT !.mem = With(@, buf, value), !.obj[o].value = value, !.obj[o].buf = buf]
      old == s.obj[o].buf
      fresh == CHOOSE b \in Heap : b \notin DOMAIN s.mem
      freed == [s EXCEPT !.mem = [b \in (DOMAIN @ \ {old}) \cup {o} |-> IF b = o THEN "garbage" ELSE @[b]]]
  IN  (IF Long(value) THEN {into(freed, fresh)} ELSE {})
        \cup (IF Long(value) /\ old = o THEN {} ELSE {into(s, old)})

\* std::string's swap: heap buffers change hands, kept ones their contents
SwapStrings(s, o, p) ==
  LET a == s.obj[o]
      b == s.obj[p]
      own(q, buf) == IF buf \in Settings THEN q ELSE buf
      kept(q, r) == IF r.buf \in Settings THEN r.value ELSE "garbage"
  IN  [s EXCEPT !.obj[o].value = b.value, !.obj[o].buf = own(o, b.buf),
                !.obj[p].value = a.value, !.obj[p].buf = own(p, a.buf),
                !.mem = [m \in DOMAIN @ |-> IF m = o THEN kept(o, b) ELSE IF m = p THEN kept(p, a) ELSE @[m]]]

\* the constructors and fromJson: values from outside, then the view
Load(s, o, value, num) ==
  {replicate([t EXCEPT !.obj[o].live = TRUE, !.obj[o].num = num], o) : t \in Assign(s, o, value)}

\* copyFrom, by the constructor or the assignment
copyFrom(s, o, p) == Load(s, o, s.obj[p].value, s.obj[p].num)

\* moveFrom: all is swapped, but only one view is made anew; a constructor
\* swaps with members that are not initialised
moveFrom(s, o, p) ==
  LET t == [SwapStrings(s, o, p) EXCEPT
              !.obj[o].num = s.obj[p].num, !.obj[o].live = TRUE,
              !.obj[p].num = IF s.obj[o].live THEN s.obj[o].num ELSE "any", !.obj[p].stale = TRUE]
  IN  {replicate(t, o)}

Destroy(s, o) ==
  [s EXCEPT !.mem = [m \in (DOMAIN @ \ {s.obj[o].buf}) \cup {o} |-> IF m = o THEN "garbage" ELSE @[m]],
            !.obj[o] = [NewSettings.obj[o] EXCEPT !.buf = o]]

SettingsSteps(s) ==
  IF s.steps = SettingsCnt THEN {}
  ELSE {[t EXCEPT !.steps = @ + 1] :
          t \in UNION {Load(s, o, v, n) : o \in Settings, v \in Values, n \in {"p", "q"}}
                \cup UNION {copyFrom(s, o, p) \cup (IF o = p THEN {} ELSE moveFrom(s, o, p)) :
                              o \in Settings, p \in {p \in Settings : s.obj[p].live}}
                \cup {Destroy(s, o) : o \in {o \in Settings : s.obj[o].live}}}

(* What C code reads through the settings is what the settings say, until  *)
(* they are moved from: then their view shows the settings that took their *)
(* value, or their own old storage, and goes on doing so until they get a  *)
(* value again.  No two settings ever share a buffer.                      *)
ViewsTrue(s) ==
  \A o \in {o \in Settings : s.obj[o].live} :
    /\ s.obj[o].buf \in DOMAIN s.mem /\ s.mem[s.obj[o].buf] = s.obj[o].value
    /\ ~s.obj[o].stale =>
         s.obj[o].view = [ptr |-> s.obj[o].buf, num |-> s.obj[o].num]
    /\ \A p \in Settings \ {o} : s.obj[p].live => s.obj[p].buf # s.obj[o].buf
    /\ s.obj[o].view.ptr \notin DOMAIN s.mem => s.obj[o].stale
    /\ s.obj[o].stale /\ s.obj[o].view.ptr \in Settings => s.obj[o].view.ptr = o

-----------------------------------------------------------------------------
(* Nodes in JSON.                                                          *)
NodeTypes == {"FIRST", "LAST", "MIDDLE", "NO_BLOCK"}

\* ForwardMap and BackwardMap: name and type, one from each entry of the list
ForwardMap  == [name \in NodeTypes |-> name]
BackwardMap == [type \in NodeTypes |-> CHOOSE name \in NodeTypes : ForwardMap[name] = type]

\* PipelineNodeConfig::toJson, under the node's name; fromJson of it, which
\* throws for whatever is not there or of another kind
NodeJson(node) ==
  [id |-> node.id, name |-> node.path, next_id |-> node.next, type |-> BackwardMap[node.type],
   parameters |-> node.params]

NodeFromJson(key, json) ==
  LET asked == {"id", "name", "type", "next_id", "parameters"}
  IN  IF ~(asked \subseteq DOMAIN json) \/ json.type \notin DOMAIN ForwardMap \/ json.parameters = "no array"
      THEN [ok |-> FALSE]
      ELSE [ok |-> TRUE, node |-> [key |-> key, id |-> json.id, path |-> json.name, next |-> json.next_id,
                                   type |-> ForwardMap[json.type], params |-> json.parameters]]

(* A node is loaded as it was saved; a text that lacks a member, or has a  *)
(* type of no node, gives none.                                            *)
NodesKept ==
  \A type \in NodeTypes, id \in {-1, 0}, params \in {<<>>, <<"p">>} :
    LET node == [key |-> "k", id |-> id, path |-> "file", next |-> -1, type |-> type, params |-> params]
    IN  /\ NodeFromJson("k", NodeJson(node)) = [ok |-> TRUE, node |-> node]
        /\ \A key \in DOMAIN NodeJson(node) :
             ~NodeFromJson("k", [k \in DOMAIN NodeJson(node) \ {key} |-> NodeJson(node)[k]]).ok

-----------------------------------------------------------------------------
(* The factory.                                                            *)
Types == <<"meta_info", "server_settings", "pipeline_settings", "fake_camera_config">>
Threads == {"t1", "t2"}

\* one text for each thread: its tag, its key, and whether its body is good
NewFactory(texts) ==
  [lock |-> "free", blank |-> [i \in DOMAIN Types |-> [tag |-> "new"]], text |-> texts,
   pc |-> [t \in Threads |-> "find"], made |-> [t \in Threads |-> [name |-> "none"]]]

\* MakeTL::apply: the index of the first type with that tag
TypeIndex(tag) == {i \in DOMAIN Types : Types[i] = tag /\ \A j \in 1..i - 1 : Types[j] # tag}

\* ConfigFabricEntry with setName: the type's blank gets the new element, which
\* takes its key for a name if its type has names
Creator(f, t, i) == [f EXCEPT !.blank[i] = f.text[t]]
Named(element, i) == [element |-> element, name |-> IF Types[i] = "pipeline_settings" THEN element.key ELSE ""]

\* Fabrics::Create for thread t: the creator of the i-th type fills its blank,
\* which is copied, both under one lock
Create(f, t, i) ==
  LET to(pc) == [f EXCEPT !.pc[t] = pc]
  IN  CASE f.pc[t] = "lock" -> IF f.lock = "free" THEN {[to("fill") EXCEPT !.lock = t]} ELSE {}
        [] f.pc[t] = "fill" -> {IF f.text[t].good THEN Creator(to("copy"), t, i)
                                ELSE [to("bad") EXCEPT !.lock = "free"]}
        [] f.pc[t] = "copy" -> {[to("name") EXCEPT !.lock = "free", !.made[t] = f.blank[i]]}

\* Fabrics::CreateFromElementByTypeName: an element of the first type with that
\* tag, named in the copy
CreateFromElementByTypeName(f, t) ==
  LET index == TypeIndex(f.text[t].tag)
      i == CHOOSE i \in index : TRUE
  IN  CASE f.pc[t] = "find" -> {[f EXCEPT !.pc[t] = IF index = {} THEN "absent" ELSE "lock"]}
        [] f.pc[t] \in {"lock", "fill", "copy"} -> Create(f, t, i)
        [] f.pc[t] = "name" -> {[f EXCEPT !.pc[t] = "done", !.made[t] = Named(@, i)]}
        [] OTHER -> {}

FactorySteps(f) == UNION {CreateFromElementByTypeName(f, t) : t \in Threads}

(* Every thread gets the element of its own text, though all of a type are *)
(* made in the same blank, and one that fails leaves the factory usable.   *)
OwnElements(f) ==
  /\ \A t \in Threads :
       /\ f.pc[t] = "done" => /\ f.made[t].element = f.text[t] /\ f.text[t].good
                              /\ f.made[t].name \in {"", f.text[t].key}
       /\ f.pc[t] = "absent" => f.text[t].tag \notin {Types[i] : i \in DOMAIN Types}
  /\ (\A t \in Threads : f.pc[t] \in {"done", "absent", "bad"}) => f.lock = "free"
=============================================================================
