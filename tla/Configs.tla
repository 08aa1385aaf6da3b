------------------------------ MODULE Configs ------------------------------
(***************************************************************************)
(* Saving and loading a configuration: the elements and their factories    *)
(* (libcommon/config_factory.h), the pipelines with their nodes            *)
(* (PipelineConfig.cpp) and the Configuration that keeps them              *)
(* (configurator.cpp).  A JSON object is a function of its keys; of an     *)
(* element only a pipeline has a body that is looked at.                   *)
(***************************************************************************)
EXTENDS Integers, Sequences, FiniteSets
LOCAL INSTANCE TLC
LOCAL INSTANCE FiniteSetsExt

Meta     == [type |-> "meta_info", name |-> "", nodes |-> <<>>]
Server   == [type |-> "server_settings", name |-> "", nodes |-> <<>>]
Pipeline(name, nodes) == [type |-> "pipeline_settings", name |-> name, nodes |-> nodes]

\* keys that ToJson writes into the body of each element
Reserved == {"serialized_as", "object_name"}

\* keys of a JSON object are in the order of the alphabet
Alphabet == <<"a", "b", "default", "meta_info", "object_name", "pipeline_settings",
              "serialized_as", "server_settings">>

InOrder(keys) == SelectSeq(Alphabet, LAMBDA k : k \in keys)

Put(json, key, value) ==
  [k \in DOMAIN json \cup {key} |-> IF k = key THEN value ELSE json[k]]

ById(nodes) == SortSeq(nodes, LAMBDA a, b : a.id < b.id)

\* PipelineConfig::AddNode: an id that is taken throws
AddNode(nodes, node) ==
  IF \E i \in DOMAIN nodes : nodes[i].id = node.id THEN nodes ELSE Append(nodes, node)

\* PipelineConfig::toJson: by their ids, a later node takes the key of another
toJson(nodes) ==
  LET sorted == ById(nodes)
      json[n \in 0..Len(sorted)] ==
        IF n = 0 THEN <<>> ELSE Put(json[n - 1], sorted[n].name, sorted[n])
  IN  json[Len(sorted)]

\* PipelineConfig::fromJson: the nodes, if their ids seem to be 0, 1, .. and
\* the last one has no next
fromJson(body) ==
  LET nodes == ById([i \in DOMAIN InOrder(DOMAIN body) |-> body[InOrder(DOMAIN body)[i]]])
      last  == nodes[Len(nodes)]
  IN  IF nodes # <<>> /\ (nodes[1].id # 0 \/ last.id + 1 # Len(nodes) \/ last.next # -1)
      THEN [ok |-> FALSE] ELSE [ok |-> TRUE, nodes |-> nodes]

\* Fabrics::ToJson
ToJson(json, e) ==
  LET body == [k \in DOMAIN toJson(e.nodes) \ Reserved |-> toJson(e.nodes)[k]]
  IN  Put(json, IF e.name = "" THEN e.type ELSE e.name,
          [serialized_as |-> e.type, object_name |-> IF e.name = "" THEN "default" ELSE e.name,
           body |-> body])

\* Configuration::Save: the meta information, then the elements as they come
Save(elements) ==
  LET json[n \in 0..Len(elements)] ==
        IF n = 0 THEN ToJson(<<>>, Meta) ELSE ToJson(json[n - 1], elements[n])
  IN  json[Len(elements)]

\* the name an element is kept under
KeptName(json, key) ==
  IF key = json[key].serialized_as \/ json[key].object_name = "default" THEN "" ELSE key

\* Configuration(path) with parseConfig and CreateFromElementByTypeName: the
\* elements but for the meta information, the first one of each type and name
Load(json) ==
  LET keys   == InOrder({k \in DOMAIN json : json[k].serialized_as # "meta_info"})
      bodies == [i \in DOMAIN keys |-> fromJson(json[keys[i]].body)]
      made(i) == [type |-> json[keys[i]].serialized_as, name |-> KeptName(json, keys[i]),
                  nodes |-> bodies[i].nodes]
      first(i) == \A j \in 1..i - 1 :
                    <<json[keys[j]].serialized_as, KeptName(json, keys[j])>>
                      # <<json[keys[i]].serialized_as, KeptName(json, keys[i])>>
  IN  IF \/ "meta_info" \notin DOMAIN json \/ json["meta_info"].serialized_as # "meta_info"
         \/ \E i \in DOMAIN keys : ~bodies[i].ok
      THEN [ok |-> FALSE]
      ELSE [ok |-> TRUE, elements |-> {made(i) : i \in {i \in DOMAIN keys : first(i)}}]

\* PipelineNodeConfig::operator==: every parameter is one of the other's
SameNode(a, b) ==
  /\ [a EXCEPT !.params = <<>>] = [b EXCEPT !.params = <<>>]
  /\ Len(a.params) = Len(b.params)
  /\ \A i \in DOMAIN a.params : \E j \in DOMAIN b.params : a.params[i] = b.params[j]

\* PipelineConfig::operator==
SamePipeline(a, b) ==
  /\ a.name = b.name /\ Len(a.nodes) = Len(b.nodes)
  /\ \A i \in DOMAIN a.nodes :
       LET at == {j \in DOMAIN b.nodes : b.nodes[j].id = a.nodes[i].id}
       IN  at # {} /\ SameNode(b.nodes[Min(at)], a.nodes[i])

-----------------------------------------------------------------------------
(* Names that no two elements share, and that are not read as another's.   *)
ProperNames(elements) ==
  LET key(e) == IF e.name = "" THEN e.type ELSE e.name
      all    == <<Meta>> \o elements
  IN  /\ \A i, j \in DOMAIN all : key(all[i]) = key(all[j]) => i = j
      /\ \A i \in DOMAIN all : all[i].name \notin {all[i].type, "default"}

ProperNodes(nodes) ==
  LET sorted == ById(nodes)
  IN  /\ \A i \in DOMAIN sorted : sorted[i].id = i - 1 /\ sorted[i].name \notin Reserved
      /\ \A i, j \in DOMAIN sorted : sorted[i].name = sorted[j].name => i = j
      /\ nodes # <<>> => sorted[Len(sorted)].next = -1

(* What is saved with proper names is loaded as it was, and so it is once  *)
(* more from the file that is then saved, in whatever order its elements   *)
(* come.  A pipeline that is loaded at all has every node it was saved     *)
(* with, but for nodes of a reserved name and nodes of a negative id: a    *)
(* node whose key another one takes leaves a gap that is refused, unless   *)
(* its id is below 0, as that of a node made of its name alone.  Such a    *)
(* node is lost silently when its name is used again and has the whole     *)
(* pipeline refused when it is not.                                        *)
ConfigKept(elements) ==
  LET loaded == Load(Save(elements))
      sorted(e) == [e EXCEPT !.nodes = ById(@)]
      kept(e) == SelectSeq(e.nodes, LAMBDA n : n.name \notin Reserved /\ n.id >= 0)
  IN  /\ ProperNames(elements) /\ (\A i \in DOMAIN elements : ProperNodes(elements[i].nodes)) =>
           /\ loaded.ok /\ loaded.elements = {sorted(elements[i]) : i \in DOMAIN elements}
           /\ \A order \in [1..Cardinality(loaded.elements) -> loaded.elements] :
                {order[i] : i \in DOMAIN order} = loaded.elements => Load(Save(order)) = loaded
      /\ loaded.ok => \A e \in loaded.elements : \E i \in DOMAIN elements :
           /\ elements[i].type = e.type /\ e.name \in {elements[i].name, ""}
           /\ SamePipeline([e EXCEPT !.name = ""],
                           [sorted(elements[i]) EXCEPT !.name = "", !.nodes = ById(kept(elements[i]))])
           /\ \A n \in {elements[i].nodes[k] : k \in DOMAIN elements[i].nodes} :
                n.id < 0 /\ n.name \notin Reserved =>
                  \E k \in DOMAIN e.nodes : e.nodes[k].name = n.name
=============================================================================
