------------------------------ MODULE Modules ------------------------------
(***************************************************************************)
(* From a configuration file to the chain of modules: the reader of the    *)
(* file (dclprocessor/pipeline/config/src/config.cpp), the description of  *)
(* the pipeline (pipeline_description.c), its modules (pipeline_module.c)  *)
(* and the map of its shared memory (shared_memory_map.h).  A file is the  *)
(* sequence of its entries [id, next, type, name, params].                 *)
(***************************************************************************)
EXTENDS Integers, Sequences, FiniteSets
LOCAL INSTANCE FiniteSetsExt

CONSTANT Align   \* 256, what a size in the segment is rounded to

Null == -100     \* next_id is null

Refused == [result |-> "refused"]   \* -1
Faulted == [result |-> "faulted"]   \* reads in front of the parameters

\* the entries that a loop over the file would refuse on the way
WrongType(e) == (e.next # Null) = (e.type = "LAST")

SecondOf(file, Is(_), i) == Is(file[i]) /\ \E j \in 1..i - 1 : Is(file[j])

BadEntry(file, i) ==
  \/ SecondOf(file, LAMBDA e : ~e.name, i)
  \/ WrongType(file[i])
  \/ SecondOf(file, LAMBDA e : e.type = "FIRST", i)

\* an entry without name takes its first parameter from in front of the vector
ReadsInFront(file, i) == ~file[i].name /\ file[i].params

\* what the loop makes of an entry
ModuleOf(e) ==
  [id |-> e.id, next |-> IF e.next = Null THEN -1 ELSE e.next,
   type |-> IF e.next = Null THEN "LAST" ELSE IF e.type = "FIRST" THEN "FIRST" ELSE "MIDDLE"]

\* idx_map[id]: the last module of this id; an unknown id gives 0
IdxOf(modules, id) ==
  LET at == {i \in DOMAIN modules : modules[i].id = id}
  IN  IF at = {} THEN 1 ELSE Max(at)

\* variant: a module that is never started is not looked for
DfsCheckLoopOnly(modules, first) ==
  LET step[k \in 0..Len(modules)] ==
        IF k = 0 THEN first ELSE IdxOf(modules, modules[step[k-1]].next)
      ends == {k \in 0..Len(modules) : modules[step[k]].next = -1}
  IN  /\ ends # {}
      /\ \A j, k \in 0..Min(ends) : step[j] = step[k] => j = k

\* dfs_check: from the first module to one without next, none twice, none left
dfs_check(modules, first) ==
  LET step[k \in 0..Len(modules)] ==
        IF k = 0 THEN first ELSE IdxOf(modules, modules[step[k-1]].next)
      ends == {k \in 0..Len(modules) : modules[step[k]].next = -1}
  IN  /\ ends # {}
      /\ \A j, k \in 0..Min(ends) : step[j] = step[k] => j = k
      /\ {step[k] : k \in 0..Min(ends)} = DOMAIN modules

read_modules_configuration(file) ==
  LET bad     == {i \in DOMAIN file : BadEntry(file, i)}
      upto    == IF bad = {} THEN Len(file) ELSE Min(bad)
      infront == {i \in 1..upto : ReadsInFront(file, i) /\ ~SecondOf(file, LAMBDA e : ~e.name, i)}
      modules == [i \in DOMAIN file |-> ModuleOf(file[i])]
      firsts  == {i \in DOMAIN modules : modules[i].type = "FIRST"}
  IN  CASE infront # {} -> Faulted
        [] infront = {} /\ (bad # {} \/ firsts = {}) -> Refused
        [] OTHER -> IF dfs_check(modules, Min(firsts))
                    THEN [result |-> "read", modules |-> modules] ELSE Refused

\* read_pipeline_configuration: the numbers are constants of the code.  A
\* module comes from malloc and nobody sets its mode but for one with a next:
\* left is what the memory of the last one has there, taken as a mode.
Leftovers == {"internal", "external"}

read_pipeline_configuration(file, left) ==
  LET read == read_modules_configuration(file)
  IN  IF read.result # "read" THEN read
      ELSE [result |-> "read", modules_cnt |-> Len(file), proc_cnt |-> Len(file) + 1,
            mdescs |-> [i \in DOMAIN file |->
              [id |-> read.modules[i].id, next |-> read.modules[i].next,
               type |-> read.modules[i].type,
               mode |-> IF read.modules[i].next = -1 THEN left ELSE "external"]]]

ThreadOf(mdesc) ==
  CASE mdesc.type = "FIRST" /\ mdesc.mode = "external" -> "source_thread"
    [] mdesc.type = "FIRST" /\ mdesc.mode # "external" -> "initial_thread"
    [] mdesc.type = "LAST" -> "finalization_thread"
    [] mdesc.type = "MIDDLE" -> "process_thread"

\* pipeline_module_get: the first of the list with this id, 0 for none
pipeline_module_get(list, id) ==
  LET at == {i \in DOMAIN list : list[i].id = id}
  IN  IF at = {} THEN 0 ELSE Min(at)

\* pipeline_module_add for each description, then pipeline_modules_update,
\* which refuses a second module that has nobody behind it
ModulesList(desc) ==
  LET list  == [i \in DOMAIN desc.mdescs |->
                  [id |-> desc.mdescs[i].id, thread |-> ThreadOf(desc.mdescs[i]),
                   next |-> pipeline_module_get(desc.mdescs, desc.mdescs[i].next)]]
  IN  [ok |-> Cardinality({i \in DOMAIN list : list[i].next = 0}) <= 1, modules |-> list]

\* MEMORY_ALIGN, and the offsets of the map
AlignUp(size) == ((size + Align - 1) \div Align) * Align

memory_get_processoffset(map) == AlignUp(map.header)
memory_get_dataoffset(map) == AlignUp(map.header) + AlignUp(map.process_size * map.process_cnt)
memory_get_size(map) == memory_get_dataoffset(map) + AlignUp(map.data_size * map.data_cnt)

-----------------------------------------------------------------------------
(* The modules in the order of the chain.                                  *)
Chain(list) ==
  LET starts == {i \in DOMAIN list : list[i].thread = "source_thread"}
      step[k \in 1..Len(list)] ==
        IF k = 1 THEN CHOOSE i \in starts : TRUE
        ELSE IF step[k-1] = 0 THEN 0 ELSE list[step[k-1]].next
  IN  IF starts = {} THEN <<>> ELSE step

(* Nobody of the file's modules has an id twice or the -1 of "no next".    *)
OwnIds(file) ==
  /\ \A i \in DOMAIN file : file[i].id # -1
  /\ \A i, j \in DOMAIN file : file[i].id = file[j].id => i = j

(* A file that is read and whose list is accepted gives one chain: the     *)
(* source, every other module once, behind the last one nobody, and the    *)
(* last one alone has no next: finalization_thread runs it (process_thread *)
(* with next_id -1 instead of null).  The process table has a place for    *)
(* all of them.  What memory has left in the mode of the last one changes  *)
(* nothing of it; a file of one FIRST with next_id -1 may get either       *)
(* thread.  Nothing of that holds with an id used twice, which no check    *)
(* looks for: dfs_check follows the last module of an id, the list the     *)
(* first one.                                                              *)
OneChain(file, left) ==
  LET desc == read_pipeline_configuration(file, left)
      list == ModulesList(desc)
      chain == Chain(list.modules)
      last  == chain[Len(file)]
  IN  desc.result = "read" /\ OwnIds(file) /\ Len(file) > 1 /\ list.ok =>
        /\ {chain[k] : k \in DOMAIN chain} = DOMAIN file
        /\ \A i \in DOMAIN file : (list.modules[i].next = 0) = (i = last)
        /\ list.modules[last].thread =
             (IF file[last].next = Null THEN "finalization_thread" ELSE "process_thread")
        /\ \A i \in DOMAIN file : (list.modules[i].thread = "source_thread") = (i = chain[1])
        /\ \A i \in DOMAIN file : list.modules[i].thread # "initial_thread"
        /\ desc.proc_cnt > Len(file)

(* A chain is read whatever the order of its modules in the file.          *)
ChainsAreRead(file, left) ==
  LET desc == read_pipeline_configuration(file, left)
      order == {s \in [1..Len(file) -> DOMAIN file] : \A j, k \in DOMAIN s : s[j] = s[k] => j = k}
      named == \A i \in DOMAIN file : file[i].name
      isChain(s) ==
        /\ file[s[1]].type = "FIRST"
        /\ \A k \in 2..Len(file) - 1 : file[s[k]].type = "MIDDLE"
        /\ \A k \in 1..Len(file) - 1 : file[s[k]].next = file[s[k+1]].id
        /\ file[s[Len(file)]].type = "LAST" /\ file[s[Len(file)]].next = Null
  IN  OwnIds(file) /\ named /\ Len(file) > 1 /\ (\E s \in order : isChain(s)) =>
        desc.result = "read" /\ ModulesList(desc).ok

(* Process table and chunks lie behind the map, each entry in its place.   *)
SegmentHolds(map) ==
  /\ memory_get_processoffset(map) >= map.header
  /\ memory_get_processoffset(map) + map.process_size * map.process_cnt <= memory_get_dataoffset(map)
  /\ memory_get_dataoffset(map) + map.data_size * map.data_cnt <= memory_get_size(map)
=============================================================================
