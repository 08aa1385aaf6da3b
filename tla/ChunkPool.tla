------------------------------ MODULE ChunkPool -----------------------------
(***************************************************************************)
(* The ring of free data chunks of a pipeline: pipeline_server.c creates   *)
(* it full, source_thread is the only one to pop it, and the process       *)
(* stages and the finalization push the chunks they are done with.  What   *)
(* carries a chunk from the source to the thread that pushes it is         *)
(* Pipeline; here it is in the set underWay meanwhile.                     *)
(***************************************************************************)
EXTENDS RingBuffer, Sequences, FiniteSets, Functions

CONSTANT Pushers    \* the threads that give chunks back

ASSUME ChunksAssumption == Entries = Slots   \* a chunk's number is its offset
ASSUME PushersAssumption == IsFiniteSet(Pushers)

Nobody == -1

VARIABLES
  source,     \* where the popping thread is in ring_buffer_pop
  underWay,   \* chunks on their way through the pipeline
  pusher,     \* where each pushing thread is in ring_buffer_push
  hand        \* the chunk each pushing thread gives back

vars == <<ringVars, source, underWay, pusher, hand>>

\* pipeline_thread creates the ring full and writes the chunks' offsets to it
Init ==
  /\ CreateFull([s \in Slots |-> s])
  /\ source = "out"
  /\ underWay = {}
  /\ pusher = [p \in Pushers |-> "out"]
  /\ hand = [p \in Pushers |-> Nobody]

SourceWait ==
  /\ source = "out" /\ source' = "locked"
  /\ PopWait
  /\ UNCHANGED <<underWay, pusher, hand>>

SourceTake ==
  /\ source = "locked" /\ source' = "out"
  /\ \E chunk \in Entries : PopLocked(chunk) /\ underWay' = underWay \cup {chunk}
  /\ UNCHANGED <<pusher, hand>>

\* the pipeline brings a chunk to thread p, which is to give it back
Arrive(p) ==
  /\ pusher[p] = "out" /\ pusher' = [pusher EXCEPT ![p] = "locked"]
  /\ \E chunk \in underWay :
       /\ underWay' = underWay \ {chunk}
       /\ hand' = [hand EXCEPT ![p] = chunk]
  /\ UNCHANGED <<ringVars, source>>

Give(p) ==
  /\ pusher[p] = "locked" /\ pusher' = [pusher EXCEPT ![p] = "post"]
  /\ PushLocked(hand[p])
  /\ hand' = [hand EXCEPT ![p] = Nobody]
  /\ UNCHANGED <<source, underWay>>

Announce(p) ==
  /\ pusher[p] = "post" /\ pusher' = [pusher EXCEPT ![p] = "out"]
  /\ PushPost
  /\ UNCHANGED <<source, underWay, hand>>

Pusher(p) == Give(p) \/ Announce(p)

Next ==
  \/ SourceWait \/ SourceTake
  \/ \E p \in Pushers : Arrive(p) \/ Pusher(p)

Spec == Init /\ [][Next]_vars

\* threads inside the ring's functions are run; chunks need not arrive
FairSpec ==
  /\ Spec
  /\ WF_vars(SourceWait \/ SourceTake)
  /\ \A p \in Pushers : WF_vars(Pusher(p))

-----------------------------------------------------------------------------

Held == {hand[p] : p \in Pushers} \ {Nobody}

\* the chunks in the ring, next to pop first
Free == [k \in 1..used |-> buffer[Wrap(start + k - 1)]]

(* The structs and the threads' places keep their types.                   *)
TypeOK ==
  /\ RingTypeOK
  /\ source \in {"out", "locked"}
  /\ underWay \in SUBSET Entries
  /\ pusher \in [Pushers -> {"out", "locked", "post"}]
  /\ hand \in [Pushers -> Entries \cup {Nobody}]

(* Every chunk is in the ring once, or under way, or in one thread's hand; *)
(* so the ring is never pushed beyond its size: "no overflow check, should *)
(* not happen" (ring_buffer.c:54).                                         *)
EveryChunkOnce ==
  /\ used \in 0..MaxCnt
  /\ IsInjective(Free)
  /\ Range(Free) \cap (underWay \cup Held) = {}
  /\ underWay \cap Held = {}
  /\ \A p, q \in Pushers : p # q /\ hand[p] = hand[q] => hand[p] = Nobody
  /\ Range(Free) \cup underWay \cup Held = Entries

(* The semaphore counts the entries in the ring, but for those a popping   *)
(* thread was promised and those not announced yet: who gets through       *)
(* sem_wait finds an entry under the lock.                                 *)
SemCountsEntries ==
  LET promised    == IF source = "locked" THEN 1 ELSE 0
      unannounced == {p \in Pushers : pusher[p] = "post"}
  IN  sem + promised + Cardinality(unannounced) = used

(* A source that waits for a chunk gets one when the ring has one: no      *)
(* push is left unannounced.                                               *)
WaitingSourceServed == (used > 0 /\ source = "out") ~> (source = "locked")

List == INSTANCE FreeList WITH Chunks <- Entries, free <- Free

(* With its two-step pop and push and its wrapping positions the ring is   *)
(* the list of free chunks that Pipeline takes it for.                     *)
ImplementsFreeList == List!Spec
=============================================================================
