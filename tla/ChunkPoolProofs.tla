--------------------------- MODULE ChunkPoolProofs --------------------------
(***************************************************************************)
(* The ring of free chunks, of any size and with any number of threads     *)
(* that give chunks back, is the list FreeList.                            *)
(***************************************************************************)
EXTENDS ChunkPool, FiniteSetTheorems, SequenceTheorems, TLAPS

(* A thread has a chunk in its hand just while it waits for the ring.      *)
HandInPlace == \A p \in Pushers : (hand[p] # Nobody) <=> (pusher[p] = "locked")

(* The threads that have pushed and not posted.                            *)
Unannounced == {p \in Pushers : pusher[p] = "post"}

(* The inductive invariant.                                                *)
IInv == TypeOK /\ HandInPlace /\ EveryChunkOnce /\ SemCountsEntries

USE MaxCntAssumption, ChunksAssumption

(* No chunk has the number that stands for an empty hand.                  *)
LEMMA NobodyIsNoChunk == Nobody \notin Entries
  BY DEF Nobody, Slots

(* A position of the list is a slot of the ring.                           *)
LEMMA WrapInSlots ==
  ASSUME NEW s \in Slots, NEW k \in 0..MaxCnt PROVE Wrap(s + k) \in Slots
  BY DEF Wrap, Slots

(* Positions wrap only once: a step after a wrapped one is the wrapped     *)
(* sum, and different places of the list are different slots.              *)
LEMMA WrapSums ==
  ASSUME NEW s \in Slots, NEW k \in 0..MaxCnt - 1
  PROVE  /\ Wrap(Wrap(s + 1) + k) = Wrap(s + k + 1)
         /\ \A l \in 0..MaxCnt - 1 : Wrap(s + k) = Wrap(s + l) => k = l
  BY DEF Wrap, Slots

(* What the list is, place by place.                                       *)
LEMMA FreeFacts ==
  ASSUME TypeOK, used \in 0..MaxCnt
  PROVE  /\ Free \in Seq(Entries) /\ Len(Free) = used /\ DOMAIN Free = 1..used
         /\ \A k \in 1..used : Free[k] = buffer[Wrap(start + k - 1)] /\ Free[k] \in Entries
         /\ Free \in [1..used -> Entries]
  <1>1. \A k \in 1..used : Wrap(start + k - 1) \in Slots
    <2> TAKE k \in 1..used
    <2>1. k - 1 \in 0..MaxCnt /\ start \in Slots /\ start + (k - 1) = start + k - 1
      BY DEF TypeOK, RingTypeOK, Slots
    <2> QED BY <2>1, WrapInSlots
  <1>2. \A k \in 1..used : buffer[Wrap(start + k - 1)] \in Entries
    BY <1>1 DEF TypeOK, RingTypeOK
  <1>3. Free \in [1..used -> Entries]
    BY <1>2 DEF Free
  <1>4. Free \in Seq(Entries) /\ Len(Free) = used
    BY <1>3
  <1> QED BY <1>2, <1>3, <1>4 DEF Free

(* Steps that leave the ring's fields alone leave the list alone.          *)
LEMMA KeptFree == UNCHANGED fields => UNCHANGED Free
  BY DEF fields, Free, Wrap

(* The pop takes the front of the list.                                    *)
LEMMA PopIsTail ==
  ASSUME TypeOK, used \in 1..MaxCnt, NEW chunk \in Entries, PopLocked(chunk)
  PROVE  /\ Free' = Tail(Free) /\ chunk = Free[1]
         /\ used' = used - 1 /\ start' \in Slots
         /\ \A k \in 1..used' : Free'[k] = Free[k + 1]
  <1>1. start \in Slots /\ used \in Nat /\ used' = used - 1 /\ start' = Wrap(start + 1)
    BY DEF TypeOK, RingTypeOK, PopLocked
  <1>2. start' \in Slots
    BY <1>1, WrapInSlots
  <1>3. chunk = Free[1]
    BY <1>1 DEF PopLocked, Free, Wrap, Slots
  <1>4. \A k \in 1..used' : Free'[k] = Free[k + 1]
    <2> TAKE k \in 1..used'
    <2>1. k - 1 \in 0..MaxCnt - 1 /\ k \in 1..used - 1 /\ k + 1 \in 1..used
      BY <1>1
    <2>2. Wrap(Wrap(start + 1) + (k - 1)) = Wrap(start + (k - 1) + 1)
      BY <1>1, <2>1, WrapSums
    <2>3. Wrap(start' + k - 1) = Wrap(start + k)
      <3>1. start \in Int /\ Wrap(start + 1) \in Int /\ k \in Int
        BY <1>1, <1>2, <2>1 DEF Slots
      <3>2. Wrap(start + 1) + (k - 1) = start' + k - 1 /\ start + (k - 1) + 1 = start + k
        BY <1>1, <3>1
      <3> QED BY <2>2, <3>2
    <2>4. Free'[k] = buffer'[Wrap(start' + k - 1)]
      BY <2>1 DEF Free, Wrap
    <2>5. Free[k + 1] = buffer[Wrap(start + k)]
      BY <1>1, <2>1 DEF Free, Wrap, Slots
    <2>6. buffer' = buffer
      BY DEF PopLocked
    <2> QED BY <2>3, <2>4, <2>5, <2>6
  <1>5. Free' = Tail(Free)
    <2>1. Free \in Seq(Entries) /\ Len(Free) = used /\ Free # <<>>
      BY FreeFacts
    <2>2. /\ Tail(Free) \in Seq(Entries) /\ Len(Tail(Free)) = used - 1
          /\ \A k \in 1..used - 1 : Tail(Free)[k] = Free[k + 1]
      BY <2>1, HeadTailProperties
    <2>3. \A k \in 1..used' : Free'[k] \in Entries
      BY <1>1, <1>4, FreeFacts
    <2>4. Free' \in [1..used' -> Entries]
      BY <2>3 DEF Free
    <2>5. Free' \in Seq(Entries) /\ Len(Free') = used - 1
      BY <1>1, <2>4
    <2> QED BY <1>1, <1>4, <2>2, <2>5, SeqEqual
  <1> QED BY <1>1, <1>2, <1>3, <1>4, <1>5

(* The push puts its chunk behind the list.                                *)
LEMMA PushIsAppend ==
  ASSUME TypeOK, used \in 0..MaxCnt - 1, NEW chunk \in Entries, PushLocked(chunk)
  PROVE  /\ Free' = Append(Free, chunk)
         /\ used' = used + 1 /\ buffer' \in [Slots -> Entries]
         /\ \A k \in 1..used : Free'[k] = Free[k]
         /\ Free'[used + 1] = chunk
  <1>1. start \in Slots /\ used \in Nat /\ used' = used + 1 /\ start' = start
    BY DEF TypeOK, RingTypeOK, PushLocked
  <1>2. PushPos \in Slots /\ PushPos = Wrap(start + used)
    BY <1>1, WrapInSlots DEF PushPos
  <1>3. buffer \in [Slots -> Entries] /\ buffer' = [buffer EXCEPT ![PushPos] = chunk]
    BY <1>2 DEF PushLocked, TypeOK, RingTypeOK
  <1>4. \A k \in 1..used' : Free'[k] = buffer'[Wrap(start + (k - 1))]
    BY <1>1 DEF Free, Wrap, Slots
  <1>5. \A k \in 1..used : Free'[k] = Free[k]
    <2> TAKE k \in 1..used
    <2>1. k - 1 \in 0..MaxCnt - 1 /\ used \in 0..MaxCnt - 1 /\ k - 1 # used
      BY <1>1
    <2>2. Wrap(start + (k - 1)) # PushPos
      BY <1>1, <1>2, <2>1, WrapSums
    <2>3. Wrap(start + (k - 1)) \in Slots
      BY <1>1, <2>1, WrapInSlots
    <2>4. Free[k] = buffer[Wrap(start + (k - 1))]
      BY <1>1 DEF Free, Wrap, Slots
    <2>5. Free'[k] = buffer'[Wrap(start + (k - 1))]
      BY <1>1, <1>4
    <2> QED BY <1>3, <2>2, <2>3, <2>4, <2>5
  <1>6. Free'[used + 1] = chunk
    <2>1. Free'[used + 1] = buffer'[Wrap(start + used)]
      BY <1>1, <1>4
    <2> QED BY <1>2, <1>3, <2>1
  <1>7. Free' = Append(Free, chunk)
    <2>1. Free \in Seq(Entries) /\ Len(Free) = used
      BY FreeFacts
    <2>2. /\ Append(Free, chunk) \in Seq(Entries) /\ Len(Append(Free, chunk)) = used + 1
          /\ \A k \in 1..used : Append(Free, chunk)[k] = Free[k]
          /\ Append(Free, chunk)[used + 1] = chunk
      BY <2>1, AppendProperties
    <2>3. \A k \in 1..used + 1 : Free'[k] = Append(Free, chunk)[k] /\ Free'[k] \in Entries
      BY <1>1, <1>5, <1>6, <2>2, FreeFacts
    <2>4. Free' \in [1..used + 1 -> Entries]
      BY <1>1, <2>3 DEF Free
    <2>5. Free' \in Seq(Entries) /\ Len(Free') = used + 1
      BY <1>1, <2>4
    <2> QED BY <1>1, <2>2, <2>3, <2>5, SeqEqual
  <1> QED BY <1>1, <1>3, <1>5, <1>6, <1>7

(* The list is never longer than the ring, and shorter while a chunk is    *)
(* outside: so it is at every push.                                        *)
LEMMA RoomForChunk ==
  ASSUME TypeOK, EveryChunkOnce, NEW chunk \in Entries, chunk \notin Range(Free)
  PROVE  used \in 0..MaxCnt - 1
  <1>1. used \in 0..MaxCnt
    BY DEF EveryChunkOnce
  <1>2. Free \in [1..used -> Entries \ {chunk}]
    BY <1>1, FreeFacts DEF Range
  <1>3. Free \in Injection(1..used, Entries \ {chunk})
    BY <1>2 DEF EveryChunkOnce, Injection
  <1>4. IsFiniteSet(Entries) /\ Cardinality(Entries) = MaxCnt
    <2>1. IsFiniteSet(0..MaxCnt - 1) /\ Cardinality(0..MaxCnt - 1) = MaxCnt
      BY FS_Interval
    <2> QED BY <2>1 DEF Slots
  <1>5. IsFiniteSet(Entries \ {chunk}) /\ Cardinality(Entries \ {chunk}) = MaxCnt - 1
    BY <1>4, FS_RemoveElement
  <1>6. Cardinality(1..used) <= MaxCnt - 1
    BY <1>3, <1>5, FS_Injection
  <1>7. Cardinality(1..used) = used
    BY <1>1, FS_Interval
  <1> QED BY <1>1, <1>6, <1>7

(* What the semaphore counts, with the threads behind it named.            *)
LEMMA SemFacts ==
  /\ SemCountsEntries <=> sem + (IF source = "locked" THEN 1 ELSE 0) + Cardinality(Unannounced) = used
  /\ IsFiniteSet(Unannounced) /\ Cardinality(Unannounced) \in Nat
  <1>1. IsFiniteSet(Unannounced) /\ Cardinality(Unannounced) \in Nat
    BY PushersAssumption, FS_Subset, FS_CardinalityType DEF Unannounced
  <1>2. SemCountsEntries <=> sem + (IF source = "locked" THEN 1 ELSE 0) + Cardinality(Unannounced) = used
    BY Zenon DEF SemCountsEntries, Unannounced
  <1> QED BY <1>1, <1>2

(* A popping thread that got through sem_wait finds a chunk.               *)
LEMMA ChunkForPromise ==
  ASSUME TypeOK, EveryChunkOnce, SemCountsEntries, source = "locked"
  PROVE  used \in 1..MaxCnt
  BY SemFacts DEF EveryChunkOnce, TypeOK, RingTypeOK

(* At the start the ring is full and in order, and nothing is under way.   *)
LEMMA InitFree == Init => TypeOK /\ used = MaxCnt /\ Free = [k \in 1..MaxCnt |-> k - 1]
  <1> SUFFICES ASSUME Init PROVE TypeOK /\ used = MaxCnt /\ Free = [k \in 1..MaxCnt |-> k - 1]
    OBVIOUS
  <1>1. used = MaxCnt /\ start = 0 /\ sem = MaxCnt /\ buffer = [s \in Slots |-> s]
    BY DEF Init, CreateFull
  <1>2. TypeOK
    BY <1>1 DEF Init, TypeOK, RingTypeOK, Slots
  <1>3. \A k \in 1..MaxCnt : buffer[Wrap(start + k - 1)] = k - 1
    BY <1>1 DEF Wrap, Slots
  <1> QED BY <1>1, <1>2, <1>3 DEF Free

(* The invariant holds at the start.                                        *)
LEMMA InitIInv == Init => IInv
  <1> SUFFICES ASSUME Init PROVE IInv
    OBVIOUS
  <1>1. TypeOK /\ used = MaxCnt /\ Free = [k \in 1..MaxCnt |-> k - 1]
    BY InitFree
  <1>2. HandInPlace /\ Held = {} /\ underWay = {}
    BY DEF Init, HandInPlace, Held
  <1>3. Range(Free) = Entries /\ IsInjective(Free)
    <2>1. DOMAIN Free = 1..MaxCnt /\ \A k \in 1..MaxCnt : Free[k] = k - 1
      BY <1>1
    <2>2. IsInjective(Free)
      BY <2>1 DEF IsInjective
    <2>3. \A e \in Entries : e + 1 \in 1..MaxCnt /\ Free[e + 1] = e
      BY <2>1 DEF Slots
    <2>4. Range(Free) \subseteq Entries
      BY <2>1 DEF Range, Slots
    <2>5. Entries \subseteq Range(Free)
      BY <2>1, <2>3 DEF Range
    <2> QED BY <2>2, <2>4, <2>5
  <1>4. EveryChunkOnce
    BY <1>1, <1>2, <1>3, NobodyIsNoChunk DEF EveryChunkOnce, Init
  <1>5. Unannounced = {}
    BY DEF Init, Unannounced
  <1>6. SemCountsEntries
    BY <1>1, <1>5, FS_EmptySet, SemFacts DEF Init, CreateFull
  <1> QED BY <1>1, <1>2, <1>4, <1>6 DEF IInv

-----------------------------------------------------------------------------

(* Every step keeps the types; the only ring the types alone do not keep   *)
(* is one that is pushed beyond its end.                                   *)
LEMMA NextTypeOK == IInv /\ [Next]_vars => TypeOK' /\ HandInPlace'
  <1> SUFFICES ASSUME IInv PROVE [Next]_vars => TypeOK' /\ HandInPlace'
    OBVIOUS
  <1> USE NobodyIsNoChunk DEF IInv, TypeOK, RingTypeOK, HandInPlace
  <1>1. CASE SourceWait
    BY <1>1 DEF SourceWait, PopWait, fields
  <1>2. CASE SourceTake
    <2>1. PICK chunk \in Entries : PopLocked(chunk) /\ underWay' = underWay \cup {chunk}
      BY <1>2 DEF SourceTake
    <2>2. start' \in Slots
      BY <1>2, <2>1, ChunkForPromise, PopIsTail DEF SourceTake
    <2> QED BY <1>2, <2>1, <2>2 DEF SourceTake, PopLocked
  <1>3. ASSUME NEW p \in Pushers, Arrive(p) PROVE TypeOK' /\ HandInPlace'
    BY <1>3 DEF Arrive, ringVars
  <1>4. ASSUME NEW p \in Pushers, Give(p) PROVE TypeOK' /\ HandInPlace'
    <2>1. hand[p] \in Entries /\ pusher[p] = "locked"
      BY <1>4 DEF Give
    <2>2. buffer' \in [Slots -> Entries]
      BY <1>4, <2>1 DEF Give, PushLocked
    <2> QED BY <1>4, <2>1, <2>2 DEF Give, PushLocked
  <1>5. ASSUME NEW p \in Pushers, Announce(p) PROVE TypeOK' /\ HandInPlace'
    BY <1>5 DEF Announce, PushPost, fields
  <1>6. CASE UNCHANGED vars
    BY <1>6 DEF vars, ringVars
  <1> QED BY <1>1, <1>2, <1>3, <1>4, <1>5, <1>6 DEF Next, Pusher

(* What a thread gives back was not in the ring, so there is room for it.  *)
LEMMA GiveFacts ==
  ASSUME IInv, NEW p \in Pushers, Give(p)
  PROVE  /\ hand[p] \in Entries /\ hand[p] \notin Range(Free)
         /\ used \in 0..MaxCnt - 1 /\ PushLocked(hand[p])
  <1>1. hand[p] # Nobody /\ hand[p] \in Entries
    BY DEF IInv, TypeOK, HandInPlace, Give
  <1>2. hand[p] \notin Range(Free)
    BY <1>1 DEF IInv, EveryChunkOnce, Held
  <1> QED BY <1>1, <1>2, RoomForChunk DEF IInv, Give

(* What the source takes was in the ring once.                             *)
LEMMA TakeFacts ==
  ASSUME IInv, SourceTake
  PROVE  /\ used \in 1..MaxCnt /\ Free[1] \in Entries /\ PopLocked(Free[1])
         /\ underWay' = underWay \cup {Free[1]}
  <1>1. used \in 1..MaxCnt
    BY ChunkForPromise DEF IInv, SourceTake
  <1>2. PICK chunk \in Entries : PopLocked(chunk) /\ underWay' = underWay \cup {chunk}
    BY DEF SourceTake
  <1>3. chunk = Free[1]
    BY <1>1, <1>2, PopIsTail DEF IInv
  <1> QED BY <1>1, <1>2, <1>3

(* Chunks move between the list, the way and the hands, one at a time.     *)
LEMMA NextEveryChunkOnce == IInv /\ [Next]_vars => EveryChunkOnce'
  <1> SUFFICES ASSUME IInv PROVE [Next]_vars => EveryChunkOnce'
    OBVIOUS
  <1> USE NobodyIsNoChunk
  <1>0. /\ used \in 0..MaxCnt /\ DOMAIN Free = 1..used
        /\ \A k \in 1..used : Free[k] \in Entries
    BY FreeFacts DEF IInv, EveryChunkOnce
  <1>1. ASSUME UNCHANGED <<fields, underWay, hand>> PROVE EveryChunkOnce'
    BY <1>1, KeptFree DEF IInv, EveryChunkOnce, Held, fields
  <1>2. CASE SourceTake
    <2>1. /\ used' = used - 1 /\ DOMAIN Free' = 1..used'
          /\ \A k \in 1..used' : Free'[k] = Free[k + 1]
      BY <1>2, TakeFacts, PopIsTail DEF IInv, Free
    <2>2. used \in 1..MaxCnt /\ underWay' = underWay \cup {Free[1]} /\ Held' = Held
      BY <1>2, TakeFacts DEF SourceTake, Held
    <2>3. IsInjective(Free) /\ IsInjective(Free')
      <3>1. IsInjective(Free)
        BY DEF IInv, EveryChunkOnce
      <3>2. \A k, l \in 1..used : Free[k] = Free[l] => k = l
        BY <1>0, <3>1 DEF IsInjective
      <3>3. \A k \in 1..used' : k + 1 \in 1..used /\ k \in Int
        BY <2>1, <2>2
      <3>4. \A k, l \in 1..used' : Free'[k] = Free'[l] => k = l
        <4> TAKE k, l \in 1..used'
        <4> HAVE Free'[k] = Free'[l]
        <4>1. Free[k + 1] = Free[l + 1]
          BY <2>1
        <4>2. k + 1 = l + 1
          BY <3>2, <3>3, <4>1
        <4> QED BY <3>3, <4>2
      <3> QED BY <2>1, <3>1, <3>4 DEF IsInjective
    <2>4. Range(Free') = Range(Free) \ {Free[1]}
      <3>1. Range(Free') \subseteq Range(Free) \ {Free[1]}
        BY <1>0, <2>1, <2>2, <2>3 DEF Range, IsInjective
      <3>2. ASSUME NEW k \in 1..used, Free[k] # Free[1] PROVE Free[k] \in Range(Free')
        <4>1. k - 1 \in 1..used' /\ Free'[k - 1] = Free[k]
          BY <1>0, <2>1, <2>2, <3>2
        <4> QED BY <2>1, <4>1 DEF Range
      <3> QED BY <1>0, <3>1, <3>2 DEF Range
    <2>5. Free[1] \in Range(Free)
      BY <1>0, <2>2 DEF Range
    <2> QED BY <1>0, <1>2, <2>1, <2>2, <2>3, <2>4, <2>5 DEF SourceTake, IInv, EveryChunkOnce
  <1>3. ASSUME NEW p \in Pushers, Arrive(p) PROVE EveryChunkOnce'
    <2>1. PICK chunk \in underWay : underWay' = underWay \ {chunk} /\ hand' = [hand EXCEPT ![p] = chunk]
      BY <1>3 DEF Arrive
    <2>2. UNCHANGED Free /\ used' = used
      BY <1>3, KeptFree DEF Arrive, ringVars, fields
    <2>3. hand[p] = Nobody /\ chunk \in Entries /\ hand \in [Pushers -> Entries \cup {Nobody}]
      BY <1>3 DEF Arrive, IInv, TypeOK, HandInPlace
    <2>4. Held' = Held \cup {chunk}
      BY <2>1, <2>3 DEF Held
    <2>5. \A q \in Pushers : hand[q] # chunk
      BY <2>3 DEF IInv, EveryChunkOnce, Held
    <2> QED BY <2>1, <2>2, <2>3, <2>4, <2>5 DEF IInv, EveryChunkOnce
  <1>4. ASSUME NEW p \in Pushers, Give(p) PROVE EveryChunkOnce'
    <2> DEFINE chunk == hand[p]
    <2>1. /\ used' = used + 1 /\ DOMAIN Free' = 1..used + 1
          /\ \A k \in 1..used : Free'[k] = Free[k]
          /\ Free'[used + 1] = chunk
      BY <1>4, GiveFacts, PushIsAppend DEF IInv, Free
    <2>2. chunk \in Entries /\ chunk \notin Range(Free) /\ used \in 0..MaxCnt - 1
      BY <1>4, GiveFacts
    <2>3. hand' = [hand EXCEPT ![p] = Nobody] /\ underWay' = underWay
      BY <1>4 DEF Give
    <2>4. IsInjective(Free')
      BY <1>0, <2>1, <2>2 DEF IInv, EveryChunkOnce, IsInjective, Range
    <2>5. Range(Free') = Range(Free) \cup {chunk}
      BY <1>0, <2>1, <2>2 DEF Range
    <2>6. hand \in [Pushers -> Entries \cup {Nobody}] /\ chunk \in Held
      BY <2>2 DEF IInv, TypeOK, Held
    <2>7. Held' = Held \ {chunk}
      BY <2>2, <2>3, <2>6 DEF Held, IInv, EveryChunkOnce
    <2> QED BY <2>1, <2>2, <2>3, <2>4, <2>5, <2>6, <2>7 DEF IInv, EveryChunkOnce
  <1> QED
    BY <1>1, <1>2, <1>3, <1>4
    DEF Next, Pusher, SourceWait, PopWait, Announce, PushPost, vars, ringVars, fields

(* The semaphore follows the ring: every push is to be announced, every    *)
(* promise is kept by the pop that follows it.                             *)
LEMMA NextSemCountsEntries == IInv /\ [Next]_vars => SemCountsEntries'
  <1> SUFFICES ASSUME IInv PROVE [Next]_vars => SemCountsEntries'
    OBVIOUS
  <1> DEFINE promised == IF source = "locked" THEN 1 ELSE 0
  <1>0. /\ sem \in Nat /\ used \in Int
        /\ sem + promised + Cardinality(Unannounced) = used
        /\ IsFiniteSet(Unannounced) /\ Cardinality(Unannounced) \in Nat
    BY SemFacts DEF IInv, TypeOK, RingTypeOK
  <1>9. ASSUME sem' + promised' + Cardinality(Unannounced') = used' PROVE SemCountsEntries'
    BY <1>9, Zenon DEF SemCountsEntries, Unannounced
  <1>10. promised \in {0, 1}
    OBVIOUS
  <1> HIDE DEF promised
  <1>1. CASE SourceWait
    <2>1. sem' = sem - 1 /\ used' = used /\ Unannounced' = Unannounced
      BY <1>1 DEF SourceWait, PopWait, fields, Unannounced
    <2>2. promised = 0 /\ promised' = 1
      BY <1>1 DEF SourceWait, promised
    <2> QED BY <1>0, <1>9, <2>1, <2>2
  <1>2. CASE SourceTake
    <2>1. sem' = sem /\ used' = used - 1 /\ Unannounced' = Unannounced
      BY <1>2 DEF SourceTake, PopLocked, Unannounced
    <2>2. promised = 1 /\ promised' = 0
      BY <1>2 DEF SourceTake, promised
    <2> QED BY <1>0, <1>9, <2>1, <2>2
  <1>3. ASSUME NEW p \in Pushers, Arrive(p) PROVE SemCountsEntries'
    <2>1. sem' = sem /\ used' = used /\ promised' = promised
      BY <1>3 DEF Arrive, ringVars, promised
    <2>2. Unannounced' = Unannounced
      BY <1>3 DEF Arrive, Unannounced, IInv, TypeOK
    <2> QED BY <1>0, <1>9, <2>1, <2>2
  <1>4. ASSUME NEW p \in Pushers, Give(p) PROVE SemCountsEntries'
    <2>1. sem' = sem /\ used' = used + 1 /\ promised' = promised
      BY <1>4 DEF Give, PushLocked, promised
    <2>2. p \notin Unannounced /\ Unannounced' = Unannounced \cup {p}
      BY <1>4 DEF Give, Unannounced, IInv, TypeOK
    <2>3. Cardinality(Unannounced') = Cardinality(Unannounced) + 1
      BY <1>0, <2>2, FS_AddElement
    <2> QED BY <1>0, <1>9, <1>10, <2>1, <2>3
  <1>5. ASSUME NEW p \in Pushers, Announce(p) PROVE SemCountsEntries'
    <2>1. sem' = sem + 1 /\ used' = used /\ promised' = promised
      BY <1>5 DEF Announce, PushPost, fields, promised
    <2>2. p \in Unannounced /\ Unannounced' = Unannounced \ {p}
      BY <1>5 DEF Announce, Unannounced, IInv, TypeOK
    <2>3. Cardinality(Unannounced') = Cardinality(Unannounced) - 1
      BY <1>0, <2>2, FS_RemoveElement
    <2> QED BY <1>0, <1>9, <1>10, <2>1, <2>3
  <1>6. CASE UNCHANGED vars
    <2>1. sem' = sem /\ used' = used /\ promised' = promised /\ Unannounced' = Unannounced
      BY <1>6 DEF vars, ringVars, promised, Unannounced
    <2> QED BY <1>0, <1>9, <2>1
  <1> QED BY <1>1, <1>2, <1>3, <1>4, <1>5, <1>6 DEF Next, Pusher

(* The invariant holds in every reachable state.                           *)
LEMMA InvariantHolds == Spec => []IInv
  <1>1. IInv /\ [Next]_vars => IInv'
    BY NextTypeOK, NextEveryChunkOnce, NextSemCountsEntries DEF IInv
  <1> QED BY <1>1, InitIInv, PTL DEF Spec

-----------------------------------------------------------------------------

(* The ring's start stays in the ring, its entries are chunks, and threads *)
(* of the ring's functions are where they can be.                          *)
THEOREM TypeCorrect == Spec => []TypeOK
  <1>1. IInv => TypeOK
    BY DEF IInv
  <1> QED BY <1>1, InvariantHolds, PTL

(* Every chunk is in the ring once, or under way, or in one hand; so no    *)
(* push overflows the ring, which ring_buffer.c:54 leaves unchecked.       *)
THEOREM ChunksAreOnce == Spec => []EveryChunkOnce
  <1>1. IInv => EveryChunkOnce
    BY DEF IInv
  <1> QED BY <1>1, InvariantHolds, PTL

(* The semaphore counts the entries a popping thread may take.             *)
THEOREM SemIsExact == Spec => []SemCountsEntries
  <1>1. IInv => SemCountsEntries
    BY DEF IInv
  <1> QED BY <1>1, InvariantHolds, PTL

(* The full ring is a list of all chunks.                                  *)
LEMMA InitImplements == Init => List!Init
  <1> SUFFICES ASSUME Init PROVE List!Init
    OBVIOUS
  <1>1. TypeOK /\ EveryChunkOnce /\ used = MaxCnt /\ underWay = {} /\ Held = {}
    BY InitFree, InitIInv DEF IInv, Init, Held
  <1>2. Free \in [1..Len(Free) -> Entries] /\ IsInjective(Free)
    BY <1>1, FreeFacts DEF EveryChunkOnce
  <1>3. Range(Free) = Entries
    BY <1>1 DEF EveryChunkOnce
  <1> QED BY <1>2, <1>3 DEF List!Init, List!IsInjective, List!Range, IsInjective, Range

(* A pop takes, a push gives, and all other steps leave the list alone.    *)
LEMMA NextImplements == IInv /\ [Next]_vars => [List!Next]_Free
  <1> SUFFICES ASSUME IInv PROVE [Next]_vars => [List!Next]_Free
    OBVIOUS
  <1>1. CASE SourceTake
    <2>1. Free' = Tail(Free) /\ used \in 1..MaxCnt
      BY <1>1, TakeFacts, PopIsTail DEF IInv
    <2>2. Free # <<>>
      BY <2>1, FreeFacts DEF IInv
    <2> QED BY <2>1, <2>2 DEF List!Next, List!Take
  <1>2. ASSUME NEW p \in Pushers, Give(p) PROVE List!Next
    <2>1. Free' = Append(Free, hand[p]) /\ hand[p] \in Entries /\ hand[p] \notin Range(Free)
      BY <1>2, GiveFacts, PushIsAppend DEF IInv
    <2> QED BY <2>1 DEF List!Next, List!Give, List!Range, Range
  <1>3. ASSUME UNCHANGED fields PROVE UNCHANGED Free
    BY <1>3, KeptFree
  <1> QED
    BY <1>1, <1>2, <1>3
    DEF Next, Pusher, SourceWait, PopWait, Arrive, Announce, PushPost, vars, ringVars, fields

(* The ring is the list of free chunks that Pipeline takes it for, of any  *)
(* size and with any number of threads that give chunks back.              *)
THEOREM RingIsFreeList == Spec => ImplementsFreeList
  <1> QED BY InitImplements, NextImplements, InvariantHolds, PTL DEF Spec, ImplementsFreeList, List!Spec
=============================================================================
