----------------------------- MODULE RingBuffer -----------------------------
(***************************************************************************)
(* misc/src/ring_buffer.c: a fixed ring of entries, a mutex for its        *)
(* fields and a semaphore that counts the entries a consumer may take.     *)
(* The semaphore is outside the locked section, so pop and push are two    *)
(* steps each; the locked section is one step, since every access to the   *)
(* fields is made under the mutex.  ChunkPool and CommandServer are the    *)
(* two users of the ring.                                                  *)
(***************************************************************************)
EXTENDS Integers

CONSTANTS
  MaxCnt,   \* ring->max_cnt
  Entries   \* what the ring can carry (a size_t: an offset or a pointer)

ASSUME MaxCntAssumption == MaxCnt \in Nat \ {0}

VARIABLES
  used,     \* ring->used
  start,    \* ring->start
  sem,      \* ring->sem
  buffer    \* ring->buffer

fields   == <<used, start, buffer>>
ringVars == <<used, start, buffer, sem>>

Slots == 0..MaxCnt - 1

RingTypeOK ==
  /\ used   \in Int
  /\ start  \in Slots
  /\ sem    \in Nat
  /\ buffer \in [Slots -> Entries]

\* ring_buffer_create(max_cnt, 0): a ring that counts all its slots as taken
CreateFull(contents) ==
  /\ used = MaxCnt
  /\ start = 0
  /\ sem = MaxCnt
  /\ buffer = contents

Wrap(pos) == IF pos >= MaxCnt THEN pos - MaxCnt ELSE pos

\* variant: the position is counted from the first slot
PushPosFromZero == IF used >= MaxCnt THEN used - MaxCnt ELSE used

PushPos == Wrap(start + used)

\* sem_wait(&ring->sem)
PopWait == sem > 0 /\ sem' = sem - 1 /\ UNCHANGED fields

\* variant: the number of used slots is not counted down
PopLockedKeepsUsed(entry) ==
  /\ entry = buffer[start]
  /\ start' = Wrap(start + 1)
  /\ UNCHANGED <<used, buffer, sem>>

\* the locked section of ring_buffer_pop, which returns entry
PopLocked(entry) ==
  /\ entry = buffer[start]
  /\ start' = Wrap(start + 1)
  /\ used' = used - 1
  /\ UNCHANGED <<buffer, sem>>

\* the locked section of ring_buffer_push; a position behind the last slot
\* is memory behind the struct, which no pop reads
PushLocked(entry) ==
  /\ buffer' = IF PushPos \in Slots THEN [buffer EXCEPT ![PushPos] = entry] ELSE buffer
  /\ used' = used + 1
  /\ UNCHANGED <<start, sem>>

\* variant: the entry is not announced
PushPostNothing == UNCHANGED ringVars

\* sem_post(&ring->sem)
PushPost == sem' = sem + 1 /\ UNCHANGED fields
=============================================================================
